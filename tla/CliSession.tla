----------------------------- MODULE CliSession -----------------------------
(***************************************************************************)
(* One CLI session per OLT: ztecli.Manager.Acquire and its only caller,    *)
(* olt.Service.withCLISession.  Acquire starts a goroutine that locks the  *)
(* OLT's mutex and closes a channel, and waits for that channel or for the *)
(* end of the call's context.  The goroutine cannot be told that the call  *)
(* gave up: it keeps waiting for the mutex, and locks it.  Nor can a call  *)
(* that runs be told: over SSH neither the handshake nor CombinedOutput    *)
(* has a context or a deadline.                                            *)
(***************************************************************************)
EXTENDS Naturals, FiniteSets

CONSTANTS
  Calls,      \* calls of withCLISession; each is made once
  Olts,       \* OLTs, by the key tenantID:oltID
  Ssh,        \* those whose CLI is reached over SSH
  Impatient,  \* the calls whose context may end before they get the lock
  None        \* nobody

ASSUME CallConstants == Impatient \subseteq Calls /\ Ssh \subseteq Olts /\ None \notin Calls \cup Olts

VARIABLES
  step,     \* where each call is
  olt,      \* the OLT it is for
  helper,   \* the goroutine Acquire started for it
  expired,  \* the calls whose context has ended
  mutex,    \* the call whose goroutine locked the mutex of an OLT
  session,  \* the calls with an open session on their OLT
  hung      \* the calls the OLT will never answer

vars == <<step, olt, helper, expired, mutex, session, hung>>

CallSteps   == {"new", "waiting", "connecting", "running", "closing", "ended"}
HelperSteps == {"none", "queued", "locked", "released"}

(* Calls go through the steps of withCLISession; a mutex belongs to the    *)
(* call it was locked for.                                                 *)
TypeOK ==
  /\ step \in [Calls -> CallSteps]
  /\ olt \in [Calls -> Olts \cup {None}]
  /\ helper \in [Calls -> HelperSteps]
  /\ expired \in SUBSET Calls
  /\ mutex \in [Olts -> Calls \cup {None}]
  /\ session \in SUBSET Calls
  /\ hung \in SUBSET Calls

Init ==
  /\ step = [c \in Calls |-> "new"]
  /\ olt = [c \in Calls |-> None]
  /\ helper = [c \in Calls |-> "none"]
  /\ expired = {}
  /\ mutex = [o \in Olts |-> None]
  /\ session = {}
  /\ hung = {}

-----------------------------------------------------------------------------
Move(c, from, to) == step[c] = from /\ step' = [step EXCEPT ![c] = to]

(* release(): block.Unlock().                                              *)
Unlock(c) ==
  /\ mutex' = [mutex EXCEPT ![olt[c]] = None]
  /\ helper' = [helper EXCEPT ![c] = "released"]

(* Acquire finds or makes the mutex of the OLT and starts the goroutine.   *)
Acquire(c, o) ==
  /\ Move(c, "new", "waiting")
  /\ olt' = [olt EXCEPT ![c] = o]
  /\ helper' = [helper EXCEPT ![c] = "queued"]
  /\ UNCHANGED <<expired, mutex, session, hung>>

\* Bug: no mutual exclusion, as with a mutex per call instead of per OLT.
HelperLocksOwn(c) ==
  /\ helper[c] = "queued"
  /\ mutex' = [mutex EXCEPT ![olt[c]] = c]
  /\ helper' = [helper EXCEPT ![c] = "locked"]
  /\ UNCHANGED <<step, olt, expired, session, hung>>

(* block.Lock(); close(acquired), whether or not anybody still waits.      *)
HelperLocks(c) ==
  /\ helper[c] = "queued"
  /\ mutex[olt[c]] = None
  /\ mutex' = [mutex EXCEPT ![olt[c]] = c]
  /\ helper' = [helper EXCEPT ![c] = "locked"]
  /\ UNCHANGED <<step, olt, expired, session, hung>>

(* case <-acquired.                                                        *)
Enter(c) ==
  /\ Move(c, "waiting", "connecting")
  /\ helper[c] = "locked"
  /\ UNCHANGED <<olt, helper, expired, mutex, session, hung>>

Expire(c) ==
  /\ c \in Impatient \ expired
  /\ step[c] \notin {"new", "ended"}
  /\ expired' = expired \cup {c}
  /\ UNCHANGED <<step, olt, helper, mutex, session, hung>>

\* Bug: a call that gives up first waits for its goroutine to have the lock.
GiveUpAfterHelper(c) ==
  /\ c \in expired
  /\ helper[c] = "locked"
  /\ Move(c, "waiting", "ended")
  /\ UNCHANGED <<olt, helper, expired, mutex, session, hung>>

(* case <-ctx.Done(): ErrLocked.  With both cases ready either is taken.   *)
GiveUp(c) ==
  /\ c \in expired
  /\ Move(c, "waiting", "ended")
  /\ UNCHANGED <<olt, helper, expired, mutex, session, hung>>

Connect(c) ==
  /\ c \notin hung
  /\ Move(c, "connecting", "running")
  /\ session' = session \cup {c}
  /\ UNCHANGED <<olt, helper, expired, mutex, hung>>

\* Bug: the early returns of withCLISession skip the release.
ConnectFailsHolding(c) ==
  /\ c \notin hung
  /\ Move(c, "connecting", "ended")
  /\ UNCHANGED <<olt, helper, expired, mutex, session, hung>>

(* The credentials cannot be read or the OLT refuses: defer release().     *)
ConnectFails(c) ==
  /\ c \notin hung
  /\ Move(c, "connecting", "ended")
  /\ Unlock(c)
  /\ UNCHANGED <<olt, expired, session, hung>>

(* The OLT keeps the SSH connection up and never answers: the handshake of *)
(* Dial or the CombinedOutput of a command waits for it without a timeout. *)
Hang(c) ==
  /\ step[c] \in {"connecting", "running"}
  /\ olt[c] \in Ssh
  /\ hung' = hung \cup {c}
  /\ UNCHANGED <<step, olt, helper, expired, mutex, session>>

\* Bug: the deferred calls in the other order.
CloseAfterRelease(c) ==
  /\ c \notin hung
  /\ Move(c, "running", "closing")
  /\ Unlock(c)
  /\ UNCHANGED <<olt, expired, session, hung>>

(* fn returns, and session.Close() is the first deferred call to run.      *)
Close(c) ==
  /\ c \notin hung
  /\ Move(c, "running", "closing")
  /\ session' = session \ {c}
  /\ UNCHANGED <<olt, helper, expired, mutex, hung>>

Release(c) ==
  /\ Move(c, "closing", "ended")
  /\ Unlock(c)
  /\ UNCHANGED <<olt, expired, session, hung>>

-----------------------------------------------------------------------------
(* What the code of a call does by itself once it has begun.               *)
Advance(c) ==
  Enter(c) \/ GiveUp(c) \/ Connect(c) \/ ConnectFails(c) \/ Close(c) \/ Release(c)

Next == \E c \in Calls :
  (\E o \in Olts : Acquire(c, o)) \/ HelperLocks(c) \/ Expire(c) \/ Hang(c) \/ Advance(c)

Spec == Init /\ [][Next]_vars

(* A sync.Mutex hands itself to its oldest waiter after a millisecond, so  *)
(* a goroutine that waits for one that is released again and again gets    *)
(* it.  Contexts end, and telnet reads and dials have timeouts; over SSH   *)
(* nothing has once the connection is up, so a call that hangs does not    *)
(* advance.                                                                *)
FairSpec ==
  /\ Spec
  /\ \A c \in Calls :
       SF_vars(HelperLocks(c)) /\ WF_vars(Advance(c)) /\ WF_vars(Expire(c))
-----------------------------------------------------------------------------
(* No two sessions are open on one OLT, whatever contexts end: this is     *)
(* what withCLISession is for.                                             *)
OneSessionPerOlt ==
  \A c, d \in session : olt[c] = olt[d] => c = d

(* A mutex is held for exactly the call whose goroutine locked it and has  *)
(* not been released, and every call past Acquire holds its OLT's.         *)
LockFollowsHelper ==
  /\ \A c \in Calls : \A o \in Olts :
       mutex[o] = c <=> helper[c] = "locked" /\ olt[c] = o
  /\ \A c \in Calls : step[c] \in {"connecting", "running", "closing"} => helper[c] = "locked"
  /\ \A c \in session : step[c] = "running"

(* The OLT's mutex was locked for a call that has given up, and nobody     *)
(* will unlock it, or for one that hangs in SSH.                           *)
Abandoned(o) == mutex[o] \in expired /\ step[mutex[o]] = "ended"
Stuck(o)     == Abandoned(o) \/ mutex[o] \in hung

(* A call that waits ends, unless it gets the lock and hangs in SSH.  One  *)
(* whose context ends while it waits does so even on an OLT nobody will    *)
(* unlock, and for the others such an OLT is the only thing that can keep  *)
(* them.                                                                   *)
EveryCallEnds ==
  \A c \in Calls, o \in Olts :
    step[c] = "waiting" /\ olt[c] = o
      ~> step[c] = "ended" \/ c \in hung \/ (c \notin Impatient /\ Stuck(o))

(* An OLT that is locked is free again some time later, unless the call it *)
(* was locked for gave up or hangs: over telnet only the former.           *)
LockComesBackUnlessStuck ==
  \A o \in Olts :
    mutex[o] # None ~> mutex[o] = None \/ Abandoned(o) \/ (o \in Ssh /\ mutex[o] \in hung)
=============================================================================
