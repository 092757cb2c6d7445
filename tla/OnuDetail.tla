----------------------------- MODULE OnuDetail -----------------------------
(***************************************************************************)
(* The configuration of the ONUs of one OLT and the copy of it that the    *)
(* ONU panel shows, olt_onus.detail_config_cache.  The copy is read over   *)
(* the CLI and saved later, outside the CLI session, by three kinds of     *)
(* goroutines:                                                             *)
(*   fetch   backgroundFetchONUConfigDetail or scheduleCLIRefresh, one per *)
(*           OLT (detailFetchInFlight), started by a panel or a live sync; *)
(*   force   a panel request with force_cli;                               *)
(*   snmp, verified, blind   ApplyONUConfigCLI: over SNMP, or over the CLI *)
(*           with an operation it reads back, or with one it does not.     *)
(* Their saves end with their contexts.  So do their CLI commands over     *)
(* telnet; over SSH a command has no deadline, and one the OLT never       *)
(* answers holds the OLT's CLI session for good.  Time is counted in ticks.*)
(***************************************************************************)
EXTENDS Naturals

CONSTANTS
  Onus,       \* the ONUs of the OLT
  Workers,    \* goroutines that may be at work at a time
  Applies,    \* the ways ApplyONUConfigCLI is asked to go
  Ssh,        \* whether the OLT's CLI is reached over SSH
  Lifetime,   \* how long a saved copy counts as fresh: five minutes
  Timeout,    \* the longest context of a goroutine that saves: 70 seconds
  MaxConfig   \* bounds how often the configuration of each ONU changes

AllApplies == {"snmp", "verified", "blind"}
Kinds      == {"fetch", "force"} \cup AllApplies

ASSUME DetailConstants ==
  /\ Applies \subseteq AllApplies /\ Ssh \in BOOLEAN
  /\ Lifetime \in Nat \ {0} /\ Timeout \in Nat /\ MaxConfig \in [Onus -> Nat]

VARIABLES
  config,     \* the configuration on the OLT, counted up by its changes
  cache,      \* detail_config_cache and how long ago it was saved
  confirmed,  \* the last change of each ONU that a client was told is applied
  inFlight,   \* whether detailFetchInFlight holds the OLT's key
  job         \* what each goroutine is doing

vars == <<config, cache, confirmed, inFlight, job>>

(* Both copies carry how long the configuration they hold has no longer    *)
(* been the OLT's; clocks stop where nothing depends on them any more.     *)
MaxStale == Lifetime + Timeout + 1

Copy    == [config : Nat, stale : 0 .. MaxStale]
Job     == [kind : Kinds, onu : Onus, step : {"begin", "read", "invalidated", "hung"},
            mine : Nat, got : Copy, age : 0 .. Timeout + 1]
NoCopy  == [config |-> 0, stale |-> 0]
NoCache == [present |-> FALSE, copy |-> NoCopy, age |-> 0]
Idle    == [kind |-> "none"]

TypeOK ==
  /\ config \in [Onus -> Nat]
  /\ cache \in [Onus -> [present : BOOLEAN, copy : Copy, age : 0 .. Lifetime]]
  /\ confirmed \in [Onus -> Nat]
  /\ inFlight \in BOOLEAN
  /\ job \in [Workers -> Job \cup {Idle}]

Init ==
  /\ config = [i \in Onus |-> 0]
  /\ cache = [i \in Onus |-> NoCache]
  /\ confirmed = [i \in Onus |-> 0]
  /\ inFlight = FALSE
  /\ job = [w \in Workers |-> Idle]

-----------------------------------------------------------------------------
NewJob(kind, i) ==
  [kind |-> kind, onu |-> i, step |-> "begin", got |-> NoCopy, age |-> 0,
   mine |-> IF kind \in AllApplies THEN config'[i] ELSE 0]

Does(w, kinds, step) == job[w].kind \in kinds /\ job[w].step = step

(* A goroutine hangs in the CLI session of the OLT.                        *)
Jammed == \E w \in Workers : Does(w, Kinds, "hung")

(* The contexts of the probe and, but for applying, of the save.           *)
InTime(w) == job[w].age <= Timeout

Fresh(i) == cache[i].present /\ cache[i].age < Lifetime

Start(w, kind, i) ==
  /\ job[w] = Idle
  /\ job' = [job EXCEPT ![w] = NewJob(kind, i)]

\* Bug: the key is deleted by goroutines that did not store it.
EndDeletingKey(w) ==
  /\ job' = [job EXCEPT ![w] = Idle]
  /\ inFlight' = FALSE

(* The goroutine ends; defer detailFetchInFlight.Delete(key).              *)
End(w) ==
  /\ job' = [job EXCEPT ![w] = Idle]
  /\ inFlight' = (inFlight /\ job[w].kind # "fetch")

(* SaveONUDetailCache: one UPDATE, whatever the row holds by now.          *)
Store(w) == cache' = [cache EXCEPT ![job[w].onu] =
                        [present |-> TRUE, copy |-> job[w].got, age |-> 0]]

\* Bug: a panel that has something to show fetches nothing.
OpenEmptyPanel(w, i) ==
  /\ ~cache[i].present
  /\ ~inFlight
  /\ inFlight' = TRUE
  /\ UNCHANGED <<config, cache, confirmed>>
  /\ Start(w, "fetch", i)

(* GetONUConfigDetail without a fresh copy calls scheduleDetailConfigFetch,*)
(* SyncONULiveByRef without an SNMP answer scheduleCLIRefresh: if neither  *)
(* is running for this OLT, whatever the ONU, one is started.              *)
OpenPanel(w, i) ==
  /\ ~Fresh(i)
  /\ ~inFlight
  /\ inFlight' = TRUE
  /\ UNCHANGED <<config, cache, confirmed>>
  /\ Start(w, "fetch", i)

LiveSyncFallback(w, i) ==
  /\ ~inFlight
  /\ inFlight' = TRUE
  /\ UNCHANGED <<config, cache, confirmed>>
  /\ Start(w, "fetch", i)

ForceCLI(w, i) ==
  /\ UNCHANGED <<config, cache, confirmed, inFlight>>
  /\ Start(w, "force", i)

(* ProbeONUConfigCLI, in a CLI session of its own.  Reading back after an  *)
(* apply repeats it until the change is there.                             *)
Probe(w) ==
  /\ Does(w, {"fetch", "force", "verified"}, "begin")
  /\ InTime(w) /\ ~Jammed
  /\ job' = [job EXCEPT ![w].step = "read",
                        ![w].got = [config |-> config[job[w].onu], stale |-> 0]]
  /\ UNCHANGED <<config, cache, confirmed, inFlight>>

(* session.Execute over SSH waits in CombinedOutput for the OLT.  The one  *)
(* that has read may be in the second probe of scheduleCLIRefresh.         *)
Hang(w) ==
  /\ Ssh /\ ~Jammed
  /\ \/ Does(w, Kinds \ {"snmp"}, "begin")
     \/ Does(w, {"fetch"}, "read")
  /\ job' = [job EXCEPT ![w].step = "hung", ![w].got = NoCopy, ![w].age = Timeout + 1]
  /\ UNCHANGED <<config, cache, confirmed, inFlight>>

\* Bug: the save gets a context of its own.
SaveLate(w) ==
  /\ Does(w, {"fetch", "force"}, "read")
  /\ Store(w)
  /\ End(w)
  /\ UNCHANGED <<config, confirmed>>

Save(w) ==
  /\ Does(w, {"fetch", "force"}, "read")
  /\ InTime(w)
  /\ Store(w)
  /\ End(w)
  /\ UNCHANGED <<config, confirmed>>

\* Bug: the error return skips the deletion of the key.
FailKeepingKey(w) ==
  /\ job[w] # Idle /\ ~Does(w, Kinds, "hung")
  /\ job' = [job EXCEPT ![w] = Idle]
  /\ UNCHANGED <<config, cache, confirmed, inFlight>>

(* An error, or the context is over: nothing is saved, and what an apply   *)
(* has changed on the OLT stays changed.                                   *)
Fail(w) ==
  /\ job[w] # Idle /\ ~Does(w, Kinds, "hung")
  /\ End(w)
  /\ UNCHANGED <<config, cache, confirmed>>

-----------------------------------------------------------------------------
(* ApplyONUConfigCLI changes the OLT with its first successful command.    *)
Apply(w, kind, i) ==
  /\ config[i] < MaxConfig[i]
  /\ Jammed => kind = "snmp"
  /\ config' = [config EXCEPT ![i] = @ + 1]
  /\ UNCHANGED <<cache, confirmed, inFlight>>
  /\ Start(w, kind, i)

Confirm(w) == confirmed' = [confirmed EXCEPT ![job[w].onu] = job[w].mine]

(* The SNMP path returns as soon as the set has been read back by SNMP.    *)
AppliedViaSNMP(w) ==
  /\ Does(w, {"snmp"}, "begin")
  /\ Confirm(w)
  /\ End(w)
  /\ UNCHANGED <<config, cache>>

(* The snapshot that verified the change is saved, within five seconds of  *)
(* a context of its own.                                                   *)
AppliedAndVerified(w) ==
  /\ Does(w, {"verified"}, "read")
  /\ InTime(w)
  /\ Store(w)
  /\ Confirm(w)
  /\ End(w)
  /\ UNCHANGED config

Invalidate(w) ==
  /\ Does(w, {"blind"}, "begin")
  /\ cache' = [cache EXCEPT ![job[w].onu] = NoCache]
  /\ job' = [job EXCEPT ![w].step = "invalidated"]
  /\ UNCHANGED <<config, confirmed, inFlight>>

(* scheduleDetailConfigFetch: the goroutine goes on as the fetch unless    *)
(* one is running.                                                         *)
AppliedBlindly(w) ==
  /\ Does(w, {"blind"}, "invalidated")
  /\ Confirm(w)
  /\ inFlight' = TRUE
  /\ UNCHANGED <<config, cache>>
  /\ job' = [job EXCEPT ![w] = IF inFlight THEN Idle ELSE NewJob("fetch", job[w].onu)]

(* The other ways the configuration changes: provisioning, deleting, raw   *)
(* CLI commands, a technician at the OLT.                                  *)
ChangeElsewhere(i) ==
  /\ config[i] < MaxConfig[i]
  /\ config' = [config EXCEPT ![i] = @ + 1]
  /\ UNCHANGED <<cache, confirmed, inFlight, job>>

(* UpsertONUs replaces every row of the OLT by one without a copy.         *)
FullSync ==
  /\ cache' = [i \in Onus |-> NoCache]
  /\ UNCHANGED <<config, confirmed, inFlight, job>>

-----------------------------------------------------------------------------
Least(m, n) == IF m < n THEN m ELSE n

Aged(copy, i) ==
  IF copy.config = config[i] THEN copy
  ELSE [copy EXCEPT !.stale = Least(@ + 1, MaxStale)]

Tick ==
  /\ cache' = [i \in Onus |->
       IF cache[i].present
       THEN [cache[i] EXCEPT !.age = Least(@ + 1, Lifetime), !.copy = Aged(@, i)]
       ELSE cache[i]]
  /\ job' = [w \in Workers |->
       IF job[w] = Idle THEN Idle
       ELSE [job[w] EXCEPT !.age = Least(@ + 1, Timeout + 1),
                           !.got = IF job[w].step = "read" THEN Aged(@, job[w].onu) ELSE @]]
  /\ UNCHANGED <<config, confirmed, inFlight>>

Conclude(w) ==
  \/ Save(w) \/ Fail(w)
  \/ AppliedViaSNMP(w) \/ AppliedAndVerified(w) \/ AppliedBlindly(w)

Next ==
  \/ Tick \/ FullSync
  \/ \E i \in Onus : ChangeElsewhere(i)
  \/ \E w \in Workers :
       \/ Probe(w) \/ Invalidate(w) \/ Hang(w) \/ Conclude(w)
       \/ \E i \in Onus :
            \/ OpenPanel(w, i) \/ LiveSyncFallback(w, i) \/ ForceCLI(w, i)
            \/ \E kind \in Applies : Apply(w, kind, i)

Spec == Init /\ [][Next]_vars

(* Goroutines run, their contexts end, telnet and SNMP time out, and time  *)
(* passes; nothing ends a goroutine that hangs in SSH, or makes one hang.  *)
(* The rest is asked of the users and of the OLT: panels are opened again  *)
(* and again, and a CLI read that is tried often enough succeeds while no  *)
(* other goroutine hangs in the session.                                   *)
FairSpec ==
  /\ Spec
  /\ WF_vars(Tick)
  /\ \A w \in Workers : WF_vars(Probe(w) \/ Invalidate(w) \/ Conclude(w))
  /\ \A i \in Onus :
       /\ SF_vars(\E w \in Workers : OpenPanel(w, i))
       /\ SF_vars(\E w \in Workers : job[w] # Idle /\ job[w].onu = i /\ Probe(w))
       /\ SF_vars(\E w \in Workers : job[w] # Idle /\ job[w].onu = i /\ Save(w))
-----------------------------------------------------------------------------
(* One background CLI job per OLT, and the key is there exactly while it   *)
(* runs: it is removed by whoever stored it and by nobody else.            *)
OneFetchPerOlt ==
  /\ \A v, w \in Workers : job[v].kind = "fetch" /\ job[w].kind = "fetch" => v = w
  /\ inFlight <=> \E w \in Workers : job[w].kind = "fetch"

(* The bound a reader of the panel may rely on: what a fresh copy shows    *)
(* was the configuration of the OLT at most a lifetime and a timeout ago,  *)
(* however the change was made and whatever was saved over it.             *)
FreshIsRecent ==
  \A i \in Onus : Fresh(i) => cache[i].copy.stale <= cache[i].age + Timeout

(* A background job ends, so that the next panel can start one, whatever   *)
(* happens to it but one thing: it is the goroutine that hangs in SSH.     *)
(* One that waits behind a hanging goroutine ends all the same.            *)
FetchComesBack ==
  inFlight ~> ~inFlight \/ \E w \in Workers : Does(w, {"fetch"}, "hung")

(* Once an ONU is no longer changed its panel stops showing an old         *)
(* configuration for good, late savers and other ONUs' fetches regardless, *)
(* unless the CLI of the OLT is lost to a goroutine that hangs.            *)
PanelsCatchUp ==
  \A i \in Onus :
    <>[](Jammed \/ (cache[i].present => cache[i].copy.config = config[i]))

(* What the end of ApplyONUConfigCLI is there for: no panel shows a        *)
(* configuration older than a change that was reported as applied.         *)
AppliedIsShown ==
  \A i \in Onus : cache[i].present => cache[i].copy.config >= confirmed[i]
=============================================================================
