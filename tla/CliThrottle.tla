---------------------------- MODULE CliThrottle ----------------------------
(***************************************************************************)
(* What an OLT is sent and how fast: oltThrottle.wait of internal/ztecli   *)
(* and its callers, Session.Execute and, over SSH, ExecuteSequence.  An    *)
(* OLT has one session at a time (module CliSession), so one sequence of   *)
(* calls is all there is; Session.Close over telnet is two more of them.   *)
(* Not every line waits its turn: the shell that Execute falls back to and *)
(* the first and last line of every shell are written without wait.  The   *)
(* login and the spaces that page through an answer are no commands and    *)
(* are left out.  Time is counted in ticks.  The state machine bears the   *)
(* throttle's name, so that a module can extend CliSession too.            *)
(***************************************************************************)
EXTENDS Integers, Sequences

CONSTANTS
  MinGap,        \* ZTECLI_MIN_GAP_MS
  Minute,        \* time.Minute
  MaxPerMinute,  \* ZTECLI_MAX_PER_MINUTE
  Pace,          \* the pause after a line written to telnet or to an SSH shell
  Settle,        \* the pause between opening a shell and writing to it
  Jitter,        \* how long after the time wait remembers a command may be
                 \* written: a sleep that overslept, stale output drained, a
                 \* channel opened
  SeqLengths,    \* the lengths of the sequences asked for over SSH
  Horizon        \* no command is asked for after this time

ASSUME ThrottleConstants ==
  /\ MinGap \in Nat /\ Minute \in Nat /\ MaxPerMinute \in Nat \ {0}
  /\ Pace \in Nat /\ Settle \in Nat /\ Jitter \in Nat
  /\ SeqLengths \subseteq Nat \ {0}
  /\ Horizon \in Nat

VARIABLES
  now,
  lastCommand, windowStart, windowCount,  \* the fields of oltThrottle
  stage,    \* what the session is doing
  toWait,   \* ExecuteSequence: waits it still has to make
  toSend,   \* ExecuteSequence: commands it has not written yet
  waits,    \* how often wait has returned nil so far
  sent      \* the lines the OLT was sent, in order

throttle     == <<lastCommand, windowStart, windowCount, waits>>
throttleVars == <<now, lastCommand, windowStart, windowCount, stage, toWait, toSend, waits, sent>>

(* The zero time.Time lies more than a minute and a gap before the start.  *)
ZeroTime == -(Minute + MinGap + 1)

(* Between calls; after an exec over SSH; waiting for a sequence's turns;  *)
(* in the shell opened for it.                                             *)
Stages == {"idle", "exec", "waits", "shell"}

(* A line is a command Execute waited for, one of a sequence, or a line    *)
(* nobody waited for; it knows how many waits were made before it.         *)
Lines == [at : Nat, kind : {"single", "seq", "free"}, paid : Nat]

(* The throttle never counts past its quota.                               *)
ThrottleTypeOK ==
  /\ now \in Nat
  /\ lastCommand \in Int /\ windowStart \in Int
  /\ windowCount \in 0 .. MaxPerMinute
  /\ stage \in Stages
  /\ toWait \in Nat /\ toSend \in Nat /\ waits \in Nat
  /\ sent \in Seq(Lines)

ThrottleInit ==
  /\ now = 0
  /\ lastCommand = ZeroTime /\ windowStart = ZeroTime /\ windowCount = 0
  /\ stage = "idle" /\ toWait = 0 /\ toSend = 0 /\ waits = 0
  /\ sent = <<>>

-----------------------------------------------------------------------------
NewWindow == now - windowStart > Minute
Counted   == IF NewWindow THEN 0 ELSE windowCount
Delay     == IF now - lastCommand < MinGap THEN MinGap - (now - lastCommand) ELSE 0

(* When the caller of wait goes on.                                        *)
Woken(late) == now + Delay + late

\* Bug: the early return after the sleep forgets to count.
WaitUncounted ==
  /\ Counted < MaxPerMinute
  /\ windowStart' = IF NewWindow THEN now ELSE windowStart
  /\ windowCount' = IF Delay = 0 THEN Counted + 1 ELSE Counted
  /\ lastCommand' = now + Delay
  /\ waits' = waits + 1

\* Bug: the quota is counted but no longer enforced.
WaitUnlimited ==
  /\ windowStart' = IF NewWindow THEN now ELSE windowStart
  /\ windowCount' = Counted + 1
  /\ lastCommand' = now + Delay
  /\ waits' = waits + 1

\* Bug: what is remembered is when the wait began, not when it ends.
WaitFromEntry ==
  /\ Counted < MaxPerMinute
  /\ windowStart' = IF NewWindow THEN now ELSE windowStart
  /\ windowCount' = Counted + 1
  /\ lastCommand' = now
  /\ waits' = waits + 1

(* wait returns nil, after sleeping when the last command is too recent.   *)
Wait ==
  /\ Counted < MaxPerMinute
  /\ windowStart' = IF NewWindow THEN now ELSE windowStart
  /\ windowCount' = Counted + 1
  /\ lastCommand' = now + Delay
  /\ waits' = waits + 1

Tick == now < Horizon /\ now' = now + 1 /\ UNCHANGED <<throttle, stage, toWait, toSend, sent>>

(* The lines whose kinds are given are written at t without a pause.       *)
Write(t, kinds, paid) ==
  sent' = sent \o [i \in 1 .. Len(kinds) |-> [at |-> t, kind |-> kinds[i], paid |-> paid]]

(* Execute waits, and then writes its command, unless its context has      *)
(* ended or no SSH channel opens.                                          *)
WaitInVain(late) ==
  /\ stage = "idle" /\ now < Horizon
  /\ Wait
  /\ now' = Woken(late)
  /\ UNCHANGED <<stage, toWait, toSend, sent>>

ExecuteTelnet(late) ==
  /\ stage = "idle" /\ now < Horizon
  /\ Wait
  /\ Write(Woken(late), <<"single">>, waits')
  /\ now' = Woken(late) + Pace
  /\ UNCHANGED <<stage, toWait, toSend>>

ExecuteSsh(late) ==
  /\ stage = "idle" /\ now < Horizon
  /\ Wait
  /\ Write(Woken(late), <<"single">>, waits')
  /\ now' = Woken(late)
  /\ stage' = "exec"
  /\ UNCHANGED <<toWait, toSend>>

(* The exec is answered, or the shell for it cannot be opened either.      *)
Answered ==
  /\ stage = "exec" /\ stage' = "idle"
  /\ UNCHANGED <<now, throttle, toWait, toSend, sent>>

(* executeSSHViaShell: an exec that printed nothing is sent again through  *)
(* a shell, with two lines around it, and without another wait.            *)
Resend ==
  /\ stage = "exec" /\ stage' = "idle"
  /\ Write(now + Settle, <<"free", "free", "free">>, waits)
  /\ now' = now + Settle
  /\ UNCHANGED <<throttle, toWait, toSend>>

(* ExecuteSequence over SSH waits once per command before it opens the     *)
(* shell that it then writes them to.                                      *)
BeginSequence(n) ==
  /\ stage = "idle" /\ now < Horizon
  /\ stage' = "waits"
  /\ toWait' = n /\ toSend' = n
  /\ UNCHANGED <<now, throttle, sent>>

SequenceWait(late) ==
  /\ toWait > 0
  /\ Wait
  /\ now' = Woken(late)
  /\ toWait' = toWait - 1
  /\ UNCHANGED <<stage, toSend, sent>>

(* ErrRateLimited, or no shell: none of its commands is sent.              *)
SequenceFails ==
  /\ stage = "waits"
  /\ toWait > 0 => Counted >= MaxPerMinute
  /\ stage' = "idle" /\ toWait' = 0 /\ toSend' = 0
  /\ UNCHANGED <<now, throttle, sent>>

(* "terminal length 0", and the first command right after it.              *)
OpenShell ==
  /\ stage = "waits" /\ toWait = 0
  /\ stage' = "shell"
  /\ Write(now + Settle, <<"free", "seq">>, waits)
  /\ now' = now + Settle + Pace
  /\ toSend' = toSend - 1
  /\ UNCHANGED <<throttle, toWait>>

\* Bug: the commands are written in one go.
SequenceSendAtOnce ==
  /\ stage = "shell" /\ toSend > 0
  /\ Write(now, <<"seq">>, waits)
  /\ toSend' = toSend - 1
  /\ UNCHANGED <<now, throttle, stage, toWait>>

SequenceSend ==
  /\ stage = "shell" /\ toSend > 0
  /\ Write(now, <<"seq">>, waits)
  /\ now' = now + Pace
  /\ toSend' = toSend - 1
  /\ UNCHANGED <<throttle, stage, toWait>>

(* "exit"; the shell ends, or is closed when the deadline comes.           *)
SequenceExit ==
  /\ stage = "shell" /\ toSend = 0
  /\ Write(now, <<"free">>, waits)
  /\ stage' = "idle"
  /\ UNCHANGED <<now, throttle, toWait, toSend>>

-----------------------------------------------------------------------------
ThrottleNext ==
  \/ Tick
  \/ \E late \in 0 .. Jitter :
       WaitInVain(late) \/ ExecuteTelnet(late) \/ ExecuteSsh(late) \/ SequenceWait(late)
  \/ Answered \/ Resend
  \/ \E n \in SeqLengths : BeginSequence(n)
  \/ SequenceFails \/ OpenShell \/ SequenceSend \/ SequenceExit

ThrottleSpec == ThrottleInit /\ [][ThrottleNext]_throttleVars
-----------------------------------------------------------------------------
Sent == 1 .. Len(sent)

NoSequence(i, j) == \A k \in i .. j : sent[k].kind # "seq"

(* Commands Execute waited for reach the OLT at least a gap apart, less    *)
(* how late one may be, whatever is resent or run in sequences between     *)
(* them.  A resent command keeps no such distance.                         *)
SpacedCommands ==
  \A i, j \in Sent :
    i < j /\ sent[i].kind = "single" /\ sent[j].kind = "single"
      => sent[j].at - sent[i].at >= MinGap - Jitter

(* Of all the commands that waited, no two come closer than the shell's    *)
(* pace or the gap: the waits of a sequence come first, then its commands, *)
(* and what follows the sequence keeps that distance too.  Only lines that *)
(* did not wait, of a resend or around a sequence, come closer.            *)
NeverFasterThanPace ==
  \A i, j \in Sent :
    i < j /\ sent[i].kind # "free" /\ sent[j].kind # "free"
      => \/ sent[j].at - sent[i].at >= Pace
         \/ sent[j].at - sent[i].at >= MinGap - Jitter

(* Every line is paid for by waits, so the quota bounds the resent ones    *)
(* too: lines with twice the quota of waits between them are more than a   *)
(* minute apart (a minute overlaps two of wait's windows), and no more     *)
(* than four lines in a row, an exec and its resend, live on one wait,     *)
(* unless they are a sequence's, which waited for each command.            *)
TwoWindowsPerMinute ==
  /\ \A i, j \in Sent :
       sent[j].paid - sent[i].paid >= 2 * MaxPerMinute => sent[j].at - sent[i].at > Minute
  /\ \A i \in 1 .. Len(sent) - 4 : NoSequence(i, i + 4) => sent[i].paid < sent[i + 4].paid
=============================================================================
