----------------------------- MODULE CliProofs -----------------------------
(***************************************************************************)
(* The CLI of an OLT: mutual exclusion of its sessions, for any number of  *)
(* calls and OLTs, and the distance and the number of the commands it is   *)
(* sent, for every gap, quota, pace and jitter.                            *)
(***************************************************************************)
EXTENDS CliSession, CliThrottle, SequenceTheorems, TLAPS

(* OneSessionPerOlt alone says nothing of calls that are about to connect: *)
(* what makes it inductive is that such a call's goroutine holds the lock, *)
(* that a lock has one holder, and that a goroutine knows its OLT.         *)
Asked == \A c \in Calls : helper[c] # "none" => olt[c] \in Olts
Fresh == \A c \in Calls : step[c] = "new" <=> helper[c] = "none"

SessionInvariant == TypeOK /\ Asked /\ Fresh /\ LockFollowsHelper

LEMMA InitSession == Init => SessionInvariant
  BY CallConstants DEF Init, SessionInvariant, TypeOK, Asked, Fresh, LockFollowsHelper,
     CallSteps, HelperSteps

(* A step of a call touches its own entries and the mutex of its own OLT.  *)
LEMMA StepSession == SessionInvariant /\ [Next]_vars => SessionInvariant'
<1> SUFFICES ASSUME SessionInvariant, [Next]_vars PROVE SessionInvariant'
  OBVIOUS
<1> USE CallConstants DEF SessionInvariant, TypeOK, Asked, Fresh, LockFollowsHelper,
                          CallSteps, HelperSteps
<1>1. ASSUME NEW c \in Calls, NEW o \in Olts, Acquire(c, o) PROVE SessionInvariant'
  BY <1>1 DEF Acquire, Move
<1>2. ASSUME NEW c \in Calls, HelperLocks(c) PROVE SessionInvariant'
  BY <1>2 DEF HelperLocks
<1>3. ASSUME NEW c \in Calls, Enter(c) PROVE SessionInvariant'
  BY <1>3 DEF Enter, Move
<1>4. ASSUME NEW c \in Calls, Expire(c) PROVE SessionInvariant'
  BY <1>4 DEF Expire
<1>5. ASSUME NEW c \in Calls, GiveUp(c) PROVE SessionInvariant'
  BY <1>5 DEF GiveUp, Move
<1>6. ASSUME NEW c \in Calls, Connect(c) PROVE SessionInvariant'
  BY <1>6 DEF Connect, Move
<1>7. ASSUME NEW c \in Calls, ConnectFails(c) PROVE SessionInvariant'
  BY <1>7 DEF ConnectFails, Move, Unlock
<1>8. ASSUME NEW c \in Calls, Close(c) PROVE SessionInvariant'
  BY <1>8 DEF Close, Move
<1>9. ASSUME NEW c \in Calls, Release(c) PROVE SessionInvariant'
  BY <1>9 DEF Release, Move, Unlock
<1>10. ASSUME NEW c \in Calls, Hang(c) PROVE SessionInvariant'
  BY <1>10 DEF Hang
<1>11. CASE UNCHANGED vars
  BY <1>11 DEF vars
<1> QED
  BY <1>1, <1>2, <1>3, <1>4, <1>5, <1>6, <1>7, <1>8, <1>9, <1>10, <1>11 DEF Next, Advance

(* The inductive invariant holds throughout.                               *)
THEOREM SessionInvariantHolds == Spec => []SessionInvariant
<1>1. Init => SessionInvariant
  BY InitSession
<1>2. SessionInvariant /\ [Next]_vars => SessionInvariant'
  BY StepSession
<1> QED
  BY <1>1, <1>2, PTL DEF Spec

(* withCLISession: at most one session per OLT is open at any time.        *)
THEOREM MutualExclusion == Spec => []OneSessionPerOlt
<1>1. SessionInvariant => OneSessionPerOlt
  <2> SUFFICES ASSUME SessionInvariant, NEW c \in session, NEW d \in session, olt[c] = olt[d]
               PROVE c = d
    BY DEF OneSessionPerOlt
  <2>1. c \in Calls /\ d \in Calls /\ helper[c] = "locked" /\ helper[d] = "locked"
    BY DEF SessionInvariant, TypeOK, LockFollowsHelper
  <2>2. olt[c] \in Olts /\ mutex[olt[c]] = c /\ mutex[olt[c]] = d
    BY <2>1 DEF SessionInvariant, Asked, LockFollowsHelper
  <2> QED
    BY <2>2
<1> QED
  BY <1>1, SessionInvariantHolds, PTL

(* Every call that connects, runs or closes holds the lock of its OLT, and *)
(* every lock is held for the call whose goroutine took it.                *)
THEOREM LocksFollowHelpers == Spec => []LockFollowsHelper
<1>1. SessionInvariant => LockFollowsHelper
  BY DEF SessionInvariant
<1> QED
  BY <1>1, SessionInvariantHolds, PTL

-----------------------------------------------------------------------------
Kinds == {"single", "seq", "free"}

Apart(s, t) == t - s >= Pace \/ t - s >= MinGap - Jitter

(* What the throttle remembers is close to the commands that waited: a     *)
(* single one was sent at most the jitter after it, a sequence has paused  *)
(* since each of its own, and no memory lies in the future.                *)
LastIsRecent ==
  /\ lastCommand <= now
  /\ \A i \in Sent :
       /\ sent[i].at <= now
       /\ sent[i].kind = "single" => sent[i].at <= lastCommand + Jitter
       /\ sent[i].kind = "seq" => sent[i].at + Pace <= now

(* A sequence has waited once it writes: every single command lies behind. *)
Waited == stage = "shell" \/ toWait < toSend

SequenceIsApart ==
  /\ toWait <= toSend
  /\ stage \in {"idle", "exec"} => toSend = 0
  /\ stage = "waits" => toSend > 0
  /\ stage # "waits" => toWait = 0
  /\ Waited => \A i \in Sent : sent[i].kind = "single" => now - sent[i].at >= MinGap - Jitter

(* The quota of a window says which lines it cannot have paid for: the     *)
(* last windowCount waits at most were made in this window, and as many as *)
(* the quota in the one before it.                                         *)
WindowsCount ==
  /\ windowStart <= now
  /\ stage = "exec" \/ Waited => windowCount >= 1
  /\ \A i \in Sent :
       /\ sent[i].paid <= waits
       /\ sent[i].paid <= waits - windowCount => sent[i].at <= windowStart
       /\ sent[i].paid <= waits - windowCount - MaxPerMinute => sent[i].at + Minute < windowStart

(* An exec is the first line its wait paid for, and a sequence has nothing *)
(* on its waits before it opens a shell.                                   *)
FewLines ==
  /\ stage = "waits" /\ Waited => \A i \in Sent : sent[i].paid < waits
  /\ stage = "exec" => \A i \in Sent : i < Len(sent) => sent[i].paid < waits
  /\ stage = "shell" => Len(sent) > 0 /\ sent[Len(sent)].kind = "seq"
  /\ \A i \in Sent :
       sent[i].paid = waits /\ NoSequence(i, Len(sent))
         => Len(sent) - i < 4

ThrottleInvariant ==
  /\ ThrottleTypeOK /\ LastIsRecent /\ SequenceIsApart /\ WindowsCount /\ FewLines
  /\ SpacedCommands /\ NeverFasterThanPace /\ TwoWindowsPerMinute

LEMMA InitThrottle == ThrottleInit => ThrottleInvariant
  BY ThrottleConstants DEF ThrottleInit, ZeroTime, ThrottleInvariant, ThrottleTypeOK, LastIsRecent,
     SequenceIsApart, Waited, WindowsCount, FewLines, SpacedCommands, NeverFasterThanPace,
     TwoWindowsPerMinute, Sent, Stages

LEMMA SentTyped ==
  ASSUME ThrottleTypeOK, NEW i \in Sent
  PROVE  sent[i].at \in Nat /\ sent[i].kind \in Kinds /\ sent[i].paid \in Nat
<1>1. sent \in Seq(Lines) /\ i \in 1 .. Len(sent)
  BY DEF ThrottleTypeOK, Sent
<1>2. sent[i] \in Lines
  BY <1>1, ElementOfSeq
<1> QED
  BY <1>2 DEF Lines, Kinds

(* Wait returns a gap after the remembered time at the earliest, and       *)
(* counts in the window that is open, or opens one.                        *)
LEMMA WaitKeepsGap ==
  ASSUME ThrottleTypeOK, LastIsRecent, NEW late \in 0 .. Jitter, Wait
  PROVE  /\ Woken(late) \in Nat /\ lastCommand' \in Int /\ windowStart' \in Int
         /\ windowCount' \in 1 .. MaxPerMinute /\ waits' = waits + 1
         /\ Woken(late) >= now /\ lastCommand' <= Woken(late)
         /\ Woken(late) <= lastCommand' + Jitter
         /\ Woken(late) >= lastCommand + MinGap /\ lastCommand' >= lastCommand
         /\ \/ windowStart' = windowStart /\ windowCount' = windowCount + 1
            \/ windowStart' = now /\ windowCount' = 1 /\ now - windowStart > Minute
  BY ThrottleConstants DEF ThrottleTypeOK, LastIsRecent, Wait, Counted, NewWindow, Delay, Woken

(* After a wait, the present is apart from every command that waited, and  *)
(* every line written so far is one wait further behind.                   *)
LEMMA WaitLeavesBehind ==
  ASSUME ThrottleInvariant, NEW late \in 0 .. Jitter, Wait, NEW i \in Sent
  PROVE  /\ sent[i].at <= Woken(late)
         /\ sent[i].kind = "single" => /\ Woken(late) - sent[i].at >= MinGap - Jitter
                                       /\ sent[i].at <= lastCommand' + Jitter
         /\ sent[i].kind = "seq" => sent[i].at + Pace <= Woken(late)
         /\ sent[i].kind # "free" => Apart(sent[i].at, Woken(late))
         /\ sent[i].paid < waits'
         /\ sent[i].paid <= waits' - windowCount' => sent[i].at <= windowStart'
         /\ sent[i].paid <= waits' - windowCount' - MaxPerMinute
              => sent[i].at + Minute < windowStart'
<1>1. ThrottleTypeOK /\ LastIsRecent /\ WindowsCount
  BY DEF ThrottleInvariant
<1>2. sent[i].at \in Nat /\ sent[i].kind \in Kinds /\ sent[i].paid \in Nat
  BY <1>1, SentTyped
<1>3. /\ sent[i].at <= now
      /\ sent[i].kind = "single" => sent[i].at <= lastCommand + Jitter
      /\ sent[i].kind = "seq" => sent[i].at + Pace <= now
      /\ sent[i].paid <= waits
      /\ sent[i].paid <= waits - windowCount => sent[i].at <= windowStart
      /\ sent[i].paid <= waits - windowCount - MaxPerMinute => sent[i].at + Minute < windowStart
  BY <1>1 DEF LastIsRecent, WindowsCount
<1>4. /\ now \in Nat /\ lastCommand \in Int /\ windowStart \in Int /\ waits \in Nat
      /\ windowCount \in 0 .. MaxPerMinute /\ MaxPerMinute \in Nat /\ Minute \in Nat
      /\ Jitter \in Nat /\ MinGap \in Nat /\ Pace \in Nat
  BY <1>1, ThrottleConstants DEF ThrottleTypeOK
<1>5. /\ Woken(late) \in Nat /\ lastCommand' \in Int /\ windowStart' \in Int
      /\ windowCount' \in 1 .. MaxPerMinute /\ waits' = waits + 1
      /\ Woken(late) >= now /\ Woken(late) >= lastCommand + MinGap /\ lastCommand' >= lastCommand
      /\ \/ windowStart' = windowStart /\ windowCount' = windowCount + 1
         \/ windowStart' = now /\ windowCount' = 1 /\ now - windowStart > Minute
  BY <1>1, WaitKeepsGap
<1>6. /\ sent[i].at <= Woken(late)
      /\ sent[i].kind = "single" => /\ Woken(late) - sent[i].at >= MinGap - Jitter
                                    /\ sent[i].at <= lastCommand' + Jitter
      /\ sent[i].kind = "seq" => sent[i].at + Pace <= Woken(late)
  BY <1>2, <1>3, <1>4, <1>5
<1>7. sent[i].kind = "seq" => Woken(late) - sent[i].at >= Pace
  BY <1>2, <1>4, <1>5, <1>6
<1>8. sent[i].kind # "free" => Apart(sent[i].at, Woken(late))
  BY <1>2, <1>6, <1>7 DEF Apart, Kinds
<1>9. /\ sent[i].paid < waits'
      /\ sent[i].paid <= waits' - windowCount' => sent[i].at <= windowStart'
      /\ sent[i].paid <= waits' - windowCount' - MaxPerMinute
           => sent[i].at + Minute < windowStart'
  BY <1>2, <1>3, <1>4, <1>5
<1> QED
  BY <1>6, <1>8, <1>9

-----------------------------------------------------------------------------
(* Write leaves the lines there are and adds its own.                      *)
LEMMA Written ==
  ASSUME sent \in Seq(Lines), NEW t \in Nat, NEW kinds \in Seq(Kinds), NEW paid \in Nat,
         Write(t, kinds, paid)
  PROVE  /\ sent' \in Seq(Lines) /\ Len(sent') = Len(sent) + Len(kinds)
         /\ \A i \in 1 .. Len(sent) : sent'[i] = sent[i]
         /\ \A m \in 1 .. Len(kinds) :
              sent'[Len(sent) + m] = [at |-> t, kind |-> kinds[m], paid |-> paid]
<1> DEFINE tail == [m \in 1 .. Len(kinds) |-> [at |-> t, kind |-> kinds[m], paid |-> paid]]
<1>1. Len(kinds) \in Nat /\ \A m \in 1 .. Len(kinds) : kinds[m] \in Kinds
  BY ElementOfSeq
<1>2. \A m \in 1 .. Len(kinds) : [at |-> t, kind |-> kinds[m], paid |-> paid] \in Lines
  BY <1>1 DEF Lines, Kinds
<1>3. tail \in Seq(Lines) /\ Len(tail) = Len(kinds)
  BY <1>1, <1>2, IsASeq, LenProperties
<1>4. \A m \in 1 .. Len(kinds) : tail[m] = [at |-> t, kind |-> kinds[m], paid |-> paid]
  OBVIOUS
<1>5. sent' = sent \o tail
  BY DEF Write
<1> HIDE DEF tail
<1>6. /\ sent \o tail \in Seq(Lines) /\ Len(sent \o tail) = Len(sent) + Len(tail)
      /\ \A k \in 1 .. Len(sent) + Len(tail) :
           (sent \o tail)[k] = IF k <= Len(sent) THEN sent[k] ELSE tail[k - Len(sent)]
  BY <1>3, ConcatProperties
<1>7. Len(sent) \in Nat
  BY LenProperties
<1>8. ASSUME NEW m \in 1 .. Len(kinds)
      PROVE  sent'[Len(sent) + m] = [at |-> t, kind |-> kinds[m], paid |-> paid]
  <2>1. Len(sent) + m \in 1 .. Len(sent) + Len(tail) /\ ~(Len(sent) + m <= Len(sent))
        /\ Len(sent) + m - Len(sent) = m
    BY <1>1, <1>3, <1>7
  <2> QED
    BY <1>4, <1>5, <1>6, <2>1
<1>9. \A i \in 1 .. Len(sent) : sent'[i] = sent[i]
  BY <1>1, <1>3, <1>5, <1>6, <1>7
<1> QED
  BY <1>3, <1>5, <1>6, <1>8, <1>9

(* What the present lines must be of the lines there are for Write to keep *)
(* the properties.                                                         *)
Follows(i, t, kinds, paid) ==
  /\ sent[i].at <= t
  /\ sent[i].paid <= paid
  /\ paid - sent[i].paid >= 2 * MaxPerMinute => t - sent[i].at > Minute
  /\ sent[i].paid = paid /\ NoSequence(i, Len(sent))
       => Len(sent) - i + Len(kinds) < 4
  /\ \A m \in 1 .. Len(kinds) :
       /\ kinds[m] = "single" /\ sent[i].kind = "single" => t - sent[i].at >= MinGap - Jitter
       /\ kinds[m] # "free" /\ sent[i].kind # "free" => Apart(sent[i].at, t)

(* At most three lines are written at once, one of them waited for.        *)
Burst(kinds) ==
  /\ kinds \in Seq(Kinds) /\ Len(kinds) <= 3
  /\ \A l, m \in 1 .. Len(kinds) : l < m => kinds[l] = "free" \/ kinds[m] = "free"

LEMMA WriteKeeps ==
  ASSUME ThrottleInvariant, NEW t \in Nat, NEW kinds, Burst(kinds), NEW paid \in Nat,
         Write(t, kinds, paid), \A i \in Sent : Follows(i, t, kinds, paid)
  PROVE  /\ sent' \in Seq(Lines) /\ Len(sent') = Len(sent) + Len(kinds)
         /\ \A i \in Sent' :
              \/ i \in Sent /\ sent'[i] = sent[i]
              \/ /\ i > Len(sent) /\ i - Len(sent) \in 1 .. Len(kinds)
                 /\ sent'[i] = [at |-> t, kind |-> kinds[i - Len(sent)], paid |-> paid]
         /\ SpacedCommands' /\ NeverFasterThanPace' /\ TwoWindowsPerMinute'
         /\ \A i \in Sent' :
              sent'[i].paid = paid /\ NoSequence(i, Len(sent))'
                => Len(sent') - i < 4
<1> DEFINE n == Len(sent)
           k == Len(kinds)
           new(m) == [at |-> t, kind |-> kinds[m], paid |-> paid]
<1>1. /\ n \in Nat /\ k \in Nat /\ k <= 3 /\ MaxPerMinute \in Nat /\ MaxPerMinute > 0 /\ Minute \in Nat
      /\ sent \in Seq(Lines) /\ kinds \in Seq(Kinds)
  BY ThrottleConstants DEF ThrottleInvariant, ThrottleTypeOK, Burst
<1>2. /\ sent' \in Seq(Lines) /\ Len(sent') = n + k
      /\ \A i \in 1 .. n : sent'[i] = sent[i]
      /\ \A m \in 1 .. k : sent'[n + m] = new(m)
  BY <1>1, Written
<1>3. ASSUME NEW i \in Sent'
      PROVE  \/ i \in Sent /\ sent'[i] = sent[i]
             \/ i > n /\ i - n \in 1 .. k /\ sent'[i] = new(i - n)
  <2>1. i \in 1 .. n + k
    BY <1>2 DEF Sent
  <2>2. CASE i <= n
    BY <1>1, <1>2, <2>1, <2>2 DEF Sent
  <2>3. CASE i > n
    <3>1. i - n \in 1 .. k /\ n + (i - n) = i
      BY <1>1, <2>1, <2>3
    <3> QED
      BY <1>2, <2>3, <3>1
  <2> QED
    BY <1>1, <2>1, <2>2, <2>3
<1>4. \A i \in Sent : /\ sent[i].at \in Nat /\ sent[i].kind \in Kinds /\ sent[i].paid \in Nat
                      /\ i \in 1 .. n
  BY SentTyped DEF ThrottleInvariant, Sent
<1>5. \A m \in 1 .. k : new(m).at = t /\ new(m).kind = kinds[m] /\ new(m).paid = paid
  OBVIOUS
<1>6. \A i \in Sent' : i \in 1 .. n + k
  BY <1>2 DEF Sent
<1> HIDE DEF n, k, new
<1>7. ASSUME NEW i \in Sent', NEW j \in Sent', i < j
      PROVE  /\ sent'[i].kind = "single" /\ sent'[j].kind = "single"
                  => sent'[j].at - sent'[i].at >= MinGap - Jitter
             /\ sent'[i].kind # "free" /\ sent'[j].kind # "free"
                  => Apart(sent'[i].at, sent'[j].at)
  <2>1. CASE j \in Sent /\ sent'[j] = sent[j]
    <3>1. i \in Sent /\ sent'[i] = sent[i]
      BY <1>1, <1>3, <1>4, <1>6, <1>7, <2>1
    <3> QED
      BY <1>7, <2>1, <3>1 DEF ThrottleInvariant, SpacedCommands, NeverFasterThanPace, Apart
  <2>2. CASE j > n /\ j - n \in 1 .. k /\ sent'[j] = new(j - n)
    <3>1. sent'[j].at = t /\ sent'[j].kind = kinds[j - n]
      BY <1>5, <2>2
    <3>2. CASE i \in Sent /\ sent'[i] = sent[i]
      BY <2>2, <3>1, <3>2 DEF Follows, k
    <3>3. CASE i > n /\ i - n \in 1 .. k /\ sent'[i] = new(i - n)
      <4>1. sent'[i].kind = kinds[i - n] /\ i - n < j - n
        BY <1>1, <1>5, <1>6, <1>7, <3>3
      <4>2. kinds[i - n] = "free" \/ kinds[j - n] = "free"
        BY <2>2, <3>3, <4>1 DEF Burst, k
      <4> QED
        BY <3>1, <4>1, <4>2
    <3> QED
      BY <1>3, <3>2, <3>3
  <2> QED
    BY <1>3, <2>1, <2>2
<1>8. ASSUME NEW i \in Sent', NEW j \in Sent', sent'[j].paid - sent'[i].paid >= 2 * MaxPerMinute
      PROVE  sent'[j].at - sent'[i].at > Minute
  <2>1. CASE i > n /\ i - n \in 1 .. k /\ sent'[i] = new(i - n)
    <3>1. sent'[i].paid = paid
      BY <1>5, <2>1
    <3>2. sent'[j].paid <= paid /\ sent'[j].paid \in Nat
      BY <1>3, <1>4, <1>5 DEF Follows
    <3> QED
      BY <1>1, <1>8, <3>1, <3>2
  <2>2. CASE i \in Sent /\ sent'[i] = sent[i]
    <3>1. CASE j \in Sent /\ sent'[j] = sent[j]
      BY <1>8, <2>2, <3>1 DEF ThrottleInvariant, TwoWindowsPerMinute
    <3>2. CASE j > n /\ j - n \in 1 .. k /\ sent'[j] = new(j - n)
      <4>1. sent'[j].paid = paid /\ sent'[j].at = t
        BY <1>5, <3>2
      <4> QED
        BY <1>8, <2>2, <4>1 DEF Follows
    <3> QED
      BY <1>3, <3>1, <3>2
  <2> QED
    BY <1>3, <2>1, <2>2
<1>9. ASSUME NEW i \in Sent', sent'[i].paid = paid,
             NoSequence(i, Len(sent))'
      PROVE  n + k - i < 4
  <2>1. CASE i > n
    BY <1>1, <1>6, <2>1
  <2>2. CASE i \in Sent /\ sent'[i] = sent[i]
    <3>0. \A j \in i .. n + k : sent'[j].kind # "seq"
      BY <1>2, <1>9 DEF NoSequence, n, k
    <3>1. i \in 1 .. n
      BY <1>4, <2>2
    <3>2. ASSUME NEW j \in i .. n PROVE sent[j].kind # "seq"
      <4>1. j \in i .. n + k /\ j \in 1 .. n
        BY <1>1, <3>1
      <4> QED
        BY <1>2, <3>0, <4>1 DEF n, k, new
    <3>3. n - i + k < 4
      BY <1>9, <2>2, <3>2 DEF Follows, NoSequence, n, k
    <3> QED
      BY <1>1, <3>1, <3>3
  <2> QED
    BY <1>3, <2>1, <2>2
<1>10. ASSUME NEW i \in 1 .. n + k - 4, NoSequence(i, i + 4)'
       PROVE  sent'[i].paid < sent'[i + 4].paid
  <2>1. i \in 1 .. n + k /\ i + 4 \in 1 .. n + k /\ i <= n
    BY <1>1
  <2>2. i \in Sent /\ sent'[i] = sent[i] /\ i + 4 \in Sent'
    BY <1>1, <1>2, <2>1 DEF n, k, new, Sent
  <2>3. CASE i + 4 <= n
    <3>1. i \in 1 .. n - 4 /\ \A j \in i .. i + 4 : j \in 1 .. n
      BY <1>1, <2>3
    <3>2. \A j \in i .. i + 4 : sent'[j] = sent[j]
      BY <1>2, <3>1 DEF n, k, new
    <3>3. i \in i .. i + 4 /\ i + 4 \in i .. i + 4
      BY <1>1
    <3>4. NoSequence(i, i + 4)
      BY <1>10, <3>2 DEF NoSequence
    <3> QED
      BY <3>1, <3>2, <3>3, <3>4 DEF ThrottleInvariant, TwoWindowsPerMinute, n
  <2>4. CASE i + 4 > n
    <3>1. sent'[i + 4].paid = paid
      <4>1. (i + 4) - n \in 1 .. k /\ n + ((i + 4) - n) = i + 4
        BY <1>1, <2>1, <2>4
      <4>2. sent'[n + ((i + 4) - n)] = new((i + 4) - n)
        BY <1>2, <4>1 DEF n, k, new
      <4> QED
        BY <1>5, <4>1, <4>2
    <3>2. sent[i].paid <= paid /\ sent[i].paid \in Nat
      BY <1>4, <2>2 DEF Follows
    <3>3. sent[i].paid # paid
      <4>1. SUFFICES ASSUME sent[i].paid = paid PROVE FALSE
        OBVIOUS
      <4>2. ASSUME NEW j \in i .. n PROVE sent[j].kind # "seq"
        <5>1. j \in i .. i + 4 /\ j \in 1 .. n
          BY <1>1, <2>1, <2>4
        <5> QED
          BY <1>2, <1>10, <5>1 DEF NoSequence, n, k, new
      <4>3. n - i + k < 4
        BY <2>2, <4>1, <4>2 DEF Follows, NoSequence, n, k
      <4> QED
        BY <1>1, <2>1, <4>3
    <3> QED
      BY <2>2, <3>1, <3>2, <3>3
  <2> QED
    BY <1>1, <2>1, <2>3, <2>4
<1>11. SpacedCommands' /\ NeverFasterThanPace'
  BY <1>7 DEF SpacedCommands, NeverFasterThanPace, Apart
<1>12. Len(sent') = n + k /\ sent' \in Seq(Lines)
  BY <1>2
<1>13. TwoWindowsPerMinute'
  <2>1. \A i, j \in Sent' :
          sent'[j].paid - sent'[i].paid >= 2 * MaxPerMinute => sent'[j].at - sent'[i].at > Minute
    BY <1>8
  <2>2. \A i \in 1 .. Len(sent') - 4 :
          NoSequence(i, i + 4)' => sent'[i].paid < sent'[i + 4].paid
    <3> SUFFICES ASSUME NEW i \in 1 .. Len(sent') - 4,
                        NoSequence(i, i + 4)'
                 PROVE  sent'[i].paid < sent'[i + 4].paid
      OBVIOUS
    <3>1. i \in 1 .. n + k - 4
      BY <1>1, <1>12
    <3> QED
      BY <1>10, <3>1
  <2> QED
    BY <2>1, <2>2 DEF TwoWindowsPerMinute
<1>14. \A i \in Sent' :
         sent'[i].paid = paid /\ NoSequence(i, Len(sent))'
           => Len(sent') - i < 4
  <2> SUFFICES ASSUME NEW i \in Sent', sent'[i].paid = paid, NoSequence(i, Len(sent))'
               PROVE  Len(sent') - i < 4
    OBVIOUS
  <2>1. n + k - i < 4 /\ Len(sent') = n + k
    BY <1>9, <1>12
  <2>2. i \in 1 .. n + k
    BY <1>6
  <2> QED
    BY <1>1, <2>1, <2>2
<1>15. \A i \in Sent' :
         \/ i \in Sent /\ sent'[i] = sent[i]
         \/ /\ i > Len(sent) /\ i - Len(sent) \in 1 .. Len(kinds)
            /\ sent'[i] = [at |-> t, kind |-> kinds[i - Len(sent)], paid |-> paid]
  BY <1>3 DEF n, k, new
<1> QED
  BY <1>11, <1>12, <1>13, <1>14, <1>15 DEF n, k

(* A command written after a wait follows all the lines before it.         *)
LEMMA SingleFollows ==
  ASSUME ThrottleInvariant, NEW late \in 0 .. Jitter, Wait, NEW i \in Sent
  PROVE  Follows(i, Woken(late), <<"single">>, waits')
<1>1. /\ sent[i].at <= Woken(late)
      /\ sent[i].kind = "single" => Woken(late) - sent[i].at >= MinGap - Jitter
      /\ sent[i].kind # "free" => Apart(sent[i].at, Woken(late))
      /\ sent[i].paid < waits'
      /\ sent[i].paid <= waits' - windowCount' - MaxPerMinute => sent[i].at + Minute < windowStart'
  BY WaitLeavesBehind
<1>2. /\ windowCount' \in 1 .. MaxPerMinute /\ windowStart' <= Woken(late)
      /\ windowStart' \in Int /\ Woken(late) \in Nat /\ waits' \in Nat /\ waits \in Nat
      /\ MaxPerMinute \in Nat /\ Minute \in Nat
  <2>1. ThrottleTypeOK /\ LastIsRecent /\ windowStart <= now
    BY DEF ThrottleInvariant, WindowsCount
  <2>2. /\ Woken(late) \in Nat /\ windowStart' \in Int /\ windowCount' \in 1 .. MaxPerMinute
        /\ waits' = waits + 1 /\ Woken(late) >= now
        /\ windowStart' = windowStart \/ windowStart' = now
    BY <2>1, WaitKeepsGap
  <2>3. now \in Nat /\ windowStart \in Int /\ waits \in Nat
    BY <2>1 DEF ThrottleTypeOK
  <2> QED
    BY <2>1, <2>2, <2>3, ThrottleConstants
<1>3. sent[i].at \in Nat /\ sent[i].paid \in Nat
  BY SentTyped DEF ThrottleInvariant
<1>4. Len(<<"single">>) = 1 /\ (<<"single">>)[1] = "single"
  OBVIOUS
<1>5. waits' - sent[i].paid >= 2 * MaxPerMinute => Woken(late) - sent[i].at > Minute
  BY <1>1, <1>2, <1>3
<1> QED
  BY <1>1, <1>2, <1>3, <1>4, <1>5 DEF Follows

(* Between waits: a line that is paid for by those made so far keeps the   *)
(* distance of the quota.                                                  *)
LEMMA QuotaApart ==
  ASSUME ThrottleInvariant, windowCount >= 1, NEW i \in Sent, NEW t \in Nat, t >= now
  PROVE  /\ sent[i].at <= t /\ sent[i].paid <= waits
         /\ waits - sent[i].paid >= 2 * MaxPerMinute => t - sent[i].at > Minute
<1>1. /\ sent[i].paid <= waits /\ sent[i].at <= now /\ windowStart <= now
      /\ sent[i].paid <= waits - windowCount - MaxPerMinute => sent[i].at + Minute < windowStart
  BY DEF ThrottleInvariant, LastIsRecent, WindowsCount
<1>2. /\ sent[i].at \in Nat /\ sent[i].paid \in Nat /\ now \in Nat /\ windowStart \in Int
      /\ windowCount \in 0 .. MaxPerMinute /\ waits \in Nat /\ MaxPerMinute \in Nat /\ Minute \in Nat
  BY SentTyped, ThrottleConstants DEF ThrottleInvariant, ThrottleTypeOK
<1> QED
  BY <1>1, <1>2

(* In a shell every command written before lies a pace behind.             *)
LEMMA ShellApart ==
  ASSUME ThrottleInvariant, Waited, NEW i \in Sent, NEW t \in Nat, t >= now
  PROVE  sent[i].kind # "free" => Apart(sent[i].at, t)
<1>1. /\ sent[i].kind = "seq" => sent[i].at + Pace <= now
      /\ sent[i].kind = "single" => now - sent[i].at >= MinGap - Jitter
  BY DEF ThrottleInvariant, LastIsRecent, SequenceIsApart
<1>2. sent[i].at \in Nat /\ sent[i].kind \in Kinds /\ now \in Nat
  BY SentTyped DEF ThrottleInvariant, ThrottleTypeOK
<1>3. MinGap \in Nat /\ Jitter \in Nat /\ Pace \in Nat
  BY ThrottleConstants
<1> QED
  BY <1>1, <1>2, <1>3 DEF Apart, Kinds

LEMMA Bursts ==
  Burst(<<"single">>) /\ Burst(<<"seq">>) /\ Burst(<<"free">>) /\ Burst(<<"free", "seq">>)
  /\ Burst(<<"free", "free", "free">>)
BY DEF Burst, Kinds

(* A step that writes nothing and does not wait.                           *)
LEMMA QuietKeeps ==
  ASSUME ThrottleInvariant, UNCHANGED <<throttle, sent>>, now' \in Nat, now' >= now,
         stage' \in Stages, stage' # "exec", stage' = "shell" => stage = "shell",
         stage' = "waits" /\ toWait' < toSend' => stage = "waits" /\ toWait < toSend,
         toWait' \in Nat, toSend' \in Nat, toWait' <= toSend',
         stage' = "idle" => toSend' = 0, stage' = "waits" => toSend' > 0,
         stage' # "waits" => toWait' = 0, stage' = "shell" => stage = "shell"
  PROVE  ThrottleInvariant'
<1>1. /\ lastCommand' = lastCommand /\ windowStart' = windowStart /\ windowCount' = windowCount
      /\ waits' = waits /\ sent' = sent
  BY DEF throttle
<1>2. /\ ThrottleTypeOK /\ LastIsRecent /\ SequenceIsApart /\ WindowsCount /\ FewLines
      /\ SpacedCommands /\ NeverFasterThanPace /\ TwoWindowsPerMinute
  BY DEF ThrottleInvariant
<1>3. now \in Nat /\ lastCommand \in Int /\ windowStart \in Int /\ windowCount \in Int
      /\ MinGap \in Nat /\ Jitter \in Nat /\ Pace \in Nat
      /\ toWait \in Nat /\ toSend \in Nat /\ stage \in Stages
  BY <1>2, ThrottleConstants DEF ThrottleTypeOK
<1>4. \A i \in Sent : sent[i].at \in Nat
  BY <1>2, SentTyped
<1>5. Sent' = Sent
  BY <1>1 DEF Sent
<1>6. ThrottleTypeOK'
  BY <1>1, <1>2 DEF ThrottleTypeOK
<1>7. LastIsRecent'
  BY <1>1, <1>2, <1>3, <1>4, <1>5 DEF LastIsRecent
<1>8. Waited' => Waited
  BY <1>3 DEF Waited, Stages
<1>9. SequenceIsApart'
  BY <1>1, <1>2, <1>3, <1>4, <1>5, <1>8 DEF SequenceIsApart, Stages
<1>10. WindowsCount'
  BY <1>1, <1>2, <1>3, <1>5, <1>8 DEF WindowsCount
<1>11. FewLines'
  BY <1>1, <1>2, <1>5, <1>8 DEF FewLines, NoSequence, Waited
<1>12. SpacedCommands' /\ NeverFasterThanPace' /\ TwoWindowsPerMinute'
  BY <1>1, <1>2, <1>5 DEF SpacedCommands, NeverFasterThanPace, TwoWindowsPerMinute, NoSequence
<1> QED
  BY <1>6, <1>7, <1>9, <1>10, <1>11, <1>12 DEF ThrottleInvariant

LEMMA TickKeeps ==
  ASSUME ThrottleInvariant, Tick
  PROVE  ThrottleInvariant'
<1>1. /\ lastCommand' = lastCommand /\ windowStart' = windowStart /\ windowCount' = windowCount
      /\ waits' = waits /\ sent' = sent /\ stage' = stage /\ toWait' = toWait /\ toSend' = toSend
      /\ now' = now + 1
  BY DEF Tick, throttle
<1>2. /\ ThrottleTypeOK /\ LastIsRecent /\ SequenceIsApart /\ WindowsCount /\ FewLines
      /\ SpacedCommands /\ NeverFasterThanPace /\ TwoWindowsPerMinute
  BY DEF ThrottleInvariant
<1>3. now \in Nat /\ lastCommand \in Int /\ windowStart \in Int
      /\ MinGap \in Nat /\ Jitter \in Nat /\ Pace \in Nat
  BY <1>2, ThrottleConstants DEF ThrottleTypeOK
<1>4. \A i \in Sent : sent[i].at \in Nat
  BY <1>2, SentTyped
<1>5. Sent' = Sent
  BY <1>1 DEF Sent
<1>6. ThrottleTypeOK' /\ LastIsRecent' /\ WindowsCount'
  BY <1>1, <1>2, <1>3, <1>4, <1>5 DEF ThrottleTypeOK, LastIsRecent, WindowsCount, Waited
<1>7. SequenceIsApart'
  BY <1>1, <1>2, <1>3, <1>4, <1>5 DEF SequenceIsApart, Waited
<1>8. FewLines' /\ SpacedCommands' /\ NeverFasterThanPace' /\ TwoWindowsPerMinute'
  BY <1>1, <1>2, <1>5 DEF FewLines, Waited, NoSequence, SpacedCommands, NeverFasterThanPace,
     TwoWindowsPerMinute
<1> QED
  BY <1>2, <1>6, <1>7, <1>8 DEF ThrottleInvariant

-----------------------------------------------------------------------------
(* A wait whose command is not written, or not yet.                        *)
LEMMA WaitOnlyKeeps ==
  ASSUME ThrottleInvariant, NEW late \in 0 .. Jitter, Wait, now' = Woken(late), sent' = sent,
         stage' = stage, stage \in {"idle", "waits"}, toSend' = toSend, toWait' \in Nat,
         toWait' <= toSend', stage = "idle" => toWait' = 0
  PROVE  ThrottleInvariant'
<1>1. /\ ThrottleTypeOK /\ LastIsRecent /\ SequenceIsApart /\ WindowsCount /\ FewLines
      /\ SpacedCommands /\ NeverFasterThanPace /\ TwoWindowsPerMinute
  BY DEF ThrottleInvariant
<1>2. /\ now' \in Nat /\ lastCommand' \in Int /\ windowStart' \in Int
      /\ windowCount' \in 1 .. MaxPerMinute /\ waits' = waits + 1 /\ now' >= now
      /\ lastCommand' <= now'
      /\ windowStart' = windowStart \/ windowStart' = now
  BY <1>1, WaitKeepsGap
<1>3. \A i \in Sent :
        /\ sent[i].at <= now'
        /\ sent[i].kind = "single" => /\ now' - sent[i].at >= MinGap - Jitter
                                      /\ sent[i].at <= lastCommand' + Jitter
        /\ sent[i].kind = "seq" => sent[i].at + Pace <= now'
        /\ sent[i].paid < waits'
        /\ sent[i].paid <= waits' - windowCount' => sent[i].at <= windowStart'
        /\ sent[i].paid <= waits' - windowCount' - MaxPerMinute
             => sent[i].at + Minute < windowStart'
  BY WaitLeavesBehind
<1>4. /\ now \in Nat /\ windowStart \in Int /\ waits \in Nat /\ windowStart <= now
      /\ toSend \in Nat /\ MaxPerMinute \in Nat
  BY <1>1, ThrottleConstants DEF ThrottleTypeOK, WindowsCount
<1>5. Sent' = Sent
  BY DEF Sent
<1>6. \A i \in Sent : sent[i].paid \in Nat
  BY <1>1, SentTyped
<1>7. ThrottleTypeOK'
  BY <1>1, <1>2, <1>4 DEF ThrottleTypeOK
<1>8. LastIsRecent'
  BY <1>2, <1>3, <1>5 DEF LastIsRecent
<1>9. SequenceIsApart'
  BY <1>1, <1>3, <1>5 DEF SequenceIsApart
<1>10. WindowsCount'
  <2>1. windowStart' <= now' /\ windowCount' >= 1
    BY <1>2, <1>4
  <2>2. \A i \in Sent : sent[i].paid <= waits'
    BY <1>2, <1>3, <1>4, <1>6
  <2> QED
    BY <1>3, <1>5, <2>1, <2>2 DEF WindowsCount
<1>11. FewLines'
  <2>1. \A i \in Sent : sent[i].paid < waits' /\ sent[i].paid # waits'
    BY <1>2, <1>3, <1>4, <1>6
  <2> QED
    BY <1>5, <2>1 DEF FewLines
<1>12. SpacedCommands' /\ NeverFasterThanPace' /\ TwoWindowsPerMinute'
  BY <1>1, <1>5 DEF SpacedCommands, NeverFasterThanPace, TwoWindowsPerMinute, NoSequence
<1> QED
  BY <1>7, <1>8, <1>9, <1>10, <1>11, <1>12 DEF ThrottleInvariant

(* Execute writes when its wait returns; telnet pauses after it.           *)
LEMMA ExecuteKeeps ==
  ASSUME ThrottleInvariant, NEW late \in 0 .. Jitter, ExecuteTelnet(late) \/ ExecuteSsh(late)
  PROVE  ThrottleInvariant'
<1>1. /\ ThrottleTypeOK /\ LastIsRecent /\ SequenceIsApart /\ WindowsCount /\ FewLines
  BY DEF ThrottleInvariant
<1>2. /\ Wait /\ Write(Woken(late), <<"single">>, waits')
      /\ stage = "idle" /\ stage' \in {"idle", "exec"} /\ toWait' = toWait /\ toSend' = toSend
      /\ now' = Woken(late) \/ now' = Woken(late) + Pace
  BY DEF ExecuteTelnet, ExecuteSsh
<1>3. /\ Woken(late) \in Nat /\ lastCommand' \in Int /\ windowStart' \in Int
      /\ windowCount' \in 1 .. MaxPerMinute /\ waits' = waits + 1 /\ Woken(late) >= now
      /\ lastCommand' <= Woken(late) /\ Woken(late) <= lastCommand' + Jitter
      /\ windowStart' = windowStart \/ windowStart' = now
  BY <1>1, <1>2, WaitKeepsGap
<1>4. /\ now \in Nat /\ windowStart \in Int /\ waits \in Nat /\ windowStart <= now
      /\ toSend \in Nat /\ toWait \in Nat /\ toWait = 0 /\ toSend = 0
      /\ MaxPerMinute \in Nat /\ MaxPerMinute > 0 /\ Pace \in Nat /\ Minute \in Nat /\ Jitter \in Nat
  BY <1>1, <1>2, ThrottleConstants DEF ThrottleTypeOK, WindowsCount, SequenceIsApart
<1>5. now' \in Nat /\ now' >= Woken(late) /\ waits' \in Nat
  BY <1>2, <1>3, <1>4
<1>6. \A i \in Sent : Follows(i, Woken(late), <<"single">>, waits')
  BY <1>2, SingleFollows
<1>7. PICK t, paid : t = Woken(late) /\ paid = waits'
  OBVIOUS
<1>8. /\ sent' \in Seq(Lines) /\ Len(sent') = Len(sent) + 1
      /\ \A i \in Sent' :
           \/ i \in Sent /\ sent'[i] = sent[i]
           \/ i > Len(sent) /\ sent'[i] = [at |-> t, kind |-> "single", paid |-> paid]
      /\ SpacedCommands' /\ NeverFasterThanPace' /\ TwoWindowsPerMinute'
      /\ \A i \in Sent' :
           sent'[i].paid = paid /\ NoSequence(i, Len(sent))' => Len(sent') - i < 4
  <2> DEFINE kinds == <<"single">>
  <2>1. Len(kinds) = 1 /\ \A k \in 1 .. Len(kinds) : kinds[k] = "single"
    OBVIOUS
  <2>2. Burst(kinds) /\ t \in Nat /\ paid \in Nat /\ Write(t, kinds, paid)
        /\ \A i \in Sent : Follows(i, t, kinds, paid)
    BY <1>2, <1>3, <1>5, <1>6, <1>7, Bursts
  <2> HIDE DEF kinds
  <2>3. /\ sent' \in Seq(Lines) /\ Len(sent') = Len(sent) + Len(kinds)
        /\ \A i \in Sent' :
             \/ i \in Sent /\ sent'[i] = sent[i]
             \/ /\ i > Len(sent) /\ i - Len(sent) \in 1 .. Len(kinds)
                /\ sent'[i] = [at |-> t, kind |-> kinds[i - Len(sent)], paid |-> paid]
        /\ SpacedCommands' /\ NeverFasterThanPace' /\ TwoWindowsPerMinute'
        /\ \A i \in Sent' :
             sent'[i].paid = paid /\ NoSequence(i, Len(sent))' => Len(sent') - i < 4
    BY <2>2, WriteKeeps
  <2> QED
    BY <2>1, <2>3
<1>9. \A i \in Sent :
        /\ sent[i].at <= Woken(late)
        /\ sent[i].kind = "single" => sent[i].at <= lastCommand' + Jitter
        /\ sent[i].kind = "seq" => sent[i].at + Pace <= Woken(late)
        /\ sent[i].paid < waits'
        /\ sent[i].paid <= waits' - windowCount' => sent[i].at <= windowStart'
        /\ sent[i].paid <= waits' - windowCount' - MaxPerMinute
             => sent[i].at + Minute < windowStart'
        /\ sent[i].at \in Nat /\ sent[i].paid \in Nat
  BY <1>1, <1>2, WaitLeavesBehind, SentTyped
<1>10. ThrottleTypeOK'
  BY <1>2, <1>3, <1>4, <1>5, <1>8 DEF ThrottleTypeOK, Stages
<1>11. LastIsRecent'
  <2>1. lastCommand' <= now'
    BY <1>3, <1>5
  <2>2. ASSUME NEW i \in Sent'
        PROVE  /\ sent'[i].at <= now'
               /\ sent'[i].kind = "single" => sent'[i].at <= lastCommand' + Jitter
               /\ sent'[i].kind = "seq" => sent'[i].at + Pace <= now'
    <3>1. CASE i \in Sent /\ sent'[i] = sent[i]
      BY <1>3, <1>4, <1>5, <1>9, <3>1
    <3>2. CASE sent'[i] = [at |-> t, kind |-> "single", paid |-> paid]
      BY <1>3, <1>5, <1>7, <3>2
    <3> QED
      BY <1>8, <3>1, <3>2
  <2> QED
    BY <2>1, <2>2 DEF LastIsRecent
<1>12. SequenceIsApart'
  BY <1>2, <1>4 DEF SequenceIsApart, Waited
<1>13. WindowsCount'
  <2>1. windowStart' <= now' /\ windowCount' >= 1
    BY <1>3, <1>4, <1>5
  <2>2. ASSUME NEW i \in Sent'
        PROVE  /\ sent'[i].paid <= waits'
               /\ sent'[i].paid <= waits' - windowCount' => sent'[i].at <= windowStart'
               /\ sent'[i].paid <= waits' - windowCount' - MaxPerMinute
                    => sent'[i].at + Minute < windowStart'
    <3>1. CASE i \in Sent /\ sent'[i] = sent[i]
      BY <1>5, <1>9, <3>1
    <3>2. CASE sent'[i] = [at |-> t, kind |-> "single", paid |-> paid]
      <4>1. sent'[i].paid = waits'
        BY <1>7, <3>2
      <4>2. /\ waits' <= waits' /\ ~(waits' <= waits' - windowCount')
            /\ ~(waits' <= waits' - windowCount' - MaxPerMinute)
        <5>1. PICK w, c : w = waits' /\ c = windowCount'
          OBVIOUS
        <5>2. w \in Nat /\ c \in Nat /\ c >= 1 /\ MaxPerMinute \in Nat
          BY <1>3, <1>4, <1>5, <5>1
        <5>3. w <= w /\ ~(w <= w - c) /\ ~(w <= w - c - MaxPerMinute)
          BY <5>2
        <5> QED
          BY <5>1, <5>3
      <4> QED
        BY <4>1, <4>2
    <3> QED
      BY <1>8, <3>1, <3>2
  <2> QED
    BY <2>1, <2>2 DEF WindowsCount
<1>14. FewLines'
  <2>1. \A i \in Sent' : i < Len(sent') => sent'[i].paid < waits'
    BY <1>1, <1>8, <1>9 DEF ThrottleTypeOK, Sent
  <2> QED
    BY <1>2, <1>7, <1>8, <2>1 DEF FewLines
<1> QED
  BY <1>8, <1>10, <1>11, <1>12, <1>13, <1>14 DEF ThrottleInvariant

(* Lines written without a wait, and what the session does after them.     *)
LEMMA WriteLaterKeeps ==
  ASSUME ThrottleInvariant, windowCount >= 1, UNCHANGED throttle,
         NEW t \in Nat, t >= now, now' \in Nat, now' >= t,
         NEW kinds, Burst(kinds), Len(kinds) > 0, Write(t, kinds, waits),
         \A m \in 1 .. Len(kinds) : /\ kinds[m] # "single"
                                    /\ kinds[m] = "seq" => Waited /\ t + Pace <= now',
         \A i \in Sent : sent[i].paid = waits /\ NoSequence(i, Len(sent))
                           => Len(sent) - i + Len(kinds) < 4,
         stage' \in {"idle", "shell"}, toWait' = 0, toSend' \in Nat,
         stage' = "idle" => toSend' = 0,
         stage' = "shell" => Waited /\ kinds[Len(kinds)] = "seq"
  PROVE  ThrottleInvariant'
<1>1. /\ ThrottleTypeOK /\ LastIsRecent /\ SequenceIsApart /\ WindowsCount /\ FewLines
  BY DEF ThrottleInvariant
<1>2. PICK paid : paid = waits
  OBVIOUS
<1>3. /\ lastCommand' = lastCommand /\ windowStart' = windowStart /\ windowCount' = windowCount
      /\ waits' = waits
  BY DEF throttle
<1>4. /\ now \in Nat /\ lastCommand \in Int /\ windowStart \in Int /\ paid \in Nat
      /\ windowCount \in 0 .. MaxPerMinute /\ lastCommand <= now /\ windowStart <= now
      /\ MinGap \in Nat /\ Jitter \in Nat /\ Pace \in Nat /\ Minute \in Nat /\ MaxPerMinute \in Nat
  BY <1>1, <1>2, ThrottleConstants DEF ThrottleTypeOK, LastIsRecent, WindowsCount
<1>5. ASSUME NEW i \in Sent PROVE Follows(i, t, kinds, paid)
  <2>1. /\ sent[i].at <= t /\ sent[i].paid <= paid
        /\ paid - sent[i].paid >= 2 * MaxPerMinute => t - sent[i].at > Minute
    BY <1>2, QuotaApart
  <2>2. Waited => (sent[i].kind # "free" => Apart(sent[i].at, t))
    BY ShellApart
  <2>3. \A m \in 1 .. Len(kinds) : kinds[m] # "free" => Waited
    BY ElementOfSeq DEF Burst, Kinds
  <2> QED
    BY <1>2, <2>1, <2>2, <2>3 DEF Follows
<1>6. /\ sent' \in Seq(Lines) /\ Len(sent') = Len(sent) + Len(kinds)
      /\ \A i \in Sent' :
           \/ i \in Sent /\ sent'[i] = sent[i]
           \/ /\ i > Len(sent) /\ i - Len(sent) \in 1 .. Len(kinds)
              /\ sent'[i] = [at |-> t, kind |-> kinds[i - Len(sent)], paid |-> paid]
      /\ SpacedCommands' /\ NeverFasterThanPace' /\ TwoWindowsPerMinute'
      /\ \A i \in Sent' :
           sent'[i].paid = paid /\ NoSequence(i, Len(sent))' => Len(sent') - i < 4
  BY <1>2, <1>4, <1>5, WriteKeeps
<1>7. \A i \in Sent :
        /\ sent[i].at \in Nat /\ sent[i].paid \in Nat
        /\ sent[i].at <= now
        /\ sent[i].kind = "single" => sent[i].at <= lastCommand + Jitter
        /\ sent[i].kind = "seq" => sent[i].at + Pace <= now
        /\ sent[i].paid <= paid
        /\ sent[i].paid <= paid - windowCount => sent[i].at <= windowStart
        /\ sent[i].paid <= paid - windowCount - MaxPerMinute => sent[i].at + Minute < windowStart
        /\ Waited => (sent[i].kind = "single" => now - sent[i].at >= MinGap - Jitter)
  BY <1>1, <1>2, SentTyped DEF LastIsRecent, WindowsCount, SequenceIsApart
<1>8. ThrottleTypeOK'
  BY <1>1, <1>3, <1>6 DEF ThrottleTypeOK, Stages
<1>9. LastIsRecent'
  <2>1. lastCommand' <= now'
    BY <1>3, <1>4
  <2>2. ASSUME NEW i \in Sent'
        PROVE  /\ sent'[i].at <= now'
               /\ sent'[i].kind = "single" => sent'[i].at <= lastCommand' + Jitter
               /\ sent'[i].kind = "seq" => sent'[i].at + Pace <= now'
    <3>1. CASE i \in Sent /\ sent'[i] = sent[i]
      BY <1>3, <1>4, <1>7, <3>1
    <3>2. CASE /\ i - Len(sent) \in 1 .. Len(kinds)
               /\ sent'[i] = [at |-> t, kind |-> kinds[i - Len(sent)], paid |-> paid]
      BY <3>2
    <3> QED
      BY <1>6, <3>1, <3>2
  <2> QED
    BY <2>1, <2>2 DEF LastIsRecent
<1>10. SequenceIsApart'
  <2>1. ASSUME NEW i \in Sent', Waited', sent'[i].kind = "single"
        PROVE  now' - sent'[i].at >= MinGap - Jitter
    <3>1. i \in Sent /\ sent'[i] = sent[i]
      <4>1. ASSUME i - Len(sent) \in 1 .. Len(kinds),
                   sent'[i] = [at |-> t, kind |-> kinds[i - Len(sent)], paid |-> paid]
            PROVE  FALSE
        <5>1. sent'[i].kind = kinds[i - Len(sent)]
          BY <4>1
        <5> QED
          BY <2>1, <4>1, <5>1
      <4> QED
        BY <1>6, <4>1
    <3>2. Waited
      BY <2>1 DEF Waited
    <3>3. now - sent[i].at >= MinGap - Jitter /\ sent[i].at \in Nat
      BY <1>7, <2>1, <3>1, <3>2
    <3> QED
      BY <1>4, <3>1, <3>3
  <2> QED
    BY <2>1 DEF SequenceIsApart
<1>11. WindowsCount'
  <2>1. windowStart' <= now' /\ windowCount' >= 1
    BY <1>3, <1>4
  <2>2. ASSUME NEW i \in Sent'
        PROVE  /\ sent'[i].paid <= paid
               /\ sent'[i].paid <= paid - windowCount => sent'[i].at <= windowStart
               /\ sent'[i].paid <= paid - windowCount - MaxPerMinute
                    => sent'[i].at + Minute < windowStart
    <3>1. CASE i \in Sent /\ sent'[i] = sent[i]
      BY <1>7, <3>1
    <3>2. CASE sent'[i] = [at |-> t, kind |-> kinds[i - Len(sent)], paid |-> paid]
      <4>1. sent'[i].paid = paid
        BY <3>2
      <4>2. PICK c : c = windowCount
        OBVIOUS
      <4>3. paid <= paid /\ ~(paid <= paid - c) /\ ~(paid <= paid - c - MaxPerMinute)
        <5>1. c \in Nat /\ c >= 1
          BY <1>4, <4>2
        <5> QED
          BY <1>4, <5>1
      <4> QED
        BY <4>1, <4>2, <4>3
    <3> QED
      BY <1>6, <3>1, <3>2
  <2> QED
    BY <1>2, <1>3, <2>1, <2>2 DEF WindowsCount
<1>12. FewLines'
  <2>1. stage' = "shell" => Len(sent') > 0 /\ sent'[Len(sent')].kind = "seq"
    <3> SUFFICES ASSUME stage' = "shell" PROVE Len(sent') > 0 /\ sent'[Len(sent')].kind = "seq"
      OBVIOUS
    <3>1. Len(sent) \in Nat /\ Len(kinds) \in Nat /\ Len(kinds) > 0
      BY <1>1 DEF ThrottleTypeOK, Burst
    <3>2. /\ Len(sent') \in Sent' /\ Len(sent') > Len(sent) /\ Len(sent') > 0
          /\ Len(sent') - Len(sent) = Len(kinds)
      BY <1>6, <3>1 DEF Sent
    <3>3. sent'[Len(sent')] = [at |-> t, kind |-> kinds[Len(kinds)], paid |-> paid]
      BY <1>6, <3>1, <3>2 DEF Sent
    <3> QED
      BY <3>2, <3>3
  <2> QED
    BY <1>2, <1>3, <1>6, <2>1 DEF FewLines
<1> QED
  BY <1>6, <1>8, <1>9, <1>10, <1>11, <1>12 DEF ThrottleInvariant

LEMMA ResendKeeps ==
  ASSUME ThrottleInvariant, Resend
  PROVE  ThrottleInvariant'
<1>1. PICK t : t = now + Settle
  OBVIOUS
<1>2. t \in Nat /\ t >= now /\ now' = t /\ windowCount >= 1 /\ toWait = 0 /\ toSend = 0
  BY <1>1, ThrottleConstants DEF Resend, ThrottleInvariant, ThrottleTypeOK, WindowsCount,
     SequenceIsApart
<1>3. PICK kinds : kinds = <<"free", "free", "free">>
  OBVIOUS
<1>4. /\ Burst(kinds) /\ Len(kinds) = 3 /\ Write(t, kinds, waits)
      /\ \A m \in 1 .. Len(kinds) : kinds[m] = "free"
  BY <1>1, <1>3, Bursts DEF Resend
<1>5. ASSUME NEW i \in Sent, sent[i].paid = waits PROVE Len(sent) - i + Len(kinds) < 4
  <2>1. ~(i < Len(sent)) /\ i \in 1 .. Len(sent) /\ Len(sent) \in Nat
    <3>1. i < Len(sent) => sent[i].paid < waits
      BY DEF Resend, ThrottleInvariant, FewLines
    <3>2. waits \in Nat /\ Len(sent) \in Nat /\ i \in 1 .. Len(sent)
      BY DEF ThrottleInvariant, ThrottleTypeOK, Sent
    <3> QED
      BY <1>5, <3>1, <3>2
  <2> QED
    BY <1>4, <2>1
<1>6. UNCHANGED throttle /\ stage' = "idle" /\ toWait' = toWait /\ toSend' = toSend
  BY DEF Resend
<1>7. \A m \in 1 .. Len(kinds) : /\ kinds[m] # "single"
                                 /\ kinds[m] = "seq" => Waited /\ t + Pace <= now'
  BY <1>4
<1>8. \A i \in Sent : sent[i].paid = waits /\ NoSequence(i, Len(sent))
                        => Len(sent) - i + Len(kinds) < 4
  BY <1>5
<1>9. /\ now' \in Nat /\ now' >= t /\ Len(kinds) > 0 /\ toWait' = 0 /\ toSend' \in Nat
      /\ stage' \in {"idle", "shell"} /\ stage' # "shell"
      /\ stage' = "idle" => toSend' = 0
  BY <1>2, <1>4, <1>6
<1> QED
  BY <1>2, <1>4, <1>6, <1>7, <1>8, <1>9, WriteLaterKeeps

LEMMA ShellKeeps ==
  ASSUME ThrottleInvariant, OpenShell \/ SequenceSend \/ SequenceExit
  PROVE  ThrottleInvariant'
<1>1. /\ ThrottleTypeOK /\ SequenceIsApart /\ WindowsCount /\ FewLines
      /\ now \in Nat /\ toSend \in Nat /\ toWait \in Nat /\ waits \in Nat /\ Len(sent) \in Nat
      /\ Pace \in Nat /\ Settle \in Nat
  BY ThrottleConstants DEF ThrottleInvariant, ThrottleTypeOK
<1>2. Waited /\ windowCount >= 1 /\ toWait = 0
  BY <1>1 DEF OpenShell, SequenceSend, SequenceExit, SequenceIsApart, WindowsCount, Waited
<1>3. CASE OpenShell
  <2>1. PICK t : t = now + Settle
    OBVIOUS
  <2>2. PICK kinds : kinds = <<"free", "seq">>
    OBVIOUS
  <2>3. /\ Burst(kinds) /\ Len(kinds) = 2 /\ Write(t, kinds, waits)
        /\ kinds[1] = "free" /\ kinds[2] = "seq" /\ \A m \in 1 .. Len(kinds) : m = 1 \/ m = 2
    BY <1>3, <2>1, <2>2, Bursts DEF OpenShell
  <2>4. /\ t \in Nat /\ t >= now /\ now' = t + Pace /\ now' \in Nat /\ now' >= t /\ toSend > 0
    BY <1>1, <1>3, <2>1 DEF OpenShell, SequenceIsApart
  <2>5. \A i \in Sent : sent[i].paid # waits
    <3>1. \A i \in Sent : sent[i].paid < waits /\ sent[i].paid \in Nat
      BY <1>1, <1>2, <1>3, SentTyped DEF OpenShell, FewLines
    <3> QED
      BY <1>1, <3>1
  <2>6. /\ UNCHANGED throttle /\ stage' = "shell" /\ toWait' = 0 /\ toSend' \in Nat
    BY <1>1, <1>2, <1>3, <2>4 DEF OpenShell
  <2>7. \A m \in 1 .. Len(kinds) : /\ kinds[m] # "single"
                                   /\ kinds[m] = "seq" => Waited /\ t + Pace <= now'
    BY <1>1, <1>2, <2>3, <2>4
  <2>8. /\ Len(kinds) > 0 /\ stage' \in {"idle", "shell"} /\ stage' # "idle"
        /\ stage' = "shell" => Waited /\ kinds[Len(kinds)] = "seq"
        /\ \A i \in Sent : sent[i].paid = waits /\ NoSequence(i, Len(sent))
                            => Len(sent) - i + Len(kinds) < 4
    BY <1>2, <2>3, <2>5, <2>6
  <2> QED
    BY <1>2, <2>3, <2>4, <2>6, <2>7, <2>8, WriteLaterKeeps
<1>4. CASE SequenceSend
  <2>1. PICK t : t = now
    OBVIOUS
  <2>2. PICK kinds : kinds = <<"seq">>
    OBVIOUS
  <2>3. /\ Burst(kinds) /\ Len(kinds) = 1 /\ Write(t, kinds, waits)
        /\ \A m \in 1 .. Len(kinds) : kinds[m] = "seq"
    BY <1>4, <2>1, <2>2, Bursts DEF SequenceSend
  <2>4. t \in Nat /\ t >= now /\ now' = t + Pace /\ now' \in Nat /\ now' >= t
    BY <1>1, <1>4, <2>1 DEF SequenceSend
  <2>5. \A i \in Sent : ~NoSequence(i, Len(sent))
    BY <1>1, <1>4 DEF SequenceSend, FewLines, NoSequence, Sent
  <2>6. UNCHANGED throttle /\ stage' = "shell" /\ toWait' = 0 /\ toSend' \in Nat
    BY <1>1, <1>2, <1>4 DEF SequenceSend
  <2> QED
    BY <1>2, <2>3, <2>4, <2>5, <2>6, WriteLaterKeeps
<1>5. CASE SequenceExit
  <2>1. PICK t : t = now
    OBVIOUS
  <2>2. PICK kinds : kinds = <<"free">>
    OBVIOUS
  <2>3. /\ Burst(kinds) /\ Len(kinds) = 1 /\ Write(t, kinds, waits)
        /\ \A m \in 1 .. Len(kinds) : kinds[m] = "free"
    BY <1>5, <2>1, <2>2, Bursts DEF SequenceExit
  <2>4. t \in Nat /\ t >= now /\ now' = t /\ now' \in Nat /\ now' >= t
    BY <1>1, <1>5, <2>1 DEF SequenceExit
  <2>5. \A i \in Sent : ~NoSequence(i, Len(sent))
    BY <1>1, <1>5 DEF SequenceExit, FewLines, NoSequence, Sent
  <2>6. UNCHANGED throttle /\ stage' = "idle" /\ toWait' = 0 /\ toSend' = 0
    BY <1>1, <1>2, <1>5 DEF SequenceExit
  <2> QED
    BY <1>2, <2>3, <2>4, <2>5, <2>6, WriteLaterKeeps
<1> QED
  BY <1>3, <1>4, <1>5

LEMMA StepThrottle == ThrottleInvariant /\ [ThrottleNext]_throttleVars => ThrottleInvariant'
<1> SUFFICES ASSUME ThrottleInvariant, [ThrottleNext]_throttleVars PROVE ThrottleInvariant'
  OBVIOUS
<1>0. /\ toWait \in Nat /\ toSend \in Nat /\ stage \in Stages /\ now \in Nat
      /\ toWait <= toSend
      /\ stage \in {"idle", "exec"} => toSend = 0
      /\ stage # "waits" => toWait = 0
      /\ stage = "waits" => toSend > 0
  BY DEF ThrottleInvariant, ThrottleTypeOK, SequenceIsApart
<1>1. ASSUME NEW late \in 0 .. Jitter, WaitInVain(late) PROVE ThrottleInvariant'
  BY <1>0, <1>1, WaitOnlyKeeps DEF WaitInVain
<1>2. ASSUME NEW late \in 0 .. Jitter, SequenceWait(late) PROVE ThrottleInvariant'
  BY <1>0, <1>2, WaitOnlyKeeps DEF SequenceWait, Stages
<1>3. ASSUME Answered \/ SequenceFails PROVE ThrottleInvariant'
  BY <1>0, <1>3, QuietKeeps DEF Answered, SequenceFails, Stages
<1>4. ASSUME NEW n \in SeqLengths, BeginSequence(n) PROVE ThrottleInvariant'
  BY <1>0, <1>4, QuietKeeps, ThrottleConstants DEF BeginSequence, Stages
<1>5. CASE UNCHANGED throttleVars
  BY <1>5 DEF throttleVars, ThrottleInvariant, ThrottleTypeOK, LastIsRecent, SequenceIsApart, Waited,
     WindowsCount, FewLines, NoSequence, Sent, SpacedCommands, NeverFasterThanPace, TwoWindowsPerMinute
<1> QED
  BY <1>1, <1>2, <1>3, <1>4, <1>5, TickKeeps, ExecuteKeeps, ResendKeeps, ShellKeeps DEF ThrottleNext

LEMMA ThrottleHolds == ThrottleSpec => []ThrottleInvariant
  BY InitThrottle, StepThrottle, PTL DEF ThrottleSpec

(* oltThrottle.wait: two commands run by Execute reach the OLT at least    *)
(* the gap apart, less how late one may be, whatever comes between them.   *)
THEOREM CommandsAreSpaced == ThrottleSpec => []SpacedCommands
<1>1. ThrottleInvariant => SpacedCommands
  BY DEF ThrottleInvariant
<1> QED
  BY <1>1, ThrottleHolds, PTL

(* ExecuteSequence: no two commands that waited come closer than the       *)
(* shell's pace and the gap both allow.                                    *)
THEOREM SequencesKeepPace == ThrottleSpec => []NeverFasterThanPace
<1>1. ThrottleInvariant => NeverFasterThanPace
  BY DEF ThrottleInvariant
<1> QED
  BY <1>1, ThrottleHolds, PTL

(* oltThrottle.wait: the counter of a window never exceeds the quota.      *)
THEOREM ThrottleTyped == ThrottleSpec => []ThrottleTypeOK
<1>1. ThrottleInvariant => ThrottleTypeOK
  BY DEF ThrottleInvariant
<1> QED
  BY <1>1, ThrottleHolds, PTL

(* oltThrottle.wait: lines with twice the quota of waits between them are  *)
(* more than a minute apart, and a wait pays for four lines in a row at    *)
(* most, resent ones included, unless a sequence writes.                   *)
THEOREM AtMostTwoWindows == ThrottleSpec => []TwoWindowsPerMinute
<1>1. ThrottleInvariant => TwoWindowsPerMinute
  BY DEF ThrottleInvariant
<1> QED
  BY <1>1, ThrottleHolds, PTL
=============================================================================
