-------------------------- MODULE OnuDetailProofs --------------------------
(***************************************************************************)
(* Proofs about OnuDetail, for any ONUs, goroutines, lifetimes, timeouts   *)
(* and numbers of changes.                                                 *)
(***************************************************************************)
EXTENDS OnuDetail, TLAPS

Busy(w) == job[w] \in Job

(* What the goroutine holds is no older than the goroutine, as long as its *)
(* context still lets it be saved.                                         *)
ReadIsRecent ==
  \A w \in Workers :
    Busy(w) /\ job[w].step = "read" /\ InTime(w) => job[w].got.stale <= job[w].age

IInv == TypeOK /\ OneFetchPerOlt /\ ReadIsRecent /\ FreshIsRecent

USE DetailConstants DEF AllApplies, Kinds, Copy, Job, NoCopy, NoCache, Idle, MaxStale

LEMMA InitHolds == Init => IInv
<1> SUFFICES ASSUME Init PROVE IInv
  OBVIOUS
<1>1. TypeOK
  <2>1. NoCopy \in Copy
    OBVIOUS
  <2>2. NoCache \in [present : BOOLEAN, copy : Copy, age : 0 .. Lifetime]
    BY <2>1
  <2>3. cache \in [Onus -> [present : BOOLEAN, copy : Copy, age : 0 .. Lifetime]]
    BY <2>2 DEF Init
  <2> QED BY <2>3 DEF Init, TypeOK
<1>2. OneFetchPerOlt
  BY DEF Init, OneFetchPerOlt
<1>3. ReadIsRecent
  BY DEF Init, ReadIsRecent, Busy
<1>4. FreshIsRecent
  BY DEF Init, FreshIsRecent, Fresh
<1> QED BY <1>1, <1>2, <1>3, <1>4 DEF IInv

(* A goroutine is idle or holds a job; only a job has a kind of Kinds.     *)
LEMMA JobOrIdle ==
  ASSUME TypeOK, NEW w \in Workers
  PROVE  /\ Busy(w) \/ job[w] = Idle
         /\ Busy(w) <=> job[w] # Idle
         /\ job[w].kind \in Kinds => Busy(w)
  BY DEF TypeOK, Busy

(* A tick makes a copy at most one tick staler.                            *)
LEMMA AgedCopy ==
  ASSUME NEW copy \in Copy, NEW i \in Onus
  PROVE  Aged(copy, i) \in Copy /\ Aged(copy, i).stale <= copy.stale + 1
  BY DEF Aged, Least

(* What a tick does to one goroutine, and to one saved copy.               *)
LEMMA TickJob ==
  ASSUME TypeOK, Tick, NEW w \in Workers
  PROVE  /\ ~Busy(w) => job'[w] = Idle
         /\ Busy(w) =>
              /\ job'[w] \in Job
              /\ job'[w].kind = job[w].kind /\ job'[w].step = job[w].step
              /\ job'[w].age = Least(job[w].age + 1, Timeout + 1)
              /\ job[w].step = "read" => job'[w].got.stale <= job[w].got.stale + 1
<1>1. ~Busy(w) => job'[w] = Idle
  BY JobOrIdle DEF Tick
<1>2. ASSUME Busy(w)
      PROVE  /\ job'[w] \in Job
             /\ job'[w].kind = job[w].kind /\ job'[w].step = job[w].step
             /\ job'[w].age = Least(job[w].age + 1, Timeout + 1)
             /\ job[w].step = "read" => job'[w].got.stale <= job[w].got.stale + 1
  <2>1. job[w] \in Job /\ job[w] # Idle
    BY <1>2, JobOrIdle DEF Busy
  <2> DEFINE old == job[w]
             got == IF old.step = "read" THEN Aged(old.got, old.onu) ELSE old.got
             age == Least(old.age + 1, Timeout + 1)
  <2>2. job'[w] = [old EXCEPT !.age = age, !.got = got]
    BY <2>1 DEF Tick
  <2>3. old.got \in Copy /\ old.onu \in Onus /\ old.age \in 0 .. Timeout + 1
    BY <2>1
  <2>4. got \in Copy /\ (old.step = "read" => got.stale <= old.got.stale + 1)
    BY <2>3, AgedCopy
  <2>5. age \in 0 .. Timeout + 1
    BY <2>3 DEF Least
  <2> HIDE DEF old, got, age
  <2> QED BY <2>1, <2>2, <2>4, <2>5 DEF old, age
<1> QED BY <1>1, <1>2

LEMMA TickCache ==
  ASSUME TypeOK, Tick, NEW i \in Onus
  PROVE  /\ cache'[i] \in [present : BOOLEAN, copy : Copy, age : 0 .. Lifetime]
         /\ cache'[i].present = cache[i].present
         /\ cache[i].present =>
              /\ cache'[i].age = Least(cache[i].age + 1, Lifetime)
              /\ cache'[i].copy.stale <= cache[i].copy.stale + 1
<1> DEFINE old  == cache[i]
           copy == Aged(old.copy, i)
           age  == Least(old.age + 1, Lifetime)
<1>1. old \in [present : BOOLEAN, copy : Copy, age : 0 .. Lifetime]
  BY DEF TypeOK
<1>2. cache'[i] = IF old.present THEN [old EXCEPT !.age = age, !.copy = copy] ELSE old
  BY DEF Tick
<1>3. copy \in Copy /\ copy.stale <= old.copy.stale + 1
  BY <1>1, AgedCopy
<1>4. age \in 0 .. Lifetime
  BY <1>1 DEF Least
<1> HIDE DEF old, copy, age
<1> QED BY <1>1, <1>2, <1>3, <1>4 DEF old, age

(* Each conjunct of the invariant survives each action.                    *)
LEMMA TypeStep == IInv /\ [Next]_vars => TypeOK'
<1> SUFFICES ASSUME IInv, [Next]_vars PROVE TypeOK'
  OBVIOUS
<1> USE DEF IInv, TypeOK
<1>1. ASSUME NEW w \in Workers, NEW i \in Onus, OpenPanel(w, i) PROVE TypeOK'
  BY <1>1 DEF OpenPanel, Start, NewJob
<1>2. ASSUME NEW w \in Workers, NEW i \in Onus, LiveSyncFallback(w, i) PROVE TypeOK'
  BY <1>2 DEF LiveSyncFallback, Start, NewJob
<1>3. ASSUME NEW w \in Workers, NEW i \in Onus, ForceCLI(w, i) PROVE TypeOK'
  BY <1>3 DEF ForceCLI, Start, NewJob
<1>4. ASSUME NEW w \in Workers, Probe(w) PROVE TypeOK'
  <2>1. Busy(w)
    BY <1>4, JobOrIdle DEF Probe, Does
  <2>2. config[job[w].onu] \in Nat
    BY <2>1 DEF Busy
  <2> DEFINE got == [config |-> config[job[w].onu], stale |-> 0]
  <2>3. got \in Copy
    BY <2>2
  <2> HIDE DEF got
  <2> QED BY <1>4, <2>1, <2>3 DEF Probe, Busy, got
<1>5. ASSUME NEW w \in Workers, Save(w) PROVE TypeOK'
  BY <1>5 DEF Save, Does, Store, End
<1>6. ASSUME NEW w \in Workers, Fail(w) PROVE TypeOK'
  BY <1>6 DEF Fail, End
<1>7. ASSUME NEW w \in Workers, Invalidate(w) PROVE TypeOK'
  BY <1>7 DEF Invalidate, Does
<1>8. ASSUME NEW w \in Workers, AppliedViaSNMP(w) PROVE TypeOK'
  BY <1>8 DEF AppliedViaSNMP, Does, Confirm, End
<1>9. ASSUME NEW w \in Workers, AppliedAndVerified(w) PROVE TypeOK'
  BY <1>9 DEF AppliedAndVerified, Does, Store, Confirm, End
<1>10. ASSUME NEW w \in Workers, AppliedBlindly(w) PROVE TypeOK'
  BY <1>10 DEF AppliedBlindly, Does, Confirm, NewJob
<1>11. ASSUME NEW w \in Workers, NEW i \in Onus, NEW kind \in Applies, Apply(w, kind, i)
       PROVE  TypeOK'
  BY <1>11 DEF Apply, Start, NewJob
<1>12. ASSUME NEW i \in Onus, ChangeElsewhere(i) PROVE TypeOK'
  BY <1>12 DEF ChangeElsewhere
<1>13. ASSUME FullSync PROVE TypeOK'
  BY <1>13 DEF FullSync
<1>14. ASSUME Tick PROVE TypeOK'
  BY <1>14, TickJob, TickCache DEF Busy, Tick
<1>15. CASE UNCHANGED vars
  BY <1>15 DEF vars
<1>16. ASSUME NEW w \in Workers, Hang(w) PROVE TypeOK'
  <2>1. job[w] \in Job
    BY <1>16, JobOrIdle DEF Hang, Does, Busy
  <2>2. NoCopy \in Copy /\ Timeout + 1 \in 0 .. Timeout + 1
    OBVIOUS
  <2> DEFINE hung == [job[w] EXCEPT !.step = "hung", !.got = NoCopy, !.age = Timeout + 1]
  <2>3. hung \in Job
    BY <2>1, <2>2
  <2>4. job' = [job EXCEPT ![w] = hung]
    BY <1>16 DEF Hang
  <2>5. UNCHANGED <<config, cache, confirmed, inFlight>>
    BY <1>16 DEF Hang
  <2> HIDE DEF hung
  <2>6. job' \in [Workers -> Job \cup {Idle}]
    BY <2>3, <2>4 DEF TypeOK
  <2> QED BY <2>5, <2>6
<1> QED
  BY <1>1, <1>2, <1>3, <1>4, <1>5, <1>6, <1>7, <1>8, <1>9, <1>10, <1>11,
     <1>12, <1>13, <1>14, <1>15, <1>16 DEF Next, Conclude

LEMMA FetchStep == IInv /\ [Next]_vars => OneFetchPerOlt'
<1> SUFFICES ASSUME IInv, [Next]_vars PROVE OneFetchPerOlt'
  OBVIOUS
<1> USE DEF IInv, TypeOK, OneFetchPerOlt
<1>1. ASSUME NEW w \in Workers, NEW i \in Onus, OpenPanel(w, i) PROVE OneFetchPerOlt'
  BY <1>1 DEF OpenPanel, Start, NewJob
<1>2. ASSUME NEW w \in Workers, NEW i \in Onus, LiveSyncFallback(w, i) PROVE OneFetchPerOlt'
  BY <1>2 DEF LiveSyncFallback, Start, NewJob
<1>3. ASSUME NEW w \in Workers, NEW i \in Onus, ForceCLI(w, i) PROVE OneFetchPerOlt'
  BY <1>3 DEF ForceCLI, Start, NewJob
<1>4. ASSUME NEW w \in Workers, Probe(w) PROVE OneFetchPerOlt'
  BY <1>4 DEF Probe, Does
<1>5. ASSUME NEW w \in Workers, Save(w) PROVE OneFetchPerOlt'
  BY <1>5 DEF Save, Does, Store, End
<1>6. ASSUME NEW w \in Workers, Fail(w) PROVE OneFetchPerOlt'
  BY <1>6 DEF Fail, End
<1>7. ASSUME NEW w \in Workers, Invalidate(w) PROVE OneFetchPerOlt'
  BY <1>7 DEF Invalidate, Does
<1>8. ASSUME NEW w \in Workers, AppliedViaSNMP(w) PROVE OneFetchPerOlt'
  BY <1>8 DEF AppliedViaSNMP, Does, Confirm, End
<1>9. ASSUME NEW w \in Workers, AppliedAndVerified(w) PROVE OneFetchPerOlt'
  BY <1>9 DEF AppliedAndVerified, Does, Store, Confirm, End
<1>10. ASSUME NEW w \in Workers, AppliedBlindly(w) PROVE OneFetchPerOlt'
  BY <1>10 DEF AppliedBlindly, Does, Confirm, NewJob
<1>11. ASSUME NEW w \in Workers, NEW i \in Onus, NEW kind \in Applies, Apply(w, kind, i)
       PROVE  OneFetchPerOlt'
  BY <1>11 DEF Apply, Start, NewJob
<1>12. ASSUME NEW i \in Onus, ChangeElsewhere(i) PROVE OneFetchPerOlt'
  BY <1>12 DEF ChangeElsewhere
<1>13. ASSUME FullSync PROVE OneFetchPerOlt'
  BY <1>13 DEF FullSync
<1>14. ASSUME Tick PROVE OneFetchPerOlt'
  <2>1. \A w \in Workers : job'[w].kind = job[w].kind
    BY <1>14, TickJob, JobOrIdle
  <2>2. inFlight' = inFlight
    BY <1>14 DEF Tick
  <2> QED BY <2>1, <2>2
<1>15. CASE UNCHANGED vars
  BY <1>15 DEF vars
<1>16. ASSUME NEW w \in Workers, Hang(w) PROVE OneFetchPerOlt'
  BY <1>16 DEF Hang, Does
<1> QED
  BY <1>1, <1>2, <1>3, <1>4, <1>5, <1>6, <1>7, <1>8, <1>9, <1>10, <1>11,
     <1>12, <1>13, <1>14, <1>15, <1>16 DEF Next, Conclude

LEMMA ReadStep == IInv /\ [Next]_vars => ReadIsRecent'
<1> SUFFICES ASSUME IInv, [Next]_vars PROVE ReadIsRecent'
  OBVIOUS
<1> USE DEF IInv, TypeOK, ReadIsRecent, Busy, InTime
<1>1. ASSUME NEW w \in Workers, NEW i \in Onus, OpenPanel(w, i) PROVE ReadIsRecent'
  BY <1>1 DEF OpenPanel, Start, NewJob
<1>2. ASSUME NEW w \in Workers, NEW i \in Onus, LiveSyncFallback(w, i) PROVE ReadIsRecent'
  BY <1>2 DEF LiveSyncFallback, Start, NewJob
<1>3. ASSUME NEW w \in Workers, NEW i \in Onus, ForceCLI(w, i) PROVE ReadIsRecent'
  BY <1>3 DEF ForceCLI, Start, NewJob
<1>4. ASSUME NEW w \in Workers, Probe(w) PROVE ReadIsRecent'
  BY <1>4 DEF Probe, Does
<1>5. ASSUME NEW w \in Workers, Save(w) PROVE ReadIsRecent'
  BY <1>5 DEF Save, Does, Store, End
<1>6. ASSUME NEW w \in Workers, Fail(w) PROVE ReadIsRecent'
  BY <1>6 DEF Fail, End
<1>7. ASSUME NEW w \in Workers, Invalidate(w) PROVE ReadIsRecent'
  BY <1>7 DEF Invalidate, Does
<1>8. ASSUME NEW w \in Workers, AppliedViaSNMP(w) PROVE ReadIsRecent'
  BY <1>8 DEF AppliedViaSNMP, Does, Confirm, End
<1>9. ASSUME NEW w \in Workers, AppliedAndVerified(w) PROVE ReadIsRecent'
  BY <1>9 DEF AppliedAndVerified, Does, Store, Confirm, End
<1>10. ASSUME NEW w \in Workers, AppliedBlindly(w) PROVE ReadIsRecent'
  BY <1>10 DEF AppliedBlindly, Does, Confirm, NewJob
<1>11. ASSUME NEW w \in Workers, NEW i \in Onus, NEW kind \in Applies, Apply(w, kind, i)
       PROVE  ReadIsRecent'
  BY <1>11 DEF Apply, Start, NewJob
<1>12. ASSUME NEW i \in Onus, ChangeElsewhere(i) PROVE ReadIsRecent'
  BY <1>12 DEF ChangeElsewhere
<1>13. ASSUME FullSync PROVE ReadIsRecent'
  BY <1>13 DEF FullSync
<1>14. ASSUME Tick PROVE ReadIsRecent'
  <2> SUFFICES ASSUME NEW w \in Workers, Busy(w)', job'[w].step = "read", InTime(w)'
               PROVE  job'[w].got.stale <= job'[w].age
    OBVIOUS
  <2>1. Busy(w) /\ job[w].got.stale \in Nat /\ job[w].age \in Nat
    BY <1>14, TickJob DEF Busy
  <2> QED BY <1>14, <2>1, TickJob DEF Busy, InTime, Least
<1>15. CASE UNCHANGED vars
  BY <1>15 DEF vars
<1>16. ASSUME NEW w \in Workers, Hang(w) PROVE ReadIsRecent'
  BY <1>16 DEF Hang, Does
<1> QED
  BY <1>1, <1>2, <1>3, <1>4, <1>5, <1>6, <1>7, <1>8, <1>9, <1>10, <1>11,
     <1>12, <1>13, <1>14, <1>15, <1>16 DEF Next, Conclude

LEMMA FreshStep == IInv /\ [Next]_vars => FreshIsRecent'
<1> SUFFICES ASSUME IInv, [Next]_vars PROVE FreshIsRecent'
  OBVIOUS
<1> USE DEF IInv, TypeOK, FreshIsRecent, Fresh
<1>1. ASSUME NEW w \in Workers, NEW i \in Onus, OpenPanel(w, i) PROVE FreshIsRecent'
  BY <1>1 DEF OpenPanel, Start, NewJob
<1>2. ASSUME NEW w \in Workers, NEW i \in Onus, LiveSyncFallback(w, i) PROVE FreshIsRecent'
  BY <1>2 DEF LiveSyncFallback, Start, NewJob
<1>3. ASSUME NEW w \in Workers, NEW i \in Onus, ForceCLI(w, i) PROVE FreshIsRecent'
  BY <1>3 DEF ForceCLI, Start, NewJob
<1>4. ASSUME NEW w \in Workers, Probe(w) PROVE FreshIsRecent'
  BY <1>4 DEF Probe, Does
<1>5. ASSUME NEW w \in Workers, Save(w) PROVE FreshIsRecent'
  BY <1>5 DEF Save, Does, Store, End, ReadIsRecent, Busy, InTime
<1>6. ASSUME NEW w \in Workers, Fail(w) PROVE FreshIsRecent'
  BY <1>6 DEF Fail, End
<1>7. ASSUME NEW w \in Workers, Invalidate(w) PROVE FreshIsRecent'
  BY <1>7 DEF Invalidate, Does
<1>8. ASSUME NEW w \in Workers, AppliedViaSNMP(w) PROVE FreshIsRecent'
  BY <1>8 DEF AppliedViaSNMP, Does, Confirm, End
<1>9. ASSUME NEW w \in Workers, AppliedAndVerified(w) PROVE FreshIsRecent'
  BY <1>9 DEF AppliedAndVerified, Does, Store, Confirm, End, ReadIsRecent, Busy, InTime
<1>10. ASSUME NEW w \in Workers, AppliedBlindly(w) PROVE FreshIsRecent'
  BY <1>10 DEF AppliedBlindly, Does, Confirm, NewJob
<1>11. ASSUME NEW w \in Workers, NEW i \in Onus, NEW kind \in Applies, Apply(w, kind, i)
       PROVE  FreshIsRecent'
  BY <1>11 DEF Apply, Start, NewJob
<1>12. ASSUME NEW i \in Onus, ChangeElsewhere(i) PROVE FreshIsRecent'
  BY <1>12 DEF ChangeElsewhere
<1>13. ASSUME FullSync PROVE FreshIsRecent'
  BY <1>13 DEF FullSync
<1>14. ASSUME Tick PROVE FreshIsRecent'
  <2> SUFFICES ASSUME NEW i \in Onus, Fresh(i)'
               PROVE  cache'[i].copy.stale <= cache'[i].age + Timeout
    OBVIOUS
  <2>1. cache[i] \in [present : BOOLEAN, copy : Copy, age : 0 .. Lifetime]
    BY DEF TypeOK
  <2> QED BY <1>14, <2>1, TickCache DEF Fresh, Least
<1>15. CASE UNCHANGED vars
  BY <1>15 DEF vars
<1>16. ASSUME NEW w \in Workers, Hang(w) PROVE FreshIsRecent'
  BY <1>16 DEF Hang, Does
<1> QED
  BY <1>1, <1>2, <1>3, <1>4, <1>5, <1>6, <1>7, <1>8, <1>9, <1>10, <1>11,
     <1>12, <1>13, <1>14, <1>15, <1>16 DEF Next, Conclude

LEMMA Inductive == Spec => []IInv
<1>1. IInv /\ [Next]_vars => IInv'
  BY TypeStep, FetchStep, ReadStep, FreshStep DEF IInv
<1> QED BY InitHolds, <1>1, PTL DEF Spec

(* Copies, goroutines and the key keep their types.                        *)
THEOREM Typed == Spec => []TypeOK
<1>1. IInv => TypeOK
  BY DEF IInv
<1> QED BY <1>1, Inductive, PTL

(* detailFetchInFlight: at most one background job per OLT, and the key is *)
(* there exactly while it runs.                                            *)
THEOREM OneBackgroundFetch == Spec => []OneFetchPerOlt
<1>1. IInv => OneFetchPerOlt
  BY DEF IInv
<1> QED BY <1>1, Inductive, PTL

(* However saves, applies and syncs interleave, a panel that counts as     *)
(* fresh shows nothing that the OLT replaced more than a lifetime and a    *)
(* timeout ago.                                                            *)
THEOREM FreshCopiesAreRecent == Spec => []FreshIsRecent
<1>1. IInv => FreshIsRecent
  BY DEF IInv
<1> QED BY <1>1, Inductive, PTL
=============================================================================
