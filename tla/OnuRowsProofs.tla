--------------------------- MODULE OnuRowsProofs ---------------------------
(***************************************************************************)
(* Proofs about OnuRows, for any ONUs, writers and bounds.                 *)
(***************************************************************************)
EXTENDS OnuRows, TLAPS

Listing == sync.step \in {"statuses", "powers", "old", "upsert"}

(* What a sync has listed: something, and by name all but the ONUs that    *)
(* have been gone since it began.                                          *)
ListIsWhole ==
  /\ sync.step = "enumerate" => Onus \ Registered \subseteq missed
  /\ Listing => Found # {}
  /\ Listing /\ sync.by = "name" => Onus \ Found \subseteq missed

IInv == TypeOK /\ ListIsWhole

USE RowsConstants DEF Statuses, Row, NoRow, SyncSteps, NoPass, NoWrite, Passes

LEMMA InitHolds == Init => IInv
<1> SUFFICES ASSUME Init PROVE IInv
  OBVIOUS
<1>1. TypeOK
  BY DEF Init, TypeOK, NoSync
<1>2. ListIsWhole
  BY DEF Init, NoSync, ListIsWhole, Listing
<1> QED BY <1>1, <1>2 DEF IInv

(* The steps of a sync keep the types and what it has listed.              *)
LEMMA EnumeratedHolds ==
  ASSUME IInv, NEW onus \in SUBSET Registered, onus # {}, NEW by \in {"name", "serial"},
         sync.step = "enumerate", by = "name" => onus = Registered,
         Enumerated(onus, by), losses' \in 0 .. MaxLosses,
         UNCHANGED <<link, faults, row, missed, pass, write>>
  PROVE  IInv'
<1> DEFINE got == [o \in Onus |-> IF o \in onus THEN [status |-> "unknown", power |-> FALSE]
                                            ELSE NoRow]
<1>1. got \in [Onus -> Row \cup {NoRow}]
  OBVIOUS
<1>2. sync' = [sync EXCEPT !.step = "statuses", !.by = by, !.got = got]
  BY DEF Enumerated
<1>3. sync' \in [step : SyncSteps, by : {"name", "serial"},
                 got : [Onus -> Row \cup {NoRow}], old : SUBSET Onus]
  BY <1>1, <1>2 DEF IInv, TypeOK
<1>4. TypeOK'
  BY <1>3 DEF IInv, TypeOK
<1>5. sync'.got = got /\ sync'.by = by /\ sync'.step = "statuses"
  BY <1>2 DEF IInv, TypeOK
<1>6. Found' = onus
  BY <1>5 DEF Found, Registered
<1>7. ListIsWhole'
  BY <1>5, <1>6 DEF IInv, ListIsWhole, Listing, Registered
<1> QED BY <1>4, <1>7 DEF IInv

LEMMA ReadingHolds ==
  ASSUME IInv, NEW read \in SUBSET Found, NEW step \in SyncSteps,
         NEW got \in [Onus -> Row \cup {NoRow}],
         \A o \in Onus : got[o] = NoRow <=> sync.got[o] = NoRow,
         Listing, step \in {"powers", "old"},
         sync' = [sync EXCEPT !.step = step, !.got = got],
         losses' \in 0 .. MaxLosses,
         UNCHANGED <<link, faults, row, missed, pass, write>>
  PROVE  IInv'
<1>1. sync' \in [step : SyncSteps, by : {"name", "serial"},
                 got : [Onus -> Row \cup {NoRow}], old : SUBSET Onus]
  BY DEF IInv, TypeOK
<1>2. TypeOK'
  BY <1>1 DEF IInv, TypeOK
<1>3. sync'.got = got /\ sync'.by = sync.by /\ sync'.step = step
  BY DEF IInv, TypeOK
<1>4. Found' = Found
  BY <1>3 DEF Found
<1>5. ListIsWhole'
  BY <1>3, <1>4 DEF IInv, ListIsWhole, Listing
<1> QED BY <1>2, <1>5 DEF IInv

LEMMA NextHolds == IInv /\ [Next]_vars => IInv'
<1> SUFFICES ASSUME IInv, [Next]_vars PROVE IInv'
  OBVIOUS
<1> USE DEF IInv
<1> DEFINE SyncType == [step : SyncSteps, by : {"name", "serial"},
                        got : [Onus -> Row \cup {NoRow}], old : SUBSET Onus]
           Probing  == [step : {"probe"}, lit : SUBSET Onus,
                        todo : [Onus -> Statuses \cup {"absent"}]]
           Setting  == [step : {"select", "update"}, onu : Onus, power : BOOLEAN,
                        lit : SUBSET Onus, todo : [Onus -> Statuses \cup {"absent"}]]
<1>a. NoSync \in SyncType /\ [NoSync EXCEPT !.step = "tail"] \in SyncType
  BY DEF NoSync
<1>1. ASSUME NEW o \in Onus, LinkChanges(o) PROVE IInv'
  <2>1. PICK l \in {"up", "down", "gone"} : link' = [link EXCEPT ![o] = l]
    BY <1>1 DEF LinkChanges
  <2>a. pass' \in [Passes -> {NoPass} \cup Probing \cup Setting]
    <3>1. \A p \in Passes : pass[p] \in {NoPass} \cup Probing \cup Setting
      BY DEF TypeOK
    <3>2. \A x \in Probing : [x EXCEPT !.lit = @ \cup {o}] \in Probing
      OBVIOUS
    <3>3. \A x \in Setting : [x EXCEPT !.lit = @ \cup {o}] \in Setting
      OBVIOUS
    <3>4. \A p \in Passes : Lit(pass[p], o) \in {NoPass} \cup Probing \cup Setting
      BY <3>1, <3>2, <3>3 DEF Lit
    <3>5. pass' = [p \in Passes |-> Lit(pass[p], o)]
      BY <1>1 DEF LinkChanges
    <3> HIDE DEF Probing, Setting
    <3> QED BY <3>4, <3>5
  <2>2. TypeOK'
    BY <1>1, <2>1, <2>a DEF LinkChanges, TypeOK
  <2>3. Found' = Found /\ sync' = sync /\ missed \subseteq missed'
    BY <1>1 DEF LinkChanges, Found
  <2>4. ASSUME sync.step = "enumerate" PROVE Onus \ Registered' \subseteq missed'
    <3>1. Onus \ Registered' \subseteq (Onus \ Registered) \cup (IF l = "gone" THEN {o} ELSE {})
      BY <2>1 DEF Registered, TypeOK
    <3>2. l = "gone" => o \in missed'
      BY <1>1, <2>1, <2>4 DEF LinkChanges, Enumerating, TypeOK
    <3> QED BY <2>3, <2>4, <3>1, <3>2 DEF ListIsWhole
  <2> QED BY <2>2, <2>3, <2>4 DEF ListIsWhole, Listing
<1>2. CASE StartSync
  <2>1. sync' \in SyncType /\ sync'.step = "enumerate"
    BY <1>2 DEF StartSync, TypeOK
  <2>2. TypeOK'
    BY <1>2, <2>1 DEF StartSync, TypeOK
  <2>3. Registered' = Registered
    BY <1>2 DEF StartSync, Registered
  <2> QED BY <1>2, <2>1, <2>2, <2>3 DEF StartSync, ListIsWhole, Listing
<1>3. CASE SyncFails
  BY <1>3, <1>a DEF SyncFails, TypeOK, NoSync, ListIsWhole, Listing
<1>4. CASE EnumerateByName
  <2>1. PICK onus \in (SUBSET Registered) \ {{}} :
          onus = Registered /\ Enumerated(onus, "name")
    BY <1>4 DEF EnumerateByName, WholeNameTable
  <2>2. losses' \in 0 .. MaxLosses
    BY <1>4 DEF EnumerateByName, TypeOK
  <2> QED BY <1>4, <2>1, <2>2, EnumeratedHolds DEF EnumerateByName
<1>5. CASE EnumerateBySerial
  <2>1. PICK onus \in (SUBSET Registered) \ {{}} :
          /\ losses' = losses + (IF onus = Registered THEN 0 ELSE 1)
          /\ losses' <= MaxLosses
          /\ Enumerated(onus, "serial")
    BY <1>5 DEF Walked, EnumerateBySerial
  <2>2. losses' \in 0 .. MaxLosses
    BY <2>1 DEF TypeOK
  <2> QED BY <1>5, <2>1, <2>2, EnumeratedHolds DEF Walked, EnumerateBySerial
<1>6. CASE ReadStatuses
  <2>1. PICK read \in SUBSET (Found \cap Registered) :
          /\ losses' = losses + (IF read = Found \cap Registered THEN 0 ELSE 1)
          /\ losses' <= MaxLosses
          /\ sync' = [sync EXCEPT !.step = "powers",
                        !.got = [o \in Onus |-> IF o \in read
                                   THEN [@[o] EXCEPT !.status = Truth(o)] ELSE @[o]]]
    BY <1>6 DEF Walked, ReadStatuses
  <2> DEFINE got == [o \in Onus |-> IF o \in read
                       THEN [sync.got[o] EXCEPT !.status = Truth(o)] ELSE sync.got[o]]
  <2>2. losses' \in 0 .. MaxLosses
    BY <2>1 DEF TypeOK
  <2>3. \A o \in read : sync.got[o] \in Row /\ Truth(o) \in Statuses
    BY DEF Found, TypeOK, Truth
  <2>4. \A o \in read : got[o] \in Row /\ sync.got[o] # NoRow
    BY <2>3 DEF Found
  <2>5. got \in [Onus -> Row \cup {NoRow}]
    <3>1. \A o \in Onus : sync.got[o] \in Row \cup {NoRow}
      BY DEF TypeOK
    <3>2. \A o \in Onus : got[o] \in Row \cup {NoRow}
      <4> SUFFICES ASSUME NEW o \in Onus PROVE got[o] \in Row \cup {NoRow}
        OBVIOUS
      <4>1. CASE o \in read
        BY <2>4, <4>1
      <4>2. CASE o \notin read
        <5>1. got[o] = sync.got[o]
          BY <4>2
        <5> QED BY <5>1, <3>1
      <4> QED BY <4>1, <4>2
    <3> HIDE DEF got
    <3>3. got = [o \in Onus |-> got[o]]
      BY DEF got
    <3> QED BY ONLY <3>2, <3>3
  <2>6. \A o \in Onus : got[o] = NoRow <=> sync.got[o] = NoRow
    BY <2>4
  <2>7. sync' = [sync EXCEPT !.step = "powers", !.got = got]
    BY <2>1
  <2>8. Listing /\ UNCHANGED <<link, faults, row, missed, pass, write>>
    BY <1>6 DEF Walked, ReadStatuses, Listing
  <2> QED BY <2>2, <2>5, <2>6, <2>7, <2>8, ReadingHolds
<1>7. CASE ReadPowers
  <2>1. PICK read \in SUBSET {o \in Found : link[o] = "up"} :
          sync' = [sync EXCEPT !.step = "old",
                     !.got = [o \in Onus |-> IF o \in read
                                THEN [@[o] EXCEPT !.power = TRUE] ELSE @[o]]]
    BY <1>7 DEF Walked, ReadPowers
  <2> DEFINE got == [o \in Onus |-> IF o \in read
                       THEN [sync.got[o] EXCEPT !.power = TRUE] ELSE sync.got[o]]
  <2>2. losses' \in 0 .. MaxLosses
    BY <1>7 DEF Walked, ReadPowers, TypeOK
  <2>3. \A o \in read : sync.got[o] \in Row
    BY DEF Found, TypeOK
  <2>4. \A o \in read : got[o] \in Row /\ sync.got[o] # NoRow
    BY <2>3 DEF Found
  <2>5. got \in [Onus -> Row \cup {NoRow}]
    <3>1. \A o \in Onus : sync.got[o] \in Row \cup {NoRow}
      BY DEF TypeOK
    <3>2. \A o \in Onus : got[o] \in Row \cup {NoRow}
      <4> SUFFICES ASSUME NEW o \in Onus PROVE got[o] \in Row \cup {NoRow}
        OBVIOUS
      <4>1. CASE o \in read
        BY <2>4, <4>1
      <4>2. CASE o \notin read
        <5>1. got[o] = sync.got[o]
          BY <4>2
        <5> QED BY <5>1, <3>1
      <4> QED BY <4>1, <4>2
    <3> HIDE DEF got
    <3>3. got = [o \in Onus |-> got[o]]
      BY DEF got
    <3> QED BY ONLY <3>2, <3>3
  <2>6. \A o \in Onus : got[o] = NoRow <=> sync.got[o] = NoRow
    BY <2>4
  <2>7. sync' = [sync EXCEPT !.step = "old", !.got = got]
    BY <2>1
  <2>8. Listing /\ UNCHANGED <<link, faults, row, missed, pass, write>>
    BY <1>7 DEF Walked, ReadPowers, Listing
  <2> QED BY <2>2, <2>5, <2>6, <2>7, <2>8, ReadingHolds
<1>8. CASE ReadOldPowers
  <2>1. PICK old \in {{}, {o \in Onus : row[o].power}} :
          sync' = [sync EXCEPT !.step = "upsert", !.old = old]
    BY <1>8 DEF ReadOldPowers
  <2>2. sync' \in SyncType
    BY <2>1 DEF TypeOK
  <2>3. TypeOK'
    BY <1>8, <2>2 DEF ReadOldPowers, TypeOK
  <2>4. sync'.got = sync.got /\ sync'.by = sync.by /\ sync'.step = "upsert"
    BY <2>1 DEF TypeOK
  <2>5. Found' = Found
    BY <2>4 DEF Found
  <2> QED BY <1>8, <2>3, <2>4, <2>5 DEF ReadOldPowers, ListIsWhole, Listing
<1>9. CASE CommitRows
  <2>a. \A r \in Row, b \in BOOLEAN : [r EXCEPT !.power = b] \in Row
    OBVIOUS
  <2>b. \A o \in Found : sync.got[o] \in Row
    BY DEF Found, TypeOK
  <2>1. \A o \in Found : [sync.got[o] EXCEPT !.power = @ \/ o \in sync.old] \in Row
    BY <2>a, <2>b
  <2>2. row' \in [Onus -> Row \cup {NoRow}]
    BY <1>9, <2>1 DEF CommitRows, ReplaceRows
  <2>3. sync' \in SyncType /\ sync'.step = "tail"
    BY <1>9, <1>a DEF CommitRows, NoSync
  <2>4. TypeOK'
    BY <1>9, <2>2, <2>3 DEF CommitRows, TypeOK
  <2> QED BY <2>3, <2>4 DEF ListIsWhole, Listing
<1>10. ASSUME NEW p \in Passes, StartPass(p) PROVE IInv'
  <2>1. Listed \in [Onus -> Statuses \cup {"absent"}]
    BY DEF Listed, TypeOK
  <2>2. TypeOK'
    BY <1>10, <2>1 DEF StartPass, TypeOK
  <2> QED BY <1>10, <2>2 DEF StartPass, ListIsWhole, Listing, Found, Registered
<1>11. ASSUME NEW p \in Passes, EndPass(p) PROVE IInv'
  <2>1. TypeOK'
    BY <1>11, <1>a DEF EndPass, TypeOK
  <2>2. ListIsWhole'
    BY <1>11 DEF EndPass, ListIsWhole, Listing, Found, Registered, NoSync
  <2> QED BY <2>1, <2>2
<1>12. ASSUME NEW p \in Passes, NEW o \in Onus, SkipOnu(p, o) PROVE IInv'
  <2>1. pass[p] \in Probing
    BY <1>12 DEF SkipOnu, TypeOK
  <2>2. [pass[p] EXCEPT !.todo[o] = "absent", !.lit = @ \ {o}] \in Probing
    BY <2>1
  <2>3. TypeOK'
    BY <1>12, <2>2 DEF SkipOnu, TypeOK
  <2> QED BY <1>12, <2>3 DEF SkipOnu, ListIsWhole, Listing, Found, Registered
<1>13. ASSUME NEW p \in Passes, NEW o \in Onus, ProbeOnu(p, o) PROVE IInv'
  <2>1. pass[p] \in Probing
    BY <1>13 DEF ProbeOnu, TypeOK
  <2>2. PICK power \in ProbedPowers(p, o), seen \in {pass[p].todo[o], "unknown", Truth(o)} :
          pass' = [pass EXCEPT ![p] =
            [step |-> "select", onu |-> o, power |-> PowerToStore(seen, power),
             lit |-> @.lit \ {o}, todo |-> [@.todo EXCEPT ![o] = "absent"]]]
    BY <1>13 DEF ProbeOnu
  <2>3. PowerToStore(seen, power) \in BOOLEAN
    BY DEF PowerToStore, ProbedPowers
  <2>4. [step |-> "select", onu |-> o, power |-> PowerToStore(seen, power),
         lit |-> pass[p].lit \ {o},
         todo |-> [pass[p].todo EXCEPT ![o] = "absent"]] \in Setting
    BY <2>1, <2>3
  <2>5. TypeOK'
    BY <1>13, <2>2, <2>4 DEF ProbeOnu, TypeOK
  <2> QED BY <1>13, <2>5 DEF ProbeOnu, ListIsWhole, Listing, Found, Registered
<1>14. ASSUME NEW p \in Passes, SelectStatus(p) PROVE IInv'
  <2> DEFINE power == PowerToStore(row[pass[p].onu].status, pass[p].power)
  <2>1. pass[p] \in Setting
    BY <1>14 DEF SelectStatus, TypeOK
  <2>2. power \in BOOLEAN
    BY <2>1 DEF PowerToStore
  <2>3. [pass[p] EXCEPT !.step = "update", !.power = power] \in Setting
    BY <2>1, <2>2
  <2>4. pass' = [pass EXCEPT ![p] = [pass[p] EXCEPT !.step = "update", !.power = power]]
    BY <1>14, <2>1 DEF SelectStatus, TypeOK
  <2>5. TypeOK'
    BY <1>14, <2>3, <2>4 DEF SelectStatus, TypeOK
  <2> QED BY <1>14, <2>5 DEF SelectStatus, ListIsWhole, Listing, Found, Registered
<1>15. ASSUME NEW p \in Passes, UpdatePower(p) PROVE IInv'
  <2>1. pass[p] \in Setting
    BY <1>15 DEF UpdatePower, TypeOK
  <2> DEFINE o == pass[p].onu
  <2>a. ASSUME o \in Stored
        PROVE  [row EXCEPT ![o].power = pass[p].power] \in [Onus -> Row \cup {NoRow}]
    <3>1. row[o] \in Row
      BY <2>a DEF Stored, TypeOK
    <3>2. [row[o] EXCEPT !.power = pass[p].power] \in Row
      BY <2>1, <3>1
    <3> QED BY <3>2 DEF TypeOK
  <2>2. row' \in [Onus -> Row \cup {NoRow}]
    BY <1>15, <2>a DEF UpdatePower, TypeOK
  <2>b. [step |-> "probe", lit |-> pass[p].lit, todo |-> pass[p].todo] \in Probing
    BY <2>1
  <2>3. TypeOK'
    BY <1>15, <2>b, <2>2 DEF UpdatePower, TypeOK
  <2> QED BY <1>15, <2>3 DEF UpdatePower, ListIsWhole, Listing, Found, Registered
<1>16. ASSUME NEW w \in Writers, NEW o \in Onus, ReadLive(w, o) PROVE IInv'
  <2>1. PICK status \in {Truth(o), "unknown"}, power \in {FALSE, link[o] = "up"} :
          write' = [write EXCEPT ![w] = [onu |-> o, status |-> status, power |-> power]]
    BY <1>16 DEF ReadLive, LiveStatuses
  <2>2. status \in Statuses /\ power \in BOOLEAN
    BY DEF Truth
  <2>3. TypeOK'
    BY <1>16, <2>1, <2>2 DEF ReadLive, LiveStatuses, TypeOK
  <2> QED BY <1>16, <2>3 DEF ReadLive, ListIsWhole, Listing, Found, Registered
<1>17. ASSUME NEW w \in Writers, StoreLive(w) PROVE IInv'
  <2>1. write[w] \in [onu : Onus, status : Statuses, power : BOOLEAN]
    BY <1>17 DEF StoreLive, TypeOK
  <2>2. \A old \in Row : Merge(old, write[w]) \in Row
    BY <2>1 DEF Merge
  <2>3. row' \in [Onus -> Row \cup {NoRow}]
    BY <1>17, <2>1, <2>2 DEF StoreLive, TypeOK, Stored
  <2>4. TypeOK'
    BY <1>17, <2>3 DEF StoreLive, TypeOK
  <2> QED BY <1>17, <2>4 DEF StoreLive, ListIsWhole, Listing, Found, Registered
<1>18. CASE UNCHANGED vars
  BY <1>18 DEF vars, TypeOK, ListIsWhole, Listing, Found, Registered
<1> QED
  BY <1>1, <1>2, <1>3, <1>4, <1>5, <1>6, <1>7, <1>8, <1>9, <1>10, <1>11, <1>12, <1>13,
     <1>14, <1>15, <1>16, <1>17, <1>18
  DEF Next, SyncStep, PassStep

(* The inductive invariant of the rows: types, and a list that misses no   *)
(* ONU that was there all along.                                           *)
THEOREM Invariant == Spec => []IInv
<1>1. Init => IInv
  BY InitHolds
<1>2. IInv /\ [Next]_vars => IInv'
  BY NextHolds
<1> QED BY <1>1, <1>2, PTL DEF Spec

(* Every variable keeps its type (olt_onus and the jobs that write it).    *)
THEOREM TypeCorrect == Spec => []TypeOK
<1>1. IInv => TypeOK
  BY DEF IInv
<1> QED BY <1>1, Invariant, PTL

(* Without incomplete serial tables no ONU that was there all along loses  *)
(* its row, and no sync empties the table (ReplaceRows, UpsertONUs).       *)
THEOREM RowsStay == Spec => RowsGoOnlyWhenGone
<1> DEFINE Kept == /\ \A o \in Stored \ Stored' : o \in missed \/ sync.by = "serial"
                   /\ Stored # {} => Stored' # {}
<1>1. IInv /\ [Next]_vars => [Kept]_vars
  <2> SUFFICES ASSUME IInv, [Next]_vars PROVE [Kept]_vars
    OBVIOUS
  <2>1. ASSUME Stored \subseteq Stored' PROVE Kept
    BY <2>1
  <2>2. ASSUME row' = row PROVE Kept
    BY <2>2, <2>1 DEF Stored
  <2>3. CASE CommitRows
    <3>1. Listing
      BY <2>3 DEF CommitRows, Listing
    <3>2. \A o \in Found : [sync.got[o] EXCEPT !.power = @ \/ o \in sync.old] # NoRow
      <4>1. \A o \in Found : sync.got[o] \in Row
        BY DEF Found, IInv, TypeOK
      <4> QED BY <4>1
    <3>3. Stored' = Found
      BY <2>3, <3>2 DEF CommitRows, ReplaceRows, Stored, Found
    <3>4. sync.by = "serial" \/ Onus \ Found \subseteq missed
      BY <3>1 DEF IInv, ListIsWhole, TypeOK
    <3> QED BY <3>1, <3>3, <3>4 DEF IInv, ListIsWhole, Stored
  <2>4. ASSUME NEW p \in Passes, UpdatePower(p) PROVE Kept
    <3>1. \A o \in Stored : row[o] \in Row
      BY DEF Stored, IInv, TypeOK
    <3>2. pass[p].power \in BOOLEAN
      BY <2>4 DEF UpdatePower, IInv, TypeOK
    <3>3. \A o \in Stored : row'[o] \in Row
      BY <2>4, <3>1, <3>2 DEF UpdatePower, Stored, IInv, TypeOK
    <3>4. Stored \subseteq Stored'
      BY <3>3 DEF Stored
    <3> QED BY <3>4, <2>1
  <2>5. ASSUME NEW w \in Writers, StoreLive(w) PROVE Kept
    <3>1. \A o \in Stored : row[o] \in Row
      BY DEF Stored, IInv, TypeOK
    <3>2. write[w] \in [onu : Onus, status : Statuses, power : BOOLEAN]
      BY <2>5 DEF StoreLive, IInv, TypeOK
    <3>3. \A r \in Row : Merge(r, write[w]) \in Row
      BY <3>2 DEF Merge
    <3>4. \A o \in Stored : row'[o] \in Row
      BY <2>5, <3>1, <3>3 DEF StoreLive, Stored, IInv, TypeOK
    <3>5. Stored \subseteq Stored'
      BY <3>4 DEF Stored
    <3> QED BY <3>5, <2>1
  <2>6. CASE \/ \E o \in Onus : LinkChanges(o)
             \/ StartSync \/ SyncFails \/ EnumerateByName \/ EnumerateBySerial
             \/ ReadStatuses \/ ReadPowers \/ ReadOldPowers
    BY <2>6, <2>2 DEF LinkChanges, StartSync, SyncFails, EnumerateByName,
       EnumerateBySerial, ReadStatuses, ReadPowers, ReadOldPowers
  <2>7. CASE \/ \E p \in Passes : StartPass(p) \/ EndPass(p) \/ SelectStatus(p)
             \/ \E p \in Passes, o \in Onus : SkipOnu(p, o) \/ ProbeOnu(p, o)
             \/ \E w \in Writers, o \in Onus : ReadLive(w, o)
             \/ UNCHANGED vars
    BY <2>7, <2>2 DEF StartPass, EndPass, SelectStatus, SkipOnu, ProbeOnu, ReadLive, vars
  <2> QED BY <2>3, <2>4, <2>5, <2>6, <2>7 DEF Next, SyncStep, PassStep
<1> QED BY <1>1, Invariant, PTL DEF Spec, RowsGoOnlyWhenGone

(* A live sync or a refresh never makes an ONU that is not online keep a   *)
(* power: ghosts are made by a full sync or an optical pass (Merge).       *)
THEOREM GhostSources == Spec => GhostsHaveTwoSources
<1> DEFINE Made == \A o \in Ghosts' \ Ghosts :
                     \/ sync.step = "upsert" /\ o \in Found
                     \/ \E p \in Passes : pass[p].step = "update" /\ pass[p].onu = o
<1>1. IInv /\ [Next]_vars => [Made]_vars
  <2> SUFFICES ASSUME IInv, [Next]_vars PROVE [Made]_vars
    OBVIOUS
  <2>1. ASSUME row' = row PROVE Made
    BY <2>1 DEF Ghosts, Stored
  <2>2. CASE CommitRows
    BY <2>2 DEF CommitRows, ReplaceRows, Ghosts, Stored, Found
  <2>3. ASSUME NEW p \in Passes, UpdatePower(p) PROVE Made
    <3>1. pass[p].step = "update"
      BY <2>3 DEF UpdatePower
    <3>2. \A o \in Onus : o # pass[p].onu => row'[o] = row[o]
      BY <2>3 DEF UpdatePower, IInv, TypeOK, Stored
    <3> QED BY <3>1, <3>2 DEF Ghosts, Stored
  <2>4. ASSUME NEW w \in Writers, StoreLive(w) PROVE Made
    <3>1. write[w] \in [onu : Onus, status : Statuses, power : BOOLEAN]
      BY <2>4 DEF StoreLive, IInv, TypeOK
    <3>2. \A o \in Onus : row'[o] = row[o] \/ (o \in Stored /\ row'[o] = Merge(row[o], write[w]))
      BY <2>4 DEF StoreLive, IInv, TypeOK, Stored
    <3>3. \A r \in Row : LET m == Merge(r, write[w])
                        IN  m.power /\ m.status # "online" => m = r
      BY <3>1 DEF Merge
    <3>4. \A o \in Stored : row[o] \in Row
      BY DEF Stored, IInv, TypeOK
    <3> QED BY <3>2, <3>3, <3>4 DEF Ghosts, Stored
  <2>5. CASE \/ \E o \in Onus : LinkChanges(o)
             \/ StartSync \/ SyncFails \/ EnumerateByName \/ EnumerateBySerial
             \/ ReadStatuses \/ ReadPowers \/ ReadOldPowers
    BY <2>5, <2>1 DEF LinkChanges, StartSync, SyncFails, EnumerateByName,
       EnumerateBySerial, ReadStatuses, ReadPowers, ReadOldPowers
  <2>6. CASE \/ \E p \in Passes : StartPass(p) \/ EndPass(p) \/ SelectStatus(p)
             \/ \E p \in Passes, o \in Onus : SkipOnu(p, o) \/ ProbeOnu(p, o)
             \/ \E w \in Writers, o \in Onus : ReadLive(w, o)
             \/ UNCHANGED vars
    BY <2>6, <2>1 DEF StartPass, EndPass, SelectStatus, SkipOnu, ProbeOnu, ReadLive, vars
  <2> QED BY <2>2, <2>3, <2>4, <2>5, <2>6 DEF Next, SyncStep, PassStep
<1> QED BY <1>1, Invariant, PTL DEF Spec, GhostsHaveTwoSources
=============================================================================
