-------------------------- MODULE OnuTrafficProofs --------------------------
(***************************************************************************)
(* Proofs about OnuTraffic, for counters of any width and any number of    *)
(* ONUs and refreshes.                                                     *)
(***************************************************************************)
EXTENDS OnuTraffic, Integers, TLAPS

USE TrafficConstants

-----------------------------------------------------------------------------
(* Counters that wrap.                                                     *)
LEMMA Division ==
  ASSUME NEW a \in Nat, NEW w \in Nat \ {0}
  PROVE  /\ a \div w \in Nat /\ a % w \in 0 .. w - 1
         /\ a = (w * (a \div w)) + (a % w)
OBVIOUS

LEMMA AtMostOneTurn ==
  ASSUME NEW p \in Nat, NEW q \in Nat, NEW x \in 0 .. Wide - 1, NEW y \in 0 .. Wide - 1,
         Wide * p + x <= Wide * q + y, (Wide * q + y) - (Wide * p + x) < Wide
  PROVE  q = p \/ q = p + 1
<1>1. ASSUME q < p PROVE FALSE
  <2>1. PICK d \in Nat : p = q + 1 + d
    BY <1>1
  <2>2. Wide * p = Wide * q + Wide + Wide * d /\ Wide * d >= 0
    BY <2>1
  <2> QED BY <2>2
<1>2. ASSUME q > p + 1 PROVE FALSE
  <2>1. PICK d \in Nat : q = p + 2 + d
    BY <1>2
  <2>2. Wide * q = Wide * p + Wide + Wide + Wide * d /\ Wide * d >= 0
    BY <2>1
  <2> QED BY <2>2
<1> QED BY <1>1, <1>2

(* deltaBps gives back the octets between two readings of a 64-bit counter *)
(* if there are fewer than it counts, whether it wrapped or not.           *)
THEOREM DeltaExact ==
  ASSUME NEW a \in Nat, NEW b \in Nat, a <= b, b - a < Wide
  PROVE  Delta(a % Wide, b % Wide) = b - a
<1> DEFINE p == a \div Wide
           q == b \div Wide
           x == a % Wide
           y == b % Wide
<1>1. /\ p \in Nat /\ q \in Nat /\ x \in 0 .. Wide - 1 /\ y \in 0 .. Wide - 1
      /\ a = Wide * p + x /\ b = Wide * q + y
  BY Division
<1> HIDE DEF p, q, x, y
<1>2. q = p \/ q = p + 1
  BY <1>1, AtMostOneTurn
<1>3. CASE q = p
  BY <1>1, <1>3 DEF Delta, x, y
<1>4. CASE q = p + 1
  <2>1. Wide * q = Wide * p + Wide
    BY <1>1, <1>4
  <2>2. Delta(x, y) = b - a
    BY <1>1, <2>1 DEF Delta
  <2> QED BY <2>2 DEF x, y
<1> QED BY <1>2, <1>3, <1>4

LEMMA DeltaNat ==
  ASSUME NEW a \in Nat, NEW b \in Nat, a < Wide
  PROVE  Delta(a, b) \in Nat
BY DEF Delta

-----------------------------------------------------------------------------
(* Every reading shows the octets carried since the counter last was 0, in *)
(* the counter's width.                                                    *)
Shows(r) ==
  \/ r = NoReading
  \/ /\ r \in Readings /\ r.of # "none"
     /\ r.base <= r.total
     /\ r.count = (r.total - r.base) % r.width
  \/ r \in Readings /\ r.of = "none" /\ r.count < Wide

ReadingsShow ==
  /\ \A c \in Counters : base[c] <= carried[c]
  /\ \A o \in Onus : Shows(row[o].reading)
  /\ \A j \in Refreshes : /\ Shows(job[j].prev.reading)
                          /\ \A o \in Onus : Shows(job[j].samples[o])

IInv == TypeOK /\ ReadingsShow

LEMMA ShownCount ==
  ASSUME NEW r, Shows(r) PROVE r.count \in Nat /\ r.count < Wide
<1>1. CASE r = NoReading
  BY <1>1 DEF NoReading
<1>2. CASE /\ r \in Readings /\ r.of # "none"
           /\ r.base <= r.total /\ r.count = (r.total - r.base) % r.width
  <2>1. r.total - r.base \in Nat /\ r.width \in Nat \ {0} /\ r.width <= Wide
    BY <1>2 DEF Readings
  <2>2. (r.total - r.base) % r.width \in 0 .. r.width - 1
    BY <2>1, Division
  <2> QED BY <1>2, <2>1, <2>2
<1>3. CASE r \in Readings /\ r.of = "none" /\ r.count < Wide
  BY <1>3 DEF Readings
<1> QED BY <1>1, <1>2, <1>3 DEF Shows

LEMMA Blanks ==
  /\ NoRow \in RowType /\ FreshRow \in RowType /\ NoRate \in Rates
  /\ Shows(NoRow.reading) /\ Shows(FreshRow.reading) /\ Shows(NoReading)
  /\ Idle \in JobType /\ NoSamples \in [Onus -> Readings \cup {NoReading}]
  /\ Idle.prev = NoRow /\ Idle.samples = NoSamples
<1>1. NoRate \in Rates
  BY DEF NoRate, Rates
<1>2. NoRow \in RowType /\ FreshRow \in RowType
  <2>1. 0 \in 0 .. MaxUpdates
    OBVIOUS
  <2>2. NoRow \in RowType
    BY <1>1, <2>1 DEF NoRow, RowType
  <2>3. FreshRow \in RowType
    <3>1. \A r \in RowType : [r EXCEPT !.stored = TRUE] \in RowType
      BY DEF RowType
    <3> QED BY <2>2, <3>1 DEF FreshRow
  <2> QED BY <2>2, <2>3
<1>3. Shows(NoRow.reading) /\ Shows(FreshRow.reading) /\ Shows(NoReading)
  BY DEF Shows, NoRow, FreshRow
<1>4. NoSamples \in [Onus -> Readings \cup {NoReading}]
  BY DEF NoSamples
<1>5. Idle \in JobType /\ Idle.prev = NoRow /\ Idle.samples = NoSamples
  BY <1>1, <1>2, <1>4 DEF Idle, JobType
<1> QED BY <1>1, <1>2, <1>3, <1>4, <1>5

LEMMA ReadingShows ==
  ASSUME NEW c \in Counters, NEW of \in Sources \ {"none"}, NEW w \in {Wide, Narrow},
         carried[c] \in Nat, base[c] \in Nat, base[c] <= carried[c]
  PROVE  Reading(c, of, w) \in Readings /\ Shows(Reading(c, of, w))
<1>1. carried[c] - base[c] \in Nat
  OBVIOUS
<1>2. (carried[c] - base[c]) % w \in Nat
  <2>1. w \in Nat \ {0}
    OBVIOUS
  <2> QED BY <1>1, <2>1, Division
<1> QED BY <1>2 DEF Reading, Readings, Shows, Sources

LEMMA NumberShows ==
  ASSUME NEW n \in 0 .. Wide - 1
  PROVE  Number(n) \in Readings /\ Shows(Number(n))
BY DEF Number, Readings, Sources, Shows

(* Whatever a table gives is a reading of a counter, or a number.          *)
LEMMA SampleShows ==
  ASSUME IInv, NEW o \in Onus, NEW table \in {"private", "interface", "cli"},
         NEW r \in SamplesOf(table, o)
  PROVE  r \in Readings /\ Shows(r)
<1>1. \A c \in Counters : carried[c] \in Nat /\ base[c] \in Nat /\ base[c] <= carried[c]
  BY DEF IInv, TypeOK, ReadingsShow
<1>2. \/ \E n \in 0 .. Wide - 1 : r = Number(n)
      \/ \E c \in Counters, of \in Sources \ {"none"}, w \in {Wide, Narrow} :
           r = Reading(c, of, w)
  <2>1. o \in Counters /\ Port \in Counters /\ 0 \in 0 .. Wide - 1
    BY DEF Counters
  <2>2. {"private", "port", "label", "cli"} \subseteq Sources \ {"none"}
    BY DEF Sources
  <2> QED BY <2>1, <2>2 DEF SamplesOf, PrivateSamples, InterfaceSamples, LabelSamples, CliSamples
<1> QED BY <1>1, <1>2, ReadingShows, NumberShows

LEMMA RateTyped ==
  ASSUME NEW prev \in RowType, NEW sample, NEW now \in 0 .. MaxUpdates,
         Shows(prev.reading), Shows(sample)
  PROVE  RateSince(prev, sample, now) \in Rates
<1>1. Delta(prev.reading.count, sample.count) \in Nat
  BY ShownCount, DeltaNat
<1> QED BY <1>1 DEF RateSince, Rates, NoRate, RowType

(* A step of one refresh that leaves the rows alone.                       *)
LEMMA JobStep ==
  ASSUME IInv, NEW j \in Refreshes, NEW new \in JobType,
         job' = [job EXCEPT ![j] = new],
         Shows(new.prev.reading), \A o \in Onus : Shows(new.samples[o]),
         UNCHANGED <<carried, base, left, row>>,
         clock' \in 0 .. MaxUpdates, daily' \in [Onus -> Rates], skipped' \in BOOLEAN
  PROVE  IInv'
<1>1. TypeOK'
  BY DEF IInv, TypeOK
<1>2. \A k \in Refreshes : job'[k] = IF k = j THEN new ELSE job[k]
  BY DEF IInv, TypeOK
<1>3. ReadingsShow'
  BY <1>2 DEF IInv, ReadingsShow
<1> QED BY <1>1, <1>3 DEF IInv

(* What UpdateTraffic changes of a refresh before and at each ONU.         *)
Updating(old, todo, now) ==
  [old EXCEPT !.step = "update", !.table = "private", !.listed = {}, !.todo = todo, !.now = now]
Writing(old, o, prev) ==
  [old EXCEPT !.step = "write", !.onu = {o}, !.prev = prev, !.todo = @ \ {o}]

LEMMA UpdatedJob ==
  ASSUME NEW old \in JobType, NEW todo \in SUBSET Onus, NEW now \in 0 .. MaxUpdates
  PROVE  /\ Updating(old, todo, now) \in JobType
         /\ Updating(old, todo, now).prev = old.prev
         /\ Updating(old, todo, now).samples = old.samples
BY DEF JobType, Updating

LEMMA WritingJob ==
  ASSUME NEW old \in JobType, NEW o \in Onus, NEW prev \in RowType
  PROVE  /\ Writing(old, o, prev) \in JobType
         /\ Writing(old, o, prev).prev = prev
         /\ Writing(old, o, prev).samples = old.samples
BY DEF JobType, Writing

LEMMA InitHolds == Init => IInv
<1> SUFFICES ASSUME Init PROVE IInv
  OBVIOUS
<1>1. TypeOK
  <2>1. carried \in [Counters -> Nat]
    BY DEF Init
  <2>2. left \in [octets : 0 .. MaxOctets, events : 0 .. MaxEvents]
    BY DEF Init
  <2>3. row \in [Onus -> RowType] /\ daily \in [Onus -> Rates] /\ job \in [Refreshes -> JobType]
    BY Blanks DEF Init
  <2>4. clock = 0 /\ skipped = FALSE /\ base = [c \in Counters |-> 0]
    BY DEF Init
  <2>5. base \in [Counters -> Nat] /\ clock \in 0 .. MaxUpdates
    BY <2>4
  <2>6. skipped \in BOOLEAN
    BY <2>4, Zenon
  <2> QED BY <2>1, <2>2, <2>3, <2>5, <2>6 DEF TypeOK
<1>2. ReadingsShow
  <2>1. /\ \A c \in Counters : base[c] <= carried[c]
        /\ \A o \in Onus : row[o] = FreshRow
    <3>1. carried \in [Counters -> Nat] /\ base = [c \in Counters |-> 0]
          /\ row = [o \in Onus |-> FreshRow]
      BY DEF Init
    <3> HIDE DEF FreshRow
    <3> QED BY <3>1
  <2>2. \A o \in Onus : Shows(NoSamples[o])
    BY Blanks DEF NoSamples
  <2>3. \A j \in Refreshes : job[j] = Idle
    BY DEF Init
  <2> QED BY <2>1, <2>2, <2>3, Blanks DEF ReadingsShow
<1> QED BY <1>1, <1>2 DEF IInv

LEMMA NextHolds == IInv /\ [Next]_vars => IInv'
<1> SUFFICES ASSUME IInv, [Next]_vars PROVE IInv'
  OBVIOUS
<1>a. \A j \in Refreshes : /\ job[j] \in JobType /\ Shows(job[j].prev.reading)
                           /\ \A o \in Onus : Shows(job[j].samples[o])
  BY DEF IInv, TypeOK, ReadingsShow
<1>b. /\ clock \in 0 .. MaxUpdates /\ daily \in [Onus -> Rates] /\ skipped \in BOOLEAN
      /\ row \in [Onus -> RowType]
  BY DEF IInv, TypeOK
<1>c. \A o \in Onus : Shows(NoSamples[o])
  BY Blanks DEF NoSamples
<1>1. ASSUME NEW c \in Counters, Carry(c) PROVE IInv'
  <2>1. PICK n \in 1 .. left.octets :
          /\ carried' = [d \in Counters |-> carried[d] + IF d \in {c, Port} THEN n ELSE 0]
          /\ left' = [left EXCEPT !.octets = @ - n]
    BY <1>1 DEF Carry
  <2>2. TypeOK'
    BY <1>1, <2>1 DEF Carry, IInv, TypeOK
  <2>3. ReadingsShow'
    BY <1>1, <2>1 DEF Carry, IInv, TypeOK, ReadingsShow
  <2> QED BY <2>2, <2>3 DEF IInv
<1>2. ASSUME NEW c \in Counters, ResetCounter(c) PROVE IInv'
  <2>1. TypeOK'
    BY <1>2 DEF ResetCounter, IInv, TypeOK
  <2>2. ReadingsShow'
    BY <1>2 DEF ResetCounter, IInv, TypeOK, ReadingsShow
  <2> QED BY <2>1, <2>2 DEF IInv
<1>3. CASE ReplaceRows
  <2>1. PICK found \in SUBSET Onus :
          row' = [o \in Onus |-> IF o \in found THEN FreshRow ELSE NoRow]
    BY <1>3 DEF ReplaceRows
  <2>2. TypeOK'
    BY <1>3, <2>1, Blanks DEF ReplaceRows, IInv, TypeOK
  <2>3. ReadingsShow'
    BY <1>3, <2>1, Blanks DEF ReplaceRows, IInv, ReadingsShow
  <2> QED BY <2>2, <2>3 DEF IInv
<1>4. ASSUME NEW j \in Refreshes, Begin(j) PROVE IInv'
  <2> DEFINE new == [Idle EXCEPT !.step = "read", !.listed = Stored, !.todo = Stored]
  <2>1. new \in JobType /\ new.prev = NoRow /\ new.samples = NoSamples
    BY Blanks DEF JobType, Stored
  <2> HIDE DEF new
  <2>2. job' = [job EXCEPT ![j] = new]
    BY <1>4 DEF Begin, new
  <2>3. UNCHANGED <<carried, base, left, clock, row, daily, skipped>>
    BY <1>4 DEF Begin
  <2> QED BY <1>b, <1>c, <2>1, <2>2, <2>3, JobStep, Blanks
<1>5. ASSUME NEW j \in Refreshes, NEW o \in Onus, Sample(j, o) PROVE IInv'
  <2>1. PICK r \in {NoReading} \cup SamplesOf(job[j].table, o) :
          job' = [job EXCEPT ![j].todo = @ \ {o}, ![j].samples[o] = r]
    BY <1>5 DEF Sample
  <2>a. job[j].table \in {"private", "interface", "cli"}
    BY <1>a DEF JobType
  <2>2. r \in Readings \cup {NoReading} /\ Shows(r)
    BY <2>1, <2>a, SampleShows, Blanks
  <2> DEFINE new == [job[j] EXCEPT !.todo = @ \ {o}, !.samples[o] = r]
  <2>3. new \in JobType /\ new.prev = job[j].prev
        /\ new.samples = [job[j].samples EXCEPT ![o] = r]
    BY <1>a, <2>2 DEF JobType
  <2>4. \A q \in Onus : new.samples[q] = IF q = o THEN r ELSE job[j].samples[q]
    BY <1>a, <2>3 DEF JobType
  <2>5. job' = [job EXCEPT ![j] = new]
    BY <2>1
  <2>6. UNCHANGED <<carried, base, left, clock, row, daily, skipped>>
    BY <1>5 DEF Sample
  <2>7. Shows(new.prev.reading) /\ \A q \in Onus : Shows(new.samples[q])
    BY <1>a, <2>2, <2>3, <2>4
  <2> HIDE DEF new
  <2> QED BY <1>b, <2>3, <2>5, <2>6, <2>7, JobStep
<1>6. ASSUME NEW j \in Refreshes, TryNextTable(j) PROVE IInv'
  <2> DEFINE table == NextTable(job[j].table)
             next  == [job[j] EXCEPT !.table = table, !.todo = job[j].listed,
                                     !.samples = NoSamples]
             new   == IF job[j].table = "cli" \/ table \notin Tables THEN Idle ELSE next
  <2>1. next \in JobType /\ next.prev = job[j].prev /\ next.samples = NoSamples
    BY <1>a, Blanks DEF JobType, NextTable
  <2>2. new \in JobType /\ (new.prev = NoRow \/ new.prev = job[j].prev)
        /\ new.samples = NoSamples
    BY <2>1, Blanks
  <2>3. job' = [job EXCEPT ![j] = new]
    BY <1>6 DEF TryNextTable
  <2>4. UNCHANGED <<carried, base, left, clock, row, daily, skipped>>
    BY <1>6 DEF TryNextTable
  <2> HIDE DEF new
  <2> QED BY <1>a, <1>b, <1>c, <2>2, <2>3, <2>4, JobStep, Blanks
<1>7. ASSUME NEW j \in Refreshes, StartUpdate(j) PROVE IInv'
  <2>1. clock' = clock + 1 /\ clock' \in 0 .. MaxUpdates
    BY <1>7, <1>b DEF StartUpdate
  <2> DEFINE new == Updating(job[j], Sampled(j), clock')
  <2>2. new \in JobType /\ new.prev = job[j].prev /\ new.samples = job[j].samples
    <3>1. Sampled(j) \in SUBSET Onus
      BY DEF Sampled
    <3> QED BY <1>a, <2>1, <3>1, UpdatedJob
  <2>3. job' = [job EXCEPT ![j] = new]
    BY <1>7 DEF StartUpdate, Updating
  <2>4. UNCHANGED <<carried, base, left, row, daily, skipped>>
    BY <1>7 DEF StartUpdate
  <2> HIDE DEF new
  <2> QED BY <1>a, <1>b, <2>1, <2>2, <2>3, <2>4, JobStep
<1>8. ASSUME NEW j \in Refreshes, NEW o \in Onus, SelectPrevious(j, o) PROVE IInv'
  <2> DEFINE new == Writing(job[j], o, row[o])
  <2>1. new \in JobType /\ new.prev = row[o] /\ new.samples = job[j].samples
    <3>1. job[j] \in JobType /\ row[o] \in RowType
      BY <1>a, <1>b
    <3> QED BY <3>1, WritingJob
  <2>2. job' = [job EXCEPT ![j] = new]
    BY <1>8 DEF SelectPrevious, Writing
  <2>3. UNCHANGED <<carried, base, left, clock, row, daily, skipped>>
    BY <1>8 DEF SelectPrevious
  <2>4. Shows(row[o].reading)
    BY DEF IInv, ReadingsShow
  <2> HIDE DEF new
  <2> QED BY <1>a, <1>b, <2>1, <2>2, <2>3, <2>4, JobStep
<1>9. ASSUME NEW j \in Refreshes, StoreSample(j) PROVE IInv'
  <2>1. PICK o \in Onus :
          LET sample == job[j].samples[o]
              fits   == sample.count <= MaxColumn
          IN  /\ row' = IF fits /\ o \in Stored
                          THEN [row EXCEPT ![o].reading = sample, ![o].at = job[j].now,
                                  ![o].rate = RateSince(job[j].prev, sample, job[j].now)]
                          ELSE row
              /\ job' = [job EXCEPT ![j] =
                           IF fits THEN [@ EXCEPT !.step = "update", !.onu = {},
                                                  !.prev = NoRow, !.samples[o] = NoReading]
                                   ELSE Idle]
              /\ skipped' = (skipped \/ ~fits)
    BY <1>9, <1>a DEF StoreSample, JobType
  <2> DEFINE sample == job[j].samples[o]
             rate   == RateSince(job[j].prev, sample, job[j].now)
             done   == [job[j] EXCEPT !.step = "update", !.onu = {}, !.prev = NoRow,
                                      !.samples[o] = NoReading]
             new    == IF sample.count <= MaxColumn THEN done ELSE Idle
             stored == [row[o] EXCEPT !.reading = sample, !.at = job[j].now, !.rate = rate]
  <2>2. rate \in Rates
    <3>1. job[j].prev \in RowType /\ job[j].now \in 0 .. MaxUpdates
      BY <1>a DEF JobType
    <3> QED BY <1>a, <3>1, RateTyped
  <2>3. sample \in Readings \cup {NoReading} /\ Shows(sample)
    BY <1>a DEF JobType
  <2>4. stored \in RowType /\ stored.reading = sample
    <3> HIDE DEF rate, sample
    <3>1. job[j].now \in 0 .. MaxUpdates /\ row[o] \in RowType
      BY <1>a, <1>b DEF JobType
    <3> QED BY <2>2, <2>3, <3>1 DEF RowType
  <2>5. row' = row \/ row' = [row EXCEPT ![o] = stored]
    BY <2>1, <1>b
  <2> HIDE DEF stored, rate
  <2>6. row' \in [Onus -> RowType] /\ \A q \in Onus : Shows(row'[q].reading)
    <3>1. \A q \in Onus : Shows(row[q].reading)
      BY DEF IInv, ReadingsShow
    <3> QED BY <1>b, <2>3, <2>4, <2>5, <3>1
  <2>7. done \in JobType /\ done.prev = NoRow
        /\ done.samples = [job[j].samples EXCEPT ![o] = NoReading]
    BY <1>a, Blanks DEF JobType
  <2>8. \A q \in Onus : done.samples[q] = IF q = o THEN NoReading ELSE job[j].samples[q]
    BY <1>a, <2>7 DEF JobType
  <2>9. new \in JobType /\ Shows(new.prev.reading) /\ \A q \in Onus : Shows(new.samples[q])
    BY <1>a, <1>c, <2>7, <2>8, Blanks
  <2>10. job' = [job EXCEPT ![j] = new]
    BY <2>1
  <2> HIDE DEF new
  <2>11. UNCHANGED <<carried, base, left, clock, daily>> /\ skipped' \in BOOLEAN
    BY <1>9, <1>b, <2>1 DEF StoreSample
  <2>12. TypeOK'
    BY <2>6, <2>9, <2>10, <2>11 DEF IInv, TypeOK
  <2>13. \A k \in Refreshes : job'[k] = IF k = j THEN new ELSE job[k]
    BY <2>10 DEF IInv, TypeOK
  <2>14. ReadingsShow'
    BY <2>6, <2>9, <2>11, <2>13 DEF IInv, ReadingsShow
  <2> QED BY <2>12, <2>14 DEF IInv
<1>10. ASSUME NEW j \in Refreshes, ListRates(j) PROVE IInv'
  <2> DEFINE new == [Idle EXCEPT !.step = "daily", !.rates = [o \in Onus |-> row[o].rate],
                                 !.todo = {o \in Stored : row[o].rate.octets > 0}]
  <2>1. new \in JobType /\ new.prev = NoRow /\ new.samples = NoSamples
    BY <1>b, Blanks DEF JobType, RowType, Stored
  <2>2. job' = [job EXCEPT ![j] = new]
    BY <1>10 DEF ListRates
  <2>3. UNCHANGED <<carried, base, left, clock, row, daily, skipped>>
    BY <1>10 DEF ListRates
  <2> HIDE DEF new
  <2> QED BY <1>b, <1>c, <2>1, <2>2, <2>3, JobStep, Blanks
<1>11. ASSUME NEW j \in Refreshes, NEW o \in Onus, UpsertDaily(j, o) PROVE IInv'
  <2> DEFINE new == [job[j] EXCEPT !.todo = @ \ {o}, !.rates[o] = NoRate]
  <2>1. new \in JobType /\ new.prev = job[j].prev /\ new.samples = job[j].samples
    BY <1>a, Blanks DEF JobType
  <2>2. job' = [job EXCEPT ![j] = new]
    BY <1>11 DEF UpsertDaily
  <2>3. daily' \in [Onus -> Rates]
    BY <1>11, <1>a, <1>b DEF UpsertDaily, Peak, JobType
  <2>4. UNCHANGED <<carried, base, left, clock, row, skipped>>
    BY <1>11 DEF UpsertDaily
  <2> HIDE DEF new
  <2> QED BY <1>a, <1>b, <2>1, <2>2, <2>3, <2>4, JobStep
<1>12. ASSUME NEW j \in Refreshes, EndRefresh(j) \/ FailRefresh(j) PROVE IInv'
  <2>1. job' = [job EXCEPT ![j] = Idle] /\ skipped' \in BOOLEAN
        /\ UNCHANGED <<carried, base, left, clock, row, daily>>
    BY <1>12, <1>b DEF EndRefresh, FailRefresh
  <2> QED BY <1>b, <1>c, <2>1, JobStep, Blanks
<1>13. CASE UNCHANGED vars
  BY <1>13 DEF vars, IInv, TypeOK, ReadingsShow
<1> QED
  BY <1>1, <1>2, <1>3, <1>4, <1>5, <1>6, <1>7, <1>8, <1>9, <1>10, <1>11, <1>12, <1>13
  DEF Next, RefreshStep

(* The inductive invariant: types, and readings that show what was carried.*)
THEOREM Invariant == Spec => []IInv
<1> QED BY InitHolds, NextHolds, PTL DEF Spec

(* Every variable keeps its type (olt_onus, olt_onu_daily, the refreshes). *)
THEOREM TypeCorrect == Spec => []TypeOK
<1>1. IInv => TypeOK
  BY DEF IInv
<1> QED BY <1>1, Invariant, PTL

(* A stored rate is what was carried between its two readings, whichever   *)
(* refreshes crossed, if they were not crossed themselves (UpdateTraffic). *)
THEOREM TrueRates == Spec => RatesAreTrue
<1> DEFINE True(j, o) ==
      LET from == job[j].prev.reading  to == job[j].samples[o]
      IN  Stores(j, o) /\ row'[o].rate # NoRate /\ Sound(from, to)
            => row'[o].rate.octets = to.total - from.total
<1>1. IInv /\ [Next]_vars => \A j \in Refreshes, o \in Onus : True(j, o)
  <2> SUFFICES ASSUME IInv, [Next]_vars, NEW j \in Refreshes, NEW o \in Onus,
                      Stores(j, o), row'[o].rate # NoRate,
                      Sound(job[j].prev.reading, job[j].samples[o])
               PROVE  row'[o].rate.octets = job[j].samples[o].total - job[j].prev.reading.total
    OBVIOUS
  <2> DEFINE from == job[j].prev.reading
             to   == job[j].samples[o]
  <2>1. StoreSample(j)
    <3>1. ASSUME NEW k \in Refreshes, StoreSample(k) PROVE k = j
      <4>1. \E new : job' = [job EXCEPT ![k] = new]
        BY <3>1 DEF StoreSample
      <4> QED BY <4>1 DEF Stores, IInv, TypeOK
    <3>2. \A c \in Counters : ~Carry(c) /\ ~ResetCounter(c)
      BY DEF Stores, Carry, ResetCounter
    <3>3. ~ReplaceRows
      BY DEF Stores, ReplaceRows
    <3>4. \A k \in Refreshes : /\ ~Begin(k) /\ ~TryNextTable(k) /\ ~StartUpdate(k)
                               /\ ~ListRates(k) /\ ~EndRefresh(k) /\ ~FailRefresh(k)
      BY DEF Stores, Begin, TryNextTable, StartUpdate, ListRates, EndRefresh, FailRefresh
    <3>5. \A k \in Refreshes, q \in Onus :
            ~Sample(k, q) /\ ~SelectPrevious(k, q) /\ ~UpsertDaily(k, q)
      BY DEF Stores, Sample, SelectPrevious, UpsertDaily
    <3> QED BY <3>1, <3>2, <3>3, <3>4, <3>5 DEF Stores, Next, RefreshStep, vars
  <2>2. row' = [row EXCEPT ![o].reading = to, ![o].at = job[j].now,
                  ![o].rate = RateSince(job[j].prev, to, job[j].now)]
    BY <2>1 DEF StoreSample, Stores
  <2>3. row'[o].rate = RateSince(job[j].prev, to, job[j].now)
    <3>1. row[o] \in RowType /\ row \in [Onus -> RowType]
      BY DEF IInv, TypeOK
    <3> QED BY <2>2, <3>1 DEF RowType
  <2>4. row'[o].rate.octets = Delta(from.count, to.count)
    BY <2>3 DEF RateSince
  <2>5. Shows(from) /\ Shows(to) /\ from.of # "none" /\ to.of # "none"
        /\ from # NoReading /\ to # NoReading
    BY DEF IInv, ReadingsShow, Sound, NoReading
  <2>6. /\ from.total - from.base \in Nat /\ to.total - to.base \in Nat
        /\ from.count = (from.total - from.base) % Wide
        /\ to.count = (to.total - to.base) % Wide
        /\ from.total \in Nat /\ to.total \in Nat /\ from.base \in Nat
        /\ to.base = from.base
    BY <2>5 DEF Shows, Readings, Sound
  <2>7. Delta(from.count, to.count) = (to.total - to.base) - (from.total - from.base)
    <3> DEFINE a == from.total - from.base
               b == to.total - to.base
    <3>1. a \in Nat /\ b \in Nat /\ a <= b /\ b - a < Wide
      BY <2>6 DEF Sound
    <3> QED BY <2>6, <3>1, DeltaExact
  <2> HIDE DEF from, to
  <2>8. Delta(from.count, to.count) = to.total - from.total
    BY <2>6, <2>7
  <2> QED BY <2>4, <2>8 DEF from, to
<1> QED BY <1>1, Invariant, PTL DEF Spec, RatesAreTrue

-----------------------------------------------------------------------------
(* Rates in order, compared as fractions without dividing.                 *)
LEMMA Scaling ==
  ASSUME NEW x \in Nat, NEW y \in Nat, NEW k \in Nat \ {0}
  PROVE  x * k <= y * k <=> x <= y
<1>1. ASSUME x <= y PROVE x * k <= y * k
  <2>1. PICK d \in Nat : y = x + d
    BY <1>1
  <2>2. y * k = x * k + d * k /\ d * k >= 0
    BY <2>1
  <2> QED BY <2>2
<1>2. ASSUME y < x PROVE y * k < x * k
  <2>1. PICK d \in Nat : x = y + 1 + d
    BY <1>2
  <2>2. x * k = y * k + k + d * k /\ d * k >= 0
    BY <2>1
  <2> QED BY <2>2
<1> QED BY <1>1, <1>2

LEMMA AtMostAtMost ==
  ASSUME NEW a \in Rates, NEW b \in Rates, NEW c \in Rates,
         ~Greater(a, b), ~Greater(b, c)
  PROVE  ~Greater(a, c)
<1>1. /\ a.octets \in Nat /\ b.octets \in Nat /\ c.octets \in Nat
      /\ a.secs \in Nat \ {0} /\ b.secs \in Nat \ {0} /\ c.secs \in Nat \ {0}
  BY DEF Rates
<1>2. ASSUME NEW oa \in Nat, NEW ob \in Nat, NEW oc \in Nat,
             NEW sa \in Nat \ {0}, NEW sb \in Nat \ {0}, NEW sc \in Nat \ {0},
             oa * sb <= ob * sa, ob * sc <= oc * sb
      PROVE  oa * sc <= oc * sa
  <2>1. (oa * sb) * sc <= (ob * sa) * sc
    BY <1>2, Scaling
  <2>2. (ob * sc) * sa <= (oc * sb) * sa
    BY <1>2, Scaling
  <2>3. /\ (oa * sb) * sc = (oa * sc) * sb /\ (oc * sb) * sa = (oc * sa) * sb
        /\ (ob * sa) * sc = (ob * sc) * sa
    OBVIOUS
  <2>4. (oa * sc) * sb <= (oc * sa) * sb
    BY <2>1, <2>2, <2>3
  <2> QED BY <2>4, Scaling
<1>3. a.octets * b.secs <= b.octets * a.secs /\ b.octets * c.secs <= c.octets * b.secs
  BY <1>1 DEF Greater
<1>4. a.octets * c.secs <= c.octets * a.secs
  BY <1>1, <1>2, <1>3
<1> QED BY <1>1, <1>4 DEF Greater

LEMMA NotAbove ==
  ASSUME NEW a \in Rates, NEW b \in Rates
  PROVE  /\ ~Greater(a, a)
         /\ Greater(a, b) => ~Greater(b, a) /\ a.octets > 0
BY DEF Greater, Rates

(* The peak is at least what it was and at least the rate taken over.      *)
LEMMA PeakCovers ==
  ASSUME NEW old \in Rates, NEW new \in Rates
  PROVE  ~Greater(old, Peak(old, new)) /\ ~Greater(new, Peak(old, new))
BY NotAbove DEF Peak

-----------------------------------------------------------------------------
(* A rate above the peak of the day is still on its way: a refresh that    *)
(* has yet to list the rows, or one that has listed this rate.             *)
Carries(j, o) ==
  \/ job[j].step \in {"update", "write"}
  \/ /\ job[j].step = "daily" /\ o \in job[j].todo
     /\ ~Greater(row[o].rate, job[j].rates[o])

OnItsWay(o) ==
  row[o].stored /\ Greater(row[o].rate, daily[o]) => \E j \in Refreshes : Carries(j, o)

PeaksOnTheirWay == ~skipped => \A o \in Onus : OnItsWay(o)

PInv == IInv /\ PeaksOnTheirWay

(* A step of j leaves the rate of o on its way, if it keeps the rate and   *)
(* the peak stays as it is and j does not drop it.                        *)
LEMMA StaysOnItsWay ==
  ASSUME NEW o \in Onus, NEW j \in Refreshes, OnItsWay(o),
         row'[o] = row[o], daily' = daily,
         \A k \in Refreshes \ {j} : job'[k] = job[k],
         Carries(j, o) => Carries(j, o)'
  PROVE  OnItsWay(o)'
BY DEF OnItsWay, Carries

LEMMA PeaksInit == Init => PInv
<1> SUFFICES ASSUME Init PROVE PInv
  OBVIOUS
<1>1. \A o \in Onus : row[o].rate = NoRate
  BY DEF Init, FreshRow, NoRow
<1>2. \A o \in Onus : row[o].rate \in Rates /\ daily[o] \in Rates
  BY InitHolds DEF IInv, TypeOK, RowType
<1>3. \A o \in Onus : ~Greater(row[o].rate, daily[o])
  BY <1>1, <1>2, NotAbove DEF NoRate
<1> QED BY <1>3, InitHolds DEF PInv, PeaksOnTheirWay, OnItsWay

LEMMA PeaksStep == PInv /\ [Next]_vars => PInv'
<1> SUFFICES ASSUME PInv, [Next]_vars PROVE PInv'
  OBVIOUS
<1>a. IInv /\ IInv' /\ TypeOK
  BY NextHolds DEF PInv, IInv
<1>b. /\ \A o \in Onus : row[o].rate \in Rates /\ daily[o] \in Rates
      /\ \A j \in Refreshes, o \in Onus : job[j].rates[o] \in Rates
      /\ skipped \in BOOLEAN
  BY <1>a DEF TypeOK, RowType, JobType
<1> SUFFICES ASSUME ~skipped', NEW o \in Onus PROVE OnItsWay(o)'
  BY <1>a DEF PInv, PeaksOnTheirWay
<1>c. ASSUME ~skipped PROVE OnItsWay(o)
  BY <1>c DEF PInv, PeaksOnTheirWay
<1>1. ASSUME NEW c \in Counters, Carry(c) \/ ResetCounter(c) PROVE OnItsWay(o)'
  BY <1>1, <1>c DEF Carry, ResetCounter, OnItsWay, Carries
<1>2. CASE ReplaceRows
  <2>1. row'[o].rate = NoRate /\ daily' = daily
    BY <1>2 DEF ReplaceRows, FreshRow, NoRow
  <2>2. NoRate \in Rates /\ NoRate.octets = 0
    BY DEF NoRate, Rates
  <2>3. ~Greater(NoRate, daily[o])
    BY <1>b, <2>2, NotAbove
  <2> QED BY <2>1, <2>3 DEF OnItsWay
<1>3. ASSUME NEW j \in Refreshes, NEW q \in Onus,
             Begin(j) \/ Sample(j, q) \/ TryNextTable(j) \/ StartUpdate(j)
             \/ SelectPrevious(j, q) \/ EndRefresh(j)
      PROVE  OnItsWay(o)'
  <2>1. /\ \A k \in Refreshes \ {j} : job'[k] = job[k]
        /\ job[j].step \in {"update", "write"} => job'[j].step \in {"update", "write"}
    <3>1. CASE Begin(j) \/ TryNextTable(j) \/ EndRefresh(j)
      BY <3>1, <1>a DEF Begin, TryNextTable, EndRefresh, TypeOK
    <3>2. CASE Sample(j, q) \/ SelectPrevious(j, q)
      BY <3>2, <1>a DEF Sample, SelectPrevious, TypeOK, JobType
    <3>3. CASE StartUpdate(j)
      BY <3>3, <1>a DEF StartUpdate, TypeOK, JobType
    <3> QED BY <1>3, <3>1, <3>2, <3>3
  <2>2. ~skipped /\ row'[o] = row[o] /\ daily' = daily /\ row' = row
    BY <1>3 DEF Begin, Sample, TryNextTable, StartUpdate, SelectPrevious, EndRefresh
  <2>3. job[j].step = "daily" => o \notin job[j].todo
    BY <1>3 DEF Begin, Sample, TryNextTable, StartUpdate, SelectPrevious, EndRefresh
  <2>4. Carries(j, o) => Carries(j, o)'
    BY <2>1, <2>3 DEF Carries
  <2> QED BY <1>c, <2>1, <2>2, <2>4, StaysOnItsWay
<1>4. ASSUME NEW j \in Refreshes, StoreSample(j) PROVE OnItsWay(o)'
  <2>1. PICK q \in Onus :
          /\ job' = [job EXCEPT ![j] =
                IF job[j].samples[q].count <= MaxColumn
                  THEN [@ EXCEPT !.step = "update", !.onu = {}, !.prev = NoRow,
                                 !.samples[q] = NoReading]
                  ELSE Idle]
          /\ skipped' = (skipped \/ ~(job[j].samples[q].count <= MaxColumn))
    BY <1>4, <1>a DEF StoreSample, TypeOK, JobType
  <2>2. job[j].samples[q].count <= MaxColumn
    BY <2>1
  <2>3. job' = [job EXCEPT ![j] = [@ EXCEPT !.step = "update", !.onu = {}, !.prev = NoRow,
                                            !.samples[q] = NoReading]]
    BY <2>1, <2>2
  <2>4. job'[j].step = "update"
    BY <2>3, <1>a DEF TypeOK, JobType
  <2> QED BY <2>4 DEF OnItsWay, Carries
<1>5. ASSUME NEW j \in Refreshes, ListRates(j) PROVE OnItsWay(o)'
  <2>1. /\ ~skipped /\ row' = row /\ daily' = daily
        /\ job'[j] = [Idle EXCEPT !.step = "daily", !.rates = [q \in Onus |-> row[q].rate],
                                  !.todo = {q \in Stored : row[q].rate.octets > 0}]
    BY <1>5, <1>a DEF ListRates, TypeOK
  <2>2. ASSUME row[o].stored, Greater(row[o].rate, daily[o])
        PROVE  Carries(j, o)'
    <3>1. o \in {q \in Stored : row[q].rate.octets > 0}
      BY <2>2, <1>b, NotAbove DEF Stored
    <3>2. ~Greater(row[o].rate, row[o].rate)
      BY <1>b, NotAbove
    <3> QED BY <2>1, <3>1, <3>2 DEF Carries, Idle
  <2> QED BY <2>1, <2>2 DEF OnItsWay
<1>6. ASSUME NEW j \in Refreshes, NEW q \in Onus, UpsertDaily(j, q) PROVE OnItsWay(o)'
  <2> DEFINE peak == Peak(daily[q], job[j].rates[q])
  <2>1. /\ ~skipped /\ row' = row /\ job[j].step = "daily"
        /\ daily' = [daily EXCEPT ![q] = peak]
        /\ job' = [job EXCEPT ![j].todo = @ \ {q}, ![j].rates[q] = NoRate]
    BY <1>6 DEF UpsertDaily
  <2>2. \A k \in Refreshes \ {j} : job'[k] = job[k]
    BY <2>1, <1>a DEF TypeOK
  <2>3. CASE o # q
    <3>1. daily'[o] = daily[o]
      BY <2>1, <2>3, <1>a DEF TypeOK
    <3>2. job'[j].step = "daily" /\ job'[j].rates[o] = job[j].rates[o]
          /\ (o \in job[j].todo => o \in job'[j].todo)
      BY <2>1, <2>3, <1>a DEF TypeOK, JobType
    <3> QED BY <1>c, <2>1, <2>2, <3>1, <3>2 DEF OnItsWay, Carries
  <2>4. CASE o = q
    <3>1. daily'[o] = peak /\ peak \in Rates
      BY <2>1, <2>4, <1>a, <1>b DEF TypeOK, Peak
    <3>2. ~Greater(daily[o], peak) /\ ~Greater(job[j].rates[o], peak)
      BY <2>4, <1>b, PeakCovers
    <3> HIDE DEF peak
    <3>3. ASSUME row[o].stored, Greater(row[o].rate, peak)
          PROVE  \E k \in Refreshes \ {j} : Carries(k, o)
      <4>1. Greater(row[o].rate, daily[o])
        BY <3>1, <3>2, <3>3, <1>b, AtMostAtMost
      <4>2. PICK k \in Refreshes : Carries(k, o)
        BY <1>c, <2>1, <3>3, <4>1 DEF OnItsWay
      <4>3. ~Carries(j, o)
        BY <2>1, <3>1, <3>2, <3>3, <1>b, AtMostAtMost DEF Carries
      <4> QED BY <4>2, <4>3
    <3> QED BY <2>1, <2>2, <3>1, <3>3 DEF OnItsWay, Carries
  <2> QED BY <2>3, <2>4
<1>7. ASSUME NEW j \in Refreshes, FailRefresh(j) PROVE OnItsWay(o)'
  <2>1. ~skipped /\ job[j].step = "read" /\ row' = row /\ daily' = daily
        /\ job' = [job EXCEPT ![j] = Idle]
    BY <1>7, <1>b DEF FailRefresh
  <2>2. ~Carries(j, o) /\ \A k \in Refreshes \ {j} : job'[k] = job[k]
    BY <2>1, <1>a DEF Carries, TypeOK
  <2> QED BY <1>c, <2>1, <2>2, StaysOnItsWay
<1>8. CASE UNCHANGED vars
  BY <1>8, <1>c DEF vars, OnItsWay, Carries
<1> QED
  BY <1>1, <1>2, <1>3, <1>4, <1>5, <1>6, <1>7, <1>8 DEF Next, RefreshStep

(* When all refreshes are over, none of them cut off, no stored rate is    *)
(* above the peak of its day.                                              *)
THEOREM PeaksCover == Spec => []PeaksCoverRates
<1>1. PInv => PeaksCoverRates
  BY DEF PInv, PeaksOnTheirWay, OnItsWay, Carries, PeaksCoverRates, Stored
<1> QED BY <1>1, PeaksInit, PeaksStep, PTL DEF Spec
=============================================================================
