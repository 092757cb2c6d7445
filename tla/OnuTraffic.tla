----------------------------- MODULE OnuTraffic -----------------------------
(***************************************************************************)
(* The traffic of the ONUs of a PON port.  A refresh (RefreshTraffic) reads*)
(* the octet counters ONU by ONU, from the first table that gives usable   *)
(* ones, turns each into a rate with the reading its row holds, stores     *)
(* both, and takes the rates over into the peaks of the day.  A refresh is *)
(* started by the user, at the end of a full sync, within it, and by two   *)
(* optical passes; the keys that keep each of these from running twice     *)
(* differ, so refreshes cross each other, and a full sync replaces the     *)
(* rows under them.  One direction of the traffic is modelled: both are    *)
(* stored and computed side by side, and what the other one decides is     *)
(* left open.  The clock counts the updates; the peaks are those of a day. *)
(***************************************************************************)
EXTENDS Naturals, FiniteSets

CONSTANTS
  Onus,        \* the ONUs
  Port,        \* their PON port, whose counter counts for all of them
  Numbered,    \* the ONUs whose index begins with the number of the port
  Refreshes,   \* the refreshes that may run at a time, one for each key
  Tables,      \* the tables read in turn: "private", "interface", "cli"
  Wide,        \* a 64-bit counter wraps at Wide,
  Narrow,      \*   a 32-bit one at Narrow
  MaxColumn,   \* the largest value of the columns in_octets and out_octets
  FirstOctets, \* what the counters may show at first
  MaxOctets,   \* bounds the octets carried after that,
  MaxUpdates,  \*   the updates,
  MaxEvents    \*   the full syncs and the times a counter starts from 0

ASSUME TrafficConstants ==
  /\ Port \notin Onus /\ Numbered \subseteq Onus
  /\ Tables \subseteq {"private", "interface", "cli"}
  /\ Wide \in Nat \ {0} /\ Narrow \in Nat \ {0} /\ MaxColumn \in Nat
  /\ Narrow <= Wide /\ MaxColumn < Wide
  /\ FirstOctets \subseteq Nat
  /\ MaxOctets \in Nat /\ MaxUpdates \in Nat /\ MaxEvents \in Nat

VARIABLES
  carried,  \* octets ever carried for an ONU or the port, which nobody sees
  base,     \* how many of them had been when its counters last were 0
  left,     \* what is left of the bounds on octets and events
  clock,    \* the updates begun; the time of the latest
  row,      \* olt_onus: the reading of each ONU, its time and its rate
  daily,    \* olt_onu_daily: the peak rate of each ONU today
  job,      \* the refreshes
  skipped   \* a refresh ended between an UPDATE and its daily peak (history)

vars == <<carried, base, left, clock, row, daily, job, skipped>>

Counters == Onus \cup {Port}

(* A reading: its count, the counter it was read from ("none": the number  *)
(* is no counter), its width, and what that counter had really counted.    *)
Sources  == {"private", "port", "label", "cli", "none"}
Readings == [count : Nat, of : Sources, width : {Wide, Narrow}, total : Nat, base : Nat]
NoReading == [count |-> 0, of |-> "none", width |-> 0, total |-> 0, base |-> 0]

(* A rate: octets in so many ticks of the clock; none is 0 in 1.           *)
Rates  == [octets : Nat, secs : Nat \ {0}]
NoRate == [octets |-> 0, secs |-> 1]
Greater(a, b) == a.octets * b.secs > b.octets * a.secs

NoRow    == [reading |-> NoReading, at |-> 0, rate |-> NoRate, stored |-> FALSE]
FreshRow == [NoRow EXCEPT !.stored = TRUE]
Stored   == {o \in Onus : row[o].stored}

NoSamples == [o \in Onus |-> NoReading]
Idle == [step |-> "idle", table |-> "private", listed |-> {}, todo |-> {},
         samples |-> NoSamples, now |-> 0, prev |-> NoRow, onu |-> {},
         rates |-> [o \in Onus |-> NoRate]]

RowType == [reading : Readings \cup {NoReading}, at : 0 .. MaxUpdates,
            rate : Rates, stored : BOOLEAN]
JobType == [step : {"idle", "read", "update", "write", "daily"},
            table : {"private", "interface", "cli"},
            listed : SUBSET Onus, todo : SUBSET Onus,
            samples : [Onus -> Readings \cup {NoReading}], now : 0 .. MaxUpdates,
            prev : RowType, onu : SUBSET Onus, rates : [Onus -> Rates]]

TypeOK ==
  /\ carried \in [Counters -> Nat] /\ base \in [Counters -> Nat]
  /\ left \in [octets : 0 .. MaxOctets, events : 0 .. MaxEvents]
  /\ clock \in 0 .. MaxUpdates
  /\ row \in [Onus -> RowType]
  /\ daily \in [Onus -> Rates]
  /\ job \in [Refreshes -> JobType]
  /\ skipped \in BOOLEAN

Init ==
  /\ carried \in [Counters -> FirstOctets]
  /\ base = [c \in Counters |-> 0]
  /\ left = [octets |-> MaxOctets, events |-> MaxEvents]
  /\ clock = 0
  /\ row = [o \in Onus |-> FreshRow]
  /\ daily = [o \in Onus |-> NoRate]
  /\ job = [j \in Refreshes |-> Idle]
  /\ skipped = FALSE

-----------------------------------------------------------------------------
(* The OLT: octets are carried, for an ONU or for others on the port; a    *)
(* counter starts again from 0 when the OLT restarts or another ONU takes  *)
(* the place.                                                              *)
Carry(c) ==
  /\ \E n \in 1 .. left.octets :
       /\ carried' = [d \in Counters |-> carried[d] + IF d \in {c, Port} THEN n ELSE 0]
       /\ left' = [left EXCEPT !.octets = @ - n]
  /\ UNCHANGED <<base, clock, row, daily, job, skipped>>

ResetCounter(c) ==
  /\ left.events > 0
  /\ base' = [base EXCEPT ![c] = carried[c]]
  /\ left' = [left EXCEPT !.events = @ - 1]
  /\ UNCHANGED <<carried, clock, row, daily, job, skipped>>

(* UpsertONUs of a full sync: the rows are deleted and inserted without a  *)
(* reading; which ONUs have one may change.                                *)
ReplaceRows ==
  /\ left.events > 0
  /\ \E found \in (SUBSET Onus) \ {{}} :
       row' = [o \in Onus |-> IF o \in found THEN FreshRow ELSE NoRow]
  /\ left' = [left EXCEPT !.events = @ - 1]
  /\ UNCHANGED <<carried, base, clock, daily, job, skipped>>

-----------------------------------------------------------------------------
(* RefreshTraffic: LoadTrafficCounters lists the rows; without any it ends.*)
Begin(j) ==
  /\ job[j].step = "idle" /\ clock < MaxUpdates /\ Stored # {}
  /\ job' = [job EXCEPT ![j] = [Idle EXCEPT !.step = "read", !.listed = Stored,
                                            !.todo = Stored]]
  /\ UNCHANGED <<carried, base, left, clock, row, daily, skipped>>

Reading(c, of, width) ==
  [count |-> (carried[c] - base[c]) % width, of |-> of, width |-> width,
   total |-> carried[c], base |-> base[c]]

Number(n) == [count |-> n, of |-> "none", width |-> Wide, total |-> 0, base |-> 0]

(* The walk of the private table takes counters of either width; a         *)
(* direction that is missing is a 0, as long as the other one counts.      *)
PrivateSamples(o) ==
  {Reading(o, "private", w) : w \in {Wide, Narrow}} \cup {Number(0)}

(* The Get of the 64-bit and else of the 32-bit counters of an interface:  *)
(* the one with the number the ONU's index begins with, which is its PON   *)
(* port, or for an index that is a name, the one that bears it.            *)
LabelSamples(o)     == {Reading(o, "label", w) : w \in {Wide, Narrow}}
InterfaceSamples(o) ==
  IF o \in Numbered THEN {Reading(Port, "port", w) : w \in {Wide, Narrow}}
                    ELSE LabelSamples(o)

(* The interface that bears the ONU's name, and else the CLI: the byte     *)
(* counters of show interface, a 0 for a direction without one, or the     *)
(* numbers that the patterns find in what other commands print.            *)
CliSamples(o) ==
  LabelSamples(o) \cup {Reading(o, "cli", Wide)} \cup {Number(n) : n \in 0 .. Wide - 1}

SamplesOf(table, o) ==
  CASE table = "private"   -> PrivateSamples(o)
    [] table = "interface" -> InterfaceSamples(o)
    [] table = "cli"       -> CliSamples(o)

(* Of each ONU a table gives a sample or none.                             *)
Sample(j, o) ==
  /\ job[j].step = "read" /\ o \in job[j].todo
  /\ \E r \in {NoReading} \cup SamplesOf(job[j].table, o) :
       job' = [job EXCEPT ![j].todo = @ \ {o}, ![j].samples[o] = r]
  /\ UNCHANGED <<carried, base, left, clock, row, daily, skipped>>

Sampled(j) == {o \in Onus : job[j].samples[o] # NoReading}

(* looksLikePerPONAggregate: ONUs of a port with the same counts, unless   *)
(* those of the other direction differ.                                    *)
LooksLikeAggregate(j) ==
  /\ job[j].table # "cli"
  /\ Cardinality(Sampled(j)) > 1
  /\ \A o, q \in Sampled(j) : job[j].samples[o].count = job[j].samples[q].count

NextTable(table) == IF table = "private" THEN "interface" ELSE "cli"

TryNextTable(j) ==
  /\ job[j].step = "read" /\ job[j].todo = {}
  /\ Sampled(j) = {} \/ LooksLikeAggregate(j)
  /\ LET table == NextTable(job[j].table)
     IN  job' = [job EXCEPT ![j] =
                  IF job[j].table = "cli" \/ table \notin Tables THEN Idle
                  ELSE [@ EXCEPT !.table = table, !.todo = job[j].listed,
                                 !.samples = NoSamples]]
  /\ UNCHANGED <<carried, base, left, clock, row, daily, skipped>>

(* UpdateTraffic takes the time once, before it goes through the samples.  *)
StartUpdate(j) ==
  /\ job[j].step = "read" /\ job[j].todo = {} /\ Sampled(j) # {}
  /\ clock < MaxUpdates
  /\ clock' = clock + 1
  /\ job' = [job EXCEPT ![j].step = "update", ![j].table = "private",
                        ![j].listed = {}, ![j].todo = Sampled(j), ![j].now = clock']
  /\ UNCHANGED <<carried, base, left, row, daily, skipped>>

(* For each sample, SELECT the reading of the row; no row or a NULL counts *)
(* as never.                                                               *)
SelectPrevious(j, o) ==
  /\ job[j].step = "update" /\ o \in job[j].todo
  /\ job' = [job EXCEPT ![j].step = "write", ![j].onu = {o}, ![j].prev = row[o],
                        ![j].todo = @ \ {o}]
  /\ UNCHANGED <<carried, base, left, clock, row, daily, skipped>>

\* Bug: the wrap of the counter is one octet short.
ShortWrap(prev, current) ==
  IF current >= prev THEN current - prev ELSE (Wide - 1 - prev) + current

(* deltaBps, in unsigned 64-bit arithmetic whatever the counter's width.   *)
Delta(prev, current) ==
  IF current >= prev THEN current - prev ELSE (Wide - 1 - prev) + current + 1

\* Bug: readings of the same moment, or in the wrong order, give a rate.
RateAtOnce(prev, sample, now) ==
  IF prev.at > 0
    THEN [octets |-> Delta(prev.reading.count, sample.count), secs |-> now - prev.at]
    ELSE NoRate

RateSince(prev, sample, now) ==
  IF prev.at > 0 /\ now > prev.at
    THEN [octets |-> Delta(prev.reading.count, sample.count), secs |-> now - prev.at]
    ELSE NoRate

(* The UPDATE; a counter that does not fit the column ends the refresh.    *)
StoreSample(j) ==
  /\ job[j].step = "write"
  /\ \E o \in job[j].onu :
       LET sample == job[j].samples[o]
           fits   == sample.count <= MaxColumn
       IN  /\ row' = IF fits /\ o \in Stored
                       THEN [row EXCEPT ![o].reading = sample, ![o].at = job[j].now,
                               ![o].rate = RateSince(job[j].prev, sample, job[j].now)]
                       ELSE row
           /\ job' = [job EXCEPT ![j] =
                        IF fits THEN [@ EXCEPT !.step = "update", !.onu = {}, !.prev = NoRow,
                                               !.samples[o] = NoReading]
                                ELSE Idle]
           /\ skipped' = (skipped \/ ~fits)
  /\ UNCHANGED <<carried, base, left, clock, daily>>

(* saveTrafficHistory lists all rows, and of those with a rate             *)
ListRates(j) ==
  /\ job[j].step = "update" /\ job[j].todo = {}
  /\ job' = [job EXCEPT ![j] =
       [Idle EXCEPT !.step = "daily", !.rates = [o \in Onus |-> row[o].rate],
                    !.todo = {o \in Stored : row[o].rate.octets > 0}]]
  /\ UNCHANGED <<carried, base, left, clock, row, daily, skipped>>

\* Bug: the last rate of the day is kept in the place of the greatest.
LastRate(old, new) == new

(* ... UpsertDaily keeps the greatest of the day.                          *)
Peak(old, new) == IF Greater(new, old) THEN new ELSE old

UpsertDaily(j, o) ==
  /\ job[j].step = "daily" /\ o \in job[j].todo
  /\ daily' = [daily EXCEPT ![o] = Peak(@, job[j].rates[o])]
  /\ job' = [job EXCEPT ![j].todo = @ \ {o}, ![j].rates[o] = NoRate]
  /\ UNCHANGED <<carried, base, left, clock, row, skipped>>

EndRefresh(j) ==
  /\ job[j].step = "daily" /\ job[j].todo = {}
  /\ job' = [job EXCEPT ![j] = Idle]
  /\ UNCHANGED <<carried, base, left, clock, row, daily, skipped>>

(* The context ends, or a query fails; what is stored stays.               *)
FailRefresh(j) ==
  /\ job[j].step # "idle"
  /\ job' = [job EXCEPT ![j] = Idle]
  /\ skipped' = (skipped \/ job[j].step # "read")
  /\ UNCHANGED <<carried, base, left, clock, row, daily>>

-----------------------------------------------------------------------------
RefreshStep(j) ==
  \/ TryNextTable(j) \/ StartUpdate(j) \/ StoreSample(j) \/ ListRates(j)
  \/ EndRefresh(j) \/ FailRefresh(j)
  \/ \E o \in Onus : Sample(j, o) \/ SelectPrevious(j, o) \/ UpsertDaily(j, o)

Next ==
  \/ \E c \in Counters : Carry(c) \/ ResetCounter(c)
  \/ ReplaceRows
  \/ \E j \in Refreshes : Begin(j) \/ RefreshStep(j)

Spec == Init /\ [][Next]_vars

-----------------------------------------------------------------------------
Stores(j, o) == job[j].step = "write" /\ job[j].onu = {o} /\ row' # row /\ job'[j] # job[j]

(* A rate that is stored is what was carried between the two readings it   *)
(* is made of, even across a wrap (deltaBps), as long as they are readings *)
(* of one 64-bit counter, which did not start again between them and was   *)
(* not read in the other order.  What was carried is the ONU's own if that *)
(* counter is, and the whole port's if it was read from the interface      *)
(* table by the number of the port.  Readings of two counters, and a       *)
(* direction that was missing and stored as 0, give rates of nothing.      *)
Sound(from, to) ==
  /\ from.of = to.of /\ to.of # "none"
  /\ from.base = to.base /\ from.total <= to.total /\ to.total - from.total < Wide
  /\ from.width = Wide /\ to.width = Wide

RatesAreTrue ==
  [][ \A j \in Refreshes, o \in Onus :
        LET from == job[j].prev.reading  to == job[j].samples[o]
        IN  Stores(j, o) /\ row'[o].rate # NoRate /\ Sound(from, to)
              => row'[o].rate.octets = to.total - from.total ]_vars

(* Whenever all refreshes are over, the peak of the day is at least every  *)
(* rate shown, however they were interleaved (saveTrafficHistory lists the *)
(* rows and stores the peaks in later statements), as long as none ended   *)
(* between the two.                                                        *)
PeaksCoverRates ==
  (\A j \in Refreshes : job[j].step = "idle") /\ ~skipped
    => \A o \in Stored : ~Greater(row[o].rate, daily[o])
=============================================================================
