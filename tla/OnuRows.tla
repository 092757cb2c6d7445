------------------------------ MODULE OnuRows ------------------------------
(***************************************************************************)
(* The rows olt_onus of one OLT: which ONUs there are, the status of each  *)
(* and whether an optical power is stored for it.  They are written by     *)
(*   a full sync (syncONUS): it walks the OLT's SNMP tables, replaces all  *)
(*     rows in one transaction and then makes an optical pass;             *)
(*   an optical pass (SyncOpticalFromCLI): over a list of rows read at its *)
(*     start it probes ONU by ONU and stores the power;                    *)
(*   a live sync (SyncONULiveByRef), one request for one ONU over SNMP;    *)
(*   a CLI refresh (scheduleCLIRefresh), when SNMP did not answer one.     *)
(* One full sync runs at a time, one optical pass for each key of          *)
(* opticalInFlight (an OLT has two), one refresh; the jobs cross each      *)
(* other.                                                                  *)
(***************************************************************************)
EXTENDS Naturals

CONSTANTS
  Onus,       \* the ONUs the OLT may have
  Located,    \* those whose index gives a PON port and a number (splitIndex)
  Own,        \* the keys of opticalInFlight under which a pass of the OLT may run
  Writers,    \* live syncs and CLI refreshes at work at a time
  MaxFaults,  \* bounds how often an ONU or its link changes on the OLT
  MaxLosses   \* bounds the full syncs whose SNMP tables are incomplete

(* The pass a full sync ends with, that of syncOpticalONUS under the key   *)
(* of the OLT, and that of internalSyncOptical under a key of its own.     *)
Passes  == {"tail"} \cup Own

ASSUME RowsConstants ==
  /\ "tail" \notin Own
  /\ Located \subseteq Onus
  /\ MaxFaults \in Nat /\ MaxLosses \in Nat

VARIABLES
  link,     \* the ONUs on the OLT: "up", "down", or "gone" when deregistered
  faults,   \* how often a link has changed
  losses,   \* how many readings of a full sync were incomplete
  row,      \* olt_onus
  sync,     \* the full sync: syncInFlight and what it has read
  missed,   \* ONUs that have been gone at some time since it began (history)
  pass,     \* the optical passes that may run
  write     \* what each live sync or refresh is about to store

vars == <<link, faults, losses, row, sync, missed, pass, write>>

(* A status that allows optical power (statusAllowsOptical), one that does *)
(* not, and "unknown".                                                     *)
Statuses == {"online", "offline", "unknown"}
Row      == [status : Statuses, power : BOOLEAN]
NoRow    == [status |-> "absent", power |-> FALSE]
Truth(o) == IF link[o] = "up" THEN "online" ELSE "offline"

Registered == {o \in Onus : link[o] # "gone"}
Stored     == {o \in Onus : row[o] # NoRow}

SyncSteps == {"idle", "enumerate", "statuses", "powers", "old", "upsert", "tail"}
NoPass    == [step |-> "idle"]
NoWrite   == [status |-> "none"]
Found     == {o \in Onus : sync.got[o] # NoRow}

TypeOK ==
  /\ link \in [Onus -> {"up", "down", "gone"}]
  /\ faults \in 0 .. MaxFaults /\ losses \in 0 .. MaxLosses
  /\ row \in [Onus -> Row \cup {NoRow}]
  /\ sync \in [step : SyncSteps, by : {"name", "serial"},
               got : [Onus -> Row \cup {NoRow}], old : SUBSET Onus]
  /\ missed \in SUBSET Onus
  /\ pass \in [Passes ->
       {NoPass}
       \cup [step : {"probe"}, lit : SUBSET Onus,
             todo : [Onus -> Statuses \cup {"absent"}]]
       \cup [step : {"select", "update"}, onu : Onus, power : BOOLEAN,
             lit : SUBSET Onus, todo : [Onus -> Statuses \cup {"absent"}]]]
  /\ write \in [Writers ->
       {NoWrite} \cup [onu : Onus, status : Statuses, power : BOOLEAN]]

NoSync == [step |-> "idle", by |-> "name", got |-> [o \in Onus |-> NoRow],
           old |-> {}]

Init ==
  /\ link \in [Onus -> {"up", "down", "gone"}]
  /\ faults = 0 /\ losses = 0
  /\ row = [o \in Onus |-> NoRow]
  /\ sync = NoSync
  /\ missed = {}
  /\ pass = [p \in Passes |-> NoPass]
  /\ write = [w \in Writers |-> NoWrite]

-----------------------------------------------------------------------------
Enumerating == sync.step \notin {"idle", "tail"}

(* Of the ONUs it has still to do, a pass knows which it may have seen up. *)
Lit(r, o) ==
  IF r # NoPass /\ link'[o] = "up" /\ r.todo[o] # "absent"
    THEN [r EXCEPT !.lit = @ \cup {o}] ELSE r

(* The OLT: links come and go, ONUs are registered and deregistered.       *)
LinkChanges(o) ==
  /\ faults < MaxFaults
  /\ faults' = faults + 1
  /\ \E l \in {"up", "down", "gone"} \ {link[o]} : link' = [link EXCEPT ![o] = l]
  /\ missed' = IF Enumerating /\ link'[o] = "gone" THEN missed \cup {o} ELSE missed
  /\ pass' = [p \in Passes |-> Lit(pass[p], o)]
  /\ UNCHANGED <<losses, row, sync, write>>

-----------------------------------------------------------------------------
(* syncONUS: no second one while syncInFlight holds the OLT's key.         *)
StartSync ==
  /\ sync.step = "idle"
  /\ sync' = [sync EXCEPT !.step = "enumerate"]
  /\ missed' = Onus \ Registered
  /\ UNCHANGED <<link, faults, losses, row, pass, write>>

(* The job returns and defer syncInFlight.Delete(key): no connection, no   *)
(* profile answers, no ONU at all, or the transaction is rolled back.      *)
SyncFails ==
  /\ sync.step \in {"enumerate", "upsert"}
  /\ sync' = NoSync /\ missed' = {}
  /\ UNCHANGED <<link, faults, losses, row, pass, write>>

Enumerated(onus, by) ==
  sync' = [sync EXCEPT !.step = "statuses", !.by = by,
             !.got = [o \in Onus |->
                       IF o \in onus THEN [status |-> "unknown", power |-> FALSE]
                                     ELSE NoRow]]

\* Bug: what a name table gave before its walk failed is taken for the list.
AnyNames(onus) == onus # {}

(* walkONUs lists the ONUs by the name table, which is read to its end (in *)
(* three attempts) or makes the walk fail.                                 *)
WholeNameTable(onus) == onus = Registered

EnumerateByName ==
  /\ sync.step = "enumerate"
  /\ \E onus \in (SUBSET Registered) \ {{}} :
       WholeNameTable(onus) /\ Enumerated(onus, "name")
  /\ UNCHANGED <<link, faults, losses, row, missed, pass, write>>

(* walkOne: a walk that fails half-way gives what it has read so far, next *)
(* to its error.                                                           *)
Walked(table) == SUBSET table

(* On firmware whose name table is empty it lists them by the serial       *)
(* tables, whose errors are not looked at once a serial was read.          *)
EnumerateBySerial ==
  /\ sync.step = "enumerate"
  /\ \E onus \in Walked(Registered) \ {{}} :
       /\ losses' = losses + (IF onus = Registered THEN 0 ELSE 1)
       /\ losses' <= MaxLosses
       /\ Enumerated(onus, "serial")
  /\ UNCHANGED <<link, faults, row, missed, pass, write>>

(* Then it walks the status table and after it the power tables; their     *)
(* errors are not looked at.  An ONU outside of what was read of them gets *)
(* "unknown" and no power.                                                 *)
ReadStatuses ==
  /\ sync.step = "statuses"
  /\ \E read \in Walked(Found \cap Registered) :
       /\ losses' = losses + (IF read = Found \cap Registered THEN 0 ELSE 1)
       /\ losses' <= MaxLosses
       /\ sync' = [sync EXCEPT !.step = "powers",
                     !.got = [o \in Onus |-> IF o \in read
                                THEN [@[o] EXCEPT !.status = Truth(o)] ELSE @[o]]]
  /\ UNCHANGED <<link, faults, row, missed, pass, write>>

ReadPowers ==
  /\ sync.step = "powers"
  /\ \E read \in Walked({o \in Found : link[o] = "up"}) :
       sync' = [sync EXCEPT !.step = "old",
                  !.got = [o \in Onus |-> IF o \in read
                             THEN [@[o] EXCEPT !.power = TRUE] ELSE @[o]]]
  /\ UNCHANGED <<link, faults, losses, row, missed, pass, write>>

(* UpsertONUs first reads the powers of the present rows, outside the      *)
(* transaction; that query may fail without a trace.                       *)
ReadOldPowers ==
  /\ sync.step = "old"
  /\ \E old \in {{}, {o \in Onus : row[o].power}} :
       sync' = [sync EXCEPT !.step = "upsert", !.old = old]
  /\ UNCHANGED <<link, faults, losses, row, missed, pass, write>>

(* The transaction of UpsertONUs: DELETE every row, INSERT each reading,   *)
(* with the old power wherever none was read.  Others see it whole; an     *)
(* UPDATE that waits for it finds its row deleted and changes nothing, as  *)
(* if it had run just before the commit.                                   *)
ReplaceRows ==
  row' = [o \in Onus |->
           IF o \in Found
             THEN [sync.got[o] EXCEPT !.power = @ \/ o \in sync.old]
             ELSE NoRow]

CommitRows ==
  /\ sync.step = "upsert"
  /\ ReplaceRows
  /\ sync' = [NoSync EXCEPT !.step = "tail"] /\ missed' = {}
  /\ UNCHANGED <<link, faults, losses, pass, write>>

-----------------------------------------------------------------------------
Listed   == [o \in Onus |-> IF o \in Located THEN row[o].status ELSE "absent"]
Left(p)  == {o \in Onus : pass[p].todo[o] # "absent"}

(* SyncOpticalFromCLI reads the rows once; the tail of a full sync and the *)
(* passes of their own (opticalInFlight) differ in their keys only.        *)
StartPass(p) ==
  /\ pass[p] = NoPass
  /\ p = "tail" => sync.step = "tail"
  /\ pass' = [pass EXCEPT ![p] = 
       [step |-> "probe", lit |-> {o \in Located : link[o] = "up"}, todo |-> Listed]]
  /\ UNCHANGED <<link, faults, losses, row, sync, missed, write>>

(* The job ends with its pass, or because the rows could not be listed.    *)
EndPass(p) ==
  /\ \/ pass[p].step = "probe" /\ Left(p) = {}
     \/ pass[p] = NoPass /\ p = "tail" /\ sync.step = "tail"
  /\ pass' = [pass EXCEPT ![p] = NoPass]
  /\ sync' = IF p = "tail" THEN NoSync ELSE sync
  /\ UNCHANGED <<link, faults, losses, row, missed, write>>

(* No command gave a value for the ONU: its row is left as it is.          *)
SkipOnu(p, o) ==
  /\ pass[p].step = "probe" /\ o \in Left(p)
  /\ pass' = [pass EXCEPT ![p].todo[o] = "absent", ![p].lit = @ \ {o}]
  /\ UNCHANGED <<link, faults, losses, row, sync, missed, write>>

(* All powers are asked for in one batch for each port, before any row is  *)
(* updated, and again for the ONUs the batch has left out: a power may be  *)
(* from any time since the pass began at which the ONU was up, and there   *)
(* is none if the commands fail or are not understood.                     *)
ProbedPowers(p, o) == {FALSE} \cup (IF o \in pass[p].lit THEN {TRUE} ELSE {})

(* It counts if the status allows one: that of the CLI's detail, which is  *)
(* asked if a power is missing, or else that of the row as it was listed.  *)
PowerToStore(seen, power) == power /\ seen = "online"

ProbeOnu(p, o) ==
  /\ pass[p].step = "probe" /\ o \in Left(p)
  /\ \E power \in ProbedPowers(p, o),
        seen \in {pass[p].todo[o], "unknown", Truth(o)} :
       pass' = [pass EXCEPT ![p] =
         [step |-> "select", onu |-> o, power |-> PowerToStore(seen, power),
          lit |-> @.lit \ {o}, todo |-> [@.todo EXCEPT ![o] = "absent"]]]
  /\ UNCHANGED <<link, faults, losses, row, sync, missed, write>>

(* UpdateONUOptical: SELECT the status, and in a second statement UPDATE   *)
(* the power of the row, if there still is one.                            *)
SelectStatus(p) ==
  /\ pass[p].step = "select"
  /\ pass' = [pass EXCEPT ![p].step = "update",
                          ![p].power = PowerToStore(row[pass[p].onu].status, @)]
  /\ UNCHANGED <<link, faults, losses, row, sync, missed, write>>

\* Bug: the power is inserted where the row is gone.
InsertPower(p) ==
  /\ pass[p].step = "update"
  /\ row' = [row EXCEPT ![pass[p].onu].power = pass[p].power]
  /\ pass' = [pass EXCEPT ![p] = [step |-> "probe", lit |-> @.lit, todo |-> @.todo]]
  /\ UNCHANGED <<link, faults, losses, sync, missed, write>>

UpdatePower(p) ==
  /\ pass[p].step = "update"
  /\ LET o == pass[p].onu
     IN  row' = IF o \in Stored THEN [row EXCEPT ![o].power = pass[p].power] ELSE row
  /\ pass' = [pass EXCEPT ![p] = [step |-> "probe", lit |-> @.lit, todo |-> @.todo]]
  /\ UNCHANGED <<link, faults, losses, sync, missed, write>>

-----------------------------------------------------------------------------
(* SyncONULiveByRef has the answer of the OLT over SNMP for an ONU it can  *)
(* locate: a status, or none of its own.  When SNMP gives none the request *)
(* is answered from the rows, and scheduleCLIRefresh asks over the CLI, at *)
(* any later time, if detailFetchInFlight does not hold the OLT's key.     *)
LiveStatuses(o) == {Truth(o), "unknown"}

ReadLive(w, o) ==
  /\ write[w] = NoWrite /\ o \in Located
  /\ \E status \in LiveStatuses(o), power \in {FALSE, link[o] = "up"} :
       write' = [write EXCEPT ![w] = [onu |-> o, status |-> status, power |-> power]]
  /\ UNCHANGED <<link, faults, losses, row, sync, missed, pass>>

\* Bug: an answer without a status is stored as the status "unknown".
StoreUnknown(old, new) ==
  [status |-> new.status,
   power  |-> new.status = "online" /\ (new.power \/ old.power)]

\* Bug: the power of an ONU that went offline is kept.
KeepPower(old, new) ==
  [status |-> IF new.status = "unknown" THEN old.status ELSE new.status,
   power  |-> old.power \/ (new.power /\ new.status = "online")]

(* UpdateONULiveByRef, one UPDATE: an unknown status changes nothing, an   *)
(* offline one clears the power, an online one stores a power if there is. *)
Merge(old, new) ==
  CASE new.status = "unknown" -> old
    [] new.status = "offline" -> [status |-> "offline", power |-> FALSE]
    [] new.status = "online"  -> [status |-> "online", power |-> new.power \/ old.power]

StoreLive(w) ==
  /\ write[w] # NoWrite
  /\ LET o == write[w].onu
     IN  row' = IF o \in Stored THEN [row EXCEPT ![o] = Merge(@, write[w])] ELSE row
  /\ write' = [write EXCEPT ![w] = NoWrite]
  /\ UNCHANGED <<link, faults, losses, sync, missed, pass>>

-----------------------------------------------------------------------------
SyncStep ==
  \/ EnumerateByName \/ EnumerateBySerial \/ ReadStatuses \/ ReadPowers
  \/ ReadOldPowers \/ CommitRows \/ SyncFails

PassStep(p) ==
  \/ EndPass(p) \/ SelectStatus(p) \/ UpdatePower(p)
  \/ \E o \in Onus : SkipOnu(p, o) \/ ProbeOnu(p, o)

Next ==
  \/ \E o \in Onus : LinkChanges(o)
  \/ StartSync \/ SyncStep
  \/ \E p \in Passes : StartPass(p) \/ PassStep(p)
  \/ \E w \in Writers : StoreLive(w) \/ \E o \in Onus : ReadLive(w, o)

Spec == Init /\ [][Next]_vars

-----------------------------------------------------------------------------
(* An ONU loses its row only if it was off the OLT at some time since the  *)
(* sync that removes it began, or if the ONUs had to be listed by their    *)
(* serials; and no sync leaves the table empty.                            *)
RowsGoOnlyWhenGone ==
  [][ /\ \A o \in Stored \ Stored' : o \in missed \/ sync.by = "serial"
      /\ Stored # {} => Stored' # {} ]_vars

(* A power at an ONU that is not online, a ghost, appears in two ways      *)
(* only: a full sync stores the power of before or one read at another     *)
(* time than the status, or an optical pass stores one after the status it *)
(* looked up has changed.  Live syncs and refreshes make none.             *)
Ghosts == {o \in Stored : row[o].power /\ row[o].status # "online"}

GhostsHaveTwoSources ==
  [][ \A o \in Ghosts' \ Ghosts :
        \/ sync.step = "upsert" /\ o \in Found
        \/ \E p \in Passes : pass[p].step = "update" /\ pass[p].onu = o ]_vars

(* Once the links are still and the tables are read whole, and as long as  *)
(* full syncs go through every now and then, the statuses become those of  *)
(* the OLT and stay so, whatever stale readings are still on their way.    *)
(* That somebody starts the syncs, and that no pass at the end of one      *)
(* hangs in the CLI, is the premise; no job is assumed to be fair.         *)
StatusesAreTrue ==
  \A o \in Onus : row[o].status = IF o \in Registered THEN Truth(o) ELSE "absent"

StatusesConverge == []<><<CommitRows>>_vars => <>[]StatusesAreTrue
=============================================================================
