----------------------------- MODULE Migrations -----------------------------
(***************************************************************************)
(* cmd/migrate: every deployment runs it once before the API may start.    *)
(* It takes an advisory lock, compares what the database has with the      *)
(* files of its release, applies the files that are missing, each in a     *)
(* transaction with its record, and sets what the runtime role may do.     *)
(* Two deployments may run it at once, each from its own release; it may   *)
(* die at any step, and the server ends a dead client's session later.     *)
(***************************************************************************)
EXTENDS Naturals, Sequences

CONSTANTS
  Runners,    \* processes of cmd/migrate
  Versions,   \* names of migration files, as numbers in the order of the names
  Contents,   \* what a file may contain; two are equal iff their SHA-256 are
  Releases,   \* the releases deployed: the content of each file of a release
  Tables,     \* tables of the database
  ClassOf,    \* how grantRuntimePrivileges treats a table
  CreatedBy,  \* the version whose file creates a table, Absent if cmd/migrate itself does
  Absent, Null, Unknown, Nobody,
  MaxStarts   \* bound: how often cmd/migrate is run

Classes == {"rows", "device", "ledger", "attempts", "registry", "unlisted"}
Rights  == {"select", "insert", "update", "delete"}

ASSUME MigrationConstants ==
  /\ Versions \subseteq Nat \ {0}
  /\ \A rel \in Releases :
       /\ DOMAIN rel \subseteq Versions
       /\ \A v \in DOMAIN rel : rel[v] \in Contents
  /\ ClassOf \in [Tables -> Classes]
  /\ CreatedBy \in [Tables -> Versions \cup {Absent}]
  /\ Contents \cap {Absent, Null, Unknown} = {}
  /\ Absent # Null /\ Absent \notin Versions
  /\ Nobody \notin Runners
  /\ MaxStarts \in Nat

VARIABLES
  ran,       \* the SQL of each version that took effect, in order
  records,   \* schema_migrations: the checksum of each version
  priv,      \* what the runtime role may do with each table
  defaults,  \* are the default privileges for new tables set?
  primed,    \* history: the tables created with default privileges
  lock,      \* whose session holds the advisory lock
  at,        \* where each runner is
  release,   \* the release it was started from
  left,      \* the files applyMigration has not been called for
  legacy,    \* the versions verifyAppliedMigrations has to give a checksum
  next,      \* the next statement of grantRuntimePrivileges
  starts

vars == <<ran, records, priv, defaults, primed, lock, at, release, left, legacy, next, starts>>
acl  == <<priv, defaults, primed>>
run  == <<release, left, legacy, next, starts>>

Ended  == {"idle", "failed", "done"}
Phases == Ended \cup {"waiting", "granted", "verified", "executed", "granting"}

(* Records and privileges are per version and per table; a runner belongs  *)
(* to one phase of main.                                                   *)
TypeOK ==
  /\ ran \in [Versions -> Seq(Contents \cup {Unknown})]
  /\ records \in [Versions -> Contents \cup {Absent, Null}]
  /\ priv \in [Tables -> SUBSET Rights]
  /\ defaults \in BOOLEAN /\ primed \subseteq Tables
  /\ lock \in Runners \cup {Nobody}
  /\ at \in [Runners -> Phases]
  /\ release \in [Runners -> Releases \cup {<<>>}]
  /\ left \in [Runners -> SUBSET Versions]
  /\ legacy \in [Runners -> SUBSET Versions]
  /\ next \in [Runners -> Nat]
  /\ starts \in Nat

(* An older cmd/migrate, which kept no checksums, may have applied the     *)
(* first files; what they contained then is not known.                     *)
Init ==
  /\ \E n \in Versions \cup {0} :
       /\ ran = [v \in Versions |-> IF v <= n THEN <<Unknown>> ELSE <<>>]
       /\ records = [v \in Versions |-> IF v <= n THEN Null ELSE Absent]
  /\ priv = [t \in Tables |-> {}]
  /\ defaults = FALSE /\ primed = {}
  /\ lock = Nobody
  /\ at = [r \in Runners |-> "idle"]
  /\ release = [r \in Runners |-> <<>>]
  /\ left = [r \in Runners |-> {}]
  /\ legacy = [r \in Runners |-> {}]
  /\ next = [r \in Runners |-> 1]
  /\ starts = 0

-----------------------------------------------------------------------------
(* The lock                                                                *)

Move(r, from, to) == at[r] = from /\ at' = [at EXCEPT ![r] = to]

First(S) == CHOOSE v \in S : \A w \in S : v <= w

(* main up to pg_advisory_lock.                                            *)
Start(r, rel) ==
  /\ at[r] \in Ended /\ lock # r /\ starts < MaxStarts
  /\ at' = [at EXCEPT ![r] = "waiting"]
  /\ release' = [release EXCEPT ![r] = rel]
  /\ left' = [left EXCEPT ![r] = DOMAIN rel]
  /\ legacy' = [legacy EXCEPT ![r] = {}]
  /\ next' = [next EXCEPT ![r] = 1]
  /\ starts' = starts + 1
  /\ UNCHANGED <<ran, records, acl, lock>>

\* Bug: the lock is taken in shared mode.
LockShared(r) ==
  /\ Move(r, "waiting", "granted")
  /\ lock' = r
  /\ UNCHANGED <<ran, records, acl, run>>

(* The server gives the lock to one session.                               *)
LockGranted(r) ==
  /\ lock = Nobody
  /\ Move(r, "waiting", "granted")
  /\ lock' = r
  /\ UNCHANGED <<ran, records, acl, run>>

(* lockContext ends after two minutes: log.Fatal, whether or not the       *)
(* server has just granted the lock.                                       *)
LockTimeout(r) ==
  /\ at[r] \in {"waiting", "granted"}
  /\ at' = [at EXCEPT ![r] = "failed"]
  /\ UNCHANGED <<ran, records, acl, lock, run>>

(* A call to the database fails (log.Fatal), or the process dies: an open  *)
(* transaction is lost, the deferred pg_advisory_unlock is not called.     *)
Dies(r) ==
  /\ at[r] \notin Ended
  /\ at' = [at EXCEPT ![r] = "failed"]
  /\ UNCHANGED <<ran, records, acl, lock, run>>

(* The server ends the session of a process that is gone.                  *)
SessionEnds(r) ==
  /\ at[r] = "failed" /\ lock = r
  /\ lock' = Nobody
  /\ UNCHANGED <<ran, records, acl, at, run>>

-----------------------------------------------------------------------------
(* verifyAppliedMigrations                                                 *)

Fits(rel) ==
  \A v \in Versions : records[v] # Absent =>
    v \in DOMAIN rel /\ records[v] \in {Null, rel[v]}

(* Create schema_migrations where it is missing, compare its rows with the *)
(* files, and list those without a checksum.                               *)
Verify(r) ==
  /\ Move(r, "granted", "verified")
  /\ Fits(release[r])
  /\ legacy' = [legacy EXCEPT ![r] = {v \in Versions : records[v] = Null}]
  /\ UNCHANGED <<ran, records, acl, lock, release, left, next, starts>>

\* Bug: a database that does not fit is read again until it does.
RefuseNotYet(r) ==
  /\ at[r] = "granted"
  /\ ~Fits(release[r])
  /\ UNCHANGED vars

Refuse(r) ==
  /\ Move(r, "granted", "failed")
  /\ ~Fits(release[r])
  /\ UNCHANGED <<ran, records, acl, lock, run>>

(* One UPDATE for each of them; it must find a row without a checksum.     *)
Baseline(r) ==
  LET v == First(legacy[r]) IN
  /\ at[r] = "verified" /\ legacy[r] # {}
  /\ IF records[v] = Null
       THEN /\ records' = [records EXCEPT ![v] = release[r][v]]
            /\ legacy' = [legacy EXCEPT ![r] = @ \ {v}]
            /\ UNCHANGED at
       ELSE Move(r, "verified", "failed") /\ UNCHANGED <<records, legacy>>
  /\ UNCHANGED <<ran, acl, lock, release, left, next, starts>>

-----------------------------------------------------------------------------
(* applyMigration                                                          *)

Applying(r) == at[r] = "verified" /\ legacy[r] = {}

Skip(r) ==
  /\ Applying(r) /\ left[r] # {}
  /\ records[First(left[r])] # Absent
  /\ left' = [left EXCEPT ![r] = @ \ {First(left[r])}]
  /\ UNCHANGED <<ran, records, acl, lock, at, release, legacy, next, starts>>

(* The SQL of the file has run in a transaction that is still open.        *)
Execute(r) ==
  /\ Applying(r) /\ left[r] # {}
  /\ records[First(left[r])] = Absent
  /\ Move(r, "verified", "executed")
  /\ UNCHANGED <<ran, records, acl, lock, run>>

(* What the commit makes visible: the SQL, with the default privileges on  *)
(* the tables it creates, and the record.                                  *)
TakesEffect(r) ==
  LET v == First(left[r]) IN
  /\ ran' = [ran EXCEPT ![v] = Append(@, release[r][v])]
  /\ records' = [records EXCEPT ![v] = release[r][v]]
  /\ priv' = [t \in Tables |-> IF CreatedBy[t] = v /\ defaults THEN Rights ELSE priv[t]]
  /\ primed' = primed \cup {t \in Tables : CreatedBy[t] = v /\ defaults}

(* INSERT the record, a primary key, and COMMIT.                           *)
Commit(r) ==
  /\ at[r] = "executed"
  /\ IF records[First(left[r])] = Absent
       THEN /\ TakesEffect(r)
            /\ at' = [at EXCEPT ![r] = "verified"]
            /\ left' = [left EXCEPT ![r] = @ \ {First(left[r])}]
       ELSE /\ at' = [at EXCEPT ![r] = "failed"]
            /\ UNCHANGED <<ran, records, priv, primed, left>>
  /\ UNCHANGED <<defaults, lock, release, legacy, next, starts>>

\* Bug: without a transaction the process dies before the record.
DiesUnrecorded(r) ==
  /\ Move(r, "executed", "failed")
  /\ records[First(left[r])] = Absent
  /\ ran' = [ran EXCEPT ![First(left[r])] = Append(@, release[r][First(left[r])])]
  /\ UNCHANGED <<records, acl, lock, run>>

(* The commit happens, but the process never learns of it.                 *)
CommitUnseen(r) ==
  /\ Move(r, "executed", "failed")
  /\ records[First(left[r])] = Absent
  /\ TakesEffect(r)
  /\ UNCHANGED <<defaults, lock, run>>

(* ALTER COLUMN checksum SET NOT NULL fails on a row without one; then     *)
(* ensureRuntimeRole.                                                      *)
Require(r) ==
  /\ Applying(r) /\ left[r] = {}
  /\ at' = [at EXCEPT ![r] =
       IF \E v \in Versions : records[v] = Null THEN "failed" ELSE "granting"]
  /\ UNCHANGED <<ran, records, acl, lock, run>>

-----------------------------------------------------------------------------
(* grantRuntimePrivileges                                                  *)

Exists(t) == CreatedBy[t] = Absent \/ ran[CreatedBy[t]] # <<>>

\* Bug: the DELETE of every table is revoked after the lists.
RevokedLast == <<
  [on |-> Classes,    adds |-> {"select"},                     drops |-> {}],
  [on |-> {"rows"},   adds |-> {"insert", "update"},           drops |-> {}],
  [on |-> {"device"}, adds |-> {"insert", "update", "delete"}, drops |-> {}],
  [on |-> {"ledger", "attempts"}, adds |-> {"insert"},         drops |-> {}],
  [on |-> {"ledger"}, adds |-> {},                             drops |-> {"update"}],
  [on |-> Classes,    adds |-> {},                             drops |-> {"delete"}]
  >>

(* Its statements on tables, each committed on its own.  A class is a set  *)
(* of tables that the same lists name: "attempts" is login_attempts, whose *)
(* INSERT is granted but whose UPDATE is not revoked, "unlisted" is what   *)
(* no list names (roles, permissions, role_permissions).  The other        *)
(* statements are about the schema and sequences.                          *)
Statements == <<
  [on |-> Classes,      adds |-> {"select"},                     drops |-> {}],
  [on |-> Classes,      adds |-> {},                             drops |-> {"delete"}],
  [on |-> {"rows"},     adds |-> {"insert", "update"},           drops |-> {}],
  [on |-> {"device"},   adds |-> {"insert", "update", "delete"}, drops |-> {}],
  [on |-> {"ledger", "attempts"}, adds |-> {"insert"},           drops |-> {}],
  [on |-> {"ledger"},   adds |-> {},                             drops |-> {"update", "delete"}],
  [on |-> {"registry"}, adds |-> {},                             drops |-> {"insert", "update", "delete"}]
  >>

Changed(s) ==
  [t \in Tables |-> IF Exists(t) /\ ClassOf[t] \in s.on THEN (priv[t] \cup s.adds) \ s.drops ELSE priv[t]]

Grant(r) ==
  /\ at[r] = "granting" /\ next[r] <= Len(Statements)
  /\ priv' = Changed(Statements[next[r]])
  /\ next' = [next EXCEPT ![r] = @ + 1]
  /\ UNCHANGED <<ran, records, defaults, primed, lock, at, release, left, legacy, starts>>

(* ALTER DEFAULT PRIVILEGES, committed on its own as well; one statement   *)
(* on sequences follows.                                                   *)
SetDefaults(r) ==
  /\ at[r] = "granting" /\ next[r] = Len(Statements) + 1
  /\ defaults' = TRUE
  /\ next' = [next EXCEPT ![r] = @ + 1]
  /\ UNCHANGED <<ran, records, priv, primed, lock, at, release, left, legacy, starts>>

(* The last statement; then the deferred unlock.                           *)
Finish(r) ==
  /\ next[r] > Len(Statements) + 1
  /\ Move(r, "granting", "done")
  /\ lock' = Nobody
  /\ UNCHANGED <<ran, records, acl, run>>

-----------------------------------------------------------------------------
Works(r) ==
  \/ LockGranted(r) \/ Verify(r) \/ Refuse(r) \/ Baseline(r)
  \/ Skip(r) \/ Execute(r) \/ Commit(r) \/ Require(r) \/ Grant(r)
  \/ SetDefaults(r) \/ Finish(r)

Next == \E r \in Runners :
  \/ \E rel \in Releases : Start(r, rel)
  \/ Works(r)
  \/ LockTimeout(r) \/ Dies(r) \/ CommitUnseen(r) \/ SessionEnds(r)

Spec == Init /\ [][Next]_vars

(* A process that is not killed runs on, its wait for the lock ends after  *)
(* two minutes, and the server notices a closed connection.                *)
FairSpec == Spec /\ \A r \in Runners :
  /\ WF_vars(Works(r)) /\ WF_vars(SessionEnds(r))
  /\ WF_vars(at[r] = "waiting" /\ LockTimeout(r))

-----------------------------------------------------------------------------
(* Properties                                                              *)

(* The SQL of a file takes effect once, however often cmd/migrate dies or  *)
(* runs beside another one, and schema_migrations lists exactly the files  *)
(* that did, with the checksum of what ran (applyMigration).               *)
AppliedOnce ==
  \A v \in Versions :
    IF records[v] = Absent
      THEN ran[v] = <<>>
      ELSE ran[v] = <<Unknown>> \/ (records[v] # Null /\ ran[v] = <<records[v]>>)

(* What verifyAppliedMigrations found stays true until the run ends: no    *)
(* other deployment applies a file this release does not have, or gives a  *)
(* file another content, while the run goes on (the advisory lock).        *)
VerifiedStaysTrue ==
  \A r \in Runners : at[r] \in {"verified", "executed", "granting"} => Fits(release[r])

(* What a table keeps of the default privileges it was created with.       *)
Kept(t, rights) == IF t \in primed THEN rights ELSE {}

Intended(t) ==
  CASE ClassOf[t] = "rows"     -> {"select", "insert", "update"}
    [] ClassOf[t] = "device"   -> Rights
    [] ClassOf[t] = "ledger"   -> {"select", "insert"}
    [] ClassOf[t] = "registry" -> {"select"}
    [] ClassOf[t] = "attempts" -> {"select", "insert"} \cup Kept(t, {"update"})
    [] ClassOf[t] = "unlisted" -> {"select"} \cup Kept(t, {"insert", "update"})

(* When cmd/migrate ends with success, and so lets the API start, the      *)
(* database holds the files of its release and no other, and the runtime   *)
(* role may do with each table what grantRuntimePrivileges says, whatever  *)
(* an earlier run that died half-way left (main).  It says nothing of the  *)
(* UPDATE on login_attempts, nor of INSERT and UPDATE on a table no list   *)
(* names: such a table keeps these if it was created when the default      *)
(* privileges were set, and only then.                                     *)
SuccessMeansReady ==
  [][\A r \in Runners : (at[r] # "done" /\ at'[r] = "done") =>
       /\ \A v \in Versions : records[v] = IF v \in DOMAIN release[r] THEN release[r][v] ELSE Absent
       /\ \A t \in Tables : Exists(t) => priv[t] = Intended(t)]_vars

(* Every run comes to an end and gives the lock back, also one that died   *)
(* holding it: no deployment is kept from migrating for good.              *)
EveryRunEnds ==
  \A r \in Runners : (at[r] \notin Ended \/ lock = r) ~> (at[r] \in Ended /\ lock # r)

=============================================================================
