-------------------------- MODULE MigrationsProofs --------------------------
(***************************************************************************)
(* What cmd/migrate promises, for any number of deployments, releases,     *)
(* files and tables.                                                       *)
(***************************************************************************)
EXTENDS Migrations, FiniteSetTheorems, WellFoundedInduction, TLAPS

(* A set of file names that is not empty has a first one: the shortest of  *)
(* the intervals that end in it.                                           *)
LEMMA FirstIsAMember ==
  ASSUME NEW S, S \subseteq Nat, S # {}
  PROVE  First(S) \in S
<1> DEFINE Up == {1 .. n : n \in S}
<1>1. Up \subseteq FiniteSubsetsOf(Nat) /\ Up # {}
  <2>1. \A n \in S : 1 .. n \in SUBSET Nat /\ IsFiniteSet(1 .. n)
    BY FS_Interval
  <2> QED
    BY <2>1 DEF FiniteSubsetsOf
<1>2. PICK I \in Up : \A J \in Up : ~ (<<J, I>> \in StrictSubsetOrdering(Nat))
  <2> HIDE DEF Up
  <2> QED
    BY <1>1, FS_StrictSubsetOrderingWellFounded, WFMin
<1>3. PICK x \in S : I = 1 .. x
  BY <1>2
<1>4. \A y \in S : x <= y
  <2> SUFFICES ASSUME NEW y \in S, y < x PROVE FALSE
    OBVIOUS
  <2>1. 1 .. y \subseteq 1 .. x /\ 1 .. y # 1 .. x
    <3>1. x \in 1 .. x /\ x \notin 1 .. y
      OBVIOUS
    <3> QED
      BY <3>1
  <2>2. 1 .. y \in Up /\ 1 .. y \in SUBSET Nat /\ 1 .. x \in SUBSET Nat
    OBVIOUS
  <2> QED
    BY <1>2, <1>3, <2>1, <2>2 DEF StrictSubsetOrdering
<1> QED
  BY <1>4 DEF First

-----------------------------------------------------------------------------
(* The inductive invariant.  A run that has the lock in its session is the *)
(* only one that changes the database; what it found, has applied and has  *)
(* granted so far is kept by itself and by nobody else undone.             *)

Holding == {"granted", "verified", "executed", "granting"}
Checked == {"verified", "executed", "granting"}

OneHolder == \A r \in Runners : at[r] \in Holding => lock = r

KnownRelease == \A r \in Runners : at[r] # "idle" => release[r] \in Releases

Untouched == \A r \in Runners :
  at[r] \in {"waiting", "granted"} => left[r] = DOMAIN release[r]

AppliedSoFar == \A r \in Runners : at[r] \in Checked =>
  /\ left[r] \subseteq DOMAIN release[r]
  /\ legacy[r] = {v \in Versions : records[v] = Null}
  /\ \A v \in DOMAIN release[r] \ left[r] : records[v] # Absent
  /\ at[r] = "executed" => legacy[r] = {} /\ left[r] # {} /\ records[First(left[r])] = Absent
  /\ at[r] = "granting" => legacy[r] = {} /\ left[r] = {}

(* After the first n - 1 statements.                                       *)
Granted(n, t) ==
  /\ n > 1 => "select" \in priv[t]
  /\ n > 2 /\ ClassOf[t] # "device" => "delete" \notin priv[t]
  /\ n > 3 /\ ClassOf[t] = "rows" => {"insert", "update"} \subseteq priv[t]
  /\ n > 4 /\ ClassOf[t] = "device" => {"insert", "update", "delete"} \subseteq priv[t]
  /\ n > 5 /\ ClassOf[t] \in {"ledger", "attempts"} => "insert" \in priv[t]
  /\ n > 6 /\ ClassOf[t] = "ledger" => "update" \notin priv[t]
  /\ n > 7 /\ ClassOf[t] = "registry" => "insert" \notin priv[t] /\ "update" \notin priv[t]

(* What no statement grants or revokes is as it was when the table was     *)
(* created.                                                                *)
KeptAsCreated == \A t \in Tables :
  /\ ClassOf[t] \in {"attempts", "unlisted"} => ("update" \in priv[t] <=> t \in primed)
  /\ ClassOf[t] = "unlisted" => ("insert" \in priv[t] <=> t \in primed)

StartedAtOne == \A r \in Runners :
  /\ next[r] >= 1
  /\ at[r] \in {"waiting", "granted", "verified", "executed"} => next[r] = 1

GrantedSoFar == \A r \in Runners :
  at[r] = "granting" => \A t \in Tables : Exists(t) => Granted(next[r], t)

MigrationsInvariant ==
  /\ TypeOK /\ OneHolder /\ KnownRelease
  /\ AppliedOnce /\ VerifiedStaysTrue /\ Untouched /\ StartedAtOne /\ AppliedSoFar
  /\ KeptAsCreated /\ GrantedSoFar

LEMMA InitMigrations == Init => MigrationsInvariant
<1> SUFFICES ASSUME Init PROVE MigrationsInvariant
  OBVIOUS
<1>1. TypeOK
  <2>1. <<Unknown>> \in Seq(Contents \cup {Unknown}) /\ <<>> \in Seq(Contents \cup {Unknown})
    OBVIOUS
  <2>2. ran \in [Versions -> Seq(Contents \cup {Unknown})] /\ records \in [Versions -> Contents \cup {Absent, Null}]
    BY <2>1 DEF Init
  <2> QED
    BY <2>2 DEF Init, TypeOK, Ended, Phases
<1>2. AppliedOnce
  BY MigrationConstants DEF Init, AppliedOnce
<1> QED
  BY <1>1, <1>2 DEF Init, MigrationsInvariant, OneHolder, KnownRelease, VerifiedStaysTrue,
     Untouched, StartedAtOne, AppliedSoFar, KeptAsCreated, GrantedSoFar, Holding, Checked

-----------------------------------------------------------------------------
(* Steps that leave the database alone.                                    *)

LEMMA StepStart ==
  ASSUME MigrationsInvariant, NEW r \in Runners, NEW rel \in Releases, Start(r, rel)
  PROVE  MigrationsInvariant'
<1> USE DEF MigrationsInvariant, Start, acl
<1>1. TypeOK'
  BY MigrationConstants DEF TypeOK, Ended, Phases
<1>2. OneHolder' /\ KnownRelease' /\ Untouched' /\ StartedAtOne'
  BY DEF TypeOK, OneHolder, KnownRelease, Untouched, StartedAtOne, Holding
<1>3. AppliedOnce' /\ VerifiedStaysTrue'
  BY DEF TypeOK, AppliedOnce, VerifiedStaysTrue, Fits
<1>4. AppliedSoFar'
  BY DEF TypeOK, AppliedSoFar, Checked
<1>5. GrantedSoFar' /\ KeptAsCreated'
  BY DEF TypeOK, GrantedSoFar, KeptAsCreated, Granted, Exists, acl
<1> QED
  BY <1>1, <1>2, <1>3, <1>4, <1>5

(* The lock changes hands only when nobody works under it.                 *)
LEMMA StepLock ==
  ASSUME MigrationsInvariant, NEW r \in Runners, LockGranted(r) \/ SessionEnds(r)
  PROVE  MigrationsInvariant'
<1> USE DEF MigrationsInvariant, LockGranted, SessionEnds, Move, run, acl
<1>1. TypeOK'
  BY DEF TypeOK, Phases
<1>2. OneHolder' /\ KnownRelease' /\ Untouched' /\ StartedAtOne'
  BY MigrationConstants DEF TypeOK, OneHolder, KnownRelease, Untouched, StartedAtOne, Holding
<1>3. AppliedOnce' /\ VerifiedStaysTrue'
  BY DEF TypeOK, AppliedOnce, VerifiedStaysTrue, Fits
<1>4. AppliedSoFar'
  BY DEF TypeOK, AppliedSoFar, Checked
<1>5. GrantedSoFar' /\ KeptAsCreated'
  BY DEF TypeOK, GrantedSoFar, KeptAsCreated, Granted, Exists, acl
<1> QED
  BY <1>1, <1>2, <1>3, <1>4, <1>5

LEMMA StepGivesUp ==
  ASSUME MigrationsInvariant, NEW r \in Runners, LockTimeout(r) \/ Dies(r) \/ Refuse(r)
  PROVE  MigrationsInvariant'
<1> USE DEF MigrationsInvariant, run
<1>1. /\ at' = [at EXCEPT ![r] = "failed"]
      /\ at[r] # "idle"
      /\ UNCHANGED <<ran, records, priv, defaults, primed, lock, release, left, legacy, next, starts>>
  BY DEF LockTimeout, Dies, Refuse, Move, Ended, acl
<1>2. TypeOK'
  BY <1>1 DEF TypeOK, Ended, Phases
<1>3. OneHolder' /\ KnownRelease' /\ Untouched' /\ StartedAtOne'
  BY <1>1 DEF TypeOK, OneHolder, KnownRelease, Untouched, StartedAtOne, Holding
<1>4. AppliedOnce' /\ VerifiedStaysTrue'
  BY <1>1 DEF TypeOK, AppliedOnce, VerifiedStaysTrue, Fits
<1>5. AppliedSoFar'
  BY <1>1 DEF TypeOK, AppliedSoFar, Checked
<1>6. GrantedSoFar' /\ KeptAsCreated'
  BY <1>1 DEF TypeOK, GrantedSoFar, KeptAsCreated, Granted, Exists
<1> QED
  BY <1>2, <1>3, <1>4, <1>5, <1>6

LEMMA StepVerify ==
  ASSUME MigrationsInvariant, NEW r \in Runners, Verify(r)
  PROVE  MigrationsInvariant'
<1> USE DEF MigrationsInvariant, Verify, Move, acl
<1>1. TypeOK'
  BY DEF TypeOK, Phases
<1>2. OneHolder' /\ KnownRelease' /\ Untouched' /\ StartedAtOne'
  BY DEF TypeOK, OneHolder, KnownRelease, Untouched, StartedAtOne, Holding
<1>3. AppliedOnce' /\ VerifiedStaysTrue'
  BY DEF TypeOK, AppliedOnce, VerifiedStaysTrue, Fits
<1>4. AppliedSoFar'
  <2>1. left[r] = DOMAIN release[r]
    BY DEF TypeOK, Untouched
  <2> QED
    BY <2>1 DEF TypeOK, AppliedSoFar, Checked
<1>5. GrantedSoFar' /\ KeptAsCreated'
  BY DEF TypeOK, GrantedSoFar, KeptAsCreated, Granted, Exists, acl
<1> QED
  BY <1>1, <1>2, <1>3, <1>4, <1>5

-----------------------------------------------------------------------------
(* Steps that change the database.  The runner has the lock, so no other   *)
(* one is in a phase the invariant speaks of.                              *)

LEMMA NobodyElse ==
  ASSUME OneHolder, NEW r \in Runners, at[r] \in Holding
  PROVE  lock = r /\ \A q \in Runners \ {r} : at[q] \notin Holding
BY DEF OneHolder

LEMMA StepBaseline ==
  ASSUME MigrationsInvariant, NEW r \in Runners, Baseline(r)
  PROVE  MigrationsInvariant'
<1> DEFINE v == First(legacy[r])
<1> USE DEF MigrationsInvariant
<1>1. at[r] = "verified" /\ legacy[r] # {}
  BY DEF Baseline
<1>2. v \in Versions /\ records[v] = Null /\ v \in DOMAIN release[r]
  <2>1. v \in legacy[r]
    BY <1>1, FirstIsAMember, MigrationConstants DEF TypeOK
  <2>2. v \in Versions /\ records[v] = Null
    BY <2>1, <1>1 DEF AppliedSoFar, Checked
  <2> QED
    BY <2>2, <1>1, MigrationConstants DEF VerifiedStaysTrue, Fits
<1>3. /\ records' = [records EXCEPT ![v] = release[r][v]]
      /\ legacy' = [legacy EXCEPT ![r] = @ \ {v}]
      /\ UNCHANGED <<ran, priv, defaults, primed, lock, at, release, left, next, starts>>
  BY <1>2 DEF Baseline, acl
<1>4. release[r][v] \in Contents
  BY <1>1, <1>2, MigrationConstants DEF KnownRelease
<1> HIDE DEF v
<1>5. lock = r /\ \A q \in Runners \ {r} : at[q] \notin Holding
  BY <1>1, NobodyElse DEF Holding
<1>6. TypeOK'
  BY <1>2, <1>3, <1>4 DEF TypeOK
<1>7. OneHolder' /\ KnownRelease' /\ Untouched' /\ StartedAtOne'
  BY <1>3 DEF OneHolder, KnownRelease, Untouched, StartedAtOne
<1>8. AppliedOnce'
  BY <1>2, <1>3, <1>4, MigrationConstants DEF TypeOK, AppliedOnce
<1>9. VerifiedStaysTrue'
  BY <1>1, <1>2, <1>3, <1>5 DEF TypeOK, VerifiedStaysTrue, Fits, Holding
<1>10. AppliedSoFar'
  BY <1>1, <1>2, <1>3, <1>4, <1>5, MigrationConstants DEF TypeOK, AppliedSoFar, Holding, Checked
<1>11. GrantedSoFar' /\ KeptAsCreated'
  BY <1>3 DEF GrantedSoFar, KeptAsCreated, Granted, Exists
<1> QED
  BY <1>6, <1>7, <1>8, <1>9, <1>10, <1>11

LEMMA StepSkip ==
  ASSUME MigrationsInvariant, NEW r \in Runners, Skip(r)
  PROVE  MigrationsInvariant'
<1> USE DEF MigrationsInvariant, Skip, Applying, acl
<1>1. TypeOK'
  BY DEF TypeOK
<1>2. OneHolder' /\ KnownRelease' /\ Untouched' /\ StartedAtOne'
  BY DEF TypeOK, OneHolder, KnownRelease, Untouched, StartedAtOne
<1>3. AppliedOnce' /\ VerifiedStaysTrue'
  BY DEF TypeOK, AppliedOnce, VerifiedStaysTrue, Fits
<1>4. AppliedSoFar'
  BY DEF TypeOK, AppliedSoFar, Checked
<1>5. GrantedSoFar' /\ KeptAsCreated'
  BY DEF TypeOK, GrantedSoFar, KeptAsCreated, Granted, Exists, acl
<1> QED
  BY <1>1, <1>2, <1>3, <1>4, <1>5

LEMMA StepExecute ==
  ASSUME MigrationsInvariant, NEW r \in Runners, Execute(r)
  PROVE  MigrationsInvariant'
<1> USE DEF MigrationsInvariant, Execute, Applying, Move, run, acl
<1>1. TypeOK'
  BY DEF TypeOK, Phases
<1>2. OneHolder' /\ KnownRelease' /\ Untouched' /\ StartedAtOne'
  BY DEF TypeOK, OneHolder, KnownRelease, Untouched, StartedAtOne, Holding
<1>3. AppliedOnce' /\ VerifiedStaysTrue'
  BY DEF TypeOK, AppliedOnce, VerifiedStaysTrue, Fits
<1>4. AppliedSoFar'
  BY DEF TypeOK, AppliedSoFar, Checked
<1>5. GrantedSoFar' /\ KeptAsCreated'
  BY DEF TypeOK, GrantedSoFar, KeptAsCreated, Granted, Exists, acl
<1> QED
  BY <1>1, <1>2, <1>3, <1>4, <1>5

(* The commit, seen or not.                                                *)
LEMMA StepCommit ==
  ASSUME MigrationsInvariant, NEW r \in Runners, Commit(r) \/ CommitUnseen(r)
  PROVE  MigrationsInvariant'
<1> DEFINE v == First(left[r])
<1> USE DEF MigrationsInvariant
<1>1. at[r] = "executed"
  BY DEF Commit, CommitUnseen, Move
<1>2. v \in Versions /\ v \in DOMAIN release[r] /\ v \in left[r] /\ records[v] = Absent
  <2>1. left[r] # {} /\ left[r] \subseteq DOMAIN release[r] /\ records[v] = Absent
    BY <1>1 DEF AppliedSoFar, Checked
  <2>2. v \in left[r]
    BY <2>1, FirstIsAMember, MigrationConstants DEF TypeOK
  <2> QED
    BY <2>1, <2>2 DEF TypeOK
<1>3. /\ ran' = [ran EXCEPT ![v] = Append(@, release[r][v])]
      /\ records' = [records EXCEPT ![v] = release[r][v]]
      /\ priv' = [t \in Tables |-> IF CreatedBy[t] = v /\ defaults THEN Rights ELSE priv[t]]
      /\ primed' = primed \cup {t \in Tables : CreatedBy[t] = v /\ defaults}
      /\ UNCHANGED <<defaults, lock, release, legacy, next, starts>>
      /\ \/ at' = [at EXCEPT ![r] = "verified"] /\ left' = [left EXCEPT ![r] = @ \ {v}]
         \/ at' = [at EXCEPT ![r] = "failed"] /\ left' = left
  BY <1>2 DEF Commit, CommitUnseen, TakesEffect, Move, run
<1>4. release[r][v] \in Contents
  BY <1>1, <1>2, MigrationConstants DEF KnownRelease
<1> HIDE DEF v
<1>5. lock = r /\ \A q \in Runners \ {r} : at[q] \notin Holding
  BY <1>1, NobodyElse DEF Holding
<1>6. ran[v] = <<>> /\ ran'[v] = <<release[r][v]>>
  <2>1. ran[v] = <<>>
    BY <1>2 DEF AppliedOnce
  <2> QED
    BY <2>1, <1>2, <1>3 DEF TypeOK
<1>0. /\ at'[r] \in {"verified", "failed"} /\ \A q \in Runners \ {r} : at'[q] = at[q]
      /\ at' \in [Runners -> Phases] /\ left' \in [Runners -> SUBSET Versions]
  BY <1>3 DEF TypeOK, Ended, Phases
<1>7. TypeOK'
  <2>1. <<release[r][v]>> \in Seq(Contents \cup {Unknown})
    BY <1>4
  <2>2. ran' \in [Versions -> Seq(Contents \cup {Unknown})]
    BY <2>1, <1>2, <1>3, <1>6 DEF TypeOK
  <2>3. priv' \in [Tables -> SUBSET Rights]
    BY <1>3 DEF TypeOK
  <2> QED
    BY <2>2, <2>3, <1>0, <1>2, <1>3, <1>4 DEF TypeOK
<1>8. OneHolder' /\ KnownRelease' /\ Untouched' /\ StartedAtOne'
  BY <1>1, <1>3 DEF TypeOK, OneHolder, KnownRelease, Untouched, StartedAtOne, Holding
<1>9. AppliedOnce'
  BY <1>2, <1>3, <1>4, <1>6, MigrationConstants DEF TypeOK, AppliedOnce
<1>10. VerifiedStaysTrue'
  <2>1. Fits(release[r])'
    BY <1>1, <1>2, <1>3 DEF TypeOK, VerifiedStaysTrue, Fits
  <2> QED
    BY <2>1, <1>0, <1>5 DEF VerifiedStaysTrue, Holding
<1>11. AppliedSoFar'
  <2> SUFFICES ASSUME at'[r] = "verified"
               PROVE  /\ left'[r] \subseteq DOMAIN release'[r]
                      /\ legacy'[r] = {w \in Versions : records'[w] = Null}
                      /\ \A w \in DOMAIN release'[r] \ left'[r] : records'[w] # Absent
    BY <1>0, <1>5 DEF AppliedSoFar, Holding, Checked
  <2>1. left' = [left EXCEPT ![r] = @ \ {v}]
    BY <1>3 DEF TypeOK
  <2>2. /\ left[r] \subseteq DOMAIN release[r]
        /\ legacy[r] = {w \in Versions : records[w] = Null} /\ legacy[r] = {}
        /\ \A w \in DOMAIN release[r] \ left[r] : records[w] # Absent
    BY <1>1 DEF AppliedSoFar, Checked
  <2>3. DOMAIN release[r] \subseteq Versions
    BY <1>1, MigrationConstants DEF KnownRelease
  <2>4. \A w \in Versions : records'[w] = IF w = v THEN release[r][v] ELSE records[w]
    BY <1>2, <1>3 DEF TypeOK
  <2>5. release[r][v] # Null /\ release[r][v] # Absent
    BY <1>4, MigrationConstants
  <2>6. left'[r] = left[r] \ {v}
    BY <2>1 DEF TypeOK
  <2> QED
    BY <2>2, <2>3, <2>4, <2>5, <2>6, <1>3
<1>12. GrantedSoFar'
  BY <1>1, <1>3, <1>5 DEF TypeOK, GrantedSoFar, Holding
<1>13. KeptAsCreated'
  BY <1>3 DEF TypeOK, KeptAsCreated, Rights
<1> QED
  BY <1>7, <1>8, <1>9, <1>10, <1>11, <1>12, <1>13

LEMMA StepRequire ==
  ASSUME MigrationsInvariant, NEW r \in Runners, Require(r)
  PROVE  MigrationsInvariant'
<1> USE DEF MigrationsInvariant, Require, Applying, run, acl
<1>1. at' = [at EXCEPT ![r] = "granting"]
  BY DEF AppliedSoFar, Checked
<1>2. TypeOK'
  BY <1>1 DEF TypeOK, Phases
<1>3. OneHolder' /\ KnownRelease' /\ Untouched' /\ StartedAtOne'
  BY <1>1 DEF TypeOK, OneHolder, KnownRelease, Untouched, StartedAtOne, Holding
<1>4. AppliedOnce' /\ VerifiedStaysTrue'
  BY <1>1 DEF TypeOK, AppliedOnce, VerifiedStaysTrue, Fits
<1>5. AppliedSoFar'
  BY <1>1 DEF TypeOK, AppliedSoFar, Checked
<1>6. GrantedSoFar'
  <2>1. next[r] = 1
    BY DEF StartedAtOne
  <2> QED
    BY <1>1, <2>1 DEF TypeOK, GrantedSoFar, Granted, Exists
<1>7. KeptAsCreated'
  BY DEF KeptAsCreated
<1> QED
  BY <1>2, <1>3, <1>4, <1>5, <1>6, <1>7

(* One statement more of grantRuntimePrivileges.  The DELETE the second    *)
(* one takes from every table is given back to the device tables only.     *)
LEMMA OneGrant ==
  ASSUME NEW n \in 1 .. 7, NEW t \in Tables, priv \in [Tables -> SUBSET Rights],
         Exists(t), Granted(n, t), priv' = Changed(Statements[n])
  PROVE  Granted(n + 1, t)' /\ priv' \in [Tables -> SUBSET Rights]
<1> DEFINE s == Statements[n]
<1>1. ClassOf[t] \in Classes
  BY MigrationConstants
<1>2. priv'[t] = IF ClassOf[t] \in s.on THEN (priv[t] \cup s.adds) \ s.drops ELSE priv[t]
  BY DEF Changed
<1>3. s.adds \subseteq Rights
  BY DEF Statements, Rights
<1>4. priv' \in [Tables -> SUBSET Rights]
  BY <1>3 DEF Changed
<1>5. CASE n = 1
  BY <1>1, <1>2, <1>4, <1>5 DEF Granted, Statements, Classes
<1>6. CASE n = 2
  BY <1>1, <1>2, <1>4, <1>6 DEF Granted, Statements, Classes
<1>7. CASE n = 3
  BY <1>1, <1>2, <1>4, <1>7 DEF Granted, Statements, Classes
<1>8. CASE n = 4
  BY <1>1, <1>2, <1>4, <1>8 DEF Granted, Statements, Classes
<1>9. CASE n = 5
  BY <1>1, <1>2, <1>4, <1>9 DEF Granted, Statements, Classes
<1>10. CASE n = 6
  BY <1>1, <1>2, <1>4, <1>10 DEF Granted, Statements, Classes
<1>11. CASE n = 7
  BY <1>1, <1>2, <1>4, <1>11 DEF Granted, Statements, Classes
<1> QED
  BY <1>4, <1>5, <1>6, <1>7, <1>8, <1>9, <1>10, <1>11

(* No statement is about the rights a table keeps.                         *)
LEMMA LeavesTheRest ==
  ASSUME NEW n \in 1 .. 7, NEW t \in Tables, priv' = Changed(Statements[n])
  PROVE  /\ ClassOf[t] \in {"attempts", "unlisted"} => ("update" \in priv'[t] <=> "update" \in priv[t])
         /\ ClassOf[t] = "unlisted" => ("insert" \in priv'[t] <=> "insert" \in priv[t])
<1>1. \/ priv'[t] = priv[t]
      \/ /\ ClassOf[t] \in Statements[n].on
         /\ priv'[t] = (priv[t] \cup Statements[n].adds) \ Statements[n].drops
  BY DEF Changed
<1>2. CASE n = 1
  BY <1>1, <1>2 DEF Statements
<1>3. CASE n = 2
  BY <1>1, <1>3 DEF Statements
<1>4. CASE n = 3
  BY <1>1, <1>4 DEF Statements
<1>5. CASE n = 4
  BY <1>1, <1>5 DEF Statements
<1>6. CASE n = 5
  BY <1>1, <1>6 DEF Statements
<1>7. CASE n = 6
  BY <1>1, <1>7 DEF Statements
<1>8. CASE n = 7
  BY <1>1, <1>8 DEF Statements
<1> QED
  BY <1>2, <1>3, <1>4, <1>5, <1>6, <1>7, <1>8

LEMMA SevenStatements == Len(Statements) = 7
  BY DEF Statements

LEMMA StepGrant ==
  ASSUME MigrationsInvariant, NEW r \in Runners, Grant(r)
  PROVE  MigrationsInvariant'
<1> USE DEF MigrationsInvariant
<1>1. /\ at[r] = "granting" /\ next[r] <= 7
      /\ priv' = Changed(Statements[next[r]])
      /\ next' = [next EXCEPT ![r] = @ + 1]
      /\ UNCHANGED <<ran, records, defaults, primed, lock, at, release, left, legacy, starts>>
  BY SevenStatements DEF Grant
<1>2. lock = r /\ \A q \in Runners \ {r} : at[q] \notin Holding
  BY <1>1, NobodyElse DEF Holding
<1>3. next[r] \in 1 .. 7
  BY <1>1 DEF TypeOK, StartedAtOne
<1>4. ASSUME NEW n \in 1 .. 7, n = next[r], NEW t \in Tables, Exists(t)
      PROVE  Granted(n + 1, t)'
  <2>1. Granted(n, t) /\ priv \in [Tables -> SUBSET Rights] /\ priv' = Changed(Statements[n])
    BY <1>1, <1>4 DEF TypeOK, GrantedSoFar
  <2> QED
    BY <2>1, <1>4, OneGrant
<1>5. TypeOK'
  <2>1. Statements[next[r]].adds \subseteq Rights
    BY <1>3 DEF Statements, Rights
  <2>2. priv' \in [Tables -> SUBSET Rights]
    BY <2>1, <1>1 DEF TypeOK, Changed
  <2> QED
    BY <2>2, <1>1 DEF TypeOK
<1>6. OneHolder' /\ KnownRelease' /\ Untouched' /\ StartedAtOne'
  BY <1>1 DEF TypeOK, OneHolder, KnownRelease, Untouched, StartedAtOne
<1>7. AppliedOnce' /\ VerifiedStaysTrue'
  BY <1>1 DEF AppliedOnce, VerifiedStaysTrue, Fits
<1>8. AppliedSoFar'
  BY <1>1 DEF AppliedSoFar
<1>9. GrantedSoFar'
  <2> SUFFICES ASSUME NEW t \in Tables, Exists(t)' PROVE Granted(next[r], t)'
    BY <1>1, <1>2 DEF TypeOK, GrantedSoFar, Holding
  <2>1. Exists(t) /\ next'[r] = next[r] + 1
    BY <1>1 DEF TypeOK, Exists
  <2>2. PICK n \in 1 .. 7 : n = next[r]
    BY <1>3
  <2>3. Granted(n + 1, t)'
    BY <2>1, <2>2, <1>4
  <2> QED
    BY <2>1, <2>2, <2>3 DEF Granted
<1>10. KeptAsCreated'
  <2> SUFFICES ASSUME NEW t \in Tables
               PROVE  /\ ClassOf[t] \in {"attempts", "unlisted"} => ("update" \in priv'[t] <=> "update" \in priv[t])
                      /\ ClassOf[t] = "unlisted" => ("insert" \in priv'[t] <=> "insert" \in priv[t])
    BY <1>1 DEF KeptAsCreated
  <2>1. PICK n \in 1 .. 7 : n = next[r]
    BY <1>3
  <2>2. priv' = Changed(Statements[n])
    BY <1>1, <2>1
  <2> QED
    BY <2>2, LeavesTheRest
<1> QED
  BY <1>5, <1>6, <1>7, <1>8, <1>9, <1>10

LEMMA StepSetDefaults ==
  ASSUME MigrationsInvariant, NEW r \in Runners, SetDefaults(r)
  PROVE  MigrationsInvariant'
<1> USE DEF MigrationsInvariant, SetDefaults
<1>1. lock = r /\ \A q \in Runners \ {r} : at[q] \notin Holding
  BY NobodyElse DEF Holding
<1>2. TypeOK'
  BY DEF TypeOK
<1>3. next[r] = 8 /\ next'[r] = 9 /\ \A q \in Runners \ {r} : next'[q] = next[q]
  BY SevenStatements DEF TypeOK
<1>4. OneHolder' /\ KnownRelease' /\ Untouched' /\ StartedAtOne'
  BY <1>3 DEF OneHolder, KnownRelease, Untouched, StartedAtOne
<1>5. AppliedOnce' /\ VerifiedStaysTrue'
  BY DEF AppliedOnce, VerifiedStaysTrue, Fits
<1>6. AppliedSoFar' /\ KeptAsCreated'
  BY DEF AppliedSoFar, KeptAsCreated
<1>7. GrantedSoFar'
  BY <1>1, <1>3 DEF GrantedSoFar, Granted, Exists, Holding
<1> QED
  BY <1>2, <1>4, <1>5, <1>6, <1>7

LEMMA StepFinish ==
  ASSUME MigrationsInvariant, NEW r \in Runners, Finish(r)
  PROVE  MigrationsInvariant'
<1> USE DEF MigrationsInvariant, Finish, Move, run, acl
<1>1. lock = r /\ \A q \in Runners \ {r} : at[q] \notin Holding
  BY NobodyElse DEF Holding
<1>2. TypeOK'
  BY DEF TypeOK, Ended, Phases
<1>3. OneHolder' /\ KnownRelease' /\ Untouched' /\ StartedAtOne'
  BY <1>1 DEF TypeOK, OneHolder, KnownRelease, Untouched, StartedAtOne, Holding
<1>4. AppliedOnce' /\ VerifiedStaysTrue'
  BY DEF TypeOK, AppliedOnce, VerifiedStaysTrue, Fits
<1>5. AppliedSoFar'
  BY DEF TypeOK, AppliedSoFar, Checked
<1>6. GrantedSoFar' /\ KeptAsCreated'
  BY DEF TypeOK, GrantedSoFar, KeptAsCreated, Granted, Exists, acl
<1> QED
  BY <1>2, <1>3, <1>4, <1>5, <1>6

LEMMA StepMigrations == MigrationsInvariant /\ [Next]_vars => MigrationsInvariant'
<1> SUFFICES ASSUME MigrationsInvariant, [Next]_vars PROVE MigrationsInvariant'
  OBVIOUS
<1>1. CASE UNCHANGED vars
  BY <1>1 DEF vars, MigrationsInvariant, TypeOK, OneHolder, KnownRelease, AppliedOnce,
     VerifiedStaysTrue, Fits, Untouched, StartedAtOne, AppliedSoFar, KeptAsCreated, GrantedSoFar,
     Granted, Exists
<1>2. CASE Next
  BY <1>2, StepStart, StepLock, StepGivesUp, StepVerify, StepBaseline, StepSkip, StepExecute,
     StepCommit, StepRequire, StepGrant, StepSetDefaults, StepFinish DEF Next, Works
<1> QED
  BY <1>1, <1>2

LEMMA Invariant == Spec => []MigrationsInvariant
  BY InitMigrations, StepMigrations, PTL DEF Spec

-----------------------------------------------------------------------------
(* applyMigration: the SQL of a file takes effect once, and is recorded.   *)
THEOREM FilesApplyOnce == Spec => []AppliedOnce
  BY Invariant, PTL DEF MigrationsInvariant

(* The advisory lock: what a run verified is not changed under it.         *)
THEOREM VerifiedHolds == Spec => []VerifiedStaysTrue
  BY Invariant, PTL DEF MigrationsInvariant

(* main: after a run that ends with success the API finds the schema of    *)
(* that run's release, and on every table the privileges that              *)
(* grantRuntimePrivileges lists, with what it leaves of the default ones.  *)
THEOREM SuccessIsComplete == Spec => SuccessMeansReady
<1> DEFINE A == \A r \in Runners : (at[r] # "done" /\ at'[r] = "done") =>
                 /\ \A v \in Versions : records[v] = IF v \in DOMAIN release[r] THEN release[r][v] ELSE Absent
                 /\ \A t \in Tables : Exists(t) => priv[t] = Intended(t)
<1>1. MigrationsInvariant /\ [Next]_vars => [A]_vars
  <2> SUFFICES ASSUME MigrationsInvariant, Next, NEW r \in Runners, at[r] # "done", at'[r] = "done"
               PROVE  /\ \A v \in Versions : records[v] = IF v \in DOMAIN release[r] THEN release[r][v] ELSE Absent
                      /\ \A t \in Tables : Exists(t) => priv[t] = Intended(t)
    OBVIOUS
  <2> USE DEF MigrationsInvariant
  <2>1. Finish(r)
    BY DEF TypeOK, Next, Works, Start, LockGranted, Verify, Refuse, Baseline, Skip, Execute, Commit,
       Require, Grant, SetDefaults, Finish, LockTimeout, Dies, CommitUnseen, SessionEnds, Move, run
  <2>2. at[r] = "granting" /\ next[r] > 7
    BY <2>1, SevenStatements DEF TypeOK, Finish, Move
  <2>3. \A v \in Versions : records[v] = IF v \in DOMAIN release[r] THEN release[r][v] ELSE Absent
    BY <2>2 DEF VerifiedStaysTrue, Fits, AppliedSoFar, Checked
  <2>4. ASSUME NEW t \in Tables, Exists(t) PROVE priv[t] = Intended(t)
    <3>1. Granted(next[r], t) /\ priv[t] \subseteq Rights /\ ClassOf[t] \in Classes /\ next[r] \in Nat
      BY <2>2, <2>4, MigrationConstants DEF GrantedSoFar, TypeOK
    <3>2. /\ ClassOf[t] \in {"attempts", "unlisted"} => ("update" \in priv[t] <=> t \in primed)
          /\ ClassOf[t] = "unlisted" => ("insert" \in priv[t] <=> t \in primed)
      BY DEF KeptAsCreated
    <3>3. \A x \in Rights : x \in priv[t] <=> x \in Intended(t)
      <4>1. CASE ClassOf[t] \in {"rows", "device"}
        BY <3>1, <4>1, <2>2 DEF Granted, Intended, Rights
      <4>2. CASE ClassOf[t] \in {"ledger", "registry"}
        BY <3>1, <4>2, <2>2 DEF Granted, Intended, Rights
      <4>3. CASE ClassOf[t] = "attempts"
        BY <3>1, <3>2, <4>3, <2>2 DEF Granted, Intended, Kept, Rights
      <4>4. CASE ClassOf[t] = "unlisted"
        BY <3>1, <3>2, <4>4, <2>2 DEF Granted, Intended, Kept, Rights
      <4> QED
        BY <3>1, <4>1, <4>2, <4>3, <4>4 DEF Classes
    <3>4. Intended(t) \subseteq Rights
      BY <3>1 DEF Intended, Kept, Rights, Classes
    <3> QED
      BY <3>1, <3>3, <3>4
  <2> QED
    BY <2>3, <2>4
<1> QED
  BY <1>1, Invariant, PTL DEF Spec, SuccessMeansReady

=============================================================================
