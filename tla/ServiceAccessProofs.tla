------------------------ MODULE ServiceAccessProofs ------------------------
(***************************************************************************)
(* Proofs about ServiceAccess, for any users, services, requests and syncs.*)
(***************************************************************************)
EXTENDS ServiceAccess, TLAPS

IInv == TypeOK /\ SessionsAreCut

USE AccessConstants DEF Services, Secret, Request, NotMade, Nothing, Read

(* A request past its first step is one.                                   *)
LEMMA Made ==
  ASSUME TypeOK, NEW r \in Requests, request[r].step # "new"
  PROVE  request[r] \in Request /\ request[r].service \in Services
  BY DEF TypeOK

LEMMA InitHolds == Init => IInv
  BY DEF Init, IInv, TypeOK, SessionsAreCut

(* Each conjunct survives each action.                                     *)
LEMMA TypeStep == IInv /\ [Next]_vars => TypeOK'
<1> SUFFICES ASSUME IInv, [Next]_vars PROVE TypeOK'
  OBVIOUS
<1> USE DEF IInv, TypeOK, router, billing
<1>1. ASSUME NEW s \in Unlinked, Create(s) PROVE TypeOK'
  BY <1>1 DEF Create
<1>2. ASSUME NEW s \in Services, Archive(s) PROVE TypeOK'
  BY <1>2 DEF Archive
<1>3. ASSUME NEW r \in Requests, NEW kind \in {"isolate", "restore"}, NEW s \in Services, Ask(r, kind, s) PROVE TypeOK'
  BY <1>3 DEF Ask, At
<1>4. ASSUME NEW r \in Requests, SetSecret(r) PROVE TypeOK'
  <2> DEFINE u == request[r].service
             d == request[r].kind = "isolate"
  <2>1. request[r] \in Request
    BY <1>4, Made DEF SetSecret, At
  <2>2. secret' = [secret EXCEPT ![u].disabled = d] /\ d \in BOOLEAN
    BY <1>4 DEF SetSecret, Sets
  <2> HIDE DEF u, d
  <2>3. secret' \in [Users -> Secret]
    BY <2>2
  <2> QED BY <1>4, <2>1, <2>3 DEF SetSecret, Moves
<1>5. ASSUME NEW r \in Requests, RouterFails(r) PROVE TypeOK'
  BY <1>5 DEF RouterFails, Moves, At
<1>6. ASSUME NEW r \in Requests, AnswerLost(r) PROVE TypeOK'
  <2> DEFINE u == request[r].service
             d == request[r].kind = "isolate"
  <2>1. request[r] \in Request
    BY <1>6, Made DEF AnswerLost, At
  <2>2. secret' = [secret EXCEPT ![u].disabled = d] /\ d \in BOOLEAN
    BY <1>6 DEF AnswerLost, Sets
  <2> HIDE DEF u, d
  <2>3. secret' \in [Users -> Secret]
    BY <2>2
  <2> QED BY <1>6, <2>1, <2>3 DEF AnswerLost, Moves
<1>7. ASSUME NEW r \in Requests, CutSessions(r) PROVE TypeOK'
  BY <1>7 DEF CutSessions, Moves, At
<1>8. ASSUME NEW r \in Requests, SpareSessions(r) PROVE TypeOK'
  BY <1>8 DEF SpareSessions, Moves, At
<1>9. ASSUME NEW r \in Requests, Finish(r) PROVE TypeOK'
  BY <1>9 DEF Finish, From, To, Moves, At
<1>10. ASSUME NEW r \in Requests, FinishFails(r) PROVE TypeOK'
  BY <1>10 DEF FinishFails, Moves, At
<1>11. ASSUME NEW y \in Syncs, SyncReads(y) PROVE TypeOK'
  BY <1>11 DEF SyncReads
<1>12. ASSUME NEW y \in Syncs, ApplySync(y) PROVE TypeOK'
  BY <1>12 DEF ApplySync, Aligned, Imported
<1>13. ASSUME NEW y \in Syncs, SyncFails(y) PROVE TypeOK'
  BY <1>13 DEF SyncFails
<1>14. ASSUME NEW u \in Users, Dial(u) PROVE TypeOK'
  BY <1>14 DEF Dial
<1>15. ASSUME NEW u \in Users, HangUp(u) PROVE TypeOK'
  BY <1>15 DEF HangUp
<1>16. ASSUME NEW u \in Users, Administer(u) PROVE TypeOK'
  <2>1. secret[u] \in Secret
    OBVIOUS
  <2>2. PICK new \in Secret : Change(u, new)
    <3> DEFINE switched == [secret[u] EXCEPT !.disabled = ~@]
               removed  == [secret[u] EXCEPT !.there = FALSE]
               added(d) == [there |-> TRUE, id |-> secret[u].id + 1, disabled |-> d]
    <3>1. switched \in Secret /\ removed \in Secret
      BY <2>1
    <3>2. \A d \in BOOLEAN : added(d) \in Secret
      BY <2>1
    <3>3. Change(u, switched) \/ Change(u, removed) \/ \E d \in BOOLEAN : Change(u, added(d))
      BY <1>16 DEF Administer
    <3> HIDE DEF switched, removed, added
    <3> QED BY <3>1, <3>2, <3>3
  <2> QED BY <2>2 DEF Change
<1>17. CASE UNCHANGED vars
  BY <1>17 DEF vars
<1> QED
  BY <1>1, <1>2, <1>3, <1>4, <1>5, <1>6, <1>7, <1>8, <1>9,
     <1>10, <1>11, <1>12, <1>13, <1>14, <1>15, <1>16, <1>17 DEF Next, Work

LEMMA SessionStep == IInv /\ [Next]_vars => SessionsAreCut'
<1> SUFFICES ASSUME IInv, [Next]_vars PROVE SessionsAreCut'
  OBVIOUS
<1> USE DEF IInv, TypeOK, SessionsAreCut, router, billing, At
<1>1. ASSUME NEW s \in Unlinked, Create(s) PROVE SessionsAreCut'
  BY <1>1 DEF Create
<1>2. ASSUME NEW s \in Services, Archive(s) PROVE SessionsAreCut'
  BY <1>2 DEF Archive
<1>3. ASSUME NEW r \in Requests, NEW kind \in {"isolate", "restore"}, NEW s \in Services, Ask(r, kind, s) PROVE SessionsAreCut'
  BY <1>3 DEF Ask
<1>4. ASSUME NEW r \in Requests, SetSecret(r) PROVE SessionsAreCut'
  BY <1>4 DEF SetSecret, IsTarget, Sets, Moves
<1>5. ASSUME NEW r \in Requests, RouterFails(r) PROVE SessionsAreCut'
  BY <1>5 DEF RouterFails, Moves
<1>6. ASSUME NEW r \in Requests, AnswerLost(r) PROVE SessionsAreCut'
  BY <1>6 DEF AnswerLost, IsTarget, Sets, Moves
<1>7. ASSUME NEW r \in Requests, CutSessions(r) PROVE SessionsAreCut'
  BY <1>7 DEF CutSessions, Moves
<1>8. ASSUME NEW r \in Requests, SpareSessions(r) PROVE SessionsAreCut'
  BY <1>8 DEF SpareSessions, Moves
<1>9. ASSUME NEW r \in Requests, Finish(r) PROVE SessionsAreCut'
  BY <1>9 DEF Finish, Moves
<1>10. ASSUME NEW r \in Requests, FinishFails(r) PROVE SessionsAreCut'
  BY <1>10 DEF FinishFails, Moves
<1>11. ASSUME NEW y \in Syncs, SyncReads(y) PROVE SessionsAreCut'
  BY <1>11 DEF SyncReads
<1>12. ASSUME NEW y \in Syncs, ApplySync(y) PROVE SessionsAreCut'
  BY <1>12 DEF ApplySync
<1>13. ASSUME NEW y \in Syncs, SyncFails(y) PROVE SessionsAreCut'
  BY <1>13 DEF SyncFails
<1>14. ASSUME NEW u \in Users, Dial(u) PROVE SessionsAreCut'
  BY <1>14 DEF Dial
<1>15. ASSUME NEW u \in Users, HangUp(u) PROVE SessionsAreCut'
  BY <1>15 DEF HangUp
<1>16. ASSUME NEW u \in Users, Administer(u) PROVE SessionsAreCut'
  BY <1>16 DEF Administer, Change
<1>17. CASE UNCHANGED vars
  BY <1>17 DEF vars
<1> QED
  BY <1>1, <1>2, <1>3, <1>4, <1>5, <1>6, <1>7, <1>8, <1>9,
     <1>10, <1>11, <1>12, <1>13, <1>14, <1>15, <1>16, <1>17 DEF Next, Work

LEMMA Inductive == Spec => []IInv
<1>1. IInv /\ [Next]_vars => IInv'
  BY TypeStep, SessionStep DEF IInv
<1> QED BY InitHolds, <1>1, PTL DEF Spec

(* Secrets, accounts, services, requests and readings keep their types.    *)
THEOREM Typed == Spec => []TypeOK
<1>1. IInv => TypeOK
  BY DEF IInv
<1> QED BY <1>1, Inductive, PTL

(* SetSecretDisabled: a session of a disabled secret is about to be cut or *)
(* was spared by an error or by the administrator, whatever interleaves.   *)
THEOREM SessionsEndWithAccess == Spec => []SessionsAreCut
<1>1. IInv => SessionsAreCut
  BY DEF IInv
<1> QED BY <1>1, Inductive, PTL
=============================================================================
