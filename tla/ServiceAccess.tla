--------------------------- MODULE ServiceAccess ---------------------------
(***************************************************************************)
(* Who may use the network and what billing thinks of it.  Access is a     *)
(* PPPoE secret on the tenant's MikroTik; billing has a services row and,  *)
(* for a secret that was imported, a pppoe_accounts row with the secret's  *)
(* id on the router.  No transaction spans the two: a request to isolate   *)
(* or restore changes the router, then billing; SyncPPPoE reads the router *)
(* and applies later what it has read; the administrator of the router     *)
(* changes secrets by other means.                                         *)
(*                                                                         *)
(* The router is configured and every secret has a profile that is         *)
(* imported.  A service is named by the username of its account: ApplySync *)
(* is the only code that links one, and a concurrent ApplySync waits for   *)
(* the package rows that the first has upserted.                           *)
(***************************************************************************)
EXTENDS Naturals

CONSTANTS
  Users,       \* PPPoE usernames
  Unlinked,    \* services that were created in billing and have no account
  Requests,    \* requests to isolate or to restore a service, each made once
  Syncs,       \* clients that sync again and again
  MaxChanges   \* bounds what the administrator does on the router

ASSUME AccessConstants ==
  /\ Users \cap Unlinked = {}
  /\ MaxChanges \in Nat

VARIABLES
  secret,      \* /ppp/secret of the router
  online,      \* the users with a session in /ppp/active
  spared,      \* the users whose session outlived the end of their access,
               \* because of an error or of the administrator
  account,     \* pppoe_accounts.external_id, 0 where there is no account
  service,     \* services.status, "none" where there is no row
  request,     \* what each request is doing
  sync,        \* what each SyncPPPoE has read
  changes      \* how often the administrator has changed a secret

vars == <<secret, online, spared, account, service, request, sync, changes>>

Services == Users \cup Unlinked
Secret   == [there : BOOLEAN, id : Nat, disabled : BOOLEAN]
Request  == [kind : {"isolate", "restore"}, service : Services, id : Nat,
             step : {"asked", "disabled", "told", "done"}]
NotMade  == [step |-> "new"]
Nothing  == [step |-> "idle"]
Read     == [step : {"read"}, secrets : [Users -> Secret]]

TypeOK ==
  /\ secret \in [Users -> Secret]
  /\ online \subseteq Users /\ spared \subseteq Users
  /\ account \in [Users -> Nat]
  /\ service \in [Services -> {"none", "active", "isolated", "archived"}]
  /\ request \in [Requests -> Request \cup {NotMade}]
  /\ sync \in [Syncs -> Read \cup {Nothing}]
  /\ changes \in 0 .. MaxChanges

(* A router that was in use before its secrets are imported.               *)
Init ==
  /\ secret = [u \in Users |-> [there |-> TRUE, id |-> 1, disabled |-> FALSE]]
  /\ online = {} /\ spared = {}
  /\ account = [u \in Users |-> 0]
  /\ service = [s \in Services |-> "none"]
  /\ request = [r \in Requests |-> NotMade]
  /\ sync = [y \in Syncs |-> Nothing]
  /\ changes = 0

-----------------------------------------------------------------------------
billing == <<account, service>>
router  == <<secret, online, spared, changes>>

(* SubscriptionRepository.Create; no profile is mapped to its package.     *)
Create(s) ==
  /\ service[s] = "none"
  /\ service' = [service EXCEPT ![s] = "active"]
  /\ UNCHANGED <<router, account, request, sync>>

(* Archive asks nothing of the router.                                     *)
Archive(s) ==
  /\ service[s] \in {"active", "isolated"}
  /\ service' = [service EXCEPT ![s] = "archived"]
  /\ UNCHANGED <<router, account, request, sync>>

-----------------------------------------------------------------------------
At(r, step) == request[r].step = step

(* SetSecretDisabled reads the account, whatever the status of the         *)
(* service; without one there is nothing to do on the router.              *)
Ask(r, kind, s) ==
  /\ At(r, "new") /\ service[s] # "none"
  /\ request' = [request EXCEPT ![r] =
       IF s \in Users
       THEN [kind |-> kind, service |-> s, id |-> account[s], step |-> "asked"]
       ELSE [kind |-> kind, service |-> s, id |-> 0, step |-> "told"]]
  /\ UNCHANGED <<router, billing, sync>>

IsTarget(r) == LET u == request[r].service IN secret[u].there /\ secret[u].id = request[r].id
Sets(r)     == secret' = [secret EXCEPT ![request[r].service].disabled =
                                          request[r].kind = "isolate"]
Moves(r, step) == request' = [request EXCEPT ![r].step = step]

\* Bug: the sessions of a disabled secret are not looked for.
SetSecretOnly(r) ==
  /\ At(r, "asked") /\ IsTarget(r)
  /\ Sets(r)
  /\ Moves(r, "told")
  /\ UNCHANGED <<online, spared, changes, billing, sync>>

SetSecret(r) ==
  /\ At(r, "asked") /\ IsTarget(r)
  /\ Sets(r)
  /\ Moves(r, IF request[r].kind = "isolate" THEN "disabled" ELSE "told")
  /\ UNCHANGED <<online, spared, changes, billing, sync>>

(* The router cannot be reached or does not know the id.                   *)
RouterFails(r) ==
  /\ At(r, "asked")
  /\ Moves(r, "done")
  /\ UNCHANGED <<router, billing, sync>>

(* The router has done it and the answer is lost.                          *)
AnswerLost(r) ==
  /\ At(r, "asked") /\ IsTarget(r)
  /\ Sets(r)
  /\ spared' = spared \cup
       IF request[r].kind = "isolate" THEN {request[r].service} \cap online ELSE {}
  /\ Moves(r, "done")
  /\ UNCHANGED <<online, changes, billing, sync>>

CutSessions(r) ==
  /\ At(r, "disabled")
  /\ online' = online \ {request[r].service}
  /\ spared' = spared \ {request[r].service}
  /\ Moves(r, "told")
  /\ UNCHANGED <<secret, changes, billing, sync>>

(* Errors of the print and of the removals are ignored.                    *)
SpareSessions(r) ==
  /\ At(r, "disabled")
  /\ spared' = spared \cup ({request[r].service} \cap online)
  /\ Moves(r, "told")
  /\ UNCHANGED <<secret, online, changes, billing, sync>>

From(kind) == IF kind = "isolate" THEN "active" ELSE "isolated"
To(kind)   == IF kind = "isolate" THEN "isolated" ELSE "active"

(* Isolate and Restore of the repository; a service in another status      *)
(* stays as it is and the request is refused.                              *)
Finish(r) ==
  /\ At(r, "told")
  /\ service' = [service EXCEPT ![request[r].service] =
       IF @ = From(request[r].kind) THEN To(request[r].kind) ELSE @]
  /\ Moves(r, "done")
  /\ UNCHANGED <<router, account, sync>>

(* The client has gone or the database fails, after the router was told.   *)
FinishFails(r) ==
  /\ At(r, "told")
  /\ Moves(r, "done")
  /\ UNCHANGED <<router, billing, sync>>

-----------------------------------------------------------------------------
(* SyncPPPoE prints the secrets, then ApplySync is one transaction.        *)
SyncReads(y) ==
  /\ sync[y] = Nothing
  /\ sync' = [sync EXCEPT ![y] = [step |-> "read", secrets |-> secret]]
  /\ UNCHANGED <<router, billing, request>>

Imported(disabled) == IF disabled THEN "isolated" ELSE "active"

\* Bug: a service is isolated with its secret but never restored with it.
AlignedOneWay(status, disabled) ==
  CASE status = "none" -> Imported(disabled)
    [] status = "active" /\ disabled -> "isolated"
    [] OTHER -> status

(* A new secret becomes a service; alignServiceStatus makes a service that *)
(* is not archived follow its secret.                                      *)
Aligned(status, disabled) ==
  CASE status = "none" -> Imported(disabled)
    [] status \in {"active", "isolated"} -> Imported(disabled)
    [] OTHER -> status

(* Secrets the router no longer has are not looked for.                    *)
ApplySync(y) ==
  /\ sync[y] # Nothing
  /\ LET seen == sync[y].secrets IN
       /\ account' = [u \in Users |-> IF seen[u].there THEN seen[u].id ELSE account[u]]
       /\ service' = [s \in Services |->
            IF s \in Users /\ seen[s].there THEN Aligned(service[s], seen[s].disabled)
            ELSE service[s]]
  /\ sync' = [sync EXCEPT ![y] = Nothing]
  /\ UNCHANGED <<router, request>>

SyncFails(y) ==
  /\ sync[y] # Nothing
  /\ sync' = [sync EXCEPT ![y] = Nothing]
  /\ UNCHANGED <<router, billing, request>>

-----------------------------------------------------------------------------
Dial(u) ==
  /\ secret[u].there /\ ~secret[u].disabled /\ u \notin online
  /\ online' = online \cup {u}
  /\ UNCHANGED <<secret, spared, changes, billing, request, sync>>

HangUp(u) ==
  /\ u \in online
  /\ online' = online \ {u} /\ spared' = spared \ {u}
  /\ UNCHANGED <<secret, changes, billing, request, sync>>

(* The administrator switches, removes or adds a secret, the latter under  *)
(* a new id, and leaves its session alone.                                 *)
Change(u, new) ==
  /\ changes < MaxChanges
  /\ changes' = changes + 1
  /\ secret' = [secret EXCEPT ![u] = new]
  /\ spared' = IF new.there /\ new.disabled THEN spared \cup ({u} \cap online) ELSE spared
  /\ UNCHANGED <<online, billing, request, sync>>

Administer(u) ==
  \/ secret[u].there /\ Change(u, [secret[u] EXCEPT !.disabled = ~@])
  \/ secret[u].there /\ Change(u, [secret[u] EXCEPT !.there = FALSE])
  \/ /\ ~secret[u].there
     /\ \E disabled \in BOOLEAN :
          Change(u, [there |-> TRUE, id |-> secret[u].id + 1, disabled |-> disabled])

-----------------------------------------------------------------------------
Work(r) ==
  \/ SetSecret(r) \/ RouterFails(r) \/ AnswerLost(r)
  \/ CutSessions(r) \/ SpareSessions(r)
  \/ Finish(r) \/ FinishFails(r)

Next ==
  \/ \E s \in Unlinked : Create(s)
  \/ \E s \in Services : Archive(s)
  \/ \E r \in Requests :
       \/ Work(r)
       \/ \E kind \in {"isolate", "restore"}, s \in Services : Ask(r, kind, s)
  \/ \E y \in Syncs : SyncReads(y) \/ ApplySync(y) \/ SyncFails(y)
  \/ \E u \in Users : Dial(u) \/ HangUp(u) \/ Administer(u)

Spec == Init /\ [][Next]_vars

(* Requests and syncs end.  That somebody syncs again and again, and that  *)
(* it works now and then, is asked of the users.                           *)
FairSpec ==
  /\ Spec
  /\ \A r \in Requests : WF_vars(Work(r))
  /\ \A y \in Syncs :
       WF_vars(SyncReads(y) \/ ApplySync(y) \/ SyncFails(y)) /\ SF_vars(ApplySync(y))

-----------------------------------------------------------------------------
(* SetSecretDisabled disables before it looks for sessions, so a session   *)
(* that survives its secret is about to be cut, or is known to have been   *)
(* spared: no dial, sync or other request slips one in between.            *)
SessionsAreCut ==
  \A u \in online :
    secret[u].there /\ secret[u].disabled =>
      \/ u \in spared
      \/ \E r \in Requests : At(r, "disabled") /\ request[r].service = u

(* Each secret has an account that will find it, and a service that is not *)
(* archived has the status the router gives it.                            *)
Agree(u) ==
  secret[u].there =>
    /\ account[u] = secret[u].id
    /\ service[u] = "archived" \/ service[u] = Imported(secret[u].disabled)

(* The reason billing and the router may disagree after crossing requests, *)
(* lost answers, stale reads and changes by hand is that syncs reconcile   *)
(* them in the end.                                                        *)
SyncReconciles == <>[](\A u \in Users : Agree(u))
=============================================================================
