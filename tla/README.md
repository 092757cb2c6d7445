# AWGRevBILL: specifications and proofs

AWGRevBILL is a multi-tenant billing and network-management system for internet providers:
a Go API over PostgreSQL with a Next.js frontend. It keeps customers, services, invoices and
payments, switches PPPoE access on a MikroTik router, and reads and configures ZTE OLTs over
SNMP and over their CLI (SSH or telnet).

The TLA+ modules here model the parts of it in which several requests, goroutines or devices
meet. TLC checks small instances of them; TLAPS proves the properties marked *proved* for all
values of the constants. `PROJECT.json` says which lines of the source each definition stands
for, which run checks what, which bug in a definition each property catches, and what the runs
refuted.

    tlc -workers 2 -config CliSessions.cfg CliSession     # one run
    tlapm CliProofs.tla                                   # one module of proofs

## Inventory

| Component | State | Operations | Meets | What is hard |
|---|---|---|---|---|
| Invoices and payments (`internal/postgres/billing_repository.go`, `payment_repository.go`) | `invoices`, `payments`, `payment_allocations`, `tenant_counters` | generate a period, void an invoice, pay, void a payment | each other, through row locks and READ COMMITTED snapshots; services (candidates) | statements that wait for a lock and then use what they read before; numbers; several statements that must all hold |
| Services and PPPoE access (`internal/router`, `router_repository.go`, `subscription_repository.go`, `httpapi/catalog.go`) | `services.status`, `pppoe_accounts`; secrets and sessions on the router | create, isolate, restore, archive, sync | the router, billing | two systems and no transaction over both; stale readings; lost answers |
| OLT CLI sessions and rate limit (`internal/ztecli`, `withCLISession`) | a mutex and a throttle per OLT | acquire, connect, execute, execute a sequence, release | everything that uses the CLI | contexts that end while a goroutine waits for the mutex; SSH calls without a deadline; pacing, and lines that bypass it |
| ONU configuration and its saved copy (`internal/olt/service.go`, `cli_service.go`) | `olt_onus.detail_config_cache`, `detailFetchInFlight`; the OLT's configuration | open a panel, live sync, force, apply, full sync | CLI sessions; ONU rows | the copy is read in a session and saved after it; four ways to apply; background jobs |
| ONU rows and optical values (`olt_repository.go`, `SyncONUs`, `SyncOpticalFromCLI`, `SyncONULiveByRef`) | `olt_onus` | full, optical and live sync | each other, in overlapping background jobs | rows are replaced as a whole; a status read before an update |
| ONU traffic (`RefreshTraffic`, `UpdateTraffic`, `olt_daily.go`) | octet counters, rates, daily peaks | refresh, history | full sync (which drops the counters) | overlapping refreshes, wrap-around, division by elapsed time |
| ONU provisioning and state (`ProvisionONU`, `ListUnconfiguredONUsBulk`, `ApplyONUConfig`, `AutoConfigONU`, reboot, reset, delete, bounce) | the OLT; ONU rows as the list of taken numbers | suggest a number, register, describe, configure, switch, reboot, delete | CLI sessions; ONU rows; SNMP | goals of several commands; a way that fails and the next that is tried; answers lost after the OLT has obeyed |
| Packages and prices (`plan_repository.go`) | `packages`, `package_prices` | create, change, archive; prices imported by a sync | invoices, router sync | periods that must not overlap, around midnight |
| Customers (`customer_repository.go`) | `customers` | create, archive | services | numbers; archived customers with services |
| Login, sessions, tenants (`internal/auth`, `platform_repository.go`) | `user_sessions`, `login_attempts`, `users`, `tenants` | login, logout, change the password, switch a tenant off | every request | limits counted before they are recorded; revocation |
| Migrations (`cmd/migrate`) | `schema_migrations`, an advisory lock, the runtime role's privileges | lock, verify, baseline, apply, grant | other migrating processes; the API's database role | death between steps; two releases at once |
| MikroTik protocol, SNMP, OID formulas (`internal/mikrotik`, `internal/zte`) | none | encode, decode | devices | boundaries of encodings |
| Reports, dashboard, HTTP server, frontend, scripts | none of their own | read, route, display, install | all | nothing concurrent |

What makes each component correct:

* **Invoices and payments**: numbers without gaps; a checked row stays as it was checked; nothing
  paid on a closed invoice; a void is final; no overpayment; the status says what was paid; no
  request hangs.
* **Access**: an isolated customer's session ends; router and billing agree in the end; nobody has
  unbilled access by mistake.
* **CLI**: one session per OLT; a lock comes back but from calls that gave up or hang; commands that wait
  their turn are spaced.
* **Saved configuration**: a fresh copy is recent; a panel catches up; one background job per OLT; a
  change that was reported is shown.
* **ONU rows**: a row goes only with its ONU; an offline ONU has no optical power but for known
  reasons; rows follow the OLT.
* **Traffic**: a rate is what was carried between two samples; the peaks cover the rates.
* **Provisioning and state**: a number is offered once; success means done; a reset does not leave an
  ONU off without saying so; a description stands on the ONU it was written for.
* **Migrations**: each file takes effect once and is recorded as what ran; success means that the
  database is that of the release; no run blocks the next one.
* **Prices**: at most one price per package and day. **Login**: the limit holds; a revoked session
  stays revoked.

## Modules

### InvoiceLedger, Ledger, MCInvoiceLedger, InvoiceLedgerProofs

`InvoiceLedger` has one session per database connection (`Tx`) and models the transactions
`Generate`, `Void` (invoice), `Create` and `Void` (payment) statement by statement. A statement that
waits for a row lock is two steps: the snapshot it reads in, and the moment it gets the lock, after
which PostgreSQL re-reads the columns of the locked row but not the sum of a subquery. Writes become
visible at the commit, with which the last step of each transaction is joined. Any transaction may
abort at any step.

`Ledger` is what billing promises: issue, receive, take back and cancel, each in one step on current
figures. With one connection `InvoiceLedger` implements it (`ImplementsLedger`, by the refinement
mapping at the end of `InvoiceLedger`), and with more as long as no two open requests name the same
invoice (`OneRequestPerInvoice`); otherwise it does not, in the ways described under *Findings*. Nothing
in the program keeps two requests off one invoice, so what is said under that condition is what a clerk
may rely on who is alone with a customer, not what the program guarantees.

| Run | Shows | Bounds |
|---|---|---|
| `ledger_concurrent` | with two connections and every request: gap-free numbers, locks held exactly where needed, checks that stay true, candidates not billed twice, no payment on a closed invoice, voids that are final, requests that end | 2 services, 1 period, 2 payments of 1 or 2 on totals of 2: an invoice can be left partial, settled or overpaid, and every pair of transactions meets on one row and on one counter |
| `ledger_serial` | while no two open requests name the same invoice (a CONSTRAINT): statuses match payments, no overpayment, no void invoice with payments, refinement of `Ledger` | 2 connections, 2 periods, one of them free of charge, 3 payments; payments, voids and generates still interleave on different invoices and on the counters |
| `ledger_overpay` | *violated*: two payments pay more than the total | |

Fairness: `SF(Proceed(t))` for every connection. PostgreSQL queues the waiters of a row lock, so a
statement that can get its lock again and again gets it; and requests are not held by the program
otherwise. The clients' requests themselves are not fair.

*Proved* (`InvoiceLedgerProofs`), for any connections, services, periods, amounts and totals:
`TypeOK`, `NumbersGapFree`, `LocksMatchSteps /\ ChecksStayTrue`, `CandidatesStayUnbilled`,
`ClosedTakesNoPayment`, `VoidIsFinal`. The inductive invariant `LedgerInvariant` adds to these that
posted payments name issued invoices (`ForeignKeys`) and that the numbers a `Generate` has given to
invoices it has not committed are the next ones of the counter (`DraftsNumbered`): without the
latter, gap-freedom is not inductive, since a commit publishes a whole batch. The proof shows first
what a step of one transaction does to the tables (`TablesMoveOn`), then that it cannot disturb what
another one has checked.

*Proved* under `[]OneRequestPerInvoice`, for any number of connections: `StatusMatchesPayments`,
`NoOverpayment`, `VoidHoldsNoPayment` and the refinement, `ImplementsLedger`; the last also with one
connection and no condition (`OneConnectionImplementsLedger`). `SerialInvariant` adds to
`LedgerInvariant` the books themselves and, for each open request, that the payments it has read are
those now posted on its invoice and that what it is about to pay is still owed (`SessionsCurrent`): this
is what a second request on the same invoice would break between a statement's snapshot and its lock.
The sums of payments are recursive over sets. That their recursive definition has a solution, that it
does not depend on which payment is taken first, and that one more payment adds its amount are proved by
a smallest counterexample (`SmallestSet`, from the library's theorem that `<` is well-founded), since
the induction theorems themselves take an operator as a parameter, which the provers cannot instantiate.
The refinement is then one lemma for each step of `Ledger` (`AtomicReceive`, `AtomicTakeBack`,
`AtomicCancel`, `AtomicIssue`) and stuttering for every other statement.

### CliSession, CliThrottle, CliProofs

`Acquire` starts a goroutine that locks the OLT's mutex and then tells the call; the call waits for
that or for its context. `helper` is the goroutine, `step` the call; they part ways when the context
ends first. `withCLISession` then connects, runs and closes. Over SSH neither the handshake nor
`CombinedOutput` has a context or a deadline, so a call may hang there for good (`Hang`, for the OLTs in
`Ssh`); over telnet every dial and read has a timeout.

| Run | Shows | Bounds |
|---|---|---|
| `cli_sessions` | one session per OLT, the lock is held for the call whose goroutine took it, a waiting call ends, and a lock comes back, except for what a call that gave up or one that hangs in SSH keeps from them: an impatient call ends even then, and over telnet only a call that gave up can keep a lock | 3 calls on 2 OLTs, one of them reached over SSH, 2 calls impatient: a queue of two behind a holder, a patient call behind an impatient one, both behind one that hangs |

Fairness: a goroutine queued on a Go mutex is handed it in starvation mode, so `SF(HelperLocks)`;
contexts end, and the steps of a call that does not hang are taken, so `WF`. A call that hangs has no
step to take, and `Hang` itself is never required to happen or not to.

*Proved*: `OneSessionPerOlt`, `LockFollowsHelper`, for any calls and OLTs. The invariant needs that a
call that is about to connect already holds the lock through its goroutine, and that a goroutine
knows its OLT.

`CliThrottle` is `oltThrottle.wait` and its callers: `Execute`, and `ExecuteSequence` over SSH, which
makes all its waits first and then writes its commands 80 ms apart. Not every line an OLT is sent waits
its turn: `Execute` over SSH sends a command whose exec printed nothing once more through a shell
(`Resend`), with `terminal length 0` before it and `exit` after it, and a sequence is surrounded by the
same two lines (`OpenShell`, `SequenceExit`). `sent` remembers of each line whether it waited (`single`,
`seq`) or not (`free`), and how many waits had been made by then (`paid`). Time is counted in ticks of
40 ms; the gap of 120 ms and the pace are to scale, the 250 ms before a shell is written to are
shortened, the minute and the quota are scaled down so that a run sees several windows.

| Run | Shows | Bounds |
|---|---|---|
| `cli_pacing` | commands that waited are a gap apart, whatever is resent between them; no two lines that waited, of sequences too, are closer than the shell's pace or the gap; all lines live on waits: a minute sees at most two quotas of these, and without a sequence no wait stands for more than four lines | gap 3, pace 2, settle 4, jitter 1, quota 2, minute 10, sequences of 2, horizon 21: two full windows and the start of a third; the minute is longer than the gap times the quota, so that the last property does not follow from the gap |

The window is fixed, not sliding: a minute across its end can see up to twice the quota. A sequence is
faster than the gap, and the lines nobody waited for come at any distance from their neighbours. The
properties say what does hold.

*Proved*: `ThrottleTypeOK`, `SpacedCommands`, `NeverFasterThanPace`, `TwoWindowsPerMinute`, for any gap,
pace, settling time, jitter, quota and minute. The invariant relates the last command that waited to
`lastCommand` (`LastIsRecent`), with the waits still to be made in between (`SequenceIsApart`). For the
windows it counts waits (`WindowsCount`): a line with `windowCount` waits or more after it is no later
than `windowStart`, and one with a quota more is over a minute before it. So a line that twice the quota
of waits follow is out of the minute whenever the next is sent; a wait that does not end in a command
only counts more. `FewLines` bounds the lines one wait may stand for.

### OnuDetail, MCOnuDetail, OnuDetailProofs

One OLT, the configuration of its ONUs and the saved copies. Each goroutine that saves is a `job`:
a background fetch, a forced read, or an apply by one of its three ways. `config` counts the changes
of an ONU; a copy carries the count it was read at and how long that has not been the OLT's. Contexts
are `Timeout` ticks long; a copy counts as fresh for `Lifetime` ticks. A full sync is modelled by
what it does to the copies, and rows are assumed to exist (saving to an absent one changes nothing).
With `Ssh`, a goroutine in a CLI session may hang there for good, its context notwithstanding (`Hang`):
the probes run in `CombinedOutput`. It then keeps the OLT's only session (`Jammed`), and, if it is the
background job, `detailFetchInFlight` as well.

| Run | Shows | Bounds |
|---|---|---|
| `onu_detail_copies` | one background job per OLT and its key is held exactly while it runs; a fresh copy is at most a lifetime and a timeout behind the OLT; a background job ends unless it is the goroutine that hangs; panels catch up unless some goroutine hangs in the CLI | 2 ONUs (one changes, one competes for the OLT's job), 2 goroutines, SSH, lifetime 2, timeout 1: enough for a late saver to cross an apply, a full sync, an expiry and a hanging session (107,000 states) |
| `onu_detail_shown` | *violated*: a copy from before a reported change is shown | 1 ONU, 2 changes, telnet |

Fairness: time passes, and a goroutine that does not hang runs on: while it waits for the CLI its
context ends it (`WF`). That panels are opened again and that a CLI read succeeds now and then (`SF`) is
asked of users and devices; only `PanelsCatchUp` needs it. A hanging goroutine is not fair at all.

*Proved*: `TypeOK`, `OneFetchPerOlt`, `FreshIsRecent`. `FreshIsRecent` is not inductive: what keeps it
is `ReadIsRecent`, that the reading a goroutine holds is no staler than the goroutine is old, while
its context still allows a save.

### OnuRows, OnuRowsProofs

The rows of one OLT: which ONUs there are, their status, and whether a power is stored. Four writers:
a full sync, which walks the SNMP tables one after the other and then replaces all rows in one
transaction; optical passes (the tail of a full sync, and one for each key in `Own`: the program has
two, that of `syncOpticalONUS` and that of `internalSyncOptical`), which list
the rows once, read the powers in a batch for each port and then store ONU by ONU, the store itself
being a SELECT and an UPDATE (the field `lit` remembers the ONUs a pass may have read up); and
`Writers`, each a live sync or a CLI refresh that stores what it has read at any later time. The
statuses a row can have are taken together by what the code distinguishes: *online* allows a power,
*offline* does not, *unknown* is no answer. An `UPDATE` that waits for the replacing transaction finds
its row deleted; it is as if it had run before.

| Run | Shows | Bounds |
|---|---|---|
| `onu_rows` | a row goes only if its ONU was off the OLT while the sync ran (or the ONUs had to be listed by the serial tables, whose errors are not looked at), and the table never becomes empty; a power without a link comes from a full sync or from the two statements of an optical pass and nothing else; statuses become true once links are still | 2 ONUs, one without a position on the OLT, 1 late writer, 1 link change, 1 incomplete walk: enough for a link change between any two readings and for a late writer to cross a sync and both passes |

No fairness is assumed. That full syncs go through again and again is the premise of
`StatusesConverge`: only users start them, and a pass at the end of one that hangs in SSH keeps the next
from starting. The run has one pass under a key of its own; with both, its states are too many for the
bounds. The passes of the two keys are the same code and store no status.

*Proved*: `TypeOK`, `RowsGoOnlyWhenGone`, `GhostsHaveTwoSources`, for any ONUs, keys, writers and bounds. The
invariant needs `ListIsWhole`: what a sync has listed so far is not empty and, by name, is all but the
ONUs that were gone since it began.

### OnuTraffic, MCOnuTraffic, OnuTrafficProofs

Refreshes read the octet counters table by table (the private one, the interface one, the CLI) until
one is usable, compare each with the reading in its row, store both, and copy the rates into the peaks
of the day. `carried` is what went over the line, which nobody sees; the counter is that since the last
reset, modulo its width. A reading remembers which counter it is of (`of`), and it is not always the
ONU's: when the index of an ONU begins with the number of its port (`Numbered`), the interface table is
read by that number and gives the counter of the whole port; a label is looked up only for the others. A
direction that is missing is stored as 0 when the other one is there, which is the reading of no counter
(`"none"`). Refreshes overlap, since the places that start one do not share a key; a full sync replaces the rows under them; a counter that does not fit the column ends the
refresh in which it is read. `deltaBps` works in 64 bits whatever the width of the counter: `Wide` and
`Narrow` stand for 2^64 and 2^32.

| Run | Shows | Bounds |
|---|---|---|
| `onu_traffic` | a stored rate is what one counter counted between its two readings, even across a wrap, unless they are of two counters or of none, the counter was reset, the readings crossed or one is of 32 bits; when no refresh is at work and none ended half-way, the peaks of the day cover every rate shown | 1 ONU and its port, 2 refreshes, 2 tables; 64-bit counters of 4 values, 32-bit ones of 2, a column of 2; 2 octets, 3 updates, 1 full sync or reset (`MaxEvents`): a wrap, a value beyond the column, a crossing, a reading of another counter and a replaced row all happen (6.5 million states) |

Refreshes are interchangeable (`SYMMETRY` in `MCOnuTraffic`); the run has no temporal property but one
about single steps.

*Proved*: `TypeOK`, `RatesAreTrue`, for any ONUs and ways of numbering them, refreshes, tables, widths and bounds, and on the way
`DeltaExact`, that the difference `deltaBps` computes from two counters is the number of octets between
them as long as there are fewer than the counter can tell apart. The invariant `ReadingsShow` says that
every reading of a counter, in a row or in a refresh, shows a total that was carried for the ONU or for
its port, modulo its width. Also proved:
`PeaksCoverRates`, which speaks of the times when no refresh is at work. Its invariant speaks of all
times (`PeaksOnTheirWay`): a rate in a row that is above the peak of the day is on its way, in a refresh
that is still storing rows, or that has yet to do this ONU's peak and holds a rate not below the row's. That two refreshes may overlap is why the latter compares, and does not say *equal*. No fairness
is stated: the module has no liveness property, since a refresh that stops half-way is tolerated.

### OnuCommands, MCOnuCommands, OnuCommandsProofs

One PON port and the requests that change its ONUs. Each request is a plan of goals (`Plans`): a
provisioning registers and describes, a reset switches off and on, `auto_config_onu` sets five items. A
goal is sent over SNMP, over the CLI, or over the CLI when SNMP did not work (`Ways`). Of what an ONU is
configured with, the model keeps what a probe must show: the VLANs of a service port (`vlan`) and whether
a WAN address has any line (`wan`). Over the CLI a
goal has *bodies* (alternative syntaxes) and each body has *sequences* (alternative preambles); a
rejected sequence is followed by the next one, a failed body by a session of its own, except that
`ProvisionONU` keeps one session for both of its bodies. Some goals are read back (`Probed`), and what
they pass on is looser than what was asked (`Confirms`): a service port passes on its number and VLANs,
since any other field counts only when it is shown, and a WAN address passes on any line with its number
that contradicts nothing, so also on one its options made alone. What is found may be the work of
another request, or have been there before (`Before`). Every
attempt may fail before or after the OLT has obeyed; a refusal may be taken for success, which
`misread` and `ignored` remember. Sessions exclude each other (`lock`, what `CliSession` shows); SNMP
excludes nobody.

| Run | Shows | Bounds |
|---|---|---|
| `onu_commands` | an ONU that a reset switched off is off only while a reset is at work, or a failure was reported, or the OLT refused without being noticed; a description stands on the ONU it was meant for, even when the number is given away meanwhile; success means that every goal was met, except for refusals not noticed, that the OLT had the VLANs asked for a service port, and some line of a WAN address; no number is offered twice or while it has a row | 2 serial numbers on 2 ONU numbers, 2 VLANs, 2 requests at a time and 3 in all, 2 preambles, 1 refusal not noticed, lists of 3 lines: any two requests cross on one ONU, with a third before or after them (2.8 million states) |

The run tries one syntax of an item (`Candidates = 1`); a further one repeats the same body in another
session, and the proofs are for any number of them. Serial numbers, requests and VLANs are interchangeable (`SYMMETRY`); the run has no temporal property, and no
fairness is stated.

*Proved* (`OnuCommandsProofs`), for any ONU numbers, serial numbers, requests, syntaxes, preambles and
lists of any length: `TypeOK`, `ResetsComeBack`, `OwnDescriptions`, `SuccessMeansDone`,
`OffersAreApart`. Of the constants only `CommandConstants` is assumed: counts are numbers, and a body and
a sequence are tried at least once. The argument has four parts.

* *Plans.* The table of plans is taken apart once (`PlansGood`): an item that must be read back is
  followed, in its own plan, by a goal whose probe shows it; a reset ends with `on`; only a provisioning
  registers and describes.
* *A request by itself* (`Whole`). It is idle, or over with all it has achieved, or at a goal of its
  plan with every earlier goal met, ignored or misread, and read back where its probe does so
  (`Settled`). That some line of a WAN address was there follows only at the end of the plan, from the
  probe of its options; `SuccessMeansDone` is not inductive for that reason.
* *Requests and the OLT.* The lock is the session's (`HoldsLock`), and a provisioning about to describe
  still finds the ONU it has registered (`HasRegistered`), because it keeps its session and nothing but a
  session registers or removes. A step is `Sound` for its own request and ONU, one lemma per action;
  `BecomesKeeps` shows once that a sound step keeps the invariant for all the others. When a reset falls
  back from SNMP to the CLI it starts again; that it has not given up is what keeps `ResetsComeBack`.
* *Offers.* The list is a fold over its lines. The fold is shown to exist, line by line, and each
  `Suggest` keeps the list fair (`Fair`: `OffersAreApart`, and a serial number not named has no number);
  a least line after which it were not fair is a contradiction.

### ServiceAccess, ServiceAccessProofs

Secrets and sessions on the router; accounts and services in billing; requests to isolate or restore
in the steps the code takes (read the account, set the secret, end the sessions, change the status);
syncs that read and later apply; the administrator who changes secrets by hand. A request can fail
at each step, also after the router has acted. `ApplySync` is one step: its first statements lock
the package rows that every concurrent sync also upserts, and nothing else writes accounts.
`ProvisionPPPoE` is left out: it returns before it touches the router unless
`package_router_profiles` has rows, and no code of the repository writes that table.

| Run | Shows | Bounds |
|---|---|---|
| `service_access` | a session of a disabled secret is about to be cut or was spared by an error or the administrator; syncs bring account ids and statuses back to what the router says | 1 secret and 1 service without one, 2 requests, 2 syncs, 2 changes by hand: requests cross each other, a stale reading crosses both, a secret is removed and added under a new id. Users do not interact but through syncs, which treat each alike |

Fairness: requests and syncs end (`WF`); somebody syncs again and again, and it succeeds now and
then (`WF`, `SF`). Nothing in the program syncs by itself, so `SyncReconciles` says what syncing is
good for, not that it happens.

*Proved*: `TypeOK`, `SessionsAreCut`, for any users, services, requests and syncs.

Archived services are exempt from `SyncReconciles` because the code exempts them: archiving leaves
the secret enabled and syncs skip the service. A secret that was deleted on the router is not in a
reading at all, so its service stays active and is billed; nothing in the repository says otherwise.

### Migrations, MCMigrations, MigrationsProofs

`cmd/migrate` from its start to its exit, in any number of processes, each from the files of its own
release: the advisory lock, the comparison with `schema_migrations`, the baseline of rows from before
checksums were kept, each file in a transaction with its record, the statements of
`grantRuntimePrivileges` that concern tables, each committed on its own (seven on the tables there are,
and the default privileges of those to come), and the deferred unlock, which a `log.Fatal` skips. A
process dies at any step, between the commit and its answer too (`CommitUnseen`); the server ends the
session, and with it the lock, later. `ran` is the history of the SQL that took effect.

A table belongs to a class, the lists that name it. `login_attempts` is a class of its own, since its
INSERT is granted and its UPDATE is not revoked, and so are the tables no list names. What the default
privileges gave a table of these two classes when it was created (`primed` remembers which tables were
given them) is never taken back, except for DELETE; with today's files all of them come from the first
one, before any default privileges are set, but the model lets a later file create them too.

| Run | Shows | Bounds |
|---|---|---|
| `migrations` | a file takes effect once and is recorded as what ran; what a run has verified stays so until it ends; a run that succeeds leaves the database of its release and, on each table, the privileges that the lists name, with what they leave of the default ones, whatever an earlier run left half-way; every run ends and gives the lock back | 2 processes, 3 runs, 3 files, 3 releases (one older, one with an edited file), a database in which an older program may have applied the first files, a table of each class, the last three of them in a file that may come before or after a first success |

Fairness: a live process goes on (`WF(Works)`), its wait for the lock ends after two minutes (`WF` of
`LockTimeout` while it waits), and the server notices a closed connection (`WF(SessionEnds)`). The last
is what gives back the lock of a run that died: `EveryRunEnds` shows that nothing in the program keeps it
longer.

*Proved*: `AppliedOnce`, `VerifiedStaysTrue`, `SuccessMeansReady`, for any processes, files, releases
and tables. The invariant: only the holder of the lock is past `waiting` (`OneHolder`); its release is
known and its list of files is untouched until it verifies; the files it has passed are recorded
(`AppliedSoFar`); after *n* statements the privileges are those of the first *n* (`GrantedSoFar`); and
what no statement is about is as the table was created (`KeptAsCreated`).

What the model makes visible: a table of the kind of `login_attempts`, or one no list names, created
after a first success keeps UPDATE (and, in no list, INSERT) for the runtime role; the baseline accepts whatever content the release has for a row without
a checksum, so `AppliedOnce` can say nothing about what such a file contained; between the `REVOKE
DELETE` on all tables and the `GRANT` for the tables of devices, which are separate transactions, an API
that is still running has no `DELETE` on these; and a roll-back to a release without a file that was
applied is refused by the verification.

## Findings

Two runs end in a violation, each of something a comment or a message of the repository says; the
statements are quoted in `PROJECT.json`.

1. Two payments at a time can exceed the outstanding amount (`payment_repository.go:68`,
   `ledger_overpay`).
2. A change applied over SNMP is not shown until the saved copy expires (`cli_service.go:2782`,
   `onu_detail_shown`).

The models also show the following, for which no run is kept. The first three are the same stale sum as
in finding 1, or its neighbours, and are why `VoidHoldsNoPayment` and `StatusMatchesPayments` are
stated for requests that do not meet on one invoice.

* An invoice can be voided while a payment of it commits (`billing_repository.go:374`).
* Voiding a payment can leave the invoice with the wrong status (`payment_repository.go:165`).
* Generating a period again fails as a whole after one of its invoices was voided: the void invoice is
  a candidate again and still occupies the unique key (`billing_repository.go:184`).
* A CLI call that gives up may leave the OLT locked until the process restarts: its goroutine gets the
  mutex later and nobody unlocks it (`ztecli/client.go:235`); so may one that hangs in SSH, where
  `CombinedOutput` has no deadline (`ztecli/client.go:373`). `LockComesBackUnlessStuck` names both
  exceptions, `FetchComesBack` and `PanelsCatchUp` what the second means for the saved configurations.
* Over SSH a command whose exec printed nothing is sent a second time, through a shell and without
  waiting its turn (`ztecli/client.go:376`): it may run twice, and reaches the OLT at any distance from
  the first. `SpacedCommands` speaks of the commands that waited only.
* An ONU whose index begins with the number of its port is given the rate of the whole port when the
  interface table is used (`olt/service.go:1335`), and a direction without a counter is stored as 0, so
  that the rate after it takes a whole counter for traffic (`olt/service.go:1317`). `RatesAreTrue` says
  what a rate is a rate of.
* A WAN address the OLT refused counts as set once its options made a line (`olt/cli_service.go:3045`),
  and a service port whose mode or description it refused once its VLANs are there
  (`olt/cli_service.go:2981`). `SuccessMeansDone` says what is known of them.
* `SetONUAdmin` and `ResetONU` do not look at the error status of the SNMP response
  (`zte/client.go:756`), so a refused switch or reboot is answered as success and the CLI is not tried
  (`olt/service.go:615`, `647`). `SuccessMeansDone` names the exception (`ignored`).
* A 32-bit counter that wraps is taken for a 64-bit one, whose difference is far too large; the
  comment at `zte/client.go:1050` leaves the wrap to the SQL, which knows one width only.
  `RatesAreTrue` names the exception.

## What is not proved, and what is not modelled

Only model-checked:

* liveness (`EveryRequestEnds`, `EveryCallEnds`, `LockComesBackUnlessStuck`, `FetchComesBack`,
  `PanelsCatchUp`, `StatusesConverge`, `SyncReconciles`, `EveryRunEnds`), which needs `ENABLED`, out of
  the prover's reach.

Every invariant and action property of the passing runs is proved; those of `ledger_serial` under the
condition of that run, without which `ledger_overpay` refutes `NoOverpayment`.

Induction over data has the form of a least counterexample where it is used (sums of payments, lists of
offers): the library's induction theorems take an operator as a parameter, which is out of the provers'
reach. No module declares a `RECURSIVE` operator: sums are recursive functions, and lists are folds of the
community modules, which are recursive functions too.

Not modelled:

* packages, price periods and customers (`plan_repository.go`, `customer_repository.go`): the ledger
  takes the amount of a service as given. Two changes of a package around midnight are a hazard without a
  property;
* login, sessions and tenants: every other component takes as given that a request acts for one tenant;
* the first administrator, a program that runs once under an advisory lock;
* the bytes of SNMP, SSH, telnet and the MikroTik API, and their parsing; the formulas that turn an
  index into a port and an ONU number. What a parser may make of an answer is a choice of the models;
* reports, lists and the dashboard; HTTP routing and permissions; the encryption of stored passwords;
  names, addresses and descriptions (but for whose ONU a description stands on); tax and rounding (an
  invoice has a total); the frontend and the scripts.

## Plan

Done: `InvoiceLedger` with `Ledger`; `CliSession`, `CliThrottle`; `OnuDetail`, `ServiceAccess`;
`OnuRows`, `OnuTraffic`, `OnuCommands`, `Migrations`; all with proofs of their safety properties.

To come, in this order:

1. Theorems about `Ledger` alone, from which those of `ledger_serial` would follow by the refinement; and
   what `InvoiceLedger` still guarantees of the sums when payments, but no voids, meet on one invoice; and
   the order in which transactions wait for locks, the part of `EveryRequestEnds` that is an invariant.
2. `PackagePrices`: price periods under plan changes and syncs around midnight; it joins `ServiceAccess` (sync) and feeds `InvoiceLedger` (totals).
3. `OnuIndex`: the formulas between SNMP indexes, interface names and positions, against a reference
   definition over bounded inputs, and that two ONUs never share an index; the length encoding of the
   MikroTik protocol.
4. `AuthSessions`: login limits, password change, revocation, tenants.
