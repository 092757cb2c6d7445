------------------------- MODULE OnuCommandsProofs -------------------------
(***************************************************************************)
(* Theorems about OnuCommands for every set of serial numbers and requests *)
(* and every bound.  The inductive invariant says of each request what it  *)
(* has been told so far (Whole): what it has achieved of its plan, which   *)
(* depends on where it stands, and on what a probe must show before it     *)
(* goes on.  A step is sound for the request it takes and for its ONU      *)
(* (Sound), and then keeps the invariant for the others (BecomesKeeps).    *)
(* The list of offers is a fold over its lines; the fold exists, and is    *)
(* fair after each line, by the least line of which that is not so.        *)
(***************************************************************************)
EXTENDS OnuCommands, WellFoundedInduction, TLAPS

USE CommandConstants

(* The plans, one by one, and what they have in common.                    *)
Pairs == {<<"provision", <<"register">>>>, <<"provision", <<"register", "describe">>>>,
          <<"delete", <<"remove">>>>, <<"reboot", <<"restart">>>>, <<"disable", <<"off">>>>,
          <<"enable", <<"on">>>>, <<"reset", <<"off", "on">>>>,
          <<"set", <<"tcont">>>>, <<"set", <<"gemport">>>>, <<"set", <<"service_port">>>>,
          <<"set", <<"wan_ip", "wan_options">>>>,
          <<"unset", <<"no_service_port">>>>, <<"unset", <<"no_wan_ip">>>>,
          <<"auto", <<"tcont", "gemport", "service_port", "wan_ip", "wan_options">>>>,
          <<"list", <<"read">>>>}

LEMMA PlansListed ==
  ASSUME NEW k \in Kinds, NEW p \in Plans[k]
  PROVE  <<k, p>> \in Pairs
<1>1. k \in {"provision", "delete", "reboot", "disable", "enable", "reset", "set", "unset",
             "auto", "list"}
  BY DEF Kinds, Plans
<1>2. CASE k \in {"provision", "delete", "reboot"}
  BY <1>2 DEF Plans, Pairs
<1>3. CASE k \in {"disable", "enable", "reset"}
  BY <1>3 DEF Plans, Pairs
<1>4. CASE k = "set"
  <2>1. p \in {<<i>> : i \in Items \ {"wan_ip"}} \cup {<<"wan_ip", "wan_options">>}
    BY <1>4 DEF Plans
  <2>2. p \in {<<"tcont">>, <<"gemport">>, <<"service_port">>, <<"wan_ip", "wan_options">>}
    BY <2>1 DEF Items
  <2> QED BY <1>4, <2>2 DEF Pairs
<1>5. CASE k \in {"unset", "auto", "list"}
  BY <1>5 DEF Plans, Pairs
<1> QED BY <1>1, <1>2, <1>3, <1>4, <1>5

GoodPlan(k, p) ==
  /\ Len(p) \in Nat \ {0}
  /\ \A i \in 1 .. Len(p) : /\ p[i] = "register" => i = 1
                            /\ p[i] = "describe" => i = 2
                            /\ p[i] \in {"register", "describe"} => k = "provision"
                            /\ k = "provision" => p[i] = IF i = 1 THEN "register" ELSE "describe"
                            /\ k = "provision" => i \in 1 .. 2
                            /\ p[i] = "read" => Len(p) = 1
                            /\ k = "reset" /\ i = Len(p) => p[i] = "on"
                            /\ k = "reset" => p[i] \in {"off", "on"}

LEMMA ConfirmsAre ==
  /\ DOMAIN Confirms = {"service_port", "wan_options"}
  /\ Confirms["service_port"] = "service_port" /\ Confirms["wan_options"] = "wan_row"
  /\ Confirmed = {"service_port", "wan_row"}
  /\ Goals \subseteq Met /\ Confirmed \subseteq Met
BY DEF Confirms, Confirmed, Met

LEMMA PlansGood ==
  ASSUME NEW k \in Kinds, NEW p \in Plans[k]
  PROVE  GoodPlan(k, p)
<1>1. <<k, p>> \in Pairs
  BY PlansListed
<1>2. CASE Len(p) = 1 /\ p \in {<<"register">>, <<"remove">>, <<"restart">>, <<"off">>, <<"on">>, <<"tcont">>,
             <<"gemport">>, <<"service_port">>, <<"no_service_port">>, <<"no_wan_ip">>, <<"read">>}
  BY <1>1, <1>2 DEF GoodPlan, Pairs
<1>3. CASE p \in {<<"register", "describe">>, <<"off", "on">>, <<"wan_ip", "wan_options">>}
  <2>1. \/ k = "provision" /\ p[1] = "register" /\ p[2] = "describe"
        \/ k = "reset" /\ p[1] = "off" /\ p[2] = "on"
        \/ k = "set" /\ p[1] = "wan_ip" /\ p[2] = "wan_options"
    BY <1>1, <1>3 DEF Pairs
  <2>2. Len(p) = 2
    BY <1>3
  <2>3. ASSUME NEW i \in 1 .. 2 PROVE i \in {1, 2}
    OBVIOUS
  <2> QED BY <2>1, <2>2, <2>3 DEF GoodPlan
<1>4. CASE p = <<"tcont", "gemport", "service_port", "wan_ip", "wan_options">>
  <2>1. k = "auto"
    BY <1>1, <1>4 DEF Pairs
  <2>2. Len(p) = 5 /\ p[1] = "tcont" /\ p[2] = "gemport" /\ p[3] = "service_port"
        /\ p[4] = "wan_ip" /\ p[5] = "wan_options"
    BY <1>4
  <2> HIDE <1>4
  <2>3. ASSUME NEW i \in 1 .. 5 PROVE i \in {1, 2, 3, 4, 5}
    OBVIOUS
  <2> QED BY <2>1, <2>2, <2>3 DEF GoodPlan
<1> QED BY <1>1, <1>2, <1>3, <1>4 DEF Pairs

LEMMA PlansTyped ==
  ASSUME NEW k \in Kinds, NEW p \in Plans[k]
  PROVE  p \in Seq(Goals)
<1>1. \A i \in DOMAIN p : p[i] \in Goals
  BY DEF Goals, Range
<1>2. CASE p \in {<<"register">>, <<"remove">>, <<"restart">>, <<"off">>, <<"on">>, <<"tcont">>,
             <<"gemport">>, <<"service_port">>, <<"no_service_port">>, <<"no_wan_ip">>, <<"read">>}
  BY <1>1, <1>2
<1>3. CASE p \in {<<"register", "describe">>, <<"off", "on">>, <<"wan_ip", "wan_options">>}
  BY <1>1, <1>3
<1>4. CASE p = <<"tcont", "gemport", "service_port", "wan_ip", "wan_options">>
  BY <1>1, <1>4
<1> QED BY PlansListed, <1>2, <1>3, <1>4 DEF Pairs

-----------------------------------------------------------------------------
(* What is known of a request: which goals of its plan it has met, or was  *)
(* not told that it has not.  A goal that is read back is met once it is.  *)
Settled(r, k) ==
  \A i \in 1 .. k : /\ r.plan[i] \in r.done \cup r.ignored \cup r.misread
                    /\ r.plan[i] \in DOMAIN Confirms => Confirms[r.plan[i]] \in r.done

Achieved(r) ==
  /\ Range(r.plan) \subseteq r.done \cup r.ignored \cup (r.misread \ {"service_port"})
  /\ "wan_options" \in Range(r.plan) => "wan_row" \in r.done

(* A request at a goal, and one that stands right there.  The description  *)
(* is written in the session of the registration.                          *)
Begun(r) ==
  /\ r.kind \in Kinds /\ r.n \in Numbers /\ r.plan \in Plans[r.kind]
  /\ r.step \in 1 .. Len(r.plan)
  /\ r.kind = "provision" /\ r.step = 2 => r.at = "in"
  /\ Settled(r, r.step - 1)

AtWork(r) ==
  /\ Begun(r)
  /\ r.at \in {"snmp", "cli", "in", "probe"}
  /\ r.at = "snmp" => r.plan[r.step] \in SnmpGoals
  /\ r.at = "probe" => r.plan[r.step] \in Probed \cap (r.done \cup r.misread)

Over(r) == r.at = "ok" /\ r.kind = "list" /\ Achieved(r)

Whole(r) == r = Idle \/ Over(r) \/ AtWork(r)

(* The same request, perhaps later.                                        *)
Same(q, r) == q.kind = r.kind /\ q.n = r.n /\ q.serial = r.serial

LEMMA IdleTyped == Idle \in Request /\ Idle.at = "idle" /\ Idle.kind = "list"
<1>1. "list" \in Kinds
  BY DEF Kinds, Plans
<1>2. <<>> \in Seq(Goals) /\ {} \in SUBSET Goals /\ {} \in SUBSET Numbers /\ {} \in SUBSET Met
  OBVIOUS
<1> HIDE DEF Kinds
<1> QED BY <1>1, <1>2 DEF Idle, Request

LEMMA GoalTyped ==
  ASSUME NEW r \in Request, Begun(r)
  PROVE  /\ r.plan[r.step] \in Goals /\ GoodPlan(r.kind, r.plan)
         /\ r.step \in Nat \ {0} /\ Len(r.plan) \in Nat
<1>1. r.plan \in Seq(Goals) /\ GoodPlan(r.kind, r.plan)
  BY PlansTyped, PlansGood DEF Begun
<1>2. r.step \in 1 .. Len(r.plan) /\ Len(r.plan) \in Nat
  BY <1>1 DEF Begun, GoodPlan
<1>3. r.plan[r.step] \in Goals
  <2> DEFINE p == r.plan
             i == r.step
  <2>1. p \in Seq(Goals) /\ i \in 1 .. Len(p)
    BY <1>1, <1>2
  <2> HIDE DEF p, i
  <2>2. p[i] \in Goals
    BY <2>1
  <2> QED BY <2>2 DEF p, i
<1>4. r.step \in Nat \ {0}
  BY <1>2
<1> QED BY <1>1, <1>2, <1>3, <1>4

LEMMA BodiesTyped ==
  ASSUME NEW k, NEW g
  PROVE  Bodies(k, g) \in Nat /\ Sequences(k) \in Nat
BY DEF Bodies, Sequences

LEMMA ReadyWorks ==
  ASSUME NEW r \in Request, Begun(r)
  PROVE  /\ Ready(r) \in Request /\ AtWork(Ready(r)) /\ Same(Ready(r), r)
         /\ Ready(r).step = r.step /\ Ready(r).misread = r.misread
         /\ Ready(r).at = "in" => r.at = "in"
<1> DEFINE q == Ready(r)
           at == IF r.via # "cli" /\ r.plan[r.step] \in SnmpGoals THEN "snmp" ELSE Session(r)
<1>1. at \in {"snmp", "cli", "in"} /\ (at = "in" => r.at = "in")
      /\ (at = "snmp" => r.plan[r.step] \in SnmpGoals)
  BY DEF Session
<1>2. r.kind = "provision" /\ r.step = 2 => at = "in"
  <2> SUFFICES ASSUME r.kind = "provision", r.step = 2 PROVE at = "in"
    OBVIOUS
  <2>1. r.plan[r.step] = "describe"
    BY GoalTyped DEF GoodPlan, Begun
  <2> QED BY <2>1 DEF SnmpGoals, Session, Begun
<1>3. /\ q.at = at /\ q.kind = r.kind /\ q.n = r.n /\ q.serial = r.serial /\ q.plan = r.plan
      /\ q.step = r.step /\ q.done = r.done /\ q.misread = r.misread /\ q.ignored = r.ignored
  BY DEF Ready, Request
<1>4. q \in Request
  <2>1. Bodies(r.kind, r.plan[r.step]) \in Nat /\ Sequences(r.kind) \in Nat
    BY BodiesTyped
  <2>2. at \in {"idle", "snmp", "cli", "in", "probe", "ok"}
    BY <1>1
  <2> HIDE DEF at
  <2>3. [r EXCEPT !.at = at, !.bodies = Bodies(r.kind, r.plan[r.step]), !.seqs = Sequences(r.kind)]
          \in Request
    BY <2>1, <2>2 DEF Request
  <2> QED BY <2>3 DEF Ready, at
<1> HIDE DEF q, at
<1>5. AtWork(q)
  BY <1>1, <1>2, <1>3 DEF AtWork, Begun, Settled
<1> QED BY <1>1, <1>3, <1>4, <1>5 DEF Same, q

(* What may come of a request after r.                                     *)
Comes(q, r) ==
  /\ q \in Request /\ Whole(q)
  /\ q.at = "in" => r.at = "in"
  /\ AtWork(q) => Same(q, r) /\ q.misread = r.misread
  /\ q.at = "ok" => r.step = Len(r.plan)

LEMMA FailedComes ==
  ASSUME NEW r
  PROVE  Comes(Failed, r) /\ Failed.at = "idle" /\ ~AtWork(Failed)
<1>1. Failed \in Request /\ Failed.at = "idle"
  BY IdleTyped DEF Failed
<1>2. Whole(Failed)
  BY DEF Whole, Failed
<1>3. ~AtWork(Failed)
  BY <1>1 DEF AtWork
<1> QED BY <1>1, <1>2, <1>3 DEF Comes

LEMMA SucceedsOver ==
  ASSUME NEW r \in Request, Begun(r), Settled(r, r.step), r.step = Len(r.plan)
  PROVE  Comes(Succeeds(r), r) /\ Succeeds(r).at = "ok" /\ Succeeds(r).kind = "list"
<1> DEFINE q == Succeeds(r)
<1>1. /\ q.at = "ok" /\ q.kind = "list" /\ q.plan = r.plan /\ q.done = r.done
      /\ q.misread = r.misread /\ q.ignored = r.ignored
  BY DEF Succeeds, Idle
<1>2. q \in Request
  <2>1. /\ r.plan \in Seq(Goals) /\ r.done \in SUBSET Met /\ r.misread \in SUBSET Goals
        /\ r.ignored \in SUBSET Goals
    BY DEF Request
  <2>2. \A i \in Request : [i EXCEPT !.at = "ok", !.plan = r.plan, !.done = r.done,
                              !.misread = r.misread, !.ignored = r.ignored] \in Request
    BY <2>1 DEF Request
  <2> QED BY <2>2, IdleTyped DEF Succeeds
<1>3. GoodPlan(r.kind, r.plan) /\ Range(r.plan) = {r.plan[i] : i \in 1 .. Len(r.plan)}
  <2>1. r.plan \in Seq(Goals)
    BY DEF Request
  <2> QED BY <2>1, GoalTyped DEF Range
<1>4. ASSUME NEW i \in 1 .. Len(r.plan)
      PROVE  /\ r.plan[i] \in r.done \cup r.ignored \cup (r.misread \ {"service_port"})
             /\ r.plan[i] = "wan_options" => "wan_row" \in r.done
  BY ConfirmsAre DEF Settled
<1> HIDE DEF q
<1>5. Over(q) /\ ~AtWork(q)
  BY <1>1, <1>3, <1>4 DEF Over, Achieved, AtWork
<1> QED BY <1>1, <1>2, <1>5 DEF Comes, Whole, q

LEMMA OnwardComes ==
  ASSUME NEW r \in Request, Begun(r), Settled(r, r.step),
         r.kind = "provision" => r.at = "in"
  PROVE  /\ Comes(Onward(r), r)
         /\ r.step = Len(r.plan) => Onward(r).at = "ok" /\ Onward(r).kind = "list"
         /\ r.step # Len(r.plan) => AtWork(Onward(r)) /\ Onward(r).step = r.step + 1
<1>1. CASE r.step = Len(r.plan)
  BY <1>1, SucceedsOver DEF Onward
<1>2. CASE r.step # Len(r.plan)
  <2> DEFINE next == [r EXCEPT !.step = @ + 1]
  <2>1. /\ next.kind = r.kind /\ next.n = r.n /\ next.serial = r.serial /\ next.plan = r.plan
        /\ next.step = r.step + 1 /\ next.done = r.done /\ next.misread = r.misread
        /\ next.ignored = r.ignored /\ next.at = r.at
    BY DEF Request
  <2>2. r.step + 1 \in 1 .. Len(r.plan) /\ r.step + 1 \in Nat /\ (r.step + 1) - 1 = r.step
    BY <1>2, GoalTyped DEF Begun
  <2>3. next \in Request
    BY <2>2 DEF Request
  <2> HIDE DEF next
  <2>4. Begun(next)
    BY <2>1, <2>2 DEF Begun, Settled
  <2>5. /\ Ready(next) \in Request /\ AtWork(Ready(next)) /\ Same(Ready(next), next)
        /\ Ready(next).step = next.step /\ Ready(next).misread = next.misread
        /\ Ready(next).at = "in" => next.at = "in"
    BY <2>3, <2>4, ReadyWorks
  <2>6. Onward(r) = Ready(next)
    BY <1>2 DEF Onward, next
  <2>7. Ready(next).at # "ok" /\ Whole(Ready(next))
    BY <2>5 DEF AtWork, Whole
  <2> QED BY <1>2, <2>1, <2>5, <2>6, <2>7 DEF Comes, Same
<1> QED BY <1>1, <1>2

LEMMA PassedComes ==
  ASSUME NEW r \in Request, Begun(r), r.at = "in",
         r.plan[r.step] \in r.done \cup r.misread
  PROVE  /\ Comes(Passed(r), r)
         /\ r.step # Len(r.plan) => AtWork(Passed(r))
<1>1. CASE r.plan[r.step] \in Probed
  <2> DEFINE q == [r EXCEPT !.at = "probe"]
  <2>1. /\ q.kind = r.kind /\ q.n = r.n /\ q.serial = r.serial /\ q.plan = r.plan
        /\ q.step = r.step /\ q.done = r.done /\ q.misread = r.misread
        /\ q.ignored = r.ignored /\ q.at = "probe" /\ q \in Request
    BY DEF Request
  <2>2. r.kind # "provision"
    BY <1>1, GoalTyped DEF GoodPlan, Begun, Probed
  <2> HIDE DEF q
  <2>3. AtWork(q)
    BY <1>1, <2>1, <2>2 DEF AtWork, Begun, Settled
  <2>4. Passed(r) = q
    BY <1>1 DEF Passed, q
  <2> QED BY <2>1, <2>3, <2>4 DEF Comes, Whole, Same
<1>2. CASE r.plan[r.step] \notin Probed
  <2>1. r.plan[r.step] \notin DOMAIN Confirms
    BY <1>2, ConfirmsAre DEF Probed
  <2>2. Settled(r, r.step)
    <3>1. \A i \in 1 .. r.step : i \in 1 .. r.step - 1 \/ i = r.step
      BY GoalTyped
    <3> QED BY <2>1, <3>1 DEF Begun, Settled
  <2>3. Passed(r) = Onward(r)
    BY <1>2 DEF Passed
  <2> QED BY <2>2, <2>3, OnwardComes
<1> QED BY <1>1, <1>2

LEMMA BodyFailsComes ==
  ASSUME NEW r \in Request, Begun(r), r.at \in {"cli", "in"}
  PROVE  /\ Comes(BodyFails(r), r)
         /\ \/ BodyFails(r) = Failed
            \/ AtWork(BodyFails(r)) /\ BodyFails(r).step = r.step
<1>1. CASE r.bodies > 1
  <2> DEFINE q == AnotherBody(r)
  <2>1. /\ q.kind = r.kind /\ q.n = r.n /\ q.serial = r.serial /\ q.plan = r.plan
        /\ q.step = r.step /\ q.done = r.done /\ q.misread = r.misread
        /\ q.ignored = r.ignored /\ q.at = Session(r)
    BY DEF AnotherBody, Request
  <2>2. Session(r) \in {"cli", "in"} /\ (Session(r) = "in" => r.at = "in")
        /\ (r.kind = "provision" /\ r.at = "in" => Session(r) = "in")
    BY DEF Session
  <2>3. r.bodies - 1 \in Nat /\ Sequences(r.kind) \in Nat
    BY <1>1, BodiesTyped DEF Request
  <2>4. [r EXCEPT !.at = Session(r), !.bodies = r.bodies - 1, !.seqs = Sequences(r.kind)] \in Request
    BY <2>2, <2>3 DEF Request
  <2>5. q \in Request
    BY <2>4 DEF AnotherBody
  <2> HIDE DEF q
  <2>6. AtWork(q)
    BY <2>1, <2>2 DEF AtWork, Begun, Settled
  <2>7. BodyFails(r) = q
    BY <1>1 DEF BodyFails, q
  <2> QED BY <2>1, <2>2, <2>5, <2>6, <2>7 DEF Comes, Whole, Same
<1>2. CASE ~(r.bodies > 1)
  <2>1. BodyFails(r) = Failed
    BY <1>2 DEF BodyFails
  <2> QED BY <2>1, FailedComes
<1> QED BY <1>1, <1>2

-----------------------------------------------------------------------------
(* The lock is held for the open session, and a registration that is about *)
(* to be described stands.                                                 *)
HoldsLock(o) == lock = o <=> op[o].at = "in"

HasRegistered(o) ==
  op[o].kind = "provision" /\ op[o].step = 2 /\ "register" \notin op[o].misread
    => unit[op[o].n].serial = op[o].serial

PortTyped ==
  /\ unit \in [Numbers -> Unit] /\ lock \in Ops \cup {NoOp} /\ op \in [Ops -> Request]

PortInvariant ==
  /\ PortTyped
  /\ \A o \in Ops : Whole(op[o]) /\ HoldsLock(o) /\ HasRegistered(o)
  /\ ResetsComeBack /\ OwnDescriptions

(* What a step may make of a request and its ONU.                          *)
Sound(o, q, u) ==
  /\ q \in Request /\ Whole(q)
  /\ q.at = "in" => op[o].at = "in" \/ lock = NoOp
  /\ AtWork(q) => Same(q, op[o])
  /\ u \in Unit /\ u.label \in {NoSerial, "misplaced", u.serial}
  /\ op[o].at # "in" => u.serial = unit[op[o].n].serial
  /\ q.kind = "provision" /\ q.step = 2 /\ "register" \notin q.misread => u.serial = q.serial
  /\ u.half = "yes" => \/ AtWork(q) /\ q.kind = "reset"
                       \/ q = Failed /\ op[o].kind = "reset"
                       \/ unit[op[o].n].half = "yes" /\ op[o].kind # "reset"

LEMMA NotAtWork ==
  ASSUME NEW r, Whole(r), ~AtWork(r)
  PROVE  r.at \in {"idle", "ok"} /\ r.kind = "list"
BY IdleTyped DEF Whole, Over

LEMMA BecomesKeeps ==
  ASSUME PortInvariant, NEW o \in Ops, NEW q, NEW u, AtWork(op[o]), Sound(o, q, u),
         Becomes(o, q, u)
  PROVE  PortInvariant'
<1> USE DEF PortInvariant, PortTyped
<1> DEFINE n == op[o].n
           v == Told(u, o, q)
<1>1. n \in Numbers /\ op[o] \in Request
  BY DEF AtWork, Begun
<1>2. v \in Unit /\ v.serial = u.serial /\ v.label = u.label /\ (v.half = "yes" => v = u)
      /\ (v.half = "yes" => ~(op[o].kind = "reset" /\ q = Failed))
  BY DEF Told, Sound, Unit
<1>3. /\ op' = [op EXCEPT ![o] = q]
      /\ unit' = [unit EXCEPT ![n] = v]
      /\ lock' = IF q.at = "in" THEN o ELSE IF lock = o THEN NoOp ELSE lock
  BY DEF Becomes
<1> HIDE DEF v
<1>4. /\ op'[o] = q /\ \A p \in Ops \ {o} : op'[p] = op[p]
      /\ unit'[n] = v /\ \A m \in Numbers \ {n} : unit'[m] = unit[m]
  BY <1>1, <1>3
<1>5. PortTyped'
  BY <1>1, <1>2, <1>3 DEF Sound
<1>6. \A p \in Ops : Whole(op'[p])
  BY <1>4 DEF Sound
<1>7. ASSUME NEW p \in Ops PROVE HoldsLock(p)'
  <2>1. HoldsLock(p) /\ HoldsLock(o)
    OBVIOUS
  <2> QED BY <1>3, <1>4, <2>1 DEF HoldsLock, Sound
<1>8. ASSUME NEW p \in Ops PROVE HasRegistered(p)'
  <2>1. CASE p = o
    <3>1. SUFFICES ASSUME q.kind = "provision", q.step = 2, "register" \notin q.misread
                   PROVE  unit'[q.n].serial = q.serial
      BY <1>4, <2>1 DEF HasRegistered
    <3>2. u.serial = q.serial
      BY <3>1 DEF Sound
    <3>3. q.n = n
      <4>1. AtWork(q)
        BY <3>1, NotAtWork DEF Sound
      <4> QED BY <4>1 DEF Sound, Same
    <3> QED BY <1>2, <1>4, <3>2, <3>3
  <2>2. CASE p # o
    <3>1. SUFFICES ASSUME op[p].kind = "provision", op[p].step = 2, "register" \notin op[p].misread
                   PROVE  unit'[op[p].n].serial = op[p].serial
      BY <1>4, <2>2 DEF HasRegistered
    <3>2. AtWork(op[p]) /\ unit[op[p].n].serial = op[p].serial
      BY <3>1, NotAtWork DEF HasRegistered
    <3>3. op[p].n \in Numbers /\ op[p].at = "in"
      BY <3>1, <3>2 DEF AtWork, Begun
    <3>4. op[o].at # "in"
      BY <2>2, <3>3 DEF HoldsLock
    <3>5. v.serial = unit[n].serial
      BY <1>2, <3>4 DEF Sound
    <3> QED BY <1>4, <3>2, <3>3, <3>5
  <2> QED BY <2>1, <2>2
<1>9. OwnDescriptions'
  <2>1. ASSUME NEW m \in Numbers
        PROVE  unit'[m].label \in {NoSerial, "misplaced", unit'[m].serial}
    BY <1>2, <1>4 DEF Sound, OwnDescriptions
  <2> QED BY <2>1 DEF OwnDescriptions
<1>10. ResetsComeBack'
  <2> SUFFICES ASSUME NEW m \in Numbers, unit'[m].half = "yes"
               PROVE  \E p \in Ops : Working(p)' /\ op'[p].kind = "reset" /\ op'[p].n = m
    BY DEF ResetsComeBack
  <2>1. ASSUME unit[m].half = "yes", m # n \/ op[o].kind # "reset"
        PROVE  \E p \in Ops : Working(p)' /\ op'[p].kind = "reset" /\ op'[p].n = m
    <3>1. PICK p \in Ops : Working(p) /\ op[p].kind = "reset" /\ op[p].n = m
      BY <2>1 DEF ResetsComeBack
    <3>2. p # o
      BY <2>1, <3>1
    <3> QED BY <1>4, <3>1, <3>2 DEF Working
  <2>2. CASE m # n
    BY <1>4, <2>1, <2>2
  <2>3. CASE m = n
    <3>1. u.half = "yes" /\ ~(op[o].kind = "reset" /\ q = Failed)
      BY <1>2, <1>4, <2>3
    <3>2. CASE AtWork(q) /\ q.kind = "reset"
      <4>1. q.n = n /\ q.at \notin {"idle", "ok"}
        BY <3>2 DEF Sound, Same, AtWork
      <4> QED BY <1>4, <2>3, <3>2, <4>1 DEF Working
    <3>3. CASE unit[n].half = "yes" /\ op[o].kind # "reset"
      BY <2>1, <2>3, <3>3
    <3> QED BY <3>1, <3>2, <3>3 DEF Sound
  <2> QED BY <2>2, <2>3
<1> QED BY <1>5, <1>6, <1>7, <1>8, <1>9, <1>10

-----------------------------------------------------------------------------
(* What the OLT makes of an ONU.                                           *)
LEMMA UnitTyped ==
  ASSUME PortInvariant, NEW o \in Ops, AtWork(op[o])
  PROVE  /\ unit[op[o].n] \in Unit
         /\ unit[op[o].n].label \in {NoSerial, "misplaced", unit[op[o].n].serial}
<1>1. op[o].n \in Numbers
  BY DEF AtWork, Begun
<1> QED BY <1>1 DEF PortInvariant, PortTyped, OwnDescriptions

LEMMA GoalFacts ==
  ASSUME PortInvariant, NEW o \in Ops, AtWork(op[o])
  PROVE  /\ op[o] \in Request /\ Begun(op[o]) /\ Goal(o) = op[o].plan[op[o].step]
         /\ Goal(o) \in Goals
         /\ op[o].kind = "reset" <=> op[o].kind = "reset" /\ Goal(o) \in {"off", "on"}
         /\ op[o].kind = "reset" /\ op[o].step = Len(op[o].plan) => Goal(o) = "on"
         /\ op[o].kind = "provision" =>
              \/ op[o].step = 1 /\ Goal(o) = "register"
              \/ op[o].step = 2 /\ Goal(o) = "describe"
         /\ Goal(o) = "register" => op[o].kind = "provision" /\ op[o].step = 1
         /\ Goal(o) = "describe" => op[o].kind = "provision" /\ op[o].step = 2
         /\ Goal(o) = "read" => Len(op[o].plan) = 1 /\ op[o].step = 1
<1>1. op[o] \in Request /\ Begun(op[o])
  BY DEF AtWork, PortInvariant, PortTyped
<1>2. GoodPlan(op[o].kind, op[o].plan) /\ Goal(o) \in Goals
  BY <1>1, GoalTyped DEF Goal
<1>3. op[o].step \in 1 .. Len(op[o].plan)
  BY <1>1 DEF Begun
<1> QED BY <1>1, <1>2, <1>3 DEF GoodPlan, Goal

LEMMA EffectIs ==
  ASSUME NEW o \in Ops
  PROVE  LET u == unit[op[o].n] IN
         /\ Goal(o) = "register" => Effect(o) = [Blank EXCEPT !.serial = op[o].serial]
         /\ Goal(o) = "describe" =>
              Effect(o) = [u EXCEPT !.label = IF "register" \in op[o].misread
                                              THEN "misplaced" ELSE op[o].serial]
         /\ Goal(o) = "remove" => Effect(o) = Blank
         /\ Goal(o) = "off" =>
              Effect(o) = [u EXCEPT !.half = IF op[o].kind = "reset" THEN "yes" ELSE "no"]
         /\ Goal(o) = "on" => Effect(o) = [u EXCEPT !.half = "no"]
         /\ Goal(o) = "service_port" => Effect(o) = [u EXCEPT !.vlan = op[o].vlan]
         /\ Goal(o) = "no_service_port" => Effect(o) = [u EXCEPT !.vlan = NoVlan]
         /\ Goal(o) \in {"wan_ip", "wan_options"} => Effect(o) = [u EXCEPT !.wan = TRUE]
         /\ Goal(o) = "no_wan_ip" => Effect(o) = [u EXCEPT !.wan = FALSE]
<1> DEFINE u == unit[op[o].n]
<1>1. CASE Goal(o) = "register"
  BY <1>1 DEF Effect
<1>2. CASE Goal(o) = "describe"
  BY <1>2 DEF Effect
<1>3. CASE Goal(o) = "remove"
  BY <1>3 DEF Effect
<1>4. CASE Goal(o) = "off"
  BY <1>4 DEF Effect
<1>5. CASE Goal(o) = "on"
  BY <1>5 DEF Effect
<1>6. CASE Goal(o) \in {"service_port", "no_service_port"}
  BY <1>6 DEF Effect
<1>7. CASE Goal(o) \in {"wan_ip", "wan_options", "no_wan_ip"}
  BY <1>7 DEF Effect
<1> QED BY <1>1, <1>2, <1>3, <1>4, <1>5, <1>6, <1>7

LEMMA EffectFacts ==
  ASSUME PortInvariant, NEW o \in Ops, AtWork(op[o])
  PROVE  /\ Effect(o) \in Unit
         /\ Effect(o).label \in {NoSerial, "misplaced", Effect(o).serial}
         /\ Goal(o) \notin {"register", "remove"} => Effect(o).serial = unit[op[o].n].serial
         /\ Goal(o) = "register" => Effect(o).serial = op[o].serial
         /\ Effect(o).half = "yes" =>
              \/ op[o].kind = "reset" /\ Goal(o) = "off"
              \/ unit[op[o].n].half = "yes" /\ Goal(o) \notin {"off", "on"}
<1> DEFINE u == unit[op[o].n]
           g == Goal(o)
<1>1. u \in Unit /\ u.label \in {NoSerial, "misplaced", u.serial}
  BY UnitTyped
<1>2. op[o] \in Request /\ op[o].serial \in Serials \cup {NoSerial}
  BY GoalFacts DEF Request
<1>3. Blank \in Unit /\ Blank.label = NoSerial /\ Blank.half = "no"
  BY DEF Blank, Unit
<1>4. CASE g = "register"
  <2>1. Effect(o) = [Blank EXCEPT !.serial = op[o].serial]
    BY <1>4, EffectIs
  <2>2. /\ Effect(o) \in Unit /\ Effect(o).serial = op[o].serial
        /\ Effect(o).label = NoSerial /\ Effect(o).half = "no"
    BY <1>2, <2>1 DEF Blank, Unit
  <2> QED BY <1>4, <2>2
<1>5. CASE g = "describe"
  <2>1. Effect(o) = [u EXCEPT !.label = IF "register" \in op[o].misread
                                          THEN "misplaced" ELSE op[o].serial]
    BY <1>5, EffectIs
  <2>2. "register" \notin op[o].misread => op[o].serial = u.serial
    BY <1>5, GoalFacts DEF PortInvariant, HasRegistered
  <2> HIDE DEF u
  <2>3. /\ Effect(o) \in Unit /\ Effect(o).serial = u.serial /\ Effect(o).half = u.half
        /\ Effect(o).label = IF "register" \in op[o].misread THEN "misplaced" ELSE op[o].serial
    BY <1>1, <1>2, <2>1 DEF Unit
  <2> QED BY <1>5, <2>2, <2>3 DEF u
<1>6. CASE g = "remove"
  <2>1. Effect(o) = Blank
    BY <1>6, EffectIs
  <2> QED BY <1>3, <1>6, <2>1
<1>7. CASE g \in {"off", "on"}
  <2>1. PICK h \in {"yes", "no"} : Effect(o) = [u EXCEPT !.half = h]
                                   /\ (h = "yes" => g = "off" /\ op[o].kind = "reset")
    BY <1>7, EffectIs
  <2> HIDE DEF u
  <2>2. /\ Effect(o) \in Unit /\ Effect(o).serial = u.serial /\ Effect(o).label = u.label
        /\ Effect(o).half = h
    BY <1>1, <2>1 DEF Unit
  <2> QED BY <1>1, <1>7, <2>1, <2>2 DEF u
<1>8. CASE g \notin {"register", "describe", "remove", "off", "on"}
  <2>1. PICK v \in Vlans \cup {NoVlan}, w \in BOOLEAN :
          \/ Effect(o) = [u EXCEPT !.vlan = v]
          \/ Effect(o) = [u EXCEPT !.wan = w]
          \/ Effect(o) = u
    <3>1. CASE g = "service_port"
      <4>1. op[o].vlan \in Vlans \cup {NoVlan}
        BY <1>2 DEF Request
      <4> QED BY <3>1, <4>1, EffectIs
    <3>2. CASE g = "no_service_port"
      BY <3>2, EffectIs
    <3>3. CASE g \in {"wan_ip", "wan_options", "no_wan_ip"}
      BY <3>3, EffectIs
    <3>4. CASE g \notin {"service_port", "no_service_port", "wan_ip", "wan_options", "no_wan_ip"}
      BY <1>8, <3>4 DEF Effect
    <3> QED BY <3>1, <3>2, <3>3, <3>4
  <2> HIDE DEF u
  <2>2. /\ Effect(o) \in Unit /\ Effect(o).serial = u.serial /\ Effect(o).label = u.label
        /\ Effect(o).half = u.half
    BY <1>1, <2>1 DEF Unit
  <2> QED BY <1>1, <1>8, <2>2 DEF u
<1> QED BY <1>4, <1>5, <1>6, <1>7, <1>8

LEMMA UnnoticedFacts ==
  ASSUME PortInvariant, NEW o \in Ops, AtWork(op[o])
  PROVE  LET u == Unnoticed(unit[op[o].n], o)
         IN  /\ u \in Unit /\ u.label \in {NoSerial, "misplaced", u.serial}
             /\ u.serial = unit[op[o].n].serial
             /\ u.half = "yes" => unit[op[o].n].half = "yes" /\ Goal(o) # "on"
<1> DEFINE w == unit[op[o].n]
           u == Unnoticed(w, o)
<1>1. w \in Unit /\ w.label \in {NoSerial, "misplaced", w.serial}
  BY UnitTyped
<1> HIDE DEF w
<1>2. CASE Goal(o) = "on" /\ w.half = "yes"
  <2>1. u = [w EXCEPT !.half = "told"]
    BY <1>2 DEF Unnoticed
  <2>2. u \in Unit /\ u.serial = w.serial /\ u.label = w.label /\ u.half = "told"
    BY <1>1, <2>1 DEF Unit
  <2> QED BY <1>1, <2>2 DEF w
<1>3. CASE ~(Goal(o) = "on" /\ w.half = "yes")
  <2>1. u = w
    BY <1>3 DEF Unnoticed
  <2> QED BY <1>1, <1>3, <2>1 DEF w
<1> QED BY <1>2, <1>3 DEF w

(* A request that knows at least as much stands where it stood.            *)
LEMMA KnowsMore ==
  ASSUME NEW r, NEW q, Begun(r),
         q.kind = r.kind, q.n = r.n, q.plan = r.plan, q.step = r.step, q.at = r.at,
         r.done \subseteq q.done, r.misread \subseteq q.misread, r.ignored \subseteq q.ignored
  PROVE  Begun(q)
BY DEF Begun, Settled

(* .. and may go on once it has the answer for its goal.                   *)
LEMMA SettlesGoal ==
  ASSUME NEW q \in Request, Begun(q),
         q.plan[q.step] \in q.done \cup q.ignored \cup q.misread,
         q.plan[q.step] \in DOMAIN Confirms => Confirms[q.plan[q.step]] \in q.done
  PROVE  Settled(q, q.step)
<1>1. \A i \in 1 .. q.step : i \in 1 .. q.step - 1 \/ i = q.step
  BY GoalTyped
<1> QED BY <1>1 DEF Begun, Settled

(* An attempt leaves the ONU as it was, or does what the goal asks for; no *)
(* change of the serial number but in a session.                           *)
LEMMA AttemptSound ==
  ASSUME PortInvariant, NEW o \in Ops, AtWork(op[o]), NEW q,
         q \in Request, Whole(q), q.at = "in" => op[o].at = "in" \/ lock = NoOp,
         AtWork(q) => /\ Same(q, op[o]) /\ q.misread = op[o].misread,
         AtWork(q) /\ q.kind = "provision" /\ q.step = 2 => op[o].step = 2,
         op[o].kind = "reset" => AtWork(q) \/ q = Failed,
         NEW u, u \in Attempted(o), u = unit[op[o].n] \/ op[o].at \in {"snmp", "in"}
  PROVE  Sound(o, q, u)
<1>1. u = unit[op[o].n] \/ u = Effect(o)
  BY DEF Attempted
<1>2. u \in Unit /\ u.label \in {NoSerial, "misplaced", u.serial}
  BY <1>1, UnitTyped, EffectFacts
<1>3. Goal(o) \notin {"register", "remove"} => u.serial = unit[op[o].n].serial
  BY <1>1, EffectFacts
<1>4. op[o].at # "in" => u.serial = unit[op[o].n].serial
  <2>1. op[o].at # "in" => Goal(o) \in SnmpGoals \/ u = unit[op[o].n]
    BY DEF AtWork, Goal
  <2> QED BY <1>3, <2>1 DEF SnmpGoals
<1>5. q.kind = "provision" /\ q.step = 2 /\ "register" \notin q.misread => u.serial = q.serial
  <2> SUFFICES ASSUME q.kind = "provision", q.step = 2, "register" \notin q.misread
               PROVE  u.serial = q.serial
    OBVIOUS
  <2>1. AtWork(q)
    BY NotAtWork
  <2>2. op[o].kind = "provision" /\ op[o].step = 2 /\ q.serial = op[o].serial
        /\ "register" \notin op[o].misread
    BY <2>1 DEF Same
  <2>3. Goal(o) = "describe"
    BY <2>2, GoalFacts
  <2>4. unit[op[o].n].serial = op[o].serial
    BY <2>2 DEF PortInvariant, HasRegistered
  <2> QED BY <1>3, <2>2, <2>3, <2>4
<1>6. u.half = "yes" => \/ AtWork(q) /\ q.kind = "reset"
                        \/ q = Failed /\ op[o].kind = "reset"
                        \/ unit[op[o].n].half = "yes" /\ op[o].kind # "reset"
  <2>1. CASE op[o].kind = "reset"
    BY <2>1 DEF Same
  <2>2. CASE op[o].kind # "reset"
    BY <1>1, <2>2, EffectFacts
  <2> QED BY <2>1, <2>2
<1> QED BY <1>2, <1>4, <1>5, <1>6 DEF Sound

(* What a request knows after an answer, and what comes of it.             *)
LEMMA AnswerSound ==
  ASSUME PortInvariant, NEW o \in Ops, AtWork(op[o]),
         NEW r, Same(r, op[o]), r.at = op[o].at, NEW q, Comes(q, r),
         NEW u \in Unit, u.label \in {NoSerial, "misplaced", u.serial},
         op[o].at # "in" => u.serial = unit[op[o].n].serial,
         op[o].kind = "provision" /\ "register" \notin r.misread => u.serial = op[o].serial,
         u.half = "yes" => \/ AtWork(q) /\ op[o].kind = "reset"
                           \/ unit[op[o].n].half = "yes" /\ op[o].kind # "reset"
  PROVE  Sound(o, q, u)
<1>1. q.kind = "provision" => AtWork(q)
  BY NotAtWork DEF Comes
<1> QED BY <1>1 DEF Sound, Comes, Same

LEMMA PlacedAtWork ==
  ASSUME PortInvariant, NEW o \in Ops, op[o].at \in {"snmp", "cli", "in", "probe"}
  PROVE  AtWork(op[o])
BY NotAtWork DEF PortInvariant

(* An answer that is taken for a success: the OLT has done what was asked. *)
LEMMA MetKnown ==
  ASSUME PortInvariant, NEW o \in Ops, AtWork(op[o]),
         NEW r, r = [op[o] EXCEPT !.done = @ \cup {Goal(o)}]
  PROVE  /\ r \in Request /\ Begun(r) /\ Same(r, op[o]) /\ r.at = op[o].at
         /\ r.step = op[o].step /\ r.plan = op[o].plan /\ r.misread = op[o].misread
         /\ Goal(o) = r.plan[r.step] /\ Goal(o) \in r.done
<1>1. op[o] \in Request /\ Begun(op[o]) /\ Goal(o) \in Goals /\ Goal(o) \in Met
  BY GoalFacts, ConfirmsAre
<1>2. /\ r.kind = op[o].kind /\ r.n = op[o].n /\ r.serial = op[o].serial
      /\ r.at = op[o].at /\ r.step = op[o].step /\ r.plan = op[o].plan
      /\ r.misread = op[o].misread /\ r.ignored = op[o].ignored
      /\ r.done = op[o].done \cup {Goal(o)} /\ r \in Request
  BY <1>1 DEF Request
<1>3. Begun(r)
  BY <1>1, <1>2, KnowsMore
<1> QED BY <1>2, <1>3 DEF Same, Goal

LEMMA IgnoredKnown ==
  ASSUME PortInvariant, NEW o \in Ops, AtWork(op[o]),
         NEW r, r = [op[o] EXCEPT !.ignored = @ \cup {Goal(o)}]
  PROVE  /\ r \in Request /\ Begun(r) /\ Same(r, op[o]) /\ r.at = op[o].at
         /\ r.step = op[o].step /\ r.plan = op[o].plan /\ r.misread = op[o].misread
         /\ Goal(o) = r.plan[r.step] /\ Goal(o) \in r.ignored
<1>1. op[o] \in Request /\ Begun(op[o]) /\ Goal(o) \in Goals
  BY GoalFacts
<1>2. /\ r.kind = op[o].kind /\ r.n = op[o].n /\ r.serial = op[o].serial
      /\ r.at = op[o].at /\ r.step = op[o].step /\ r.plan = op[o].plan
      /\ r.misread = op[o].misread /\ r.done = op[o].done
      /\ r.ignored = op[o].ignored \cup {Goal(o)} /\ r \in Request
  BY <1>1 DEF Request
<1>3. Begun(r)
  BY <1>1, <1>2, KnowsMore
<1> QED BY <1>2, <1>3 DEF Same, Goal

LEMMA MisreadKnown ==
  ASSUME PortInvariant, NEW o \in Ops, AtWork(op[o]),
         NEW r, r = [op[o] EXCEPT !.misread = @ \cup {Goal(o)}]
  PROVE  /\ r \in Request /\ Begun(r) /\ Same(r, op[o]) /\ r.at = op[o].at
         /\ r.step = op[o].step /\ r.plan = op[o].plan
         /\ r.misread = op[o].misread \cup {Goal(o)}
         /\ Goal(o) = r.plan[r.step]
<1>1. op[o] \in Request /\ Begun(op[o]) /\ Goal(o) \in Goals
  BY GoalFacts
<1>2. /\ r.kind = op[o].kind /\ r.n = op[o].n /\ r.serial = op[o].serial
      /\ r.at = op[o].at /\ r.step = op[o].step /\ r.plan = op[o].plan
      /\ r.ignored = op[o].ignored /\ r.done = op[o].done
      /\ r.misread = op[o].misread \cup {Goal(o)} /\ r \in Request
  BY <1>1 DEF Request
<1>3. Begun(r)
  BY <1>1, <1>2, KnowsMore
<1> QED BY <1>2, <1>3 DEF Same, Goal

(* One lemma for each action.                                              *)
LEMMA SnmpGoalFacts ==
  ASSUME PortInvariant, NEW o \in Ops, op[o].at = "snmp"
  PROVE  AtWork(op[o]) /\ Goal(o) \in SnmpGoals /\ op[o].kind # "provision"
<1>1. AtWork(op[o])
  BY PlacedAtWork
<1> QED BY <1>1, GoalFacts DEF AtWork, Goal, SnmpGoals

LEMMA SnmpTakesKeeps ==
  ASSUME PortInvariant, NEW o \in Ops, SnmpTakes(o)
  PROVE  PortInvariant'
<1>1. PICK r : r = [op[o] EXCEPT !.done = @ \cup {Goal(o)}]
  OBVIOUS
<1>2. PICK q : q = Onward(r)
  OBVIOUS
<1>3. PICK u : u = Effect(o)
  OBVIOUS
<1>4. op[o].at = "snmp" /\ Becomes(o, q, u)
  BY <1>1, <1>2, <1>3 DEF SnmpTakes
<1>5. AtWork(op[o]) /\ Goal(o) \in SnmpGoals /\ op[o].kind # "provision"
  BY <1>4, SnmpGoalFacts
<1>6. /\ r \in Request /\ Begun(r) /\ Same(r, op[o]) /\ r.at = op[o].at
      /\ r.step = op[o].step /\ r.plan = op[o].plan /\ r.misread = op[o].misread
      /\ Goal(o) = r.plan[r.step] /\ Goal(o) \in r.done
  BY <1>1, <1>5, MetKnown
<1>7. Settled(r, r.step)
  BY <1>5, <1>6, SettlesGoal, ConfirmsAre DEF SnmpGoals
<1>8. Comes(q, r) /\ (r.step # Len(r.plan) => AtWork(q))
  BY <1>2, <1>5, <1>6, <1>7, OnwardComes DEF Same
<1>9. /\ u \in Unit /\ u.label \in {NoSerial, "misplaced", u.serial}
      /\ u.serial = unit[op[o].n].serial
      /\ u.half = "yes" => \/ op[o].kind = "reset" /\ Goal(o) = "off"
                           \/ unit[op[o].n].half = "yes" /\ Goal(o) \notin {"off", "on"}
  BY <1>3, <1>5, EffectFacts DEF SnmpGoals
<1>10. u.half = "yes" => \/ AtWork(q) /\ op[o].kind = "reset"
                         \/ unit[op[o].n].half = "yes" /\ op[o].kind # "reset"
  BY <1>5, <1>6, <1>8, <1>9, GoalFacts
<1>11. Sound(o, q, u)
  BY <1>5, <1>6, <1>8, <1>9, <1>10, AnswerSound
<1> QED BY <1>4, <1>5, <1>11, BecomesKeeps

LEMMA SnmpRefusesKeeps ==
  ASSUME PortInvariant, NEW o \in Ops, SnmpRefuses(o)
  PROVE  PortInvariant'
<1>1. PICK r : r = [op[o] EXCEPT !.ignored = @ \cup {Goal(o)}]
  OBVIOUS
<1>2. PICK q : q = Onward(r)
  OBVIOUS
<1>3. PICK u : u = Unnoticed(unit[op[o].n], o)
  OBVIOUS
<1>4. op[o].at = "snmp" /\ Goal(o) # "service_port" /\ Becomes(o, q, u)
  BY <1>1, <1>2, <1>3 DEF SnmpRefuses
<1>5. AtWork(op[o]) /\ Goal(o) \in SnmpGoals /\ op[o].kind # "provision"
  BY <1>4, SnmpGoalFacts
<1>6. /\ r \in Request /\ Begun(r) /\ Same(r, op[o]) /\ r.at = op[o].at
      /\ r.step = op[o].step /\ r.plan = op[o].plan /\ r.misread = op[o].misread
      /\ Goal(o) = r.plan[r.step] /\ Goal(o) \in r.ignored
  BY <1>1, <1>5, IgnoredKnown
<1>7. Settled(r, r.step)
  BY <1>4, <1>5, <1>6, SettlesGoal, ConfirmsAre DEF SnmpGoals
<1>8. Comes(q, r) /\ (r.step # Len(r.plan) => AtWork(q))
  BY <1>2, <1>5, <1>6, <1>7, OnwardComes DEF Same
<1>9. /\ u \in Unit /\ u.label \in {NoSerial, "misplaced", u.serial}
      /\ u.serial = unit[op[o].n].serial
      /\ u.half = "yes" => unit[op[o].n].half = "yes" /\ Goal(o) # "on"
  BY <1>3, <1>5, UnnoticedFacts
<1>10. u.half = "yes" => \/ AtWork(q) /\ op[o].kind = "reset"
                         \/ unit[op[o].n].half = "yes" /\ op[o].kind # "reset"
  BY <1>5, <1>6, <1>8, <1>9, GoalFacts
<1>11. Sound(o, q, u)
  BY <1>5, <1>6, <1>8, <1>9, <1>10, AnswerSound
<1> QED BY <1>4, <1>5, <1>11, BecomesKeeps

LEMMA OverCli ==
  ASSUME PortInvariant, NEW o \in Ops, op[o].at = "snmp",
         NEW q, q = Ready([op[o] EXCEPT !.via = "cli",
                             !.step = IF op[o].kind = "reset" THEN 1 ELSE @])
  PROVE  /\ q \in Request /\ Whole(q) /\ AtWork(q) /\ q.at # "in"
         /\ Same(q, op[o]) /\ q.misread = op[o].misread
<1>1. PICK r : r = [op[o] EXCEPT !.via = "cli",
                      !.step = IF op[o].kind = "reset" THEN 1 ELSE @]
  OBVIOUS
<1>2. PICK i : i = IF op[o].kind = "reset" THEN 1 ELSE op[o].step
  OBVIOUS
<1>3. AtWork(op[o]) /\ op[o] \in Request /\ Begun(op[o]) /\ op[o].kind # "provision"
  BY SnmpGoalFacts, GoalFacts
<1>4. i \in Nat /\ i \in 1 .. Len(op[o].plan) /\ i <= op[o].step
  BY <1>2, <1>3, GoalTyped DEF Begun
<1>5. r = [op[o] EXCEPT !.via = "cli", !.step = i]
  BY <1>1, <1>2
<1>6. /\ r.kind = op[o].kind /\ r.n = op[o].n /\ r.serial = op[o].serial
      /\ r.at = op[o].at /\ r.step = i /\ r.plan = op[o].plan
      /\ r.misread = op[o].misread /\ r.ignored = op[o].ignored
      /\ r.done = op[o].done /\ r \in Request
  BY <1>3, <1>4, <1>5 DEF Request
<1>7. Begun(r)
  <2>1. op[o].step \in Nat
    BY <1>3, GoalTyped
  <2>2. \A j \in 1 .. i - 1 : j \in 1 .. op[o].step - 1
    BY <1>4, <2>1
  <2> QED BY <1>3, <1>4, <1>6, <2>2 DEF Begun, Settled
<1>8. /\ q \in Request /\ AtWork(q) /\ Same(q, r) /\ q.misread = r.misread
      /\ q.at = "in" => r.at = "in"
  BY <1>1, <1>6, <1>7, ReadyWorks
<1> QED BY <1>6, <1>8 DEF Whole, Same

LEMMA SnmpFailsKeeps ==
  ASSUME PortInvariant, NEW o \in Ops, SnmpFails(o)
  PROVE  PortInvariant'
<1>1. PICK q : q = IF op[o].via = "snmp" THEN Failed
                   ELSE Ready([op[o] EXCEPT !.via = "cli",
                                 !.step = IF op[o].kind = "reset" THEN 1 ELSE @])
  OBVIOUS
<1>2. PICK u : u \in Attempted(o) /\ op[o].at = "snmp" /\ Becomes(o, q, u)
  BY <1>1 DEF SnmpFails
<1>3. AtWork(op[o]) /\ op[o].kind # "provision"
  BY <1>2, SnmpGoalFacts
<1>4. /\ q \in Request /\ Whole(q) /\ q.at # "in"
      /\ AtWork(q) => Same(q, op[o]) /\ q.misread = op[o].misread
      /\ AtWork(q) \/ q = Failed
  <2>1. CASE op[o].via = "snmp"
    <3>1. Comes(Failed, op[o]) /\ Failed.at = "idle" /\ ~AtWork(Failed) /\ q = Failed
      BY <1>1, <2>1, FailedComes
    <3> QED BY <3>1 DEF Comes
  <2>2. CASE op[o].via # "snmp"
    BY <1>1, <1>2, <2>2, OverCli
  <2> QED BY <2>1, <2>2
<1>5. ~(AtWork(q) /\ q.kind = "provision")
  BY <1>3, <1>4 DEF Same
<1>6. Sound(o, q, u)
  BY <1>2, <1>3, <1>4, <1>5, AttemptSound
<1> QED BY <1>2, <1>3, <1>6, BecomesKeeps

LEMMA NoSessionKeeps ==
  ASSUME PortInvariant, NEW o \in Ops, NoSession(o)
  PROVE  PortInvariant'
<1>1. PICK q : q = BodyFails(op[o])
  OBVIOUS
<1>2. PICK u : u = unit[op[o].n]
  OBVIOUS
<1>3. op[o].at = "cli" /\ Becomes(o, q, u)
  BY <1>1, <1>2 DEF NoSession
<1>4. AtWork(op[o]) /\ op[o] \in Request /\ Begun(op[o])
  BY <1>3, PlacedAtWork, GoalFacts
<1>5. Comes(q, op[o]) /\ (q = Failed \/ (AtWork(q) /\ q.step = op[o].step))
  BY <1>1, <1>3, <1>4, BodyFailsComes
<1>6. u \in Attempted(o) /\ (AtWork(q) => q.step = op[o].step)
  BY <1>2, <1>5, FailedComes DEF Attempted
<1>7. /\ q \in Request /\ Whole(q) /\ (q.at = "in" => op[o].at = "in")
      /\ AtWork(q) => Same(q, op[o]) /\ q.misread = op[o].misread
  BY <1>5 DEF Comes
<1>8. AtWork(q) /\ q.kind = "provision" /\ q.step = 2 => op[o].step = 2
  BY <1>6
<1>9. op[o].kind = "reset" => AtWork(q) \/ q = Failed
  BY <1>5
<1>10. Sound(o, q, u)
  BY <1>2, <1>4, <1>6, <1>7, <1>8, <1>9, AttemptSound
<1> QED BY <1>3, <1>4, <1>10, BecomesKeeps

LEMMA RejectedKeeps ==
  ASSUME PortInvariant, NEW o \in Ops, Rejected(o)
  PROVE  PortInvariant'
<1>1. PICK u : /\ u \in Attempted(o)
               /\ \/ op[o].seqs > 1 /\ Becomes(o, [op[o] EXCEPT !.seqs = @ - 1], u)
                  \/ Becomes(o, BodyFails(op[o]), u)
  BY DEF Rejected
<1>2. op[o].at = "in"
  BY DEF Rejected
<1>3. AtWork(op[o]) /\ op[o] \in Request /\ Begun(op[o])
  BY <1>2, PlacedAtWork, GoalFacts
<1>4. CASE op[o].seqs > 1 /\ Becomes(o, [op[o] EXCEPT !.seqs = @ - 1], u)
  <2>0. op[o].seqs - 1 \in Nat
    BY <1>3, <1>4 DEF Request
  <2>1. PICK q : q = [op[o] EXCEPT !.seqs = @ - 1]
    OBVIOUS
  <2>2. /\ q \in Request /\ q.kind = op[o].kind /\ q.n = op[o].n /\ q.serial = op[o].serial
        /\ q.at = op[o].at /\ q.step = op[o].step /\ q.plan = op[o].plan
        /\ q.misread = op[o].misread /\ q.ignored = op[o].ignored /\ q.done = op[o].done
    BY <1>3, <2>0, <2>1 DEF Request
  <2>3. Begun(q)
    BY <1>3, <2>2, KnowsMore
  <2>4. AtWork(q)
    BY <1>2, <2>2, <2>3 DEF AtWork
  <2>5. Whole(q) /\ Same(q, op[o]) /\ (q.step = 2 => op[o].step = 2)
    BY <2>2, <2>4 DEF Whole, Same
  <2>6. Sound(o, q, u)
    BY <1>1, <1>2, <1>3, <2>2, <2>4, <2>5, AttemptSound
  <2> QED BY <1>3, <1>4, <2>1, <2>6, BecomesKeeps
<1>5. CASE Becomes(o, BodyFails(op[o]), u)
  <2>1. PICK q : q = BodyFails(op[o])
    OBVIOUS
  <2>2. Comes(q, op[o]) /\ (q = Failed \/ (AtWork(q) /\ q.step = op[o].step))
    BY <1>2, <1>3, <2>1, BodyFailsComes
  <2>3. AtWork(q) => q.step = op[o].step
    BY <2>2, FailedComes
  <2>4. /\ q \in Request /\ Whole(q) /\ (q.at = "in" => op[o].at = "in")
        /\ AtWork(q) => Same(q, op[o]) /\ q.misread = op[o].misread
    BY <2>2 DEF Comes
  <2>5. AtWork(q) /\ q.kind = "provision" /\ q.step = 2 => op[o].step = 2
    BY <2>3
  <2>6. op[o].kind = "reset" => AtWork(q) \/ q = Failed
    BY <2>2
  <2>7. Sound(o, q, u)
    BY <1>1, <1>2, <1>3, <2>4, <2>5, <2>6, AttemptSound
  <2> QED BY <1>3, <1>5, <2>1, <2>7, BecomesKeeps
<1> QED BY <1>1, <1>4, <1>5

LEMMA EnterKeeps ==
  ASSUME PortInvariant, NEW o \in Ops, Enter(o)
  PROVE  PortInvariant'
<1>1. PICK q : q = [op[o] EXCEPT !.at = "in"]
  OBVIOUS
<1>2. PICK u : u = unit[op[o].n]
  OBVIOUS
<1>3. op[o].at = "cli" /\ lock = NoOp
  BY DEF Enter
<1>4. AtWork(op[o]) /\ op[o] \in Request /\ Begun(op[o])
  BY <1>3, PlacedAtWork, GoalFacts
<1>5. /\ q \in Request /\ q.kind = op[o].kind /\ q.n = op[o].n /\ q.serial = op[o].serial
      /\ q.at = "in" /\ q.step = op[o].step /\ q.plan = op[o].plan
      /\ q.misread = op[o].misread /\ q.ignored = op[o].ignored /\ q.done = op[o].done
  BY <1>1, <1>4 DEF Request
<1>6. AtWork(q) /\ Whole(q) /\ Same(q, op[o])
  BY <1>4, <1>5 DEF AtWork, Whole, Same, Begun, Settled
<1>7. u \in Attempted(o)
  BY <1>2 DEF Attempted
<1>8. Sound(o, q, u)
  BY <1>2, <1>3, <1>4, <1>5, <1>6, <1>7, AttemptSound
<1>9. Becomes(o, q, u)
  <2>1. op' = [op EXCEPT ![o] = q] /\ lock' = IF q.at = "in" THEN o ELSE IF lock = o THEN NoOp ELSE lock
    BY <1>1, <1>5 DEF Enter
  <2>2. q # Failed
    BY <1>5, FailedComes
  <2>3. unit' = [unit EXCEPT ![op[o].n] = Told(u, o, q)]
    BY <1>2, <2>2 DEF Enter, Told, PortInvariant, PortTyped
  <2> QED BY <2>1, <2>3 DEF Becomes
<1> QED BY <1>4, <1>8, <1>9, BecomesKeeps

LEMMA AcceptedKeeps ==
  ASSUME PortInvariant, NEW o \in Ops, Accepted(o)
  PROVE  PortInvariant'
<1>1. PICK r : r = [op[o] EXCEPT !.done = @ \cup {Goal(o)}]
  OBVIOUS
<1>2. PICK q : q = Passed(r)
  OBVIOUS
<1>3. PICK u : u = Effect(o)
  OBVIOUS
<1>4. op[o].at = "in" /\ Becomes(o, q, u)
  BY <1>1, <1>2, <1>3 DEF Accepted
<1>5. AtWork(op[o])
  BY <1>4, PlacedAtWork
<1>6. /\ r \in Request /\ Begun(r) /\ Same(r, op[o]) /\ r.at = op[o].at
      /\ r.step = op[o].step /\ r.plan = op[o].plan /\ r.misread = op[o].misread
      /\ Goal(o) = r.plan[r.step] /\ Goal(o) \in r.done
  BY <1>1, <1>5, MetKnown
<1>7. Comes(q, r) /\ (r.step # Len(r.plan) => AtWork(q))
  BY <1>2, <1>4, <1>6, PassedComes
<1>8. /\ u \in Unit /\ u.label \in {NoSerial, "misplaced", u.serial}
      /\ Goal(o) \notin {"register", "remove"} => u.serial = unit[op[o].n].serial
      /\ Goal(o) = "register" => u.serial = op[o].serial
      /\ u.half = "yes" => \/ op[o].kind = "reset" /\ Goal(o) = "off"
                           \/ unit[op[o].n].half = "yes" /\ Goal(o) \notin {"off", "on"}
  BY <1>3, <1>5, EffectFacts
<1>9. op[o].kind = "provision" /\ "register" \notin r.misread => u.serial = op[o].serial
  BY <1>5, <1>6, <1>8, GoalFacts DEF PortInvariant, HasRegistered
<1>10. u.half = "yes" => \/ AtWork(q) /\ op[o].kind = "reset"
                         \/ unit[op[o].n].half = "yes" /\ op[o].kind # "reset"
  BY <1>5, <1>6, <1>7, <1>8, GoalFacts
<1>11. Sound(o, q, u)
  BY <1>4, <1>5, <1>6, <1>7, <1>8, <1>9, <1>10, AnswerSound
<1> QED BY <1>4, <1>5, <1>11, BecomesKeeps

LEMMA MisreadKeeps ==
  ASSUME PortInvariant, NEW o \in Ops, Misread(o)
  PROVE  PortInvariant'
<1>1. PICK r : r = [op[o] EXCEPT !.misread = @ \cup {Goal(o)}]
  OBVIOUS
<1>2. PICK q : q = Passed(r)
  OBVIOUS
<1>3. PICK u : u = Unnoticed(unit[op[o].n], o)
  OBVIOUS
<1>4. op[o].at = "in" /\ Becomes(o, q, u)
  BY <1>1, <1>2, <1>3 DEF Misread
<1>5. AtWork(op[o])
  BY <1>4, PlacedAtWork
<1>6. /\ r \in Request /\ Begun(r) /\ Same(r, op[o]) /\ r.at = op[o].at
      /\ r.step = op[o].step /\ r.plan = op[o].plan
      /\ r.misread = op[o].misread \cup {Goal(o)} /\ Goal(o) = r.plan[r.step]
  BY <1>1, <1>5, MisreadKnown
<1>7. Comes(q, r) /\ (r.step # Len(r.plan) => AtWork(q))
  BY <1>2, <1>4, <1>6, PassedComes
<1>8. /\ u \in Unit /\ u.label \in {NoSerial, "misplaced", u.serial}
      /\ u.serial = unit[op[o].n].serial
      /\ u.half = "yes" => unit[op[o].n].half = "yes" /\ Goal(o) # "on"
  BY <1>3, <1>5, UnnoticedFacts
<1>9. op[o].kind = "provision" /\ "register" \notin r.misread => u.serial = op[o].serial
  BY <1>5, <1>6, <1>8, GoalFacts DEF PortInvariant, HasRegistered
<1>10. u.half = "yes" => \/ AtWork(q) /\ op[o].kind = "reset"
                         \/ unit[op[o].n].half = "yes" /\ op[o].kind # "reset"
  BY <1>5, <1>6, <1>7, <1>8, GoalFacts
<1>11. Sound(o, q, u)
  BY <1>4, <1>5, <1>6, <1>7, <1>8, <1>9, <1>10, AnswerSound
<1> QED BY <1>4, <1>5, <1>11, BecomesKeeps

LEMMA ProbeFacts ==
  ASSUME PortInvariant, NEW o \in Ops, op[o].at = "probe"
  PROVE  /\ AtWork(op[o]) /\ op[o].kind \notin {"provision", "reset"}
         /\ Goal(o) \in op[o].done \cup op[o].misread
<1>1. AtWork(op[o])
  BY PlacedAtWork
<1>2. Goal(o) \in Probed /\ Goal(o) \in op[o].done \cup op[o].misread
  BY <1>1 DEF AtWork, Goal
<1> QED BY <1>1, <1>2, GoalFacts DEF Probed

LEMMA ProbeConfirmsKeeps ==
  ASSUME PortInvariant, NEW o \in Ops, ProbeConfirms(o)
  PROVE  PortInvariant'
<1>1. PICK shown : shown = Stands(o)
  OBVIOUS
<1>2. PICK r : r = [op[o] EXCEPT !.done = @ \cup shown]
  OBVIOUS
<1>3. PICK q : q = Onward(r)
  OBVIOUS
<1>4. PICK u : u = unit[op[o].n]
  OBVIOUS
<1>5. op[o].at = "probe" /\ Becomes(o, q, u)
  BY <1>1, <1>2, <1>3, <1>4 DEF ProbeConfirms
<1>6. /\ AtWork(op[o]) /\ op[o].kind \notin {"provision", "reset"}
      /\ Goal(o) \in op[o].done \cup op[o].misread
  BY <1>5, ProbeFacts
<1>7. op[o] \in Request /\ Begun(op[o]) /\ Goal(o) \in Goals
  BY <1>6, GoalFacts
<1>8. /\ shown \in SUBSET Met
      /\ Goal(o) \in DOMAIN Confirms => Confirms[Goal(o)] \in shown
  <2>1. shown \subseteq Confirmed
    BY <1>1, ConfirmsAre DEF Stands
  <2>2. PICK config \in {RunningConfig(Blank), RunningConfig(unit[op[o].n])} : Passes(op[o], config)
    BY DEF ProbeConfirms
  <2>3. /\ Goal(o) = "service_port" => config.vlan \in Vlans /\ config.vlan = op[o].vlan
        /\ Goal(o) = "wan_options" => config.wan
    BY <2>2 DEF Passes, Goal
  <2>4. RunningConfig(Blank).vlan \notin Vlans /\ ~RunningConfig(Blank).wan
    BY CommandConstants DEF RunningConfig, Blank
  <2>5. /\ Goal(o) = "service_port" => unit[op[o].n].vlan = op[o].vlan
        /\ Goal(o) = "wan_options" => unit[op[o].n].wan
    BY <2>2, <2>3, <2>4 DEF RunningConfig
  <2>6. CASE Goal(o) = "service_port"
    BY <1>1, <2>1, <2>5, <2>6, ConfirmsAre DEF Stands
  <2>7. CASE Goal(o) = "wan_options"
    BY <1>1, <2>1, <2>5, <2>7, ConfirmsAre DEF Stands
  <2> QED BY <2>1, <2>6, <2>7, ConfirmsAre
<1>9. /\ r.kind = op[o].kind /\ r.n = op[o].n /\ r.serial = op[o].serial
      /\ r.at = op[o].at /\ r.step = op[o].step /\ r.plan = op[o].plan
      /\ r.misread = op[o].misread /\ r.ignored = op[o].ignored
      /\ r.done = op[o].done \cup shown /\ r \in Request
  BY <1>2, <1>7, <1>8 DEF Request
<1>10. Begun(r) /\ Goal(o) = r.plan[r.step]
  BY <1>7, <1>9, KnowsMore DEF Goal
<1>11. Settled(r, r.step)
  BY <1>6, <1>8, <1>9, <1>10, SettlesGoal
<1>12. Comes(q, r)
  BY <1>3, <1>6, <1>9, <1>10, <1>11, OnwardComes
<1>13. u \in Unit /\ u.label \in {NoSerial, "misplaced", u.serial}
  BY <1>4, <1>6, UnitTyped
<1>14. Sound(o, q, u)
  BY <1>4, <1>6, <1>9, <1>12, <1>13, AnswerSound DEF Same
<1> QED BY <1>5, <1>6, <1>14, BecomesKeeps

LEMMA ProbeFailsKeeps ==
  ASSUME PortInvariant, NEW o \in Ops, ProbeFails(o)
  PROVE  PortInvariant'
<1>1. PICK q : q = Failed
  OBVIOUS
<1>2. PICK u : u = unit[op[o].n]
  OBVIOUS
<1>3. op[o].at = "probe" /\ Becomes(o, q, u)
  BY <1>1, <1>2 DEF ProbeFails
<1>4. AtWork(op[o])
  BY <1>3, ProbeFacts
<1>5. Comes(q, op[o]) /\ q.at = "idle" /\ ~AtWork(q)
  BY <1>1, FailedComes
<1>6. u \in Attempted(o)
  BY <1>2 DEF Attempted
<1>7. q \in Request /\ Whole(q)
  BY <1>5 DEF Comes
<1>8. Sound(o, q, u)
  BY <1>1, <1>2, <1>4, <1>5, <1>6, <1>7, AttemptSound
<1> QED BY <1>3, <1>4, <1>8, BecomesKeeps

LEMMA OfferKeeps ==
  ASSUME PortInvariant, NEW o \in Ops, Offer(o)
  PROVE  PortInvariant'
<1>1. PICK r : r = [op[o] EXCEPT !.done = {"read"}]
  OBVIOUS
<1>2. PICK q : q = Onward(r)
  OBVIOUS
<1>3. PICK u : u = unit[op[o].n]
  OBVIOUS
<1>4. op[o].at = "in" /\ Goal(o) = "read" /\ Becomes(o, q, u)
  BY <1>1, <1>2, <1>3 DEF Offer
<1>5. AtWork(op[o])
  BY <1>4, PlacedAtWork
<1>6. /\ op[o] \in Request /\ Begun(op[o]) /\ "read" \in Goals /\ "read" \in Met
      /\ op[o].kind \notin {"provision", "reset"}
      /\ Len(op[o].plan) = 1 /\ op[o].step = 1 /\ op[o].plan[1] = "read"
  BY <1>4, <1>5, GoalFacts, ConfirmsAre
<1>7. /\ r.kind = op[o].kind /\ r.n = op[o].n /\ r.serial = op[o].serial
      /\ r.at = op[o].at /\ r.step = op[o].step /\ r.plan = op[o].plan
      /\ r.misread = op[o].misread /\ r.ignored = op[o].ignored
      /\ r.done = {"read"} /\ r \in Request
  BY <1>1, <1>6 DEF Request
<1>8. Begun(r)
  BY <1>6, <1>7 DEF Begun, Settled
<1>9. Settled(r, r.step)
  BY <1>6, <1>7, <1>8, SettlesGoal, ConfirmsAre
<1>10. Comes(q, r)
  BY <1>2, <1>6, <1>7, <1>8, <1>9, OnwardComes
<1>11. u \in Unit /\ u.label \in {NoSerial, "misplaced", u.serial}
  BY <1>3, <1>5, UnitTyped
<1>12. Sound(o, q, u)
  BY <1>3, <1>5, <1>6, <1>7, <1>10, <1>11, AnswerSound DEF Same
<1> QED BY <1>4, <1>5, <1>12, BecomesKeeps

Arrives(o, kind, n, s, v, plan, via, seen) ==
  op' = [op EXCEPT ![o] = Ready([Idle EXCEPT !.kind = kind, !.n = n, !.serial = s, !.vlan = v,
                                   !.plan = plan, !.via = via, !.seen = seen])]

(* A request is one of a kind, for a number, with a plan of its kind.      *)
LEMMA RequestArrives ==
  ASSUME NEW o, Begin(o)
  PROVE  \E kind \in Kinds, n \in Numbers, s \in Serials \cup {NoSerial}, seen \in SUBSET Numbers :
           \E plan \in Plans[kind] : \E via \in Ways(kind, plan), v \in Asked(plan) :
             Arrives(o, kind, n, s, v, plan, via, seen)
<1>1. PICK kind \in Kinds, n \in Numbers, s \in Serials \cup {NoSerial}, seen \in SUBSET Numbers :
        \E plan \in Plans[kind] : \E via \in Ways(kind, plan), v \in Asked(plan) :
          op' = [op EXCEPT ![o] = Ready([Idle EXCEPT !.kind = kind, !.n = n, !.serial = s, !.vlan = v,
                                           !.plan = plan, !.via = via, !.seen = seen])]
  BY ZenonT(60) DEF Begin
<1> QED
  BY <1>1, ZenonT(60) DEF Arrives

LEMMA BeginKeeps ==
  ASSUME PortInvariant, NEW o \in Ops, Begin(o)
  PROVE  PortInvariant'
<1> USE DEF PortInvariant, PortTyped
<1>1. PICK kind \in Kinds, n \in Numbers, s \in Serials \cup {NoSerial}, seen \in SUBSET Numbers :
        \E plan \in Plans[kind] : \E via \in Ways(kind, plan), v \in Asked(plan) :
          Arrives(o, kind, n, s, v, plan, via, seen)
  <2> HIDE DEF PortInvariant, PortTyped
  <2> QED BY RequestArrives, Zenon
<1>2. PICK plan \in Plans[kind] : \E via \in Ways(kind, plan), v \in Asked(plan) :
        Arrives(o, kind, n, s, v, plan, via, seen)
  BY <1>1
<1>2a. PICK via \in Ways(kind, plan), v \in Asked(plan) :
         Arrives(o, kind, n, s, v, plan, via, seen)
  BY <1>2
<1>3. PICK r : r = [Idle EXCEPT !.kind = kind, !.n = n, !.serial = s, !.vlan = v,
                      !.plan = plan, !.via = via, !.seen = seen]
  OBVIOUS
<1>4. PICK q : q = Ready(r)
  OBVIOUS
<1>5. r \in Request
  <2>1. plan \in Seq(Goals)
    BY PlansTyped
  <2>2. via \in {"snmp", "both", "cli"}
    BY DEF Ways
  <2>3. n \in Nat
    BY DEF Numbers
  <2>3a. v \in Vlans \cup {NoVlan}
    BY DEF Asked
  <2>4. \A i \in Request : [i EXCEPT !.kind = kind, !.n = n, !.serial = s, !.vlan = v,
                      !.plan = plan, !.via = via, !.seen = seen] \in Request
    BY <2>1, <2>2, <2>3, <2>3a DEF Request
  <2> QED BY <1>3, <2>4, IdleTyped
<1>6. /\ r.kind = kind /\ r.n = n /\ r.plan = plan /\ r.step = 1 /\ r.at = "idle"
  BY <1>3 DEF Idle
<1>7. Begun(r)
  <2>1. Len(plan) \in Nat \ {0}
    BY PlansGood DEF GoodPlan
  <2> QED BY <1>6, <2>1 DEF Begun, Settled
<1>8. q \in Request /\ AtWork(q) /\ q.step = 1 /\ q.at # "in"
  BY <1>4, <1>5, <1>6, <1>7, ReadyWorks
<1>9. /\ op' = [op EXCEPT ![o] = q] /\ unit' = unit /\ lock' = lock /\ ~Working(o)
  BY <1>2a, <1>3, <1>4 DEF Begin, Arrives
<1>10. op'[o] = q /\ \A p \in Ops \ {o} : op'[p] = op[p]
  BY <1>9
<1>11. PortTyped'
  BY <1>8, <1>9
<1>12. ASSUME NEW p \in Ops PROVE Whole(op'[p]) /\ HoldsLock(p)' /\ HasRegistered(p)'
  <2>1. CASE p = o
    <3>1. op[o].at # "in" /\ HoldsLock(o)
      BY <1>9 DEF Working
    <3>2. HoldsLock(o)'
      BY <1>8, <1>9, <1>10, <3>1 DEF HoldsLock
    <3>3. Whole(op'[o]) /\ HasRegistered(o)'
      BY <1>8, <1>10 DEF Whole, HasRegistered
    <3> QED BY <2>1, <3>2, <3>3
  <2>2. CASE p # o
    BY <1>9, <1>10, <2>2 DEF HoldsLock, HasRegistered
  <2> QED BY <2>1, <2>2
<1>13. OwnDescriptions'
  BY <1>9 DEF OwnDescriptions
<1>14. ResetsComeBack'
  <2> SUFFICES ASSUME NEW m \in Numbers, unit'[m].half = "yes"
               PROVE  \E p \in Ops : Working(p)' /\ op'[p].kind = "reset" /\ op'[p].n = m
    BY DEF ResetsComeBack
  <2>1. PICK p \in Ops : Working(p) /\ op[p].kind = "reset" /\ op[p].n = m
    BY <1>9 DEF ResetsComeBack
  <2> QED BY <1>9, <1>10, <2>1 DEF Working
<1> QED BY <1>11, <1>12, <1>13, <1>14

-----------------------------------------------------------------------------
LEMMA PortInit == Init => PortInvariant
<1> SUFFICES ASSUME Init PROVE PortInvariant
  OBVIOUS
<1>3. ASSUME NEW n \in Numbers
      PROVE  unit[n] \in Unit /\ unit[n].label = NoSerial /\ unit[n].half = "no"
  BY DEF Init, AtStart
<1>4. PortTyped
  BY IdleTyped DEF Init, AtStart, PortTyped
<1>5. ASSUME NEW o \in Ops PROVE Whole(op[o]) /\ HoldsLock(o) /\ HasRegistered(o)
  BY IdleTyped DEF Init, Whole, HoldsLock, HasRegistered
<1> QED BY <1>3, <1>4, <1>5 DEF PortInvariant, ResetsComeBack, OwnDescriptions

LEMMA PortStep == PortInvariant /\ [Next]_vars => PortInvariant'
<1> SUFFICES ASSUME PortInvariant, [Next]_vars PROVE PortInvariant'
  OBVIOUS
<1>1. CASE UNCHANGED vars
  BY <1>1 DEF vars, PortInvariant, PortTyped, HoldsLock, HasRegistered, ResetsComeBack,
              Working, OwnDescriptions
<1>2. ASSUME NEW o \in Ops,
             \/ Begin(o) \/ SnmpTakes(o) \/ SnmpRefuses(o) \/ SnmpFails(o)
             \/ Enter(o) \/ NoSession(o) \/ Accepted(o) \/ Misread(o) \/ Rejected(o)
             \/ ProbeConfirms(o) \/ ProbeFails(o) \/ Offer(o)
      PROVE  PortInvariant'
  BY <1>2, BeginKeeps, SnmpTakesKeeps, SnmpRefusesKeeps, SnmpFailsKeeps, EnterKeeps,
     NoSessionKeeps, AcceptedKeeps, MisreadKeeps, RejectedKeeps, ProbeConfirmsKeeps,
     ProbeFailsKeeps, OfferKeeps
<1> QED BY <1>1, <1>2 DEF Next

-----------------------------------------------------------------------------
(* A list of offers, built line by line.                                   *)
Below == {e \in Nat \X Nat : e[1] < e[2]}

LEMMA LeastNumber ==
  ASSUME NEW N \in SUBSET Nat, N # {}
  PROVE  \E n \in N : \A m \in N : n <= m
<1>1. OpToRel(<, Nat) = Below
  BY DEF OpToRel, Below
<1>2. IsWellFoundedOn(Below, Nat)
  BY <1>1, NatLessThanWellFounded, Zenon
<1>3. \E n \in N : \A m \in N : <<m, n>> \notin Below
  BY <1>2, WFMin
<1>4. PICK n \in N : \A m \in N : <<m, n>> \notin Below
  BY <1>3
<1>5. ASSUME NEW m \in N PROVE n <= m
  <2>1. m \in Nat /\ n \in Nat /\ <<m, n>> \notin Below
    BY <1>4
  <2> QED BY <2>1 DEF Below
<1> QED BY <1>4, <1>5

Listed == [used : SUBSET Numbers, named : SUBSET Serials, given : [Serials -> Numbers \cup {0}]]

Apart(list) ==
  /\ Range(list.given) \cap list.used = {}
  /\ \A s, t \in list.named : s # t => list.given[s] # list.given[t] \/ list.given[s] = 0
  /\ \A s \in list.named : list.given[s] = 0 => Empty(list) = {}

(* The numbers given so far are those of the serial numbers named so far.  *)
Fair(list) ==
  /\ list \in Listed /\ Apart(list)
  /\ \A s \in Serials \ list.named : list.given[s] = 0

LEMMA NoneFair ==
  ASSUME NEW used \in SUBSET Numbers
  PROVE  Fair(NoOffers(used))
<1> DEFINE list == NoOffers(used)
<1>1. list \in Listed /\ list.named = {} /\ list.used = used /\ \A s \in Serials : list.given[s] = 0
  BY DEF NoOffers, Listed
<1>2. Range(list.given) \subseteq {0} /\ 0 \notin Numbers
  BY DEF NoOffers, Range, Numbers
<1> HIDE DEF list
<1>3. Apart(list)
  BY <1>1, <1>2 DEF Apart
<1> QED BY <1>1, <1>3 DEF Fair, list

LEMMA PickFree ==
  ASSUME NEW empty \in SUBSET Numbers, NEW hint
  PROVE  \/ empty = {} /\ PickSuggested(empty, hint) = 0
         \/ empty # {} /\ PickSuggested(empty, hint) \in empty
<1>1. ASSUME empty # {} PROVE Min(empty) \in empty
  <2>1. empty \in SUBSET Nat
    BY DEF Numbers
  <2>2. \E n \in empty : \A m \in empty : n <= m
    BY <1>1, <2>1, LeastNumber
  <2> QED BY <2>2 DEF Min
<1> QED BY <1>1 DEF PickSuggested

LEMMA SuggestFair ==
  ASSUME NEW list, Fair(list), NEW line, line[1] \in Serials
  PROVE  Fair(Suggest(list, line))
<1> DEFINE s == line[1]
           n == PickSuggested(Empty(list), line[2])
           new == [list EXCEPT !.named = @ \cup {s}, !.given[s] = n]
<1>1. CASE s \in list.named
  BY <1>1 DEF Suggest
<1>2. CASE s \notin list.named
  <2>1. list \in Listed /\ Empty(list) \in SUBSET Numbers /\ 0 \notin Numbers /\ s \in Serials
    BY DEF Fair, Empty, Numbers
  <2>2. \/ Empty(list) = {} /\ n = 0
        \/ Empty(list) # {} /\ n \in Empty(list)
    BY <2>1, PickFree
  <2> HIDE DEF n, s
  <2>3. n \in Numbers \cup {0}
    BY <2>1, <2>2
  <2>4. /\ new.used = list.used /\ new.named = list.named \cup {s}
        /\ new.given = [list.given EXCEPT ![s] = n]
        /\ new \in Listed
    BY <2>1, <2>3 DEF Listed
  <2>5. /\ list.given \in [Serials -> Numbers \cup {0}] /\ list.used \in SUBSET Numbers
        /\ list.named \in SUBSET Serials
    BY <2>1 DEF Listed
  <2>6. new.given[s] = n /\ \A t \in Serials \ {s} : new.given[t] = list.given[t]
    BY <2>1, <2>4, <2>5
  <2> HIDE DEF new
  <2>7. Range(list.given) = {list.given[t] : t \in Serials}
        /\ Range(new.given) = {new.given[t] : t \in Serials}
    BY <2>4, <2>5 DEF Range
  <2>8. list.given[s] = 0
    BY <1>2, <2>1 DEF Fair
  <2>9. Range(new.given) \subseteq Range(list.given) \cup {n}
    BY <2>6, <2>7
  <2>10. Range(list.given) \subseteq Range(new.given) \cup {0}
    BY <2>6, <2>7, <2>8
  <2>11. Range(new.given) \cap new.used = {}
    BY <2>1, <2>2, <2>4, <2>5, <2>9 DEF Fair, Apart, Empty
  <2>12. Empty(list) = {} => Empty(new) = {}
    BY <2>1, <2>4, <2>10 DEF Empty
  <2>13. ASSUME NEW t \in list.named
         PROVE  /\ t # s /\ new.given[t] = list.given[t]
                /\ n # list.given[t] \/ n = 0
    <3>1. t # s /\ t \in Serials
      BY <1>2, <2>5
    <3>2. list.given[t] \in Range(list.given)
      BY <2>7, <3>1
    <3> QED BY <2>2, <2>6, <3>1, <3>2 DEF Empty
  <2>14. \A t \in new.named : t = s \/ t \in list.named
    BY <2>4
  <2>15. \A t, v \in new.named : t # v => new.given[t] # new.given[v] \/ new.given[t] = 0
    <3> SUFFICES ASSUME NEW t \in new.named, NEW v \in new.named, t # v
                 PROVE  new.given[t] # new.given[v] \/ new.given[t] = 0
      OBVIOUS
    <3>1. CASE t = s
      BY <2>6, <2>13, <2>14, <3>1
    <3>2. CASE v = s
      BY <2>6, <2>13, <2>14, <3>2
    <3>3. CASE t # s /\ v # s
      BY <2>13, <2>14, <3>3 DEF Fair, Apart
    <3> QED BY <3>1, <3>2, <3>3
  <2>16. \A t \in new.named : new.given[t] = 0 => Empty(new) = {}
    <3> SUFFICES ASSUME NEW t \in new.named, new.given[t] = 0 PROVE Empty(list) = {}
      BY <2>12
    <3>1. CASE t = s
      BY <2>1, <2>2, <2>6, <3>1
    <3>2. CASE t # s
      BY <2>13, <2>14, <3>2 DEF Fair, Apart
    <3> QED BY <3>1, <3>2
  <2>17. \A t \in Serials \ new.named : new.given[t] = 0
    BY <2>4, <2>6 DEF Fair
  <2>18. Fair(new)
    BY <2>4, <2>11, <2>15, <2>16, <2>17 DEF Fair, Apart
  <2> QED BY <1>2, <2>18 DEF Suggest, new, n, s
<1> QED BY <1>1, <1>2

(* The folds of the first lines, of which the list is the last.            *)
Folds(lines, base, k, f) ==
  f = [S \in SUBSET (1 .. k) |->
         IF S = {} THEN base ELSE Suggest(f[S \ {Max(S)}], lines[Max(S)])]

LEMMA FoldIs ==
  ASSUME NEW lines, NEW base, NEW m \in Nat, DOMAIN lines = 1 .. m
  PROVE  FoldLeft(Suggest, base, lines) = (CHOOSE f : Folds(lines, base, m, f))[1 .. m]
BY DEF FoldLeft, MapThenFoldSet, Folds

LEMMA LastOf ==
  ASSUME NEW k \in Nat, NEW S \in SUBSET (1 .. k + 1), k + 1 \in S
  PROVE  Max(S) = k + 1 /\ S \ {k + 1} \in SUBSET (1 .. k)
<1>1. \A x \in S : x \in Nat /\ k + 1 >= x
  OBVIOUS
<1>2. Max(S) \in S /\ \A y \in S : Max(S) >= y
  BY <1>1 DEF Max
<1>3. Max(S) = k + 1
  <2>1. Max(S) \in Nat /\ k + 1 >= Max(S) /\ Max(S) >= k + 1
    BY <1>1, <1>2
  <2> QED BY <2>1
<1>4. ASSUME NEW x \in S \ {k + 1} PROVE x \in 1 .. k
  OBVIOUS
<1> QED BY <1>3, <1>4

LEMMA FoldsExist ==
  ASSUME NEW lines, NEW base, NEW m \in Nat
  PROVE  \E f : Folds(lines, base, m, f)
<1> DEFINE Missing == {k \in Nat : ~ \E f : Folds(lines, base, k, f)}
<1>1. \E f : Folds(lines, base, 0, f)
  <2> DEFINE f == [S \in SUBSET (1 .. 0) |-> base]
  <2>1. SUBSET (1 .. 0) = {{}}
    OBVIOUS
  <2>2. Folds(lines, base, 0, f)
    BY <2>1 DEF Folds
  <2> QED BY <2>2
<1>2. ASSUME NEW k \in Nat, NEW f, Folds(lines, base, k, f)
      PROVE  \E g : Folds(lines, base, k + 1, g)
  <2> DEFINE g == [S \in SUBSET (1 .. k + 1) |->
                     IF k + 1 \in S THEN Suggest(f[S \ {k + 1}], lines[k + 1]) ELSE f[S]]
  <2>1. ASSUME NEW S \in SUBSET (1 .. k + 1)
        PROVE  g[S] = IF S = {} THEN base ELSE Suggest(g[S \ {Max(S)}], lines[Max(S)])
    <3>1. CASE k + 1 \in S
      <4>1. Max(S) = k + 1 /\ S \ {k + 1} \in SUBSET (1 .. k)
        BY <3>1, LastOf
      <4>2. S \ {k + 1} \in SUBSET (1 .. k + 1) /\ k + 1 \notin S \ {k + 1}
        OBVIOUS
      <4>3. g[S \ {k + 1}] = f[S \ {k + 1}]
        BY <4>2
      <4>4. g[S] = Suggest(f[S \ {k + 1}], lines[k + 1])
        BY <3>1
      <4> HIDE DEF g
      <4> QED BY <3>1, <4>1, <4>3, <4>4
    <3>2. CASE k + 1 \notin S /\ S # {}
      <4>1. S \in SUBSET (1 .. k)
        BY <3>2
      <4>2. S \ {Max(S)} \in SUBSET (1 .. k + 1) /\ k + 1 \notin S \ {Max(S)}
        BY <3>2
      <4>3. g[S] = f[S] /\ g[S \ {Max(S)}] = f[S \ {Max(S)}]
        BY <3>2, <4>2
      <4>4. f[S] = Suggest(f[S \ {Max(S)}], lines[Max(S)])
        BY <1>2, <3>2, <4>1 DEF Folds
      <4> HIDE DEF g
      <4> QED BY <3>2, <4>3, <4>4
    <3>3. CASE S = {}
      <4>1. S \in SUBSET (1 .. k) /\ k + 1 \notin S
        BY <3>3
      <4>2. f[S] = base
        BY <1>2, <3>3, <4>1 DEF Folds
      <4> QED BY <3>3, <4>1, <4>2
    <3> QED BY <3>1, <3>2, <3>3
  <2>2. g = [S \in SUBSET (1 .. k + 1) |-> g[S]]
    OBVIOUS
  <2> HIDE DEF g
  <2>3. Folds(lines, base, k + 1, g)
    BY <2>1, <2>2 DEF Folds
  <2> QED BY <2>3
<1>3. Missing = {}
  <2> SUFFICES ASSUME Missing # {} PROVE FALSE
    OBVIOUS
  <2>1. PICK n \in Missing : \A k \in Missing : n <= k
    BY LeastNumber
  <2>2. n # 0 /\ n \in Nat /\ ~ \E f : Folds(lines, base, n, f)
    BY <1>1, <2>1
  <2>3. n - 1 \in Nat /\ n - 1 \notin Missing /\ (n - 1) + 1 = n
    BY <2>1, <2>2
  <2>4. PICK f : Folds(lines, base, n - 1, f)
    BY <2>3
  <2> QED BY <1>2, <2>2, <2>3, <2>4
<1> QED BY <1>3

LEMMA FoldFair ==
  ASSUME NEW lines, NEW m \in Nat, DOMAIN lines = 1 .. m,
         \A i \in 1 .. m : lines[i][1] \in Serials,
         NEW base, Fair(base)
  PROVE  Fair(FoldLeft(Suggest, base, lines))
<1>1. PICK f : f = CHOOSE g : Folds(lines, base, m, g)
  OBVIOUS
<1>2. Folds(lines, base, m, f)
  BY <1>1, FoldsExist
<1> DEFINE Unfair == {k \in Nat : k <= m /\ ~Fair(f[1 .. k])}
<1>3. Fair(f[1 .. 0])
  <2>1. 1 .. 0 = {} /\ {} \in SUBSET (1 .. m)
    OBVIOUS
  <2>2. f[{}] = base
    BY <1>2, <2>1 DEF Folds
  <2> QED BY <2>1, <2>2
<1>4. ASSUME NEW k \in Nat, k + 1 <= m, Fair(f[1 .. k])
      PROVE  Fair(f[1 .. k + 1])
  <2>1. k + 1 \in 1 .. k + 1 /\ 1 .. k + 1 \in SUBSET (1 .. m) /\ k + 1 \in 1 .. m
        /\ (1 .. k + 1) \ {k + 1} = 1 .. k
    BY <1>4
  <2>2. Max(1 .. k + 1) = k + 1
    BY <2>1, LastOf
  <2>3. f[1 .. k + 1] = Suggest(f[1 .. k], lines[k + 1])
    BY <1>2, <2>1, <2>2 DEF Folds
  <2>4. lines[k + 1][1] \in Serials
    BY <2>1
  <2> QED BY <1>4, <2>3, <2>4, SuggestFair
<1>5. Unfair = {}
  <2> SUFFICES ASSUME Unfair # {} PROVE FALSE
    OBVIOUS
  <2>1. PICK n \in Unfair : \A k \in Unfair : n <= k
    BY LeastNumber
  <2>2. n # 0 /\ n \in Nat /\ n <= m /\ ~Fair(f[1 .. n])
    BY <1>3, <2>1
  <2>3. n - 1 \in Nat /\ n - 1 <= m /\ n - 1 \notin Unfair /\ (n - 1) + 1 = n
    BY <2>1, <2>2
  <2>4. Fair(f[1 .. n - 1])
    BY <2>3
  <2> QED BY <1>4, <2>2, <2>3, <2>4
<1>6. Fair(f[1 .. m])
  BY <1>5
<1> QED BY <1>1, <1>6, FoldIs

-----------------------------------------------------------------------------
OffersFair == Fair(offers)

LEMMA OfferFair ==
  ASSUME PortInvariant, NEW o \in Ops, Offer(o)
  PROVE  OffersFair'
<1>1. PICK lines \in Lines : offers' = FoldLeft(Suggest, NoOffers(op[o].seen), lines)
  BY DEF Offer
<1>2. PICK m \in 0 .. MaxLines :
        lines \in [1 .. m -> (Serials \ {unit[n].serial : n \in Numbers}) \X (0 .. MaxId)]
  BY DEF Lines
<1>3. DOMAIN lines = 1 .. m /\ m \in Nat /\ \A i \in 1 .. m : lines[i][1] \in Serials
  BY <1>2
<1>4. op[o].seen \in SUBSET Numbers
  BY DEF PortInvariant, PortTyped, Request
<1>5. Fair(NoOffers(op[o].seen))
  BY <1>4, NoneFair
<1>6. Fair(FoldLeft(Suggest, NoOffers(op[o].seen), lines))
  BY <1>3, <1>5, FoldFair
<1> QED BY <1>1, <1>6 DEF OffersFair

CommandsInvariant ==
  PortInvariant /\ OffersFair /\ begun \in 0 .. MaxRequests /\ doubts \in 0 .. MaxDoubts

LEMMA CommandsInit == Init => CommandsInvariant
BY PortInit, NoneFair DEF Init, CommandsInvariant, OffersFair

LEMMA CommandsStep == CommandsInvariant /\ [Next]_vars => CommandsInvariant'
<1> SUFFICES ASSUME CommandsInvariant, [Next]_vars PROVE CommandsInvariant'
  OBVIOUS
<1>1. PortInvariant'
  BY PortStep DEF CommandsInvariant
<1>2. OffersFair'
  <2>1. CASE \E o \in Ops : Offer(o)
    BY <2>1, OfferFair DEF CommandsInvariant
  <2>2. CASE offers' = NoOffers({})
    BY <2>2, NoneFair DEF OffersFair
  <2>3. CASE offers' = offers
    BY <2>3 DEF CommandsInvariant, OffersFair
  <2> QED BY <2>1, <2>2, <2>3 DEF Next, vars, Begin, SnmpTakes, SnmpRefuses, SnmpFails, Enter,
          NoSession, Accepted, Misread, Rejected, ProbeConfirms, ProbeFails
<1>3. begun' = begun \/ (begun < MaxRequests /\ begun' = begun + 1)
  BY DEF Next, vars, Begin, SnmpTakes, SnmpRefuses, SnmpFails, Enter,
         NoSession, Accepted, Misread, Rejected, ProbeConfirms, ProbeFails, Offer
<1>4. doubts' = doubts \/ (doubts < MaxDoubts /\ doubts' = doubts + 1)
  BY DEF Next, vars, Begin, SnmpTakes, SnmpRefuses, SnmpFails, Enter,
         NoSession, Accepted, Misread, Rejected, ProbeConfirms, ProbeFails, Offer
<1>5. begun' \in 0 .. MaxRequests /\ doubts' \in 0 .. MaxDoubts
  BY <1>3, <1>4 DEF CommandsInvariant
<1> QED BY <1>1, <1>2, <1>5 DEF CommandsInvariant

(* The inductive invariant: what each request has been told, that the lock *)
(* is held by the open session (withCLISession), that an ONU about to be   *)
(* described is the one registered (ProvisionONU), and that the list of    *)
(* offers is fair.                                                         *)
THEOREM CommandsInvariantHolds == Spec => []CommandsInvariant
BY CommandsInit, CommandsStep, PTL DEF Spec

(* Requests, ONUs and offers are always of their types: the bodies and the *)
(* sequences still to be tried (runCommand, runInMode) never go below      *)
(* zero, and every number offered is one of the port.                      *)
THEOREM Typed == Spec => []TypeOK
<1>1. CommandsInvariant => TypeOK
  BY DEF CommandsInvariant, PortInvariant, PortTyped, OffersFair, Fair, Listed, TypeOK
<1> QED BY <1>1, CommandsInvariantHolds, PTL

(* An ONU a reset has switched off stays off only while a reset is at work *)
(* on it, or is known to be off from an answer or an unnoticed refusal     *)
(* (ResetONUHybrid, BounceONUCli).                                         *)
THEOREM NoResetForgotten == Spec => []ResetsComeBack
<1>1. CommandsInvariant => ResetsComeBack
  BY DEF CommandsInvariant, PortInvariant
<1> QED BY <1>1, CommandsInvariantHolds, PTL

(* A description is on the ONU that was registered before it, or is known  *)
(* to be misplaced, whatever is deleted and registered meanwhile: both are *)
(* written in one session (ProvisionONU).                                  *)
THEOREM DescriptionsStandWhereMeant == Spec => []OwnDescriptions
<1>1. CommandsInvariant => OwnDescriptions
  BY DEF CommandsInvariant, PortInvariant
<1> QED BY <1>1, CommandsInvariantHolds, PTL

(* A request answers with success only when each goal of its plan was met  *)
(* while it was at work, or refused without being noticed; of a service    *)
(* port only when the OLT had taken its VLANs, or showed just these; of a  *)
(* WAN address at least when the OLT had some line with its number         *)
(* (verifyApplied).                                                        *)
THEOREM SuccessIsEarned == Spec => []SuccessMeansDone
<1>1. CommandsInvariant => SuccessMeansDone
  <2> SUFFICES ASSUME CommandsInvariant, NEW o \in Ops, op[o].at = "ok"
               PROVE  Achieved(op[o])
    BY DEF SuccessMeansDone, Achieved
  <2> QED BY IdleTyped DEF CommandsInvariant, PortInvariant, Whole, Over, AtWork
<1> QED BY <1>1, CommandsInvariantHolds, PTL

(* A list of unconfigured ONUs of any length offers no number that has a   *)
(* row and no number twice, and none only when none is left                *)
(* (pickSuggestedONUID, line by line).                                     *)
THEOREM OffersNeverClash == Spec => []OffersAreApart
<1>1. CommandsInvariant => OffersAreApart
  BY DEF CommandsInvariant, OffersFair, Fair, Apart, OffersAreApart
<1> QED BY <1>1, CommandsInvariantHolds, PTL
=============================================================================
