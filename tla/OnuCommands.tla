---------------------------- MODULE OnuCommands ----------------------------
(***************************************************************************)
(* The requests that change ONUs on one PON port of an OLT: provision,     *)
(* delete, reboot, disable, enable, reset, and the configuration of one    *)
(* item or of all (auto_config_onu).  Each is a plan of goals.  A goal is  *)
(* sent by an SNMP SET, or in CLI sessions as command sequences of which   *)
(* several variants are tried.  One CLI session per OLT is open at a time  *)
(* (withCLISession); SNMP takes no lock.  The list of ONUs the OLT does    *)
(* not know yet, with a free number suggested for each, is read in a CLI   *)
(* session too.                                                            *)
(*                                                                         *)
(* An answer can be lost after the OLT has obeyed, and a refusal can be    *)
(* taken for success: findCLICommandErrorLine knows some texts only (and a *)
(* Telnet answer that comes late is read as empty), and SetONUAdmin and    *)
(* ResetONU do not look at the error status of the SNMP response.          *)
(***************************************************************************)
EXTENDS Naturals, SequencesExt

CONSTANTS
  Serials, NoSerial, \* serial numbers of ONUs; none
  Ops, NoOp,         \* the requests at work at a time; none
  Vlans, NoVlan,     \* the VLANs of a service port (user-vlan and vlan); none
  Before,            \* the VLANs service ports may have at the start, or none
  MaxId,             \* the last ONU number of the port (128)
  Preambles,         \* sequences tried for a body: "enable", "configure" .. (5)
  Candidates,        \* CLI modes times syntaxes tried for an item
  MaxRequests,       \* bounds the requests
  MaxDoubts,         \* bounds the refusals taken for success
  MaxLines           \* bounds the lines of a list

Numbers == 1 .. MaxId

ASSUME CommandConstants ==
  /\ MaxId \in Nat /\ NoOp \notin Ops /\ NoSerial \notin Serials
  /\ NoVlan \notin Vlans /\ Before \subseteq Vlans \cup {NoVlan}
  /\ Preambles \in Nat \ {0} /\ Candidates \in Nat \ {0}
  /\ MaxRequests \in Nat /\ MaxDoubts \in Nat /\ MaxLines \in Nat

VARIABLES
  unit,     \* the ONUs of the port, by number, on the OLT
  lock,     \* the request whose CLI session is open
  op,       \* the requests
  offers,   \* the last list of unconfigured ONUs answered, until a request begins
  begun,    \* how many requests have begun
  doubts    \* how many refusals were taken for success

vars == <<unit, lock, op, offers, begun, doubts>>

(* The goals of each request.  A configured wan_ip is followed by its ping *)
(* and traceroute options, here one goal; so may a service port be by its  *)
(* mode and description, which are left out.  A name, a description and    *)
(* the deletion of a tcont or a gemport are sent as a gemport is, and not  *)
(* read back either.                                                       *)
Items == {"tcont", "gemport", "service_port", "wan_ip"}
Plans ==
  [provision |-> {<<"register">>, <<"register", "describe">>},
   delete    |-> {<<"remove">>},
   reboot    |-> {<<"restart">>},
   disable   |-> {<<"off">>},
   enable    |-> {<<"on">>},
   reset     |-> {<<"off", "on">>},
   set       |-> {<<i>> : i \in Items \ {"wan_ip"}} \cup {<<"wan_ip", "wan_options">>},
   unset     |-> {<<"no_service_port">>, <<"no_wan_ip">>},
   auto      |-> {<<"tcont", "gemport", "service_port", "wan_ip", "wan_options">>},
   list      |-> {<<"read">>}]
Kinds == DOMAIN Plans
Goals == UNION {UNION {Range(p) : p \in Plans[k]} : k \in Kinds}

(* How a request may reach the OLT: over SNMP only, over SNMP and then the *)
(* CLI, or over the CLI only.                                              *)
Ways(kind, plan) ==
  IF kind \in {"disable", "enable"} THEN {"snmp", "cli"}
  ELSE IF kind \in {"reboot", "reset"} THEN {"both", "cli"}
  ELSE IF kind = "auto" THEN {"both"}
  ELSE IF plan = <<"service_port">> THEN {"snmp", "both", "cli"}
  ELSE {"cli"}

SnmpGoals == {"restart", "off", "on", "service_port"}

(* What is read back after a goal, and what that confirms: of a service    *)
(* port only its number and VLANs, for any other field may be missing in   *)
(* what is shown; of a WAN address only that there is some line with its   *)
(* number, which the options make as well as the address; of a tcont       *)
(* nothing, for the profile may be that of another one; of a removed       *)
(* wan_ip nothing, for a section that was not read counts as empty.        *)
Probed    == {"tcont", "service_port", "wan_options", "no_wan_ip"}
Confirms  == [service_port |-> "service_port", wan_options |-> "wan_row"]
Confirmed == {Confirms[g] : g \in DOMAIN Confirms}
Met       == Goals \cup Confirmed

(* The VLANs a request may ask for.                                        *)
Asked(plan) == IF "service_port" \in Range(plan) THEN Vlans ELSE {NoVlan}

(* Of the items of an ONU, those a probe must show: the VLANs of a service *)
(* port and whether a WAN address has any line, one number of each.        *)
Unit  == [serial : Serials \cup {NoSerial}, label : Serials \cup {NoSerial, "misplaced"},
          half : {"no", "yes", "told"},  \* switched off by a reset, and not on
          vlan : Vlans \cup {NoVlan}, wan : BOOLEAN]
Blank == [serial |-> NoSerial, label |-> NoSerial, half |-> "no", vlan |-> NoVlan, wan |-> FALSE]

Idle == [kind |-> "list", n |-> 1, serial |-> NoSerial, vlan |-> NoVlan, plan |-> <<>>, step |-> 1,
         via |-> "cli", at |-> "idle", bodies |-> 0, seqs |-> 0,
         done |-> {}, misread |-> {}, ignored |-> {}, seen |-> {}]

Request ==
  [kind : Kinds, n : Nat, serial : Serials \cup {NoSerial}, vlan : Vlans \cup {NoVlan},
   plan : Seq(Goals), step : Nat, via : {"snmp", "both", "cli"},
   at : {"idle", "snmp", "cli", "in", "probe", "ok"}, bodies : Nat, seqs : Nat,
   done : SUBSET Met, misread : SUBSET Goals, ignored : SUBSET Goals,
   seen : SUBSET Numbers]

Working(o) == op[o].at \notin {"idle", "ok"}
Goal(o)    == op[o].plan[op[o].step]

TypeOK ==
  /\ unit \in [Numbers -> Unit]
  /\ lock \in Ops \cup {NoOp}
  /\ op \in [Ops -> Request]
  /\ offers \in [used : SUBSET Numbers, named : SUBSET Serials,
                  given : [Serials -> Numbers \cup {0}]]
  /\ begun \in 0 .. MaxRequests /\ doubts \in 0 .. MaxDoubts

NoOffers(used) ==
  [used |-> used, named |-> {}, given |-> [s \in Serials |-> 0]]

Registered == {n \in Numbers : unit[n].serial # NoSerial}

AtStart == {u \in Unit : /\ u.label = NoSerial /\ u.half = "no" /\ ~u.wan
                         /\ IF u.serial = NoSerial THEN u.vlan = NoVlan ELSE u.vlan \in Before}

Init ==
  /\ unit \in [Numbers -> AtStart]
  /\ \A m, n \in Registered : unit[m].serial = unit[n].serial => m = n
  /\ lock = NoOp
  /\ op = [o \in Ops |-> Idle]
  /\ offers = NoOffers({})
  /\ begun = 0 /\ doubts = 0

-----------------------------------------------------------------------------
(* The OLT.  It refuses a number or a serial number in use, and commands   *)
(* for an ONU it does not know.                                            *)
Possible(o) ==
  LET u == unit[op[o].n] IN
  CASE Goal(o) = "register" -> /\ u.serial = NoSerial
                               /\ \A n \in Numbers : unit[n].serial # op[o].serial
    [] Goal(o) = "read"     -> TRUE
    [] OTHER                -> u.serial # NoSerial

Effect(o) ==
  LET u == unit[op[o].n] IN
  CASE Goal(o) = "register" -> [Blank EXCEPT !.serial = op[o].serial]
    [] Goal(o) = "describe" -> [u EXCEPT !.label = IF "register" \in op[o].misread
                                                 THEN "misplaced" ELSE op[o].serial]
    [] Goal(o) = "remove"   -> Blank
    [] Goal(o) = "off"      -> [u EXCEPT !.half = IF op[o].kind = "reset" THEN "yes" ELSE "no"]
    [] Goal(o) = "on"       -> [u EXCEPT !.half = "no"]
    [] Goal(o) = "service_port"    -> [u EXCEPT !.vlan = op[o].vlan]
    [] Goal(o) = "no_service_port" -> [u EXCEPT !.vlan = NoVlan]
    [] Goal(o) \in {"wan_ip", "wan_options"} -> [u EXCEPT !.wan = TRUE]
    [] Goal(o) = "no_wan_ip"       -> [u EXCEPT !.wan = FALSE]
    [] OTHER                -> u

-----------------------------------------------------------------------------
(* Where a request stands.  The bodies tried for a goal, each with its     *)
(* sequences: two syntaxes of a description, all candidates of an item.    *)
Configuring(kind)  == kind \in {"set", "unset", "auto"}
Bodies(kind, goal) == IF goal = "describe" THEN 2
                      ELSE IF Configuring(kind) THEN Candidates ELSE 1
Sequences(kind)    == IF Configuring(kind) \/ kind = "provision" THEN Preambles ELSE 1

\* Bug: the description is written in a session of its own.
OwnSession(r) == "cli"

(* ProvisionONU registers and describes in one session; the other requests *)
(* open one for each body.                                                 *)
Session(r) == IF r.kind = "provision" /\ r.at = "in" THEN "in" ELSE "cli"

Ready(r) ==
  LET goal == r.plan[r.step] IN
  [r EXCEPT !.at     = IF r.via # "cli" /\ goal \in SnmpGoals THEN "snmp" ELSE Session(r),
            !.bodies = Bodies(r.kind, goal),
            !.seqs   = Sequences(r.kind)]

(* The answer.  Of a request that is over, what it has achieved is kept.   *)
Succeeds(r) == [Idle EXCEPT !.at = "ok", !.plan = r.plan,
                  !.done = r.done, !.misread = r.misread, !.ignored = r.ignored]
Failed      == Idle

Onward(r) == IF r.step = Len(r.plan) THEN Succeeds(r)
             ELSE Ready([r EXCEPT !.step = @ + 1])

(* A goal the OLT is taken to have met is probed, or left at that.         *)
Passed(r) == IF r.plan[r.step] \in Probed THEN [r EXCEPT !.at = "probe"] ELSE Onward(r)

AnotherBody(r) == [r EXCEPT !.at = Session(r), !.bodies = @ - 1, !.seqs = Sequences(r.kind)]

\* Bug: BounceONUCli does not look at the error of the second switch.
OffIsEnough(r) ==
  IF r.bodies > 1 THEN AnotherBody(r)
  ELSE IF r.plan[r.step] = "on" THEN Succeeds(r) ELSE Failed

BodyFails(r) == IF r.bodies > 1 THEN AnotherBody(r) ELSE Failed

(* History: that a reset has left it off is known from the answer; or the  *)
(* OLT has refused to switch it on again, and was not understood.          *)
Told(u, o, r) ==
  IF op[o].kind = "reset" /\ r = Failed /\ u.half = "yes" THEN [u EXCEPT !.half = "told"]
                                                           ELSE u
Unnoticed(u, o) == IF Goal(o) = "on" /\ u.half = "yes" THEN [u EXCEPT !.half = "told"] ELSE u

Becomes(o, r, u) ==
  /\ op'   = [op EXCEPT ![o] = r]
  /\ unit' = [unit EXCEPT ![op[o].n] = Told(u, o, r)]
  /\ lock' = IF r.at = "in" THEN o ELSE IF lock = o THEN NoOp ELSE lock

(* The ONU after an attempt that was answered by an error, or by nothing.  *)
Attempted(o) == {unit[op[o].n]} \cup (IF Possible(o) THEN {Effect(o)} ELSE {})

-----------------------------------------------------------------------------
(* A request arrives.  The list reads which numbers have a row (OnuRows)   *)
(* before it opens a session.                                              *)
Begin(o) ==
  /\ ~Working(o) /\ begun < MaxRequests
  /\ \E kind \in Kinds, n \in Numbers, s \in Serials \cup {NoSerial},
        seen \in SUBSET Numbers :
     \E plan \in Plans[kind] : \E via \in Ways(kind, plan), v \in Asked(plan) :
       /\ s = NoSerial <=> kind # "provision"
       /\ kind = "list" => n = 1
       /\ kind # "list" => seen = {}
       /\ op' = [op EXCEPT ![o] =
                   Ready([Idle EXCEPT !.kind = kind, !.n = n, !.serial = s, !.vlan = v,
                            !.plan = plan, !.via = via, !.seen = seen])]
  /\ begun' = begun + 1
  /\ offers' = NoOffers({})
  /\ UNCHANGED <<unit, lock, doubts>>

(* ResetONU, SetONUAdmin, applyServicePortViaSNMP: the SET is obeyed and   *)
(* answered (the service port is also read back).                          *)
SnmpTakes(o) ==
  /\ op[o].at = "snmp" /\ Possible(o)
  /\ Becomes(o, Onward([op[o] EXCEPT !.done = @ \cup {Goal(o)}]), Effect(o))
  /\ UNCHANGED <<offers, begun, doubts>>

(* The OLT refuses it by the error status of its response, which ResetONU  *)
(* and SetONUAdmin do not look at.                                         *)
SnmpRefuses(o) ==
  /\ op[o].at = "snmp" /\ Goal(o) # "service_port"
  /\ doubts < MaxDoubts /\ doubts' = doubts + 1
  /\ Becomes(o, Onward([op[o] EXCEPT !.ignored = @ \cup {Goal(o)}]),
             Unnoticed(unit[op[o].n], o))
  /\ UNCHANGED <<offers, begun>>

(* No connection or no answer, or a refused service port.  The CLI is next *)
(* (a reset starts again), or the request fails.                           *)
SnmpFails(o) ==
  /\ op[o].at = "snmp"
  /\ \E u \in Attempted(o) :
       Becomes(o, IF op[o].via = "snmp" THEN Failed
                  ELSE Ready([op[o] EXCEPT !.via = "cli",
                                !.step = IF op[o].kind = "reset" THEN 1 ELSE @]), u)
  /\ UNCHANGED <<offers, begun, doubts>>

-----------------------------------------------------------------------------
(* withCLISession: the lock is taken for the session, or there is no       *)
(* session: the lock is busy, or the OLT does not let the client in.       *)
Enter(o) ==
  /\ op[o].at = "cli" /\ lock = NoOp
  /\ lock' = o
  /\ op' = [op EXCEPT ![o].at = "in"]
  /\ UNCHANGED <<unit, offers, begun, doubts>>

NoSession(o) ==
  /\ op[o].at = "cli"
  /\ Becomes(o, BodyFails(op[o]), unit[op[o].n])
  /\ UNCHANGED <<offers, begun, doubts>>

(* ExecuteSequence runs all of its commands and sees no error ..           *)
Accepted(o) ==
  /\ op[o].at = "in" /\ Goal(o) # "read" /\ Possible(o)
  /\ Becomes(o, Passed([op[o] EXCEPT !.done = @ \cup {Goal(o)}]), Effect(o))
  /\ UNCHANGED <<offers, begun, doubts>>

(* .. though the OLT refused one ..                                        *)
Misread(o) ==
  /\ op[o].at = "in" /\ Goal(o) # "read"
  /\ doubts < MaxDoubts /\ doubts' = doubts + 1
  /\ Becomes(o, Passed([op[o] EXCEPT !.misread = @ \cup {Goal(o)}]),
             Unnoticed(unit[op[o].n], o))
  /\ UNCHANGED <<offers, begun>>

(* .. or it sees one, before or after the OLT has obeyed: the next         *)
(* sequence is tried, or (also when the client itself is at its rate       *)
(* limit) the body has failed.                                             *)
Rejected(o) ==
  /\ op[o].at = "in"
  /\ \E u \in Attempted(o) :
       \/ op[o].seqs > 1 /\ Becomes(o, [op[o] EXCEPT !.seqs = @ - 1], u)
       \/ Becomes(o, BodyFails(op[o]), u)
  /\ UNCHANGED <<offers, begun, doubts>>

(* verifyApplied reads the configuration in a session of its own, several  *)
(* times, until it shows the change.  A section of it that the OLT does    *)
(* not answer for is left out; a table of service ports shows no VLANs.    *)
RunningConfig(u) == [vlan |-> u.vlan, wan |-> u.wan]

\* Bug: a service port is known by its number, whatever its VLANs are.
PassesByNumber(r, config) ==
  CASE r.plan[r.step] = "service_port" -> config.vlan \in Vlans
    [] r.plan[r.step] = "wan_options"  -> config.wan
    [] OTHER                           -> TRUE

Passes(r, config) ==
  CASE r.plan[r.step] = "service_port" -> config.vlan \in Vlans /\ config.vlan = r.vlan
    [] r.plan[r.step] = "wan_options"  -> config.wan
    [] OTHER                           -> TRUE

(* History: what of a request the OLT has, whatever is shown of it.        *)
Stands(o) ==
  LET u == unit[op[o].n] IN
  {c \in {Confirms[g] : g \in {Goal(o)} \cap DOMAIN Confirms} :
     IF c = "service_port" THEN u.vlan = op[o].vlan ELSE u.wan}

ProbeConfirms(o) ==
  /\ op[o].at = "probe" /\ lock = NoOp
  /\ \E config \in {RunningConfig(Blank), RunningConfig(unit[op[o].n])} : Passes(op[o], config)
  /\ Becomes(o, Onward([op[o] EXCEPT !.done = @ \cup Stands(o)]), unit[op[o].n])
  /\ UNCHANGED <<offers, begun, doubts>>

(* No reading shows it, or another field of it is shown and is not as      *)
(* asked.                                                                  *)
ProbeFails(o) ==
  /\ op[o].at = "probe"
  /\ Becomes(o, Failed, unit[op[o].n])
  /\ UNCHANGED <<offers, begun, doubts>>

-----------------------------------------------------------------------------
(* "show gpon onu uncfg": each line names a serial number and perhaps an   *)
(* ONU number.  A serial named again is dropped; each other one is offered *)
(* the number of its line if that is still free, or the first free one.    *)
Lines == UNION {[1 .. k -> (Serials \ {unit[n].serial : n \in Numbers}) \X (0 .. MaxId)] :
                  k \in 0 .. MaxLines}

Empty(list) == Numbers \ (list.used \cup Range(list.given))

(* pickSuggestedONUID: the number the line names if it is empty, or the    *)
(* first empty one, or none.                                               *)
PickSuggested(empty, hint) ==
  IF empty = {} THEN 0 ELSE IF hint \in empty THEN hint ELSE Min(empty)

\* Bug: a number the line names is taken although it has been offered.
HintRegardless(list, line) ==
  IF line[1] \in list.named THEN list
  ELSE [list EXCEPT !.named = @ \cup {line[1]},
          !.given[line[1]] = IF line[2] \in Numbers \ list.used THEN line[2]
                             ELSE PickSuggested(Empty(list), line[2])]

Suggest(list, line) ==
  IF line[1] \in list.named THEN list
  ELSE [list EXCEPT !.named = @ \cup {line[1]},
          !.given[line[1]] = PickSuggested(Empty(list), line[2])]

Offer(o) ==
  /\ op[o].at = "in" /\ Goal(o) = "read"
  /\ \E lines \in Lines : offers' = FoldLeft(Suggest, NoOffers(op[o].seen), lines)
  /\ Becomes(o, Onward([op[o] EXCEPT !.done = {"read"}]), unit[op[o].n])
  /\ UNCHANGED <<begun, doubts>>

-----------------------------------------------------------------------------
Next ==
  \E o \in Ops :
       \/ Begin(o)
       \/ SnmpTakes(o) \/ SnmpRefuses(o) \/ SnmpFails(o)
       \/ Enter(o) \/ NoSession(o)
       \/ Accepted(o) \/ Misread(o) \/ Rejected(o)
       \/ ProbeConfirms(o) \/ ProbeFails(o)
       \/ Offer(o)

Spec == Init /\ [][Next]_vars

-----------------------------------------------------------------------------
(* An ONU that a reset has switched off is off only while a reset is at    *)
(* work on it, or after one has answered with an error, or the OLT has     *)
(* refused the second switch without being noticed: whatever way, session  *)
(* or attempt fails between the two switches, and whichever other requests *)
(* for the ONU come in between (ResetONUHybrid, BounceONUCli).             *)
ResetsComeBack ==
  \A n \in Numbers : unit[n].half = "yes" =>
    \E o \in Ops : Working(o) /\ op[o].kind = "reset" /\ op[o].n = n

(* A description written at provisioning stands on the ONU it was meant    *)
(* for, even when the number is deleted and given to another meanwhile     *)
(* (ProvisionONU, one session for both bodies), unless the OLT refused the *)
(* registration before it without being noticed.                           *)
OwnDescriptions ==
  \A n \in Numbers : unit[n].label \in {NoSerial, "misplaced", unit[n].serial}

(* A request that answers with success has had each of its goals met by    *)
(* the OLT while it was at work, by whichever way, candidate or attempt,   *)
(* except for refusals it was given and did not notice (ApplyONUConfigCLI, *)
(* verifyApplied).  These never concern the VLANs of a service port: one   *)
(* that was refused counts as set only if the OLT showed the VLANs asked,  *)
(* not when another request has left others there.  They may concern its   *)
(* other fields, and a WAN address, of which a success says only that the  *)
(* OLT had some line with its number.                                      *)
SuccessMeansDone ==
  \A o \in Ops : op[o].at = "ok" =>
    /\ Range(op[o].plan) \subseteq op[o].done \cup op[o].ignored
                                    \cup (op[o].misread \ {"service_port"})
    /\ "wan_options" \in Range(op[o].plan) => "wan_row" \in op[o].done

(* A list of unconfigured ONUs offers no number that had a row, none to    *)
(* two serial numbers, and none at all only when none is left.             *)
OffersAreApart ==
  /\ Range(offers.given) \cap offers.used = {}
  /\ \A s, t \in offers.named :
       s # t => offers.given[s] # offers.given[t] \/ offers.given[s] = 0
  /\ \A s \in offers.named : offers.given[s] = 0 => Empty(offers) = {}
=============================================================================
