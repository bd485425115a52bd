------------------------------- MODULE Linker -------------------------------
(***************************************************************************)
(* The linker agent: a host behind the backend that sends the replies of   *)
(* its overlay address, and on request the traffic of some container       *)
(* networks, to the backend over the LAN (internal/linker and the linker   *)
(* half of internal/sysx).                                                 *)
(*                                                                         *)
(* Two goroutines shell out: Run's reconcile ticker ("tick") and the       *)
(* control session that receives the egress networks ("push").  Only       *)
(* applyEgress serialises its commands, under applyMu.  Every command may  *)
(* fail, the agent may be killed between any two of them and restarted     *)
(* with another linker.table in its bootstrap file, the LAN interface may  *)
(* bounce and take the default route of the table with it, and the revert  *)
(* command may be run while the unit is stopped.                           *)
(*                                                                         *)
(* A rule of the policy routing database is known by its selector, its     *)
(* table and whether it stands at the priority this system pins.           *)
(***************************************************************************)
EXTENDS Naturals, FiniteSets

CONSTANTS Tables,      \* the values linker.table may have over time
          HostTable,   \* a routing table of the host's own
          Lists,       \* the lists of networks the frontend may push
          NoNets,      \* the empty list
          Unusable,    \* the lists none of whose entries is an IPv4 network
          MaxPushes, MaxFaults, MaxRestarts

ASSUME ListsAssumption == /\ NoNets \in Lists
                          /\ Unusable \subseteq Lists \ {NoNets}
                          /\ HostTable \notin Tables

VARIABLES
  rules,      \* selector -> rules of that selector, as [table, pinned]
  deny,       \* the unreachable rule behind the egress lookup
  route,      \* table -> its default route: "backend", "other" or "none"
  addr,       \* the overlay address is on its device
  returnTab,  \* the connection-marking nft table is loaded
  egressTab,  \* the list whose egress nft table is loaded, NoNets for none
  table,      \* linker.table of the running (or next reverting) process
  returnOK, egressKnown, egressWant, egressHave, egressOK,   \* Linker's fields
  applyMu,    \* the thread holding the lock, or "free"
  pc,         \* thread -> where it stands
  arg,        \* thread -> the list its applyEgress was called with
  boot,       \* the ticker's goroutine is still in apply, before its loop
  removing,   \* an egress removal has begun and has not completed
  clean,      \* no command of the revert under way has failed
  unmarked,   \* tables given our default with no source rule pointing at them
  faults, pushes, restarts

kernel == <<rules, deny, route, addr, returnTab, egressTab>>
memory == <<returnOK, egressKnown, egressWant, egressHave, egressOK>>
counts == <<faults, pushes, restarts>>
vars == <<kernel, memory, table, applyMu, pc, arg, boot, removing, unmarked,
          clean, counts>>

Threads == {"tick", "push"}
Selectors == {"from", "mark", "egress"}
Rule(t, p) == [table |-> t, pinned |-> p]
Mine == Rule(table, TRUE)

TypeOK ==
  /\ rules \in [Selectors -> SUBSET [table : Tables \cup {HostTable}, pinned : BOOLEAN]]
  /\ route \in [Tables \cup {HostTable} -> {"backend", "other", "none"}]
  /\ {deny, addr, returnTab, returnOK, egressKnown, egressOK, boot, removing, clean}
       \subseteq BOOLEAN
  /\ {egressTab, egressWant, egressHave, arg["tick"], arg["push"]} \subseteq Lists
  /\ table \in Tables /\ unmarked \subseteq Tables
  /\ applyMu \in Threads \cup {"free"}
  /\ faults <= MaxFaults

(* A host that policy-routes already, with its own rules on the same marks, *)
(* and perhaps the unpinned rule of an older build with the route behind it. *)
HostRules == [s \in Selectors |-> IF s = "from" THEN {} ELSE {Rule(HostTable, FALSE)}]

Init ==
  /\ \E old \in {{}} \cup {{t} : t \in Tables} :
       /\ rules = [HostRules EXCEPT !["from"] = {Rule(t, FALSE) : t \in old}]
       /\ route = [t \in Tables \cup {HostTable} |->
                     IF t = HostTable THEN "other"
                     ELSE IF t \in old THEN "backend" ELSE "none"]
  /\ deny = FALSE /\ addr = FALSE /\ returnTab = FALSE /\ egressTab = NoNets
  /\ table \in Tables
  /\ returnOK = FALSE /\ egressKnown = FALSE /\ egressOK = FALSE
  /\ egressWant = NoNets /\ egressHave = NoNets
  /\ applyMu = "free"
  /\ pc = [th \in Threads |-> IF th = "tick" THEN "addr" ELSE "off"]
  /\ arg = [th \in Threads |-> NoNets]
  /\ boot = TRUE /\ removing = FALSE /\ clean = TRUE /\ unmarked = {}
  /\ faults = 0 /\ pushes = 0 /\ restarts = 0

Goto(th, label) == pc' = [pc EXCEPT ![th] = label]

Fails == faults < MaxFaults /\ faults' = faults + 1

-----------------------------------------------------------------------------
(* The rules of one selector.                                              *)

(* Every rule on one of our marks is taken for ours.                       *)
OwnsAll(sel) == rules[sel]

(* The rules this system may sweep: every rule on the overlay address; of  *)
(* the mark rules only those in its table or at its priority.              *)
Owned(sel) == {r \in rules[sel] : sel = "from" \/ r.table = table \/ r.pinned}

(* Strays are withdrawn without relieving the table they point at.         *)
WithdrawsBlindly(sel, strays, kept) ==
  \E gone \in SUBSET strays :
    /\ faults' = faults + Cardinality(strays \ gone) /\ faults' <= MaxFaults
    /\ rules' = [rules EXCEPT ![sel] = kept \ gone]
    /\ UNCHANGED route

(* Withdraws strays, each one only once its table holds no default of      *)
(* ours; a failing route delete keeps both, a failing rule delete keeps    *)
(* the rule.                                                               *)
Withdraw(sel, strays, kept) ==
  \E gone \in SUBSET strays : \E relieved \in SUBSET (strays \ gone) :
    /\ faults' = faults + Cardinality(strays \ gone)
    /\ faults' <= MaxFaults
    /\ rules' = [rules EXCEPT ![sel] = kept \ gone]
    /\ route' = [t \in DOMAIN route |->
                   IF /\ t # table /\ route[t] = "backend"
                      /\ \E r \in gone \cup relieved : r.table = t
                   THEN "none" ELSE route[t]]

(* The wanted rule is added first, and only then the strays go.            *)
EnsurePinnedRule(sel) ==
  Withdraw(sel, Owned(sel) \ {Mine}, rules[sel] \cup {Mine})

RemovePinnedRule(sel) == Withdraw(sel, Owned(sel), rules[sel])

(* Installed whether or not the rule before it was.                        *)
EnsureLinkerRoute ==
  /\ route' = [route EXCEPT ![table] = "backend"]
  /\ unmarked' = IF \E r \in rules["from"] : r.table = table THEN unmarked
                 ELSE unmarked \cup {table}

-----------------------------------------------------------------------------
(* Run's goroutine: apply at start, then reconcile on every tick.          *)

Tick ==
  /\ pc["tick"] = "idle"
  /\ Goto("tick", "addr")
  /\ UNCHANGED <<kernel, memory, table, applyMu, arg, boot, removing, unmarked, clean, counts>>

EnsureOverlayAddress ==
  /\ pc["tick"] = "addr" /\ Goto("tick", "from")
  /\ \/ addr' = TRUE /\ UNCHANGED faults
     \/ Fails /\ UNCHANGED addr
  /\ UNCHANGED <<rules, deny, route, returnTab, egressTab, memory, table, applyMu, arg,
                 boot, removing, unmarked, clean, pushes, restarts>>

EnsureLinkerRule ==
  /\ pc["tick"] = "from"
  /\ Goto("tick", IF boot THEN "route" ELSE IF returnOK THEN "mark" ELSE "return")
  /\ \/ EnsurePinnedRule("from") /\ unmarked' = unmarked \ {table}
     \/ Fails /\ UNCHANGED <<rules, route, unmarked>>
  /\ UNCHANGED <<deny, addr, returnTab, egressTab, memory, table, applyMu, arg, boot,
                 removing, clean, pushes, restarts>>

ApplyRoute ==
  /\ pc["tick"] = "route" /\ Goto("tick", "return")
  /\ \/ EnsureLinkerRoute /\ UNCHANGED faults
     \/ Fails /\ UNCHANGED <<route, unmarked>>
  /\ UNCHANGED <<rules, deny, addr, returnTab, egressTab, memory, table, applyMu, arg,
                 boot, removing, clean, pushes, restarts>>

AfterReturn == IF boot THEN "booted" ELSE "retry"

(* ensureReturnPath: the marking table, and only if it loaded its rule.    *)
EnsureReturnPath ==
  /\ pc["tick"] = "return"
  /\ \/ /\ returnTab' = TRUE /\ returnOK' = TRUE
        /\ Goto("tick", "mark") /\ UNCHANGED faults
     \/ /\ Fails /\ Goto("tick", AfterReturn)
        /\ UNCHANGED <<returnTab, returnOK>>
  /\ UNCHANGED <<rules, deny, route, addr, egressTab, egressKnown, egressWant, egressHave,
                 egressOK, table, applyMu, arg, boot, removing, unmarked, clean, pushes,
                 restarts>>

EnsureLinkerMarkRule ==
  /\ pc["tick"] = "mark" /\ Goto("tick", AfterReturn)
  /\ \/ EnsurePinnedRule("mark")
     \/ Fails /\ UNCHANGED <<rules, route>>
  /\ UNCHANGED <<deny, addr, returnTab, egressTab, memory, table, applyMu, arg, boot,
                 removing, unmarked, clean, pushes, restarts>>

(* Run starts the control client once apply has returned.                  *)
Booted ==
  /\ pc["tick"] = "booted"
  /\ boot' = FALSE
  /\ pc' = [th \in Threads |-> "idle"]
  /\ UNCHANGED <<kernel, memory, table, applyMu, arg, removing, unmarked, clean, counts>>

(* Only a missing table is retried, not a list that failed.                *)
NeverPending == FALSE

Pending == egressKnown /\ ~(egressOK /\ egressHave = egressWant)

(* The list wanted is copied under mu, which is released before it is used. *)
RetryEgress ==
  /\ pc["tick"] = "retry"
  /\ IF Pending
     THEN Goto("tick", "enter") /\ arg' = [arg EXCEPT !["tick"] = egressWant]
     ELSE Goto("tick", "check") /\ UNCHANGED arg
  /\ UNCHANGED <<kernel, memory, table, applyMu, boot, removing, unmarked, clean, counts>>

ReconcileRoute ==
  /\ pc["tick"] = "check" /\ Goto("tick", "idle")
  /\ \/ route[table] = "backend" /\ UNCHANGED <<route, unmarked, faults>>
     \/ route[table] # "backend" /\ EnsureLinkerRoute /\ UNCHANGED faults
     \/ Fails /\ UNCHANGED <<route, unmarked>>
  /\ UNCHANGED <<rules, deny, addr, returnTab, egressTab, memory, table, applyMu, arg,
                 boot, removing, clean, pushes, restarts>>

-----------------------------------------------------------------------------
(* The control session's goroutine hands each pushed list to applyEgress.  *)

Push(l) ==
  /\ pc["push"] = "idle" /\ pushes < MaxPushes
  /\ pushes' = pushes + 1
  /\ arg' = [arg EXCEPT !["push"] = l]
  /\ Goto("push", "enter")
  /\ UNCHANGED <<kernel, memory, table, applyMu, boot, removing, unmarked, clean, faults,
                 restarts>>

-----------------------------------------------------------------------------
(* applyEgress, on either thread.                                          *)

Return(th) == IF th = "tick" THEN "check" ELSE "idle"

Enter(th) ==
  /\ pc[th] = "enter"
  /\ egressKnown' = TRUE /\ egressWant' = arg[th]
  /\ Goto(th, IF egressOK /\ egressHave = arg[th] THEN Return(th) ELSE "lock")
  /\ UNCHANGED <<kernel, returnOK, egressHave, egressOK, table, applyMu, arg, boot,
                 removing, unmarked, clean, counts>>

(* A list with nothing usable in it is recorded and leaves the rules as    *)
(* they are.                                                               *)
Lock(th) ==
  /\ pc[th] = "lock" /\ applyMu = "free"
  /\ applyMu' = th
  /\ Goto(th, IF arg[th] \in Unusable THEN "commit"
              ELSE IF arg[th] = NoNets THEN "unrule" ELSE "iface")
  /\ removing' = (removing \/ arg[th] = NoNets)
  /\ UNCHANGED <<kernel, memory, table, arg, boot, unmarked, clean, counts>>

(* A failed command of installEgress ends applyEgress.                     *)
InstallFails(th) ==
  /\ pc[th] \in {"iface", "rule", "deny", "load"} /\ Fails
  /\ egressOK' = FALSE /\ applyMu' = "free" /\ Goto(th, Return(th))
  /\ UNCHANGED <<kernel, returnOK, egressKnown, egressWant, egressHave, table, arg, boot,
                 removing, unmarked, clean, pushes, restarts>>

(* The ruleset is loaded before its rules: the steps in the other order.   *)
LoadsFirst(th) ==
  /\ pc[th] = "iface" /\ Goto(th, "rule")
  /\ egressTab' = arg[th] /\ removing' = FALSE
  /\ UNCHANGED <<rules, deny, route, addr, returnTab, memory, table, applyMu, arg, boot,
                 unmarked, clean, counts>>

LanIfaceTo(th) ==
  /\ pc[th] = "iface" /\ Goto(th, "rule")
  /\ UNCHANGED <<kernel, memory, table, applyMu, arg, boot, removing, unmarked, clean, counts>>

EnsureEgressRule(th) ==
  /\ pc[th] = "rule" /\ Goto(th, "deny")
  /\ EnsurePinnedRule("egress")
  /\ UNCHANGED <<deny, addr, returnTab, egressTab, memory, table, applyMu, arg, boot,
                 removing, unmarked, clean, pushes, restarts>>

EnsureDenyRule(th) ==
  /\ pc[th] = "deny" /\ Goto(th, "load")
  /\ deny' = TRUE
  /\ UNCHANGED <<rules, route, addr, returnTab, egressTab, memory, table, applyMu, arg,
                 boot, removing, unmarked, clean, counts>>

LoadEgress(th) ==
  /\ pc[th] = "load" /\ Goto(th, "commit")
  /\ egressTab' = arg[th] /\ removing' = FALSE
  /\ UNCHANGED <<rules, deny, route, addr, returnTab, memory, table, applyMu, arg, boot,
                 unmarked, clean, counts>>

Commit(th) ==
  /\ pc[th] = "commit" /\ Goto(th, Return(th))
  /\ egressHave' = arg[th] /\ egressOK' = TRUE /\ applyMu' = "free"
  /\ UNCHANGED <<kernel, returnOK, egressKnown, egressWant, table, arg, boot,
                 removing, unmarked, clean, counts>>

(* RemoveLinkerEgressRuleset: three removals, whose failures nobody sees.  *)
RemoveRule(th) ==
  /\ pc[th] = "unrule" /\ Goto(th, "undeny")
  /\ RemovePinnedRule("egress")
  /\ UNCHANGED <<deny, addr, returnTab, egressTab, memory, table, applyMu, arg, boot,
                 removing, unmarked, clean, pushes, restarts>>

RemoveDeny(th) ==
  /\ pc[th] = "undeny" /\ Goto(th, "unload")
  /\ \/ deny' = FALSE /\ UNCHANGED faults
     \/ Fails /\ UNCHANGED deny
  /\ UNCHANGED <<rules, route, addr, returnTab, egressTab, memory, table, applyMu, arg,
                 boot, removing, unmarked, clean, pushes, restarts>>

RemoveTable(th) ==
  /\ pc[th] = "unload" /\ Goto(th, "commit")
  /\ \/ egressTab' = NoNets /\ removing' = FALSE /\ UNCHANGED faults
     \/ Fails /\ UNCHANGED <<egressTab, removing>>
  /\ UNCHANGED <<rules, deny, route, addr, returnTab, memory, table, applyMu, arg, boot,
                 unmarked, clean, pushes, restarts>>

ApplyEgress(th) ==
  \/ Enter(th) \/ Lock(th) \/ InstallFails(th) \/ Commit(th)
  \/ LanIfaceTo(th) \/ EnsureEgressRule(th) \/ EnsureDenyRule(th) \/ LoadEgress(th)
  \/ RemoveRule(th) \/ RemoveDeny(th) \/ RemoveTable(th)

-----------------------------------------------------------------------------
(* The unit is killed or stopped, the revert command is run, and the unit  *)
(* starts again, with whatever table its bootstrap file names by then.     *)

Bounce ==
  /\ Fails
  /\ route[table] = "backend" /\ route' = [route EXCEPT ![table] = "none"]
  /\ UNCHANGED <<rules, deny, addr, returnTab, egressTab, memory, table, applyMu, pc, arg,
                 boot, removing, unmarked, clean, pushes, restarts>>

Running == pc["push"] # "off" \/ boot

Stop ==
  /\ Running /\ restarts < MaxRestarts
  /\ restarts' = restarts + 1
  /\ returnOK' = FALSE /\ egressKnown' = FALSE /\ egressOK' = FALSE
  /\ egressWant' = NoNets /\ egressHave' = NoNets /\ applyMu' = "free"
  /\ pc' = [th \in Threads |-> IF th = "tick" THEN "down" ELSE "off"]
  /\ arg' = [th \in Threads |-> NoNets]
  /\ boot' = FALSE
  /\ UNCHANGED <<kernel, table, removing, unmarked, clean, faults, pushes>>

Start ==
  /\ pc["tick"] \in {"down", "reverted"} /\ Goto("tick", "addr")
  /\ table' \in Tables /\ boot' = TRUE
  /\ UNCHANGED <<kernel, memory, applyMu, arg, removing, unmarked, clean, counts>>

RevertCommand ==
  /\ pc["tick"] = "down" /\ Goto("tick", "unegress")
  /\ table' \in Tables /\ clean' = TRUE
  /\ UNCHANGED <<kernel, memory, applyMu, arg, boot, removing, unmarked, counts>>

(* RemoveLinkerEgressRuleset, RemoveLinkerReturnRuleset and                *)
(* RemoveLinkerRouting in turn; a failed command is passed over.           *)
RevertEgress ==
  /\ pc["tick"] = "unegress" /\ Goto("tick", "unreturn")
  /\ RemovePinnedRule("egress")
  /\ deny' \in {deny, FALSE} /\ egressTab' \in {egressTab, NoNets}
  /\ removing' = (egressTab' # NoNets)
  /\ clean' = (clean /\ faults' = faults /\ ~deny' /\ egressTab' = NoNets)
  /\ UNCHANGED <<addr, returnTab, memory, table, applyMu, arg, boot, unmarked, pushes,
                 restarts>>

RevertReturn ==
  /\ pc["tick"] = "unreturn" /\ Goto("tick", "unfrom")
  /\ RemovePinnedRule("mark")
  /\ returnTab' \in {returnTab, FALSE}
  /\ clean' = (clean /\ faults' = faults /\ ~returnTab')
  /\ UNCHANGED <<deny, addr, egressTab, memory, table, applyMu, arg, boot, removing,
                 unmarked, pushes, restarts>>

RevertRules ==
  /\ pc["tick"] = "unfrom" /\ Goto("tick", "unroute")
  /\ RemovePinnedRule("from")
  /\ clean' = (clean /\ faults' = faults)
  /\ UNCHANGED <<deny, addr, returnTab, egressTab, memory, table, applyMu, arg, boot,
                 removing, unmarked, pushes, restarts>>

RevertRoute ==
  /\ pc["tick"] = "unroute" /\ Goto("tick", "reverted")
  /\ \/ /\ route' = [route EXCEPT ![table] = IF @ = "backend" THEN "none" ELSE @]
        /\ unmarked' = unmarked \ {table} /\ UNCHANGED clean
     \/ /\ route[table] = "backend" /\ clean' = FALSE
        /\ unmarked' = unmarked \cup {table} /\ UNCHANGED route
  /\ UNCHANGED <<rules, deny, addr, returnTab, egressTab, memory, table, applyMu, arg, boot,
                 removing, counts>>

Agent ==
  \/ Tick \/ EnsureOverlayAddress \/ EnsureLinkerRule \/ ApplyRoute
  \/ EnsureReturnPath \/ EnsureLinkerMarkRule \/ Booted \/ RetryEgress \/ ReconcileRoute

Revert == RevertEgress \/ RevertReturn \/ RevertRules \/ RevertRoute

Next ==
  \/ Agent
  \/ \E l \in Lists : Push(l)
  \/ \E th \in Threads : ApplyEgress(th)
  \/ Bounce \/ Stop \/ Start \/ RevertCommand \/ Revert

(* The ticker and the session's goroutine run on; failures are finite, as  *)
(* the bounds make them.                                                   *)
Spec == /\ Init /\ [][Next]_vars
        /\ WF_vars(Agent)
        /\ \A th \in Threads : WF_vars(ApplyEgress(th))

-----------------------------------------------------------------------------
(* A container's packet is marked only while a lookup rule of ours and the *)
(* refusal behind it stand, through every failure, kill and change of      *)
(* table: otherwise it leaves by the host's own internet and Docker binds  *)
(* the flow to that address (installEgress, ensurePinnedRule).  A removal  *)
(* takes the rules away first on purpose.                                  *)
EgressGuarded ==
  egressTab # NoNets /\ ~removing =>
    deny /\ \E r \in rules["egress"] : r.pinned

Markers(t) == {s \in Selectors : \E p \in BOOLEAN : Rule(t, p) \in rules[s]}

(* The last rule pointing at an abandoned table goes only when that table  *)
(* no longer sends anything to the backend: the rule is the only evidence  *)
(* that the route is this system's (cleanAbandonedTable).                  *)
NoMarkerLost ==
  [][\A t \in Tables :
       Markers(t) # {} /\ Markers(t)' = {} /\ t # table => route'[t] # "backend"]_vars

(* A revert none of whose commands failed leaves the host's own rules and  *)
(* routes and no rule or ruleset of this system's; and of its default      *)
(* routes, in whichever tables it used before, only one that no source     *)
(* rule was there to mark, since the command for that rule, or an earlier  *)
(* revert's for the route, had failed (RemoveLinkerRouting).               *)
RevertRestores ==
  pc["tick"] = "reverted" /\ clean =>
    /\ rules = HostRules
    /\ ~deny /\ ~returnTab /\ egressTab = NoNets
    /\ route[table] # "backend" /\ route[HostTable] = "other"
    /\ \A t \in Tables \ unmarked : route[t] # "backend"

Healthy ==
  /\ addr /\ returnTab /\ route[table] = "backend"
  /\ \A s \in {"from", "mark"} : Mine \in rules[s]
  /\ egressKnown /\ egressWant \notin Unusable \cup {NoNets} =>
       egressTab = egressWant /\ deny /\ Mine \in rules["egress"]

(* While the unit runs, whatever failed, was dropped by the kernel or was  *)
(* left by an earlier process is put right, the egress networks included   *)
(* (reconcile, retryEgress).                                               *)
Healed == <>[]Running => <>[]Healthy

=============================================================================
