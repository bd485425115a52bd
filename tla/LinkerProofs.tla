---------------------------- MODULE LinkerProofs ----------------------------
(***************************************************************************)
(* Proofs about Linker for any tables, lists of networks, number of        *)
(* failing commands, pushes and restarts: egress never without its guard,  *)
(* no abandoned table without the rule that marks it, and a revert that    *)
(* leaves the host as it was.                                              *)
(***************************************************************************)
EXTENDS Linker, FiniteSetTheorems, TLAPS

AllTables == Tables \cup {HostTable}
RuleSet == [table : AllTables, pinned : BOOLEAN]
Routes == [AllTables -> {"backend", "other", "none"}]

Installing == {"iface", "rule", "deny", "load"}
RemovingAt == {"unrule", "undeny", "unload"}
Critical == Installing \cup RemovingAt \cup {"commit"}
Booting == {"addr", "from", "route", "return", "mark", "booted"}
Reverting == {"down", "unegress", "unreturn", "unfrom", "unroute", "reverted"}
Labels == Critical \cup Booting \cup Reverting \cup {"idle", "retry", "check", "enter", "lock", "off"}

Typed ==
  /\ rules \in [Selectors -> SUBSET RuleSet] /\ \A s \in Selectors : IsFiniteSet(rules[s])
  /\ route \in Routes /\ faults \in Nat
  /\ table \in Tables /\ pc \in [Threads -> Labels]

-----------------------------------------------------------------------------
(* What withdrawing strays does to the rules of a selector and the routes  *)
(* behind them, whichever of its commands fail.                            *)
LEMMA WithdrawEffect ==
  ASSUME Typed, NEW sel \in Selectors, NEW strays, NEW kept \in SUBSET RuleSet,
         strays \subseteq kept, IsFiniteSet(kept), Withdraw(sel, strays, kept)
  PROVE  /\ rules' \in [Selectors -> SUBSET RuleSet] /\ route' \in Routes /\ faults' \in Nat
         /\ \A s \in Selectors : IsFiniteSet(rules'[s])
         /\ \A s \in Selectors \ {sel} : rules'[s] = rules[s]
         /\ kept \ strays \subseteq rules'[sel] /\ rules'[sel] \subseteq kept
         /\ route'[HostTable] = IF route[HostTable] = "backend" THEN route'[HostTable]
                                ELSE route[HostTable]
         /\ \A t \in Tables \ {table} : \A r \in kept \ rules'[sel] :
              r.table = t => route'[t] # "backend"
         /\ faults' = faults => rules'[sel] = kept \ strays
         /\ \A t \in Tables : route'[t] = "backend" => route[t] = "backend"
  <1>0. PICK gone \in SUBSET strays : \E relieved \in SUBSET (strays \ gone) :
          /\ faults' = faults + Cardinality(strays \ gone)
          /\ faults' <= MaxFaults
          /\ rules' = [rules EXCEPT ![sel] = kept \ gone]
          /\ route' = [t \in DOMAIN route |->
                         IF /\ t # table /\ route[t] = "backend"
                            /\ \E r \in gone \cup relieved : r.table = t
                         THEN "none" ELSE route[t]]
    BY DEF Withdraw
  <1>1. PICK relieved \in SUBSET (strays \ gone) :
          /\ faults' = faults + Cardinality(strays \ gone)
          /\ faults' <= MaxFaults
          /\ rules' = [rules EXCEPT ![sel] = kept \ gone]
          /\ route' = [t \in DOMAIN route |->
                         IF /\ t # table /\ route[t] = "backend"
                            /\ \E r \in gone \cup relieved : r.table = t
                         THEN "none" ELSE route[t]]
    BY <1>0
  <1>2. IsFiniteSet(kept \ gone) /\ IsFiniteSet(strays \ gone)
    BY FS_Subset
  <1>3. Cardinality(strays \ gone) \in Nat /\ faults' \in Nat
    BY <1>1, <1>2, FS_CardinalityType DEF Typed
  <1>4. faults' = faults => strays \ gone = {}
    BY <1>1, <1>2, <1>3, FS_EmptySet DEF Typed
  <1>5. rules'[sel] = kept \ gone /\ \A s \in Selectors \ {sel} : rules'[s] = rules[s]
    BY <1>1 DEF Typed
  <1>6. rules' \in [Selectors -> SUBSET RuleSet] /\ route' \in Routes
    BY <1>1 DEF Typed, Routes
  <1>7. \A t \in Tables \ {table} : \A r \in gone : r.table = t => route'[t] # "backend"
    BY <1>1 DEF Typed, Routes, AllTables
  <1>8. route'[HostTable] = IF route[HostTable] = "backend" THEN route'[HostTable]
                            ELSE route[HostTable]
    BY <1>1 DEF Typed, Routes, AllTables
  <1>9. \A s \in Selectors : IsFiniteSet(rules'[s])
    BY <1>2, <1>5 DEF Typed
  <1>10. \A t \in Tables : route'[t] = "backend" => route[t] = "backend"
    BY <1>1 DEF Typed, Routes, AllTables
  <1> QED
    BY <1>3, <1>4, <1>5, <1>6, <1>7, <1>8, <1>9, <1>10

(* The two uses of it, by the rule that stays.                             *)
LEMMA EnsureEffect ==
  ASSUME Typed, NEW sel \in Selectors, EnsurePinnedRule(sel)
  PROVE  /\ rules' \in [Selectors -> SUBSET RuleSet] /\ route' \in Routes /\ faults' \in Nat
         /\ \A s \in Selectors : IsFiniteSet(rules'[s])
         /\ \A s \in Selectors \ {sel} : rules'[s] = rules[s]
         /\ Mine \in rules'[sel] /\ rules'[sel] \subseteq rules[sel] \cup {Mine}
         /\ rules[sel] \ Owned(sel) \subseteq rules'[sel]
         /\ route[HostTable] # "backend" => route'[HostTable] = route[HostTable]
         /\ \A t \in Tables \ {table} : \A r \in rules[sel] \ rules'[sel] :
              r.table = t => route'[t] # "backend"
         /\ \A t \in Tables : route'[t] = "backend" => route[t] = "backend"
  <1> DEFINE kept == rules[sel] \cup {Mine}
             strays == Owned(sel) \ {Mine}
  <1>1. Mine \in RuleSet
    BY DEF Mine, Rule, RuleSet, AllTables, Typed
  <1>2. kept \in SUBSET RuleSet /\ strays \subseteq kept /\ Withdraw(sel, strays, kept)
    BY <1>1 DEF Typed, EnsurePinnedRule, Owned
  <1>3. IsFiniteSet(kept)
    BY FS_AddElement DEF Typed
  <1> HIDE DEF kept, strays
  <1>4. /\ rules' \in [Selectors -> SUBSET RuleSet] /\ route' \in Routes /\ faults' \in Nat
        /\ \A s \in Selectors : IsFiniteSet(rules'[s])
        /\ \A s \in Selectors \ {sel} : rules'[s] = rules[s]
        /\ kept \ strays \subseteq rules'[sel] /\ rules'[sel] \subseteq kept
        /\ route'[HostTable] = IF route[HostTable] = "backend" THEN route'[HostTable]
                               ELSE route[HostTable]
        /\ \A t \in Tables \ {table} : \A r \in kept \ rules'[sel] :
             r.table = t => route'[t] # "backend"
        /\ \A t \in Tables : route'[t] = "backend" => route[t] = "backend"
    BY <1>2, <1>3, WithdrawEffect
  <1> QED
    BY <1>4 DEF kept, strays

LEMMA RemoveEffect ==
  ASSUME Typed, NEW sel \in Selectors, RemovePinnedRule(sel)
  PROVE  /\ rules' \in [Selectors -> SUBSET RuleSet] /\ route' \in Routes /\ faults' \in Nat
         /\ \A s \in Selectors : IsFiniteSet(rules'[s])
         /\ \A s \in Selectors \ {sel} : rules'[s] = rules[s]
         /\ rules'[sel] \subseteq rules[sel] /\ rules[sel] \ Owned(sel) \subseteq rules'[sel]
         /\ route[HostTable] # "backend" => route'[HostTable] = route[HostTable]
         /\ \A t \in Tables \ {table} : \A r \in rules[sel] \ rules'[sel] :
              r.table = t => route'[t] # "backend"
         /\ faults' = faults => rules'[sel] = rules[sel] \ Owned(sel)
         /\ \A t \in Tables : route'[t] = "backend" => route[t] = "backend"
  <1>1. rules[sel] \in SUBSET RuleSet /\ Owned(sel) \subseteq rules[sel] /\ IsFiniteSet(rules[sel])
        /\ Withdraw(sel, Owned(sel), rules[sel])
    BY DEF Typed, RemovePinnedRule, Owned
  <1> QED
    BY <1>1, WithdrawEffect

-----------------------------------------------------------------------------
(* The types.                                                              *)

LEMMA TypedInit == Init => Typed
  <1> SUFFICES ASSUME Init PROVE Typed
    OBVIOUS
  <1>1. PICK old \in {{}} \cup {{t} : t \in Tables} :
          /\ rules = [HostRules EXCEPT !["from"] = {Rule(t, FALSE) : t \in old}]
          /\ route = [t \in Tables \cup {HostTable} |->
                        IF t = HostTable THEN "other"
                        ELSE IF t \in old THEN "backend" ELSE "none"]
    BY DEF Init
  <1>2. route \in Routes /\ table \in Tables /\ faults \in Nat
    BY <1>1 DEF Init, Routes, AllTables
  <1>3. pc \in [Threads -> Labels]
    BY DEF Init, Labels, Booting, Threads
  <1>4. \A t \in AllTables, p \in BOOLEAN : Rule(t, p) \in RuleSet
    BY DEF Rule, RuleSet
  <1>5. {Rule(t, FALSE) : t \in old} \in SUBSET RuleSet
    BY <1>4 DEF AllTables
  <1>6. rules \in [Selectors -> SUBSET RuleSet]
    <2>1. HostRules \in [Selectors -> SUBSET RuleSet]
      BY <1>4 DEF HostRules, AllTables
    <2> QED
      BY <1>1, <1>5, <2>1 DEF Selectors
  <1>7. IsFiniteSet({Rule(t, FALSE) : t \in old})
    <2>1. CASE old = {}
      <3>1. {Rule(t, FALSE) : t \in old} = {}
        BY <2>1
      <3> QED
        BY <3>1, FS_EmptySet
    <2>2. CASE \E t \in Tables : old = {t}
      <3>1. PICK t \in Tables : old = {t}
        BY <2>2
      <3>2. {Rule(u, FALSE) : u \in old} = {Rule(t, FALSE)}
        BY <3>1
      <3> QED
        BY <3>2, FS_Singleton
    <2> QED
      BY <2>1, <2>2
  <1>8. \A s \in Selectors : IsFiniteSet(rules[s])
    <2> SUFFICES ASSUME NEW s \in Selectors PROVE IsFiniteSet(rules[s])
      OBVIOUS
    <2>1. CASE s = "from"
      <3>1. rules[s] = {Rule(t, FALSE) : t \in old}
        BY <1>1, <2>1 DEF HostRules, Selectors
      <3> QED
        BY <3>1, <1>7
    <2>2. CASE s # "from"
      <3>1. rules[s] = {Rule(HostTable, FALSE)}
        BY <1>1, <2>2 DEF HostRules, Selectors
      <3> QED
        BY <3>1, FS_Singleton
    <2> QED
      BY <2>1, <2>2
  <1> QED
    BY <1>2, <1>3, <1>6, <1>8, Zenon DEF Typed

LEMMA SelectorsAre == "from" \in Selectors /\ "mark" \in Selectors /\ "egress" \in Selectors
  BY DEF Selectors

RulesTyped ==
  /\ rules \in [Selectors -> SUBSET RuleSet] /\ \A s \in Selectors : IsFiniteSet(rules[s])
  /\ route \in Routes /\ faults \in Nat

(* Every action keeps the types; the three that withdraw rules by the      *)
(* lemmas above.                                                           *)
LEMMA TypedStep == Typed /\ [Next]_vars => Typed'
  <1> SUFFICES ASSUME Typed, [Next]_vars PROVE Typed'
    OBVIOUS
  <1> USE DEF Goto, Fails, kernel, memory, counts, Labels, Critical, Installing, RemovingAt,
          Booting, Reverting
  <1>2. CASE EnsureLinkerRule
    <2>1. EnsurePinnedRule("from") \/ (UNCHANGED <<rules, route>> /\ Fails)
      BY <1>2 DEF EnsureLinkerRule
    <2>2. RulesTyped'
      <3>1. CASE EnsurePinnedRule("from")
        BY <3>1, EnsureEffect, SelectorsAre DEF RulesTyped
      <3>2. CASE UNCHANGED <<rules, route>> /\ Fails
        BY <3>2 DEF Typed, RulesTyped
      <3> QED
        BY <2>1, <3>1, <3>2
    <2> QED
      BY <1>2, <2>2 DEF EnsureLinkerRule, Typed, RulesTyped, Threads
  <1>3. CASE EnsureLinkerMarkRule
    <2>1. EnsurePinnedRule("mark") \/ (UNCHANGED <<rules, route>> /\ Fails)
      BY <1>3 DEF EnsureLinkerMarkRule
    <2>2. RulesTyped'
      <3>1. CASE EnsurePinnedRule("mark")
        BY <3>1, EnsureEffect, SelectorsAre DEF RulesTyped
      <3>2. CASE UNCHANGED <<rules, route>> /\ Fails
        BY <3>2 DEF Typed, RulesTyped
      <3> QED
        BY <2>1, <3>1, <3>2
    <2> QED
      BY <1>3, <2>2 DEF EnsureLinkerMarkRule, AfterReturn, Typed, RulesTyped, Threads
  <1>4. ASSUME NEW th \in Threads, EnsureEgressRule(th) PROVE Typed'
    <2>1. EnsurePinnedRule("egress")
      BY <1>4 DEF EnsureEgressRule
    <2>2. RulesTyped'
      BY <2>1, EnsureEffect, SelectorsAre DEF RulesTyped
    <2> QED
      BY <1>4, <2>2 DEF EnsureEgressRule, Typed, RulesTyped
  <1>5. ASSUME NEW th \in Threads, RemoveRule(th) PROVE Typed'
    <2>1. RemovePinnedRule("egress")
      BY <1>5 DEF RemoveRule
    <2>2. RulesTyped'
      BY <2>1, RemoveEffect, SelectorsAre DEF RulesTyped
    <2> QED
      BY <1>5, <2>2 DEF RemoveRule, Typed, RulesTyped
  <1>6. CASE RevertEgress
    <2>1. RemovePinnedRule("egress")
      BY <1>6 DEF RevertEgress
    <2>2. RulesTyped'
      BY <2>1, RemoveEffect, SelectorsAre DEF RulesTyped
    <2> QED
      BY <1>6, <2>2 DEF RevertEgress, Typed, RulesTyped, Threads
  <1>7. CASE RevertReturn
    <2>1. RemovePinnedRule("mark")
      BY <1>7 DEF RevertReturn
    <2>2. RulesTyped'
      BY <2>1, RemoveEffect, SelectorsAre DEF RulesTyped
    <2> QED
      BY <1>7, <2>2 DEF RevertReturn, Typed, RulesTyped, Threads
  <1>8. CASE RevertRules
    <2>1. RemovePinnedRule("from")
      BY <1>8 DEF RevertRules
    <2>2. RulesTyped'
      BY <2>1, RemoveEffect, SelectorsAre DEF RulesTyped
    <2> QED
      BY <1>8, <2>2 DEF RevertRules, Typed, RulesTyped, Threads
  <1>9. ASSUME \/ Tick \/ EnsureOverlayAddress \/ EnsureReturnPath \/ Booted \/ RetryEgress
        PROVE  Typed'
    BY <1>9 DEF Tick, EnsureOverlayAddress, EnsureReturnPath, AfterReturn, Booted, RetryEgress,
                Typed, Threads
  <1>10. ASSUME ApplyRoute \/ ReconcileRoute \/ Bounce \/ RevertRoute PROVE Typed'
    <2>1. CASE ApplyRoute
      BY <2>1 DEF ApplyRoute, EnsureLinkerRoute, Typed, Routes, AllTables, Threads
    <2>2. CASE ReconcileRoute
      BY <2>2 DEF ReconcileRoute, EnsureLinkerRoute, Typed, Routes, AllTables, Threads
    <2>3. CASE Bounce
      BY <2>3 DEF Bounce, Typed, Routes, AllTables
    <2>4. CASE RevertRoute
      BY <2>4 DEF RevertRoute, Typed, Routes, AllTables, Threads
    <2> QED
      BY <1>10, <2>1, <2>2, <2>3, <2>4
  <1>11. ASSUME Stop \/ Start \/ RevertCommand PROVE Typed'
    BY <1>11 DEF Stop, Start, RevertCommand, Typed, Threads
  <1>12. ASSUME NEW l \in Lists, Push(l) PROVE Typed'
    BY <1>12 DEF Push, Typed, Threads
  <1>13. ASSUME NEW th \in Threads, Enter(th) \/ Lock(th) \/ InstallFails(th) \/ Commit(th)
         PROVE  Typed'
    BY <1>13 DEF Enter, Lock, InstallFails, Commit, Return, Typed
  <1>14. ASSUME NEW th \in Threads, LanIfaceTo(th) \/ EnsureDenyRule(th) \/ LoadEgress(th)
         PROVE  Typed'
    BY <1>14 DEF LanIfaceTo, EnsureDenyRule, LoadEgress, Typed
  <1>15. ASSUME NEW th \in Threads, RemoveDeny(th) \/ RemoveTable(th) PROVE Typed'
    BY <1>15 DEF RemoveDeny, RemoveTable, Typed
  <1>16. CASE UNCHANGED vars
    BY <1>16 DEF vars, Typed
  <1> QED
    BY <1>2, <1>3, <1>4, <1>5, <1>6, <1>7, <1>8, <1>9, <1>10, <1>11, <1>12, <1>13, <1>14,
       <1>15, <1>16 DEF Next, Agent, ApplyEgress, Revert

-----------------------------------------------------------------------------
(* Where the threads may stand.                                            *)

(* The critical section of applyEgress has one thread in it; the control   *)
(* session runs only once apply has returned; a revert runs alone.         *)
Phases ==
  /\ \A th \in Threads : pc[th] \in Critical => applyMu = th
  /\ boot => pc["push"] = "off" /\ pc["tick"] \in Booting
  /\ pc["tick"] \in {"route", "booted"} => boot
  /\ pc["tick"] \in Reverting => pc["push"] = "off"

LEMMA PhasesStep == Typed /\ Phases /\ [Next]_vars => Phases'
  <1> SUFFICES ASSUME Typed, Phases, [Next]_vars PROVE Phases'
    OBVIOUS
  <1> USE DEF Typed, Phases, Goto, Critical, Installing, RemovingAt, Booting, Reverting, Threads
  <1>1. ASSUME Tick \/ EnsureOverlayAddress \/ EnsureLinkerRule PROVE Phases'
    BY <1>1 DEF Tick, EnsureOverlayAddress, EnsureLinkerRule
  <1>2. ASSUME ApplyRoute \/ EnsureReturnPath \/ EnsureLinkerMarkRule PROVE Phases'
    BY <1>2 DEF ApplyRoute, EnsureReturnPath, EnsureLinkerMarkRule, AfterReturn
  <1>3. ASSUME Booted \/ RetryEgress \/ ReconcileRoute PROVE Phases'
    BY <1>3 DEF Booted, RetryEgress, ReconcileRoute
  <1>4. ASSUME NEW l \in Lists, Push(l) PROVE Phases'
    BY <1>4 DEF Push
  <1>5. ASSUME NEW th \in Threads, Enter(th) \/ Lock(th) \/ InstallFails(th) \/ Commit(th)
        PROVE  Phases'
    BY <1>5 DEF Enter, Lock, InstallFails, Commit, Return
  <1>6. ASSUME NEW th \in Threads, \/ LanIfaceTo(th) \/ EnsureEgressRule(th)
                                   \/ EnsureDenyRule(th) \/ LoadEgress(th)
        PROVE  Phases'
    BY <1>6 DEF LanIfaceTo, EnsureEgressRule, EnsureDenyRule, LoadEgress
  <1>7. ASSUME NEW th \in Threads, RemoveRule(th) \/ RemoveDeny(th) \/ RemoveTable(th)
        PROVE  Phases'
    BY <1>7 DEF RemoveRule, RemoveDeny, RemoveTable
  <1>8. ASSUME Bounce \/ Stop \/ Start \/ RevertCommand PROVE Phases'
    BY <1>8 DEF Bounce, Stop, Start, RevertCommand
  <1>9. ASSUME Revert PROVE Phases'
    <2>1. /\ pc["tick"] \in Reverting /\ UNCHANGED <<applyMu, boot>>
          /\ \/ Goto("tick", "unreturn") \/ Goto("tick", "unfrom")
             \/ Goto("tick", "unroute") \/ Goto("tick", "reverted")
      BY <1>9 DEF Revert, RevertEgress, RevertReturn, RevertRules, RevertRoute
    <2> QED
      BY <2>1
  <1>10. CASE UNCHANGED vars
    BY <1>10 DEF vars
  <1> QED
    BY <1>1, <1>2, <1>3, <1>4, <1>5, <1>6, <1>7, <1>8, <1>9, <1>10 DEF Next, Agent, ApplyEgress

-----------------------------------------------------------------------------
(* Egress behind its guard.                                                *)

Pinned(R) == \E r \in R : r.pinned

(* The guard is built in order before the table loads, and a thread taking *)
(* it down has said so.                                                    *)
Guarding ==
  /\ \A th \in Threads : /\ pc[th] \in {"deny", "load"} => Pinned(rules["egress"])
                         /\ pc[th] = "load" => deny
                         /\ pc[th] \in RemovingAt => removing
  /\ egressTab # NoNets /\ ~removing => deny /\ Pinned(rules["egress"])

LEMMA GuardingStep == Typed /\ Phases /\ Guarding /\ [Next]_vars => Guarding'
  <1> SUFFICES ASSUME Typed, Phases, Guarding, [Next]_vars PROVE Guarding'
    OBVIOUS
  <1> USE DEF Goto, Critical, Installing, RemovingAt, kernel
  <1>1. ASSUME EnsureLinkerRule \/ EnsureLinkerMarkRule PROVE Guarding'
    <2>1. rules'["egress"] = rules["egress"]
      <3>1. CASE EnsurePinnedRule("from")
        BY <3>1, EnsureEffect, SelectorsAre
      <3>2. CASE EnsurePinnedRule("mark")
        BY <3>2, EnsureEffect, SelectorsAre
      <3>3. CASE UNCHANGED rules
        BY <3>3
      <3> QED
        BY <1>1, <3>1, <3>2, <3>3 DEF EnsureLinkerRule, EnsureLinkerMarkRule
    <2> QED
      BY <1>1, <2>1 DEF EnsureLinkerRule, EnsureLinkerMarkRule, AfterReturn, Guarding, Typed, Threads
  <1>2. ASSUME NEW th \in Threads, EnsureEgressRule(th) PROVE Guarding'
    <2>1. Mine \in rules'["egress"] /\ Mine.pinned
      BY <1>2, EnsureEffect, SelectorsAre DEF EnsureEgressRule, Mine, Rule
    <2>2. Pinned(rules'["egress"])
      BY <2>1 DEF Pinned
    <2> QED
      BY <1>2, <2>2 DEF EnsureEgressRule, Guarding, Typed
  <1>3. ASSUME NEW th \in Threads, RemoveRule(th) PROVE Guarding'
    BY <1>3 DEF RemoveRule, Guarding, Phases, Typed
  <1>4. CASE RevertEgress
    BY <1>4 DEF RevertEgress, Guarding, Phases, Typed, Reverting, Threads
  <1>5. ASSUME RevertReturn \/ RevertRules PROVE Guarding'
    <2>1. rules'["egress"] = rules["egress"]
      <3>1. CASE RemovePinnedRule("mark")
        BY <3>1, RemoveEffect, SelectorsAre
      <3>2. CASE RemovePinnedRule("from")
        BY <3>2, RemoveEffect, SelectorsAre
      <3> QED
        BY <1>5, <3>1, <3>2 DEF RevertReturn, RevertRules
    <2>2. /\ UNCHANGED <<deny, egressTab, removing>>
          /\ Goto("tick", "unfrom") \/ Goto("tick", "unroute")
      BY <1>5 DEF RevertReturn, RevertRules
    <2> QED
      BY <2>1, <2>2 DEF Guarding, Typed, Threads
  <1>6. ASSUME \/ Tick \/ EnsureOverlayAddress \/ ApplyRoute \/ EnsureReturnPath
               \/ Booted \/ RetryEgress \/ ReconcileRoute
        PROVE  Guarding'
    BY <1>6 DEF Tick, EnsureOverlayAddress, ApplyRoute, EnsureReturnPath, AfterReturn, Booted,
                RetryEgress, ReconcileRoute, Guarding, Typed, Threads
  <1>7. ASSUME NEW l \in Lists, Push(l) PROVE Guarding'
    BY <1>7 DEF Push, Guarding, Typed, Threads
  <1>8. ASSUME NEW th \in Threads, Enter(th) \/ InstallFails(th) \/ Commit(th) \/ LanIfaceTo(th)
        PROVE  Guarding'
    BY <1>8 DEF Enter, InstallFails, Commit, LanIfaceTo, Return, Guarding, Typed, Threads
  <1>9. ASSUME NEW th \in Threads, Lock(th) PROVE Guarding'
    BY <1>9 DEF Lock, Guarding, Typed
  <1>10. ASSUME NEW th \in Threads, EnsureDenyRule(th) PROVE Guarding'
    BY <1>10 DEF EnsureDenyRule, Guarding, Typed
  <1>11. ASSUME NEW th \in Threads, LoadEgress(th) PROVE Guarding'
    BY <1>11 DEF LoadEgress, Guarding, Phases, Typed
  <1>12. ASSUME NEW th \in Threads, RemoveDeny(th) PROVE Guarding'
    BY <1>12 DEF RemoveDeny, Guarding, Phases, Typed
  <1>13. ASSUME NEW th \in Threads, RemoveTable(th) PROVE Guarding'
    BY <1>13 DEF RemoveTable, Guarding, Phases, Typed
  <1>14. ASSUME Bounce \/ Stop \/ Start \/ RevertCommand \/ RevertRoute PROVE Guarding'
    BY <1>14 DEF Bounce, Stop, Start, RevertCommand, RevertRoute, Guarding, Typed, Threads
  <1>15. CASE UNCHANGED vars
    BY <1>15 DEF vars, Guarding
  <1> QED
    BY <1>1, <1>2, <1>3, <1>4, <1>5, <1>6, <1>7, <1>8, <1>9, <1>10, <1>11, <1>12, <1>13,
       <1>14, <1>15 DEF Next, Agent, ApplyEgress, Revert

(* A container's packet is marked only behind a lookup rule and the        *)
(* refusal, for any tables, lists and failures (installEgress).            *)
THEOREM EgressGuard == Spec => []EgressGuarded
  <1>1. Init => Typed /\ Phases /\ Guarding
    BY TypedInit DEF Init, Phases, Guarding, Critical, Installing, RemovingAt, Booting, Reverting,
                     Threads
  <1>2. Typed /\ Phases /\ Guarding /\ [Next]_vars => (Typed /\ Phases /\ Guarding)'
    BY TypedStep, PhasesStep, GuardingStep
  <1>3. Guarding => EgressGuarded
    BY DEF Guarding, EgressGuarded, Pinned
  <1> QED
    BY <1>1, <1>2, <1>3, PTL DEF Spec

-----------------------------------------------------------------------------
(* No marker lost.                                                         *)

Undisturbed == UNCHANGED rules /\ \A t \in AllTables : t # table => route'[t] = route[t]
Disturbed == \E sel \in Selectors : EnsurePinnedRule(sel) \/ RemovePinnedRule(sel)

(* What a step does to the rules, and to any route but the running table's, *)
(* is what one of its commands does to the rules of one selector.          *)
LEMMA KernelChange == Typed /\ Next => Undisturbed \/ Disturbed
  <1> SUFFICES ASSUME Typed, Next PROVE Undisturbed \/ Disturbed
    OBVIOUS
  <1> USE DEF kernel
  <1>1. ASSUME NEW sel \in Selectors, EnsurePinnedRule(sel) PROVE Disturbed
    BY <1>1 DEF Disturbed
  <1>2. ASSUME NEW sel \in Selectors, RemovePinnedRule(sel) PROVE Disturbed
    BY <1>2 DEF Disturbed
  <1>3. UNCHANGED <<rules, route>> => Undisturbed
    BY DEF Undisturbed
  <1>4. EnsureLinkerRule => EnsurePinnedRule("from") \/ UNCHANGED <<rules, route>>
    BY DEF EnsureLinkerRule
  <1>5. EnsureLinkerMarkRule => EnsurePinnedRule("mark") \/ UNCHANGED <<rules, route>>
    BY DEF EnsureLinkerMarkRule
  <1>6. \A th \in Threads : EnsureEgressRule(th) => EnsurePinnedRule("egress")
    BY DEF EnsureEgressRule
  <1>7. \A th \in Threads : RemoveRule(th) => RemovePinnedRule("egress")
    BY DEF RemoveRule
  <1>8. RevertEgress => RemovePinnedRule("egress")
    BY DEF RevertEgress
  <1>9. RevertReturn => RemovePinnedRule("mark")
    BY DEF RevertReturn
  <1>10. RevertRules => RemovePinnedRule("from")
    BY DEF RevertRules
  <1>11. ASSUME ApplyRoute \/ ReconcileRoute PROVE Undisturbed
    BY <1>11 DEF ApplyRoute, ReconcileRoute, EnsureLinkerRoute, Undisturbed, Typed, Routes
  <1>12. ASSUME Bounce \/ RevertRoute PROVE Undisturbed
    BY <1>12 DEF Bounce, RevertRoute, Undisturbed, Typed, Routes
  <1>13. ASSUME Tick \/ EnsureOverlayAddress \/ EnsureReturnPath \/ Booted \/ RetryEgress
         PROVE  UNCHANGED <<rules, route>>
    BY <1>13 DEF Tick, EnsureOverlayAddress, EnsureReturnPath, Booted, RetryEgress
  <1>14. ASSUME NEW th \in Threads, \/ Enter(th) \/ Lock(th) \/ InstallFails(th) \/ Commit(th)
                                    \/ LanIfaceTo(th) \/ EnsureDenyRule(th) \/ LoadEgress(th)
                                    \/ RemoveDeny(th) \/ RemoveTable(th)
         PROVE  UNCHANGED <<rules, route>>
    BY <1>14 DEF Enter, Lock, InstallFails, Commit, LanIfaceTo, EnsureDenyRule, LoadEgress,
                 RemoveDeny, RemoveTable
  <1>15. ASSUME NEW l \in Lists, Push(l) PROVE UNCHANGED <<rules, route>>
    BY <1>15 DEF Push
  <1>16. ASSUME Stop \/ Start \/ RevertCommand PROVE UNCHANGED <<rules, route>>
    BY <1>16 DEF Stop, Start, RevertCommand
  <1>17. ASSUME Agent PROVE Undisturbed \/ Disturbed
    BY <1>17, <1>1, <1>3, <1>4, <1>5, <1>11, <1>13, SelectorsAre, Zenon DEF Agent
  <1>18. ASSUME NEW th \in Threads, ApplyEgress(th) PROVE Undisturbed \/ Disturbed
    BY <1>18, <1>1, <1>2, <1>3, <1>6, <1>7, <1>14, SelectorsAre, Zenon DEF ApplyEgress
  <1>19. ASSUME Revert PROVE Undisturbed \/ Disturbed
    BY <1>19, <1>2, <1>8, <1>9, <1>10, <1>12, SelectorsAre, Zenon DEF Revert
  <1> QED
    BY <1>3, <1>12, <1>15, <1>16, <1>17, <1>18, <1>19, Zenon DEF Next

Marked(R, t) == \E r \in R : r.table = t

LEMMA MarkersAre ==
  ASSUME NEW R \in [Selectors -> SUBSET RuleSet], NEW t
  PROVE  \A s \in Selectors : (\E p \in BOOLEAN : Rule(t, p) \in R[s]) <=> Marked(R[s], t)
  <1>1. \A s \in Selectors : \A r \in R[s] : r = Rule(r.table, r.pinned) /\ r.pinned \in BOOLEAN
    <2> SUFFICES ASSUME NEW s \in Selectors, NEW r \in R[s]
                 PROVE  r = Rule(r.table, r.pinned) /\ r.pinned \in BOOLEAN
      OBVIOUS
    <2>1. r \in RuleSet
      OBVIOUS
    <2> QED
      BY <2>1 DEF RuleSet, Rule
  <1>2. \A p : Rule(t, p).table = t
    BY DEF Rule
  <1> QED
    BY <1>1, <1>2, Zenon DEF Marked

(* The last rule that points at an abandoned table goes only with the      *)
(* route behind it, for any tables and failures (cleanAbandonedTable).     *)
THEOREM MarkersKept == Spec => NoMarkerLost
  <1> DEFINE Kept == \A t \in Tables :
               Markers(t) # {} /\ Markers(t)' = {} /\ t # table => route'[t] # "backend"
  <1>1. Typed /\ Typed' /\ [Next]_vars => [Kept]_vars
    <2> SUFFICES ASSUME Typed, Typed', Next, NEW t \in Tables,
                        Markers(t) # {}, Markers(t)' = {}, t # table
                 PROVE  route'[t] # "backend"
      OBVIOUS
    <2>1. PICK s \in Selectors : Marked(rules[s], t)
      BY MarkersAre DEF Typed, Markers
    <2>2. ~ \E p \in BOOLEAN : Rule(t, p) \in rules'[s]
      BY DEF Markers
    <2>3. ~Marked(rules'[s], t)
      BY <2>2, MarkersAre DEF Typed
    <2>4. PICK r \in rules[s] : r.table = t
      BY <2>1 DEF Marked
    <2>5. r \notin rules'[s]
      BY <2>3, <2>4 DEF Marked
    <2>6. PICK sel \in Selectors : EnsurePinnedRule(sel) \/ RemovePinnedRule(sel)
      BY <2>5, KernelChange DEF Undisturbed, Disturbed
    <2>7. CASE EnsurePinnedRule(sel)
      BY <2>4, <2>5, <2>7, EnsureEffect
    <2>8. CASE RemovePinnedRule(sel)
      BY <2>4, <2>5, <2>8, RemoveEffect
    <2> QED
      BY <2>6, <2>7, <2>8
  <1> QED
    BY <1>1, TypedInit, TypedStep, PTL DEF Spec, NoMarkerLost

-----------------------------------------------------------------------------
(* What a revert leaves.                                                   *)

Host == Rule(HostTable, FALSE)

(* The host's own rule stands among pinned ones, which are this system's,  *)
(* and its table keeps its route.                                          *)
HostKept ==
  /\ \A s \in {"mark", "egress"} :
       Host \in rules[s] /\ \A r \in rules[s] : r # Host => r.pinned
  /\ route[HostTable] = "other"

(* What the commands of a revert have taken away so far.                   *)
Reverted ==
  clean =>
    /\ pc["tick"] \in {"unreturn", "unfrom", "unroute", "reverted"} =>
         rules["egress"] = {Host} /\ ~deny /\ egressTab = NoNets
    /\ pc["tick"] \in {"unfrom", "unroute", "reverted"} => rules["mark"] = {Host} /\ ~returnTab
    /\ pc["tick"] \in {"unroute", "reverted"} => rules["from"] = {}
    /\ pc["tick"] = "reverted" => route[table] # "backend"

LEMMA HostNotOwned == ASSUME Typed PROVE Host \notin Owned("mark") /\ Host \notin Owned("egress")
  <1>1. Host.table = HostTable /\ Host.pinned = FALSE
    BY DEF Host, Rule
  <1> QED
    BY <1>1, ListsAssumption DEF Owned, Typed

LEMMA HostKeptStep == Typed /\ HostKept /\ [Next]_vars => HostKept'
  <1> SUFFICES ASSUME Typed, HostKept, [Next]_vars PROVE HostKept'
    OBVIOUS
  <1>1. \A s \in {"mark", "egress"} : s \in Selectors /\ Host \notin Owned(s)
    BY HostNotOwned, SelectorsAre
  <1>2. ASSUME NEW sel \in Selectors, EnsurePinnedRule(sel) PROVE HostKept'
    <2>1. Mine.pinned
      BY DEF Mine, Rule
    <2>2. /\ \A s \in Selectors \ {sel} : rules'[s] = rules[s]
          /\ rules'[sel] \subseteq rules[sel] \cup {Mine}
          /\ rules[sel] \ Owned(sel) \subseteq rules'[sel]
          /\ route[HostTable] # "backend" => route'[HostTable] = route[HostTable]
      BY <1>2, EnsureEffect
    <2>3. \A s \in {"mark", "egress"} : Host \in rules'[s] /\ \A r \in rules'[s] : r # Host => r.pinned
      BY <1>1, <2>1, <2>2 DEF HostKept
    <2>4. route'[HostTable] = "other"
      BY <2>2 DEF HostKept
    <2> QED
      BY <2>3, <2>4 DEF HostKept
  <1>3. ASSUME NEW sel \in Selectors, RemovePinnedRule(sel) PROVE HostKept'
    <2>1. /\ \A s \in Selectors \ {sel} : rules'[s] = rules[s]
          /\ rules'[sel] \subseteq rules[sel] /\ rules[sel] \ Owned(sel) \subseteq rules'[sel]
          /\ route[HostTable] # "backend" => route'[HostTable] = route[HostTable]
      BY <1>3, RemoveEffect
    <2>2. \A s \in {"mark", "egress"} : Host \in rules'[s] /\ \A r \in rules'[s] : r # Host => r.pinned
      BY <1>1, <2>1 DEF HostKept
    <2>3. route'[HostTable] = "other"
      BY <2>1 DEF HostKept
    <2> QED
      BY <2>2, <2>3 DEF HostKept
  <1>4. CASE Undisturbed
    BY <1>4, ListsAssumption DEF Undisturbed, HostKept, AllTables, Typed
  <1>5. CASE UNCHANGED vars
    BY <1>5 DEF vars, kernel, HostKept
  <1> QED
    BY <1>2, <1>3, <1>4, <1>5, KernelChange DEF Disturbed

LEMMA RevertedStep == Typed /\ Phases /\ HostKept /\ Reverted /\ [Next]_vars => Reverted'
  <1> SUFFICES ASSUME Typed, Phases, HostKept, Reverted, [Next]_vars PROVE Reverted'
    OBVIOUS
  <1>1. \A s \in {"mark", "egress"} : rules[s] \ Owned(s) = {Host}
    BY HostNotOwned DEF HostKept, Owned
  <1>2. rules["from"] \ Owned("from") = {}
    BY DEF Owned
  <1>3. CASE RevertEgress
    <2>1. /\ RemovePinnedRule("egress") /\ pc'["tick"] = "unreturn"
          /\ clean' = (clean /\ faults' = faults /\ ~deny' /\ egressTab' = NoNets)
      BY <1>3 DEF RevertEgress, Goto, Typed, Threads
    <2>2. faults' = faults => rules'["egress"] = rules["egress"] \ Owned("egress")
      BY <2>1, RemoveEffect, SelectorsAre
    <2>3. clean' => rules'["egress"] = {Host} /\ ~deny' /\ egressTab' = NoNets
      BY <1>1, <2>1, <2>2
    <2> QED
      BY <2>1, <2>3 DEF Reverted
  <1>4. CASE RevertReturn
    <2>1. /\ RemovePinnedRule("mark") /\ pc["tick"] = "unreturn" /\ pc'["tick"] = "unfrom"
          /\ clean' = (clean /\ faults' = faults /\ ~returnTab')
          /\ UNCHANGED <<deny, egressTab>>
      BY <1>4 DEF RevertReturn, Goto, Typed, Threads
    <2>2. /\ faults' = faults => rules'["mark"] = rules["mark"] \ Owned("mark")
          /\ rules'["egress"] = rules["egress"]
      BY <2>1, RemoveEffect, SelectorsAre
    <2>3. clean' => clean /\ rules'["mark"] = {Host} /\ ~returnTab'
      BY <1>1, <2>1, <2>2
    <2> QED
      BY <2>1, <2>2, <2>3 DEF Reverted
  <1>5. CASE RevertRules
    <2>1. /\ RemovePinnedRule("from") /\ pc["tick"] = "unfrom" /\ pc'["tick"] = "unroute"
          /\ clean' = (clean /\ faults' = faults)
          /\ UNCHANGED <<deny, egressTab, returnTab>>
      BY <1>5 DEF RevertRules, Goto, Typed, Threads
    <2>2. /\ faults' = faults => rules'["from"] = rules["from"] \ Owned("from")
          /\ rules'["egress"] = rules["egress"] /\ rules'["mark"] = rules["mark"]
      BY <2>1, RemoveEffect, SelectorsAre
    <2>3. clean' => clean /\ rules'["from"] = {}
      BY <1>2, <2>1, <2>2
    <2> QED
      BY <2>1, <2>2, <2>3 DEF Reverted
  <1>6. CASE RevertRoute
    <2>1. /\ pc["tick"] = "unroute" /\ pc'["tick"] = "reverted"
          /\ UNCHANGED <<rules, deny, egressTab, returnTab, table>>
      BY <1>6 DEF RevertRoute, Goto, Typed, Threads
    <2>2. clean' => clean /\ route'[table] # "backend"
      BY <1>6 DEF RevertRoute, Typed, Routes, AllTables
    <2> QED
      BY <2>1, <2>2 DEF Reverted
  <1>7. CASE Bounce
    <2>1. /\ route'[table] # "backend"
          /\ UNCHANGED <<pc, rules, deny, egressTab, returnTab, table, clean>>
      BY <1>7 DEF Bounce, Typed, Routes, AllTables
    <2> QED
      BY <2>1 DEF Reverted
  <1>8. ASSUME pc'["tick"] \notin {"unreturn", "unfrom", "unroute", "reverted"} PROVE Reverted'
    BY <1>8 DEF Reverted
  <1> USE DEF Goto, Typed, Threads
  <1>9. ASSUME Agent PROVE pc'["tick"] \notin {"unreturn", "unfrom", "unroute", "reverted"}
    BY <1>9 DEF Agent, Tick, EnsureOverlayAddress, EnsureLinkerRule, ApplyRoute, EnsureReturnPath,
       EnsureLinkerMarkRule, Booted, RetryEgress, ReconcileRoute, AfterReturn
  <1>10. ASSUME NEW th \in Threads, ApplyEgress(th)
         PROVE  pc'["tick"] \notin {"unreturn", "unfrom", "unroute", "reverted"}
    <2>1. pc[th] \notin Reverting \cup {"off"}
      BY <1>10 DEF ApplyEgress, Enter, Lock, InstallFails, Commit, LanIfaceTo, EnsureEgressRule,
         EnsureDenyRule, LoadEgress, RemoveRule, RemoveDeny, RemoveTable, Reverting
    <2>2. pc["tick"] \notin Reverting
      BY <2>1 DEF Phases
    <2>3. PICK l \in {"lock", "commit", "unrule", "iface", "check", "idle", "rule", "deny", "load",
                     "undeny", "unload"} : Goto(th, l)
      BY <1>10 DEF ApplyEgress, Enter, Lock, InstallFails, Commit, LanIfaceTo, EnsureEgressRule,
         EnsureDenyRule, LoadEgress, RemoveRule, RemoveDeny, RemoveTable, Return
    <2> QED
      BY <2>2, <2>3 DEF Reverting
  <1>11. ASSUME NEW l \in Lists, Push(l)
         PROVE  pc'["tick"] \notin {"unreturn", "unfrom", "unroute", "reverted"}
    BY <1>11 DEF Push, Phases, Reverting
  <1>12. ASSUME Stop \/ Start \/ RevertCommand
         PROVE  pc'["tick"] \notin {"unreturn", "unfrom", "unroute", "reverted"}
    BY <1>12 DEF Stop, Start, RevertCommand
  <1>13. CASE UNCHANGED vars
    BY <1>13 DEF vars, kernel, Reverted
  <1> QED
    BY <1>3, <1>4, <1>5, <1>6, <1>7, <1>8, <1>9, <1>10, <1>11, <1>12, <1>13, Zenon DEF Next, Revert

(* Every default route of this system's stands behind a source rule, but   *)
(* for those whose rule failed and the one whose rule a revert has just    *)
(* taken away.                                                             *)
Evident ==
  \A t \in Tables : route[t] = "backend" =>
    \/ t \in unmarked \/ Marked(rules["from"], t)
    \/ t = table /\ pc["tick"] = "unroute"

(* The steps that touch neither the source rules nor the reason a route    *)
(* may stand without one.                                                  *)
Bystands ==
  /\ rules'["from"] = rules["from"] /\ unmarked' = unmarked
  /\ \A t \in Tables : route'[t] = "backend" => route[t] = "backend"
  /\ pc["tick"] = "unroute" => pc'["tick"] = "unroute" /\ table' = table

LEMMA EvidentInit == Init => Evident
  <1> SUFFICES ASSUME Init, NEW t \in Tables, route[t] = "backend"
               PROVE  Marked(rules["from"], t)
    BY DEF Evident
  <1>1. PICK old \in {{}} \cup {{u} : u \in Tables} :
          /\ rules = [HostRules EXCEPT !["from"] = {Rule(u, FALSE) : u \in old}]
          /\ route = [u \in Tables \cup {HostTable} |->
                        IF u = HostTable THEN "other"
                        ELSE IF u \in old THEN "backend" ELSE "none"]
    BY DEF Init
  <1>2. t \in old
    BY <1>1
  <1>3. Rule(t, FALSE) \in rules["from"]
    BY <1>1, <1>2 DEF HostRules, Selectors
  <1> QED
    BY <1>3 DEF Marked, Rule

LEMMA EvidentStep == Typed /\ Phases /\ Evident /\ [Next]_vars => Evident'
  <1> SUFFICES ASSUME Typed, Phases, Evident, [Next]_vars PROVE Evident'
    OBVIOUS
  <1> USE DEF Goto, kernel
  <1>1. Bystands => Evident'
    BY DEF Bystands, Evident
  <1>2. ASSUME NEW sel \in {"mark", "egress"}, EnsurePinnedRule(sel) \/ RemovePinnedRule(sel)
        PROVE  /\ rules'["from"] = rules["from"]
               /\ \A t \in Tables : route'[t] = "backend" => route[t] = "backend"
    <2>1. sel \in Selectors /\ "from" \in Selectors \ {sel}
      BY DEF Selectors
    <2>2. CASE EnsurePinnedRule(sel)
      BY <2>1, <2>2, EnsureEffect
    <2>3. CASE RemovePinnedRule(sel)
      BY <2>1, <2>3, RemoveEffect
    <2> QED
      BY <1>2, <2>2, <2>3
  <1>3. CASE EnsureLinkerRule
    <2>1. CASE EnsurePinnedRule("from") /\ unmarked' = unmarked \ {table}
      <3>1. /\ Mine \in rules'["from"] /\ table' = table /\ pc["tick"] = "from"
            /\ \A t \in Tables \ {table} : \A r \in rules["from"] \ rules'["from"] :
                 r.table = t => route'[t] # "backend"
            /\ \A t \in Tables : route'[t] = "backend" => route[t] = "backend"
        BY <1>3, <2>1, EnsureEffect, SelectorsAre DEF EnsureLinkerRule
      <3>2. Marked(rules'["from"], table)
        BY <3>1 DEF Marked, Mine, Rule
      <3> QED
        BY <2>1, <3>1, <3>2 DEF Evident, Marked
    <2>2. CASE UNCHANGED <<rules, route, unmarked>>
      BY <1>3, <2>2 DEF EnsureLinkerRule, Evident
    <2> QED
      BY <1>3, <2>1, <2>2 DEF EnsureLinkerRule
  <1>4. ASSUME ApplyRoute \/ ReconcileRoute PROVE Evident'
    <2>1. UNCHANGED <<rules, table>> /\ pc["tick"] # "unroute"
      BY <1>4 DEF ApplyRoute, ReconcileRoute
    <2>2. CASE EnsureLinkerRoute
      BY <2>1, <2>2 DEF EnsureLinkerRoute, Evident, Marked, Typed, Routes, AllTables
    <2>3. CASE UNCHANGED <<route, unmarked>>
      BY <2>1, <2>3 DEF Evident
    <2> QED
      BY <1>4, <2>2, <2>3 DEF ApplyRoute, ReconcileRoute
  <1>5. CASE RevertRules
    <2>1. /\ UNCHANGED <<table, unmarked>> /\ pc["tick"] = "unfrom" /\ pc'["tick"] = "unroute"
          /\ RemovePinnedRule("from")
      BY <1>5 DEF RevertRules, Typed, Threads
    <2>2. /\ \A t \in Tables \ {table} : \A r \in rules["from"] \ rules'["from"] :
               r.table = t => route'[t] # "backend"
          /\ \A t \in Tables : route'[t] = "backend" => route[t] = "backend"
      BY <2>1, RemoveEffect, SelectorsAre
    <2> QED
      BY <2>1, <2>2 DEF Evident, Marked
  <1>6. CASE RevertRoute
    <2>1. UNCHANGED <<rules, table>>
      BY <1>6 DEF RevertRoute
    <2>2. CASE /\ route' = [route EXCEPT ![table] = IF @ = "backend" THEN "none" ELSE @]
               /\ unmarked' = unmarked \ {table}
      BY <2>1, <2>2 DEF Evident, Typed, Routes, AllTables
    <2>3. CASE unmarked' = unmarked \cup {table} /\ UNCHANGED route
      BY <2>1, <2>3 DEF Evident
    <2> QED
      BY <1>6, <2>2, <2>3 DEF RevertRoute
  <1>7. CASE EnsureLinkerMarkRule
    BY <1>2, <1>7 DEF EnsureLinkerMarkRule, Evident, Typed
  <1>8. CASE RevertEgress
    BY <1>1, <1>2, <1>8 DEF RevertEgress, Bystands
  <1>9. CASE RevertReturn
    BY <1>1, <1>2, <1>9 DEF RevertReturn, Bystands
  <1>10. ASSUME NEW th \in Threads, ApplyEgress(th) PROVE Evident'
    <2>1. pc[th] \notin Reverting \cup {"off"}
      BY <1>10 DEF ApplyEgress, Enter, Lock, InstallFails, Commit, LanIfaceTo, EnsureEgressRule,
         EnsureDenyRule, LoadEgress, RemoveRule, RemoveDeny, RemoveTable, Reverting
    <2>2. pc["tick"] # "unroute"
      BY <2>1 DEF Phases, Threads, Reverting
    <2>3. CASE EnsureEgressRule(th)
      BY <1>1, <1>2, <2>2, <2>3 DEF EnsureEgressRule, Bystands
    <2>4. CASE RemoveRule(th)
      BY <1>1, <1>2, <2>2, <2>4 DEF RemoveRule, Bystands
    <2>5. ASSUME \/ Enter(th) \/ Lock(th) \/ InstallFails(th) \/ Commit(th)
                 \/ LanIfaceTo(th) \/ EnsureDenyRule(th) \/ LoadEgress(th)
                 \/ RemoveDeny(th) \/ RemoveTable(th)
          PROVE  UNCHANGED <<rules, route, unmarked, table>>
      BY <2>5 DEF Enter, Lock, InstallFails, Commit, LanIfaceTo, EnsureDenyRule, LoadEgress,
                  RemoveDeny, RemoveTable
    <2> QED
      BY <1>1, <1>10, <2>2, <2>3, <2>4, <2>5 DEF ApplyEgress, Bystands
  <1>11. ASSUME Tick \/ EnsureOverlayAddress \/ EnsureReturnPath \/ Booted \/ RetryEgress
         PROVE  Evident'
    BY <1>1, <1>11 DEF Tick, EnsureOverlayAddress, EnsureReturnPath, Booted, RetryEgress, Bystands
  <1>12. ASSUME NEW l \in Lists, Push(l) PROVE Evident'
    BY <1>1, <1>12 DEF Push, Bystands, Typed, Threads
  <1>13. ASSUME Stop \/ Start \/ RevertCommand PROVE Evident'
    <2>1. UNCHANGED <<rules, route, unmarked>> /\ pc["tick"] # "unroute"
      BY <1>13 DEF Stop, Start, RevertCommand, Running, Phases, Reverting, Booting
    <2> QED
      BY <1>1, <2>1 DEF Bystands
  <1>14. CASE Bounce
    BY <1>1, <1>14 DEF Bounce, Bystands, Typed, Routes, AllTables
  <1>15. CASE UNCHANGED vars
    BY <1>1, <1>15 DEF vars, Bystands
  <1> QED
    BY <1>3, <1>4, <1>5, <1>6, <1>7, <1>8, <1>9, <1>10, <1>11, <1>12, <1>13, <1>14, <1>15
       DEF Next, Agent, Revert

(* A revert none of whose commands failed leaves the host its own rules    *)
(* and routes and no rule or ruleset of this system's; and no default of   *)
(* this system's in any table it ever used, but for those whose source     *)
(* rule had failed or a former revert failed on, for any tables            *)
(* (RemoveLinkerEgressRuleset, RemoveLinkerReturnRuleset,                  *)
(* RemoveLinkerRouting).                                                   *)
THEOREM RevertComplete == Spec => []RevertRestores
  <1> DEFINE IInv == Typed /\ Phases /\ HostKept /\ Reverted /\ Evident
  <1>1. Init => IInv
    <2> SUFFICES ASSUME Init PROVE IInv
      OBVIOUS
    <2>1. Typed /\ Phases /\ Reverted
      BY TypedInit DEF Init, Phases, Reverted, Critical, Installing, RemovingAt, Booting,
                       Reverting, Threads
    <2>2. \A s \in {"mark", "egress"} : rules[s] = {Host}
      BY DEF Init, HostRules, Host, Selectors
    <2>3. route[HostTable] = "other"
      BY DEF Init
    <2> QED
      BY <2>1, <2>2, <2>3, EvidentInit DEF HostKept
  <1>2. IInv /\ [Next]_vars => IInv'
    BY TypedStep, PhasesStep, HostKeptStep, RevertedStep, EvidentStep
  <1>3. IInv => RevertRestores
    <2> SUFFICES ASSUME IInv, pc["tick"] = "reverted", clean PROVE RevertRestores
      BY DEF RevertRestores
    <2>1. rules = HostRules
      BY DEF Typed, Reverted, HostRules, Host, Selectors
    <2>2. \A t \in Tables \ unmarked : route[t] # "backend"
      BY DEF Reverted, Evident, Marked
    <2> QED
      BY <2>1, <2>2 DEF RevertRestores, Reverted, HostKept
  <1> QED
    BY <1>1, <1>2, <1>3, PTL DEF Spec
=============================================================================
