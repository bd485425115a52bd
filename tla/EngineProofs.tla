---------------------------- MODULE EngineProofs ----------------------------
(***************************************************************************)
(* Proofs about Engine, for every set of paths, interfaces, handlers and   *)
(* configurations and every bound: a finished revert stays in force,       *)
(* observe mode moves no traffic, and no step but a deliberate one leaves  *)
(* the backend without a route.                                            *)
(*                                                                         *)
(* What makes them true is who holds which lock where.  Revert latches     *)
(* under applyMu and keeps reconfMu to the end, so whoever writes routes   *)
(* has either finished before the latch or sees it; Reconfigure, which     *)
(* alone clears the latch, needs reconfMu; and the configuration changes   *)
(* only while nobody that read it is writing.                              *)
(***************************************************************************)
EXTENDS Engine, WellFoundedInduction, TLAPS

(* Where Revert holds applyMu too.                                         *)
Removing == {"persist", "removeRules", "removeRoutes", "saveObserve", "forget"}

(* Nothing that c names is routed, in the main table or in a probe table,  *)
(* and the control channel has no route, but for what a removal failed on. *)
Gone(c) ==
    /\ ctrl # None => left.ctrl
    /\ main[Prefix(c)] # None => Prefix(c) \in left.main
    /\ \A p \in Configured(c) : probe[p] # None => p \in left.probe

(* The shapes the other parts rest on.                                     *)
Typed ==
    /\ DOMAIN pc = Actors /\ DOMAIN main = Prefixes
    /\ DOMAIN disk = {"cfg", "latch"} /\ "mode" \in DOMAIN eval
    /\ up \subseteq Ifaces
    /\ cfg \in Cfg /\ disk.cfg \in Cfg /\ job \in [Handlers -> Cfg]
    /\ revertDone \subseteq Cfg
    /\ DOMAIN left = {"rules", "ctrl", "main", "probe"}
    /\ links \in Nat

(* Which lock an actor holds at each of its steps.                         *)
Locks ==
    /\ \A h \in Handlers : pc[h] # "idle" => reconfMu = h
    /\ pc[Run] \in {"apply", "rules", "seed", "start"} => reconfMu = Run
    /\ \A a \in Actors : pc[a] = "rules" => applyMu = a
    /\ \A h \in Handlers : pc[h] \in Removing => applyMu = h
    /\ pc[Run] \in {"write", "commit"} => applyMu = Run

(* Once the latch is set nobody is past the check of it.                   *)
Quiet ==
    reverted => /\ \A h \in Handlers : pc[h] \notin {"unlatch", "apply", "rules", "start"}
                /\ pc[Run] \notin {"apply", "rules", "seed", "start", "write", "commit"}

(* What a revert has taken down so far stays down.                         *)
TakenDown ==
    \A h \in Handlers :
        /\ pc[h] \in Removing => reverted
        /\ pc[h] \in Removing \ {"persist"} => ~probing
        /\ pc[h] \in {"removeRoutes", "saveObserve", "forget"} => (dnat => left.rules)
        /\ pc[h] \in {"saveObserve", "forget"} => Gone(cfg)

(* RevertHolds, with the latches that keep it.                             *)
Down ==
    \A c \in revertDone : /\ reverted /\ disk.latch
                          /\ (dnat => left.rules) /\ ~probing /\ active = 0
                          /\ Gone(c)

(* An evaluation about to write has the mode of the settings in force.     *)
ModeRead == pc[Run] \in {"write", "commit"} => eval.mode = cfg.mode

(* And one about to record its switch has traffic on it, or has lost the   *)
(* tunnel.                                                                 *)
Installed ==
    pc[Run] = "commit" /\ eval.mode = "armed" =>
        \/ main[Prefix(cfg)] = eval.iface
        \/ main[Prefix(cfg)] = None /\ links > 0

Inv == Typed /\ Locks /\ Quiet /\ TakenDown /\ Down /\ ModeRead /\ Installed

-----------------------------------------------------------------------------
(* Only the mode changes when a revert rewrites the settings.              *)
LEMMA Disarmed ==
    ASSUME NEW c \in Cfg
    PROVE  /\ [c EXCEPT !.mode = "observe"] \in Cfg
           /\ DOMAIN c.iface \subseteq Paths
BY DEF Cfg, Modes

LEMMA InitInv == Init => Inv
BY EngineAssumption DEF Init, Inv, Typed, Locks, Quiet, TakenDown, Down, ModeRead,
   Installed, Nothing, Actors, Run, Free, Removing, Cfg

(* Every step keeps the shapes.                                            *)
LEMMA TypedStep == Typed /\ [Next]_vars => Typed'
  <1> SUFFICES ASSUME Typed, [Next]_vars PROVE Typed'
    OBVIOUS
  <1> USE EngineAssumption DEF Typed, Actors, vars, memory, kernel, bounds, history
  <1>1. CASE RunStep
    BY <1>1 DEF RunStep, RunBoots, ApplyRoutes, ApplyRules, SeedActive, StartProbers,
       Evaluate, EvaluateLocks, EvaluateWrites, CommitSwitch, SetMain, DropSuperseded
  <1>2. ASSUME NEW h \in Handlers, HandlerStep(h) PROVE Typed'
    <2>1. CASE StopProbers(h)
      BY <2>1 DEF StopProbers
    <2>2. CASE Swap(h)
      BY <2>2 DEF Swap, Nothing
    <2>3. CASE Unlatch(h)
      BY <2>3 DEF Unlatch
    <2>4. CASE ApplyRoutes(h)
      BY <2>4 DEF ApplyRoutes, SetMain, DropSuperseded
    <2>5. CASE ApplyRules(h)
      BY <2>5 DEF ApplyRules
    <2>6. CASE StartProbers(h)
      BY <2>6 DEF StartProbers
    <2>7. CASE RevertLatches(h)
      BY <2>7 DEF RevertLatches
    <2>8. CASE RevertPersists(h)
      BY <2>8 DEF RevertPersists
    <2>9. CASE RemoveRules(h)
      BY <2>9 DEF RemoveRules
    <2>10. CASE RemoveRoutes(h)
      BY <2>10 DEF RemoveRoutes
    <2>11. CASE SaveObserve(h)
      BY <2>11, Disarmed DEF SaveObserve
    <2>12. CASE RevertForgets(h)
      BY <2>12, Disarmed DEF RevertForgets
    <2> QED
      BY <1>2, <2>1, <2>2, <2>3, <2>4, <2>5, <2>6, <2>7, <2>8, <2>9, <2>10, <2>11, <2>12
         DEF HandlerStep
  <1>3. ASSUME NEW h \in Handlers, Request(h) PROVE Typed'
    BY <1>3 DEF Request, Save, SaveFails, RevertAsked
  <1>4. CASE Reconcile \/ Pin \/ Verdict \/ LinkDeleted \/ LinkCreated
    BY <1>4 DEF Reconcile, Pin, Verdict, LinkDeleted, LinkCreated,
       ReconcileRoutes, SetMain, DropSuperseded
  <1>5. CASE Crash
    BY <1>5 DEF Crash, Boot
  <1>6. CASE UNCHANGED vars
    BY <1>6
  <1> QED
    BY <1>1, <1>2, <1>3, <1>4, <1>5, <1>6 DEF Next

(* The removal of the routes, whichever of its commands fail.              *)
LEMMA RoutesRemoved ==
    ASSUME Typed, NEW h, RemoveRoutes(h)
    PROVE  Gone(cfg)' /\ \A c \in Cfg : Gone(c) => Gone(c)'
  <1>1. PICK probes \in SUBSET {p \in Configured(cfg) : probe[p] # None},
             mains \in SUBSET {x \in {Prefix(cfg)} : main[x] # None},
             ctrlKept \in {FALSE, ctrl # None} :
          /\ probe' = [p \in Paths |-> IF Has(cfg, p) /\ p \notin probes THEN None
                                      ELSE probe[p]]
          /\ main' = [x \in Prefixes |-> IF x = Prefix(cfg) /\ x \notin mains THEN None
                                        ELSE main[x]]
          /\ ctrl' = IF ctrlKept THEN ctrl ELSE None
          /\ left' = [left EXCEPT !.ctrl = ctrlKept,
                                  !.main = (@ \ {Prefix(cfg)}) \cup mains,
                                  !.probe = (@ \ Configured(cfg)) \cup probes]
    BY DEF RemoveRoutes
  <1>2. /\ left'.ctrl = ctrlKept
        /\ left'.main = (left.main \ {Prefix(cfg)}) \cup mains
        /\ left'.probe = (left.probe \ Configured(cfg)) \cup probes
    BY <1>1 DEF Typed
  <1>3. cfg' = cfg
    BY DEF RemoveRoutes, memory
  <1>4. ASSUME NEW c \in Cfg PROVE Configured(c) \subseteq Paths /\ Prefix(c) \in Prefixes
    BY Disarmed DEF Configured, Prefix, Prefixes
  <1>5. ctrl' # None => left'.ctrl
    BY <1>1, <1>2
  <1>6. Gone(cfg)'
    BY <1>1, <1>2, <1>3, <1>4, <1>5 DEF Gone, Has, Typed
  <1>7. ASSUME NEW c \in Cfg, Gone(c) PROVE Gone(c)'
    BY <1>1, <1>2, <1>3, <1>4, <1>5, <1>7 DEF Gone, Has
  <1> QED
    BY <1>6, <1>7

(* Every step keeps the lock discipline.                                   *)
LEMMA LocksStep == Typed /\ Locks /\ [Next]_vars => Locks'
  <1> SUFFICES ASSUME Typed, Locks, [Next]_vars PROVE Locks'
    OBVIOUS
  <1> USE EngineAssumption DEF Typed, Locks, Actors, Run, Free, Removing,
         vars, memory, kernel, bounds, history
  <1>1. CASE RunStep
    BY <1>1 DEF RunStep, RunBoots, ApplyRoutes, ApplyRules, SeedActive, StartProbers,
       Evaluate, EvaluateLocks, EvaluateWrites, CommitSwitch
  <1>2. ASSUME NEW h \in Handlers, HandlerStep(h) PROVE Locks'
    <2>1. CASE RemoveRoutes(h)
      BY <2>1 DEF RemoveRoutes
    <2> QED
      BY <1>2, <2>1 DEF HandlerStep, StopProbers, Swap, Unlatch, ApplyRoutes,
         ApplyRules, StartProbers, RevertLatches, RevertPersists, RemoveRules,
         SaveObserve, RevertForgets
  <1>3. ASSUME NEW h \in Handlers, Request(h) PROVE Locks'
    BY <1>3 DEF Request, Save, SaveFails, RevertAsked
  <1>4. CASE Reconcile \/ Pin \/ Verdict \/ LinkDeleted \/ LinkCreated
    BY <1>4 DEF Reconcile, Pin, Verdict, LinkDeleted, LinkCreated
  <1>5. CASE Crash
    BY <1>5 DEF Crash, Boot
  <1>6. CASE UNCHANGED vars
    BY <1>6
  <1> QED
    BY <1>1, <1>2, <1>3, <1>4, <1>5, <1>6 DEF Next

(* Nobody passes the latch: it is set under both locks, and cleared by a   *)
(* handler that holds reconfMu.                                            *)
LEMMA QuietStep == Typed /\ Locks /\ Quiet /\ [Next]_vars => Quiet'
  <1> SUFFICES ASSUME Typed, Locks, Quiet, [Next]_vars PROVE Quiet'
    OBVIOUS
  <1> USE EngineAssumption DEF Typed, Locks, Quiet, Actors, Run, Free,
         Removing, vars, memory, kernel, bounds, history
  <1>1. CASE RunStep
    BY <1>1 DEF RunStep, RunBoots, ApplyRoutes, ApplyRules, SeedActive, StartProbers,
       Evaluate, EvaluateLocks, EvaluateWrites, CommitSwitch
  <1>2. ASSUME NEW h \in Handlers, HandlerStep(h) PROVE Quiet'
    <2>1. CASE RemoveRoutes(h)
      BY <2>1 DEF RemoveRoutes
    <2> QED
      BY <1>2, <2>1 DEF HandlerStep, StopProbers, Swap, Unlatch, ApplyRoutes,
         ApplyRules, StartProbers, RevertLatches, RevertPersists, RemoveRules,
         SaveObserve, RevertForgets
  <1>3. ASSUME NEW h \in Handlers, Request(h) PROVE Quiet'
    BY <1>3 DEF Request, Save, SaveFails, RevertAsked
  <1>4. CASE Reconcile \/ Pin \/ Verdict \/ LinkDeleted \/ LinkCreated
    BY <1>4 DEF Reconcile, Pin, Verdict, LinkDeleted, LinkCreated
  <1>5. CASE Crash
    BY <1>5 DEF Crash, Boot
  <1>6. CASE UNCHANGED vars
    BY <1>6
  <1> QED
    BY <1>1, <1>2, <1>3, <1>4, <1>5, <1>6 DEF Next

(* A revert at work is alone with the kernel.                              *)
LEMMA TakenDownStep == Typed /\ Locks /\ Quiet /\ TakenDown /\ [Next]_vars => TakenDown'
  <1> SUFFICES ASSUME Typed, Locks, Quiet, TakenDown, [Next]_vars PROVE TakenDown'
    OBVIOUS
  <1> USE EngineAssumption DEF Typed, Locks, Quiet, TakenDown, Gone,
         Actors, Run, Free, Removing, Configured, Prefix, Prefixes, vars, memory, kernel, bounds, history
  <1>1. CASE RunStep
    BY <1>1 DEF RunStep, RunBoots, ApplyRoutes, ApplyRules, SeedActive, StartProbers,
       Evaluate, EvaluateLocks, EvaluateWrites, CommitSwitch
  <1>2. ASSUME NEW h \in Handlers, HandlerStep(h) PROVE TakenDown'
    <2>1. CASE StopProbers(h)
      BY <2>1 DEF StopProbers
    <2>2. CASE Swap(h)
      BY <2>2 DEF Swap
    <2>3. CASE Unlatch(h)
      BY <2>3 DEF Unlatch
    <2>4. CASE ApplyRoutes(h)
      BY <2>4 DEF ApplyRoutes
    <2>5. CASE ApplyRules(h)
      BY <2>5 DEF ApplyRules
    <2>6. CASE StartProbers(h)
      BY <2>6 DEF StartProbers
    <2>7. CASE RevertLatches(h)
      BY <2>7 DEF RevertLatches
    <2>8. CASE RevertPersists(h)
      BY <2>8 DEF RevertPersists
    <2>9. CASE RemoveRules(h)
      BY <2>9 DEF RemoveRules
    <2>10. CASE RemoveRoutes(h)
      <3>1. RemoveRoutes(h) /\ Gone(cfg)' /\ \A c \in Cfg : Gone(c) => Gone(c)'
        BY <2>10, RoutesRemoved
      <3> QED
        BY <3>1 DEF RemoveRoutes
    <2>11. CASE SaveObserve(h)
      BY <2>11 DEF SaveObserve
    <2>12. CASE RevertForgets(h)
      BY <2>12 DEF RevertForgets
    <2> QED
      BY <1>2, <2>1, <2>2, <2>3, <2>4, <2>5, <2>6, <2>7, <2>8, <2>9, <2>10, <2>11, <2>12
         DEF HandlerStep
  <1>3. ASSUME NEW h \in Handlers, Request(h) PROVE TakenDown'
    BY <1>3 DEF Request, Save, SaveFails, RevertAsked
  <1>4. CASE Reconcile \/ Pin \/ Verdict \/ LinkDeleted \/ LinkCreated
    <2>1. CASE Reconcile
      BY <2>1 DEF Reconcile
    <2>2. CASE Pin
      BY <2>2 DEF Pin
    <2>3. CASE Verdict
      BY <2>3 DEF Verdict
    <2>4. CASE LinkDeleted
      <3> SUFFICES ASSUME NEW h \in Handlers, pc[h] \in {"saveObserve", "forget"} PROVE Gone(cfg)'
        BY <2>4 DEF LinkDeleted
      <3>1. PICK i \in up :
                /\ main' = [x \in Prefixes |-> IF main[x] = i THEN None ELSE main[x]]
                /\ ctrl' = IF ctrl = i THEN None ELSE ctrl
                /\ probe' = [p \in Paths |-> IF probe[p] = i THEN None ELSE probe[p]]
        BY <2>4 DEF LinkDeleted
      <3>2. Configured(cfg) \subseteq Paths /\ Gone(cfg) /\ cfg' = cfg /\ left' = left
        BY <2>4, Disarmed DEF LinkDeleted
      <3> QED
        BY <3>1, <3>2
    <2>5. CASE LinkCreated
      BY <2>5 DEF LinkCreated
    <2> QED
      BY <1>4, <2>1, <2>2, <2>3, <2>4, <2>5
  <1>5. CASE Crash
    BY <1>5 DEF Crash, Boot
  <1>6. CASE UNCHANGED vars
    BY <1>6
  <1> QED
    BY <1>1, <1>2, <1>3, <1>4, <1>5, <1>6 DEF Next

(* After a revert only saved settings put anything back.                   *)
LEMMA DownStep == Typed /\ Locks /\ Quiet /\ TakenDown /\ Down /\ [Next]_vars => Down'
  <1> SUFFICES ASSUME Typed, Locks, Quiet, TakenDown, Down, [Next]_vars PROVE Down'
    OBVIOUS
  <1> USE EngineAssumption DEF Typed, Locks, Quiet, TakenDown, Down,
         Gone, Actors, Run, Free, Removing, Configured, Prefix, Prefixes, vars, memory, kernel, bounds, history
  <1>1. CASE RunStep
    BY <1>1 DEF RunStep, RunBoots, ApplyRoutes, ApplyRules, SeedActive, StartProbers,
       Evaluate, EvaluateLocks, EvaluateWrites, CommitSwitch
  <1>2. ASSUME NEW h \in Handlers, HandlerStep(h) PROVE Down'
    <2>1. CASE StopProbers(h)
      BY <2>1 DEF StopProbers
    <2>2. CASE Swap(h)
      BY <2>2 DEF Swap
    <2>3. CASE Unlatch(h)
      BY <2>3 DEF Unlatch
    <2>4. CASE ApplyRoutes(h)
      BY <2>4 DEF ApplyRoutes
    <2>5. CASE ApplyRules(h)
      BY <2>5 DEF ApplyRules
    <2>6. CASE StartProbers(h)
      BY <2>6 DEF StartProbers
    <2>7. CASE RevertLatches(h)
      BY <2>7 DEF RevertLatches
    <2>8. CASE RevertPersists(h)
      BY <2>8 DEF RevertPersists
    <2>9. CASE RemoveRules(h)
      BY <2>9 DEF RemoveRules
    <2>10. CASE RemoveRoutes(h)
      <3>1. RemoveRoutes(h) /\ Gone(cfg)' /\ \A c \in Cfg : Gone(c) => Gone(c)'
        BY <2>10, RoutesRemoved
      <3> QED
        BY <3>1 DEF RemoveRoutes
    <2>11. CASE SaveObserve(h)
      BY <2>11 DEF SaveObserve
    <2>12. CASE RevertForgets(h)
      BY <2>12 DEF RevertForgets
    <2> QED
      BY <1>2, <2>1, <2>2, <2>3, <2>4, <2>5, <2>6, <2>7, <2>8, <2>9, <2>10, <2>11, <2>12
         DEF HandlerStep
  <1>3. ASSUME NEW h \in Handlers, Request(h) PROVE Down'
    BY <1>3 DEF Request, Save, SaveFails, RevertAsked
  <1>4. CASE Reconcile \/ Pin \/ Verdict \/ LinkDeleted \/ LinkCreated
    <2>1. CASE Reconcile
      BY <2>1 DEF Reconcile
    <2>2. CASE Pin
      BY <2>2 DEF Pin
    <2>3. CASE Verdict
      BY <2>3 DEF Verdict
    <2>4. CASE LinkDeleted
      <3> SUFFICES ASSUME NEW c \in revertDone PROVE Gone(c)'
        BY <2>4 DEF LinkDeleted
      <3>1. PICK i \in up :
                /\ main' = [x \in Prefixes |-> IF main[x] = i THEN None ELSE main[x]]
                /\ ctrl' = IF ctrl = i THEN None ELSE ctrl
                /\ probe' = [p \in Paths |-> IF probe[p] = i THEN None ELSE probe[p]]
        BY <2>4 DEF LinkDeleted
      <3>2. Configured(c) \subseteq Paths /\ Gone(c) /\ left' = left
        BY <2>4, Disarmed DEF LinkDeleted
      <3> QED
        BY <3>1, <3>2
    <2>5. CASE LinkCreated
      BY <2>5 DEF LinkCreated
    <2> QED
      BY <1>4, <2>1, <2>2, <2>3, <2>4, <2>5
  <1>5. CASE Crash
    BY <1>5 DEF Crash, Boot
  <1>6. CASE UNCHANGED vars
    BY <1>6
  <1> QED
    BY <1>1, <1>2, <1>3, <1>4, <1>5, <1>6 DEF Next

(* The settings do not change under an evaluation that is writing.         *)
LEMMA ModeReadStep == Typed /\ Locks /\ ModeRead /\ [Next]_vars => ModeRead'
  <1> SUFFICES ASSUME Typed, Locks, ModeRead, [Next]_vars PROVE ModeRead'
    OBVIOUS
  <1> USE EngineAssumption DEF Typed, Locks, ModeRead, Actors, Run, Free,
         Removing, vars, memory, kernel, bounds, history
  <1>1. CASE RunStep
    BY <1>1 DEF RunStep, RunBoots, ApplyRoutes, ApplyRules, SeedActive, StartProbers,
       Evaluate, EvaluateLocks, EvaluateWrites, CommitSwitch
  <1>2. ASSUME NEW h \in Handlers, HandlerStep(h) PROVE ModeRead'
    <2>1. CASE RemoveRoutes(h)
      BY <2>1 DEF RemoveRoutes
    <2> QED
      BY <1>2, <2>1 DEF HandlerStep, StopProbers, Swap, Unlatch, ApplyRoutes,
         ApplyRules, StartProbers, RevertLatches, RevertPersists, RemoveRules,
         SaveObserve, RevertForgets
  <1>3. ASSUME NEW h \in Handlers, Request(h) PROVE ModeRead'
    BY <1>3 DEF Request, Save, SaveFails, RevertAsked
  <1>4. CASE Reconcile \/ Pin \/ Verdict \/ LinkDeleted \/ LinkCreated
    BY <1>4 DEF Reconcile, Pin, Verdict, LinkDeleted, LinkCreated
  <1>5. CASE Crash
    BY <1>5 DEF Crash, Boot
  <1>6. CASE UNCHANGED vars
    BY <1>6
  <1> QED
    BY <1>1, <1>2, <1>3, <1>4, <1>5, <1>6 DEF Next

(* Nobody else writes the main table between an install and its record.    *)
LEMMA InstalledStep == Typed /\ Locks /\ ModeRead /\ Installed /\ [Next]_vars => Installed'
  <1> SUFFICES ASSUME Typed, Locks, ModeRead, Installed, [Next]_vars PROVE Installed'
    OBVIOUS
  <1> USE EngineAssumption DEF Typed, Locks, Installed, Actors, Run, Free,
         Removing, Prefix, Prefixes, vars, memory, kernel, bounds, history
  <1>1. CASE RunStep
    <2>1. CASE EvaluateWrites
      BY <2>1 DEF EvaluateWrites, SetMain
    <2> QED
      BY <1>1, <2>1 DEF RunStep, RunBoots, ApplyRoutes, ApplyRules, SeedActive,
         StartProbers, Evaluate, EvaluateLocks, CommitSwitch
  <1>2. ASSUME NEW h \in Handlers, HandlerStep(h) PROVE Installed'
    <2>1. CASE RemoveRoutes(h)
      BY <2>1 DEF RemoveRoutes
    <2> QED
      BY <1>2, <2>1 DEF HandlerStep, StopProbers, Swap, Unlatch, ApplyRoutes,
         ApplyRules, StartProbers, RevertLatches, RevertPersists, RemoveRules,
         SaveObserve, RevertForgets
  <1>3. ASSUME NEW h \in Handlers, Request(h) PROVE Installed'
    BY <1>3 DEF Request, Save, SaveFails, RevertAsked
  <1>4. CASE LinkDeleted
    BY <1>4 DEF LinkDeleted
  <1>5. CASE Reconcile \/ Pin \/ Verdict \/ LinkCreated
    BY <1>5 DEF Reconcile, Pin, Verdict, LinkCreated
  <1>6. CASE Crash
    BY <1>6 DEF Crash, Boot
  <1>7. CASE UNCHANGED vars
    BY <1>7
  <1> QED
    BY <1>1, <1>2, <1>3, <1>4, <1>5, <1>6, <1>7 DEF Next

(* The inductive invariant.                                                *)
THEOREM Invariant == Spec => []Inv
  <1>1. Inv /\ [Next]_vars => Inv'
    BY TypedStep, LocksStep, QuietStep, TakenDownStep, DownStep, ModeReadStep,
       InstalledStep DEF Inv
  <1> QED
    BY InitInv, <1>1, PTL DEF Spec

-----------------------------------------------------------------------------
(* A finished revert stays in force, through crashes and restarts and      *)
(* whoever was waiting on a lock meanwhile, until saved settings take over *)
(* (Revert, Reconfigure, evaluate, reconcileRouting, Run's startup).       *)
THEOREM RevertStays == Spec => []RevertHolds
  <1>1. Inv => RevertHolds
    BY DEF Inv, Down, Gone, RevertHolds
  <1> QED
    BY Invariant, <1>1, PTL

(* An armed switch is recorded only with traffic on its tunnel, or after   *)
(* the tunnel was deleted (evaluate, applyActivePath, commitSwitch): a     *)
(* failed install records nothing, and the lock held from the install to   *)
(* the record keeps saves, reverts and reconciles off the table.           *)
THEOREM SwitchesAreReal == Spec => SwitchIsReal
  <1>1. Inv => [(pc[Run] = "commit" /\ active' = eval.path /\ active' # active /\ Armed(cfg))
                  => \/ main[Prefix(cfg)] = eval.iface
                     \/ main[Prefix(cfg)] = None /\ links > 0]_vars
    BY DEF Inv, ModeRead, Installed, Armed
  <1> QED
    BY Invariant, <1>1, PTL DEF SwitchIsReal

(* What a write to the main table may leave in it.                         *)
LEMMA RoutesWritten ==
    ASSUME Typed, NEW i
    PROVE  /\ DOMAIN DropSuperseded(main) = Prefixes
           /\ \A x \in Prefixes : DropSuperseded(main)[x] \in {None, main[x]}
           /\ \A x \in Prefixes : SetMain(cfg, main, i)[x] \in {i, main[x]}
           /\ SetMain(cfg, main, i)[Prefix(cfg)] = i
           /\ \A x \in Prefixes :
                 DropSuperseded(SetMain(cfg, main, i))[x] \in {None, i, main[x]}
BY DEF Typed, DropSuperseded, SetMain, Prefix, Prefixes

(* No step installs a main-table route or loads the ruleset unless the     *)
(* settings in force are armed, although an evaluation chose its path      *)
(* under other settings (runnerFor, Reconfigure's swap under applyMu).     *)
THEOREM ObserveInert == Spec => ObserveMovesNothing
  <1> DEFINE Moves == \/ dnat' /\ ~dnat
                      \/ \E x \in Prefixes : main'[x] \notin {None, main[x]}
  <1>1. Inv /\ [Next]_vars => [Moves => Armed(cfg)]_vars
    <2> SUFFICES ASSUME Inv, Next, Moves PROVE Armed(cfg)
      OBVIOUS
    <2>1. ASSUME NEW a, ApplyRoutes(a) PROVE Armed(cfg)
      BY <2>1, RoutesWritten DEF ApplyRoutes, Inv
    <2>2. ASSUME NEW a, ApplyRules(a) PROVE Armed(cfg)
      BY <2>2 DEF ApplyRules
    <2>3. CASE EvaluateWrites
      BY <2>3 DEF EvaluateWrites, Inv, ModeRead, Armed
    <2>4. CASE Reconcile
      BY <2>4, RoutesWritten DEF Reconcile, ReconcileRoutes, Inv
    <2>5. ASSUME NEW h \in Handlers, RemoveRoutes(h) PROVE Armed(cfg)
      BY <2>5 DEF RemoveRoutes, Inv, Typed
    <2>6. CASE LinkDeleted
      BY <2>6 DEF LinkDeleted
    <2>7. CASE UNCHANGED <<main, dnat>>
      BY <2>7
    <2>8. ASSUME NEW h \in Handlers, RemoveRules(h) PROVE Armed(cfg)
      BY <2>8 DEF RemoveRules
    <2> QED
      BY <2>1, <2>2, <2>3, <2>4, <2>5, <2>6, <2>7, <2>8 DEF Next, RunStep, HandlerStep,
         Request, RunBoots, SeedActive, StartProbers, Evaluate, EvaluateLocks,
         CommitSwitch, StopProbers, Swap, Unlatch, RevertLatches, RevertPersists,
         SaveObserve, RevertForgets, Save, SaveFails, RevertAsked, Pin, Verdict,
         LinkCreated, Crash, kernel
  <1> QED
    BY Invariant, <1>1, PTL DEF Spec, ObserveMovesNothing

(* Traffic to the backend loses its route only to a revert, a deleted      *)
(* interface, or the drop of a superseded host route before the range is   *)
(* installed (selectPath's held route, applyActivePath,                    *)
(* dropSupersededHostRoute).                                               *)
THEOREM RouteHeld == Spec => DeadMan
  <1> DEFINE Allowed == \/ up' # up \/ Widens
                        \/ \E h \in Handlers : pc[h] = "removeRoutes"
  <1>1. Inv /\ [Next]_vars => [(Route # None /\ Route' = None) => Allowed]_vars
    <2> SUFFICES ASSUME Inv, Next, Route # None, Route' = None PROVE Allowed
      OBVIOUS
    <2>1. ASSUME NEW i \in Ifaces, main' = DropSuperseded(SetMain(cfg, main, i))
          PROVE FALSE
      BY <2>1, EngineAssumption DEF Inv, Typed, Route, DropSuperseded, SetMain, Prefix, Prefixes
    <2>2. ASSUME NEW i \in Ifaces, main' = SetMain(cfg, main, i) PROVE FALSE
      BY <2>2, EngineAssumption DEF Inv, Typed, Route, SetMain, Prefix, Prefixes
    <2>3. CASE main' = DropSuperseded(main)
      BY <2>3 DEF Inv, Typed, Route, DropSuperseded, Prefixes, Widens
    <2>4. CASE UNCHANGED main
      BY <2>4 DEF Route
    <2>5. ASSUME NEW a, ApplyRoutes(a) PROVE Allowed
      BY <2>1, <2>3, <2>5 DEF ApplyRoutes, Inv, Typed
    <2>6. CASE EvaluateWrites
      BY <2>2, <2>4, <2>6 DEF EvaluateWrites, Inv, Typed
    <2>7. CASE Reconcile
      BY <2>1, <2>3, <2>4, <2>7 DEF Reconcile, ReconcileRoutes, Inv, Typed
    <2>8. ASSUME NEW h \in Handlers, RemoveRoutes(h) PROVE Allowed
      BY <2>8 DEF RemoveRoutes
    <2>9. CASE LinkDeleted
      BY <2>9 DEF LinkDeleted
    <2> QED
      BY <2>4, <2>5, <2>6, <2>7, <2>8, <2>9 DEF Next, RunStep, HandlerStep,
         Request, RunBoots, ApplyRules, SeedActive, StartProbers, Evaluate,
         EvaluateLocks, CommitSwitch, StopProbers, Swap, Unlatch, RevertLatches,
         RevertPersists, RemoveRules, SaveObserve, RevertForgets, Save, SaveFails,
         RevertAsked, Pin, Verdict, LinkCreated, Crash, kernel
  <1> QED
    BY Invariant, <1>1, PTL DEF Spec, DeadMan

-----------------------------------------------------------------------------
(* Types.  They need the walk over the paths to find a configured one, and *)
(* a decision number that is reserved before it is used.                   *)

(* A set of paths that is not empty has a first one.                       *)
LEMMA FirstIs ==
    ASSUME NEW S \in SUBSET Paths, S # {}
    PROVE  First(S) \in S
  <1>0. S \in SUBSET Nat
    BY EngineAssumption
  <1>1. PICK p \in S : \A q \in S : ~ (<<q, p>> \in OpToRel(<, Nat))
    BY <1>0, NatLessThanWellFounded, WFMin
  <1>2. ASSUME NEW q \in S PROVE p <= q
    <2>1. ~ (<<q, p>> \in {pair \in Nat \X Nat : pair[1] < pair[2]})
      BY <1>1 DEF OpToRel
    <2> QED
      BY <1>0, <2>1
  <1> QED
    BY <1>2 DEF First

(* selectPath returns a configured path, or none.                          *)
LEMMA SelectPathIs ==
    ASSUME cfg \in Cfg, SelectPath # 0
    PROVE  SelectPath \in Configured(cfg)
  <1>1. Eligible \in SUBSET Paths /\ Eligible \subseteq Configured(cfg)
    BY Disarmed DEF Eligible, Configured
  <1>2. Eligible # {} => First(Eligible) \in Eligible
    BY <1>1, FirstIs
  <1> QED
    BY <1>1, <1>2 DEF SelectPath, Has

Choices ==
    /\ reconfMu \in Actors \cup {Free} /\ applyMu \in Actors \cup {Free}
    /\ active \in Paths \cup {0} /\ pinned \in Paths \cup {0}
    /\ seq \in 1..MaxSwitches
    /\ pc[Run] \in {"chosen", "write", "commit"} => seq < MaxSwitches
    /\ DOMAIN tracked \subseteq Paths
    /\ verdict \in [Paths -> {"out", "in", "clean"}]
    /\ eval \in [path : Paths \cup {0}, iface : Ifaces \cup {None}, mode : Modes]

Routes ==
    /\ main \in [Prefixes -> Ifaces \cup {None}]
    /\ ctrl \in Ifaces \cup {None}
    /\ probe \in [Paths -> Ifaces \cup {None}]

LEMMA RoutesStep == Typed /\ Routes /\ Choices /\ [Next]_vars => Routes'
  <1> SUFFICES ASSUME Typed, Routes, Choices, [Next]_vars PROVE Routes'
    OBVIOUS
  <1> USE EngineAssumption DEF Typed, Routes
  <1>1. DOMAIN cfg.iface \subseteq Paths /\ cfg.iface \in [DOMAIN cfg.iface -> Ifaces]
    BY DEF Cfg
  <1>2. ProbeRoutes \in [Paths -> Ifaces \cup {None}]
    BY <1>1 DEF ProbeRoutes, Has, Configured
  <1>3. SeededCtrl \in Ifaces \cup {None}
    BY <1>1, FirstIs DEF SeededCtrl, Configured
  <1>4. ASSUME NEW m \in [Prefixes -> Ifaces \cup {None}], NEW i \in Ifaces
        PROVE  /\ DropSuperseded(m) \in [Prefixes -> Ifaces \cup {None}]
               /\ SetMain(cfg, m, i) \in [Prefixes -> Ifaces \cup {None}]
    BY DEF DropSuperseded, SetMain, Prefix, Prefixes
  <1>5. ASSUME NEW a, ApplyRoutes(a) PROVE Routes'
    <2>1. \/ main' = DropSuperseded(main)
          \/ /\ cfg.iface[active] \in Ifaces
             /\ main' = DropSuperseded(SetMain(cfg, main, cfg.iface[active]))
      BY <1>5 DEF ApplyRoutes
    <2>2. main' \in [Prefixes -> Ifaces \cup {None}]
      <3>1. CASE main' = DropSuperseded(main)
        BY <3>1 DEF DropSuperseded, Prefixes
      <3>2. CASE /\ cfg.iface[active] \in Ifaces
                 /\ main' = DropSuperseded(SetMain(cfg, main, cfg.iface[active]))
        BY <3>2 DEF DropSuperseded, SetMain, Prefix, Prefixes
      <3> QED
        BY <2>1, <3>1, <3>2
    <2> QED
      BY <1>2, <1>3, <1>5, <2>2 DEF ApplyRoutes
  <1>6. CASE EvaluateWrites
    BY <1>4, <1>6 DEF EvaluateWrites
  <1>7. CASE Reconcile
    <2> DEFINE here == Has(cfg, active) /\ cfg.iface[active] \in up
    <2>1. here => cfg.iface[active] \in Ifaces
      BY <1>1 DEF Has, Configured
    <2>2. /\ probe' = ProbeRoutes
          /\ ctrl' = IF here THEN cfg.iface[active] ELSE ctrl
      BY <1>7 DEF Reconcile, ReconcileRoutes
    <2>3. \/ main' = main
          \/ main' = DropSuperseded(main)
          \/ here /\ main' = DropSuperseded(SetMain(cfg, main, cfg.iface[active]))
      BY <1>7 DEF Reconcile, ReconcileRoutes
    <2> HIDE DEF here
    <2>4. main' \in [Prefixes -> Ifaces \cup {None}]
      <3>1. CASE main' \in {main, DropSuperseded(main)}
        BY <3>1 DEF DropSuperseded, Prefixes
      <3>2. CASE here /\ main' = DropSuperseded(SetMain(cfg, main, cfg.iface[active]))
        <4>1. SetMain(cfg, main, cfg.iface[active]) \in [Prefixes -> Ifaces \cup {None}]
          BY <1>4, <2>1, <3>2
        <4> QED
          BY <1>4, <2>1, <3>2, <4>1
      <3> QED
        BY <2>3, <3>1, <3>2
    <2> QED
      BY <1>2, <2>1, <2>2, <2>4
  <1>8. ASSUME NEW h \in Handlers, RemoveRoutes(h) PROVE Routes'
    BY <1>8 DEF RemoveRoutes, Prefix, Prefixes
  <1>9. CASE LinkDeleted
    BY <1>9 DEF LinkDeleted
  <1>10. CASE UNCHANGED <<main, ctrl, probe>>
    BY <1>10
  <1> QED
    BY <1>5, <1>6, <1>7, <1>8, <1>9, <1>10 DEF Next, RunStep, HandlerStep,
       Request, RunBoots, ApplyRules, SeedActive, StartProbers, Evaluate,
       EvaluateLocks, CommitSwitch, StopProbers, Swap, Unlatch, RevertLatches,
       RevertPersists, RemoveRules, SaveObserve, RevertForgets, Save, SaveFails,
       RevertAsked, Pin, Verdict, LinkCreated, Crash, kernel, vars

LEMMA ChoicesStep == Typed /\ Choices /\ [Next]_vars => Choices'
  <1> SUFFICES ASSUME Typed, Choices, [Next]_vars PROVE Choices'
    OBVIOUS
  <1> USE EngineAssumption DEF Typed, Choices, Actors, memory, kernel, bounds, history
  <1>1. DOMAIN cfg.iface \subseteq Paths /\ cfg.iface \in [DOMAIN cfg.iface -> Ifaces]
        /\ cfg.mode \in Modes
    BY DEF Cfg
  <1>2. ASSUME NEW a \in Actors, ApplyRoutes(a) \/ ApplyRules(a) \/ StartProbers(a)
        PROVE  Choices'
    BY <1>1, <1>2 DEF ApplyRoutes, ApplyRules, StartProbers, Has, Configured
  <1>3. CASE SeedActive
    BY <1>1, <1>3, FirstIs DEF SeedActive, Configured
  <1>4. CASE Evaluate
    BY <1>1, <1>4, SelectPathIs DEF Evaluate, Configured, Modes
  <1>5. CASE RunBoots \/ EvaluateLocks \/ EvaluateWrites \/ CommitSwitch
    BY <1>1, <1>5 DEF RunBoots, EvaluateLocks, EvaluateWrites, CommitSwitch
  <1>6. ASSUME NEW h \in Handlers, Request(h) PROVE Choices'
    BY <1>6 DEF Request, Save, SaveFails, RevertAsked
  <1>7. ASSUME NEW h \in Handlers,
               \/ StopProbers(h) \/ Swap(h) \/ Unlatch(h) \/ RevertLatches(h)
               \/ RevertPersists(h) \/ RemoveRules(h) \/ RemoveRoutes(h)
               \/ SaveObserve(h) \/ RevertForgets(h)
        PROVE  Choices'
    <2>1. CASE RemoveRoutes(h)
      BY <2>1 DEF RemoveRoutes
    <2> QED
      BY <1>7, <2>1 DEF StopProbers, Swap, Unlatch, RevertLatches, RevertPersists,
         RemoveRules, SaveObserve, RevertForgets
  <1>8. CASE Reconcile \/ Pin \/ Verdict \/ LinkDeleted \/ LinkCreated
    BY <1>1, <1>8 DEF Reconcile, Pin, Verdict, LinkDeleted, LinkCreated, Configured
  <1>9. CASE Crash
    BY <1>9 DEF Crash, Boot, Modes
  <1>10. CASE UNCHANGED vars
    BY <1>10 DEF vars
  <1> QED
    BY <1>2, <1>3, <1>4, <1>5, <1>6, <1>7, <1>8, <1>9, <1>10
       DEF Next, RunStep, HandlerStep

Latches ==
    /\ reverted \in BOOLEAN /\ probing \in BOOLEAN /\ dnat \in BOOLEAN
    /\ disk \in [cfg : Cfg, latch : BOOLEAN]

LEMMA LatchesStep == Typed /\ Latches /\ [Next]_vars => Latches'
  <1> SUFFICES ASSUME Typed, Latches, [Next]_vars PROVE Latches'
    OBVIOUS
  <1> USE EngineAssumption DEF Typed, Latches, memory, kernel, bounds, history
  <1>1. ASSUME NEW a, ApplyRoutes(a) \/ ApplyRules(a) \/ StartProbers(a)
        PROVE  Latches'
    BY <1>1 DEF ApplyRoutes, ApplyRules, StartProbers
  <1>2. CASE RunBoots \/ SeedActive \/ Evaluate \/ EvaluateLocks \/ EvaluateWrites \/ CommitSwitch
    BY <1>2 DEF RunBoots, SeedActive, Evaluate, EvaluateLocks, EvaluateWrites, CommitSwitch
  <1>3. ASSUME NEW h \in Handlers, Request(h) PROVE Latches'
    BY <1>3 DEF Request, Save, SaveFails, RevertAsked
  <1>4. ASSUME NEW h \in Handlers,
               \/ StopProbers(h) \/ Swap(h) \/ Unlatch(h) \/ RevertLatches(h)
               \/ RevertPersists(h) \/ RemoveRules(h) \/ RemoveRoutes(h)
               \/ SaveObserve(h) \/ RevertForgets(h)
        PROVE  Latches'
    <2>1. CASE RemoveRoutes(h)
      BY <2>1 DEF RemoveRoutes
    <2>2. CASE RemoveRules(h)
      BY <2>2 DEF RemoveRules
    <2>3. CASE StopProbers(h) \/ Swap(h) \/ RevertLatches(h)
      BY <2>3 DEF StopProbers, Swap, RevertLatches
    <2>4. CASE Unlatch(h) \/ RevertPersists(h)
      BY <2>4 DEF Unlatch, RevertPersists
    <2>5. CASE SaveObserve(h)
      BY <2>5, Disarmed DEF SaveObserve
    <2>6. CASE RevertForgets(h)
      BY <2>6 DEF RevertForgets
    <2> QED
      BY <1>4, <2>1, <2>2, <2>3, <2>4, <2>5, <2>6
  <1>5. CASE Reconcile \/ Pin \/ Verdict \/ LinkDeleted \/ LinkCreated
    BY <1>5 DEF Reconcile, Pin, Verdict, LinkDeleted, LinkCreated
  <1>6. CASE Crash
    BY <1>6 DEF Crash, Boot
  <1>7. CASE UNCHANGED vars
    BY <1>7 DEF vars
  <1> QED
    BY <1>1, <1>2, <1>3, <1>4, <1>5, <1>6, <1>7 DEF Next, RunStep, HandlerStep

(* The engine's state, the store's and the kernel's keep their types, the  *)
(* path in use is a path and a decision number is never past its bound     *)
(* (selectPath, commitSwitch, applySystemConfig, Revert).                  *)
THEOREM TypesHold == Spec => []TypeOK
  <1> DEFINE All == Typed /\ Routes /\ Choices /\ Latches
  <1>1. Init => All
    <2> USE EngineAssumption DEF Init
    <2>1. Init => Typed
      BY InitInv DEF Inv
    <2>2. Init => Routes
      BY DEF Routes
    <2>3. Init => Choices
      BY DEF Choices, Actors, Modes, Run
    <2>4. ASSUME Init PROVE Latches
      <3>1. /\ reverted = FALSE /\ probing = FALSE /\ dnat = FALSE
            /\ disk = [cfg |-> FirstCfg, latch |-> FALSE]
        BY <2>4
      <3>2. FirstCfg \in Cfg
        BY EngineAssumption
      <3>3. disk \in [cfg : Cfg, latch : BOOLEAN]
        BY <3>1, <3>2
      <3> QED
        BY <3>1, <3>3 DEF Latches
    <2> QED
      BY <2>1, <2>2, <2>3, <2>4
  <1>2. All /\ [Next]_vars => All'
    BY TypedStep, RoutesStep, ChoicesStep, LatchesStep
  <1>3. All => TypeOK
    BY DEF Typed, Routes, Choices, Latches, TypeOK
  <1> QED
    BY <1>1, <1>2, <1>3, PTL DEF Spec
=============================================================================
