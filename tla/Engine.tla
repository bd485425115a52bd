------------------------------- MODULE Engine -------------------------------
(***************************************************************************)
(* The frontend's engine (internal/engine/engine.go): the goroutine that   *)
(* decides (Run: evaluate, reconcileRouting), the request handlers that    *)
(* save settings (Reconfigure) and take the system down (Revert), the      *)
(* kernel state they all write, and what survives a crash.                 *)
(*                                                                         *)
(* reconfMu serialises Reconfigure, Revert and Run's startup; applyMu      *)
(* serialises the writers of routes.  A lock is the actor that holds it.   *)
(* Critical sections of the short lock e.mu are single actions; a section  *)
(* that shells out is split where a crash, a deleted interface or another  *)
(* goroutine can come between two of its commands.                         *)
(*                                                                         *)
(* Priority selection is modelled; a path's number is its priority.  The   *)
(* prober and the tracker behind a path's verdict are modules of their     *)
(* own: here a verdict is "out" (not usable or blocked), "in" (eligible)   *)
(* or "clean" (eligible, clean for the hold-down).  Egress, protection,    *)
(* blocklist, shaping and the query cache are not modelled.                *)
(***************************************************************************)
EXTENDS Naturals, FiniteSets

CONSTANTS Paths,        \* path numbers, 1 the most preferred
          Ifaces,       \* tunnel interfaces
          None,         \* no route
          Handlers,     \* request goroutines that may run at once
          Cfgs,         \* configurations that may be saved
          FirstCfg,     \* the one the process starts with
          MaxOps,       \* bound: Reconfigure and Revert requests
          MaxCrashes,   \* bound: crashes (the unit restarts itself)
          MaxLinkEvents,\* bound: interfaces deleted and created
          MaxFailures,  \* bound: commands and writes that fail
          MaxSwitches,  \* bound: decision numbers
          MaxVerdicts   \* bound: changes of a path's verdict

Run == "run"
Actors == Handlers \cup {Run}
Free == "free"
Prefixes == {"host", "range"}   \* the backend's /32, or overlay.subnet
Modes == {"observe", "armed"}
Cfg == [mode : Modes, iface : UNION {[S -> Ifaces] : S \in SUBSET Paths},
        subnet : BOOLEAN]

ASSUME EngineAssumption ==
    /\ Paths \subseteq Nat \ {0} /\ IsFiniteSet(Paths)
    /\ None \notin Ifaces
    /\ Run \notin Handlers /\ Free \notin Handlers
    /\ Cfgs \subseteq Cfg /\ FirstCfg \in Cfgs
    /\ MaxSwitches \in Nat \ {0}

VARIABLES
    pc,         \* where each actor is
    reconfMu, applyMu,
    job,        \* the configuration each handler is installing
    cfg, reverted, active, pinned, seq, probing,
    tracked,    \* path -> interface of the trackers
    verdict,    \* path -> "out", "in", "clean"
    eval,       \* evaluate's locals: the path chosen, its interface, the mode read
    disk,       \* [cfg, latch]: what SaveConfig and SetMeta last wrote
    up,         \* interfaces that exist
    main,       \* main table: prefix -> interface
    ctrl,       \* the control channel's route
    probe,      \* probe tables: path -> interface
    dnat,       \* the ruleset is loaded
    ops, crashes, links, failures, verdicts,
    revertDone, \* history: {the settings a finished Revert took down}, {} once
                \* others are in force
    left        \* history: what the removals of a Revert failed to remove

memory == <<cfg, reverted, active, pinned, seq, tracked>>
kernel == <<main, ctrl, probe, dnat>>
bounds == <<ops, crashes, links, failures, verdicts>>
history == <<revertDone, left>>
vars == <<pc, reconfMu, applyMu, job, memory, probing, verdict, eval, disk, up,
          kernel, bounds, history>>

Nothing == [rules |-> FALSE, ctrl |-> FALSE, main |-> {}, probe |-> {}]

-----------------------------------------------------------------------------
Configured(c) == DOMAIN c.iface
Prefix(c) == IF c.subnet THEN "range" ELSE "host"
Armed(c) == c.mode = "armed"
Has(c, p) == p \in Configured(c)
First(S) == CHOOSE p \in S : \A q \in S : p <= q

(* The route a packet to the backend follows: the longest prefix.          *)
Route == IF main["host"] # None THEN main["host"] ELSE main["range"]

Eligible == {p \in Configured(cfg) : verdict[p] # "out"}

(* Faulty: the hold-down delays a failover as it does a failback.          *)
SelectPathHeldDown ==
    LET target == First(Eligible)
    IN  IF pinned # 0 /\ Has(cfg, pinned) THEN pinned
        ELSE IF Eligible = {} THEN 0
        ELSE IF active = 0 \/ verdict[target] = "clean" THEN target
        ELSE active

(* selectPath in priority mode; 0 is "nothing usable, keep the route".     *)
SelectPath ==
    LET target == First(Eligible)
    IN  IF pinned # 0 /\ Has(cfg, pinned) THEN pinned
        ELSE IF Eligible = {} THEN 0
        ELSE IF active \notin Eligible THEN target   \* failover, immediate
        ELSE IF target = active \/ verdict[target] = "clean" THEN target
        ELSE active

(* A command that needs the interface may fail for another reason too.     *)
CmdFails == failures < MaxFailures /\ failures' = failures + 1
CmdWorks == UNCHANGED failures

-----------------------------------------------------------------------------
(* New, and a process that starts on what an earlier one left on disk and  *)
(* in the kernel.  The decision number is seeded from the clock, so it is  *)
(* above every number an earlier process used.                             *)
Boot(d) ==
    /\ pc' = [a \in Actors |-> IF a = Run THEN "boot" ELSE "idle"]
    /\ reconfMu' = Free /\ applyMu' = Free
    /\ job' = [h \in Handlers |-> d.cfg]
    /\ cfg' = d.cfg /\ reverted' = d.latch
    /\ active' = 0 /\ pinned' = 0 /\ probing' = FALSE
    /\ tracked' = [p \in {} |-> None]
    /\ verdict' = [p \in Paths |-> "out"]
    /\ eval' = [path |-> 0, iface |-> None, mode |-> "observe"]

Init ==
    /\ pc = [a \in Actors |-> IF a = Run THEN "boot" ELSE "idle"]
    /\ reconfMu = Free /\ applyMu = Free
    /\ job = [h \in Handlers |-> FirstCfg]
    /\ cfg = FirstCfg /\ reverted = FALSE
    /\ active = 0 /\ pinned = 0 /\ seq = 1 /\ probing = FALSE
    /\ tracked = [p \in {} |-> None]
    /\ verdict = [p \in Paths |-> "out"]
    /\ eval = [path |-> 0, iface |-> None, mode |-> "observe"]
    /\ disk = [cfg |-> FirstCfg, latch |-> FALSE]
    /\ up = Ifaces
    /\ main = [x \in Prefixes |-> None] /\ ctrl = None
    /\ probe = [p \in Paths |-> None] /\ dnat = FALSE
    /\ ops = 0 /\ crashes = 0 /\ links = 0 /\ failures = 0 /\ verdicts = 0
    /\ revertDone = {} /\ left = Nothing

Crash ==
    /\ crashes < MaxCrashes /\ crashes' = crashes + 1
    /\ Boot(disk)
    /\ seq < MaxSwitches /\ seq' = seq + 1
    /\ UNCHANGED <<disk, up, kernel, ops, links, failures, verdicts,
                   history>>

-----------------------------------------------------------------------------
(* applySystemConfig, for whichever actor called it: the plumbing, the     *)
(* route of the path in use and the superseded host route, all under       *)
(* applyMu; then the ruleset.                                              *)
ProbeRoutes ==
    [p \in Paths |-> IF Has(cfg, p) /\ cfg.iface[p] \in up THEN cfg.iface[p]
                     ELSE probe[p]]

SeededCtrl ==
    LET there == {p \in Configured(cfg) : cfg.iface[p] \in up}
    IN  IF active = 0
        THEN IF there = {} THEN ctrl ELSE cfg.iface[First(there)]
        ELSE IF active \in there THEN cfg.iface[active] ELSE ctrl

(* Faulty: dropped whether or not a range replaces it.                     *)
DropSupersededAlways(m) ==
    IF Armed(cfg) THEN [m EXCEPT !["host"] = None] ELSE m

(* dropSupersededHostRoute, after main has been written as m.              *)
DropSuperseded(m) ==
    IF cfg.subnet /\ Armed(cfg) THEN [m EXCEPT !["host"] = None] ELSE m

(* SetActivePath through the gated runner.                                 *)
SetMain(c, m, i) == [m EXCEPT ![Prefix(c)] = i]

ApplyRoutes(a) ==
    /\ pc[a] = "apply" /\ applyMu = Free
    /\ applyMu' = a
    /\ probe' = ProbeRoutes
    /\ ctrl' = SeededCtrl
    /\ IF Has(cfg, active) /\ Armed(cfg) /\ cfg.iface[active] \in up
       THEN \/ CmdWorks /\ main' = DropSuperseded(SetMain(cfg, main, cfg.iface[active]))
            \/ CmdFails /\ main' = DropSuperseded(main)
       ELSE CmdWorks /\ main' = DropSuperseded(main)
    /\ pc' = [pc EXCEPT ![a] = "rules"]
    /\ UNCHANGED <<reconfMu, job, memory, probing, verdict, eval, disk, up, dnat,
                   ops, crashes, links, verdicts, history>>

ApplyRules(a) ==
    /\ pc[a] = "rules"
    /\ dnat' = (dnat \/ Armed(cfg))
    /\ applyMu' = Free
    /\ pc' = [pc EXCEPT ![a] = IF a = Run THEN "seed" ELSE "start"]
    /\ UNCHANGED <<reconfMu, job, memory, probing, verdict, eval, disk, up, main,
                   ctrl, probe, bounds, history>>

(* startProbers: a tracker is kept only for a path on the same interface.  *)
(* It is the last thing Run's startup and Reconfigure do under reconfMu.   *)
StartProbers(a) ==
    /\ pc[a] = "start"
    /\ probing' = TRUE
    /\ tracked' = cfg.iface
    /\ verdict' = [p \in Paths |->
                      IF /\ p \in DOMAIN tracked /\ Has(cfg, p)
                         /\ tracked[p] = cfg.iface[p]
                      THEN verdict[p] ELSE "out"]
    /\ reconfMu' = Free
    /\ pc' = [pc EXCEPT ![a] = "idle"]
    /\ UNCHANGED <<applyMu, job, cfg, reverted, active, pinned, seq, eval, disk,
                   up, kernel, bounds, history>>

-----------------------------------------------------------------------------
(* Run's startup.                                                          *)
RunBoots ==
    /\ pc[Run] = "boot" /\ reconfMu = Free
    /\ IF reverted THEN reconfMu' = Free /\ pc' = [pc EXCEPT ![Run] = "idle"]
                   ELSE reconfMu' = Run /\ pc' = [pc EXCEPT ![Run] = "apply"]
    /\ UNCHANGED <<applyMu, job, memory, probing, verdict, eval, disk, up, kernel,
                   bounds, history>>

(* seedActiveFromKernel reads the main table by the backend's address,     *)
(* which `ip route show` matches only against the host route.              *)
SeedReads(c) == main["host"]

SeedActive ==
    /\ pc[Run] = "seed"
    /\ LET found == {p \in Configured(cfg) : cfg.iface[p] = SeedReads(cfg)}
       IN  active' = IF found = {} THEN active ELSE First(found)
    /\ pc' = [pc EXCEPT ![Run] = "start"]
    /\ UNCHANGED <<reconfMu, applyMu, job, cfg, reverted, pinned, seq, tracked,
                   probing, verdict, eval, disk, up, kernel, bounds,
                   history>>

(* evaluate: the choice is made under e.mu, from the configuration of that *)
(* moment; the route is written and the switch recorded under applyMu.     *)
Evaluate ==
    /\ pc[Run] = "idle" /\ ~reverted /\ seq < MaxSwitches
    /\ SelectPath # 0 /\ SelectPath # active
    /\ eval' = [path |-> SelectPath, iface |-> cfg.iface[SelectPath],
                mode |-> "observe"]
    /\ pc' = [pc EXCEPT ![Run] = "chosen"]
    /\ UNCHANGED <<reconfMu, applyMu, job, memory, probing, verdict, disk, up,
                   kernel, bounds, history>>

(* Faulty: the latch is not looked at again under the lock.                *)
EvaluateLocksBlindly ==
    /\ pc[Run] = "chosen" /\ applyMu = Free
    /\ applyMu' = Run
    /\ eval' = [eval EXCEPT !.mode = cfg.mode]
    /\ pc' = [pc EXCEPT ![Run] = "write"]
    /\ UNCHANGED <<reconfMu, job, memory, probing, verdict, disk, up, kernel,
                   bounds, history>>

EvaluateLocks ==
    /\ pc[Run] = "chosen" /\ applyMu = Free
    /\ IF reverted
       THEN UNCHANGED <<applyMu, eval>> /\ pc' = [pc EXCEPT ![Run] = "idle"]
       ELSE /\ applyMu' = Run
            /\ eval' = [eval EXCEPT !.mode = cfg.mode]
            /\ pc' = [pc EXCEPT ![Run] = "write"]
    /\ UNCHANGED <<reconfMu, job, memory, probing, verdict, disk, up, kernel,
                   bounds, history>>

(* Faulty: the switch is recorded whether or not its route went in.        *)
EvaluateWritesRegardless ==
    /\ pc[Run] = "write"
    /\ ctrl' = IF eval.iface \in up THEN eval.iface ELSE ctrl
    /\ \/ /\ eval.mode = "armed" /\ eval.iface \in up
          /\ CmdWorks /\ main' = SetMain(cfg, main, eval.iface)
       \/ /\ IF eval.mode = "armed" /\ eval.iface \in up THEN CmdFails ELSE CmdWorks
          /\ UNCHANGED main
    /\ pc' = [pc EXCEPT ![Run] = "commit"]
    /\ UNCHANGED <<reconfMu, applyMu, job, memory, probing, verdict, eval, disk, up,
                   probe, dnat, ops, crashes, links, verdicts, history>>

(* applyActivePath: the control route always, the main route if the runner *)
(* read under the lock applies.  A failed install records nothing.         *)
EvaluateWrites ==
    /\ pc[Run] = "write"
    /\ ctrl' = IF eval.iface \in up THEN eval.iface ELSE ctrl
    /\ \/ /\ eval.mode = "observe"
          /\ CmdWorks /\ UNCHANGED <<main, applyMu>>
          /\ pc' = [pc EXCEPT ![Run] = "commit"]
       \/ /\ eval.mode = "armed" /\ eval.iface \in up
          /\ CmdWorks /\ main' = SetMain(cfg, main, eval.iface)
          /\ UNCHANGED applyMu
          /\ pc' = [pc EXCEPT ![Run] = "commit"]
       \/ /\ eval.mode = "armed"
          /\ IF eval.iface \in up THEN CmdFails ELSE CmdWorks
          /\ UNCHANGED main /\ applyMu' = Free
          /\ pc' = [pc EXCEPT ![Run] = "idle"]
    /\ UNCHANGED <<reconfMu, job, memory, probing, verdict, eval, disk, up, probe,
                   dnat, ops, crashes, links, verdicts, history>>

CommitSwitch ==
    /\ pc[Run] = "commit"
    /\ active' = eval.path /\ seq' = seq + 1
    /\ applyMu' = Free
    /\ pc' = [pc EXCEPT ![Run] = "idle"]
    /\ UNCHANGED <<reconfMu, job, cfg, reverted, pinned, tracked, probing, verdict,
                   eval, disk, up, kernel, bounds, history>>

(* reconcileRouting, under applyMu from its first line to its last.        *)
ReconcileRoutes ==
    LET here == Has(cfg, active) /\ cfg.iface[active] \in up
    IN  /\ probe' = ProbeRoutes
        /\ ctrl' = IF here THEN cfg.iface[active] ELSE ctrl
        /\ \/ CmdWorks /\ main' = IF here /\ Armed(cfg)
              THEN DropSuperseded(SetMain(cfg, main, cfg.iface[active]))
              ELSE main
           \/ /\ here /\ Armed(cfg) /\ main[Prefix(cfg)] # cfg.iface[active]
              /\ CmdFails /\ main' = DropSuperseded(main)

(* Faulty: the reconciler repairs the probe tables only.                   *)
ReconcileProbesOnly ==
    /\ pc[Run] = "idle" /\ applyMu = Free /\ ~reverted
    /\ probe' = ProbeRoutes /\ UNCHANGED <<ctrl, main>>
    /\ UNCHANGED <<pc, reconfMu, applyMu, job, memory, probing, verdict, eval, disk,
                   up, dnat, bounds, history>>

Reconcile ==
    /\ pc[Run] = "idle" /\ applyMu = Free /\ ~reverted
    /\ ReconcileRoutes
    /\ UNCHANGED <<pc, reconfMu, applyMu, job, memory, probing, verdict, eval, disk,
                   up, dnat, ops, crashes, links, verdicts,
                   history>>

-----------------------------------------------------------------------------
(* Reconfigure.                                                            *)
SaveFails(h) ==
    /\ pc[h] = "idle" /\ reconfMu = Free /\ ops < MaxOps
    /\ CmdFails
    /\ ops' = ops + 1
    /\ UNCHANGED <<pc, reconfMu, applyMu, job, memory, probing, verdict, eval, disk,
                   up, kernel, crashes, links, verdicts, history>>

Save(h) ==
    /\ pc[h] = "idle" /\ reconfMu = Free /\ ops < MaxOps
    /\ \E c \in Cfgs :
        /\ job' = [job EXCEPT ![h] = c]
        /\ disk' = [disk EXCEPT !.cfg = c]
    /\ ops' = ops + 1
    /\ reconfMu' = h
    /\ pc' = [pc EXCEPT ![h] = "stop"]
    /\ UNCHANGED <<applyMu, memory, probing, verdict, eval, up, kernel, crashes,
                   links, failures, verdicts, history>>

StopProbers(h) ==
    /\ pc[h] = "stop"
    /\ probing' = FALSE
    /\ pc' = [pc EXCEPT ![h] = "swap"]
    /\ UNCHANGED <<reconfMu, applyMu, job, memory, verdict, eval, disk, up, kernel,
                   bounds, history>>

(* Faulty: the swap does not wait for a route being written.               *)
SwapAtOnce(h) ==
    /\ pc[h] = "swap"
    /\ cfg' = job[h] /\ reverted' = FALSE
    /\ revertDone' = {} /\ left' = Nothing
    /\ pc' = [pc EXCEPT ![h] = "unlatch"]
    /\ UNCHANGED <<reconfMu, applyMu, job, active, pinned, seq, tracked, probing,
                   verdict, eval, disk, up, kernel, bounds>>

(* Faulty: applyMu is still held when applySystemConfig takes it.          *)
SwapKeepsLock(h) ==
    /\ pc[h] = "swap" /\ applyMu = Free
    /\ applyMu' = h
    /\ cfg' = job[h] /\ reverted' = FALSE
    /\ revertDone' = {} /\ left' = Nothing
    /\ pc' = [pc EXCEPT ![h] = "unlatch"]
    /\ UNCHANGED <<reconfMu, job, active, pinned, seq, tracked, probing, verdict,
                   eval, disk, up, kernel, bounds>>

Swap(h) ==
    /\ pc[h] = "swap" /\ applyMu = Free
    /\ cfg' = job[h] /\ reverted' = FALSE
    /\ revertDone' = {} /\ left' = Nothing
    /\ pc' = [pc EXCEPT ![h] = "unlatch"]
    /\ UNCHANGED <<reconfMu, applyMu, job, active, pinned, seq, tracked, probing,
                   verdict, eval, disk, up, kernel, bounds>>

Unlatch(h) ==
    /\ pc[h] = "unlatch"
    /\ \/ CmdWorks /\ disk' = [disk EXCEPT !.latch = FALSE]
       \/ CmdFails /\ UNCHANGED disk
    /\ pc' = [pc EXCEPT ![h] = "apply"]
    /\ UNCHANGED <<reconfMu, applyMu, job, memory, probing, verdict, eval, up,
                   kernel, ops, crashes, links, verdicts, history>>

-----------------------------------------------------------------------------
(* Revert: latch, persist the latch, stop the probers, remove, save        *)
(* observe mode, forget.                                                   *)
RevertAsked(h) ==
    /\ pc[h] = "idle" /\ reconfMu = Free /\ ops < MaxOps
    /\ ops' = ops + 1
    /\ reconfMu' = h
    /\ pc' = [pc EXCEPT ![h] = "latch"]
    /\ UNCHANGED <<applyMu, job, memory, probing, verdict, eval, disk, up, kernel,
                   crashes, links, failures, verdicts, history>>

RevertLatches(h) ==
    /\ pc[h] = "latch" /\ applyMu = Free
    /\ applyMu' = h /\ reverted' = TRUE
    /\ pc' = [pc EXCEPT ![h] = "persist"]
    /\ UNCHANGED <<reconfMu, job, cfg, active, pinned, seq, tracked, probing,
                   verdict, eval, disk, up, kernel, bounds, history>>

RevertPersists(h) ==
    /\ pc[h] = "persist"
    /\ \/ CmdWorks /\ disk' = [disk EXCEPT !.latch = TRUE]
       \/ CmdFails /\ UNCHANGED disk
    /\ probing' = FALSE
    /\ pc' = [pc EXCEPT ![h] = "removeRules"]
    /\ UNCHANGED <<reconfMu, applyMu, job, memory, verdict, eval, up, kernel, ops,
                   crashes, links, verdicts, history>>

(* RemoveRuleset.  The errors of the removing commands are dropped and the *)
(* revert goes on: whatever one of them fails on stays.                    *)
RemoveRules(h) ==
    /\ pc[h] = "removeRules"
    /\ \/ CmdWorks /\ dnat' = FALSE
       \/ dnat /\ CmdFails /\ UNCHANGED dnat
    /\ left' = [left EXCEPT !.rules = dnat']
    /\ pc' = [pc EXCEPT ![h] = "removeRoutes"]
    /\ UNCHANGED <<reconfMu, applyMu, job, memory, probing, verdict, eval, disk, up,
                   main, ctrl, probe, ops, crashes, links, verdicts, revertDone>>

(* RemoveProbeRoutes and RemoveControlRoute.  What is removed is what the  *)
(* configuration in force names; any of the deletes may fail.              *)
RemoveRoutes(h) ==
    /\ pc[h] = "removeRoutes"
    /\ \E probes \in SUBSET {p \in Configured(cfg) : probe[p] # None},
          mains \in SUBSET {x \in {Prefix(cfg)} : main[x] # None},
          ctrlKept \in {FALSE, ctrl # None} :
        /\ IF probes = {} /\ mains = {} /\ ~ctrlKept THEN CmdWorks ELSE CmdFails
        /\ probe' = [p \in Paths |-> IF Has(cfg, p) /\ p \notin probes THEN None
                                    ELSE probe[p]]
        /\ main' = [x \in Prefixes |-> IF x = Prefix(cfg) /\ x \notin mains THEN None
                                      ELSE main[x]]
        /\ ctrl' = IF ctrlKept THEN ctrl ELSE None
        /\ left' = [left EXCEPT !.ctrl = ctrlKept,
                                !.main = (@ \ {Prefix(cfg)}) \cup mains,
                                !.probe = (@ \ Configured(cfg)) \cup probes]
    /\ pc' = [pc EXCEPT ![h] = "saveObserve"]
    /\ UNCHANGED <<reconfMu, applyMu, job, memory, probing, verdict, eval, disk, up,
                   dnat, ops, crashes, links, verdicts, revertDone>>

SaveObserve(h) ==
    /\ pc[h] = "saveObserve"
    /\ \/ CmdWorks /\ disk' = [disk EXCEPT !.cfg = [cfg EXCEPT !.mode = "observe"]]
       \/ CmdFails /\ UNCHANGED disk
    /\ pc' = [pc EXCEPT ![h] = "forget"]
    /\ UNCHANGED <<reconfMu, applyMu, job, memory, probing, verdict, eval, up,
                   kernel, ops, crashes, links, verdicts, history>>

RevertForgets(h) ==
    /\ pc[h] = "forget"
    /\ cfg' = [cfg EXCEPT !.mode = "observe"]
    /\ active' = 0 /\ pinned' = 0
    /\ revertDone' = IF disk.latch THEN {cfg} ELSE {}
    /\ applyMu' = Free /\ reconfMu' = Free
    /\ pc' = [pc EXCEPT ![h] = "idle"]
    /\ UNCHANGED <<job, reverted, seq, tracked, probing, verdict, eval, disk, up,
                   kernel, bounds, left>>

-----------------------------------------------------------------------------
(* Pin: 0 releases.  Taken under e.mu alone.                               *)
Pin ==
    /\ \E p \in Configured(cfg) \cup {0} : p # pinned /\ pinned' = p
    /\ UNCHANGED <<pc, reconfMu, applyMu, job, cfg, reverted, active, seq, tracked,
                   probing, verdict, eval, disk, up, kernel, bounds,
                   history>>

(* onResult (results still queued when the probers stop included), and the *)
(* policy blocks: a tracked path's verdict changes.                        *)
Verdict ==
    /\ verdicts < MaxVerdicts
    /\ verdicts' = verdicts + 1
    /\ \E p \in DOMAIN tracked, v \in {"out", "in", "clean"} :
          verdict[p] # v /\ verdict' = [verdict EXCEPT ![p] = v]
    /\ UNCHANGED <<pc, reconfMu, applyMu, job, memory, probing, eval, disk, up,
                   kernel, ops, crashes, links, failures, history>>

(* A tunnel is taken down: the kernel drops every route through it.        *)
LinkDeleted ==
    /\ links < MaxLinkEvents /\ links' = links + 1
    /\ \E i \in up :
        /\ up' = up \ {i}
        /\ main' = [x \in Prefixes |-> IF main[x] = i THEN None ELSE main[x]]
        /\ ctrl' = IF ctrl = i THEN None ELSE ctrl
        /\ probe' = [p \in Paths |-> IF probe[p] = i THEN None ELSE probe[p]]
    /\ UNCHANGED <<pc, reconfMu, applyMu, job, memory, probing, verdict, eval, disk,
                   dnat, ops, crashes, failures, verdicts, history>>

LinkCreated ==
    /\ \E i \in Ifaces \ up : up' = up \cup {i}
    /\ UNCHANGED <<pc, reconfMu, applyMu, job, memory, probing, verdict, eval, disk,
                   kernel, bounds, history>>

-----------------------------------------------------------------------------
RunStep ==
    \/ RunBoots \/ ApplyRoutes(Run) \/ ApplyRules(Run) \/ SeedActive
    \/ StartProbers(Run)
    \/ Evaluate \/ EvaluateLocks \/ EvaluateWrites \/ CommitSwitch

HandlerStep(h) ==
    \/ StopProbers(h) \/ Swap(h) \/ Unlatch(h)
    \/ ApplyRoutes(h) \/ ApplyRules(h) \/ StartProbers(h)
    \/ RevertLatches(h) \/ RevertPersists(h) \/ RemoveRules(h)
    \/ RemoveRoutes(h) \/ SaveObserve(h) \/ RevertForgets(h)

Request(h) == Save(h) \/ SaveFails(h) \/ RevertAsked(h)

Next ==
    \/ RunStep \/ Reconcile
    \/ \E h \in Handlers : Request(h) \/ HandlerStep(h)
    \/ Pin \/ Verdict \/ LinkDeleted \/ LinkCreated \/ Crash

Spec == Init /\ [][Next]_vars

(***************************************************************************)
(* Fairness: a goroutine that can take its next step takes it; the 500 ms  *)
(* decision tick and the 10 s reconcile tick both keep firing, and Go's    *)
(* mutexes hand the lock to a waiter in the end.  Requests, verdicts,      *)
(* links and crashes are never forced.                                     *)
(***************************************************************************)
FairSpec ==
    /\ Spec
    /\ SF_vars(RunStep) /\ SF_vars(Reconcile)
    /\ \A h \in Handlers : SF_vars(HandlerStep(h))

-----------------------------------------------------------------------------
(* Types of the engine's state, the store's and the kernel's.              *)
TypeOK ==
    /\ reconfMu \in Actors \cup {Free} /\ applyMu \in Actors \cup {Free}
    /\ cfg \in Cfg /\ reverted \in BOOLEAN /\ probing \in BOOLEAN
    /\ active \in Paths \cup {0} /\ pinned \in Paths \cup {0}
    /\ seq \in 1..MaxSwitches
    /\ DOMAIN tracked \subseteq Paths
    /\ verdict \in [Paths -> {"out", "in", "clean"}]
    /\ eval \in [path : Paths \cup {0}, iface : Ifaces \cup {None}, mode : Modes]
    /\ disk \in [cfg : Cfg, latch : BOOLEAN]
    /\ up \subseteq Ifaces
    /\ main \in [Prefixes -> Ifaces \cup {None}]
    /\ ctrl \in Ifaces \cup {None}
    /\ probe \in [Paths -> Ifaces \cup {None}]
    /\ dnat \in BOOLEAN

(* A finished revert stays in force, through crashes and restarts, until   *)
(* saved settings take over: nothing that the reverted configuration names *)
(* is installed, except what one of the revert's own removals failed on    *)
(* and nobody looks at again; no prober runs and no decision stands.  This *)
(* although an evaluation, a reconcile or Run's startup was waiting on a   *)
(* lock while it ran, and although a save wrote other settings and crashed *)
(* before they were in force (Revert, and the latch it persists first).    *)
RevertHolds ==
    \A c \in revertDone :
        /\ dnat => left.rules
        /\ ctrl # None => left.ctrl
        /\ main[Prefix(c)] # None => Prefix(c) \in left.main
        /\ \A p \in Configured(c) : probe[p] # None => p \in left.probe
        /\ ~probing /\ active = 0

(* A switch is real when it is recorded: at the step that makes an         *)
(* evaluation's choice the active path and numbers the decision, armed     *)
(* traffic already takes that path's tunnel, although the install shelled  *)
(* out and may have failed while other goroutines waited to save or revert *)
(* (evaluate, applyActivePath, commitSwitch).  A tunnel deleted since then *)
(* has taken its route along.                                              *)
SwitchIsReal ==
    [][(pc[Run] = "commit" /\ active' = eval.path /\ active' # active /\ Armed(cfg))
          => \/ main[Prefix(cfg)] = eval.iface
             \/ main[Prefix(cfg)] = None /\ links > 0]_vars

(* Observe mode moves no traffic: no step installs a main-table route or   *)
(* loads the ruleset unless the configuration in force at that step is     *)
(* armed (runnerFor, and the swap under applyMu).                          *)
ObserveMovesNothing ==
    [][(dnat' /\ ~dnat) \/ (\E x \in Prefixes : main'[x] \notin {None, main[x]})
          => Armed(cfg)]_vars

(* Dead-man: traffic to the backend never loses its route except when a    *)
(* revert removes it or its interface is deleted; no failing path, save,   *)
(* failed command or crash withdraws it (selectPath's held route).  One    *)
(* case remains: armed settings with overlay.subnet drop the host route    *)
(* while the range is not installed yet (dropSupersededHostRoute).         *)
Widens == cfg.subnet /\ Armed(cfg) /\ main["range"] = None
DeadMan ==
    [][(Route # None /\ Route' = None)
          => up' # up \/ Widens \/ \E h \in Handlers : pc[h] = "removeRoutes"]_vars

(* The kernel ends up as the engine decided: once requests, links and      *)
(* verdicts are quiet, armed and not reverted, traffic and the control     *)
(* channel follow the active path, whatever stale configuration an         *)
(* evaluation had read and whatever a tunnel's deletion took away.         *)
Settled ==
    (~reverted /\ Has(cfg, active) /\ cfg.iface[active] \in up) =>
        /\ ctrl = cfg.iface[active]
        /\ probe[active] = cfg.iface[active]
        /\ Armed(cfg) => Route = cfg.iface[active]
RoutesSettle == <>[]Settled

(* Failover happens: in the end the engine has chosen the pinned path, or  *)
(* an eligible one, and the preferred one once it has been clean for the   *)
(* hold-down, and armed traffic takes a tunnel of such a path, whenever    *)
(* there is one and the tunnels are there (evaluate, retried after a       *)
(* failed install, and reconcileRouting).                                  *)
Wanted == IF pinned # 0 /\ Has(cfg, pinned) THEN {pinned}
          ELSE IF Eligible # {} /\ verdict[First(Eligible)] = "clean"
               THEN {First(Eligible)} ELSE Eligible
FailoverCompletes ==
    <>[]( /\ ~reverted /\ seq < MaxSwitches
          /\ Wanted # {} /\ \A p \in Configured(cfg) : cfg.iface[p] \in up
          => /\ active \in Wanted
             /\ Armed(cfg) => \E p \in Wanted : Route = cfg.iface[p])

(* Every request is served: no handler waits for ever on a lock or on the  *)
(* probers (the order reconfMu, applyMu); each is idle again and again.    *)
RequestsFinish == \A h \in Handlers : []<>(pc[h] = "idle")
=============================================================================
