--------------------------- MODULE BackendProofs ---------------------------
(***************************************************************************)
(* The backend's decisions and its return path, for every set of paths,    *)
(* tunnels and configurations and any number of crashes, pushes and        *)
(* failures.                                                               *)
(***************************************************************************)
EXTENDS Backend, WellFoundedInduction, TLAPS

(* The lowest path of a set is in the set: Plumb picks one that is there.  *)
LEMMA FirstInSet ==
    ASSUME NEW S, S \subseteq Nat, S # {}
    PROVE  First(S) \in S
<1>1. PICK x \in S : \A y \in S : ~(<<y, x>> \in OpToRel(<, Nat))
  BY NatLessThanWellFounded, WFMin
<1>2. \A y \in S : x <= y
  <2> TAKE y \in S
  <2>1. ~(<<y, x>> \in OpToRel(<, Nat))
    BY <1>1
  <2>2. <<y, x>> \in Nat \X Nat => ~(y < x)
    BY <2>1 DEF OpToRel
  <2> QED BY <2>2
<1> QED BY <1>2 DEF First

-----------------------------------------------------------------------------
Ifc == Ifaces \cup {None}
Mapping == UNION {[S -> Ifaces] : S \in SUBSET Paths}

(* The configuration of an agent that has never been pushed one.           *)
LEMMA NoCfgTyped == NoCfg \in Cfg
<1>1. [p \in {} |-> None] \in [{} -> Ifaces]
  OBVIOUS
<1> QED BY <1>1 DEF NoCfg, Cfg, Modes

(* A configuration maps some of the paths to interfaces.                   *)
LEMMA MappingTyped ==
    ASSUME NEW f \in Mapping
    PROVE  DOMAIN f \subseteq Paths /\ \A p \in DOMAIN f : f[p] \in Ifaces
BY DEF Mapping

(* An agent starts by a cached configuration or by the defaults.           *)
LEMMA StartTyped ==
    ASSUME NEW c \in Cfg
    PROVE  Start(c) \in Mapping
BY BackendAssumption DEF Start, Cfg, Mapping

(* EnsureProbeRoutes points a reply table at an interface, or leaves it.   *)
LEMMA ReplyRoutesTyped ==
    ASSUME TypeOK, NEW f \in Mapping
    PROVE  ReplyRoutes(f) \in [Paths -> Ifc]
BY MappingTyped DEF TypeOK, ReplyRoutes, Ifc

(* applyPlumbing keeps the types of what it writes.                        *)
LEMMA PlumbTyped ==
    ASSUME TypeOK, NEW f \in Mapping, NEW a, Plumb(f, a)
    PROVE  reply' \in [Paths -> Ifc] /\ overlay' \in Ifc
<1> DEFINE there == {p \in DOMAIN f : f[p] \in up}
<1>1. there # {} => First(there) \in there
  BY FirstInSet, MappingTyped, BackendAssumption
<1>2. there # {} => f[First(there)] \in Ifaces
  BY <1>1, MappingTyped
<1>3. reply' = ReplyRoutes(f)
      /\ overlay' = IF a = 0 /\ there # {} THEN f[First(there)] ELSE overlay
  BY DEF Plumb
<1> QED BY <1>2, <1>3, ReplyRoutesTyped DEF TypeOK, Ifc

-----------------------------------------------------------------------------
(* The types, with those of the counters the properties mention.           *)
Typed == TypeOK /\ failures \in Nat /\ links \in Nat

(* An agent that starts for the first time is typed.                       *)
LEMMA InitTyped == Init => Typed
<1> SUFFICES ASSUME Init PROVE Typed
  OBVIOUS
<1>1. cfg \in Cfg /\ disk \in Cfg
  BY NoCfgTyped, BackendAssumption DEF Init
<1>2. Start(disk) \in Mapping
  BY <1>1, StartTyped
<1>m. DOMAIN Start(disk) \subseteq Paths
      /\ \A p \in DOMAIN Start(disk) : Start(disk)[p] \in Ifaces
  BY <1>2, MappingTyped
<1>3. reply \in [Paths -> Ifc]
  BY <1>m DEF Init, Ifc
<1>4. overlay \in Ifc
  <2>1. CASE DOMAIN Start(disk) = {}
    BY <2>1 DEF Init, Ifc
  <2>2. CASE DOMAIN Start(disk) # {}
    <3>1. First(DOMAIN Start(disk)) \in DOMAIN Start(disk)
      BY <1>m, <2>2, FirstInSet, BackendAssumption
    <3> QED BY <1>m, <2>2, <3>1 DEF Init, Ifc
  <2> QED BY <2>1, <2>2
<1>5. /\ said \in Seq(Paths \cup {0}) /\ heard \in Nat
      /\ failures \in Nat /\ links \in Nat /\ wake \in BOOLEAN
  <2>1. said = <<>> /\ heard = 0 /\ failures = 0 /\ links = 0 /\ wake = FALSE
    BY DEF Init
  <2>2. <<>> \in Seq(Paths \cup {0})
    OBVIOUS
  <2>3. 0 \in Nat
    OBVIOUS
  <2> QED BY <2>1, <2>2, <2>3, Zenon
<1>d. NoDecision \in Decision
  BY DEF NoDecision, Decision
<1>7. /\ resp \in [pc : {"idle", "queue", "wake"}, d : Decision]
      /\ pending \in Decision
  BY <1>d DEF Init
<1>8. worker \in [pc : {"idle", "woken", "have", "write", "routed"}, d : Decision,
                  iface : Ifc, mode : Modes]
  BY <1>d DEF Init, Idle, Modes, Ifc
<1>6. /\ gaveUp \in BOOLEAN /\ push \in {"idle", "plumb", "reassert"}
      /\ applyMu \in {Free, "worker", "push"}
      /\ cfg \in Cfg /\ disk \in Cfg
      /\ active \in Paths \cup {0} /\ lastSeq \in Nat
      /\ up \subseteq Ifaces /\ ret \in Ifc
  BY <1>1 DEF Init, Ifc
<1> QED BY <1>3, <1>4, <1>5, <1>6, <1>7, <1>8 DEF Typed, TypeOK, Ifc

(* Every step of every goroutine keeps the types.                          *)
LEMMA TypedStep ==
    ASSUME Typed, [Next]_vars
    PROVE  Typed'
<1> USE DEF Typed, TypeOK, queue, memory, kernel, bounds
<1>cfg. cfg.iface \in Mapping /\ disk.iface \in Mapping /\ cfg.mode \in Modes
  BY DEF Cfg, Mapping
<1>know. DOMAIN cfg.iface \subseteq Paths
         /\ \A p \in DOMAIN cfg.iface : cfg.iface[p] \in Ifaces
  BY <1>cfg, MappingTyped
<1>idle. Idle \in [pc : {"idle", "woken", "have", "write", "routed"}, d : Decision,
                   iface : Ifaces \cup {None}, mode : Modes]
  BY DEF Idle, Decision, NoDecision, Modes
<1>none. NoDecision \in Decision
  BY DEF NoDecision, Decision
<1>1. CASE Say
  BY <1>1 DEF Say
<1>2. ASSUME NEW n \in 1..Len(said), Receive(n) PROVE Typed'
  <2>1. [path |-> said[n], seq |-> n] \in Decision
    BY DEF Decision
  <2> QED BY <1>2, <2>1 DEF Receive
<1>3. CASE Queue
  BY <1>3 DEF Queue
<1>4. CASE Wake
  <2>1. resp.d.seq \in Nat
    BY DEF Decision
  <2> QED BY <1>4, <2>1 DEF Wake
<1>5. CASE Woken
  BY <1>5 DEF Woken
<1>6. CASE TakeNewest
  BY <1>6 DEF TakeNewest
<1>7. CASE NothingToApply
  <2>1. worker.d.seq \in Nat
    BY DEF Decision
  <2> QED BY <1>7, <1>idle, <2>1 DEF NothingToApply
<1>8. CASE UnknownPath
  BY <1>8, <1>idle DEF UnknownPath
<1>9. CASE Decide
  <2>1. cfg.iface[worker.d.path] \in Ifaces
    BY <1>9, <1>know DEF Decide, Known
  <2>2. worker' \in [pc : {"idle", "woken", "have", "write", "routed"}, d : Decision,
                     iface : Ifaces \cup {None}, mode : Modes]
    BY <1>9, <1>cfg, <2>1 DEF Decide
  <2> QED BY <1>9, <2>2 DEF Decide
<1>10. CASE Install
  BY <1>10 DEF Install
<1>11. CASE InstallFails
  BY <1>11, <1>idle DEF InstallFails, CmdFails, CmdWorks
<1>12. CASE Record
  <2>1. worker.d.path \in Paths \cup {0} /\ worker.d.seq \in Nat
    BY DEF Decision
  <2> QED BY <1>12, <1>idle, <2>1 DEF Record
<1>13. CASE Reconcile
  <2>1. reply' \in [Paths -> Ifc]
    BY <1>13, <1>cfg, ReplyRoutesTyped DEF Reconcile
  <2>2. overlay' \in Ifc /\ ret' \in Ifc
    BY <1>13, <1>know DEF Reconcile, Known, Ifc
  <2> QED BY <1>13, <2>1, <2>2 DEF Reconcile, Ifc
<1>14. CASE PushSwaps
  BY <1>14, BackendAssumption DEF PushSwaps, CmdFails, CmdWorks
<1>15. CASE PushPlumbs
  <2>1. reply' \in [Paths -> Ifc] /\ overlay' \in Ifc
    BY <1>15, <1>cfg, PlumbTyped DEF PushPlumbs
  <2> QED BY <1>15, <2>1 DEF PushPlumbs, Ifc
<1>16. CASE PushReasserts
  BY <1>16, <1>know DEF PushReasserts, CmdFails, CmdWorks, Known
<1>17. CASE LinkDeleted
  BY <1>17 DEF LinkDeleted
<1>18. CASE LinkCreated
  BY <1>18 DEF LinkCreated
<1>19. CASE Crash
  <2>1. Start(disk) \in Mapping
    BY StartTyped
  <2>2. reply' \in [Paths -> Ifc] /\ overlay' \in Ifc
    BY <1>19, <2>1, PlumbTyped DEF Crash
  <2>3. resp' \in [pc : {"idle", "queue", "wake"}, d : Decision]
    BY <1>19, <1>none DEF Crash
  <2> QED BY <1>19, <1>idle, <1>none, <2>2, <2>3 DEF Crash, Ifc
<1>20. CASE UNCHANGED vars
  BY <1>20 DEF vars
<1> QED BY <1>1, <1>2, <1>3, <1>4, <1>5, <1>6, <1>7, <1>8, <1>9, <1>10, <1>11, <1>12,
           <1>13, <1>14, <1>15, <1>16, <1>17, <1>18, <1>19, <1>20
        DEF Next, ResponderStep, WorkerStep, PushStep

(* The agent's state and the kernel's keep their types in every behaviour  *)
(* of the responder, the worker, the control client and the tunnels.       *)
THEOREM BackendTypes == Spec => []TypeOK
<1>1. Typed => TypeOK
  BY DEF Typed
<1> QED BY <1>1, InitTyped, TypedStep, PTL DEF Spec

-----------------------------------------------------------------------------
(* A decision the agent holds is one the frontend said, or none.           *)
Genuine(d) ==
    \/ d.path = 0 /\ d.seq = 0
    \/ /\ d.seq \in 1..Len(said) /\ d.path = said[d.seq] /\ d.path # 0

(* The worker's decision is not older than the one recorded while it holds *)
(* applyMu: only the worker records.                                       *)
DecisionInv ==
    /\ Genuine(resp.d) /\ Genuine(pending) /\ Genuine(worker.d)
    /\ worker.pc \in {"write", "routed"} =>
            worker.d.seq >= lastSeq /\ worker.d.path # active
    /\ ActiveIsNamed

(* No step invents a decision, or records one out of its turn.             *)
LEMMA DecisionStep ==
    ASSUME Typed, DecisionInv, [Next]_vars
    PROVE  DecisionInv'
<1> USE DEF Typed, TypeOK, DecisionInv, Genuine, ActiveIsNamed, queue, memory, kernel,
            bounds
<1>d. /\ resp.d.seq \in Nat /\ pending.seq \in Nat /\ worker.d.seq \in Nat
      /\ Len(said) \in Nat
  BY DEF Decision
<1>1. CASE Say
  <2>1. PICK p \in Paths \cup {0} : said' = Append(said, p)
    BY <1>1 DEF Say
  <2>2. Len(said') = Len(said) + 1 /\ \A n \in 1..Len(said) : said'[n] = said[n]
    BY <2>1
  <2> QED BY <1>1, <1>d, <2>2 DEF Say
<1>2. ASSUME NEW n \in 1..Len(said), Receive(n) PROVE DecisionInv'
  BY <1>2, <1>d DEF Receive
<1>3. CASE Queue
  BY <1>3, <1>d DEF Queue
<1>4. CASE Wake
  BY <1>4, <1>d DEF Wake
<1>5. CASE Woken
  BY <1>5, <1>d DEF Woken
<1>6. CASE TakeNewest
  BY <1>6, <1>d DEF TakeNewest
<1>7. CASE NothingToApply
  BY <1>7, <1>d DEF NothingToApply, Idle, NoDecision
<1>8. CASE UnknownPath
  BY <1>8, <1>d DEF UnknownPath, Idle, NoDecision
<1>9. CASE Decide
  BY <1>9, <1>d DEF Decide
<1>10. CASE Install
  BY <1>10, <1>d DEF Install
<1>11. CASE InstallFails
  BY <1>11, <1>d DEF InstallFails, Idle, NoDecision
<1>12. CASE Record
  BY <1>12, <1>d DEF Record, Idle, NoDecision
<1>13. CASE Reconcile
  BY <1>13, <1>d DEF Reconcile
<1>14. CASE PushSwaps
  BY <1>14, <1>d DEF PushSwaps
<1>15. CASE PushPlumbs
  BY <1>15, <1>d DEF PushPlumbs
<1>16. CASE PushReasserts
  BY <1>16, <1>d DEF PushReasserts
<1>17. CASE LinkDeleted
  BY <1>17, <1>d DEF LinkDeleted
<1>18. CASE LinkCreated
  BY <1>18, <1>d DEF LinkCreated
<1>19. CASE Crash
  BY <1>19, <1>d DEF Crash, Idle, NoDecision
<1>20. CASE UNCHANGED vars
  BY <1>20, <1>d DEF vars
<1> QED BY <1>1, <1>2, <1>3, <1>4, <1>5, <1>6, <1>7, <1>8, <1>9, <1>10, <1>11, <1>12,
           <1>13, <1>14, <1>15, <1>16, <1>17, <1>18, <1>19, <1>20
        DEF Next, ResponderStep, WorkerStep, PushStep

(* The number recorded is always the number of the path in use, whatever   *)
(* probes are lost, repeated and reordered, and whenever a push, a failing *)
(* command or a crash comes between the steps of applyDecision.            *)
THEOREM RecordedIsInstalled == Spec => []ActiveIsNamed
<1>1. Init => Typed /\ DecisionInv
  <2>1. Init => DecisionInv
    BY DEF Init, DecisionInv, Genuine, ActiveIsNamed, Idle, NoDecision
  <2> QED BY <2>1, InitTyped
<1>2. Typed /\ DecisionInv /\ [Next]_vars => (Typed /\ DecisionInv)'
  BY TypedStep, DecisionStep
<1>3. DecisionInv => ActiveIsNamed
  BY DEF DecisionInv
<1> QED BY <1>1, <1>2, <1>3, PTL DEF Spec

-----------------------------------------------------------------------------
(* Between two decisions handed over, the newest one is still on its way:  *)
(* queued with a wake-up, in the worker's hands, or already recorded.      *)
NewestInv ==
    /\ heard <= pending.seq
    /\ resp.pc = "wake" => resp.d.seq <= pending.seq
    /\ (~wake /\ worker.pc \in {"have", "write", "routed"}) => heard <= worker.d.seq
    /\ NewestApplied

(* No step loses the newest decision.                                      *)
LEMMA NewestStep ==
    ASSUME Typed, DecisionInv, NewestInv, [Next]_vars
    PROVE  NewestInv'
<1> USE DEF Typed, TypeOK, NewestInv, NewestApplied, queue, memory, kernel, bounds
<1>d. /\ resp.d.seq \in Nat /\ pending.seq \in Nat /\ worker.d.seq \in Nat
  BY DEF Decision
<1>1. CASE Say
  BY <1>1, <1>d DEF Say
<1>2. ASSUME NEW n \in 1..Len(said), Receive(n) PROVE NewestInv'
  BY <1>2, <1>d DEF Receive
<1>3. CASE Queue
  BY <1>3, <1>d DEF Queue
<1>4. CASE Wake
  BY <1>4, <1>d DEF Wake
<1>5. CASE Woken
  BY <1>5, <1>d DEF Woken
<1>6. CASE TakeNewest
  BY <1>6, <1>d DEF TakeNewest
<1>7. CASE NothingToApply
  BY <1>7, <1>d DEF NothingToApply, Idle, NoDecision
<1>8. CASE UnknownPath
  BY <1>8, <1>d DEF UnknownPath, Idle, NoDecision
<1>9. CASE Decide
  BY <1>9, <1>d DEF Decide
<1>10. CASE Install
  BY <1>10, <1>d DEF Install
<1>11. CASE InstallFails
  BY <1>11, <1>d DEF InstallFails, Idle, NoDecision
<1>12. CASE Record
  BY <1>12, <1>d DEF Record, Idle, NoDecision
<1>13. CASE Reconcile
  BY <1>13, <1>d DEF Reconcile
<1>14. CASE PushSwaps
  BY <1>14, <1>d DEF PushSwaps
<1>15. CASE PushPlumbs
  BY <1>15, <1>d DEF PushPlumbs
<1>16. CASE PushReasserts
  BY <1>16, <1>d DEF PushReasserts
<1>17. CASE LinkDeleted
  BY <1>17, <1>d DEF LinkDeleted
<1>18. CASE LinkCreated
  BY <1>18, <1>d DEF LinkCreated
<1>19. CASE Crash
  BY <1>19, <1>d DEF Crash, Idle, NoDecision
<1>20. CASE UNCHANGED vars
  BY <1>20, <1>d DEF vars
<1> QED BY <1>1, <1>2, <1>3, <1>4, <1>5, <1>6, <1>7, <1>8, <1>9, <1>10, <1>11, <1>12,
           <1>13, <1>14, <1>15, <1>16, <1>17, <1>18, <1>19, <1>20
        DEF Next, ResponderStep, WorkerStep, PushStep

(* No straggler displaces a newer decision: an idle worker with nothing    *)
(* queued has applied the newest it was handed, or said that it could not. *)
THEOREM NewestWins == Spec => []NewestApplied
<1>1. Init => Typed /\ DecisionInv /\ NewestInv
  <2>1. Init => DecisionInv
    BY DEF Init, DecisionInv, Genuine, ActiveIsNamed, Idle, NoDecision
  <2>2. Init => NewestInv
    BY DEF Init, NewestInv, NewestApplied, Idle, NoDecision
  <2> QED BY <2>1, <2>2, InitTyped
<1>2. Typed /\ DecisionInv /\ NewestInv /\ [Next]_vars
        => (Typed /\ DecisionInv /\ NewestInv)'
  BY TypedStep, DecisionStep, NewestStep
<1>3. NewestInv => NewestApplied
  BY DEF NewestInv
<1> QED BY <1>1, <1>2, <1>3, PTL DEF Spec

-----------------------------------------------------------------------------
(* applyMu is held by the goroutine that is writing, so the configuration  *)
(* the worker read is the one in force until it has recorded its decision. *)
RouteInv ==
    /\ links = 0 => up = Ifaces
    /\ applyMu = "worker" <=> worker.pc \in {"write", "routed"}
    /\ applyMu = "push" <=> push # "idle"
    /\ worker.pc \in {"write", "routed"} =>
            /\ worker.d.path \in Known(cfg)
            /\ worker.iface = cfg.iface[worker.d.path]
            /\ worker.mode = cfg.mode
    /\ (worker.pc = "routed" /\ Armed(cfg)) => ret = worker.iface \/ links # 0
    /\ RepliesFollowActive

(* No step lets go of applyMu with replies on another path.                *)
LEMMA RouteStep ==
    ASSUME Typed, RouteInv, [Next]_vars
    PROVE  RouteInv'
<1> USE DEF Typed, TypeOK, RouteInv, RepliesFollowActive, Armed, Known, Free, queue,
            memory, kernel, bounds
<1>c. /\ DOMAIN cfg.iface \subseteq Paths
      /\ \A p \in DOMAIN cfg.iface : cfg.iface[p] \in Ifaces
  BY MappingTyped DEF Cfg, Mapping
<1>m. cfg.mode \in {"observe", "armed"}
  BY DEF Cfg, Modes
<1>1. CASE Say
  BY <1>1 DEF Say
<1>2. ASSUME NEW n \in 1..Len(said), Receive(n) PROVE RouteInv'
  BY <1>2 DEF Receive
<1>3. CASE Queue
  BY <1>3 DEF Queue
<1>4. CASE Wake
  BY <1>4 DEF Wake
<1>5. CASE Woken
  BY <1>5 DEF Woken
<1>6. CASE TakeNewest
  BY <1>6 DEF TakeNewest
<1>7. CASE NothingToApply
  BY <1>7 DEF NothingToApply, Idle
<1>8. CASE UnknownPath
  BY <1>8 DEF UnknownPath, Idle
<1>9. CASE Decide
  BY <1>9 DEF Decide
<1>10. CASE Install
  BY <1>10, <1>c, <1>m DEF Install
<1>11. CASE InstallFails
  BY <1>11, <1>c DEF InstallFails, Idle, CmdFails, CmdWorks
<1>12. CASE Record
  BY <1>12 DEF Record, Idle
<1>13. CASE Reconcile
  BY <1>13, <1>c DEF Reconcile
<1>14. CASE PushSwaps
  BY <1>14 DEF PushSwaps
<1>15. CASE PushPlumbs
  BY <1>15 DEF PushPlumbs
<1>16. CASE PushReasserts
  BY <1>16, <1>c DEF PushReasserts, CmdFails, CmdWorks
<1>17. CASE LinkDeleted
  BY <1>17 DEF LinkDeleted
<1>18. CASE LinkCreated
  BY <1>18 DEF LinkCreated
<1>19. CASE Crash
  <2>1. 0 \notin DOMAIN disk.iface
    BY MappingTyped, BackendAssumption DEF Cfg, Mapping
  <2> QED BY <1>19, <2>1 DEF Crash, Idle
<1>20. CASE UNCHANGED vars
  BY <1>20 DEF vars
<1> QED BY <1>1, <1>2, <1>3, <1>4, <1>5, <1>6, <1>7, <1>8, <1>9, <1>10, <1>11, <1>12,
           <1>13, <1>14, <1>15, <1>16, <1>17, <1>18, <1>19, <1>20
        DEF Next, ResponderStep, WorkerStep, PushStep

(* A fresh agent has no active path, and its tunnels are up.               *)
LEMMA InitRoutes == Init => RouteInv
<1> SUFFICES ASSUME Init PROVE RouteInv
  OBVIOUS
<1>1. 0 \notin DOMAIN cfg.iface
  <2>1. cfg.iface \in Mapping
    BY NoCfgTyped, BackendAssumption DEF Init, Cfg, Mapping
  <2> QED BY <2>1, MappingTyped, BackendAssumption
<1> QED BY <1>1 DEF Init, RouteInv, RepliesFollowActive, Known, Idle, Free, Armed

(* With the tunnels up and the commands working, no interleaving of a      *)
(* switch, a push, a reconcile and a crash leaves replies on another path  *)
(* than the active one once the writer has let go of applyMu.              *)
THEOREM RepliesOnActive == Spec => []RepliesFollowActive
<1>1. Init => Typed /\ RouteInv
  BY InitTyped, InitRoutes
<1>2. Typed /\ RouteInv /\ [Next]_vars => (Typed /\ RouteInv)'
  BY TypedStep, RouteStep
<1>3. RouteInv => RepliesFollowActive
  BY DEF RouteInv
<1> QED BY <1>1, <1>2, <1>3, PTL DEF Spec

(* Only a step taken while the configuration in force is armed moves the   *)
(* return path: a push that disarms waits for the worker, and the worker   *)
(* writes with the mode it read under the lock.                            *)
THEOREM ObserveIsInert == Spec => ObserveMovesNothing
<1>1. Init => Typed /\ RouteInv
  BY InitTyped, InitRoutes
<1>2. Typed /\ RouteInv /\ [Next]_vars => (Typed /\ RouteInv)'
  BY TypedStep, RouteStep
<1>3. RouteInv /\ [Next]_vars => [ret' \notin {None, ret} => Armed(cfg)]_vars
  <2> SUFFICES ASSUME RouteInv, Next, ret' # None, ret' # ret PROVE Armed(cfg)
    OBVIOUS
  <2> USE DEF queue, memory, kernel, bounds
  <2>1. CASE Install
    BY <2>1 DEF Install, RouteInv, Armed
  <2>2. CASE Reconcile
    BY <2>2 DEF Reconcile
  <2>3. CASE PushReasserts
    BY <2>3 DEF PushReasserts
  <2>4. CASE LinkDeleted
    BY <2>4 DEF LinkDeleted
  <2>5. CASE ~(Install \/ Reconcile \/ PushReasserts \/ LinkDeleted)
    BY <2>5 DEF Next, ResponderStep, WorkerStep, PushStep, Say, Receive, Queue, Wake, Woken,
                TakeNewest, NothingToApply, UnknownPath, Decide, InstallFails, Record,
                PushSwaps, PushPlumbs, LinkCreated, Crash
  <2> QED BY <2>1, <2>2, <2>3, <2>4, <2>5
<1> QED BY <1>1, <1>2, <1>3, PTL DEF Spec, ObserveMovesNothing
=============================================================================
