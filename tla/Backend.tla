------------------------------ MODULE Backend ------------------------------
(***************************************************************************)
(* The backend agent following the frontend's decisions                    *)
(* (internal/agent/agent.go, responder.go).  Every probe carries the       *)
(* frontend's decision; the responder goroutine hands the newest to a      *)
(* worker (applyLoop), which installs the return path and only then        *)
(* records it; the control client pushes configurations (ApplyConfig); the *)
(* worker also reconciles what the kernel has lost.  applyMu serialises    *)
(* the writers of routes; memory is lost in a crash, the cached            *)
(* configuration and the kernel's routes are not.                          *)
(*                                                                         *)
(* Decision n of the frontend is said[n], a path or 0 for none: a number   *)
(* names one path (Engine's OneNumberOnePath).  A probe may be lost,       *)
(* duplicated and delayed, so any decision ever said may arrive.  Linkers, *)
(* egress, shaping, the marking table and the bound on implausible numbers *)
(* are not modelled.                                                       *)
(***************************************************************************)
EXTENDS Naturals, Sequences, FiniteSets

CONSTANTS Paths, Ifaces, None,
          Cfgs,          \* configurations the frontend may push
          Provisional,   \* path -> interface of the shipped defaults
          MaxDecisions,  \* bound: decisions said
          MaxPushes,     \* bound: configurations pushed
          MaxCrashes,    \* bound: crashes of the agent
          MaxFaults      \* bound: interfaces deleted, commands and writes that fail

Modes == {"observe", "armed"}
Cfg == [mode : Modes, iface : UNION {[S -> Ifaces] : S \in SUBSET Paths}]
NoCfg == [mode |-> "observe", iface |-> [p \in {} |-> None]]
Decision == [path : Paths \cup {0}, seq : Nat]
NoDecision == [path |-> 0, seq |-> 0]
Free == "free"

ASSUME BackendAssumption ==
    /\ Paths \subseteq Nat \ {0} /\ None \notin Ifaces
    /\ Cfgs \subseteq Cfg
    /\ Provisional \in UNION {[S -> Ifaces] : S \in SUBSET Paths}
    /\ MaxDecisions \in Nat

VARIABLES
    said,          \* the frontend's decisions, by number
    heard,         \* history: the highest number handed to the worker
    resp,          \* responder: [pc, d], d the decision being handed over
    pending, wake, \* the newest decision, and the worker's wake-up
    worker,        \* applyLoop: [pc, d, iface, mode]
    gaveUp,        \* history: the worker's last attempt installed nothing
    push,          \* ApplyConfig: where the control client is
    applyMu,       \* who writes routes
    cfg, active, lastSeq,
    disk,          \* the cached configuration
    up,            \* interfaces that exist
    ret,           \* table 100's default route: where replies leave
    overlay,       \* the route to the frontend's overlay address
    reply,         \* probe reply tables: path -> interface
    pushes, crashes, links, failures

queue == <<heard, resp, pending, wake>>
memory == <<cfg, active, lastSeq>>
kernel == <<ret, overlay, reply>>
bounds == <<pushes, crashes, links, failures>>
vars == <<said, queue, worker, gaveUp, push, applyMu, memory, disk, up, kernel,
          bounds>>

-----------------------------------------------------------------------------
Known(c) == DOMAIN c.iface
Armed(c) == c.mode = "armed"
First(S) == CHOOSE p \in S : \A q \in S : p <= q
Idle == [pc |-> "idle", d |-> NoDecision, iface |-> None, mode |-> "observe"]
CmdFails == links + failures < MaxFaults /\ failures' = failures + 1
CmdWorks == UNCHANGED failures

(* EnsureProbeRoutes: one reply table per configured path that is there.   *)
ReplyRoutes(iface) ==
    [p \in Paths |-> IF p \in DOMAIN iface /\ iface[p] \in up THEN iface[p]
                     ELSE reply[p]]

(* applyPlumbing: reply tables, and a first route to the frontend while    *)
(* there is no decision.                                                   *)
Plumb(iface, a) ==
    LET there == {p \in DOMAIN iface : iface[p] \in up}
    IN  /\ reply' = ReplyRoutes(iface)
        /\ overlay' = IF a = 0 /\ there # {} THEN iface[First(there)] ELSE overlay

(* What an agent steers by before the frontend has been heard: the cached  *)
(* configuration, or else the shipped defaults.                            *)
Start(c) == IF c = NoCfg THEN Provisional ELSE c.iface

(* The agent's first start after the machine's: no route is left, and the  *)
(* cache may hold any configuration pushed before.                         *)
Init ==
    /\ said = <<>> /\ heard = 0
    /\ resp = [pc |-> "idle", d |-> NoDecision]
    /\ pending = NoDecision /\ wake = FALSE
    /\ worker = Idle /\ gaveUp = FALSE
    /\ push = "idle" /\ applyMu = Free
    /\ disk \in Cfgs \cup {NoCfg} /\ cfg = disk
    /\ active = 0 /\ lastSeq = 0 /\ up = Ifaces
    /\ ret = None
    /\ reply = [p \in Paths |-> IF p \in DOMAIN Start(disk) THEN Start(disk)[p]
                                ELSE None]
    /\ overlay = IF DOMAIN Start(disk) = {} THEN None
                 ELSE Start(disk)[First(DOMAIN Start(disk))]
    /\ pushes = 0 /\ crashes = 0 /\ links = 0 /\ failures = 0

(* A crash and Run's startup: loadCachedConfig, applyPlumbing, then the    *)
(* goroutines.                                                             *)
Crash ==
    /\ crashes < MaxCrashes /\ crashes' = crashes + 1
    /\ heard' = 0 /\ resp' = [pc |-> "idle", d |-> NoDecision]
    /\ pending' = NoDecision /\ wake' = FALSE
    /\ worker' = Idle /\ gaveUp' = FALSE
    /\ push' = "idle" /\ applyMu' = Free
    /\ cfg' = disk /\ active' = 0 /\ lastSeq' = 0
    /\ Plumb(Start(disk), 0)
    /\ UNCHANGED <<said, disk, up, ret, pushes, links, failures>>

(* The frontend decides: commitSwitch, or a restart that reseeds.          *)
Say ==
    /\ Len(said) < MaxDecisions
    /\ \E p \in Paths \cup {0} : said' = Append(said, p)
    /\ UNCHANGED <<queue, worker, gaveUp, push, applyMu, memory, disk, up, kernel,
                   bounds>>

-----------------------------------------------------------------------------
(* The responder: SetActivePath on a probe that carries decision n.  The   *)
(* filter reads what the worker last recorded; the rest is not atomic with *)
(* it.                                                                     *)
Receive(n) ==
    /\ resp.pc = "idle"
    /\ said[n] # 0
    /\ ~(n < lastSeq \/ (said[n] = active /\ n <= lastSeq))
    /\ resp' = [pc |-> "queue", d |-> [path |-> said[n], seq |-> n]]
    /\ UNCHANGED <<said, heard, pending, wake, worker, gaveUp, push, applyMu, memory,
                   disk, up, kernel, bounds>>

(* Faulty: a straggler replaces the newer decision queued before it.       *)
QueueUnchecked ==
    /\ resp.pc = "queue"
    /\ pending' = resp.d
    /\ resp' = [resp EXCEPT !.pc = "wake"]
    /\ UNCHANGED <<said, heard, wake, worker, gaveUp, push, applyMu, memory, disk, up,
                   kernel, bounds>>

Queue ==
    /\ resp.pc = "queue"
    /\ pending' = IF resp.d.seq >= pending.seq THEN resp.d ELSE pending
    /\ resp' = [resp EXCEPT !.pc = "wake"]
    /\ UNCHANGED <<said, heard, wake, worker, gaveUp, push, applyMu, memory, disk, up,
                   kernel, bounds>>

Wake ==
    /\ resp.pc = "wake"
    /\ wake' = TRUE
    /\ heard' = IF resp.d.seq > heard THEN resp.d.seq ELSE heard
    /\ resp' = [resp EXCEPT !.pc = "idle"]
    /\ UNCHANGED <<said, pending, worker, gaveUp, push, applyMu, memory, disk, up,
                   kernel, bounds>>

-----------------------------------------------------------------------------
(* The worker: applyLoop and applyDecision.                                *)
Woken ==
    /\ worker.pc = "idle" /\ wake
    /\ wake' = FALSE
    /\ worker' = [worker EXCEPT !.pc = "woken"] /\ gaveUp' = FALSE
    /\ UNCHANGED <<said, heard, resp, pending, push, applyMu, memory, disk, up, kernel,
                   bounds>>

TakeNewest ==
    /\ worker.pc = "woken"
    /\ worker' = [worker EXCEPT !.pc = "have", !.d = pending]
    /\ UNCHANGED <<said, queue, gaveUp, push, applyMu, memory, disk, up, kernel,
                   bounds>>

(* A reordered decision, or the path already in use: nothing is installed. *)
NothingToApply ==
    /\ worker.pc = "have" /\ applyMu = Free
    /\ worker.d.seq < lastSeq \/ worker.d.path = active
    /\ lastSeq' = IF worker.d.seq > lastSeq THEN worker.d.seq ELSE lastSeq
    /\ worker' = Idle
    /\ UNCHANGED <<said, queue, gaveUp, push, applyMu, cfg, active, disk, up, kernel,
                   bounds>>

UnknownPath ==
    /\ worker.pc = "have" /\ applyMu = Free
    /\ worker.d.seq >= lastSeq /\ worker.d.path # active
    /\ worker.d.path \notin Known(cfg)
    /\ worker' = Idle /\ gaveUp' = TRUE
    /\ UNCHANGED <<said, queue, push, applyMu, memory, disk, up, kernel, bounds>>

Decide ==
    /\ worker.pc = "have" /\ applyMu = Free
    /\ worker.d.seq >= lastSeq /\ worker.d.path # active
    /\ worker.d.path \in Known(cfg)
    /\ applyMu' = "worker"
    /\ worker' = [worker EXCEPT !.pc = "write", !.iface = cfg.iface[worker.d.path],
                                !.mode = cfg.mode]
    /\ UNCHANGED <<said, queue, gaveUp, push, memory, disk, up, kernel, bounds>>

(* SetReturnPath through the runner read under the lock.                   *)
Install ==
    /\ worker.pc = "write"
    /\ \/ worker.mode = "observe" /\ UNCHANGED ret
       \/ worker.mode = "armed" /\ worker.iface \in up /\ ret' = worker.iface
    /\ worker' = [worker EXCEPT !.pc = "routed"]
    /\ UNCHANGED <<said, queue, gaveUp, push, applyMu, memory, disk, up, overlay, reply,
                   bounds>>

InstallFails ==
    /\ worker.pc = "write" /\ worker.mode = "armed"
    /\ IF worker.iface \in up THEN CmdFails ELSE CmdWorks
    /\ worker' = Idle /\ gaveUp' = TRUE
    /\ applyMu' = Free
    /\ UNCHANGED <<said, queue, push, memory, disk, up, kernel, pushes, crashes, links>>

(* The route to the frontend follows (a failure is only logged), and the   *)
(* decision is recorded last.                                              *)
Record ==
    /\ worker.pc = "routed"
    /\ overlay' = IF worker.iface \in up THEN worker.iface ELSE overlay
    /\ active' = worker.d.path
    /\ lastSeq' = IF worker.d.seq > lastSeq THEN worker.d.seq ELSE lastSeq
    /\ worker' = Idle /\ applyMu' = Free
    /\ UNCHANGED <<said, queue, gaveUp, push, cfg, disk, up, ret, reply, bounds>>

(* Faulty: the reconciler leaves the return path alone.                    *)
ReconcileNoReturn ==
    LET here == active \in Known(cfg) /\ cfg.iface[active] \in up
    IN  /\ worker.pc = "idle" /\ applyMu = Free /\ cfg # NoCfg
        /\ reply' = ReplyRoutes(cfg.iface)
        /\ overlay' = IF here THEN cfg.iface[active] ELSE overlay
        /\ UNCHANGED <<said, queue, worker, gaveUp, push, applyMu, memory, disk, up,
                       ret, bounds>>

(* reconcileRouting, on the worker's goroutine and under applyMu.          *)
Reconcile ==
    LET here == active \in Known(cfg) /\ cfg.iface[active] \in up
    IN  /\ worker.pc = "idle" /\ applyMu = Free /\ cfg # NoCfg
        /\ reply' = ReplyRoutes(cfg.iface)
        /\ overlay' = IF here THEN cfg.iface[active] ELSE overlay
        /\ ret' = IF here /\ Armed(cfg) THEN cfg.iface[active] ELSE ret
        /\ UNCHANGED <<said, queue, worker, gaveUp, push, applyMu, memory, disk, up,
                       bounds>>

-----------------------------------------------------------------------------
(* ApplyConfig: the swap and the cache, the plumbing, the return path.     *)
PushSwaps ==
    /\ push = "idle" /\ applyMu = Free
    /\ pushes < MaxPushes /\ pushes' = pushes + 1
    /\ \E c \in Cfgs :
        /\ cfg' = c
        /\ \/ CmdWorks /\ disk' = c
           \/ CmdFails /\ UNCHANGED disk
    /\ applyMu' = "push" /\ push' = "plumb"
    /\ UNCHANGED <<said, queue, worker, gaveUp, active, lastSeq, up, kernel, crashes,
                   links>>

PushPlumbs ==
    /\ push = "plumb"
    /\ Plumb(cfg.iface, active)
    /\ push' = "reassert"
    /\ UNCHANGED <<said, queue, worker, gaveUp, applyMu, memory, disk, up, ret, bounds>>

(* Faulty: a push leaves the return path as it found it.                   *)
PushForgetsReturn ==
    /\ push = "reassert"
    /\ push' = "idle" /\ applyMu' = Free
    /\ UNCHANGED <<said, queue, worker, gaveUp, memory, disk, up, kernel, bounds>>

(* reassertReturnPath.                                                     *)
PushReasserts ==
    /\ push = "reassert"
    /\ IF active \in Known(cfg) /\ Armed(cfg) /\ cfg.iface[active] \in up
       THEN \/ CmdWorks /\ ret' = cfg.iface[active]
            \/ CmdFails /\ UNCHANGED ret
       ELSE CmdWorks /\ UNCHANGED ret
    /\ push' = "idle" /\ applyMu' = Free
    /\ UNCHANGED <<said, queue, worker, gaveUp, memory, disk, up, overlay, reply,
                   pushes, crashes, links>>

-----------------------------------------------------------------------------
(* A tunnel is taken down: the kernel drops every route through it.        *)
LinkDeleted ==
    /\ links + failures < MaxFaults /\ links' = links + 1
    /\ \E i \in up :
        /\ up' = up \ {i}
        /\ ret' = IF ret = i THEN None ELSE ret
        /\ overlay' = IF overlay = i THEN None ELSE overlay
        /\ reply' = [p \in Paths |-> IF reply[p] = i THEN None ELSE reply[p]]
    /\ UNCHANGED <<said, queue, worker, gaveUp, push, applyMu, memory, disk, pushes,
                   crashes, failures>>

LinkCreated ==
    /\ \E i \in Ifaces \ up : up' = up \cup {i}
    /\ UNCHANGED <<said, queue, worker, gaveUp, push, applyMu, memory, disk, kernel,
                   bounds>>

ResponderStep == Queue \/ Wake
WorkerStep ==
    \/ Woken \/ TakeNewest \/ NothingToApply \/ UnknownPath \/ Decide
    \/ Install \/ InstallFails \/ Record
PushStep == PushPlumbs \/ PushReasserts

Next ==
    \/ Say \/ (\E n \in 1..Len(said) : Receive(n))
    \/ ResponderStep \/ WorkerStep \/ Reconcile
    \/ PushSwaps \/ PushStep
    \/ LinkDeleted \/ LinkCreated \/ Crash

Spec == Init /\ [][Next]_vars

(***************************************************************************)
(* Fairness.  Goroutines that can run do; a mutex is granted in the end;   *)
(* the 10 s reconcile tick keeps firing.  Every prober stamps every probe  *)
(* with the current decision for as long as it runs, so as long as one     *)
(* tunnel delivers, a probe with the current decision keeps arriving.      *)
(***************************************************************************)
ReceiveCurrent == said # <<>> /\ Receive(Len(said))
FairSpec ==
    /\ Spec
    /\ WF_vars(ResponderStep) /\ SF_vars(WorkerStep) /\ WF_vars(PushStep)
    /\ SF_vars(Reconcile) /\ SF_vars(ReceiveCurrent)

-----------------------------------------------------------------------------
(* Types of the agent's state and of the kernel's.                         *)
TypeOK ==
    /\ said \in Seq(Paths \cup {0}) /\ heard \in Nat
    /\ resp \in [pc : {"idle", "queue", "wake"}, d : Decision]
    /\ pending \in Decision /\ wake \in BOOLEAN
    /\ worker \in [pc : {"idle", "woken", "have", "write", "routed"}, d : Decision,
                   iface : Ifaces \cup {None}, mode : Modes]
    /\ gaveUp \in BOOLEAN
    /\ push \in {"idle", "plumb", "reassert"}
    /\ applyMu \in {Free, "worker", "push"}
    /\ cfg \in Cfg /\ disk \in Cfg
    /\ active \in Paths \cup {0} /\ lastSeq \in Nat
    /\ up \subseteq Ifaces
    /\ ret \in Ifaces \cup {None} /\ overlay \in Ifaces \cup {None}
    /\ reply \in [Paths -> Ifaces \cup {None}]

(* The number recorded is the number of the path in use: a decision that   *)
(* was not installed is never recorded as applied, or the probes that      *)
(* repeat it would be filtered out and it would never be retried           *)
(* (applyDecision).                                                        *)
ActiveIsNamed ==
    /\ lastSeq \in 0..Len(said)
    /\ IF lastSeq = 0 THEN active = 0 ELSE said[lastSeq] = active

(* The newest decision handed over is the one applied: when the worker has *)
(* gone idle with nothing queued and its last attempt did not fail, it has *)
(* applied the highest number it was handed, whatever stragglers arrived   *)
(* while it was running `ip` (SetActivePath's pending and wake).           *)
NewestApplied ==
    (worker.pc = "idle" /\ ~wake /\ ~gaveUp) => lastSeq >= heard

(* With every tunnel up and every command working, replies leave by the    *)
(* active path whenever no writer is at work: arming, moving a path and    *)
(* switching all carry the return route along, in any order (ApplyConfig   *)
(* against applyDecision).                                                 *)
RepliesFollowActive ==
    (applyMu = Free /\ failures = 0 /\ links = 0 /\ Armed(cfg)
        /\ active \in Known(cfg)) => ret = cfg.iface[active]

(* Observe mode moves no reply: the return path is written only while the  *)
(* configuration in force is armed (the swap waits for applyMu).           *)
ObserveMovesNothing ==
    [][ret' \notin {None, ret} => Armed(cfg)]_vars

(* Both ends agree in the end: once the frontend's decisions, the pushes   *)
(* and the tunnels are quiet, the backend is on the path the frontend last *)
(* said, and its routes are there.                                         *)
Agreed ==
    LET p == said[Len(said)]
    IN  (said # <<>> /\ p \in Known(cfg) /\ cfg.iface[p] \in up) =>
            /\ active = p
            /\ overlay = cfg.iface[p] /\ reply[p] = cfg.iface[p]
            /\ Armed(cfg) => ret = cfg.iface[p]
EndsAgree == <>[]Agreed
=============================================================================
