------------------------------ MODULE Tracker ------------------------------
(***************************************************************************)
(* The health state machine of one path (internal/engine/tracker.go):      *)
(* loss and reply streaks, the clean streak failback waits for, and the    *)
(* circuit breaker that parks a flapping path for a cooldown that doubles. *)
(* The engine feeds it the prober's results in sequence order, retunes it  *)
(* on a settings save and clears the breaker on the operator's request.    *)
(*                                                                         *)
(* Time is a natural number; 0 is Go's zero time and the clock starts at   *)
(* 1.  Durations are int64 in the code: MaxDuration stands for MaxInt64.   *)
(* The measurement window behind Degraded and Score is not modelled.       *)
(***************************************************************************)
EXTENDS Integers, Sequences, FiniteSets

CONSTANTS Cfgs,         \* thresholds a settings save may put in force
          MaxDuration,  \* largest representable duration
          MaxTime,      \* bound: the clock
          MaxStreak,    \* bound: consecutive losses or replies
          MaxLevel      \* bound: times the breaker trips between two resets

Cfg == [fail : Nat \ {0}, recover : Nat \ {0},   \* validate(): both at least 1
        window : Nat, flap : Nat,
        base : 0..MaxDuration, max : 0..MaxDuration]

ASSUME TrackerAssumption == /\ MaxDuration \in Nat \ {0}
                            /\ MaxTime \in Nat \ {0} /\ MaxStreak \in Nat /\ MaxLevel \in Nat
                            /\ Cfgs \subseteq Cfg

VARIABLES now, cfg, health, consecLoss, consecOK, cleanSince,
          failures, quarantineUntil, quarantineLevel,
          downs,     \* history: every condemnation since the breaker was reset
          steady     \* history: no Retune since then

streakVars == <<health, consecLoss, consecOK, cleanSince>>
breakerVars == <<failures, quarantineUntil, quarantineLevel, downs, steady>>
trackerVars == <<now, cfg, streakVars, breakerVars>>

TrackerInit ==
    /\ now = 1 /\ cfg \in Cfgs
    /\ health = "unknown" /\ consecLoss = 0 /\ consecOK = 0 /\ cleanSince = 0
    /\ failures = <<>> /\ quarantineUntil = 0 /\ quarantineLevel = 0
    /\ downs = <<>> /\ steady = TRUE

-----------------------------------------------------------------------------
(* The cooldown at level n before it is clamped: doubled with a ceiling    *)
(* and a stop short of overflow.                                           *)
Doubled(c) ==
    LET d[n \in Nat] ==
            IF n = 0 THEN c.base
            ELSE LET p == d[n - 1]
                 IN  IF (c.max > 0 /\ p >= c.max) \/ p > MaxDuration \div 2
                     THEN p ELSE 2 * p
    IN  d

(* Faulty: the cooldown is shifted left, in the width of a duration.       *)
CooldownShifted(c, n) ==
    LET s[k \in Nat] == IF k = 0 THEN c.base ELSE (2 * s[k - 1]) % (MaxDuration + 1)
    IN  IF c.max > 0 /\ s[n] > c.max THEN c.max ELSE s[n]

(* Faulty: a cooldown past the maximum starts over at the base.            *)
CooldownRestarts(c, n) ==
    LET u == Doubled(c)[n]
    IN  IF c.max > 0 /\ u > c.max THEN c.base ELSE u

(* The cooldown imposed at level n: at most max where there is one, at     *)
(* least base.                                                             *)
Cooldown(c, n) ==
    LET u == Doubled(c)[n]
        m == IF c.max > 0 /\ u > c.max THEN c.max ELSE u
    IN  IF m < c.base THEN c.base ELSE m

(* Faulty: the window starts at its edge's far side, failures are dropped  *)
(* one tick early.                                                         *)
InWindowShort(f) == f > now - cfg.window + 1

InWindow(f) == f > now - cfg.window

(* What the loop over the failures s keeps.                                *)
Kept(s) ==
    LET kept[i \in 0..Len(s)] ==
            IF i = 0 THEN <<>>
            ELSE IF InWindow(s[i]) THEN Append(kept[i - 1], s[i]) ELSE kept[i - 1]
    IN  kept[Len(s)]

RecordFailure ==
    LET kept == Kept(Append(failures, now))
    IN  IF cfg.flap > 0 /\ Len(kept) >= cfg.flap
        THEN /\ quarantineUntil' = now + Cooldown(cfg, quarantineLevel)
             /\ quarantineLevel' = quarantineLevel + 1
             /\ failures' = <<>>
             /\ downs' = <<>> /\ steady' = TRUE
        ELSE /\ failures' = kept
             /\ downs' = Append(downs, now)
             /\ UNCHANGED <<quarantineUntil, quarantineLevel, steady>>

-----------------------------------------------------------------------------
(* Observe, the result a loss.                                             *)
ObserveLoss ==
    LET h == IF health = "up" THEN "suspect" ELSE health
        condemned == consecLoss + 1 >= cfg.fail /\ h # "down"
    IN  /\ consecLoss < MaxStreak /\ quarantineLevel < MaxLevel
        /\ consecLoss' = consecLoss + 1 /\ consecOK' = 0 /\ cleanSince' = 0
        /\ health' = IF condemned THEN "down" ELSE h
        /\ IF condemned THEN RecordFailure ELSE UNCHANGED breakerVars
        /\ UNCHANGED <<now, cfg>>

(* Observe, the result a reply.                                            *)
ObserveReply ==
    LET recovered == health # "up" /\ consecOK + 1 >= cfg.recover
    IN  /\ consecOK < MaxStreak
        /\ consecOK' = consecOK + 1 /\ consecLoss' = 0
        /\ health' = CASE recovered -> "up"
                       [] ~recovered /\ health = "unknown" -> "suspect"
                       [] OTHER -> health
        /\ cleanSince' = IF recovered THEN now ELSE cleanSince
        /\ UNCHANGED <<now, cfg, breakerVars>>

(* Retune keeps health, streaks and the breaker.                           *)
Retune ==
    /\ cfg' \in Cfgs \ {cfg}
    /\ steady' = FALSE
    /\ UNCHANGED <<now, streakVars, failures, quarantineUntil, quarantineLevel,
                   downs>>

ClearQuarantine ==
    /\ failures' = <<>> /\ quarantineUntil' = 0 /\ quarantineLevel' = 0
    /\ downs' = <<>> /\ steady' = TRUE
    /\ UNCHANGED <<now, cfg, streakVars>>

Tick ==
    /\ now < MaxTime
    /\ now' = now + 1
    /\ UNCHANGED <<cfg, streakVars, breakerVars>>

TrackerNext == ObserveLoss \/ ObserveReply \/ Retune \/ ClearQuarantine \/ Tick

TrackerSpec == TrackerInit /\ [][TrackerNext]_trackerVars

-----------------------------------------------------------------------------
(* Types of the tracker's state (Tracker).                                 *)
TrackerTypes ==
    /\ now \in Nat \ {0} /\ cfg \in Cfgs
    /\ health \in {"unknown", "up", "suspect", "down"}
    /\ consecLoss \in Nat /\ consecOK \in Nat
    /\ cleanSince \in 0..now
    /\ failures \in Seq(1..now) /\ downs \in Seq(1..now)
    /\ quarantineUntil \in Nat /\ quarantineLevel \in Nat
    /\ steady \in BOOLEAN

(* The clean streak failback waits for runs exactly while the path is up,  *)
(* so CleanFor is never the age of a streak a loss has ended, and a path   *)
(* that has just come up starts at zero (Observe).                         *)
CleanIffUp == /\ (cleanSince # 0) <=> (health = "up")
              /\ consecLoss = 0 \/ consecOK = 0

(* The breaker catches every flapping path: with thresholds unchanged, the *)
(* path is never condemned FlapThreshold times within FlapWindowSec        *)
(* without having been quarantined (recordFailure's pruning).              *)
FlapsAreCaught ==
    (steady /\ cfg.flap > 0) =>
        \A i \in 1..Len(downs) :
            i + cfg.flap - 1 <= Len(downs) =>
                downs[i + cfg.flap - 1] - downs[i] >= cfg.window

(* A cooldown is never shorter than the configured base nor longer than    *)
(* the configured maximum, however far the level has grown: doubling never *)
(* overflows into a cooldown of zero (recordFailure).                      *)
CooldownInRange ==
    [][quarantineLevel' = quarantineLevel + 1 =>
          LET d == quarantineUntil' - now
          IN  /\ d >= cfg.base
              /\ (cfg.max >= cfg.base /\ cfg.max > 0) => d <= cfg.max]_trackerVars

(* A further failure never releases a path sooner than it was already to   *)
(* be released: with thresholds unchanged, cooldowns do not shrink as the  *)
(* level grows.                                                            *)
NeverReleasedSooner ==
    [][(quarantineLevel' > quarantineLevel /\ steady /\ cfg' = cfg) =>
          quarantineUntil' >= quarantineUntil]_trackerVars
=============================================================================
