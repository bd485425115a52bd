------------------------------ MODULE Selection ------------------------------
(***************************************************************************)
(* Which path carries the traffic: the engine's evaluate and selectPath in *)
(* both selection modes, with the quota verdicts that block a path, the    *)
(* approvals and pins an operator sets against them, and the clocks that   *)
(* keep measurements from moving traffic too often.                        *)
(*                                                                         *)
(* Run's goroutine refreshes the verdicts on its sample ticker and decides *)
(* on its decide ticker; the portal's requests refresh them too, at any    *)
(* time beside it.  A refresh reads the grants, then the usage, and only   *)
(* then replaces the verdicts.  One tick of the clock is long enough for   *)
(* both of Run's tickers to fire.  A time is its age, counted up to the    *)
(* span it is compared with; an approval is the ticks it has left.         *)
(***************************************************************************)
EXTENDS Naturals, FiniteSets, FiniteSetsExt

CONSTANTS Paths,          \* path numbers; a smaller one is more preferred
          Disabled,       \* switched off in the settings
          Kinds,          \* verdicts of a tracker the instance tells apart
          Metered,        \* paths with a quota
          Limit, Ceiling, \* bytes; a ceiling of 0 is none
          MaxUsed,        \* bound: bytes used
          Scores,         \* what a path's measurements may score, 0 the best
          Margin,         \* percent by which a fallback has to be beaten
          Hold, Dwell,    \* HoldDownSec, MinDwellSec, in ticks
          Never,          \* a time not set
          MaxChanges, MaxEvents  \* bounds: changes of the facts; requests and errors

ASSUME SelectionAssumption ==
  /\ Paths \subseteq Nat \ {0} /\ Disabled \subseteq Paths /\ Metered \subseteq Paths
  /\ {"up", "down"} \subseteq Kinds
  /\ Kinds \subseteq {"up", "suspect", "down", "quarantined", "degraded"}
  /\ Scores \subseteq Nat /\ \E worst \in Scores : \A s \in Scores : worst >= s
  /\ Margin \in 0..100 /\ {Hold, Dwell, Limit, Ceiling} \subseteq Nat
  /\ Never \notin Nat

VARIABLES
  quality,      \* the selection mode
  verdict,      \* path -> what its tracker says
  clean,        \* path -> how long it is clean, or Never
  score,        \* path -> its score
  used, grant,  \* path -> the ledger's total, the approval in the store
  dec,          \* path -> e.quotaDec: blocked
  blocks,       \* path -> e.blocks
  active, pinned, beatenSince, lastSwitch,
  pc, choice,   \* Run: between its tickers, and what evaluate chose
  run, req,     \* a refresh under way in Run, in a request
  fired,        \* the tickers that fired since the clock moved
  changes, requests, errors,
  settled,      \* ghost: paths a refresh of Run found to be blocked, since when
                \* neither the facts changed nor a request intervened
  beatenFrom,   \* ghost: since when every decision found the active path beaten
  moved         \* ghost: when the traffic last moved

quotas == <<used, grant, dec>>
facts == <<verdict, clean, score>>
choices == <<active, pinned, beatenSince, lastSwitch>>
counts == <<changes, requests, errors>>
vars == <<quality, facts, quotas, blocks, choices, pc, choice, run, req, fired, counts,
          settled, beatenFrom, moved>>

None == [at |-> "none"]

PreferredPathID == Min(Paths \ Disabled)

(* After the first probes: the preferred path is in or out.  An approval   *)
(* of an earlier run is still in the store, or none is.                    *)
Init ==
  /\ quality \in BOOLEAN
  /\ verdict \in {[p \in Paths |-> IF p = PreferredPathID THEN v ELSE "up"] : v \in {"up", "down"}}
  /\ clean = [p \in Paths |-> IF verdict[p] = "up" THEN 0 ELSE Never]
  /\ score = [p \in Paths |-> Max(Scores)]
  /\ used = [p \in Paths |-> 0]
  /\ grant \in {[p \in Paths |-> IF p \in Metered THEN g ELSE None] :
                   g \in {None, [left |-> 1, extra |-> 0, start |-> 0]}}
  /\ dec = [p \in Paths |-> FALSE] /\ blocks = [p \in Paths |-> "none"]
  /\ active = 0 /\ pinned = 0 /\ beatenSince = Never /\ lastSwitch = Never
  /\ pc = "idle" /\ choice = 0 /\ run = None /\ req = None /\ fired = {}
  /\ changes = 0 /\ requests = 0 /\ errors = 0
  /\ settled = {} /\ beatenFrom = Never /\ moved = Never

-----------------------------------------------------------------------------
(* quota.Evaluate.                                                         *)

Live(g, u) == g # None /\ g.left > 0 /\ ~(g.extra > 0 /\ u >= g.start + g.extra)

Evaluate(p, u, g) ==
  p \in Metered /\ Limit > 0 /\ \/ Ceiling > 0 /\ u >= Ceiling
                                \/ u >= Limit /\ ~Live(g, u)

Over(p) == Evaluate(p, used[p], grant[p])

(* refreshQuota reads: the grants and the verdicts in force; then each     *)
(* path's usage, where a path whose total cannot be read keeps its         *)
(* previous verdict.                                                       *)
Reads == [at |-> "read", grants |-> grant, previous |-> dec]

(* A path whose total cannot be read is left out of the verdicts.          *)
OmitsUnread(r, bad) ==
  [p \in Paths |-> p \notin bad /\ Evaluate(p, used[p], r.grants[p])]

Decisions(r, bad) ==
  [p \in Paths |-> IF p \in bad THEN r.previous[p]
                   ELSE Evaluate(p, used[p], r.grants[p])]

RunRefreshStarts ==
  /\ pc = "idle" /\ "sample" \notin fired
  /\ pc' = "refresh" /\ run' = Reads /\ fired' = fired \cup {"sample"}
  /\ UNCHANGED <<quality, facts, quotas, blocks, choices, choice, req, counts, settled,
                 beatenFrom, moved>>

(* The grants cannot be read: the verdicts stay.                           *)
RunRefreshFails ==
  /\ pc = "idle" /\ "sample" \notin fired /\ requests + errors < MaxEvents
  /\ errors' = errors + 1 /\ fired' = fired \cup {"sample"}
  /\ UNCHANGED <<quality, facts, quotas, blocks, choices, pc, choice, run, req, changes,
                 requests, settled, beatenFrom, moved>>

RunRefreshEnds(bad) ==
  /\ pc = "refresh" /\ pc' = "idle" /\ run' = None
  /\ bad # {} => requests + errors + Cardinality(bad) <= MaxEvents
  /\ errors' = errors + Cardinality(bad)
  /\ dec' = Decisions(run, bad)
  /\ settled' = settled \cup {p \in Paths \ bad : req = None /\ run.grants[p] = grant[p] /\ Over(p)}
  /\ UNCHANGED <<quality, facts, used, grant, blocks, choices, choice, req, fired, changes,
                 requests, beatenFrom, moved>>

-----------------------------------------------------------------------------
(* evaluate and selectPath.                                                *)

Usable(p) == verdict[p] # "down"

Block(p) ==
  CASE p \in Disabled -> "disabled"
    [] p \notin Disabled /\ verdict[p] = "quarantined" -> "quarantine"
    [] p \notin Disabled /\ verdict[p] # "quarantined" /\ dec[p] -> "quota"
    [] p \notin Disabled /\ verdict[p] = "degraded" /\ ~dec[p] -> "degraded"
    [] OTHER -> "none"

Eligible == {p \in Paths : Usable(p) /\ Block(p) = "none"}

(* The measurements have a vote while the preferred path is in.            *)
BestScore ==
  CHOOSE p \in Eligible :
    \A q \in Eligible : score[p] < score[q] \/ (score[p] = score[q] /\ p <= q)

(* qualityTarget: the measurements have a vote only while it is out.       *)
QualityTarget ==
  IF PreferredPathID \in Eligible THEN PreferredPathID ELSE BestScore

Target == IF quality THEN QualityTarget ELSE Min(Eligible)

BeatsByMargin(c, i) == score[c] * 100 < score[i] * (100 - Margin)
CleanFor(p) == IF clean[p] = Never THEN 0 ELSE clean[p]

(* The clock of the beaten path starts again at every decision.            *)
RestartedClock == 0

BeatenClock == IF beatenSince = Never THEN 0 ELSE beatenSince

(* The measured comparison is reached: two working fallbacks, no pin.      *)
Contested ==
  /\ pinned = 0 /\ quality /\ active \in Eligible
  /\ Target \notin {active, PreferredPathID}
Beaten == Contested /\ BeatsByMargin(Target, active)

(* A fallback displaced by measurements: beaten for the hold-down, and not *)
(* within the dwell of the last switch.                                    *)
Displaced ==
  /\ BeatenClock >= Hold
  /\ lastSwitch = Never \/ lastSwitch >= Dwell

Decide ==
  /\ pc = "idle" /\ pc' = "decided" /\ fired' = fired \cup {"decide"}
  /\ blocks' = [p \in Paths |-> Block(p)]
  /\ beatenFrom' = IF ~Beaten THEN Never ELSE IF beatenFrom = Never THEN 0 ELSE beatenFrom
  /\ \/ pinned # 0 /\ choice' = pinned /\ UNCHANGED beatenSince
     \/ pinned = 0 /\ Eligible = {} /\ choice' = 0 /\ UNCHANGED beatenSince
     \/ /\ pinned = 0 /\ Eligible # {} /\ active = 0
        /\ choice' = Target /\ UNCHANGED beatenSince
     \/ /\ pinned = 0 /\ Eligible # {} /\ active # 0 /\ active \notin Eligible
        /\ choice' = Target /\ beatenSince' = Never
     \/ /\ pinned = 0 /\ active \in Eligible /\ Target = active
        /\ choice' = active /\ beatenSince' = Never
     \/ /\ pinned = 0 /\ active \in Eligible /\ Target # active
        /\ ~quality \/ Target = PreferredPathID
        /\ choice' = (IF CleanFor(Target) >= Hold THEN Target ELSE active)
        /\ beatenSince' = Never
     \/ Contested /\ ~Beaten /\ choice' = active /\ beatenSince' = Never
     \/ /\ Beaten /\ beatenSince' = BeatenClock
        /\ choice' = (IF Displaced THEN Target ELSE active)
  /\ UNCHANGED <<quality, facts, quotas, active, pinned, lastSwitch, run, req, counts,
                 settled, moved>>

(* The switch is committed once the route is installed, which may fail.    *)
(* The time of the switch is not recorded.                                 *)
SwitchUndated ==
  /\ active' = IF choice = 0 THEN active ELSE choice
  /\ UNCHANGED lastSwitch

CommitSwitch ==
  /\ active' = IF choice = 0 THEN active ELSE choice
  /\ lastSwitch' = IF choice \in {0, active} THEN lastSwitch ELSE 0

Commit ==
  /\ pc = "decided" /\ pc' = "idle" /\ choice' = 0 /\ CommitSwitch
  /\ moved' = IF active' = active THEN moved ELSE 0
  /\ beatenFrom' = IF active' = active THEN beatenFrom ELSE Never
  /\ UNCHANGED <<quality, facts, quotas, blocks, pinned, beatenSince, run, req, fired,
                 counts, settled>>

InstallFails ==
  /\ pc = "decided" /\ pc' = "idle" /\ choice \notin {0, active} /\ requests + errors < MaxEvents
  /\ errors' = errors + 1 /\ choice' = 0
  /\ UNCHANGED <<quality, facts, quotas, blocks, choices, run, req, fired, changes,
                 requests, settled, beatenFrom, moved>>

-----------------------------------------------------------------------------
(* Requests of the portal.                                                 *)

(* The total is read, then the grant is stored; the refresh follows, and   *)
(* reads the grants back.                                                  *)
Approve(p, dur, extra) ==
  /\ req = None /\ requests + errors < MaxEvents /\ requests' = requests + 1
  /\ grant' = [grant EXCEPT ![p] = [left |-> dur, extra |-> extra, start |-> used[p]]]
  /\ req' = [Reads EXCEPT !.grants = grant'] /\ settled' = {}
  /\ UNCHANGED <<quality, facts, used, dec, blocks, choices, pc, choice, run, fired,
                 changes, errors, beatenFrom, moved>>

RevokeApproval(p) ==
  /\ req = None /\ requests + errors < MaxEvents /\ grant[p] # None
  /\ requests' = requests + 1
  /\ grant' = [grant EXCEPT ![p] = None] /\ req' = [Reads EXCEPT !.grants = grant']
  /\ settled' = {}
  /\ UNCHANGED <<quality, facts, used, dec, blocks, choices, pc, choice, run, fired,
                 changes, errors, beatenFrom, moved>>

RequestEnds ==
  /\ req.at = "read" /\ dec' = Decisions(req, {}) /\ req' = None /\ settled' = {}
  /\ UNCHANGED <<quality, facts, used, grant, blocks, choices, pc, choice, run, fired,
                 counts, beatenFrom, moved>>

(* Refused for a path the last decision found over quota or disabled.      *)
Pin(p) ==
  /\ requests + errors < MaxEvents /\ requests' = requests + 1
  /\ p # 0 => blocks[p] \notin {"quota", "disabled"}
  /\ p # pinned /\ pinned' = p
  /\ UNCHANGED <<quality, facts, quotas, blocks, active, beatenSince, lastSwitch, pc,
                 choice, run, req, fired, changes, errors, settled, beatenFrom, moved>>

-----------------------------------------------------------------------------
(* The trackers, the ledger and the clock.                                 *)

ClearQuarantine(p) ==
  /\ requests + errors < MaxEvents /\ requests' = requests + 1
  /\ verdict[p] = "quarantined" /\ verdict' = [verdict EXCEPT ![p] = "up"]
  /\ UNCHANGED <<quality, clean, score, quotas, blocks, choices, pc, choice, run, req,
                 fired, changes, errors, settled, beatenFrom, moved>>

(* Probe results are taken by Run's own loop.                              *)
Observed(p, v) ==
  /\ pc = "idle" /\ changes < MaxChanges /\ changes' = changes + 1
  /\ v # verdict[p] /\ verdict' = [verdict EXCEPT ![p] = v]
  /\ clean' = [clean EXCEPT ![p] = IF v \in {"down", "suspect"} THEN Never ELSE IF @ = Never THEN 0 ELSE @]
  /\ UNCHANGED <<quality, score, quotas, blocks, choices, pc, choice, run, req, fired,
                 requests, errors, settled, beatenFrom, moved>>

(* The preferred path's score is never looked at.                          *)
Measured(p, s) ==
  /\ pc = "idle" /\ changes < MaxChanges /\ changes' = changes + 1
  /\ s # score[p] /\ score' = [score EXCEPT ![p] = s]
  /\ UNCHANGED <<quality, verdict, clean, quotas, blocks, choices, pc, choice, run, req,
                 fired, requests, errors, settled, beatenFrom, moved>>

Used(p) ==
  /\ p = active /\ p \in Metered /\ used[p] < MaxUsed
  /\ used' = [used EXCEPT ![p] = @ + 1]
  /\ UNCHANGED <<quality, facts, grant, dec, blocks, choices, pc, choice, run, req, fired,
                 counts, settled, beatenFrom, moved>>

(* The billing period ends: the total of the new one is empty.             *)
PeriodEnds(p) ==
  /\ changes < MaxChanges /\ changes' = changes + 1
  /\ used[p] > 0 /\ used' = [used EXCEPT ![p] = 0] /\ settled' = settled \ {p}
  /\ UNCHANGED <<quality, facts, grant, dec, blocks, choices, pc, choice, run, req, fired,
                 requests, errors, beatenFrom, moved>>

Older(t, most) == IF t = Never \/ t = most THEN t ELSE t + 1

Tick ==
  /\ pc = "idle" /\ fired = {"sample", "decide"} /\ fired' = {}
  /\ clean' = [p \in Paths |-> Older(clean[p], Hold)]
  /\ beatenSince' = Older(beatenSince, Hold) /\ beatenFrom' = Older(beatenFrom, Hold)
  /\ lastSwitch' = Older(lastSwitch, Dwell) /\ moved' = Older(moved, Dwell)
  /\ grant' = [p \in Paths |-> IF grant[p] # None /\ grant[p].left > 0
                              THEN [grant[p] EXCEPT !.left = @ - 1] ELSE grant[p]]
  /\ UNCHANGED <<quality, verdict, score, used, dec, blocks, active, pinned, pc, choice, run,
                 req, counts, settled>>

Next ==
  \/ RunRefreshStarts \/ RunRefreshFails \/ \E bad \in SUBSET Metered : RunRefreshEnds(bad)
  \/ Decide \/ Commit \/ InstallFails
  \/ \E p \in Metered : \/ \E dur \in 1..2, extra \in 0..1 : Approve(p, dur, extra)
                        \/ RevokeApproval(p) \/ PeriodEnds(p) \/ Used(p)
  \/ RequestEnds
  \/ \E p \in Paths \cup {0} : Pin(p)
  \/ \E p \in Paths : \/ ClearQuarantine(p)
                      \/ \E v \in Kinds : Observed(p, v)
  \/ \E p \in Paths \ {PreferredPathID}, s \in Scores : Measured(p, s)
  \/ Tick

Spec == Init /\ [][Next]_vars

-----------------------------------------------------------------------------
(* Properties.                                                             *)

TypeOK ==
  /\ {active, pinned, choice} \subseteq Paths \cup {0}
  /\ {beatenSince, beatenFrom} \subseteq 0..Hold \cup {Never}
  /\ {lastSwitch, moved} \subseteq 0..Dwell \cup {Never}
  /\ verdict \in [Paths -> Kinds] /\ score \in [Paths -> Scores]
  /\ used \in [Paths -> 0..MaxUsed] /\ dec \in [Paths -> BOOLEAN]

(* A working path is left for a reason (selectPath): a pin; the return to  *)
(* a more preferred one that has been clean for the whole hold-down; or,   *)
(* in quality mode and never off the preferred path, another fallback that *)
(* beats it by the margin, no sooner than the dwell after the last switch. *)
Deciding == pc = "idle" /\ pc' = "decided"

LeavesForAReason ==
  [][Deciding /\ pinned = 0 /\ active \in Eligible /\ choice' # active =>
       \/ /\ choice' < active
          /\ Hold > 0 => clean[choice'] # Never /\ clean[choice'] >= Hold
          /\ quality => choice' = PreferredPathID
       \/ /\ quality /\ PreferredPathID \notin {active, choice'}
          /\ choice' \in Eligible /\ BeatsByMargin(choice', active)
          /\ moved = Never \/ moved >= Dwell]_vars

(* A fallback beaten by the margin at every decision of a whole hold-down  *)
(* is left, once the dwell has passed, even when different challengers     *)
(* took turns in beating it (selectPath's beatenSince).                    *)
BeatenIsLeft ==
  [][Deciding /\ Beaten /\ choice' = active =>
       beatenFrom' < Hold \/ (moved # Never /\ moved < Dwell)]_vars

(* Quota is enforced: once a refresh has found a path over its limit with  *)
(* no live approval, or past its ceiling, no decision sends traffic to it, *)
(* through later refreshes that cannot read the store as well, unless it   *)
(* is the path the operator pinned.                                        *)
QuotaEnforced ==
  [][Deciding /\ choice' \notin {0, pinned} => choice' \notin settled]_vars

=============================================================================
