--------------------------- MODULE SelectionProofs ---------------------------
(***************************************************************************)
(* Proofs about Selection for any paths, scores, limits and clocks: what   *)
(* may move the traffic, what must, and what never may.                    *)
(***************************************************************************)
EXTENDS Selection, WellFoundedInduction, TLAPS

Clock(most) == 0..most \cup {Never}
Grants == [left : Nat, extra : Nat, start : Nat] \cup {None}

Typed ==
  /\ active \in Paths \cup {0} /\ pinned \in Paths \cup {0} /\ choice \in Paths \cup {0}
  /\ pc \in {"idle", "refresh", "decided"}
  /\ beatenSince \in Clock(Hold) /\ beatenFrom \in Clock(Hold)
  /\ lastSwitch \in Clock(Dwell) /\ moved \in Clock(Dwell)
  /\ clean \in [Paths -> Clock(Hold)] /\ score \in [Paths -> Scores]
  /\ used \in [Paths -> Nat] /\ grant \in [Paths -> Grants]

-----------------------------------------------------------------------------
(* The choices the code makes by walking a list in order exist.            *)

(* A set of numbers that is not empty has a least one.                     *)
LEMMA LeastExists ==
  ASSUME NEW S \in SUBSET Nat, S # {}
  PROVE  \E x \in S : \A y \in S : x <= y
  <1>1. PICK x \in S : \A y \in S : ~ (<<y, x>> \in OpToRel(<, Nat))
    BY NatLessThanWellFounded, WFMin
  <1>2. ASSUME NEW y \in S PROVE x <= y
    <2>1. ~ (<<y, x>> \in {ss \in Nat \X Nat : ss[1] < ss[2]})
      BY <1>1 DEF OpToRel
    <2> QED
      BY <2>1
  <1> QED
    BY <1>2

LEMMA MinIsLeast ==
  ASSUME NEW S \in SUBSET Nat, S # {}
  PROVE  Min(S) \in S /\ \A y \in S : Min(S) <= y
  BY LeastExists DEF Min

LEMMA EligibleAre == Eligible \subseteq Paths \ Disabled
  <1>1. \A p \in Disabled : Block(p) = "disabled"
    BY DEF Block
  <1> QED
    BY <1>1 DEF Eligible

(* The best score, and among equals the most preferred path.               *)
LEMMA BestScoreIs == ASSUME Typed, Eligible # {} PROVE BestScore \in Eligible
  <1>1. Eligible \subseteq Paths /\ \A p \in Eligible : p \in Nat /\ score[p] \in Nat
    BY EligibleAre, SelectionAssumption DEF Typed
  <1> DEFINE S == {score[p] : p \in Eligible}
  <1>2. S \in SUBSET Nat /\ S # {}
    BY <1>1
  <1>3. PICK least \in S : \A y \in S : least <= y
    BY <1>2, LeastExists
  <1> DEFINE T == {p \in Eligible : score[p] = least}
  <1>4. T \in SUBSET Nat /\ T # {}
    BY <1>1
  <1>5. PICK p \in T : \A q \in T : p <= q
    BY <1>4, LeastExists
  <1>6. \A q \in Eligible : score[p] < score[q] \/ (score[p] = score[q] /\ p <= q)
    BY <1>1, <1>3, <1>5
  <1> QED
    BY <1>5, <1>6 DEF BestScore

LEMMA TargetIs == ASSUME Typed, Eligible # {} PROVE Target \in Eligible
  <1>1. Eligible \in SUBSET Nat
    BY EligibleAre, SelectionAssumption
  <1> QED
    BY <1>1, MinIsLeast, BestScoreIs DEF Target, QualityTarget

(* The preferred path is the least of the enabled ones.                    *)
LEMMA PreferredIs == \A p \in Eligible : PreferredPathID <= p /\ PreferredPathID \in Paths
  <1> SUFFICES ASSUME NEW p \in Eligible
               PROVE  PreferredPathID <= p /\ PreferredPathID \in Paths
    OBVIOUS
  <1>1. Paths \ Disabled \in SUBSET Nat /\ p \in Paths \ Disabled
    BY EligibleAre, SelectionAssumption
  <1> QED
    BY <1>1, MinIsLeast DEF PreferredPathID

-----------------------------------------------------------------------------
(* What a decision may choose.                                             *)

LEMMA DecideChooses ==
  ASSUME Typed, Decide
  PROVE  choice' \in {0, pinned} \cup Eligible
  <1>1. choice' \in {0, pinned, active, Target}
    BY DEF Decide
  <1>2. choice' \notin {0, pinned} => Eligible # {}
    BY DEF Decide, Beaten, Contested
  <1>3. choice' = active => active \in {0, pinned} \cup Eligible \/ choice' = Target
    BY DEF Decide, Beaten, Contested
  <1> QED
    BY <1>1, <1>2, <1>3, TargetIs

(* Only a decision decides.                                                *)
LEMMA DecidingIs == Next /\ Deciding => Decide
  <1> SUFFICES ASSUME Next, pc = "idle", pc' = "decided" PROVE Decide
    BY DEF Deciding
  <1> QED
    BY DEF Next, RunRefreshStarts, RunRefreshFails, RunRefreshEnds, Commit, InstallFails, Approve,
       RevokeApproval, RequestEnds, Pin, ClearQuarantine, Observed, Measured, Used, PeriodEnds, Tick

(* Every step keeps the types.                                             *)
LEMMA TypedStep == Typed /\ [Next]_vars => Typed'
  <1> SUFFICES ASSUME Typed, [Next]_vars PROVE Typed'
    OBVIOUS
  <1> USE SelectionAssumption DEF facts, quotas, choices, counts
  <1>1. ASSUME \/ RunRefreshStarts \/ RunRefreshFails \/ InstallFails \/ RequestEnds
               \/ \E bad \in SUBSET Metered : RunRefreshEnds(bad)
        PROVE  Typed'
    BY <1>1 DEF RunRefreshStarts, RunRefreshFails, InstallFails, RequestEnds, RunRefreshEnds, Typed
  <1>2. CASE Decide
    <2>1. choice' \in Paths \cup {0} /\ pc' = "decided"
      BY <1>2, DecideChooses, EligibleAre DEF Typed, Decide
    <2>2. beatenSince' \in Clock(Hold)
      BY <1>2 DEF Decide, BeatenClock, Clock, Typed
    <2>3. beatenFrom' \in Clock(Hold)
      BY <1>2 DEF Decide, Clock, Typed
    <2>4. UNCHANGED <<facts, quotas, active, pinned, lastSwitch, moved>>
      BY <1>2 DEF Decide
    <2> QED
      BY <2>1, <2>2, <2>3, <2>4 DEF Typed
  <1>3. CASE Commit
    BY <1>3 DEF Commit, CommitSwitch, Clock, Typed
  <1>4. ASSUME NEW p \in Metered, NEW dur \in 1..2, NEW extra \in 0..1, Approve(p, dur, extra)
        PROVE  Typed'
    BY <1>4 DEF Approve, Grants, Typed
  <1>5. ASSUME NEW p \in Metered, RevokeApproval(p) PROVE Typed'
    BY <1>5 DEF RevokeApproval, Grants, Typed
  <1>6. ASSUME NEW p \in Metered, PeriodEnds(p) \/ Used(p) PROVE Typed'
    BY <1>6 DEF PeriodEnds, Used, Typed
  <1>7. ASSUME NEW p \in Paths \cup {0}, Pin(p) PROVE Typed'
    BY <1>7 DEF Pin, Typed
  <1>8. ASSUME NEW p \in Paths, ClearQuarantine(p) \/ \E v \in Kinds : Observed(p, v) PROVE Typed'
    BY <1>8 DEF ClearQuarantine, Observed, Clock, Typed
  <1>9. ASSUME NEW p \in Paths \ {PreferredPathID}, NEW s \in Scores, Measured(p, s) PROVE Typed'
    BY <1>9 DEF Measured, Typed
  <1>10. CASE Tick
    <2>1. /\ \A t \in Clock(Hold) : Older(t, Hold) \in Clock(Hold)
          /\ \A t \in Clock(Dwell) : Older(t, Dwell) \in Clock(Dwell)
      BY DEF Clock, Older
    <2>2. \A p \in Paths : grant'[p] \in Grants
      BY <1>10 DEF Tick, Grants, Typed
    <2> QED
      BY <1>10, <2>1, <2>2 DEF Tick, Typed
  <1>11. CASE UNCHANGED vars
    BY <1>11 DEF vars, Typed
  <1> QED
    BY <1>1, <1>2, <1>3, <1>4, <1>5, <1>6, <1>7, <1>8, <1>9, <1>10, <1>11 DEF Next

LEMMA TypedInit == Init => Typed
  <1> SUFFICES ASSUME Init PROVE Typed
    OBVIOUS
  <1>1. Max(Scores) \in Scores
    BY SelectionAssumption DEF Max
  <1>2. score \in [Paths -> Scores] /\ clean \in [Paths -> Clock(Hold)]
    BY <1>1, SelectionAssumption DEF Init, Clock
  <1>3. grant \in [Paths -> Grants] /\ used \in [Paths -> Nat]
    <2>1. [left |-> 1, extra |-> 0, start |-> 0] \in Grants /\ None \in Grants
      BY DEF Grants
    <2> QED
      BY <2>1 DEF Init
  <1> QED
    BY <1>2, <1>3, SelectionAssumption DEF Init, Typed, Clock

-----------------------------------------------------------------------------
(* Quota.                                                                  *)

(* A verdict against a path stands while its use grows and its approval    *)
(* runs out.                                                               *)
LEMMA OverGrows ==
  ASSUME NEW p, NEW u \in Nat, NEW v \in Nat, u <= v, NEW g \in Grants, Evaluate(p, u, g)
  PROVE  Evaluate(p, v, g)
  <1>1. p \in Metered /\ Limit > 0 /\ Limit \in Nat /\ Ceiling \in Nat
    BY SelectionAssumption DEF Evaluate
  <1>2. CASE Ceiling > 0 /\ u >= Ceiling
    BY <1>1, <1>2 DEF Evaluate
  <1>3. CASE u >= Limit /\ ~Live(g, u)
    <2>1. v >= Limit
      BY <1>1, <1>3
    <2>2. ~Live(g, v)
      BY <1>3 DEF Live, Grants
    <2> QED
      BY <1>1, <2>1, <2>2 DEF Evaluate
  <1> QED
    BY <1>2, <1>3 DEF Evaluate

LEMMA OverAges ==
  ASSUME NEW p, NEW u \in Nat, NEW g \in Grants, Evaluate(p, u, g), g # None, g.left > 0
  PROVE  Evaluate(p, u, [g EXCEPT !.left = @ - 1])
  <1> DEFINE h == [g EXCEPT !.left = @ - 1]
  <1>1. g \in [left : Nat, extra : Nat, start : Nat]
    BY DEF Grants
  <1>2. h.left = g.left - 1 /\ h.extra = g.extra /\ h.start = g.start
    BY <1>1
  <1>3. ~Live(g, u) => ~Live(h, u)
    BY <1>1, <1>2 DEF Live
  <1> QED
    BY <1>3 DEF Evaluate

(* A settled path is blocked and over its limit, and a refresh under way   *)
(* will find so or keep the verdict it read.                               *)
Settled ==
  /\ settled \subseteq Paths
  /\ \A p \in settled :
       /\ dec[p] /\ Over(p)
       /\ pc = "refresh" => run.previous[p] /\ Evaluate(p, used[p], run.grants[p])
  /\ pc = "refresh" => run.grants \in [Paths -> Grants]

LEMMA SettledStep == Typed /\ Settled /\ [Next]_vars => Settled'
  <1> SUFFICES ASSUME Typed, Settled, [Next]_vars PROVE Settled'
    OBVIOUS
  <1> USE DEF facts, quotas, choices, counts
  <1>1. CASE RunRefreshStarts
    <2>1. /\ run'.grants = grant /\ run'.previous = dec
          /\ UNCHANGED <<used, grant, dec, settled>>
      BY <1>1 DEF RunRefreshStarts, Reads
    <2> QED
      BY <2>1 DEF Settled, Over, Typed
  <1>2. ASSUME NEW bad \in SUBSET Metered, RunRefreshEnds(bad) PROVE Settled'
    <2>1. /\ pc = "refresh" /\ pc' = "idle" /\ UNCHANGED <<used, grant>>
          /\ dec' = Decisions(run, bad)
          /\ settled' = settled \cup {p \in Paths \ bad :
                                    req = None /\ run.grants[p] = grant[p] /\ Over(p)}
      BY <1>2 DEF RunRefreshEnds
    <2>2. ASSUME NEW p \in settled' PROVE p \in Paths /\ dec'[p] /\ Over(p)'
      <3>1. p \in Paths /\ Over(p)
        BY <2>1, <2>2 DEF Settled
      <3>2. dec'[p] = IF p \in bad THEN run.previous[p] ELSE Evaluate(p, used[p], run.grants[p])
        BY <2>1, <3>1 DEF Decisions
      <3>3. Over(p)'
        BY <2>1, <3>1 DEF Over
      <3>4. CASE p \in settled
        BY <2>1, <3>1, <3>2, <3>3, <3>4, Zenon DEF Settled
      <3>5. CASE p \notin settled
        BY <2>1, <2>2, <3>1, <3>2, <3>3, <3>5, Zenon DEF Over
      <3> QED
        BY <3>4, <3>5
    <2>3. settled' \subseteq Paths
      BY <2>2
    <2> QED
      BY <2>1, <2>2, <2>3 DEF Settled
  <1>3. CASE RequestEnds
    <2>1. settled' = {} /\ UNCHANGED <<pc, run>>
      BY <1>3 DEF RequestEnds
    <2> QED
      BY <2>1 DEF Settled
  <1>4. ASSUME NEW p \in Metered, NEW dur \in 1..2, NEW extra \in 0..1, Approve(p, dur, extra)
        PROVE  Settled'
    BY <1>4 DEF Approve, Settled
  <1>5. ASSUME NEW p \in Metered, RevokeApproval(p) PROVE Settled'
    BY <1>5 DEF RevokeApproval, Settled
  <1>6. ASSUME NEW p \in Metered, Used(p) PROVE Settled'
    <2>1. /\ used' = [used EXCEPT ![p] = @ + 1]
          /\ UNCHANGED <<grant, dec, pc, run, settled>>
      BY <1>6 DEF Used
    <2>2. \A q \in Paths : used[q] \in Nat /\ used'[q] \in Nat /\ used[q] <= used'[q]
      BY <2>1 DEF Typed
    <2>3. ASSUME NEW q \in settled
          PROVE  Over(q)' /\ (pc = "refresh" => Evaluate(q, used'[q], run.grants[q]))
      BY <2>1, <2>2, OverGrows DEF Settled, Over, Typed
    <2> QED
      BY <2>1, <2>3 DEF Settled
  <1>7. ASSUME NEW p \in Metered, PeriodEnds(p) PROVE Settled'
    <2>1. /\ used' = [used EXCEPT ![p] = 0] /\ settled' = settled \ {p}
          /\ UNCHANGED <<grant, dec, pc, run>>
      BY <1>7 DEF PeriodEnds
    <2>2. \A q \in settled' : q \in settled /\ used'[q] = used[q]
      BY <2>1 DEF Typed, Settled
    <2> QED
      BY <2>1, <2>2 DEF Settled, Over
  <1>8. CASE Tick
    <2>1. /\ pc = "idle" /\ UNCHANGED <<used, dec, pc, settled>>
          /\ grant' = [p \in Paths |-> IF grant[p] # None /\ grant[p].left > 0
                                     THEN [grant[p] EXCEPT !.left = @ - 1] ELSE grant[p]]
      BY <1>8 DEF Tick
    <2>2. ASSUME NEW p \in settled PROVE Over(p)'
      <3>1. p \in Paths /\ Evaluate(p, used[p], grant[p])
        BY DEF Settled, Over
      <3>2. used[p] \in Nat /\ grant[p] \in Grants
        BY <3>1 DEF Typed
      <3> QED
        BY <2>1, <3>1, <3>2, OverAges DEF Over
    <2> QED
      BY <2>1, <2>2 DEF Settled
  <1>9. ASSUME \/ RunRefreshFails \/ Decide \/ Commit \/ InstallFails
               \/ \E p \in Paths \cup {0} : Pin(p)
               \/ \E p \in Paths : ClearQuarantine(p) \/ \E v \in Kinds : Observed(p, v)
               \/ \E p \in Paths \ {PreferredPathID}, s \in Scores : Measured(p, s)
               \/ UNCHANGED vars
        PROVE  Settled'
    <2>1. UNCHANGED <<used, grant, dec, run, settled>> /\ (pc' = "refresh" => pc = "refresh")
      BY <1>9 DEF RunRefreshFails, Decide, Commit, InstallFails, Pin, ClearQuarantine, Observed,
                  Measured, vars
    <2> QED
      BY <2>1 DEF Settled, Over
  <1> QED
    BY <1>1, <1>2, <1>3, <1>4, <1>5, <1>6, <1>7, <1>8, <1>9 DEF Next

(* A path found over its quota is not chosen, through refreshes that fail, *)
(* approvals that run out and requests in between, for any limits and      *)
(* paths (refreshQuota, evaluate).                                         *)
THEOREM QuotaHolds == Spec => QuotaEnforced
  <1>1. Init => Typed /\ Settled
    BY TypedInit DEF Init, Settled
  <1>2. Typed /\ Settled /\ [Next]_vars => (Typed /\ Settled)'
    BY TypedStep, SettledStep
  <1>3. Typed /\ Settled /\ [Next]_vars
          => [Deciding /\ choice' \notin {0, pinned} => choice' \notin settled]_vars
    <2> SUFFICES ASSUME Typed, Settled, Next, Deciding, choice' \notin {0, pinned}
                 PROVE  choice' \notin settled
      OBVIOUS
    <2>1. Decide
      BY DecidingIs
    <2>2. choice' \in Eligible
      BY <2>1, DecideChooses
    <2>3. \A p : Block(p) = "none" => ~dec[p]
      BY DEF Block
    <2> QED
      BY <2>2, <2>3 DEF Eligible, Settled
  <1> QED
    BY <1>1, <1>2, <1>3, PTL DEF Spec, QuotaEnforced

-----------------------------------------------------------------------------
(* The clocks.                                                             *)

(* The engine's own record of the last switch is when the traffic moved,   *)
(* and its clock of the beaten path is at least as old as the streak of    *)
(* decisions that found it beaten.                                         *)
Clocks ==
  /\ lastSwitch = moved
  /\ beatenFrom # Never => beatenSince # Never /\ beatenFrom <= beatenSince

(* What a decision does when the active path is beaten.                    *)
LEMMA BeatenDecides ==
  ASSUME Typed, Decide, Beaten
  PROVE  /\ beatenSince' = BeatenClock
         /\ choice' = (IF Displaced THEN Target ELSE active)
         /\ beatenFrom' = IF beatenFrom = Never THEN 0 ELSE beatenFrom
  <1>1. /\ pinned = 0 /\ quality /\ active \in Eligible /\ active # 0
        /\ Target # active /\ Target # PreferredPathID /\ Eligible # {}
    BY EligibleAre, SelectionAssumption DEF Beaten, Contested
  <1>2. beatenFrom' = IF beatenFrom = Never THEN 0 ELSE beatenFrom
    BY DEF Decide
  <1>3. beatenSince' = BeatenClock /\ choice' = (IF Displaced THEN Target ELSE active)
    BY <1>1 DEF Decide
  <1> QED
    BY <1>2, <1>3

LEMMA ClocksStep == Typed /\ Clocks /\ [Next]_vars => Clocks'
  <1> SUFFICES ASSUME Typed, Clocks, [Next]_vars PROVE Clocks'
    OBVIOUS
  <1>1. CASE Decide
    <2>1. UNCHANGED <<lastSwitch, moved>>
      BY <1>1 DEF Decide
    <2>2. CASE Beaten
      <3>1. beatenSince' = BeatenClock /\ beatenFrom' = IF beatenFrom = Never THEN 0 ELSE beatenFrom
        BY <1>1, <2>2, BeatenDecides
      <3> QED
        BY <2>1, <3>1, SelectionAssumption DEF BeatenClock, Clocks, Typed, Clock
    <2>3. CASE ~Beaten
      <3>1. beatenFrom' = Never
        BY <1>1, <2>3 DEF Decide
      <3> QED
        BY <2>1, <3>1 DEF Clocks
    <2> QED
      BY <2>2, <2>3
  <1>2. CASE Commit
    BY <1>2 DEF Commit, CommitSwitch, Clocks
  <1>3. CASE Tick
    <2>1. \A a \in 0..Hold, b \in 0..Hold : a <= b => Older(a, Hold) <= Older(b, Hold)
      BY SelectionAssumption DEF Older
    <2>2. \A a \in Clock(Hold) : Older(a, Hold) = Never <=> a = Never
      BY SelectionAssumption DEF Older, Clock
    <2> QED
      BY <1>3, <2>1, <2>2 DEF Tick, Clocks, Typed, Clock
  <1>4. ASSUME \/ RunRefreshStarts \/ RunRefreshFails \/ InstallFails \/ RequestEnds
               \/ \E bad \in SUBSET Metered : RunRefreshEnds(bad)
               \/ \E p \in Metered : \/ \E dur \in 1..2, extra \in 0..1 : Approve(p, dur, extra)
                                     \/ RevokeApproval(p) \/ PeriodEnds(p) \/ Used(p)
               \/ \E p \in Paths \cup {0} : Pin(p)
               \/ \E p \in Paths : ClearQuarantine(p) \/ \E v \in Kinds : Observed(p, v)
               \/ \E p \in Paths \ {PreferredPathID}, s \in Scores : Measured(p, s)
               \/ UNCHANGED vars
        PROVE  Clocks'
    <2>1. UNCHANGED <<beatenSince, lastSwitch, beatenFrom, moved>>
      BY <1>4 DEF RunRefreshStarts, RunRefreshFails, InstallFails, RequestEnds, RunRefreshEnds,
         Approve, RevokeApproval, PeriodEnds, Used, Pin, ClearQuarantine, Observed, Measured, vars,
         choices
    <2> QED
      BY <2>1 DEF Clocks
  <1> QED
    BY <1>1, <1>2, <1>3, <1>4 DEF Next

LEMMA ClocksInv == Spec => [](Typed /\ Clocks)
  <1>1. Init => Typed /\ Clocks
    BY TypedInit DEF Init, Clocks
  <1>2. Typed /\ Clocks /\ [Next]_vars => (Typed /\ Clocks)'
    BY TypedStep, ClocksStep
  <1> QED
    BY <1>1, <1>2, PTL DEF Spec

(* A working path is left only for a more preferred one that kept clean    *)
(* through the hold-down or, between fallbacks, for one that beats it by   *)
(* the margin after the dwell, for any paths, scores, margin and clocks    *)
(* (selectPath).                                                           *)
THEOREM LeavingHasAReason == Spec => LeavesForAReason
  <1> DEFINE Reason ==
        \/ /\ choice' < active
           /\ Hold > 0 => clean[choice'] # Never /\ clean[choice'] >= Hold
           /\ quality => choice' = PreferredPathID
        \/ /\ quality /\ PreferredPathID \notin {active, choice'}
           /\ choice' \in Eligible /\ BeatsByMargin(choice', active)
           /\ moved = Never \/ moved >= Dwell
  <1>1. Typed /\ Clocks /\ [Next]_vars
          => [Deciding /\ pinned = 0 /\ active \in Eligible /\ choice' # active => Reason]_vars
    <2> SUFFICES ASSUME Typed, Clocks, Next, Deciding, pinned = 0, active \in Eligible,
                        choice' # active
                 PROVE  Reason
      OBVIOUS
    <2>1. Decide
      BY DecidingIs
    <2>2. active \in Nat \ {0} /\ Target \in Eligible /\ Target \in Paths /\ Target \in Nat
      BY EligibleAre, TargetIs, SelectionAssumption
    <2>3. CASE Beaten
      <3>1. choice' = Target /\ Displaced
        BY <2>1, <2>3, BeatenDecides
      <3>2. moved = Never \/ moved >= Dwell
        BY <3>1 DEF Displaced, Clocks
      <3>3. quality /\ Target # PreferredPathID /\ BeatsByMargin(Target, active)
        BY <2>3 DEF Beaten, Contested
      <3>4. active # PreferredPathID
        BY <3>3 DEF Target, QualityTarget
      <3> QED
        BY <2>2, <3>1, <3>2, <3>3, <3>4
    <2>4. CASE ~Beaten
      <3>1. /\ Target # active /\ (~quality \/ Target = PreferredPathID)
            /\ CleanFor(Target) >= Hold /\ choice' = Target
        BY <2>1, <2>2, <2>4 DEF Decide
      <3>2. Target <= active
        <4>1. Eligible \in SUBSET Nat
          BY EligibleAre, SelectionAssumption
        <4>2. CASE quality
          BY <3>1, <4>2, PreferredIs
        <4>3. CASE ~quality
          BY <4>1, <4>3, MinIsLeast DEF Target
        <4> QED
          BY <4>2, <4>3
      <3>3. Hold > 0 => clean[Target] # Never /\ clean[Target] >= Hold
        BY <3>1, SelectionAssumption DEF CleanFor
      <3> QED
        BY <2>2, <3>1, <3>2, <3>3
    <2> QED
      BY <2>3, <2>4
  <1> QED
    BY <1>1, ClocksInv, PTL DEF Spec, LeavesForAReason

(* A fallback beaten at every decision for the hold-down is left once the  *)
(* dwell is over, whoever beat it when, for any paths, scores and clocks   *)
(* (selectPath's beatenSince).                                             *)
THEOREM BeatenLeaves == Spec => BeatenIsLeft
  <1>1. Typed /\ Clocks /\ [Next]_vars
          => [Deciding /\ Beaten /\ choice' = active =>
                beatenFrom' < Hold \/ (moved # Never /\ moved < Dwell)]_vars
    <2> SUFFICES ASSUME Typed, Clocks, Next, Deciding, Beaten, choice' = active
                 PROVE  beatenFrom' < Hold \/ (moved # Never /\ moved < Dwell)
      OBVIOUS
    <2>1. /\ choice' = (IF Displaced THEN Target ELSE active)
          /\ beatenFrom' = IF beatenFrom = Never THEN 0 ELSE beatenFrom
      BY DecidingIs, BeatenDecides
    <2>2. ~Displaced
      BY <2>1 DEF Beaten, Contested
    <2> QED
      BY <2>1, <2>2, SelectionAssumption DEF Displaced, BeatenClock, Clocks, Typed, Clock
  <1> QED
    BY <1>1, ClocksInv, PTL DEF Spec, BeatenIsLeft
=============================================================================
