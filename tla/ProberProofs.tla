---------------------------- MODULE ProberProofs ----------------------------
(* What the probers establish and what the trackers make of it: a prober   *)
(* generation is safe for every seed, bound and network, and the streaks   *)
(* and the breaker that its results feed, for every setting and history.   *)
EXTENDS Prober, Tracker, WellFoundedInduction, TLAPS

-----------------------------------------------------------------------------
(* The prober.                                                             *)

(* What delivery rests on besides the properties themselves: deliver never *)
(* passes the next sequence to be used, the result in hand is the one just *)
(* below deliver, everything already on the channel is below both, and a   *)
(* refused probe has not been emitted.                                     *)
Bounds == Seed < deliver /\ deliver <= seq + 1

RefusedInv == pc = "refused" => deliver <= seq

HandInv ==
    pc = "emit" => inHand.seq + 1 = deliver /\ Seed < inHand.seq

OutInv ==
    \A i \in 1..Len(results) :
        /\ results[i].seq < deliver
        /\ pc = "emit" => results[i].seq < inHand.seq

IndInv ==
    /\ TypeOK /\ Bounds /\ NoProbeForgotten /\ RefusedInv
    /\ HandInv /\ OutInv /\ InOrderOnce

(* NewProber starts in the invariant: nothing used, nothing outstanding.   *)
LEMMA InitInd == Init => IndInv
<1> SUFFICES ASSUME Init PROVE IndInv
  OBVIOUS
<1> USE SeedAssumption DEF Init
<1>1. TypeOK
  <2>1. wire \subseteq Message({"probe", "reply"}, Nat)
    BY StaleAssumption DEF Message
  <2>2. inHand \in Result
    BY Zenon DEF Result
  <2>3. results \in Seq(Result) /\ taken \in 0..Len(results)
    OBVIOUS
  <2>4. nudge \in BOOLEAN /\ owed \in BOOLEAN /\ dead \in BOOLEAN /\ cancelled \in BOOLEAN
    BY Zenon
  <2>5. /\ \A s \in DOMAIN resolved : resolved[s] \in BOOLEAN
        /\ DOMAIN resolved \subseteq Nat
    OBVIOUS
  <2> QED BY <2>1, <2>2, <2>3, <2>4, <2>5 DEF TypeOK
<1>2. Bounds /\ NoProbeForgotten
  BY DEF Bounds, NoProbeForgotten
<1>3. RefusedInv /\ HandInv /\ OutInv /\ InOrderOnce
  BY DEF RefusedInv, HandInv, OutInv, InOrderOnce
<1> QED BY <1>1, <1>2, <1>3 DEF IndInv

(* markLost moves a set of sequences from pending to resolved.             *)
LEMMA MarkLostMoves ==
    ASSUME NEW S, MarkLost(S)
    PROVE  /\ DOMAIN pending' = DOMAIN pending \ S
           /\ DOMAIN resolved' = DOMAIN resolved \cup S
           /\ \A s \in DOMAIN pending' : pending'[s] = pending[s]
           /\ \A s \in DOMAIN resolved' :
                  resolved'[s] = IF s \in S THEN TRUE ELSE resolved[s]
  BY DEF MarkLost

(* Every step but these leaves seq, deliver, pending and resolved alone.   *)
BookStep ==
    \/ HoldElapses \/ Sweep \/ Book \/ WriteOk \/ WriteRefused \/ SendFailed
    \/ FlushTakes \/ FlushReturns \/ \E m \in wire : Resolve(m)

LEMMA OtherSteps ==
    ASSUME after # "refused", [Next]_vars
    PROVE  \/ BookStep
           \/ UNCHANGED <<seq, deliver, pending, resolved>> /\ (pc' = "refused" => pc = "refused")
  BY DEF Next, RunStep, ReaderStep, EngineStep, NetStep, BookStep, RunEnds,
     DialOpens, DialFails, HoldCancelled, TickSend, NudgeSend, Stop, LoopDone,
     Stopped, Emit, EmitGivesUp, ReaderExits, SocketDies, Commit, Nudge,
     Consume, Cancel, Echo, TimePasses, Finished, vars, runVars, bookVars, outVars

(* Bounds and NoProbeForgotten: pending and resolved are moved together    *)
(* with seq and deliver in every critical section.                         *)
LEMMA StepForgotten ==
    ASSUME IndInv, [Next]_vars
    PROVE  (Bounds /\ NoProbeForgotten /\ RefusedInv)'
<1>0. /\ Seed \in Nat /\ seq \in Nat /\ deliver \in Nat
      /\ Bounds /\ NoProbeForgotten /\ RefusedInv /\ after # "refused"
  BY SeedAssumption DEF IndInv, TypeOK
<1> USE <1>0 DEF Bounds, NoProbeForgotten, RefusedInv
<1>1. ASSUME NEW S \in SUBSET DOMAIN pending, MarkLost(S), UNCHANGED <<seq, deliver>>
      PROVE  (Bounds /\ NoProbeForgotten)'
  BY <1>1, MarkLostMoves
<1>2. CASE HoldElapses \/ Sweep
  BY <1>1, <1>2 DEF HoldElapses, Sweep, Expire, outVars
<1>3. CASE Book
  <2>1. CASE UNCHANGED bookVars
    BY <1>3, <2>1 DEF Book, bookVars, outVars
  <2>2. CASE seq' = seq + 1 /\ MarkLost({seq + 1})
    <3>1. /\ DOMAIN pending' = DOMAIN pending \ {seq + 1}
          /\ DOMAIN resolved' = DOMAIN resolved \cup {seq + 1}
      BY <2>2, MarkLostMoves
    <3>2. deliver' = deliver /\ pc' = "flush"
      BY <1>3 DEF Book, outVars
    <3> QED BY <2>2, <3>1, <3>2
  <2> QED BY <1>3, <2>1, <2>2 DEF Book
<1>4. CASE WriteOk \/ WriteRefused
  BY <1>4 DEF WriteOk, WriteRefused, Outstanding, outVars
<1>5. CASE SendFailed
  <2>1. /\ DOMAIN pending' = DOMAIN pending \ {seq}
        /\ DOMAIN resolved' = DOMAIN resolved \cup {seq}
    BY <1>5, MarkLostMoves DEF SendFailed
  <2> QED BY <1>5, <2>1 DEF SendFailed, outVars
<1>6. CASE FlushTakes
  BY <1>6 DEF FlushTakes
<1>7. CASE FlushReturns
  BY <1>7 DEF FlushReturns, bookVars
<1>8. CASE \E m \in wire : Resolve(m)
  BY <1>8 DEF Resolve, Answers, outVars, runVars
<1>9. CASE /\ UNCHANGED <<seq, deliver, pending, resolved>>
           /\ pc' = "refused" => pc = "refused"
  BY <1>9
<1> QED BY <1>2, <1>3, <1>4, <1>5, <1>6, <1>7, <1>8, <1>9, OtherSteps DEF BookStep

(* Every step but flush's leaves the way out alone.                        *)
OutStep == FlushTakes \/ FlushReturns \/ Emit \/ EmitGivesUp

LEMMA NotOutSteps ==
    ASSUME after # "emit", [Next]_vars
    PROVE  \/ OutStep
           \/ UNCHANGED outVars /\ (pc' = "emit" => pc = "emit")
  BY DEF Next, RunStep, ReaderStep, EngineStep, NetStep, OutStep, RunEnds,
     DialOpens, DialFails, HoldElapses, HoldCancelled, Book, TickSend,
     NudgeSend, WriteOk, WriteRefused, SendFailed, Sweep, Stop, LoopDone,
     Stopped, Resolve, ReaderExits, SocketDies, Commit, Nudge,
     Consume, Cancel, Echo, TimePasses, Finished, vars, runVars

(* flush emits the sequences it takes, in the order it takes them.         *)
LEMMA StepOut ==
    ASSUME IndInv, [Next]_vars
    PROVE  (HandInv /\ OutInv /\ InOrderOnce)'
<1>0. /\ Seed \in Nat /\ deliver \in Nat /\ Seed < deliver
      /\ results \in Seq(Result) /\ inHand \in Result
      /\ HandInv /\ OutInv /\ InOrderOnce /\ after # "emit"
  BY SeedAssumption DEF IndInv, TypeOK, Bounds
<1>1. /\ inHand.seq \in Nat
      /\ \A i \in 1..Len(results) : results[i].seq \in Nat
  <2>1. \A i \in 1..Len(results) : results[i] \in Result
    BY <1>0
  <2>2. \A r \in Result : r.seq \in Nat
    BY DEF Result
  <2> QED BY <1>0, <2>1, <2>2
<1> USE <1>0, <1>1 DEF HandInv, OutInv, InOrderOnce
<1>2. CASE FlushTakes
  <2>1. /\ inHand'.seq = deliver /\ deliver' = deliver + 1 /\ results' = results /\ pc = "flush"
    BY <1>2 DEF FlushTakes
  <2>2. \A i \in 1..Len(results) : results[i].seq < deliver
    OBVIOUS
  <2>3. HandInv'
    BY <2>1
  <2>4. OutInv'
    BY <2>1, <2>2
  <2>5. UNCHANGED results /\ InOrderOnce
    BY ONLY <1>0, <2>1
  <2>6. InOrderOnce'
    BY ONLY <2>5 DEF InOrderOnce
  <2> QED BY <2>3, <2>4, <2>6
<1>3. CASE FlushReturns
  BY <1>3 DEF FlushReturns
<1>4. CASE Emit
  <2>1. /\ results' = Append(results, inHand)
        /\ pc = "emit" /\ pc' = "flush" /\ deliver' = deliver /\ inHand' = inHand
    BY <1>4 DEF Emit
  <2>2. /\ Len(results') = Len(results) + 1
        /\ results'[Len(results) + 1] = inHand
        /\ \A i \in 1..Len(results) : results'[i] = results[i]
    BY <2>1
  <2>3. Len(results) \in Nat
    OBVIOUS
  <2>4. \A i \in 1..Len(results') :
            IF i = Len(results) + 1 THEN results'[i] = inHand
            ELSE i \in 1..Len(results) /\ results'[i] = results[i]
    BY <2>2, <2>3
  <2>5. HandInv' /\ OutInv'
    BY <2>1, <2>4
  <2>6. InOrderOnce'
    BY <2>1, <2>2, <2>3, <2>4
  <2> QED BY <2>5, <2>6
<1>5. CASE EmitGivesUp
  BY <1>5 DEF EmitGivesUp
<1>6. CASE UNCHANGED outVars /\ (pc' = "emit" => pc = "emit")
  BY <1>6 DEF outVars
<1> QED BY <1>2, <1>3, <1>4, <1>5, <1>6, NotOutSteps DEF OutStep

(* Type correctness is preserved, one group of variables at a time.        *)
LEMMA StepType ==
    ASSUME IndInv, [Next]_vars
    PROVE  TypeOK'
<1> USE SeedAssumption, PathAssumption
<1>0. TypeOK /\ Bounds /\ NoProbeForgotten
  BY DEF IndInv
<1> USE <1>0
<1>1. /\ pc' \in {"dial", "loop", "write", "refused", "flush", "emit", "stop",
                "stopping", "hold", "book", "done"}
      /\ after' \in {"dial", "loop", "stop", "hold", "book"}
      /\ reader' \in {"none", "reading", "gone"}
  BY DEF TypeOK, Next, RunStep, ReaderStep, EngineStep, NetStep, RunEnds, DialOpens,
     DialFails, HoldElapses, HoldCancelled, Book, TickSend, NudgeSend, WriteOk,
     WriteRefused, Outstanding, SendFailed, Sweep, Expire, Stop, LoopDone,
     Stopped, FlushTakes, FlushReturns, Emit, EmitGivesUp, Resolve, ReaderExits,
     SocketDies, Commit, Nudge, Consume, Cancel, Echo, TimePasses, Finished,
     vars, runVars, sockVars, bookVars, outVars, decVars
<1>2. dead' \in BOOLEAN /\ cancelled' \in BOOLEAN /\ nudge' \in BOOLEAN /\ owed' \in BOOLEAN
  <2>1. /\ dead' = dead \/ dead' = TRUE \/ dead' = FALSE
        /\ cancelled' = cancelled \/ cancelled' = TRUE
        /\ nudge' = nudge \/ nudge' = TRUE \/ nudge' = FALSE
        /\ owed' = owed \/ owed' = TRUE \/ owed' = FALSE
    BY DEF Next, RunStep, ReaderStep, EngineStep, NetStep, RunEnds, DialOpens,
       DialFails, HoldElapses, HoldCancelled, Book, TickSend, NudgeSend, WriteOk,
       WriteRefused, Outstanding, SendFailed, Sweep, Expire, Stop, LoopDone,
       Stopped, FlushTakes, FlushReturns, Emit, EmitGivesUp, Resolve, ReaderExits,
       SocketDies, Commit, Nudge, Consume, Cancel, Echo, TimePasses, Finished,
       vars, runVars, sockVars, bookVars, outVars, decVars
  <2> QED BY <2>1, Zenon DEF TypeOK
<1>3. /\ seq' \in Nat /\ deliver' \in Nat /\ cutoff' \in Nat /\ deaths' \in Nat
      /\ decision' \in Nat /\ reading' \in Nat /\ carried' \in Nat
  <2>1. /\ seq' = seq \/ seq' = seq + 1
        /\ deliver' = deliver \/ deliver' = deliver + 1
        /\ cutoff' = cutoff \/ cutoff' \in (cutoff + 1)..seq
        /\ deaths' = deaths \/ deaths' = deaths + 1
        /\ decision' = decision \/ decision' = decision + 1
        /\ reading' = reading \/ reading' = decision
        /\ carried' = carried \/ carried' = reading
    BY DEF Next, RunStep, ReaderStep, EngineStep, NetStep, RunEnds, DialOpens,
       DialFails, HoldElapses, HoldCancelled, Book, TickSend, NudgeSend, WriteOk,
       WriteRefused, Outstanding, SendFailed, Sweep, Expire, Stop, LoopDone,
       Stopped, FlushTakes, FlushReturns, Emit, EmitGivesUp, Resolve, ReaderExits,
       SocketDies, Commit, Nudge, Consume, Cancel, Echo, TimePasses, Finished,
       vars, runVars, sockVars, bookVars, outVars, decVars
  <2>2. /\ seq \in Nat /\ deliver \in Nat /\ cutoff \in Nat /\ deaths \in Nat
        /\ decision \in Nat /\ reading \in Nat /\ carried \in Nat
    BY DEF TypeOK
  <2>3. \A n \in Nat : n + 1 \in Nat /\ (n + 1)..seq \subseteq Nat
    BY <2>2
  <2>4. decision' \in Nat /\ reading' \in Nat /\ carried' \in Nat
    BY <2>1, <2>2, <2>3, Zenon
  <2>5. seq' \in Nat /\ deliver' \in Nat /\ cutoff' \in Nat /\ deaths' \in Nat
    BY <2>1, <2>2, <2>3, Zenon
  <2> QED BY <2>4, <2>5
<1>4. /\ DOMAIN pending' \subseteq Nat
      /\ \A s \in DOMAIN pending' : pending'[s] \in Nat
      /\ DOMAIN resolved' \subseteq Nat
      /\ \A s \in DOMAIN resolved' : resolved'[s] \in BOOLEAN
  <2>1. ASSUME NEW S \in SUBSET Nat, MarkLost(S)
        PROVE  /\ DOMAIN pending' \subseteq Nat
               /\ \A s \in DOMAIN pending' : pending'[s] \in Nat
               /\ DOMAIN resolved' \subseteq Nat
               /\ \A s \in DOMAIN resolved' : resolved'[s] \in BOOLEAN
    <3>1. /\ \A s \in DOMAIN resolved : resolved[s] \in BOOLEAN
          /\ DOMAIN resolved' = DOMAIN resolved \cup S
          /\ \A s \in DOMAIN resolved' : resolved'[s] = IF s \in S THEN TRUE ELSE resolved[s]
      BY <2>1, MarkLostMoves, Zenon DEF TypeOK
    <3>2. \A s \in DOMAIN resolved' : resolved'[s] \in BOOLEAN
      BY <3>1, Zenon
    <3>3. /\ DOMAIN pending' = DOMAIN pending \ S
          /\ \A s \in DOMAIN pending' : pending'[s] = pending[s]
      BY <2>1, MarkLostMoves, Zenon
    <3>4. DOMAIN pending' \subseteq Nat /\ \A s \in DOMAIN pending' : pending'[s] \in Nat
      BY <3>3, Zenon DEF TypeOK
    <3>5. DOMAIN resolved' \subseteq Nat
      BY <3>1, Zenon DEF TypeOK
    <3> QED BY <3>2, <3>4, <3>5
  <2>2. CASE HoldElapses \/ Sweep
    <3>1. {s \in DOMAIN pending : s <= cutoff} \in SUBSET Nat
      BY DEF TypeOK
    <3> QED BY <2>1, <2>2, <3>1 DEF HoldElapses, Sweep, Expire
  <2>3. CASE Book \/ SendFailed
    <3>1. {seq} \in SUBSET Nat /\ {seq + 1} \in SUBSET Nat
      BY DEF TypeOK
    <3>2. MarkLost({seq}) \/ MarkLost({seq + 1}) \/ UNCHANGED <<pending, resolved>>
      BY <2>3 DEF Book, SendFailed, bookVars
    <3> QED BY <2>1, <3>1, <3>2 DEF TypeOK
  <2>4. CASE WriteOk \/ WriteRefused
    BY <2>4 DEF WriteOk, WriteRefused, Outstanding, TypeOK
  <2>5. CASE FlushTakes
    BY <2>5 DEF FlushTakes, TypeOK
  <2>6. CASE \E m \in wire : Resolve(m)
    <3>1. PICK m \in wire : Resolve(m)
      BY <2>6
    <3>2. /\ DOMAIN pending' = DOMAIN pending \ {m.seq}
          /\ DOMAIN resolved' = DOMAIN resolved \cup {m.seq}
          /\ m.seq \in DOMAIN pending
          /\ \A s \in DOMAIN pending' : pending'[s] = pending[s]
          /\ \A s \in DOMAIN resolved' : resolved'[s] = IF s = m.seq THEN FALSE ELSE resolved[s]
      BY <3>1 DEF Resolve, Answers
    <3> QED BY <3>2, Zenon DEF TypeOK
  <2>7. CASE FlushReturns \/ UNCHANGED <<seq, deliver, pending, resolved>>
    BY <2>7 DEF FlushReturns, bookVars, TypeOK
  <2> QED BY <2>2, <2>3, <2>4, <2>5, <2>6, <2>7, OtherSteps DEF BookStep, TypeOK
<1>6. inHand' \in Result
  <2>1. CASE FlushTakes
    <3>1. inHand' = [seq |-> deliver, lost |-> resolved[deliver]]
      BY <2>1 DEF FlushTakes
    <3>2. deliver \in Nat /\ resolved[deliver] \in BOOLEAN
      BY <2>1 DEF FlushTakes, TypeOK
    <3> QED BY <3>1, <3>2, Zenon DEF Result
  <2>2. CASE UNCHANGED inHand
    BY <2>2 DEF TypeOK
  <2> QED BY <2>1, <2>2, NotOutSteps DEF TypeOK, OutStep, outVars, FlushReturns, Emit, EmitGivesUp
<1>7. results' \in Seq(Result) /\ taken' \in 0..Len(results')
  <2>1. /\ results' = results \/ results' = Append(results, inHand)
        /\ taken' = taken \/ (taken < Len(results) /\ taken' = taken + 1 /\ results' = results)
    BY DEF Next, RunStep, ReaderStep, EngineStep, NetStep, RunEnds, DialOpens,
       DialFails, HoldElapses, HoldCancelled, Book, TickSend, NudgeSend, WriteOk,
       WriteRefused, Outstanding, SendFailed, Sweep, Expire, Stop, LoopDone,
       Stopped, FlushTakes, FlushReturns, Emit, EmitGivesUp, Resolve, ReaderExits,
       SocketDies, Commit, Nudge, Consume, Cancel, Echo, TimePasses, Finished,
       vars, runVars, sockVars, bookVars, outVars, decVars
  <2>2. inHand \in Result /\ results \in Seq(Result) /\ taken \in 0..Len(results)
    BY DEF TypeOK
  <2> QED BY <2>1, <2>2
<1>8. dropped' \subseteq Nat
  <2>1. CASE EmitGivesUp
    <3>1. inHand.seq \in Nat
      BY DEF TypeOK, Result
    <3> QED BY <2>1, <3>1 DEF EmitGivesUp, TypeOK
  <2>2. CASE UNCHANGED dropped
    BY <2>2 DEF TypeOK
  <2> QED BY <2>1, <2>2, NotOutSteps DEF TypeOK, OutStep, outVars, FlushTakes, FlushReturns, Emit
<1>9. wire' \subseteq Message({"probe", "reply"}, Nat)
  <2>1. CASE WriteOk
    BY <2>1 DEF WriteOk, TypeOK, Message
  <2>2. CASE \E m \in wire : Echo(m)
    BY <2>2 DEF Echo, TypeOK, Message
  <2>3. WriteOk \/ (\E m \in wire : Echo(m)) \/ UNCHANGED wire
    BY DEF Next, RunStep, ReaderStep, EngineStep, NetStep, RunEnds, DialOpens,
       DialFails, HoldElapses, HoldCancelled, Book, TickSend, NudgeSend, WriteOk,
       WriteRefused, Outstanding, SendFailed, Sweep, Expire, Stop, LoopDone,
       Stopped, FlushTakes, FlushReturns, Emit, EmitGivesUp, Resolve, ReaderExits,
       SocketDies, Commit, Nudge, Consume, Cancel, Echo, TimePasses, Finished,
       vars, runVars, sockVars, bookVars, outVars, decVars
  <2> QED BY <2>1, <2>2, <2>3 DEF TypeOK
<1> QED BY <1>1, <1>2, <1>3, <1>4, <1>6, <1>7, <1>8, <1>9, Zenon DEF TypeOK

(* A prober never emits out of order or twice, never forgets a probe, and  *)
(* flush never skips one, for every interleaving of its two goroutines.    *)
THEOREM Delivery == Spec => [](TypeOK /\ NoProbeForgotten /\ InOrderOnce)
<1>1. Init => IndInv
  BY InitInd
<1>2. IndInv /\ [Next]_vars => IndInv'
  BY StepType, StepForgotten, StepOut DEF IndInv
<1>3. IndInv => TypeOK /\ NoProbeForgotten /\ InOrderOnce
  BY DEF IndInv
<1> QED BY <1>1, <1>2, <1>3, PTL DEF Spec

-----------------------------------------------------------------------------
(* Where each wait and each flush returns to.                              *)
AfterInv ==
    /\ pc = "stopping" => after \in {"dial", "hold"}
    /\ pc = "hold" => after \in {"dial", "book"}
    /\ pc \in {"flush", "emit"} => after \in {"dial", "book", "loop", "stop"}

(* A probe in the loop, or being built in it, carries the current decision *)
(* unless a nudge is still to come; every way back into the loop nudges.   *)
DecisionInv ==
    /\ (pc = "loop" \/ (pc \in {"flush", "emit"} /\ after = "loop"))
            => nudge \/ owed \/ carried = decision
    /\ pc = "write" => nudge \/ owed \/ reading = decision
    /\ AfterInv

(* A coalesced nudge never strands a switch: whenever the loop is idle and *)
(* no nudge is queued or owed, the last probe carried the decision.        *)
THEOREM NudgeCarriesDecision == Spec => []DecisionCarried
<1>1. Init => DecisionInv
  BY DEF Init, DecisionInv, AfterInv
<1>2. DecisionInv /\ [Next]_vars => DecisionInv'
  <2> SUFFICES ASSUME DecisionInv, [Next]_vars PROVE DecisionInv'
    OBVIOUS
  <2> QED
    BY DEF DecisionInv, AfterInv, Next, RunStep, ReaderStep, EngineStep, NetStep, RunEnds, DialOpens,
       DialFails, HoldElapses, HoldCancelled, Book, TickSend, NudgeSend, WriteOk,
       WriteRefused, Outstanding, SendFailed, Sweep, Expire, Stop, LoopDone,
       Stopped, FlushTakes, FlushReturns, Emit, EmitGivesUp, Resolve, ReaderExits,
       SocketDies, Commit, Nudge, Consume, Cancel, Echo, TimePasses, Finished,
       vars, runVars, sockVars, bookVars, outVars, decVars
<1>3. DecisionInv => DecisionCarried
  BY DEF DecisionInv, DecisionCarried
<1> QED BY <1>1, <1>2, <1>3, PTL DEF Spec

-----------------------------------------------------------------------------
(* loop's context ends inside loop only if the prober is being stopped or  *)
(* the socket died; sendFailed's own cancel comes after its flush.         *)
DeadInv ==
    (dead /\ ~cancelled /\ deaths = 0) =>
        \/ pc \in {"stopping", "dial", "hold", "book"}
        \/ pc \in {"flush", "emit"} /\ after \in {"dial", "book"}

(* Until then the channel holds every sequence up to the one in hand.      *)
ContiguousInv ==
    (~cancelled /\ deaths = 0) =>
        /\ Seed + Len(results) + 1 = IF pc = "emit" THEN inHand.seq ELSE deliver
        /\ \A i \in 1..Len(results) : results[i].seq = Seed + i

GapInv == AfterInv /\ DeadInv /\ ContiguousInv

(* DeadInv is kept by every step.                                          *)
LEMMA StepDead ==
    ASSUME TypeOK, AfterInv, DeadInv, [Next]_vars
    PROVE  AfterInv' /\ DeadInv'
<1>1. AfterInv'
  BY DEF TypeOK, AfterInv, Next, RunStep, ReaderStep, EngineStep, NetStep, RunEnds, DialOpens,
       DialFails, HoldElapses, HoldCancelled, Book, TickSend, NudgeSend, WriteOk,
       WriteRefused, Outstanding, SendFailed, Sweep, Expire, Stop, LoopDone,
       Stopped, FlushTakes, FlushReturns, Emit, EmitGivesUp, Resolve, ReaderExits,
       SocketDies, Commit, Nudge, Consume, Cancel, Echo, TimePasses, Finished,
       vars, runVars, sockVars, bookVars, outVars, decVars
<1>2. CASE RunStep
  <2>1. DeadInv'
    BY <1>2 DEF TypeOK, AfterInv, DeadInv, RunStep, RunEnds, DialOpens,
       DialFails, HoldElapses, HoldCancelled, Book, TickSend, NudgeSend, WriteOk,
       WriteRefused, Outstanding, SendFailed, Sweep, Expire, Stop, LoopDone,
       Stopped, FlushTakes, FlushReturns, Emit, EmitGivesUp, sockVars
  <2> QED BY <1>1, <2>1
<1>3. CASE ReaderStep
  <2>1. CASE SocketDies
    <3>1. deaths' # 0
      BY <2>1 DEF SocketDies, TypeOK
    <3> QED BY <1>1, <3>1 DEF DeadInv
  <2>2. CASE ReaderExits
    <3>1. /\ dead \/ cancelled
          /\ UNCHANGED <<pc, after, cancelled, deaths>>
      BY <2>2, Zenon DEF ReaderExits, runVars
    <3> QED BY <1>1, <3>1, Zenon DEF DeadInv
  <2>3. CASE \E m \in wire : Resolve(m)
    <3>1. UNCHANGED <<pc, after, cancelled, dead, deaths>>
      BY <2>3 DEF Resolve, runVars, sockVars
    <3> QED BY <1>1, <3>1, Zenon DEF DeadInv
  <2> QED BY <1>3, <2>1, <2>2, <2>3 DEF ReaderStep
<1>4. CASE EngineStep \/ NetStep \/ Finished \/ UNCHANGED vars
  <2>1. DeadInv'
    BY <1>4 DEF DeadInv, EngineStep, NetStep, Finished, Commit, Nudge, Consume,
       Cancel, Echo, TimePasses, vars, runVars, sockVars
  <2> QED BY <1>1, <2>1
<1> QED BY <1>2, <1>3, <1>4 DEF Next

(* cancelled and deaths never go back.                                     *)
LEMMA StopsAreFinal ==
    ASSUME TypeOK, [Next]_vars, ~cancelled', deaths' = 0
    PROVE  ~cancelled /\ deaths = 0
<1>1. /\ cancelled' = cancelled \/ cancelled' = TRUE
      /\ deaths' = deaths \/ deaths' = deaths + 1
  BY DEF Next, RunStep, ReaderStep, EngineStep, NetStep, RunEnds, DialOpens,
       DialFails, HoldElapses, HoldCancelled, Book, TickSend, NudgeSend, WriteOk,
       WriteRefused, Outstanding, SendFailed, Sweep, Expire, Stop, LoopDone,
       Stopped, FlushTakes, FlushReturns, Emit, EmitGivesUp, Resolve, ReaderExits,
       SocketDies, Commit, Nudge, Consume, Cancel, Echo, TimePasses, Finished,
       vars, runVars, sockVars, bookVars, outVars, decVars
<1>2. ~cancelled
  BY <1>1, Zenon
<1> QED BY <1>1, <1>2 DEF TypeOK

(* While nothing has been stopped flush gives up on nothing.               *)
LEMMA StepContiguous ==
    ASSUME IndInv, GapInv, [Next]_vars
    PROVE  ContiguousInv'
<1> SUFFICES ASSUME ~cancelled', deaths' = 0
             PROVE  /\ Seed + Len(results') + 1 = IF pc' = "emit" THEN inHand'.seq ELSE deliver'
                    /\ \A i \in 1..Len(results') : results'[i].seq = Seed + i
  BY DEF ContiguousInv
<1>0. /\ Seed \in Nat /\ deliver \in Nat /\ seq \in Nat /\ results \in Seq(Result)
      /\ inHand \in Result /\ HandInv /\ NoProbeForgotten /\ after # "emit" /\ Bounds
      /\ Len(results) \in Nat
  BY SeedAssumption DEF IndInv, TypeOK
<1>1. /\ Seed + Len(results) + 1 = IF pc = "emit" THEN inHand.seq ELSE deliver
      /\ \A i \in 1..Len(results) : results[i].seq = Seed + i
      /\ ~cancelled /\ deaths = 0
  BY StopsAreFinal DEF IndInv, GapInv, ContiguousInv
<1>2. CASE FlushTakes
  BY <1>0, <1>1, <1>2 DEF FlushTakes
<1>3. CASE FlushReturns
  <2>1. UNCHANGED <<deliver, results>> /\ pc = "flush" /\ pc' # "emit"
    BY <1>0, <1>3 DEF FlushReturns, NoProbeForgotten, Bounds
  <2> QED BY <1>1, <2>1
<1>4. CASE Emit
  <2>1. /\ results' = Append(results, inHand)
        /\ pc = "emit" /\ pc' = "flush" /\ deliver' = deliver
    BY <1>4 DEF Emit
  <2>2. inHand.seq + 1 = deliver /\ inHand.seq = Seed + Len(results) + 1
    BY <1>0, <1>1, <2>1 DEF HandInv
  <2>3. /\ Len(results') = Len(results) + 1
        /\ \A i \in 1..Len(results') :
              IF i = Len(results) + 1 THEN results'[i] = inHand
              ELSE i \in 1..Len(results) /\ results'[i] = results[i]
    BY <1>0, <2>1
  <2> QED BY <1>0, <1>1, <2>1, <2>2, <2>3
<1>5. CASE EmitGivesUp
  BY <1>1, <1>5 DEF GapInv, DeadInv, AfterInv, EmitGivesUp, FlushCtxDone
<1>6. CASE UNCHANGED outVars /\ (pc' = "emit" => pc = "emit")
  <2>1. pc = "emit" => pc' = "emit" \/ Emit \/ EmitGivesUp
    BY <1>0 DEF Next, RunStep, ReaderStep, EngineStep, NetStep, RunEnds, DialOpens,
       DialFails, HoldElapses, HoldCancelled, Book, TickSend, NudgeSend, WriteOk,
       WriteRefused, Outstanding, SendFailed, Sweep, Expire, Stop, LoopDone,
       Stopped, FlushTakes, FlushReturns, Emit, EmitGivesUp, Resolve, ReaderExits,
       SocketDies, Commit, Nudge, Consume, Cancel, Echo, TimePasses, Finished,
       vars, runVars, sockVars, bookVars, outVars, decVars
  <2> QED BY <1>1, <1>4, <1>5, <1>6, <2>1 DEF outVars
<1> QED BY <1>0, <1>2, <1>3, <1>4, <1>5, <1>6, NotOutSteps DEF OutStep

(* No probe's result is lost while the prober runs on a live socket: a     *)
(* refused write or a failed dial loses none.                              *)
THEOREM NoGap == Spec => []NoGapWhileAlive
<1>1. Init => IndInv /\ GapInv
  BY InitInd, SeedAssumption DEF Init, GapInv, AfterInv, DeadInv, ContiguousInv
<1>2. IndInv /\ GapInv /\ [Next]_vars => (IndInv /\ GapInv)'
  BY StepType, StepForgotten, StepOut, StepDead, StepContiguous DEF IndInv, GapInv
<1>3. GapInv => NoGapWhileAlive
  BY DEF GapInv, ContiguousInv, NoGapWhileAlive
<1> QED BY <1>1, <1>2, <1>3, PTL DEF Spec

(* Results leave in order, none twice and none missing, for every channel  *)
(* capacity, seed and number of probes.                                    *)
THEOREM InOrderNoGap == Spec => []Delivered
<1>1. TypeOK /\ NoProbeForgotten /\ InOrderOnce /\ NoGapWhileAlive => Delivered
  BY DEF Delivered
<1> QED BY <1>1, Delivery, NoGap, PTL

-----------------------------------------------------------------------------
(* A probe's entry holds the nonce it carried, and "answered" is believed  *)
(* along the whole way out only of probes the backend echoed.              *)
AnswerInv ==
    /\ \A s \in DOMAIN pending : pending[s] = s
    /\ \A s \in DOMAIN resolved : resolved[s] \/ ReplyTo(s) \in wire
    /\ pc = "emit" => inHand.lost \/ ReplyTo(inHand.seq) \in wire
    /\ \A i \in 1..Len(results) : results[i].lost \/ ReplyTo(results[i].seq) \in wire

(* The network forgets nothing, so what was echoed stays echoed.           *)
LEMMA EchoedStays ==
    ASSUME [Next]_vars
    PROVE  wire \subseteq wire'
  BY DEF Next, RunStep, ReaderStep, EngineStep, NetStep, RunEnds, DialOpens,
       DialFails, HoldElapses, HoldCancelled, Book, TickSend, NudgeSend, WriteOk,
       WriteRefused, Outstanding, SendFailed, Sweep, Expire, Stop, LoopDone,
       Stopped, FlushTakes, FlushReturns, Emit, EmitGivesUp, Resolve, ReaderExits,
       SocketDies, Commit, Nudge, Consume, Cancel, Echo, TimePasses, Finished,
       vars, runVars, sockVars, bookVars, outVars, decVars

(* The entries: resolve books an answer only for the nonce it sent.        *)
LEMMA StepAnswerBook ==
    ASSUME IndInv, AnswerInv, [Next]_vars
    PROVE  /\ \A s \in DOMAIN pending' : pending'[s] = s
           /\ \A s \in DOMAIN resolved' : resolved'[s] \/ ReplyTo(s) \in wire'
<1>0. /\ \A s \in DOMAIN pending : pending[s] = s
      /\ \A s \in DOMAIN resolved : resolved[s] \/ ReplyTo(s) \in wire
      /\ wire \subseteq Message({"probe", "reply"}, Nat)
      /\ \A s \in DOMAIN resolved : resolved[s] \/ ReplyTo(s) \in wire'
  BY EchoedStays, Zenon DEF AnswerInv, IndInv, TypeOK
<1>1. ASSUME NEW S, MarkLost(S)
      PROVE  /\ \A s \in DOMAIN pending' : pending'[s] = s
             /\ \A s \in DOMAIN resolved' : resolved'[s] \/ ReplyTo(s) \in wire'
  <2>1. /\ DOMAIN pending' = DOMAIN pending \ S
        /\ DOMAIN resolved' = DOMAIN resolved \cup S
        /\ \A s \in DOMAIN pending' : pending'[s] = pending[s]
        /\ \A s \in DOMAIN resolved' : resolved'[s] = IF s \in S THEN TRUE ELSE resolved[s]
    BY <1>1, MarkLostMoves, Zenon
  <2> QED BY <1>0, <2>1, Zenon
<1>2. CASE UNCHANGED <<pending, resolved>>
  BY <1>0, <1>2, Zenon
<1>3. CASE HoldElapses \/ Sweep \/ Book \/ SendFailed
  BY <1>1, <1>2, <1>3 DEF HoldElapses, Sweep, Book, SendFailed, Expire, bookVars
<1>4. CASE WriteOk \/ WriteRefused
  <2>1. /\ DOMAIN pending' = DOMAIN pending \cup {seq + 1}
        /\ \A s \in DOMAIN pending' : pending'[s] = IF s = seq + 1 THEN s ELSE pending[s]
        /\ resolved' = resolved
    BY <1>4 DEF WriteOk, WriteRefused, Outstanding
  <2> QED BY <1>0, <2>1, Zenon
<1>5. CASE FlushTakes
  <2>1. /\ pending' = pending
        /\ DOMAIN resolved' \subseteq DOMAIN resolved
        /\ \A s \in DOMAIN resolved' : resolved'[s] = resolved[s]
    BY <1>5 DEF FlushTakes
  <2> QED BY <1>0, <2>1, Zenon
<1>6. CASE FlushReturns
  BY <1>2, <1>6 DEF FlushReturns, bookVars
<1>7. CASE \E m \in wire : Resolve(m)
  <2>1. PICK m \in wire : Resolve(m)
    BY <1>7
  <2>2. /\ DOMAIN pending' = DOMAIN pending \ {m.seq}
        /\ DOMAIN resolved' = DOMAIN resolved \cup {m.seq}
        /\ \A s \in DOMAIN pending' : pending'[s] = pending[s]
        /\ \A s \in DOMAIN resolved' : resolved'[s] = IF s = m.seq THEN FALSE ELSE resolved[s]
    BY <2>1 DEF Resolve
  <2>3. m = [type |-> "reply", path |-> Path, seq |-> m.seq, nonce |-> m.seq]
    BY <1>0, <2>1 DEF Resolve, Answers, Message
  <2>4. ReplyTo(m.seq) \in wire
    BY <2>1, <2>3, Zenon DEF ReplyTo
  <2>5. ReplyTo(m.seq) \in wire'
    BY <2>4, EchoedStays, Zenon
  <2> QED BY <1>0, <2>2, <2>5, Zenon
<1>8. after # "refused"
  BY DEF IndInv, TypeOK
<1> QED BY <1>2, <1>3, <1>4, <1>5, <1>6, <1>7, <1>8, OtherSteps DEF BookStep

(* The way out: flush carries a result unchanged from resolved to the      *)
(* channel.                                                                *)
LEMMA StepAnswerOut ==
    ASSUME IndInv, AnswerInv, [Next]_vars
    PROVE  /\ pc' = "emit" => inHand'.lost \/ ReplyTo(inHand'.seq) \in wire'
           /\ \A i \in 1..Len(results') : results'[i].lost \/ ReplyTo(results'[i].seq) \in wire'
<1>0. /\ \A s \in DOMAIN resolved : resolved[s] \/ ReplyTo(s) \in wire'
      /\ pc = "emit" => inHand.lost \/ ReplyTo(inHand.seq) \in wire'
      /\ \A i \in 1..Len(results) : results[i].lost \/ ReplyTo(results[i].seq) \in wire'
  BY EchoedStays, Zenon DEF AnswerInv
<1>1. CASE FlushTakes
  <2>1. /\ inHand' = [seq |-> deliver, lost |-> resolved[deliver]]
        /\ deliver \in DOMAIN resolved /\ results' = results
    BY <1>1 DEF FlushTakes
  <2>2. inHand'.lost = resolved[deliver] /\ inHand'.seq = deliver
    BY <2>1, Zenon
  <2> QED BY <1>0, <2>1, <2>2, Zenon
<1>2. CASE FlushReturns \/ EmitGivesUp
  <2>1. pc' # "emit" /\ results' = results
    BY <1>2 DEF FlushReturns, EmitGivesUp, IndInv, TypeOK
  <2> QED BY <1>0, <2>1, Zenon
<1>3. CASE Emit
  <2>1. /\ results' = Append(results, inHand) /\ pc = "emit" /\ pc' # "emit"
        /\ results \in Seq(Result) /\ inHand \in Result
    BY <1>3 DEF Emit, IndInv, TypeOK
  <2>2. \A i \in 1..Len(results') :
            results'[i] = inHand \/ (i \in 1..Len(results) /\ results'[i] = results[i])
    BY <2>1
  <2> QED BY <1>0, <2>1, <2>2, Zenon
<1>4. CASE UNCHANGED outVars /\ (pc' = "emit" => pc = "emit")
  <2>1. results' = results /\ inHand' = inHand
    BY <1>4 DEF outVars
  <2> QED BY <1>0, <1>4, <2>1, Zenon
<1>5. after # "emit"
  BY DEF IndInv, TypeOK
<1> QED BY <1>1, <1>2, <1>3, <1>4, <1>5, NotOutSteps DEF OutStep

(* Only a round trip counts as one: no replayed, misdirected or reflected  *)
(* packet ever makes a probe read as answered.                             *)
THEOREM RoundTrip == Spec => []AnsweredMeansRoundTrip
<1>1. Init => IndInv /\ AnswerInv
  BY InitInd DEF Init, AnswerInv
<1>2. IndInv /\ AnswerInv /\ [Next]_vars => (IndInv /\ AnswerInv)'
  BY StepType, StepForgotten, StepOut, StepAnswerBook, StepAnswerOut DEF IndInv, AnswerInv
<1>3. AnswerInv => AnsweredMeansRoundTrip
  BY Zenon DEF AnswerInv, AnsweredMeansRoundTrip
<1> QED BY <1>1, <1>2, <1>3, PTL DEF Spec

-----------------------------------------------------------------------------
(* The tracker and its breaker.                                            *)

(* The types the arguments rest on, and the streaks.                       *)
CoreInv ==
    /\ now \in Nat \ {0} /\ cfg \in Cfg
    /\ health \in {"unknown", "up", "suspect", "down"}
    /\ consecLoss \in Nat /\ consecOK \in Nat /\ cleanSince \in Nat
    /\ CleanIffUp

(* The breaker's bookkeeping never touches a streak.                       *)
LEMMA StreakSteps ==
    ASSUME CoreInv, [TrackerNext]_trackerVars
    PROVE  CoreInv'
<1> USE TrackerAssumption DEF CoreInv, CleanIffUp, Cfg
<1>1. CASE ObserveLoss
  BY <1>1 DEF ObserveLoss
<1>2. CASE ObserveReply
  BY <1>2 DEF ObserveReply
<1>3. CASE Retune
  BY <1>3 DEF Retune, streakVars
<1>4. CASE ClearQuarantine
  BY <1>4 DEF ClearQuarantine, streakVars
<1>5. CASE Tick
  BY <1>5 DEF Tick, streakVars
<1>6. CASE UNCHANGED trackerVars
  BY <1>6 DEF trackerVars, streakVars
<1> QED BY <1>1, <1>2, <1>3, <1>4, <1>5, <1>6 DEF TrackerNext

(* CleanFor is only ever the age of a streak that is still running, for    *)
(* every setting and every sequence of results.                            *)
THEOREM CleanStreak == TrackerSpec => []CleanIffUp
<1>1. TrackerInit => CoreInv
  BY TrackerAssumption DEF TrackerInit, CoreInv, CleanIffUp
<1>2. CoreInv /\ [TrackerNext]_trackerVars => CoreInv'
  BY StreakSteps
<1>3. CoreInv => CleanIffUp
  BY DEF CoreInv
<1> QED BY <1>1, <1>2, <1>3, PTL DEF TrackerSpec

-----------------------------------------------------------------------------
(* The loop that doubles.                                                  *)

(* Induction, on a set of numbers.                                         *)
LEMMA Induction ==
    ASSUME NEW S \in SUBSET Nat, 0 \in S, \A n \in S : n + 1 \in S
    PROVE  S = Nat
<1>1. SUFFICES ASSUME Nat \ S # {} PROVE FALSE
  OBVIOUS
<1>2. PICK x \in Nat \ S : \A y \in Nat \ S : ~ (<<y, x>> \in OpToRel(<, Nat))
  BY <1>1, NatLessThanWellFounded, WFMin
<1>3. ASSUME NEW y \in Nat \ S PROVE x <= y
  <2>1. ~ (<<y, x>> \in {pair \in Nat \X Nat : pair[1] < pair[2]})
    BY <1>2 DEF OpToRel
  <2>2. x \in Nat /\ y \in Nat
    OBVIOUS
  <2> QED BY <2>1, <2>2
<1>4. x # 0 /\ x - 1 \in S
  BY <1>3
<1>5. (x - 1) + 1 \in S
  BY <1>4
<1>6. (x - 1) + 1 = x
  OBVIOUS
<1> QED BY <1>5, <1>6

(* f gives the values of a loop that starts at first and repeats G.        *)
IsLoop(f, D, first, G) ==
    f \in [Nat -> D] /\ f[0] = first /\ \A n \in Nat : f[n + 1] = G[f[n]]

(* Such a loop has a value for every number of rounds, and all of them     *)
(* together are a function.                                                *)
LEMMA LoopExists ==
    ASSUME NEW D, NEW first \in D, NEW G \in [D -> D]
    PROVE  \E f : IsLoop(f, D, first, G)
<1> DEFINE Run(h, n) == h[0] = first /\ \A i \in 0..n : i # n => h[i + 1] = G[h[i]]
           S == {n \in Nat : \E h \in [0..n -> D] : Run(h, n)}
<1>1. S = Nat
  <2>1. 0 \in S
    <3>1. [i \in 0..0 |-> first] \in [0..0 -> D] /\ Run([i \in 0..0 |-> first], 0)
      OBVIOUS
    <3> QED BY <3>1
  <2>2. ASSUME NEW n \in S PROVE n + 1 \in S
    <3>1. PICK h \in [0..n -> D] : Run(h, n)
      OBVIOUS
    <3> DEFINE h1 == [i \in 0..(n + 1) |-> IF i = n + 1 THEN G[h[n]] ELSE h[i]]
    <3>2. h1 \in [0..(n + 1) -> D] /\ Run(h1, n + 1)
      BY <3>1
    <3> QED BY <3>2
  <2> HIDE DEF S
  <2>3. S \in SUBSET Nat
    BY DEF S
  <2> QED BY <2>1, <2>2, <2>3, Induction
<1>2. ASSUME NEW n \in Nat, NEW m \in Nat, NEW h \in [0..n -> D], NEW k \in [0..m -> D],
             Run(h, n), Run(k, m)
      PROVE  \A i \in 0..n : i <= m => h[i] = k[i]
  <2> DEFINE T == {i \in Nat : i <= n /\ i <= m => h[i] = k[i]}
  <2>1. 0 \in T
    BY <1>2
  <2>2. ASSUME NEW i \in T PROVE i + 1 \in T
    BY <1>2, <2>2
  <2>3. T = Nat
    <3> HIDE DEF T
    <3>1. T \in SUBSET Nat
      BY DEF T
    <3> QED BY <2>1, <2>2, <3>1, Induction
  <2> QED BY <2>3
<1> DEFINE f == [n \in Nat |-> (CHOOSE h \in [0..n -> D] : Run(h, n))[n]]
<1>3. ASSUME NEW n \in Nat
      PROVE  \E h \in [0..n -> D] : Run(h, n) /\ f[n] = h[n]
  <2>1. \E h \in [0..n -> D] : Run(h, n)
    BY <1>1
  <2> DEFINE h == CHOOSE h \in [0..n -> D] : Run(h, n)
  <2>2. h \in [0..n -> D] /\ Run(h, n)
    <3> HIDE DEF Run
    <3> QED BY <2>1, Zenon
  <2>3. f[n] = h[n]
    OBVIOUS
  <2> HIDE DEF h, f
  <2> QED BY <2>2, <2>3
<1>4. f \in [Nat -> D]
  <2> HIDE DEF Run
  <2>1. \A n \in Nat : f[n] \in D
    BY <1>3
  <2> QED BY <2>1
<1>5. f[0] = first
  BY <1>3
<1>6. ASSUME NEW n \in Nat PROVE f[n + 1] = G[f[n]]
  <2> HIDE DEF f
  <2>0. n + 1 \in Nat
    OBVIOUS
  <2>1. PICK h \in [0..n -> D] : Run(h, n) /\ f[n] = h[n]
    BY <1>3
  <2>2. PICK k \in [0..(n + 1) -> D] : Run(k, n + 1) /\ f[n + 1] = k[n + 1]
    <3> HIDE DEF Run
    <3> QED BY <1>3, <2>0, Zenon
  <2>3. h[n] = k[n]
    <3> HIDE DEF Run
    <3> QED BY <1>2, <2>1, <2>2
  <2> QED BY <2>1, <2>2, <2>3
<1> HIDE DEF f
<1>7. IsLoop(f, D, first, G)
  BY <1>4, <1>5, <1>6 DEF IsLoop
<1> QED BY <1>7

(* What the doubling loop computes at each level: the equations the        *)
(* recursion states, and never a value past the largest duration.          *)
LEMMA DoubledIs ==
    ASSUME NEW c \in Cfg
    PROVE  /\ Doubled(c) \in [Nat -> 0..MaxDuration]
           /\ Doubled(c)[0] = c.base
           /\ \A n \in Nat :
                 Doubled(c)[n + 1] =
                     IF (c.max > 0 /\ Doubled(c)[n] >= c.max) \/ Doubled(c)[n] > MaxDuration \div 2
                     THEN Doubled(c)[n] ELSE 2 * Doubled(c)[n]
<1> DEFINE D == 0..MaxDuration
           Stops(p) == (c.max > 0 /\ p >= c.max) \/ p > MaxDuration \div 2
           G == [p \in D |-> IF Stops(p) THEN p ELSE 2 * p]
           Eq(d) == d = [n \in Nat |-> IF n = 0 THEN c.base
                                       ELSE IF Stops(d[n - 1]) THEN d[n - 1] ELSE 2 * d[n - 1]]
<1>1. MaxDuration \in Nat /\ c.base \in D /\ c.max \in D
  BY TrackerAssumption DEF Cfg
<1>2. G \in [D -> D]
  BY <1>1
<1>3. PICK f : IsLoop(f, D, c.base, G)
  <2> HIDE DEF D, G
  <2> QED BY <1>1, <1>2, LoopExists, Zenon
<1>4. Eq(f)
  <2>1. ASSUME NEW n \in Nat, n # 0
        PROVE  f[n] = IF Stops(f[n - 1]) THEN f[n - 1] ELSE 2 * f[n - 1]
    <3>1. n - 1 \in Nat /\ (n - 1) + 1 = n
      BY <2>1
    <3>2. f[n] = G[f[n - 1]] /\ f[n - 1] \in D
      BY <1>3, <3>1 DEF IsLoop
    <3> QED BY <3>2
  <2> HIDE DEF Stops
  <2> QED BY <1>3, <2>1 DEF IsLoop
<1>5. Eq(Doubled(c))
  <2>1. Doubled(c) = CHOOSE d : Eq(d)
    BY DEF Doubled
  <2>2. \E d : Eq(d)
    BY <1>4
  <2> HIDE DEF Eq
  <2> QED BY <2>1, <2>2, Zenon
<1> DEFINE d == Doubled(c)
<1> HIDE DEF d
<1>6. Eq(d)
  BY <1>5 DEF d
<1>7. d[0] = c.base
  BY <1>6
<1>8. ASSUME NEW n \in Nat
      PROVE  d[n + 1] = IF Stops(d[n]) THEN d[n] ELSE 2 * d[n]
  <2>1. n + 1 \in Nat /\ n + 1 # 0 /\ (n + 1) - 1 = n
    OBVIOUS
  <2>2. d[n + 1] = IF Stops(d[(n + 1) - 1]) THEN d[(n + 1) - 1] ELSE 2 * d[(n + 1) - 1]
    <3> HIDE DEF Stops
    <3> QED BY <1>6, <2>1
  <2> QED BY <2>1, <2>2
<1>9. d \in [Nat -> D]
  <2> DEFINE T == {n \in Nat : d[n] \in D}
  <2>1. 0 \in T
    BY <1>1, <1>7
  <2>2. ASSUME NEW n \in T PROVE n + 1 \in T
    BY <1>1, <1>8
  <2>3. T = Nat
    <3> HIDE DEF T
    <3>1. T \in SUBSET Nat
      BY DEF T
    <3> QED BY <2>1, <2>2, <3>1, Induction
  <2>4. \A n \in Nat : d[n] \in D
    BY <2>3
  <2> HIDE DEF D, Stops
  <2> QED BY <1>6, <2>4
<1> QED BY <1>7, <1>8, <1>9 DEF d

(* Whatever the doubling came to, the clamps put the cooldown between the  *)
(* base and the maximum.                                                   *)
LEMMA CooldownClamped ==
    ASSUME NEW c \in Cfg, NEW n \in Nat
    PROVE  /\ Cooldown(c, n) \in 0..MaxDuration
           /\ Cooldown(c, n) >= c.base
           /\ (c.max >= c.base /\ c.max > 0) => Cooldown(c, n) <= c.max
<1> DEFINE u == Doubled(c)[n]
<1>1. u \in 0..MaxDuration
  BY DoubledIs
<1>2. MaxDuration \in Nat /\ c.base \in 0..MaxDuration /\ c.max \in 0..MaxDuration
  BY TrackerAssumption DEF Cfg
<1> QED BY <1>1, <1>2 DEF Cooldown

(* A level more never shortens the cooldown: the clamps are monotone, and  *)
(* the loop only doubles or stops.                                         *)
LEMMA CooldownGrows ==
    ASSUME NEW c \in Cfg, NEW n \in Nat
    PROVE  Cooldown(c, n + 1) >= Cooldown(c, n)
<1> DEFINE u == Doubled(c)[n]
           v == Doubled(c)[n + 1]
<1>1. n + 1 \in Nat
  OBVIOUS
<1>2. u \in 0..MaxDuration /\ v \in 0..MaxDuration /\ (v = u \/ v = 2 * u)
  BY <1>1, DoubledIs
<1>3. MaxDuration \in Nat /\ c.base \in 0..MaxDuration /\ c.max \in 0..MaxDuration
  BY TrackerAssumption DEF Cfg
<1> HIDE DEF u, v
<1>4. v >= u
  BY <1>2, <1>3
<1>5. /\ Cooldown(c, n) = LET m == IF c.max > 0 /\ u > c.max THEN c.max ELSE u
                          IN  IF m < c.base THEN c.base ELSE m
      /\ Cooldown(c, n + 1) = LET m == IF c.max > 0 /\ v > c.max THEN c.max ELSE v
                              IN  IF m < c.base THEN c.base ELSE m
  BY DEF Cooldown, u, v
<1> QED BY <1>2, <1>3, <1>4, <1>5

(* Only RecordFailure raises the level.                                    *)
LEMMA LevelSteps ==
    ASSUME CoreInv, quarantineLevel \in Nat, [TrackerNext]_trackerVars
    PROVE  /\ quarantineLevel' \in Nat
           /\ \/ /\ quarantineLevel' = quarantineLevel + 1
                 /\ quarantineUntil' = now + Cooldown(cfg, quarantineLevel)
                 /\ steady' = TRUE /\ cfg' = cfg /\ now' = now
              \/ /\ quarantineLevel' = 0 /\ quarantineUntil' = 0
              \/ /\ quarantineLevel' = quarantineLevel
                 /\ quarantineUntil' = quarantineUntil
                 /\ steady' = FALSE \/ (steady' = steady /\ cfg' = cfg)
                 /\ now' = now \/ now' = now + 1
<1>1. CASE ObserveLoss
  <2>1. RecordFailure \/ UNCHANGED breakerVars
    BY <1>1 DEF ObserveLoss
  <2> QED BY <1>1, <2>1 DEF RecordFailure, breakerVars, ObserveLoss
<1>2. CASE ObserveReply \/ Retune \/ ClearQuarantine \/ Tick \/ UNCHANGED trackerVars
  BY <1>2 DEF ObserveReply, Retune, ClearQuarantine, Tick, trackerVars, breakerVars
<1> QED BY <1>1, <1>2 DEF TrackerNext

(* The breaker is never switched off by its own doubling: every cooldown   *)
(* is at least the base and at most the maximum, at every level.           *)
THEOREM BreakerNeverOverflows == TrackerSpec => CooldownInRange
<1> DEFINE LevelInv == CoreInv /\ quarantineLevel \in Nat
           Step == quarantineLevel' = quarantineLevel + 1 =>
                      LET d == quarantineUntil' - now
                      IN  /\ d >= cfg.base
                          /\ (cfg.max >= cfg.base /\ cfg.max > 0) => d <= cfg.max
<1>1. TrackerInit => LevelInv
  BY TrackerAssumption DEF TrackerInit, CoreInv, CleanIffUp
<1>2. LevelInv /\ [TrackerNext]_trackerVars => LevelInv'
  BY StreakSteps, LevelSteps
<1>3. LevelInv /\ [TrackerNext]_trackerVars => [Step]_trackerVars
  <2> SUFFICES ASSUME LevelInv, [TrackerNext]_trackerVars, quarantineLevel' = quarantineLevel + 1
               PROVE  LET d == quarantineUntil' - now
                      IN  /\ d >= cfg.base
                          /\ (cfg.max >= cfg.base /\ cfg.max > 0) => d <= cfg.max
    OBVIOUS
  <2> DEFINE d == Cooldown(cfg, quarantineLevel)
  <2>1. quarantineUntil' = now + d
    <3>1. quarantineLevel \in Nat /\ quarantineLevel' # 0 /\ quarantineLevel' # quarantineLevel
      OBVIOUS
    <3> HIDE DEF d
    <3> QED BY <3>1, LevelSteps, Zenon DEF d
  <2>2. cfg \in Cfg /\ now \in Nat
    BY DEF CoreInv
  <2>3. /\ d \in 0..MaxDuration /\ d >= cfg.base
        /\ (cfg.max >= cfg.base /\ cfg.max > 0) => d <= cfg.max
    BY <2>2, CooldownClamped
  <2> HIDE DEF d
  <2>4. quarantineUntil' - now = d
    BY <2>1, <2>2, <2>3, TrackerAssumption
  <2> QED BY <2>3, <2>4
<1> QED BY <1>1, <1>2, <1>3, PTL DEF TrackerSpec, CooldownInRange

-----------------------------------------------------------------------------
(* While the thresholds stand, the release that is in force was set by the *)
(* last trip, at a time that is not in the future and at one level less.   *)
ReleaseInv ==
    /\ CoreInv
    /\ quarantineLevel \in Nat /\ quarantineUntil \in Nat
    /\ quarantineLevel = 0 => quarantineUntil = 0
    /\ (steady /\ quarantineLevel > 0) =>
          \E t \in Nat : t <= now /\ quarantineUntil = t + Cooldown(cfg, quarantineLevel - 1)

LEMMA ReleaseSteps ==
    ASSUME ReleaseInv, [TrackerNext]_trackerVars
    PROVE  ReleaseInv'
<1>1. CoreInv' /\ quarantineLevel' \in Nat
  BY StreakSteps, LevelSteps DEF ReleaseInv
<1>2. /\ now \in Nat /\ cfg \in Cfg /\ quarantineLevel \in Nat
      /\ Cooldown(cfg, quarantineLevel) \in Nat
  BY CooldownClamped, TrackerAssumption DEF ReleaseInv, CoreInv
<1>3. CASE /\ quarantineLevel' = quarantineLevel + 1
           /\ quarantineUntil' = now + Cooldown(cfg, quarantineLevel)
           /\ steady' = TRUE /\ cfg' = cfg /\ now' = now
  <2>1. quarantineLevel' # 0 /\ quarantineLevel' - 1 = quarantineLevel /\ now <= now'
    BY <1>2, <1>3
  <2>2. quarantineUntil' = now + Cooldown(cfg', quarantineLevel' - 1) /\ quarantineUntil' \in Nat
    BY <1>2, <1>3, <2>1
  <2>3. \E t \in Nat : t <= now' /\ quarantineUntil' = t + Cooldown(cfg', quarantineLevel' - 1)
    BY <1>2, <2>1, <2>2
  <2> QED BY <1>1, <2>1, <2>2, <2>3 DEF ReleaseInv, Cooldown, Doubled
<1>4. CASE quarantineLevel' = 0 /\ quarantineUntil' = 0
  BY <1>1, <1>4 DEF ReleaseInv
<1>5. CASE /\ quarantineLevel' = quarantineLevel
           /\ quarantineUntil' = quarantineUntil
           /\ steady' = FALSE \/ (steady' = steady /\ cfg' = cfg)
           /\ now' = now \/ now' = now + 1
  <2>1. quarantineUntil' \in Nat /\ (quarantineLevel' = 0 => quarantineUntil' = 0)
    BY <1>5 DEF ReleaseInv
  <2>2. ASSUME steady', quarantineLevel' > 0
        PROVE  \E t \in Nat : t <= now' /\ quarantineUntil' = t + Cooldown(cfg', quarantineLevel' - 1)
    <3>1. steady /\ quarantineLevel > 0 /\ cfg' = cfg
      BY <1>5, <2>2
    <3>2. PICK t \in Nat : t <= now /\ quarantineUntil = t + Cooldown(cfg, quarantineLevel - 1)
      BY <3>1 DEF ReleaseInv
    <3>3. t <= now' /\ quarantineUntil' = t + Cooldown(cfg', quarantineLevel' - 1)
      BY <1>2, <1>5, <3>1, <3>2
    <3> QED BY <3>3
  <2> QED BY <1>1, <2>1, <2>2 DEF ReleaseInv, Cooldown, Doubled
<1> QED BY <1>3, <1>4, <1>5, LevelSteps DEF ReleaseInv

(* A path that fails again while it is parked stays parked at least as     *)
(* long: with thresholds unchanged no trip brings the release forward.     *)
THEOREM ReleaseNeverComesForward == TrackerSpec => NeverReleasedSooner
<1> DEFINE Step == (quarantineLevel' > quarantineLevel /\ steady /\ cfg' = cfg) =>
                       quarantineUntil' >= quarantineUntil
<1>1. TrackerInit => ReleaseInv
  BY TrackerAssumption DEF TrackerInit, ReleaseInv, CoreInv, CleanIffUp
<1>2. ReleaseInv /\ [TrackerNext]_trackerVars => ReleaseInv'
  BY ReleaseSteps
<1>3. ReleaseInv /\ [TrackerNext]_trackerVars => [Step]_trackerVars
  <2> SUFFICES ASSUME ReleaseInv, [TrackerNext]_trackerVars, quarantineLevel' > quarantineLevel, steady
               PROVE  quarantineUntil' >= quarantineUntil
    OBVIOUS
  <2>1. /\ cfg \in Cfg /\ now \in Nat
        /\ quarantineLevel \in Nat /\ quarantineUntil \in Nat
    BY DEF ReleaseInv, CoreInv
  <2>2. quarantineUntil' = now + Cooldown(cfg, quarantineLevel)
    <3>1. quarantineLevel' # 0 /\ quarantineLevel' # quarantineLevel
      BY <2>1
    <3> QED BY <2>1, <3>1, LevelSteps, Zenon DEF ReleaseInv
  <2>3. Cooldown(cfg, quarantineLevel) \in Nat
    BY <2>1, CooldownClamped, TrackerAssumption
  <2>4. CASE quarantineLevel = 0
    BY <2>1, <2>2, <2>3, <2>4 DEF ReleaseInv
  <2>5. CASE quarantineLevel # 0
    <3> DEFINE k == quarantineLevel - 1
    <3>1. k \in Nat /\ k + 1 = quarantineLevel /\ quarantineLevel > 0
      BY <2>1, <2>5
    <3>2. PICK t \in Nat : t <= now /\ quarantineUntil = t + Cooldown(cfg, k)
      BY <3>1 DEF ReleaseInv
    <3> HIDE DEF k
    <3>3. Cooldown(cfg, k + 1) >= Cooldown(cfg, k) /\ Cooldown(cfg, k) \in Nat
      BY <2>1, <3>1, CooldownGrows, CooldownClamped, TrackerAssumption
    <3> QED BY <2>1, <2>2, <2>3, <3>1, <3>2, <3>3
  <2> QED BY <2>4, <2>5
<1> QED BY <1>1, <1>2, <1>3, PTL DEF TrackerSpec, NeverReleasedSooner

-----------------------------------------------------------------------------
(* The loop that prunes.                                                   *)

Sorted(s) == \A i, j \in 1..Len(s) : i <= j => s[i] <= s[j]

(* kept is s without its first k entries.                                  *)
Drops(kept, s, k) ==
    /\ kept \in Seq(Nat) /\ Len(kept) = Len(s) - k
    /\ \A j \in 1..Len(kept) : kept[j] = s[j + k]

(* In a sorted sequence the entries out of the window come first.          *)
LEMMA WindowCut ==
    ASSUME NEW s \in Seq(Nat), Sorted(s), now \in Nat, cfg.window \in Nat
    PROVE  \E k \in 0..Len(s) : /\ \A i \in 1..k : ~InWindow(s[i])
                                /\ \A i \in (k + 1)..Len(s) : InWindow(s[i])
<1> DEFINE Cut(k, n) == /\ \A i \in 1..k : ~InWindow(s[i])
                        /\ \A i \in (k + 1)..n : InWindow(s[i])
           T == {n \in Nat : n <= Len(s) => \E k \in 0..n : Cut(k, n)}
<1>0. Len(s) \in Nat
  OBVIOUS
<1>1. 0 \in T
  <2>1. Cut(0, 0)
    OBVIOUS
  <2> QED BY <2>1
<1>2. ASSUME NEW n \in T PROVE n + 1 \in T
  <2> SUFFICES ASSUME n + 1 <= Len(s) PROVE \E k \in 0..(n + 1) : Cut(k, n + 1)
    OBVIOUS
  <2>1. n \in Nat /\ n <= Len(s)
    BY <1>0
  <2>2. PICK k \in 0..n : Cut(k, n)
    BY <2>1
  <2>3. CASE InWindow(s[n + 1])
    <3> HIDE DEF T
    <3>1. Cut(k, n + 1)
      BY <2>1, <2>2, <2>3
    <3>2. k \in 0..(n + 1)
      BY <2>1
    <3> HIDE DEF Cut
    <3> QED BY <3>1, <3>2
  <2>4. CASE ~InWindow(s[n + 1])
    <3> HIDE DEF T
    <3>1. ASSUME NEW i \in 1..(n + 1) PROVE ~InWindow(s[i])
      <4>1. s[i] <= s[n + 1] /\ s[i] \in Nat /\ s[n + 1] \in Nat
        BY <1>0, <2>1 DEF Sorted
      <4> QED BY <2>4, <4>1 DEF InWindow
    <3>2. Cut(n + 1, n + 1)
      BY <2>1, <3>1
    <3>3. n + 1 \in 0..(n + 1)
      BY <2>1
    <3> HIDE DEF Cut
    <3> QED BY <3>2, <3>3
  <2> QED BY <2>3, <2>4
<1>3. T = Nat
  <2> HIDE DEF T
  <2>1. T \in SUBSET Nat
    BY DEF T
  <2> QED BY <1>1, <1>2, <2>1, Induction
<1>4. Len(s) \in T
  BY <1>0, <1>3
<1> QED BY <1>0, <1>4

(* What recordFailure's loop computes: it drops the entries out of the     *)
(* window, which are the oldest.                                           *)
LEMMA KeptIs ==
    ASSUME NEW s \in Seq(Nat), Sorted(s), now \in Nat, cfg.window \in Nat
    PROVE  \E k \in 0..Len(s) : /\ Drops(Kept(s), s, k)
                                /\ \A i \in 1..k : ~InWindow(s[i])
<1>0. Len(s) \in Nat
  OBVIOUS
<1>1. PICK k \in 0..Len(s) : /\ \A i \in 1..k : ~InWindow(s[i])
                             /\ \A i \in (k + 1)..Len(s) : InWindow(s[i])
  BY WindowCut
<1> DEFINE Eq(f) == f = [i \in 0..Len(s) |->
                            IF i = 0 THEN <<>>
                            ELSE IF InWindow(s[i]) THEN Append(f[i - 1], s[i]) ELSE f[i - 1]]
           Tail0(n) == [j \in 1..n |-> s[j + k]]
           W == [i \in 0..Len(s) |-> IF i <= k THEN <<>> ELSE Tail0(i - k)]
<1>2. ASSUME NEW i \in 1..Len(s)
      PROVE  W[i] = IF InWindow(s[i]) THEN Append(W[i - 1], s[i]) ELSE W[i - 1]
  <2>1. CASE i <= k
    BY <1>0, <1>1, <2>1
  <2>2. CASE i > k
    <3> DEFINE n == (i - 1) - k
    <3>1. n \in Nat /\ n + k = i - 1 /\ i - 1 \in 0..Len(s) /\ i - k = n + 1 /\ InWindow(s[i])
      BY <1>0, <1>1, <2>2
    <3>2. W[i] = Tail0(n + 1)
      BY <1>0, <2>2, <3>1
    <3>3. W[i - 1] = Tail0(n)
      BY <1>0, <2>2, <3>1
    <3>4. \A j \in 1..(n + 1) : s[j + k] \in Nat
      BY <1>0, <3>1
    <3>5. Tail0(n) \in Seq(Nat) /\ Len(Tail0(n)) = n
      BY <3>1, <3>4
    <3>6. Append(Tail0(n), s[i]) = Tail0(n + 1)
      <4>1. s[(n + 1) + k] = s[i]
        BY <3>1
      <4> QED BY <3>1, <3>4, <3>5, <4>1
    <3> QED BY <3>1, <3>2, <3>3, <3>6
  <2> QED BY <1>0, <2>1, <2>2
<1>3. Eq(W)
  <2>1. W[0] = <<>>
    BY <1>0
  <2> HIDE DEF W
  <2>2. W = [i \in 0..Len(s) |-> W[i]]
    BY DEF W
  <2>3. ASSUME NEW i \in 0..Len(s)
        PROVE  W[i] = IF i = 0 THEN <<>>
                      ELSE IF InWindow(s[i]) THEN Append(W[i - 1], s[i]) ELSE W[i - 1]
    BY <1>0, <1>2, <2>1
  <2> QED BY <2>2, <2>3
<1> DEFINE F == CHOOSE f : Eq(f)
<1>4. Eq(F)
  <2> HIDE DEF Eq
  <2> QED BY <1>3, Zenon
<1>5. Kept(s) = F[Len(s)]
  BY DEF Kept
<1> HIDE DEF F, W
<1>6. F[Len(s)] = W[Len(s)]
  <2> DEFINE T == {i \in Nat : i <= Len(s) => F[i] = W[i]}
  <2>1. 0 \in T
    BY <1>0, <1>3, <1>4
  <2>2. ASSUME NEW i \in T PROVE i + 1 \in T
    <3> SUFFICES ASSUME i + 1 <= Len(s) PROVE F[i + 1] = W[i + 1]
      OBVIOUS
    <3>1. i \in Nat /\ F[i] = W[i]
      BY <1>0
    <3>2. i + 1 \in 0..Len(s) /\ i + 1 # 0 /\ (i + 1) - 1 = i
      BY <1>0, <3>1
    <3> DEFINE m == i + 1
    <3>3. \A f : Eq(f) => f[m] = IF InWindow(s[m]) THEN Append(f[m - 1], s[m]) ELSE f[m - 1]
      BY <3>2
    <3> HIDE DEF Eq
    <3>4. /\ F[m] = IF InWindow(s[m]) THEN Append(F[m - 1], s[m]) ELSE F[m - 1]
          /\ W[m] = IF InWindow(s[m]) THEN Append(W[m - 1], s[m]) ELSE W[m - 1]
      BY <1>3, <1>4, <3>3
    <3> QED BY <3>1, <3>2, <3>4
  <2>3. T = Nat
    <3> HIDE DEF T
    <3>1. T \in SUBSET Nat
      BY DEF T
    <3> QED BY <2>1, <2>2, <3>1, Induction
  <2> QED BY <1>0, <2>3
<1>7. Drops(W[Len(s)], s, k)
  <2>1. CASE k = Len(s)
    BY <1>0, <2>1 DEF W, Drops
  <2>2. CASE k # Len(s)
    <3> DEFINE n == Len(s) - k
    <3>1. n \in Nat /\ W[Len(s)] = Tail0(n)
      BY <1>0, <2>2 DEF W
    <3>2. \A j \in 1..n : s[j + k] \in Nat
      BY <1>0
    <3>3. Tail0(n) \in Seq(Nat) /\ Len(Tail0(n)) = n /\ \A j \in 1..n : Tail0(n)[j] = s[j + k]
      BY <3>1, <3>2
    <3> QED BY <3>1, <3>3 DEF Drops
  <2> QED BY <2>1, <2>2
<1> QED BY <1>1, <1>5, <1>6, <1>7

(* The tracker's list is the tail of the condemnations since the last      *)
(* reset, in the order of their times.                                     *)
TailInv ==
    /\ CoreInv
    /\ failures \in Seq(Nat) /\ downs \in Seq(Nat)
    /\ Sorted(downs) /\ \A i \in 1..Len(downs) : downs[i] <= now
    /\ Len(failures) <= Len(downs)
    /\ \A j \in 1..Len(failures) : failures[j] = downs[j + (Len(downs) - Len(failures))]

(* With thresholds unchanged the list is short of the threshold, and what  *)
(* was pruned from it had left the window by the last condemnation.        *)
PrunedInv ==
    (steady /\ cfg.flap > 0) =>
        /\ Len(failures) < cfg.flap
        /\ \A i \in 1..(Len(downs) - Len(failures)) :
              downs[i] <= downs[Len(downs)] - cfg.window
        /\ FlapsAreCaught

(* A value that is no smaller goes at the end of a sorted sequence.        *)
LEMMA SortedAppend ==
    ASSUME NEW s \in Seq(Nat), Sorted(s), NEW e \in Nat, \A i \in 1..Len(s) : s[i] <= e
    PROVE  /\ Append(s, e) \in Seq(Nat) /\ Sorted(Append(s, e))
           /\ \A i \in 1..Len(Append(s, e)) : Append(s, e)[i] <= e
<1> DEFINE n == Len(s)
           t == Append(s, e)
<1>1. n \in Nat /\ t \in Seq(Nat) /\ Len(t) = n + 1 /\ t[n + 1] = e
  OBVIOUS
<1>2. \A i \in 1..n : t[i] = s[i]
  OBVIOUS
<1>3. \A i \in 1..n : s[i] <= e
  OBVIOUS
<1>4. \A i, j \in 1..n : i <= j => s[i] <= s[j]
  BY DEF Sorted
<1> HIDE DEF n, t
<1>5. ASSUME NEW i \in 1..(n + 1) PROVE t[i] <= e
  <2>1. CASE i = n + 1
    BY <1>1, <2>1
  <2>2. CASE i # n + 1
    <3>1. i \in 1..n
      BY <1>1, <2>2
    <3> QED BY <1>2, <1>3, <3>1
  <2> QED BY <2>1, <2>2
<1>6. ASSUME NEW i \in 1..(n + 1), NEW j \in 1..(n + 1), i <= j PROVE t[i] <= t[j]
  <2>1. CASE j = n + 1
    BY <1>1, <1>5, <2>1
  <2>2. CASE j # n + 1
    <3>1. i \in 1..n /\ j \in 1..n
      BY <1>1, <1>6, <2>2
    <3> QED BY <1>2, <1>4, <1>6, <3>1
  <2> QED BY <2>1, <2>2
<1>7. Sorted(t)
  BY <1>1, <1>6 DEF Sorted
<1> QED BY <1>1, <1>5, <1>7 DEF t

(* The list with the new failure in it is sorted, and so is the history.   *)
LEMMA AppendNow ==
    ASSUME TailInv
    PROVE  /\ Append(failures, now) \in Seq(Nat) /\ Sorted(Append(failures, now))
           /\ Append(downs, now) \in Seq(Nat) /\ Sorted(Append(downs, now))
           /\ \A i \in 1..Len(Append(downs, now)) : Append(downs, now)[i] <= now
<1> DEFINE F == Len(failures)
           D == Len(downs)
<1>1. /\ F \in Nat /\ D \in Nat /\ now \in Nat /\ F <= D
      /\ failures \in Seq(Nat) /\ downs \in Seq(Nat)
  BY DEF TailInv, CoreInv
<1>2. /\ Sorted(downs) /\ \A i \in 1..D : downs[i] <= now
      /\ \A i \in 1..F : failures[i] = downs[i + (D - F)]
  BY DEF TailInv
<1>3. ASSUME NEW i \in 1..F PROVE failures[i] <= now
  <2>1. i + (D - F) \in 1..D
    BY <1>1
  <2> QED BY <1>2, <2>1
<1>4. ASSUME NEW i \in 1..F, NEW j \in 1..F, i <= j PROVE failures[i] <= failures[j]
  <2>1. i + (D - F) \in 1..D /\ j + (D - F) \in 1..D /\ i + (D - F) <= j + (D - F)
    BY <1>1, <1>4
  <2>2. downs[i + (D - F)] <= downs[j + (D - F)]
    BY <1>2, <2>1 DEF Sorted
  <2> QED BY <1>2, <2>2
<1>5. Sorted(failures)
  BY <1>4 DEF Sorted
<1> QED BY <1>1, <1>2, <1>3, <1>5, SortedAppend

(* The failure is recorded, and the breaker does not trip.                 *)
LEMMA RecordsKeep ==
    ASSUME TailInv, PrunedInv, CoreInv', now' = now, cfg' = cfg, steady' = steady,
           failures' = Kept(Append(failures, now)), downs' = Append(downs, now),
           cfg.flap = 0 \/ Len(failures') < cfg.flap
    PROVE  TailInv' /\ PrunedInv'
<1> DEFINE F == Len(failures)
           D == Len(downs)
           F1 == Len(failures')
           s == Append(failures, now)
<1>1. /\ F \in Nat /\ D \in Nat /\ now \in Nat /\ F <= D
      /\ cfg.window \in Nat /\ cfg.flap \in Nat
      /\ failures \in Seq(Nat) /\ downs \in Seq(Nat)
  BY DEF TailInv, CoreInv, Cfg
<1>2. /\ Len(s) = F + 1 /\ Len(downs') = D + 1
      /\ \A i \in 1..F : s[i] = failures[i]
      /\ \A i \in 1..D : downs'[i] = downs[i]
      /\ s[F + 1] = now /\ downs'[D + 1] = now
  BY <1>1
<1>3. PICK k \in 0..(F + 1) : Drops(failures', s, k) /\ \A i \in 1..k : ~InWindow(s[i])
  <2>1. s \in Seq(Nat) /\ Sorted(s)
    BY AppendNow
  <2> QED BY <1>1, <1>2, <2>1, KeptIs
<1>4. /\ failures' \in Seq(Nat) /\ F1 = (F + 1) - k /\ F1 \in Nat
      /\ \A j \in 1..F1 : failures'[j] = s[j + k]
  BY <1>1, <1>2, <1>3 DEF Drops
<1>5. downs' \in Seq(Nat) /\ Sorted(downs') /\ \A i \in 1..Len(downs') : downs'[i] <= now
  BY AppendNow
<1>6. \A i \in 1..(F + 1) : s[i] = downs'[i + (D - F)]
  <2>1. \A i \in 1..F : failures[i] = downs[i + (D - F)]
    BY DEF TailInv
  <2> HIDE DEF s, F, D
  <2> SUFFICES ASSUME NEW i \in 1..(F + 1) PROVE s[i] = downs'[i + (D - F)]
    OBVIOUS
  <2>2. CASE i = F + 1
    <3>1. i + (D - F) = D + 1
      BY <1>1, <2>2
    <3> QED BY <1>2, <2>2, <3>1
  <2>3. CASE i # F + 1
    <3>1. i \in 1..F /\ i + (D - F) \in 1..D
      BY <1>1, <2>3
    <3> QED BY <1>2, <2>1, <3>1
  <2> QED BY <2>2, <2>3
<1> HIDE DEF s, F, D, F1
<1>7. ASSUME NEW j \in 1..F1 PROVE failures'[j] = downs'[j + ((D + 1) - F1)]
  <2>1. j + k \in 1..(F + 1) /\ (j + k) + (D - F) = j + ((D + 1) - F1)
    BY <1>1, <1>3, <1>4
  <2> QED BY <1>4, <1>6, <2>1
<1>8. TailInv'
  <2>1. F1 <= D + 1
    BY <1>1, <1>4
  <2> QED BY <1>2, <1>4, <1>5, <1>7, <2>1 DEF TailInv, Sorted, F1
<1>9. ASSUME steady, cfg.flap > 0 PROVE PrunedInv'
  <2>1. F1 < cfg.flap
    BY <1>1, <1>9 DEF F1
  <2>2. \A i \in 1..(D - F) : downs[i] <= downs[D] - cfg.window
    BY <1>9 DEF PrunedInv, D, F
  <2>3. \A i \in 1..D : downs[i] \in Nat /\ downs[i] <= now
    BY <1>1 DEF TailInv, D
  <2>4. ASSUME NEW i \in 1..((D + 1) - F1) PROVE downs'[i] <= now - cfg.window
    <3>1. CASE i <= D - F
      <4>1. downs'[i] = downs[i] /\ downs[i] <= downs[D] - cfg.window /\ downs[D] <= now
            /\ downs[i] \in Nat /\ downs[D] \in Nat
        BY <1>1, <1>2, <2>2, <2>3, <3>1
      <4> DEFINE x == downs[i]
                 y == downs[D]
                 w == cfg.window
      <4>2. x \in Nat /\ y \in Nat /\ w \in Nat /\ x <= y - w /\ y <= now /\ now \in Nat
        BY <1>1, <4>1
      <4> HIDE DEF x, y, w
      <4>3. x <= now - w
        BY <4>2
      <4> QED BY <4>1, <4>3 DEF x, w
    <3>2. CASE i > D - F
      <4> DEFINE j == i - (D - F)
      <4>1. j \in 1..k /\ j \in 1..(F + 1) /\ j + (D - F) = i
        BY <1>1, <1>3, <1>4, <3>2
      <4> HIDE DEF j
      <4>2. downs'[i] = s[j] /\ ~InWindow(s[j])
        BY <1>3, <1>6, <4>1
      <4>3. s[j] \in Nat
        <5>1. i \in 1..Len(downs')
          BY <1>1, <1>2, <1>4
        <5> QED BY <1>5, <4>2, <5>1
      <4> QED BY <1>1, <4>2, <4>3 DEF InWindow
    <3>3. i \in Int
      OBVIOUS
    <3>4. i <= D - F \/ i > D - F
      BY <1>1, <3>3
    <3> QED BY <3>1, <3>2, <3>4
  <2>5. FlapsAreCaught'
    <3>1. ASSUME NEW i \in 1..(D + 1), i + cfg.flap - 1 <= D + 1
          PROVE  downs'[i + cfg.flap - 1] - downs'[i] >= cfg.window
      <4> DEFINE e == i + cfg.flap - 1
      <4>0. e \in 1..(D + 1)
        BY <1>1, <1>9, <3>1
      <4>1. CASE e = D + 1
        <5>1. i \in 1..((D + 1) - F1)
          BY <1>1, <1>4, <2>1, <4>1
        <5>2. downs'[i] <= now - cfg.window /\ downs'[e] = now
          BY <1>2, <2>4, <4>1, <5>1
        <5>3. downs'[i] \in Nat
          BY <1>1, <1>2, <1>5
        <5> DEFINE x == downs'[i]
        <5> HIDE DEF e, x
        <5>4. x \in Nat /\ x <= now - cfg.window
          BY <5>2, <5>3 DEF x
        <5>5. now - x >= cfg.window
          BY <1>1, <5>4
        <5> QED BY <5>2, <5>5 DEF e, x
      <4>2. CASE e # D + 1
        <5>1. e \in 1..D /\ i \in 1..D
          BY <1>1, <1>9, <4>0, <4>2
        <5>2. downs[e] - downs[i] >= cfg.window
          <6>1. \A x \in 1..D : x + cfg.flap - 1 <= D =>
                    downs[x + cfg.flap - 1] - downs[x] >= cfg.window
            BY <1>9 DEF PrunedInv, FlapsAreCaught, D
          <6>2. i + cfg.flap - 1 <= D
            BY <1>1, <5>1
          <6> QED BY <5>1, <6>1, <6>2
        <5>3. downs'[e] = downs[e] /\ downs'[i] = downs[i]
          BY <1>2, <5>1
        <5> QED BY <5>2, <5>3
      <4> QED BY <4>1, <4>2
    <3> QED BY <1>2, <3>1 DEF FlapsAreCaught
  <2> QED BY <1>1, <1>2, <2>1, <2>4, <2>5 DEF PrunedInv, F1
<1> QED BY <1>1, <1>8, <1>9 DEF PrunedInv

LEMMA FlapSteps ==
    ASSUME TailInv, PrunedInv, [TrackerNext]_trackerVars
    PROVE  TailInv' /\ PrunedInv'
<1>1. CoreInv' /\ CoreInv
  BY StreakSteps DEF TailInv
<1>2. ASSUME failures' = <<>>, downs' = <<>> PROVE TailInv' /\ PrunedInv'
  <2>1. cfg'.flap \in Nat
    BY <1>1 DEF CoreInv, Cfg
  <2> QED BY <1>1, <1>2, <2>1 DEF TailInv, PrunedInv, FlapsAreCaught, Sorted
<1>3. ASSUME failures' = failures, downs' = downs, now' = now \/ now' = now + 1,
             steady' = FALSE \/ (steady' = steady /\ cfg' = cfg)
      PROVE  TailInv' /\ PrunedInv'
  <2>1. now \in Nat /\ downs \in Seq(Nat) /\ \A i \in 1..Len(downs) : downs[i] <= now
    BY DEF TailInv, CoreInv
  <2>2. \A i \in 1..Len(downs) : downs[i] <= now'
    BY <1>3, <2>1
  <2>3. TailInv'
    BY <1>1, <1>3, <2>2 DEF TailInv, Sorted
  <2>4. PrunedInv'
    BY <1>3 DEF PrunedInv, FlapsAreCaught
  <2> QED BY <2>3, <2>4
<1>4. CASE ObserveLoss
  <2>1. CASE UNCHANGED breakerVars
    BY <1>3, <1>4, <2>1 DEF ObserveLoss, breakerVars
  <2>2. CASE RecordFailure
    <3>1. CASE failures' = <<>> /\ downs' = <<>>
      BY <1>2, <3>1
    <3>2. CASE ~(failures' = <<>> /\ downs' = <<>>)
      <4>1. /\ failures' = Kept(Append(failures, now)) /\ downs' = Append(downs, now)
            /\ ~(cfg.flap > 0 /\ Len(failures') >= cfg.flap) /\ steady' = steady
        BY <2>2, <3>2 DEF RecordFailure
      <4>2. cfg' = cfg /\ now' = now
        BY <1>4 DEF ObserveLoss
      <4>3. failures' \in Seq(Nat) /\ cfg.flap \in Nat
        <5>1. /\ Append(failures, now) \in Seq(Nat) /\ Sorted(Append(failures, now))
              /\ now \in Nat /\ cfg.window \in Nat /\ cfg.flap \in Nat
          BY AppendNow DEF TailInv, CoreInv, Cfg
        <5> QED BY <4>1, <5>1, KeptIs DEF Drops
      <4>4. cfg.flap = 0 \/ Len(failures') < cfg.flap
        BY <4>1, <4>3
      <4> QED BY <1>1, <4>1, <4>2, <4>4, RecordsKeep
    <3> QED BY <3>1, <3>2
  <2> QED BY <1>4, <2>1, <2>2 DEF ObserveLoss
<1>5. CASE ObserveReply
  BY <1>3, <1>5, Zenon DEF ObserveReply, breakerVars
<1>6. CASE Retune
  BY <1>3, <1>6 DEF Retune
<1>7. CASE ClearQuarantine
  BY <1>2, <1>7 DEF ClearQuarantine
<1>8. CASE Tick
  BY <1>3, <1>8 DEF Tick, breakerVars
<1>9. CASE UNCHANGED trackerVars
  BY <1>3, <1>9 DEF trackerVars, breakerVars
<1> QED BY <1>4, <1>5, <1>6, <1>7, <1>8, <1>9 DEF TrackerNext

(* No path is condemned FlapThreshold times within the window without      *)
(* being quarantined, for every setting and every history of failures,     *)
(* however often and however unevenly the list was pruned.                 *)
THEOREM BreakerCatchesFlaps == TrackerSpec => []FlapsAreCaught
<1>1. TrackerInit => TailInv /\ PrunedInv
  BY TrackerAssumption DEF TrackerInit, TailInv, PrunedInv, FlapsAreCaught, Sorted, CoreInv,
                           CleanIffUp, Cfg
<1>2. TailInv /\ PrunedInv /\ [TrackerNext]_trackerVars => (TailInv /\ PrunedInv)'
  BY FlapSteps
<1>3. TailInv /\ PrunedInv => FlapsAreCaught
  BY DEF PrunedInv, FlapsAreCaught
<1> QED BY <1>1, <1>2, <1>3, PTL DEF TrackerSpec
=============================================================================
