------------------------------- MODULE Prober -------------------------------
(***************************************************************************)
(* One generation of one path's prober (internal/engine/prober.go): the    *)
(* goroutine that sends probes down one tunnel (Run, loop, hold, flush),   *)
(* the goroutine that reads replies (readLoop, resolve), the network       *)
(* between them, and the engine that consumes results, nudges the prober   *)
(* after a switch and cancels it.                                          *)
(*                                                                         *)
(* The two goroutines share pending, resolved and deliver under p.mu; each *)
(* critical section is one action.  A nonce is a natural number: probe s   *)
(* draws nonce s, which stands for "fresh": no two probes of any           *)
(* generation or path share one, and 0 is a nonce some other generation    *)
(* or path drew.                                                           *)
(***************************************************************************)
EXTENDS Naturals, Sequences, FiniteSets

CONSTANTS Seed,             \* where this generation starts counting (seedSeq)
          Paths,            \* the configured paths
          Path,             \* the one being measured
          StaleReplies,     \* authentic replies made for other probes
          ChanCap,          \* capacity of the results channel
          MaxProbes,        \* bound: probes booked by one generation
          MaxDecisions,     \* bound: switches committed by the engine
          MaxSocketDeaths   \* bound: read errors the kernel reports

ASSUME SeedAssumption == Seed \in Nat
ASSUME ChanAssumption == ChanCap \in Nat \ {0}
ASSUME BoundAssumption == /\ MaxProbes \in Nat
                          /\ MaxDecisions \in Nat
                          /\ MaxSocketDeaths \in Nat
Message(T, N) == [type : T, path : Paths, seq : Nat, nonce : N]
ASSUME PathAssumption == Path \in Paths
ASSUME StaleAssumption == StaleReplies \subseteq Message({"reply"}, {0})

VARIABLES pc,         \* where the Run goroutine is
          after,      \* where it goes when flush (or stop) returns
          reader,     \* the readLoop goroutine: "none", "reading", "gone"
          dead,       \* loop's own context is cancelled
          cancelled,  \* Run's context is cancelled (stopProbers)
          seq,        \* last sequence number used
          deliver,    \* next sequence number flush emits
          pending,    \* outstanding probes: sequence -> nonce
          resolved,   \* decided, not yet emitted: sequence -> lost?
          inHand,     \* the result flush has taken out of resolved
          results,    \* everything ever put on the results channel
          taken,      \* how many of those the engine has read
          nudge,      \* a nudge is queued
          owed,       \* commitSwitch has changed the decision, not yet nudged
          decision,   \* the engine's decision number
          reading,    \* the decision send() has read for the probe it builds
          carried,    \* the decision on the last probe built
          cutoff,     \* probes up to here have been out longer than TimeoutMs
          wire,       \* every packet the network may deliver, again and again
          deaths,     \* read errors so far
          dropped     \* results flush gave up on because its context ended

runVars == <<pc, after>>
sockVars == <<reader, dead, deaths>>
bookVars == <<seq, pending, resolved>>
outVars == <<deliver, inHand, results, dropped>>
decVars == <<nudge, owed, decision, reading, carried>>
vars == <<runVars, sockVars, cancelled, bookVars, outVars, taken, decVars,
          cutoff, wire>>

Result == [seq : Nat, lost : BOOLEAN]
ReplyTo(s) == [type |-> "reply", path |-> Path, seq |-> s, nonce |-> s]
Room == seq < Seed + MaxProbes
EmittedSeqs == {results[i].seq : i \in 1..Len(results)}

-----------------------------------------------------------------------------
(* p.markLost for every sequence in S, under p.mu.                         *)
MarkLost(S) ==
    /\ pending' = [s \in DOMAIN pending \ S |-> pending[s]]
    /\ resolved' = [s \in DOMAIN resolved \cup S |->
                        IF s \in S THEN TRUE ELSE resolved[s]]

(* p.expire: every outstanding probe older than the timeout is lost.       *)
Expire == MarkLost({s \in DOMAIN pending : s <= cutoff}) /\ UNCHANGED seq

-----------------------------------------------------------------------------
(* NewProber.                                                              *)
Init ==
    /\ pc = "dial" /\ after = "dial"
    /\ reader = "none" /\ dead = FALSE /\ deaths = 0
    /\ cancelled = FALSE
    /\ seq = Seed /\ deliver = Seed + 1
    /\ pending = [s \in {} |-> 0] /\ resolved = [s \in {} |-> FALSE]
    /\ inHand = [seq |-> Seed, lost |-> FALSE]
    /\ results = <<>> /\ taken = 0 /\ dropped = {}
    /\ nudge = FALSE /\ owed = FALSE
    /\ decision = 0 /\ reading = 0 /\ carried = 0
    /\ cutoff = Seed
    /\ wire = StaleReplies

(* Run: the context is checked before every dial.                          *)
RunEnds ==
    /\ pc = "dial" /\ cancelled
    /\ pc' = "done"
    /\ UNCHANGED <<after, sockVars, cancelled, bookVars, outVars, taken,
                   decVars, cutoff, wire>>

(* dial opens a socket; loop starts its reader and nudges itself.          *)
DialOpens ==
    /\ pc = "dial" /\ ~cancelled
    /\ pc' = "loop" /\ reader' = "reading" /\ dead' = FALSE
    /\ nudge' = TRUE
    /\ UNCHANGED <<after, deaths, cancelled, bookVars, outVars, taken, owed,
                   decision, reading, carried, cutoff, wire>>

(* dial fails: reportUnreachable holds, then books a loss.                 *)
DialFails ==
    /\ pc = "dial" /\ ~cancelled
    /\ pc' = "hold" /\ after' = "book"
    /\ UNCHANGED <<sockVars, cancelled, bookVars, outVars, taken, decVars,
                   cutoff, wire>>

(* Faulty: the hold does not sweep.                                        *)
HoldWithoutSweep ==
    /\ pc = "hold"
    /\ pc' = "flush"
    /\ UNCHANGED <<after, sockVars, cancelled, bookVars, outVars, taken,
                   decVars, cutoff, wire>>

(* hold: the interval passes, then the sweep.                              *)
HoldElapses ==
    /\ pc = "hold"
    /\ Expire
    /\ pc' = "flush"
    /\ UNCHANGED <<after, sockVars, cancelled, outVars, taken, decVars,
                   cutoff, wire>>

HoldCancelled ==
    /\ pc = "hold" /\ cancelled
    /\ pc' = "dial" /\ after' = "dial"
    /\ UNCHANGED <<sockVars, cancelled, bookVars, outVars, taken, decVars,
                   cutoff, wire>>

(* The second half of reportUnreachable: a probe that never left is lost.  *)
(* Past the bound nothing is booked, so that dial may go on failing.       *)
Book ==
    /\ pc = "book"
    /\ IF Room THEN seq' = seq + 1 /\ MarkLost({seq + 1})
               ELSE UNCHANGED bookVars
    /\ pc' = "flush" /\ after' = "dial"
    /\ UNCHANGED <<sockVars, cancelled, outVars, taken, decVars, cutoff, wire>>

(* loop's select picks the ticker or a queued nudge; send() first reads    *)
(* the decision, then draws a nonce.                                       *)
TickSend ==
    /\ pc = "loop" /\ Room
    /\ pc' = "write" /\ reading' = decision
    /\ UNCHANGED <<after, sockVars, cancelled, bookVars, outVars, taken,
                   nudge, owed, decision, carried, cutoff, wire>>

NudgeSend ==
    /\ pc = "loop" /\ Room /\ nudge
    /\ pc' = "write" /\ reading' = decision /\ nudge' = FALSE
    /\ UNCHANGED <<after, sockVars, cancelled, bookVars, outVars, taken,
                   owed, decision, carried, cutoff, wire>>

(* send(): the probe is outstanding before the write.                      *)
Outstanding ==
    /\ seq' = seq + 1
    /\ pending' = [s \in DOMAIN pending \cup {seq + 1} |->
                       IF s = seq + 1 THEN s ELSE pending[s]]
    /\ carried' = reading
    /\ UNCHANGED resolved

WriteOk ==
    /\ pc = "write"
    /\ Outstanding
    /\ wire' = wire \cup {[type |-> "probe", path |-> Path,
                           seq |-> seq + 1, nonce |-> seq + 1]}
    /\ pc' = "loop"
    /\ UNCHANGED <<after, sockVars, cancelled, outVars, taken, nudge, owed,
                   decision, reading, cutoff>>

WriteRefused ==
    /\ pc = "write"
    /\ Outstanding
    /\ pc' = "refused"
    /\ UNCHANGED <<after, sockVars, cancelled, outVars, taken, nudge, owed,
                   decision, reading, cutoff, wire>>

(* Faulty: the context is cancelled before the flush.                      *)
SendFailedStopsFirst ==
    /\ pc = "refused"
    /\ MarkLost({seq}) /\ UNCHANGED seq
    /\ dead' = TRUE
    /\ pc' = "flush" /\ after' = "stop"
    /\ UNCHANGED <<reader, deaths, cancelled, outVars, taken, decVars, cutoff,
                   wire>>

(* sendFailed: the refused probe is booked as lost, flushed, and only then *)
(* is the socket given up.                                                 *)
SendFailed ==
    /\ pc = "refused"
    /\ MarkLost({seq}) /\ UNCHANGED seq
    /\ pc' = "flush" /\ after' = "stop"
    /\ UNCHANGED <<sockVars, cancelled, outVars, taken, decVars, cutoff, wire>>

Sweep ==
    /\ pc = "loop"
    /\ Expire
    /\ pc' = "flush" /\ after' = "loop"
    /\ UNCHANGED <<sockVars, cancelled, outVars, taken, decVars, cutoff, wire>>

(* stop(): cancel first, then wait for the reader.  loop also stops when   *)
(* its context ends, without a hold before the next dial.                  *)
Stop ==
    /\ pc = "stop"
    /\ dead' = TRUE
    /\ pc' = "stopping" /\ after' = "hold"
    /\ UNCHANGED <<reader, deaths, cancelled, bookVars, outVars, taken,
                   decVars, cutoff, wire>>

LoopDone ==
    /\ pc = "loop" /\ (dead \/ cancelled)
    /\ dead' = TRUE
    /\ pc' = "stopping" /\ after' = "dial"
    /\ UNCHANGED <<reader, deaths, cancelled, bookVars, outVars, taken,
                   decVars, cutoff, wire>>

Stopped ==
    /\ pc = "stopping" /\ reader = "gone"
    /\ reader' = "none"
    /\ pc' = after /\ after' = "dial"
    /\ UNCHANGED <<dead, deaths, cancelled, bookVars, outVars, taken, decVars,
                   cutoff, wire>>

-----------------------------------------------------------------------------
(* Faulty: flush never hears that the prober is being stopped.             *)
FlushHearsLoopOnly == dead /\ after \in {"loop", "stop"}

(* flush, one pass of its loop per action.  The context it watches is      *)
(* loop's inside loop and Run's inside hold and reportUnreachable.         *)
FlushCtxDone == cancelled \/ (dead /\ after \in {"loop", "stop"})

FlushTakes ==
    /\ pc = "flush" /\ deliver \in DOMAIN resolved
    /\ inHand' = [seq |-> deliver, lost |-> resolved[deliver]]
    /\ resolved' = [s \in DOMAIN resolved \ {deliver} |-> resolved[s]]
    /\ deliver' = deliver + 1
    /\ pc' = "emit"
    /\ UNCHANGED <<after, sockVars, cancelled, seq, pending, results, dropped,
                   taken, decVars, cutoff, wire>>

(* Nothing decided at deliver.  The code skips a sequence that is not      *)
(* outstanding either; NoProbeForgotten says there never is one.           *)
FlushReturns ==
    /\ pc = "flush" /\ deliver \notin DOMAIN resolved
    /\ IF deliver \notin DOMAIN pending /\ deliver < seq
       THEN deliver' = deliver + 1 /\ UNCHANGED pc
       ELSE pc' = after /\ UNCHANGED deliver
    /\ UNCHANGED <<after, sockVars, cancelled, bookVars, inHand, results,
                   dropped, taken, decVars, cutoff, wire>>

Emit ==
    /\ pc = "emit" /\ Len(results) - taken < ChanCap
    /\ results' = Append(results, inHand)
    /\ pc' = "flush"
    /\ UNCHANGED <<after, sockVars, cancelled, bookVars, deliver, inHand,
                   dropped, taken, decVars, cutoff, wire>>

EmitGivesUp ==
    /\ pc = "emit" /\ FlushCtxDone
    /\ dropped' = dropped \cup {inHand.seq}
    /\ pc' = after
    /\ UNCHANGED <<after, sockVars, cancelled, bookVars, deliver, inHand,
                   results, taken, decVars, cutoff, wire>>

-----------------------------------------------------------------------------
(* Faulty: the nonce is not compared.                                      *)
AnswersBySequence(m) ==
    m.type = "reply" /\ m.path = Path /\ m.seq \in DOMAIN pending

(* readLoop and resolve: a packet that authenticates is believed only if   *)
(* it is a reply, for this path, to an outstanding probe, with its nonce.  *)
Answers(m) ==
    /\ m.type = "reply" /\ m.path = Path
    /\ m.seq \in DOMAIN pending
    /\ pending[m.seq] = m.nonce

Resolve(m) ==
    /\ reader = "reading"
    /\ Answers(m)
    /\ pending' = [s \in DOMAIN pending \ {m.seq} |-> pending[s]]
    /\ resolved' = [s \in DOMAIN resolved \cup {m.seq} |->
                        IF s = m.seq THEN FALSE ELSE resolved[s]]
    /\ UNCHANGED <<runVars, sockVars, cancelled, seq, outVars, taken, decVars,
                   cutoff, wire>>

(* The reader returns when its context ends or its socket reports an       *)
(* error, and cancels loop's context on its way out.                       *)
ReaderExits ==
    /\ reader = "reading" /\ (dead \/ cancelled)
    /\ reader' = "gone" /\ dead' = TRUE
    /\ UNCHANGED <<runVars, deaths, cancelled, bookVars, outVars, taken,
                   decVars, cutoff, wire>>

SocketDies ==
    /\ reader = "reading" /\ deaths < MaxSocketDeaths
    /\ reader' = "gone" /\ dead' = TRUE /\ deaths' = deaths + 1
    /\ UNCHANGED <<runVars, cancelled, bookVars, outVars, taken, decVars,
                   cutoff, wire>>

-----------------------------------------------------------------------------
(* The engine: commitSwitch changes the decision and then nudges every     *)
(* prober; Run's loop reads results; stopProbers cancels.                  *)
Commit ==
    /\ ~owed /\ decision < MaxDecisions
    /\ decision' = decision + 1 /\ owed' = TRUE
    /\ UNCHANGED <<runVars, sockVars, cancelled, bookVars, outVars, taken,
                   nudge, reading, carried, cutoff, wire>>

(* Faulty: the switch changes the cadence and sends nothing.               *)
SetActiveOnly ==
    /\ owed
    /\ owed' = FALSE
    /\ UNCHANGED <<runVars, sockVars, cancelled, bookVars, outVars, taken,
                   nudge, decision, reading, carried, cutoff, wire>>

Nudge ==
    /\ owed
    /\ nudge' = TRUE /\ owed' = FALSE
    /\ UNCHANGED <<runVars, sockVars, cancelled, bookVars, outVars, taken,
                   decision, reading, carried, cutoff, wire>>

Consume ==
    /\ taken < Len(results)
    /\ taken' = taken + 1
    /\ UNCHANGED <<runVars, sockVars, cancelled, bookVars, outVars, decVars,
                   cutoff, wire>>

Cancel ==
    /\ ~cancelled
    /\ cancelled' = TRUE
    /\ UNCHANGED <<runVars, sockVars, bookVars, outVars, taken, decVars,
                   cutoff, wire>>

-----------------------------------------------------------------------------
(* The network and the clock.  A packet may be lost (never delivered),     *)
(* duplicated and reordered: wire only grows.  The backend answers a probe *)
(* with its own path, sequence and nonce.                                  *)
Echo(m) ==
    /\ m.type = "probe"
    /\ wire' = wire \cup {[m EXCEPT !.type = "reply"]}
    /\ wire' # wire
    /\ UNCHANGED <<runVars, sockVars, cancelled, bookVars, outVars, taken,
                   decVars, cutoff>>

(* Probes are sent in sequence order, so they time out in that order too.  *)
TimePasses ==
    /\ cutoff < seq
    /\ \E c \in (cutoff + 1)..seq : cutoff' = c
    /\ UNCHANGED <<runVars, sockVars, cancelled, bookVars, outVars, taken,
                   decVars, wire>>

(* Every step of the Run goroutine.                                        *)
RunStep ==
    \/ RunEnds \/ DialOpens \/ DialFails
    \/ HoldElapses \/ HoldCancelled \/ Book
    \/ TickSend \/ NudgeSend \/ WriteOk \/ WriteRefused \/ SendFailed
    \/ Sweep \/ Stop \/ LoopDone \/ Stopped
    \/ FlushTakes \/ FlushReturns \/ Emit \/ EmitGivesUp

ReaderStep == (\E m \in wire : Resolve(m)) \/ ReaderExits \/ SocketDies

EngineStep == Commit \/ Nudge \/ Consume \/ Cancel

NetStep == (\E m \in wire : Echo(m)) \/ TimePasses

(* A finished prober takes no more steps.                                  *)
Finished == pc = "done" /\ UNCHANGED vars

Next == RunStep \/ ReaderStep \/ EngineStep \/ NetStep \/ Finished

Spec == Init /\ [][Next]_vars

(***************************************************************************)
(* Fairness.  The Go scheduler runs a goroutine that can run; the sweep    *)
(* ticker fires every 50 ms and select chooses at random among the ready   *)
(* cases, so the end of the context, ready whenever the loop selects, is   *)
(* not passed over for ever; time passes.  Nothing is assumed of the       *)
(* network, of dial, of the write, or of the engine reading the channel.   *)
(***************************************************************************)
Fairness ==
    /\ WF_vars(RunStep)
    /\ WF_vars(Sweep)
    /\ SF_vars(LoopDone)
    /\ WF_vars(ReaderExits)
    /\ WF_vars(EmitGivesUp)
    /\ WF_vars(TimePasses)

FairSpec == Spec /\ Fairness

-----------------------------------------------------------------------------
(* Types of everything a prober holds (Prober, pendingProbe, Result).      *)
TypeOK ==
    /\ pc \in {"dial", "loop", "write", "refused", "flush", "emit", "stop",
               "stopping", "hold", "book", "done"}
    /\ after \in {"dial", "loop", "stop", "hold", "book"}
    /\ reader \in {"none", "reading", "gone"}
    /\ dead \in BOOLEAN /\ cancelled \in BOOLEAN
    /\ seq \in Nat /\ deliver \in Nat /\ cutoff \in Nat
    /\ DOMAIN pending \subseteq Nat
    /\ \A s \in DOMAIN pending : pending[s] \in Nat
    /\ DOMAIN resolved \subseteq Nat
    /\ \A s \in DOMAIN resolved : resolved[s] \in BOOLEAN
    /\ inHand \in Result
    /\ results \in Seq(Result)
    /\ taken \in 0..Len(results)
    /\ nudge \in BOOLEAN /\ owed \in BOOLEAN
    /\ decision \in Nat /\ reading \in Nat /\ carried \in Nat
    /\ deaths \in Nat
    /\ dropped \subseteq Nat
    /\ wire \subseteq Message({"probe", "reply"}, Nat)

(* Results leave in sequence order and none twice, whatever order replies  *)
(* and timeouts resolve them in: the tracker counts consecutive losses, so *)
(* flush must not reorder or repeat (prober.go:490).                       *)
InOrderOnce ==
    \A i, j \in 1..Len(results) : i < j => results[i].seq < results[j].seq

(* No probe is forgotten and none is in two places: every sequence used is *)
(* outstanding, or decided and waiting, from deliver on; so flush's skip   *)
(* branch is never taken and deliver cannot park behind a sequence nothing *)
(* will ever resolve (send, markLost, resolve, expire).                    *)
NoProbeForgotten ==
    /\ DOMAIN pending \cup DOMAIN resolved = deliver..seq
    /\ DOMAIN pending \cap DOMAIN resolved = {}

(* Until the prober is stopped or its socket dies under it, the results    *)
(* are exactly the sequences in order with no gap: giving up on the        *)
(* channel is the only way flush loses one.                                *)
NoGapWhileAlive ==
    (~cancelled /\ deaths = 0) =>
        \A i \in 1..Len(results) : results[i].seq = Seed + i

(* What the tracker counts is what happened: results leave in order, none  *)
(* twice, and none is missing while the prober runs (flush, sendFailed).   *)
Delivered == InOrderOnce /\ NoGapWhileAlive

(* A probe counts as answered only if the backend answered that very probe:*)
(* a replayed reply, another path's reply or the probe's own reflection    *)
(* never makes a dead tunnel look alive (resolve).                         *)
AnsweredMeansRoundTrip ==
    \A i \in 1..Len(results) : ~results[i].lost => ReplyTo(results[i].seq) \in wire

(* Once a switch has been nudged and the nudge consumed, the last probe    *)
(* built carries the current decision: send reads the decision after the   *)
(* nudge is taken, so a coalesced nudge never strands a switch (Nudge).    *)
DecisionCarried ==
    (pc = "loop" /\ ~nudge /\ ~owed) => carried = decision

(* While the engine reads the channel, every probe used is emitted in the  *)
(* end, or given up when a context ended, although replies may never come, *)
(* writes may be refused and the socket may die: hold sweeps too, so       *)
(* deliver never parks (hold).                                             *)
EveryProbeLeaves ==
    WF_vars(Consume) =>
        \A n \in 1..MaxProbes : (seq >= Seed + n) ~> (deliver > Seed + n \/ cancelled)

(* A cancelled prober ends: stop cancels before it waits for the reader,   *)
(* and a flush blocked on a full channel gives up, so stopProbers' wait    *)
(* cannot hang even while the engine reads nothing.                        *)
StopTerminates == cancelled ~> pc = "done"

=============================================================================
