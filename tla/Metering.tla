------------------------------ MODULE Metering ------------------------------
(***************************************************************************)
(* Usage accounting from the backend's counters to the frontend's ledger   *)
(* (internal/agent/meter.go, client.go; internal/engine/control.go).  The  *)
(* meter samples interface counters into numbered deltas, keeps them in    *)
(* memory and in a file until the frontend acknowledges them, and resends  *)
(* the oldest in every report; the frontend bills a delta once, by its     *)
(* number, and acknowledges what it has committed.                         *)
(*                                                                         *)
(* Two files are written one after the other, each atomically: the buffer  *)
(* (persist) and the counters with the numbering (save).  A report or an   *)
(* acknowledgement dies with its connection, and the frontend may still be *)
(* reading an old connection while the next one resends.  Every path is    *)
(* metered at both ends; packets, stamps, the clamping of a delta and the  *)
(* absolute bounds on path ids, numbers and frame size are not modelled.   *)
(***************************************************************************)
EXTENDS Naturals, Sequences, FiniteSets, SequencesExt

CONSTANTS Paths, None,
          Unreadable,    \* paths whose watermark row never parses
          MaxBuffered,   \* deltas kept
          BatchSize,     \* deltas per report
          MaxSequenceJump,
          MaxBytes,      \* bound: path -> bytes it carries
          MaxFrames,     \* bound: reports in flight
          MaxFaults,     \* bound: interfaces recreated and crashes of the agent
          MaxWriteFails  \* bound: file writes that fail before one

ASSUME MeteringAssumption ==
    /\ Paths \subseteq Nat \ {0} /\ IsFiniteSet(Paths) /\ None \notin Nat
    /\ Unreadable \subseteq Paths
    /\ {MaxBuffered, BatchSize, MaxSequenceJump} \subseteq Nat \ {0}
    /\ Cardinality(Paths) <= BatchSize
    /\ MaxBytes \in [Paths -> Nat]
    /\ {MaxFrames, MaxFaults, MaxWriteFails} \subseteq Nat

Delta == [path : Paths, seq : Nat \ {0}, bytes : Nat \ {0}]
Reading == Nat \cup {None}

VARIABLES
    counter,        \* the kernel's counter of each interface
    carried,        \* history: bytes each path has carried
    missed,         \* history: bytes no sample could see, or dropped unbilled
    last, nextSeq,  \* the meter: previous reading and number, per path
    pending,        \* deltas not yet acknowledged, oldest first
    sampler,        \* where sample() is
    acking,         \* AckApplied still has to persist
    bufferFile, stateFile,
    frames,         \* reports in flight or being read
    acks,           \* acknowledgements in flight
    watermark, ledger,
    torn,           \* history: a crash came between reading and saving
    resets, crashes, writeFails

meter == <<last, nextSeq, pending>>
disk == <<bufferFile, stateFile>>
wire == <<frames, acks>>
database == <<watermark, ledger>>
history == <<carried, missed, torn>>
meteringVars == <<counter, meter, sampler, acking, disk, wire, database, history,
                  resets, crashes, writeFails>>

-----------------------------------------------------------------------------
(* The numbers of a finite set, from the smallest.                         *)
InOrder(S) ==
    CHOOSE s \in [1..Cardinality(S) -> S] : \A i, j \in 1..Cardinality(S) : i < j => s[i] < s[j]

PathsIn(ds) == {ds[i].path : i \in 1..Len(ds)}

(* What the deltas of path p numbered above w come to.                     *)
BytesAbove(ds, p, w) ==
    LET sum[n \in 0..Len(ds)] ==
            IF n = 0 THEN 0
            ELSE IF ds[n].path = p /\ ds[n].seq > w THEN sum[n - 1] + ds[n].bytes
            ELSE sum[n - 1]
    IN  sum[Len(ds)]

(* What a path's buffered deltas will still add to the ledger, and what    *)
(* the next sample will see.                                               *)
Owed(p) == BytesAbove(pending, p, watermark[p])
Unsampled(p) ==
    IF last[p] = None \/ counter[p] < last[p] THEN 0 ELSE counter[p] - last[p]
Accounted(p) == ledger[p] + Owed(p) + Unsampled(p)

MeteringInit ==
    /\ counter = [p \in Paths |-> 0] /\ carried = counter /\ missed = counter
    /\ last = [p \in Paths |-> None] /\ nextSeq = counter /\ pending = <<>>
    /\ sampler = "idle" /\ acking = FALSE
    /\ bufferFile = <<>> /\ stateFile = [last |-> last, nextSeq |-> nextSeq]
    /\ frames = {} /\ acks = {}
    /\ watermark = counter /\ ledger = counter
    /\ torn = FALSE /\ resets = 0 /\ crashes = 0 /\ writeFails = 0

-----------------------------------------------------------------------------
(* A byte crosses the tunnel; before the first reading, or below a reading *)
(* that an interface's recreation has left behind, none will count it.     *)
Traffic(p) ==
    /\ carried[p] < MaxBytes[p]
    /\ carried' = [carried EXCEPT ![p] = @ + 1]
    /\ counter' = [counter EXCEPT ![p] = @ + 1]
    /\ missed' = IF last[p] = None \/ counter[p] < last[p]
                 THEN [missed EXCEPT ![p] = @ + 1] ELSE missed
    /\ UNCHANGED <<meter, sampler, acking, disk, wire, database, torn, resets,
                   crashes, writeFails>>

(* The interface is recreated: its counter starts again.                   *)
CounterReset(p) ==
    /\ resets + crashes < MaxFaults /\ resets' = resets + 1 /\ counter[p] > 0
    /\ counter' = [counter EXCEPT ![p] = 0]
    /\ missed' = [missed EXCEPT ![p] = @ + Unsampled(p)]
    /\ UNCHANGED <<carried, meter, sampler, acking, disk, wire, database, torn,
                   crashes, writeFails>>

-----------------------------------------------------------------------------
(* The fresh deltas of one sample of the interfaces `here`.                *)
Fresh(here) ==
    LET grew == {p \in here : last[p] # None /\ counter[p] > last[p]}
    IN  [i \in 1..Cardinality(grew) |->
            LET p == InOrder(grew)[i]
            IN  [path |-> p, seq |-> nextSeq[p] + 1, bytes |-> counter[p] - last[p]]]

(* sample, under mu: a first reading is a baseline, a smaller one a new    *)
(* baseline, and a full buffer drops its oldest.                           *)
Sample(here) ==
    LET fresh == Fresh(here)
        all == pending \o fresh
        over == IF Len(all) > MaxBuffered THEN Len(all) - MaxBuffered ELSE 0
    IN  /\ sampler = "idle"
        /\ last' = [p \in Paths |-> IF p \in here THEN counter[p] ELSE last[p]]
        /\ nextSeq' = [p \in Paths |-> IF p \in PathsIn(fresh) THEN nextSeq[p] + 1
                                       ELSE nextSeq[p]]
        /\ pending' = SubSeq(all, over + 1, Len(all))
        /\ missed' = [p \in Paths |-> missed[p] + BytesAbove(SubSeq(all, 1, over), p, watermark[p])]
        /\ sampler' = IF fresh = <<>> THEN "save" ELSE "persist"
        /\ UNCHANGED <<counter, carried, acking, disk, wire, database, torn, resets,
                       crashes, writeFails>>

(* writeAtomic: the whole new content, or the old one and a warning.       *)
Write(file, content) ==
    \/ file' = content /\ UNCHANGED writeFails
    \/ /\ resets + crashes < MaxFaults /\ writeFails < MaxWriteFails
       /\ writeFails' = writeFails + 1 /\ UNCHANGED file

SamplePersists ==
    /\ sampler = "persist"
    /\ Write(bufferFile, pending)
    /\ sampler' = "save"
    /\ UNCHANGED <<counter, meter, acking, stateFile, wire, database, history, resets,
                   crashes>>

SampleSaves ==
    /\ sampler = "save"
    /\ Write(stateFile, [last |-> last, nextSeq |-> nextSeq])
    /\ sampler' = "idle"
    /\ UNCHANGED <<counter, meter, acking, bufferFile, wire, database, history, resets,
                   crashes>>

(* Faulty: the numbering goes on from the buffer, the readings from the    *)
(* older state file.                                                       *)
CrashRenumbers ==
    /\ resets + crashes < MaxFaults /\ crashes' = crashes + 1
    /\ pending' = bufferFile /\ last' = stateFile.last
    /\ nextSeq' = [p \in Paths |->
          FoldLeft(LAMBDA n, d : IF d.seq > n THEN d.seq ELSE n,
                   stateFile.nextSeq[p], SelectSeq(bufferFile, LAMBDA d : d.path = p))]
    /\ sampler' = "idle" /\ acking' = FALSE
    /\ acks' = {} /\ frames' \in SUBSET frames
    /\ torn' = (torn \/ sampler # "idle")
    /\ UNCHANGED <<counter, carried, missed, disk, database, resets, writeFails>>

(* The agent dies and load() reads both files; its connections go with it, *)
(* but a report may already be with the frontend.                          *)
Crash ==
    /\ resets + crashes < MaxFaults /\ crashes' = crashes + 1
    /\ pending' = bufferFile /\ last' = stateFile.last /\ nextSeq' = stateFile.nextSeq
    /\ sampler' = "idle" /\ acking' = FALSE
    /\ acks' = {} /\ frames' \in SUBSET frames
    /\ torn' = (torn \/ sampler # "idle")
    /\ UNCHANGED <<counter, carried, missed, disk, database, resets, writeFails>>

-----------------------------------------------------------------------------
(* Faulty: a flat prefix of the buffer.                                    *)
PendingBatchPrefix ==
    SubSeq(pending, 1, IF BatchSize < Len(pending) THEN BatchSize ELSE Len(pending))

(* PendingBatch: up to an equal share of each path's oldest deltas, then   *)
(* whatever is left from the front.                                        *)
PendingBatch ==
    LET n == IF BatchSize < Len(pending) THEN BatchSize ELSE Len(pending)
        fair == n \div Cardinality(PathsIn(pending))
        share == IF fair < 1 THEN 1 ELSE fair
        rank(i) == Cardinality({j \in 1..i : pending[j].path = pending[i].path})
        firsts == InOrder({i \in 1..Len(pending) : rank(i) <= share})
        others == InOrder({i \in 1..Len(pending) : rank(i) > share})
        order == firsts \o others
    IN  [k \in 1..n |-> pending[order[k]]]

(* reportLoop: nothing is dropped for having been sent.                    *)
Report ==
    /\ pending # <<>> /\ Cardinality(frames) < MaxFrames
    /\ frames' = frames \cup {PendingBatch}
    /\ UNCHANGED <<counter, meter, sampler, acking, disk, acks, database, history,
                   resets, crashes, writeFails>>

(* The connection drops, and the agent redials.                            *)
Disconnect ==
    /\ acks' = {} /\ frames' \in SUBSET frames
    /\ UNCHANGED <<counter, meter, sampler, acking, disk, database, history, resets,
                   crashes, writeFails>>

(* One path's deltas of a report, against the watermark the batch began    *)
(* with: what is strictly newer, and not implausibly far ahead, is taken.  *)
Taken(f, p, base) ==
    LET walk[n \in 0..Len(f)] ==
            IF n = 0 THEN [seen |-> base, bytes |-> 0]
            ELSE IF \/ f[n].path # p \/ f[n].seq <= walk[n - 1].seen
                    \/ f[n].seq - base > MaxSequenceJump
                 THEN walk[n - 1]
                 ELSE [seen |-> f[n].seq, bytes |-> walk[n - 1].bytes + f[n].bytes]
    IN  walk[Len(f)]

(* addUsageBatch: a path's rows and its watermark, in one transaction.     *)
Committed(b, done) ==
    /\ watermark' = [p \in Paths |-> IF p \in done THEN b[p].seen ELSE watermark[p]]
    /\ ledger' = [p \in Paths |-> IF p \in done THEN ledger[p] + b[p].bytes
                                  ELSE ledger[p]]

(* Faulty: the acknowledgement covers what was read, committed or not.     *)
ApplyUsageAcksAll(f, unread, failed) ==
    LET read == PathsIn(f) \ (unread \cup Unreadable)
        b == [p \in read |-> Taken(f, p, watermark[p])]
        done == read \ failed
    IN  /\ f \in frames /\ frames' = frames \ {f}
        /\ Committed(b, done)
        /\ acks' = acks \cup {[p \in read |-> b[p].seen]}
        /\ UNCHANGED <<counter, meter, sampler, acking, disk, history, resets, crashes,
                       writeFails>>

(* applyUsage, under usageMu: a path whose watermark cannot be read is     *)
(* held back whole; the others each in one transaction with their          *)
(* watermark; the acknowledgement says what is committed.                  *)
ApplyUsage(f, unread, failed) ==
    LET read == PathsIn(f) \ (unread \cup Unreadable)
        b == [p \in read |-> Taken(f, p, watermark[p])]
        done == read \ failed
    IN  /\ f \in frames /\ frames' = frames \ {f}
        /\ Committed(b, done)
        /\ acks' = IF read = {} THEN acks ELSE acks \cup {[p \in read |-> IF p \in done THEN b[p].seen
                                                          ELSE watermark[p]]}
        /\ UNCHANGED <<counter, meter, sampler, acking, disk, history, resets, crashes,
                       writeFails>>

(* The deltas an acknowledgement does not cover, in their order.           *)
Unacked(ds, a) ==
    LET kept[n \in 0..Len(ds)] ==
            IF n = 0 THEN <<>>
            ELSE IF ds[n].path \in DOMAIN a /\ ds[n].seq <= a[ds[n].path] THEN kept[n - 1]
            ELSE Append(kept[n - 1], ds[n])
    IN  kept[Len(ds)]

(* AckApplied: what the acknowledgement covers leaves the buffer, and then *)
(* the file.                                                               *)
AckApplied(a) ==
    /\ a \in acks /\ acks' = acks \ {a} /\ ~acking
    /\ pending' = Unacked(pending, a)
    /\ acking' = (pending' # pending)
    /\ UNCHANGED <<counter, last, nextSeq, sampler, disk, frames, database, history,
                   resets, crashes, writeFails>>

AckPersists ==
    /\ acking /\ acking' = FALSE
    /\ Write(bufferFile, pending)
    /\ UNCHANGED <<counter, meter, sampler, stateFile, wire, database, history, resets,
                   crashes>>

-----------------------------------------------------------------------------
MeteringNext ==
    \/ \E p \in Paths : Traffic(p) \/ CounterReset(p)
    \/ \E here \in SUBSET Paths : Sample(here)
    \/ SamplePersists \/ SampleSaves \/ Crash
    \/ Report \/ Disconnect
    \/ \E f \in frames : \E unread \in SUBSET (PathsIn(f) \ Unreadable) :
        \E failed \in SUBSET (PathsIn(f) \ (Unreadable \cup unread)) :
            ApplyUsage(f, unread, failed)
    \/ \E a \in acks : AckApplied(a)
    \/ AckPersists

MeteringSpec == MeteringInit /\ [][MeteringNext]_meteringVars

-----------------------------------------------------------------------------
(* Types of both ends' state; a delta is never empty or negative, so the   *)
(* ledger never shrinks.                                                   *)
MeteringTypes ==
    /\ counter \in [Paths -> Nat] /\ carried \in [Paths -> Nat] /\ missed \in [Paths -> Nat]
    /\ nextSeq \in [Paths -> Nat] /\ watermark \in [Paths -> Nat] /\ ledger \in [Paths -> Nat]
    /\ last \in [Paths -> Reading]
    /\ pending \in Seq(Delta) /\ Len(pending) <= MaxBuffered
    /\ bufferFile \in Seq(Delta) /\ Len(bufferFile) <= MaxBuffered
    /\ stateFile \in [last : [Paths -> Reading], nextSeq : [Paths -> Nat]]
    /\ frames \subseteq Seq(Delta)
    /\ \A a \in acks : \E S \in SUBSET Paths : a \in [S -> Nat]
    /\ sampler \in {"idle", "persist", "save"} /\ acking \in BOOLEAN /\ torn \in BOOLEAN
    /\ resets \in Nat /\ crashes \in Nat /\ writeFails \in Nat

(* Only a state file that could not be written before a crash, which sets  *)
(* the numbering back by more than one sample, is outside the accounting.  *)
FilesKept == writeFails = 0 \/ crashes = 0

(* Meter, reports and frontend together implement the ledger the operator  *)
(* is shown (module Ledger): usage is only ever added, and whatever is     *)
(* resent, reordered across connections, held back by the database or      *)
(* measured again after a crash, inside a sample too, a path is never      *)
(* billed more than it carried (applyUsage's watermark), as long as the    *)
(* files were kept.                                                        *)
Bill == INSTANCE Ledger WITH billed <- ledger
ImplementsLedger == Bill!Init /\ [][FilesKept => Bill!Next]_<<carried, ledger>>

(* Every byte is accounted for once: as long as the two files were in step *)
(* when the agent died, the ledger, the deltas still owed and the bytes    *)
(* not yet sampled make up what the path carried, less what no sample      *)
(* could see or a full buffer dropped.  An acknowledgement in particular   *)
(* never releases a delta that is not billed.                              *)
EveryByteOnce ==
    (FilesKept /\ ~torn) =>
        \A p \in Paths : /\ Accounted(p) <= carried[p]
                         /\ carried[p] <= Accounted(p) + missed[p]

(* A path that the frontend cannot record holds up no other path: every    *)
(* report has, for every path with usage buffered, the oldest of it, in    *)
(* its order and without a gap, however much another path has piled up in  *)
(* front (PendingBatch's shares).                                          *)
NoneStarved ==
    [][\A f \in frames' \ frames :
         /\ PathsIn(f) = PathsIn(pending)
         /\ \E from \in Injection(1..Len(f), 1..Len(pending)) :
               \A k \in 1..Len(f) :
                  /\ f[k] = pending[from[k]]
                  /\ \A i \in 1..from[k] : pending[i].path = f[k].path =>
                        \E l \in 1..k : from[l] = i]_meteringVars
=============================================================================
