--------------------------- MODULE ControlProofs ---------------------------
(***************************************************************************)
(* Proofs about Control for any number of connections, addresses, slots    *)
(* and saves: what the accept loop counts is what is held, what the portal *)
(* shows is what is served, and what a push loop has pushed has arrived.   *)
(***************************************************************************)
EXTENDS Control, FiniteSetTheorems, TLAPS

Typed ==
    /\ state \in [Conns -> Claimed \cup {"none"}] /\ src \in [Conns -> Sources]
    /\ peer \in [Conns -> BOOLEAN] /\ acceptor \in Conns \cup {None}
    /\ slots \in Int /\ perSource \in [Sources -> Int]
    /\ backendConns \in Int /\ backendUp \in BOOLEAN
    /\ session \in [Conns -> Nat]
    /\ linkers \in [Linkers -> Nat] /\ newest \in [Linkers -> Nat]
    /\ linkerSession \in Nat /\ version \in Nat
    /\ reading \in [Conns -> Nat \cup {None}]
    /\ pushed \in [Conns -> Nat \cup {None}]
    /\ got \in [Conns -> Nat \cup {None}]

Holding(S) == {c \in Conns : state[c] \in S}
ClaimedBy(s) == {c \in Conns : state[c] \in Claimed /\ src[c] = s}

(* The accept loop holds a claim for exactly the connection it has not yet *)
(* decided on.                                                             *)
AcceptorInv == \A c \in Conns : state[c] = "claimed" <=> acceptor = c

-----------------------------------------------------------------------------
(* Every step keeps the types.                                             *)
LEMMA TypedStep == Typed /\ [Next]_vars => Typed'
  <1> SUFFICES ASSUME Typed, [Next]_vars PROVE Typed'
    OBVIOUS
  <1> USE ControlAssumption DEF Typed, Claimed
  <1>1. ASSUME NEW c \in Conns, NEW s \in Sources, Accept(c, s) PROVE Typed'
    BY <1>1 DEF Accept, ClaimSource, shown, pushes
  <1>2. ASSUME NEW c \in Conns, TakeSlot(c) PROVE Typed'
    BY <1>2 DEF TakeSlot, shown, pushes
  <1>3. ASSUME NEW c \in Conns, NoSlot(c) PROVE Typed'
    BY <1>3 DEF NoSlot, Released, shown, pushes
  <1>4. ASSUME NEW c \in Conns, HelloBackend(c) PROVE Typed'
    BY <1>4 DEF HelloBackend, limits, pushes
  <1>5. ASSUME NEW c \in Conns, HelloLinker(c) PROVE Typed'
    BY <1>5 DEF HelloLinker, limits, pushes
  <1>6. ASSUME NEW c \in Conns, Rejected(c) PROVE Typed'
    BY <1>6 DEF Rejected, limits, shown, pushes
  <1>7. ASSUME NEW c \in Conns, BackendEnds(c) PROVE Typed'
    BY <1>7 DEF BackendEnds, Ended, limits
  <1>8. ASSUME NEW c \in Conns, LinkerEnds(c) PROVE Typed'
    BY <1>8 DEF LinkerEnds, Ended, limits
  <1>9. ASSUME NEW c \in Conns, ReleaseSlot(c) PROVE Typed'
    BY <1>9 DEF ReleaseSlot, shown, pushes
  <1>10. ASSUME NEW c \in Conns, ReleaseSource(c) PROVE Typed'
    BY <1>10 DEF ReleaseSource, Released, shown, pushes
  <1>11. ASSUME NEW c \in Conns, DiesSilently(c) PROVE Typed'
    BY <1>11 DEF DiesSilently, limits, shown, pushes
  <1>12. ASSUME NEW c \in Conns, PushReads(c) PROVE Typed'
    BY <1>12 DEF PushReads, limits, shown
  <1>13. ASSUME NEW c \in Conns, PushSends(c) PROVE Typed'
    BY <1>13 DEF PushSends, limits, shown
  <1>14. CASE Save
    BY <1>14 DEF Save, limits, shown, pushes
  <1>15. CASE UNCHANGED vars
    BY <1>15 DEF vars, limits, shown, pushes
  <1> QED
    BY <1>1, <1>2, <1>3, <1>4, <1>5, <1>6, <1>7, <1>8, <1>9, <1>10, <1>11, <1>12,
       <1>13, <1>14, <1>15 DEF Next

(* The types hold initially.                                               *)
LEMMA TypedInit == Init => Typed
  <1> SUFFICES ASSUME Init PROVE Typed
    OBVIOUS
  <1> USE ControlAssumption DEF Init, Claimed
  <1>1. state \in [Conns -> Claimed \cup {"none"}] /\ src \in [Conns -> Sources]
    OBVIOUS
  <1>2. peer \in [Conns -> BOOLEAN] /\ backendUp \in BOOLEAN
    <2>1. peer = [c \in Conns |-> FALSE] /\ backendUp = FALSE
      OBVIOUS
    <2> HIDE DEF Init
    <2> QED BY <2>1, Zenon
  <1>3. slots \in Int /\ perSource \in [Sources -> Int] /\ backendConns \in Int
    OBVIOUS
  <1>4. session \in [Conns -> Nat] /\ linkers \in [Linkers -> Nat] /\ newest = linkers
    OBVIOUS
  <1>5. reading \in [Conns -> Nat \cup {None}] /\ pushed = reading /\ got = reading
    OBVIOUS
  <1>6. acceptor \in Conns \cup {None} /\ linkerSession \in Nat /\ version \in Nat
    OBVIOUS
  <1> HIDE DEF Init
  <1> QED
    BY <1>1, <1>2, <1>3, <1>4, <1>5, <1>6, Zenon DEF Typed

-----------------------------------------------------------------------------
(* A finite set that gains or loses one element.                           *)
LEMMA CountUp ==
  ASSUME NEW A, NEW B, NEW c, A \subseteq Conns, c \in Conns, c \notin A, B = A \cup {c}
  PROVE  Cardinality(B) = Cardinality(A) + 1 /\ Cardinality(A) \in Nat
  <1>1. IsFiniteSet(A)
    BY FS_Subset, ControlAssumption
  <1> QED
    BY <1>1, FS_AddElement, FS_CardinalityType

LEMMA CountDown ==
  ASSUME NEW A, NEW B, NEW c, A \subseteq Conns, c \in A, B = A \ {c}
  PROVE  Cardinality(B) = Cardinality(A) - 1 /\ Cardinality(A) \in Nat \ {0}
  <1>1. IsFiniteSet(A)
    BY FS_Subset, ControlAssumption
  <1>2. Cardinality(B) = Cardinality(A) - 1 /\ Cardinality(A) \in Nat /\ Cardinality(B) \in Nat
    BY <1>1, FS_RemoveElement, FS_CardinalityType
  <1> QED
    BY <1>2

-----------------------------------------------------------------------------
(* Slots.                                                                  *)

SlotsInv == slots = Cardinality(Holding(Slotted)) /\ AcceptorInv

(* Every step keeps the pool's count and the acceptor's claim.             *)
LEMMA SlotsStep == Typed /\ SlotsInv /\ [Next]_vars => SlotsInv'
  <1> SUFFICES ASSUME Typed, SlotsInv, [Next]_vars PROVE SlotsInv'
    OBVIOUS
  <1> USE ControlAssumption DEF Typed, SlotsInv, AcceptorInv, Holding, Slotted, Claimed
  <1>1. ASSUME NEW c \in Conns, NEW s \in Sources, Accept(c, s) PROVE SlotsInv'
    BY <1>1 DEF Accept
  <1>2. ASSUME NEW c \in Conns, TakeSlot(c) PROVE SlotsInv'
    <2>1. c \notin Holding(Slotted) /\ Holding(Slotted)' = Holding(Slotted) \cup {c}
      BY <1>2 DEF TakeSlot
    <2>2. Cardinality(Holding(Slotted)') = Cardinality(Holding(Slotted)) + 1
      BY <2>1, CountUp
    <2> QED BY <1>2, <2>2 DEF TakeSlot
  <1>3. ASSUME NEW c \in Conns, NoSlot(c) PROVE SlotsInv'
    <2>1. Holding(Slotted)' = Holding(Slotted)
      BY <1>3 DEF NoSlot
    <2> QED BY <1>3, <2>1 DEF NoSlot
  <1>4. ASSUME NEW c \in Conns,
               HelloBackend(c) \/ HelloLinker(c) \/ Rejected(c) \/ BackendEnds(c) \/ LinkerEnds(c)
        PROVE  SlotsInv'
    <2>1. PICK to \in {"backend", "linker", "unslot"} :
            /\ state[c] \in {"handshake", "backend", "linker"}
            /\ state' = [state EXCEPT ![c] = to]
      BY <1>4 DEF HelloBackend, HelloLinker, Rejected, BackendEnds, LinkerEnds, Ended
    <2>2. Holding(Slotted)' = Holding(Slotted)
      BY <2>1
    <2>3. acceptor' = acceptor /\ slots' = slots
      BY <1>4 DEF HelloBackend, HelloLinker, Rejected, BackendEnds, LinkerEnds, limits
    <2> QED BY <2>1, <2>2, <2>3
  <1>5. ASSUME NEW c \in Conns, ReleaseSlot(c) PROVE SlotsInv'
    <2>1. c \in Holding(Slotted) /\ Holding(Slotted)' = Holding(Slotted) \ {c}
      BY <1>5 DEF ReleaseSlot
    <2>2. Cardinality(Holding(Slotted)') = Cardinality(Holding(Slotted)) - 1
      BY <2>1, CountDown
    <2> QED BY <1>5, <2>2 DEF ReleaseSlot
  <1>6. ASSUME NEW c \in Conns, ReleaseSource(c) PROVE SlotsInv'
    <2>1. Holding(Slotted)' = Holding(Slotted)
      BY <1>6 DEF ReleaseSource
    <2> QED BY <1>6, <2>1 DEF ReleaseSource
  <1>7. ASSUME UNCHANGED <<state, acceptor, slots>> PROVE SlotsInv'
    BY <1>7
  <1> QED
    BY <1>1, <1>2, <1>3, <1>4, <1>5, <1>6, <1>7
    DEF Next, DiesSilently, PushReads, PushSends, Save, limits, vars

(* Nothing is held at first.                                               *)
LEMMA SlotsInit == Init => SlotsInv
  <1> SUFFICES ASSUME Init PROVE SlotsInv
    OBVIOUS
  <1>1. Holding(Slotted) = {}
    BY DEF Init, Holding, Slotted
  <1>2. AcceptorInv
    BY ControlAssumption DEF Init, AcceptorInv
  <1>3. slots = 0
    BY DEF Init
  <1> QED
    BY <1>1, <1>2, <1>3, FS_EmptySet DEF SlotsInv

-----------------------------------------------------------------------------
(* Shares.                                                                 *)

ShareInv(s) == perSource[s] = Cardinality(ClaimedBy(s))

(* A step that leaves the claims of an address alone leaves its share.     *)
LEMMA SharesStep ==
  ASSUME Typed, AcceptorInv, [Next]_vars, NEW s \in Sources, ShareInv(s)
  PROVE  ShareInv(s)'
  <1> USE ControlAssumption DEF Typed, ShareInv, AcceptorInv, ClaimedBy, Claimed
  <1>1. ASSUME NEW c \in Conns, NEW a \in Sources, Accept(c, a) PROVE ShareInv(s)'
    <2>1. CASE a = s
      <3>1. c \notin ClaimedBy(s) /\ ClaimedBy(s)' = ClaimedBy(s) \cup {c}
        BY <1>1, <2>1 DEF Accept
      <3>2. Cardinality(ClaimedBy(s)') = Cardinality(ClaimedBy(s)) + 1
        BY <3>1, CountUp
      <3> QED BY <1>1, <2>1, <3>2 DEF Accept, ClaimSource
    <2>2. CASE a # s
      <3>1. ClaimedBy(s)' = ClaimedBy(s)
        BY <1>1, <2>2 DEF Accept
      <3> QED BY <1>1, <2>2, <3>1 DEF Accept, ClaimSource
    <2> QED BY <2>1, <2>2
  <1>2. ASSUME NEW c \in Conns, NoSlot(c) \/ ReleaseSource(c) PROVE ShareInv(s)'
    <2>0. state[c] \in Claimed /\ state' = [state EXCEPT ![c] = "none"] /\ src' = src
          /\ perSource' = Released(src[c])
      BY <1>2 DEF NoSlot, ReleaseSource
    <2>1. CASE src[c] = s
      <3>1. c \in ClaimedBy(s) /\ ClaimedBy(s)' = ClaimedBy(s) \ {c}
        BY <2>0, <2>1
      <3>2. /\ Cardinality(ClaimedBy(s)') = Cardinality(ClaimedBy(s)) - 1
            /\ Cardinality(ClaimedBy(s)) \in Nat \ {0}
        BY <3>1, CountDown
      <3>3. perSource'[s] = perSource[s] - 1
        BY <2>0, <2>1, <3>2 DEF Released
      <3> QED BY <3>2, <3>3
    <2>2. CASE src[c] # s
      <3>1. ClaimedBy(s)' = ClaimedBy(s)
        BY <2>0, <2>2
      <3> QED BY <2>0, <2>2, <3>1 DEF Released
    <2> QED BY <2>1, <2>2
  <1>3. ASSUME NEW c \in Conns,
               TakeSlot(c) \/ HelloBackend(c) \/ HelloLinker(c) \/ Rejected(c)
               \/ BackendEnds(c) \/ LinkerEnds(c) \/ ReleaseSlot(c)
        PROVE  ShareInv(s)'
    <2>1. ClaimedBy(s)' = ClaimedBy(s)
      BY <1>3 DEF TakeSlot, HelloBackend, HelloLinker, Rejected, BackendEnds, LinkerEnds,
                  Ended, ReleaseSlot
    <2> QED BY <1>3, <2>1
        DEF TakeSlot, HelloBackend, HelloLinker, Rejected, BackendEnds, LinkerEnds, Ended,
            ReleaseSlot, limits
  <1>4. ASSUME UNCHANGED <<state, src, perSource>> PROVE ShareInv(s)'
    BY <1>4
  <1> QED
    BY <1>1, <1>2, <1>3, <1>4
    DEF Next, DiesSilently, PushReads, PushSends, Save, limits, vars

-----------------------------------------------------------------------------
(* A slot and a share are exactly what live connections hold: nothing is   *)
(* leaked on any way out of listen and serve, with any number of           *)
(* connections.                                                            *)
THEOREM NoLeak == Spec => []NothingLeaks
  <1> DEFINE Inv == Typed /\ SlotsInv /\ \A s \in Sources : ShareInv(s)
  <1>1. Init => Inv
    <2> SUFFICES ASSUME Init, NEW s \in Sources PROVE ShareInv(s)
      BY TypedInit, SlotsInit
    <2>1. ClaimedBy(s) = {}
      BY DEF Init, ClaimedBy, Claimed
    <2>2. perSource[s] = 0
      BY DEF Init
    <2> QED
      BY <2>1, <2>2, FS_EmptySet DEF ShareInv
  <1>2. Inv /\ [Next]_vars => Inv'
    BY TypedStep, SlotsStep, SharesStep DEF SlotsInv
  <1>3. Inv => NothingLeaks
    BY DEF SlotsInv, ShareInv, Holding, ClaimedBy, NothingLeaks
  <1> QED
    BY <1>1, <1>2, <1>3, PTL DEF Spec

-----------------------------------------------------------------------------
(* What the portal shows.                                                  *)

BackendInv == backendConns = Cardinality(Holding({"backend"}))
              /\ (backendUp <=> backendConns > 0)

(* Every step keeps the count of backend sessions.                         *)
LEMMA BackendStep == Typed /\ AcceptorInv /\ BackendInv /\ [Next]_vars => BackendInv'
  <1> SUFFICES ASSUME Typed, AcceptorInv, BackendInv, [Next]_vars PROVE BackendInv'
    OBVIOUS
  <1> USE ControlAssumption DEF Typed, BackendInv, Holding, Claimed
  <1>1. ASSUME NEW c \in Conns, HelloBackend(c) PROVE BackendInv'
    <2>1. c \notin Holding({"backend"}) /\ Holding({"backend"})' = Holding({"backend"}) \cup {c}
      BY <1>1 DEF HelloBackend
    <2>2. /\ Cardinality(Holding({"backend"})') = Cardinality(Holding({"backend"})) + 1
          /\ Cardinality(Holding({"backend"})) \in Nat
      BY <2>1, CountUp
    <2>3. backendConns' = backendConns + 1 /\ backendUp'
      BY <1>1 DEF HelloBackend
    <2> QED BY <2>2, <2>3
  <1>2. ASSUME NEW c \in Conns, BackendEnds(c) PROVE BackendInv'
    <2>1. c \in Holding({"backend"}) /\ Holding({"backend"})' = Holding({"backend"}) \ {c}
      BY <1>2 DEF BackendEnds, Ended
    <2>2. /\ Cardinality(Holding({"backend"})') = Cardinality(Holding({"backend"})) - 1
          /\ Cardinality(Holding({"backend"})) \in Nat \ {0}
      BY <2>1, CountDown
    <2>3. backendConns' = backendConns - 1
      BY <1>2, <2>2 DEF BackendEnds
    <2>4. backendUp' = (backendConns' > 0)
      BY <1>2, Zenon DEF BackendEnds
    <2> QED BY <2>2, <2>3, <2>4
  <1>3. ASSUME NEW c \in Conns, NEW to \in {"none", "claimed", "handshake", "linker", "unslot", "unclaim"},
               state[c] # "backend", state' = [state EXCEPT ![c] = to],
               UNCHANGED <<backendConns, backendUp>>
        PROVE  BackendInv'
    <2>1. Holding({"backend"})' = Holding({"backend"})
      BY <1>3
    <2> QED BY <1>3, <2>1
  <1>4. ASSUME UNCHANGED <<state, backendConns, backendUp>> PROVE BackendInv'
    BY <1>4
  <1>5. ASSUME NEW c \in Conns, NEW s \in Sources, Accept(c, s) PROVE BackendInv'
    BY <1>3, <1>5 DEF Accept, shown
  <1>6. ASSUME NEW c \in Conns, TakeSlot(c) PROVE BackendInv'
    BY <1>3, <1>6 DEF TakeSlot, shown, AcceptorInv
  <1>7. ASSUME NEW c \in Conns, NoSlot(c) PROVE BackendInv'
    BY <1>3, <1>7 DEF NoSlot, shown, AcceptorInv
  <1>8. ASSUME NEW c \in Conns, HelloLinker(c) \/ Rejected(c) PROVE BackendInv'
    BY <1>3, <1>8 DEF HelloLinker, Rejected, shown
  <1>9. ASSUME NEW c \in Conns, LinkerEnds(c) PROVE BackendInv'
    BY <1>3, <1>9 DEF LinkerEnds, Ended
  <1>10. ASSUME NEW c \in Conns, ReleaseSlot(c) \/ ReleaseSource(c) PROVE BackendInv'
    BY <1>3, <1>10 DEF ReleaseSlot, ReleaseSource, shown
  <1> QED
    BY <1>1, <1>2, <1>4, <1>5, <1>6, <1>7, <1>8, <1>9, <1>10
    DEF Next, DiesSilently, PushReads, PushSends, Save, shown, vars

(* A linker's sessions are numbered apart, and each below the counter.     *)
NumberInv ==
    /\ \A c \in Conns : state[c] = "linker" =>
         /\ src[c] \in Linkers /\ session[c] > 0 /\ session[c] <= linkerSession
         /\ \A d \in Conns : state[d] = "linker" /\ session[d] = session[c] => d = c
    /\ \A s \in Linkers : newest[s] <= linkerSession

(* Every step keeps the numbering and what is shown of the linkers.        *)
LEMMA LinkersStep ==
    Typed /\ AcceptorInv /\ NumberInv /\ LinkersShown /\ [Next]_vars
    => NumberInv' /\ LinkersShown'
  <1> SUFFICES ASSUME Typed, AcceptorInv, NumberInv, LinkersShown, [Next]_vars
               PROVE  NumberInv' /\ LinkersShown'
    OBVIOUS
  <1> DEFINE Served(s) == \E c \in Conns : state[c] = "linker" /\ src[c] = s
                                           /\ session[c] = newest[s]
  <1> USE ControlAssumption DEF Typed, Claimed
  <1>0. \A s \in Linkers : (Served(s) => linkers[s] = newest[s])
                           /\ (~Served(s) => linkers[s] = 0)
    BY DEF LinkersShown
  <1>1. ASSUME NEW c \in Conns, HelloLinker(c) PROVE NumberInv' /\ LinkersShown'
    <2>1. /\ src[c] \in Linkers /\ src' = src /\ linkerSession' = linkerSession + 1
          /\ session' = [session EXCEPT ![c] = linkerSession + 1]
          /\ linkers' = [linkers EXCEPT ![src[c]] = linkerSession + 1]
          /\ newest' = [newest EXCEPT ![src[c]] = linkerSession + 1]
          /\ state' = [state EXCEPT ![c] = "linker"] /\ state[c] = "handshake"
      BY <1>1 DEF HelloLinker
    <2>2. NumberInv'
      BY <2>1 DEF NumberInv
    <2>3. ASSUME NEW s \in Linkers
          PROVE  (Served(s)' => linkers'[s] = newest'[s]) /\ (~Served(s)' => linkers'[s] = 0)
      <3>1. CASE s = src[c]
        <4>1. Served(s)'
          BY <2>1, <3>1
        <4> QED BY <2>1, <3>1, <4>1
      <3>2. CASE s # src[c]
        <4>1. Served(s)' <=> Served(s)
          BY <2>1, <3>2
        <4> QED BY <1>0, <2>1, <3>2, <4>1
      <3> QED BY <3>1, <3>2
    <2> HIDE DEF Served
    <2>4. LinkersShown'
      BY <2>3 DEF LinkersShown, Served
    <2> QED BY <2>2, <2>4
  <1>2. ASSUME NEW c \in Conns, LinkerEnds(c) PROVE NumberInv' /\ LinkersShown'
    <2>1. /\ state[c] = "linker" /\ state' = [state EXCEPT ![c] = "unslot"]
          /\ linkers' = [linkers EXCEPT ![src[c]] = IF @ = session[c] THEN 0 ELSE @]
          /\ session' = [session EXCEPT ![c] = 0]
          /\ UNCHANGED <<src, linkerSession, newest>>
      BY <1>2 DEF LinkerEnds, Ended
    <2>2. NumberInv'
      BY <2>1 DEF NumberInv
    <2>3. ASSUME NEW s \in Linkers
          PROVE  (Served(s)' => linkers'[s] = newest'[s]) /\ (~Served(s)' => linkers'[s] = 0)
      <3>1. CASE s = src[c] /\ session[c] = newest[s]
        <4>1. ~Served(s)'
          BY <2>1, <3>1 DEF NumberInv
        <4>2. linkers'[s] = 0
          BY <1>0, <2>1, <3>1
        <4> QED BY <4>1, <4>2
      <3>2. CASE ~(s = src[c] /\ session[c] = newest[s])
        <4>1. Served(s)' <=> Served(s)
          BY <2>1, <3>2
        <4>2. linkers'[s] = linkers[s]
          BY <1>0, <2>1, <3>2 DEF NumberInv
        <4> QED BY <1>0, <2>1, <4>1, <4>2
      <3> QED BY <3>1, <3>2
    <2> HIDE DEF Served
    <2>4. LinkersShown'
      BY <2>3 DEF LinkersShown, Served
    <2> QED BY <2>2, <2>4
  <1>3. ASSUME NEW c \in Conns, NEW to \in (Claimed \cup {"none"}) \ {"linker"}, NEW a \in Sources,
               state[c] # "linker", state' = [state EXCEPT ![c] = to],
               src' = [src EXCEPT ![c] = a],
               UNCHANGED <<session, linkerSession, linkers, newest>>
        PROVE  NumberInv' /\ LinkersShown'
    <2>1. \A d \in Conns : (state'[d] = "linker" <=> state[d] = "linker")
                           /\ (state[d] = "linker" => src'[d] = src[d])
      BY <1>3
    <2>2. \A s \in Linkers : Served(s)' <=> Served(s)
      BY <1>3, <2>1
    <2>3. NumberInv'
      BY <1>3, <2>1 DEF NumberInv
    <2>4. LinkersShown'
      BY <1>0, <1>3, <2>2 DEF LinkersShown
    <2> QED BY <2>3, <2>4
  <1>4. ASSUME UNCHANGED <<state, src, session, linkerSession, linkers, newest>>
        PROVE  NumberInv' /\ LinkersShown'
    BY <1>4 DEF NumberInv, LinkersShown
  <1>5. ASSUME NEW c \in Conns, NEW s \in Sources, Accept(c, s) PROVE NumberInv' /\ LinkersShown'
    BY <1>3, <1>5 DEF Accept, shown
  <1>6. ASSUME NEW c \in Conns,
               TakeSlot(c) \/ NoSlot(c) \/ HelloBackend(c) \/ Rejected(c) \/ BackendEnds(c)
               \/ ReleaseSlot(c) \/ ReleaseSource(c)
        PROVE  NumberInv' /\ LinkersShown'
    <2>1. PICK to \in (Claimed \cup {"none"}) \ {"linker"} :
            state[c] # "linker" /\ state' = [state EXCEPT ![c] = to]
      BY <1>6 DEF TakeSlot, NoSlot, HelloBackend, Rejected, BackendEnds, Ended, ReleaseSlot,
                  ReleaseSource, AcceptorInv
    <2>2. src' = [src EXCEPT ![c] = src[c]] /\ UNCHANGED <<session, linkerSession, linkers, newest>>
      BY <1>6 DEF TakeSlot, NoSlot, HelloBackend, Rejected, BackendEnds, ReleaseSlot,
                  ReleaseSource, shown
    <2>3. src[c] \in Sources
      OBVIOUS
    <2> HIDE DEF Typed, Claimed, Served
    <2> QED BY <1>3, <2>1, <2>2, <2>3
  <1> QED
    BY <1>1, <1>2, <1>4, <1>5, <1>6
    DEF Next, DiesSilently, PushReads, PushSends, Save, shown, vars

(* The portal shows a backend exactly while one is served, and a linker    *)
(* exactly while its newest session is: whichever of an old and a new      *)
(* session of a redialling peer ends first.                                *)
THEOREM ShownIsServed == Spec => []PeersShown
  <1> DEFINE Inv == Typed /\ SlotsInv /\ BackendInv /\ NumberInv /\ LinkersShown
  <1>1. Init => Inv
    <2> SUFFICES ASSUME Init PROVE BackendInv /\ NumberInv /\ LinkersShown
      BY TypedInit, SlotsInit
    <2>1. Holding({"backend"}) = {}
      BY DEF Init, Holding
    <2>2. backendConns = 0
      BY DEF Init
    <2>3. ~backendUp
      BY DEF Init
    <2>4. NumberInv /\ LinkersShown
      BY ControlAssumption DEF Init, NumberInv, LinkersShown
    <2> QED
      BY <2>1, <2>2, <2>3, <2>4, FS_EmptySet DEF BackendInv
  <1>2. Inv /\ [Next]_vars => Inv'
    BY TypedStep, SlotsStep, BackendStep, LinkersStep DEF SlotsInv
  <1>3. Inv => PeersShown
    <2> SUFFICES ASSUME Typed, BackendInv PROVE BackendShown
      BY DEF PeersShown
    <2>1. CASE Holding({"backend"}) = {}
      BY <2>1, FS_EmptySet DEF BackendInv, BackendShown, Holding
    <2>2. CASE Holding({"backend"}) # {}
      <3>1. PICK c \in Holding({"backend"}) : TRUE
        BY <2>2
      <3>2. Cardinality(Holding({"backend"})) \in Nat \ {0}
        BY <3>1, CountDown DEF Holding
      <3> QED BY <3>1, <3>2 DEF BackendInv, BackendShown, Holding
    <2> QED BY <2>1, <2>2
  <1> QED
    BY <1>1, <1>2, <1>3, PTL DEF Spec

-----------------------------------------------------------------------------
(* Pushes.                                                                 *)

(* A push loop exists only in a session, and a version read or pushed is   *)
(* one that was saved.                                                     *)
PushInv ==
    \A c \in Conns :
      /\ state[c] \notin Serving => reading[c] = None /\ pushed[c] = None
      /\ reading[c] # None => reading[c] <= version
      /\ got[c] # None => got[c] <= version
      /\ peer[c] /\ pushed[c] # None => got[c] # None /\ got[c] >= pushed[c]

(* Every step keeps it.                                                    *)
LEMMA PushStep == Typed /\ AcceptorInv /\ PushInv /\ [Next]_vars => PushInv'
  <1> SUFFICES ASSUME Typed, AcceptorInv, PushInv, [Next]_vars PROVE PushInv'
    OBVIOUS
  <1> USE ControlAssumption DEF Typed, PushInv, Claimed, Serving
  <1>1. ASSUME NEW c \in Conns, NEW s \in Sources, Accept(c, s) PROVE PushInv'
    BY <1>1 DEF Accept, pushes
  <1>2. ASSUME NEW c \in Conns, TakeSlot(c) PROVE PushInv'
    BY <1>2 DEF TakeSlot, AcceptorInv, pushes
  <1>3. ASSUME NEW c \in Conns, NoSlot(c) PROVE PushInv'
    BY <1>3 DEF NoSlot, AcceptorInv, pushes
  <1>4. ASSUME NEW c \in Conns, HelloBackend(c) PROVE PushInv'
    BY <1>4 DEF HelloBackend, pushes
  <1>5. ASSUME NEW c \in Conns, HelloLinker(c) PROVE PushInv'
    BY <1>5 DEF HelloLinker, pushes
  <1>6. ASSUME NEW c \in Conns, Rejected(c) PROVE PushInv'
    BY <1>6 DEF Rejected, pushes
  <1>7. ASSUME NEW c \in Conns, BackendEnds(c) PROVE PushInv'
    BY <1>7 DEF BackendEnds, Ended
  <1>8. ASSUME NEW c \in Conns, LinkerEnds(c) PROVE PushInv'
    BY <1>8 DEF LinkerEnds, Ended
  <1>9. ASSUME NEW c \in Conns, ReleaseSlot(c) PROVE PushInv'
    BY <1>9 DEF ReleaseSlot, pushes
  <1>10. ASSUME NEW c \in Conns, ReleaseSource(c) PROVE PushInv'
    BY <1>10 DEF ReleaseSource, pushes
  <1>11. ASSUME NEW c \in Conns, DiesSilently(c) PROVE PushInv'
    BY <1>11 DEF DiesSilently, pushes
  <1>12. ASSUME NEW c \in Conns, PushReads(c) PROVE PushInv'
    BY <1>12 DEF PushReads
  <1>13. ASSUME NEW c \in Conns, PushSends(c) PROVE PushInv'
    BY <1>13 DEF PushSends
  <1>14. CASE Save
    BY <1>14 DEF Save, pushes
  <1>15. CASE UNCHANGED vars
    BY <1>15 DEF vars, pushes
  <1> QED
    BY <1>1, <1>2, <1>3, <1>4, <1>5, <1>6, <1>7, <1>8, <1>9, <1>10, <1>11, <1>12,
       <1>13, <1>14, <1>15 DEF Next

(* No push loop takes a configuration for pushed that its peer, if it is   *)
(* still there, does not have, whatever is saved between the loop's reads. *)
THEOREM PushesArrive == Spec => []PushedIsGot
  <1> DEFINE Inv == Typed /\ SlotsInv /\ PushInv
  <1>1. Init => Inv
    BY TypedInit, SlotsInit DEF Init, PushInv
  <1>2. Inv /\ [Next]_vars => Inv'
    BY TypedStep, SlotsStep, PushStep DEF SlotsInv
  <1>3. Inv => PushedIsGot
    BY DEF PushInv, PushedIsGot
  <1> QED
    BY <1>1, <1>2, <1>3, PTL DEF Spec

-----------------------------------------------------------------------------
(* The limits.                                                             *)

(* What live connections hold: at most maxControlConns of them have a slot *)
(* and at most maxPerSource from one address are anywhere between accept   *)
(* and close, a handshake that never ends included.                        *)
WithinLimits ==
    /\ Cardinality(Holding(Slotted)) <= MaxControlConns
    /\ \A s \in Sources : Cardinality(ClaimedBy(s)) <= MaxPerSource

Counted ==
    slots <= MaxControlConns /\ \A s \in Sources : perSource[s] <= MaxPerSource

(* Every step counts up only below a limit.                                *)
LEMMA CountedStep == Typed /\ Counted /\ [Next]_vars => Counted'
  <1> SUFFICES ASSUME Typed, Counted, [Next]_vars PROVE Counted'
    OBVIOUS
  <1> USE ControlAssumption DEF Typed, Counted
  <1>1. ASSUME NEW c \in Conns, NEW s \in Sources, Accept(c, s) PROVE Counted'
    BY <1>1 DEF Accept, ClaimSource
  <1>2. ASSUME NEW c \in Conns, TakeSlot(c) PROVE Counted'
    BY <1>2 DEF TakeSlot
  <1>3. ASSUME NEW c \in Conns, NoSlot(c) \/ ReleaseSource(c) PROVE Counted'
    BY <1>3 DEF NoSlot, ReleaseSource, Released
  <1>4. ASSUME NEW c \in Conns, ReleaseSlot(c) PROVE Counted'
    BY <1>4 DEF ReleaseSlot
  <1>5. CASE UNCHANGED <<slots, perSource>>
    BY <1>5
  <1> QED
    BY <1>1, <1>2, <1>3, <1>4, <1>5 DEF Next, HelloBackend, HelloLinker, Rejected,
       BackendEnds, LinkerEnds, DiesSilently, PushReads, PushSends, Save, limits, vars

(* However connections come, hang and go, the server never serves more     *)
(* than its slots and one address never holds more than its share          *)
(* (claimSource, and the semaphore of listen).                             *)
THEOREM LimitsKept == Spec => []WithinLimits
  <1> DEFINE Inv == Typed /\ Counted
  <1>1. Init => Inv
    BY TypedInit, ControlAssumption DEF Init, Counted
  <1>2. Inv /\ [Next]_vars => Inv'
    BY TypedStep, CountedStep
  <1>3. Inv /\ NothingLeaks => WithinLimits
    BY DEF Counted, NothingLeaks, WithinLimits, Holding, ClaimedBy
  <1> QED
    BY <1>1, <1>2, <1>3, NoLeak, PTL DEF Spec

(* The server's state keeps its types: no count goes below zero and none   *)
(* past its limit (listen, serve and their deferred releases).             *)
THEOREM TypesHold == Spec => []TypeOK
  <1> DEFINE Inv == Typed /\ Counted /\ SlotsInv /\ BackendInv
  <1>1. Init => Inv
    <2> SUFFICES ASSUME Init PROVE BackendInv /\ Counted
      BY TypedInit, SlotsInit
    <2>1. Holding({"backend"}) = {} /\ backendConns = 0 /\ ~backendUp
      BY DEF Init, Holding
    <2>2. Counted
      BY ControlAssumption DEF Init, Counted
    <2> QED
      BY <2>1, <2>2, FS_EmptySet DEF BackendInv
  <1>2. Inv /\ [Next]_vars => Inv'
    BY TypedStep, CountedStep, SlotsStep, BackendStep DEF SlotsInv
  <1>3. Inv /\ NothingLeaks => TypeOK
    <2> SUFFICES ASSUME Inv, NothingLeaks PROVE TypeOK
      OBVIOUS
    <2>1. ASSUME NEW S \in SUBSET Conns PROVE Cardinality(S) \in Nat
      BY ControlAssumption, FS_Subset, FS_CardinalityType
    <2>2. slots \in Nat /\ backendConns \in Nat /\ \A s \in Sources : perSource[s] \in Nat
      BY <2>1 DEF NothingLeaks, BackendInv, Holding
    <2>3. slots \in 0..MaxControlConns /\ perSource \in [Sources -> 0..MaxPerSource]
      BY <2>2, ControlAssumption DEF Typed, Counted
    <2> QED
      BY <2>2, <2>3 DEF Typed, TypeOK
  <1> QED
    BY <1>1, <1>2, <1>3, NoLeak, PTL DEF Spec
=============================================================================
