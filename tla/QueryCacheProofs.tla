-------------------------- MODULE QueryCacheProofs --------------------------
(***************************************************************************)
(* Proofs about QueryCache for any replies, sources, windows, deadlines    *)
(* and budgets, and about Tables, whose redirects lead to the cache, for   *)
(* any configurations, lists and sequences of faults and crashes.          *)
(***************************************************************************)
EXTENDS QueryCache, Tables, TLAPS

Ages == Nat \cup {Never}
Trips == [took : Nat, sent : Nat, attempt : Nat]

Typed ==
  /\ fetched \in [Names -> Ages] /\ demand \in [Names -> Ages] /\ attempted \in [Names -> Ages]
  /\ made \in [Names -> Ages] /\ ended \in [Names -> Ages]
  /\ at \in 0..Len(Entries) /\ lag \in Nat /\ size \in [Names -> Nat]
  /\ fetch # None => fetch \in Trips /\ at # 0

(* What the assumption says, fact by fact.                                 *)
LEMMA Timings ==
  /\ RefreshEvery \in Nat /\ StaleAfter \in Nat /\ IdleAfter \in Nat /\ UpstreamTimeout \in Nat
  /\ Burst \in Nat /\ Refill \in Nat /\ PaceIdle \in Nat /\ Never \notin Int
  /\ Len(Entries) \in Nat \ {0}
  <1>1. Len(Entries) \in Nat \ {0}
    BY QueryCacheAssumption
  <1> QED
    BY <1>1, QueryCacheAssumption

LEMMA Windows ==
  ASSUME NEW e \in Names, NEW base \in Nat
  PROVE  Window(e, base) \in Nat
  <1>1. Scale[e] \in Nat
    BY QueryCacheAssumption
  <1> QED
    BY <1>1 DEF Window

LEMMA CurrentIs == ASSUME at \in 0..Len(Entries), at # 0
                   PROVE  Current \in Names /\ NextEntry \in 0..Len(Entries)
  <1>1. Entries \in Seq(Names) /\ Len(Entries) \in Nat
    BY QueryCacheAssumption, Timings
  <1> QED
    BY <1>1 DEF Current, NextEntry

(* Ageing.                                                                 *)
LEMMA AgedIs ==
  ASSUME NEW age \in Ages, NEW most \in Nat
  PROVE  /\ Older(age, most) \in Ages
         /\ Older(age, most) = Never <=> age = Never
         /\ age # Never => /\ age <= Older(age, most) /\ Older(age, most) <= age + 1
                           /\ age <= most => Older(age, most) = age + 1
                           /\ age > most => Older(age, most) = age
  BY Timings DEF Older, Ages

(* A round trip asked again, or a tick longer.                             *)
LEMMA AskedAgain ==
  ASSUME NEW f \in Trips, NEW g, g = [f EXCEPT !.attempt = @ + 1, !.sent = 0]
  PROVE  g \in Trips /\ g.took = f.took /\ g.sent = 0
  <1> DEFINE h == [f EXCEPT !.attempt = @ + 1]
  <1>1. h \in Trips
    BY DEF Trips
  <1>2. [h EXCEPT !.sent = 0] \in Trips
    <2> HIDE DEF h
    <2> QED
      BY <1>1 DEF Trips
  <1>3. g = [h EXCEPT !.sent = 0]
    BY DEF Trips
  <1>4. g.took = f.took /\ g.sent = 0
    BY DEF Trips
  <1> QED
    BY <1>2, <1>3, <1>4

LEMMA TickLonger ==
  ASSUME NEW f \in Trips, NEW g, g = [f EXCEPT !.took = @ + 1, !.sent = @ + 1]
  PROVE  g \in Trips /\ g.took = f.took + 1 /\ g.sent = f.sent + 1
  <1> DEFINE h == [f EXCEPT !.took = @ + 1]
  <1>1. h \in Trips
    BY DEF Trips
  <1>2. [h EXCEPT !.sent = @ + 1] \in Trips
    <2> HIDE DEF h
    <2> QED
      BY <1>1 DEF Trips
  <1>3. g = [h EXCEPT !.sent = @ + 1]
    BY DEF Trips
  <1>4. g.took = f.took + 1 /\ g.sent = f.sent + 1
    BY DEF Trips
  <1> QED
    BY <1>2, <1>3, <1>4

LEMMA TripsAre ==
  ASSUME NEW f \in Trips
  PROVE  f.took \in Nat /\ f.sent \in Nat
  BY DEF Trips

LEMMA TypedStep == Typed /\ [Next]_vars => Typed'
  <1> SUFFICES ASSUME Typed, [Next]_vars PROVE Typed'
    OBVIOUS
  <1> USE DEF entries, pacer, ghosts
  <1>1. ASSUME NEW src, NEW e \in Names, Query(src, e) PROVE Typed'
    BY <1>1 DEF Query, Bare, Unverified, Cold, Answer, Typed, Ages
  <1>0. at # 0 => Current \in Names /\ NextEntry \in 0..Len(Entries)
    BY CurrentIs DEF Typed
  <1>2. ASSUME RoundStarts \/ Skip PROVE Typed'
    <2>1. CASE RoundStarts
      BY <2>1, Timings DEF RoundStarts, Typed
    <2>2. CASE Skip
      BY <2>2, <1>0 DEF Skip, Typed
    <2> QED
      BY <1>2, <2>1, <2>2
  <1>3. ASSUME FetchStarts \/ ServerChallenges PROVE Typed'
    <2>1. fetch' \in Trips
      <3>1. CASE FetchStarts
        BY <3>1 DEF FetchStarts, Trips
      <3>2. CASE ServerChallenges
        <4>1. fetch \in Trips /\ fetch' = [fetch EXCEPT !.attempt = @ + 1, !.sent = 0]
          BY <3>2 DEF ServerChallenges, Typed
        <4> QED
          BY <4>1, AskedAgain
      <3> QED
        BY <1>3, <3>1, <3>2
    <2>2. at # 0 /\ UNCHANGED <<fetched, demand, attempted, made, ended, at, lag, size>>
      BY <1>3 DEF FetchStarts, ServerChallenges, Typed
    <2> QED
      BY <2>1, <2>2 DEF Typed
  <1>4. CASE FetchFails
    BY <1>4, <1>0 DEF FetchFails, Typed, Ages
  <1>5. ASSUME NEW n \in Totals, Store(n) PROVE Typed'
    <2>1. fetch # None /\ at # 0 /\ fetch.sent \in Nat /\ n \in Nat
      BY <1>5, TripsAre, QueryCacheAssumption DEF Store, Typed, Totals
    <2> QED
      BY <1>5, <1>0, <2>1 DEF Store, Typed, Ages
  <1>6. CASE Tick
    <2>1. /\ \A e \in Names : Window(e, StaleAfter) \in Nat /\ Window(e, RefreshEvery) \in Nat
          /\ (Len(Entries) - 1) * UpstreamTimeout \in Nat
      BY Windows, Timings
    <2>2. /\ \A e \in Names : Window(e, StaleAfter) + UpstreamTimeout \in Nat
          /\ \A e \in Names : Window(e, RefreshEvery) + (Len(Entries) - 1) * UpstreamTimeout \in Nat
          /\ IdleAfter + (Len(Entries) - 1) * UpstreamTimeout \in Nat
      BY <2>1, Timings
    <2>3. fetched' \in [Names -> Ages] /\ made' \in [Names -> Ages]
      BY <1>6, <2>1, <2>2, AgedIs DEF Tick, Aged, Typed
    <2>4. attempted' \in [Names -> Ages] /\ ended' \in [Names -> Ages] /\ demand' \in [Names -> Ages]
      BY <1>6, <2>1, <2>2, AgedIs DEF Tick, Aged, Typed
    <2>5. (fetch' # None => fetch' \in Trips /\ at' # 0) /\ lag' \in Nat /\ UNCHANGED <<at, size>>
      <3>1. CASE fetch = None
        BY <1>6, <3>1 DEF Tick, Typed
      <3>2. CASE fetch # None
        <4>1. fetch \in Trips /\ fetch' = [fetch EXCEPT !.took = @ + 1, !.sent = @ + 1]
          BY <1>6, <3>2 DEF Tick, Typed
        <4>2. fetch' \in Trips
          BY <4>1, TickLonger
        <4>3. lag' = (IF at = 0 THEN 0 ELSE lag + 1) /\ at' = at /\ size' = size
          BY <1>6 DEF Tick
        <4>4. at # 0 /\ lag \in Nat
          BY <3>2 DEF Typed
        <4> QED
          BY <4>2, <4>3, <4>4
      <3> QED
        BY <3>1, <3>2
    <2> QED
      BY <2>3, <2>4, <2>5 DEF Typed
  <1>7. CASE Restart
    BY <1>7, Timings DEF Restart, Typed, Ages
  <1>8. CASE UNCHANGED vars
    BY <1>8 DEF vars, Typed
  <1> QED
    BY <1>1, <1>2, <1>3, <1>4, <1>5, <1>6, <1>7, <1>8 DEF Next

LEMMA TypedInit == Init => Typed
  BY Timings DEF Init, Typed, Ages

-----------------------------------------------------------------------------
(* Freshness.                                                              *)

(* A cached reply is older at the server than in the cache by no more than *)
(* the round trip that fetched it, which has a deadline.                   *)
Freshness ==
  /\ fetch # None => fetch.sent <= fetch.took /\ fetch.took <= UpstreamTimeout
  /\ \A e \in Names :
       fetched[e] # Never => /\ made[e] # Never /\ made[e] <= fetched[e] + UpstreamTimeout
                             /\ fetched[e] <= Window(e, StaleAfter) + 1

LEMMA FreshnessStep == Typed /\ Freshness /\ [Next]_vars => Freshness'
  <1> SUFFICES ASSUME Typed, Freshness, [Next]_vars PROVE Freshness'
    OBVIOUS
  <1> USE DEF entries, ghosts
  <1>1. ASSUME \/ \E src \in Clients \cup Spoofed, e \in Names : Query(src, e)
               \/ RoundStarts \/ Skip \/ UNCHANGED vars
        PROVE  Freshness'
    <2>1. UNCHANGED <<fetched, made, fetch>>
      BY <1>1 DEF Query, Bare, Unverified, Cold, Answer, RoundStarts, Skip, vars
    <2> QED
      BY <2>1 DEF Freshness
  <1>2. CASE FetchStarts
    BY <1>2, Timings DEF FetchStarts, Freshness
  <1>3. CASE ServerChallenges
    <2>1. /\ fetch # None /\ fetch \in Trips /\ UNCHANGED <<fetched, made>>
          /\ fetch' = [fetch EXCEPT !.attempt = @ + 1, !.sent = 0]
      BY <1>3 DEF ServerChallenges, Typed
    <2>2. fetch'.took = fetch.took /\ fetch'.sent = 0 /\ fetch.took \in Nat
      BY <2>1, AskedAgain, TripsAre
    <2> QED
      BY <2>1, <2>2 DEF Freshness
  <1>4. CASE FetchFails
    BY <1>4 DEF FetchFails, Freshness
  <1>5. ASSUME NEW n \in Totals, Store(n) PROVE Freshness'
    <2>1. /\ fetch # None /\ fetch' = None /\ fetch.sent \in Nat /\ fetch.took \in Nat
          /\ fetched' = [fetched EXCEPT ![Current] = 0] /\ made' = [made EXCEPT ![Current] = fetch.sent]
      BY <1>5, TripsAre DEF Store, Typed
    <2>2. fetch.sent <= UpstreamTimeout /\ fetch.sent # Never
      BY <2>1, Timings DEF Freshness
    <2>3. ASSUME NEW e \in Names, fetched'[e] # Never
          PROVE  /\ made'[e] # Never /\ made'[e] <= fetched'[e] + UpstreamTimeout
                 /\ fetched'[e] <= Window(e, StaleAfter) + 1
      <3>1. Window(e, StaleAfter) \in Nat
        BY Windows, Timings
      <3> QED
        BY <2>1, <2>2, <2>3, <3>1, Timings DEF Freshness, Typed
    <2> QED
      BY <2>1, <2>3 DEF Freshness
  <1>6. CASE Tick
    <2>1. fetch' # None => fetch'.sent <= fetch'.took /\ fetch'.took <= UpstreamTimeout
      <3>1. CASE fetch = None
        BY <1>6, <3>1 DEF Tick
      <3>2. CASE fetch # None
        <4>1. /\ fetch \in Trips /\ fetch' = [fetch EXCEPT !.took = @ + 1, !.sent = @ + 1]
              /\ fetch.took < UpstreamTimeout /\ fetch.sent <= fetch.took
          BY <1>6, <3>2 DEF Tick, Typed, Freshness
        <4>2. /\ fetch'.took = fetch.took + 1 /\ fetch'.sent = fetch.sent + 1
              /\ fetch.took \in Nat /\ fetch.sent \in Nat
          BY <4>1, TickLonger, TripsAre
        <4> QED
          BY <4>1, <4>2, Timings
      <3> QED
        BY <3>1, <3>2
    <2>2. ASSUME NEW e \in Names, fetched'[e] # Never
          PROVE  /\ made'[e] # Never /\ made'[e] <= fetched'[e] + UpstreamTimeout
                 /\ fetched'[e] <= Window(e, StaleAfter) + 1
      <3> DEFINE w == Window(e, StaleAfter)
      <3>1. w \in Nat
        BY Windows, Timings
      <3>2. fetched'[e] = Older(fetched[e], w) /\ made'[e] = Older(made[e], w + UpstreamTimeout)
        BY <1>6 DEF Tick, Aged, Typed
      <3> HIDE DEF w
      <3>3. fetched[e] # Never /\ fetched[e] \in Nat
        BY <2>2, <3>2 DEF Older, Typed, Ages
      <3>4. /\ made[e] \in Nat /\ made[e] # Never
            /\ made[e] <= fetched[e] + UpstreamTimeout /\ fetched[e] <= w + 1
        BY <3>3 DEF Freshness, Typed, Ages, w
      <3>5. /\ fetched'[e] = IF fetched[e] > w THEN fetched[e] ELSE fetched[e] + 1
            /\ made'[e] = IF made[e] > w + UpstreamTimeout THEN made[e] ELSE made[e] + 1
        BY <3>2, <3>3, <3>4 DEF Older
      <3>6. made'[e] \in Nat /\ made'[e] <= fetched'[e] + UpstreamTimeout /\ fetched'[e] <= w + 1
        BY <3>1, <3>3, <3>4, <3>5, Timings
      <3> QED
        BY <3>6, Timings DEF w
    <2> QED
      BY <2>1, <2>2 DEF Freshness
  <1>7. CASE Restart
    BY <1>7 DEF Restart, Freshness
  <1> QED
    BY <1>1, <1>2, <1>3, <1>4, <1>5, <1>6, <1>7 DEF Next

(* Whatever is served was true at the server no longer ago than its window *)
(* and one round trip, for any windows and deadlines (fresh, collect).     *)
THEOREM FreshServed == Spec => []ServedFresh
  <1>1. Init => Typed /\ Freshness
    BY TypedInit DEF Init, Freshness
  <1>2. Typed /\ Freshness /\ [Next]_vars => (Typed /\ Freshness)'
    BY TypedStep, FreshnessStep
  <1>3. Typed /\ Freshness => ServedFresh
    <2> SUFFICES ASSUME Typed, Freshness, NEW e \in Names, Fresh(e)
                 PROVE  made[e] <= Window(e, StaleAfter) + UpstreamTimeout
      BY DEF ServedFresh
    <2>1. Window(e, StaleAfter) \in Nat /\ fetched[e] \in Nat /\ made[e] \in Nat
      BY Windows, Timings DEF Fresh, Freshness, Typed, Ages
    <2> QED
      BY <2>1, Timings DEF Fresh, Freshness
  <1> QED
    BY <1>1, <1>2, <1>3, PTL DEF Spec

-----------------------------------------------------------------------------
(* Polls.                                                                  *)

(* The demand on record is what verified sources asked for, and no fetch   *)
(* is on record as having ended earlier than it did.                       *)
Polling ==
  /\ earned = demand
  /\ \A e \in Names :
       /\ attempted[e] = Never <=> ended[e] = Never
       /\ ended[e] # Never => ended[e] >= attempted[e] \/ ended[e] >= Window(e, RefreshEvery)

LEMMA PollingStep == Typed /\ Polling /\ [Next]_vars => Polling'
  <1> SUFFICES ASSUME Typed, Polling, [Next]_vars PROVE Polling'
    OBVIOUS
  <1> USE DEF entries, ghosts
  <1>1. ASSUME \/ \E src \in Clients \cup Spoofed, e \in Names : Query(src, e)
               \/ RoundStarts \/ Skip \/ FetchStarts \/ ServerChallenges \/ UNCHANGED vars
        PROVE  Polling'
    <2>1. UNCHANGED <<attempted, ended>> /\ earned' = demand'
      BY <1>1 DEF Query, Bare, Unverified, Cold, Answer, RoundStarts, Skip, FetchStarts,
                  ServerChallenges, vars, Polling
    <2> QED
      BY <2>1 DEF Polling
  <1>2. ASSUME FetchFails \/ \E n \in Totals : Store(n) PROVE Polling'
    <2>1. /\ attempted' = [attempted EXCEPT ![Current] = 0] /\ ended' = [ended EXCEPT ![Current] = 0]
          /\ UNCHANGED <<earned, demand>>
      BY <1>2 DEF FetchFails, Store
    <2> QED
      BY <2>1, Timings DEF Polling, Typed
  <1>3. CASE Tick
    <2>1. earned' = demand'
      BY <1>3 DEF Tick, Polling
    <2>2. ASSUME NEW e \in Names
          PROVE  /\ attempted'[e] = Never <=> ended'[e] = Never
                 /\ ended'[e] # Never =>
                      ended'[e] >= attempted'[e] \/ ended'[e] >= Window(e, RefreshEvery)
      <3> DEFINE w == Window(e, RefreshEvery)
                 c == (Len(Entries) - 1) * UpstreamTimeout
      <3>1. w \in Nat /\ c \in Nat
        BY Windows, Timings
      <3>2. attempted'[e] = Older(attempted[e], w + c) /\ ended'[e] = Older(ended[e], w)
        BY <1>3 DEF Tick, Aged, Typed
      <3> HIDE DEF w, c
      <3>3. /\ attempted[e] \in Ages /\ ended[e] \in Ages
            /\ attempted[e] = Never <=> ended[e] = Never
            /\ ended[e] # Never => ended[e] >= attempted[e] \/ ended[e] >= w
        BY DEF Polling, Typed, w
      <3>4. /\ attempted'[e] = Never <=> ended'[e] = Never
            /\ ended'[e] # Never => ended'[e] >= attempted'[e] \/ ended'[e] >= w
        <4>1. CASE ended[e] = Never
          BY <3>2, <3>3, <4>1 DEF Older
        <4>2. CASE ended[e] # Never
          <5>1. attempted[e] \in Nat /\ ended[e] \in Nat
            BY <3>3, <4>2 DEF Ages
          <5>2. /\ attempted'[e] = IF attempted[e] > w + c THEN attempted[e] ELSE attempted[e] + 1
                /\ ended'[e] = IF ended[e] > w THEN ended[e] ELSE ended[e] + 1
            BY <3>2, <3>3, <4>2 DEF Older
          <5>3. attempted'[e] \in Nat /\ ended'[e] \in Nat
            BY <5>1, <5>2
          <5>4. ended'[e] >= attempted'[e] \/ ended'[e] >= w
            BY <3>1, <3>3, <4>2, <5>1, <5>2
          <5> QED
            BY <5>3, <5>4, Timings
        <4> QED
          BY <4>1, <4>2
      <3> QED
        BY <3>4 DEF w
    <2> QED
      BY <2>1, <2>2 DEF Polling
  <1>4. CASE Restart
    BY <1>4 DEF Restart, Polling
  <1> QED
    BY <1>1, <1>2, <1>3, <1>4 DEF Next

(* The tunnel is polled only for a reply a verified source asked for in    *)
(* time and no sooner than its interval, for any sources, scales and       *)
(* intervals (serve, refreshEntry).                                        *)
THEOREM PollsEarned == Spec => PollsAreEarned
  <1> DEFINE Earned ==
        /\ earned[Current] # Never
        /\ earned[Current] <= IdleAfter + lag
        /\ ended[Current] # Never => ended[Current] >= Window(Current, RefreshEvery)
  <1>1. Init => Typed /\ Polling
    BY TypedInit DEF Init, Polling
  <1>2. Typed /\ Polling /\ [Next]_vars => (Typed /\ Polling)'
    BY TypedStep, PollingStep
  <1>3. Typed /\ Polling /\ [Next]_vars => [fetch = None /\ fetch' # None => Earned]_vars
    <2> SUFFICES ASSUME Typed, Polling, Next, fetch = None, fetch' # None PROVE Earned
      OBVIOUS
    <2>1. FetchStarts
      BY DEF Next, Query, Bare, Unverified, Cold, Answer, RoundStarts, Skip, ServerChallenges,
             FetchFails, Store, Tick, Restart
    <2>2. Current \in Names /\ WantedNow /\ Due
      BY <2>1, CurrentIs DEF FetchStarts, Typed
    <2> DEFINE w == Window(Current, RefreshEvery)
    <2>3. w \in Nat
      BY <2>2, Windows, Timings
    <2>4. demand[Current] \in Ages /\ attempted[Current] \in Ages /\ ended[Current] \in Ages /\ lag \in Nat
      BY <2>2 DEF Typed
    <2>5. earned[Current] # Never /\ earned[Current] <= IdleAfter + lag
      BY <2>2, <2>4, Timings DEF WantedNow, Polling, Ages
    <2>6. ASSUME ended[Current] # Never PROVE ended[Current] >= w
      <3>1. attempted[Current] # Never /\ (ended[Current] >= attempted[Current] \/ ended[Current] >= w)
        BY <2>2, <2>6 DEF Polling
      <3>2. attempted[Current] - lag >= w
        BY <2>2, <3>1 DEF Due
      <3> HIDE DEF w
      <3>3. attempted[Current] \in Nat /\ ended[Current] \in Nat
        BY <2>4, <2>6, <3>1 DEF Ages
      <3> QED
        BY <2>3, <2>4, <3>1, <3>2, <3>3
    <2> QED
      BY <2>5, <2>6
  <1> QED
    BY <1>1, <1>2, <1>3, PTL DEF Spec, PollsAreEarned

-----------------------------------------------------------------------------
(* The budget.                                                             *)

(* What the bucket of a listed source holds is never more than an          *)
(* untouched budget would allow it, and a source that was forgotten has    *)
(* earned its whole burst.                                                 *)
Budget ==
  /\ tokens \in [Clients -> Nat] /\ last \in [Clients -> Nat] /\ place \in [Clients -> Nat]
  /\ credit \in [Clients -> Int]
  /\ \A s \in Clients :
       /\ credit[s] >= 0
       /\ IF place[s] > 0 THEN credit[s] >= Lesser(Burst, tokens[s] + last[s] * Refill)
          ELSE credit[s] >= Burst

(* The refill of more ticks is more.                                       *)
LEMMA Refills ==
  ASSUME NEW a \in Nat, NEW b \in Nat
  PROVE  /\ a * Refill \in Nat
         /\ (a + 1) * Refill = a * Refill + Refill
         /\ a <= b => a * Refill <= b * Refill
  <1>1. Refill \in Nat
    BY Timings
  <1>2. a * Refill \in Nat /\ (a + 1) * Refill = a * Refill + Refill
    BY <1>1
  <1>3. ASSUME a <= b PROVE a * Refill <= b * Refill
    <2>1. b - a \in Nat /\ b * Refill = a * Refill + (b - a) * Refill
      BY <1>1, <1>3
    <2>2. (b - a) * Refill \in Nat /\ b * Refill \in Nat
      BY <1>1, <2>1
    <2> QED
      BY <1>2, <2>1, <2>2
  <1> QED
    BY <1>2, <1>3

LEMMA LesserGrows ==
  ASSUME NEW b \in Nat, NEW c \in Int, NEW t \in Nat, NEW x \in Nat, NEW r \in Nat
  PROVE  /\ Lesser(b, t + x) <= b
         /\ c >= Lesser(b, t + x) => Lesser(b, c + r) >= Lesser(b, t + (x + r))
  BY DEF Lesser

(* A source idle past the bound has its whole burst back.                  *)
LEMMA IdleIsFull ==
  ASSUME Budget, NEW s \in Clients, last[s] > PaceIdle
  PROVE  credit[s] >= Burst
  <1>1. Burst <= PaceIdle * Refill /\ PaceIdle \in Nat /\ Burst \in Nat
    BY QueryCacheAssumption, Timings
  <1>2. last[s] \in Nat /\ tokens[s] \in Nat
    BY DEF Budget
  <1>3. PaceIdle * Refill <= last[s] * Refill /\ last[s] * Refill \in Nat /\ PaceIdle * Refill \in Nat
    BY <1>1, <1>2, Refills
  <1>4. Lesser(Burst, tokens[s] + last[s] * Refill) = Burst
    BY <1>1, <1>2, <1>3 DEF Lesser
  <1> QED
    BY <1>4 DEF Budget

(* The bucket a source is charged from is within its budget.               *)
LEMMA AvailableIs ==
  ASSUME Budget, NEW src \in Clients
  PROVE  Available(src) \in Nat /\ Available(src) <= credit[src]
  <1>1. last[src] \in Nat /\ tokens[src] \in Nat /\ place[src] \in Nat /\ credit[src] \in Int
    BY DEF Budget
  <1>2. CASE src \in Prune
    <2>1. place[src] > 0 /\ last[src] * Refill \in Nat
      BY <1>1, <1>2, Refills DEF Prune
    <2>2. Available(src) = Lesser(Burst, tokens[src] + last[src] * Refill)
      BY <1>2 DEF Available
    <2> QED
      BY <1>1, <2>1, <2>2, Timings DEF Lesser, Budget
  <1>3. CASE src \notin Prune
    <2>1. Available(src) = Burst
      BY <1>3 DEF Available
    <2>2. place[src] = 0 \/ last[src] > PaceIdle
      BY <1>1, <1>3, Timings DEF Prune
    <2>3. credit[src] >= Burst
      BY <1>1, <2>2, IdleIsFull DEF Budget
    <2> QED
      BY <2>1, <2>3, Timings
  <1> QED
    BY <1>2, <1>3

LEMMA ChargeKeepsBudget ==
  ASSUME Budget, NEW src \in Clients, NEW n \in Nat, Charge(src, n)
  PROVE  Budget'
  <1>1. Available(src) \in Nat /\ Available(src) <= credit[src] /\ credit[src] \in Int
    BY AvailableIs DEF Budget
  <1>2. src \in Seen(src) /\ src \notin Evicted(src)
    BY DEF Seen, Evicted
  <1>3. \A s \in Seen(src) \ {src} : s \in Prune
    BY DEF Seen
  <1>4. \A s \in Prune : place[s] > 0
    BY DEF Prune
  <1> DEFINE kept == IF Allow(src, n) THEN Available(src) - n ELSE Available(src)
  <1>5. kept \in Nat
    BY <1>1 DEF Allow
  <1>6. /\ place' = MovedToFront(src)
        /\ tokens' = [s \in Clients |-> IF s = src THEN kept
                                       ELSE IF s \in Seen(src) THEN tokens[s] ELSE Burst]
        /\ last' = [s \in Clients |-> IF s = src \/ s \notin Seen(src) THEN 0 ELSE last[s]]
        /\ credit' = [s \in Clients |->
             IF s \in Evicted(src) THEN Burst
             ELSE IF s = src /\ Allow(src, n) THEN credit[s] - n ELSE credit[s]]
    BY DEF Charge
  <1>7. /\ tokens' \in [Clients -> Nat] /\ last' \in [Clients -> Nat]
        /\ credit' \in [Clients -> Int] /\ place' \in [Clients -> Nat]
    <2>1. tokens' \in [Clients -> Nat]
      BY <1>5, <1>6, Timings DEF Budget
    <2>2. last' \in [Clients -> Nat]
      BY <1>6 DEF Budget
    <2>3. credit' \in [Clients -> Int]
      BY <1>6, Timings DEF Budget
    <2>4. place' \in [Clients -> Nat]
      BY <1>6 DEF MovedToFront, Budget
    <2> QED
      BY <2>1, <2>2, <2>3, <2>4
  <1>8. ASSUME NEW s \in Clients
        PROVE  /\ credit'[s] >= 0
               /\ IF place'[s] > 0 THEN credit'[s] >= Lesser(Burst, tokens'[s] + last'[s] * Refill)
                  ELSE credit'[s] >= Burst
    <2>1. CASE s = src
      <3>1. /\ place'[s] = 1 /\ tokens'[s] = kept /\ last'[s] = 0
            /\ credit'[s] = IF Allow(src, n) THEN credit[s] - n ELSE credit[s]
        BY <1>2, <1>6, <2>1 DEF MovedToFront
      <3>2. credit'[s] >= kept /\ 0 * Refill = 0
        BY <1>1, <2>1, <3>1, Timings
      <3> HIDE DEF kept
      <3>3. credit'[s] \in Int
        BY <1>7
      <3> QED
        BY <1>5, <3>1, <3>2, <3>3, Timings DEF Lesser
    <2>2. CASE s # src /\ s \in Seen(src)
      <3>1. s \in Prune /\ place[s] > 0 /\ s \notin Evicted(src)
        BY <1>3, <1>4, <2>2 DEF Seen
      <3>2. place'[s] > 0 /\ tokens'[s] = tokens[s] /\ last'[s] = last[s] /\ credit'[s] = credit[s]
        BY <1>6, <2>2, <3>1 DEF MovedToFront, Budget
      <3> QED
        BY <3>1, <3>2 DEF Budget
    <2>3. CASE s \notin Seen(src)
      <3>1. s # src /\ place'[s] = 0
        BY <1>2, <1>6, <2>3 DEF MovedToFront
      <3>2. CASE s \in Evicted(src)
        BY <1>6, <3>1, <3>2, Timings
      <3>3. CASE s \notin Evicted(src)
        <4>1. s \notin Prune /\ credit'[s] = credit[s]
          BY <1>6, <2>3, <3>1, <3>3 DEF Seen
        <4>2. last[s] \in Nat /\ place[s] \in Nat
          BY DEF Budget
        <4>3. place[s] = 0 \/ last[s] > PaceIdle
          BY <4>1, <4>2, Timings DEF Prune
        <4>4. credit[s] >= Burst /\ credit[s] >= 0
          BY <4>2, <4>3, IdleIsFull DEF Budget
        <4> QED
          BY <3>1, <4>1, <4>4
      <3> QED
        BY <3>2, <3>3
    <2> QED
      BY <2>1, <2>2, <2>3
  <1> QED
    BY <1>7, <1>8 DEF Budget

LEMMA BudgetStep == Typed /\ Budget /\ [Next]_vars => Budget'
  <1> SUFFICES ASSUME Typed, Budget, [Next]_vars PROVE Budget'
    OBVIOUS
  <1> USE DEF pacer, ghosts
  <1>1. ASSUME NEW src \in Clients \cup Spoofed, NEW e \in Names, Answer(src, e) PROVE Budget'
    <2>1. src \in Clients /\ Charge(src, size[e]) /\ size[e] \in Nat
      BY <1>1 DEF Answer, Verify, Typed
    <2> QED
      BY <2>1, ChargeKeepsBudget
  <1>2. CASE Tick
    <2>1. /\ last' = [s \in Clients |-> IF place[s] > 0 THEN Older(last[s], PaceIdle) ELSE 0]
          /\ credit' = [s \in Clients |-> Lesser(Burst, credit[s] + Refill)]
          /\ UNCHANGED <<tokens, place>>
      BY <1>2 DEF Tick
    <2>2. ASSUME NEW s \in Clients
          PROVE  /\ last'[s] \in Nat /\ credit'[s] \in Int /\ credit'[s] >= 0
                 /\ IF place[s] > 0 THEN credit'[s] >= Lesser(Burst, tokens[s] + last'[s] * Refill)
                    ELSE credit'[s] >= Burst
      <3>1. /\ credit[s] \in Int /\ credit[s] >= 0 /\ tokens[s] \in Nat /\ last[s] \in Nat
            /\ place[s] \in Nat /\ last[s] # Never
        BY Timings DEF Budget
      <3>2. /\ credit'[s] = Lesser(Burst, credit[s] + Refill)
            /\ credit'[s] \in Int /\ credit'[s] >= 0
        BY <2>1, <3>1, Timings DEF Lesser
      <3>3. credit[s] >= Burst => credit'[s] = Burst
        BY <3>1, <3>2, Timings DEF Lesser
      <3>4. CASE place[s] = 0
        <4>1. last'[s] = 0 /\ credit[s] >= Burst
          BY <2>1, <3>4 DEF Budget
        <4> QED
          BY <3>2, <3>3, <3>4, <4>1, Timings
      <3>5. CASE place[s] > 0 /\ last[s] > PaceIdle
        <4>1. last'[s] = last[s] /\ credit'[s] = Burst
          BY <2>1, <3>1, <3>3, <3>5, IdleIsFull, Timings DEF Older
        <4>2. last[s] * Refill \in Nat
          BY <3>1, Refills
        <4>3. Lesser(Burst, tokens[s] + last[s] * Refill) <= Burst
          BY <3>1, <4>2, LesserGrows, Timings
        <4> QED
          BY <3>1, <3>2, <3>5, <4>1, <4>3
      <3>6. CASE place[s] > 0 /\ last[s] <= PaceIdle
        <4>1. last'[s] = last[s] + 1
          BY <2>1, <3>1, <3>6, Timings DEF Older
        <4> DEFINE x == last[s] * Refill
        <4>2. x \in Nat /\ last'[s] * Refill = x + Refill
          BY <3>1, <4>1, Refills
        <4>3. credit[s] >= Lesser(Burst, tokens[s] + x)
          BY <3>6 DEF Budget
        <4> HIDE DEF x
        <4>4. credit'[s] >= Lesser(Burst, tokens[s] + last'[s] * Refill)
          <5>1. Lesser(Burst, credit[s] + Refill) >= Lesser(Burst, tokens[s] + (x + Refill))
            BY <3>1, <4>2, <4>3, LesserGrows, Timings
          <5> QED
            BY <3>2, <4>2, <5>1
        <4> QED
          BY <3>1, <3>2, <3>6, <4>1, <4>4
      <3> QED
        BY <3>1, <3>4, <3>5, <3>6, Timings
    <2>3. last' \in [Clients -> Nat] /\ credit' \in [Clients -> Int]
      BY <2>1, <2>2
    <2> QED
      BY <2>1, <2>2, <2>3 DEF Budget
  <1>3. CASE Restart
    <2>1. /\ tokens' = [s \in Clients |-> Burst] /\ last' = [s \in Clients |-> 0]
          /\ place' = [s \in Clients |-> 0] /\ credit' = [s \in Clients |-> Burst]
      BY <1>3 DEF Restart
    <2> QED
      BY <2>1, Timings DEF Budget
  <1>4. ASSUME \/ \E src \in Clients \cup Spoofed, e \in Names :
                    Bare(src, e) \/ Unverified(src) \/ Cold(src, e)
               \/ RoundStarts \/ Skip \/ FetchStarts \/ ServerChallenges \/ FetchFails
               \/ \E n \in Totals : Store(n)
               \/ UNCHANGED vars
        PROVE  Budget'
    <2>1. UNCHANGED <<tokens, last, place, credit>>
      BY <1>4 DEF Bare, Unverified, Cold, RoundStarts, Skip, FetchStarts, ServerChallenges,
                  FetchFails, Store, vars
    <2> QED
      BY <2>1 DEF Budget
  <1> QED
    BY <1>1, <1>2, <1>3, <1>4 DEF Next, Query

(* No source draws more than its burst and its refill, for any sizes,      *)
(* budgets and number of sources, although idle ones are forgotten (allow, *)
(* prune).                                                                 *)
THEOREM BudgetHolds == Spec => []WithinBudget
  <1>1. Init => Typed /\ Budget
    <2>1. Init => /\ tokens = [s \in Clients |-> Burst] /\ last = [s \in Clients |-> 0]
                  /\ place = [s \in Clients |-> 0] /\ credit = [s \in Clients |-> Burst]
      BY DEF Init
    <2> QED
      BY <2>1, TypedInit, Timings DEF Budget
  <1>2. Typed /\ Budget /\ [Next]_vars => (Typed /\ Budget)'
    BY TypedStep, BudgetStep
  <1>3. Budget => WithinBudget
    BY DEF Budget, WithinBudget
  <1> QED
    BY <1>1, <1>2, <1>3, PTL DEF Spec

-----------------------------------------------------------------------------
(***************************************************************************)
(* The tables whose redirects lead to the cache, and the other two the     *)
(* frontend keeps beside them.                                             *)
(***************************************************************************)
Applying == {"rules", "record", "protect", "blocklist", "fill", "start"}
Reverting == {"unpublish", "forget", "untable", "observe"}

(* blMu is the portal's while it fills the set or reverts, the refresher's *)
(* while it loads; what the refresher read under it stays true until then. *)
LockInv ==
  /\ op \in {"idle", "swap"} \cup Applying \cup Reverting
  /\ ref \in {"idle", "fetch", "note", "install", "load"}
  /\ (blMu = "portal") <=> (op \in Reverting \cup {"fill"})
  /\ (blMu = "refresher") <=> (ref = "load")
  /\ ref = "load" => job.armed = cfg.armed /\ job.nets = nets
  /\ DOMAIN tab = Tabs /\ on \in [Tabs -> BOOLEAN]

(* What a restart would find in the store at each stage of a request.      *)
StoreInv ==
  /\ reverted \in BOOLEAN /\ dReverted \in BOOLEAN
  /\ op = "swap" => dCfg = new
  /\ op \in Applying => dCfg = cfg /\ ~reverted
  /\ op \in Reverting => reverted

(* What is redirected is recorded, or about to be.                         *)
RecordInv ==
  /\ op = "record" => cfg.armed /\ redirects = cfg.spans
  /\ op \in {"forget", "untable", "observe"} => stale \/ redirects = NoSpans
  /\ ~stale => redirects \in {NoSpans, dSpans} \/ op = "record"
  /\ (~stale /\ cfg.armed /\ op \in {"protect", "blocklist", "fill", "start"})
       => redirects = cfg.spans
  /\ RedirectsAnswered

(* The list of a blocklist this process loaded is in the set, or its load  *)
(* is still to come; the record says the table is there, and observe mode  *)
(* or a revert has yet to take it away.                                    *)
HeldInv ==
  /\ held \in BOOLEAN /\ feed \in Lists
  /\ samp = Idle \/ samp.saw \in {"missing", "table", "nothing"}
  /\ op = "fill" => feedSet = NoList
  /\ held =>
       /\ on["blocklist"]
       /\ ref = "load" => job.on
       /\ nets = NoList => feedSet = NoList
       /\ ~cfg.armed => op \in {"rules", "protect", "blocklist"}
       /\ reverted => op \in Reverting
       /\ (cfg.armed /\ ~reverted) =>
             \/ feedSet = nets \/ loadFailed
             \/ op = "fill" \/ ref \in {"note", "install", "load"}

-----------------------------------------------------------------------------
(* The steps outside the portal's requests.                                *)
Beside ==
  \/ Fetch \/ Refresher \/ Sampler
  \/ \E l \in Lists : FeedChanges(l)
  \/ \E t \in Tabs : FlushedByHand(t)

LEMMA NextSplits ==
  ASSUME TablesNext
  PROVE  \/ \E c \in Configs : Save(c)
         \/ RevertLatches \/ Portal \/ Beside \/ Crash
BY DEF TablesNext, Beside

(* None of them touches what a request works on.                           *)
request == <<cfg, new, reverted, dCfg, dReverted, dSpans, redirects, sockets, op, stale>>

LEMMA BesideLeaves ==
  ASSUME Beside
  PROVE  UNCHANGED request
<1> USE DEF request, store, kernel, latch, list, counts
<1>1. CASE Fetch
  BY <1>1 DEF Fetch
<1>2. CASE Refresher
  BY <1>2 DEF Refresher, RetryLoad, FetchRefused, FetchConfirms, FetchAccepted,
              Note, Install, InstallLoads
<1>3. CASE Sampler
  BY <1>3 DEF Sampler, SampleReads, SampleRecords
<1>4. ASSUME NEW l \in Lists, FeedChanges(l)
      PROVE  UNCHANGED request
  BY <1>4 DEF FeedChanges
<1>5. ASSUME NEW t \in Tabs, FlushedByHand(t)
      PROVE  UNCHANGED request
  BY <1>5 DEF FlushedByHand
<1> QED BY <1>1, <1>2, <1>3, <1>4, <1>5 DEF Beside

LEMMA LockSteps ==
  ASSUME LockInv, [TablesNext]_tableVars
  PROVE  LockInv'
<1> USE DEF LockInv, Applying, Reverting, Tabs, store, kernel, latch, list, counts
<1>1. ASSUME NEW c \in Configs, Save(c) PROVE LockInv'
  BY <1>1 DEF Save
<1>2. CASE Swap
  BY <1>2 DEF Swap
<1>3. CASE ApplyRuleset \/ PersistAppliedQueryCache \/ StartQueryCache
  BY <1>3 DEF ApplyRuleset, PersistAppliedQueryCache, StartQueryCache
<1>4. CASE ApplyProtect
  BY <1>4 DEF ApplyProtect, RemoveTable, Load, LoadFails
<1>5. CASE ApplyBlocklist
  BY <1>5 DEF ApplyBlocklist, RemoveTable, Load, LoadFails
<1>6. CASE Fill
  BY <1>6 DEF Fill
<1>7. CASE RevertLatches \/ RevertRemoves
  BY <1>7 DEF RevertLatches, RevertRemoves, Unpublishes, Forgets, Untables
<1>8. CASE RevertObserves
  BY <1>8 DEF RevertObserves
<1>9. CASE Fetch \/ RetryLoad \/ FetchRefused \/ FetchConfirms
  BY <1>9 DEF Fetch, RetryLoad, FetchRefused, FetchConfirms
<1>10. CASE FetchAccepted \/ Note
  BY <1>10 DEF FetchAccepted, Note
<1>11. CASE Install
  BY <1>11 DEF Install
<1>12. CASE InstallLoads
  BY <1>12 DEF InstallLoads
<1>13. ASSUME NEW t \in Tabs, SampleReads(t) \/ SampleRecords(t) PROVE LockInv'
  BY <1>13 DEF SampleReads, SampleRecords
<1>14. ASSUME NEW l \in Lists, FeedChanges(l) PROVE LockInv'
  BY <1>14 DEF FeedChanges
<1>15. ASSUME NEW t \in Tabs, FlushedByHand(t) PROVE LockInv'
  BY <1>15 DEF FlushedByHand
<1>16. CASE Crash
  BY <1>16 DEF Crash
<1>17. CASE UNCHANGED tableVars
  BY <1>17 DEF tableVars
<1> QED
  BY <1>1, <1>2, <1>3, <1>4, <1>5, <1>6, <1>7, <1>8, <1>9, <1>10, <1>11, <1>12, <1>13, <1>14,
     <1>15, <1>16, <1>17 DEF TablesNext, Portal, Refresher, Sampler

LEMMA StoreSteps ==
  ASSUME LockInv, StoreInv, [TablesNext]_tableVars
  PROVE  StoreInv'
<1> USE DEF LockInv, StoreInv, Applying, Reverting, store, kernel, latch, list, counts
<1>1. ASSUME NEW c \in Configs, Save(c) PROVE StoreInv'
  BY <1>1 DEF Save
<1>2. CASE Swap
  BY <1>2 DEF Swap, Unlatches
<1>3. CASE ApplyRuleset \/ PersistAppliedQueryCache \/ StartQueryCache
  BY <1>3 DEF ApplyRuleset, PersistAppliedQueryCache, StartQueryCache
<1>4. CASE ApplyProtect \/ ApplyBlocklist \/ Fill
  BY <1>4 DEF ApplyProtect, ApplyBlocklist, Fill
<1>5. CASE RevertLatches \/ RevertRemoves
  BY <1>5 DEF RevertLatches, RevertRemoves, Unpublishes, Forgets, Untables
<1>6. CASE RevertObserves
  BY <1>6 DEF RevertObserves
<1>7. CASE Beside
  BY <1>7, BesideLeaves DEF request
<1>8. CASE Crash
  BY <1>8 DEF Crash
<1>9. CASE UNCHANGED tableVars
  BY <1>9 DEF tableVars
<1> QED
  BY <1>1, <1>2, <1>3, <1>4, <1>5, <1>6, <1>7, <1>8, <1>9, NextSplits DEF Portal

LEMMA RecordSteps ==
  ASSUME LockInv, StoreInv, RecordInv, [TablesNext]_tableVars
  PROVE  RecordInv'
<1> USE DEF LockInv, StoreInv, RecordInv, RedirectsAnswered, Applying, Reverting,
            store, kernel, latch, list, counts
<1>1. ASSUME NEW c \in Configs, Save(c) PROVE RecordInv'
  BY <1>1 DEF Save
<1>2. CASE Swap
  BY <1>2 DEF Swap
<1>3. CASE ApplyRuleset
  BY <1>3 DEF ApplyRuleset
<1>4. CASE PersistAppliedQueryCache
  BY <1>4 DEF PersistAppliedQueryCache
<1>5. CASE ApplyProtect \/ ApplyBlocklist \/ Fill
  BY <1>5 DEF ApplyProtect, ApplyBlocklist, Fill
<1>6. CASE StartQueryCache
  BY <1>6 DEF StartQueryCache, AppliedQueryCacheSpans
<1>7. CASE RevertLatches \/ RevertRemoves
  BY <1>7 DEF RevertLatches, RevertRemoves, Unpublishes, Forgets, Untables
<1>8. CASE RevertObserves
  BY <1>8 DEF RevertObserves
<1>9. CASE Beside
  BY <1>9, BesideLeaves DEF request
<1>10. CASE Crash
  BY <1>10 DEF Crash
<1>11. CASE UNCHANGED tableVars
  BY <1>11 DEF tableVars
<1> QED
  BY <1>1, <1>2, <1>3, <1>4, <1>5, <1>6, <1>7, <1>8, <1>9, <1>10, <1>11, NextSplits DEF Portal

LEMMA HeldSteps ==
  ASSUME LockInv, StoreInv, HeldInv, [TablesNext]_tableVars
  PROVE  HeldInv'
<1> USE TablesAssumption DEF LockInv, StoreInv, HeldInv, Applying, Reverting, Tabs, Idle,
            store, kernel, latch, list, counts
<1>1. ASSUME NEW c \in Configs, Save(c) PROVE HeldInv'
  BY <1>1 DEF Save
<1>2. CASE Swap
  BY <1>2 DEF Swap
<1>3. CASE ApplyRuleset \/ PersistAppliedQueryCache \/ StartQueryCache
  BY <1>3 DEF ApplyRuleset, PersistAppliedQueryCache, StartQueryCache
<1>4. CASE ApplyProtect
  BY <1>4 DEF ApplyProtect, RemoveTable, Load, LoadFails
<1>5. CASE ApplyBlocklist
  <2>1. CASE held' = FALSE
    <3>1. op' = "start" /\ UNCHANGED <<feed, samp>>
      BY <1>5, <2>1 DEF ApplyBlocklist
    <3> QED BY <2>1, <3>1
  <2>2. CASE /\ blMu = "free" /\ Load("blocklist") /\ feedSet' = NoList /\ held' = TRUE
             /\ blMu' = "portal" /\ op' = "fill"
    <3>1. on'["blocklist"] = TRUE
      BY <2>2 DEF Load
    <3>2. cfg.armed /\ ref # "load"
      BY <2>2 DEF Load
    <3>3. UNCHANGED <<cfg, reverted, nets, ref, feed, samp>>
      BY <1>5 DEF ApplyBlocklist
    <3>4. ~reverted
      BY <1>5 DEF ApplyBlocklist
    <3> QED BY <2>2, <3>1, <3>2, <3>3, <3>4
  <2>3. CASE /\ op' = "start" /\ cfg.blocklist # Off /\ Unchanged("blocklist")
             /\ UNCHANGED <<tab, latch, faults, held>> /\ UNCHANGED <<feedSet, blMu>>
    <3>1. UNCHANGED <<cfg, reverted, list, ref, job, feed, samp>>
      BY <1>5 DEF ApplyBlocklist
    <3> QED BY <1>5, <2>3, <3>1 DEF Unchanged, ApplyBlocklist
  <2> QED BY <1>5, <2>1, <2>2, <2>3 DEF ApplyBlocklist
<1>6. CASE Fill
  BY <1>6 DEF Fill, LoadElements
<1>7. CASE RevertLatches \/ RevertRemoves
  BY <1>7 DEF RevertLatches, RevertRemoves, Unpublishes, Forgets, Untables
<1>8. CASE RevertObserves
  BY <1>8 DEF RevertObserves
<1>9. CASE Fetch \/ RetryLoad \/ FetchRefused \/ FetchConfirms
  BY <1>9 DEF Fetch, RetryLoad, FetchRefused, FetchConfirms
<1>10. CASE FetchAccepted \/ Note
  BY <1>10 DEF FetchAccepted, Note
<1>11. CASE Install
  BY <1>11 DEF Install
<1>12. CASE InstallLoads
  BY <1>12 DEF InstallLoads, LoadElements
<1>13. ASSUME NEW t \in Tabs, SampleReads(t) PROVE HeldInv'
  BY <1>13 DEF SampleReads, TableState
<1>14. ASSUME NEW t \in Tabs, SampleRecords(t) PROVE HeldInv'
  BY <1>14 DEF SampleRecords
<1>15. ASSUME NEW l \in Lists, FeedChanges(l) PROVE HeldInv'
  BY <1>15 DEF FeedChanges
<1>16. ASSUME NEW t \in Tabs, FlushedByHand(t) PROVE HeldInv'
  BY <1>16 DEF FlushedByHand
<1>17. CASE Crash
  BY <1>17 DEF Crash
<1>18. CASE UNCHANGED tableVars
  BY <1>18 DEF tableVars
<1> QED
  BY <1>1, <1>2, <1>3, <1>4, <1>5, <1>6, <1>7, <1>8, <1>9, <1>10, <1>11, <1>12, <1>13, <1>14,
     <1>15, <1>16, <1>17, <1>18 DEF TablesNext, Portal, Refresher, Sampler

-----------------------------------------------------------------------------
LEMMA TablesStart ==
  ASSUME TablesInit
  PROVE  LockInv /\ StoreInv /\ RecordInv /\ HeldInv
BY DEF TablesInit, LockInv, StoreInv, RecordInv, HeldInv, RedirectsAnswered, Applying, Reverting,
       Tabs

(* Whatever the kernel redirects to the query cache has a socket that      *)
(* answers it, wherever the process was killed and whatever was saved in   *)
(* observe mode in between, unless the last armed load, its record or a    *)
(* revert's removal of the ruleset failed.                                 *)
THEOREM RedirectsHaveSockets == TablesSpec => []RedirectsAnswered
<1> DEFINE I == LockInv /\ StoreInv /\ RecordInv
<1>1. TablesInit => I
  BY TablesStart
<1>2. I /\ [TablesNext]_tableVars => I'
  BY LockSteps, StoreSteps, RecordSteps
<1>3. I => RedirectsAnswered
  BY DEF RecordInv
<1> QED BY <1>1, <1>2, <1>3, PTL DEF TablesSpec

(* No refresh, refused load, save or failed read leaves a blocklist that   *)
(* was loaded empty or out of date without a retry.                        *)
THEOREM ListStaysLoaded == TablesSpec => []ListLoaded
<1> DEFINE I == LockInv /\ StoreInv /\ HeldInv
<1>1. TablesInit => I
  BY TablesStart
<1>2. I /\ [TablesNext]_tableVars => I'
  BY LockSteps, StoreSteps, HeldSteps
<1>3. I => ListLoaded
  BY DEF HeldInv, ListLoaded
<1> QED BY <1>1, <1>2, <1>3, PTL DEF TablesSpec

(* Observe mode puts nothing into the kernel, not even through a load that *)
(* the refresher had begun while the agent was armed.                      *)
THEOREM ObserveTakesOnly == TablesSpec => ObserveHolds
<1> DEFINE Step == ~cfg.armed =>
                     /\ redirects' \in {redirects, NoSpans}
                     /\ \A t \in Tabs : tab'[t] \in {tab[t], Off}
                     /\ feedSet' \in {feedSet, NoList}
<1>1. TablesInit => LockInv
  BY TablesStart
<1>2. LockInv /\ [TablesNext]_tableVars => LockInv'
  BY LockSteps
<1>3. LockInv /\ [TablesNext]_tableVars => [Step]_tableVars
  <2> SUFFICES ASSUME LockInv, TablesNext, ~cfg.armed
               PROVE  /\ redirects' \in {redirects, NoSpans}
                      /\ \A t \in Tabs : tab'[t] \in {tab[t], Off}
                      /\ feedSet' \in {feedSet, NoList}
    OBVIOUS
  <2>1. redirects' \in {redirects, NoSpans}
    <3>1. CASE Beside
      BY <3>1, BesideLeaves DEF request
    <3>2. CASE ~Beside
      BY <3>2, NextSplits DEF Portal, Save, RevertLatches, Swap, ApplyRuleset,
         PersistAppliedQueryCache, ApplyProtect, ApplyBlocklist, Fill, StartQueryCache,
         RevertRemoves, Unpublishes, RevertObserves, Crash, kernel
    <3> QED BY <3>1, <3>2
  <2>2. CASE \E t \in Tabs : FlushedByHand(t)
    BY <2>1, <2>2 DEF FlushedByHand, LockInv
  <2>3. CASE ApplyProtect \/ ApplyBlocklist
    BY <2>1, <2>3 DEF ApplyProtect, ApplyBlocklist, RemoveTable, Load, LoadFails, LockInv
  <2>4. CASE Fill \/ InstallLoads
    BY <2>1, <2>4 DEF Fill, InstallLoads, LoadElements, LockInv
  <2>5. CASE RevertRemoves
    BY <2>1, <2>5 DEF RevertRemoves, Untables, LockInv
  <2>6. CASE UNCHANGED <<tab, feedSet>>
    BY <2>1, <2>6
  <2>7. \/ \E t \in Tabs : FlushedByHand(t)
        \/ ApplyProtect \/ ApplyBlocklist \/ Fill \/ InstallLoads \/ RevertRemoves
        \/ UNCHANGED <<tab, feedSet>>
    <3>1. CASE \E c \in Configs : Save(c)
      BY <3>1 DEF Save, kernel
    <3>2. CASE Portal \/ RevertLatches \/ Crash
      BY <3>2 DEF Portal, RevertLatches, Crash, Swap, ApplyRuleset,
                  PersistAppliedQueryCache, StartQueryCache, RevertObserves, kernel
    <3>3. CASE Fetch \/ Refresher
      BY <3>3 DEF Fetch, Refresher, RetryLoad, FetchRefused, FetchConfirms, FetchAccepted,
                  Note, Install, kernel
    <3>4. CASE Sampler \/ \E l \in Lists : FeedChanges(l)
      BY <3>4 DEF Sampler, SampleReads, SampleRecords, FeedChanges, kernel
    <3> QED BY <3>1, <3>2, <3>3, <3>4 DEF TablesNext
  <2> QED BY <2>2, <2>3, <2>4, <2>5, <2>6, <2>7
<1> QED BY <1>1, <1>2, <1>3, PTL DEF TablesSpec, ObserveHolds
=============================================================================
