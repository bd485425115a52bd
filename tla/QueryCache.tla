----------------------------- MODULE QueryCache -----------------------------
(***************************************************************************)
(* One cached port of the frontend's query cache (internal/qcache): the    *)
(* responder that answers server browsers from memory, the refresher that  *)
(* polls the game server over the billed tunnel while somebody real is     *)
(* asking, and the per-source budget of reply bytes.                       *)
(*                                                                         *)
(* Run starts both goroutines; they share the cache entries, each under    *)
(* its own lock.  Time is counted in ticks, a stored time is its age, kept *)
(* up to the longest span it is compared with.  A challenge is a MAC over  *)
(* source, port and time bucket: a source knows it exactly when it was     *)
(* sent one, and a spoofed sender never is.  Sizes are in datagrams.       *)
(***************************************************************************)
EXTENDS Integers, FiniteSets, SequencesExt

CONSTANTS Entries,          \* the cached replies, in the order they are polled
          Scale,            \* entry -> what stretches its interval and window
          Clients,          \* real source addresses
          Spoofed,          \* sources that never see what is sent to them
          RefreshEvery, StaleAfter, IdleAfter, UpstreamTimeout,
          Bucket,           \* ticks in a challenge bucket
          MaxFragments,     \* datagrams of the largest reply
          MaxAttempts,      \* queries of one fetch
          Burst, Refill, PaceIdle, MaxSources,
          Never,            \* a time not set
          MaxAsks           \* bound: verified queries

Names == ToSet(Entries)

ASSUME QueryCacheAssumption ==
  /\ Clients \cap Spoofed = {} /\ Never \notin Int
  /\ Entries \in Seq(Names) /\ Entries # <<>>
  /\ \A e \in Names : Scale[e] \in Nat \ {0}
  /\ {RefreshEvery, StaleAfter, IdleAfter, UpstreamTimeout, Bucket, MaxFragments, MaxAttempts,
      Burst, Refill, PaceIdle, MaxSources} \subseteq Nat
  /\ StaleAfter >= 3 * RefreshEvery      \* queryCacheTimings
  /\ MaxFragments <= Burst /\ Burst <= PaceIdle * Refill

VARIABLES
  size,        \* entry -> datagrams of the cached reply
  fetched, demand, attempted,   \* entry -> age of the reply, the last verified
                                \* query, the end of the last fetch
  at,          \* the refresher: 0 waiting, or the entry it has reached
  lag,         \* how long ago the round read the clock
  fetch,       \* the round trip under way
  tokens, last, place, \* the pacer: source -> bucket, its age, where it stands in the
                       \* list of sources, most recent first, 0 when not in it
  phase,       \* ticks into the bucket
  knows,       \* client -> buckets since it was sent a challenge that still verifies
  asks,
  made,        \* ghost: entry -> age of the cached reply at the server
  earned,      \* ghost: entry -> ticks since a client that knew asked for it
  ended,       \* ghost: entry -> ticks since a fetch of it ended
  credit       \* ghost: source -> what an untouched budget would still allow

entries == <<size, fetched, demand, attempted>>
pacer == <<tokens, last, place>>
ghosts == <<made, earned, ended, credit>>
vars == <<entries, at, lag, fetch, pacer, phase, knows, asks, ghosts>>

None == [took |-> Never]
Window(e, base) == base * Scale[e]

Init ==
  /\ size = [e \in Names |-> 0]
  /\ fetched = [e \in Names |-> Never] /\ demand = fetched /\ attempted = fetched
  /\ at = 0 /\ lag = 0 /\ fetch = None
  /\ tokens = [s \in Clients |-> Burst] /\ last = [s \in Clients |-> 0] /\ place = last
  /\ phase = 0 /\ knows = [s \in Clients |-> Never] /\ asks = 0
  /\ made = fetched /\ earned = fetched /\ ended = fetched
  /\ credit = [s \in Clients |-> Burst]

-----------------------------------------------------------------------------
(* pace.go.                                                                *)

(* A bucket is dropped as soon as its source has been quiet.               *)
PrunesAtOnce == {s \in Clients : place[s] > 0 /\ last[s] = 0}

(* prune: the sources left once those idle past the bound are gone.        *)
Prune == {s \in Clients : place[s] > 0 /\ last[s] <= PaceIdle}

Lesser(a, b) == IF a < b THEN a ELSE b

(* What is in the source's bucket now: refilled, or fresh.                 *)
Available(src) ==
  IF src \in Prune THEN Lesser(Burst, tokens[src] + last[src] * Refill) ELSE Burst

(* A new source displaces the least recently seen of a full table.         *)
Evicted(src) ==
  {s \in Prune : /\ src \notin Prune /\ Cardinality(Prune) >= MaxSources
                /\ \A r \in Prune : place[r] <= place[s]}

Seen(src) == (Prune \cup {src}) \ Evicted(src)

(* The source moves to the front.                                          *)
MovedToFront(src) ==
  [s \in Clients |->
     IF s \notin Seen(src) THEN 0 ELSE IF s = src THEN 1
     ELSE IF src \in Prune /\ place[s] > place[src] THEN place[s] ELSE place[s] + 1]

Allow(src, n) == n <= Available(src)

Charge(src, n) ==
  /\ place' = MovedToFront(src)
  /\ tokens' = [s \in Clients |->
       IF s = src THEN (IF Allow(src, n) THEN Available(src) - n ELSE Available(src))
       ELSE IF s \in Seen(src) THEN tokens[s] ELSE Burst]
  /\ last' = [s \in Clients |-> IF s = src \/ s \notin Seen(src) THEN 0 ELSE last[s]]
  /\ credit' = [s \in Clients |->
       IF s \in Evicted(src) THEN Burst
       ELSE IF s = src /\ Allow(src, n) THEN credit[s] - n ELSE credit[s]]

-----------------------------------------------------------------------------
(* The responder.                                                          *)

(* sendChallenge: a real source has it, a spoofed one's goes elsewhere.    *)
SendChallenge(src) ==
  knows' = IF src \in Clients THEN [knows EXCEPT ![src] = 0] ELSE knows

(* A bare query earns a challenge and no demand: whoever cannot see the    *)
(* challenge must not keep the refresher polling.                          *)
Bare(src, e) ==
  /\ SendChallenge(src)
  /\ UNCHANGED <<entries, at, lag, fetch, pacer, phase, asks, ghosts>>

(* verify: the source echoes a challenge that has not expired.             *)
Verify(src) == src \in Clients /\ knows[src] # Never

(* A wrong or expired challenge earns a new one and nothing else.          *)
Unverified(src) ==
  /\ ~Verify(src) /\ SendChallenge(src)
  /\ UNCHANGED <<entries, at, lag, fetch, pacer, phase, asks, ghosts>>

Fresh(e) == fetched[e] # Never /\ fetched[e] <= Window(e, StaleAfter)

Cold(src, e) ==
  /\ Verify(src) /\ ~Fresh(e) /\ asks < MaxAsks /\ asks' = asks + 1
  /\ demand' = [demand EXCEPT ![e] = 0] /\ earned' = [earned EXCEPT ![e] = 0]
  /\ UNCHANGED <<size, fetched, attempted, at, lag, fetch, pacer, phase, knows, made, ended, credit>>

(* The whole reply or nothing, as the source's budget allows.              *)
Answer(src, e) ==
  /\ Verify(src) /\ Fresh(e) /\ asks < MaxAsks /\ asks' = asks + 1
  /\ demand' = [demand EXCEPT ![e] = 0] /\ earned' = [earned EXCEPT ![e] = 0]
  /\ Charge(src, size[e])
  /\ UNCHANGED <<size, fetched, attempted, at, lag, fetch, phase, knows, made, ended>>

-----------------------------------------------------------------------------
(* The refresher.                                                          *)

(* The ticker, or the nudge of a query that found nothing fresh.           *)
RoundStarts ==
  /\ at = 0 /\ at' = 1 /\ lag' = 0
  /\ UNCHANGED <<entries, fetch, pacer, phase, knows, asks, ghosts>>

Current == Entries[at]
NextEntry == IF at = Len(Entries) THEN 0 ELSE at + 1
WantedNow == demand[Current] # Never /\ demand[Current] - lag <= IdleAfter

(* Due from the last success: a failing server is polled at every tick.    *)
DueFromFetched ==
  fetched[Current] # Never => fetched[Current] - lag >= Window(Current, RefreshEvery)

Due == attempted[Current] # Never => attempted[Current] - lag >= Window(Current, RefreshEvery)

Skip ==
  /\ at # 0 /\ fetch = None /\ ~(WantedNow /\ Due)
  /\ at' = NextEntry
  /\ UNCHANGED <<entries, lag, fetch, pacer, phase, knows, asks, ghosts>>

FetchStarts ==
  /\ at # 0 /\ fetch = None /\ WantedNow /\ Due
  /\ fetch' = [took |-> 0, sent |-> 0, attempt |-> 1]
  /\ UNCHANGED <<entries, at, lag, pacer, phase, knows, asks, ghosts>>

(* The game server wants its own challenge echoed: the query goes again,   *)
(* under the deadline of the first.                                        *)
ServerChallenges ==
  /\ fetch # None /\ fetch.attempt < MaxAttempts
  /\ fetch' = [fetch EXCEPT !.attempt = @ + 1, !.sent = 0]
  /\ UNCHANGED <<entries, at, lag, pacer, phase, knows, asks, ghosts>>

(* Every fragment announced is there: the reply replaces the old one       *)
(* whole.  It is no older at the server than the query it answers.         *)
Store(total) ==
  /\ fetch # None
  /\ size' = [size EXCEPT ![Current] = total]
  /\ fetched' = [fetched EXCEPT ![Current] = 0]
  /\ attempted' = [attempted EXCEPT ![Current] = 0]
  /\ made' = [made EXCEPT ![Current] = fetch.sent]
  /\ ended' = [ended EXCEPT ![Current] = 0]
  /\ fetch' = None /\ at' = NextEntry
  /\ UNCHANGED <<demand, lag, pacer, phase, knows, asks, earned, credit>>

(* A failed fetch renews the reply that is there.                          *)
RenewsOnFailure ==
  /\ fetch # None /\ fetch' = None /\ at' = NextEntry
  /\ attempted' = [attempted EXCEPT ![Current] = 0]
  /\ fetched' = [fetched EXCEPT ![Current] = IF @ = Never THEN Never ELSE 0]
  /\ ended' = [ended EXCEPT ![Current] = 0]
  /\ UNCHANGED <<size, demand, lag, pacer, phase, knows, asks, made, earned, credit>>

(* Refused, unrecognised, challenged at every attempt, or out of time with *)
(* fragments missing.                                                      *)
FetchFails ==
  /\ fetch # None /\ fetch' = None /\ at' = NextEntry
  /\ attempted' = [attempted EXCEPT ![Current] = 0]
  /\ ended' = [ended EXCEPT ![Current] = 0]
  /\ UNCHANGED <<size, fetched, demand, lag, pacer, phase, knows, asks, made, earned, credit>>

-----------------------------------------------------------------------------
Older(age, most) == IF age = Never \/ age > most THEN age ELSE age + 1
Aged(f, Most(_)) == [e \in DOMAIN f |-> Older(f[e], Most(e))]

(* verify accepts this bucket and the one before.                          *)
Expire(k) == IF k = 0 THEN 1 ELSE Never

(* Time passes while the refresher waits for its ticker or for the server, *)
(* but not past the deadline of a fetch.                                   *)
Tick ==
  /\ at = 0 \/ fetch # None
  /\ fetch # None => fetch.took < UpstreamTimeout
  /\ fetch' = IF fetch = None THEN None
              ELSE [fetch EXCEPT !.took = @ + 1, !.sent = @ + 1]
  /\ lag' = IF at = 0 THEN 0 ELSE lag + 1
  /\ fetched' = Aged(fetched, LAMBDA e : Window(e, StaleAfter))
  /\ made' = Aged(made, LAMBDA e : Window(e, StaleAfter) + UpstreamTimeout)
  /\ attempted' = Aged(attempted, LAMBDA e : Window(e, RefreshEvery) + (Len(Entries) - 1) * UpstreamTimeout)
  /\ ended' = Aged(ended, LAMBDA e : Window(e, RefreshEvery))
  /\ demand' = Aged(demand, LAMBDA e : IdleAfter + (Len(Entries) - 1) * UpstreamTimeout)
  /\ earned' = Aged(earned, LAMBDA e : IdleAfter + (Len(Entries) - 1) * UpstreamTimeout)
  /\ last' = [s \in Clients |-> IF place[s] > 0 THEN Older(last[s], PaceIdle) ELSE 0]
  /\ credit' = [s \in Clients |-> Lesser(Burst, credit[s] + Refill)]
  /\ phase' = (phase + 1) % Bucket
  /\ knows' = IF phase' = 0 THEN [s \in Clients |-> Expire(knows[s])] ELSE knows
  /\ UNCHANGED <<size, at, tokens, place, asks>>

(* A new generation: startQueryCache stops the old one, and its fetch,     *)
(* waiting, and starts empty, with a new secret.                           *)
Restart ==
  /\ \E e \in Names : demand[e] # Never
  /\ size' = [e \in Names |-> 0]
  /\ fetched' = [e \in Names |-> Never] /\ demand' = fetched' /\ attempted' = fetched'
  /\ at' = 0 /\ lag' = 0 /\ fetch' = None
  /\ tokens' = [s \in Clients |-> Burst] /\ last' = [s \in Clients |-> 0] /\ place' = last'
  /\ knows' = [s \in Clients |-> Never] /\ UNCHANGED <<phase, asks>>
  /\ made' = fetched' /\ earned' = fetched' /\ ended' = fetched'
  /\ credit' = [s \in Clients |-> Burst]

(* classify: a datagram asks for one reply, bare or echoing a challenge;   *)
(* anything else is ignored.                                               *)
Query(src, e) == Bare(src, e) \/ Unverified(src) \/ Cold(src, e) \/ Answer(src, e)

(* fragmentMeta: the counts a reply may announce.                          *)
Totals == 1..MaxFragments

Next ==
  \/ \E src \in Clients \cup Spoofed, e \in Names : Query(src, e)
  \/ RoundStarts \/ Skip \/ FetchStarts \/ ServerChallenges \/ FetchFails
  \/ \E n \in Totals : Store(n)
  \/ Tick \/ Restart

Spec == Init /\ [][Next]_vars

-----------------------------------------------------------------------------
(* Properties.                                                             *)

(* What a browser may be told was true at the server no longer ago than    *)
(* the window of that reply and the longest a fetch may take, however many *)
(* fetches fail in between (fresh, refreshEntry).                          *)
ServedFresh ==
  \A e \in Names : Fresh(e) => made[e] <= Window(e, StaleAfter) + UpstreamTimeout

(* The tunnel is billed only for people: a fetch starts only if a source   *)
(* that saw its challenge asked for this reply within the idle time, and   *)
(* not sooner after the end of the last one than its interval, failed or   *)
(* not (serve, refreshEntry).                                              *)
PollsAreEarned ==
  [][fetch = None /\ fetch' # None =>
       /\ earned[Current] # Never
       /\ earned[Current] <= IdleAfter + lag
       /\ ended[Current] # Never => ended[Current] >= Window(Current, RefreshEvery)]_vars

(* No source draws more than its burst and its refill over any span of     *)
(* time, although idle buckets are forgotten; only a source pushed out of  *)
(* a full table starts afresh (allow, prune).                              *)
WithinBudget == \A s \in Clients : credit[s] >= 0

=============================================================================
