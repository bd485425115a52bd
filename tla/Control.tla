------------------------------ MODULE Control ------------------------------
(***************************************************************************)
(* The frontend's control channel (internal/engine/control.go): the accept *)
(* loop with its two limits, the session a connection becomes, what the    *)
(* engine shows of it (SetBackendUp, SetLinkerUp, SetLinkerDown), and the  *)
(* pushes that bring every session the current configuration.              *)
(*                                                                         *)
(* A connection may die silently: its peer redials while the server is     *)
(* still parked on the old one's read deadline.  The handshake's frames,   *)
(* the session MACs and the usage and link frames are not modelled here: a *)
(* handshake succeeds or does not.  A configuration is its version; the    *)
(* enabled linkers never change.                                           *)
(***************************************************************************)
EXTENDS Naturals, FiniteSets

CONSTANTS Conns,         \* connections, each used again once it is gone
          Sources,       \* addresses that dial
          Backend,       \* the backend's overlay address
          Linkers,       \* the enabled linkers' addresses
          None,
          MaxControlConns, MaxPerSource,
          MaxSessions,   \* bound: linker sessions numbered
          MaxSaves,      \* bound: configurations saved
          MaxDeaths      \* bound: connections that die silently

ASSUME ControlAssumption ==
    /\ Backend \in Sources /\ Linkers \subseteq Sources \ {Backend}
    /\ None \notin Conns /\ None \notin Nat /\ IsFiniteSet(Conns)
    /\ {MaxControlConns, MaxPerSource} \subseteq Nat \ {0}
    /\ {MaxSessions, MaxSaves, MaxDeaths} \subseteq Nat

VARIABLES
    state,      \* where each connection's goroutine is
    src,        \* the address each comes from
    peer,       \* the far end of the connection is still there
    acceptor,   \* the connection the accept loop holds a source claim for
    slots, perSource,
    backendConns, backendUp,
    session,    \* the linker session number of each connection
    linkerSession, linkers,
    newest,     \* history: the newest session number each linker was given
    version,    \* the engine's cfgVersion
    reading,    \* the version a push loop has read, before the configuration
    pushed,     \* the version a push loop remembers having pushed
    got,        \* the configuration the peer last received
    deaths

limits == <<acceptor, slots, perSource>>
shown == <<backendConns, backendUp, session, linkerSession, linkers, newest>>
pushes == <<reading, pushed, got>>
vars == <<state, src, peer, limits, shown, version, pushes, deaths>>

Serving == {"backend", "linker"}
Claimed == {"claimed", "handshake", "backend", "linker", "unslot", "unclaim"}
Slotted == {"handshake", "backend", "linker", "unslot"}

Init ==
    /\ state = [c \in Conns |-> "none"] /\ src = [c \in Conns |-> Backend]
    /\ peer = [c \in Conns |-> FALSE]
    /\ acceptor = None /\ slots = 0 /\ perSource = [s \in Sources |-> 0]
    /\ backendConns = 0 /\ backendUp = FALSE
    /\ session = [c \in Conns |-> 0] /\ linkerSession = 0
    /\ linkers = [s \in Linkers |-> 0] /\ newest = linkers
    /\ version = 0
    /\ reading = [c \in Conns |-> None] /\ pushed = reading /\ got = reading
    /\ deaths = 0

-----------------------------------------------------------------------------
(* releaseSource: an address with nothing left has no entry.               *)
Released(s) == [perSource EXCEPT ![s] = IF @ <= 1 THEN 0 ELSE @ - 1]

(* claimSource: an address holds at most its share.                        *)
ClaimSource(s) ==
    /\ perSource[s] < MaxPerSource
    /\ perSource' = [perSource EXCEPT ![s] = @ + 1]

(* The accept loop.  An address is refused once it holds its share.        *)
Accept(c, s) ==
    /\ acceptor = None /\ state[c] = "none"
    /\ ClaimSource(s)
    /\ acceptor' = c
    /\ state' = [state EXCEPT ![c] = "claimed"]
    /\ src' = [src EXCEPT ![c] = s] /\ peer' = [peer EXCEPT ![c] = TRUE]
    /\ UNCHANGED <<slots, shown, version, pushes, deaths>>

TakeSlot(c) ==
    /\ acceptor = c /\ slots < MaxControlConns
    /\ slots' = slots + 1 /\ acceptor' = None
    /\ state' = [state EXCEPT ![c] = "handshake"]
    /\ UNCHANGED <<src, peer, perSource, shown, version, pushes, deaths>>

(* Faulty: the share of an address is not given back.                      *)
NoSlotKeepsClaim(c) ==
    /\ acceptor = c /\ slots = MaxControlConns
    /\ acceptor' = None
    /\ state' = [state EXCEPT ![c] = "none"] /\ peer' = [peer EXCEPT ![c] = FALSE]
    /\ UNCHANGED <<src, slots, perSource, shown, version, pushes, deaths>>

(* The pool is full: give the share back and close.                        *)
NoSlot(c) ==
    /\ acceptor = c /\ slots = MaxControlConns
    /\ acceptor' = None
    /\ perSource' = Released(src[c])
    /\ state' = [state EXCEPT ![c] = "none"] /\ peer' = [peer EXCEPT ![c] = FALSE]
    /\ UNCHANGED <<src, slots, shown, version, pushes, deaths>>

-----------------------------------------------------------------------------
(* serve: the peer proves itself, says its role, and is held to the        *)
(* address it dials from.                                                  *)
HelloBackend(c) ==
    /\ state[c] = "handshake" /\ peer[c]
    /\ src[c] = Backend                                     \* KnownBackend
    /\ state' = [state EXCEPT ![c] = "backend"]
    /\ backendConns' = backendConns + 1 /\ backendUp' = TRUE
    /\ UNCHANGED <<src, peer, limits, session, linkerSession, linkers, newest,
                   version, pushes, deaths>>

(* The peer names the address it claims; being configured is not enough.   *)
HelloLinker(c) ==
    /\ state[c] = "handshake" /\ peer[c]
    /\ \E claim \in Linkers : src[c] = claim                \* KnownLinker
    /\ linkerSession < MaxSessions
    /\ linkerSession' = linkerSession + 1
    /\ session' = [session EXCEPT ![c] = linkerSession + 1]
    /\ linkers' = [linkers EXCEPT ![src[c]] = linkerSession + 1]
    /\ newest' = [newest EXCEPT ![src[c]] = linkerSession + 1]
    /\ state' = [state EXCEPT ![c] = "linker"]
    /\ UNCHANGED <<src, peer, limits, backendConns, backendUp, version, pushes, deaths>>

(* A deadline, a bad proof, a wrong address, or the peer going away.       *)
Rejected(c) ==
    /\ state[c] = "handshake"
    /\ state' = [state EXCEPT ![c] = "unslot"]
    /\ UNCHANGED <<src, peer, limits, shown, version, pushes, deaths>>

-----------------------------------------------------------------------------
(* The session is over: a read error, the read deadline, or a push that    *)
(* failed; the deferred teardown runs.                                     *)
Ended(c) ==
    /\ state' = [state EXCEPT ![c] = "unslot"]
    /\ reading' = [reading EXCEPT ![c] = None]
    /\ pushed' = [pushed EXCEPT ![c] = None] /\ got' = [got EXCEPT ![c] = None]

(* SetBackendUp(false): a count, because a reconnecting backend has two.   *)
BackendEnds(c) ==
    /\ state[c] = "backend" /\ Ended(c)
    /\ backendConns' = IF backendConns > 0 THEN backendConns - 1 ELSE 0
    /\ backendUp' = (backendConns' > 0)
    /\ UNCHANGED <<src, peer, limits, session, linkerSession, linkers, newest,
                   version, deaths>>

(* Faulty: the entry of the address goes, whoever made it.                 *)
LinkerEndsByAddress(c) ==
    /\ state[c] = "linker" /\ Ended(c)
    /\ linkers' = [linkers EXCEPT ![src[c]] = 0]
    /\ session' = [session EXCEPT ![c] = 0]
    /\ UNCHANGED <<src, peer, limits, backendConns, backendUp, linkerSession, newest,
                   version, deaths>>

(* SetLinkerDown: keyed on the session that is ending.                     *)
LinkerEnds(c) ==
    /\ state[c] = "linker" /\ Ended(c)
    /\ linkers' = [linkers EXCEPT ![src[c]] = IF @ = session[c] THEN 0 ELSE @]
    /\ session' = [session EXCEPT ![c] = 0]
    /\ UNCHANGED <<src, peer, limits, backendConns, backendUp, linkerSession, newest,
                   version, deaths>>

(* listen's deferred release: the slot, then the source.                   *)
ReleaseSlot(c) ==
    /\ state[c] = "unslot"
    /\ slots' = slots - 1
    /\ state' = [state EXCEPT ![c] = "unclaim"]
    /\ UNCHANGED <<src, peer, acceptor, perSource, shown, version, pushes, deaths>>

ReleaseSource(c) ==
    /\ state[c] = "unclaim"
    /\ perSource' = Released(src[c])
    /\ state' = [state EXCEPT ![c] = "none"] /\ peer' = [peer EXCEPT ![c] = FALSE]
    /\ UNCHANGED <<src, acceptor, slots, shown, version, pushes, deaths>>

(* The far end is gone and nothing says so.                                *)
DiesSilently(c) ==
    /\ peer[c] /\ peer' = [peer EXCEPT ![c] = FALSE]
    /\ deaths < MaxDeaths /\ deaths' = deaths + 1
    /\ UNCHANGED <<state, src, limits, shown, version, pushes>>

-----------------------------------------------------------------------------
(* Reconfigure or Revert: a new configuration under a new version.         *)
Save ==
    /\ version < MaxSaves /\ version' = version + 1
    /\ UNCHANGED <<state, src, peer, limits, shown, pushes, deaths>>

(* pushLoop and pushLinkerLoop: read the version, then the configuration,  *)
(* which may be newer by then, and send it.                                *)
PushReads(c) ==
    /\ state[c] \in Serving /\ reading[c] = None
    /\ pushed[c] # version
    /\ reading' = [reading EXCEPT ![c] = version]
    /\ UNCHANGED <<state, src, peer, limits, shown, version, pushed, got, deaths>>

(* Faulty: the configuration is read first, the version after it.          *)
PushSendsStale(c) ==
    /\ reading[c] # None
    /\ pushed' = [pushed EXCEPT ![c] = version]
    /\ got' = [got EXCEPT ![c] = IF peer[c] THEN reading[c] ELSE @]
    /\ reading' = [reading EXCEPT ![c] = None]
    /\ UNCHANGED <<state, src, peer, limits, shown, version, deaths>>

PushSends(c) ==
    /\ reading[c] # None
    /\ pushed' = [pushed EXCEPT ![c] = reading[c]]
    /\ got' = [got EXCEPT ![c] = IF peer[c] THEN version ELSE @]
    /\ reading' = [reading EXCEPT ![c] = None]
    /\ UNCHANGED <<state, src, peer, limits, shown, version, deaths>>

Next ==
    \/ \E c \in Conns, s \in Sources : Accept(c, s)
    \/ \E c \in Conns :
        \/ TakeSlot(c) \/ NoSlot(c)
        \/ HelloBackend(c) \/ HelloLinker(c) \/ Rejected(c)
        \/ BackendEnds(c) \/ LinkerEnds(c) \/ ReleaseSlot(c) \/ ReleaseSource(c)
        \/ DiesSilently(c) \/ PushReads(c) \/ PushSends(c)
    \/ Save

Spec == Init /\ [][Next]_vars

-----------------------------------------------------------------------------
(* Types of the server's state.                                            *)
TypeOK ==
    /\ state \in [Conns -> Claimed \cup {"none"}] /\ src \in [Conns -> Sources]
    /\ peer \in [Conns -> BOOLEAN] /\ acceptor \in Conns \cup {None}
    /\ slots \in 0..MaxControlConns /\ perSource \in [Sources -> 0..MaxPerSource]
    /\ backendConns \in Nat /\ backendUp \in BOOLEAN
    /\ session \in [Conns -> Nat] /\ {linkers, newest} \subseteq [Linkers -> Nat]
    /\ linkerSession \in Nat /\ version \in Nat
    /\ {reading, pushed, got} \subseteq [Conns -> Nat \cup {None}]

(* Nothing leaks: the pool and every address's share are exactly what the  *)
(* connections still there hold, on every way out of listen and serve, so  *)
(* a share refused today can be claimed again once they are gone.          *)
NothingLeaks ==
    /\ slots = Cardinality({c \in Conns : state[c] \in Slotted})
    /\ \A s \in Sources :
        perSource[s] = Cardinality({c \in Conns : state[c] \in Claimed /\ src[c] = s})

(* The portal's backend flag is up exactly while some backend session is   *)
(* served, whichever of an old and a new one ends first (SetBackendUp).    *)
BackendShown == backendUp <=> \E c \in Conns : state[c] = "backend"

(* A linker is shown while its newest session is served, whatever older    *)
(* sessions end later, and never after (SetLinkerDown).                    *)
LinkersShown ==
    \A s \in Linkers :
        linkers[s] = IF \E c \in Conns : state[c] = "linker" /\ src[c] = s
                                          /\ session[c] = newest[s]
                     THEN newest[s] ELSE 0

(* What the portal shows of either kind of peer is what is being served,   *)
(* although a redialling peer has an old and a new session and either may  *)
(* end first.                                                              *)
PeersShown == BackendShown /\ LinkersShown

(* A push loop never takes a configuration for pushed that its peer does   *)
(* not have: a save between the loop's two reads is pushed again rather    *)
(* than missed (pushLoop, pushLinkerLoop).                                 *)
PushedIsGot ==
    \A c \in Conns : (peer[c] /\ pushed[c] # None) => got[c] # None /\ got[c] >= pushed[c]
=============================================================================
