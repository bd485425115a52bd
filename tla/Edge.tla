-------------------------------- MODULE Edge --------------------------------
(***************************************************************************)
(* Edge protection: the nftables table the frontend generates from the     *)
(* protection settings and the published services (internal/sysx/          *)
(* protect.go), and what packets arriving from the internet meet in it.    *)
(*                                                                         *)
(* The generator is a chain of operators from a spec to the sets, chains   *)
(* and rules of the table.  The kernel that runs the rules is external: a  *)
(* full dynamic set ends the rule, not the chain (NFT_BREAK).  A tick is   *)
(* the second the limits are counted in, and the life of a rate set's      *)
(* element.  Addresses and ports are small numbers.                        *)
(***************************************************************************)
EXTENDS Integers, FiniteSets, SequencesExt

CONSTANTS Specs,      \* the settings a table may be generated from
          Packets,    \* [src, proto, port, bad, query, new]
          Fold,       \* service name -> its folded form, parts numbered as suffixes are
          FoldGeo,    \* region name -> its folded form, split at the underscores
          Size,       \* sourceSetSize: elements a set keyed by source holds
          BlockTicks, LockTicks,
          MaxSent     \* bound: packets in one tick

Service == [name : DOMAIN Fold, proto : {"tcp", "udp"}, lo : Nat, hi : Nat, rate : Nat,
            count : Nat, ceiling : Nat, se : BOOLEAN, regions : Seq(DOMAIN FoldGeo),
            block : BOOLEAN, auto : Nat]
Drops == {"invalid", "bogus", "spoofed", "legacy"}

(* A folded name is never empty: the prefix's underscore is its first      *)
(* part.  A lock of one second or more reaches past the tick it is engaged *)
(* in (geoLockSeconds is never 0): LockTicks counts begun seconds.         *)
ASSUME EdgeAssumption ==
  /\ {Size, BlockTicks, MaxSent} \subseteq Nat
  /\ LockTicks \in Nat /\ LockTicks > 1
  /\ \A n \in DOMAIN Fold : Fold[n] \in Seq(Nat) \ {<<>>}
  /\ \A s \in Specs : /\ {s.rate, s.count, s.pps, s.qps} \subseteq Nat
                      /\ {s.iface, s.park} \subseteq BOOLEAN
                      /\ s.drops \subseteq Drops /\ s.rows \in Seq(Service)
  /\ \A p \in Packets : /\ p.proto \in {"tcp", "udp"} /\ p.port \in Nat
                        /\ p.bad \in Drops \cup {"none"} /\ p.query \in BOOLEAN /\ p.new \in BOOLEAN

VARIABLES spec,
          rules, sets, chains, elems,   \* the table generated from it
          blocked, seen, locked, hits,  \* the kernel: sets, and counters of rules
          sent,
          passed,      \* ghost: <<set, source>> -> packets let through this tick
          arrived,     \* ghost: row -> packets that reached its region lock this tick
          flood        \* ghost: the rows over their rate in the last tick

table == <<rules, sets, chains, elems>>
kernel == <<blocked, seen, locked, hits>>
edgeVars == <<spec, table, kernel, sent, passed, arrived, flood>>

Rows == spec.rows
Indices == DOMAIN Rows
Span(sv) == <<sv.lo, IF sv.hi > sv.lo THEN sv.hi ELSE sv.lo>>
In(port, ranges) == \E i \in DOMAIN ranges : port \in ranges[i][1]..ranges[i][2]

-----------------------------------------------------------------------------
(* Intervals.                                                              *)

ByLow(a, b) == a[1] < b[1] \/ (a[1] = b[1] /\ a[2] <= b[2])

MergeInto(merged, r) ==
  IF merged # <<>> /\ r[1] <= Last(merged)[2] + 1
    THEN Append(Front(merged), <<Last(merged)[1],
                                 IF r[2] > Last(merged)[2] THEN r[2] ELSE Last(merged)[2]>>)
    ELSE Append(merged, r)

MergePorts(in) == FoldLeft(MergeInto, <<>>, SortSeq(in, ByLow))

(* One segment less one cut: what is below it and what is above.           *)
CutBelow(s, c) == IF c[1] > s[1] THEN << <<s[1], c[1] - 1>> >> ELSE <<>>
CutAbove(s, c) == IF c[2] < s[2] THEN << <<c[2] + 1, s[2]>> >> ELSE <<>>
(* A cut in the middle of a range keeps only what is below it.             *)
CutKeepsBelow(s, c) == IF c[2] < s[1] \/ c[1] > s[2] THEN <<s>> ELSE CutBelow(s, c)

Cut(s, c) == IF c[2] < s[1] \/ c[1] > s[2] THEN <<s>> ELSE CutBelow(s, c) \o CutAbove(s, c)

SubtractRanges(base, cut) ==
  FlattenSeq([i \in DOMAIN base |->
    FoldLeft(LAMBDA segs, c : FlattenSeq([j \in DOMAIN segs |-> Cut(segs[j], c)]),
             <<base[i]>>, cut)])

(* Networks nest or are apart: one inside an earlier one is dropped.       *)
Containing(a, b) == a[1] < b[1] \/ (a[1] = b[1] /\ a[2] >= b[2])
MergeCIDRs(nets) ==
  FoldLeft(LAMBDA out, n : IF out # <<>> /\ n[2] <= Last(out)[2] THEN out ELSE Append(out, n),
           <<>>, SortSeq(nets, Containing))

-----------------------------------------------------------------------------
(* What the services ask for.                                              *)

Spans(rows) == [i \in DOMAIN rows |-> Span(rows[i])]
PortsOf(proto) == MergePorts(Spans(SelectSeq(Rows, LAMBDA sv : sv.proto = proto)))
SourceEnginePorts == MergePorts(Spans(SelectSeq(Rows, LAMBDA sv : sv.se /\ sv.proto = "udp")))

When(cond, s) == IF cond THEN s ELSE <<>>

(* Every port of a row that sets its own limit is cut from the shared one. *)
Overrides(sv, limit) == sv.proto = "tcp" /\ sv[limit] > 0
SharedConnPorts(limit) ==
  MergePorts(SubtractRanges(
    Spans(SelectSeq(Rows, LAMBDA sv : sv.proto = "tcp" /\ ~Overrides(sv, limit))),
    Spans(SelectSeq(Rows, LAMBDA sv : Overrides(sv, limit)))))

(* The first free name, suffixed from 2.                                   *)
Suffixed(base, n) == IF n = 1 THEN base ELSE Append(base, n)

(* A set is named after its service, however names fold.                   *)
NamedAfterRow(taken, base) == base

UniqueName(taken, base) ==
  Suffixed(base, CHOOSE n \in 1..(Cardinality(taken) + 1) :
    /\ Suffixed(base, n) \notin taken
    /\ \A k \in 1..(n - 1) : Suffixed(base, k) \in taken)

(* Each name in turn, unique among those before it.                        *)
Named(bases) ==
  LET names[n \in 0..Len(bases)] ==
        IF n = 0 THEN <<>>
        ELSE Append(names[n - 1], UniqueName(ToSet(names[n - 1]), bases[n]))
  IN  names[Len(bases)]

ConnSet == [rate |-> "conn_rate", count |-> "conn_count"]

(* The overriding limits, in the order of the rows, with their sets.       *)
OverrideKeys ==
  FlattenSeq([i \in Indices |-> When(Overrides(Rows[i], "rate"), << <<i, "rate">> >>)
                                \o When(Overrides(Rows[i], "count"), << <<i, "count">> >>)])
OverrideSets == Named([i \in DOMAIN OverrideKeys |->
  <<ConnSet[OverrideKeys[i][2]]>> \o Fold[Rows[OverrideKeys[i][1]].name]])

(* The networks of the regions some row names.                             *)
GeoRegionElems ==
  [r \in {r \in DOMAIN spec.regions : \E i \in Indices : r \in ToSet(Rows[i].regions)}
     |-> MergeCIDRs(spec.regions[r])]
Resolves(r) == r \in DOMAIN GeoRegionElems /\ GeoRegionElems[r] # <<>>
GeoService(sv) ==
  /\ sv.regions # <<>>
  /\ IF sv.block THEN \E r \in ToSet(sv.regions) : Resolves(r)
                 ELSE \A r \in ToSet(sv.regions) : Resolves(r)

(* The sets of regions and of engaged locks share one namespace: a region  *)
(* whose name folds onto a lock set's is shifted by an underscore.         *)
LockSet(proto) == <<"geo", "lockdown", proto>>
FoldGeoName(name) == <<"geo">> \o FoldGeo[name]
GeoSetName(name) ==
  IF FoldGeoName(name) \in {LockSet("tcp"), LockSet("udp")}
    THEN Append(FoldGeoName(name), "") ELSE FoldGeoName(name)

(* The regions that become sets, in the order of the rows: of those that   *)
(* fold onto one set only the first.                                       *)
GeoOrder ==
  FoldLeft(LAMBDA out, r : IF \E o \in ToSet(out) : GeoSetName(o) = GeoSetName(r)
                             THEN out ELSE Append(out, r),
           <<>>, FlattenSeq([i \in Indices |->
             When(GeoService(Rows[i]), SelectSeq(Rows[i].regions, Resolves))]))
GeoElements ==
  [s \in {GeoSetName(r) : r \in ToSet(GeoOrder)} |->
     GeoRegionElems[CHOOSE r \in ToSet(GeoOrder) : GeoSetName(r) = s]]

Active ==
  /\ spec.iface
  /\ \/ spec.drops \cap {"invalid", "bogus", "spoofed"} # {}
     \/ spec.rate > 0 \/ spec.count > 0 \/ spec.pps > 0
     \/ OverrideKeys # <<>>
     \/ (spec.qps > 0 \/ "legacy" \in spec.drops) /\ SourceEnginePorts # <<>>
     \/ \E i \in Indices : Rows[i].ceiling > 0 \/ GeoService(Rows[i])

-----------------------------------------------------------------------------
(* The table.                                                              *)

SharedLimit(limit) == spec[limit] > 0 /\ SharedConnPorts(limit) # <<>>
Locks(sv) == GeoService(sv) /\ sv.auto > 0

Sets ==
  When(spec.park, << <<"blocked">> >>)
  \o When(SharedLimit("rate"), << <<"conn_rate">> >>)
  \o When(SharedLimit("count"), << <<"conn_count">> >>)
  \o When(spec.pps > 0, << <<"packet_rate">> >>)
  \o When(spec.qps > 0 /\ SourceEnginePorts # <<>>, << <<"query_rate">> >>)
  \o OverrideSets
  \o [k \in DOMAIN GeoOrder |-> GeoSetName(GeoOrder[k])]
  \o FlattenSeq([k \in 1..2 |-> LET proto == <<"tcp", "udp">>[k] IN
       When(\E i \in Indices : Rows[i].proto = proto /\ Locks(Rows[i]), <<LockSet(proto)>>)])

Rule == [kind |-> "drop", proto |-> "any", ports |-> <<>>, set |-> <<>>, most |-> 0,
         bad |-> "none", query |-> FALSE, regions |-> {}, locked |-> FALSE, block |-> FALSE,
         row |-> 0, chain |-> "raw"]
Drop(bad) == When(bad \in spec.drops, <<[Rule EXCEPT !.bad = bad]>>)
OfRow(i) == [Rule EXCEPT !.proto = Rows[i].proto, !.ports = <<Span(Rows[i])>>, !.row = i]

(* The trigger comes before the drops it engages, so what a lock drops     *)
(* still counts and holds it.                                              *)
Trigger(i) == When(Locks(Rows[i]),
  <<[OfRow(i) EXCEPT !.kind = "trip", !.most = Rows[i].auto, !.set = LockSet(Rows[i].proto)]>>)
GeoDrops(i) ==
  LET drop == [OfRow(i) EXCEPT !.kind = "geo", !.locked = Locks(Rows[i]), !.block = Rows[i].block]
  IN  IF Rows[i].block
        THEN FlattenSeq([k \in DOMAIN Rows[i].regions |->
               When(Resolves(Rows[i].regions[k]),
                    <<[drop EXCEPT !.regions = {GeoSetName(Rows[i].regions[k])}]>>)])
        ELSE <<[drop EXCEPT !.regions = {GeoSetName(r) : r \in ToSet(Rows[i].regions)}]>>

(* The drops of a region lock come before its trigger.                     *)
DropsFirst(i) == When(GeoService(Rows[i]), GeoDrops(i) \o Trigger(i))

GeoRules(i) == When(GeoService(Rows[i]), Trigger(i) \o GeoDrops(i))

RawChain ==
  When(spec.park, <<[Rule EXCEPT !.kind = "blocked", !.set = <<"blocked">>]>>)
  \o Drop("bogus") \o Drop("spoofed")
  \o When(SourceEnginePorts # <<>>,
          LET drop == Drop("legacy") IN
          [k \in DOMAIN drop |-> [drop[k] EXCEPT !.proto = "udp", !.ports = SourceEnginePorts]])
  \o FlattenSeq([i \in Indices |-> GeoRules(i)])

ConnRule(limit, ports, set, n, row) ==
  [Rule EXCEPT !.kind = limit, !.proto = "tcp", !.ports = ports, !.set = set, !.row = row,
               !.most = IF limit = "rate" THEN 2 * n ELSE n, !.chain = "filter"]
UdpRule(ports, set, n, query) ==
  [Rule EXCEPT !.kind = "packets", !.proto = "udp", !.ports = ports, !.set = set,
               !.most = 2 * n, !.query = query, !.chain = "filter"]

SharedRule(limit) ==
  When(SharedLimit(limit),
       <<ConnRule(limit, SharedConnPorts(limit), <<ConnSet[limit]>>, spec[limit], 0)>>)

FilterChain ==
  [k \in DOMAIN Drop("invalid") |-> [Drop("invalid")[k] EXCEPT !.chain = "filter"]]
  \o SharedRule("rate") \o SharedRule("count")
  \o When(PortsOf("udp") # <<>> /\ spec.pps > 0,
          <<UdpRule(PortsOf("udp"), <<"packet_rate">>, spec.pps, FALSE)>>)
  \o When(SourceEnginePorts # <<>> /\ spec.qps > 0,
          <<UdpRule(SourceEnginePorts, <<"query_rate">>, spec.qps, TRUE)>>)
  \o [k \in DOMAIN OverrideKeys |->
        LET i == OverrideKeys[k][1]  limit == OverrideKeys[k][2]
        IN  ConnRule(limit, <<Span(Rows[i])>>, OverrideSets[k], Rows[i][limit], i)]
  \o FlattenSeq([i \in Indices |-> When(Rows[i].ceiling > 0,
       <<[OfRow(i) EXCEPT !.kind = "ceiling", !.most = Rows[i].ceiling, !.chain = "filter"]>>)])

Limits == {"rate", "count", "packets"}
BuildProtectRuleset == IF Active THEN RawChain \o FilterChain ELSE <<>>

(* One chain per limiter, named after its counter, written before them.    *)
Comment(r) == IF r.row = 0 THEN <<"park">> \o r.set
              ELSE <<"park", ConnSet[r.kind]>> \o Fold[Rows[r.row].name]
ParkChains ==
  LET limiters == SelectSeq(FilterChain, LAMBDA r : r.kind \in Limits)
  IN  When(spec.park, Named([k \in DOMAIN limiters |-> Comment(limiters[k])]))

-----------------------------------------------------------------------------
(* The kernel (external).                                                  *)

InRegion(src, set) == In(src, elems[set])

Matches(r, p, k) ==
  /\ r.proto \in {"any", p.proto}
  /\ r.ports # <<>> => In(p.port, r.ports)
  /\ r.bad # "none" => p.bad = r.bad
  /\ r.query => p.query
  /\ r.kind \in {"rate", "count"} => p.new
  /\ r.kind = "blocked" => p.src \in DOMAIN k.blocked
  /\ r.kind = "geo" =>
       /\ r.locked => <<p.proto, p.port>> \in DOMAIN k.locked
       /\ IF r.block THEN \E g \in r.regions : InRegion(p.src, g)
                     ELSE \A g \in r.regions : ~InRegion(p.src, g)

Put(f, x, v) == [y \in DOMAIN f \cup {x} |-> IF y = x THEN v ELSE f[y]]
Full(f, x) == x \notin DOMAIN f /\ Cardinality(DOMAIN f) >= Size

(* The source is parked and dropped in one rule.                           *)
ParksAndDrops(k, p) ==
  IF spec.park /\ Full(k.blocked, p.src) THEN k
  ELSE [k EXCEPT !.out = "drop",
                 !.blocked = IF spec.park THEN Put(@, p.src, BlockTicks) ELSE @]

(* The tail of a limiter: a jump to the chain that parks the source in one *)
(* rule and drops in the next.                                             *)
Park(k, p) ==
  [k EXCEPT !.out = "drop",
            !.blocked = IF ~spec.park \/ Full(@, p.src) THEN @ ELSE Put(@, p.src, BlockTicks)]

Limited(k, r, p) ==
  LET n == IF p.src \in DOMAIN k.seen[r.set] THEN k.seen[r.set][p.src] + 1 ELSE 1
  IN  IF Full(k.seen[r.set], p.src) THEN k
      ELSE LET counted == [k EXCEPT !.seen[r.set] = Put(@, p.src, IF n > r.most THEN r.most + 1 ELSE n)]
           IN  IF n > r.most THEN Park(counted, p) ELSE counted

Counted(k, i, most) == [k EXCEPT !.hits[i] = IF @ > most THEN @ ELSE @ + 1]

RuleStep(k, i, p) ==
  LET r == rules[i]
  IN  IF k.out = "drop" \/ ~Matches(r, p, k) THEN k
      ELSE CASE r.kind \in Limits -> Limited(k, r, p)
             [] r.kind = "trip" ->
                  LET c == Counted(k, i, r.most)
                  IN  IF c.hits[i] > r.most
                        THEN [c EXCEPT !.locked = Put(@, <<p.proto, p.port>>, LockTicks)] ELSE c
             [] r.kind = "ceiling" ->
                  LET c == Counted(k, i, r.most)
                  IN  IF c.hits[i] > r.most THEN [c EXCEPT !.out = "drop"] ELSE c
             [] OTHER -> [k EXCEPT !.out = "drop"]

Traverse(p) ==
  LET after[i \in 0..Len(rules)] ==
        IF i = 0 THEN [blocked |-> blocked, seen |-> seen, locked |-> locked, hits |-> hits,
                       out |-> "pass"]
        ELSE RuleStep(after[i - 1], i, p)
  IN  after[Len(rules)]

-----------------------------------------------------------------------------
Nothing == [x \in {} |-> 0]

EdgeInit ==
  /\ spec \in Specs /\ rules = BuildProtectRuleset
  /\ sets = When(Active, Sets) /\ chains = When(Active, ParkChains) /\ elems = GeoElements
  /\ blocked = Nothing /\ locked = Nothing
  /\ seen = [s \in {rules[i].set : i \in {j \in DOMAIN rules : rules[j].kind \in Limits}} |-> Nothing]
  /\ hits = [i \in DOMAIN rules |-> 0]
  /\ sent = 0 /\ passed = Nothing /\ arrived = [i \in Indices |-> 0] /\ flood = {}

(* Whether packet p gets as far as the region locks.                       *)
ReachesLocks(p) ==
  /\ p.src \notin DOMAIN blocked /\ p.bad \notin spec.drops \ {"invalid"}
AutoLocked == {rules[i].row : i \in {j \in DOMAIN rules : rules[j].kind = "trip"}}
Reached(i, p) == i \in AutoLocked /\ Rows[i].proto = p.proto /\ In(p.port, <<Span(Rows[i])>>)

Send(p) ==
  /\ sent < MaxSent /\ sent' = sent + 1
  /\ LET k == Traverse(p)
         tracked == {<<r.set, p.src>> : r \in {rules[i] : i \in {j \in DOMAIN rules :
                       /\ rules[j].kind \in Limits /\ Matches(rules[j], p, k)
                       /\ p.src \in DOMAIN k.seen[rules[j].set]}}}
     IN  /\ blocked' = k.blocked /\ seen' = k.seen /\ locked' = k.locked /\ hits' = k.hits
         /\ passed' = IF k.out = "drop" THEN passed
                      ELSE [x \in DOMAIN passed \cup tracked |->
                              (IF x \in DOMAIN passed THEN passed[x] ELSE 0)
                              + (IF x \in tracked THEN 1 ELSE 0)]
  /\ arrived' = [i \in Indices |-> IF ReachesLocks(p) /\ Reached(i, p) THEN arrived[i] + 1
                                   ELSE arrived[i]]
  /\ UNCHANGED <<spec, table, flood>>

Aged(f) == [x \in {y \in DOMAIN f : f[y] > 1} |-> f[x] - 1]
CountsOpen(set) == \E i \in DOMAIN rules : rules[i].set = set /\ rules[i].kind = "count"

(* A second passes: buckets refill, elements expire, connections last.     *)
Tick ==
  /\ sent > 0 /\ sent' = 0
  /\ blocked' = Aged(blocked) /\ locked' = Aged(locked)
  /\ seen' = [s \in DOMAIN seen |-> IF CountsOpen(s) THEN seen[s] ELSE Nothing]
  /\ hits' = [i \in DOMAIN hits |-> 0]
  /\ passed' = [x \in {y \in DOMAIN passed : CountsOpen(y[1])} |-> passed[x]]
  /\ flood' = {i \in AutoLocked : arrived[i] > Rows[i].auto}
  /\ arrived' = [i \in Indices |-> 0]
  /\ UNCHANGED <<spec, table>>

(* The connections a source holds under one limit end.                     *)
Closed(set, src) ==
  /\ CountsOpen(set) /\ src \in DOMAIN seen[set]
  /\ seen' = [seen EXCEPT ![set] = [x \in DOMAIN @ \ {src} |-> @[x]]]
  /\ passed' = [x \in DOMAIN passed \ {<<set, src>>} |-> passed[x]]
  /\ UNCHANGED <<spec, table, blocked, locked, hits, sent, arrived, flood>>

EdgeNext ==
  \/ \E p \in Packets : Send(p)
  \/ Tick
  \/ \E set \in DOMAIN seen, src \in {p.src : p \in Packets} : Closed(set, src)

EdgeSpec == EdgeInit /\ [][EdgeNext]_edgeVars

-----------------------------------------------------------------------------
(* Properties.                                                             *)

TcpRules(limit, port) ==
  {i \in DOMAIN rules : rules[i].kind = limit /\ In(port, rules[i].ports)}
Owners(limit, port) ==
  {i \in Indices : Overrides(Rows[i], limit) /\ port \in Span(Rows[i])[1]..Span(Rows[i])[2]}
Published(port) ==
  \E i \in Indices : Rows[i].proto = "tcp" /\ port \in Span(Rows[i])[1]..Span(Rows[i])[2]

(* Once the frontend names its public interface, every published TCP port  *)
(* meets each connection limit once: the limit of the rows that set their  *)
(* own, one rule for each of them, or otherwise the shared one, whatever   *)
(* the rows overlap (sharedConnPorts cuts the ranges before it merges      *)
(* them).                                                                  *)
OneLimitPerPort ==
  spec.iface => \A limit \in {"rate", "count"}, port \in {p.port : p \in Packets} :
    LET faced == TcpRules(limit, port) owners == Owners(limit, port)
    IN  IF owners # {}
          THEN /\ {rules[i].row : i \in faced} = owners
               /\ Cardinality(faced) = Cardinality(owners)
          ELSE Cardinality(faced) = (IF Published(port) /\ spec[limit] > 0 THEN 1 ELSE 0)

Apart(ranges, gap) ==
  \A i, j \in DOMAIN ranges : i < j => ranges[i][2] + gap < ranges[j][1]

(* The table loads, which nft does whole or not at all: no set and no      *)
(* chain is declared twice although names of services, names of regions,   *)
(* or a region's and a lock's, fold together, every set a rule names is    *)
(* declared, the port ranges of a rule neither overlap nor touch, the      *)
(* networks of a region do not overlap, and a table left out although the  *)
(* frontend names its interface (active) would have held no rule.          *)
Loads ==
  /\ IsInjective(sets) /\ IsInjective(chains)
  /\ \A i \in DOMAIN rules :
       /\ rules[i].set # <<>> => rules[i].set \in ToSet(sets)
       /\ rules[i].regions \subseteq ToSet(sets)
       /\ Apart(rules[i].ports, 1)
  /\ \A s \in DOMAIN elems : Apart(elems[s], 0)
  /\ rules = <<>> /\ spec.iface => \A i \in DOMAIN (RawChain \o FilterChain) :
                        (RawChain \o FilterChain)[i].kind = "blocked"

(* A source a limit tracks gets no more than the limit through, also once  *)
(* the set of parked sources is full (the add that fails then is a rule of *)
(* its own, so the drop behind it still runs).                             *)
NoneOverLimit ==
  \A x \in DOMAIN passed : \A i \in DOMAIN rules :
    rules[i].kind \in Limits /\ rules[i].set = x[1] => passed[x] <= rules[i].most

(* The port of row i is in no region lock before it.  Only rows saved      *)
(* before overlaps were refused have such a port; the earlier lock's drops *)
(* then keep packets from the later one's trigger.                         *)
FirstLock(i) ==
  \A j \in 1..(i - 1) : GeoService(Rows[j]) /\ Rows[j].proto = Rows[i].proto =>
                          ~In(Rows[i].lo, <<Span(Rows[j])>>)

(* A region lock stays engaged while the flood that engaged it lasts: the  *)
(* packets the lock drops are still counted by its trigger.                *)
LockHolds ==
  \A i \in flood : Rows[i].lo = Span(Rows[i])[2] /\ FirstLock(i) =>
                     <<Rows[i].proto, Rows[i].lo>> \in DOMAIN locked
=============================================================================
