------------------------------- MODULE MCEdge -------------------------------
(* Every list of one or two services over four ports, and of three the     *)
(* last of which has one port, with and without limits of their own, and a *)
(* few tables with everything switched on, met by two sources.             *)
EXTENDS Edge

Plain(name, proto, lo, hi) ==
  [name |-> name, proto |-> proto, lo |-> lo, hi |-> hi, rate |-> 0, count |-> 0, ceiling |-> 0,
   se |-> FALSE, regions |-> <<>>, block |-> FALSE, auto |-> 0]

(* Two names of regions that are one set, and two that would be the set of *)
(* the udp locks and the one next to it.                                   *)
MCFoldGeo == ("near" :> <<"near">>) @@ ("Near" :> <<"near">>) @@ ("gone" :> <<"gone">>)
             @@ ("lockdown-udp" :> <<"lockdown", "udp">>)
             @@ ("lockdown-udp-" :> <<"lockdown", "udp", "">>)

Names == <<"a", "A", "a 2">>
MCFold == [n \in {"a", "A", "a 2"} |-> IF n = "a 2" THEN <<0, 2>> ELSE <<0>>]

Off == [iface |-> TRUE, rate |-> 0, count |-> 0, pps |-> 0, qps |-> 0, park |-> FALSE, drops |-> {},
        regions |-> Nothing, rows |-> <<>>]

(* The services by number of rows: the first row is named a, and so on.    *)
TcpRow(k) ==
  {[Plain(Names[k], "tcp", r[1], r[2]) EXCEPT !.rate = n] :
     r \in {<<1, 3>>, <<2, 0>>, <<3, 4>>}, n \in {0, 1}}
TcpRows == {<<a>> : a \in TcpRow(1)} \cup (TcpRow(1) \X TcpRow(2))
           \cup (TcpRow(1) \X TcpRow(2) \X {c \in TcpRow(3) : c.lo = 2})
Layouts == {[Off EXCEPT !.rate = 1, !.park = TRUE, !.rows = rows] : rows \in TcpRows}

Game == [Plain("a", "udp", 2, 0) EXCEPT !.se = TRUE, !.regions = <<"near">>, !.auto = 1]
Far == [Game EXCEPT !.name = "A", !.block = TRUE, !.lo = 3, !.regions = <<"near", "gone">>, !.ceiling = 1]
Web == [Plain("a 2", "tcp", 1, 0) EXCEPT !.count = 1]
Everything == [Off EXCEPT !.pps = 1, !.qps = 1, !.count = 1, !.park = TRUE,
                    !.drops = {"invalid", "bogus", "spoofed", "legacy"},
                    !.regions = [r \in DOMAIN MCFoldGeo |->
                                   CASE r = "near" -> << <<0, 1>>, <<0, 3>>, <<2, 2>> >>
                                     [] r = "gone" -> <<>>
                                     [] OTHER -> << <<5, 5>> >>]]
(* Rows whose regions' names fold together.                                *)
Folds == {<<[Game EXCEPT !.regions = <<"near", "lockdown-udp">>],
            [Far EXCEPT !.regions = <<"Near", "lockdown-udp-">>]>>,
          <<[Far EXCEPT !.regions = <<"Near", "lockdown-udp", "near">>, !.auto = 0], Game>>}
Mixes == {[Everything EXCEPT !.rows = rows] :
            rows \in {<<Game>>, <<Far, Web>>, <<[Far EXCEPT !.auto = 0], [Game EXCEPT !.lo = 3]>>,
                      <<Web, Plain("a", "tcp", 1, 2)>>} \cup Folds}
         \cup {[Everything EXCEPT !.rows = <<Web>>, !.park = FALSE],
               [Everything EXCEPT !.rows = <<Game, Web>>, !.iface = FALSE]}

MCSpecs == Layouts \cup Mixes \cup {Off, [Off EXCEPT !.qps = 1, !.drops = {"legacy"}]}

Packet(src, proto, port, bad, query) ==
  [src |-> src, proto |-> proto, port |-> port, bad |-> bad, query |-> query, new |-> TRUE]
MCPackets ==
  {Packet(s, "tcp", p, "none", FALSE) : s \in {1, 5}, p \in 1..4}
  \cup {Packet(s, "udp", p, "none", q) : s \in {1, 5}, p \in 2..3, q \in BOOLEAN}
  \cup {Packet(1, "udp", 2, "legacy", TRUE), Packet(1, "tcp", 1, "invalid", FALSE)}
=============================================================================
