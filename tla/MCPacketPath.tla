---------------------------- MODULE MCPacketPath ----------------------------
(* Every combination of a few values of each field, well formed or not.    *)
EXTENDS PacketPath

Ext == <<<<"x", 1>>, <<"x", 2>>, <<"x", 3>>, <<"x", 4>>>>

Units(proto, sport, dport, n) ==
    CASE proto = "tcp" -> <<<<"port", sport>>, <<"port", dport>>, <<"mid", 0>>, <<"csum", 0>>, <<"data", 0>>>>
      [] proto = "udp" -> <<<<"port", sport>>, <<"port", dport>>, <<"len", n>>, <<"csum", 0>>, <<"data", 0>>>>
      [] proto = "icmp" -> <<<<"type", 1>>, <<"code", 0>>, <<"csum", 0>>, <<"data", 0>>>>
      [] OTHER -> <<<<"data", 0>>, <<"data", 1>>, <<"data", 2>>, <<"data", 3>>>>

Checksum(kind, x) ==
    CASE kind = "sum" -> Sum(x) [] kind = "alias" -> <<"alias", x>>
      [] kind = "zero" -> <<"zero">> [] OTHER -> <<"bad">>

L4(src, dst, proto, sport, dport, n, kind) ==
    LET s == Units(proto, sport, dport, n)
    IN IF proto = "other" THEN s
       ELSE [s EXCEPT ![CsumAt(proto)] = <<"csum", Checksum(kind, L4Of(src, dst, proto, s))>>]

Packet(l3, src, ext, proto, sport, n, ttl, frag, k3, k4) ==
    LET l4 == L4(src, "b", proto, sport, 1, n, k4)
        next == <<<<"next", proto>>>> \o Tail(Ext)
        p == [l3 |-> l3, hl |-> l3 = "v4" /\ ext, len |-> Len(l4) + (IF ext THEN 4 ELSE 0),
              flags |-> 0, frag |-> frag, ttl |-> ttl,
              proto |-> IF l3 = "v6" /\ ext THEN "opt" ELSE proto,
              src |-> src, dst |-> "b", csum |-> <<"none">>,
              payload |-> IF ~ext THEN l4 ELSE (IF l3 = "v6" THEN next ELSE Ext) \o l4]
    IN IF l3 = "v4" THEN [p EXCEPT !.csum = Checksum(k3, HeaderOf(p))] ELSE p

MCInputs ==
    {Packet(l3, "a", ext, proto, sport, n, ttl, frag, k3, k4) :
        l3 \in {"v4", "v6", "arp"}, ext \in BOOLEAN, proto \in {"tcp", "udp", "icmp", "other"},
        sport \in {0, 2}, n \in {4, 5}, ttl \in 0 .. 2, frag \in {"none", "first"},
        k3 \in {"sum", "bad"}, k4 \in {"sum", "alias", "zero", "bad"}}
    \cup {Packet("v6", "mapped", FALSE, "tcp", 2, 5, 2, "none", "sum", "sum"),
          Packet("v4", "a", FALSE, "udp", 2, 5, 2, "later", "sum", "sum"),
          [Packet("v6", "a", FALSE, "tcp", 2, 5, 2, "none", "sum", "sum") EXCEPT !.dst = "mapped"],
          [Packet("v6", "a", TRUE, "tcp", 2, 5, 2, "none", "sum", "sum") EXCEPT !.len = 0],
          [Packet("v6", "a", FALSE, "tcp", 2, 5, 2, "none", "sum", "sum") EXCEPT !.len = 4]}
    \cup {[l3 |-> "zdp", type |-> t] : t \in {"ack", "km", "mgmt"}}

\* Both ends of the first link, and of the second.
MCLinks == {<<1, 1, 1, 1>>, <<0, 0, 1, 1>>, <<0, 1, 1, 1>>, <<1, 0, 1, 1>>, <<1, 2, 1, 1>>,
            <<1, 1, 0, 0>>, <<1, 1, 2, 1>>}

\* The packets of the round trip tests: IPv4, as their senders' stacks make them.
PlainIpv4 ==
    {Packet("v4", "a", FALSE, proto, sport, 5, 2, "none", "sum", "sum") :
        proto \in {"tcp", "udp", "icmp"}, sport \in {0, 2}}

\* The shortest packet of every protocol (none, v4 with icmp, udp and tcp, v6 with icmp,
\* udp and tcp), one of the usual size, the longest that leaves room for the integrity
\* values, one longer, and the longest that can be read.
MCLengths == {0, 24, 28, 40, 44, 48, 60, 1400, LongestSafe, LongestSafe + 1, LongestSafe + 16}

\* The longest message fills its buffer.
MCBodies == {0, 4096 - 80 - 256}
MCHeaders == {0, 32}
===============================================================================
