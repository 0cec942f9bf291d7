--------------------------- MODULE MCAodvv2Network ---------------------------
(* Small meshes: the line a - b - c, and a star with b in the middle.       *)
EXTENDS Aodvv2Network

MCPrefix == {"0", "ll", "a", "b", "c", "d"}
MCHost == {"0", "a", "b", "c", "d", "x"}

Both(S) == S \union {<<p[2], p[1]>> : p \in S}

MCLine == {"a", "b", "c"}
MCLineLink == Both({<<"a", "b">>, <<"b", "c">>})
MCStar == {"a", "b", "c", "d"}
MCStarLink == Both({<<"a", "b">>, <<"b", "c">>, <<"b", "d">>})

MCLinkLocal == [n \in Routers |-> <<"ll", n>>]

\* One client per router of S: with a full address, or with a prefix.
ClientsOn(S) == [n \in Routers |->
    IF n \in S THEN {[addr |-> <<n, "x">>, pfx |-> 128]} ELSE {}]
MCClients == ClientsOn({"a", "c"})
MCPrefixes == [n \in Routers |->
    IF n \in {"a", "c"} THEN {[addr |-> <<n, "0">>, pfx |-> 64]} ELSE {}]

From(n, m) == [router |-> n, src |-> <<n, "x">>, dst |-> <<m, "x">>]
MCOneWay == {From("a", "c")}

MCStackRtr == {<<"0", "0">>, <<"ll", "x">>}
=============================================================================
