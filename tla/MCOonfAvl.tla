----------------------------- MODULE MCOonfAvl -----------------------------
(***************************************************************************)
(* The container as the RFC 5444 writer uses it: a tree of network         *)
(* addresses.  The keys mix families, prefixes and hosts inside them, so   *)
(* that byte order, family and prefix length all take part in the order.   *)
(* A key is a pointer to an address, here its place in MCAddress; what is  *)
(* computed of addresses alone is tabulated once.                          *)
(***************************************************************************)
EXTENDS OonfAvl, NetaddrOps

V4(b, plen) == FromBinaryPrefix(b, plen)
V6(a, b, plen) == FromBinaryPrefix(<<32, a>> \o Zeros(13) \o <<b>>, plen)

MCInTree == <<V4(<<10, 0, 0, 0>>, 8), V4(<<10, 64, 0, 0>>, 10),
              V4(<<10, 127, 255, 255>>, 255), V4(<<10, 128, 0, 0>>, 255), V4(<<32, 1, 0, 0>>, 16),
              V6(1, 0, 16), V6(16, 0, 20), V6(1, 7, 255), V4(<<32, 1, 0, 7>>, 29),
              FromBinaryPrefix(<<10, 64, 0, 0, 0, 1>>, 255), V4(<<10, 127, 255, 255>>, 255)>>

MCNode == DOMAIN MCInTree
\* The smallest key an address of the same subnet can have.
Lowest(a) == [Truncate(a) EXCEPT !.type = AF_UNSPEC, !.plen = 0]
MCAddress == MCInTree \o [n \in MCNode |-> Lowest(MCInTree[n])] \o
             <<V4(<<9, 0, 0, 0>>, 8), V4(<<10, 100, 0, 0>>, 14), V6(32, 0, 255)>>
LowestOf(k) == k + Len(MCInTree)

MCProbe == DOMAIN MCAddress
MCKeyOf == [n \in MCNode |-> n]
MCOrder == [a \in MCProbe |-> [b \in MCProbe |-> NetaddrCmp(MCAddress[a], MCAddress[b])]]
MCComp(a, b) == MCOrder[a][b]

Present == ToSet(Elements(tree))

Within == [p \in MCNode |-> {a \in MCNode : IsInSubnet(MCAddress[p], MCAddress[a])}]

\* The addresses of a subnet stand together among those of their family, none
\* of them in front of what avl_find_greaterequal finds for the truncated prefix:
\* the memcmp order and the prefix arithmetic of netaddr.c:431 and :1208 agree
\* whatever families share the tree.
SubnetsContiguous ==
  \A p \in Present :
    LET s == SelectSeq(Elements(tree), LAMBDA n : MCAddress[n].type = MCAddress[p].type)
        inside == {i \in DOMAIN s : s[i] \in Within[p]}
        first  == Nearest(tree, LowestOf(p), Right)
    IN  /\ p \in Within[p]
        /\ \A i, j \in inside : i .. j \subseteq inside
        /\ \A i \in inside : Comp(first, s[i]) <= 0

\* The low bytes of number that fit behind a's prefix are a's low bytes too.
KeepsNumber(p, number) ==
  LET host == CreateHost(p, number)
      bin  == ToBinary(host, 16)
      free == (MaxPrefix(p.type) - p.plen) \div 8
      kept == IF free < Len(number) THEN free ELSE Len(number)
  IN  /\ IsInSubnet(p, host)
      /\ Part(bin, Len(bin) - kept, kept) = Part(number, Len(number) - kept, kept)

NumbersKept ==
  [p \in MCNode |-> {a \in MCNode : LET bin == ToBinary(MCAddress[a], 16)
                                    IN  \A len \in {1, 3, Len(bin)} :
                      KeepsNumber(MCAddress[p], Part(bin, Len(bin) - len, len))}]

Survivors ==
  {n \in MCNode :
     LET a == MCAddress[n]
         bin == ToBinary(a, 16)
     IN  /\ FromBinaryPrefix(bin, a.plen) = a
         /\ IsEqualBinary(a, bin, a.type, a.plen)
         /\ a.type \in {AF_INET, AF_INET6} =>
              /\ FromSocket(ToSocket(a, 269)) = [a EXCEPT !.plen = MaxPrefix(a.type)]
              /\ (CmpToSocket(a, ToSocket(a, 269)) = 0) <=> (a.plen = MaxPrefix(a.type))}

\* An address of the tree written to binary or to a socket and read back is the
\* same host, and only a host compares equal to its socket (netaddr.c:163, :209, :751).
\* Giving a subnet of the tree the host number of another of its addresses makes
\* a host of that subnet that keeps as many low bytes of the number as the
\* prefix leaves free (netaddr.c:334).
AddressesSurvive ==
  \A p \in Present : p \in Survivors /\ Present \subseteq NumbersKept[p]

=============================================================================
