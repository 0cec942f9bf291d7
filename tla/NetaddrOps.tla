----------------------------- MODULE NetaddrOps -----------------------------
(***************************************************************************)
(* Network addresses (oonf_api/common/netaddr): 16 bytes, an address       *)
(* family and a prefix length.  A netaddr is also the key of the RFC 5444  *)
(* writer's address tree, compared byte by byte as it lies in memory.      *)
(***************************************************************************)
EXTENDS Integers, Sequences

AF_UNSPEC == 0
AF_INET   == 2
AF_INET6  == 10
AF_MAC48  == 12
AF_EUI64  == 13

NETADDR_MAX_LENGTH == 16
Byte == 0 .. 255
Netaddr == [addr : [1 .. NETADDR_MAX_LENGTH -> Byte], type : Byte, plen : Byte]

Zeros(n) == [i \in 1 .. n |-> 0]
Padded(bin) == bin \o Zeros(NETADDR_MAX_LENGTH - Len(bin))
Part(s, from, len) == SubSeq(s, from + 1, from + len)     \* C offsets

\* memcmp: the sign of the first difference.
Memcmp(a, b) ==
  LET diff == {i \in DOMAIN a : a[i] # b[i]}
  IN  IF diff = {} THEN 0
      ELSE LET i == CHOOSE j \in diff : \A k \in diff : j <= k IN a[i] - b[i]

MaxPrefix(type) ==
  CASE type = AF_INET  -> 32
    [] type = AF_INET6 -> 128
    [] type = AF_MAC48 -> 48
    [] type = AF_EUI64 -> 64
    [] OTHER           -> 0

AddrLength(a) == MaxPrefix(a.type) \div 8

NetaddrCmp(a, b) == Memcmp(a.addr \o <<a.type, a.plen>>, b.addr \o <<b.type, b.plen>>)

TypeOfLength(len) ==
  CASE len = 4 -> AF_INET [] len = 6 -> AF_MAC48 [] len = 8 -> AF_EUI64
    [] len = 16 -> AF_INET6 [] OTHER -> AF_UNSPEC

\* netaddr_from_binary_prefix with the type left to the length; 255 asks for a
\* host address.
FromBinaryPrefix(bin, plen) ==
  [addr |-> Padded(bin), type |-> TypeOfLength(Len(bin)),
   plen |-> IF plen = 255 THEN 8 * Len(bin) ELSE plen]

\* The bytes netaddr_to_binary writes, or <<>> where it fails.
ToBinary(a, len) ==
  IF AddrLength(a) = 0 \/ len < AddrLength(a) THEN <<>> ELSE Part(a.addr, 0, AddrLength(a))

IsEqualBinary(a, bin, type, plen) ==
  /\ a.type = type /\ a.plen = plen
  /\ AddrLength(a) = Len(bin)
  /\ Part(a.addr, 0, Len(bin)) = bin

BinaryIsInSubnet(subnet, bin) ==
  LET bytes == subnet.plen \div 8
      shift == 2 ^ (8 - (subnet.plen % 8))
  IN  /\ Part(subnet.addr, 0, bytes) = Part(bin, 0, bytes)
      /\ \/ subnet.plen % 8 = 0
         \/ subnet.addr[bytes + 1] \div shift = bin[bytes + 1] \div shift

IsInSubnet(subnet, a) == subnet.type = a.type /\ BinaryIsInSubnet(subnet, a.addr)

\* byte & mask and byte & ~mask for a mask of the top n bits
TopBits(byte, n) == byte - (byte % (2 ^ (8 - n)))
LowBitsNot(byte, n) == byte       \* variant: the number's byte unmasked
LowBits(byte, n) == byte % (2 ^ (8 - n))

\* Variant: the bits behind the prefix are left in its last byte.
TruncateBytes(a) ==
  [a EXCEPT !.addr = [i \in 1 .. NETADDR_MAX_LENGTH |-> IF i <= (a.plen + 7) \div 8 THEN @[i] ELSE 0]]

Truncate(a) ==
  LET bytes == a.plen \div 8
  IN  [a EXCEPT !.addr = [i \in 1 .. NETADDR_MAX_LENGTH |->
         IF i <= bytes THEN @[i]
         ELSE IF i = bytes + 1 THEN TopBits(@[i], a.plen % 8) ELSE 0]]

\* netaddr_create_host_bin: the host part of netmask overwritten by number.
CreateHost(netmask, number) ==
  LET max  == MaxPrefix(netmask.type)
      host == [netmask EXCEPT !.plen = max]
      part == (max - netmask.plen + 7) \div 8
      bits == netmask.plen % 8
      short == part > Len(number)
      at   == IF short THEN max \div 8 - Len(number) ELSE netmask.plen \div 8
      from == IF short THEN 0 ELSE Len(number) - part
      mixed == ~short /\ bits # 0
      Copied(i) == number[from + (i - at)]
  IN  IF max = netmask.plen \/ number = <<>> THEN host
      ELSE [host EXCEPT !.addr = [i \in 1 .. NETADDR_MAX_LENGTH |->
             CASE i <= at \/ i > max \div 8 -> @[i]
               [] mixed /\ i = at + 1 -> TopBits(@[i], bits) + LowBits(Copied(i), bits)
               [] OTHER -> Copied(i)]]

\* A netaddr_socket: family, address and port.
ToSocket(a, port) ==
  [family |-> a.type, port |-> port, ip |-> Part(a.addr, 0, AddrLength(a))]

FromSocket(s) == [addr |-> Padded(s.ip), type |-> s.family, plen |-> MaxPrefix(s.family)]

CmpToSocket(a, s) ==
  IF a.type # s.family THEN a.type - s.family
  ELSE LET diff == Memcmp(Part(a.addr, 0, AddrLength(a)), s.ip)
       IN  IF diff # 0 THEN diff ELSE a.plen - MaxPrefix(a.type)

=============================================================================
