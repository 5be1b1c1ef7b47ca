------------------------------ MODULE IpNetwork ------------------------------
(***************************************************************************)
(* ipNetwork.UnmarshalJSON (core/ip_companies.go): the first and the last  *)
(* address of a company's network, which the service writes as a prefix or *)
(* as a range.  An address is a sequence of Bytes numbers of ByteBits      *)
(* bits: 16 of 8, an IPv4 address being one whose first bits are fixed, so *)
(* that BitLen counts its own bits only.                                   *)
(***************************************************************************)
EXTENDS Integers, Sequences

CONSTANTS ByteBits, Bytes

ASSUME NetworkAssumption == ByteBits \in Nat \ {0} /\ Bytes \in Nat \ {0}

AllBits == ByteBits * Bytes
Pow2[n \in 0..AllBits] == IF n = 0 THEN 1 ELSE 2 * Pow2[n - 1]
ByteMax == Pow2[ByteBits] - 1
Address == [1..Bytes -> 0..ByteMax]

\* Bits of a byte with its low `bits` bits zeroed, and with them set.
LowCleared(byte, bits) == byte - (byte % Pow2[bits])
LowSet(byte, bits) == LowCleared(byte, bits) + (Pow2[bits] - 1)

PrefixBits(bitLen, bits) == AllBits - bitLen + bits

\* The byte in which the prefix ends, from 0.
\* Mutant: the byte before it when the prefix ends with a byte.
EndByte_RoundedDown(prefixBits) == (prefixBits - 1) \div ByteBits
EndByte(prefixBits) == prefixBits \div ByteBits

\* A prefix of full length ends after the last byte: indexing ipToArr there is
\* a panic.
Panics(prefixBits) == EndByte(prefixBits) >= Bytes

Masked(addr, prefixBits) ==
  [i \in 1..Bytes |->
    LET kept == prefixBits - ByteBits * (i - 1)
    IN  CASE kept >= ByteBits -> addr[i]
          [] kept <= 0 -> 0
          [] OTHER -> LowCleared(addr[i], ByteBits - kept)]

\* Bytes after the end byte are filled, the end byte has its low bits set.
IPTo(addr, prefixBits) ==
  [i \in 1..Bytes |->
    LET at == EndByte(prefixBits)
    IN  CASE i - 1 > at -> ByteMax
          [] i - 1 = at -> LowSet(addr[i], ByteBits - (prefixBits % ByteBits))
          [] OTHER -> addr[i]]

NetworkOf(addr, bitLen, bits) ==
  LET prefixBits == PrefixBits(bitLen, bits)
  IN  [ipFrom |-> Masked(addr, prefixBits), ipTo |-> IPTo(addr, prefixBits)]

----------------------------------------------------------------------------
\* An address as a number, its first byte being the highest.
Number(addr) ==
  LET upTo[i \in 0..Bytes] == IF i = 0 THEN 0 ELSE upTo[i - 1] * (ByteMax + 1) + addr[i]
  IN  upTo[Bytes]

\* Unless it panics, the network is the block of addresses that share the
\* prefix: as many as the free bits make, beginning at a multiple of that, and
\* the address itself is one of them; it panics for one length only, that of a
\* single address (ip_companies.go 174-183).
NetworkIsBlock(addr, bitLen, bits) ==
  LET size == Pow2[bitLen - bits]
      net == NetworkOf(addr, bitLen, bits)
  IN  IF bits = bitLen THEN Panics(PrefixBits(bitLen, bits))
      ELSE /\ ~Panics(PrefixBits(bitLen, bits))
           /\ Number(net.ipFrom) % size = 0
           /\ Number(net.ipTo) = Number(net.ipFrom) + size - 1
           /\ Number(addr) \in Number(net.ipFrom)..Number(net.ipTo)
=============================================================================
