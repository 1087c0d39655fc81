------------------------------ MODULE SqliteExt -----------------------------
(***************************************************************************)
(* The functions registered on every SQLite connection for IPv4 addresses  *)
(* and CIDR blocks (sqlite_ext.rs).  An address text is its number, or     *)
(* Garbage; a block text is [ip, prefix], where the prefix may be too      *)
(* long, or Garbage.                                                       *)
(***************************************************************************)
EXTENDS Integers

CONSTANTS
    Bits,       \* 32: bits of an address
    Garbage     \* a text that does not parse

ASSUME BitsAssumption == Bits \in Nat \ {0}

MaxU32 == 2^Bits - 1
Addrs == 0..MaxU32

ASSUME GarbageAssumption == Garbage \notin Addrs

AsU32(i) == i % 2^Bits

Parses(cidr) == cidr # Garbage /\ cidr.prefix <= Bits

\* How many addresses the mask of a prefix lets vary, and the mask applied.
BlockSize(prefix) == 2^(Bits - prefix)
Masked(ip, prefix) == ip - (ip % BlockSize(prefix))

ip4_int(text) == IF text = Garbage THEN 0 ELSE text

cidr4_min(cidr) == IF Parses(cidr) THEN Masked(cidr.ip, cidr.prefix) ELSE 0

\* Mutant: the first address after the block.
EndExclusive(cidr) == IF Parses(cidr) THEN cidr4_min(cidr) + BlockSize(cidr.prefix) ELSE 0

cidr4_max(cidr) == IF Parses(cidr) THEN cidr4_min(cidr) + BlockSize(cidr.prefix) - 1 ELSE 0

\* The bounds are integers, of any size, or address texts.
Bound(b, otherwise) ==
    IF b = Garbage THEN otherwise ELSE AsU32(b)

ip4_between(text, start, end) ==
    LET v == IF text = Garbage THEN MaxU32 ELSE text
    IN  v >= Bound(start, MaxU32) /\ v <= Bound(end, 0)

cidr4_contains(text, cidr) ==
    /\ text # Garbage
    /\ Parses(cidr)
    /\ Masked(text, cidr.prefix) = Masked(cidr.ip, cidr.prefix)

ip4_text(i) == IF i = Garbage THEN 0 ELSE AsU32(i)
=============================================================================
