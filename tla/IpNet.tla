------------------------------- MODULE IpNet -------------------------------
(***************************************************************************)
(* The pure address arithmetic of internal/ipnet.  An address is a number  *)
(* of its family, a block is [v, base, bits] with base a multiple of       *)
(* 2^bits: v is 4 or 6, bits the host bits (32 or 128 less the prefix      *)
(* length).  0 is "no address".                                            *)
(***************************************************************************)
EXTENDS Integers, Sequences, FiniteSetsExt

Block(v, base, bits) == [v |-> v, base |-> base, bits |-> bits]

top(c) == c.base + 2 ^ c.bits - 1

Holds(c, a) == c.base <= a /\ a <= top(c)

\* A v4 network and broadcast address are no hosts unless the block is a /31 or
\* /32; a v6 network address is none unless it is a /127 or /128.
hostRange(c) ==
  IF c.bits < 2 THEN c.base .. top(c)
  ELSE IF c.v = 4 THEN c.base + 1 .. top(c) - 1 ELSE c.base + 1 .. top(c)

boundedRange(c, skipFirst, skipLast) ==
  {a \in hostRange(c) : Min(hostRange(c)) + skipFirst <= a /\ a <= Max(hostRange(c)) - skipLast}

\* The hosts FirstFree may return; it returns the lowest, or ErrExhausted.
Free(c, exclude, gateway, skipFirst, skipLast) ==
  boundedRange(c, skipFirst, skipLast) \ (exclude \cup {gateway})

FirstFree(c, exclude, gateway, skipFirst, skipLast) ==
  Min(Free(c, exclude, gateway, skipFirst, skipLast))

Overlaps(a, b) == a.v = b.v /\ (Holds(a, b.base) \/ Holds(b, a.base))

\* Strictly smaller and inside.
Within(child, parent) == child.v = parent.v /\ child.bits < parent.bits /\ Holds(parent, child.base)

\* The consecutive blocks of the given host bits inside c, lowest first.
Subdivide(c, bits) == [n \in 1 .. 2 ^ (c.bits - bits) |-> Block(c.v, c.base + (n - 1) * 2 ^ bits, bits)]

CanSubdivide(c, bits, maxBlocks) == 0 <= bits /\ bits < c.bits /\ 2 ^ (c.bits - bits) <= maxBlocks

GatewayInRange(c, gw) ==
  Holds(c, gw) /\ (c.v = 4 /\ c.bits >= 2 => gw \notin {c.base, top(c)})

\* The smallest of the blocks (by id) that hold a, the lowest id on a tie, or 0.
MostSpecific(blocks, a) ==
  LET held == {i \in DOMAIN blocks : Holds(blocks[i], a)}
  IN IF held = {} THEN 0 ELSE Min({i \in held : \A j \in held : blocks[i].bits <= blocks[j].bits})

InRange(lo, hi, a) == lo <= a /\ a <= hi

=============================================================================
