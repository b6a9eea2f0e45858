-------------------------------- MODULE Util --------------------------------
(***************************************************************************)
(* Arithmetic helpers of eddy-private.h's utility group: ED_COUNT_SIZE,    *)
(* ED_ALIGN_SIZE and ed_power2.  They are defined in the header itself.    *)
(* ed_power2 is translated for an unsigned int of `w` bits: the header     *)
(* smears with shifts 1, 2, 4, 8, then 16 only if UINT_MAX > UINT16_MAX,    *)
(* then 32 only if UINT_MAX > UINT32_MAX, and the final increment wraps    *)
(* modulo 2^w.  TLC's integers stop at 2^31 - 1, so the words checked      *)
(* below are those of a 16-bit unsigned int, the build the first #if       *)
(* leaves out.                                                             *)
(***************************************************************************)
EXTENDS Naturals, Sequences, Bitwise

\* ED_COUNT_SIZE(n, size): how many units of `size` hold n.
ED_COUNT_SIZE(n, size) == (n + (size - 1)) \div size

\* ED_ALIGN_SIZE(n, size): n rounded up to a multiple of size.
ED_ALIGN_SIZE(n, size) == ED_COUNT_SIZE(n, size) * size

\* The shifts the #if ladder keeps for a w-bit unsigned int: 1 .. w/2.
Shifts(w) == LET k == CHOOSE k \in 1 .. w : 2^k = w
             IN [i \in 1 .. k |-> 2^(i - 1)]

\* p |= p >> s for each shift in turn.
RECURSIVE Smear(_, _)
Smear(p, s) == IF s = <<>> THEN p ELSE Smear(p | shiftR(p, Head(s)), Tail(s))

ed_power2(p, w) ==
  IF p > 0 THEN (Smear(p - 1, Shifts(w)) + 1) % 2^w ELSE p

-----------------------------------------------------------------------------
\* References: the least multiple, and the least power of two, at or above n
\* (a power of two that does not fit the word is 0 after the wrap).
AlignRef(n, size) == CHOOSE m \in n .. n + size - 1 : m % size = 0

Power2Ref(p, w) ==
  IF p = 0 THEN 0
  ELSE LET k == CHOOSE k \in 0 .. w : 2^k >= p /\ (k = 0 \/ 2^(k - 1) < p)
       IN 2^k % 2^w

ASSUME \A n \in 0 .. 40, size \in 1 .. 17 :
         ED_ALIGN_SIZE(n, size) = AlignRef(n, size)

\* ed_power2 rounds 16-bit words up to a power of two: every word below 1024
\* and every word next to a power of two, where a missing shift or a
\* missing decrement shows.  It maps 0 to 0 (not a power of two) and wraps
\* to 0 past 2^15.
Edges16 == UNION { {2^k - 1, 2^k, 2^k + 1} : k \in 0 .. 15 }

ASSUME \A p \in (0 .. 1023) \cup Edges16 : ed_power2(p, 16) = Power2Ref(p, 16)

ASSUME ed_power2(0, 16) = 0 /\ ed_power2(2^15 + 1, 16) = 0
=============================================================================
