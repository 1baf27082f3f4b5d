----------------------------- MODULE SeqNumbers -----------------------------
(***************************************************************************)
(* Sequence numbers: uint32_t values, increments and differences that wrap *)
(* around, and the cast of a difference to int.                            *)
(***************************************************************************)
EXTENDS Integers

CONSTANT HalfSeq   \* 2^31 in the code: half of the sequence number space

SeqMod == 2 * HalfSeq
SeqNum == 0 .. SeqMod - 1

Inc(s)    == IF s = SeqMod - 1 THEN 0 ELSE s + 1
Sub(a, b) == IF a >= b THEN a - b ELSE a - b + SeqMod
Add(a, k) == IF a + k >= SeqMod THEN a + k - SeqMod
             ELSE IF a + k < 0 THEN a + k + SeqMod ELSE a + k
Signed(d) == IF d < HalfSeq THEN d ELSE d - SeqMod
=============================================================================
