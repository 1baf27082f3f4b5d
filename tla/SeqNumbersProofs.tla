-------------------------- MODULE SeqNumbersProofs --------------------------
(***************************************************************************)
(* What counting modulo the size of the number space means: the facts      *)
(* about % that the proofs of the queues and of the session share.         *)
(***************************************************************************)
EXTENDS SeqNumbers, TLAPS

(* The quotient and the remainder of a number.                              *)
LEMMA ModDef ==
    ASSUME NEW x \in Int, NEW M \in Nat, M > 0
    PROVE  /\ x % M \in 0 .. M - 1
           /\ \E q \in Int : x = M * q + (x % M)
<1>1. x = M * (x \div M) + (x % M)
  OBVIOUS
<1>2. x \div M \in Int /\ x % M \in 0 .. M - 1
  OBVIOUS
<1> QED BY <1>1, <1>2

LEMMA ModUnique ==
    ASSUME NEW x \in Int, NEW M \in Nat, M > 0, NEW q \in Int, NEW r \in 0 .. M - 1,
           x = M * q + r
    PROVE  x % M = r
OBVIOUS

(* Counting up by less than the modulus wraps at most once.                 *)
LEMMA ModAdd ==
    ASSUME NEW x \in Int, NEW k \in Nat, NEW M \in Nat, M > 0, k < M
    PROVE  (x + k) % M = IF (x % M) + k >= M THEN (x % M) + k - M ELSE (x % M) + k
<1> DEFINE r == x % M
<1>1. PICK q \in Int : x = M * q + r
  BY ModDef
<1>2. r \in 0 .. M - 1
  BY ModDef
<1> HIDE DEF r
<1>3. CASE r + k >= M
  <2>1. M * (q + 1) = M * q + M
    OBVIOUS
  <2>2. x + k = M * (q + 1) + (r + k - M)
    BY <1>1, <1>2, <2>1
  <2>3. r + k - M \in 0 .. M - 1 /\ q + 1 \in Int /\ x + k \in Int
    BY <1>2, <1>3
  <2>4. (x + k) % M = r + k - M
    BY <2>2, <2>3, ModUnique
  <2> QED BY <2>4, <1>3 DEF r
<1>4. CASE r + k < M
  <2>1. x + k = M * q + (r + k)
    BY <1>1, <1>2
  <2>2. r + k \in 0 .. M - 1 /\ x + k \in Int
    BY <1>2, <1>4
  <2>3. (x + k) % M = r + k
    BY <2>1, <2>2, ModUnique
  <2> QED BY <2>3, <1>4, <1>2 DEF r
<1> QED BY <1>3, <1>4, <1>2 DEF r

(* Inc is the successor of a count kept modulo the number space.            *)
LEMMA ModInc ==
    ASSUME NEW x \in Int, HalfSeq \in Nat, HalfSeq > 0
    PROVE  (x + 1) % SeqMod = Inc(x % SeqMod) /\ x % SeqMod \in SeqNum
<1>1. SeqMod \in Nat /\ SeqMod > 0 /\ 1 \in Nat /\ 1 < SeqMod
  BY DEF SeqMod
<1>2. x % SeqMod \in 0 .. SeqMod - 1
  BY <1>1, ModDef
<1>3. (x + 1) % SeqMod = IF (x % SeqMod) + 1 >= SeqMod THEN (x % SeqMod) + 1 - SeqMod
                         ELSE (x % SeqMod) + 1
  BY <1>1, ModAdd
<1> QED BY <1>1, <1>2, <1>3 DEF Inc, SeqNum
(* Adding or taking a multiple of the modulus changes no remainder.         *)
LEMMA ModMult ==
    ASSUME NEW x \in Int, NEW k \in Int, NEW M \in Nat, M > 0, k % M = 0
    PROVE  (x + k) % M = x % M
<1> DEFINE r == x % M
<1>1. PICK q \in Int : x = M * q + r
  BY ModDef
<1>2. r \in 0 .. M - 1
  BY ModDef
<1> HIDE DEF r
<1>3. PICK p \in Int : k = M * p + (k % M)
  BY ModDef
<1>4. M * (q + p) = M * q + M * p
  OBVIOUS
<1>5. x + k = M * (q + p) + r /\ q + p \in Int /\ x + k \in Int
  BY <1>1, <1>2, <1>3, <1>4
<1>6. (x + k) % M = r
  BY <1>5, <1>2, ModUnique
<1> QED BY <1>6 DEF r

(* Less than a modulus apart, two numbers with the same remainder are equal. *)
LEMMA ModSame ==
    ASSUME NEW x \in Int, NEW y \in Int, NEW M \in Nat, M > 0,
           x <= y, y < x + M, x % M = y % M
    PROVE  x = y
<1>1. y - x \in Nat /\ y - x < M /\ x + (y - x) = y /\ x % M \in 0 .. M - 1
  BY ModDef
<1>2. y % M = IF (x % M) + (y - x) >= M THEN (x % M) + (y - x) - M ELSE (x % M) + (y - x)
  BY <1>1, ModAdd
<1> QED BY <1>1, <1>2

(* A count kept modulo the number space, reduced once more to a divisor.    *)
LEMMA ModMod ==
    ASSUME NEW x \in Int, NEW M \in Nat, M > 0, NEW B \in Nat, B > 0, M % B = 0
    PROVE  (x % M) % B = x % B
<1>1. PICK q \in Int : x = M * q + (x % M)
  BY ModDef
<1>2. x % M \in Int
  BY ModDef
<1>3. PICK c \in Int : M = B * c + (M % B)
  BY ModDef
<1>4. M * q = B * (c * q) /\ c * q \in Int
  <2>1. M = B * c
    BY <1>3
  <2>2. M * q = (B * c) * q
    BY <2>1
  <2> QED BY <2>2
<1>5. M * q = B * (c * q) + 0 /\ M * q \in Int /\ 0 \in 0 .. B - 1
  BY <1>4
<1>6. (M * q) % B = 0
  BY <1>4, <1>5, ModUnique
<1>7. ((x % M) + M * q) % B = (x % M) % B
  BY <1>2, <1>5, <1>6, ModMult
<1> QED BY <1>1, <1>2, <1>5, <1>7

-----------------------------------------------------------------------------
(* The uint32_t operations on counts kept modulo the number space. *)

LEMMA SpaceNat ==
    ASSUME HalfSeq \in Nat, HalfSeq > 0
    PROVE  SeqMod \in Nat /\ SeqMod > 0 /\ SeqMod = 2 * HalfSeq
BY DEF SeqMod

LEMMA AddMod ==
    ASSUME HalfSeq \in Nat, HalfSeq > 0, NEW x \in Int, NEW k \in 1 - SeqMod .. SeqMod - 1
    PROVE  Add(x % SeqMod, k) = (x + k) % SeqMod
<1>1. SeqMod \in Nat /\ SeqMod > 0
  BY SpaceNat
<1>2. x % SeqMod \in 0 .. SeqMod - 1
  BY <1>1, ModDef
<1>3. CASE k >= 0
  <2>1. k \in Nat /\ k < SeqMod
    BY <1>1, <1>3
  <2>2. (x + k) % SeqMod = IF (x % SeqMod) + k >= SeqMod THEN (x % SeqMod) + k - SeqMod
                           ELSE (x % SeqMod) + k
    BY <1>1, <2>1, ModAdd
  <2> QED BY <1>1, <1>2, <1>3, <2>2 DEF Add
<1>4. CASE k < 0
  <2>1. k + SeqMod \in Nat /\ k + SeqMod < SeqMod /\ x + k \in Int
        /\ SeqMod \in Int
    BY <1>1, <1>4
  <2>2. (x + (k + SeqMod)) % SeqMod =
            IF (x % SeqMod) + (k + SeqMod) >= SeqMod THEN (x % SeqMod) + (k + SeqMod) - SeqMod
            ELSE (x % SeqMod) + (k + SeqMod)
    BY <1>1, <2>1, ModAdd
  <2>3. SeqMod = SeqMod * 1 + 0 /\ 0 \in 0 .. SeqMod - 1
    BY <1>1
  <2>4. SeqMod % SeqMod = 0
    BY <1>1, <2>3, ModUnique
  <2>5. ((x + k) + SeqMod) % SeqMod = (x + k) % SeqMod
    BY <1>1, <2>1, <2>4, ModMult
  <2>6. (x + k) + SeqMod = x + (k + SeqMod)
    BY <1>1
  <2> QED BY <1>1, <1>2, <1>4, <2>2, <2>5, <2>6 DEF Add
<1> QED BY <1>1, <1>3, <1>4

(* The distance of two counts less than the number space apart.             *)
LEMMA SubMod ==
    ASSUME HalfSeq \in Nat, HalfSeq > 0, NEW x \in Int, NEW d \in 0 .. SeqMod - 1
    PROVE  Sub((x + d) % SeqMod, x % SeqMod) = d
<1>1. SeqMod \in Nat /\ SeqMod > 0 /\ d \in Nat /\ d < SeqMod
  BY SpaceNat
<1>2. x % SeqMod \in 0 .. SeqMod - 1
  BY <1>1, ModDef
<1>3. (x + d) % SeqMod = IF (x % SeqMod) + d >= SeqMod THEN (x % SeqMod) + d - SeqMod
                         ELSE (x % SeqMod) + d
  BY <1>1, ModAdd
<1> QED BY <1>1, <1>2, <1>3 DEF Sub

(* Read as an int, the difference of two counts less than half the number   *)
(* space apart is their distance, whichever is ahead.                       *)
LEMMA SignedMod ==
    ASSUME HalfSeq \in Nat, HalfSeq > 0, NEW x \in Int, NEW d \in 0 - HalfSeq .. HalfSeq - 1
    PROVE  Signed(Sub((x + d) % SeqMod, x % SeqMod)) = d
<1>1. SeqMod \in Nat /\ SeqMod > 0 /\ SeqMod = 2 * HalfSeq
  BY SpaceNat
<1>2. CASE d >= 0
  <2>1. d \in 0 .. SeqMod - 1
    BY <1>1, <1>2
  <2>2. Sub((x + d) % SeqMod, x % SeqMod) = d
    BY <2>1, SubMod
  <2> QED BY <1>1, <1>2, <2>2 DEF Signed
<1>3. CASE d < 0
  <2>1. d + SeqMod \in 0 .. SeqMod - 1 /\ x + d \in Int /\ SeqMod \in Int
    BY <1>1, <1>3
  <2>2. Sub((x + (d + SeqMod)) % SeqMod, x % SeqMod) = d + SeqMod
    BY <2>1, SubMod
  <2>3. SeqMod = SeqMod * 1 + 0 /\ 0 \in 0 .. SeqMod - 1
    BY <1>1
  <2>4. SeqMod % SeqMod = 0
    BY <1>1, <2>3, ModUnique
  <2>5. ((x + d) + SeqMod) % SeqMod = (x + d) % SeqMod
    BY <1>1, <2>1, <2>4, ModMult
  <2>6. (x + d) + SeqMod = x + (d + SeqMod)
    BY <1>1
  <2> QED BY <1>1, <1>3, <2>2, <2>5, <2>6 DEF Signed
<1> QED BY <1>1, <1>2, <1>3
=============================================================================
