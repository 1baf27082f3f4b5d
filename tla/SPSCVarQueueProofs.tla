------------------------- MODULE SPSCVarQueueProofs -------------------------
(***************************************************************************)
(* SPSCVarQueue for every ring, every message size and every width of the  *)
(* indices, also when either process dies between any two of its accesses  *)
(* to the shared memory and is started again.                              *)
(*                                                                         *)
(* The argument counts blocks from the start of the queue, without ever    *)
(* wrapping: position p of the stream of blocks is in cell p % BLK_CNT, an *)
(* index is a position modulo SeqMod, an id of the history is the number   *)
(* of a message modulo Ids.                                                *)
(***************************************************************************)
EXTENDS SPSCVarQueue, SeqNumbersProofs

-----------------------------------------------------------------------------
(* What is between the indices. *)

Cell == [id : 0 .. Ids - 1, part : 0 .. BLK_CNT - 1, size : MsgSize]
Mem  == [0 .. BLK_CNT - 1 -> Cell]

SizeAt(b, p)  == b[p % BLK_CNT].size
ItemLen(b, p) == IF SizeAt(b, p) = 0 THEN Padding(p) ELSE Blocks(SizeAt(b, p))

\* The n cells from position p on hold the whole of message number m.
Whole(b, p, n, m) ==
    \A j \in 0 .. n - 1 : /\ b[(p % BLK_CNT) + j].id = m % Ids
                          /\ b[(p % BLK_CNT) + j].part = j

\* At p a message or a padding mark starts; D are the positions where one
\* starts, N the number of the first message at or after a position.
Item(b, D, N, p) ==
    /\ ItemLen(b, p) >= 1 /\ (p % BLK_CNT) + ItemLen(b, p) <= BLK_CNT
    /\ p + ItemLen(b, p) \in D
    /\ \A q \in D : q <= p \/ q >= p + ItemLen(b, p)
    /\ SizeAt(b, p) = 0 => p % BLK_CNT # 0 /\ N[p + ItemLen(b, p)] = N[p]
    /\ SizeAt(b, p) # 0 => /\ N[p + ItemLen(b, p)] = N[p] + 1
                           /\ Whole(b, p, ItemLen(b, p), N[p])

\* The blocks from position R to W are a row of messages and padding.
Layout(b, R, W, D, N) ==
    /\ R \in D /\ W \in D
    /\ \A p \in D : R <= p /\ p <= W
    /\ \A p \in D : p # W => Item(b, D, N, p)

\* The positions of the indices: C of the writer's copy of read_idx, R of
\* read_idx, A of write_idx_atom, W of write_idx.
Indices(C, R, A, W, D, N) ==
    /\ C <= R /\ R <= A /\ A <= W /\ W <= C + BLK_CNT /\ A \in D
    /\ read_idx_cach = C % SeqMod /\ read_idx = R % SeqMod
    /\ write_idx_atom = A % SeqMod /\ write_idx = W % SeqMod
    /\ got = N[R] % Ids /\ sent = N[W] % Ids

\* What Alloc has found out, and written, at each of its accesses.
InAlloc(b, C, W, m) ==
    /\ wpc \in {"load", "mark", "rewind", "header", "fill"} =>
         \E sz \in UserSizes : size = sz + HeaderSize
    /\ wpc \in {"mark", "rewind"} =>
         Blocks(size) > Padding(W) /\ W + Blocks(size) + Padding(W) <= C + BLK_CNT
    /\ wpc = "rewind" => SizeAt(b, W) = 0
    /\ wpc \in {"header", "fill"} =>
         (W % BLK_CNT) + Blocks(size) <= BLK_CNT /\ W + Blocks(size) <= C + BLK_CNT
    /\ wpc = "fill" => SizeAt(b, W) = size
    /\ wpc = "ready" =>
         /\ SizeAt(b, W) # 0
         /\ (W % BLK_CNT) + ItemLen(b, W) <= BLK_CNT /\ W + ItemLen(b, W) <= C + BLK_CNT
         /\ Whole(b, W, ItemLen(b, W), m)

\* What Front has found out; K is the position of the write_idx_atom it loaded.
InFront(b, R, A, K, D) ==
    /\ rpc # "idle" => R < A
    /\ rpc \in {"size", "skip"} =>
         K \in D /\ R < K /\ K <= A /\ curr_write_idx = K % SeqMod
    /\ rpc = "skip" => SizeAt(b, R) = 0
    /\ rpc = "msg" => SizeAt(b, R) # 0

Ring(C, R, A, W, K, D, N) ==
    /\ Layout(blk, R, W, D, N)
    /\ Indices(C, R, A, W, D, N)
    /\ InAlloc(blk, C, W, N[W])
    /\ InFront(blk, R, A, K, D)

Typed ==
    /\ blk \in Mem
    /\ write_idx \in SeqNum /\ write_idx_atom \in SeqNum /\ read_idx_cach \in SeqNum
    /\ read_idx \in SeqNum /\ curr_write_idx \in SeqNum
    /\ sent \in 0 .. Ids - 1 /\ got \in 0 .. Ids - 1
    /\ size \in MsgSize
    /\ wpc \in {"idle", "load", "mark", "rewind", "header", "fill", "ready", "commit"}
    /\ rpc \in {"idle", "size", "skip", "msg"}

(* The inductive invariant: there are positions for the indices, and a row  *)
(* of items between them, that the state is the wrapped picture of.         *)
IInv ==
    /\ Typed
    /\ \E C, R, A, W, K \in Nat : \E D \in SUBSET Nat, N \in [Nat -> Nat] :
         Ring(C, R, A, W, K, D, N)
-----------------------------------------------------------------------------
(* Positions and cells. *)

LEMMA RingNat ==
    /\ BLK_CNT \in Nat /\ BLK_CNT > 0 /\ HalfSeq \in Nat /\ HalfSeq > 0 /\ BLK_CNT < HalfSeq
    /\ SeqMod \in Nat /\ SeqMod > 0 /\ SeqMod = 2 * HalfSeq
    /\ SeqMod % BLK_CNT = 0 /\ Ids \in Nat /\ Ids > 0
BY RingAssumption DEF SeqMod

LEMMA BlocksType ==
    ASSUME NEW n \in MsgSize
    PROVE  Blocks(n) \in Nat /\ (n # 0 => Blocks(n) >= 1)
BY DEF Blocks, BlockSize, MsgSize

(* The index of a position leads to the position's cell.                    *)
LEMMA CellOf ==
    ASSUME NEW p \in Nat
    PROVE  /\ p % BLK_CNT \in 0 .. BLK_CNT - 1 /\ p % SeqMod \in SeqNum
           /\ (p % SeqMod) % BLK_CNT = p % BLK_CNT
           /\ Padding(p) \in 1 .. BLK_CNT /\ Padding(p % SeqMod) = Padding(p)
<1>1. p \in Int
  OBVIOUS
<1>2. p % BLK_CNT \in 0 .. BLK_CNT - 1 /\ p % SeqMod \in 0 .. SeqMod - 1
  BY <1>1, RingNat, ModDef
<1>3. (p % SeqMod) % BLK_CNT = p % BLK_CNT
  BY <1>1, RingNat, ModMod
<1> QED BY <1>2, <1>3, RingNat DEF SeqNum, Padding

(* Up to the end of the ring, the next position is in the next cell.        *)
LEMMA CellNext ==
    ASSUME NEW p \in Nat, NEW j \in Nat, (p % BLK_CNT) + j < BLK_CNT
    PROVE  (p + j) % BLK_CNT = (p % BLK_CNT) + j
<1>1. p \in Int /\ p % BLK_CNT \in 0 .. BLK_CNT - 1
  BY CellOf
<1>2. j < BLK_CNT
  BY <1>1, RingNat
<1>3. (p + j) % BLK_CNT = IF (p % BLK_CNT) + j >= BLK_CNT THEN (p % BLK_CNT) + j - BLK_CNT
                          ELSE (p % BLK_CNT) + j
  BY <1>1, <1>2, RingNat, ModAdd
<1> QED BY <1>1, <1>3, RingNat

(* Less than a ring apart, two positions are in different cells.            *)
LEMMA CellApart ==
    ASSUME NEW p \in Nat, NEW q \in Nat, p < q, q < p + BLK_CNT
    PROVE  p % BLK_CNT # q % BLK_CNT
<1> SUFFICES ASSUME p % BLK_CNT = q % BLK_CNT PROVE FALSE
  OBVIOUS
<1>1. p \in Int /\ q \in Int /\ p <= q
  OBVIOUS
<1>2. p = q
  BY <1>1, RingNat, ModSame
<1> QED BY <1>2

(* Padding ends at the start of the ring.                                   *)
LEMMA CellPad ==
    ASSUME NEW p \in Nat, p % BLK_CNT # 0
    PROVE  (p + Padding(p)) % BLK_CNT = 0 /\ Padding(p) < BLK_CNT
<1>1. p \in Int /\ p % BLK_CNT \in 0 .. BLK_CNT - 1
  BY CellOf
<1>2. Padding(p) \in Nat /\ Padding(p) < BLK_CNT /\ (p % BLK_CNT) + Padding(p) = BLK_CNT
  BY <1>1, RingNat DEF Padding
<1>3. (p + Padding(p)) % BLK_CNT =
          IF (p % BLK_CNT) + Padding(p) >= BLK_CNT THEN (p % BLK_CNT) + Padding(p) - BLK_CNT
          ELSE (p % BLK_CNT) + Padding(p)
  BY <1>1, <1>2, RingNat, ModAdd
<1> QED BY <1>1, <1>2, <1>3, RingNat

LEMMA ItemLenType ==
    ASSUME NEW b \in Mem, NEW p \in Nat
    PROVE  /\ SizeAt(b, p) \in MsgSize /\ ItemLen(b, p) \in Nat
           /\ SizeAt(b, p) # 0 => ItemLen(b, p) = Blocks(SizeAt(b, p))
           /\ ItemLen(b, p) >= 1
<1>1. SizeAt(b, p) \in MsgSize
  BY CellOf DEF Mem, Cell, SizeAt
<1>2. Blocks(SizeAt(b, p)) \in Nat /\ (SizeAt(b, p) # 0 => Blocks(SizeAt(b, p)) >= 1)
  BY <1>1, BlocksType
<1>3. Padding(p) \in Nat /\ Padding(p) >= 1
  BY CellOf, RingNat
<1> QED BY <1>1, <1>2, <1>3 DEF ItemLen

-----------------------------------------------------------------------------
(* Rows of items. *)

(* A store outside the row does not change it.                              *)
LEMMA LayoutFrame ==
    ASSUME NEW b \in Mem, NEW b2 \in Mem, NEW R \in Nat, NEW W \in Nat,
           NEW D \in SUBSET Nat, NEW N \in [Nat -> Nat], Layout(b, R, W, D, N),
           \A p \in R .. W - 1 : b2[p % BLK_CNT] = b[p % BLK_CNT]
    PROVE  Layout(b2, R, W, D, N)
<1>1. ASSUME NEW p \in D, p # W PROVE Item(b2, D, N, p)
  <2> DEFINE n == ItemLen(b, p)
  <2>1. Item(b, D, N, p) /\ p \in Nat /\ R <= p /\ p <= W
    BY <1>1 DEF Layout
  <2>2. p \in R .. W - 1
    BY <1>1, <2>1
  <2>3. SizeAt(b2, p) = SizeAt(b, p) /\ ItemLen(b2, p) = n
    BY <2>2 DEF SizeAt, ItemLen
  <2>4. n \in Nat /\ p + n \in D /\ (p % BLK_CNT) + n <= BLK_CNT
    BY <2>1, ItemLenType DEF Item
  <2>5. p + n <= W
    BY <2>4 DEF Layout
  <2> HIDE DEF n
  <2>6. ASSUME NEW j \in 0 .. n - 1
        PROVE  b2[(p % BLK_CNT) + j] = b[(p % BLK_CNT) + j]
    <3>1. p % BLK_CNT \in 0 .. BLK_CNT - 1
      BY <2>1, CellOf
    <3>2. j \in Nat /\ (p % BLK_CNT) + j < BLK_CNT
      BY <2>4, <3>1, RingNat
    <3>3. (p + j) % BLK_CNT = (p % BLK_CNT) + j
      BY <2>1, <3>2, CellNext
    <3>4. p + j \in R .. W - 1
      BY <2>2, <2>4, <2>5
    <3> QED BY <3>3, <3>4
  <2>7. \A m : Whole(b, p, n, m) => Whole(b2, p, n, m)
    BY <2>6 DEF Whole
  <2> QED BY <2>1, <2>3, <2>7 DEF Item, n
<1> QED BY <1>1 DEF Layout

(* The item at W joins the row.                                             *)
LEMMA LayoutAdd ==
    ASSUME NEW b \in Mem, NEW R \in Nat, NEW W \in Nat,
           NEW D \in SUBSET Nat, NEW N \in [Nat -> Nat], Layout(b, R, W, D, N),
           (W % BLK_CNT) + ItemLen(b, W) <= BLK_CNT, NEW m \in Nat,
           SizeAt(b, W) = 0 => W % BLK_CNT # 0 /\ m = N[W],
           SizeAt(b, W) # 0 => m = N[W] + 1 /\ Whole(b, W, ItemLen(b, W), N[W])
    PROVE  Layout(b, R, W + ItemLen(b, W), D \cup {W + ItemLen(b, W)},
                  [N EXCEPT ![W + ItemLen(b, W)] = m])
<1> DEFINE n  == ItemLen(b, W)
           D2 == D \cup {W + n}
           N2 == [N EXCEPT ![W + n] = m]
<1>1. n \in Nat /\ n >= 1
  BY ItemLenType
<1>2. R \in D /\ W \in D /\ \A p \in D : p \in Nat /\ R <= p /\ p <= W
  BY DEF Layout
<1>3. N2[W + n] = m /\ \A p \in D : N2[p] = N[p]
  BY <1>1, <1>2
<1>4. Item(b, D2, N2, W)
  <2>1. \A q \in D2 : q <= W \/ q >= W + n
    BY <1>1, <1>2
  <2> QED BY <1>1, <1>2, <1>3, <2>1 DEF Item
<1>5. ASSUME NEW p \in D, p # W PROVE Item(b, D2, N2, p)
  <2>1. Item(b, D, N, p)
    BY <1>5 DEF Layout
  <2>2. ItemLen(b, p) \in Nat /\ p + ItemLen(b, p) \in D
    BY <1>2, <2>1, ItemLenType DEF Item
  <2>3. p + ItemLen(b, p) <= W
    BY <1>2, <2>2
  <2>4. \A q \in D2 : q <= p \/ q >= p + ItemLen(b, p)
    BY <1>1, <1>2, <2>1, <2>2, <2>3 DEF Item
  <2> QED BY <1>2, <1>3, <2>1, <2>2, <2>4 DEF Item
<1>6. R \in D2 /\ W + n \in D2 /\ \A p \in D2 : R <= p /\ p <= W + n
  BY <1>1, <1>2
<1>7. \A p \in D2 : p # W + n => Item(b, D2, N2, p)
  BY <1>4, <1>5
<1> QED BY <1>6, <1>7 DEF Layout

(* The first item leaves the row.                                           *)
LEMMA LayoutDrop ==
    ASSUME NEW b \in Mem, NEW R \in Nat, NEW W \in Nat,
           NEW D \in SUBSET Nat, NEW N \in [Nat -> Nat], Layout(b, R, W, D, N), R # W
    PROVE  /\ Item(b, D, N, R)
           /\ R + ItemLen(b, R) \in D
           /\ R + ItemLen(b, R) <= W
           /\ \A q \in D : q > R => q >= R + ItemLen(b, R)
           /\ Layout(b, R + ItemLen(b, R), W, {q \in D : q >= R + ItemLen(b, R)}, N)
<1> DEFINE n  == ItemLen(b, R)
           D2 == {q \in D : q >= R + n}
<1>1. n \in Nat /\ n >= 1
  BY ItemLenType
<1>2. R \in D /\ W \in D /\ \A p \in D : p \in Nat /\ R <= p /\ p <= W
  BY DEF Layout
<1>3. Item(b, D, N, R)
  BY <1>2 DEF Layout
<1>4. R + n \in D /\ \A q \in D : q <= R \/ q >= R + n
  BY <1>3 DEF Item
<1>5. R + n <= W
  BY <1>2, <1>4
<1>6. ASSUME NEW p \in D2, p # W PROVE Item(b, D2, N, p)
  <2>1. Item(b, D, N, p) /\ p \in Nat /\ p >= R + n
    BY <1>2, <1>6 DEF Layout
  <2>2. ItemLen(b, p) \in Nat /\ p + ItemLen(b, p) \in D
    BY <2>1, ItemLenType DEF Item
  <2>3. p + ItemLen(b, p) \in D2
    BY <1>1, <2>1, <2>2
  <2> QED BY <2>1, <2>3 DEF Item
<1>7. R + n \in D2 /\ W \in D2 /\ \A p \in D2 : R + n <= p /\ p <= W
  BY <1>1, <1>2, <1>4, <1>5
<1>8. Layout(b, R + n, W, D2, N)
  BY <1>6, <1>7 DEF Layout
<1>9. \A q \in D : q > R => q >= R + n
  BY <1>1, <1>2, <1>4
<1> QED BY <1>3, <1>4, <1>5, <1>8, <1>9
-----------------------------------------------------------------------------
(* The steps. *)

LEMMA InitIInv == Init => IInv
<1> SUFFICES ASSUME Init PROVE IInv
  OBVIOUS
<1>1. ZeroCell \in Cell
  BY RingNat DEF ZeroCell, Cell, MsgSize
<1>2. Typed
  BY <1>1, RingNat DEF Init, Typed, Mem, SeqNum, MsgSize
<1> DEFINE D == {0}
           N == [p \in Nat |-> 0]
<1>3. D \in SUBSET Nat /\ N \in [Nat -> Nat] /\ N[0] = 0 /\ 0 \in Nat
  OBVIOUS
<1>4. 0 % SeqMod = 0 /\ 0 % Ids = 0
  <2>1. 0 = SeqMod * 0 + 0 /\ 0 = Ids * 0 + 0 /\ 0 \in 0 .. SeqMod - 1 /\ 0 \in 0 .. Ids - 1
    BY RingNat
  <2> QED BY <2>1, RingNat, ModUnique
<1>5. Layout(blk, 0, 0, D, N)
  BY DEF Layout
<1> HIDE DEF D, N
<1>6. 0 \in D
  BY DEF D
<1>7. Indices(0, 0, 0, 0, D, N)
  BY <1>3, <1>4, <1>6, RingNat DEF Indices, Init
<1>8. InAlloc(blk, 0, 0, N[0]) /\ InFront(blk, 0, 0, 0, D)
  BY DEF InAlloc, InFront, Init
<1>9. Ring(0, 0, 0, 0, 0, D, N)
  BY <1>5, <1>7, <1>8 DEF Ring
<1> QED BY <1>2, <1>3, <1>9 DEF IInv

(* The check of Alloc, on a copy of read_idx that may be out of date, is    *)
(* about distances: nothing that wraps goes wrong.                          *)
LEMMA EnoughMeans ==
    ASSUME NEW W \in Nat, NEW I \in Nat, I <= W, W <= I + BLK_CNT, write_idx = W % SeqMod,
           NEW s, \E sz \in UserSizes : s = sz + HeaderSize
    PROVE  /\ s \in MsgSize /\ s # 0 /\ Blocks(s) \in Nat /\ Blocks(s) >= 1
           /\ Rewind(s) <=> Blocks(s) > Padding(W)
           /\ Need(s) \in Nat /\ Need(s) = Blocks(s) + IF Rewind(s) THEN Padding(W) ELSE 0
           /\ Enough(I % SeqMod, s) <=> W + Need(s) <= I + BLK_CNT
<1>1. PICK sz \in UserSizes : s = sz + HeaderSize
  OBVIOUS
<1>2. s \in MsgSize /\ s # 0 /\ s \div BlockSize + 1 + BLK_CNT <= HalfSeq
  BY <1>1, RingAssumption DEF HeaderSize
<1>3. ASSUME NEW x \in MsgSize, x # 0
      PROVE  /\ Blocks(x) \in Nat /\ Blocks(x) >= 1 /\ Blocks(x) <= (x \div BlockSize) + 1
             /\ x \div BlockSize \in Nat
  BY <1>3 DEF Blocks, BlockSize, MsgSize
<1>4. /\ Blocks(s) \in Nat /\ Blocks(s) >= 1 /\ Blocks(s) <= (s \div BlockSize) + 1
      /\ s \div BlockSize \in Nat
  BY <1>2, <1>3
<1>5. Padding(write_idx) = Padding(W) /\ Padding(W) \in 1 .. BLK_CNT
  BY CellOf
<1>6. (Rewind(s) <=> Blocks(s) > Padding(W))
      /\ Need(s) = Blocks(s) + IF Rewind(s) THEN Padding(W) ELSE 0
  BY <1>5 DEF Rewind, Need
<1>7. Need(s) \in Nat /\ Need(s) >= 1 /\ Need(s) <= HalfSeq
  BY <1>2, <1>4, <1>5, <1>6, RingNat
<1> DEFINE k == Need(s) - BLK_CNT
           d == I - (W + k)
<1>8. k \in 1 - SeqMod .. SeqMod - 1 /\ W \in Int /\ W + k \in Int
  BY <1>7, RingNat
<1>9. Add(write_idx, k) = (W + k) % SeqMod
  BY <1>8, RingNat, AddMod
<1>10. d \in 0 - HalfSeq .. HalfSeq - 1 /\ (W + k) + d = I
  BY <1>7, RingNat
<1>11. Signed(Sub(((W + k) + d) % SeqMod, (W + k) % SeqMod)) = d
  BY <1>8, <1>10, RingNat, SignedMod
<1>12. Enough(I % SeqMod, s) <=> d >= 0
  BY <1>9, <1>10, <1>11 DEF Enough
<1>13. d >= 0 <=> W + Need(s) <= I + BLK_CNT
  BY <1>7, RingNat
<1> QED BY <1>2, <1>4, <1>6, <1>7, <1>12, <1>13

(* The ids of the history count on.                                         *)
LEMMA NextIdMod ==
    ASSUME NEW n \in Nat
    PROVE  NextId(n % Ids) = (n + 1) % Ids /\ n % Ids \in 0 .. Ids - 1
<1>1. n \in Int /\ n % Ids \in 0 .. Ids - 1 /\ 1 \in Nat
  BY RingNat, ModDef
<1>2. Ids > 1
  BY RingAssumption
<1>3. /\ (n + 1) % Ids = IF (n % Ids) + 1 >= Ids THEN (n % Ids) + 1 - Ids ELSE (n % Ids) + 1
  BY <1>1, <1>2, RingNat, ModAdd
<1>4. CASE (n % Ids) + 1 >= Ids
  <2>1. (n % Ids) + 1 = Ids * 1 + 0 /\ 0 \in 0 .. Ids - 1 /\ (n % Ids) + 1 \in Int
    BY <1>1, <1>4, RingNat
  <2>2. ((n % Ids) + 1) % Ids = 0
    BY <2>1, RingNat, ModUnique
  <2>3. (n % Ids) + 1 - Ids = 0
    BY <1>1, <2>1, RingNat
  <2> QED BY <1>1, <1>3, <1>4, <2>2, <2>3 DEF NextId
<1>5. CASE (n % Ids) + 1 < Ids
  <2>1. (n % Ids) + 1 = Ids * 0 + ((n % Ids) + 1) /\ (n % Ids) + 1 \in 0 .. Ids - 1
        /\ (n % Ids) + 1 \in Int
    BY <1>1, <1>5, RingNat
  <2>2. ((n % Ids) + 1) % Ids = (n % Ids) + 1
    BY <2>1, RingNat, ModUnique
  <2>3. (n + 1) % Ids = (n % Ids) + 1
    BY <1>1, <1>3, <1>5, RingNat
  <2> QED BY <1>1, <2>2, <2>3 DEF NextId
<1> QED BY <1>1, <1>4, <1>5, RingNat

LEMMA Positions ==
    ASSUME NEW C \in Nat, NEW R \in Nat, NEW A \in Nat, NEW W \in Nat, NEW K \in Nat,
           NEW D \in SUBSET Nat, NEW N \in [Nat -> Nat], Ring(C, R, A, W, K, D, N)
    PROVE  /\ C <= R /\ R <= A /\ A <= W /\ W <= C + BLK_CNT /\ A \in D /\ R \in D /\ W \in D
           /\ read_idx_cach = C % SeqMod /\ read_idx = R % SeqMod
           /\ write_idx_atom = A % SeqMod /\ write_idx = W % SeqMod
           /\ got = N[R] % Ids /\ sent = N[W] % Ids
           /\ \A p \in D : R <= p /\ p <= W
BY DEF Ring, Indices, Layout

(* The writer's stores at or after W, up to a ring after R.                 *)
LEMMA StoreAhead ==
    ASSUME NEW C \in Nat, NEW R \in Nat, NEW A \in Nat, NEW W \in Nat, NEW K \in Nat,
           NEW D \in SUBSET Nat, NEW N \in [Nat -> Nat], Ring(C, R, A, W, K, D, N),
           Typed, blk' \in Mem, UNCHANGED reader,
           \A p \in R .. W - 1 : blk'[p % BLK_CNT] = blk[p % BLK_CNT]
    PROVE  Layout(blk, R, W, D, N)' /\ InFront(blk, R, A, K, D)'
<1>1. Layout(blk, R, W, D, N)'
  BY LayoutFrame DEF Ring, Typed
<1>2. rpc' = rpc /\ curr_write_idx' = curr_write_idx /\ InFront(blk, R, A, K, D)
  BY DEF reader, Ring
<1>3. ASSUME rpc # "idle" PROVE SizeAt(blk', R) = SizeAt(blk, R)
  <2>1. R < A /\ A <= W
    BY <1>2, <1>3, Positions DEF InFront
  <2>2. R \in R .. W - 1
    BY <2>1
  <2> QED BY <2>2 DEF SizeAt
<1> QED BY <1>1, <1>2, <1>3 DEF InFront

LEMMA Witness ==
    ASSUME NEW C \in Nat, NEW R \in Nat, NEW A \in Nat, NEW W \in Nat, NEW K \in Nat,
           NEW D \in SUBSET Nat, NEW N \in [Nat -> Nat],
           Typed', Ring(C, R, A, W, K, D, N)'
    PROVE  IInv'
BY DEF IInv

LEMMA AllocIInv == IInv /\ (\E sz \in UserSizes : Alloc(sz)) => IInv'
<1> SUFFICES ASSUME Typed, NEW C \in Nat, NEW R \in Nat, NEW A \in Nat, NEW W \in Nat,
                    NEW K \in Nat, NEW D \in SUBSET Nat, NEW N \in [Nat -> Nat],
                    Ring(C, R, A, W, K, D, N), NEW sz \in UserSizes, Alloc(sz)
             PROVE  IInv'
  BY DEF IInv
<1>1. /\ size' = sz + HeaderSize /\ UNCHANGED <<mem, reader, sent, got>>
      /\ wpc' = IF Enough(read_idx_cach, size') THEN AfterCheck(size') ELSE "load"
  BY DEF Alloc
<1>2. C <= W /\ W <= C + BLK_CNT /\ write_idx = W % SeqMod /\ read_idx_cach = C % SeqMod
  <2>1. /\ C <= R /\ R <= A /\ A <= W /\ W <= C + BLK_CNT
        /\ write_idx = W % SeqMod /\ read_idx_cach = C % SeqMod
    BY DEF Ring, Indices
  <2> QED BY <2>1
<1>3. \E x \in UserSizes : size' = x + HeaderSize
  BY <1>1
<1>4. /\ size' \in MsgSize /\ Blocks(size') \in Nat
      /\ Rewind(size') <=> Blocks(size') > Padding(W)
      /\ Need(size') = Blocks(size') + IF Rewind(size') THEN Padding(W) ELSE 0
      /\ Enough(C % SeqMod, size') <=> W + Need(size') <= C + BLK_CNT
  BY <1>2, <1>3, EnoughMeans
<1>5. Typed'
  BY <1>1, <1>4 DEF Typed, mem, reader, AfterCheck
<1>6. Layout(blk, R, W, D, N)' /\ Indices(C, R, A, W, D, N)' /\ InFront(blk, R, A, K, D)'
  BY <1>1 DEF Ring, Layout, Indices, InFront, mem, reader, SizeAt, Item, ItemLen, Whole, Padding
<1>7. InAlloc(blk, C, W, N[W])'
  <2>1. Padding(W) = BLK_CNT - (W % BLK_CNT) /\ W % BLK_CNT \in 0 .. BLK_CNT - 1
    BY CellOf DEF Padding
  <2>2. CASE ~Enough(C % SeqMod, size')
    BY <1>1, <1>2, <1>3, <2>2 DEF InAlloc
  <2>3. CASE Enough(C % SeqMod, size') /\ Rewind(size')
    BY <1>1, <1>2, <1>3, <1>4, <2>1, <2>3, RingNat DEF InAlloc, AfterCheck
  <2>4. CASE Enough(C % SeqMod, size') /\ ~Rewind(size')
    BY <1>1, <1>2, <1>3, <1>4, <2>1, <2>4, RingNat DEF InAlloc, AfterCheck
  <2> QED BY <2>2, <2>3, <2>4
<1>8. Ring(C, R, A, W, K, D, N)'
  BY <1>6, <1>7 DEF Ring
<1> QED BY <1>5, <1>8, Witness

LEMMA AllocLoadIInv == IInv /\ AllocLoad => IInv'
<1> SUFFICES ASSUME Typed, NEW C \in Nat, NEW R \in Nat, NEW A \in Nat, NEW W \in Nat,
                    NEW K \in Nat, NEW D \in SUBSET Nat, NEW N \in [Nat -> Nat],
                    Ring(C, R, A, W, K, D, N), AllocLoad
             PROVE  IInv'
  BY DEF IInv
<1>1. /\ wpc = "load" /\ read_idx_cach' = read_idx
      /\ UNCHANGED <<blk, write_idx, write_idx_atom, read_idx, reader, sent, got>>
      /\ \/ Enough(read_idx, size) /\ wpc' = AfterCheck(size) /\ size' = size
         \/ wpc' = "idle" /\ size' = 0
  BY DEF AllocLoad
<1>2. R <= W /\ W <= R + BLK_CNT /\ write_idx = W % SeqMod /\ read_idx = R % SeqMod
  <2>1. /\ C <= R /\ R <= A /\ A <= W /\ W <= C + BLK_CNT
        /\ write_idx = W % SeqMod /\ read_idx = R % SeqMod
    BY DEF Ring, Indices
  <2> QED BY <2>1, RingNat
<1>3. \E x \in UserSizes : size = x + HeaderSize
  BY <1>1 DEF Ring, InAlloc
<1>4. /\ size \in MsgSize /\ Blocks(size) \in Nat
      /\ Rewind(size) <=> Blocks(size) > Padding(W)
      /\ Need(size) = Blocks(size) + IF Rewind(size) THEN Padding(W) ELSE 0
      /\ Enough(R % SeqMod, size) <=> W + Need(size) <= R + BLK_CNT
  BY <1>2, <1>3, EnoughMeans
<1>5. Typed'
  <2>1. 0 \in MsgSize /\ AfterCheck(size) \in {"mark", "header"}
    BY DEF MsgSize, AfterCheck
  <2> QED BY <1>1, <2>1 DEF Typed, reader
<1>6. Layout(blk, R, W, D, N)' /\ Indices(R, R, A, W, D, N)' /\ InFront(blk, R, A, K, D)'
  BY <1>1, <1>2 DEF Ring, Layout, Indices, InFront, reader, SizeAt, Item, ItemLen, Whole, Padding
<1>7. InAlloc(blk, R, W, N[W])'
  <2>1. Padding(W) = BLK_CNT - (W % BLK_CNT) /\ W % BLK_CNT \in 0 .. BLK_CNT - 1
    BY CellOf DEF Padding
  <2>2. CASE wpc' = "idle"
    BY <2>2 DEF InAlloc
  <2>3. CASE Enough(R % SeqMod, size) /\ wpc' = AfterCheck(size) /\ size' = size
    BY <1>2, <1>3, <1>4, <2>1, <2>3, RingNat DEF InAlloc, AfterCheck
  <2> QED BY <1>1, <1>2, <2>2, <2>3
<1>8. Ring(R, R, A, W, K, D, N)'
  BY <1>6, <1>7 DEF Ring
<1> QED BY <1>5, <1>8, Witness

LEMMA StoreSize ==
    ASSUME NEW b \in Mem, NEW i \in 0 .. BLK_CNT - 1, NEW n \in MsgSize
    PROVE  /\ [b EXCEPT ![i].size = n] \in Mem
           /\ [b EXCEPT ![i].size = n][i].size = n
           /\ \A j \in 0 .. BLK_CNT - 1 : j # i => [b EXCEPT ![i].size = n][j] = b[j]
<1>1. b[i] \in Cell
  BY DEF Mem
<1>2. [b[i] EXCEPT !.size = n] \in Cell /\ [b[i] EXCEPT !.size = n].size = n
  BY <1>1 DEF Cell
<1> QED BY <1>2 DEF Mem

LEMMA AllocMarkIInv == IInv /\ AllocMark => IInv'
<1> SUFFICES ASSUME Typed, NEW C \in Nat, NEW R \in Nat, NEW A \in Nat, NEW W \in Nat,
                    NEW K \in Nat, NEW D \in SUBSET Nat, NEW N \in [Nat -> Nat],
                    Ring(C, R, A, W, K, D, N), AllocMark
             PROVE  IInv'
  BY DEF IInv
<1>1. /\ wpc = "mark" /\ wpc' = "rewind"
      /\ blk' = [blk EXCEPT ![write_idx % BLK_CNT].size = 0]
      /\ UNCHANGED <<write_idx, write_idx_atom, read_idx_cach, read_idx, size, reader, sent, got>>
  BY DEF AllocMark
<1>2. C <= R /\ R <= A /\ A <= W /\ write_idx = W % SeqMod
  BY DEF Ring, Indices
<1>3. /\ \E sz \in UserSizes : size = sz + HeaderSize
      /\ Blocks(size) > Padding(W) /\ W + Blocks(size) + Padding(W) <= C + BLK_CNT
  BY <1>1 DEF Ring, InAlloc
<1>4. /\ write_idx % BLK_CNT = W % BLK_CNT /\ W % BLK_CNT \in 0 .. BLK_CNT - 1
      /\ Padding(W) \in Nat /\ Padding(W) >= 1 /\ Blocks(size) \in Nat
  <2>1. Padding(W) \in 1 .. BLK_CNT /\ write_idx % BLK_CNT = W % BLK_CNT
        /\ W % BLK_CNT \in 0 .. BLK_CNT - 1
    BY <1>2, CellOf
  <2> QED BY <2>1, BlocksType, RingNat DEF Typed
<1>5. /\ blk' \in Mem /\ SizeAt(blk, W)' = 0
      /\ \A i \in 0 .. BLK_CNT - 1 : i # W % BLK_CNT => blk'[i] = blk[i]
  <2>1. 0 \in MsgSize /\ blk \in Mem
    BY DEF MsgSize, Typed
  <2>2. blk' = [blk EXCEPT ![W % BLK_CNT].size = 0]
    BY <1>1, <1>4
  <2>3. /\ [blk EXCEPT ![W % BLK_CNT].size = 0] \in Mem
        /\ [blk EXCEPT ![W % BLK_CNT].size = 0][W % BLK_CNT].size = 0
        /\ \A i \in 0 .. BLK_CNT - 1 : i # W % BLK_CNT =>
             [blk EXCEPT ![W % BLK_CNT].size = 0][i] = blk[i]
    BY <1>4, <2>1, StoreSize
  <2> QED BY <2>2, <2>3 DEF SizeAt
<1>6. ASSUME NEW p \in R .. W - 1 PROVE blk'[p % BLK_CNT] = blk[p % BLK_CNT]
  <2>1. p \in Nat /\ p < W /\ W < p + BLK_CNT
    BY <1>2, <1>3, <1>4, RingNat
  <2>2. p % BLK_CNT # W % BLK_CNT /\ p % BLK_CNT \in 0 .. BLK_CNT - 1
    BY <2>1, CellApart, CellOf
  <2> QED BY <1>5, <2>2
<1>7. Layout(blk, R, W, D, N)' /\ InFront(blk, R, A, K, D)'
  BY <1>1, <1>5, <1>6, StoreAhead
<1>8. Indices(C, R, A, W, D, N)'
  BY <1>1 DEF Ring, Indices
<1>9. InAlloc(blk, C, W, N[W])'
  BY <1>1, <1>3, <1>5 DEF InAlloc, Padding
<1>10. Typed'
  BY <1>1, <1>5 DEF Typed, reader
<1>11. Ring(C, R, A, W, K, D, N)'
  BY <1>7, <1>8, <1>9 DEF Ring
<1> QED BY <1>10, <1>11, Witness

LEMMA AllocRewindIInv == IInv /\ AllocRewind => IInv'
<1> SUFFICES ASSUME Typed, NEW C \in Nat, NEW R \in Nat, NEW A \in Nat, NEW W \in Nat,
                    NEW K \in Nat, NEW D \in SUBSET Nat, NEW N \in [Nat -> Nat],
                    Ring(C, R, A, W, K, D, N), AllocRewind
             PROVE  IInv'
  BY DEF IInv
<1> DEFINE W2 == W + Padding(W)
           D2 == D \cup {W2}
           N2 == [N EXCEPT ![W2] = N[W]]
<1>1. /\ wpc = "rewind" /\ wpc' = "header" /\ write_idx' = Add(write_idx, Padding(write_idx))
      /\ UNCHANGED <<blk, write_idx_atom, read_idx_cach, read_idx, size, reader, sent, got>>
  BY DEF AllocRewind
<1>2. /\ C <= R /\ R <= A /\ A <= W /\ W <= C + BLK_CNT /\ A \in D /\ write_idx = W % SeqMod
      /\ Indices(C, R, A, W, D, N) /\ Layout(blk, R, W, D, N)
  BY DEF Ring, Indices
<1>3. /\ \E sz \in UserSizes : size = sz + HeaderSize
      /\ Blocks(size) > Padding(W) /\ W + Blocks(size) + Padding(W) <= C + BLK_CNT
      /\ SizeAt(blk, W) = 0
  BY <1>1 DEF Ring, InAlloc
<1>4. /\ Padding(W) \in Nat /\ Padding(W) >= 1 /\ Padding(W) <= BLK_CNT
      /\ Padding(write_idx) = Padding(W) /\ Blocks(size) \in Nat
  <2>1. Padding(W) \in 1 .. BLK_CNT /\ Padding(write_idx) = Padding(W)
    BY <1>2, CellOf
  <2> QED BY <2>1, BlocksType, RingNat DEF Typed
<1>5. W % BLK_CNT \in 0 .. BLK_CNT - 1 /\ W % BLK_CNT # 0 /\ (W % BLK_CNT) + Padding(W) = BLK_CNT
  <2>1. W % BLK_CNT \in 0 .. BLK_CNT - 1 /\ Padding(W) = BLK_CNT - (W % BLK_CNT)
    BY CellOf DEF Padding
  <2> QED BY <1>2, <1>3, <1>4, <2>1, RingNat
<1>6. W2 % BLK_CNT = 0
  BY <1>5, CellPad
<1>7. write_idx' = W2 % SeqMod
  <2>1. Padding(W) \in 1 - SeqMod .. SeqMod - 1 /\ W \in Int
    BY <1>4, RingNat
  <2> QED BY <1>1, <1>2, <1>4, <2>1, RingNat, AddMod
<1>8. ItemLen(blk, W) = Padding(W) /\ N[W] \in Nat /\ blk \in Mem
  BY <1>3 DEF ItemLen, Typed
<1>9. Layout(blk, R, W2, D2, N2)
  <2>1. /\ (W % BLK_CNT) + ItemLen(blk, W) <= BLK_CNT
        /\ SizeAt(blk, W) = 0 => W % BLK_CNT # 0 /\ N[W] = N[W]
        /\ SizeAt(blk, W) # 0 => N[W] = N[W] + 1 /\ Whole(blk, W, ItemLen(blk, W), N[W])
    BY <1>3, <1>5, <1>8, RingNat
  <2>2. Layout(blk, R, W + ItemLen(blk, W), D \cup {W + ItemLen(blk, W)},
               [N EXCEPT ![W + ItemLen(blk, W)] = N[W]])
    BY <1>2, <1>8, <2>1, LayoutAdd
  <2> QED BY <1>8, <2>2
<1>10. /\ W2 \in Nat /\ D2 \in SUBSET Nat /\ N2 \in [Nat -> Nat] /\ N2[W2] = N[W]
       /\ N2[R] = N[R] /\ A \in D2 /\ A <= W2 /\ W2 <= C + BLK_CNT
  <2>1. W2 \in Nat /\ R < W2 /\ A <= W2 /\ W2 <= C + BLK_CNT
    BY <1>2, <1>3, <1>4, RingNat
  <2>2. D2 \in SUBSET Nat /\ A \in D2
    BY <1>2, <2>1
  <2>3. N2 \in [Nat -> Nat] /\ N2[W2] = N[W] /\ N2[R] = N[R]
    BY <1>8, <2>1
  <2> QED BY <2>1, <2>2, <2>3
<1> HIDE DEF W2, D2, N2
<1>11. Indices(C, R, A, W2, D2, N2)'
  BY <1>1, <1>2, <1>7, <1>10 DEF Indices
<1>12. InAlloc(blk, C, W2, N2[W2])'
  <2>1. (W2 % BLK_CNT) + Blocks(size) <= BLK_CNT /\ W2 + Blocks(size) <= C + BLK_CNT
    BY <1>2, <1>3, <1>4, <1>6, RingNat DEF W2
  <2> QED BY <1>1, <1>3, <2>1 DEF InAlloc
<1>13. InFront(blk, R, A, K, D2)'
  BY <1>1 DEF Ring, InFront, reader, SizeAt, D2
<1>14. Layout(blk, R, W2, D2, N2)'
  BY <1>1, <1>9 DEF Layout, Item, Whole, SizeAt, ItemLen, Padding
<1>15. Typed'
  <2>1. W2 % SeqMod \in SeqNum
    BY <1>10, CellOf
  <2> QED BY <1>1, <1>7, <2>1 DEF Typed, reader
<1>16. Ring(C, R, A, W2, K, D2, N2)'
  BY <1>11, <1>12, <1>13, <1>14 DEF Ring
<1> QED BY <1>10, <1>15, <1>16, Witness

LEMMA AllocHeaderIInv == IInv /\ AllocHeader => IInv'
<1> SUFFICES ASSUME Typed, NEW C \in Nat, NEW R \in Nat, NEW A \in Nat, NEW W \in Nat,
                    NEW K \in Nat, NEW D \in SUBSET Nat, NEW N \in [Nat -> Nat],
                    Ring(C, R, A, W, K, D, N), AllocHeader
             PROVE  IInv'
  BY DEF IInv
<1>1. /\ wpc = "header" /\ wpc' = "fill"
      /\ blk' = [blk EXCEPT ![write_idx % BLK_CNT].size = size]
      /\ UNCHANGED <<write_idx, write_idx_atom, read_idx_cach, read_idx, size, reader, sent, got>>
  BY DEF AllocHeader
<1>2. C <= R /\ R <= A /\ A <= W /\ W <= C + BLK_CNT /\ write_idx = W % SeqMod
  BY DEF Ring, Indices
<1>3. /\ \E sz \in UserSizes : size = sz + HeaderSize
      /\ (W % BLK_CNT) + Blocks(size) <= BLK_CNT /\ W + Blocks(size) <= C + BLK_CNT
  BY <1>1 DEF Ring, InAlloc
<1>4. Blocks(size) \in Nat /\ Blocks(size) >= 1 /\ size \in MsgSize
  <2>1. C <= W
    BY <1>2
  <2> QED BY <1>2, <1>3, <2>1, EnoughMeans
<1>5. write_idx % BLK_CNT = W % BLK_CNT /\ W % BLK_CNT \in 0 .. BLK_CNT - 1
  BY <1>2, CellOf
<1>6. /\ blk' \in Mem /\ SizeAt(blk, W)' = size
      /\ \A i \in 0 .. BLK_CNT - 1 : i # W % BLK_CNT => blk'[i] = blk[i]
  <2>1. blk \in Mem
    BY DEF Typed
  <2>2. blk' = [blk EXCEPT ![W % BLK_CNT].size = size]
    BY <1>1, <1>5
  <2>3. /\ [blk EXCEPT ![W % BLK_CNT].size = size] \in Mem
        /\ [blk EXCEPT ![W % BLK_CNT].size = size][W % BLK_CNT].size = size
        /\ \A i \in 0 .. BLK_CNT - 1 : i # W % BLK_CNT =>
             [blk EXCEPT ![W % BLK_CNT].size = size][i] = blk[i]
    BY <1>4, <1>5, <2>1, StoreSize
  <2> QED BY <2>2, <2>3 DEF SizeAt
<1>7. ASSUME NEW p \in R .. W - 1 PROVE blk'[p % BLK_CNT] = blk[p % BLK_CNT]
  <2>1. p \in Nat /\ p < W /\ W < p + BLK_CNT
    BY <1>2, <1>3, <1>4, RingNat
  <2>2. p % BLK_CNT # W % BLK_CNT /\ p % BLK_CNT \in 0 .. BLK_CNT - 1
    BY <2>1, CellApart, CellOf
  <2> QED BY <1>6, <2>2
<1>8. Layout(blk, R, W, D, N)' /\ InFront(blk, R, A, K, D)'
  BY <1>1, <1>6, <1>7, StoreAhead
<1>9. Indices(C, R, A, W, D, N)'
  BY <1>1 DEF Ring, Indices
<1>10. InAlloc(blk, C, W, N[W])'
  BY <1>1, <1>3, <1>6 DEF InAlloc
<1>11. Typed'
  BY <1>1, <1>6 DEF Typed, reader
<1>12. Ring(C, R, A, W, K, D, N)'
  BY <1>8, <1>9, <1>10 DEF Ring
<1> QED BY <1>11, <1>12, Witness

LEMMA FillIInv == IInv /\ Fill => IInv'
<1> SUFFICES ASSUME Typed, NEW C \in Nat, NEW R \in Nat, NEW A \in Nat, NEW W \in Nat,
                    NEW K \in Nat, NEW D \in SUBSET Nat, NEW N \in [Nat -> Nat],
                    Ring(C, R, A, W, K, D, N), Fill
             PROVE  IInv'
  BY DEF IInv
<1> DEFINE at == W % BLK_CNT
<1>0. PICK n \in Nat : n = Blocks(size)
  BY BlocksType DEF Typed
<1>1. /\ wpc = "fill" /\ wpc' = "ready" /\ size' = 0
      /\ UNCHANGED <<write_idx, write_idx_atom, read_idx_cach, read_idx, reader, sent, got>>
  BY DEF Fill
<1>2. C <= R /\ R <= A /\ A <= W /\ W <= C + BLK_CNT /\ write_idx = W % SeqMod
      /\ sent = N[W] % Ids
  BY DEF Ring, Indices
<1>3. /\ \E sz \in UserSizes : size = sz + HeaderSize
      /\ at + n <= BLK_CNT /\ W + n <= C + BLK_CNT /\ SizeAt(blk, W) = size
  BY <1>0, <1>1 DEF Ring, InAlloc
<1>4. n \in Nat /\ n >= 1 /\ size \in MsgSize /\ size # 0
  <2>1. C <= W
    BY <1>2
  <2> QED BY <1>0, <1>2, <1>3, <2>1, EnoughMeans
<1>5. write_idx % BLK_CNT = at /\ at \in 0 .. BLK_CNT - 1
  BY <1>2, CellOf
<1>6. blk' = [i \in 0 .. BLK_CNT - 1 |->
                IF i \in at .. at + n - 1
                THEN [id |-> sent, part |-> i - at, size |-> IF i = at THEN blk[i].size ELSE 1]
                ELSE blk[i]]
  BY <1>0, <1>5 DEF Fill
<1> HIDE DEF at
<1>7. blk' \in Mem
  <2>1. ASSUME NEW i \in 0 .. BLK_CNT - 1, i \in at .. at + n - 1
        PROVE  [id |-> sent, part |-> i - at, size |-> IF i = at THEN blk[i].size ELSE 1] \in Cell
    <3>1. blk[i].size \in MsgSize /\ 1 \in MsgSize /\ sent \in 0 .. Ids - 1
      <4>1. blk[i] \in Cell /\ sent \in 0 .. Ids - 1
        BY DEF Typed, Mem
      <4>2. blk[i].size \in MsgSize
        BY <4>1 DEF Cell
      <4>3. 1 \in MsgSize
        BY DEF MsgSize
      <4> QED BY <4>1, <4>2, <4>3
    <3>2. i - at \in 0 .. BLK_CNT - 1
      BY <1>5, <2>1, RingNat
    <3> QED BY <3>1, <3>2 DEF Cell
  <2>2. \A i \in 0 .. BLK_CNT - 1 : blk[i] \in Cell
    BY DEF Typed, Mem
  <2> QED BY <1>6, <2>1, <2>2 DEF Mem
<1>8. ASSUME NEW p \in R .. W - 1 PROVE blk'[p % BLK_CNT] = blk[p % BLK_CNT]
  <2>1. p \in Nat /\ p < W /\ R <= p
    BY <1>2
  <2>2. p % BLK_CNT \in 0 .. BLK_CNT - 1
    BY <2>1, CellOf
  <2>3. ASSUME p % BLK_CNT \in at .. at + n - 1 PROVE FALSE
    <3> DEFINE j == (p % BLK_CNT) - at
    <3>1. j \in Nat /\ j < n /\ at + j < BLK_CNT /\ at + j = p % BLK_CNT
      BY <1>3, <1>4, <1>5, <2>2, <2>3, RingNat
    <3> HIDE DEF j
    <3>2. (W + j) % BLK_CNT = at + j
      BY <3>1, CellNext DEF at
    <3>3. W + j \in Nat /\ p < W + j /\ W + j < p + BLK_CNT
      BY <1>2, <1>3, <1>4, <2>1, <3>1, RingNat
    <3>4. p % BLK_CNT # (W + j) % BLK_CNT
      BY <2>1, <3>3, CellApart
    <3> QED BY <3>1, <3>2, <3>4
  <2> QED BY <1>6, <2>2, <2>3
<1>9. Layout(blk, R, W, D, N)' /\ InFront(blk, R, A, K, D)'
  BY <1>1, <1>7, <1>8, StoreAhead
<1>10. SizeAt(blk, W)' = size
  <2>1. at \in at .. at + n - 1
    BY <1>4, <1>5
  <2>2. blk'[at].size = blk[at].size
    BY <1>5, <1>6, <2>1
  <2> QED BY <1>3, <2>2 DEF SizeAt, at
<1>11. ItemLen(blk, W)' = n
  BY <1>0, <1>4, <1>10 DEF ItemLen
<1>12. Whole(blk, W, n, N[W])'
  <2>1. ASSUME NEW j \in 0 .. n - 1
        PROVE  blk'[at + j].id = N[W] % Ids /\ blk'[at + j].part = j
    <3>1. at + j \in 0 .. BLK_CNT - 1 /\ at + j \in at .. at + n - 1 /\ (at + j) - at = j
      BY <1>3, <1>4, <1>5, RingNat
    <3> QED BY <1>2, <1>6, <3>1
  <2> QED BY <2>1 DEF Whole, at
<1>13. InAlloc(blk, C, W, N[W])'
  BY <1>1, <1>3, <1>4, <1>10, <1>11, <1>12 DEF InAlloc, at
<1>14. Indices(C, R, A, W, D, N)'
  BY <1>1 DEF Ring, Indices
<1>15. Typed'
  <2>1. 0 \in MsgSize
    BY DEF MsgSize
  <2> QED BY <1>1, <1>7, <2>1 DEF Typed, reader
<1>16. Ring(C, R, A, W, K, D, N)'
  BY <1>9, <1>13, <1>14 DEF Ring
<1> QED BY <1>15, <1>16, Witness

LEMMA PushIInv == IInv /\ Push => IInv'
<1> SUFFICES ASSUME Typed, NEW C \in Nat, NEW R \in Nat, NEW A \in Nat, NEW W \in Nat,
                    NEW K \in Nat, NEW D \in SUBSET Nat, NEW N \in [Nat -> Nat],
                    Ring(C, R, A, W, K, D, N), Push
             PROVE  IInv'
  BY DEF IInv
<1>0. PICK n \in Nat : n = ItemLen(blk, W) /\ n >= 1
  BY ItemLenType DEF Typed
<1> DEFINE W2 == W + n
           D2 == D \cup {W2}
           N2 == [N EXCEPT ![W2] = N[W] + 1]
<1>1. /\ wpc = "ready" /\ wpc' = "commit" /\ sent' = NextId(sent)
      /\ write_idx' = Add(write_idx, Blocks(Header(write_idx).size))
      /\ UNCHANGED <<blk, write_idx_atom, read_idx_cach, read_idx, size, reader, got>>
  BY DEF Push
<1>2. /\ C <= R /\ R <= A /\ A <= W /\ W <= C + BLK_CNT /\ A \in D /\ write_idx = W % SeqMod
      /\ sent = N[W] % Ids
      /\ Indices(C, R, A, W, D, N) /\ Layout(blk, R, W, D, N)
  BY DEF Ring, Indices
<1>3. /\ SizeAt(blk, W) # 0
      /\ (W % BLK_CNT) + n <= BLK_CNT /\ W + n <= C + BLK_CNT
      /\ Whole(blk, W, n, N[W])
  BY <1>0, <1>1 DEF Ring, InAlloc
<1>4. n \in Nat /\ n >= 1 /\ n = Blocks(SizeAt(blk, W)) /\ blk \in Mem
  BY <1>0, <1>3, ItemLenType DEF Typed
<1>5. Header(write_idx).size = SizeAt(blk, W) /\ W % BLK_CNT \in 0 .. BLK_CNT - 1
  <2>1. write_idx % BLK_CNT = W % BLK_CNT /\ W % BLK_CNT \in 0 .. BLK_CNT - 1
    BY <1>2, CellOf
  <2> QED BY <2>1 DEF Header, SizeAt
<1>6. write_idx' = W2 % SeqMod
  <2>1. n <= BLK_CNT
    BY <1>3, <1>4, <1>5, RingNat
  <2>2. n \in 1 - SeqMod .. SeqMod - 1 /\ W \in Int
    BY <1>4, <2>1, RingNat
  <2>3. Add(W % SeqMod, n) = (W + n) % SeqMod
    BY <2>2, RingNat, AddMod
  <2> QED BY <1>1, <1>2, <1>4, <1>5, <2>3
<1>7. N[W] \in Nat /\ N[W] + 1 \in Nat
  OBVIOUS
<1>8. Layout(blk, R, W2, D2, N2)
  <2>1. /\ SizeAt(blk, W) = 0 => W % BLK_CNT # 0 /\ N[W] + 1 = N[W]
        /\ SizeAt(blk, W) # 0 => N[W] + 1 = N[W] + 1 /\ Whole(blk, W, ItemLen(blk, W), N[W])
        /\ (W % BLK_CNT) + ItemLen(blk, W) <= BLK_CNT
    BY <1>0, <1>3
  <2>2. Layout(blk, R, W + ItemLen(blk, W), D \cup {W + ItemLen(blk, W)},
               [N EXCEPT ![W + ItemLen(blk, W)] = N[W] + 1])
    BY <1>2, <1>4, <1>7, <2>1, LayoutAdd
  <2> QED BY <1>0, <2>2
<1>9. /\ W2 \in Nat /\ D2 \in SUBSET Nat /\ N2 \in [Nat -> Nat] /\ N2[W2] = N[W] + 1
      /\ N2[R] = N[R] /\ A \in D2 /\ A <= W2 /\ W2 <= C + BLK_CNT
  <2>1. W2 \in Nat /\ R < W2 /\ A <= W2 /\ W2 <= C + BLK_CNT
    BY <1>2, <1>3, <1>4, RingNat
  <2>2. D2 \in SUBSET Nat /\ A \in D2
    BY <1>2, <2>1
  <2>3. N2 \in [Nat -> Nat] /\ N2[W2] = N[W] + 1 /\ N2[R] = N[R]
    BY <1>7, <2>1
  <2> QED BY <2>1, <2>2, <2>3
<1>10. sent' = N2[W2] % Ids /\ sent' \in 0 .. Ids - 1
  <2>1. sent' = (N[W] + 1) % Ids
    BY <1>1, <1>2, <1>7, NextIdMod
  <2>2. (N[W] + 1) % Ids \in 0 .. Ids - 1
    BY <1>7, NextIdMod
  <2> QED BY <1>9, <2>1, <2>2
<1> HIDE DEF W2, D2, N2
<1>11. Indices(C, R, A, W2, D2, N2)'
  BY <1>1, <1>2, <1>6, <1>9, <1>10 DEF Indices
<1>12. InAlloc(blk, C, W2, N2[W2])'
  BY <1>1 DEF InAlloc
<1>13. InFront(blk, R, A, K, D2)'
  BY <1>1 DEF Ring, InFront, reader, SizeAt, D2
<1>14. Layout(blk, R, W2, D2, N2)'
  BY <1>1, <1>8 DEF Layout, Item, Whole, SizeAt, ItemLen, Padding
<1>15. Typed'
  <2>1. W2 % SeqMod \in SeqNum
    BY <1>9, CellOf
  <2> QED BY <1>1, <1>6, <1>10, <2>1 DEF Typed, reader
<1>16. Ring(C, R, A, W2, K, D2, N2)'
  BY <1>11, <1>12, <1>13, <1>14 DEF Ring
<1> QED BY <1>9, <1>15, <1>16, Witness

LEMMA PushCommitIInv == IInv /\ PushCommit => IInv'
<1> SUFFICES ASSUME Typed, NEW C \in Nat, NEW R \in Nat, NEW A \in Nat, NEW W \in Nat,
                    NEW K \in Nat, NEW D \in SUBSET Nat, NEW N \in [Nat -> Nat],
                    Ring(C, R, A, W, K, D, N), PushCommit
             PROVE  IInv'
  BY DEF IInv
<1>1. /\ wpc = "commit" /\ wpc' = "idle" /\ write_idx_atom' = write_idx
      /\ UNCHANGED <<blk, write_idx, read_idx_cach, read_idx, size, reader, sent, got>>
  BY DEF PushCommit
<1>2. Typed'
  BY <1>1 DEF Typed, reader
<1>3. Layout(blk, R, W, D, N)'
  BY <1>1 DEF Ring, Layout, Item, Whole, SizeAt, ItemLen, Padding
<1>4. R <= A /\ A <= W /\ W \in D
  BY DEF Ring, Indices, Layout
<1>5. Indices(C, R, W, W, D, N)'
  BY <1>1, <1>4 DEF Ring, Indices
<1>6. InAlloc(blk, C, W, N[W])'
  BY <1>1 DEF InAlloc
<1>7. InFront(blk, R, W, K, D)'
  BY <1>1, <1>4 DEF Ring, InFront, reader, SizeAt
<1>8. Ring(C, R, W, W, K, D, N)'
  BY <1>3, <1>5, <1>6, <1>7 DEF Ring
<1> QED BY <1>2, <1>8, Witness

LEMMA FrontIInv == IInv /\ (Front \/ FrontSize) => IInv'
<1> SUFFICES ASSUME Typed, NEW C \in Nat, NEW R \in Nat, NEW A \in Nat, NEW W \in Nat,
                    NEW K \in Nat, NEW D \in SUBSET Nat, NEW N \in [Nat -> Nat],
                    Ring(C, R, A, W, K, D, N), Front \/ FrontSize
             PROVE  IInv'
  BY DEF IInv
<1>1. UNCHANGED <<mem, writer, sent, got>>
  BY DEF Front, FrontSize
<1>2. /\ R <= A /\ A \in D /\ read_idx = R % SeqMod /\ write_idx_atom = A % SeqMod
      /\ Layout(blk, R, W, D, N) /\ Indices(C, R, A, W, D, N)
      /\ InAlloc(blk, C, W, N[W]) /\ InFront(blk, R, A, K, D)
  BY DEF Ring, Indices
<1>3. Layout(blk, R, W, D, N)' /\ Indices(C, R, A, W, D, N)' /\ InAlloc(blk, C, W, N[W])'
  BY <1>1, <1>2 DEF mem, writer, Layout, Indices, InAlloc, SizeAt, Item, ItemLen, Whole, Padding
<1>4. 0 \in SeqNum
  BY RingNat DEF SeqNum
<1>5. CASE Front
  <2>1. /\ read_idx # write_idx_atom /\ rpc' = "size" /\ curr_write_idx' = write_idx_atom
    BY <1>5 DEF Front
  <2>2. R < A
    BY <1>2, <2>1
  <2>3. InFront(blk, R, A, A, D)'
    BY <1>2, <2>1, <2>2 DEF InFront
  <2>4. Typed'
    BY <1>1, <2>1 DEF Typed, mem, writer
  <2>5. Ring(C, R, A, W, A, D, N)'
    BY <1>3, <2>3 DEF Ring
  <2> QED BY <2>4, <2>5, Witness
<1>6. CASE FrontSize
  <2>1. Header(read_idx).size = SizeAt(blk, R)
    <3>1. read_idx % BLK_CNT = R % BLK_CNT
      BY <1>2, CellOf
    <3> QED BY <3>1 DEF Header, SizeAt
  <2>2. /\ rpc = "size"
        /\ \/ SizeAt(blk, R) = 0 /\ rpc' = "skip" /\ curr_write_idx' = curr_write_idx
           \/ SizeAt(blk, R) # 0 /\ rpc' = "msg" /\ curr_write_idx' = 0
    BY <1>6, <2>1 DEF FrontSize
  <2>3. SizeAt(blk, R)' = SizeAt(blk, R)
    BY <1>1 DEF mem, SizeAt
  <2>4. InFront(blk, R, A, K, D)'
    BY <1>2, <2>2, <2>3 DEF InFront
  <2>5. Typed'
    BY <1>1, <1>4, <2>2 DEF Typed, mem, writer
  <2>6. Ring(C, R, A, W, K, D, N)'
    BY <1>3, <2>4 DEF Ring
  <2> QED BY <2>5, <2>6, Witness
<1> QED BY <1>5, <1>6

(* The reader leaves an item behind: padding it skips, or a message.        *)
LEMMA Advance ==
    ASSUME Typed, NEW C \in Nat, NEW R \in Nat, NEW A \in Nat, NEW W \in Nat,
           NEW K \in Nat, NEW D \in SUBSET Nat, NEW N \in [Nat -> Nat],
           Ring(C, R, A, W, K, D, N), R < A
    PROVE  \E n \in Nat, D2 \in SUBSET Nat :
             /\ n = ItemLen(blk, R) /\ D2 = {q \in D : q >= R + n}
             /\ n >= 1 /\ n <= BLK_CNT /\ R + n <= A /\ R + n \in D /\ A \in D2
             /\ Item(blk, D, N, R) /\ \A q \in D : q > R => q >= R + n
             /\ Layout(blk, R + n, W, D2, N)
             /\ Add(R % SeqMod, n) = (R + n) % SeqMod /\ (R + n) % SeqMod \in SeqNum
<1>1. A <= W /\ A \in D /\ Layout(blk, R, W, D, N) /\ blk \in Mem
  BY DEF Ring, Indices, Typed
<1>2. PICK n \in Nat : n = ItemLen(blk, R) /\ n >= 1
  BY <1>1, ItemLenType
<1>3. PICK D2 \in SUBSET Nat : D2 = {q \in D : q >= R + n}
  OBVIOUS
<1>4. R # W
  BY <1>1
<1>5. /\ Item(blk, D, N, R) /\ R + n \in D /\ R + n <= W
      /\ \A q \in D : q > R => q >= R + n
      /\ Layout(blk, R + n, W, D2, N)
  <2>1. /\ Item(blk, D, N, R)
        /\ R + ItemLen(blk, R) \in D
        /\ R + ItemLen(blk, R) <= W
        /\ \A q \in D : q > R => q >= R + ItemLen(blk, R)
        /\ Layout(blk, R + ItemLen(blk, R), W, {q \in D : q >= R + ItemLen(blk, R)}, N)
    BY <1>1, <1>4, LayoutDrop
  <2> QED BY <1>2, <1>3, <2>1
<1>6. R + n <= A /\ A \in D2
  BY <1>1, <1>3, <1>5
<1>7. n <= BLK_CNT
  <2>1. (R % BLK_CNT) + n <= BLK_CNT /\ R % BLK_CNT \in 0 .. BLK_CNT - 1
    BY <1>2, <1>5, CellOf DEF Item
  <2> QED BY <2>1, RingNat
<1>8. Add(R % SeqMod, n) = (R + n) % SeqMod
  <2>1. n \in 1 - SeqMod .. SeqMod - 1 /\ R \in Int
    BY <1>7, RingNat
  <2> QED BY <2>1, RingNat, AddMod
<1>9. (R + n) % SeqMod \in SeqNum
  <2>1. R + n \in Nat
    OBVIOUS
  <2> QED BY <2>1, CellOf
<1> QED BY <1>2, <1>3, <1>5, <1>6, <1>7, <1>8, <1>9

LEMMA FrontSkipIInv == IInv /\ FrontSkip => IInv'
<1> SUFFICES ASSUME Typed, NEW C \in Nat, NEW R \in Nat, NEW A \in Nat, NEW W \in Nat,
                    NEW K \in Nat, NEW D \in SUBSET Nat, NEW N \in [Nat -> Nat],
                    Ring(C, R, A, W, K, D, N), FrontSkip
             PROVE  IInv'
  BY DEF IInv
<1>1. /\ rpc = "skip" /\ read_idx' = Add(read_idx, Padding(read_idx))
      /\ rpc' = (IF read_idx' = curr_write_idx THEN "idle" ELSE "msg")
      /\ curr_write_idx' = 0
      /\ UNCHANGED <<blk, write_idx, write_idx_atom, read_idx_cach, writer, sent, got>>
  BY DEF FrontSkip
<1>2. /\ C <= R /\ R <= A /\ A <= W /\ W <= C + BLK_CNT /\ A \in D /\ read_idx = R % SeqMod
      /\ got = N[R] % Ids
      /\ Indices(C, R, A, W, D, N) /\ InAlloc(blk, C, W, N[W]) /\ blk \in Mem
  BY DEF Ring, Indices, Typed
<1>3. /\ R < A /\ K \in D /\ R < K /\ K <= A /\ curr_write_idx = K % SeqMod
      /\ SizeAt(blk, R) = 0
  BY <1>1 DEF Ring, InFront
<1>4. PICK n \in Nat, D2 \in SUBSET Nat :
             /\ n = ItemLen(blk, R) /\ D2 = {q \in D : q >= R + n}
             /\ n >= 1 /\ n <= BLK_CNT /\ R + n <= A /\ R + n \in D /\ A \in D2
             /\ Item(blk, D, N, R) /\ \A q \in D : q > R => q >= R + n
             /\ Layout(blk, R + n, W, D2, N)
             /\ Add(R % SeqMod, n) = (R + n) % SeqMod /\ (R + n) % SeqMod \in SeqNum
  BY <1>3, Advance
<1>5. n = Padding(R) /\ Padding(read_idx) = Padding(R)
  BY <1>2, <1>3, <1>4, CellOf DEF ItemLen
<1>6. read_idx' = (R + n) % SeqMod
  BY <1>1, <1>2, <1>4, <1>5
<1>7. N[R + n] = N[R] /\ R % BLK_CNT # 0
  BY <1>3, <1>4 DEF Item
<1>8. (R + n) % BLK_CNT = 0
  BY <1>5, <1>7, CellPad
<1>9. Layout(blk, R + n, W, D2, N)'
  <2>1. blk' = blk /\ Layout(blk, R + n, W, D2, N)
    BY <1>1, <1>4
  <2> QED BY ONLY <2>1 DEF Layout, Item, Whole, SizeAt, ItemLen, Padding
<1>10. R + n \in Nat /\ C <= R + n
  BY <1>2
<1>11. Indices(C, R + n, A, W, D2, N)'
  BY <1>1, <1>2, <1>4, <1>6, <1>7, <1>10 DEF Indices
<1>12. InAlloc(blk, C, W, N[W])'
  BY <1>1, <1>2 DEF InAlloc, writer, SizeAt, ItemLen, Whole, Padding
<1>13. R + n <= K
  BY <1>3, <1>4
<1>14. ASSUME read_idx' # curr_write_idx
       PROVE  R + n < A /\ SizeAt(blk, R + n) # 0
  <2>1. R + n # K
    BY <1>3, <1>6, <1>14
  <2>2. R + n < A
    BY <1>3, <1>13, <2>1
  <2>3. R + n \in D2 /\ R + n # W
    BY <1>2, <1>4, <2>2
  <2>4. Item(blk, D2, N, R + n)
    BY <1>4, <2>3 DEF Layout
  <2> QED BY <1>8, <2>2, <2>4 DEF Item
<1>15. InFront(blk, R + n, A, K, D2)'
  BY <1>1, <1>14 DEF InFront, SizeAt
<1>16. Typed'
  <2>1. 0 \in SeqNum
    BY RingNat DEF SeqNum
  <2> QED BY <1>1, <1>4, <1>6, <2>1 DEF Typed, writer
<1>17. Ring(C, R + n, A, W, K, D2, N)'
  BY <1>9, <1>11, <1>12, <1>15 DEF Ring
<1> QED BY <1>4, <1>10, <1>16, <1>17, Witness

LEMMA PopIInv == IInv /\ Pop => IInv'
<1> SUFFICES ASSUME Typed, NEW C \in Nat, NEW R \in Nat, NEW A \in Nat, NEW W \in Nat,
                    NEW K \in Nat, NEW D \in SUBSET Nat, NEW N \in [Nat -> Nat],
                    Ring(C, R, A, W, K, D, N), Pop
             PROVE  IInv'
  BY DEF IInv
<1>1. /\ rpc = "msg" /\ rpc' = "idle" /\ got' = NextId(got)
      /\ read_idx' = Add(read_idx, Blocks(Header(read_idx).size))
      /\ UNCHANGED <<blk, write_idx, write_idx_atom, read_idx_cach, writer, curr_write_idx, sent>>
  BY DEF Pop
<1>2. /\ C <= R /\ R <= A /\ A <= W /\ W <= C + BLK_CNT /\ A \in D /\ read_idx = R % SeqMod
      /\ got = N[R] % Ids
      /\ Indices(C, R, A, W, D, N) /\ InAlloc(blk, C, W, N[W]) /\ blk \in Mem
  BY DEF Ring, Indices, Typed
<1>3. R < A /\ SizeAt(blk, R) # 0
  BY <1>1 DEF Ring, InFront
<1>4. PICK n \in Nat, D2 \in SUBSET Nat :
             /\ n = ItemLen(blk, R) /\ D2 = {q \in D : q >= R + n}
             /\ n >= 1 /\ n <= BLK_CNT /\ R + n <= A /\ R + n \in D /\ A \in D2
             /\ Item(blk, D, N, R) /\ \A q \in D : q > R => q >= R + n
             /\ Layout(blk, R + n, W, D2, N)
             /\ Add(R % SeqMod, n) = (R + n) % SeqMod /\ (R + n) % SeqMod \in SeqNum
  BY <1>3, Advance
<1>5. Blocks(Header(read_idx).size) = n
  <2>1. read_idx % BLK_CNT = R % BLK_CNT
    BY <1>2, CellOf
  <2> QED BY <1>3, <1>4, <2>1 DEF Header, SizeAt, ItemLen
<1>6. read_idx' = (R + n) % SeqMod
  BY <1>1, <1>2, <1>4, <1>5
<1>7. N[R + n] = N[R] + 1 /\ N[R] \in Nat
  BY <1>3, <1>4 DEF Item
<1>8. got' = N[R + n] % Ids /\ got' \in 0 .. Ids - 1
  <2>1. got' = (N[R] + 1) % Ids /\ N[R] + 1 \in Nat
    BY <1>1, <1>2, <1>7, NextIdMod
  <2>2. (N[R] + 1) % Ids \in 0 .. Ids - 1
    BY <2>1, NextIdMod
  <2> QED BY <1>7, <2>1, <2>2
<1>9. Layout(blk, R + n, W, D2, N)'
  <2>1. blk' = blk /\ Layout(blk, R + n, W, D2, N)
    BY <1>1, <1>4
  <2> QED BY ONLY <2>1 DEF Layout, Item, Whole, SizeAt, ItemLen, Padding
<1>10. R + n \in Nat /\ C <= R + n
  BY <1>2
<1>11. Indices(C, R + n, A, W, D2, N)'
  BY <1>1, <1>2, <1>4, <1>6, <1>8, <1>10 DEF Indices
<1>12. InAlloc(blk, C, W, N[W])'
  BY <1>1, <1>2 DEF InAlloc, writer, SizeAt, ItemLen, Whole, Padding
<1>13. InFront(blk, R + n, A, K, D2)'
  BY <1>1 DEF InFront
<1>14. Typed'
  BY <1>1, <1>4, <1>6, <1>8 DEF Typed, writer
<1>15. Ring(C, R + n, A, W, K, D2, N)'
  BY <1>9, <1>11, <1>12, <1>13 DEF Ring
<1> QED BY <1>4, <1>10, <1>14, <1>15, Witness

(* A handler that returns without Pop, and the death of either process,     *)
(* touch no memory the two share.                                           *)
LEMMA QuietIInv ==
    IInv /\ (NotPopped \/ WriterCrash \/ ReaderCrash \/ UNCHANGED vars) => IInv'
<1> SUFFICES ASSUME Typed, NEW C \in Nat, NEW R \in Nat, NEW A \in Nat, NEW W \in Nat,
                    NEW K \in Nat, NEW D \in SUBSET Nat, NEW N \in [Nat -> Nat],
                    Ring(C, R, A, W, K, D, N),
                    NotPopped \/ WriterCrash \/ ReaderCrash \/ UNCHANGED vars
             PROVE  IInv'
  BY DEF IInv
<1>1. /\ UNCHANGED <<mem, sent, got>>
      /\ \/ UNCHANGED writer \/ (wpc' = "idle" /\ size' = 0)
      /\ \/ UNCHANGED reader
         \/ rpc' = "idle" /\ curr_write_idx' \in {0, curr_write_idx}
  BY DEF NotPopped, WriterCrash, ReaderCrash, vars, writer, reader
<1>2. Layout(blk, R, W, D, N) /\ Indices(C, R, A, W, D, N)
      /\ InAlloc(blk, C, W, N[W]) /\ InFront(blk, R, A, K, D)
  BY DEF Ring
<1>3. Layout(blk, R, W, D, N)' /\ Indices(C, R, A, W, D, N)'
  BY <1>1, <1>2 DEF mem, Layout, Indices, SizeAt, Item, ItemLen, Whole, Padding
<1>4. InAlloc(blk, C, W, N[W])'
  <2>1. CASE UNCHANGED writer
    BY <1>1, <1>2, <2>1 DEF mem, writer, InAlloc, SizeAt, ItemLen, Whole, Padding
  <2>2. CASE wpc' = "idle"
    BY <2>2 DEF InAlloc
  <2> QED BY <1>1, <2>1, <2>2
<1>5. InFront(blk, R, A, K, D)'
  BY <1>1, <1>2 DEF mem, reader, InFront, SizeAt
<1>6. Typed'
  <2>1. 0 \in SeqNum /\ 0 \in MsgSize
    BY RingNat DEF SeqNum, MsgSize
  <2> QED BY <1>1, <2>1 DEF Typed, mem, writer, reader
<1>7. Ring(C, R, A, W, K, D, N)'
  BY <1>3, <1>4, <1>5 DEF Ring
<1> QED BY <1>6, <1>7, Witness

LEMMA StepIInv == IInv /\ [Next \/ WriterCrash \/ ReaderCrash]_vars => IInv'
BY AllocIInv, AllocLoadIInv, AllocMarkIInv, AllocRewindIInv, AllocHeaderIInv, FillIInv,
   PushIInv, PushCommitIInv, FrontIInv, FrontSkipIInv, PopIInv, QuietIInv
   DEF Next, Write, Read

LEMMA NextIInv == IInv /\ [Next]_vars => IInv'
BY StepIInv

-----------------------------------------------------------------------------
(* What the invariant says of the state. *)

LEMMA IInvTypeOK == IInv => TypeOK
<1> SUFFICES ASSUME Typed, NEW C \in Nat, NEW R \in Nat, NEW A \in Nat, NEW W \in Nat,
                    NEW K \in Nat, NEW D \in SUBSET Nat, NEW N \in [Nat -> Nat],
                    Ring(C, R, A, W, K, D, N)
             PROVE  TypeOK
  BY DEF IInv
<1>1. /\ C <= R /\ R <= A /\ A <= W /\ W <= C + BLK_CNT
      /\ read_idx_cach = C % SeqMod /\ read_idx = R % SeqMod
      /\ write_idx_atom = A % SeqMod /\ write_idx = W % SeqMod
  BY DEF Ring, Indices
<1>2. ASSUME NEW x \in Nat, NEW y \in Nat, x <= y, y <= x + BLK_CNT
      PROVE  Sub(y % SeqMod, x % SeqMod) = y - x
  <2>1. y - x \in 0 .. SeqMod - 1 /\ x + (y - x) = y /\ x \in Int
    BY <1>2, RingNat
  <2>2. Sub((x + (y - x)) % SeqMod, x % SeqMod) = y - x
    BY <2>1, RingNat, SubMod
  <2> QED BY <2>1, <2>2
<1>3. /\ R <= W /\ C <= W /\ A <= R + BLK_CNT /\ W <= R + BLK_CNT
  BY <1>1, RingNat
<1>4. /\ Sub(write_idx_atom, read_idx) = A - R
      /\ Sub(write_idx, read_idx) = W - R
      /\ Sub(write_idx, read_idx_cach) = W - C
  BY <1>1, <1>2, <1>3
<1>5. /\ Sub(write_idx_atom, read_idx) <= Sub(write_idx, read_idx)
      /\ Sub(write_idx, read_idx) <= Sub(write_idx, read_idx_cach)
      /\ Sub(write_idx, read_idx_cach) <= BLK_CNT
  BY <1>1, <1>4, RingNat
<1> QED BY <1>5 DEF TypeOK, Typed, Mem, Cell

LEMMA IInvInHand == IInv => InHand
<1> SUFFICES ASSUME Typed, NEW C \in Nat, NEW R \in Nat, NEW A \in Nat, NEW W \in Nat,
                    NEW K \in Nat, NEW D \in SUBSET Nat, NEW N \in [Nat -> Nat],
                    Ring(C, R, A, W, K, D, N), rpc = "msg"
             PROVE  InHand
  BY DEF IInv, InHand
<1>1. R < A /\ A <= W /\ SizeAt(blk, R) # 0 /\ read_idx = R % SeqMod /\ got = N[R] % Ids
  BY DEF Ring, InFront, Indices
<1>2. read_idx % BLK_CNT = R % BLK_CNT
  BY <1>1, CellOf
<1>3. Item(blk, D, N, R)
  BY <1>1 DEF Ring, Layout
<1>4. ItemLen(blk, R) = Blocks(blk[R % BLK_CNT].size)
  BY <1>1 DEF ItemLen, SizeAt
<1>5. /\ ItemLen(blk, R) >= 1 /\ (R % BLK_CNT) + ItemLen(blk, R) <= BLK_CNT
      /\ Whole(blk, R, ItemLen(blk, R), N[R])
  BY <1>1, <1>3 DEF Item
<1> QED BY <1>1, <1>2, <1>4, <1>5 DEF InHand, Whole

(* Alloc gives up on an empty queue only when the message and its padding   *)
(* are longer than the ring.                                                *)
LEMMA EmptyAllocStep ==
    ASSUME IInv, AllocLoad, wpc' = "idle", 2 * Blocks(size) <= BLK_CNT + 1
    PROVE  read_idx # write_idx
<1> SUFFICES ASSUME Typed, NEW C \in Nat, NEW R \in Nat, NEW A \in Nat, NEW W \in Nat,
                    NEW K \in Nat, NEW D \in SUBSET Nat, NEW N \in [Nat -> Nat],
                    Ring(C, R, A, W, K, D, N), read_idx = write_idx
             PROVE  FALSE
  BY DEF IInv
<1>1. wpc = "load" /\ ~Enough(read_idx, size)
  BY DEF AllocLoad, AfterCheck
<1>2. R <= W /\ W <= R + BLK_CNT /\ write_idx = W % SeqMod /\ read_idx = R % SeqMod
  <2>1. /\ C <= R /\ R <= A /\ A <= W /\ W <= C + BLK_CNT
        /\ write_idx = W % SeqMod /\ read_idx = R % SeqMod
    BY DEF Ring, Indices
  <2> QED BY <2>1, RingNat
<1>3. R = W
  <2>1. R \in Int /\ W \in Int /\ W < R + SeqMod /\ R % SeqMod = W % SeqMod
    BY <1>2, RingNat
  <2> QED BY <1>2, <2>1, RingNat, ModSame
<1>4. \E x \in UserSizes : size = x + HeaderSize
  BY <1>1 DEF Ring, InAlloc
<1>5. /\ Blocks(size) \in Nat
      /\ Rewind(size) <=> Blocks(size) > Padding(W)
      /\ Need(size) = Blocks(size) + IF Rewind(size) THEN Padding(W) ELSE 0
      /\ Enough(R % SeqMod, size) <=> W + Need(size) <= R + BLK_CNT
  BY <1>2, <1>4, EnoughMeans
<1>6. Padding(W) \in 1 .. BLK_CNT
  BY CellOf
<1>7. Need(size) <= BLK_CNT
  BY <1>5, <1>6, RingNat
<1>8. Need(size) \in Nat /\ W + Need(size) <= R + BLK_CNT
  BY <1>3, <1>5, <1>6, <1>7, RingNat
<1> QED BY <1>1, <1>2, <1>5, <1>8

-----------------------------------------------------------------------------
(* The indices never pass each other and stay within a ring of each other,  *)
(* for every ring and every width of the indices, also when a process dies  *)
(* and is restarted on the shared memory.                                   *)
THEOREM TypeCorrect == CrashSpec => []TypeOK
BY InitIInv, StepIInv, IInvTypeOK, PTL DEF CrashSpec

(* A message in the reader's hands is whole, is the next one in the order   *)
(* of Push and stays so until Pop, whatever the writer does meanwhile, and  *)
(* also when either process dies and is restarted.                          *)
THEOREM MessageInHand == CrashSpec => []InHand
BY InitIInv, StepIInv, IInvInHand, PTL DEF CrashSpec

(* Alloc of at most half the ring never fails on an empty queue.            *)
THEOREM EmptyQueueHasRoom == Spec => EmptyAlloc
<1>1. IInv /\ [Next]_vars =>
        [AllocLoad /\ wpc' = "idle" /\ 2 * Blocks(size) <= BLK_CNT + 1
           => read_idx # write_idx]_vars
  BY EmptyAllocStep
<1> QED BY <1>1, InitIInv, NextIInv, PTL DEF Spec, EmptyAlloc
=============================================================================
