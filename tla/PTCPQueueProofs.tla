-------------------------- MODULE PTCPQueueProofs --------------------------
(***************************************************************************)
(* PTCPQueue for every queue size, every message size that fits in a       *)
(* uint16_t and every width of the sequence numbers: the indices stay in   *)
(* order and the window between them stays intact at every store, also     *)
(* when the process dies before a call has stored an index, or between two *)
(* iterations of Ack, and resumes from its file (DeathSpec).               *)
(***************************************************************************)
EXTENDS PTCPQueue, SeqNumbersProofs, WellFoundedInduction

-----------------------------------------------------------------------------
(* The operators the queue is built from. *)

LEMMA SizeNat == ASSUME NEW n \in MsgSize PROVE n \in Nat
BY DEF MsgSize

(* A message takes at least one block when it has at least one byte.        *)
LEMMA BlocksType ==
    ASSUME NEW n \in MsgSize
    PROVE  Blocks(n) \in Nat /\ (n >= 1 => Blocks(n) >= 1)
BY DEF Blocks, HeaderSize, MsgSize

(* Sequence numbers stay in their range under the uint32_t operations.      *)
LEMMA SeqArith ==
    ASSUME NEW a \in SeqNum, NEW b \in SeqNum
    PROVE  /\ Inc(a) \in SeqNum
           /\ Sub(a, b) \in SeqNum
           /\ Sub(a, b) = 0 <=> a = b
           /\ Sub(a, b) > 0 => Sub(a, Inc(b)) = Sub(a, b) - 1
BY QueueAssumption DEF Inc, Sub, SeqNum, SeqMod

(* The number k places away, looked at as the int Ack makes of it, is k.    *)
LEMMA AddSub ==
    ASSUME NEW a \in SeqNum, NEW k \in 1 - HalfSeq .. HalfSeq - 1
    PROVE  /\ Add(a, k) \in SeqNum
           /\ Signed(Sub(Add(a, k), a)) = k
           /\ k > 0 => Sub(Add(a, k), a) = k
BY QueueAssumption DEF Add, Sub, Signed, SeqNum, SeqMod

(* The fields of a cell, and what the conversion of a header does to them.  *)
LEMMA CellType ==
    ASSUME NEW c \in Cell
    PROVE  /\ c.id \in Nat /\ c.part \in Nat /\ c.size \in MsgSize
           /\ c.ack \in SeqNum /\ c.order \in ByteOrder
BY DEF Cell

LEMMA ConvertType ==
    ASSUME NEW c \in Cell
    PROVE  /\ ConvertByteOrder(c) \in Cell
           /\ ConvertByteOrder(c).size = c.size
           /\ ConvertByteOrder(c).id = c.id
           /\ ConvertByteOrder(c).part = c.part
           /\ ConvertByteOrder(c).order = IF c.order = "host" THEN "net" ELSE "host"
<1>1. (IF c.order = "host" THEN "net" ELSE "host") \in ByteOrder
  BY DEF ByteOrder
<1> QED BY <1>1 DEF Cell, ConvertByteOrder

(* A header in wire order, converted, has the size Alloc gave it.           *)
LEMMA NetLen ==
    ASSUME NEW c \in Cell, c.order = "net"
    PROVE  MsgLen(c) = Blocks(c.size) /\ MsgLen(c) \in Nat
<1>1. MsgLen(c) = Blocks(c.size)
  BY ConvertType DEF MsgLen, LoadSize
<1> QED BY <1>1, CellType, BlocksType

-----------------------------------------------------------------------------
(* Intact windows. *)

Mem == [0 .. BLK_CNT - 1 -> Cell]

LEMMA MemCell ==
    ASSUME NEW blk \in Mem, NEW i \in 0 .. BLK_CNT - 1
    PROVE  blk[i] \in Cell /\ blk[i].id \in Nat /\ blk[i].part \in Nat
BY CellType DEF Mem

(* The length of a message of an intact window.                             *)
LEMMA MsgLenType ==
    ASSUME NEW blk \in Mem, NEW e \in 0 .. BLK_CNT, NEW h \in Nat,
           NEW i \in 0 .. BLK_CNT - 1, MsgAt(blk, e, h, i)
    PROVE  MsgLen(blk[i]) \in Nat
BY MemCell, NetLen DEF MsgAt

(* A message is the same wherever its blocks are: the cells blk2 at d less  *)
(* than those of blk.                                                       *)
LEMMA MsgAtShift ==
    ASSUME NEW blk \in Mem, NEW blk2 \in Mem, NEW e \in 0 .. BLK_CNT, NEW h \in Nat,
           NEW d \in 0 .. BLK_CNT, NEW b \in d .. BLK_CNT, NEW i \in b .. e - 1,
           \A j \in b .. e - 1 : blk2[j - d] = blk[j],
           MsgAt(blk, e, h, i)
    PROVE  MsgAt(blk2, e - d, h, i - d)
<1> DEFINE n == MsgLen(blk[i])
<1>0. i \in 0 .. BLK_CNT - 1
  BY QueueAssumption
<1>1. n \in Nat
  BY <1>0, MsgLenType
<1>2. /\ blk[i].order = "net" /\ n >= 1 /\ i + n <= e
      /\ \A j \in i + 1 .. i + n - 1 : blk[j].part = j - i /\ blk[j].id = blk[i].id
      /\ i + n < e => blk[i + n].part = 0 /\ blk[i + n].id = blk[i].id + 1
      /\ i + n = e => blk[i].id = h - 1
  BY DEF MsgAt
<1>3. blk2[i - d] = blk[i] /\ MsgLen(blk2[i - d]) = n
  OBVIOUS
<1> HIDE DEF n
<1>4. \A j \in i - d + 1 .. i - d + n - 1 :
         blk2[j].part = j - (i - d) /\ blk2[j].id = blk2[i - d].id
  <2> TAKE j \in i - d + 1 .. i - d + n - 1
  <2>1. j + d \in i + 1 .. i + n - 1 /\ j + d \in b .. e - 1 /\ (j + d) - d = j
    BY <1>0, <1>1, <1>2, QueueAssumption
  <2>2. blk2[j] = blk[j + d]
    BY <2>1
  <2>3. blk[j + d].part = (j + d) - i /\ blk[j + d].id = blk[i].id
    BY <1>2, <2>1
  <2> QED BY <1>0, <1>3, <2>1, <2>2, <2>3, QueueAssumption
<1>5. ASSUME i - d + n < e - d
      PROVE  blk2[i - d + n].part = 0 /\ blk2[i - d + n].id = blk2[i - d].id + 1
  <2>1. i + n < e /\ i + n \in b .. e - 1 /\ (i + n) - d = i - d + n
    BY <1>0, <1>1, <1>5, QueueAssumption
  <2>2. blk2[i - d + n] = blk[i + n]
    BY <2>1
  <2> QED BY <1>2, <1>3, <2>1, <2>2
<1>6. i - d + n <= e - d /\ (i - d + n = e - d => i + n = e)
  BY <1>0, <1>1, <1>2, QueueAssumption
<1> QED BY <1>2, <1>3, <1>4, <1>5, <1>6 DEF MsgAt

(* memmove takes the whole window, and each message in it, d blocks down.   *)
LEMMA IntactShift ==
    ASSUME NEW blk \in Mem, NEW blk2 \in Mem, NEW l \in Nat, NEW h \in Nat,
           NEW b \in 0 .. BLK_CNT, NEW e \in 0 .. BLK_CNT, NEW d \in 0 .. b,
           Intact(blk, b, e, l, h),
           \A j \in b .. e - 1 : blk2[j - d] = blk[j]
    PROVE  Intact(blk2, b - d, e - d, l, h)
<1>1. b <= e /\ (b = e => l = h) /\ (b < e => blk[b].part = 0 /\ blk[b].id = l)
  BY DEF Intact
<1>2. b - d <= e - d /\ (b - d = e - d => l = h)
  BY <1>1, QueueAssumption
<1>3. b - d < e - d => blk2[b - d].part = 0 /\ blk2[b - d].id = l
  <2> HAVE b - d < e - d
  <2>1. b < e /\ b \in b .. e - 1
    BY QueueAssumption
  <2> QED BY <1>1, <2>1
<1>4. ASSUME NEW i \in b - d .. e - d - 1
      PROVE  blk2[i].id < h
  <2>1. i + d \in b .. e - 1 /\ (i + d) - d = i
    BY QueueAssumption
  <2> QED BY <2>1 DEF Intact
<1>5. ASSUME NEW i \in b - d .. e - d - 1, blk2[i].part = 0
      PROVE  MsgAt(blk2, e - d, h, i)
  <2>1. i + d \in b .. e - 1 /\ (i + d) - d = i
    BY QueueAssumption
  <2>2. blk2[i] = blk[i + d]
    BY <2>1
  <2>3. MsgAt(blk, e, h, i + d)
    BY <1>5, <2>1, <2>2 DEF Intact
  <2>4. d \in 0 .. BLK_CNT /\ b \in d .. BLK_CNT
    BY QueueAssumption
  <2>5. MsgAt(blk2, e - d, h, (i + d) - d)
    BY <2>1, <2>3, <2>4, MsgAtShift
  <2> QED BY <2>1, <2>5
<1> QED BY <1>2, <1>3, <1>4, <1>5 DEF Intact

(* Stores outside the window do not disturb it.                             *)
LEMMA IntactFrame ==
    ASSUME NEW blk \in Mem, NEW blk2 \in Mem, NEW l \in Nat, NEW h \in Nat,
           NEW b \in 0 .. BLK_CNT, NEW e \in 0 .. BLK_CNT,
           Intact(blk, b, e, l, h),
           \A j \in b .. e - 1 : blk2[j] = blk[j]
    PROVE  Intact(blk2, b, e, l, h)
<1>1. \A j \in b .. e - 1 : blk2[j - 0] = blk[j]
  BY QueueAssumption
<1>2. 0 \in 0 .. b /\ b - 0 = b /\ e - 0 = e
  BY QueueAssumption
<1>3. Intact(blk2, b - 0, e - 0, l, h)
  BY <1>1, <1>2, IntactShift
<1> QED BY <1>2, <1>3

(* The first message of a window that has one ends inside it, all its       *)
(* blocks carry its number, and what is behind it is intact.                *)
LEMMA IntactDrop ==
    ASSUME NEW blk \in Mem, NEW l \in Nat, NEW h \in Nat,
           NEW b \in 0 .. BLK_CNT, NEW e \in 0 .. BLK_CNT,
           Intact(blk, b, e, l, h), l < h
    PROVE  /\ b < e /\ MsgLen(blk[b]) \in Nat /\ MsgLen(blk[b]) >= 1
           /\ b + MsgLen(blk[b]) <= e
           /\ \A j \in b .. b + MsgLen(blk[b]) - 1 : blk[j].id = l
           /\ Intact(blk, b + MsgLen(blk[b]), e, l + 1, h)
<1> DEFINE n == MsgLen(blk[b])
<1>1. b <= e /\ b # e
  BY DEF Intact
<1>2. b < e /\ b \in b .. e - 1 /\ b \in 0 .. BLK_CNT - 1
  BY <1>1, QueueAssumption
<1>3. blk[b].part = 0 /\ blk[b].id = l /\ MsgAt(blk, e, h, b)
  BY <1>2 DEF Intact
<1>4. n \in Nat
  BY <1>2, <1>3, MsgLenType
<1>5. /\ n >= 1 /\ b + n <= e
      /\ \A j \in b + 1 .. b + n - 1 : blk[j].id = l
      /\ b + n < e => blk[b + n].part = 0 /\ blk[b + n].id = l + 1
      /\ b + n = e => l = h - 1
  BY <1>3 DEF MsgAt
<1> HIDE DEF n
<1>6. \A j \in b .. b + n - 1 : blk[j].id = l
  BY <1>3, <1>4, <1>5, QueueAssumption
<1>7. \A i \in b + n .. e - 1 : i \in b .. e - 1
  BY <1>4, QueueAssumption
<1>8. b + n = e => l + 1 = h
  BY <1>5
<1>9. Intact(blk, b + n, e, l + 1, h)
  BY <1>5, <1>7, <1>8 DEF Intact
<1> QED BY <1>2, <1>4, <1>5, <1>6, <1>9 DEF n

(* A message written behind the window and committed extends it by one.     *)
LEMMA IntactPush ==
    ASSUME NEW blk \in Mem, NEW l \in Nat, NEW h \in Nat,
           NEW b \in 0 .. BLK_CNT, NEW w \in 0 .. BLK_CNT,
           Intact(blk, b, w, l, h), Fresh(blk, w, h, "net")
    PROVE  Intact(blk, b, w + Blocks(blk[w].size), l, h + 1)
<1> DEFINE n == Blocks(blk[w].size)
           e == w + n
<1>1. /\ w < BLK_CNT /\ blk[w].part = 0 /\ blk[w].id = h /\ blk[w].order = "net"
      /\ blk[w].size >= HeaderSize /\ w + n <= BLK_CNT
      /\ \A j \in w + 1 .. w + n - 1 : blk[j].part = j - w /\ blk[j].id = h
  BY DEF Fresh
<1>2. w \in 0 .. BLK_CNT - 1
  BY <1>1, QueueAssumption
<1>3. blk[w] \in Cell /\ blk[w].size \in MsgSize
  BY <1>2, MemCell, CellType
<1>4. blk[w].size >= 1
  <2>1. blk[w].size >= HeaderSize
    BY <1>1
  <2>2. blk[w].size \in Nat
    BY <1>3, SizeNat
  <2> QED BY <2>1, <2>2 DEF HeaderSize
<1>5. n \in Nat /\ n >= 1 /\ MsgLen(blk[w]) = n
  BY <1>1, <1>3, <1>4, BlocksType, NetLen
<1> HIDE DEF n
<1>6. b <= w /\ (b = w => l = h) /\ (b < w => blk[b].part = 0 /\ blk[b].id = l)
  BY DEF Intact
<1>7. b <= e /\ b # e /\ (b < e => blk[b].part = 0 /\ blk[b].id = l)
  BY <1>1, <1>5, <1>6, QueueAssumption
<1>8. ASSUME NEW i \in b .. w - 1, blk[i].part = 0
      PROVE  MsgAt(blk, e, h + 1, i)
  <2> DEFINE m == MsgLen(blk[i])
  <2>1. i \in 0 .. BLK_CNT - 1 /\ MsgAt(blk, w, h, i)
    BY <1>8, QueueAssumption DEF Intact
  <2>2. m \in Nat /\ blk[i].id \in Nat
    BY <2>1, MsgLenType, MemCell
  <2>3. /\ blk[i].order = "net" /\ m >= 1 /\ i + m <= w
        /\ \A j \in i + 1 .. i + m - 1 : blk[j].part = j - i /\ blk[j].id = blk[i].id
        /\ i + m < w => blk[i + m].part = 0 /\ blk[i + m].id = blk[i].id + 1
        /\ i + m = w => blk[i].id = h - 1
    BY <2>1 DEF MsgAt
  <2> HIDE DEF m
  <2>4. i + m < e
    BY <1>5, <2>1, <2>2, <2>3, QueueAssumption
  <2>5. blk[i + m].part = 0 /\ blk[i + m].id = blk[i].id + 1
    <3>1. CASE i + m < w
      BY <2>3, <3>1
    <3>2. CASE i + m = w
      BY <1>1, <2>2, <2>3, <3>2
    <3> QED BY <2>1, <2>2, <2>3, <3>1, <3>2, QueueAssumption
  <2>6. i + m <= e /\ i + m # e
    BY <1>5, <2>1, <2>2, <2>4, QueueAssumption
  <2> QED BY <2>3, <2>4, <2>5, <2>6 DEF MsgAt, m
<1>9. MsgAt(blk, e, h + 1, w)
  <2>1. w + n <= e /\ ~(w + n < e) /\ h = (h + 1) - 1
    BY <1>2, <1>5, QueueAssumption
  <2> QED BY <1>1, <1>5, <2>1 DEF MsgAt
<1>10. ASSUME NEW i \in b .. e - 1, blk[i].part = 0
       PROVE  i \in b .. w - 1 \/ i = w
  <2>1. i \in b .. w - 1 \/ i = w \/ i \in w + 1 .. w + n - 1
    BY <1>2, <1>5, QueueAssumption
  <2>2. ASSUME i \in w + 1 .. w + n - 1 PROVE FALSE
    <3>1. blk[i].part = i - w
      BY <1>1, <2>2
    <3> QED BY <1>2, <1>5, <1>10, <2>2, <3>1, QueueAssumption
  <2> QED BY <2>1, <2>2
<1>11. \A i \in b .. e - 1 : blk[i].part = 0 => MsgAt(blk, e, h + 1, i)
  BY <1>8, <1>9, <1>10
<1>12. ASSUME NEW i \in b .. e - 1 PROVE blk[i].id < h + 1
  <2>1. i \in 0 .. BLK_CNT - 1 /\ (i \in b .. w - 1 \/ i = w \/ i \in w + 1 .. w + n - 1)
    <3>1. w + n <= BLK_CNT
      BY <1>1
    <3> QED BY <1>2, <1>5, <3>1, QueueAssumption
  <2>2. blk[i].id \in Nat /\ (blk[i].id < h \/ blk[i].id = h)
    BY <1>1, <2>1, MemCell DEF Intact
  <2> QED BY <2>2
<1> QED BY <1>7, <1>11, <1>12 DEF Intact, n

-----------------------------------------------------------------------------
(* The inductive invariant. *)

LEMMA InitIInv == Init => IInv
<1> SUFFICES ASSUME Init PROVE IInv
  OBVIOUS
<1>1. ZeroCell \in Cell
  <2>1. 0 \in MsgSize /\ 0 \in SeqNum /\ "host" \in ByteOrder
    BY QueueAssumption DEF MsgSize, SeqNum, SeqMod, ByteOrder
  <2> QED BY <2>1 DEF ZeroCell, Cell
<1>2. blk_ \in [0 .. BLK_CNT - 1 -> Cell]
  BY <1>1 DEF Init
<1>3. 0 \in MsgSize /\ 0 \in SeqNum
  BY QueueAssumption DEF MsgSize, SeqNum, SeqMod
<1>4. TypeOK
  BY <1>2, <1>3, QueueAssumption DEF Init, TypeOK, Steps, Nil
<1>5. WindowIntact
  BY QueueAssumption DEF Init, WindowIntact, Intact, Begin, End
<1>6. IndexInv /\ RoomInv /\ AckInv
  BY DEF Init, IndexInv, RoomInv, AckInv, Nil
<1> QED BY <1>4, <1>5, <1>6 DEF IInv

(* Alloc only looks for room.                                               *)
LEMMA AllocIInv ==
    ASSUME IInv, NEW sz \in UserSizes, Alloc(sz)
    PROVE  IInv'
<1>1. sz + HeaderSize \in MsgSize /\ sz + HeaderSize >= HeaderSize
  BY SizeAssumption DEF HeaderSize
<1>2. size' = sz + HeaderSize /\ hdr' = Nil /\ pc = "idle"
      /\ pc' \in {"alloc_hdr", "move", "idle"}
      /\ UNCHANGED <<mem, blk_sz, target, ret, lo, hi>>
  BY DEF Alloc
<1>3. TypeOK'
  BY <1>1, <1>2 DEF IInv, TypeOK, mem, Steps
<1>4. WindowIntact'
  BY <1>2 DEF IInv, WindowIntact, Begin, End, mem
<1>5. IndexInv'
  BY <1>2 DEF IInv, IndexInv, mem
<1>6. /\ pc' = "move" => Blocks(size') <= BLK_CNT - write_idx_ + read_idx_
      /\ pc' = "alloc_hdr" => Blocks(size') <= BLK_CNT - write_idx_
  BY DEF Alloc, Avail
<1>7. RoomInv'
  BY <1>1, <1>2, <1>6 DEF RoomInv, mem
<1>8. AckInv'
  BY <1>2 DEF AckInv
<1> QED BY <1>3, <1>4, <1>5, <1>7, <1>8 DEF IInv

(* memmove: the window is at the front, the indices still say otherwise.    *)
LEMMA AllocMoveIInv == IInv /\ AllocMove => IInv'
<1> SUFFICES ASSUME IInv, AllocMove PROVE IInv'
  OBVIOUS
<1>1. /\ pc = "move" /\ pc' = "move_w" /\ blk_' = Moved(write_idx_ - read_idx_)
      /\ UNCHANGED <<write_idx_, read_idx_, send_idx_, read_seq_num_, ack_seq_num_,
                     size, blk_sz, target, ret, hdr, lo, hi>>
  BY DEF AllocMove, local
<1>2. /\ blk_ \in Mem /\ write_idx_ \in 0 .. BLK_CNT /\ read_idx_ \in 0 .. BLK_CNT
      /\ lo \in Nat /\ hi \in Nat
  BY DEF IInv, TypeOK, Mem
<1>3. Intact(blk_, read_idx_, write_idx_, lo, hi) /\ read_idx_ <= write_idx_
  BY <1>1 DEF IInv, WindowIntact, Begin, End, Intact
<1>4. \A i \in 0 .. BLK_CNT - 1 :
        i < write_idx_ - read_idx_ => i + read_idx_ \in 0 .. BLK_CNT - 1
  BY <1>2, QueueAssumption
<1>5. blk_' = [i \in 0 .. BLK_CNT - 1 |->
                 IF i < write_idx_ - read_idx_ THEN blk_[i + read_idx_] ELSE blk_[i]]
  BY <1>1, <1>4 DEF Moved, At
<1>6. blk_' \in Mem
  BY <1>2, <1>4, <1>5 DEF Mem
<1>7. \A j \in read_idx_ .. write_idx_ - 1 : blk_'[j - read_idx_] = blk_[j]
  <2> TAKE j \in read_idx_ .. write_idx_ - 1
  <2>1. /\ j - read_idx_ \in 0 .. BLK_CNT - 1 /\ j - read_idx_ < write_idx_ - read_idx_
        /\ (j - read_idx_) + read_idx_ = j
    BY <1>2, QueueAssumption
  <2> QED BY <1>5, <2>1
<1>8. read_idx_ \in 0 .. read_idx_ /\ read_idx_ - read_idx_ = 0
  BY <1>2
<1>9. Intact(blk_', read_idx_ - read_idx_, write_idx_ - read_idx_, lo, hi)
  BY <1>2, <1>3, <1>6, <1>7, <1>8, IntactShift
<1>10. WindowIntact'
  BY <1>1, <1>8, <1>9 DEF WindowIntact, Begin, End
<1>11. TypeOK'
  BY <1>1, <1>6 DEF IInv, TypeOK, Steps, Mem
<1>12. IndexInv' /\ AckInv'
  BY <1>1 DEF IInv, IndexInv, AckInv
<1>13. RoomInv'
  BY <1>1 DEF IInv, RoomInv
<1> QED BY <1>10, <1>11, <1>12, <1>13 DEF IInv

(* The three index stores of Alloc: each moves one index, the window stays. *)
LEMMA AllocIndexIInv == IInv /\ (AllocMoveWrite \/ AllocMoveSend \/ AllocMoveRead) => IInv'
<1> SUFFICES ASSUME IInv, AllocMoveWrite \/ AllocMoveSend \/ AllocMoveRead PROVE IInv'
  OBVIOUS
<1>0. /\ write_idx_ \in 0 .. BLK_CNT /\ read_idx_ \in 0 .. BLK_CNT
      /\ send_idx_ \in 0 .. BLK_CNT /\ Blocks(size) \in Nat /\ hdr = Nil
  BY BlocksType DEF IInv, TypeOK, RoomInv, AllocMoveWrite, AllocMoveSend, AllocMoveRead
<1>1. CASE AllocMoveWrite
  <2>1. /\ pc = "move_w" /\ pc' = "move_s" /\ write_idx_' = write_idx_ - read_idx_
        /\ UNCHANGED <<blk_, read_idx_, send_idx_, read_seq_num_, ack_seq_num_,
                       size, blk_sz, target, ret, hdr, lo, hi>>
    BY <1>1 DEF AllocMoveWrite, local
  <2>2. read_idx_ <= send_idx_ /\ send_idx_ <= write_idx_
    BY <2>1 DEF IInv, IndexInv
  <2>3. write_idx_ - read_idx_ \in 0 .. BLK_CNT
    BY <1>0, <2>2, QueueAssumption
  <2>4. TypeOK'
    BY <2>1, <2>3 DEF IInv, TypeOK, Steps
  <2>5. WindowIntact'
    BY <2>1 DEF IInv, WindowIntact, Begin, End
  <2>6. IndexInv'
    BY <1>0, <2>1, <2>2, QueueAssumption DEF IndexInv
  <2>7. Blocks(size) <= BLK_CNT - (write_idx_ - read_idx_) /\ size >= HeaderSize
    BY <1>0, <2>1, QueueAssumption DEF IInv, RoomInv
  <2>8. RoomInv' /\ AckInv'
    BY <1>0, <2>1, <2>7 DEF RoomInv, AckInv
  <2> QED BY <2>4, <2>5, <2>6, <2>8 DEF IInv
<1>2. CASE AllocMoveSend
  <2>1. /\ pc = "move_s" /\ pc' = "move_r" /\ send_idx_' = send_idx_ - read_idx_
        /\ UNCHANGED <<blk_, write_idx_, read_idx_, read_seq_num_, ack_seq_num_,
                       size, blk_sz, target, ret, hdr, lo, hi>>
    BY <1>2 DEF AllocMoveSend, local
  <2>2. read_idx_ <= send_idx_ /\ send_idx_ - read_idx_ <= write_idx_
    BY <2>1 DEF IInv, IndexInv
  <2>3. send_idx_ - read_idx_ \in 0 .. BLK_CNT
    BY <1>0, <2>2, QueueAssumption
  <2>4. TypeOK'
    BY <2>1, <2>3 DEF IInv, TypeOK, Steps
  <2>5. WindowIntact'
    BY <2>1 DEF IInv, WindowIntact, Begin, End
  <2>6. IndexInv'
    BY <2>1, <2>2 DEF IndexInv
  <2>7. RoomInv' /\ AckInv'
    BY <1>0, <2>1 DEF IInv, RoomInv, AckInv
  <2> QED BY <2>4, <2>5, <2>6, <2>7 DEF IInv
<1>3. CASE AllocMoveRead
  <2>1. /\ pc = "move_r" /\ pc' = "alloc_hdr" /\ read_idx_' = 0
        /\ UNCHANGED <<blk_, write_idx_, send_idx_, read_seq_num_, ack_seq_num_,
                       size, blk_sz, target, ret, hdr, lo, hi>>
    BY <1>3 DEF AllocMoveRead, local
  <2>2. send_idx_ <= write_idx_ /\ 0 <= send_idx_ /\ 0 \in 0 .. BLK_CNT
    BY <1>0, <2>1, QueueAssumption DEF IInv, IndexInv
  <2>4. TypeOK'
    BY <2>1, <2>2 DEF IInv, TypeOK, Steps
  <2>5. WindowIntact'
    BY <2>1 DEF IInv, WindowIntact, Begin, End
  <2>6. IndexInv'
    BY <2>1, <2>2 DEF IndexInv
  <2>7. RoomInv' /\ AckInv'
    BY <1>0, <2>1 DEF IInv, RoomInv, AckInv
  <2> QED BY <2>4, <2>5, <2>6, <2>7 DEF IInv
<1> QED BY <1>1, <1>2, <1>3

(* The cells the user fills in are behind the window and inside blk_.       *)
LEMMA AllocHeaderIInv == IInv /\ AllocHeader => IInv'
<1> SUFFICES ASSUME IInv, AllocHeader PROVE IInv'
  OBVIOUS
<1> DEFINE n == Blocks(size)
<1>1. /\ pc = "alloc_hdr" /\ pc' = "idle" /\ hdr' = write_idx_
      /\ blk_' = [i \in 0 .. BLK_CNT - 1 |->
                    IF i \in write_idx_ .. write_idx_ + n - 1
                    THEN Filled(i, write_idx_, size) ELSE blk_[i]]
      /\ UNCHANGED <<write_idx_, read_idx_, send_idx_, read_seq_num_, ack_seq_num_,
                     size, blk_sz, target, ret, lo, hi>>
  BY DEF AllocHeader, local
<1>2. /\ blk_ \in Mem /\ write_idx_ \in 0 .. BLK_CNT /\ read_idx_ \in 0 .. BLK_CNT
      /\ lo \in Nat /\ hi \in Nat /\ size \in MsgSize
  BY DEF IInv, TypeOK, Mem
<1>3. size >= HeaderSize /\ n <= BLK_CNT - write_idx_
  BY <1>1 DEF IInv, RoomInv
<1>4. n \in Nat /\ n >= 1
  <2>1. size >= 1
    BY <1>2, <1>3, SizeNat DEF HeaderSize
  <2> QED BY <1>2, <2>1, BlocksType
<1> HIDE DEF n
<1>5. write_idx_ < BLK_CNT /\ write_idx_ + n <= BLK_CNT
  BY <1>2, <1>3, <1>4, QueueAssumption
<1>6. ASSUME NEW i \in 0 .. BLK_CNT - 1, i \in write_idx_ .. write_idx_ + n - 1
      PROVE  /\ Filled(i, write_idx_, size) \in Cell
             /\ Filled(i, write_idx_, size).id = hi
             /\ Filled(i, write_idx_, size).part = i - write_idx_
  <2>1. i - write_idx_ \in Nat
    BY <1>2, <1>6
  <2>2. (IF i = write_idx_ THEN size ELSE 0) \in MsgSize
    <3>1. 0 \in MsgSize
      BY DEF MsgSize
    <3> QED BY <1>2, <3>1
  <2>3. 0 \in SeqNum /\ "host" \in ByteOrder
    BY QueueAssumption DEF SeqNum, SeqMod, ByteOrder
  <2> QED BY <1>2, <2>1, <2>2, <2>3 DEF Filled, Cell
<1>7. blk_' \in Mem
  BY <1>1, <1>2, <1>6 DEF Mem
<1>8. \A j \in read_idx_ .. write_idx_ - 1 : blk_'[j] = blk_[j]
  <2> TAKE j \in read_idx_ .. write_idx_ - 1
  <2>1. j \in 0 .. BLK_CNT - 1 /\ j \notin write_idx_ .. write_idx_ + n - 1
    BY <1>2, QueueAssumption
  <2> QED BY <1>1, <2>1
<1>9. WindowIntact'
  <2>1. Intact(blk_, read_idx_, write_idx_, lo, hi)
    BY <1>1 DEF IInv, WindowIntact, Begin, End
  <2>2. Intact(blk_', read_idx_, write_idx_, lo, hi)
    BY <1>2, <1>7, <1>8, <2>1, IntactFrame
  <2> QED BY <1>1, <2>2 DEF WindowIntact, Begin, End
<1>10. write_idx_ \in 0 .. BLK_CNT - 1 /\ write_idx_ \in write_idx_ .. write_idx_ + n - 1
  BY <1>2, <1>4, <1>5, QueueAssumption
<1>11. TypeOK'
  BY <1>1, <1>7, <1>10 DEF IInv, TypeOK, Steps, Mem
<1>12. IndexInv' /\ AckInv'
  BY <1>1 DEF IInv, IndexInv, AckInv
<1>13. Fresh(blk_', write_idx_, hi, "host")
  <2>1. blk_'[write_idx_] = Filled(write_idx_, write_idx_, size)
    BY <1>1, <1>10
  <2>2. /\ blk_'[write_idx_].size = size /\ blk_'[write_idx_].order = "host"
        /\ blk_'[write_idx_].id = hi
    BY <2>1 DEF Filled
  <2>3. blk_'[write_idx_].part = 0
    BY <1>2, <1>6, <1>10, <2>1
  <2>4. \A j \in write_idx_ + 1 .. write_idx_ + n - 1 :
          blk_'[j].part = j - write_idx_ /\ blk_'[j].id = hi
    <3> TAKE j \in write_idx_ + 1 .. write_idx_ + n - 1
    <3>1. j \in 0 .. BLK_CNT - 1 /\ j \in write_idx_ .. write_idx_ + n - 1
      BY <1>2, <1>4, <1>5, QueueAssumption
    <3>2. blk_'[j] = Filled(j, write_idx_, size)
      BY <1>1, <3>1
    <3> QED BY <1>6, <3>1, <3>2
  <2> QED BY <1>3, <1>5, <2>2, <2>3, <2>4 DEF Fresh, n
<1>14. RoomInv'
  BY <1>1, <1>13 DEF RoomInv
<1> QED BY <1>9, <1>11, <1>12, <1>14 DEF IInv

(* Push writes the header behind the window.                                *)
LEMMA PushIInv == IInv /\ Push => IInv'
<1> SUFFICES ASSUME IInv, Push PROVE IInv'
  OBVIOUS
<1> DEFINE c == blk_[write_idx_]
           d == ConvertByteOrder([c EXCEPT !.ack = ack_seq_num_])
<1>1. /\ blk_ \in Mem /\ write_idx_ \in 0 .. BLK_CNT /\ read_idx_ \in 0 .. BLK_CNT
      /\ lo \in Nat /\ hi \in Nat /\ ack_seq_num_ \in SeqNum
  BY DEF IInv, TypeOK, Mem
<1>2. Fresh(blk_, write_idx_, hi, "host")
  BY DEF IInv, RoomInv, Push
<1>3. write_idx_ \in 0 .. BLK_CNT - 1
  BY <1>1, <1>2, QueueAssumption DEF Fresh
<1>4. c \in Cell /\ c.order = "host" /\ c.part = 0 /\ c.id = hi
  BY <1>1, <1>2, <1>3, MemCell DEF Fresh
<1>5. /\ [c EXCEPT !.ack = ack_seq_num_] \in Cell
      /\ [c EXCEPT !.ack = ack_seq_num_].size = c.size
      /\ [c EXCEPT !.ack = ack_seq_num_].order = c.order
      /\ [c EXCEPT !.ack = ack_seq_num_].part = c.part
      /\ [c EXCEPT !.ack = ack_seq_num_].id = c.id
  BY <1>1, <1>4 DEF Cell
<1>6. d \in Cell /\ d.size = c.size /\ d.part = 0 /\ d.id = hi /\ d.order = "net"
  <2> DEFINE a == [c EXCEPT !.ack = ack_seq_num_]
  <2>1. a \in Cell /\ a.size = c.size /\ a.order = "host" /\ a.part = 0 /\ a.id = hi
    BY <1>4, <1>5
  <2> HIDE DEF a
  <2>2. /\ ConvertByteOrder(a) \in Cell /\ ConvertByteOrder(a).size = c.size
        /\ ConvertByteOrder(a).part = 0 /\ ConvertByteOrder(a).id = hi
        /\ ConvertByteOrder(a).order = "net"
    BY <2>1, ConvertType
  <2> QED BY <2>2 DEF a
<1>7. /\ pc = "idle" /\ pc' = "push" /\ hdr' = Nil
      /\ blk_sz' = Blocks(c.size)
      /\ blk_' = [blk_ EXCEPT ![write_idx_] = d]
      /\ UNCHANGED <<write_idx_, read_idx_, send_idx_, read_seq_num_, ack_seq_num_,
                     size, target, ret, lo, hi>>
  <2>1. At(write_idx_) = c /\ LoadSize(c) = c.size
    BY <1>3, <1>4 DEF At, LoadSize
  <2>2. blk_sz' = Blocks(c.size)
    BY <2>1 DEF Push
  <2> QED BY <2>2 DEF Push
<1> HIDE DEF c, d
<1>8. blk_' \in Mem
  BY <1>1, <1>3, <1>6, <1>7 DEF Mem
<1>9. blk_'[write_idx_] = d /\ \A j \in 0 .. BLK_CNT - 1 : j # write_idx_ => blk_'[j] = blk_[j]
  BY <1>1, <1>3, <1>7 DEF Mem
<1>10. WindowIntact'
  <2>1. Intact(blk_, read_idx_, write_idx_, lo, hi)
    BY <1>7 DEF IInv, WindowIntact, Begin, End
  <2>2. \A j \in read_idx_ .. write_idx_ - 1 : j \in 0 .. BLK_CNT - 1 /\ j # write_idx_
    BY <1>1, QueueAssumption
  <2>3. Intact(blk_', read_idx_, write_idx_, lo, hi)
    BY <1>1, <1>8, <1>9, <2>1, <2>2, IntactFrame
  <2> QED BY <1>7, <2>3 DEF WindowIntact, Begin, End
<1>11. /\ c.size >= HeaderSize /\ write_idx_ < BLK_CNT /\ write_idx_ + Blocks(c.size) <= BLK_CNT
       /\ \A j \in write_idx_ + 1 .. write_idx_ + Blocks(c.size) - 1 :
            blk_[j].part = j - write_idx_ /\ blk_[j].id = hi
  BY <1>2 DEF Fresh, c
<1>12. Blocks(c.size) \in Nat /\ Blocks(c.size) \in 0 .. BLK_CNT
  <2>1. Blocks(c.size) \in Nat
    BY <1>4, CellType, BlocksType
  <2>2. write_idx_ + Blocks(c.size) <= BLK_CNT
    BY <1>11
  <2> QED BY <1>1, <2>1, <2>2, QueueAssumption
<1>13. Fresh(blk_', write_idx_, hi, "net")
  <2>1. \A j \in write_idx_ + 1 .. write_idx_ + Blocks(c.size) - 1 :
          blk_'[j].part = j - write_idx_ /\ blk_'[j].id = hi
    <3> TAKE j \in write_idx_ + 1 .. write_idx_ + Blocks(c.size) - 1
    <3>0. write_idx_ + Blocks(c.size) <= BLK_CNT
      BY <1>11
    <3>1. j \in 0 .. BLK_CNT - 1 /\ j # write_idx_
      BY <1>1, <1>12, <3>0, QueueAssumption
    <3> QED BY <1>9, <1>11, <3>1
  <2> QED BY <1>6, <1>9, <1>11, <2>1 DEF Fresh
<1>14. RoomInv'
  <2>1. blk_sz' = Blocks(blk_'[write_idx_].size)
    BY <1>6, <1>7, <1>9
  <2> QED BY <1>7, <1>13, <2>1 DEF RoomInv
<1>15. TypeOK'
  BY <1>7, <1>8, <1>12 DEF IInv, TypeOK, Steps, Mem
<1>16. IndexInv' /\ AckInv'
  BY <1>7 DEF IInv, IndexInv, AckInv
<1> QED BY <1>10, <1>14, <1>15, <1>16 DEF IInv

(* The store to write_idx_ makes the message part of the window.            *)
LEMMA PushCommitIInv == IInv /\ PushCommit => IInv'
<1> SUFFICES ASSUME IInv, PushCommit PROVE IInv'
  OBVIOUS
<1>1. /\ pc = "push" /\ pc' = "idle" /\ write_idx_' = write_idx_ + blk_sz /\ hi' = hi + 1
      /\ UNCHANGED <<blk_, read_idx_, send_idx_, read_seq_num_, ack_seq_num_,
                     size, blk_sz, target, ret, hdr, lo>>
  BY DEF PushCommit, local
<1>2. /\ blk_ \in Mem /\ write_idx_ \in 0 .. BLK_CNT /\ read_idx_ \in 0 .. BLK_CNT
      /\ send_idx_ \in 0 .. BLK_CNT /\ blk_sz \in 0 .. BLK_CNT
      /\ lo \in Nat /\ hi \in Nat /\ lo <= hi
  BY DEF IInv, TypeOK, Mem
<1>3. /\ Fresh(blk_, write_idx_, hi, "net") /\ blk_sz = Blocks(blk_[write_idx_].size)
      /\ hdr = Nil
  BY <1>1 DEF IInv, RoomInv
<1>4. Intact(blk_, read_idx_, write_idx_, lo, hi)
  BY <1>1 DEF IInv, WindowIntact, Begin, End
<1>5. write_idx_ + blk_sz <= BLK_CNT
  BY <1>3 DEF Fresh
<1>6. write_idx_ + blk_sz \in 0 .. BLK_CNT /\ write_idx_ <= write_idx_ + blk_sz
  BY <1>2, <1>5, QueueAssumption
<1>7. WindowIntact'
  <2>1. Intact(blk_, read_idx_, write_idx_ + blk_sz, lo, hi + 1)
    BY <1>2, <1>3, <1>4, IntactPush
  <2> QED BY <1>1, <2>1 DEF WindowIntact, Begin, End
<1>8. TypeOK'
  <2>1. hi + 1 \in Nat /\ lo <= hi + 1
    BY <1>2
  <2> QED BY <1>1, <1>6, <2>1 DEF IInv, TypeOK, Steps
<1>9. IndexInv'
  <2>1. read_idx_ <= send_idx_ /\ send_idx_ <= write_idx_
    BY <1>1 DEF IInv, IndexInv
  <2>2. send_idx_ <= write_idx_ + blk_sz
    BY <1>2, <1>6, <2>1, QueueAssumption
  <2> QED BY <1>1, <2>1, <2>2 DEF IndexInv
<1>10. RoomInv' /\ AckInv'
  BY <1>1, <1>3 DEF RoomInv, AckInv
<1> QED BY <1>7, <1>8, <1>9, <1>10 DEF IInv

(* Sendout moves send_idx_ towards write_idx_.                              *)
LEMMA SendoutIInv ==
    ASSUME IInv, NEW n \in 1 .. BLK_CNT, Sendout(n)
    PROVE  IInv'
<1>1. /\ pc = "idle" /\ n \in 1 .. write_idx_ - send_idx_ /\ send_idx_' = send_idx_ + n
      /\ UNCHANGED <<blk_, write_idx_, read_idx_, read_seq_num_, ack_seq_num_,
                     pc, size, blk_sz, target, ret, hdr, lo, hi>>
  BY DEF Sendout, GetSendable, local
<1>2. /\ write_idx_ \in 0 .. BLK_CNT /\ send_idx_ \in 0 .. BLK_CNT /\ read_idx_ \in 0 .. BLK_CNT
      /\ read_idx_ <= send_idx_ /\ send_idx_ <= write_idx_
  BY <1>1 DEF IInv, TypeOK, IndexInv
<1>3. send_idx_ + n \in 0 .. BLK_CNT /\ read_idx_ <= send_idx_ + n /\ send_idx_ + n <= write_idx_
  BY <1>1, <1>2, QueueAssumption
<1>4. TypeOK'
  BY <1>1, <1>3 DEF IInv, TypeOK
<1>5. WindowIntact'
  BY <1>1 DEF IInv, WindowIntact, Begin, End
<1>6. IndexInv'
  BY <1>1, <1>3 DEF IndexInv
<1>7. RoomInv' /\ AckInv'
  BY <1>1 DEF IInv, RoomInv, AckInv
<1> QED BY <1>4, <1>5, <1>6, <1>7 DEF IInv

(* A call of Ack enters the loop only with messages of the window to drop.  *)
LEMMA AckCallIInv ==
    ASSUME IInv, NEW k \in 1 - HalfSeq .. HalfSeq - 1, NEW caller \in {"idle", "login"},
           hdr = Nil, pc = "idle", lo + k <= hi, caller = "idle" => lo + k <= SentId,
           AckCall(Add(read_seq_num_, k), caller)
    PROVE  IInv'
<1> DEFINE t == Add(read_seq_num_, k)
<1>1. read_seq_num_ \in SeqNum
  BY DEF IInv, TypeOK
<1>2. t \in SeqNum /\ Signed(Sub(t, read_seq_num_)) = k /\ (k > 0 => Sub(t, read_seq_num_) = k)
  BY <1>1, AddSub
<1> HIDE DEF t
<1>3. /\ \/ pc' = caller /\ UNCHANGED <<target, ret>>
         \/ pc' = "ack_idx" /\ target' = t /\ ret' = caller /\ ~(k <= 0)
      /\ UNCHANGED <<blk_, write_idx_, read_idx_, send_idx_, read_seq_num_, ack_seq_num_,
                     size, blk_sz, hdr, lo, hi>>
  BY <1>2 DEF AckCall, mem, t
<1>4. TypeOK'
  BY <1>2, <1>3 DEF IInv, TypeOK, Steps
<1>5. WindowIntact'
  BY <1>3 DEF IInv, WindowIntact, Begin, End
<1>6. IndexInv'
  BY <1>3 DEF IInv, IndexInv
<1>7. RoomInv'
  BY <1>3 DEF RoomInv
<1>8. AckInv'
  <2>1. SentId' = SentId
    BY <1>3 DEF SentId, At
  <2>2. ASSUME pc' = "ack_idx"
        PROVE  target' = t /\ ret' = caller /\ Sub(t, read_seq_num_) = k /\ 0 < k
    BY <1>2, <1>3, <2>2
  <2>3. pc' # "ack_seq"
    BY <1>3
  <2> QED BY <1>3, <2>1, <2>2, <2>3 DEF AckInv
<1> QED BY <1>4, <1>5, <1>6, <1>7, <1>8 DEF IInv

(* The first message not sent completely is in the window or next to it.    *)
LEMMA SentIdBound ==
    ASSUME IInv, pc = "idle"
    PROVE  SentId \in Nat /\ SentId <= hi
<1>1. /\ blk_ \in Mem /\ write_idx_ \in 0 .. BLK_CNT /\ send_idx_ \in 0 .. BLK_CNT
      /\ read_idx_ \in 0 .. BLK_CNT /\ hi \in Nat
      /\ read_idx_ <= send_idx_ /\ send_idx_ <= write_idx_
  BY DEF IInv, TypeOK, Mem, IndexInv
<1>2. CASE send_idx_ = write_idx_
  BY <1>1, <1>2 DEF SentId
<1>3. CASE send_idx_ # write_idx_
  <2>1. send_idx_ \in read_idx_ .. write_idx_ - 1 /\ send_idx_ \in 0 .. BLK_CNT - 1
    BY <1>1, <1>3, QueueAssumption
  <2>2. Intact(blk_, read_idx_, write_idx_, lo, hi)
    BY DEF IInv, WindowIntact, Begin, End
  <2>3. blk_[send_idx_].id < hi /\ blk_[send_idx_].id \in Nat
    BY <1>1, <2>1, <2>2, MemCell DEF Intact
  <2>4. SentId = blk_[send_idx_].id
    BY <1>3, <2>1 DEF SentId, At
  <2> QED BY <1>1, <2>3, <2>4
<1> QED BY <1>2, <1>3

(* An iteration of Ack drops the first message of the window, which in a    *)
(* running connection has been sent.                                        *)
LEMMA AckIdxIInv == IInv /\ AckIdx => IInv'
<1> SUFFICES ASSUME IInv, AckIdx PROVE IInv'
  OBVIOUS
<1> DEFINE n == MsgLen(blk_[read_idx_])
           s == Sub(target, read_seq_num_)
<1>1. /\ blk_ \in Mem /\ write_idx_ \in 0 .. BLK_CNT /\ send_idx_ \in 0 .. BLK_CNT
      /\ read_idx_ \in 0 .. BLK_CNT /\ lo \in Nat /\ hi \in Nat /\ hdr = Nil
      /\ target \in SeqNum /\ read_seq_num_ \in SeqNum
  BY DEF IInv, TypeOK, Mem, RoomInv, AckIdx
<1>2. 0 < s /\ lo + s <= hi /\ (ret = "idle" => lo + s <= SentId)
  BY DEF IInv, AckInv, AckIdx
<1>3. s \in Nat
  <2>1. s \in SeqNum
    BY <1>1, SeqArith
  <2> QED BY <2>1, QueueAssumption DEF SeqNum, SeqMod
<1> HIDE DEF s
<1>4. lo < hi /\ lo + 1 <= hi
  BY <1>1, <1>2, <1>3
<1>5. Intact(blk_, read_idx_, write_idx_, lo, hi)
  BY DEF IInv, WindowIntact, Begin, End, AckIdx
<1>6. /\ read_idx_ < write_idx_ /\ n \in Nat /\ n >= 1 /\ read_idx_ + n <= write_idx_
      /\ \A j \in read_idx_ .. read_idx_ + n - 1 : blk_[j].id = lo
      /\ Intact(blk_, read_idx_ + n, write_idx_, lo + 1, hi)
  BY <1>1, <1>4, <1>5, IntactDrop
<1>7. read_idx_ \in 0 .. BLK_CNT - 1
  BY <1>1, <1>6, QueueAssumption
<1>8. /\ pc = "ack_idx" /\ pc' = "ack_seq" /\ read_idx_' = read_idx_ + n /\ lo' = lo + 1
      /\ UNCHANGED <<blk_, write_idx_, send_idx_, read_seq_num_, ack_seq_num_,
                     size, blk_sz, target, ret, hdr, hi>>
  BY <1>7 DEF AckIdx, At, MsgLen, local
<1> HIDE DEF n
<1>9. read_idx_ + n \in 0 .. BLK_CNT
  BY <1>1, <1>6, QueueAssumption
<1>10. TypeOK'
  <2>1. lo + 1 \in Nat
    BY <1>1
  <2> QED BY <1>4, <1>8, <1>9, <2>1 DEF IInv, TypeOK, Steps
<1>11. WindowIntact'
  BY <1>6, <1>8 DEF WindowIntact, Begin, End
<1>12. SentId' = SentId
  BY <1>8 DEF SentId, At
<1>13. ASSUME ret = "idle" PROVE read_idx_ + n <= send_idx_ /\ send_idx_ <= write_idx_
  <2>1. read_idx_ <= send_idx_ /\ send_idx_ <= write_idx_
    BY <1>8, <1>13 DEF IInv, IndexInv
  <2>2. CASE send_idx_ = write_idx_
    BY <1>6, <2>1, <2>2
  <2>3. CASE send_idx_ # write_idx_
    <3>1. send_idx_ \in 0 .. BLK_CNT - 1
      BY <1>1, <2>1, <2>3, QueueAssumption
    <3>2. SentId = blk_[send_idx_].id /\ SentId \in Nat
      BY <1>1, <2>3, <3>1, MemCell DEF SentId, At
    <3>3. blk_[send_idx_].id # lo
      BY <1>1, <1>2, <1>3, <1>13, <3>2
    <3>4. send_idx_ \notin read_idx_ .. read_idx_ + n - 1
      BY <1>6, <3>3
    <3> QED BY <1>1, <1>6, <2>1, <3>4, QueueAssumption
  <2> QED BY <2>2, <2>3
<1>14. IndexInv'
  BY <1>8, <1>13 DEF IndexInv
<1>15. AckInv'
  <2>1. lo + s = (lo + 1) + s - 1
    BY <1>1, <1>3
  <2> QED BY <1>2, <1>8, <1>12, <2>1 DEF AckInv, s
<1>16. RoomInv'
  BY <1>1, <1>8 DEF RoomInv
<1> QED BY <1>10, <1>11, <1>14, <1>15, <1>16 DEF IInv

(* The loop goes on while there is a message to drop, and ends at target.   *)
LEMMA AckSeqIInv == IInv /\ AckSeq => IInv'
<1> SUFFICES ASSUME IInv, AckSeq PROVE IInv'
  OBVIOUS
<1> DEFINE s == Sub(target, read_seq_num_)
           r == Inc(read_seq_num_)
<1>1. /\ target \in SeqNum /\ read_seq_num_ \in SeqNum /\ hdr = Nil
      /\ ret \in {"idle", "login"} /\ lo \in Nat
  BY DEF IInv, TypeOK, RoomInv, AckSeq
<1>2. 0 < s /\ lo + s - 1 <= hi /\ (ret = "idle" => lo + s - 1 <= SentId)
  BY DEF IInv, AckInv, AckSeq
<1>3. /\ r \in SeqNum /\ s \in SeqNum /\ Sub(target, r) \in SeqNum
      /\ Sub(target, r) = s - 1 /\ (Sub(target, r) = 0 <=> target = r)
  <2>1. r \in SeqNum /\ s \in SeqNum
    BY <1>1, SeqArith
  <2>2. Sub(target, r) = s - 1
    <3>1. s > 0
      BY <1>2, <2>1, QueueAssumption DEF SeqNum, SeqMod
    <3> QED BY <1>1, <3>1, SeqArith
  <2>3. Sub(target, r) \in SeqNum /\ (Sub(target, r) = 0 <=> target = r)
    BY <1>1, <2>1, SeqArith
  <2> QED BY <2>1, <2>2, <2>3
<1>4. /\ pc = "ack_seq" /\ read_seq_num_' = r
      /\ pc' = IF r # target THEN "ack_idx"
               ELSE IF read_idx_ = write_idx_ THEN "zero_s" ELSE ret
      /\ UNCHANGED <<blk_, write_idx_, read_idx_, send_idx_, ack_seq_num_,
                     size, blk_sz, target, ret, hdr, lo, hi>>
  BY DEF AckSeq, local
<1> HIDE DEF r, s
<1>5. TypeOK'
  BY <1>1, <1>3, <1>4 DEF IInv, TypeOK, Steps
<1>6. WindowIntact'
  BY <1>1, <1>4 DEF IInv, WindowIntact, Begin, End
<1>7. IndexInv'
  BY <1>1, <1>4 DEF IInv, IndexInv
<1>8. RoomInv'
  BY <1>1, <1>4 DEF RoomInv
<1>9. AckInv'
  <2>1. SentId' = SentId
    BY <1>4 DEF SentId, At
  <2>2. ASSUME pc' = "ack_idx"
        PROVE  /\ 0 < Sub(target, r) /\ lo + Sub(target, r) <= hi
               /\ ret = "idle" => lo + Sub(target, r) <= SentId
    <3>1. r # target
      BY <1>1, <1>4, <2>2
    <3>2. s \in Nat /\ s - 1 \in Nat /\ s - 1 # 0
      BY <1>3, <3>1, QueueAssumption DEF SeqNum, SeqMod
    <3>3. lo + (s - 1) = lo + s - 1
      BY <1>1, <3>2
    <3> QED BY <1>2, <1>3, <3>2, <3>3
  <2>3. pc' # "ack_seq"
    BY <1>1, <1>4
  <2> QED BY <1>4, <2>1, <2>2, <2>3 DEF AckInv
<1> QED BY <1>5, <1>6, <1>7, <1>8, <1>9 DEF IInv

(* The three stores that rewind an empty queue.                             *)
LEMMA AckZeroIInv == IInv /\ (AckZeroSend \/ AckZeroWrite \/ AckZeroRead) => IInv'
<1> SUFFICES ASSUME IInv, AckZeroSend \/ AckZeroWrite \/ AckZeroRead PROVE IInv'
  OBVIOUS
<1>0. hdr = Nil /\ ret \in {"idle", "login"} /\ 0 \in 0 .. BLK_CNT
  BY QueueAssumption DEF IInv, TypeOK, RoomInv, AckZeroSend, AckZeroWrite, AckZeroRead
<1>1. CASE AckZeroSend
  <2>1. /\ pc = "zero_s" /\ pc' = "zero_w" /\ send_idx_' = 0
        /\ UNCHANGED <<blk_, write_idx_, read_idx_, read_seq_num_, ack_seq_num_,
                       size, blk_sz, target, ret, hdr, lo, hi>>
    BY <1>1 DEF AckZeroSend, local
  <2>2. TypeOK'
    BY <1>0, <2>1 DEF IInv, TypeOK, Steps
  <2>3. WindowIntact'
    BY <2>1 DEF IInv, WindowIntact, Begin, End
  <2>4. IndexInv' /\ RoomInv' /\ AckInv'
    BY <1>0, <2>1 DEF IInv, IndexInv, RoomInv, AckInv
  <2> QED BY <2>2, <2>3, <2>4 DEF IInv
<1>2. CASE AckZeroWrite
  <2>1. /\ pc = "zero_w" /\ pc' = "zero_r" /\ write_idx_' = 0
        /\ UNCHANGED <<blk_, read_idx_, send_idx_, read_seq_num_, ack_seq_num_,
                       size, blk_sz, target, ret, hdr, lo, hi>>
    BY <1>2 DEF AckZeroWrite, local
  <2>2. TypeOK'
    BY <1>0, <2>1 DEF IInv, TypeOK, Steps
  <2>3. read_idx_ = write_idx_ /\ send_idx_ = 0
    BY <2>1 DEF IInv, IndexInv
  <2>4. WindowIntact'
    BY <2>1, <2>3 DEF IInv, WindowIntact, Begin, End
  <2>5. IndexInv' /\ RoomInv' /\ AckInv'
    BY <1>0, <2>1, <2>3 DEF IndexInv, RoomInv, AckInv
  <2> QED BY <2>2, <2>4, <2>5 DEF IInv
<1>3. CASE AckZeroRead
  <2>1. /\ pc = "zero_r" /\ pc' = ret /\ read_idx_' = 0
        /\ UNCHANGED <<blk_, write_idx_, send_idx_, read_seq_num_, ack_seq_num_,
                       size, blk_sz, target, ret, hdr, lo, hi>>
    BY <1>3 DEF AckZeroRead, local
  <2>2. TypeOK'
    BY <1>0, <2>1 DEF IInv, TypeOK, Steps
  <2>3. write_idx_ = 0 /\ send_idx_ = 0 /\ lo = hi
    <3>1. Intact(blk_, read_idx_, read_idx_, lo, hi)
      BY <2>1 DEF IInv, WindowIntact, Begin, End
    <3> QED BY <2>1, <3>1 DEF IInv, IndexInv, Intact
  <2>4. Intact(blk_, 0, 0, lo, hi)
    BY <2>3 DEF Intact
  <2>5. WindowIntact'
    BY <1>0, <2>1, <2>3, <2>4 DEF WindowIntact, Begin, End
  <2>6. IndexInv' /\ RoomInv' /\ AckInv'
    BY <1>0, <2>1, <2>3 DEF IndexInv, RoomInv, AckInv
  <2> QED BY <2>2, <2>5, <2>6 DEF IInv
<1> QED BY <1>1, <1>2, <1>3

(* After a login everything in the window is to be sent again.              *)
LEMMA LoginAckSendIInv == IInv /\ LoginAckSend => IInv'
<1> SUFFICES ASSUME IInv, LoginAckSend PROVE IInv'
  OBVIOUS
<1>1. /\ pc = "login" /\ pc' = "idle" /\ send_idx_' = read_idx_
      /\ UNCHANGED <<blk_, write_idx_, read_idx_, read_seq_num_, ack_seq_num_,
                     size, blk_sz, target, ret, hdr, lo, hi>>
  BY DEF LoginAckSend, local
<1>2. TypeOK'
  BY <1>1 DEF IInv, TypeOK, Steps
<1>3. WindowIntact' /\ read_idx_ <= write_idx_
  BY <1>1 DEF IInv, WindowIntact, Begin, End, Intact
<1>4. IndexInv'
  <2>1. read_idx_ <= read_idx_
    BY DEF IInv, TypeOK
  <2> QED BY <1>1, <1>3, <2>1 DEF IndexInv
<1>5. RoomInv' /\ AckInv'
  BY <1>1 DEF IInv, RoomInv, AckInv
<1> QED BY <1>2, <1>3, <1>4, <1>5 DEF IInv

LEMMA PoppedIInv == IInv /\ Popped => IInv'
<1> SUFFICES ASSUME IInv, Popped PROVE IInv'
  OBVIOUS
<1>1. /\ pc = "idle" /\ ack_seq_num_' = Inc(ack_seq_num_)
      /\ UNCHANGED <<blk_, write_idx_, read_idx_, send_idx_, read_seq_num_,
                     pc, size, blk_sz, target, ret, hdr, lo, hi>>
  BY DEF Popped, MyAckInc, local
<1>2. Inc(ack_seq_num_) \in SeqNum
  BY SeqArith DEF IInv, TypeOK
<1>3. TypeOK'
  BY <1>1, <1>2 DEF IInv, TypeOK
<1>4. WindowIntact'
  BY <1>1 DEF IInv, WindowIntact, Begin, End
<1>5. IndexInv' /\ RoomInv' /\ AckInv'
  BY <1>1 DEF IInv, IndexInv, RoomInv, AckInv
<1> QED BY <1>3, <1>4, <1>5 DEF IInv

(* Reset leaves an empty queue.                                             *)
LEMMA ResetIInv == IInv /\ ((hdr = Nil /\ Reset) \/ ResetZero) => IInv'
<1> SUFFICES ASSUME IInv, (hdr = Nil /\ Reset) \/ ResetZero PROVE IInv'
  OBVIOUS
<1>1. CASE hdr = Nil /\ Reset
  <2>1. /\ pc = "idle" /\ pc' = "reset" /\ hdr = Nil
        /\ UNCHANGED <<blk_, write_idx_, read_idx_, send_idx_, read_seq_num_, ack_seq_num_,
                       size, blk_sz, target, ret, hdr, lo, hi>>
    BY <1>1 DEF Reset, mem, local
  <2>2. TypeOK'
    BY <2>1 DEF IInv, TypeOK, Steps
  <2>3. WindowIntact'
    BY <2>1 DEF IInv, WindowIntact, Begin, End
  <2>4. IndexInv' /\ RoomInv' /\ AckInv'
    BY <2>1 DEF IInv, IndexInv, RoomInv, AckInv
  <2> QED BY <2>2, <2>3, <2>4 DEF IInv
<1>2. CASE ResetZero
  <2>1. /\ pc = "reset" /\ pc' = "idle" /\ blk_' = Zeroed(BLK_CNT)
        /\ write_idx_' = 0 /\ read_idx_' = 0 /\ send_idx_' = 0
        /\ read_seq_num_' = 0 /\ ack_seq_num_' = 0 /\ lo' = 0 /\ hi' = 0
        /\ UNCHANGED <<size, blk_sz, target, ret, hdr>>
    BY <1>2 DEF ResetZero, local
  <2>2. 0 \in MsgSize /\ 0 \in SeqNum /\ "host" \in ByteOrder
    BY QueueAssumption DEF MsgSize, SeqNum, SeqMod, ByteOrder
  <2>3. ZeroCell \in Cell
    BY <2>2 DEF ZeroCell, Cell
  <2>4. blk_ \in [0 .. BLK_CNT - 1 -> Cell] /\ hdr = Nil
    BY <2>1 DEF IInv, TypeOK, RoomInv
  <2>5. blk_' \in [0 .. BLK_CNT - 1 -> Cell]
    BY <2>1, <2>3, <2>4 DEF Zeroed
  <2>6. 0 \in 0 .. BLK_CNT /\ 0 \in Nat /\ 0 <= 0
    BY QueueAssumption
  <2>7. TypeOK'
    BY <2>1, <2>2, <2>5, <2>6 DEF IInv, TypeOK, Steps
  <2>8. Intact(blk_', 0, 0, 0, 0)
    BY DEF Intact
  <2>9. WindowIntact'
    BY <2>1, <2>8 DEF WindowIntact, Begin, End
  <2>10. IndexInv' /\ RoomInv' /\ AckInv'
    BY <2>1, <2>4, <2>6 DEF IndexInv, RoomInv, AckInv
  <2> QED BY <2>7, <2>9, <2>10 DEF IInv
<1> QED BY <1>1, <1>2

LEMMA StutterIInv == IInv /\ UNCHANGED vars => IInv'
<1> SUFFICES ASSUME IInv, UNCHANGED vars PROVE IInv'
  OBVIOUS
<1>1. UNCHANGED <<blk_, write_idx_, read_idx_, send_idx_, read_seq_num_, ack_seq_num_,
                  pc, size, blk_sz, target, ret, hdr, lo, hi>>
  BY DEF vars, mem, local
<1>2. TypeOK'
  BY <1>1 DEF IInv, TypeOK
<1>3. WindowIntact'
  BY <1>1 DEF IInv, WindowIntact, Begin, End
<1>4. IndexInv' /\ RoomInv'
  BY <1>1 DEF IInv, IndexInv, RoomInv
<1>5. AckInv'
  BY <1>1 DEF IInv, AckInv, SentId, At
<1> QED BY <1>2, <1>3, <1>4, <1>5 DEF IInv

LEMMA DeathIInv ==
    ASSUME IInv, Death
    PROVE  IInv'
<1>1. /\ Untouched /\ pc \in Steps /\ pc' = "idle" /\ hdr' = Nil
      /\ UNCHANGED <<blk_, write_idx_, read_idx_, send_idx_, read_seq_num_, ack_seq_num_, lo, hi>>
      /\ UNCHANGED <<size, blk_sz, target, ret>>
  BY DEF Death, mem, local, IInv, TypeOK
<1>2. TypeOK'
  BY <1>1 DEF IInv, TypeOK, Steps
<1>3. Begin' = Begin /\ End' = End
  BY <1>1 DEF Untouched, Begin, End
<1>4. WindowIntact'
  BY <1>1, <1>3 DEF IInv, WindowIntact
<1>5. IndexInv'
  BY <1>1 DEF Untouched, IInv, IndexInv
<1>6. RoomInv' /\ AckInv'
  BY <1>1 DEF RoomInv, AckInv
<1> QED BY <1>2, <1>4, <1>5, <1>6 DEF IInv

LEMMA NextIInv == IInv /\ [Next \/ Death]_vars => IInv'
<1> SUFFICES ASSUME IInv, [Next \/ Death]_vars PROVE IInv'
  OBVIOUS
<1>1. ASSUME NEW sz \in UserSizes, Alloc(sz) PROVE IInv'
  BY <1>1, AllocIInv
<1>2. ASSUME NEW n \in 1 .. BLK_CNT, Sendout(n) PROVE IInv'
  BY <1>2, SendoutIInv
<1>3. ASSUME NEW k \in 1 - HalfSeq .. HalfSeq - 1, Ack(k) PROVE IInv'
  <2>1. pc = "idle" /\ hdr = Nil /\ lo + k <= SentId /\ AckCall(Add(read_seq_num_, k), "idle")
    BY <1>3 DEF Ack
  <2>2. SentId \in Nat /\ SentId <= hi /\ lo \in Nat /\ hi \in Nat
    BY <2>1, SentIdBound DEF IInv, TypeOK
  <2>3. lo + k <= hi
    BY <2>1, <2>2, QueueAssumption
  <2> QED BY <2>1, <2>3, AckCallIInv
<1>4. ASSUME NEW k \in 0 .. HalfSeq - 1, LoginAck(k) PROVE IInv'
  <2>1. pc = "idle" /\ hdr = Nil /\ lo + k <= hi /\ AckCall(Add(read_seq_num_, k), "login")
    BY <1>4 DEF LoginAck, AckCall
  <2>2. k \in 1 - HalfSeq .. HalfSeq - 1
    BY QueueAssumption
  <2>3. "login" # "idle"
    OBVIOUS
  <2> QED BY <2>1, <2>2, <2>3, AckCallIInv
<1>5. ASSUME Internal PROVE IInv'
  BY <1>5, AllocMoveIInv, AllocIndexIInv, AllocHeaderIInv, PushCommitIInv, AckIdxIInv,
     AckSeqIInv, AckZeroIInv, LoginAckSendIInv, ResetIInv DEF Internal
<1>6. ASSUME Call PROVE IInv'
  BY <1>1, <1>2, <1>3, <1>4, <1>6, PushIInv, PoppedIInv, ResetIInv DEF Call
<1> QED BY <1>5, <1>6, StutterIInv, DeathIInv DEF Next

(* At every store of every call, and after a death, the variables keep      *)
(* their types: no index ever leaves blk_.                                  *)
THEOREM TypeCorrect == DeathSpec => []TypeOK
<1>1. IInv => TypeOK
  BY DEF IInv
<1> QED BY <1>1, InitIInv, NextIInv, PTL DEF DeathSpec

(* read_idx_ <= send_idx_ <= write_idx_ between calls, for every queue and  *)
(* every sequence of calls and deaths.                                      *)
THEOREM IndicesOrdered == DeathSpec => []IndexOrder
<1>1. IInv => IndexOrder
  BY DEF IInv, IndexInv, IndexOrder
<1> QED BY <1>1, InitIInv, NextIInv, PTL DEF DeathSpec

(* No call tears, loses or reorders an unacknowledged message, at any store *)
(* of memmove, Push, Ack, LoginAck and Reset; nor does a process that dies  *)
(* in Alloc or Push before an index is stored.                              *)
THEOREM WindowStaysIntact == DeathSpec => []WindowIntact
<1>1. IInv => WindowIntact
  BY DEF IInv
<1> QED BY <1>1, InitIInv, NextIInv, PTL DEF DeathSpec

-----------------------------------------------------------------------------
(* The sequence number of the first message. *)

LEMMA InitFirstSeq == Init => FirstSeq
<1> SUFFICES ASSUME Init PROVE FirstSeq
  OBVIOUS
<1>1. SeqMod \in Nat /\ SeqMod > 0 /\ 0 = SeqMod * 0 + 0 /\ 0 \in 0 .. SeqMod - 1
  BY QueueAssumption DEF SeqMod
<1>2. 0 % SeqMod = 0
  BY <1>1, ModUnique
<1> QED BY <1>2 DEF Init, FirstSeq

(* A step that leaves the two alone and does not enter or leave the loop.   *)
LEMMA QuietFirstSeq ==
    ASSUME FirstSeq, UNCHANGED <<read_seq_num_, lo>>, pc # "ack_seq", pc' # "ack_seq"
    PROVE  FirstSeq'
BY DEF FirstSeq

LEMMA NextFirstSeq == IInv /\ FirstSeq /\ [Next \/ Death]_vars => FirstSeq'
<1> SUFFICES ASSUME IInv, FirstSeq, [Next \/ Death]_vars PROVE FirstSeq'
  OBVIOUS
<1>1. CASE AckIdx
  <2>1. lo \in Nat /\ lo' = lo + 1 /\ read_seq_num_' = read_seq_num_
        /\ pc = "ack_idx" /\ pc' = "ack_seq"
    BY <1>1 DEF AckIdx, IInv, TypeOK
  <2>2. lo' - 1 = lo
    BY <2>1
  <2> QED BY <2>1, <2>2 DEF FirstSeq
<1>2. CASE AckSeq
  <2>1. /\ lo \in Nat /\ lo' = lo /\ read_seq_num_' = Inc(read_seq_num_)
        /\ pc = "ack_seq" /\ pc' # "ack_seq"
    BY <1>2 DEF AckSeq, IInv, TypeOK
  <2>2. read_seq_num_ = (lo - 1) % SeqMod
    BY <2>1 DEF FirstSeq
  <2>3. lo - 1 \in Int /\ (lo - 1) + 1 = lo
    BY <2>1
  <2>4. lo % SeqMod = Inc((lo - 1) % SeqMod)
    BY <2>3, ModInc, QueueAssumption
  <2> QED BY <2>1, <2>2, <2>4 DEF FirstSeq
<1>3. CASE ResetZero
  <2>1. read_seq_num_' = 0 /\ lo' = 0 /\ pc' = "idle"
    BY <1>3 DEF ResetZero
  <2>2. SeqMod \in Nat /\ SeqMod > 0 /\ 0 = SeqMod * 0 + 0 /\ 0 \in 0 .. SeqMod - 1
    BY QueueAssumption DEF SeqMod
  <2>3. 0 % SeqMod = 0
    BY <2>2, ModUnique
  <2> QED BY <2>1, <2>3 DEF FirstSeq
<1>4. CASE AllocMove \/ AllocMoveWrite \/ AllocMoveSend \/ AllocMoveRead \/ AllocHeader
           \/ PushCommit \/ AckZeroSend \/ AckZeroWrite
  BY <1>4, QuietFirstSeq DEF AllocMove, AllocMoveWrite, AllocMoveSend, AllocMoveRead,
     AllocHeader, PushCommit, AckZeroSend, AckZeroWrite
<1>5. CASE AckZeroRead \/ LoginAckSend
  BY <1>5, QuietFirstSeq DEF AckZeroRead, LoginAckSend, IInv, TypeOK
<1>6. CASE Call
  <2>1. ASSUME NEW sz \in UserSizes, Alloc(sz) PROVE FirstSeq'
    BY <2>1, QuietFirstSeq DEF Alloc, mem
  <2>2. ASSUME NEW n \in 1 .. BLK_CNT, Sendout(n) PROVE FirstSeq'
    BY <2>2, QuietFirstSeq DEF Sendout
  <2>3. ASSUME NEW s, NEW caller \in {"idle", "login"}, AckCall(s, caller) PROVE FirstSeq'
    BY <2>3, QuietFirstSeq DEF AckCall, mem
  <2>4. CASE Push \/ Popped \/ (hdr = Nil /\ Reset)
    BY <2>4, QuietFirstSeq DEF Push, Popped, MyAckInc, Reset, mem
  <2> QED BY <1>6, <2>1, <2>2, <2>3, <2>4 DEF Call, Ack, LoginAck
<1>7. CASE UNCHANGED vars
  BY <1>7 DEF FirstSeq, vars, mem
<1>8. CASE Death
  BY <1>8, QuietFirstSeq DEF Death, Untouched, mem
<1> QED BY <1>1, <1>2, <1>3, <1>4, <1>5, <1>6, <1>7, <1>8 DEF Next, Internal

(* At every store read_seq_num_ is the number of the message read_idx_      *)
(* points to, however often the numbers have wrapped and whatever width     *)
(* they have: Ack's loop takes both forward together, Reset puts both back. *)
THEOREM FirstSeqKept == DeathSpec => []FirstSeq
<1>1. IInv /\ FirstSeq /\ [Next \/ Death]_vars => (IInv /\ FirstSeq)'
  BY NextIInv, NextFirstSeq
<1> QED BY <1>1, InitIInv, InitFirstSeq, PTL DEF DeathSpec

-----------------------------------------------------------------------------
(* The walk of the login check over the headers.  It is a recursive         *)
(* function: that it exists, and what it returns, is shown block by block   *)
(* from the end of the window.                                              *)

LEMMA Smallest ==
    ASSUME NEW T \in SUBSET Nat, T # {}
    PROVE  \E m \in T : \A n \in T : m <= n
<1>1. PICK m \in T : \A n \in T : ~(<<n, m>> \in OpToRel(<, Nat))
  BY NatLessThanWellFounded, WFMin
<1>2. ASSUME NEW n \in T PROVE m <= n
  <2>1. n \in Nat /\ m \in Nat
    OBVIOUS
  <2>2. n < m => <<n, m>> \in OpToRel(<, Nat)
    BY <2>1 DEF OpToRel
  <2>3. ~(<<n, m>> \in OpToRel(<, Nat))
    BY <1>1
  <2>4. ~(n < m)
    BY ONLY <2>2, <2>3, Zenon
  <2> QED BY ONLY <2>1, <2>4
<1> QED BY <1>2

Result == [res : {"ok", "bad", "hang"}, msgs : Nat]

\* One step of the walk, with f for the rest of it.
StepOf(f, i) ==
    IF i >= write_idx_
    THEN [res |-> IF i = write_idx_ THEN "ok" ELSE "bad", msgs |-> 0]
    ELSE LET h == ConvertByteOrder(At(i))
             n == Blocks(LoadSize(h))
         IN CASE Signed(Sub(ack_seq_num_, h.ack)) < 0 -> [res |-> "bad", msgs |-> 0]
              [] n = 0  -> [res |-> "hang", msgs |-> 0]
              [] OTHER  -> [f[i + n] EXCEPT !.msgs = @ + 1]

LEMMA ResultInc ==
    ASSUME NEW r \in Result
    PROVE  /\ [r EXCEPT !.msgs = @ + 1] \in Result
           /\ [r EXCEPT !.msgs = @ + 1].res = r.res
           /\ [r EXCEPT !.msgs = @ + 1].msgs = r.msgs + 1
BY DEF Result

(* The size read from a header, whatever its byte order, is a number.       *)
LEMMA LoadSizeType ==
    ASSUME NEW c \in Cell
    PROVE  Blocks(LoadSize(c)) \in Nat
<1>1. c.size \in Nat
  BY CellType, SizeNat
<1>2. ASSUME NEW x \in Nat PROVE bswap16(x) \in Nat
  BY DEF bswap16
<1>3. LoadSize(c) \in Nat
  BY <1>1, <1>2 DEF LoadSize
<1>4. ASSUME NEW x \in Nat PROVE Blocks(x) \in Nat
  BY DEF Blocks, HeaderSize
<1> QED BY <1>3, <1>4

LEMMA AtType ==
    ASSUME TypeOK, NEW i \in Nat
    PROVE  At(i) \in Cell
<1>1. ZeroCell \in Cell
  <2>1. 0 \in MsgSize /\ 0 \in SeqNum /\ "host" \in ByteOrder
    BY QueueAssumption DEF MsgSize, SeqNum, SeqMod, ByteOrder
  <2> QED BY <2>1 DEF ZeroCell, Cell
<1> QED BY <1>1 DEF At, TypeOK

(* A step returns a result, and uses f only behind i.                       *)
LEMMA StepOfType ==
    ASSUME TypeOK, NEW f \in [Nat -> Result], NEW i \in Nat
    PROVE  /\ StepOf(f, i) \in Result
           /\ \A g \in [Nat -> Result] :
                (\A j \in Nat : j > i => g[j] = f[j]) => StepOf(g, i) = StepOf(f, i)
<1> DEFINE h == ConvertByteOrder(At(i))
           n == Blocks(LoadSize(h))
<1>1. n \in Nat
  BY AtType, ConvertType, LoadSizeType
<1> HIDE DEF n
<1>2. i + n \in Nat /\ (n # 0 => i + n > i)
  BY <1>1
<1>3. f[i + n] \in Result /\ [f[i + n] EXCEPT !.msgs = @ + 1] \in Result
  BY <1>2, ResultInc
<1>4. [res |-> "bad", msgs |-> 0] \in Result /\ [res |-> "hang", msgs |-> 0] \in Result
      /\ [res |-> IF i = write_idx_ THEN "ok" ELSE "bad", msgs |-> 0] \in Result
  BY DEF Result
<1>5. StepOf(f, i) \in Result
  BY <1>3, <1>4 DEF StepOf, n
<1>6. ASSUME NEW g \in [Nat -> Result], \A j \in Nat : j > i => g[j] = f[j]
      PROVE  StepOf(g, i) = StepOf(f, i)
  <2>1. n # 0 => g[i + n] = f[i + n]
    BY <1>2, <1>6
  <2> QED BY <2>1 DEF StepOf, n
<1> QED BY <1>5, <1>6

\* f is the walk from k blocks before the end.
WalkFrom(f, k) == \A i \in Nat : i >= write_idx_ - k => f[i] = StepOf(f, i)

LEMMA WalkExists ==
    ASSUME TypeOK
    PROVE  \E f \in [Nat -> Result] : \A i \in Nat : f[i] = StepOf(f, i)
<1> DEFINE T == {k \in Nat : ~\E f \in [Nat -> Result] : WalkFrom(f, k)}
<1>0. write_idx_ \in Nat
  BY QueueAssumption DEF TypeOK
<1>1. ASSUME NEW m \in T, \A n \in T : m <= n PROVE FALSE
  <2>1. CASE m = 0
    <3> DEFINE z == [i \in Nat |-> [res |-> "bad", msgs |-> 0]]
               f == [i \in Nat |-> StepOf(z, i)]
    <3>1. z \in [Nat -> Result]
      BY DEF Result
    <3> HIDE DEF z
    <3>2. f \in [Nat -> Result]
      BY <3>1, StepOfType
    <3>3. ASSUME NEW i \in Nat, i >= write_idx_ - 0 PROVE f[i] = StepOf(f, i)
      <4>1. i >= write_idx_
        BY <1>0, <3>3
      <4>2. f[i] = StepOf(z, i)
        OBVIOUS
      <4> HIDE DEF f
      <4> QED BY <4>1, <4>2 DEF StepOf
    <3> HIDE DEF f
    <3>4. WalkFrom(f, 0)
      BY <3>3 DEF WalkFrom
    <3> QED BY <2>1, <3>2, <3>4
  <2>2. CASE m # 0
    <3>1. m - 1 \in Nat /\ m - 1 \notin T
      BY <1>1, <2>2
    <3>2. PICK f \in [Nat -> Result] : WalkFrom(f, m - 1)
      BY <3>1
    <3> DEFINE j == write_idx_ - m
               g == [f EXCEPT ![j] = StepOf(f, j)]
    <3>3. CASE j \in Nat
      <4> HIDE DEF j
      <4>1. StepOf(f, j) \in Result
        BY <3>3, StepOfType
      <4>2. g \in [Nat -> Result] /\ g[j] = StepOf(f, j) /\ \A i \in Nat : i # j => g[i] = f[i]
        BY <3>3, <4>1
      <4> HIDE DEF g
      <4>3. ASSUME NEW i \in Nat, i >= write_idx_ - m PROVE g[i] = StepOf(g, i)
        <5>1. i = j \/ (i # j /\ i >= write_idx_ - (m - 1))
          BY <1>0, <4>3 DEF j
        <5>2. \A y \in Nat : y > i => g[y] = f[y]
          <6> TAKE y \in Nat
          <6>1. y > i => y # j
            BY <1>0, <4>3 DEF j
          <6> QED BY <4>2, <6>1
        <5>3. StepOf(g, i) = StepOf(f, i)
          BY <4>2, <5>2, StepOfType
        <5>4. CASE i = j
          BY <4>2, <5>3, <5>4
        <5>5. CASE i # j /\ i >= write_idx_ - (m - 1)
          <6>1. f[i] = StepOf(f, i)
            BY <3>2, <5>5 DEF WalkFrom
          <6> QED BY <4>2, <5>3, <5>5, <6>1
        <5> QED BY <5>1, <5>4, <5>5
      <4>4. WalkFrom(g, m)
        BY <4>3 DEF WalkFrom
      <4> QED BY <4>2, <4>4
    <3>4. CASE j \notin Nat
      <4>1. \A i \in Nat : i >= write_idx_ - (m - 1)
        BY <1>0, <3>1, <3>4
      <4>2. WalkFrom(f, m)
        BY <3>2, <4>1 DEF WalkFrom
      <4> QED BY <4>2
    <3> QED BY <3>3, <3>4
  <2> QED BY <2>1, <2>2
<1>2. T = {}
  <2>1. T \in SUBSET Nat
    OBVIOUS
  <2> HIDE DEF T
  <2> QED BY <1>1, <2>1, Smallest
<1>3. PICK f \in [Nat -> Result] : WalkFrom(f, write_idx_)
  BY <1>0, <1>2
<1>4. \A i \in Nat : i >= write_idx_ - write_idx_
  BY <1>0
<1> QED BY <1>3, <1>4 DEF WalkFrom

(* The walk of the code is that function.                                   *)
LEMMA WalkEquation ==
    ASSUME TypeOK
    PROVE  \A i \in Nat : walk[i] = StepOf(walk, i)
<1>1. PICK f \in [Nat -> Result] : \A i \in Nat : f[i] = StepOf(f, i)
  BY WalkExists
<1>2. f = [i \in Nat |-> StepOf(f, i)]
  BY <1>1
<1>3. walk = CHOOSE w : w = [i \in Nat |-> StepOf(w, i)]
  BY DEF walk, StepOf
<1>4. walk = [i \in Nat |-> StepOf(walk, i)]
  BY <1>2, <1>3, Zenon
<1> HIDE DEF walk
<1> QED BY <1>4

-----------------------------------------------------------------------------
(* The acks that the queued headers carry. *)

\* No header carries an ack that a later one falls behind, and none is more
\* than AckLead messages old.
AcksOrdered(blk, b, e, a) ==
    \A j \in b .. e - 1 : blk[j].part = 0 =>
      /\ Sub(a, blk[j].ack) <= AckLead
      /\ \A i \in b .. j : blk[i].part = 0 => Sub(a, blk[j].ack) <= Sub(a, blk[i].ack)

\* What SanityCheckSound needs besides IInv and FirstSeq.
AcksInv ==
    /\ AcksOrdered(blk_, Begin, End, ack_seq_num_)
    /\ pc = "push" => blk_[write_idx_].ack = ack_seq_num_

LEMMA WindowType == IInv => Begin \in 0 .. BLK_CNT /\ End \in 0 .. BLK_CNT
<1> SUFFICES ASSUME IInv PROVE Begin \in 0 .. BLK_CNT /\ End \in 0 .. BLK_CNT
  OBVIOUS
<1>1. write_idx_ \in 0 .. BLK_CNT /\ read_idx_ \in 0 .. BLK_CNT
  BY DEF IInv, TypeOK
<1>2. pc = "move_w" => write_idx_ - read_idx_ \in 0 .. BLK_CNT
  <2> HAVE pc = "move_w"
  <2>1. send_idx_ \in 0 .. BLK_CNT /\ read_idx_ <= send_idx_ /\ send_idx_ <= write_idx_
    BY DEF IInv, TypeOK, IndexInv
  <2> QED BY <1>1, <2>1, QueueAssumption
<1>3. 0 \in 0 .. BLK_CNT
  BY QueueAssumption
<1> QED BY <1>1, <1>2, <1>3 DEF Begin, End

(* A step that leaves what it keeps of the window d blocks further down.    *)
LEMMA AcksKept ==
    ASSUME IInv, IInv', AcksInv, NEW d \in Nat,
           \A j \in Begin' .. End' - 1 : j + d \in Begin .. End - 1 /\ blk_'[j] = blk_[j + d],
           ack_seq_num_' = ack_seq_num_, pc' # "push"
    PROVE  AcksInv'
<1>0. AcksOrdered(blk_, Begin, End, ack_seq_num_)
  BY DEF AcksInv
<1>1. PICK b, e, b2, e2 : b = Begin /\ e = End /\ b2 = Begin' /\ e2 = End'
  OBVIOUS
<1>2. b \in 0 .. BLK_CNT /\ e \in 0 .. BLK_CNT
  BY <1>1, WindowType
<1>3. b2 \in 0 .. BLK_CNT /\ e2 \in 0 .. BLK_CNT
  <2>1. (Begin \in 0 .. BLK_CNT /\ End \in 0 .. BLK_CNT)'
    BY WindowType, PTL
  <2> QED BY <1>1, <2>1
<1>4. ASSUME NEW j \in b2 .. e2 - 1, blk_'[j].part = 0
      PROVE  /\ Sub(ack_seq_num_, blk_'[j].ack) <= AckLead
             /\ \A i \in b2 .. j : blk_'[i].part = 0 =>
                  Sub(ack_seq_num_, blk_'[j].ack) <= Sub(ack_seq_num_, blk_'[i].ack)
  <2>1. j + d \in b .. e - 1 /\ blk_'[j] = blk_[j + d]
    BY <1>1
  <2>2. /\ Sub(ack_seq_num_, blk_'[j].ack) <= AckLead
        /\ \A i \in b .. j + d : blk_[i].part = 0 =>
             Sub(ack_seq_num_, blk_[j + d].ack) <= Sub(ack_seq_num_, blk_[i].ack)
    BY <1>0, <1>1, <1>4, <2>1 DEF AcksOrdered
  <2>3. ASSUME NEW i \in b2 .. j, blk_'[i].part = 0
        PROVE  Sub(ack_seq_num_, blk_'[j].ack) <= Sub(ack_seq_num_, blk_'[i].ack)
    <3>1. i \in b2 .. e2 - 1
      BY <1>3, QueueAssumption
    <3>2. i + d \in b .. e - 1 /\ blk_'[i] = blk_[i + d]
      BY <1>1, <3>1
    <3>3. i + d \in b .. j + d
      BY <1>2, <1>3, <3>1, <3>2, QueueAssumption
    <3> QED BY <2>1, <2>2, <2>3, <3>2, <3>3
  <2> QED BY <2>2, <2>3
<1>5. AcksOrdered(blk_', b2, e2, ack_seq_num_)
  BY <1>4 DEF AcksOrdered
<1> QED BY <1>1, <1>5 DEF AcksInv

LEMMA QuietAcks ==
    ASSUME IInv, IInv', AcksInv, Begin <= Begin', End' <= End,
           \A j \in Begin' .. End' - 1 : blk_'[j] = blk_[j],
           ack_seq_num_' = ack_seq_num_, pc' # "push"
    PROVE  AcksInv'
<1>1. PICK b, e, b2, e2 : b = Begin /\ e = End /\ b2 = Begin' /\ e2 = End'
  OBVIOUS
<1>2. b \in 0 .. BLK_CNT /\ e \in 0 .. BLK_CNT
  BY <1>1, WindowType
<1>3. b2 \in 0 .. BLK_CNT /\ e2 \in 0 .. BLK_CNT
  <2>1. (Begin \in 0 .. BLK_CNT /\ End \in 0 .. BLK_CNT)'
    BY WindowType, PTL
  <2> QED BY <1>1, <2>1
<1>4. \A j \in b2 .. e2 - 1 : j + 0 = j /\ j \in b .. e - 1
  <2>1. b <= b2 /\ e2 <= e
    BY <1>1
  <2> QED BY <1>2, <1>3, <2>1, QueueAssumption
<1>5. \A j \in b2 .. e2 - 1 : j + 0 \in b .. e - 1 /\ blk_'[j] = blk_[j + 0]
  BY <1>1, <1>4
<1> QED BY <1>1, <1>5, AcksKept

LEMMA InitAcks == Init => AcksInv
<1> SUFFICES ASSUME Init PROVE AcksInv
  OBVIOUS
<1>1. Begin = 0 /\ End = 0 /\ pc = "idle"
  BY DEF Init, Begin, End
<1>2. \A j \in 0 .. 0 - 1 : FALSE
  OBVIOUS
<1> QED BY <1>1, <1>2 DEF AcksInv, AcksOrdered

(* One more message has been popped since the header was stamped.           *)
LEMMA SubInc ==
    ASSUME NEW a \in SeqNum, NEW x \in SeqNum, Sub(a, x) < HalfSeq
    PROVE  Sub(Inc(a), x) = Sub(a, x) + 1
BY QueueAssumption DEF Inc, Sub, SeqNum, SeqMod

LEMMA SubSelf == ASSUME NEW a \in SeqNum PROVE Sub(a, a) = 0
BY QueueAssumption DEF Sub, SeqNum, SeqMod

LEMMA PoppedAcks == IInv /\ AcksInv /\ Popped => AcksInv'
<1> SUFFICES ASSUME IInv, AcksInv, Popped PROVE AcksInv'
  OBVIOUS
<1>1. /\ read_idx_ < write_idx_ => Sub(ack_seq_num_, At(read_idx_).ack) < AckLead
      /\ pc = "idle" /\ ack_seq_num_' = Inc(ack_seq_num_)
      /\ UNCHANGED <<blk_, write_idx_, read_idx_, pc>>
  BY DEF Popped, MyAckInc
<1>2. /\ blk_ \in Mem /\ ack_seq_num_ \in SeqNum /\ AckLead \in Nat /\ AckLead < HalfSeq
      /\ read_idx_ \in 0 .. BLK_CNT /\ write_idx_ \in 0 .. BLK_CNT
  BY QueueAssumption, BoundAssumption DEF IInv, TypeOK, Mem
<1>3. AcksOrdered(blk_, read_idx_, write_idx_, ack_seq_num_)
      /\ Intact(blk_, read_idx_, write_idx_, lo, hi)
  BY <1>1 DEF AcksInv, Begin, End, IInv, WindowIntact
<1>4. ASSUME NEW j \in read_idx_ .. write_idx_ - 1, blk_[j].part = 0
      PROVE  /\ Sub(ack_seq_num_, blk_[j].ack) \in Nat
             /\ Sub(ack_seq_num_, blk_[j].ack) < AckLead
             /\ Sub(Inc(ack_seq_num_), blk_[j].ack) = Sub(ack_seq_num_, blk_[j].ack) + 1
  <2>1. j \in 0 .. BLK_CNT - 1 /\ read_idx_ \in 0 .. BLK_CNT - 1 /\ read_idx_ < write_idx_
        /\ read_idx_ \in read_idx_ .. j
    BY <1>2, <1>4, QueueAssumption
  <2>2. blk_[j].ack \in SeqNum /\ blk_[read_idx_].ack \in SeqNum
    BY <1>2, <2>1, MemCell, CellType
  <2>3. blk_[read_idx_].part = 0
    BY <1>3, <2>1 DEF Intact
  <2>4. Sub(ack_seq_num_, blk_[j].ack) <= Sub(ack_seq_num_, blk_[read_idx_].ack)
    BY <1>3, <1>4, <2>1, <2>3 DEF AcksOrdered
  <2>5. Sub(ack_seq_num_, blk_[read_idx_].ack) < AckLead
    BY <1>1, <2>1 DEF At
  <2>6. Sub(ack_seq_num_, blk_[j].ack) \in SeqNum /\ Sub(ack_seq_num_, blk_[read_idx_].ack) \in SeqNum
    BY <1>2, <2>2, SeqArith
  <2>7. Sub(ack_seq_num_, blk_[j].ack) \in Nat /\ Sub(ack_seq_num_, blk_[read_idx_].ack) \in Nat
    BY <2>6, QueueAssumption DEF SeqNum, SeqMod
  <2>8. Sub(ack_seq_num_, blk_[j].ack) < AckLead /\ Sub(ack_seq_num_, blk_[j].ack) < HalfSeq
    BY <1>2, <2>4, <2>5, <2>7, QueueAssumption
  <2> QED BY <1>2, <2>2, <2>7, <2>8, SubInc
<1>5. ASSUME NEW j \in read_idx_ .. write_idx_ - 1, blk_[j].part = 0
      PROVE  /\ Sub(Inc(ack_seq_num_), blk_[j].ack) <= AckLead
             /\ \A i \in read_idx_ .. j : blk_[i].part = 0 =>
                  Sub(Inc(ack_seq_num_), blk_[j].ack) <= Sub(Inc(ack_seq_num_), blk_[i].ack)
  <2>1. Sub(Inc(ack_seq_num_), blk_[j].ack) <= AckLead
    BY <1>2, <1>4, <1>5
  <2>2. ASSUME NEW i \in read_idx_ .. j, blk_[i].part = 0
        PROVE  Sub(Inc(ack_seq_num_), blk_[j].ack) <= Sub(Inc(ack_seq_num_), blk_[i].ack)
    <3>1. i \in read_idx_ .. write_idx_ - 1
      BY <1>2, QueueAssumption
    <3>2. Sub(ack_seq_num_, blk_[j].ack) <= Sub(ack_seq_num_, blk_[i].ack)
      BY <1>3, <1>5, <2>2 DEF AcksOrdered
    <3>3. /\ Sub(Inc(ack_seq_num_), blk_[i].ack) = Sub(ack_seq_num_, blk_[i].ack) + 1
          /\ Sub(Inc(ack_seq_num_), blk_[j].ack) = Sub(ack_seq_num_, blk_[j].ack) + 1
          /\ Sub(ack_seq_num_, blk_[i].ack) \in Nat /\ Sub(ack_seq_num_, blk_[j].ack) \in Nat
      BY <1>4, <1>5, <2>2, <3>1
    <3> QED BY ONLY <3>2, <3>3
  <2> QED BY <2>1, <2>2
<1>6. AcksOrdered(blk_, read_idx_, write_idx_, Inc(ack_seq_num_))
  BY <1>5 DEF AcksOrdered
<1> QED BY <1>1, <1>6 DEF AcksInv, Begin, End

(* A header stamped with the newest ack comes last.                         *)
LEMMA PushCommitAcks == IInv /\ AcksInv /\ PushCommit => AcksInv'
<1> SUFFICES ASSUME IInv, AcksInv, PushCommit PROVE AcksInv'
  OBVIOUS
<1>1. /\ pc = "push" /\ pc' = "idle" /\ write_idx_' = write_idx_ + blk_sz
      /\ UNCHANGED <<blk_, read_idx_, ack_seq_num_>>
  BY DEF PushCommit
<1>2. /\ blk_ \in Mem /\ ack_seq_num_ \in SeqNum /\ blk_sz \in 0 .. BLK_CNT
      /\ read_idx_ \in 0 .. BLK_CNT /\ write_idx_ \in 0 .. BLK_CNT /\ AckLead \in Nat
  BY BoundAssumption, QueueAssumption DEF IInv, TypeOK, Mem
<1>3. AcksOrdered(blk_, read_idx_, write_idx_, ack_seq_num_) /\ blk_[write_idx_].ack = ack_seq_num_
  BY <1>1 DEF AcksInv, Begin, End
<1>4. Fresh(blk_, write_idx_, hi, "net") /\ blk_sz = Blocks(blk_[write_idx_].size)
  BY <1>1 DEF IInv, RoomInv
<1>5. /\ \A j \in write_idx_ + 1 .. write_idx_ + blk_sz - 1 : blk_[j].part = j - write_idx_
      /\ write_idx_ < BLK_CNT /\ write_idx_ + blk_sz <= BLK_CNT
  BY <1>4 DEF Fresh
<1>6. ASSUME NEW j \in read_idx_ .. write_idx_ + blk_sz - 1, blk_[j].part = 0
      PROVE  j \in read_idx_ .. write_idx_ - 1 \/ j = write_idx_
  <2>1. j \in read_idx_ .. write_idx_ - 1 \/ j = write_idx_ \/ j \in write_idx_ + 1 .. write_idx_ + blk_sz - 1
    BY <1>2, QueueAssumption
  <2>2. ASSUME j \in write_idx_ + 1 .. write_idx_ + blk_sz - 1 PROVE FALSE
    <3>1. blk_[j].part = j - write_idx_
      BY <1>5, <2>2
    <3> QED BY <1>2, <1>6, <2>2, <3>1, QueueAssumption
  <2> QED BY <2>1, <2>2
<1>7. ASSUME NEW j \in read_idx_ .. write_idx_ + blk_sz - 1, blk_[j].part = 0
      PROVE  /\ Sub(ack_seq_num_, blk_[j].ack) <= AckLead
             /\ \A i \in read_idx_ .. j : blk_[i].part = 0 =>
                  Sub(ack_seq_num_, blk_[j].ack) <= Sub(ack_seq_num_, blk_[i].ack)
  <2>1. CASE j \in read_idx_ .. write_idx_ - 1
    BY <1>3, <1>7, <2>1 DEF AcksOrdered
  <2>2. CASE j = write_idx_
    <3>1. Sub(ack_seq_num_, blk_[j].ack) = 0
      BY <1>2, <1>3, <2>2, SubSelf
    <3>2. ASSUME NEW i \in read_idx_ .. j
          PROVE  Sub(ack_seq_num_, blk_[i].ack) \in Nat
      <4>1. i \in 0 .. BLK_CNT - 1
        BY <1>2, <1>5, <2>2, QueueAssumption
      <4>2. blk_[i].ack \in SeqNum
        BY <1>2, <4>1, MemCell, CellType
      <4>3. Sub(ack_seq_num_, blk_[i].ack) \in SeqNum
        BY <1>2, <4>2, SeqArith
      <4> QED BY <4>3, QueueAssumption DEF SeqNum, SeqMod
    <3> QED BY <1>2, <3>1, <3>2
  <2> QED BY <1>6, <1>7, <2>1, <2>2
<1>8. AcksOrdered(blk_, read_idx_, write_idx_ + blk_sz, ack_seq_num_)
  <2>1. PICK e : e = write_idx_ + blk_sz
    OBVIOUS
  <2>2. ASSUME NEW j \in read_idx_ .. e - 1, blk_[j].part = 0
        PROVE  /\ Sub(ack_seq_num_, blk_[j].ack) <= AckLead
               /\ \A i \in read_idx_ .. j : blk_[i].part = 0 =>
                    Sub(ack_seq_num_, blk_[j].ack) <= Sub(ack_seq_num_, blk_[i].ack)
    <3>1. j \in read_idx_ .. write_idx_ + blk_sz - 1
      BY <1>2, <2>1, QueueAssumption
    <3> QED BY <1>7, <2>2, <3>1
  <2>3. AcksOrdered(blk_, read_idx_, e, ack_seq_num_)
    BY <2>2 DEF AcksOrdered
  <2> QED BY <2>1, <2>3
<1> QED BY <1>1, <1>8 DEF AcksInv, Begin, End

LEMMA NextAcks == IInv /\ AcksInv /\ [Next \/ Death]_vars => AcksInv'
<1> SUFFICES ASSUME IInv, AcksInv, [Next \/ Death]_vars PROVE AcksInv'
  OBVIOUS
<1>0. IInv'
  BY NextIInv
<1>1. /\ blk_ \in Mem /\ write_idx_ \in 0 .. BLK_CNT /\ read_idx_ \in 0 .. BLK_CNT
      /\ send_idx_ \in 0 .. BLK_CNT /\ pc \in Steps /\ ret \in {"idle", "login"}
  BY DEF IInv, TypeOK, Mem
<1>2. Begin \in 0 .. BLK_CNT /\ End \in 0 .. BLK_CNT
  BY WindowType
\* A step that leaves the window where it is, and its cells.
<1>3. ASSUME Begin' = Begin, End' = End, blk_' = blk_,
             ack_seq_num_' = ack_seq_num_, pc' # "push"
      PROVE  AcksInv'
  BY <1>0, <1>2, <1>3, QuietAcks, QueueAssumption
\* A step after which the window is empty.
<1>4. ASSUME Begin' = End', ack_seq_num_' = ack_seq_num_, pc' # "push" PROVE AcksInv'
  <2>1. PICK e : e = End'
    OBVIOUS
  <2>2. e \in 0 .. BLK_CNT
    <3>1. (End \in 0 .. BLK_CNT)'
      BY <1>0, WindowType, PTL
    <3> QED BY <2>1, <3>1
  <2>3. \A j \in e .. e - 1 : FALSE
    BY <2>2, QueueAssumption
  <2>4. AcksOrdered(blk_', e, e, ack_seq_num_')
    BY <2>3 DEF AcksOrdered
  <2> QED BY <1>4, <2>1, <2>4 DEF AcksInv
<1>5. CASE AllocMove
  <2>1. /\ pc = "move" /\ pc' = "move_w" /\ blk_' = Moved(write_idx_ - read_idx_)
        /\ UNCHANGED <<write_idx_, read_idx_, ack_seq_num_>>
    BY <1>5 DEF AllocMove
  <2>2. Begin = read_idx_ /\ End = write_idx_ /\ Begin' = 0 /\ End' = write_idx_ - read_idx_
    BY <2>1 DEF Begin, End
  <2>3. ASSUME NEW j \in 0 .. write_idx_ - read_idx_ - 1
        PROVE  j + read_idx_ \in read_idx_ .. write_idx_ - 1 /\ blk_'[j] = blk_[j + read_idx_]
    <3>1. /\ j + read_idx_ \in read_idx_ .. write_idx_ - 1 /\ j + read_idx_ \in 0 .. BLK_CNT - 1
          /\ j \in 0 .. BLK_CNT - 1 /\ j < write_idx_ - read_idx_
      BY <1>1, QueueAssumption
    <3> QED BY <2>1, <3>1 DEF Moved, At
  <2>4. \A j \in Begin' .. End' - 1 :
          j + read_idx_ \in Begin .. End - 1 /\ blk_'[j] = blk_[j + read_idx_]
    BY <2>2, <2>3
  <2>5. read_idx_ \in Nat /\ pc' # "push"
    BY <1>1, <2>1, QueueAssumption
  <2> QED BY <1>0, <2>1, <2>4, <2>5, AcksKept
<1>6. CASE AllocMoveWrite \/ AllocMoveSend \/ AllocMoveRead \/ LoginAckSend
  BY <1>1, <1>3, <1>6 DEF AllocMoveWrite, AllocMoveSend, AllocMoveRead, LoginAckSend, Begin, End
<1>7. CASE AllocHeader
  <2>1. /\ pc = "alloc_hdr" /\ pc' = "idle" /\ UNCHANGED <<write_idx_, read_idx_, ack_seq_num_>>
        /\ \A j \in 0 .. BLK_CNT - 1 :
             j \notin write_idx_ .. write_idx_ + Blocks(size) - 1 => blk_'[j] = blk_[j]
    BY <1>7 DEF AllocHeader
  <2>2. Begin = read_idx_ /\ End = write_idx_ /\ Begin' = read_idx_ /\ End' = write_idx_
    BY <2>1 DEF Begin, End
  <2>3. \A j \in read_idx_ .. write_idx_ - 1 :
          j \in 0 .. BLK_CNT - 1 /\ j \notin write_idx_ .. write_idx_ + Blocks(size) - 1
    BY <1>1, QueueAssumption
  <2> QED BY <1>0, <1>1, <2>1, <2>2, <2>3, QuietAcks, QueueAssumption
<1>8. CASE Push
  <2> DEFINE c == ConvertByteOrder([blk_[write_idx_] EXCEPT !.ack = ack_seq_num_])
  <2>1. /\ pc = "idle" /\ pc' = "push" /\ blk_' = [blk_ EXCEPT ![write_idx_] = c]
        /\ UNCHANGED <<write_idx_, read_idx_, ack_seq_num_>>
        /\ Fresh(blk_, write_idx_, hi, "host")
    BY <1>8 DEF Push, IInv, RoomInv
  <2>2. write_idx_ \in 0 .. BLK_CNT - 1
    BY <1>1, <2>1, QueueAssumption DEF Fresh
  <2>3. c.ack = ack_seq_num_
    <3>1. blk_[write_idx_] \in Cell
      BY <1>1, <2>2, MemCell
    <3> QED BY <3>1 DEF ConvertByteOrder, Cell
  <2> HIDE DEF c
  <2>4. blk_'[write_idx_].ack = ack_seq_num_
    BY <1>1, <2>1, <2>2, <2>3 DEF Mem
  <2>5. AcksOrdered(blk_, read_idx_, write_idx_, ack_seq_num_)
    BY <2>1 DEF AcksInv, Begin, End
  <2>6. \A j \in read_idx_ .. write_idx_ - 1 : blk_'[j] = blk_[j]
    <3>1. \A j \in read_idx_ .. write_idx_ - 1 : j \in 0 .. BLK_CNT - 1 /\ j # write_idx_
      BY <1>1, QueueAssumption
    <3> QED BY <1>1, <2>1, <3>1 DEF Mem
  <2>7. ASSUME NEW j \in read_idx_ .. write_idx_ - 1, NEW i \in read_idx_ .. j
        PROVE  i \in read_idx_ .. write_idx_ - 1
    BY <1>1, QueueAssumption
  <2>8. AcksOrdered(blk_', read_idx_, write_idx_, ack_seq_num_)
    BY <2>5, <2>6, <2>7 DEF AcksOrdered
  <2> QED BY <2>1, <2>4, <2>8 DEF AcksInv, Begin, End
<1>9. CASE PushCommit
  BY <1>9, PushCommitAcks
<1>10. CASE AckIdx
  <2>1. /\ pc = "ack_idx" /\ pc' = "ack_seq" /\ UNCHANGED <<blk_, write_idx_, ack_seq_num_>>
        /\ lo \in Nat /\ lo' = lo + 1 /\ read_idx_' \in 0 .. BLK_CNT
    BY <1>0, <1>10 DEF AckIdx, IInv, TypeOK
  <2>2. Begin = read_idx_ /\ End = write_idx_ /\ Begin' = read_idx_' /\ End' = write_idx_
    BY <2>1 DEF Begin, End
  <2>3. read_idx_ <= read_idx_'
    <3>1. read_idx_' = read_idx_ + Blocks(LoadSize(ConvertByteOrder(At(read_idx_))))
      BY <1>10 DEF AckIdx
    <3>2. read_idx_ \in Nat
      BY <1>1, QueueAssumption
    <3>3. Blocks(LoadSize(ConvertByteOrder(At(read_idx_)))) \in Nat
      BY <3>2, AtType, ConvertType, LoadSizeType DEF IInv
    <3> QED BY <3>1, <3>2, <3>3
  <2> QED BY <1>0, <1>1, <2>1, <2>2, <2>3, QuietAcks, QueueAssumption
<1>11. CASE AckSeq \/ AckZeroSend
  BY <1>1, <1>3, <1>11 DEF AckSeq, AckZeroSend, Begin, End
<1>12. CASE AckZeroWrite \/ AckZeroRead \/ ResetZero
  <2>1. CASE AckZeroWrite
    BY <1>4, <2>1 DEF AckZeroWrite, Begin, End
  <2>2. CASE AckZeroRead
    <3>1. /\ pc = "zero_r" /\ pc' \in {"idle", "login"} /\ read_idx_' = 0
          /\ UNCHANGED <<write_idx_, ack_seq_num_>>
      BY <1>1, <2>2 DEF AckZeroRead
    <3>2. write_idx_ = 0
      BY <3>1 DEF IInv, IndexInv
    <3> QED BY <1>4, <3>1, <3>2 DEF Begin, End
  <2>3. CASE ResetZero
    <3>1. pc' = "idle" /\ read_idx_' = 0 /\ write_idx_' = 0
      BY <2>3 DEF ResetZero
    <3>2. AcksOrdered(blk_', 0, 0, ack_seq_num_')
      <4>1. \A j \in 0 .. 0 - 1 : FALSE
        OBVIOUS
      <4> QED BY <4>1 DEF AcksOrdered
    <3> QED BY <3>1, <3>2 DEF AcksInv, Begin, End
  <2> QED BY <1>12, <2>1, <2>2, <2>3
<1>13. CASE Call
  <2>1. ASSUME NEW sz \in UserSizes, Alloc(sz) PROVE AcksInv'
    <3>1. pc = "idle" /\ pc' \in {"alloc_hdr", "move", "idle"} /\ UNCHANGED mem
      BY <2>1 DEF Alloc
    <3> QED BY <1>3, <3>1 DEF Begin, End, mem
  <2>2. ASSUME NEW n \in 1 .. BLK_CNT, Sendout(n) PROVE AcksInv'
    BY <1>3, <2>2 DEF Sendout, Begin, End
  <2>3. ASSUME NEW s, NEW caller \in {"idle", "login"}, AckCall(s, caller) PROVE AcksInv'
    <3>1. pc = "idle" /\ pc' \in {"ack_idx", "idle", "login"} /\ UNCHANGED mem
      BY <2>3 DEF AckCall
    <3> QED BY <1>3, <3>1 DEF Begin, End, mem
  <2>4. CASE hdr = Nil /\ Reset
    BY <1>3, <2>4 DEF Reset, mem, Begin, End
  <2> QED BY <1>8, <1>13, <2>1, <2>2, <2>3, <2>4, PoppedAcks DEF Call, Ack, LoginAck
<1>14. CASE UNCHANGED vars
  BY <1>14 DEF vars, mem, AcksInv, Begin, End
<1>15. CASE Death
  BY <1>3, <1>15 DEF Death, Untouched, mem, Begin, End
<1> QED BY <1>5, <1>6, <1>7, <1>9, <1>10, <1>11, <1>12, <1>13, <1>14, <1>15 DEF Next, Internal

(* From a header of the window the walk counts the messages to its end,     *)
(* of which there are no more than blocks.                                  *)
LEMMA WalkCounts ==
    ASSUME IInv, AcksInv, pc = "idle",
           NEW i \in read_idx_ .. write_idx_ - 1, blk_[i].part = 0
    PROVE  /\ walk[i] = [res |-> "ok", msgs |-> hi - blk_[i].id]
           /\ hi - blk_[i].id \in 1 .. write_idx_ - i
<1> DEFINE Good(j) == /\ walk[j] = [res |-> "ok", msgs |-> hi - blk_[j].id]
                      /\ hi - blk_[j].id \in 1 .. write_idx_ - j
           Bad(j)  == j \in read_idx_ .. write_idx_ - 1 /\ blk_[j].part = 0 /\ ~Good(j)
           T == {d \in Nat : \E j \in read_idx_ .. write_idx_ - 1 : d = write_idx_ - j /\ Bad(j)}
<1>1. /\ blk_ \in Mem /\ write_idx_ \in 0 .. BLK_CNT /\ read_idx_ \in 0 .. BLK_CNT
      /\ hi \in Nat /\ write_idx_ \in Nat /\ TypeOK
  BY QueueAssumption DEF IInv, TypeOK, Mem
<1>2. Intact(blk_, read_idx_, write_idx_, lo, hi)
      /\ AcksOrdered(blk_, read_idx_, write_idx_, ack_seq_num_)
  BY DEF IInv, WindowIntact, AcksInv, Begin, End
<1>3. \A j \in Nat : walk[j] = StepOf(walk, j)
  BY <1>1, WalkEquation
<1>4. ASSUME NEW d \in T, \A x \in T : d <= x PROVE FALSE
  <2>1. PICK j \in read_idx_ .. write_idx_ - 1 : d = write_idx_ - j /\ Bad(j)
    OBVIOUS
  <2>2. j \in 0 .. BLK_CNT - 1 /\ j \in Nat /\ j < write_idx_ /\ d \in Nat
    BY <1>1, <2>1, QueueAssumption
  <2> DEFINE n == MsgLen(blk_[j])
  <2>3. MsgAt(blk_, write_idx_, hi, j) /\ blk_[j].id \in Nat /\ n \in Nat
    BY <1>1, <1>2, <2>1, <2>2, MemCell, MsgLenType DEF Intact
  <2>4. /\ n >= 1 /\ j + n <= write_idx_
        /\ j + n < write_idx_ => blk_[j + n].part = 0 /\ blk_[j + n].id = blk_[j].id + 1
        /\ j + n = write_idx_ => blk_[j].id = hi - 1
    BY <2>3 DEF MsgAt
  <2>5. walk[j] = [walk[j + n] EXCEPT !.msgs = @ + 1]
    <3> DEFINE h == ConvertByteOrder(At(j))
    <3>1. At(j) = blk_[j] /\ blk_[j] \in Cell /\ h.ack = blk_[j].ack
      <4>1. At(j) = blk_[j] /\ blk_[j] \in Cell
        BY <1>1, <2>2, MemCell DEF At
      <4> QED BY <4>1 DEF ConvertByteOrder, Cell
    <3>2. Blocks(LoadSize(h)) = n
      BY <3>1 DEF MsgLen
    <3>3. ~(Signed(Sub(ack_seq_num_, h.ack)) < 0)
      <4>1. Sub(ack_seq_num_, blk_[j].ack) <= AckLead
        BY <1>2, <2>1 DEF AcksOrdered
      <4>2. Sub(ack_seq_num_, blk_[j].ack) \in SeqNum
        BY <1>1, <3>1, CellType, SeqArith DEF TypeOK
      <4> DEFINE s == Sub(ack_seq_num_, blk_[j].ack)
      <4> HIDE DEF s
      <4>3. s \in 0 .. SeqMod - 1 /\ s <= AckLead /\ AckLead \in 0 .. HalfSeq - 1 /\ HalfSeq \in Nat
        BY <4>1, <4>2, QueueAssumption, BoundAssumption DEF s, SeqNum
      <4>4. SeqMod \in Int
        BY QueueAssumption DEF SeqMod
      <4>5. s \in Nat /\ s < HalfSeq
        BY <4>3, <4>4
      <4>6. ~(Signed(s) < 0)
        BY <4>5, QueueAssumption DEF Signed
      <4> QED BY <3>1, <4>6 DEF s
    <3> HIDE DEF h, n
    <3>4. ~(j >= write_idx_) /\ n # 0
      BY <1>1, <2>2, <2>3, <2>4
    <3>5. StepOf(walk, j) = [walk[j + n] EXCEPT !.msgs = @ + 1]
      BY <3>2, <3>3, <3>4 DEF StepOf, h
    <3> QED BY <1>3, <2>2, <3>5
  <2> HIDE DEF n
  <2>6. j + n \in Nat /\ blk_[j].id < hi
    BY <1>2, <2>1, <2>2, <2>3 DEF Intact
  <2>7. CASE j + n = write_idx_
    <3>1. walk[j + n] = [res |-> "ok", msgs |-> 0]
      <4>1. StepOf(walk, write_idx_) = [res |-> "ok", msgs |-> 0]
        BY <1>1 DEF StepOf
      <4> QED BY <1>1, <1>3, <2>7, <4>1
    <3>2. hi - blk_[j].id = 1 /\ 1 \in 1 .. write_idx_ - j
      BY <1>1, <2>2, <2>3, <2>4, <2>7
    <3>3. walk[j] = [res |-> "ok", msgs |-> 1]
      BY <2>5, <3>1
    <3> QED BY <2>1, <3>2, <3>3
  <2>8. CASE j + n < write_idx_
    <3>1. j + n \in read_idx_ .. write_idx_ - 1 /\ write_idx_ - (j + n) \in Nat
          /\ write_idx_ - (j + n) < d
      BY <1>1, <2>1, <2>2, <2>3, <2>4, <2>8, QueueAssumption
    <3>2. write_idx_ - (j + n) \notin T
      BY <1>4, <2>2, <3>1
    <3>3. Good(j + n)
      BY <2>4, <2>8, <3>1, <3>2
    <3>4. blk_[j + n].id = blk_[j].id + 1
      BY <2>4, <2>8
    <3> DEFINE m == hi - (blk_[j].id + 1)
    <3>5. walk[j + n] = [res |-> "ok", msgs |-> m] /\ m \in 1 .. write_idx_ - (j + n)
      BY <3>3, <3>4
    <3>6. m + 1 = hi - blk_[j].id /\ m + 1 \in 1 .. write_idx_ - j
      BY <1>1, <2>2, <2>3, <2>4, <3>5
    <3> HIDE DEF m
    <3>7. walk[j] = [res |-> "ok", msgs |-> m + 1]
      BY <2>5, <3>5
    <3> QED BY <2>1, <3>6, <3>7
  <2> QED BY <1>1, <2>4, <2>6, <2>7, <2>8
<1>5. T = {}
  <2>1. T \in SUBSET Nat
    OBVIOUS
  <2> HIDE DEF T
  <2> QED BY <1>4, <2>1, Smallest
<1>6. write_idx_ - i \in Nat
  BY <1>1, QueueAssumption
<1>7. ~Bad(i)
  BY <1>5, <1>6
<1> QED BY <1>7

LEMMA CheckSound == IInv /\ AcksInv /\ FirstSeq => SanityCheckSound
<1> SUFFICES ASSUME IInv, AcksInv, FirstSeq, pc = "idle"
             PROVE  SanityCheckAndGetSeq =
                      [res |-> "ok", seq_start |-> lo % SeqMod, seq_end |-> hi % SeqMod]
  BY DEF SanityCheckSound
<1>1. /\ write_idx_ \in Nat /\ read_idx_ \in Nat /\ lo \in Nat /\ hi \in Nat /\ TypeOK
      /\ read_idx_ <= write_idx_ /\ write_idx_ <= BLK_CNT /\ blk_ \in Mem
  BY QueueAssumption DEF IInv, TypeOK, IndexInv, Mem
<1>2. read_seq_num_ = lo % SeqMod
  BY DEF FirstSeq
<1>3. Intact(blk_, read_idx_, write_idx_, lo, hi)
  BY DEF IInv, WindowIntact, Begin, End
<1>4. walk[read_idx_] = [res |-> "ok", msgs |-> hi - lo] /\ hi - lo \in 0 .. write_idx_ - read_idx_
  <2>1. CASE read_idx_ = write_idx_
    <3>1. hi - lo = 0 /\ 0 \in 0 .. write_idx_ - read_idx_
      BY <1>1, <1>3, <2>1 DEF Intact
    <3>2. walk[read_idx_] = [res |-> "ok", msgs |-> 0]
      BY <1>1, <2>1, WalkEquation DEF StepOf
    <3> QED BY <3>1, <3>2
  <2>2. CASE read_idx_ # write_idx_
    <3>1. read_idx_ < write_idx_ /\ read_idx_ \in read_idx_ .. write_idx_ - 1
      BY <1>1, <2>2
    <3>2. blk_[read_idx_].part = 0 /\ blk_[read_idx_].id = lo
      BY <1>3, <3>1 DEF Intact
    <3>3. walk[read_idx_] = [res |-> "ok", msgs |-> hi - lo] /\ hi - lo \in 1 .. write_idx_ - read_idx_
      BY <3>1, <3>2, WalkCounts
    <3> QED BY <1>1, <3>3
  <2> QED BY <2>1, <2>2
<1>5. Add(lo % SeqMod, hi - lo) = hi % SeqMod
  <2>1. hi - lo \in 1 - SeqMod .. SeqMod - 1 /\ lo + (hi - lo) = hi
    BY <1>1, <1>4, QueueAssumption DEF SeqMod
  <2>2. HalfSeq \in Nat /\ HalfSeq > 0 /\ lo \in Int
    BY <1>1, QueueAssumption
  <2>3. Add(lo % SeqMod, hi - lo) = (lo + (hi - lo)) % SeqMod
    BY <2>1, <2>2, AddMod
  <2> QED BY <2>1, <2>3
<1> QED BY <1>2, <1>4, <1>5 DEF SanityCheckAndGetSeq

(* Between calls the check made on the file before a login ends, accepts    *)
(* the file and reports exactly the numbers of the queued messages: the     *)
(* walk visits the headers of the window one after the other, and no ack in *)
(* them looks newer than our own.                                           *)
THEOREM SanityCheckIsSound == DeathSpec => []SanityCheckSound
<1>1. Init => IInv /\ FirstSeq /\ AcksInv
  BY InitIInv, InitFirstSeq, InitAcks
<1>2. (IInv /\ FirstSeq /\ AcksInv) /\ [Next \/ Death]_vars => (IInv /\ FirstSeq /\ AcksInv)'
  BY NextIInv, NextFirstSeq, NextAcks
<1>3. IInv /\ FirstSeq /\ AcksInv => SanityCheckSound
  BY CheckSound
<1> QED BY <1>1, <1>2, <1>3, PTL DEF DeathSpec

-----------------------------------------------------------------------------
(* PTCPQueue implements SendWindow. *)

(* Every block of the window belongs to the message whose header precedes   *)
(* it by as many blocks as its part says.                                   *)
LEMMA HeaderOf ==
    ASSUME NEW blk \in Mem, NEW l \in Nat, NEW h \in Nat,
           NEW b \in 0 .. BLK_CNT, NEW e \in 0 .. BLK_CNT,
           Intact(blk, b, e, l, h), NEW j \in b .. e - 1
    PROVE  \E i \in b .. j : /\ blk[i].part = 0 /\ blk[i].id = blk[j].id
                             /\ blk[j].part = j - i /\ j < i + MsgLen(blk[i])
<1> DEFINE Good(k) == \E i \in b .. k : /\ blk[i].part = 0 /\ blk[i].id = blk[k].id
                                        /\ blk[k].part = k - i /\ k < i + MsgLen(blk[i])
           T == {k \in b .. e - 1 : ~Good(k)}
<1>0. b \in Nat /\ e \in Nat /\ e <= BLK_CNT /\ BLK_CNT \in Nat
  BY QueueAssumption
<1>1. ASSUME NEW k \in b .. e - 1, blk[k].part = 0 PROVE Good(k)
  <2>1. k \in 0 .. BLK_CNT - 1 /\ k \in Nat /\ k \in b .. k /\ k - k = 0
    BY <1>0
  <2>2. MsgAt(blk, e, h, k) /\ MsgLen(blk[k]) \in Nat
    BY <1>1, <2>1, MsgLenType DEF Intact
  <2>3. MsgLen(blk[k]) >= 1
    BY <2>2 DEF MsgAt
  <2>4. k < k + MsgLen(blk[k])
    BY <2>1, <2>2, <2>3
  <2> QED BY <1>1, <2>1, <2>4
<1>2. ASSUME NEW m \in T, \A k \in T : m <= k PROVE FALSE
  <2>1. m \in b .. e - 1 /\ ~Good(m) /\ m \in Nat /\ m \in 0 .. BLK_CNT - 1
    BY <1>0
  <2>2. CASE m = b
    <3>1. blk[m].part = 0
      BY <1>0, <2>1, <2>2 DEF Intact
    <3> QED BY <1>1, <2>1, <3>1
  <2>3. CASE m # b
    <3>1. m - 1 \in b .. e - 1 /\ m - 1 \in Nat /\ m - 1 < m /\ (m - 1) + 1 = m
      BY <1>0, <2>1, <2>3
    <3>2. Good(m - 1)
      BY <1>2, <3>1
    <3>3. PICK i \in b .. m - 1 : /\ blk[i].part = 0 /\ blk[i].id = blk[m - 1].id
                                  /\ m - 1 < i + MsgLen(blk[i])
      BY <3>2
    <3>4. i \in b .. e - 1 /\ i \in 0 .. BLK_CNT - 1 /\ i \in Nat /\ i \in b .. m /\ i < m
      BY <1>0, <2>1, <3>1
    <3>5. MsgAt(blk, e, h, i) /\ MsgLen(blk[i]) \in Nat
      BY <3>3, <3>4, MsgLenType DEF Intact
    <3> DEFINE n == MsgLen(blk[i])
    <3>6. /\ \A x \in i + 1 .. i + n - 1 : blk[x].part = x - i /\ blk[x].id = blk[i].id
          /\ i + n < e => blk[i + n].part = 0
      BY <3>5 DEF MsgAt
    <3>7. n \in Nat /\ m - 1 < i + n
      BY <3>3, <3>5
    <3> HIDE DEF n
    <3>8. CASE m < i + n
      <4>1. m \in i + 1 .. i + n - 1
        BY <2>1, <3>4, <3>7, <3>8
      <4>2. blk[m].part = m - i /\ blk[m].id = blk[i].id
        BY <3>6, <4>1
      <4>3. Good(m)
        BY <3>3, <3>4, <3>8, <4>2 DEF n
      <4> QED BY <2>1, <4>3
    <3>9. CASE ~(m < i + n)
      <4>1. m = i + n /\ i + n < e
        BY <1>0, <2>1, <3>1, <3>4, <3>7, <3>9
      <4>2. Good(m)
        BY <1>1, <2>1, <3>6, <4>1
      <4> QED BY <2>1, <4>2
    <3> QED BY <3>8, <3>9
  <2> QED BY <2>2, <2>3
<1>3. T = {}
  <2>1. T \in SUBSET Nat
    BY <1>0
  <2> HIDE DEF T
  <2> QED BY <1>2, <2>1, Smallest
<1> QED BY <1>3

(* The blocks of the window come in the order of their places.              *)
LEMMA PlacesUp ==
    ASSUME NEW blk \in Mem, NEW l \in Nat, NEW h \in Nat,
           NEW b \in 0 .. BLK_CNT, NEW e \in 0 .. BLK_CNT,
           Intact(blk, b, e, l, h), NEW i \in b .. e - 1, NEW j \in i + 1 .. e - 1
    PROVE  \/ blk[i].id < blk[j].id
           \/ blk[i].id = blk[j].id /\ blk[i].part < blk[j].part
<1> DEFINE Up(x, k) == \/ blk[x].id < blk[k].id
                       \/ blk[x].id = blk[k].id /\ blk[x].part < blk[k].part
           T == {k \in i + 1 .. e - 1 : ~Up(i, k)}
<1>0. b \in Nat /\ e \in Nat /\ e <= BLK_CNT /\ BLK_CNT \in Nat /\ i \in Nat /\ b <= i
  BY QueueAssumption
<1>1. \A k \in b .. e - 1 : blk[k].id \in Nat /\ blk[k].part \in Nat
  <2>1. \A k \in b .. e - 1 : k \in 0 .. BLK_CNT - 1
    BY <1>0
  <2> QED BY <2>1, MemCell
<1>2. ASSUME NEW k \in b .. e - 2 PROVE Up(k, k + 1)
  <2>1. k \in b .. e - 1 /\ k + 1 \in b .. e - 1 /\ k \in Nat /\ k + 1 < e
    BY <1>0
  <2>2. PICK x \in b .. k : /\ blk[x].part = 0 /\ blk[x].id = blk[k].id
                            /\ blk[k].part = k - x /\ k < x + MsgLen(blk[x])
    BY <2>1, HeaderOf
  <2>3. x \in b .. e - 1 /\ x \in 0 .. BLK_CNT - 1 /\ x \in Nat /\ x <= k
    BY <1>0, <2>1
  <2>4. MsgAt(blk, e, h, x) /\ MsgLen(blk[x]) \in Nat
    BY <2>2, <2>3, MsgLenType DEF Intact
  <2> DEFINE n == MsgLen(blk[x])
  <2>5. /\ \A y \in x + 1 .. x + n - 1 : blk[y].part = y - x /\ blk[y].id = blk[x].id
        /\ x + n < e => blk[x + n].id = blk[x].id + 1
    BY <2>4 DEF MsgAt
  <2>6. n \in Nat /\ k < x + n
    BY <2>2, <2>4
  <2> HIDE DEF n
  <2>7. CASE k + 1 < x + n
    <3>1. k + 1 \in x + 1 .. x + n - 1
      BY <2>1, <2>3, <2>6, <2>7
    <3>2. blk[k + 1].part = (k + 1) - x /\ blk[k + 1].id = blk[k].id
      BY <2>2, <2>5, <3>1
    <3>3. k - x < (k + 1) - x
      BY <2>1, <2>3
    <3> QED BY <2>2, <3>2, <3>3
  <2>8. CASE ~(k + 1 < x + n)
    <3>1. k + 1 = x + n
      BY <2>1, <2>3, <2>6, <2>8
    <3>2. blk[k + 1].id = blk[k].id + 1 /\ blk[k].id \in Nat
      BY <1>1, <2>1, <2>2, <2>5, <3>1
    <3> QED BY <3>2
  <2> QED BY <2>7, <2>8
<1>3. ASSUME NEW m \in T, \A k \in T : m <= k PROVE FALSE
  <2>1. m \in i + 1 .. e - 1 /\ ~Up(i, m) /\ m \in Nat
    BY <1>0
  <2>2. CASE m = i + 1
    <3>1. i \in b .. e - 2
      BY <1>0, <2>1
    <3> QED BY <1>2, <2>1, <2>2, <3>1
  <2>3. CASE m # i + 1
    <3>1. m - 1 \in i + 1 .. e - 1 /\ m - 1 \in b .. e - 2 /\ m - 1 < m /\ (m - 1) + 1 = m
          /\ i \in b .. e - 1 /\ m \in b .. e - 1 /\ m - 1 \in b .. e - 1
      BY <1>0, <2>1, <2>3
    <3>2. Up(i, m - 1) /\ Up(m - 1, m)
      BY <1>2, <1>3, <3>1
    <3>3. /\ blk[i].id \in Nat /\ blk[m - 1].id \in Nat /\ blk[m].id \in Nat
          /\ blk[i].part \in Nat /\ blk[m - 1].part \in Nat /\ blk[m].part \in Nat
      BY <1>1, <3>1
    <3>4. Up(i, m)
      BY ONLY <3>2, <3>3
    <3> QED BY <2>1, <3>4
  <2> QED BY <2>2, <2>3
<1>4. T = {}
  <2>1. T \in SUBSET Nat
    BY <1>0
  <2> HIDE DEF T
  <2> QED BY <1>3, <2>1, Smallest
<1> QED BY <1>4

(* The blocks of the window carry the numbers from l to h - 1.              *)
LEMMA IdsBetween ==
    ASSUME NEW blk \in Mem, NEW l \in Nat, NEW h \in Nat,
           NEW b \in 0 .. BLK_CNT, NEW e \in 0 .. BLK_CNT,
           Intact(blk, b, e, l, h), NEW j \in b .. e - 1
    PROVE  blk[j].id \in Nat /\ l <= blk[j].id /\ blk[j].id < h
<1>1. /\ j \in 0 .. BLK_CNT - 1 /\ b \in 0 .. BLK_CNT - 1 /\ b \in b .. e - 1 /\ b < e
      /\ (j = b \/ j \in b + 1 .. e - 1)
  BY QueueAssumption
<1>2. blk[j].id \in Nat /\ blk[j].id < h /\ blk[b].id = l
  BY <1>1, MemCell DEF Intact
<1>3. j = b \/ blk[b].id < blk[j].id \/ blk[b].id = blk[j].id
  BY <1>1, PlacesUp
<1>4. l <= blk[j].id
  BY <1>2, <1>3
<1> QED BY <1>2, <1>4

\* Blocks b2 to e2 - 1 of blk2, with s2 among them or at the end, are blocks b
\* to e - 1 of blk, with s.
SameBlocks(blk, b, e, s, blk2, b2, e2, s2) ==
    \E d \in Nat : /\ b = b2 + d /\ e = e2 + d /\ s = s2 + d
                  /\ \A j \in b2 .. e2 - 1 : blk2[j] = blk[j + d]

(* The messages of a window do not depend on where its blocks are.          *)
LEMMA MsgsShift ==
    ASSUME NEW blk, NEW b \in Nat, NEW e \in Nat, NEW s \in Nat,
           NEW blk2, NEW b2 \in Nat, NEW e2 \in Nat, NEW s2 \in b2 .. e2,
           SameBlocks(blk, b, e, s, blk2, b2, e2, s2)
    PROVE  /\ MsgsIn(blk2, b2, e2) = MsgsIn(blk, b, e)
           /\ \A h : PlaceOf(blk2, s2, e2, h) = PlaceOf(blk, s, e, h)
<1>1. PICK d \in Nat : /\ b = b2 + d /\ e = e2 + d /\ s = s2 + d
                      /\ \A j \in b2 .. e2 - 1 : blk2[j] = blk[j + d]
  BY DEF SameBlocks
<1>2. ASSUME NEW m \in MsgsIn(blk2, b2, e2) PROVE m \in MsgsIn(blk, b, e)
  <2>1. PICK i \in b2 .. e2 - 1 : blk2[i].part = 0 /\ m = [id |-> blk2[i].id, len |-> MsgLen(blk2[i])]
    BY DEF MsgsIn
  <2>2. i + d \in b .. e - 1 /\ blk2[i] = blk[i + d]
    BY <1>1
  <2> QED BY <2>1, <2>2 DEF MsgsIn
<1>3. ASSUME NEW m \in MsgsIn(blk, b, e) PROVE m \in MsgsIn(blk2, b2, e2)
  <2>1. PICK i \in b .. e - 1 : blk[i].part = 0 /\ m = [id |-> blk[i].id, len |-> MsgLen(blk[i])]
    BY DEF MsgsIn
  <2>2. i - d \in b2 .. e2 - 1 /\ (i - d) + d = i
    BY <1>1
  <2>3. blk2[i - d] = blk[i]
    BY <1>1, <2>2
  <2> QED BY <2>1, <2>2, <2>3 DEF MsgsIn
<1>4. (s2 = e2 /\ s = e) \/ (s2 # e2 /\ s # e /\ blk2[s2] = blk[s])
  <2>1. s2 \in Nat /\ (s2 = e2 \/ s2 \in b2 .. e2 - 1)
    OBVIOUS
  <2>2. s2 # e2 => s # e /\ blk2[s2] = blk[s]
    BY <1>1, <2>1
  <2> QED BY <1>1, <2>2
<1> QED BY <1>2, <1>3, <1>4 DEF PlaceOf

(* A message pushed is one more message of the window.                      *)
LEMMA MsgsPush ==
    ASSUME NEW blk \in Mem, NEW h \in Nat, NEW b \in 0 .. BLK_CNT, NEW w \in 0 .. BLK_CNT,
           b <= w, Fresh(blk, w, h, "net")
    PROVE  /\ Blocks(blk[w].size) \in 1 .. BLK_CNT
           /\ MsgsIn(blk, b, w + Blocks(blk[w].size))
                = MsgsIn(blk, b, w) \cup {[id |-> h, len |-> Blocks(blk[w].size)]}
<1> DEFINE n == Blocks(blk[w].size)
<1>1. /\ w < BLK_CNT /\ blk[w].part = 0 /\ blk[w].id = h /\ blk[w].order = "net"
      /\ blk[w].size >= HeaderSize /\ w + n <= BLK_CNT
      /\ \A j \in w + 1 .. w + n - 1 : blk[j].part = j - w
  BY DEF Fresh
<1>2. w \in 0 .. BLK_CNT - 1 /\ w \in Nat /\ b \in Nat /\ BLK_CNT \in Nat
  BY <1>1, QueueAssumption
<1>3. blk[w] \in Cell /\ blk[w].size \in MsgSize
  BY <1>2, MemCell, CellType
<1>4. n \in Nat /\ n >= 1 /\ MsgLen(blk[w]) = n
  <2>1. blk[w].size >= 1
    <3>1. blk[w].size \in Nat
      BY <1>3, SizeNat
    <3> QED BY <1>1, <3>1 DEF HeaderSize
  <2> QED BY <1>1, <1>3, <2>1, BlocksType, NetLen
<1> HIDE DEF n
<1>5. n \in 1 .. BLK_CNT
  BY <1>1, <1>2, <1>4
<1>6. ASSUME NEW m \in MsgsIn(blk, b, w + n)
      PROVE  m \in MsgsIn(blk, b, w) \cup {[id |-> h, len |-> n]}
  <2>1. PICK i \in b .. w + n - 1 : blk[i].part = 0 /\ m = [id |-> blk[i].id, len |-> MsgLen(blk[i])]
    BY <1>2, <1>4 DEF MsgsIn
  <2>2. i \in b .. w - 1 \/ i = w \/ i \in w + 1 .. w + n - 1
    BY <1>2, <1>4
  <2>3. ASSUME i \in w + 1 .. w + n - 1 PROVE FALSE
    <3>1. blk[i].part = i - w
      BY <1>1, <2>3
    <3> QED BY <1>2, <1>4, <2>1, <2>3, <3>1
  <2>4. CASE i \in b .. w - 1
    BY <2>1, <2>4 DEF MsgsIn
  <2>5. CASE i = w
    BY <1>1, <1>4, <2>1, <2>5
  <2> QED BY <2>2, <2>3, <2>4, <2>5
<1>7. ASSUME NEW m \in MsgsIn(blk, b, w) PROVE m \in MsgsIn(blk, b, w + n)
  <2>1. PICK i \in b .. w - 1 : blk[i].part = 0 /\ m = [id |-> blk[i].id, len |-> MsgLen(blk[i])]
    BY DEF MsgsIn
  <2>2. i \in b .. w + n - 1
    BY <1>2, <1>4
  <2> QED BY <1>2, <1>4, <2>1, <2>2 DEF MsgsIn
<1>8. [id |-> h, len |-> n] \in MsgsIn(blk, b, w + n)
  <2>1. w \in b .. w + n - 1
    BY <1>2, <1>4
  <2> QED BY <1>1, <1>4, <2>1 DEF MsgsIn
<1> QED BY <1>5, <1>6, <1>7, <1>8 DEF n

(* Dropping the first message leaves those with another number.             *)
LEMMA MsgsDrop ==
    ASSUME NEW blk \in Mem, NEW l \in Nat, NEW h \in Nat,
           NEW b \in 0 .. BLK_CNT, NEW e \in 0 .. BLK_CNT,
           Intact(blk, b, e, l, h), l < h
    PROVE  MsgsIn(blk, b + MsgLen(blk[b]), e) = {m \in MsgsIn(blk, b, e) : m.id # l}
<1> DEFINE n == MsgLen(blk[b])
<1>1. /\ b < e /\ n \in Nat /\ n >= 1 /\ b + n <= e
      /\ \A j \in b .. b + n - 1 : blk[j].id = l
      /\ Intact(blk, b + n, e, l + 1, h)
  BY IntactDrop
<1> HIDE DEF n
<1>2. b \in Nat /\ e \in Nat /\ e <= BLK_CNT /\ b + n \in 0 .. BLK_CNT /\ l + 1 \in Nat
  BY <1>1, QueueAssumption
<1>3. ASSUME NEW m \in MsgsIn(blk, b + n, e) PROVE m \in MsgsIn(blk, b, e) /\ m.id # l
  <2>1. PICK i \in b + n .. e - 1 : blk[i].part = 0 /\ m = [id |-> blk[i].id, len |-> MsgLen(blk[i])]
    BY DEF MsgsIn
  <2>2. i \in b .. e - 1
    BY <1>1, <1>2
  <2>3. blk[i].id \in Nat /\ l + 1 <= blk[i].id
    BY <1>1, <1>2, IdsBetween
  <2>4. m.id = blk[i].id /\ blk[i].id # l
    BY <2>1, <2>3
  <2> QED BY <2>1, <2>2, <2>4 DEF MsgsIn
<1>4. ASSUME NEW m \in MsgsIn(blk, b, e), m.id # l PROVE m \in MsgsIn(blk, b + n, e)
  <2>1. PICK i \in b .. e - 1 : blk[i].part = 0 /\ m = [id |-> blk[i].id, len |-> MsgLen(blk[i])]
    BY DEF MsgsIn
  <2>2. i \notin b .. b + n - 1
    BY <1>1, <1>4, <2>1
  <2>3. i \in b + n .. e - 1
    BY <1>1, <1>2, <2>2
  <2> QED BY <2>1, <2>3 DEF MsgsIn
<1> QED BY <1>3, <1>4 DEF n

\* In a login Ack may pass send_idx_, and send_idx_ still ends with the window.
SendInv == pc \in {"ack_idx", "ack_seq", "zero_s", "login"} => send_idx_ <= write_idx_

LEMMA InitSendInv == Init => SendInv
BY DEF Init, SendInv

LEMMA NextSendInv == IInv /\ SendInv /\ [Next \/ Death]_vars => SendInv'
<1> SUFFICES ASSUME IInv, SendInv, [Next \/ Death]_vars PROVE SendInv'
  OBVIOUS
<1>1. CASE AllocMove \/ AllocMoveWrite \/ AllocMoveSend \/ AllocMoveRead \/ AllocHeader
           \/ PushCommit \/ AckZeroSend \/ AckZeroWrite \/ LoginAckSend \/ ResetZero
  BY <1>1 DEF SendInv, AllocMove, AllocMoveWrite, AllocMoveSend, AllocMoveRead, AllocHeader,
     PushCommit, AckZeroSend, AckZeroWrite, LoginAckSend, ResetZero
<1>2. CASE AckIdx
  BY <1>2 DEF SendInv, AckIdx
<1>3. CASE AckSeq
  BY <1>3 DEF SendInv, AckSeq
<1>4. CASE AckZeroRead
  <2>1. pc = "zero_r" /\ UNCHANGED <<write_idx_, send_idx_>>
    BY <1>4 DEF AckZeroRead
  <2>2. send_idx_ = 0 /\ write_idx_ = 0
    BY <2>1 DEF IInv, IndexInv
  <2> QED BY <2>1, <2>2 DEF SendInv
<1>5. CASE Call
  <2>1. ASSUME NEW sz \in UserSizes, Alloc(sz) PROVE SendInv'
    BY <2>1 DEF SendInv, Alloc
  <2>2. ASSUME NEW n \in 1 .. BLK_CNT, Sendout(n) PROVE SendInv'
    BY <2>2 DEF SendInv, Sendout
  <2>3. ASSUME NEW s, NEW caller, AckCall(s, caller) PROVE SendInv'
    <3>1. pc = "idle" /\ UNCHANGED mem
      BY <2>3 DEF AckCall
    <3>2. send_idx_ <= write_idx_
      BY <3>1 DEF IInv, IndexInv
    <3> QED BY <3>1, <3>2 DEF SendInv, mem
  <2>4. CASE Push \/ Popped \/ (hdr = Nil /\ Reset)
    BY <2>4 DEF SendInv, Push, Popped, MyAckInc, Reset
  <2> QED BY <1>5, <2>1, <2>2, <2>3, <2>4 DEF Call, Ack, LoginAck
<1>6. CASE UNCHANGED vars
  BY <1>6 DEF vars, mem, SendInv
<1>7. CASE Death
  BY <1>7 DEF Death, SendInv
<1> QED BY <1>1, <1>2, <1>3, <1>4, <1>5, <1>6, <1>7 DEF Next, Internal

(* The block handed to the socket next is in the window or at its end.      *)
LEMMA SendAtType == IInv /\ SendInv => SendAt \in Begin .. End
<1> SUFFICES ASSUME IInv, SendInv PROVE SendAt \in Begin .. End
  OBVIOUS
<1>1. /\ write_idx_ \in 0 .. BLK_CNT /\ read_idx_ \in 0 .. BLK_CNT
      /\ send_idx_ \in 0 .. BLK_CNT /\ pc \in Steps
  BY DEF IInv, TypeOK
<1>2. Begin \in 0 .. BLK_CNT /\ End \in 0 .. BLK_CNT /\ Begin <= End
  BY WindowType DEF IInv, WindowIntact, Intact
<1>3. write_idx_ \in Nat /\ read_idx_ \in Nat /\ send_idx_ \in Nat /\ Begin \in Nat /\ End \in Nat
  BY <1>1, <1>2, QueueAssumption
<1>4. CASE pc \in {"move_w", "move_s"}
  <2>1. Begin = 0 /\ read_idx_ <= send_idx_ /\ send_idx_ - read_idx_ <= End
    BY <1>3, <1>4 DEF Begin, End, IInv, IndexInv
  <2>2. SendAt = send_idx_ - read_idx_
    BY <1>3, <1>4, <2>1 DEF SendAt
  <2> QED BY <1>3, <2>1, <2>2
<1>5. CASE pc \in {"zero_w", "zero_r"}
  BY <1>2, <1>3, <1>5 DEF SendAt
<1>6. CASE pc \notin {"move_w", "move_s", "zero_w", "zero_r"}
  <2>1. End = write_idx_ /\ send_idx_ <= write_idx_
    BY <1>1, <1>6 DEF End, IInv, IndexInv, SendInv, Steps
  <2>2. SendAt = IF send_idx_ < Begin THEN Begin ELSE send_idx_
    BY <1>6 DEF SendAt
  <2> QED BY <1>2, <1>3, <2>1, <2>2
<1> QED BY <1>4, <1>5, <1>6

\* What SendWindow sees of the queue.
Win  == MsgsIn(blk_, Begin, End)
Pos  == PlaceOf(blk_, SendAt, End, hi)
View == <<Win, lo, hi, Pos>>

(* A store that leaves the window, perhaps d blocks further down, and the   *)
(* next block to send in it, changes nothing of the view.                   *)
LEMMA ViewKept ==
    ASSUME IInv, IInv', SendInv, SendInv', NEW d \in Nat,
           Begin = Begin' + d, End = End' + d, SendAt = SendAt' + d,
           \A j \in Begin' .. End' - 1 : blk_'[j] = blk_[j + d],
           UNCHANGED <<lo, hi>>
    PROVE  UNCHANGED View
<1>1. PICK blk, b, e, s, blk2, b2, e2, s2 :
        /\ blk = blk_ /\ b = Begin /\ e = End /\ s = SendAt
        /\ blk2 = blk_' /\ b2 = Begin' /\ e2 = End' /\ s2 = SendAt'
  OBVIOUS
<1>2. b \in Nat /\ e \in Nat /\ s \in Nat
  <2>1. b \in 0 .. BLK_CNT /\ e \in 0 .. BLK_CNT /\ s \in b .. e
    BY <1>1, WindowType, SendAtType
  <2> QED BY <2>1, QueueAssumption
<1>3. b2 \in Nat /\ e2 \in Nat /\ s2 \in b2 .. e2
  <2>1. (Begin \in 0 .. BLK_CNT /\ End \in 0 .. BLK_CNT)' /\ (SendAt \in Begin .. End)'
    BY WindowType, SendAtType, PTL
  <2> QED BY <1>1, <2>1, QueueAssumption
<1>4. SameBlocks(blk, b, e, s, blk2, b2, e2, s2)
  BY <1>1 DEF SameBlocks
<1>5. /\ MsgsIn(blk2, b2, e2) = MsgsIn(blk, b, e)
      /\ \A h : PlaceOf(blk2, s2, e2, h) = PlaceOf(blk, s, e, h)
  BY <1>2, <1>3, <1>4, MsgsShift
<1>6. PlaceOf(blk2, s2, e2, hi) = PlaceOf(blk, s, e, hi)
  BY <1>5, Zenon
<1>7. Win' = MsgsIn(blk2, b2, e2) /\ Win = MsgsIn(blk, b, e)
  BY <1>1 DEF Win
<1>8. Pos' = PlaceOf(blk2, s2, e2, hi) /\ Pos = PlaceOf(blk, s, e, hi)
  BY <1>1 DEF Pos
<1> QED BY <1>5, <1>6, <1>7, <1>8 DEF View

LEMMA ViewSame ==
    ASSUME IInv, IInv', SendInv, SendInv',
           Begin' = Begin, End' = End, SendAt' = SendAt,
           \A j \in Begin .. End - 1 : blk_'[j] = blk_[j],
           UNCHANGED <<lo, hi>>
    PROVE  UNCHANGED View
<1>1. PICK b, e, s : b = Begin /\ e = End /\ s = SendAt
  OBVIOUS
<1>2. b \in 0 .. BLK_CNT /\ e \in 0 .. BLK_CNT
  BY <1>1, WindowType
<1>3. s \in b .. e
  <2>1. (SendAt \in Begin .. End)'
    BY SendAtType, PTL
  <2> QED BY <1>1, <2>1
<1>4. b = b + 0 /\ e = e + 0 /\ s = s + 0 /\ \A j \in b .. e - 1 : j = j + 0
  BY <1>2, <1>3, QueueAssumption
<1>5. Begin = Begin' + 0 /\ End = End' + 0 /\ SendAt = SendAt' + 0
  BY <1>1, <1>4
<1>6. \A j \in Begin' .. End' - 1 : blk_'[j] = blk_[j + 0]
  BY <1>1, <1>4
<1> QED BY <1>5, <1>6, ViewKept

(* Two empty windows look the same.                                         *)
LEMMA ViewEmpty ==
    ASSUME IInv, IInv', SendInv, SendInv', Begin = End, Begin' = End', UNCHANGED <<lo, hi>>
    PROVE  UNCHANGED View
<1>1. PICK b, e, s, b2, e2, s2 : /\ b = Begin /\ e = End /\ s = SendAt
                                 /\ b2 = Begin' /\ e2 = End' /\ s2 = SendAt'
  OBVIOUS
<1>2. b \in 0 .. BLK_CNT /\ s \in b .. e /\ b = e
  BY <1>1, WindowType, SendAtType
<1>3. b2 \in 0 .. BLK_CNT /\ s2 \in b2 .. e2 /\ b2 = e2
  <2>1. (Begin \in 0 .. BLK_CNT)' /\ (SendAt \in Begin .. End)'
    BY WindowType, SendAtType, PTL
  <2> QED BY <1>1, <2>1
<1>4. s = e /\ s2 = e2 /\ (\A j \in b .. e - 1 : FALSE) /\ (\A j \in b2 .. e2 - 1 : FALSE)
  BY <1>2, <1>3, QueueAssumption
<1>5. MsgsIn(blk_, b, e) = {} /\ MsgsIn(blk_', b2, e2) = {}
  BY <1>4 DEF MsgsIn
<1>6. PlaceOf(blk_, s, e, hi) = <<hi, 0>> /\ PlaceOf(blk_', s2, e2, hi) = <<hi, 0>>
  BY <1>4 DEF PlaceOf
<1>7. Win = {} /\ Win' = {} /\ Pos = <<hi, 0>> /\ Pos' = <<hi, 0>>
  BY <1>1, <1>5, <1>6 DEF Win, Pos
<1> QED BY <1>7 DEF View

(* The store of Push that commits is the push.                              *)
LEMMA PushCommitImplements ==
    ASSUME IInv, SendInv, PushCommit
    PROVE  Window!WPush
<1>1. /\ pc = "push" /\ pc' = "idle" /\ write_idx_' = write_idx_ + blk_sz /\ hi' = hi + 1
      /\ UNCHANGED <<blk_, read_idx_, send_idx_, lo>>
  BY DEF PushCommit
<1>2. /\ blk_ \in Mem /\ write_idx_ \in 0 .. BLK_CNT /\ read_idx_ \in 0 .. BLK_CNT
      /\ send_idx_ \in 0 .. BLK_CNT /\ hi \in Nat /\ blk_sz \in 0 .. BLK_CNT
      /\ write_idx_ \in Nat /\ read_idx_ \in Nat /\ send_idx_ \in Nat /\ blk_sz \in Nat
  BY QueueAssumption DEF IInv, TypeOK, Mem
<1>3. Fresh(blk_, write_idx_, hi, "net") /\ blk_sz = Blocks(blk_[write_idx_].size)
      /\ read_idx_ <= send_idx_ /\ send_idx_ <= write_idx_
  BY <1>1 DEF IInv, RoomInv, IndexInv
<1>4. /\ Begin = read_idx_ /\ End = write_idx_ /\ SendAt = send_idx_
      /\ Begin' = read_idx_ /\ End' = write_idx_ + blk_sz /\ SendAt' = send_idx_
  BY <1>1, <1>2, <1>3 DEF Begin, End, SendAt
<1>5. /\ blk_sz \in 1 .. BLK_CNT
      /\ MsgsIn(blk_, read_idx_, write_idx_ + blk_sz)
           = MsgsIn(blk_, read_idx_, write_idx_) \cup {[id |-> hi, len |-> blk_sz]}
  <2>1. read_idx_ <= write_idx_
    BY <1>2, <1>3
  <2> QED BY <1>2, <1>3, <2>1, MsgsPush
<1>6. PlaceOf(blk_, send_idx_, write_idx_ + blk_sz, hi + 1) = PlaceOf(blk_, send_idx_, write_idx_, hi)
  <2>1. send_idx_ # write_idx_ + blk_sz
    BY <1>2, <1>3, <1>5
  <2>2. blk_[write_idx_].id = hi /\ blk_[write_idx_].part = 0
    BY <1>3 DEF Fresh
  <2> QED BY <2>1, <2>2 DEF PlaceOf
<1>7. MsgsIn(blk_, Begin, End)' = MsgsIn(blk_, Begin, End) \cup {[id |-> hi, len |-> blk_sz]}
  BY <1>1, <1>4, <1>5
<1>8. PlaceOf(blk_, SendAt, End, hi)' = PlaceOf(blk_, SendAt, End, hi)
  BY <1>1, <1>4, <1>6
<1> QED BY <1>1, <1>5, <1>7, <1>8 DEF Window!WPush

(* Sendout hands the next blocks to the socket.                             *)
LEMMA SendoutImplements ==
    ASSUME IInv, SendInv, NEW n \in 1 .. BLK_CNT, Sendout(n)
    PROVE  Window!WSend
<1>1. /\ pc = "idle" /\ n \in 1 .. write_idx_ - send_idx_ /\ send_idx_' = send_idx_ + n
      /\ UNCHANGED <<blk_, write_idx_, read_idx_, pc, lo, hi>>
  BY DEF Sendout, GetSendable
<1>2. /\ blk_ \in Mem /\ write_idx_ \in 0 .. BLK_CNT /\ read_idx_ \in 0 .. BLK_CNT
      /\ lo \in Nat /\ hi \in Nat
      /\ write_idx_ \in Nat /\ read_idx_ \in Nat /\ send_idx_ \in Nat
      /\ read_idx_ <= send_idx_ /\ send_idx_ <= write_idx_
  BY <1>1, QueueAssumption DEF IInv, TypeOK, Mem, IndexInv
<1> DEFINE t == send_idx_ + n
<1>3. t \in Nat /\ read_idx_ <= t /\ t <= write_idx_ /\ send_idx_ < t
      /\ send_idx_ \in read_idx_ .. write_idx_ - 1
      /\ (t # write_idx_ => t \in send_idx_ + 1 .. write_idx_ - 1 /\ t \in read_idx_ .. write_idx_ - 1)
  BY <1>1, <1>2
<1>4. /\ Begin = read_idx_ /\ End = write_idx_ /\ SendAt = send_idx_
      /\ Begin' = read_idx_ /\ End' = write_idx_ /\ SendAt' = t
  <2>1. Begin = read_idx_ /\ End = write_idx_ /\ Begin' = read_idx_ /\ End' = write_idx_
    BY <1>1 DEF Begin, End
  <2> QED BY <1>1, <1>2, <1>3, <2>1 DEF SendAt
<1> HIDE DEF t
<1>5. Intact(blk_, read_idx_, write_idx_, lo, hi)
  BY <1>1 DEF IInv, WindowIntact, Begin, End
<1> DEFINE W == MsgsIn(blk_, read_idx_, write_idx_)
           p == PlaceOf(blk_, send_idx_, write_idx_, hi)
           q == PlaceOf(blk_, t, write_idx_, hi)
<1>6. p = <<blk_[send_idx_].id, blk_[send_idx_].part>> /\ blk_[send_idx_].id \in Nat
      /\ blk_[send_idx_].id < hi
  <2>1. send_idx_ # write_idx_
    BY <1>2, <1>3
  <2> QED BY <1>2, <1>3, <1>5, <2>1, IdsBetween DEF PlaceOf
<1>7. q \in {<<hi, 0>>} \cup UNION {{<<m.id, x>> : x \in 0 .. m.len - 1} : m \in W}
  <2>1. CASE t = write_idx_
    BY <2>1 DEF PlaceOf
  <2>2. CASE t # write_idx_
    <3>1. t \in read_idx_ .. write_idx_ - 1
      BY <1>3, <2>2
    <3>2. PICK i \in read_idx_ .. t : /\ blk_[i].part = 0 /\ blk_[i].id = blk_[t].id
                                      /\ blk_[t].part = t - i /\ t < i + MsgLen(blk_[i])
      BY <1>2, <1>5, <3>1, HeaderOf
    <3>3. i \in read_idx_ .. write_idx_ - 1 /\ i \in 0 .. BLK_CNT - 1 /\ i \in Nat /\ i <= t
      BY <1>2, <1>3, <3>1, QueueAssumption
    <3>4. MsgLen(blk_[i]) \in Nat
      BY <1>2, <1>5, <3>2, <3>3, MsgLenType DEF Intact
    <3> DEFINE m == [id |-> blk_[i].id, len |-> MsgLen(blk_[i])]
    <3>5. m \in W
      BY <3>2, <3>3 DEF MsgsIn
    <3>6. blk_[t].part \in 0 .. m.len - 1 /\ blk_[t].id = m.id
      BY <1>3, <3>2, <3>3, <3>4
    <3>7. q = <<m.id, blk_[t].part>>
      BY <2>2, <3>6 DEF PlaceOf
    <3> HIDE DEF m, q, W
    <3> QED BY <3>5, <3>6, <3>7
  <2> QED BY <2>1, <2>2
<1>8. p[1] < q[1] \/ (p[1] = q[1] /\ p[2] < q[2])
  <2>1. CASE t = write_idx_
    BY <1>6, <2>1 DEF PlaceOf
  <2>2. CASE t # write_idx_
    <3>1. q = <<blk_[t].id, blk_[t].part>>
      BY <2>2 DEF PlaceOf
    <3>2. t \in send_idx_ + 1 .. write_idx_ - 1
      BY <1>3, <2>2
    <3> QED BY <1>2, <1>3, <1>5, <1>6, <3>1, <3>2, PlacesUp
  <2> QED BY <2>1, <2>2
<1>9. MsgsIn(blk_, Begin, End)' = W /\ MsgsIn(blk_, Begin, End) = W
  BY <1>1, <1>4
<1>10. PlaceOf(blk_, SendAt, End, hi)' = q /\ PlaceOf(blk_, SendAt, End, hi) = p
  BY <1>1, <1>4
<1> HIDE DEF W, p, q
<1> QED BY <1>1, <1>7, <1>8, <1>9, <1>10 DEF Window!WSend, Window!Places, Window!Before

(* An iteration of Ack drops the first message; in a login this may be one  *)
(* that has not been sent completely.                                       *)
LEMMA AckIdxImplements ==
    ASSUME IInv, SendInv, AckIdx
    PROVE  Window!WAck
<1> DEFINE n == MsgLen(blk_[read_idx_])
           s == Sub(target, read_seq_num_)
<1>1. /\ blk_ \in Mem /\ write_idx_ \in 0 .. BLK_CNT /\ read_idx_ \in 0 .. BLK_CNT
      /\ send_idx_ \in Nat /\ write_idx_ \in Nat /\ read_idx_ \in Nat
      /\ lo \in Nat /\ hi \in Nat /\ target \in SeqNum /\ read_seq_num_ \in SeqNum
      /\ pc = "ack_idx" /\ pc' = "ack_seq" /\ lo' = lo + 1
      /\ UNCHANGED <<blk_, write_idx_, send_idx_, hi>>
  BY QueueAssumption DEF IInv, TypeOK, Mem, AckIdx
<1>2. s \in Nat /\ 0 < s /\ lo + s <= hi
  <2>1. s \in SeqNum
    BY <1>1, SeqArith
  <2>2. s \in Nat
    BY <2>1, QueueAssumption DEF SeqNum, SeqMod
  <2> QED BY <1>1, <2>2 DEF IInv, AckInv
<1> HIDE DEF s
<1>3. lo < hi
  BY <1>1, <1>2
<1>4. Intact(blk_, read_idx_, write_idx_, lo, hi) /\ send_idx_ <= write_idx_
  BY <1>1 DEF IInv, WindowIntact, Begin, End, SendInv
<1>5. /\ read_idx_ < write_idx_ /\ n \in Nat /\ n >= 1 /\ read_idx_ + n <= write_idx_
      /\ \A j \in read_idx_ .. read_idx_ + n - 1 : blk_[j].id = lo
      /\ Intact(blk_, read_idx_ + n, write_idx_, lo + 1, hi)
  BY <1>1, <1>3, <1>4, IntactDrop
<1>6. read_idx_' = read_idx_ + n
  <2>1. read_idx_ \in 0 .. BLK_CNT - 1
    BY <1>1, <1>5, QueueAssumption
  <2> QED BY <2>1 DEF AckIdx, At, MsgLen
<1>7. MsgsIn(blk_, read_idx_ + n, write_idx_) = {m \in MsgsIn(blk_, read_idx_, write_idx_) : m.id # lo}
  BY <1>1, <1>3, <1>4, MsgsDrop
<1> HIDE DEF n
<1> DEFINE a == IF send_idx_ < read_idx_ THEN read_idx_ ELSE send_idx_
           z == IF send_idx_ < read_idx_ + n THEN read_idx_ + n ELSE send_idx_
<1>8. /\ Begin = read_idx_ /\ End = write_idx_ /\ SendAt = a
      /\ Begin' = read_idx_ + n /\ End' = write_idx_ /\ SendAt' = z
  BY <1>1, <1>6 DEF Begin, End, SendAt
<1>9. PlaceOf(blk_, z, write_idx_, hi)
        = IF PlaceOf(blk_, a, write_idx_, hi)[1] = lo
          THEN <<lo + 1, 0>> ELSE PlaceOf(blk_, a, write_idx_, hi)
  <2>1. CASE send_idx_ < read_idx_ + n
    <3>1. z = read_idx_ + n /\ a \in read_idx_ .. read_idx_ + n - 1 /\ a # write_idx_
      BY <1>1, <1>5, <2>1
    <3>2. PlaceOf(blk_, a, write_idx_, hi)[1] = lo
      BY <1>5, <3>1 DEF PlaceOf
    <3>3. PlaceOf(blk_, z, write_idx_, hi) = <<lo + 1, 0>>
      <4>1. CASE read_idx_ + n = write_idx_
        BY <1>5, <3>1, <4>1 DEF PlaceOf, Intact
      <4>2. CASE read_idx_ + n # write_idx_
        <5>1. read_idx_ + n < write_idx_
          BY <1>1, <1>5, <4>2
        <5> QED BY <1>5, <3>1, <4>2, <5>1 DEF PlaceOf, Intact
      <4> QED BY <4>1, <4>2
    <3> QED BY <3>2, <3>3
  <2>2. CASE ~(send_idx_ < read_idx_ + n)
    <3>1. z = send_idx_ /\ a = send_idx_
      BY <1>1, <1>5, <2>2
    <3>2. PlaceOf(blk_, send_idx_, write_idx_, hi)[1] # lo
      <4>1. CASE send_idx_ = write_idx_
        BY <1>1, <1>3, <4>1 DEF PlaceOf
      <4>2. CASE send_idx_ # write_idx_
        <5>1. send_idx_ \in read_idx_ + n .. write_idx_ - 1 /\ read_idx_ + n \in 0 .. BLK_CNT
              /\ lo + 1 \in Nat
          BY <1>1, <1>4, <1>5, <2>2, <4>2, QueueAssumption
        <5>2. blk_[send_idx_].id \in Nat /\ lo + 1 <= blk_[send_idx_].id
          BY <1>1, <1>5, <5>1, IdsBetween
        <5>3. blk_[send_idx_].id # lo
          BY <1>1, <5>2
        <5> QED BY <4>2, <5>3 DEF PlaceOf
      <4> QED BY <4>1, <4>2
    <3> QED BY <3>1, <3>2
  <2> QED BY <2>1, <2>2
<1> HIDE DEF a, z
<1>10. MsgsIn(blk_, Begin, End)' = {m \in MsgsIn(blk_, Begin, End) : m.id # lo}
  BY <1>1, <1>7, <1>8
<1>11. PlaceOf(blk_, SendAt, End, hi)'
         = IF PlaceOf(blk_, SendAt, End, hi)[1] = lo
           THEN <<lo + 1, 0>> ELSE PlaceOf(blk_, SendAt, End, hi)
  BY <1>1, <1>8, <1>9
<1> QED BY <1>1, <1>3, <1>10, <1>11 DEF Window!WAck

(* Every store is a step of SendWindow or changes nothing it sees.          *)
LEMMA NextImplements ==
    ASSUME IInv, IInv', SendInv, SendInv', [Next \/ Death]_vars
    PROVE  [Window!WNext]_(Window!wvars)
<1> SUFFICES Window!WNext \/ UNCHANGED View
  BY DEF Window!wvars, View, Win, Pos
<1>1. /\ blk_ \in Mem /\ write_idx_ \in Nat /\ read_idx_ \in Nat /\ send_idx_ \in Nat
      /\ write_idx_ <= BLK_CNT /\ read_idx_ <= BLK_CNT /\ BLK_CNT \in Nat
      /\ pc \in Steps /\ ret \in {"idle", "login"}
  BY QueueAssumption DEF IInv, TypeOK, Mem
\* A store to no index and no block that counts.
<1>2. ASSUME UNCHANGED <<blk_, write_idx_, read_idx_, send_idx_, lo, hi>>,
             pc \notin {"move_w", "move_s", "move_r", "zero_w", "zero_r"},
             pc' \notin {"move_w", "move_s", "move_r", "zero_w", "zero_r"}
      PROVE  UNCHANGED View
  BY <1>2, ViewSame DEF Begin, End, SendAt
<1>3. CASE AllocMove
  <2>1. /\ pc = "move" /\ pc' = "move_w" /\ blk_' = Moved(write_idx_ - read_idx_)
        /\ UNCHANGED <<write_idx_, read_idx_, send_idx_, lo, hi>>
    BY <1>3 DEF AllocMove
  <2>2. read_idx_ <= send_idx_ /\ send_idx_ <= write_idx_
    BY <2>1 DEF IInv, IndexInv
  <2>3. /\ Begin = read_idx_ /\ End = write_idx_ /\ SendAt = send_idx_
        /\ Begin' = 0 /\ End' = write_idx_ - read_idx_ /\ SendAt' = send_idx_ - read_idx_
    BY <1>1, <2>1, <2>2 DEF Begin, End, SendAt
  <2>4. ASSUME NEW j \in 0 .. write_idx_ - read_idx_ - 1
        PROVE  blk_'[j] = blk_[j + read_idx_]
    <3>1. j \in 0 .. BLK_CNT - 1 /\ j < write_idx_ - read_idx_ /\ j + read_idx_ \in 0 .. BLK_CNT - 1
      BY <1>1
    <3> QED BY <2>1, <3>1 DEF Moved, At
  <2>5. /\ Begin = Begin' + read_idx_ /\ End = End' + read_idx_ /\ SendAt = SendAt' + read_idx_
        /\ \A j \in Begin' .. End' - 1 : blk_'[j] = blk_[j + read_idx_]
    BY <1>1, <2>3, <2>4
  <2> QED BY <1>1, <2>1, <2>5, ViewKept
<1>4. CASE AllocMoveWrite \/ AllocMoveSend
  <2>1. read_idx_ <= send_idx_
    BY <1>4 DEF AllocMoveWrite, AllocMoveSend, IInv, IndexInv
  <2>2. Begin' = Begin /\ End' = End /\ SendAt' = SendAt /\ UNCHANGED <<blk_, lo, hi>>
    BY <1>1, <1>4, <2>1 DEF AllocMoveWrite, AllocMoveSend, Begin, End, SendAt
  <2> QED BY <2>2, ViewSame
<1>5. CASE AllocMoveRead
  <2>1. Begin' = Begin /\ End' = End /\ SendAt' = SendAt /\ UNCHANGED <<blk_, lo, hi>>
    BY <1>1, <1>5 DEF AllocMoveRead, Begin, End, SendAt
  <2> QED BY <2>1, ViewSame
<1>6. CASE AllocHeader
  <2>1. /\ pc = "alloc_hdr" /\ pc' = "idle"
        /\ UNCHANGED <<write_idx_, read_idx_, send_idx_, lo, hi>>
        /\ \A j \in 0 .. BLK_CNT - 1 :
             j \notin write_idx_ .. write_idx_ + Blocks(size) - 1 => blk_'[j] = blk_[j]
    BY <1>6 DEF AllocHeader
  <2>2. Begin' = Begin /\ End' = End /\ SendAt' = SendAt /\ Begin = read_idx_ /\ End = write_idx_
    BY <2>1 DEF Begin, End, SendAt
  <2>3. \A j \in read_idx_ .. write_idx_ - 1 :
          j \in 0 .. BLK_CNT - 1 /\ j \notin write_idx_ .. write_idx_ + Blocks(size) - 1
    BY <1>1
  <2> QED BY <2>1, <2>2, <2>3, ViewSame
<1>7. CASE Push
  <2>1. /\ pc = "idle" /\ pc' = "push" /\ UNCHANGED <<write_idx_, read_idx_, send_idx_, lo, hi>>
        /\ \A j \in 0 .. BLK_CNT - 1 : j # write_idx_ => blk_'[j] = blk_[j]
    BY <1>1, <1>7 DEF Push, Mem
  <2>2. Begin' = Begin /\ End' = End /\ SendAt' = SendAt /\ Begin = read_idx_ /\ End = write_idx_
    BY <2>1 DEF Begin, End, SendAt
  <2>3. \A j \in read_idx_ .. write_idx_ - 1 : j \in 0 .. BLK_CNT - 1 /\ j # write_idx_
    BY <1>1
  <2> QED BY <2>1, <2>2, <2>3, ViewSame
<1>8. CASE PushCommit
  BY <1>8, PushCommitImplements DEF Window!WNext
<1>9. CASE AckIdx
  BY <1>9, AckIdxImplements DEF Window!WNext
<1>10. CASE AckSeq
  BY <1>1, <1>2, <1>10 DEF AckSeq
<1>11. CASE AckZeroSend
  <2>1. pc = "zero_s" /\ pc' = "zero_w" /\ UNCHANGED <<write_idx_, read_idx_, lo, hi>>
    BY <1>11 DEF AckZeroSend
  <2>2. read_idx_ = write_idx_
    BY <2>1 DEF IInv, IndexInv
  <2> QED BY <2>1, <2>2, ViewEmpty DEF Begin, End
<1>12. CASE AckZeroWrite
  <2>1. pc = "zero_w" /\ pc' = "zero_r" /\ UNCHANGED <<read_idx_, lo, hi>>
    BY <1>12 DEF AckZeroWrite
  <2>2. read_idx_ = write_idx_
    BY <2>1 DEF IInv, IndexInv
  <2> QED BY <2>1, <2>2, ViewEmpty DEF Begin, End
<1>13. CASE AckZeroRead
  <2>1. /\ pc = "zero_r" /\ pc' \in {"idle", "login"} /\ read_idx_' = 0
        /\ UNCHANGED <<write_idx_, lo, hi>>
    BY <1>1, <1>13 DEF AckZeroRead
  <2>2. write_idx_ = 0
    BY <2>1 DEF IInv, IndexInv
  <2> QED BY <2>1, <2>2, ViewEmpty DEF Begin, End
<1>14. CASE LoginAckSend
  <2>1. /\ pc = "login" /\ pc' = "idle" /\ send_idx_' = read_idx_
        /\ UNCHANGED <<blk_, write_idx_, read_idx_, lo, hi>>
    BY <1>14 DEF LoginAckSend
  <2>2. /\ Begin = read_idx_ /\ End = write_idx_
        /\ Begin' = read_idx_ /\ End' = write_idx_ /\ SendAt' = read_idx_
    BY <1>1, <2>1 DEF Begin, End, SendAt
  <2>3. Intact(blk_, read_idx_, write_idx_, lo, hi)
    BY <2>2 DEF IInv, WindowIntact
  <2>4. PlaceOf(blk_, read_idx_, write_idx_, hi) = <<lo, 0>>
    <3>1. read_idx_ = write_idx_ \/ read_idx_ < write_idx_
      BY <1>1, <2>3 DEF Intact
    <3> QED BY <2>3, <3>1 DEF PlaceOf, Intact
  <2>5. /\ MsgsIn(blk_, Begin, End)' = MsgsIn(blk_, Begin, End)
        /\ PlaceOf(blk_, SendAt, End, hi)' = <<lo, 0>>
    BY <2>1, <2>2, <2>4
  <2>6. Window!WLogin
    BY <2>1, <2>5 DEF Window!WLogin
  <2> QED BY <2>6 DEF Window!WNext
<1>15. CASE ResetZero
  <2>1. /\ pc' = "idle" /\ read_idx_' = 0 /\ write_idx_' = 0 /\ send_idx_' = 0
        /\ lo' = 0 /\ hi' = 0
    BY <1>15 DEF ResetZero
  <2>2. Begin' = 0 /\ End' = 0 /\ SendAt' = 0
    BY <2>1 DEF Begin, End, SendAt
  <2>3. \A j \in 0 .. 0 - 1 : FALSE
    OBVIOUS
  <2>4. MsgsIn(blk_, Begin, End)' = {} /\ PlaceOf(blk_, SendAt, End, hi)' = <<0, 0>>
    BY <2>1, <2>2, <2>3 DEF MsgsIn, PlaceOf
  <2>5. Window!WReset
    BY <2>1, <2>4 DEF Window!WReset
  <2> QED BY <2>5 DEF Window!WNext
<1>16. CASE Call
  <2>1. ASSUME NEW sz \in UserSizes, Alloc(sz) PROVE UNCHANGED View
    <3>1. pc = "idle" /\ pc' \in {"alloc_hdr", "move", "idle"} /\ UNCHANGED <<mem, lo, hi>>
      BY <2>1 DEF Alloc
    <3> QED BY <1>2, <3>1 DEF mem
  <2>2. ASSUME NEW n \in 1 .. BLK_CNT, Sendout(n) PROVE Window!WNext
    BY <2>2, SendoutImplements DEF Window!WNext
  <2>3. ASSUME NEW s, NEW caller \in {"idle", "login"}, AckCall(s, caller) PROVE UNCHANGED View
    <3>1. pc = "idle" /\ pc' \in {"ack_idx", "idle", "login"} /\ UNCHANGED <<mem, lo, hi>>
      BY <2>3 DEF AckCall
    <3> QED BY <1>2, <3>1 DEF mem
  <2>4. CASE hdr = Nil /\ Reset
    BY <1>2, <2>4 DEF Reset, mem
  <2>5. CASE Popped
    BY <1>2, <2>5 DEF Popped, MyAckInc
  <2> QED BY <1>7, <1>16, <2>1, <2>2, <2>3, <2>4, <2>5 DEF Call, Ack, LoginAck
<1>17. CASE UNCHANGED vars
  <2>1. Begin' = Begin /\ End' = End /\ SendAt' = SendAt /\ UNCHANGED <<blk_, lo, hi>>
    BY <1>17 DEF vars, mem, Begin, End, SendAt
  <2> QED BY <2>1, ViewSame
<1>18. CASE Death
  BY <1>2, <1>18 DEF Death, Untouched, mem
<1> QED BY <1>3, <1>4, <1>5, <1>6, <1>8, <1>9, <1>10, <1>11, <1>12, <1>13, <1>14, <1>15,
           <1>16, <1>17, <1>18 DEF Next, Internal

LEMMA InitImplements == Init => Window!WInit
<1> SUFFICES ASSUME Init PROVE Window!WInit
  OBVIOUS
<1>1. Begin = 0 /\ End = 0 /\ SendAt = 0 /\ lo = 0 /\ hi = 0
  BY DEF Init, Begin, End, SendAt
<1>2. \A j \in 0 .. 0 - 1 : FALSE
  OBVIOUS
<1>3. MsgsIn(blk_, Begin, End) = {} /\ PlaceOf(blk_, SendAt, End, hi) = <<0, 0>>
  BY <1>1, <1>2 DEF MsgsIn, PlaceOf
<1> QED BY <1>1, <1>3 DEF Window!WInit

(* The queue refines the send window: whatever the order of its calls, and  *)
(* at every store to the mapped memory, a message leaves only from the      *)
(* front, by Ack or Reset, and its blocks go to the socket in order, none   *)
(* twice without a login.  A death that DeathSpec has is no step of the     *)
(* window at all; those inside memmove, Reset or a group of index stores    *)
(* (CrashSpec) are not covered.                                             *)
THEOREM RefinesSendWindow == DeathSpec => ImplementsSendWindow
<1>1. Init => IInv /\ SendInv
  BY InitIInv, InitSendInv
<1>2. IInv /\ SendInv /\ [Next \/ Death]_vars => (IInv /\ SendInv)'
  BY NextIInv, NextSendInv
<1>3. IInv /\ IInv' /\ SendInv /\ SendInv' /\ [Next \/ Death]_vars => [Window!WNext]_(Window!wvars)
  BY NextImplements
<1> QED BY <1>1, <1>2, <1>3, InitImplements, PTL DEF DeathSpec, ImplementsSendWindow, Window!WSpec
=============================================================================
