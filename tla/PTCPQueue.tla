------------------------------ MODULE PTCPQueue ------------------------------
(***************************************************************************)
(* PTCPQueue of ptcp_queue.h: the single-threaded send queue of a ptcp     *)
(* connection, kept in an mmap-ed file.  Every store the code makes to the *)
(* mapped memory is a step, so that "the process dies here" is a state of  *)
(* the model; the calls of the owning thread never overlap.                *)
(*                                                                         *)
(* A block is sizeof(MsgHeader) = 8 bytes.  A cell of blk_ says which      *)
(* block of which message it holds (id, part); size, ack and order are the *)
(* header fields and mean something in the first block of a message only.  *)
(***************************************************************************)
EXTENDS SeqNumbers

CONSTANTS BLK_CNT,    \* number of blocks of the queue
          UserSizes,  \* payload sizes in bytes that the user passes to Alloc
          AckLead,    \* bound on messages received while one waits for its ack
          MaxMsgs     \* bound on messages pushed between two Resets

HeaderSize == 8             \* sizeof(MsgHeader), and the size of a block
MsgSize    == 0 .. 65535    \* uint16_t

\* BLK_CNT is a count of 8-byte blocks, far below 2^31.
ASSUME QueueAssumption ==
    BLK_CNT \in Nat /\ BLK_CNT >= 1 /\ HalfSeq \in Nat /\ BLK_CNT < HalfSeq

\* A message with its header must fit in a uint16_t (README, Limitations).
ASSUME SizeAssumption ==
    \A sz \in UserSizes : sz \in Nat /\ sz + HeaderSize \in MsgSize

ASSUME BoundAssumption == AckLead \in 0 .. HalfSeq - 1 /\ MaxMsgs \in Nat

VARIABLES
    blk_,          \* the blocks
    write_idx_, read_idx_, send_idx_, read_seq_num_, ack_seq_num_,
    pc,            \* the next store of the call in progress, or "idle"
    size,          \* Alloc: size of the message, header included
    blk_sz,        \* Push: blocks of the message
    target,        \* Ack: the parameter ack_seq
    ret,           \* Ack: where it returns to, "idle" or "login" (LoginAck)
    hdr,           \* the pointer the user got from Alloc and has not pushed
    lo, hi         \* history: ids of the first unacknowledged, next message

mem   == <<blk_, write_idx_, read_idx_, send_idx_, read_seq_num_, ack_seq_num_>>
local == <<size, blk_sz, target, ret>>
vars  == <<mem, pc, local, hdr, lo, hi>>

-----------------------------------------------------------------------------
(* Headers: a field loaded in the wrong byte order has its bytes swapped. *)

Blocks(bytes) == (bytes + HeaderSize - 1) \div HeaderSize
bswap16(x)    == (x % 256) * 256 + x \div 256

ByteOrder == {"host", "net"}
Cell      == [id : Nat, part : Nat, size : MsgSize, ack : SeqNum, order : ByteOrder]

ZeroCell == [id |-> 0, part |-> 0, size |-> 0, ack |-> 0, order |-> "host"]

ConvertByteOrder(h) == [h EXCEPT !.order = IF @ = "host" THEN "net" ELSE "host"]
LoadSize(h) == IF h.order = "host" THEN h.size ELSE bswap16(h.size)

\* A read past the end of blk_ finds no header.
At(i) == IF i \in 0 .. BLK_CNT - 1 THEN blk_[i] ELSE ZeroCell

\* The cells of a message of the given size as the user fills them in.
Filled(i, at, bytes) ==
    [id |-> hi, part |-> i - at, size |-> IF i = at THEN bytes ELSE 0,
     ack |-> 0, order |-> "host"]

Nil == -1

-----------------------------------------------------------------------------
Init ==
    /\ blk_ = [i \in 0 .. BLK_CNT - 1 |-> ZeroCell]
    /\ write_idx_ = 0 /\ read_idx_ = 0 /\ send_idx_ = 0
    /\ read_seq_num_ = 0 /\ ack_seq_num_ = 0
    /\ pc = "idle" /\ size = 0 /\ blk_sz = 0 /\ target = 0 /\ ret = "idle"
    /\ hdr = Nil /\ lo = 0 /\ hi = 0

(* Alloc: find room, moving the blocks to the front when that makes it. *)

\* Faulty variants of an operation, named ...Bug, stand before it: each breaks
\* one property, which shows that the property depends on the operation.
AvailBug == BLK_CNT - write_idx_ + 1

Avail == BLK_CNT - write_idx_

Alloc(sz) ==
    /\ pc = "idle" /\ hi < MaxMsgs
    /\ hdr' = Nil
    /\ size' = sz + HeaderSize
    /\ \/ Blocks(size') <= Avail /\ pc' = "alloc_hdr"
       \/ Blocks(size') > Avail /\ Blocks(size') <= Avail + read_idx_ /\ pc' = "move"
       \/ Blocks(size') > Avail + read_idx_ /\ pc' = "idle"     \* return nullptr
    /\ UNCHANGED <<mem, blk_sz, target, ret, lo, hi>>

MovedBug(n) == [i \in 0 .. BLK_CNT - 1 |-> IF i < n - 1 THEN At(i + read_idx_) ELSE blk_[i]]

Moved(n) == [i \in 0 .. BLK_CNT - 1 |-> IF i < n THEN At(i + read_idx_) ELSE blk_[i]]

AllocMove ==
    /\ pc = "move" /\ pc' = "move_w"
    /\ blk_' = Moved(write_idx_ - read_idx_)
    /\ UNCHANGED <<write_idx_, read_idx_, send_idx_, read_seq_num_, ack_seq_num_,
                   local, hdr, lo, hi>>

AllocMoveWrite ==
    /\ pc = "move_w" /\ pc' = "move_s"
    /\ write_idx_' = write_idx_ - read_idx_
    /\ UNCHANGED <<blk_, read_idx_, send_idx_, read_seq_num_, ack_seq_num_,
                   local, hdr, lo, hi>>

AllocMoveSend ==
    /\ pc = "move_s" /\ pc' = "move_r"
    /\ send_idx_' = send_idx_ - read_idx_
    /\ UNCHANGED <<blk_, write_idx_, read_idx_, read_seq_num_, ack_seq_num_,
                   local, hdr, lo, hi>>

AllocMoveRead ==
    /\ pc = "move_r" /\ pc' = "alloc_hdr"
    /\ read_idx_' = 0
    /\ UNCHANGED <<blk_, write_idx_, send_idx_, read_seq_num_, ack_seq_num_,
                   local, hdr, lo, hi>>

\* header.size is set, the pointer returned, and the user fills in the message.
AllocHeader ==
    /\ pc = "alloc_hdr" /\ pc' = "idle"
    /\ blk_' = [i \in 0 .. BLK_CNT - 1 |->
                  IF i \in write_idx_ .. write_idx_ + Blocks(size) - 1
                  THEN Filled(i, write_idx_, size) ELSE blk_[i]]
    /\ hdr' = write_idx_
    /\ UNCHANGED <<write_idx_, read_idx_, send_idx_, read_seq_num_, ack_seq_num_,
                   local, lo, hi>>

(* Push: stamp the header with our ack, put it in wire order, commit. *)

\* The header is not put in wire order.
PushBug ==
    /\ pc = "idle" /\ hdr # Nil /\ pc' = "push"
    /\ blk_sz' = Blocks(LoadSize(At(write_idx_)))
    /\ blk_' = [blk_ EXCEPT ![write_idx_].ack = ack_seq_num_]
    /\ hdr' = Nil
    /\ UNCHANGED <<write_idx_, read_idx_, send_idx_, read_seq_num_, ack_seq_num_,
                   size, target, ret, lo, hi>>

Push ==
    /\ pc = "idle" /\ hdr # Nil /\ pc' = "push"
    /\ blk_sz' = Blocks(LoadSize(At(write_idx_)))
    /\ blk_' = [blk_ EXCEPT ![write_idx_] =
                  ConvertByteOrder([@ EXCEPT !.ack = ack_seq_num_])]
    /\ hdr' = Nil
    /\ UNCHANGED <<write_idx_, read_idx_, send_idx_, read_seq_num_, ack_seq_num_,
                   size, target, ret, lo, hi>>

PushCommit ==
    /\ pc = "push" /\ pc' = "idle"
    /\ write_idx_' = write_idx_ + blk_sz
    /\ hi' = hi + 1
    /\ UNCHANGED <<blk_, read_idx_, send_idx_, read_seq_num_, ack_seq_num_,
                   local, hdr, lo>>

(* GetSendable and Sendout: the socket took some of the blocks not sent yet. *)

GetSendable == write_idx_ - send_idx_

\* The blocks are counted from the first unacknowledged one.
SendoutBug(n) ==
    /\ pc = "idle" /\ n \in 1 .. GetSendable
    /\ send_idx_' = read_idx_ + n
    /\ UNCHANGED <<blk_, write_idx_, read_idx_, read_seq_num_, ack_seq_num_,
                   pc, local, hdr, lo, hi>>

Sendout(n) ==
    /\ pc = "idle" /\ n \in 1 .. GetSendable
    /\ send_idx_' = send_idx_ + n
    /\ UNCHANGED <<blk_, write_idx_, read_idx_, read_seq_num_, ack_seq_num_,
                   pc, local, hdr, lo, hi>>

(* Ack: drop messages until the parameter's is the first one. *)

AckCall(ack_seq, caller) ==
    /\ pc = "idle"
    /\ IF Signed(Sub(ack_seq, read_seq_num_)) <= 0
       THEN pc' = caller /\ UNCHANGED <<target, ret>>
       ELSE pc' = "ack_idx" /\ target' = ack_seq /\ ret' = caller
    /\ UNCHANGED <<mem, size, blk_sz, hdr, lo, hi>>

AckIdx ==
    /\ pc = "ack_idx" /\ pc' = "ack_seq"
    /\ read_idx_' = read_idx_ + Blocks(LoadSize(ConvertByteOrder(At(read_idx_))))
    /\ lo' = lo + 1
    /\ UNCHANGED <<blk_, write_idx_, send_idx_, read_seq_num_, ack_seq_num_,
                   local, hdr, hi>>

AckSeq ==
    /\ pc = "ack_seq"
    /\ read_seq_num_' = Inc(read_seq_num_)
    /\ pc' = IF read_seq_num_' # target THEN "ack_idx"
             ELSE IF read_idx_ = write_idx_ THEN "zero_s" ELSE ret
    /\ UNCHANGED <<blk_, write_idx_, read_idx_, send_idx_, ack_seq_num_,
                   local, hdr, lo, hi>>

AckZeroSend ==
    /\ pc = "zero_s" /\ pc' = "zero_w"
    /\ send_idx_' = 0
    /\ UNCHANGED <<blk_, write_idx_, read_idx_, read_seq_num_, ack_seq_num_,
                   local, hdr, lo, hi>>

AckZeroWrite ==
    /\ pc = "zero_w" /\ pc' = "zero_r"
    /\ write_idx_' = 0
    /\ UNCHANGED <<blk_, read_idx_, send_idx_, read_seq_num_, ack_seq_num_,
                   local, hdr, lo, hi>>

AckZeroRead ==
    /\ pc = "zero_r" /\ pc' = ret
    /\ read_idx_' = 0
    /\ UNCHANGED <<blk_, write_idx_, send_idx_, read_seq_num_, ack_seq_num_,
                   local, hdr, lo, hi>>

(* LoginAck: after the Ack, everything left is to be sent again. *)

\* What the peer has not acknowledged is not sent again.
LoginAckSendBug ==
    /\ pc = "login" /\ pc' = "idle"
    /\ UNCHANGED <<mem, local, hdr, lo, hi>>

LoginAckSend ==
    /\ pc = "login" /\ pc' = "idle"
    /\ send_idx_' = read_idx_
    /\ UNCHANGED <<blk_, write_idx_, read_idx_, read_seq_num_, ack_seq_num_,
                   local, hdr, lo, hi>>

\* MyAck()++ of PTCPConnection::Pop.
MyAckInc ==
    /\ pc = "idle"
    /\ ack_seq_num_' = Inc(ack_seq_num_)
    /\ UNCHANGED <<blk_, write_idx_, read_idx_, send_idx_, read_seq_num_,
                   pc, local, hdr, lo, hi>>

\* PTCPConnection::Reset: new (q_) PTCPQ() zeroes the whole mapped object.
Reset ==
    /\ pc = "idle" /\ pc' = "reset"
    /\ UNCHANGED <<mem, local, hdr, lo, hi>>

Zeroed(n) == [i \in 0 .. BLK_CNT - 1 |-> IF i < n THEN ZeroCell ELSE blk_[i]]

\* The sequence number survives.
ResetZeroBug ==
    /\ pc = "reset" /\ pc' = "idle"
    /\ blk_' = Zeroed(BLK_CNT)
    /\ write_idx_' = 0 /\ read_idx_' = 0 /\ send_idx_' = 0
    /\ ack_seq_num_' = 0
    /\ lo' = 0 /\ hi' = 0
    /\ UNCHANGED <<read_seq_num_, local, hdr>>

ResetZero ==
    /\ pc = "reset" /\ pc' = "idle"
    /\ blk_' = Zeroed(BLK_CNT)
    /\ write_idx_' = 0 /\ read_idx_' = 0 /\ send_idx_' = 0
    /\ read_seq_num_' = 0 /\ ack_seq_num_' = 0
    /\ lo' = 0 /\ hi' = 0
    /\ UNCHANGED <<local, hdr>>

(* SanityCheckAndGetSeq: walk the headers of the mapped file before a login. *)
(* A header of size 0 does not move the walk: the loop never ends.           *)

walk[i \in Nat] ==
    IF i >= write_idx_
    THEN [res |-> IF i = write_idx_ THEN "ok" ELSE "bad", msgs |-> 0]
    ELSE LET h == ConvertByteOrder(At(i))
             n == Blocks(LoadSize(h))
         IN CASE Signed(Sub(ack_seq_num_, h.ack)) < 0 -> [res |-> "bad", msgs |-> 0]
              [] n = 0  -> [res |-> "hang", msgs |-> 0]
              [] OTHER  -> [walk[i + n] EXCEPT !.msgs = @ + 1]

SanityCheckAndGetSeq ==
    [res       |-> walk[read_idx_].res,
     seq_start |-> read_seq_num_,
     seq_end   |-> Add(read_seq_num_, walk[read_idx_].msgs)]

-----------------------------------------------------------------------------
(* The callers.  Alloc is followed by Push before the owning thread polls   *)
(* again (hdr = Nil in Ack, LoginAck, Reset).                               *)

\* The oldest message not sent completely, hi if there is none: a peer has
\* received, and acknowledges, older ones only.
SentId == IF send_idx_ = write_idx_ THEN hi ELSE At(send_idx_).id

\* PTCPConnection::DoRecv: every header received carries the peer's ack,
\* which is old, repeated or new, and at most half the number space away.
Ack(k) == pc = "idle" /\ hdr = Nil /\ lo + k <= SentId /\ AckCall(Add(read_seq_num_, k), "idle")

\* PTCPConnection::Open, after CheckAckInQueue.
LoginAck(k) == hdr = Nil /\ lo + k <= hi /\ AckCall(Add(read_seq_num_, k), "login")

\* PTCPConnection::Pop.
Popped ==
    /\ read_idx_ < write_idx_ => Sub(ack_seq_num_, At(read_idx_).ack) < AckLead
    /\ MyAckInc

Call ==
    \/ \E sz \in UserSizes : Alloc(sz)
    \/ Push
    \/ \E n \in 1 .. BLK_CNT : Sendout(n)
    \/ \E k \in 1 - HalfSeq .. HalfSeq - 1 : Ack(k)
    \/ \E k \in 0 .. HalfSeq - 1 : LoginAck(k)
    \/ Popped
    \/ hdr = Nil /\ Reset

Internal ==
    \/ AllocMove \/ AllocMoveWrite \/ AllocMoveSend \/ AllocMoveRead \/ AllocHeader
    \/ PushCommit
    \/ AckIdx \/ AckSeq \/ AckZeroSend \/ AckZeroWrite \/ AckZeroRead \/ LoginAckSend
    \/ ResetZero

Next == Call \/ Internal

Spec == Init /\ [][Next]_vars

(* The process dies and is started again: the mapped memory is as it was,   *)
(* the locals are gone.  A login follows before the queue is used; the      *)
(* calls that this allows without one are more than the code makes.         *)

\* No store of the call in progress has been made, or only stores behind
\* write_idx_, or Ack has done with a message and gone to the next.
Untouched ==
    \/ pc \in {"idle", "alloc_hdr", "move", "push", "reset"}
    \/ pc \in {"ack_idx", "zero_s"} /\ ret = "idle"

Death ==
    /\ Untouched
    /\ pc' = "idle" /\ hdr' = Nil
    /\ UNCHANGED <<mem, local, lo, hi>>

DeathSpec == Init /\ [][Next \/ Death]_vars

\* The zeroing of Reset, cut after n of the blocks and fields in the order of
\* their addresses.  No message is left once write_idx_ is 0.
ResetUpTo(n) ==
    LET Cut(k, field) == IF n >= BLK_CNT + k THEN 0 ELSE field IN
    /\ blk_' = Zeroed(n)
    /\ write_idx_' = Cut(1, write_idx_) /\ read_idx_' = Cut(2, read_idx_)
    /\ send_idx_' = Cut(3, send_idx_)
    /\ read_seq_num_' = Cut(4, read_seq_num_) /\ ack_seq_num_' = Cut(5, ack_seq_num_)
    /\ lo' = Cut(4, lo)
    /\ hi' = IF n > BLK_CNT THEN lo' ELSE hi

\* A death anywhere else: between two stores of a call, or inside memmove or the
\* zeroing of Reset.
Crash ==
    /\ pc' = "idle" /\ hdr' = Nil /\ UNCHANGED local
    /\ \/ /\ pc = "move" /\ \E n \in 0 .. write_idx_ - read_idx_ : blk_' = Moved(n)
          /\ UNCHANGED <<write_idx_, read_idx_, send_idx_, read_seq_num_, ack_seq_num_, lo, hi>>
       \/ pc = "reset" /\ \E n \in 0 .. BLK_CNT + 5 : ResetUpTo(n)
       \/ ~ Untouched /\ UNCHANGED <<mem, lo, hi>>

CrashSpec == Init /\ [][Next \/ Death \/ Crash]_vars

-----------------------------------------------------------------------------
(* Where the queued messages are while a call moves them or the indices. *)

Begin == IF pc \in {"move_w", "move_s", "move_r"} THEN 0 ELSE read_idx_
End   == CASE pc = "move_w" -> write_idx_ - read_idx_
           [] pc = "zero_r" -> read_idx_
           [] OTHER         -> write_idx_

MsgLen(c) == Blocks(LoadSize(ConvertByteOrder(c)))

\* Cell i is the header of a message that ends before e, followed by the next
\* one or, at e, the last one before h.
MsgAt(blk, e, h, i) ==
    /\ blk[i].order = "net"
    /\ MsgLen(blk[i]) >= 1 /\ i + MsgLen(blk[i]) <= e
    /\ \A j \in i + 1 .. i + MsgLen(blk[i]) - 1 :
         blk[j].part = j - i /\ blk[j].id = blk[i].id
    /\ i + MsgLen(blk[i]) < e =>
         /\ blk[i + MsgLen(blk[i])].part = 0
         /\ blk[i + MsgLen(blk[i])].id = blk[i].id + 1
    /\ i + MsgLen(blk[i]) = e => blk[i].id = h - 1

\* Cells b to e - 1 are complete messages in wire order, numbered l to h - 1.
Intact(blk, b, e, l, h) ==
    /\ b <= e
    /\ b = e => l = h
    /\ b < e => blk[b].part = 0 /\ blk[b].id = l
    /\ \A i \in b .. e - 1 : /\ blk[i].id < h
                             /\ blk[i].part = 0 => MsgAt(blk, e, h, i)

Steps == {"idle", "alloc_hdr", "move", "move_w", "move_s", "move_r", "push",
          "ack_idx", "ack_seq", "zero_s", "zero_w", "zero_r", "login", "reset"}

(* Every variable keeps its type; the indices stay inside blk_ whatever    *)
(* calls are made (Alloc, Ack and LoginAck compute them with unsigned       *)
(* subtraction and never check them).                                       *)
TypeOK ==
    /\ blk_ \in [0 .. BLK_CNT - 1 -> Cell]
    /\ write_idx_ \in 0 .. BLK_CNT /\ read_idx_ \in 0 .. BLK_CNT
    /\ send_idx_ \in 0 .. BLK_CNT
    /\ read_seq_num_ \in SeqNum /\ ack_seq_num_ \in SeqNum /\ target \in SeqNum
    /\ pc \in Steps /\ ret \in {"idle", "login"}
    /\ size \in MsgSize /\ blk_sz \in 0 .. BLK_CNT
    /\ hdr \in {Nil} \cup 0 .. BLK_CNT - 1
    /\ lo \in Nat /\ hi \in Nat /\ lo <= hi

(* The invariant the code states at its fields: whenever no call is in      *)
(* progress, read_idx_ <= send_idx_ <= write_idx_.                          *)
IndexOrder == pc = "idle" => read_idx_ <= send_idx_ /\ send_idx_ <= write_idx_

(* At every store, the window between the indices is a row of complete      *)
(* messages in wire order, the unacknowledged ones from lo to hi - 1 in the *)
(* order of their Push: memmove, Ack and Alloc never tear, lose or reorder  *)
(* a message.                                                               *)
WindowIntact == Intact(blk_, Begin, End, lo, hi)

(* read_seq_num_ is "the seq_num_ of msg read_idx_ points to", across the   *)
(* wrap of the number space, except between the two stores of Ack's loop.   *)
FirstSeq == read_seq_num_ = (IF pc = "ack_seq" THEN lo - 1 ELSE lo) % SeqMod

(* Between calls the check made on the file before a login succeeds and     *)
(* reports exactly the sequence numbers of the queued messages.             *)
SanityCheckSound ==
    pc = "idle" => SanityCheckAndGetSeq =
        [res |-> "ok", seq_start |-> lo % SeqMod, seq_end |-> hi % SeqMod]

(* "disconnects/crashes are tolerated" (README): when the process has died  *)
(* and the check on the file passes, the sequence numbers it reports are    *)
(* those of the messages in the file.                                       *)
RecoveredSeqs ==
    pc = "idle" /\ SanityCheckAndGetSeq.res = "ok" =>
        /\ SanityCheckAndGetSeq.seq_start = lo % SeqMod
        /\ SanityCheckAndGetSeq.seq_end = hi % SeqMod

-----------------------------------------------------------------------------
(* The refinement mapping to SendWindow: the window is read off the headers *)
(* between the indices, as Ack and SanityCheckAndGetSeq read it.             *)

\* send_idx_ while a call moves the indices, and never before the window: a
\* login may acknowledge what this process never sent.
SendAt ==
    LET s == CASE pc \in {"move_w", "move_s"} -> send_idx_ - read_idx_
               [] pc \in {"zero_w", "zero_r"} -> End
               [] OTHER                       -> send_idx_
    IN IF s < Begin THEN Begin ELSE s

MsgsIn(blk, b, e) ==
    {[id |-> blk[i].id, len |-> MsgLen(blk[i])] : i \in {j \in b .. e - 1 : blk[j].part = 0}}

PlaceOf(blk, s, e, h) == IF s = e THEN <<h, 0>> ELSE <<blk[s].id, blk[s].part>>

Window == INSTANCE SendWindow
            WITH MaxLen <- BLK_CNT, first <- lo, next <- hi,
                 win <- MsgsIn(blk_, Begin, End), pos <- PlaceOf(blk_, SendAt, End, hi)

(* Every store of PTCPQueue is a step of SendWindow or changes nothing it   *)
(* sees: no block is sent twice without a login, none is skipped, and a     *)
(* message leaves the window only from the front and only by Ack or Reset.  *)
ImplementsSendWindow == Window!WSpec

-----------------------------------------------------------------------------
(* What makes IndexOrder and WindowIntact inductive. *)

\* IndexOrder at every store.
IndexInv ==
    /\ pc \in {"idle", "alloc_hdr", "move", "move_w", "push", "reset"} =>
         read_idx_ <= send_idx_ /\ send_idx_ <= write_idx_
    /\ pc = "move_s" => read_idx_ <= send_idx_ /\ send_idx_ - read_idx_ <= write_idx_
    /\ pc = "move_r" => send_idx_ <= write_idx_
    /\ pc \in {"ack_idx", "ack_seq", "zero_s"} /\ ret = "idle" =>
         read_idx_ <= send_idx_ /\ send_idx_ <= write_idx_
    /\ pc \in {"zero_s", "zero_w"} => read_idx_ = write_idx_
    /\ pc \in {"zero_w", "zero_r"} => send_idx_ = 0
    /\ pc = "zero_r" => write_idx_ = 0

\* The cells of the message being written, from w, in the given byte order.
Fresh(blk, w, h, order) ==
    /\ w < BLK_CNT
    /\ blk[w].part = 0 /\ blk[w].id = h /\ blk[w].order = order
    /\ blk[w].size >= HeaderSize /\ w + Blocks(blk[w].size) <= BLK_CNT
    /\ \A j \in w + 1 .. w + Blocks(blk[w].size) - 1 :
         blk[j].part = j - w /\ blk[j].id = h

\* Alloc has found room, and Push commits the message that Alloc gave room to.
RoomInv ==
    /\ pc \in {"move", "move_w", "move_s", "move_r", "alloc_hdr"} => size >= HeaderSize
    /\ pc \in {"move", "move_w"} => Blocks(size) <= BLK_CNT - write_idx_ + read_idx_
    /\ pc \in {"move_s", "move_r", "alloc_hdr"} => Blocks(size) <= BLK_CNT - write_idx_
    /\ hdr # Nil => pc = "idle" /\ Fresh(blk_, write_idx_, hi, "host")
    /\ pc = "push" => /\ Fresh(blk_, write_idx_, hi, "net")
                      /\ blk_sz = Blocks(blk_[write_idx_].size)

\* The messages that Ack still has to drop are in the window, and in a running
\* connection they have been sent.
AckInv ==
    /\ pc = "ack_idx" => /\ 0 < Sub(target, read_seq_num_)
                         /\ lo + Sub(target, read_seq_num_) <= hi
                         /\ ret = "idle" => lo + Sub(target, read_seq_num_) <= SentId
    /\ pc = "ack_seq" => /\ 0 < Sub(target, read_seq_num_)
                         /\ lo + Sub(target, read_seq_num_) - 1 <= hi
                         /\ ret = "idle" => lo + Sub(target, read_seq_num_) - 1 <= SentId

(* The inductive invariant: at every store the indices are ordered as the   *)
(* call in progress has left them, the window is intact, and what the call  *)
(* has checked still holds.                                                 *)
IInv == TypeOK /\ WindowIntact /\ IndexInv /\ RoomInv /\ AckInv

=============================================================================
