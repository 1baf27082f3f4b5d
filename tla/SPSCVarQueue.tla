---------------------------- MODULE SPSCVarQueue ----------------------------
(***************************************************************************)
(* SPSCVarQueue of spsc_varq.h: the ring of cache-line blocks in shared    *)
(* memory that one process writes and the other reads without a lock.      *)
(* Every access to memory the two share is a step.  write_idx_atom is      *)
(* stored with release and loaded with acquire, and so is read_idx where   *)
(* blocks are given back, hence the steps interleave as if memory were     *)
(* sequentially consistent.                                                *)
(*                                                                         *)
(* The indices are uint32_t and never reduced: they wrap at SeqMod (2^32), *)
(* a multiple of the block count.  A cell says which block of which        *)
(* message it holds; size is the header field, 0 in a padding mark.        *)
(***************************************************************************)
EXTENDS SeqNumbers

CONSTANTS BLK_CNT,    \* number of blocks of the queue, a power of 2
          UserSizes,  \* payload sizes in bytes that the user passes to Alloc
          Ids         \* message ids of the history wrap at Ids

HeaderSize == 8             \* sizeof(MsgHeader)
BlockSize  == 64            \* sizeof(Block)
MsgSize    == 0 .. 65535    \* uint16_t

\* The index space is a multiple of the queue, and a message and its padding
\* never span half of it (a uint32_t number of bytes is at most 2^26 blocks).
ASSUME RingAssumption ==
    /\ BLK_CNT \in Nat \ {0} /\ HalfSeq \in Nat /\ BLK_CNT < HalfSeq
    /\ SeqMod % BLK_CNT = 0
    /\ Ids \in Nat /\ Ids > BLK_CNT
    /\ \A sz \in UserSizes : /\ sz \in Nat /\ sz + HeaderSize \in MsgSize
                             /\ (sz + HeaderSize) \div BlockSize + 1 + BLK_CNT <= HalfSeq

VARIABLES
    blk,                        \* the blocks
    write_idx, write_idx_atom, read_idx_cach, read_idx,
    wpc,       \* the writer's next access, or "idle"
    size,      \* Alloc: size of the message, header included (0 outside)
    rpc,       \* the reader's next access, or "idle"
    curr_write_idx,             \* Front: write_idx_atom as it was loaded (0 outside)
    sent, got  \* history: ids of the next message to push, and to pop

mem    == <<blk, write_idx, write_idx_atom, read_idx_cach, read_idx>>
writer == <<wpc, size>>
reader == <<rpc, curr_write_idx>>
vars   == <<mem, writer, reader, sent, got>>

Blocks(bytes) == (bytes + BlockSize - 1) \div BlockSize
Padding(idx)  == BLK_CNT - (idx % BLK_CNT)
Header(idx)   == blk[idx % BLK_CNT]

NextId(id)    == (id + 1) % Ids

ZeroCell == [id |-> 0, part |-> 0, size |-> 0]

Init ==
    /\ blk = [i \in 0 .. BLK_CNT - 1 |-> ZeroCell]
    /\ write_idx = 0 /\ write_idx_atom = 0 /\ read_idx_cach = 0 /\ read_idx = 0
    /\ wpc = "idle" /\ size = 0 /\ rpc = "idle" /\ curr_write_idx = 0
    /\ sent = 0 /\ got = 0

-----------------------------------------------------------------------------
(* The writer.  "ready": Alloc has returned a pointer.  A user who has one  *)
(* may call Alloc again without Push.                                       *)

Rewind(bytes) == Blocks(bytes) > Padding(write_idx)

\* Faulty variants of an operation, named ...Bug, stand before it: each breaks
\* one property, which shows that the property depends on the operation.

Need(bytes) == Blocks(bytes) + IF Rewind(bytes) THEN Padding(write_idx) ELSE 0

\* A full queue is given one block more.
EnoughBug(idx, bytes) ==
    Signed(Sub(idx, Add(write_idx, Need(bytes) - BLK_CNT - 1))) >= 0

\* idx is not before min_read_idx.
Enough(idx, bytes) ==
    Signed(Sub(idx, Add(write_idx, Need(bytes) - BLK_CNT))) >= 0

AfterCheck(bytes) == IF Rewind(bytes) THEN "mark" ELSE "header"

Alloc(sz) ==
    /\ wpc \in {"idle", "ready"}
    /\ size' = sz + HeaderSize
    /\ wpc' = IF Enough(read_idx_cach, size') THEN AfterCheck(size') ELSE "load"
    /\ UNCHANGED <<mem, reader, sent, got>>

\* The copy of read_idx is not refreshed.
AllocLoadBug ==
    /\ wpc = "load" /\ wpc' = "idle" /\ size' = 0
    /\ UNCHANGED <<mem, reader, sent, got>>

AllocLoad ==
    /\ wpc = "load"
    /\ read_idx_cach' = read_idx
    /\ \/ Enough(read_idx, size) /\ wpc' = AfterCheck(size) /\ size' = size
       \/ ~Enough(read_idx, size) /\ wpc' = "idle" /\ size' = 0     \* return nullptr
    /\ UNCHANGED <<blk, write_idx, write_idx_atom, read_idx, reader, sent, got>>

AllocMark ==
    /\ wpc = "mark" /\ wpc' = "rewind"
    /\ blk' = [blk EXCEPT ![write_idx % BLK_CNT].size = 0]
    /\ UNCHANGED <<write_idx, write_idx_atom, read_idx_cach, read_idx, size, reader, sent, got>>

AllocRewind ==
    /\ wpc = "rewind" /\ wpc' = "header"
    /\ write_idx' = Add(write_idx, Padding(write_idx))
    /\ UNCHANGED <<blk, write_idx_atom, read_idx_cach, read_idx, size, reader, sent, got>>

AllocHeader ==
    /\ wpc = "header" /\ wpc' = "fill"
    /\ blk' = [blk EXCEPT ![write_idx % BLK_CNT].size = size]
    /\ UNCHANGED <<write_idx, write_idx_atom, read_idx_cach, read_idx, size, reader, sent, got>>

\* The user writes the message where the pointer says; whatever bytes it puts at
\* the start of the later blocks, they are no header.
Fill ==
    /\ wpc = "fill" /\ wpc' = "ready" /\ size' = 0
    /\ LET at == write_idx % BLK_CNT
       IN blk' = [i \in 0 .. BLK_CNT - 1 |->
                    IF i \in at .. at + Blocks(size) - 1
                    THEN [id |-> sent, part |-> i - at, size |-> IF i = at THEN blk[i].size ELSE 1]
                    ELSE blk[i]]
    /\ UNCHANGED <<write_idx, write_idx_atom, read_idx_cach, read_idx, reader, sent, got>>

Push ==
    /\ wpc = "ready" /\ wpc' = "commit"
    /\ write_idx' = Add(write_idx, Blocks(Header(write_idx).size))
    /\ sent' = NextId(sent)
    /\ UNCHANGED <<blk, write_idx_atom, read_idx_cach, read_idx, size, reader, got>>

\* The reader is not told.
PushCommitBug ==
    /\ wpc = "commit" /\ wpc' = "idle"
    /\ UNCHANGED <<mem, size, reader, sent, got>>

PushCommit ==
    /\ wpc = "commit" /\ wpc' = "idle"
    /\ write_idx_atom' = write_idx
    /\ UNCHANGED <<blk, write_idx, read_idx_cach, read_idx, size, reader, sent, got>>

-----------------------------------------------------------------------------
(* The reader.  "msg": Front has returned a pointer and the user reads it.  *)

Front ==
    /\ rpc = "idle" /\ read_idx # write_idx_atom
    /\ curr_write_idx' = write_idx_atom
    /\ rpc' = "size"
    /\ UNCHANGED <<mem, writer, sent, got>>

FrontSize ==
    /\ rpc = "size"
    /\ \/ Header(read_idx).size = 0 /\ rpc' = "skip" /\ UNCHANGED curr_write_idx
       \/ Header(read_idx).size # 0 /\ rpc' = "msg" /\ curr_write_idx' = 0
    /\ UNCHANGED <<mem, writer, sent, got>>

\* A padding mark is skipped by one block.
FrontSkipBug ==
    /\ rpc = "skip"
    /\ read_idx' = Inc(read_idx)
    /\ rpc' = IF read_idx' = curr_write_idx THEN "idle" ELSE "msg"
    /\ curr_write_idx' = 0
    /\ UNCHANGED <<blk, write_idx, write_idx_atom, read_idx_cach, writer, sent, got>>

FrontSkip ==
    /\ rpc = "skip"
    /\ read_idx' = Add(read_idx, Padding(read_idx))
    /\ rpc' = IF read_idx' = curr_write_idx THEN "idle" ELSE "msg"
    /\ curr_write_idx' = 0
    /\ UNCHANGED <<blk, write_idx, write_idx_atom, read_idx_cach, writer, sent, got>>

\* The handler returns without Pop: the message stays.
NotPopped ==
    /\ rpc = "msg" /\ rpc' = "idle"
    /\ UNCHANGED <<mem, writer, curr_write_idx, sent, got>>

Pop ==
    /\ rpc = "msg" /\ rpc' = "idle"
    /\ read_idx' = Add(read_idx, Blocks(Header(read_idx).size))
    /\ got' = NextId(got)
    /\ UNCHANGED <<blk, write_idx, write_idx_atom, read_idx_cach, writer, curr_write_idx, sent>>

-----------------------------------------------------------------------------
Write ==
    \/ \E sz \in UserSizes : Alloc(sz)
    \/ AllocLoad \/ AllocMark \/ AllocRewind \/ AllocHeader \/ Fill
    \/ Push \/ PushCommit

Read == Front \/ FrontSize \/ FrontSkip \/ NotPopped \/ Pop

Next == Write \/ Read

\* The writer's user tries every size again and again and pushes what it gets;
\* the reader's polls, and its handler pops every message in the end.
Fairness ==
    /\ \A sz \in UserSizes : SF_vars(wpc = "idle" /\ Alloc(sz))
    /\ WF_vars(AllocLoad \/ AllocMark \/ AllocRewind \/ AllocHeader \/ Fill \/ PushCommit)
    /\ SF_vars(Push)
    /\ WF_vars(Front \/ FrontSize \/ FrontSkip) /\ SF_vars(Pop)

Spec == Init /\ [][Next]_vars /\ Fairness

\* A process dies between two accesses and is started again on the same memory.
WriterCrash == wpc # "idle" /\ wpc' = "idle" /\ size' = 0 /\ UNCHANGED <<mem, reader, sent, got>>
ReaderCrash ==
    rpc # "idle" /\ rpc' = "idle" /\ curr_write_idx' = 0 /\ UNCHANGED <<mem, writer, sent, got>>

CrashSpec == Init /\ [][Next \/ WriterCrash \/ ReaderCrash]_vars

-----------------------------------------------------------------------------
(* Every variable keeps its type, and neither end passes the other: the     *)
(* writer is at most BLK_CNT blocks ahead, what is published has been       *)
(* written, and the writer's copy of read_idx is never ahead of it.         *)
TypeOK ==
    /\ blk \in [0 .. BLK_CNT - 1 -> [id : 0 .. Ids - 1, part : 0 .. BLK_CNT - 1, size : MsgSize]]
    /\ {write_idx, write_idx_atom, read_idx_cach, read_idx, curr_write_idx} \subseteq SeqNum
    /\ {sent, got} \subseteq 0 .. Ids - 1
    /\ size \in MsgSize
    /\ wpc \in {"idle", "load", "mark", "rewind", "header", "fill", "ready", "commit"}
    /\ rpc \in {"idle", "size", "skip", "msg"}
    /\ Sub(write_idx_atom, read_idx) <= Sub(write_idx, read_idx)
    /\ Sub(write_idx, read_idx) <= Sub(write_idx, read_idx_cach)
    /\ Sub(write_idx, read_idx_cach) <= BLK_CNT

(* While the reader's user has a message, its blocks hold exactly the next  *)
(* message in the order of Push, whole: the writer neither overwrites a     *)
(* message in use nor lets one be seen before it is complete, and rewinding *)
(* loses and repeats none.                                                  *)
InHand ==
    rpc = "msg" =>
        LET at == read_idx % BLK_CNT
            n  == Blocks(blk[at].size)
        IN /\ n >= 1 /\ at + n <= BLK_CNT
           /\ \A i \in 0 .. n - 1 : blk[at + i].id = got /\ blk[at + i].part = i

(* "return nullptr if no enough space": Alloc of a message of at most half  *)
(* the ring never fails when every message has been popped, whatever the    *)
(* writer's copy of read_idx says and wherever the ring's end is.           *)
EmptyAlloc ==
    [][AllocLoad /\ wpc' = "idle" /\ 2 * Blocks(size) <= BLK_CNT + 1
         => read_idx # write_idx]_vars

(* Neither user waits forever: one more message is always pushed and        *)
(* popped (got goes round and round).                                       *)
Progress == []<>(got = 0) /\ []<>(got # 0)
=============================================================================
