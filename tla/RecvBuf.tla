------------------------------ MODULE RecvBuf ------------------------------
(***************************************************************************)
(* The receive buffer of PTCPConnection (ptcp_conn.h): Front, DoRecv and   *)
(* Pop cut the bytes of a TCP connection into messages, in a buffer that   *)
(* is compacted and enlarged as they arrive.  One thread makes the calls,  *)
(* so each is one step; the socket gives as many bytes as it likes.  A     *)
(* connection that ends by an error, the peer or a timeout is one whose    *)
(* socket gives nothing more, until Open.                                  *)
(*                                                                         *)
(* Bytes are counted in units of 4: a header is HDR = 2 units and can      *)
(* arrive in two reads, messages are padded to a multiple of it.  A cell   *)
(* says which unit (off) of which message it holds, the len and kind of    *)
(* that message and, at off = 0, the byte order of its header.             *)
(***************************************************************************)
EXTENDS Integers, Sequences, FiniteSetsExt

CONSTANTS TcpRecvBufInitSize, TcpRecvBufMaxSize, \* in units
          StackBuf,   \* size of DoRecv's stackbuf, in units
          MsgLens,    \* lengths of messages, header included, in units
          SockCap,    \* no more arrives while the socket holds so many units
          Ids         \* message ids of the history wrap at Ids

HDR == 2

ASSUME BufAssumption ==
    /\ TcpRecvBufInitSize \in Nat \ {0} /\ TcpRecvBufInitSize % HDR = 0
    /\ TcpRecvBufMaxSize \in Nat /\ TcpRecvBufMaxSize % HDR = 0
    /\ TcpRecvBufMaxSize >= TcpRecvBufInitSize
    /\ StackBuf \in Nat \ {0} /\ SockCap \in Nat /\ Ids \in Nat \ {0}
    /\ \A len \in MsgLens : len \in Nat /\ len >= HDR

VARIABLES
    b,       \* the buffer: buf, size (recvbuf_size_), w (writeidx_),
             \*   n (nextmsg_idx_), r (readidx_)
    fresh,   \* last_my_ack_ # q_->MyAck()
    head,    \* the last call, a Front, has returned the message at readidx_
    closed,  \* Close has been called
    sock,    \* units that have arrived and have not been read
    sent, got \* history: ids of the next message to arrive, and to be popped

vars == <<b, fresh, head, closed, sock, sent, got>>

Pad(len)   == ((len + HDR - 1) \div HDR) * HDR
NextId(id) == (id + 1) % Ids

\* Memory that holds nothing of the stream.
Junk == [id |-> Ids, off |-> 0, len |-> HDR, kind |-> "msg", order |-> "net"]

Units(id, kind, len) ==
    [k \in 1 .. Pad(len) |->
       [id |-> id, off |-> k - 1, len |-> len, kind |-> kind, order |-> "net"]]

ConvertByteOrder(h) == [h EXCEPT !.order = IF @ = "host" THEN "net" ELSE "host"]
LoadLen(h) == IF h.order = "host" THEN h.len ELSE 256 * h.len

\* What lies outside readidx_ .. writeidx_ - 1 is dead.
Live(x) ==
    [x EXCEPT !.buf = [i \in DOMAIN x.buf |-> IF i \in x.r .. x.w - 1 THEN x.buf[i] ELSE Junk]]

Init ==
    /\ b = [buf |-> [i \in 0 .. TcpRecvBufMaxSize - 1 |-> Junk],
            size |-> TcpRecvBufInitSize, w |-> 0, n |-> 0, r |-> 0]
    /\ fresh \in BOOLEAN /\ head = FALSE /\ closed = FALSE
    /\ sock = <<>> /\ sent = 0 /\ got = 0

-----------------------------------------------------------------------------
(* DoRecv *)

\* Faulty variants of an operation, named ...Bug, stand before it: each breaks
\* one property, which shows that the property depends on the operation.

Rewound(x) == IF x.r > 0 /\ x.r = x.w THEN [buf |-> x.buf, size |-> x.size, w |-> 0, n |-> 0, r |-> 0]
              ELSE x

Writable(x) == x.size - x.w

\* The buffer is never enlarged.
ExtraBug(x) == Min({StackBuf, x.r})

Extra(x) ==
    LET expand == 2 * (Writable(x) + x.r) < x.size
    IN Min({StackBuf, x.r + IF expand THEN TcpRecvBufMaxSize - x.size ELSE 0})

\* The new size does not depend on what has been read.
NewSizeBug(x, k) == IF k <= Writable(x) + x.r THEN x.size
                    ELSE Min({TcpRecvBufMaxSize, x.size + HDR})

NewSize(x, k) == IF k <= Writable(x) + x.r THEN x.size
                 ELSE Min({TcpRecvBufMaxSize, Max({2 * x.size, Pad(x.w - x.r + k)})})

\* The blocks that stay are not moved.
ShiftedBug(x, data) ==
    LET room == Writable(x)
        keep == x.size - x.r
    IN [i \in DOMAIN x.buf |->
          IF i < keep THEN IF i < x.w THEN x.buf[i] ELSE data[i - x.w + 1]
          ELSE IF i < keep + Len(data) - room THEN data[room + i - keep + 1] ELSE Junk]

\* memmove, or memcpy to a larger buffer, of what readv left in the buffer,
\* followed by what it left in stackbuf.
Shifted(x, data) ==
    LET room == Writable(x)
        keep == x.size - x.r
    IN [i \in DOMAIN x.buf |->
          IF i < keep THEN IF i + x.r < x.w THEN x.buf[i + x.r] ELSE data[i + x.r - x.w + 1]
          ELSE IF i < keep + Len(data) - room THEN data[room + i - keep + 1] ELSE Junk]

Received(x, data) ==
    IF Len(data) <= Writable(x)
    THEN [x EXCEPT !.buf = [i \in DOMAIN x.buf |-> IF i \in x.w .. x.w + Len(data) - 1
                                                   THEN data[i - x.w + 1] ELSE x.buf[i]]]
    ELSE [buf |-> Shifted(x, data), size |-> NewSize(x, Len(data)),
          w |-> x.w - x.r, n |-> x.n - x.r, r |-> 0]

-----------------------------------------------------------------------------
(* Front *)

\* The first message at or after i: heartbeats, which are headers only, are
\* consumed.
FirstMsg(buf, i, n) == Min({k \in i .. n : k = n \/ buf[k].kind # "hb"})

SkipHB(x) == [x EXCEPT !.r = FirstMsg(x.buf, x.r, x.n)]

\* A header in the buffer before this read is converted again if its message
\* was not complete.
UnconvertedBug(old_writeidx, i) == TRUE

\* The header at i was not in the buffer, or not all of it, before this read.
Unconverted(old_writeidx, i) == old_writeidx - i < HDR

\* A message is refused that the buffer could be enlarged for.
TooLargeBug(size) == size > TcpRecvBufInitSize

TooLarge(size) == size > TcpRecvBufMaxSize

Hdr(x, i)     == IF Unconverted(x.w, i) THEN ConvertByteOrder(x.buf[i]) ELSE x.buf[i]
MsgSize(x, i) == Pad(LoadLen(Hdr(x, i)))

\* All of the message at i has been received when the buffer ends at w.
Whole(x, w, i) == w - i >= HDR /\ ~TooLarge(MsgSize(x, i)) /\ w - i >= MsgSize(x, i)

\* Where the loop comes by: each message that is whole, and then one more place.
Visited(x, w) ==
    LET from[i \in 0 .. w] ==
          {i} \cup IF Whole(x, w, i) THEN from[i + MsgSize(x, i)] ELSE {}
    IN from[x.n]

\* len units have been received: convert the headers at nextmsg_idx_ and after
\* it, up to the first message that is not complete.
Parsed(x, len) ==
    LET w   == x.w + len
        n   == Max(Visited(x, w))
        buf == [i \in DOMAIN x.buf |->
                  IF i \in Visited(x, w) /\ w - i >= HDR THEN Hdr(x, i) ELSE x.buf[i]]
    IN [close |-> w - n >= HDR /\ TooLarge(MsgSize(x, n)),
        b |-> [buf |-> buf, size |-> x.size, w |-> w, n |-> n,
               r |-> IF x.r = x.n THEN FirstMsg(buf, x.n, n) ELSE x.r]]

FrontRecv(x) ==
    LET room == Writable(x) + Extra(x)
    IN \/ /\ sock = <<>> \/ room = 0 \/ closed     \* nothing is read
          /\ b' = Live(x) /\ head' = (x.r # x.n)
          /\ UNCHANGED <<sock, closed>>
       \/ /\ ~closed
          /\ \E len \in 1 .. Min({room, Len(sock)}) :
            \E res \in {Parsed(Received(x, SubSeq(sock, 1, len)), len)} :
               /\ b' = Live(res.b) /\ closed' = res.close
               /\ head' = (~res.close /\ res.b.r # res.b.n)
               /\ sock' = SubSeq(sock, len + 1, Len(sock))

\* The server polls a closed connection too: what is in the buffer is returned.
Front ==
    /\ LET x == SkipHB(b)
       IN \/ /\ x.r # x.n /\ fresh
             /\ b' = Live(x) /\ fresh' = FALSE /\ head' = TRUE
             /\ UNCHANGED <<sock, closed>>
          \/ /\ x.r = x.n \/ ~fresh
             /\ FrontRecv(Rewound(x))
             /\ UNCHANGED fresh
    /\ UNCHANGED <<sent, got>>

Pop ==
    /\ head /\ head' = FALSE
    /\ b' = Live([b EXCEPT !.r = @ + Pad(LoadLen(b.buf[@]))])
    /\ fresh' = TRUE /\ got' = NextId(got)
    /\ UNCHANGED <<closed, sock, sent>>

-----------------------------------------------------------------------------
Arrive(kind, len) ==
    /\ ~closed /\ Len(sock) < SockCap
    /\ sock' = sock \o Units(sent, kind, len)
    /\ sent' = IF kind = "msg" THEN NextId(sent) ELSE sent
    /\ UNCHANGED <<b, fresh, head, closed, got>>

Poll ==
    \/ Front \/ Pop
    \/ Arrive("hb", HDR)
    \/ \E len \in MsgLens : Arrive("msg", len)

\* Open: the next connection starts with the first message not popped.  The
\* enlarged buffer and last_my_ack_ stay.
Open ==
    /\ b' = Live([buf |-> b.buf, size |-> b.size, w |-> 0, n |-> 0, r |-> 0])
    /\ head' = FALSE /\ closed' = FALSE /\ sock' = <<>> /\ sent' = got
    /\ UNCHANGED <<fresh, got>>

Next == Poll \/ Open

Spec == Init /\ [][Next]_vars

-----------------------------------------------------------------------------
(* Every variable keeps its type, the indices are ordered, and nothing is   *)
(* written past the buffer, which never exceeds its limit.                  *)
TypeOK ==
    /\ 0 <= b.r /\ b.r <= b.n /\ b.n <= b.w /\ b.w <= b.size /\ b.size <= TcpRecvBufMaxSize
    /\ b.size % HDR = 0
    /\ {fresh, head, closed} \subseteq BOOLEAN /\ {sent, got} \subseteq 0 .. Ids - 1
    /\ head => b.r # b.n

Follows(c, d) ==
    IF c.off + 1 < Pad(c.len)
    THEN d.id = c.id /\ d.off = c.off + 1
    ELSE d.off = 0 /\ d.id = IF c.kind = "msg" THEN NextId(c.id) ELSE c.id

(* The buffer from readidx_ on, and the socket after it, hold exactly the   *)
(* part of the stream that begins with the first message not popped: no     *)
(* byte is lost, repeated or exchanged by compaction, enlargement or Pop.   *)
Stream ==
    LET s == [k \in 1 .. b.w - b.r |-> b.buf[b.r + k - 1]] \o sock
    IN s # <<>> => /\ s[1].off = 0 /\ s[1].id = got
                   /\ \A k \in 1 .. Len(s) - 1 : Follows(s[k], s[k + 1])

(* Exactly the headers that Front has gone over are in host order, each     *)
(* converted once however its bytes arrived: those before nextmsg_idx_, and *)
(* the one at it when it is complete.                                       *)
Converted ==
    \A i \in b.r .. b.w - 1 :
        b.buf[i].off = 0 => (b.buf[i].order = "host" <=> i + HDR <= b.w)

(* Front closes a connection only for a message that is too large for the   *)
(* largest buffer.                                                          *)
ClosedRightly == closed => Pad(b.buf[b.n].len) > TcpRecvBufMaxSize

(* A connection that waits for the rest of a message can always read more:  *)
(* DoRecv does not return 0 for want of room ("we should avoid buffer       *)
(* expansion") while a message that the largest buffer can hold is cut off. *)
NeverStuck ==
    LET x == Rewound(SkipHB(b))
    IN ~closed /\ x.r = x.n => Writable(x) + Extra(x) > 0
=============================================================================
