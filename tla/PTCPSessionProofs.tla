------------------------- MODULE PTCPSessionProofs -------------------------
(***************************************************************************)
(* PTCPSession for every capacity of the queues and the sockets, every     *)
(* number of faults and every sequence number to start from, between two   *)
(* ends that are in step (Established).                                    *)
(*                                                                         *)
(* The argument counts the messages of an end, and the blocks it sends,    *)
(* without wrapping: message n has sequence number Num(n), its header is   *)
(* block 2n of the end's stream and its body block 2n + 1.                 *)
(***************************************************************************)
EXTENDS PTCPSession, SeqNumbersProofs, SequenceTheorems

Num(n) == (SeqStart + n) % SeqMod

-----------------------------------------------------------------------------
(* What makes the properties inductive. *)

QueueRec == [msgs : Seq(Message), seq : SeqNum, ack : SeqNum, sent : Nat]

\* A queue with the messages from number f up to w, of an end that has popped g.
Queue(qe, f, g, w) ==
    /\ qe \in QueueRec /\ f + Len(qe.msgs) = w /\ Len(qe.msgs) <= QCap /\ qe.sent <= 2 * Len(qe.msgs)
    /\ qe.seq = Num(f) /\ qe.ack = Num(g)
    /\ \A i \in 1 .. Len(qe.msgs) : /\ qe.msgs[i].id = f + i - 1
                                    /\ \E a \in 0 .. g : qe.msgs[i].ack = Num(a)

\* The blocks s are those of a stream from position lo up to position hi, with
\* heartbeats between messages; f is the position before each block.
RunBy(s, lo, hi, f) ==
    /\ f[1] = lo /\ f[Len(s) + 1] = hi
    /\ \A i, j \in 1 .. Len(s) + 1 : i <= j => f[i] <= f[j]
    /\ \A i \in 1 .. Len(s) :
         /\ s[i].kind = "header" => f[i] = 2 * s[i].id /\ f[i + 1] = f[i] + 1
         /\ s[i].kind = "body"   => f[i] = 2 * s[i].id + 1 /\ f[i + 1] = f[i] + 1
         /\ s[i].kind = "hb"     => f[i + 1] = f[i] /\ \E n \in Nat : f[i] = 2 * n

Run(s, lo, hi) == \E f \in [Nat -> Nat] : RunBy(s, lo, hi, f)

First(e)  == pushed[e] - Len(q[e].msgs)
SentTo(e) == 2 * First(e) + q[e].sent
Pending(e) == IF part[e] = None THEN 0 ELSE 1
Connected(e) == sock[e] \in {"open", "closing"}

\* The server has accepted the login of the client inside Connect.
Accepted == sock["c"] = "login" /\ rsp # None /\ rsp.status = 0

\* e reads, or will read when Connect goes on, what is in chan[e], from Base(e).
Hears(e) == sock[e] = "open" \/ (e = "c" /\ Accepted)
Base(e)  == IF sock[e] = "open" THEN 2 * (popped[e] + Len(recvd[e])) + Pending(e)
            ELSE 2 * popped[e]

Login0 == [mine : BOOLEAN, last_server_name : {ServerName}, ack : SeqNum,
           seq_start : SeqNum, seq_end : SeqNum]

SockState == {"closed", "login", "open", "closing"}

Typed ==
    /\ q \in [Ends -> QueueRec]
    /\ last_server = ServerName
    /\ opened \in [Ends -> BOOLEAN] /\ link \in BOOLEAN
    /\ sock \in [Ends -> SockState] /\ sock["s"] # "login"
    /\ recvd \in [Ends -> Seq(WireBlock)] /\ part \in [Ends -> WireBlock \cup {None}]
    /\ chan \in [Ends -> Seq(WireBlock)]
    /\ logins \subseteq Login0
    /\ pushed \in [Ends -> Nat] /\ popped \in [Ends -> Nat]
    /\ pushed["c"] + pushed["s"] <= MaxMsgs

\* A queue holds the messages from First on, and the peer has popped neither
\* one before First nor one not pushed yet.
QueueInv(e) ==
    /\ First(e) \in Nat /\ Queue(q[e], First(e), popped[e], pushed[e])
    /\ First(e) <= popped[Peer(e)] /\ popped[Peer(e)] <= pushed[e]

\* The receive buffer continues where the user is.
RecvInv(e) ==
    Connected(e) =>
        /\ \A i \in 1 .. Len(recvd[e]) : recvd[e][i].id = popped[e] + i - 1
        /\ part[e] # None => part[e].id = popped[e] + Len(recvd[e])
        /\ 2 * (popped[e] + Len(recvd[e])) + Pending(e) <= 2 * pushed[Peer(e)]

\* What is on its way continues where the receive buffer ends, up to what the
\* peer has sent.
ChanInv(e) ==
    Hears(e) =>
        \E hi \in Nat :
            /\ Run(chan[e], Base(e), hi)
            /\ hi <= 2 * pushed[Peer(e)]
            /\ link /\ sock[Peer(e)] = "open" => hi = SentTo(Peer(e))

\* The acks among the blocks s are for at most g messages, sent up to position c.
Acked(s, g, c) ==
    \A i \in 1 .. Len(s) : s[i].kind # "body" =>
        \E a \in 0 .. g : s[i].ack = Num(a) /\ 2 * a <= c

\* The acks on their way are for messages that were popped, of those sent.
AcksInv(e) ==
    Hears(e) => /\ Acked(chan[e], popped[Peer(e)], 2 * popped[Peer(e)])
                /\ sock[e] = "open" => Acked(chan[e], popped[Peer(e)], SentTo(e))

EndInv(e) ==
    QueueInv(e) /\ RecvInv(e) /\ ChanInv(e) /\ AcksInv(e) /\ Len(chan[e]) <= ChanCap

\* The login of the waiting client carries its numbers as they are, older ones
\* carry older acks.
LoginInv ==
    /\ \A l \in logins :
         /\ \E a \in 0 .. popped["c"] : l.ack = Num(a)
         /\ l.mine => /\ sock["c"] = "login" /\ rsp = None
                      /\ l.ack = q["c"].ack /\ l.seq_start = q["c"].seq
                      /\ l.seq_end = SeqEnd(q["c"])
    /\ \A l, m \in logins : l.mine /\ m.mine => l = m
    /\ link => Connected("s") /\ (Connected("c") \/ Accepted)
    /\ rsp # None => sock["c"] = "login" /\ rsp.status # 1
    /\ Accepted => /\ rsp.ack = Num(popped["s"]) /\ chan["s"] = <<>>
                   /\ Connected("s") => recvd["s"] = <<>> /\ part["s"] = None

(* The inductive invariant: the queues, the receive buffers and the sockets *)
(* hold adjacent pieces of each end's stream, and what is on its way when a *)
(* login is answered agrees with what both ends then resume from.           *)
IInv == Typed /\ (\A e \in Ends : EndInv(e)) /\ LoginInv

-----------------------------------------------------------------------------
(* Numbers. *)

LEMMA SessionNat ==
    /\ HalfSeq \in Nat /\ HalfSeq > 0 /\ QCap \in Nat /\ QCap < HalfSeq
    /\ ChanCap \in Nat /\ ChanCap > 0 /\ MaxMsgs \in Nat /\ MaxMsgs <= HalfSeq
    /\ SeqMod \in Nat /\ SeqMod > 0 /\ SeqMod = 2 * HalfSeq
    /\ SeqStart \in SeqNum /\ SeqStart \in Int
BY SessionAssumption DEF SeqMod, SeqNum

LEMMA NumType == ASSUME NEW n \in Int PROVE Num(n) \in SeqNum
<1>1. SeqStart + n \in Int
  BY SessionNat
<1> QED BY <1>1, SessionNat, ModDef DEF Num, SeqNum

LEMMA NumInc == ASSUME NEW n \in Int PROVE Inc(Num(n)) = Num(n + 1)
<1>1. SeqStart + n \in Int /\ (SeqStart + n) + 1 = SeqStart + (n + 1)
  BY SessionNat
<1>2. ((SeqStart + n) + 1) % SeqMod = Inc((SeqStart + n) % SeqMod)
  BY <1>1, SessionNat, ModInc
<1> QED BY <1>1, <1>2 DEF Num

LEMMA NumAdd == ASSUME NEW n \in Int, NEW k \in 0 .. QCap PROVE Add(Num(n), k) = Num(n + k)
<1>1. SeqStart + n \in Int /\ (SeqStart + n) + k = SeqStart + (n + k)
      /\ k \in 1 - SeqMod .. SeqMod - 1
  BY SessionNat
<1>2. Add((SeqStart + n) % SeqMod, k) = ((SeqStart + n) + k) % SeqMod
  BY <1>1, SessionNat, AddMod
<1> QED BY <1>1, <1>2 DEF Num

(* The int that Ack and CheckAckInQueue compare.                            *)
LEMMA NumDiff ==
    ASSUME NEW m \in Int, NEW n \in Int, n - m <= HalfSeq, m - n < HalfSeq
    PROVE  Signed(Sub(Num(m), Num(n))) = m - n
<1> DEFINE x == SeqStart + n
           d == m - n
<1>1. x \in Int /\ x + d = SeqStart + m /\ d \in 0 - HalfSeq .. HalfSeq - 1
  BY SessionNat
<1>2. Signed(Sub((x + d) % SeqMod, x % SeqMod)) = d
  BY <1>1, SessionNat, SignedMod
<1> QED BY <1>1, <1>2 DEF Num

LEMMA NumSame ==
    ASSUME NEW m \in Int, NEW n \in Int, n - m <= HalfSeq, m - n < HalfSeq, Num(m) = Num(n)
    PROVE  m = n
<1>1. Signed(Sub(Num(m), Num(n))) = m - n
  BY NumDiff
<1>2. Signed(Sub(Num(n), Num(n))) = 0
  <2>1. n - n <= HalfSeq /\ n - n < HalfSeq /\ n - n = 0
    BY SessionNat
  <2> QED BY <2>1, NumDiff
<1> QED BY <1>1, <1>2

-----------------------------------------------------------------------------
(* The queue between calls. *)

(* The fields after an assignment to some of them.                          *)
LEMMA QueueFields ==
    ASSUME NEW qe \in QueueRec
    PROVE  /\ qe.msgs \in Seq(Message) /\ qe.seq \in SeqNum /\ qe.ack \in SeqNum
           /\ qe.sent \in Nat /\ Len(qe.msgs) \in Nat
           /\ qe = [msgs |-> qe.msgs, seq |-> qe.seq, ack |-> qe.ack, sent |-> qe.sent]
BY DEF QueueRec

LEMMA SetFields ==
    ASSUME NEW qe \in QueueRec, NEW m, NEW s, NEW k
    PROVE  /\ [qe EXCEPT !.sent = k]
                = [msgs |-> qe.msgs, seq |-> qe.seq, ack |-> qe.ack, sent |-> k]
           /\ [qe EXCEPT !.msgs = m]
                = [msgs |-> m, seq |-> qe.seq, ack |-> qe.ack, sent |-> qe.sent]
           /\ [qe EXCEPT !.ack = s]
                = [msgs |-> qe.msgs, seq |-> qe.seq, ack |-> s, sent |-> qe.sent]
<1>1. qe = [msgs |-> qe.msgs, seq |-> qe.seq, ack |-> qe.ack, sent |-> qe.sent]
  BY QueueFields
<1>3. [qe EXCEPT !.sent = k]
        = [msgs |-> qe.msgs, seq |-> qe.seq, ack |-> qe.ack, sent |-> k]
  BY <1>1
<1>4. [qe EXCEPT !.msgs = m]
        = [msgs |-> m, seq |-> qe.seq, ack |-> qe.ack, sent |-> qe.sent]
  BY <1>1
<1>5. [qe EXCEPT !.ack = s]
        = [msgs |-> qe.msgs, seq |-> qe.seq, ack |-> s, sent |-> qe.sent]
  BY <1>1
<1> QED BY <1>3, <1>4, <1>5

(* The queue without its first n messages.                                  *)
LEMMA DropSeq ==
    ASSUME NEW S, NEW s \in Seq(S), NEW n \in Nat, NEW j \in Nat, NEW len, len = n + j,
           Len(s) = len, NEW t, t = SubSeq(s, n + 1, Len(s))
    PROVE  /\ t \in Seq(S) /\ Len(t) = j
           /\ \A i \in 1 .. j : t[i] = s[n + i]
<1>1. n + 1 \in Int /\ len \in Int /\ \A i \in n + 1 .. len : s[i] \in S
  BY ElementOfSeq
<1>2. /\ t \in Seq(S)
      /\ Len(t) = IF n + 1 <= len THEN len - (n + 1) + 1 ELSE 0
      /\ \A i \in 1 .. len - (n + 1) + 1 : t[i] = s[(n + 1) + i - 1]
  BY <1>1, SubSeqProperties
<1>3. Len(t) = j
  BY <1>2
<1>4. ASSUME NEW i \in 1 .. j PROVE t[i] = s[n + i]
  <2>1. (n + 1) + i - 1 = n + i /\ i \in 1 .. len - (n + 1) + 1
    OBVIOUS
  <2> QED BY <1>2, <2>1
<1> QED BY <1>2, <1>3, <1>4

\* The queue without its first n messages, k blocks of the others sent.
Drop(qe, n, s, k) ==
    [msgs |-> SubSeq(qe.msgs, n + 1, Len(qe.msgs)), seq |-> s, ack |-> qe.ack, sent |-> k]

LEMMA DropQueue ==
    ASSUME NEW qe, NEW f \in Nat, NEW g \in Nat, NEW w \in Nat, Queue(qe, f, g, w),
           NEW n \in Nat, NEW h \in Nat, h = f + n, h <= w,
           NEW k \in Nat, k + 2 * h <= 2 * w, NEW r, r = Drop(qe, n, Num(h), k)
    PROVE  Queue(r, h, g, w)
<1>1. PICK len \in Nat : len = Len(qe.msgs)
  BY QueueFields DEF Queue
<1>2. f + len = w
  BY <1>1 DEF Queue
<1>3. PICK j \in Nat : len = n + j /\ k <= 2 * j /\ h + j = w /\ j <= len
  <2>1. len - n \in Nat /\ len = n + (len - n) /\ k <= 2 * (len - n) /\ h + (len - n) = w
        /\ len - n <= len
    BY <1>2
  <2> QED BY <2>1
<1>4. /\ qe.ack = Num(g) /\ qe.ack \in SeqNum /\ len <= QCap /\ qe.msgs \in Seq(Message)
      /\ \A i \in 1 .. len : /\ qe.msgs[i].id = f + i - 1
                             /\ \E x \in 0 .. g : qe.msgs[i].ack = Num(x)
  BY <1>1, QueueFields DEF Queue
<1>5. PICK m : m = SubSeq(qe.msgs, n + 1, Len(qe.msgs))
  OBVIOUS
<1>6. m \in Seq(Message) /\ Len(m) = j /\ \A i \in 1 .. j : m[i] = qe.msgs[n + i]
  <2>1. qe.msgs \in Seq(Message) /\ Len(qe.msgs) = len /\ len = n + j
    BY <1>1, <1>3, <1>4
  <2> QED BY ONLY <1>5, <2>1, DropSeq, n \in Nat, j \in Nat
<1>7. r = [msgs |-> m, seq |-> Num(h), ack |-> qe.ack, sent |-> k]
  BY ONLY <1>5, r = Drop(qe, n, Num(h), k) DEF Drop
<1>8. Num(h) \in SeqNum
  BY NumType
<1>9. r \in QueueRec /\ r.msgs = m /\ r.seq = Num(h) /\ r.ack = qe.ack /\ r.sent = k
  BY ONLY <1>4, <1>6, <1>7, <1>8, k \in Nat DEF QueueRec
<1>10. ASSUME NEW i \in 1 .. j
       PROVE  m[i].id = h + i - 1 /\ \E x \in 0 .. g : m[i].ack = Num(x)
  <2>1. n + i \in 1 .. len /\ f + (n + i) - 1 = h + i - 1
    BY <1>3
  <2>2. qe.msgs[n + i].id = f + (n + i) - 1 /\ \E x \in 0 .. g : qe.msgs[n + i].ack = Num(x)
    BY <1>4, <2>1
  <2> QED BY <1>6, <2>1, <2>2
<1>11. j <= QCap
  BY SMTT(30), <1>3, <1>4, SessionNat
<1> QED BY <1>3, <1>4, <1>6, <1>9, <1>10, <1>11 DEF Queue

(* The int the queue compares an ack with.                                  *)
LEMMA AckDiff ==
    ASSUME NEW qe, NEW f \in Nat, NEW g \in Nat, NEW w \in Nat, Queue(qe, f, g, w),
           w <= MaxMsgs, NEW a \in Nat, a <= w
    PROVE  Signed(Sub(Num(a), qe.seq)) = a - f
<1>1. Len(qe.msgs) \in Nat /\ Len(qe.msgs) <= QCap /\ qe.seq = Num(f) /\ f + Len(qe.msgs) = w
  BY QueueFields DEF Queue
<1>2. f - a <= HalfSeq /\ a - f < HalfSeq
  BY <1>1, SessionNat
<1> QED BY <1>1, <1>2, NumDiff

\* The position up to which the blocks of a queue have been sent.
Pos(qe, f) == 2 * f + qe.sent

(* Ack drops the messages before number a.                                  *)
LEMMA AckQueue ==
    ASSUME NEW qe, NEW f \in Nat, NEW g \in Nat, NEW w \in Nat, Queue(qe, f, g, w),
           w <= MaxMsgs, NEW a \in Nat, a <= w, 2 * a <= Pos(qe, f)
    PROVE  \E f2 \in Nat :
             /\ Queue(Ack(qe, Num(a)), f2, g, w)
             /\ (a <= f => f2 = f) /\ (a > f => f2 = a)
             /\ Pos(Ack(qe, Num(a)), f2) = Pos(qe, f)
<1>1. /\ qe \in QueueRec /\ qe.sent \in Nat /\ 2 * f + qe.sent <= 2 * w /\ 2 * a <= 2 * f + qe.sent
  BY QueueFields DEF Queue, Pos
<1>2. Signed(Sub(Num(a), qe.seq)) = a - f
  BY AckDiff
<1>3. CASE a <= f
  <2>1. a - f <= 0
    BY <1>3
  <2>2. Ack(qe, Num(a)) = qe
    BY <1>2, <2>1 DEF Ack
  <2> QED BY <1>3, <2>2
<1>4. CASE a > f
  <2>1. PICK n \in Nat : n = a - f /\ n > 0 /\ a = f + n
    BY <1>4
  <2>2. PICK k \in Nat : k = qe.sent - 2 * n
    BY <1>1, <2>1
  <2>3. ~(a - f <= 0) /\ ~(a <= f) /\ k + 2 * a <= 2 * w /\ 2 * a + k = 2 * f + qe.sent
    BY <1>1, <2>1, <2>2
  <2>4. PICK r : r = Ack(qe, Num(a))
    OBVIOUS
  <2>5. r = Drop(qe, n, Num(a), k)
    BY <1>2, <2>1, <2>2, <2>3, <2>4 DEF Ack, Drop
  <2>6. Queue(r, a, g, w)
    BY <2>1, <2>3, <2>5, DropQueue
  <2>7. r.sent = k
    BY <2>5 DEF Drop
  <2>8. Pos(r, a) = Pos(qe, f)
    BY <2>3, <2>7 DEF Pos
  <2> QED BY <2>3, <2>4, <2>6, <2>8
<1> QED BY <1>3, <1>4

(* After LoginAck nothing counts as sent.                                   *)
LEMMA LoginAckQueue ==
    ASSUME NEW qe, NEW f \in Nat, NEW g \in Nat, NEW w \in Nat, Queue(qe, f, g, w),
           w <= MaxMsgs, NEW a \in Nat, a <= w
    PROVE  \E f2 \in Nat :
             /\ Queue(LoginAck(qe, Num(a)), f2, g, w)
             /\ (a <= f => f2 = f) /\ (a > f => f2 = a)
             /\ LoginAck(qe, Num(a)).sent = 0
<1>1. /\ qe \in QueueRec /\ f <= w /\ qe.seq = Num(f) /\ qe.msgs \in Seq(Message)
  BY QueueFields DEF Queue
<1>2. Signed(Sub(Num(a), qe.seq)) = a - f
  BY AckDiff
<1>3. PICK r : r = LoginAck(qe, Num(a))
  OBVIOUS
<1>4. CASE a <= f
  <2>1. a - f <= 0 /\ f = f + 0 /\ 0 + 2 * f <= 2 * w /\ 0 + 1 = 1
    BY <1>1, <1>4
  <2>2. r = [qe EXCEPT !.sent = 0]
    BY <1>2, <1>3, <2>1 DEF Ack, LoginAck
  <2>3. r = [msgs |-> qe.msgs, seq |-> qe.seq, ack |-> qe.ack, sent |-> 0]
    BY <1>1, <2>2, SetFields
  <2>4. SubSeq(qe.msgs, 0 + 1, Len(qe.msgs)) = qe.msgs
    BY <1>1, <2>1, SubSeqFull
  <2>5. r = Drop(qe, 0, Num(f), 0)
    BY ONLY <1>1, <2>3, <2>4 DEF Drop
  <2>6. Queue(r, f, g, w)
    BY <1>1, <2>1, <2>5, DropQueue
  <2> QED BY <1>3, <1>4, <2>3, <2>6
<1>5. CASE a > f
  <2>1. PICK n \in Nat : n = a - f /\ a = f + n
    BY <1>5
  <2>2. ~(a - f <= 0) /\ ~(a <= f) /\ 0 + 2 * a <= 2 * w
    BY <1>5
  <2>3. PICK m, k : m = SubSeq(qe.msgs, n + 1, Len(qe.msgs)) /\ k = qe.sent - 2 * n
    OBVIOUS
  <2>4. r = [[msgs |-> m, seq |-> Num(a), ack |-> qe.ack, sent |-> k] EXCEPT !.sent = 0]
    BY <1>2, <1>3, <2>1, <2>2, <2>3 DEF Ack, LoginAck
  <2>5. r = Drop(qe, n, Num(a), 0)
    BY <2>3, <2>4 DEF Drop
  <2>6. Queue(r, a, g, w)
    BY <2>1, <2>2, <2>5, DropQueue
  <2>7. r.sent = 0
    BY <2>5 DEF Drop
  <2> QED BY <1>3, <2>2, <2>6, <2>7
<1> QED BY <1>4, <1>5


-----------------------------------------------------------------------------
(* The blocks of a stream. *)

\* Block b of a message stands at position x of a stream, with an ack up to g.
Wire(b, x, g) ==
    /\ b \in WireBlock /\ b.kind # "hb"
    /\ b.kind = "header" => x = 2 * b.id
    /\ b.kind = "body" => x = 2 * b.id + 1
    /\ \E a \in 0 .. g : b.ack = Num(a)

(* Block k of a queue stands k - 1 blocks after its first message.          *)
LEMMA BlockWire ==
    ASSUME NEW qe, NEW f \in Nat, NEW g \in Nat, NEW w \in Nat, Queue(qe, f, g, w),
           NEW k \in Nat, k > 0, NEW x \in Nat, x = 2 * f + k - 1, x < 2 * w
    PROVE  Wire(Block(qe, k), x, g)
<1>1. PICK len \in Nat : len = Len(qe.msgs)
  BY QueueFields DEF Queue
<1>2. f + len = w
  BY <1>1 DEF Queue
<1>3. PICK j \in Nat : /\ j = (k - 1) \div 2
                       /\ (k = 2 * j + 1 /\ k % 2 = 1) \/ (k = 2 * j + 2 /\ k % 2 = 0)
  <2>1. (k - 1) \div 2 \in Nat
    OBVIOUS
  <2>2. \/ k = 2 * ((k - 1) \div 2) + 1 /\ k % 2 = 1
        \/ k = 2 * ((k - 1) \div 2) + 2 /\ k % 2 = 0
    OBVIOUS
  <2> QED BY <2>1, <2>2
<1>4. j + 1 \in 1 .. len
  BY <1>2, <1>3
<1>5. PICK m : m = qe.msgs[j + 1]
  OBVIOUS
<1>6. m.id = f + (j + 1) - 1 /\ \E a \in 0 .. g : m.ack = Num(a)
  BY <1>1, <1>4, <1>5 DEF Queue
<1>7. m \in Message
  <2>1. qe.msgs \in Seq(Message)
    BY QueueFields DEF Queue
  <2> QED BY <1>1, <1>4, <1>5, <2>1, ElementOfSeq
<1>8. m.id \in 0 .. MaxMsgs /\ m.ack \in SeqNum /\ m.id = f + j
  BY <1>6, <1>7 DEF Message
<1>9. CASE k % 2 = 1
  <2>1. Block(qe, k) = [kind |-> "header", id |-> m.id, ack |-> m.ack]
    BY <1>3, <1>5, <1>9 DEF Block
  <2>2. x = 2 * m.id
    BY <1>3, <1>8, <1>9
  <2> QED BY <1>6, <1>8, <2>1, <2>2 DEF Wire, WireBlock
<1>10. CASE k % 2 = 0
  <2>1. Block(qe, k) = [kind |-> "body", id |-> m.id, ack |-> m.ack]
    BY <1>3, <1>5, <1>10 DEF Block
  <2>2. x = 2 * m.id + 1
    BY <1>3, <1>8, <1>10
  <2> QED BY <1>6, <1>8, <2>1, <2>2 DEF Wire, WireBlock
<1> QED BY <1>3, <1>9, <1>10

LEMMA RunEmpty == ASSUME NEW lo \in Nat PROVE Run(<<>>, lo, lo)
<1>1. PICK f \in [Nat -> Nat] : \A i \in Nat : f[i] = lo
  <2>1. [i \in Nat |-> lo] \in [Nat -> Nat]
    OBVIOUS
  <2> QED BY <2>1
<1>2. Len(<<>>) = 0
  BY EmptySeq
<1>3. RunBy(<<>>, lo, lo, f)
  BY <1>1, <1>2 DEF RunBy
<1> QED BY <1>3 DEF Run

LEMMA RunOrder ==
    ASSUME NEW s \in Seq(WireBlock), NEW lo, NEW hi, Run(s, lo, hi)
    PROVE  lo \in Nat /\ hi \in Nat /\ lo <= hi
<1>1. PICK f \in [Nat -> Nat] : RunBy(s, lo, hi, f)
  BY DEF Run
<1>2. PICK l \in Nat : l = Len(s)
  BY LenProperties
<1>3. 1 \in 1 .. l + 1 /\ l + 1 \in 1 .. l + 1 /\ 1 <= l + 1 /\ 1 \in Nat /\ l + 1 \in Nat
  OBVIOUS
<1>4. f[1] = lo /\ f[l + 1] = hi /\ f[1] <= f[l + 1]
  BY <1>1, <1>2, <1>3 DEF RunBy
<1> QED BY <1>3, <1>4

(* The receiver takes the first block.                                      *)
LEMMA RunTail ==
    ASSUME NEW s \in Seq(WireBlock), s # <<>>, NEW lo, NEW hi, Run(s, lo, hi)
    PROVE  \E mid \in Nat :
             /\ Run(Tail(s), mid, hi)
             /\ Head(s).kind = "header" => lo = 2 * Head(s).id /\ mid = lo + 1
             /\ Head(s).kind = "body" => lo = 2 * Head(s).id + 1 /\ mid = lo + 1
             /\ Head(s).kind = "hb" => mid = lo /\ \E n \in Nat : lo = 2 * n
<1>1. PICK f \in [Nat -> Nat] : RunBy(s, lo, hi, f)
  BY DEF Run
<1>2. PICK l \in Nat : l = Len(Tail(s)) /\ Len(s) = l + 1
  <2>1. Tail(s) \in Seq(WireBlock) /\ Len(Tail(s)) = Len(s) - 1
    BY HeadTailProperties
  <2>2. Len(s) \in Nat /\ Len(Tail(s)) \in Nat
    BY <2>1, LenProperties
  <2>3. Len(s) = Len(Tail(s)) + 1
    BY ONLY <2>1, <2>2
  <2> QED BY ONLY <2>2, <2>3
<1>3. \A i \in 1 .. l : Tail(s)[i] = s[i + 1]
  BY <1>2, HeadTailProperties
<1>4. Head(s) = s[1] /\ 1 \in 1 .. l + 1
  OBVIOUS
<1>5. /\ f[1] = lo /\ f[(l + 1) + 1] = hi
      /\ \A i, j \in 1 .. (l + 1) + 1 : i <= j => f[i] <= f[j]
      /\ \A i \in 1 .. l + 1 :
           /\ s[i].kind = "header" => f[i] = 2 * s[i].id /\ f[i + 1] = f[i] + 1
           /\ s[i].kind = "body"   => f[i] = 2 * s[i].id + 1 /\ f[i + 1] = f[i] + 1
           /\ s[i].kind = "hb"     => f[i + 1] = f[i] /\ \E n \in Nat : f[i] = 2 * n
  BY <1>1, <1>2 DEF RunBy
<1>6. PICK h \in [Nat -> Nat] : \A i \in Nat : h[i] = f[i + 1]
  <2>1. [i \in Nat |-> f[i + 1]] \in [Nat -> Nat]
    OBVIOUS
  <2> QED BY <2>1
<1>7. RunBy(Tail(s), f[2], hi, h)
  <2>1. h[1] = f[2] /\ h[l + 1] = hi
    BY <1>5, <1>6
  <2>2. ASSUME NEW i \in 1 .. l + 1, NEW j \in 1 .. l + 1, i <= j
        PROVE  h[i] <= h[j]
    <3>1. i + 1 \in 1 .. (l + 1) + 1 /\ j + 1 \in 1 .. (l + 1) + 1 /\ i + 1 <= j + 1
          /\ i \in Nat /\ j \in Nat
      BY <2>2
    <3> QED BY <1>5, <1>6, <3>1
  <2>3. ASSUME NEW i \in 1 .. l
        PROVE  LET t == Tail(s) IN
               /\ t[i].kind = "header" => h[i] = 2 * t[i].id /\ h[i + 1] = h[i] + 1
               /\ t[i].kind = "body"   => h[i] = 2 * t[i].id + 1 /\ h[i + 1] = h[i] + 1
               /\ t[i].kind = "hb"     => h[i + 1] = h[i] /\ \E n \in Nat : h[i] = 2 * n
    <3>1. i + 1 \in 1 .. l + 1 /\ i \in Nat /\ i + 1 \in Nat
      OBVIOUS
    <3>2. h[i] = f[i + 1] /\ h[i + 1] = f[(i + 1) + 1] /\ Tail(s)[i] = s[i + 1]
      BY <1>3, <1>6, <3>1
    <3> QED BY ZenonT(40), <1>5, <3>1, <3>2
  <2> QED BY <1>2, <2>1, <2>2, <2>3 DEF RunBy
<1>8. f[2] \in Nat /\ 1 + 1 = 2
  <2>1. 1 + 1 = 2 /\ 2 \in Nat
    BY ONLY TRUE
  <2> QED BY ONLY <2>1, f \in [Nat -> Nat], Zenon
<1>9. Run(Tail(s), f[2], hi)
  BY <1>7 DEF Run
<1> QED BY ZenonT(40), <1>4, <1>5, <1>8, <1>9


(* The sender adds blocks of its queue.                                     *)
LEMMA RunConcat ==
    ASSUME NEW s \in Seq(WireBlock), NEW t \in Seq(WireBlock), NEW n \in Nat, Len(t) = n,
           NEW lo \in Nat, NEW hi \in Nat, Run(s, lo, hi), NEW end, end = hi + n, NEW g,
           \A i \in 1 .. n : Wire(t[i], hi + i - 1, g)
    PROVE  Run(s \o t, lo, end)
<1>1. PICK f \in [Nat -> Nat] : RunBy(s, lo, hi, f)
  BY DEF Run
<1>2. PICK l \in Nat : l = Len(s)
  BY LenProperties
<1>3. PICK u : u = s \o t
  OBVIOUS
<1>4. Len(u) = l + n /\ \A i \in 1 .. l + n : u[i] = IF i <= l THEN s[i] ELSE t[i - l]
  BY <1>2, <1>3, ConcatProperties
<1>5. /\ f[1] = lo /\ f[l + 1] = hi
      /\ \A i, j \in 1 .. l + 1 : i <= j => f[i] <= f[j]
      /\ \A i \in 1 .. l :
           /\ s[i].kind = "header" => f[i] = 2 * s[i].id /\ f[i + 1] = f[i] + 1
           /\ s[i].kind = "body"   => f[i] = 2 * s[i].id + 1 /\ f[i + 1] = f[i] + 1
           /\ s[i].kind = "hb"     => f[i + 1] = f[i] /\ \E k \in Nat : f[i] = 2 * k
  BY <1>1, <1>2 DEF RunBy
<1>6. PICK h \in [Nat -> Nat] : /\ \A i \in 1 .. l + 1 : h[i] = f[i]
                                /\ \A i \in 0 .. n : h[l + 1 + i] = hi + i
  <2> DEFINE F == [i \in Nat |-> IF i <= l + 1 THEN f[i] ELSE hi + (i - (l + 1))]
  <2>1. F \in [Nat -> Nat]
    <3>1. ASSUME NEW i \in Nat PROVE (IF i <= l + 1 THEN f[i] ELSE hi + (i - (l + 1))) \in Nat
      BY ONLY SMTT(30), i \in Nat, l \in Nat, hi \in Nat, f \in [Nat -> Nat]
    <3> QED BY <3>1
  <2>2. \A i \in 1 .. l + 1 : F[i] = f[i]
    OBVIOUS
  <2>3. ASSUME NEW i \in 0 .. n PROVE F[l + 1 + i] = hi + i
    <3>1. CASE i = 0
      <4>1. l + 1 + i = l + 1 /\ l + 1 \in Nat /\ hi + i = hi
        BY <3>1
      <4> QED BY <1>5, <4>1
    <3>2. CASE i > 0
      <4>1. l + 1 + i \in Nat /\ ~(l + 1 + i <= l + 1) /\ (l + 1 + i) - (l + 1) = i
        BY <3>2
      <4> QED BY <4>1
    <3> QED BY <3>1, <3>2
  <2> QED BY <2>1, <2>2, <2>3
<1>7. h[1] = lo
  <2>1. 1 \in 1 .. l + 1
    OBVIOUS
  <2> QED BY <1>5, <1>6, <2>1
<1>8. h[(l + n) + 1] = end
  <2>1. (l + n) + 1 = l + 1 + n /\ n \in 0 .. n
    OBVIOUS
  <2> QED BY <1>6, <2>1
<1>9. ASSUME NEW i \in 1 .. l + n + 1
      PROVE  \/ i \in 1 .. l + 1 /\ h[i] = f[i] /\ h[i] <= hi
             \/ i > l /\ h[i] = hi + (i - l - 1)
  <2>1. CASE i <= l + 1
    <3>1. i \in 1 .. l + 1 /\ l + 1 \in 1 .. l + 1
      BY <2>1
    <3>2. f[i] <= f[l + 1]
      BY <1>5, <3>1
    <3> QED BY <1>5, <1>6, <3>1, <3>2
  <2>2. CASE i > l + 1
    <3>1. i - l - 1 \in 0 .. n /\ l + 1 + (i - l - 1) = i
      BY <2>2
    <3>2. h[l + 1 + (i - l - 1)] = hi + (i - l - 1)
      BY <1>6, <3>1
    <3> QED BY <2>2, <3>1, <3>2
  <2> QED BY <2>1, <2>2
<1>10. ASSUME NEW i \in 1 .. l + n + 1, NEW j \in 1 .. l + n + 1, i <= j
       PROVE  h[i] <= h[j]
  <2>1. i \in Nat /\ j \in Nat
    OBVIOUS
  <2>4. h[i] \in Nat /\ h[j] \in Nat
    BY ONLY <2>1, h \in [Nat -> Nat]
  <2>2. CASE i <= l + 1 /\ j <= l + 1
    <3>1. i \in 1 .. l + 1 /\ j \in 1 .. l + 1
      BY <2>2
    <3>2. f[i] <= f[j]
      BY <1>5, <1>10, <3>1
    <3> QED BY <1>6, <3>1, <3>2
  <2>3. CASE j > l + 1
    <3>1. h[j] = hi + (j - l - 1)
      BY <1>9, <2>3
    <3>2. CASE h[i] <= hi
      BY ONLY <2>1, <2>3, <2>4, <3>1, <3>2, hi \in Nat, l \in Nat
    <3>3. CASE h[i] = hi + (i - l - 1)
      BY ONLY <1>10, <2>1, <2>3, <2>4, <3>1, <3>3, hi \in Nat, l \in Nat
    <3> QED BY <1>9, <3>2, <3>3
  <2> QED BY <1>10, <2>2, <2>3
<1>11. ASSUME NEW i \in 1 .. l + n
       PROVE  /\ u[i].kind = "header" => h[i] = 2 * u[i].id /\ h[i + 1] = h[i] + 1
              /\ u[i].kind = "body"   => h[i] = 2 * u[i].id + 1 /\ h[i + 1] = h[i] + 1
              /\ u[i].kind = "hb"     => h[i + 1] = h[i] /\ \E k \in Nat : h[i] = 2 * k
  <2>1. CASE i <= l
    <3>1. i \in 1 .. l /\ i \in 1 .. l + 1 /\ i + 1 \in 1 .. l + 1
      BY <2>1
    <3>2. u[i] = s[i] /\ h[i] = f[i] /\ h[i + 1] = f[i + 1]
      BY <1>4, <1>6, <2>1, <3>1
    <3> QED BY ZenonT(40), <1>5, <3>1, <3>2
  <2>2. CASE i > l
    <3>1. PICK j \in Nat : j = i - l /\ j >= 1 /\ j <= n /\ i = l + j
      BY <2>2
    <3>2. u[i] = t[j]
      BY <1>4, <2>2, <3>1
    <3>3. j - 1 \in 0 .. n /\ j \in 0 .. n /\ l + 1 + (j - 1) = i /\ l + 1 + j = i + 1
          /\ hi + (j - 1) = hi + j - 1
      BY <3>1
    <3>4. h[i] = hi + j - 1 /\ h[i + 1] = hi + j
      BY <1>6, <3>3
    <3>5. Wire(t[j], hi + j - 1, g)
      BY <3>1
    <3>6. /\ t[j].kind # "hb"
          /\ t[j].kind = "header" => hi + j - 1 = 2 * t[j].id
          /\ t[j].kind = "body" => hi + j - 1 = 2 * t[j].id + 1
      BY <3>5 DEF Wire
    <3>7. h[i + 1] = h[i] + 1
      BY <3>4
    <3> QED BY <3>2, <3>4, <3>6, <3>7
  <2> QED BY <2>1, <2>2
<1>12. RunBy(u, lo, end, h)
  BY <1>4, <1>7, <1>8, <1>10, <1>11 DEF RunBy
<1> QED BY <1>3, <1>12 DEF Run

(* A heartbeat leaves the position, which is between two messages.          *)
LEMMA RunHeartbeat ==
    ASSUME NEW s \in Seq(WireBlock), NEW b \in WireBlock, b.kind = "hb",
           NEW lo \in Nat, NEW n \in Nat, NEW hi, hi = 2 * n, Run(s, lo, hi)
    PROVE  Run(Append(s, b), lo, hi)
<1>1. PICK f \in [Nat -> Nat] : RunBy(s, lo, hi, f)
  BY DEF Run
<1>2. PICK l \in Nat : l = Len(s)
  BY LenProperties
<1>3. PICK u : u = Append(s, b)
  OBVIOUS
<1>4. Len(u) = l + 1 /\ (\A i \in 1 .. l : u[i] = s[i]) /\ u[l + 1] = b
  BY <1>2, <1>3, AppendProperties
<1>5. /\ f[1] = lo /\ f[l + 1] = hi
      /\ \A i, j \in 1 .. l + 1 : i <= j => f[i] <= f[j]
      /\ \A i \in 1 .. l :
           /\ s[i].kind = "header" => f[i] = 2 * s[i].id /\ f[i + 1] = f[i] + 1
           /\ s[i].kind = "body"   => f[i] = 2 * s[i].id + 1 /\ f[i + 1] = f[i] + 1
           /\ s[i].kind = "hb"     => f[i + 1] = f[i] /\ \E k \in Nat : f[i] = 2 * k
  BY <1>1, <1>2 DEF RunBy
<1>6. PICK h \in [Nat -> Nat] : (\A i \in 1 .. l + 1 : h[i] = f[i]) /\ h[l + 2] = hi
  <2> DEFINE F == [i \in Nat |-> IF i <= l + 1 THEN f[i] ELSE hi]
  <2>1. F \in [Nat -> Nat]
    <3>1. ASSUME NEW i \in Nat PROVE (IF i <= l + 1 THEN f[i] ELSE hi) \in Nat
      BY ONLY i \in Nat, l \in Nat, hi = 2 * n, n \in Nat, f \in [Nat -> Nat]
    <3> QED BY <3>1
  <2>2. ASSUME NEW i \in 1 .. l + 1 PROVE F[i] = f[i]
    <3>1. i \in Nat /\ i <= l + 1
      OBVIOUS
    <3> QED BY ONLY <3>1
  <2>3. F[l + 2] = hi
    <3>1. l + 2 \in Nat /\ ~(l + 2 <= l + 1)
      OBVIOUS
    <3> QED BY ONLY <3>1
  <2> HIDE DEF F
  <2> QED BY <2>1, <2>2, <2>3
<1>7. h[1] = lo /\ h[l + 1] = hi /\ h[(l + 1) + 1] = hi
  <2>1. 1 \in 1 .. l + 1 /\ l + 1 \in 1 .. l + 1 /\ (l + 1) + 1 = l + 2
    OBVIOUS
  <2> QED BY <1>5, <1>6, <2>1
<1>8. ASSUME NEW i \in 1 .. (l + 1) + 1, NEW j \in 1 .. (l + 1) + 1, i <= j
      PROVE  h[i] <= h[j]
  <2>1. l + 1 \in 1 .. l + 1 /\ i \in Nat /\ j \in Nat
    OBVIOUS
  <2>5. h[i] \in Nat /\ h[j] \in Nat
    BY ONLY <2>1, h \in [Nat -> Nat]
  <2>2. CASE j <= l + 1
    <3>1. i \in 1 .. l + 1 /\ j \in 1 .. l + 1
      BY <1>8, <2>2
    <3> QED BY <1>5, <1>6, <1>8, <3>1
  <2>3. CASE j = l + 2 /\ i <= l + 1
    <3>1. i \in 1 .. l + 1 /\ i <= l + 1
      BY <2>3
    <3>2. f[i] <= f[l + 1]
      BY <1>5, <2>1, <3>1
    <3> QED BY <1>5, <1>6, <2>3, <3>1, <3>2
  <2>4. CASE j = l + 2 /\ i = l + 2
    BY <2>5, <2>4
  <2> QED BY <1>8, <2>2, <2>3, <2>4
<1>9. ASSUME NEW i \in 1 .. l + 1
      PROVE  /\ u[i].kind = "header" => h[i] = 2 * u[i].id /\ h[i + 1] = h[i] + 1
             /\ u[i].kind = "body"   => h[i] = 2 * u[i].id + 1 /\ h[i + 1] = h[i] + 1
             /\ u[i].kind = "hb"     => h[i + 1] = h[i] /\ \E k \in Nat : h[i] = 2 * k
  <2>1. CASE i <= l
    <3>1. i \in 1 .. l /\ i \in 1 .. l + 1 /\ i + 1 \in 1 .. l + 1
      BY <2>1
    <3>2. u[i] = s[i] /\ h[i] = f[i] /\ h[i + 1] = f[i + 1]
      BY <1>4, <1>6, <3>1
    <3> QED BY ZenonT(40), <1>5, <3>1, <3>2
  <2>2. CASE i = l + 1
    BY <1>4, <1>7, <2>2
  <2> QED BY <2>1, <2>2
<1>10. RunBy(u, lo, hi, h)
  BY <1>4, <1>7, <1>8, <1>9 DEF RunBy
<1> QED BY <1>3, <1>10 DEF Run


LEMMA Peers ==
    ASSUME NEW e \in Ends
    PROVE  Peer(e) \in Ends /\ Peer(e) # e /\ Peer(Peer(e)) = e /\ \A x \in Ends : x = e \/ x = Peer(e)
BY DEF Ends, Peer

-----------------------------------------------------------------------------
(* SendPending. *)

\* t is s and the blocks from position x up to y, with acks up to g.
Extends(s, t, x, y, g) ==
    \E u \in Seq(WireBlock) : /\ t = s \o u /\ x + Len(u) = y
                              /\ \A i \in 1 .. Len(u) : Wire(u[i], x + i - 1, g)

LEMMA ExtendsRun ==
    ASSUME NEW s \in Seq(WireBlock), NEW t, NEW lo \in Nat, NEW x \in Nat, NEW y \in Nat, NEW g \in Nat,
           Extends(s, t, x, y, g), Run(s, lo, x)
    PROVE  Run(t, lo, y)
<1>1. PICK u \in Seq(WireBlock) : /\ t = s \o u /\ x + Len(u) = y
                                  /\ \A i \in 1 .. Len(u) : Wire(u[i], x + i - 1, g)
  BY DEF Extends
<1>2. PICK n \in Nat : n = Len(u)
  BY LenProperties
<1>3. y = x + n /\ Len(u) = n /\ \A i \in 1 .. n : Wire(u[i], x + i - 1, g)
  BY <1>1, <1>2
<1>4. Run(s \o u, lo, y)
  BY <1>3, RunConcat
<1> QED BY <1>1, <1>4

LEMMA ExtendsAcks ==
    ASSUME NEW s \in Seq(WireBlock), NEW t, NEW x \in Nat, NEW y \in Nat, NEW g \in Nat,
           Extends(s, t, x, y, g)
    PROVE  \A i \in 1 .. Len(t) :
             (i \in 1 .. Len(s) /\ t[i] = s[i]) \/ \E a \in 0 .. g : t[i].ack = Num(a)
<1> SUFFICES ASSUME NEW i \in 1 .. Len(t)
             PROVE  (i \in 1 .. Len(s) /\ t[i] = s[i]) \/ \E a \in 0 .. g : t[i].ack = Num(a)
  OBVIOUS
<1>1. PICK u \in Seq(WireBlock) : /\ t = s \o u
                                  /\ \A j \in 1 .. Len(u) : Wire(u[j], x + j - 1, g)
  BY DEF Extends
<1>2. PICK n \in Nat, l \in Nat : n = Len(u) /\ l = Len(s)
  BY LenProperties
<1>3. Len(t) = l + n /\ \A j \in 1 .. l + n : t[j] = IF j <= l THEN s[j] ELSE u[j - l]
  BY <1>1, <1>2, ConcatProperties
<1>4. i \in 1 .. l + n
  BY <1>3
<1>5. CASE i <= l
  BY <1>2, <1>3, <1>4, <1>5
<1>6. CASE i > l
  <2>1. i - l \in 1 .. n
    BY <1>4, <1>6
  <2>2. t[i] = u[i - l]
    BY <1>3, <1>4, <1>6
  <2>3. Wire(u[i - l], x + (i - l) - 1, g)
    BY <1>1, <1>2, <2>1
  <2> QED BY <2>2, <2>3 DEF Wire
<1> QED BY <1>4, <1>5, <1>6

LEMMA ExtendsAcked ==
    ASSUME NEW s \in Seq(WireBlock), NEW t, NEW x \in Nat, NEW y \in Nat, NEW g \in Nat,
           Extends(s, t, x, y, g), NEW c \in Nat, Acked(s, g, c), 2 * g <= c
    PROVE  Acked(t, g, c)
<1> SUFFICES ASSUME NEW i \in 1 .. Len(t), t[i].kind # "body"
             PROVE  \E a \in 0 .. g : t[i].ack = Num(a) /\ 2 * a <= c
  BY DEF Acked
<1>1. CASE i \in 1 .. Len(s) /\ t[i] = s[i]
  BY <1>1 DEF Acked
<1>2. CASE \E a \in 0 .. g : t[i].ack = Num(a)
  <2>1. PICK a \in 0 .. g : t[i].ack = Num(a)
    BY <1>2
  <2>2. 2 * a <= c
    OBVIOUS
  <2> QED BY <2>1, <2>2
<1> QED BY <1>1, <1>2, ExtendsAcks

LEMMA ExtendsNone ==
    ASSUME NEW s \in Seq(WireBlock), NEW x \in Nat, NEW g \in Nat
    PROVE  Extends(s, s, x, x, g)
<1>1. /\ <<>> \in Seq(WireBlock) /\ s = s \o <<>> /\ x + Len(<<>>) = x
      /\ \A i \in 1 .. Len(<<>>) : Wire(<<>>[i], x + i - 1, g)
  BY EmptySeq, ConcatEmptySeq
<1> QED BY <1>1 DEF Extends

(* n blocks that the queue has not sent.                                    *)
LEMMA ExtendsBlocks ==
    ASSUME NEW qe, NEW f \in Nat, NEW g \in Nat, NEW w \in Nat, Queue(qe, f, g, w),
           NEW k \in Nat, qe.sent = k, NEW x \in Nat, x = 2 * f + k,
           NEW n \in Nat, NEW y \in Nat, y = x + n, y <= 2 * w,
           NEW s \in Seq(WireBlock), NEW t, t = s \o [i \in 1 .. n |-> Block(qe, qe.sent + i)]
    PROVE  Extends(s, t, x, y, g)
<1>1. PICK u : u = [i \in 1 .. n |-> Block(qe, qe.sent + i)]
  OBVIOUS
<1>2. ASSUME NEW i \in 1 .. n PROVE Wire(u[i], x + i - 1, g)
  <2>1. PICK j \in Nat, z \in Nat : /\ j = k + i /\ j > 0 /\ z = x + i - 1
                                    /\ z = 2 * f + j - 1 /\ z < 2 * w
    <3>1. k + i \in Nat /\ k + i > 0 /\ x + i - 1 \in Nat /\ x + i - 1 = 2 * f + (k + i) - 1
          /\ x + i - 1 < 2 * w
      OBVIOUS
    <3> QED BY <3>1
  <2>2. u[i] = Block(qe, j)
    BY <1>1, <2>1
  <2>3. Wire(Block(qe, j), z, g)
    BY <2>1, BlockWire
  <2> QED BY <2>1, <2>2, <2>3
<1>3. u \in Seq(WireBlock) /\ Len(u) = n
  <2>1. \A i \in 1 .. n : u[i] \in WireBlock
    BY <1>2 DEF Wire
  <2>2. u \in [1 .. n -> WireBlock]
    BY <1>1, <2>1
  <2> QED BY <2>2
<1>4. t = s \o u
  BY <1>1
<1> QED BY <1>2, <1>3, <1>4 DEF Extends

LEMMA ExtendsLen ==
    ASSUME NEW s \in Seq(WireBlock), NEW t, NEW x \in Nat, NEW y \in Nat, NEW g \in Nat,
           Extends(s, t, x, y, g), NEW c \in Nat, Len(s) + y <= c + x
    PROVE  t \in Seq(WireBlock) /\ Len(t) <= c
<1>1. PICK u \in Seq(WireBlock) : t = s \o u /\ x + Len(u) = y
  BY DEF Extends
<1>2. Len(u) \in Nat /\ Len(s) \in Nat
  BY LenProperties
<1>3. t \in Seq(WireBlock) /\ Len(t) = Len(s) + Len(u)
  BY <1>1, ConcatProperties
<1> QED BY <1>1, <1>2, <1>3


(* The queue once n more blocks count as sent.                              *)
LEMMA SentQueue ==
    ASSUME NEW qe, NEW f \in Nat, NEW g \in Nat, NEW w \in Nat, Queue(qe, f, g, w),
           NEW n \in 0 .. Unsent(qe), NEW r, r = [qe EXCEPT !.sent = @ + n]
    PROVE  /\ Queue(r, f, g, w) /\ r \in QueueRec /\ r.sent \in Nat /\ r.sent = qe.sent + n
           /\ 2 * f + r.sent <= 2 * w
<1>1. PICK len \in Nat, k \in Nat : len = Len(qe.msgs) /\ k = qe.sent /\ f + len = w
  BY QueueFields DEF Queue
<1>2. n \in Nat /\ k + n <= 2 * len /\ k + n \in Nat
  BY SMTT(30), <1>1 DEF Unsent
<1>3. r = [qe EXCEPT !.sent = k + n]
  BY <1>1
<1>4. r = [msgs |-> qe.msgs, seq |-> qe.seq, ack |-> qe.ack, sent |-> k + n]
  BY ONLY <1>3, SetFields, Queue(qe, f, g, w) DEF Queue
<1>5. r \in QueueRec /\ r.msgs = qe.msgs /\ r.seq = qe.seq /\ r.ack = qe.ack /\ r.sent = k + n
  <2>1. qe.msgs \in Seq(Message) /\ qe.seq \in SeqNum /\ qe.ack \in SeqNum
    BY QueueFields DEF Queue
  <2> QED BY ONLY <1>2, <1>4, <2>1 DEF QueueRec
<1>6. Queue(r, f, g, w)
  BY <1>1, <1>2, <1>5 DEF Queue
<1>7. 2 * f + (k + n) <= 2 * w
  BY ONLY SMTT(30), <1>1, <1>2, f \in Nat, w \in Nat, len \in Nat, k \in Nat
<1> QED BY <1>1, <1>2, <1>5, <1>6, <1>7

\* What SendPending leaves: blocks up to y have gone out, and when the
\* connection is still open the queue counts all of them.
SendResult(e, p, f, g, w, x, sk, ch, y) ==
    /\ q' \in [Ends -> QueueRec] /\ q'[p] = q[p]
    /\ Queue(q'[e], f, g, w) /\ Pos(q'[e], f) \in Nat /\ x <= Pos(q'[e], f)
    /\ sock' \in [Ends -> SockState] /\ sock'[p] = sk[p]
    /\ sock'[e] = sk[e] \/ (sk[e] = "open" /\ sock'[e] = "closing")
    /\ chan' \in [Ends -> Seq(WireBlock)] /\ chan'[e] = ch[e]
    /\ Len(chan'[p]) <= ChanCap
    /\ y <= 2 * w /\ (sock'[e] = "open" => y = Pos(q'[e], f))
    /\ (link' /\ sk[e] = "open" => Extends(ch[p], chan'[p], x, y, g))
    /\ (~(link' /\ sk[e] = "open") => chan'[p] = ch[p])

LEMMA SendStep ==
    ASSUME NEW e \in Ends, NEW p \in Ends, p = Peer(e), NEW qe, NEW f \in Nat,
           NEW g \in Nat, NEW w \in Nat, Queue(qe, f, g, w),
           NEW x \in Nat, x = Pos(qe, f), q \in [Ends -> QueueRec],
           NEW sk \in [Ends -> SockState], link' \in BOOLEAN,
           NEW ch \in [Ends -> Seq(WireBlock)], Len(ch[p]) <= ChanCap,
           SendPending(e, qe, sk, link', ch)
    PROVE  \E y \in Nat : SendResult(e, p, f, g, w, x, sk, ch, y)
<1>1. p = Peer(e) /\ p # e
  BY Peers
<1>2. PICK k \in Nat : k = qe.sent /\ x = 2 * f + k /\ k <= 2 * Len(qe.msgs) /\ x <= 2 * w
  BY SMTT(30), QueueFields DEF Queue, Pos
<1>3. /\ Len(ch[p]) \in Nat /\ ch[p] \in Seq(WireBlock) /\ Len(ch[p]) <= ChanCap
  BY <1>1, LenProperties
<1>4. qe \in QueueRec
  BY DEF Queue
<1> DEFINE Out(n) == IF link' THEN [ch EXCEPT ![Peer(e)] = @ \o [i \in 1 .. n |-> Block(qe, qe.sent + i)]]
                           ELSE ch
           Room   == IF link' THEN ChanCap - Len(ch[Peer(e)]) ELSE 2 * QCap
(* The blocks that went out, whatever happened then. *)
<1>5. ASSUME NEW n \in 0 .. Unsent(qe), n <= Room, chan' = Out(n), sk[e] = "open"
      PROVE  \E y \in Nat :
               /\ y = x + n /\ y <= 2 * w
               /\ chan' \in [Ends -> Seq(WireBlock)] /\ chan'[e] = ch[e] /\ Len(chan'[p]) <= ChanCap
               /\ (link' => Extends(ch[p], chan'[p], x, y, g))
               /\ (~link' => chan'[p] = ch[p])
  <2>1. PICK y \in Nat : y = x + n /\ y <= 2 * w /\ n \in Nat
    <3>1. PICK len \in Nat : len = Len(qe.msgs) /\ f + len = w
      BY QueueFields DEF Queue
    <3>2. n \in Nat /\ k + n <= 2 * len
      <4>1. Unsent(qe) = 2 * len - k
        BY <1>2, <3>1 DEF Unsent
      <4> QED BY ONLY <4>1, n \in 0 .. Unsent(qe), len \in Nat, k \in Nat
    <3>3. x + n \in Nat /\ x + n <= 2 * w
      <4>1. f + len = w /\ x = 2 * f + k
        BY <1>2, <3>1
      <4> QED BY ONLY <3>2, <4>1, x \in Nat, f \in Nat, w \in Nat, k \in Nat, len \in Nat
    <3> QED BY <3>2, <3>3
  <2>2. CASE ~link'
    <3>1. chan' = ch
      BY <1>5, <2>2
    <3> QED BY <1>3, <2>1, <2>2, <3>1
  <2>3. CASE link'
    <3>1. PICK t : t = ch[p] \o [i \in 1 .. n |-> Block(qe, qe.sent + i)]
      OBVIOUS
    <3>2. chan' = [ch EXCEPT ![p] = t]
      BY <1>1, <1>5, <2>3, <3>1
    <3>3. Extends(ch[p], t, x, y, g)
      <4>1. qe.sent = k /\ x = 2 * f + k
        BY <1>2
      <4> QED BY ONLY <1>3, <2>1, <3>1, <4>1, ExtendsBlocks, Queue(qe, f, g, w), f \in Nat, g \in Nat,
                      w \in Nat, k \in Nat, x \in Nat, y \in Nat
    <3>4. t \in Seq(WireBlock) /\ Len(t) <= ChanCap
      <4>1. n <= ChanCap - Len(ch[p])
        BY <1>1, <1>5, <2>3
      <4>2. Len(ch[p]) + y <= ChanCap + x
        BY ONLY <1>3, <2>1, <4>1, SessionNat, x \in Nat
      <4> QED BY <1>3, <3>3, <4>2, SessionNat, ExtendsLen
    <3>5. chan' \in [Ends -> Seq(WireBlock)] /\ chan'[p] = t /\ chan'[e] = ch[e]
      BY <1>1, <3>2, <3>4
    <3> QED BY <2>1, <2>3, <3>3, <3>4, <3>5
  <2> QED BY <2>2, <2>3
<1>6. CASE /\ sk[e] = "open"
           /\ \E n \in 0 .. Unsent(qe) : /\ n <= Room /\ chan' = Out(n)
                                         /\ q' = [q EXCEPT ![e] = [qe EXCEPT !.sent = @ + n]]
           /\ sock' = sk
  <2>1. PICK n \in 0 .. Unsent(qe) : /\ n <= Room /\ chan' = Out(n)
                                     /\ q' = [q EXCEPT ![e] = [qe EXCEPT !.sent = @ + n]]
    BY <1>6
  <2>2. PICK y \in Nat :
               /\ y = x + n /\ y <= 2 * w
               /\ chan' \in [Ends -> Seq(WireBlock)] /\ chan'[e] = ch[e] /\ Len(chan'[p]) <= ChanCap
               /\ (link' => Extends(ch[p], chan'[p], x, y, g))
               /\ (~link' => chan'[p] = ch[p])
    BY <1>5, <1>6, <2>1
  <2>3. PICK r : r = [qe EXCEPT !.sent = @ + n]
    OBVIOUS
  <2>4. Queue(r, f, g, w) /\ r \in QueueRec /\ r.sent \in Nat /\ r.sent = qe.sent + n
    BY <2>3, SentQueue
  <2>5. q' \in [Ends -> QueueRec] /\ q'[e] = r /\ q'[p] = q[p]
    BY <1>1, <2>1, <2>3, <2>4
  <2>6. n \in Nat
    BY <1>2, <1>4, <2>1, QueueFields DEF Unsent
  <2>7. y = Pos(r, f) /\ x <= Pos(r, f)
    <3>1. r.sent = k + n /\ y = x + n /\ x = 2 * f + k
      BY <1>2, <2>2, <2>4
    <3>2. x + n = 2 * f + (k + n) /\ x <= 2 * f + (k + n)
      BY ONLY <2>6, <3>1, f \in Nat, k \in Nat, x \in Nat
    <3> QED BY <3>1, <3>2 DEF Pos
  <2> QED BY <1>1, <1>6, <2>2, <2>4, <2>5, <2>7 DEF SendResult
<1>7. CASE /\ sk[e] = "open" /\ Unsent(qe) > 0
           /\ \E n \in 0 .. Unsent(qe) - 1 : n <= Room /\ chan' = Out(n)
           /\ q' = [q EXCEPT ![e] = qe]
           /\ sock' = [sk EXCEPT ![e] = "closing"]
  <2>1. PICK n \in 0 .. Unsent(qe) - 1 : n <= Room /\ chan' = Out(n)
    BY <1>7
  <2>2. n \in 0 .. Unsent(qe)
    <3>1. Unsent(qe) \in Int
      BY SMTT(30), <1>2, <1>4, QueueFields DEF Unsent
    <3> QED BY ONLY <3>1, n \in 0 .. Unsent(qe) - 1
  <2>3. PICK y \in Nat :
               /\ y = x + n /\ y <= 2 * w
               /\ chan' \in [Ends -> Seq(WireBlock)] /\ chan'[e] = ch[e] /\ Len(chan'[p]) <= ChanCap
               /\ (link' => Extends(ch[p], chan'[p], x, y, g))
               /\ (~link' => chan'[p] = ch[p])
    BY <1>5, <1>7, <2>1, <2>2
  <2>4. q' \in [Ends -> QueueRec] /\ q'[e] = qe /\ q'[p] = q[p]
    BY <1>1, <1>4, <1>7
  <2>5. sock' \in [Ends -> SockState] /\ sock'[e] = "closing" /\ sock'[p] = sk[p]
    BY <1>1, <1>7 DEF SockState
  <2>6. x <= Pos(q'[e], f) /\ Pos(q'[e], f) \in Nat
    BY <2>4
  <2> QED BY <1>1, <1>7, <2>3, <2>4, <2>5, <2>6 DEF SendResult
<1>8. CASE sk[e] # "open" /\ q' = [q EXCEPT ![e] = qe] /\ chan' = ch /\ sock' = sk
  <2>1. q' \in [Ends -> QueueRec] /\ q'[e] = qe /\ q'[p] = q[p]
    BY <1>1, <1>4, <1>8
  <2>2. x <= Pos(q'[e], f) /\ Pos(q'[e], f) \in Nat
    BY <2>1
  <2>3. x <= 2 * w
    BY <1>2
  <2> QED BY <1>1, <1>3, <1>8, <2>1, <2>2, <2>3 DEF SendResult
<1> QED BY <1>6, <1>7, <1>8 DEF SendPending, Fault


\* What SendPending finds: a queue that has been sent up to x, and p hears what
\* is on its way up to there.
SendReady(e, p, qe, f, g, w, x, sk, ch) ==
    /\ e \in Ends /\ p \in Ends /\ p = Peer(e)
    /\ f \in Nat /\ g \in Nat /\ w \in Nat /\ x \in Nat
    /\ popped'[e] = g /\ pushed'[e] = w /\ Queue(qe, f, g, w) /\ x = Pos(qe, f)
    /\ f <= popped'[p] /\ popped'[p] <= w
    /\ q \in [Ends -> QueueRec] /\ sk \in [Ends -> SockState] /\ link' \in BOOLEAN
    /\ ch \in [Ends -> Seq(WireBlock)] /\ Len(ch[p]) <= ChanCap
    /\ Hears(p)' => /\ Base(p)' \in Nat
                    /\ \E hi \in Nat : /\ Run(ch[p], Base(p)', hi) /\ hi <= 2 * w
                                       /\ (link' /\ sk[e] = "open" => hi = x)
                    /\ Acked(ch[p], g, 2 * g)
                    /\ (sk[p] = "open" => Acked(ch[p], g, SentTo(p)'))
    /\ link' /\ sk[e] = "open" /\ sk[p] = "open" => SentTo(p)' \in Nat /\ 2 * g <= SentTo(p)'

\* What it leaves: the parts of the invariant about the queue of e and about
\* what p is to receive.
SendDone(e, p, f, x, sk, ch) ==
    /\ QueueInv(e)' /\ ChanInv(p)' /\ AcksInv(p)' /\ (Len(chan[p]) <= ChanCap)'
    /\ First(e)' = f /\ SentTo(e)' \in Nat /\ x <= SentTo(e)'
    /\ q' \in [Ends -> QueueRec] /\ q'[p] = q[p]
    /\ sock' \in [Ends -> SockState] /\ sock'[p] = sk[p]
    /\ sock'[e] = sk[e] \/ (sk[e] = "open" /\ sock'[e] = "closing")
    /\ chan' \in [Ends -> Seq(WireBlock)] /\ chan'[e] = ch[e]

LEMMA SendEnds ==
    ASSUME NEW e, NEW p, NEW qe, NEW f, NEW g, NEW w, NEW x, NEW sk, NEW ch,
           SendReady(e, p, qe, f, g, w, x, sk, ch), SendPending(e, qe, sk, link', ch)
    PROVE  SendDone(e, p, f, x, sk, ch)
<1>a. /\ e \in Ends /\ p \in Ends /\ p = Peer(e)
      /\ f \in Nat /\ g \in Nat /\ w \in Nat /\ x \in Nat
      /\ popped'[e] = g /\ pushed'[e] = w /\ Queue(qe, f, g, w) /\ x = Pos(qe, f)
      /\ f <= popped'[p] /\ popped'[p] <= w
      /\ q \in [Ends -> QueueRec] /\ sk \in [Ends -> SockState] /\ link' \in BOOLEAN
      /\ ch \in [Ends -> Seq(WireBlock)] /\ Len(ch[p]) <= ChanCap
      /\ Hears(p)' => /\ Base(p)' \in Nat
                      /\ \E hi \in Nat : /\ Run(ch[p], Base(p)', hi) /\ hi <= 2 * w
                                         /\ (link' /\ sk[e] = "open" => hi = x)
                      /\ Acked(ch[p], g, 2 * g)
                      /\ (sk[p] = "open" => Acked(ch[p], g, SentTo(p)'))
      /\ link' /\ sk[e] = "open" /\ sk[p] = "open" => SentTo(p)' \in Nat /\ 2 * g <= SentTo(p)'
  BY DEF SendReady
<1> USE <1>a
<1>0. PICK y \in Nat : SendResult(e, p, f, g, w, x, sk, ch, y)
  <2>1. /\ e \in Ends /\ p \in Ends /\ p = Peer(e) /\ f \in Nat /\ g \in Nat /\ w \in Nat
        /\ Queue(qe, f, g, w) /\ x \in Nat /\ x = Pos(qe, f) /\ q \in [Ends -> QueueRec]
        /\ sk \in [Ends -> SockState] /\ link' \in BOOLEAN /\ ch \in [Ends -> Seq(WireBlock)]
        /\ Len(ch[p]) <= ChanCap
    OBVIOUS
  <2> HIDE <1>a
  <2> QED BY ONLY SendStep, <2>1, SendPending(e, qe, sk, link', ch)
<1>1. /\ q' \in [Ends -> QueueRec] /\ q'[p] = q[p]
      /\ Queue(q'[e], f, g, w) /\ Pos(q'[e], f) \in Nat /\ x <= Pos(q'[e], f)
      /\ sock' \in [Ends -> SockState] /\ sock'[p] = sk[p]
      /\ sock'[e] = sk[e] \/ (sk[e] = "open" /\ sock'[e] = "closing")
      /\ chan' \in [Ends -> Seq(WireBlock)] /\ chan'[e] = ch[e]
      /\ Len(chan'[p]) <= ChanCap
      /\ y <= 2 * w /\ (sock'[e] = "open" => y = Pos(q'[e], f))
      /\ (link' /\ sk[e] = "open" => Extends(ch[p], chan'[p], x, y, g))
      /\ (~(link' /\ sk[e] = "open") => chan'[p] = ch[p])
  BY <1>0 DEF SendResult
<1>2. Peer(p) = e /\ ch[p] \in Seq(WireBlock)
  BY Peers
<1>3. First(e)' = f /\ SentTo(e)' = Pos(q'[e], f) /\ SentTo(e)' \in Nat
  <2>1. PICK len \in Nat : len = Len(q'[e].msgs) /\ f + len = w /\ q'[e].sent \in Nat
    BY <1>1, QueueFields DEF Queue
  <2>2. w - len = f
    <3>1. f + len = w
      BY <2>1
    <3> QED BY ONLY <3>1, f \in Nat, w \in Nat, len \in Nat
  <2>3. First(e)' = f
    BY <2>1, <2>2 DEF First
  <2> QED BY SMTT(30), <2>1, <2>3 DEF SentTo, Pos
<1>4. QueueInv(e)'
  BY <1>1, <1>3 DEF QueueInv
<1>5. ASSUME Hears(p)', link', sk[e] = "open" PROVE Run(chan'[p], Base(p)', y)
  <2>1. Run(ch[p], Base(p)', x) /\ Base(p)' \in Nat
    BY <1>5
  <2> QED BY <1>1, <1>2, <1>5, <2>1, ExtendsRun
<1>6. ChanInv(p)'
  <2> SUFFICES ASSUME Hears(p)'
               PROVE  \E hi \in Nat : /\ Run(chan'[p], Base(p)', hi)
                                      /\ hi <= 2 * pushed'[e]
                                      /\ (link' /\ sock'[e] = "open") => hi = SentTo(e)'
    BY <1>2 DEF ChanInv
  <2>1. CASE link' /\ sk[e] = "open"
    BY <1>1, <1>3, <1>5, <2>1
  <2>2. CASE ~(link' /\ sk[e] = "open")
    BY <1>1, <2>2
  <2> QED BY <2>1, <2>2
<1>7. AcksInv(p)'
  <2> SUFFICES ASSUME Hears(p)'
               PROVE  /\ Acked(chan'[p], g, 2 * g)
                      /\ sock'[p] = "open" => Acked(chan'[p], g, SentTo(p)')
    BY <1>2 DEF AcksInv
  <2>1. CASE ~(link' /\ sk[e] = "open")
    BY <1>1, <2>1
  <2>2. CASE link' /\ sk[e] = "open"
    <3>1. Extends(ch[p], chan'[p], x, y, g)
      BY <1>1, <2>2
    <3>2. Acked(chan'[p], g, 2 * g)
      <4>1. PICK c \in Nat : c = 2 * g /\ 2 * g <= c
        OBVIOUS
      <4>2. Acked(ch[p], g, c)
        BY <4>1
      <4>3. Acked(chan'[p], g, c)
        BY <1>2, <3>1, <4>1, <4>2, ExtendsAcked
      <4> QED BY <4>1, <4>3
    <3>3. ASSUME sock'[p] = "open" PROVE Acked(chan'[p], g, SentTo(p)')
      <4>1. PICK c \in Nat : c = SentTo(p)' /\ 2 * g <= c
        BY <1>1, <2>2, <3>3
      <4>2. Acked(ch[p], g, c)
        BY <1>1, <3>3, <4>1
      <4>3. Acked(chan'[p], g, c)
        BY <1>2, <3>1, <4>1, <4>2, ExtendsAcked
      <4> QED BY <4>1, <4>3
    <3> QED BY <3>2, <3>3
  <2> QED BY <2>1, <2>2
<1> QED BY <1>1, <1>3, <1>4, <1>6, <1>7 DEF SendDone


-----------------------------------------------------------------------------
(* The parts of the invariant, step by step. *)

LEMMA EndFacts ==
    ASSUME Typed, NEW e \in Ends, QueueInv(e)
    PROVE  /\ pushed[e] \in Nat /\ popped[e] \in Nat /\ pushed[e] <= MaxMsgs
           /\ First(e) \in Nat /\ SentTo(e) \in Nat /\ SentTo(e) <= 2 * pushed[e]
           /\ SentTo(e) = Pos(q[e], First(e)) /\ 2 * First(e) <= SentTo(e)
           /\ Len(recvd[e]) \in Nat /\ Pending(e) \in {0, 1}
           /\ Base(e) \in Nat /\ 2 * popped[e] <= Base(e)
<1>1. pushed[e] \in Nat /\ popped[e] \in Nat
  BY DEF Typed
<1>2. pushed[e] <= MaxMsgs
  <2>1. /\ pushed["c"] \in Nat /\ pushed["s"] \in Nat /\ pushed["c"] + pushed["s"] <= MaxMsgs
    BY DEF Typed, Ends
  <2> QED BY <2>1, SessionNat DEF Ends
<1>3. PICK f \in Nat, len \in Nat, k \in Nat :
        /\ f = First(e) /\ len = Len(q[e].msgs) /\ k = q[e].sent /\ k <= 2 * len /\ f + len = pushed[e]
  BY QueueFields DEF QueueInv, Queue
<1>4. SentTo(e) = 2 * f + k /\ Pos(q[e], First(e)) = 2 * f + k
  BY <1>3 DEF SentTo, Pos
<1>5. 2 * f + k \in Nat /\ 2 * f + k <= 2 * pushed[e] /\ 2 * f <= 2 * f + k
  <2>1. PICK w \in Nat : w = pushed[e]
    BY <1>1
  <2>2. f + len = w /\ k <= 2 * len
    BY <1>3, <2>1
  <2>3. 2 * f + k \in Nat /\ 2 * f + k <= 2 * w /\ 2 * f <= 2 * f + k
    BY ONLY <2>2, f \in Nat, k \in Nat, len \in Nat, w \in Nat
  <2> QED BY ONLY <2>1, <2>3
<1>6. Len(recvd[e]) \in Nat
  <2>1. recvd[e] \in Seq(WireBlock)
    BY DEF Typed
  <2> QED BY <2>1, LenProperties
<1>7. Pending(e) \in {0, 1}
  BY DEF Pending
<1>8. Base(e) \in Nat /\ 2 * popped[e] <= Base(e)
  BY SMTT(30), <1>1, <1>6, <1>7 DEF Base
<1> QED BY <1>1, <1>2, <1>3, <1>4, <1>5, <1>6, <1>7, <1>8

LEMMA AckedMono ==
    ASSUME NEW s, NEW g \in Nat, NEW c \in Nat, Acked(s, g, c),
           NEW h \in Nat, g <= h, NEW d \in Nat, c <= d
    PROVE  Acked(s, h, d)
<1> SUFFICES ASSUME NEW i \in 1 .. Len(s), s[i].kind # "body"
             PROVE  \E a \in 0 .. h : s[i].ack = Num(a) /\ 2 * a <= d
  BY DEF Acked
<1>1. PICK a \in 0 .. g : s[i].ack = Num(a) /\ 2 * a <= c
  BY DEF Acked
<1>2. a \in 0 .. h /\ 2 * a <= d
  BY <1>1
<1> QED BY <1>1, <1>2

LEMMA AckedEmpty == ASSUME NEW g, NEW c PROVE Acked(<<>>, g, c)
BY EmptySeq DEF Acked

LEMMA AckedTail ==
    ASSUME NEW s \in Seq(WireBlock), s # <<>>, NEW g, NEW c, Acked(s, g, c)
    PROVE  Acked(Tail(s), g, c)
<1>1. PICK t : t = Tail(s)
  OBVIOUS
<1>2. PICK l \in Nat : l = Len(t) /\ Len(s) = l + 1 /\ \A i \in 1 .. l : t[i] = s[i + 1]
  <2>1. /\ t \in Seq(WireBlock) /\ Len(t) = Len(s) - 1
        /\ \A i \in 1 .. Len(t) : t[i] = s[i + 1]
    BY <1>1, HeadTailProperties
  <2>2. Len(s) \in Nat /\ Len(t) \in Nat
    BY <2>1, LenProperties
  <2>3. Len(s) = Len(t) + 1
    BY ONLY <2>1, <2>2
  <2> QED BY <2>1, <2>2, <2>3
<1>3. ASSUME NEW i \in 1 .. l, t[i].kind # "body"
      PROVE  \E a \in 0 .. g : t[i].ack = Num(a) /\ 2 * a <= c
  <2>1. i + 1 \in 1 .. l + 1
    OBVIOUS
  <2> QED BY <1>2, <1>3, <2>1 DEF Acked
<1> QED BY <1>1, <1>2, <1>3 DEF Acked

LEMMA AckedAppend ==
    ASSUME NEW s \in Seq(WireBlock), NEW b \in WireBlock, NEW g \in Nat, NEW c \in Nat,
           Acked(s, g, c), NEW a \in 0 .. g, b.ack = Num(a), 2 * a <= c
    PROVE  Acked(Append(s, b), g, c)
<1>1. PICK t : t = Append(s, b)
  OBVIOUS
<1>2. PICK l \in Nat : l = Len(s)
  BY LenProperties
<1>3. Len(t) = l + 1 /\ (\A i \in 1 .. l : t[i] = s[i]) /\ t[l + 1] = b
  BY <1>1, <1>2, AppendProperties
<1>4. ASSUME NEW i \in 1 .. l + 1, t[i].kind # "body"
      PROVE  \E x \in 0 .. g : t[i].ack = Num(x) /\ 2 * x <= c
  <2>1. CASE i = l + 1
    BY <1>3, <2>1
  <2>2. CASE i <= l
    <3>1. i \in 1 .. l
      BY <2>2
    <3> QED BY <1>2, <1>3, <1>4, <3>1 DEF Acked
  <2> QED BY <2>1, <2>2
<1> QED BY <1>1, <1>3, <1>4 DEF Acked

LEMMA QueueKeep ==
    ASSUME NEW e \in Ends, NEW p, p = Peer(e), QueueInv(e), q'[e] = q[e], pushed'[e] = pushed[e],
           popped'[e] = popped[e], popped'[p] = popped[p]
    PROVE  QueueInv(e)' /\ First(e)' = First(e) /\ SentTo(e)' = SentTo(e)
BY DEF QueueInv, First, SentTo

LEMMA RecvKeep ==
    ASSUME NEW e \in Ends, NEW p, p = Peer(e), Typed, RecvInv(e), Connected(e)' => Connected(e),
           Connected(e)' => recvd'[e] = recvd[e] /\ part'[e] = part[e],
           popped'[e] = popped[e], pushed[p] \in Nat, pushed'[p] \in Nat, pushed[p] <= pushed'[p]
    PROVE  RecvInv(e)'
<1> SUFFICES ASSUME Connected(e)' PROVE RecvInv(e)'
  BY DEF RecvInv
<1>1. Connected(e) /\ recvd'[e] = recvd[e] /\ part'[e] = part[e] /\ Pending(e)' = Pending(e)
  BY DEF Pending
<1>2. PICK b \in Nat : b = 2 * (popped[e] + Len(recvd[e])) + Pending(e)
  <2>1. recvd[e] \in Seq(WireBlock) /\ popped[e] \in Nat /\ Pending(e) \in Nat
    BY DEF Typed, Pending
  <2>2. Len(recvd[e]) \in Nat
    BY <2>1, LenProperties
  <2> QED BY <2>1, <2>2
<1>3. b <= 2 * pushed[p]
  BY <1>1, <1>2 DEF RecvInv
<1>4. b <= 2 * pushed'[p]
  BY <1>3
<1> QED BY <1>1, <1>2, <1>4 DEF RecvInv

LEMMA ChanKeep ==
    ASSUME NEW e \in Ends, NEW p, p = Peer(e), ChanInv(e),
           Hears(e)' => Hears(e) /\ Base(e)' = Base(e), chan'[e] = chan[e],
           pushed[p] \in Nat, pushed'[p] \in Nat, pushed[p] <= pushed'[p],
           link' /\ sock'[p] = "open" => link /\ sock[p] = "open" /\ SentTo(p)' = SentTo(p)
    PROVE  ChanInv(e)'
<1> SUFFICES ASSUME Hears(e)' PROVE ChanInv(e)'
  BY DEF ChanInv
<1>1. PICK hi \in Nat : /\ Run(chan[e], Base(e), hi)
                        /\ hi <= 2 * pushed[p]
                        /\ link /\ sock[p] = "open" => hi = SentTo(p)
  BY DEF ChanInv
<1>2. hi <= 2 * pushed'[p]
  BY <1>1
<1> QED BY <1>1, <1>2 DEF ChanInv

LEMMA AcksKeep ==
    ASSUME NEW e \in Ends, NEW p, p = Peer(e), AcksInv(e), Hears(e)' => Hears(e), chan'[e] = chan[e],
           popped[p] \in Nat, popped'[p] \in Nat, popped[p] <= popped'[p],
           sock'[e] = "open" => /\ sock[e] = "open" /\ SentTo(e) \in Nat /\ SentTo(e)' \in Nat
                                /\ SentTo(e) <= SentTo(e)'
    PROVE  AcksInv(e)'
<1> SUFFICES ASSUME Hears(e)'
             PROVE  /\ Acked(chan[e], popped'[p], 2 * popped'[p])
                    /\ sock'[e] = "open" => Acked(chan[e], popped'[p], SentTo(e)')
  BY DEF AcksInv
<1>1. Acked(chan[e], popped'[p], 2 * popped'[p])
  <2>1. PICK c \in Nat, d \in Nat : c = 2 * popped[p] /\ d = 2 * popped'[p] /\ c <= d
    OBVIOUS
  <2>2. Acked(chan[e], popped[p], c)
    BY <2>1 DEF AcksInv
  <2>3. Acked(chan[e], popped'[p], d)
    BY <2>1, <2>2, AckedMono
  <2> QED BY <2>1, <2>3
<1>2. ASSUME sock'[e] = "open" PROVE Acked(chan[e], popped'[p], SentTo(e)')
  <2>1. Acked(chan[e], popped[p], SentTo(e))
    BY <1>2 DEF AcksInv
  <2> QED BY <1>2, <2>1, AckedMono
<1> QED BY <1>1, <1>2

(* A step that only closes sockets, or takes a link down.                   *)
LEMMA EndsWeaken ==
    ASSUME Typed, \A x \in Ends : EndInv(x), UNCHANGED <<q, pushed, popped, chan>>, link' => link,
           \A x \in Ends : /\ Connected(x)' => /\ Connected(x)
                                               /\ recvd'[x] = recvd[x] /\ part'[x] = part[x]
                           /\ sock'[x] = "open" => sock[x] = "open"
                           /\ Hears(x)' => Hears(x) /\ sock'[x] = sock[x]
    PROVE  \A x \in Ends : EndInv(x)'
<1> SUFFICES ASSUME NEW x \in Ends PROVE EndInv(x)'
  OBVIOUS
<1>1. PICK p \in Ends : p = Peer(x)
  BY Peers
<1>2. QueueInv(x) /\ RecvInv(x) /\ ChanInv(x) /\ AcksInv(x) /\ Len(chan[x]) <= ChanCap /\ QueueInv(p)
  BY DEF EndInv
<1>3. /\ pushed[p] \in Nat /\ pushed[p] <= pushed[p] /\ popped[p] \in Nat /\ popped[p] <= popped[p]
      /\ SentTo(x) \in Nat /\ SentTo(x) <= SentTo(x)
  BY SMTT(30), <1>2, EndFacts
<1>4. QueueInv(x)' /\ SentTo(x)' = SentTo(x)
  BY <1>1, <1>2, QueueKeep
<1>5. RecvInv(x)'
  BY <1>1, <1>2, <1>3, RecvKeep
<1>6. SentTo(p)' = SentTo(p)
  BY DEF SentTo, First
<1>7. Hears(x)' => Base(x)' = Base(x)
  BY DEF Base, Pending, Connected
<1>8. ChanInv(x)'
  BY <1>1, <1>2, <1>3, <1>6, <1>7, ChanKeep
<1>9. AcksInv(x)'
  BY <1>1, <1>2, <1>3, <1>4, AcksKeep
<1> QED BY <1>2, <1>4, <1>5, <1>8, <1>9 DEF EndInv

(* A step that changes no queue, no history and nothing that is on its way. *)
LEMMA WeakenStep ==
    ASSUME IInv, UNCHANGED <<q, last_server, pushed, popped, chan>>,
           sock' \in [Ends -> SockState], sock'["s"] # "login", opened' \in [Ends -> BOOLEAN],
           recvd' \in [Ends -> Seq(WireBlock)], part' \in [Ends -> WireBlock \cup {None}],
           link' \in BOOLEAN, logins' \subseteq Login0, link' => link,
           \A x \in Ends : /\ Connected(x)' => /\ Connected(x)
                                               /\ recvd'[x] = recvd[x] /\ part'[x] = part[x]
                           /\ sock'[x] = "open" => sock[x] = "open"
                           /\ Hears(x)' => Hears(x) /\ sock'[x] = sock[x],
           LoginInv'
    PROVE  IInv'
<1>1. Typed'
  BY DEF IInv, Typed
<1>2. \A x \in Ends : EndInv(x)'
  BY EndsWeaken DEF IInv
<1> QED BY <1>1, <1>2 DEF IInv

LEMMA CloseStep ==
    ASSUME IInv, NEW e \in Ends, sock[e] \in {"open", "closing"}, NEW st \in {"closing", "closed"},
           sock' = [sock EXCEPT ![e] = st], st = "closed" => sock[e] = "closing",
           UNCHANGED <<q, last_server, opened, recvd, part, chan, logins, rsp, pushed, popped>>,
           link' \in BOOLEAN, link' => link, st = "closed" => ~link'
    PROVE  IInv'
<1>1. Typed /\ LoginInv
  BY DEF IInv
<1>2. sock' \in [Ends -> SockState] /\ sock'["s"] # "login"
  BY <1>1 DEF Typed, SockState, Ends
<1>3. \A x \in Ends : (x = e /\ sock'[x] = st) \/ (x # e /\ sock'[x] = sock[x])
  BY <1>1 DEF Typed
<1>4. \A x \in Ends : Connected(x)' => Connected(x)
  BY <1>3 DEF Connected
<1>5. \A x \in Ends : sock'[x] = "open" => sock[x] = "open"
  BY <1>3
<1>6. sock["c"] = "login" <=> sock'["c"] = "login"
  BY <1>3 DEF Ends
<1>7. Accepted' <=> Accepted
  BY <1>6 DEF Accepted
<1>8. \A x \in Ends : Hears(x)' => Hears(x) /\ sock'[x] = sock[x]
  BY <1>3, <1>5, <1>6, <1>7 DEF Hears, Accepted
<1>9. link' => Connected("s")' /\ (Connected("c")' \/ Accepted')
  BY <1>1, <1>3, <1>7 DEF LoginInv, Connected, Ends
<1>10. Connected("s")' => Connected("s")
  BY <1>4 DEF Ends
<1>11. LoginInv'
  BY <1>1, <1>6, <1>7, <1>9, <1>10 DEF LoginInv
<1> QED BY <1>1, <1>2, <1>4, <1>5, <1>8, <1>11, WeakenStep DEF Typed

LEMMA RemoteCloseStep == ASSUME IInv, NEW e \in Ends, RemoteClose(e) PROVE IInv'
<1>1. link \in BOOLEAN /\ link' \in BOOLEAN /\ (link' => link)
  BY DEF RemoteClose, IInv, Typed, net
<1> QED BY <1>1, CloseStep DEF RemoteClose, files, net

LEMMA CloseFdStep == ASSUME IInv, NEW e \in Ends, Close(e) PROVE IInv'
<1>1. link \in BOOLEAN /\ link' \in BOOLEAN /\ (link' => link)
  BY DEF Close, IInv, Typed, net
<1> QED BY <1>1, CloseStep DEF Close, files, net

LEMMA TryCloseFdStep == ASSUME IInv, NEW e \in Ends, TryCloseFd(e) PROVE IInv'
<1>1. link' \in BOOLEAN /\ ~link'
  BY DEF TryCloseFd
<1> QED BY <1>1, CloseStep DEF TryCloseFd, files

(* The number after the last message.                                       *)
LEMMA SeqEndNum ==
    ASSUME NEW qe, NEW f \in Nat, NEW g \in Nat, NEW w \in Nat, Queue(qe, f, g, w)
    PROVE  SeqEnd(qe) = Num(w)
<1>1. PICK len \in Nat : len = Len(qe.msgs) /\ f + len = w /\ len <= QCap /\ qe.seq = Num(f)
  BY QueueFields DEF Queue
<1>2. len \in 0 .. QCap /\ f \in Int
  BY <1>1, SessionNat
<1>3. Add(Num(f), len) = Num(f + len)
  BY <1>2, NumAdd
<1> QED BY <1>1, <1>3 DEF SeqEnd

(* A login carries the numbers of the client's queue.                       *)
LEMMA ConnectStep == ASSUME IInv, Connect PROVE IInv'
<1>1. Typed /\ LoginInv /\ EndInv("c")
  BY DEF IInv, Ends
<1>2. /\ UNCHANGED <<q, last_server, pushed, popped, chan, recvd, part, link, rsp>>
      /\ sock["c"] = "closed" /\ sock' = [sock EXCEPT !["c"] = "login"]
  BY DEF Connect, files
<1>3. sock'["c"] = "login" /\ sock'["s"] = sock["s"] /\ sock' \in [Ends -> SockState]
  BY <1>1, <1>2 DEF Typed, Ends, SockState
<1>4. PICK l : /\ l = [mine |-> TRUE, last_server_name |-> last_server, ack |-> q["c"].ack,
                       seq_start |-> q["c"].seq, seq_end |-> SeqEnd(q["c"])]
               /\ logins' = logins \cup {l}
  BY DEF Connect
<1>5. q["c"] \in QueueRec /\ q["c"].ack = Num(popped["c"]) /\ popped["c"] \in Nat
  BY <1>1 DEF EndInv, QueueInv, Queue, Typed, Ends
<1>6. SeqEnd(q["c"]) \in SeqNum
  <2>1. pushed["c"] \in Nat /\ Queue(q["c"], First("c"), popped["c"], pushed["c"]) /\ First("c") \in Nat
    BY <1>1 DEF EndInv, QueueInv, Typed, Ends
  <2> QED BY <1>5, <2>1, SeqEndNum, NumType
<1>7. l \in Login0
  BY <1>1, <1>4, <1>5, <1>6, QueueFields DEF Login0, Typed
<1>8. logins' \subseteq Login0
  BY <1>1, <1>4, <1>7 DEF Typed
<1>9. ~link /\ \A m \in logins : ~m.mine
  BY <1>1, <1>2 DEF LoginInv, Connected, Accepted
<1>10. opened' \in [Ends -> BOOLEAN]
  BY <1>1 DEF Connect, Typed, Ends
<1>11. \A x \in Ends : /\ Connected(x)' => Connected(x)
                       /\ sock'[x] = "open" => sock[x] = "open"
  BY <1>3 DEF Connected, Ends
<1>12. LoginInv'
  <2>1. \A m \in logins' : m = l \/ (m \in logins /\ ~m.mine)
    BY <1>4, <1>9
  <2>2. l.mine /\ l.ack = q["c"].ack /\ l.seq_start = q["c"].seq /\ l.seq_end = SeqEnd(q["c"])
    BY <1>4
  <2>3. rsp = None
    BY <1>1, <1>2 DEF LoginInv
  <2>4. popped["c"] \in 0 .. popped["c"] /\ l.ack = Num(popped["c"])
    BY <1>5, <2>2
  <2>5. ASSUME NEW m \in logins'
        PROVE  /\ \E a \in 0 .. popped'["c"] : m.ack = Num(a)
               /\ m.mine => /\ sock'["c"] = "login" /\ rsp' = None
                            /\ m.ack = q'["c"].ack /\ m.seq_start = q'["c"].seq
                            /\ m.seq_end = SeqEnd(q'["c"])
    <3>1. CASE m = l
      BY <1>2, <1>3, <2>2, <2>3, <2>4, <3>1
    <3>2. CASE m \in logins /\ ~m.mine
      BY <1>1, <1>2, <3>2 DEF LoginInv
    <3> QED BY <2>1, <3>1, <3>2
  <2>6. \A m, n \in logins' : m.mine /\ n.mine => m = n
    BY <2>1
  <2>7. ~link' /\ rsp' = None /\ ~Accepted'
    BY <1>2, <1>9, <2>3 DEF Accepted
  <2> QED BY <2>5, <2>6, <2>7 DEF LoginInv
<1>13. \A x \in Ends : Hears(x)' => Hears(x) /\ sock'[x] = sock[x]
  BY <1>1, <1>2, <1>3, <1>11 DEF Hears, Accepted, LoginInv, Ends
<1> QED BY <1>1, <1>2, <1>3, <1>8, <1>9, <1>10, <1>11, <1>12, <1>13, WeakenStep DEF Typed

(* Logins that no one waits for any more.                                   *)
LEMMA StaleLogins ==
    ASSUME IInv, NEW ls, ls = {[l EXCEPT !.mine = FALSE] : l \in logins}
    PROVE  /\ ls \subseteq Login0
           /\ \A l \in ls : ~l.mine /\ \E a \in 0 .. popped["c"] : l.ack = Num(a)
<1> SUFFICES ASSUME NEW m \in ls
             PROVE  m \in Login0 /\ ~m.mine /\ \E a \in 0 .. popped["c"] : m.ack = Num(a)
  OBVIOUS
<1>1. PICK l \in logins : m = [l EXCEPT !.mine = FALSE]
  OBVIOUS
<1>2. l \in Login0 /\ \E a \in 0 .. popped["c"] : l.ack = Num(a)
  BY DEF IInv, Typed, LoginInv
<1>3. /\ l = [mine |-> l.mine, last_server_name |-> l.last_server_name, ack |-> l.ack,
              seq_start |-> l.seq_start, seq_end |-> l.seq_end]
      /\ l.last_server_name \in {ServerName} /\ l.ack \in SeqNum /\ l.seq_start \in SeqNum
      /\ l.seq_end \in SeqNum
  BY <1>2 DEF Login0
<1>4. m = [mine |-> FALSE, last_server_name |-> l.last_server_name, ack |-> l.ack,
           seq_start |-> l.seq_start, seq_end |-> l.seq_end]
  BY <1>1, <1>3
<1>5. m \in Login0
  BY <1>3, <1>4 DEF Login0
<1> QED BY <1>2, <1>4, <1>5

LEMMA LoginFailedStep == ASSUME IInv, LoginFailed PROVE IInv'
<1>1. Typed /\ LoginInv
  BY DEF IInv
<1>2. /\ UNCHANGED <<q, last_server, opened, recvd, part, chan, pushed, popped>>
      /\ sock["c"] = "login" /\ sock' = [sock EXCEPT !["c"] = "closed"]
      /\ logins' = {[l EXCEPT !.mine = FALSE] : l \in logins}
      /\ rsp' = None /\ ~link' /\ link' \in BOOLEAN
  BY DEF LoginFailed, files
<1>3. sock'["c"] = "closed" /\ sock'["s"] = sock["s"] /\ sock' \in [Ends -> SockState]
  BY <1>1, <1>2 DEF Typed, Ends, SockState
<1>4. /\ logins' \subseteq Login0
      /\ \A l \in logins' : ~l.mine /\ \E a \in 0 .. popped["c"] : l.ack = Num(a)
  BY <1>2, StaleLogins
<1>5. \A x \in Ends : /\ Connected(x)' => Connected(x)
                      /\ sock'[x] = "open" => sock[x] = "open"
                      /\ Hears(x)' => Hears(x) /\ sock'[x] = sock[x]
  BY <1>2, <1>3 DEF Connected, Hears, Accepted, Ends
<1>6. LoginInv'
  BY <1>2, <1>4 DEF LoginInv, Accepted
<1> QED BY <1>1, <1>2, <1>3, <1>4, <1>5, <1>6, WeakenStep DEF Typed

LEMMA CrashStep == ASSUME IInv, NEW e \in Ends, Crash(e) PROVE IInv'
<1>1. Typed /\ LoginInv
  BY DEF IInv
<1>2. /\ UNCHANGED <<q, last_server, chan, pushed, popped>>
      /\ sock' = [sock EXCEPT ![e] = "closed"] /\ opened' = [opened EXCEPT ![e] = FALSE]
      /\ recvd' = [recvd EXCEPT ![e] = <<>>] /\ part' = [part EXCEPT ![e] = None]
      /\ ~link' /\ link' \in BOOLEAN
  BY DEF Crash, files
<1>3. /\ sock' \in [Ends -> SockState] /\ sock'["s"] # "login"
      /\ opened' \in [Ends -> BOOLEAN]
      /\ recvd' \in [Ends -> Seq(WireBlock)] /\ part' \in [Ends -> WireBlock \cup {None}]
  <2>1. <<>> \in Seq(WireBlock)
    BY EmptySeq
  <2>2. recvd' \in [Ends -> Seq(WireBlock)]
    BY <1>1, <1>2, <2>1 DEF Typed
  <2>3. sock' \in [Ends -> SockState] /\ sock'["s"] # "login"
    BY <1>1, <1>2 DEF Typed, Ends, SockState
  <2>4. opened' \in [Ends -> BOOLEAN] /\ part' \in [Ends -> WireBlock \cup {None}]
    BY <1>1, <1>2 DEF Typed
  <2> QED BY <2>2, <2>3, <2>4
<1>4. \A x \in Ends : \/ x = e /\ sock'[x] = "closed"
                      \/ x # e /\ sock'[x] = sock[x] /\ recvd'[x] = recvd[x] /\ part'[x] = part[x]
  BY <1>1, <1>2 DEF Typed
<1>5. CASE e = "c"
  <2>1. rsp' = None /\ logins' = {[l EXCEPT !.mine = FALSE] : l \in logins}
    BY <1>5 DEF Crash
  <2>2. /\ logins' \subseteq Login0
        /\ \A l \in logins' : ~l.mine /\ \E a \in 0 .. popped["c"] : l.ack = Num(a)
    BY <2>1, StaleLogins
  <2>3. LoginInv'
    BY <1>2, <2>1, <2>2 DEF LoginInv, Accepted
  <2>4. \A x \in Ends : /\ Connected(x)' => /\ Connected(x)
                                            /\ recvd'[x] = recvd[x] /\ part'[x] = part[x]
                        /\ sock'[x] = "open" => sock[x] = "open"
                        /\ Hears(x)' => Hears(x) /\ sock'[x] = sock[x]
    BY <1>4, <2>1 DEF Connected, Hears, Accepted
  <2> QED BY <1>2, <1>3, <2>2, <2>3, <2>4, WeakenStep
<1>6. CASE e = "s"
  <2>1. rsp' = rsp /\ logins' = {}
    BY <1>6 DEF Crash
  <2>2. sock'["s"] = "closed" /\ sock'["c"] = sock["c"] /\ (Accepted' <=> Accepted)
    BY <1>4, <1>6, <2>1 DEF Ends, Accepted
  <2>3. LoginInv'
    BY <1>1, <1>2, <2>1, <2>2 DEF LoginInv, Connected
  <2>4. \A x \in Ends : /\ Connected(x)' => /\ Connected(x)
                                            /\ recvd'[x] = recvd[x] /\ part'[x] = part[x]
                        /\ sock'[x] = "open" => sock[x] = "open"
                        /\ Hears(x)' => Hears(x) /\ sock'[x] = sock[x]
    BY <1>4, <1>6, <2>2 DEF Connected, Hears
  <2>5. logins' \subseteq Login0
    BY <2>1
  <2> QED BY <1>2, <1>3, <2>3, <2>4, <2>5, WeakenStep
<1> QED BY <1>5, <1>6 DEF Ends

(* Connect returns with the status the server answered.                     *)
LEMMA LoginRejectedStep ==
    ASSUME IInv, LoginRsp, rsp.status # 0 PROVE IInv'
<1>1. Typed /\ LoginInv
  BY DEF IInv
<1>2. /\ UNCHANGED <<q, last_server, opened, recvd, part, link, chan, logins, pushed, popped>>
      /\ sock["c"] = "login" /\ sock' = [sock EXCEPT !["c"] = "closed"]
      /\ rsp # None /\ rsp' = None
  BY DEF LoginRsp, files
<1>3. sock'["c"] = "closed" /\ sock'["s"] = sock["s"] /\ sock' \in [Ends -> SockState]
  BY <1>1, <1>2 DEF Typed, Ends, SockState
<1>4. ~link /\ \A m \in logins : ~m.mine
  BY <1>1, <1>2 DEF LoginInv, Connected, Accepted
<1>5. \A x \in Ends : /\ Connected(x)' => Connected(x)
                      /\ sock'[x] = "open" => sock[x] = "open"
                      /\ Hears(x)' => Hears(x) /\ sock'[x] = sock[x]
  BY <1>2, <1>3 DEF Connected, Hears, Accepted, Ends
<1>6. LoginInv'
  BY <1>1, <1>2, <1>4 DEF LoginInv, Accepted
<1> QED BY <1>1, <1>2, <1>3, <1>4, <1>5, <1>6, WeakenStep DEF Typed

-----------------------------------------------------------------------------
(* HandleLogin. *)

(* The server finds the numbers of the waiting client in step with its own. *)
LEMMA LoginInStep ==
    ASSUME IInv, NEW l \in logins, l.mine
    PROVE  /\ CheckAckInQueue(l.ack, q["s"].seq, SeqEnd(q["s"]))
           /\ CheckAckInQueue(q["s"].ack, l.seq_start, l.seq_end)
<1>1. /\ Typed /\ QueueInv("c") /\ QueueInv("s")
      /\ l.ack = q["c"].ack /\ l.seq_start = q["c"].seq /\ l.seq_end = SeqEnd(q["c"])
  BY DEF IInv, EndInv, Ends, LoginInv
<1>2. PICK fc \in Nat, fs \in Nat, gc \in Nat, gs \in Nat, wc \in Nat, ws \in Nat :
        /\ Queue(q["c"], fc, gc, wc) /\ Queue(q["s"], fs, gs, ws)
        /\ fc <= gs /\ gs <= wc /\ fs <= gc /\ gc <= ws /\ wc <= MaxMsgs /\ ws <= MaxMsgs
  <2>1. /\ Queue(q["c"], First("c"), popped["c"], pushed["c"])
        /\ Queue(q["s"], First("s"), popped["s"], pushed["s"])
        /\ First("c") <= popped["s"] /\ popped["s"] <= pushed["c"]
        /\ First("s") <= popped["c"] /\ popped["c"] <= pushed["s"]
    BY <1>1 DEF QueueInv, Peer
  <2>2. /\ pushed["c"] \in Nat /\ popped["c"] \in Nat /\ pushed["c"] <= MaxMsgs /\ First("c") \in Nat
        /\ pushed["s"] \in Nat /\ popped["s"] \in Nat /\ pushed["s"] <= MaxMsgs /\ First("s") \in Nat
    BY <1>1, EndFacts DEF Ends
  <2> QED BY <2>1, <2>2
<1>3. /\ q["c"].ack = Num(gc) /\ q["c"].seq = Num(fc) /\ SeqEnd(q["c"]) = Num(wc)
      /\ q["s"].ack = Num(gs) /\ q["s"].seq = Num(fs) /\ SeqEnd(q["s"]) = Num(ws)
  <2>1. /\ q["c"].ack = Num(gc) /\ q["c"].seq = Num(fc)
        /\ q["s"].ack = Num(gs) /\ q["s"].seq = Num(fs)
    BY <1>2 DEF Queue
  <2> QED BY <1>2, <2>1, SeqEndNum
<1>4. /\ wc - fc < HalfSeq /\ ws - fs < HalfSeq
  <2>1. PICK lc \in Nat, ls \in Nat : fc + lc = wc /\ lc <= QCap /\ fs + ls = ws /\ ls <= QCap
    BY <1>2, QueueFields DEF Queue
  <2> QED BY <2>1, SessionNat
<1>5. ASSUME NEW f \in Nat, NEW g \in Nat, NEW w \in Nat, f <= g, g <= w, w - f < HalfSeq
      PROVE  CheckAckInQueue(Num(g), Num(f), Num(w))
  <2>1. f - g <= HalfSeq /\ g - f < HalfSeq /\ g - w <= HalfSeq /\ w - g < HalfSeq
        /\ f \in Int /\ g \in Int /\ w \in Int
    BY <1>5, SessionNat
  <2>2. Signed(Sub(Num(g), Num(f))) = g - f /\ Signed(Sub(Num(w), Num(g))) = w - g
    BY <2>1, NumDiff
  <2> QED BY <1>5, <2>2 DEF CheckAckInQueue
<1>6. CheckAckInQueue(Num(gc), Num(fs), Num(ws))
  BY ONLY <1>2, <1>4, <1>5
<1>7. CheckAckInQueue(Num(gs), Num(fc), Num(wc))
  BY ONLY <1>2, <1>4, <1>5
<1> QED BY <1>1, <1>3, <1>6, <1>7

\* The three ways HandleLogin goes between two ends in step.
Refused(l) ==
    /\ sock["s"] # "closed" /\ Answer(l, 2, 0)
    /\ UNCHANGED <<q, opened, sock, recvd, part, link, chan>>

Dropped(l) ==
    ~l.mine /\ UNCHANGED <<q, opened, sock, recvd, part, link, chan, rsp>>

LoggedOn(l) ==
    /\ sock["s"] = "closed" /\ Answer(l, 0, q["s"].ack)
    /\ opened' = [opened EXCEPT !["s"] = TRUE]
    /\ recvd' = [recvd EXCEPT !["s"] = <<>>] /\ part' = [part EXCEPT !["s"] = None]
    /\ link' = l.mine
    /\ SendPending("s", LoginAck(q["s"], l.ack), [sock EXCEPT !["s"] = "open"], l.mine,
                   IF l.mine THEN [e \in Ends |-> <<>>] ELSE [chan EXCEPT !["s"] = <<>>])

LEMMA HandleLoginCases ==
    ASSUME IInv, NEW l \in logins, HandleLogin(l)
    PROVE  /\ logins' = logins \ {l} /\ UNCHANGED <<last_server, pushed, popped>>
           /\ Refused(l) \/ Dropped(l) \/ LoggedOn(l)
<1>1. l.last_server_name = ServerName
  BY DEF IInv, Typed, Login0
<1>2. [q EXCEPT !["s"] = q["s"]] = q
  BY DEF IInv, Typed
<1>3. CASE sock["s"] # "closed"
  BY <1>3 DEF HandleLogin, Refused
<1>4. CASE sock["s"] = "closed"
  <2> SUFFICES Refused(l) \/ Dropped(l) \/ LoggedOn(l)
    BY Zenon DEF HandleLogin
  <2> DEFINE ok == /\ CheckAckInQueue(l.ack, q["s"].seq, SeqEnd(q["s"]))
                   /\ CheckAckInQueue(q["s"].ack, l.seq_start, l.seq_end)
             ch == IF l.mine THEN [e \in Ends |-> <<>>] ELSE [chan EXCEPT !["s"] = <<>>]
  <2>1. \/ /\ ~ok /\ Answer(l, 1, q["s"].ack)
           /\ q' = [q EXCEPT !["s"] = q["s"]]
           /\ UNCHANGED <<opened, sock, recvd, part, link, chan, faults>>
        \/ /\ ok /\ ~l.mine
           /\ q' = [q EXCEPT !["s"] = q["s"]]
           /\ UNCHANGED <<opened, sock, recvd, part, link, chan, rsp, faults>>
        \/ /\ ok /\ Answer(l, 0, q["s"].ack)
           /\ opened' = [opened EXCEPT !["s"] = TRUE]
           /\ recvd' = [recvd EXCEPT !["s"] = <<>>]
           /\ part' = [part EXCEPT !["s"] = None]
           /\ link' = l.mine
           /\ SendPending("s", LoginAck(q["s"], l.ack), [sock EXCEPT !["s"] = "open"], l.mine, ch)
    BY <1>1, <1>4, Zenon DEF HandleLogin
  <2>2. ~ok => ~l.mine
    BY LoginInStep
  <2>3. CASE ~ok /\ Answer(l, 1, q["s"].ack) /\ q' = [q EXCEPT !["s"] = q["s"]]
             /\ UNCHANGED <<opened, sock, recvd, part, link, chan, faults>>
    BY <1>2, <2>2, <2>3 DEF Dropped, Answer
  <2>4. CASE ok /\ ~l.mine /\ q' = [q EXCEPT !["s"] = q["s"]]
             /\ UNCHANGED <<opened, sock, recvd, part, link, chan, rsp, faults>>
    BY <1>2, <2>4 DEF Dropped
  <2>5. CASE /\ ok /\ Answer(l, 0, q["s"].ack)
             /\ opened' = [opened EXCEPT !["s"] = TRUE]
             /\ recvd' = [recvd EXCEPT !["s"] = <<>>]
             /\ part' = [part EXCEPT !["s"] = None]
             /\ link' = l.mine
             /\ SendPending("s", LoginAck(q["s"], l.ack), [sock EXCEPT !["s"] = "open"], l.mine, ch)
    BY <1>4, <2>5, Zenon DEF LoggedOn
  <2> QED BY <2>1, <2>3, <2>4, <2>5, Zenon
<1> QED BY <1>3, <1>4, Zenon

LEMMA RefusedStep ==
    ASSUME IInv, NEW l \in logins, logins' = logins \ {l}, UNCHANGED <<last_server, pushed, popped>>,
           Refused(l) \/ Dropped(l)
    PROVE  IInv'
<1>1. Typed /\ LoginInv
  BY DEF IInv
<1>2. UNCHANGED <<q, last_server, opened, sock, recvd, part, link, chan, pushed, popped>>
  BY DEF Refused, Dropped
<1>3. CASE ~l.mine
  <2>1. rsp' = rsp
    BY <1>3 DEF Refused, Dropped, Answer
  <2>2. LoginInv'
    BY <1>1, <1>2, <2>1 DEF LoginInv, Accepted, Connected
  <2>3. \A x \in Ends : (Connected(x)' => Connected(x)) /\ (Hears(x)' => Hears(x))
    BY <1>2, <2>1 DEF Connected, Hears, Accepted
  <2> QED BY <1>1, <1>2, <2>2, <2>3, WeakenStep DEF Typed
<1>4. CASE l.mine
  <2>1. rsp' # None /\ rsp'.status = 2
    BY <1>4 DEF Refused, Dropped, Answer, None
  <2>2. sock["c"] = "login" /\ rsp = None /\ ~link
    BY <1>1, <1>4 DEF LoginInv, Connected, Accepted
  <2>3. \A m \in logins' : m \in logins /\ ~m.mine
    BY <1>1, <1>4 DEF LoginInv
  <2>4. ~Accepted'
    BY <2>1 DEF Accepted
  <2>5. LoginInv'
    BY <1>1, <1>2, <2>1, <2>2, <2>3, <2>4 DEF LoginInv
  <2>6. \A x \in Ends : (Connected(x)' => Connected(x)) /\ (Hears(x)' => Hears(x))
    BY <1>2, <2>4 DEF Connected, Hears
  <2> QED BY <1>1, <1>2, <2>5, <2>6, WeakenStep DEF Typed
<1> QED BY <1>3, <1>4

(* SendPending leaves the other end alone.                                  *)
LEMMA SendOther ==
    ASSUME NEW e \in Ends, NEW p \in Ends, p = Peer(e), NEW qe, NEW sk \in [Ends -> SockState], NEW ch,
           q \in [Ends -> QueueRec], SendPending(e, qe, sk, link', ch)
    PROVE  q'[p] = q[p] /\ sock'[p] = sk[p]
<1>1. p # e
  BY Peers
<1>2. (\E r : q' = [q EXCEPT ![e] = r]) /\ (sock' = sk \/ sock' = [sk EXCEPT ![e] = "closing"])
  BY Zenon DEF SendPending
<1> QED BY <1>1, <1>2

(* The queue and the sockets an accepted login sends with.                  *)
LEMMA LogonQueue ==
    ASSUME IInv, NEW e \in Ends, NEW p, p = Peer(e), NEW a \in 0 .. popped[p], NEW n, n = Num(a)
    PROVE  \E f \in Nat, x \in Nat :
             /\ Queue(LoginAck(q[e], n), f, popped[e], pushed[e])
             /\ x = Pos(LoginAck(q[e], n), f) /\ x = 2 * f /\ x <= 2 * pushed[e]
             /\ f <= popped[p] /\ popped[p] <= pushed[e] /\ (a = popped[p] => f = a)
<1>1. PICK f \in Nat, g \in Nat, w \in Nat, gp \in Nat :
        /\ Queue(q[e], f, g, w) /\ g = popped[e] /\ w = pushed[e] /\ gp = popped[p] /\ f <= gp /\ gp <= w
        /\ w <= MaxMsgs
  <2>1. p \in Ends /\ Typed /\ QueueInv(e) /\ QueueInv(p)
    BY Peers DEF IInv, EndInv
  <2>2. popped[p] \in Nat /\ pushed[e] \in Nat /\ popped[e] \in Nat /\ First(e) \in Nat /\ pushed[e] <= MaxMsgs
    BY <2>1, EndFacts
  <2>3. /\ Queue(q[e], First(e), popped[e], pushed[e])
        /\ First(e) <= popped[p] /\ popped[p] <= pushed[e]
    BY <2>1 DEF QueueInv
  <2> QED BY <2>2, <2>3
<1>2. a \in Nat /\ a <= gp /\ a <= w
  BY <1>1
<1>3. PICK f2 \in Nat : /\ Queue(LoginAck(q[e], n), f2, g, w)
                        /\ (a <= f => f2 = f) /\ (a > f => f2 = a)
                        /\ LoginAck(q[e], n).sent = 0
  <2>1. Queue(q[e], f, g, w) /\ w <= MaxMsgs
    BY <1>1
  <2>2. \E y \in Nat : /\ Queue(LoginAck(q[e], Num(a)), y, g, w)
                       /\ (a <= f => y = f) /\ (a > f => y = a)
                       /\ LoginAck(q[e], Num(a)).sent = 0
    BY ONLY <1>2, <2>1, LoginAckQueue, f \in Nat, g \in Nat, w \in Nat
  <2> QED BY <2>2
<1>4. f2 <= gp /\ (a = gp => f2 = a) /\ 2 * f2 \in Nat /\ 2 * f2 <= 2 * w /\ 2 * f2 + 0 = 2 * f2
  <2>1. f <= gp /\ gp <= w /\ a <= gp /\ (a <= f => f2 = f) /\ (a > f => f2 = a)
    BY <1>1, <1>2, <1>3
  <2> QED BY ONLY <2>1, f \in Nat, f2 \in Nat, a \in Nat, gp \in Nat, w \in Nat, <1>2
<1>5. Pos(LoginAck(q[e], n), f2) = 2 * f2
  BY <1>3, <1>4 DEF Pos
<1> QED BY <1>1, <1>3, <1>4, <1>5

(* A connection that has just been opened, with nothing on its way.         *)
LEMMA FreshEnd ==
    ASSUME Typed, NEW e \in Ends, NEW p \in Ends, p = Peer(e), QueueInv(p),
           UNCHANGED <<pushed, popped>>, recvd'[e] = <<>>, part'[e] = None, chan'[e] = <<>>,
           sock'[e] \in {"open", "closing"},
           link' /\ sock'[p] = "open" => SentTo(p)' = 2 * popped[e]
    PROVE  RecvInv(e)' /\ ChanInv(e)' /\ AcksInv(e)' /\ (Len(chan[e]) <= ChanCap)'
<1>1. pushed[p] \in Nat /\ popped[e] \in Nat /\ popped[e] <= pushed[p] /\ Peer(p) = e
  <2>1. pushed[p] \in Nat /\ popped[e] \in Nat
    BY DEF Typed
  <2> QED BY <2>1, Peers DEF QueueInv
<1>2. Len(<<>>) = 0
  BY EmptySeq
<1>3. PICK b \in Nat : b = 2 * popped[e] /\ b <= 2 * pushed[p] /\ 2 * (popped[e] + 0) + 0 = b
  BY <1>1
<1>4. Pending(e)' = 0 /\ Len(recvd'[e]) = 0 /\ Len(chan'[e]) = 0
  BY <1>2 DEF Pending
<1>5. RecvInv(e)'
  BY <1>3, <1>4 DEF RecvInv
<1>6. ASSUME Hears(e)' PROVE Base(e)' = b
  BY <1>3, <1>4 DEF Base
<1>7. Run(<<>>, b, b)
  BY RunEmpty
<1>8. ChanInv(e)'
  BY <1>3, <1>6, <1>7 DEF ChanInv
<1>9. AcksInv(e)'
  BY AckedEmpty DEF AcksInv
<1> QED BY <1>4, <1>5, <1>8, <1>9, SessionNat

(* The server accepts a login, of the waiting client or an abandoned one.   *)
LEMMA LoggedOnStep ==
    ASSUME IInv, NEW l \in logins, logins' = logins \ {l}, UNCHANGED <<last_server, pushed, popped>>,
           LoggedOn(l)
    PROVE  IInv'
<1>1. /\ Typed /\ LoginInv /\ QueueInv("c") /\ QueueInv("s") /\ RecvInv("c")
      /\ ChanInv("c") /\ AcksInv("c") /\ Len(chan["c"]) <= ChanCap
  BY DEF IInv, EndInv, Ends
<1>2. "s" \in Ends /\ "c" \in Ends /\ "c" = Peer("s") /\ "s" = Peer("c") /\ "c" # "s"
  BY DEF Ends, Peer
<1>3. /\ popped["c"] \in Nat /\ popped["s"] \in Nat /\ pushed["c"] \in Nat /\ pushed["s"] \in Nat
      /\ SentTo("c") \in Nat /\ Base("c") \in Nat
  BY <1>1, <1>2, EndFacts
<1>4. /\ sock["s"] = "closed" /\ Answer(l, 0, q["s"].ack) /\ link' = l.mine
      /\ opened' = [opened EXCEPT !["s"] = TRUE]
      /\ recvd' = [recvd EXCEPT !["s"] = <<>>] /\ part' = [part EXCEPT !["s"] = None]
  BY DEF LoggedOn
<1>5. l \in Login0 /\ l.mine \in BOOLEAN /\ link' \in BOOLEAN
  BY <1>1, <1>4 DEF Typed, Login0
<1>6. PICK sk : sk = [sock EXCEPT !["s"] = "open"]
  OBVIOUS
<1>7. PICK ch : ch = IF l.mine THEN [e \in Ends |-> <<>>] ELSE [chan EXCEPT !["s"] = <<>>]
  OBVIOUS
<1>8. SendPending("s", LoginAck(q["s"], l.ack), sk, link', ch)
  <2>1. SendPending("s", LoginAck(q["s"], l.ack), sk, l.mine, ch)
    BY <1>6, <1>7, Zenon DEF LoggedOn
  <2> QED BY <1>4, <2>1, Zenon
<1>9. sk \in [Ends -> SockState] /\ sk["s"] = "open" /\ sk["c"] = sock["c"]
  BY <1>1, <1>2, <1>6 DEF Typed, SockState
<1>10. /\ ch \in [Ends -> Seq(WireBlock)] /\ ch["s"] = <<>>
       /\ (l.mine => ch["c"] = <<>>) /\ (~l.mine => ch["c"] = chan["c"])
  <2>1. <<>> \in Seq(WireBlock)
    BY EmptySeq
  <2>2. CASE l.mine
    BY <1>2, <1>7, <2>1, <2>2
  <2>3. CASE ~l.mine
    BY <1>1, <1>2, <1>7, <2>1, <2>3 DEF Typed
  <2> QED BY <2>2, <2>3
<1>11. Len(ch["c"]) <= ChanCap
  BY <1>1, <1>10, EmptySeq, SessionNat
<1>12. q \in [Ends -> QueueRec]
  BY <1>1 DEF Typed
<1>13. q'["c"] = q["c"] /\ sock'["c"] = sock["c"]
  BY <1>2, <1>8, <1>9, <1>12, SendOther
<1>14. /\ QueueInv("c")' /\ SentTo("c")' = SentTo("c")
  BY <1>1, <1>2, <1>13, QueueKeep
<1>15. PICK a \in 0 .. popped["c"] : l.ack = Num(a) /\ (l.mine => a = popped["c"])
  <2>1. CASE l.mine
    <3>1. l.ack = Num(popped["c"])
      BY <1>1, <2>1 DEF LoginInv, QueueInv, Queue
    <3>2. popped["c"] \in 0 .. popped["c"]
      BY <1>3
    <3> QED BY <2>1, <3>1, <3>2
  <2>2. CASE ~l.mine
    BY <1>1, <2>2 DEF LoginInv
  <2> QED BY <2>1, <2>2
<1>16. PICK f \in Nat, x \in Nat :
         /\ Queue(LoginAck(q["s"], l.ack), f, popped["s"], pushed["s"])
         /\ x = Pos(LoginAck(q["s"], l.ack), f) /\ x = 2 * f /\ x <= 2 * pushed["s"]
         /\ f <= popped["c"] /\ popped["c"] <= pushed["s"] /\ (a = popped["c"] => f = a)
  BY ONLY IInv, <1>2, <1>15, LogonQueue
<1>17. l.mine => /\ sock["c"] = "login" /\ rsp = None /\ Accepted' /\ x = 2 * popped["c"]
                 /\ rsp' # None /\ rsp'.status = 0 /\ rsp'.ack = q["s"].ack
  <2>1. ASSUME l.mine PROVE rsp' = [status |-> 0, ack |-> q["s"].ack]
    BY <1>4, <2>1 DEF Answer
  <2>2. ASSUME l.mine PROVE rsp' # None /\ rsp'.status = 0 /\ rsp'.ack = q["s"].ack
    BY <2>1, <2>2 DEF None
  <2>3. l.mine => sock["c"] = "login" /\ rsp = None
    BY <1>1 DEF LoginInv
  <2> QED BY <1>13, <1>15, <1>16, <2>2, <2>3 DEF Accepted
<1>18. ~l.mine => rsp' = rsp /\ (Accepted' <=> Accepted) /\ (Hears("c")' <=> Hears("c"))
  BY <1>4, <1>13 DEF Answer, Accepted, Hears
<1>19. ~l.mine => Base("c")' = Base("c")
  <2>1. recvd'["c"] = recvd["c"] /\ part'["c"] = part["c"]
    BY <1>1, <1>2, <1>4 DEF Typed
  <2> QED BY <1>13, <2>1 DEF Base, Pending
<1>20. l.mine => Base("c")' = x /\ ~Connected("c")'
  BY <1>13, <1>17 DEF Base, Connected
<1>21. ASSUME Hears("c")'
       PROVE  /\ Base("c")' \in Nat
              /\ \E hi \in Nat : /\ Run(ch["c"], Base("c")', hi) /\ hi <= 2 * pushed["s"]
                                 /\ (link' /\ sk["s"] = "open" => hi = x)
  <2>1. CASE l.mine
    <3>1. Run(<<>>, x, x)
      BY RunEmpty
    <3> QED BY <1>10, <1>16, <1>20, <2>1, <3>1
  <2>2. CASE ~l.mine
    <3>1. PICK hi \in Nat : Run(chan["c"], Base("c"), hi) /\ hi <= 2 * pushed["s"]
      BY <1>1, <1>2, <1>18, <1>21, <2>2 DEF ChanInv
    <3> QED BY <1>3, <1>4, <1>10, <1>19, <2>2, <3>1
  <2> QED BY <2>1, <2>2
<1>22. ASSUME Hears("c")'
       PROVE  /\ Acked(ch["c"], popped["s"], 2 * popped["s"])
              /\ (sk["c"] = "open" => Acked(ch["c"], popped["s"], SentTo("c")'))
  <2>1. CASE l.mine
    BY <1>10, <2>1, AckedEmpty
  <2>2. CASE ~l.mine
    BY <1>1, <1>2, <1>9, <1>10, <1>14, <1>18, <1>22, <2>2 DEF AcksInv
  <2> QED BY <2>1, <2>2
<1>23. link' /\ sk["s"] = "open" /\ sk["c"] = "open" => FALSE
  BY <1>4, <1>9, <1>17
<1>24. SendReady("s", "c", LoginAck(q["s"], l.ack), f, popped["s"], pushed["s"], x, sk, ch)
  BY <1>2, <1>3, <1>5, <1>9, <1>10, <1>11, <1>12, <1>16, <1>21, <1>22, <1>23 DEF SendReady
<1>25. SendDone("s", "c", f, x, sk, ch)
  BY ONLY <1>8, <1>24, SendEnds
<1>26. /\ QueueInv("s")' /\ ChanInv("c")' /\ AcksInv("c")' /\ (Len(chan["c"]) <= ChanCap)'
       /\ q' \in [Ends -> QueueRec] /\ sock' \in [Ends -> SockState]
       /\ sock'["s"] \in {"open", "closing"}
       /\ chan' \in [Ends -> Seq(WireBlock)] /\ chan'["s"] = <<>>
  BY <1>9, <1>10, <1>25 DEF SendDone
<1>27. /\ recvd' \in [Ends -> Seq(WireBlock)] /\ recvd'["s"] = <<>> /\ recvd'["c"] = recvd["c"]
       /\ part' \in [Ends -> WireBlock \cup {None}] /\ part'["s"] = None /\ part'["c"] = part["c"]
  <2>1. <<>> \in Seq(WireBlock)
    BY EmptySeq
  <2> QED BY <1>1, <1>2, <1>4, <2>1 DEF Typed
<1>28. Typed'
  <2>1. opened' \in [Ends -> BOOLEAN]
    BY <1>1, <1>4 DEF Typed
  <2>2. sock'["s"] # "login"
    BY <1>26
  <2> QED BY <1>1, <1>5, <1>26, <1>27, <2>1, <2>2 DEF Typed
<1>29. RecvInv("s")' /\ ChanInv("s")' /\ AcksInv("s")' /\ (Len(chan["s"]) <= ChanCap)'
  <2>1. link' /\ sock'["c"] = "open" => FALSE
    BY <1>4, <1>13, <1>17
  <2> QED BY <1>1, <1>2, <1>26, <1>27, <2>1, FreshEnd
<1>30. RecvInv("c")'
  <2>1. Connected("c")' => Connected("c")
    BY <1>13 DEF Connected
  <2>2. pushed["s"] <= pushed["s"]
    BY <1>3
  <2> QED BY <1>1, <1>2, <1>3, <1>27, <2>1, <2>2, RecvKeep
<1>31. \A e \in Ends : EndInv(e)'
  BY <1>14, <1>26, <1>29, <1>30 DEF EndInv, Ends
<1>32. LoginInv'
  <2>1. Connected("s")'
    BY <1>26 DEF Connected
  <2>2. q["s"].ack = Num(popped["s"])
    BY <1>1 DEF QueueInv, Queue
  <2>3. CASE l.mine
    <3>1. \A m \in logins' : m \in logins /\ ~m.mine
      BY <1>1, <2>3 DEF LoginInv
    <3> QED BY <1>1, <1>13, <1>17, <1>26, <1>27, <2>1, <2>2, <2>3, <3>1 DEF LoginInv
  <2>4. CASE ~l.mine
    BY <1>1, <1>4, <1>13, <1>18, <1>26, <1>27, <2>4 DEF LoginInv
  <2> QED BY <2>3, <2>4
<1> QED BY <1>28, <1>31, <1>32 DEF IInv

(* The client opens the connection that the server has accepted.            *)
LEMMA LoginAcceptedStep == ASSUME IInv, LoginRsp, rsp.status = 0 PROVE IInv'
<1>1. /\ Typed /\ LoginInv /\ QueueInv("c") /\ QueueInv("s") /\ RecvInv("s")
      /\ ChanInv("c") /\ AcksInv("c") /\ Len(chan["c"]) <= ChanCap /\ Len(chan["s"]) <= ChanCap
  BY DEF IInv, EndInv, Ends
<1>2. "s" \in Ends /\ "c" \in Ends /\ "c" = Peer("s") /\ "s" = Peer("c") /\ "c" # "s"
  BY DEF Ends, Peer
<1>3. /\ popped["c"] \in Nat /\ popped["s"] \in Nat /\ pushed["c"] \in Nat /\ pushed["s"] \in Nat
      /\ SentTo("s") \in Nat /\ Base("c") \in Nat
  BY <1>1, <1>2, EndFacts
<1>4. /\ sock["c"] = "login" /\ rsp # None /\ rsp' = None /\ last_server' = ServerName
      /\ opened' = [opened EXCEPT !["c"] = TRUE]
      /\ recvd' = [recvd EXCEPT !["c"] = <<>>] /\ part' = [part EXCEPT !["c"] = None]
      /\ UNCHANGED <<link, logins, pushed, popped>>
  BY DEF LoginRsp
<1>5. Accepted /\ Hears("c") /\ ~Accepted'
  BY <1>4 DEF Accepted, Hears
<1>6. /\ rsp.ack = Num(popped["s"]) /\ chan["s"] = <<>>
      /\ Connected("s") => recvd["s"] = <<>> /\ part["s"] = None
  BY <1>1, <1>5 DEF LoginInv
<1>7. PICK sk : sk = [sock EXCEPT !["c"] = "open"]
  OBVIOUS
<1>8. SendPending("c", LoginAck(q["c"], rsp.ack), sk, link', chan)
  <2>1. SendPending("c", LoginAck(IF last_server = ServerName THEN q["c"] ELSE NewQueue, rsp.ack),
                    [sock EXCEPT !["c"] = "open"], link, chan)
    BY Zenon DEF LoginRsp
  <2>2. (IF last_server = ServerName THEN q["c"] ELSE NewQueue) = q["c"]
    BY <1>1 DEF Typed
  <2>3. link' = link
    BY <1>4
  <2> QED BY <1>7, <2>1, <2>2, <2>3, Zenon
<1>9. sk \in [Ends -> SockState] /\ sk["c"] = "open" /\ sk["s"] = sock["s"]
  BY <1>1, <1>2, <1>7 DEF Typed, SockState
<1>10. q \in [Ends -> QueueRec] /\ chan \in [Ends -> Seq(WireBlock)] /\ link' \in BOOLEAN
  BY <1>1, <1>4 DEF Typed
<1>11. q'["s"] = q["s"] /\ sock'["s"] = sock["s"]
  BY <1>2, <1>8, <1>9, <1>10, SendOther
<1>12. QueueInv("s")' /\ SentTo("s")' = SentTo("s")
  BY <1>1, <1>2, <1>4, <1>11, QueueKeep
<1>13. PICK f \in Nat, x \in Nat :
         /\ Queue(LoginAck(q["c"], rsp.ack), f, popped["c"], pushed["c"])
         /\ x = Pos(LoginAck(q["c"], rsp.ack), f) /\ x = 2 * f /\ x <= 2 * pushed["c"]
         /\ f <= popped["s"] /\ popped["s"] <= pushed["c"] /\ f = popped["s"]
  <2>1. PICK a \in 0 .. popped["s"] : a = popped["s"] /\ rsp.ack = Num(a)
    BY <1>3, <1>6
  <2> QED BY ONLY IInv, <1>2, <2>1, LogonQueue
<1>14. recvd'["s"] = recvd["s"] /\ part'["s"] = part["s"]
  BY <1>1, <1>2, <1>4 DEF Typed
<1>15. ASSUME Hears("s")'
       PROVE  /\ Base("s")' \in Nat
              /\ \E hi \in Nat : /\ Run(chan["s"], Base("s")', hi) /\ hi <= 2 * pushed["c"]
                                 /\ (link' /\ sk["c"] = "open" => hi = x)
              /\ Acked(chan["s"], popped["c"], 2 * popped["c"])
              /\ (sk["s"] = "open" => Acked(chan["s"], popped["c"], SentTo("s")'))
  <2>1. sock'["s"] = "open" /\ Connected("s")
    BY <1>2, <1>11, <1>15 DEF Hears, Connected
  <2>2. recvd'["s"] = <<>> /\ Pending("s")' = 0
    BY <1>6, <1>14, <2>1 DEF Pending
  <2>3. 2 * (popped["s"] + 0) + 0 = x
    BY <1>3, <1>13
  <2>4. Base("s")' = x
    BY <1>4, <2>1, <2>2, <2>3, EmptySeq DEF Base
  <2>5. Run(<<>>, x, x)
    BY RunEmpty
  <2> QED BY <1>6, <1>13, <2>4, <2>5, AckedEmpty
<1>16. PICK hi \in Nat : /\ Run(chan["c"], Base("c"), hi)
                         /\ link /\ sock["s"] = "open" => hi = SentTo("s")
  BY <1>1, <1>2, <1>5 DEF ChanInv
<1>17. Base("c") = 2 * popped["c"]
  BY <1>4 DEF Base
<1>18. link' /\ sk["c"] = "open" /\ sk["s"] = "open" => SentTo("s")' \in Nat /\ 2 * popped["c"] <= SentTo("s")'
  <2>1. chan["c"] \in Seq(WireBlock)
    BY <1>2, <1>10
  <2>2. Base("c") <= hi
    BY <1>16, <2>1, RunOrder
  <2> QED BY <1>3, <1>4, <1>9, <1>12, <1>16, <1>17, <2>2
<1>19. SendReady("c", "s", LoginAck(q["c"], rsp.ack), f, popped["c"], pushed["c"], x, sk, chan)
  BY <1>1, <1>2, <1>3, <1>4, <1>9, <1>10, <1>13, <1>15, <1>18 DEF SendReady
<1>20. SendDone("c", "s", f, x, sk, chan)
  BY ONLY <1>8, <1>19, SendEnds
<1>21. /\ QueueInv("c")' /\ ChanInv("s")' /\ AcksInv("s")' /\ (Len(chan["s"]) <= ChanCap)'
       /\ SentTo("c")' \in Nat /\ x <= SentTo("c")'
       /\ q' \in [Ends -> QueueRec] /\ sock' \in [Ends -> SockState]
       /\ sock'["c"] \in {"open", "closing"}
       /\ chan' \in [Ends -> Seq(WireBlock)] /\ chan'["c"] = chan["c"]
  BY <1>9, <1>20 DEF SendDone
<1>22. /\ recvd' \in [Ends -> Seq(WireBlock)] /\ recvd'["c"] = <<>>
       /\ part' \in [Ends -> WireBlock \cup {None}] /\ part'["c"] = None
  <2>1. <<>> \in Seq(WireBlock)
    BY EmptySeq
  <2> QED BY <1>1, <1>2, <1>4, <2>1 DEF Typed
<1>23. Typed'
  <2>1. opened' \in [Ends -> BOOLEAN]
    BY <1>1, <1>4 DEF Typed
  <2>2. sock'["s"] # "login"
    BY <1>1, <1>11 DEF Typed
  <2> QED BY <1>1, <1>4, <1>10, <1>21, <1>22, <2>1, <2>2 DEF Typed
<1>24. RecvInv("s")'
  <2>1. Connected("s")' => Connected("s")
    BY <1>11 DEF Connected
  <2>2. pushed["c"] <= pushed["c"]
    BY <1>3
  <2> QED BY <1>1, <1>2, <1>3, <1>4, <1>14, <2>1, <2>2, RecvKeep
<1>25. RecvInv("c")' /\ (Hears("c")' => Base("c")' = Base("c"))
  <2>1. Pending("c")' = 0 /\ Len(recvd'["c"]) = 0
    BY <1>22, EmptySeq DEF Pending
  <2>2. 2 * (popped["c"] + 0) + 0 = 2 * popped["c"] /\ 2 * popped["c"] <= 2 * pushed["s"]
    BY <1>1, <1>2, <1>3 DEF QueueInv
  <2>3. Base("c")' = 2 * popped["c"]
    BY <1>4, <2>1, <2>2 DEF Base
  <2>4. RecvInv("c")'
    BY <1>2, <1>4, <1>22, <2>1, <2>2 DEF RecvInv
  <2> QED BY <1>17, <2>3, <2>4
<1>26. ChanInv("c")'
  <2>1. pushed["s"] <= pushed["s"]
    BY <1>3
  <2> QED BY <1>1, <1>2, <1>3, <1>4, <1>5, <1>11, <1>12, <1>21, <1>25, <2>1, ChanKeep
<1>27. AcksInv("c")'
  <2>1. Acked(chan["c"], popped["s"], x)
    BY <1>1, <1>2, <1>5, <1>13 DEF AcksInv
  <2>2. x = 2 * popped["s"] /\ popped["s"] <= popped["s"]
    BY <1>3, <1>13
  <2>3. Acked(chan["c"], popped["s"], SentTo("c")')
    BY <1>3, <1>21, <2>1, <2>2, AckedMono
  <2> QED BY <1>2, <1>4, <1>21, <2>1, <2>2, <2>3 DEF AcksInv
<1>28. \A e \in Ends : EndInv(e)'
  BY <1>1, <1>12, <1>21, <1>24, <1>25, <1>26, <1>27 DEF EndInv, Ends
<1>29. LoginInv'
  <2>1. \A m \in logins' : m \in logins /\ ~m.mine
    BY <1>1, <1>4 DEF LoginInv
  <2>2. link' => Connected("s")' /\ Connected("c")'
    BY <1>1, <1>4, <1>11, <1>21 DEF LoginInv, Connected
  <2> QED BY <1>1, <1>4, <1>5, <2>1, <2>2 DEF LoginInv
<1> QED BY <1>23, <1>28, <1>29 DEF IInv

-----------------------------------------------------------------------------
(* Push, SendHB, Front and Pop. *)

(* An end that has heard the peer on this connection has popped only what   *)
(* the peer has sent on it, or had sent before.                             *)
LEMMA PoppedSent ==
    ASSUME IInv, NEW e \in Ends, NEW p \in Ends, p = Peer(e),
           link, sock[e] = "open", sock[p] = "open"
    PROVE  2 * popped[e] <= SentTo(p)
<1>1. Typed /\ ChanInv(e) /\ QueueInv(e) /\ QueueInv(p)
  BY DEF IInv, EndInv
<1>2. Base(e) \in Nat /\ popped[e] \in Nat /\ 2 * popped[e] <= Base(e) /\ SentTo(p) \in Nat
  BY <1>1, EndFacts
<1>3. Run(chan[e], Base(e), SentTo(p))
  BY <1>1 DEF ChanInv, Hears
<1>4. chan[e] \in Seq(WireBlock)
  BY <1>1 DEF Typed
<1>5. Base(e) <= SentTo(p)
  BY <1>3, <1>4, RunOrder
<1> QED BY <1>2, <1>5

(* A send from a queue that goes on from where it was.                      *)
LEMMA SendFrom ==
    ASSUME IInv, NEW e \in Ends, NEW p \in Ends, p = Peer(e), NEW qe, NEW w \in Nat,
           pushed[e] <= w, Queue(qe, First(e), popped[e], w), SentTo(e) = Pos(qe, First(e)),
           sock[e] # "login", SendPending(e, qe, sock, link', chan),
           pushed' = [pushed EXCEPT ![e] = w], pushed'["c"] + pushed'["s"] <= MaxMsgs,
           UNCHANGED <<last_server, opened, recvd, part, link, logins, rsp, popped>>
    PROVE  IInv'
<1>1. /\ Typed /\ LoginInv /\ QueueInv(e) /\ QueueInv(p) /\ RecvInv(e) /\ RecvInv(p)
      /\ ChanInv(e) /\ ChanInv(p) /\ AcksInv(e) /\ AcksInv(p)
      /\ Len(chan[e]) <= ChanCap /\ Len(chan[p]) <= ChanCap
  BY DEF IInv, EndInv
<1>2. p # e /\ Peer(p) = e /\ \A x \in Ends : x = e \/ x = p
  BY Peers
<1>3. /\ popped[e] \in Nat /\ popped[p] \in Nat /\ pushed[e] \in Nat /\ pushed[p] \in Nat
      /\ First(e) \in Nat /\ SentTo(e) \in Nat /\ SentTo(p) \in Nat
      /\ Base(e) \in Nat /\ Base(p) \in Nat /\ 2 * popped[e] <= Base(e)
  BY <1>1, EndFacts
<1>4. /\ q \in [Ends -> QueueRec] /\ chan \in [Ends -> Seq(WireBlock)] /\ link' \in BOOLEAN
      /\ sock \in [Ends -> SockState]
  BY <1>1 DEF Typed
<1>5. q'[p] = q[p] /\ sock'[p] = sock[p]
  BY <1>4, SendOther
<1>6. pushed'[e] = w /\ pushed'[p] = pushed[p] /\ pushed' \in [Ends -> Nat]
  BY <1>1, <1>2 DEF Typed
<1>7. QueueInv(p)' /\ SentTo(p)' = SentTo(p)
  BY <1>1, <1>2, <1>5, <1>6, QueueKeep
<1>8. First(e) <= popped[p] /\ popped[p] <= w
  <2>1. First(e) <= popped[p] /\ popped[p] <= pushed[e]
    BY <1>1 DEF QueueInv
  <2> QED BY <1>3, <2>1
<1>9. (Hears(p)' => Hears(p)) /\ Base(p)' = Base(p)
  BY <1>5 DEF Hears, Accepted, Base, Pending
<1>10. ASSUME Hears(p)'
       PROVE  /\ Base(p)' \in Nat
              /\ \E hi \in Nat : /\ Run(chan[p], Base(p)', hi) /\ hi <= 2 * w
                                 /\ (link' /\ sock[e] = "open" => hi = SentTo(e))
              /\ Acked(chan[p], popped[e], 2 * popped[e])
              /\ (sock[p] = "open" => Acked(chan[p], popped[e], SentTo(p)'))
  <2>1. PICK hi \in Nat : /\ Run(chan[p], Base(p), hi) /\ hi <= 2 * pushed[e]
                          /\ (link /\ sock[e] = "open" => hi = SentTo(e))
    BY <1>1, <1>2, <1>9, <1>10 DEF ChanInv
  <2>2. hi <= 2 * w
    BY <1>3, <2>1
  <2> QED BY <1>1, <1>2, <1>3, <1>7, <1>9, <1>10, <2>1, <2>2 DEF AcksInv
<1>11. link' /\ sock[e] = "open" /\ sock[p] = "open" => SentTo(p)' \in Nat /\ 2 * popped[e] <= SentTo(p)'
  BY <1>3, <1>7, PoppedSent
<1>12. SendReady(e, p, qe, First(e), popped[e], w, SentTo(e), sock, chan)
  BY <1>1, <1>3, <1>4, <1>6, <1>8, <1>10, <1>11 DEF SendReady
<1>13. SendDone(e, p, First(e), SentTo(e), sock, chan)
  BY ONLY <1>12, SendEnds, SendPending(e, qe, sock, link', chan)
<1>14. /\ QueueInv(e)' /\ ChanInv(p)' /\ AcksInv(p)' /\ (Len(chan[p]) <= ChanCap)'
       /\ SentTo(e)' \in Nat /\ SentTo(e) <= SentTo(e)'
       /\ q' \in [Ends -> QueueRec] /\ sock' \in [Ends -> SockState]
       /\ sock'[e] = sock[e] \/ (sock[e] = "open" /\ sock'[e] = "closing")
       /\ chan' \in [Ends -> Seq(WireBlock)] /\ chan'[e] = chan[e]
  BY <1>13 DEF SendDone
<1>15. Typed'
  <2>1. sock'["s"] # "login"
    <3>1. e = "s" \/ p = "s"
      BY <1>2 DEF Ends
    <3> QED BY <1>1, <1>5, <1>14, <3>1 DEF Typed
  <2> QED BY <1>1, <1>6, <1>14, <2>1 DEF Typed
<1>16. \A x \in Ends : Connected(x)' => Connected(x)
  BY <1>2, <1>5, <1>14 DEF Connected
<1>17. Hears(e)' => Hears(e) /\ Base(e)' = Base(e) /\ sock[e] = "open"
  BY <1>14 DEF Hears, Accepted, Base, Pending
<1>18. RecvInv(e)' /\ RecvInv(p)'
  <2>1. pushed[p] <= pushed'[p] /\ pushed'[p] \in Nat /\ pushed[e] <= pushed'[e] /\ pushed'[e] \in Nat
    BY <1>3, <1>6
  <2>2. RecvInv(e)'
    BY <1>1, <1>3, <1>16, <2>1, RecvKeep
  <2>3. RecvInv(p)'
    BY <1>1, <1>2, <1>3, <1>16, <2>1, RecvKeep
  <2> QED BY <2>2, <2>3
<1>19. ChanInv(e)'
  <2>1. pushed[p] <= pushed'[p] /\ pushed'[p] \in Nat
    BY <1>3, <1>6
  <2> QED BY <1>1, <1>3, <1>5, <1>7, <1>14, <1>17, <2>1, ChanKeep
<1>20. AcksInv(e)'
  <2>1. popped[p] <= popped[p]
    BY <1>3
  <2>2. sock'[e] = "open" => sock[e] = "open"
    BY <1>14
  <2> QED BY <1>1, <1>3, <1>14, <1>17, <2>1, <2>2, AcksKeep
<1>21. \A x \in Ends : EndInv(x)'
  BY <1>1, <1>2, <1>7, <1>14, <1>18, <1>19, <1>20 DEF EndInv
<1>22. LoginInv'
  <2>1. link' => Connected("s")' /\ (Connected("c")' \/ Accepted')
    BY <1>1, <1>2, <1>5, <1>14 DEF LoginInv, Connected, Accepted, Ends
  <2>2. CASE e = "c"
    <3>1. ~Accepted' /\ ~Accepted /\ \A l \in logins : ~l.mine
      BY <1>1, <1>14, <2>2 DEF LoginInv, Accepted
    <3>2. rsp = None
      BY <1>1, <2>2 DEF LoginInv
    <3> QED BY <1>1, <2>1, <3>1, <3>2 DEF LoginInv
  <2>3. CASE e = "s"
    <3>1. p = "c"
      BY <2>3 DEF Peer
    <3>2. q'["c"] = q["c"] /\ sock'["c"] = sock["c"] /\ chan'["s"] = chan["s"]
      BY <1>5, <1>14, <2>3, <3>1
    <3>3. Accepted' <=> Accepted
      BY <3>2 DEF Accepted
    <3>4. Connected("s")' => Connected("s")
      BY <1>16, <2>3
    <3> QED BY <1>1, <2>1, <3>2, <3>3, <3>4 DEF LoginInv
  <2> QED BY <2>2, <2>3 DEF Ends
<1> QED BY <1>15, <1>21, <1>22 DEF IInv

LEMMA SendHBPendingStep == ASSUME IInv, NEW e \in Ends, SendHBPending(e) PROVE IInv'
<1>1. PICK p \in Ends : p = Peer(e)
  BY Peers
<1>2. Typed /\ QueueInv(e)
  BY DEF IInv, EndInv
<1>3. /\ pushed[e] \in Nat /\ pushed[e] <= pushed[e] /\ SentTo(e) = Pos(q[e], First(e))
      /\ Queue(q[e], First(e), popped[e], pushed[e])
  BY <1>2, EndFacts DEF QueueInv
<1>4. /\ SendPending(e, q[e], sock, link, chan) /\ link' = link /\ sock[e] = "open"
      /\ UNCHANGED <<last_server, opened, recvd, part, link, logins, rsp, pushed, popped>>
  BY Zenon DEF SendHBPending
<1>5. SendPending(e, q[e], sock, link', chan)
  BY <1>4, Zenon
<1>6. pushed' = [pushed EXCEPT ![e] = pushed[e]] /\ pushed'["c"] + pushed'["s"] <= MaxMsgs
  BY <1>2, <1>4 DEF Typed
<1> QED BY ONLY IInv, e \in Ends, <1>1, <1>3, <1>4, <1>5, <1>6, SendFrom

\* The queue with message number w added.
PushMsg(qe, w) == [qe EXCEPT !.msgs = Append(@, [id |-> w, ack |-> qe.ack])]

LEMMA PushQueue ==
    ASSUME NEW qe, NEW f \in Nat, NEW g \in Nat, NEW w \in Nat, Queue(qe, f, g, w),
           Len(qe.msgs) < QCap, w < MaxMsgs, NEW w1 \in Nat, w < w1, w1 <= w + 1
    PROVE  Queue(PushMsg(qe, w), f, g, w1) /\ Pos(PushMsg(qe, w), f) = Pos(qe, f)
<1>0. PICK r : r = PushMsg(qe, w)
  OBVIOUS
<1>1. PICK len \in Nat : len = Len(qe.msgs)
  BY QueueFields DEF Queue
<1>2. f + len = w /\ len < QCap
  BY <1>1 DEF Queue
<1>3. PICK b : b = [id |-> w, ack |-> qe.ack]
  OBVIOUS
<1>4. PICK m : m = Append(qe.msgs, b)
  OBVIOUS
<1>5. /\ qe.ack = Num(g) /\ qe.ack \in SeqNum /\ qe.msgs \in Seq(Message) /\ qe.seq = Num(f)
      /\ qe.seq \in SeqNum /\ qe.sent \in Nat /\ qe.sent <= 2 * len
      /\ \A i \in 1 .. len : /\ qe.msgs[i].id = f + i - 1
                             /\ \E x \in 0 .. g : qe.msgs[i].ack = Num(x)
  BY <1>1, QueueFields DEF Queue
<1>6. b \in Message /\ b.id = w /\ b.ack = Num(g)
  <2>1. w \in 0 .. MaxMsgs
    BY SessionNat
  <2> QED BY <1>3, <1>5, <2>1 DEF Message
<1>7. m \in Seq(Message) /\ Len(m) = len + 1 /\ (\A i \in 1 .. len : m[i] = qe.msgs[i]) /\ m[len + 1] = b
  <2>1. qe.msgs \in Seq(Message) /\ b \in Message /\ Len(qe.msgs) = len
    BY <1>1, <1>5, <1>6
  <2> QED BY ONLY <1>4, <2>1, AppendProperties, len \in Nat
<1>8. r = [qe EXCEPT !.msgs = m]
  BY <1>0, <1>3, <1>4 DEF PushMsg
<1>9. r = [msgs |-> m, seq |-> qe.seq, ack |-> qe.ack, sent |-> qe.sent]
  BY ONLY <1>8, SetFields, Queue(qe, f, g, w) DEF Queue
<1>10. r \in QueueRec /\ r.msgs = m /\ r.seq = qe.seq /\ r.ack = qe.ack /\ r.sent = qe.sent
  BY ONLY <1>5, <1>7, <1>9 DEF QueueRec
<1>11. ASSUME NEW i \in 1 .. len + 1
       PROVE  m[i].id = f + i - 1 /\ \E x \in 0 .. g : m[i].ack = Num(x)
  <2>1. CASE i = len + 1
    <3>1. w = f + i - 1 /\ g \in 0 .. g
      BY <1>2, <2>1
    <3> QED BY <1>6, <1>7, <2>1, <3>1
  <2>2. CASE i <= len
    <3>1. i \in 1 .. len
      BY <2>2
    <3> QED BY <1>5, <1>7, <3>1
  <2> QED BY <2>1, <2>2
<1>12. f + (len + 1) = w1 /\ len + 1 <= QCap
  <2>1. f + len = w /\ w1 = w + 1 /\ len < QCap
    BY <1>2, w < w1, w1 <= w + 1
  <2> QED BY ONLY <2>1, SessionNat, f \in Nat, len \in Nat, w \in Nat
<1>13. qe.sent <= 2 * (len + 1)
  BY <1>5
<1>14. Queue(r, f, g, w1)
  BY <1>5, <1>7, <1>10, <1>11, <1>12, <1>13 DEF Queue
<1> QED BY <1>0, <1>10, <1>14 DEF Pos

LEMMA PushStep == ASSUME IInv, NEW e \in Ends, Push(e) PROVE IInv'
<1>1. PICK p \in Ends : p = Peer(e)
  BY Peers
<1>2. Typed /\ QueueInv(e)
  BY DEF IInv, EndInv
<1>3. /\ pushed[e] \in Nat /\ popped[e] \in Nat /\ First(e) \in Nat /\ SentTo(e) = Pos(q[e], First(e))
      /\ Queue(q[e], First(e), popped[e], pushed[e])
  BY <1>2, EndFacts DEF QueueInv
<1>4. PICK r : r = PushMsg(q[e], pushed[e])
  OBVIOUS
<1>5. /\ SendPending(e, r, sock, link, chan) /\ link' = link /\ sock[e] # "login"
      /\ pushed["c"] + pushed["s"] < MaxMsgs /\ Len(q[e].msgs) < QCap
      /\ pushed' = [pushed EXCEPT ![e] = @ + 1]
      /\ UNCHANGED <<last_server, opened, recvd, part, link, logins, rsp, popped>>
  BY <1>4, Zenon DEF Push, PushMsg
<1>6. SendPending(e, r, sock, link', chan)
  BY <1>5, Zenon
<1>7. PICK w \in Nat : w = pushed[e] + 1 /\ pushed[e] <= w
  BY <1>3
<1>8. pushed' = [pushed EXCEPT ![e] = w]
  BY <1>5, <1>7
<1>9. pushed'["c"] + pushed'["s"] <= MaxMsgs /\ pushed[e] < MaxMsgs
  <2>1. pushed["c"] \in Nat /\ pushed["s"] \in Nat /\ pushed \in [Ends -> Nat]
    BY <1>2 DEF Typed, Ends
  <2>2. CASE e = "c"
    <3>1. pushed'["c"] = pushed["c"] + 1 /\ pushed'["s"] = pushed["s"]
      BY <1>5, <2>1, <2>2 DEF Ends
    <3> QED BY <1>5, <2>1, <2>2, <3>1, SessionNat
  <2>3. CASE e = "s"
    <3>1. pushed'["s"] = pushed["s"] + 1 /\ pushed'["c"] = pushed["c"]
      BY <1>5, <2>1, <2>3 DEF Ends
    <3> QED BY <1>5, <2>1, <2>3, <3>1, SessionNat
  <2> QED BY <2>2, <2>3 DEF Ends
<1>10. Queue(r, First(e), popped[e], w) /\ Pos(r, First(e)) = Pos(q[e], First(e))
  <2>1. /\ Queue(q[e], First(e), popped[e], pushed[e]) /\ Len(q[e].msgs) < QCap /\ pushed[e] < MaxMsgs
        /\ pushed[e] < w /\ w <= pushed[e] + 1 /\ First(e) \in Nat /\ popped[e] \in Nat /\ pushed[e] \in Nat
    BY <1>3, <1>5, <1>7, <1>9
  <2> QED BY ONLY ZenonT(40), <1>4, <2>1, PushQueue, w \in Nat
<1>11. SentTo(e) = Pos(r, First(e))
  BY <1>3, <1>10
<1> QED BY ONLY IInv, e \in Ends, <1>1, <1>5, <1>6, <1>7, <1>8, <1>9, <1>10, <1>11, SendFrom

(* A heartbeat goes out when every block of the queue has.                  *)
LEMMA SendHBStep == ASSUME IInv, NEW e \in Ends, SendHB(e) PROVE IInv'
<1>1. PICK p \in Ends : p = Peer(e) /\ p # e /\ Peer(p) = e /\ \A x \in Ends : x = e \/ x = p
  BY Peers
<1>2. /\ Typed /\ LoginInv /\ QueueInv(e) /\ QueueInv(p) /\ RecvInv(e) /\ RecvInv(p)
      /\ ChanInv(e) /\ ChanInv(p) /\ AcksInv(e) /\ AcksInv(p)
      /\ Len(chan[e]) <= ChanCap /\ Len(chan[p]) <= ChanCap
  BY DEF IInv, EndInv
<1>3. /\ popped[e] \in Nat /\ popped[p] \in Nat /\ pushed[e] \in Nat /\ pushed[p] \in Nat
      /\ SentTo(e) \in Nat /\ SentTo(p) \in Nat /\ Base(p) \in Nat
  BY <1>2, EndFacts
<1>4. PICK b : b = [kind |-> "hb", id |-> 0, ack |-> q[e].ack]
  OBVIOUS
<1>5. /\ sock[e] = "open" /\ Unsent(q[e]) = 0 /\ link /\ Len(chan[p]) < ChanCap
      /\ chan' = [chan EXCEPT ![p] = Append(chan[p], b)]
      /\ UNCHANGED <<q, last_server, opened, sock, recvd, part, link, logins, rsp, pushed, popped>>
  BY <1>1, <1>4 DEF SendHB, files, conns
<1>6. b \in WireBlock /\ b.kind = "hb" /\ b.ack = Num(popped[e])
  <2>1. q[e] \in QueueRec /\ q[e].ack = Num(popped[e])
    BY <1>2 DEF QueueInv, Queue
  <2>2. q[e].ack \in SeqNum /\ 0 \in 0 .. MaxMsgs
    BY <2>1, QueueFields, SessionNat
  <2> QED BY <1>4, <2>1, <2>2 DEF WireBlock
<1>7. chan[p] \in Seq(WireBlock) /\ chan \in [Ends -> Seq(WireBlock)]
  BY <1>2 DEF Typed
<1>8. PICK t : t = Append(chan[p], b)
  OBVIOUS
<1>9. t \in Seq(WireBlock) /\ Len(t) <= ChanCap
  <2>1. t \in Seq(WireBlock) /\ Len(t) = Len(chan[p]) + 1 /\ Len(chan[p]) \in Nat
    BY ONLY <1>6, <1>7, <1>8, AppendProperties, LenProperties
  <2> QED BY <1>5, <2>1, SessionNat
<1>10. chan' \in [Ends -> Seq(WireBlock)] /\ chan'[p] = t /\ chan'[e] = chan[e]
  BY <1>1, <1>5, <1>7, <1>8, <1>9
<1>11. SentTo(e) = 2 * pushed[e]
  <2>1. PICK f \in Nat, len \in Nat, k \in Nat :
          f = First(e) /\ len = Len(q[e].msgs) /\ k = q[e].sent /\ f + len = pushed[e]
    BY <1>2, QueueFields DEF QueueInv, Queue
  <2>2. 2 * len - k = 0
    BY <1>5, <2>1 DEF Unsent
  <2>3. SentTo(e) = 2 * f + k
    BY <2>1 DEF SentTo
  <2>4. PICK w \in Nat : w = pushed[e] /\ f + len = w
    BY <1>3, <2>1
  <2>5. 2 * f + k = 2 * w
    <3>1. f + len = w /\ 2 * len - k = 0
      BY <2>2, <2>4
    <3> QED BY ONLY <3>1, f \in Nat, len \in Nat, k \in Nat, w \in Nat
  <2> QED BY <2>3, <2>4, <2>5
<1>12. Typed'
  BY <1>2, <1>5, <1>10 DEF Typed
<1>13. SentTo(e)' = SentTo(e) /\ SentTo(p)' = SentTo(p) /\ QueueInv(e)' /\ QueueInv(p)'
  BY <1>1, <1>2, <1>5, QueueKeep
<1>14. /\ \A x \in Ends : (Hears(x)' <=> Hears(x)) /\ Base(x)' = Base(x)
       /\ \A x \in Ends : Connected(x)' => Connected(x)
       /\ (Accepted' <=> Accepted)
  BY <1>5 DEF Hears, Accepted, Base, Pending, Connected
<1>15. RecvInv(e)' /\ RecvInv(p)'
  <2>1. pushed[p] <= pushed[p] /\ pushed[e] <= pushed[e]
    BY <1>3
  <2> QED BY <1>1, <1>2, <1>3, <1>5, <1>14, <2>1, RecvKeep
<1>16. ChanInv(e)'
  <2>1. pushed[p] <= pushed[p]
    BY <1>3
  <2> QED BY <1>1, <1>2, <1>3, <1>5, <1>10, <1>13, <1>14, <2>1, ChanKeep
<1>17. AcksInv(e)'
  <2>1. popped[p] <= popped[p] /\ SentTo(e) <= SentTo(e)
    BY <1>3
  <2> QED BY <1>1, <1>2, <1>3, <1>5, <1>10, <1>13, <1>14, <2>1, AcksKeep
<1>18. ChanInv(p)'
  <2> SUFFICES ASSUME Hears(p)
               PROVE  Run(t, Base(p), SentTo(e)) /\ SentTo(e) <= 2 * pushed[e]
    BY <1>1, <1>3, <1>5, <1>10, <1>13, <1>14 DEF ChanInv
  <2>1. Run(chan[p], Base(p), SentTo(e))
    BY <1>1, <1>2, <1>5 DEF ChanInv
  <2>2. Run(Append(chan[p], b), Base(p), SentTo(e))
    BY ONLY <1>3, <1>6, <1>7, <1>11, <2>1, RunHeartbeat
  <2> QED BY <1>3, <1>8, <1>11, <2>2
<1>19. AcksInv(p)'
  <2> SUFFICES ASSUME Hears(p)
               PROVE  /\ Acked(t, popped[e], 2 * popped[e])
                      /\ sock[p] = "open" => Acked(t, popped[e], SentTo(p))
    BY <1>1, <1>5, <1>10, <1>13, <1>14 DEF AcksInv
  <2>1. popped[e] \in 0 .. popped[e] /\ 2 * popped[e] <= 2 * popped[e] /\ 2 * popped[e] \in Nat
    BY <1>3
  <2>2. Acked(chan[p], popped[e], 2 * popped[e])
    BY <1>1, <1>2 DEF AcksInv
  <2>3. Acked(Append(chan[p], b), popped[e], 2 * popped[e])
    BY ONLY <1>3, <1>6, <1>7, <2>1, <2>2, AckedAppend
  <2>4. ASSUME sock[p] = "open" PROVE Acked(Append(chan[p], b), popped[e], SentTo(p))
    <3>1. Acked(chan[p], popped[e], SentTo(p))
      BY <1>1, <1>2, <2>4 DEF AcksInv
    <3>2. 2 * popped[e] <= SentTo(p)
      BY <1>1, <1>5, <2>4, PoppedSent
    <3> QED BY ONLY <1>3, <1>6, <1>7, <2>1, <3>1, <3>2, AckedAppend
  <2> QED BY <1>8, <2>3, <2>4
<1>20. \A x \in Ends : EndInv(x)'
  BY <1>1, <1>2, <1>9, <1>10, <1>13, <1>15, <1>16, <1>17, <1>18, <1>19 DEF EndInv
<1>21. Accepted => chan'["s"] = chan["s"]
  BY <1>1, <1>5, <1>10 DEF Accepted, Ends
<1>22. LoginInv'
  BY <1>2, <1>5, <1>14, <1>21 DEF LoginInv, Connected
<1> QED BY <1>12, <1>20, <1>22 DEF IInv

(* The queue after MyAck has been incremented.                              *)
LEMMA PopQueue ==
    ASSUME NEW qe, NEW f \in Nat, NEW g \in Nat, NEW w \in Nat, Queue(qe, f, g, w),
           NEW g1 \in Nat, g < g1, g1 <= g + 1, NEW r, r = [qe EXCEPT !.ack = Inc(@)]
    PROVE  Queue(r, f, g1, w) /\ r.msgs = qe.msgs /\ r.sent = qe.sent
<1>1. g1 = g + 1 /\ g \in Int
  OBVIOUS
<1>2. qe \in QueueRec /\ qe.ack = Num(g)
  BY DEF Queue
<1>3. Inc(qe.ack) = Num(g1) /\ Num(g1) \in SeqNum
  BY <1>1, <1>2, NumInc, NumType
<1>4. r = [qe EXCEPT !.ack = Num(g1)]
  BY <1>3
<1>5. r = [msgs |-> qe.msgs, seq |-> qe.seq, ack |-> Num(g1), sent |-> qe.sent]
  BY ONLY <1>2, <1>4, SetFields
<1>6. qe.msgs \in Seq(Message) /\ qe.seq \in SeqNum /\ qe.sent \in Nat
  BY <1>2, QueueFields
<1>7. r \in QueueRec /\ r.msgs = qe.msgs /\ r.seq = qe.seq /\ r.ack = Num(g1) /\ r.sent = qe.sent
  BY ONLY <1>3, <1>5, <1>6 DEF QueueRec
<1>8. ASSUME NEW i \in 1 .. Len(qe.msgs) PROVE \E a \in 0 .. g1 : qe.msgs[i].ack = Num(a)
  <2>1. PICK a \in 0 .. g : qe.msgs[i].ack = Num(a)
    BY DEF Queue
  <2>2. a \in 0 .. g1
    BY <1>1
  <2> QED BY <2>1, <2>2
<1> QED BY <1>7, <1>8 DEF Queue

(* A message leaves the receive buffer and counts as popped.                *)
LEMMA PopStep == ASSUME IInv, NEW e \in Ends, Pop(e) PROVE IInv'
<1>1. PICK p \in Ends : p = Peer(e) /\ p # e /\ Peer(p) = e /\ \A x \in Ends : x = e \/ x = p
  BY Peers
<1>2. /\ Typed /\ LoginInv /\ QueueInv(e) /\ QueueInv(p) /\ RecvInv(e) /\ RecvInv(p)
      /\ ChanInv(e) /\ ChanInv(p) /\ AcksInv(e) /\ AcksInv(p)
      /\ Len(chan[e]) <= ChanCap /\ Len(chan[p]) <= ChanCap
  BY DEF IInv, EndInv
<1>3. /\ popped[e] \in Nat /\ popped[p] \in Nat /\ pushed[e] \in Nat /\ pushed[p] \in Nat
      /\ First(e) \in Nat /\ First(p) \in Nat /\ SentTo(e) \in Nat /\ SentTo(p) \in Nat
      /\ Pending(e) \in {0, 1}
  BY <1>2, EndFacts
<1>4. /\ Connected(e) /\ recvd[e] # <<>> /\ recvd' = [recvd EXCEPT ![e] = Tail(recvd[e])]
      /\ q' = [q EXCEPT ![e] = [q[e] EXCEPT !.ack = Inc(@)]]
      /\ popped' = [popped EXCEPT ![e] = popped[e] + 1]
      /\ UNCHANGED <<last_server, opened, sock, part, link, chan, logins, rsp, pushed>>
  BY DEF Pop, Connected, net
<1>a. PICK t : t = Tail(recvd[e])
  OBVIOUS
<1>5. PICK l \in Nat : /\ t \in Seq(WireBlock) /\ l = Len(t)
                       /\ Len(recvd[e]) = l + 1 /\ \A i \in 1 .. l : t[i] = recvd[e][i + 1]
  <2>1. recvd[e] \in Seq(WireBlock)
    BY <1>2 DEF Typed
  <2>2. /\ t \in Seq(WireBlock) /\ Len(t) = Len(recvd[e]) - 1
        /\ \A i \in 1 .. Len(t) : t[i] = recvd[e][i + 1]
    BY ONLY <1>4, <1>a, <2>1, HeadTailProperties
  <2>3. Len(recvd[e]) \in Nat /\ Len(t) \in Nat
    BY ONLY <2>1, <2>2, LenProperties
  <2>4. Len(recvd[e]) = Len(t) + 1
    BY ONLY <2>2, <2>3
  <2> QED BY ONLY <2>2, <2>3, <2>4
<1>6. PICK g \in Nat : g = popped[e] + 1 /\ popped[e] < g /\ g <= popped[e] + 1 /\ popped[e] <= g
  BY <1>3
<1>7. popped'[e] = g /\ popped'[p] = popped[p] /\ popped' \in [Ends -> Nat]
  BY <1>1, <1>2, <1>4, <1>6 DEF Typed
<1>8. PICK r : r = [q[e] EXCEPT !.ack = Inc(@)]
  OBVIOUS
<1>9. Queue(r, First(e), g, pushed[e]) /\ r.msgs = q[e].msgs /\ r.sent = q[e].sent
  <2>1. Queue(q[e], First(e), popped[e], pushed[e])
    BY <1>2 DEF QueueInv
  <2> QED BY ONLY <1>3, <1>6, <1>8, <2>1, PopQueue
<1>10. q' \in [Ends -> QueueRec] /\ q'[e] = r /\ q'[p] = q[p]
  <2>1. q \in [Ends -> QueueRec] /\ r \in QueueRec
    BY <1>2, <1>9 DEF Typed, Queue
  <2> QED BY <1>1, <1>4, <1>8, <2>1
<1>11. /\ First(e)' = First(e) /\ SentTo(e)' = SentTo(e)
       /\ First(p)' = First(p) /\ SentTo(p)' = SentTo(p)
  BY <1>4, <1>9, <1>10 DEF First, SentTo
<1>12. recvd' \in [Ends -> Seq(WireBlock)] /\ recvd'[e] = t /\ recvd'[p] = recvd[p]
  BY <1>1, <1>2, <1>4, <1>a, <1>5 DEF Typed
<1>13. Typed'
  BY <1>2, <1>4, <1>7, <1>10, <1>12 DEF Typed
<1>14. QueueInv(e)'
  <2>1. First(e) <= popped[p] /\ popped[p] <= pushed[e]
    BY <1>1, <1>2 DEF QueueInv
  <2> QED BY <1>1, <1>3, <1>4, <1>7, <1>9, <1>10, <1>11, <2>1 DEF QueueInv
<1>15. /\ \A i \in 1 .. l + 1 : recvd[e][i].id = popped[e] + i - 1
       /\ part[e] # None => part[e].id = popped[e] + (l + 1)
       /\ 2 * (popped[e] + (l + 1)) + Pending(e) <= 2 * pushed[p]
  BY <1>1, <1>2, <1>4, <1>5 DEF RecvInv
<1>16. Pending(e)' = Pending(e) /\ g + l = popped[e] + (l + 1)
  <2>1. Pending(e)' = Pending(e)
    BY <1>4 DEF Pending
  <2>2. g + l = popped[e] + (l + 1)
    BY <1>3, <1>6
  <2> QED BY <2>1, <2>2
<1>17. QueueInv(p)'
  <2>1. First(p) <= popped[e] /\ Queue(q[p], First(p), popped[p], pushed[p])
    BY <1>1, <1>2 DEF QueueInv
  <2>2. g <= pushed[p]
    <3>1. PICK k \in {0, 1} : 2 * (popped[e] + (l + 1)) + k <= 2 * pushed[p]
      BY <1>3, <1>15
    <3>2. popped[e] + 1 <= pushed[p]
      BY ONLY <1>3, <3>1, l \in Nat
    <3> QED BY <1>6, <3>2
  <2>3. First(p) <= g
    BY <1>3, <1>6, <2>1
  <2> QED BY <1>1, <1>3, <1>4, <1>7, <1>10, <1>11, <2>1, <2>2, <2>3 DEF QueueInv
<1>18. RecvInv(e)'
  <2>1. ASSUME NEW i \in 1 .. l PROVE t[i].id = g + i - 1
    <3>1. i + 1 \in 1 .. l + 1 /\ popped[e] + (i + 1) - 1 = g + i - 1
      BY <1>3, <1>6
    <3> QED BY <1>5, <1>15, <3>1
  <2>2. part[e] # None => part[e].id = g + l
    BY <1>15, <1>16
  <2>3. 2 * (g + l) + Pending(e) <= 2 * pushed[p]
    BY <1>15, <1>16
  <2> QED BY <1>1, <1>4, <1>5, <1>7, <1>12, <1>16, <2>1, <2>2, <2>3 DEF RecvInv
<1>19. RecvInv(p)'
  <2>1. Connected(p)' => Connected(p)
    BY <1>4 DEF Connected
  <2>2. pushed[e] <= pushed[e]
    BY <1>3
  <2> QED BY <1>1, <1>2, <1>3, <1>4, <1>7, <1>12, <2>1, <2>2, RecvKeep
<1>20. ~Accepted /\ ~Accepted'
  <2>1. CASE e = "c"
    BY <1>4, <2>1 DEF Accepted, Connected
  <2>2. CASE e = "s"
    BY <1>2, <1>4, <2>2 DEF LoginInv, Accepted
  <2> QED BY <2>1, <2>2 DEF Ends
<1>21. \A x \in Ends : (Hears(x)' => Hears(x) /\ sock[x] = "open") /\ sock'[x] = sock[x]
  BY <1>4, <1>20 DEF Hears
<1>22. ChanInv(e)'
  <2>1. Base(e)' = Base(e) \/ ~Hears(e)'
    <3>1. ASSUME sock[e] = "open" PROVE Base(e)' = Base(e)
      <4>1. Base(e) = 2 * (popped[e] + (l + 1)) + Pending(e)
        BY <1>5, <3>1 DEF Base
      <4>2. Base(e)' = 2 * (g + l) + Pending(e)
        BY <1>4, <1>5, <1>7, <1>12, <1>16, <3>1 DEF Base
      <4> QED BY <1>16, <4>1, <4>2
    <3> QED BY <1>21, <3>1
  <2>2. pushed[p] <= pushed[p]
    BY <1>3
  <2> QED BY <1>1, <1>2, <1>3, <1>4, <1>11, <1>21, <2>1, <2>2, ChanKeep
<1>23. ChanInv(p)'
  <2>1. Base(p)' = Base(p)
    BY <1>4, <1>7, <1>12 DEF Base, Pending
  <2>2. pushed[e] <= pushed[e]
    BY <1>3
  <2> QED BY <1>1, <1>2, <1>3, <1>4, <1>11, <1>21, <2>1, <2>2, ChanKeep
<1>24. AcksInv(e)' /\ AcksInv(p)'
  <2>1. popped[p] <= popped[p] /\ SentTo(e) <= SentTo(e) /\ SentTo(p) <= SentTo(p)
    BY <1>3
  <2>2. AcksInv(e)'
    BY <1>1, <1>2, <1>3, <1>4, <1>7, <1>11, <1>21, <2>1, AcksKeep
  <2>3. AcksInv(p)'
    BY <1>1, <1>2, <1>3, <1>4, <1>6, <1>7, <1>11, <1>21, <2>1, AcksKeep
  <2> QED BY <2>2, <2>3
<1>25. \A x \in Ends : EndInv(x)'
  BY <1>1, <1>2, <1>4, <1>14, <1>17, <1>18, <1>19, <1>22, <1>23, <1>24 DEF EndInv
<1>26. LoginInv'
  <2>1. popped["c"] \in Nat /\ popped'["c"] \in Nat /\ popped["c"] <= popped'["c"]
    BY <1>1, <1>3, <1>6, <1>7 DEF Ends
  <2>2. ASSUME NEW m \in logins PROVE \E a \in 0 .. popped'["c"] : m.ack = Num(a)
    <3>1. PICK a \in 0 .. popped["c"] : m.ack = Num(a)
      BY <1>2 DEF LoginInv
    <3>2. a \in 0 .. popped'["c"]
      BY <2>1
    <3> QED BY <3>1, <3>2
  <2>3. CASE e = "c"
    <3>1. \A m \in logins : ~m.mine
      BY <1>2, <1>4, <2>3 DEF LoginInv, Connected
    <3> QED BY <1>2, <1>4, <1>20, <2>2, <3>1 DEF LoginInv, Connected
  <2>4. CASE e = "s"
    <3>1. q'["c"] = q["c"]
      BY <1>1, <1>10, <2>4 DEF Ends
    <3> QED BY <1>2, <1>4, <1>20, <2>2, <3>1 DEF LoginInv, Connected
  <2> QED BY <2>3, <2>4 DEF Ends
<1> QED BY <1>13, <1>25, <1>26 DEF IInv

\* The number of the message that the next header or body belongs to.
NextId(e) == popped[e] + Len(recvd[e])

(* The first block on its way is the one that the receive buffer needs.     *)
LEMMA FrontBlock ==
    ASSUME IInv, NEW e \in Ends, NEW p \in Ends, p = Peer(e), sock[e] = "open", chan[e] # <<>>,
           NEW b, b = Head(chan[e])
    PROVE  /\ b \in WireBlock /\ Tail(chan[e]) \in Seq(WireBlock) /\ Len(Tail(chan[e])) <= ChanCap
           /\ NextId(e) \in Nat /\ Base(e) = 2 * NextId(e) + Pending(e)
           /\ b.kind # "body" => \E a \in 0 .. popped[p] : b.ack = Num(a) /\ 2 * a <= SentTo(e)
           /\ b.kind = "body" <=> Pending(e) = 1
           /\ b.kind # "hb" => b.id = NextId(e)
           /\ \E mid \in Nat, hi \in Nat :
                /\ Run(Tail(chan[e]), mid, hi) /\ mid <= hi /\ hi <= 2 * pushed[p]
                /\ link /\ sock[p] = "open" => hi = SentTo(p)
                /\ b.kind = "hb" => mid = 2 * NextId(e) + Pending(e)
                /\ b.kind # "hb" => mid = 2 * NextId(e) + Pending(e) + 1
<1>1. Typed /\ QueueInv(e) /\ ChanInv(e) /\ AcksInv(e) /\ Len(chan[e]) <= ChanCap /\ Hears(e)
  BY DEF IInv, EndInv, Hears
<1>2. PICK s : s = chan[e]
  OBVIOUS
<1>3. s \in Seq(WireBlock) /\ s # <<>> /\ b = Head(s) /\ Len(s) <= ChanCap
  BY <1>1, <1>2 DEF Typed
<1>4. /\ Tail(s) \in Seq(WireBlock) /\ Len(Tail(s)) <= ChanCap
      /\ Len(s) \in Nat /\ Len(s) # 0 /\ b = s[1] /\ b \in WireBlock
  <2>1. Tail(s) \in Seq(WireBlock) /\ Len(Tail(s)) = Len(s) - 1 /\ Head(s) \in WireBlock
    BY ONLY <1>3, HeadTailProperties
  <2>2. Len(s) \in Nat /\ Len(s) # 0
    BY ONLY <1>3, LenProperties, EmptySeq
  <2>3. Len(Tail(s)) <= ChanCap
    BY ONLY <1>3, <2>1, <2>2, SessionNat
  <2> QED BY <1>3, <2>1, <2>2, <2>3
<1>5. PICK n \in Nat : n = NextId(e)
  <2>1. popped[e] \in Nat /\ Len(recvd[e]) \in Nat
    BY <1>1, EndFacts
  <2> QED BY <2>1 DEF NextId
<1>6. PICK k \in {0, 1} : k = Pending(e)
  BY DEF Pending
<1>7. Base(e) = 2 * n + k
  BY <1>5, <1>6 DEF Base, NextId
<1>8. ASSUME b.kind # "body" PROVE \E a \in 0 .. popped[p] : b.ack = Num(a) /\ 2 * a <= SentTo(e)
  <2>1. Acked(s, popped[p], SentTo(e))
    BY <1>1, <1>2 DEF AcksInv
  <2>2. 1 \in 1 .. Len(s)
    BY <1>4
  <2> QED BY <1>4, <1>8, <2>1, <2>2 DEF Acked
<1>9. PICK hi \in Nat : /\ Run(s, Base(e), hi) /\ hi <= 2 * pushed[p]
                        /\ link /\ sock[p] = "open" => hi = SentTo(p)
  BY <1>1, <1>2 DEF ChanInv
<1>10. PICK lo \in Nat : lo = Base(e) /\ lo = 2 * n + k
  BY <1>7
<1>11. PICK mid \in Nat :
             /\ Run(Tail(s), mid, hi)
             /\ b.kind = "header" => lo = 2 * b.id /\ mid = lo + 1
             /\ b.kind = "body" => lo = 2 * b.id + 1 /\ mid = lo + 1
             /\ b.kind = "hb" => mid = lo /\ \E m \in Nat : lo = 2 * m
  <2>1. Run(s, lo, hi)
    BY <1>9, <1>10
  <2> QED BY ONLY <1>3, <2>1, RunTail
<1>12. mid <= hi
  BY <1>4, <1>11, RunOrder
<1>13. b.kind \in {"header", "body", "hb"} /\ b.id \in Nat
  BY <1>4 DEF WireBlock
<1>14. lo = 2 * n + k
  BY <1>10
<1>15. CASE b.kind = "header"
  <2>1. PICK i \in Nat : i = b.id
    BY <1>13
  <2>2. lo = 2 * i /\ mid = lo + 1
    BY <1>11, <1>15, <2>1
  <2>3. k = 0 /\ i = n /\ mid = 2 * n + k + 1
    BY ONLY <1>14, <2>2, i \in Nat, n \in Nat, k \in {0, 1}
  <2> QED BY SMTT(30), <1>2, <1>4, <1>5, <1>6, <1>7, <1>8, <1>9, <1>11, <1>12, <1>15, <2>1, <2>3
<1>16. CASE b.kind = "body"
  <2>1. PICK i \in Nat : i = b.id
    BY <1>13
  <2>2. lo = 2 * i + 1 /\ mid = lo + 1
    BY <1>11, <1>16, <2>1
  <2>3. k = 1 /\ i = n /\ mid = 2 * n + k + 1
    BY ONLY <1>14, <2>2, i \in Nat, n \in Nat, k \in {0, 1}
  <2> QED BY <1>2, <1>4, <1>5, <1>6, <1>7, <1>8, <1>9, <1>11, <1>12, <1>16, <2>1, <2>3
<1>17. CASE b.kind = "hb"
  <2>1. PICK i \in Nat : lo = 2 * i
    BY <1>11, <1>17
  <2>2. mid = lo
    BY <1>11, <1>17
  <2>3. k = 0 /\ mid = 2 * n + k
    BY ONLY <1>14, <2>1, <2>2, i \in Nat, n \in Nat, k \in {0, 1}
  <2> QED BY SMTT(30), <1>2, <1>4, <1>5, <1>6, <1>7, <1>8, <1>9, <1>11, <1>12, <1>17, <2>3
<1> QED BY <1>13, <1>15, <1>16, <1>17

(* What Front leaves alone, once the reading end is right.                  *)
LEMMA FrontEnds ==
    ASSUME IInv, NEW e \in Ends, NEW p \in Ends, p = Peer(e), sock[e] = "open", chan[e] # <<>>,
           chan' = [chan EXCEPT ![e] = Tail(chan[e])],
           UNCHANGED <<last_server, opened, sock, link, logins, rsp, pushed, popped>>,
           q' \in [Ends -> QueueRec], q'[p] = q[p], QueueInv(e)', SentTo(e)' = SentTo(e),
           recvd' \in [Ends -> Seq(WireBlock)], recvd'[p] = recvd[p],
           part' \in [Ends -> WireBlock \cup {None}], part'[p] = part[p],
           RecvInv(e)', ChanInv(e)'
    PROVE  IInv'
<1>1. /\ Typed /\ LoginInv /\ QueueInv(e) /\ QueueInv(p) /\ RecvInv(p)
      /\ ChanInv(p) /\ AcksInv(e) /\ AcksInv(p)
      /\ Len(chan[e]) <= ChanCap /\ Len(chan[p]) <= ChanCap
  BY DEF IInv, EndInv
<1>2. p # e /\ Peer(p) = e /\ \A x \in Ends : x = e \/ x = p
  BY Peers
<1>3. /\ popped[e] \in Nat /\ popped[p] \in Nat /\ pushed[e] \in Nat /\ pushed[p] \in Nat
      /\ SentTo(e) \in Nat /\ SentTo(p) \in Nat
  BY <1>1, EndFacts
<1>4. Tail(chan[e]) \in Seq(WireBlock) /\ Len(Tail(chan[e])) <= ChanCap
  BY FrontBlock
<1>5. chan' \in [Ends -> Seq(WireBlock)] /\ chan'[e] = Tail(chan[e]) /\ chan'[p] = chan[p]
  BY <1>1, <1>2, <1>4 DEF Typed
<1>6. Typed'
  BY <1>1, <1>5 DEF Typed
<1>7. QueueInv(p)' /\ SentTo(p)' = SentTo(p)
  BY <1>1, <1>2, QueueKeep
<1>8. /\ Base(p)' = Base(p) /\ (Connected(p)' => Connected(p)) /\ (Accepted' <=> Accepted)
      /\ (Hears(p)' => Hears(p)) /\ (Hears(e)' => Hears(e))
  BY DEF Base, Pending, Connected, Accepted, Hears
<1>9. pushed[e] <= pushed[e] /\ popped[e] <= popped[e] /\ SentTo(p) <= SentTo(p)
  BY <1>3
<1>10. RecvInv(p)'
  BY <1>1, <1>2, <1>3, <1>8, <1>9, RecvKeep
<1>11. ChanInv(p)'
  BY <1>1, <1>2, <1>3, <1>5, <1>8, <1>9, ChanKeep
<1>12. AcksInv(p)'
  BY <1>1, <1>2, <1>3, <1>5, <1>7, <1>8, <1>9, AcksKeep
<1>13. AcksInv(e)'
  <2>1. chan[e] \in Seq(WireBlock) /\ Hears(e)
    BY <1>1 DEF Typed, Hears
  <2>2. /\ Acked(chan[e], popped[p], 2 * popped[p])
        /\ Acked(chan[e], popped[p], SentTo(e))
    BY <1>1, <2>1 DEF AcksInv
  <2>3. /\ Acked(Tail(chan[e]), popped[p], 2 * popped[p])
        /\ Acked(Tail(chan[e]), popped[p], SentTo(e))
    BY ONLY <2>1, <2>2, AckedTail, chan[e] # <<>>
  <2> QED BY <1>5, <2>3 DEF AcksInv
<1>14. \A x \in Ends : EndInv(x)'
  BY <1>1, <1>2, <1>4, <1>5, <1>7, <1>10, <1>11, <1>12, <1>13 DEF EndInv
<1>15. ~Accepted
  BY <1>1 DEF LoginInv, Accepted, Ends
<1>16. e = "c" => \A m \in logins : ~m.mine
  BY <1>1 DEF LoginInv
<1>17. e # "c" => q'["c"] = q["c"]
  BY <1>2 DEF Ends
<1>18. LoginInv'
  BY <1>1, <1>8, <1>15, <1>16, <1>17 DEF LoginInv, Connected
<1> QED BY <1>6, <1>14, <1>18 DEF IInv

(* An ack drops the messages that the peer has popped from the queue.       *)
LEMMA FrontAck ==
    ASSUME IInv, NEW e \in Ends, NEW p \in Ends, p = Peer(e),
           NEW a \in 0 .. popped[p], 2 * a <= SentTo(e), NEW n, n = Num(a),
           q' = [q EXCEPT ![e] = Ack(q[e], n)], UNCHANGED <<pushed, popped>>
    PROVE  QueueInv(e)' /\ SentTo(e)' = SentTo(e) /\ q' \in [Ends -> QueueRec] /\ q'[p] = q[p]
<1>1. Typed /\ QueueInv(e) /\ QueueInv(p) /\ p # e
  BY Peers DEF IInv, EndInv
<1>2. PICK f \in Nat, g \in Nat, w \in Nat, h \in Nat :
        /\ f = First(e) /\ g = popped[e] /\ w = pushed[e] /\ h = popped[p]
        /\ Queue(q[e], f, g, w) /\ f <= h /\ h <= w /\ w <= MaxMsgs
        /\ SentTo(e) = Pos(q[e], f)
  <2>1. /\ First(e) \in Nat /\ popped[e] \in Nat /\ pushed[e] \in Nat /\ popped[p] \in Nat
        /\ pushed[e] <= MaxMsgs /\ SentTo(e) = Pos(q[e], First(e))
    BY <1>1, EndFacts
  <2> QED BY <1>1, <2>1 DEF QueueInv
<1>3. a \in Nat /\ a <= h /\ a <= w /\ 2 * a <= Pos(q[e], f)
  BY <1>2
<1>4. PICK r : r = Ack(q[e], n)
  OBVIOUS
<1>5. PICK f2 \in Nat : /\ Queue(r, f2, g, w)
                        /\ (a <= f => f2 = f) /\ (a > f => f2 = a)
                        /\ Pos(r, f2) = Pos(q[e], f)
  <2>1. Queue(q[e], f, g, w) /\ w <= MaxMsgs
    BY <1>2
  <2>2. \E y \in Nat : /\ Queue(Ack(q[e], Num(a)), y, g, w)
                       /\ (a <= f => y = f) /\ (a > f => y = a)
                       /\ Pos(Ack(q[e], Num(a)), y) = Pos(q[e], f)
    BY ONLY <1>3, <2>1, AckQueue, f \in Nat, g \in Nat, w \in Nat
  <2> QED BY <1>4, <2>2
<1>6. q' \in [Ends -> QueueRec] /\ q'[e] = r /\ q'[p] = q[p]
  <2>1. q \in [Ends -> QueueRec] /\ r \in QueueRec
    BY <1>1, <1>5 DEF Typed, Queue
  <2> QED BY <1>1, <1>4, <2>1
<1>7. First(e)' = f2
  <2>1. PICK len \in Nat : len = Len(r.msgs) /\ f2 + len = w
    BY <1>5, QueueFields DEF Queue
  <2>2. w - len = f2
    <3>1. f2 + len = w
      BY <2>1
    <3> QED BY ONLY <3>1, f2 \in Nat, w \in Nat, len \in Nat
  <2> QED BY <1>2, <1>6, <2>1, <2>2 DEF First
<1>8. SentTo(e)' = SentTo(e)
  BY <1>2, <1>5, <1>6, <1>7 DEF SentTo, Pos
<1>9. f2 <= h
  <2>1. f <= h /\ a <= h /\ (a <= f => f2 = f) /\ (a > f => f2 = a)
    BY <1>2, <1>3, <1>5
  <2> QED BY ONLY <2>1, <1>3, f \in Nat, f2 \in Nat, h \in Nat
<1>10. QueueInv(e)'
  BY <1>2, <1>5, <1>6, <1>7, <1>9 DEF QueueInv
<1> QED BY <1>6, <1>8, <1>10

(* Front takes a header or a heartbeat, with its ack, or a body.            *)
LEMMA FrontStep == ASSUME IInv, NEW e \in Ends, Front(e) PROVE IInv'
<1>1. PICK p \in Ends : p = Peer(e) /\ p # e
  BY Peers
<1>2. PICK b : b = Head(chan[e])
  OBVIOUS
<1>3. /\ sock[e] = "open" /\ chan[e] # <<>> /\ chan' = [chan EXCEPT ![e] = Tail(chan[e])]
      /\ UNCHANGED <<last_server, opened, sock, link, logins, rsp, pushed, popped>>
  BY DEF Front
<1>4. /\ Typed /\ QueueInv(e) /\ RecvInv(e)
  BY DEF IInv, EndInv
<1>5. /\ recvd \in [Ends -> Seq(WireBlock)] /\ part \in [Ends -> WireBlock \cup {None}]
      /\ q \in [Ends -> QueueRec] /\ chan \in [Ends -> Seq(WireBlock)] /\ popped[e] \in Nat
      /\ pushed[p] \in Nat /\ recvd[e] \in Seq(WireBlock)
  BY <1>4 DEF Typed
<1>6. /\ b \in WireBlock
      /\ NextId(e) \in Nat /\ Base(e) = 2 * NextId(e) + Pending(e)
      /\ b.kind # "body" => \E a \in 0 .. popped[p] : b.ack = Num(a) /\ 2 * a <= SentTo(e)
      /\ b.kind = "body" <=> Pending(e) = 1
      /\ b.kind # "hb" => b.id = NextId(e)
  BY SMTT(30), <1>1, <1>2, <1>3, FrontBlock
<1>7. PICK mid \in Nat, hi \in Nat :
        /\ Run(Tail(chan[e]), mid, hi) /\ mid <= hi /\ hi <= 2 * pushed[p]
        /\ link /\ sock[p] = "open" => hi = SentTo(p)
        /\ b.kind = "hb" => mid = 2 * NextId(e) + Pending(e)
        /\ b.kind # "hb" => mid = 2 * NextId(e) + Pending(e) + 1
  BY SMTT(30), <1>1, <1>2, <1>3, FrontBlock
<1>8. PICK n \in Nat, len \in Nat : n = NextId(e) /\ len = Len(recvd[e]) /\ popped[e] + len = n
  <2>1. Len(recvd[e]) \in Nat
    BY <1>5, LenProperties
  <2> QED BY <1>6, <2>1 DEF NextId
<1>9. /\ \A i \in 1 .. len : recvd[e][i].id = popped[e] + i - 1
      /\ part[e] # None => part[e].id = n
  BY <1>3, <1>4, <1>8 DEF RecvInv, Connected
<1>10. mid <= 2 * pushed[p]
  BY <1>5, <1>7
<1>11. Pending(e) \in {0, 1} /\ (Pending(e) = 1 <=> part[e] # None)
  BY DEF Pending
<1>12. chan'[e] = Tail(chan[e]) /\ Connected(e)' /\ sock'[e] = "open"
  BY <1>3, <1>5 DEF Connected
(* The stream goes on from the new position. *)
<1>13. ASSUME Base(e)' = mid, SentTo(p)' = SentTo(p) PROVE ChanInv(e)'
  <2> SUFFICES \E h \in Nat : /\ Run(chan'[e], Base(e)', h)
                              /\ h <= 2 * pushed'[p]
                              /\ link' /\ sock'[p] = "open" => h = SentTo(p)'
    BY <1>1 DEF ChanInv
  <2> QED BY <1>3, <1>7, <1>12, <1>13
<1>14. ASSUME q'[p] = q[p] PROVE SentTo(p)' = SentTo(p)
  BY <1>3, <1>14 DEF SentTo, First
<1>15. CASE b.kind # "body"
  <2>1. /\ q' = [q EXCEPT ![e] = Ack(q[e], b.ack)] /\ recvd' = recvd
        /\ part' = IF b.kind = "header" THEN [part EXCEPT ![e] = b] ELSE part
    BY <1>2, <1>15 DEF Front
  <2>2. QueueInv(e)' /\ SentTo(e)' = SentTo(e) /\ q' \in [Ends -> QueueRec] /\ q'[p] = q[p]
    <3>1. PICK a \in 0 .. popped[p] : b.ack = Num(a) /\ 2 * a <= SentTo(e)
      BY <1>6, <1>15
    <3> QED BY ONLY IInv, e \in Ends, <1>1, <1>3, <2>1, <3>1, FrontAck
  <2>3. Pending(e) = 0 /\ part[e] = None
    BY <1>6, <1>11, <1>15
  <2>4. CASE b.kind = "header"
    <3>1. part' = [part EXCEPT ![e] = b]
      BY <2>1, <2>4
    <3>2. part' \in [Ends -> WireBlock \cup {None}] /\ part'[e] = b /\ part'[p] = part[p]
      BY <1>1, <1>5, <1>6, <3>1
    <3>3. b # None
      BY SMTT(30), <1>6 DEF WireBlock, None
    <3>4. Pending(e)' = 1
      BY <3>2, <3>3 DEF Pending
    <3>5. mid = 2 * n + 1
      BY <1>7, <1>8, <2>3, <2>4
    <3>6. Base(e)' = mid
      BY <1>3, <1>8, <1>12, <2>1, <3>4, <3>5 DEF Base
    <3>7. RecvInv(e)'
      <4>1. b.id = n /\ 2 * n + 1 <= 2 * pushed[p]
        BY <1>6, <1>8, <1>10, <2>4, <3>5
      <4> QED BY <1>1, <1>3, <1>8, <1>9, <2>1, <3>2, <3>4, <4>1 DEF RecvInv
    <3>8. ChanInv(e)'
      BY <1>13, <1>14, <2>2, <3>6
    <3> QED BY <1>1, <1>3, <1>5, <2>1, <2>2, <3>2, <3>7, <3>8, FrontEnds
  <2>5. CASE b.kind # "header"
    <3>1. part' = part /\ b.kind = "hb"
      BY <1>6, <1>15, <2>1, <2>5 DEF WireBlock
    <3>2. Pending(e)' = 0 /\ part'[e] = None
      BY <2>3, <3>1 DEF Pending
    <3>3. mid = 2 * n + 0
      BY <1>7, <1>8, <2>3, <3>1
    <3>4. Base(e)' = mid
      BY <1>3, <1>8, <1>12, <2>1, <3>2, <3>3 DEF Base
    <3>5. RecvInv(e)'
      <4>1. 2 * n + 0 <= 2 * pushed[p]
        BY <1>10, <3>3
      <4> QED BY <1>1, <1>3, <1>8, <1>9, <2>1, <3>2, <4>1 DEF RecvInv
    <3>6. ChanInv(e)'
      BY <1>13, <1>14, <2>2, <3>4
    <3> QED BY <1>1, <1>3, <1>5, <2>1, <2>2, <3>1, <3>5, <3>6, FrontEnds
  <2> QED BY <2>4, <2>5
<1>16. CASE b.kind = "body"
  <2>1. /\ recvd' = [recvd EXCEPT ![e] = Append(recvd[e], part[e])]
        /\ part' = [part EXCEPT ![e] = None] /\ q' = q
    BY <1>2, <1>16 DEF Front
  <2>2. Pending(e) = 1 /\ part[e] # None /\ part[e].id = n /\ part[e] \in WireBlock
    BY <1>5, <1>6, <1>9, <1>11, <1>16
  <2>3. PICK t : t = Append(recvd[e], part[e])
    OBVIOUS
  <2>4. /\ t \in Seq(WireBlock) /\ Len(t) = len + 1
        /\ (\A i \in 1 .. len : t[i] = recvd[e][i]) /\ t[len + 1] = part[e]
    BY ONLY <1>5, <1>8, <2>2, <2>3, AppendProperties
  <2>5. /\ recvd' \in [Ends -> Seq(WireBlock)] /\ recvd'[e] = t /\ recvd'[p] = recvd[p]
        /\ part' \in [Ends -> WireBlock \cup {None}] /\ part'[e] = None /\ part'[p] = part[p]
    BY <1>1, <1>5, <2>1, <2>3, <2>4
  <2>6. Pending(e)' = 0
    BY <2>5 DEF Pending
  <2>7. mid = 2 * (popped[e] + (len + 1)) + 0
    <3>1. mid = 2 * n + 1 + 1
      BY <1>7, <1>8, <1>16, <2>2
    <3>2. popped[e] + len = n
      BY <1>8
    <3>3. PICK g \in Nat : g = popped[e]
      BY <1>5
    <3>4. g + len = n
      BY <3>2, <3>3
    <3>5. mid = 2 * (g + (len + 1)) + 0
      BY ONLY <3>1, <3>4, g \in Nat, n \in Nat, len \in Nat
    <3> QED BY <3>3, <3>5
  <2>8. Base(e)' = mid
    BY <1>3, <1>12, <2>4, <2>5, <2>6, <2>7 DEF Base
  <2>9. RecvInv(e)'
    <3>1. ASSUME NEW i \in 1 .. len + 1 PROVE t[i].id = popped[e] + i - 1
      <4>1. CASE i = len + 1
        <5>1. n = popped[e] + i - 1
          BY <1>5, <1>8, <4>1
        <5> QED BY <2>2, <2>4, <4>1, <5>1
      <4>2. CASE i <= len
        <5>1. i \in 1 .. len
          BY <4>2
        <5> QED BY <1>9, <2>4, <5>1
      <4> QED BY <4>1, <4>2
    <3>2. 2 * (popped[e] + (len + 1)) + 0 <= 2 * pushed[p]
      BY <1>10, <2>7
    <3> QED BY <1>1, <1>3, <2>4, <2>5, <2>6, <3>1, <3>2 DEF RecvInv
  <2>10. ChanInv(e)'
    BY <1>13, <1>14, <2>1, <2>8
  <2>11. QueueInv(e)' /\ SentTo(e)' = SentTo(e)
    BY <1>1, <1>3, <1>4, <2>1, QueueKeep
  <2> QED BY <1>1, <1>3, <1>5, <2>1, <2>5, <2>9, <2>10, <2>11, FrontEnds
<1> QED BY <1>15, <1>16

-----------------------------------------------------------------------------
(* The theorems. *)

LEMMA InitIInv == ASSUME Established, Init PROVE IInv
<1>1. /\ last_server = ServerName /\ opened = [e \in Ends |-> FALSE]
      /\ sock = [e \in Ends |-> "closed"] /\ recvd = [e \in Ends |-> <<>>]
      /\ part = [e \in Ends |-> None] /\ ~link /\ link \in BOOLEAN /\ chan = [e \in Ends |-> <<>>]
      /\ logins = {} /\ rsp = None
      /\ pushed = [e \in Ends |-> 0] /\ popped = [e \in Ends |-> 0]
  BY DEF Init
<1>2. PICK r : r = [msgs |-> <<>>, seq |-> SeqStart, ack |-> SeqStart, sent |-> 0]
  OBVIOUS
<1>3. q = [e \in Ends |-> r]
  BY <1>2 DEF Init
<1>4. <<>> \in Seq(Message) /\ <<>> \in Seq(WireBlock) /\ Len(<<>>) = 0
  BY EmptySeq
<1>5. Num(0) = SeqStart
  <2>1. SeqStart + 0 = SeqStart /\ SeqStart \in Int /\ 0 <= SeqStart /\ SeqStart < SeqMod
    BY SessionNat DEF SeqNum
  <2> QED BY <2>1, SessionNat, ModUnique DEF Num
<1>6. r \in QueueRec /\ r.msgs = <<>> /\ r.seq = SeqStart /\ r.ack = SeqStart /\ r.sent = 0
  BY <1>2, <1>4, SessionNat DEF QueueRec
<1>7. Typed
  <2>1. pushed["c"] + pushed["s"] <= MaxMsgs
    BY <1>1, SessionNat DEF Ends
  <2>2. sock \in [Ends -> SockState] /\ sock["s"] # "login"
    BY <1>1 DEF Ends, SockState
  <2>3. q \in [Ends -> QueueRec] /\ recvd \in [Ends -> Seq(WireBlock)] /\ chan \in [Ends -> Seq(WireBlock)]
    BY <1>1, <1>3, <1>4, <1>6
  <2>4. opened \in [Ends -> BOOLEAN] /\ part \in [Ends -> WireBlock \cup {None}] /\ logins \subseteq Login0
        /\ pushed \in [Ends -> Nat] /\ popped \in [Ends -> Nat]
    BY <1>1
  <2> QED BY <1>1, <2>1, <2>2, <2>3, <2>4 DEF Typed
<1>8. ASSUME NEW e \in Ends PROVE EndInv(e)
  <2>1. /\ q[e] = r /\ pushed[e] = 0 /\ popped[e] = 0 /\ popped[Peer(e)] = 0 /\ chan[e] = <<>>
        /\ sock[e] = "closed"
    BY <1>1, <1>3, Peers
  <2>2. First(e) = 0
    BY <1>4, <1>6, <2>1 DEF First
  <2>3. Queue(r, 0, 0, 0)
    BY <1>4, <1>5, <1>6, SessionNat DEF Queue
  <2>4. QueueInv(e)
    BY <2>1, <2>2, <2>3 DEF QueueInv
  <2>5. ~Connected(e) /\ ~Hears(e)
    BY <1>1, <2>1 DEF Connected, Hears, Accepted
  <2> QED BY <1>4, <2>1, <2>4, <2>5, SessionNat DEF EndInv, RecvInv, ChanInv, AcksInv
<1>9. LoginInv
  BY <1>1 DEF LoginInv, Accepted
<1> QED BY <1>7, <1>8, <1>9 DEF IInv

LEMMA NextIInv == ASSUME IInv, [Next]_vars PROVE IInv'
<1>1. CASE UNCHANGED vars
  <2>1. UNCHANGED <<q, last_server, opened, sock, recvd, part, link, chan, logins, rsp, pushed, popped>>
    BY <1>1 DEF vars, files, conns, net
  <2>2. (Accepted' <=> Accepted) /\ \A x \in Ends : (Connected(x)' <=> Connected(x)) /\ (Hears(x)' <=> Hears(x))
    BY <2>1 DEF Accepted, Connected, Hears
  <2>3. LoginInv'
    BY <2>1, <2>2 DEF IInv, LoginInv, Connected
  <2>4. Typed
    BY DEF IInv
  <2> QED BY <2>1, <2>2, <2>3, <2>4, WeakenStep DEF Typed
<1>2. ASSUME NEW e \in Ends, Poll(e) PROVE IInv'
  BY <1>2, SendHBStep, SendHBPendingStep, FrontStep, PopStep, RemoteCloseStep, TryCloseFdStep DEF Poll
<1>3. ASSUME NEW e \in Ends, Push(e) \/ Close(e) \/ Crash(e) PROVE IInv'
  BY <1>3, PushStep, CloseFdStep, CrashStep
<1>4. ASSUME NEW l \in logins, HandleLogin(l) PROVE IInv'
  <2>1. /\ logins' = logins \ {l} /\ UNCHANGED <<last_server, pushed, popped>>
        /\ Refused(l) \/ Dropped(l) \/ LoggedOn(l)
    BY <1>4, HandleLoginCases
  <2> QED BY <2>1, RefusedStep, LoggedOnStep
<1>5. ASSUME LoginRsp PROVE IInv'
  BY <1>5, LoginRejectedStep, LoginAcceptedStep
<1> QED BY <1>1, <1>2, <1>3, <1>4, <1>5, ConnectStep, LoginFailedStep DEF Next, Login

LEMMA Invariance == ASSUME Established PROVE Spec => []IInv
<1>1. Init => IInv
  BY InitIInv
<1>2. IInv /\ [Next]_vars => IInv'
  BY NextIInv
<1> QED BY <1>1, <1>2, PTL DEF Spec

(* Every variable keeps its type, and the queues and the socket buffers     *)
(* stay within their capacities.                                            *)
THEOREM TypeCorrect == ASSUME Established PROVE Spec => []TypeOK
<1>1. ASSUME IInv PROVE TypeOK
  <2>1. Typed /\ LoginInv /\ \A e \in Ends : EndInv(e)
    BY <1>1 DEF IInv
  <2>2. ASSUME NEW e \in Ends
        PROVE  /\ q[e].msgs \in Seq(Message) /\ Len(q[e].msgs) <= QCap
               /\ q[e].seq \in SeqNum /\ q[e].ack \in SeqNum
               /\ q[e].sent \in 0 .. 2 * Len(q[e].msgs)
               /\ recvd[e] \in Seq(WireBlock) /\ part[e] \in WireBlock \cup {None}
               /\ chan[e] \in Seq(WireBlock) /\ Len(chan[e]) <= ChanCap
    <3>1. /\ q[e] \in QueueRec /\ Len(q[e].msgs) <= QCap /\ q[e].sent <= 2 * Len(q[e].msgs)
          /\ Len(chan[e]) <= ChanCap
      BY <2>1 DEF EndInv, QueueInv, Queue
    <3>2. /\ recvd[e] \in Seq(WireBlock) /\ part[e] \in WireBlock \cup {None}
          /\ chan[e] \in Seq(WireBlock)
      BY <2>1 DEF Typed
    <3> QED BY <3>1, <3>2, QueueFields
  <2>3. sock["c"] \in {"closed", "login", "open", "closing"} /\ sock["s"] \in {"closed", "open", "closing"}
    BY <2>1 DEF Typed, Ends, SockState
  <2>4. \A l, m \in logins : l.mine /\ m.mine => l = m
    BY <2>1 DEF LoginInv
  <2> QED BY <2>1, <2>2, <2>3, <2>4 DEF TypeOK, Typed
<1> QED BY <1>1, Invariance, PTL

(* Delivery: what Front returns is always the message after the last one    *)
(* popped, over any number of disconnections, abandoned logins and deaths   *)
(* of either process.                                                       *)
THEOREM DeliveredExactlyOnce == ASSUME Established PROVE Spec => []ExactlyOnce
<1>1. ASSUME IInv PROVE ExactlyOnce
  BY <1>1 DEF IInv, EndInv, RecvInv, Connected, ExactlyOnce
<1> QED BY <1>1, Invariance, PTL

(* Framing: Front never takes a body for a header or a header for a body,   *)
(* and a body follows its own header, on every TCP connection.              *)
THEOREM FramesKept == ASSUME Established PROVE Spec => []Framing
<1>1. ASSUME IInv PROVE Framing
  <2> SUFFICES ASSUME NEW e \in Ends, sock[e] = "open", chan[e] # <<>>
               PROVE  IF part[e] = None THEN Head(chan[e]).kind # "body"
                      ELSE Head(chan[e]).kind = "body" /\ Head(chan[e]).id = part[e].id
    BY DEF Framing
  <2>1. PICK p \in Ends : p = Peer(e)
    BY Peers
  <2>2. PICK b : b = Head(chan[e])
    OBVIOUS
  <2>3. (b.kind = "body" <=> Pending(e) = 1) /\ (b.kind # "hb" => b.id = NextId(e))
    BY <1>1, <2>1, <2>2, FrontBlock
  <2>4. Pending(e) = 1 <=> part[e] # None
    BY DEF Pending
  <2>5. part[e] # None => part[e].id = NextId(e)
    BY <1>1 DEF IInv, EndInv, RecvInv, Connected, NextId
  <2> QED BY <2>2, <2>3, <2>4, <2>5
<1> QED BY <1>1, Invariance, PTL

(* Acks: no ack that reaches an open connection goes beyond what this end   *)
(* has sent on it, so Ack never drops a message that was not sent.          *)
THEOREM AcksWithinSent == ASSUME Established PROVE Spec => []AckSafe
<1>1. ASSUME IInv PROVE AckSafe
  <2> SUFFICES ASSUME NEW e \in Ends, sock[e] = "open", NEW i \in 1 .. Len(chan[e]),
                      chan[e][i].kind # "body"
               PROVE  2 * Signed(Sub(chan[e][i].ack, q[e].seq)) <= q[e].sent
    BY DEF AckSafe
  <2>1. PICK p \in Ends : p = Peer(e)
    BY Peers
  <2>2. Typed /\ QueueInv(e) /\ QueueInv(p) /\ AcksInv(e) /\ Hears(e)
    BY <1>1 DEF IInv, EndInv, Hears
  <2>3. PICK a \in 0 .. popped[p] : chan[e][i].ack = Num(a) /\ 2 * a <= SentTo(e)
    BY <2>1, <2>2 DEF AcksInv, Acked
  <2>4. /\ First(e) \in Nat /\ popped[e] \in Nat /\ pushed[e] \in Nat /\ pushed[e] <= MaxMsgs
        /\ popped[p] \in Nat /\ popped[p] <= pushed[e]
        /\ Queue(q[e], First(e), popped[e], pushed[e])
    BY <2>1, <2>2, EndFacts DEF QueueInv
  <2>5. a \in Nat /\ a <= pushed[e]
    BY <2>4
  <2>6. Signed(Sub(Num(a), q[e].seq)) = a - First(e)
    BY ONLY <2>4, <2>5, AckDiff
  <2>7. PICK f \in Nat, k \in Nat : f = First(e) /\ k = q[e].sent /\ SentTo(e) = 2 * f + k
    <3>1. q[e].sent \in Nat
      BY <2>4, QueueFields DEF Queue
    <3> QED BY <2>4, <3>1 DEF SentTo
  <2>8. 2 * (a - f) <= k
    <3>1. 2 * a <= 2 * f + k
      BY <2>3, <2>7
    <3> QED BY ONLY <2>5, <3>1, f \in Nat, k \in Nat
  <2> QED BY <2>3, <2>6, <2>7, <2>8
<1> QED BY <1>1, Invariance, PTL

(* Login: a server in step with the client never answers "seqnum mismatch". *)
THEOREM LoginsInStep == ASSUME Established PROVE Spec => []NoSeqMismatch
<1>1. ASSUME IInv PROVE NoSeqMismatch
  BY <1>1 DEF IInv, LoginInv, NoSeqMismatch
<1> QED BY <1>1, Invariance, PTL

(* Persistence: a message leaves the sender's queue only after the peer's   *)
(* handler has consumed it.                                                 *)
THEOREM RetainedUntilPopped == ASSUME Established PROVE Spec => []Retained
<1>1. ASSUME IInv PROVE Retained
  BY <1>1 DEF IInv, EndInv, QueueInv, First, Retained
<1> QED BY <1>1, Invariance, PTL
=============================================================================
