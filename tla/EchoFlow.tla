------------------------------ MODULE EchoFlow ------------------------------
(***************************************************************************)
(* The echo client and server of test/ over one TCP connection: flow       *)
(* control end to end.  The client pushes as fast as its queue allows; the *)
(* server pops a message only when its own queue has room for the echo.    *)
(* Queue, receive buffer and socket are bounded, and the acknowledgement   *)
(* that would make room can wait in a socket behind messages that nobody   *)
(* reads.                                                                  *)
(*                                                                         *)
(* A message is two units, header and body, a heartbeat is one.  One       *)
(* thread of each process polls the connection, which lasts; the clocks    *)
(* that decide when a heartbeat is due are left to chance.                 *)
(***************************************************************************)
EXTENDS Integers, Sequences, FiniteSetsExt

CONSTANTS TcpQueueSize,      \* of each end, in messages
          TcpRecvBufMaxSize, \* of the server, in units (the client always pops)
          SockSize,          \* units that the sockets of one direction hold
          MaxNum             \* messages the client sends

Ends == {"c", "s"}
Peer(e) == IF e = "c" THEN "s" ELSE "c"

ASSUME FlowAssumption ==
    /\ TcpQueueSize \in [Ends -> Nat \ {0}]
    /\ TcpRecvBufMaxSize \in Nat /\ TcpRecvBufMaxSize >= 2
    /\ SockSize \in Nat \ {0} /\ MaxNum \in Nat

VARIABLES
    acked,   \* read_seq_num_: messages of this end that the peer has acknowledged
    msgs,    \* the window: the ack_seq that Push stored in each message
    out,     \* units of the window handed to the socket (send_idx_ - read_idx_)
    my_ack,  \* messages popped
    chan,    \* units on their way to each end
    buf,     \* units in recvbuf_ from readidx_ on
    fresh,   \* last_my_ack_ # q_->MyAck()
    pc       \* of each end, what is next: "num" (PollNum), "hb" or "front" (TcpFront)

vars == <<acked, msgs, out, my_ack, chan, buf, fresh, pc>>

Unit(kind, ack) == [kind |-> kind, ack |-> ack]

\* send_num of the client: every message it pushed.
send_num == acked["c"] + Len(msgs["c"])

Init ==
    /\ acked = [e \in Ends |-> 0] /\ msgs = [e \in Ends |-> <<>>] /\ out = [e \in Ends |-> 0]
    /\ my_ack = [e \in Ends |-> 0] /\ fresh = [e \in Ends |-> FALSE]
    /\ chan = [e \in Ends |-> <<>>] /\ buf = [e \in Ends |-> <<>>]
    /\ pc = [e \in Ends |-> IF e = "c" THEN "num" ELSE "hb"]

-----------------------------------------------------------------------------
(* The calls of the library, on the queue of e and the socket to its peer.  *)

\* With window w, o units of it sent, and sockets ch: hand over what fits.
SendPending(e, w, o, ch) ==
    LET n == Min({2 * Len(w) - o, SockSize - Len(ch[Peer(e)])})
        U(k) == IF k % 2 = 1 THEN Unit("header", w[(k + 1) \div 2]) ELSE Unit("body", 0)
    IN /\ msgs' = [msgs EXCEPT ![e] = w]
       /\ out' = [out EXCEPT ![e] = o + n]
       /\ chan' = [ch EXCEPT ![Peer(e)] = @ \o [k \in 1 .. n |-> U(o + k)]]

\* A heartbeat is due: it goes out only when nothing was pending.
SendHB(e) ==
    /\ pc[e] = "hb" /\ pc' = [pc EXCEPT ![e] = "front"]
    /\ \/ /\ out[e] < 2 * Len(msgs[e])
          /\ SendPending(e, msgs[e], out[e], chan)
       \/ /\ out[e] = 2 * Len(msgs[e]) /\ Len(chan[Peer(e)]) < SockSize
          /\ chan' = [chan EXCEPT ![Peer(e)] = Append(@, Unit("hb", my_ack[e]))]
          /\ UNCHANGED <<msgs, out>>
    /\ UNCHANGED <<acked, my_ack, buf, fresh>>

\* What DoRecv can take when b is in the buffer, enlarged to its limit.
Room(b) == TcpRecvBufMaxSize - Len(b)

\* Heartbeats before the first message are consumed.
SkipHB(b) ==
    LET n == Cardinality({i \in DOMAIN b : \A j \in 1 .. i : b[j].kind = "hb"})
    IN SubSeq(b, n + 1, Len(b))

\* Faulty variants of an operation, named ...Bug, stand before it: each breaks
\* one property, which shows that the property depends on the operation.

\* Ack's loop runs one message too far.
AckOfBug(e, units) == Max({acked[e]} \cup {units[i].ack + 1 : i \in DOMAIN units})

\* Ack of each header, in order: acknowledgements never decrease.
AckOf(e, units) == Max({acked[e]} \cup {units[i].ack : i \in DOMAIN units})

\* The handlers.  OnClientMsg pops when Alloc succeeds for the echo; the
\* client's pops always.
Pops(e, window) == e = "s" => Len(window) < TcpQueueSize["s"]

\* Front, which returns a message it has not returned before without reading,
\* and else reads k units; then the handler, Alloc, Pop and Push.
Front(e, k) ==
    LET x    == SkipHB(buf[e])
        new  == SubSeq(chan[e], 1, k)
        y    == SkipHB(x \o new)
        ack  == AckOf(e, new)
        w    == SubSeq(msgs[e], ack - acked[e] + 1, Len(msgs[e]))
        o    == out[e] - 2 * (ack - acked[e])
        ch   == [chan EXCEPT ![e] = SubSeq(@, k + 1, Len(@))]
        pop  == Len(y) >= 2 /\ Pops(e, w)
    IN /\ pc[e] \in {"hb", "front"}                 \* "hb": no heartbeat is due
       /\ k <= Len(chan[e])
       /\ e = "s" => k <= Room(x)
       /\ k > 0 => Len(x) < 2 \/ ~fresh[e]
       /\ acked' = [acked EXCEPT ![e] = ack]
       /\ buf' = [buf EXCEPT ![e] = IF pop THEN SubSeq(y, 3, Len(y)) ELSE y]
       /\ my_ack' = [my_ack EXCEPT ![e] = IF pop THEN @ + 1 ELSE @]
       /\ fresh' = [fresh EXCEPT ![e] = pop \/ (@ /\ Len(x) < 2)]
       /\ IF pop /\ e = "s"
          THEN SendPending(e, Append(w, my_ack[e] + 1), o, ch)
          ELSE /\ msgs' = [msgs EXCEPT ![e] = w] /\ out' = [out EXCEPT ![e] = o]
               /\ chan' = ch

-----------------------------------------------------------------------------
(* The loops of the two programs. *)

ServerPollTcp(k) == Front("s", k) /\ pc' = [pc EXCEPT !["s"] = "hb"]

ClientPollTcp(k) == Front("c", k) /\ pc' = [pc EXCEPT !["c"] = "num"]

\* Push does not store the ack_seq.
PollNumBug ==
    /\ pc["c"] = "num" /\ pc' = [pc EXCEPT !["c"] = "hb"]
    /\ IF send_num < MaxNum /\ Len(msgs["c"]) < TcpQueueSize["c"]
       THEN SendPending("c", Append(msgs["c"], 0), out["c"], chan)
       ELSE UNCHANGED <<msgs, out, chan>>
    /\ UNCHANGED <<acked, my_ack, buf, fresh>>

\* One more message if Alloc succeeds; Push stores the client's ack_seq in it.
PollNum ==
    /\ pc["c"] = "num" /\ pc' = [pc EXCEPT !["c"] = "hb"]
    /\ IF send_num < MaxNum /\ Len(msgs["c"]) < TcpQueueSize["c"]
       THEN SendPending("c", Append(msgs["c"], my_ack["c"]), out["c"], chan)
       ELSE UNCHANGED <<msgs, out, chan>>
    /\ UNCHANGED <<acked, my_ack, buf, fresh>>

Next ==
    \/ \E e \in Ends : SendHB(e)
    \/ \E k \in 0 .. SockSize : ServerPollTcp(k) \/ ClientPollTcp(k)
    \/ PollNum

Spec == Init /\ [][Next]_vars

-----------------------------------------------------------------------------
(* Types and bounds: neither the queues nor the receive buffer nor the      *)
(* sockets overflow, and no more is sent than the window holds (Alloc,      *)
(* DoRecv, SendPending).                                                    *)
TypeOK ==
    /\ \A e \in Ends :
         /\ msgs[e] \in Seq(Nat) /\ Len(msgs[e]) <= TcpQueueSize[e]
         /\ out[e] \in 0 .. 2 * Len(msgs[e])
         /\ Len(chan[e]) <= SockSize
         /\ my_ack[e] \in 0 .. acked[Peer(e)] + Len(msgs[Peer(e)])
         /\ acked[e] \in 0 .. my_ack[Peer(e)]
    /\ Len(buf["s"]) <= TcpRecvBufMaxSize
    /\ pc["c"] \in {"num", "hb", "front"} /\ pc["s"] \in {"hb", "front"}

(* With a queue larger than the client's the server is never blocked: when  *)
(* a message is in its buffer, OnClientMsg's Alloc succeeds, although the   *)
(* acknowledgements that make room may sit in a socket behind messages, and *)
(* the client runs ahead of them.  A blocked server can stop for good: once *)
(* its buffer is full of messages it cannot echo, DoRecv reads nothing, not *)
(* even the acknowledgement, and returns before it looks at the timeout.    *)
NeverBlocked == Len(SkipHB(buf["s"])) >= 2 => Pops("s", msgs["s"])
=============================================================================
