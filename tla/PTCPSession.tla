---------------------------- MODULE PTCPSession ----------------------------
(***************************************************************************)
(* A client and a server with one ptcp connection between them, over any   *)
(* number of TCP connections: login handshake, data and heartbeats with    *)
(* acknowledgements, disconnections, abandoned logins, and the death and   *)
(* restart of either process between two calls.                            *)
(*                                                                         *)
(* The send queue is the one of PTCPQueue seen between its calls.  A       *)
(* message is two blocks, a header and a body, so that a connection can    *)
(* end in the middle of a message; a heartbeat is a header alone.  Each    *)
(* process runs in one thread.                                             *)
(***************************************************************************)
EXTENDS SeqNumbers, Sequences

NoServer == ""   \* the client has not been logged on to any server

CONSTANTS Established,  \* TRUE: the two have talked before, and are in step
          SeqStart,     \* their sequence numbers then
          QCap,         \* messages the send queue has room for
          ChanCap,      \* blocks a socket buffer has room for
          MaxMsgs,      \* bound on messages the two ends push
          MaxFaults     \* bound on errors, timeouts, closes and crashes

\* Messages sent again and logins that come late carry acks of any age: these
\* must be less than half the number space old to compare as older.
ASSUME SessionAssumption ==
    /\ HalfSeq \in Nat /\ QCap \in Nat \ {0} /\ QCap < HalfSeq
    /\ ChanCap \in Nat \ {0} /\ MaxMsgs \in Nat /\ MaxFaults \in Nat
    /\ MaxMsgs <= HalfSeq
    /\ Established \in BOOLEAN /\ SeqStart \in SeqNum

VARIABLES
    q,           \* the mapped PTCPQueue of each end (survives the process)
    last_server, \* the client's .lastserver file (survives the process)
    opened,      \* the user can push: q_ is mapped, and the server's user has
                 \*   been given the connection by OnClientLogon
    sock,        \* "closed", "login" (client, inside Connect), "open", or
                 \*   "closing": sockfd_ < 0 and fd_to_close_ is still open
    recvd,       \* recvbuf_: complete messages not popped
    part,        \* recvbuf_: the header whose body has not arrived, or <<>>
    link,        \* the two open sockets are the ends of one TCP connection
    chan,        \* the blocks on their way to each end
    logins,      \* LoginMsgs the server has not handled
    rsp,         \* the LoginRsp on its way to the waiting client, or <<>>
    pushed, popped, \* history: messages pushed, and popped, by each end
    faults

files == <<q, last_server>>
conns == <<opened, sock, recvd, part>>
net   == <<link, chan, logins, rsp>>
vars  == <<files, conns, net, pushed, popped, faults>>

Ends == {"c", "s"}
Peer(e) == IF e = "c" THEN "s" ELSE "c"
ServerName == "server"
None == <<>>

-----------------------------------------------------------------------------
(* The send queue between calls.  sent counts the blocks of the window that *)
(* have been handed to the socket (send_idx_ - read_idx_).                  *)

NewQueue == [msgs |-> <<>>, seq |-> 0, ack |-> 0, sent |-> 0]

SeqEnd(qe) == Add(qe.seq, Len(qe.msgs))
Unsent(qe) == 2 * Len(qe.msgs) - qe.sent

\* Faulty variants of an operation, named ...Bug, stand before it: each breaks
\* one property, which shows that the property depends on the operation.

\* The ack is one too many.
BlockBug(qe, k) ==
    LET m == qe.msgs[(k - 1) \div 2 + 1]
    IN [kind |-> IF k % 2 = 1 THEN "header" ELSE "body", id |-> m.id, ack |-> Inc(m.ack)]

Block(qe, k) ==
    LET m == qe.msgs[(k - 1) \div 2 + 1]
    IN [kind |-> IF k % 2 = 1 THEN "header" ELSE "body", id |-> m.id, ack |-> m.ack]

\* send_idx_ does not follow read_idx_.
AckBug(qe, ack_seq) ==
    LET n == Signed(Sub(ack_seq, qe.seq))
    IN IF n <= 0 THEN qe
       ELSE [qe EXCEPT !.msgs = SubSeq(@, n + 1, Len(@)), !.seq = ack_seq]

Ack(qe, ack_seq) ==
    LET n == Signed(Sub(ack_seq, qe.seq))
    IN IF n <= 0 THEN qe
       ELSE [msgs |-> SubSeq(qe.msgs, n + 1, Len(qe.msgs)), seq |-> ack_seq,
             ack |-> qe.ack, sent |-> qe.sent - 2 * n]

\* A message that was cut off is continued on the next connection.
LoginAckBug(qe, ack_seq) == Ack(qe, ack_seq)

\* What went out on the broken connection is taken as received.
LoginAckNoResendBug(qe, ack_seq) ==
    LET qa == Ack(qe, ack_seq) IN [qa EXCEPT !.sent = 2 * Len(qa.msgs)]

LoginAck(qe, ack_seq) == [Ack(qe, ack_seq) EXCEPT !.sent = 0]

\* The numbers are compared as if they never wrapped.
CheckAckInQueueBug(ack_seq, seq_start, seq_end) == seq_start <= ack_seq /\ ack_seq <= seq_end

\* seq_start <= ack_seq <= seq_end, with wrap around.
CheckAckInQueue(ack_seq, seq_start, seq_end) ==
    Signed(Sub(ack_seq, seq_start)) >= 0 /\ Signed(Sub(seq_end, ack_seq)) >= 0

Fault == faults < MaxFaults /\ faults' = faults + 1

-----------------------------------------------------------------------------
Init ==
    /\ LET n == IF Established THEN SeqStart ELSE 0
       IN q = [e \in Ends |-> [msgs |-> <<>>, seq |-> n, ack |-> n, sent |-> 0]]
    /\ last_server = IF Established THEN ServerName ELSE NoServer
    /\ opened = [e \in Ends |-> FALSE]
    /\ sock = [e \in Ends |-> "closed"]
    /\ recvd = [e \in Ends |-> <<>>] /\ part = [e \in Ends |-> None]
    /\ link = FALSE /\ chan = [e \in Ends |-> <<>>]
    /\ logins = {} /\ rsp = None
    /\ pushed = [e \in Ends |-> 0] /\ popped = [e \in Ends |-> 0]
    /\ faults = 0

(* SendPending, called last by Push, Open and SendHB, with the queue qe,    *)
(* the sockets sk, the link up and the blocks ch that its caller leaves.    *)
(* The socket takes none, some or all of the blocks; on an error the        *)
(* connection closes and send_idx_ stays, whatever has gone out before.     *)
SendPending(e, qe, sk, up, ch) ==
    LET Out(n) == IF up THEN [ch EXCEPT ![Peer(e)] = @ \o [k \in 1 .. n |-> Block(qe, qe.sent + k)]]
                        ELSE ch
        Room   == IF up THEN ChanCap - Len(ch[Peer(e)]) ELSE 2 * QCap
    IN \/ /\ sk[e] = "open"
          /\ \E n \in 0 .. Unsent(qe) :
               /\ n <= Room
               /\ q' = [q EXCEPT ![e] = [qe EXCEPT !.sent = @ + n]]
               /\ chan' = Out(n)
          /\ sock' = sk /\ UNCHANGED faults
       \/ /\ sk[e] = "open" /\ Unsent(qe) > 0 /\ Fault
          /\ \E n \in 0 .. Unsent(qe) - 1 : n <= Room /\ chan' = Out(n)
          /\ q' = [q EXCEPT ![e] = qe]
          /\ sock' = [sk EXCEPT ![e] = "closing"]
       \/ /\ sk[e] # "open"
          /\ q' = [q EXCEPT ![e] = qe] /\ chan' = ch /\ sock' = sk /\ UNCHANGED faults

\* Alloc and Push of a message; the queue takes it with or without a connection.
Push(e) ==
    /\ opened[e] /\ sock[e] # "login"
    /\ pushed["c"] + pushed["s"] < MaxMsgs /\ Len(q[e].msgs) < QCap
    /\ pushed' = [pushed EXCEPT ![e] = @ + 1]
    /\ SendPending(e, [q[e] EXCEPT !.msgs = Append(@, [id |-> pushed[e], ack |-> q[e].ack])],
                   sock, link, chan)
    /\ UNCHANGED <<last_server, opened, recvd, part, link, logins, rsp, popped>>

(* TcpFront first calls SendHB, which sends what is pending or a heartbeat. *)

\* What has been received, and not what has been popped, is acknowledged.
SendHBBug(e) ==
    /\ sock[e] = "open" /\ Unsent(q[e]) = 0
    /\ link /\ Len(chan[Peer(e)]) < ChanCap
    /\ chan' = [chan EXCEPT ![Peer(e)] =
                  Append(@, [kind |-> "hb", id |-> 0, ack |-> Add(q[e].ack, Len(recvd[e]))])]
    /\ UNCHANGED <<files, conns, link, logins, rsp, pushed, popped, faults>>

SendHB(e) ==
    /\ sock[e] = "open" /\ Unsent(q[e]) = 0
    /\ link /\ Len(chan[Peer(e)]) < ChanCap
    /\ chan' = [chan EXCEPT ![Peer(e)] = Append(@, [kind |-> "hb", id |-> 0, ack |-> q[e].ack])]
    /\ UNCHANGED <<files, conns, link, logins, rsp, pushed, popped, faults>>

SendHBPending(e) ==
    /\ sock[e] = "open" /\ Unsent(q[e]) > 0
    /\ SendPending(e, q[e], sock, link, chan)
    /\ UNCHANGED <<last_server, opened, recvd, part, link, logins, rsp, pushed, popped>>

(* Then Front: a header acknowledges, a body completes its message. *)

Front(e) ==
    /\ sock[e] = "open" /\ chan[e] # <<>>
    /\ chan' = [chan EXCEPT ![e] = Tail(@)]
    /\ LET b == Head(chan[e])
       IN \/ /\ b.kind \in {"header", "hb"}
             /\ q' = [q EXCEPT ![e] = Ack(@, b.ack)]
             /\ part' = IF b.kind = "header" THEN [part EXCEPT ![e] = b] ELSE part
             /\ UNCHANGED recvd
          \/ /\ b.kind = "body"
             /\ recvd' = [recvd EXCEPT ![e] = Append(@, part[e])]
             /\ part' = [part EXCEPT ![e] = None]
             /\ UNCHANGED q
    /\ UNCHANGED <<last_server, opened, sock, link, logins, rsp, pushed, popped, faults>>

\* MyAck is not incremented.
PopBug(e) ==
    /\ sock[e] \in {"open", "closing"} /\ recvd[e] # <<>>
    /\ recvd' = [recvd EXCEPT ![e] = Tail(@)]
    /\ popped' = [popped EXCEPT ![e] = @ + 1]
    /\ UNCHANGED <<files, opened, sock, part, net, pushed, faults>>

\* The user's handler has consumed the message Front returned; what is in
\* recvbuf_ is still returned when SendHB has just closed the connection.
Pop(e) ==
    /\ sock[e] \in {"open", "closing"} /\ recvd[e] # <<>>
    /\ recvd' = [recvd EXCEPT ![e] = Tail(@)]
    /\ q' = [q EXCEPT ![e].ack = Inc(@)]
    /\ popped' = [popped EXCEPT ![e] = @ + 1]
    /\ UNCHANGED <<last_server, opened, sock, part, net, pushed, faults>>

(* Closing: the peer has closed, or an error, a timeout or RequestClose. *)

RemoteClose(e) ==
    /\ sock[e] = "open" /\ ~link /\ chan[e] = <<>>
    /\ sock' = [sock EXCEPT ![e] = "closing"]
    /\ UNCHANGED <<files, opened, recvd, part, net, pushed, popped, faults>>

Close(e) ==
    /\ sock[e] = "open" /\ Fault
    /\ sock' = [sock EXCEPT ![e] = "closing"]
    /\ UNCHANGED <<files, opened, recvd, part, net, pushed, popped>>

TryCloseFd(e) ==
    /\ sock[e] = "closing"
    /\ sock' = [sock EXCEPT ![e] = "closed"]
    /\ link' = FALSE
    /\ UNCHANGED <<files, opened, recvd, part, chan, logins, rsp, pushed, popped, faults>>

-----------------------------------------------------------------------------
(* Login. *)

\* TcpShmClient::Connect up to the send of the LoginMsg.
Connect ==
    /\ sock["c"] = "closed"
    /\ sock' = [sock EXCEPT !["c"] = "login"]
    /\ opened' = [opened EXCEPT !["c"] = @ \/ last_server # NoServer]
    /\ logins' = logins \cup
         {[mine |-> TRUE, last_server_name |-> last_server,
           ack |-> q["c"].ack, seq_start |-> q["c"].seq, seq_end |-> SeqEnd(q["c"])]}
    /\ UNCHANGED <<files, recvd, part, link, chan, rsp, pushed, popped, faults>>

\* Connect returns without a LoginRsp: recv times out or fails.  The LoginMsg
\* may still be on its way to the server.
LoginFailed ==
    /\ sock["c"] = "login"
    /\ IF rsp = None /\ ~\E l \in logins : l.mine THEN UNCHANGED faults ELSE Fault
    /\ sock' = [sock EXCEPT !["c"] = "closed"]
    /\ logins' = {[l EXCEPT !.mine = FALSE] : l \in logins}
    /\ rsp' = None /\ link' = FALSE
    /\ UNCHANGED <<files, opened, recvd, part, chan, pushed, popped>>

Answer(l, status, ack) == rsp' = IF l.mine THEN [status |-> status, ack |-> ack] ELSE rsp

\* TcpShmServer::HandleLogin.
HandleLogin(l) ==
    /\ logins' = logins \ {l}
    /\ IF sock["s"] # "closed"
       THEN /\ Answer(l, 2, 0)      \* already logged on
            /\ UNCHANGED <<q, opened, sock, recvd, part, link, chan, faults>>
       ELSE LET same == l.last_server_name = ServerName
                qs   == IF same THEN q["s"] ELSE NewQueue
                r    == IF same THEN l ELSE [l EXCEPT !.ack = 0, !.seq_start = 0, !.seq_end = 0]
                ok   == /\ CheckAckInQueue(r.ack, qs.seq, SeqEnd(qs))
                        /\ CheckAckInQueue(qs.ack, r.seq_start, r.seq_end)
                ch   == IF l.mine THEN [e \in Ends |-> <<>>] ELSE [chan EXCEPT !["s"] = <<>>]
            IN \/ /\ ~ok /\ Answer(l, 1, qs.ack)
                  /\ q' = [q EXCEPT !["s"] = qs]
                  /\ UNCHANGED <<opened, sock, recvd, part, link, chan, faults>>
               \/ /\ ok /\ ~l.mine      \* send of the LoginRsp fails
                  /\ q' = [q EXCEPT !["s"] = qs]
                  /\ UNCHANGED <<opened, sock, recvd, part, link, chan, rsp, faults>>
               \/ /\ ok /\ Answer(l, 0, qs.ack)
                  /\ opened' = [opened EXCEPT !["s"] = TRUE]
                  /\ recvd' = [recvd EXCEPT !["s"] = <<>>]
                  /\ part' = [part EXCEPT !["s"] = None]
                  /\ link' = l.mine
                  /\ SendPending("s", LoginAck(qs, r.ack), [sock EXCEPT !["s"] = "open"],
                                 l.mine, ch)
    /\ UNCHANGED <<last_server, pushed, popped>>

\* The rest of Connect, when a LoginRsp has come.
LoginRsp ==
    /\ sock["c"] = "login" /\ rsp # None /\ rsp' = None
    /\ \/ /\ rsp.status # 0
          /\ sock' = [sock EXCEPT !["c"] = "closed"]
          /\ UNCHANGED <<files, opened, recvd, part, link, chan, faults>>
       \/ /\ rsp.status = 0
          /\ last_server' = ServerName
          /\ opened' = [opened EXCEPT !["c"] = TRUE]
          /\ recvd' = [recvd EXCEPT !["c"] = <<>>]
          /\ part' = [part EXCEPT !["c"] = None]
          /\ SendPending("c", LoginAck(IF last_server = ServerName THEN q["c"] ELSE NewQueue, rsp.ack),
                         [sock EXCEPT !["c"] = "open"], link, chan)
          /\ UNCHANGED link
    /\ UNCHANGED <<logins, pushed, popped>>

\* The process dies between two calls and is started again; the kernel closes
\* its sockets.
Crash(e) ==
    /\ Fault
    /\ sock' = [sock EXCEPT ![e] = "closed"]
    /\ opened' = [opened EXCEPT ![e] = FALSE]
    /\ recvd' = [recvd EXCEPT ![e] = <<>>] /\ part' = [part EXCEPT ![e] = None]
    /\ link' = FALSE
    /\ IF e = "c" THEN /\ logins' = {[l EXCEPT !.mine = FALSE] : l \in logins}
                       /\ rsp' = None
                  ELSE logins' = {} /\ UNCHANGED rsp
    /\ UNCHANGED <<files, chan, pushed, popped>>

-----------------------------------------------------------------------------
Poll(e) == SendHB(e) \/ SendHBPending(e) \/ Front(e) \/ Pop(e) \/ RemoteClose(e) \/ TryCloseFd(e)

Login == Connect \/ LoginFailed \/ LoginRsp \/ \E l \in logins : HandleLogin(l)

Next ==
    \/ \E e \in Ends : Poll(e) \/ Push(e) \/ Close(e) \/ Crash(e)
    \/ Login

\* Both ends keep polling, the handlers consume what they get, and the client
\* connects again after a disconnection.
Fairness ==
    /\ \A e \in Ends : /\ WF_vars(SendHB(e)) /\ WF_vars(SendHBPending(e)) /\ WF_vars(Front(e))
                       /\ WF_vars(Pop(e)) /\ WF_vars(RemoteClose(e)) /\ WF_vars(TryCloseFd(e))
    /\ WF_vars(Connect) /\ WF_vars(LoginFailed) /\ WF_vars(LoginRsp)
    /\ WF_vars(\E l \in logins : HandleLogin(l))

Spec == Init /\ [][Next]_vars /\ Fairness
-----------------------------------------------------------------------------
Message == [id : 0 .. MaxMsgs, ack : SeqNum]
WireBlock == [kind : {"header", "body", "hb"}, id : 0 .. MaxMsgs, ack : SeqNum]

(* Every variable keeps its type, the queues and socket buffers stay within *)
(* their capacities, and the client never has two logins of its own.        *)
TypeOK ==
    /\ \A e \in Ends :
         /\ q[e].msgs \in Seq(Message) /\ Len(q[e].msgs) <= QCap
         /\ q[e].seq \in SeqNum /\ q[e].ack \in SeqNum
         /\ q[e].sent \in 0 .. 2 * Len(q[e].msgs)
         /\ recvd[e] \in Seq(WireBlock) /\ part[e] \in WireBlock \cup {None}
         /\ chan[e] \in Seq(WireBlock) /\ Len(chan[e]) <= ChanCap
    /\ sock["c"] \in {"closed", "login", "open", "closing"}
    /\ sock["s"] \in {"closed", "open", "closing"}
    /\ opened \in [Ends -> BOOLEAN] /\ link \in BOOLEAN
    /\ last_server \in {NoServer, ServerName}
    /\ \A l, m \in logins : l.mine /\ m.mine => l = m

(* Every message is delivered exactly once and in order: what Front returns *)
(* next is always the message after the last one popped, over all           *)
(* disconnections and restarts.                                             *)
ExactlyOnce ==
    \A e \in Ends : sock[e] \in {"open", "closing"} =>
        \A i \in 1 .. Len(recvd[e]) : recvd[e][i].id = popped[e] + i - 1

(* A TCP stream is parsed at the boundaries it was written at: it starts    *)
(* with a header, a heartbeat never comes between a header and its body,    *)
(* and a connection never resumes in the middle of a message.               *)
Framing ==
    \A e \in Ends : sock[e] = "open" /\ chan[e] # <<>> =>
        IF part[e] = None THEN Head(chan[e]).kind # "body"
        ELSE Head(chan[e]).kind = "body" /\ Head(chan[e]).id = part[e].id

(* "so_seq will never go beyond the msg write_idx_ points to": every ack on *)
(* its way to an open connection is for messages this end has sent.         *)
AckSafe ==
    \A e \in Ends : sock[e] = "open" =>
        \A i \in 1 .. Len(chan[e]) :
            chan[e][i].kind # "body" =>
                2 * Signed(Sub(chan[e][i].ack, q[e].seq)) <= q[e].sent

(* Two ends in step never answer a login with "seqnum mismatch": what a     *)
(* crash or an abandoned login leaves in the files can always be resumed.   *)
NoSeqMismatch == rsp # None => rsp.status # 1

(* "every sent out msg is persisted in a send queue until sender got ack":  *)
(* a message the peer has not consumed is in the sender's queue.            *)
Retained == \A e \in Ends : pushed[e] - Len(q[e].msgs) <= popped[Peer(e)]

(* "the recovery process is purely automatic": when the faults cease, every *)
(* message pushed is consumed and acknowledged.                             *)
Recovers == <>[](\A e \in Ends : popped[Peer(e)] = pushed[e] /\ q[e].msgs = <<>>)
=============================================================================
