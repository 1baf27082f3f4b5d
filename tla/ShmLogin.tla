------------------------------ MODULE ShmLogin ------------------------------
(***************************************************************************)
(* Connections in SHM mode between one server and its clients: the login   *)
(* over TCP, the ring that the server writes and a client reads, and who   *)
(* resets it when.  The rings and .lastserver are files and outlive the    *)
(* processes; the TCP connection only tells that the peer is there.        *)
(*                                                                         *)
(* A ring is SPSCVarQueue between its calls, a sequence of messages.  The  *)
(* ring of the other direction is reset with it and carries nothing in the *)
(* program modelled on top (Market).                                       *)
(***************************************************************************)
EXTENDS Integers, Sequences

CONSTANTS Clients,   \* client names
          MaxFaults  \* bound on what goes wrong: an answer that does not come in
                     \*   time, a process that dies, a connection that breaks,
                     \*   a Reset between the stores of the peer's call

ASSUME ShmAssumption == MaxFaults \in Nat

VARIABLES
    ring,        \* of each client: the messages of the server's send queue
    last_server, \* of each client: server_name_, mapped to .lastserver
    proc,        \* of each client: "down", "login" (inside Connect), "reset"
                 \*   (Connect before Reset) or "up" (Connect has returned)
    conn,        \* the server's connection to each client: "closed", "open" or
                 \*   "closing" (sockfd_ < 0, fd_to_close_ not closed)
    link,        \* of each client: its socket and conn's are connected
    logins,      \* LoginMsgs the server has not handled
    rsp,         \* of each client: status of the LoginRsp on its way, or -1
    faults       \* what has gone wrong so far

shm == <<ring, last_server, proc, conn, link, logins, rsp, faults>>

ServerName == "server"
NoServer   == ""   \* in the .lastserver of a client that was never logged on

ShmInit ==
    /\ ring = [c \in Clients |-> <<>>]
    /\ last_server \in [Clients -> {NoServer, ServerName}]   \* never logged in, or before
    /\ proc = [c \in Clients |-> "down"] /\ conn = [c \in Clients |-> "closed"]
    /\ link = [c \in Clients |-> FALSE]
    /\ logins = {} /\ rsp = [c \in Clients |-> -1] /\ faults = 0

Fault == faults < MaxFaults /\ faults' = faults + 1

\* The client's LoginMsgs on their way lead nowhere any more.
Abandoned(c) == {IF l.client = c THEN [l EXCEPT !.mine = FALSE] ELSE l : l \in logins}

\* Both rings are constructed anew.
Reset(c) == ring' = [ring EXCEPT ![c] = <<>>]

-----------------------------------------------------------------------------
(* The client: Connect. *)

Connect(c) ==
    /\ proc[c] = "down"
    /\ proc' = [proc EXCEPT ![c] = "login"]
    /\ logins' = logins \cup {[client |-> c, last_server_name |-> last_server[c], mine |-> TRUE]}
    /\ UNCHANGED <<ring, last_server, conn, link, rsp, faults>>

\* No LoginRsp comes in time (a Fault), the server closes the socket, or a
\* LoginRsp comes with a status other than 0.
LoginFailed(c) ==
    /\ proc[c] = "login" /\ rsp[c] # 0
    /\ IF \E l \in logins : l.client = c /\ l.mine THEN Fault ELSE UNCHANGED faults
    /\ proc' = [proc EXCEPT ![c] = "down"] /\ rsp' = [rsp EXCEPT ![c] = -1]
    /\ logins' = Abandoned(c)
    /\ UNCHANGED <<ring, last_server, conn, link>>

\* The answer is still on its way when the client gives up.
LoginLost(c) ==
    /\ proc[c] = "login" /\ rsp[c] = 0 /\ Fault
    /\ proc' = [proc EXCEPT ![c] = "down"] /\ rsp' = [rsp EXCEPT ![c] = -1]
    /\ link' = [link EXCEPT ![c] = FALSE]
    /\ UNCHANGED <<ring, last_server, conn, logins>>

LoginRsp(c) ==
    /\ proc[c] = "login" /\ rsp[c] = 0 /\ rsp' = [rsp EXCEPT ![c] = -1]
    /\ proc' = [proc EXCEPT ![c] = IF last_server[c] = ServerName THEN "up" ELSE "reset"]
    /\ last_server' = [last_server EXCEPT ![c] = ServerName]
    /\ UNCHANGED <<ring, conn, link, logins, faults>>

ClientReset(c) ==
    /\ proc[c] = "reset" /\ proc' = [proc EXCEPT ![c] = "up"]
    /\ Reset(c)
    /\ UNCHANGED <<last_server, conn, link, logins, rsp, faults>>

\* The process ends, by itself or (a Fault) by a crash.
ClientEnd(c) ==
    /\ proc' = [proc EXCEPT ![c] = "down"] /\ rsp' = [rsp EXCEPT ![c] = -1]
    /\ link' = [link EXCEPT ![c] = FALSE] /\ logins' = Abandoned(c)
    /\ UNCHANGED <<ring, last_server, conn>>

-----------------------------------------------------------------------------
(* The server: the control thread in PollCtl. *)

\* It looks at logins when it has closed what it found disconnected.
AtLogins == \A c \in Clients : conn[c] # "closing"

Rejected(l) ==
    /\ AtLogins
    /\ l \in logins /\ conn[l.client] = "open"          \* already logged on
    /\ logins' = logins \ {l}
    /\ rsp' = IF l.mine THEN [rsp EXCEPT ![l.client] = 2] ELSE rsp
    /\ UNCHANGED <<ring, last_server, proc, conn, link, faults>>

\* A LoginMsg whose client has gone is accepted too, if the answer can be sent.
HandleLogin(l) ==
    /\ AtLogins
    /\ l \in logins /\ conn[l.client] = "closed"
    /\ logins' = logins \ {l}
    /\ IF l.last_server_name = ServerName THEN UNCHANGED ring ELSE Reset(l.client)
    /\ conn' = [conn EXCEPT ![l.client] = "open"]
    /\ link' = [link EXCEPT ![l.client] = l.mine]
    /\ rsp' = IF l.mine THEN [rsp EXCEPT ![l.client] = 0] ELSE rsp
    /\ UNCHANGED <<last_server, proc, faults>>

LoginRspNotSent(l) ==
    /\ AtLogins
    /\ l \in logins /\ ~l.mine /\ conn[l.client] = "closed"
    /\ logins' = logins \ {l}
    /\ IF l.last_server_name = ServerName THEN UNCHANGED ring ELSE Reset(l.client)
    /\ UNCHANGED <<last_server, proc, conn, link, rsp, faults>>

\* TcpFront: the peer has closed, a send or read fails, or a timeout.
CloseConn(c) ==
    /\ AtLogins
    /\ conn[c] = "open" /\ conn' = [conn EXCEPT ![c] = "closing"]
    /\ IF link[c] THEN Fault ELSE UNCHANGED faults
    /\ UNCHANGED <<ring, last_server, proc, link, logins, rsp>>

TryCloseFd(c) ==
    /\ conn[c] = "closing" /\ conn' = [conn EXCEPT ![c] = "closed"]
    /\ link' = [link EXCEPT ![c] = FALSE]
    /\ UNCHANGED <<ring, last_server, proc, logins, rsp, faults>>

\* The server process ends and is started again.
ServerEnd ==
    /\ Fault
    /\ conn' = [c \in Clients |-> "closed"] /\ link' = [c \in Clients |-> FALSE]
    /\ logins' = {}
    /\ UNCHANGED <<ring, last_server, proc, rsp>>

-----------------------------------------------------------------------------
ShmTypeOK ==
    /\ last_server \in [Clients -> {NoServer, ServerName}]
    /\ proc \in [Clients -> {"down", "login", "reset", "up"}]
    /\ conn \in [Clients -> {"closed", "open", "closing"}]
    /\ link \in [Clients -> BOOLEAN] /\ rsp \in [Clients -> {-1, 0, 2}]
    /\ logins \subseteq [client : Clients, last_server_name : {NoServer, ServerName}, mine : BOOLEAN]
    /\ faults \in 0 .. MaxFaults
    /\ \A c \in Clients : link[c] => conn[c] # "closed"
=============================================================================
