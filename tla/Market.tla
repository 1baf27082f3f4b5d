------------------------------- MODULE Market -------------------------------
(***************************************************************************)
(* The crypto market example in SHM mode.  One thread of the server sends  *)
(* numbered market data to every active connection; each client expects    *)
(* the numbers 0, 1, 2, ... and exits at any other.  The control thread    *)
(* adds and removes connections meanwhile (ShmLogin).                      *)
(*                                                                         *)
(* The five message types differ in what they carry and are sent and       *)
(* handled alike.                                                          *)
(***************************************************************************)
EXTENDS ShmLogin, SequencesExt

CONSTANTS Pairs,   \* 120: instrument_id is the number modulo this
          MaxNum,  \* 10000: max_msgs_to_send of the server, MaxNum of the client
          QCap     \* messages that a ring holds

ASSUME MarketAssumption == Pairs \in Nat \ {0} /\ MaxNum \in Nat /\ QCap \in Nat \ {0}

VARIABLES
    active,      \* active_connections
    ppc,         \* the publisher: "snap", "check", "alloc" or "push" is next
    todo,        \* what is left of its copy of active_connections
    held,        \* the block that Alloc returned is still as Alloc left it
    total_sent,
    left,        \* of each client: messages behind the write_idx_atom of its ring,
                 \*   of servers that died inside Push
    recv_num,    \* of each client, mapped to a file
    lost,        \* history, of each client: a number was dropped, wiped, sent to
                 \*   another client, or the server was restarted
    again        \* history, of each client: an earlier process consumed messages

publisher == <<ppc, todo, held, total_sent, left>>
history   == <<lost, again>>
vars      == <<shm, active, publisher, recv_num, history>>

Init ==
    /\ ShmInit
    /\ active = <<>> /\ ppc = "snap" /\ todo = <<>> /\ held = FALSE /\ total_sent = 0
    /\ left = [c \in Clients |-> <<>>] /\ recv_num = [c \in Clients |-> 0]
    /\ lost = [c \in Clients |-> FALSE] /\ again = [c \in Clients |-> FALSE]

\* A message as far as a client looks at it, whatever its type: the
\* instrument_id, which stands for its number.
Msg(n) == n % Pairs

\* What a Push torn by a Reset leaves in the ring is no message a client knows.
Junk    == Pairs
Content == 0 .. Pairs

Holding(c) == ppc = "push" /\ held /\ Head(todo) = c

\* A Reset of c's ring, by either end, takes a block out of the publisher's hands.
Wipe(c) ==
    /\ held' = (held /\ ~Holding(c))
    /\ left' = [left EXCEPT ![c] = <<>>]
    /\ lost' = [lost EXCEPT ![c] = @ \/ ring[c] # <<>> \/ Holding(c)]

NoWipe == UNCHANGED <<held, left, lost>>

-----------------------------------------------------------------------------
(* The server's control thread with the callbacks of the example. *)

\* Faulty variants of an operation, named ...Bug, stand before it: each breaks
\* one property, which shows that the property depends on the operation.
OnClientLogonBug(c) == active' = active

OnClientLogon(c) == active' = Append(active, c)

OnClientDisconnectedBug(c) == active' = active

OnClientDisconnected(c) == active' = RemoveFirst(active, c)

ResetOrNot(l) == IF l.last_server_name = ServerName THEN NoWipe ELSE Wipe(l.client)

Control ==
    /\ \/ \E l \in logins :
            \/ HandleLogin(l) /\ ResetOrNot(l) /\ OnClientLogon(l.client)
            \/ LoginRspNotSent(l) /\ ResetOrNot(l) /\ UNCHANGED active
            \/ Rejected(l) /\ NoWipe /\ UNCHANGED active
       \/ \E c \in Clients :
            \/ CloseConn(c) /\ NoWipe /\ UNCHANGED active
            \/ TryCloseFd(c) /\ NoWipe /\ OnClientDisconnected(c)
    /\ UNCHANGED <<ppc, todo, total_sent, recv_num, again>>

-----------------------------------------------------------------------------
(* SendMarketDataPeriodically. *)

\* active_connections is copied under the mutex.
Snapshot ==
    /\ ppc = "snap" /\ total_sent < MaxNum /\ active # <<>>
    /\ todo' = active /\ ppc' = "check"
    /\ UNCHANGED <<shm, active, held, total_sent, left, recv_num, history>>

\* After a connection has been served or skipped.
NextConn(sent) ==
    /\ todo' = IF sent >= MaxNum THEN <<>> ELSE Tail(todo)
    /\ ppc' = IF todo' = <<>> THEN "snap" ELSE "check"

\* A number is used up for a closed connection too.
CheckClosedBug ==
    /\ ppc = "check"
    /\ IF conn[Head(todo)] = "open"
       THEN ppc' = "alloc" /\ UNCHANGED <<todo, total_sent>>
       ELSE NextConn(total_sent + 1) /\ total_sent' = total_sent + 1
    /\ UNCHANGED <<shm, active, held, left, recv_num, history>>

\* A closed connection gets no number.
CheckClosed ==
    /\ ppc = "check"
    /\ IF conn[Head(todo)] = "open"
       THEN ppc' = "alloc" /\ UNCHANGED todo
       ELSE NextConn(total_sent)
    /\ UNCHANGED <<shm, active, held, total_sent, left, recv_num, history>>

\* The number goes to c, or to nobody: it is lost for whom it does not reach.
Count(reached) ==
    /\ total_sent' = total_sent + 1
    /\ NextConn(total_sent + 1)
    /\ lost' = [c \in Clients |-> lost[c] \/ c \notin reached]

\* Alloc counts what is behind write_idx_atom too.
Used(c) == Len(ring[c]) + Len(left[c])

\* The ring is full: the Send function returns, and the number is used up.
AllocFull ==
    /\ ppc = "alloc" /\ Used(Head(todo)) >= QCap
    /\ Count({})
    /\ UNCHANGED <<shm, active, held, left, recv_num, again>>

\* There is always room.
AllocOkBug ==
    /\ ppc = "alloc"
    /\ ppc' = "push" /\ held' = TRUE
    /\ UNCHANGED <<shm, active, todo, total_sent, left, recv_num, history>>

AllocOk ==
    /\ ppc = "alloc" /\ Used(Head(todo)) < QCap
    /\ ppc' = "push" /\ held' = TRUE
    /\ UNCHANGED <<shm, active, todo, total_sent, left, recv_num, history>>

\* What a dead server left behind is published with the message.
Published(c) == ring[c] \o Append(left[c], Msg(total_sent))

\* A Reset since Alloc leaves a block of size 0, and Push adds nothing.  When it
\* has hit Alloc or Push between their loads and stores (a Fault), the ring holds
\* the message or junk, by the stores that came after it.
Torn(c) ==
    \/ UNCHANGED <<ring, faults>>
    \/ Fault /\ \E r \in {<<Msg(total_sent)>>, <<Junk>>} : ring' = [ring EXCEPT ![c] = r]

\* The fields are filled in and Push is called.
Push ==
    /\ ppc = "push" /\ held' = FALSE
    /\ IF held THEN ring' = [ring EXCEPT ![Head(todo)] = Published(Head(todo))] /\ UNCHANGED faults
               ELSE Torn(Head(todo))
    /\ left' = [left EXCEPT ![Head(todo)] = <<>>]
    /\ Count(IF held THEN {Head(todo)} ELSE {})
    /\ UNCHANGED <<last_server, proc, conn, link, logins, rsp, active, recv_num, again>>

Publish == Snapshot \/ CheckClosed \/ AllocFull \/ AllocOk \/ Push

\* A server that dies inside Push, between its stores to write_idx and to
\* write_idx_atom, leaves the message behind the latter.
DeathInPush == \E c \in Clients : Holding(c) /\ left' = [left EXCEPT ![c] = Append(@, Msg(total_sent))]

\* The server process ends, by SIGTERM or a crash, and is started again.
ServerRestart ==
    /\ ServerEnd
    /\ active' = <<>> /\ ppc' = "snap" /\ todo' = <<>> /\ held' = FALSE /\ total_sent' = 0
    /\ left' = left \/ DeathInPush
    /\ lost' = [c \in Clients |-> lost[c] \/ total_sent > 0 \/ left'[c] # <<>>]
    /\ UNCHANGED <<recv_num, again>>

-----------------------------------------------------------------------------
(* A client. *)

\* The process ends: at a lost connection, by exit(1), after the last message
\* or by a crash.
End(c) ==
    /\ ClientEnd(c)
    /\ again' = [again EXCEPT ![c] = @ \/ (proc[c] = "up" /\ recv_num[c] > 0)]
    /\ UNCHANGED <<active, publisher, recv_num, lost>>

\* Run: when Connect returns, the counters are reset.
Login(c) ==
    /\ \/ Connect(c) /\ NoWipe
       \/ LoginFailed(c) /\ NoWipe
       \/ LoginLost(c) /\ NoWipe
       \/ LoginRsp(c) /\ NoWipe
       \/ ClientReset(c) /\ Wipe(c)
    /\ recv_num' = IF proc'[c] = "up" THEN [recv_num EXCEPT ![c] = 0] ELSE recv_num
    /\ UNCHANGED <<active, ppc, todo, total_sent, again>>

\* PollNum, then PollShm with OnServerMsg.
PollNum(c) == proc[c] = "up" /\ recv_num[c] >= MaxNum /\ End(c) /\ UNCHANGED faults

\* What each handler checks first.
Expected(c) == Head(ring[c]) = Msg(recv_num[c])

\* A handler, and Pop after it.
HandleMsg(c) ==
    /\ Expected(c)
    /\ recv_num' = [recv_num EXCEPT ![c] = @ + 1]
    /\ ring' = [ring EXCEPT ![c] = Tail(@)]
    /\ UNCHANGED <<last_server, proc, conn, link, logins, rsp, faults, active, publisher, history>>

\* exit(1), or the assertion on the type, before Pop: the message stays.
HandleBad(c) == ~Expected(c) /\ End(c) /\ UNCHANGED faults

OnServerMsg(c) ==
    /\ proc[c] = "up" /\ recv_num[c] < MaxNum /\ ring[c] # <<>>
    /\ HandleMsg(c) \/ HandleBad(c)

\* PollTcp finds the connection closed.
Disconnected(c) == proc[c] = "up" /\ ~link[c] /\ End(c) /\ UNCHANGED faults

Crash(c) == proc[c] # "down" /\ End(c) /\ Fault

Client(c) == Login(c) \/ PollNum(c) \/ OnServerMsg(c) \/ Disconnected(c) \/ Crash(c)

-----------------------------------------------------------------------------
Next ==
    \/ Control \/ Publish \/ ServerRestart
    \/ \E c \in Clients : Client(c)

\* The threads go on: the publisher, the control thread's closing of what it
\* found disconnected, and a client's two loops.
Fairness ==
    /\ WF_vars(Publish) /\ WF_vars(Control /\ ~AtLogins)
    /\ \A c \in Clients : WF_vars(OnServerMsg(c)) /\ WF_vars(Disconnected(c))

Spec == Init /\ [][Next]_vars /\ Fairness

-----------------------------------------------------------------------------
(* Types and bounds: the rings, the numbers, the publisher's place. *)
TypeOK ==
    /\ ShmTypeOK
    /\ ring \in [Clients -> UNION {[1 .. n -> Content] : n \in 0 .. QCap}]
    /\ ppc \in {"snap", "check", "alloc", "push"} /\ (ppc # "snap" => todo # <<>>)
    /\ \A c \in Clients : Used(c) <= QCap
    /\ total_sent \in 0 .. MaxNum /\ recv_num \in [Clients -> 0 .. MaxNum]

(* active_connections holds exactly the connections that are logged on, each *)
(* once, through every login, disconnection and restart: a connection that   *)
(* stayed, or came in twice, would be sent to twice after the next login     *)
(* (OnClientLogon, OnClientDisconnected).                                    *)
ActiveOnce ==
    /\ IsInjective(active)
    /\ ToSet(active) = {c \in Clients : conn[c] # "closed"}

(* A client meets an unexpected number, and exits, only for one of the named *)
(* reasons: in all other runs its ring holds exactly the numbers from        *)
(* recv_num to total_sent, although the publisher works on a copy of the     *)
(* list, and checks, allocates and pushes while connections come and go.     *)
InStep ==
    \A c \in Clients : ~lost[c] /\ ~again[c] /\ proc[c] = "up" =>
        ring[c] = [i \in 1 .. total_sent - recv_num[c] |-> Msg(recv_num[c] + i - 1)]

(* A client that starts in step gets all the numbers, unless one is lost or  *)
(* its connection or process ends: the publisher does not forget it.         *)
Completed ==
    \A c \in Clients :
        (proc[c] = "up" /\ ~lost[c] /\ ~again[c])
            ~> (recv_num[c] = MaxNum \/ lost[c] \/ proc[c] = "down")
=============================================================================
