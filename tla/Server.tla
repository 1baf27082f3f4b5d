------------------------------- MODULE Server -------------------------------
(***************************************************************************)
(* TcpShmServer (tcpshm_server.h): one group of TCP connections, shared    *)
(* without a lock by the control thread, which runs PollCtl and changes    *)
(* the slots as clients log in and disconnect, and the thread that runs    *)
(* PollTcp on the group.  Every access to conns, live_cnt and the          *)
(* descriptors of a connection is a step.                                  *)
(***************************************************************************)
EXTENDS Integers

NoName == ""   \* remote_name_ of a connection that was never used

CONSTANTS Names,               \* client names
          MaxTcpConnsPerGrp,   \* slots of the group
          MaxNewConnections    \* connections that have not logged in

ASSUME ServerAssumption ==
    /\ MaxTcpConnsPerGrp \in Nat \ {0} /\ MaxNewConnections \in Nat \ {0}
    /\ NoName \notin Names

VARIABLES
    conns, live_cnt,       \* the group: slots to connections, live ones first
    remote_name,           \* of each connection
    sockfd, fd_to_close,   \* of each connection: TRUE when >= 0
    new_conns,             \* of each entry: TRUE when fd >= 0
    avail_idx,
    cpc, ci, slot, tmp,    \* control thread: next step, loop index, the slot
                           \*   found by HandleLogin, std::swap's temporary
    ppc, pi, cnt, cur      \* polling thread: next step, loop index, live_cnt
                           \*   as it has last read it, conn

group  == <<conns, live_cnt>>
fds    == <<sockfd, fd_to_close>>
ctl    == <<cpc, ci, slot, tmp>>
poller == <<ppc, pi, cnt, cur>>
vars   == <<group, remote_name, fds, new_conns, avail_idx, ctl, poller>>

Slots == 0 .. MaxTcpConnsPerGrp - 1
News  == 0 .. MaxNewConnections - 1

Init ==
    /\ conns = [i \in Slots |-> i] /\ live_cnt = 0
    /\ remote_name = [c \in Slots |-> NoName]
    /\ sockfd = [c \in Slots |-> FALSE] /\ fd_to_close = [c \in Slots |-> FALSE]
    /\ new_conns = [i \in News |-> FALSE] /\ avail_idx = 0
    /\ cpc = "accept" /\ ci = 0 /\ slot = 0 /\ tmp = 0
    /\ ppc = "idle" /\ pi = 0 /\ cnt = 0 /\ cur = 0

-----------------------------------------------------------------------------
(* PollCtl: accept one connection, then visit the ones not logged in. *)

\* Faulty variants of an operation, named ...Bug, stand before it: each breaks
\* one property, which shows that the property depends on the operation.

\* The entry is still offered after it has been used.
AcceptBug ==
    /\ cpc = "accept" /\ cpc' = "new" /\ ci' = 0
    /\ \/ avail_idx # MaxNewConnections /\ new_conns' = [new_conns EXCEPT ![avail_idx] = TRUE]
       \/ UNCHANGED new_conns
    /\ UNCHANGED <<avail_idx, group, remote_name, fds, slot, tmp, poller>>

Accept ==
    /\ cpc = "accept" /\ cpc' = "new" /\ ci' = 0
    /\ \/ /\ avail_idx # MaxNewConnections
          /\ new_conns' = [new_conns EXCEPT ![avail_idx] = TRUE]
          /\ avail_idx' = MaxNewConnections
       \/ /\ avail_idx # MaxNewConnections      \* accept has failed
          /\ new_conns' = [new_conns EXCEPT ![avail_idx] = FALSE]
          /\ UNCHANGED avail_idx
       \/ avail_idx = MaxNewConnections /\ UNCHANGED <<new_conns, avail_idx>>
    /\ UNCHANGED <<group, remote_name, fds, slot, tmp, poller>>

\* The entry at ci is free, or is closed now.
NextNew ==
    /\ cpc' = "new" /\ ci' = ci + 1
    /\ new_conns' = [new_conns EXCEPT ![ci] = FALSE]
    /\ avail_idx' = ci

NewFree ==
    /\ cpc = "new" /\ ci < MaxNewConnections /\ ~new_conns[ci]
    /\ NextNew
    /\ UNCHANGED <<group, remote_name, fds, slot, tmp, poller>>

\* No LoginMsg has come, and NewConnectionTimeout has not passed.
NewWait ==
    /\ cpc = "new" /\ ci < MaxNewConnections /\ new_conns[ci]
    /\ ci' = ci + 1
    /\ UNCHANGED <<group, remote_name, fds, new_conns, avail_idx, cpc, slot, tmp, poller>>

\* The time is over, the peer has closed, what has come is no LoginMsg, or
\* the user's OnNewConnection rejects it.
NewDrop ==
    /\ cpc = "new" /\ ci < MaxNewConnections /\ new_conns[ci]
    /\ NextNew
    /\ UNCHANGED <<group, remote_name, fds, slot, tmp, poller>>

\* An unused slot is taken although the client has one.
MatchesBug(name) ==
    IF \E i \in Slots : remote_name[conns[i]] = NoName
    THEN {i \in Slots : remote_name[conns[i]] = NoName}
    ELSE {i \in Slots : remote_name[conns[i]] = name}

\* The slots HandleLogin's loop stops at: the client's, or an unused one.
Matches(name) == {i \in Slots : remote_name[conns[i]] \in {NoName, name}}

\* The first of them, unless it is live: then the client is already logged on.
Unused(name) == {i \in Matches(name) : i >= live_cnt /\ \A j \in Matches(name) : i <= j}

\* HandleLogin up to Open.
HandleLogin(name) ==
    /\ cpc = "new" /\ ci < MaxNewConnections /\ new_conns[ci]
    /\ \/ /\ Unused(name) = {}     \* max client cnt exceeded, or already logged on
          /\ NextNew
          /\ UNCHANGED <<remote_name, slot>>
       \/ \E i \in Unused(name) :
            /\ remote_name' = [remote_name EXCEPT ![conns[i]] = name]
            /\ \/ NextNew /\ UNCHANGED slot   \* a file error, a mismatch, the send fails
               \/ cpc' = "open" /\ slot' = i /\ UNCHANGED <<ci, new_conns, avail_idx>>
    /\ UNCHANGED <<group, fds, tmp, poller>>

Open ==
    /\ cpc = "open" /\ cpc' = "inc"
    /\ sockfd' = [sockfd EXCEPT ![conns[slot]] = TRUE]
    /\ fd_to_close' = [fd_to_close EXCEPT ![conns[slot]] = TRUE]
    /\ new_conns' = [new_conns EXCEPT ![ci] = FALSE]
    /\ UNCHANGED <<group, remote_name, avail_idx, ci, slot, tmp, poller>>

\* std::swap(grp.conns[i], grp.conns[grp.live_cnt++])
LiveInc ==
    /\ cpc = "inc" /\ cpc' = "swap1"
    /\ live_cnt' = live_cnt + 1
    /\ tmp' = conns[slot]
    /\ UNCHANGED <<conns, remote_name, fds, new_conns, avail_idx, ci, slot, poller>>

LiveSwap1 ==
    /\ cpc = "swap1" /\ cpc' = "swap2"
    /\ conns' = [conns EXCEPT ![slot] = conns[live_cnt - 1]]
    /\ UNCHANGED <<live_cnt, remote_name, fds, new_conns, avail_idx, ci, slot, tmp, poller>>

LiveSwap2 ==
    /\ cpc = "swap2"
    /\ conns' = [conns EXCEPT ![live_cnt - 1] = tmp]
    /\ NextNew /\ slot' = 0 /\ tmp' = 0
    /\ UNCHANGED <<live_cnt, remote_name, fds, poller>>

NewDone ==
    /\ cpc = "new" /\ ci = MaxNewConnections
    /\ cpc' = "close" /\ ci' = 0
    /\ UNCHANGED <<group, remote_name, fds, new_conns, avail_idx, slot, tmp, poller>>

-----------------------------------------------------------------------------
(* PollCtl: then close the descriptors of connections that have ended. *)

\* The last live connection is never looked at.
TryCloseFdBug ==
    /\ cpc = "close" /\ ci < live_cnt - 1
    /\ ~sockfd[conns[ci]] /\ fd_to_close[conns[ci]]
    /\ fd_to_close' = [fd_to_close EXCEPT ![conns[ci]] = FALSE]
    /\ cpc' = "dec"
    /\ UNCHANGED <<group, remote_name, sockfd, new_conns, avail_idx, ci, slot, tmp, poller>>

TryCloseFd ==
    /\ cpc = "close" /\ ci < live_cnt
    /\ ~sockfd[conns[ci]] /\ fd_to_close[conns[ci]]
    /\ fd_to_close' = [fd_to_close EXCEPT ![conns[ci]] = FALSE]
    /\ cpc' = "dec"
    /\ UNCHANGED <<group, remote_name, sockfd, new_conns, avail_idx, ci, slot, tmp, poller>>

StillOpen ==
    /\ cpc = "close" /\ ci < live_cnt /\ sockfd[conns[ci]]
    /\ ci' = ci + 1
    /\ UNCHANGED <<group, remote_name, fds, new_conns, avail_idx, cpc, slot, tmp, poller>>

\* The connection is counted out when it is closed and again when it is swapped.
LiveDecBug ==
    /\ cpc = "dec" /\ cpc' = "cswap1"
    /\ live_cnt' = live_cnt - 2
    /\ tmp' = conns[ci]
    /\ UNCHANGED <<conns, remote_name, fds, new_conns, avail_idx, ci, slot, poller>>

\* std::swap(grp.conns[i], grp.conns[--grp.live_cnt])
LiveDec ==
    /\ cpc = "dec" /\ cpc' = "cswap1"
    /\ live_cnt' = live_cnt - 1
    /\ tmp' = conns[ci]
    /\ UNCHANGED <<conns, remote_name, fds, new_conns, avail_idx, ci, slot, poller>>

CloseSwap1 ==
    /\ cpc = "cswap1" /\ cpc' = "cswap2"
    /\ conns' = [conns EXCEPT ![ci] = conns[live_cnt]]
    /\ UNCHANGED <<live_cnt, remote_name, fds, new_conns, avail_idx, ci, slot, tmp, poller>>

\* The connection that has ended is put nowhere.
CloseSwap2Bug ==
    /\ cpc = "cswap2" /\ cpc' = "close" /\ tmp' = 0
    /\ UNCHANGED <<group, remote_name, fds, new_conns, avail_idx, ci, slot, poller>>

CloseSwap2 ==
    /\ cpc = "cswap2" /\ cpc' = "close"
    /\ conns' = [conns EXCEPT ![live_cnt] = tmp] /\ tmp' = 0
    /\ UNCHANGED <<live_cnt, remote_name, fds, new_conns, avail_idx, ci, slot, poller>>

CloseDone ==
    /\ cpc = "close" /\ ci >= live_cnt
    /\ cpc' = "accept" /\ ci' = 0
    /\ UNCHANGED <<group, remote_name, fds, new_conns, avail_idx, slot, tmp, poller>>

PollCtl ==
    \/ Accept \/ NewFree \/ NewWait \/ NewDrop \/ (\E name \in Names : HandleLogin(name))
    \/ Open \/ LiveInc \/ LiveSwap1 \/ LiveSwap2 \/ NewDone
    \/ TryCloseFd \/ StillOpen \/ LiveDec \/ CloseSwap1 \/ CloseSwap2 \/ CloseDone

-----------------------------------------------------------------------------
(* PollTcp: visit every connection that seems live. *)

PollTcp ==
    /\ ppc = "idle" /\ ppc' = "loop" /\ pi' = 0 /\ cnt' = live_cnt
    /\ UNCHANGED <<group, remote_name, fds, new_conns, avail_idx, ctl, cur>>

\* Only the first iteration is sure to read live_cnt from memory.
Visit ==
    /\ ppc = "loop"
    /\ \E n \in {cnt, live_cnt} :
         \/ pi < n /\ ppc' = "visit" /\ cnt' = n /\ cur' = conns[pi] /\ UNCHANGED pi
         \/ pi >= n /\ ppc' = "idle" /\ cnt' = 0 /\ pi' = 0 /\ UNCHANGED cur
    /\ UNCHANGED <<group, remote_name, fds, new_conns, avail_idx, ctl>>

\* SendHB, Front or the handler of a visit finds the connection broken or
\* closes it, or any thread calls RequestClose.  A visit goes on after it:
\* Front returns what is in the buffer and the handler pops it.
Close(c) ==
    /\ sockfd[c]
    /\ sockfd' = [sockfd EXCEPT ![c] = FALSE]
    /\ UNCHANGED <<group, remote_name, fd_to_close, new_conns, avail_idx, ctl, poller>>

VisitDone ==
    /\ ppc = "visit" /\ ppc' = "loop"
    /\ pi' = pi + 1 /\ cur' = 0
    /\ UNCHANGED <<group, remote_name, fds, new_conns, avail_idx, ctl, cnt>>

Poll == PollTcp \/ Visit \/ VisitDone

\* Both threads have returned from their loops.
Stop ==
    /\ cpc = "accept" /\ ppc = "idle"
    /\ new_conns' = [i \in News |-> FALSE] /\ avail_idx' = 0
    /\ remote_name' = [c \in Slots |-> NoName]
    /\ sockfd' = [c \in Slots |-> FALSE] /\ fd_to_close' = [c \in Slots |-> FALSE]
    /\ live_cnt' = 0
    /\ UNCHANGED <<conns, ctl, poller>>

Next == PollCtl \/ Poll \/ (\E c \in Slots : Close(c)) \/ Stop

\* Both threads keep polling.
Spec == Init /\ [][Next]_vars /\ WF_vars(PollCtl) /\ WF_vars(Poll)

-----------------------------------------------------------------------------
Stable == cpc \in {"accept", "new", "close"}

(* Every variable keeps its type; in particular no slot beyond the group's  *)
(* is used whatever the clients do.                                         *)
TypeOK ==
    /\ conns \in [Slots -> Slots] /\ live_cnt \in 0 .. MaxTcpConnsPerGrp
    /\ remote_name \in [Slots -> Names \cup {NoName}]
    /\ sockfd \in [Slots -> BOOLEAN] /\ fd_to_close \in [Slots -> BOOLEAN]
    /\ new_conns \in [News -> BOOLEAN] /\ avail_idx \in 0 .. MaxNewConnections
    /\ cpc \in {"accept", "new", "open", "inc", "swap1", "swap2",
                "close", "dec", "cswap1", "cswap2"}
    /\ ci \in Nat /\ {slot, tmp, cur} \subseteq Slots
    /\ ppc \in {"idle", "loop", "visit"} /\ {pi, cnt} \subseteq 0 .. MaxTcpConnsPerGrp

(* Between its changes the group has every connection once, and the ones    *)
(* with a descriptor are exactly the live_cnt first: a connection is        *)
(* neither lost nor polled from two slots, however logins and               *)
(* disconnections follow each other.                                        *)
LiveFirst ==
    Stable => /\ \A i, j \in Slots : i # j => conns[i] # conns[j]
              /\ \A i \in Slots : fd_to_close[conns[i]] <=> i < live_cnt

(* A pair of names identifies a connection: within its group no client ever *)
(* has two connections (and two mappings of one file), although swaps       *)
(* reorder the slots that HandleLogin searches for the first match.         *)
OneConnPerName ==
    \A c, d \in Slots : c # d /\ remote_name[c] # NoName => remote_name[c] # remote_name[d]

(* accept never overwrites the descriptor of a connection that waits for    *)
(* its login.                                                               *)
AcceptFree ==
    [][Accept /\ avail_idx # MaxNewConnections => ~new_conns[avail_idx]]_vars

(* The descriptor of a connection that has ended is closed, and the client  *)
(* can log in again, also while the polling thread goes on visiting.        *)
Released == \A c \in Slots : ~sockfd[c] /\ fd_to_close[c] ~> ~fd_to_close[c]

(* "Single thread class except RequestClose()": the control thread does not *)
(* open a connection while the polling thread is in a call on it.           *)
OneThread == cpc = "open" /\ ppc = "visit" => cur # conns[slot]

-----------------------------------------------------------------------------
(* What makes TypeOK, LiveFirst and OneConnPerName inductive. *)

\* The slots as they will be when the std::swap in progress is done.
Settled == IF cpc = "swap2" THEN [conns EXCEPT ![live_cnt - 1] = tmp]
           ELSE IF cpc = "cswap2" THEN [conns EXCEPT ![live_cnt] = tmp]
           ELSE conns

\* Slot i has a connection with a descriptor, while live_cnt runs ahead of the
\* slots in a login, and behind the descriptors in a disconnection.
HasFd(i) == CASE cpc = "inc"    -> i < live_cnt \/ i = slot
              [] cpc = "swap1"  -> i < live_cnt - 1 \/ i = slot
              [] cpc = "dec"    -> i < live_cnt /\ i # ci
              [] cpc = "cswap1" -> i <= live_cnt /\ i # ci
              [] OTHER          -> i < live_cnt

\* Slot i has a client that is logged on, is logging on or has just gone.
Occupied(i) == \/ i < live_cnt
               \/ cpc \in {"open", "inc", "swap1"} /\ i = slot
               \/ cpc = "cswap1" /\ i <= live_cnt

\* The control thread's locals are what its loops have made them.
CtlInv ==
    /\ cpc \in {"new", "open", "inc", "swap1", "swap2"} => ci <= MaxNewConnections
    /\ cpc \in {"open", "inc", "swap1", "swap2"} => ci < MaxNewConnections
    /\ cpc \in {"open", "inc"} => live_cnt <= slot
    /\ cpc \in {"swap1", "swap2"} => 1 <= live_cnt /\ live_cnt <= slot + 1
    /\ cpc = "dec" => ci < live_cnt
    /\ cpc \in {"cswap1", "cswap2"} => ci <= live_cnt /\ live_cnt < MaxTcpConnsPerGrp
    /\ cpc = "swap1" => tmp = conns[slot]
    /\ cpc = "cswap1" => tmp = conns[ci]
    /\ ppc = "visit" => pi < MaxTcpConnsPerGrp

\* avail_idx_ is the index of a free entry, or none.
AvailInv == avail_idx # MaxNewConnections => ~new_conns[avail_idx]

\* Every connection is in exactly one slot of f.
Permutation(f) ==
    /\ \A i, j \in Slots : i # j => f[i] # f[j]
    /\ \A c \in Slots : \E i \in Slots : f[i] = c

\* LiveFirst at every store, and no connection is lost.
SlotInv ==
    /\ Permutation(Settled)
    /\ \A i \in Slots : fd_to_close[Settled[i]] <=> HasFd(i)

\* Slots never used come last: HandleLogin's first match is the client's own
\* slot if it has one.
NameInv ==
    /\ \A i, j \in Slots :
         i < j /\ remote_name[Settled[j]] # NoName => remote_name[Settled[i]] # NoName
    /\ \A i \in Slots : Occupied(i) => remote_name[Settled[i]] # NoName

(* The inductive invariant: through the stores of a swap every connection   *)
(* keeps exactly one slot, used slots come before unused ones, and a name   *)
(* is given once.                                                           *)
IInv == TypeOK /\ CtlInv /\ AvailInv /\ SlotInv /\ NameInv /\ OneConnPerName
=============================================================================
