---------------------------- MODULE ServerProofs ----------------------------
(***************************************************************************)
(* Server for every number of slots, of waiting connections and of client  *)
(* names: the group keeps every connection once and the live ones first, a *)
(* client never gets two connections, and accept overwrites none.          *)
(***************************************************************************)
EXTENDS Server, TLAPS

-----------------------------------------------------------------------------
(* What the parts of IInv say about a change of the slots. *)

Quiet == {"accept", "new", "close"}

(* A step that leaves the slots, the names and the descriptors to close     *)
(* alone, outside logins and disconnections, keeps what is said of them.    *)
LEMMA QuietStep ==
    ASSUME IInv, cpc \in Quiet, cpc' \in Quiet,
           UNCHANGED <<conns, live_cnt, remote_name, fd_to_close>>
    PROVE  SlotInv' /\ NameInv' /\ OneConnPerName'
<1>1. Settled' = Settled
  BY DEF Settled, Quiet
<1>2. \A i \in Slots : HasFd(i)' = HasFd(i) /\ Occupied(i)' = Occupied(i)
  BY DEF HasFd, Occupied, Quiet
<1> QED BY <1>1, <1>2 DEF IInv, SlotInv, NameInv, OneConnPerName

(* A step of the polling thread, or a Close, touches nothing that the       *)
(* control thread relies on.                                                *)
LEMMA PollStep ==
    ASSUME IInv, UNCHANGED <<group, remote_name, fd_to_close, new_conns, avail_idx, ctl>>
    PROVE  AvailInv' /\ SlotInv' /\ NameInv' /\ OneConnPerName'
<1>1. UNCHANGED <<conns, live_cnt, remote_name, fd_to_close, new_conns, avail_idx, cpc, ci, slot, tmp>>
  BY DEF group, ctl
<1>2. Settled' = Settled
  BY <1>1 DEF Settled
<1>3. \A i \in Slots : HasFd(i)' = HasFd(i) /\ Occupied(i)' = Occupied(i)
  BY <1>1 DEF HasFd, Occupied
<1> QED BY <1>1, <1>2, <1>3 DEF IInv, AvailInv, SlotInv, NameInv, OneConnPerName

-----------------------------------------------------------------------------
(* The control thread, one lemma per step. *)

LEMMA InitIInv == Init => IInv
<1> SUFFICES ASSUME Init PROVE IInv
  OBVIOUS
<1> USE ServerAssumption
<1>1. TypeOK
  BY DEF Init, TypeOK, Slots, News
<1>2. CtlInv
  BY DEF Init, CtlInv
<1>3. AvailInv
  BY DEF Init, AvailInv, News
<1>4. Settled = [i \in Slots |-> i] /\ \A i \in Slots : ~HasFd(i) /\ ~Occupied(i)
  BY DEF Init, Settled, HasFd, Occupied, Slots
<1>5. SlotInv
  BY <1>4 DEF Init, SlotInv, Permutation
<1>6. NameInv /\ OneConnPerName
  BY <1>4 DEF Init, NameInv, OneConnPerName
<1> QED BY <1>1, <1>2, <1>3, <1>5, <1>6 DEF IInv

(* An entry of new_conns_ is closed or was free, and the loop goes on.      *)
LEMMA NextNewIInv ==
    ASSUME TypeOK, CtlInv, ci < MaxNewConnections,
           cpc \in {"new", "swap2"}, NextNew, UNCHANGED <<fds, poller, live_cnt>>,
           conns' \in [Slots -> Slots], remote_name' \in [Slots -> Names \cup {NoName}],
           slot' \in Slots, tmp' \in Slots
    PROVE  TypeOK' /\ CtlInv' /\ AvailInv'
<1> USE ServerAssumption
<1>1. ci \in News /\ ci' \in Nat /\ ci' <= MaxNewConnections
  BY DEF TypeOK, NextNew, News
<1>2. TypeOK'
  BY <1>1 DEF TypeOK, NextNew, fds, poller, News
<1>3. CtlInv'
  BY <1>1 DEF CtlInv, NextNew, poller
<1>4. AvailInv'
  BY <1>1 DEF TypeOK, AvailInv, NextNew, News
<1> QED BY <1>2, <1>3, <1>4

LEMMA AcceptIInv == IInv /\ Accept => IInv'
<1> SUFFICES ASSUME IInv, Accept PROVE IInv'
  OBVIOUS
<1> USE ServerAssumption
<1>0. new_conns' \in [News -> BOOLEAN] /\ avail_idx' \in 0 .. MaxNewConnections
  <2>1. new_conns \in [News -> BOOLEAN] /\ avail_idx \in 0 .. MaxNewConnections
    BY DEF IInv, TypeOK
  <2>2. \/ new_conns' = [new_conns EXCEPT ![avail_idx] = TRUE]
        \/ new_conns' = [new_conns EXCEPT ![avail_idx] = FALSE]
        \/ new_conns' = new_conns
    BY DEF Accept
  <2>3. new_conns' \in [News -> BOOLEAN]
    BY <2>1, <2>2, Zenon
  <2>4. avail_idx' = avail_idx \/ avail_idx' = MaxNewConnections
    BY DEF Accept
  <2> QED BY <2>1, <2>3, <2>4
<1>1. TypeOK'
  BY <1>0 DEF IInv, TypeOK, Accept, group, fds, poller
<1>2. CtlInv'
  BY DEF IInv, TypeOK, CtlInv, Accept, group, fds, poller
<1>3. AvailInv'
  BY DEF IInv, TypeOK, AvailInv, Accept, News
<1>4. SlotInv' /\ NameInv' /\ OneConnPerName'
  BY QuietStep DEF Accept, Quiet, group, fds
<1> QED BY <1>1, <1>2, <1>3, <1>4 DEF IInv

LEMMA NewIInv == IInv /\ (NewFree \/ NewWait \/ NewDrop \/ NewDone) => IInv'
<1> SUFFICES ASSUME IInv, NewFree \/ NewWait \/ NewDrop \/ NewDone PROVE IInv'
  OBVIOUS
<1> USE ServerAssumption
<1>1. SlotInv' /\ NameInv' /\ OneConnPerName'
  BY QuietStep DEF NewFree, NewWait, NewDrop, NewDone, NextNew, Quiet, group, fds
<1>2. CASE NewFree \/ NewDrop
  <2>1. TypeOK' /\ CtlInv' /\ AvailInv'
    BY <1>2, NextNewIInv DEF IInv, TypeOK, NewFree, NewDrop, group
  <2> QED BY <1>1, <2>1 DEF IInv
<1>3. CASE NewWait \/ NewDone
  <2>1. TypeOK'
    BY <1>3 DEF IInv, TypeOK, NewWait, NewDone, group, fds, poller
  <2>2. CtlInv' /\ AvailInv'
    BY <1>3 DEF IInv, TypeOK, CtlInv, AvailInv, NewWait, NewDone, group, poller
  <2> QED BY <1>1, <2>1, <2>2 DEF IInv
<1> QED BY <1>2, <1>3

(* HandleLogin gives the name to the first slot that is the client's or     *)
(* unused; a slot after it that had the name would come after an unused     *)
(* one.                                                                     *)
LEMMA NameGiven ==
    ASSUME IInv, cpc = "new", NEW name \in Names, NEW i \in Unused(name),
           remote_name' = [remote_name EXCEPT ![conns[i]] = name],
           UNCHANGED <<conns, live_cnt, fd_to_close>>,
           cpc' = "new" \/ (cpc' = "open" /\ slot' = i)
    PROVE  /\ i \in Slots /\ live_cnt <= i
           /\ remote_name' \in [Slots -> Names \cup {NoName}]
           /\ SlotInv' /\ NameInv' /\ OneConnPerName'
<1> USE ServerAssumption
<1>1. /\ i \in Slots /\ live_cnt <= i /\ remote_name[conns[i]] \in {NoName, name}
      /\ \A j \in Slots : remote_name[conns[j]] \in {NoName, name} => i <= j
  BY DEF Unused, Matches, IInv, TypeOK, Slots
<1>2. /\ conns \in [Slots -> Slots] /\ remote_name \in [Slots -> Names \cup {NoName}]
      /\ conns[i] \in Slots
  BY <1>1 DEF IInv, TypeOK
<1>3. remote_name' \in [Slots -> Names \cup {NoName}]
  BY <1>2
<1>4. Settled = conns /\ Settled' = conns
  BY DEF Settled
<1>5. SlotInv'
  <2>1. \A k \in Slots : HasFd(k)' = HasFd(k)
    BY DEF HasFd
  <2> QED BY <1>4, <2>1 DEF IInv, SlotInv
<1>6. \A c \in Slots : c # conns[i] => remote_name'[c] = remote_name[c]
  BY <1>2
<1>7. remote_name'[conns[i]] = name /\ name # NoName
  BY <1>2
<1>8. \A j \in Slots : j < i => remote_name[conns[j]] # NoName
  BY <1>1 DEF Slots
<1>9. \A k \in Slots : k # i => conns[k] # conns[i]
  BY <1>1, <1>4 DEF IInv, SlotInv, Permutation
<1>10. NameInv'
  <2>1. ASSUME NEW k \in Slots, NEW j \in Slots, k < j, remote_name'[conns[j]] # NoName
        PROVE  remote_name'[conns[k]] # NoName
    <3>1. CASE j = i
      BY <1>1, <1>2, <1>6, <1>7, <1>8, <1>9, <2>1, <3>1
    <3>2. CASE j # i
      <4>1. remote_name[conns[j]] # NoName
        BY <1>2, <1>6, <1>9, <2>1, <3>2
      <4>2. remote_name[conns[k]] # NoName
        BY <1>4, <2>1, <4>1 DEF IInv, NameInv
      <4> QED BY <1>2, <1>6, <1>7, <4>2
    <3> QED BY <3>1, <3>2
  <2>2. ASSUME NEW k \in Slots, Occupied(k)'
        PROVE  remote_name'[conns[k]] # NoName
    <3>1. k < live_cnt \/ k = i
      BY <2>2, <1>1 DEF Occupied
    <3>2. CASE k = i
      BY <1>7, <3>2
    <3>3. CASE k # i
      <4>1. Occupied(k)
        BY <3>1, <3>3 DEF Occupied
      <4>2. remote_name[conns[k]] # NoName
        BY <1>4, <4>1 DEF IInv, NameInv
      <4> QED BY <1>2, <1>6, <1>9, <3>3, <4>2
    <3> QED BY <3>2, <3>3
  <2> QED BY <1>4, <2>1, <2>2 DEF NameInv
<1>11. ASSUME NEW d \in Slots, d # conns[i] PROVE remote_name[d] # name
  <2>1. PICK j \in Slots : conns[j] = d
    BY <1>4 DEF IInv, SlotInv, Permutation
  <2>2. SUFFICES ASSUME remote_name[d] = name PROVE FALSE
    OBVIOUS
  <2>3. i < j
    BY <1>1, <1>11, <2>1, <2>2 DEF Slots
  <2>4. remote_name[conns[i]] # NoName
    BY <1>1, <1>4, <1>7, <2>1, <2>2, <2>3 DEF IInv, NameInv
  <2> QED BY <1>1, <1>2, <1>7, <1>11, <2>2, <2>4 DEF IInv, OneConnPerName
<1>12. OneConnPerName'
  <2> SUFFICES ASSUME NEW c \in Slots, NEW d \in Slots, c # d, remote_name'[c] # NoName
               PROVE  remote_name'[c] # remote_name'[d]
    BY DEF OneConnPerName
  <2>1. CASE c = conns[i]
    BY <1>6, <1>7, <1>11, <2>1
  <2>2. CASE d = conns[i]
    BY <1>6, <1>7, <1>11, <2>2
  <2>3. CASE c # conns[i] /\ d # conns[i]
    BY <1>6, <2>3 DEF IInv, OneConnPerName
  <2> QED BY <2>1, <2>2, <2>3
<1> QED BY <1>1, <1>3, <1>5, <1>10, <1>12

LEMMA HandleLoginIInv ==
    ASSUME IInv, NEW name \in Names, HandleLogin(name)
    PROVE  IInv'
<1> USE ServerAssumption
<1>0. cpc = "new" /\ ci < MaxNewConnections /\ UNCHANGED <<conns, live_cnt, sockfd, fd_to_close, tmp>>
      /\ UNCHANGED <<fds, poller>>
  BY DEF HandleLogin, group, fds
<1>1. CASE NextNew /\ UNCHANGED <<remote_name, slot>>
  <2>1. TypeOK' /\ CtlInv' /\ AvailInv'
    BY <1>0, <1>1, NextNewIInv DEF IInv, TypeOK
  <2>2. SlotInv' /\ NameInv' /\ OneConnPerName'
    BY <1>0, <1>1, QuietStep DEF Quiet, NextNew
  <2> QED BY <2>1, <2>2 DEF IInv
<1>2. ASSUME NEW i \in Unused(name),
             remote_name' = [remote_name EXCEPT ![conns[i]] = name],
             \/ NextNew /\ UNCHANGED slot
             \/ cpc' = "open" /\ slot' = i /\ UNCHANGED <<ci, new_conns, avail_idx>>
      PROVE  IInv'
  <2>1. /\ i \in Slots /\ live_cnt <= i
        /\ remote_name' \in [Slots -> Names \cup {NoName}]
        /\ SlotInv' /\ NameInv' /\ OneConnPerName'
    <3>1. cpc' = "new" \/ (cpc' = "open" /\ slot' = i)
      BY <1>2 DEF NextNew
    <3> QED BY <1>0, <1>2, <3>1, NameGiven
  <2>2. CASE NextNew /\ UNCHANGED slot
    <3>1. TypeOK' /\ CtlInv' /\ AvailInv'
      BY <1>0, <2>1, <2>2, NextNewIInv DEF IInv, TypeOK
    <3> QED BY <2>1, <3>1 DEF IInv
  <2>3. CASE cpc' = "open" /\ slot' = i /\ UNCHANGED <<ci, new_conns, avail_idx>>
    <3>1. TypeOK'
      BY <1>0, <2>1, <2>3 DEF IInv, TypeOK, fds, poller
    <3>2. CtlInv' /\ AvailInv'
      BY <1>0, <2>1, <2>3 DEF IInv, TypeOK, CtlInv, AvailInv, poller
    <3> QED BY <2>1, <3>1, <3>2 DEF IInv
  <2> QED BY <1>2, <2>2, <2>3
<1> QED BY <1>1, <1>2 DEF HandleLogin

(* Open, and std::swap(grp.conns[i], grp.conns[grp.live_cnt++]).            *)
LEMMA OpenIInv == IInv /\ Open => IInv'
<1> SUFFICES ASSUME IInv, Open PROVE IInv'
  OBVIOUS
<1> USE ServerAssumption
<1>0. /\ cpc = "open" /\ cpc' = "inc" /\ conns \in [Slots -> Slots] /\ slot \in Slots
      /\ fd_to_close \in [Slots -> BOOLEAN] /\ sockfd \in [Slots -> BOOLEAN]
      /\ fd_to_close' = [fd_to_close EXCEPT ![conns[slot]] = TRUE]
      /\ sockfd' = [sockfd EXCEPT ![conns[slot]] = TRUE]
      /\ new_conns \in [News -> BOOLEAN] /\ new_conns' = [new_conns EXCEPT ![ci] = FALSE]
      /\ UNCHANGED <<conns, live_cnt, remote_name, avail_idx, ci, slot, tmp, ppc, pi, cnt, cur>>
  BY DEF IInv, TypeOK, Open, group, poller
<1>1. /\ fd_to_close' \in [Slots -> BOOLEAN] /\ sockfd' \in [Slots -> BOOLEAN]
      /\ new_conns' \in [News -> BOOLEAN]
  BY <1>0, Zenon
<1>2. TypeOK'
  BY <1>0, <1>1 DEF IInv, TypeOK
<1>3. CtlInv'
  BY <1>0 DEF IInv, CtlInv
<1>4. AvailInv'
  BY <1>0 DEF IInv, TypeOK, AvailInv, News
<1>5. Settled = conns /\ Settled' = conns
  BY <1>0 DEF Settled
<1>6. SlotInv'
  <2>1. ASSUME NEW i \in Slots PROVE fd_to_close'[conns[i]] <=> HasFd(i)'
    <3>1. HasFd(i) <=> i < live_cnt
      BY <1>0 DEF HasFd
    <3>2. HasFd(i)' <=> i < live_cnt \/ i = slot
      BY <1>0 DEF HasFd
    <3>3. CASE i = slot
      BY <1>0, <3>2, <3>3
    <3>4. CASE i # slot
      <4>1. conns[i] # conns[slot]
        BY <1>0, <1>5, <3>4 DEF IInv, SlotInv, Permutation
      <4>2. fd_to_close'[conns[i]] = fd_to_close[conns[i]]
        BY <1>0, <4>1
      <4> QED BY <1>5, <3>1, <3>2, <3>4, <4>2 DEF IInv, SlotInv
    <3> QED BY <3>3, <3>4
  <2> QED BY <1>5, <2>1 DEF IInv, SlotInv
<1>7. NameInv' /\ OneConnPerName'
  <2>1. \A i \in Slots : Occupied(i)' = Occupied(i)
    BY <1>0 DEF Occupied
  <2> QED BY <1>0, <1>5, <2>1 DEF IInv, NameInv, OneConnPerName
<1> QED BY <1>2, <1>3, <1>4, <1>6, <1>7 DEF IInv

LEMMA LiveIncIInv == IInv /\ LiveInc => IInv'
<1> SUFFICES ASSUME IInv, LiveInc PROVE IInv'
  OBVIOUS
<1> USE ServerAssumption
<1>0. /\ cpc = "inc" /\ cpc' = "swap1" /\ live_cnt' = live_cnt + 1 /\ tmp' = conns[slot]
      /\ live_cnt \in 0 .. MaxTcpConnsPerGrp /\ live_cnt <= slot /\ slot \in Slots
      /\ UNCHANGED <<conns, remote_name, sockfd, fd_to_close, new_conns, avail_idx, ci, slot, ppc, pi, cnt, cur>>
  BY DEF IInv, TypeOK, CtlInv, LiveInc, fds, poller
<1>1. TypeOK'
  <2>1. live_cnt' \in 0 .. MaxTcpConnsPerGrp
    BY <1>0 DEF Slots
  <2>2. tmp' \in Slots
    BY <1>0 DEF IInv, TypeOK
  <2> QED BY <1>0, <2>1, <2>2 DEF IInv, TypeOK
<1>2. CtlInv' /\ AvailInv'
  BY <1>0 DEF IInv, CtlInv, AvailInv, Slots
<1>3. Settled = conns /\ Settled' = conns
  BY <1>0 DEF Settled
<1>4. SlotInv'
  <2>1. \A i \in Slots : HasFd(i)' = HasFd(i)
    BY <1>0 DEF HasFd, Slots
  <2> QED BY <1>0, <1>3, <2>1 DEF IInv, SlotInv
<1>5. NameInv' /\ OneConnPerName'
  <2>1. \A i \in Slots : Occupied(i)' => i <= slot
    BY <1>0 DEF Occupied, Slots
  <2>2. Occupied(slot)
    BY <1>0 DEF Occupied
  <2>3. \A i \in Slots : i <= slot => remote_name[conns[i]] # NoName
    BY <1>0, <1>3, <2>2 DEF IInv, NameInv, Slots
  <2> QED BY <1>0, <1>3, <2>1, <2>3 DEF IInv, NameInv, OneConnPerName
<1> QED BY <1>1, <1>2, <1>4, <1>5 DEF IInv

Exchanged(f, g, a, b) ==
    \A i \in Slots : g[i] = IF i = b THEN f[a] ELSE IF i = a THEN f[b] ELSE f[i]

(* When two slots are exchanged every connection still has one slot.        *)
LEMMA Swapped ==
    ASSUME NEW f, NEW g, NEW a \in Slots, NEW b \in Slots,
           Exchanged(f, g, a, b), Permutation(f)
    PROVE  Permutation(g)
<1>1. \A i, j \in Slots : i # j => g[i] # g[j]
  BY DEF Exchanged, Permutation
<1>2. ASSUME NEW c \in Slots PROVE \E i \in Slots : g[i] = c
  <2>1. PICK i \in Slots : f[i] = c
    BY DEF Permutation
  <2> QED BY <2>1 DEF Exchanged
<1> QED BY <1>1, <1>2 DEF Permutation

LEMMA LiveSwap1IInv == IInv /\ LiveSwap1 => IInv'
<1> SUFFICES ASSUME IInv, LiveSwap1 PROVE IInv'
  OBVIOUS
<1> USE ServerAssumption
<1> DEFINE b == live_cnt - 1
<1>0. /\ cpc = "swap1" /\ cpc' = "swap2" /\ tmp = conns[slot] /\ conns \in [Slots -> Slots]
      /\ conns' = [conns EXCEPT ![slot] = conns[live_cnt - 1]]
      /\ live_cnt \in 0 .. MaxTcpConnsPerGrp /\ 1 <= live_cnt /\ b <= slot /\ slot \in Slots
      /\ UNCHANGED <<live_cnt, remote_name, sockfd, fd_to_close, new_conns, avail_idx, ci, slot, tmp,
                     ppc, pi, cnt, cur>>
  <2>1. /\ cpc = "swap1" /\ cpc' = "swap2" /\ tmp = conns[slot] /\ conns \in [Slots -> Slots]
        /\ conns' = [conns EXCEPT ![slot] = conns[live_cnt - 1]]
        /\ live_cnt \in 0 .. MaxTcpConnsPerGrp /\ slot \in Slots
        /\ 1 <= live_cnt /\ live_cnt <= slot + 1
        /\ UNCHANGED <<live_cnt, remote_name, sockfd, fd_to_close, new_conns, avail_idx, ci, slot, tmp,
                       ppc, pi, cnt, cur>>
    BY DEF IInv, TypeOK, CtlInv, LiveSwap1, fds, poller
  <2>2. b <= slot
    BY <2>1 DEF Slots
  <2> QED BY <2>1, <2>2
<1>1. /\ b \in Slots /\ b \in Nat /\ slot \in Nat /\ live_cnt \in Nat /\ Slots \subseteq Nat
      /\ \A i \in Nat : i < live_cnt <=> i < b \/ i = b
  <2>1. live_cnt \in Nat /\ slot \in Nat /\ Slots \subseteq Nat /\ MaxTcpConnsPerGrp \in Nat
    BY ONLY <1>0, ServerAssumption DEF Slots
  <2>2. 1 <= live_cnt /\ live_cnt <= MaxTcpConnsPerGrp
    BY ONLY <1>0, <2>1
  <2>3. b \in Nat /\ b <= MaxTcpConnsPerGrp - 1
    BY ONLY <2>1, <2>2
  <2>4. b \in Slots
    BY ONLY <2>1, <2>3 DEF Slots
  <2>5. \A i \in Nat : i < live_cnt <=> i < b \/ i = b
    BY ONLY <2>1
  <2> QED BY ONLY <2>1, <2>3, <2>4, <2>5
<1>2. TypeOK'
  <2>1. conns' \in [Slots -> Slots]
    BY <1>0, <1>1
  <2> QED BY <1>0, <2>1 DEF IInv, TypeOK
<1>3. CtlInv' /\ AvailInv'
  BY <1>0 DEF IInv, CtlInv, AvailInv
<1>4. Settled = conns /\ Settled' = [[conns EXCEPT ![slot] = conns[b]] EXCEPT ![b] = conns[slot]]
  BY <1>0 DEF Settled
<1> HIDE DEF b
<1>5. Exchanged(conns, Settled', slot, b) /\ Permutation(Settled')
  <2>1. Permutation(conns)
    BY <1>4 DEF IInv, SlotInv
  <2>2. Exchanged(conns, Settled', slot, b)
    BY <1>0, <1>1, <1>4 DEF Exchanged
  <2> QED BY <1>0, <1>1, <2>1, <2>2, Swapped
<1>6. SlotInv'
  <2>1. ASSUME NEW i \in Slots PROVE fd_to_close[Settled'[i]] <=> HasFd(i)'
    <3>1. \A j \in Slots : fd_to_close[conns[j]] <=> (j < b \/ j = slot)
      BY <1>0, <1>4 DEF IInv, SlotInv, HasFd, b
    <3>2. HasFd(i)' <=> i < live_cnt
      BY <1>0 DEF HasFd
    <3>3. CASE i = b
      BY <1>0, <1>1, <1>5, <3>1, <3>2, <3>3 DEF Exchanged
    <3>4. CASE i = slot /\ i # b
      <4>1. ~(i < b) /\ ~(b < b) /\ b # slot
        BY <1>0, <1>1, <3>4
      <4> QED BY <1>0, <1>1, <1>5, <3>1, <3>2, <3>4, <4>1 DEF Exchanged
    <3>5. CASE i # slot /\ i # b
      BY <1>0, <1>1, <1>5, <3>1, <3>2, <3>5 DEF Exchanged
    <3> QED BY <3>3, <3>4, <3>5
  <2> QED BY <1>0, <1>5, <2>1 DEF SlotInv
<1>7. NameInv' /\ OneConnPerName'
  <2>1. \A i \in Slots : i <= slot => remote_name[conns[i]] # NoName
    BY <1>0, <1>4 DEF IInv, NameInv, Occupied, Slots
  <2>2. \A i \in Slots : i <= slot => remote_name[Settled'[i]] # NoName
    BY <1>0, <1>1, <1>5, <2>1 DEF Exchanged
  <2>3. \A i \in Slots : i > slot => Settled'[i] = conns[i]
    BY <1>0, <1>1, <1>5 DEF Exchanged
  <2>4. \A i, j \in Slots :
           i < j /\ remote_name[Settled'[j]] # NoName => remote_name[Settled'[i]] # NoName
    BY <1>0, <1>1, <1>4, <2>2, <2>3 DEF IInv, NameInv
  <2>5. \A i \in Slots : Occupied(i)' => i <= slot
    BY <1>0, <1>1 DEF Occupied
  <2> QED BY <1>0, <2>2, <2>4, <2>5 DEF IInv, NameInv, OneConnPerName
<1> QED BY <1>2, <1>3, <1>6, <1>7 DEF IInv

LEMMA LiveSwap2IInv == IInv /\ LiveSwap2 => IInv'
<1> SUFFICES ASSUME IInv, LiveSwap2 PROVE IInv'
  OBVIOUS
<1> USE ServerAssumption
<1>0. /\ cpc = "swap2" /\ cpc' = "new" /\ conns' = [conns EXCEPT ![live_cnt - 1] = tmp]
      /\ UNCHANGED <<live_cnt, remote_name, fds, fd_to_close, poller>>
      /\ slot' = 0 /\ tmp' = 0
  BY DEF LiveSwap2, NextNew, fds
<1>1. conns' \in [Slots -> Slots] /\ 0 \in Slots
  <2>1. conns \in [Slots -> Slots] /\ tmp \in Slots
    BY DEF IInv, TypeOK
  <2>2. 0 \in Slots
    BY DEF Slots
  <2> QED BY <1>0, <2>1, <2>2
<1>2. TypeOK' /\ CtlInv' /\ AvailInv'
  BY <1>0, <1>1, NextNewIInv DEF IInv, TypeOK, CtlInv, LiveSwap2
<1>3. Settled' = Settled
  BY <1>0 DEF Settled
<1>4. \A i \in Slots : HasFd(i)' = HasFd(i) /\ Occupied(i)' = Occupied(i)
  BY <1>0 DEF HasFd, Occupied
<1> QED BY <1>0, <1>2, <1>3, <1>4 DEF IInv, SlotInv, NameInv, OneConnPerName

-----------------------------------------------------------------------------
(* Closing: TryCloseFd, and std::swap(grp.conns[i], grp.conns[--grp.live_cnt]). *)

LEMMA TryCloseFdIInv == IInv /\ TryCloseFd => IInv'
<1> SUFFICES ASSUME IInv, TryCloseFd PROVE IInv'
  OBVIOUS
<1> USE ServerAssumption
<1>0. /\ cpc = "close" /\ cpc' = "dec" /\ conns \in [Slots -> Slots] /\ ci < live_cnt
      /\ ci \in Nat /\ live_cnt \in 0 .. MaxTcpConnsPerGrp
      /\ fd_to_close \in [Slots -> BOOLEAN]
      /\ fd_to_close' = [fd_to_close EXCEPT ![conns[ci]] = FALSE]
      /\ UNCHANGED <<conns, live_cnt, remote_name, sockfd, new_conns, avail_idx, ci, slot, tmp,
                     ppc, pi, cnt, cur>>
  BY DEF IInv, TypeOK, TryCloseFd, group, poller
<1>1. ci \in Slots
  BY <1>0 DEF Slots
<1>2. fd_to_close' \in [Slots -> BOOLEAN]
  BY <1>0, Zenon
<1>3. TypeOK'
  BY <1>0, <1>2 DEF IInv, TypeOK
<1>4. CtlInv' /\ AvailInv'
  BY <1>0 DEF IInv, CtlInv, AvailInv
<1>5. Settled = conns /\ Settled' = conns
  BY <1>0 DEF Settled
<1>6. SlotInv'
  <2>1. ASSUME NEW i \in Slots PROVE fd_to_close'[conns[i]] <=> HasFd(i)'
    <3>1. HasFd(i) <=> i < live_cnt
      BY <1>0 DEF HasFd
    <3>2. HasFd(i)' <=> i < live_cnt /\ i # ci
      BY <1>0 DEF HasFd
    <3>3. CASE i = ci
      BY <1>0, <1>1, <3>2, <3>3
    <3>4. CASE i # ci
      <4>1. conns[i] # conns[ci]
        BY <1>1, <1>5, <3>4 DEF IInv, SlotInv, Permutation
      <4>2. fd_to_close'[conns[i]] = fd_to_close[conns[i]]
        BY <1>0, <4>1
      <4> QED BY <1>5, <3>1, <3>2, <3>4, <4>2 DEF IInv, SlotInv
    <3> QED BY <3>3, <3>4
  <2> QED BY <1>5, <2>1 DEF IInv, SlotInv
<1>7. NameInv' /\ OneConnPerName'
  <2>1. \A i \in Slots : Occupied(i)' = Occupied(i)
    BY <1>0 DEF Occupied
  <2> QED BY <1>0, <1>5, <2>1 DEF IInv, NameInv, OneConnPerName
<1> QED BY <1>3, <1>4, <1>6, <1>7 DEF IInv

LEMMA CloseLoopIInv == IInv /\ (StillOpen \/ CloseDone) => IInv'
<1> SUFFICES ASSUME IInv, StillOpen \/ CloseDone PROVE IInv'
  OBVIOUS
<1> USE ServerAssumption
<1>1. SlotInv' /\ NameInv' /\ OneConnPerName'
  BY QuietStep DEF StillOpen, CloseDone, Quiet, group, fds
<1>2. TypeOK'
  BY DEF IInv, TypeOK, StillOpen, CloseDone, group, fds, poller
<1>3. CtlInv' /\ AvailInv'
  BY DEF IInv, TypeOK, CtlInv, AvailInv, StillOpen, CloseDone, group, poller
<1> QED BY <1>1, <1>2, <1>3 DEF IInv

LEMMA LiveDecIInv == IInv /\ LiveDec => IInv'
<1> SUFFICES ASSUME IInv, LiveDec PROVE IInv'
  OBVIOUS
<1> USE ServerAssumption
<1>0. /\ cpc = "dec" /\ cpc' = "cswap1" /\ live_cnt' = live_cnt - 1 /\ tmp' = conns[ci]
      /\ live_cnt \in 0 .. MaxTcpConnsPerGrp /\ ci < live_cnt /\ ci \in Nat
      /\ UNCHANGED <<conns, remote_name, sockfd, fd_to_close, new_conns, avail_idx, ci, slot,
                     ppc, pi, cnt, cur>>
  BY DEF IInv, TypeOK, CtlInv, LiveDec, fds, poller
<1>1. ci \in Slots /\ live_cnt' \in 0 .. MaxTcpConnsPerGrp /\ live_cnt' < MaxTcpConnsPerGrp
      /\ ci <= live_cnt'
  BY <1>0 DEF Slots
<1>2. TypeOK'
  <2>1. tmp' \in Slots
    BY <1>0, <1>1 DEF IInv, TypeOK
  <2> QED BY <1>0, <1>1, <2>1 DEF IInv, TypeOK
<1>3. CtlInv' /\ AvailInv'
  BY <1>0, <1>1 DEF IInv, CtlInv, AvailInv
<1>4. Settled = conns /\ Settled' = conns
  BY <1>0 DEF Settled
<1>5. \A i \in Slots : i <= live_cnt' <=> i < live_cnt
  BY <1>0 DEF Slots
<1>6. SlotInv'
  <2>1. \A i \in Slots : HasFd(i)' = HasFd(i)
    BY <1>0, <1>5 DEF HasFd
  <2> QED BY <1>0, <1>4, <2>1 DEF IInv, SlotInv
<1>7. NameInv' /\ OneConnPerName'
  <2>1. \A i \in Slots : Occupied(i)' => Occupied(i)
    BY <1>0, <1>5 DEF Occupied, Slots
  <2> QED BY <1>0, <1>4, <2>1 DEF IInv, NameInv, OneConnPerName
<1> QED BY <1>2, <1>3, <1>6, <1>7 DEF IInv

LEMMA CloseSwap1IInv == IInv /\ CloseSwap1 => IInv'
<1> SUFFICES ASSUME IInv, CloseSwap1 PROVE IInv'
  OBVIOUS
<1> USE ServerAssumption
<1>0. /\ cpc = "cswap1" /\ cpc' = "cswap2" /\ tmp = conns[ci] /\ conns \in [Slots -> Slots]
      /\ conns' = [conns EXCEPT ![ci] = conns[live_cnt]]
      /\ live_cnt \in 0 .. MaxTcpConnsPerGrp /\ ci <= live_cnt /\ live_cnt < MaxTcpConnsPerGrp
      /\ ci \in Nat
      /\ UNCHANGED <<live_cnt, remote_name, sockfd, fd_to_close, new_conns, avail_idx, ci, slot, tmp,
                     ppc, pi, cnt, cur>>
  BY DEF IInv, TypeOK, CtlInv, CloseSwap1, fds, poller
<1>1. live_cnt \in Slots /\ ci \in Slots /\ live_cnt \in Nat /\ Slots \subseteq Nat
  BY <1>0 DEF Slots
<1>2. TypeOK'
  <2>1. conns' \in [Slots -> Slots]
    BY <1>0, <1>1
  <2> QED BY <1>0, <2>1 DEF IInv, TypeOK
<1>3. CtlInv' /\ AvailInv'
  BY <1>0 DEF IInv, CtlInv, AvailInv
<1>4. Settled = conns /\ Settled' = [conns' EXCEPT ![live_cnt] = conns[ci]]
  BY <1>0 DEF Settled
<1>5. Exchanged(conns, Settled', ci, live_cnt) /\ Permutation(Settled')
  <2>1. Permutation(conns)
    BY <1>4 DEF IInv, SlotInv
  <2>2. Exchanged(conns, Settled', ci, live_cnt)
    BY <1>0, <1>1, <1>4 DEF Exchanged
  <2> QED BY <1>0, <1>1, <2>1, <2>2, Swapped
<1>6. SlotInv'
  <2>1. ASSUME NEW i \in Slots PROVE fd_to_close[Settled'[i]] <=> HasFd(i)'
    <3>1. \A j \in Slots : fd_to_close[conns[j]] <=> (j <= live_cnt /\ j # ci)
      BY <1>0, <1>4 DEF IInv, SlotInv, HasFd
    <3>2. HasFd(i)' <=> i < live_cnt
      BY <1>0 DEF HasFd
    <3>3. CASE i = live_cnt
      BY <1>0, <1>1, <1>5, <3>1, <3>2, <3>3 DEF Exchanged
    <3>4. CASE i = ci /\ i # live_cnt
      BY <1>0, <1>1, <1>5, <3>1, <3>2, <3>4 DEF Exchanged
    <3>5. CASE i # ci /\ i # live_cnt
      BY <1>0, <1>1, <1>5, <3>1, <3>2, <3>5 DEF Exchanged
    <3> QED BY <3>3, <3>4, <3>5
  <2> QED BY <1>0, <1>5, <2>1 DEF SlotInv
<1>7. NameInv' /\ OneConnPerName'
  <2>1. \A i \in Slots : i <= live_cnt => remote_name[conns[i]] # NoName
    BY <1>0, <1>4 DEF IInv, NameInv, Occupied
  <2>2. \A i \in Slots : i <= live_cnt => remote_name[Settled'[i]] # NoName
    BY <1>0, <1>1, <1>5, <2>1 DEF Exchanged
  <2>3. \A i \in Slots : i > live_cnt => Settled'[i] = conns[i]
    BY <1>0, <1>1, <1>5 DEF Exchanged
  <2>4. \A i, j \in Slots :
           i < j /\ remote_name[Settled'[j]] # NoName => remote_name[Settled'[i]] # NoName
    BY <1>0, <1>1, <1>4, <2>2, <2>3 DEF IInv, NameInv
  <2>5. \A i \in Slots : Occupied(i)' => i <= live_cnt
    BY <1>0, <1>1 DEF Occupied
  <2> QED BY <1>0, <2>2, <2>4, <2>5 DEF IInv, NameInv, OneConnPerName
<1> QED BY <1>2, <1>3, <1>6, <1>7 DEF IInv

LEMMA CloseSwap2IInv == IInv /\ CloseSwap2 => IInv'
<1> SUFFICES ASSUME IInv, CloseSwap2 PROVE IInv'
  OBVIOUS
<1> USE ServerAssumption
<1>0. /\ cpc = "cswap2" /\ cpc' = "close" /\ conns' = [conns EXCEPT ![live_cnt] = tmp] /\ tmp' = 0
      /\ UNCHANGED <<live_cnt, remote_name, sockfd, fd_to_close, new_conns, avail_idx, ci, slot,
                     ppc, pi, cnt, cur>>
  BY DEF CloseSwap2, fds, poller
<1>1. conns' \in [Slots -> Slots] /\ 0 \in Slots
  <2>1. conns \in [Slots -> Slots] /\ tmp \in Slots
    BY DEF IInv, TypeOK
  <2>2. 0 \in Slots
    BY DEF Slots
  <2> QED BY <1>0, <2>1, <2>2
<1>2. TypeOK'
  BY <1>0, <1>1 DEF IInv, TypeOK
<1>3. CtlInv' /\ AvailInv'
  BY <1>0 DEF IInv, CtlInv, AvailInv
<1>4. Settled' = Settled
  BY <1>0 DEF Settled
<1>5. \A i \in Slots : HasFd(i)' = HasFd(i) /\ Occupied(i)' = Occupied(i)
  BY <1>0 DEF HasFd, Occupied
<1> QED BY <1>0, <1>2, <1>3, <1>4, <1>5 DEF IInv, SlotInv, NameInv, OneConnPerName

-----------------------------------------------------------------------------
(* The polling thread, RequestClose and Stop. *)

LEMMA PollIInv == IInv /\ (Poll \/ \E c \in Slots : Close(c)) => IInv'
<1> SUFFICES ASSUME IInv, Poll \/ \E c \in Slots : Close(c) PROVE IInv'
  OBVIOUS
<1> USE ServerAssumption
<1>1. CASE PollTcp \/ VisitDone
  <2>1. AvailInv' /\ SlotInv' /\ NameInv' /\ OneConnPerName'
    BY <1>1, PollStep DEF PollTcp, VisitDone, fds
  <2>2. 0 \in Slots
    BY DEF Slots
  <2>3. TypeOK'
    BY <1>1, <2>2 DEF IInv, TypeOK, CtlInv, PollTcp, VisitDone, group, fds, ctl
  <2>4. CtlInv'
    BY <1>1 DEF IInv, CtlInv, PollTcp, VisitDone, group, ctl
  <2> QED BY <2>1, <2>3, <2>4 DEF IInv
<1>2. CASE Visit
  <2>1. AvailInv' /\ SlotInv' /\ NameInv' /\ OneConnPerName'
    BY <1>2, PollStep DEF Visit, fds
  <2>2. PICK n \in {cnt, live_cnt} :
          \/ pi < n /\ ppc' = "visit" /\ cnt' = n /\ cur' = conns[pi] /\ UNCHANGED pi
          \/ pi >= n /\ ppc' = "idle" /\ cnt' = 0 /\ pi' = 0 /\ UNCHANGED cur
    BY <1>2 DEF Visit
  <2>3. n \in 0 .. MaxTcpConnsPerGrp /\ pi \in Nat /\ (pi < n => pi \in Slots)
        /\ (pi < n => pi < MaxTcpConnsPerGrp)
    <3>1. n \in 0 .. MaxTcpConnsPerGrp /\ pi \in 0 .. MaxTcpConnsPerGrp
      BY DEF IInv, TypeOK
    <3> QED BY <3>1 DEF Slots
  <2>4. cur' \in Slots /\ pi' \in 0 .. MaxTcpConnsPerGrp /\ cnt' \in 0 .. MaxTcpConnsPerGrp
        /\ ppc' \in {"idle", "visit"} /\ (ppc' = "visit" => pi' < MaxTcpConnsPerGrp)
    BY <2>2, <2>3 DEF IInv, TypeOK
  <2>5. TypeOK'
    BY <1>2, <2>4 DEF IInv, TypeOK, Visit, group, fds, ctl
  <2>6. CtlInv'
    BY <1>2, <2>4 DEF IInv, CtlInv, Visit, group, ctl
  <2> QED BY <2>1, <2>5, <2>6 DEF IInv
<1>3. ASSUME NEW c \in Slots, Close(c) PROVE IInv'
  <2>1. AvailInv' /\ SlotInv' /\ NameInv' /\ OneConnPerName'
    BY <1>3, PollStep DEF Close
  <2>2. sockfd' \in [Slots -> BOOLEAN]
    <3>1. sockfd \in [Slots -> BOOLEAN] /\ sockfd' = [sockfd EXCEPT ![c] = FALSE]
      BY <1>3 DEF IInv, TypeOK, Close
    <3> QED BY <3>1, Zenon
  <2>3. TypeOK'
    BY <1>3, <2>2 DEF IInv, TypeOK, Close, group, ctl, poller
  <2>4. CtlInv'
    BY <1>3 DEF IInv, CtlInv, Close, group, ctl, poller
  <2> QED BY <2>1, <2>3, <2>4 DEF IInv
<1> QED BY <1>1, <1>2, <1>3 DEF Poll

LEMMA StopIInv == IInv /\ Stop => IInv'
<1> SUFFICES ASSUME IInv, Stop PROVE IInv'
  OBVIOUS
<1> USE ServerAssumption
<1>0. /\ cpc = "accept" /\ cpc' = "accept" /\ ppc' = "idle" /\ live_cnt' = 0 /\ avail_idx' = 0
      /\ new_conns' = [i \in News |-> FALSE] /\ remote_name' = [c \in Slots |-> NoName]
      /\ sockfd' = [c \in Slots |-> FALSE] /\ fd_to_close' = [c \in Slots |-> FALSE]
      /\ UNCHANGED <<conns, ci, slot, tmp, pi, cnt, cur>>
  BY DEF Stop, ctl, poller
<1>1. TypeOK'
  BY <1>0 DEF IInv, TypeOK
<1>2. CtlInv' /\ AvailInv'
  BY <1>0 DEF IInv, CtlInv, AvailInv, News
<1>3. Settled = conns /\ Settled' = conns
  BY <1>0 DEF Settled
<1>4. \A i \in Slots : conns[i] \in Slots /\ ~HasFd(i)' /\ ~Occupied(i)'
  BY <1>0 DEF IInv, TypeOK, HasFd, Occupied, Slots
<1>5. SlotInv'
  BY <1>0, <1>3, <1>4 DEF IInv, SlotInv
<1>6. NameInv' /\ OneConnPerName'
  BY <1>0, <1>3, <1>4 DEF IInv, NameInv, OneConnPerName
<1> QED BY <1>1, <1>2, <1>5, <1>6 DEF IInv

-----------------------------------------------------------------------------
(* IInv is an invariant of both threads together. *)
LEMMA NextIInv == IInv /\ [Next]_vars => IInv'
<1> SUFFICES ASSUME IInv, [Next]_vars PROVE IInv'
  OBVIOUS
<1>1. CASE PollCtl
  BY <1>1, AcceptIInv, NewIInv, HandleLoginIInv, OpenIInv, LiveIncIInv, LiveSwap1IInv,
     LiveSwap2IInv, TryCloseFdIInv, CloseLoopIInv, LiveDecIInv, CloseSwap1IInv, CloseSwap2IInv
     DEF PollCtl
<1>2. CASE UNCHANGED vars
  <2>1. UNCHANGED <<conns, live_cnt, remote_name, sockfd, fd_to_close, new_conns, avail_idx,
                    cpc, ci, slot, tmp, ppc, pi, cnt, cur>>
    BY <1>2 DEF vars, group, fds, ctl, poller
  <2>2. AvailInv' /\ SlotInv' /\ NameInv' /\ OneConnPerName'
    BY <2>1, PollStep DEF group, ctl
  <2>3. TypeOK' /\ CtlInv'
    BY <2>1 DEF IInv, TypeOK, CtlInv
  <2> QED BY <2>2, <2>3 DEF IInv
<1> QED BY <1>1, <1>2, PollIInv, StopIInv DEF Next

LEMMA Invariant == Spec => []IInv
BY InitIInv, NextIInv, PTL DEF Spec

(* Whatever the clients do, and whenever the two threads are interrupted,   *)
(* no store or load of PollCtl and PollTcp leaves the group's slots.        *)
THEOREM TypeCorrect == Spec => []TypeOK
<1>1. IInv => TypeOK
  BY DEF IInv
<1> QED BY <1>1, Invariant, PTL

(* PollCtl's swaps lose and duplicate no connection, and keep the ones with *)
(* a descriptor exactly the live_cnt first, for any number of slots.        *)
THEOREM LiveConnectionsFirst == Spec => []LiveFirst
<1>1. IInv => LiveFirst
  <2> SUFFICES ASSUME IInv, Stable PROVE /\ \A i, j \in Slots : i # j => conns[i] # conns[j]
                                         /\ \A i \in Slots : fd_to_close[conns[i]] <=> i < live_cnt
    BY DEF LiveFirst
  <2>1. Settled = conns
    BY DEF Settled, Stable
  <2>2. \A i \in Slots : HasFd(i) <=> i < live_cnt
    BY DEF HasFd, Stable
  <2> QED BY <2>1, <2>2 DEF IInv, SlotInv, Permutation
<1> QED BY <1>1, Invariant, PTL

(* HandleLogin never gives one name to two connections, although its search *)
(* takes the first slot that is unused or has the name and the swaps        *)
(* reorder the slots, for any number of clients and slots.                  *)
THEOREM NamesUnique == Spec => []OneConnPerName
<1>1. IInv => OneConnPerName
  BY DEF IInv
<1> QED BY <1>1, Invariant, PTL

(* accept never puts a descriptor over one that waits for its login:        *)
(* avail_idx_, left by the last PollCtl, is still a free entry.             *)
THEOREM AcceptOverwritesNone == Spec => AcceptFree
<1>1. IInv => (Accept /\ avail_idx # MaxNewConnections => ~new_conns[avail_idx])
  BY DEF IInv, AvailInv
<1> QED BY <1>1, Invariant, PTL DEF AcceptFree
=============================================================================
