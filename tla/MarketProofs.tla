---------------------------- MODULE MarketProofs ----------------------------
(***************************************************************************)
(* Market for every set of clients, every length of the rings and every    *)
(* number of messages and faults.                                          *)
(***************************************************************************)
EXTENDS Market, SequenceTheorems, TLAPS

LoginMsg == [client : Clients, last_server_name : {NoServer, ServerName}, mine : BOOLEAN]

Typed ==
    /\ ring \in [Clients -> Seq(Content)] /\ left \in [Clients -> Seq(Content)]
    /\ last_server \in [Clients -> {NoServer, ServerName}]
    /\ proc \in [Clients -> {"down", "login", "reset", "up"}]
    /\ conn \in [Clients -> {"closed", "open", "closing"}]
    /\ link \in [Clients -> BOOLEAN] /\ rsp \in [Clients -> {-1, 0, 2}]
    /\ logins \subseteq LoginMsg
    /\ faults \in 0 .. MaxFaults
    /\ active \in Seq(Clients) /\ todo \in Seq(Clients)
    /\ ppc \in {"snap", "check", "alloc", "push"} /\ held \in BOOLEAN
    /\ total_sent \in 0 .. MaxNum /\ recv_num \in [Clients -> 0 .. MaxNum]
    /\ lost \in [Clients -> BOOLEAN] /\ again \in [Clients -> BOOLEAN]

LinkInv == \A c \in Clients : link[c] => conn[c] # "closed"

\* The publisher has a connection to serve and a number for it, and the room
\* that Alloc has found is still there.
PublishInv ==
    /\ ppc # "snap" => todo # <<>> /\ total_sent < MaxNum
    /\ ppc = "push" => Used(Head(todo)) < QCap

RoomInv == \A c \in Clients : Used(c) <= QCap

\* What is left behind write_idx_atom will reach a client out of its turn.
LeftInv == \A c \in Clients : left[c] # <<>> => lost[c]

\* The number that c's process expects, or the next one will.
Base(c) == IF proc[c] = "up" THEN recv_num[c] ELSE 0

\* r holds the numbers from n up to t.
Numbers(r, n, t) ==
    /\ n <= t /\ Len(r) = t - n
    /\ \A i \in 1 .. Len(r) : r[i] = Msg(n + i - 1)

\* InStep also before a process has logged in: nothing has been consumed yet.
StepInv ==
    \A c \in Clients : ~lost[c] /\ ~again[c] => Numbers(ring[c], Base(c), total_sent)

(* The inductive invariant. *)
IInv == Typed /\ LinkInv /\ PublishInv /\ RoomInv /\ LeftInv /\ ActiveOnce /\ StepInv

-----------------------------------------------------------------------------
(* Sequences. *)

LEMMA MarketNat ==
    /\ Pairs \in Nat /\ Pairs > 0 /\ MaxNum \in Nat /\ QCap \in Nat /\ QCap > 0
    /\ MaxFaults \in Nat
    /\ Junk \in Content /\ \A n \in Nat : Msg(n) \in Content
BY MarketAssumption, ShmAssumption DEF Msg, Junk, Content

\* a messages in the ring and b behind write_idx_atom.
LEMMA RoomLeft ==
    \A a, b, q \in Nat : /\ a + b < q => a + (b + 1) <= q
                         /\ a + b <= q => a <= q
OBVIOUS

LEMMA RoomGrows ==
    \A a, b, d \in Nat : d <= a => d + b <= a + b /\ a + b \in Nat /\ d + b \in Nat
OBVIOUS

\* A connection that is not in the list is added.
LEMMA AppendOnce ==
    ASSUME NEW S, NEW s \in Seq(S), NEW c \in S, IsInjective(s), c \notin ToSet(s)
    PROVE  /\ Append(s, c) \in Seq(S) /\ IsInjective(Append(s, c))
           /\ ToSet(Append(s, c)) = ToSet(s) \cup {c}
<1> DEFINE t == Append(s, c)
<1>1. /\ t \in Seq(S) /\ Len(t) = Len(s) + 1 /\ DOMAIN t = 1 .. Len(s) + 1 /\ DOMAIN s = 1 .. Len(s)
      /\ Len(s) \in Nat
      /\ t[Len(s) + 1] = c /\ \A i \in 1 .. Len(s) : t[i] = s[i]
  OBVIOUS
<1> HIDE DEF t
<1>2. IsInjective(t)
  BY <1>1 DEF IsInjective, ToSet
<1>3. ToSet(t) = ToSet(s) \cup {c}
  <2>1. ASSUME NEW x \in ToSet(t) PROVE x \in ToSet(s) \cup {c}
    <3>1. PICK i \in 1 .. Len(s) + 1 : x = t[i]
      BY <2>1, <1>1 DEF ToSet
    <3> QED BY <3>1, <1>1 DEF ToSet
  <2>2. ASSUME NEW x \in ToSet(s) \cup {c} PROVE x \in ToSet(t)
    <3>1. CASE x = c
      BY <3>1, <1>1 DEF ToSet
    <3>2. CASE x \in ToSet(s)
      <4>1. PICK i \in 1 .. Len(s) : x = s[i]
        BY <3>2, <1>1 DEF ToSet
      <4>2. i \in 1 .. Len(s) + 1 /\ x = t[i]
        BY <4>1, <1>1
      <4> QED BY <4>2, <1>1 DEF ToSet
    <3> QED BY <2>2, <3>1, <3>2
  <2> QED BY <2>1, <2>2
<1> QED BY <1>1, <1>2, <1>3 DEF t

\* The one entry of a connection is removed.
LEMMA RemoveOnce ==
    ASSUME NEW S, NEW s \in Seq(S), NEW c, IsInjective(s), c \in ToSet(s)
    PROVE  /\ RemoveFirst(s, c) \in Seq(S) /\ IsInjective(RemoveFirst(s, c))
           /\ ToSet(RemoveFirst(s, c)) = ToSet(s) \ {c}
<1>1. PICK k \in 1 .. Len(s) : s[k] = c
  BY DEF ToSet
<1>2. \A i \in 1 .. Len(s) : s[i] = c => i = k
  BY <1>1 DEF IsInjective
<1>3. {i \in 1 .. Len(s) : s[i] = c} = {k}
  BY <1>1, <1>2
<1>4. Min({k}) = k
  BY DEF Min
<1>5. SelectInSeq(s, LAMBDA v : v = c) = k
  BY <1>3, <1>4 DEF SelectInSeq
<1> DEFINE t == SubSeq(s, 1, k - 1) \o SubSeq(s, k + 1, Len(s))
<1>6. RemoveFirst(s, c) = t
  BY <1>1, <1>5 DEF RemoveFirst, RemoveAt
<1>7. /\ t \in Seq(S) /\ Len(t) = Len(s) - 1 /\ DOMAIN t = 1 .. Len(s) - 1
      /\ DOMAIN s = 1 .. Len(s) /\ Len(s) \in Nat
      /\ \A i \in 1 .. Len(s) - 1 : t[i] = IF i < k THEN s[i] ELSE s[i + 1]
  <2> DEFINE a == SubSeq(s, 1, k - 1)
             d == SubSeq(s, k + 1, Len(s))
  <2>1. /\ a \in Seq(S) /\ Len(a) = k - 1
        /\ \A i \in 1 .. k - 1 : a[i] = s[i]
    BY <1>1
  <2>2. /\ d \in Seq(S) /\ Len(d) = Len(s) - k
        /\ \A i \in 1 .. Len(s) - k : d[i] = s[i + k]
    BY <1>1
  <2>3. /\ a \o d \in Seq(S) /\ Len(a \o d) = Len(s) - 1
        /\ \A i \in 1 .. Len(s) - 1 : (a \o d)[i] = IF i < k THEN a[i] ELSE d[i - (k - 1)]
    <3> HIDE DEF a, d
    <3>1. /\ a \o d \in Seq(S) /\ Len(a \o d) = Len(a) + Len(d)
          /\ \A i \in 1 .. Len(a) + Len(d) :
               (a \o d)[i] = IF i <= Len(a) THEN a[i] ELSE d[i - Len(a)]
      BY <2>1, <2>2, ConcatProperties
    <3>2. /\ Len(a) + Len(d) = Len(s) - 1 /\ Len(a) = k - 1
          /\ \A i \in 1 .. Len(s) - 1 : i <= Len(a) <=> i < k
      BY <2>1, <2>2, <1>1
    <3> QED BY <3>1, <3>2
  <2>5. t = a \o d
    OBVIOUS
  <2> HIDE DEF a, d, t
  <2>4. ASSUME NEW i \in 1 .. Len(s) - 1 PROVE t[i] = IF i < k THEN s[i] ELSE s[i + 1]
    <3>1. CASE i < k
      BY <3>1, <2>1, <2>3, <2>5, <1>1
    <3>2. CASE i >= k
      <4>1. i - (k - 1) \in 1 .. Len(s) - k /\ i - (k - 1) + k = i + 1
        BY <3>2, <1>1
      <4>2. d[i - (k - 1)] = s[i + 1]
        BY <4>1, <2>2
      <4> QED BY <4>2, <3>2, <2>3, <2>5, <1>1
    <3> QED BY <3>1, <3>2, <1>1
  <2> QED BY <2>3, <2>4, <2>5
<1> HIDE DEF t
<1>8. IsInjective(t)
  <2>1. ASSUME NEW i \in 1 .. Len(s) - 1, NEW j \in 1 .. Len(s) - 1, t[i] = t[j] PROVE i = j
    <3> DEFINE P(n) == IF n < k THEN n ELSE n + 1
    <3>1. /\ P(i) \in 1 .. Len(s) /\ P(j) \in 1 .. Len(s) /\ (P(i) = P(j) => i = j)
      BY <1>1, <1>7
    <3>2. t[i] = s[P(i)] /\ t[j] = s[P(j)]
      BY <1>7
    <3> HIDE DEF P
    <3> QED BY <2>1, <3>1, <3>2, <1>7 DEF IsInjective
  <2> QED BY <2>1, <1>7 DEF IsInjective
<1>9. ToSet(t) = ToSet(s) \ {c}
  <2>1. ASSUME NEW x \in ToSet(t) PROVE x \in ToSet(s) /\ x # c
    <3>1. PICK i \in 1 .. Len(s) - 1 : x = t[i]
      BY <2>1, <1>7 DEF ToSet
    <3>2. PICK j \in 1 .. Len(s) : x = s[j] /\ j # k
      BY <3>1, <1>7
    <3> QED BY <3>2, <1>2, <1>7 DEF ToSet
  <2>2. ASSUME NEW x \in ToSet(s), x # c PROVE x \in ToSet(t)
    <3>1. PICK i \in 1 .. Len(s) : x = s[i]
      BY <2>2, <1>7 DEF ToSet
    <3>2. i # k
      BY <3>1, <1>1, <2>2
    <3>3. \E j \in 1 .. Len(s) - 1 : x = t[j]
      <4>1. CASE i < k
        BY <4>1, <3>1, <1>7
      <4>2. CASE i > k
        <5>1. i - 1 \in 1 .. Len(s) - 1 /\ ~(i - 1 < k) /\ (i - 1) + 1 = i
          BY <4>2, <3>1, <1>1, <1>7
        <5> QED BY <5>1, <3>1, <1>7
      <4> QED BY <3>2, <4>1, <4>2
    <3> QED BY <3>3, <1>7 DEF ToSet
  <2> QED BY <2>1, <2>2
<1> QED BY <1>6, <1>7, <1>8, <1>9


-----------------------------------------------------------------------------
(* What a Reset does, or leaves alone. *)

ResetEffect(c) == (UNCHANGED ring /\ NoWipe) \/ (Reset(c) /\ Wipe(c))

RingTyped ==
    /\ ring \in [Clients -> Seq(Content)] /\ left \in [Clients -> Seq(Content)]
    /\ held \in BOOLEAN /\ lost \in [Clients -> BOOLEAN]

\* A client that has not lost anything has the ring it had.
LEMMA ResetKeeps ==
    ASSUME IInv, NEW c \in Clients, ResetEffect(c), UNCHANGED <<ppc, todo, total_sent>>
    PROVE  /\ RingTyped' /\ PublishInv' /\ RoomInv' /\ LeftInv'
           /\ \A d \in Clients : ~lost'[d] => ~lost[d] /\ ring'[d] = ring[d]
<1>1. CASE UNCHANGED ring /\ NoWipe
  BY <1>1 DEF IInv, Typed, RingTyped, PublishInv, RoomInv, LeftInv, Used, NoWipe
<1>2. CASE Reset(c) /\ Wipe(c)
  <2>1. ring' = [ring EXCEPT ![c] = <<>>]
    BY <1>2 DEF Reset
  <2>2. /\ held' = (held /\ ~Holding(c)) /\ left' = [left EXCEPT ![c] = <<>>]
        /\ lost' = [lost EXCEPT ![c] = @ \/ ring[c] # <<>> \/ Holding(c)]
    BY <1>2 DEF Wipe
  <2>3. /\ ring \in [Clients -> Seq(Content)] /\ left \in [Clients -> Seq(Content)]
        /\ held \in BOOLEAN /\ lost \in [Clients -> BOOLEAN]
    BY DEF IInv, Typed
  <2>4. /\ ring' \in [Clients -> Seq(Content)] /\ ring'[c] = <<>>
        /\ left' \in [Clients -> Seq(Content)] /\ left'[c] = <<>>
        /\ \A d \in Clients : d # c => ring'[d] = ring[d] /\ left'[d] = left[d]
    BY <2>1, <2>2, <2>3
  <2>5. held' \in BOOLEAN
    BY <2>2, <2>3
  <2>6. lost' \in [Clients -> BOOLEAN] /\ \A d \in Clients : lost[d] => lost'[d]
    BY <2>2, <2>3, Zenon DEF Holding
  <2>7. \A d \in Clients : ~lost'[d] => ~lost[d] /\ ring'[d] = ring[d]
    <3>1. SUFFICES ASSUME NEW d \in Clients, ~lost'[d] PROVE ~lost[d] /\ ring'[d] = ring[d]
      OBVIOUS
    <3>2. CASE d = c
      <4>1. lost'[c] = (lost[c] \/ ring[c] # <<>> \/ Holding(c))
        BY <2>2, <2>3, Zenon
      <4>2. ~lost[c] /\ ring[c] = <<>>
        BY <3>1, <3>2, <4>1
      <4> QED BY <4>2, <2>4, <3>2
    <3>3. CASE d # c
      <4>1. lost'[d] = lost[d]
        BY <2>2, <2>3, <3>3, Zenon
      <4> QED BY <4>1, <2>4, <3>1, <3>3
    <3> QED BY <3>2, <3>3
  <2>8. Used(c)' = 0 /\ \A d \in Clients : d # c => Used(d)' = Used(d)
    <3>1. Used(c)' = Len(ring'[c]) + Len(left'[c])
      BY DEF Used
    <3>2. Len(ring'[c]) = 0 /\ Len(left'[c]) = 0
      BY <2>4
    <3>3. Used(c)' = 0
      BY <3>1, <3>2
    <3>4. \A d \in Clients : d # c => Used(d)' = Used(d)
      BY <2>4, Zenon DEF Used
    <3> QED BY <3>3, <3>4
  <2>9. PublishInv'
    <3>1. ppc # "snap" => Head(todo) \in Clients
      BY DEF IInv, Typed, PublishInv
    <3> QED BY <3>1, <2>8, MarketNat DEF IInv, PublishInv
  <2>10. RoomInv'
    <3>1. 0 <= QCap
      BY MarketNat
    <3> QED BY <2>8, <3>1, Zenon DEF IInv, RoomInv
  <2>11. LeftInv'
    BY <2>4, <2>6, Zenon DEF IInv, LeftInv
  <2> QED BY <2>4, <2>5, <2>6, <2>7, <2>9, <2>10, <2>11 DEF RingTyped
<1> QED BY <1>1, <1>2 DEF ResetEffect

\* As long as a client's process expects the same number it stays in step.
LEMMA StepKept ==
    ASSUME IInv, UNCHANGED total_sent,
           \A d \in Clients : ~lost'[d] => ~lost[d] /\ ring'[d] = ring[d],
           \A d \in Clients : ~again'[d] => ~again[d] /\ Base(d)' = Base(d)
    PROVE  StepInv'
<1> SUFFICES ASSUME NEW d \in Clients, ~lost'[d], ~again'[d]
             PROVE  Numbers(ring'[d], Base(d)', total_sent')
  BY DEF StepInv
<1>1. ~lost[d] /\ ~again[d] /\ ring'[d] = ring[d] /\ Base(d)' = Base(d) /\ total_sent' = total_sent
  OBVIOUS
<1>2. Numbers(ring[d], Base(d), total_sent)
  BY <1>1 DEF IInv, StepInv
<1> QED BY <1>1, <1>2 DEF Numbers

-----------------------------------------------------------------------------
(* The server's control thread. *)

LEMMA HandleLoginKeeps ==
    ASSUME IInv, NEW l \in logins, HandleLogin(l), ResetOrNot(l), OnClientLogon(l.client),
           UNCHANGED <<ppc, todo, total_sent, recv_num, again>>
    PROVE  IInv'
<1> DEFINE c == l.client
<1>1. c \in Clients /\ l.mine \in BOOLEAN /\ conn[c] = "closed"
  BY DEF IInv, Typed, LoginMsg, HandleLogin
<1>2. ResetEffect(c)
  BY DEF HandleLogin, ResetOrNot, ResetEffect
<1>3. /\ RingTyped' /\ PublishInv' /\ RoomInv' /\ LeftInv'
      /\ \A d \in Clients : ~lost'[d] => ~lost[d] /\ ring'[d] = ring[d]
  BY <1>1, <1>2, ResetKeeps
<1>4. /\ conn' = [conn EXCEPT ![c] = "open"] /\ link' = [link EXCEPT ![c] = l.mine]
      /\ logins' = logins \ {l} /\ rsp' = IF l.mine THEN [rsp EXCEPT ![c] = 0] ELSE rsp
      /\ UNCHANGED <<last_server, proc, faults>> /\ active' = Append(active, c)
  BY DEF HandleLogin, OnClientLogon
<1> HIDE DEF c
<1>5. c \notin ToSet(active) /\ IsInjective(active) /\ active \in Seq(Clients)
  BY <1>1 DEF IInv, Typed, ActiveOnce
<1>6. active' \in Seq(Clients) /\ IsInjective(active') /\ ToSet(active') = ToSet(active) \cup {c}
  BY <1>1, <1>4, <1>5, AppendOnce
<1>7. conn' \in [Clients -> {"closed", "open", "closing"}] /\ conn'[c] = "open"
      /\ \A d \in Clients : d # c => conn'[d] = conn[d]
  BY <1>1, <1>4 DEF IInv, Typed
<1>8. link' \in [Clients -> BOOLEAN] /\ \A d \in Clients : d # c => link'[d] = link[d]
  BY <1>1, <1>4, Zenon DEF IInv, Typed
<1>9. rsp' \in [Clients -> {-1, 0, 2}] /\ logins' \subseteq LoginMsg
  BY <1>1, <1>4 DEF IInv, Typed
<1>10. Typed'
  BY <1>3, <1>4, <1>6, <1>7, <1>8, <1>9, Zenon DEF IInv, Typed, RingTyped
<1>11. LinkInv'
  BY <1>7, <1>8 DEF IInv, LinkInv
<1>12. ActiveOnce'
  <2>1. {d \in Clients : conn'[d] # "closed"} = {d \in Clients : conn[d] # "closed"} \cup {c}
    BY <1>1, <1>7
  <2> QED BY <1>6, <2>1, Zenon DEF IInv, ActiveOnce
<1>13. StepInv'
  BY <1>3, <1>4, StepKept DEF Base
<1> QED BY <1>3, <1>10, <1>11, <1>12, <1>13 DEF IInv

LEMMA NotSentKeeps ==
    ASSUME IInv, NEW l \in logins, LoginRspNotSent(l), ResetOrNot(l), UNCHANGED active,
           UNCHANGED <<ppc, todo, total_sent, recv_num, again>>
    PROVE  IInv'
<1> DEFINE c == l.client
<1>1. c \in Clients
  BY DEF IInv, Typed, LoginMsg
<1>2. ResetEffect(c)
  BY DEF LoginRspNotSent, ResetOrNot, ResetEffect
<1>3. /\ RingTyped' /\ PublishInv' /\ RoomInv' /\ LeftInv'
      /\ \A d \in Clients : ~lost'[d] => ~lost[d] /\ ring'[d] = ring[d]
  BY <1>1, <1>2, ResetKeeps
<1>4. logins' = logins \ {l} /\ UNCHANGED <<last_server, proc, conn, link, rsp, faults>>
  BY DEF LoginRspNotSent
<1> HIDE DEF c
<1>5. Typed'
  BY <1>3, <1>4, Zenon DEF IInv, Typed, RingTyped
<1>6. LinkInv' /\ ActiveOnce'
  BY <1>4 DEF IInv, LinkInv, ActiveOnce
<1>7. StepInv'
  BY <1>3, <1>4, StepKept DEF Base
<1> QED BY <1>3, <1>5, <1>6, <1>7 DEF IInv

LEMMA RejectedKeeps ==
    ASSUME IInv, NEW l \in logins, Rejected(l), NoWipe, UNCHANGED active,
           UNCHANGED <<ppc, todo, total_sent, recv_num, again>>
    PROVE  IInv'
<1>1. l.client \in Clients
  BY DEF IInv, Typed, LoginMsg
<1>2. /\ logins' = logins \ {l} /\ UNCHANGED <<ring, last_server, proc, conn, link, faults, held, left, lost>>
      /\ rsp' = IF l.mine THEN [rsp EXCEPT ![l.client] = 2] ELSE rsp
  BY DEF Rejected, NoWipe
<1>3. rsp' \in [Clients -> {-1, 0, 2}] /\ logins' \subseteq LoginMsg
  BY <1>1, <1>2 DEF IInv, Typed
<1>4. Typed'
  BY <1>2, <1>3, Zenon DEF IInv, Typed
<1>5. LinkInv' /\ ActiveOnce' /\ PublishInv' /\ RoomInv' /\ LeftInv'
  BY <1>2 DEF IInv, LinkInv, ActiveOnce, PublishInv, RoomInv, LeftInv, Used
<1>6. StepInv'
  BY <1>2, StepKept DEF Base
<1> QED BY <1>4, <1>5, <1>6 DEF IInv

LEMMA CloseConnKeeps ==
    ASSUME IInv, NEW c \in Clients, CloseConn(c), NoWipe, UNCHANGED active,
           UNCHANGED <<ppc, todo, total_sent, recv_num, again>>
    PROVE  IInv'
<1>1. /\ conn[c] = "open" /\ conn' = [conn EXCEPT ![c] = "closing"]
      /\ UNCHANGED <<ring, last_server, proc, link, logins, rsp, held, left, lost>>
  BY DEF CloseConn, NoWipe
<1>2. faults' \in 0 .. MaxFaults
  <2>1. faults' = faults \/ (faults < MaxFaults /\ faults' = faults + 1)
    BY DEF CloseConn, Fault
  <2>2. faults \in 0 .. MaxFaults
    BY DEF IInv, Typed
  <2> QED BY <2>1, <2>2, MarketNat
<1>3. /\ conn' \in [Clients -> {"closed", "open", "closing"}]
      /\ \A d \in Clients : conn'[d] = "closed" <=> conn[d] = "closed"
  BY <1>1 DEF IInv, Typed
<1>4. Typed'
  BY <1>1, <1>2, <1>3, Zenon DEF IInv, Typed
<1>5. LinkInv' /\ ActiveOnce' /\ PublishInv' /\ RoomInv' /\ LeftInv'
  BY <1>1, <1>3 DEF IInv, LinkInv, ActiveOnce, PublishInv, RoomInv, LeftInv, Used
<1>6. StepInv'
  BY <1>1, StepKept DEF Base
<1> QED BY <1>4, <1>5, <1>6 DEF IInv

LEMMA TryCloseFdKeeps ==
    ASSUME IInv, NEW c \in Clients, TryCloseFd(c), NoWipe, OnClientDisconnected(c),
           UNCHANGED <<ppc, todo, total_sent, recv_num, again>>
    PROVE  IInv'
<1>1. /\ conn[c] = "closing" /\ conn' = [conn EXCEPT ![c] = "closed"]
      /\ link' = [link EXCEPT ![c] = FALSE] /\ active' = RemoveFirst(active, c)
      /\ UNCHANGED <<ring, last_server, proc, logins, rsp, faults, held, left, lost>>
  BY DEF TryCloseFd, NoWipe, OnClientDisconnected
<1>2. c \in ToSet(active) /\ IsInjective(active) /\ active \in Seq(Clients)
  BY <1>1 DEF IInv, Typed, ActiveOnce
<1>3. active' \in Seq(Clients) /\ IsInjective(active') /\ ToSet(active') = ToSet(active) \ {c}
  BY <1>1, <1>2, RemoveOnce
<1>4. conn' \in [Clients -> {"closed", "open", "closing"}] /\ conn'[c] = "closed"
      /\ \A d \in Clients : d # c => conn'[d] = conn[d]
  BY <1>1 DEF IInv, Typed
<1>5. /\ link' \in [Clients -> BOOLEAN] /\ ~link'[c]
      /\ \A d \in Clients : d # c => link'[d] = link[d]
  BY <1>1, Zenon DEF IInv, Typed
<1>6. Typed'
  BY <1>1, <1>3, <1>4, <1>5, Zenon DEF IInv, Typed
<1>7. LinkInv'
  BY <1>4, <1>5 DEF IInv, LinkInv
<1>8. ActiveOnce'
  BY <1>3, <1>4 DEF IInv, ActiveOnce
<1>9. PublishInv' /\ RoomInv' /\ LeftInv'
  BY <1>1 DEF IInv, PublishInv, RoomInv, LeftInv, Used
<1>10. StepInv'
  BY <1>1, StepKept DEF Base
<1> QED BY <1>6, <1>7, <1>8, <1>9, <1>10 DEF IInv

LEMMA ControlKeeps == IInv /\ Control => IInv'
<1> SUFFICES ASSUME IInv, Control PROVE IInv'
  OBVIOUS
<1> QED BY HandleLoginKeeps, NotSentKeeps, RejectedKeeps, CloseConnKeeps, TryCloseFdKeeps DEF Control

-----------------------------------------------------------------------------
(* The publisher. *)

LEMMA SnapshotKeeps == IInv /\ Snapshot => IInv'
<1> SUFFICES ASSUME IInv, Snapshot PROVE IInv'
  OBVIOUS
<1>1. /\ total_sent < MaxNum /\ active # <<>> /\ todo' = active /\ ppc' = "check"
      /\ UNCHANGED <<ring, last_server, proc, conn, link, logins, rsp, faults, active, held,
                     left, total_sent, recv_num, lost, again>>
  BY DEF Snapshot, shm, history
<1>2. Typed'
  BY <1>1, Zenon DEF IInv, Typed
<1>3. LinkInv' /\ ActiveOnce' /\ PublishInv' /\ RoomInv' /\ LeftInv'
  BY <1>1 DEF IInv, LinkInv, ActiveOnce, PublishInv, RoomInv, LeftInv, Used
<1>4. StepInv'
  BY <1>1, StepKept DEF Base
<1> QED BY <1>2, <1>3, <1>4 DEF IInv

\* The next connection, or a new copy of the list.
LEMMA NextConnKeeps ==
    ASSUME Typed, todo # <<>>, NEW n \in Nat, NextConn(n)
    PROVE  /\ todo' \in Seq(Clients) /\ ppc' \in {"snap", "check"}
           /\ ppc' # "snap" => todo' # <<>> /\ n < MaxNum
<1>1. todo \in Seq(Clients) /\ MaxNum \in Nat
  BY MarketNat DEF Typed
<1>2. todo' = (IF n >= MaxNum THEN <<>> ELSE Tail(todo)) /\ ppc' = (IF todo' = <<>> THEN "snap" ELSE "check")
  BY DEF NextConn
<1>3. todo' \in Seq(Clients)
  BY <1>1, <1>2
<1> QED BY <1>1, <1>2, <1>3

LEMMA CheckClosedKeeps == IInv /\ CheckClosed => IInv'
<1> SUFFICES ASSUME IInv, CheckClosed PROVE IInv'
  OBVIOUS
<1>1. /\ ppc = "check"
      /\ (ppc' = "alloc" /\ todo' = todo) \/ NextConn(total_sent)
      /\ UNCHANGED <<ring, last_server, proc, conn, link, logins, rsp, faults, active, held,
                     left, total_sent, recv_num, lost, again>>
  BY DEF CheckClosed, shm, history
<1>2. /\ todo' \in Seq(Clients) /\ ppc' \in {"snap", "check", "alloc"}
      /\ ppc' # "snap" => todo' # <<>> /\ total_sent < MaxNum
  <2>1. Typed /\ total_sent \in Nat /\ todo \in Seq(Clients) /\ todo # <<>> /\ total_sent < MaxNum
    BY <1>1 DEF IInv, Typed, PublishInv
  <2> QED BY <1>1, <2>1, NextConnKeeps
<1>3. Typed'
  BY <1>1, <1>2, Zenon DEF IInv, Typed
<1>4. LinkInv' /\ ActiveOnce' /\ PublishInv' /\ RoomInv' /\ LeftInv'
  BY <1>1, <1>2 DEF IInv, LinkInv, ActiveOnce, PublishInv, RoomInv, LeftInv, Used
<1>5. StepInv'
  BY <1>1, StepKept DEF Base
<1> QED BY <1>3, <1>4, <1>5 DEF IInv

LEMMA AllocOkKeeps == IInv /\ AllocOk => IInv'
<1> SUFFICES ASSUME IInv, AllocOk PROVE IInv'
  OBVIOUS
<1>1. /\ ppc = "alloc" /\ Used(Head(todo)) < QCap /\ ppc' = "push" /\ held' = TRUE
      /\ UNCHANGED <<ring, last_server, proc, conn, link, logins, rsp, faults, active, todo,
                     left, total_sent, recv_num, lost, again>>
  BY DEF AllocOk, shm, history
<1>2. Typed'
  BY <1>1, Zenon DEF IInv, Typed
<1>3. LinkInv' /\ ActiveOnce' /\ PublishInv' /\ RoomInv' /\ LeftInv'
  BY <1>1 DEF IInv, LinkInv, ActiveOnce, PublishInv, RoomInv, LeftInv, Used
<1>4. StepInv'
  BY <1>1, StepKept DEF Base
<1> QED BY <1>2, <1>3, <1>4 DEF IInv

\* What is counted as sent to the clients in S and lost for the others.
LEMMA CountKeeps ==
    ASSUME IInv, ppc # "snap", NEW S, Count(S)
    PROVE  /\ todo' \in Seq(Clients) /\ ppc' \in {"snap", "check"}
           /\ ppc' # "snap" => todo' # <<>> /\ total_sent' < MaxNum
           /\ total_sent' = total_sent + 1 /\ total_sent' \in 0 .. MaxNum
           /\ lost' \in [Clients -> BOOLEAN]
           /\ \A c \in Clients : ~lost'[c] <=> ~lost[c] /\ c \in S
<1>1. Typed /\ total_sent \in Nat /\ todo # <<>> /\ total_sent < MaxNum /\ lost \in [Clients -> BOOLEAN]
  BY DEF IInv, Typed, PublishInv
<1>2. /\ total_sent' = total_sent + 1 /\ NextConn(total_sent + 1)
      /\ lost' = [c \in Clients |-> lost[c] \/ c \notin S]
  BY DEF Count
<1>3. lost' \in [Clients -> BOOLEAN] /\ \A c \in Clients : lost'[c] = (lost[c] \/ c \notin S)
  BY <1>1, <1>2, Zenon
<1>4. total_sent' \in 0 .. MaxNum /\ total_sent + 1 \in Nat
  BY <1>1, <1>2, MarketNat
<1>5. /\ todo' \in Seq(Clients) /\ ppc' \in {"snap", "check"}
      /\ ppc' # "snap" => todo' # <<>> /\ total_sent + 1 < MaxNum
  BY <1>1, <1>2, <1>4, NextConnKeeps
<1> QED BY <1>2, <1>3, <1>4, <1>5

LEMMA AllocFullKeeps == IInv /\ AllocFull => IInv'
<1> SUFFICES ASSUME IInv, AllocFull PROVE IInv'
  OBVIOUS
<1>1. /\ ppc = "alloc" /\ Count({})
      /\ UNCHANGED <<ring, last_server, proc, conn, link, logins, rsp, faults, active, held, left,
                     recv_num, again>>
  BY DEF AllocFull, shm
<1>2. /\ todo' \in Seq(Clients) /\ ppc' \in {"snap", "check"}
      /\ ppc' # "snap" => todo' # <<>> /\ total_sent' < MaxNum
      /\ total_sent' \in 0 .. MaxNum
      /\ lost' \in [Clients -> BOOLEAN]
      /\ \A c \in Clients : lost'[c]
  BY <1>1, CountKeeps
<1>3. Typed'
  BY <1>1, <1>2, Zenon DEF IInv, Typed
<1>4. LinkInv' /\ ActiveOnce' /\ PublishInv' /\ RoomInv' /\ LeftInv'
  BY <1>1, <1>2 DEF IInv, LinkInv, ActiveOnce, PublishInv, RoomInv, LeftInv, Used
<1>5. StepInv'
  BY <1>2 DEF StepInv
<1> QED BY <1>3, <1>4, <1>5 DEF IInv

\* The next number goes to the end of the ring.
LEMMA NumbersAppend ==
    ASSUME NEW r \in Seq(Content), NEW n \in Nat, NEW t \in Nat, Numbers(r, n, t)
    PROVE  /\ Append(r, Msg(t)) \in Seq(Content) /\ Len(Append(r, Msg(t))) = Len(r) + 1
           /\ Numbers(Append(r, Msg(t)), n, t + 1)
<1> DEFINE s == Append(r, Msg(t))
<1>1. Msg(t) \in Content
  BY MarketNat
<1>2. /\ s \in Seq(Content) /\ Len(s) = Len(r) + 1 /\ Len(r) \in Nat
      /\ \A i \in 1 .. Len(r) : s[i] = r[i]
      /\ s[Len(r) + 1] = Msg(t)
  BY <1>1
<1> HIDE DEF s
<1>3. n <= t /\ Len(r) = t - n /\ \A i \in 1 .. Len(r) : r[i] = Msg(n + i - 1)
  BY DEF Numbers
<1>4. ASSUME NEW i \in 1 .. Len(r) + 1 PROVE s[i] = Msg(n + i - 1)
  <2>1. CASE i = Len(r) + 1
    <3>1. n + i - 1 = t
      BY <2>1, <1>2, <1>3
    <3> QED BY <3>1, <2>1, <1>2
  <2>2. CASE i # Len(r) + 1
    <3>1. i \in 1 .. Len(r)
      BY <2>2, <1>2
    <3> QED BY <3>1, <1>2, <1>3
  <2> QED BY <2>1, <2>2
<1>5. n <= t + 1 /\ Len(s) = t + 1 - n
  BY <1>2, <1>3
<1> QED BY <1>2, <1>4, <1>5 DEF Numbers, s

\* The first number is consumed.
LEMMA NumbersTail ==
    ASSUME NEW r \in Seq(Content), r # <<>>, NEW n \in Nat, NEW t \in Nat, Numbers(r, n, t)
    PROVE  Numbers(Tail(r), n + 1, t)
<1>1. /\ Tail(r) \in Seq(Content) /\ Len(Tail(r)) = Len(r) - 1 /\ Len(r) \in Nat /\ Len(r) >= 1
      /\ \A i \in 1 .. Len(r) - 1 : Tail(r)[i] = r[i + 1]
  OBVIOUS
<1>2. n <= t /\ Len(r) = t - n /\ \A i \in 1 .. Len(r) : r[i] = Msg(n + i - 1)
  BY DEF Numbers
<1>3. ASSUME NEW i \in 1 .. Len(r) - 1 PROVE Tail(r)[i] = Msg((n + 1) + i - 1)
  <2>1. i + 1 \in 1 .. Len(r) /\ n + (i + 1) - 1 = (n + 1) + i - 1
    BY <1>1
  <2>2. r[i + 1] = Msg(n + (i + 1) - 1)
    BY <1>2, <2>1
  <2> QED BY <1>1, <2>1, <2>2
<1>4. n + 1 <= t /\ Len(Tail(r)) = t - (n + 1)
  BY <1>1, <1>2
<1> QED BY <1>1, <1>3, <1>4 DEF Numbers

\* A Push adds to one ring, with what was left behind there: what it adds to
\* fits in, and is the next number where nothing has been lost.
LEMMA PushRing ==
    ASSUME IInv, Push, NEW h, h = Head(todo)
    PROVE  /\ h \in Clients /\ faults' \in 0 .. MaxFaults
           /\ ring' \in [Clients -> Seq(Content)] /\ Len(ring'[h]) <= QCap
           /\ \A c \in Clients : c # h => ring'[c] = ring[c]
           /\ held /\ left[h] = <<>> => ring'[h] = Append(ring[h], Msg(total_sent))
<1>1. /\ h \in Clients /\ total_sent \in Nat /\ ring \in [Clients -> Seq(Content)]
      /\ ring[h] \in Seq(Content) /\ left[h] \in Seq(Content)
      /\ Len(ring[h]) \in Nat /\ Len(left[h]) \in Nat
      /\ Len(ring[h]) + Len(left[h]) < QCap /\ QCap \in Nat
      /\ faults \in 0 .. MaxFaults /\ MaxFaults \in Nat
  BY MarketNat DEF Push, IInv, Typed, PublishInv, Used
<1>2. Msg(total_sent) \in Content /\ Junk \in Content
  <2>1. total_sent \in Nat
    BY <1>1
  <2> QED BY ONLY <2>1, MarketNat
<1>3. CASE held
  <2>1. ring' = [ring EXCEPT ![h] = Published(h)] /\ faults' = faults
    BY <1>3 DEF Push
  <2>0. PICK m \in Content : m = Msg(total_sent)
    BY <1>2
  <2>8. Append(left[h], m) \in Seq(Content) /\ Len(Append(left[h], m)) = Len(left[h]) + 1
    BY <1>1
  <2>2. PICK b \in Seq(Content) : b = Append(left[h], Msg(total_sent)) /\ Len(b) = Len(left[h]) + 1
    BY <2>0, <2>8
  <2>3. Published(h) = ring[h] \o b
    BY <2>2 DEF Published
  <2>4. Published(h) \in Seq(Content) /\ Len(Published(h)) = Len(ring[h]) + Len(b)
    <3>1. ring[h] \in Seq(Content)
      BY <1>1
    <3>2. ring[h] \o b \in Seq(Content) /\ Len(ring[h] \o b) = Len(ring[h]) + Len(b)
      BY ONLY <3>1, b \in Seq(Content), ConcatProperties
    <3> QED BY <2>3, <3>2
  <2>5. Len(Published(h)) <= QCap
    <3>1. Len(Published(h)) = Len(ring[h]) + (Len(left[h]) + 1)
      BY <2>2, <2>4
    <3>2. Len(ring[h]) + (Len(left[h]) + 1) <= QCap
      BY <1>1, RoomLeft
    <3> QED BY <3>1, <3>2
  <2>6. left[h] = <<>> => Published(h) = Append(ring[h], Msg(total_sent))
    <3> SUFFICES ASSUME left[h] = <<>> PROVE Published(h) = Append(ring[h], Msg(total_sent))
      OBVIOUS
    <3>2. b = <<m>>
      BY <2>0, <2>2
    <3>3. ring[h] \o <<m>> = Append(ring[h], m)
      BY <1>1
    <3> QED BY <2>0, <2>3, <3>2, <3>3
  <2> HIDE DEF Published
  <2>7. /\ ring' \in [Clients -> Seq(Content)] /\ ring'[h] = Published(h)
        /\ \A c \in Clients : c # h => ring'[c] = ring[c]
    BY <1>1, <2>1, <2>4
  <2> QED BY <1>1, <2>1, <2>5, <2>6, <2>7
<1>4. CASE ~held
  <2>1. \/ ring' = ring /\ faults' = faults
        \/ \E m \in Content : ring' = [ring EXCEPT ![h] = <<m>>] /\ faults < MaxFaults /\ faults' = faults + 1
    BY <1>2, <1>4 DEF Push, Torn, Fault
  <2>2. CASE ring' = ring /\ faults' = faults
    <3>1. Len(ring[h]) <= QCap
      BY ONLY <1>1
    <3> QED BY <1>1, <1>4, <2>2, <3>1
  <2>3. ASSUME NEW m \in Content, ring' = [ring EXCEPT ![h] = <<m>>],
               faults < MaxFaults, faults' = faults + 1
        PROVE  /\ faults' \in 0 .. MaxFaults
               /\ ring' \in [Clients -> Seq(Content)] /\ Len(ring'[h]) <= QCap
               /\ \A c \in Clients : c # h => ring'[c] = ring[c]
    <3>1. <<m>> \in Seq(Content) /\ Len(<<m>>) = 1
      OBVIOUS
    <3>2. /\ ring' \in [Clients -> Seq(Content)] /\ ring'[h] = <<m>>
          /\ \A c \in Clients : c # h => ring'[c] = ring[c]
      BY <1>1, <2>3, <3>1
    <3>5. 1 <= QCap
      BY ONLY <1>1
    <3>3. Len(ring'[h]) <= QCap
      BY <3>1, <3>2, <3>5
    <3>4. faults' \in 0 .. MaxFaults
      BY <1>1, <2>3
    <3> QED BY <3>2, <3>3, <3>4
  <2> QED BY <1>1, <1>4, <2>1, <2>2, <2>3
<1> QED BY <1>3, <1>4

LEMMA PushKeeps == IInv /\ Push => IInv'
<1> SUFFICES ASSUME IInv, Push PROVE IInv'
  OBVIOUS
<1>0. PICK h : h = Head(todo)
  OBVIOUS
<1>1. /\ ppc = "push" /\ held' = FALSE
      /\ Count(IF held THEN {h} ELSE {})
      /\ left' = [left EXCEPT ![h] = <<>>]
      /\ UNCHANGED <<last_server, proc, conn, link, logins, rsp, active, recv_num, again>>
  BY <1>0 DEF Push
<1>2. /\ todo' \in Seq(Clients) /\ ppc' \in {"snap", "check"}
      /\ ppc' # "snap" => todo' # <<>> /\ total_sent' < MaxNum
      /\ total_sent' = total_sent + 1 /\ total_sent' \in 0 .. MaxNum
      /\ lost' \in [Clients -> BOOLEAN]
      /\ \A c \in Clients : ~lost'[c] <=> ~lost[c] /\ c \in IF held THEN {h} ELSE {}
  BY <1>1, CountKeeps
<1>3. /\ h \in Clients /\ faults' \in 0 .. MaxFaults
      /\ ring' \in [Clients -> Seq(Content)] /\ Len(ring'[h]) <= QCap
      /\ \A c \in Clients : c # h => ring'[c] = ring[c]
      /\ held /\ left[h] = <<>> => ring'[h] = Append(ring[h], Msg(total_sent))
  BY <1>0, PushRing
<1>4. /\ left' \in [Clients -> Seq(Content)] /\ left'[h] = <<>>
      /\ \A c \in Clients : c # h => left'[c] = left[c]
  BY <1>1, <1>3 DEF IInv, Typed
<1>7. Typed'
  BY <1>1, <1>2, <1>3, <1>4, Zenon DEF IInv, Typed
<1>8. RoomInv'
  <2> SUFFICES ASSUME NEW c \in Clients PROVE Used(c)' <= QCap
    BY DEF RoomInv
  <2>1. CASE c = h
    <3>1. Len(<<>>) = 0 /\ Len(ring'[h]) \in Nat
      BY <1>3
    <3>2. Used(c)' = Len(ring'[h]) + 0
      BY <2>1, <1>4, <3>1, Zenon DEF Used
    <3> QED BY <1>3, <3>1, <3>2
  <2>2. CASE c # h
    BY <2>2, <1>3, <1>4 DEF IInv, RoomInv, Used
  <2> QED BY <2>1, <2>2
<1>9. LinkInv' /\ ActiveOnce' /\ PublishInv'
  BY <1>1, <1>2 DEF IInv, LinkInv, ActiveOnce, PublishInv
<1>11. LeftInv'
  BY <1>2, <1>4, Zenon DEF IInv, LeftInv
<1>10. StepInv'
  <2> SUFFICES ASSUME NEW c \in Clients, ~lost'[c], ~again'[c]
               PROVE  Numbers(ring'[c], Base(c)', total_sent')
    BY DEF StepInv
  <2>1. held /\ c = h /\ ~lost[c] /\ ~again[c]
    BY <1>1, <1>2
  <2>2. Numbers(ring[h], Base(c), total_sent)
    BY <2>1, Zenon DEF IInv, StepInv
  <2>3. Base(c) \in Nat /\ Base(c)' = Base(c) /\ total_sent \in Nat /\ ring[h] \in Seq(Content)
    BY <1>1, <1>3 DEF Base, IInv, Typed
  <2>4. Numbers(Append(ring[h], Msg(total_sent)), Base(c), total_sent + 1)
    BY <2>2, <2>3, NumbersAppend
  <2>5. left[h] = <<>>
    BY <1>3, <2>1 DEF IInv, LeftInv
  <2> QED BY <2>1, <2>3, <2>4, <2>5, <1>2, <1>3
<1> QED BY <1>7, <1>8, <1>9, <1>10, <1>11 DEF IInv

LEMMA ServerRestartKeeps == IInv /\ ServerRestart => IInv'
<1> SUFFICES ASSUME IInv, ServerRestart PROVE IInv'
  OBVIOUS
<1>1. /\ conn' = [c \in Clients |-> "closed"] /\ link' = [c \in Clients |-> FALSE]
      /\ logins' = {} /\ faults < MaxFaults /\ faults' = faults + 1
      /\ active' = <<>> /\ ppc' = "snap" /\ todo' = <<>> /\ held' = FALSE /\ total_sent' = 0
      /\ left' = left \/ DeathInPush
      /\ lost' = [c \in Clients |-> lost[c] \/ total_sent > 0 \/ left'[c] # <<>>]
      /\ UNCHANGED <<ring, last_server, proc, rsp, recv_num, again>>
  BY DEF ServerRestart, ServerEnd, Fault
<1>9. left' \in [Clients -> Seq(Content)] /\ RoomInv'
  <2>1. left \in [Clients -> Seq(Content)] /\ ring \in [Clients -> Seq(Content)] /\ total_sent \in Nat
    BY DEF IInv, Typed
  <2>2. CASE left' = left
    BY <1>1, <2>1, <2>2 DEF IInv, RoomInv, Used
  <2>3. CASE DeathInPush
    <3>1. PICK c \in Clients : Holding(c) /\ left' = [left EXCEPT ![c] = Append(@, Msg(total_sent))]
      BY <2>3 DEF DeathInPush
    <3>2. Msg(total_sent) \in Content /\ left[c] \in Seq(Content) /\ ring[c] \in Seq(Content)
      BY <2>1, MarketNat
    <3>3. Append(left[c], Msg(total_sent)) \in Seq(Content)
          /\ Len(Append(left[c], Msg(total_sent))) = Len(left[c]) + 1
          /\ Len(left[c]) \in Nat /\ Len(ring[c]) \in Nat
      BY <3>2
    <3>4. /\ left' \in [Clients -> Seq(Content)] /\ Len(left'[c]) = Len(left[c]) + 1
          /\ \A d \in Clients : d # c => left'[d] = left[d]
      BY <2>1, <3>1, <3>3
    <3>5. Len(ring[c]) + Len(left[c]) < QCap /\ QCap \in Nat
      BY <3>1, MarketNat DEF Holding, IInv, PublishInv, Used
    <3>6. Used(c)' = Len(ring[c]) + (Len(left[c]) + 1)
      BY <1>1, <3>4 DEF Used
    <3>9. Len(ring[c]) + (Len(left[c]) + 1) <= QCap
      BY <3>3, <3>5, RoomLeft
    <3>7. Used(c)' <= QCap
      BY <3>6, <3>9
    <3>8. \A d \in Clients : d # c => Used(d)' = Used(d)
      BY <1>1, <3>4 DEF Used
    <3> QED BY <3>4, <3>7, <3>8 DEF IInv, RoomInv
  <2> QED BY <1>1, <2>2, <2>3
<1>2. faults' \in 0 .. MaxFaults /\ total_sent' \in 0 .. MaxNum
  BY <1>1, MarketNat DEF IInv, Typed
<1>3. /\ lost' \in [Clients -> BOOLEAN]
      /\ \A c \in Clients : lost'[c] = (lost[c] \/ total_sent > 0 \/ left'[c] # <<>>)
  BY <1>1, Zenon DEF IInv, Typed
<1>4. /\ conn' \in [Clients -> {"closed", "open", "closing"}] /\ \A c \in Clients : conn'[c] = "closed"
      /\ link' \in [Clients -> BOOLEAN] /\ \A c \in Clients : link'[c] = FALSE
      /\ active' \in Seq(Clients) /\ todo' \in Seq(Clients)
  BY <1>1
<1>5. Typed'
  BY <1>1, <1>2, <1>3, <1>4, <1>9, Zenon DEF IInv, Typed
<1>6. LinkInv' /\ PublishInv' /\ LeftInv'
  BY <1>1, <1>3, <1>4 DEF LinkInv, PublishInv, LeftInv
<1>7. ActiveOnce'
  <2>1. DOMAIN active' = {}
    BY <1>1
  <2> QED BY <1>4, <2>1 DEF ActiveOnce, IsInjective, ToSet
<1>8. StepInv'
  <2> SUFFICES ASSUME NEW c \in Clients, ~lost'[c], ~again'[c]
               PROVE  Numbers(ring'[c], Base(c)', total_sent')
    BY DEF StepInv
  <2>1. ~lost[c] /\ ~again[c] /\ ~(total_sent > 0)
    BY <1>1, <1>3
  <2>2. total_sent = 0
    BY <2>1 DEF IInv, Typed
  <2>3. Numbers(ring[c], Base(c), total_sent)
    BY <2>1 DEF IInv, StepInv
  <2>4. Base(c)' = Base(c) /\ ring'[c] = ring[c] /\ total_sent' = total_sent
    BY <1>1, <2>2 DEF Base
  <2> QED BY <2>3, <2>4
<1> QED BY <1>5, <1>6, <1>7, <1>8, <1>9 DEF IInv

-----------------------------------------------------------------------------
(* The clients. *)

\* Logins that lead nowhere are logins still.
LEMMA AbandonedTyped ==
    ASSUME Typed, NEW c \in Clients
    PROVE  Abandoned(c) \subseteq LoginMsg
<1> SUFFICES ASSUME NEW l \in logins
             PROVE  (IF l.client = c THEN [l EXCEPT !.mine = FALSE] ELSE l) \in LoginMsg
  BY DEF Abandoned
<1>1. l \in LoginMsg
  BY DEF Typed
<1> QED BY <1>1 DEF LoginMsg

LEMMA ConnectKeeps ==
    ASSUME IInv, NEW c \in Clients, Connect(c), NoWipe,
           recv_num' = (IF proc'[c] = "up" THEN [recv_num EXCEPT ![c] = 0] ELSE recv_num),
           UNCHANGED <<active, ppc, todo, total_sent, again>>
    PROVE  IInv'
<1>1. /\ proc[c] = "down" /\ proc' = [proc EXCEPT ![c] = "login"]
      /\ logins' = logins \cup {[client |-> c, last_server_name |-> last_server[c], mine |-> TRUE]}
      /\ UNCHANGED <<ring, last_server, conn, link, rsp, faults, held, left, lost>>
  BY DEF Connect, NoWipe
<1>2. logins' \subseteq LoginMsg
  <2>1. last_server[c] \in {NoServer, ServerName} /\ logins \subseteq LoginMsg
    BY DEF IInv, Typed
  <2>2. [client |-> c, last_server_name |-> last_server[c], mine |-> TRUE] \in LoginMsg
    BY <2>1 DEF LoginMsg
  <2> QED BY <1>1, <2>1, <2>2, Zenon
<1>3. /\ proc' \in [Clients -> {"down", "login", "reset", "up"}] /\ proc'[c] = "login"
      /\ \A d \in Clients : d # c => proc'[d] = proc[d]
  BY <1>1 DEF IInv, Typed
<1>4. recv_num' = recv_num
  BY <1>3
<1>5. Typed'
  BY <1>1, <1>2, <1>3, <1>4, Zenon DEF IInv, Typed
<1>6. LinkInv' /\ ActiveOnce' /\ PublishInv' /\ RoomInv' /\ LeftInv'
  BY <1>1 DEF IInv, LinkInv, ActiveOnce, PublishInv, RoomInv, LeftInv, Used
<1>7. \A d \in Clients : Base(d)' = Base(d)
  BY <1>1, <1>3, <1>4 DEF Base
<1>8. StepInv'
  BY <1>1, <1>7, StepKept
<1> QED BY <1>5, <1>6, <1>8 DEF IInv

LEMMA LoginFailedKeeps ==
    ASSUME IInv, NEW c \in Clients, LoginFailed(c) \/ LoginLost(c), NoWipe,
           recv_num' = (IF proc'[c] = "up" THEN [recv_num EXCEPT ![c] = 0] ELSE recv_num),
           UNCHANGED <<active, ppc, todo, total_sent, again>>
    PROVE  IInv'
<1>1. /\ proc[c] = "login" /\ proc' = [proc EXCEPT ![c] = "down"] /\ rsp' = [rsp EXCEPT ![c] = -1]
      /\ logins' = logins \/ logins' = Abandoned(c)
      /\ link' = link \/ link' = [link EXCEPT ![c] = FALSE]
      /\ faults' = faults \/ (faults < MaxFaults /\ faults' = faults + 1)
      /\ UNCHANGED <<ring, last_server, conn, held, left, lost>>
  BY DEF LoginFailed, LoginLost, NoWipe, Fault
<1>2. logins' \subseteq LoginMsg
  BY <1>1, AbandonedTyped DEF IInv, Typed
<1>3. /\ proc' \in [Clients -> {"down", "login", "reset", "up"}] /\ proc'[c] = "down"
      /\ \A d \in Clients : d # c => proc'[d] = proc[d]
      /\ rsp' \in [Clients -> {-1, 0, 2}]
  BY <1>1 DEF IInv, Typed
<1>4. recv_num' = recv_num /\ faults' \in 0 .. MaxFaults
  <2>1. faults \in 0 .. MaxFaults
    BY DEF IInv, Typed
  <2>2. recv_num' = recv_num
    BY <1>3
  <2> QED BY <1>1, <2>1, <2>2, MarketNat
<1>5. link' \in [Clients -> BOOLEAN] /\ \A d \in Clients : link'[d] => link[d]
  BY <1>1, Zenon DEF IInv, Typed
<1>6. Typed'
  BY <1>1, <1>2, <1>3, <1>4, <1>5, Zenon DEF IInv, Typed
<1>7. LinkInv' /\ ActiveOnce' /\ PublishInv' /\ RoomInv' /\ LeftInv'
  BY <1>1, <1>5 DEF IInv, LinkInv, ActiveOnce, PublishInv, RoomInv, LeftInv, Used
<1>8. \A d \in Clients : Base(d)' = Base(d)
  BY <1>1, <1>3, <1>4 DEF Base
<1>9. StepInv'
  BY <1>1, <1>8, StepKept
<1> QED BY <1>6, <1>7, <1>9 DEF IInv

\* Connect returns, at once or after the client's Reset.
LEMMA LoggedInKeeps ==
    ASSUME IInv, NEW c \in Clients,
           (LoginRsp(c) /\ NoWipe) \/ (ClientReset(c) /\ Wipe(c)),
           recv_num' = (IF proc'[c] = "up" THEN [recv_num EXCEPT ![c] = 0] ELSE recv_num),
           UNCHANGED <<active, ppc, todo, total_sent, again>>
    PROVE  IInv'
<1>1. /\ proc[c] \in {"login", "reset"}
      /\ \E x \in {"up", "reset"} : proc' = [proc EXCEPT ![c] = x]
      /\ rsp' = rsp \/ rsp' = [rsp EXCEPT ![c] = -1]
      /\ last_server' = last_server \/ last_server' = [last_server EXCEPT ![c] = ServerName]
      /\ ResetEffect(c)
      /\ UNCHANGED <<conn, link, logins, faults>>
  BY DEF LoginRsp, ClientReset, ResetEffect
<1>2. /\ RingTyped' /\ PublishInv' /\ RoomInv' /\ LeftInv'
      /\ \A d \in Clients : ~lost'[d] => ~lost[d] /\ ring'[d] = ring[d]
  BY <1>1, ResetKeeps
<1>3. /\ proc' \in [Clients -> {"down", "login", "reset", "up"}]
      /\ \A d \in Clients : d # c => proc'[d] = proc[d]
      /\ rsp' \in [Clients -> {-1, 0, 2}]
      /\ last_server' \in [Clients -> {NoServer, ServerName}]
  BY <1>1 DEF IInv, Typed
<1>4. /\ recv_num' \in [Clients -> 0 .. MaxNum]
      /\ proc'[c] = "up" => recv_num'[c] = 0
      /\ \A d \in Clients : d # c => recv_num'[d] = recv_num[d]
  <2>1. recv_num \in [Clients -> 0 .. MaxNum] /\ 0 \in 0 .. MaxNum
    BY MarketNat DEF IInv, Typed
  <2> QED BY <2>1
<1>5. Typed'
  BY <1>1, <1>2, <1>3, <1>4, Zenon DEF IInv, Typed, RingTyped
<1>6. LinkInv' /\ ActiveOnce'
  BY <1>1 DEF IInv, LinkInv, ActiveOnce
<1>7. \A d \in Clients : Base(d)' = Base(d)
  BY <1>1, <1>3, <1>4 DEF Base
<1>8. StepInv'
  BY <1>2, <1>7, StepKept
<1> QED BY <1>2, <1>5, <1>6, <1>8 DEF IInv

LEMMA LoginKeeps == ASSUME NEW c \in Clients PROVE IInv /\ Login(c) => IInv'
<1> SUFFICES ASSUME IInv, Login(c) PROVE IInv'
  OBVIOUS
<1>1. /\ recv_num' = (IF proc'[c] = "up" THEN [recv_num EXCEPT ![c] = 0] ELSE recv_num)
      /\ UNCHANGED <<active, ppc, todo, total_sent, again>>
      /\ \/ Connect(c) /\ NoWipe
         \/ (LoginFailed(c) \/ LoginLost(c)) /\ NoWipe
         \/ (LoginRsp(c) /\ NoWipe) \/ (ClientReset(c) /\ Wipe(c))
  BY DEF Login
<1> QED BY <1>1, ConnectKeeps, LoginFailedKeeps, LoggedInKeeps

\* A process that ends after it has consumed something leaves its successor
\* out of step.
LEMMA EndKeeps ==
    ASSUME IInv, NEW c \in Clients, End(c), faults' \in 0 .. MaxFaults
    PROVE  IInv'
<1>1. /\ proc' = [proc EXCEPT ![c] = "down"] /\ rsp' = [rsp EXCEPT ![c] = -1]
      /\ link' = [link EXCEPT ![c] = FALSE] /\ logins' = Abandoned(c)
      /\ again' = [again EXCEPT ![c] = @ \/ (proc[c] = "up" /\ recv_num[c] > 0)]
      /\ UNCHANGED <<ring, last_server, conn, active, ppc, todo, held, left, total_sent, recv_num, lost>>
  BY DEF End, ClientEnd, publisher
<1>2. logins' \subseteq LoginMsg
  BY <1>1, AbandonedTyped DEF IInv
<1>3. /\ proc' \in [Clients -> {"down", "login", "reset", "up"}] /\ proc'[c] = "down"
      /\ \A d \in Clients : d # c => proc'[d] = proc[d]
      /\ rsp' \in [Clients -> {-1, 0, 2}]
  BY <1>1 DEF IInv, Typed
<1>4. link' \in [Clients -> BOOLEAN] /\ \A d \in Clients : link'[d] => link[d]
  BY <1>1, Zenon DEF IInv, Typed
<1>5. /\ again' \in [Clients -> BOOLEAN]
      /\ again'[c] = (again[c] \/ (proc[c] = "up" /\ recv_num[c] > 0))
      /\ \A d \in Clients : d # c => again'[d] = again[d]
  BY <1>1, Zenon DEF IInv, Typed
<1>6. Typed'
  BY <1>1, <1>2, <1>3, <1>4, <1>5, Zenon DEF IInv, Typed
<1>7. LinkInv' /\ ActiveOnce' /\ PublishInv' /\ RoomInv' /\ LeftInv'
  BY <1>1, <1>4 DEF IInv, LinkInv, ActiveOnce, PublishInv, RoomInv, LeftInv, Used
<1>8. \A d \in Clients : ~again'[d] => ~again[d] /\ Base(d)' = Base(d)
  <2> SUFFICES ASSUME NEW d \in Clients, ~again'[d] PROVE ~again[d] /\ Base(d)' = Base(d)
    OBVIOUS
  <2>1. CASE d # c
    BY <2>1, <1>1, <1>3, <1>5 DEF Base
  <2>2. CASE d = c
    <3>1. ~again[c] /\ ~(proc[c] = "up" /\ recv_num[c] > 0)
      BY <2>2, <1>5
    <3>2. recv_num[c] \in 0 .. MaxNum
      BY DEF IInv, Typed
    <3>3. proc[c] = "up" => recv_num[c] = 0
      BY <3>1, <3>2
    <3> QED BY <2>2, <3>1, <3>3, <1>1, <1>3 DEF Base
  <2> QED BY <2>1, <2>2
<1>9. StepInv'
  BY <1>1, <1>8, StepKept
<1> QED BY <1>6, <1>7, <1>9 DEF IInv

LEMMA HandleMsgKeeps ==
    ASSUME IInv, NEW c \in Clients, proc[c] = "up", recv_num[c] < MaxNum, ring[c] # <<>>, HandleMsg(c)
    PROVE  IInv'
<1>1. /\ recv_num' = [recv_num EXCEPT ![c] = @ + 1] /\ ring' = [ring EXCEPT ![c] = Tail(@)]
      /\ UNCHANGED <<last_server, proc, conn, link, logins, rsp, faults, active, ppc, todo, held,
                     left, total_sent, lost, again>>
  BY DEF HandleMsg, publisher, history
<1>2. /\ ring[c] \in Seq(Content) /\ recv_num[c] \in 0 .. MaxNum /\ total_sent \in Nat
      /\ Len(ring[c]) \in Nat
  BY DEF IInv, Typed
<1>3. Tail(ring[c]) \in Seq(Content) /\ Len(Tail(ring[c])) = Len(ring[c]) - 1
  BY <1>2, HeadTailProperties
<1>4. /\ ring' \in [Clients -> Seq(Content)] /\ ring'[c] = Tail(ring[c])
      /\ \A d \in Clients : d # c => ring'[d] = ring[d]
  BY <1>1, <1>3 DEF IInv, Typed
<1>5. /\ recv_num' \in [Clients -> 0 .. MaxNum] /\ recv_num'[c] = recv_num[c] + 1
      /\ \A d \in Clients : d # c => recv_num'[d] = recv_num[d]
  <2>1. recv_num \in [Clients -> 0 .. MaxNum] /\ recv_num[c] + 1 \in 0 .. MaxNum
    <3>1. recv_num \in [Clients -> 0 .. MaxNum] /\ MaxNum \in Nat
      BY MarketNat DEF IInv, Typed
    <3>2. recv_num[c] + 1 \in 0 .. MaxNum
      BY <1>2, <3>1
    <3> QED BY <3>1, <3>2
  <2> QED BY <1>1, <2>1
<1>6. Typed'
  BY <1>1, <1>4, <1>5, Zenon DEF IInv, Typed
<1>7. \A d \in Clients : Len(ring'[d]) \in Nat /\ Len(ring[d]) \in Nat /\ Len(ring'[d]) <= Len(ring[d])
  <2> SUFFICES ASSUME NEW d \in Clients
               PROVE  Len(ring'[d]) \in Nat /\ Len(ring[d]) \in Nat /\ Len(ring'[d]) <= Len(ring[d])
    OBVIOUS
  <2>1. Len(ring'[d]) \in Nat /\ Len(ring[d]) \in Nat
    BY <1>4, LenProperties DEF IInv, Typed
  <2>2. d = c => Len(ring'[d]) = Len(ring[d]) - 1
    BY <1>3, <1>4
  <2> QED BY <2>1, <2>2, <1>4
<1>12. \A d \in Clients : Used(d)' <= Used(d) /\ Used(d) \in Nat /\ Used(d)' \in Nat
  <2> SUFFICES ASSUME NEW d \in Clients
               PROVE  Used(d)' <= Used(d) /\ Used(d) \in Nat /\ Used(d)' \in Nat
    OBVIOUS
  <2>1. /\ Len(ring'[d]) \in Nat /\ Len(ring[d]) \in Nat /\ Len(ring'[d]) <= Len(ring[d])
        /\ Len(left[d]) \in Nat
    BY <1>7, LenProperties DEF IInv, Typed
  <2>2. Used(d) = Len(ring[d]) + Len(left[d]) /\ Used(d)' = Len(ring'[d]) + Len(left[d])
    BY <1>1 DEF Used
  <2>3. /\ Len(ring'[d]) + Len(left[d]) <= Len(ring[d]) + Len(left[d])
        /\ Len(ring[d]) + Len(left[d]) \in Nat /\ Len(ring'[d]) + Len(left[d]) \in Nat
    BY <2>1, RoomGrows
  <2> QED BY <2>2, <2>3
<1>8. RoomInv'
  <2> SUFFICES ASSUME NEW d \in Clients PROVE Used(d)' <= QCap
    BY DEF RoomInv
  <2>1. Used(d) <= QCap
    BY DEF IInv, RoomInv
  <2>2. Used(d)' <= Used(d) /\ Used(d) \in Nat /\ Used(d)' \in Nat
    BY <1>12
  <2>3. QCap \in Nat
    BY MarketNat
  <2> QED BY ONLY <2>1, <2>2, <2>3
<1>9. PublishInv' /\ LeftInv'
  <2>1. ppc # "snap" => Head(todo) \in Clients
    BY DEF IInv, Typed, PublishInv
  <2>2. ASSUME ppc = "push" PROVE Used(Head(todo))' < QCap
    <3>0. PICK h \in Clients : h = Head(todo)
      BY <2>1, <2>2
    <3>1. Used(h) < QCap
      BY <2>2, <3>0 DEF IInv, PublishInv
    <3>2. Used(h)' <= Used(h) /\ Used(h) \in Nat /\ Used(h)' \in Nat
      BY <1>12
    <3>3. QCap \in Nat
      BY MarketNat
    <3>4. Used(h)' < QCap
      BY ONLY <3>1, <3>2, <3>3
    <3> QED BY <1>1, <3>0, <3>4
  <2> QED BY <1>1, <2>2 DEF IInv, PublishInv, LeftInv
<1>10. LinkInv' /\ ActiveOnce'
  BY <1>1 DEF IInv, LinkInv, ActiveOnce
<1>11. StepInv'
  <2> SUFFICES ASSUME NEW d \in Clients, ~lost'[d], ~again'[d]
               PROVE  Numbers(ring'[d], Base(d)', total_sent')
    BY DEF StepInv
  <2>1. Numbers(ring[d], Base(d), total_sent) /\ total_sent' = total_sent
    BY <1>1 DEF IInv, StepInv
  <2>2. CASE d # c
    BY <2>1, <2>2, <1>1, <1>4, <1>5 DEF Base
  <2>3. CASE d = c
    <3>1. Base(d) = recv_num[c] /\ Base(d)' = recv_num[c] + 1
      BY <2>3, <1>1, <1>5 DEF Base
    <3>2. Numbers(ring[c], recv_num[c], total_sent)
      BY <2>1, <2>3, <3>1
    <3>3. Numbers(Tail(ring[c]), recv_num[c] + 1, total_sent)
      BY <3>2, <1>2, NumbersTail
    <3> QED BY <2>1, <2>3, <3>1, <3>3, <1>4
  <2> QED BY <2>2, <2>3
<1> QED BY <1>6, <1>8, <1>9, <1>10, <1>11 DEF IInv

LEMMA ClientKeeps == ASSUME NEW c \in Clients PROVE IInv /\ Client(c) => IInv'
<1> SUFFICES ASSUME IInv, Client(c) PROVE IInv'
  OBVIOUS
<1>1. CASE Login(c)
  BY <1>1, LoginKeeps
<1>2. CASE End(c) /\ (UNCHANGED faults \/ Fault)
  <2>1. faults' \in 0 .. MaxFaults
    <3>1. faults \in 0 .. MaxFaults
      BY DEF IInv, Typed
    <3>2. faults' = faults \/ (faults < MaxFaults /\ faults' = faults + 1)
      BY <1>2 DEF Fault
    <3> QED BY <3>1, <3>2, MarketNat
  <2> QED BY <1>2, <2>1, EndKeeps
<1>3. CASE OnServerMsg(c) /\ HandleMsg(c)
  BY <1>3, HandleMsgKeeps DEF OnServerMsg
<1> QED BY <1>1, <1>2, <1>3 DEF Client, PollNum, OnServerMsg, HandleBad, Disconnected, Crash

-----------------------------------------------------------------------------
(* The theorems. *)

LEMMA InitIInv == Init => IInv
<1> SUFFICES ASSUME Init PROVE IInv
  OBVIOUS
<1>1. /\ ring = [c \in Clients |-> <<>>] /\ last_server \in [Clients -> {NoServer, ServerName}]
      /\ proc = [c \in Clients |-> "down"] /\ conn = [c \in Clients |-> "closed"]
      /\ link = [c \in Clients |-> FALSE]
      /\ logins = {} /\ rsp = [c \in Clients |-> -1] /\ faults = 0
      /\ active = <<>> /\ ppc = "snap" /\ todo = <<>> /\ held = FALSE /\ total_sent = 0
      /\ left = [c \in Clients |-> <<>>] /\ recv_num = [c \in Clients |-> 0]
      /\ lost = [c \in Clients |-> FALSE] /\ again = [c \in Clients |-> FALSE]
  BY DEF Init, ShmInit
<1>2. /\ ring \in [Clients -> Seq(Content)] /\ left \in [Clients -> Seq(Content)] /\ faults \in 0 .. MaxFaults
      /\ active \in Seq(Clients) /\ todo \in Seq(Clients)
      /\ total_sent \in 0 .. MaxNum /\ recv_num \in [Clients -> 0 .. MaxNum]
      /\ proc \in [Clients -> {"down", "login", "reset", "up"}]
      /\ conn \in [Clients -> {"closed", "open", "closing"}] /\ rsp \in [Clients -> {-1, 0, 2}]
  BY <1>1, MarketNat
<1>3. /\ link \in [Clients -> BOOLEAN] /\ lost \in [Clients -> BOOLEAN]
      /\ again \in [Clients -> BOOLEAN] /\ held \in BOOLEAN
  BY <1>1
<1>4. Typed
  BY <1>1, <1>2, <1>3, Zenon DEF Typed
<1>5. LinkInv /\ PublishInv /\ LeftInv
  BY <1>1 DEF LinkInv, PublishInv, LeftInv
<1>6. \A c \in Clients : ring[c] = <<>> /\ Len(ring[c]) = 0 /\ Base(c) = 0 /\ Used(c) = 0
  <2> SUFFICES ASSUME NEW c \in Clients
               PROVE  ring[c] = <<>> /\ Len(ring[c]) = 0 /\ Base(c) = 0 /\ Used(c) = 0
    OBVIOUS
  <2>1. ring[c] = <<>> /\ left[c] = <<>> /\ Base(c) = 0
    BY <1>1 DEF Base
  <2>2. Len(ring[c]) = 0 /\ Len(left[c]) = 0
    BY <2>1
  <2>3. Used(c) = Len(ring[c]) + Len(left[c])
    BY DEF Used
  <2> QED BY <2>1, <2>2, <2>3
<1>7. RoomInv
  <2>1. 0 <= QCap
    BY MarketNat
  <2> QED BY <1>6, <2>1, Zenon DEF RoomInv
<1>8. ActiveOnce
  <2>1. DOMAIN active = {}
    BY <1>1
  <2>2. \A c \in Clients : conn[c] = "closed"
    BY <1>1
  <2> QED BY <2>1, <2>2 DEF ActiveOnce, IsInjective, ToSet
<1>9. StepInv
  BY <1>1, <1>6 DEF StepInv, Numbers
<1> QED BY <1>4, <1>5, <1>7, <1>8, <1>9 DEF IInv

LEMMA NextIInv == IInv /\ [Next]_vars => IInv'
<1> SUFFICES ASSUME IInv, [Next]_vars PROVE IInv'
  OBVIOUS
<1>1. CASE Next
  BY <1>1, ControlKeeps, SnapshotKeeps, CheckClosedKeeps, AllocFullKeeps, AllocOkKeeps, PushKeeps,
     ServerRestartKeeps, ClientKeeps DEF Next, Publish
<1>2. CASE UNCHANGED vars
  <2>1. UNCHANGED <<ring, last_server, proc, conn, link, logins, rsp, faults, active, ppc, todo,
                    held, left, total_sent, recv_num, lost, again>>
    BY <1>2 DEF vars, shm, publisher, history
  <2>2. Typed'
    BY <2>1, Zenon DEF IInv, Typed
  <2>3. LinkInv' /\ PublishInv' /\ RoomInv' /\ ActiveOnce' /\ LeftInv'
    BY <2>1 DEF IInv, LinkInv, PublishInv, RoomInv, ActiveOnce, LeftInv, Used
  <2>4. StepInv'
    BY <2>1, StepKept DEF Base
  <2> QED BY <2>2, <2>3, <2>4 DEF IInv
<1> QED BY <1>1, <1>2

LEMMA AlwaysIInv == Spec => []IInv
BY InitIInv, NextIInv, PTL DEF Spec

(* The rings never hold more than there is room for, the publisher never    *)
(* runs out of its copy of the list or sends more numbers than it has, and  *)
(* a connection that a client has is not closed, for every number of        *)
(* clients, numbers and faults.                                             *)
THEOREM TypeCorrect == Spec => []TypeOK
<1>1. IInv => TypeOK
  <2> SUFFICES ASSUME IInv PROVE TypeOK
    OBVIOUS
  <2>1. ShmTypeOK
    BY Zenon DEF IInv, Typed, LinkInv, LoginMsg, ShmTypeOK
  <2>2. ASSUME NEW c \in Clients
        PROVE  ring[c] \in UNION {[1 .. n -> Content] : n \in 0 .. QCap}
    <3>1. ring[c] \in Seq(Content) /\ Len(ring[c]) <= QCap
      <4>1. ring[c] \in Seq(Content) /\ left[c] \in Seq(Content)
        BY DEF IInv, Typed
      <4>2. Len(ring[c]) \in Nat /\ Len(left[c]) \in Nat /\ QCap \in Nat
        BY <4>1, MarketNat
      <4>3. Len(ring[c]) + Len(left[c]) <= QCap
        BY DEF IInv, RoomInv, Used
      <4>4. Len(ring[c]) <= QCap
        BY <4>2, <4>3, RoomLeft
      <4> QED BY <4>1, <4>4
    <3>2. Len(ring[c]) \in 0 .. QCap /\ ring[c] \in [1 .. Len(ring[c]) -> Content]
      <4>1. Len(ring[c]) \in Nat /\ ring[c] \in [1 .. Len(ring[c]) -> Content]
        BY <3>1, LenProperties
      <4>2. QCap \in Nat
        BY MarketNat
      <4> QED BY <3>1, <4>1, <4>2
    <3> QED BY <3>2, Zenon
  <2>3. ring \in [Clients -> UNION {[1 .. n -> Content] : n \in 0 .. QCap}]
    <3>1. ring \in [Clients -> Seq(Content)]
      BY DEF IInv, Typed
    <3> QED BY <2>2, <3>1, Zenon
  <2>4. ppc # "snap" => todo # <<>>
    BY DEF IInv, PublishInv
  <2>5. \A c \in Clients : Used(c) <= QCap
    BY Zenon DEF IInv, RoomInv
  <2> QED BY <2>1, <2>3, <2>4, <2>5, Zenon DEF IInv, Typed, TypeOK
<1> QED BY <1>1, AlwaysIInv, PTL

(* active_connections holds each connection that is logged on exactly once, *)
(* through every login, disconnection and restart and for every number of   *)
(* clients (OnClientLogon, OnClientDisconnected).                           *)
THEOREM ActiveExact == Spec => []ActiveOnce
<1>1. IInv => ActiveOnce
  BY DEF IInv
<1> QED BY <1>1, AlwaysIInv, PTL

(* A client exits at an unexpected number only for one of the named reasons *)
(* (a number dropped, wiped or given to another client, a restart): in all  *)
(* other runs its ring holds exactly the numbers that it expects.           *)
THEOREM ClientsInStep == Spec => []InStep
<1>1. IInv => InStep
  <2> SUFFICES ASSUME IInv, NEW c \in Clients, ~lost[c], ~again[c], proc[c] = "up"
               PROVE  ring[c] = [i \in 1 .. total_sent - recv_num[c] |-> Msg(recv_num[c] + i - 1)]
    BY DEF InStep
  <2>1. Numbers(ring[c], recv_num[c], total_sent)
    BY DEF IInv, StepInv, Base
  <2>2. ring[c] \in Seq(Content)
    BY DEF IInv, Typed
  <2>3. /\ Len(ring[c]) = total_sent - recv_num[c]
        /\ \A i \in 1 .. Len(ring[c]) : ring[c][i] = Msg(recv_num[c] + i - 1)
    BY <2>1 DEF Numbers
  <2>4. ring[c] = [i \in 1 .. Len(ring[c]) |-> ring[c][i]]
    BY <2>2
  <2>5. ring[c] = [i \in 1 .. Len(ring[c]) |-> Msg(recv_num[c] + i - 1)]
    BY <2>3, <2>4, Zenon
  <2> QED BY <2>3, <2>5, Zenon
<1> QED BY <1>1, AlwaysIInv, PTL
=============================================================================
