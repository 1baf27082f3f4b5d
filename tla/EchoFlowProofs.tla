--------------------------- MODULE EchoFlowProofs ---------------------------
(***************************************************************************)
(* EchoFlow for every size of the queues, the receive buffer and the       *)
(* sockets and every number of messages.                                   *)
(*                                                                         *)
(* The argument gives every unit of an end's stream a position: message n  *)
(* has its header at 2n and its body at 2n + 1, a heartbeat stands between *)
(* two messages and takes no position.                                     *)
(***************************************************************************)
EXTENDS EchoFlow, SequenceTheorems, FiniteSetTheorems, WellFoundedInduction, TLAPS

UnitSet == [kind : {"header", "body", "hb"}, ack : Nat]

\* The ack that e may have stored in its message number n: the server pops the
\* message it echoes, the client runs ahead of what it has popped by its queue
\* and one.
GoodMsg(e, ack, n) ==
    /\ e = "s" => ack = n + 1
    /\ e = "c" => n <= ack + TcpQueueSize["c"]

\* Unit u can stand at position p of the stream that e sends.
Good(e, u, p) ==
    /\ u.kind = "header" => \E n \in Nat : p = 2 * n /\ GoodMsg(e, u.ack, n)
    /\ u.kind = "body"   => u.ack = 0 /\ \E n \in Nat : p = 2 * n + 1
    /\ u.kind = "hb"     => \E n \in Nat : p = 2 * n /\ (e = "s" => u.ack = n)

Move(u) == IF u.kind = "hb" THEN 0 ELSE 1

\* The units of s stand at the positions f of e's stream, from lo up to hi.
RunBy(e, s, lo, hi, f) ==
    /\ f[1] = lo /\ f[Len(s) + 1] = hi
    /\ \A i \in 1 .. Len(s) : Good(e, s[i], f[i]) /\ f[i + 1] = f[i] + Move(s[i])

Run(e, s, lo, hi) == \E f \in [Nat -> Nat] : RunBy(e, s, lo, hi, f)

SentTo(e) == 2 * acked[e] + out[e]

Typed ==
    /\ acked \in [Ends -> Nat] /\ msgs \in [Ends -> Seq(Nat)] /\ out \in [Ends -> Nat]
    /\ my_ack \in [Ends -> Nat] /\ fresh \in [Ends -> BOOLEAN]
    /\ chan \in [Ends -> Seq(UnitSet)] /\ buf \in [Ends -> Seq(UnitSet)]
    /\ pc \in [Ends -> {"num", "hb", "front"}] /\ pc["s"] # "num"

AcksTo(s, n) == \A i \in 1 .. Len(s) : s[i].ack <= n

\* What e has queued, and the acks on their way to it.
QueueInv(e) ==
    /\ Len(msgs[e]) <= TcpQueueSize[e] /\ out[e] <= 2 * Len(msgs[e]) /\ Len(chan[e]) <= SockSize
    /\ \A i \in 1 .. Len(msgs[e]) :
         GoodMsg(e, msgs[e][i], acked[e] + i - 1) /\ msgs[e][i] <= my_ack[e]
    /\ acked[e] <= my_ack[Peer(e)] /\ AcksTo(chan[e], my_ack[Peer(e)])

\* The receive buffer of e and the socket continue the peer's stream from where
\* the user of e is to where the peer has sent; a server acknowledges what it
\* echoes, so the client has acks for the echoes whose header it has.
StreamAt(e, p) ==
    /\ Run(Peer(e), buf[e], 2 * my_ack[e], p) /\ Run(Peer(e), chan[e], p, SentTo(Peer(e)))
    /\ e = "c" => 2 * acked["c"] <= p + 1

StreamInv(e) == \E p \in Nat : StreamAt(e, p)

\* Every message popped has been echoed, and what is in the buffer has been
\* looked at for its ack.
ServerInv ==
    /\ my_ack["s"] = acked["s"] + Len(msgs["s"])
    /\ AcksTo(buf["s"], acked["s"]) /\ Len(buf["s"]) <= TcpRecvBufMaxSize

\* The client runs ahead of what it has popped by at most a queue and one, and
\* by one less when it may push.
ClientInv ==
    /\ send_num <= my_ack["c"] + TcpQueueSize["c"] + 1
    /\ pc["c"] = "num" => \/ send_num <= my_ack["c"] + TcpQueueSize["c"]
                          \/ acked["c"] <= my_ack["c"] + 1

(* The inductive invariant. *)
IInv == Typed /\ (\A e \in Ends : QueueInv(e) /\ StreamInv(e)) /\ ServerInv /\ ClientInv

-----------------------------------------------------------------------------
(* Numbers and sets of numbers. *)

LEMMA FlowNat ==
    /\ TcpQueueSize["c"] \in Nat /\ TcpQueueSize["s"] \in Nat
    /\ TcpQueueSize["c"] > 0 /\ TcpQueueSize["s"] > 0
    /\ TcpRecvBufMaxSize \in Nat /\ TcpRecvBufMaxSize >= 2
    /\ SockSize \in Nat /\ MaxNum \in Nat
BY FlowAssumption DEF Ends

LEMMA PeerEnd ==
    ASSUME NEW e \in Ends
    PROVE  /\ e \in {"c", "s"} /\ Peer(e) \in Ends /\ Peer(e) # e /\ Peer(Peer(e)) = e
           /\ Peer("c") = "s" /\ Peer("s") = "c" /\ TcpQueueSize[e] \in Nat
           /\ \A d \in Ends : d = e \/ d = Peer(e)
BY FlowNat DEF Ends, Peer

LEMMA Smallest ==
    ASSUME NEW T \in SUBSET Nat, T # {}
    PROVE  \E m \in T : \A n \in T : m <= n
<1>1. PICK m \in T : \A n \in T : ~(<<n, m>> \in OpToRel(<, Nat))
  BY NatLessThanWellFounded, WFMin
<1>2. ASSUME NEW n \in T PROVE m <= n
  <2>1. n \in Nat /\ m \in Nat
    OBVIOUS
  <2>2. n < m => <<n, m>> \in OpToRel(<, Nat)
    BY <2>1 DEF OpToRel
  <2>3. ~(<<n, m>> \in OpToRel(<, Nat))
    BY <1>1
  <2>4. ~(n < m)
    BY ONLY <2>2, <2>3, Zenon
  <2> QED BY ONLY <2>1, <2>4
<1> QED BY <1>2

\* What Max returns for a set of numbers with a bound.
LEMMA MaxOf ==
    ASSUME NEW T \in SUBSET Nat, T # {}, NEW b \in Nat, \A x \in T : x <= b
    PROVE  Max(T) \in T /\ \A x \in T : x <= Max(T)
<1> DEFINE U == {n \in Nat : \A x \in T : x <= n}
<1>1. PICK m \in U : \A n \in U : m <= n
  <2>1. U \in SUBSET Nat /\ b \in U
    OBVIOUS
  <2> HIDE DEF U
  <2> QED BY <2>1, Smallest
<1>2. m \in T
  <2>1. SUFFICES ASSUME m \notin T PROVE FALSE
    OBVIOUS
  <2>2. PICK x \in T : TRUE
    OBVIOUS
  <2>3. x \in Nat /\ m \in Nat /\ x <= m /\ x # m
    BY <2>1, <2>2
  <2>4. m - 1 \in Nat /\ \A y \in T : y <= m - 1
    <3>1. m - 1 \in Nat
      BY <2>3
    <3>2. ASSUME NEW y \in T PROVE y <= m - 1
      <4>1. y \in Nat /\ y <= m /\ y # m
        BY <2>1
      <4> QED BY ONLY <4>1, <2>3
    <3> QED BY <3>1, <3>2
  <2>5. m <= m - 1
    BY <2>4, <1>1
  <2> QED BY ONLY <2>3, <2>5
<1>3. \A x \in T : x <= m
  OBVIOUS
<1>4. \E y \in T : \A x \in T : x <= y
  BY <1>2, <1>3
<1> HIDE DEF U
<1> QED BY <1>4, Zenon DEF Max

-----------------------------------------------------------------------------
(* Streams. *)

LEMMA MoveNat == ASSUME NEW u PROVE Move(u) \in {0, 1} /\ Move(u) \in Nat
BY DEF Move

\* Positions do not go back.
LEMMA RunUp ==
    ASSUME NEW e, NEW s \in Seq(UnitSet), NEW lo, NEW hi, NEW f \in [Nat -> Nat],
           RunBy(e, s, lo, hi, f),
           NEW i \in 1 .. Len(s) + 1, NEW j \in 1 .. Len(s) + 1, i <= j
    PROVE  f[i] <= f[j]
<1> DEFINE T == {n \in Nat : i <= n /\ n <= Len(s) + 1 /\ f[n] < f[i]}
<1>1. SUFFICES ASSUME T # {} PROVE FALSE
  <2>1. i \in Nat /\ j \in Nat /\ j <= Len(s) + 1 /\ f[i] \in Nat /\ f[j] \in Nat
    OBVIOUS
  <2>2. j \notin T
    BY <1>1
  <2> QED BY <2>1, <2>2
<1>2. PICK m \in T : \A n \in T : m <= n
  <2>1. T \in SUBSET Nat
    OBVIOUS
  <2> HIDE DEF T
  <2> QED BY <1>1, <2>1, Smallest
<1>3. /\ m \in Nat /\ i \in Nat /\ i <= m /\ m <= Len(s) + 1 /\ f[m] < f[i] /\ Len(s) \in Nat
      /\ f[m] \in Nat /\ f[i] \in Nat /\ i >= 1
  BY <1>2
<1>4. m # i
  BY <1>3
<1>5. m - 1 \in 1 .. Len(s) /\ i <= m - 1 /\ m - 1 \in Nat /\ m - 1 <= Len(s) + 1
  BY ONLY <1>3, <1>4
<1>6. f[m - 1] \in Nat /\ ~(f[m - 1] < f[i])
  <2>1. m - 1 \notin T
    <3>1. ~(m <= m - 1)
      BY ONLY <1>3
    <3> QED BY <1>2, <3>1
  <2> QED BY <2>1, <1>5
<1>7. f[(m - 1) + 1] = f[m - 1] + Move(s[m - 1]) /\ (m - 1) + 1 = m
  <2>1. (m - 1) + 1 = m
    BY ONLY <1>3
  <2>2. \A n \in 1 .. Len(s) : f[n + 1] = f[n] + Move(s[n])
    BY DEF RunBy
  <2> QED BY ONLY <1>5, <2>1, <2>2
<1>8. Move(s[m - 1]) \in Nat
  BY MoveNat
<1> QED BY ONLY <1>3, <1>6, <1>7, <1>8

LEMMA RunOrder ==
    ASSUME NEW e, NEW s \in Seq(UnitSet), NEW lo, NEW hi, Run(e, s, lo, hi)
    PROVE  lo \in Nat /\ hi \in Nat /\ lo <= hi
<1>1. PICK f \in [Nat -> Nat] : RunBy(e, s, lo, hi, f)
  BY DEF Run
<1>2. Len(s) \in Nat /\ 1 \in 1 .. Len(s) + 1 /\ Len(s) + 1 \in 1 .. Len(s) + 1 /\ 1 <= Len(s) + 1
  OBVIOUS
<1>3. f[1] <= f[Len(s) + 1]
  BY <1>1, <1>2, RunUp
<1>4. f[1] = lo /\ f[Len(s) + 1] = hi
  BY <1>1 DEF RunBy
<1> QED BY <1>2, <1>3, <1>4

LEMMA RunEmpty == ASSUME NEW e, NEW lo \in Nat PROVE Run(e, <<>>, lo, lo)
<1> DEFINE f == [n \in Nat |-> lo]
<1>1. f \in [Nat -> Nat] /\ f[1] = lo
  OBVIOUS
<1>2. RunBy(e, <<>>, lo, lo, f)
  BY <1>1 DEF RunBy
<1> QED BY <1>1, <1>2 DEF Run

\* A stream cut into two.
LEMMA RunSplit ==
    ASSUME NEW e, NEW s \in Seq(UnitSet), NEW k \in 0 .. Len(s), NEW lo, NEW hi, Run(e, s, lo, hi)
    PROVE  \E p \in Nat : /\ Run(e, SubSeq(s, 1, k), lo, p)
                          /\ Run(e, SubSeq(s, k + 1, Len(s)), p, hi)
                          /\ (\A i \in 1 .. k : s[i].kind = "hb") => p = lo
<1>1. PICK f \in [Nat -> Nat] : RunBy(e, s, lo, hi, f)
  BY DEF Run
<1>2. /\ f[1] = lo /\ f[Len(s) + 1] = hi
      /\ \A i \in 1 .. Len(s) : Good(e, s[i], f[i]) /\ f[i + 1] = f[i] + Move(s[i])
  BY <1>1 DEF RunBy
<1> DEFINE a == SubSeq(s, 1, k)
           b == SubSeq(s, k + 1, Len(s))
           p == f[k + 1]
           g == [n \in Nat |-> f[n + k]]
<1>3. /\ Len(s) \in Nat /\ k \in Nat /\ k <= Len(s) /\ p \in Nat /\ g \in [Nat -> Nat]
      /\ \A n \in Nat : g[n] = f[n + k]
  OBVIOUS
<1>4. /\ Len(a) = k /\ \A i \in 1 .. k : a[i] = s[i]
      /\ Len(b) = Len(s) - k /\ \A i \in 1 .. Len(s) - k : b[i] = s[i + k]
  OBVIOUS
<1> HIDE DEF a, b, g
<1>5. RunBy(e, a, lo, p, f)
  <2>1. f[1] = lo /\ f[Len(a) + 1] = p
    BY <1>2, <1>4
  <2>2. ASSUME NEW i \in 1 .. Len(a) PROVE Good(e, a[i], f[i]) /\ f[i + 1] = f[i] + Move(a[i])
    <3>1. i \in 1 .. Len(s) /\ i \in 1 .. k
      BY <1>3, <1>4
    <3>2. a[i] = s[i] /\ Good(e, s[i], f[i]) /\ f[i + 1] = f[i] + Move(s[i])
      BY <3>1, <1>2, <1>4
    <3> QED BY <3>2
  <2> QED BY <2>1, <2>2, Zenon DEF RunBy
<1>6. RunBy(e, b, p, hi, g)
  <2>1. g[1] = p /\ g[Len(b) + 1] = hi
    <3>1. 1 + k = k + 1 /\ Len(b) + 1 \in Nat /\ (Len(b) + 1) + k = Len(s) + 1
      BY <1>3, <1>4
    <3>2. g[1] = f[1 + k] /\ g[Len(b) + 1] = f[(Len(b) + 1) + k]
      BY ONLY <3>1, <1>3
    <3> QED BY <3>1, <3>2, <1>2, Zenon DEF p
  <2>2. ASSUME NEW i \in 1 .. Len(b) PROVE Good(e, b[i], g[i]) /\ g[i + 1] = g[i] + Move(b[i])
    <3>1. i \in Nat /\ i + 1 \in Nat /\ i + k \in 1 .. Len(s) /\ i \in 1 .. Len(s) - k /\ (i + 1) + k = (i + k) + 1
      BY <1>3, <1>4
    <3>2. b[i] = s[i + k] /\ g[i] = f[i + k] /\ g[i + 1] = f[(i + k) + 1]
      BY <3>1, <1>3, <1>4
    <3>3. Good(e, s[i + k], f[i + k]) /\ f[(i + k) + 1] = f[i + k] + Move(s[i + k])
      BY <3>1, <1>2
    <3> QED BY <3>2, <3>3
  <2> QED BY <2>1, <2>2 DEF RunBy
<1>7. ASSUME \A i \in 1 .. k : s[i].kind = "hb" PROVE p = lo
  <2> DEFINE T == {n \in Nat : 1 <= n /\ n <= k + 1 /\ f[n] # lo}
  <2>1. SUFFICES ASSUME T # {} PROVE FALSE
    <3>1. k + 1 \in Nat /\ 1 <= k + 1 /\ k + 1 <= k + 1
      BY <1>3
    <3>2. k + 1 \notin T
      BY <2>1
    <3> QED BY <3>1, <3>2
  <2>2. PICK m \in T : \A n \in T : m <= n
    <3>1. T \in SUBSET Nat
      OBVIOUS
    <3> HIDE DEF T
    <3> QED BY <2>1, <3>1, Smallest
  <2>3. m \in Nat /\ 1 <= m /\ m <= k + 1 /\ f[m] # lo /\ m # 1
    BY <1>2, <2>2
  <2>4. m - 1 \in 1 .. k /\ m - 1 \in 1 .. Len(s) /\ m - 1 \in Nat /\ (m - 1) + 1 = m /\ ~(m <= m - 1) /\ m - 1 <= k + 1
    BY ONLY <2>3, <1>3
  <2>5. f[m - 1] = lo
    <3>1. m - 1 \notin T
      BY <2>2, <2>4
    <3> QED BY <3>1, <2>4
  <2>6. f[m] = f[m - 1] + Move(s[m - 1]) /\ Move(s[m - 1]) = 0
    BY <1>2, <1>7, <2>4 DEF Move
  <2>7. f[m - 1] \in Nat
    BY <2>4
  <2> QED BY ONLY <2>3, <2>5, <2>6, <2>7
<1> QED BY <1>3, <1>5, <1>6, <1>7 DEF Run, a, b

\* A stream continued.
LEMMA RunConcat ==
    ASSUME NEW e, NEW s \in Seq(UnitSet), NEW t \in Seq(UnitSet), NEW lo, NEW p, NEW hi,
           Run(e, s, lo, p), Run(e, t, p, hi)
    PROVE  s \o t \in Seq(UnitSet) /\ Len(s \o t) = Len(s) + Len(t) /\ Run(e, s \o t, lo, hi)
<1>1. PICK f \in [Nat -> Nat] : RunBy(e, s, lo, p, f)
  BY DEF Run
<1>2. PICK g \in [Nat -> Nat] : RunBy(e, t, p, hi, g)
  BY DEF Run
<1>3. /\ f[1] = lo /\ f[Len(s) + 1] = p
      /\ \A i \in 1 .. Len(s) : Good(e, s[i], f[i]) /\ f[i + 1] = f[i] + Move(s[i])
  BY <1>1 DEF RunBy
<1>4. /\ g[1] = p /\ g[Len(t) + 1] = hi
      /\ \A i \in 1 .. Len(t) : Good(e, t[i], g[i]) /\ g[i + 1] = g[i] + Move(t[i])
  BY <1>2 DEF RunBy
<1> DEFINE r == s \o t
           h == [n \in Nat |-> IF n <= Len(s) THEN f[n] ELSE g[n - Len(s)]]
<1>5. /\ r \in Seq(UnitSet) /\ Len(r) = Len(s) + Len(t) /\ Len(s) \in Nat /\ Len(t) \in Nat
      /\ \A i \in 1 .. Len(s) + Len(t) : r[i] = IF i <= Len(s) THEN s[i] ELSE t[i - Len(s)]
  BY ConcatProperties, LenProperties
<1>6. h \in [Nat -> Nat]
  <2>1. ASSUME NEW n \in Nat PROVE (IF n <= Len(s) THEN f[n] ELSE g[n - Len(s)]) \in Nat
    <3>1. ~(n <= Len(s)) => n - Len(s) \in Nat
      BY <1>5
    <3> QED BY <3>1
  <2> QED BY <2>1
<1>7. \A n \in Nat : h[n] = IF n <= Len(s) THEN f[n] ELSE g[n - Len(s)]
  OBVIOUS
<1> HIDE DEF r, h
<1>12. Len(r) = Len(s) + Len(t) /\ Len(s) \in Nat /\ Len(t) \in Nat /\ Len(r) \in Nat
  BY <1>5, LenProperties
<1>8. h[1] = lo
  <2>1. 1 <= Len(s) => h[1] = f[1]
    BY <1>7
  <2>2. ~(1 <= Len(s)) => Len(s) = 0 /\ 1 - Len(s) = 1 /\ Len(s) + 1 = 1
    BY <1>5
  <2>3. ~(1 <= Len(s)) => h[1] = g[1 - Len(s)]
    BY <1>7
  <2> QED BY <2>1, <2>2, <2>3, <1>3, <1>4
<1>9. h[Len(r) + 1] = hi
  <2>1. Len(r) + 1 \in Nat /\ ~(Len(r) + 1 <= Len(s)) /\ (Len(r) + 1) - Len(s) = Len(t) + 1
    <3>1. \A m, n, l \in Nat : l = m + n => l + 1 \in Nat /\ ~(l + 1 <= m) /\ (l + 1) - m = n + 1
      OBVIOUS
    <3> QED BY ONLY <3>1, <1>12, Zenon
  <2>2. h[Len(r) + 1] = g[(Len(r) + 1) - Len(s)]
    BY <2>1, <1>7
  <2> QED BY <2>1, <2>2, <1>4
<1>10. ASSUME NEW i \in 1 .. Len(r) PROVE Good(e, r[i], h[i]) /\ h[i + 1] = h[i] + Move(r[i])
  <2> DEFINE m == Len(s)
             n == Len(t)
  <2>4. i \in 1 .. m + n /\ m \in Nat /\ n \in Nat
    BY <1>5, Zenon
  <2>5. r[i] = IF i <= m THEN s[i] ELSE t[i - m]
    BY <2>4, <1>5, Zenon
  <2> HIDE DEF m, n
  <2>1. i \in Nat /\ i + 1 \in Nat /\ i \in 1 .. m + n /\ i >= 1
    BY ONLY <2>4
  <2>6. /\ i <= m => i \in 1 .. m
        /\ ~(i <= m) => i - m \in 1 .. n /\ (i + 1) - m = (i - m) + 1 /\ ~(i + 1 <= m)
    BY ONLY <2>4
  <2> USE DEF m, n
  <2>2. CASE i <= Len(s)
    <3>1. i \in 1 .. Len(s) /\ r[i] = s[i] /\ h[i] = f[i]
      BY <2>1, <2>2, <2>5, <2>6, <1>7
    <3>2. h[i + 1] = f[i + 1]
      <4>1. CASE i + 1 <= Len(s)
        BY <4>1, <2>1, <1>7
      <4>2. CASE ~(i + 1 <= Len(s))
        <5>1. i = Len(s) /\ (i + 1) - Len(s) = 1
          BY ONLY <4>2, <2>1, <2>2, <1>12
        <5>2. h[i + 1] = g[(i + 1) - Len(s)]
          BY <4>2, <2>1, <1>7
        <5> QED BY <5>1, <5>2, <1>3, <1>4
      <4> QED BY <4>1, <4>2
    <3>3. Good(e, s[i], f[i]) /\ f[i + 1] = f[i] + Move(s[i])
      BY <3>1, <1>3
    <3> QED BY <3>1, <3>2, <3>3
  <2>3. CASE ~(i <= Len(s))
    <3> DEFINE j == i - Len(s)
    <3>1. j \in 1 .. Len(t) /\ (i + 1) - Len(s) = j + 1 /\ ~(i + 1 <= Len(s))
      BY <2>3, <2>6
    <3>2. r[i] = t[j] /\ h[i] = g[j]
      BY <2>1, <2>3, <2>5, <1>7
    <3>3. h[i + 1] = g[j + 1]
      BY <2>1, <3>1, <1>7
    <3>4. Good(e, t[j], g[j]) /\ g[j + 1] = g[j] + Move(t[j])
      BY <3>1, <1>4
    <3> QED BY <3>2, <3>3, <3>4
  <2> QED BY <2>2, <2>3
<1>11. RunBy(e, r, lo, hi, h)
  BY <1>8, <1>9, <1>10, Zenon DEF RunBy
<1> QED BY <1>5, <1>6, <1>11 DEF Run, r

\* A heartbeat between two messages.
LEMMA RunHB ==
    ASSUME NEW e, NEW u \in UnitSet, NEW p \in Nat, Good(e, u, p), u.kind = "hb"
    PROVE  <<u>> \in Seq(UnitSet) /\ Len(<<u>>) = 1 /\ Run(e, <<u>>, p, p)
<1> DEFINE f == [n \in Nat |-> p]
<1>1. /\ f \in [Nat -> Nat] /\ \A n \in Nat : f[n] = p
      /\ <<u>> \in Seq(UnitSet) /\ Len(<<u>>) = 1 /\ <<u>>[1] = u
  OBVIOUS
<1> HIDE DEF f
<1>2. Move(u) = 0 /\ p = p + 0
  BY DEF Move
<1>3. RunBy(e, <<u>>, p, p, f)
  <2>1. f[1] = p /\ f[Len(<<u>>) + 1] = p
    BY <1>1
  <2>2. ASSUME NEW i \in 1 .. Len(<<u>>) PROVE Good(e, <<u>>[i], f[i]) /\ f[i + 1] = f[i] + Move(<<u>>[i])
    <3>1. i = 1 /\ f[1] = p /\ f[1 + 1] = p
      BY <1>1
    <3> QED BY <3>1, <1>1, <1>2
  <2> QED BY <2>1, <2>2, Zenon DEF RunBy
<1> QED BY <1>1, <1>3 DEF Run

-----------------------------------------------------------------------------
(* Heartbeats at the front of the buffer are consumed. *)

LEMMA SkipHBIs ==
    ASSUME NEW b \in Seq(UnitSet)
    PROVE  \E m \in 0 .. Len(b) : /\ SkipHB(b) = SubSeq(b, m + 1, Len(b))
                                  /\ \A i \in 1 .. m : b[i].kind = "hb"
                                  /\ m < Len(b) => b[m + 1].kind # "hb"
<1> DEFINE T == {n \in Nat : n <= Len(b) /\ (n < Len(b) => b[n + 1].kind # "hb")}
           S == {i \in DOMAIN b : \A j \in 1 .. i : b[j].kind = "hb"}
<1>1. Len(b) \in Nat /\ DOMAIN b = 1 .. Len(b)
  OBVIOUS
<1>2. PICK m \in T : \A n \in T : m <= n
  <2>1. T \in SUBSET Nat /\ Len(b) \in T
    BY <1>1
  <2> HIDE DEF T
  <2> QED BY <2>1, Smallest
<1>3. m \in Nat /\ m <= Len(b) /\ (m < Len(b) => b[m + 1].kind # "hb")
  BY <1>2
<1>4. ASSUME NEW i \in 1 .. m PROVE b[i].kind = "hb"
  <2>1. i - 1 \in Nat /\ i - 1 <= Len(b) /\ i - 1 < Len(b) /\ ~(m <= i - 1) /\ (i - 1) + 1 = i
    BY <1>1, <1>3
  <2>2. i - 1 \notin T
    BY <1>2, <2>1
  <2>3. ~(b[(i - 1) + 1].kind # "hb")
    BY <2>1, <2>2
  <2> QED BY <2>1, <2>3
<1>5. S = 1 .. m
  <2>1. ASSUME NEW i \in S PROVE i \in 1 .. m
    <3>1. i \in 1 .. Len(b) /\ \A j \in 1 .. i : b[j].kind = "hb"
      BY <1>1
    <3>2. i > m => m + 1 \in 1 .. i /\ m < Len(b)
      BY <1>1, <1>3, <3>1
    <3> QED BY <1>1, <1>3, <3>1, <3>2
  <2>2. ASSUME NEW i \in 1 .. m PROVE i \in S
    <3>1. i \in 1 .. Len(b) /\ \A j \in 1 .. i : j \in 1 .. m
      BY <1>1, <1>3
    <3> QED BY <1>1, <1>4, <3>1
  <2> QED BY <2>1, <2>2
<1>6. Cardinality(S) = m
  <2>1. Cardinality(1 .. m) = IF 1 > m THEN 0 ELSE m - 1 + 1
    BY <1>3, FS_Interval
  <2>2. Cardinality(1 .. m) = m
    BY <1>3, <2>1
  <2> QED BY <1>5, <2>2
<1>7. SkipHB(b) = SubSeq(b, m + 1, Len(b))
  BY <1>6 DEF SkipHB
<1> QED BY <1>1, <1>3, <1>4, <1>7

\* What is left begins with a message, and is at the same place of the stream.
LEMMA SkipHBRun ==
    ASSUME NEW e, NEW b \in Seq(UnitSet), NEW lo, NEW hi, Run(e, b, lo, hi)
    PROVE  /\ SkipHB(b) \in Seq(UnitSet) /\ Len(SkipHB(b)) <= Len(b)
           /\ Run(e, SkipHB(b), lo, hi)
           /\ Len(SkipHB(b)) > 0 => SkipHB(b)[1].kind # "hb"
           /\ \A n \in Nat : AcksTo(b, n) => AcksTo(SkipHB(b), n)
<1>1. PICK m \in 0 .. Len(b) : /\ SkipHB(b) = SubSeq(b, m + 1, Len(b))
                               /\ \A i \in 1 .. m : b[i].kind = "hb"
                               /\ m < Len(b) => b[m + 1].kind # "hb"
  BY SkipHBIs
<1> DEFINE x == SubSeq(b, m + 1, Len(b))
<1>2. /\ x \in Seq(UnitSet) /\ Len(x) = Len(b) - m /\ Len(b) \in Nat /\ m \in Nat /\ m <= Len(b)
      /\ \A i \in 1 .. Len(b) - m : x[i] = b[i + m]
  OBVIOUS
<1>3. Run(e, x, lo, hi)
  BY <1>1, RunSplit
<1> HIDE DEF x
<1>4. Len(x) > 0 => x[1].kind # "hb"
  <2>1. Len(x) > 0 => 1 \in 1 .. Len(b) - m /\ m < Len(b) /\ 1 + m = m + 1
    BY <1>2
  <2> QED BY <1>1, <1>2, <2>1
<1>5. ASSUME NEW n \in Nat, AcksTo(b, n) PROVE AcksTo(x, n)
  <2>1. ASSUME NEW i \in 1 .. Len(x) PROVE x[i].ack <= n
    <3>1. i + m \in 1 .. Len(b) /\ x[i] = b[i + m]
      BY <1>2
    <3> QED BY <3>1, <1>5 DEF AcksTo
  <2> QED BY <2>1 DEF AcksTo
<1>6. x = SkipHB(b)
  BY <1>1 DEF x
<1> QED BY <1>2, <1>3, <1>4, <1>5, <1>6

-----------------------------------------------------------------------------
(* What SendPending hands over. *)

\* Unit number k of a window w, from 1.
WindowUnit(w, k) == IF k % 2 = 1 THEN Unit("header", w[(k + 1) \div 2]) ELSE Unit("body", 0)

\* The window of e holds the messages from number a on.
Window(e, w, a) == \A i \in 1 .. Len(w) : GoodMsg(e, w[i], a + i - 1)

LEMMA WindowUnitGood ==
    ASSUME NEW e, NEW w \in Seq(Nat), NEW a \in Nat, Window(e, w, a),
           NEW k \in 1 .. 2 * Len(w), NEW n \in Nat, \A i \in 1 .. Len(w) : w[i] <= n
    PROVE  /\ WindowUnit(w, k) \in UnitSet /\ WindowUnit(w, k).ack <= n
           /\ Good(e, WindowUnit(w, k), 2 * a + k - 1) /\ Move(WindowUnit(w, k)) = 1
<1>1. k \in Nat /\ k >= 1 /\ Len(w) \in Nat /\ k <= 2 * Len(w)
  OBVIOUS
<1>2. CASE k % 2 = 1
  <2> DEFINE i == (k + 1) \div 2
             u == Unit("header", w[i])
  <2>1. i \in 1 .. Len(w) /\ k = 2 * i - 1 /\ i \in Nat
    BY <1>1, <1>2
  <2>2. WindowUnit(w, k) = u
    BY <1>2 DEF WindowUnit
  <2> HIDE DEF i
  <2>3. w[i] \in Nat /\ w[i] <= n /\ GoodMsg(e, w[i], a + i - 1)
    BY <2>1 DEF Window
  <2>4. u.kind = "header" /\ u.ack = w[i] /\ u \in UnitSet
    BY <2>3 DEF Unit, UnitSet
  <2> HIDE DEF u
  <2>5. a + i - 1 \in Nat /\ 2 * a + k - 1 = 2 * (a + i - 1)
    BY <2>1
  <2>6. Good(e, u, 2 * a + k - 1)
    BY <2>3, <2>4, <2>5 DEF Good
  <2>7. Move(u) = 1
    BY <2>4 DEF Move
  <2> QED BY <2>2, <2>3, <2>4, <2>6, <2>7
<1>3. CASE k % 2 # 1
  <2> DEFINE i == k \div 2
             u == Unit("body", 0)
  <2>1. i \in Nat /\ k = 2 * i /\ i >= 1
    BY <1>1, <1>3
  <2>2. WindowUnit(w, k) = u
    BY <1>3 DEF WindowUnit
  <2> HIDE DEF i
  <2>4. u.kind = "body" /\ u.ack = 0 /\ u \in UnitSet
    BY DEF Unit, UnitSet
  <2> HIDE DEF u
  <2>5. a + i - 1 \in Nat /\ 2 * a + k - 1 = 2 * (a + i - 1) + 1
    BY <2>1
  <2>6. Good(e, u, 2 * a + k - 1)
    BY <2>4, <2>5 DEF Good
  <2>7. Move(u) = 1
    BY <2>4 DEF Move
  <2> QED BY <2>2, <2>4, <2>6, <2>7
<1> QED BY <1>2, <1>3

\* n units of the window from o on.
Segment(w, o, n) == [k \in 1 .. n |-> WindowUnit(w, o + k)]

LEMMA SegmentRun ==
    ASSUME NEW e, NEW w \in Seq(Nat), NEW a \in Nat, Window(e, w, a),
           NEW b \in Nat, \A i \in 1 .. Len(w) : w[i] <= b,
           NEW o \in Nat, NEW n \in Nat, o + n <= 2 * Len(w)
    PROVE  /\ Segment(w, o, n) \in Seq(UnitSet) /\ Len(Segment(w, o, n)) = n
           /\ Run(e, Segment(w, o, n), 2 * a + o, 2 * a + (o + n))
           /\ AcksTo(Segment(w, o, n), b)
<1> DEFINE s == Segment(w, o, n)
           f == [i \in Nat |-> IF i = 0 THEN 0 ELSE 2 * a + (o + i) - 1]
<1>1. Len(w) \in Nat
  OBVIOUS
<1>2. ASSUME NEW k \in 1 .. n
      PROVE  /\ WindowUnit(w, o + k) \in UnitSet /\ WindowUnit(w, o + k).ack <= b
             /\ Good(e, WindowUnit(w, o + k), 2 * a + (o + k) - 1) /\ Move(WindowUnit(w, o + k)) = 1
  <2>1. o + k \in 1 .. 2 * Len(w)
    BY <1>1
  <2> QED BY <2>1, WindowUnitGood
<1>3. s \in Seq(UnitSet) /\ Len(s) = n /\ \A k \in 1 .. n : s[k] = WindowUnit(w, o + k)
  <2>1. s = [k \in 1 .. n |-> WindowUnit(w, o + k)]
    BY DEF Segment
  <2>2. \A k \in 1 .. n : WindowUnit(w, o + k) \in UnitSet
    BY <1>2
  <2> HIDE DEF s
  <2>3. s \in Seq(UnitSet) /\ Len(s) = n
    BY <2>1, <2>2
  <2> QED BY <2>1, <2>3
<1>4. f \in [Nat -> Nat] /\ \A i \in Nat : i # 0 => f[i] = 2 * a + (o + i) - 1
  OBVIOUS
<1> HIDE DEF s, f
<1>5. RunBy(e, s, 2 * a + o, 2 * a + (o + n), f)
  <2>1. f[1] = 2 * a + o /\ f[Len(s) + 1] = 2 * a + (o + n)
    <3>1. Len(s) + 1 = n + 1 /\ n + 1 \in Nat /\ n + 1 # 0 /\ 2 * a + (o + (n + 1)) - 1 = 2 * a + (o + n)
          /\ 2 * a + (o + 1) - 1 = 2 * a + o
      BY <1>3
    <3> QED BY <3>1, <1>4
  <2>2. ASSUME NEW i \in 1 .. Len(s) PROVE Good(e, s[i], f[i]) /\ f[i + 1] = f[i] + Move(s[i])
    <3>1. i \in 1 .. n
      BY <1>3
    <3>2. i \in Nat /\ i # 0 /\ i + 1 \in Nat /\ i + 1 # 0
          /\ 2 * a + (o + (i + 1)) - 1 = (2 * a + (o + i) - 1) + 1
      BY ONLY <3>1, o \in Nat, a \in Nat, n \in Nat
    <3>3. f[i] = 2 * a + (o + i) - 1 /\ f[i + 1] = 2 * a + (o + (i + 1)) - 1
      BY <3>2, <1>4
    <3>4. s[i] = WindowUnit(w, o + i) /\ Good(e, WindowUnit(w, o + i), 2 * a + (o + i) - 1) /\ Move(WindowUnit(w, o + i)) = 1
      BY <3>1, <1>2, <1>3
    <3> QED BY <3>2, <3>3, <3>4
  <2> QED BY <2>1, <2>2, Zenon DEF RunBy
<1>6. AcksTo(s, b)
  BY <1>2, <1>3 DEF AcksTo
<1> QED BY <1>3, <1>4, <1>5, <1>6 DEF Run, s

LEMMA AcksConcat ==
    ASSUME NEW s \in Seq(UnitSet), NEW t \in Seq(UnitSet), NEW n \in Nat, AcksTo(s, n), AcksTo(t, n)
    PROVE  AcksTo(s \o t, n)
<1> DEFINE r == s \o t
<1>1. /\ Len(s) \in Nat /\ Len(t) \in Nat /\ Len(r) = Len(s) + Len(t)
      /\ \A i \in 1 .. Len(s) + Len(t) : r[i] = IF i <= Len(s) THEN s[i] ELSE t[i - Len(s)]
  BY ConcatProperties, LenProperties
<1> HIDE DEF r
<1>2. ASSUME NEW i \in 1 .. Len(r) PROVE r[i].ack <= n
  <2>1. i \in 1 .. Len(s) + Len(t)
    BY <1>1, Zenon
  <2>2. (i <= Len(s) /\ i \in 1 .. Len(s)) \/ (~(i <= Len(s)) /\ i - Len(s) \in 1 .. Len(t))
    BY <1>1, <2>1
  <2> QED BY <1>1, <2>1, <2>2 DEF AcksTo
<1> QED BY <1>2 DEF AcksTo, r

LEMMA MinOf ==
    ASSUME NEW a \in Nat, NEW b \in Nat
    PROVE  Min({a, b}) \in Nat /\ Min({a, b}) <= a /\ Min({a, b}) <= b
<1>1. \E x \in {a, b} : \A y \in {a, b} : x <= y
  <2>1. a <= b \/ b <= a
    OBVIOUS
  <2>2. a <= a /\ b <= b
    OBVIOUS
  <2> QED BY ONLY <2>1, <2>2, Zenon
<1>2. Min({a, b}) \in {a, b} /\ \A y \in {a, b} : Min({a, b}) <= y
  BY <1>1, Zenon DEF Min
<1> QED BY <1>2

\* What a call of SendPending leaves: the socket continues e's stream.
LEMMA SendPendingDoes ==
    ASSUME NEW e \in Ends, NEW w \in Seq(Nat), NEW o \in Nat, NEW ch \in [Ends -> Seq(UnitSet)],
           NEW a \in Nat, NEW b \in Nat, NEW lo,
           msgs \in [Ends -> Seq(Nat)], out \in [Ends -> Nat],
           Window(e, w, a), \A i \in 1 .. Len(w) : w[i] <= b,
           o <= 2 * Len(w), Len(ch[Peer(e)]) <= SockSize,
           Run(e, ch[Peer(e)], lo, 2 * a + o), AcksTo(ch[Peer(e)], b),
           SendPending(e, w, o, ch)
    PROVE  /\ msgs' = [msgs EXCEPT ![e] = w] /\ out' \in [Ends -> Nat]
           /\ out'[e] <= 2 * Len(w) /\ out'[Peer(e)] = out[Peer(e)]
           /\ chan' \in [Ends -> Seq(UnitSet)] /\ chan'[e] = ch[e]
           /\ Len(chan'[Peer(e)]) <= SockSize
           /\ Run(e, chan'[Peer(e)], lo, 2 * a + out'[e]) /\ AcksTo(chan'[Peer(e)], b)
<1> DEFINE p == Peer(e)
           n == Min({2 * Len(w) - o, SockSize - Len(ch[p])})
<1>1. p \in Ends /\ p # e /\ Len(w) \in Nat /\ ch[p] \in Seq(UnitSet) /\ Len(ch[p]) \in Nat
  BY PeerEnd
<1>2. 2 * Len(w) - o \in Nat /\ SockSize - Len(ch[p]) \in Nat
  BY <1>1, FlowNat
<1>3. n \in Nat /\ n <= 2 * Len(w) - o /\ n <= SockSize - Len(ch[p])
  BY <1>2, MinOf
<1>4. /\ msgs' = [msgs EXCEPT ![e] = w] /\ out' = [out EXCEPT ![e] = o + n]
      /\ chan' = [ch EXCEPT ![p] = ch[p] \o Segment(w, o, n)]
  <2>1. Segment(w, o, n) = [k \in 1 .. n |-> IF (o + k) % 2 = 1 THEN Unit("header", w[((o + k) + 1) \div 2]) ELSE Unit("body", 0)]
    BY DEF Segment, WindowUnit
  <2> QED BY <2>1 DEF SendPending
<1> HIDE DEF n, p
<1>5. o + n <= 2 * Len(w) /\ Len(ch[p]) + n <= SockSize
  BY ONLY <1>1, <1>2, <1>3, o \in Nat, FlowNat
<1>6. /\ Segment(w, o, n) \in Seq(UnitSet) /\ Len(Segment(w, o, n)) = n
      /\ Run(e, Segment(w, o, n), 2 * a + o, 2 * a + (o + n)) /\ AcksTo(Segment(w, o, n), b)
  BY <1>3, <1>5, SegmentRun
<1>7. /\ ch[p] \o Segment(w, o, n) \in Seq(UnitSet)
      /\ Len(ch[p] \o Segment(w, o, n)) = Len(ch[p]) + n
      /\ Run(e, ch[p] \o Segment(w, o, n), lo, 2 * a + (o + n))
      /\ AcksTo(ch[p] \o Segment(w, o, n), b)
  BY <1>1, <1>6, RunConcat, AcksConcat DEF p
<1>8. /\ chan' \in [Ends -> Seq(UnitSet)] /\ chan'[p] = ch[p] \o Segment(w, o, n) /\ chan'[e] = ch[e]
  BY <1>1, <1>4, <1>7
<1>9. out' \in [Ends -> Nat] /\ out'[e] = o + n /\ out'[p] = out[p]
  BY <1>1, <1>3, <1>4
<1> QED BY <1>4, <1>5, <1>7, <1>8, <1>9 DEF p

-----------------------------------------------------------------------------
(* Acks that are read. *)

LEMMA UnitFields ==
    ASSUME NEW s \in Seq(UnitSet), NEW i \in 1 .. Len(s)
    PROVE  s[i] \in UnitSet /\ s[i].kind \in {"header", "body", "hb"} /\ s[i].ack \in Nat
<1>1. s[i] \in UnitSet
  OBVIOUS
<1> QED BY <1>1 DEF UnitSet

LEMMA AckOfDoes ==
    ASSUME NEW e \in Ends, acked \in [Ends -> Nat], NEW s \in Seq(UnitSet), NEW b \in Nat,
           acked[e] <= b, AcksTo(s, b)
    PROVE  /\ AckOf(e, s) \in Nat /\ acked[e] <= AckOf(e, s) /\ AckOf(e, s) <= b
           /\ AcksTo(s, AckOf(e, s))
           /\ AckOf(e, s) = acked[e] \/ \E i \in 1 .. Len(s) : AckOf(e, s) = s[i].ack
<1> DEFINE T == {acked[e]} \cup {s[i].ack : i \in DOMAIN s}
<1>1. DOMAIN s = 1 .. Len(s) /\ \A i \in 1 .. Len(s) : s[i] \in UnitSet /\ s[i].ack \in Nat
  BY UnitFields
<1>2. T \in SUBSET Nat /\ acked[e] \in T /\ \A i \in 1 .. Len(s) : s[i].ack \in T
  BY <1>1
<1>3. ASSUME NEW x \in T PROVE x <= b
  BY <1>1 DEF AcksTo
<1>4. ASSUME NEW x \in T PROVE x = acked[e] \/ \E i \in 1 .. Len(s) : x = s[i].ack
  BY <1>1
<1>5. AckOf(e, s) = Max(T)
  BY DEF AckOf
<1> HIDE DEF T
<1>6. Max(T) \in T /\ \A x \in T : x <= Max(T)
  BY <1>2, <1>3, MaxOf
<1> QED BY <1>2, <1>3, <1>4, <1>5, <1>6 DEF AcksTo

\* The server's acks are for the echoes up to the one they come with.
LEMMA RunAck ==
    ASSUME NEW s \in Seq(UnitSet), NEW lo, NEW hi, Run("s", s, lo, hi), NEW i \in 1 .. Len(s)
    PROVE  2 * s[i].ack <= hi + 1
<1>1. PICK f \in [Nat -> Nat] : RunBy("s", s, lo, hi, f)
  BY DEF Run
<1>2. i \in Nat /\ Len(s) \in Nat /\ i + 1 \in 1 .. Len(s) + 1 /\ Len(s) + 1 \in 1 .. Len(s) + 1 /\ i + 1 <= Len(s) + 1
  OBVIOUS
<1>3. f[i + 1] <= hi /\ f[i] \in Nat /\ f[i + 1] \in Nat /\ hi \in Nat
  <2>1. f[i + 1] <= f[Len(s) + 1]
    BY <1>1, <1>2, RunUp
  <2>2. f[Len(s) + 1] = hi
    BY <1>1 DEF RunBy
  <2>3. i \in Nat /\ i + 1 \in Nat /\ Len(s) + 1 \in Nat
    BY <1>2
  <2>4. f[i] \in Nat /\ f[i + 1] \in Nat /\ f[Len(s) + 1] \in Nat
    BY <2>3
  <2> QED BY <2>1, <2>2, <2>4
<1>4. Good("s", s[i], f[i]) /\ f[i + 1] = f[i] + Move(s[i])
  BY <1>1 DEF RunBy
<1>5. s[i].kind \in {"header", "body", "hb"} /\ s[i].ack \in Nat
  BY UnitFields
<1>6. CASE s[i].kind = "header"
  <2>1. PICK n \in Nat : f[i] = 2 * n /\ s[i].ack = n + 1
    BY <1>4, <1>6 DEF Good, GoodMsg
  <2>2. f[i + 1] = f[i] + 1
    BY <1>4, <1>6 DEF Move
  <2> QED BY <2>1, <2>2, <1>3
<1>7. CASE s[i].kind = "body"
  <2>1. s[i].ack = 0
    BY <1>4, <1>7 DEF Good
  <2> QED BY <2>1, <1>3
<1>8. CASE s[i].kind = "hb"
  <2>1. PICK n \in Nat : f[i] = 2 * n /\ s[i].ack = n
    BY <1>4, <1>8 DEF Good
  <2>2. f[i + 1] = f[i] + 0
    BY <1>4, <1>8 DEF Move
  <2> QED BY <2>1, <2>2, <1>3
<1> QED BY <1>5, <1>6, <1>7, <1>8

LEMMA SubSeqTail ==
    ASSUME NEW S, NEW s \in Seq(S), NEW k \in 0 .. Len(s)
    PROVE  /\ SubSeq(s, k + 1, Len(s)) \in Seq(S) /\ Len(SubSeq(s, k + 1, Len(s))) = Len(s) - k
           /\ \A i \in 1 .. Len(s) - k : SubSeq(s, k + 1, Len(s))[i] = s[i + k]
OBVIOUS

\* A message at the front of the buffer, and what is left when it is popped.
LEMMA RunPop ==
    ASSUME NEW e, NEW y \in Seq(UnitSet), NEW m \in Nat, NEW hi, Run(e, y, 2 * m, hi),
           Len(y) > 0 => y[1].kind # "hb"
    PROVE  /\ Len(y) >= 2 => /\ Run(e, SubSeq(y, 3, Len(y)), 2 * (m + 1), hi)
                             /\ GoodMsg(e, y[1].ack, m)
           /\ Len(y) < 2 => hi <= 2 * m + 1
<1>1. PICK f \in [Nat -> Nat] : RunBy(e, y, 2 * m, hi, f)
  BY DEF Run
<1>2. /\ f[1] = 2 * m /\ f[Len(y) + 1] = hi
      /\ \A i \in 1 .. Len(y) : Good(e, y[i], f[i]) /\ f[i + 1] = f[i] + Move(y[i])
  BY <1>1 DEF RunBy
<1>3. Len(y) \in Nat /\ \A i \in 1 .. Len(y) : y[i].kind \in {"header", "body", "hb"}
  BY UnitFields, LenProperties
<1>4. ASSUME Len(y) < 2 PROVE hi <= 2 * m + 1
  <2>1. CASE Len(y) = 0
    <3>1. hi = 2 * m
      BY <2>1, <1>2
    <3> QED BY ONLY <3>1, m \in Nat
  <2>2. CASE Len(y) = 1
    <3>1. f[2] = f[1] + Move(y[1]) /\ hi = f[2]
      BY <2>2, <1>2
    <3>2. Move(y[1]) \in {0, 1}
      BY MoveNat
    <3>3. hi = 2 * m + Move(y[1])
      BY <3>1, <1>2
    <3>4. \A n \in {0, 1} : 2 * m + n <= 2 * m + 1
      BY ONLY m \in Nat
    <3> QED BY ONLY <3>2, <3>3, <3>4, Zenon
  <2>3. Len(y) = 0 \/ Len(y) = 1
    <3>1. Len(y) \in Nat
      BY <1>3
    <3>2. \A n \in Nat : n < 2 => n = 0 \/ n = 1
      BY ONLY SMT
    <3> QED BY <3>1, <3>2, <1>4, Zenon
  <2> QED BY <2>1, <2>2, <2>3
<1>5. ASSUME Len(y) >= 2
      PROVE  Run(e, SubSeq(y, 3, Len(y)), 2 * (m + 1), hi) /\ GoodMsg(e, y[1].ack, m)
  <2>1. /\ Good(e, y[1], f[1]) /\ f[2] = f[1] + Move(y[1]) /\ y[1].kind \in {"header", "body"}
        /\ Good(e, y[2], f[2]) /\ f[3] = f[2] + Move(y[2]) /\ y[2].kind \in {"header", "body", "hb"}
    <3>1. 1 \in 1 .. Len(y) /\ 2 \in 1 .. Len(y)
      BY <1>3, <1>5
    <3>2. 1 + 1 = 2 /\ 2 + 1 = 3 /\ Len(y) > 0
      BY <1>3, <1>5
    <3> QED BY <3>1, <3>2, <1>2, <1>3
  <2>2. y[1].kind = "header" /\ GoodMsg(e, y[1].ack, m) /\ f[2] = 2 * m + 1
    <3>1. y[1].kind # "body"
      <4> SUFFICES ASSUME y[1].kind = "body" PROVE FALSE
        OBVIOUS
      <4>1. PICK n \in Nat : f[1] = 2 * n + 1
        BY <2>1 DEF Good
      <4>2. 2 * m = 2 * n + 1
        BY <4>1, <1>2
      <4> QED BY ONLY <4>2, m \in Nat, n \in Nat
    <3>2. PICK n \in Nat : f[1] = 2 * n /\ GoodMsg(e, y[1].ack, n)
      BY <2>1, <3>1 DEF Good
    <3>3. n = m
      BY <3>2, <1>2
    <3> QED BY <3>1, <3>2, <3>3, <2>1, <1>2 DEF Move
  <2>3. y[2].kind = "body" /\ f[3] = 2 * (m + 1)
    <3>1. y[2].kind # "header" /\ y[2].kind # "hb"
      <4> SUFFICES ASSUME y[2].kind \in {"header", "hb"} PROVE FALSE
        OBVIOUS
      <4>1. PICK n \in Nat : f[2] = 2 * n
        BY <2>1 DEF Good
      <4>2. 2 * m + 1 = 2 * n
        BY <4>1, <2>2
      <4> QED BY ONLY <4>2, m \in Nat, n \in Nat
    <3>2. y[2].kind = "body"
      BY <3>1, <2>1
    <3>3. Move(y[2]) = 1
      BY <3>2 DEF Move
    <3> QED BY <3>2, <3>3, <2>1, <2>2
  <2> DEFINE g == [n \in Nat |-> f[n + 2]]
             z == SubSeq(y, 3, Len(y))
  <2>4. g \in [Nat -> Nat] /\ \A n \in Nat : g[n] = f[n + 2]
    <3>1. \A n \in Nat : f[n + 2] \in Nat
      BY ONLY f \in [Nat -> Nat]
    <3> QED BY <3>1, Zenon
  <2>5. Len(z) = Len(y) - 2 /\ \A i \in 1 .. Len(y) - 2 : z[i] = y[i + 2]
    <3>1. \A n \in Nat : n >= 2 => 2 \in 0 .. n
      BY ONLY SMT
    <3>2. 2 \in 0 .. Len(y)
      BY <1>3, <1>5, <3>1, Zenon
    <3>3. SubSeq(y, 3, Len(y)) = SubSeq(y, 2 + 1, Len(y))
      OBVIOUS
    <3> QED BY <3>2, <3>3, SubSeqTail
  <2> HIDE DEF g, z
  <2>6. RunBy(e, z, 2 * (m + 1), hi, g)
    <3>1. g[1] = 2 * (m + 1) /\ g[Len(z) + 1] = hi
      <4>1. 1 + 2 = 3 /\ Len(z) + 1 \in Nat /\ (Len(z) + 1) + 2 = Len(y) + 1
        BY <1>3, <1>5, <2>5
      <4> QED BY <4>1, <1>2, <2>3, <2>4
    <3>2. ASSUME NEW i \in 1 .. Len(z) PROVE Good(e, z[i], g[i]) /\ g[i + 1] = g[i] + Move(z[i])
      <4>1. i \in Nat /\ i + 1 \in Nat /\ i + 2 \in 1 .. Len(y) /\ i \in 1 .. Len(y) - 2 /\ (i + 1) + 2 = (i + 2) + 1
        BY <1>3, <1>5, <2>5
      <4>2. z[i] = y[i + 2] /\ g[i] = f[i + 2] /\ g[i + 1] = f[(i + 2) + 1]
        BY <4>1, <2>4, <2>5
      <4>3. Good(e, y[i + 2], f[i + 2]) /\ f[(i + 2) + 1] = f[i + 2] + Move(y[i + 2])
        BY <4>1, <1>2
      <4> QED BY <4>2, <4>3
    <3> QED BY <3>1, <3>2, Zenon DEF RunBy
  <2> QED BY <2>2, <2>4, <2>6 DEF Run, z
<1> QED BY <1>3, <1>4, <1>5

-----------------------------------------------------------------------------
(* Front, step by step. *)

Rest(e)    == SkipHB(buf[e])
New(e, k)  == SubSeq(chan[e], 1, k)
BufAfter(e, k) == SkipHB(Rest(e) \o New(e, k))
AckAfter(e, k) == AckOf(e, New(e, k))
WinAfter(e, k) == SubSeq(msgs[e], AckAfter(e, k) - acked[e] + 1, Len(msgs[e]))
OutAfter(e, k) == out[e] - 2 * (AckAfter(e, k) - acked[e])
ChanAfter(e, k) == [chan EXCEPT ![e] = SubSeq(@, k + 1, Len(@))]
PopNow(e, k)   == Len(BufAfter(e, k)) >= 2 /\ Pops(e, WinAfter(e, k))

UpTo(w, b) == \A i \in 1 .. Len(w) : w[i] <= b

\* Of the messages m, from number a on, the ones from number t on.
Unacked(m, a, t) == SubSeq(m, t - a + 1, Len(m))

Dropped(e, v, m, a, t, b) ==
    v \in Seq(Nat) /\ t + Len(v) = a + Len(m) /\ Window(e, v, t) /\ UpTo(v, b)

\* The window from the first message that is not acknowledged.
LEMMA WindowDrop ==
    ASSUME NEW e, NEW m \in Seq(Nat), NEW a \in Nat, NEW t \in Nat, a <= t, t <= a + Len(m),
           Window(e, m, a), NEW b \in Nat, UpTo(m, b)
    PROVE  Dropped(e, Unacked(m, a, t), m, a, t, b)
<1> DEFINE d == t - a
           w == SubSeq(m, d + 1, Len(m))
           l == Len(m)
<1>1. l \in Nat /\ d \in 0 .. l /\ d \in Nat /\ t = a + d
  BY LenProperties
<1>2. w \in Seq(Nat) /\ Len(w) = l - d /\ \A i \in 1 .. l - d : w[i] = m[i + d]
  BY <1>1, SubSeqTail
<1>3. \A i \in 1 .. l : GoodMsg(e, m[i], a + i - 1) /\ m[i] <= b
  BY DEF Window, UpTo
<1> HIDE DEF d, w, l
<1>4. ASSUME NEW i \in 1 .. l - d PROVE GoodMsg(e, w[i], t + i - 1) /\ w[i] <= b
  <2>1. i + d \in 1 .. l /\ a + (i + d) - 1 = t + i - 1
    BY ONLY <1>1, i \in 1 .. l - d, a \in Nat
  <2>2. w[i] = m[i + d] /\ GoodMsg(e, m[i + d], a + (i + d) - 1) /\ m[i + d] <= b
    BY <1>2, <1>3, <2>1
  <2> QED BY <2>1, <2>2
<1>5. t + (l - d) = a + l
  BY ONLY <1>1, a \in Nat
<1>6. Window(e, w, t) /\ UpTo(w, b)
  BY <1>2, <1>4, Zenon DEF Window, UpTo
<1>7. t + Len(w) = a + l
  BY <1>2, <1>5, Zenon
<1>8. Unacked(m, a, t) = w
  BY DEF d, w, Unacked
<1> QED BY <1>2, <1>6, <1>7, <1>8, Zenon DEF l, Dropped

\* What Front finds before the handler is called.
FrontState(e, k) ==
    /\ Rest(e) \in Seq(UnitSet) /\ BufAfter(e, k) \in Seq(UnitSet)
    /\ Len(BufAfter(e, k)) <= Len(Rest(e)) + k /\ Len(Rest(e)) <= Len(buf[e])
    /\ Len(BufAfter(e, k)) > 0 => BufAfter(e, k)[1].kind # "hb"
    /\ e = "s" => AcksTo(BufAfter(e, k), AckAfter(e, k))
    /\ AckAfter(e, k) \in Nat /\ acked[e] <= AckAfter(e, k) /\ AckAfter(e, k) <= my_ack[Peer(e)]
    /\ WinAfter(e, k) \in Seq(Nat) /\ AckAfter(e, k) + Len(WinAfter(e, k)) = acked[e] + Len(msgs[e])
    /\ Window(e, WinAfter(e, k), AckAfter(e, k))
    /\ \A i \in 1 .. Len(WinAfter(e, k)) : WinAfter(e, k)[i] <= my_ack[e]
    /\ OutAfter(e, k) \in Nat /\ OutAfter(e, k) <= 2 * Len(WinAfter(e, k))
    /\ 2 * AckAfter(e, k) + OutAfter(e, k) = SentTo(e)
    /\ ChanAfter(e, k) \in [Ends -> Seq(UnitSet)] /\ ChanAfter(e, k)[Peer(e)] = chan[Peer(e)]
    /\ AcksTo(ChanAfter(e, k)[e], my_ack[Peer(e)]) /\ Len(ChanAfter(e, k)[e]) <= SockSize
    /\ \E p \in Nat : /\ Run(Peer(e), BufAfter(e, k), 2 * my_ack[e], p)
                      /\ Run(Peer(e), ChanAfter(e, k)[e], p, SentTo(Peer(e)))
                      /\ e = "c" => 2 * AckAfter("c", k) <= p + 1

LEMMA AcksPart ==
    ASSUME NEW s \in Seq(UnitSet), NEW k \in 0 .. Len(s), NEW n \in Nat, AcksTo(s, n)
    PROVE  /\ SubSeq(s, 1, k) \in Seq(UnitSet) /\ Len(SubSeq(s, 1, k)) = k /\ AcksTo(SubSeq(s, 1, k), n)
           /\ SubSeq(s, k + 1, Len(s)) \in Seq(UnitSet) /\ Len(SubSeq(s, k + 1, Len(s))) <= Len(s)
           /\ AcksTo(SubSeq(s, k + 1, Len(s)), n)
<1> DEFINE a == SubSeq(s, 1, k)
           b == SubSeq(s, k + 1, Len(s))
<1>1. Len(s) \in Nat /\ k \in Nat /\ k <= Len(s)
  OBVIOUS
<1>2. /\ a \in Seq(UnitSet) /\ Len(a) = k /\ \A i \in 1 .. k : a[i] = s[i]
  OBVIOUS
<1>3. b \in Seq(UnitSet) /\ Len(b) = Len(s) - k /\ \A i \in 1 .. Len(s) - k : b[i] = s[i + k]
  BY SubSeqTail
<1> HIDE DEF a, b
<1>4. AcksTo(a, n)
  <2>1. \A i \in 1 .. k : i \in 1 .. Len(s)
    BY ONLY <1>1
  <2> QED BY <1>2, <2>1, Zenon DEF AcksTo
<1>5. AcksTo(b, n)
  <2>1. \A i \in 1 .. Len(s) - k : i + k \in 1 .. Len(s)
    BY ONLY <1>1
  <2> QED BY <1>3, <2>1, Zenon DEF AcksTo
<1>6. Len(s) - k <= Len(s)
  BY ONLY <1>1
<1> QED BY <1>2, <1>3, <1>4, <1>5, <1>6 DEF a, b

LEMMA AcksMore ==
    ASSUME NEW s \in Seq(UnitSet), NEW n \in Nat, NEW m \in Nat, n <= m, AcksTo(s, n)
    PROVE  AcksTo(s, m)
<1>1. ASSUME NEW i \in 1 .. Len(s) PROVE s[i].ack <= m
  <2>1. s[i].ack \in Nat /\ s[i].ack <= n
    BY UnitFields DEF AcksTo
  <2> QED BY <2>1
<1> QED BY <1>1 DEF AcksTo

\* What the invariant says of one end.
LEMMA EndFacts ==
    ASSUME IInv, NEW e \in Ends
    PROVE  /\ acked[e] \in Nat /\ msgs[e] \in Seq(Nat) /\ Len(msgs[e]) \in Nat /\ out[e] \in Nat
           /\ my_ack[e] \in Nat /\ chan[e] \in Seq(UnitSet) /\ buf[e] \in Seq(UnitSet)
           /\ SentTo(e) \in Nat /\ SentTo(e) = 2 * acked[e] + out[e]
           /\ Len(msgs[e]) <= TcpQueueSize[e] /\ out[e] <= 2 * Len(msgs[e]) /\ Len(chan[e]) <= SockSize
           /\ Window(e, msgs[e], acked[e]) /\ \A i \in 1 .. Len(msgs[e]) : msgs[e][i] <= my_ack[e]
           /\ acked[e] <= my_ack[Peer(e)] /\ AcksTo(chan[e], my_ack[Peer(e)])
           /\ 2 * my_ack[Peer(e)] <= SentTo(e)
<1>1. /\ acked[e] \in Nat /\ msgs[e] \in Seq(Nat) /\ Len(msgs[e]) \in Nat /\ out[e] \in Nat
      /\ my_ack[e] \in Nat /\ chan[e] \in Seq(UnitSet) /\ buf[e] \in Seq(UnitSet)
  BY DEF IInv, Typed
<1>2. SentTo(e) \in Nat /\ SentTo(e) = 2 * acked[e] + out[e]
  BY <1>1 DEF SentTo
<1>3. QueueInv(e)
  BY DEF IInv
<1>4. 2 * my_ack[Peer(e)] <= SentTo(e)
  <2> DEFINE d == Peer(e)
  <2>1. d \in Ends /\ Peer(d) = e
    BY PeerEnd
  <2>2. buf[d] \in Seq(UnitSet) /\ chan[d] \in Seq(UnitSet) /\ StreamInv(d)
    BY <2>1 DEF IInv, Typed
  <2> HIDE DEF d
  <2>3. PICK p \in Nat : StreamAt(d, p)
    BY <2>2 DEF StreamInv
  <2>4. Run(e, buf[d], 2 * my_ack[d], p) /\ Run(e, chan[d], p, SentTo(e))
    BY <2>1, <2>3 DEF StreamAt
  <2>5. 2 * my_ack[d] \in Nat /\ 2 * my_ack[d] <= p /\ p <= SentTo(e)
    BY <2>2, <2>4, RunOrder
  <2>6. 2 * my_ack[d] <= SentTo(e)
    BY ONLY <2>5, <1>2, p \in Nat
  <2> QED BY <2>6 DEF d
<1> QED BY <1>1, <1>2, <1>3, <1>4 DEF QueueInv, Window

LEMMA DropArith ==
    ASSUME NEW a \in Nat, NEW b \in Nat, NEW c \in Nat, NEW l \in Nat, NEW m \in Nat,
           c <= 2 * m, b + l = a + m
    PROVE  c - 2 * (b - a) <= 2 * l
OBVIOUS

LEMMA FrontDoes ==
    ASSUME IInv, NEW e \in Ends, NEW k \in 0 .. Len(chan[e])
    PROVE  FrontState(e, k)
<1> DEFINE d == Peer(e)
           x == Rest(e)
           new == New(e, k)
           y == BufAfter(e, k)
           t == AckAfter(e, k)
           v == WinAfter(e, k)
           o == OutAfter(e, k)
           ch == ChanAfter(e, k)
<1>1. d \in Ends /\ d # e /\ my_ack[d] \in Nat /\ SentTo(d) \in Nat
  BY PeerEnd, EndFacts
<1>2. /\ acked[e] \in Nat /\ msgs[e] \in Seq(Nat) /\ Len(msgs[e]) \in Nat /\ out[e] \in Nat
      /\ my_ack[e] \in Nat /\ chan[e] \in Seq(UnitSet) /\ buf[e] \in Seq(UnitSet)
      /\ SentTo(e) \in Nat /\ SentTo(e) = 2 * acked[e] + out[e]
      /\ out[e] <= 2 * Len(msgs[e]) /\ Len(chan[e]) <= SockSize
      /\ Window(e, msgs[e], acked[e]) /\ \A i \in 1 .. Len(msgs[e]) : msgs[e][i] <= my_ack[e]
      /\ acked[e] <= my_ack[d] /\ AcksTo(chan[e], my_ack[d])
      /\ 2 * my_ack[d] <= SentTo(e)
  BY EndFacts
<1>3. PICK p \in Nat : /\ Run(d, buf[e], 2 * my_ack[e], p) /\ Run(d, chan[e], p, SentTo(d))
                       /\ e = "c" => 2 * acked["c"] <= p + 1
  <2>1. StreamInv(e)
    BY DEF IInv
  <2> QED BY <2>1 DEF StreamInv, StreamAt
<1>4. PICK q \in Nat : Run(d, new, p, q) /\ Run(d, SubSeq(chan[e], k + 1, Len(chan[e])), q, SentTo(d))
  BY <1>2, <1>3, RunSplit DEF New
<1>5. /\ new \in Seq(UnitSet) /\ Len(new) = k /\ AcksTo(new, my_ack[d])
      /\ SubSeq(chan[e], k + 1, Len(chan[e])) \in Seq(UnitSet)
      /\ Len(SubSeq(chan[e], k + 1, Len(chan[e]))) <= Len(chan[e])
      /\ AcksTo(SubSeq(chan[e], k + 1, Len(chan[e])), my_ack[d])
  BY <1>1, <1>2, AcksPart DEF New
<1>6. /\ x \in Seq(UnitSet) /\ Len(x) <= Len(buf[e]) /\ Run(d, x, 2 * my_ack[e], p)
      /\ \A n \in Nat : AcksTo(buf[e], n) => AcksTo(x, n)
  BY <1>2, <1>3, SkipHBRun DEF Rest
<1> HIDE DEF x, new, d
<1>7. x \o new \in Seq(UnitSet) /\ Len(x \o new) = Len(x) + k /\ Run(d, x \o new, 2 * my_ack[e], q)
  BY <1>4, <1>5, <1>6, RunConcat
<1>8. /\ y \in Seq(UnitSet) /\ Len(y) <= Len(x) + k /\ Run(d, y, 2 * my_ack[e], q)
      /\ Len(y) > 0 => y[1].kind # "hb"
      /\ \A n \in Nat : AcksTo(x \o new, n) => AcksTo(y, n)
  <2>1. y = SkipHB(x \o new)
    BY DEF BufAfter, x, new
  <2> HIDE DEF y
  <2>2. /\ SkipHB(x \o new) \in Seq(UnitSet) /\ Len(SkipHB(x \o new)) <= Len(x \o new)
        /\ Run(d, SkipHB(x \o new), 2 * my_ack[e], q)
        /\ Len(SkipHB(x \o new)) > 0 => SkipHB(x \o new)[1].kind # "hb"
        /\ \A n \in Nat : AcksTo(x \o new, n) => AcksTo(SkipHB(x \o new), n)
    BY <1>7, SkipHBRun
  <2> QED BY <1>7, <2>1, <2>2, Zenon
<1>9. /\ t \in Nat /\ acked[e] <= t /\ t <= my_ack[d] /\ AcksTo(new, t)
      /\ t = acked[e] \/ \E i \in 1 .. Len(new) : t = new[i].ack
  <2>1. acked \in [Ends -> Nat]
    BY DEF IInv, Typed
  <2>2. t = AckOf(e, new)
    BY DEF AckAfter, new
  <2> HIDE DEF t
  <2> QED BY <1>1, <1>2, <1>5, <2>1, <2>2, AckOfDoes
<1> HIDE DEF y, t
<1>10. e = "s" => AcksTo(y, t)
  <2> SUFFICES ASSUME e = "s" PROVE AcksTo(y, t)
    OBVIOUS
  <2>1. AcksTo(buf[e], acked[e])
    BY DEF IInv, ServerInv
  <2>2. AcksTo(x, t)
    BY <2>1, <1>2, <1>6, <1>9, AcksMore
  <2>3. AcksTo(x \o new, t)
    BY <2>2, <1>5, <1>6, <1>9, AcksConcat
  <2> QED BY <2>3, <1>8, <1>9
<1>11. e = "c" => 2 * t <= q + 1
  <2> SUFFICES ASSUME e = "c" PROVE 2 * t <= q + 1
    OBVIOUS
  <2>1. p <= q
    BY <1>4, <1>5, RunOrder
  <2>2. CASE t = acked[e]
    <3>1. 2 * acked[e] <= p + 1
      BY <1>3
    <3> QED BY ONLY <2>1, <2>2, <3>1, <1>2, p \in Nat, q \in Nat
  <2>3. CASE \E i \in 1 .. Len(new) : t = new[i].ack
    <3>1. d = "s"
      BY PeerEnd DEF d
    <3> QED BY <2>3, <3>1, <1>4, <1>5, RunAck
  <2> QED BY <1>9, <2>2, <2>3
<1>12. 2 * t <= 2 * acked[e] + out[e] /\ t <= acked[e] + Len(msgs[e])
  <2>1. 2 * t <= 2 * acked[e] + out[e]
    BY ONLY <1>1, <1>2, <1>9
  <2>2. out[e] <= 2 * Len(msgs[e]) /\ out[e] \in Nat /\ Len(msgs[e]) \in Nat /\ acked[e] \in Nat /\ t \in Nat
    BY <1>2, <1>9
  <2> QED BY ONLY <2>1, <2>2
<1>13. /\ v \in Seq(Nat) /\ t + Len(v) = acked[e] + Len(msgs[e]) /\ Window(e, v, t)
       /\ \A i \in 1 .. Len(v) : v[i] <= my_ack[e]
  <2>1. v = Unacked(msgs[e], acked[e], t)
    BY DEF WinAfter, Unacked, t
  <2>2. UpTo(msgs[e], my_ack[e])
    BY <1>2, Zenon DEF UpTo
  <2> HIDE DEF v
  <2>3. v \in Seq(Nat) /\ t + Len(v) = acked[e] + Len(msgs[e]) /\ Window(e, v, t) /\ UpTo(v, my_ack[e])
    <3>1. msgs[e] \in Seq(Nat) /\ acked[e] \in Nat /\ t \in Nat /\ my_ack[e] \in Nat
      BY ONLY <1>2, <1>9, Zenon
    <3>2. acked[e] <= t /\ t <= acked[e] + Len(msgs[e])
      BY ONLY <1>9, <1>12, Zenon
    <3>3. Window(e, msgs[e], acked[e])
      BY ONLY <1>2, Zenon
    <3>4. Dropped(e, Unacked(msgs[e], acked[e], t), msgs[e], acked[e], t, my_ack[e])
      BY ONLY <3>1, <3>2, <3>3, <2>2, WindowDrop
    <3> QED BY ONLY <3>4, <2>1, Zenon DEF Dropped
  <2> QED BY <2>3, Zenon DEF UpTo
<1> HIDE DEF v
<1>14. o \in Nat /\ o <= 2 * Len(v) /\ 2 * t + o = SentTo(e)
  <2>1. o = out[e] - 2 * (t - acked[e])
    BY DEF OutAfter, t
  <2>2. Len(v) \in Nat /\ Len(msgs[e]) \in Nat /\ out[e] <= 2 * Len(msgs[e])
        /\ out[e] \in Nat /\ acked[e] \in Nat /\ t \in Nat /\ t + Len(v) = acked[e] + Len(msgs[e])
    BY <1>2, <1>9, <1>13, LenProperties
  <2> HIDE DEF o
  <2>3. /\ out[e] - 2 * (t - acked[e]) \in Nat /\ out[e] - 2 * (t - acked[e]) <= 2 * Len(v)
        /\ 2 * t + (out[e] - 2 * (t - acked[e])) = 2 * acked[e] + out[e]
    <3>1. t \in Nat /\ out[e] \in Nat /\ acked[e] \in Nat
      BY ONLY <2>2, Zenon
    <3>2. 2 * t <= 2 * acked[e] + out[e]
      BY ONLY <1>12, Zenon
    <3>3. out[e] - 2 * (t - acked[e]) \in Nat
      BY ONLY <3>1, <3>2
    <3>4. out[e] - 2 * (t - acked[e]) <= 2 * Len(v)
      <4>1. out[e] <= 2 * Len(msgs[e]) /\ t + Len(v) = acked[e] + Len(msgs[e])
        BY ONLY <2>2, Zenon
      <4>2. Len(v) \in Nat /\ Len(msgs[e]) \in Nat
        BY ONLY <2>2, Zenon
      <4> QED BY ONLY <3>1, <4>1, <4>2, DropArith, Zenon
    <3>5. 2 * t + (out[e] - 2 * (t - acked[e])) = 2 * acked[e] + out[e]
      BY ONLY <3>1
    <3> QED BY ONLY <3>3, <3>4, <3>5, Zenon
  <2> QED BY ONLY <1>2, <2>1, <2>2, <2>3, Zenon
<1>15. /\ ch \in [Ends -> Seq(UnitSet)] /\ ch[d] = chan[d]
       /\ ch[e] = SubSeq(chan[e], k + 1, Len(chan[e]))
  <2>1. chan \in [Ends -> Seq(UnitSet)]
    BY DEF IInv, Typed
  <2> QED BY <2>1, <1>1, <1>5 DEF ChanAfter
<1>16. AcksTo(ch[e], my_ack[d]) /\ Len(ch[e]) <= SockSize /\ Run(d, ch[e], q, SentTo(d))
  <2>1. Len(ch[e]) \in Nat /\ Len(chan[e]) \in Nat /\ Len(ch[e]) <= Len(chan[e]) /\ Len(chan[e]) <= SockSize
    BY <1>2, <1>5, <1>15, LenProperties
  <2>2. Len(ch[e]) <= SockSize
    BY ONLY <2>1, FlowNat
  <2> QED BY <2>2, <1>4, <1>5, <1>15
<1> HIDE DEF o, ch
<1>17. e = "c" => 2 * AckAfter("c", k) <= q + 1
  BY <1>11 DEF t
<1> QED BY <1>6, <1>8, <1>9, <1>10, <1>13, <1>14, <1>15, <1>16, <1>17
        DEF FrontState, d, x, y, t, v, o, ch

\* Front in these terms.
LEMMA FrontIs ==
    ASSUME NEW e \in Ends, NEW k \in Nat, Front(e, k)
    PROVE  /\ k <= Len(chan[e]) /\ (e = "s" => k <= TcpRecvBufMaxSize - Len(Rest(e)))
           /\ acked' = [acked EXCEPT ![e] = AckAfter(e, k)]
           /\ buf' = [buf EXCEPT ![e] = IF PopNow(e, k) THEN SubSeq(BufAfter(e, k), 3, Len(BufAfter(e, k)))
                                                        ELSE BufAfter(e, k)]
           /\ my_ack' = [my_ack EXCEPT ![e] = IF PopNow(e, k) THEN @ + 1 ELSE @]
           /\ fresh' = [fresh EXCEPT ![e] = PopNow(e, k) \/ (@ /\ Len(Rest(e)) < 2)]
           /\ IF PopNow(e, k) /\ e = "s"
              THEN SendPending(e, Append(WinAfter(e, k), my_ack[e] + 1), OutAfter(e, k), ChanAfter(e, k))
              ELSE /\ msgs' = [msgs EXCEPT ![e] = WinAfter(e, k)]
                   /\ out' = [out EXCEPT ![e] = OutAfter(e, k)] /\ chan' = ChanAfter(e, k)
BY Zenon DEF Front, Room, Rest, New, BufAfter, AckAfter, WinAfter, OutAfter, ChanAfter, PopNow

-----------------------------------------------------------------------------
(* The inductive step. *)

\* What a step of end e does to the two queues and the two streams.
Step(e) ==
    /\ acked' \in [Ends -> Nat] /\ msgs' \in [Ends -> Seq(Nat)] /\ out' \in [Ends -> Nat]
    /\ my_ack' \in [Ends -> Nat] /\ fresh' \in [Ends -> BOOLEAN]
    /\ chan' \in [Ends -> Seq(UnitSet)] /\ buf' \in [Ends -> Seq(UnitSet)]
    /\ acked'[Peer(e)] = acked[Peer(e)] /\ msgs'[Peer(e)] = msgs[Peer(e)]
    /\ out'[Peer(e)] = out[Peer(e)] /\ my_ack'[Peer(e)] = my_ack[Peer(e)]
    /\ buf'[Peer(e)] = buf[Peer(e)]
    /\ Len(msgs'[e]) <= TcpQueueSize[e] /\ out'[e] <= 2 * Len(msgs'[e])
    /\ Len(chan'[e]) <= SockSize /\ Len(chan'[Peer(e)]) <= SockSize
    /\ Window(e, msgs'[e], acked'[e]) /\ UpTo(msgs'[e], my_ack'[e])
    /\ my_ack[e] <= my_ack'[e] /\ acked'[e] <= my_ack[Peer(e)]
    /\ AcksTo(chan'[e], my_ack[Peer(e)]) /\ AcksTo(chan'[Peer(e)], my_ack'[e])
    /\ \E p \in Nat : /\ Run(Peer(e), buf'[e], 2 * my_ack'[e], p)
                      /\ Run(Peer(e), chan'[e], p, SentTo(Peer(e)))
                      /\ e = "c" => 2 * acked'["c"] <= p + 1
    /\ \A p \in Nat : Run(e, chan[Peer(e)], p, SentTo(e))
                        => Run(e, chan'[Peer(e)], p, 2 * acked'[e] + out'[e])

LEMMA StepKeeps ==
    ASSUME IInv, NEW e \in Ends, Step(e), ServerInv', ClientInv',
           pc' \in [Ends -> {"num", "hb", "front"}], pc'["s"] # "num"
    PROVE  IInv'
<1> DEFINE d == Peer(e)
<1>1. d \in Ends /\ d # e /\ Peer(d) = e /\ \A c \in Ends : c = e \/ c = d
  BY PeerEnd
<1>2. Typed'
  BY DEF Step, Typed
<1>3. /\ acked[d] \in Nat /\ out[d] \in Nat /\ acked[d] <= my_ack[e] /\ my_ack[e] \in Nat
      /\ Len(msgs[d]) <= TcpQueueSize[d] /\ out[d] <= 2 * Len(msgs[d])
      /\ \A i \in 1 .. Len(msgs[d]) : GoodMsg(d, msgs[d][i], acked[d] + i - 1) /\ msgs[d][i] <= my_ack[d]
  BY <1>1 DEF IInv, Typed, QueueInv
<1>4. /\ acked'[d] = acked[d] /\ msgs'[d] = msgs[d] /\ out'[d] = out[d] /\ my_ack'[d] = my_ack[d]
      /\ buf'[d] = buf[d] /\ my_ack[e] <= my_ack'[e] /\ my_ack'[e] \in Nat
  BY <1>1 DEF Step
<1>5. SentTo(e)' = 2 * acked'[e] + out'[e] /\ SentTo(d)' = SentTo(d)
  BY <1>4 DEF SentTo
<1>6. QueueInv(e)'
  <2>1. QueueInv(e)' <=>
          /\ Len(msgs'[e]) <= TcpQueueSize[e] /\ out'[e] <= 2 * Len(msgs'[e]) /\ Len(chan'[e]) <= SockSize
          /\ \A i \in 1 .. Len(msgs'[e]) :
               GoodMsg(e, msgs'[e][i], acked'[e] + i - 1) /\ msgs'[e][i] <= my_ack'[e]
          /\ acked'[e] <= my_ack'[d] /\ AcksTo(chan'[e], my_ack'[d])
    BY Zenon DEF QueueInv, Peer, GoodMsg, AcksTo
  <2>2. /\ Len(msgs'[e]) <= TcpQueueSize[e] /\ out'[e] <= 2 * Len(msgs'[e]) /\ Len(chan'[e]) <= SockSize
        /\ Window(e, msgs'[e], acked'[e]) /\ UpTo(msgs'[e], my_ack'[e])
        /\ acked'[e] <= my_ack'[d] /\ AcksTo(chan'[e], my_ack'[d])
    BY <1>4, Zenon DEF Step
  <2> QED BY <2>1, <2>2, Zenon DEF Window, UpTo
<1>7. QueueInv(d)'
  <2>1. QueueInv(d)' <=>
          /\ Len(msgs'[d]) <= TcpQueueSize[d] /\ out'[d] <= 2 * Len(msgs'[d]) /\ Len(chan'[d]) <= SockSize
          /\ \A i \in 1 .. Len(msgs'[d]) :
               GoodMsg(d, msgs'[d][i], acked'[d] + i - 1) /\ msgs'[d][i] <= my_ack'[d]
          /\ acked'[d] <= my_ack'[e] /\ AcksTo(chan'[d], my_ack'[e])
    BY <1>1, Zenon DEF QueueInv
  <2>2. Len(chan'[d]) <= SockSize /\ AcksTo(chan'[d], my_ack'[e])
    BY Zenon DEF Step
  <2>3. acked'[d] <= my_ack'[e]
    BY ONLY <1>3, <1>4
  <2> QED BY <2>1, <2>2, <2>3, <1>3, <1>4, Zenon
<1>8. StreamInv(e)'
  <2>1. PICK p \in Nat : /\ Run(d, buf'[e], 2 * my_ack'[e], p) /\ Run(d, chan'[e], p, SentTo(d))
                         /\ e = "c" => 2 * acked'["c"] <= p + 1
    BY Zenon DEF Step
  <2>2. StreamAt(e, p)'
    BY <2>1, <1>5, Zenon DEF StreamAt
  <2> QED BY <2>2, Zenon DEF StreamInv
<1>9. StreamInv(d)'
  <2>1. PICK p \in Nat : StreamAt(d, p)
    BY <1>1 DEF IInv, StreamInv
  <2>2. /\ Run(e, buf[d], 2 * my_ack[d], p) /\ Run(e, chan[d], p, SentTo(e))
        /\ d = "c" => 2 * acked["c"] <= p + 1
    BY <1>1, <2>1, Zenon DEF StreamAt
  <2>3. Run(e, chan'[d], p, SentTo(e)')
    BY <1>5, <2>2, Zenon DEF Step
  <2>4. d = "c" => 2 * acked'["c"] <= p + 1
    BY <1>4, <2>2, Zenon
  <2>5. StreamAt(d, p)'
    BY <1>1, <1>4, <2>2, <2>3, <2>4, Zenon DEF StreamAt
  <2> QED BY <2>5, Zenon DEF StreamInv
<1> QED BY <1>1, <1>2, <1>6, <1>7, <1>8, <1>9 DEF IInv

\* A step of e that hands over the window w, after messages that may have been
\* added, and reads nothing.
LEMMA SendKeeps ==
    ASSUME IInv, NEW e \in Ends, NEW w \in Seq(Nat), Len(w) <= TcpQueueSize[e], Len(msgs[e]) <= Len(w),
           Window(e, w, acked[e]), UpTo(w, my_ack[e]),
           SendPending(e, w, out[e], chan), acked' = acked, my_ack' = my_ack, buf' = buf, fresh' = fresh
    PROVE  Step(e) /\ msgs' = [msgs EXCEPT ![e] = w]
<1> DEFINE d == Peer(e)
<1>1. d \in Ends /\ d # e /\ Peer(d) = e
  BY PeerEnd
<1>2. /\ acked[e] \in Nat /\ msgs[e] \in Seq(Nat) /\ out[e] \in Nat /\ my_ack[e] \in Nat
      /\ SentTo(e) = 2 * acked[e] + out[e] /\ out[e] <= 2 * Len(msgs[e]) /\ Len(chan[e]) <= SockSize
      /\ acked[e] <= my_ack[d] /\ AcksTo(chan[e], my_ack[d])
  BY EndFacts
<1>3. Len(chan[d]) <= SockSize /\ AcksTo(chan[d], my_ack[e])
  BY <1>1, EndFacts
<1>4. /\ acked \in [Ends -> Nat] /\ msgs \in [Ends -> Seq(Nat)] /\ out \in [Ends -> Nat]
      /\ my_ack \in [Ends -> Nat] /\ fresh \in [Ends -> BOOLEAN]
      /\ chan \in [Ends -> Seq(UnitSet)] /\ buf \in [Ends -> Seq(UnitSet)]
  BY DEF IInv, Typed
<1>5. out[e] <= 2 * Len(w)
  <2>1. Len(msgs[e]) \in Nat /\ Len(w) \in Nat
    BY <1>2, LenProperties
  <2> QED BY ONLY <1>2, <2>1, Len(msgs[e]) <= Len(w)
<1>6. ASSUME NEW p \in Nat, Run(e, chan[d], p, SentTo(e))
      PROVE  /\ msgs' = [msgs EXCEPT ![e] = w] /\ out' \in [Ends -> Nat]
             /\ out'[e] <= 2 * Len(w) /\ out'[d] = out[d]
             /\ chan' \in [Ends -> Seq(UnitSet)] /\ chan'[e] = chan[e]
             /\ Len(chan'[d]) <= SockSize
             /\ Run(e, chan'[d], p, 2 * acked[e] + out'[e]) /\ AcksTo(chan'[d], my_ack[e])
  <2>1. Run(e, chan[d], p, 2 * acked[e] + out[e])
    BY <1>2, <1>6, Zenon
  <2>2. \A i \in 1 .. Len(w) : w[i] <= my_ack[e]
    BY Zenon DEF UpTo
  <2> QED BY <1>2, <1>3, <1>4, <1>5, <2>1, <2>2, SendPendingDoes
<1>7. PICK q \in Nat : Run(e, chan[d], q, SentTo(e))
  <2>1. StreamInv(d)
    BY <1>1 DEF IInv
  <2> QED BY <1>1, <2>1 DEF StreamInv, StreamAt
<1>8. /\ msgs' = [msgs EXCEPT ![e] = w] /\ out' \in [Ends -> Nat]
      /\ out'[e] <= 2 * Len(w) /\ out'[d] = out[d]
      /\ chan' \in [Ends -> Seq(UnitSet)] /\ chan'[e] = chan[e]
      /\ Len(chan'[d]) <= SockSize /\ AcksTo(chan'[d], my_ack[e])
  BY <1>6, <1>7
<1>9. msgs' \in [Ends -> Seq(Nat)] /\ msgs'[e] = w /\ msgs'[d] = msgs[d]
  BY <1>1, <1>4, <1>8
<1>10. my_ack[e] <= my_ack'[e]
  BY <1>2
<1>11. \E p \in Nat : /\ Run(d, buf[e], 2 * my_ack[e], p) /\ Run(d, chan'[e], p, SentTo(d))
                      /\ e = "c" => 2 * acked["c"] <= p + 1
  <2>1. StreamInv(e)
    BY DEF IInv
  <2> QED BY <1>8, <2>1, Zenon DEF StreamInv, StreamAt
<1>12. /\ \A p \in Nat : Run(e, chan[d], p, SentTo(e)) => Run(e, chan'[d], p, 2 * acked'[e] + out'[e])
  BY <1>6, Zenon
<1> HIDE DEF d
<1> QED BY <1>2, <1>4, <1>8, <1>9, <1>10, <1>11, <1>12, Zenon DEF Step, d

LEMMA SendHBKeeps ==
    ASSUME IInv, NEW e \in Ends, SendHB(e)
    PROVE  IInv'
<1> DEFINE d == Peer(e)
<1>1. d \in Ends /\ d # e /\ Peer(d) = e
  BY PeerEnd
<1>2. /\ acked[e] \in Nat /\ msgs[e] \in Seq(Nat) /\ Len(msgs[e]) \in Nat /\ out[e] \in Nat /\ my_ack[e] \in Nat
      /\ SentTo(e) = 2 * acked[e] + out[e] /\ out[e] <= 2 * Len(msgs[e]) /\ Len(chan[e]) <= SockSize
      /\ acked[e] <= my_ack[d] /\ AcksTo(chan[e], my_ack[d])
      /\ Len(msgs[e]) <= TcpQueueSize[e] /\ Window(e, msgs[e], acked[e])
      /\ SentTo(e) \in Nat
  BY EndFacts
<1>3. UpTo(msgs[e], my_ack[e])
  BY EndFacts DEF UpTo
<1>4. /\ acked \in [Ends -> Nat] /\ msgs \in [Ends -> Seq(Nat)] /\ out \in [Ends -> Nat]
      /\ my_ack \in [Ends -> Nat] /\ fresh \in [Ends -> BOOLEAN]
      /\ chan \in [Ends -> Seq(UnitSet)] /\ buf \in [Ends -> Seq(UnitSet)]
      /\ pc \in [Ends -> {"num", "hb", "front"}] /\ pc["s"] # "num"
  BY DEF IInv, Typed
<1>5. /\ pc' = [pc EXCEPT ![e] = "front"] /\ acked' = acked /\ my_ack' = my_ack /\ buf' = buf /\ fresh' = fresh
      /\ \/ /\ out[e] < 2 * Len(msgs[e])
            /\ SendPending(e, msgs[e], out[e], chan)
         \/ /\ out[e] = 2 * Len(msgs[e]) /\ Len(chan[d]) < SockSize
            /\ chan' = [chan EXCEPT ![d] = Append(chan[d], Unit("hb", my_ack[e]))]
            /\ msgs' = msgs /\ out' = out
  BY <1>1, <1>4 DEF SendHB
<1>6. Step(e) /\ msgs' = msgs
  <2>1. CASE out[e] < 2 * Len(msgs[e]) /\ SendPending(e, msgs[e], out[e], chan)
    <3>1. Len(msgs[e]) <= Len(msgs[e])
      BY <1>2
    <3>2. Step(e) /\ msgs' = [msgs EXCEPT ![e] = msgs[e]]
      BY <2>1, <1>2, <1>3, <1>5, <3>1, SendKeeps
    <3>3. [msgs EXCEPT ![e] = msgs[e]] = msgs
      BY <1>4
    <3> QED BY <3>2, <3>3, Zenon
  <2>2. CASE /\ out[e] = 2 * Len(msgs[e]) /\ Len(chan[d]) < SockSize
             /\ chan' = [chan EXCEPT ![d] = Append(chan[d], Unit("hb", my_ack[e]))]
             /\ msgs' = msgs /\ out' = out
    <3> DEFINE u == Unit("hb", my_ack[e])
               n == acked[e] + Len(msgs[e])
    <3>1. u \in UnitSet /\ u.kind = "hb" /\ u.ack = my_ack[e]
      BY <1>2 DEF Unit, UnitSet
    <3>2. n \in Nat /\ SentTo(e) = 2 * n
      BY <1>2, <2>2
    <3>3. e = "s" => my_ack[e] = n
      BY DEF IInv, ServerInv
    <3> HIDE DEF u, n
    <3>4. Good(e, u, SentTo(e))
      <4>1. u.kind # "header" /\ u.kind # "body"
        BY <3>1
      <4>2. e = "s" => u.ack = n
        BY <3>1, <3>3
      <4> QED BY <3>2, <4>1, <4>2, Zenon DEF Good
    <3>5. <<u>> \in Seq(UnitSet) /\ Len(<<u>>) = 1 /\ Run(e, <<u>>, SentTo(e), SentTo(e))
      BY <1>2, <3>1, <3>4, RunHB
    <3>6. AcksTo(<<u>>, my_ack[e])
      <4>1. ASSUME NEW i \in 1 .. Len(<<u>>) PROVE <<u>>[i].ack <= my_ack[e]
        <5>1. i = 1 /\ <<u>>[1] = u
          BY <3>5
        <5> QED BY <5>1, <3>1, <1>2
      <4> QED BY <4>1, Zenon DEF AcksTo
    <3>7. chan[d] \in Seq(UnitSet) /\ Len(chan[d]) \in Nat /\ AcksTo(chan[d], my_ack[e])
      BY <1>1, EndFacts, LenProperties
    <3>8. Append(chan[d], u) = chan[d] \o <<u>> /\ Append(chan[d], u) \in Seq(UnitSet) /\ Len(Append(chan[d], u)) = Len(chan[d]) + 1
      BY <3>1, <3>7
    <3>9. /\ chan' \in [Ends -> Seq(UnitSet)] /\ chan'[e] = chan[e] /\ chan'[d] = chan[d] \o <<u>>
          /\ Len(chan'[d]) <= SockSize
      <4>1. chan' = [chan EXCEPT ![d] = Append(chan[d], u)]
        BY <2>2, Zenon DEF u
      <4>2. chan' \in [Ends -> Seq(UnitSet)] /\ chan'[e] = chan[e] /\ chan'[d] = Append(chan[d], u)
        BY <1>1, <1>4, <3>8, <4>1
      <4>3. Len(chan[d]) + 1 <= SockSize
        BY ONLY <2>2, <3>7, FlowNat
      <4> QED BY <3>8, <4>2, <4>3, Zenon
    <3>10. AcksTo(chan'[d], my_ack'[e])
      BY <1>2, <1>5, <3>5, <3>6, <3>7, <3>9, AcksConcat
    <3>11. ASSUME NEW p \in Nat, Run(e, chan[d], p, SentTo(e))
           PROVE  Run(e, chan'[d], p, 2 * acked'[e] + out'[e])
      <4>1. Run(e, chan[d] \o <<u>>, p, SentTo(e))
        BY <3>5, <3>7, <3>11, RunConcat
      <4>2. 2 * acked'[e] + out'[e] = SentTo(e)
        BY <1>2, <1>5, <2>2, Zenon
      <4> QED BY <3>9, <4>1, <4>2, Zenon
    <3>12. \E p \in Nat : /\ Run(d, buf[e], 2 * my_ack[e], p) /\ Run(d, chan'[e], p, SentTo(d))
                          /\ e = "c" => 2 * acked["c"] <= p + 1
      <4>1. StreamInv(e)
        BY DEF IInv
      <4> QED BY <3>9, <4>1, Zenon DEF StreamInv, StreamAt
    <3>13. my_ack[e] <= my_ack'[e]
      BY <1>2, <1>5
    <3> HIDE DEF d
    <3> QED BY <1>2, <1>3, <1>4, <1>5, <2>2, <3>9, <3>10, <3>11, <3>12, <3>13, Zenon DEF Step, d
  <2> QED BY <1>5, <2>1, <2>2
<1>7. pc' \in [Ends -> {"num", "hb", "front"}] /\ pc'["s"] # "num" /\ (pc'["c"] = "num" => pc["c"] = "num")
  BY <1>4, <1>5 DEF Ends
<1>8. ServerInv'
  BY <1>5, <1>6 DEF IInv, ServerInv, AcksTo
<1>9. ClientInv'
  <2>1. send_num' = send_num /\ ClientInv
    BY <1>5, <1>6 DEF send_num, IInv
  <2> QED BY <1>5, <1>7, <2>1 DEF ClientInv
<1> QED BY <1>6, <1>7, <1>8, <1>9, StepKeeps

LEMMA PollNumKeeps ==
    ASSUME IInv, PollNum
    PROVE  IInv'
<1>1. "c" \in Ends /\ "s" \in Ends
  BY DEF Ends
<1>2. /\ acked["c"] \in Nat /\ msgs["c"] \in Seq(Nat) /\ Len(msgs["c"]) \in Nat /\ my_ack["c"] \in Nat
      /\ Window("c", msgs["c"], acked["c"])
  BY <1>1, EndFacts
<1>3. UpTo(msgs["c"], my_ack["c"])
  BY <1>1, EndFacts DEF UpTo
<1>4. /\ acked \in [Ends -> Nat] /\ msgs \in [Ends -> Seq(Nat)] /\ pc \in [Ends -> {"num", "hb", "front"}]
      /\ pc["s"] # "num" /\ ClientInv /\ ServerInv
  BY DEF IInv, Typed
<1>5. /\ pc["c"] = "num" /\ pc' = [pc EXCEPT !["c"] = "hb"]
      /\ acked' = acked /\ my_ack' = my_ack /\ buf' = buf /\ fresh' = fresh
  BY DEF PollNum
<1>6. pc' \in [Ends -> {"num", "hb", "front"}] /\ pc'["s"] # "num" /\ pc'["c"] = "hb"
  BY <1>1, <1>4, <1>5
<1>7. /\ send_num = acked["c"] + Len(msgs["c"]) /\ send_num <= my_ack["c"] + TcpQueueSize["c"] + 1
      /\ send_num <= my_ack["c"] + TcpQueueSize["c"] \/ acked["c"] <= my_ack["c"] + 1
  BY <1>4, <1>5 DEF ClientInv, send_num
<1>8. CASE send_num < MaxNum /\ Len(msgs["c"]) < TcpQueueSize["c"]
  <2> DEFINE w == Append(msgs["c"], my_ack["c"])
             l == Len(msgs["c"])
  <2>1. SendPending("c", w, out["c"], chan)
    BY <1>8 DEF PollNum
  <2>2. /\ w \in Seq(Nat) /\ Len(w) = l + 1 /\ w[l + 1] = my_ack["c"]
        /\ \A i \in 1 .. l : w[i] = msgs["c"][i]
    BY <1>2
  <2>3. l \in Nat /\ l < TcpQueueSize["c"] /\ acked["c"] + l <= my_ack["c"] + TcpQueueSize["c"]
    <3>1. l \in Nat /\ l < TcpQueueSize["c"]
      BY <1>2, <1>8
    <3>2. acked["c"] + l <= my_ack["c"] + TcpQueueSize["c"] \/ acked["c"] <= my_ack["c"] + 1
      BY <1>7, Zenon
    <3> HIDE DEF l
    <3> QED BY ONLY <3>1, <3>2, <1>2, FlowNat
  <2>4. GoodMsg("c", my_ack["c"], acked["c"] + (l + 1) - 1)
    <3>1. acked["c"] + (l + 1) - 1 = acked["c"] + l
      BY <1>2, <2>3
    <3> QED BY <2>3, <3>1 DEF GoodMsg
  <2> HIDE DEF w
  <2>5. Window("c", w, acked["c"]) /\ UpTo(w, my_ack["c"])
    <3>1. ASSUME NEW i \in 1 .. l + 1 PROVE GoodMsg("c", w[i], acked["c"] + i - 1) /\ w[i] <= my_ack["c"]
      <4>1. i = l + 1 \/ i \in 1 .. l
        BY <2>3
      <4>2. CASE i = l + 1
        <5>1. my_ack["c"] <= my_ack["c"]
          BY <1>2
        <5> QED BY <4>2, <5>1, <2>2, <2>4, Zenon
      <4>3. CASE i \in 1 .. l
        BY <4>3, <2>2, <1>2, <1>3, Zenon DEF Window, UpTo
      <4> QED BY <4>1, <4>2, <4>3
    <3> QED BY <2>2, <3>1, Zenon DEF Window, UpTo
  <2>6. Len(w) <= TcpQueueSize["c"] /\ Len(msgs["c"]) <= Len(w)
    BY <2>2, <2>3, FlowNat
  <2>7. Step("c") /\ msgs' = [msgs EXCEPT !["c"] = w]
    BY <1>1, <1>5, <2>1, <2>2, <2>5, <2>6, SendKeeps
  <2>8. msgs'["c"] = w /\ msgs'["s"] = msgs["s"]
    BY <1>1, <1>4, <2>7
  <2>9. ServerInv'
    BY <1>4, <1>5, <2>8 DEF ServerInv, AcksTo
  <2>10. ClientInv'
    <3>1. send_num' = acked["c"] + (l + 1)
      BY <1>5, <2>2, <2>8 DEF send_num
    <3>2. acked["c"] + (l + 1) <= my_ack["c"] + TcpQueueSize["c"] + 1
      BY <1>2, <2>3, FlowNat
    <3> QED BY <1>5, <1>6, <3>1, <3>2 DEF ClientInv
  <2> QED BY <1>1, <1>6, <2>7, <2>9, <2>10, StepKeeps
<1>9. CASE ~(send_num < MaxNum /\ Len(msgs["c"]) < TcpQueueSize["c"])
  <2>1. msgs' = msgs /\ out' = out /\ chan' = chan
    BY <1>9 DEF PollNum
  <2>2. \A e \in Ends : QueueInv(e)' /\ StreamInv(e)'
    BY <1>5, <2>1 DEF IInv, QueueInv, StreamInv, StreamAt, SentTo, AcksTo
  <2>3. Typed'
    BY <1>5, <1>6, <2>1 DEF IInv, Typed
  <2>4. ServerInv'
    BY <1>4, <1>5, <2>1 DEF ServerInv, AcksTo
  <2>5. ClientInv'
    BY <1>5, <1>6, <1>7, <2>1 DEF ClientInv, send_num
  <2> QED BY <2>2, <2>3, <2>4, <2>5 DEF IInv
<1> QED BY <1>8, <1>9

\* Front when the handler does not echo: nothing popped, or the client's pop.
LEMMA ReadKeeps ==
    ASSUME IInv, NEW e \in Ends, NEW k \in Nat, Front(e, k), ~(PopNow(e, k) /\ e = "s")
    PROVE  Step(e)
<1> DEFINE d == Peer(e)
           y == BufAfter(e, k)
           w == WinAfter(e, k)
           ch == ChanAfter(e, k)
<1>1. d \in Ends /\ d # e /\ Peer(d) = e
  BY PeerEnd
<1>2. /\ my_ack[e] \in Nat /\ SentTo(e) = 2 * acked[e] + out[e]
      /\ Len(msgs[e]) <= TcpQueueSize[e] /\ acked[e] \in Nat /\ Len(msgs[e]) \in Nat /\ TcpQueueSize[e] \in Nat
      /\ chan[d] \in Seq(UnitSet) /\ Len(chan[d]) <= SockSize /\ AcksTo(chan[d], my_ack[e])
  BY <1>1, EndFacts, PeerEnd
<1>3. /\ acked \in [Ends -> Nat] /\ msgs \in [Ends -> Seq(Nat)] /\ out \in [Ends -> Nat]
      /\ my_ack \in [Ends -> Nat] /\ fresh \in [Ends -> BOOLEAN]
      /\ chan \in [Ends -> Seq(UnitSet)] /\ buf \in [Ends -> Seq(UnitSet)]
  BY DEF IInv, Typed
<1>4. FrontState(e, k)
  <2>1. k <= Len(chan[e]) /\ Len(chan[e]) \in Nat
    BY <1>3, FrontIs, LenProperties
  <2>2. k \in 0 .. Len(chan[e])
    BY ONLY <2>1, k \in Nat
  <2> QED BY <2>2, FrontDoes
<1>5. /\ y \in Seq(UnitSet) /\ (Len(y) > 0 => y[1].kind # "hb")
      /\ AckAfter(e, k) \in Nat /\ acked[e] <= AckAfter(e, k) /\ AckAfter(e, k) <= my_ack[d]
      /\ w \in Seq(Nat) /\ AckAfter(e, k) + Len(w) = acked[e] + Len(msgs[e])
      /\ Window(e, w, AckAfter(e, k)) /\ UpTo(w, my_ack[e])
      /\ OutAfter(e, k) \in Nat /\ OutAfter(e, k) <= 2 * Len(w)
      /\ 2 * AckAfter(e, k) + OutAfter(e, k) = SentTo(e)
      /\ ch \in [Ends -> Seq(UnitSet)] /\ ch[d] = chan[d]
      /\ AcksTo(ch[e], my_ack[d]) /\ Len(ch[e]) <= SockSize
  BY <1>4, Zenon DEF FrontState, UpTo
<1>6. PICK p \in Nat : /\ Run(d, y, 2 * my_ack[e], p) /\ Run(d, ch[e], p, SentTo(d))
                       /\ e = "c" => 2 * AckAfter("c", k) <= p + 1
  BY <1>4, Zenon DEF FrontState
<1>7. /\ acked' = [acked EXCEPT ![e] = AckAfter(e, k)]
      /\ buf' = [buf EXCEPT ![e] = IF PopNow(e, k) THEN SubSeq(y, 3, Len(y)) ELSE y]
      /\ my_ack' = [my_ack EXCEPT ![e] = IF PopNow(e, k) THEN @ + 1 ELSE @]
      /\ fresh' = [fresh EXCEPT ![e] = PopNow(e, k) \/ (@ /\ Len(Rest(e)) < 2)]
      /\ msgs' = [msgs EXCEPT ![e] = w] /\ out' = [out EXCEPT ![e] = OutAfter(e, k)] /\ chan' = ch
  BY FrontIs
<1> HIDE DEF d, y, w, ch
<1>8. /\ msgs' \in [Ends -> Seq(Nat)] /\ msgs'[e] = w /\ msgs'[d] = msgs[d]
      /\ out' \in [Ends -> Nat] /\ out'[e] = OutAfter(e, k) /\ out'[d] = out[d]
      /\ acked' \in [Ends -> Nat] /\ acked'[e] = AckAfter(e, k) /\ acked'[d] = acked[d]
  BY <1>1, <1>3, <1>5, <1>7
<1>9. /\ my_ack' \in [Ends -> Nat] /\ my_ack'[d] = my_ack[d] /\ my_ack[e] <= my_ack'[e]
      /\ my_ack'[e] = (IF PopNow(e, k) THEN my_ack[e] + 1 ELSE my_ack[e])
      /\ my_ack'[e] \in Nat
  <2>1. CASE PopNow(e, k)
    <3>1. my_ack' = [my_ack EXCEPT ![e] = my_ack[e] + 1]
      BY <1>7, <2>1
    <3>2. my_ack' \in [Ends -> Nat] /\ my_ack'[d] = my_ack[d] /\ my_ack'[e] = my_ack[e] + 1
      <4>1. my_ack \in [Ends -> Nat]
        BY <1>3, Zenon
      <4> QED BY ONLY <1>1, <3>1, <4>1, e \in Ends
    <3> QED BY <1>2, <2>1, <3>2
  <2>2. CASE ~PopNow(e, k)
    <3>1. my_ack' = [my_ack EXCEPT ![e] = my_ack[e]]
      BY <1>7, <2>2
    <3>2. my_ack' \in [Ends -> Nat] /\ my_ack'[d] = my_ack[d] /\ my_ack'[e] = my_ack[e]
      BY <1>1, <1>2, <1>3, <3>1
    <3> QED BY <1>2, <2>2, <3>2
  <2> QED BY <2>1, <2>2
<1>10. fresh' \in [Ends -> BOOLEAN]
  <2>1. (PopNow(e, k) \/ (fresh[e] /\ Len(Rest(e)) < 2)) \in BOOLEAN
    BY Zenon
  <2> QED BY <2>1, <1>3, <1>7, Zenon
<1>11. /\ buf' \in [Ends -> Seq(UnitSet)] /\ buf'[d] = buf[d]
       /\ Run(d, buf'[e], 2 * my_ack'[e], p)
  <2>1. CASE PopNow(e, k)
    <3>1. Len(y) >= 2 /\ Len(y) \in Nat
      BY <2>1, <1>5, LenProperties DEF PopNow, y
    <3>2. Run(d, SubSeq(y, 3, Len(y)), 2 * (my_ack[e] + 1), p)
      BY <3>1, <1>2, <1>5, <1>6, RunPop
    <3>3. SubSeq(y, 3, Len(y)) \in Seq(UnitSet)
      BY <1>5, <3>1
    <3>4. buf' = [buf EXCEPT ![e] = SubSeq(y, 3, Len(y))] /\ my_ack'[e] = my_ack[e] + 1
      BY <2>1, <1>7, <1>9
    <3>5. buf' \in [Ends -> Seq(UnitSet)] /\ buf'[d] = buf[d] /\ buf'[e] = SubSeq(y, 3, Len(y))
      BY <1>1, <1>3, <3>3, <3>4
    <3> QED BY <3>2, <3>4, <3>5, Zenon
  <2>2. CASE ~PopNow(e, k)
    <3>1. buf' = [buf EXCEPT ![e] = y] /\ my_ack'[e] = my_ack[e]
      BY <2>2, <1>7, <1>9
    <3>2. buf' \in [Ends -> Seq(UnitSet)] /\ buf'[d] = buf[d] /\ buf'[e] = y
      BY <1>1, <1>3, <1>5, <3>1
    <3> QED BY <3>1, <3>2, <1>6, Zenon
  <2> QED BY <2>1, <2>2
<1>12. UpTo(w, my_ack'[e]) /\ AcksTo(chan[d], my_ack'[e])
  <2>1. AcksTo(chan[d], my_ack'[e])
    BY <1>2, <1>9, AcksMore
  <2>2. ASSUME NEW i \in 1 .. Len(w) PROVE w[i] <= my_ack'[e]
    <3>1. w[i] \in Nat /\ w[i] <= my_ack[e]
      <4>1. w \in Seq(Nat) /\ UpTo(w, my_ack[e])
        BY <1>5, Zenon
      <4> QED BY ONLY <4>1, i \in 1 .. Len(w) DEF UpTo
    <3> QED BY ONLY <3>1, <1>2, <1>9
  <2> QED BY <2>1, <2>2, Zenon DEF UpTo
<1>13. Len(w) <= TcpQueueSize[e]
  <2>1. /\ Len(w) \in Nat /\ AckAfter(e, k) + Len(w) = acked[e] + Len(msgs[e]) /\ acked[e] <= AckAfter(e, k)
        /\ AckAfter(e, k) \in Nat
    BY <1>5, LenProperties
  <2>2. Len(msgs[e]) <= TcpQueueSize[e] /\ acked[e] \in Nat /\ Len(msgs[e]) \in Nat /\ TcpQueueSize[e] \in Nat
    BY <1>2, Zenon
  <2> QED BY ONLY <2>1, <2>2
<1>14. 2 * acked'[e] + out'[e] = SentTo(e)
  BY <1>5, <1>8, Zenon
<1>15. e = "c" => 2 * acked'["c"] <= p + 1
  BY <1>6, <1>8, Zenon
<1> QED BY <1>2, <1>5, <1>6, <1>7, <1>8, <1>9, <1>10, <1>11, <1>12, <1>13, <1>14, <1>15, Zenon DEF Step, d

\* Front of the server with an echo: Alloc, Pop and Push.
LEMMA EchoKeeps ==
    ASSUME IInv, NEW k \in Nat, Front("s", k), PopNow("s", k)
    PROVE  /\ Step("s")
           /\ msgs'["s"] = Append(WinAfter("s", k), my_ack["s"] + 1)
<1> DEFINE y == BufAfter("s", k)
           w == WinAfter("s", k)
           ch == ChanAfter("s", k)
           v == Append(w, my_ack["s"] + 1)
           l == Len(w)
           b == my_ack["s"] + 1
<1>1. "s" \in Ends /\ "c" \in Ends /\ Peer("s") = "c" /\ Peer("c") = "s"
  BY PeerEnd DEF Ends
<1>2. /\ my_ack["s"] \in Nat /\ SentTo("s") = 2 * acked["s"] + out["s"] /\ b \in Nat /\ my_ack["s"] <= b
      /\ chan["c"] \in Seq(UnitSet) /\ Len(chan["c"]) <= SockSize /\ AcksTo(chan["c"], my_ack["s"])
  BY <1>1, EndFacts
<1>3. /\ acked \in [Ends -> Nat] /\ msgs \in [Ends -> Seq(Nat)] /\ out \in [Ends -> Nat]
      /\ my_ack \in [Ends -> Nat] /\ fresh \in [Ends -> BOOLEAN]
      /\ chan \in [Ends -> Seq(UnitSet)] /\ buf \in [Ends -> Seq(UnitSet)]
      /\ my_ack["s"] = acked["s"] + Len(msgs["s"])
  BY DEF IInv, Typed, ServerInv
<1>4. FrontState("s", k)
  <2>1. k <= Len(chan["s"]) /\ Len(chan["s"]) \in Nat
    BY <1>1, <1>3, FrontIs, LenProperties
  <2>2. k \in 0 .. Len(chan["s"])
    BY ONLY <2>1, k \in Nat
  <2> QED BY <1>1, <2>2, FrontDoes
<1>5. /\ y \in Seq(UnitSet) /\ (Len(y) > 0 => y[1].kind # "hb")
      /\ AckAfter("s", k) \in Nat /\ AckAfter("s", k) <= my_ack["c"]
      /\ w \in Seq(Nat) /\ AckAfter("s", k) + l = my_ack["s"]
      /\ Window("s", w, AckAfter("s", k)) /\ UpTo(w, my_ack["s"])
      /\ OutAfter("s", k) \in Nat /\ OutAfter("s", k) <= 2 * l
      /\ 2 * AckAfter("s", k) + OutAfter("s", k) = SentTo("s")
      /\ ch \in [Ends -> Seq(UnitSet)] /\ ch["c"] = chan["c"]
      /\ AcksTo(ch["s"], my_ack["c"]) /\ Len(ch["s"]) <= SockSize
  BY <1>1, <1>3, <1>4, Zenon DEF FrontState, UpTo
<1>6. PICK p \in Nat : Run("c", y, 2 * my_ack["s"], p) /\ Run("c", ch["s"], p, SentTo("c"))
  BY <1>1, <1>4, Zenon DEF FrontState
<1>7. /\ acked' = [acked EXCEPT !["s"] = AckAfter("s", k)]
      /\ buf' = [buf EXCEPT !["s"] = SubSeq(y, 3, Len(y))]
      /\ my_ack' = [my_ack EXCEPT !["s"] = @ + 1]
      /\ fresh' = [fresh EXCEPT !["s"] = TRUE]
      /\ SendPending("s", v, OutAfter("s", k), ch)
  BY <1>1, FrontIs
<1>8. Len(y) >= 2 /\ Len(y) \in Nat /\ l < TcpQueueSize["s"] /\ l \in Nat
  BY <1>5, LenProperties DEF PopNow, Pops
<1> HIDE DEF y, ch, b
<1>9. v \in Seq(Nat) /\ Len(v) = l + 1 /\ v[l + 1] = my_ack["s"] + 1 /\ \A i \in 1 .. l : v[i] = w[i]
  <2>1. w \in Seq(Nat) /\ my_ack["s"] + 1 \in Nat
    BY <1>2, <1>5
  <2> HIDE DEF w
  <2> QED BY <2>1
<1> HIDE DEF w, v
<1>10. ASSUME NEW i \in 1 .. Len(v)
       PROVE  GoodMsg("s", v[i], AckAfter("s", k) + i - 1) /\ v[i] <= b
  <2> HIDE DEF l
  <2>1. i \in 1 .. l + 1
    BY <1>9, Zenon
  <2>2. i = l + 1 \/ i \in 1 .. l
    BY ONLY <1>8, <2>1
  <2>3. CASE i = l + 1
    <3>1. AckAfter("s", k) + (l + 1) - 1 = my_ack["s"]
      BY ONLY <1>5, <1>8
    <3>2. GoodMsg("s", my_ack["s"] + 1, my_ack["s"])
      BY DEF GoodMsg
    <3>3. my_ack["s"] + 1 <= b
      BY <1>2 DEF b
    <3> QED BY <2>3, <3>1, <3>2, <3>3, <1>9, Zenon
  <2>4. CASE i \in 1 .. l
    <3>1. GoodMsg("s", w[i], AckAfter("s", k) + i - 1) /\ w[i] <= my_ack["s"] /\ w[i] \in Nat
      <4>1. w \in Seq(Nat) /\ i \in 1 .. Len(w) /\ Window("s", w, AckAfter("s", k)) /\ UpTo(w, my_ack["s"])
        BY <1>5, <2>4, Zenon DEF l
      <4>2. w[i] \in Nat
        BY ONLY <4>1
      <4> QED BY <4>1, <4>2, Zenon DEF Window, UpTo
    <3>2. w[i] <= b
      BY ONLY <1>2, <3>1
    <3> QED BY <2>4, <3>1, <3>2, <1>9, Zenon
  <2> QED BY <2>2, <2>3, <2>4
<1>11. Window("s", v, AckAfter("s", k)) /\ UpTo(v, b)
  BY <1>10, Zenon DEF Window, UpTo
<1>12. OutAfter("s", k) <= 2 * Len(v) /\ Len(v) <= TcpQueueSize["s"]
  <2>1. OutAfter("s", k) \in Nat /\ OutAfter("s", k) <= 2 * l /\ Len(v) = l + 1
    BY <1>5, <1>9, Zenon
  <2> HIDE DEF l
  <2> QED BY ONLY <1>8, <2>1, FlowNat
<1>13. ASSUME NEW q \in Nat, Run("s", chan["c"], q, SentTo("s"))
       PROVE  /\ msgs' = [msgs EXCEPT !["s"] = v] /\ out' \in [Ends -> Nat]
              /\ out'["s"] <= 2 * Len(v) /\ out'["c"] = out["c"]
              /\ chan' \in [Ends -> Seq(UnitSet)] /\ chan'["s"] = ch["s"]
              /\ Len(chan'["c"]) <= SockSize
              /\ Run("s", chan'["c"], q, 2 * AckAfter("s", k) + out'["s"]) /\ AcksTo(chan'["c"], b)
  <2>1. Run("s", ch["c"], q, 2 * AckAfter("s", k) + OutAfter("s", k))
    BY <1>5, <1>13, Zenon
  <2>2. Len(ch["c"]) <= SockSize
    BY <1>2, <1>5, Zenon
  <2>3. AcksTo(ch["c"], b)
    BY <1>2, <1>5, AcksMore
  <2>4. \A i \in 1 .. Len(v) : v[i] <= b
    BY <1>10
  <2>5. OutAfter("s", k) \in Nat /\ AckAfter("s", k) \in Nat /\ ch \in [Ends -> Seq(UnitSet)]
    BY <1>5, Zenon
  <2>6. /\ SendPending("s", v, OutAfter("s", k), ch) /\ v \in Seq(Nat) /\ b \in Nat
        /\ Window("s", v, AckAfter("s", k)) /\ OutAfter("s", k) <= 2 * Len(v)
        /\ msgs \in [Ends -> Seq(Nat)] /\ out \in [Ends -> Nat]
    BY <1>2, <1>3, <1>7, <1>9, <1>11, <1>12, Zenon
  <2>7. /\ Len(ch[Peer("s")]) <= SockSize /\ AcksTo(ch[Peer("s")], b)
        /\ Run("s", ch[Peer("s")], q, 2 * AckAfter("s", k) + OutAfter("s", k))
    BY <1>1, <2>1, <2>2, <2>3
  <2>8. /\ msgs' = [msgs EXCEPT !["s"] = v] /\ out' \in [Ends -> Nat]
        /\ out'["s"] <= 2 * Len(v) /\ out'[Peer("s")] = out[Peer("s")]
        /\ chan' \in [Ends -> Seq(UnitSet)] /\ chan'["s"] = ch["s"]
        /\ Len(chan'[Peer("s")]) <= SockSize
        /\ Run("s", chan'[Peer("s")], q, 2 * AckAfter("s", k) + out'["s"]) /\ AcksTo(chan'[Peer("s")], b)
    BY ONLY <1>1, <2>4, <2>5, <2>6, <2>7, SendPendingDoes
  <2> QED BY <1>1, <2>8
<1>14. PICK q \in Nat : Run("s", chan["c"], q, SentTo("s"))
  <2>1. StreamInv("c")
    BY <1>1 DEF IInv
  <2> QED BY <1>1, <2>1 DEF StreamInv, StreamAt
<1>15. /\ msgs' = [msgs EXCEPT !["s"] = v] /\ out' \in [Ends -> Nat]
       /\ out'["s"] <= 2 * Len(v) /\ out'["c"] = out["c"]
       /\ chan' \in [Ends -> Seq(UnitSet)] /\ chan'["s"] = ch["s"]
       /\ Len(chan'["c"]) <= SockSize /\ AcksTo(chan'["c"], b)
  BY <1>13, <1>14
<1>16. /\ msgs' \in [Ends -> Seq(Nat)] /\ msgs'["s"] = v /\ msgs'["c"] = msgs["c"]
       /\ acked' \in [Ends -> Nat] /\ acked'["s"] = AckAfter("s", k) /\ acked'["c"] = acked["c"]
       /\ my_ack' \in [Ends -> Nat] /\ my_ack'["s"] = b /\ my_ack'["c"] = my_ack["c"]
  BY <1>1, <1>2, <1>3, <1>5, <1>7, <1>9, <1>15 DEF b
<1>17. fresh' \in [Ends -> BOOLEAN]
  BY <1>3, <1>7, Zenon
<1>18. Run("c", SubSeq(y, 3, Len(y)), 2 * b, p)
  BY <1>2, <1>5, <1>6, <1>8, RunPop DEF b
<1>19. buf' \in [Ends -> Seq(UnitSet)] /\ buf'["s"] = SubSeq(y, 3, Len(y)) /\ buf'["c"] = buf["c"]
  <2>1. SubSeq(y, 3, Len(y)) \in Seq(UnitSet)
    BY <1>5, <1>8
  <2> QED BY <2>1, <1>1, <1>3, <1>7
<1>20. /\ Run("c", buf'["s"], 2 * my_ack'["s"], p) /\ Run("c", chan'["s"], p, SentTo("c"))
       /\ "s" = "c" => 2 * acked'["c"] <= p + 1
  BY <1>6, <1>15, <1>16, <1>18, <1>19
<1>21. \A r \in Nat : Run("s", chan["c"], r, SentTo("s"))
                        => Run("s", chan'["c"], r, 2 * acked'["s"] + out'["s"])
  BY <1>13, <1>16, Zenon
<1>22. /\ Window("s", msgs'["s"], acked'["s"]) /\ UpTo(msgs'["s"], my_ack'["s"])
       /\ Len(msgs'["s"]) <= TcpQueueSize["s"] /\ out'["s"] <= 2 * Len(msgs'["s"])
       /\ Len(chan'["s"]) <= SockSize /\ AcksTo(chan'["s"], my_ack["c"])
       /\ AcksTo(chan'["c"], my_ack'["s"]) /\ my_ack["s"] <= my_ack'["s"] /\ acked'["s"] <= my_ack["c"]
  BY <1>2, <1>5, <1>11, <1>12, <1>15, <1>16, Zenon
<1>23. Step("s")
  BY <1>1, <1>15, <1>16, <1>17, <1>19, <1>20, <1>21, <1>22, Zenon DEF Step
<1> QED BY <1>16, <1>23 DEF v, w

LEMMA ServerPollTcpKeeps ==
    ASSUME IInv, NEW k \in Nat, ServerPollTcp(k)
    PROVE  IInv'
<1> DEFINE y == BufAfter("s", k)
           w == WinAfter("s", k)
           z == IF PopNow("s", k) THEN SubSeq(y, 3, Len(y)) ELSE y
<1>1. "s" \in Ends /\ "c" \in Ends /\ Peer("s") = "c"
  BY PeerEnd DEF Ends
<1>2. Front("s", k) /\ pc' = [pc EXCEPT !["s"] = "hb"]
  BY DEF ServerPollTcp
<1>3. Step("s")
  BY <1>1, <1>2, ReadKeeps, EchoKeeps
<1>4. /\ acked \in [Ends -> Nat] /\ msgs \in [Ends -> Seq(Nat)] /\ my_ack \in [Ends -> Nat]
      /\ chan \in [Ends -> Seq(UnitSet)] /\ buf \in [Ends -> Seq(UnitSet)]
      /\ pc \in [Ends -> {"num", "hb", "front"}] /\ ClientInv
      /\ my_ack["s"] = acked["s"] + Len(msgs["s"]) /\ Len(buf["s"]) <= TcpRecvBufMaxSize
  BY DEF IInv, Typed, ServerInv
<1>5. pc' \in [Ends -> {"num", "hb", "front"}] /\ pc'["s"] # "num" /\ pc'["c"] = pc["c"]
  BY <1>1, <1>2, <1>4
<1>6. ClientInv'
  <2>1. acked'["c"] = acked["c"] /\ msgs'["c"] = msgs["c"] /\ my_ack'["c"] = my_ack["c"]
    BY <1>1, <1>3, Zenon DEF Step
  <2> QED BY <1>4, <1>5, <2>1 DEF ClientInv, send_num
<1>7. FrontState("s", k) /\ k <= TcpRecvBufMaxSize - Len(Rest("s"))
  <2>1. k <= Len(chan["s"]) /\ Len(chan["s"]) \in Nat
    BY <1>1, <1>2, <1>4, FrontIs, LenProperties
  <2>2. k \in 0 .. Len(chan["s"])
    BY ONLY <2>1, k \in Nat
  <2> QED BY <1>1, <1>2, <2>2, FrontDoes, FrontIs
<1>8. /\ Rest("s") \in Seq(UnitSet) /\ y \in Seq(UnitSet) /\ Len(y) <= Len(Rest("s")) + k
      /\ AcksTo(y, AckAfter("s", k)) /\ AckAfter("s", k) \in Nat /\ w \in Seq(Nat)
      /\ AckAfter("s", k) + Len(w) = my_ack["s"]
  BY <1>4, <1>7, Zenon DEF FrontState
<1>9. Len(y) \in Nat /\ Len(y) <= TcpRecvBufMaxSize /\ Len(w) \in Nat
  <2>1. Len(y) \in Nat /\ Len(w) \in Nat /\ Len(Rest("s")) \in Nat
    BY <1>8, LenProperties
  <2>2. Len(y) <= Len(Rest("s")) + k /\ k <= TcpRecvBufMaxSize - Len(Rest("s"))
    BY <1>7, <1>8, Zenon
  <2> QED BY ONLY <2>1, <2>2, FlowNat, k \in Nat
<1>10. acked'["s"] = AckAfter("s", k) /\ buf'["s"] = z
  <2>1. acked' = [acked EXCEPT !["s"] = AckAfter("s", k)] /\ buf' = [buf EXCEPT !["s"] = z]
    BY ONLY <1>1, <1>2, k \in Nat, FrontIs
  <2> HIDE DEF z
  <2> QED BY <1>1, <1>4, <2>1
<1> HIDE DEF y, w
<1>11. AcksTo(z, AckAfter("s", k)) /\ Len(z) <= TcpRecvBufMaxSize
  <2>1. CASE PopNow("s", k)
    <3>1. 2 \in 0 .. Len(y)
      <4>1. Len(y) >= 2
        BY <2>1 DEF PopNow, y
      <4> QED BY ONLY <4>1, <1>9
    <3>2. SubSeq(y, 3, Len(y)) = SubSeq(y, 2 + 1, Len(y))
      OBVIOUS
    <3>3. /\ SubSeq(y, 2 + 1, Len(y)) \in Seq(UnitSet) /\ Len(SubSeq(y, 2 + 1, Len(y))) <= Len(y)
          /\ AcksTo(SubSeq(y, 2 + 1, Len(y)), AckAfter("s", k))
      BY ONLY <1>8, <3>1, AcksPart
    <3>4. z \in Seq(UnitSet) /\ Len(z) <= Len(y) /\ AcksTo(z, AckAfter("s", k))
      BY <2>1, <3>2, <3>3
    <3> HIDE DEF z
    <3>5. Len(z) \in Nat
      BY <3>4, LenProperties
    <3>6. Len(z) <= TcpRecvBufMaxSize
      BY ONLY <3>4, <3>5, <1>9, FlowNat
    <3> QED BY <3>4, <3>6
  <2>2. CASE ~PopNow("s", k)
    BY <2>2, <1>8, <1>9
  <2> QED BY <2>1, <2>2
<1> HIDE DEF z
<1>12. my_ack'["s"] = acked'["s"] + Len(msgs'["s"])
  <2>1. CASE PopNow("s", k)
    <3>1. msgs'["s"] = Append(w, my_ack["s"] + 1)
      BY <1>2, <2>1, EchoKeeps DEF w
    <3>2. Len(msgs'["s"]) = Len(w) + 1
      BY <3>1, <1>8
    <3>3. my_ack'["s"] = my_ack["s"] + 1
      BY <1>1, <1>2, <1>4, <2>1, FrontIs
    <3>4. (AckAfter("s", k) + Len(w)) + 1 = AckAfter("s", k) + (Len(w) + 1)
      <4>1. AckAfter("s", k) \in Nat /\ Len(w) \in Nat
        BY <1>8, <1>9
      <4> QED BY ONLY <4>1
    <3> QED BY <1>8, <1>10, <3>2, <3>3, <3>4, Zenon
  <2>2. CASE ~PopNow("s", k)
    <3>1. msgs'["s"] = w /\ my_ack'["s"] = my_ack["s"]
      BY <1>1, <1>2, <1>4, <2>2, FrontIs DEF w
    <3> QED BY <1>8, <1>10, <3>1, Zenon
  <2> QED BY <2>1, <2>2
<1>13. ServerInv'
  BY <1>10, <1>11, <1>12, Zenon DEF ServerInv
<1> QED BY <1>1, <1>3, <1>5, <1>6, <1>13, StepKeeps

LEMMA ClientPollTcpKeeps ==
    ASSUME IInv, NEW k \in Nat, ClientPollTcp(k)
    PROVE  IInv'
<1> DEFINE y == BufAfter("c", k)
           w == WinAfter("c", k)
           a == AckAfter("c", k)
<1>1. "s" \in Ends /\ "c" \in Ends /\ Peer("c") = "s"
  BY PeerEnd DEF Ends
<1>2. Front("c", k) /\ pc' = [pc EXCEPT !["c"] = "num"]
  BY DEF ClientPollTcp
<1>3. Step("c")
  BY <1>1, <1>2, ReadKeeps
<1>4. /\ acked \in [Ends -> Nat] /\ msgs \in [Ends -> Seq(Nat)] /\ my_ack \in [Ends -> Nat]
      /\ chan \in [Ends -> Seq(UnitSet)]
      /\ pc \in [Ends -> {"num", "hb", "front"}] /\ pc["s"] # "num" /\ ServerInv
      /\ send_num <= my_ack["c"] + TcpQueueSize["c"] + 1
  BY DEF IInv, Typed, ClientInv
<1>5. pc' \in [Ends -> {"num", "hb", "front"}] /\ pc'["s"] # "num"
  BY <1>1, <1>2, <1>4
<1>6. ServerInv'
  <2>1. acked'["s"] = acked["s"] /\ msgs'["s"] = msgs["s"] /\ my_ack'["s"] = my_ack["s"] /\ buf'["s"] = buf["s"]
    BY <1>1, <1>3, Zenon DEF Step
  <2> QED BY <1>4, <2>1 DEF ServerInv, AcksTo
<1>7. FrontState("c", k)
  <2>1. k <= Len(chan["c"]) /\ Len(chan["c"]) \in Nat
    BY <1>1, <1>2, <1>4, FrontIs, LenProperties
  <2>2. k \in 0 .. Len(chan["c"])
    BY ONLY <2>1, k \in Nat
  <2> QED BY <1>1, <2>2, FrontDoes
<1>8. /\ y \in Seq(UnitSet) /\ (Len(y) > 0 => y[1].kind # "hb") /\ a \in Nat
      /\ a + Len(w) = send_num
  BY <1>7, Zenon DEF FrontState, send_num
<1>9. PICK p \in Nat : Run("s", y, 2 * my_ack["c"], p) /\ 2 * a <= p + 1
  BY <1>1, <1>7, Zenon DEF FrontState
<1>10. acked'["c"] = a /\ msgs'["c"] = w
  <2>1. acked' = [acked EXCEPT !["c"] = a] /\ msgs' = [msgs EXCEPT !["c"] = w]
    BY <1>1, <1>2, FrontIs
  <2> QED BY <2>1, <1>1, <1>4
<1>11. send_num' = send_num
  BY <1>8, <1>10, Zenon DEF send_num
<1>12. my_ack["c"] \in Nat /\ send_num \in Nat
  <2>1. acked["c"] \in Nat /\ Len(msgs["c"]) \in Nat /\ my_ack["c"] \in Nat
    BY <1>1, EndFacts
  <2> QED BY <2>1 DEF send_num
<1> HIDE DEF y, w, a
<1>13. CASE PopNow("c", k)
  <2>1. my_ack'["c"] = my_ack["c"] + 1
    BY <1>1, <1>2, <1>4, <1>13, FrontIs
  <2>2. /\ send_num <= (my_ack["c"] + 1) + TcpQueueSize["c"]
        /\ send_num <= (my_ack["c"] + 1) + TcpQueueSize["c"] + 1
    BY ONLY <1>4, <1>12, FlowNat
  <2>3. ClientInv'
    BY <1>11, <2>1, <2>2, Zenon DEF ClientInv
  <2> QED BY <1>1, <1>3, <1>5, <1>6, <2>3, StepKeeps
<1>14. CASE ~PopNow("c", k)
  <2>1. my_ack'["c"] = my_ack["c"]
    BY <1>1, <1>2, <1>4, <1>14, FrontIs
  <2>2. Len(y) < 2
    <3>1. ~(Len(y) >= 2)
      BY <1>14 DEF PopNow, Pops, y
    <3>2. Len(y) \in Nat
      BY <1>8, LenProperties
    <3> QED BY ONLY <3>1, <3>2
  <2>3. p <= 2 * my_ack["c"] + 1
    BY <1>8, <1>9, <1>12, <2>2, RunPop
  <2>4. a <= my_ack["c"] + 1
    <3>1. a \in Nat /\ 2 * a <= p + 1
      BY <1>8, <1>9
    <3> QED BY ONLY <3>1, <2>3, <1>12, p \in Nat
  <2>5. ClientInv'
    BY <1>4, <1>10, <1>11, <2>1, <2>4, Zenon DEF ClientInv
  <2> QED BY <1>1, <1>3, <1>5, <1>6, <2>5, StepKeeps
<1> QED BY <1>13, <1>14

LEMMA InitIInv == Init => IInv
<1> SUFFICES ASSUME Init PROVE IInv
  OBVIOUS
<1>1. /\ acked = [e \in Ends |-> 0] /\ msgs = [e \in Ends |-> <<>>] /\ out = [e \in Ends |-> 0]
      /\ my_ack = [e \in Ends |-> 0] /\ fresh = [e \in Ends |-> FALSE]
      /\ chan = [e \in Ends |-> <<>>] /\ buf = [e \in Ends |-> <<>>]
      /\ pc = [e \in Ends |-> IF e = "c" THEN "num" ELSE "hb"]
  BY DEF Init
<1>2. <<>> \in Seq(UnitSet) /\ <<>> \in Seq(Nat) /\ Len(<<>>) = 0
  OBVIOUS
<1>3. Typed
  <2>1. fresh \in [Ends -> BOOLEAN]
    BY <1>1, Zenon
  <2>2. pc \in [Ends -> {"num", "hb", "front"}] /\ pc["s"] # "num"
    BY <1>1 DEF Ends
  <2>3. /\ acked \in [Ends -> Nat] /\ msgs \in [Ends -> Seq(Nat)] /\ out \in [Ends -> Nat]
        /\ my_ack \in [Ends -> Nat] /\ chan \in [Ends -> Seq(UnitSet)] /\ buf \in [Ends -> Seq(UnitSet)]
    BY <1>1, <1>2
  <2> QED BY <2>1, <2>2, <2>3 DEF Typed
<1>4. ASSUME NEW e \in Ends PROVE QueueInv(e) /\ StreamInv(e)
  <2>1. Peer(e) \in Ends /\ TcpQueueSize[e] \in Nat
    BY PeerEnd
  <2>2. /\ acked[e] = 0 /\ msgs[e] = <<>> /\ out[e] = 0 /\ my_ack[e] = 0 /\ chan[e] = <<>> /\ buf[e] = <<>>
        /\ acked[Peer(e)] = 0 /\ out[Peer(e)] = 0 /\ my_ack[Peer(e)] = 0
    BY <1>1, <2>1
  <2>3. QueueInv(e)
    BY <2>1, <2>2, FlowNat DEF QueueInv, AcksTo
  <2>4. 2 * my_ack[e] = 0 /\ SentTo(Peer(e)) = 0 /\ 2 * acked[e] <= 0 + 1
    BY <2>2 DEF SentTo
  <2>5. Run(Peer(e), <<>>, 0, 0)
    BY RunEmpty
  <2>6. StreamAt(e, 0)
    BY <2>2, <2>4, <2>5 DEF StreamAt
  <2> QED BY <2>3, <2>6 DEF StreamInv
<1>5. "s" \in Ends /\ "c" \in Ends
  BY DEF Ends
<1>6. ServerInv
  BY <1>1, <1>5, FlowNat DEF ServerInv, AcksTo
<1>7. ClientInv
  BY <1>1, <1>5, FlowNat DEF ClientInv, send_num
<1> QED BY <1>3, <1>4, <1>6, <1>7 DEF IInv

LEMMA StutterIInv == ASSUME IInv, UNCHANGED vars PROVE IInv'
BY DEF vars, IInv, Typed, QueueInv, StreamInv, StreamAt, ServerInv, ClientInv, SentTo, AcksTo, send_num

LEMMA NextIInv == IInv /\ [Next]_vars => IInv'
<1> SUFFICES ASSUME IInv, [Next]_vars PROVE IInv'
  OBVIOUS
<1>1. ASSUME NEW e \in Ends, SendHB(e) PROVE IInv'
  BY <1>1, SendHBKeeps
<1>2. ASSUME NEW k \in 0 .. SockSize, ServerPollTcp(k) \/ ClientPollTcp(k) PROVE IInv'
  <2>1. k \in Nat
    BY FlowNat
  <2> QED BY <1>2, <2>1, ServerPollTcpKeeps, ClientPollTcpKeeps
<1>3. CASE PollNum
  BY <1>3, PollNumKeeps
<1>4. CASE UNCHANGED vars
  BY <1>4, StutterIInv
<1> QED BY <1>1, <1>2, <1>3, <1>4 DEF Next

LEMMA Inductive == Spec => []IInv
<1>1. Init => IInv
  BY InitIInv
<1>2. IInv /\ [Next]_vars => IInv'
  BY NextIInv
<1> QED BY <1>1, <1>2, PTL DEF Spec

-----------------------------------------------------------------------------
(* The queues, the receive buffer of the server and the sockets stay within *)
(* their bounds, nothing is acknowledged that was not popped and nothing    *)
(* popped that was not sent (Alloc, DoRecv, SendPending, Ack).              *)
THEOREM TypeCorrect == Spec => []TypeOK
<1>1. IInv => TypeOK
  <2> SUFFICES ASSUME IInv PROVE TypeOK
    OBVIOUS
  <2>1. ASSUME NEW e \in Ends
        PROVE  /\ msgs[e] \in Seq(Nat) /\ Len(msgs[e]) <= TcpQueueSize[e]
               /\ out[e] \in 0 .. 2 * Len(msgs[e])
               /\ Len(chan[e]) <= SockSize
               /\ my_ack[e] \in 0 .. acked[Peer(e)] + Len(msgs[Peer(e)])
               /\ acked[e] \in 0 .. my_ack[Peer(e)]
    <3> DEFINE d == Peer(e)
    <3>1. d \in Ends /\ Peer(d) = e
      BY PeerEnd
    <3>2. /\ msgs[e] \in Seq(Nat) /\ Len(msgs[e]) \in Nat /\ Len(msgs[e]) <= TcpQueueSize[e]
          /\ out[e] \in Nat /\ out[e] <= 2 * Len(msgs[e]) /\ Len(chan[e]) <= SockSize
          /\ my_ack[e] \in Nat /\ acked[e] \in Nat /\ acked[e] <= my_ack[d]
      BY EndFacts
    <3>3. /\ my_ack[d] \in Nat /\ acked[d] \in Nat /\ Len(msgs[d]) \in Nat /\ out[d] \in Nat
          /\ out[d] <= 2 * Len(msgs[d]) /\ SentTo(d) = 2 * acked[d] + out[d]
          /\ 2 * my_ack[e] <= SentTo(d)
      BY <3>1, EndFacts
    <3> HIDE DEF d
    <3>4. my_ack[e] <= acked[d] + Len(msgs[d])
      <4>1. 2 * my_ack[e] <= 2 * acked[d] + out[d]
        BY <3>3, Zenon
      <4>2. /\ acked[d] \in Nat /\ Len(msgs[d]) \in Nat /\ out[d] \in Nat /\ my_ack[e] \in Nat
            /\ out[d] <= 2 * Len(msgs[d])
        BY <3>2, <3>3, Zenon
      <4> QED BY ONLY <4>1, <4>2
    <3>5. out[e] \in 0 .. 2 * Len(msgs[e])
      BY ONLY <3>2
    <3>6. my_ack[e] \in 0 .. acked[d] + Len(msgs[d]) /\ acked[e] \in 0 .. my_ack[d]
      <4>1. my_ack[e] \in Nat /\ acked[e] \in Nat /\ acked[e] <= my_ack[d]
        BY <3>2, Zenon
      <4>2. my_ack[d] \in Nat /\ acked[d] \in Nat /\ Len(msgs[d]) \in Nat
        BY <3>3, Zenon
      <4> QED BY ONLY <3>4, <4>1, <4>2
    <3> QED BY <3>2, <3>5, <3>6, Zenon DEF d
  <2>2. /\ Len(buf["s"]) <= TcpRecvBufMaxSize
        /\ pc \in [Ends -> {"num", "hb", "front"}] /\ pc["s"] # "num"
    BY DEF IInv, ServerInv, Typed
  <2>3. pc["c"] \in {"num", "hb", "front"} /\ pc["s"] \in {"hb", "front"}
    BY <2>2 DEF Ends
  <2> QED BY <2>1, <2>2, <2>3 DEF TypeOK
<1> QED BY <1>1, Inductive, PTL

\* A message in the server's buffer carries an ack that has made room for it.
LEMMA RoomForEcho ==
    ASSUME IInv, TcpQueueSize["s"] > TcpQueueSize["c"]
    PROVE  NeverBlocked
<1> DEFINE x == SkipHB(buf["s"])
<1>1. SUFFICES ASSUME Len(x) >= 2 PROVE Len(msgs["s"]) < TcpQueueSize["s"]
  BY DEF NeverBlocked, Pops
<1>2. "s" \in Ends /\ Peer("s") = "c"
  BY PeerEnd DEF Ends
<1>3. /\ my_ack["s"] \in Nat /\ acked["s"] \in Nat /\ Len(msgs["s"]) \in Nat /\ buf["s"] \in Seq(UnitSet)
      /\ my_ack["s"] = acked["s"] + Len(msgs["s"]) /\ AcksTo(buf["s"], acked["s"])
  BY <1>2, EndFacts DEF IInv, ServerInv
<1>4. PICK p \in Nat : Run("c", buf["s"], 2 * my_ack["s"], p)
  BY <1>2 DEF IInv, StreamInv, StreamAt
<1>5. /\ x \in Seq(UnitSet) /\ Run("c", x, 2 * my_ack["s"], p) /\ (Len(x) > 0 => x[1].kind # "hb")
      /\ AcksTo(x, acked["s"])
  BY <1>3, <1>4, SkipHBRun
<1> HIDE DEF x
<1>6. GoodMsg("c", x[1].ack, my_ack["s"])
  BY <1>1, <1>3, <1>5, RunPop
<1>7. x[1].ack <= acked["s"] /\ x[1].ack \in Nat
  <2>1. Len(x) \in Nat
    BY <1>5, LenProperties
  <2>2. 1 \in 1 .. Len(x)
    BY ONLY <1>1, <2>1
  <2>3. x[1].ack \in Nat
    BY ONLY <1>5, <2>2, UnitFields
  <2> QED BY <1>5, <2>2, <2>3, Zenon DEF AcksTo
<1>8. my_ack["s"] <= x[1].ack + TcpQueueSize["c"]
  BY <1>6 DEF GoodMsg
<1>9. my_ack["s"] = acked["s"] + Len(msgs["s"]) /\ Len(msgs["s"]) \in Nat /\ acked["s"] \in Nat
  BY <1>3, Zenon
<1> QED BY ONLY <1>7, <1>8, <1>9, FlowNat, TcpQueueSize["s"] > TcpQueueSize["c"]

(* A server whose queue is larger than the client's is never blocked,       *)
(* whatever the sizes of the sockets and of the receive buffer: when a      *)
(* message is in its buffer, OnClientMsg's Alloc succeeds.                  *)
THEOREM ServerNeverBlocked ==
    ASSUME TcpQueueSize["s"] > TcpQueueSize["c"]
    PROVE  Spec => []NeverBlocked
<1>1. IInv => NeverBlocked
  BY RoomForEcho
<1> QED BY <1>1, Inductive, PTL
=============================================================================
