--------------------------- MODULE RecvBufProofs ---------------------------
(***************************************************************************)
(* Proofs about RecvBuf.  The units in the buffer and those in the socket  *)
(* behind them are one stream, counted from readidx_.  Reading, moving and *)
(* enlarging leave it alone, Front changes the order of its headers and    *)
(* drops heartbeats, Pop drops a message: the invariant says what the      *)
(* stream is and how far it has been parsed.                               *)
(***************************************************************************)
EXTENDS RecvBuf, SequenceTheorems, WellFoundedInduction, TLAPS

Cell == [id : Nat, off : Nat, len : Nat \ {0}, kind : {"msg", "hb"}, order : {"host", "net"}]

-----------------------------------------------------------------------------
(* The stream: a function from 0 .. t - 1 to units. *)

Held(x)     == x.w - x.r
Total(x, s) == Held(x) + Len(s)
Str(x, s)   == [k \in 0 .. Total(x, s) - 1 |->
                  IF k < Held(x) THEN x.buf[x.r + k] ELSE s[k - Held(x) + 1]]

UnitOK(c) == /\ c.id < Ids /\ c.len >= HDR /\ c.off < Pad(c.len)
             /\ c.kind = "hb" => c.len = HDR

\* The id of what follows the message of c.
After(c) == IF c.kind = "msg" THEN NextId(c.id) ELSE c.id

Linked(c, d) ==
    IF c.off + 1 < Pad(c.len)
    THEN d.id = c.id /\ d.off = c.off + 1 /\ d.len = c.len /\ d.kind = c.kind
    ELSE d.off = 0 /\ d.id = After(c)

\* Whole messages in the order of their ids, from g up to the one before h.
Chain(f, t, g, h) ==
    /\ \A k \in 0 .. t - 1 : f[k] \in Cell /\ UnitOK(f[k])
    /\ \A k \in 0 .. t - 2 : Linked(f[k], f[k + 1])
    /\ t > 0 => /\ f[0].off = 0 /\ f[0].id = g
                /\ f[t - 1].off + 1 = Pad(f[t - 1].len) /\ After(f[t - 1]) = h
    /\ t = 0 => g = h

\* A message starts at m, or will.
Starts(f, t, m) == m \in 0 .. t /\ (m < t => f[m].off = 0)

\* v units have been received, and parsed up to the message at m.
ParsedTo(f, t, v, m, c) ==
    /\ v \in 0 .. t /\ m \in 0 .. v /\ Starts(f, t, m)
    /\ m < v => v - m < Pad(f[m].len)
    /\ c <=> v - m >= HDR /\ Pad(f[m].len) > TcpRecvBufMaxSize
    /\ \A k \in 0 .. t - 1 : f[k].order = "host" <=> f[k].off = 0 /\ v - k >= HDR

BufType(x) ==
    /\ x \in [buf : [0 .. TcpRecvBufMaxSize - 1 -> Cell],
              size : Nat, w : Nat, n : Nat, r : Nat]
    /\ x.r <= x.n /\ x.n <= x.w /\ x.w <= x.size
    /\ HDR <= x.size /\ x.size <= TcpRecvBufMaxSize /\ x.size % HDR = 0

Holds(x, s, g, h, c) ==
    /\ BufType(x) /\ s \in Seq(Cell)
    /\ Chain(Str(x, s), Total(x, s), g, h)
    /\ ParsedTo(Str(x, s), Total(x, s), Held(x), x.n - x.r, c)

\* No heartbeat stands before the first message.
Ready(x) == x.r # x.n => x.buf[x.r].kind # "hb"

IInv ==
    /\ {fresh, head, closed} \subseteq BOOLEAN /\ {sent, got} \subseteq 0 .. Ids - 1
    /\ Holds(b, sock, got, sent, closed)
    /\ head => b.r # b.n /\ Ready(b)

-----------------------------------------------------------------------------
(* Numbers, ids and the operators of the community modules. *)

LEMMA PadBounds ==
    ASSUME NEW k \in Nat
    PROVE  /\ Pad(k) \in Nat /\ Pad(k) >= k /\ Pad(k) % HDR = 0
           /\ k # 0 => Pad(k) >= HDR
BY DEF Pad, HDR

LEMMA NextIdType ==
    ASSUME NEW i \in Nat
    PROVE  NextId(i) \in 0 .. Ids - 1
BY BufAssumption DEF NextId

LEMMA Smallest ==
    ASSUME NEW T \in SUBSET Nat, T # {}
    PROVE  \E m \in T : \A n \in T : m <= n
<1>1. PICK m \in T : \A n \in T : ~(<<n, m>> \in OpToRel(<, Nat))
  BY NatLessThanWellFounded, WFMin
<1>2. ASSUME NEW n \in T PROVE m <= n
  <2>1. n \in Nat /\ m \in Nat
    OBVIOUS
  <2>2. n < m => <<n, m>> \in OpToRel(<, Nat)
    BY <2>1 DEF OpToRel
  <2>3. ~(<<n, m>> \in OpToRel(<, Nat))
    BY <1>1
  <2>4. ~(n < m)
    BY ONLY <2>2, <2>3, Zenon
  <2> QED BY ONLY <2>1, <2>4
<1> QED BY <1>2

LEMMA MinIs ==
    ASSUME NEW S \in SUBSET Nat, S # {}
    PROVE  Min(S) \in S /\ \A i \in S : Min(S) <= i
<1>1. PICK m \in S : \A i \in S : m <= i
  BY Smallest
<1> QED BY <1>1 DEF Min

LEMMA MaxIs ==
    ASSUME NEW S \in SUBSET Nat, NEW e \in S, \A i \in S : i <= e
    PROVE  Max(S) = e
<1>1. Max(S) \in S /\ \A i \in S : Max(S) >= i
  BY DEF Max
<1>2. Max(S) \in Nat /\ e \in Nat /\ Max(S) <= e /\ Max(S) >= e
  BY <1>1
<1> QED BY ONLY <1>2

LEMMA MinOfTwo ==
    ASSUME NEW i \in Int, NEW j \in Int
    PROVE  Min({i, j}) = IF i <= j THEN i ELSE j
BY DEF Min

LEMMA MaxOfTwo ==
    ASSUME NEW i \in Int, NEW j \in Int
    PROVE  Max({i, j}) = IF i >= j THEN i ELSE j
BY DEF Max

-----------------------------------------------------------------------------
(* The stream. *)

LEMMA UnitFacts ==
    ASSUME NEW c \in Cell, UnitOK(c)
    PROVE  /\ c.id \in 0 .. Ids - 1 /\ c.off \in Nat /\ c.len \in Nat /\ c.kind \in {"msg", "hb"}
           /\ Pad(c.len) \in Nat /\ Pad(c.len) >= HDR /\ c.off < Pad(c.len)
           /\ After(c) \in 0 .. Ids - 1
<1>1. c.id \in Nat /\ c.off \in Nat /\ c.len \in Nat \ {0} /\ c.kind \in {"msg", "hb"}
  BY DEF Cell
<1>2. c.id \in 0 .. Ids - 1
  BY <1>1, BufAssumption DEF UnitOK
<1>3. Pad(c.len) \in Nat /\ Pad(c.len) >= HDR
  BY <1>1, PadBounds
<1>4. After(c) \in 0 .. Ids - 1
  BY <1>1, <1>2, NextIdType DEF After
<1> QED BY <1>1, <1>2, <1>3, <1>4 DEF UnitOK

(* The units of a message stand together, and all of them are there.        *)
LEMMA Body ==
    ASSUME NEW t \in Nat, NEW f, NEW g, NEW h, Chain(f, t, g, h),
           NEW i \in 0 .. t - 1, f[i].off = 0,
           NEW j \in Nat, j < Pad(f[i].len)
    PROVE  /\ i + j < t /\ f[i + j].off = j
           /\ f[i + j].id = f[i].id /\ f[i + j].len = f[i].len /\ f[i + j].kind = f[i].kind
<1> DEFINE Q(k) == /\ i + k < t /\ f[i + k].off = k
                   /\ f[i + k].id = f[i].id /\ f[i + k].len = f[i].len
                   /\ f[i + k].kind = f[i].kind
           T == {k \in Nat : k < Pad(f[i].len) /\ ~Q(k)}
<1>1. ASSUME NEW m \in T, \A k \in T : m <= k PROVE FALSE
  <2>1. m \in Nat /\ m < Pad(f[i].len) /\ ~Q(m)
    OBVIOUS
  <2>2. Pad(f[i].len) \in Nat
    BY UnitFacts DEF Chain
  <2>3. m # 0
    <3>1. i + 0 = i
      OBVIOUS
    <3> QED BY <2>1, <3>1
  <2>4. PICK k \in Nat : k = m - 1
    BY <2>1, <2>3
  <2>5. Q(k)
    <3>1. k \notin T
      BY <1>1, <2>1, <2>4
    <3>2. k < Pad(f[i].len)
      BY <2>1, <2>2, <2>4
    <3> QED BY <3>1, <3>2
  <2>6. PICK p \in 0 .. t - 1 : p = i + k /\ p + 1 = i + m
    BY <2>4, <2>5
  <2>7. f[p].off = k /\ f[p].id = f[i].id /\ f[p].len = f[i].len /\ f[p].kind = f[i].kind
    BY <2>5, <2>6
  <2>8. f[p].off + 1 < Pad(f[p].len)
    BY <2>1, <2>4, <2>7
  <2>9. p # t - 1
    <3>1. f[t - 1].off + 1 = Pad(f[t - 1].len)
      BY DEF Chain
    <3> QED BY <2>2, <2>7, <2>8, <3>1
  <2>10. Linked(f[p], f[p + 1])
    BY <2>9 DEF Chain
  <2>11. f[p + 1].off = k + 1 /\ f[p + 1].id = f[i].id /\ f[p + 1].len = f[i].len
         /\ f[p + 1].kind = f[i].kind
    BY <2>7, <2>8, <2>10 DEF Linked
  <2>12. k + 1 = m /\ i + m < t
    BY <2>4, <2>6, <2>9
  <2> QED BY <2>1, <2>6, <2>11, <2>12
<1>2. T = {}
  <2>1. T \in SUBSET Nat
    OBVIOUS
  <2> HIDE DEF T
  <2> QED BY <1>1, <2>1, Smallest
<1> QED BY <1>2

(* Behind it the next message starts, with the next id.                     *)
LEMMA NextStart ==
    ASSUME NEW t \in Nat, NEW f, NEW g, NEW h, Chain(f, t, g, h),
           NEW i \in 0 .. t - 1, f[i].off = 0
    PROVE  \E e \in 1 .. t : /\ e = i + Pad(f[i].len) /\ Starts(f, t, e)
                             /\ IF e < t THEN f[e].id = After(f[i]) ELSE h = After(f[i])
<1>1. f[i] \in Cell /\ UnitOK(f[i])
  BY DEF Chain
<1>2. PICK s \in Nat : s = Pad(f[i].len) /\ s >= HDR
  BY <1>1, UnitFacts
<1>3. PICK j \in Nat : j + 1 = s
  BY <1>2 DEF HDR
<1>4. PICK p \in 0 .. t - 1 : p = i + j /\ p + 1 = i + s
  BY <1>2, <1>3, Body
<1>5. f[p].off = j /\ f[p].id = f[i].id /\ f[p].len = f[i].len /\ f[p].kind = f[i].kind
  BY <1>2, <1>3, <1>4, Body
<1>6. After(f[p]) = After(f[i])
  BY <1>5 DEF After
<1>7. ~(f[p].off + 1 < Pad(f[p].len))
  BY <1>2, <1>3, <1>5
<1>8. CASE p = t - 1
  <2>1. After(f[p]) = h
    BY <1>8 DEF Chain
  <2>2. p + 1 = t
    BY <1>8
  <2> QED BY <1>2, <1>4, <1>6, <2>1, <2>2 DEF Starts
<1>9. CASE p # t - 1
  <2>1. p \in 0 .. t - 2
    BY <1>9
  <2>2. Linked(f[p], f[p + 1])
    BY <2>1 DEF Chain
  <2>3. f[p + 1].off = 0 /\ f[p + 1].id = After(f[i])
    BY <1>6, <1>7, <2>2 DEF Linked
  <2>4. p + 1 \in 1 .. t /\ p + 1 < t
    BY <2>1
  <2> QED BY <1>2, <1>4, <2>3, <2>4 DEF Starts
<1> QED BY <1>8, <1>9

(* No message starts inside another.                                        *)
LEMMA Apart ==
    ASSUME NEW t \in Nat, NEW f, NEW g, NEW h, Chain(f, t, g, h),
           NEW i \in 0 .. t - 1, f[i].off = 0,
           NEW m \in 0 .. t, Starts(f, t, m), i < m
    PROVE  i + Pad(f[i].len) <= m
<1>1. Pad(f[i].len) \in Nat
  BY UnitFacts DEF Chain
<1>2. SUFFICES ASSUME m < i + Pad(f[i].len) PROVE FALSE
  BY <1>1
<1>3. PICK j \in Nat : m = i + j
  <2>1. m - i \in Nat /\ m = i + (m - i)
    OBVIOUS
  <2> QED BY <2>1
<1>4. j < Pad(f[i].len) /\ j # 0
  BY <1>1, <1>2, <1>3
<1>5. m < t /\ f[m].off = j
  BY <1>3, <1>4, Body
<1> QED BY <1>4, <1>5 DEF Starts

(* Heartbeats leave the id of the next message alone, and a message starts  *)
(* behind them.                                                             *)
LEMMA Heartbeats ==
    ASSUME NEW t \in Nat, NEW f, NEW g, NEW h, Chain(f, t, g, h),
           NEW d \in 0 .. t, \A i \in 0 .. d - 1 : f[i].kind = "hb",
           d = t \/ f[d].kind # "hb" \/ Starts(f, t, d)
    PROVE  Starts(f, t, d) /\ (IF d < t THEN f[d].id = g ELSE h = g)
<1> DEFINE Q(k) == IF k < t THEN f[k].id = g ELSE h = g
           T == {k \in 0 .. d : ~Q(k)}
<1>1. ASSUME NEW i \in 0 .. t - 1, f[i].kind = "hb", f[i].id = g
      PROVE  Q(i + 1) /\ (i + 1 < t /\ f[i + 1].kind # "hb" => f[i + 1].off = 0)
  <2>1. After(f[i]) = g
    BY <1>1 DEF After
  <2>2. CASE i = t - 1
    <3>1. After(f[i]) = h /\ ~(i + 1 < t)
      BY <2>2 DEF Chain
    <3> QED BY <2>1, <3>1
  <2>3. CASE i # t - 1
    <3>1. i \in 0 .. t - 2 /\ i + 1 < t
      BY <2>3
    <3>2. Linked(f[i], f[i + 1])
      BY <3>1 DEF Chain
    <3> QED BY <1>1, <2>1, <3>1, <3>2 DEF Linked
  <2> QED BY <2>2, <2>3
<1>2. ASSUME NEW m \in T, \A k \in T : m <= k PROVE FALSE
  <2>1. m \in 0 .. d /\ ~Q(m)
    OBVIOUS
  <2>2. m # 0
    BY <2>1 DEF Chain
  <2>3. PICK k \in 0 .. d - 1 : m = k + 1
    BY <2>1, <2>2
  <2>4. k \notin T /\ k \in 0 .. d /\ k < t
    BY <1>2, <2>1, <2>3
  <2>5. f[k].id = g /\ f[k].kind = "hb"
    BY <2>3, <2>4
  <2> QED BY <1>1, <2>1, <2>3, <2>4, <2>5
<1>3. T = {}
  <2>1. T \in SUBSET Nat
    OBVIOUS
  <2> HIDE DEF T
  <2> QED BY <1>2, <2>1, Smallest
<1>4. Q(d)
  BY <1>3
<1>5. d < t => f[d].off = 0
  <2>1. CASE d = 0
    BY <2>1 DEF Chain
  <2>2. CASE d # 0
    <3>1. PICK k \in 0 .. d - 1 : d = k + 1
      BY <2>2
    <3>2. k \in 0 .. d /\ k < t
      BY <3>1
    <3>3. f[k].id = g /\ f[k].kind = "hb"
      BY <1>3, <3>1, <3>2
    <3> QED BY <1>1, <3>1, <3>2, <3>3 DEF Starts
  <2> QED BY <2>1, <2>2
<1> QED BY <1>4, <1>5 DEF Starts

(* What is left of the stream when its first messages are gone.             *)
LEMMA DropChain ==
    ASSUME NEW t \in Nat, NEW f, NEW g, NEW h, Chain(f, t, g, h),
           NEW d \in 0 .. t, Starts(f, t, d),
           NEW i, IF d < t THEN f[d].id = i ELSE h = i,
           NEW u \in Nat, u + d = t,
           NEW e, \A k \in 0 .. u - 1 : e[k] = f[k + d]
    PROVE  Chain(e, u, i, h)
<1>1. ASSUME NEW k \in 0 .. u - 1 PROVE e[k] \in Cell /\ UnitOK(e[k])
  <2>1. k + d \in 0 .. t - 1
    OBVIOUS
  <2>2. f[k + d] \in Cell /\ UnitOK(f[k + d])
    BY <2>1 DEF Chain
  <2> QED BY <2>2
<1>2. ASSUME NEW k \in 0 .. u - 2 PROVE Linked(e[k], e[k + 1])
  <2>1. PICK p \in 0 .. t - 2 : p = k + d /\ p + 1 = (k + 1) + d
    OBVIOUS
  <2>2. Linked(f[p], f[p + 1])
    BY DEF Chain
  <2>3. e[k] = f[p] /\ e[k + 1] = f[p + 1]
    BY <2>1
  <2> QED BY <2>2, <2>3
<1>3. CASE u > 0
  <2>1. d < t /\ 0 \in 0 .. u - 1 /\ 0 + d = d
    BY <1>3
  <2>2. e[0] = f[d]
    BY <2>1
  <2>3. f[d].off = 0 /\ f[d].id = i
    BY <2>1 DEF Starts
  <2>4. u - 1 \in 0 .. u - 1 /\ (u - 1) + d = t - 1 /\ t > 0
    BY <1>3
  <2>5. e[u - 1] = f[t - 1]
    BY <2>4
  <2>6. f[t - 1].off + 1 = Pad(f[t - 1].len) /\ After(f[t - 1]) = h
    BY <2>4 DEF Chain
  <2> QED BY <1>1, <1>2, <1>3, <2>2, <2>3, <2>5, <2>6 DEF Chain
<1>4. CASE u = 0
  <2>1. i = h
    BY <1>4
  <2> QED BY <1>1, <1>2, <1>4, <2>1 DEF Chain
<1> QED BY <1>3, <1>4

LEMMA DropParsed ==
    ASSUME NEW t \in Nat, NEW f, NEW v, NEW m, NEW c, ParsedTo(f, t, v, m, c),
           NEW d \in 0 .. m,
           NEW u \in Nat, u + d = t, NEW w \in Nat, w + d = v, NEW n \in Nat, n + d = m,
           NEW e, \A k \in 0 .. u - 1 : e[k] = f[k + d]
    PROVE  ParsedTo(e, u, w, n, c)
<1>1. v \in 0 .. t /\ m \in 0 .. v
  BY DEF ParsedTo
<1>2. w \in 0 .. u /\ n \in 0 .. w /\ v - m = w - n
  BY <1>1
<1>3. ASSUME n < u PROVE e[n] = f[m] /\ m < t
  <2>1. n \in 0 .. u - 1
    BY <1>3
  <2> QED BY <1>1, <2>1
<1>4. Starts(e, u, n)
  BY <1>2, <1>3 DEF ParsedTo, Starts
<1>5. n < w => n < u /\ m < v
  BY <1>1, <1>2
<1>6. n < w => w - n < Pad(e[n].len)
  BY <1>2, <1>3, <1>5 DEF ParsedTo
<1>7. w - n >= HDR => n < u
  BY <1>2 DEF HDR
<1>8. c <=> w - n >= HDR /\ Pad(e[n].len) > TcpRecvBufMaxSize
  BY <1>2, <1>3, <1>7 DEF ParsedTo
<1>9. ASSUME NEW k \in 0 .. u - 1
      PROVE  e[k].order = "host" <=> e[k].off = 0 /\ w - k >= HDR
  <2>1. PICK p \in 0 .. t - 1 : p = k + d
    OBVIOUS
  <2>2. e[k] = f[p] /\ w - k = v - p
    BY <1>1, <2>1
  <2> QED BY <2>2 DEF ParsedTo
<1> QED BY <1>2, <1>4, <1>6, <1>8, <1>9 DEF ParsedTo

-----------------------------------------------------------------------------
(* The buffer. *)

LEMMA BufFacts ==
    ASSUME NEW x, BufType(x)
    PROVE  /\ x.size \in Nat /\ x.w \in Nat /\ x.n \in Nat /\ x.r \in Nat
           /\ x.buf \in [0 .. TcpRecvBufMaxSize - 1 -> Cell] /\ TcpRecvBufMaxSize \in Nat
           /\ x.r <= x.n /\ x.n <= x.w /\ x.w <= x.size
           /\ HDR <= x.size /\ x.size <= TcpRecvBufMaxSize /\ x.size % HDR = 0
           /\ Held(x) \in Nat /\ x.n - x.r \in 0 .. Held(x)
BY BufAssumption DEF BufType, Held

LEMMA MakeBuf ==
    ASSUME NEW buf \in [0 .. TcpRecvBufMaxSize - 1 -> Cell],
           NEW size \in Nat, NEW w \in Nat, NEW n \in Nat, NEW r \in Nat,
           r <= n, n <= w, w <= size,
           HDR <= size, size <= TcpRecvBufMaxSize, size % HDR = 0
    PROVE  BufType([buf |-> buf, size |-> size, w |-> w, n |-> n, r |-> r])
BY DEF BufType

LEMMA SetR ==
    ASSUME NEW x, BufType(x), NEW r \in 0 .. x.n
    PROVE  LET y == [x EXCEPT !.r = r]
           IN BufType(y) /\ y.buf = x.buf /\ y.size = x.size /\ y.w = x.w /\ y.n = x.n /\ y.r = r
BY BufFacts DEF BufType

LEMMA SetBuf ==
    ASSUME NEW x, BufType(x), NEW buf \in [0 .. TcpRecvBufMaxSize - 1 -> Cell]
    PROVE  LET y == [x EXCEPT !.buf = buf]
           IN BufType(y) /\ y.buf = buf /\ y.size = x.size /\ y.w = x.w /\ y.n = x.n /\ y.r = x.r
BY BufFacts DEF BufType

LEMMA TotalType ==
    ASSUME NEW x, BufType(x), NEW s \in Seq(Cell)
    PROVE  /\ Len(s) \in Nat /\ Total(x, s) \in Nat /\ Held(x) \in 0 .. Total(x, s)
           /\ \A k \in 0 .. Total(x, s) - 1 :
                Str(x, s)[k] = IF k < Held(x) THEN x.buf[x.r + k] ELSE s[k - Held(x) + 1]
<1>1. Len(s) \in Nat
  BY LenProperties
<1>2. Held(x) \in Nat
  BY BufFacts
<1> QED BY <1>1, <1>2 DEF Total, Str

(* What the indices and cells outside readidx_ .. writeidx_ - 1 are does    *)
(* not matter.                                                              *)
LEMMA SameStream ==
    ASSUME NEW x, NEW s, NEW g, NEW h, NEW c, Holds(x, s, g, h, c),
           NEW y, BufType(y), NEW s2 \in Seq(Cell),
           Held(y) = Held(x), y.n - y.r = x.n - x.r, Total(y, s2) = Total(x, s),
           \A k \in 0 .. Total(x, s) - 1 : Str(y, s2)[k] = Str(x, s)[k]
    PROVE  Holds(y, s2, g, h, c)
<1>1. Str(y, s2) = Str(x, s)
  BY DEF Str
<1> QED BY <1>1 DEF Holds

LEMMA LiveHolds ==
    ASSUME NEW x, NEW s, NEW g, NEW h, NEW c, Holds(x, s, g, h, c)
    PROVE  /\ Holds(Live(x), s, g, h, c)
           /\ Live(x).n = x.n /\ Live(x).r = x.r /\ (Ready(x) => Ready(Live(x)))
<1>0. BufType(x) /\ s \in Seq(Cell)
  BY DEF Holds
<1> DEFINE buf == [i \in DOMAIN x.buf |-> IF i \in x.r .. x.w - 1 THEN x.buf[i] ELSE Junk]
<1>1. buf \in [0 .. TcpRecvBufMaxSize - 1 -> Cell]
  <2>1. Junk \in Cell
    BY BufAssumption DEF Junk, Cell, HDR
  <2> QED BY <1>0, <2>1, BufFacts
<1>2. ASSUME NEW i \in x.r .. x.w - 1 PROVE buf[i] = x.buf[i]
  BY <1>0, BufFacts
<1> HIDE DEF buf
<1>3. Live(x) = [x EXCEPT !.buf = buf]
  BY DEF Live, buf
<1> DEFINE y == Live(x)
<1>4. BufType(y) /\ y.buf = buf /\ y.size = x.size /\ y.w = x.w /\ y.n = x.n /\ y.r = x.r
  BY <1>0, <1>1, <1>3, SetBuf
<1> HIDE DEF y
<1>5. Held(y) = Held(x) /\ Total(y, s) = Total(x, s) /\ y.n - y.r = x.n - x.r
  BY <1>4 DEF Held, Total
<1>6. ASSUME NEW k \in 0 .. Total(x, s) - 1 PROVE Str(y, s)[k] = Str(x, s)[k]
  <2>1. Str(y, s)[k] = IF k < Held(x) THEN buf[x.r + k] ELSE s[k - Held(x) + 1]
    BY <1>0, <1>4, <1>5, TotalType
  <2>2. Str(x, s)[k] = IF k < Held(x) THEN x.buf[x.r + k] ELSE s[k - Held(x) + 1]
    BY <1>0, TotalType
  <2>3. k < Held(x) => x.r + k \in x.r .. x.w - 1
    BY <1>0, TotalType, BufFacts DEF Held
  <2> QED BY <1>2, <2>1, <2>2, <2>3
<1>7. Holds(y, s, g, h, c)
  BY <1>0, <1>4, <1>5, <1>6, SameStream
<1>8. Ready(x) => Ready(y)
  <2>1. x.r # x.n => x.r \in x.r .. x.w - 1
    BY <1>0, BufFacts
  <2> QED BY <1>2, <1>4, <2>1 DEF Ready
<1> QED BY <1>4, <1>7, <1>8 DEF y

(* readidx_ moves to where a message starts.                                *)
LEMMA Dropped ==
    ASSUME NEW x, NEW s, NEW g, NEW h, NEW c, Holds(x, s, g, h, c),
           NEW d \in 0 .. x.n - x.r, Starts(Str(x, s), Total(x, s), d),
           NEW i, IF d < Total(x, s) THEN Str(x, s)[d].id = i ELSE h = i
    PROVE  \E y : /\ y = [x EXCEPT !.r = x.r + d] /\ Holds(y, s, i, h, c)
                  /\ y.buf = x.buf /\ y.n = x.n /\ y.r = x.r + d
<1>0. BufType(x) /\ s \in Seq(Cell)
  BY DEF Holds
<1>i. /\ x.r \in Nat /\ x.n \in Nat /\ x.w \in Nat /\ x.r <= x.n /\ x.n <= x.w
      /\ d \in Nat /\ d <= x.n - x.r
  BY <1>0, BufFacts
<1>1. PICK r \in 0 .. x.n : r = x.r + d
  <2>1. x.r + d \in 0 .. x.n
    BY <1>i
  <2> QED BY <2>1
<1>2. PICK y : /\ y = [x EXCEPT !.r = r] /\ BufType(y)
               /\ y.buf = x.buf /\ y.size = x.size /\ y.w = x.w /\ y.n = x.n /\ y.r = r
  BY <1>0, SetR
<1>3. PICK t \in Nat : t = Total(x, s)
  BY <1>0, TotalType
<1>4. PICK v \in Nat : v = Held(x) /\ v <= t /\ v = x.w - x.r /\ d <= v
  BY <1>0, <1>3, TotalType, BufFacts DEF Held
<1>5. Len(s) \in Nat /\ t = v + Len(s)
  BY <1>0, <1>3, <1>4, TotalType DEF Total
<1>6. PICK u \in Nat : u = Total(y, s) /\ u + d = t
  <2>1. Total(y, s) = t - d
    BY <1>i, <1>1, <1>2, <1>4, <1>5 DEF Total, Held
  <2>2. t - d \in Nat /\ (t - d) + d = t
    BY <1>4, <1>5
  <2> QED BY <2>1, <2>2
<1>7. PICK w \in Nat : w = Held(y) /\ w + d = v
  <2>1. Held(y) = v - d
    BY <1>i, <1>1, <1>2, <1>4 DEF Held
  <2>2. v - d \in Nat /\ (v - d) + d = v
    BY <1>4
  <2> QED BY <2>1, <2>2
<1>8. PICK n \in Nat : n = y.n - y.r /\ n + d = x.n - x.r
  <2>1. y.n - y.r \in Nat /\ (y.n - y.r) + d = x.n - x.r
    BY <1>i, <1>1, <1>2
  <2> QED BY <2>1
<1>9. ASSUME NEW k \in 0 .. u - 1 PROVE Str(y, s)[k] = Str(x, s)[k + d]
  <2>1. Str(y, s)[k] = IF k < w THEN x.buf[r + k] ELSE s[k - w + 1]
    BY <1>0, <1>2, <1>6, <1>7, TotalType
  <2>2. PICK p \in 0 .. t - 1 : p = k + d
    BY <1>6
  <2>3. Str(x, s)[p] = IF p < v THEN x.buf[x.r + p] ELSE s[p - v + 1]
    BY <1>0, <1>3, <1>4, TotalType
  <2>4. (k < w <=> p < v) /\ r + k = x.r + p /\ k - w + 1 = p - v + 1
    BY <1>i, <1>1, <1>4, <1>6, <1>7, <2>2
  <2> QED BY <2>1, <2>2, <2>3, <2>4
<1>10. Chain(Str(x, s), t, g, h) /\ ParsedTo(Str(x, s), t, v, x.n - x.r, c)
  BY <1>3, <1>4 DEF Holds
<1>11. d \in 0 .. t /\ Starts(Str(x, s), t, d)
       /\ IF d < t THEN Str(x, s)[d].id = i ELSE h = i
  BY <1>3, <1>4
<1>12. Chain(Str(y, s), u, i, h)
  BY <1>6, <1>9, <1>10, <1>11, DropChain
<1>13. ParsedTo(Str(y, s), u, w, n, c)
  BY <1>6, <1>7, <1>8, <1>9, <1>10, DropParsed
<1>14. Holds(y, s, i, h, c)
  BY <1>0, <1>2, <1>6, <1>7, <1>8, <1>12, <1>13 DEF Holds
<1> QED BY <1>1, <1>2, <1>14

LEMMA FirstMsgIs ==
    ASSUME NEW buf, NEW n \in Nat, NEW i \in 0 .. n
    PROVE  /\ FirstMsg(buf, i, n) \in i .. n
           /\ FirstMsg(buf, i, n) # n => buf[FirstMsg(buf, i, n)].kind # "hb"
           /\ \A k \in i .. FirstMsg(buf, i, n) - 1 : buf[k].kind = "hb"
<1> DEFINE S == {k \in i .. n : k = n \/ buf[k].kind # "hb"}
<1>1. S \in SUBSET Nat /\ n \in S
  OBVIOUS
<1>2. FirstMsg(buf, i, n) = Min(S)
  BY DEF FirstMsg
<1>3. Min(S) \in S /\ \A k \in S : Min(S) <= k
  <2> HIDE DEF S
  <2> QED BY <1>1, MinIs
<1>4. ASSUME NEW k \in i .. Min(S) - 1 PROVE buf[k].kind = "hb"
  <2>1. Min(S) \in i .. n
    BY <1>3
  <2>2. k \in i .. n /\ ~(Min(S) <= k)
    BY <2>1
  <2>3. k \notin S
    BY <1>3, <2>2
  <2> QED BY <2>2, <2>3
<1> QED BY <1>2, <1>3, <1>4

(* SkipHB consumes heartbeats and nothing else.                             *)
LEMMA SkipHolds ==
    ASSUME NEW x, NEW s, NEW g, NEW h, NEW c, Holds(x, s, g, h, c)
    PROVE  Holds(SkipHB(x), s, g, h, c) /\ Ready(SkipHB(x)) /\ SkipHB(x).n = x.n
<1>0. BufType(x) /\ s \in Seq(Cell)
  BY DEF Holds
<1>1. PICK t \in Nat : t = Total(x, s)
  BY <1>0, TotalType
<1>2. PICK q \in x.r .. x.n :
        /\ q = FirstMsg(x.buf, x.r, x.n) /\ (q # x.n => x.buf[q].kind # "hb")
        /\ \A k \in x.r .. q - 1 : x.buf[k].kind = "hb"
  <2>1. PICK n \in Nat : n = x.n
    BY <1>0, BufFacts
  <2>2. PICK i \in 0 .. n : i = x.r
    BY <1>0, <2>1, BufFacts
  <2>3. PICK p : p = FirstMsg(x.buf, i, n)
    OBVIOUS
  <2>4. p \in i .. n /\ (p # n => x.buf[p].kind # "hb")
        /\ \A k \in i .. p - 1 : x.buf[k].kind = "hb"
    BY <2>3, FirstMsgIs
  <2> QED BY <2>1, <2>2, <2>3, <2>4
<1>3. PICK d \in 0 .. x.n - x.r : q = x.r + d
  <2>1. q - x.r \in 0 .. x.n - x.r /\ q = x.r + (q - x.r)
    BY <1>0, BufFacts
  <2> QED BY <2>1
<1>4. ASSUME NEW k \in 0 .. d, k < Held(x) PROVE Str(x, s)[k] = x.buf[x.r + k]
  BY <1>0, <1>1, <1>4, TotalType
<1>5. d \in 0 .. t /\ d <= Held(x)
  BY <1>0, <1>1, TotalType, BufFacts
<1>6. ASSUME NEW k \in 0 .. d - 1 PROVE Str(x, s)[k].kind = "hb"
  <2>1. k \in 0 .. d /\ k < Held(x) /\ x.r + k \in x.r .. q - 1
    BY <1>0, <1>3, <1>5, BufFacts
  <2> QED BY <1>2, <1>4, <2>1
<1>7. d = t \/ Str(x, s)[d].kind # "hb" \/ Starts(Str(x, s), t, d)
  <2>1. CASE q = x.n
    <3>1. d = x.n - x.r
      BY <1>0, <1>3, <2>1, BufFacts
    <3> QED BY <1>1, <3>1 DEF Holds, ParsedTo
  <2>2. CASE q # x.n
    <3>1. d < Held(x) /\ d \in 0 .. d
      BY <1>0, <1>3, <2>2, BufFacts DEF Held
    <3>2. Str(x, s)[d] = x.buf[q]
      BY <1>3, <1>4, <3>1
    <3> QED BY <1>2, <2>2, <3>2
  <2> QED BY <2>1, <2>2
<1>8. Chain(Str(x, s), t, g, h)
  BY <1>1 DEF Holds
<1>9. Starts(Str(x, s), t, d) /\ (IF d < t THEN Str(x, s)[d].id = g ELSE h = g)
  BY <1>5, <1>6, <1>7, <1>8, Heartbeats
<1>10. PICK y : /\ y = [x EXCEPT !.r = x.r + d] /\ Holds(y, s, g, h, c)
                /\ y.buf = x.buf /\ y.n = x.n /\ y.r = x.r + d
  BY <1>1, <1>9, Dropped
<1>11. SkipHB(x) = y
  BY <1>2, <1>3, <1>10 DEF SkipHB
<1>12. Ready(y)
  BY <1>2, <1>3, <1>10 DEF Ready
<1> QED BY <1>10, <1>11, <1>12

(* An empty buffer starts again at its beginning.                           *)
LEMMA RewoundHolds ==
    ASSUME NEW x, NEW s, NEW g, NEW h, NEW c, Holds(x, s, g, h, c), Ready(x)
    PROVE  LET y == Rewound(x)
           IN /\ Holds(y, s, g, h, c) /\ Ready(y) /\ (y.r = y.n <=> x.r = x.n)
              /\ y.size = x.size
<1>0. BufType(x) /\ s \in Seq(Cell)
  BY DEF Holds
<1>1. CASE x.r > 0 /\ x.r = x.w
  <2> DEFINE y == [buf |-> x.buf, size |-> x.size, w |-> 0, n |-> 0, r |-> 0]
  <2>1. Rewound(x) = y
    BY <1>1 DEF Rewound
  <2>2. BufType(y)
    <3>1. x.buf \in [0 .. TcpRecvBufMaxSize - 1 -> Cell] /\ x.size \in Nat /\ HDR <= x.size
          /\ x.size <= TcpRecvBufMaxSize /\ x.size % HDR = 0 /\ 0 <= x.size
      BY <1>0, BufFacts
    <3>2. 0 \in Nat /\ 0 <= 0
      OBVIOUS
    <3> QED BY <3>1, <3>2, MakeBuf
  <2>3. Held(x) = 0 /\ Held(y) = 0 /\ x.n = x.r /\ y.n = 0 /\ y.r = 0
    BY <1>0, <1>1, BufFacts DEF Held
  <2>4. y.size = x.size
    OBVIOUS
  <2> HIDE DEF y
  <2>5. Total(y, s) = Total(x, s) /\ y.n - y.r = x.n - x.r
    BY <1>0, <2>3, BufFacts DEF Total
  <2>6. ASSUME NEW k \in 0 .. Total(x, s) - 1 PROVE Str(y, s)[k] = Str(x, s)[k]
    BY <1>0, <2>2, <2>3, <2>5, TotalType
  <2>7. Holds(y, s, g, h, c)
    BY <1>0, <2>2, <2>3, <2>5, <2>6, SameStream
  <2> QED BY <2>1, <2>3, <2>4, <2>7 DEF Ready
<1>2. CASE ~(x.r > 0 /\ x.r = x.w)
  BY <1>2 DEF Rewound
<1> QED BY <1>1, <1>2

-----------------------------------------------------------------------------
(* DoRecv. *)

LEMMA ExtraBounds ==
    ASSUME NEW x, BufType(x)
    PROVE  /\ Writable(x) \in Nat /\ Extra(x) \in Nat
           /\ Extra(x) <= x.r + (TcpRecvBufMaxSize - x.size)
           /\ x.r > 0 => Extra(x) > 0
           /\ 2 * (Writable(x) + x.r) < x.size /\ x.size < TcpRecvBufMaxSize => Extra(x) > 0
<1>1. x.size \in Nat /\ x.w \in Nat /\ x.r \in Nat /\ x.w <= x.size
      /\ x.size <= TcpRecvBufMaxSize /\ TcpRecvBufMaxSize \in Nat
  BY BufFacts
<1>2. Writable(x) \in Nat
  BY <1>1 DEF Writable
<1>3. PICK j \in Nat : /\ Extra(x) = Min({StackBuf, x.r + j})
                       /\ j = IF 2 * (Writable(x) + x.r) < x.size
                              THEN TcpRecvBufMaxSize - x.size ELSE 0
  <2>1. PICK j : j = IF 2 * (Writable(x) + x.r) < x.size
                     THEN TcpRecvBufMaxSize - x.size ELSE 0
    OBVIOUS
  <2>2. j \in Nat
    BY <1>1, <2>1
  <2>3. Extra(x) = Min({StackBuf, x.r + j})
    BY <2>1 DEF Extra
  <2> QED BY <2>1, <2>2, <2>3
<1>4. StackBuf \in Nat /\ StackBuf > 0 /\ x.r + j \in Nat
  BY <1>1, BufAssumption
<1>5. Extra(x) = IF StackBuf <= x.r + j THEN StackBuf ELSE x.r + j
  BY <1>3, <1>4, MinOfTwo
<1> QED BY <1>1, <1>2, <1>3, <1>4, <1>5

(* "newbufsize must be large enough to hold all data just read": it is.     *)
LEMMA NewSizeBounds ==
    ASSUME NEW x, BufType(x), NEW k \in Nat, k <= Writable(x) + Extra(x)
    PROVE  /\ NewSize(x, k) \in Nat /\ x.w - x.r + k <= NewSize(x, k)
           /\ HDR <= NewSize(x, k) /\ NewSize(x, k) <= TcpRecvBufMaxSize
           /\ NewSize(x, k) % HDR = 0
<1>1. /\ x.size \in Nat /\ x.w \in Nat /\ x.r \in Nat /\ x.r <= x.w /\ x.w <= x.size
      /\ HDR <= x.size /\ x.size <= TcpRecvBufMaxSize /\ TcpRecvBufMaxSize \in Nat
      /\ x.size % HDR = 0 /\ TcpRecvBufMaxSize % HDR = 0
  BY BufFacts, BufAssumption
<1>2. CASE k <= Writable(x) + x.r
  BY <1>1, <1>2 DEF NewSize, Writable
<1>3. CASE ~(k <= Writable(x) + x.r)
  <2>1. PICK p \in Nat : p = x.w - x.r + k
    BY <1>1
  <2>2. Pad(p) \in Nat /\ Pad(p) >= p /\ Pad(p) % HDR = 0
    BY PadBounds
  <2>3. p <= TcpRecvBufMaxSize
    <3>1. /\ Writable(x) = x.size - x.w /\ Extra(x) \in Nat
          /\ Extra(x) <= x.r + (TcpRecvBufMaxSize - x.size)
      BY ExtraBounds DEF Writable
    <3> QED BY <1>1, <2>1, <3>1
  <2>4. PICK q \in Nat : /\ q = Max({2 * x.size, Pad(p)})
                         /\ q = IF 2 * x.size >= Pad(p) THEN 2 * x.size ELSE Pad(p)
    <3>1. 2 * x.size \in Int /\ 2 * x.size \in Nat /\ Pad(p) \in Int
      BY <1>1, <2>2
    <3> QED BY <2>2, <3>1, MaxOfTwo
  <2>5. q >= p /\ q >= HDR /\ q % HDR = 0
    <3>1. (2 * x.size) % HDR = 0 /\ 2 * x.size >= HDR
      BY <1>1 DEF HDR
    <3> QED BY <1>1, <2>2, <2>4, <3>1 DEF HDR
  <2>6. NewSize(x, k) = Min({TcpRecvBufMaxSize, q})
    BY <1>3, <2>1, <2>4 DEF NewSize
  <2>7. NewSize(x, k) = IF TcpRecvBufMaxSize <= q THEN TcpRecvBufMaxSize ELSE q
    BY <1>1, <2>6, MinOfTwo
  <2>8. NewSize(x, k) = TcpRecvBufMaxSize \/ (NewSize(x, k) = q /\ q <= TcpRecvBufMaxSize)
    <3>1. TcpRecvBufMaxSize \in Nat /\ q \in Nat
      BY <1>1
    <3>2. CASE TcpRecvBufMaxSize <= q
      BY ONLY <2>7, <3>2
    <3>3. CASE ~(TcpRecvBufMaxSize <= q)
      BY ONLY <2>7, <3>1, <3>3
    <3> QED BY ONLY <3>2, <3>3
  <2>9. HDR <= TcpRecvBufMaxSize
    BY <1>1 DEF HDR
  <2> QED BY <1>1, <2>1, <2>3, <2>5, <2>8, <2>9
<1> QED BY <1>2, <1>3

LEMMA Parts ==
    ASSUME NEW s \in Seq(Cell), NEW len \in 1 .. Len(s)
    PROVE  /\ SubSeq(s, 1, len) \in Seq(Cell) /\ Len(SubSeq(s, 1, len)) = len
           /\ \A i \in 1 .. len : SubSeq(s, 1, len)[i] = s[i] /\ s[i] \in Cell
           /\ SubSeq(s, len + 1, Len(s)) \in Seq(Cell)
           /\ Len(SubSeq(s, len + 1, Len(s))) = Len(s) - len
           /\ \A i \in 1 .. Len(s) - len : SubSeq(s, len + 1, Len(s))[i] = s[i + len]
<1>1. Len(s) \in Nat /\ \A i \in 1 .. Len(s) : s[i] \in Cell
  BY LenProperties, ElementOfSeq
<1> QED BY <1>1

\* y with the units that Received has put behind its writeidx_.
Filled(y, len) ==
    [buf |-> y.buf, size |-> y.size, w |-> y.w + len, n |-> y.n, r |-> y.r]

(* What is in the buffer when there is room behind writeidx_.               *)
LEMMA ReceivedInPlace ==
    ASSUME NEW x, BufType(x), NEW s \in Seq(Cell), NEW len \in 1 .. Len(s),
           len <= Writable(x)
    PROVE  LET y == Received(x, SubSeq(s, 1, len))
           IN /\ BufType(y) /\ BufType(Filled(y, len))
              /\ y.w = x.w /\ y.n = x.n /\ y.r = x.r
              /\ \A k \in 0 .. Held(x) + len - 1 :
                   y.buf[y.r + k] = IF k < Held(x) THEN x.buf[x.r + k] ELSE s[k - Held(x) + 1]
<1>1. /\ x.size \in Nat /\ x.w \in Nat /\ x.r \in Nat /\ x.n \in Nat /\ len \in Nat /\ len > 0
      /\ x.r <= x.n /\ x.n <= x.w /\ x.w <= x.size /\ TcpRecvBufMaxSize \in Nat
      /\ HDR <= x.size /\ x.size <= TcpRecvBufMaxSize
      /\ x.buf \in [0 .. TcpRecvBufMaxSize - 1 -> Cell]
  BY BufFacts
<1>2. x.w + len \in Nat /\ x.w + len <= x.size
  BY <1>1 DEF Writable
<1> DEFINE data == SubSeq(s, 1, len)
           buf == [i \in DOMAIN x.buf |-> IF i \in x.w .. x.w + len - 1
                                          THEN data[i - x.w + 1] ELSE x.buf[i]]
<1>3. Len(data) = len /\ \A i \in 1 .. len : data[i] = s[i] /\ s[i] \in Cell
  BY Parts
<1> HIDE DEF data
<1>4. DOMAIN x.buf = 0 .. TcpRecvBufMaxSize - 1
  BY <1>1
<1>5. ASSUME NEW i \in 0 .. TcpRecvBufMaxSize - 1
      PROVE  /\ i \in x.w .. x.w + len - 1 => buf[i] = s[i - x.w + 1] /\ buf[i] \in Cell
             /\ i \notin x.w .. x.w + len - 1 => buf[i] = x.buf[i] /\ buf[i] \in Cell
  <2>1. CASE i \in x.w .. x.w + len - 1
    <3>1. i - x.w + 1 \in 1 .. len
      BY <1>1, <2>1
    <3>2. buf[i] = data[i - x.w + 1]
      BY <1>4, <2>1
    <3> QED BY <1>3, <2>1, <3>1, <3>2
  <2>2. CASE i \notin x.w .. x.w + len - 1
    <3>1. buf[i] = x.buf[i]
      BY <1>4, <2>2
    <3> QED BY <1>1, <2>2, <3>1
  <2> QED BY <2>1, <2>2
<1>6. buf \in [0 .. TcpRecvBufMaxSize - 1 -> Cell]
  <2>1. \A i \in 0 .. TcpRecvBufMaxSize - 1 : buf[i] \in Cell
    BY <1>5
  <2> QED BY <1>4, <2>1
<1>7. Received(x, data) = [x EXCEPT !.buf = buf]
  BY <1>3 DEF Received
<1> HIDE DEF buf
<1> DEFINE y == Received(x, data)
<1>8. BufType(y) /\ y.buf = buf /\ y.size = x.size /\ y.w = x.w /\ y.n = x.n /\ y.r = x.r
  BY <1>6, <1>7, SetBuf
<1> HIDE DEF y
<1>9. BufType(Filled(y, len))
  <2>1. y.n <= x.w + len
    BY <1>1, <1>8
  <2>2. BufType([buf |-> buf, size |-> x.size, w |-> x.w + len, n |-> x.n, r |-> x.r])
    BY <1>1, <1>2, <1>6, <1>8, <2>1, BufFacts, MakeBuf
  <2> QED BY <1>8, <2>2 DEF Filled
<1>10. ASSUME NEW k \in 0 .. Held(x) + len - 1
       PROVE  y.buf[y.r + k] = IF k < Held(x) THEN x.buf[x.r + k] ELSE s[k - Held(x) + 1]
  <2>1. Held(x) = x.w - x.r
    BY DEF Held
  <2>2. PICK i \in 0 .. TcpRecvBufMaxSize - 1 : i = x.r + k
    <3>1. x.r + k \in Nat /\ x.r + k < x.w + len
      BY <1>1, <2>1
    <3>2. x.r + k \in 0 .. TcpRecvBufMaxSize - 1
      BY <1>1, <1>2, <3>1
    <3> QED BY <3>2
  <2>3. CASE k < Held(x)
    <3>1. i \notin x.w .. x.w + len - 1
      BY <1>1, <2>1, <2>2, <2>3
    <3> QED BY <1>5, <1>8, <2>2, <2>3, <3>1
  <2>4. CASE ~(k < Held(x))
    <3>1. i \in x.w .. x.w + len - 1 /\ i - x.w + 1 = k - Held(x) + 1
      BY <1>1, <2>1, <2>2, <2>4
    <3> QED BY <1>5, <1>8, <2>2, <2>4, <3>1
  <2> QED BY <2>3, <2>4
<1> QED BY <1>8, <1>9, <1>10 DEF y, data

(* What is in it when the blocks have been moved to its front.              *)
LEMMA ReceivedMoved ==
    ASSUME NEW x, BufType(x), NEW s \in Seq(Cell), NEW len \in 1 .. Len(s),
           len > Writable(x), len <= Writable(x) + Extra(x)
    PROVE  LET y == Received(x, SubSeq(s, 1, len))
           IN /\ BufType(y) /\ BufType(Filled(y, len))
              /\ y.w = x.w - x.r /\ y.n = x.n - x.r /\ y.r = 0
              /\ \A k \in 0 .. Held(x) + len - 1 :
                   y.buf[y.r + k] = IF k < Held(x) THEN x.buf[x.r + k] ELSE s[k - Held(x) + 1]
<1>1. /\ x.size \in Nat /\ x.w \in Nat /\ x.r \in Nat /\ x.n \in Nat /\ len \in Nat /\ len > 0
      /\ x.r <= x.n /\ x.n <= x.w /\ x.w <= x.size /\ TcpRecvBufMaxSize \in Nat
      /\ HDR <= x.size /\ x.size <= TcpRecvBufMaxSize
      /\ x.buf \in [0 .. TcpRecvBufMaxSize - 1 -> Cell]
  BY BufFacts
<1>2. PICK size \in Nat : /\ size = NewSize(x, len) /\ x.w - x.r + len <= size
                          /\ HDR <= size /\ size <= TcpRecvBufMaxSize /\ size % HDR = 0
  BY <1>1, NewSizeBounds
<1>3. PICK w \in Nat : w = x.w - x.r
  BY <1>1
<1>4. PICK n \in Nat : n = x.n - x.r
  BY <1>1
<1> DEFINE data == SubSeq(s, 1, len)
           buf == Shifted(x, data)
<1>5. Len(data) = len /\ \A i \in 1 .. len : data[i] = s[i] /\ s[i] \in Cell
  BY Parts
<1> HIDE DEF data
<1>6. DOMAIN x.buf = 0 .. TcpRecvBufMaxSize - 1 /\ Junk \in Cell
  BY <1>1, BufAssumption DEF Junk, Cell, HDR
<1>7. ASSUME NEW i \in 0 .. TcpRecvBufMaxSize - 1
      PROVE  /\ buf[i] \in Cell
             /\ i < w => buf[i] = x.buf[i + x.r]
             /\ i >= w /\ i < w + len => buf[i] = s[i - w + 1]
  <2>1. buf[i] = IF i < x.size - x.r
                 THEN IF i + x.r < x.w THEN x.buf[i + x.r] ELSE data[i + x.r - x.w + 1]
                 ELSE IF i < (x.size - x.r) + len - (x.size - x.w)
                      THEN data[(x.size - x.w) + i - (x.size - x.r) + 1] ELSE Junk
    BY <1>5, <1>6 DEF Shifted, Writable
  <2>2. CASE i < w
    <3>1. i < x.size - x.r /\ i + x.r < x.w
      BY <1>1, <1>3, <2>2
    <3>2. buf[i] = x.buf[i + x.r]
      BY <2>1, <3>1
    <3>3. i + x.r \in 0 .. TcpRecvBufMaxSize - 1
      BY <1>1, <3>1
    <3> QED BY <1>1, <2>2, <3>2, <3>3
  <2>3. CASE i >= w /\ i < w + len
    <3>1. PICK j \in 1 .. len : j = i - w + 1
      BY <1>1, <1>3, <2>3
    <3>2. i + x.r - x.w + 1 = j /\ (x.size - x.w) + i - (x.size - x.r) + 1 = j
      <4>1. i \in Int /\ x.r \in Int /\ x.w \in Int /\ x.size \in Int /\ j = i - (x.w - x.r) + 1
        BY <1>1, <1>3, <3>1
      <4> QED BY ONLY <4>1
    <3>3. i < (x.size - x.r) + len - (x.size - x.w) /\ ~(i + x.r < x.w)
      BY <1>1, <1>3, <2>3
    <3>4. buf[i] = data[j]
      BY <2>1, <3>2, <3>3
    <3> QED BY <1>5, <2>3, <3>1, <3>4
  <2>4. CASE i >= w + len
    <3>1. ~(i < x.size - x.r) /\ ~(i < (x.size - x.r) + len - (x.size - x.w))
      BY <1>1, <1>3, <2>4 DEF Writable
    <3>2. buf[i] = Junk
      BY <2>1, <3>1
    <3> QED BY <1>1, <1>3, <1>6, <2>4, <3>2
  <2> QED BY <1>1, <1>3, <2>2, <2>3, <2>4
<1>8. buf \in [0 .. TcpRecvBufMaxSize - 1 -> Cell]
  <2>1. \A i \in 0 .. TcpRecvBufMaxSize - 1 : buf[i] \in Cell
    BY <1>7
  <2>2. buf = [i \in 0 .. TcpRecvBufMaxSize - 1 |-> buf[i]]
    BY <1>6 DEF Shifted
  <2> QED BY <2>1, <2>2
<1> HIDE DEF buf
<1> DEFINE y == Received(x, data)
<1>9. y = [buf |-> buf, size |-> size, w |-> w, n |-> n, r |-> 0]
  <2>1. Writable(x) \in Nat
    BY ExtraBounds
  <2>2. ~(Len(data) <= Writable(x))
    BY <1>1, <1>5, <2>1
  <2> QED BY <1>2, <1>3, <1>4, <1>5, <2>2 DEF Received, buf
<1>10. y.buf = buf /\ y.size = size /\ y.w = w /\ y.n = n /\ y.r = 0
  BY <1>9
<1>11. 0 <= n /\ n <= w /\ w <= size /\ w + len \in Nat /\ n <= w + len /\ w + len <= size
  BY <1>1, <1>2, <1>3, <1>4
<1>12. BufType(y)
  BY <1>2, <1>8, <1>9, <1>11, MakeBuf
<1>13. BufType(Filled(y, len))
  <2>1. BufType([buf |-> buf, size |-> size, w |-> w + len, n |-> n, r |-> 0])
    BY <1>2, <1>8, <1>11, MakeBuf
  <2> QED BY <1>10, <2>1 DEF Filled
<1> HIDE DEF y
<1>14. ASSUME NEW k \in 0 .. Held(x) + len - 1
       PROVE  y.buf[y.r + k] = IF k < Held(x) THEN x.buf[x.r + k] ELSE s[k - Held(x) + 1]
  <2>1. Held(x) = w /\ y.r + k = k /\ x.r + k = k + x.r
    BY <1>1, <1>3, <1>10 DEF Held
  <2>2. k \in 0 .. TcpRecvBufMaxSize - 1 /\ k < w + len
    <3>1. k \in 0 .. w + len - 1
      BY <2>1
    <3>2. w + len \in Nat /\ w + len <= TcpRecvBufMaxSize /\ TcpRecvBufMaxSize \in Nat
      BY <1>1, <1>2, <1>11
    <3> QED BY ONLY <3>1, <3>2
  <2> QED BY <1>7, <1>10, <2>1, <2>2
<1> QED BY <1>3, <1>4, <1>10, <1>12, <1>13, <1>14 DEF y, data

(* The units read leave the socket and come to stand behind those held.     *)
LEMMA ReceivedStream ==
    ASSUME NEW x, BufType(x), NEW s \in Seq(Cell), NEW len \in 1 .. Len(s),
           len <= Writable(x) + Extra(x)
    PROVE  \E y, z :
             /\ y = Received(x, SubSeq(s, 1, len)) /\ BufType(y)
             /\ z = Filled(y, len) /\ BufType(z)
             /\ Held(y) = Held(x) /\ Held(z) = Held(x) + len /\ y.n - y.r = x.n - x.r
             /\ Total(z, SubSeq(s, len + 1, Len(s))) = Total(x, s)
             /\ \A k \in 0 .. Total(x, s) - 1 :
                  Str(z, SubSeq(s, len + 1, Len(s)))[k] = Str(x, s)[k]
             /\ Ready(x) => Ready(y)
<1>1. /\ x.size \in Nat /\ x.w \in Nat /\ x.r \in Nat /\ x.n \in Nat /\ len \in Nat /\ len > 0
      /\ x.r <= x.n /\ x.n <= x.w
  BY BufFacts
<1>2. PICK y : /\ y = Received(x, SubSeq(s, 1, len)) /\ BufType(y) /\ BufType(Filled(y, len))
               /\ y.w - y.r = x.w - x.r /\ y.n - y.r = x.n - x.r
               /\ \A k \in 0 .. Held(x) + len - 1 :
                    y.buf[y.r + k] = IF k < Held(x) THEN x.buf[x.r + k]
                                     ELSE s[k - Held(x) + 1]
  <2>1. Writable(x) \in Nat
    BY ExtraBounds
  <2>2. CASE len <= Writable(x)
    BY <2>2, ReceivedInPlace
  <2>3. CASE len > Writable(x)
    <3>1. (x.w - x.r) - 0 = x.w - x.r /\ (x.n - x.r) - 0 = x.n - x.r
      BY <1>1
    <3> QED BY <2>3, <3>1, ReceivedMoved
  <2> QED BY <1>1, <2>1, <2>2, <2>3
<1>3. PICK z : /\ z = Filled(y, len) /\ BufType(z)
               /\ z.buf = y.buf /\ z.w = y.w + len /\ z.n = y.n /\ z.r = y.r
  BY <1>2 DEF Filled
<1>4. y.w \in Nat /\ y.n \in Nat /\ y.r \in Nat /\ y.r <= y.n /\ y.n <= y.w
  BY <1>2, BufFacts
<1>5. Held(y) = Held(x) /\ Held(z) = Held(x) + len /\ Held(x) \in Nat
  <2>1. Held(y) = Held(x) /\ Held(x) \in Nat
    BY <1>1, <1>2 DEF Held
  <2>2. Held(z) = (y.w - y.r) + len
    BY <1>1, <1>3, <1>4 DEF Held
  <2> QED BY <2>1, <2>2 DEF Held
<1>6. PICK rest : /\ rest = SubSeq(s, len + 1, Len(s)) /\ rest \in Seq(Cell)
                  /\ Len(rest) = Len(s) - len
                  /\ \A i \in 1 .. Len(s) - len : rest[i] = s[i + len]
  <2>1. PICK rest : rest = SubSeq(s, len + 1, Len(s))
    OBVIOUS
  <2>2. /\ rest \in Seq(Cell) /\ Len(rest) = Len(s) - len
        /\ \A i \in 1 .. Len(s) - len : rest[i] = s[i + len]
    BY <2>1, Parts
  <2> QED BY <2>1, <2>2
<1>7. Len(s) \in Nat /\ Total(z, rest) = Total(x, s) /\ Total(x, s) = Held(x) + Len(s)
  BY <1>1, <1>5, <1>6, LenProperties DEF Total
<1>8. ASSUME NEW k \in 0 .. Total(x, s) - 1 PROVE Str(z, rest)[k] = Str(x, s)[k]
  <2>1. Str(z, rest)[k] = IF k < Held(x) + len THEN y.buf[y.r + k]
                          ELSE rest[k - (Held(x) + len) + 1]
    <3>1. k \in 0 .. Total(z, rest) - 1
      BY <1>7
    <3>2. Str(z, rest)[k] = IF k < Held(z) THEN z.buf[z.r + k] ELSE rest[k - Held(z) + 1]
      BY <1>3, <1>6, <3>1, TotalType
    <3> QED BY <1>3, <1>5, <3>2
  <2>2. Str(x, s)[k] = IF k < Held(x) THEN x.buf[x.r + k] ELSE s[k - Held(x) + 1]
    BY TotalType
  <2>3. CASE k < Held(x) + len
    <3>1. k \in 0 .. Held(x) + len - 1
      BY <1>1, <1>5, <2>3
    <3> QED BY <1>2, <2>1, <2>2, <2>3, <3>1
  <2>4. CASE ~(k < Held(x) + len)
    <3>1. PICK i \in 1 .. Len(s) - len : i = k - (Held(x) + len) + 1 /\ i + len = k - Held(x) + 1
      BY <1>1, <1>5, <1>7, <2>4
    <3>2. ~(k < Held(x))
      BY <1>1, <1>5, <2>4
    <3> QED BY <1>6, <2>1, <2>2, <2>4, <3>1, <3>2
  <2> QED BY <2>3, <2>4
<1>9. Ready(x) => Ready(y)
  <2>1. SUFFICES ASSUME Ready(x), y.r # y.n PROVE y.buf[y.r].kind # "hb"
    BY DEF Ready
  <2>2. x.r # x.n /\ 0 < Held(x)
    BY <1>1, <1>2, <1>4, <2>1 DEF Held
  <2>3. 0 \in 0 .. Held(x) + len - 1 /\ y.r + 0 = y.r /\ x.r + 0 = x.r
    BY <1>1, <1>4, <1>5
  <2>4. y.buf[y.r] = x.buf[x.r]
    BY <1>2, <2>2, <2>3
  <2> QED BY <2>1, <2>2, <2>4 DEF Ready
<1> QED BY <1>2, <1>3, <1>5, <1>6, <1>7, <1>8, <1>9

-----------------------------------------------------------------------------
(* The loop of Front.  It is a recursive function: that it exists, and where *)
(* it comes by, is shown from the end of the buffer.                         *)

LEMMA HdrFacts ==
    ASSUME NEW x, BufType(x), NEW i \in 0 .. TcpRecvBufMaxSize - 1
    PROVE  /\ Hdr(x, i) \in Cell
           /\ Hdr(x, i).id = x.buf[i].id /\ Hdr(x, i).off = x.buf[i].off
           /\ Hdr(x, i).len = x.buf[i].len /\ Hdr(x, i).kind = x.buf[i].kind
           /\ Hdr(x, i).order = IF x.w - i < HDR
                                THEN IF x.buf[i].order = "host" THEN "net" ELSE "host"
                                ELSE x.buf[i].order
           /\ MsgSize(x, i) \in Nat /\ MsgSize(x, i) >= HDR
           /\ Hdr(x, i).order = "host" => MsgSize(x, i) = Pad(x.buf[i].len)
<1>1. PICK c \in Cell : c = x.buf[i]
  BY BufFacts
<1>2. /\ ConvertByteOrder(c) \in Cell
      /\ ConvertByteOrder(c).id = c.id /\ ConvertByteOrder(c).off = c.off
      /\ ConvertByteOrder(c).len = c.len /\ ConvertByteOrder(c).kind = c.kind
      /\ ConvertByteOrder(c).order = IF c.order = "host" THEN "net" ELSE "host"
  BY DEF ConvertByteOrder, Cell
<1>3. Hdr(x, i) = IF x.w - i < HDR THEN ConvertByteOrder(c) ELSE c
  BY <1>1 DEF Hdr, Unconverted
<1>4. PICK hd \in Cell : hd = Hdr(x, i)
  BY <1>2, <1>3
<1>5. hd.len \in Nat /\ hd.len # 0 /\ 256 * hd.len \in Nat /\ 256 * hd.len # 0
  BY DEF Cell
<1>6. LoadLen(hd) \in Nat /\ LoadLen(hd) # 0 /\ (hd.order = "host" => LoadLen(hd) = hd.len)
  BY <1>5 DEF LoadLen
<1>7. MsgSize(x, i) \in Nat /\ MsgSize(x, i) >= HDR
  BY <1>4, <1>6, PadBounds DEF MsgSize
<1>8. hd.len = c.len
  BY <1>2, <1>3, <1>4
<1>9. Hdr(x, i).order = "host" => MsgSize(x, i) = Pad(x.buf[i].len)
  BY <1>1, <1>4, <1>6, <1>8 DEF MsgSize
<1> QED BY <1>1, <1>2, <1>3, <1>7, <1>9

\* One round of the loop, with f for the rest of it.
VisitStep(f, x, w, i) == {i} \cup IF Whole(x, w, i) THEN f[i + MsgSize(x, i)] ELSE {}

LEMMA WholeFacts ==
    ASSUME NEW x, BufType(x), NEW w \in 0 .. TcpRecvBufMaxSize, NEW i \in 0 .. w, Whole(x, w, i)
    PROVE  i < w /\ i + MsgSize(x, i) \in i + 1 .. w
<1>1. i < w /\ w \in Nat /\ i \in Nat
  BY BufAssumption DEF Whole, HDR
<1>2. i \in 0 .. TcpRecvBufMaxSize - 1
  BY <1>1, BufAssumption
<1>3. MsgSize(x, i) \in Nat /\ MsgSize(x, i) >= HDR
  BY <1>2, HdrFacts
<1>4. w - i >= MsgSize(x, i)
  BY DEF Whole
<1> QED BY <1>1, <1>3, <1>4 DEF HDR

\* f is the loop from the last k units.
VisitFrom(f, x, w, k) == \A i \in 0 .. w : i >= w - k => f[i] = VisitStep(f, x, w, i)

LEMMA VisitStepUses ==
    ASSUME NEW x, BufType(x), NEW w \in 0 .. TcpRecvBufMaxSize, NEW i \in 0 .. w,
           NEW f \in [0 .. w -> SUBSET Nat], NEW e \in [0 .. w -> SUBSET Nat],
           \A j \in i + 1 .. w : e[j] = f[j]
    PROVE  VisitStep(f, x, w, i) \in SUBSET Nat /\ VisitStep(e, x, w, i) = VisitStep(f, x, w, i)
<1>1. CASE Whole(x, w, i)
  <2>1. PICK j \in i + 1 .. w : j = i + MsgSize(x, i)
    BY <1>1, WholeFacts
  <2>2. j \in 0 .. w /\ i \in Nat
    BY <2>1
  <2>3. f[j] \in SUBSET Nat /\ e[j] = f[j]
    BY <2>2
  <2> QED BY <2>1, <2>2, <2>3 DEF VisitStep
<1>2. CASE ~Whole(x, w, i)
  BY <1>2 DEF VisitStep
<1> QED BY <1>1, <1>2

LEMMA VisitExists ==
    ASSUME NEW x, BufType(x), NEW w \in 0 .. TcpRecvBufMaxSize
    PROVE  \E f \in [0 .. w -> SUBSET Nat] : \A i \in 0 .. w : f[i] = VisitStep(f, x, w, i)
<1> DEFINE T == {k \in Nat : ~\E f \in [0 .. w -> SUBSET Nat] : VisitFrom(f, x, w, k)}
<1>0. w \in Nat
  BY BufAssumption
<1>1. ASSUME NEW m \in T, \A k \in T : m <= k PROVE FALSE
  <2>0. m \in Nat
    OBVIOUS
  <2>1. CASE m = 0
    <3> DEFINE f == [i \in 0 .. w |-> {i}]
    <3>1. f \in [0 .. w -> SUBSET Nat]
      BY <1>0
    <3>2. ASSUME NEW i \in 0 .. w, i >= w - 0 PROVE f[i] = VisitStep(f, x, w, i)
      <4>1. ~Whole(x, w, i)
        BY <1>0, <3>2, WholeFacts
      <4> QED BY <4>1 DEF VisitStep
    <3> HIDE DEF f
    <3>3. VisitFrom(f, x, w, 0)
      BY <3>2 DEF VisitFrom
    <3> QED BY <2>1, <3>1, <3>3
  <2>2. CASE m # 0
    <3>1. m - 1 \in Nat /\ m - 1 \notin T
      BY <1>1, <2>0, <2>2
    <3>2. PICK f \in [0 .. w -> SUBSET Nat] : VisitFrom(f, x, w, m - 1)
      BY <3>1
    <3>3. CASE m <= w
      <4>1. PICK j \in 0 .. w : j = w - m
        BY <1>0, <2>0, <3>3
      <4> DEFINE e == [f EXCEPT ![j] = VisitStep(f, x, w, j)]
      <4>2. VisitStep(f, x, w, j) \in SUBSET Nat
        BY <1>0, VisitStepUses
      <4>3. /\ e \in [0 .. w -> SUBSET Nat] /\ e[j] = VisitStep(f, x, w, j)
            /\ \A i \in 0 .. w : i # j => e[i] = f[i]
        BY <4>2
      <4> HIDE DEF e
      <4>4. ASSUME NEW i \in 0 .. w, i >= w - m PROVE e[i] = VisitStep(e, x, w, i)
        <5>1. \A k \in i + 1 .. w : e[k] = f[k]
          <6> TAKE k \in i + 1 .. w
          <6>1. k \in 0 .. w /\ k # j
            BY <1>0, <2>0, <4>1, <4>4
          <6> QED BY <4>3, <6>1
        <5>2. VisitStep(e, x, w, i) = VisitStep(f, x, w, i)
          BY <4>3, <5>1, VisitStepUses
        <5>3. CASE i = j
          BY <4>3, <5>2, <5>3
        <5>4. CASE i # j
          <6>1. i >= w - (m - 1)
            BY <1>0, <2>0, <4>1, <4>4, <5>4
          <6>2. f[i] = VisitStep(f, x, w, i)
            BY <3>2, <6>1 DEF VisitFrom
          <6> QED BY <4>3, <5>2, <5>4, <6>2
        <5> QED BY <5>3, <5>4
      <4>5. VisitFrom(e, x, w, m)
        BY <4>4 DEF VisitFrom
      <4> QED BY <4>3, <4>5
    <3>4. CASE m > w
      <4>1. \A i \in 0 .. w : i >= w - (m - 1)
        BY <1>0, <2>0, <3>4
      <4>2. VisitFrom(f, x, w, m)
        BY <3>2, <4>1 DEF VisitFrom
      <4> QED BY <4>2
    <3> QED BY <1>0, <2>0, <3>3, <3>4
  <2> QED BY <2>1, <2>2
<1>2. T = {}
  <2>1. T \in SUBSET Nat
    OBVIOUS
  <2> HIDE DEF T
  <2> QED BY <1>1, <2>1, Smallest
<1>3. PICK f \in [0 .. w -> SUBSET Nat] : VisitFrom(f, x, w, w)
  BY <1>0, <1>2
<1>4. \A i \in 0 .. w : i >= w - w
  BY <1>0
<1> QED BY <1>3, <1>4 DEF VisitFrom

(* The loop of the code is that function.                                   *)
LEMMA VisitedIs ==
    ASSUME NEW x, BufType(x), NEW w \in 0 .. TcpRecvBufMaxSize
    PROVE  \E f : /\ \A i \in 0 .. w : f[i] = VisitStep(f, x, w, i)
                  /\ Visited(x, w) = f[x.n]
<1>1. PICK e \in [0 .. w -> SUBSET Nat] : \A i \in 0 .. w : e[i] = VisitStep(e, x, w, i)
  BY VisitExists
<1>2. e = [i \in 0 .. w |-> VisitStep(e, x, w, i)]
  BY <1>1
<1> DEFINE f == CHOOSE g : g = [i \in 0 .. w |-> VisitStep(g, x, w, i)]
<1>3. f = [i \in 0 .. w |-> VisitStep(f, x, w, i)]
  BY <1>2, Zenon
<1>4. Visited(x, w) = f[x.n]
  BY DEF Visited, VisitStep
<1> HIDE DEF f
<1>5. \A i \in 0 .. w : f[i] = VisitStep(f, x, w, i)
  BY <1>3
<1> QED BY <1>4, <1>5

(* Where messages start at the places in S, the loop comes by all of these  *)
(* from nextmsg_idx_ on, and stops at the last.                             *)
LEMMA LoopStops ==
    ASSUME NEW x, BufType(x), NEW w \in 0 .. TcpRecvBufMaxSize,
           NEW S \in SUBSET (0 .. w), x.n \in S,
           \A i \in S : Whole(x, w, i) => i + MsgSize(x, i) \in S,
           \A i \in S, j \in S : i < j => Whole(x, w, i) /\ i + MsgSize(x, i) <= j
    PROVE  \E e \in S : /\ ~Whole(x, w, e) /\ \A i \in S : i <= e
                        /\ Visited(x, w) = {i \in S : i >= x.n}
                        /\ Max(Visited(x, w)) = e
<1>0. w \in Nat /\ \A i \in S : i \in Nat /\ i <= w
  BY BufAssumption
<1>1. PICK f : (\A i \in 0 .. w : f[i] = VisitStep(f, x, w, i)) /\ Visited(x, w) = f[x.n]
  BY VisitedIs
<1> DEFINE From(i) == {j \in S : j >= i}
           T == {k \in 0 .. w : w - k \in S /\ f[w - k] # From(w - k)}
<1>2. ASSUME NEW m \in T, \A k \in T : m <= k PROVE FALSE
  <2>0. m \in 0 .. w /\ w - m \in S /\ f[w - m] # From(w - m)
    OBVIOUS
  <2>1. PICK i \in S : i = w - m /\ f[i] # From(i) /\ m \in Nat
    <3> HIDE DEF From, T
    <3> QED BY <1>0, <2>0
  <2>2. f[i] = VisitStep(f, x, w, i)
    BY <1>1
  <2>3. CASE Whole(x, w, i)
    <3>1. PICK j \in S : j = i + MsgSize(x, i) /\ i < j
      BY <1>0, <2>3, WholeFacts
    <3>2. PICK k \in 0 .. w : k = w - j /\ k < m
      BY <1>0, <2>1, <3>1
    <3>3. w - k = j
      BY <1>0, <3>1, <3>2
    <3>4. k \notin T
      BY <1>2, <2>1, <3>2
    <3>5. f[j] = From(j)
      BY <3>3, <3>4
    <3>6. f[i] = {i} \cup From(j)
      BY <2>2, <2>3, <3>1, <3>5 DEF VisitStep
    <3>7. ASSUME NEW p \in S PROVE p >= i <=> p = i \/ p >= j
      <4>1. p \in Nat /\ i \in Nat /\ j \in Nat
        BY <1>0
      <4>2. i < p => j <= p
        BY <3>1
      <4> QED BY <3>1, <4>1, <4>2
    <3>8. {i} \cup From(j) = From(i)
      BY <3>7
    <3> QED BY <2>1, <3>6, <3>8
  <2>4. CASE ~Whole(x, w, i)
    <3>1. f[i] = {i}
      BY <2>2, <2>4 DEF VisitStep
    <3>2. ASSUME NEW p \in S PROVE p >= i <=> p = i
      <4>1. p \in Nat /\ i \in Nat
        BY <1>0
      <4>2. ~(i < p)
        BY <2>4
      <4> QED BY <4>1, <4>2
    <3>3. {i} = From(i)
      BY <3>2
    <3> QED BY <2>1, <3>1, <3>3
  <2> QED BY <2>3, <2>4
<1>3. T = {}
  <2>1. T \in SUBSET Nat
    BY <1>0
  <2> HIDE DEF T
  <2> QED BY <1>2, <2>1, Smallest
<1>4. Visited(x, w) = From(x.n)
  <2>0. x.n \in 0 .. w
    BY <1>0
  <2>1. PICK k \in 0 .. w : k = w - x.n /\ w - k = x.n
    BY <1>0, <2>0
  <2>2. k \notin T
    BY <1>3
  <2> QED BY <1>1, <2>1, <2>2
<1>5. PICK e \in S : \A i \in S : i <= e
  <2> DEFINE R == {k \in 0 .. w : w - k \in S}
  <2>1. R \in SUBSET Nat
    BY <1>0
  <2>2. w - x.n \in R
    <3>0. x.n \in 0 .. w
      BY <1>0
    <3>1. w - x.n \in 0 .. w /\ w - (w - x.n) = x.n
      BY <1>0, <3>0
    <3> QED BY <3>1
  <2>3. PICK m \in R : \A k \in R : m <= k
    <3> HIDE DEF R
    <3> QED BY <2>1, <2>2, Smallest
  <2>4. ASSUME NEW i \in S PROVE i <= w - m
    <3>1. w - i \in 0 .. w /\ w - (w - i) = i
      BY <1>0
    <3>2. w - i \in R
      BY <3>1
    <3>3. m <= w - i /\ m \in 0 .. w
      BY <2>3, <3>2
    <3> QED BY <1>0, <3>3
  <2> QED BY <2>3, <2>4
<1>6. ~Whole(x, w, e)
  <2>1. SUFFICES ASSUME Whole(x, w, e) PROVE FALSE
    OBVIOUS
  <2>2. e + MsgSize(x, e) \in S /\ e + MsgSize(x, e) \in e + 1 .. w
    BY <2>1, WholeFacts
  <2>3. PICK j \in S : j \in e + 1 .. w
    BY <2>2
  <2> QED BY <1>0, <1>5, <2>3
<1>7. Max(Visited(x, w)) = e
  <2>1. From(x.n) \in SUBSET Nat
    BY <1>0
  <2>2. e \in From(x.n) /\ \A i \in From(x.n) : i <= e
    BY <1>0, <1>5
  <2> HIDE DEF From
  <2> QED BY <1>4, <2>1, <2>2, MaxIs
<1> QED BY <1>4, <1>5, <1>6, <1>7

(* Byte order is no matter of the chain.                                    *)
LEMMA SameFields ==
    ASSUME NEW t \in Nat, NEW f, NEW g, NEW h, Chain(f, t, g, h),
           NEW e, \A k \in 0 .. t - 1 :
                    /\ e[k] \in Cell /\ e[k].id = f[k].id /\ e[k].off = f[k].off
                    /\ e[k].len = f[k].len /\ e[k].kind = f[k].kind
    PROVE  Chain(e, t, g, h)
<1>1. ASSUME NEW k \in 0 .. t - 1
      PROVE  e[k] \in Cell /\ UnitOK(e[k]) /\ After(e[k]) = After(f[k])
  BY DEF Chain, UnitOK, After
<1>2. ASSUME NEW k \in 0 .. t - 2 PROVE Linked(e[k], e[k + 1])
  <2>1. k \in 0 .. t - 1 /\ k + 1 \in 0 .. t - 1
    OBVIOUS
  <2>2. Linked(f[k], f[k + 1])
    BY DEF Chain
  <2>3. After(e[k]) = After(f[k])
    BY <1>1, <2>1
  <2> QED BY <2>1, <2>2, <2>3 DEF Linked
<1>3. CASE t > 0
  <2>1. 0 \in 0 .. t - 1 /\ t - 1 \in 0 .. t - 1
    BY <1>3
  <2>2. f[0].off = 0 /\ f[0].id = g /\ f[t - 1].off + 1 = Pad(f[t - 1].len)
        /\ After(f[t - 1]) = h
    BY <1>3 DEF Chain
  <2>3. e[0].off = 0 /\ e[0].id = g /\ e[t - 1].off + 1 = Pad(e[t - 1].len)
        /\ After(e[t - 1]) = h
    BY <1>1, <2>1, <2>2
  <2> QED BY <1>1, <1>2, <1>3, <2>3 DEF Chain
<1>4. CASE t = 0
  BY <1>1, <1>2, <1>4 DEF Chain
<1> QED BY <1>3, <1>4

\* Where messages start in the buffer of x, of which the stream is f.
StartsIn(x, f, t, w) == {i \in x.r .. w : Starts(f, t, i - x.r)}

(* The loop reads every header in host order, and its size from it; so it   *)
(* goes from message to message.                                            *)
LEMMA LoopReads ==
    ASSUME NEW y, BufType(y), NEW len \in Nat, BufType(Filled(y, len)),
           NEW f, NEW t \in Nat, NEW g, NEW h, Chain(f, t, g, h),
           Held(y) + len <= t,
           \A k \in 0 .. Held(y) + len - 1 : y.buf[y.r + k] = f[k],
           \A k \in 0 .. t - 1 : f[k].order = "host" <=> f[k].off = 0 /\ Held(y) - k >= HDR,
           NEW i \in StartsIn(y, f, t, y.w + len), i < y.w + len
    PROVE  /\ i \in 0 .. TcpRecvBufMaxSize - 1
           /\ i - y.r \in 0 .. t - 1 /\ y.buf[i] = f[i - y.r] /\ f[i - y.r].off = 0
           /\ Hdr(y, i).order = "host" /\ MsgSize(y, i) = Pad(f[i - y.r].len)
<1>1. /\ y.r \in Nat /\ y.n \in Nat /\ y.w \in Nat /\ y.r <= y.n /\ y.n <= y.w
      /\ y.w + len \in Nat /\ y.w + len <= TcpRecvBufMaxSize /\ TcpRecvBufMaxSize \in Nat
  <2>1. PICK z : z = Filled(y, len) /\ BufType(z) /\ z.w = y.w + len
    BY DEF Filled
  <2>2. z.w \in Nat /\ z.w <= z.size /\ z.size <= TcpRecvBufMaxSize /\ z.size \in Nat
        /\ TcpRecvBufMaxSize \in Nat
    BY <2>1, BufFacts
  <2> QED BY <2>1, <2>2, BufFacts
<1>2. i \in y.r .. y.w + len - 1 /\ Starts(f, t, i - y.r)
  BY <1>1 DEF StartsIn
<1>3. PICK k \in 0 .. Held(y) + len - 1 : k = i - y.r /\ i = y.r + k
  BY <1>1, <1>2 DEF Held
<1>4. Held(y) \in Nat /\ k \in 0 .. t - 1
  BY <1>1 DEF Held
<1>5. y.buf[i] = f[k] /\ f[k].off = 0
  BY <1>2, <1>3, <1>4 DEF Starts
<1>6. f[k].order = "host" <=> ~(y.w - i < HDR)
  BY <1>1, <1>3, <1>4, <1>5 DEF Held, HDR
<1>7. i \in 0 .. TcpRecvBufMaxSize - 1
  BY <1>1, <1>2
<1>8. f[k].order \in {"host", "net"}
  BY <1>4 DEF Chain, Cell
<1>9. Hdr(y, i).order = "host"
  BY <1>5, <1>6, <1>7, <1>8, HdrFacts
<1>10. MsgSize(y, i) = Pad(f[k].len)
  BY <1>5, <1>7, <1>9, HdrFacts
<1> QED BY <1>3, <1>4, <1>5, <1>7, <1>9, <1>10

LEMMA LoopEnds ==
    ASSUME NEW y, BufType(y), NEW len \in Nat, BufType(Filled(y, len)),
           NEW f, NEW t \in Nat, NEW g, NEW h, Chain(f, t, g, h),
           Held(y) + len <= t, Starts(f, t, y.n - y.r),
           \A k \in 0 .. Held(y) + len - 1 : y.buf[y.r + k] = f[k],
           \A k \in 0 .. t - 1 : f[k].order = "host" <=> f[k].off = 0 /\ Held(y) - k >= HDR
    PROVE  \E e \in StartsIn(y, f, t, y.w + len) :
             /\ ~Whole(y, y.w + len, e) /\ e >= y.n
             /\ Visited(y, y.w + len) = {i \in StartsIn(y, f, t, y.w + len) : i >= y.n}
             /\ Max(Visited(y, y.w + len)) = e
             /\ \A i \in StartsIn(y, f, t, y.w + len) :
                  i < y.n => i + Pad(f[i - y.r].len) <= y.n
<1>1. /\ y.r \in Nat /\ y.n \in Nat /\ y.w \in Nat /\ y.r <= y.n /\ y.n <= y.w
      /\ TcpRecvBufMaxSize \in Nat
  BY BufFacts
<1>2. PICK w \in 0 .. TcpRecvBufMaxSize : w = y.w + len
  <2>1. PICK z : z = Filled(y, len) /\ BufType(z) /\ z.w = y.w + len
    BY DEF Filled
  <2>2. z.w \in Nat /\ z.w <= z.size /\ z.size <= TcpRecvBufMaxSize /\ z.size \in Nat
    BY <2>1, BufFacts
  <2> QED BY <1>1, <2>1, <2>2
<1>3. PICK S : S = StartsIn(y, f, t, w)
  OBVIOUS
<1>4. S \in SUBSET (0 .. w) /\ y.n \in S
  <2>1. y.n \in y.r .. w
    BY <1>1, <1>2
  <2> QED BY <1>1, <1>3, <2>1 DEF StartsIn
<1>5. ASSUME NEW i \in S, i < w
      PROVE  /\ i - y.r \in 0 .. t - 1 /\ f[i - y.r].off = 0
             /\ MsgSize(y, i) = Pad(f[i - y.r].len)
             /\ i \in Nat /\ MsgSize(y, i) \in Nat /\ MsgSize(y, i) >= HDR
  <2>1. /\ i \in 0 .. TcpRecvBufMaxSize - 1
        /\ i - y.r \in 0 .. t - 1 /\ f[i - y.r].off = 0
        /\ MsgSize(y, i) = Pad(f[i - y.r].len)
    BY <1>2, <1>3, <1>5, LoopReads
  <2> QED BY <2>1, HdrFacts
<1>6. ASSUME NEW i \in S, Whole(y, w, i) PROVE i + MsgSize(y, i) \in S
  <2>1. i < w /\ i + MsgSize(y, i) \in i + 1 .. w
    BY <1>2, <1>4, <1>6, WholeFacts
  <2>2. PICK k \in 0 .. t - 1 : k = i - y.r /\ f[k].off = 0 /\ MsgSize(y, i) = Pad(f[k].len)
    BY <1>5, <2>1
  <2>3. PICK j \in 1 .. t : j = k + Pad(f[k].len) /\ Starts(f, t, j)
    BY <2>2, NextStart
  <2>4. i \in Nat /\ MsgSize(y, i) \in Nat
    BY <1>5, <2>1
  <2>5. (i + MsgSize(y, i)) - y.r = j
    BY <1>1, <2>2, <2>3, <2>4
  <2>6. i + MsgSize(y, i) \in y.r .. w
    BY <1>1, <1>2, <1>3, <2>1, <2>4 DEF StartsIn
  <2> QED BY <1>3, <2>3, <2>5, <2>6 DEF StartsIn
<1>7. ASSUME NEW i \in S, NEW j \in S, i < j
      PROVE  Whole(y, w, i) /\ i + MsgSize(y, i) <= j
  <2>0. j \in Nat /\ j <= w /\ w \in Nat /\ w <= TcpRecvBufMaxSize
    BY <1>1, <1>2, <1>4
  <2>1. i < w /\ i \in Nat
    BY <1>4, <1>7, <2>0
  <2>2. PICK k \in 0 .. t - 1 : k = i - y.r /\ f[k].off = 0 /\ MsgSize(y, i) = Pad(f[k].len)
    BY <1>5, <2>1
  <2>3. MsgSize(y, i) \in Nat /\ MsgSize(y, i) >= HDR
    BY <1>5, <2>1
  <2>4. PICK m \in 0 .. t : m = j - y.r /\ Starts(f, t, m) /\ k < m
    BY <1>1, <1>3, <1>7, <2>0, <2>1, <2>2 DEF StartsIn, Starts
  <2>5. k + Pad(f[k].len) <= m
    BY <2>2, <2>4, Apart
  <2>6. i + MsgSize(y, i) <= j
    BY <1>1, <2>0, <2>1, <2>2, <2>3, <2>4, <2>5
  <2>7. MsgSize(y, i) <= w - i
    BY <2>0, <2>1, <2>3, <2>6
  <2>8. MsgSize(y, i) <= TcpRecvBufMaxSize
    BY <1>1, <2>0, <2>1, <2>3, <2>7
  <2> QED BY <1>1, <2>0, <2>1, <2>3, <2>6, <2>7, <2>8 DEF Whole, TooLarge, HDR
<1>8. PICK e \in S : /\ ~Whole(y, w, e) /\ \A i \in S : i <= e
                     /\ Visited(y, w) = {i \in S : i >= y.n}
                     /\ Max(Visited(y, w)) = e
  BY <1>4, <1>6, <1>7, LoopStops
<1>9. e >= y.n
  BY <1>1, <1>4, <1>8
<1>10. ASSUME NEW i \in S, i < y.n PROVE i + Pad(f[i - y.r].len) <= y.n
  <2>1. i < w
    BY <1>1, <1>2, <1>4, <1>10
  <2>2. i + MsgSize(y, i) <= y.n
    BY <1>4, <1>7, <1>10
  <2> QED BY <1>5, <2>1, <2>2
<1> QED BY <1>2, <1>3, <1>8, <1>9, <1>10

\* The headers at places of V that end before w converted.
ConvertedAt(y, V, w) ==
    [i \in DOMAIN y.buf |-> IF i \in V /\ w - i >= HDR THEN Hdr(y, i) ELSE y.buf[i]]

LEMMA ConvertedFacts ==
    ASSUME NEW y, BufType(y), NEW V, NEW w
    PROVE  /\ ConvertedAt(y, V, w) \in [0 .. TcpRecvBufMaxSize - 1 -> Cell]
           /\ \A i \in 0 .. TcpRecvBufMaxSize - 1 :
                /\ ConvertedAt(y, V, w)[i].id = y.buf[i].id
                /\ ConvertedAt(y, V, w)[i].off = y.buf[i].off
                /\ ConvertedAt(y, V, w)[i].len = y.buf[i].len
                /\ ConvertedAt(y, V, w)[i].kind = y.buf[i].kind
                /\ ConvertedAt(y, V, w)[i].order =
                     IF i \in V /\ w - i >= HDR THEN Hdr(y, i).order ELSE y.buf[i].order
<1>1. DOMAIN y.buf = 0 .. TcpRecvBufMaxSize - 1
      /\ \A i \in 0 .. TcpRecvBufMaxSize - 1 : y.buf[i] \in Cell
  BY BufFacts
<1>2. ASSUME NEW i \in 0 .. TcpRecvBufMaxSize - 1
      PROVE  /\ ConvertedAt(y, V, w)[i] = IF i \in V /\ w - i >= HDR THEN Hdr(y, i) ELSE y.buf[i]
             /\ Hdr(y, i) \in Cell /\ Hdr(y, i).id = y.buf[i].id /\ Hdr(y, i).off = y.buf[i].off
             /\ Hdr(y, i).len = y.buf[i].len /\ Hdr(y, i).kind = y.buf[i].kind
  BY <1>1, HdrFacts DEF ConvertedAt
<1>3. \A i \in 0 .. TcpRecvBufMaxSize - 1 : ConvertedAt(y, V, w)[i] \in Cell
  BY <1>1, <1>2
<1>4. ConvertedAt(y, V, w) = [i \in 0 .. TcpRecvBufMaxSize - 1 |-> ConvertedAt(y, V, w)[i]]
  BY <1>1 DEF ConvertedAt
<1>5. ConvertedAt(y, V, w) \in [0 .. TcpRecvBufMaxSize - 1 -> Cell]
  BY <1>3, <1>4
<1> QED BY <1>2, <1>5

\* The loop closes the connection at i.
Refused(y, w, i) == w - i >= HDR /\ TooLarge(MsgSize(y, i))

(* What the loop makes of the stream, before leading heartbeats are dropped. *)
LEMMA LoopHolds ==
    ASSUME NEW y, BufType(y), NEW len \in Nat, BufType(Filled(y, len)),
           NEW rest \in Seq(Cell), NEW f, NEW t \in Nat, NEW g, NEW h, Chain(f, t, g, h),
           t = Held(y) + len + Len(rest), ParsedTo(f, t, Held(y), y.n - y.r, FALSE),
           \A k \in 0 .. t - 1 :
             f[k] = IF k < Held(y) + len THEN y.buf[y.r + k] ELSE rest[k - (Held(y) + len) + 1]
    PROVE  \E q : /\ q = [buf  |-> ConvertedAt(y, Visited(y, y.w + len), y.w + len),
                          size |-> y.size, w |-> y.w + len,
                          n    |-> Max(Visited(y, y.w + len)), r |-> y.r]
                  /\ Holds(q, rest, g, h, Refused(y, y.w + len, q.n))
<1>1. PICK r \in Nat : \E n, o \in Nat : r = y.r /\ n = y.n /\ o = y.w /\ r <= n /\ n <= o
  BY BufFacts
<1>2. PICK n \in Nat : \E o \in Nat : n = y.n /\ o = y.w /\ r <= n /\ n <= o
  BY <1>1
<1>3. PICK o \in Nat : o = y.w /\ n <= o
  BY <1>2
<1>i. r = y.r /\ n = y.n /\ o = y.w /\ r <= n /\ n <= o
  BY <1>1, <1>2, <1>3
<1>4. PICK w \in Nat : w = o + len
  OBVIOUS
<1>5. TcpRecvBufMaxSize \in Nat /\ y.size \in Nat /\ w <= y.size /\ w <= TcpRecvBufMaxSize
  <2>1. PICK z : z = Filled(y, len) /\ z.w = w /\ z.size = y.size
    BY <1>4, <1>i DEF Filled
  <2>2. TcpRecvBufMaxSize \in Nat /\ z.size \in Nat /\ w <= z.size /\ z.size <= TcpRecvBufMaxSize
    BY <2>1, BufFacts
  <2> QED BY ONLY <2>1, <2>2
<1>6. PICK v \in Nat : v = Held(y) /\ v = o - r
  BY <1>i DEF Held
<1>7. v + len \in 0 .. t
  <2>1. Len(rest) \in Nat
    BY LenProperties
  <2> QED BY <1>6, <2>1
<1>8. v + len = w - r
  BY ONLY <1>4, <1>6, r \in Nat, len \in Nat, o \in Nat
<1>9. ParsedTo(f, t, v, n - r, FALSE)
  BY <1>6, <1>i
<1>10. ASSUME NEW k \in 0 .. t - 1
       PROVE  f[k] = IF k < v + len THEN y.buf[r + k] ELSE rest[k - (v + len) + 1]
  BY <1>6, <1>i
<1>11. \A k \in 0 .. t - 1 : f[k].order = "host" <=> f[k].off = 0 /\ v - k >= HDR
  BY <1>9 DEF ParsedTo
<1>12. Starts(f, t, n - r)
  BY <1>9 DEF ParsedTo
<1>13. PICK S : S = StartsIn(y, f, t, w)
  OBVIOUS
<1>14. \A i : i \in S <=> i \in r .. w /\ Starts(f, t, i - r)
  BY <1>13, <1>i DEF StartsIn
<1>15. ASSUME NEW k \in 0 .. v + len - 1 PROVE y.buf[r + k] = f[k]
  <2>1. k \in 0 .. t - 1 /\ k < v + len
    BY ONLY <1>7, k \in 0 .. v + len - 1, t \in Nat, v \in Nat, len \in Nat
  <2> QED BY <1>10, <2>1
<1>h. /\ Held(y) + len <= t /\ Starts(f, t, y.n - y.r)
      /\ \A k \in 0 .. Held(y) + len - 1 : y.buf[y.r + k] = f[k]
      /\ \A k \in 0 .. t - 1 : f[k].order = "host" <=> f[k].off = 0 /\ Held(y) - k >= HDR
      /\ y.w + len = w
  <2>1. v + len <= t
    BY ONLY <1>7, t \in Nat, v \in Nat, len \in Nat
  <2>2. Starts(f, t, y.n - y.r)
    BY <1>12, <1>i
  <2>3. \A k \in 0 .. v + len - 1 : y.buf[y.r + k] = f[k]
    BY <1>15, <1>i
  <2>4. y.w + len = w
    BY <1>4, <1>i
  <2> QED BY ONLY <1>6, <1>11, <2>1, <2>2, <2>3, <2>4
<1>16. PICK e \in S : /\ ~Whole(y, w, e) /\ e >= n
                      /\ Visited(y, w) = {i \in S : i >= n}
                      /\ Max(Visited(y, w)) = e
                      /\ \A i \in S : i < n => i + Pad(f[i - r].len) <= n
  <2>1. PICK e \in StartsIn(y, f, t, y.w + len) :
           /\ ~Whole(y, y.w + len, e) /\ e >= y.n
           /\ Visited(y, y.w + len) = {i \in StartsIn(y, f, t, y.w + len) : i >= y.n}
           /\ Max(Visited(y, y.w + len)) = e
           /\ \A i \in StartsIn(y, f, t, y.w + len) :
                i < y.n => i + Pad(f[i - y.r].len) <= y.n
    BY <1>h, LoopEnds
  <2> QED BY <1>13, <1>h, <1>i, <2>1
<1>17. ASSUME NEW i \in S, i < w
       PROVE  /\ i \in 0 .. TcpRecvBufMaxSize - 1
              /\ i - r \in 0 .. t - 1 /\ y.buf[i] = f[i - r] /\ f[i - r].off = 0
              /\ Hdr(y, i).order = "host" /\ MsgSize(y, i) = Pad(f[i - r].len)
  <2>1. i \in StartsIn(y, f, t, y.w + len) /\ i < y.w + len
    BY <1>13, <1>17, <1>h
  <2>2. /\ i \in 0 .. TcpRecvBufMaxSize - 1
        /\ i - y.r \in 0 .. t - 1 /\ y.buf[i] = f[i - y.r] /\ f[i - y.r].off = 0
        /\ Hdr(y, i).order = "host" /\ MsgSize(y, i) = Pad(f[i - y.r].len)
    BY <1>h, <2>1, LoopReads
  <2> QED BY <1>i, <2>2
<1>18. e \in Nat /\ r <= e /\ e <= w
  BY <1>14
<1> DEFINE buf == ConvertedAt(y, Visited(y, w), w)
           q == [buf |-> buf, size |-> y.size, w |-> w, n |-> e, r |-> r]
<1>19. /\ buf \in [0 .. TcpRecvBufMaxSize - 1 -> Cell]
       /\ \A i \in 0 .. TcpRecvBufMaxSize - 1 :
            /\ buf[i].id = y.buf[i].id /\ buf[i].off = y.buf[i].off
            /\ buf[i].len = y.buf[i].len /\ buf[i].kind = y.buf[i].kind
            /\ buf[i].order = IF i \in Visited(y, w) /\ w - i >= HDR
                              THEN Hdr(y, i).order ELSE y.buf[i].order
  BY ConvertedFacts
<1> HIDE DEF buf
<1>20. BufType(q)
  <2>1. HDR <= y.size /\ y.size <= TcpRecvBufMaxSize /\ y.size % HDR = 0
    BY BufFacts
  <2> QED BY <1>5, <1>18, <1>19, <2>1, MakeBuf
<1>21. q.buf = buf /\ q.w = w /\ q.n = e /\ q.r = r
  OBVIOUS
<1> HIDE DEF q
<1>22. Held(q) = v + len /\ Total(q, rest) = t
  BY <1>6, <1>8, <1>21 DEF Held, Total
<1>23. PICK u : u = Str(q, rest)
  OBVIOUS
<1>24. ASSUME NEW k \in 0 .. t - 1
       PROVE  u[k] = IF k < v + len THEN buf[r + k] ELSE rest[k - (v + len) + 1]
  BY <1>20, <1>21, <1>22, <1>23, TotalType
<1>25. ASSUME NEW k \in 0 .. t - 1
       PROVE  /\ u[k] \in Cell /\ u[k].id = f[k].id /\ u[k].off = f[k].off
              /\ u[k].len = f[k].len /\ u[k].kind = f[k].kind
              /\ u[k].order = "host" <=> u[k].off = 0 /\ v + len - k >= HDR
  <2>0. f[k] \in Cell /\ (f[k].order = "host" <=> f[k].off = 0 /\ v - k >= HDR)
    BY <1>11 DEF Chain
  <2>1. CASE k < v + len
    <3>1. PICK i \in Nat : i = r + k
      OBVIOUS
    <3>2. i \in r .. w /\ i < w /\ i - r = k /\ k < t
          /\ v + len - k = w - i /\ v - k = o - i
      BY ONLY <1>4, <1>6, <1>8, <2>1, <3>1, k \in 0 .. t - 1, t \in Nat,
              r \in Nat, o \in Nat, w \in Nat, v \in Nat, len \in Nat
    <3>3. i \in 0 .. TcpRecvBufMaxSize - 1
      BY ONLY <1>5, <3>2, i \in Nat, w \in Nat
    <3>4. f[k] = y.buf[i] /\ u[k] = buf[i] /\ buf[i] \in Cell
      BY <1>10, <1>19, <1>24, <2>1, <3>1, <3>3
    <3>5. i \in S <=> f[k].off = 0
      BY <1>7, <1>14, <3>2 DEF Starts
    <3>6. i \in Visited(y, w) <=> f[k].off = 0 /\ i >= n
      BY <1>16, <3>5
    <3>7. buf[i].order = "host" <=> f[k].off = 0 /\ w - i >= HDR
      <4>1. CASE f[k].off # 0 \/ i < n
        <5>1. i \notin Visited(y, w)
          BY ONLY <3>6, <4>1, i \in Nat, n \in Nat
        <5>2. buf[i].order = f[k].order
          BY <1>19, <3>3, <3>4, <5>1
        <5>3. f[k].off = 0 => o - i >= HDR /\ w - i >= HDR
          <6>1. SUFFICES ASSUME f[k].off = 0 PROVE o - i >= HDR /\ w - i >= HDR
            OBVIOUS
          <6>2. i + Pad(f[k].len) <= n
            BY <1>16, <3>2, <3>5, <4>1, <6>1
          <6>3. Pad(f[k].len) \in Nat /\ Pad(f[k].len) >= HDR
            BY UnitFacts DEF Chain
          <6>4. PICK p \in Nat : p >= 2 /\ i + p <= n
            BY ONLY <6>2, <6>3 DEF HDR
          <6>5. n <= o
            BY <1>i
          <6> QED BY ONLY <1>4, <6>4, <6>5, i \in Nat, n \in Nat, o \in Nat,
                          w \in Nat, len \in Nat DEF HDR
        <5> QED BY <2>0, <3>2, <5>2, <5>3
      <4>2. CASE f[k].off = 0 /\ i >= n /\ w - i >= HDR
        <5>1. i \in S /\ i \in Visited(y, w)
          BY <3>5, <3>6, <4>2
        <5>2. Hdr(y, i).order = "host"
          BY <1>17, <3>2, <5>1
        <5> QED BY <1>19, <3>3, <4>2, <5>1, <5>2
      <4>3. CASE f[k].off = 0 /\ i >= n /\ ~(w - i >= HDR)
        <5>1. buf[i].order = f[k].order
          BY <1>19, <3>3, <3>4, <4>3
        <5>2. ~(o - i >= HDR)
          BY ONLY <1>4, <4>3, i \in Nat, o \in Nat, w \in Nat, len \in Nat DEF HDR
        <5> QED BY <2>0, <3>2, <4>3, <5>1, <5>2
      <4>4. i < n \/ i >= n
        BY ONLY i \in Nat, n \in Nat
      <4> QED BY ONLY <4>1, <4>2, <4>3, <4>4
    <3> QED BY <1>19, <3>2, <3>3, <3>4, <3>7
  <2>2. CASE ~(k < v + len)
    <3>1. u[k] = f[k]
      BY <1>10, <1>24, <2>2
    <3>2. ~(v - k >= HDR) /\ ~(v + len - k >= HDR)
      BY ONLY <2>2, k \in 0 .. t - 1, t \in Nat, v \in Nat, len \in Nat DEF HDR
    <3> QED BY <2>0, <3>1, <3>2
  <2> QED BY <2>1, <2>2
<1>26. Chain(u, t, g, h)
  BY <1>25, SameFields
<1>27. PICK m \in 0 .. v + len : m = e - r /\ Starts(f, t, m) /\ w - e = v + len - m
  <2>1. e - r \in 0 .. v + len /\ w - e = v + len - (e - r)
    BY ONLY <1>8, <1>18, r \in Nat, w \in Nat, v \in Nat, len \in Nat
  <2> QED BY <1>14, <2>1
<1>28. Starts(u, t, m)
  BY <1>7, <1>25, <1>27 DEF Starts
<1>29. ASSUME e < w
       PROVE  /\ MsgSize(y, e) = Pad(u[m].len) /\ MsgSize(y, e) \in Nat /\ MsgSize(y, e) >= HDR
  <2>1. MsgSize(y, e) = Pad(f[m].len) /\ m \in 0 .. t - 1 /\ e \in 0 .. TcpRecvBufMaxSize - 1
    BY <1>17, <1>27, <1>29
  <2> QED BY <1>25, <2>1, HdrFacts
<1>30. ASSUME e < w PROVE w - e < MsgSize(y, e)
  <2>1. MsgSize(y, e) \in Nat /\ MsgSize(y, e) >= HDR
    BY <1>29, <1>30
  <2>2. w - e < HDR \/ MsgSize(y, e) > TcpRecvBufMaxSize \/ w - e < MsgSize(y, e)
    BY <1>5, <1>16, <1>18, <2>1 DEF Whole, TooLarge, HDR
  <2> QED BY ONLY <1>5, <1>18, <2>1, <2>2, w \in Nat DEF HDR
<1>31. m < v + len => v + len - m < Pad(u[m].len)
  <2>1. m < v + len => e < w
    BY ONLY <1>18, <1>27, w \in Nat, v \in Nat, len \in Nat
  <2> QED BY <1>27, <1>29, <1>30, <2>1
<1>32. Refused(y, w, e)
         <=> v + len - m >= HDR /\ Pad(u[m].len) > TcpRecvBufMaxSize
  <2>1. w - e >= HDR => e < w
    BY ONLY <1>18, w \in Nat DEF HDR
  <2> QED BY <1>27, <1>29, <2>1 DEF TooLarge, Refused
<1>33. ParsedTo(u, t, v + len, m, Refused(y, w, e))
  BY <1>7, <1>25, <1>27, <1>28, <1>31, <1>32 DEF ParsedTo
<1>34. Holds(q, rest, g, h, Refused(y, w, e))
  BY <1>20, <1>21, <1>22, <1>23, <1>26, <1>27, <1>33 DEF Holds
<1>35. q = [buf |-> ConvertedAt(y, Visited(y, y.w + len), y.w + len),
            size |-> y.size, w |-> y.w + len, n |-> Max(Visited(y, y.w + len)), r |-> y.r]
  BY <1>16, <1>h, <1>i DEF q, buf
<1>36. Holds(q, rest, g, h, Refused(y, y.w + len, q.n))
  <2>1. y.w + len = w /\ q.n = e
    BY <1>21, <1>h
  <2> QED BY ONLY <1>34, <2>1, Zenon
<1> QED BY ONLY <1>35, <1>36, Zenon

(* Front, when it reads from the socket.                                    *)
LEMMA ParsedHolds ==
    ASSUME NEW x, NEW s, NEW g, NEW h, Holds(x, s, g, h, FALSE), Ready(x),
           NEW len \in 1 .. Len(s), len <= Writable(x) + Extra(x)
    PROVE  LET res == Parsed(Received(x, SubSeq(s, 1, len)), len)
           IN /\ Holds(res.b, SubSeq(s, len + 1, Len(s)), g, h, res.close)
              /\ Ready(res.b) /\ res.close \in BOOLEAN
<1>1. BufType(x) /\ s \in Seq(Cell) /\ Len(s) \in Nat /\ len \in Nat
  BY LenProperties DEF Holds
<1>2. PICK rest : rest = SubSeq(s, len + 1, Len(s)) /\ rest \in Seq(Cell)
                  /\ Len(rest) = Len(s) - len
  <2>1. PICK rest : rest = SubSeq(s, len + 1, Len(s))
    OBVIOUS
  <2>2. rest \in Seq(Cell) /\ Len(rest) = Len(s) - len
    BY <1>1, <2>1, Parts
  <2> QED BY <2>1, <2>2
<1>3. PICK y : y = Received(x, SubSeq(s, 1, len))
  OBVIOUS
<1>4. PICK z : /\ BufType(y) /\ z = Filled(y, len) /\ BufType(z)
               /\ Held(y) = Held(x) /\ Held(z) = Held(x) + len /\ y.n - y.r = x.n - x.r
               /\ Total(z, rest) = Total(x, s)
               /\ \A k \in 0 .. Total(x, s) - 1 : Str(z, rest)[k] = Str(x, s)[k]
               /\ Ready(y)
  <2>1. \E y0, z0 :
             /\ y0 = Received(x, SubSeq(s, 1, len)) /\ BufType(y0)
             /\ z0 = Filled(y0, len) /\ BufType(z0)
             /\ Held(y0) = Held(x) /\ Held(z0) = Held(x) + len /\ y0.n - y0.r = x.n - x.r
             /\ Total(z0, SubSeq(s, len + 1, Len(s))) = Total(x, s)
             /\ \A k \in 0 .. Total(x, s) - 1 :
                  Str(z0, SubSeq(s, len + 1, Len(s)))[k] = Str(x, s)[k]
             /\ Ready(x) => Ready(y0)
    BY <1>1, ReceivedStream
  <2> QED BY <1>2, <1>3, <2>1
<1>5. PICK t \in Nat : t = Total(x, s)
  BY <1>1, TotalType
<1>6. PICK f : f = Str(x, s)
  OBVIOUS
<1>7. ASSUME NEW k \in 0 .. t - 1
      PROVE  f[k] = IF k < Held(y) + len THEN y.buf[y.r + k]
                    ELSE rest[k - (Held(y) + len) + 1]
  <2>1. Str(z, rest)[k] = IF k < Held(z) THEN z.buf[z.r + k] ELSE rest[k - Held(z) + 1]
    BY <1>2, <1>4, <1>5, TotalType
  <2>2. z.buf = y.buf /\ z.r = y.r
    BY <1>4 DEF Filled
  <2> QED BY <1>4, <1>5, <1>6, <2>1, <2>2
<1>8. t = Held(y) + len + Len(rest)
  <2>1. Total(z, rest) = Held(z) + Len(rest)
    BY DEF Total
  <2> QED BY <1>4, <1>5, <2>1
<1>9. Chain(f, t, g, h) /\ ParsedTo(f, t, Held(y), y.n - y.r, FALSE)
  BY <1>4, <1>5, <1>6 DEF Holds
<1>10. PICK q :
         /\ q = [buf  |-> ConvertedAt(y, Visited(y, y.w + len), y.w + len),
                 size |-> y.size, w |-> y.w + len,
                 n    |-> Max(Visited(y, y.w + len)), r |-> y.r]
         /\ Holds(q, rest, g, h, Refused(y, y.w + len, q.n))
  <2>1. BufType(y) /\ BufType(Filled(y, len)) /\ len \in Nat /\ rest \in Seq(Cell)
    BY <1>1, <1>2, <1>4
  <2>2. \A k \in 0 .. t - 1 :
          f[k] = IF k < Held(y) + len THEN y.buf[y.r + k] ELSE rest[k - (Held(y) + len) + 1]
    BY <1>7
  <2>3. t \in Nat
    OBVIOUS
  <2> QED BY ONLY <1>8, <1>9, <2>1, <2>2, <2>3, LoopHolds
<1>11. /\ q.buf = ConvertedAt(y, Visited(y, y.w + len), y.w + len) /\ q.size = y.size
       /\ q.w = y.w + len /\ q.n = Max(Visited(y, y.w + len)) /\ q.r = y.r
  BY <1>10
<1>12. PICK res : res = Parsed(y, len)
  OBVIOUS
<1>13. /\ res.close = Refused(y, y.w + len, q.n)
       /\ res.b = [buf |-> q.buf, size |-> q.size, w |-> q.w, n |-> q.n,
                   r |-> IF y.r = y.n THEN FirstMsg(q.buf, y.n, q.n) ELSE y.r]
  BY <1>11, <1>12 DEF Parsed, ConvertedAt, Refused
<1>14. Holds(q, rest, g, h, res.close)
  BY ONLY <1>10, <1>13, Zenon
<1>15. Holds(res.b, rest, g, h, res.close) /\ Ready(res.b)
  <2>1. CASE y.r = y.n
    <3>1. SkipHB(q) = [q EXCEPT !.r = FirstMsg(q.buf, q.r, q.n)]
      BY DEF SkipHB
    <3>2. res.b = SkipHB(q)
      BY <1>10, <1>11, <1>13, <2>1, <3>1
    <3>3. Holds(SkipHB(q), rest, g, h, res.close) /\ Ready(SkipHB(q))
      BY <1>14, SkipHolds
    <3> QED BY ONLY <3>2, <3>3, Zenon
  <2>2. CASE y.r # y.n
    <3>1. res.b = q
      BY <1>10, <1>11, <1>13, <2>2
    <3>2. Ready(q)
      <4>1. y.r \in 0 .. TcpRecvBufMaxSize - 1
        <5>1. /\ y.r \in Nat /\ y.n \in Nat /\ y.w \in Nat /\ y.size \in Nat
              /\ TcpRecvBufMaxSize \in Nat /\ y.r <= y.n /\ y.n <= y.w /\ y.w <= y.size
              /\ y.size <= TcpRecvBufMaxSize
          BY <1>4, BufFacts
        <5> QED BY ONLY <2>2, <5>1
      <4>2. q.buf[y.r].kind = y.buf[y.r].kind
        BY <1>4, <1>11, <4>1, ConvertedFacts
      <4> QED BY <1>4, <1>11, <2>2, <4>2 DEF Ready
    <3> QED BY ONLY <1>14, <3>1, <3>2, Zenon
  <2> QED BY <2>1, <2>2
<1>16. res.close \in BOOLEAN
  BY <1>13 DEF Refused
<1> QED BY <1>2, <1>3, <1>12, <1>15, <1>16

-----------------------------------------------------------------------------
(* The steps. *)

LEMMA EmptyHolds ==
    ASSUME NEW x, BufType(x), NEW g,
           NEW y, y = [buf |-> x.buf, size |-> x.size, w |-> 0, n |-> 0, r |-> 0]
    PROVE  Holds(y, <<>>, g, g, FALSE) /\ y.r = y.n
<1>1. /\ x.buf \in [0 .. TcpRecvBufMaxSize - 1 -> Cell] /\ x.size \in Nat
      /\ HDR <= x.size /\ x.size <= TcpRecvBufMaxSize /\ x.size % HDR = 0
  BY BufFacts
<1>2. BufType(y)
  <2>1. 0 \in Nat /\ 0 <= 0 /\ 0 <= x.size
    BY <1>1
  <2> QED BY <1>1, <2>1, MakeBuf
<1>3. y.w = 0 /\ y.n = 0 /\ y.r = 0
  OBVIOUS
<1>4. <<>> \in Seq(Cell) /\ Len(<<>>) = 0
  BY EmptySeq
<1>5. Held(y) = 0 /\ Total(y, <<>>) = 0 /\ y.n - y.r = 0
  BY <1>3, <1>4 DEF Held, Total
<1>6. ASSUME NEW f PROVE Chain(f, 0, g, g) /\ ParsedTo(f, 0, 0, 0, FALSE)
  BY DEF Chain, ParsedTo, Starts, HDR
<1> QED BY <1>2, <1>3, <1>4, <1>5, <1>6 DEF Holds

LEMMA InitIInv == Init => IInv
<1> SUFFICES ASSUME Init PROVE IInv
  OBVIOUS
<1> DEFINE x == [buf |-> [i \in 0 .. TcpRecvBufMaxSize - 1 |-> Junk],
                 size |-> TcpRecvBufInitSize, w |-> 0, n |-> 0, r |-> 0]
<1>1. BufType(x)
  <2>1. [i \in 0 .. TcpRecvBufMaxSize - 1 |-> Junk] \in [0 .. TcpRecvBufMaxSize - 1 -> Cell]
    BY BufAssumption DEF Junk, Cell, HDR
  <2>2. /\ TcpRecvBufInitSize \in Nat /\ HDR <= TcpRecvBufInitSize /\ 0 <= TcpRecvBufInitSize
        /\ TcpRecvBufInitSize <= TcpRecvBufMaxSize /\ TcpRecvBufInitSize % HDR = 0
    BY BufAssumption DEF HDR
  <2>3. 0 \in Nat /\ 0 <= 0
    OBVIOUS
  <2> QED BY <2>1, <2>2, <2>3, MakeBuf
<1>2. b = x /\ b = [buf |-> x.buf, size |-> x.size, w |-> 0, n |-> 0, r |-> 0]
  BY DEF Init
<1> HIDE DEF x
<1>3. Holds(b, <<>>, 0, 0, FALSE)
  BY <1>1, <1>2, EmptyHolds
<1>4. sock = <<>> /\ got = 0 /\ sent = 0 /\ closed = FALSE /\ head = FALSE /\ fresh \in BOOLEAN
  BY DEF Init
<1>5. Holds(b, sock, got, sent, closed)
  BY ONLY <1>3, <1>4, Zenon
<1>6. 0 \in 0 .. Ids - 1
  BY BufAssumption
<1> QED BY <1>4, <1>5, <1>6 DEF IInv

LEMMA OpenIInv == IInv /\ Open => IInv'
<1> SUFFICES ASSUME IInv, Open PROVE IInv'
  OBVIOUS
<1>1. BufType(b)
  BY DEF IInv, Holds
<1>2. PICK y : y = [buf |-> b.buf, size |-> b.size, w |-> 0, n |-> 0, r |-> 0]
  OBVIOUS
<1>3. Holds(Live(y), <<>>, got, got, FALSE)
  BY <1>1, <1>2, EmptyHolds, LiveHolds
<1>4. /\ b' = Live(y) /\ sock' = <<>> /\ got' = got /\ sent' = got /\ closed' = FALSE
      /\ head' = FALSE /\ fresh' = fresh
  BY <1>2 DEF Open
<1>5. Holds(b', sock', got', sent', closed')
  BY ONLY <1>3, <1>4, Zenon
<1> QED BY <1>4, <1>5 DEF IInv

LEMMA FrontIInv == IInv /\ Front => IInv'
<1> SUFFICES ASSUME IInv, Front PROVE IInv'
  OBVIOUS
<1>1. Holds(b, sock, got, sent, closed) /\ {fresh, head, closed} \subseteq BOOLEAN
      /\ {sent, got} \subseteq 0 .. Ids - 1
  BY DEF IInv
<1>2. PICK x : x = SkipHB(b)
  OBVIOUS
<1>3. Holds(x, sock, got, sent, closed) /\ Ready(x)
  BY <1>1, <1>2, SkipHolds
<1>4. sent' = sent /\ got' = got
  BY DEF Front
<1>5. CASE /\ x.r # x.n /\ fresh
           /\ b' = Live(x) /\ fresh' = FALSE /\ head' = TRUE
           /\ UNCHANGED <<sock, closed>>
  <2>1. Holds(Live(x), sock, got, sent, closed) /\ Ready(Live(x)) /\ Live(x).r # Live(x).n
    BY <1>3, <1>5, LiveHolds
  <2>2. Holds(b', sock', got', sent', closed') /\ Ready(b') /\ b'.r # b'.n
    BY ONLY <1>4, <1>5, <2>1, Zenon
  <2> QED BY <1>1, <1>4, <1>5, <2>2 DEF IInv, Ready
<1>6. CASE FrontRecv(Rewound(x)) /\ UNCHANGED fresh
  <2>1. PICK y : y = Rewound(x)
    OBVIOUS
  <2>2. Holds(y, sock, got, sent, closed) /\ Ready(y)
    BY <1>3, <2>1, RewoundHolds
  <2>3. CASE /\ b' = Live(y) /\ head' = (y.r # y.n)
             /\ UNCHANGED <<sock, closed>>
    <3>1. Holds(Live(y), sock, got, sent, closed) /\ Ready(Live(y))
          /\ Live(y).r = y.r /\ Live(y).n = y.n
      BY <2>2, LiveHolds
    <3>2. Holds(b', sock', got', sent', closed') /\ Ready(b') /\ b'.r = y.r /\ b'.n = y.n
      BY ONLY <1>4, <2>3, <3>1, Zenon
    <3> QED BY <1>1, <1>4, <1>6, <2>3, <3>2 DEF IInv, Ready
  <2>4. ASSUME ~closed, NEW len \in 1 .. Min({Writable(y) + Extra(y), Len(sock)}),
               NEW res, res = Parsed(Received(y, SubSeq(sock, 1, len)), len),
               b' = Live(res.b), closed' = res.close,
               head' = (~res.close /\ res.b.r # res.b.n),
               sock' = SubSeq(sock, len + 1, Len(sock))
        PROVE  IInv'
    <3>1. closed = FALSE
      BY <1>1, <2>4
    <3>2. Holds(y, sock, got, sent, FALSE)
      BY ONLY <2>2, <3>1, Zenon
    <3>3. len \in 1 .. Len(sock) /\ len <= Writable(y) + Extra(y)
      <4>1. BufType(y) /\ Len(sock) \in Nat
        BY <2>2, LenProperties DEF Holds
      <4>2. Writable(y) + Extra(y) \in Nat
        BY <4>1, ExtraBounds
      <4>3. PICK p \in Nat : p = Writable(y) + Extra(y)
        BY <4>2
      <4>4. Min({p, Len(sock)}) = IF p <= Len(sock) THEN p ELSE Len(sock)
        BY <4>1, MinOfTwo
      <4> QED BY <4>1, <4>3, <4>4
    <3>4. PICK rest : rest = SubSeq(sock, len + 1, Len(sock))
      OBVIOUS
    <3>5. Holds(res.b, rest, got, sent, res.close) /\ Ready(res.b) /\ res.close \in BOOLEAN
      <4>1. /\ Holds(res.b, SubSeq(sock, len + 1, Len(sock)), got, sent, res.close)
            /\ Ready(res.b) /\ res.close \in BOOLEAN
        BY <2>2, <2>4, <3>2, <3>3, ParsedHolds
      <4> QED BY ONLY <3>4, <4>1, Zenon
    <3>6. /\ Holds(Live(res.b), rest, got, sent, res.close) /\ Ready(Live(res.b))
          /\ Live(res.b).r = res.b.r /\ Live(res.b).n = res.b.n
      BY <3>5, LiveHolds
    <3>7. Holds(b', sock', got', sent', closed') /\ Ready(b') /\ b'.r = res.b.r /\ b'.n = res.b.n
      BY ONLY <1>4, <2>4, <3>4, <3>6, Zenon
    <3> QED BY <1>1, <1>4, <1>6, <2>4, <3>5, <3>7 DEF IInv, Ready
  <2> QED BY <1>6, <2>1, <2>3, <2>4 DEF FrontRecv
<1> QED BY <1>2, <1>5, <1>6 DEF Front

LEMMA PopIInv == IInv /\ Pop => IInv'
<1> SUFFICES ASSUME IInv, Pop PROVE IInv'
  OBVIOUS
<1>1. Holds(b, sock, got, sent, closed) /\ {fresh, head, closed} \subseteq BOOLEAN
      /\ {sent, got} \subseteq 0 .. Ids - 1 /\ head /\ b.r # b.n /\ Ready(b)
  BY DEF IInv, Pop
<1>2. BufType(b) /\ sock \in Seq(Cell)
  BY <1>1 DEF Holds
<1>3. PICK t \in Nat : t = Total(b, sock)
  BY <1>2, TotalType
<1>4. PICK f : f = Str(b, sock)
  OBVIOUS
<1>5. PICK m \in Nat : m = b.n - b.r /\ m > 0
  BY <1>1, <1>2, BufFacts
<1>6. Chain(f, t, got, sent) /\ ParsedTo(f, t, Held(b), m, closed)
  BY <1>1, <1>3, <1>4, <1>5 DEF Holds
<1>7. Held(b) \in 0 .. t /\ m \in 0 .. Held(b) /\ Starts(f, t, m)
  BY <1>6 DEF ParsedTo
<1>8. 0 \in 0 .. t - 1 /\ 0 < Held(b) /\ m \in 0 .. t /\ 0 < m
  BY <1>5, <1>7
<1>9. f[0] = b.buf[b.r]
  <2>1. b.r + 0 = b.r
    BY <1>2, BufFacts
  <2>2. f[0] = b.buf[b.r + 0]
    BY <1>2, <1>3, <1>4, <1>8, TotalType
  <2> QED BY <2>1, <2>2
<1>10. f[0].off = 0 /\ f[0].id = got /\ f[0] \in Cell /\ UnitOK(f[0])
  BY <1>6, <1>8 DEF Chain
<1>11. PICK p \in Nat : p = Pad(f[0].len) /\ p >= HDR
  BY <1>10, UnitFacts
<1>12. p \in 0 .. m
  <2>1. 0 + Pad(f[0].len) <= m
    BY <1>6, <1>7, <1>8, <1>10, Apart
  <2> QED BY <1>11, <2>1
<1>13. Starts(f, t, p) /\ (IF p < t THEN f[p].id = After(f[0]) ELSE sent = After(f[0]))
  <2>1. PICK e \in 1 .. t : /\ e = 0 + Pad(f[0].len) /\ Starts(f, t, e)
                            /\ IF e < t THEN f[e].id = After(f[0]) ELSE sent = After(f[0])
    BY <1>6, <1>8, <1>10, NextStart
  <2>2. e = p
    BY <1>11, <2>1
  <2> QED BY <2>1, <2>2
<1>14. After(f[0]) = NextId(got)
  <2>1. f[0].kind = "msg"
    BY <1>1, <1>9, <1>10 DEF Ready, Cell
  <2> QED BY <1>10, <2>1 DEF After
<1>15. LoadLen(b.buf[b.r]) = f[0].len
  <2>1. Held(b) - 0 >= HDR
    BY <1>7, <1>11, <1>12 DEF HDR
  <2>2. f[0].order = "host"
    BY <1>6, <1>8, <1>10, <2>1 DEF ParsedTo
  <2> QED BY <1>9, <2>2 DEF LoadLen
<1>16. PICK y : /\ y = [b EXCEPT !.r = b.r + p] /\ Holds(y, sock, NextId(got), sent, closed)
  BY <1>1, <1>3, <1>4, <1>5, <1>12, <1>13, <1>14, Dropped
<1>17. b' = Live(y)
  BY <1>11, <1>15, <1>16 DEF Pop
<1>18. Holds(Live(y), sock, NextId(got), sent, closed)
  BY <1>16, LiveHolds
<1>19. head' = FALSE /\ fresh' = TRUE /\ got' = NextId(got) /\ UNCHANGED <<closed, sock, sent>>
  BY DEF Pop
<1>20. Holds(b', sock', got', sent', closed')
  BY ONLY <1>17, <1>18, <1>19, Zenon
<1>21. NextId(got) \in 0 .. Ids - 1
  BY <1>1, NextIdType
<1> QED BY <1>1, <1>19, <1>20, <1>21 DEF IInv

LEMMA UnitsFacts ==
    ASSUME NEW id \in 0 .. Ids - 1, NEW kind \in {"msg", "hb"}, NEW len \in Nat, len >= HDR,
           kind = "hb" => len = HDR
    PROVE  /\ Units(id, kind, len) \in Seq(Cell) /\ Len(Units(id, kind, len)) = Pad(len)
           /\ \A i \in 1 .. Pad(len) :
                Units(id, kind, len)[i] = [id |-> id, off |-> i - 1, len |-> len,
                                           kind |-> kind, order |-> "net"]
<1>1. Pad(len) \in Nat
  BY PadBounds
<1>2. id \in Nat /\ len \in Nat \ {0}
  BY BufAssumption DEF HDR
<1>3. ASSUME NEW i \in 1 .. Pad(len)
      PROVE  [id |-> id, off |-> i - 1, len |-> len, kind |-> kind, order |-> "net"] \in Cell
  <2>1. i - 1 \in Nat
    BY <1>1
  <2> QED BY <1>2, <2>1 DEF Cell
<1> QED BY <1>1, <1>3 DEF Units

\* e is f with the message h behind its end.
Appended(e, f, t, u, h, kind, len) ==
    /\ \A k \in 0 .. t - 1 : e[k] = f[k]
    /\ \A k \in t .. u - 1 : e[k] = [id |-> h, off |-> k - t, len |-> len,
                                     kind |-> kind, order |-> "net"]

\* The message up to which it is parsed has not been refused.
Accepted(f, t, v, m) == ParsedTo(f, t, v, m, FALSE)

LEMMA AppendHolds ==
    ASSUME NEW t \in Nat, NEW f, NEW g, NEW h \in 0 .. Ids - 1, Chain(f, t, g, h),
           NEW v, NEW m, Accepted(f, t, v, m),
           NEW kind \in {"msg", "hb"}, NEW len \in Nat, len >= HDR, kind = "hb" => len = HDR,
           NEW p \in Nat, p = Pad(len), NEW u \in Nat, u = t + p,
           NEW z, z = (IF kind = "msg" THEN NextId(h) ELSE h),
           NEW e, Appended(e, f, t, u, h, kind, len)
    PROVE  /\ Chain(e, u, g, z)
           /\ Accepted(e, u, v, m)
<1> USE DEF Appended, Accepted
<1>0. p >= HDR /\ p > 0 /\ h \in Nat /\ h < Ids /\ len \in Nat \ {0}
  <2>1. p >= HDR /\ len # 0
    BY PadBounds DEF HDR
  <2> QED BY <2>1, BufAssumption DEF HDR
<1>1. ASSUME NEW k \in t .. u - 1
      PROVE  /\ e[k] \in Cell /\ UnitOK(e[k]) /\ e[k].id = h /\ e[k].off = k - t
             /\ e[k].len = len /\ e[k].kind = kind /\ e[k].order = "net"
             /\ After(e[k]) = IF kind = "msg" THEN NextId(h) ELSE h
  <2>1. PICK o \in Nat : o = k - t /\ o < p
    OBVIOUS
  <2>2. e[k] = [id |-> h, off |-> o, len |-> len, kind |-> kind, order |-> "net"]
    BY <2>1
  <2>3. e[k] \in Cell
    BY <1>0, <2>2 DEF Cell
  <2> QED BY <1>0, <2>1, <2>2, <2>3 DEF UnitOK, After
<1>2. ASSUME NEW k \in 0 .. u - 1 PROVE e[k] \in Cell /\ UnitOK(e[k])
  <2>1. CASE k < t
    <3>1. k \in 0 .. t - 1
      BY <2>1
    <3> QED BY <3>1 DEF Chain
  <2>2. CASE k >= t
    <3>1. k \in t .. u - 1
      BY <2>2
    <3> QED BY <1>1, <3>1
  <2> QED BY <2>1, <2>2
<1>3. ASSUME NEW k \in 0 .. u - 2 PROVE Linked(e[k], e[k + 1])
  <2>1. CASE k < t - 1
    <3>1. k \in 0 .. t - 2 /\ k \in 0 .. t - 1 /\ k + 1 \in 0 .. t - 1
      BY <2>1
    <3>2. Linked(f[k], f[k + 1])
      BY <3>1 DEF Chain
    <3> QED BY <3>1, <3>2
  <2>2. CASE k = t - 1
    <3>1. t > 0 /\ k \in 0 .. t - 1 /\ k + 1 \in t .. u - 1 /\ (k + 1) - t = 0
      BY <2>2
    <3>2. e[k] = f[t - 1]
      BY <2>2, <3>1
    <3>3. f[t - 1].off + 1 = Pad(f[t - 1].len) /\ After(f[t - 1]) = h
      BY <3>1 DEF Chain
    <3>4. e[k + 1].off = 0 /\ e[k + 1].id = h
      BY <1>1, <3>1
    <3>5. f[t - 1] \in Cell /\ UnitOK(f[t - 1])
      BY <2>2, <3>1 DEF Chain
    <3>6. ~(e[k].off + 1 < Pad(e[k].len))
      BY <3>2, <3>3, <3>5, UnitFacts
    <3> QED BY <3>2, <3>3, <3>4, <3>6 DEF Linked
  <2>3. CASE k >= t
    <3>1. k \in t .. u - 1 /\ k + 1 \in t .. u - 1 /\ (k + 1) - t = (k - t) + 1 /\ (k - t) + 1 < p
      BY <2>3
    <3>2. e[k].off = k - t /\ e[k].len = len /\ e[k].id = h /\ e[k].kind = kind
      BY <1>1, <3>1
    <3>3. e[k + 1].off = (k + 1) - t /\ e[k + 1].len = len /\ e[k + 1].id = h
          /\ e[k + 1].kind = kind
      BY <1>1, <3>1
    <3> QED BY <3>1, <3>2, <3>3 DEF Linked
  <2> QED BY <2>1, <2>2, <2>3
<1>4. e[0].off = 0 /\ e[0].id = g
  <2>1. CASE t = 0
    <3>1. 0 \in t .. u - 1 /\ 0 - t = 0
      BY <1>0, <2>1
    <3>2. g = h
      BY <2>1 DEF Chain
    <3> QED BY <1>1, <3>1, <3>2
  <2>2. CASE t > 0
    <3>1. 0 \in 0 .. t - 1
      BY <2>2
    <3> QED BY <2>2, <3>1 DEF Chain
  <2> QED BY <2>1, <2>2
<1>5. e[u - 1].off + 1 = Pad(e[u - 1].len)
      /\ After(e[u - 1]) = IF kind = "msg" THEN NextId(h) ELSE h
  <2>1. u - 1 \in t .. u - 1 /\ ((u - 1) - t) + 1 = p
    BY <1>0
  <2> QED BY <1>1, <2>1
<1>6. Chain(e, u, g, z)
  BY <1>0, <1>2, <1>3, <1>4, <1>5 DEF Chain
<1>7. v \in 0 .. t /\ m \in 0 .. v /\ Starts(f, t, m)
  BY DEF ParsedTo
<1>8. m < t => e[m] = f[m]
  BY <1>7
<1>9. Starts(e, u, m)
  <2>1. CASE m < t
    BY <1>7, <1>8, <2>1 DEF Starts
  <2>2. CASE m = t
    <3>1. m \in t .. u - 1 /\ m - t = 0
      BY <1>0, <1>7, <2>2
    <3>2. e[m].off = 0
      BY <1>1, <3>1
    <3> QED BY <3>1, <3>2 DEF Starts
  <2> QED BY <1>7, <2>1, <2>2
<1>10. m < v => m < t
  BY <1>7
<1>11. m < v => v - m < Pad(e[m].len)
  BY <1>8, <1>10 DEF ParsedTo
<1>12. ~(v - m >= HDR /\ Pad(e[m].len) > TcpRecvBufMaxSize)
  <2>1. v - m >= HDR => m < v
    BY <1>7 DEF HDR
  <2> QED BY <1>8, <1>10, <2>1 DEF ParsedTo
<1>13. ASSUME NEW k \in 0 .. u - 1
       PROVE  e[k].order = "host" <=> e[k].off = 0 /\ v - k >= HDR
  <2>1. CASE k < t
    <3>1. k \in 0 .. t - 1
      BY <2>1
    <3> QED BY <3>1 DEF ParsedTo
  <2>2. CASE k >= t
    <3>1. k \in t .. u - 1 /\ ~(v - k >= HDR)
      BY <1>7, <2>2 DEF HDR
    <3> QED BY <1>1, <3>1
  <2> QED BY <2>1, <2>2
<1>14. v \in 0 .. u
  BY <1>7
<1>15. Accepted(e, u, v, m)
  BY <1>7, <1>9, <1>11, <1>12, <1>13, <1>14 DEF ParsedTo
<1> QED BY <1>6, <1>15

LEMMA ArriveIInv ==
    ASSUME IInv, NEW kind \in {"msg", "hb"}, NEW len \in Nat, len >= HDR,
           kind = "hb" => len = HDR, Arrive(kind, len)
    PROVE  IInv'
<1>1. Holds(b, sock, got, sent, closed) /\ {fresh, head, closed} \subseteq BOOLEAN
      /\ {sent, got} \subseteq 0 .. Ids - 1 /\ (head => b.r # b.n /\ Ready(b))
  BY DEF IInv
<1>2. closed = FALSE
  BY <1>1 DEF Arrive
<1>3. Holds(b, sock, got, sent, FALSE)
  BY ONLY <1>1, <1>2, Zenon
<1>4. BufType(b) /\ sock \in Seq(Cell) /\ sent \in 0 .. Ids - 1
  BY <1>1 DEF Holds
<1>5. PICK t \in Nat : t = Total(b, sock)
  BY <1>4, TotalType
<1>6. PICK v \in Nat : v = Held(b) /\ v <= t /\ t = v + Len(sock) /\ Len(sock) \in Nat
  BY <1>4, <1>5, TotalType DEF Total
<1>7. PICK p \in Nat : p = Pad(len)
  BY PadBounds
<1>8. PICK s : s = sock \o Units(sent, kind, len)
  OBVIOUS
<1>9. /\ s \in Seq(Cell) /\ Len(s) = Len(sock) + p
      /\ \A i \in 1 .. Len(sock) : s[i] = sock[i]
      /\ \A i \in 1 .. p : s[Len(sock) + i] = [id |-> sent, off |-> i - 1, len |-> len,
                                               kind |-> kind, order |-> "net"]
  <2>1. PICK a : a = Units(sent, kind, len)
    OBVIOUS
  <2>2. /\ a \in Seq(Cell) /\ Len(a) = p
        /\ \A i \in 1 .. p : a[i] = [id |-> sent, off |-> i - 1, len |-> len,
                                     kind |-> kind, order |-> "net"]
    BY <1>4, <1>7, <2>1, UnitsFacts
  <2>3. /\ s \in Seq(Cell) /\ Len(s) = Len(sock) + Len(a)
        /\ \A i \in 1 .. Len(sock) + Len(a) :
             s[i] = IF i <= Len(sock) THEN sock[i] ELSE a[i - Len(sock)]
    BY <1>4, <1>8, <2>1, <2>2, ConcatProperties
  <2>4. ASSUME NEW i \in 1 .. p PROVE s[Len(sock) + i] = a[i]
    <3>1. /\ Len(sock) + i \in 1 .. Len(sock) + Len(a) /\ ~(Len(sock) + i <= Len(sock))
          /\ (Len(sock) + i) - Len(sock) = i
      BY <1>6, <2>2
    <3> QED BY <2>3, <3>1
  <2>5. ASSUME NEW i \in 1 .. Len(sock) PROVE s[i] = sock[i]
    <3>1. i \in 1 .. Len(sock) + Len(a) /\ i <= Len(sock)
      BY <1>6, <2>2
    <3> QED BY <2>3, <3>1
  <2> QED BY <2>2, <2>3, <2>4, <2>5
<1>10. PICK u \in Nat : u = t + p
  OBVIOUS
<1>11. Total(b, s) = u
  BY <1>6, <1>9, <1>10 DEF Total
<1>12. ASSUME NEW k \in 0 .. u - 1
       PROVE  Str(b, s)[k] = IF k < v THEN b.buf[b.r + k] ELSE s[k - v + 1]
  BY <1>4, <1>6, <1>9, <1>11, TotalType
<1>13. ASSUME NEW k \in 0 .. t - 1 PROVE Str(b, s)[k] = Str(b, sock)[k]
  <2>1. Str(b, sock)[k] = IF k < v THEN b.buf[b.r + k] ELSE sock[k - v + 1]
    BY <1>4, <1>5, <1>6, TotalType
  <2>2. k \in 0 .. u - 1
    BY <1>10
  <2>3. ~(k < v) => k - v + 1 \in 1 .. Len(sock)
    BY <1>6
  <2> QED BY <1>9, <1>12, <2>1, <2>2, <2>3
<1>14. ASSUME NEW k \in t .. u - 1
       PROVE  Str(b, s)[k] = [id |-> sent, off |-> k - t, len |-> len,
                              kind |-> kind, order |-> "net"]
  <2>1. PICK i \in 1 .. p : i - 1 = k - t /\ Len(sock) + i = k - v + 1
    <3>1. t = v + Len(sock) /\ Len(sock) \in Nat /\ v \in Nat /\ t \in Nat
          /\ p \in Nat /\ u = t + p /\ k \in t .. u - 1
      BY <1>6, <1>10
    <3>2. k - t + 1 \in 1 .. p /\ (k - t + 1) - 1 = k - t /\ Len(sock) + (k - t + 1) = k - v + 1
      BY ONLY <3>1
    <3> QED BY <3>2
  <2>2. k \in 0 .. u - 1 /\ ~(k < v)
    BY <1>6, <1>10
  <2> QED BY <1>9, <1>12, <2>1, <2>2
<1>15. Chain(Str(b, sock), t, got, sent) /\ ParsedTo(Str(b, sock), t, v, b.n - b.r, FALSE)
  BY <1>3, <1>5, <1>6 DEF Holds
<1>16. PICK h : h = IF kind = "msg" THEN NextId(sent) ELSE sent
  OBVIOUS
<1>17. Chain(Str(b, s), u, got, h) /\ ParsedTo(Str(b, s), u, v, b.n - b.r, FALSE)
  <2>1. PICK f, e, m : f = Str(b, sock) /\ e = Str(b, s) /\ m = b.n - b.r
    OBVIOUS
  <2>2. PICK g, d : g = got /\ d = sent
    OBVIOUS
  <2>3. Chain(f, t, g, d) /\ ParsedTo(f, t, v, m, FALSE)
    BY ONLY <1>15, <2>1, <2>2, Zenon
  <2>4. Accepted(f, t, v, m) /\ h = (IF kind = "msg" THEN NextId(d) ELSE d)
    BY ONLY <1>16, <2>2, <2>3 DEF Accepted
  <2>5. \A k \in 0 .. t - 1 : e[k] = f[k]
    BY ONLY <1>13, <2>1, Zenon
  <2>6. \A k \in t .. u - 1 : e[k] = [id |-> d, off |-> k - t, len |-> len,
                                      kind |-> kind, order |-> "net"]
    BY ONLY <1>14, <2>1, <2>2, Zenon
  <2>7. Appended(e, f, t, u, d, kind, len)
    BY ONLY <2>5, <2>6 DEF Appended
  <2>8. d \in 0 .. Ids - 1 /\ t \in Nat /\ p \in Nat /\ u \in Nat /\ u = t + p /\ p = Pad(len)
    BY <1>4, <1>7, <1>10, <2>2
  <2>9. kind \in {"msg", "hb"} /\ len \in Nat /\ len >= HDR /\ (kind = "hb" => len = HDR)
    OBVIOUS
  <2>10. Chain(e, u, g, h) /\ Accepted(e, u, v, m)
    BY ONLY <2>3, <2>4, <2>7, <2>8, <2>9, AppendHolds
  <2>11. ParsedTo(e, u, v, m, FALSE)
    BY ONLY <2>10 DEF Accepted
  <2> QED BY ONLY <2>1, <2>2, <2>10, <2>11, Zenon
<1>18. Holds(b, s, got, h, FALSE)
  BY <1>4, <1>6, <1>9, <1>11, <1>17 DEF Holds
<1>19. /\ b' = b /\ sock' = s /\ got' = got /\ sent' = h /\ closed' = FALSE
       /\ fresh' = fresh /\ head' = head
  BY <1>2, <1>8, <1>16 DEF Arrive
<1>20. Holds(b', sock', got', sent', closed')
  BY ONLY <1>18, <1>19, Zenon
<1>21. h \in 0 .. Ids - 1
  <2>1. sent \in 0 .. Ids - 1 /\ Ids \in Nat
    BY <1>4, BufAssumption
  <2>2. PICK i \in Nat : i = sent /\ i \in 0 .. Ids - 1
    BY ONLY <2>1
  <2>3. NextId(i) \in 0 .. Ids - 1
    BY NextIdType
  <2> QED BY ONLY <1>16, <2>2, <2>3
<1> QED BY <1>1, <1>19, <1>20, <1>21 DEF IInv, Ready

LEMMA NextIInv == IInv /\ [Next]_vars => IInv'
<1> SUFFICES ASSUME IInv, [Next]_vars PROVE IInv'
  OBVIOUS
<1>1. CASE Front
  BY <1>1, FrontIInv
<1>2. CASE Pop
  BY <1>2, PopIInv
<1>3. CASE Arrive("hb", HDR)
  BY <1>3, ArriveIInv DEF HDR
<1>4. CASE \E len \in MsgLens : Arrive("msg", len)
  <2>1. PICK len \in MsgLens : Arrive("msg", len)
    BY <1>4
  <2>2. len \in Nat /\ len >= HDR
    BY BufAssumption
  <2> QED BY <2>1, <2>2, ArriveIInv
<1>5. CASE Open
  BY <1>5, OpenIInv
<1>6. CASE UNCHANGED vars
  <2>1. /\ b' = b /\ sock' = sock /\ got' = got /\ sent' = sent /\ closed' = closed
        /\ fresh' = fresh /\ head' = head
    BY <1>6 DEF vars
  <2>2. Holds(b, sock, got, sent, closed) /\ {fresh, head, closed} \subseteq BOOLEAN
        /\ {sent, got} \subseteq 0 .. Ids - 1 /\ (head => b.r # b.n /\ Ready(b))
    BY DEF IInv
  <2>3. Holds(b', sock', got', sent', closed')
    BY ONLY <2>1, <2>2, Zenon
  <2> QED BY <2>1, <2>2, <2>3 DEF IInv, Ready
<1> QED BY <1>1, <1>2, <1>3, <1>4, <1>5, <1>6 DEF Next, Poll

-----------------------------------------------------------------------------
(* What the invariant says of the properties. *)

LEMMA AtCell ==
    ASSUME NEW x, BufType(x), NEW s \in Seq(Cell), NEW k \in Nat, k < Held(x)
    PROVE  Str(x, s)[k] = x.buf[x.r + k]
<1>1. Total(x, s) \in Nat /\ Held(x) \in Nat /\ Held(x) <= Total(x, s)
  BY TotalType
<1>2. k \in 0 .. Total(x, s) - 1
  BY <1>1
<1> QED BY <1>2, TotalType

LEMMA IInvTypeOK == IInv => TypeOK
<1> SUFFICES ASSUME IInv PROVE TypeOK
  OBVIOUS
<1>1. BufType(b) /\ (head => b.r # b.n) /\ {fresh, head, closed} \subseteq BOOLEAN
      /\ {sent, got} \subseteq 0 .. Ids - 1
  BY DEF IInv, Holds
<1>2. /\ b.r \in Nat /\ b.r <= b.n /\ b.n <= b.w /\ b.w <= b.size
      /\ b.size <= TcpRecvBufMaxSize /\ b.size % HDR = 0
  BY <1>1, BufFacts
<1>3. 0 <= b.r
  BY ONLY <1>2
<1> QED BY <1>1, <1>2, <1>3 DEF TypeOK

(* A unit is followed by the one the stream has after it.                   *)
LEMMA LinkedFollows == \A c, d : Linked(c, d) => Follows(c, d)
BY DEF Linked, Follows, After

LEMMA IInvStream == IInv => Stream
<1> SUFFICES ASSUME IInv PROVE Stream
  OBVIOUS
<1>1. BufType(b) /\ sock \in Seq(Cell) /\ Chain(Str(b, sock), Total(b, sock), got, sent)
  BY DEF IInv, Holds
<1>2. PICK v \in Nat : v = b.w - b.r /\ v = Held(b)
  BY <1>1, BufFacts DEF Held
<1>3. PICK t \in Nat : t = Total(b, sock) /\ t = v + Len(sock) /\ Len(sock) \in Nat
  BY <1>1, <1>2, TotalType DEF Total
<1>4. PICK a : a = [k \in 1 .. v |-> b.buf[b.r + k - 1]]
  OBVIOUS
<1>5. PICK f : f = Str(b, sock)
  OBVIOUS
<1>6. ASSUME NEW k \in 1 .. v PROVE a[k] = f[k - 1] /\ a[k] \in Cell
  <2>1. PICK i \in Nat : i = k - 1 /\ i < v /\ i \in 0 .. t - 1
    BY <1>3
  <2>2. f[i] = b.buf[b.r + i]
    BY ONLY <1>1, <1>2, <1>5, <2>1, AtCell
  <2>3. b.r \in Nat
    BY <1>1, BufFacts
  <2>4. b.r + i = b.r + k - 1
    BY ONLY <2>1, <2>3, k \in 1 .. v
  <2>5. f[i] \in Cell
    BY <1>1, <1>3, <1>5, <2>1 DEF Chain
  <2> QED BY <1>4, <2>1, <2>2, <2>4, <2>5
<1>7. a \in Seq(Cell) /\ Len(a) = v /\ DOMAIN a = 1 .. v
  BY <1>4, <1>6
<1>8. PICK s : s = a \o sock
  OBVIOUS
<1>9. /\ Len(s) = t
      /\ \A k \in 1 .. t : s[k] = IF k <= v THEN a[k] ELSE sock[k - v]
  BY <1>1, <1>3, <1>7, <1>8, ConcatProperties
<1>10. ASSUME NEW k \in 1 .. t PROVE s[k] = f[k - 1]
  <2>1. CASE k <= v
    <3>1. k \in 1 .. v
      BY <2>1
    <3> QED BY <1>6, <1>9, <2>1, <3>1
  <2>2. CASE k > v
    <3>1. PICK i \in Nat : i = k - 1 /\ i \in 0 .. t - 1 /\ ~(i < v) /\ i - v + 1 = k - v
      BY <1>2, <1>3, <2>2
    <3>2. f[i] = sock[i - v + 1]
      BY <1>1, <1>2, <1>3, <1>5, <3>1, TotalType
    <3> QED BY <1>9, <2>2, <3>1, <3>2
  <2> QED BY <1>2, <2>1, <2>2
<1>11. Chain(f, t, got, sent)
  BY ONLY <1>1, <1>3, <1>5, Zenon
<1>12. t > 0 => s[1].off = 0 /\ s[1].id = got
  <2>1. t > 0 => 1 \in 1 .. t /\ 1 - 1 = 0
    BY <1>3
  <2>2. t > 0 => f[0].off = 0 /\ f[0].id = got
    BY <1>11 DEF Chain
  <2> QED BY <1>10, <2>1, <2>2
<1>13. ASSUME NEW k \in 1 .. t - 1 PROVE Follows(s[k], s[k + 1])
  <2>1. PICK i \in 0 .. t - 2 : i = k - 1 /\ i + 1 = (k + 1) - 1
    <3>1. k - 1 \in 0 .. t - 2 /\ (k - 1) + 1 = (k + 1) - 1
      BY <1>3
    <3> QED BY <3>1
  <2>2. k \in 1 .. t /\ k + 1 \in 1 .. t
    BY <1>3
  <2>3. s[k] = f[i] /\ s[k + 1] = f[i + 1]
    BY <1>10, <2>1, <2>2
  <2>4. Linked(f[i], f[i + 1])
    BY <1>11 DEF Chain
  <2> QED BY <2>3, <2>4, LinkedFollows
<1>14. s = [k \in 1 .. b.w - b.r |-> b.buf[b.r + k - 1]] \o sock
  BY <1>2, <1>4, <1>8
<1>15. s # <<>> => t > 0
  BY <1>1, <1>3, <1>7, <1>8, <1>9, ConcatProperties, EmptySeq
<1> QED BY <1>9, <1>12, <1>13, <1>14, <1>15 DEF Stream

LEMMA IInvConverted == IInv => Converted
<1> SUFFICES ASSUME IInv, NEW i \in b.r .. b.w - 1, b.buf[i].off = 0
             PROVE  b.buf[i].order = "host" <=> i + HDR <= b.w
  BY DEF Converted
<1>1. BufType(b) /\ sock \in Seq(Cell)
      /\ ParsedTo(Str(b, sock), Total(b, sock), Held(b), b.n - b.r, closed)
  BY DEF IInv, Holds
<1>2. PICK r \in Nat : r = b.r
  BY <1>1, BufFacts
<1>3. PICK w \in Nat : w = b.w /\ r <= w
  BY <1>1, <1>2, BufFacts
<1>4. PICK v \in Nat : v = Held(b) /\ v = w - r
  BY <1>1, <1>2, <1>3, BufFacts DEF Held
<1>5. PICK t \in Nat : t = Total(b, sock) /\ v <= t
  <2>1. Total(b, sock) \in Nat /\ Held(b) \in 0 .. Total(b, sock)
    BY <1>1, TotalType
  <2> QED BY <1>4, <2>1
<1>6. PICK k \in Nat : k < v /\ r + k = i /\ v - k = w - i
  <2>1. i \in r .. w - 1
    BY <1>2, <1>3
  <2>2. i - r \in Nat /\ i - r < v /\ r + (i - r) = i /\ v - (i - r) = w - i
    BY ONLY <1>4, <2>1, r \in Nat, w \in Nat
  <2> QED BY <2>2
<1>7. Str(b, sock)[k] = b.buf[i]
  BY <1>1, <1>2, <1>4, <1>6, AtCell
<1>8. k \in 0 .. t - 1
  BY <1>5, <1>6
<1>9. b.buf[i].order = "host" <=> w - i >= HDR
  BY <1>1, <1>4, <1>5, <1>6, <1>7, <1>8 DEF ParsedTo
<1>10. w - i >= HDR <=> i + HDR <= w
  <2>1. i \in Int /\ w \in Int
    OBVIOUS
  <2> QED BY ONLY <2>1 DEF HDR
<1> QED BY <1>3, <1>9, <1>10

LEMMA IInvClosedRightly == IInv => ClosedRightly
<1> SUFFICES ASSUME IInv, closed PROVE Pad(b.buf[b.n].len) > TcpRecvBufMaxSize
  BY DEF ClosedRightly
<1>1. BufType(b) /\ sock \in Seq(Cell)
      /\ ParsedTo(Str(b, sock), Total(b, sock), Held(b), b.n - b.r, closed)
  BY DEF IInv, Holds
<1>2. PICK m \in Nat : m = b.n - b.r /\ b.r + m = b.n
  BY <1>1, BufFacts
<1>3. PICK v \in Nat : v = Held(b)
  BY <1>1, BufFacts
<1>4. v - m >= HDR /\ Pad(Str(b, sock)[m].len) > TcpRecvBufMaxSize
  BY <1>1, <1>2, <1>3 DEF ParsedTo
<1>5. m < v
  BY <1>4 DEF HDR
<1>6. Str(b, sock)[m] = b.buf[b.n]
  BY <1>1, <1>2, <1>3, <1>5, AtCell
<1> QED BY <1>4, <1>6

(* A full buffer whose first message is not complete can be compacted, or   *)
(* the message is larger than it, and it can be enlarged.                   *)
LEMMA RoomLeft ==
    ASSUME NEW x, NEW s, NEW g, NEW h, Holds(x, s, g, h, FALSE), x.r = x.n
    PROVE  Writable(x) + Extra(x) > 0
<1>1. BufType(x) /\ s \in Seq(Cell)
      /\ ParsedTo(Str(x, s), Total(x, s), Held(x), x.n - x.r, FALSE)
  BY DEF Holds
<1>2. PICK r \in Nat : r = x.r
  BY <1>1, BufFacts
<1>3. PICK w \in Nat : w = x.w
  BY <1>1, BufFacts
<1>4. PICK size \in Nat : /\ size = x.size /\ size >= HDR /\ size <= TcpRecvBufMaxSize
                          /\ TcpRecvBufMaxSize \in Nat /\ w <= size
  BY <1>1, <1>3, BufFacts
<1>5. Writable(x) = size - w
  BY <1>3, <1>4 DEF Writable
<1>6. PICK e \in Nat : /\ e = Extra(x) /\ (r > 0 => e > 0)
                       /\ 2 * ((size - w) + r) < size /\ size < TcpRecvBufMaxSize => e > 0
  BY <1>1, <1>2, <1>4, <1>5, ExtraBounds
<1>7. CASE w < size \/ r > 0
  <2>1. (size - w) + e > 0
    BY ONLY <1>4, <1>6, <1>7, w \in Nat, r \in Nat, size \in Nat, e \in Nat
  <2> QED BY <1>5, <1>6, <2>1
<1>8. CASE w = size /\ r = 0
  <2>1. Held(x) = size /\ x.n - x.r = 0
    BY <1>2, <1>3, <1>8 DEF Held
  <2>2. PICK p : p = Pad(Str(x, s)[0].len)
    OBVIOUS
  <2>3. 0 < size /\ size - 0 >= HDR
    BY <1>4 DEF HDR
  <2>4. size - 0 < p /\ ~(p > TcpRecvBufMaxSize)
    BY <1>1, <2>1, <2>2, <2>3 DEF ParsedTo
  <2>5. p \in Nat
    <3>1. Total(x, s) \in Nat /\ Held(x) <= Total(x, s)
      BY <1>1, TotalType
    <3>2. 0 \in 0 .. Total(x, s) - 1
      BY <2>1, <2>3, <3>1
    <3>3. Str(x, s)[0] \in Cell /\ UnitOK(Str(x, s)[0])
      BY <3>2 DEF Holds, Chain
    <3> QED BY <2>2, <3>3, UnitFacts
  <2>6. size < TcpRecvBufMaxSize
    BY ONLY <1>4, <2>4, <2>5, size \in Nat
  <2>7. (size - w) + e > 0
    BY ONLY <1>6, <1>8, <2>3, <2>6, size \in Nat, e \in Nat
  <2> QED BY <1>5, <1>6, <2>7
<1> QED BY <1>2, <1>3, <1>4, <1>7, <1>8

LEMMA IInvNeverStuck == IInv => NeverStuck
<1> SUFFICES ASSUME IInv, ~closed, Rewound(SkipHB(b)).r = Rewound(SkipHB(b)).n
             PROVE  Writable(Rewound(SkipHB(b))) + Extra(Rewound(SkipHB(b))) > 0
  BY DEF NeverStuck
<1>1. Holds(b, sock, got, sent, closed) /\ closed = FALSE
  BY DEF IInv
<1>2. Holds(b, sock, got, sent, FALSE)
  BY ONLY <1>1, Zenon
<1>3. Holds(SkipHB(b), sock, got, sent, FALSE) /\ Ready(SkipHB(b))
  BY ONLY <1>2, SkipHolds
<1>4. Holds(Rewound(SkipHB(b)), sock, got, sent, FALSE)
  BY ONLY <1>3, RewoundHolds
<1> QED BY <1>4, RoomLeft

-----------------------------------------------------------------------------
LEMMA Inductive == Spec => []IInv
BY InitIInv, NextIInv, PTL DEF Spec

(* The indices of the buffer stay in order and nothing is written past it,  *)
(* however large the two limits, the reads and the messages are.            *)
THEOREM TypeCorrect == Spec => []TypeOK
BY Inductive, IInvTypeOK, PTL

(* The buffer and the socket behind it hold the stream from the first       *)
(* message not popped on: DoRecv's compaction, its enlargement, Front and   *)
(* Pop lose, repeat and exchange nothing.                                   *)
THEOREM StreamKept == Spec => []Stream
BY Inductive, IInvStream, PTL

(* Front converts each header once, when all of it has arrived, also one    *)
(* that arrives in two reads or is moved before its message is complete.    *)
THEOREM HeadersConverted == Spec => []Converted
BY Inductive, IInvConverted, PTL

(* Front closes a connection only for a message that the largest buffer     *)
(* cannot hold.                                                             *)
THEOREM ClosedForTooLarge == Spec => []ClosedRightly
BY Inductive, IInvClosedRightly, PTL

(* DoRecv never runs out of room for the rest of a message that the largest *)
(* buffer can hold.                                                         *)
THEOREM NeverOutOfRoom == Spec => []NeverStuck
BY Inductive, IInvNeverStuck, PTL
=============================================================================
