----------------------------- MODULE SendWindow -----------------------------
(***************************************************************************)
(* What the send queue of a connection promises: a message stays, whole    *)
(* and in order, until it is acknowledged, and its blocks are handed to    *)
(* the socket once and in order, from the first unacknowledged message     *)
(* again after a login.                                                    *)
(***************************************************************************)
EXTENDS Naturals

CONSTANT MaxLen   \* blocks of the longest message

VARIABLES win,         \* the unacknowledged messages, as records [id, len]
          first, next, \* ids of the first of them, and of the next message
          pos          \* <<id, part>> of the block handed to the socket next

wvars == <<win, first, next, pos>>

\* The places pos can be at: a block of a message, or where the next will start.
Places == {<<next, 0>>} \cup UNION {{<<m.id, p>> : p \in 0 .. m.len - 1} : m \in win}

Before(p, q) == p[1] < q[1] \/ (p[1] = q[1] /\ p[2] < q[2])

WInit == win = {} /\ first = 0 /\ next = 0 /\ pos = <<0, 0>>

WPush ==
    /\ \E len \in 1 .. MaxLen : win' = win \cup {[id |-> next, len |-> len]}
    /\ next' = next + 1
    /\ UNCHANGED <<first, pos>>

WSend == pos' \in Places /\ Before(pos, pos') /\ UNCHANGED <<win, first, next>>

\* Of a message that leaves, blocks may be unsent: the process that sent them
\* before has died, and a login says that they were received.
WAck ==
    /\ first < next
    /\ win' = {m \in win : m.id # first}
    /\ first' = first + 1
    /\ pos' = IF pos[1] = first THEN <<first + 1, 0>> ELSE pos
    /\ UNCHANGED next

WLogin == pos' = <<first, 0>> /\ UNCHANGED <<win, first, next>>

WReset == win' = {} /\ first' = 0 /\ next' = 0 /\ pos' = <<0, 0>>

WNext == WPush \/ WSend \/ WAck \/ WLogin \/ WReset

WSpec == WInit /\ [][WNext]_wvars
=============================================================================
