------------------------------ MODULE ConnLease ------------------------------
(***************************************************************************)
(* What a pool of connections promises its users: a connection is lent to  *)
(* one request at a time, what a request gives back or breaks is offered   *)
(* again, and once the pool is closed no connection is offered that was    *)
(* not lent out already.                                                   *)
(***************************************************************************)
CONSTANTS
  Conn,
  Holder  \* contains none of "building", "free", "gone"

VARIABLES
  owner,  \* the holder of each connection, or why it has none
  open    \* the pool has not been closed

vars == <<owner, open>>

TypeOK ==
  /\ owner \in [Conn -> Holder \cup {"building", "free", "gone"}]
  /\ open \in BOOLEAN

Init ==
  /\ owner = [c \in Conn |-> "building"]
  /\ open = TRUE

Pass(c, from, to) ==
  /\ owner[c] = from
  /\ owner' = [owner EXCEPT ![c] = to]

\* A connection that is ready is offered, while the pool is open.
Offer(c) == open /\ Pass(c, "building", "free") /\ UNCHANGED open

\* A holder takes an offered connection; it holds at most one.
Take(h, c) ==
  /\ \A d \in Conn : owner[d] # h
  /\ Pass(c, "free", h)
  /\ UNCHANGED open

GiveBack(h, c) == Pass(c, h, "free") /\ UNCHANGED open

Break(h, c) == Pass(c, h, "building") /\ UNCHANGED open

\* A closed pool throws away what it has, and so does the closing itself.
Discard(c) ==
  /\ open' = FALSE
  /\ \/ Pass(c, "free", "gone")
     \/ ~open /\ Pass(c, "building", "gone")

Close == open' = FALSE /\ UNCHANGED owner

Next ==
  \/ \E c \in Conn : Offer(c) \/ Discard(c)
  \/ \E h \in Holder, c \in Conn : Take(h, c) \/ GiveBack(h, c) \/ Break(h, c)
  \/ Close

Spec == Init /\ [][Next]_vars

=============================================================================
