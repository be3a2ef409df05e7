------------------------------ MODULE ConnPool ------------------------------
(***************************************************************************)
(* httpclient::ManagerConn, the pool of TLS connections to one upstream    *)
(* server, and httpclient::HttpClient, one such connection.  The geocoder  *)
(* client and the weather client each own a pool.                          *)
(*                                                                         *)
(* Who acts on a connection:                                               *)
(*   - a Connect, Reconnect or Disconnect coroutine (task[c]),             *)
(*   - a request that has taken it from the pool (lease[r] = c),           *)
(*   - nobody, while it waits in httpClients_ (pool).                      *)
(* The main thread calls Stop while the io_context's threads run all the   *)
(* others.  mut_ makes each locked block one step; fEnd_ is an atomic that *)
(* is also read outside the lock, and that reading is a step of its own    *)
(* where anything can happen before its result is used.                    *)
(***************************************************************************)
EXTENDS Naturals, Sequences

CONSTANTS
  NumConnection,  \* yan_geo.connection or weather.connection, a uint32_t
  Request,        \* callers of SendRecvAsync
  NoClient,       \* a null HttpClientPtr
  Polls,          \* timeTotalWaitMs / timeDelayMs
  Deaf            \* connections on which the server may for ever say nothing

\* Config::numConn is a uint8_t: only the low byte of the setting arrives.
NumConn == NumConnection % 256

\* Init numbers the connections it makes from NumConn - 1 down to 0.
Client == {i \in 0..NumConn : i < NumConn}

ASSUME PoolAssumption ==
  /\ NumConnection \in Nat
  /\ Polls \in Nat \ {0}
  /\ NoClient \notin Client
  /\ Deaf \subseteq Client
  /\ Request \cap {"building", "free", "gone"} = {}

VARIABLES
  pool,      \* httpClients_
  fEnd,      \* fEnd_
  task,      \* the coroutine at work on each connection
  resolved,  \* connections for which IsResolve holds
  pc,        \* where each request is
  lease,     \* the connection each request holds
  left,      \* timeTotalWaitMs, in polls
  stop       \* how far Stop is

connVars == <<task, resolved>>
requestVars == <<pc, lease, left>>
vars == <<pool, fEnd, task, resolved, pc, lease, left, stop>>

TaskState ==
  {"start",         \* Connect is spawned
   "resolve",       \* in async_resolve
   "resolveTimer",  \* waiting 1 s before it resolves again
   "connect",       \* in async_connect or async_handshake
   "connectTimer",  \* waiting 5 s before it connects again
   "reconnect",     \* Reconnect: in async_shutdown
   "disconnect",    \* Disconnect: in async_shutdown
   "gone",          \* no one refers to the connection any more
   "idle"}          \* in the pool, or held by a request

TypeOK ==
  /\ pool \in Seq(Client)
  /\ fEnd \in BOOLEAN
  /\ task \in [Client -> TaskState]
  /\ resolved \subseteq Client
  /\ pc \in [Request -> {"none", "check", "lock", "timer", "write", "read"}]
  /\ lease \in [Request -> Client \cup {NoClient}]
  /\ left \in [Request -> 0..Polls]
  /\ stop \in {"running", "draining", "stopped"}

\* ManagerConn::Init has run: it does before the executor's threads start.
Init ==
  /\ pool = <<>>
  /\ fEnd = FALSE
  /\ task = [c \in Client |-> "start"]
  /\ resolved = {}
  /\ pc = [r \in Request |-> "none"]
  /\ lease = [r \in Request |-> NoClient]
  /\ left = [r \in Request |-> 0]
  /\ stop = "running"

-----------------------------------------------------------------------------
(* ManagerConn::Connect, Reconnect and Disconnect. *)

SetTask(c, from, to) ==
  /\ task[c] = from
  /\ task' = [task EXCEPT ![c] = to]

\* The first loop's tests: give up after Stop, resolve at most once.
ResolveOrConnect(c) ==
  IF fEnd THEN "gone" ELSE IF c \in resolved THEN "connect" ELSE "resolve"

\* Connect begins, or begins again after a failed attempt to resolve.
BeginResolve(c) ==
  /\ \E from \in {"start", "resolveTimer"} : SetTask(c, from, ResolveOrConnect(c))
  /\ UNCHANGED <<pool, fEnd, resolved, requestVars, stop>>

Resolved(c) ==
  /\ SetTask(c, "resolve", IF fEnd THEN "gone" ELSE "connect")
  /\ resolved' = resolved \cup {c}
  /\ UNCHANGED <<pool, fEnd, requestVars, stop>>

ResolveFails(c) ==
  /\ SetTask(c, "resolve", "resolveTimer")
  /\ UNCHANGED <<pool, fEnd, resolved, requestVars, stop>>

\* Bug: no test of fEnd_ under the lock.
ConnectedUnchecked(c) ==
  /\ SetTask(c, "connect", "idle")
  /\ pool' = Append(pool, c)
  /\ UNCHANGED <<fEnd, resolved, requestVars, stop>>

\* The connection enters the pool, unless Stop has been called: fEnd_ is tested
\* again under the lock under which Stop sets it.
Connected(c) ==
  /\ SetTask(c, "connect", IF fEnd THEN "gone" ELSE "idle")
  /\ pool' = IF fEnd THEN pool ELSE Append(pool, c)
  /\ UNCHANGED <<fEnd, resolved, requestVars, stop>>

ConnectFails(c) ==
  /\ SetTask(c, "connect", "connectTimer")
  /\ UNCHANGED <<pool, fEnd, resolved, requestVars, stop>>

RetryConnect(c) ==
  /\ SetTask(c, "connectTimer", IF fEnd THEN "gone" ELSE "connect")
  /\ UNCHANGED <<pool, fEnd, resolved, requestVars, stop>>

\* Bug: Disconnect is spawned for a broken connection, not Reconnect.
ShutDownOnly(c) ==
  /\ SetTask(c, "reconnect", "gone")
  /\ UNCHANGED <<pool, fEnd, resolved, requestVars, stop>>

\* Reconnect goes on with Connect whether or not the shutdown succeeded.
ShutDown(c) ==
  /\ SetTask(c, "reconnect", ResolveOrConnect(c))
  /\ UNCHANGED <<pool, fEnd, resolved, requestVars, stop>>

Disconnected(c) ==
  /\ SetTask(c, "disconnect", "gone")
  /\ UNCHANGED <<pool, fEnd, resolved, requestVars, stop>>

-----------------------------------------------------------------------------
(* ManagerConn::SendRecvAsync and GetClient. *)

SetPc(r, from, to) ==
  /\ pc[r] = from
  /\ pc' = [pc EXCEPT ![r] = to]

\* A caller's request; the same caller may come back with another one.
Ask(r) ==
  /\ SetPc(r, "none", "check")
  /\ left' = [left EXCEPT ![r] = Polls]
  /\ UNCHANGED <<pool, fEnd, connVars, lease, stop>>

\* Bug: the loop does not look at fEnd_.
CheckEndNever(r) ==
  /\ SetPc(r, "check", "lock")
  /\ UNCHANGED <<pool, fEnd, connVars, lease, left, stop>>

\* The loop's test.  After Stop the caller gets an empty response.
CheckEnd(r) ==
  /\ SetPc(r, "check", IF fEnd THEN "none" ELSE "lock")
  /\ UNCHANGED <<pool, fEnd, connVars, lease, left, stop>>

\* Bug: no pop_front.
TakeClientKeeping(r) ==
  /\ pool # <<>>
  /\ SetPc(r, "lock", "write")
  /\ lease' = [lease EXCEPT ![r] = Head(pool)]
  /\ UNCHANGED <<pool, fEnd, connVars, left, stop>>

TakeClient(r) ==
  /\ pool # <<>>
  /\ SetPc(r, "lock", "write")
  /\ lease' = [lease EXCEPT ![r] = Head(pool)]
  /\ pool' = Tail(pool)
  /\ UNCHANGED <<fEnd, connVars, left, stop>>

PoolEmpty(r) ==
  /\ pool = <<>>
  /\ SetPc(r, "lock", "timer")
  /\ UNCHANGED <<pool, fEnd, connVars, lease, left, stop>>

\* Bug: one poll more, timeTotalWaitMs < 0 for <= 0.
PollOnceMore(r) ==
  /\ SetPc(r, "timer", IF left[r] = 0 THEN "none" ELSE "check")
  /\ left' = [left EXCEPT ![r] = left[r] - 1]
  /\ UNCHANGED <<pool, fEnd, connVars, lease, stop>>

\* Bug: timeTotalWaitMs is not counted down.
PollForEver(r) ==
  /\ SetPc(r, "timer", "check")
  /\ UNCHANGED <<pool, fEnd, connVars, lease, left, stop>>

\* The poll timer expires.  After the last wait the pool is not looked at
\* again: the caller gets an empty response.
Poll(r) ==
  /\ SetPc(r, "timer", IF left[r] = 1 THEN "none" ELSE "check")
  /\ left' = [left EXCEPT ![r] = left[r] - 1]
  /\ UNCHANGED <<pool, fEnd, connVars, lease, stop>>

Written(r) ==
  /\ SetPc(r, "write", "read")
  /\ UNCHANGED <<pool, fEnd, connVars, lease, left, stop>>

\* The response is read and the connection goes back, after Stop as before.
Answered(r) ==
  /\ SetPc(r, "read", "none")
  /\ pool' = Append(pool, lease[r])
  /\ lease' = [lease EXCEPT ![r] = NoClient]
  /\ UNCHANGED <<fEnd, connVars, left, stop>>

\* Bug: a broken connection is dropped.
SendRecvFailsForGood(r) ==
  /\ \E from \in {"write", "read"} : SetPc(r, from, "none")
  /\ lease' = [lease EXCEPT ![r] = NoClient]
  /\ UNCHANGED <<pool, fEnd, connVars, left, stop>>

\* The write or the read fails: the caller gets an empty response, and Reconnect
\* the connection.
SendRecvFails(r) ==
  /\ \E from \in {"write", "read"} : SetPc(r, from, "none")
  /\ task' = [task EXCEPT ![lease[r]] = "reconnect"]
  /\ lease' = [lease EXCEPT ![r] = NoClient]
  /\ UNCHANGED <<pool, fEnd, resolved, left, stop>>

-----------------------------------------------------------------------------
(* ManagerConn::Stop, one turn of its loop. *)

\* Bug: no pop_front.
StopTurnKeeping ==
  /\ stop # "stopped"
  /\ fEnd' = TRUE
  /\ IF pool # <<>>
     THEN /\ task' = [task EXCEPT ![Head(pool)] = "disconnect"]
          /\ stop' = "draining"
     ELSE /\ stop' = "stopped"
          /\ UNCHANGED task
  /\ UNCHANGED <<pool, resolved, requestVars>>

StopTurn ==
  /\ stop # "stopped"
  /\ fEnd' = TRUE
  /\ IF pool # <<>>
     THEN /\ task' = [task EXCEPT ![Head(pool)] = "disconnect"]
          /\ pool' = Tail(pool)
          /\ stop' = "draining"
     ELSE /\ stop' = "stopped"
          /\ UNCHANGED <<pool, task>>
  /\ UNCHANGED <<resolved, requestVars>>

\* Stop has returned, and no coroutine has anything left to do on a connection:
\* requests that still wait will find fEnd_ set.
AtRest ==
  /\ stop = "stopped"
  /\ \A c \in Client : task[c] \in {"idle", "gone"}
  /\ \A r \in Request : pc[r] \in {"none", "check", "timer"}

-----------------------------------------------------------------------------

ConnStep(c) ==
  \/ BeginResolve(c) \/ Resolved(c) \/ ResolveFails(c)
  \/ Connected(c) \/ ConnectFails(c) \/ RetryConnect(c)
  \/ ShutDown(c) \/ Disconnected(c)

RequestStep(r) ==
  \/ CheckEnd(r) \/ TakeClient(r) \/ PoolEmpty(r) \/ Poll(r)
  \/ Written(r) \/ Answered(r) \/ SendRecvFails(r)

Next ==
  \/ \E c \in Client : ConnStep(c)
  \/ \E r \in Request : Ask(r) \/ RequestStep(r)
  \/ StopTurn

Spec == Init /\ [][Next]_vars

(***************************************************************************)
(* Timers expire and the io_context's threads run what is ready, so every  *)
(* coroutine that can take a step takes one.  HttpClient sets no timeout,  *)
(* so of a deaf connection nothing is assumed; on the others the server,   *)
(* or TCP, answers or fails, and a server tried again and again is at last *)
(* reached.  A Stop once begun goes on.  Nothing obliges it to be called.  *)
(***************************************************************************)
Fairness ==
  /\ \A c \in Client \ Deaf : /\ WF_vars(ConnStep(c))
                              /\ SF_vars(Resolved(c))
                              /\ SF_vars(Connected(c))
  /\ \A r \in Request : WF_vars(lease[r] \notin Deaf /\ RequestStep(r))
  /\ WF_vars(fEnd /\ StopTurn)

FairSpec == Spec /\ Fairness

-----------------------------------------------------------------------------
(* Properties. *)

Pooled(c) == \E i \in 1..Len(pool) : pool[i] = c

Leased(c) == \E r \in Request : lease[r] = c

(***************************************************************************)
(* A connection is used by one party at a time: it is in the pool once, or *)
(* held by one request, or worked on by one coroutine.  So two requests    *)
(* never write to one TLS stream, and none writes to a stream that is      *)
(* being shut down or connected.                                           *)
(***************************************************************************)
OneUser ==
  /\ \A i, j \in 1..Len(pool) : pool[i] = pool[j] => i = j
  /\ \A r, q \in Request : lease[r] = lease[q] /\ lease[r] # NoClient => r = q
  /\ \A c \in Client : /\ ~(Pooled(c) /\ Leased(c))
                       /\ Pooled(c) \/ Leased(c) => task[c] = "idle"

Sending(r, c) == lease[r] = c /\ pc[r] \in {"write", "read"}

\* No connection drops out of use, whatever fails, until Stop is called: it can
\* be taken, a request that is not over is using it, or it is on its way back.
NoneLost ==
  \A c \in Client :
    ~fEnd => /\ task[c] \notin {"gone", "disconnect"}
             /\ task[c] = "idle" => Pooled(c) \/ \E r \in Request : Sending(r, c)

(***************************************************************************)
(* Once Stop has set fEnd_, only a request that was already using a        *)
(* connection can put it into the pool: no Connect or Reconnect that was   *)
(* under way brings one back behind Stop's loop.                           *)
(***************************************************************************)
NoRevivalAfterStop ==
  [][fEnd => \A c \in Client : ~Pooled(c) /\ Pooled(c)' => Leased(c)]_vars

(***************************************************************************)
(* A pool at rest stays at rest, whoever asks it and however many of those *)
(* that waited wake up: after Stop it never again gives the io_context     *)
(* anything to do for a connection.                                        *)
(***************************************************************************)
RestForGood == [][AtRest => AtRest']_vars

\* The pool does what ConnLease promises.
OwnerOf(c) ==
  IF Leased(c) THEN CHOOSE r \in Request : lease[r] = c
  ELSE IF Pooled(c) THEN "free"
  ELSE IF task[c] \in {"disconnect", "gone"} THEN "gone"
  ELSE "building"

L == INSTANCE ConnLease WITH
       Conn <- Client,
       Holder <- Request,
       owner <- [c \in Client |-> OwnerOf(c)],
       open <- ~fEnd

ImplementsLease == L!Spec

\* Every request gets an answer, if only an empty one.  The one exception is a
\* request that has taken a deaf connection: it holds up none of the others, not
\* even those that wait for a connection.
EveryRequestReturns ==
  \A r \in Request : pc[r] = "check" ~> (pc[r] = "none" \/ lease[r] \in Deaf)

\* A connection that broke is in the pool again some time later, or Stop is
\* called in between.
BrokenConnectionReturns ==
  \A c \in Client \ Deaf : task[c] = "reconnect" ~> (Pooled(c) \/ fEnd)

\* Stop returns, though requests keep coming and giving connections back, and
\* though others wait for an answer that never comes.
StopReturns == stop = "draining" ~> stop = "stopped"

\* After Stop every connection comes to rest for good: no coroutine works on it
\* and no request holds it, so it does not keep the executor running.
QuietAfterStop ==
  \A c \in Client \ Deaf : fEnd ~> [](task[c] \in {"idle", "gone"} /\ ~Leased(c))

=============================================================================
