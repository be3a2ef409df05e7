------------------------------ MODULE Lifecycle ------------------------------
(***************************************************************************)
(* How the program stops: main and Manager::Stop on the main thread, the   *)
(* listener's coroutine (Server), the sessions it spawns (BusinessLogic),  *)
(* the two connection pools and the threads of the io_context (Executor).  *)
(*                                                                         *)
(* The io_context runs out of work, and its threads return, when idle_ is  *)
(* gone and no coroutine is left.  Of a session this module keeps whom it  *)
(* waits for.  Of a pool it keeps that it is at rest for good some time    *)
(* after Stop; System has the pools themselves and implements this module. *)
(***************************************************************************)
EXTENDS Naturals, FiniteSets

CONSTANTS
  Session,  \* connections served at the same time
  Threads   \* CommonCfg::threads, a uint16_t

\* In System this is an ASSUME.
LifecycleAssumption == Threads \in Nat /\ Threads < 65536

VARIABLES
  main,      \* the call the main thread is in
  listener,  \* where DoListen is
  session,   \* whom each BusinessLogic waits for: its client or an upstream
  pool,      \* what each upstream client's connections do
  idle,      \* Executor::idle_, which keeps the io_context from running out of work
  threads,   \* threads that have not returned from io_context::run
  missed     \* history: the cancel of Server::Stop found no accept to cancel

vars == <<main, listener, session, pool, idle, threads, missed>>

Upstream == {"geo", "weather"}

TypeOK ==
  /\ main \in {"getchar", "geo", "weather", "executor", "join", "ended"}
  /\ listener \in {"spawned", "accept", "accepted", "cancelled", "ended"}
  /\ session \in [Session -> {"none", "request", "answer"} \cup Upstream]
  /\ pool \in [Upstream -> {"open", "stopped", "rest"}]
  /\ idle \in BOOLEAN
  /\ threads \in 0..Threads
  /\ missed \in BOOLEAN

\* Manager::Run has been called: the listener and the pools' connections are
\* spawned, in this order, before the first thread starts.
Init ==
  /\ main = "getchar"
  /\ listener = "spawned"
  /\ session = [s \in Session |-> "none"]
  /\ pool = [u \in Upstream |-> "open"]
  /\ idle = TRUE
  /\ threads = Threads
  /\ missed = FALSE

-----------------------------------------------------------------------------
(* The listener.  Each step of a coroutine needs a thread. *)

\* The acceptor is opened, bound and made to listen; or it is not, or the address
\* of the settings is not one, and the server never listens.
Listen ==
  /\ threads > 0
  /\ listener = "spawned"
  /\ listener' \in {"accept", "ended"}
  /\ UNCHANGED <<main, session, pool, idle, threads, missed>>

\* A connection is accepted: from here to the next async_accept there is nothing
\* to cancel.
Accept ==
  /\ listener = "accept"
  /\ listener' = "accepted"
  /\ UNCHANGED <<main, session, pool, idle, threads, missed>>

\* The callback makes a session of it, and the loop accepts the next one.
NewSession(s) ==
  /\ threads > 0
  /\ listener = "accepted"
  /\ session[s] = "none"
  /\ listener' = "accept"
  /\ session' = [session EXCEPT ![s] = "request"]
  /\ UNCHANGED <<main, pool, idle, threads, missed>>

\* An exception ends the loop, whichever: the accept was cancelled or fails, or
\* the peer is gone before remote_endpoint asks for its address.
ListenEnds ==
  /\ threads > 0
  /\ listener \in {"accept", "accepted", "cancelled"}
  /\ listener' = "ended"
  /\ UNCHANGED <<main, session, pool, idle, threads, missed>>

-----------------------------------------------------------------------------
(* Sessions and pools. *)

\* Which wait of BusinessLogic may come after which.  A pool that has been stopped
\* answers like any other, with an empty response.
After ==
  {<<"request", "geo">>, <<"request", "weather">>, <<"request", "answer">>,
   <<"geo", "weather">>, <<"geo", "answer">>, <<"geo", "none">>,
   <<"weather", "answer">>, <<"answer", "none">>}

SessionStep(s) ==
  /\ threads > 0
  /\ \E wait \in After : /\ session[s] = wait[1]
                         /\ session' = [session EXCEPT ![s] = wait[2]]
  /\ UNCHANGED <<main, listener, pool, idle, threads, missed>>

PoolRests(u) ==
  /\ threads > 0
  /\ pool[u] = "stopped"
  /\ pool' = [pool EXCEPT ![u] = "rest"]
  /\ UNCHANGED <<main, listener, session, idle, threads, missed>>

-----------------------------------------------------------------------------
(* The threads. *)

OutOfWork ==
  /\ ~idle
  /\ listener = "ended"
  /\ \A s \in Session : session[s] = "none"
  /\ \A u \in Upstream : pool[u] = "rest"

ThreadReturns ==
  /\ OutOfWork
  /\ threads > 0
  /\ threads' = threads - 1
  /\ UNCHANGED <<main, listener, session, pool, idle, missed>>

-----------------------------------------------------------------------------
(* main and Manager::Stop. *)

\* Bug: no cancel.
StopServerOnly ==
  /\ main = "getchar"
  /\ main' = "geo"
  /\ missed' = (listener \in {"spawned", "accepted"})
  /\ UNCHANGED <<listener, session, pool, idle, threads>>

\* A key is pressed.  The cancel reaches an accept that is pending, and is without
\* effect otherwise.
StopServer ==
  /\ main = "getchar"
  /\ main' = "geo"
  /\ listener' = IF listener = "accept" THEN "cancelled" ELSE listener
  /\ missed' = (listener \in {"spawned", "accepted"})
  /\ UNCHANGED <<session, pool, idle, threads>>

StopPool(u) ==
  /\ main = u
  /\ main' = IF u = "geo" THEN "weather" ELSE "executor"
  /\ \E p \in {"stopped", "rest"} : pool' = [pool EXCEPT ![u] = p]
  /\ UNCHANGED <<listener, session, idle, threads, missed>>

StopExecutor ==
  /\ main = "executor"
  /\ main' = "join"
  /\ idle' = FALSE
  /\ UNCHANGED <<listener, session, pool, threads, missed>>

\* The last join returns; main leaves the block, which destroys the Manager.
Join ==
  /\ main = "join"
  /\ threads = 0
  /\ main' = "ended"
  /\ UNCHANGED <<listener, session, pool, idle, threads, missed>>

-----------------------------------------------------------------------------

Stop == StopServer \/ (\E u \in Upstream : StopPool(u)) \/ StopExecutor \/ Join

Work ==
  \/ Listen \/ Accept \/ ListenEnds
  \/ \E s \in Session : NewSession(s) \/ SessionStep(s)
  \/ \E u \in Upstream : PoolRests(u)

Next == Stop \/ Work \/ ThreadReturns

Spec == Init /\ [][Next]_vars

-----------------------------------------------------------------------------
(* Properties. *)

(***************************************************************************)
(* When Manager::Stop has returned, and the Manager with its clients, its  *)
(* database and the io_context is destroyed, no coroutine is left that     *)
(* uses one of them, and none can be started.                              *)
(***************************************************************************)
NothingLeftBehind ==
  main = "ended" /\ Threads > 0 =>
    /\ listener = "ended"
    /\ \A s \in Session : session[s] = "none"
    /\ \A u \in Upstream : pool[u] = "rest"

=============================================================================
