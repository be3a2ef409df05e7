--------------------------- MODULE LifecycleProofs ---------------------------
(***************************************************************************)
(* What is proved about Lifecycle, for every set of sessions and every     *)
(* number of threads.                                                      *)
(*                                                                         *)
(* NothingLeftBehind says something of the moment main ends; by itself it  *)
(* is not inductive.  What carries it there is that a thread has returned  *)
(* only if the io_context was out of work, and that a context without work *)
(* stays without: its idle_ has gone, which only the last step of Stop     *)
(* does, after which nobody can bring a coroutine into it from outside.    *)
(***************************************************************************)
EXTENDS Lifecycle, TLAPS

\* Executor::Stop comes last.
IdleGoesLast == ~idle => main \in {"join", "ended"}

\* A thread that is missing returned from a context that is out of work.
ReturnedOutOfWork == threads < Threads => OutOfWork

\* main waits for every thread.
EndedLast == main = "ended" => threads = 0

ThreadsNat == Threads \in Nat

IInv == ThreadsNat /\ TypeOK /\ IdleGoesLast /\ ReturnedOutOfWork /\ EndedLast

\* The program starts with all its threads, its idle_ and the main thread at
\* getchar (winmain.cpp:65).
LEMMA InitIInv == ASSUME LifecycleAssumption, Init PROVE IInv
<1>0. ThreadsNat
  BY DEF LifecycleAssumption, ThreadsNat
<1>1. threads \in 0..Threads /\ ~(threads < Threads)
  BY <1>0 DEF Init, ThreadsNat
<1>2. TypeOK
  BY <1>1, Zenon DEF Init, TypeOK, Upstream
<1>3. IdleGoesLast /\ EndedLast
  BY Zenon DEF Init, IdleGoesLast, EndedLast
<1> QED
  BY <1>0, <1>1, <1>2, <1>3, Zenon DEF IInv, ReturnedOutOfWork

\* No step of a coroutine or of the main thread gives work to a context that is
\* out of it, not even an accept, a new session or the stop of a pool.
LEMMA OutOfWorkStays == IInv /\ OutOfWork /\ [Next]_vars => OutOfWork'
<1> SUFFICES ASSUME IInv, OutOfWork, [Next]_vars PROVE OutOfWork'
  OBVIOUS
<1> USE DEF IInv, TypeOK, IdleGoesLast, OutOfWork, Upstream
<1>1. CASE Stop
  BY <1>1 DEF Stop, StopServer, StopPool, StopExecutor, Join
<1>2. CASE Listen \/ Accept \/ ListenEnds
  BY <1>2 DEF Listen, Accept, ListenEnds
<1>3. ASSUME NEW s \in Session, NewSession(s) PROVE OutOfWork'
  BY <1>3 DEF NewSession
<1>4. ASSUME NEW s \in Session, SessionStep(s) PROVE OutOfWork'
  BY <1>4 DEF SessionStep, After
<1>5. ASSUME NEW u \in Upstream, PoolRests(u) PROVE OutOfWork'
  BY <1>5 DEF PoolRests
<1>6. CASE ThreadReturns
  BY <1>6 DEF ThreadReturns
<1>7. CASE UNCHANGED vars
  BY <1>7 DEF vars
<1> QED
  BY <1>1, <1>2, <1>3, <1>4, <1>5, <1>6, <1>7 DEF Next, Work

\* Every step keeps every variable in its type.
LEMMA StepTypeOK == IInv /\ [Next]_vars => TypeOK'
<1> SUFFICES ASSUME IInv, [Next]_vars PROVE TypeOK'
  OBVIOUS
<1> USE DEF IInv, TypeOK
<1>1. CASE Stop
  <2>1. CASE StopServer
    <3>1. missed' \in BOOLEAN
      <4>1. missed' = (listener \in {"spawned", "accepted"})
        BY <2>1, Zenon DEF StopServer
      <4>2. (listener \in {"spawned", "accepted"}) \in BOOLEAN
        BY SMT
      <4> QED
        BY <4>1, <4>2, Zenon
    <3>2. main' \in {"getchar", "geo", "weather", "executor", "join", "ended"}
      BY <2>1, Zenon DEF StopServer
    <3>3. listener' \in {"spawned", "accept", "accepted", "cancelled", "ended"}
      <4>1. listener' = "cancelled" \/ listener' = listener
        BY <2>1, Zenon DEF StopServer
      <4> QED
        BY <4>1, Zenon
    <3> QED
      BY <2>1, <3>1, <3>2, <3>3, Zenon DEF StopServer
  <2>2. ASSUME NEW u \in Upstream, StopPool(u) PROVE TypeOK'
    BY <2>2 DEF StopPool
  <2>3. CASE StopExecutor
    BY <2>3, Zenon DEF StopExecutor
  <2>4. CASE Join
    BY <2>4 DEF Join
  <2> QED
    BY <1>1, <2>1, <2>2, <2>3, <2>4 DEF Stop
<1>2. CASE Listen \/ Accept \/ ListenEnds
  BY <1>2 DEF Listen, Accept, ListenEnds
<1>3. ASSUME NEW s \in Session, NewSession(s) PROVE TypeOK'
  BY <1>3 DEF NewSession
<1>4. ASSUME NEW s \in Session, SessionStep(s) PROVE TypeOK'
  <2>1. \A wait \in After : wait[2] \in {"none", "request", "answer"} \cup Upstream
    BY DEF After, Upstream
  <2> QED
    BY <1>4, <2>1 DEF SessionStep
<1>5. ASSUME NEW u \in Upstream, PoolRests(u) PROVE TypeOK'
  BY <1>5 DEF PoolRests
<1>6. CASE ThreadReturns
  <2>1. threads' \in 0..Threads
    BY <1>6 DEF ThreadReturns, ThreadsNat
  <2> QED
    BY <1>6, <2>1 DEF ThreadReturns
<1>7. CASE UNCHANGED vars
  BY <1>7 DEF vars
<1> QED
  BY <1>1, <1>2, <1>3, <1>4, <1>5, <1>6, <1>7 DEF Next, Work

LEMMA StepIInv == IInv /\ [Next]_vars => IInv'
<1> SUFFICES ASSUME IInv, [Next]_vars PROVE IInv'
  OBVIOUS
<1>1. TypeOK'
  BY StepTypeOK
<1>2. IdleGoesLast'
  <2>1. CASE Stop
    BY <2>1, Zenon DEF IInv, IdleGoesLast, Stop, StopServer, StopPool, StopExecutor, Join,
                       Upstream
  <2>2. CASE ~Stop
    <3>1. UNCHANGED <<main, idle>>
      BY <2>2 DEF Next, Work, Listen, Accept, ListenEnds, NewSession, SessionStep, PoolRests,
                  ThreadReturns, vars
    <3> QED
      BY <3>1, Zenon DEF IInv, IdleGoesLast
  <2> QED
    BY <2>1, <2>2
<1>3. ReturnedOutOfWork'
  <2>1. CASE ThreadReturns
    <3>1. OutOfWork
      BY <2>1 DEF ThreadReturns
    <3> QED
      BY <3>1, OutOfWorkStays DEF ReturnedOutOfWork
  <2>2. CASE ~ThreadReturns
    <3>1. threads' = threads
      BY <2>2 DEF Next, Work, Stop, StopServer, StopPool, StopExecutor, Join, Listen,
                  Accept, ListenEnds, NewSession, SessionStep, PoolRests, vars
    <3> QED
      BY <3>1, OutOfWorkStays DEF IInv, ReturnedOutOfWork
  <2> QED
    BY <2>1, <2>2
<1>4. EndedLast'
  <2>1. CASE Join
    BY <2>1 DEF Join, EndedLast
  <2>2. CASE ThreadReturns
    BY <2>2 DEF IInv, ThreadsNat, TypeOK, EndedLast, ThreadReturns
  <2>3. CASE ~Join /\ ~ThreadReturns
    <3>1. main' = "ended" => main = "ended"
      BY <2>3 DEF Next, Work, Stop, StopServer, StopPool, StopExecutor, Listen, Accept,
                  ListenEnds, NewSession, SessionStep, PoolRests, Upstream, vars
    <3>2. threads' = threads
      BY <2>3 DEF Next, Work, Stop, StopServer, StopPool, StopExecutor, Listen, Accept,
                  ListenEnds, NewSession, SessionStep, PoolRests, vars
    <3> QED
      BY <3>1, <3>2 DEF IInv, EndedLast
  <2> QED
    BY <2>1, <2>2, <2>3
<1> QED
  BY <1>1, <1>2, <1>3, <1>4 DEF IInv, ThreadsNat

\* The inductive invariant holds of every behaviour.
THEOREM Invariance ==
  ASSUME LifecycleAssumption PROVE Spec => []IInv
<1> QED
  BY InitIInv, StepIInv, PTL DEF Spec

\* Types: no more threads return than were started, and no step of Stop is
\* taken twice.
THEOREM TypeCorrect ==
  ASSUME LifecycleAssumption PROVE Spec => []TypeOK
<1>1. IInv => TypeOK
  BY DEF IInv
<1> QED
  BY <1>1, Invariance, PTL

\* When Manager::Stop has returned (WeatherManager.cpp:120), no coroutine is left
\* that uses what the destruction of the Manager destroys.
THEOREM CleanEnd ==
  ASSUME LifecycleAssumption PROVE Spec => []NothingLeftBehind
<1>1. IInv => NothingLeftBehind
  <2>1. IInv /\ main = "ended" /\ Threads > 0 => threads < Threads
    BY DEF IInv, ThreadsNat, EndedLast
  <2> QED
    BY <2>1, Zenon DEF IInv, ReturnedOutOfWork, OutOfWork, NothingLeftBehind
<1> QED
  BY <1>1, Invariance, PTL

=============================================================================
