-------------------------------- MODULE System --------------------------------
(***************************************************************************)
(* The running program: main, the listener and the sessions of Lifecycle   *)
(* over two instances of ConnPool, the geocoder client's and the weather   *)
(* client's.  A session that waits for an upstream is a request in that    *)
(* client's pool, and main's calls of Stop are the turns of their loops.   *)
(* All coroutines need a thread that has not left io_context::run.         *)
(***************************************************************************)
EXTENDS Naturals, Sequences

CONSTANTS
  Session,            \* connections served at the same time
  Threads,            \* CommonCfg::threads, a uint16_t
  GeoConnection,      \* yan_geo.connection
  WeatherConnection,  \* weather.connection
  NoClient,           \* a null HttpClientPtr
  Polls               \* timeTotalWaitMs / timeDelayMs

ASSUME SystemAssumption ==
  /\ Threads \in Nat /\ Threads < 65536
  /\ GeoConnection \in Nat /\ WeatherConnection \in Nat
  /\ Polls \in Nat \ {0}
  /\ NoClient \notin 0..255
  /\ Session \cap {"building", "free", "gone"} = {}

VARIABLES
  main, listener, session, idle, threads, missed,  \* as in Lifecycle
  geoPool, geoEnd, geoTask, geoResolved, geoPc, geoLease, geoLeft, geoStop,
  weaPool, weaEnd, weaTask, weaResolved, weaPc, weaLease, weaLeft, weaStop

lifeVars == <<main, listener, session, idle, threads, missed>>
geoVars == <<geoPool, geoEnd, geoTask, geoResolved, geoPc, geoLease, geoLeft, geoStop>>
weaVars == <<weaPool, weaEnd, weaTask, weaResolved, weaPc, weaLease, weaLeft, weaStop>>
vars == <<lifeVars, geoVars, weaVars>>

Geo == INSTANCE ConnPool WITH
         NumConnection <- GeoConnection, Request <- Session, Deaf <- {},
         pool <- geoPool, fEnd <- geoEnd, task <- geoTask, resolved <- geoResolved,
         pc <- geoPc, lease <- geoLease, left <- geoLeft, stop <- geoStop

Wea == INSTANCE ConnPool WITH
         NumConnection <- WeatherConnection, Request <- Session, Deaf <- {},
         pool <- weaPool, fEnd <- weaEnd, task <- weaTask, resolved <- weaResolved,
         pc <- weaPc, lease <- weaLease, left <- weaLeft, stop <- weaStop

\* What Lifecycle sees of the pools.
View(atRest, stop) ==
  IF atRest THEN "rest" ELSE IF stop = "stopped" THEN "stopped" ELSE "open"

PoolView ==
  [u \in {"geo", "weather"} |->
     IF u = "geo" THEN View(Geo!AtRest, geoStop) ELSE View(Wea!AtRest, weaStop)]

L == INSTANCE Lifecycle WITH pool <- PoolView

TypeOK == L!TypeOK /\ Geo!TypeOK /\ Wea!TypeOK

Init == Geo!Init /\ Wea!Init /\ L!Init

-----------------------------------------------------------------------------
(* The listener and the sessions. *)

\* What Lifecycle says of the listener, the executor's idle_ and the joins does not
\* involve the pools.
Listening ==
  /\ UNCHANGED <<geoVars, weaVars>>
  /\ L!Listen \/ L!Accept \/ L!ListenEnds

NewSession(s) == UNCHANGED <<geoVars, weaVars>> /\ L!NewSession(s)

\* Bug: the session does not await the answer.
AnsweredUnawaited(s, u) == TRUE

\* The call that session s awaits of an upstream has returned.
Answered(s, u) ==
  /\ u = "geo" => geoPc[s] = "none"
  /\ u = "weather" => weaPc[s] = "none"

SessionStep(s) ==
  /\ threads > 0
  /\ Answered(s, session[s])
  /\ \E wait \in L!After :
       /\ session[s] = wait[1]
       /\ session' = [session EXCEPT ![s] = wait[2]]
       /\ IF wait[2] = "geo" THEN Geo!Ask(s) ELSE UNCHANGED geoVars
       /\ IF wait[2] = "weather" THEN Wea!Ask(s) ELSE UNCHANGED weaVars
  /\ UNCHANGED <<main, listener, idle, threads, missed>>

-----------------------------------------------------------------------------
(* The pools. *)

GeoConnStep(c) == threads > 0 /\ Geo!ConnStep(c) /\ UNCHANGED <<lifeVars, weaVars>>

WeaConnStep(c) == threads > 0 /\ Wea!ConnStep(c) /\ UNCHANGED <<lifeVars, geoVars>>

GeoRequestStep(s) == threads > 0 /\ Geo!RequestStep(s) /\ UNCHANGED <<lifeVars, weaVars>>

WeaRequestStep(s) == threads > 0 /\ Wea!RequestStep(s) /\ UNCHANGED <<lifeVars, geoVars>>

-----------------------------------------------------------------------------
(* The threads, main and Manager::Stop. *)

\* Bug: the end of idle_ is enough, as if Executor::Stop called io_context::stop.
OutOfWorkAtOnce == ~idle

\* idle_ is gone, and no coroutine waits for anything.
OutOfWork ==
  /\ ~idle
  /\ listener = "ended"
  /\ \A s \in Session : session[s] = "none"
  /\ \A c \in Geo!Client : geoTask[c] \in {"idle", "gone"}
  /\ \A c \in Wea!Client : weaTask[c] \in {"idle", "gone"}

\* Bug: threads that have returned are counted again.
ThreadReturnsAgain ==
  /\ OutOfWork
  /\ threads' = threads - 1
  /\ UNCHANGED <<main, listener, session, idle, missed, geoVars, weaVars>>

ThreadReturns ==
  /\ OutOfWork
  /\ threads > 0
  /\ threads' = threads - 1
  /\ UNCHANGED <<main, listener, session, idle, missed, geoVars, weaVars>>

StopServer == UNCHANGED <<geoVars, weaVars>> /\ L!StopServer

\* A turn of a loop in ManagerConn::Stop.  After the last one main goes on.
StopGeo ==
  /\ main = "geo"
  /\ Geo!StopTurn
  /\ main' = IF geoStop' = "stopped" THEN "weather" ELSE main
  /\ UNCHANGED <<listener, session, idle, threads, missed, weaVars>>

StopWeather ==
  /\ main = "weather"
  /\ Wea!StopTurn
  /\ main' = IF weaStop' = "stopped" THEN "executor" ELSE main
  /\ UNCHANGED <<listener, session, idle, threads, missed, geoVars>>

StopExecutor == UNCHANGED <<geoVars, weaVars>> /\ (L!StopExecutor \/ L!Join)

-----------------------------------------------------------------------------

Stop == StopServer \/ StopGeo \/ StopWeather \/ StopExecutor

Next ==
  \/ Listening
  \/ \E s \in Session : NewSession(s) \/ SessionStep(s) \/ GeoRequestStep(s) \/ WeaRequestStep(s)
  \/ \E c \in Geo!Client : GeoConnStep(c)
  \/ \E c \in Wea!Client : WeaConnStep(c)
  \/ Stop
  \/ ThreadReturns

Spec == Init /\ [][Next]_vars

(***************************************************************************)
(* Stop goes on once begun.  The threads run what is ready, timers expire, *)
(* and the client and the upstream servers answer or fail.  An accept that *)
(* is pending need neither succeed nor fail, and a connection that is lost *)
(* need never be made again.                                               *)
(***************************************************************************)
Fairness ==
  /\ WF_vars(main # "getchar" /\ Stop)
  /\ WF_vars(listener \in {"spawned", "cancelled"} /\ Listening)
  /\ WF_vars(\E s \in Session : NewSession(s))
  /\ \A s \in Session : /\ WF_vars(SessionStep(s))
                        /\ WF_vars(GeoRequestStep(s))
                        /\ WF_vars(WeaRequestStep(s))
  /\ \A c \in Geo!Client : WF_vars(GeoConnStep(c))
  /\ \A c \in Wea!Client : WF_vars(WeaConnStep(c))
  /\ WF_vars(ThreadReturns)

FairSpec == Spec /\ Fairness

-----------------------------------------------------------------------------
(* Properties. *)

(***************************************************************************)
(* When Manager::Stop has returned, and the Manager with its clients, its  *)
(* database and the io_context is destroyed, no coroutine is left that     *)
(* uses one of them, and none can be started.                              *)
(***************************************************************************)
NothingLeftBehind == L!NothingLeftBehind

\* The program with its pools stops in the order and under the conditions that
\* Lifecycle describes: a pool at rest is at rest for good, whoever still asks it.
ImplementsLifecycle == L!Spec

\* A session's waits for its upstreams end, before Stop, during it and after it,
\* whether or not a connection is ever made.
SessionsEnd == \A s \in Session : session[s] = "request" ~> session[s] = "none"

\* Stop, from its first call to the last join, returns if its cancel did not miss
\* the accept: if it did, the listener goes on accepting and the join goes on waiting.
StopReturnsUnlessMissed == main = "geo" /\ ~missed ~> main = "ended"

=============================================================================
