----------------------------- MODULE SystemProofs -----------------------------
(***************************************************************************)
(* What is proved about System, for every set of sessions, every number of *)
(* threads and every number of connections: it implements Lifecycle and,   *)
(* for each client, ConnPool, and it leaves nothing behind when it ends.   *)
(*                                                                         *)
(* The invariant relates the three parts: main is past a pool's Stop only  *)
(* when that pool's loop is over, fEnd_ is set from its first turn on, and *)
(* a pool serves exactly the sessions that wait for it.                    *)
(***************************************************************************)
EXTENDS System, TLAPS

PoolTypes ==
  /\ geoTask \in [Geo!Client -> Geo!TaskState]
  /\ weaTask \in [Wea!Client -> Wea!TaskState]
  /\ geoPc \in [Session -> {"none", "check", "lock", "timer", "write", "read"}]
  /\ weaPc \in [Session -> {"none", "check", "lock", "timer", "write", "read"}]
  /\ session \in [Session -> {"none", "request", "answer", "geo", "weather"}]

\* Manager::Stop works its way through the parts.
StopInOrder ==
  /\ main \in {"weather", "executor", "join", "ended"} => geoStop = "stopped"
  /\ main \in {"executor", "join", "ended"} => weaStop = "stopped"
  /\ ~idle => main \in {"join", "ended"}

EndIsSet == (geoStop = "stopped" => geoEnd) /\ (weaStop = "stopped" => weaEnd)

\* Only a session that waits for an upstream is a request in its pool.
OneWait ==
  \A s \in Session : /\ session[s] # "geo" => geoPc[s] = "none"
                     /\ session[s] # "weather" => weaPc[s] = "none"

IInv == PoolTypes /\ StopInOrder /\ EndIsSet /\ OneWait

LEMMA InitIInv == Init => IInv
<1> SUFFICES ASSUME Init PROVE IInv
  OBVIOUS
<1>1. PoolTypes
  BY DEF Init, L!Init, Geo!Init, Wea!Init, PoolTypes, Geo!TaskState, Wea!TaskState
<1>2. StopInOrder /\ EndIsSet /\ OneWait
  BY DEF Init, L!Init, Geo!Init, Wea!Init, StopInOrder, EndIsSet, OneWait
<1> QED
  BY <1>1, <1>2 DEF IInv

-----------------------------------------------------------------------------
(* A coroutine at work on a connection is no rest, and a request that asks a pool  *)
(* at rest does not disturb it.                                                    *)

LEMMA GeoConnMoves ==
  ASSUME IInv, NEW c \in Geo!Client, Geo!ConnStep(c)
  PROVE  /\ geoTask' \in [Geo!Client -> Geo!TaskState]
         /\ UNCHANGED <<geoPc, geoStop, geoEnd>>
         /\ ~Geo!AtRest
<1> USE DEF Geo!BeginResolve, Geo!Resolved, Geo!ResolveFails, Geo!Connected, Geo!ConnectFails,
            Geo!RetryConnect, Geo!ShutDown, Geo!Disconnected, Geo!SetTask, Geo!requestVars
<1>1. UNCHANGED <<geoPc, geoStop, geoEnd>>
  BY DEF Geo!ConnStep
<1>2. PICK to \in Geo!TaskState : geoTask' = [geoTask EXCEPT ![c] = to]
  BY DEF Geo!ConnStep, Geo!ResolveOrConnect, Geo!TaskState
<1>3. geoTask[c] \notin {"idle", "gone"}
  BY DEF Geo!ConnStep
<1> QED
  BY <1>1, <1>2, <1>3 DEF IInv, PoolTypes, Geo!AtRest

LEMMA GeoRequestMoves ==
  ASSUME IInv, NEW s \in Session, Geo!RequestStep(s)
  PROVE  /\ geoTask' \in [Geo!Client -> Geo!TaskState]
         /\ geoPc[s] # "none"
         /\ \E to \in {"none", "check", "lock", "timer", "write", "read"} :
              geoPc' = [geoPc EXCEPT ![s] = to]
         /\ UNCHANGED <<geoStop, geoEnd>>
         /\ Geo!AtRest => Geo!AtRest'
<1> USE DEF Geo!CheckEnd, Geo!TakeClient, Geo!PoolEmpty, Geo!Poll, Geo!Written, Geo!Answered,
            Geo!SendRecvFails, Geo!SetPc, Geo!connVars
<1>1. UNCHANGED <<geoStop, geoEnd>> /\ geoPc[s] # "none"
  BY DEF Geo!RequestStep
<1>2. \E to \in {"none", "check", "lock", "timer", "write", "read"} :
        geoPc' = [geoPc EXCEPT ![s] = to]
  BY DEF Geo!RequestStep
<1>3. geoTask' = geoTask \/ geoTask' = [geoTask EXCEPT ![geoLease[s]] = "reconnect"]
  BY DEF Geo!RequestStep
<1>4. geoTask' \in [Geo!Client -> Geo!TaskState]
  BY <1>3 DEF IInv, PoolTypes, Geo!TaskState
<1>5. ASSUME Geo!AtRest PROVE Geo!AtRest'
  <2>1. geoStop = "stopped" /\ geoEnd /\ geoPc[s] \in {"check", "timer"}
    BY <1>1, <1>5 DEF Geo!AtRest, IInv, EndIsSet
  <2>2. Geo!CheckEnd(s) \/ Geo!Poll(s)
    BY <2>1 DEF Geo!RequestStep
  <2>3. geoTask' = geoTask
    BY <2>2
  <2>4. PICK to \in {"none", "check"} : geoPc' = [geoPc EXCEPT ![s] = to]
    BY <2>1, <2>2
  <2> QED
    BY <1>1, <1>5, <2>3, <2>4 DEF Geo!AtRest, IInv, PoolTypes
<1> QED
  BY <1>1, <1>2, <1>4, <1>5

LEMMA GeoAsked ==
  ASSUME IInv, NEW s \in Session, Geo!Ask(s)
  PROVE  /\ UNCHANGED <<geoTask, geoStop, geoEnd>>
         /\ geoPc' = [geoPc EXCEPT ![s] = "check"]
         /\ Geo!AtRest' <=> Geo!AtRest
<1>1. /\ UNCHANGED <<geoTask, geoStop, geoEnd>>
      /\ geoPc[s] = "none"
      /\ geoPc' = [geoPc EXCEPT ![s] = "check"]
  BY DEF Geo!Ask, Geo!SetPc, Geo!connVars
<1> QED
  BY <1>1 DEF Geo!AtRest, IInv, PoolTypes

LEMMA WeaConnMoves ==
  ASSUME IInv, NEW c \in Wea!Client, Wea!ConnStep(c)
  PROVE  /\ weaTask' \in [Wea!Client -> Wea!TaskState]
         /\ UNCHANGED <<weaPc, weaStop, weaEnd>>
         /\ ~Wea!AtRest
<1> USE DEF Wea!BeginResolve, Wea!Resolved, Wea!ResolveFails, Wea!Connected, Wea!ConnectFails,
            Wea!RetryConnect, Wea!ShutDown, Wea!Disconnected, Wea!SetTask, Wea!requestVars
<1>1. UNCHANGED <<weaPc, weaStop, weaEnd>>
  BY DEF Wea!ConnStep
<1>2. PICK to \in Wea!TaskState : weaTask' = [weaTask EXCEPT ![c] = to]
  BY DEF Wea!ConnStep, Wea!ResolveOrConnect, Wea!TaskState
<1>3. weaTask[c] \notin {"idle", "gone"}
  BY DEF Wea!ConnStep
<1> QED
  BY <1>1, <1>2, <1>3 DEF IInv, PoolTypes, Wea!AtRest

LEMMA WeaRequestMoves ==
  ASSUME IInv, NEW s \in Session, Wea!RequestStep(s)
  PROVE  /\ weaTask' \in [Wea!Client -> Wea!TaskState]
         /\ weaPc[s] # "none"
         /\ \E to \in {"none", "check", "lock", "timer", "write", "read"} :
              weaPc' = [weaPc EXCEPT ![s] = to]
         /\ UNCHANGED <<weaStop, weaEnd>>
         /\ Wea!AtRest => Wea!AtRest'
<1> USE DEF Wea!CheckEnd, Wea!TakeClient, Wea!PoolEmpty, Wea!Poll, Wea!Written, Wea!Answered,
            Wea!SendRecvFails, Wea!SetPc, Wea!connVars
<1>1. UNCHANGED <<weaStop, weaEnd>> /\ weaPc[s] # "none"
  BY DEF Wea!RequestStep
<1>2. \E to \in {"none", "check", "lock", "timer", "write", "read"} :
        weaPc' = [weaPc EXCEPT ![s] = to]
  BY DEF Wea!RequestStep
<1>3. weaTask' = weaTask \/ weaTask' = [weaTask EXCEPT ![weaLease[s]] = "reconnect"]
  BY DEF Wea!RequestStep
<1>4. weaTask' \in [Wea!Client -> Wea!TaskState]
  BY <1>3 DEF IInv, PoolTypes, Wea!TaskState
<1>5. ASSUME Wea!AtRest PROVE Wea!AtRest'
  <2>1. weaStop = "stopped" /\ weaEnd /\ weaPc[s] \in {"check", "timer"}
    BY <1>1, <1>5 DEF Wea!AtRest, IInv, EndIsSet
  <2>2. Wea!CheckEnd(s) \/ Wea!Poll(s)
    BY <2>1 DEF Wea!RequestStep
  <2>3. weaTask' = weaTask
    BY <2>2
  <2>4. PICK to \in {"none", "check"} : weaPc' = [weaPc EXCEPT ![s] = to]
    BY <2>1, <2>2
  <2> QED
    BY <1>1, <1>5, <2>3, <2>4 DEF Wea!AtRest, IInv, PoolTypes
<1> QED
  BY <1>1, <1>2, <1>4, <1>5

LEMMA WeaAsked ==
  ASSUME IInv, NEW s \in Session, Wea!Ask(s)
  PROVE  /\ UNCHANGED <<weaTask, weaStop, weaEnd>>
         /\ weaPc' = [weaPc EXCEPT ![s] = "check"]
         /\ Wea!AtRest' <=> Wea!AtRest
<1>1. /\ UNCHANGED <<weaTask, weaStop, weaEnd>>
      /\ weaPc[s] = "none"
      /\ weaPc' = [weaPc EXCEPT ![s] = "check"]
  BY DEF Wea!Ask, Wea!SetPc, Wea!connVars
<1> QED
  BY <1>1 DEF Wea!AtRest, IInv, PoolTypes

-----------------------------------------------------------------------------
(* The invariant is inductive. *)

\* What Lifecycle lets the listener, a new session and main do without the pools.
LEMMA LifeMoves ==
  ASSUME IInv, Listening \/ (\E s \in Session : NewSession(s)) \/ StopServer \/ StopExecutor
  PROVE  IInv'
<1> USE DEF Listening, NewSession, StopServer, StopExecutor, L!Listen, L!Accept, L!ListenEnds,
            L!NewSession, L!StopServer, L!StopExecutor, L!Join, geoVars, weaVars
<1>1. PoolTypes'
  BY DEF IInv, PoolTypes
<1>2. EndIsSet' /\ OneWait'
  BY DEF IInv, PoolTypes, EndIsSet, OneWait
<1>3. StopInOrder'
  BY DEF IInv, StopInOrder
<1> QED
  BY <1>1, <1>2, <1>3 DEF IInv

LEMMA SessionStepIInv == ASSUME IInv, NEW s \in Session, SessionStep(s) PROVE IInv'
<1>1. PICK wait \in L!After :
        /\ session[s] = wait[1]
        /\ session' = [session EXCEPT ![s] = wait[2]]
        /\ IF wait[2] = "geo" THEN Geo!Ask(s) ELSE UNCHANGED geoVars
        /\ IF wait[2] = "weather" THEN Wea!Ask(s) ELSE UNCHANGED weaVars
  BY DEF SessionStep
<1>2. /\ Answered(s, session[s])
      /\ UNCHANGED <<main, listener, idle, threads, missed>>
  BY DEF SessionStep
<1>3. wait[2] \in {"none", "answer", "geo", "weather"}
  BY DEF L!After
<1>4. /\ UNCHANGED <<geoTask, geoStop, geoEnd>>
      /\ geoPc' = IF wait[2] = "geo" THEN [geoPc EXCEPT ![s] = "check"] ELSE geoPc
  BY <1>1, GeoAsked DEF geoVars
<1>5. /\ UNCHANGED <<weaTask, weaStop, weaEnd>>
      /\ weaPc' = IF wait[2] = "weather" THEN [weaPc EXCEPT ![s] = "check"] ELSE weaPc
  BY <1>1, WeaAsked DEF weaVars
<1>6. PoolTypes'
  BY <1>1, <1>3, <1>4, <1>5 DEF IInv, PoolTypes
<1>7. geoPc[s] = "none" /\ weaPc[s] = "none"
  BY <1>2 DEF Answered, IInv, OneWait
<1>8. OneWait'
  BY <1>1, <1>4, <1>5, <1>7 DEF IInv, PoolTypes, OneWait
<1> QED
  BY <1>2, <1>4, <1>5, <1>6, <1>8 DEF IInv, StopInOrder, EndIsSet

LEMMA PoolStepIInv ==
  ASSUME IInv,
         \/ \E c \in Geo!Client : GeoConnStep(c)
         \/ \E c \in Wea!Client : WeaConnStep(c)
         \/ \E s \in Session : GeoRequestStep(s) \/ WeaRequestStep(s)
  PROVE  IInv'
<1>1. ASSUME NEW c \in Geo!Client, GeoConnStep(c) PROVE IInv'
  BY <1>1, GeoConnMoves DEF GeoConnStep, lifeVars, weaVars, IInv, PoolTypes, StopInOrder,
       EndIsSet, OneWait
<1>2. ASSUME NEW c \in Wea!Client, WeaConnStep(c) PROVE IInv'
  BY <1>2, WeaConnMoves DEF WeaConnStep, lifeVars, geoVars, IInv, PoolTypes, StopInOrder,
       EndIsSet, OneWait
<1>3. ASSUME NEW s \in Session, GeoRequestStep(s) PROVE IInv'
  <2>1. PICK to \in {"none", "check", "lock", "timer", "write", "read"} :
          geoPc' = [geoPc EXCEPT ![s] = to]
    BY <1>3, GeoRequestMoves DEF GeoRequestStep
  <2> QED
    BY <1>3, <2>1, GeoRequestMoves
       DEF GeoRequestStep, lifeVars, weaVars, IInv, PoolTypes, StopInOrder, EndIsSet, OneWait
<1>4. ASSUME NEW s \in Session, WeaRequestStep(s) PROVE IInv'
  <2>1. PICK to \in {"none", "check", "lock", "timer", "write", "read"} :
          weaPc' = [weaPc EXCEPT ![s] = to]
    BY <1>4, WeaRequestMoves DEF WeaRequestStep
  <2> QED
    BY <1>4, <2>1, WeaRequestMoves
       DEF WeaRequestStep, lifeVars, geoVars, IInv, PoolTypes, StopInOrder, EndIsSet, OneWait
<1> QED
  BY <1>1, <1>2, <1>3, <1>4

LEMMA StopPoolIInv == ASSUME IInv, StopGeo \/ StopWeather PROVE IInv'
<1>1. CASE StopGeo
  <2>1. PoolTypes' /\ OneWait'
    BY <1>1 DEF StopGeo, Geo!StopTurn, Geo!requestVars, weaVars, IInv, PoolTypes, OneWait,
         Geo!TaskState
  <2>2. StopInOrder' /\ EndIsSet'
    BY <1>1 DEF StopGeo, Geo!StopTurn, weaVars, IInv, StopInOrder, EndIsSet
  <2> QED
    BY <2>1, <2>2 DEF IInv
<1>2. CASE StopWeather
  <2>1. PoolTypes' /\ OneWait'
    BY <1>2 DEF StopWeather, Wea!StopTurn, Wea!requestVars, geoVars, IInv, PoolTypes, OneWait,
         Wea!TaskState
  <2>2. StopInOrder' /\ EndIsSet'
    BY <1>2 DEF StopWeather, Wea!StopTurn, geoVars, IInv, StopInOrder, EndIsSet
  <2> QED
    BY <2>1, <2>2 DEF IInv
<1> QED
  BY <1>1, <1>2

LEMMA NextIInv == IInv /\ [Next]_vars => IInv'
<1> SUFFICES ASSUME IInv, [Next]_vars PROVE IInv'
  OBVIOUS
<1>1. CASE ThreadReturns \/ UNCHANGED vars
  BY <1>1 DEF ThreadReturns, vars, lifeVars, geoVars, weaVars, IInv, PoolTypes, StopInOrder,
              EndIsSet, OneWait
<1>2. CASE Next /\ ~ThreadReturns
  BY <1>2, LifeMoves, SessionStepIInv, PoolStepIInv, StopPoolIInv DEF Next, Stop
<1> QED
  BY <1>1, <1>2

\* How far main is agrees with the pools, and the pools with the sessions
\* (Manager::Stop, GetCoordinate, GetWeather).
THEOREM Invariance == Spec => []IInv
<1> QED
  BY InitIInv, NextIInv, PTL DEF Spec

-----------------------------------------------------------------------------
(* System implements Lifecycle. *)

LEMMA SameView ==
  ASSUME UNCHANGED <<geoStop, weaStop>>, Geo!AtRest' <=> Geo!AtRest, Wea!AtRest' <=> Wea!AtRest
  PROVE  PoolView' = PoolView
BY DEF PoolView, View

LEMMA GeoAlone == ASSUME UNCHANGED geoVars PROVE UNCHANGED geoStop /\ (Geo!AtRest' <=> Geo!AtRest)
BY DEF geoVars, Geo!AtRest

LEMMA WeaAlone == ASSUME UNCHANGED weaVars PROVE UNCHANGED weaStop /\ (Wea!AtRest' <=> Wea!AtRest)
BY DEF weaVars, Wea!AtRest

LEMMA InitRefines == Init => L!Init
BY DEF Init

LEMMA LifeRefines ==
  ASSUME Listening \/ (\E s \in Session : NewSession(s)) \/ StopServer \/ StopExecutor
  PROVE  L!Next
BY DEF Listening, NewSession, StopServer, StopExecutor, L!Next, L!Work, L!Stop

LEMMA SessionStepRefines == ASSUME IInv, NEW s \in Session, SessionStep(s) PROVE L!Next
<1>1. PICK wait \in L!After :
        /\ session[s] = wait[1]
        /\ session' = [session EXCEPT ![s] = wait[2]]
        /\ IF wait[2] = "geo" THEN Geo!Ask(s) ELSE UNCHANGED geoVars
        /\ IF wait[2] = "weather" THEN Wea!Ask(s) ELSE UNCHANGED weaVars
  BY DEF SessionStep
<1>2. UNCHANGED geoStop /\ (Geo!AtRest' <=> Geo!AtRest)
  BY <1>1, GeoAsked, GeoAlone
<1>3. UNCHANGED weaStop /\ (Wea!AtRest' <=> Wea!AtRest)
  BY <1>1, WeaAsked, WeaAlone
<1>4. PoolView' = PoolView
  BY <1>2, <1>3, SameView
<1>5. L!SessionStep(s)
  BY <1>1, <1>4 DEF SessionStep, L!SessionStep
<1> QED
  BY <1>5 DEF L!Next, L!Work

\* A step of a pool is the step to its rest or none.
LEMMA GeoRefines ==
  ASSUME threads > 0, UNCHANGED <<lifeVars, weaVars, geoStop>>, Geo!AtRest => Geo!AtRest'
  PROVE  L!Next \/ UNCHANGED L!vars
<1>1. UNCHANGED weaStop /\ (Wea!AtRest' <=> Wea!AtRest)
  BY WeaAlone
<1>2. CASE Geo!AtRest' <=> Geo!AtRest
  BY <1>1, <1>2, SameView DEF L!vars, lifeVars
<1>3. CASE Geo!AtRest' /\ ~Geo!AtRest
  <2>1. geoStop = "stopped"
    BY <1>3 DEF Geo!AtRest
  <2>2. /\ PoolView["geo"] = "stopped"
        /\ PoolView' = [PoolView EXCEPT !["geo"] = "rest"]
    BY <1>1, <1>3, <2>1 DEF PoolView, View
  <2>3. L!PoolRests("geo")
    BY <2>2 DEF L!PoolRests, lifeVars
  <2> QED
    BY <2>3 DEF L!Next, L!Work, L!Upstream
<1> QED
  BY <1>2, <1>3

LEMMA WeaRefines ==
  ASSUME threads > 0, UNCHANGED <<lifeVars, geoVars, weaStop>>, Wea!AtRest => Wea!AtRest'
  PROVE  L!Next \/ UNCHANGED L!vars
<1>1. UNCHANGED geoStop /\ (Geo!AtRest' <=> Geo!AtRest)
  BY GeoAlone
<1>2. CASE Wea!AtRest' <=> Wea!AtRest
  BY <1>1, <1>2, SameView DEF L!vars, lifeVars
<1>3. CASE Wea!AtRest' /\ ~Wea!AtRest
  <2>1. weaStop = "stopped"
    BY <1>3 DEF Wea!AtRest
  <2>2. /\ PoolView["weather"] = "stopped"
        /\ PoolView' = [PoolView EXCEPT !["weather"] = "rest"]
    BY <1>1, <1>3, <2>1 DEF PoolView, View
  <2>3. L!PoolRests("weather")
    BY <2>2 DEF L!PoolRests, lifeVars
  <2> QED
    BY <2>3 DEF L!Next, L!Work, L!Upstream
<1> QED
  BY <1>2, <1>3

\* The last turn of a pool's Stop is the step StopPool; those before it are none.
LEMMA StopPoolRefines == ASSUME StopGeo \/ StopWeather PROVE L!Next \/ UNCHANGED L!vars
<1>1. CASE StopGeo
  <2>1. UNCHANGED weaStop /\ (Wea!AtRest' <=> Wea!AtRest)
    BY <1>1, WeaAlone DEF StopGeo
  <2>2. ~Geo!AtRest /\ geoStop # "stopped" /\ geoStop' \in {"draining", "stopped"}
    BY <1>1 DEF StopGeo, Geo!StopTurn, Geo!AtRest
  <2>3. CASE geoStop' = "stopped"
    <3>1. \E p \in {"stopped", "rest"} : PoolView' = [PoolView EXCEPT !["geo"] = p]
      BY <2>1, <2>2, <2>3 DEF PoolView, View
    <3>2. L!StopPool("geo")
      BY <1>1, <2>3, <3>1 DEF StopGeo, L!StopPool
    <3> QED
      BY <3>2 DEF L!Next, L!Stop, L!Upstream
  <2>4. CASE geoStop' = "draining"
    <3>1. ~Geo!AtRest'
      BY <2>4 DEF Geo!AtRest
    <3>2. PoolView' = PoolView
      BY <2>1, <2>2, <2>4, <3>1 DEF PoolView, View
    <3> QED
      BY <1>1, <2>4, <3>2 DEF StopGeo, L!vars
  <2> QED
    BY <2>2, <2>3, <2>4
<1>2. CASE StopWeather
  <2>1. UNCHANGED geoStop /\ (Geo!AtRest' <=> Geo!AtRest)
    BY <1>2, GeoAlone DEF StopWeather
  <2>2. ~Wea!AtRest /\ weaStop # "stopped" /\ weaStop' \in {"draining", "stopped"}
    BY <1>2 DEF StopWeather, Wea!StopTurn, Wea!AtRest
  <2>3. CASE weaStop' = "stopped"
    <3>1. \E p \in {"stopped", "rest"} : PoolView' = [PoolView EXCEPT !["weather"] = p]
      BY <2>1, <2>2, <2>3 DEF PoolView, View
    <3>2. L!StopPool("weather")
      BY <1>2, <2>3, <3>1 DEF StopWeather, L!StopPool
    <3> QED
      BY <3>2 DEF L!Next, L!Stop, L!Upstream
  <2>4. CASE weaStop' = "draining"
    <3>1. ~Wea!AtRest'
      BY <2>4 DEF Wea!AtRest
    <3>2. PoolView' = PoolView
      BY <2>1, <2>2, <2>4, <3>1 DEF PoolView, View
    <3> QED
      BY <1>2, <2>4, <3>2 DEF StopWeather, L!vars
  <2> QED
    BY <2>2, <2>3, <2>4
<1> QED
  BY <1>1, <1>2

\* An io_context without work has what Lifecycle asks of it: the pools are not only
\* idle but stopped, and nobody is on the way to a connection.
LEMMA ThreadReturnsRefines == ASSUME IInv, ThreadReturns PROVE L!Next
<1>1. geoStop = "stopped" /\ weaStop = "stopped"
  BY DEF ThreadReturns, OutOfWork, IInv, StopInOrder
<1>2. \A s \in Session : geoPc[s] = "none" /\ weaPc[s] = "none"
  BY DEF ThreadReturns, OutOfWork, IInv, OneWait
<1>3. Geo!AtRest /\ Wea!AtRest
  BY <1>1, <1>2 DEF ThreadReturns, OutOfWork, Geo!AtRest, Wea!AtRest
<1>4. \A u \in {"geo", "weather"} : PoolView[u] = "rest"
  BY <1>3 DEF PoolView, View
<1>5. PoolView' = PoolView
  BY GeoAlone, WeaAlone, SameView DEF ThreadReturns
<1>6. L!ThreadReturns
  BY <1>4, <1>5 DEF ThreadReturns, OutOfWork, L!ThreadReturns, L!OutOfWork, L!Upstream
<1> QED
  BY <1>6 DEF L!Next

LEMMA NextRefines == IInv /\ [Next]_vars => [L!Next]_(L!vars)
<1> SUFFICES ASSUME IInv, [Next]_vars PROVE L!Next \/ UNCHANGED L!vars
  OBVIOUS
<1>1. CASE UNCHANGED vars
  BY <1>1, GeoAlone, WeaAlone, SameView DEF vars, lifeVars, L!vars
<1>2. ASSUME NEW c \in Geo!Client, GeoConnStep(c) PROVE L!Next \/ UNCHANGED L!vars
  BY <1>2, GeoConnMoves, GeoRefines DEF GeoConnStep
<1>3. ASSUME NEW c \in Wea!Client, WeaConnStep(c) PROVE L!Next \/ UNCHANGED L!vars
  BY <1>3, WeaConnMoves, WeaRefines DEF WeaConnStep
<1>4. ASSUME NEW s \in Session, GeoRequestStep(s) PROVE L!Next \/ UNCHANGED L!vars
  BY <1>4, GeoRequestMoves, GeoRefines DEF GeoRequestStep
<1>5. ASSUME NEW s \in Session, WeaRequestStep(s) PROVE L!Next \/ UNCHANGED L!vars
  BY <1>5, WeaRequestMoves, WeaRefines DEF WeaRequestStep
<1> QED
  BY <1>1, <1>2, <1>3, <1>4, <1>5, LifeRefines, SessionStepRefines, StopPoolRefines,
     ThreadReturnsRefines DEF Next, Stop

\* The whole program stops as Lifecycle describes, whatever its pools are doing
\* (WeatherManager.cpp:114-121 over HttpClient.cpp:408-422).
THEOREM Implementation == Spec => ImplementsLifecycle
<1> QED
  BY InitRefines, NextRefines, Invariance, PTL DEF Spec, ImplementsLifecycle, L!Spec

-----------------------------------------------------------------------------
(* Each client has its pool to itself. *)

\* What a session asks of the geocoder, what main's Stop does to its pool and what the
\* pool's coroutines do are steps of ConnPool, and nothing else touches that pool: so
\* what ConnPoolProofs proves holds of it inside the program (YanCoor.cpp:78-136).
THEOREM GeoIsAPool == Spec => Geo!Spec
<1>1. Init => Geo!Init
  BY DEF Init
<1>2. [Next]_vars => [Geo!Next]_(Geo!vars)
  <2> SUFFICES ASSUME [Next]_vars PROVE Geo!Next \/ UNCHANGED geoVars
    BY DEF geoVars, Geo!vars
  <2>1. CASE UNCHANGED vars
    BY <2>1 DEF vars
  <2>2. CASE \E s \in Session : SessionStep(s)
    BY <2>2 DEF SessionStep, Geo!Next
  <2>3. CASE \E s \in Session : GeoRequestStep(s)
    BY <2>3 DEF GeoRequestStep, Geo!Next
  <2>4. CASE \E c \in Geo!Client : GeoConnStep(c)
    BY <2>4 DEF GeoConnStep, Geo!Next
  <2>5. CASE Stop
    BY <2>5 DEF Stop, StopServer, StopGeo, StopWeather, StopExecutor, Geo!Next
  <2>6. CASE \/ Listening \/ ThreadReturns
             \/ \E s \in Session : NewSession(s) \/ WeaRequestStep(s)
             \/ \E c \in Wea!Client : WeaConnStep(c)
    BY <2>6 DEF Listening, ThreadReturns, NewSession, WeaRequestStep, WeaConnStep
  <2> QED
    BY <2>1, <2>2, <2>3, <2>4, <2>5, <2>6 DEF Next
<1> QED
  BY <1>1, <1>2, PTL DEF Spec, Geo!Spec

\* The same of the weather service's client (WeatherClient.cpp:80-134).
THEOREM WeatherIsAPool == Spec => Wea!Spec
<1>1. Init => Wea!Init
  BY DEF Init
<1>2. [Next]_vars => [Wea!Next]_(Wea!vars)
  <2> SUFFICES ASSUME [Next]_vars PROVE Wea!Next \/ UNCHANGED weaVars
    BY DEF weaVars, Wea!vars
  <2>1. CASE UNCHANGED vars
    BY <2>1 DEF vars
  <2>2. CASE \E s \in Session : SessionStep(s)
    BY <2>2 DEF SessionStep, Wea!Next
  <2>3. CASE \E s \in Session : WeaRequestStep(s)
    BY <2>3 DEF WeaRequestStep, Wea!Next
  <2>4. CASE \E c \in Wea!Client : WeaConnStep(c)
    BY <2>4 DEF WeaConnStep, Wea!Next
  <2>5. CASE Stop
    BY <2>5 DEF Stop, StopServer, StopGeo, StopWeather, StopExecutor, Wea!Next
  <2>6. CASE \/ Listening \/ ThreadReturns
             \/ \E s \in Session : NewSession(s) \/ GeoRequestStep(s)
             \/ \E c \in Geo!Client : GeoConnStep(c)
    BY <2>6 DEF Listening, ThreadReturns, NewSession, GeoRequestStep, GeoConnStep
  <2> QED
    BY <2>1, <2>2, <2>3, <2>4, <2>5, <2>6 DEF Next
<1> QED
  BY <1>1, <1>2, PTL DEF Spec, Wea!Spec

-----------------------------------------------------------------------------
(* The end of the program. *)

LEMMA ThreadsNat == Threads \in Nat
BY SystemAssumption

\* A thread that has returned found no work, and there has been none since.
ThreadsDone ==
  /\ threads \in 0..Threads
  /\ threads < Threads => OutOfWork
  /\ main = "ended" => threads = 0

\* No coroutine is left to take a step, and main, past the pools, spawns none.
LEMMA OutOfWorkStays == ASSUME IInv, OutOfWork, [Next]_vars PROVE OutOfWork'
<1>1. /\ ~idle /\ listener = "ended" /\ main \in {"join", "ended"}
      /\ \A s \in Session : session[s] = "none" /\ geoPc[s] = "none" /\ weaPc[s] = "none"
      /\ \A c \in Geo!Client : geoTask[c] \in {"idle", "gone"}
      /\ \A c \in Wea!Client : weaTask[c] \in {"idle", "gone"}
  BY DEF OutOfWork, IInv, StopInOrder, OneWait
<1>2. /\ \A c \in Geo!Client : ~GeoConnStep(c)
      /\ \A c \in Wea!Client : ~WeaConnStep(c)
  <2>1. ASSUME NEW c \in Geo!Client, GeoConnStep(c) PROVE FALSE
    <3>1. Geo!ConnStep(c)
      BY <2>1 DEF GeoConnStep
    <3> QED
      BY <1>1, <3>1 DEF Geo!ConnStep, Geo!BeginResolve, Geo!Resolved, Geo!ResolveFails,
           Geo!Connected,
           Geo!ConnectFails, Geo!RetryConnect, Geo!ShutDown, Geo!Disconnected, Geo!SetTask
  <2>2. ASSUME NEW c \in Wea!Client, WeaConnStep(c) PROVE FALSE
    <3>1. Wea!ConnStep(c)
      BY <2>2 DEF WeaConnStep
    <3> QED
      BY <1>1, <3>1 DEF Wea!ConnStep, Wea!BeginResolve, Wea!Resolved, Wea!ResolveFails,
           Wea!Connected,
           Wea!ConnectFails, Wea!RetryConnect, Wea!ShutDown, Wea!Disconnected, Wea!SetTask
  <2> QED
    BY <2>1, <2>2
<1>3. \A s \in Session : ~GeoRequestStep(s) /\ ~WeaRequestStep(s)
  BY <1>1, GeoRequestMoves, WeaRequestMoves DEF GeoRequestStep, WeaRequestStep
<1>4. \A s \in Session : ~SessionStep(s) /\ ~NewSession(s)
  BY <1>1 DEF SessionStep, L!After, NewSession, L!NewSession
<1>5. ~Listening /\ ~StopServer /\ ~StopGeo /\ ~StopWeather
  BY <1>1 DEF Listening, L!Listen, L!Accept, L!ListenEnds, StopServer, L!StopServer, StopGeo,
              StopWeather
<1>6. UNCHANGED <<listener, session, idle, geoTask, weaTask>>
  <2>1. CASE StopExecutor
    BY <1>1, <2>1 DEF StopExecutor, L!StopExecutor, L!Join, geoVars, weaVars
  <2>2. CASE ThreadReturns
    BY <2>2 DEF ThreadReturns, geoVars, weaVars
  <2>3. CASE UNCHANGED vars
    BY <2>3 DEF vars, lifeVars, geoVars, weaVars
  <2> QED
    BY <1>2, <1>3, <1>4, <1>5, <2>1, <2>2, <2>3 DEF Next, Stop
<1> QED
  BY <1>6 DEF OutOfWork

\* Only ThreadReturns counts a thread, and only the last join ends main.
LEMMA OthersKeepThreads ==
  ASSUME [Next]_vars, ~ThreadReturns
  PROVE  threads' = threads /\ (main' = "ended" => main = "ended" \/ threads = 0)
<1>1. CASE Listening \/ UNCHANGED vars \/ \E s \in Session : NewSession(s) \/ SessionStep(s)
  BY <1>1 DEF Listening, L!Listen, L!Accept, L!ListenEnds, NewSession, L!NewSession,
       SessionStep,
              vars, lifeVars
<1>2. CASE \/ \E s \in Session : GeoRequestStep(s) \/ WeaRequestStep(s)
           \/ \E c \in Geo!Client : GeoConnStep(c)
           \/ \E c \in Wea!Client : WeaConnStep(c)
  BY <1>2 DEF GeoRequestStep, WeaRequestStep, GeoConnStep, WeaConnStep, lifeVars
<1>3. CASE Stop
  BY <1>3 DEF Stop, StopServer, L!StopServer, StopGeo, StopWeather, StopExecutor,
       L!StopExecutor,
              L!Join
<1> QED
  BY <1>1, <1>2, <1>3 DEF Next

LEMMA ThreadsStep == IInv /\ ThreadsDone /\ [Next]_vars => ThreadsDone'
<1> SUFFICES ASSUME IInv, ThreadsDone, [Next]_vars PROVE ThreadsDone'
  OBVIOUS
<1>1. Threads \in Nat
  BY ThreadsNat
<1>2. CASE ThreadReturns
  <2>1. OutOfWork'
    BY <1>2, OutOfWorkStays DEF ThreadReturns
  <2>2. threads > 0 /\ threads' = threads - 1 /\ main' = main
    BY <1>2 DEF ThreadReturns
  <2> QED
    BY <1>1, <2>1, <2>2 DEF ThreadsDone
<1>3. CASE ~ThreadReturns
  BY <1>3, OutOfWorkStays, OthersKeepThreads DEF ThreadsDone
<1> QED
  BY <1>2, <1>3

\* When Manager::Stop has returned (WeatherManager.cpp:120), no coroutine of the whole
\* program is left that uses what the destruction of the Manager destroys.
THEOREM CleanEnd == Spec => []NothingLeftBehind
<1>1. Init => ThreadsDone
  BY ThreadsNat DEF Init, L!Init, ThreadsDone
<1>2. ASSUME IInv, ThreadsDone, main = "ended", Threads > 0 PROVE NothingLeftBehind
  <2>1. OutOfWork
    BY <1>2, ThreadsNat DEF ThreadsDone
  <2>2. Geo!AtRest /\ Wea!AtRest
    BY <1>2, <2>1 DEF OutOfWork, IInv, StopInOrder, OneWait, Geo!AtRest, Wea!AtRest
  <2>3. \A u \in L!Upstream : PoolView[u] = "rest"
    BY <2>2 DEF PoolView, View, L!Upstream
  <2> QED
    BY <2>1, <2>3 DEF OutOfWork, NothingLeftBehind, L!NothingLeftBehind
<1>3. IInv /\ ThreadsDone => NothingLeftBehind
  BY <1>2 DEF NothingLeftBehind, L!NothingLeftBehind
<1> QED
  BY <1>1, <1>3, ThreadsStep, Invariance, PTL DEF Spec

=============================================================================
