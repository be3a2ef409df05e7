--------------------------- MODULE SystemPoolsProofs ---------------------------
(***************************************************************************)
(* What ConnPoolProofs and ConnLeaseProofs prove of a pool by itself,      *)
(* carried to the two pools of the running program, for which SystemProofs *)
(* shows that the rest of the program does to them only what ConnPool      *)
(* expects.                                                                *)
(***************************************************************************)
EXTENDS SystemProofs

GeoPool ==
  INSTANCE ConnLeaseProofs WITH
    NumConnection <- GeoConnection, Request <- Session, Deaf <- {},
    pool <- geoPool, fEnd <- geoEnd, task <- geoTask, resolved <- geoResolved,
    pc <- geoPc, lease <- geoLease, left <- geoLeft, stop <- geoStop

WeaPool ==
  INSTANCE ConnLeaseProofs WITH
    NumConnection <- WeatherConnection, Request <- Session, Deaf <- {},
    pool <- weaPool, fEnd <- weaEnd, task <- weaTask, resolved <- weaResolved,
    pc <- weaPc, lease <- weaLease, left <- weaLeft, stop <- weaStop

-----------------------------------------------------------------------------
(* The geocoder client's pool. *)

\* Geo and GeoPool are instances of one specification under one substitution.
LEMMA GeoSame ==
  /\ Geo!Spec => GeoPool!Spec
  /\ GeoPool!TypeOK => Geo!TypeOK
  /\ GeoPool!OneUser => Geo!OneUser
  /\ GeoPool!NoneLost => Geo!NoneLost
  /\ GeoPool!NoRevivalAfterStop => Geo!NoRevivalAfterStop
  /\ GeoPool!RestForGood => Geo!RestForGood
  /\ GeoPool!ImplementsLease => Geo!ImplementsLease
<1>1. Geo!Client = GeoPool!Client /\ Geo!TaskState = GeoPool!TaskState
  BY DEF Geo!Client, GeoPool!Client, Geo!NumConn, GeoPool!NumConn, Geo!TaskState,
       GeoPool!TaskState
<1>2. Geo!Init => GeoPool!Init
  BY <1>1 DEF Geo!Init, GeoPool!Init
<1>3. [Geo!Next]_(Geo!vars) => [GeoPool!Next]_(GeoPool!vars)
  <2>1. ASSUME NEW r \in Session, Geo!RequestStep(r) PROVE GeoPool!RequestStep(r)
    BY <2>1 DEF Geo!RequestStep, Geo!CheckEnd, Geo!TakeClient, Geo!PoolEmpty, Geo!Poll,
         Geo!Written,
      Geo!Answered, Geo!SendRecvFails, Geo!SetPc, Geo!connVars,
      GeoPool!RequestStep, GeoPool!CheckEnd, GeoPool!TakeClient, GeoPool!PoolEmpty,
      GeoPool!Poll, GeoPool!Written,
      GeoPool!Answered, GeoPool!SendRecvFails, GeoPool!SetPc, GeoPool!connVars
  <2>2. ASSUME NEW c, Geo!ConnStep(c) PROVE GeoPool!ConnStep(c)
    BY <2>2 DEF Geo!ConnStep, Geo!BeginResolve, Geo!Resolved, Geo!ResolveFails, Geo!Connected,
      Geo!ConnectFails, Geo!RetryConnect, Geo!ShutDown, Geo!Disconnected, Geo!SetTask,
      Geo!requestVars, Geo!ResolveOrConnect,
      GeoPool!ConnStep, GeoPool!BeginResolve, GeoPool!Resolved, GeoPool!ResolveFails,
      GeoPool!Connected,
      GeoPool!ConnectFails, GeoPool!RetryConnect, GeoPool!ShutDown, GeoPool!Disconnected,
      GeoPool!SetTask,
      GeoPool!requestVars, GeoPool!ResolveOrConnect
  <2>3. ASSUME NEW r \in Session, Geo!Ask(r) PROVE GeoPool!Ask(r)
    BY <2>3 DEF Geo!Ask, Geo!SetPc, Geo!connVars, GeoPool!Ask, GeoPool!SetPc, GeoPool!connVars
  <2>4. Geo!StopTurn => GeoPool!StopTurn
    BY DEF Geo!StopTurn, Geo!requestVars, GeoPool!StopTurn, GeoPool!requestVars
  <2> QED
    BY <1>1, <2>1, <2>2, <2>3, <2>4 DEF Geo!Next, GeoPool!Next, Geo!vars, GeoPool!vars
<1>4. GeoPool!TypeOK => Geo!TypeOK
  BY <1>1 DEF Geo!TypeOK, GeoPool!TypeOK
<1>5. (GeoPool!OneUser => Geo!OneUser) /\ (GeoPool!NoneLost => Geo!NoneLost)
  BY <1>1 DEF Geo!OneUser, GeoPool!OneUser, Geo!NoneLost, GeoPool!NoneLost, Geo!Pooled,
       GeoPool!Pooled,
    Geo!Leased, GeoPool!Leased, Geo!Sending, GeoPool!Sending
<1>6. Geo!Spec => GeoPool!Spec
  BY <1>2, <1>3, PTL DEF Geo!Spec, GeoPool!Spec
<1>7. GeoPool!vars = Geo!vars /\ (GeoPool!AtRest <=> Geo!AtRest)
  BY <1>1 DEF GeoPool!vars, Geo!vars, GeoPool!AtRest, Geo!AtRest
<1>8. GeoPool!NoRevivalAfterStop => Geo!NoRevivalAfterStop
  <2>1. [geoEnd => \A c \in GeoPool!Client :
                     ~GeoPool!Pooled(c) /\ GeoPool!Pooled(c)' => GeoPool!Leased(c)]_(GeoPool!vars)
          => [geoEnd => \A c \in Geo!Client :
                          ~Geo!Pooled(c) /\ Geo!Pooled(c)' => Geo!Leased(c)]_(Geo!vars)
    BY <1>1, <1>7 DEF GeoPool!Pooled, Geo!Pooled, GeoPool!Leased, Geo!Leased, GeoPool!vars,
         Geo!vars
  <2> QED
    BY <2>1, PTL DEF GeoPool!NoRevivalAfterStop, Geo!NoRevivalAfterStop
<1>9. GeoPool!RestForGood => Geo!RestForGood
  <2>1. [GeoPool!AtRest => GeoPool!AtRest']_(GeoPool!vars)
          => [Geo!AtRest => Geo!AtRest']_(Geo!vars)
    BY <1>1 DEF GeoPool!vars, Geo!vars, GeoPool!AtRest, Geo!AtRest
  <2> QED
    BY <2>1, PTL DEF GeoPool!RestForGood, Geo!RestForGood
<1>10. GeoPool!ImplementsLease => Geo!ImplementsLease
  <2> DEFINE PoolOwner == [c \in GeoPool!Client |-> GeoPool!OwnerOf(c)]
             Owner == [c \in Geo!Client |-> Geo!OwnerOf(c)]
  <2>1. \A c : GeoPool!OwnerOf(c) = Geo!OwnerOf(c)
    BY <1>1 DEF GeoPool!OwnerOf, Geo!OwnerOf, GeoPool!Leased, Geo!Leased, GeoPool!Pooled, Geo!Pooled
  <2>2. PoolOwner = Owner
    BY <1>1, <2>1, Zenon
  <2>3. PoolOwner' = Owner'
    <3>1. \A c : GeoPool!OwnerOf(c)' = Geo!OwnerOf(c)'
      BY <1>1 DEF GeoPool!OwnerOf, Geo!OwnerOf, GeoPool!Leased, Geo!Leased, GeoPool!Pooled,
           Geo!Pooled
    <3> QED
      BY <1>1, <3>1
  <2>4. GeoPool!L!Init => Geo!L!Init
    BY <1>1, <2>2 DEF GeoPool!L!Init, Geo!L!Init
  <2>5. [GeoPool!L!Next]_(GeoPool!L!vars) => [Geo!L!Next]_(Geo!L!vars)
    <3>1. GeoPool!L!vars = Geo!L!vars /\ GeoPool!L!vars' = Geo!L!vars'
      BY <2>2, <2>3 DEF GeoPool!L!vars, Geo!L!vars
    <3>2. ASSUME NEW c, NEW from, NEW to, GeoPool!L!Pass(c, from, to)
          PROVE  Geo!L!Pass(c, from, to)
      BY <2>2, <2>3, <3>2 DEF GeoPool!L!Pass, Geo!L!Pass
    <3>3. ASSUME NEW c \in GeoPool!Client, GeoPool!L!Offer(c) \/ GeoPool!L!Discard(c)
          PROVE  Geo!L!Offer(c) \/ Geo!L!Discard(c)
      BY <3>2, <3>3 DEF GeoPool!L!Offer, GeoPool!L!Discard, Geo!L!Offer, Geo!L!Discard
    <3>4. ASSUME NEW h \in Session, NEW c \in GeoPool!Client, GeoPool!L!Take(h, c)
          PROVE  Geo!L!Take(h, c)
      <4>1. PoolOwner = Owner
        BY <2>2
      <4> QED
        BY <1>1, <3>2, <3>4, <4>1 DEF GeoPool!L!Take, Geo!L!Take
    <3>5. ASSUME NEW h \in Session, NEW c \in GeoPool!Client,
                 GeoPool!L!GiveBack(h, c) \/ GeoPool!L!Break(h, c)
          PROVE  Geo!L!GiveBack(h, c) \/ Geo!L!Break(h, c)
      BY <3>2, <3>5 DEF GeoPool!L!GiveBack, GeoPool!L!Break, Geo!L!GiveBack, Geo!L!Break
    <3>6. GeoPool!L!Close => Geo!L!Close
      BY <2>2, <2>3 DEF GeoPool!L!Close, Geo!L!Close
    <3>7. GeoPool!L!Next => Geo!L!Next
      BY <1>1, <3>3, <3>4, <3>5, <3>6 DEF GeoPool!L!Next, Geo!L!Next
    <3> QED
      BY <3>1, <3>7
  <2> QED
    BY <2>4, <2>5, PTL DEF GeoPool!ImplementsLease, Geo!ImplementsLease, GeoPool!L!Spec,
      Geo!L!Spec
<1> QED
  BY <1>4, <1>5, <1>6, <1>8, <1>9, <1>10

LEMMA GeoAssumption == GeoPool!PoolAssumption
<1>1. GeoPool!NumConn \in 0..255
  <2>1. \A n \in Nat : n % 256 \in 0..255
    OBVIOUS
  <2> QED
    BY <2>1, SystemAssumption DEF GeoPool!NumConn
<1>2. \A n \in 0..255 : 0..n \subseteq 0..255
  OBVIOUS
<1>3. GeoPool!Client \subseteq 0..GeoPool!NumConn
  BY Zenon DEF GeoPool!Client
<1>4. GeoPool!Client \subseteq 0..255
  BY <1>1, <1>2, <1>3, Zenon
<1>5. NoClient \notin 0..255
  BY SystemAssumption
<1>6. NoClient \notin GeoPool!Client
  BY <1>4, <1>5
<1> QED
  BY <1>6, SystemAssumption DEF GeoPool!PoolAssumption

LEMMA GeoSound ==
  Spec => /\ []Geo!TypeOK /\ []Geo!OneUser /\ []Geo!NoneLost
          /\ Geo!NoRevivalAfterStop /\ Geo!RestForGood /\ Geo!ImplementsLease
<1>1. Spec => GeoPool!Spec
  BY GeoIsAPool, GeoSame
<1>2. GeoPool!Spec => []GeoPool!TypeOK
  BY GeoAssumption, GeoPool!TypeCorrect
<1>3. GeoPool!Spec => []GeoPool!OneUser
  BY GeoAssumption, GeoPool!MutualExclusion
<1>4. GeoPool!Spec => []GeoPool!NoneLost
  BY GeoAssumption, GeoPool!NoConnectionLost
<1>5. GeoPool!Spec => GeoPool!NoRevivalAfterStop /\ GeoPool!RestForGood
  BY GeoAssumption, GeoPool!NoRevival, GeoPool!AtRestForGood
<1>6. GeoPool!Spec => GeoPool!ImplementsLease
  BY GeoAssumption, GeoPool!Implementation
<1> QED
  BY <1>1, <1>2, <1>3, <1>4, <1>5, <1>6, GeoSame, PTL

-----------------------------------------------------------------------------
(* The weather client's pool. *)

\* Wea and WeaPool are instances of one specification under one substitution.
LEMMA WeaSame ==
  /\ Wea!Spec => WeaPool!Spec
  /\ WeaPool!TypeOK => Wea!TypeOK
  /\ WeaPool!OneUser => Wea!OneUser
  /\ WeaPool!NoneLost => Wea!NoneLost
  /\ WeaPool!NoRevivalAfterStop => Wea!NoRevivalAfterStop
  /\ WeaPool!RestForGood => Wea!RestForGood
  /\ WeaPool!ImplementsLease => Wea!ImplementsLease
<1>1. Wea!Client = WeaPool!Client /\ Wea!TaskState = WeaPool!TaskState
  BY DEF Wea!Client, WeaPool!Client, Wea!NumConn, WeaPool!NumConn, Wea!TaskState,
       WeaPool!TaskState
<1>2. Wea!Init => WeaPool!Init
  BY <1>1 DEF Wea!Init, WeaPool!Init
<1>3. [Wea!Next]_(Wea!vars) => [WeaPool!Next]_(WeaPool!vars)
  <2>1. ASSUME NEW r \in Session, Wea!RequestStep(r) PROVE WeaPool!RequestStep(r)
    BY <2>1 DEF Wea!RequestStep, Wea!CheckEnd, Wea!TakeClient, Wea!PoolEmpty, Wea!Poll,
         Wea!Written,
      Wea!Answered, Wea!SendRecvFails, Wea!SetPc, Wea!connVars,
      WeaPool!RequestStep, WeaPool!CheckEnd, WeaPool!TakeClient, WeaPool!PoolEmpty,
      WeaPool!Poll, WeaPool!Written,
      WeaPool!Answered, WeaPool!SendRecvFails, WeaPool!SetPc, WeaPool!connVars
  <2>2. ASSUME NEW c, Wea!ConnStep(c) PROVE WeaPool!ConnStep(c)
    BY <2>2 DEF Wea!ConnStep, Wea!BeginResolve, Wea!Resolved, Wea!ResolveFails, Wea!Connected,
      Wea!ConnectFails, Wea!RetryConnect, Wea!ShutDown, Wea!Disconnected, Wea!SetTask,
      Wea!requestVars, Wea!ResolveOrConnect,
      WeaPool!ConnStep, WeaPool!BeginResolve, WeaPool!Resolved, WeaPool!ResolveFails,
      WeaPool!Connected,
      WeaPool!ConnectFails, WeaPool!RetryConnect, WeaPool!ShutDown, WeaPool!Disconnected,
      WeaPool!SetTask,
      WeaPool!requestVars, WeaPool!ResolveOrConnect
  <2>3. ASSUME NEW r \in Session, Wea!Ask(r) PROVE WeaPool!Ask(r)
    BY <2>3 DEF Wea!Ask, Wea!SetPc, Wea!connVars, WeaPool!Ask, WeaPool!SetPc, WeaPool!connVars
  <2>4. Wea!StopTurn => WeaPool!StopTurn
    BY DEF Wea!StopTurn, Wea!requestVars, WeaPool!StopTurn, WeaPool!requestVars
  <2> QED
    BY <1>1, <2>1, <2>2, <2>3, <2>4 DEF Wea!Next, WeaPool!Next, Wea!vars, WeaPool!vars
<1>4. WeaPool!TypeOK => Wea!TypeOK
  BY <1>1 DEF Wea!TypeOK, WeaPool!TypeOK
<1>5. (WeaPool!OneUser => Wea!OneUser) /\ (WeaPool!NoneLost => Wea!NoneLost)
  BY <1>1 DEF Wea!OneUser, WeaPool!OneUser, Wea!NoneLost, WeaPool!NoneLost, Wea!Pooled,
       WeaPool!Pooled,
    Wea!Leased, WeaPool!Leased, Wea!Sending, WeaPool!Sending
<1>6. Wea!Spec => WeaPool!Spec
  BY <1>2, <1>3, PTL DEF Wea!Spec, WeaPool!Spec
<1>7. WeaPool!vars = Wea!vars /\ (WeaPool!AtRest <=> Wea!AtRest)
  BY <1>1 DEF WeaPool!vars, Wea!vars, WeaPool!AtRest, Wea!AtRest
<1>8. WeaPool!NoRevivalAfterStop => Wea!NoRevivalAfterStop
  <2>1. [weaEnd => \A c \in WeaPool!Client :
                     ~WeaPool!Pooled(c) /\ WeaPool!Pooled(c)' => WeaPool!Leased(c)]_(WeaPool!vars)
          => [weaEnd => \A c \in Wea!Client :
                          ~Wea!Pooled(c) /\ Wea!Pooled(c)' => Wea!Leased(c)]_(Wea!vars)
    BY <1>1, <1>7 DEF WeaPool!Pooled, Wea!Pooled, WeaPool!Leased, Wea!Leased, WeaPool!vars,
         Wea!vars
  <2> QED
    BY <2>1, PTL DEF WeaPool!NoRevivalAfterStop, Wea!NoRevivalAfterStop
<1>9. WeaPool!RestForGood => Wea!RestForGood
  <2>1. [WeaPool!AtRest => WeaPool!AtRest']_(WeaPool!vars)
          => [Wea!AtRest => Wea!AtRest']_(Wea!vars)
    BY <1>1 DEF WeaPool!vars, Wea!vars, WeaPool!AtRest, Wea!AtRest
  <2> QED
    BY <2>1, PTL DEF WeaPool!RestForGood, Wea!RestForGood
<1>10. WeaPool!ImplementsLease => Wea!ImplementsLease
  <2> DEFINE PoolOwner == [c \in WeaPool!Client |-> WeaPool!OwnerOf(c)]
             Owner == [c \in Wea!Client |-> Wea!OwnerOf(c)]
  <2>1. \A c : WeaPool!OwnerOf(c) = Wea!OwnerOf(c)
    BY <1>1 DEF WeaPool!OwnerOf, Wea!OwnerOf, WeaPool!Leased, Wea!Leased, WeaPool!Pooled, Wea!Pooled
  <2>2. PoolOwner = Owner
    BY <1>1, <2>1, Zenon
  <2>3. PoolOwner' = Owner'
    <3>1. \A c : WeaPool!OwnerOf(c)' = Wea!OwnerOf(c)'
      BY <1>1 DEF WeaPool!OwnerOf, Wea!OwnerOf, WeaPool!Leased, Wea!Leased, WeaPool!Pooled,
           Wea!Pooled
    <3> QED
      BY <1>1, <3>1
  <2>4. WeaPool!L!Init => Wea!L!Init
    BY <1>1, <2>2 DEF WeaPool!L!Init, Wea!L!Init
  <2>5. [WeaPool!L!Next]_(WeaPool!L!vars) => [Wea!L!Next]_(Wea!L!vars)
    <3>1. WeaPool!L!vars = Wea!L!vars /\ WeaPool!L!vars' = Wea!L!vars'
      BY <2>2, <2>3 DEF WeaPool!L!vars, Wea!L!vars
    <3>2. ASSUME NEW c, NEW from, NEW to, WeaPool!L!Pass(c, from, to)
          PROVE  Wea!L!Pass(c, from, to)
      BY <2>2, <2>3, <3>2 DEF WeaPool!L!Pass, Wea!L!Pass
    <3>3. ASSUME NEW c \in WeaPool!Client, WeaPool!L!Offer(c) \/ WeaPool!L!Discard(c)
          PROVE  Wea!L!Offer(c) \/ Wea!L!Discard(c)
      BY <3>2, <3>3 DEF WeaPool!L!Offer, WeaPool!L!Discard, Wea!L!Offer, Wea!L!Discard
    <3>4. ASSUME NEW h \in Session, NEW c \in WeaPool!Client, WeaPool!L!Take(h, c)
          PROVE  Wea!L!Take(h, c)
      <4>1. PoolOwner = Owner
        BY <2>2
      <4> QED
        BY <1>1, <3>2, <3>4, <4>1 DEF WeaPool!L!Take, Wea!L!Take
    <3>5. ASSUME NEW h \in Session, NEW c \in WeaPool!Client,
                 WeaPool!L!GiveBack(h, c) \/ WeaPool!L!Break(h, c)
          PROVE  Wea!L!GiveBack(h, c) \/ Wea!L!Break(h, c)
      BY <3>2, <3>5 DEF WeaPool!L!GiveBack, WeaPool!L!Break, Wea!L!GiveBack, Wea!L!Break
    <3>6. WeaPool!L!Close => Wea!L!Close
      BY <2>2, <2>3 DEF WeaPool!L!Close, Wea!L!Close
    <3>7. WeaPool!L!Next => Wea!L!Next
      BY <1>1, <3>3, <3>4, <3>5, <3>6 DEF WeaPool!L!Next, Wea!L!Next
    <3> QED
      BY <3>1, <3>7
  <2> QED
    BY <2>4, <2>5, PTL DEF WeaPool!ImplementsLease, Wea!ImplementsLease, WeaPool!L!Spec,
      Wea!L!Spec
<1> QED
  BY <1>4, <1>5, <1>6, <1>8, <1>9, <1>10

LEMMA WeaAssumption == WeaPool!PoolAssumption
<1>1. WeaPool!NumConn \in 0..255
  <2>1. \A n \in Nat : n % 256 \in 0..255
    OBVIOUS
  <2> QED
    BY <2>1, SystemAssumption DEF WeaPool!NumConn
<1>2. \A n \in 0..255 : 0..n \subseteq 0..255
  OBVIOUS
<1>3. WeaPool!Client \subseteq 0..WeaPool!NumConn
  BY Zenon DEF WeaPool!Client
<1>4. WeaPool!Client \subseteq 0..255
  BY <1>1, <1>2, <1>3, Zenon
<1>5. NoClient \notin 0..255
  BY SystemAssumption
<1>6. NoClient \notin WeaPool!Client
  BY <1>4, <1>5
<1> QED
  BY <1>6, SystemAssumption DEF WeaPool!PoolAssumption

LEMMA WeaSound ==
  Spec => /\ []Wea!TypeOK /\ []Wea!OneUser /\ []Wea!NoneLost
          /\ Wea!NoRevivalAfterStop /\ Wea!RestForGood /\ Wea!ImplementsLease
<1>1. Spec => WeaPool!Spec
  BY WeatherIsAPool, WeaSame
<1>2. WeaPool!Spec => []WeaPool!TypeOK
  BY WeaAssumption, WeaPool!TypeCorrect
<1>3. WeaPool!Spec => []WeaPool!OneUser
  BY WeaAssumption, WeaPool!MutualExclusion
<1>4. WeaPool!Spec => []WeaPool!NoneLost
  BY WeaAssumption, WeaPool!NoConnectionLost
<1>5. WeaPool!Spec => WeaPool!NoRevivalAfterStop /\ WeaPool!RestForGood
  BY WeaAssumption, WeaPool!NoRevival, WeaPool!AtRestForGood
<1>6. WeaPool!Spec => WeaPool!ImplementsLease
  BY WeaAssumption, WeaPool!Implementation
<1> QED
  BY <1>1, <1>2, <1>3, <1>4, <1>5, <1>6, WeaSame, PTL
-----------------------------------------------------------------------------
(* The whole program. *)

LifeTypes ==
  /\ main \in {"getchar", "geo", "weather", "executor", "join", "ended"}
  /\ listener \in {"spawned", "accept", "accepted", "cancelled", "ended"}
  /\ idle \in BOOLEAN
  /\ missed \in BOOLEAN

LEMMA LifeTypesStep == LifeTypes /\ [L!Next]_(L!vars) => LifeTypes'
<1> SUFFICES ASSUME LifeTypes, [L!Next]_(L!vars) PROVE LifeTypes'
  OBVIOUS
<1> USE DEF LifeTypes
<1>1. CASE L!StopServer
  <2>1. missed' = (listener \in {"spawned", "accepted"})
    BY <1>1 DEF L!StopServer
  <2>2. (listener \in {"spawned", "accepted"}) \in BOOLEAN
    OBVIOUS
  <2>3. missed' \in BOOLEAN
    BY <2>1, <2>2, Zenon
  <2>4. main' = "geo" /\ listener' \in {listener, "cancelled"} /\ idle' = idle
    BY <1>1 DEF L!StopServer
  <2> QED
    BY <2>3, <2>4
<1>2. CASE (\E u \in L!Upstream : L!StopPool(u)) \/ L!StopExecutor \/ L!Join
  BY <1>2 DEF L!StopPool, L!StopExecutor, L!Join
<1>3. CASE L!Work \/ L!ThreadReturns \/ UNCHANGED L!vars
  BY <1>3 DEF L!Work, L!Listen, L!Accept, L!ListenEnds, L!NewSession, L!SessionStep,
       L!PoolRests,
    L!ThreadReturns, L!vars
<1> QED
  BY <1>1, <1>2, <1>3 DEF L!Next, L!Stop

\* Every variable of the whole program keeps its type, in particular those that its
\* parts share: no session takes a null connection from a pool, counts its polls below
\* zero or is answered twice, and no thread returns twice.
THEOREM TypeCorrect == Spec => []TypeOK
<1>1. Init => LifeTypes /\ ThreadsDone
  <2>1. Init => LifeTypes
    BY DEF Init, L!Init, LifeTypes
  <2>2. Init => ThreadsDone
    BY ThreadsNat DEF Init, L!Init, ThreadsDone
  <2> QED
    BY <2>1, <2>2
<1>2. IInv /\ LifeTypes /\ [Next]_vars => LifeTypes'
  BY LifeTypesStep, NextRefines
<1>3. IInv /\ LifeTypes /\ ThreadsDone => L!TypeOK
  <2> SUFFICES ASSUME IInv, LifeTypes, ThreadsDone PROVE L!TypeOK
    OBVIOUS
  <2>1. session \in [Session -> {"none", "request", "answer"} \cup L!Upstream]
    BY DEF IInv, PoolTypes, L!Upstream
  <2>2. PoolView \in [L!Upstream -> {"open", "stopped", "rest"}]
    BY DEF PoolView, View, L!Upstream
  <2> QED
    BY <2>1, <2>2 DEF L!TypeOK, LifeTypes, ThreadsDone
<1>4. Spec => []L!TypeOK
  BY <1>1, <1>2, <1>3, ThreadsStep, Invariance, PTL DEF Spec
<1> QED
  BY <1>4, GeoSound, WeaSound, PTL DEF TypeOK

\* Whatever the sessions, Stop and the servers do, no connection of either client is
\* used by two parties at once, and until Stop comes to its pool none is lost.
THEOREM PoolsSound ==
  Spec => [](Geo!OneUser /\ Geo!NoneLost /\ Wea!OneUser /\ Wea!NoneLost)
BY GeoSound, WeaSound, PTL

\* After main has stopped a client, no coroutine of its revives a connection, and once
\* its pool is at rest no session that still asks it can disturb it, though sessions
\* go on until the executor's threads return.
THEOREM PoolsStayStopped ==
  Spec => /\ Geo!NoRevivalAfterStop /\ Wea!NoRevivalAfterStop
          /\ Geo!RestForGood /\ Wea!RestForGood
BY GeoSound, WeaSound, PTL

\* Inside the program, too, each client's pool lends as ConnLease promises: a session
\* is lent a connection that is free, by itself, gives back or breaks only the one it
\* was lent, and after Stop a connection it breaks is not offered to anyone again.
THEOREM PoolsImplementLease == Spec => Geo!ImplementsLease /\ Wea!ImplementsLease
BY GeoSound, WeaSound, PTL

=============================================================================
