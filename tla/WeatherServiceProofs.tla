------------------------ MODULE WeatherServiceProofs ------------------------
(***************************************************************************)
(* Theorems about WeatherService, for any number of sessions, of threads   *)
(* (where nothing else is said), of addresses and of coordinates, and for  *)
(* all values of Livetime and Distance.                                    *)
(***************************************************************************)
EXTENDS WeatherService, FiniteSetTheorems, TLAPS

-----------------------------------------------------------------------------
(* The inductive invariant. *)

HasAddress == {"GetCoorByAdrress", "GetCoordinate", "PutCoordinate", "GetWeatherByCoor",
               "GetWeather", "PutWeather", "SendAnswer"}
HasCoor == {"PutCoordinate", "GetWeatherByCoor", "GetWeather", "PutWeather"}

\* What BusinessLogic's locals hold, by the call the session is in.
LocalsOf(s) ==
  /\ pc[s] \in HasAddress => adr[s] \in Address
  /\ pc[s] \in HasCoor => coor[s] \in GeoAnswers[adr[s]] /\ ~CoorEmpty(coor[s])
  /\ pc[s] = "PutWeather" => /\ weather[s] \in Weather
                             /\ weather[s].coor = coor[s]
                             /\ weather[s].at =< now
  /\ pc[s] = "SendAnswer" =>
       \E c \in GeoAnswers[adr[s]] : Metres[weather[s].coor][c] =< Distance

Locals == \A s \in Session : LocalsOf(s)

\* The map holds answers of the geocoder, under the address they answer.
MapHoldsAnswers ==
  \A a \in Address :
    coorStorage[a] # Absent =>
      coorStorage[a].coor \in GeoAnswers[a] /\ ~CoorEmpty(coorStorage[a].coor)

\* The map's entry for an address is the last one that was put.
MapHoldsLast ==
  \A a \in Address :
    lastPut[a] # Never => coorStorage[a] # Absent /\ coorStorage[a].ts = lastPut[a]

\* A record is filed under the place and not before the time of its weather.
TreeHoldsObservations ==
  \A e \in rtree : e.coor = e.weather.coor /\ e.weather.at =< e.time

InTime == now =< MaxTime

IInv ==
  TypeOK /\ Locals /\ MapHoldsAnswers /\ MapHoldsLast /\ TreeHoldsObservations /\ InTime

\* An entry that is in the map has a coordinate.
LEMMA AbsentIsNoValue == Absent \notin Value /\ NoWeather \notin Weather
BY DbAssumption DEF Absent, Value, NoWeather, Weather

\* Only session s moves, and the database does not change.
LEMMA SessionStep ==
  ASSUME IInv, NEW s \in Session, TypeOK', LocalsOf(s)',
         UNCHANGED <<coorStorage, rtree, now, lastPut>>,
         \A t \in Session : t # s =>
           /\ pc'[t] = pc[t] /\ adr'[t] = adr[t]
           /\ coor'[t] = coor[t] /\ weather'[t] = weather[t]
  PROVE  IInv'
<1>1. Locals'
  BY DEF IInv, Locals, LocalsOf
<1>2. MapHoldsAnswers' /\ MapHoldsLast' /\ TreeHoldsObservations' /\ InTime'
  BY DEF IInv, MapHoldsAnswers, MapHoldsLast, TreeHoldsObservations, InTime
<1> QED
  BY <1>1, <1>2 DEF IInv

LEMMA InitIInv == Init => IInv
<1> SUFFICES ASSUME Init PROVE IInv
  OBVIOUS
<1> USE DEF Init, DbInit
<1>1. TypeOK
  BY DbAssumption DEF TypeOK, DbTypeOK, Ended, Never
<1>2. Locals
  BY DEF Locals, LocalsOf, HasAddress, HasCoor
<1>3. MapHoldsAnswers /\ MapHoldsLast /\ TreeHoldsObservations /\ InTime
  BY DbAssumption DEF MapHoldsAnswers, MapHoldsLast, TreeHoldsObservations, InTime
<1> QED
  BY <1>1, <1>2, <1>3 DEF IInv

-----------------------------------------------------------------------------
(* The invariant is inductive: the steps that leave the database alone. *)

\* A session in a call it was not in before, with the locals it had.
Moves(s, from, to) ==
  /\ pc[s] = from
  /\ pc' = [pc EXCEPT ![s] = to]
  /\ UNCHANGED <<coorStorage, rtree, now, adr, coor, weather, lastPut>>

LEMMA MoveIInv ==
  ASSUME IInv, NEW s \in Session, NEW from, NEW to, Moves(s, from, to),
         to \in {"GetRequest", "SendAnswerError", "done"},
         reply' \in [Session -> {"none", "weather", "error", "lost"}]
  PROVE  IInv'
<1> USE DEF Moves
<1>1. TypeOK'
  BY DEF IInv, TypeOK, DbTypeOK, Awaited, Ended
<1>2. LocalsOf(s)'
  BY DEF IInv, TypeOK, LocalsOf, HasAddress, HasCoor
<1>3. \A t \in Session : t # s => pc'[t] = pc[t]
  BY DEF IInv, TypeOK
<1> QED
  BY <1>1, <1>2, <1>3, SessionStep

LEMMA EndIInv ==
  ASSUME IInv, NEW s \in Session, NEW from, NEW to, Goto(s, from, to), DropLocals(s),
         to \in {"pause", "done"},
         reply' \in [Session -> {"none", "weather", "error", "lost"}],
         UNCHANGED <<coorStorage, rtree, now, lastPut>>
  PROVE  IInv'
<1> USE DEF Goto, DropLocals
<1>1. TypeOK'
  BY DEF IInv, TypeOK, DbTypeOK, Awaited, Ended
<1>2. LocalsOf(s)'
  BY DEF IInv, TypeOK, LocalsOf, HasAddress, HasCoor
<1>3. \A t \in Session : t # s =>
        /\ pc'[t] = pc[t] /\ adr'[t] = adr[t]
        /\ coor'[t] = coor[t] /\ weather'[t] = weather[t]
  BY DEF IInv, TypeOK
<1> QED
  BY <1>1, <1>2, <1>3, SessionStep

LEMMA NewSessionIInv == ASSUME IInv, NEW s \in Session, NewSession(s) PROVE IInv'
<1>1. PICK e \in Ended : Goto(s, e, "GetRequest")
  BY DEF NewSession
<1>2. Moves(s, e, "GetRequest")
  BY <1>1 DEF NewSession, Goto, Moves
<1>3. reply' \in [Session -> {"none", "weather", "error", "lost"}]
  BY DEF NewSession, IInv, TypeOK
<1> QED
  BY <1>2, <1>3, MoveIInv

LEMMA GetRequestIInv == ASSUME IInv, NEW s \in Session, GetRequest(s) PROVE IInv'
<1>1. CASE Goto(s, "GetRequest", "SendAnswerError") /\ UNCHANGED adr
  BY <1>1, MoveIInv DEF GetRequest, Goto, Moves, IInv, TypeOK
<1>2. ASSUME NEW a \in Address, Goto(s, "GetRequest", "GetCoorByAdrress"),
             adr' = [adr EXCEPT ![s] = a]
      PROVE  IInv'
  <2> USE <1>2 DEF GetRequest, Goto
  <2>1. TypeOK'
    BY DEF IInv, TypeOK, DbTypeOK, OnThread
  <2>2. LocalsOf(s)'
    BY DEF IInv, TypeOK, LocalsOf, HasCoor
  <2>3. \A t \in Session : t # s => pc'[t] = pc[t] /\ adr'[t] = adr[t]
    BY DEF IInv, TypeOK
  <2> QED
    BY <2>1, <2>2, <2>3, SessionStep
<1> QED
  BY <1>1, <1>2 DEF GetRequest

\* What GetCoorByAdrress returns, if not the empty coordinate.
LEMMA CoorFromMap ==
  ASSUME IInv, NEW a \in Address, ~CoorEmpty(GetCoorByAdrress(a))
  PROVE  GetCoorByAdrress(a) \in GeoAnswers[a]
BY DEF GetCoorByAdrress, CoorEmpty, IInv, MapHoldsAnswers

LEMMA LookupCoorIInv == ASSUME IInv, NEW s \in Session, LookupCoor(s) PROVE IInv'
<1> DEFINE c == GetCoorByAdrress(adr[s])
           to == IF CoorEmpty(c) THEN "GetCoordinate" ELSE "GetWeatherByCoor"
<1>1. /\ pc[s] = "GetCoorByAdrress" /\ pc' = [pc EXCEPT ![s] = to]
      /\ coor' = [coor EXCEPT ![s] = c]
      /\ UNCHANGED <<coorStorage, rtree, now, adr, weather, reply, lastPut>>
  BY DEF LookupCoor, Goto
<1>2. TypeOK /\ adr[s] \in Address
  BY <1>1 DEF IInv, Locals, LocalsOf, HasAddress
<1>3. c \in Coor \cup {NoCoor}
  BY <1>2 DEF GetCoorByAdrress, TypeOK, DbTypeOK, Value
<1>4. TypeOK'
  BY <1>1, <1>2, <1>3 DEF TypeOK, DbTypeOK, Awaited, OnThread
<1>5. pc'[s] = to /\ coor'[s] = c
  BY <1>1, <1>2 DEF TypeOK
<1>6. LocalsOf(s)'
  <2>1. CASE CoorEmpty(c)
    BY <1>1, <1>2, <1>5, <2>1 DEF LocalsOf, HasCoor
  <2>2. CASE ~CoorEmpty(c)
    <3>1. c \in GeoAnswers[adr[s]]
      BY <1>2, <2>2, CoorFromMap
    <3> QED
      BY <1>1, <1>2, <1>5, <2>2, <3>1 DEF LocalsOf, HasCoor, CoorEmpty
  <2> QED
    BY <2>1, <2>2
<1>7. \A t \in Session : t # s => pc'[t] = pc[t] /\ coor'[t] = coor[t]
  BY <1>1, <1>2 DEF TypeOK
<1> QED
  BY <1>1, <1>4, <1>6, <1>7, SessionStep

LEMMA GeoFoundIInv == ASSUME IInv, NEW s \in Session, GeoFound(s) PROVE IInv'
<1>1. TypeOK /\ adr[s] \in Address
  BY DEF GeoFound, Goto, IInv, Locals, LocalsOf, HasAddress
<1>2. PICK c \in GeoAnswers[adr[s]] : ~CoorEmpty(c) /\ coor' = [coor EXCEPT ![s] = c]
  BY DEF GeoFound
<1>3. c \in Coor
  BY <1>1, ServiceAssumption
<1>4. /\ pc[s] = "GetCoordinate" /\ pc' = [pc EXCEPT ![s] = "PutCoordinate"]
      /\ UNCHANGED <<coorStorage, rtree, now, adr, weather, reply, lastPut>>
  BY DEF GeoFound, Goto
<1>5. TypeOK'
  BY <1>1, <1>2, <1>3, <1>4 DEF TypeOK, DbTypeOK, OnThread
<1>6. /\ pc'[s] = "PutCoordinate" /\ coor'[s] = c
      /\ \A t \in Session : t # s => pc'[t] = pc[t] /\ coor'[t] = coor[t]
  BY <1>1, <1>2, <1>4 DEF TypeOK
<1>7. LocalsOf(s)'
  BY <1>1, <1>2, <1>4, <1>6 DEF LocalsOf, CoorEmpty
<1> QED
  BY <1>4, <1>5, <1>6, <1>7, SessionStep

\* A weather that is found in the tree is within Distance of the session's place.
LEMMA WeatherFromTree ==
  ASSUME IInv, NEW c, NEW w \in GetWeatherByCoor(c), w # NoWeather
  PROVE  \E e \in rtree : e.weather = w /\ Usable(e, c)
BY DEF GetWeatherByCoor, Nearest

LEMMA LookupWeatherIInv == ASSUME IInv, NEW s \in Session, LookupWeather(s) PROVE IInv'
<1>1. TypeOK /\ pc[s] = "GetWeatherByCoor" /\ coor[s] \in GeoAnswers[adr[s]] /\ adr[s] \in Address
  BY DEF LookupWeather, IInv, Locals, LocalsOf, HasAddress, HasCoor
<1>2. PICK w \in GetWeatherByCoor(coor[s]) :
        /\ weather' = [weather EXCEPT ![s] = w]
        /\ pc' = [pc EXCEPT ![s] = IF w = NoWeather THEN "GetWeather" ELSE "SendAnswer"]
  BY DEF LookupWeather, Goto
<1>3. UNCHANGED <<coorStorage, rtree, now, adr, coor, reply, lastPut>>
  BY DEF LookupWeather
<1>4. /\ pc'[s] = IF w = NoWeather THEN "GetWeather" ELSE "SendAnswer"
      /\ weather'[s] = w
      /\ \A t \in Session : t # s => pc'[t] = pc[t] /\ weather'[t] = weather[t]
  BY <1>1, <1>2 DEF TypeOK
<1>5. w # NoWeather => w \in Weather /\ Metres[w.coor][coor[s]] =< Distance
  <2> SUFFICES ASSUME w # NoWeather
               PROVE  w \in Weather /\ Metres[w.coor][coor[s]] =< Distance
    OBVIOUS
  <2>1. PICK e \in rtree : e.weather = w /\ Usable(e, coor[s])
    BY WeatherFromTree
  <2>2. e.weather \in Weather
    BY <1>1 DEF TypeOK, DbTypeOK, WheatheRef
  <2>3. e.coor = w.coor
    BY <2>1 DEF IInv, TreeHoldsObservations
  <2> QED
    BY <2>1, <2>2, <2>3 DEF Usable
<1>6. TypeOK'
  BY <1>1, <1>2, <1>3, <1>5 DEF TypeOK, DbTypeOK, Awaited
<1>7. LocalsOf(s)'
  <2>1. CASE w = NoWeather
    BY <1>1, <1>3, <1>4, <2>1 DEF LocalsOf, HasCoor, CoorEmpty, IInv, Locals
  <2>2. CASE w # NoWeather
    BY <1>1, <1>3, <1>4, <1>5, <2>2 DEF LocalsOf, HasCoor
  <2> QED
    BY <2>1, <2>2
<1> QED
  BY <1>3, <1>4, <1>6, <1>7, SessionStep

LEMMA WeatherFoundIInv == ASSUME IInv, NEW s \in Session, WeatherFound(s) PROVE IInv'
<1>1. TypeOK /\ adr[s] \in Address /\ coor[s] \in GeoAnswers[adr[s]] /\ ~CoorEmpty(coor[s])
  BY DEF WeatherFound, Goto, IInv, Locals, LocalsOf, HasAddress, HasCoor
<1>2. coor[s] \in Coor /\ now \in Nat
  BY <1>1, ServiceAssumption DEF TypeOK, DbTypeOK
<1>3. PICK w \in Weather : w = [coor |-> coor[s], at |-> now]
  BY <1>2 DEF Weather
<1>4. /\ pc[s] = "GetWeather" /\ pc' = [pc EXCEPT ![s] = "PutWeather"]
      /\ weather' = [weather EXCEPT ![s] = w]
      /\ UNCHANGED <<coorStorage, rtree, now, adr, coor, reply, lastPut>>
  BY <1>3 DEF WeatherFound, Goto
<1>5. TypeOK'
  BY <1>1, <1>4 DEF TypeOK, DbTypeOK, OnThread
<1>6. /\ pc'[s] = "PutWeather" /\ weather'[s] = w
      /\ \A t \in Session : t # s => pc'[t] = pc[t] /\ weather'[t] = weather[t]
  BY <1>1, <1>4 DEF TypeOK
<1>7. LocalsOf(s)'
  BY <1>1, <1>2, <1>3, <1>4, <1>6 DEF LocalsOf, CoorEmpty
<1> QED
  BY <1>4, <1>5, <1>6, <1>7, SessionStep

-----------------------------------------------------------------------------
(* The steps that change the database or the time. *)

LEMMA StoreCoorIInv == ASSUME IInv, NEW s \in Session, StoreCoor(s) PROVE IInv'
<1> DEFINE val == [coor |-> coor[s], ts |-> now]
<1>1. /\ pc[s] = "PutCoordinate" /\ pc' = [pc EXCEPT ![s] = "GetWeatherByCoor"]
      /\ coorStorage' = [coorStorage EXCEPT ![adr[s]] = val]
      /\ lastPut' = [lastPut EXCEPT ![adr[s]] = now]
      /\ UNCHANGED <<rtree, now, adr, coor, weather, reply>>
  BY DEF StoreCoor, Goto, PutCoordinate
<1>2. TypeOK /\ adr[s] \in Address /\ coor[s] \in GeoAnswers[adr[s]] /\ ~CoorEmpty(coor[s])
  BY <1>1 DEF IInv, Locals, LocalsOf, HasAddress, HasCoor
<1>3. val \in Value /\ now \in 0..Never
  BY <1>2, ServiceAssumption, DbAssumption DEF Value, TypeOK, DbTypeOK, IInv, InTime, Never
<1>4. TypeOK'
  BY <1>1, <1>2, <1>3 DEF TypeOK, DbTypeOK, OnThread
<1>5. \A a \in Address : /\ coorStorage'[a] = IF a = adr[s] THEN val ELSE coorStorage[a]
                         /\ lastPut'[a] = IF a = adr[s] THEN now ELSE lastPut[a]
  BY <1>1, <1>2 DEF TypeOK, DbTypeOK
<1>6. MapHoldsAnswers'
  <2>1. \A c : CoorEmpty(c)' <=> CoorEmpty(c)
    BY DEF CoorEmpty
  <2> QED
    BY <1>2, <1>5, <2>1 DEF IInv, MapHoldsAnswers
<1>7. MapHoldsLast'
  BY <1>3, <1>5, AbsentIsNoValue DEF IInv, MapHoldsLast
<1>8. Locals'
  <2>1. /\ pc'[s] = "GetWeatherByCoor"
        /\ \A t \in Session : t # s => pc'[t] = pc[t]
    BY <1>1, <1>2 DEF TypeOK
  <2>2. LocalsOf(s)'
    BY <1>1, <1>2, <2>1 DEF LocalsOf, CoorEmpty
  <2>3. ASSUME NEW t \in Session, t # s PROVE LocalsOf(t)'
    BY <1>1, <2>1, <2>3 DEF LocalsOf, IInv, Locals, CoorEmpty
  <2> QED
    BY <2>2, <2>3 DEF Locals
<1>9. TreeHoldsObservations' /\ InTime'
  BY <1>1 DEF IInv, TreeHoldsObservations, InTime
<1> QED
  BY <1>4, <1>6, <1>7, <1>8, <1>9 DEF IInv

LEMMA StoreWeatherIInv == ASSUME IInv, NEW s \in Session, StoreWeather(s) PROVE IInv'
<1>1. /\ pc[s] = "PutWeather" /\ pc' = [pc EXCEPT ![s] = "SendAnswer"]
      /\ rtree' = rtree \cup {[weather |-> weather[s], coor |-> coor[s], time |-> now]}
      /\ UNCHANGED <<coorStorage, now, adr, coor, weather, reply, lastPut>>
  BY DEF StoreWeather, Goto, PutWeather
<1>2. /\ TypeOK /\ adr[s] \in Address /\ coor[s] \in GeoAnswers[adr[s]]
      /\ weather[s] \in Weather /\ weather[s].coor = coor[s] /\ weather[s].at =< now
  BY <1>1 DEF IInv, Locals, LocalsOf, HasAddress, HasCoor
<1>3. coor[s] \in Coor /\ now \in Nat
  BY <1>2, ServiceAssumption DEF TypeOK, DbTypeOK
<1>4. TypeOK'
  BY <1>1, <1>2, <1>3 DEF TypeOK, DbTypeOK, WheatheRef, Awaited
<1>5. TreeHoldsObservations'
  BY <1>1, <1>2 DEF IInv, TreeHoldsObservations
<1>6. Locals'
  <2>1. /\ pc'[s] = "SendAnswer"
        /\ \A t \in Session : t # s => pc'[t] = pc[t]
    BY <1>1, <1>2 DEF TypeOK
  <2>2. Metres[weather[s].coor][coor[s]] =< Distance
    BY <1>2, <1>3, DbAssumption
  <2>3. LocalsOf(s)'
    BY <1>1, <1>2, <2>1, <2>2 DEF LocalsOf, HasCoor
  <2>4. ASSUME NEW t \in Session, t # s PROVE LocalsOf(t)'
    BY <1>1, <2>1, <2>4 DEF LocalsOf, IInv, Locals, CoorEmpty
  <2> QED
    BY <2>3, <2>4 DEF Locals
<1>7. MapHoldsAnswers' /\ MapHoldsLast' /\ InTime'
  BY <1>1 DEF IInv, MapHoldsAnswers, MapHoldsLast, InTime, CoorEmpty
<1> QED
  BY <1>4, <1>5, <1>6, <1>7 DEF IInv

LEMMA ClockIInv == ASSUME IInv, Clock PROVE IInv'
<1>1. /\ now < MaxTime /\ now' = now + 1 /\ now \in Nat
      /\ UNCHANGED <<coorStorage, rtree, pc, adr, coor, weather, reply, lastPut>>
  BY DEF Clock, Tick, dbVars, sessionVars, IInv, TypeOK, DbTypeOK
<1>2. TypeOK'
  BY <1>1 DEF IInv, TypeOK, DbTypeOK
<1>3. Locals'
  <2> SUFFICES ASSUME NEW s \in Session PROVE LocalsOf(s)'
    BY DEF Locals
  <2>1. weather[s] \in Weather => weather[s].at \in Nat
    BY DEF Weather
  <2> QED
    BY <1>1, <2>1 DEF IInv, Locals, LocalsOf, CoorEmpty
<1>4. MapHoldsAnswers' /\ MapHoldsLast' /\ TreeHoldsObservations' /\ InTime'
  BY <1>1, DbAssumption
     DEF IInv, MapHoldsAnswers, MapHoldsLast, TreeHoldsObservations, InTime, CoorEmpty
<1> QED
  BY <1>2, <1>3, <1>4 DEF IInv

LEMMA ResumeIInv == ASSUME IInv, NEW s \in Session, Resume(s) PROVE IInv'
<1>1. TypeOK
  BY DEF IInv
<1>2. CASE GetRequest(s)
  BY <1>2, GetRequestIInv
<1>3. CASE GeoFound(s)
  BY <1>3, GeoFoundIInv
<1>4. CASE GeoEmpty(s)
  BY <1>1, <1>4, MoveIInv DEF GeoEmpty, Goto, Moves, TypeOK
<1>5. CASE GeoThrows(s)
  BY <1>1, <1>5, EndIInv DEF GeoThrows, TypeOK
<1>6. CASE WeatherFound(s)
  BY <1>6, WeatherFoundIInv
<1>7. CASE WeatherEmpty(s)
  BY <1>1, <1>7, MoveIInv DEF WeatherEmpty, Goto, Moves, TypeOK
<1>8. CASE SendAnswer(s)
  <2>1. reply' \in [Session -> {"none", "weather", "error", "lost"}]
    BY <1>1, <1>8 DEF SendAnswer, TypeOK
  <2> QED
    BY <1>8, <2>1, EndIInv DEF SendAnswer
<1>9. CASE SendAnswerError(s)
  <2>1. reply' \in [Session -> {"none", "weather", "error", "lost"}]
    BY <1>1, <1>9 DEF SendAnswerError, TypeOK
  <2> QED
    BY <1>9, <2>1, EndIInv DEF SendAnswerError
<1>10. CASE PauseOver(s)
  BY <1>1, <1>10, MoveIInv DEF PauseOver, Goto, Moves, TypeOK
<1> QED
  BY <1>2, <1>3, <1>4, <1>5, <1>6, <1>7, <1>8, <1>9, <1>10 DEF Resume

LEMMA NextIInv == IInv /\ [Next]_vars => IInv'
<1> SUFFICES ASSUME IInv, [Next]_vars PROVE IInv'
  OBVIOUS
<1>1. CASE UNCHANGED vars
  BY <1>1 DEF vars, IInv, TypeOK, DbTypeOK, Locals, LocalsOf, MapHoldsAnswers, MapHoldsLast,
              TreeHoldsObservations, InTime, CoorEmpty
<1>2. CASE Next
  BY <1>2, NewSessionIInv, ResumeIInv, LookupCoorIInv, StoreCoorIInv, LookupWeatherIInv,
     StoreWeatherIInv, ClockIInv DEF Next, Run
<1> QED
  BY <1>1, <1>2

\* What BusinessLogic's locals and the database hold, whatever the interleaving.
THEOREM Invariance == Spec => []IInv
BY InitIInv, NextIInv, PTL DEF Spec

-----------------------------------------------------------------------------
(* What follows from it. *)

\* Every variable keeps its type: in particular BusinessLogic never stores an
\* empty coordinate or an empty weather.
THEOREM TypeCorrect == Spec => []TypeOK
BY Invariance, PTL DEF IInv

\* However the sessions interleave, on however many threads, and as long as they
\* have not raced over the R-tree, a client never gets the weather of a place
\* farther than Distance from its address.
THEOREM RightWeather == Spec => []WeatherIsForTheAddress
<1>1. IInv => WeatherIsForTheAddress
  BY DEF IInv, Locals, LocalsOf, WeatherIsForTheAddress
<1> QED
  BY <1>1, Invariance, PTL

\* An answer that GetCoorByAdrress could have given from the map is never asked
\* of the geocoder again.
THEOREM NoRepeatedGeocoding == Spec => RepeatSkipsGeocoder
<1>1. IInv /\ [Next]_vars =>
        [\A s \in Session :
           pc[s] = "GetCoorByAdrress" /\ pc'[s] = "GetCoordinate" =>
             lastPut[adr[s]] = Never \/ lastPut[adr[s]] + Livetime =< now]_vars
  <2> SUFFICES ASSUME IInv, Next, NEW s \in Session,
                      pc[s] = "GetCoorByAdrress", pc'[s] = "GetCoordinate",
                      lastPut[adr[s]] # Never
               PROVE  lastPut[adr[s]] + Livetime =< now
    OBVIOUS
  <2> DEFINE val == coorStorage[adr[s]]
  <2>1. TypeOK /\ adr[s] \in Address
    BY DEF IInv, Locals, LocalsOf, HasAddress
  <2>2. LookupCoor(s)
    \* No other action takes a session from the one call to the other.
    <3>1. ASSUME NEW t \in Session, NewSession(t) \/ Resume(t) \/ Run(t)
          PROVE  LookupCoor(s)
      BY <2>1, <3>1 DEF NewSession, Resume, Run, GetRequest, LookupCoor, GeoFound, GeoEmpty,
           GeoThrows, StoreCoor, LookupWeather, WeatherFound, WeatherEmpty, StoreWeather,
           SendAnswer, SendAnswerError, PauseOver, Goto, TypeOK, Ended
    <3>2. ~Clock
      BY DEF Clock, sessionVars
    <3> QED
      BY <3>1, <3>2 DEF Next
  <2>3. CoorEmpty(GetCoorByAdrress(adr[s]))
    BY <2>1, <2>2 DEF LookupCoor, Goto, TypeOK
  <2>4. val # Absent /\ val.ts = lastPut[adr[s]] /\ ~CoorEmpty(val.coor)
    BY <2>1 DEF IInv, MapHoldsLast, MapHoldsAnswers
  <2>5. ~(val.ts + Livetime > now)
    BY <2>3, <2>4 DEF GetCoorByAdrress
  <2>6. lastPut[adr[s]] \in Nat /\ now \in Nat /\ Livetime \in Nat
    BY <2>1, DbAssumption DEF TypeOK, DbTypeOK, Never
  <2> QED
    BY <2>4, <2>5, <2>6
<1> QED
  BY <1>1, Invariance, PTL DEF Spec, RepeatSkipsGeocoder

\* A cached record is not returned when it is too old, and a fetched one is in the
\* tree by the time it is returned: GetWeatherByCoor and PutWeather, together with
\* the order in which BusinessLogic calls them.
THEOREM FreshWeather == Spec => ServesFreshWeather
<1>1. IInv /\ [Next]_vars =>
        [\A s \in Session :
           pc[s] # "SendAnswer" /\ pc'[s] = "SendAnswer" =>
             \E e \in rtree' : /\ e.weather = weather'[s]
                               /\ e.coor = e.weather.coor
                               /\ e.weather.at =< e.time
                               /\ now =< e.time + Livetime]_vars
  <2> SUFFICES ASSUME IInv, Next, NEW s \in Session,
                      pc[s] # "SendAnswer", pc'[s] = "SendAnswer"
               PROVE  \E e \in rtree' : /\ e.weather = weather'[s]
                                        /\ e.coor = e.weather.coor
                                        /\ e.weather.at =< e.time
                                        /\ now =< e.time + Livetime
    OBVIOUS
  <2>1. TypeOK
    BY DEF IInv
  <2>2. LookupWeather(s) \/ StoreWeather(s)
    <3>1. ASSUME NEW t \in Session, NewSession(t) \/ Resume(t) \/ Run(t)
          PROVE  LookupWeather(s) \/ StoreWeather(s)
      BY <2>1, <3>1 DEF NewSession, Resume, Run, GetRequest, LookupCoor, GeoFound, GeoEmpty,
           GeoThrows, StoreCoor, LookupWeather, WeatherFound, WeatherEmpty, StoreWeather,
           SendAnswer, SendAnswerError, PauseOver, Goto, TypeOK, Ended
    <3>2. ~Clock
      BY DEF Clock, sessionVars
    <3> QED
      BY <3>1, <3>2 DEF Next
  <2>3. CASE LookupWeather(s)
    <3>1. PICK w \in GetWeatherByCoor(coor[s]) :
            /\ weather' = [weather EXCEPT ![s] = w]
            /\ pc' = [pc EXCEPT ![s] = IF w = NoWeather THEN "GetWeather" ELSE "SendAnswer"]
      BY <2>3 DEF LookupWeather, Goto
    <3>2. w # NoWeather /\ weather'[s] = w /\ rtree' = rtree
      BY <2>1, <2>3, <3>1 DEF TypeOK, LookupWeather
    <3>3. PICK e \in rtree : e.weather = w /\ Usable(e, coor[s])
      BY <3>2, WeatherFromTree
    <3> QED
      BY <3>2, <3>3 DEF Usable, IInv, TreeHoldsObservations
  <2>4. CASE StoreWeather(s)
    <3> DEFINE e == [weather |-> weather[s], coor |-> coor[s], time |-> now]
    <3>1. e \in rtree' /\ weather'[s] = weather[s] /\ pc[s] = "PutWeather"
      BY <2>4 DEF StoreWeather, PutWeather, Goto
    <3>2. weather[s].coor = coor[s] /\ weather[s].at =< now
      BY <3>1 DEF IInv, Locals, LocalsOf
    <3>3. now =< now + Livetime
      BY <2>1, DbAssumption DEF TypeOK, DbTypeOK
    <3> QED
      BY <3>1, <3>2, <3>3
  <2> QED
    BY <2>2, <2>3, <2>4
<1> QED
  BY <1>1, Invariance, PTL DEF Spec, ServesFreshWeather

-----------------------------------------------------------------------------
(* The R-tree under one thread. *)

\* At most one session is between two awaits.
OneRunning ==
  \A s, t \in Session : pc[s] \in OnThread /\ pc[t] \in OnThread => s = t

LEMMA FreeThread ==
  ASSUME Threads = 1, ThreadFree
  PROVE  \A s \in Session : pc[s] \notin OnThread
<1>1. IsFiniteSet(Running)
  BY FS_Subset, ServiceAssumption DEF Running
<1>2. Cardinality(Running) = 0
  BY <1>1, FS_CardinalityType DEF ThreadFree
<1>3. Running = {}
  BY <1>1, <1>2, FS_EmptySet
<1> QED
  BY <1>3 DEF Running

\* With common.threads = 1, the default, the lack of a lock on rtree_ does no
\* harm: from the end of one await to the next a session has the tree to itself.
THEOREM NoRaceOnOneThread ==
  ASSUME Threads = 1
  PROVE  Spec => []NoDataRace
<1>1. Init => OneRunning
  BY DEF Init, OneRunning, OnThread
<1>2. TypeOK /\ OneRunning /\ [Next]_vars => OneRunning'
  <2> SUFFICES ASSUME TypeOK, OneRunning, [Next]_vars PROVE OneRunning'
    OBVIOUS
  <2>1. CASE pc' = pc
    BY <2>1 DEF OneRunning
  <2>2. ASSUME NEW s \in Session, NewSession(s) \/ Resume(s) PROVE OneRunning'
    <3>1. ThreadFree /\ \A t \in Session : t # s => pc'[t] = pc[t]
      BY <2>2 DEF NewSession, Resume, GetRequest, GeoFound, GeoEmpty, GeoThrows, WeatherFound,
           WeatherEmpty, SendAnswer, SendAnswerError, PauseOver, Goto, TypeOK
    <3> QED
      BY <3>1, FreeThread DEF OneRunning
  <2>3. ASSUME NEW s \in Session, Run(s) PROVE OneRunning'
    <3>1. pc[s] \in OnThread /\ \A t \in Session : t # s => pc'[t] = pc[t]
      BY <2>3 DEF Run, LookupCoor, StoreCoor, LookupWeather, StoreWeather, Goto, TypeOK,
           OnThread
    <3> QED
      BY <3>1 DEF OneRunning
  <2> QED
    BY <2>1, <2>2, <2>3 DEF Next, Clock, sessionVars, vars
<1>3. OneRunning => NoDataRace
  BY DEF OneRunning, NoDataRace, Racing, OnThread
<1> QED
  BY <1>1, <1>2, <1>3, TypeCorrect, PTL DEF Spec

-----------------------------------------------------------------------------
(* What one look at the tree can miss. *)

\* When GetWeatherByCoor returns nothing, the record it looked at is unusable and at
\* least as near in degrees as any other.
LEMMA UnusableFirst ==
  ASSUME TypeOK, NEW c, NoWeather \in GetWeatherByCoor(c), NEW e \in rtree
  PROVE  \E f \in rtree : Degrees[c][f.coor] =< Degrees[c][e.coor] /\ ~Usable(f, c)
<1>1. \A f \in rtree : f.weather # NoWeather
  BY AbsentIsNoValue DEF TypeOK, DbTypeOK, WheatheRef
<1>2. PICK f \in Nearest(c) : ~Usable(f, c)
  BY <1>1 DEF GetWeatherByCoor, Nearest
<1> QED
  BY <1>2 DEF Nearest

\* The tree hides a fresh record of a close place only behind one that is at least as
\* near in degrees: whatever the metrics, the expiry and the number of sessions and
\* threads, nothing else makes GetWeatherByCoor break the promises of README.md:10-11.
THEOREM MissedOnlyIfHidden == Spec => FreshWeatherMissedOnlyIfHidden
<1>1. IInv /\ [Next]_vars =>
        [\A s \in Session :
           pc[s] = "GetWeatherByCoor" /\ pc'[s] = "GetWeather" =>
             \A e \in rtree :
               Metres[e.coor][coor[s]] =< Distance /\ now =< e.time + Livetime =>
                 \E f \in rtree :
                   /\ Degrees[coor[s]][f.coor] =< Degrees[coor[s]][e.coor]
                   /\ Metres[f.coor][coor[s]] > Distance \/ now > f.time + Livetime]_vars
  <2> SUFFICES ASSUME IInv, Next, NEW s \in Session,
                      pc[s] = "GetWeatherByCoor", pc'[s] = "GetWeather", NEW e \in rtree
               PROVE  \E f \in rtree :
                        /\ Degrees[coor[s]][f.coor] =< Degrees[coor[s]][e.coor]
                        /\ Metres[f.coor][coor[s]] > Distance \/ now > f.time + Livetime
    OBVIOUS
  <2>1. TypeOK /\ adr[s] \in Address /\ coor[s] \in Coor
    BY ServiceAssumption DEF IInv, Locals, LocalsOf, HasAddress, HasCoor
  <2>2. LookupWeather(s)
    <3>1. ASSUME NEW t \in Session, NewSession(t) \/ Resume(t) \/ Run(t)
          PROVE  LookupWeather(s)
      BY <2>1, <3>1 DEF NewSession, Resume, Run, GetRequest, LookupCoor, GeoFound, GeoEmpty,
           GeoThrows, StoreCoor, LookupWeather, WeatherFound, WeatherEmpty, StoreWeather,
           SendAnswer, SendAnswerError, PauseOver, Goto, TypeOK, Ended
    <3>2. ~Clock
      BY DEF Clock, sessionVars
    <3> QED
      BY <3>1, <3>2 DEF Next
  <2>3. NoWeather \in GetWeatherByCoor(coor[s])
    BY <2>1, <2>2 DEF LookupWeather, Goto, TypeOK
  <2>4. PICK f \in rtree :
          Degrees[coor[s]][f.coor] =< Degrees[coor[s]][e.coor] /\ ~Usable(f, coor[s])
    BY <2>1, <2>3, UnusableFirst
  <2>5. /\ f.coor \in Coor /\ f.time \in Nat /\ now \in Nat
        /\ Metres[f.coor][coor[s]] \in Nat /\ Distance \in Nat /\ Livetime \in Nat
    BY <2>1, DbAssumption DEF TypeOK, DbTypeOK, WheatheRef
  <2> QED
    BY <2>4, <2>5 DEF Usable
<1> QED
  BY <1>1, Invariance, PTL DEF Spec, FreshWeatherMissedOnlyIfHidden

-----------------------------------------------------------------------------
(* To its clients the service is a cache. *)

\* What a session does not hold yet, or no longer, and that it is replied to last.
AwaitsOf(s) ==
  /\ pc[s] \in Ended \cup {"pause", "GetRequest"} => adr[s] = NoAddress
  /\ pc[s] \in Ended \cup {"pause", "GetRequest", "GetCoorByAdrress", "GetCoordinate"} =>
       coor[s] = NoCoor
  /\ pc[s] \notin {"PutWeather", "SendAnswer"} => weather[s] = NoWeather
  /\ pc[s] = "SendAnswer" => weather[s] # NoWeather
  /\ pc[s] \notin Ended \cup {"pause"} => reply[s] = "none"

Awaits == \A s \in Session : AwaitsOf(s)

\* Only session s moves.
Alone(s) ==
  \A t \in Session : t # s =>
    /\ pc'[t] = pc[t] /\ adr'[t] = adr[t] /\ coor'[t] = coor[t]
    /\ weather'[t] = weather[t] /\ reply'[t] = reply[t]

LEMMA AloneAwaits ==
  ASSUME Awaits, NEW s \in Session, Alone(s), AwaitsOf(s)'
  PROVE  Awaits'
BY DEF Awaits, AwaitsOf, Alone

\* Nothing that is stored is empty: the coordinate that LookupCoor takes for empty is
\* NoCoor, and the weather that StoreWeather files is not NoWeather.
LEMMA EmptyIsNone ==
  ASSUME IInv, NEW a \in Address, CoorEmpty(GetCoorByAdrress(a))
  PROVE  GetCoorByAdrress(a) = NoCoor
BY DEF GetCoorByAdrress, IInv, MapHoldsAnswers

LEMMA NewSessionAwaits == ASSUME IInv, Awaits, NEW s \in Session, NewSession(s) PROVE Awaits'
<1>1. Alone(s)
  BY DEF NewSession, Goto, IInv, TypeOK, Alone
<1>2. AwaitsOf(s)'
  BY DEF NewSession, Goto, IInv, TypeOK, Awaits, AwaitsOf, Ended
<1> QED
  BY <1>1, <1>2, AloneAwaits

LEMMA RunAwaits == ASSUME IInv, Awaits, NEW s \in Session, Run(s) PROVE Awaits'
<1>1. Alone(s)
  BY DEF Run, LookupCoor, StoreCoor, LookupWeather, StoreWeather, Goto, IInv, TypeOK, Alone
<1>2. CASE LookupCoor(s)
  <2>1. adr[s] \in Address
    BY <1>2 DEF LookupCoor, Goto, IInv, Locals, LocalsOf, HasAddress
  <2> DEFINE c == GetCoorByAdrress(adr[s])
  <2>2. CoorEmpty(c) => c = NoCoor
    BY <2>1, EmptyIsNone
  <2>3. /\ coor'[s] = c /\ weather'[s] = weather[s] /\ reply'[s] = reply[s]
        /\ pc'[s] = IF CoorEmpty(c) THEN "GetCoordinate" ELSE "GetWeatherByCoor"
        /\ pc[s] = "GetCoorByAdrress"
    BY <1>2 DEF LookupCoor, Goto, IInv, TypeOK
  <2> HIDE DEF c
  <2>4. AwaitsOf(s)'
    BY <2>2, <2>3 DEF Awaits, AwaitsOf, Ended
  <2> QED
    BY <1>1, <2>4, AloneAwaits
<1>3. CASE StoreCoor(s)
  <2>1. AwaitsOf(s)'
    BY <1>3 DEF StoreCoor, Goto, IInv, TypeOK, Awaits, AwaitsOf, Ended
  <2> QED
    BY <1>1, <2>1, AloneAwaits
<1>4. CASE LookupWeather(s)
  <2>1. PICK w \in GetWeatherByCoor(coor[s]) :
          /\ weather' = [weather EXCEPT ![s] = w]
          /\ pc' = [pc EXCEPT ![s] = IF w = NoWeather THEN "GetWeather" ELSE "SendAnswer"]
    BY <1>4 DEF LookupWeather, Goto
  <2>2. /\ weather'[s] = w /\ reply'[s] = reply[s] /\ pc[s] = "GetWeatherByCoor"
        /\ pc'[s] = IF w = NoWeather THEN "GetWeather" ELSE "SendAnswer"
    BY <1>4, <2>1 DEF LookupWeather, IInv, TypeOK
  <2>3. AwaitsOf(s)'
    BY <2>2 DEF Awaits, AwaitsOf, Ended
  <2> QED
    BY <1>1, <2>3, AloneAwaits
<1>5. CASE StoreWeather(s)
  <2>1. weather[s] \in Weather
    BY <1>5 DEF StoreWeather, Goto, IInv, Locals, LocalsOf
  <2>2. AwaitsOf(s)'
    BY <1>5, <2>1, AbsentIsNoValue
       DEF StoreWeather, Goto, IInv, TypeOK, Awaits, AwaitsOf, Ended
  <2> QED
    BY <1>1, <2>2, AloneAwaits
<1> QED
  BY <1>2, <1>3, <1>4, <1>5 DEF Run

LEMMA ResumeAwaits == ASSUME IInv, Awaits, NEW s \in Session, Resume(s) PROVE Awaits'
<1>1. Alone(s)
  BY DEF Resume, GetRequest, GeoFound, GeoEmpty, GeoThrows, WeatherFound, WeatherEmpty,
    SendAnswer, SendAnswerError, PauseOver, DropLocals, Goto, IInv, TypeOK, Alone
<1> USE DEF Goto, IInv, TypeOK, Awaits, AwaitsOf, Ended
<1>2. CASE GetRequest(s)
  <2>1. AwaitsOf(s)'
    BY <1>2 DEF GetRequest
  <2> QED
    BY <1>1, <2>1, AloneAwaits
<1>3. CASE GeoFound(s) \/ GeoEmpty(s) \/ WeatherFound(s) \/ WeatherEmpty(s) \/ PauseOver(s)
  <2>1. AwaitsOf(s)'
    BY <1>3 DEF GeoFound, GeoEmpty, WeatherFound, WeatherEmpty, PauseOver
  <2> QED
    BY <1>1, <2>1, AloneAwaits
<1>4. CASE GeoThrows(s) \/ SendAnswer(s) \/ SendAnswerError(s)
  <2>1. AwaitsOf(s)'
    BY <1>4 DEF GeoThrows, SendAnswer, SendAnswerError, DropLocals
  <2> QED
    BY <1>1, <2>1, AloneAwaits
<1> QED
  BY <1>2, <1>3, <1>4 DEF Resume

LEMMA NextAwaits == IInv /\ Awaits /\ [Next]_vars => Awaits'
<1>1. UNCHANGED <<pc, adr, coor, weather, reply>> /\ Awaits => Awaits'
  BY DEF Awaits, AwaitsOf
<1>2. Clock \/ UNCHANGED vars => UNCHANGED <<pc, adr, coor, weather, reply>>
  BY DEF Clock, sessionVars, vars
<1> QED
  BY <1>1, <1>2, NewSessionAwaits, ResumeAwaits, RunAwaits DEF Next

LEMMA InitAwaits == Init => Awaits
BY DEF Init, DbInit, Awaits, AwaitsOf, Ended

\* The store of the cache.
Kept == {[weather |-> e.weather, time |-> e.time] : e \in rtree}

\* What the cache shows of a step of session s.
LEMMA Views ==
  ASSUME TypeOK, NEW s \in Session, Alone(s), NEW p, NEW w,
         p = IF pc'[s] = "PutCoordinate" THEN NoCoor ELSE coor'[s],
         w = IF pc'[s] = "PutWeather" THEN NoWeather ELSE weather'[s]
  PROVE  /\ PlaceKnown' = [PlaceKnown EXCEPT ![s] = p]
         /\ WeatherKept' = [WeatherKept EXCEPT ![s] = w]
BY DEF PlaceKnown, WeatherKept, Alone

LEMMA NoChange ==
  ASSUME NEW s \in Session
  PROVE  /\ PlaceKnown = [PlaceKnown EXCEPT ![s] = PlaceKnown[s]]
         /\ WeatherKept = [WeatherKept EXCEPT ![s] = WeatherKept[s]]
         /\ PlaceKnown[s] = IF pc[s] = "PutCoordinate" THEN NoCoor ELSE coor[s]
         /\ WeatherKept[s] = IF pc[s] = "PutWeather" THEN NoWeather ELSE weather[s]
BY DEF PlaceKnown, WeatherKept

LEMMA Hidden ==
  ASSUME UNCHANGED <<adr, PlaceKnown, WeatherKept, reply, coorStorage, rtree, now>>
  PROVE  UNCHANGED Cache!vars
BY DEF Cache!vars

\* A session's own step that the cache does not show.
LEMMA Invisible ==
  ASSUME IInv, NEW s \in Session, Alone(s), UNCHANGED <<adr, reply, coorStorage, rtree, now>>,
         PlaceKnown[s] = IF pc'[s] = "PutCoordinate" THEN NoCoor ELSE coor'[s],
         WeatherKept[s] = IF pc'[s] = "PutWeather" THEN NoWeather ELSE weather'[s]
  PROVE  UNCHANGED Cache!vars
<1>1. PlaceKnown' = PlaceKnown /\ WeatherKept' = WeatherKept
  BY Views, NoChange DEF IInv
<1> QED
  BY <1>1, Hidden

LEMMA NewSessionConnects ==
  ASSUME IInv, Awaits, NEW s \in Session, NewSession(s) PROVE Cache!Connect(s)
<1>1. adr[s] = NoAddress
  BY DEF NewSession, Goto, Awaits, AwaitsOf
<1>2. Alone(s)
  BY DEF NewSession, Goto, IInv, TypeOK, Alone
<1>3. pc[s] \in Ended /\ pc'[s] = "GetRequest" /\ coor' = coor /\ weather' = weather
  BY DEF NewSession, Goto, IInv, TypeOK
<1>4. PlaceKnown' = PlaceKnown /\ WeatherKept' = WeatherKept
  BY <1>2, <1>3, Views, NoChange DEF IInv, Ended
<1> QED
  BY <1>1, <1>4 DEF NewSession, Cache!Connect

LEMMA GetRequestAsks ==
  ASSUME IInv, Awaits, NEW s \in Session, GetRequest(s)
  PROVE  Cache!Ask(s) \/ UNCHANGED Cache!vars
<1>1. Alone(s) /\ pc[s] = "GetRequest" /\ pc'[s] \in {"GetCoorByAdrress", "SendAnswerError"}
  BY DEF GetRequest, Goto, IInv, TypeOK, Alone
<1>2. UNCHANGED <<coorStorage, rtree, now, coor, weather, reply>>
  BY DEF GetRequest
<1>3. PlaceKnown' = PlaceKnown /\ WeatherKept' = WeatherKept
  BY <1>1, <1>2, Views, NoChange DEF IInv
<1>4. adr[s] = NoAddress /\ reply[s] = "none"
  BY <1>1 DEF Awaits, AwaitsOf, Ended
<1>5. CASE UNCHANGED adr
  BY <1>2, <1>3, <1>5, Hidden
<1>6. CASE \E a \in Address : adr' = [adr EXCEPT ![s] = a]
  BY <1>2, <1>3, <1>4, <1>6 DEF Cache!Ask
<1> QED
  BY <1>5, <1>6 DEF GetRequest

LEMMA LookupCoorRecalls ==
  ASSUME IInv, Awaits, NEW s \in Session, LookupCoor(s)
  PROVE  Cache!Recall(s) \/ UNCHANGED Cache!vars
<1> DEFINE c == GetCoorByAdrress(adr[s])
<1>1. adr[s] \in Address
  BY DEF LookupCoor, Goto, IInv, Locals, LocalsOf, HasAddress
<1>2. /\ Alone(s) /\ pc[s] = "GetCoorByAdrress" /\ coor'[s] = c /\ coor[s] = NoCoor
      /\ pc'[s] = IF CoorEmpty(c) THEN "GetCoordinate" ELSE "GetWeatherByCoor"
  BY DEF LookupCoor, Goto, IInv, TypeOK, Alone, Awaits, AwaitsOf
<1>3. UNCHANGED <<coorStorage, rtree, now, adr, weather, reply>>
  BY DEF LookupCoor
<1>4. CASE CoorEmpty(c)
  <2>1. c = NoCoor
    BY <1>1, <1>4, EmptyIsNone
  <2> QED
    BY <1>2, <1>3, <1>4, <2>1, Invisible, NoChange
<1>5. CASE ~CoorEmpty(c)
  <2>1. /\ coorStorage[adr[s]] # Absent /\ c = coorStorage[adr[s]].coor
        /\ coorStorage[adr[s]].ts + Livetime > now
    BY <1>5 DEF GetCoorByAdrress, CoorEmpty
  <2>2. coorStorage[adr[s]].ts \in Nat /\ now \in Nat /\ Livetime \in Nat
    BY <1>1, <2>1, DbAssumption DEF IInv, TypeOK, DbTypeOK, Value
  <2>3. now < coorStorage[adr[s]].ts + Livetime
    BY <2>1, <2>2
  <2>4. PlaceKnown' = [PlaceKnown EXCEPT ![s] = c] /\ WeatherKept' = WeatherKept
    <3> HIDE DEF c
    <3> QED
      BY <1>2, <1>3, <1>5, Views, NoChange DEF IInv
  <2>5. PlaceKnown[s] = NoCoor /\ adr[s] # NoAddress
    BY <1>1, <1>2, NoChange, ServiceAssumption
  <2> QED
    BY <1>3, <2>1, <2>3, <2>4, <2>5 DEF Cache!Recall, Cache!Unlocated, Cache!Locate
<1> QED
  BY <1>4, <1>5

LEMMA StoreCoorLearns ==
  ASSUME IInv, Awaits, NEW s \in Session, StoreCoor(s) PROVE Cache!Learn(s)
<1>1. /\ Alone(s) /\ pc[s] = "PutCoordinate" /\ pc'[s] = "GetWeatherByCoor"
      /\ UNCHANGED <<rtree, now, adr, coor, weather, reply>>
      /\ coorStorage' = [coorStorage EXCEPT ![adr[s]] = [coor |-> coor[s], ts |-> now]]
  BY DEF StoreCoor, PutCoordinate, Goto, IInv, TypeOK, Alone
<1>2. adr[s] \in Address /\ coor[s] \in GeoAnswers[adr[s]] /\ ~CoorEmpty(coor[s])
  BY <1>1 DEF IInv, Locals, LocalsOf, HasAddress, HasCoor
<1>3. PlaceKnown' = [PlaceKnown EXCEPT ![s] = coor[s]] /\ WeatherKept' = WeatherKept
  BY <1>1, Views, NoChange DEF IInv
<1>4. PlaceKnown[s] = NoCoor /\ adr[s] # NoAddress
  BY <1>1, <1>2, NoChange, ServiceAssumption
<1>5. coor[s] \in [a \in Address |-> {c \in GeoAnswers[a] : ~CoorEmpty(c)}][adr[s]]
  BY <1>2
<1> QED
  BY <1>1, <1>3, <1>4, <1>5 DEF Cache!Learn, Cache!Unlocated, Cache!Locate

LEMMA LookupWeatherReuses ==
  ASSUME IInv, Awaits, NEW s \in Session, LookupWeather(s)
  PROVE  Cache!Reuse(s) \/ UNCHANGED Cache!vars
<1>1. PICK w \in GetWeatherByCoor(coor[s]) :
        /\ weather' = [weather EXCEPT ![s] = w]
        /\ pc' = [pc EXCEPT ![s] = IF w = NoWeather THEN "GetWeather" ELSE "SendAnswer"]
  BY DEF LookupWeather, Goto
<1>2. /\ Alone(s) /\ pc[s] = "GetWeatherByCoor" /\ weather'[s] = w /\ weather[s] = NoWeather
      /\ pc'[s] = IF w = NoWeather THEN "GetWeather" ELSE "SendAnswer"
      /\ UNCHANGED <<coorStorage, rtree, now, adr, coor, reply>>
  BY <1>1 DEF LookupWeather, IInv, TypeOK, Alone, Awaits, AwaitsOf
<1>3. CASE w = NoWeather
  BY <1>2, <1>3, Invisible, NoChange
<1>4. CASE w # NoWeather
  <2>1. PICK e \in rtree : e.weather = w /\ Usable(e, coor[s])
    BY <1>4, WeatherFromTree
  <2> DEFINE k == [weather |-> e.weather, time |-> e.time]
  <2>2. k \in Kept /\ k.weather = w /\ k.time = e.time
    BY <2>1 DEF Kept
  <2>3. coor[s] \in Coor
    BY <1>2, ServiceAssumption DEF IInv, Locals, LocalsOf, HasAddress, HasCoor
  <2>4. PlaceKnown[s] = coor[s] /\ coor[s] # NoCoor /\ WeatherKept[s] = NoWeather
    BY <1>2, <2>3, NoChange, DbAssumption
  <2>5. WeatherKept' = [WeatherKept EXCEPT ![s] = w] /\ PlaceKnown' = PlaceKnown
    BY <1>2, <1>4, Views, NoChange DEF IInv
  <2>6. Metres[k.weather.coor][PlaceKnown[s]] =< Distance /\ now =< k.time + Livetime
    BY <2>1, <2>2, <2>4 DEF Usable, IInv, TreeHoldsObservations
  <2> QED
    BY <1>2, <2>2, <2>4, <2>5, <2>6 DEF Cache!Reuse, Cache!Uninformed, Cache!Inform, Kept
<1> QED
  BY <1>3, <1>4

LEMMA StoreWeatherFetches ==
  ASSUME IInv, Awaits, NEW s \in Session, StoreWeather(s) PROVE Cache!Fetch(s)
<1> DEFINE r == [weather |-> weather[s], coor |-> coor[s], time |-> now]
           k == [weather |-> weather[s], time |-> now]
<1>1. /\ Alone(s) /\ pc[s] = "PutWeather" /\ pc'[s] = "SendAnswer"
      /\ UNCHANGED <<coorStorage, now, adr, coor, weather, reply>>
      /\ rtree' = rtree \cup {r}
  BY DEF StoreWeather, PutWeather, Goto, IInv, TypeOK, Alone
<1>2. /\ coor[s] \in GeoAnswers[adr[s]] /\ adr[s] \in Address
      /\ weather[s] \in Weather /\ weather[s].coor = coor[s] /\ weather[s].at =< now
  BY <1>1 DEF IInv, Locals, LocalsOf, HasAddress, HasCoor
<1>3. coor[s] \in Coor /\ now \in Nat /\ weather[s].at \in 0..now
  BY <1>2, ServiceAssumption DEF IInv, TypeOK, DbTypeOK, Weather
<1>4. weather[s] = [coor |-> coor[s], at |-> weather[s].at]
  BY <1>2 DEF Weather
<1>5. PlaceKnown[s] = coor[s] /\ coor[s] # NoCoor /\ WeatherKept[s] = NoWeather
  BY <1>1, <1>3, NoChange, DbAssumption
<1>6. WeatherKept' = [WeatherKept EXCEPT ![s] = weather[s]] /\ PlaceKnown' = PlaceKnown
  BY <1>1, Views, NoChange DEF IInv
<1>7. Kept' = Kept \cup {k}
  <2>1. Kept' = {[weather |-> e.weather, time |-> e.time] : e \in rtree \cup {r}}
    BY <1>1 DEF Kept
  <2>2. r.weather = weather[s] /\ r.time = now
    OBVIOUS
  <2> HIDE DEF r
  <2> QED
    BY <2>1, <2>2 DEF Kept
<1> QED
  BY <1>1, <1>3, <1>4, <1>5, <1>6, <1>7
     DEF Cache!Fetch, Cache!Uninformed, Cache!Inform, Kept

LEMMA EndReplies ==
  ASSUME IInv, Awaits, NEW s \in Session, NEW from, NEW to, Goto(s, from, to), DropLocals(s),
         from \in {"GetCoordinate", "SendAnswer", "SendAnswerError"}, to \in {"pause", "done"},
         UNCHANGED <<coorStorage, rtree, now>>, NEW r, reply' = [reply EXCEPT ![s] = r]
  PROVE  Cache!Reply(s, r) /\ WeatherKept[s] = weather[s]
<1>1. /\ Alone(s) /\ pc[s] = from /\ pc'[s] = to /\ coor'[s] = NoCoor /\ weather'[s] = NoWeather
      /\ adr' = [adr EXCEPT ![s] = NoAddress]
  BY DEF Goto, DropLocals, IInv, TypeOK, Alone
<1>2. reply[s] = "none"
  BY <1>1 DEF Awaits, AwaitsOf, Ended
<1>3. /\ PlaceKnown' = [PlaceKnown EXCEPT ![s] = NoCoor]
      /\ WeatherKept' = [WeatherKept EXCEPT ![s] = NoWeather]
  BY <1>1, Views DEF IInv
<1>4. WeatherKept[s] = weather[s]
  BY <1>1, NoChange
<1> QED
  BY <1>1, <1>2, <1>3, <1>4 DEF Cache!Reply

LEMMA ResumeImplements ==
  ASSUME IInv, Awaits, NEW s \in Session, Resume(s)
  PROVE  Cache!Next \/ UNCHANGED Cache!vars
<1>1. CASE GetRequest(s)
  BY <1>1, GetRequestAsks DEF Cache!Next
<1>2. CASE GeoFound(s) \/ GeoEmpty(s) \/ WeatherFound(s) \/ WeatherEmpty(s) \/ PauseOver(s)
  <2>1. Alone(s) /\ UNCHANGED <<adr, reply, coorStorage, rtree, now>>
    BY <1>2 DEF GeoFound, GeoEmpty, WeatherFound, WeatherEmpty, PauseOver, Goto, IInv, TypeOK,
         Alone
  <2>2. PlaceKnown[s] = IF pc'[s] = "PutCoordinate" THEN NoCoor ELSE coor'[s]
    BY <1>2, NoChange DEF GeoFound, GeoEmpty, WeatherFound, WeatherEmpty, PauseOver, Goto,
         IInv, TypeOK, Awaits, AwaitsOf
  <2>3. WeatherKept[s] = IF pc'[s] = "PutWeather" THEN NoWeather ELSE weather'[s]
    BY <1>2, NoChange DEF GeoFound, GeoEmpty, WeatherFound, WeatherEmpty, PauseOver, Goto,
         IInv, TypeOK, Awaits, AwaitsOf
  <2> QED
    BY <2>1, <2>2, <2>3, Invisible
<1>3. CASE GeoThrows(s) \/ SendAnswerError(s)
  <2>1. weather[s] = NoWeather /\ reply[s] = "none"
    BY <1>3 DEF GeoThrows, SendAnswerError, Goto, Awaits, AwaitsOf, Ended
  <2>2. \E r \in {"error", "lost", "none"} :
           reply' = [reply EXCEPT ![s] = r]
    BY <1>3, <2>1 DEF GeoThrows, SendAnswerError, IInv, TypeOK
  <2>3. \E r \in {"error", "lost", "none"} : Cache!Reply(s, r) /\ WeatherKept[s] = weather[s]
    BY <1>3, <2>2, EndReplies DEF GeoThrows, SendAnswerError
  <2>4. Cache!Refuse(s)
    BY <2>1, <2>3 DEF Cache!Refuse
  <2> QED
    BY <2>4 DEF Cache!Next
<1>4. CASE SendAnswer(s)
  <2>1. weather[s] # NoWeather
    BY <1>4 DEF SendAnswer, Goto, Awaits, AwaitsOf
  <2>2. \E r \in {"weather", "lost"} : Cache!Reply(s, r) /\ WeatherKept[s] = weather[s]
    BY <1>4, EndReplies DEF SendAnswer
  <2>3. Cache!Answer(s)
    BY <2>1, <2>2 DEF Cache!Answer
  <2> QED
    BY <2>3 DEF Cache!Next
<1> QED
  BY <1>1, <1>2, <1>3, <1>4 DEF Resume

LEMMA InitImplements == Init => Cache!Init
BY DEF Init, DbInit, Cache!Init, PlaceKnown, WeatherKept

LEMMA NextImplements == IInv /\ Awaits /\ [Next]_vars => [Cache!Next]_(Cache!vars)
<1> SUFFICES ASSUME IInv, Awaits, [Next]_vars PROVE Cache!Next \/ UNCHANGED Cache!vars
  OBVIOUS
<1>1. ASSUME NEW s \in Session, NewSession(s) PROVE Cache!Next
  BY <1>1, NewSessionConnects DEF Cache!Next
<1>2. ASSUME NEW s \in Session, Run(s) PROVE Cache!Next \/ UNCHANGED Cache!vars
  BY <1>2, LookupCoorRecalls, StoreCoorLearns, LookupWeatherReuses, StoreWeatherFetches
     DEF Run, Cache!Next
<1>3. CASE Clock
  <2>1. Cache!Tick
    BY <1>3 DEF Clock, Tick, dbVars, sessionVars, Cache!Tick, PlaceKnown, WeatherKept
  <2> QED
    BY <2>1 DEF Cache!Next
<1>4. CASE UNCHANGED vars
  BY <1>4, Hidden DEF vars, PlaceKnown, WeatherKept
<1> QED
  BY <1>1, <1>2, <1>3, <1>4, ResumeImplements DEF Next

\* The sessions' interleaved database calls, with the upstream answers under way between
\* them, amount to WeatherCache's single steps: for any number of sessions and threads,
\* up to a race on the R-tree.
THEOREM Implementation == Spec => ImplementsCache
BY InitImplements, InitAwaits, NextAwaits, NextImplements, Invariance, PTL
   DEF Spec, ImplementsCache, Cache!Spec

=============================================================================
