----------------------------- MODULE InMemoryDb -----------------------------
(***************************************************************************)
(* The in-memory implementation of DbIntf: a map from addresses to         *)
(* coordinates guarded by a shared_mutex, and an R-tree of weather records *)
(* that nothing guards.  Both stamp what they store with time(nullptr) and *)
(* neither ever removes anything: an entry only becomes too old to be      *)
(* returned.                                                               *)
(*                                                                         *)
(* The map's operations hold its lock from end to end, so each is one      *)
(* step.  The R-tree's operations are windows, opened and closed by the    *)
(* module that uses them (WeatherService), because two threads can be      *)
(* inside the tree at once.                                                *)
(*                                                                         *)
(* Here and in the other modules, a definition whose comment begins with   *)
(* "Bug" is not used: put in the place of the definition that follows it,  *)
(* it makes a property fail, which shows that the property can.            *)
(***************************************************************************)
EXTENDS Naturals

CONSTANTS
  Address,   \* complete addresses: no field is empty
  Coor,      \* coordinates the geocoder can answer
  NoCoor,    \* Coordinate{}
  Degrees,   \* Degrees[c][d]: the R-tree's distance, Cartesian in lat/lon
  Metres,    \* Metres[c][d]: CalcGPSDistance
  Livetime,  \* CommonCfg::livetime, in seconds
  Distance,  \* CommonCfg::distance, in metres
  MaxTime    \* bound: the clock stops here

ASSUME DbAssumption ==
  /\ NoCoor \notin Coor
  /\ Degrees \in [Coor -> [Coor -> Nat]]
  /\ Metres \in [Coor -> [Coor -> Nat]]
  /\ \A c \in Coor : Metres[c][c] = 0
  /\ Livetime \in Nat
  /\ Distance \in Nat
  /\ MaxTime \in Nat

VARIABLES
  coorStorage,  \* CoorByAdressStorage::storage_
  rtree,        \* WeatherByCoorStorage::rtree_
  now           \* time(nullptr)

dbVars == <<coorStorage, rtree>>

(***************************************************************************)
(* A weather answer is known by the place it was asked for and the second  *)
(* in which it arrived; its JSON text plays no part.                       *)
(***************************************************************************)
Weather == [coor : Coor, at : Nat]
NoWeather == [coor |-> NoCoor, at |-> 0]

\* A map entry; an address that is not in the map has the entry Absent.
Value == [coor : Coor, ts : Nat]
Absent == [coor |-> NoCoor, ts |-> 0]

WheatheRef == [weather : Weather, coor : Coor, time : Nat]

DbTypeOK ==
  /\ coorStorage \in [Address -> Value \cup {Absent}]
  /\ rtree \subseteq WheatheRef
  /\ now \in Nat

DbInit ==
  /\ coorStorage = [a \in Address |-> Absent]
  /\ rtree = {}
  /\ now = 0

-----------------------------------------------------------------------------

\* Strict: an entry is already too old at the age of exactly Livetime.
GetCoorByAdrress(adr) ==
  LET val == coorStorage[adr]
  IN  IF val # Absent /\ val.ts + Livetime > now THEN val.coor ELSE NoCoor

\* Bug: insert, which keeps the entry that is there.
InsertCoordinate(adr, coor) ==
  IF coorStorage[adr] = Absent
  THEN coorStorage' = [coorStorage EXCEPT ![adr] = [coor |-> coor, ts |-> now]]
  ELSE UNCHANGED coorStorage

\* insert_or_assign: a second answer replaces the first and its time stamp.
PutCoordinate(adr, coor) ==
  coorStorage' = [coorStorage EXCEPT ![adr] = [coor |-> coor, ts |-> now]]

\* Bug: the records in the order of the tree, not of their distance.
AnyRecord(coor) == rtree

\* Which of several equally near records the tree yields first is its affair.
Nearest(coor) ==
  {e \in rtree : \A f \in rtree : Degrees[coor][e.coor] =< Degrees[coor][f.coor]}

\* Bug: no test of the record's age.
UsableForEver(e, coor) == Metres[e.coor][coor] =< Distance

\* Bug: no test of the distance; the nearest record is taken to be near.
UsableAnywhere(e, coor) == now =< e.time + Livetime

\* Not strict: a record can still be returned at the age of exactly Livetime.
Usable(e, coor) ==
  /\ Metres[e.coor][coor] =< Distance
  /\ now =< e.time + Livetime

(***************************************************************************)
(* The answers GetWeatherByCoor can give.  It looks at the first record    *)
(* the nearest query yields, and at no other: if that one is too far or    *)
(* too old the answer is empty.                                            *)
(***************************************************************************)
GetWeatherByCoor(coor) ==
  IF rtree = {} THEN {NoWeather}
  ELSE {IF Usable(e, coor) THEN e.weather ELSE NoWeather : e \in Nearest(coor)}

PutWeather(coor, weather) ==
  rtree' = rtree \cup {[weather |-> weather, coor |-> coor, time |-> now]}

\* A second passes.
Tick ==
  /\ now < MaxTime
  /\ now' = now + 1
  /\ UNCHANGED dbVars

=============================================================================
