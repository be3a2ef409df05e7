--------------------------- MODULE WeatherService ---------------------------
(***************************************************************************)
(* bl::BusinessLogic: one coroutine per accepted connection, run by the    *)
(* threads of the io_context, over the shared in-memory database and the   *)
(* two upstream clients.                                                   *)
(*                                                                         *)
(* pc[s] names the call session s is in.  A call that is awaited leaves    *)
(* the thread free; a call into the database occupies it.  What a thread   *)
(* runs between two awaits is therefore a segment that only another thread *)
(* can interleave with: with Threads = 1 segments are atomic.              *)
(*                                                                         *)
(* The upstream clients are seen through their result (ConnPool has the    *)
(* rest).  A session that has ended may be reused for a new connection.    *)
(***************************************************************************)
EXTENDS InMemoryDb, FiniteSets

CONSTANTS
  Session,     \* connections served at the same time
  Threads,     \* CommonCfg::threads
  NoAddress,   \* an Address with an empty field
  GeoAnswers,  \* GeoAnswers[a]: what the geocoder may answer for address a
  ZeroCoor,    \* coordinates of which a component is 0
  MaxEntries   \* bound: weather records stored

ASSUME ServiceAssumption ==
  /\ IsFiniteSet(Session)
  /\ Threads \in Nat \ {0}
  /\ NoAddress \notin Address
  /\ GeoAnswers \in [Address -> SUBSET Coor]
  /\ ZeroCoor \subseteq Coor
  /\ MaxEntries \in Nat

VARIABLES
  pc,       \* the call each session is in
  adr,      \* BusinessLogic's locals
  coor,
  weather,
  reply,    \* what became of the HTTP response
  lastPut   \* history: when the geocoder's answer for an address was last
            \* handed to the database; Never before that

sessionVars == <<pc, adr, coor, weather, reply>>
vars == <<coorStorage, rtree, now, pc, adr, coor, weather, reply, lastPut>>

Awaited == {"GetRequest", "GetCoordinate", "GetWeather",
            "SendAnswer", "SendAnswerError", "pause"}
OnThread == {"GetCoorByAdrress", "PutCoordinate", "GetWeatherByCoor", "PutWeather"}
Ended == {"none", "done"}

Never == MaxTime + 1

TypeOK ==
  /\ DbTypeOK
  /\ pc \in [Session -> Awaited \cup OnThread \cup Ended]
  /\ adr \in [Session -> Address \cup {NoAddress}]
  /\ coor \in [Session -> Coor \cup {NoCoor}]
  /\ weather \in [Session -> Weather \cup {NoWeather}]
  /\ reply \in [Session -> {"none", "weather", "error", "lost"}]
  /\ lastPut \in [Address -> 0..Never]

Init ==
  /\ DbInit
  /\ pc = [s \in Session |-> "none"]
  /\ adr = [s \in Session |-> NoAddress]
  /\ coor = [s \in Session |-> NoCoor]
  /\ weather = [s \in Session |-> NoWeather]
  /\ reply = [s \in Session |-> "none"]
  /\ lastPut = [a \in Address |-> Never]

-----------------------------------------------------------------------------
(* Threads. *)

Running == {s \in Session : pc[s] \in OnThread}

\* Bug: one thread more than there are.
ThreadFreeBeyond == Cardinality(Running) =< Threads

\* A completed operation resumes its coroutine on a thread that is free.
ThreadFree == Cardinality(Running) < Threads

\* Two sessions are in the R-tree at once and one of them is writing.
Racing ==
  \E s, t \in Session : /\ s # t
                        /\ pc[s] = "PutWeather"
                        /\ pc[t] \in {"PutWeather", "GetWeatherByCoor"}

\* A race is undefined behaviour: the model makes no step from such a state.
Goto(s, from, to) ==
  /\ ~Racing
  /\ pc[s] = from
  /\ pc' = [pc EXCEPT ![s] = to]

\* Coordinate::Empty
CoorEmpty(c) == c = NoCoor \/ c \in ZeroCoor

\* The coroutine's locals are dead once it has nothing left to compute.
DropLocals(s) ==
  /\ adr' = [adr EXCEPT ![s] = NoAddress]
  /\ coor' = [coor EXCEPT ![s] = NoCoor]
  /\ weather' = [weather EXCEPT ![s] = NoWeather]

-----------------------------------------------------------------------------
(* The callback given to the server, and the coroutine it spawns. *)

NewSession(s) ==
  /\ ThreadFree
  /\ \E e \in Ended : Goto(s, e, "GetRequest")
  /\ reply' = [reply EXCEPT ![s] = "none"]
  /\ UNCHANGED <<coorStorage, rtree, now, adr, coor, weather, lastPut>>

\* The request is read and has a complete address; or the read fails or takes
\* longer than 60 s, the method is not GET, or a field is missing.
GetRequest(s) ==
  /\ ThreadFree
  /\ \/ \E a \in Address : /\ Goto(s, "GetRequest", "GetCoorByAdrress")
                           /\ adr' = [adr EXCEPT ![s] = a]
     \/ /\ Goto(s, "GetRequest", "SendAnswerError")
        /\ UNCHANGED adr
  /\ UNCHANGED <<coorStorage, rtree, now, coor, weather, reply, lastPut>>

LookupCoor(s) ==
  LET c == GetCoorByAdrress(adr[s])
  IN  /\ Goto(s, "GetCoorByAdrress",
              IF CoorEmpty(c) THEN "GetCoordinate" ELSE "GetWeatherByCoor")
      /\ coor' = [coor EXCEPT ![s] = c]
      /\ UNCHANGED <<coorStorage, rtree, now, adr, weather, reply, lastPut>>

\* Bug: the coordinate is used without being stored.
GeoFoundUnstored(s) ==
  /\ ThreadFree
  /\ Goto(s, "GetCoordinate", "GetWeatherByCoor")
  /\ \E c \in GeoAnswers[adr[s]] : /\ ~CoorEmpty(c)
                                   /\ coor' = [coor EXCEPT ![s] = c]
  /\ UNCHANGED <<coorStorage, rtree, now, adr, weather, reply, lastPut>>

\* A coordinate.
GeoFound(s) ==
  /\ ThreadFree
  /\ Goto(s, "GetCoordinate", "PutCoordinate")
  /\ \E c \in GeoAnswers[adr[s]] : /\ ~CoorEmpty(c)
                                   /\ coor' = [coor EXCEPT ![s] = c]
  /\ UNCHANGED <<coorStorage, rtree, now, adr, weather, reply, lastPut>>

\* Bug: the empty coordinate is not noticed.
GeoEmptyUnnoticed(s) ==
  /\ ThreadFree
  /\ Goto(s, "GetCoordinate", "PutCoordinate")
  /\ UNCHANGED <<coorStorage, rtree, now, adr, coor, weather, reply, lastPut>>

\* No connection, an HTTP error, nothing found, a malformed answer, or a
\* coordinate with a component that is 0.
GeoEmpty(s) ==
  /\ ThreadFree
  /\ Goto(s, "GetCoordinate", "SendAnswerError")
  /\ UNCHANGED <<coorStorage, rtree, now, adr, coor, weather, reply, lastPut>>

\* The body is not JSON: read_json throws outside ParseResponse's try block,
\* the exception ends BusinessLogic, and co_spawn's detached drops it.
GeoThrows(s) ==
  /\ ThreadFree
  /\ Goto(s, "GetCoordinate", "done")
  /\ DropLocals(s)
  /\ UNCHANGED <<coorStorage, rtree, now, reply, lastPut>>

StoreCoor(s) ==
  /\ Goto(s, "PutCoordinate", "GetWeatherByCoor")
  /\ PutCoordinate(adr[s], coor[s])
  /\ lastPut' = [lastPut EXCEPT ![adr[s]] = now]
  /\ UNCHANGED <<rtree, now, adr, coor, weather, reply>>

LookupWeather(s) ==
  /\ pc[s] = "GetWeatherByCoor"
  /\ \E w \in GetWeatherByCoor(coor[s]) :
       /\ Goto(s, pc[s], IF w = NoWeather THEN "GetWeather" ELSE "SendAnswer")
       /\ weather' = [weather EXCEPT ![s] = w]
  /\ UNCHANGED <<coorStorage, rtree, now, adr, coor, reply, lastPut>>

WeatherFound(s) ==
  /\ ThreadFree
  /\ Cardinality(rtree) < MaxEntries
  /\ Goto(s, "GetWeather", "PutWeather")
  /\ weather' = [weather EXCEPT ![s] = [coor |-> coor[s], at |-> now]]
  /\ UNCHANGED <<coorStorage, rtree, now, adr, coor, reply, lastPut>>

\* No connection, an HTTP error or an empty body.
WeatherEmpty(s) ==
  /\ ThreadFree
  /\ Goto(s, "GetWeather", "SendAnswerError")
  /\ UNCHANGED <<coorStorage, rtree, now, adr, coor, weather, reply, lastPut>>

StoreWeather(s) ==
  /\ Goto(s, "PutWeather", "SendAnswer")
  /\ PutWeather(coor[s], weather[s])
  /\ UNCHANGED <<coorStorage, now, adr, coor, weather, reply, lastPut>>

\* A write that fails is caught and logged; the pause follows all the same.
SendAnswer(s) ==
  /\ ThreadFree
  /\ Goto(s, "SendAnswer", "pause")
  /\ \E r \in {"weather", "lost"} : reply' = [reply EXCEPT ![s] = r]
  /\ DropLocals(s)
  /\ UNCHANGED <<coorStorage, rtree, now, lastPut>>

SendAnswerError(s) ==
  /\ ThreadFree
  /\ Goto(s, "SendAnswerError", "done")
  /\ \E r \in {"error", "lost"} : reply' = [reply EXCEPT ![s] = r]
  /\ DropLocals(s)
  /\ UNCHANGED <<coorStorage, rtree, now, lastPut>>

\* Bug: the session goes on to the next request of its connection.
PauseOverKeepAlive(s) ==
  /\ ThreadFree
  /\ Goto(s, "pause", "GetRequest")
  /\ UNCHANGED <<coorStorage, rtree, now, adr, coor, weather, reply, lastPut>>

\* requestPause is over; how long it was makes no difference here.
PauseOver(s) ==
  /\ ThreadFree
  /\ Goto(s, "pause", "done")
  /\ UNCHANGED <<coorStorage, rtree, now, adr, coor, weather, reply, lastPut>>

Clock == ~Racing /\ Tick /\ UNCHANGED <<sessionVars, lastPut>>

-----------------------------------------------------------------------------

\* The completion of what session s awaits.
Resume(s) ==
  \/ GetRequest(s)
  \/ GeoFound(s) \/ GeoEmpty(s) \/ GeoThrows(s)
  \/ WeatherFound(s) \/ WeatherEmpty(s)
  \/ SendAnswer(s) \/ SendAnswerError(s)
  \/ PauseOver(s)

\* The next step of a segment that is on a thread.
Run(s) == LookupCoor(s) \/ StoreCoor(s) \/ LookupWeather(s) \/ StoreWeather(s)

Next ==
  \/ \E s \in Session : NewSession(s) \/ Resume(s) \/ Run(s)
  \/ Clock

Spec == Init /\ [][Next]_vars

(***************************************************************************)
(* A thread keeps executing.  A coroutine whose operation has completed is *)
(* queued, and the io_context takes its queue in order, so a completion    *)
(* that again and again finds a free thread is not passed over for ever.   *)
(* That every operation completes is due to the 60 s expiry of the         *)
(* session's stream and, for the upstream calls, to the servers answering. *)
(***************************************************************************)
Fairness ==
  \A s \in Session : WF_vars(Run(s)) /\ SF_vars(Resume(s))

FairSpec == Spec /\ Fairness

-----------------------------------------------------------------------------
(* Properties. *)

\* No thread changes the R-tree while another is in it: rtree_ has no lock of
\* its own, so whatever keeps its users apart has to come from outside.
NoDataRace == ~Racing

(***************************************************************************)
(* The weather sent for an address was observed within Distance of a place *)
(* the geocoder knows that address by, whichever session fetched it, for   *)
(* whichever address, and however long ago the coordinate was stored.      *)
(***************************************************************************)
WeatherIsForTheAddress ==
  \A s \in Session :
    pc[s] = "SendAnswer" =>
      \E c \in GeoAnswers[adr[s]] : Metres[weather[s].coor][c] =< Distance

(***************************************************************************)
(* When a session is about to answer, the weather it has is in the         *)
(* database, filed under the place it was observed at and not before it    *)
(* was observed, and was filed at most Livetime ago.  (Its age since it    *)
(* was observed is longer by the time between WeatherFound and             *)
(* StoreWeather, which nothing limits.)                                    *)
(***************************************************************************)
ServesFreshWeather ==
  [][\A s \in Session :
       pc[s] # "SendAnswer" /\ pc'[s] = "SendAnswer" =>
         \E e \in rtree' : /\ e.weather = weather'[s]
                           /\ e.coor = e.weather.coor
                           /\ e.weather.at =< e.time
                           /\ now =< e.time + Livetime]_vars

(***************************************************************************)
(* If the weather service is asked although the database has a fresh       *)
(* record of a close place, another record hides that one: it is at least  *)
(* as near in degrees, but too old, or too far in metres.  The lookup      *)
(* misses nothing else, with any metrics, any expiry and any interleaving. *)
(***************************************************************************)
FreshWeatherMissedOnlyIfHidden ==
  [][\A s \in Session :
       pc[s] = "GetWeatherByCoor" /\ pc'[s] = "GetWeather" =>
         \A e \in rtree :
           Metres[e.coor][coor[s]] =< Distance /\ now =< e.time + Livetime =>
             \E f \in rtree :
               /\ Degrees[coor[s]][f.coor] =< Degrees[coor[s]][e.coor]
               /\ Metres[f.coor][coor[s]] > Distance \/ now > f.time + Livetime]_vars

(***************************************************************************)
(* However their database calls interleave, the sessions are to their      *)
(* clients what WeatherCache says: each is served in two steps, as if no   *)
(* other were there, and replied to once.  An upstream answer counts from  *)
(* the moment at which it is in the database.                              *)
(***************************************************************************)
PlaceKnown == [s \in Session |-> IF pc[s] = "PutCoordinate" THEN NoCoor ELSE coor[s]]
WeatherKept == [s \in Session |-> IF pc[s] = "PutWeather" THEN NoWeather ELSE weather[s]]

Cache ==
  INSTANCE WeatherCache WITH
    Unknown <- Absent,
    Places <- [a \in Address |-> {c \in GeoAnswers[a] : ~CoorEmpty(c)}],
    asked <- adr, place <- PlaceKnown, weather <- WeatherKept,
    known <- coorStorage,
    store <- {[weather |-> e.weather, time |-> e.time] : e \in rtree}

ImplementsCache == Cache!Spec

(***************************************************************************)
(* The geocoder is asked for an address only if its last answer for that   *)
(* address was stored at least Livetime ago, by any session, or never.     *)
(* (README.md:11, of the coordinate.)                                      *)
(***************************************************************************)
RepeatSkipsGeocoder ==
  [][\A s \in Session :
       pc[s] = "GetCoorByAdrress" /\ pc'[s] = "GetCoordinate" =>
         lastPut[adr[s]] = Never \/ lastPut[adr[s]] + Livetime =< now]_vars

\* README.md:31-35: a session that gets no coordinate answers with an error.
EverySessionReplies ==
  \A s \in Session : pc[s] = "done" => reply[s] # "none"

\* README.md:10: while a record of a place close to the coordinate is younger
\* than Livetime, the weather service is not asked.
CloseWeatherComesFromDb ==
  [][\A s \in Session :
       pc[s] = "GetWeatherByCoor" /\ pc'[s] = "GetWeather" =>
         \A e \in rtree : Metres[e.coor][coor[s]] =< Distance =>
                             e.time + Livetime =< now]_vars

\* README.md:11: while a record of the very place is younger than Livetime, the
\* weather service is not asked.
RepeatWeatherComesFromDb ==
  [][\A s \in Session :
       pc[s] = "GetWeatherByCoor" /\ pc'[s] = "GetWeather" =>
         \A e \in rtree : e.coor = coor[s] => e.time + Livetime =< now]_vars

\* A session whose connection was accepted comes to its end.
SessionEnds == \A s \in Session : pc[s] = "GetRequest" ~> pc[s] = "done"

=============================================================================
