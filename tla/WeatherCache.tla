---------------------------- MODULE WeatherCache ----------------------------
(***************************************************************************)
(* What the server is to its clients: a cache in front of a geocoder and a *)
(* weather service.  A request is located in one step, by what the cache   *)
(* knows or by an answer of the geocoder that it learns, gets its weather  *)
(* in another, from the store or from an answer of the weather service     *)
(* that goes into the store, and is replied to once.                       *)
(***************************************************************************)
EXTENDS Naturals

CONSTANTS
  Session, Address,
  NoAddress, NoCoor, NoWeather, Unknown,
  Places,    \* Places[a]: where the geocoder may place address a
  Metres, Distance, Livetime

VARIABLES
  asked,     \* the address each session has asked about, or NoAddress
  place,     \* where it was located, or NoCoor
  weather,   \* the weather it will be sent, [coor, at], or NoWeather
  reply,     \* what it was replied
  known,     \* known[a]: the last answer for address a, [coor, ts], or Unknown
  store,     \* every weather that was fetched, [weather, time]
  now

vars == <<asked, place, weather, reply, known, store, now>>

Init ==
  /\ asked = [s \in Session |-> NoAddress]
  /\ place = [s \in Session |-> NoCoor]
  /\ weather = [s \in Session |-> NoWeather]
  /\ reply = [s \in Session |-> "none"]
  /\ known = [a \in Address |-> Unknown]
  /\ store = {}
  /\ now = 0

Connect(s) ==
  /\ asked[s] = NoAddress
  /\ reply' = [reply EXCEPT ![s] = "none"]
  /\ UNCHANGED <<asked, place, weather, known, store, now>>

Ask(s) ==
  /\ asked[s] = NoAddress
  /\ reply[s] = "none"
  /\ \E a \in Address : asked' = [asked EXCEPT ![s] = a]
  /\ UNCHANGED <<place, weather, reply, known, store, now>>

Unlocated(s) == asked[s] # NoAddress /\ place[s] = NoCoor

Locate(s, c) ==
  /\ place' = [place EXCEPT ![s] = c]
  /\ UNCHANGED <<asked, weather, reply, store, now>>

\* The cache knows the address, and not for too long.
Recall(s) ==
  /\ Unlocated(s)
  /\ LET answer == known[asked[s]]
     IN  /\ answer # Unknown
         /\ now < answer.ts + Livetime
         /\ Locate(s, answer.coor)
  /\ UNCHANGED known

\* The geocoder answers, and the cache knows it from now on.
Learn(s) ==
  /\ Unlocated(s)
  /\ \E c \in Places[asked[s]] :
       /\ Locate(s, c)
       /\ known' = [known EXCEPT ![asked[s]] = [coor |-> c, ts |-> now]]

Uninformed(s) == place[s] # NoCoor /\ weather[s] = NoWeather

Inform(s, w) ==
  /\ weather' = [weather EXCEPT ![s] = w]
  /\ UNCHANGED <<asked, place, reply, known, now>>

\* Weather from the store: of a place that is near, and not too old.
Reuse(s) ==
  /\ Uninformed(s)
  /\ \E e \in store :
       /\ Metres[e.weather.coor][place[s]] =< Distance
       /\ now =< e.time + Livetime
       /\ Inform(s, e.weather)
  /\ UNCHANGED store

\* Weather of the very place, which goes into the store.
Fetch(s) ==
  /\ Uninformed(s)
  /\ \E t \in 0..now :
       LET w == [coor |-> place[s], at |-> t]
       IN  /\ Inform(s, w)
           /\ store' = store \cup {[weather |-> w, time |-> now]}

Reply(s, r) ==
  /\ reply[s] = "none"
  /\ reply' = [reply EXCEPT ![s] = r]
  /\ asked' = [asked EXCEPT ![s] = NoAddress]
  /\ place' = [place EXCEPT ![s] = NoCoor]
  /\ weather' = [weather EXCEPT ![s] = NoWeather]
  /\ UNCHANGED <<known, store, now>>

\* A reply may be lost on its way.
Answer(s) == weather[s] # NoWeather /\ \E r \in {"weather", "lost"} : Reply(s, r)

\* Only who has no weather is refused it.  A session may also end without a word.
Refuse(s) == weather[s] = NoWeather /\ \E r \in {"error", "lost", "none"} : Reply(s, r)

Tick == now' = now + 1 /\ UNCHANGED <<asked, place, weather, reply, known, store>>

Next ==
  \/ \E s \in Session :
       Connect(s) \/ Ask(s) \/ Recall(s) \/ Learn(s) \/ Reuse(s) \/ Fetch(s)
         \/ Answer(s) \/ Refuse(s)
  \/ Tick

Spec == Init /\ [][Next]_vars

=============================================================================
