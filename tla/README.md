# Verification of the weather server

TLA+ models of the weather server in this repository, model-checked with TLC,
with theorems checked by TLAPS. Paths are relative to the repository's root;
definitions and the lines they translate are listed in `PROJECT.json` under
`map`, hazards under `hazards`.

The server takes an HTTP request with an address, asks a geocoder for its
coordinates and a weather service for the weather there, keeps both answers in
memory, and replies with the weather as JSON. All of it is C++20 coroutines on
one Asio `io_context`, run by `common.threads` threads.

## The system

| Part | Source | State | Operations | Modules |
| --- | --- | --- | --- | --- |
| Request logic | `src/WeatherManager.cpp` `bl::BusinessLogic` | the coroutine's locals | one coroutine per connection | `WeatherService`, `WeatherCache` |
| In-memory database | `lib/InMemoryDb` | map address -> coordinate (locked), R-tree of weather records (not locked) | Get/PutCoordinate, Get/PutWeather | `InMemoryDb` |
| Connection pool | `lib/HttpClient` | `httpClients_` under `mut_`, atomic `fEnd_`, one TLS stream per connection | Init, SendRecvAsync, Connect, Reconnect, Disconnect, Stop | `ConnPool`, `ConnLease`, `System` |
| Listener | `lib/HttpServer/src/Server.cpp` | the acceptor | Run, DoListen, Stop | `Lifecycle`, `System` |
| Executor | `lib/executor` | threads, `idle_` | Run, Stop | `Lifecycle`, `System`; `ThreadFree` in `WeatherService` |
| Manager, main | `src/WeatherManager.cpp`, `src/winmain.cpp` | owns the rest | main, Run, Stop | `Lifecycle`, `System`; the command line in `Config` |
| HTTP session | `lib/HttpServer/src/HttpSession.cpp` | stream, deadline | GetRequest, SendAnswer, SendAnswerError | results in `WeatherService`, the search for the fields in `Query` |
| Geocoder client, weather client | `lib/YanCoor`, `lib/OpenWeather` | a pool each | Init, GetCoordinate, GetWeather, Stop | results in `WeatherService`, pools in `System`, the geocoder's query in `Query` |
| Value types, URL encoding | `lib/common` | none | Empty, url_encode, url_decode | `Query`; Empty in `WeatherService` too |
| Settings | `src/IniLoader.cpp`, `src/WConfig.h` | `cfg_` | LoadConfiguration | `Config` |
| Logger, Postgre stub | `lib/logger`, `lib/Postgre` | - | - | not modelled |

How they interact: the listener's coroutine hands each accepted socket to a
callback of the Manager, which spawns a BusinessLogic coroutine. That coroutine
calls the database directly, on the thread it is on, and awaits the two upstream
clients, each of which takes a connection from its pool, uses it and gives it
back or has it reconnected. The main thread waits at `getchar`, and then calls
Stop on the listener, on both clients and on the executor, where it joins the
threads.

What is hard here:

- *Threads.* A coroutine is suspended at every await and may go on on another
  thread. Between two awaits it runs together with the other threads. The map
  and the pools are locked; the R-tree is not.
- *Failure.* Every upstream operation can fail at every point; the pool mends
  its connections in coroutines of its own.
- *Stopping.* Stop runs on the main thread while everything else goes on: it
  drains the pools while requests give connections back and reconnections
  complete, and it cancels an accept that may not be pending.
- *Silence.* No upstream operation has a timeout. A server that neither answers nor
  closes keeps the connection and the session that use it for ever.
- *Text.* The fields of an address are searched for in the target as it came, handed
  on undecoded and encoded once more for the geocoder.
- *Age and distance.* Nothing is ever removed from the database. Whether an
  entry is used depends on the clock, on one look at the tree, and on two
  metrics that do not agree.

What makes each part correct:

- request logic and database: a reply is about the address asked for and fresh;
  cached answers are used when the README says so; every session ends, with a
  reply; no data race;
- pool: one user per connection, no connection lost, none revived after Stop;
  requests return, Stop returns, and a silent connection harms its user only;
- the program as a whole: sessions end whenever Stop comes, Stop returns, and when the
  Manager is destroyed nobody uses it any more;
- the address's way: each field is found whole in the target, and the geocoder reads
  what was typed (it does not, if anything in it has to be escaped).

## The modules

`InMemoryDb` is the database: `coorStorage`, `rtree` and the clock `now`.
Operations of the map are single steps because they hold its lock from end to
end. `GetWeatherByCoor(coor)` is the *set* of answers the lookup can give, because
among equally near records the tree may yield any first. Distances are two
constant functions, `Degrees` (the tree's order) and `Metres` (`CalcGPSDistance`),
about which nothing is assumed but that a place is at distance 0 of itself. A
weather answer is known by the place and the second it was fetched for; its text
plays no part. An address is a model value.

`WeatherService` extends it with one coroutine per session: `pc[s]` names the call
of `BusinessLogic` session `s` is in. A session in an awaited call needs no thread;
`Resume(s)` is the completion, which needs a free one. A session in a database call
occupies a thread and only `Run(s)` moves it, so that with one thread what lies
between two awaits is atomic, and with two it is not. `Racing` says that two
sessions are inside the R-tree, one of them inserting. In C++ this is undefined
behaviour; the model stops there, so whatever is said of runs with two threads is
said of behaviours up to their first race. The variables `reply` and `lastPut` are
history: what became of the reply, and when an address was last geocoded.

`WeatherCache` is what the server is to its clients: a cache in front of two services, in
which a request is located in one step (by what is known, or by an answer that is learned),
gets its weather in another, and is replied to once. `WeatherService` implements it, with
the upstream calls and the database calls of other sessions in between, under a mapping in
which an upstream answer counts from the moment at which it is in the database
(`PlaceKnown`, `WeatherKept`). What the mapping hides is what a client cannot see: who
fetched what when, and the key a record is filed under, which is the place of its weather.

`ConnPool` is one `ManagerConn` with its `HttpClient`s. `task[c]` is the coroutine
at work on connection `c` (Connect, Reconnect or Disconnect, and the await it is
at), `pc[r]` and `lease[r]` are a request and the connection it holds, `left[r]` its
remaining polls. A locked block is one step. `fEnd_` is also read outside the lock;
where something can happen between that reading and its use (`CheckEnd`, then
`TakeClient`) they are two steps, and where a coroutine awaits next the reading is
part of the step that completes the await before it. `Stop` is one step per turn of
its loop, with the other threads in between. `NumConn` keeps the low byte of the
setting, as `ManagerConn::Config::numConn`, a `uint8_t`, does.

`Deaf` is the set of connections on which the server may fall silent: they have all the
steps of the others, but nothing obliges them to take one.

`ConnLease` is what the pool promises: each connection has at most one holder, is
passed on only through the pool, and after closing only a holder can give one back.
`ConnPool` implements it under the mapping `OwnerOf`.

`System` is the running program: the listener, the sessions, `main` and the threads over
*two* instances of `ConnPool`, `Geo` and `Wea`. A session that calls GetCoordinate or
GetWeather asks the pool (`Ask`) as the request named after it, and goes on when that
request has returned (`Answered`); main's Stop on a client is the turns of that pool's
loop. Every step of a coroutine needs a thread that has not left `io_context::run`, and
threads leave when `idle_` is gone and no coroutine waits for anything (`OutOfWork`). Of a
session's other waits (client, timers) only the order is kept (`After`), and the pause
after the answer is part of the wait for the client.

`Lifecycle` is the abstraction of `System` that matters for the program's end: `main`'s
place in `Manager::Stop`, the listener, whom each session waits for, whether each pool is
open, stopped or at rest, `idle_` and the threads. `PoolRests` says that a stopped pool is
at rest some time later and stays so. `System` implements it under the mapping `PoolView`
(`AtRest` of `ConnPool`: Stop has returned, no coroutine is at work on a connection, and no
request is beyond the waits that end without touching one). The mapping is where it matters
that a pool that is stopped cannot be disturbed by a session that asks it afterwards.

`Query` is the way of an address. A client types three texts and puts them into a target as
parameters (`AddField`), in any order, percent-escaped in one of three styles, possibly one
field twice, and possibly with parameters of its own whose names end like a field's
(`AddOther`); `shadowed` keeps the fields that one of these precedes. `GetRequest` takes the
fields out as `GetValue` does, and `GetUrl` makes the geocoder's query with `url_encode`. A
character of a target is a pair of a character and how often it is percent-escaped, which is
all that searching and encoding tell apart. A run of characters that nothing escapes is one
letter, so a key is one, whether it is written as a key or typed in a text. `url_decode` is
in the repository but never called; here it is the geocoder's reading of the query. With it
the model shows, as an aside, that the plus signs between the fields are encoded too, so
that the geocoder reads plus signs where YanCoor.cpp:20 has the separators; `Arrives`
accepts either.

`Config` is the way of a parameter from the ini file to the component that uses it:
`Get` reads it as `ptree::get` with a default does (a negative number becomes its
complement, one that does not fit the default), `LoadConfiguration` limits the pause, once
the command line has been parsed (`ParseCommandLine`: help, the version or an error end
main), and `NewManager` hands the settings on, connection counts in a byte.

`MCWeatherService`, `MCConnPool`, `MCSystem`, `MCQuery` and `MCConfig` give the constants
values. `WeatherServiceProofs`, `ConnPoolProofs`, `ConnLeaseProofs` (the pool's refinement),
`LifecycleProofs`, `SystemProofs`, `SystemPoolsProofs` (what holds of one pool, carried to the
two of the program), `QueryProofs` and `ConfigProofs` hold the proofs. A
definition whose comment begins with "Bug" is a mutated form of the definition that
follows it. It is not used; put in that definition's place it makes the property
named with it in `PROJECT.json` (`mutants`) fail.

## The runs

| Run | Constants | Checks |
| --- | --- | --- |
| `service` | 2 sessions, 2 threads, 2 addresses, 4 places (one with a component 0), Livetime 1, clock to 2 | TypeOK, WeatherIsForTheAddress, ServesFreshWeather, RepeatSkipsGeocoder, FreshWeatherMissedOnlyIfHidden, ImplementsCache |
| `service_one_thread` | 2 sessions, 1 thread, fairness, Livetime 0, clock to 1 | NoDataRace, SessionEnds |
| `service_race` | 2 sessions, 2 threads | NoDataRace is violated |
| `service_repeat` | 1 session, 1 place, Livetime 2, clock to 4 | RepeatWeatherComesFromDb is violated |
| `service_close` | 1 session, 3 addresses, nothing expires | CloseWeatherComesFromDb is violated |
| `service_silent` | 1 session | EverySessionReplies is violated |
| `pool` | 2 requests, 2 connections (258 in a byte), one of them deaf, 2 polls, fairness | TypeOK, OneUser, NoneLost, NoRevivalAfterStop, ImplementsLease, RestForGood, EveryRequestReturns, BrokenConnectionReturns, StopReturns, QuietAfterStop |
| `system` | 1 session at a time, 2 threads, 2 pools of 1 connection, 1 poll, fairness | TypeOK, NothingLeftBehind, ImplementsLifecycle, SessionsEnd, StopReturnsUnlessMissed |
| `query` | up to 4 parameters; the empty text, a word, a key, and a text with a separator, a Cyrillic letter and a space | TypeOK, FieldsFound, QueryReadsBack, PlainArrives |
| `query_encoding` | up to 3 parameters, the same texts | FieldsArrive is violated |
| `config` | files with up to 2 entries | TypeOK, ValuesArrive |
| `config_livetime` | files with 1 entry | LivetimeArrives is violated |

Bounds. `MaxTime` ends the clock: with Livetime 1 and the clock at 0, 1 and 2, an entry can
be new, exactly as old as Livetime, and older, and be replaced at each age. `MaxEntries`
ends fetching: two records are enough for one to hide the other or to be the wrong one of
two. Two sessions are enough for each pair of database calls to interleave; an ended session
is used again for a new connection, so there is no bound on how many come one after another.
In `pool`, two requests for two connections, one of which is deaf, is the least in which a
request waits while both are used, and in which one waits that must not be kept by the
other's silence; `Polls` = 2 has a first, a last and an intermediate look at the pool, where
the code makes 300. In `system` one session at a time, on one connection per pool, meets
every state of both pools, in both orders of Stop and of the session's waits, and 2 threads
can leave one after the other; that sessions do not disturb each other in a pool is shown in
`pool`, and proved. In `query`, four parameters are the three fields and one more that is a
repetition, or has a name that ends like a field's; three are enough for the violation.
Symmetry between sessions is used in runs without liveness only. Two entries show whether
one parameter disturbs another; the values are the limits of the types and their neighbours,
with 10^6 for 2^32, which exceeds TLC's integers.

Deadlock is not checked where the program really may stop: in `service` and
`service_race` a race ends a behaviour, in `system`, `config` and `config_livetime` the
program or its start ends, and in `query` and `query_encoding` the address arrives.

Places lie on a small grid at 60 degrees of latitude, where a degree of latitude is
twice as many metres as one of longitude.

### What the runs found

- `service_race`: with two threads, `InMemoryDb.cpp:146` inserts into the R-tree
  while another thread inserts or reads it (line 124). README.md:71 offers the
  number of threads as a setting.
- `service_repeat`: a place asked for again after its record has expired has two
  records from then on. They are equally near, the lookup takes the one the tree
  yields first, and if it is the old one (line 131) asks the weather service,
  whatever README.md:11 says of repeated addresses. It then adds a third.
- `service_close`: README.md:10 says the weather of close coordinates comes from the
  database. The lookup takes the record nearest in *degrees* and gives up if that is
  farther than the radius in *metres*, although another record may be within it.
- `service_silent`: `read_json` (`YanCoor.cpp:49`) stands before the `try`. A body
  that is not JSON ends the coroutine by an exception that `detached` drops; the
  connection is closed without the reply of README.md:31-35.
- `config_livetime`: `IniLoader.cpp:25` reads `live_time`; README.md:74 and the sample
  `cfg/config.ini:5` say `livetime`. The documented setting has no effect.
- `query_encoding`: README.md:46-48 calls the fields strings and its example sends them with
  `--data-urlencode`. `HttpSession.cpp:37` takes a field as it stands in the target,
  `url_decode` is never called, and `url_encode` escapes its percent signs again: a space
  reaches the geocoder as the three characters `%20`, a Cyrillic letter as two escapes.
  Sent as bytes, it becomes `%FF%FF` (`Common.cpp:86` prints a negative `char`). Such
  addresses are also filed in the map by their escapes, so the same address in two styles
  is two addresses. `PlainArrives` shows that README's own example works.

The model also shows, without runs of their own, two things. A parameter `mycity=` is taken
for the city if it comes before `city=`, because `GetValue` searches for the text;
`FieldsFound` and `PlainArrives` except just the fields that are `shadowed` like this. And
the listener can outlive Stop: `Server::Stop` only cancels, so a cancel that comes between
two accepts is lost, and the join waits for ever. `StopReturnsUnlessMissed` says that this
is the only way.

### Fairness

`WeatherService`: a running segment goes on (weak fairness of `Run`). A completed
operation waits in the io_context's queue, which is served in order, so one that
finds a thread free again and again is not passed over for ever (strong fairness of
`Resume`). That each operation completes rests on the 60 s expiry of the session's
stream and, upstream, on servers that answer or fail.

`ConnPool`: weak fairness of every coroutine's step, except of what waits for a server on a
connection of `Deaf`, since the code sets no timeout. So `EveryRequestReturns` excuses only
the request that has taken a deaf connection, and `StopReturns` holds without excuse: the
loop of `ManagerConn::Stop` does not wait for answers. `BrokenConnectionReturns` needs more:
that a server tried for ever is reached some time (strong fairness of `Resolved` and
`Connected`). It also takes for granted that a TLS stream that was shut down can be
connected again, which `Reconnect` relies on and Asio does not promise. Stop, once
begun, goes on; nothing makes it begin.

`System`: the threads run what is ready, timers expire, and the client and the servers
answer or fail (no connection is deaf: with one, its session would never end, nor the
join). Stop goes on once begun. Nothing is assumed of a pending accept, and nothing of a
connection that is tried again and again: `SessionsEnd` holds though none is ever made.

## The proofs

All theorems hold for every value of the constants that meets the named ASSUMEs of
the modules (which TLC evaluates in the runs).

`WeatherServiceProofs`. The inductive invariant `IInv` adds to the types: what the locals of
a session are worth at each `pc` (an address is there from the request on, a coordinate is
one the geocoder may give for it); what is in the map (a coordinate the geocoder gave for
that address, stamped with `lastPut`) and in the tree (records filed under the place they
were observed at, no earlier than observed); and that no time stamp lies in the future.
Without the part about the database, `WeatherIsForTheAddress` is not inductive: the weather
a session sends may have been fetched by another session, for another address. From it
follow `RightWeather`, `NoRepeatedGeocoding`, `FreshWeather` (any number of threads) and
`NoRaceOnOneThread` (under Threads = 1). `MissedOnlyIfHidden` bounds the findings
`service_repeat` and `service_close`: whatever the metrics, the expiry and the number of
threads, a fresh record of a close place is missed only if another one, at least as near in
degrees, is too old (the first finding) or too far in metres (the second). `Implementation`
is the refinement of `WeatherCache`, for any number of sessions and threads. It needs a
second invariant, `Awaits`: what a session does *not* hold at each `pc` (no address before
it has asked, no coordinate before one was found, no weather but before its reply), and that
it has not been replied to. With it the three database calls that find or store something
are steps of the cache, and every completion of an upstream call is a stutter.

`ConnPoolProofs`. The inductive invariant says who owns each connection: a pooled
one is in the pool once, held by nobody and idle; a leased one is held by one
request that is writing or reading; a request holds a connection exactly then; and
before Stop no connection is on its way out. From it follow `MutualExclusion`,
`NoConnectionLost` and `NoRevival`. `AtRestForGood` adds that `fEnd_` is set once Stop has
begun (`EndIsSet`): then a request that asks a pool at rest ends before it takes anything.
`ConnLeaseProofs` has `Implementation`, the refinement of `ConnLease`, which maps each action
of the pool to a step of the lease or to a stutter.

`LifecycleProofs`. A thread that has returned found the io_context out of work, and a
context out of work stays so, because `idle_` goes last. As main ends after every
thread has returned, nothing is left behind (`CleanEnd`).

`SystemProofs`. The refinement of `Lifecycle` needs four facts that relate the parts: main
is past a pool's Stop only when its loop is over; `fEnd_` is set by then; a session is a
request in a pool only while it waits for that upstream; and the types. The step that is not
obvious is that a pool at rest stays at rest: a session that asks it finds `fEnd_` set
(`GeoRequestMoves`). `CleanEnd` is proved of the composed program itself, for any numbers of
sessions, threads and connections, along the argument of `LifecycleProofs` (`ThreadsDone`,
`OutOfWorkStays`). `GeoIsAPool` and `WeatherIsAPool` say that each pool, as part of the
program, takes steps of `ConnPool` only. `SystemPoolsProofs` uses it: the theorems of
`ConnPoolProofs` and `ConnLeaseProofs`, instantiated for each pool's variables, hold in the
program without being proved again (`PoolsSound`, `PoolsStayStopped`,
`PoolsImplementLease`), for which the constants of the program have to meet the pool's
assumption (`GeoAssumption`, `WeaAssumption`). From the pools' types, those of `Lifecycle`'s
variables and the invariant of `SystemProofs` follows `TypeCorrect`, the type invariant of
the whole program.

`QueryProofs`. The invariant `Parsed` says of the target, while the client writes it, where
the text of each field is that is not shadowed (`Located`): behind the first `key=`, up to the
next `&`. A
further parameter leaves it there, because it begins with a separator and no text has
one unescaped; and it adds no `key=` but its own (`ParamProps`). `Found` follows for all
sets of texts and any number of parameters. Of a shadowed field too the search yields a text
(`Searched`), which the type invariant needs. `ReadBack` and `Plainly` are about `url_encode`
and `url_decode`, functions of single characters, and need no induction.

`ConfigProofs`. The invariant says that what is loaded is `Loaded`, a function of the file, and
what is in use is `Used`, a function of that. `TypeCorrect` holds for any widths that have room
for the defaults, and any numbers in the file: a number that is read is reduced into its type
(`Unsigned`), and one that cannot be read becomes the default. `MeaningfulValuesArrive` follows
because reduction keeps a number that the type has.

Only model-checked: everything under fairness (`SessionEnds`, `EveryRequestReturns`,
`BrokenConnectionReturns`, `StopReturns`, `QuietAfterStop`, `SessionsEnd`,
`StopReturnsUnlessMissed`), which TLAPS cannot prove, and the violations. Every invariant,
action property and refinement that a passing run checks is also proved.

The assumptions. Numbers of sessions, connections, addresses and entries are arbitrary;
`Threads` is a natural number below 2^16, the width of the setting (`LifecycleAssumption`,
`SystemAssumption`); the names that the models use for states (`"free"`, `NoClient` and so
on) are not names of sessions or connections; distances are natural numbers and a place is
at distance 0 of itself.

## Not modelled

- The JSON of the upstream answers. Their outcomes are modelled; what `ParseResponse` makes
  of an answer outside the geocoder's format (YanCoor.cpp:57, 63) is undefined.
- Targets with `=` or `&` unescaped inside a text: they have no reading to compare with.
  The letter `~`, which `url_encode` escapes and most clients do not.
- Arithmetic on coordinates: floats and the haversine formula are the constant
  `Metres`. Widths do not matter there; time stamps are 64 bits wide.
- Logger: output that nothing reads back. The Postgre stub: every operation returns an
  empty value. `ProcessConn` and `HttpStart` (HttpClient.cpp:426-465) are never called.
- A null storage (`type_storage` unknown): undefined at the first request.
- Data races inside Asio and Beast (`acceptor_.cancel` from the main thread, the expiry of
  a session's stream on another thread). A wall clock that is set back.
- What no property says, though the models have the behaviour, because nothing in the
  repository says what is right: that a reply computed after the session's 60 s deadline is
  lost (`SendAnswer`); that a connection given back after Stop is never shut down
  (`NoRevivalAfterStop` excepts it); that an exception ends listening for good (`ListenEnds`);
  what an address with a coordinate 0, a `connection` above 255 or a `request_pause` outside
  0..60 should get; and whether another parameter named alike may stand for a field.
- The random pause of README.md:8: the code waits `request_pause` seconds after the
  reply, and no property depends on how long.

## The plan

Done, in this order: `InMemoryDb`, `WeatherService` and its proofs; `ConnLease`, `ConnPool`
and its proofs; `Lifecycle` and its proofs; `Config`; silent connections in `ConnPool`;
`System`, the composition, and its proofs; `Query` and its proofs; the proofs of `Config`
and of the pools inside the program; `WeatherCache` and the proof that `WeatherService`
implements it.

Left: `WeatherService` over `System`'s pools in place of their results. The products of their
states are out of TLC's reach as they stand. `ConnLease` in place of each pool would do, as
`PoolsImplementLease` shows that it promises what the pools keep.
