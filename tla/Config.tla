------------------------------- MODULE Config -------------------------------
(***************************************************************************)
(* From the ini file to the components: IniLoader reads each parameter     *)
(* under its key, with a default and a width, and main constructs the      *)
(* Manager, which hands the settings on, some of them into narrower types. *)
(*                                                                         *)
(* A parameter of the file is a sequence of at most one value.  A number   *)
(* that cannot be read as one has the effect of no entry (get with a       *)
(* default swallows the failed conversion), so file has no such entries.   *)
(***************************************************************************)
EXTENDS Integers, Sequences

CONSTANTS
  U8, U16, U32,  \* how many values the unsigned types have
  Numbers,       \* numbers the file may contain
  Texts,         \* other values it may contain
  MaxEntries     \* bound: entries written

ASSUME ConfigAssumption ==
  /\ U8 \in Nat /\ U16 \in Nat /\ U32 \in Nat
  /\ 60 < U8 /\ U8 < U16 /\ 5000 < U16 /\ U16 < U32
  /\ Numbers \subseteq Int
  /\ Texts \subseteq STRING
  /\ MaxEntries \in Nat

\* The parameters that are numbers, and the types they are read as.
Numeric ==
  {"server.port", "common.threads", "common.request_pause", "common.live_time",
   "common.radius", "yan_geo.connection", "weather.connection"}

Width ==
  [k \in Numeric |->
     IF k \in {"server.port", "common.threads", "common.request_pause"} THEN U16 ELSE U32]

Key ==
  Numeric \cup {"server.ip", "common.type_storage", "yan_geo.key", "yan_geo.url",
                "yan_geo.port", "weather.key", "weather.url", "weather.port"}

DefaultNumber(k) ==
  CASE k = "server.port" -> 5000
    [] k = "common.live_time" -> 60
    [] k = "common.radius" -> 100
    [] OTHER -> 1

DefaultText(k) ==
  CASE k = "server.ip" -> "0.0.0.0"
    [] k = "common.type_storage" -> "in_memory"
    [] k \in {"yan_geo.port", "weather.port"} -> "433"
    [] OTHER -> ""

Default == [k \in Key |-> IF k \in Numeric THEN DefaultNumber(k) ELSE DefaultText(k)]

\* README.md:70-88.
Documented == (Key \ {"common.live_time"}) \cup {"common.livetime"}

VARIABLES
  file,      \* what the ini file says of each parameter
  written,   \* how many entries it has
  settings,  \* IniLoader::cfg_
  inUse,     \* what the components made of them
  main       \* how far main is

vars == <<file, written, settings, inUse, main>>

Init ==
  /\ file = [k \in Key \cup Documented |-> <<>>]
  /\ written = 0
  /\ settings = <<>>
  /\ inUse = <<>>
  /\ main = "start"

-----------------------------------------------------------------------------

\* The command line names the file; or it asks for help or the version, or is not one.
ParseCommandLine ==
  /\ main = "start"
  /\ main' \in {"parsed", "ended"}
  /\ UNCHANGED <<file, written, settings, inUse>>

IsNumeric(k) == k \in Numeric \cup {"common.livetime"}

\* Someone writes the file, before the program starts.
Write(k) ==
  /\ main = "start"
  /\ written < MaxEntries
  /\ file[k] = <<>>
  /\ \E v \in (IF IsNumeric(k) THEN Numbers ELSE Texts) : file' = [file EXCEPT ![k] = <<v>>]
  /\ written' = written + 1
  /\ UNCHANGED <<settings, inUse, main>>

\* Bug: the weather server's port is read from the geocoder's section.
EntryMixedUp(k) == file[IF k = "weather.port" THEN "yan_geo.port" ELSE k]

Entry(k) == file[k]

\* A stream reads a negative number into an unsigned type as its complement, and
\* fails on a number whose absolute value the type does not have.
Get(k) ==
  IF Entry(k) = <<>> THEN Default[k]
  ELSE LET v == Entry(k)[1]
       IN  IF k \notin Numeric THEN v
           ELSE IF v \in (1 - Width[k])..(Width[k] - 1) THEN v % Width[k]
           ELSE Default[k]

\* Bug: no upper limit of the pause.
LoadUnlimited ==
  /\ main = "parsed"
  /\ settings' = [k \in Key |-> Get(k)]
  /\ main' = "loaded"
  /\ UNCHANGED <<file, written, inUse>>

\* The pause is at most a minute.
LoadConfiguration ==
  /\ main = "parsed"
  /\ settings' = [k \in Key |->
       IF k = "common.request_pause" /\ Get(k) > 60 THEN 60 ELSE Get(k)]
  /\ main' = "loaded"
  /\ UNCHANGED <<file, written, inUse>>

\* There is no file, or it is not an ini file.
LoadFails ==
  /\ main = "parsed"
  /\ main' = "ended"
  /\ UNCHANGED <<file, written, settings, inUse>>

Connections == {"yan_geo.connection", "weather.connection"}

\* The constructors: numConn is a uint8_t, and a storage that is not known is none.
NewManager ==
  /\ main = "loaded"
  /\ inUse' = [k \in Key |->
       CASE k \in Connections -> settings[k] % U8
         [] k = "common.type_storage" /\ settings[k] \notin {"in_memory", "postgre"} -> "none"
         [] OTHER -> settings[k]]
  /\ main' = "running"
  /\ UNCHANGED <<file, written, settings>>

Next ==
  \/ \E k \in Key \cup Documented : Write(k)
  \/ ParseCommandLine \/ LoadConfiguration \/ LoadFails \/ NewManager

Spec == Init /\ [][Next]_vars

-----------------------------------------------------------------------------
(* Properties. *)

TypeOK ==
  /\ DOMAIN file = Key \cup Documented
  /\ written \in 0..MaxEntries
  /\ main \in {"start", "parsed", "loaded", "running", "ended"}
  /\ main \in {"loaded", "running"} =>
       /\ \A k \in Numeric : settings[k] \in 0..(Width[k] - 1)
       /\ settings["common.request_pause"] =< 60

\* What the parameter can mean to the component that uses it.
Meaningful(k) ==
  CASE k \in Connections -> 0..(U8 - 1)
    [] k = "common.request_pause" -> 0..60
    [] k = "common.type_storage" -> {"in_memory", "postgre"}
    [] k \in Numeric \ (Connections \cup {"common.request_pause"}) -> 0..(Width[k] - 1)
    [] OTHER -> Texts

(***************************************************************************)
(* Whatever else the file says, a documented parameter that is given a     *)
(* meaningful value has that value where it is used, after the stream, the *)
(* limit of the pause and the narrower type.  All but one.                 *)
(***************************************************************************)
ValuesArrive ==
  main = "running" =>
    \A k \in Key \cap Documented :
      file[k] # <<>> /\ file[k][1] \in Meaningful(k) => inUse[k] = file[k][1]

\* README.md:74, cfg/config.ini:5: the parameter livetime is how long, in seconds,
\* the data in the database live.
LivetimeArrives ==
  main = "running" /\ file["common.livetime"] # <<>>
    /\ file["common.livetime"][1] \in 0..(U32 - 1)
  => inUse["common.live_time"] = file["common.livetime"][1]

=============================================================================
