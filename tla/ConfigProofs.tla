---------------------------- MODULE ConfigProofs ----------------------------
(***************************************************************************)
(* Theorems about Config, for all widths of the unsigned types that are    *)
(* wide enough for the defaults (in particular 2^8, 2^16 and 2^32), any    *)
(* numbers and texts in the file and any number of entries.                *)
(***************************************************************************)
EXTENDS Config, TLAPS

-----------------------------------------------------------------------------
(* Unsigned numbers. *)

\* Conversion to an unsigned type of w values: the result is one of them, and
\* a number that is one already is kept.
LEMMA Unsigned ==
  ASSUME NEW w \in Nat, w > 0, NEW v \in Int
  PROVE  /\ v % w \in 0..(w - 1)
         /\ v \in 0..(w - 1) => v % w = v
<1>1. v % w \in 0..(w - 1)
  BY SMT
<1>2. ASSUME v \in 0..(w - 1) PROVE v % w = v
  BY <1>2, SMT
<1> QED
  BY <1>1, <1>2

\* Every numeric type has more values than the numbers the code itself gives.
LEMMA Widths == \A k \in Numeric : Width[k] \in Nat /\ 5000 < Width[k]
BY ConfigAssumption DEF Width

LEMMA NumericKeys == Numeric \subseteq Key /\ Connections \subseteq Numeric
BY DEF Key, Numeric, Connections

-----------------------------------------------------------------------------
(* Reading a parameter. *)

\* What the file can say of a parameter.
Writable(k) == IF IsNumeric(k) THEN Numbers ELSE Texts

FileType ==
  /\ DOMAIN file = Key \cup Documented
  /\ \A k \in Key \cup Documented : file[k] # <<>> => \E v \in Writable(k) : file[k] = <<v>>

LEMMA GetMeans ==
  ASSUME NEW k, NEW v, file[k] = <<v>>
  PROVE  /\ k \notin Numeric => Get(k) = v
         /\ k \in Numeric /\ v \in (1 - Width[k])..(Width[k] - 1) => Get(k) = v % Width[k]
         /\ Get(k) \in {v, v % Width[k], Default[k]}
         /\ k \in Numeric => Get(k) \in {v % Width[k], Default[k]}
<1>1. Entry(k) # <<>> /\ Entry(k)[1] = v
  BY DEF Entry
<1> QED
  BY <1>1 DEF Get

\* A numeric parameter is read as a value of its type, whatever the file says.
LEMMA GetNumber ==
  ASSUME FileType, NEW k \in Numeric
  PROVE  Get(k) \in 0..(Width[k] - 1)
<1>1. Width[k] \in Nat /\ 5000 < Width[k]
  BY Widths
<1>2. k \in Key /\ Default[k] \in Int /\ 0 =< Default[k] /\ Default[k] =< 5000
  <2>1. k \in Key
    BY NumericKeys
  <2>2. DefaultNumber(k) \in Int /\ 0 =< DefaultNumber(k) /\ DefaultNumber(k) =< 5000
    BY DEF DefaultNumber
  <2> QED
    BY <2>1, <2>2 DEF Default
<1>3. Default[k] \in 0..(Width[k] - 1)
  BY <1>1, <1>2
<1>4. CASE file[k] = <<>>
  <2>1. Get(k) = Default[k]
    BY <1>4 DEF Get, Entry
  <2> QED
    BY <1>3, <2>1
<1>5. CASE file[k] # <<>>
  <2>1. PICK v \in Numbers : file[k] = <<v>>
    BY <1>2, <1>5 DEF FileType, Writable, IsNumeric
  <2>2. v \in Int /\ Width[k] > 0
    BY <1>1, ConfigAssumption
  <2>3. v % Width[k] \in 0..(Width[k] - 1)
    BY <1>1, <2>2, Unsigned
  <2> QED
    BY <1>3, <2>1, <2>3, GetMeans
<1> QED
  BY <1>4, <1>5

\* A number of the parameter's type is read as it is written, and so is any text.
LEMMA GetWritten ==
  ASSUME NEW k \in Key, NEW v, file[k] = <<v>>, k \in Numeric => v \in 0..(Width[k] - 1)
  PROVE  Get(k) = v
<1>1. CASE k \notin Numeric
  BY <1>1, GetMeans
<1>2. CASE k \in Numeric
  <2>1. Width[k] \in Nat /\ Width[k] > 0
    BY <1>2, Widths
  <2>2. v \in Int /\ v \in (1 - Width[k])..(Width[k] - 1)
    BY <1>2, <2>1
  <2>3. v % Width[k] = v
    BY <1>2, <2>1, <2>2, Unsigned
  <2> QED
    BY <1>2, <2>2, <2>3, GetMeans
<1> QED
  BY <1>1, <1>2

-----------------------------------------------------------------------------
(* The inductive invariant.  The file no longer changes when it is read, so what   *)
(* was read of it can be compared with it.                                         *)

Loaded ==
  [k \in Key |-> IF k = "common.request_pause" /\ Get(k) > 60 THEN 60 ELSE Get(k)]

Used ==
  [k \in Key |->
     CASE k \in Connections -> Loaded[k] % U8
       [] k = "common.type_storage" /\ Loaded[k] \notin {"in_memory", "postgre"} -> "none"
       [] OTHER -> Loaded[k]]

IInv ==
  /\ FileType
  /\ written \in 0..MaxEntries
  /\ main \in {"start", "parsed", "loaded", "running", "ended"}
  /\ main \in {"loaded", "running"} => settings = Loaded
  /\ main = "running" => inUse = Used

LEMMA InitIInv == Init => IInv
BY ConfigAssumption DEF Init, IInv, FileType

LEMMA SameFile == ASSUME UNCHANGED file PROVE Loaded' = Loaded /\ Used' = Used
BY DEF Loaded, Used, Get, Entry

LEMMA WriteIInv == ASSUME IInv, NEW k \in Key \cup Documented, Write(k) PROVE IInv'
<1>1. PICK v \in Writable(k) : file' = [file EXCEPT ![k] = <<v>>]
  BY DEF Write, Writable
<1>2. FileType'
  BY <1>1 DEF IInv, FileType
<1>3. main' = "start" /\ written' \in 0..MaxEntries
  BY ConfigAssumption DEF Write, IInv
<1> QED
  BY <1>2, <1>3 DEF IInv

LEMMA NextIInv == IInv /\ [Next]_vars => IInv'
<1> SUFFICES ASSUME IInv, [Next]_vars PROVE IInv'
  OBVIOUS
<1>1. ASSUME UNCHANGED <<file, written>> PROVE FileType' /\ written' \in 0..MaxEntries
  BY <1>1 DEF IInv, FileType
<1>2. CASE ParseCommandLine \/ LoadFails \/ UNCHANGED vars
  BY <1>1, <1>2, SameFile DEF ParseCommandLine, LoadFails, vars, IInv
<1>3. CASE LoadConfiguration
  <2>1. settings' = Loaded /\ main' = "loaded" /\ UNCHANGED <<file, written>>
    BY <1>3 DEF LoadConfiguration, Loaded
  <2> QED
    BY <1>1, <2>1, SameFile DEF IInv
<1>4. CASE NewManager
  <2>1. /\ main' = "running" /\ settings = Loaded
        /\ UNCHANGED <<file, written, settings>>
    BY <1>4 DEF NewManager, IInv
  <2>2. inUse' = Used
    BY <1>4, <2>1 DEF NewManager, Used
  <2> QED
    BY <1>1, <2>1, <2>2, SameFile DEF IInv
<1> QED
  BY <1>2, <1>3, <1>4, WriteIInv DEF Next

\* What is loaded is what the file says, and what is in use is what was loaded: the
\* inductive invariant.
THEOREM Invariance == Spec => []IInv
BY InitIInv, NextIInv, PTL DEF Spec

-----------------------------------------------------------------------------
(* What follows from it. *)

\* Whatever numbers the file contains, negative or too large for their types, what
\* IniLoader has loaded fits them, and the pause is at most a minute
\* (IniLoader.cpp:13-43).
THEOREM TypeCorrect == Spec => []TypeOK
<1>1. IInv => TypeOK
  <2> SUFFICES ASSUME IInv, main \in {"loaded", "running"}
               PROVE  /\ \A k \in Numeric : settings[k] \in 0..(Width[k] - 1)
                      /\ settings["common.request_pause"] =< 60
    BY DEF IInv, FileType, TypeOK
  <2>1. ASSUME NEW k \in Numeric
        PROVE  /\ settings[k] \in 0..(Width[k] - 1)
               /\ k = "common.request_pause" => settings[k] =< 60
    BY Widths, NumericKeys, GetNumber DEF IInv, Loaded
  <2> QED
    BY <2>1 DEF Numeric
<1> QED
  BY <1>1, Invariance, PTL

LEMMA MeaningfulMeans ==
  \A k \in Key : /\ k \in Connections => Meaningful(k) = 0..(U8 - 1)
                 /\ k = "common.request_pause" => Meaningful(k) = 0..60
                 /\ k = "common.type_storage" => Meaningful(k) = {"in_memory", "postgre"}
                 /\ k \in Numeric \ (Connections \cup {"common.request_pause"})
                      => Meaningful(k) = 0..(Width[k] - 1)
BY DEF Meaningful, Connections, Numeric

LEMMA MeaningfulPause ==
  \A v \in Meaningful("common.request_pause") : v \in Int /\ 0 =< v /\ v =< 60
<1>1. Meaningful("common.request_pause") = 0..60
  BY MeaningfulMeans, NumericKeys DEF Numeric
<1>2. \A v \in 0..60 : v \in Int /\ 0 =< v /\ v =< 60
  OBVIOUS
<1> QED
  BY <1>1, <1>2

\* A meaningful value of a documented parameter passes the stream, the limit of the
\* pause and numConn's narrower type unchanged, whatever the rest of the file says
\* (IniLoader.cpp:13-43, WeatherManager.cpp:83-112).
THEOREM MeaningfulValuesArrive == Spec => []ValuesArrive
<1>1. IInv => ValuesArrive
  <2> SUFFICES ASSUME IInv, main = "running", NEW k \in Key, file[k] # <<>>,
                      file[k][1] \in Meaningful(k)
               PROVE  inUse[k] = file[k][1]
    BY DEF ValuesArrive
  <2>1. U8 \in Nat /\ 60 < U8 /\ U8 < U16 /\ U16 < U32 /\ U16 \in Nat /\ U32 \in Nat
    BY ConfigAssumption
  <2>2. inUse = Used
    BY DEF IInv
  <2>3. PICK v : file[k] = <<v>>
    BY DEF IInv, FileType
  <2>4. v \in Meaningful(k)
    BY <2>3
  <2>5. k \in Connections => v \in 0..(U8 - 1)
    BY <2>4, MeaningfulMeans
  <2>6. k = "common.request_pause" => v \in Int /\ 0 =< v /\ v =< 60
    BY <2>4, MeaningfulPause
  <2>7. k = "common.type_storage" => v \in {"in_memory", "postgre"}
    BY <2>4, MeaningfulMeans
  <2>8. ASSUME k \in Numeric PROVE v \in 0..(Width[k] - 1)
    <3>1. Width[k] \in Nat /\ U8 < Width[k]
      BY <2>1, <2>8 DEF Width
    <3>2. CASE k \in Connections
      BY <2>1, <2>5, <3>1, <3>2
    <3>3. CASE k = "common.request_pause"
      BY <2>1, <2>6, <3>1, <3>3
    <3>4. CASE k \in Numeric \ (Connections \cup {"common.request_pause"})
      BY <2>4, <3>4, MeaningfulMeans
    <3> QED
      BY <2>8, <3>2, <3>3, <3>4
  <2>9. Get(k) = v
    BY <2>3, <2>8, GetWritten
  <2>10. Loaded[k] = v
    <3>1. k = "common.request_pause" => ~(v > 60)
      BY <2>6
    <3> QED
      BY <2>9, <3>1 DEF Loaded
  <2>11. CASE k \in Connections
    <3>1. v \in Int /\ U8 > 0
      BY <2>1, <2>5, <2>11
    <3>2. v % U8 = v
      BY <2>1, <2>5, <2>11, <3>1, Unsigned
    <3>3. Used[k] = Loaded[k] % U8
      BY <2>11 DEF Used, Connections
    <3> QED
      BY <2>2, <2>3, <2>10, <3>2, <3>3
  <2>12. CASE k \notin Connections
    BY <2>2, <2>3, <2>7, <2>10, <2>12 DEF Used
  <2> QED
    BY <2>11, <2>12
<1> QED
  BY <1>1, Invariance, PTL

=============================================================================
