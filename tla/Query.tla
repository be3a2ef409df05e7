-------------------------------- MODULE Query --------------------------------
(***************************************************************************)
(* The way of an address: a client types three fields and puts them into   *)
(* the target of a GET, HttpSession takes them out of it again (GetAdress, *)
(* GetValue), YanCoorClient makes a query of them (GetUrl, url_encode),    *)
(* and the geocoder reads that, decoding it as url_decode would.           *)
(*                                                                         *)
(* A character of a target is a pair <<c, n>>: c, percent-escaped n times. *)
(* <<c, 1>> is %XX and <<c, 2>> is %25XX.  A letter of Plain stands for a  *)
(* run of characters that nothing escapes, a whole key for example.        *)
(***************************************************************************)
EXTENDS Naturals, Sequences, FiniteSets

CONSTANTS
  Plain,     \* characters that neither the client nor url_encode escapes
  Special,   \* those that url_encode lists, all of which the client escapes
  High,      \* bytes above 127, as of Cyrillic letters
  Texts,     \* what may be typed for a field
  MaxParams  \* bound: parameters of a request

Key == {"city", "street", "house"}
Prefix == "my"   \* a parameter of the client's own may be called mycity, and is no field
Lost == "FF"     \* a byte 255, which no text contains

Typed == Plain \cup Special \cup High \cup {" "}
Char == Typed \cup Key \cup {Prefix, Lost}
Symbol == Char \X Nat

ASSUME QueryAssumption ==
  /\ {"+", "=", "&", "%"} \subseteq Special
  /\ Plain \cap Special = {} /\ Plain \cap High = {} /\ Special \cap High = {}
  /\ (Plain \cup Special \cup High) \cap {" ", Lost} = {}
  /\ Texts \subseteq Seq(Typed)
  /\ MaxParams \in Nat

VARIABLES
  typed,     \* what is typed for each field: by the first parameter of that name
  first,     \* that parameter's text, escaped
  given,     \* the fields for which there is one
  shadowed,  \* those that the client's own parameter of a name that ends alike precedes
  target,    \* the query part of the request's target
  params,    \* how many parameters it has
  adr,       \* the Address that GetRequest returns
  query,     \* what follows geocode= in the request to the geocoder
  at         \* who has the address

vars == <<typed, first, given, shadowed, target, params, adr, query, at>>

NoFields == [k \in Key |-> <<>>]

Init ==
  /\ typed = NoFields
  /\ first = NoFields
  /\ given = {}
  /\ shadowed = {}
  /\ target = <<>>
  /\ params = 0
  /\ adr = NoFields
  /\ query = <<>>
  /\ at = "client"

Raw(c) == <<c, 0>>

-----------------------------------------------------------------------------
(* The client. *)

\* A client may write a space as a plus, as forms do, or leave bytes above 127 alone.
Style == {"percent", "form", "bytes"}

Escape(text, style) ==
  [i \in DOMAIN text |->
     IF text[i] = " " /\ style = "form" THEN Raw("+")
     ELSE IF text[i] \in Plain \/ (text[i] \in High /\ style = "bytes") THEN Raw(text[i])
     ELSE <<text[i], 1>>]

Param(name, text, style) == name \o <<Raw("=")>> \o Escape(text, style)

AddParam(param) ==
  /\ at = "client"
  /\ params < MaxParams
  /\ target' = target \o (IF params = 0 THEN <<>> ELSE <<Raw("&")>>) \o param
  /\ params' = params + 1
  /\ UNCHANGED <<adr, query, at>>

\* A field, for the first time or once more; in whatever order.
AddField(k) ==
  /\ \E text \in Texts, style \in Style :
       /\ AddParam(Param(<<Raw(k)>>, text, style))
       /\ IF k \in given THEN UNCHANGED <<typed, first>>
          ELSE /\ typed' = [typed EXCEPT ![k] = text]
               /\ first' = [first EXCEPT ![k] = Escape(text, style)]
  /\ given' = given \cup {k}
  /\ UNCHANGED shadowed

\* A parameter of the client's own, whose name ends like a field's.
AddOther(k) ==
  /\ \E text \in Texts, style \in Style :
       AddParam(Param(<<Raw(Prefix), Raw(k)>>, text, style))
  /\ shadowed' = IF k \in given THEN shadowed ELSE shadowed \cup {k}
  /\ UNCHANGED <<typed, first, given>>

-----------------------------------------------------------------------------
(* HttpSession. *)

\* Bug: the equals sign is not part of what is searched.
KeyAtLoosely(t, k, i) == {i, i + 1} \subseteq DOMAIN t /\ t[i] = Raw(k)

KeyAt(t, k, i) == {i, i + 1} \subseteq DOMAIN t /\ t[i] = Raw(k) /\ t[i + 1] = Raw("=")

\* Where key= occurs first in the target.
FirstAt(t, k, i) == KeyAt(t, k, i) /\ \A j \in 1..(i - 1) : ~KeyAt(t, k, j)

\* Where the next & after i is, or the end of the target.
EndOf(t, i, e) ==
  /\ e \in i..(Len(t) + 1)
  /\ e =< Len(t) => t[e] = Raw("&")
  /\ \A j \in i..(e - 1) : t[j] # Raw("&")

GetValue(t, k) ==
  IF \E i \in DOMAIN t : KeyAt(t, k, i)
  THEN LET start == (CHOOSE i \in DOMAIN t : FirstAt(t, k, i)) + 2
       IN  SubSeq(t, start, (CHOOSE e \in start..(Len(t) + 1) : EndOf(t, start, e)) - 1)
  ELSE <<>>

\* Bug: one field is enough.
EmptyIfNone(a) == \A k \in Key : a[k] = <<>>

Empty(a) == \E k \in Key : a[k] = <<>>

GetRequest ==
  /\ at = "client"
  /\ adr' = [k \in Key |-> GetValue(target, k)]
  /\ at' = IF Empty(adr') THEN "error" ELSE "session"
  /\ UNCHANGED <<typed, first, given, shadowed, target, params, query>>

\* What is not a GET has no address.
GetNothing ==
  /\ at = "client"
  /\ adr' = NoFields
  /\ at' = "refused"
  /\ UNCHANGED <<typed, first, given, shadowed, target, params, query>>

-----------------------------------------------------------------------------
(* YanCoorClient. *)

\* Bug: the percent sign is not escaped.
url_encode_once(t) ==
  [i \in DOMAIN t |-> IF t[i][2] = 0 /\ t[i][1] \in Special THEN <<t[i][1], 1>> ELSE t[i]]

\* A percent sign is escaped like others, that of an escaped character too.  Of a
\* byte above 127 snprintf writes FFFFFFxx, of which the buffer keeps FF.
url_encode(t) ==
  [i \in DOMAIN t |->
     IF t[i][2] > 0 \/ t[i][1] \in Special THEN <<t[i][1], t[i][2] + 1>>
     ELSE IF t[i][1] \in High THEN <<Lost, 1>>
     ELSE t[i]]

url_decode(t) ==
  [i \in DOMAIN t |->
     IF t[i][2] > 0 THEN <<t[i][1], t[i][2] - 1>>
     ELSE IF t[i] = Raw("+") THEN Raw(" ")
     ELSE t[i]]

\* Bug: the fields in another order.
JoinedBackwards(a) == a["house"] \o <<Raw("+")>> \o a["street"] \o <<Raw("+")>> \o a["city"]

Joined(a) == a["city"] \o <<Raw("+")>> \o a["street"] \o <<Raw("+")>> \o a["house"]

GetUrl ==
  /\ at = "session"
  /\ query' = url_encode(Joined(adr))
  /\ at' = "geocoder"
  /\ UNCHANGED <<typed, first, given, shadowed, target, params, adr>>

-----------------------------------------------------------------------------

Next ==
  \/ \E k \in Key : AddField(k) \/ AddOther(k)
  \/ GetRequest
  \/ GetNothing
  \/ GetUrl

Spec == Init /\ [][Next]_vars

-----------------------------------------------------------------------------
(* Properties. *)

TypeOK ==
  /\ typed \in [Key -> Seq(Typed)]
  /\ first \in [Key -> Seq(Symbol)]
  /\ given \in SUBSET Key
  /\ shadowed \in SUBSET Key
  /\ target \in Seq(Symbol)
  /\ params \in 0..MaxParams
  /\ adr \in [Key -> Seq(Symbol)]
  /\ query \in Seq(Symbol)
  /\ at \in {"client", "session", "error", "refused", "geocoder"}
  /\ at \in {"session", "geocoder"} => \A k \in Key : adr[k] # <<>>

(***************************************************************************)
(* Searching the target as a text finds what parsing it would: for each    *)
(* field all of its text and nothing else, whatever the order of the       *)
(* parameters and whatever is typed, keys and separators included, and     *)
(* nothing for a field that is not there.  Excepted is a field before      *)
(* which the client has a parameter of its own whose name ends alike.      *)
(***************************************************************************)
FieldsFound ==
  at \in {"session", "error", "geocoder"} => \A k \in Key \ shadowed : adr[k] = first[k]

\* The geocoder reads, character by character, the address that the session holds:
\* what is escaped is escaped once more, and no & or + of it acts as one.  Excepted is
\* a byte above 127 that the client did not escape.
QueryReadsBack ==
  at = "geocoder" =>
    LET sent == Joined(adr)
        read == url_decode(query)
    IN  /\ DOMAIN read = DOMAIN sent
        /\ \A i \in DOMAIN sent : sent[i] \notin High \X {0} => read[i] = sent[i]

Read(text) == [i \in DOMAIN text |-> Raw(text[i])]

\* What the geocoder reads is what was typed, with something between the fields.
Arrives ==
  \E a, b \in {"+", " "} :
    url_decode(query) = Read(typed["city"]) \o <<Raw(a)>> \o Read(typed["street"])
                          \o <<Raw(b)>> \o Read(typed["house"])

\* An address that needs no escaping arrives at the geocoder, whatever the order in
\* which its fields were given, and whatever parameters of other names follow them.
PlainArrives ==
  at = "geocoder" /\ shadowed = {} /\ (\A k \in Key : typed[k] \in Seq(Plain)) => Arrives

\* README.md:43-54: each field is a string, which the client of the example percent-
\* escapes.  YanCoor.cpp:20: the geocoder is given the address itself.
FieldsArrive == at = "geocoder" /\ shadowed = {} => Arrives

=============================================================================
