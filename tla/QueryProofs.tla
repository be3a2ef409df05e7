----------------------------- MODULE QueryProofs -----------------------------
(***************************************************************************)
(* What is proved about Query: for every set of texts and any number of    *)
(* parameters the fields are found in the target, and the geocoder reads   *)
(* what the session holds, and what was typed if that needs no escaping.   *)
(*                                                                         *)
(* The invariant says of the target, while the client writes it, where the *)
(* text of each field is that no other name shadows: Located.  A further   *)
(* parameter leaves it there, since it begins with a separator and its     *)
(* text has none.                                                          *)
(***************************************************************************)
EXTENDS Query, TLAPS

\* The text of the first parameter whose name ends in k is v.
Located(t, k, v) ==
  \E i, e \in Nat : FirstAt(t, k, i) /\ EndOf(t, i + 2, e) /\ v = SubSeq(t, i + 2, e - 1)

\* There is no such parameter.
Absent(t, k) == \A i \in Nat : ~KeyAt(t, k, i)

Parsed ==
  \A k \in Key \ shadowed :
    IF k \in given THEN Located(target, k, first[k])
    ELSE first[k] = <<>> /\ Absent(target, k)

\* A search for a field, shadowed or not, ends with a text.
Searched ==
  \A k \in Key : Absent(target, k) \/ \E v \in Seq(Symbol) : Located(target, k, v)

Escaped == \A k \in Key : \E style \in Style : first[k] = Escape(typed[k], style)

Counted == params = 0 <=> target = <<>>

Asked == at = "geocoder" => query = url_encode(Joined(adr))

IInv == TypeOK /\ Parsed /\ Searched /\ Escaped /\ Counted /\ FieldsFound /\ Asked

-----------------------------------------------------------------------------
(* Texts and their encodings. *)

LEMMA Classes ==
  /\ "+" \in Special /\ "=" \in Special /\ "&" \in Special
  /\ \A c \in Special : c \notin Plain /\ c \notin High /\ c # " "
  /\ \A c \in Special : c \in Char
  /\ \A c \in Plain : c \notin High /\ c # " "
BY QueryAssumption DEF Char, Typed

\* A sequence of one length and values in another set.
LEMMA SameLength ==
  ASSUME NEW S, NEW T, NEW t \in Seq(S), NEW u, DOMAIN u = DOMAIN t,
         u = [i \in DOMAIN u |-> u[i]], \A i \in DOMAIN t : u[i] \in T
  PROVE  u \in Seq(T) /\ Len(u) = Len(t)
<1>1. DOMAIN t = 1..Len(t) /\ Len(t) \in Nat
  OBVIOUS
<1>2. u \in [1..Len(t) -> T]
  BY <1>1
<1> QED
  BY <1>1, <1>2

LEMMA EscapeProps ==
  ASSUME NEW text \in Seq(Typed), NEW style \in Style
  PROVE  /\ Escape(text, style) \in Seq(Symbol)
         /\ Len(Escape(text, style)) = Len(text)
         /\ \A i \in DOMAIN text : Escape(text, style)[i] \notin {Raw("="), Raw("&")}
<1> DEFINE e == Escape(text, style)
<1>1. \A i \in DOMAIN text : text[i] \in Typed
  OBVIOUS
<1>2. ASSUME NEW i \in DOMAIN text
      PROVE  e[i] \in Symbol /\ e[i] # Raw("=") /\ e[i] # Raw("&")
  <2>1. text[i] \in Char /\ "+" \in Char
    BY <1>1, Classes DEF Char
  <2>2. \/ e[i] = Raw("+")
        \/ e[i] = Raw(text[i]) /\ text[i] \notin Special
        \/ e[i] = <<text[i], 1>>
    BY Classes DEF Escape
  <2>3. "+" # "=" /\ "+" # "&" /\ (text[i] \notin Special => text[i] # "=" /\ text[i] # "&")
    BY Classes
  <2>4. CASE e[i] = Raw("+")
    BY <2>1, <2>4 DEF Raw, Symbol
  <2>5. CASE e[i] = Raw(text[i]) /\ text[i] \notin Special
    BY <2>1, <2>3, <2>5 DEF Raw, Symbol
  <2>6. CASE e[i] = <<text[i], 1>>
    BY <2>1, <2>6 DEF Raw, Symbol
  <2> QED
    BY <2>2, <2>4, <2>5, <2>6
<1>3. DOMAIN e = DOMAIN text /\ e = [i \in DOMAIN e |-> e[i]]
  BY DEF Escape
<1>4. e \in Seq(Symbol) /\ Len(e) = Len(text)
  BY <1>2, <1>3, SameLength
<1> QED
  BY <1>2, <1>4

LEMMA EncodeType ==
  ASSUME NEW t \in Seq(Symbol)
  PROVE  url_encode(t) \in Seq(Symbol)
<1> DEFINE e == url_encode(t)
<1>1. ASSUME NEW i \in DOMAIN t PROVE e[i] \in Symbol
  <2>1. PICK c \in Char, n \in Nat : t[i] = <<c, n>>
    BY DEF Symbol
  <2>2. e[i] = <<c, n + 1>> \/ e[i] = <<Lost, 1>> \/ e[i] = <<c, n>>
    BY <2>1 DEF url_encode
  <2>3. Lost \in Char /\ n + 1 \in Nat /\ 1 \in Nat
    BY <2>1 DEF Char
  <2>4. CASE e[i] = <<c, n + 1>>
    BY <2>1, <2>3, <2>4 DEF Symbol
  <2>5. CASE e[i] = <<Lost, 1>>
    BY <2>3, <2>5 DEF Symbol
  <2>6. CASE e[i] = <<c, n>>
    BY <2>1, <2>6 DEF Symbol
  <2> QED
    BY <2>2, <2>4, <2>5, <2>6
<1>2. DOMAIN e = DOMAIN t /\ e = [i \in DOMAIN e |-> e[i]]
  BY DEF url_encode
<1> QED
  BY <1>1, <1>2, SameLength

\* What url_decode makes of a character that url_encode has encoded (Common.cpp).
LEMMA DecodeEncodeAt ==
  ASSUME NEW t \in Seq(Symbol), NEW i \in DOMAIN t, NEW c \in Char, NEW n \in Nat,
         t[i] = <<c, n>>
  PROVE  url_decode(url_encode(t))[i] = IF n = 0 /\ c \in High THEN <<Lost, 0>> ELSE <<c, n>>
<1> DEFINE e == url_encode(t)
           d == url_decode(e)
<1>1. /\ e[i] = IF t[i][2] > 0 \/ t[i][1] \in Special THEN <<t[i][1], t[i][2] + 1>>
                 ELSE IF t[i][1] \in High THEN <<Lost, 1>>
                 ELSE t[i]
      /\ d[i] = IF e[i][2] > 0 THEN <<e[i][1], e[i][2] - 1>>
                 ELSE IF e[i] = Raw("+") THEN Raw(" ")
                 ELSE e[i]
  BY DEF url_encode, url_decode
<1> HIDE DEF e, d
<1>2. t[i][1] = c /\ t[i][2] = n
  OBVIOUS
<1>3. CASE n > 0 \/ c \in Special
  <2>1. e[i] = <<c, n + 1>>
    BY <1>1, <1>2, <1>3
  <2>2. e[i][2] > 0 /\ <<e[i][1], e[i][2] - 1>> = <<c, n>>
    BY <2>1
  <2>3. d[i] = <<e[i][1], e[i][2] - 1>>
    BY <1>1, <2>2
  <2>4. ~(n = 0 /\ c \in High)
    <3>1. c \in Special => c \notin High
      BY Classes
    <3> QED
      BY <1>3, <3>1
  <2> QED
    BY <2>2, <2>3, <2>4 DEF d, e
<1>4. CASE n = 0 /\ c \notin Special /\ c \in High
  <2>1. e[i] = <<Lost, 1>>
    BY <1>1, <1>2, <1>4
  <2>2. e[i][2] > 0 /\ <<e[i][1], e[i][2] - 1>> = <<Lost, 0>>
    BY <2>1
  <2>3. d[i] = <<e[i][1], e[i][2] - 1>>
    BY <1>1, <2>2
  <2> QED
    BY <1>4, <2>2, <2>3 DEF d, e
<1>5. CASE n = 0 /\ c \notin Special /\ c \notin High
  <2>1. e[i] = t[i]
    <3>1. ~(t[i][2] > 0 \/ t[i][1] \in Special) /\ t[i][1] \notin High
      BY <1>2, <1>5
    <3> QED
      BY <1>1, <3>1
  <2>2. c # "+"
    BY <1>5, Classes
  <2>3. e[i] # Raw("+")
    BY <2>1, <2>2 DEF Raw
  <2>4. ~(e[i][2] > 0)
    BY <1>2, <1>5, <2>1
  <2>5. d[i] = t[i]
    BY <1>1, <2>1, <2>3, <2>4
  <2> QED
    BY <1>5, <2>5 DEF d, e
<1>6. n > 0 \/ n = 0
  OBVIOUS
<1> QED
  BY <1>3, <1>4, <1>5, <1>6

\* A byte above 127 that is not escaped.
Byte(x) == x[1] \in High /\ x[2] = 0

LEMMA DecodeEncode ==
  ASSUME NEW t \in Seq(Symbol)
  PROVE  LET d == url_decode(url_encode(t))
         IN  /\ DOMAIN d = DOMAIN t /\ d = [i \in DOMAIN d |-> d[i]]
             /\ \A i \in DOMAIN t : ~Byte(t[i]) => d[i] = t[i]
<1> DEFINE d == url_decode(url_encode(t))
<1>1. DOMAIN d = DOMAIN t /\ d = [i \in DOMAIN d |-> d[i]]
  BY DEF url_encode, url_decode
<1> HIDE DEF d
<1>2. ASSUME NEW i \in DOMAIN t, ~Byte(t[i]) PROVE d[i] = t[i]
  <2>1. PICK c \in Char, n \in Nat : t[i] = <<c, n>>
    BY DEF Symbol
  <2>2. ~(n = 0 /\ c \in High)
    BY <1>2, <2>1 DEF Byte
  <2>3. d[i] = IF n = 0 /\ c \in High THEN <<Lost, 0>> ELSE <<c, n>>
    BY <2>1, DecodeEncodeAt DEF d
  <2> QED
    BY <2>1, <2>2, <2>3
<1> QED
  BY <1>1, <1>2 DEF d

-----------------------------------------------------------------------------
(* What a further parameter changes in the target. *)

Separator(t) == IF t = <<>> THEN <<>> ELSE <<Raw("&")>>

UpToText(t, prefix, k) == t \o Separator(t) \o prefix \o <<Raw(k), Raw("=")>>

WithParam(t, prefix, k, e) == UpToText(t, prefix, k) \o e

Prefixes == {<<>>, <<Raw(Prefix)>>}

LEMMA AppendOne ==
  ASSUME NEW S, NEW t \in Seq(S), NEW a \in S
  PROVE  /\ t \o <<>> = t /\ Len(t) \in Nat
         /\ t \o <<a>> \in Seq(S) /\ Len(t \o <<a>>) = Len(t) + 1
         /\ \A i \in 1..Len(t) : (t \o <<a>>)[i] = t[i]
         /\ (t \o <<a>>)[Len(t) + 1] = a
OBVIOUS

LEMMA AppendTwo ==
  ASSUME NEW S, NEW t \in Seq(S), NEW a \in S, NEW b \in S
  PROVE  /\ t \o <<a, b>> \in Seq(S) /\ Len(t \o <<a, b>>) = Len(t) + 2
         /\ \A i \in 1..Len(t) : (t \o <<a, b>>)[i] = t[i]
         /\ (t \o <<a, b>>)[Len(t) + 1] = a
         /\ (t \o <<a, b>>)[Len(t) + 2] = b
OBVIOUS

LEMMA Concatenation ==
  ASSUME NEW S, NEW t \in Seq(S), NEW s \in Seq(S)
  PROVE  /\ t \o s \in Seq(S) /\ Len(t \o s) = Len(t) + Len(s)
         /\ \A i \in 1..Len(t) : (t \o s)[i] = t[i]
         /\ \A i \in 1..Len(s) : (t \o s)[Len(t) + i] = s[i]
OBVIOUS

LEMMA TwoTogether ==
  ASSUME NEW S, NEW a \in S, NEW b \in S
  PROVE  <<a>> \o <<b>> = <<a, b>>
<1> DEFINE c == <<a>> \o <<b>>
           d == <<a, b>>
<1>1. <<a>> \in Seq(S) /\ Len(<<a>>) = 1 /\ <<a>>[1] = a
  OBVIOUS
<1>2. c \in Seq(S) /\ Len(c) = 2 /\ c[1] = a /\ c[2] = b
  BY <1>1, AppendOne
<1>3. d \in Seq(S) /\ Len(d) = 2 /\ d[1] = a /\ d[2] = b
  OBVIOUS
<1> HIDE DEF c, d
<1>4. c = d
  BY <1>2, <1>3
<1> QED
  BY <1>4 DEF c, d

LEMMA Associative ==
  ASSUME NEW S, NEW t \in Seq(S), NEW a \in Seq(S), NEW b \in Seq(S), NEW c \in Seq(S)
  PROVE  t \o ((a \o b) \o c) = ((t \o a) \o b) \o c
<1>1. a \o b \in Seq(S) /\ t \o a \in Seq(S)
  OBVIOUS
<1>2. t \o ((a \o b) \o c) = (t \o (a \o b)) \o c
  BY <1>1
<1>3. t \o (a \o b) = (t \o a) \o b
  OBVIOUS
<1> QED
  BY <1>2, <1>3

\* Where the key is, and what is before it.
LEMMA HeadProps ==
  ASSUME NEW t \in Seq(Symbol), NEW k \in Key, NEW prefix \in Prefixes
  PROVE  \E m \in Nat :
           /\ m > Len(t)
           /\ UpToText(t, prefix, k) \in Seq(Symbol) /\ Len(UpToText(t, prefix, k)) = m + 1
           /\ \A i \in 1..Len(t) : UpToText(t, prefix, k)[i] = t[i]
           /\ \A i \in (Len(t) + 1)..(m - 1) :
                UpToText(t, prefix, k)[i] \in {Raw("&"), Raw(Prefix)}
           /\ t # <<>> => m > Len(t) + 1 /\ UpToText(t, prefix, k)[Len(t) + 1] = Raw("&")
           /\ UpToText(t, prefix, k)[m] = Raw(k) /\ UpToText(t, prefix, k)[m + 1] = Raw("=")
<1> DEFINE w == t \o Separator(t)
           x == w \o prefix
           h == x \o <<Raw(k), Raw("=")>>
<1>1. /\ Raw("&") \in Symbol /\ Raw("=") \in Symbol /\ Raw(k) \in Symbol
      /\ Raw(Prefix) \in Symbol
  BY Classes DEF Symbol, Char, Raw
<1>2. /\ w \in Seq(Symbol) /\ Len(w) \in Nat /\ Len(t) \in Nat
      /\ \A i \in 1..Len(t) : w[i] = t[i]
      /\ IF t = <<>> THEN Len(w) = Len(t) ELSE Len(w) = Len(t) + 1 /\ w[Len(t) + 1] = Raw("&")
  BY <1>1, AppendOne DEF Separator
<1>3. /\ x \in Seq(Symbol) /\ Len(x) \in Nat
      /\ \A i \in 1..Len(w) : x[i] = w[i]
      /\ \/ Len(x) = Len(w)
         \/ Len(x) = Len(w) + 1 /\ x[Len(w) + 1] = Raw(Prefix)
  <2> HIDE DEF w
  <2>1. CASE prefix = <<>>
    BY <1>2, <2>1, AppendOne
  <2>2. CASE prefix = <<Raw(Prefix)>>
    BY <1>1, <1>2, <2>2, AppendOne
  <2> QED
    BY <2>1, <2>2 DEF Prefixes
<1>4. /\ h \in Seq(Symbol) /\ Len(h) = Len(x) + 2
      /\ \A i \in 1..Len(x) : h[i] = x[i]
      /\ h[Len(x) + 1] = Raw(k) /\ h[Len(x) + 2] = Raw("=")
  BY <1>1, <1>3, AppendTwo
<1>5. h = UpToText(t, prefix, k)
  BY DEF UpToText
<1> HIDE DEF w, x, h
<1>6. Len(x) + 1 > Len(t) /\ Len(x) + 1 \in Nat /\ (t # <<>> => Len(x) + 1 > Len(t) + 1)
  BY <1>2, <1>3
<1>7. \A i \in 1..Len(t) : h[i] = t[i]
  BY <1>2, <1>3, <1>4
<1>8. \A i \in (Len(t) + 1)..(Len(x) + 1 - 1) : h[i] \in {Raw("&"), Raw(Prefix)}
  BY <1>2, <1>3, <1>4
<1>9. t # <<>> => h[Len(t) + 1] = Raw("&")
  BY <1>2, <1>3, <1>4
<1> QED
  <2> WITNESS Len(x) + 1 \in Nat
  <2> QED
    BY <1>4, <1>5, <1>6, <1>7, <1>8, <1>9

NoSeparator(e) == \A i \in DOMAIN e : e[i] # Raw("=") /\ e[i] # Raw("&")

\* u is t with a parameter added, whose key is at m.
Extends(u, t, k, e, m) ==
  /\ m > Len(t)
  /\ u \in Seq(Symbol) /\ Len(u) = m + 1 + Len(e)
  /\ \A i \in 1..Len(t) : u[i] = t[i]
  /\ \A i \in 1..Len(e) : u[m + 1 + i] = e[i]
  /\ t # <<>> => u[Len(t) + 1] = Raw("&")
  /\ \A q \in Key, i \in Nat : KeyAt(u, q, i) <=> KeyAt(t, q, i) \/ (q = k /\ i = m)

\* Of the keys only the one of the parameter is found in what is added.
LEMMA ParamProps ==
  ASSUME NEW t \in Seq(Symbol), NEW k \in Key, NEW prefix \in Prefixes,
         NEW e \in Seq(Symbol), NoSeparator(e)
  PROVE  \E m \in Nat : Extends(WithParam(t, prefix, k, e), t, k, e, m)
<1> DEFINE h == UpToText(t, prefix, k)
           u == h \o e
<1>1. PICK m \in Nat :
        /\ m > Len(t)
        /\ h \in Seq(Symbol) /\ Len(h) = m + 1
        /\ \A i \in 1..Len(t) : h[i] = t[i]
        /\ \A i \in (Len(t) + 1)..(m - 1) : h[i] \in {Raw("&"), Raw(Prefix)}
        /\ t # <<>> => m > Len(t) + 1 /\ h[Len(t) + 1] = Raw("&")
        /\ h[m] = Raw(k) /\ h[m + 1] = Raw("=")
  BY HeadProps
<1> SUFFICES Extends(u, t, k, e, m)
  BY DEF WithParam
<1> HIDE DEF h
<1>0. /\ h \in Seq(Symbol) => u \in Seq(Symbol) /\ Len(u) = Len(h) + Len(e)
      /\ h \in Seq(Symbol) => \A i \in 1..Len(h) : u[i] = h[i]
      /\ h \in Seq(Symbol) => \A i \in 1..Len(e) : u[Len(h) + i] = e[i]
  BY Concatenation
<1> HIDE DEF u
<1>2. h \in Seq(Symbol) /\ Len(h) = m + 1 /\ m \in Nat /\ m > Len(t)
  BY <1>1
<1>3. Len(t) \in Nat /\ Len(e) \in Nat /\ DOMAIN e = 1..Len(e) /\ DOMAIN t = 1..Len(t)
  OBVIOUS
<1>4. u \in Seq(Symbol) /\ Len(u) = m + 1 + Len(e) /\ DOMAIN u = 1..Len(u)
  <2>1. u \in Seq(Symbol) /\ Len(u) = Len(h) + Len(e)
    BY <1>0, <1>2
  <2>2. DOMAIN u = 1..Len(u)
    BY <2>1
  <2> QED
    BY <1>2, <2>1, <2>2
<1>5. \A i \in 1..Len(t) : u[i] = t[i]
  <2>1. ASSUME NEW i \in 1..Len(t) PROVE u[i] = t[i]
    <3>1. i \in 1..Len(h)
      BY <1>2, <1>3
    <3> QED
      BY <1>0, <1>1, <3>1
  <2> QED
    BY <2>1
<1>6. \A i \in 1..Len(e) : u[m + 1 + i] = e[i]
  BY <1>0, <1>2
<1>7. u[m] = Raw(k) /\ u[m + 1] = Raw("=")
  <2>1. m \in 1..Len(h) /\ m + 1 \in 1..Len(h)
    BY <1>2, <1>3
  <2>2. u[m] = h[m] /\ u[m + 1] = h[m + 1]
    BY <1>0, <1>2, <2>1
  <2> QED
    BY <1>1, <2>2
<1>8. \A i \in (Len(t) + 1)..(m - 1) : u[i] = Raw("&") \/ u[i] = Raw(Prefix)
  <2>1. ASSUME NEW i \in (Len(t) + 1)..(m - 1) PROVE u[i] = Raw("&") \/ u[i] = Raw(Prefix)
    <3>1. i \in 1..Len(h)
      BY <1>2, <1>3
    <3>2. u[i] = h[i]
      BY <1>0, <1>2, <3>1
    <3> QED
      BY <1>1, <3>2
  <2> QED
    BY <2>1
<1>9. t # <<>> => u[Len(t) + 1] = Raw("&")
  <2>1. t # <<>> => Len(t) + 1 \in 1..Len(h)
    BY <1>2, <1>3
  <2>2. t # <<>> => u[Len(t) + 1] = h[Len(t) + 1]
    BY <1>0, <1>2, <2>1
  <2> QED
    BY <1>1, <2>2
<1>10. ASSUME NEW q \in Key, NEW i \in Nat
       PROVE  KeyAt(u, q, i) <=> KeyAt(t, q, i) \/ (q = k /\ i = m)
  <2>0. Len(t) \in Nat /\ m \in Nat /\ i \in Nat /\ m > Len(t)
    BY <1>2, <1>3
  <2>1. /\ Raw(q) # Raw("&") /\ Raw(q) # Raw("=") /\ Raw(q) # Raw(Prefix)
        /\ Raw("&") # Raw("=") /\ Raw(k) # Raw("=") /\ (Raw(q) = Raw(k) <=> q = k)
    BY DEF Raw, Key, Prefix
  <2>2. /\ KeyAt(u, q, i) <=> i \in 1..(Len(u) - 1) /\ u[i] = Raw(q) /\ u[i + 1] = Raw("=")
        /\ KeyAt(t, q, i) <=> i \in 1..(Len(t) - 1) /\ t[i] = Raw(q) /\ t[i + 1] = Raw("=")
    BY <1>2, <1>3, <1>4 DEF KeyAt
  <2>3. CASE i < Len(t)
    <3>1. i # m /\ (i \in 1..(Len(t) - 1) <=> i \in 1..(Len(u) - 1))
      BY <1>2, <1>3, <1>4, <2>3
    <3>2. i \in 1..(Len(t) - 1) => i \in 1..Len(t) /\ i + 1 \in 1..Len(t)
      BY <1>3
    <3>3. i \in 1..(Len(t) - 1) => u[i] = t[i] /\ u[i + 1] = t[i + 1]
      BY <1>5, <3>2
    <3> QED
      BY <2>2, <3>1, <3>3
  <2>4. CASE i = Len(t)
    <3>1. i # m /\ i \notin 1..(Len(t) - 1)
      BY <2>0, <2>4
    <3>2. i \in 1..(Len(u) - 1) => t # <<>>
      BY <2>4
    <3>3. i \in 1..(Len(u) - 1) => u[i + 1] = Raw("&")
      BY <1>9, <2>4, <3>2
    <3> QED
      BY <2>1, <2>2, <3>1, <3>3
  <2>5. CASE Len(t) < i /\ i < m
    <3>1. i # m /\ i \notin 1..(Len(t) - 1) /\ i \in (Len(t) + 1)..(m - 1)
      BY <1>2, <1>3, <2>5
    <3>2. u[i] # Raw(q)
      BY <1>8, <2>1, <3>1
    <3> QED
      BY <2>2, <3>1, <3>2
  <2>6. CASE i = m
    <3>1. i \in 1..(Len(u) - 1) /\ i \notin 1..(Len(t) - 1)
      BY <1>2, <1>3, <1>4, <2>6
    <3> QED
      BY <1>7, <2>1, <2>2, <2>6, <3>1
  <2>7. CASE i = m + 1
    <3>1. i # m /\ i \notin 1..(Len(t) - 1)
      BY <1>2, <1>3, <2>7
    <3> QED
      BY <1>7, <2>1, <2>2, <2>7, <3>1
  <2>8. CASE i > m + 1
    <3>1. i # m /\ i \notin 1..(Len(t) - 1)
      BY <1>2, <1>3, <2>8
    <3>2. i \in 1..(Len(u) - 1) => i - m \in 1..Len(e) /\ m + 1 + (i - m) = i + 1
      BY <1>2, <1>3, <1>4, <2>8
    <3>3. i \in 1..(Len(u) - 1) => u[i + 1] = e[i - m]
      BY <1>6, <3>2
    <3>4. i \in 1..(Len(u) - 1) => u[i + 1] # Raw("=")
      BY <1>3, <3>2, <3>3 DEF NoSeparator
    <3> QED
      BY <2>2, <3>1, <3>4
  <2>9. /\ i < Len(t) \/ i = Len(t) \/ Len(t) < i
        /\ i < m \/ i = m \/ i = m + 1 \/ i > m + 1
    BY <2>0
  <2> QED
    BY <2>3, <2>4, <2>5, <2>6, <2>7, <2>8, <2>9
<1> QED
  BY <1>2, <1>4, <1>5, <1>6, <1>9, <1>10 DEF Extends

-----------------------------------------------------------------------------
(* Where a field is. *)

\* GetValue returns what is there.
LEMMA LocatedIsFound ==
  ASSUME NEW t \in Seq(Symbol), NEW k \in Key, NEW v, Located(t, k, v)
  PROVE  GetValue(t, k) = v
<1>1. PICK i \in Nat, e \in Nat :
        FirstAt(t, k, i) /\ EndOf(t, i + 2, e) /\ v = SubSeq(t, i + 2, e - 1)
  BY DEF Located
<1>2. i \in DOMAIN t /\ i >= 1 /\ Len(t) \in Nat /\ DOMAIN t = 1..Len(t)
  <2>1. i \in DOMAIN t
    BY <1>1 DEF FirstAt, KeyAt
  <2> QED
    BY <2>1
<1>3. \A j \in DOMAIN t : FirstAt(t, k, j) => j = i
  BY <1>1, <1>2 DEF FirstAt
<1>4. (CHOOSE j \in DOMAIN t : FirstAt(t, k, j)) = i
  BY <1>1, <1>2, <1>3
<1>5. \A f \in (i + 2)..(Len(t) + 1) : EndOf(t, i + 2, f) => f = e
  BY <1>1, <1>2 DEF EndOf
<1>6. e \in (i + 2)..(Len(t) + 1)
  BY <1>1 DEF EndOf
<1>7. (CHOOSE f \in (i + 2)..(Len(t) + 1) : EndOf(t, i + 2, f)) = e
  BY <1>1, <1>5, <1>6
<1>8. \E j \in DOMAIN t : KeyAt(t, k, j)
  BY <1>1, <1>2 DEF FirstAt
<1> QED
  BY <1>1, <1>4, <1>7, <1>8 DEF GetValue

\* Two parts of sequences that agree.
LEMMA SamePart ==
  ASSUME NEW S, NEW t \in Seq(S), NEW u \in Seq(S), NEW a \in Nat, NEW b \in Nat, a > 0,
         b =< Len(t), b =< Len(u), \A i \in a..b : u[i] = t[i]
  PROVE  SubSeq(u, a, b) = SubSeq(t, a, b)
<1>1. SubSeq(u, a, b) = [i \in 1..(b - a + 1) |-> u[a + i - 1]]
  OBVIOUS
<1>2. SubSeq(t, a, b) = [i \in 1..(b - a + 1) |-> t[a + i - 1]]
  OBVIOUS
<1>3. ASSUME NEW i \in 1..(b - a + 1) PROVE u[a + i - 1] = t[a + i - 1]
  <2>1. a + i - 1 \in a..b
    OBVIOUS
  <2> QED
    BY <2>1
<1> QED
  BY <1>1, <1>2, <1>3

\* The rest of a sequence.
LEMMA Rest ==
  ASSUME NEW S, NEW u \in Seq(S), NEW e \in Seq(S), NEW n \in Nat, Len(u) = n + Len(e),
         \A i \in 1..Len(e) : u[n + i] = e[i]
  PROVE  SubSeq(u, n + 1, Len(u)) = e
<1>1. SubSeq(u, n + 1, Len(u)) = [i \in 1..(Len(u) - (n + 1) + 1) |-> u[n + 1 + i - 1]]
  OBVIOUS
<1>2. Len(e) \in Nat /\ Len(u) - (n + 1) + 1 = Len(e)
  OBVIOUS
<1>3. ASSUME NEW i \in 1..Len(e) PROVE u[n + 1 + i - 1] = e[i]
  <2>1. n + 1 + i - 1 = n + i
    BY <1>2
  <2> QED
    BY <2>1
<1>4. e = [i \in 1..Len(e) |-> e[i]]
  OBVIOUS
<1> QED
  BY <1>1, <1>2, <1>3, <1>4

\* What a further parameter leaves, and what it adds.
LEMMA FurtherParam ==
  ASSUME NEW t \in Seq(Symbol), NEW k \in Key, NEW prefix \in Prefixes,
         NEW e \in Seq(Symbol), NoSeparator(e)
  PROVE  LET u == WithParam(t, prefix, k, e)
         IN  /\ u \in Seq(Symbol) /\ u # <<>>
             /\ \A q \in Key : \A v : Located(t, q, v) => Located(u, q, v)
             /\ (\A i \in Nat : ~KeyAt(t, k, i)) => Located(u, k, e)
             /\ \A q \in Key \ {k} :
                  (\A i \in Nat : ~KeyAt(t, q, i)) => \A i \in Nat : ~KeyAt(u, q, i)
<1> DEFINE u == WithParam(t, prefix, k, e)
<1> HIDE DEF u
<1>0. PICK m \in Nat : Extends(u, t, k, e, m)
  BY ParamProps DEF u
<1>1. /\ m > Len(t)
      /\ u \in Seq(Symbol) /\ Len(u) = m + 1 + Len(e)
      /\ \A i \in 1..Len(t) : u[i] = t[i]
      /\ \A i \in 1..Len(e) : u[m + 1 + i] = e[i]
      /\ t # <<>> => u[Len(t) + 1] = Raw("&")
      /\ \A q \in Key, i \in Nat : KeyAt(u, q, i) <=> KeyAt(t, q, i) \/ (q = k /\ i = m)
  BY <1>0 DEF Extends
<1>2. /\ Len(t) \in Nat /\ Len(e) \in Nat /\ Len(u) \in Nat
      /\ m \in Nat /\ m > Len(t) /\ Len(u) = m + 1 + Len(e)
  BY <1>1
<1>3. u # <<>>
  BY <1>2
<1>4. ASSUME NEW q \in Key, NEW v, Located(t, q, v)
      PROVE  Located(u, q, v)
  <2>1. PICK i \in Nat, f \in Nat :
          FirstAt(t, q, i) /\ EndOf(t, i + 2, f) /\ v = SubSeq(t, i + 2, f - 1)
    BY <1>4 DEF Located
  <2>2. i \in 1..Len(t) /\ i + 1 \in 1..Len(t) /\ KeyAt(t, q, i) /\ t # <<>>
    <3>1. KeyAt(t, q, i) /\ {i, i + 1} \subseteq DOMAIN t
      BY <2>1 DEF FirstAt, KeyAt
    <3>2. DOMAIN t = 1..Len(t)
      OBVIOUS
    <3> QED
      BY <3>1, <3>2
  <2>3. FirstAt(u, q, i)
    <3>1. KeyAt(u, q, i)
      BY <1>1, <2>2
    <3>2. ASSUME NEW j \in 1..(i - 1) PROVE ~KeyAt(u, q, j)
      <4>1. j \in Nat /\ j # m
        BY <1>2, <2>2
      <4>2. ~KeyAt(t, q, j)
        BY <2>1 DEF FirstAt
      <4> QED
        BY <1>1, <4>1, <4>2
    <3> QED
      BY <3>1, <3>2 DEF FirstAt
  <2>4. /\ f \in Nat /\ i + 2 =< f /\ f =< Len(t) + 1
        /\ f =< Len(t) => t[f] = Raw("&")
        /\ \A j \in (i + 2)..(f - 1) : t[j] # Raw("&")
    BY <1>2, <2>1 DEF EndOf
  <2>5. \A j \in (i + 2)..(f - 1) : j \in 1..Len(t) /\ u[j] = t[j]
    BY <1>1, <1>2, <2>4
  <2>6. EndOf(u, i + 2, f)
    <3>1. f \in (i + 2)..(Len(u) + 1)
      BY <1>2, <2>4
    <3>2. u[f] = Raw("&")
      <4>1. CASE f =< Len(t)
        <5>1. f \in 1..Len(t)
          BY <2>4, <4>1
        <5> QED
          BY <1>1, <2>4, <4>1, <5>1
      <4>2. CASE f = Len(t) + 1
        BY <1>1, <2>2, <4>2
      <4> QED
        BY <1>2, <2>4, <4>1, <4>2
    <3> QED
      BY <2>4, <2>5, <3>1, <3>2 DEF EndOf
  <2>7. SubSeq(u, i + 2, f - 1) = SubSeq(t, i + 2, f - 1)
    <3>1. i + 2 \in Nat /\ f - 1 \in Nat /\ i + 2 > 0 /\ f - 1 =< Len(t) /\ f - 1 =< Len(u)
      BY <1>2, <2>4
    <3> QED
      BY <1>1, <2>5, <3>1, SamePart
  <2> QED
    BY <2>1, <2>3, <2>6, <2>7 DEF Located
<1>5. ASSUME \A i \in Nat : ~KeyAt(t, k, i)
      PROVE  Located(u, k, e)
  <2>1. FirstAt(u, k, m)
    <3>1. KeyAt(u, k, m)
      BY <1>1, <1>2
    <3>2. ASSUME NEW j \in 1..(m - 1) PROVE ~KeyAt(u, k, j)
      <4>1. j \in Nat /\ j # m
        BY <1>2
      <4> QED
        BY <1>1, <1>5, <4>1
    <3> QED
      BY <3>1, <3>2 DEF FirstAt
  <2>2. EndOf(u, m + 2, Len(u) + 1)
    <3>1. Len(u) + 1 \in (m + 2)..(Len(u) + 1) /\ ~(Len(u) + 1 =< Len(u))
      BY <1>2
    <3>2. ASSUME NEW j \in (m + 2)..(Len(u) + 1 - 1) PROVE u[j] # Raw("&")
      <4>1. j - m - 1 \in 1..Len(e) /\ m + 1 + (j - m - 1) = j
        BY <1>2
      <4>2. u[j] = e[j - m - 1] /\ j - m - 1 \in DOMAIN e
        BY <1>1, <4>1
      <4> QED
        BY <4>2 DEF NoSeparator
    <3> QED
      BY <3>1, <3>2 DEF EndOf
  <2>3. SubSeq(u, m + 2, Len(u) + 1 - 1) = e
    <3>1. m + 1 \in Nat /\ m + 1 + 1 = m + 2 /\ Len(u) + 1 - 1 = Len(u)
      BY <1>2
    <3>2. SubSeq(u, m + 1 + 1, Len(u)) = e
      BY <1>1, <1>2, <3>1, Rest
    <3> QED
      BY <3>1, <3>2
  <2>4. Len(u) + 1 \in Nat
    BY <1>2
  <2> QED
    BY <1>2, <2>1, <2>2, <2>3, <2>4 DEF Located
<1>6. ASSUME NEW q \in Key \ {k}, \A i \in Nat : ~KeyAt(t, q, i), NEW i \in Nat
      PROVE  ~KeyAt(u, q, i)
  BY <1>1, <1>6
<1> QED
  BY <1>1, <1>3, <1>4, <1>5, <1>6 DEF u

-----------------------------------------------------------------------------
(* The invariant. *)

LEMMA BoundNat == MaxParams \in Nat
BY QueryAssumption

LEMMA InitIInv == Init => IInv
<1> SUFFICES ASSUME Init PROVE IInv
  OBVIOUS
<1> USE DEF Init, NoFields
<1>1. TypeOK
  <2>1. NoFields \in [Key -> Seq(Typed)] /\ NoFields \in [Key -> Seq(Symbol)]
    BY DEF NoFields
  <2>2. 0 \in 0..MaxParams
    BY BoundNat
  <2>3. <<>> \in Seq(Symbol) /\ {} \in SUBSET Key
    OBVIOUS
  <2> QED
    BY <2>1, <2>2, <2>3 DEF TypeOK
<1>2. Parsed /\ Searched
  BY DEF Parsed, Searched, Absent, KeyAt
<1>3. Escaped
  <2>1. Escape(<<>>, "percent") = <<>>
    BY DEF Escape
  <2> QED
    BY <2>1 DEF Escaped, Style
<1>4. Counted /\ FieldsFound /\ Asked
  BY DEF Counted, FieldsFound, Asked
<1> QED
  BY <1>1, <1>2, <1>3, <1>4 DEF IInv

\* A parameter whose name ends in k leaves the texts of the fields where they are, and
\* is found itself if it is the first of such a name.
LEMMA ParamAdded ==
  ASSUME IInv, NEW k \in Key, NEW prefix \in Prefixes, NEW text \in Texts, NEW style \in Style,
         AddParam(Param(prefix \o <<Raw(k)>>, text, style))
  PROVE  /\ target' \in Seq(Symbol) /\ target' # <<>>
         /\ \A q \in Key : \A v : Located(target, q, v) => Located(target', q, v)
         /\ Absent(target, k) => Located(target', k, Escape(text, style))
         /\ \A q \in Key \ {k} : Absent(target, q) => Absent(target', q)
         /\ Searched'
         /\ params' \in 0..MaxParams /\ params' # 0
         /\ at = "client" /\ UNCHANGED <<adr, query, at>>
<1> DEFINE e == Escape(text, style)
<1>1. text \in Seq(Typed) /\ e \in Seq(Symbol) /\ NoSeparator(e)
  <2>1. text \in Seq(Typed)
    BY QueryAssumption
  <2>2. DOMAIN e = DOMAIN text
    BY DEF Escape
  <2> QED
    BY <2>1, <2>2, EscapeProps DEF NoSeparator
<1>2. target' = target \o Separator(target) \o ((prefix \o <<Raw(k)>>) \o <<Raw("=")>> \o e)
  BY DEF AddParam, Param, IInv, Counted, Separator
<1> HIDE DEF e
<1>3. target' = WithParam(target, prefix, k, e)
  <2>1. target \in Seq(Symbol) /\ prefix \in Seq(Symbol) /\ Separator(target) \in Seq(Symbol)
    <3>1. Raw("&") \in Symbol /\ Raw(Prefix) \in Symbol
      BY Classes DEF Raw, Symbol, Char
    <3>2. prefix = <<>> \/ prefix = <<Raw(Prefix)>>
      BY DEF Prefixes
    <3>3. prefix \in Seq(Symbol)
      <4>1. <<>> \in Seq(Symbol) /\ <<Raw(Prefix)>> \in Seq(Symbol)
        BY <3>1
      <4> QED
        BY <3>2, <4>1
    <3>4. Separator(target) \in Seq(Symbol)
      <4>1. <<>> \in Seq(Symbol) /\ <<Raw("&")>> \in Seq(Symbol)
        BY <3>1
      <4> QED
        BY <4>1 DEF Separator
    <3> QED
      BY <3>3, <3>4 DEF IInv, TypeOK
  <2>2. Raw(k) \in Symbol /\ Raw("=") \in Symbol
    BY Classes DEF Symbol, Char, Raw
  <2>3. /\ target \o Separator(target) \in Seq(Symbol)
        /\ (prefix \o <<Raw(k)>>) \o <<Raw("=")>> = prefix \o <<Raw(k), Raw("=")>>
        /\ <<Raw(k), Raw("=")>> \in Seq(Symbol)
    BY <2>1, <2>2
  <2> DEFINE w == target \o Separator(target)
             h == <<Raw(k), Raw("=")>>
  <2>4. target' = w \o ((prefix \o h) \o e)
    BY <1>2, <2>3
  <2>5. w \o ((prefix \o h) \o e) = ((w \o prefix) \o h) \o e
    <3> HIDE DEF w, h
    <3>1. w \in Seq(Symbol) /\ h \in Seq(Symbol)
      BY <2>3 DEF w, h
    <3> QED
      BY <1>1, <2>1, <3>1, Associative, SMTT(30)
  <2> QED
    BY <2>4, <2>5 DEF UpToText, WithParam
<1>4. /\ target' \in Seq(Symbol) /\ target' # <<>>
      /\ \A q \in Key : \A v : Located(target, q, v) => Located(target', q, v)
      /\ Absent(target, k) => Located(target', k, e)
      /\ \A q \in Key \ {k} : Absent(target, q) => Absent(target', q)
  BY <1>1, <1>3, FurtherParam DEF IInv, TypeOK, Absent
<1>5. params' \in 0..MaxParams /\ params' # 0
  <2>1. params \in 0..MaxParams /\ params < MaxParams /\ params' = params + 1
    BY DEF IInv, TypeOK, AddParam
  <2> QED
    BY <2>1, BoundNat
<1>6. Searched'
  <2> SUFFICES ASSUME NEW q \in Key
               PROVE  Absent(target', q) \/ \E v \in Seq(Symbol) : Located(target', q, v)
    BY DEF Searched
  <2>1. Absent(target, q) \/ \E v \in Seq(Symbol) : Located(target, q, v)
    BY DEF IInv, Searched
  <2>2. CASE Absent(target, q)
    BY <1>1, <1>4, <2>2
  <2>3. CASE \E v \in Seq(Symbol) : Located(target, q, v)
    BY <1>4, <2>3
  <2> QED
    BY <2>1, <2>2, <2>3
<1> QED
  BY <1>4, <1>5, <1>6 DEF AddParam, e

LEMMA AddFieldStep ==
  ASSUME IInv, NEW k \in Key, AddField(k)
  PROVE  IInv'
<1>1. PICK text \in Texts, style \in Style :
        /\ AddParam(Param(<<Raw(k)>>, text, style))
        /\ IF k \in given THEN UNCHANGED <<typed, first>>
           ELSE /\ typed' = [typed EXCEPT ![k] = text]
                /\ first' = [first EXCEPT ![k] = Escape(text, style)]
  BY DEF AddField
<1> DEFINE e == Escape(text, style)
<1>2. text \in Seq(Typed) /\ e \in Seq(Symbol)
  BY QueryAssumption, EscapeProps
<1>3. /\ target' \in Seq(Symbol) /\ target' # <<>>
      /\ \A q \in Key : \A v : Located(target, q, v) => Located(target', q, v)
      /\ Absent(target, k) => Located(target', k, e)
      /\ \A q \in Key \ {k} : Absent(target, q) => Absent(target', q)
      /\ Searched' /\ params' \in 0..MaxParams /\ params' # 0
      /\ at = "client" /\ UNCHANGED <<adr, query, at>>
  <2>1. <<>> \in Prefixes /\ <<>> \o <<Raw(k)>> = <<Raw(k)>>
    BY DEF Prefixes
  <2>2. AddParam(Param(<<>> \o <<Raw(k)>>, text, style))
    BY <1>1, <2>1
  <2> QED
    BY <2>1, <2>2, ParamAdded
<1>4. /\ k \in given => typed' = typed /\ first' = first
      /\ k \notin given =>
           typed' = [typed EXCEPT ![k] = text] /\ first' = [first EXCEPT ![k] = e]
      /\ given' = given \cup {k} /\ shadowed' = shadowed
  BY <1>1 DEF AddField
<1>5. ASSUME NEW q \in Key
      PROVE  IF q = k /\ k \notin given THEN typed'[q] = text /\ first'[q] = e
             ELSE typed'[q] = typed[q] /\ first'[q] = first[q]
  BY <1>4 DEF IInv, TypeOK
<1>6. TypeOK'
  <2>1. typed' \in [Key -> Seq(Typed)] /\ first' \in [Key -> Seq(Symbol)]
    BY <1>2, <1>4 DEF IInv, TypeOK
  <2>2. given' \in SUBSET Key /\ shadowed' \in SUBSET Key
    BY <1>4 DEF IInv, TypeOK
  <2> QED
    BY <1>3, <2>1, <2>2 DEF IInv, TypeOK
<1>7. Escaped'
  <2> SUFFICES ASSUME NEW q \in Key
               PROVE  \E st \in Style : first'[q] = Escape(typed'[q], st)
    BY DEF Escaped
  <2>1. CASE q = k /\ k \notin given
    BY <1>5, <2>1
  <2>2. CASE ~(q = k /\ k \notin given)
    BY <1>5, <2>2 DEF IInv, Escaped
  <2> QED
    BY <2>1, <2>2
<1> HIDE DEF e
<1>8. Parsed'
  <2> SUFFICES ASSUME NEW q \in Key \ shadowed
               PROVE  IF q \in given' THEN Located(target', q, first'[q])
                      ELSE first'[q] = <<>> /\ Absent(target', q)
    BY <1>4 DEF Parsed
  <2>1. IF q \in given THEN Located(target, q, first[q])
        ELSE first[q] = <<>> /\ Absent(target, q)
    BY DEF IInv, Parsed
  <2>2. CASE q = k /\ k \notin given
    <3>1. first'[q] = e /\ Located(target', k, e) /\ q \in given'
      BY <1>3, <1>4, <1>5, <2>1, <2>2
    <3> QED
      BY <2>2, <3>1
  <2>3. CASE q \in given
    <3>1. first'[q] = first[q] /\ q \in given'
      BY <1>4, <1>5, <2>3
    <3> QED
      BY <1>3, <2>1, <2>3, <3>1
  <2>4. CASE q # k /\ q \notin given
    <3>1. first'[q] = first[q] /\ q \notin given'
      BY <1>4, <1>5, <2>4
    <3> QED
      BY <1>3, <2>1, <2>4, <3>1
  <2> QED
    BY <2>2, <2>3, <2>4
<1>9. Counted' /\ FieldsFound' /\ Asked'
  BY <1>3 DEF Counted, FieldsFound, Asked
<1> QED
  BY <1>3, <1>6, <1>7, <1>8, <1>9 DEF IInv

LEMMA AddOtherStep ==
  ASSUME IInv, NEW k \in Key, AddOther(k)
  PROVE  IInv'
<1>1. PICK text \in Texts, style \in Style :
        AddParam(Param(<<Raw(Prefix), Raw(k)>>, text, style))
  BY DEF AddOther
<1>2. /\ target' \in Seq(Symbol) /\ target' # <<>>
      /\ \A q \in Key : \A v : Located(target, q, v) => Located(target', q, v)
      /\ \A q \in Key \ {k} : Absent(target, q) => Absent(target', q)
      /\ Searched' /\ params' \in 0..MaxParams /\ params' # 0
      /\ at = "client" /\ UNCHANGED <<adr, query, at>>
  <2>1. <<Raw(Prefix)>> \in Prefixes /\ <<Raw(Prefix)>> \o <<Raw(k)>> = <<Raw(Prefix), Raw(k)>>
    <3>1. Raw(Prefix) \in Symbol /\ Raw(k) \in Symbol
      BY DEF Raw, Symbol, Char
    <3>2. <<Raw(Prefix)>> \in Prefixes
      BY DEF Prefixes
    <3> QED
      BY <3>1, <3>2, TwoTogether
  <2>2. AddParam(Param(<<Raw(Prefix)>> \o <<Raw(k)>>, text, style))
    BY <1>1, <2>1
  <2> QED
    BY <2>1, <2>2, ParamAdded
<1>3. /\ shadowed' = IF k \in given THEN shadowed ELSE shadowed \cup {k}
      /\ UNCHANGED <<typed, first, given>>
  BY DEF AddOther
<1>4. TypeOK'
  BY <1>2, <1>3 DEF IInv, TypeOK
<1>5. Parsed'
  <2> SUFFICES ASSUME NEW q \in Key \ shadowed'
               PROVE  IF q \in given THEN Located(target', q, first[q])
                      ELSE first[q] = <<>> /\ Absent(target', q)
    BY <1>3 DEF Parsed
  <2>1. q \in Key \ shadowed /\ (q = k => q \in given)
    BY <1>3
  <2>2. IF q \in given THEN Located(target, q, first[q])
        ELSE first[q] = <<>> /\ Absent(target, q)
    BY <2>1 DEF IInv, Parsed
  <2> QED
    BY <1>2, <2>1, <2>2
<1>6. Escaped' /\ Counted' /\ FieldsFound' /\ Asked'
  BY <1>2, <1>3 DEF IInv, Escaped, Counted, FieldsFound, Asked
<1> QED
  BY <1>2, <1>4, <1>5, <1>6 DEF IInv

LEMMA GetRequestStep ==
  ASSUME IInv, GetRequest
  PROVE  IInv'
<1>1. /\ adr' = [k \in Key |-> GetValue(target, k)]
      /\ at' = IF Empty(adr') THEN "error" ELSE "session"
      /\ UNCHANGED <<typed, first, given, shadowed, target, params, query>>
  BY DEF GetRequest
<1>2. ASSUME NEW k \in Key, Absent(target, k) PROVE GetValue(target, k) = <<>>
  <2>1. DOMAIN target \subseteq Nat
    BY DEF IInv, TypeOK
  <2> QED
    BY <1>2, <2>1 DEF GetValue, Absent
<1>3. adr' \in [Key -> Seq(Symbol)]
  <2> SUFFICES ASSUME NEW k \in Key PROVE GetValue(target, k) \in Seq(Symbol)
    BY <1>1
  <2>1. CASE Absent(target, k)
    <3>1. GetValue(target, k) = <<>>
      BY <1>2, <2>1
    <3> QED
      BY <3>1
  <2>2. ASSUME NEW v \in Seq(Symbol), Located(target, k, v) PROVE GetValue(target, k) = v
    BY <2>2, LocatedIsFound DEF IInv, TypeOK
  <2> QED
    BY <2>1, <2>2 DEF IInv, Searched
<1>4. ASSUME NEW k \in Key \ shadowed PROVE GetValue(target, k) = first[k]
  BY <1>2, LocatedIsFound DEF IInv, TypeOK, Parsed
<1>5. TypeOK'
  BY <1>1, <1>3 DEF IInv, TypeOK, Empty
<1>6. Parsed' /\ Searched' /\ Escaped' /\ Counted'
  BY <1>1 DEF IInv, Parsed, Searched, Escaped, Counted
<1>7. FieldsFound' /\ Asked'
  BY <1>1, <1>4 DEF FieldsFound, Asked
<1> QED
  BY <1>5, <1>6, <1>7 DEF IInv

LEMMA GetUrlStep ==
  ASSUME IInv, GetUrl
  PROVE  IInv'
<1>1. /\ at = "session" /\ at' = "geocoder" /\ query' = url_encode(Joined(adr))
      /\ UNCHANGED <<typed, first, given, shadowed, target, params, adr>>
  BY DEF GetUrl
<1>2. Joined(adr) \in Seq(Symbol)
  <2>1. /\ adr["city"] \in Seq(Symbol) /\ adr["street"] \in Seq(Symbol)
        /\ adr["house"] \in Seq(Symbol)
    BY DEF IInv, TypeOK, Key
  <2>2. <<Raw("+")>> \in Seq(Symbol)
    <3>1. Raw("+") \in Symbol
      BY Classes DEF Raw, Symbol
    <3> QED
      BY <3>1
  <2> QED
    BY <2>1, <2>2, Concatenation DEF Joined
<1>3. query' \in Seq(Symbol)
  BY <1>1, <1>2, EncodeType
<1>4. TypeOK'
  BY <1>1, <1>3 DEF IInv, TypeOK
<1>5. Parsed' /\ Searched' /\ Escaped' /\ Counted'
  BY <1>1 DEF IInv, Parsed, Searched, Escaped, Counted
<1>6. FieldsFound' /\ Asked'
  BY <1>1 DEF IInv, FieldsFound, Asked
<1> QED
  BY <1>4, <1>5, <1>6 DEF IInv

LEMMA NextIInv == IInv /\ [Next]_vars => IInv'
<1> SUFFICES ASSUME IInv, [Next]_vars PROVE IInv'
  OBVIOUS
<1>1. ASSUME NEW k \in Key, AddField(k) PROVE IInv'
  BY <1>1, AddFieldStep
<1>2. ASSUME NEW k \in Key, AddOther(k) PROVE IInv'
  BY <1>2, AddOtherStep
<1>3. CASE GetRequest
  BY <1>3, GetRequestStep
<1>4. CASE GetNothing
  BY <1>4 DEF GetNothing, NoFields, IInv, TypeOK, Parsed, Searched, Escaped, Counted,
                    FieldsFound, Asked
<1>5. CASE GetUrl
  BY <1>5, GetUrlStep
<1>6. CASE UNCHANGED vars
  BY <1>6 DEF vars, IInv, TypeOK, Parsed, Searched, Escaped, Counted,
                    FieldsFound, Asked
<1> QED
  BY <1>1, <1>2, <1>3, <1>4, <1>5, <1>6 DEF Next

\* The invariant holds in every state.
THEOREM Invariance == Spec => []IInv
<1> QED
  BY InitIInv, NextIInv, PTL DEF Spec

\* The variables keep their types, and the geocoder is asked about complete
\* addresses only.
THEOREM TypeCorrect == Spec => []TypeOK
<1>1. IInv => TypeOK
  BY DEF IInv
<1> QED
  BY <1>1, Invariance, PTL

\* GetValue finds the fields that no other name shadows, whatever the texts are and
\* however many parameters there are (HttpSession.cpp:22-41).
THEOREM Found == Spec => []FieldsFound
<1>1. IInv => FieldsFound
  BY DEF IInv
<1> QED
  BY <1>1, Invariance, PTL

-----------------------------------------------------------------------------
(* What the geocoder reads. *)

LEMMA JoinedType ==
  ASSUME NEW a \in [Key -> Seq(Symbol)]
  PROVE  Joined(a) \in Seq(Symbol)
<1>1. a["city"] \in Seq(Symbol) /\ a["street"] \in Seq(Symbol) /\ a["house"] \in Seq(Symbol)
  BY DEF Key
<1>2. <<Raw("+")>> \in Seq(Symbol)
  <2>1. Raw("+") \in Symbol
    BY Classes DEF Raw, Symbol
  <2> QED
    BY <2>1
<1> QED
  BY <1>1, <1>2, Concatenation DEF Joined

\* What was escaped by the session's client is escaped once more, and nothing of it
\* acts in the query (Common.cpp:40-93, YanCoor.cpp:25-34).
THEOREM ReadBack == Spec => []QueryReadsBack
<1>1. ASSUME IInv, at = "geocoder"
      PROVE  LET d == url_decode(query)
             IN  /\ DOMAIN d = DOMAIN Joined(adr)
                 /\ \A i \in DOMAIN Joined(adr) : ~Byte(Joined(adr)[i]) => d[i] = Joined(adr)[i]
  <2>1. Joined(adr) \in Seq(Symbol)
    BY <1>1, JoinedType DEF IInv, TypeOK
  <2>2. query = url_encode(Joined(adr))
    BY <1>1 DEF IInv, Asked
  <2> QED
    BY <2>1, <2>2, DecodeEncode
<1>2. ASSUME NEW x, x \notin High \X {0}, x \in Symbol PROVE ~Byte(x)
  BY <1>2 DEF Byte, Symbol
<1>3. IInv => QueryReadsBack
  <2> SUFFICES ASSUME IInv, at = "geocoder",
                      NEW i \in DOMAIN Joined(adr), Joined(adr)[i] \notin High \X {0}
               PROVE  url_decode(query)[i] = Joined(adr)[i]
    BY <1>1 DEF QueryReadsBack
  <2>1. Joined(adr)[i] \in Symbol
    <3>1. Joined(adr) \in Seq(Symbol)
      BY JoinedType DEF IInv, TypeOK
    <3> QED
      BY <3>1
  <2> QED
    BY <1>1, <1>2, <2>1
<1> QED
  BY <1>3, Invariance, PTL

Bytes(t) == \E i \in DOMAIN t : Byte(t[i])

LEMMA NoBytesJoined ==
  ASSUME NEW a \in [Key -> Seq(Symbol)], \A k \in Key : ~Bytes(a[k])
  PROVE  ~Bytes(Joined(a))
<1>1. <<Raw("+")>> \in Seq(Symbol) /\ ~Bytes(<<Raw("+")>>)
  <2>1. Raw("+") \in Symbol
    BY Classes DEF Raw, Symbol
  <2>2. ~Byte(Raw("+"))
    BY Classes DEF Raw, Byte
  <2> QED
    BY <2>1, <2>2 DEF Bytes
<1>2. ASSUME NEW b \in Seq(Symbol), NEW c \in Seq(Symbol), ~Bytes(b), ~Bytes(c)
      PROVE  b \o c \in Seq(Symbol) /\ ~Bytes(b \o c)
  <2> DEFINE d == b \o c
  <2>1. /\ d \in Seq(Symbol) /\ Len(d) = Len(b) + Len(c)
        /\ \A i \in 1..Len(b) : d[i] = b[i]
        /\ \A i \in 1..Len(c) : d[Len(b) + i] = c[i]
    BY Concatenation
  <2>2. Len(b) \in Nat /\ Len(c) \in Nat /\ DOMAIN b = 1..Len(b) /\ DOMAIN c = 1..Len(c)
    OBVIOUS
  <2> HIDE DEF d
  <2>3. DOMAIN d = 1..Len(d)
    BY <2>1
  <2>4. ASSUME NEW i \in 1..Len(d) PROVE ~Byte(d[i])
    <3>1. CASE i \in 1..Len(b)
      BY <1>2, <2>1, <2>2, <3>1 DEF Bytes
    <3>2. CASE i \notin 1..Len(b)
      <4>1. i - Len(b) \in 1..Len(c) /\ Len(b) + (i - Len(b)) = i
        BY <2>1, <2>2, <3>2
      <4>2. d[i] = c[i - Len(b)]
        BY <2>1, <4>1
      <4> QED
        BY <1>2, <2>2, <4>1, <4>2 DEF Bytes
    <3> QED
      BY <3>1, <3>2
  <2> QED
    BY <2>1, <2>3, <2>4 DEF Bytes, d
<1>3. /\ a["city"] \in Seq(Symbol) /\ ~Bytes(a["city"])
      /\ a["street"] \in Seq(Symbol) /\ ~Bytes(a["street"])
      /\ a["house"] \in Seq(Symbol) /\ ~Bytes(a["house"])
  BY DEF Key
<1> DEFINE b == a["city"] \o <<Raw("+")>>
           c == b \o a["street"]
           d == c \o <<Raw("+")>>
<1>4. b \in Seq(Symbol) /\ ~Bytes(b)
  BY <1>1, <1>2, <1>3
<1>5. c \in Seq(Symbol) /\ ~Bytes(c)
  BY <1>2, <1>3, <1>4
<1>6. d \in Seq(Symbol) /\ ~Bytes(d)
  BY <1>1, <1>2, <1>5
<1>7. ~Bytes(d \o a["house"])
  BY <1>2, <1>3, <1>6
<1> QED
  BY <1>7 DEF Joined

LEMMA PlainIsRead ==
  ASSUME NEW text \in Seq(Plain), NEW style \in Style
  PROVE  Escape(text, style) = Read(text) /\ ~Bytes(Escape(text, style))
<1> DEFINE e == Escape(text, style)
<1>1. DOMAIN e = DOMAIN text
  BY DEF Escape
<1>2. ASSUME NEW i \in DOMAIN text
      PROVE  e[i] = Raw(text[i]) /\ text[i] \notin High
  <2>1. text[i] \in Plain
    OBVIOUS
  <2>2. text[i] \notin High /\ text[i] # " "
    BY <2>1, Classes
  <2>3. e[i] = Raw(text[i])
    BY <2>1, <2>2 DEF Escape
  <2> QED
    BY <2>1, <2>2, <2>3
<1>3. e = Read(text)
  BY <1>1, <1>2 DEF Escape, Read
<1>4. ~Bytes(e)
  BY <1>1, <1>2 DEF Bytes, Byte, Raw
<1> QED
  BY <1>3, <1>4

\* An address that needs no escaping is the geocoder's address.
THEOREM Plainly == Spec => []PlainArrives
<1>1. ASSUME IInv, at = "geocoder", shadowed = {}, \A k \in Key : typed[k] \in Seq(Plain)
      PROVE  Arrives
  <2>1. \A k \in Key : adr[k] = first[k]
    BY <1>1 DEF IInv, FieldsFound
  <2>2. \A k \in Key : adr[k] = Read(typed[k]) /\ ~Bytes(adr[k])
    BY <1>1, <2>1, PlainIsRead DEF IInv, Escaped
  <2>3. Joined(adr) \in Seq(Symbol) /\ ~Bytes(Joined(adr))
    BY <1>1, <2>2, JoinedType, NoBytesJoined DEF IInv, TypeOK
  <2>4. url_decode(query) = Joined(adr)
    <3>1. query = url_encode(Joined(adr))
      BY <1>1 DEF IInv, Asked
    <3>2. Joined(adr) = [i \in DOMAIN Joined(adr) |-> Joined(adr)[i]]
      BY <2>3
    <3> QED
      BY <2>3, <3>1, <3>2, DecodeEncode DEF Bytes
  <2>5. url_decode(query) = Read(typed["city"]) \o <<Raw("+")>> \o Read(typed["street"])
                              \o <<Raw("+")>> \o Read(typed["house"])
    BY <2>2, <2>4 DEF Joined, Key
  <2> QED
    BY <2>5 DEF Arrives
<1>2. IInv => PlainArrives
  BY <1>1 DEF PlainArrives
<1> QED
  BY <1>2, Invariance, PTL

=============================================================================
