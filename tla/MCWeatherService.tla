------------------------- MODULE MCWeatherService -------------------------
(***************************************************************************)
(* Values of WeatherService's constants for TLC.  Places lie on a grid at  *)
(* 60 degrees of latitude, where a step north is twice as many metres as a *)
(* step east; distances are squared, which keeps their order.              *)
(***************************************************************************)
EXTENDS WeatherService, Integers, TLC

CONSTANTS home, road, square, null, a1, a2, a3, s1, s2

\* In half steps from home: road is a step north of it, square a step and a half
\* east, and null far away on the equator.
Lat == home :> 0 @@ road :> 2 @@ square :> 0 @@ null :> -60
Lon == home :> 0 @@ road :> 0 @@ square :> 3 @@ null :> 0

Sq(n) == n * n
DegreesOnGrid ==
  [c \in Coor |-> [d \in Coor |-> Sq(Lat[c] - Lat[d]) + Sq(Lon[c] - Lon[d])]]
MetresOnGrid ==
  [c \in Coor |-> [d \in Coor |-> Sq(2 * (Lat[c] - Lat[d])) + Sq(Lon[c] - Lon[d])]]

\* Two addresses, each of which may be answered with either of two places.
TwoAddresses == a1 :> {home, null} @@ a2 :> {road, square}
OneAddress == a1 :> {home}
HomeAndSquare == a1 :> {home} @@ a2 :> {square}
\* Three neighbouring addresses.
ThreeAddresses == a1 :> {home} @@ a2 :> {road} @@ a3 :> {square}

Symmetry == Permutations(Session)

=============================================================================
