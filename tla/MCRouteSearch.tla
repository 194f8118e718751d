--------------------------- MODULE MCRouteSearch ---------------------------
(***************************************************************************)
(* Three sheets with a circuit through them; sheet A is where it begins.   *)
(*                                                                         *)
(*      A:  3 --r3-- 2 ==r1,r2== 1 --r4-- 9         10 --r7-- 2            *)
(*      B:  4 --r5-- 5 --r6-- 6            (4 is 3 seen from B)            *)
(*      C:  7 --r8-- 8                     (7 is 6, and 8 is 9)            *)
(***************************************************************************)
EXTENDS RouteSearch, TLC

MCEnds == 1 :> <<1, 2>> @@ 2 :> <<1, 2>> @@ 3 :> <<2, 3>> @@ 4 :> <<9, 1>>
          @@ 5 :> <<4, 5>> @@ 6 :> <<5, 6>> @@ 7 :> <<10, 2>> @@ 8 :> <<7, 8>>

MCRutList == 1 :> <<1, 2, 4>> @@ 2 :> <<2, 7, 1, 3>> @@ 3 :> <<3>> @@ 4 :> <<5>> @@ 5 :> <<5, 6>>
             @@ 6 :> <<6>> @@ 7 :> <<8>> @@ 8 :> <<8>> @@ 9 :> <<4>> @@ 10 :> <<7>>

MCSheetOf == [v \in 1..10 |-> CASE v \in {1, 2, 3, 9, 10} -> "A" [] v \in {4, 5, 6} -> "B" [] OTHER -> "C"]

MCAbut == 3 :> 5 @@ 4 :> 3 @@ 6 :> 8 @@ 7 :> 6 @@ 8 :> 4 @@ 9 :> 8

MCCost == 1 :> 3 @@ 2 :> 5 @@ 3 :> 1 @@ 4 :> 1 @@ 5 :> 2 @@ 6 :> 2 @@ 7 :> 1 @@ 8 :> 3

\* Vertex 10 is too far from everything.
MCPlace == 1 :> 1 @@ 2 :> 2 @@ 3 :> 3 @@ 4 :> 3 @@ 5 :> 4 @@ 6 :> 2 @@ 7 :> 2 @@ 8 :> 1 @@ 9 :> 1
           @@ 10 :> 9

BothWays == [r \in DOMAIN MCEnds |-> 0]

Plain == [dir |-> BothWays, junction |-> {}, residential |-> {}, always |-> {}, hours |-> {},
          sheets |-> {"A", "B", "C"}]

OneWays ==
    {[Plain EXCEPT !.dir = [BothWays EXCEPT ![1] = a, ![3] = b, ![5] = c, ![8] = d],
                   !.sheets = t] :
        a \in {0, 2}, b \in {0, 1}, c \in {0, 2}, d \in {0, 1},
        t \in {{"A", "B", "C"}, {"A", "B"}}}

Limits ==
    {[Plain EXCEPT !.junction = q, !.residential = m, !.always = a] :
        q \in {{1}, {3, 5}, {4, 8}}, m \in {{}, {2}}, a \in {{}, {<<4, 3>>}, {<<5, 6>>}}}

Hours == {[Plain EXCEPT !.residential = m, !.hours = {<<1, 3>>}] : m \in {{}, {2}}}

MCMaps == OneWays \cup Limits \cup Hours

\* The network is one the theorems about FoundIsADrive and DisconnectIsReal speak of.
ASSUME InstanceIsANetwork == LimitsStayInside /\ BorderPlaces
=============================================================================
