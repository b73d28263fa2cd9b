---------------------------- MODULE MCGcProtect ----------------------------
(* Objects and places are interchangeable.                                 *)
EXTENDS GcProtect, TLC

Symmetry == Permutations(Objs) \cup Permutations(Guards)

\* Bound: a state with mishaps of three kinds is checked and not followed.
Mishaps == <<mixed, miscounted, tlsLost, clearedUnder, lostInGrow, busy>>
Bound == Cardinality({i \in DOMAIN Mishaps : Mishaps[i]}) <= 2
=============================================================================
