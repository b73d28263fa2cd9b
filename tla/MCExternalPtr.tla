---- MODULE MCExternalPtr ----
(* ExternalPtr on a few objects, values and handles, all interchangeable. *)
EXTENDS ExternalPtr, TLC

CONSTANTS o1, o2, o3, v1, v2, v3, h1, h2, h3
MCObjects2 == {o1, o2}
MCObjects3 == {o1, o2, o3}
MCValues2  == {v1, v2}
MCValues3  == {v1, v2, v3}
MCHandles2 == {h1, h2}
MCHandles3 == {h1, h2, h3}
Symmetry   == Permutations(Objects) \cup Permutations(Values) \cup Permutations(Handles)

\* Bound of extptr_safety: two calls, one within the other, are followed while anybody
\* but their first handle has seen at most one object.
Bound == Len(calls) = 2 => Cardinality(shared) < 2
====
