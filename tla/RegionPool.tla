----------------------------- MODULE RegionPool -----------------------------
(***************************************************************************)
(* What a heap promises its callers, with no header, list or break in      *)
(* sight: disjoint regions of one range of units.  A request is answered   *)
(* with a free region that is long enough and wastes less than Waste, and  *)
(* refused only when no such region is left anywhere in the range, so free *)
(* memory is never cut into pieces smaller than it is.                     *)
(*                                                                         *)
(* BoundaryHeap (MemoryMngLib/MemoryMngV3A) is shown to implement it.      *)
(***************************************************************************)
EXTENDS Naturals

CONSTANTS
    HeapSize,       \* units of the heap
    Size,           \* the sizes that may be requested
    Need,           \* Need[n]: the units a request of size n takes
    Waste           \* an answer has fewer than Need[n] + Waste units

VARIABLES
    regions,        \* the pairs <<start, length>> in the callers' hands
    refused         \* the size of the request just refused, 0 otherwise

poolVars == <<regions, refused>>

Apart(r, s) == r[1] + r[2] <= s[1] \/ s[1] + s[2] <= r[1]

\* A region of the heap that shares no unit with one in a caller's hands.
Vacant(r) == r[1] + r[2] <= HeapSize /\ \A s \in regions : Apart(r, s)

Init == regions = {} /\ refused = 0

Take(n) ==
    /\ \E at \in 0..HeapSize, len \in Need[n]..(Need[n] + Waste) :
        /\ len < Need[n] + Waste
        /\ Vacant(<<at, len>>)
        /\ regions' = regions \cup {<<at, len>>}
    /\ refused' = 0

Refuse(n) ==
    /\ \A at \in 0..HeapSize : ~ Vacant(<<at, Need[n]>>)
    /\ refused' = n
    /\ UNCHANGED regions

Release(r) ==
    /\ regions' = regions \ {r}
    /\ refused' = 0

Reset == regions' = {} /\ refused' = 0

Next ==
    \/ \E n \in Size : Take(n) \/ Refuse(n)
    \/ \E r \in regions : Release(r)
    \/ Reset

Spec == Init /\ [][Next]_poolVars
=============================================================================
