---------------------------- MODULE AddressSpace ----------------------------
(***************************************************************************)
(* What the page tables promise: one flat map from virtual pages to page   *)
(* frames.  A step maps one page or unmaps one, a mapped page never        *)
(* silently moves to another frame, and no table can be seen.              *)
(***************************************************************************)
CONSTANTS Page, Frame

VARIABLE amap            \* the map, as a set of <<page, frame>>

Init == amap = {}

Pages(m) == {e[1] : e \in m}

\* A step from the map old to the map new.
Step(old, new) ==
  LET added   == new \ old
      removed == old \ new
  IN  \/ /\ removed = {}
         /\ \E e \in added : added = {e} /\ e[1] \in Page \ Pages(old) /\ e[2] \in Frame
      \/ /\ added = {}
         /\ \E e \in removed : removed = {e}

Next == Step(amap, amap')

Spec == Init /\ [][Next]_amap
=============================================================================
