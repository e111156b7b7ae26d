------------------------------ MODULE VmeSpec ------------------------------
(***************************************************************************)
(* What protect, map and unprotect of the x86-qemu machine promise: every  *)
(* address space is a partial function from user pages to frames with a    *)
(* write permission, and no operation on one address space is felt in      *)
(* another.                                                                *)
(***************************************************************************)
CONSTANTS
  Space,     \* address spaces
  UserPage,  \* virtual pages of the user area
  Frame      \* physical pages clients map

VARIABLES
  active,  \* the address spaces between protect and unprotect
  view     \* view[s][v]: the mapping of page v in space s, or nothing

vars == <<active, view>>

Nothing == [v \in UserPage |-> {}]

Init ==
  /\ active = {}
  /\ view = [s \in Space |-> Nothing]

Protect(s) ==
  /\ s \notin active
  /\ active' = active \cup {s}
  /\ UNCHANGED view

\* Page v of space s becomes x and nothing else changes.  The first conjunct
\* follows from the second and spares TLC most of the comparisons.
Becomes(s, v, x) ==
  /\ view'[s][v] = x
  /\ view' = [view EXCEPT ![s][v] = x]
  /\ UNCHANGED active

Map(s) ==
  \E v \in UserPage, f \in Frame, w \in BOOLEAN :
    /\ s \in active
    /\ view[s][v] = {}
    /\ Becomes(s, v, {[frame |-> f, write |-> w]})

Unmap(s) ==
  \E v \in UserPage :
    /\ s \in active
    /\ view[s][v] # {}
    /\ Becomes(s, v, {})

Unprotect(s) ==
  /\ s \in active
  /\ active' = active \ {s}
  /\ view' = [view EXCEPT ![s] = Nothing]

Next == \E s \in Space : Protect(s) \/ Map(s) \/ Unmap(s) \/ Unprotect(s)

Spec == Init /\ [][Next]_vars
=============================================================================
