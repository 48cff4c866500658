-------------------------- MODULE ClassResolution --------------------------
(***************************************************************************)
(* What the declaration passes of the compiler promise, without saying how *)
(* or in which order: the classes of a file may be laid out in any order   *)
(* in which each comes after the ones it needs; a program is refused for   *)
(* an unknown type only when no class that is left can come next.          *)
(***************************************************************************)
CONSTANT Basis

VARIABLES
  waiting,   (* the declarations of the file that have no layout yet:      *)
             (* [name, needs, clash], and "at", which tells two apart      *)
  known,     (* the names of the types that have one                       *)
  verdict    (* "running", "accepted", "unknown" or "refused"              *)

vars == <<waiting, known, verdict>>

Ready(d) == d.needs \subseteq known
AtFault(d) == d.clash \/ d.name \in known \cup d.needs

Init == known = Basis /\ verdict = "running"

LayOut(d) ==
  /\ Ready(d) /\ ~AtFault(d)
  /\ known' = known \cup {d.name}
  /\ waiting' = waiting \ {d}
  /\ UNCHANGED verdict

(* The layout, or the constructor that goes with it, cannot be built.      *)
RefuseLayout(d) ==
  /\ Ready(d) /\ ~AtFault(d)
  /\ known' = known \cup {d.name}
  /\ verdict' = "refused"

RefuseDeclaration(d) ==
  /\ AtFault(d)
  /\ verdict' = "refused"
  /\ UNCHANGED known

Stuck ==
  /\ waiting # {}
  /\ \A d \in waiting : ~Ready(d)
  /\ verdict' = "unknown"
  /\ UNCHANGED known

(* With every class laid out, the rest of the compiler decides, and the    *)
(* next file may bring new declarations.                                   *)
Proceed ==
  /\ waiting = {}
  /\ UNCHANGED known

Next ==
  /\ verdict = "running"
  /\ \/ \E d \in waiting : LayOut(d) \/ RefuseLayout(d) \/ RefuseDeclaration(d)
     \/ Stuck
     \/ Proceed

Spec == Init /\ [][Next]_vars
=============================================================================
