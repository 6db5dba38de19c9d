--------------------------- MODULE ObjectVisibility ---------------------------
(***************************************************************************)
(* What a publisher of environment collisions promises a planner: the      *)
(* planner is shown objects, never one that a client asked to hide, and    *)
(* hiding an object takes it away at once.                                 *)
(***************************************************************************)
CONSTANTS Objects
VARIABLES hidden,   \* objects some client asked to hide
          shown     \* objects the planner is shown

Init == hidden = {} /\ shown = {}

Hide(o) ==
  /\ hidden' = hidden \cup {o}
  /\ shown' = shown \ {o}

(* Objects may be shown again; nothing forces them to reappear at once.    *)
Unhide(ids) ==
  /\ hidden' = hidden \ ids
  /\ UNCHANGED shown

Show(ids) ==
  /\ ids \cap hidden = {}
  /\ shown' = shown \cup ids
  /\ UNCHANGED hidden

(* The planner restarts and has to be shown everything again.              *)
Forget ==
  /\ shown' = {}
  /\ UNCHANGED hidden

Next ==
  \/ \E o \in Objects : Hide(o)
  \/ \E ids \in SUBSET Objects : Unhide(ids) \/ Show(ids)
  \/ Forget

Spec == Init /\ [][Next]_<<hidden, shown>>
=============================================================================
