---------------------------- MODULE ObstacleStore ----------------------------
(***************************************************************************)
(* The obstacles of a planner and their one publisher, if requests took no *)
(* time: the publisher adds what it does not know to be there, moves and   *)
(* removes what it does, and what it knows changes with the obstacles.     *)
(***************************************************************************)
CONSTANTS Names, Specs, Poses,
          Nothing,  \* no obstacle
          Unknown   \* an obstacle, nobody knows how
VARIABLES world,    \* the obstacles there are
          known     \* what the publisher knows of them

States == [spec : Specs, pose : Poses]
NoneOf == [n \in Names |-> Nothing]

Init == world = NoneOf /\ known = NoneOf

(* An obstacle that is there already stays as it is.                       *)
Add(n, state) ==
  /\ known[n] = Nothing
  /\ IF world[n] = Nothing
     THEN world' = [world EXCEPT ![n] = state] /\ known' = [known EXCEPT ![n] = state]
     ELSE known' = [known EXCEPT ![n] = Unknown] /\ UNCHANGED world

Remove(n) ==
  /\ known[n] # Nothing
  /\ world' = [world EXCEPT ![n] = Nothing] /\ known' = [known EXCEPT ![n] = Nothing]

(* All of a batch move, none of them is missed.  They keep their geometry. *)
Move(batch, to) ==
  /\ \A n \in batch : known[n] # Nothing
  /\ known' = [n \in Names |-> IF n \in batch THEN to[n] ELSE known[n]]
  /\ world' = [n \in Names |-> IF n \in batch THEN [world[n] EXCEPT !.pose = to[n].pose]
                                              ELSE world[n]]

(* The publisher is replaced by one that knows nothing.                    *)
Forget == known' = NoneOf /\ UNCHANGED world

Next ==
  \/ \E n \in Names : Remove(n) \/ \E state \in States : Add(n, state)
  \/ \E batch \in SUBSET Names, to \in [Names -> States] : Move(batch, to)
  \/ Forget

Spec == Init /\ [][Next]_<<world, known>>
=============================================================================
