---------------------------- MODULE MCPickAndPlace ----------------------------
(***************************************************************************)
(* Small instances of PickAndPlace, one target and one pose of it, and the *)
(* spheres that stand for the target on the robot.                         *)
(***************************************************************************)
EXTENDS PickAndPlace, AttachmentSpheres

(* Every way to launch the node.                                           *)
AllConfigs == {c \in ConfigType : c.cumotion => c.backend = "moveit"}
CumotionConfig == {[backend |-> "moveit", cumotion |-> TRUE, queriesFail |-> FALSE]}
CumotionWithFailures == {[backend |-> "moveit", cumotion |-> TRUE, queriesFail |-> TRUE]}

(* The sequences that begin with nothing suppressed by an earlier one:     *)
(* whatever is suppressed at the end, this sequence has asked for.         *)
FreshInit == Init /\ suppressed = {}
FreshSpec == FreshInit /\ [][Next]_vars

-----------------------------------------------------------------------------
(* Five millimetres are the unit: the parts of an object are boxes,        *)
(* cylinders, spheres and meshes of 30 to 90 mm, and what cannot be read.  *)
Turned(p, turn) == [at |-> p, quat |-> turn]
Part(type, dimensions, posed, place) ==
  [type |-> type, dimensions |-> dimensions, vertices |-> {}, posed |-> posed, pose |-> place, readable |-> TRUE]
Parts ==
  {Part("box", size, posed, Turned(<<3, 0, 6>>, 1)) :
     size \in {<<6, 6, 6>>, <<6, 6, 18>>}, posed \in BOOLEAN}
  \cup {Part("cylinder", <<height, 3>>, TRUE, Turned(<<0, 0, 3>>, 1)) : height \in {6, 12}}
  \cup {Part("sphere", <<3>>, TRUE, Turned(<<0, 0, 0>>, 0)),
        Part("cone", <<3, 3>>, TRUE, Turned(<<0, 0, 0>>, 0)),
        Part("box", <<3>>, TRUE, Turned(<<0, 0, 0>>, 0)),
        [Part("mesh", <<>>, TRUE, Turned(<<3, 0, 0>>, 1))
           EXCEPT !.vertices = {<<0, 0, 0>>, <<6, 0, 0>>, <<0, 12, 6>>}]}
Placement == Turned(<<0, 2, 3>>, 3)

(* What comes out for parts of an object.                                  *)
Outcome(parts, diameter, least, most) ==
  [specs |-> SpecsFromSnapshot(parts), least |-> least, most |-> most,
   balls |-> CumotionSpheres(parts, Placement, diameter, least, most)]
OutcomesOfTwo ==
  {Outcome(<<one, two>>, diameter, 8, 12) : one \in Parts, two \in Parts, diameter \in {3, 6}}
OutcomesOfOne ==
  {Outcome(<<one>>, diameter, least, most) :
     one \in Parts, diameter \in {2, 3, 6}, least \in {1, 8}, most \in {8, 12, 32}}

(* The spheres of the parts of an object, for cuMotion: as many as asked   *)
(* for at most, each with its centre in a part, and when none was left     *)
(* out, every point of a box is in one of them. Alone, a sphere is filled  *)
(* without one that protrudes.                                             *)
SpheresFill(o) ==
  /\ (o.specs = <<>>) = (o.balls = <<>>)
  /\ Len(o.balls) <= Larger(o.least, o.most)
  /\ \A m \in DOMAIN o.balls : \E i \in DOMAIN o.specs :
       InShape(o.balls[m], o.specs[i], Placement)
  /\ Len(o.balls) < o.most => \A i \in DOMAIN o.specs : o.specs[i].type = "box" =>
       \A p \in BoxPoints(o.specs[i], Placement) : CoveredBy(o.balls, p)
  /\ DOMAIN o.specs = {1} /\ o.specs[1].type = "sphere" =>
       \A m \in DOMAIN o.balls : Fits(o.balls[m], o.specs[1], Placement)

(* For cuRobo there is one at least, within a file that cannot be read     *)
(* too, and the same ones when the file says what the scene says.          *)
Tracked(parts, diameter, least, most) ==
  TrackerSpheres([parses |-> TRUE, shapes |-> parts], Placement, diameter, least, most)
TrackerAgrees(part, diameter, least, most) ==
  /\ \A parts \in {<<>>, <<part>>, <<[part EXCEPT !.readable = FALSE]>>} :
       Tracked(parts, diameter, least, most) # <<>>
  /\ part.posed /\ SpecsFromSnapshot(<<part>>) # <<>> =>
       Tracked(<<part>>, diameter, least, most) = Outcome(<<part>>, diameter, least, most).balls

CarriedIsSpheres ==
  /\ \A o \in OutcomesOfTwo \cup OutcomesOfOne : SpheresFill(o)
  /\ \A one \in Parts, diameter \in {2, 3, 6}, least \in {1, 8}, most \in {8, 12, 32} :
       one.dimensions # <<3>> \/ one.type = "sphere" => TrackerAgrees(one, diameter, least, most)

(* While a robot carries the target, as far as cuRobo or cuMotion knows,   *)
(* the spheres it carries stand for the target: no more than asked for,    *)
(* none outside it, all of a box while none was left out, and never none   *)
(* because of what one part looks like (_build_target_object_attachment_   *)
(* spheres, _build_sphere_data, sphere_builder).                           *)
CarriedIsTheTarget == spheres \/ cumotionSpheres => CarriedIsSpheres
=============================================================================
