-------------------------- MODULE WorldBridge_proofs --------------------------
(***************************************************************************)
(* Theorems about WorldBridge, for any objects, obstacles, geometries and  *)
(* limits: no two requests in flight concern the same obstacle, and the    *)
(* bridge never believes in an obstacle that is not there.  That requests  *)
(* are served late and answered later still does not show.                 *)
(***************************************************************************)
EXTENDS WorldBridge, TLAPS

(* What each request in flight relies on.  An ADD is in flight only for    *)
(* what the bridge believes unpublished, anything else only for what it    *)
(* believes published; nothing fails except an ADD.                        *)
Sound(op) ==
  /\ op.type \in {"add", "remove"} => \E n \in Names : DOMAIN op.want = {n}
  /\ \A n \in DOMAIN op.want :
       /\ op.type = "add" => signatures[n] = Nothing /\ op.want[n] \in States
       /\ op.type = "remove" => signatures[n] # Nothing /\ op.want[n] = Nothing
       /\ op.type = "move" => signatures[n] # Nothing /\ op.want[n] \in States
  /\ op.answer \in {"none", "ok", "exists", "failed"}
  /\ op.answer \in {"exists", "failed"} => op.type = "add"

RequestsSound == \A op \in inflight : Sound(op)

(* Until the bridge restarts there is only its own geometry about, so a    *)
(* MOVE, which replaces none, still leaves what it was asked for.          *)
OwnGeometry ==
  restarts = 0 =>
    /\ \A n \in Names : world[n] # Nothing => world[n].spec = spec
    /\ \A op \in inflight : \A n \in DOMAIN op.want :
         op.want[n] # Nothing => op.want[n].spec = spec

IInv ==
  TypeOK /\ OneOperationPerObstacle /\ RequestsSound /\ OwnGeometry /\ BeliefIsTrue

-----------------------------------------------------------------------------
(* The shape of a request.                                                 *)
LEMMA OperationShape ==
  ASSUME NEW op \in Operations
  PROVE  /\ DOMAIN op.want \subseteq Names
         /\ \A n \in DOMAIN op.want : op.want[n] \in States \cup {Nothing}
         /\ op.type \in {"add", "remove", "move"}
         /\ op.answer \in {"none", "ok", "exists", "failed"}
<1>1. op.want \in UNION {[S -> States \cup {Nothing}] : S \in SUBSET Names}
  BY DEF Operations
<1>2. PICK S \in SUBSET Names : op.want \in [S -> States \cup {Nothing}]
  BY <1>1
<1> QED BY <1>2 DEF Operations

LEMMA RequestShape ==
  ASSUME TypeOK, NEW t \in {"add", "remove", "move"}, NEW ns \in SUBSET Names,
         t = "remove" \/ ns \subseteq Desired
  PROVE  /\ Request(t, ns) \in Operations
         /\ Request(t, ns).type = t /\ Request(t, ns).answer = "none"
         /\ DOMAIN Request(t, ns).want = ns
         /\ \A n \in ns : Request(t, ns).want[n] = IF t = "remove" THEN Nothing ELSE Wanted(n)
         /\ t # "remove" => \A n \in ns : Wanted(n) \in States
<1> DEFINE w == [n \in ns |-> IF t = "remove" THEN Nothing ELSE Wanted(n)]
<1>1. t # "remove" => \A n \in ns : Wanted(n) \in States
  BY FrameAssumption DEF TypeOK, Desired, Wanted, States
<1>2. w \in [ns -> States \cup {Nothing}]
  BY <1>1
<1>3. w \in UNION {[S -> States \cup {Nothing}] : S \in SUBSET Names}
  BY <1>2
<1>4. Request(t, ns) = [type |-> t, want |-> w, answer |-> "none"]
  BY DEF Request, Operation
<1> HIDE DEF w
<1>5. Request(t, ns) \in Operations
  BY <1>3, <1>4 DEF Operations
<1> QED BY <1>1, <1>4, <1>5 DEF w

(* What polling makes of an obstacle: the one answer there is, or what the *)
(* bridge believed before; now, and after a step.                          *)
LEMMA PolledAnswer ==
  ASSUME OneOperationPerObstacle, NEW n \in Names, NEW op \in inflight,
         op.answer # "none", n \in DOMAIN op.want
  PROVE  Polled[n] = Learned(op, n)
<1> DEFINE a == CHOOSE q \in Answered : n \in DOMAIN q.want
<1>1. op \in Answered /\ Answered \subseteq inflight
  BY DEF Answered
<1>2. a \in Answered /\ n \in DOMAIN a.want
  BY <1>1
<1>3. a = op
  BY <1>1, <1>2 DEF OneOperationPerObstacle
<1>4. Polled[n] = Learned(a, n)
  BY <1>1 DEF Polled
<1> QED BY <1>3, <1>4

LEMMA PolledBefore ==
  ASSUME NEW n \in Names, \A op \in inflight : n \in DOMAIN op.want => op.answer = "none"
  PROVE  Polled[n] = signatures[n]
BY DEF Polled, Answered

LEMMA PolledAnswerNext ==
  ASSUME OneOperationPerObstacle', NEW n \in Names, NEW op \in inflight',
         op.answer # "none", n \in DOMAIN op.want
  PROVE  Polled'[n] = Learned(op, n)'
<1> DEFINE a == CHOOSE q \in Answered' : n \in DOMAIN q.want
<1>1. op \in Answered' /\ Answered' \subseteq inflight'
  BY DEF Answered
<1>2. a \in Answered' /\ n \in DOMAIN a.want
  BY <1>1
<1>3. a = op
  BY <1>1, <1>2 DEF OneOperationPerObstacle
<1>4. Polled'[n] = IF a.answer = "ok" THEN a.want[n]
                   ELSE IF a.answer = "exists" THEN Unknown ELSE signatures'[n]
  BY <1>1 DEF Polled, Learned
<1> QED BY <1>3, <1>4 DEF Learned

LEMMA PolledBeforeNext ==
  ASSUME NEW n \in Names, \A op \in inflight' : n \in DOMAIN op.want => op.answer = "none"
  PROVE  Polled'[n] = signatures'[n]
BY DEF Polled, Answered

LEMMA PolledType ==
  ASSUME TypeOK
  PROVE  Polled \in [Names -> States \cup {Nothing, Unknown}]
<1> SUFFICES ASSUME NEW n \in Names PROVE Polled[n] \in States \cup {Nothing, Unknown}
  BY DEF Polled
<1>1. CASE \E op \in Answered : n \in DOMAIN op.want
  <2>1. PICK a \in Answered : n \in DOMAIN a.want /\ Polled[n] = Learned(a, n)
    BY <1>1 DEF Polled
  <2>2. a \in Operations
    BY DEF Answered, TypeOK
  <2> QED BY <2>1, <2>2, OperationShape DEF Learned, TypeOK
<1>2. CASE ~ \E op \in Answered : n \in DOMAIN op.want
  BY <1>2 DEF Polled, TypeOK
<1> QED BY <1>1, <1>2

LEMMA PolledTypeNext ==
  ASSUME TypeOK'
  PROVE  Polled' \in [Names -> States \cup {Nothing, Unknown}]
<1> SUFFICES ASSUME NEW n \in Names PROVE Polled'[n] \in States \cup {Nothing, Unknown}
  BY DEF Polled
<1>1. CASE \E op \in Answered' : n \in DOMAIN op.want
  <2>1. PICK a \in Answered' : n \in DOMAIN a.want /\ Polled'[n] = Learned(a, n)'
    BY <1>1 DEF Polled, Learned
  <2>2. a \in Operations
    BY DEF Answered, TypeOK
  <2> QED BY <2>1, <2>2, OperationShape DEF Learned, TypeOK
<1>2. CASE ~ \E op \in Answered' : n \in DOMAIN op.want
  BY <1>2 DEF Polled, TypeOK
<1> QED BY <1>1, <1>2

-----------------------------------------------------------------------------
(* Serving a request changes nothing but its answer and what polling makes *)
(* of its own obstacles.                                                   *)
LEMMA Served ==
  ASSUME IInv, NEW op \in inflight, op.answer = "none",
         NEW a \in {"ok", "exists", "failed"}, a # "ok" => op.type = "add",
         Answer(op, a), UNCHANGED signatures
  PROVE  /\ inflight' \in SUBSET Operations
         /\ OneOperationPerObstacle'
         /\ RequestsSound'
         /\ \A n \in DOMAIN op.want : Polled[n] = signatures[n]
         /\ \A n \in DOMAIN op.want :
              Polled'[n] = IF a = "ok" THEN op.want[n]
                           ELSE IF a = "exists" THEN Unknown ELSE signatures[n]
         /\ \A n \in Names \ DOMAIN op.want : Polled'[n] = Polled[n]
         /\ \A q \in inflight' : \E r \in inflight : q.want = r.want
<1> USE DEF IInv
<1> DEFINE done == [op EXCEPT !.answer = a]
<1>1. op \in Operations /\ DOMAIN op.want \subseteq Names
  BY OperationShape DEF TypeOK
<1>2. done \in Operations /\ done.want = op.want /\ done.type = op.type /\ done.answer = a
  BY <1>1 DEF Operations
<1>3. inflight' = (inflight \ {op}) \cup {done}
  BY DEF Answer
<1> HIDE DEF done
<1>4. inflight' \in SUBSET Operations
  BY <1>2, <1>3 DEF TypeOK
<1>5. OneOperationPerObstacle'
  <2> SUFFICES ASSUME NEW x \in inflight', NEW y \in inflight', x # y
               PROVE  DOMAIN x.want \cap DOMAIN y.want = {}
    BY DEF OneOperationPerObstacle
  <2>1. CASE x = done
    BY <1>2, <1>3, <2>1 DEF OneOperationPerObstacle
  <2>2. CASE y = done
    BY <1>2, <1>3, <2>2 DEF OneOperationPerObstacle
  <2>3. CASE x # done /\ y # done
    BY <1>3, <2>3 DEF OneOperationPerObstacle
  <2> QED BY <2>1, <2>2, <2>3
<1>6. RequestsSound'
  <2> SUFFICES ASSUME NEW q \in inflight' PROVE Sound(q)'
    BY DEF RequestsSound
  <2>1. CASE q = done
    <3>1. Sound(op)
      BY DEF RequestsSound
    <3> QED BY <1>2, <2>1, <3>1 DEF Sound
  <2>2. CASE q # done
    <3>1. Sound(q)
      BY <1>3, <2>2 DEF RequestsSound
    <3> QED BY <3>1 DEF Sound
  <2> QED BY <2>1, <2>2
<1>7. \A n \in DOMAIN op.want : Polled[n] = signatures[n]
  <2> SUFFICES ASSUME NEW n \in DOMAIN op.want PROVE Polled[n] = signatures[n]
    OBVIOUS
  <2>1. \A q \in inflight : n \in DOMAIN q.want => q.answer = "none"
    BY DEF OneOperationPerObstacle
  <2> QED BY <1>1, <2>1, PolledBefore
<1>8. \A n \in DOMAIN op.want :
        Polled'[n] = IF a = "ok" THEN op.want[n]
                     ELSE IF a = "exists" THEN Unknown ELSE signatures[n]
  <2> SUFFICES ASSUME NEW n \in DOMAIN op.want
               PROVE  Polled'[n] = IF a = "ok" THEN op.want[n]
                                   ELSE IF a = "exists" THEN Unknown ELSE signatures[n]
    OBVIOUS
  <2>1. Polled'[n] = Learned(done, n)'
    <3>1. n \in Names /\ done \in inflight' /\ done.answer # "none" /\ n \in DOMAIN done.want
      BY <1>1, <1>2, <1>3
    <3> QED BY <1>5, <3>1, PolledAnswerNext
  <2> QED BY <1>2, <2>1 DEF Learned
<1>9. \A n \in Names \ DOMAIN op.want : Polled'[n] = Polled[n]
  <2> SUFFICES ASSUME NEW n \in Names, n \notin DOMAIN op.want PROVE Polled'[n] = Polled[n]
    OBVIOUS
  <2>1. CASE \E q \in inflight : n \in DOMAIN q.want /\ q.answer # "none"
    <3>1. PICK q \in inflight : n \in DOMAIN q.want /\ q.answer # "none"
      BY <2>1
    <3>2. q \in inflight'
      BY <1>3, <3>1
    <3>3. Polled[n] = Learned(q, n)
      BY <3>1, PolledAnswer
    <3>4. Polled'[n] = Learned(q, n)'
      BY <1>5, <3>1, <3>2, PolledAnswerNext
    <3> QED BY <3>3, <3>4 DEF Learned
  <2>2. CASE ~ \E q \in inflight : n \in DOMAIN q.want /\ q.answer # "none"
    <3>1. Polled[n] = signatures[n]
      BY <2>2, PolledBefore
    <3>2. \A q \in inflight' : n \in DOMAIN q.want => q.answer = "none"
      BY <1>2, <1>3, <2>2
    <3>3. Polled'[n] = signatures'[n]
      BY <3>2, PolledBeforeNext
    <3> QED BY <3>1, <3>3
  <2> QED BY <2>1, <2>2
<1>10. \A q \in inflight' : \E r \in inflight : q.want = r.want
  BY <1>2, <1>3
<1> QED BY <1>4, <1>5, <1>6, <1>7, <1>8, <1>9, <1>10

-----------------------------------------------------------------------------
(* The planner serves an ADD: unless the bridge has restarted it cannot be *)
(* a duplicate.                                                            *)
LEMMA ServeAddKeeps ==
  ASSUME IInv, NEW op \in inflight, ServeAdd(op) PROVE IInv'
<1> USE DEF IInv
<1>1. PICK n \in Names : DOMAIN op.want = {n}
  BY DEF ServeAdd, RequestsSound, Sound
<1>2. signatures[n] = Nothing /\ op.want[n] \in States
  BY <1>1 DEF ServeAdd, RequestsSound, Sound
<1>3. op.answer = "none" /\ op.type = "add" /\ UNCHANGED <<pose, spec, suppressed, signatures, restarts>>
  BY DEF ServeAdd
<1>4. CASE world[n] # Nothing
  <2>1. Answer(op, "exists") /\ UNCHANGED world
    BY <1>1, <1>4 DEF ServeAdd
  <2>2. /\ inflight' \in SUBSET Operations
        /\ OneOperationPerObstacle'
        /\ RequestsSound'
        /\ Polled[n] = Nothing
        /\ Polled'[n] = Unknown
        /\ \A m \in Names \ {n} : Polled'[m] = Polled[m]
        /\ \A q \in inflight' : \E r \in inflight : q.want = r.want
    BY <1>1, <1>2, <1>3, <2>1, Served
  <2>3. restarts # 0
    BY <1>4, <2>2 DEF BeliefIsTrue, KnowsTheWorld
  <2>4. TypeOK'
    BY <1>3, <2>1, <2>2 DEF TypeOK
  <2>5. NothingImagined'
    BY <1>4, <2>1, <2>2 DEF BeliefIsTrue, NothingImagined
  <2> QED BY <1>3, <2>2, <2>3, <2>4, <2>5 DEF OwnGeometry, BeliefIsTrue, KnowsTheWorld
<1>5. CASE world[n] = Nothing
  <2>1. Answer(op, "ok") /\ world' = [world EXCEPT ![n] = op.want[n]]
    BY <1>1, <1>5 DEF ServeAdd
  <2>2. /\ inflight' \in SUBSET Operations
        /\ OneOperationPerObstacle'
        /\ RequestsSound'
        /\ Polled'[n] = op.want[n]
        /\ \A m \in Names \ {n} : Polled'[m] = Polled[m]
        /\ \A q \in inflight' : \E r \in inflight : q.want = r.want
    BY <1>1, <1>3, <2>1, Served
  <2>3. /\ world' \in [Names -> States \cup {Nothing}]
        /\ world'[n] = op.want[n]
        /\ \A m \in Names \ {n} : world'[m] = world[m]
    BY <1>2, <2>1 DEF TypeOK
  <2>4. TypeOK'
    BY <1>3, <2>2, <2>3 DEF TypeOK
  <2>5. op.want[n] # Nothing
    BY <1>2, ValuesAssumption
  <2>6. NothingImagined'
    <3> SUFFICES ASSUME NEW m \in Names, Polled'[m] # Nothing
                 PROVE  /\ world'[m] # Nothing
                        /\ Polled'[m] # Unknown => world'[m].pose = Polled'[m].pose
      BY DEF NothingImagined
    <3> QED BY <2>2, <2>3, <2>5 DEF BeliefIsTrue, NothingImagined
  <2>7. OwnGeometry'
    <3>1. restarts = 0 => op.want[n].spec = spec
      BY <1>1, <2>5 DEF OwnGeometry
    <3>2. restarts' = 0 => \A m \in Names : world'[m] # Nothing => world'[m].spec = spec'
      BY <1>3, <2>3, <3>1 DEF OwnGeometry
    <3> QED BY <1>3, <2>2, <3>2 DEF OwnGeometry
  <2>8. KnowsTheWorld'
    <3>1. Polled' \in [Names -> States \cup {Nothing, Unknown}]
      BY <2>4, PolledTypeNext
    <3>2. restarts = 0 => \A m \in Names : world'[m] = Polled'[m]
      BY <2>2, <2>3 DEF BeliefIsTrue, KnowsTheWorld
    <3> QED BY <1>3, <2>3, <3>1, <3>2 DEF KnowsTheWorld
  <2> QED BY <2>2, <2>4, <2>6, <2>7, <2>8 DEF BeliefIsTrue
<1> QED BY <1>4, <1>5

(* A refused ADD changes neither the planner nor what the bridge believes. *)
LEMMA RefuseAddKeeps ==
  ASSUME IInv, NEW op \in inflight, RefuseAdd(op)
  PROVE  IInv' /\ UNCHANGED <<world, Polled>>
<1> USE DEF IInv
<1>1. /\ op.answer = "none" /\ op.type = "add" /\ Answer(op, "failed")
      /\ UNCHANGED <<pose, spec, suppressed, signatures, world, restarts>>
  BY DEF RefuseAdd
<1>2. /\ inflight' \in SUBSET Operations
      /\ OneOperationPerObstacle'
      /\ RequestsSound'
      /\ \A n \in DOMAIN op.want : Polled[n] = signatures[n] /\ Polled'[n] = signatures[n]
      /\ \A n \in Names \ DOMAIN op.want : Polled'[n] = Polled[n]
      /\ \A q \in inflight' : \E r \in inflight : q.want = r.want
  BY <1>1, Served
<1>3. TypeOK'
  BY <1>1, <1>2 DEF TypeOK
<1>4. \A n \in Names : Polled'[n] = Polled[n]
  BY <1>2
<1>5. /\ Polled \in [Names -> States \cup {Nothing, Unknown}]
      /\ Polled' \in [Names -> States \cup {Nothing, Unknown}]
  BY <1>3, PolledType, PolledTypeNext
<1>6. Polled' = Polled
  <2> HIDE DEF Polled
  <2> QED BY <1>4, <1>5
<1>7. BeliefIsTrue'
  BY <1>1, <1>6 DEF BeliefIsTrue, NothingImagined, KnowsTheWorld
<1>8. OwnGeometry'
  BY <1>1, <1>2 DEF OwnGeometry
<1> QED BY <1>1, <1>2, <1>3, <1>6, <1>7, <1>8

(* The planner serves a REMOVE, which finds its obstacle.                  *)
LEMMA ServeRemoveKeeps ==
  ASSUME IInv, NEW op \in inflight, ServeRemove(op) PROVE IInv'
<1> USE DEF IInv
<1>1. PICK n \in Names : DOMAIN op.want = {n}
  BY DEF ServeRemove, RequestsSound, Sound
<1>2. signatures[n] # Nothing /\ op.want[n] = Nothing
  BY <1>1 DEF ServeRemove, RequestsSound, Sound
<1>3. op.answer = "none" /\ op.type = "remove" /\ UNCHANGED <<pose, spec, suppressed, signatures, restarts>>
  BY DEF ServeRemove
<1>4. Polled[n] = signatures[n]
  <2>1. \A q \in inflight : n \in DOMAIN q.want => q.answer = "none"
    BY <1>1, <1>3 DEF OneOperationPerObstacle
  <2> QED BY <2>1, PolledBefore
<1>5. world[n] # Nothing
  BY <1>2, <1>4 DEF BeliefIsTrue, NothingImagined
<1>6. Answer(op, "ok") /\ world' = [world EXCEPT ![n] = Nothing]
  BY <1>1, <1>5 DEF ServeRemove
<1>7. /\ inflight' \in SUBSET Operations
      /\ OneOperationPerObstacle'
      /\ RequestsSound'
      /\ Polled'[n] = Nothing
      /\ \A m \in Names \ {n} : Polled'[m] = Polled[m]
      /\ \A q \in inflight' : \E r \in inflight : q.want = r.want
  BY <1>1, <1>2, <1>3, <1>6, Served
<1>8. /\ world' \in [Names -> States \cup {Nothing}]
      /\ world'[n] = Nothing
      /\ \A m \in Names \ {n} : world'[m] = world[m]
  BY <1>6 DEF TypeOK
<1>9. TypeOK'
  BY <1>3, <1>7, <1>8 DEF TypeOK
<1>10. NothingImagined'
  BY <1>7, <1>8 DEF BeliefIsTrue, NothingImagined
<1>11. OwnGeometry'
  BY <1>3, <1>7, <1>8 DEF OwnGeometry
<1>12. KnowsTheWorld'
  <2>1. Polled' \in [Names -> States \cup {Nothing, Unknown}]
    BY <1>9, PolledTypeNext
  <2>2. restarts = 0 => \A m \in Names : world'[m] = Polled'[m]
    BY <1>7, <1>8 DEF BeliefIsTrue, KnowsTheWorld
  <2> QED BY <1>3, <1>8, <2>1, <2>2 DEF KnowsTheWorld
<1> QED BY <1>7, <1>9, <1>10, <1>11, <1>12 DEF BeliefIsTrue

(* The planner serves a MOVE, which finds all of its obstacles.            *)
LEMMA ServeMoveKeeps ==
  ASSUME IInv, NEW op \in inflight, ServeMove(op) PROVE IInv'
<1> USE DEF IInv
<1>1. op.answer = "none" /\ op.type = "move" /\ UNCHANGED <<pose, spec, suppressed, signatures, restarts>>
  BY DEF ServeMove
<1>2. \A n \in DOMAIN op.want : n \in Names /\ signatures[n] # Nothing /\ op.want[n] \in States
  BY <1>1, OperationShape DEF RequestsSound, Sound, TypeOK
<1>3. \A n \in DOMAIN op.want : Polled[n] = signatures[n]
  <2> SUFFICES ASSUME NEW n \in DOMAIN op.want PROVE Polled[n] = signatures[n]
    OBVIOUS
  <2>1. \A q \in inflight : n \in DOMAIN q.want => q.answer = "none"
    BY <1>1 DEF OneOperationPerObstacle
  <2> QED BY <1>2, <2>1, PolledBefore
<1>4. \A n \in DOMAIN op.want : world[n] # Nothing
  BY <1>2, <1>3 DEF BeliefIsTrue, NothingImagined
<1>5. Answer(op, "ok")
  BY <1>4 DEF ServeMove
<1>6. /\ inflight' \in SUBSET Operations
      /\ OneOperationPerObstacle'
      /\ RequestsSound'
      /\ \A n \in DOMAIN op.want : Polled'[n] = op.want[n]
      /\ \A n \in Names \ DOMAIN op.want : Polled'[n] = Polled[n]
      /\ \A q \in inflight' : \E r \in inflight : q.want = r.want
  BY <1>1, <1>5, Served
<1>7. \A n \in Names \ DOMAIN op.want : world'[n] = world[n]
  BY DEF ServeMove
<1>8. \A n \in DOMAIN op.want : world'[n] = [world[n] EXCEPT !.pose = op.want[n].pose]
  BY <1>2, <1>4 DEF ServeMove
<1>9. \A n \in DOMAIN op.want :
        /\ world'[n] \in States
        /\ world'[n].pose = op.want[n].pose
        /\ world'[n].spec = world[n].spec
  <2> SUFFICES ASSUME NEW n \in DOMAIN op.want
               PROVE  /\ world'[n] \in States
                      /\ world'[n].pose = op.want[n].pose
                      /\ world'[n].spec = world[n].spec
    OBVIOUS
  <2>1. world[n] \in States /\ op.want[n] \in States
    BY <1>2, <1>4 DEF TypeOK
  <2> QED BY <1>8, <2>1 DEF States
<1>10. world' \in [Names -> States \cup {Nothing}]
  <2>1. \A n \in Names : world'[n] \in States \cup {Nothing}
    BY <1>7, <1>9 DEF TypeOK
  <2> QED BY <2>1 DEF ServeMove
<1>11. TypeOK'
  BY <1>1, <1>6, <1>10 DEF TypeOK
<1>12. NothingImagined'
  <2> SUFFICES ASSUME NEW n \in Names, Polled'[n] # Nothing
               PROVE  /\ world'[n] # Nothing
                      /\ Polled'[n] # Unknown => world'[n].pose = Polled'[n].pose
    BY DEF NothingImagined
  <2>1. CASE n \in DOMAIN op.want
    BY <1>6, <1>9, <2>1, ValuesAssumption
  <2>2. CASE n \notin DOMAIN op.want
    BY <1>6, <1>7, <2>2 DEF BeliefIsTrue, NothingImagined
  <2> QED BY <2>1, <2>2
<1>13. OwnGeometry'
  <2>1. restarts' = 0 => \A n \in Names : world'[n] # Nothing => world'[n].spec = spec'
    BY <1>1, <1>4, <1>7, <1>9 DEF OwnGeometry
  <2> QED BY <1>1, <1>6, <2>1 DEF OwnGeometry
<1>14. KnowsTheWorld'
  <2>1. Polled' \in [Names -> States \cup {Nothing, Unknown}]
    BY <1>11, PolledTypeNext
  <2>2. ASSUME restarts = 0, NEW n \in DOMAIN op.want PROVE world'[n] = op.want[n]
    <3>1. world'[n].spec = op.want[n].spec
      <4>1. op.want[n].spec = spec /\ world[n].spec = spec
        BY <1>2, <1>4, <2>2, ValuesAssumption DEF OwnGeometry
      <4> QED BY <1>9, <4>1
    <3>2. world'[n] \in States /\ op.want[n] \in States /\ world'[n].pose = op.want[n].pose
      BY <1>2, <1>9
    <3> QED BY <3>1, <3>2 DEF States
  <2>3. restarts = 0 => \A n \in Names : world'[n] = Polled'[n]
    BY <1>6, <1>7, <2>2 DEF BeliefIsTrue, KnowsTheWorld
  <2> QED BY <1>1, <1>10, <2>1, <2>3 DEF KnowsTheWorld
<1> QED BY <1>6, <1>11, <1>12, <1>13, <1>14 DEF BeliefIsTrue

-----------------------------------------------------------------------------
(* What a tick leaves in flight: what had no answer yet, and new requests, *)
(* each for obstacles nothing in flight concerns.                          *)
Fresh(q) ==
  /\ q \in Operations /\ q.answer = "none"
  /\ \A op \in Pending : DOMAIN op.want \cap DOMAIN q.want = {}
  /\ q.type \in {"add", "remove"} => \E n \in Names : DOMAIN q.want = {n}
  /\ \A n \in DOMAIN q.want :
       /\ q.type = "add" => Polled[n] = Nothing /\ q.want[n] = Wanted(n) /\ Wanted(n) \in States
       /\ q.type = "remove" => Polled[n] # Nothing /\ q.want[n] = Nothing
       /\ q.type = "move" => Polled[n] # Nothing /\ q.want[n] = Wanted(n) /\ Wanted(n) \in States

Tick ==
  /\ inflight' \subseteq Pending \cup {q \in inflight' : Fresh(q)}
  /\ \A a, b \in inflight' : a \notin Pending /\ b \notin Pending /\ a # b =>
       DOMAIN a.want \cap DOMAIN b.want = {}

LEMMA PendingBelief ==
  ASSUME IInv, NEW op \in Pending, NEW n \in DOMAIN op.want
  PROVE  n \in Names /\ Polled[n] = signatures[n]
<1> USE DEF IInv, Pending, Answered
<1>1. n \in Names /\ op \in inflight /\ op.answer = "none"
  BY OperationShape DEF TypeOK
<1>2. \A q \in inflight : n \in DOMAIN q.want => q.answer = "none"
  BY <1>1 DEF OneOperationPerObstacle
<1> QED BY <1>1, <1>2, PolledBefore

LEMMA RemoveIsFresh ==
  ASSUME IInv, NEW n \in Names, Polled[n] # Nothing, Pending = {}
  PROVE  Fresh(Request("remove", {n}))
<1>1. /\ Request("remove", {n}) \in Operations
      /\ Request("remove", {n}).type = "remove"
      /\ Request("remove", {n}).answer = "none"
      /\ DOMAIN Request("remove", {n}).want = {n}
      /\ Request("remove", {n}).want[n] = Nothing
  BY RequestShape DEF IInv
<1> QED BY <1>1 DEF Fresh

LEMMA AddIsFresh ==
  ASSUME IInv, signatures' = Polled, NEW n \in Addable,
         \A op \in Pending : op.type # "remove"
  PROVE  /\ Fresh(Request("add", {n}))
         /\ DOMAIN Request("add", {n}).want = {n}
         /\ Polled[n] = Nothing
<1>1. n \in Names /\ {n} \subseteq Desired /\ n \notin Adding /\ Polled[n] = Nothing
  BY DEF Addable, Desired
<1>2. /\ Request("add", {n}) \in Operations
      /\ Request("add", {n}).type = "add"
      /\ Request("add", {n}).answer = "none"
      /\ DOMAIN Request("add", {n}).want = {n}
      /\ Request("add", {n}).want[n] = Wanted(n) /\ Wanted(n) \in States
  BY <1>1, RequestShape DEF IInv
<1>3. \A op \in Pending : n \notin DOMAIN op.want
  <2> SUFFICES ASSUME NEW op \in Pending, n \in DOMAIN op.want PROVE FALSE
    OBVIOUS
  <2>1. signatures[n] = Nothing
    BY <1>1, PendingBelief
  <2>2. op \in inflight /\ Sound(op) /\ op.type \in {"add", "remove", "move"}
    BY OperationShape DEF Pending, IInv, RequestsSound, TypeOK
  <2>3. op.type = "add"
    BY <2>1, <2>2 DEF Sound
  <2> QED BY <1>1, <2>3 DEF Adding
<1> QED BY <1>1, <1>2, <1>3 DEF Fresh

LEMMA MoveIsFresh ==
  ASSUME IInv, signatures' = Polled, NEW batch \in SUBSET (Changed \ Adding),
         \A op \in Pending : op.type \notin {"remove", "move"}
  PROVE  /\ Fresh(Request("move", batch))
         /\ DOMAIN Request("move", batch).want = batch
         /\ \A n \in batch : Polled[n] # Nothing
<1>1. /\ batch \subseteq Names /\ batch \subseteq Desired
      /\ \A n \in batch : n \notin Adding /\ Polled[n] # Nothing
  BY DEF Changed, Desired
<1>2. /\ Request("move", batch) \in Operations
      /\ Request("move", batch).type = "move"
      /\ Request("move", batch).answer = "none"
      /\ DOMAIN Request("move", batch).want = batch
      /\ \A n \in batch : Request("move", batch).want[n] = Wanted(n) /\ Wanted(n) \in States
  BY <1>1, RequestShape DEF IInv
<1>3. ASSUME NEW op \in Pending, NEW n \in batch, n \in DOMAIN op.want PROVE FALSE
  <2>1. op.type = "add"
    BY OperationShape DEF Pending, IInv, TypeOK
  <2> QED BY <1>1, <1>3, <2>1 DEF Adding
<1> QED BY <1>1, <1>2, <1>3 DEF Fresh

LEMMA PublishIsTick ==
  ASSUME IInv, NEW moves \in BOOLEAN, PublishObjects(moves) PROVE Tick
<1>1. signatures' = Polled
  BY DEF PublishObjects
<1>2. CASE RemoveStale
  <2>1. CASE Pending = {}
    <3>1. PICK n \in Stale : inflight' = {Request("remove", {n})}
      BY <1>2, <2>1 DEF RemoveStale
    <3>2. n \in Names /\ Polled[n] # Nothing
      BY <1>1 DEF Stale
    <3> QED BY <2>1, <3>1, <3>2, RemoveIsFresh DEF Tick
  <2>2. CASE Pending # {}
    BY <1>2, <2>2 DEF RemoveStale, Tick
  <2> QED BY <2>1, <2>2
<1>3. CASE WaitForRemove
  BY <1>3 DEF WaitForRemove, Tick
<1>4. CASE AddAndMove(moves)
  <2>1. \A op \in Pending : op.type # "remove"
    BY <1>4 DEF AddAndMove
  <2>2. PICK adds \in SUBSET Addable :
          LET operations == Pending \cup {Request("add", {n}) : n \in adds}
          IN  IF moves
              THEN IF Changed \ Adding = {} \/ \E op \in Pending : op.type = "move"
                   THEN inflight' = operations
                   ELSE \E batch \in SUBSET (Changed \ Adding) :
                          /\ MayMove(batch)
                          /\ inflight' = operations \cup {Request("move", batch)}
              ELSE IF Changed # {} /\ operations = {}
                   THEN \E n \in Changed : inflight' = {Request("remove", {n})}
                   ELSE inflight' = operations
    BY <1>4 DEF AddAndMove
  <2> DEFINE new == {Request("add", {n}) : n \in adds}
  <2>3. \A q \in new : \E n \in adds :
          Fresh(q) /\ DOMAIN q.want = {n} /\ q = Request("add", {n}) /\ Polled[n] = Nothing
    BY <1>1, <2>1, AddIsFresh
  <2>4. \A a, b \in new : a # b => DOMAIN a.want \cap DOMAIN b.want = {}
    <3> SUFFICES ASSUME NEW a \in new, NEW b \in new, a # b
                 PROVE  DOMAIN a.want \cap DOMAIN b.want = {}
      OBVIOUS
    <3>1. PICK m \in adds : DOMAIN a.want = {m} /\ a = Request("add", {m})
      BY <2>3
    <3>2. PICK n \in adds : DOMAIN b.want = {n} /\ b = Request("add", {n})
      BY <2>3
    <3> QED BY <3>1, <3>2
  <2> HIDE DEF new
  <2>5. CASE inflight' = Pending \cup new
    BY <2>3, <2>4, <2>5 DEF Tick
  <2>6. ASSUME NEW batch \in SUBSET (Changed \ Adding),
               \A op \in Pending : op.type # "move",
               inflight' = Pending \cup new \cup {Request("move", batch)}
        PROVE  Tick
    <3>1. /\ Fresh(Request("move", batch))
          /\ DOMAIN Request("move", batch).want = batch
          /\ \A n \in batch : Polled[n] # Nothing
      BY <1>1, <2>1, <2>6, MoveIsFresh
    <3>2. \A q \in new : DOMAIN q.want \cap DOMAIN Request("move", batch).want = {}
      BY <2>3, <3>1
    <3> QED BY <2>3, <2>4, <2>6, <3>1, <3>2 DEF Tick
  <2>7. ASSUME NEW n \in Changed, Pending = {}, inflight' = {Request("remove", {n})}
        PROVE  Tick
    <3>1. n \in Names /\ Polled[n] # Nothing
      BY <1>1 DEF Changed, Desired
    <3> QED BY <2>7, <3>1, RemoveIsFresh DEF Tick
  <2>8. CASE moves
    BY <2>2, <2>5, <2>6, <2>8 DEF new
  <2>9. CASE ~ moves
    BY <2>2, <2>5, <2>7, <2>9 DEF new
  <2> QED BY <2>8, <2>9
<1> QED BY <1>2, <1>3, <1>4 DEF PublishObjects

LEMMA TickKeeps ==
  ASSUME IInv, Tick,
         signatures' = Polled, UNCHANGED <<pose, spec, suppressed, world, restarts>>
  PROVE  IInv'
<1>1. Tick
  OBVIOUS
<1>2. signatures' = Polled /\ UNCHANGED <<pose, spec, suppressed, world, restarts>>
  OBVIOUS
<1>3. \A q \in inflight' : q \in Pending \/ Fresh(q)
  BY <1>1 DEF Tick
<1>4. \A q \in inflight' : q.answer = "none" /\ q \in Operations
  BY <1>3 DEF Fresh, Pending, Answered, IInv, TypeOK
<1>5. Polled' = Polled
  <2>1. \A n \in Names : Polled'[n] = signatures'[n]
    BY <1>4, PolledBeforeNext
  <2> QED BY <1>2, <2>1 DEF Polled
<1>6. TypeOK'
  BY <1>2, <1>4, PolledType DEF IInv, TypeOK
<1>7. OneOperationPerObstacle'
  <2> SUFFICES ASSUME NEW a \in inflight', NEW b \in inflight', a # b
               PROVE  DOMAIN a.want \cap DOMAIN b.want = {}
    BY DEF OneOperationPerObstacle
  <2>1. CASE a \in Pending /\ b \in Pending
    BY <2>1 DEF Pending, IInv, OneOperationPerObstacle
  <2>2. CASE a \in Pending /\ b \notin Pending
    BY <1>3, <2>2 DEF Fresh
  <2>3. CASE a \notin Pending /\ b \in Pending
    BY <1>3, <2>3 DEF Fresh
  <2>4. CASE a \notin Pending /\ b \notin Pending
    BY <1>1, <2>4 DEF Tick
  <2> QED BY <2>1, <2>2, <2>3, <2>4
<1>8. RequestsSound'
  <2> SUFFICES ASSUME NEW q \in inflight' PROVE Sound(q)'
    BY DEF RequestsSound
  <2>1. CASE q \in Pending
    <3>1. Sound(q) /\ q.answer = "none"
      BY <2>1 DEF IInv, RequestsSound, Pending, Answered
    <3>2. \A n \in DOMAIN q.want : signatures'[n] = signatures[n]
      BY <1>2, <2>1, PendingBelief
    <3> QED BY <3>1, <3>2 DEF Sound
  <2>2. CASE Fresh(q)
    BY <1>2, <2>2 DEF Fresh, Sound
  <2> QED BY <1>3, <2>1, <2>2
<1>9. OwnGeometry'
  <2> SUFFICES ASSUME restarts = 0, NEW q \in inflight', NEW n \in DOMAIN q.want,
                      q.want[n] # Nothing
               PROVE  q.want[n].spec = spec
    BY <1>2 DEF OwnGeometry, IInv
  <2>1. CASE q \in Pending
    BY <2>1 DEF Pending, IInv, OwnGeometry
  <2>2. CASE Fresh(q)
    <3>1. q.type \in {"add", "remove", "move"}
      BY <1>4, OperationShape
    <3>2. q.want[n] = Wanted(n)
      BY <2>2, <3>1 DEF Fresh
    <3>3. Wanted(n).spec = spec
      BY DEF Wanted
    <3> QED BY <3>2, <3>3
  <2> QED BY <1>3, <2>1, <2>2
<1> QED BY <1>2, <1>5, <1>6, <1>7, <1>8, <1>9
        DEF IInv, BeliefIsTrue, NothingImagined, KnowsTheWorld

-----------------------------------------------------------------------------
(* The objects moving, commands and the bridge restarting.                 *)
LEMMA OthersKeep ==
  ASSUME IInv,
         \/ \E f \in Frames, p \in Poses : MoveFrame(f, p)
         \/ OnControlCommand
         \/ UNCHANGED vars
  PROVE  IInv'
<1>1. UNCHANGED <<spec, signatures, inflight, world, restarts>>
  BY DEF MoveFrame, OnControlCommand, OnSuppress, OnUnsuppress, vars, bridgeVars
<1>2. pose' \in [Frames -> Poses \cup {Nothing}] /\ suppressed' \in SUBSET Frames
  BY DEF IInv, TypeOK, MoveFrame, OnControlCommand, OnSuppress, OnUnsuppress, vars, bridgeVars
<1>3. Polled' = Polled
  BY <1>1 DEF Polled, Answered, Learned
<1> QED BY <1>1, <1>2, <1>3
        DEF IInv, TypeOK, OneOperationPerObstacle, RequestsSound, Sound, OwnGeometry,
            BeliefIsTrue, NothingImagined, KnowsTheWorld

LEMMA RestartKeeps ==
  ASSUME IInv, RestartBridge PROVE IInv'
<1>1. inflight' = {} /\ signatures' = [n \in Names |-> Nothing] /\ UNCHANGED <<pose, world>>
  BY DEF RestartBridge
<1>2. restarts' \in Nat /\ restarts' # 0
  BY DEF RestartBridge, IInv, TypeOK
<1>3. TypeOK'
  BY <1>1, <1>2 DEF RestartBridge, IInv, TypeOK
<1>4. \A n \in Names : Polled'[n] = Nothing
  BY <1>1, PolledBeforeNext
<1>5. OneOperationPerObstacle' /\ RequestsSound'
  BY <1>1 DEF OneOperationPerObstacle, RequestsSound
<1>6. BeliefIsTrue' /\ OwnGeometry'
  BY <1>2, <1>4 DEF BeliefIsTrue, NothingImagined, KnowsTheWorld, OwnGeometry
<1> QED BY <1>3, <1>5, <1>6 DEF IInv

(* The inductive invariant holds of every reachable state.                 *)
THEOREM Inductive == Spec => []IInv
<1>1. Init => IInv
  <2> SUFFICES ASSUME Init PROVE IInv
    OBVIOUS
  <2>1. TypeOK
    BY DEF Init, TypeOK
  <2>2. \A n \in Names : Polled[n] = Nothing
    BY PolledBefore DEF Init
  <2>3. world = Polled
    BY <2>2 DEF Init, Polled
  <2>4. OneOperationPerObstacle /\ RequestsSound /\ OwnGeometry
    BY DEF Init, OneOperationPerObstacle, RequestsSound, OwnGeometry
  <2> QED BY <2>1, <2>2, <2>3, <2>4 DEF IInv, BeliefIsTrue, NothingImagined, KnowsTheWorld
<1>2. IInv /\ [Next]_vars => IInv'
  <2> SUFFICES ASSUME IInv, [Next]_vars PROVE IInv'
    OBVIOUS
  <2>1. CASE Serve
    BY <2>1, ServeAddKeeps, RefuseAddKeeps, ServeRemoveKeeps, ServeMoveKeeps DEF Serve, ServeRequest
  <2>2. CASE \E moves \in BOOLEAN : PublishObjects(moves)
    BY <2>2, PublishIsTick, TickKeeps DEF PublishObjects
  <2>3. CASE RestartBridge
    BY <2>3, RestartKeeps
  <2>4. CASE PollOnly
    <3>1. Tick
      BY <2>4 DEF PollOnly, Tick
    <3> QED BY <2>4, <3>1, TickKeeps DEF PollOnly
  <2>5. CASE \/ \E f \in Frames, p \in Poses : MoveFrame(f, p)
             \/ OnControlCommand
             \/ UNCHANGED vars
    BY <2>5, OthersKeep
  <2> QED BY <2>1, <2>2, <2>3, <2>4, <2>5 DEF Next
<1> QED BY <1>1, <1>2, PTL DEF Spec

(* Every variable of the bridge and of the planner keeps its type.         *)
THEOREM BridgeTypeCorrect == Spec => []TypeOK
<1>1. IInv => TypeOK
  BY DEF IInv
<1> QED BY <1>1, Inductive, PTL

(* No two requests in flight concern the same obstacle: their order, and   *)
(* that of their answers, cannot matter.                                   *)
THEOREM OneRequestAtATime == Spec => []OneOperationPerObstacle
<1>1. IInv => OneOperationPerObstacle
  BY DEF IInv
<1> QED BY <1>1, Inductive, PTL

(* The bridge never believes in an obstacle the planner does not have at   *)
(* that pose, and knows the planner's world exactly until it restarts.     *)
THEOREM BeliefStaysTrue == Spec => []BeliefIsTrue
<1>1. IInv => BeliefIsTrue
  BY DEF IInv
<1> QED BY <1>1, Inductive, PTL

(* A REMOVE and a MOVE always find what they name, so the bridge, which    *)
(* learns nothing from their failure, never repeats one for ever.          *)
THEOREM NothingMissing ==
  Spec => [](\A op \in inflight : op.type # "add" => op.answer # "failed")
<1>1. IInv => \A op \in inflight : op.type # "add" => op.answer # "failed"
  BY DEF IInv, RequestsSound, Sound
<1> QED BY <1>1, Inductive, PTL

-----------------------------------------------------------------------------
(* The steps of the bridge and of the planner are steps of the store: a    *)
(* request takes place when it is served, and no other step shows.         *)
LEMMA PolledAsFunction ==
  ASSUME IInv, IInv', NEW n \in Names, NEW value,
         Polled'[n] = value, \A m \in Names \ {n} : Polled'[m] = Polled[m]
  PROVE  Polled' = [Polled EXCEPT ![n] = value]
<1>1. /\ Polled \in [Names -> States \cup {Nothing, Unknown}]
      /\ Polled' \in [Names -> States \cup {Nothing, Unknown}]
  BY PolledType, PolledTypeNext DEF IInv
<1> HIDE DEF Polled
<1> QED BY <1>1

LEMMA ServeAddIsAdd ==
  ASSUME IInv, IInv', NEW op \in inflight, ServeAdd(op) PROVE Store!Next
<1>1. PICK n \in Names : DOMAIN op.want = {n}
  BY DEF ServeAdd, IInv, RequestsSound, Sound
<1>2. signatures[n] = Nothing /\ op.want[n] \in States
  BY <1>1 DEF ServeAdd, IInv, RequestsSound, Sound
<1>3. op.answer = "none" /\ op.type = "add" /\ UNCHANGED signatures
  BY DEF ServeAdd
<1>4. CASE world[n] # Nothing
  <2>1. Answer(op, "exists") /\ UNCHANGED world
    BY <1>1, <1>4 DEF ServeAdd
  <2>2. /\ Polled[n] = Nothing /\ Polled'[n] = Unknown
        /\ \A m \in Names \ {n} : Polled'[m] = Polled[m]
    BY <1>1, <1>2, <1>3, <2>1, Served
  <2>3. Polled' = [Polled EXCEPT ![n] = Unknown]
    BY <2>2, PolledAsFunction
  <2>4. Store!Add(n, op.want[n])
    BY <1>4, <2>1, <2>2, <2>3 DEF Store!Add
  <2> QED BY <1>2, <2>4 DEF Store!Next, Store!States, States
<1>5. CASE world[n] = Nothing
  <2>1. Answer(op, "ok") /\ world' = [world EXCEPT ![n] = op.want[n]]
    BY <1>1, <1>5 DEF ServeAdd
  <2>2. /\ Polled[n] = Nothing /\ Polled'[n] = op.want[n]
        /\ \A m \in Names \ {n} : Polled'[m] = Polled[m]
    BY <1>1, <1>2, <1>3, <2>1, Served
  <2>3. Polled' = [Polled EXCEPT ![n] = op.want[n]]
    BY <2>2, PolledAsFunction
  <2>4. Store!Add(n, op.want[n])
    BY <1>5, <2>1, <2>2, <2>3 DEF Store!Add
  <2> QED BY <1>2, <2>4 DEF Store!Next, Store!States, States
<1> QED BY <1>4, <1>5

LEMMA ServeRemoveIsRemove ==
  ASSUME IInv, IInv', NEW op \in inflight, ServeRemove(op) PROVE Store!Next
<1>1. PICK n \in Names : DOMAIN op.want = {n}
  BY DEF ServeRemove, IInv, RequestsSound, Sound
<1>2. signatures[n] # Nothing /\ op.want[n] = Nothing
  BY <1>1 DEF ServeRemove, IInv, RequestsSound, Sound
<1>3. op.answer = "none" /\ UNCHANGED signatures
  BY DEF ServeRemove
<1>4. Polled[n] = signatures[n]
  <2>1. \A q \in inflight : n \in DOMAIN q.want => q.answer = "none"
    BY <1>1, <1>3 DEF IInv, OneOperationPerObstacle
  <2> QED BY <2>1, PolledBefore
<1>5. world[n] # Nothing
  BY <1>2, <1>4 DEF IInv, BeliefIsTrue, NothingImagined
<1>6. Answer(op, "ok") /\ world' = [world EXCEPT ![n] = Nothing]
  BY <1>1, <1>5 DEF ServeRemove
<1>7. Polled'[n] = Nothing /\ \A m \in Names \ {n} : Polled'[m] = Polled[m]
  BY <1>1, <1>2, <1>3, <1>6, Served
<1>8. Polled' = [Polled EXCEPT ![n] = Nothing]
  BY <1>7, PolledAsFunction
<1>9. Store!Remove(n)
  BY <1>2, <1>4, <1>6, <1>8 DEF Store!Remove
<1> QED BY <1>9 DEF Store!Next

LEMMA ServeMoveIsMove ==
  ASSUME IInv, IInv', NEW op \in inflight, ServeMove(op)
  PROVE  Store!Next \/ UNCHANGED <<world, Polled>>
<1> DEFINE batch == DOMAIN op.want
<1>1. /\ op.answer = "none" /\ op.type = "move" /\ UNCHANGED signatures
      /\ batch \subseteq Names
  BY OperationShape DEF ServeMove, IInv, TypeOK
<1>2. \A n \in batch : signatures[n] # Nothing /\ op.want[n] \in States
  BY <1>1 DEF IInv, RequestsSound, Sound
<1>3. \A n \in batch : Polled[n] = signatures[n]
  <2> SUFFICES ASSUME NEW n \in batch PROVE Polled[n] = signatures[n]
    OBVIOUS
  <2>1. \A q \in inflight : n \in DOMAIN q.want => q.answer = "none"
    BY <1>1 DEF IInv, OneOperationPerObstacle
  <2> QED BY <1>1, <2>1, PolledBefore
<1>4. \A n \in batch : world[n] # Nothing
  BY <1>1, <1>2, <1>3 DEF IInv, BeliefIsTrue, NothingImagined
<1>5. Answer(op, "ok")
  BY <1>4 DEF ServeMove
<1>6. /\ \A n \in batch : Polled'[n] = op.want[n]
      /\ \A n \in Names \ batch : Polled'[n] = Polled[n]
  BY <1>1, <1>5, Served
<1>7. Polled' = [n \in Names |-> IF n \in batch THEN op.want[n] ELSE Polled[n]]
  <2>1. Polled' \in [Names -> States \cup {Nothing, Unknown}]
    BY PolledTypeNext DEF IInv
  <2> HIDE DEF batch, Polled
  <2> QED BY <1>6, <2>1
<1>8. world' = [n \in Names |-> IF n \in batch THEN [world[n] EXCEPT !.pose = op.want[n].pose]
                                ELSE world[n]]
  BY <1>4 DEF ServeMove
<1> HIDE DEF batch
<1>9. CASE batch = {}
  <2>1. world' = world
    BY <1>8, <1>9 DEF IInv, TypeOK
  <2>2. Polled' = Polled
    <3>1. Polled \in [Names -> States \cup {Nothing, Unknown}]
      BY PolledType DEF IInv
    <3> HIDE DEF Polled
    <3> QED BY <1>7, <1>9, <3>1
  <2> QED BY <2>1, <2>2
<1>10. CASE batch # {}
  <2>1. PICK m \in batch : TRUE
    BY <1>10
  <2> DEFINE to == [n \in Names |-> IF n \in batch THEN op.want[n] ELSE op.want[m]]
  <2>2. to \in [Names -> States] /\ \A n \in batch : to[n] = op.want[n]
    BY <1>1, <1>2, <2>1 DEF batch
  <2> HIDE DEF to
  <2>3. Store!Move(batch, to)
    BY <1>2, <1>3, <1>7, <1>8, <2>2, <1>1 DEF Store!Move
  <2> QED BY <1>1, <2>2, <2>3 DEF Store!Next, Store!States, States, batch
<1> QED BY <1>9, <1>10

LEMMA TickIsNoStep ==
  ASSUME IInv, IInv', Tick, signatures' = Polled
  PROVE  Polled' = Polled
<1>1. \A q \in inflight' : q.answer = "none"
  BY DEF Tick, Fresh, Pending, Answered, IInv, TypeOK, Operations
<1>2. \A n \in Names : Polled'[n] = Polled[n]
  BY <1>1, PolledBeforeNext
<1>3. /\ Polled \in [Names -> States \cup {Nothing, Unknown}]
      /\ Polled' \in [Names -> States \cup {Nothing, Unknown}]
  BY PolledType, PolledTypeNext DEF IInv
<1> HIDE DEF Polled
<1> QED BY <1>2, <1>3

LEMMA RestartIsForget ==
  ASSUME IInv, IInv', RestartBridge PROVE Store!Forget
<1>1. inflight' = {} /\ signatures' = [n \in Names |-> Nothing] /\ UNCHANGED world
  BY DEF RestartBridge
<1>2. \A n \in Names : Polled'[n] = Nothing
  BY <1>1, PolledBeforeNext
<1>3. Polled' \in [Names -> States \cup {Nothing, Unknown}]
  BY PolledTypeNext DEF IInv
<1> HIDE DEF Polled
<1>4. Polled' = [n \in Names |-> Nothing]
  BY <1>2, <1>3
<1> QED BY <1>1, <1>4 DEF Store!Forget, Store!NoneOf

LEMMA StepOfStore ==
  ASSUME IInv, IInv', [Next]_vars
  PROVE  [Store!Next]_<<world, Polled>>
<1>1. CASE Serve
  BY <1>1, ServeAddIsAdd, RefuseAddKeeps, ServeRemoveIsRemove, ServeMoveIsMove DEF Serve, ServeRequest
<1>2. CASE \E moves \in BOOLEAN : PublishObjects(moves)
  BY <1>2, PublishIsTick, TickIsNoStep DEF PublishObjects
<1>3. CASE PollOnly
  <2>1. Tick
    BY <1>3 DEF PollOnly, Tick
  <2> QED BY <1>3, <2>1, TickIsNoStep DEF PollOnly
<1>4. CASE RestartBridge
  BY <1>4, RestartIsForget DEF Store!Next
<1>5. CASE \/ \E f \in Frames, p \in Poses : MoveFrame(f, p)
           \/ OnControlCommand
           \/ UNCHANGED vars
  <2>1. UNCHANGED <<signatures, inflight, world>>
    BY <1>5 DEF MoveFrame, OnControlCommand, OnSuppress, OnUnsuppress, vars, bridgeVars
  <2> QED BY <2>1 DEF Polled, Answered, Learned
<1> QED BY <1>1, <1>2, <1>3, <1>4, <1>5 DEF Next

(* The bridge with its requests in flight implements the store of which    *)
(* requests take no time, for any number of objects, geometries, restarts  *)
(* and limits: no request is made twice, no MOVE and no REMOVE misses its  *)
(* obstacle, and what a restarted bridge adds again stays as it was.       *)
THEOREM ImplementsStoreOfObstacles == Spec => ImplementsStore
<1>1. Init => Store!Init
  <2> SUFFICES ASSUME Init PROVE Store!Init
    OBVIOUS
  <2>1. Polled = [n \in Names |-> signatures[n]]
    BY DEF Init, Polled, Answered
  <2> QED BY <2>1 DEF Init, Store!Init, Store!NoneOf
<1>2. IInv /\ IInv' /\ [Next]_vars => [Store!Next]_<<world, Polled>>
  BY StepOfStore
<1> QED BY <1>1, <1>2, Inductive, PTL DEF Spec, ImplementsStore, Store!Spec
=============================================================================
