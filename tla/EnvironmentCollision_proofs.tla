--------------------- MODULE EnvironmentCollision_proofs ---------------------
(***************************************************************************)
(* Theorems about EnvironmentCollision, for any set of objects and poses   *)
(* and any bounds: type correctness, that suppression takes hold, that a   *)
(* suppressed object that is gone stays gone, and that the publisher       *)
(* implements ObjectVisibility while no diff is overwritten.               *)
(***************************************************************************)
EXTENDS EnvironmentCollision, SequenceTheorems, TLAPS

(* What every diff in the topic satisfies: it names an object at most      *)
(* once, and gives a pose exactly when it does not remove.                 *)
DiffOK(d) ==
  /\ \A u, v \in d : u.id = v.id => u = v
  /\ \A u \in d : u.op = "remove" <=> u.pose = Absent
DiffsOK == \A i \in DOMAIN topic : DiffOK(topic[i])

(* A diff built by a tick is one the types allow, and mentions nothing     *)
(* that is suppressed.                                                     *)
LEMMA TickDiffType ==
  ASSUME TypeOK, NEW located \in SUBSET Objects, NEW due \in SUBSET published
  PROVE  /\ TickDiff(located, due) \in Diffs
         /\ DiffOK(TickDiff(located, due))
         /\ \A u \in TickDiff(located, due) : u.id \notin suppressed /\ u.op \in {"add", "move"}
<1> USE DEF TypeOK, TickDiff, Update
<1>1. \A o \in Objects : pose[o] \in Poses /\ pose[o] # Absent
  BY AbsentAssumption
<1>2. TickDiff(located, due) \in Diffs
  BY <1>1 DEF Diffs
<1>3. DiffOK(TickDiff(located, due))
  BY <1>1 DEF DiffOK
<1>4. \A u \in TickDiff(located, due) : u.id \notin suppressed /\ u.op \in {"add", "move"}
  OBVIOUS
<1> QED BY <1>2, <1>3, <1>4

(* The diff that removes one object.                                       *)
LEMMA RemoveDiffType ==
  ASSUME NEW o \in Objects
  PROVE  /\ {Update("remove", o, Absent)} \in Diffs
         /\ DiffOK({Update("remove", o, Absent)})
BY DEF Diffs, DiffOK, Update

(* A world stays a world under a diff.                                     *)
LEMMA AppliedType ==
  ASSUME NEW w \in [Objects -> Poses \cup {Absent}], NEW d \in Diffs
  PROVE  Applied(d, w) \in [Objects -> Poses \cup {Absent}]
<1>1. \A o \in Objects : (\E u \in d : u.id = o) =>
        (CHOOSE v \in d : v.id = o) \in d
  OBVIOUS
<1>2. \A u \in d : u.pose \in Poses \cup {Absent}
  BY DEF Diffs
<1> QED BY <1>1, <1>2 DEF Applied

(* Every step of the publisher, the topics and the scene keeps the types.  *)
LEMMA TypeStep ==
  ASSUME TypeOK, [Next]_vars
  PROVE  TypeOK'
<1> USE DEF TypeOK
<1>1. ASSUME NEW c \in Commands, Command(c) PROVE TypeOK'
  BY <1>1 DEF Command, pubVars
<1>2. CASE OnControlCommand
  <2>1. control \in Seq(Commands) /\ control # <<>>
    BY <1>2 DEF OnControlCommand
  <2>2. Head(control) \in Commands /\ control' \in Seq(Commands)
    BY <2>1, <1>2, HeadTailProperties DEF OnControlCommand
  <2>3. ASSUME NEW ids \in SUBSET Objects, Forget(ids)
        PROVE  published' \in SUBSET Objects /\ sent' \in [Objects -> Poses \cup {Absent}]
    BY <2>3 DEF Forget
  <2>4. ASSUME NEW ids \in SUBSET Objects, OnUnsuppress(ids) PROVE TypeOK'
    <3>1. suppressed \cap ids \in SUBSET Objects
      OBVIOUS
    <3>2. published' \in SUBSET Objects /\ sent' \in [Objects -> Poses \cup {Absent}]
      BY <2>3, <2>4, <3>1 DEF OnUnsuppress
    <3> QED BY <1>2, <2>2, <2>4, <3>2 DEF OnControlCommand, OnUnsuppress
  <2>5. ASSUME NEW o \in Objects, OnSuppress(o) PROVE TypeOK'
    <3>1. CASE o \in suppressed
      BY <1>2, <2>2, <2>5, <3>1 DEF OnControlCommand, OnSuppress, pubVars
    <3>2. CASE o \notin suppressed
      <4>1. {o} \in SUBSET Objects /\ Forget({o})
        BY <2>5, <3>2 DEF OnSuppress
      <4>2. published' \in SUBSET Objects /\ sent' \in [Objects -> Poses \cup {Absent}]
        BY <2>3, <4>1
      <4>3. {Update("remove", o, Absent)} \in Diffs
        BY RemoveDiffType
      <4>4. topic' = Append(topic, {Update("remove", o, Absent)})
        BY <2>5, <3>2 DEF OnSuppress
      <4>5. topic' \in Seq(Diffs)
        BY <4>3, <4>4, AppendProperties
      <4> QED BY <1>2, <2>2, <2>5, <3>2, <4>2, <4>5 DEF OnControlCommand, OnSuppress
    <3> QED BY <3>1, <3>2
  <2>6. CASE Head(control).op = "clear"
    BY <1>2, <2>4, <2>6 DEF OnControlCommand
  <2>7. CASE Head(control).op # "clear"
    <3>1. Head(control).id \in Objects
      BY <2>2, <2>7 DEF Commands
    <3> QED BY <1>2, <2>4, <2>5, <2>7, <3>1 DEF OnControlCommand
  <2> QED BY <2>6, <2>7
<1>3. ASSUME NEW located \in SUBSET Objects, NEW due \in SUBSET published,
             PublishPoses(located, due)
      PROVE  TypeOK'
  <2>1. TickDiff(located, due) \in Diffs
    BY TickDiffType
  <2>2. topic' \in Seq(Diffs)
    BY <1>3, <2>1 DEF PublishPoses
  <2>3. published' \in SUBSET Objects
    BY <1>3, <2>1 DEF PublishPoses, Diffs
  <2>4. sent' \in [Objects -> Poses \cup {Absent}]
    BY <1>3 DEF PublishPoses
  <2> QED BY <1>3, <2>2, <2>3, <2>4 DEF PublishPoses
<1>4. CASE ApplyDiff
  <2>1. Head(topic) \in Diffs /\ topic' \in Seq(Diffs)
    BY <1>4, HeadTailProperties DEF ApplyDiff
  <2>2. world' \in [Objects -> Poses \cup {Absent}]
    BY <1>4, <2>1, AppliedType DEF ApplyDiff
  <2> QED BY <1>4, <2>1, <2>2 DEF ApplyDiff, pubVars
<1>5. ASSUME NEW o \in Objects, NEW p \in Poses, MoveObject(o, p) PROVE TypeOK'
  BY <1>5 DEF MoveObject, pubVars
<1>6. CASE RestartMoveGroup
  BY <1>6 DEF RestartMoveGroup, pubVars
<1>7. CASE RestartPublisher
  BY <1>7 DEF RestartPublisher
<1>8. CASE LoseOldest
  <2>1. topic # <<>> => topic' \in Seq(Diffs)
    BY <1>8, HeadTailProperties DEF LoseOldest
  <2>2. topic = <<>> => topic' \in Seq(Diffs)
    BY <1>8 DEF LoseOldest
  <2> QED BY <1>8, <2>1, <2>2 DEF LoseOldest, pubVars
<1>9. CASE UNCHANGED vars
  BY <1>9 DEF vars, pubVars
<1> QED BY <1>1, <1>2, <1>3, <1>4, <1>5, <1>6, <1>7, <1>8, <1>9 DEF Next, Publisher

(* Type correctness of the publisher, the topics and the scene.            *)
THEOREM TypeCorrect == Spec => []TypeOK
<1>1. Init => TypeOK
  BY DEF Init, TypeOK
<1> QED BY <1>1, TypeStep, PTL DEF Spec

-----------------------------------------------------------------------------
(* How the topic changes: a diff is published at its end, or the first one *)
(* is taken out.                                                           *)
Published(d) == topic' = Append(topic, d)
TakenOut == topic # <<>> /\ topic' = Tail(topic)

LEMMA PublishedDiff ==
  ASSUME TypeOK, NEW d \in Diffs, Published(d)
  PROVE  /\ DOMAIN topic = 1 .. Len(topic) /\ Len(topic) \in Nat
         /\ DOMAIN topic' = 1 .. Len(topic) + 1
         /\ \A i \in DOMAIN topic : topic'[i] = topic[i]
         /\ topic'[Len(topic) + 1] = d
BY AppendProperties DEF TypeOK, Published

LEMMA TakenOutDiff ==
  ASSUME TypeOK, TakenOut
  PROVE  /\ DOMAIN topic = 1 .. Len(topic) /\ Len(topic) \in Nat \ {0}
         /\ DOMAIN topic' = 1 .. Len(topic) - 1
         /\ \A i \in DOMAIN topic' : i + 1 \in DOMAIN topic /\ topic'[i] = topic[i + 1]
         /\ \A i \in DOMAIN topic : i # 1 => i - 1 \in DOMAIN topic' /\ topic'[i - 1] = topic[i]
         /\ Head(topic) = topic[1] /\ Head(topic) \in Diffs
<1>1. topic \in Seq(Diffs) /\ topic # <<>>
  BY DEF TypeOK, TakenOut
<1>2. /\ Head(topic) \in Diffs /\ Tail(topic) \in Seq(Diffs)
      /\ Len(Tail(topic)) = Len(topic) - 1
      /\ \A i \in 1 .. Len(Tail(topic)) : Tail(topic)[i] = topic[i + 1]
  BY <1>1, HeadTailProperties
<1>3. Len(topic) \in Nat \ {0} /\ DOMAIN topic = 1 .. Len(topic) /\ Head(topic) = topic[1]
  BY <1>1
<1>4. DOMAIN topic' = 1 .. Len(topic) - 1
  BY <1>2 DEF TakenOut
<1> QED BY <1>2, <1>3, <1>4 DEF TakenOut

(* Both keep the diffs well formed.                                        *)
LEMMA PublishedDiffsOK ==
  ASSUME TypeOK, DiffsOK, NEW d \in Diffs, DiffOK(d), Published(d)
  PROVE  DiffsOK'
BY PublishedDiff DEF DiffsOK

LEMMA TakenOutDiffsOK ==
  ASSUME TypeOK, DiffsOK, TakenOut
  PROVE  DiffsOK'
BY TakenOutDiff DEF DiffsOK

(* An object on its way out.                                               *)
GoingOut(o) == AddsAreRemoved(o) /\ PresenceIsRemoved(o)

(* It stays on its way out when a diff that does not add it is published,  *)
LEMMA PublishedGoingOut ==
  ASSUME TypeOK, NEW o \in Objects, GoingOut(o), NEW d \in Diffs, Published(d),
         world' = world, \A u \in d : ~ (u.op = "add" /\ u.id = o)
  PROVE  GoingOut(o)'
<1>1. \A j \in DOMAIN topic : \A op : Mentions(j, op, o) => j \in DOMAIN topic' /\ Mentions(j, op, o)'
  BY PublishedDiff DEF Mentions
<1>2. \A i \in DOMAIN topic' : Mentions(i, "add", o)' => i \in DOMAIN topic /\ Mentions(i, "add", o)
  BY PublishedDiff DEF Mentions
<1>3. AddsAreRemoved(o)'
  BY <1>1, <1>2 DEF GoingOut, AddsAreRemoved
<1>4. PresenceIsRemoved(o)'
  BY <1>1 DEF GoingOut, PresenceIsRemoved
<1> QED BY <1>3, <1>4 DEF GoingOut

(* a diff that removes it, published after everything else, puts it there, *)
LEMMA RemovePublishedGoingOut ==
  ASSUME TypeOK, NEW o \in Objects, Published({Update("remove", o, Absent)})
  PROVE  GoingOut(o)'
<1>1. {Update("remove", o, Absent)} \in Diffs
  BY RemoveDiffType
<1>2. PICK last \in DOMAIN topic' :
        /\ topic'[last] = {Update("remove", o, Absent)}
        /\ \A i \in DOMAIN topic' : i # last => i < last
  BY <1>1, PublishedDiff
<1>3. Mentions(last, "remove", o)'
  BY <1>2 DEF Mentions, Update
<1>4. ~ Mentions(last, "add", o)'
  BY <1>2 DEF Mentions, Update
<1> QED BY <1>2, <1>3, <1>4 DEF GoingOut, AddsAreRemoved, PresenceIsRemoved

(* and it stays there when move_group applies a diff.                      *)
LEMMA AppliedGoingOut ==
  ASSUME TypeOK, DiffsOK, NEW o \in Objects, GoingOut(o), ApplyDiff
  PROVE  GoingOut(o)'
<1>1. TakenOut
  BY DEF ApplyDiff, TakenOut
<1>2. \A j \in DOMAIN topic : \A op : Mentions(j, op, o) /\ j # 1 =>
        j - 1 \in DOMAIN topic' /\ Mentions(j - 1, op, o)'
  BY <1>1, TakenOutDiff DEF Mentions
<1>3. \A i \in DOMAIN topic' : \A op : Mentions(i, op, o)' =>
        i + 1 \in DOMAIN topic /\ Mentions(i + 1, op, o)
  BY <1>1, TakenOutDiff DEF Mentions
<1>4. AddsAreRemoved(o)'
  <2> SUFFICES ASSUME NEW i \in DOMAIN topic', Mentions(i, "add", o)'
               PROVE  \E j \in DOMAIN topic' : i < j /\ Mentions(j, "remove", o)'
    BY DEF AddsAreRemoved
  <2>1. PICK j \in DOMAIN topic : i + 1 < j /\ Mentions(j, "remove", o)
    BY <1>3 DEF GoingOut, AddsAreRemoved
  <2>2. j # 1 /\ i < j - 1
    BY <2>1, <1>1, TakenOutDiff
  <2> QED BY <2>1, <2>2, <1>2
<1>5. PresenceIsRemoved(o)'
  <2> SUFFICES ASSUME world'[o] # Absent
               PROVE  \E j \in DOMAIN topic' : Mentions(j, "remove", o)'
    BY DEF PresenceIsRemoved
  <2> DEFINE d == Head(topic)
  <2>0. 1 \in DOMAIN topic /\ d = topic[1] /\ d \in Diffs /\ DiffOK(d)
    BY <1>1, TakenOutDiff DEF DiffsOK
  <2>1. world'[o] = Applied(d, world)[o]
    BY DEF ApplyDiff
  <2>2. CASE \E u \in d : u.id = o
    <3>1. PICK u \in d : u.id = o
      BY <2>2
    <3>2. (CHOOSE v \in d : v.id = o) = u
      BY <2>0, <3>1 DEF DiffOK
    <3>3. ~ (u.op = "move" /\ world[o] = Absent) /\ u.pose # Absent
      BY <2>1, <3>1, <3>2 DEF Applied
    <3>4. u.op = "add" \/ u.op = "move"
      BY <2>0, <3>3 DEF DiffOK, Diffs
    <3>5. CASE u.op = "add"
      <4>1. Mentions(1, "add", o)
        BY <2>0, <3>1, <3>5 DEF Mentions
      <4>2. PICK j \in DOMAIN topic : 1 < j /\ Mentions(j, "remove", o)
        BY <4>1, <2>0 DEF GoingOut, AddsAreRemoved
      <4> QED BY <4>2, <1>2
    <3>6. CASE u.op = "move"
      <4>1. PICK j \in DOMAIN topic : Mentions(j, "remove", o)
        BY <3>3, <3>6 DEF GoingOut, PresenceIsRemoved
      <4>2. j # 1
        <5> SUFFICES ASSUME Mentions(1, "remove", o) PROVE FALSE
          BY <4>1
        <5>1. PICK v \in d : v.op = "remove" /\ v.id = o
          BY <2>0 DEF Mentions
        <5> QED BY <5>1, <3>1, <3>6, <2>0 DEF DiffOK
      <4> QED BY <4>1, <4>2, <1>2
    <3> QED BY <3>4, <3>5, <3>6
  <2>3. CASE ~ \E u \in d : u.id = o
    <3>1. world[o] # Absent
      BY <2>1, <2>3 DEF Applied
    <3>2. PICK j \in DOMAIN topic : Mentions(j, "remove", o)
      BY <3>1 DEF GoingOut, PresenceIsRemoved
    <3>3. j # 1
      BY <3>2, <2>3, <2>0 DEF Mentions
    <3> QED BY <3>2, <3>3, <1>2
  <2> QED BY <2>2, <2>3
<1> QED BY <1>4, <1>5 DEF GoingOut

-----------------------------------------------------------------------------
(* The inductive invariant behind SuppressionTakesHold.                    *)
IInv == TypeOK /\ DiffsOK /\ SuppressionTakesHold

(* Every diff the publisher sends is well formed.                          *)
LEMMA DiffsOKStep ==
  ASSUME TypeOK, DiffsOK, [Next]_vars
  PROVE  DiffsOK'
<1>1. CASE topic' = topic
  BY <1>1 DEF DiffsOK
<1>2. ASSUME NEW o \in Objects, OnSuppress(o) PROVE DiffsOK'
  <2>1. CASE topic' = Append(topic, {Update("remove", o, Absent)})
    BY <2>1, RemoveDiffType, PublishedDiffsOK DEF Published
  <2>2. CASE topic' = topic
    BY <2>2, <1>1
  <2> QED BY <1>2, <2>1, <2>2 DEF OnSuppress, pubVars
<1>3. CASE OnControlCommand
  <2>1. Head(control) \in Commands
    BY <1>3, HeadTailProperties DEF OnControlCommand, TypeOK
  <2>2. CASE Head(control).op = "suppress"
    BY <1>2, <1>3, <2>1, <2>2 DEF OnControlCommand, Commands
  <2>3. CASE Head(control).op # "suppress"
    <3>1. topic' = topic
      BY <1>3, <2>3 DEF OnControlCommand, OnUnsuppress
    <3> QED BY <3>1, <1>1
  <2> QED BY <2>2, <2>3
<1>4. ASSUME NEW located \in SUBSET Objects, NEW due \in SUBSET published,
             PublishPoses(located, due)
      PROVE  DiffsOK'
  BY <1>4, TickDiffType, PublishedDiffsOK DEF PublishPoses, Published
<1>5. CASE TakenOut
  BY <1>5, TakenOutDiffsOK
<1>6. CASE topic' = <<>>
  BY <1>6 DEF DiffsOK
<1>7. CASE LoseOldest
  <2>1. CASE topic = <<>>
    <3>1. topic' = <<>>
      BY <1>7, <2>1 DEF LoseOldest
    <3> QED BY <3>1, <1>6
  <2>2. CASE topic # <<>>
    BY <1>7, <2>2, <1>5 DEF LoseOldest, TakenOut
  <2> QED BY <2>1, <2>2
<1>8. ApplyDiff => TakenOut
  BY DEF ApplyDiff, TakenOut
<1>9. \/ RestartMoveGroup \/ RestartPublisher \/ UNCHANGED vars
      \/ \E c \in Commands : Command(c)
      \/ \E o \in Objects, p \in Poses : MoveObject(o, p)
      => topic' = topic \/ topic' = <<>>
  BY DEF RestartMoveGroup, RestartPublisher, Command, MoveObject, vars
<1> QED BY <1>1, <1>3, <1>4, <1>5, <1>6, <1>7, <1>8, <1>9 DEF Next, Publisher

(* No step takes an object that stays suppressed off its way out.          *)
LEMMA SuppressionStep ==
  ASSUME IInv, [Next]_vars
  PROVE  SuppressionTakesHold'
<1> SUFFICES ASSUME lost' = 0, NEW o \in suppressed'
             PROVE  GoingOut(o)'
  BY DEF SuppressionTakesHold, GoingOut
<1> USE DEF IInv
<1>1. lost \in Nat /\ suppressed \subseteq Objects
  BY DEF TypeOK
<1>2. ASSUME UNCHANGED <<suppressed, topic, world, lost>> PROVE GoingOut(o)'
  BY <1>2 DEF SuppressionTakesHold, GoingOut, AddsAreRemoved, PresenceIsRemoved, Mentions
<1>3. ASSUME lost = 0, o \in suppressed PROVE GoingOut(o) /\ o \in Objects
  BY <1>1, <1>3 DEF SuppressionTakesHold, GoingOut
<1>4. CASE OnControlCommand
  <2>1. Head(control) \in Commands
    BY <1>4, HeadTailProperties DEF OnControlCommand, TypeOK
  <2>2. CASE Head(control).op = "suppress"
    <3> DEFINE q == Head(control).id
    <3>1. q \in Objects /\ OnSuppress(q) /\ UNCHANGED <<world, lost>>
      BY <1>4, <2>1, <2>2 DEF OnControlCommand, Commands
    <3>2. CASE q \in suppressed
      BY <3>1, <3>2, <1>2 DEF OnSuppress, pubVars
    <3>3. CASE q \notin suppressed
      <4>1. /\ suppressed' = suppressed \cup {q}
            /\ topic' = Append(topic, {Update("remove", q, Absent)})
        BY <3>1, <3>3 DEF OnSuppress
      <4>2. {Update("remove", q, Absent)} \in Diffs
        BY <3>1, RemoveDiffType
      <4>3. CASE o = q
        BY <3>1, <4>1, <4>3, RemovePublishedGoingOut DEF Published
      <4>4. CASE o # q
        <5>1. GoingOut(o) /\ o \in Objects
          BY <1>3, <3>1, <4>1, <4>4
        <5>2. \A u \in {Update("remove", q, Absent)} : ~ (u.op = "add" /\ u.id = o)
          BY DEF Update
        <5> QED BY <3>1, <4>1, <4>2, <5>1, <5>2, PublishedGoingOut DEF Published
      <4> QED BY <4>3, <4>4
    <3> QED BY <3>2, <3>3
  <2>3. CASE Head(control).op # "suppress"
    <3>1. suppressed' \subseteq suppressed /\ UNCHANGED <<topic, world, lost>>
      BY <1>4, <2>3 DEF OnControlCommand, OnUnsuppress
    <3>2. GoingOut(o)
      BY <1>3, <3>1
    <3> QED BY <3>1, <3>2 DEF GoingOut, AddsAreRemoved, PresenceIsRemoved, Mentions
  <2> QED BY <2>2, <2>3
<1>5. ASSUME NEW located \in SUBSET Objects, NEW due \in SUBSET published,
             PublishPoses(located, due)
      PROVE  GoingOut(o)'
  <2>1. GoingOut(o) /\ o \in Objects /\ o \in suppressed
    BY <1>3, <1>5 DEF PublishPoses
  <2>2. /\ TickDiff(located, due) \in Diffs
        /\ \A u \in TickDiff(located, due) : ~ (u.op = "add" /\ u.id = o)
    BY <2>1, TickDiffType
  <2>3. Published(TickDiff(located, due)) /\ world' = world
    BY <1>5 DEF PublishPoses, Published
  <2> QED BY <2>1, <2>2, <2>3, PublishedGoingOut
<1>6. CASE ApplyDiff
  BY <1>3, <1>6, AppliedGoingOut DEF ApplyDiff, pubVars
<1>7. CASE RestartMoveGroup
  <2>1. topic' = <<>> /\ suppressed' = suppressed /\ world' = [q \in Objects |-> Absent]
    BY <1>7 DEF RestartMoveGroup, pubVars
  <2> QED BY <2>1, <1>1 DEF GoingOut, AddsAreRemoved, PresenceIsRemoved
<1>8. CASE RestartPublisher
  BY <1>8 DEF RestartPublisher
<1>9. CASE LoseOldest
  BY <1>1, <1>9 DEF LoseOldest
<1>10. \/ UNCHANGED vars
       \/ \E c \in Commands : Command(c)
       \/ \E q \in Objects, p \in Poses : MoveObject(q, p)
       => UNCHANGED <<suppressed, topic, world, lost>>
  BY DEF Command, MoveObject, vars, pubVars
<1> QED BY <1>2, <1>4, <1>5, <1>6, <1>7, <1>8, <1>9, <1>10 DEF Next, Publisher

LEMMA Invariance == Spec => []IInv
<1>1. Init => DiffsOK /\ SuppressionTakesHold
  BY DEF Init, DiffsOK, SuppressionTakesHold
<1>2. TypeOK /\ TypeOK' /\ (DiffsOK /\ SuppressionTakesHold) /\ [Next]_vars
        => (DiffsOK /\ SuppressionTakesHold)'
  BY DiffsOKStep, SuppressionStep DEF IInv
<1> QED BY <1>1, <1>2, TypeCorrect, PTL DEF Spec, IInv

(* As long as no diff was overwritten in the topic, whatever a planner     *)
(* will be told of a suppressed object ends with its removal: suppressing  *)
(* an object wins over every ADD already in flight.                        *)
THEOREM SuppressionWins == Spec => []SuppressionTakesHold
BY Invariance, PTL DEF IInv

(* A suppressed object that is gone comes back only after an unsuppress    *)
(* command, whatever is lost or restarted: in particular no MOVE can       *)
(* resurrect it, and no periodic re-ADD is sent for it.                    *)
THEOREM GoneObjectsStayGone == Spec => GoneStaysGone
<1>1. ASSUME IInv, [Next]_vars, NEW o \in suppressed, Gone(o), o \in suppressed'
      PROVE  Gone(o)'
  <2> USE DEF IInv
  <2>0. suppressed \subseteq Objects /\ world[o] = Absent
    BY <1>1 DEF Gone, TypeOK
  <2>1. ASSUME NEW d \in Diffs, Published(d), world' = world,
               \A u \in d : ~ (u.op = "add" /\ u.id = o)
        PROVE  Gone(o)'
    BY <1>1, <2>1, PublishedDiff DEF Gone, Mentions
  <2>2. ASSUME topic' = topic \/ topic' = <<>>, world'[o] = Absent PROVE Gone(o)'
    BY <1>1, <2>2 DEF Gone, Mentions
  <2>3. ASSUME TakenOut, world'[o] = Absent PROVE Gone(o)'
    BY <1>1, <2>3, TakenOutDiff DEF Gone, Mentions
  <2>4. CASE OnControlCommand
    <3>1. Head(control) \in Commands /\ world' = world
      BY <1>1, <2>4, HeadTailProperties DEF OnControlCommand, TypeOK
    <3>2. CASE topic' = topic
      BY <2>0, <2>2, <3>1, <3>2
    <3>3. CASE topic' # topic
      <4>1. Head(control).id \in Objects /\ OnSuppress(Head(control).id)
        BY <2>4, <3>1, <3>3 DEF OnControlCommand, Commands, OnUnsuppress
      <4> DEFINE d == {Update("remove", Head(control).id, Absent)}
      <4>2. d \in Diffs
        BY <4>1, RemoveDiffType
      <4>3. Published(d)
        BY <3>3, <4>1 DEF OnSuppress, Published, pubVars
      <4>4. \A u \in d : ~ (u.op = "add" /\ u.id = o)
        BY DEF Update
      <4> QED BY <2>1, <3>1, <4>2, <4>3, <4>4
    <3> QED BY <3>2, <3>3
  <2>5. ASSUME NEW located \in SUBSET Objects, NEW due \in SUBSET published,
               PublishPoses(located, due)
        PROVE  Gone(o)'
    <3>1. /\ TickDiff(located, due) \in Diffs
          /\ \A u \in TickDiff(located, due) : ~ (u.op = "add" /\ u.id = o)
      BY <1>1, TickDiffType
    <3>2. Published(TickDiff(located, due)) /\ world' = world
      BY <2>5 DEF PublishPoses, Published
    <3> QED BY <2>1, <3>1, <3>2
  <2>6. CASE ApplyDiff
    <3> DEFINE d == Head(topic)
    <3>1. TakenOut /\ world' = Applied(d, world)
      BY <2>6 DEF ApplyDiff, TakenOut
    <3>2. 1 \in DOMAIN topic /\ d = topic[1] /\ d \in Diffs /\ DiffOK(d)
      BY <1>1, <3>1, TakenOutDiff DEF DiffsOK
    <3>3. \A u \in d : u.id = o => u.op # "add"
      BY <1>1, <3>2 DEF Gone, Mentions
    <3>4. \A u \in d : u.id = o => u.op = "move" \/ u.pose = Absent
      BY <3>2, <3>3 DEF DiffOK, Diffs
    <3>5. world'[o] = Absent
      <4>1. CASE \E u \in d : u.id = o
        <5>1. (CHOOSE v \in d : v.id = o) \in d /\ (CHOOSE v \in d : v.id = o).id = o
          BY <4>1
        <5> QED BY <2>0, <3>1, <3>4, <4>1, <5>1 DEF Applied
      <4>2. CASE ~ \E u \in d : u.id = o
        BY <2>0, <3>1, <4>2 DEF Applied
      <4> QED BY <4>1, <4>2
    <3> QED BY <2>3, <3>1, <3>5
  <2>7. CASE RestartMoveGroup
    BY <2>0, <2>2, <2>7 DEF RestartMoveGroup
  <2>8. CASE LoseOldest
    BY <2>0, <2>2, <2>3, <2>8 DEF LoseOldest, TakenOut
  <2>9. \/ RestartPublisher \/ UNCHANGED vars
        \/ \E c \in Commands : Command(c)
        \/ \E q \in Objects, p \in Poses : MoveObject(q, p)
        => topic' = topic /\ world' = world
    BY DEF RestartPublisher, Command, MoveObject, vars
  <2> QED BY <1>1, <2>0, <2>2, <2>4, <2>5, <2>6, <2>7, <2>8, <2>9 DEF Next, Publisher
<1>2. IInv /\ [Next]_vars
        => [\A o \in suppressed : Gone(o) /\ o \in suppressed' => Gone(o)']_vars
  BY <1>1
<1> QED BY <1>2, Invariance, PTL DEF Spec, GoneStaysGone

-----------------------------------------------------------------------------
(* How the objects that will be shown change when a diff is published:     *)
(* nothing already in the topic matters for an object the diff adds or     *)
(* removes.                                                                *)
LEMMA PublishedShown ==
  ASSUME TypeOK, NEW o \in Objects, NEW d \in Diffs, DiffOK(d), Published(d), world' = world
  PROVE  /\ (\E u \in d : u.op = "add" /\ u.id = o) => WillBeShown(o)'
         /\ (\E u \in d : u.op = "remove" /\ u.id = o) => ~ WillBeShown(o)'
         /\ (\A u \in d : u.id = o => u.op = "move") => WillBeShown(o)' = WillBeShown(o)
<1>1. PICK n \in Nat : /\ n = Len(topic) /\ DOMAIN topic = 1 .. n /\ DOMAIN topic' = 1 .. n + 1
                       /\ \A i \in 1 .. n : topic'[i] = topic[i]
                       /\ topic'[n + 1] = d
  BY PublishedDiff
<1>2. \A i \in 1 .. n : \A op : Mentions(i, op, o)' <=> Mentions(i, op, o)
  BY <1>1 DEF Mentions
<1>3. PICK k \in Nat : k = n + 1 /\ k \in DOMAIN topic'
                       /\ \A i \in DOMAIN topic' : i # k => i \in 1 .. n /\ i < k
  BY <1>1
<1>4. \A op : Mentions(k, op, o)' <=> \E u \in d : u.op = op /\ u.id = o
  BY <1>1, <1>3 DEF Mentions
<1>5. ASSUME \E u \in d : u.op = "add" /\ u.id = o PROVE WillBeShown(o)'
  <2>1. Mentions(k, "add", o)' /\ \A j \in DOMAIN topic' : ~ j > k
    BY <1>1, <1>3, <1>4, <1>5
  <2> QED BY <2>1, <1>3 DEF WillBeShown
<1>6. ASSUME \E u \in d : u.op = "remove" /\ u.id = o PROVE ~ WillBeShown(o)'
  <2>1. Mentions(k, "remove", o)' /\ ~ Mentions(k, "add", o)'
    BY <1>4, <1>6 DEF DiffOK
  <2>2. \A i \in DOMAIN topic' : Mentions(i, "add", o)' => k > i
    BY <2>1, <1>1, <1>3
  <2> QED BY <2>1, <2>2, <1>3 DEF WillBeShown
<1>7. ASSUME \A u \in d : u.id = o => u.op = "move" PROVE WillBeShown(o)' = WillBeShown(o)
  <2>1. ~ Mentions(k, "remove", o)' /\ ~ Mentions(k, "add", o)'
    BY <1>4, <1>7
  <2>2. \A i \in DOMAIN topic : i \in 1 .. n /\ i \in DOMAIN topic'
    BY <1>1
  <2> QED BY <2>1, <2>2, <1>1, <1>2, <1>3 DEF WillBeShown
<1> QED BY <1>5, <1>6, <1>7

(* Applying a diff changes none of them.                                   *)
LEMMA AppliedShown ==
  ASSUME TypeOK, DiffsOK, NEW o \in Objects, ApplyDiff
  PROVE  WillBeShown(o)' = WillBeShown(o)
<1> DEFINE d == Head(topic)
<1>1. TakenOut /\ world' = Applied(d, world)
  BY DEF ApplyDiff, TakenOut
<1>2. 1 \in DOMAIN topic /\ d = topic[1] /\ d \in Diffs /\ DiffOK(d)
      /\ DOMAIN topic \subseteq Nat \ {0}
  BY <1>1, TakenOutDiff DEF DiffsOK
<1>3. \A j \in DOMAIN topic : \A op : Mentions(j, op, o) /\ j # 1 =>
        j - 1 \in DOMAIN topic' /\ Mentions(j - 1, op, o)'
  BY <1>1, TakenOutDiff DEF Mentions
<1>4. \A i \in DOMAIN topic' : \A op : Mentions(i, op, o)' =>
        i + 1 \in DOMAIN topic /\ i + 1 # 1 /\ Mentions(i + 1, op, o)
  BY <1>1, TakenOutDiff DEF Mentions
<1>5. \A op : Mentions(1, op, o) <=> \E u \in d : u.op = op /\ u.id = o
  BY <1>2 DEF Mentions
<1>6. world'[o] # Absent <=>
        Mentions(1, "add", o) \/ (world[o] # Absent /\ ~ Mentions(1, "remove", o))
  <2>1. CASE \E u \in d : u.id = o
    <3>1. PICK u \in d : u.id = o
      BY <2>1
    <3>2. (CHOOSE v \in d : v.id = o) = u /\ \A v \in d : v.id = o => v = u
      BY <1>2, <3>1 DEF DiffOK
    <3>3. world'[o] = IF u.op = "move" /\ world[o] = Absent THEN Absent ELSE u.pose
      BY <1>1, <3>1, <3>2 DEF Applied
    <3>4. u.op \in {"add", "move", "remove"} /\ (u.op = "remove" <=> u.pose = Absent)
      BY <1>2, <3>1 DEF DiffOK, Diffs
    <3>5. \A op : Mentions(1, op, o) <=> u.op = op
      BY <1>5, <3>1, <3>2
    <3> QED BY <3>3, <3>4, <3>5
  <2>2. CASE ~ \E u \in d : u.id = o
    BY <1>1, <1>5, <2>2 DEF Applied
  <2> QED BY <2>1, <2>2
<1>7. \A i, j \in DOMAIN topic' : i < j <=> i + 1 < j + 1
  BY <1>1, TakenOutDiff
<1>8. DOMAIN topic' \subseteq Nat \ {0} /\ \A j \in DOMAIN topic : j = 1 \/ j > 1
  BY <1>1, <1>2, TakenOutDiff
<1>9. ~ (Mentions(1, "add", o) /\ Mentions(1, "remove", o))
  BY <1>2, <1>5 DEF DiffOK
<1>10. ASSUME WillBeShown(o) PROVE WillBeShown(o)'
  <2>1. CASE \E i \in DOMAIN topic : /\ Mentions(i, "add", o) /\ i # 1
               /\ \A j \in DOMAIN topic : j > i => ~ Mentions(j, "remove", o)
    <3>1. PICK i \in DOMAIN topic : /\ Mentions(i, "add", o) /\ i # 1
               /\ \A j \in DOMAIN topic : j > i => ~ Mentions(j, "remove", o)
      BY <2>1
    <3>2. i - 1 \in DOMAIN topic' /\ Mentions(i - 1, "add", o)'
      BY <1>3, <3>1
    <3>3. \A j \in DOMAIN topic' : j > i - 1 => ~ Mentions(j, "remove", o)'
      BY <1>2, <1>4, <1>8, <3>1
    <3> QED BY <3>2, <3>3 DEF WillBeShown
  <2>2. CASE /\ Mentions(1, "add", o) \/ world[o] # Absent
             /\ \A j \in DOMAIN topic : Mentions(j, "remove", o) => j = 1 /\ Mentions(1, "add", o)
    <3>1. \A j \in DOMAIN topic : ~ Mentions(j, "remove", o)
      BY <2>2, <1>9
    <3>2. world'[o] # Absent
      BY <1>2, <1>6, <2>2, <3>1
    <3> QED BY <1>4, <3>1, <3>2 DEF WillBeShown
  <2> QED BY <1>8, <1>10, <2>1, <2>2, <1>9 DEF WillBeShown
<1>11. ASSUME WillBeShown(o)' PROVE WillBeShown(o)
  <2>1. CASE \E i \in DOMAIN topic' : /\ Mentions(i, "add", o)'
               /\ \A j \in DOMAIN topic' : j > i => ~ Mentions(j, "remove", o)'
    <3>1. PICK i \in DOMAIN topic' : /\ Mentions(i, "add", o)'
               /\ \A j \in DOMAIN topic' : j > i => ~ Mentions(j, "remove", o)'
      BY <2>1
    <3>2. i + 1 \in DOMAIN topic /\ Mentions(i + 1, "add", o)
      BY <1>4, <3>1
    <3>3. \A j \in DOMAIN topic : j > i + 1 => ~ Mentions(j, "remove", o)
      <4> SUFFICES ASSUME NEW j \in DOMAIN topic, j > i + 1, Mentions(j, "remove", o)
                   PROVE  FALSE
        OBVIOUS
      <4>1. j # 1 /\ j - 1 > i
        BY <1>2, <1>8
      <4> QED BY <1>3, <3>1, <4>1
    <3> QED BY <3>2, <3>3 DEF WillBeShown
  <2>2. CASE world'[o] # Absent /\ \A j \in DOMAIN topic' : ~ Mentions(j, "remove", o)'
    <3>1. \A j \in DOMAIN topic : Mentions(j, "remove", o) => j = 1
      BY <1>3, <2>2
    <3>2. CASE Mentions(1, "add", o)
      <4>1. \A j \in DOMAIN topic : j > 1 => ~ Mentions(j, "remove", o)
        BY <1>8, <3>1
      <4> QED BY <1>2, <3>2, <4>1 DEF WillBeShown
    <3>3. CASE ~ Mentions(1, "add", o)
      BY <1>6, <2>2, <3>1, <3>3 DEF WillBeShown
    <3> QED BY <3>2, <3>3
  <2> QED BY <1>11, <2>1, <2>2 DEF WillBeShown
<1> QED BY <1>10, <1>11 DEF WillBeShown

-----------------------------------------------------------------------------
(* The initial state of the publisher maps to that of ObjectVisibility.    *)
LEMMA InitRefines == Init => Visibility!Init
BY DEF Init, Visibility!Init, Shown, WillBeShown, Mentions

(* While no diff was overwritten, every step maps to a step or a stutter.  *)
LEMMA StepRefines ==
  ASSUME TypeOK, DiffsOK, [Next]_vars, lost' = 0
  PROVE  [Visibility!Next]_<<suppressed, Shown>>
<1>a. lost = 0 /\ ~ LoseOldest
  BY DEF TypeOK, Next, Publisher, vars, Command, OnControlCommand, PublishPoses, ApplyDiff,
         MoveObject, RestartMoveGroup, RestartPublisher, LoseOldest
<1> DEFINE shown == {o \in Objects : WillBeShown(o)}
<1>b. Shown = shown /\ Shown' = shown'
  BY <1>a DEF Shown
<1> USE <1>b DEF Visibility!Next, Visibility!Hide, Visibility!Unhide, Visibility!Show, Visibility!Forget
<1>0. suppressed \subseteq Objects
  BY DEF TypeOK
<1>1. ASSUME UNCHANGED <<topic, world>> PROVE UNCHANGED shown
  BY <1>1 DEF WillBeShown, Mentions
<1>2. ASSUME NEW o \in Objects, OnSuppress(o), world' = world
      PROVE  [Visibility!Next]_<<suppressed, Shown>>
  <2>1. CASE o \in suppressed
    BY <1>1, <1>2, <2>1 DEF OnSuppress, pubVars
  <2>2. CASE o \notin suppressed
    <3> DEFINE d == {Update("remove", o, Absent)}
    <3>1. suppressed' = suppressed \cup {o} /\ Published(d)
      BY <1>2, <2>2 DEF OnSuppress, Published
    <3>2. d \in Diffs /\ DiffOK(d)
      BY RemoveDiffType
    <3>3. \E u \in d : u.op = "remove" /\ u.id = o
      BY DEF Update
    <3>4. \A q \in Objects : q # o => \A u \in d : u.id = q => u.op = "move"
      BY DEF Update
    <3> HIDE DEF d
    <3>5. ~ WillBeShown(o)'
      BY <1>2, <3>1, <3>2, <3>3, PublishedShown
    <3>6. \A q \in Objects : q # o => WillBeShown(q)' = WillBeShown(q)
      BY <1>2, <3>1, <3>2, <3>4, PublishedShown
    <3>7. shown' = shown \ {o}
      BY <3>5, <3>6
    <3> QED BY <3>1, <3>7
  <2> QED BY <2>1, <2>2
<1>3. ASSUME NEW ids \in SUBSET Objects, OnUnsuppress(ids), world' = world
      PROVE  [Visibility!Next]_<<suppressed, Shown>>
  BY <1>1, <1>3 DEF OnUnsuppress
<1>4. CASE OnControlCommand
  <2>1. Head(control) \in Commands /\ world' = world
    BY <1>4, HeadTailProperties DEF OnControlCommand, TypeOK
  <2>2. CASE Head(control).op = "clear"
    BY <1>3, <1>4, <2>1, <2>2 DEF OnControlCommand
  <2>3. CASE Head(control).op # "clear"
    <3>1. Head(control).id \in Objects
      BY <2>1, <2>3 DEF Commands
    <3> QED BY <1>2, <1>3, <1>4, <2>1, <2>3, <3>1 DEF OnControlCommand
  <2> QED BY <2>2, <2>3
<1>5. ASSUME NEW located \in SUBSET Objects, NEW due \in SUBSET published,
             PublishPoses(located, due)
      PROVE  [Visibility!Next]_<<suppressed, Shown>>
  <2> DEFINE d == TickDiff(located, due)
             added == {u.id : u \in {v \in d : v.op = "add"}}
  <2>1. /\ d \in Diffs /\ DiffOK(d)
        /\ \A u \in d : u.id \notin suppressed /\ u.op \in {"add", "move"}
    BY TickDiffType
  <2>2. Published(d) /\ world' = world /\ suppressed' = suppressed
    BY <1>5 DEF PublishPoses, Published
  <2> HIDE DEF d
  <2>3. \A o \in added : WillBeShown(o)' /\ o \in Objects /\ o \notin suppressed
    BY <2>1, <2>2, PublishedShown DEF Diffs
  <2>4. \A o \in Objects \ added : \A u \in d : u.id = o => u.op = "move"
    BY <2>1
  <2>5. \A o \in Objects \ added : WillBeShown(o)' = WillBeShown(o)
    BY <2>1, <2>2, <2>4, PublishedShown
  <2>6. shown' = shown \cup added /\ added \cap suppressed = {} /\ added \in SUBSET Objects
    BY <2>3, <2>5
  <2> QED BY <2>2, <2>6
<1>6. CASE ApplyDiff
  <2>1. shown' = shown
    BY <1>6, AppliedShown
  <2> QED BY <1>6, <2>1 DEF ApplyDiff, pubVars
<1>7. CASE RestartMoveGroup
  <2>1. topic' = <<>> /\ world' = [o \in Objects |-> Absent] /\ suppressed' = suppressed
    BY <1>7 DEF RestartMoveGroup, pubVars
  <2>2. shown' = {}
    BY <2>1 DEF WillBeShown
  <2> QED BY <2>1, <2>2
<1>8. CASE RestartPublisher
  <2>1. suppressed' = suppressed \ Objects /\ UNCHANGED <<topic, world>>
    BY <1>0, <1>8 DEF RestartPublisher
  <2> QED BY <1>1, <2>1
<1>9. \/ UNCHANGED vars
      \/ \E c \in Commands : Command(c)
      \/ \E q \in Objects, p \in Poses : MoveObject(q, p)
      => UNCHANGED <<suppressed, topic, world>>
  BY DEF Command, MoveObject, vars, pubVars
<1> QED BY <1>a, <1>1, <1>4, <1>5, <1>6, <1>7, <1>8, <1>9 DEF Next, Publisher

(* After a loss nothing is promised: what the publisher does then only     *)
(* changes what is hidden.                                                 *)
LEMMA LossRefines ==
  ASSUME TypeOK, [Next]_vars, lost' # 0
  PROVE  [Visibility!Next]_<<suppressed, Shown>>
<1> USE DEF Visibility!Next, Visibility!Hide, Visibility!Unhide, Visibility!Forget
<1>1. Shown' = {} /\ suppressed \subseteq Objects
  BY DEF Shown, TypeOK
<1>2. CASE LoseOldest
  BY <1>1, <1>2 DEF LoseOldest, pubVars
<1>3. ~ LoseOldest => lost' = lost
  BY DEF Next, Publisher, vars, Command, OnControlCommand, PublishPoses, ApplyDiff,
         MoveObject, RestartMoveGroup, RestartPublisher
<1>4. CASE Shown = {}
  <2>1. CASE OnControlCommand
    <3>1. Head(control) \in Commands
      BY <2>1, HeadTailProperties DEF OnControlCommand, TypeOK
    <3>2. ASSUME NEW o \in Objects, OnSuppress(o)
          PROVE  \E q \in Objects : Visibility!Hide(q) \/ suppressed' = suppressed
      BY <1>1, <1>4, <3>2 DEF OnSuppress, pubVars
    <3>3. ASSUME NEW ids \in SUBSET Objects, OnUnsuppress(ids)
          PROVE  Visibility!Unhide(ids)
      BY <1>1, <1>4, <3>3 DEF OnUnsuppress
    <3>4. CASE Head(control).op = "clear"
      BY <2>1, <3>1, <3>3, <3>4 DEF OnControlCommand
    <3>5. CASE Head(control).op # "clear"
      <4>1. Head(control).id \in Objects
        BY <3>1, <3>5 DEF Commands
      <4> QED BY <1>1, <1>4, <2>1, <3>2, <3>3, <3>5, <4>1 DEF OnControlCommand
    <3> QED BY <3>4, <3>5
  <2>2. CASE RestartPublisher
    <3>1. suppressed' = suppressed \ Objects
      BY <1>1, <2>2 DEF RestartPublisher
    <3> QED BY <1>1, <1>4, <3>1
  <2>3. ~ OnControlCommand /\ ~ RestartPublisher => suppressed' = suppressed
    BY DEF Next, Publisher, vars, pubVars, Command, PublishPoses, ApplyDiff, MoveObject, RestartMoveGroup,
           LoseOldest
  <2> QED BY <1>1, <1>4, <2>1, <2>2, <2>3
<1> QED BY <1>2, <1>3, <1>4 DEF Shown

(* Until a diff is overwritten, the publisher with its two topics          *)
(* implements ObjectVisibility: hiding an object is atomic, and only a     *)
(* restart of move_group takes anything else away.                         *)
THEOREM ImplementsObjectVisibility == Spec => ImplementsVisibility
<1>1. Init => Visibility!Init
  BY InitRefines
<1>2. IInv /\ [Next]_vars => [Visibility!Next]_<<suppressed, Shown>>
  BY StepRefines, LossRefines DEF IInv
<1> QED BY <1>1, <1>2, Invariance, PTL DEF Spec, ImplementsVisibility, Visibility!Spec
=============================================================================
