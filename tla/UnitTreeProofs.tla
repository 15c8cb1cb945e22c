--------------------------- MODULE UnitTreeProofs ---------------------------
(***************************************************************************)
(* The organisation tree stays a forest when no two moves overlap between  *)
(* their cycle check and their write: TreeInv is inductive under            *)
(* SerialSpec, for any number of units and connections.                     *)
(*                                                                         *)
(* The argument for a move of u under p: a set closed under the new parents *)
(* holds p if it holds u, and loses nothing but u and its descendants when  *)
(* those are taken out; as the check put p outside of them, what is left is *)
(* a non-empty set closed under the old parents, which the old tree has not.*)
(***************************************************************************)
EXTENDS UnitTree, TLAPS

\* Descendants(u) holds the children of u and of its own members ...
LEMMA DescendantsClosed ==
    ASSUME NEW u
    PROVE  /\ Descendants(u) \subseteq Stored
           /\ Children(u) \subseteq Descendants(u)
           /\ \A v \in Descendants(u) : Children(v) \subseteq Descendants(u)
  <1>1. Children(u) \subseteq Stored /\ \A v : Children(v) \subseteq Stored
    BY DEF Children
  <1>2. ASSUME NEW v \in Descendants(u), NEW w \in Children(v),
               NEW S \in SUBSET Stored,
               Children(u) \subseteq S,
               \A x \in S : Children(x) \subseteq S
        PROVE  w \in S
    <2>1. v \in S
      BY <1>2 DEF Descendants
    <2> QED
      BY <1>2, <2>1
  <1> QED
    BY <1>1, <1>2 DEF Descendants

\* ... and is the least such set.
LEMMA DescendantsLeast ==
    ASSUME NEW u, NEW S \in SUBSET Stored,
           Children(u) \subseteq S,
           \A v \in S : Children(v) \subseteq S
    PROVE  Descendants(u) \subseteq S
  BY DEF Descendants

\* The same in the next state.
LEMMA DescendantsLeastNext ==
    ASSUME NEW u, NEW S,
           S \subseteq Stored',
           Children(u)' \subseteq S,
           \A v \in S : Children(v)' \subseteq S
    PROVE  Descendants(u)' \subseteq S
  BY DEF Descendants

\* What an insert does to the set of stored units.
LEMMA StoredAfterAppend ==
    ASSUME created \in Seq(Units), NEW u \in Units, created' = Append(created, u)
    PROVE  /\ Stored' = Stored \cup {u}
           /\ created' \in Seq(Units)
  <1>1. /\ Len(created') = Len(created) + 1
        /\ \A i \in 1..Len(created) : created'[i] = created[i]
        /\ created'[Len(created) + 1] = u
        /\ Len(created) \in Nat
        /\ created' \in Seq(Units)
    OBVIOUS
  <1>2. DOMAIN created = 1..Len(created) /\ DOMAIN created' = 1..Len(created')
    BY <1>1
  <1> QED
    BY <1>1, <1>2 DEF Stored

-----------------------------------------------------------------------------

\* A new leaf closes no cycle.
LEMMA InsertKeepsForest ==
    ASSUME TypeOK, Acyclic, NEW u \in Units \ Stored, NEW p \in Stored \cup {NoUnit},
           parent' = [parent EXCEPT ![u] = p]
    PROVE  Acyclic'
  <1> SUFFICES ASSUME NEW S \in SUBSET Units, S # {},
                      \A v \in S : parent'[v] \in S
               PROVE  FALSE
    BY DEF Acyclic
  <1> DEFINE T == S \ {u}
  <1>1. parent \in [Units -> Stored \cup {NoUnit}] /\ u # NoUnit
    BY UnitAssumption DEF TypeOK
  <1>2. \A v \in T : parent[v] \in T
    BY <1>1
  <1>3. T # {}
    BY <1>1
  <1> QED
    BY <1>2, <1>3 DEF Acyclic

\* Neither does a move to a parent that is not below the unit.
LEMMA MoveKeepsForest ==
    ASSUME TypeOK, Acyclic, NEW u \in Stored, NEW p,
           p # u, p \notin Descendants(u),
           parent' = [parent EXCEPT ![u] = p]
    PROVE  Acyclic'
  <1> SUFFICES ASSUME NEW S \in SUBSET Units, S # {},
                      \A v \in S : parent'[v] \in S
               PROVE  FALSE
    BY DEF Acyclic
  <1> DEFINE T == S \ (Descendants(u) \cup {u})
  <1>1. parent \in [Units -> Stored \cup {NoUnit}] /\ u \in Units
    BY DEF TypeOK, Stored
  <1>2. ASSUME NEW v \in T, parent[v] \in Descendants(u) \cup {u}
        PROVE  FALSE
    <2>1. CASE v \in Stored
      <3>1. v \in Children(parent[v])
        BY <2>1 DEF Children
      <3> QED
        BY <1>2, <3>1, DescendantsClosed
    <2>2. CASE v \notin Stored
      <3>1. parent[v] = NoUnit
        BY <2>2 DEF TypeOK
      <3> QED
        BY <3>1, <1>2, <1>1, DescendantsClosed, UnitAssumption DEF TypeOK, Stored
    <2> QED
      BY <2>1, <2>2
  <1>3. \A v \in T : parent[v] \in T
    BY <1>1, <1>2
  <1>4. T # {}
    <2>1. CASE u \in S
      BY <2>1, <1>1
    <2>2. CASE u \notin S
      <3>1. \A v \in S : parent[v] \in S
        BY <2>2, <1>1
      <3> QED
        BY <3>1 DEF Acyclic
    <2> QED
      BY <2>1, <2>2
  <1> QED
    BY <1>3, <1>4 DEF Acyclic

-----------------------------------------------------------------------------
(* The calls.                                                              *)

\* Steps that leave the tree alone and move one call keep what the others
\* have established.
LEMMA OnlyOneCallMoves ==
    ASSUME TypeOK, ChecksStillHold, UNCHANGED Rows,
           NEW c \in Calls, NEW new \in Call, calls' = [calls EXCEPT ![c] = new],
           new.pc \in {"checkParent", "insert"} => new.unit \in Units,
           new.pc = "insert" => new.dto.parent \in Stored \cup {NoUnit},
           new.pc = "checkCycle" => /\ new.unit \in Stored
                                    /\ new.dto.parent # new.unit
                                    /\ new.dto.parent \in Stored \cup {Missing},
           new.pc = "write" => /\ new.unit \in Stored
                               /\ new.dto.parent \in Stored \cup {NoUnit, Missing, Unchanged},
           (new.pc = "write" /\ new.dto.parent \notin {NoUnit, Unchanged}) =>
               new.dto.parent # new.unit /\ new.dto.parent \notin Descendants(new.unit)
    PROVE  TypeOK' /\ ChecksStillHold'
  <1>1. Stored' = Stored /\ parent' = parent /\ active' = active /\ created' = created
    BY DEF Rows, Stored
  <1>2. \A u : Descendants(u)' = Descendants(u)
    BY <1>1 DEF Descendants, Children
  <1>3. calls' \in [Calls -> Call]
    BY DEF TypeOK
  <1>4. TypeOK'
    BY <1>1, <1>3 DEF TypeOK
  <1>5. \A d \in Calls : calls'[d] = IF d = c THEN new ELSE calls[d]
    BY DEF TypeOK
  <1>6. ChecksStillHold'
    BY <1>1, <1>2, <1>5 DEF ChecksStillHold, Moving
  <1> QED
    BY <1>4, <1>6

LEMMA IdleIsCall ==
    ASSUME NEW code \in {"none", "200", "201", "400", "404", "409", "500"}
    PROVE  Idle(code) \in Call /\ Idle(code).pc = "idle"
  BY DEF Idle, Call, NoDto, Dto

LEMMA AnsweringIsHarmless ==
    ASSUME TypeOK, ChecksStillHold, UNCHANGED Rows, NEW c \in Calls,
           NEW code \in {"200", "201", "400", "404", "409", "500"}, Answers(c, code)
    PROVE  TypeOK' /\ ChecksStillHold'
  BY IdleIsCall, OnlyOneCallMoves DEF Answers

\* A unit that is added below another, or not at all, is no descendant of an
\* old one other than as itself.
LEMMA DescendantsAfterInsert ==
    ASSUME TypeOK, NEW w \in Units \ Stored, NEW q \in Stored \cup {NoUnit},
           Stored' = Stored \cup {w}, parent' = [parent EXCEPT ![w] = q],
           NEW u \in Stored
    PROVE  Descendants(u)' \subseteq Descendants(u) \cup {w}
  <1> DEFINE S == Descendants(u) \cup {w}
  <1>1. parent \in [Units -> Stored \cup {NoUnit}] /\ Stored \subseteq Units /\ w # NoUnit
    BY UnitAssumption DEF TypeOK, Stored
  <1>2. \A v \in Stored : Children(v)' \subseteq Children(v) \cup {w}
    BY <1>1 DEF Children
  <1>3. Children(w)' = {}
    BY <1>1 DEF Children
  <1>4. Children(u)' \subseteq S
    BY <1>2, DescendantsClosed
  <1>5. \A v \in S : Children(v)' \subseteq S
    BY <1>2, <1>3, DescendantsClosed
  <1>6. S \subseteq Stored'
    BY DescendantsClosed
  <1> HIDE DEF S
  <1>7. Descendants(u)' \subseteq S
    BY <1>4, <1>5, <1>6, DescendantsLeastNext
  <1> QED
    BY <1>7 DEF S

\* A unit that becomes a root leaves descendants behind and gives nobody new
\* ones.
LEMMA DescendantsAfterDetach ==
    ASSUME TypeOK, NEW w \in Stored, created' = created,
           parent' = [parent EXCEPT ![w] = NoUnit], NEW u \in Stored
    PROVE  Descendants(u)' \subseteq Descendants(u)
  <1> DEFINE S == Descendants(u)
  <1>1. /\ parent \in [Units -> Stored \cup {NoUnit}]
        /\ Stored \subseteq Units /\ Stored' = Stored
    BY DEF TypeOK, Stored
  <1>2. \A v \in Stored : Children(v)' \subseteq Children(v)
    BY <1>1, UnitAssumption DEF Children
  <1>3. Children(u)' \subseteq S
    BY <1>2, DescendantsClosed
  <1>4. \A v \in S : Children(v)' \subseteq S
    BY <1>2, DescendantsClosed
  <1>5. S \subseteq Stored'
    BY <1>1, DescendantsClosed
  <1> HIDE DEF S
  <1>6. Descendants(u)' \subseteq S
    BY <1>3, <1>4, <1>5, DescendantsLeastNext
  <1> QED
    BY <1>6 DEF S

LEMMA InsertKeepsInv ==
    ASSUME TreeInv, NEW c \in Calls, Insert(c)
    PROVE  TypeOK' /\ ChecksStillHold' /\ Acyclic'
  <1> DEFINE w == calls[c].unit
             q == calls[c].dto.parent
  <1>1. w \in Units /\ q \in Stored \cup {NoUnit} /\ calls[c] \in Call
    BY DEF TreeInv, TypeOK, ChecksStillHold, Insert
  <1>2. CASE w \in Stored
    <2>1. Answers(c, "500") /\ UNCHANGED Rows
      BY <1>2 DEF Insert
    <2>2. Acyclic'
      BY <2>1 DEF Rows, TreeInv, Acyclic
    <2> QED
      BY <2>1, <2>2, AnsweringIsHarmless DEF TreeInv
  <1>3. CASE w \notin Stored
    <2>1. /\ created' = Append(created, w)
          /\ parent' = [parent EXCEPT ![w] = q]
          /\ active' \subseteq active \cup {w}
          /\ calls' = [calls EXCEPT ![c] = Idle("201")]
      BY <1>3 DEF Insert, Answers
    <2> HIDE DEF w, q
    <2>2. Stored' = Stored \cup {w} /\ created' \in Seq(Units)
      BY <1>1, <2>1, StoredAfterAppend DEF TreeInv, TypeOK
    <2>3. Acyclic'
      BY <1>1, <1>3, <2>1, InsertKeepsForest DEF TreeInv
    <2>4. calls' \in [Calls -> Call]
      BY <2>1, IdleIsCall DEF TreeInv, TypeOK
    <2>5. parent' \in [Units -> Stored' \cup {NoUnit}] /\ \A u \in Units \ Stored' : parent'[u] = NoUnit
      BY <1>1, <2>1, <2>2 DEF TreeInv, TypeOK
    <2>6. active' \subseteq Stored'
      BY <2>1, <2>2 DEF TreeInv, TypeOK
    <2>7. TypeOK'
      BY <2>2, <2>4, <2>5, <2>6 DEF TypeOK
    <2>8. ASSUME NEW u \in Stored
          PROVE  Descendants(u)' \subseteq Descendants(u) \cup {w}
      BY <1>1, <1>3, <2>1, <2>2, DescendantsAfterInsert DEF TreeInv
    <2>9. \A d \in Calls : calls'[d] = IF d = c THEN Idle("201") ELSE calls[d]
      BY <2>1 DEF TreeInv, TypeOK
    <2>10. ASSUME NEW d \in Calls, Moving(d)'
          PROVE  (/\ calls[d].dto.parent # calls[d].unit
                  /\ calls[d].dto.parent \notin Descendants(calls[d].unit))'
      <3>1. d # c /\ calls'[d] = calls[d]
        BY <2>10, <2>9, IdleIsCall DEF Moving
      <3>2. /\ Moving(d) /\ calls[d].unit \in Stored
            /\ calls[d].dto.parent \in Stored \cup {Missing}
            /\ calls[d].dto.parent # calls[d].unit
            /\ calls[d].dto.parent \notin Descendants(calls[d].unit)
        BY <2>10, <3>1 DEF Moving, TreeInv, ChecksStillHold
      <3>3. calls[d].dto.parent # w
        BY <3>2, <1>1, <1>3, UnitAssumption
      <3> QED
        BY <3>1, <3>2, <3>3, <2>8
    <2>11. ChecksStillHold'
      BY <2>2, <2>9, <2>10, IdleIsCall DEF TreeInv, ChecksStillHold
    <2> QED
      BY <2>3, <2>7, <2>11
  <1> QED
    BY <1>2, <1>3

LEMMA WriteKeepsInv ==
    ASSUME TreeInv, NEW c \in Calls, Write(c)
    PROVE  TypeOK' /\ ChecksStillHold' /\ Acyclic'
  <1> DEFINE w == calls[c].unit
             q == calls[c].dto.parent
  <1>1. /\ w \in Stored /\ w \in Units
        /\ q \in Stored \cup {NoUnit, Missing, Unchanged}
        /\ q \notin {NoUnit, Unchanged} => Moving(c) /\ q # w /\ q \notin Descendants(w)
    BY DEF TreeInv, TypeOK, ChecksStillHold, Write, Moving, Stored
  <1>2. /\ created' = created /\ Stored' = Stored
        /\ active' \subseteq active \cup {w}
    BY DEF Write, Stored
  <1>3. CASE q = Missing
    <2>1. Answers(c, "500") /\ UNCHANGED Rows
      BY <1>3 DEF Write, Rows
    <2>2. Acyclic'
      BY <2>1 DEF Rows, TreeInv, Acyclic
    <2> QED
      BY <2>1, <2>2, AnsweringIsHarmless DEF TreeInv
  <1>4. CASE q # Missing
    <2>1. /\ parent' = IF q = Unchanged THEN parent ELSE [parent EXCEPT ![w] = q]
          /\ calls' = [calls EXCEPT ![c] = Idle("200")]
      BY <1>4 DEF Write, Answers
    <2> HIDE DEF w, q
    <2>2. calls' \in [Calls -> Call]
      BY <2>1, IdleIsCall DEF TreeInv, TypeOK
    <2>3. parent' \in [Units -> Stored' \cup {NoUnit}] /\ \A u \in Units \ Stored' : parent'[u] = NoUnit
      BY <1>1, <1>2, <1>4, <2>1 DEF TreeInv, TypeOK
    <2>4. active' \subseteq Stored'
      BY <1>1, <1>2 DEF TreeInv, TypeOK
    <2>5. TypeOK'
      BY <1>2, <2>2, <2>3, <2>4 DEF TreeInv, TypeOK
    <2>6. Acyclic'
      <3>1. CASE q = Unchanged
        BY <3>1, <2>1 DEF TreeInv, Acyclic
      <3>2. CASE q = NoUnit
        <4>1. q # w /\ q \notin Descendants(w)
          BY <3>2, <1>1, UnitAssumption, DescendantsClosed DEF TreeInv, TypeOK, Stored
        <4> QED
          BY <4>1, <3>2, <1>1, <2>1, UnitAssumption, MoveKeepsForest DEF TreeInv
      <3>3. CASE q \notin {NoUnit, Unchanged}
        BY <3>3, <1>1, <2>1, MoveKeepsForest DEF TreeInv
      <3> QED
        BY <3>1, <3>2, <3>3
    <2>7. \A d \in Calls : calls'[d] = IF d = c THEN Idle("200") ELSE calls[d]
      BY <2>1 DEF TreeInv, TypeOK
    <2>8. ASSUME NEW d \in Calls, Moving(d)'
          PROVE  (/\ calls[d].dto.parent # calls[d].unit
                  /\ calls[d].dto.parent \notin Descendants(calls[d].unit))'
      <3>1. d # c /\ calls'[d] = calls[d]
        BY <2>8, <2>7, IdleIsCall DEF Moving
      <3>2. /\ Moving(d) /\ calls[d].unit \in Stored
            /\ calls[d].dto.parent # calls[d].unit
            /\ calls[d].dto.parent \notin Descendants(calls[d].unit)
        BY <2>8, <3>1 DEF Moving, TreeInv, ChecksStillHold
      <3>3. q \in {NoUnit, Unchanged}
        BY <1>1, <3>1, <3>2 DEF TreeInv, OneMoveAtATime
      <3>4. ASSUME NEW u \in Stored
            PROVE  Descendants(u)' \subseteq Descendants(u)
        <4>1. CASE q = NoUnit
          BY <4>1, <1>1, <1>2, <2>1, UnitAssumption, DescendantsAfterDetach DEF TreeInv
        <4>2. CASE q = Unchanged
          BY <4>2, <1>2, <2>1 DEF Descendants, Children
        <4> QED
          BY <3>3, <4>1, <4>2
      <3> QED
        BY <3>1, <3>2, <3>4
    <2>9. ChecksStillHold'
      BY <1>2, <2>7, <2>8, IdleIsCall DEF TreeInv, ChecksStillHold
    <2> QED
      BY <2>5, <2>6, <2>9
  <1> QED
    BY <1>3, <1>4

\* The steps that only read, and those that fail.
LEMMA ReadsKeepInv ==
    ASSUME TreeInv, NEW c \in Calls,
           \/ \E u \in Units, dto \in Dto : Known(dto) /\
                 ((Create(c, u, dto) /\ dto.parent # Unchanged) \/ Update(c, u, dto))
           \/ \E u \in Units : Deactivate(c, u)
           \/ CheckParent(c) \/ CheckCycle(c) \/ Fail(c)
    PROVE  TypeOK' /\ ChecksStillHold' /\ Acyclic'
  <1>1. UNCHANGED Rows
    BY DEF Create, Update, Deactivate, CheckParent, CheckCycle, Fail
  <1>2. Acyclic'
    BY <1>1 DEF Rows, TreeInv, Acyclic
  <1>3. CASE \E code \in {"200", "201", "400", "404", "409", "500"} : Answers(c, code)
    BY <1>1, <1>2, <1>3, AnsweringIsHarmless DEF TreeInv
  <1>4. ASSUME NEW pc \in {"checkParent", "insert", "checkCycle", "write"},
               NEW u \in Units, NEW dto \in Dto, GoesOn(c, pc, u, dto),
               pc = "insert" => dto.parent \in Stored \cup {NoUnit},
               pc = "checkCycle" => /\ u \in Stored /\ dto.parent # u
                                    /\ dto.parent \in Stored \cup {Missing},
               pc = "write" => /\ u \in Stored
                               /\ dto.parent \in Stored \cup {NoUnit, Missing, Unchanged},
               (pc = "write" /\ dto.parent \notin {NoUnit, Unchanged}) =>
                   dto.parent # u /\ dto.parent \notin Descendants(u)
        PROVE  TypeOK' /\ ChecksStillHold'
    <2> DEFINE new == [pc |-> pc, unit |-> u, dto |-> dto, answer |-> "none"]
    <2>1. new \in Call
      BY DEF Call
    <2>2. calls' = [calls EXCEPT ![c] = new]
      BY <1>4 DEF GoesOn
    <2> QED
      BY <1>1, <1>4, <2>1, <2>2, OnlyOneCallMoves DEF TreeInv
  <1>5. CASE \E u \in Units, dto \in Dto :
               Known(dto) /\ Create(c, u, dto) /\ dto.parent # Unchanged
    <2>1. PICK u \in Units, dto \in Dto :
             Known(dto) /\ Create(c, u, dto) /\ dto.parent # Unchanged
      BY <1>5
    <2>2. CASE GoesOn(c, "insert", u, dto) /\ dto.parent = NoUnit
      BY <2>2, <1>2, <1>4
    <2>3. CASE GoesOn(c, "checkParent", u, dto)
      BY <2>3, <1>2, <1>4
    <2> QED
      BY <2>1, <2>2, <2>3, <1>3 DEF Create
  <1>6. CASE \E u \in Units, dto \in Dto : Known(dto) /\ Update(c, u, dto)
    <2>1. PICK u \in Units, dto \in Dto : Known(dto) /\ Update(c, u, dto)
      BY <1>6
    <2>2. CASE /\ GoesOn(c, "write", u, dto) /\ u \in Stored
               /\ dto.parent \in {NoUnit, Unchanged}
      BY <2>2, <1>2, <1>4
    <2>3. CASE /\ GoesOn(c, "checkCycle", u, dto) /\ u \in Stored
               /\ dto.parent \notin {NoUnit, Unchanged, u}
      <3>1. dto.parent \in Stored \cup {Missing}
        BY <2>1, <2>3 DEF Known, Dto
      <3> QED
        BY <2>3, <3>1, <1>2, <1>4
    <2> QED
      BY <2>1, <2>2, <2>3, <1>3 DEF Update
  <1>7. CASE \E u \in Units : Deactivate(c, u)
    <2>1. PICK u \in Units : Deactivate(c, u)
      BY <1>7
    <2> DEFINE dto == [parent |-> Unchanged, active |-> FALSE]
    <2>2. dto \in Dto /\ dto.parent = Unchanged
      BY DEF Dto
    <2>3. CASE GoesOn(c, "write", u, dto) /\ u \in Stored
      BY <2>3, <2>2, <1>2, <1>4
    <2> QED
      BY <2>1, <2>3, <1>3 DEF Deactivate
  <1>8. CASE CheckParent(c)
    <2>1. calls[c] \in Call /\ calls[c].unit \in Units
      BY <1>8 DEF TreeInv, TypeOK, ChecksStillHold, CheckParent
    <2>2. CASE GoesOn(c, "insert", calls[c].unit, calls[c].dto) /\ calls[c].dto.parent \in Stored
      <3>1. calls[c].dto \in Dto
        BY <2>1 DEF Call
      <3> QED
        BY <2>1, <2>2, <3>1, <1>2, <1>4
    <2> QED
      BY <1>8, <2>2, <1>3 DEF CheckParent
  <1>9. CASE CheckCycle(c)
    <2>1. /\ calls[c] \in Call
          /\ calls[c].unit \in Stored
          /\ calls[c].dto.parent # calls[c].unit
          /\ calls[c].dto.parent \in Stored \cup {Missing}
      BY <1>9 DEF TreeInv, TypeOK, ChecksStillHold, CheckCycle
    <2>2. calls[c].dto \in Dto /\ calls[c].unit \in Units
      BY <2>1 DEF Call, TreeInv, TypeOK, Stored
    <2>3. CASE /\ GoesOn(c, "write", calls[c].unit, calls[c].dto)
               /\ calls[c].dto.parent \notin Descendants(calls[c].unit)
      BY <2>1, <2>2, <2>3, <1>2, <1>4
    <2> QED
      BY <1>9, <2>3, <1>3 DEF CheckCycle
  <1>10. CASE Fail(c)
    BY <1>10, <1>3 DEF Fail
  <1> QED
    BY <1>5, <1>6, <1>7, <1>8, <1>9, <1>10

-----------------------------------------------------------------------------

\* TreeInv is an invariant of the serial specification: rows and calls keep
\* their types, a passed cycle check holds until its write, there is no cycle.
THEOREM TreeInvariant == SerialSpec => []TreeInv
  <1>1. Init => TreeInv
    <2> SUFFICES ASSUME Init PROVE TreeInv
      OBVIOUS
    <2>1. Stored = {} /\ created \in Seq(Units)
      BY DEF Init, Stored
    <2>2. \A c \in Calls : calls[c] = Idle("none") /\ calls[c] \in Call /\ calls[c].pc = "idle"
      BY IdleIsCall DEF Init
    <2>3. TypeOK
      BY <2>1, <2>2, IdleIsCall DEF Init, TypeOK
    <2>4. ChecksStillHold /\ OneMoveAtATime
      BY <2>2 DEF ChecksStillHold, OneMoveAtATime, Moving
    <2>5. Acyclic
      BY UnitAssumption DEF Init, Acyclic
    <2> QED
      BY <2>3, <2>4, <2>5 DEF TreeInv
  <1>2. TreeInv /\ [Next /\ OneMoveAtATime']_vars => TreeInv'
    <2> SUFFICES ASSUME TreeInv, [Next /\ OneMoveAtATime']_vars PROVE TreeInv'
      OBVIOUS
    <2>1. CASE Next /\ OneMoveAtATime'
      <3>1. PICK c \in Calls :
               \/ \E u \in Units, p \in Stored \cup {NoUnit, Missing}, a \in BOOLEAN :
                     Create(c, u, [parent |-> p, active |-> a])
               \/ \E u \in Units, dto \in UpdateDtos : Known(dto) /\ Update(c, u, dto)
               \/ \E u \in Units : Deactivate(c, u)
               \/ CheckParent(c) \/ Insert(c) \/ CheckCycle(c) \/ Write(c) \/ Fail(c)
        BY <2>1 DEF Next
      <3>2. ASSUME NEW u \in Units, NEW p \in Stored \cup {NoUnit, Missing}, NEW a \in BOOLEAN,
                   Create(c, u, [parent |-> p, active |-> a])
            PROVE  TypeOK' /\ ChecksStillHold' /\ Acyclic'
        <4> DEFINE dto == [parent |-> p, active |-> a]
        <4>1. dto \in Dto /\ Known(dto) /\ dto.parent # Unchanged
          BY UnitAssumption DEF Dto, Known, TreeInv, TypeOK, Stored
        <4>2. Create(c, u, dto)
          BY <3>2
        <4> HIDE DEF dto
        <4> QED
          BY <4>1, <4>2, ReadsKeepInv
      <3>3. CASE \E u \in Units, dto \in UpdateDtos : Known(dto) /\ Update(c, u, dto)
        BY <2>1, <3>3, UnitAssumption, ReadsKeepInv DEF TreeInv
      <3> QED
        BY <2>1, <3>1, <3>2, <3>3, ReadsKeepInv, InsertKeepsInv, WriteKeepsInv DEF TreeInv
    <2>2. CASE UNCHANGED vars
      <3>1. Stored' = Stored /\ UNCHANGED <<created, parent, active, calls>>
        BY <2>2 DEF vars, Stored
      <3>2. \A u : Descendants(u)' = Descendants(u)
        BY <3>1 DEF Descendants, Children
      <3>3. TypeOK' /\ Acyclic' /\ OneMoveAtATime'
        BY <3>1 DEF TreeInv, TypeOK, Acyclic, OneMoveAtATime, Moving
      <3>4. ChecksStillHold'
        BY <3>1, <3>2 DEF TreeInv, ChecksStillHold, Moving
      <3> QED
        BY <3>3, <3>4 DEF TreeInv
    <2> QED
      BY <2>1, <2>2
  <1> QED
    BY <1>1, <1>2, PTL DEF SerialSpec

\* "unit cannot become its own ancestor", for any number of units and
\* connections, when no two moves overlap.
THEOREM NoCycle == SerialSpec => []Acyclic
  BY TreeInvariant, PTL DEF TreeInv

\* Between its check and its write, nothing invalidates a move.
THEOREM ChecksHold == SerialSpec => []ChecksStillHold
  BY TreeInvariant, PTL DEF TreeInv

\* Type correctness; with it, that a stored parent is always a stored unit.
THEOREM TypeCorrect == SerialSpec => []TypeOK
  BY TreeInvariant, PTL DEF TreeInv

-----------------------------------------------------------------------------
(* What findTree and findAncestors answer from such a tree.                 *)

\* Descendants of a descendant are descendants.
LEMMA DescendantsTransitive ==
    ASSUME NEW u, NEW v \in Descendants(u)
    PROVE  Descendants(v) \subseteq Descendants(u)
  <1>1. Descendants(u) \in SUBSET Stored
    BY DescendantsClosed
  <1>2. /\ Children(v) \subseteq Descendants(u)
        /\ \A w \in Descendants(u) : Children(w) \subseteq Descendants(u)
    BY DescendantsClosed
  <1> QED
    BY <1>1, <1>2, DescendantsLeast

\* A descendant hangs below the unit or below another descendant.
LEMMA ParentOfDescendant ==
    ASSUME NEW u, NEW v \in Descendants(u)
    PROVE  parent[v] \in Descendants(u) \cup {u}
  <1> DEFINE S == {w \in Descendants(u) : parent[w] \in Descendants(u) \cup {u}}
  <1>1. S \in SUBSET Stored
    BY DescendantsClosed
  <1>2. Children(u) \subseteq S
    BY DescendantsClosed DEF Children
  <1>3. \A w \in S : Children(w) \subseteq S
    BY DescendantsClosed DEF Children
  <1> HIDE DEF S
  <1>4. Descendants(u) \subseteq S
    BY <1>1, <1>2, <1>3, DescendantsLeast
  <1> QED
    BY <1>4 DEF S

\* A unit with a stored parent is a descendant of it.
LEMMA BelowItsParent ==
    ASSUME NEW v \in Stored
    PROVE  v \in Descendants(parent[v])
  BY DescendantsClosed DEF Children

\* Without a cycle no unit is below itself: the units that are both below u
\* and above it would be closed under parents.
LEMMA NotBelowItself ==
    ASSUME TypeOK, Acyclic, NEW u
    PROVE  u \notin Descendants(u)
  <1> SUFFICES ASSUME u \in Descendants(u) PROVE FALSE
    OBVIOUS
  <1> DEFINE S == {v \in Descendants(u) : u \in Descendants(v)}
  <1>1. S # {} /\ S \subseteq Stored /\ S \subseteq Units
    BY DescendantsClosed DEF TypeOK, Stored
  <1>2. ASSUME NEW v \in S
        PROVE  parent[v] \in S
    <2>1. parent[v] \in Descendants(u)
      BY ParentOfDescendant
    <2>2. v \in Descendants(parent[v])
      BY <1>1, BelowItsParent
    <2>3. u \in Descendants(parent[v])
      BY <2>2, DescendantsTransitive
    <2> QED
      BY <2>1, <2>3
  <1> HIDE DEF S
  <1> QED
    BY <1>1, <1>2 DEF Acyclic

\* Two units with one parent have no descendant in common, and neither is
\* below the other.
LEMMA SiblingsAreApart ==
    ASSUME TypeOK, Acyclic, NEW a \in Stored, NEW b \in Stored, a # b,
           parent[a] = parent[b]
    PROVE  (Descendants(a) \cup {a}) \cap (Descendants(b) \cup {b}) = {}
  <1>1. ASSUME NEW v \in Stored, NEW w \in Stored, parent[v] = parent[w]
        PROVE  v \notin Descendants(w)
    <2> SUFFICES ASSUME v \in Descendants(w) PROVE FALSE
      OBVIOUS
    <2>1. parent[w] \in Descendants(w) \cup {w}
      BY <1>1, ParentOfDescendant
    <2>2. w \in Descendants(parent[w])
      BY BelowItsParent
    <2>3. w \in Descendants(w)
      BY <2>1, <2>2, DescendantsTransitive
    <2> QED
      BY <2>3, NotBelowItself
  <1>2. a \notin Descendants(b) /\ b \notin Descendants(a)
    BY <1>1
  <1> DEFINE S == Descendants(a) \cap Descendants(b)
  <1>3. S \subseteq Units
    BY DescendantsClosed DEF TypeOK, Stored
  <1>4. ASSUME NEW v \in S
        PROVE  parent[v] \in S
    <2>1. /\ parent[v] \in Descendants(a) \cup {a}
          /\ parent[v] \in Descendants(b) \cup {b}
      BY ParentOfDescendant
    <2> QED
      BY <1>2, <2>1
  <1> HIDE DEF S
  <1>5. S = {}
    BY <1>3, <1>4 DEF Acyclic
  <1> QED
    BY <1>2, <1>5 DEF S

\* "Returns the full nested hierarchy" (findTree): every stored unit is
\* reached from a root.  The units not shown would be closed under parents.
THEOREM TreeAlwaysShowsEveryUnit == SerialSpec => []TreeShowsEveryUnit
  <1>1. TreeInv => TreeShowsEveryUnit
    <2> SUFFICES ASSUME TreeInv PROVE Shown = Stored
      BY DEF TreeShowsEveryUnit
    <2> DEFINE Hidden == Stored \ Shown
    <2>1. Shown \subseteq Stored
      BY DEF Shown
    <2>2. Children(NoUnit) \subseteq Shown /\ \A v \in Shown : Children(v) \subseteq Shown
      BY DEF Shown, Children
    <2>3. ASSUME NEW v \in Hidden
          PROVE  parent[v] \in Hidden
      <3>1. parent[v] \in Stored \cup {NoUnit}
        BY DEF TreeInv, TypeOK, Stored
      <3>2. v \in Children(parent[v])
        BY DEF Children
      <3> QED
        BY <2>2, <3>1, <3>2
    <2>4. Hidden \subseteq Units
      BY DEF TreeInv, TypeOK, Stored
    <2> HIDE DEF Hidden
    <2>5. Hidden = {}
      BY <2>3, <2>4 DEF TreeInv, Acyclic
    <2> QED
      BY <2>1, <2>5 DEF Hidden
  <1> QED
    BY <1>1, TreeInvariant, PTL

\* "Returns the full ancestor chain from the org root" (findAncestors): the
\* answer is one path without a branch, from the unit to one root.
THEOREM AncestorsAreAlwaysThePath == SerialSpec => []AncestorsAreThePath
  <1>1. TreeInv => AncestorsAreThePath
    <2> SUFFICES ASSUME TreeInv, NEW u \in Stored
                 PROVE  LET path == {FindAncestors(u)[i] : i \in DOMAIN FindAncestors(u)} IN
                        /\ u \in path
                        /\ \E a \in path : parent[a] = NoUnit
                        /\ \A a \in path : parent[a] \in path \cup {NoUnit}
                        /\ \A a, b \in path : parent[a] = parent[b] => a = b
      BY DEF AncestorsAreThePath
    <2> DEFINE path == {FindAncestors(u)[i] : i \in DOMAIN FindAncestors(u)}
    <2>1. path = {a \in Stored : u \in Descendants(a) \cup {a}}
      BY DEF FindAncestors, AtPlaces, Stored
    <2> HIDE DEF path
    <2>2. u \in path /\ path \subseteq Stored /\ path \subseteq Units
      BY <2>1 DEF TreeInv, TypeOK, Stored
    <2>3. ASSUME NEW a \in path, parent[a] # NoUnit
          PROVE  parent[a] \in path
      <3>1. parent[a] \in Stored
        BY <2>2, <2>3 DEF TreeInv, TypeOK
      <3>2. a \in Descendants(parent[a])
        BY <2>2, BelowItsParent
      <3>3. Descendants(a) \subseteq Descendants(parent[a])
        BY <3>2, DescendantsTransitive
      <3> QED
        BY <2>1, <3>1, <3>2, <3>3
    <2>4. \E a \in path : parent[a] = NoUnit
      BY <2>2, <2>3 DEF TreeInv, Acyclic
    <2>5. ASSUME NEW a \in path, NEW b \in path, parent[a] = parent[b], a # b
          PROVE  FALSE
      <3>1. u \in (Descendants(a) \cup {a}) \cap (Descendants(b) \cup {b})
        BY <2>1
      <3> QED
        BY <2>2, <2>5, <3>1, SiblingsAreApart DEF TreeInv
    <2> QED
      BY <2>2, <2>3, <2>4, <2>5 DEF path
  <1> QED
    BY <1>1, TreeInvariant, PTL

\* The recursive queries (UNION ALL) always end: no unit is found below
\* itself.
THEOREM QueriesAlwaysEnd == SerialSpec => [](\A u \in Stored : QueryEnds(u))
  <1>1. TreeInv => \A u \in Stored : QueryEnds(u)
    BY NotBelowItself DEF TreeInv, QueryEnds
  <1> QED
    BY <1>1, TreeInvariant, PTL
=============================================================================
