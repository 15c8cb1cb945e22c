------------------------------ MODULE UnitTree ------------------------------
(***************************************************************************)
(* UnitsService (src/units/units.service.ts) over the units table: the     *)
(* organisation tree as an adjacency list, and the check that keeps        *)
(* update() from closing a cycle.                                           *)
(*                                                                         *)
(* Every handler is cut at its database round trips.  A unit is named by   *)
(* its code, which is unique and immutable as its id is, and no row is ever *)
(* deleted; name, description and subsidiary are left out.                  *)
(***************************************************************************)
EXTENDS Integers, Sequences

CONSTANTS
    Units,        \* unit codes
    Calls,        \* connections, each serving one call after another
    NoUnit,       \* parentId null
    Missing,      \* a parentId that is the id of no unit
    Unchanged,    \* a key that the update dto does not have
    UpdateDtos    \* update dtos that callers send

VARIABLES
    created,      \* the stored units, by created_at
    parent,       \* units.parent_id
    active,       \* the units with is_active
    calls         \* the call each connection is serving

vars == <<created, parent, active, calls>>

Dto == [parent : Units \cup {NoUnit, Missing, Unchanged},
        active : BOOLEAN \cup {Unchanged}]

ASSUME UnitAssumption ==
    /\ NoUnit \notin Units /\ Missing \notin Units /\ Unchanged \notin Units
    /\ NoUnit # Missing /\ NoUnit # Unchanged /\ Missing # Unchanged
    /\ Unchanged \notin BOOLEAN
    /\ UpdateDtos \subseteq Dto

Stored == {created[i] : i \in DOMAIN created}

Children(u) == {v \in Stored : parent[v] = u}

\* findDescendantIds(): the least set with the children of u and of its own
\* members.
Descendants(u) ==
    {d \in Stored : \A S \in SUBSET Stored :
        /\ Children(u) \subseteq S
        /\ \A v \in S : Children(v) \subseteq S
        => d \in S}

ChildrenOnly(u) == Children(u)

\* The query is a UNION ALL: from a unit on a cycle it never ends.
QueryEnds(u) == u \notin Descendants(u)

\* pc: where the call is; kind: which write ends it.
Call == [pc     : {"idle", "checkParent", "checkCycle", "insert", "write"},
         unit   : Units \cup {NoUnit},
         dto    : Dto,
         answer : {"none", "200", "201", "400", "404", "409", "500"}]

NoDto == [parent |-> Unchanged, active |-> Unchanged]

Idle(code) == [pc |-> "idle", unit |-> NoUnit, dto |-> NoDto, answer |-> code]

Answers(c, code) == calls' = [calls EXCEPT ![c] = Idle(code)]

GoesOn(c, pc, u, dto) ==
    calls' = [calls EXCEPT ![c] =
                 [pc |-> pc, unit |-> u, dto |-> dto, answer |-> "none"]]

Rows == <<created, parent, active>>

-----------------------------------------------------------------------------
(* create(): is the code free?  does the parent exist?  insert.             *)

Create(c, u, dto) ==
    /\ calls[c].pc = "idle"
    /\ \/ u \in Stored /\ Answers(c, "409")
       \/ u \notin Stored /\ dto.parent = NoUnit /\ GoesOn(c, "insert", u, dto)
       \/ u \notin Stored /\ dto.parent # NoUnit /\ GoesOn(c, "checkParent", u, dto)
    /\ UNCHANGED Rows

CheckParent(c) ==
    /\ calls[c].pc = "checkParent"
    /\ \/ calls[c].dto.parent \notin Stored /\ Answers(c, "404")
       \/ /\ calls[c].dto.parent \in Stored
          /\ GoesOn(c, "insert", calls[c].unit, calls[c].dto)
    /\ UNCHANGED Rows

\* The unique index on code refuses the later of two racing inserts.
Insert(c) ==
    LET u == calls[c].unit IN
    /\ calls[c].pc = "insert"
    /\ \/ /\ u \in Stored
          /\ Answers(c, "500")
          /\ UNCHANGED Rows
       \/ /\ u \notin Stored
          /\ created' = Append(created, u)
          /\ parent' = [parent EXCEPT ![u] = calls[c].dto.parent]
          /\ active' = IF calls[c].dto.active = FALSE THEN active ELSE active \cup {u}
          /\ Answers(c, "201")

-----------------------------------------------------------------------------
(* update(): findOne; for a new parent, the cycle check; update by id.      *)

UpdateUnchecked(c, u, dto) ==
    /\ calls[c].pc = "idle"
    /\ \/ u \notin Stored /\ Answers(c, "404")
       \/ u \in Stored /\ dto.parent \in {NoUnit, Unchanged} /\ GoesOn(c, "write", u, dto)
       \/ u \in Stored /\ dto.parent \notin {NoUnit, Unchanged}
          /\ GoesOn(c, "checkCycle", u, dto)
    /\ UNCHANGED Rows

Update(c, u, dto) ==
    /\ calls[c].pc = "idle"
    /\ \/ u \notin Stored /\ Answers(c, "404")
       \/ u \in Stored /\ dto.parent = u /\ Answers(c, "400")
       \/ u \in Stored /\ dto.parent \in {NoUnit, Unchanged} /\ GoesOn(c, "write", u, dto)
       \/ u \in Stored /\ dto.parent \notin {NoUnit, Unchanged, u}
          /\ GoesOn(c, "checkCycle", u, dto)
    /\ UNCHANGED Rows

CheckCycleOneLevel(c) ==
    /\ calls[c].pc = "checkCycle"
    /\ \/ calls[c].dto.parent \in ChildrenOnly(calls[c].unit) /\ Answers(c, "400")
       \/ /\ calls[c].dto.parent \notin ChildrenOnly(calls[c].unit)
          /\ GoesOn(c, "write", calls[c].unit, calls[c].dto)
    /\ UNCHANGED Rows

CheckCycle(c) ==
    /\ calls[c].pc = "checkCycle"
    /\ QueryEnds(calls[c].unit)
    /\ \/ calls[c].dto.parent \in Descendants(calls[c].unit) /\ Answers(c, "400")
       \/ /\ calls[c].dto.parent \notin Descendants(calls[c].unit)
          /\ GoesOn(c, "write", calls[c].unit, calls[c].dto)
    /\ UNCHANGED Rows

\* deactivate(): findOne, and an update of isActive alone.
Deactivate(c, u) ==
    /\ calls[c].pc = "idle"
    /\ \/ u \notin Stored /\ Answers(c, "404")
       \/ u \in Stored /\ GoesOn(c, "write", u, [parent |-> Unchanged, active |-> FALSE])
    /\ UNCHANGED Rows

\* The foreign key refuses a parent that is the id of no unit.
WriteDangling(c) ==
    LET u == calls[c].unit
        dto == calls[c].dto
    IN /\ calls[c].pc = "write"
       /\ parent' = IF dto.parent = Unchanged THEN parent
                    ELSE [parent EXCEPT ![u] = dto.parent]
       /\ active' = IF dto.active = Unchanged THEN active
                    ELSE IF dto.active THEN active \cup {u} ELSE active \ {u}
       /\ Answers(c, "200")
       /\ UNCHANGED created

Write(c) ==
    LET u == calls[c].unit
        dto == calls[c].dto
    IN /\ calls[c].pc = "write"
       /\ \/ /\ dto.parent = Missing
             /\ Answers(c, "500")
             /\ UNCHANGED <<parent, active>>
          \/ /\ dto.parent # Missing
             /\ parent' = IF dto.parent = Unchanged THEN parent
                          ELSE [parent EXCEPT ![u] = dto.parent]
             /\ active' = IF dto.active = Unchanged THEN active
                          ELSE IF dto.active THEN active \cup {u} ELSE active \ {u}
             /\ Answers(c, "200")
       /\ UNCHANGED created

\* A round trip fails, or its connection is closed.
Fail(c) ==
    /\ calls[c].pc # "idle"
    /\ Answers(c, "500")
    /\ UNCHANGED Rows

-----------------------------------------------------------------------------

Init ==
    /\ created = << >>
    /\ parent = [u \in Units |-> NoUnit]
    /\ active = {}
    /\ calls = [c \in Calls |-> Idle("none")]

\* Ids are made by the database: a caller names a unit once it is stored.
Known(dto) == dto.parent \in Units => dto.parent \in Stored

Next ==
    \E c \in Calls :
        \/ \E u \in Units, p \in Stored \cup {NoUnit, Missing}, a \in BOOLEAN :
              Create(c, u, [parent |-> p, active |-> a])
        \/ \E u \in Units, dto \in UpdateDtos : Known(dto) /\ Update(c, u, dto)
        \/ \E u \in Units : Deactivate(c, u)
        \/ CheckParent(c) \/ Insert(c) \/ CheckCycle(c) \/ Write(c) \/ Fail(c)

Spec == Init /\ [][Next]_vars

\* A call that has passed the cycle check and has not written yet.
Moving(c) ==
    calls[c].pc = "write" /\ calls[c].dto.parent \notin {NoUnit, Unchanged}

OneMoveAtATime == \A c, d \in Calls : Moving(c) /\ Moving(d) => c = d

\* No two moves overlap between their check and their write.
SerialSpec == Init /\ [][Next /\ OneMoveAtATime']_vars

-----------------------------------------------------------------------------

\* Every variable stays in its type, and every parent is a stored unit.
TypeOK ==
    /\ created \in Seq(Units)
    /\ parent \in [Units -> Stored \cup {NoUnit}]
    /\ \A u \in Units \ Stored : parent[u] = NoUnit
    /\ active \subseteq Stored
    /\ calls \in [Calls -> Call]

\* What a call has established so far: its unit is stored, the parent it
\* names is one the database will take or refuse, and a cycle check that
\* passed still holds when the write comes.
ChecksStillHold ==
    \A c \in Calls :
        LET u == calls[c].unit
            p == calls[c].dto.parent
        IN /\ calls[c].pc \in {"checkParent", "insert"} => u \in Units
           /\ calls[c].pc = "insert" => p \in Stored \cup {NoUnit}
           /\ calls[c].pc = "checkCycle" => u \in Stored /\ p # u /\ p \in Stored \cup {Missing}
           /\ calls[c].pc = "write" =>
                 u \in Stored /\ p \in Stored \cup {NoUnit, Missing, Unchanged}
           /\ Moving(c) => p # u /\ p \notin Descendants(u)

\* "unit cannot become its own ancestor": following parents up from any unit
\* leaves every set of units, so there is no cycle.
Acyclic ==
    \A S \in SUBSET Units : S # {} => \E u \in S : parent[u] \notin S

\* The inductive invariant of SerialSpec.
TreeInv == TypeOK /\ ChecksStillHold /\ Acyclic /\ OneMoveAtATime

\* The units in the answer of findTree(): the roots and, from there, children.
Shown ==
    {u \in Stored : \A S \in SUBSET Stored :
        /\ Children(NoUnit) \subseteq S
        /\ \A v \in S : Children(v) \subseteq S
        => u \in S}

\* "Returns the full nested hierarchy": every stored unit is in the tree.
TreeShowsEveryUnit == Shown = Stored

\* An answer ordered by created_at lists the units at some places of created.
AtPlaces(places) == [i \in places |-> created[i]]

FindAncestorsWithoutUnit(u) ==
    AtPlaces({i \in DOMAIN created : u \in Descendants(created[i])})

\* findAncestors(): the unit and its ancestors, ordered by created_at.
FindAncestors(u) ==
    AtPlaces({i \in DOMAIN created : created[i] = u \/ u \in Descendants(created[i])})

\* "Returns the full ancestor chain from the org root down to (and including)
\* the requested unit": the answer is one path, from one root.
AncestorsAreThePath ==
    \A u \in Stored :
        LET path == {FindAncestors(u)[i] : i \in DOMAIN FindAncestors(u)} IN
        /\ u \in path
        /\ \E a \in path : parent[a] = NoUnit
        /\ \A a \in path : parent[a] \in path \cup {NoUnit}
        /\ \A a, b \in path : parent[a] = parent[b] => a = b
=============================================================================
