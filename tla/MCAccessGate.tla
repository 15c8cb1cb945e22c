---------------------------- MODULE MCAccessGate ----------------------------
(***************************************************************************)
(* A small instance of AccessGate: a manager, one employee and two pods.   *)
(***************************************************************************)
EXTENDS AccessGate, TLC

CONSTANTS manager, employee, badge, number

MCUsers == {manager, employee}
MCCallers == {manager}

\* The badge is the employee's source_employee_id and the manager's employeeId:
\* only the order of the passes tells them apart.  The number finds the
\* employee in the second pass.
MCSourceOf == (manager :> Absent) @@ (employee :> badge)
MCEmployeeOf == (manager :> badge) @@ (employee :> number)
MCNames == {badge, number}
AllNames == MCNames \cup {employee, Absent}

UserRow(unit, company) ==
    [deleted |-> FALSE, active |-> TRUE, unit |-> unit, company |-> company]

Placed == UserRow("u1", "c1")
Suspended == [Placed EXCEPT !.active = FALSE]
Deleted == [Placed EXCEPT !.deleted = TRUE]

Elsewhere == UserRow("u1", "c2")

\* Both in one unit; or without one, as before the first sync, and of an empty
\* and a known company.
Together == {(manager :> Placed) @@ (employee :> Placed)}
MCStarts == Together \cup {(manager :> UserRow(Absent, "")) @@ (employee :> UserRow(Absent, "c2"))}
MCProfiles == {Placed, Suspended, Deleted, Elsewhere}

\* A reader of every row of the own unit, and of leave balances.
MCLists == {{[action |-> "read", subject |-> "all", same |-> {"unit"}]},
            {[action |-> "manage", subject |-> "LeaveBalance", same |-> {}]}}

MCServices == {"leave", "profile"}

\* The run is two, told apart by how it starts.  Together, two calls race with
\* one change, by two names, not both of the leave service, which reads most,
\* nor both by the number.  Apart, one call is served, under any name, while
\* the tables change twice before the second tick.
StartedApart == \E s \in past : s.at = 0 /\ s.row.company = ""

Alone == Cardinality({c \in Calls : calls'[c].pc # "idle"}) <= 1 /\ now' <= 1

Racing ==
    LET Under(c) == calls'[c].pc \notin {"idle", "done"} IN
    /\ Changes = 0 \/ UNCHANGED <<users, lists>>
    /\ \A c \in Calls : Under(c) => calls'[c].name \in MCNames
    /\ \E c \in Calls : calls'[c].service # "leave"
    /\ \E c \in Calls : calls'[c].name # number

Bounds == IF StartedApart THEN Alone ELSE Racing

Symmetry == Permutations(Pods) \cup Permutations(Calls)
=============================================================================
