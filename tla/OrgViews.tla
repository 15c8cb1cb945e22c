------------------------------ MODULE OrgViews ------------------------------
(***************************************************************************)
(* The queries of EmployeeProfileService on the users table, of which it    *)
(* reads who manages whom, in raw SQL, and who is deleted.  us is what the  *)
(* table holds when a query runs.                                          *)
(***************************************************************************)
EXTENDS Integers, FiniteSetsExt, SequencesExt

CONSTANTS
    Users,
    Nobody,        \* an absent manager
    RankOf         \* of a user: the place of the full name in the alphabet

ASSUME OrgViewsAssumption ==
    /\ Nobody \notin Users /\ IsFiniteSet(Users)
    /\ RankOf \in Injection(Users, Int)

Live(us, u) == u \in Users /\ us[u].live

Reports(us, u) == {r \in Users : Live(us, r) /\ us[r].manager = u}

\* ORDER BY full_name LIMIT take OFFSET skip.
Page(us, u, skip, take) ==
    {r \in Reports(us, u) :
        Cardinality({q \in Reports(us, u) : RankOf[q] <= RankOf[r]}) \in (skip + 1)..(skip + take)}

\* The record that a view hydrates of an id it has read before.
Hydrated(us, ids) == {u \in ids : Live(us, u)}

WaysDownThroughDeleted(us, u) ==
    LET under(m) == {r \in Users : us[r].manager = m}
        ways[n \in 1..Cardinality(Users)] ==
            IF n = 1 THEN {<<r>> : r \in under(u)}
            ELSE UNION {{Append(way, r) : r \in under(Last(way)) \ Range(way)} : way \in ways[n - 1]}
    IN UNION {{way \in ways[n] : Live(us, Last(way))} : n \in DOMAIN ways}

\* WITH RECURSIVE org_tree: its rows are the ways down from u, each of which
\* the CYCLE clause ends where it comes back to one of its own.
WaysDown(us, u) ==
    LET ways[n \in 1..Cardinality(Users)] ==
            IF n = 1 THEN {<<r>> : r \in Reports(us, u)}
            ELSE UNION {{Append(way, r) : r \in Reports(us, Last(way)) \ Range(way)} : way \in ways[n - 1]}
    IN UNION {ways[n] : n \in DOMAIN ways}

\* SELECT COUNT(*) ... WHERE NOT is_cycle.
TeamSize(us, u) == Cardinality(WaysDown(us, u))
=============================================================================
