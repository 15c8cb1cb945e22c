----------------------------- MODULE LeaveViews -----------------------------
(***************************************************************************)
(* What the views of LeaveManagementService, and the status of the profile  *)
(* service, make of what their queries found.  A view v is a record; which  *)
(* fields it has depends on its kind, see EmployeeViews.                    *)
(*                                                                         *)
(* Days are integers; the months of the year are consecutive runs of them.  *)
(* The order, the texts and the constant parts of the answers are left out. *)
(***************************************************************************)
EXTENDS Integers, FiniteSetsExt

CONSTANTS
    Requests,      \* rows of leave_requests, but for their status
    GenderOf,      \* of a user: payload.gender, or "unknown"
    Today,         \* the UTC date of the model
    MonthStart     \* the first day of each month of the year, and of the next year

LeaveTypes == {"ANNUAL", "SICK", "MATERNITY", "PATERNITY", "SPECIAL", "UNPAID"}

Request == [user : DOMAIN GenderOf, type : LeaveTypes, from : Int, to : Int, days : Nat, created : Int]

Genders == {"male", "female"}

Unset == "unset"

\* A boolean of the payload that may be left out.
Flag == {"true", "false", Unset}

Never == 1000000

\* A row of leave_balances with what its payload says.
Balance == [entitled : Nat, used : Nat, carried : Nat, pending : Nat,
            gender    : Genders \cup {Unset},      \* genderConstraint
            expires   : Int,                       \* expiryDate, or Never
            probation : BOOLEAN,                   \* probationRestriction
            dontShow  : Flag,                      \* dontShowInApplication
            dontList  : Flag]                      \* dontShowInFrontEnd

LastMonth == Cardinality(DOMAIN MonthStart) - 1

Months == 1..LastMonth

Year == MonthStart[1]..(MonthStart[LastMonth + 1] - 1)

ASSUME LeaveViewsAssumption ==
    /\ Requests \subseteq {r \in Request : r.from <= r.to} /\ IsFiniteSet(Requests)
    /\ GenderOf \in [DOMAIN GenderOf -> Genders \cup {"unknown"}]
    /\ LastMonth \in Nat /\ MonthStart \in [1..(LastMonth + 1) -> Int]
    /\ \A m \in Months : MonthStart[m] < MonthStart[m + 1]
    /\ Today \in Year

Later(a, b) == IF a < b THEN b ELSE a

Earlier(a, b) == IF a < b THEN a ELSE b

TotalDays(requests) == MapThenSumSet(LAMBDA r : r.days, requests)

-----------------------------------------------------------------------------
(* The cards of getLeaveCommonDetails() and the sheet of getLeaves(): from  *)
(* v.balances, a row for some types, and v.pending, the requests found to   *)
(* be under way.                                                           *)

\* The stored column counts for a type of which no request is under way.
LivePending(v, type) ==
    LET found == {r \in v.pending : r.type = type}
    IN IF found = {} THEN v.balances[type].pending ELSE TotalDays(found)

Remaining(v, type) ==
    LET row == v.balances[type]
    IN Later(0, row.entitled + row.carried - row.used - LivePending(v, type))

\* defaultGenderConstraint(), unless the payload has one.
GenderConstraint(v, type) ==
    IF v.balances[type].gender # Unset THEN v.balances[type].gender
    ELSE IF type = "MATERNITY" THEN "female"
    ELSE IF type = "PATERNITY" THEN "male"
    ELSE Unset

GenderBlocked(v, type) == GenderConstraint(v, type) \notin {Unset, GenderOf[v.target]}

\* The most actionable reason surfaces first.
Restriction(v, type) ==
    IF v.balances[type].probation THEN "probation"
    ELSE IF GenderBlocked(v, type) THEN "gender"
    ELSE IF v.balances[type].expires < Today THEN "expired"
    ELSE IF Remaining(v, type) = 0 /\ type # "UNPAID" THEN "no balance"
    ELSE "none"

\* A type without a row has no card: buildLeaveCardKey() returns null.
Cards(v) ==
    [type \in DOMAIN v.balances |->
        [available   |-> IF type = "UNPAID" THEN 0 ELSE Remaining(v, type),
         restriction |-> Restriction(v, type),
         unlisted    |-> v.balances[type].dontList = "true",
         hidden      |-> \/ v.balances[type].dontShow = "true"
                         \/ /\ v.balances[type].dontShow = Unset
                            /\ Restriction(v, type) \in {"probation", "gender", "expired"}]]

\* v.active: the approved requests that today is in.
Sheet(v) ==
    [type \in DOMAIN v.balances |->
        LET away == \E r \in v.active : r.type = type IN
        [available |-> Remaining(v, type),
         applied   |-> LivePending(v, type),
         gate      |-> /\ ~away
                       /\ type = "UNPAID" \/ (Remaining(v, type) > 0 /\ ~GenderBlocked(v, type))]]

\* getAttendanceEmployeeStatus(): v.latest is the active request that started
\* last, of several one, if there is one.
AttendanceStatus(v) ==
    IF v.latest = {} THEN [code |-> "working"]
    ELSE LET r == CHOOSE r \in v.latest : TRUE
         IN [code |-> "leave", type |-> r.type, till |-> r.to]

-----------------------------------------------------------------------------
(* The calendars.                                                          *)

\* getUpcomingTimeOff(): v.holidays and the approved requests v.coming.
Timeline(v) ==
    {[kind |-> "holiday", date |-> day] : day \in v.holidays}
        \cup {[kind |-> "leave", date |-> r.from, request |-> r] : r \in v.coming}

\* The days of a request in the window of the view.
ClampedDays(v, r) == Later(r.from, v.from)..Earlier(r.to, v.to)

\* getTeamStatus(): for each day of the window the blocks of time off of the
\* peers, or the empty sentinel.
TeamStatus(v) ==
    [day \in v.from..v.to |->
        LET off(type) == {r.user : r \in {l \in v.leaves : l.type = type /\ day \in ClampedDays(v, l)}}
            blocks == {[type |-> "holiday", title |-> "holiday", users |-> v.peers] :
                          h \in v.holidays \cap {day}}
                      \cup {[type |-> "leave", title |-> type, users |-> off(type) \cap v.peers] :
                               type \in {t \in LeaveTypes : off(t) \cap v.peers # {}}}
        IN IF blocks = {} THEN {[type |-> "", title |-> "", users |-> {}]} ELSE blocks]

OverlapPastTheMonth(r, m) ==
    Later(0, Earlier(r.to, MonthStart[m + 1]) - Later(r.from, MonthStart[m]) + 1)

\* The days of a request in month m.
Overlap(r, m) ==
    Later(0, Earlier(r.to, MonthStart[m + 1] - 1) - Later(r.from, MonthStart[m]) + 1)

\* getDataForLeavePattern(): v.approved are the approved requests that overlap
\* the year; those of a type without a balance are passed over.
LeavePattern(v) ==
    [m \in Months |->
        [type \in DOMAIN v.balances |->
            MapThenSumSet(LAMBDA r : Overlap(r, m), {r \in v.approved : r.type = type})]]
=============================================================================
