--------------------------- MODULE EmployeeViews ---------------------------
(***************************************************************************)
(* The views of the leave, profile and analysis services while the data     *)
(* they read is written.  A view issues its queries in stages: the queries  *)
(* of a stage together (Promise.all), in any order, the stages one after    *)
(* the other.  The answer is computed from what they found.                *)
(*                                                                         *)
(* Who may see whom is modelled by AccessGate, how a request comes to its   *)
(* status by LeaveRequest, and how a user row by UserDirectory: here any    *)
(* of them may change between two queries.                                 *)
(***************************************************************************)
EXTENDS LeaveViews, OrgViews, HealthAnalysis

CONSTANTS
    Units,
    Starts,        \* what the database holds at first
    UserRows,      \* of a user: the rows that a write may leave
    BalanceRows,   \* rows that the balance job may leave, from outside of src/
    Feasts,        \* dates that may become holidays
    Windows,       \* windows asked for: the first and the last day
    Pages,         \* pages asked for: skip and take
    WindowDays,    \* of the analysis
    MaxWindow,     \* bound of the window of getTeamStatus()
    MaxReportees,  \* LIMIT of getEmployeeDetails()
    MaxChanges     \* bound: writes

VARIABLES
    db,            \* the tables
    changes,       \* how many writes there were
    during,        \* what the tables held since the view was asked, for the properties
    view           \* the view being served

vars == <<db, changes, during, view>>

Waiting == {"PENDING_APPROVAL", "APPROVED_BY_SUPERVISOR"}

Statuses == Waiting \cup {"NONE", "DRAFT", "APPROVED", "REJECTED", "CANCELLED"}

UserRow == [live : BOOLEAN, active : BOOLEAN, unit : Units \cup {Nobody}, manager : Users \cup {Nobody}]

\* What the tables hold: of a user, a balance for some of the types.
IsDatabase(d) ==
    /\ d \in [users    : [Users -> UserRow],
             status   : [Requests -> Statuses],
             holidays : SUBSET Feasts,
             balances : {[u \in Users |-> [type \in DOMAIN d.balances[u] |-> d.balances[u][type]]]}]
    /\ \A u \in Users : DOMAIN d.balances[u] \subseteq LeaveTypes
    /\ \A u \in Users : \A type \in DOMAIN d.balances[u] : d.balances[u][type] \in Balance

ASSUME EmployeeViewsAssumption ==
    /\ DOMAIN GenderOf = Users
    /\ \A d \in Starts : IsDatabase(d)
    /\ UserRows \in [Users -> SUBSET UserRow]
    /\ BalanceRows \subseteq Balance
    /\ Feasts \subseteq Int
    /\ Windows \subseteq [from : Int, to : Int]
    /\ Pages \subseteq [skip : Nat, take : Nat]
    /\ MaxWindow \in Nat /\ MaxReportees \in Nat /\ MaxChanges \in Nat /\ WindowDays \in Nat

-----------------------------------------------------------------------------
(* The stages of the views.                                                *)

Stages == [common   |-> <<{"person"}, {"balances"}, {"pending"}>>,
           leaves   |-> <<{"balances", "pending", "active"}>>,
           upcoming |-> <<{"holidays", "coming"}>>,
           team     |-> <<{"peers"}, {"leaves", "holidays"}>>,
           pattern  |-> <<{"balances", "approved"}>>,
           status   |-> <<{"latest"}>>,
           chart    |-> <<{"row"}, {"managerId"}, {"page", "count"}, {"manager", "reports"}>>,
           lens     |-> <<{"row"}, {"count"}, {"tree"}>>,
           profile  |-> <<{"row"}, {"managerId"}, {"manager"}>>,
           details  |-> <<{"row"}, {"count"}, {"page"}, {"reports"}>>,
           analysis |-> <<{"division"}, {"members"}, {"raw"}, {"reply"}>>]

NoView == [kind |-> "none", target |-> Nobody, unit |-> Nobody, from |-> Today, to |-> Today,
           skip |-> 0, take |-> MaxReportees, todo |-> << >>, code |-> 0]

Issued(query) == view.code = 0 /\ view.todo # << >> /\ query \in Head(view.todo)

Keep(name, value, v) == [f \in {name} \cup DOMAIN v |-> IF f = name THEN value ELSE v[f]]

\* The view after a query: what it found is kept under its name.
Found(query, value) ==
    LET left == Head(view.todo) \ {query}
        todo == IF left = {} THEN Tail(view.todo) ELSE <<left>> \o Tail(view.todo)
    IN Keep(query, value, [view EXCEPT !.todo = todo, !.code = IF todo = << >> THEN 200 ELSE 0])

Learn(query, value) ==
    /\ Issued(query)
    /\ view' = Found(query, value)
    /\ UNCHANGED <<db, changes, during>>

RefuseAndGoOn(code) ==
    /\ view' = [view EXCEPT !.code = code]
    /\ UNCHANGED <<db, changes, during>>

Refuse(code) ==
    /\ view' = [view EXCEPT !.code = code, !.todo = << >>]
    /\ UNCHANGED <<db, changes, during>>

-----------------------------------------------------------------------------
(* The queries on leave.  d is what the tables hold.                       *)

Of(d, whose, statuses) == {r \in Requests : r.user \in whose /\ d.status[r] \in statuses}

PendingBeforeSupervisor(d, u) ==
    {r \in Of(d, {u}, {"PENDING_APPROVAL"}) : r.from \in Year}

Pending(d, u) == {r \in Of(d, {u}, Waiting) : r.from \in Year}

\* Of the leave sheet.
Active(d, u) == {r \in Of(d, {u}, {"APPROVED"}) : r.from <= Today /\ Today <= r.to}

OnLeaveUntilEve(d, u) ==
    {r \in Requests : r.user = u /\ d.status[r] = "APPROVED" /\ r.from <= Today /\ Today < r.to}

\* Of the status of today, in the profile service.
OnLeave(d, u) ==
    {r \in Requests : r.user = u /\ d.status[r] = "APPROVED" /\ r.from <= Today /\ Today <= r.to}

\* findFirst, orderBy startDate desc: none, or of those that started last any.
Latest(d, u) ==
    IF OnLeave(d, u) = {} THEN {{}}
    ELSE {{r} : r \in {r \in OnLeave(d, u) : \A q \in OnLeave(d, u) : q.from <= r.from}}

\* Starting on or after today.
Coming(d, u) == {r \in Of(d, {u}, {"APPROVED"}) : r.from >= Today}

StartingIn(d, whose, from, to) ==
    {r \in Of(d, whose, {"APPROVED"}) : from <= r.from /\ r.from <= to}

\* Overlapping the days from..to.
Overlapping(d, whose, from, to) ==
    {r \in Of(d, whose, {"APPROVED"}) : r.from <= to /\ from <= r.to}

Peers(d, unit) ==
    {u \in Users : unit # Nobody /\ d.users[u].unit = unit /\ Live(d.users, u) /\ d.users[u].active}

ReadBalances == Learn("balances", db.balances[view.target])
ReadPending  == Learn("pending", Pending(db, view.target))
ReadActive   == Learn("active", Active(db, view.target))
ReadApproved == Learn("approved", Overlapping(db, {view.target}, Min(Year), Max(Year)))
ReadComing   == Learn("coming", Coming(db, view.target))
ReadPeers    == Learn("peers", Peers(db, view.unit))
ReadLeaves   == Issued("leaves") /\ Learn("leaves", Overlapping(db, view.peers, view.from, view.to))

\* Those of the timeline have no end; a team without peers asks for none.
ReadHolidays ==
    /\ Issued("holidays")
    /\ Learn("holidays", {day \in db.holidays :
          IF view.kind = "upcoming" THEN day >= Today
          ELSE view.peers # {} /\ day \in view.from..view.to})

ReadLatest == \E latest \in Latest(db, view.target) : Learn("latest", latest)

-----------------------------------------------------------------------------
(* The queries on users.                                                   *)

\* The target with its unit and its manager, deleted or not.
ReadPerson == Learn("person", db.users[view.target])

\* A deleted user is not found.
ReadRow ==
    /\ Issued("row")
    /\ IF Live(db.users, view.target) THEN Learn("row", view.target) ELSE Refuse(404)

ReadManagerId == Learn("managerId", db.users[view.target].manager)
ReadCount     == Learn("count", Cardinality(Reports(db.users, view.target)))
ReadTree      == Learn("tree", TeamSize(db.users, view.target))
ReadPage      == Learn("page", Page(db.users, view.target, view.skip, view.take))
ReadReports   == Issued("reports") /\ Learn("reports", Hydrated(db.users, view.page))
ReadManager   == Issued("manager") /\ Learn("manager", Hydrated(db.users, {view.managerId}))

-----------------------------------------------------------------------------
(* analyzeDivisionalHealth(): without members or requests it answers with   *)
(* the empty report, else it waits for the model.                          *)

\* No unit has the id Nobody.
ReadDivision ==
    /\ Issued("division")
    /\ IF view.unit \in Units THEN Learn("division", view.unit) ELSE Refuse(404)

WithoutData(v) == Keep("shares", EmptyShares, [v EXCEPT !.todo = << >>, !.code = 200])

ReadMembers ==
    /\ Issued("members")
    /\ LET members == {u \in Users : Live(db.users, u) /\ db.users[u].unit = view.unit}
           found == Found("members", members)
       IN view' = IF members = {} THEN Keep("raw", {}, WithoutData(found)) ELSE found
    /\ UNCHANGED <<db, changes, during>>

ReadRaw ==
    /\ Issued("raw")
    /\ LET raw == {r \in Of(db, view.members, Statuses \ {"NONE"}) : r.created >= Today - WindowDays}
           found == Found("raw", raw)
       IN view' = IF raw = {} THEN WithoutData(found) ELSE found
    /\ UNCHANGED <<db, changes, during>>

\* callQwen(): shares to be normalised, an answer that is empty, no JSON or lacks
\* a key, a failure, or no answer in time.
AskModel ==
    /\ Issued("reply")
    /\ \/ \E reply \in Replies : \E shares \in Normalised(reply) :
             /\ view' = Keep("shares", shares, Found("reply", reply))
             /\ UNCHANGED <<db, changes, during>>
       \/ \E code \in {500, 503, 504} : Refuse(code)

-----------------------------------------------------------------------------
(* A view is asked for.  The unit is that of the row by which the target    *)
(* was found.  A row found by source_employee_id is one of raw SQL: it has  *)
(* a unit_id, and no unitId.                                               *)

UnitFound(u, bySource) == IF bySource THEN Nobody ELSE db.users[u].unit

Ask(kind, u, bySource, window, page) ==
    /\ view.kind = "none"
    /\ bySource => kind = "team"
    /\ kind # "team" => window = [from |-> Today, to |-> Today]
    /\ kind # "chart" => page = [skip |-> 0, take |-> MaxReportees]
    /\ LET asked == [NoView EXCEPT !.kind = kind, !.target = u, !.unit = UnitFound(u, bySource),
                                   !.from = window.from, !.to = window.to,
                                   !.skip = page.skip, !.take = page.take, !.todo = Stages[kind]]
           wrong == window.from > window.to \/ window.to - window.from + 1 > MaxWindow
       IN view' = IF wrong THEN [asked EXCEPT !.code = 400, !.todo = << >>] ELSE asked
    /\ during' = {db}
    /\ UNCHANGED <<db, changes>>

\* The analysis is asked for the id of a unit, or for none that there is.
AskAnalysis(unit) ==
    /\ view.kind = "none"
    /\ view' = [NoView EXCEPT !.kind = "analysis", !.unit = unit, !.todo = Stages["analysis"]]
    /\ during' = {db}
    /\ UNCHANGED <<db, changes>>

-----------------------------------------------------------------------------
(* What is written meanwhile.                                              *)

Write(next) ==
    /\ changes < MaxChanges /\ next # db
    /\ db' = next
    /\ changes' = changes + 1
    /\ during' = during \cup {next}
    /\ UNCHANGED view

\* The statuses that a call of LeaveRequest may leave after one.  It writes by
\* id what it decided from a row read before, so once a request was submitted a
\* late call may leave any of them, after a terminal one too.
NextStatus == [s \in Statuses |->
                  IF s = "NONE" THEN {"DRAFT"}
                  ELSE IF s = "DRAFT" THEN {"PENDING_APPROVAL", "CANCELLED"}
                  ELSE {"PENDING_APPROVAL", "APPROVED", "REJECTED", "CANCELLED"}]

WriteRequest(r) ==
    \E s \in NextStatus[db.status[r]] : Write([db EXCEPT !.status[r] = s])

WriteUser(u) == \E row \in UserRows[u] : Write([db EXCEPT !.users[u] = row])

WriteBalance(u, type) ==
    /\ type \in DOMAIN db.balances[u]
    /\ \E row \in BalanceRows : Write([db EXCEPT !.balances[u][type] = row])

WriteHoliday(day) == Write([db EXCEPT !.holidays = @ \cup {day}])

-----------------------------------------------------------------------------

Init ==
    /\ db \in Starts
    /\ changes = 0
    /\ during = {db}
    /\ view = NoView

Query ==
    \/ ReadBalances \/ ReadPending \/ ReadActive \/ ReadApproved \/ ReadComing
    \/ ReadPeers \/ ReadLeaves \/ ReadHolidays \/ ReadLatest
    \/ ReadPerson \/ ReadRow \/ ReadManagerId \/ ReadCount \/ ReadTree
    \/ ReadPage \/ ReadReports \/ ReadManager
    \/ ReadDivision \/ ReadMembers \/ ReadRaw \/ AskModel

Next ==
    \/ \E kind \in DOMAIN Stages \ {"analysis"}, u \in Users, bySource \in BOOLEAN,
          window \in Windows, page \in Pages : Ask(kind, u, bySource, window, page)
    \/ \E unit \in Units \cup {Nobody} : AskAnalysis(unit)
    \/ Query
    \/ \E r \in Requests : WriteRequest(r)
    \/ \E u \in Users : WriteUser(u)
    \/ \E u \in Users, type \in LeaveTypes : WriteBalance(u, type)
    \/ \E day \in Feasts : WriteHoliday(day)

Spec == Init /\ [][Next]_vars
-----------------------------------------------------------------------------
(* Properties.  The queries of a view run at different moments; during holds *)
(* what the tables held at any of them.                                     *)

Answered(kind) == view.kind = kind /\ view.code = 200

\* Every variable stays in its type, and no view that waits for a query is
\* answered or refused.
TypeOK ==
    /\ changes \in 0..MaxChanges
    /\ \A d \in {db} \cup during : IsDatabase(d)
    /\ view.kind \in DOMAIN Stages \cup {"none"}
    /\ view.target \in Users \cup {Nobody}
    /\ view.code \in {0, 200, 400, 404, 500, 503, 504}
    /\ view.kind # "none" => (view.code = 0 <=> view.todo # << >>)

ApprovedOn(d, r, day) == d.status[r] = "APPROVED" /\ r.from <= day /\ day <= r.to

PeerIn(d, u) ==
    view.unit # Nobody /\ Live(d.users, u) /\ d.users[u].active /\ d.users[u].unit = view.unit

Shown(day, type) == UNION {block.users : block \in {b \in TeamStatus(view)[day] : b.title = type}}

\* The calendar of a team has every day of its window.  It shows a member as on
\* leave on the days of a leave that was approved all along, and on no other
\* day than those of a leave that was approved at some moment while the view was
\* under way; and a holiday is everybody's.  The timeline of a person likewise
\* holds each leave that begins today or later once.
CalendarsHoldEveryAbsence ==
    /\ Answered("team") =>
        /\ DOMAIN TeamStatus(view) = view.from..view.to
        /\ \A day \in view.from..view.to, u \in Users, type \in LeaveTypes :
              LET leaves == {r \in Requests : r.user = u /\ r.type = type} IN
              /\ u \in Shown(day, type) =>
                    /\ \E d \in during : PeerIn(d, u)
                    /\ \E d \in during : \E r \in leaves : ApprovedOn(d, r, day)
              /\ /\ \A d \in during : PeerIn(d, u)
                 /\ \E r \in leaves : \A d \in during : ApprovedOn(d, r, day)
                 => u \in Shown(day, type)
        /\ \A day \in view.from..view.to, u \in Users :
              (\A d \in during : PeerIn(d, u) /\ day \in d.holidays) => u \in Shown(day, "holiday")
    /\ Answered("upcoming") =>
        \A r \in Requests :
            LET entry == [kind |-> "leave", date |-> r.from, request |-> r] IN
            /\ entry \in Timeline(view) =>
                  \E d \in during : r.user = view.target /\ r.to >= Today /\ ApprovedOn(d, r, r.from)
            /\ /\ r.user = view.target /\ r.from >= Today
               /\ \A d \in during : ApprovedOn(d, r, r.from)
               => entry \in Timeline(view)

\* What is available of a type, on the cards and on the sheet.
Available(type) ==
    IF view.kind = "common" THEN Cards(view)[type].available ELSE Sheet(view)[type].available

\* "The stored pending column may lag, so we re-derive pending days from the
\* live LeaveRequest table": what is shown as available leaves room for every
\* request of the year that was under way all along, and is not held back by
\* more than what was under way at some moment or is stored as pending.
AvailableLeavesRoomForPending ==
    (Answered("common") \/ Answered("leaves")) =>
        \A type \in DOMAIN view.balances \ {"UNPAID"} :
            LET mine == {r \in Requests : r.user = view.target /\ r.type = type /\ r.from \in Year}
                throughout == {r \in mine : \A d \in during : d.status[r] \in Waiting}
                ever == {r \in mine : \E d \in during : d.status[r] \in Waiting}
            IN \E d \in during :
                  LET row == d.balances[view.target][type]
                      left(pending) == Later(0, row.entitled + row.carried - row.used - pending)
                  IN /\ Available(type) <= left(TotalDays(throughout))
                     /\ Available(type) >= left(Later(TotalDays(ever), row.pending))

\* Whoever is on leave today all along while a view is served is told so by it,
\* and only who was at some moment, whichever service answers.  The status of
\* today names a leave, of those begun last; the sheet shuts the gate of the
\* type, and of a type that the card would invite to apply for it shuts it for no
\* other reason.  (So does the calendar of the team: CalendarsHoldEveryAbsence.)
AwayIsToldByEveryView ==
    LET away(d) == {r \in Requests : r.user = view.target /\ ApprovedOn(d, r, Today)}
        throughout == {r \in Requests : \A d \in during : r \in away(d)}
    IN /\ Answered("status") /\ AttendanceStatus(view).code = "working" => throughout = {}
       /\ Answered("status") /\ AttendanceStatus(view).code = "leave" =>
             \E d \in during : \E r \in away(d) :
                /\ AttendanceStatus(view).type = r.type /\ AttendanceStatus(view).till = r.to
                /\ \A q \in throughout : q.from <= r.from
       /\ Answered("leaves") =>
             \A type \in DOMAIN view.balances :
                /\ Sheet(view)[type].gate => \A r \in throughout : r.type # type
                /\ Cards(view)[type].restriction = "none" /\ ~Sheet(view)[type].gate =>
                      \E d \in during : \E r \in away(d) : r.type = type

\* Each day of an approved leave in the year is counted in one month of the
\* pattern: the months of a type add up to the days of its leaves.
PatternCountsEachDay ==
    Answered("pattern") =>
        \A type \in DOMAIN view.balances :
            LET shown == MapThenSumSet(LAMBDA m : LeavePattern(view)[m][type], Months)
                days(requests) == MapThenSumSet(LAMBDA r : Cardinality((r.from..r.to) \cap Year), requests)
                mine == {r \in Requests : r.user = view.target /\ r.type = type}
            IN /\ shown >= days({r \in mine : \A d \in during : d.status[r] = "APPROVED"})
               /\ shown <= days({r \in mine : \E d \in during : d.status[r] = "APPROVED"})

\* The live users that have u above them, over live users.
Team(d, u) ==
    LET Reports1(above) == {r \in Users : Live(d.users, r) /\ d.users[r].manager \in above}
        team[n \in 0..Cardinality(Users)] ==
            IF n = 0 THEN Reports1({u}) ELSE team[n - 1] \cup Reports1(team[n - 1])
    IN team[Cardinality(Users)]

\* The numbers of the lens, the chart and the details are those of some moment,
\* and the team counts each member, once unless the target is in a loop.  Who is
\* shown was a report at some moment and fits on the page, whoever was one all
\* along and among the first of them is shown, and if nothing was written the
\* page is full.  The manager shown was the manager.
ChartsShowTheLine ==
    LET u == view.target
        reports(d) == {r \in Users : Live(d.users, r) /\ d.users[r].manager = u}
    IN /\ Answered("lens") => \E d \in during :
             /\ view.tree >= Cardinality(Team(d, u))
             /\ u \notin Team(d, u) => view.tree = Cardinality(Team(d, u))
       /\ Answered("lens") /\ Cardinality(during) = 1 => view.count <= view.tree
       /\ Answered("chart") \/ Answered("details") =>
             /\ \A r \in view.reports : \E d \in during : r \in reports(d)
             /\ \E d \in during : view.count = Cardinality(reports(d))
             /\ Cardinality(view.reports) <= view.take
             /\ Cardinality(during) = 1 =>
                   Cardinality(view.reports) = Earlier(view.take, Later(0, view.count - view.skip))
             /\ \A r \in Users :
                   /\ \A d \in during : r \in reports(d)
                   /\ view.skip = 0 /\ \A d \in during : Cardinality(reports(d)) <= view.take
                   => r \in view.reports
       /\ Answered("chart") \/ Answered("profile") =>
             \A m \in view.manager : \E d \in during : d.users[u].manager = m

Size(n) == IF n < 0 THEN -n ELSE n

\* The report is about the requests of those who were in the unit, active or
\* not, of the time asked for.  Of whatever the model has answered with whose sum
\* is positive, and whose first two shares read as numbers, the report either
\* keeps shares that add up to a hundred, or nearly, or has numbers that add up to
\* a hundred; if the model gave numbers, these are in the proportions of the
\* answer: two are rounded, and the third takes what the rounding leaves.
ReportIsOfTheUnit ==
    Answered("analysis") =>
        /\ \A r \in view.raw : \E d \in during : d.users[r.user].unit = view.unit
        /\ \A r \in Requests :
              /\ r.created >= Today - WindowDays
              /\ \A d \in during : d.status[r] # "NONE" /\ d.users[r.user].live
                                                       /\ d.users[r.user].unit = view.unit
              => r \in view.raw
        /\ view.raw = {} <=> view.shares = EmptyShares /\ "reply" \notin DOMAIN view
        /\ view.raw # {} =>
              LET reply == view.reply
                  total == Total(reply)
                  off(key) == Size(view.shares[key].value * total.value - 100 * Grain * reply[key].value)
              IN /\ Positive(total) /\ (\A key \in Keys \ {"negative"} : ReadsAsNumber(reply[key])) =>
                       \/ view.shares = Given(reply) /\ Close(total)
                       \/ /\ \A key \in Keys : view.shares[key].kind = "number"
                          /\ Sum(view.shares) = 100 * Grain
                 /\ /\ Positive(total) /\ ~Close(total)
                    /\ \A key \in Keys : reply[key].kind = "number"
                    => /\ 2 * off("positive") <= total.value * Grain
                       /\ 2 * off("neutral") <= total.value * Grain
                       /\ off("negative") <= total.value * Grain
=============================================================================
