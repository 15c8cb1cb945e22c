-------------------------- MODULE AttendanceViews --------------------------
(***************************************************************************)
(* The views of AttendanceManagementService on one employee: the overview   *)
(* and the log of a window of days, the card of a day and the pay cycle of  *)
(* a date.  A view issues its queries together (Promise.all) and they run   *)
(* one by one, in any order, among the steps of taps, the aggregation       *)
(* worker, decisions on leave and new holidays; the answer is computed from *)
(* what they found.                                                        *)
(*                                                                         *)
(* Durations are minutes; what is only formatted, named or constant in the  *)
(* responses is left out, and so is who may see whom.                      *)
(***************************************************************************)
EXTENDS ShiftWindow, PayCycle, FiniteSetsExt, SequencesExt

CONSTANTS
    Days,          \* the dates of the model
    Instants,      \* when taps may happen
    Requests,      \* leave requests of the employee that may be approved
    Imports,       \* what attendance_daily may hold at the start
    Breaks,        \* break minutes the worker may deduct
    Extras,        \* minutes late or over it may find
    Feasts,        \* dates that may become holidays
    StartDays,     \* cycleStartDay of the assignments, a bound
    MaxTaps,       \* taps under way at once, a bound
    MaxWindow,     \* MAX_DATE_WINDOW_DAYS
    MaxLeaves,     \* MAX_LEAVE_FETCH
    NoRow, NoShift

VARIABLES
    now,           \* the clock
    daily,         \* attendance_daily
    logs,          \* attendance_logs
    taps,          \* taps under way
    approved,      \* the leave requests that are APPROVED
    holidays,      \* public_holidays of the country, not optional
    view           \* the request being served

vars == <<now, daily, logs, taps, approved, holidays, view>>

NoTime == -10000
NoMins == -1

DayTypes == {"WORKING_DAY", "WEEKOFF", "PUBLIC_HOLIDAY", "REST_DAY"}

Row == [dayType : DayTypes,
        shift   : Shift \cup {NoShift},
        first   : Int,
        last    : Int,
        work    : Int,     \* totalWorkMins
        late    : Int,     \* lateByMins
        ot      : Int]     \* overtimeMins

EventTypes == {"clock_in", "clock_out"}

LogRow == [day : Days, type : EventTypes, at : Instants]

\* A tap under way: what it does next, its day and shift, and the row it found.
Tap == [pc    : {"find", "upsert", "log"},
        day   : Days,
        type  : EventTypes,
        at    : Instants,
        shift : Shift,
        copy  : Row \cup {NoRow}]

LeaveRequest == [from : Days, to : Days, type : {"ANNUAL", "UNPAID"}]

\* Day 0 is a Sunday.
Weekday(day) == day % 7

Weekend(shift) == IF shift = NoShift THEN {0, 6} ELSE shift.weekend

ShiftMins(shift) ==
    IF shift = NoShift THEN 9 * 60
    ELSE IF shift.overnight THEN DayMins - shift.start + shift.end
    ELSE IF shift.end > shift.start THEN shift.end - shift.start
    ELSE 0

Positive(n) == IF n > 0 THEN n ELSE 0

Known(mins) == IF mins = NoMins THEN 0 ELSE mins

\* A tap at t is resolved to the day by a shift it may find.
OfDay(t, day) == \E a \in LatestOn(LocalDay(t)) : ResolvedDay(a.shift, t) = day

ElapsedOnTheClock(row) == PunchLocalTime(row.last) - PunchLocalTime(row.first)

Elapsed(row) == row.last - row.first

RawElapsed(row) == IF row.first # NoTime /\ row.last # NoTime THEN Elapsed(row) ELSE 0

ASSUME ViewsAssumption ==
    /\ Requests \subseteq {r \in LeaveRequest : r.from <= r.to}
    /\ Cardinality(Requests) <= MaxLeaves    \* the comment at MAX_LEAVE_FETCH
    /\ IsFiniteSet(Requests) /\ MaxLeaves \in Nat
    /\ Imports \subseteq [Days -> Row \cup {NoRow}]
    /\ \A rows \in Imports, day \in Days :
          rows[day] # NoRow => rows[day].last = NoTime \/ OfDay(rows[day].last, day)
    /\ Breaks \subseteq Nat /\ Extras \subseteq Nat /\ Feasts \subseteq Days
    /\ MaxWindow \in Nat /\ StartDays \subseteq Nat \ {0}
    /\ Days \subseteq Int /\ \A from, to \in Days : from..to \subseteq Days
    /\ \A day \in Days : \E m \in 1..(LastMonth - 2) :
          FirstDay[m] <= day /\ day < FirstDay[m + 1]
    /\ Instants \subseteq Int \ {NoTime}
    /\ \A t \in Instants, a \in Roster : ResolvedDay(a.shift, t) \in Days
    /\ NoRow \notin Row /\ NoShift \notin Shift

-----------------------------------------------------------------------------
(* What a view knows once its queries are in: s.rows on its window, s.off,  *)
(* s.leaves in the order found, and s.shift, the shift on the first day.    *)

Window(s) == s.from..s.to

\* The leave the day is on: of several, the last one found.
LeaveOn(s, day) ==
    LET on == {i \in 1..Len(s.leaves) : s.leaves[i].from <= day /\ day <= s.leaves[i].to}
    IN IF on = {} THEN "none" ELSE s.leaves[Max(on)].type

ClockedIn(s, day) == s.rows[day] # NoRow /\ s.rows[day].first # NoTime

\* getAttendanceOverview(): a row is asked before the calendar.
OverviewClass(s, day) ==
    LET row == s.rows[day] IN
    IF \/ row # NoRow /\ row.dayType # "WORKING_DAY"
       \/ row = NoRow /\ (day \in s.off \/ Weekday(day) \in Weekend(s.shift))
    THEN "off"
    ELSE IF LeaveOn(s, day) # "none" THEN "leave"
    ELSE IF ClockedIn(s, day) THEN "present"
    ELSE "absent"

Card(s, day) ==
    LET class == OverviewClass(s, day)
        row   == s.rows[day]
        worked == class \in {"leave", "present"} /\ row # NoRow
    IN [class  |-> class,
        work   |-> IF worked THEN Known(row.work) ELSE 0,
        late   |-> IF worked THEN Known(row.late) ELSE 0,
        ot     |-> IF worked THEN Known(row.ot) ELSE 0,
        missed |-> IF class = "absent" THEN ShiftMins(s.shift) ELSE 0,
        unused |-> IF class = "off" THEN ShiftMins(s.shift) ELSE 0]

DaysOf(s, class) == {day \in Window(s) : OverviewClass(s, day) = class}

\* Work is summed from the times of the row, not from its card.
RawWork(s, day) ==
    LET row == s.rows[day] IN IF row.last = NoTime THEN Known(row.work) ELSE Elapsed(row)

WorkSum(s) == MapThenSumSet(LAMBDA day : RawWork(s, day), DaysOf(s, "present"))
LateSum(s) == MapThenSumSet(LAMBDA day : Card(s, day).late, Window(s))
OvertimeSum(s) == MapThenSumSet(LAMBDA day : Card(s, day).ot, Window(s))

Average(sum, n) == Positive(sum \div (IF n = 0 THEN 1 ELSE n))

Overview(s) ==
    LET present == Cardinality(DaysOf(s, "present"))
        absent  == Cardinality(DaysOf(s, "absent"))
        leave   == Cardinality(DaysOf(s, "leave"))
        work == WorkSum(s)
        late == LateSum(s)
        ot   == OvertimeSum(s)
    IN [present |-> present, absent |-> absent, leave |-> leave,
        work |-> Positive(work), avgWork |-> Average(work, present),
        late |-> late, avgLate |-> Average(late, present + absent + leave),
        ot |-> ot, avgOt |-> Average(ot, present)]

LogClassPresentFirst(s, day) ==
    IF day \in s.off \/ Weekday(day) \in Weekend(s.shift) THEN "off"
    ELSE IF ClockedIn(s, day) THEN "present"
    ELSE IF LeaveOn(s, day) # "none" THEN "leave"
    ELSE "absent"

\* getAttendanceLog(): the counters ask the calendar only.
LogClass(s, day) ==
    IF day \in s.off \/ Weekday(day) \in Weekend(s.shift) THEN "off"
    ELSE IF LeaveOn(s, day) = "UNPAID" THEN "unpaid"
    ELSE IF LeaveOn(s, day) # "none" THEN "leave"
    ELSE IF ClockedIn(s, day) THEN "present"
    ELSE "absent"

LogCount(s, class) == Cardinality({day \in Window(s) : LogClass(s, day) = class})

Badge(s, day) ==
    IF ClockedIn(s, day) THEN "present"
    ELSE IF day \in s.off THEN "holiday"
    ELSE IF Weekday(day) \in Weekend(s.shift) THEN "weekoff"
    ELSE IF LeaveOn(s, day) # "none" THEN "leave"
    ELSE "absent"

\* The shift of the row counts before the one of the window.
ShiftOf(s, day) == IF s.rows[day].shift # NoShift THEN s.rows[day].shift ELSE s.shift

EarlyOut(s, day) ==
    LET row == s.rows[day]
        shift == ShiftOf(s, day)
    IN IF \/ row.last = NoTime \/ row.first = NoTime
          \/ shift = NoShift \/ shift.overnight
       THEN 0
       ELSE Positive(shift.end - PunchLocalTime(row.last))

Entry0 == [badge |-> "absent", elapsed |-> 0, final |-> 0, break |-> 0, early |-> 0,
           late |-> 0, ot |-> 0]

LogEntry(s, day) ==
    LET row     == s.rows[day]
        elapsed == RawElapsed(row)
        final   == IF row.work # NoMins THEN row.work ELSE elapsed
    IN IF row = NoRow THEN [Entry0 EXCEPT !.badge = Badge(s, day)]
       ELSE [badge   |-> Badge(s, day),
             elapsed |-> IF ClockedIn(s, day) THEN Positive(elapsed) ELSE 0,
             final   |-> IF ClockedIn(s, day) /\ row.last # NoTime THEN Positive(final) ELSE 0,
             break   |-> IF ClockedIn(s, day) THEN Positive(elapsed - final) ELSE 0,
             early   |-> EarlyOut(s, day),
             late    |-> Known(row.late),
             ot      |-> Known(row.ot)]

\* getDayStatus(): the stored minutes and the times of one day.
DayStatus(s, day) ==
    LET row == s.rows[day] IN
    [total |-> IF row = NoRow THEN 0 ELSE Known(row.work),
     shift |-> ShiftMins(s.shift),
     in    |-> IF row = NoRow THEN NoTime ELSE row.first,
     out   |-> IF row = NoRow THEN NoTime ELSE row.last]

-----------------------------------------------------------------------------
(* What writes the data.  First the taps that AttendanceClock has in full,  *)
(* as far as the views see them: each is cut at its round trips, and of a   *)
(* tap that dies between two of them the first stays.                      *)

\* The clock-ins and the leaves that a view has known from the moment it was
\* asked for: history for the properties.
ClockInsKept == {day \in Days : daily[day] # NoRow /\ daily[day].first # NoTime}

StillKnown ==
    view' = [view EXCEPT !.known = [clockIns |-> @.clockIns \cap ClockInsKept',
                                    leaves   |-> @.leaves \cap approved']]

BeginTap(type) ==
    /\ Cardinality(taps) < MaxTaps
    /\ \E t \in Instants :
          /\ t >= now
          /\ now' = t
          /\ \E a \in LatestOn(LocalDay(t)) :
               taps' = taps \cup {[pc |-> "find", day |-> ResolvedDay(a.shift, t), type |-> type,
                                  at |-> t, shift |-> a.shift, copy |-> NoRow]}
    /\ UNCHANGED <<daily, logs, approved, holidays, view>>

TapGoes(tap, pc, copy) ==
    taps' = (taps \ {tap}) \cup {[tap EXCEPT !.pc = pc, !.copy = copy]}

FindDaily(tap) ==
    /\ tap.pc = "find"
    /\ TapGoes(tap, "upsert", daily[tap.day])
    /\ UNCHANGED <<now, daily, logs, approved, holidays, view>>

CreatedOnClockIn(tap) ==
    [dayType |-> "WORKING_DAY", shift |-> tap.shift,
     first   |-> IF tap.type = "clock_in" THEN tap.at ELSE NoTime,
     last    |-> NoTime,
     work    |-> NoMins, late |-> NoMins, ot |-> NoMins]

Created(tap) ==
    [dayType |-> "WORKING_DAY", shift |-> tap.shift,
     first   |-> IF tap.type = "clock_in" THEN tap.at ELSE NoTime,
     last    |-> IF tap.type = "clock_out" THEN tap.at ELSE NoTime,
     work    |-> NoMins, late |-> NoMins, ot |-> NoMins]

Updated(row, tap) ==
    [row EXCEPT !.first = IF tap.type = "clock_in" /\ tap.copy.first = NoTime THEN tap.at ELSE @,
                !.last  = IF tap.type = "clock_out" THEN tap.at ELSE @]

\* Of two taps that have found no row, the later one's create is refused.
UpsertDaily(tap) ==
    LET row == daily[tap.day] IN
    /\ tap.pc = "upsert"
    /\ UNCHANGED <<now, logs, approved, holidays>>
    /\ \/ /\ tap.copy = NoRow /\ row # NoRow
          /\ taps' = taps \ {tap}
          /\ UNCHANGED <<daily, view>>
       \/ /\ tap.copy = NoRow => row = NoRow
          /\ daily' = [daily EXCEPT ![tap.day] =
                          IF tap.copy = NoRow THEN Created(tap) ELSE Updated(row, tap)]
          /\ TapGoes(tap, "log", tap.copy)
          /\ StillKnown

InsertLog(tap) ==
    /\ tap.pc = "log"
    /\ logs' = logs \cup {[day |-> tap.day, type |-> tap.type, at |-> tap.at]}
    /\ taps' = taps \ {tap}
    /\ UNCHANGED <<now, daily, approved, holidays, view>>

\* A round trip fails, or the process dies.
FailTap(tap) ==
    /\ taps' = taps \ {tap}
    /\ UNCHANGED <<now, daily, logs, approved, holidays, view>>

\* The types that the worker may give the row of a day.
DayTypesFor(day, row) ==
    {row.dayType} \cup {type \in {"PUBLIC_HOLIDAY"} : day \in holidays}
                  \cup {type \in {"WEEKOFF"} :
                          row.shift # NoShift /\ Weekday(day) \in row.shift.weekend}

TimesOf(day, type) == {l.at : l \in {m \in logs : m.day = day /\ m.type = type}}

\* The earliest of some times, or none.
Firsts(times) == IF times = {} THEN {NoTime} ELSE {t \in times : \A u \in times : t <= u}

Lasts(times) == IF times = {} THEN {NoTime} ELSE {t \in times : \A u \in times : u <= t}

\* The worker of attendance.queue.ts, once per row and after the log row of a
\* tap, with whose scan its job is dispatched: it takes the times from the log,
\* not from the row.
Aggregate(day) ==
    /\ daily[day] # NoRow /\ daily[day].shift # NoShift /\ daily[day].work = NoMins
    /\ \E l \in logs : l.day = day
    /\ \E first \in Firsts(TimesOf(day, "clock_in")), last \in Lasts(TimesOf(day, "clock_out")),
          break \in Breaks, extra \in Extras, type \in DayTypesFor(day, daily[day]) :
          LET elapsed == IF first # NoTime /\ last # NoTime THEN last - first ELSE 0 IN
          daily' = [daily EXCEPT ![day] =
                       [@ EXCEPT !.first = first, !.last = last,
                                 !.work = Positive(elapsed - break), !.late = extra, !.ot = extra,
                                 !.dayType = type]]
    /\ UNCHANGED <<now, logs, taps, approved, holidays>>
    /\ StillKnown

Approve(r) ==
    /\ approved' = approved \cup {r}
    /\ UNCHANGED <<now, daily, logs, taps, holidays, view>>

\* A decision that has read the request before it was approved writes it by id:
\* an APPROVED request is overwritten.
Overwrite(r) ==
    /\ r \in approved
    /\ approved' = approved \ {r}
    /\ UNCHANGED <<now, daily, logs, taps, holidays>>
    /\ StillKnown

Proclaim(day) ==
    /\ holidays' = holidays \cup {day}
    /\ UNCHANGED <<now, daily, logs, taps, approved, view>>

-----------------------------------------------------------------------------
(* The requests.  The overview and the log of a window make the same four   *)
(* queries; shift_assignments, which nothing in src/ writes, is found with  *)
(* the start.                                                              *)

NoView == [pc |-> "idle", kind |-> "window", from |-> 0, to |-> 0, todo |-> {},
           shift |-> NoShift, rows |-> << >>, off |-> {}, leaves |-> << >>,
           start |-> 1, known |-> [clockIns |-> {}, leaves |-> {}]]

Queries == {"rows", "off", "leaves"}

\* The shift of the assignment in force on the day, if there is one.
ShiftsFound(day) ==
    IF LatestOn(day) = {} THEN {NoShift} ELSE {a.shift : a \in LatestOn(day)}

Serve(kind, from, to, start, queries) ==
    /\ view.pc # "reading"
    /\ \E shift \in ShiftsFound(from) :
          view' = [NoView EXCEPT !.kind = kind, !.from = from, !.to = to, !.start = start,
                                 !.pc = IF queries = {} THEN "answered" ELSE "reading",
                                 !.todo = queries, !.shift = shift,
                                 !.known = [clockIns |-> ClockInsKept, leaves |-> approved]]
    /\ UNCHANGED <<now, daily, logs, taps, approved, holidays>>

Refuse(kind, from, to) ==
    /\ view.pc # "reading"
    /\ view' = [NoView EXCEPT !.kind = kind, !.from = from, !.to = to, !.pc = "refused"]
    /\ UNCHANGED <<now, daily, logs, taps, approved, holidays>>

BadWindow(from, to) == from > to \/ to - from + 1 > MaxWindow

AskWindow(from, to) ==
    IF BadWindow(from, to) THEN Refuse("window", from, to)
    ELSE Serve("window", from, to, 1, Queries)

AskDay(day) == Serve("day", day, day, 1, {"rows"})

\* getAttendanceDetails(): the shift card of the first day; a window of any
\* length is accepted.
AskDetails(from, to) ==
    IF to < from THEN Refuse("details", from, to) ELSE Serve("details", from, to, 1, {})

\* getAttendancePoliciesDetails(): the start day is that of the assignment, the
\* first where there is none.
AskPolicies(day) ==
    \E start \in IF LatestOn(day) = {} THEN {1} ELSE StartDays :
        Serve("policies", day, day, start, {})

ApprovedStartingIn(from, to) == {r \in approved : from <= r.from /\ r.from <= to}

\* The leaves that overlap the window.
ApprovedIn(from, to) == {r \in approved : r.from <= to /\ from <= r.to}

Read(query) ==
    /\ view.pc = "reading" /\ query \in view.todo
    /\ LET seen == [view EXCEPT !.todo = @ \ {query},
                                !.pc = IF view.todo = {query} THEN "answered" ELSE @] IN
       \/ /\ query = "rows"
          /\ view' = [seen EXCEPT !.rows = [day \in Window(view) |-> daily[day]]]
       \/ /\ query = "off"
          /\ view' = [seen EXCEPT !.off = holidays \cap Window(view)]
       \/ /\ query = "leaves"
          /\ \E found \in SetToSeqs(ApprovedIn(view.from, view.to)) :
               view' = [seen EXCEPT
                   !.leaves = SubSeq(found, 1, IF Len(found) < MaxLeaves THEN Len(found) ELSE MaxLeaves)]
    /\ UNCHANGED <<now, daily, logs, taps, approved, holidays>>

-----------------------------------------------------------------------------

Init ==
    /\ now \in Instants /\ \A t \in Instants : now <= t
    /\ daily \in Imports
    /\ logs = {}
    /\ taps = {}
    /\ approved = {}
    /\ holidays = {}
    /\ view = NoView

Next ==
    \/ \E type \in EventTypes : BeginTap(type)
    \/ \E tap \in taps : FindDaily(tap) \/ UpsertDaily(tap) \/ InsertLog(tap) \/ FailTap(tap)
    \/ \E day \in Days : Aggregate(day)
    \/ \E r \in Requests : Approve(r) \/ Overwrite(r)
    \/ \E day \in Feasts : Proclaim(day)
    \/ \E from, to \in Days : AskWindow(from, to) \/ AskDetails(from, to)
    \/ \E day \in Days : AskDay(day) \/ AskPolicies(day)
    \/ \E query \in Queries : Read(query)

Spec == Init /\ [][Next]_vars

-----------------------------------------------------------------------------
(* Properties.  Answered windows are judged by both views on what was read. *)

\* Every variable stays in its type, a row a tap has created has a time, and
\* what a tap has logged has its row.
TypeOK ==
    /\ now \in Instants
    /\ daily \in [Days -> Row \cup {NoRow}]
    /\ \A day \in Days : daily[day] # NoRow =>
          \/ daily[day].first # NoTime \/ daily[day].last # NoTime
          \/ \E rows \in Imports : rows[day] # NoRow
    /\ logs \subseteq LogRow
    /\ taps \subseteq Tap
    /\ \A l \in logs : daily[l.day] # NoRow
    /\ approved \subseteq Requests
    /\ holidays \subseteq Feasts
    /\ view.pc \in {"idle", "reading", "answered", "refused"}
    /\ view.pc = "answered" /\ view.kind \in {"window", "day"} =>
          view.rows \in [Window(view) -> Row \cup {NoRow}]

WindowAnswered == view.pc = "answered" /\ view.kind = "window"

\* A reason not to be absent that has stood from the question to the answer.
KnownReason(day) ==
    \/ day \in view.known.clockIns
    \/ \E r \in view.known.leaves : r.from <= day /\ day <= r.to

\* A clock-in, or an approved leave, that stands from the moment a view is asked
\* for until it is answered is not forgotten: neither view counts or shows that
\* day as absent, whatever else is written, overwritten or erased between its
\* queries.
NothingForgotten ==
    WindowAnswered =>
        \A day \in Window(view) :
            KnownReason(day) =>
                /\ OverviewClass(view, day) # "absent"
                /\ LogClass(view, day) # "absent"
                /\ Badge(view, day) # "absent"

\* The stored day types are those the calendar of the window gives.
Regular(s) ==
    \A day \in Window(s) :
        s.rows[day] # NoRow =>
            (s.rows[day].dayType = "WORKING_DAY")
                <=> ~(day \in s.off \/ Weekday(day) \in Weekend(s.shift))

\* Where the stored day types are those of the calendar, the overview and the
\* log count the same days as present, absent and on leave, and the badge of a
\* day without a clock-in is the counter the day is in.
ViewsAgree ==
    WindowAnswered /\ Regular(view) =>
        LET total == Overview(view) IN
        /\ total.present = LogCount(view, "present")
        /\ total.absent = LogCount(view, "absent")
        /\ total.leave = LogCount(view, "leave") + LogCount(view, "unpaid")
        /\ \A day \in Window(view) :
              ~ClockedIn(view, day) =>
                  (Badge(view, day) = "absent") <=> (LogClass(view, day) = "absent")

\* No night shift begins on the day or the day after.
SteadyAround(day) == \A d \in {day, day + 1} : \A a \in LatestOn(d) : ~a.shift.overnight

\* A day's early-out is the time from its last clock-out to the end of its shift
\* on that day, none after that end, if the clock-out was made on that date: it
\* always was, unless the day is followed by a night shift, whose window takes
\* the small hours of the next date.
EarlyOutIsEarly ==
    WindowAnswered =>
        \A day \in Window(view) :
            LET row == view.rows[day] IN
            /\ ClockedIn(view, day) /\ row.last # NoTime
            /\ row.shift # NoShift /\ ~row.shift.overnight
            /\ SteadyAround(day) \/ LocalDay(row.last) = day
            => LogEntry(view, day).early = Positive(day * DayMins + row.shift.end - TzMins - row.last)

\* No clock-out before the first clock-in.
InOrder(row) == row.first # NoTime /\ row.last # NoTime => row.first <= row.last

\* No more minutes of work than there are between the taps.
WorkFits(row) ==
    row.work = NoMins
    \/ row.work \in 0..(IF row.first # NoTime /\ row.last # NoTime THEN row.last - row.first ELSE 0)

InOrderAndFits(row) == row # NoRow => InOrder(row) /\ WorkFits(row)

\* The summary is not below what the cards of the days add up to, its averages
\* times their days not above it, the log divides the time between the taps
\* into work and break, and the card of a day alone shows the work of its card
\* in the overview, as long as the taps are in order and no tap that was delayed
\* past the worker has put back the clock-out it has counted.
TotalsCoverCards ==
    WindowAnswered /\ (\A day \in Window(view) : InOrderAndFits(view.rows[day])) =>
        LET total == Overview(view) IN
        /\ total.work >= MapThenSumSet(LAMBDA day : Card(view, day).work, DaysOf(view, "present"))
        /\ total.present * total.avgWork <= total.work
        /\ \A day \in DaysOf(view, "present") :
              LET entry == LogEntry(view, day) IN
              /\ view.rows[day].last # NoTime => entry.final + entry.break = entry.elapsed
              /\ DayStatus(view, day).total = Card(view, day).work

\* The cycle of a date holds the date, and is the cycle of each of its dates.
CycleHoldsItsDates ==
    view.pc = "answered" /\ view.kind = "policies" =>
        LET cycle == CycleStart(view.from, view.start)..CycleEnd(view.from, view.start) IN
        /\ view.from \in cycle
        /\ \A day \in Days \cap cycle : CycleMonth(day, view.start) = CycleMonth(view.from, view.start)
=============================================================================
