------------------------ MODULE AttendanceViewsProofs ------------------------
(***************************************************************************)
(* Theorems about AttendanceViews and PayCycle: what the views answer, for  *)
(* any calendar, roster, rows, leaves and holidays, and whatever is written *)
(* between the queries of a view.                                          *)
(***************************************************************************)
EXTENDS AttendanceViews, DataTheorems, SequenceTheorems

-----------------------------------------------------------------------------
(* The inductive invariant.                                                *)

\* The fields of a view.
Shape(v) ==
    v = [pc |-> v.pc, kind |-> v.kind, from |-> v.from, to |-> v.to, todo |-> v.todo,
         shift |-> v.shift, rows |-> v.rows, off |-> v.off, leaves |-> v.leaves,
         start |-> v.start, known |-> v.known]

\* The clock-out of a row was resolved to the day of the row.
OwnTimes(day, row) == row # NoRow => row.last = NoTime \/ OfDay(row.last, day)

RowsFound(v) ==
    /\ v.rows \in [Window(v) -> Row \cup {NoRow}]
    /\ \A day \in Window(v) : OwnTimes(day, v.rows[day])

\* What has stood since a view was asked for stands in the tables, and in what
\* the view has found of them.
KnownIsKept(v, clockIns, leaves) ==
    /\ v.known.clockIns \subseteq clockIns /\ v.known.leaves \subseteq leaves
    /\ "rows" \notin v.todo =>
          \A day \in Window(v) \cap v.known.clockIns : ClockedIn(v, day)
    /\ "leaves" \notin v.todo =>
          \A r \in v.known.leaves :
             r.from <= v.to /\ v.from <= r.to => \E i \in 1..Len(v.leaves) : v.leaves[i] = r

\* A view that was not refused.
Served(v) ==
    /\ v.from \in Days /\ v.to \in Days /\ v.start \in Nat \ {0}
    /\ v.todo \subseteq Queries
    /\ v.pc = "answered" => v.todo = {}
    /\ v.kind \in {"window", "day"} /\ "rows" \notin v.todo => RowsFound(v)
    /\ v.kind = "window" /\ "leaves" \notin v.todo => v.leaves \in Seq(Requests)

\* The tables, and the taps that are about to write to them.
TablesOK ==
    /\ now \in Instants
    /\ daily \in [Days -> Row \cup {NoRow}]
    /\ logs \subseteq LogRow /\ taps \subseteq Tap
    /\ approved \subseteq Requests /\ holidays \subseteq Feasts

\* A row has a time, or was laid down at the start.
HasTime(day, row) ==
    row # NoRow => \/ row.first # NoTime \/ row.last # NoTime
                   \/ \E rows \in Imports : rows[day] # NoRow

\* What a tap is about to log, or to update, has its row.
TimesAreOfTheirDays ==
    /\ \A day \in Days : HasTime(day, daily[day]) /\ OwnTimes(day, daily[day])
    /\ \A l \in logs : daily[l.day] # NoRow /\ OfDay(l.at, l.day)
    /\ \A tap \in taps :
          /\ OfDay(tap.at, tap.day)
          /\ tap.copy # NoRow \/ tap.pc = "log" => daily[tap.day] # NoRow

ViewInv ==
    /\ view.pc \in {"idle", "reading", "answered", "refused"}
    /\ Shape(view)
    /\ view.pc \in {"reading", "answered"} =>
          /\ Served(view)
          /\ view.kind = "window" => KnownIsKept(view, ClockInsKept, approved)

ViewsInv == TablesOK /\ TimesAreOfTheirDays /\ ViewInv

LEMMA TypesHold ==
    ASSUME ViewsInv
    PROVE  TypeOK
BY DEF ViewsInv, TablesOK, TimesAreOfTheirDays, HasTime, ViewInv, Served, RowsFound, TypeOK

-----------------------------------------------------------------------------
(* The tables.                                                             *)

LEMMA NotNoRow == NoRow \notin Row
BY ViewsAssumption

LEMMA WindowInDays ==
    ASSUME NEW v, v.from \in Days, v.to \in Days
    PROVE  Window(v) \subseteq Days
BY ViewsAssumption DEF Window

\* The shift of an assignment in force.
LEMMA ShiftOfAssignment ==
    ASSUME NEW day, NEW a \in LatestOn(day)
    PROVE  a \in Roster /\ a.shift \in Shift
<1>1. a \in Roster
  BY DEF LatestOn, ActiveOn
<1>2. PICK stays : a \in [from : Int, to : Int \cup {NoExpiry}, shift : Shift,
                          standard : Places \cup {NoPlace}, overrides : stays]
  BY <1>1, RosterAssumption, Zenon DEF Assignment
<1>. QED
  BY <1>1, <1>2

LEMMA NoInstant ==
    ASSUME NEW t \in Instants
    PROVE  t \in Int /\ t # NoTime
BY ViewsAssumption

\* What a tap makes of the row: a row with a time, and of the day.
LEMMA CreatedRow ==
    ASSUME NEW tap \in Tap, OfDay(tap.at, tap.day)
    PROVE  /\ Created(tap) \in Row
           /\ HasTime(tap.day, Created(tap)) /\ OwnTimes(tap.day, Created(tap))
<1>1. tap.at \in Int /\ tap.at # NoTime /\ tap.shift \in Shift /\ tap.type \in EventTypes
  BY NoInstant DEF Tap
<1>. QED
  BY <1>1 DEF Created, Row, DayTypes, NoTime, NoMins, HasTime, OwnTimes, EventTypes

LEMMA UpdatedRow ==
    ASSUME NEW tap \in Tap, OfDay(tap.at, tap.day),
           NEW row \in Row, HasTime(tap.day, row), OwnTimes(tap.day, row)
    PROVE  /\ Updated(row, tap) \in Row
           /\ HasTime(tap.day, Updated(row, tap)) /\ OwnTimes(tap.day, Updated(row, tap))
<1>1. tap.at \in Int /\ tap.at # NoTime /\ row # NoRow
  BY NoInstant, NotNoRow DEF Tap
<1>2. PICK new : new = [row EXCEPT !.first = IF tap.type = "clock_in" /\ tap.copy.first = NoTime
                                             THEN tap.at ELSE @,
                                   !.last  = IF tap.type = "clock_out" THEN tap.at ELSE @]
  OBVIOUS
<1>3. /\ new \in Row
      /\ new.first \in {row.first, tap.at} /\ new.last \in {row.last, tap.at}
  BY <1>1, <1>2 DEF Row
<1>4. HasTime(tap.day, new) /\ OwnTimes(tap.day, new)
  BY <1>1, <1>3 DEF HasTime, OwnTimes
<1>5. Updated(row, tap) = new
  BY <1>2 DEF Updated
<1>. QED
  BY <1>3, <1>4, <1>5

\* A writer of one row.
LEMMA OneRowWritten ==
    ASSUME TablesOK, TimesAreOfTheirDays, NEW day \in Days, NEW new \in Row,
           HasTime(day, new), OwnTimes(day, new), daily' = [daily EXCEPT ![day] = new]
    PROVE  /\ daily' \in [Days -> Row \cup {NoRow}]
           /\ daily'[day] # NoRow
           /\ \A d \in Days : /\ daily[d] # NoRow => daily'[d] # NoRow
                             /\ HasTime(d, daily'[d]) /\ OwnTimes(d, daily'[d])
<1>1. /\ daily' \in [Days -> Row \cup {NoRow}]
      /\ \A d \in Days : daily'[d] = IF d = day THEN new ELSE daily[d]
  BY DEF TablesOK
<1>. QED
  BY <1>1, NotNoRow DEF TimesAreOfTheirDays

-----------------------------------------------------------------------------
(* The taps and the worker.                                                *)

LEMMA BeginTapTables ==
    ASSUME TablesOK, TimesAreOfTheirDays, NEW type \in EventTypes, BeginTap(type)
    PROVE  TablesOK' /\ TimesAreOfTheirDays'
<1>0. PICK t \in Instants :
         /\ now' = t
         /\ \E tap :
              /\ \E a \in LatestOn(LocalDay(t)) :
                    tap = [pc |-> "find", day |-> ResolvedDay(a.shift, t), type |-> type,
                           at |-> t, shift |-> a.shift, copy |-> NoRow]
              /\ taps' = taps \cup {tap}
  BY DEF BeginTap
<1>1. PICK tap :
         /\ now' = t
         /\ \E a \in LatestOn(LocalDay(t)) :
               tap = [pc |-> "find", day |-> ResolvedDay(a.shift, t), type |-> type,
                      at |-> t, shift |-> a.shift, copy |-> NoRow]
         /\ taps' = taps \cup {tap}
  BY <1>0
<1>2. PICK a \in LatestOn(LocalDay(t)) :
         tap = [pc |-> "find", day |-> ResolvedDay(a.shift, t), type |-> type,
                at |-> t, shift |-> a.shift, copy |-> NoRow]
  BY <1>1
<1>3. a.shift \in Shift /\ ResolvedDay(a.shift, t) \in Days
  BY ShiftOfAssignment, ViewsAssumption
<1>4. /\ tap \in Tap /\ tap.copy = NoRow /\ tap.pc = "find"
      /\ tap.at = t /\ tap.day = ResolvedDay(a.shift, t)
  BY <1>2, <1>3 DEF Tap
<1>5. OfDay(tap.at, tap.day)
  BY <1>4 DEF OfDay
<1>6. UNCHANGED <<daily, logs, approved, holidays>>
  BY DEF BeginTap
<1>7. TablesOK'
  BY <1>1, <1>4, <1>6 DEF TablesOK
<1>8. TimesAreOfTheirDays'
  BY <1>1, <1>4, <1>5, <1>6 DEF TimesAreOfTheirDays
<1>. QED
  BY <1>7, <1>8

LEMMA FindDailyTables ==
    ASSUME TablesOK, TimesAreOfTheirDays, NEW tap \in taps, FindDaily(tap)
    PROVE  TablesOK' /\ TimesAreOfTheirDays'
<1>1. tap \in Tap /\ tap.day \in Days /\ OfDay(tap.at, tap.day)
  BY DEF TablesOK, TimesAreOfTheirDays, Tap
<1>2. PICK copy : copy = daily[tap.day]
  OBVIOUS
<1>3. copy \in Row \cup {NoRow}
  BY <1>1, <1>2 DEF TablesOK
<1>4. PICK next : next = [tap EXCEPT !.pc = "upsert", !.copy = copy]
  OBVIOUS
<1>5. /\ next \in Tap /\ next.day = tap.day /\ next.at = tap.at
      /\ next.pc = "upsert" /\ next.copy = copy
  BY <1>1, <1>3, <1>4 DEF Tap
<1>6. taps' = (taps \ {tap}) \cup {next} /\ UNCHANGED <<now, daily, logs, approved, holidays>>
  BY <1>2, <1>4 DEF FindDaily, TapGoes
<1>7. TablesOK'
  BY <1>5, <1>6 DEF TablesOK
<1>8. /\ \A day \in Days : HasTime(day, daily[day]) /\ OwnTimes(day, daily[day])
      /\ \A l \in logs : daily[l.day] # NoRow /\ OfDay(l.at, l.day)
      /\ \A d \in taps \cup {next} :
            /\ OfDay(d.at, d.day)
            /\ d.copy # NoRow \/ d.pc = "log" => daily[d.day] # NoRow
  <2>1. OfDay(next.at, next.day)
    BY <1>1, <1>5, Zenon
  <2>2. next.copy # NoRow \/ next.pc = "log" => daily[next.day] # NoRow
    BY <1>2, <1>5
  <2>. QED
    BY <2>1, <2>2, Zenon DEF TimesAreOfTheirDays
<1>9. daily' = daily /\ logs' = logs /\ taps' \subseteq taps \cup {next}
  BY <1>6
<1>10. TimesAreOfTheirDays'
  BY <1>8, <1>9 DEF TimesAreOfTheirDays
<1>. QED
  BY <1>7, <1>10

LEMMA UpsertDailyTables ==
    ASSUME TablesOK, TimesAreOfTheirDays, NEW tap \in taps, UpsertDaily(tap)
    PROVE  TablesOK' /\ TimesAreOfTheirDays'
<1>1. /\ tap \in Tap /\ tap.day \in Days /\ OfDay(tap.at, tap.day)
      /\ tap.copy \in Row \cup {NoRow} /\ tap.copy # NoRow => daily[tap.day] # NoRow
  BY DEF TablesOK, TimesAreOfTheirDays, Tap
<1>2. UNCHANGED <<now, logs, approved, holidays>>
  BY DEF UpsertDaily
<1>3. CASE taps' = taps \ {tap} /\ UNCHANGED daily
  BY <1>2, <1>3 DEF TablesOK, TimesAreOfTheirDays
<1>4. ASSUME tap.copy = NoRow => daily[tap.day] = NoRow,
             NEW new, new = IF tap.copy = NoRow THEN Created(tap) ELSE Updated(daily[tap.day], tap),
             daily' = [daily EXCEPT ![tap.day] = new], TapGoes(tap, "log", tap.copy)
      PROVE  TablesOK' /\ TimesAreOfTheirDays'
  <2>1. new \in Row /\ HasTime(tap.day, new) /\ OwnTimes(tap.day, new)
    <3>1. CASE tap.copy = NoRow
      BY <1>1, <1>4, <3>1, CreatedRow
    <3>2. CASE tap.copy # NoRow
      <4>1. daily[tap.day] \in Row /\ HasTime(tap.day, daily[tap.day])
            /\ OwnTimes(tap.day, daily[tap.day])
        BY <1>1, <3>2 DEF TablesOK, TimesAreOfTheirDays
      <4>. QED
        BY <1>1, <1>4, <3>2, <4>1, UpdatedRow
    <3>. QED
      BY <3>1, <3>2
  <2>2. /\ daily' \in [Days -> Row \cup {NoRow}] /\ daily'[tap.day] # NoRow
        /\ \A d \in Days : /\ daily[d] # NoRow => daily'[d] # NoRow
                          /\ HasTime(d, daily'[d]) /\ OwnTimes(d, daily'[d])
    BY <1>1, <1>4, <2>1, OneRowWritten
  <2>3. PICK next : next = [tap EXCEPT !.pc = "log", !.copy = tap.copy]
    OBVIOUS
  <2>4. /\ next \in Tap /\ next.day = tap.day /\ next.at = tap.at
    BY <1>1, <2>3 DEF Tap
  <2>5. taps' = (taps \ {tap}) \cup {next}
    BY <1>4, <2>3 DEF TapGoes
  <2>6. TablesOK'
    BY <1>2, <2>2, <2>4, <2>5 DEF TablesOK
  <2>7. /\ \A l \in logs : l.day \in Days
        /\ \A d \in taps : d.day \in Days
    BY DEF TablesOK, LogRow, Tap
  <2>8. \A d \in taps \cup {next} :
           /\ OfDay(d.at, d.day)
           /\ d.copy # NoRow \/ d.pc = "log" => daily'[d.day] # NoRow
    <3>1. OfDay(next.at, next.day) /\ daily'[next.day] # NoRow
      BY <1>1, <2>2, <2>4, Zenon
    <3>2. ASSUME NEW d \in taps
          PROVE  /\ OfDay(d.at, d.day)
                 /\ d.copy # NoRow \/ d.pc = "log" => daily'[d.day] # NoRow
      <4>1. /\ d.day \in Days /\ OfDay(d.at, d.day)
            /\ d.copy # NoRow \/ d.pc = "log" => daily[d.day] # NoRow
        BY <2>7, Zenon DEF TimesAreOfTheirDays
      <4>. QED
        BY <2>2, <4>1, Zenon
    <3>. QED
      BY <3>1, <3>2, Zenon
  <2>9. \A l \in logs : daily'[l.day] # NoRow /\ OfDay(l.at, l.day)
    BY <2>2, <2>7 DEF TimesAreOfTheirDays
  <2>10. TimesAreOfTheirDays'
    BY <1>2, <2>2, <2>5, <2>8, <2>9 DEF TimesAreOfTheirDays
  <2>. QED
    BY <2>6, <2>10
<1>. QED
  BY <1>3, <1>4 DEF UpsertDaily

LEMMA InsertLogTables ==
    ASSUME TablesOK, TimesAreOfTheirDays, NEW tap \in taps, InsertLog(tap)
    PROVE  TablesOK' /\ TimesAreOfTheirDays'
<1>1. PICK l : l = [day |-> tap.day, type |-> tap.type, at |-> tap.at]
  OBVIOUS
<1>2. tap \in Tap /\ tap.pc = "log" /\ OfDay(tap.at, tap.day) /\ daily[tap.day] # NoRow
  BY DEF TablesOK, TimesAreOfTheirDays, InsertLog
<1>3. l \in LogRow /\ l.day = tap.day /\ l.at = tap.at
  BY <1>1, <1>2 DEF LogRow, Tap
<1>4. /\ logs' = logs \cup {l} /\ taps' = taps \ {tap}
      /\ UNCHANGED <<now, daily, approved, holidays>>
  BY <1>1 DEF InsertLog
<1>5. TablesOK'
  BY <1>3, <1>4 DEF TablesOK
<1>6. TimesAreOfTheirDays'
  BY <1>2, <1>3, <1>4 DEF TimesAreOfTheirDays
<1>. QED
  BY <1>5, <1>6

\* The worker takes the times of a day that has been logged from the log.
LEMMA LoggedTimes ==
    ASSUME TablesOK, TimesAreOfTheirDays, NEW day, NEW type, NEW t,
           t \in Firsts(TimesOf(day, type)) \/ t \in Lasts(TimesOf(day, type))
    PROVE  /\ t \in Int
           /\ t # NoTime => OfDay(t, day)
           /\ (\E l \in logs : l.day = day /\ l.type = type) => t # NoTime
<1>1. ASSUME NEW u \in TimesOf(day, type)
      PROVE  u \in Instants /\ OfDay(u, day)
  BY <1>1 DEF TimesOf, TablesOK, TimesAreOfTheirDays, LogRow
<1>2. (\E l \in logs : l.day = day /\ l.type = type) => TimesOf(day, type) # {}
  BY DEF TimesOf
<1>3. CASE TimesOf(day, type) = {}
  BY <1>2, <1>3 DEF Firsts, Lasts, NoTime
<1>4. CASE TimesOf(day, type) # {}
  <2>1. t \in TimesOf(day, type)
    BY <1>4 DEF Firsts, Lasts
  <2>. QED
    BY <1>1, <2>1, NoInstant
<1>. QED
  BY <1>3, <1>4

LEMMA AggregateTables ==
    ASSUME TablesOK, TimesAreOfTheirDays, NEW day \in Days, Aggregate(day)
    PROVE  TablesOK' /\ TimesAreOfTheirDays'
<1>1. PICK row \in Row : row = daily[day]
  BY DEF TablesOK, Aggregate
<1>0. PICK break \in Breaks, extra \in Extras, type \in DayTypesFor(day, daily[day]) :
         \E first, last, work :
         /\ first \in Firsts(TimesOf(day, "clock_in"))
         /\ last \in Lasts(TimesOf(day, "clock_out"))
         /\ work = Positive((IF first # NoTime /\ last # NoTime THEN last - first ELSE 0) - break)
         /\ daily' = [daily EXCEPT ![day] =
                        [daily[day] EXCEPT !.first = first, !.last = last, !.work = work,
                                           !.late = extra, !.ot = extra, !.dayType = type]]
  <2>1. PICK f \in Firsts(TimesOf(day, "clock_in")), l \in Lasts(TimesOf(day, "clock_out")),
             break \in Breaks, extra \in Extras, type \in DayTypesFor(day, daily[day]) :
           daily' = [daily EXCEPT ![day] =
                       [daily[day] EXCEPT !.first = f, !.last = l,
                          !.work = Positive((IF f # NoTime /\ l # NoTime THEN l - f ELSE 0) - break),
                          !.late = extra, !.ot = extra, !.dayType = type]]
    BY DEF Aggregate
  <2>2. PICK work : work = Positive((IF f # NoTime /\ l # NoTime THEN l - f ELSE 0) - break)
    OBVIOUS
  <2>3. daily' = [daily EXCEPT ![day] =
                    [daily[day] EXCEPT !.first = f, !.last = l, !.work = work,
                                       !.late = extra, !.ot = extra, !.dayType = type]]
    BY <2>1, <2>2, Zenon
  <2>. QED
    BY <2>2, <2>3, Zenon
<1>2. PICK first, last, work :
         /\ first \in Firsts(TimesOf(day, "clock_in"))
         /\ last \in Lasts(TimesOf(day, "clock_out"))
         /\ work = Positive((IF first # NoTime /\ last # NoTime THEN last - first ELSE 0) - break)
         /\ daily' = [daily EXCEPT ![day] =
                        [daily[day] EXCEPT !.first = first, !.last = last, !.work = work,
                                           !.late = extra, !.ot = extra, !.dayType = type]]
  BY <1>0
<1>3. /\ first \in Int /\ last \in Int
      /\ last # NoTime => OfDay(last, day)
      /\ (\E l \in logs : l.day = day /\ l.type = "clock_in") => first # NoTime
      /\ (\E l \in logs : l.day = day /\ l.type = "clock_out") => last # NoTime
  BY <1>2, LoggedTimes
<1>4. first # NoTime \/ last # NoTime
  <2>1. PICK l \in logs : l.day = day
    BY DEF Aggregate
  <2>2. l.type \in {"clock_in", "clock_out"}
    BY <2>1 DEF TablesOK, LogRow, EventTypes
  <2>. QED
    BY <1>3, <2>1, <2>2
<1>5. type \in DayTypes
  BY <1>1, <1>0 DEF Row, DayTypesFor, DayTypes
<1>6. work \in Int /\ extra \in Int
  BY <1>2, <1>3, ViewsAssumption DEF Positive
<1>7. PICK new : new = [row EXCEPT !.first = first, !.last = last, !.work = work,
                                   !.late = extra, !.ot = extra, !.dayType = type]
  OBVIOUS
<1>8. new \in Row /\ new.first = first /\ new.last = last
  BY <1>3, <1>5, <1>6, <1>7 DEF Row
<1>9. daily' = [daily EXCEPT ![day] = new]
  BY <1>1, <1>2, <1>7
<1>10. HasTime(day, new) /\ OwnTimes(day, new)
  BY <1>3, <1>4, <1>8 DEF HasTime, OwnTimes
<1>11. /\ daily' \in [Days -> Row \cup {NoRow}]
       /\ \A d \in Days : /\ daily[d] # NoRow => daily'[d] # NoRow
                         /\ HasTime(d, daily'[d]) /\ OwnTimes(d, daily'[d])
  BY <1>8, <1>9, <1>10, OneRowWritten
<1>12. UNCHANGED <<now, logs, taps, approved, holidays>>
  BY DEF Aggregate
<1>13. TablesOK'
  BY <1>11, <1>12 DEF TablesOK
<1>14. /\ \A l \in logs : l.day \in Days
       /\ \A tap \in taps : tap.day \in Days
  BY DEF TablesOK, LogRow, Tap
<1>15. TimesAreOfTheirDays'
  BY <1>11, <1>12, <1>14 DEF TimesAreOfTheirDays
<1>. QED
  BY <1>13, <1>15

-----------------------------------------------------------------------------
(* The view among the writers.                                             *)

\* A step that takes back nothing the view may know.
LEMMA ViewBeside ==
    ASSUME ViewInv, UNCHANGED <<view, daily>>, approved \subseteq approved'
    PROVE  ViewInv'
<1>1. ClockInsKept' = ClockInsKept
  BY DEF ClockInsKept
<1>2. KnownIsKept(view, ClockInsKept, approved) => KnownIsKept(view, ClockInsKept, approved')
  BY DEF KnownIsKept
<1>3. ASSUME NEW v, v = view PROVE view' = v
  BY <1>3
<1>. QED
  BY <1>1, <1>2, <1>3 DEF ViewInv

\* A step that may take something back: it is then no longer known.
LEMMA ViewAmong ==
    ASSUME ViewInv, StillKnown
    PROVE  ViewInv'
<1>1. PICK known : known = [clockIns |-> view.known.clockIns \cap ClockInsKept',
                            leaves   |-> view.known.leaves \cap approved']
  OBVIOUS
<1>2. PICK v : v = [view EXCEPT !.known = known]
  OBVIOUS
<1>3. view' = v
  BY <1>1, <1>2 DEF StillKnown
<1>4. v = [pc |-> view.pc, kind |-> view.kind, from |-> view.from, to |-> view.to,
           todo |-> view.todo, shift |-> view.shift, rows |-> view.rows, off |-> view.off,
           leaves |-> view.leaves, start |-> view.start, known |-> known]
  BY <1>2 DEF ViewInv, Shape
<1>5. Shape(v)
  BY <1>4 DEF Shape
<1>6. Served(view) => Served(v)
  BY <1>4 DEF Served, RowsFound, Window
<1>7. /\ known.clockIns \subseteq view.known.clockIns /\ known.clockIns \subseteq ClockInsKept'
      /\ known.leaves \subseteq view.known.leaves /\ known.leaves \subseteq approved'
  BY <1>1
<1>8. KnownIsKept(view, ClockInsKept, approved) => KnownIsKept(v, ClockInsKept', approved')
  BY <1>4, <1>7 DEF KnownIsKept, Window, ClockedIn
<1>. QED
  BY <1>3, <1>4, <1>5, <1>6, <1>8 DEF ViewInv

-----------------------------------------------------------------------------
(* The requests.                                                           *)

\* What a step of the request being served leaves alone.
LEMMA ViewGoesOn ==
    ASSUME ViewsInv, UNCHANGED <<now, daily, logs, taps, approved, holidays>>, ViewInv'
    PROVE  ViewsInv'
<1>1. TablesOK'
  BY DEF ViewsInv, TablesOK
<1>2. TimesAreOfTheirDays'
  BY DEF ViewsInv, TimesAreOfTheirDays
<1>. QED
  BY <1>1, <1>2 DEF ViewsInv

\* What a view knows when it starts, it has yet to find.
LEMMA ServeInv ==
    ASSUME ViewsInv, NEW kind, NEW from \in Days, NEW to \in Days,
           NEW start \in Nat \ {0}, NEW queries \in SUBSET Queries,
           kind = "window" => queries = Queries, kind = "day" => queries = {"rows"},
           Serve(kind, from, to, start, queries)
    PROVE  ViewsInv'
<1>3. PICK known : known = [clockIns |-> ClockInsKept, leaves |-> approved]
  OBVIOUS
<1>2. PICK pc : pc = IF queries = {} THEN "answered" ELSE "reading"
  OBVIOUS
<1>1. PICK shift \in ShiftsFound(from) :
           view' = [NoView EXCEPT !.kind = kind, !.from = from, !.to = to, !.start = start,
                                  !.pc = pc, !.todo = queries, !.shift = shift,
                                  !.known = known]
  BY <1>2, <1>3 DEF Serve
<1>4. PICK v : v = [NoView EXCEPT !.kind = kind, !.from = from, !.to = to, !.start = start,
                                  !.pc = pc, !.todo = queries, !.shift = shift,
                                  !.known = known]
  OBVIOUS
<1>5. view' = v
  BY <1>1, <1>4
<1>6. v = [pc |-> pc, kind |-> kind, from |-> from, to |-> to, todo |-> queries,
           shift |-> shift, rows |-> << >>, off |-> {}, leaves |-> << >>,
           start |-> start, known |-> known]
  BY <1>4 DEF NoView
<1>. HIDE <1>1, <1>4
<1>7. UNCHANGED <<now, daily, logs, taps, approved, holidays>>
  BY DEF Serve
<1>8. Shape(v)
  BY <1>6 DEF Shape
<1>9. kind = "window" => KnownIsKept(v, ClockInsKept, approved)
  BY <1>3, <1>6 DEF KnownIsKept, Queries
<1>10. /\ kind \in {"window", "day"} => "rows" \in v.todo
       /\ kind = "window" => "leaves" \in v.todo
  BY <1>6 DEF Queries
<1>11. /\ v.pc = "answered" => v.todo = {}
       /\ v.pc \in {"reading", "answered"}
  BY <1>2, <1>6
<1>12. Served(v)
  BY <1>6, <1>10, <1>11 DEF Served
<1>13. ClockInsKept' = ClockInsKept /\ approved' = approved
  BY <1>7 DEF ClockInsKept
<1>14. ViewInv'
  BY <1>5, <1>6, <1>8, <1>9, <1>11, <1>12, <1>13 DEF ViewInv
<1>. QED
  BY <1>7, <1>14, ViewGoesOn

LEMMA RefuseInv ==
    ASSUME ViewsInv, NEW kind, NEW from, NEW to, Refuse(kind, from, to)
    PROVE  ViewsInv'
<1>1. PICK v : v = [NoView EXCEPT !.kind = kind, !.from = from, !.to = to, !.pc = "refused"]
  OBVIOUS
<1>2. view' = v
  BY <1>1 DEF Refuse
<1>3. v = [pc |-> "refused", kind |-> kind, from |-> from, to |-> to, todo |-> {},
           shift |-> NoShift, rows |-> << >>, off |-> {}, leaves |-> << >>,
           start |-> 1, known |-> [clockIns |-> {}, leaves |-> {}]]
  BY <1>1 DEF NoView
<1>. HIDE <1>1
<1>4. ViewInv'
  BY <1>2, <1>3 DEF ViewInv, Shape
<1>. QED
  BY <1>4, ViewGoesOn DEF Refuse

\* The bound of the query of leaves cuts nothing off: all are found, in some
\* order.
LEMMA LeavesFound ==
    ASSUME TablesOK, NEW from, NEW to, NEW found \in SetToSeqs(ApprovedIn(from, to)),
           NEW cut,
           cut = SubSeq(found, 1, IF Len(found) < MaxLeaves THEN Len(found) ELSE MaxLeaves)
    PROVE  /\ cut \in Seq(Requests)
           /\ \A r \in ApprovedIn(from, to) : \E i \in 1..Len(cut) : cut[i] = r
<1>. DEFINE S == ApprovedIn(from, to)
            n == Cardinality(S)
<1>1. S \subseteq Requests
  BY DEF TablesOK, ApprovedIn
<1>2. IsFiniteSet(S) /\ n \in Nat /\ n <= MaxLeaves
  <2>1. IsFiniteSet(S) /\ n <= Cardinality(Requests)
    BY <1>1, ViewsAssumption, FS_Subset
  <2>2. n \in Nat /\ Cardinality(Requests) \in Nat
    BY <2>1, ViewsAssumption, FS_CardinalityType
  <2>. QED
    BY <2>1, <2>2, ViewsAssumption
<1>3. /\ found \in [1..n -> S]
      /\ \A i, j \in 1..n : i # j => found[i] # found[j]
  BY DEF SetToSeqs
<1>. HIDE DEF n, S
<1>4. found \in Surjection(1..n, S)
  <2>1. found \in Injection(1..n, S)
    BY <1>3 DEF Injection, IsInjective
  <2>2. Cardinality(1..n) = n
    BY <1>2, FS_Interval
  <2>. QED
    BY <1>2, <2>1, <2>2, FS_Injection DEF n
<1>5. found \in Seq(S) /\ Len(found) = n
  BY <1>2, <1>3
<1>6. cut = SubSeq(found, 1, Len(found))
  BY <1>2, <1>5, ViewsAssumption
<1>7. cut = found
  BY <1>5, <1>6, SubSeqFull
<1>8. \A r \in S : \E i \in 1..n : found[i] = r
  BY <1>4 DEF Surjection
<1>9. found \in [1..n -> Requests]
  BY <1>1, <1>3
<1>10. found \in Seq(Requests)
  BY <1>2, <1>9
<1>. QED
  BY <1>5, <1>7, <1>8, <1>10 DEF S

\* One query more is in.
LEMMA ReadInv ==
    ASSUME ViewsInv, NEW query \in Queries, Read(query)
    PROVE  ViewsInv'
<1>1. /\ view.pc = "reading" /\ query \in view.todo /\ Shape(view) /\ Served(view)
      /\ view.kind = "window" => KnownIsKept(view, ClockInsKept, approved)
      /\ UNCHANGED <<now, daily, logs, taps, approved, holidays>>
  BY DEF Read, ViewsInv, ViewInv
<1>. DEFINE todo == view.todo \ {query}
            pc   == IF view.todo = {query} THEN "answered" ELSE "reading"
<1>2. PICK seen : seen = [view EXCEPT !.todo = @ \ {query},
                                      !.pc = IF view.todo = {query} THEN "answered" ELSE @]
  OBVIOUS
<1>3. seen = [pc |-> pc, kind |-> view.kind, from |-> view.from, to |-> view.to,
              todo |-> todo, shift |-> view.shift, rows |-> view.rows, off |-> view.off,
              leaves |-> view.leaves, start |-> view.start, known |-> view.known]
  BY <1>1, <1>2 DEF Shape
<1>4. \/ /\ query = "rows"
         /\ view' = [seen EXCEPT !.rows = [day \in Window(view) |-> daily[day]]]
      \/ /\ query = "off"
         /\ view' = [seen EXCEPT !.off = holidays \cap Window(view)]
      \/ /\ query = "leaves"
         /\ \E found \in SetToSeqs(ApprovedIn(view.from, view.to)) :
              view' = [seen EXCEPT
                  !.leaves = SubSeq(found, 1, IF Len(found) < MaxLeaves THEN Len(found) ELSE MaxLeaves)]
  BY <1>2 DEF Read
<1>. HIDE <1>2
<1>5. /\ pc = "answered" => todo = {}
      /\ pc \in {"reading", "answered"} /\ todo \subseteq Queries
  BY <1>1 DEF Served
<1>. HIDE DEF pc
<1>6. \E rows, off, leaves :
         /\ view' = [pc |-> pc, kind |-> view.kind, from |-> view.from, to |-> view.to,
                     todo |-> todo, shift |-> view.shift, rows |-> rows, off |-> off,
                     leaves |-> leaves, start |-> view.start, known |-> view.known]
         /\ rows = IF query = "rows" THEN [day \in Window(view) |-> daily[day]] ELSE view.rows
         /\ IF query = "leaves"
            THEN \E found \in SetToSeqs(ApprovedIn(view.from, view.to)) :
                    leaves = SubSeq(found, 1, IF Len(found) < MaxLeaves THEN Len(found)
                                                                        ELSE MaxLeaves)
            ELSE leaves = view.leaves
  BY <1>3, <1>4
<1>7. PICK rows, off, leaves :
         /\ view' = [pc |-> pc, kind |-> view.kind, from |-> view.from, to |-> view.to,
                     todo |-> todo, shift |-> view.shift, rows |-> rows, off |-> off,
                     leaves |-> leaves, start |-> view.start, known |-> view.known]
         /\ rows = IF query = "rows" THEN [day \in Window(view) |-> daily[day]] ELSE view.rows
         /\ IF query = "leaves"
            THEN \E found \in SetToSeqs(ApprovedIn(view.from, view.to)) :
                    leaves = SubSeq(found, 1, IF Len(found) < MaxLeaves THEN Len(found)
                                                                        ELSE MaxLeaves)
            ELSE leaves = view.leaves
  BY <1>6
<1>8. Window(view)' = Window(view) /\ Window(view) \subseteq Days
  BY <1>1, <1>7, WindowInDays DEF Served, Window
<1>9. view.kind \in {"window", "day"} /\ "rows" \notin todo => RowsFound(view')
  <2>1. ASSUME query = "rows"
        PROVE  RowsFound(view')
    <3>1. rows \in [Window(view) -> Row \cup {NoRow}]
      BY <1>7, <1>8, <2>1 DEF ViewsInv, TablesOK
    <3>2. \A day \in Window(view) : OwnTimes(day, rows[day])
      BY <1>7, <1>8, <2>1 DEF ViewsInv, TimesAreOfTheirDays
    <3>. QED
      BY <1>7, <3>1, <3>2 DEF RowsFound, Window
  <2>2. ASSUME query # "rows", view.kind \in {"window", "day"}, "rows" \notin todo
        PROVE  RowsFound(view')
    <3>1. RowsFound(view)
      BY <1>1, <2>2 DEF Served
    <3>. QED
      BY <1>7, <2>2, <3>1 DEF RowsFound, Window
  <2>. QED
    BY <2>1, <2>2
<1>10. ASSUME query = "leaves"
       PROVE  /\ leaves \in Seq(Requests)
              /\ \A r \in ApprovedIn(view.from, view.to) : \E i \in 1..Len(leaves) : leaves[i] = r
  BY <1>7, <1>10, LeavesFound DEF ViewsInv
<1>11. view.kind = "window" /\ "leaves" \notin todo => leaves \in Seq(Requests)
  BY <1>1, <1>7, <1>10 DEF Served
<1>12. view.kind = "window" => KnownIsKept(view', ClockInsKept, approved)
  <2>. SUFFICES ASSUME view.kind = "window"
       PROVE  KnownIsKept(view', ClockInsKept, approved)
    OBVIOUS
  <2>1. /\ Window(view') = Window(view) /\ view'.known = view.known /\ view'.todo = todo
        /\ view'.rows = rows /\ view'.leaves = leaves
        /\ view'.from = view.from /\ view'.to = view.to
    BY <1>7, <1>8
  <2>2. KnownIsKept(view, ClockInsKept, approved)
    BY <1>1
  <2>3. ASSUME "rows" \notin todo, NEW day \in Window(view) \cap view.known.clockIns
        PROVE  rows[day] # NoRow /\ rows[day].first # NoTime
    <3>1. CASE query = "rows"
      BY <1>7, <2>2, <2>3, <3>1 DEF KnownIsKept, ClockInsKept
    <3>2. CASE query # "rows"
      BY <1>7, <2>2, <2>3, <3>2 DEF KnownIsKept, ClockedIn
    <3>. QED
      BY <3>1, <3>2
  <2>4. ASSUME "leaves" \notin todo, NEW l \in view.known.leaves,
               l.from <= view.to, view.from <= l.to
        PROVE  \E i \in 1..Len(leaves) : leaves[i] = l
    <3>1. CASE query = "leaves"
      BY <1>10, <2>2, <2>4, <3>1 DEF KnownIsKept, ApprovedIn
    <3>2. CASE query # "leaves"
      BY <1>7, <2>2, <2>4, <3>2 DEF KnownIsKept
    <3>. QED
      BY <3>1, <3>2
  <2>5. \A day \in Window(view) \cap view.known.clockIns :
           "rows" \notin todo => ClockedIn(view', day)
    BY <2>1, <2>3 DEF ClockedIn
  <2>. QED
    BY <2>1, <2>2, <2>4, <2>5 DEF KnownIsKept
<1>13. Served(view')
  <2>1. /\ view'.pc = pc /\ view'.kind = view.kind /\ view'.todo = todo
        /\ view'.from = view.from /\ view'.to = view.to /\ view'.start = view.start
        /\ view'.leaves = leaves
    BY <1>7
  <2>. QED
    BY <1>1, <1>5, <1>9, <1>11, <2>1 DEF Served
<1>14. Shape(view') /\ view'.pc = pc /\ view'.kind = view.kind
  BY <1>7 DEF Shape
<1>15. ClockInsKept' = ClockInsKept /\ approved' = approved
  BY <1>1 DEF ClockInsKept
<1>16. ViewInv'
  BY <1>5, <1>12, <1>13, <1>14, <1>15 DEF ViewInv
<1>. QED
  BY <1>1, <1>16, ViewGoesOn

-----------------------------------------------------------------------------

LEMMA InitInv == Init => ViewsInv
<1>. SUFFICES ASSUME Init
     PROVE  ViewsInv
  OBVIOUS
<1>1. daily \in [Days -> Row \cup {NoRow}] /\ daily \in Imports
  BY ViewsAssumption DEF Init
<1>2. TablesOK
  BY <1>1 DEF Init, TablesOK
<1>3. TimesAreOfTheirDays
  <2>1. ASSUME NEW day \in Days
        PROVE  HasTime(day, daily[day]) /\ OwnTimes(day, daily[day])
    BY <1>1, <2>1, ViewsAssumption DEF HasTime, OwnTimes
  <2>. QED
    BY <2>1 DEF Init, TimesAreOfTheirDays
<1>4. ViewInv
  BY DEF Init, ViewInv, Shape, NoView
<1>. QED
  BY <1>2, <1>3, <1>4 DEF ViewsInv

LEMMA NextInv ==
    ASSUME ViewsInv, [Next]_vars
    PROVE  ViewsInv'
<1>1. TablesOK /\ TimesAreOfTheirDays /\ ViewInv /\ approved \subseteq Requests
      /\ holidays \subseteq Feasts
  BY DEF ViewsInv, TablesOK
<1>2. ASSUME NEW type \in EventTypes, BeginTap(type)
      PROVE  ViewsInv'
  <2>1. ViewInv'
    BY <1>1, <1>2, ViewBeside DEF BeginTap
  <2>. QED
    BY <1>1, <1>2, <2>1, BeginTapTables DEF ViewsInv
<1>3. ASSUME NEW tap \in taps, FindDaily(tap) \/ UpsertDaily(tap) \/ InsertLog(tap) \/ FailTap(tap)
      PROVE  ViewsInv'
  <2>1. CASE FindDaily(tap)
    <3>1. ViewInv'
      BY <1>1, <2>1, ViewBeside DEF FindDaily
    <3>. QED
      BY <1>1, <2>1, <3>1, FindDailyTables DEF ViewsInv
  <2>2. CASE UpsertDaily(tap)
    <3>1. ViewInv'
      BY <1>1, <2>2, ViewBeside, ViewAmong DEF UpsertDaily
    <3>. QED
      BY <1>1, <2>2, <3>1, UpsertDailyTables DEF ViewsInv
  <2>3. CASE InsertLog(tap)
    <3>1. ViewInv'
      BY <1>1, <2>3, ViewBeside DEF InsertLog
    <3>. QED
      BY <1>1, <2>3, <3>1, InsertLogTables DEF ViewsInv
  <2>4. CASE FailTap(tap)
    <3>1. ViewInv'
      BY <1>1, <2>4, ViewBeside DEF FailTap
    <3>2. TablesOK' /\ TimesAreOfTheirDays'
      BY <1>1, <2>4 DEF FailTap, TablesOK, TimesAreOfTheirDays
    <3>. QED
      BY <3>1, <3>2 DEF ViewsInv
  <2>. QED
    BY <1>3, <2>1, <2>2, <2>3, <2>4
<1>4. ASSUME NEW day \in Days, Aggregate(day)
      PROVE  ViewsInv'
  <2>1. ViewInv'
    BY <1>1, <1>4, ViewAmong DEF Aggregate
  <2>. QED
    BY <1>1, <1>4, <2>1, AggregateTables DEF ViewsInv
<1>5. ASSUME UNCHANGED <<now, daily, logs, taps>>, approved' \subseteq Requests,
             holidays' \subseteq Feasts, ViewInv'
      PROVE  ViewsInv'
  BY <1>1, <1>5 DEF ViewsInv, TablesOK, TimesAreOfTheirDays
<1>6. ASSUME NEW r \in Requests, Approve(r) \/ Overwrite(r)
      PROVE  ViewsInv'
  <2>1. /\ UNCHANGED <<now, daily, logs, taps, holidays>>
        /\ approved' \subseteq Requests
    BY <1>1, <1>6 DEF Approve, Overwrite
  <2>2. ViewInv'
    BY <1>1, <1>6, ViewBeside, ViewAmong DEF Approve, Overwrite
  <2>. QED
    BY <1>1, <1>5, <2>1, <2>2
<1>7. ASSUME NEW day \in Feasts, Proclaim(day)
      PROVE  ViewsInv'
  <2>1. UNCHANGED <<now, daily, logs, taps, approved, view>> /\ holidays' \subseteq Feasts
    BY <1>1, <1>7 DEF Proclaim
  <2>. QED
    BY <1>1, <1>5, <2>1, ViewBeside
<1>8. 1 \in Nat \ {0} /\ {"rows"} \in SUBSET Queries /\ Queries \in SUBSET Queries
  BY DEF Queries
<1>9. ASSUME NEW from \in Days, NEW to \in Days, AskWindow(from, to) \/ AskDetails(from, to)
      PROVE  ViewsInv'
  BY <1>8, <1>9, ServeInv, RefuseInv DEF AskWindow, AskDetails
<1>10. ASSUME NEW day \in Days, AskDay(day)
       PROVE  ViewsInv'
  BY <1>8, <1>10, ServeInv DEF AskDay
<1>11. ASSUME NEW day \in Days, AskPolicies(day)
       PROVE  ViewsInv'
  <2>1. PICK start \in Nat \ {0} : Serve("policies", day, day, start, {})
    BY <1>11, ViewsAssumption DEF AskPolicies
  <2>. QED
    BY <2>1, ServeInv
<1>12. ASSUME NEW query \in Queries, Read(query)
       PROVE  ViewsInv'
  BY <1>12, ReadInv
<1>13. CASE UNCHANGED vars
  <2>1. UNCHANGED <<now, daily, logs, taps, approved, holidays, view>>
    BY <1>13 DEF vars
  <2>. QED
    BY <1>1, <1>5, <2>1, ViewBeside
<1>. QED
  BY <1>2, <1>3, <1>4, <1>6, <1>7, <1>9, <1>10, <1>11, <1>12, <1>13 DEF Next

\* The rows hold times of their days, and a view has found, or will find, what
\* has stood since it was asked for.
THEOREM ViewsInvariant == Spec => []ViewsInv
BY InitInv, NextInv, PTL DEF Spec

\* Rows, leaves, holidays and what a view has read keep their types.
THEOREM TypeCorrect == Spec => []TypeOK
<1>1. ViewsInv => TypeOK
  BY TypesHold
<1>. QED
  BY <1>1, ViewsInvariant, PTL

-----------------------------------------------------------------------------
(* What the answers say.                                                   *)

LEMMA OnLeave ==
    ASSUME NEW v, v.leaves \in Seq(Requests), NEW day,
           NEW i \in 1..Len(v.leaves), v.leaves[i].from <= day, day <= v.leaves[i].to
    PROVE  LeaveOn(v, day) # "none"
<1>. DEFINE on == {j \in 1..Len(v.leaves) : v.leaves[j].from <= day /\ day <= v.leaves[j].to}
<1>1. i \in on /\ on \in SUBSET (1..Len(v.leaves)) /\ Len(v.leaves) \in Nat
  OBVIOUS
<1>2. Max(on) \in 1..Len(v.leaves)
  BY <1>1, MaxIsOne
<1>. HIDE DEF on
<1>3. v.leaves[Max(on)] \in LeaveRequest
  <2>1. v.leaves[Max(on)] \in Requests
    BY <1>2
  <2>. QED
    BY <2>1, ViewsAssumption
<1>4. v.leaves[Max(on)].type # "none"
  BY <1>3 DEF LeaveRequest
<1>. QED
  BY <1>1, <1>4 DEF LeaveOn, on

\* What has stood since a view was asked for is seen by both views, whatever is
\* written or taken back between their queries (NothingForgotten).
THEOREM NothingIsForgotten == Spec => []NothingForgotten
<1>1. ViewsInv => NothingForgotten
  <2>. SUFFICES ASSUME ViewsInv, WindowAnswered, NEW day \in Window(view), KnownReason(day)
       PROVE  /\ OverviewClass(view, day) # "absent"
              /\ LogClass(view, day) # "absent"
              /\ Badge(view, day) # "absent"
    BY DEF NothingForgotten
  <2>1. /\ Served(view) /\ view.todo = {} /\ view.kind = "window"
        /\ KnownIsKept(view, ClockInsKept, approved)
        /\ view.leaves \in Seq(Requests)
    BY DEF ViewsInv, ViewInv, WindowAnswered, Served
  <2>2. ClockedIn(view, day) \/ LeaveOn(view, day) # "none"
    <3>1. CASE day \in view.known.clockIns
      BY <2>1, <3>1 DEF KnownIsKept
    <3>2. ASSUME NEW l \in view.known.leaves, l.from <= day, day <= l.to
          PROVE  LeaveOn(view, day) # "none"
      <4>1. l \in LeaveRequest
        BY <2>1, ViewsAssumption DEF KnownIsKept, ViewsInv, TablesOK
      <4>2. l.from \in Int /\ l.to \in Int /\ view.from \in Int /\ view.to \in Int
        BY <2>1, <4>1, ViewsAssumption DEF LeaveRequest, Served
      <4>3. day \in Int /\ view.from <= day /\ day <= view.to
        BY <4>2 DEF Window
      <4>4. l.from <= view.to /\ view.from <= l.to
        BY <3>2, <4>2, <4>3
      <4>5. PICK i \in 1..Len(view.leaves) : view.leaves[i] = l
        BY <2>1, <4>4 DEF KnownIsKept
      <4>. QED
        BY <2>1, <3>2, <4>5, OnLeave
    <3>. QED
      BY <3>1, <3>2 DEF KnownReason
  <2>. QED
    BY <2>2 DEF OverviewClass, LogClass, Badge
<1>. QED
  BY <1>1, ViewsInvariant, PTL


\* Classes that hold of the same days of a window count the same.
LEMMA SameCount ==
    ASSUME NEW v, NEW class, NEW other,
           \A day \in Window(v) : OverviewClass(v, day) = class <=> LogClass(v, day) = other
    PROVE  Cardinality(DaysOf(v, class)) = LogCount(v, other)
<1>1. DaysOf(v, class) = {day \in Window(v) : LogClass(v, day) = other}
  BY DEF DaysOf
<1>. QED
  BY <1>1 DEF LogCount

\* Where the stored day types are those of the calendar, both views class a day
\* in the same way.
LEMMA SameClasses ==
    ASSUME NEW v, Regular(v), NEW day \in Window(v)
    PROVE  /\ OverviewClass(v, day) = "present" <=> LogClass(v, day) = "present"
           /\ OverviewClass(v, day) = "absent" <=> LogClass(v, day) = "absent"
           /\ OverviewClass(v, day) = "leave" <=> LogClass(v, day) \in {"leave", "unpaid"}
<1>1. OverviewClass(v, day) = "off" <=> day \in v.off \/ Weekday(day) \in Weekend(v.shift)
  BY DEF Regular, OverviewClass
<1>. QED
  BY <1>1 DEF OverviewClass, LogClass

\* Whatever rows, leaves and holidays it found, the counters of the overview
\* and of the log of a window agree, and so does the badge (ViewsAgree).
THEOREM ViewsAlwaysAgree == Spec => []ViewsAgree
<1>1. ViewsInv => ViewsAgree
  <2>. SUFFICES ASSUME ViewsInv, WindowAnswered, Regular(view)
       PROVE  LET total == Overview(view) IN
              /\ total.present = LogCount(view, "present")
              /\ total.absent = LogCount(view, "absent")
              /\ total.leave = LogCount(view, "leave") + LogCount(view, "unpaid")
              /\ \A day \in Window(view) :
                    ~ClockedIn(view, day) =>
                        (Badge(view, day) = "absent") <=> (LogClass(view, day) = "absent")
    BY DEF ViewsAgree
  <2>1. /\ Overview(view).present = Cardinality(DaysOf(view, "present"))
        /\ Overview(view).absent = Cardinality(DaysOf(view, "absent"))
        /\ Overview(view).leave = Cardinality(DaysOf(view, "leave"))
    BY DEF Overview
  <2>2. /\ Cardinality(DaysOf(view, "present")) = LogCount(view, "present")
        /\ Cardinality(DaysOf(view, "absent")) = LogCount(view, "absent")
    BY SameClasses, SameCount
  <2>3. Cardinality(DaysOf(view, "leave")) = LogCount(view, "leave") + LogCount(view, "unpaid")
    <3>. DEFINE Paid   == {day \in Window(view) : LogClass(view, day) = "leave"}
                Unpaid == {day \in Window(view) : LogClass(view, day) = "unpaid"}
    <3>1. DaysOf(view, "leave") = Paid \cup Unpaid
      BY SameClasses DEF DaysOf
    <3>2. Paid \cap Unpaid = {}
      OBVIOUS
    <3>3. view.from \in Int /\ view.to \in Int
      BY ViewsAssumption DEF ViewsInv, ViewInv, WindowAnswered, Served
    <3>4. IsFiniteSet(Paid) /\ IsFiniteSet(Unpaid)
      <4>1. IsFiniteSet(Window(view))
        BY <3>3, FS_Interval DEF Window
      <4>2. Paid \in SUBSET Window(view) /\ Unpaid \in SUBSET Window(view)
        OBVIOUS
      <4>. HIDE DEF Paid, Unpaid
      <4>. QED
        BY <4>1, <4>2, FS_Subset
    <3>5. Cardinality(Paid) = LogCount(view, "leave") /\ Cardinality(Unpaid) = LogCount(view, "unpaid")
      BY Zenon DEF LogCount
    <3>. HIDE DEF Paid, Unpaid
    <3>6. Cardinality(Paid) \in Nat /\ Cardinality(Unpaid) \in Nat
      BY <3>4, FS_CardinalityType
    <3>7. Cardinality(Paid \cup Unpaid) = Cardinality(Paid) + Cardinality(Unpaid) - Cardinality({})
      BY <3>2, <3>4, FS_Union
    <3>8. Cardinality(Paid \cup Unpaid) = Cardinality(Paid) + Cardinality(Unpaid)
      BY <3>6, <3>7, FS_EmptySet
    <3>. QED
      BY <3>1, <3>5, <3>8, Zenon
  <2>4. \A day \in Window(view) :
           ~ClockedIn(view, day) =>
               (Badge(view, day) = "absent") <=> (LogClass(view, day) = "absent")
    BY DEF Badge, LogClass
  <2>. QED
    BY <2>1, <2>2, <2>3, <2>4
<1>. QED
  BY <1>1, ViewsInvariant, PTL

\* A shift ends at a minute of the day.
LEMMA EndInDay ==
    ASSUME NEW shift \in Shift
    PROVE  shift.end \in 0..1439
  <1>1. PICK week : shift \in [start : 0..(DayMins - 1), end : 0..(DayMins - 1),
                               overnight : BOOLEAN, weekend : week]
    BY Zenon DEF Shift
  <1>2. shift.end \in 0..(DayMins - 1)
    BY <1>1
  <1> QED
    BY <1>2 DEF DayMins

\* A local day is the DayMins minutes from its local midnight.
LEMMA LocalDayBounds ==
    ASSUME NEW t \in Int
    PROVE  /\ LocalDay(t) \in Int
           /\ LocalTime(t) \in Int /\ 0 <= LocalTime(t) /\ LocalTime(t) <= 1439
           /\ t = LocalDay(t) * 1440 + LocalTime(t) - 420
  BY DEF LocalDay, LocalTime, DayMins, TzMins

\* For a shift within one day, the difference getAttendanceLog() forms between
\* the end of the shift and a tap, two local times of day, is the time from
\* the tap to the end of the shift on the day the tap was resolved to.
THEOREM EarlyOutOfItsDay ==
    ASSUME NEW shift \in Shift, ~shift.overnight, NEW t \in Int
    PROVE  shift.end - PunchLocalTime(t)
             = (ResolvedDay(shift, t) * DayMins + shift.end - TzMins) - t
  <1>1. PunchLocalTime(t) = LocalTime(t)
    BY DEF PunchLocalTime, LocalTime, DayMins, TzMins
  <1>2. ResolvedDay(shift, t) = LocalDay(t)
    BY DEF ResolvedDay, IsTail
  <1>3. PICK e \in 0..1439 : e = shift.end
    BY EndInDay
  <1>4. PICK d \in Int : d = LocalDay(t)
    BY LocalDayBounds
  <1>5. PICK m \in Int : m = LocalTime(t)
    BY LocalDayBounds
  <1>6. t = d * 1440 + m - 420
    BY <1>4, <1>5, LocalDayBounds
  <1>7. e - m = (d * 1440 + e - 420) - t
    BY <1>6
  <1> QED
    BY <1>1, <1>2, <1>3, <1>4, <1>5, <1>7 DEF DayMins, TzMins

LEMMA EndIsInt ==
    ASSUME NEW shift \in Shift
    PROVE  shift.end \in Int
<1>1. PICK e \in 0..1439 : e = shift.end
  BY EndInDay
<1>. QED
  BY <1>1

LEMMA Regrouped ==
    ASSUME NEW a \in Int, NEW b \in Int, NEW c \in Int, NEW d \in Int
    PROVE  (a + b - c) - d = a + b - c - d
OBVIOUS

\* Of a clock-out that belongs to a day, the early-out is its distance to the
\* end of the shift on that day, unless a night shift follows (EarlyOutIsEarly).
THEOREM EarlyOutAlwaysIsEarly == Spec => []EarlyOutIsEarly
<1>1. ViewsInv => EarlyOutIsEarly
  <2>. SUFFICES ASSUME ViewsInv, WindowAnswered, NEW day \in Window(view),
                       NEW row, row = view.rows[day],
                       ClockedIn(view, day), row.last # NoTime,
                       row.shift # NoShift, ~row.shift.overnight,
                       SteadyAround(day) \/ LocalDay(row.last) = day
       PROVE  LogEntry(view, day).early
                = Positive(day * DayMins + row.shift.end - TzMins - row.last)
    BY DEF EarlyOutIsEarly
  <2>1. /\ row \in Row /\ row.first # NoTime /\ OfDay(row.last, day) /\ day \in Int
        /\ row # NoRow
    <3>1. Served(view) /\ view.todo = {} /\ view.kind = "window"
      BY DEF ViewsInv, ViewInv, WindowAnswered, Served
    <3>2. RowsFound(view) /\ day \in Days
      BY <3>1, WindowInDays DEF Served
    <3>3. row # NoRow /\ row.first # NoTime
      BY DEF ClockedIn
    <3>. QED
      BY <3>2, <3>3, ViewsAssumption DEF RowsFound, OwnTimes
  <2>2. PICK t \in Int : t = row.last
    BY <2>1 DEF Row
  <2>3. PICK shift \in Shift : shift = row.shift
    BY <2>1 DEF Row
  <2>4. LocalDay(t) = day
    <3>1. PICK a \in LatestOn(LocalDay(t)) : ResolvedDay(a.shift, t) = day
      BY <2>1, <2>2 DEF OfDay
    <3>2. LocalDay(t) \in Int
      BY LocalDayBounds
    <3>3. LocalDay(t) \in {day, day + 1}
      BY <2>1, <3>1, <3>2 DEF ResolvedDay
    <3>4. SteadyAround(day) => ~a.shift.overnight
      BY <3>1, <3>3 DEF SteadyAround
    <3>. QED
      BY <2>2, <3>1, <3>4 DEF ResolvedDay, IsTail
  <2>5. shift.end - PunchLocalTime(t) = (day * DayMins + shift.end - TzMins) - t
    BY <2>3, <2>4, EarlyOutOfItsDay DEF ResolvedDay, IsTail
  <2>6. EarlyOut(view, day) = Positive(shift.end - PunchLocalTime(t))
    <3>1. ShiftOf(view, day) = shift
      BY <2>3 DEF ShiftOf
    <3>. QED
      BY <2>1, <2>2, <2>3, <3>1 DEF EarlyOut
  <2>7. LogEntry(view, day).early = EarlyOut(view, day)
    BY <2>1 DEF LogEntry
  <2>8. (day * DayMins + shift.end - TzMins) - t = day * DayMins + shift.end - TzMins - t
    <3>1. day * DayMins \in Int /\ TzMins \in Int
      BY <2>1 DEF DayMins, TzMins
    <3>2. shift.end \in Int
      BY EndIsInt, Zenon
    <3>. QED
      BY <3>1, <3>2, Regrouped
  <2>9. LogEntry(view, day).early = Positive(day * DayMins + shift.end - TzMins - t)
    BY <2>5, <2>6, <2>7, <2>8, Zenon
  <2>. QED
    BY <2>2, <2>3, <2>9, Zenon
<1>. QED
  BY <1>1, ViewsInvariant, PTL

-----------------------------------------------------------------------------
(* The totals.  The sums of the model as those of DataTheorems.             *)

LEMMA WorkIsSum ==
    ASSUME NEW v, NEW D, D = DaysOf(v, "present"), IsFiniteSet(D),
           NEW f, \A day \in D : f[day] = RawWork(v, day)
    PROVE  WorkSum(v) = SumOf(f, D)
<1>. DEFINE Eq(g) == g = [s \in SUBSET D |-> IF s = {} THEN 0
                                             ELSE RawWork(v, AnyOf(s)) + g[s \ {AnyOf(s)}]]
            iter == CHOOSE g : Eq(g)
<1>1. WorkSum(v) = iter[D]
  BY DEF WorkSum, MapThenSumSet, MapThenFoldSet, AnyOf
<1>2. ASSUME NEW g
      PROVE  Eq(g) <=> SumSolves(f, D, g)
  <2>1. ASSUME NEW s \in SUBSET D
        PROVE  SumStep(f, g, s) = IF s = {} THEN 0
                                  ELSE RawWork(v, AnyOf(s)) + g[s \ {AnyOf(s)}]
    <3>1. s # {} => f[AnyOf(s)] = RawWork(v, AnyOf(s))
      BY AnyOfIsIn
    <3>. QED
      BY <3>1, Zenon DEF SumStep
  <2>. QED
    BY <2>1 DEF SumSolves
<1>3. Eq(SumIter(f, D))
  BY <1>2, IterSolves
<1>4. Eq(iter)
  <2>. HIDE DEF Eq
  <2>. QED
    BY <1>3
<1>. QED
  BY <1>1, <1>2, <1>4, SolutionIsSum

LEMMA CardsAreSum ==
    ASSUME NEW v, NEW D, IsFiniteSet(D), NEW f, \A day \in D : f[day] = Card(v, day).work
    PROVE  MapThenSumSet(LAMBDA day : Card(v, day).work, D) = SumOf(f, D)
<1>. DEFINE Eq(g) == g = [s \in SUBSET D |-> IF s = {} THEN 0
                                             ELSE Card(v, AnyOf(s)).work + g[s \ {AnyOf(s)}]]
            iter == CHOOSE g : Eq(g)
<1>1. MapThenSumSet(LAMBDA day : Card(v, day).work, D) = iter[D]
  BY DEF MapThenSumSet, MapThenFoldSet, AnyOf
<1>2. ASSUME NEW g
      PROVE  Eq(g) <=> SumSolves(f, D, g)
  <2>1. ASSUME NEW s \in SUBSET D
        PROVE  SumStep(f, g, s) = IF s = {} THEN 0
                                  ELSE Card(v, AnyOf(s)).work + g[s \ {AnyOf(s)}]
    <3>1. s # {} => f[AnyOf(s)] = Card(v, AnyOf(s)).work
      BY AnyOfIsIn
    <3>. QED
      BY <3>1, Zenon DEF SumStep
  <2>. QED
    BY <2>1 DEF SumSolves
<1>3. Eq(SumIter(f, D))
  BY <1>2, IterSolves
<1>4. Eq(iter)
  <2>. HIDE DEF Eq
  <2>. QED
    BY <1>3
<1>. QED
  BY <1>1, <1>2, <1>4, SolutionIsSum

LEMMA AverageOfNat ==
    ASSUME NEW w \in Nat, NEW n \in Nat
    PROVE  n * Average(w, n) <= w
<1>1. CASE n = 0
  <2>1. Average(w, n) \in Int
    <3>1. w \div 1 \in Int
      OBVIOUS
    <3>. QED
      BY <1>1, <3>1 DEF Average, Positive
  <2>. QED
    BY <1>1, <2>1
<1>2. CASE n # 0
  <2>1. w \div n \in Nat /\ n * (w \div n) <= w
    BY <1>2
  <2>2. Average(w, n) = w \div n
    BY <1>2, <2>1 DEF Average, Positive
  <2>. QED
    BY <2>1, <2>2
<1>. QED
  BY <1>1, <1>2

\* What the views make of the row of a present day whose work is no more than
\* the time between its taps.
LEMMA PresentDay ==
    ASSUME NEW v, NEW day, OverviewClass(v, day) = "present",
           v.rows[day] \in Row \cup {NoRow}, InOrderAndFits(v.rows[day])
    PROVE  /\ RawWork(v, day) \in Nat
           /\ Card(v, day).work \in Nat /\ Card(v, day).work <= RawWork(v, day)
           /\ v.rows[day].last # NoTime =>
                 LogEntry(v, day).final + LogEntry(v, day).break = LogEntry(v, day).elapsed
           /\ DayStatus(v, day).total = Card(v, day).work
<1>1. ClockedIn(v, day)
  BY DEF OverviewClass
<1>2. PICK row \in Row : row = v.rows[day] /\ row # NoRow /\ row.first # NoTime
  BY <1>1 DEF ClockedIn
<1>3. WorkFits(row) /\ InOrder(row) /\ row.first \in Int /\ row.last \in Int /\ row.work \in Int
  BY <1>2 DEF InOrderAndFits, Row
<1>4. Card(v, day).work = Known(row.work) /\ DayStatus(v, day).total = Known(row.work)
  BY <1>2 DEF Card, DayStatus
<1>5. RawWork(v, day) = IF row.last = NoTime THEN Known(row.work) ELSE row.last - row.first
  BY <1>2 DEF RawWork, Elapsed
<1>6. row.last = NoTime => RawElapsed(row) = 0
  BY DEF RawElapsed
<1>7. row.last # NoTime => RawElapsed(row) = row.last - row.first /\ row.first <= row.last
  BY <1>2, <1>3 DEF RawElapsed, Elapsed, InOrder
<1>8. row.work # NoMins => 0 <= row.work /\ row.work <= Positive(RawElapsed(row))
  BY <1>2, <1>3, <1>6, <1>7 DEF WorkFits, Positive
<1>9. /\ Known(row.work) \in Nat
      /\ row.last # NoTime => Known(row.work) <= row.last - row.first
  BY <1>3, <1>7, <1>8 DEF Known, Positive
<1>10. ASSUME row.last # NoTime
       PROVE  LogEntry(v, day).final + LogEntry(v, day).break = LogEntry(v, day).elapsed
  <2>1. PICK elapsed \in Nat : elapsed = RawElapsed(row)
    BY <1>3, <1>7, <1>10
  <2>2. PICK final \in Nat : final = (IF row.work # NoMins THEN row.work ELSE elapsed) /\ final <= elapsed
    BY <1>3, <1>8, <2>1 DEF Positive
  <2>3. /\ LogEntry(v, day).elapsed = Positive(elapsed)
        /\ LogEntry(v, day).final = Positive(final)
        /\ LogEntry(v, day).break = Positive(elapsed - final)
    BY <1>1, <1>2, <1>10, <2>1, <2>2 DEF LogEntry
  <2>. QED
    BY <2>2, <2>3 DEF Positive
<1>. QED
  BY <1>2, <1>3, <1>4, <1>5, <1>7, <1>9, <1>10

\* The summary covers the cards, its averages do not exceed it, and the log
\* divides the time between the taps, as long as the taps of each day are in
\* order and hold the work stored for them (TotalsCoverCards).
THEOREM TotalsAlwaysCoverCards == Spec => []TotalsCoverCards
<1>1. ViewsInv => TotalsCoverCards
  <2>. DEFINE D == DaysOf(view, "present")
              raw == [day \in D |-> RawWork(view, day)]
              card == [day \in D |-> Card(view, day).work]
  <2>. SUFFICES ASSUME ViewsInv, WindowAnswered,
                       \A day \in Window(view) : InOrderAndFits(view.rows[day])
       PROVE  LET total == Overview(view) IN
              /\ total.work >= MapThenSumSet(LAMBDA day : Card(view, day).work, D)
              /\ total.present * total.avgWork <= total.work
              /\ \A day \in D :
                    LET entry == LogEntry(view, day) IN
                    /\ view.rows[day].last # NoTime => entry.final + entry.break = entry.elapsed
                    /\ DayStatus(view, day).total = Card(view, day).work
    BY DEF TotalsCoverCards
  <2>1. Served(view) /\ view.todo = {} /\ view.kind = "window"
    BY DEF ViewsInv, ViewInv, WindowAnswered, Served
  <2>2. RowsFound(view) /\ view.from \in Int /\ view.to \in Int
    BY <2>1, ViewsAssumption DEF Served
  <2>3. IsFiniteSet(D)
    <3>1. IsFiniteSet(Window(view))
      BY <2>2, FS_Interval DEF Window
    <3>2. D \subseteq Window(view)
      BY DEF DaysOf
    <3>. QED
      BY <3>1, <3>2, FS_Subset
  <2>4. ASSUME NEW day \in D
        PROVE  /\ RawWork(view, day) \in Nat
               /\ Card(view, day).work \in Nat /\ Card(view, day).work <= RawWork(view, day)
               /\ view.rows[day].last # NoTime =>
                     LogEntry(view, day).final + LogEntry(view, day).break
                       = LogEntry(view, day).elapsed
               /\ DayStatus(view, day).total = Card(view, day).work
    <3>1. day \in Window(view) /\ OverviewClass(view, day) = "present"
      BY DEF DaysOf
    <3>2. view.rows[day] \in Row \cup {NoRow}
      BY <2>2, <3>1 DEF RowsFound
    <3>. QED
      BY <3>1, <3>2, PresentDay
  <2>5. /\ \A day \in D : raw[day] = RawWork(view, day) /\ card[day] = Card(view, day).work
        /\ \A day \in D : raw[day] \in Nat /\ card[day] \in Nat /\ card[day] <= raw[day]
    BY <2>4
  <2>6. /\ WorkSum(view) = SumOf(raw, D)
        /\ MapThenSumSet(LAMBDA day : Card(view, day).work, D) = SumOf(card, D)
    <3>. HIDE DEF raw, card
    <3>1. WorkSum(view) = SumOf(raw, D)
      BY <2>3, <2>5, WorkIsSum
    <3>2. MapThenSumSet(LAMBDA day : Card(view, day).work, D) = SumOf(card, D)
      <4>. HIDE DEF D
      <4>. QED
        BY <2>3, <2>5, CardsAreSum
    <3>. QED
      BY <3>1, <3>2
  <2>7. PICK w \in Nat : w = WorkSum(view)
    <3>. HIDE DEF raw, card, D
    <3>. QED
      BY <2>3, <2>5, <2>6, SumOfPart
  <2>8. SumOf(card, D) <= w /\ SumOf(card, D) \in Int
    <3>. HIDE DEF raw, card, D
    <3>1. \A day \in D : card[day] \in Int /\ raw[day] \in Int /\ card[day] <= raw[day]
      BY <2>5
    <3>. QED
      BY <2>3, <2>6, <2>7, <3>1, SumMonotone, SumInt
  <2>9. PICK n \in Nat : n = Cardinality(D)
    BY <2>3, FS_CardinalityType
  <2>10. /\ Overview(view).work = w /\ Overview(view).present = n
         /\ Overview(view).avgWork = Average(w, n)
    BY <2>7, <2>9 DEF Overview, Positive
  <2>11. Overview(view).present * Overview(view).avgWork <= Overview(view).work
    BY <2>10, AverageOfNat
  <2>12. Overview(view).work >= MapThenSumSet(LAMBDA day : Card(view, day).work, D)
    BY <2>6, <2>8, <2>10
  <2>. HIDE DEF D
  <2>. QED
    BY <2>4, <2>11, <2>12
<1>. QED
  BY <1>1, ViewsInvariant, PTL

-----------------------------------------------------------------------------
(* The pay cycles divide the calendar, whatever the lengths of its months  *)
(* and the start day: none is skipped, none overlaps, month ends included.  *)

\* A cycle starts within the month it is named after.
LEMMA StartBounds ==
    ASSUME NEW startDay \in Nat \ {0}, NEW m \in 0..(LastMonth - 1)
    PROVE  /\ StartIn(m, startDay) \in Int
           /\ FirstDay[m] <= StartIn(m, startDay)
           /\ StartIn(m, startDay) < FirstDay[m + 1]
  <1>1. m \in 0..LastMonth /\ m + 1 \in 0..LastMonth /\ m < m + 1
    BY CalendarAssumption
  <1>2. PICK f \in Int, g \in Int : f = FirstDay[m] /\ g = FirstDay[m + 1] /\ f < g
    BY <1>1, CalendarAssumption
  <1> QED
    BY <1>2 DEF StartIn, DaysIn

\* The month of a date is determined by its first days.
LEMMA MonthUnique ==
    ASSUME NEW date \in Int, NEW m \in 0..(LastMonth - 1),
           FirstDay[m] <= date, date < FirstDay[m + 1]
    PROVE  MonthOf(date) = m
  <1> DEFINE In(k) == FirstDay[k] <= date /\ date < FirstDay[k + 1]
  <1>1. ASSUME NEW k \in 0..(LastMonth - 1), NEW j \in 0..(LastMonth - 1), In(k), In(j), k < j
        PROVE  FALSE
    <2>1. k + 1 \in 0..LastMonth /\ j \in 0..LastMonth /\ LastMonth \in Nat
      BY CalendarAssumption
    <2>2. FirstDay[k + 1] \in Int /\ FirstDay[j] \in Int
      BY <2>1, CalendarAssumption
    <2>3. k + 1 = j \/ FirstDay[k + 1] < FirstDay[j]
      BY <2>1, <1>1, CalendarAssumption
    <2> QED
      BY <1>1, <2>2, <2>3
  <1>2. \A k \in 0..(LastMonth - 1) : In(k) => k = m
    BY <1>1, CalendarAssumption
  <1>3. In(m)
    OBVIOUS
  <1>4. MonthOf(date) = CHOOSE k \in 0..(LastMonth - 1) : In(k)
    BY DEF MonthOf
  <1> HIDE DEF In
  <1> QED
    BY <1>2, <1>3, <1>4

\* A date between the starts of two consecutive months' cycles belongs to the
\* first of them.
LEMMA CycleMonthUnique ==
    ASSUME NEW startDay \in Nat \ {0}, NEW date \in Int, NEW m \in 0..(LastMonth - 2),
           StartIn(m, startDay) <= date, date < StartIn(m + 1, startDay)
    PROVE  CycleMonth(date, startDay) = m
  <1>1. /\ m \in 0..(LastMonth - 1) /\ m + 1 \in 0..(LastMonth - 1)
        /\ m \in 0..LastMonth /\ m + 1 \in 0..LastMonth /\ m + 2 \in 0..LastMonth
        /\ LastMonth \in Nat
    BY CalendarAssumption
  <1>2. /\ FirstDay[m] \in Int /\ FirstDay[m + 1] \in Int /\ FirstDay[m + 1 + 1] \in Int
    BY <1>1, CalendarAssumption
  <1>3. /\ StartIn(m, startDay) \in Int /\ FirstDay[m] <= StartIn(m, startDay)
        /\ StartIn(m, startDay) < FirstDay[m + 1]
        /\ StartIn(m + 1, startDay) \in Int /\ FirstDay[m + 1] <= StartIn(m + 1, startDay)
        /\ StartIn(m + 1, startDay) < FirstDay[m + 1 + 1]
    BY <1>1, StartBounds
  <1>4. CASE date < FirstDay[m + 1]
    <2>1. MonthOf(date) = m
      BY <1>1, <1>2, <1>3, <1>4, MonthUnique
    <2> QED
      BY <2>1, <1>3 DEF CycleMonth
  <1>5. CASE ~(date < FirstDay[m + 1])
    <2>1. MonthOf(date) = m + 1
      BY <1>1, <1>2, <1>3, <1>5, MonthUnique
    <2> QED
      BY <2>1, <1>1 DEF CycleMonth
  <1> QED
    BY <1>4, <1>5

\* Every date is in its own cycle, and every date of that cycle is told the
\* same start, end and month: buildCycleDates() divides the dates into cycles
\* without a gap or an overlap, for months of any length and any start day,
\* one past the end of a short month included.
THEOREM CyclesPartition ==
    ASSUME NEW startDay \in Nat \ {0}, NEW m \in 1..(LastMonth - 2), NEW date \in Int,
           FirstDay[m] <= date, date < FirstDay[m + 1]
    PROVE  /\ date \in CycleStart(date, startDay)..CycleEnd(date, startDay)
           /\ \A other \in CycleStart(date, startDay)..CycleEnd(date, startDay) :
                 /\ CycleMonth(other, startDay) = CycleMonth(date, startDay)
                 /\ CycleStart(other, startDay) = CycleStart(date, startDay)
                 /\ CycleEnd(other, startDay) = CycleEnd(date, startDay)
  <1> DEFINE c == CycleMonth(date, startDay)
  <1>1. /\ m \in 0..(LastMonth - 1) /\ m - 1 \in 0..(LastMonth - 1)
        /\ m + 1 \in 0..(LastMonth - 1)
        /\ m - 1 \in 0..(LastMonth - 2) /\ m \in 0..(LastMonth - 2)
        /\ LastMonth \in Nat /\ (m - 1) + 1 = m
    BY CalendarAssumption
  <1>2. MonthOf(date) = m
    BY <1>1, MonthUnique
  <1>3. /\ StartIn(m, startDay) \in Int /\ StartIn(m - 1, startDay) \in Int
        /\ StartIn(m + 1, startDay) \in Int
        /\ StartIn(m - 1, startDay) < FirstDay[(m - 1) + 1]
        /\ FirstDay[m + 1] <= StartIn(m + 1, startDay)
    BY <1>1, StartBounds
  <1>4. /\ c \in 0..(LastMonth - 2)
        /\ StartIn(c, startDay) \in Int /\ StartIn(c + 1, startDay) \in Int
        /\ StartIn(c, startDay) <= date /\ date < StartIn(c + 1, startDay)
    <2>1. CASE date < StartIn(m, startDay)
      <3>1. c = m - 1
        BY <1>2, <2>1 DEF CycleMonth
      <3>2. FirstDay[m] \in Int
        BY <1>1, CalendarAssumption
      <3> QED
        BY <1>1, <1>3, <2>1, <3>1, <3>2
    <2>2. CASE ~(date < StartIn(m, startDay))
      <3>1. c = m
        BY <1>2, <2>2 DEF CycleMonth
      <3>2. FirstDay[m + 1] \in Int
        BY <1>1, CalendarAssumption
      <3> QED
        BY <1>1, <1>3, <2>2, <3>1, <3>2
    <2> QED
      BY <2>1, <2>2
  <1>5. CycleStart(date, startDay) = StartIn(c, startDay)
        /\ CycleEnd(date, startDay) = StartIn(c + 1, startDay) - 1
    BY DEF CycleStart, CycleEnd
  <1> HIDE DEF c
  <1>6. date \in CycleStart(date, startDay)..CycleEnd(date, startDay)
    BY <1>4, <1>5
  <1>7. ASSUME NEW other \in CycleStart(date, startDay)..CycleEnd(date, startDay)
        PROVE  CycleMonth(other, startDay) = c
    <2>1. other \in Int /\ StartIn(c, startDay) <= other /\ other < StartIn(c + 1, startDay)
      BY <1>4, <1>5
    <2> QED
      BY <1>4, <2>1, CycleMonthUnique
  <1>8. \A other \in CycleStart(date, startDay)..CycleEnd(date, startDay) :
           /\ CycleStart(other, startDay) = CycleStart(date, startDay)
           /\ CycleEnd(other, startDay) = CycleEnd(date, startDay)
    BY <1>5, <1>7 DEF CycleStart, CycleEnd
  <1> QED
    BY <1>6, <1>7, <1>8 DEF c

\* The answer of the policies view holds the date it was asked for, and each
\* date of that cycle is told the same one (CycleHoldsItsDates).
THEOREM CyclesAlwaysHoldTheirDates == Spec => []CycleHoldsItsDates
<1>1. ViewsInv => CycleHoldsItsDates
  <2>. SUFFICES ASSUME ViewsInv, view.pc = "answered", view.kind = "policies"
       PROVE  LET cycle == CycleStart(view.from, view.start)..CycleEnd(view.from, view.start) IN
              /\ view.from \in cycle
              /\ \A day \in Days \cap cycle :
                    CycleMonth(day, view.start) = CycleMonth(view.from, view.start)
    BY DEF CycleHoldsItsDates
  <2>1. view.from \in Days /\ view.start \in Nat \ {0}
    BY DEF ViewsInv, ViewInv, Served
  <2>2. PICK m \in 1..(LastMonth - 2) : FirstDay[m] <= view.from /\ view.from < FirstDay[m + 1]
    BY <2>1, ViewsAssumption
  <2>3. view.from \in Int
    BY <2>1, ViewsAssumption
  <2>. QED
    BY <2>1, <2>2, <2>3, CyclesPartition
<1>. QED
  BY <1>1, ViewsInvariant, PTL
=============================================================================
