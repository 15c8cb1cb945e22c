------------------------ MODULE AttendanceClockProofs ------------------------
(***************************************************************************)
(* Theorems about AttendanceClock, for any number of taps, any roster, any  *)
(* instants and any imported rows.                                         *)
(*                                                                         *)
(* The argument: what a tap has been told stays as it is (its type, time,   *)
(* day and location), rows, logs, scans and jobs are never taken back, and  *)
(* so what is true of a tap when it makes a step stays true of it whatever  *)
(* the other taps and the worker do in between.                            *)
(***************************************************************************)
EXTENDS AttendanceClock, DataTheorems

-----------------------------------------------------------------------------
(* The day of a tap and the closing time of a day.                         *)

\* A shift ends at a minute of the day.
LEMMA EndInDay ==
    ASSUME NEW shift \in Shift
    PROVE  shift.end \in 0..1439
  <1>1. PICK week : shift \in [start : 0..(DayMins - 1), end : 0..(DayMins - 1),
                               overnight : BOOLEAN, weekend : week]
    BY Zenon DEF Shift
  <1>2. shift.end \in 0..(DayMins - 1)
    BY <1>1
  <1> QED
    BY <1>2 DEF DayMins

\* A local day is the DayMins minutes from its local midnight.
LEMMA LocalDayBounds ==
    ASSUME NEW t \in Int
    PROVE  /\ LocalDay(t) \in Int
           /\ LocalTime(t) \in Int /\ 0 <= LocalTime(t) /\ LocalTime(t) <= 1439
           /\ t = LocalDay(t) * 1440 + LocalTime(t) - 420
  BY DEF LocalDay, LocalTime, DayMins, TzMins

\* A day of an overnight shift is exactly the time after the end of the night
\* before, up to and with the end of its own night: resolveShiftDate() leaves
\* no instant out and gives none to two days.
THEOREM NightWindow ==
    ASSUME NEW shift \in Shift, shift.overnight, NEW t \in Int, NEW day \in Int
    PROVE  ResolvedDay(shift, t) = day
           <=> /\ day * DayMins + shift.end - TzMins < t
               /\ t <= (day + 1) * DayMins + shift.end - TzMins
  <1>d. PICK d \in Int : d = LocalDay(t)
    BY LocalDayBounds
  <1>m. PICK m \in Int : m = LocalTime(t)
    BY LocalDayBounds
  <1>e. PICK e \in 0..1439 : e = shift.end
    BY EndInDay
  <1>1. t = d * 1440 + m - 420 /\ 0 <= m /\ m <= 1439
    BY <1>d, <1>m, LocalDayBounds
  <1>2. CASE m <= e
    <2>1. ResolvedDay(shift, t) = d - 1
      BY <1>d, <1>m, <1>e, <1>2 DEF ResolvedDay, IsTail
    <2>2. d - 1 = day <=> /\ day * 1440 + e - 420 < t
                          /\ t <= (day + 1) * 1440 + e - 420
      BY <1>1, <1>2
    <2> QED
      BY <1>e, <2>1, <2>2 DEF DayMins, TzMins
  <1>3. CASE ~(m <= e)
    <2>1. ResolvedDay(shift, t) = d
      BY <1>d, <1>m, <1>e, <1>3 DEF ResolvedDay, IsTail
    <2>2. d = day <=> /\ day * 1440 + e - 420 < t
                      /\ t <= (day + 1) * 1440 + e - 420
      BY <1>1, <1>3
    <2> QED
      BY <1>e, <2>1, <2>2 DEF DayMins, TzMins
  <1> QED
    BY <1>2, <1>3

\* The aggregation job of a day, queued for computeShiftCloseMs(), is never
\* due before a tap of that day, for overnight shifts and for shifts that end
\* at 16:59 local or later; for an earlier end, the late taps of the day come
\* after it.
THEOREM CloseCoversTheDay ==
    ASSUME NEW shift \in Shift, NEW t \in Int,
           shift.overnight \/ shift.end >= DayMins - TzMins - 1
    PROVE  t <= ShiftClose(ResolvedDay(shift, t), shift)
  <1>d. PICK d \in Int : d = LocalDay(t)
    BY LocalDayBounds
  <1>m. PICK m \in Int : m = LocalTime(t)
    BY LocalDayBounds
  <1>e. PICK e \in 0..1439 : e = shift.end
    BY EndInDay
  <1>1. t = d * 1440 + m - 420 /\ 0 <= m /\ m <= 1439
    BY <1>d, <1>m, LocalDayBounds
  <1>2. /\ m <= e => t <= (d - 1) * 1440 + e + 1440
        /\ t <= d * 1440 + e + 1440
        /\ e >= 1019 => t <= d * 1440 + e
    BY <1>1
  <1>3. CASE shift.overnight /\ m <= e
    <2>1. ResolvedDay(shift, t) = d - 1
      BY <1>d, <1>m, <1>e, <1>3 DEF ResolvedDay, IsTail
    <2>2. ShiftClose(d - 1, shift) = (d - 1) * 1440 + e + 1440
      BY <1>e, <1>3 DEF ShiftClose, DayMins
    <2> QED
      BY <1>2, <1>3, <2>1, <2>2
  <1>4. CASE shift.overnight /\ ~(m <= e)
    <2>1. ResolvedDay(shift, t) = d
      BY <1>d, <1>m, <1>e, <1>4 DEF ResolvedDay, IsTail
    <2>2. ShiftClose(d, shift) = d * 1440 + e + 1440
      BY <1>e, <1>4 DEF ShiftClose, DayMins
    <2> QED
      BY <1>2, <2>1, <2>2
  <1>5. CASE ~shift.overnight
    <2>1. ResolvedDay(shift, t) = d
      BY <1>d, <1>m, <1>e, <1>5 DEF ResolvedDay, IsTail
    <2>2. e >= 1019
      BY <1>e, <1>5 DEF DayMins, TzMins
    <2>3. ShiftClose(d, shift) = d * 1440 + e
      BY <1>e, <1>5 DEF ShiftClose, DayMins
    <2> QED
      BY <1>2, <2>1, <2>2, <2>3
  <1> QED
    BY <1>3, <1>4, <1>5

-----------------------------------------------------------------------------
(* The location of a tap.                                                  *)

\* A nonempty set of positions has a least one.
LEMMA LeastIsLeast ==
    ASSUME NEW T, T \subseteq Nat, T # {}
    PROVE  Least(T) \in T /\ \A i \in T : Least(T) <= i
  BY LeastExists DEF Least

\* A list of a pool: entries at positions.
IsList(list) == DOMAIN list \subseteq Nat /\ \A i \in DOMAIN list : list[i] \in Entry

LEMMA SourcedIsList ==
    ASSUME NEW stays \in Seq(Stay), NEW day,
           NEW source \in {"standard_schedule", "branch_assignment", "business_trip"}
    PROVE  IsList(Sourced(source, stays, day))
  <1>1. DOMAIN stays \subseteq Nat
    OBVIOUS
  <1>2. \A i \in DOMAIN stays : stays[i] \in Stay
    OBVIOUS
  <1>3. \A stay \in Stay : stay.place \in Places
    BY DEF Stay
  <1> QED
    BY <1>1, <1>2, <1>3 DEF Sourced, IsList, Entry

\* What a query for the assignment of a day finds.
LEMMA FoundAssignment ==
    ASSUME NEW day, NEW a \in LatestOn(day)
    PROVE  a.shift \in Shift /\ a.standard \in Places \cup {NoPlace}
           /\ a.overrides \in Seq(Stay)
  BY RosterAssumption DEF LatestOn, ActiveOn, Assignment

LEMMA PoolsAreLists ==
    ASSUME NEW day, NEW pool \in Pools(day), NEW k \in DOMAIN pool
    PROVE  k \in Nat /\ IsList(pool[k])
  <1>1. IsList(Sourced("business_trip", Trips, day))
    BY SourcedIsList, RosterAssumption
  <1>2. CASE pool = <<Sourced("business_trip", Trips, day)>>
    BY <1>1, <1>2
  <1>3. ASSUME NEW a \in LatestOn(day), pool = PoolOf(a, day)
        PROVE  k \in Nat /\ IsList(pool[k])
    <2>1. IsList(Sourced("branch_assignment", a.overrides, day))
      BY FoundAssignment, SourcedIsList
    <2>. DEFINE standard == IF a.standard = NoPlace THEN << >>
                            ELSE <<[place |-> a.standard, source |-> "standard_schedule"]>>
    <2>2. IsList(standard)
      <3>1. CASE a.standard = NoPlace
        BY <3>1 DEF IsList
      <3>2. CASE a.standard # NoPlace
        <4>1. [place |-> a.standard, source |-> "standard_schedule"] \in Entry
          BY <3>2, FoundAssignment DEF Entry
        <4> QED
          BY <3>2, <4>1 DEF IsList
      <3> QED
        BY <3>1, <3>2
    <2>. HIDE DEF standard
    <2>3. pool = <<standard, Sourced("branch_assignment", a.overrides, day),
                   Sourced("business_trip", Trips, day)>>
      BY <1>3 DEF PoolOf, standard
    <2> QED
      BY <1>1, <2>1, <2>2, <2>3
  <1> QED
    BY <1>2, <1>3 DEF Pools

\* intersectGeofencePool() answers an entry of the pool whose circle holds the
\* point and which no other such entry precedes: the standard location wins
\* over overrides, and these over trips.  It answers nothing only if no entry
\* holds the point.
THEOREM MatchIsTheFirst ==
    ASSUME NEW day, NEW pool \in Pools(day), NEW point
    PROVE  LET match == FirstMatch(point, pool) IN
           \/ /\ match \in Entry /\ match.place \in point
              /\ \E k \in DOMAIN pool : \E i \in DOMAIN pool[k] :
                    /\ match = pool[k][i]
                    /\ \A n \in DOMAIN pool : \A j \in DOMAIN pool[n] :
                          pool[n][j].place \in point => k < n \/ (k = n /\ i <= j)
           \/ /\ match = NoEntry
              /\ \A k \in DOMAIN pool : \A i \in DOMAIN pool[k] :
                    pool[k][i].place \notin point
  <1>. DEFINE matching == {k \in DOMAIN pool : Hits(point, pool[k]) # {}}
  <1>1. CASE matching = {}
    <2>1. FirstMatch(point, pool) = NoEntry
      BY <1>1 DEF FirstMatch
    <2> QED
      BY <1>1, <2>1 DEF Hits
  <1>2. CASE matching # {}
    <2>. DEFINE k == Least(matching)
    <2>1. matching \subseteq Nat
      BY PoolsAreLists
    <2>2. k \in matching
      BY <1>2, <2>1, LeastIsLeast
    <2>. DEFINE hits == Hits(point, pool[k])
                i    == Least(hits)
    <2>3. IsList(pool[k]) /\ hits # {}
      BY <2>2, PoolsAreLists
    <2>4. i \in hits
      BY <2>3, LeastIsLeast DEF IsList, Hits
    <2>5. i \in DOMAIN pool[k] /\ pool[k][i] \in Entry /\ pool[k][i].place \in point
      BY <2>3, <2>4 DEF IsList, Hits
    <2>6. FirstMatch(point, pool) = pool[k][i]
      BY <1>2 DEF FirstMatch
    <2>7. ASSUME NEW n \in DOMAIN pool, NEW j \in DOMAIN pool[n], pool[n][j].place \in point
          PROVE  k < n \/ (k = n /\ i <= j)
      <3>1. n \in matching
        BY <2>7 DEF Hits
      <3>2. k <= n /\ k \in Nat /\ n \in Nat
        BY <2>1, <2>2, <3>1, LeastIsLeast
      <3>3. k = n => j \in hits
        BY <2>7 DEF Hits
      <3>4. k = n => i <= j
        BY <2>3, <3>3, LeastIsLeast DEF IsList, Hits
      <3>. HIDE DEF k, i
      <3> QED
        BY <3>2, <3>4
    <2> QED
      BY <2>2, <2>5, <2>6, <2>7
  <1> QED
    BY <1>1, <1>2
-----------------------------------------------------------------------------
(* The inductive invariant.                                                *)

Refused(c) == taps[c].answer \in {"404", "422"}

\* A first time, last time or location that DailyExplained accepts.
FirstExplained(day, t) ==
    \/ t = NoTime \/ Tapped(day, "clock_in", t)
    \/ \E old \in ImportedRows : old.first = t

LastExplained(day, t) ==
    \/ t = NoTime \/ Tapped(day, "clock_out", t)
    \/ \E old \in ImportedRows : old.last = t

EntryExplained(day, entry) ==
    \/ entry = NoEntry \/ Located(day, entry)
    \/ \E old \in ImportedRows : old.entry = entry

RowExplained(day) ==
    /\ FirstExplained(day, daily[day].first)
    /\ LastExplained(day, daily[day].last)
    /\ EntryExplained(day, daily[day].entry)
    /\ \A c \in daily[day].summary : \E l \in logs : l.tap = c /\ l.day = day

\* Of the log rows of a day, some has the least time and some the greatest.
Bounded(day, type) ==
    LogsOf(day, type) # {} =>
        /\ \E l \in LogsOf(day, type) : \A m \in LogsOf(day, type) : l.at <= m.at
        /\ \E l \in LogsOf(day, type) : \A m \in LogsOf(day, type) : m.at <= l.at

DayInv(day) ==
    /\ jobs[day].pc # "none" => daily[day] # NoRow
    /\ daily[day] # NoRow => RowExplained(day)
    /\ LogsShow(day)
    /\ \A type \in EventTypes : Bounded(day, type)

\* A log row is that of a tap that has been accepted.
LogInv(l) ==
    /\ taps[l.tap].type = l.type /\ taps[l.tap].day = l.day /\ taps[l.tap].at = l.at
    /\ taps[l.tap].pc \in {"scan", "aggregate", "note", "done"}
    /\ ~Refused(l.tap)

\* The tap has been taken into the row of its day.
RowShows(c) ==
    jobs[taps[c].day].pc # "completed" =>
        /\ taps[c].type = "clock_in" => daily[taps[c].day].first # NoTime
        /\ taps[c].type = "clock_out" => daily[taps[c].day].last # NoTime

\* The row the tap has read: still there, with the same shift.
CopyInv(c) ==
    /\ taps[c].copy \in Row
    /\ daily[taps[c].day] # NoRow
    /\ daily[taps[c].day].shift = taps[c].copy.shift
    /\ EntryExplained(taps[c].day, taps[c].copy.entry)

\* What has been done of a tap that is under way.
UnderWay(c) ==
    /\ taps[c].at \in Instants /\ taps[c].day \in Days /\ taps[c].answer = "none"
    /\ taps[c].pc = "upsert" /\ taps[c].copy # NoRow =>
          /\ CopyInv(c)
          /\ taps[c].copy.first # NoTime /\ jobs[taps[c].day].pc # "completed" =>
                daily[taps[c].day].first # NoTime
    /\ taps[c].pc \in {"log", "scan", "aggregate", "note"} => CopyInv(c) /\ RowShows(c)
    /\ taps[c].pc \in {"scan", "aggregate", "note"} => Logged(c)
    /\ taps[c].pc \in {"aggregate", "note"} => c \in scans
    /\ taps[c].pc = "note" => jobs[taps[c].day].pc # "none"

\* What has been done of a tap that was answered with success.
Complete(c) ==
    /\ taps[c].day \in Days /\ daily[taps[c].day] # NoRow
    /\ Logged(c) /\ c \in scans
    /\ daily[taps[c].day].shift => jobs[taps[c].day].pc # "none"

TapInv(c) ==
    /\ taps[c].pc = "idle" => taps[c].day = NoTime /\ taps[c].answer = "none"
    /\ taps[c].entry # NoEntry => taps[c].entry.place \in taps[c].point
    /\ taps[c].pc \notin {"idle", "done"} => UnderWay(c)
    /\ taps[c].answer = "200" => Complete(c)
    /\ c \in scans => Logged(c)

ClockInv ==
    /\ TypeOK
    /\ \A day \in Days : DayInv(day)
    /\ \A l \in logs : LogInv(l)
    /\ \A c \in Taps : TapInv(c)

-----------------------------------------------------------------------------
(* What no step takes back.                                                *)

LaterPcs == {"scan", "aggregate", "note", "done"}

\* The tap has been told its type, time, day and location: they stay.
SameTap(c) ==
    /\ taps'[c].type = taps[c].type /\ taps'[c].day = taps[c].day
    /\ taps'[c].at = taps[c].at /\ taps'[c].entry = taps[c].entry
    /\ taps'[c].point = taps[c].point
    /\ Refused(c)' => Refused(c)
    /\ taps[c].pc \in LaterPcs => taps'[c].pc \in LaterPcs

\* The row and the job of a day stay, and with them, until the worker takes
\* the job, that there is a first and a last time.
SameDay(day) ==
    /\ daily[day] # NoRow => /\ daily'[day] # NoRow
                             /\ daily'[day].shift = daily[day].shift
    /\ jobs[day].pc # "none" => jobs'[day].pc # "none"
    /\ jobs[day].pc = "completed" => jobs'[day].pc = "completed"
    /\ daily[day] # NoRow /\ jobs'[day].pc # "completed" =>
          /\ daily[day].first # NoTime => daily'[day].first # NoTime
          /\ daily[day].last # NoTime => daily'[day].last # NoTime

Onward ==
    /\ \A c \in Taps : taps[c].pc # "idle" => SameTap(c)
    /\ \A day \in Days : SameDay(day)
    /\ logs \subseteq logs'
    /\ scans \subseteq scans'

LEMMA CameFromStays ==
    ASSUME ClockInv, Onward, NEW c \in Taps, NEW day \in Days, NEW type,
           CameFrom(c, day, type)
    PROVE  CameFrom(c, day, type)' /\ SameTap(c)
<1>1. taps[c].pc # "idle"
  BY ClockAssumption DEF ClockInv, TapInv, CameFrom
<1>2. SameTap(c)
  BY <1>1 DEF Onward
<1>. QED
  BY <1>2 DEF SameTap, CameFrom, Refused

LEMMA ExplainedStays ==
    ASSUME ClockInv, Onward, NEW day \in Days
    PROVE  /\ \A t : FirstExplained(day, t) => FirstExplained(day, t)'
           /\ \A t : LastExplained(day, t) => LastExplained(day, t)'
           /\ \A entry : EntryExplained(day, entry) => EntryExplained(day, entry)'
<1>1. \A t, type : Tapped(day, type, t) => Tapped(day, type, t)'
  BY CameFromStays DEF Tapped, SameTap
<1>2. \A entry : Located(day, entry) => Located(day, entry)'
  BY CameFromStays DEF Located, SameTap
<1>. QED
  BY <1>1, <1>2 DEF FirstExplained, LastExplained, EntryExplained

LEMMA LoggedStays ==
    ASSUME Onward, NEW c, Logged(c)
    PROVE  Logged(c)'
BY DEF Onward, Logged

\* A tap keeps what it has while others make their steps.
LEMMA CopyStays ==
    ASSUME ClockInv, Onward, NEW c \in Taps, taps'[c].copy = taps[c].copy,
           taps'[c].day = taps[c].day, taps[c].day \in Days, CopyInv(c)
    PROVE  CopyInv(c)'
<1>1. SameDay(taps[c].day)
  BY DEF Onward
<1>2. EntryExplained(taps[c].day, taps[c].copy.entry)'
  BY ExplainedStays DEF CopyInv
<1>. QED
  BY <1>1, <1>2 DEF CopyInv, SameDay

LEMMA RowShowsStays ==
    ASSUME Onward, NEW c \in Taps, SameTap(c), taps[c].day \in Days,
           daily[taps[c].day] # NoRow, RowShows(c)
    PROVE  RowShows(c)'
<1>1. SameDay(taps[c].day)
  BY DEF Onward
<1>. QED
  BY <1>1 DEF RowShows, SameDay, SameTap

LEMMA CompleteStays ==
    ASSUME Onward, NEW c \in Taps, SameTap(c), Complete(c)
    PROVE  Complete(c)'
<1>1. SameDay(taps[c].day)
  BY DEF Onward, Complete
<1>2. Logged(c)'
  BY LoggedStays DEF Complete
<1>. QED
  BY <1>1, <1>2 DEF Complete, SameDay, SameTap, Onward

LEMMA OtherTap ==
    ASSUME ClockInv, Onward, NEW c \in Taps, taps'[c] = taps[c],
           c \in scans' => c \in scans
    PROVE  TapInv(c)'
<1>0. TapInv(c)
  BY DEF ClockInv
<1>1. SameTap(c)
  BY DEF SameTap, Refused
<1>2. ASSUME taps[c].pc \notin {"idle", "done"}
      PROVE  UnderWay(c)'
  <2>1. UnderWay(c) /\ taps[c].day \in Days /\ SameDay(taps[c].day)
    BY <1>0, <1>2 DEF TapInv, UnderWay, Onward
  <2>2. CopyInv(c) => CopyInv(c)'
    BY <2>1, CopyStays
  <2>3. CopyInv(c) /\ RowShows(c) => RowShows(c)'
    BY <1>1, <2>1, RowShowsStays DEF CopyInv
  <2>4. Logged(c) => Logged(c)'
    BY LoggedStays
  <2>5. /\ CopyInv(c) /\ jobs'[taps[c].day].pc # "completed"
        /\ daily[taps[c].day].first # NoTime
        => daily'[taps[c].day].first # NoTime
    BY <2>1 DEF SameDay, CopyInv
  <2>6. jobs[taps[c].day].pc = "completed" => jobs'[taps[c].day].pc = "completed"
    BY <2>1 DEF SameDay
  <2>7. jobs[taps[c].day].pc # "none" => jobs'[taps[c].day].pc # "none"
    BY <2>1 DEF SameDay
  <2>. QED
    BY <2>1, <2>2, <2>3, <2>4, <2>5, <2>6, <2>7 DEF UnderWay, Onward
<1>3. taps[c].answer = "200" => Complete(c)'
  BY <1>0, <1>1, CompleteStays DEF TapInv
<1>4. c \in scans' => Logged(c)'
  BY <1>0, LoggedStays DEF TapInv
<1>. QED
  BY <1>0, <1>2, <1>3, <1>4 DEF TapInv

\* A day keeps what holds of it while nothing of it is written.
LEMMA OtherDay ==
    ASSUME ClockInv, Onward, NEW day \in Days, daily'[day] = daily[day],
           jobs'[day].pc = jobs[day].pc, logs' = logs
    PROVE  DayInv(day)'
<1>0. DayInv(day)
  BY DEF ClockInv
<1>1. daily[day] # NoRow => RowExplained(day)'
  BY <1>0, ExplainedStays DEF DayInv, RowExplained
<1>2. LogsShow(day)'
  BY <1>0 DEF DayInv, LogsShow
<1>3. \A type \in EventTypes : Bounded(day, type)'
  BY <1>0 DEF DayInv, Bounded, LogsOf
<1>. QED
  BY <1>0, <1>1, <1>2, <1>3 DEF DayInv

LEMMA LogStays ==
    ASSUME ClockInv, Onward, NEW l \in logs
    PROVE  LogInv(l)'
<1>1. l.tap \in Taps /\ LogInv(l)
  BY DEF ClockInv, TypeOK, LogRow
<1>2. SameTap(l.tap)
  BY <1>1 DEF Onward, LogInv
<1>. QED
  BY <1>1, <1>2 DEF LogInv, SameTap, LaterPcs

\* What is left to show of a step of tap c.
LEMMA StepOfOneTap ==
    ASSUME ClockInv, TypeOK', Onward, NEW c \in Taps,
           \A d \in Taps \ {c} : taps'[d] = taps[d],
           scans' \subseteq scans \cup {c},
           TapInv(c)',
           \A day \in Days : DayInv(day)',
           \A l \in logs' \ logs : LogInv(l)'
    PROVE  ClockInv'
<1>1. ASSUME NEW d \in Taps
      PROVE  TapInv(d)'
  <2>1. CASE d = c
    BY <2>1
  <2>2. CASE d # c
    BY <2>2, OtherTap
  <2>. QED
    BY <2>1, <2>2
<1>2. \A l \in logs' : LogInv(l)'
  BY LogStays
<1>. QED
  BY <1>1, <1>2 DEF ClockInv

-----------------------------------------------------------------------------
(* The start of a tap.                                                     *)

LEMMA DaysAreInt == Days \subseteq Int
BY LocalDayBounds, ClockAssumption DEF Days

LEMMA ResolvedDayInDays ==
    ASSUME NEW shift, NEW t \in Instants
    PROVE  ResolvedDay(shift, t) \in Days
<1>1. LocalDay(t) \in Int
  BY LocalDayBounds, ClockAssumption
<1>2. LocalDay(t) - 0 = LocalDay(t)
  BY <1>1
<1>3. LocalDay(t) - 0 \in Days /\ LocalDay(t) - 1 \in Days
  BY DEF Days
<1>. QED
  BY <1>2, <1>3 DEF ResolvedDay

LEMMA CloseIsInt ==
    ASSUME NEW shift \in Shift, NEW day \in Int
    PROVE  ShiftClose(day, shift) \in Int
<1>1. PICK e \in 0..1439 : e = shift.end
  BY EndInDay
<1>2. day * 1440 + e \in Int /\ day * 1440 + e + 1440 \in Int
  OBVIOUS
<1>. QED
  BY <1>1, <1>2 DEF ShiftClose, DayMins

LEMMA StartedTap ==
    ASSUME TypeOK, NEW c, NEW type \in EventTypes, NEW point \in Points \cup {NoPoint}
    PROVE  Started(c, type, point) =
              [pc |-> "idle", type |-> type, point |-> point, at |-> now,
               day |-> NoTime, close |-> 0, entry |-> NoEntry, copy |-> NoRow,
               answer |-> "none"]
<1>. DEFINE idle == IdleTap
<1>1. idle = [pc |-> "idle", type |-> "clock_in", point |-> NoPoint, at |-> NoTime,
              day |-> NoTime, close |-> 0, entry |-> NoEntry, copy |-> NoRow,
              answer |-> "none"]
  BY DEF IdleTap
<1>2. Started(c, type, point) = [idle EXCEPT !.type = type, !.point = point, !.at = now]
  BY DEF Started
<1>. HIDE DEF idle
<1>. QED
  BY <1>1, <1>2

\* A tap that has been told its day, or refused; nothing else has happened.
LEMMA BeginKeeps ==
    ASSUME ClockInv, NEW c \in Taps, taps[c].pc = "idle", NEW new \in Tap,
           taps' = [taps EXCEPT ![c] = new],
           UNCHANGED <<now, daily, logs, scans, jobs>>,
           \/ /\ new.pc = "find" /\ new.answer = "none"
              /\ new.at \in Instants /\ new.day \in Days
           \/ new.pc = "done" /\ new.answer # "200",
           new.entry # NoEntry => new.entry.place \in new.point
    PROVE  ClockInv'
<1>1. taps'[c] = new /\ \A d \in Taps \ {c} : taps'[d] = taps[d]
  BY DEF ClockInv, TypeOK
<1>2. TypeOK'
  BY DEF ClockInv, TypeOK
<1>3. Onward
  BY <1>1 DEF Onward, SameTap, SameDay, Refused
<1>4. c \notin scans
  <2>1. ASSUME Logged(c)
        PROVE  FALSE
    BY <2>1 DEF Logged, ClockInv, LogInv
  <2>. QED
    BY <2>1 DEF ClockInv, TapInv
<1>5. TapInv(c)'
  BY <1>1, <1>4 DEF TapInv, UnderWay
<1>6. \A day \in Days : DayInv(day)'
  BY <1>3, OtherDay
<1>. QED
  BY <1>1, <1>2, <1>3, <1>5, <1>6, StepOfOneTap

LEMMA BeginInv ==
    ASSUME ClockInv, NEW c \in Taps, NEW type \in EventTypes,
           NEW point \in Points \cup {NoPoint}, Begin(c, type, point)
    PROVE  ClockInv'
<1>. DEFINE s == Started(c, type, point)
<1>1. s = [pc |-> "idle", type |-> type, point |-> point, at |-> now,
           day |-> NoTime, close |-> 0, entry |-> NoEntry, copy |-> NoRow,
           answer |-> "none"]
  BY StartedTap DEF ClockInv
<1>2. now \in Instants
  BY DEF ClockInv, TypeOK
<1>3. taps[c].pc = "idle" /\ UNCHANGED <<now, daily, logs, scans, jobs>>
  BY DEF Begin, At
<1>. HIDE DEF s
<1>4. ASSUME NEW new, new = [s EXCEPT !.pc = "done", !.answer = "404"],
             taps' = [taps EXCEPT ![c] = new]
      PROVE  ClockInv'
  <2>1. new = [pc |-> "done", type |-> type, point |-> point, at |-> now,
               day |-> NoTime, close |-> 0, entry |-> NoEntry, copy |-> NoRow,
               answer |-> "404"]
    BY <1>1, <1>4
  <2>2. new \in Tap
    BY <1>2, <2>1 DEF Tap
  <2>3. new.pc = "done" /\ new.answer # "200" /\ new.entry = NoEntry
    BY <2>1
  <2>. QED
    BY <1>3, <1>4, <2>2, <2>3, BeginKeeps
<1>5. ASSUME NEW a \in LatestOn(LocalDay(now)), NEW day, day = ResolvedDay(a.shift, now),
             NEW pool \in Pools(day),
             NEW new, new = [s EXCEPT !.pc = "done", !.day = day, !.answer = "422"],
             taps' = [taps EXCEPT ![c] = new]
      PROVE  ClockInv'
  <2>1. new = [pc |-> "done", type |-> type, point |-> point, at |-> now,
               day |-> day, close |-> 0, entry |-> NoEntry, copy |-> NoRow,
               answer |-> "422"]
    BY <1>1, <1>5
  <2>2. day \in Days
    BY <1>2, <1>5, ResolvedDayInDays
  <2>3. new \in Tap
    BY <1>2, <2>1, <2>2 DEF Tap
  <2>4. new.pc = "done" /\ new.answer # "200" /\ new.entry = NoEntry
    BY <2>1
  <2>. QED
    BY <1>3, <1>5, <2>3, <2>4, BeginKeeps
<1>6. ASSUME NEW a \in LatestOn(LocalDay(now)), NEW day, day = ResolvedDay(a.shift, now),
             NEW pool \in Pools(day),
             point # NoPoint => FirstMatch(point, pool) # NoEntry,
             NEW entry, entry = IF point = NoPoint THEN NoEntry ELSE FirstMatch(point, pool),
             NEW new, new = [s EXCEPT !.pc = "find", !.day = day,
                                      !.close = ShiftClose(day, a.shift), !.entry = entry],
             taps' = [taps EXCEPT ![c] = new]
      PROVE  ClockInv'
  <2>1. new = [pc |-> "find", type |-> type, point |-> point, at |-> now,
               day |-> day, close |-> ShiftClose(day, a.shift), entry |-> entry,
               copy |-> NoRow, answer |-> "none"]
    BY <1>1, <1>6
  <2>2. day \in Days
    BY <1>2, <1>6, ResolvedDayInDays
  <2>3. ShiftClose(day, a.shift) \in Int
    BY <2>2, DaysAreInt, FoundAssignment, CloseIsInt
  <2>4. \/ entry = NoEntry
        \/ entry \in Entry /\ entry.place \in point
    BY <1>6, MatchIsTheFirst
  <2>5. new \in Tap
    BY <1>2, <2>1, <2>2, <2>3, <2>4 DEF Tap
  <2>6. /\ new.pc = "find" /\ new.at \in Instants /\ new.day \in Days /\ new.answer = "none"
        /\ new.entry # NoEntry => new.entry.place \in new.point
    BY <1>2, <2>1, <2>2, <2>4
  <2>. QED
    BY <1>3, <1>6, <2>5, <2>6, BeginKeeps
<1>. QED
  BY <1>4, <1>5, <1>6 DEF Begin, s

-----------------------------------------------------------------------------
(* The row of the day.                                                     *)

\* A tap that goes on or ends is otherwise as it was.
SameRequest(new, old) ==
    /\ new.type = old.type /\ new.day = old.day /\ new.at = old.at
    /\ new.entry = old.entry /\ new.point = old.point /\ new.close = old.close

LEMMA UnderWayTap ==
    ASSUME ClockInv, NEW c \in Taps, taps[c].pc \notin {"idle", "done"}
    PROVE  /\ taps[c] \in Tap /\ UnderWay(c) /\ TapInv(c)
           /\ taps[c].day \in Days /\ taps[c].at \in Instants /\ taps[c].at # NoTime
           /\ taps[c].type \in EventTypes
           /\ taps[c].answer = "none" /\ ~Refused(c)
           /\ DayInv(taps[c].day)
<1>1. taps[c] \in Tap /\ TapInv(c) /\ UnderWay(c)
  BY DEF ClockInv, TypeOK, TapInv
<1>2. taps[c].type \in EventTypes
  BY <1>1 DEF Tap
<1>. QED
  BY <1>1, <1>2, ClockAssumption DEF UnderWay, Refused, ClockInv

\* What a step of a tap that is under way does to the tap.
GoesWith(c, pc, copy) ==
    taps' = [taps EXCEPT ![c] = [@ EXCEPT !.pc = pc, !.copy = copy]]

LEMMA GoingOn ==
    ASSUME ClockInv, NEW c \in Taps, taps[c].pc \notin {"idle", "done"},
           NEW pc \in {"find", "upsert", "log", "scan", "aggregate", "note"},
           NEW copy \in Row \cup {NoRow},
           GoesWith(c, pc, copy)
    PROVE  /\ taps'[c] \in Tap /\ SameRequest(taps'[c], taps[c])
           /\ taps'[c].pc = pc /\ taps'[c].copy = copy /\ taps'[c].answer = "none"
           /\ taps' \in [Taps -> Tap]
           /\ \A d \in Taps \ {c} : taps'[d] = taps[d]
<1>. DEFINE old == taps[c]
            new == [old EXCEPT !.pc = pc, !.copy = copy]
<1>1. old \in Tap /\ old.answer = "none"
  BY UnderWayTap
<1>2. taps' = [taps EXCEPT ![c] = new] /\ taps \in [Taps -> Tap]
  BY DEF ClockInv, TypeOK, GoesWith
<1>3. new = [old EXCEPT !.pc = pc, !.copy = copy]
  OBVIOUS
<1>4. taps'[c] = new /\ \A d \in Taps \ {c} : taps'[d] = taps[d]
  BY <1>2
<1>. HIDE DEF new, old
<1>5. /\ new \in Tap /\ SameRequest(new, old)
      /\ new.pc = pc /\ new.copy = copy /\ new.answer = "none"
  BY <1>1, <1>3 DEF Tap, SameRequest
<1>. QED
  BY <1>2, <1>4, <1>5 DEF old

LEMMA Ending ==
    ASSUME ClockInv, NEW c \in Taps, taps[c].pc \notin {"idle", "done"},
           NEW code \in {"200", "500"}, Ends(c, code)
    PROVE  /\ taps'[c] \in Tap /\ SameRequest(taps'[c], taps[c])
           /\ taps'[c].pc = "done" /\ taps'[c].copy = NoRow /\ taps'[c].answer = code
           /\ taps' \in [Taps -> Tap]
           /\ \A d \in Taps \ {c} : taps'[d] = taps[d]
<1>. DEFINE old == taps[c]
            new == [old EXCEPT !.pc = "done", !.answer = code, !.copy = NoRow]
<1>1. old \in Tap
  BY UnderWayTap
<1>2. taps' = [taps EXCEPT ![c] = new] /\ taps \in [Taps -> Tap]
  BY DEF ClockInv, TypeOK, Ends
<1>3. new = [old EXCEPT !.pc = "done", !.answer = code, !.copy = NoRow]
  OBVIOUS
<1>4. taps'[c] = new /\ \A d \in Taps \ {c} : taps'[d] = taps[d]
  BY <1>2
<1>. HIDE DEF new, old
<1>5. /\ new \in Tap /\ SameRequest(new, old)
      /\ new.pc = "done" /\ new.copy = NoRow /\ new.answer = code
  BY <1>1, <1>3 DEF Tap, SameRequest
<1>. QED
  BY <1>2, <1>4, <1>5 DEF old

LEMMA Going ==
    ASSUME ClockInv, NEW c \in Taps, taps[c].pc \notin {"idle", "done"},
           NEW pc \in {"find", "upsert", "log", "scan", "aggregate", "note"}, Goes(c, pc)
    PROVE  /\ taps'[c] \in Tap /\ SameRequest(taps'[c], taps[c])
           /\ taps'[c].pc = pc /\ taps'[c].copy = taps[c].copy /\ taps'[c].answer = "none"
           /\ taps' \in [Taps -> Tap]
           /\ \A d \in Taps \ {c} : taps'[d] = taps[d]
<1>. DEFINE old == taps[c]
            new == [old EXCEPT !.pc = pc]
<1>1. old \in Tap /\ old.answer = "none"
  BY UnderWayTap
<1>2. taps' = [taps EXCEPT ![c] = new] /\ taps \in [Taps -> Tap]
  BY DEF ClockInv, TypeOK, Goes
<1>3. new = [old EXCEPT !.pc = pc]
  OBVIOUS
<1>4. taps'[c] = new /\ \A d \in Taps \ {c} : taps'[d] = taps[d]
  BY <1>2
<1>. HIDE DEF new, old
<1>5. /\ new \in Tap /\ SameRequest(new, old)
      /\ new.pc = pc /\ new.copy = old.copy /\ new.answer = "none"
  BY <1>1, <1>3 DEF Tap, SameRequest
<1>. QED
  BY <1>2, <1>4, <1>5 DEF old

\* Such a step leaves all taps what they have been told.
LEMMA AllSameTap ==
    ASSUME ClockInv, NEW c \in Taps, taps[c].pc \notin {"idle", "done"},
           SameRequest(taps'[c], taps[c]), taps'[c].answer \notin {"404", "422"},
           taps[c].pc \in LaterPcs => taps'[c].pc \in LaterPcs,
           \A d \in Taps \ {c} : taps'[d] = taps[d]
    PROVE  \A d \in Taps : SameTap(d)
<1>1. SameTap(c)
  BY DEF SameTap, SameRequest, Refused
<1>2. \A d \in Taps \ {c} : SameTap(d)
  BY DEF SameTap, Refused
<1>. QED
  BY <1>1, <1>2

LEMMA FindDailyInv ==
    ASSUME ClockInv, NEW c \in Taps, FindDaily(c)
    PROVE  ClockInv'
<1>1. taps[c].pc = "find" /\ UNCHANGED <<now, daily, logs, scans, jobs>>
  BY DEF FindDaily, At
<1>2. /\ UnderWay(c) /\ TapInv(c) /\ taps[c].day \in Days /\ DayInv(taps[c].day)
      /\ taps[c].at \in Instants
  BY <1>1, UnderWayTap
<1>3. /\ daily[taps[c].day] \in Row \cup {NoRow}
      /\ GoesWith(c, "upsert", daily[taps[c].day])
  BY <1>2 DEF ClockInv, TypeOK, FindDaily, GoesWith
<1>4. /\ taps'[c] \in Tap /\ SameRequest(taps'[c], taps[c])
      /\ taps'[c].pc = "upsert" /\ taps'[c].copy = daily[taps[c].day]
      /\ taps'[c].answer = "none"
      /\ taps' \in [Taps -> Tap]
      /\ \A d \in Taps \ {c} : taps'[d] = taps[d]
  BY <1>1, <1>3, GoingOn
<1>5. TypeOK'
  BY <1>1, <1>4 DEF ClockInv, TypeOK
<1>6. Onward
  <2>1. \A d \in Taps : SameTap(d)
    BY <1>1, <1>4, AllSameTap DEF LaterPcs
  <2>2. \A day \in Days : SameDay(day)
    BY <1>1 DEF SameDay
  <2>. QED
    BY <1>1, <2>1, <2>2 DEF Onward
<1>7. TapInv(c)'
  <2>1. ASSUME taps'[c].copy # NoRow
        PROVE  /\ CopyInv(c)'
               /\ (taps'[c].copy.first # NoTime => daily'[taps'[c].day].first # NoTime)
    <3>1. PICK entry : entry = daily[taps[c].day].entry
      OBVIOUS
    <3>2. PICK day \in Days : day = taps[c].day
      BY <1>2
    <3>3. EntryExplained(day, entry)
      BY <1>2, <1>4, <2>1, <3>1, <3>2 DEF DayInv, RowExplained
    <3>4. EntryExplained(day, entry)'
      BY <1>6, <3>3, ExplainedStays
    <3>. QED
      BY <1>1, <1>3, <1>4, <2>1, <3>1, <3>2, <3>4 DEF CopyInv, SameRequest
  <2>2. UnderWay(c)'
    BY <1>2, <1>4, <2>1 DEF UnderWay, SameRequest
  <2>3. c \in scans' => Logged(c)'
    BY <1>1, <1>2 DEF TapInv, Logged
  <2>. QED
    BY <1>2, <1>4, <2>2, <2>3 DEF TapInv, SameRequest
<1>8. \A day \in Days : DayInv(day)'
  BY <1>1, <1>6, OtherDay
<1>. QED
  BY <1>1, <1>4, <1>5, <1>6, <1>7, <1>8, StepOfOneTap

\* A tap that fails leaves everything but itself.
LEMMA FailKeeps ==
    ASSUME ClockInv, NEW c \in Taps, taps[c].pc \notin {"idle", "done"},
           Ends(c, "500"), UNCHANGED <<now, daily, logs, scans, jobs>>
    PROVE  ClockInv'
<1>1. TapInv(c)
  BY UnderWayTap
<1>2. /\ SameRequest(taps'[c], taps[c]) /\ taps'[c].pc = "done" /\ taps'[c].answer = "500"
      /\ taps' \in [Taps -> Tap]
      /\ \A d \in Taps \ {c} : taps'[d] = taps[d]
  BY Ending
<1>3. TypeOK'
  BY <1>2 DEF ClockInv, TypeOK
<1>4. Onward
  <2>1. \A d \in Taps : SameTap(d)
    BY <1>2, AllSameTap DEF LaterPcs
  <2>. QED
    BY <2>1 DEF Onward, SameDay
<1>5. TapInv(c)'
  BY <1>1, <1>2 DEF TapInv, SameRequest, Logged
<1>6. \A day \in Days : DayInv(day)'
  BY <1>4, OtherDay
<1>. QED
  BY <1>2, <1>3, <1>4, <1>5, <1>6, StepOfOneTap

\* The row an upsert leaves: its times and its location are the tap's own, or
\* those of the row it found, and it never takes back a time.
UpsertedRow(c, row) ==
    LET tap == taps[c]
        old == daily[tap.day]
    IN /\ row \in Row
       /\ old # NoRow => /\ row.shift = old.shift
                         /\ row.summary = old.summary
       /\ old = NoRow => row.summary = {}
       /\ \/ tap.type = "clock_in" /\ row.first = tap.at
          \/ tap.type = "clock_out" /\ old = NoRow /\ row.first = NoTime
          \/ /\ old # NoRow /\ row.first = old.first
             /\ tap.type = "clock_in" /\ jobs[tap.day].pc # "completed" => old.first # NoTime
       /\ \/ tap.type = "clock_out" /\ row.last = tap.at
          \/ tap.type = "clock_in" /\ old = NoRow /\ row.last = NoTime
          \/ tap.type = "clock_in" /\ old # NoRow /\ row.last = old.last
       /\ \/ row.entry = tap.entry
          \/ tap.copy # NoRow /\ row.entry = tap.copy.entry

LEMMA NewRowIsUpserted ==
    ASSUME ClockInv, NEW c \in Taps, taps[c].pc = "upsert", daily[taps[c].day] = NoRow
    PROVE  UpsertedRow(c, NewRow(taps[c]))
<1>1. /\ taps[c].at \in Instants /\ taps[c].type \in EventTypes
      /\ taps[c].entry \in Entry \cup {NoEntry}
  BY UnderWayTap DEF Tap
<1>. DEFINE row == NewRow(taps[c])
<1>2. row = [shift |-> TRUE,
             first |-> IF taps[c].type = "clock_in" THEN taps[c].at ELSE NoTime,
             last |-> IF taps[c].type = "clock_out" THEN taps[c].at ELSE NoTime,
             entry |-> taps[c].entry, job |-> FALSE, flagged |-> FALSE, summary |-> {}]
  BY DEF NewRow
<1>. HIDE DEF row
<1>3. row \in Row
  BY <1>1, <1>2 DEF Row
<1>4. UpsertedRow(c, row)
  BY <1>1, <1>2, <1>3 DEF UpsertedRow, EventTypes
<1>. QED
  BY <1>4 DEF row

LEMMA UpdatedIsUpserted ==
    ASSUME ClockInv, NEW c \in Taps, taps[c].pc = "upsert", taps[c].copy # NoRow
    PROVE  UpsertedRow(c, Updated(daily[taps[c].day], taps[c]))
<1>. DEFINE tap == taps[c]
            old == daily[tap.day]
            row == Updated(old, tap)
<1>1. /\ tap.at \in Instants /\ tap.type \in EventTypes
      /\ tap.entry \in Entry \cup {NoEntry}
      /\ CopyInv(c)
      /\ tap.copy.first # NoTime /\ jobs[tap.day].pc # "completed" => old.first # NoTime
  BY UnderWayTap DEF Tap, UnderWay
<1>2. old \in Row /\ old # NoRow /\ tap.copy \in Row
  BY <1>1, UnderWayTap DEF CopyInv, ClockInv, TypeOK
<1>3. /\ tap.copy.entry \in Entry \cup {NoEntry}
      /\ tap.copy.job \in BOOLEAN /\ tap.copy.flagged \in BOOLEAN
  BY <1>2 DEF Row
<1>4. row = [old EXCEPT
                !.first   = IF tap.type = "clock_in" /\ tap.copy.first = NoTime
                            THEN tap.at ELSE @,
                !.last    = IF tap.type = "clock_out" THEN tap.at ELSE @,
                !.entry   = IF tap.entry = NoEntry THEN tap.copy.entry ELSE tap.entry,
                !.job     = tap.copy.job,
                !.flagged = tap.copy.flagged]
  BY DEF Updated
<1>. HIDE DEF tap, old, row
<1>5. /\ row \in Row /\ row.shift = old.shift /\ row.summary = old.summary
      /\ row.first = IF tap.type = "clock_in" /\ tap.copy.first = NoTime
                     THEN tap.at ELSE old.first
      /\ row.last = IF tap.type = "clock_out" THEN tap.at ELSE old.last
      /\ row.entry = IF tap.entry = NoEntry THEN tap.copy.entry ELSE tap.entry
  BY <1>1, <1>2, <1>3, <1>4 DEF Row
<1>6. UpsertedRow(c, row)
  BY <1>1, <1>2, <1>5 DEF UpsertedRow, EventTypes, tap, old
<1>. QED
  BY <1>6 DEF row, old, tap

LEMMA UpsertWrites ==
    ASSUME ClockInv, NEW c \in Taps, taps[c].pc = "upsert",
           NEW row, UpsertedRow(c, row),
           daily' = [daily EXCEPT ![taps[c].day] = row],
           GoesWith(c, "log", row), UNCHANGED <<now, logs, scans, jobs>>
    PROVE  ClockInv'
<1>. DEFINE today == taps[c].day
<1>1. /\ UnderWay(c) /\ TapInv(c) /\ today \in Days /\ DayInv(today)
      /\ taps[c].at \in Instants /\ taps[c].at # NoTime
      /\ taps[c].type \in EventTypes /\ ~Refused(c)
  BY UnderWayTap
<1>2. row \in Row /\ row # NoRow
  BY ClockAssumption DEF UpsertedRow
<1>3. /\ taps'[c] \in Tap /\ SameRequest(taps'[c], taps[c])
      /\ taps'[c].pc = "log" /\ taps'[c].copy = row /\ taps'[c].answer = "none"
      /\ taps' \in [Taps -> Tap]
      /\ \A d \in Taps \ {c} : taps'[d] = taps[d]
  BY <1>2, GoingOn
<1>4. /\ daily' \in [Days -> Row \cup {NoRow}]
      /\ daily'[today] = row /\ \A day \in Days \ {today} : daily'[day] = daily[day]
  BY <1>1, <1>2 DEF ClockInv, TypeOK
<1>5. TypeOK'
  BY <1>2, <1>3, <1>4 DEF ClockInv, TypeOK
<1>6. SameDay(today)
  BY <1>1, <1>2, <1>4 DEF SameDay, UpsertedRow
<1>7. Onward
  <2>1. \A d \in Taps : SameTap(d)
    BY <1>3, AllSameTap DEF LaterPcs
  <2>2. \A day \in Days : SameDay(day)
    BY <1>4, <1>6 DEF SameDay
  <2>. QED
    BY <2>1, <2>2 DEF Onward
<1>8. CameFrom(c, today, taps[c].type)'
  BY <1>3 DEF CameFrom, SameRequest
<1>9. PICK day \in Days : day = today
  BY <1>1
<1>10. EntryExplained(day, row.entry)'
  <2>1. PICK entry : entry = row.entry
    OBVIOUS
  <2>2. CASE entry = NoEntry
    BY <2>1, <2>2 DEF EntryExplained
  <2>3. CASE entry = taps[c].entry /\ entry # NoEntry
    <3>1. Located(day, entry)'
      BY <1>1, <1>3, <1>8, <1>9, <2>3 DEF Located, SameRequest, TapInv
    <3>. QED
      BY <2>1, <3>1 DEF EntryExplained
  <2>4. CASE taps[c].copy # NoRow /\ entry = taps[c].copy.entry
    <3>1. EntryExplained(day, entry)
      BY <1>1, <1>9, <2>4 DEF UnderWay, CopyInv
    <3>2. EntryExplained(day, entry)'
      BY <1>7, <3>1, ExplainedStays
    <3>. QED
      BY <2>1, <3>2
  <2>. QED
    BY <2>1, <2>2, <2>3, <2>4 DEF UpsertedRow
<1>11. RowExplained(day)'
  <2>1. FirstExplained(day, row.first)'
    <3>1. PICK t : t = row.first
      OBVIOUS
    <3>2. CASE t = NoTime
      BY <3>1, <3>2 DEF FirstExplained
    <3>3. CASE taps[c].type = "clock_in" /\ t = taps[c].at
      <4>1. Tapped(day, "clock_in", t)'
        BY <1>3, <1>8, <1>9, <3>3 DEF Tapped, SameRequest
      <4>. QED
        BY <3>1, <4>1 DEF FirstExplained
    <3>4. CASE daily[day] # NoRow /\ t = daily[day].first
      <4>1. FirstExplained(day, t)
        BY <1>1, <1>9, <3>4 DEF DayInv, RowExplained
      <4>2. FirstExplained(day, t)'
        BY <1>7, <4>1, ExplainedStays
      <4>. QED
        BY <3>1, <4>2
    <3>. QED
      BY <1>9, <3>1, <3>2, <3>3, <3>4 DEF UpsertedRow
  <2>2. LastExplained(day, row.last)'
    <3>1. PICK t : t = row.last
      OBVIOUS
    <3>2. CASE t = NoTime
      BY <3>1, <3>2 DEF LastExplained
    <3>3. CASE taps[c].type = "clock_out" /\ t = taps[c].at
      <4>1. Tapped(day, "clock_out", t)'
        BY <1>3, <1>8, <1>9, <3>3 DEF Tapped, SameRequest
      <4>. QED
        BY <3>1, <4>1 DEF LastExplained
    <3>4. CASE daily[day] # NoRow /\ t = daily[day].last
      <4>1. LastExplained(day, t)
        BY <1>1, <1>9, <3>4 DEF DayInv, RowExplained
      <4>2. LastExplained(day, t)'
        BY <1>7, <4>1, ExplainedStays
      <4>. QED
        BY <3>1, <4>2
    <3>. QED
      BY <1>9, <3>1, <3>2, <3>3, <3>4 DEF UpsertedRow
  <2>3. \A d \in row.summary : \E l \in logs : l.tap = d /\ l.day = day
    BY <1>1, <1>9 DEF UpsertedRow, DayInv, RowExplained
  <2>. QED
    BY <1>4, <1>9, <1>10, <2>1, <2>2, <2>3 DEF RowExplained
<1>12. RowShows(c)'
  BY <1>1, <1>3, <1>4 DEF RowShows, SameRequest, UpsertedRow
<1>13. TapInv(c)'
  <2>1. CopyInv(c)'
    BY <1>2, <1>3, <1>4, <1>9, <1>10 DEF CopyInv, SameRequest
  <2>2. UnderWay(c)'
    BY <1>1, <1>3, <1>12, <2>1 DEF UnderWay, SameRequest
  <2>. QED
    BY <1>1, <1>3, <2>2 DEF TapInv, SameRequest, Logged
<1>14. DayInv(day)'
  <2>1. LogsShow(day)'
    <3>1. daily[day] = NoRow => ~ \E l \in logs : l.day = day
      BY DEF ClockInv, TypeOK
    <3>. QED
      BY <1>1, <1>6, <1>9, <3>1 DEF DayInv, LogsShow, SameDay
  <2>2. \A type \in EventTypes : Bounded(day, type)'
    BY <1>1, <1>9 DEF DayInv, Bounded, LogsOf
  <2>. QED
    BY <1>2, <1>4, <1>9, <1>11, <2>1, <2>2 DEF DayInv
<1>15. \A other \in Days : DayInv(other)'
  <2>1. ASSUME NEW other \in Days, other # day
        PROVE  DayInv(other)'
    BY <1>4, <1>7, <1>9, <2>1, OtherDay
  <2>. QED
    BY <1>14, <2>1
<1>. QED
  BY <1>3, <1>5, <1>7, <1>13, <1>15, StepOfOneTap

LEMMA UpsertInv ==
    ASSUME ClockInv, NEW c \in Taps, Upsert(c)
    PROVE  ClockInv'
<1>. DEFINE tap == taps[c]
            row == IF tap.copy = NoRow THEN NewRow(tap) ELSE Updated(daily[tap.day], tap)
<1>1. taps[c].pc = "upsert" /\ UNCHANGED <<now, logs, scans, jobs>>
  BY DEF Upsert, At
<1>2. CASE Ends(c, "500") /\ UNCHANGED daily
  BY <1>1, <1>2, FailKeeps
<1>3. CASE /\ tap.copy = NoRow => daily[tap.day] = NoRow
           /\ daily' = [daily EXCEPT ![tap.day] = row]
           /\ taps' = [taps EXCEPT ![c] = [@ EXCEPT !.pc = "log", !.copy = row]]
  <2>1. UpsertedRow(c, row)
    BY <1>1, <1>3, NewRowIsUpserted, UpdatedIsUpserted
  <2>2. GoesWith(c, "log", row)
    BY <1>3 DEF GoesWith
  <2>. HIDE DEF row
  <2>. QED
    BY <1>1, <1>3, <2>1, <2>2, UpsertWrites
<1>. QED
  BY <1>2, <1>3 DEF Upsert

-----------------------------------------------------------------------------
(* The log row, the scan and the job.                                      *)

LEMMA BoundedGrows ==
    ASSUME ClockInv, NEW new, new.at \in Int, logs' = logs \cup {new},
           NEW day \in Days, NEW type \in EventTypes
    PROVE  Bounded(day, type)'
<1>. DEFINE ls == LogsOf(day, type)
<1>1. \A l \in ls : l.at \in Int
  BY ClockAssumption DEF ClockInv, TypeOK, LogRow, LogsOf
<1>2. Bounded(day, type)
  BY DEF ClockInv, DayInv
<1>3. ls' = ls \/ ls' = ls \cup {new}
  BY DEF LogsOf
<1>4. CASE ls' = ls
  BY <1>2, <1>4 DEF Bounded
<1>5. CASE ls' = ls \cup {new} /\ ls = {}
  <2>1. ls' = {new} /\ new.at <= new.at
    BY <1>5
  <2>. QED
    BY <2>1 DEF Bounded
<1>6. CASE ls' = ls \cup {new} /\ ls # {}
  <2>1. PICK low \in ls : \A m \in ls : low.at <= m.at
    BY <1>2, <1>6 DEF Bounded
  <2>2. PICK high \in ls : \A m \in ls : m.at <= high.at
    BY <1>2, <1>6 DEF Bounded
  <2>3. PICK all : all = ls
    OBVIOUS
  <2>4. ls' = all \cup {new}
    BY <1>6, <2>3
  <2>5. \E l \in all \cup {new} : \A m \in all \cup {new} : l.at <= m.at
    <3>1. CASE new.at <= low.at
      <4>1. \A m \in all \cup {new} : new.at <= m.at
        BY <1>1, <2>1, <2>3, <3>1
      <4>. QED
        BY <4>1
    <3>2. CASE ~(new.at <= low.at)
      <4>1. \A m \in all \cup {new} : low.at <= m.at
        BY <1>1, <2>1, <2>3, <3>2
      <4>. QED
        BY <2>1, <2>3, <4>1
    <3>. QED
      BY <3>1, <3>2
  <2>6. \E l \in all \cup {new} : \A m \in all \cup {new} : m.at <= l.at
    <3>1. CASE high.at <= new.at
      <4>1. \A m \in all \cup {new} : m.at <= new.at
        BY <1>1, <2>2, <2>3, <3>1
      <4>. QED
        BY <4>1
    <3>2. CASE ~(high.at <= new.at)
      <4>1. \A m \in all \cup {new} : m.at <= high.at
        BY <1>1, <2>2, <2>3, <3>2
      <4>. QED
        BY <2>2, <2>3, <4>1
    <3>. QED
      BY <3>1, <3>2
  <2>. QED
    BY <2>4, <2>5, <2>6 DEF Bounded
<1>. QED
  BY <1>3, <1>4, <1>5, <1>6

LEMMA InsertLogInv ==
    ASSUME ClockInv, NEW c \in Taps, InsertLog(c)
    PROVE  ClockInv'
<1>1. taps[c].pc = "log" /\ UNCHANGED <<now, daily, scans, jobs>>
  BY DEF InsertLog, At
<1>2. /\ UnderWay(c) /\ TapInv(c) /\ taps[c].day \in Days
      /\ taps[c].at \in Instants /\ taps[c].at \in Int
      /\ taps[c].type \in EventTypes /\ ~Refused(c)
  BY <1>1, UnderWayTap, ClockAssumption
<1>3. CopyInv(c) /\ RowShows(c)
  BY <1>1, <1>2 DEF UnderWay
<1>4. /\ SameRequest(taps'[c], taps[c])
      /\ taps'[c].pc = "scan" /\ taps'[c].copy = taps[c].copy /\ taps'[c].answer = "none"
      /\ taps' \in [Taps -> Tap]
      /\ \A d \in Taps \ {c} : taps'[d] = taps[d]
  BY <1>1, Going DEF InsertLog
<1>5. PICK new : new = [tap |-> c, type |-> taps[c].type, day |-> taps[c].day,
                        at |-> taps[c].at]
  OBVIOUS
<1>6. logs' = logs \cup {new} /\ new \in LogRow
  BY <1>2, <1>5 DEF InsertLog, LogRow
<1>7. TypeOK'
  <2>1. \A l \in logs' : daily'[l.day] # NoRow
    BY <1>1, <1>3, <1>5, <1>6 DEF CopyInv, ClockInv, TypeOK
  <2>. QED
    BY <1>1, <1>4, <1>6, <2>1 DEF ClockInv, TypeOK
<1>8. Onward
  <2>1. \A d \in Taps : SameTap(d)
    BY <1>1, <1>4, AllSameTap DEF LaterPcs
  <2>. QED
    BY <1>1, <1>6, <2>1 DEF Onward, SameDay
<1>9. LogInv(new)'
  BY <1>2, <1>4, <1>5 DEF LogInv, SameRequest, Refused
<1>10. TapInv(c)'
  <2>1. SameTap(c) /\ Logged(c)'
    BY <1>4, <1>5, <1>6 DEF SameTap, SameRequest, Logged, Refused, LaterPcs
  <2>2. CopyInv(c)' /\ RowShows(c)'
    BY <1>2, <1>3, <1>4, <1>8, <2>1, CopyStays, RowShowsStays DEF SameRequest, CopyInv
  <2>3. UnderWay(c)'
    BY <1>2, <1>4, <2>1, <2>2 DEF UnderWay, SameRequest
  <2>. QED
    BY <1>2, <1>4, <2>1, <2>3 DEF TapInv, SameRequest
<1>11. ASSUME NEW day \in Days
       PROVE  DayInv(day)'
  <2>0. DayInv(day)
    BY DEF ClockInv
  <2>1. daily[day] # NoRow => RowExplained(day)'
    BY <1>1, <1>6, <1>8, <2>0, ExplainedStays DEF DayInv, RowExplained
  <2>2. LogsShow(day)'
    BY <1>1, <1>3, <1>5, <1>6, <2>0 DEF DayInv, LogsShow, RowShows
  <2>3. \A type \in EventTypes : Bounded(day, type)'
    BY <1>2, <1>5, <1>6, BoundedGrows
  <2>. QED
    BY <1>1, <2>0, <2>1, <2>2, <2>3 DEF DayInv
<1>. QED
  BY <1>1, <1>4, <1>6, <1>7, <1>8, <1>9, <1>10, <1>11, StepOfOneTap

LEMMA DispatchScanInv ==
    ASSUME ClockInv, NEW c \in Taps, DispatchScan(c)
    PROVE  ClockInv'
<1>1. /\ taps[c].pc = "scan" /\ UNCHANGED <<now, daily, logs, jobs>>
      /\ scans' = scans \cup {c}
  BY DEF DispatchScan, At
<1>2. UnderWay(c) /\ TapInv(c) /\ taps[c].day \in Days
  BY <1>1, UnderWayTap
<1>3. CopyInv(c) /\ RowShows(c) /\ Logged(c)
  BY <1>1, <1>2 DEF UnderWay
<1>4. /\ SameRequest(taps'[c], taps[c])
      /\ \/ /\ taps'[c].pc = "aggregate" /\ taps'[c].copy = taps[c].copy
            /\ taps'[c].answer = "none"
         \/ /\ taps'[c].pc = "done" /\ taps'[c].answer = "200" /\ ~taps[c].copy.shift
      /\ taps' \in [Taps -> Tap]
      /\ \A d \in Taps \ {c} : taps'[d] = taps[d]
  <2>1. CASE Goes(c, "aggregate")
    BY <1>1, <2>1, Going
  <2>2. CASE Ends(c, "200") /\ ~taps[c].copy.shift
    BY <1>1, <2>2, Ending
  <2>. QED
    BY <2>1, <2>2 DEF DispatchScan
<1>5. TypeOK'
  BY <1>1, <1>4 DEF ClockInv, TypeOK
<1>6. Onward
  <2>1. \A d \in Taps : SameTap(d)
    BY <1>1, <1>4, AllSameTap DEF LaterPcs
  <2>. QED
    BY <1>1, <2>1 DEF Onward, SameDay
<1>7. TapInv(c)'
  <2>1. SameTap(c) /\ Logged(c)'
    BY <1>1, <1>2, <1>3, <1>4, <1>6, LoggedStays, UnderWayTap DEF Onward
  <2>2. CASE taps'[c].pc = "aggregate" /\ taps'[c].copy = taps[c].copy
             /\ taps'[c].answer = "none"
    <3>1. CopyInv(c)' /\ RowShows(c)'
      BY <1>2, <1>3, <1>4, <1>6, <2>1, <2>2, CopyStays, RowShowsStays DEF SameRequest, CopyInv
    <3>2. UnderWay(c)'
      BY <1>1, <1>2, <1>4, <2>1, <2>2, <3>1 DEF UnderWay, SameRequest
    <3>. QED
      BY <1>2, <1>4, <2>1, <2>2, <3>2 DEF TapInv, SameRequest
  <2>3. CASE taps'[c].pc = "done" /\ taps'[c].answer = "200" /\ ~taps[c].copy.shift
    <3>1. Complete(c)'
      BY <1>1, <1>2, <1>3, <1>4, <2>1, <2>3 DEF Complete, CopyInv, SameRequest
    <3>. QED
      BY <1>2, <1>4, <2>1, <2>3, <3>1 DEF TapInv, SameRequest
  <2>. QED
    BY <1>4, <2>2, <2>3
<1>8. \A day \in Days : DayInv(day)'
  BY <1>1, <1>6, OtherDay
<1>. QED
  BY <1>1, <1>4, <1>5, <1>6, <1>7, <1>8, StepOfOneTap

LEMMA DispatchAggregateInv ==
    ASSUME ClockInv, NEW c \in Taps, DispatchAggregate(c)
    PROVE  ClockInv'
<1>1. taps[c].pc = "aggregate" /\ UNCHANGED <<now, daily, logs, scans>> /\ Goes(c, "note")
  BY DEF DispatchAggregate, At
<1>2. UnderWay(c) /\ TapInv(c) /\ taps[c] \in Tap
  BY <1>1, UnderWayTap
<1>3. CopyInv(c) /\ RowShows(c) /\ Logged(c) /\ c \in scans
  BY <1>1, <1>2 DEF UnderWay
<1>4. /\ SameRequest(taps'[c], taps[c])
      /\ taps'[c].pc = "note" /\ taps'[c].copy = taps[c].copy /\ taps'[c].answer = "none"
      /\ taps' \in [Taps -> Tap]
      /\ \A d \in Taps \ {c} : taps'[d] = taps[d]
  BY <1>1, Going
<1>5. PICK day \in Days : day = taps[c].day
  BY <1>1, UnderWayTap
<1>6. PICK due : due = Later(taps[c].close, now)
  OBVIOUS
<1>7. due \in Int
  <2>1. taps[c].close \in Int /\ now \in Int
    BY <1>2, ClockAssumption DEF Tap, ClockInv, TypeOK
  <2>. QED
    BY <1>6, <2>1 DEF Later
<1>8. \/ /\ jobs[day].pc = "none"
         /\ jobs' = [jobs EXCEPT ![day] = [pc |-> "delayed", due |-> due]]
      \/ jobs[day].pc # "none" /\ jobs' = jobs
  BY <1>5, <1>6 DEF DispatchAggregate
<1>9. /\ jobs' \in [Days -> Job] /\ jobs'[day].pc # "none"
      /\ jobs'[day].pc = "completed" <=> jobs[day].pc = "completed"
      /\ \A other \in Days \ {day} : jobs'[other] = jobs[other]
  <2>1. jobs \in [Days -> Job]
    BY DEF ClockInv, TypeOK
  <2>2. CASE jobs' = [jobs EXCEPT ![day] = [pc |-> "delayed", due |-> due]]
             /\ jobs[day].pc = "none"
    <3>1. [pc |-> "delayed", due |-> due] \in Job
      BY <1>7 DEF Job
    <3>2. jobs'[day] = [pc |-> "delayed", due |-> due]
      BY <2>1, <2>2
    <3>. QED
      BY <2>1, <2>2, <3>1, <3>2
  <2>3. CASE jobs' = jobs /\ jobs[day].pc # "none"
    BY <2>1, <2>3
  <2>. QED
    BY <1>8, <2>2, <2>3
<1>10. TypeOK'
  BY <1>1, <1>4, <1>9 DEF ClockInv, TypeOK
<1>11. Onward
  <2>1. \A d \in Taps : SameTap(d)
    BY <1>1, <1>4, AllSameTap DEF LaterPcs
  <2>2. SameDay(day)
    BY <1>1, <1>9 DEF SameDay
  <2>3. \A other \in Days \ {day} : SameDay(other)
    BY <1>1, <1>9 DEF SameDay
  <2>. QED
    BY <1>1, <2>1, <2>2, <2>3 DEF Onward
<1>12. TapInv(c)'
  <2>1. SameTap(c) /\ Logged(c)'
    BY <1>1, <1>3, <1>11, LoggedStays DEF Onward
  <2>2. CopyInv(c)' /\ RowShows(c)'
    BY <1>3, <1>4, <1>5, <1>11, <2>1, CopyStays, RowShowsStays DEF SameRequest, CopyInv
  <2>3. jobs'[taps'[c].day].pc # "none"
    BY <1>4, <1>5, <1>9 DEF SameRequest
  <2>4. UnderWay(c)'
    BY <1>1, <1>2, <1>3, <1>4, <2>1, <2>2, <2>3 DEF UnderWay, SameRequest
  <2>. QED
    BY <1>2, <1>4, <2>1, <2>4 DEF TapInv, SameRequest
<1>13. DayInv(day)'
  <2>0. DayInv(day)
    BY DEF ClockInv
  <2>1. RowExplained(day)'
    BY <1>1, <1>3, <1>5, <1>11, <2>0, ExplainedStays DEF DayInv, RowExplained, CopyInv
  <2>2. LogsShow(day)'
    BY <1>1, <1>9, <2>0 DEF DayInv, LogsShow
  <2>3. \A type \in EventTypes : Bounded(day, type)'
    BY <1>1, <2>0 DEF DayInv, Bounded, LogsOf
  <2>. QED
    BY <1>1, <1>3, <1>5, <2>1, <2>2, <2>3 DEF DayInv, CopyInv
<1>14. \A other \in Days : DayInv(other)'
  <2>1. ASSUME NEW other \in Days, other # day
        PROVE  DayInv(other)'
    BY <1>1, <1>9, <1>11, <2>1, OtherDay
  <2>. QED
    BY <1>13, <2>1
<1>. QED
  BY <1>1, <1>4, <1>10, <1>11, <1>12, <1>14, StepOfOneTap

LEMMA NoteJobInv ==
    ASSUME ClockInv, NEW c \in Taps, NoteJob(c)
    PROVE  ClockInv'
<1>1. taps[c].pc = "note" /\ UNCHANGED <<now, logs, scans, jobs>> /\ Ends(c, "200")
  BY DEF NoteJob, At
<1>2. UnderWay(c) /\ TapInv(c)
  BY <1>1, UnderWayTap
<1>3. PICK day \in Days : day = taps[c].day
  BY <1>1, UnderWayTap
<1>4. /\ CopyInv(c) /\ Logged(c) /\ c \in scans /\ jobs[day].pc # "none"
      /\ DayInv(day)
  BY <1>1, <1>2, <1>3 DEF UnderWay, ClockInv
<1>5. /\ SameRequest(taps'[c], taps[c])
      /\ taps'[c].pc = "done" /\ taps'[c].answer = "200"
      /\ taps' \in [Taps -> Tap]
      /\ \A d \in Taps \ {c} : taps'[d] = taps[d]
  BY <1>1, Ending
<1>6. PICK old : old = daily[day]
  OBVIOUS
<1>7. PICK copy \in Row : copy = taps[c].copy
  BY <1>4 DEF CopyInv
<1>8. PICK row : row = [old EXCEPT !.job = TRUE, !.entry = copy.entry, !.flagged = copy.flagged]
  OBVIOUS
<1>9. old \in Row /\ old # NoRow
  BY <1>3, <1>4, <1>6 DEF CopyInv, ClockInv, TypeOK
<1>10. /\ row \in Row /\ row.shift = old.shift /\ row.first = old.first
       /\ row.last = old.last /\ row.entry = copy.entry /\ row.summary = old.summary
  BY <1>8, <1>9 DEF Row
<1>11. daily' = [daily EXCEPT ![day] = row]
  BY <1>3, <1>6, <1>7, <1>8 DEF NoteJob
<1>12. /\ daily' \in [Days -> Row \cup {NoRow}]
       /\ daily'[day] = row /\ row # NoRow
       /\ \A other \in Days \ {day} : daily'[other] = daily[other]
  <2>1. daily \in [Days -> Row \cup {NoRow}]
    BY DEF ClockInv, TypeOK
  <2>2. row \in Row /\ row # NoRow
    BY <1>10, ClockAssumption
  <2>. QED
    BY <2>1, <2>2, <1>11
<1>13. TypeOK'
  <2>1. \A l \in logs : l.day \in Days /\ daily[l.day] # NoRow
    BY DEF ClockInv, TypeOK, LogRow
  <2>2. \A l \in logs' : daily'[l.day] # NoRow
    BY <2>1, <1>1, <1>5, <1>12
  <2>. QED
    BY <2>2, <1>1, <1>5, <1>12 DEF ClockInv, TypeOK
<1>14. SameDay(day)
  BY <1>1, <1>6, <1>10, <1>12 DEF SameDay
<1>15. Onward
  <2>1. \A d \in Taps : SameTap(d)
    BY <1>1, <1>5, AllSameTap DEF LaterPcs
  <2>2. \A other \in Days \ {day} : SameDay(other)
    BY <1>1, <1>12 DEF SameDay
  <2>. QED
    BY <1>1, <1>14, <2>1, <2>2 DEF Onward
<1>16. TapInv(c)'
  <2>1. Logged(c)'
    BY <1>4, <1>15, LoggedStays
  <2>2. Complete(c)'
    BY <1>1, <1>3, <1>4, <1>5, <1>12, <2>1 DEF Complete, SameRequest
  <2>. QED
    BY <1>2, <1>5, <2>1, <2>2 DEF TapInv, SameRequest
<1>17. DayInv(day)'
  <2>1. EntryExplained(day, copy.entry)'
    <3>1. PICK entry : entry = copy.entry
      OBVIOUS
    <3>2. EntryExplained(day, entry)
      BY <1>3, <1>4, <1>7, <3>1 DEF CopyInv
    <3>3. EntryExplained(day, entry)'
      BY <1>15, <3>2, ExplainedStays
    <3>. QED
      BY <3>1, <3>3
  <2>2. FirstExplained(day, old.first)' /\ LastExplained(day, old.last)'
    <3>1. PICK first, last : first = old.first /\ last = old.last
      OBVIOUS
    <3>2. FirstExplained(day, first) /\ LastExplained(day, last)
      BY <1>4, <1>6, <1>9, <3>1 DEF DayInv, RowExplained
    <3>3. FirstExplained(day, first)' /\ LastExplained(day, last)'
      BY <1>15, <3>2, ExplainedStays
    <3>. QED
      BY <3>1, <3>3
  <2>3. RowExplained(day)'
    BY <1>1, <1>4, <1>6, <1>9, <1>10, <1>12, <2>1, <2>2 DEF RowExplained, DayInv
  <2>4. LogsShow(day)'
    BY <1>1, <1>4, <1>6, <1>10, <1>12 DEF DayInv, LogsShow
  <2>5. \A type \in EventTypes : Bounded(day, type)'
    BY <1>1, <1>4 DEF DayInv, Bounded, LogsOf
  <2>. QED
    BY <1>12, <2>3, <2>4, <2>5 DEF DayInv
<1>18. \A other \in Days : DayInv(other)'
  <2>1. ASSUME NEW other \in Days, other # day
        PROVE  DayInv(other)'
    BY <1>1, <1>12, <1>15, <2>1, OtherDay
  <2>. QED
    BY <1>17, <2>1
<1>. QED
  BY <1>1, <1>5, <1>13, <1>15, <1>16, <1>18, StepOfOneTap

LEMMA StepInv ==
    ASSUME ClockInv, NEW c \in Taps, Step(c)
    PROVE  ClockInv'
<1>1. CASE FindDaily(c)
  BY <1>1, FindDailyInv
<1>2. CASE Upsert(c)
  BY <1>2, UpsertInv
<1>3. CASE InsertLog(c)
  BY <1>3, InsertLogInv
<1>4. CASE DispatchScan(c)
  BY <1>4, DispatchScanInv
<1>5. CASE DispatchAggregate(c)
  BY <1>5, DispatchAggregateInv
<1>6. CASE NoteJob(c)
  BY <1>6, NoteJobInv
<1>7. CASE Fail(c)
  BY <1>7, FailKeeps DEF Fail
<1>. QED
  BY <1>1, <1>2, <1>3, <1>4, <1>5, <1>6, <1>7 DEF Step

-----------------------------------------------------------------------------
(* Time and the worker.                                                    *)

LEMMA TickInv ==
    ASSUME ClockInv, Tick
    PROVE  ClockInv'
<1>1. now' \in Instants /\ UNCHANGED <<daily, logs, scans, jobs, taps>>
  BY DEF Tick
<1>2. TypeOK'
  BY <1>1 DEF ClockInv, TypeOK
<1>3. Onward
  BY <1>1 DEF Onward, SameDay, SameTap, Refused
<1>4. \A c \in Taps : TapInv(c)'
  BY <1>1, <1>3, OtherTap
<1>5. \A day \in Days : DayInv(day)'
  BY <1>1, <1>3, OtherDay
<1>6. \A l \in logs' : LogInv(l)'
  BY <1>1, <1>3, LogStays
<1>. QED
  BY <1>2, <1>4, <1>5, <1>6 DEF ClockInv

\* What the worker writes: the time of a log row of the day.
LEMMA EarliestIsLogged ==
    ASSUME ClockInv, NEW day \in Days, NEW type \in EventTypes
    PROVE  \/ Earliest(LogsOf(day, type)) = NoTime
           \/ \E l \in LogsOf(day, type) : Earliest(LogsOf(day, type)) = l.at
<1>1. Bounded(day, type)
  BY DEF ClockInv, DayInv
<1>. QED
  BY <1>1 DEF Bounded, Earliest

LEMMA LatestIsLogged ==
    ASSUME ClockInv, NEW day \in Days, NEW type \in EventTypes
    PROVE  \/ Latest(LogsOf(day, type)) = NoTime
           \/ \E l \in LogsOf(day, type) : Latest(LogsOf(day, type)) = l.at
<1>1. Bounded(day, type)
  BY DEF ClockInv, DayInv
<1>. QED
  BY <1>1 DEF Bounded, Latest

LEMMA LoggedTime ==
    ASSUME ClockInv, NEW day \in Days, NEW type \in EventTypes, NEW l \in LogsOf(day, type)
    PROVE  l.at \in Instants /\ Tapped(day, type, l.at)
<1>1. l \in logs /\ l.day = day /\ l.type = type
  BY DEF LogsOf
<1>2. l.tap \in Taps /\ l.at \in Instants /\ LogInv(l)
  BY <1>1 DEF ClockInv, TypeOK, LogRow
<1>. QED
  BY <1>1, <1>2 DEF LogInv, Refused, Tapped, CameFrom

LEMMA AggregateInv ==
    ASSUME ClockInv, NEW day \in Days, Aggregate(day)
    PROVE  ClockInv'
<1>0. /\ jobs[day].pc = "delayed" /\ UNCHANGED <<now, logs, scans, taps>>
      /\ DayInv(day)
  BY DEF Aggregate, ClockInv
<1>1. PICK old : old = daily[day]
  OBVIOUS
<1>2. old \in Row /\ old # NoRow
  BY <1>0, <1>1 DEF DayInv, ClockInv, TypeOK
<1>3. PICK first : /\ first = Earliest(LogsOf(day, "clock_in"))
                   /\ first \in Instants \cup {NoTime} /\ FirstExplained(day, first)
  BY EarliestIsLogged, LoggedTime DEF EventTypes, FirstExplained
<1>4. PICK last : /\ last = Latest(LogsOf(day, "clock_out"))
                  /\ last \in Instants \cup {NoTime} /\ LastExplained(day, last)
  BY LatestIsLogged, LoggedTime DEF EventTypes, LastExplained
<1>5. PICK summary : summary = {l.tap : l \in {m \in logs : m.day = day}}
  OBVIOUS
<1>6. summary \subseteq Taps
  BY <1>5 DEF ClockInv, TypeOK, LogRow
<1>7. PICK row : row = [old EXCEPT !.first = first, !.last = last, !.job = FALSE,
                                   !.flagged = TRUE, !.summary = summary]
  OBVIOUS
<1>8. /\ row \in Row /\ row.shift = old.shift /\ row.first = first /\ row.last = last
      /\ row.entry = old.entry /\ row.summary = summary
  BY <1>2, <1>3, <1>4, <1>6, <1>7 DEF Row
<1>9. daily' = [daily EXCEPT ![day] = row]
  BY <1>1, <1>3, <1>4, <1>5, <1>7 DEF Aggregate
<1>10. /\ daily' \in [Days -> Row \cup {NoRow}]
       /\ daily'[day] = row /\ row # NoRow
       /\ \A other \in Days \ {day} : daily'[other] = daily[other]
  <2>1. daily \in [Days -> Row \cup {NoRow}]
    BY DEF ClockInv, TypeOK
  <2>2. row \in Row /\ row # NoRow
    BY <1>8, ClockAssumption
  <2>. QED
    BY <2>1, <2>2, <1>9
<1>11. PICK job : job = [jobs[day] EXCEPT !.pc = "completed"]
  OBVIOUS
<1>12. /\ jobs' \in [Days -> Job] /\ jobs'[day].pc = "completed"
       /\ \A other \in Days \ {day} : jobs'[other] = jobs[other]
  <2>1. jobs \in [Days -> Job] /\ jobs[day] \in Job
    BY DEF ClockInv, TypeOK
  <2>2. job \in Job /\ job.pc = "completed"
    BY <1>11, <2>1 DEF Job
  <2>3. jobs' = [jobs EXCEPT ![day] = job]
    BY <1>11 DEF Aggregate
  <2>. QED
    BY <2>1, <2>2, <2>3
<1>13. TypeOK'
  <2>1. \A l \in logs : l.day \in Days /\ daily[l.day] # NoRow
    BY DEF ClockInv, TypeOK, LogRow
  <2>2. \A l \in logs' : daily'[l.day] # NoRow
    BY <2>1, <1>0, <1>10, <1>12
  <2>. QED
    BY <2>2, <1>0, <1>10, <1>12 DEF ClockInv, TypeOK
<1>14. Onward
  <2>1. \A d \in Taps : SameTap(d)
    BY <1>0 DEF SameTap, Refused
  <2>2. SameDay(day)
    BY <1>0, <1>1, <1>8, <1>10, <1>12 DEF SameDay
  <2>3. \A other \in Days \ {day} : SameDay(other)
    BY <1>10, <1>12 DEF SameDay
  <2>. QED
    BY <1>0, <2>1, <2>2, <2>3 DEF Onward
<1>15. DayInv(day)'
  <2>1. FirstExplained(day, first)' /\ LastExplained(day, last)'
    BY <1>3, <1>4, <1>14, ExplainedStays
  <2>2. EntryExplained(day, old.entry)'
    <3>1. PICK entry : entry = old.entry
      OBVIOUS
    <3>2. EntryExplained(day, entry)
      BY <1>0, <1>1, <1>2, <3>1 DEF DayInv, RowExplained
    <3>3. EntryExplained(day, entry)'
      BY <1>14, <3>2, ExplainedStays
    <3>. QED
      BY <3>1, <3>3
  <2>3. \A c \in summary : \E l \in logs : l.tap = c /\ l.day = day
    BY <1>5
  <2>4. RowExplained(day)'
    BY <1>0, <1>8, <1>10, <2>1, <2>2, <2>3 DEF RowExplained
  <2>5. LogsShow(day)'
    BY <1>12 DEF LogsShow
  <2>6. \A type \in EventTypes : Bounded(day, type)'
    BY <1>0 DEF DayInv, Bounded, LogsOf
  <2>. QED
    BY <1>10, <2>4, <2>5, <2>6 DEF DayInv
<1>16. \A other \in Days : DayInv(other)'
  <2>1. ASSUME NEW other \in Days, other # day
        PROVE  DayInv(other)'
    BY <1>0, <1>10, <1>12, <1>14, <2>1, OtherDay
  <2>. QED
    BY <1>15, <2>1
<1>17. \A c \in Taps : TapInv(c)'
  BY <1>0, <1>14, OtherTap
<1>18. \A l \in logs' : LogInv(l)'
  BY <1>0, <1>14, LogStays
<1>. QED
  BY <1>13, <1>16, <1>17, <1>18 DEF ClockInv

-----------------------------------------------------------------------------
(* The theorems.                                                           *)

LEMMA InitInv ==
    ASSUME Init
    PROVE  ClockInv
<1>. DEFINE none == [pc |-> "none", due |-> 0]
<1>1. \A day \in Days : jobs[day] = none /\ none \in Job
  BY DEF Init, Job
<1>2. IdleTap \in Tap /\ IdleTap.pc = "idle" /\ IdleTap.day = NoTime
      /\ IdleTap.answer = "none" /\ IdleTap.entry = NoEntry
  BY DEF IdleTap, Tap, EventTypes
<1>3. \A c \in Taps : taps[c] = IdleTap
  BY DEF Init
<1>4. TypeOK
  BY <1>1, <1>2, ClockAssumption DEF Init, TypeOK
<1>5. ASSUME NEW day \in Days
      PROVE  DayInv(day)
  <2>1. daily[day] # NoRow => daily[day] \in ImportedRows
    BY DEF Init
  <2>2. daily[day] # NoRow => RowExplained(day)
    BY <2>1, ClockAssumption
       DEF RowExplained, FirstExplained, LastExplained, EntryExplained
  <2>3. LogsShow(day) /\ \A type \in EventTypes : Bounded(day, type)
    BY DEF Init, LogsShow, Bounded, LogsOf
  <2>. QED
    BY <1>1, <2>2, <2>3 DEF DayInv
<1>6. \A c \in Taps : TapInv(c)
  BY <1>2, <1>3 DEF Init, TapInv
<1>. QED
  BY <1>4, <1>5, <1>6 DEF Init, ClockInv

LEMMA NextInv ==
    ASSUME ClockInv, [Next]_vars
    PROVE  ClockInv'
<1>1. CASE \E c \in Taps : \E type \in EventTypes, point \in Points \cup {NoPoint} :
              Begin(c, type, point)
  BY <1>1, BeginInv
<1>2. CASE \E c \in Taps : Step(c)
  BY <1>2, StepInv
<1>3. CASE Tick
  BY <1>3, TickInv
<1>4. CASE \E day \in Days : Aggregate(day)
  BY <1>4, AggregateInv
<1>5. CASE UNCHANGED vars
  <2>1. UNCHANGED <<now, daily, logs, scans, jobs, taps>>
    BY <1>5 DEF vars
  <2>2. TypeOK' /\ Onward
    BY <2>1 DEF ClockInv, TypeOK, Onward, SameDay, SameTap, Refused
  <2>. QED
    BY <2>1, <2>2, OtherTap, OtherDay, LogStays DEF ClockInv
<1>. QED
  BY <1>1, <1>2, <1>3, <1>4, <1>5 DEF Next

\* The invariant of the pipeline: what each tap under way has done so far, and
\* that no row, log, scan or job is ever taken back.
THEOREM ClockInvariant == Spec => []ClockInv
<1>1. Init => ClockInv
  BY InitInv
<1>2. ClockInv /\ [Next]_vars => ClockInv'
  BY NextInv
<1>. QED
  BY <1>1, <1>2, PTL DEF Spec

\* Every variable of the pipeline stays in its type.
THEOREM TypeCorrect == Spec => []TypeOK
<1>1. ClockInv => TypeOK
  BY DEF ClockInv
<1>. QED
  BY <1>1, ClockInvariant, PTL

\* Whatever races and whatever fails: a tap that was answered with success is
\* in the log, has its scan, and has a job for its day; one that was refused
\* has left nothing.
THEOREM AnsweredAlwaysComplete == Spec => []AnsweredTapsAreComplete
<1>1. ASSUME ClockInv
      PROVE  AnsweredTapsAreComplete
  <2>1. ASSUME NEW c \in Taps, taps[c].answer \in {"404", "422"}
        PROVE  ~Logged(c)
    BY <1>1, <2>1 DEF ClockInv, Logged, LogInv, Refused
  <2>. QED
    BY <1>1, <2>1 DEF AnsweredTapsAreComplete, ClockInv, TapInv, Complete
<1>. QED
  BY <1>1, ClockInvariant, PTL

\* Whatever races and whatever fails: every daily row is explained by the taps
\* of its day, or by what was imported, and shows every logged tap.
THEOREM DailyAlwaysExplained == Spec => []DailyExplained
<1>1. ClockInv => DailyExplained
  BY DEF ClockInv, DayInv, RowExplained, FirstExplained, LastExplained,
         EntryExplained, DailyExplained
<1>. QED
  BY <1>1, ClockInvariant, PTL

\* Of two steps that write a row: one takes the time and the flag of a copy,
\* the other the flag of a copy; the worker moves the job.
LEMMA RowsWritten ==
    ASSUME ClockInv, Next, NEW day \in Days, daily[day] # NoRow,
           jobs[day].pc = jobs'[day].pc
    PROVE  \/ daily'[day] = daily[day]
           \/ \E c \in Taps :
                 /\ taps[c].day = day /\ taps[c].copy \in CopiesOf(day)
                 /\ \/ daily'[day].first = daily[day].first
                    \/ taps[c].copy.first = NoTime
                 /\ daily'[day].flagged = taps[c].copy.flagged
<1>0. daily \in [Days -> Row \cup {NoRow}] /\ jobs \in [Days -> Job]
  BY DEF ClockInv, TypeOK
<1>1. PICK old \in Row : old = daily[day]
  BY <1>0
<1>2. ASSUME NEW c \in Taps, Upsert(c), daily'[day] # daily[day]
      PROVE  /\ taps[c].day = day /\ taps[c].copy \in CopiesOf(day)
             /\ \/ daily'[day].first = daily[day].first
                \/ taps[c].copy.first = NoTime
             /\ daily'[day].flagged = taps[c].copy.flagged
  <2>. DEFINE tap == taps[c]
              row == IF tap.copy = NoRow THEN NewRow(tap) ELSE Updated(daily[tap.day], tap)
  <2>1. /\ tap.copy = NoRow => daily[tap.day] = NoRow
        /\ daily' = [daily EXCEPT ![tap.day] = row]
    BY <1>2 DEF Upsert
  <2>2. tap.pc = "upsert"
    BY <1>2 DEF Upsert, At
  <2>3. tap.day = day /\ daily'[day] = row
    BY <1>0, <1>2, <2>1
  <2>4. tap.copy # NoRow /\ row = Updated(old, tap)
    BY <1>1, <2>1, <2>3
  <2>5. CopyInv(c)
    BY <2>2, <2>4, UnderWayTap DEF UnderWay
  <2>6. tap.copy \in Row /\ tap.copy \in CopiesOf(day)
    BY <2>3, <2>4, <2>5 DEF CopyInv, CopiesOf
  <2>. DEFINE new == Updated(old, tap)
  <2>7. new = [old EXCEPT
                  !.first   = IF tap.type = "clock_in" /\ tap.copy.first = NoTime
                              THEN tap.at ELSE @,
                  !.last    = IF tap.type = "clock_out" THEN tap.at ELSE @,
                  !.entry   = IF tap.entry = NoEntry THEN tap.copy.entry ELSE tap.entry,
                  !.job     = tap.copy.job,
                  !.flagged = tap.copy.flagged]
    BY DEF Updated
  <2>. HIDE DEF new, row, tap
  <2>8. /\ new.first = IF tap.type = "clock_in" /\ tap.copy.first = NoTime
                       THEN tap.at ELSE old.first
        /\ new.flagged = tap.copy.flagged
    BY <2>7 DEF Row
  <2>9. row = new
    BY <2>4 DEF new
  <2>. QED
    BY <1>1, <2>3, <2>6, <2>8, <2>9 DEF tap
<1>3. ASSUME NEW c \in Taps, NoteJob(c), daily'[day] # daily[day]
      PROVE  /\ taps[c].day = day /\ taps[c].copy \in CopiesOf(day)
             /\ daily'[day].first = daily[day].first
             /\ daily'[day].flagged = taps[c].copy.flagged
  <2>1. PICK copy : copy = taps[c].copy
    OBVIOUS
  <2>2. PICK new : new = [daily[taps[c].day] EXCEPT !.job = TRUE, !.entry = copy.entry,
                                                    !.flagged = copy.flagged]
    OBVIOUS
  <2>3. daily' = [daily EXCEPT ![taps[c].day] = new] /\ taps[c].pc = "note"
    BY <1>3, <2>1, <2>2 DEF NoteJob, At
  <2>4. taps[c].day = day /\ daily'[day] = new
    BY <1>0, <1>3, <2>3
  <2>5. new.first = old.first /\ new.flagged = copy.flagged
    BY <1>1, <2>2, <2>4 DEF Row
  <2>6. CopyInv(c)
    BY <2>3, UnderWayTap DEF UnderWay
  <2>7. taps[c].copy \in CopiesOf(day)
    BY <2>4, <2>6, ClockAssumption DEF CopyInv, CopiesOf
  <2>. QED
    BY <1>1, <2>1, <2>4, <2>5, <2>7
<1>4. ASSUME NEW other \in Days, Aggregate(other)
      PROVE  daily'[day] = daily[day]
  <2>1. other # day
    <3>1. CASE other = day
      <4>1. jobs[day].pc = "delayed" /\ jobs' = [jobs EXCEPT ![day] = [@ EXCEPT !.pc = "completed"]]
        BY <1>4, <3>1 DEF Aggregate
      <4>2. jobs'[day].pc = "completed"
        BY <1>0, <4>1 DEF Job
      <4>. QED
        BY <4>1, <4>2
    <3>. QED
      BY <3>1
  <2>. QED
    BY <1>0, <1>4, <2>1 DEF Aggregate
<1>5. CASE \E c \in Taps : Step(c)
  BY <1>2, <1>3, <1>5 DEF Step, FindDaily, InsertLog, DispatchScan, DispatchAggregate, Fail
<1>6. CASE UNCHANGED daily
  BY <1>6
<1>. QED
  BY <1>4, <1>5, <1>6 DEF Next, Begin, Tick

\* Whatever races: a first clock-in that is in the row of its day is replaced
\* only by the worker, or by a tap that read the row before it was there.
THEOREM FirstAlwaysKept == Spec => FirstKept
<1>1. ASSUME ClockInv, [Next]_vars
      PROVE  [FirstLostToCopy]_vars
  BY <1>1, RowsWritten DEF FirstLostToCopy
<1>. QED
  BY <1>1, ClockInvariant, PTL DEF Spec, FirstKept

\* Whatever races: the flag of the worker is taken away only by a tap that
\* read the row before it was there.
THEOREM FlagAlwaysKept == Spec => FlagKept
<1>1. ASSUME ClockInv, Next, NEW day \in Days, daily[day] # NoRow,
             daily[day].flagged, ~daily'[day].flagged
      PROVE  \E copy \in CopiesOf(day) : ~copy.flagged
  <2>1. CASE jobs[day].pc = jobs'[day].pc
    BY <1>1, <2>1, RowsWritten
  <2>2. CASE jobs[day].pc # jobs'[day].pc
    <3>1. ASSUME NEW c \in Taps, DispatchAggregate(c)
          PROVE  daily' = daily
      BY <3>1 DEF DispatchAggregate
    <3>2. ASSUME NEW other \in Days, Aggregate(other)
          PROVE  daily'[day].flagged
      <4>1. /\ jobs' = [jobs EXCEPT ![other] = [@ EXCEPT !.pc = "completed"]]
            /\ jobs \in [Days -> Job] /\ daily \in [Days -> Row \cup {NoRow}]
        BY <1>1, <3>2 DEF Aggregate, ClockInv, TypeOK
      <4>2. other = day
        BY <2>2, <4>1
      <4>3. PICK first, last, summary :
               daily' = [daily EXCEPT ![day] = [@ EXCEPT !.first = first, !.last = last,
                            !.job = FALSE, !.flagged = TRUE, !.summary = summary]]
        BY <3>2, <4>2 DEF Aggregate
      <4>4. PICK new : new = [daily[day] EXCEPT !.first = first, !.last = last,
                                 !.job = FALSE, !.flagged = TRUE, !.summary = summary]
        OBVIOUS
      <4>5. daily'[day] = new
        BY <4>1, <4>3, <4>4
      <4>6. daily[day] \in Row
        BY <1>1, <4>1
      <4>7. new.flagged
        BY <4>4, <4>6 DEF Row
      <4>. QED
        BY <4>5, <4>7
    <3>. QED
      BY <1>1, <2>2, <3>1, <3>2
        DEF Next, Begin, Tick, Step, FindDaily, Upsert, InsertLog, DispatchScan, NoteJob, Fail
  <2>. QED
    BY <2>1, <2>2
<1>2. ASSUME ClockInv, [Next]_vars
      PROVE  [FlagLostToCopy]_vars
  BY <1>1, <1>2 DEF FlagLostToCopy
<1>. QED
  BY <1>2, ClockInvariant, PTL DEF Spec, FlagKept
=============================================================================
