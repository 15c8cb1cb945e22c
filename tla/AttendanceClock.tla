--------------------------- MODULE AttendanceClock ---------------------------
(***************************************************************************)
(* processClockEvent() of AttendanceManagementService: the pipeline a tap   *)
(* of one employee goes through, over attendance_daily, attendance_logs and *)
(* the BullMQ queue, with the aggregation worker that src/ only describes   *)
(* (queues/attendance.queue.ts).                                            *)
(*                                                                         *)
(* A tap is an element of Taps, used once; the pipeline is cut at its round *)
(* trips to the database and to Redis.  The reads of shift_assignments and  *)
(* users, which nothing in src/ writes, are one step with the start.  The   *)
(* pool that is stored with the daily row is always Pools(day), and left    *)
(* out, as are device, address and source of a tap.                         *)
(***************************************************************************)
EXTENDS ShiftWindow

CONSTANTS
    Taps,         \* calls of processClockEvent
    Instants,     \* the minutes at which something may happen
    Arrivals,     \* those at which taps may start, a bound
    Points,       \* GPS points, as sets of the circles around them
    NoPoint,      \* latitude or longitude null
    ImportedRows, \* daily rows that were not written by the pipeline
    NoRow

VARIABLES
    now,          \* the clock
    daily,        \* attendance_daily
    logs,         \* attendance_logs
    scans,        \* taps with an ANTI_FRAUD_SCAN job
    jobs,         \* per day, its DAILY_SUMMARY_AGGREGATE job
    taps          \* the pipelines

vars == <<now, daily, logs, scans, jobs, taps>>

NoTime == -10000

Days == {LocalDay(t) - k : t \in Instants, k \in {0, 1}}

EventTypes == {"clock_in", "clock_out"}

\* entry: currentLocationContext; job: dailySummaryJobId is set; flagged: the
\* payroll-integration flag; summary: the taps the worker has counted.
Row == [shift    : BOOLEAN,
        first    : Instants \cup {NoTime},
        last     : Instants \cup {NoTime},
        entry    : Entry \cup {NoEntry},
        job      : BOOLEAN,
        flagged  : BOOLEAN,
        summary  : SUBSET Taps]

LogRow == [tap : Taps, type : EventTypes, day : Days, at : Instants]

Job == [pc : {"none", "delayed", "completed"}, due : Int]

Tap == [pc     : {"idle", "find", "upsert", "log", "scan", "aggregate", "note", "done"},
        type   : EventTypes,
        point  : Points \cup {NoPoint},
        at     : Instants \cup {NoTime},
        day    : Days \cup {NoTime},
        close  : Int,
        entry  : Entry \cup {NoEntry},
        copy   : Row \cup {NoRow},
        answer : {"none", "200", "404", "422", "500"}]

ASSUME ClockAssumption ==
    /\ NoTime \notin Instants \cup Days
    /\ Instants \subseteq Int /\ Arrivals \subseteq Instants
    /\ NoRow \notin Row
    /\ ImportedRows \subseteq Row
    /\ \A row \in ImportedRows : row.summary = {} /\ ~row.job

IdleTap == [pc |-> "idle", type |-> "clock_in", point |-> NoPoint, at |-> NoTime,
            day |-> NoTime, close |-> 0, entry |-> NoEntry, copy |-> NoRow,
            answer |-> "none"]

At(c, pc) == taps[c].pc = pc

Goes(c, pc) == taps' = [taps EXCEPT ![c] = [@ EXCEPT !.pc = pc]]

Ends(c, code) ==
    taps' = [taps EXCEPT ![c] = [@ EXCEPT !.pc = "done", !.answer = code, !.copy = NoRow]]

-----------------------------------------------------------------------------
(* Steps 1 and 2: the day of the tap, and the geofence check.               *)

Started(c, type, point) == [IdleTap EXCEPT !.type = type, !.point = point, !.at = now]

Begin(c, type, point) ==
    /\ At(c, "idle") /\ now \in Arrivals
    /\ \/ /\ LatestOn(LocalDay(now)) = {}
          /\ taps' = [taps EXCEPT ![c] = [Started(c, type, point) EXCEPT
                         !.pc = "done", !.answer = "404"]]
       \/ \E a \in LatestOn(LocalDay(now)) :
            LET day == ResolvedDay(a.shift, now) IN
            \E pool \in Pools(day) :
              \/ /\ point # NoPoint /\ FirstMatch(point, pool) = NoEntry
                 /\ taps' = [taps EXCEPT ![c] = [Started(c, type, point) EXCEPT
                                !.pc = "done", !.day = day, !.answer = "422"]]
              \/ /\ point # NoPoint => FirstMatch(point, pool) # NoEntry
                 /\ taps' = [taps EXCEPT ![c] = [Started(c, type, point) EXCEPT
                                !.pc = "find", !.day = day,
                                !.close = ShiftClose(day, a.shift),
                                !.entry = IF point = NoPoint THEN NoEntry
                                          ELSE FirstMatch(point, pool)]]
    /\ UNCHANGED <<now, daily, logs, scans, jobs>>

-----------------------------------------------------------------------------
(* Step 3: upsertAttendanceDaily(), a findUnique and then a create or an    *)
(* update that takes the payload from what was found.                       *)

FindDailyIfLocated(c) ==
    /\ At(c, "find")
    /\ taps' = [taps EXCEPT ![c] = [@ EXCEPT
                   !.pc = IF taps[c].point = NoPoint THEN "log" ELSE "upsert",
                   !.copy = daily[taps[c].day]]]
    /\ UNCHANGED <<now, daily, logs, scans, jobs>>

FindDaily(c) ==
    /\ At(c, "find")
    /\ taps' = [taps EXCEPT ![c] = [@ EXCEPT !.pc = "upsert", !.copy = daily[taps[c].day]]]
    /\ UNCHANGED <<now, daily, logs, scans, jobs>>

NewRow(tap) ==
    [shift   |-> TRUE,
     first   |-> IF tap.type = "clock_in" THEN tap.at ELSE NoTime,
     last    |-> IF tap.type = "clock_out" THEN tap.at ELSE NoTime,
     entry   |-> tap.entry,
     job     |-> FALSE,
     flagged |-> FALSE,
     summary |-> {}]

UpdateOfTheCopy(row, tap) ==
    [tap.copy EXCEPT
        !.first = IF tap.type = "clock_in" /\ tap.copy.first = NoTime
                  THEN tap.at ELSE @,
        !.last  = IF tap.type = "clock_out" THEN tap.at ELSE @,
        !.entry = IF tap.entry = NoEntry THEN @ ELSE tap.entry]

UpdateWithNewPayload(row, tap) ==
    [row EXCEPT
        !.first   = IF tap.type = "clock_in" /\ tap.copy.first = NoTime
                    THEN tap.at ELSE @,
        !.last    = IF tap.type = "clock_out" THEN tap.at ELSE @,
        !.entry   = tap.entry,
        !.job     = FALSE,
        !.flagged = FALSE]

UpdateOfEveryClockIn(row, tap) ==
    [row EXCEPT
        !.first   = IF tap.type = "clock_in" THEN tap.at ELSE @,
        !.last    = IF tap.type = "clock_out" THEN tap.at ELSE @,
        !.entry   = IF tap.entry = NoEntry THEN tap.copy.entry ELSE tap.entry,
        !.job     = tap.copy.job,
        !.flagged = tap.copy.flagged]

\* Columns are set one by one, the payload as a whole.
Updated(row, tap) ==
    [row EXCEPT
        !.first   = IF tap.type = "clock_in" /\ tap.copy.first = NoTime
                    THEN tap.at ELSE @,
        !.last    = IF tap.type = "clock_out" THEN tap.at ELSE @,
        !.entry   = IF tap.entry = NoEntry THEN tap.copy.entry ELSE tap.entry,
        !.job     = tap.copy.job,
        !.flagged = tap.copy.flagged]

\* The unique index on (user, date) refuses the later of two racing creates.
Upsert(c) ==
    LET tap == taps[c]
        row == IF tap.copy = NoRow THEN NewRow(tap) ELSE Updated(daily[tap.day], tap)
    IN /\ At(c, "upsert")
       /\ \/ /\ tap.copy = NoRow /\ daily[tap.day] # NoRow
             /\ Ends(c, "500")
             /\ UNCHANGED daily
          \/ /\ tap.copy = NoRow => daily[tap.day] = NoRow
             /\ daily' = [daily EXCEPT ![tap.day] = row]
             /\ taps' = [taps EXCEPT ![c] = [@ EXCEPT !.pc = "log", !.copy = row]]
       /\ UNCHANGED <<now, logs, scans, jobs>>

-----------------------------------------------------------------------------
(* Steps 4 and 5: the log row, the two jobs, and the job id in the payload. *)

InsertLog(c) ==
    /\ At(c, "log")
    /\ logs' = logs \cup {[tap |-> c, type |-> taps[c].type, day |-> taps[c].day,
                           at |-> taps[c].at]}
    /\ Goes(c, "scan")
    /\ UNCHANGED <<now, daily, scans, jobs>>

DispatchScanOfClockIn(c) ==
    /\ At(c, "scan")
    /\ scans' = scans \cup {c}
    /\ IF taps[c].copy.shift /\ taps[c].type = "clock_out"
       THEN Goes(c, "aggregate") ELSE Ends(c, "200")
    /\ UNCHANGED <<now, daily, logs, jobs>>

DispatchScan(c) ==
    /\ At(c, "scan")
    /\ scans' = scans \cup {c}
    /\ IF taps[c].copy.shift THEN Goes(c, "aggregate") ELSE Ends(c, "200")
    /\ UNCHANGED <<now, daily, logs, jobs>>

Later(t, u) == IF t >= u THEN t ELSE u

DispatchAggregateBeforeClose(c) ==
    LET day == taps[c].day IN
    /\ At(c, "aggregate")
    /\ IF jobs[day].pc = "none" /\ taps[c].close > now
       THEN jobs' = [jobs EXCEPT ![day] = [pc |-> "delayed", due |-> taps[c].close]]
       ELSE UNCHANGED jobs
    /\ Goes(c, "note")
    /\ UNCHANGED <<now, daily, logs, scans>>

\* The job id names the day: BullMQ ignores an add whose id it still has,
\* waiting or completed (removeOnComplete keeps the last 100).
DispatchAggregate(c) ==
    LET day == taps[c].day IN
    /\ At(c, "aggregate")
    /\ IF jobs[day].pc = "none"
       THEN jobs' = [jobs EXCEPT ![day] = [pc |-> "delayed", due |-> Later(taps[c].close, now)]]
       ELSE UNCHANGED jobs
    /\ Goes(c, "note")
    /\ UNCHANGED <<now, daily, logs, scans>>

\* The payload written back is the one of step 3.
NoteJob(c) ==
    LET tap == taps[c] IN
    /\ At(c, "note")
    /\ daily' = [daily EXCEPT ![tap.day] = [@ EXCEPT
                    !.job     = TRUE,
                    !.entry   = tap.copy.entry,
                    !.flagged = tap.copy.flagged]]
    /\ Ends(c, "200")
    /\ UNCHANGED <<now, logs, scans, jobs>>

\* A round trip fails, or the process dies.
Fail(c) ==
    /\ taps[c].pc \notin {"idle", "done"}
    /\ Ends(c, "500")
    /\ UNCHANGED <<now, daily, logs, scans, jobs>>

-----------------------------------------------------------------------------
(* Outside src/: time, and the worker as attendance.queue.ts describes it.  *)

Tick == \E t \in Instants : t > now /\ now' = t /\ UNCHANGED <<daily, logs, scans, jobs, taps>>

LogsOf(day, type) == {l \in logs : l.day = day /\ l.type = type}

Earliest(ls) == IF ls = {} THEN NoTime
                ELSE (CHOOSE l \in ls : \A m \in ls : l.at <= m.at).at

Latest(ls) == IF ls = {} THEN NoTime
              ELSE (CHOOSE l \in ls : \A m \in ls : m.at <= l.at).at

Aggregate(day) ==
    /\ jobs[day].pc = "delayed" /\ jobs[day].due <= now
    /\ jobs' = [jobs EXCEPT ![day] = [@ EXCEPT !.pc = "completed"]]
    /\ daily' = [daily EXCEPT ![day] = [@ EXCEPT
                    !.first   = Earliest(LogsOf(day, "clock_in")),
                    !.last    = Latest(LogsOf(day, "clock_out")),
                    !.job     = FALSE,
                    !.flagged = TRUE,
                    !.summary = {l.tap : l \in {m \in logs : m.day = day}}]]
    /\ UNCHANGED <<now, logs, scans, taps>>

-----------------------------------------------------------------------------

Init ==
    /\ now \in Instants /\ \A t \in Instants : now <= t
    /\ daily \in [Days -> ImportedRows \cup {NoRow}]
    /\ logs = {}
    /\ scans = {}
    /\ jobs = [day \in Days |-> [pc |-> "none", due |-> 0]]
    /\ taps = [c \in Taps |-> IdleTap]

Step(c) ==
    \/ FindDaily(c) \/ Upsert(c) \/ InsertLog(c) \/ DispatchScan(c)
    \/ DispatchAggregate(c) \/ NoteJob(c) \/ Fail(c)

Next ==
    \/ \E c \in Taps :
          \/ \E type \in EventTypes, point \in Points \cup {NoPoint} : Begin(c, type, point)
          \/ Step(c)
    \/ Tick
    \/ \E day \in Days : Aggregate(day)

Spec == Init /\ [][Next]_vars

\* Time passes, a call under way is answered, and the worker takes the jobs
\* that are due.
Fairness ==
    /\ WF_vars(Tick)
    /\ \A c \in Taps : WF_vars(Step(c))
    /\ \A day \in Days : WF_vars(Aggregate(day))

FairSpec == Spec /\ Fairness

-----------------------------------------------------------------------------
(* Properties under any interleaving.                                      *)

\* Every variable stays in its type, and a log row always has its daily row.
TypeOK ==
    /\ now \in Instants
    /\ daily \in [Days -> Row \cup {NoRow}]
    /\ logs \subseteq LogRow
    /\ \A l \in logs : daily[l.day] # NoRow
    /\ scans \subseteq Taps
    /\ jobs \in [Days -> Job]
    /\ taps \in [Taps -> Tap]

Logged(c) == \E l \in logs : l.tap = c

\* A tap answered with success has left everything: its log row, its scan,
\* and a job for its day unless the daily row has no shift.  A tap that was
\* refused has left nothing, and no scan is without its log row.
AnsweredTapsAreComplete ==
    \A c \in Taps :
        /\ taps[c].answer = "200" =>
              /\ Logged(c) /\ c \in scans
              /\ daily[taps[c].day].shift => jobs[taps[c].day].pc # "none"
        /\ taps[c].answer \in {"404", "422"} => ~Logged(c)
        /\ c \in scans => Logged(c)

\* Tap c reached its day with this type.
CameFrom(c, day, type) ==
    taps[c].type = type /\ taps[c].day = day /\ taps[c].answer \notin {"404", "422"}

\* A tap of that day and type was at t.
Tapped(day, type, t) ==
    \E c \in Taps : CameFrom(c, day, type) /\ taps[c].at = t

\* A location of the daily row: where a tap of that day was.
Located(day, entry) ==
    \E c \in Taps, type \in EventTypes :
        CameFrom(c, day, type) /\ taps[c].entry = entry /\ entry.place \in taps[c].point

\* Until the worker runs, a logged clock-in (clock-out) is never without a
\* first (last) time in the row of its day.
LogsShow(day) ==
    \A l \in logs : l.day = day /\ jobs[day].pc # "completed" =>
        /\ l.type = "clock_in" => daily[day].first # NoTime
        /\ l.type = "clock_out" => daily[day].last # NoTime

\* Whatever taps race, a daily row is explained by them: its times and its
\* location are those of taps of that day that were accepted, or were imported,
\* no logged tap is missing from it, and the worker has counted only logged
\* taps of that day.
DailyExplained ==
    \A day \in Days :
        LET row == daily[day] IN
        row # NoRow =>
            /\ \/ row.first = NoTime \/ Tapped(day, "clock_in", row.first)
               \/ \E old \in ImportedRows : old.first = row.first
            /\ \/ row.last = NoTime \/ Tapped(day, "clock_out", row.last)
               \/ \E old \in ImportedRows : old.last = row.last
            /\ \/ row.entry = NoEntry \/ Located(day, row.entry)
               \/ \E old \in ImportedRows : old.entry = row.entry
            /\ LogsShow(day)
            /\ \A c \in row.summary : \E l \in logs : l.tap = c /\ l.day = day

Summarised(c) == \E day \in Days : daily[day] # NoRow /\ c \in daily[day].summary

\* The rows of the day as taps under way have read or written them.
CopiesOf(day) == {taps[c].copy : c \in {d \in Taps : taps[d].day = day}} \ {NoRow}

\* The first clock-in of a day stands, unless the worker takes it from the log
\* or a tap under way had read the row before there was one.
FirstLostToCopy ==
    \A day \in Days :
        /\ daily[day] # NoRow /\ daily[day].first # NoTime
        /\ daily'[day].first # daily[day].first
        /\ jobs[day].pc = jobs'[day].pc
        => \E copy \in CopiesOf(day) : copy.first = NoTime

FirstKept == [][FirstLostToCopy]_vars

\* The worker "writes a payroll-integration flag into AttendanceDaily.payload":
\* only a tap that had read the row before the worker wrote it takes it away.
FlagLostToCopy ==
    \A day \in Days :
        daily[day] # NoRow /\ daily[day].flagged /\ ~daily'[day].flagged =>
            \E copy \in CopiesOf(day) : ~copy.flagged

FlagKept == [][FlagLostToCopy]_vars

\* A tap that was answered with success before the worker took the job of its
\* day is in the summary of the day in the end.
AnsweredInTimeIsSummarised ==
    \A c \in Taps :
        /\ taps[c].answer = "200"
        /\ daily[taps[c].day].shift /\ jobs[taps[c].day].pc # "completed"
        ~> Summarised(c)

-----------------------------------------------------------------------------
(* A statement of the repository that the code does not keep.               *)

\* "re-scheduling is safe": every tap answered with success is in the summary
\* of its day in the end.
EveryAnsweredTapIsSummarised ==
    \A c \in Taps :
        taps[c].answer = "200" /\ daily[taps[c].day].shift
        ~> Summarised(c)
=============================================================================
