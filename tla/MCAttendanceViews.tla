------------------------- MODULE MCAttendanceViews -------------------------
(***************************************************************************)
(* A small instance of AttendanceViews: Thursday to Saturday, day 6.       *)
(***************************************************************************)
EXTENDS AttendanceViews, TLC

MCPlaces == {}

MCDays == 4..6

LocalInstant(day, hour) == day * DayMins + hour * 60 - TzMins

Office == [start |-> 480, end |-> 1020, overnight |-> FALSE, weekend |-> {0, 6}]
Night == [start |-> 1320, end |-> 360, overnight |-> TRUE, weekend |-> {0}]

\* Office hours until Friday, nights from Saturday on: the tap of Saturday
\* morning at five is the tail of Friday's night.
MCRoster ==
    {[from |-> 5, to |-> 5, shift |-> Office, standard |-> NoPlace, overrides |-> << >>],
     [from |-> 6, to |-> NoExpiry, shift |-> Night, standard |-> NoPlace, overrides |-> << >>]}

MCTrips == << >>

MCInstants == {LocalInstant(5, 8), LocalInstant(5, 16), LocalInstant(6, 5), LocalInstant(6, 10)}

\* One leave into the window, one within it.
MCRequests == {[from |-> 4, to |-> 5, type |-> "ANNUAL"], [from |-> 5, to |-> 6, type |-> "UNPAID"]}

RestDay == [dayType |-> "REST_DAY", shift |-> NoShift, first |-> NoTime, last |-> NoTime,
            work |-> 0, late |-> 0, ot |-> 0]

\* A rest day laid down for the Thursday and nothing for the other days, or
\* nothing at all.
Imported == {[day \in MCDays |-> IF day = 4 THEN RestDay ELSE NoRow]}
MCImports == Imported \cup {[day \in MCDays |-> NoRow]}

MCBreaks == {60}
MCExtras == {15}
MCFeasts == {5}

\* Months of five, two and three days around the dates, and start days within
\* all months, at the end of the short one, and past it.
MCFirstDay == [m \in 0..4 |-> CASE m = 0 -> -3 [] m = 1 -> 2 [] m = 2 -> 4 [] m = 3 -> 7 [] m = 4 -> 12]
MCStartDays == {1, 2, 3}

\* One view per behaviour: an answered one is judged and not continued.
OneView == view.pc \in {"idle", "reading"}

\* At most one tap begins at each instant after the first.
OneTapEach == Cardinality(taps') > Cardinality(taps) => now' > now

\* The run is two, told apart by the import, which is never tapped.  In the one
\* about what the views compute, taps come one at a time and nothing is written
\* while a view reads: the tables are independent.
Computing == daily[4] # NoRow
Quiet == Cardinality(taps') <= 1 /\ (view.pc = "reading" => UNCHANGED <<daily, approved, holidays>>)

\* In the one about what races with the reads, two taps are under way at a time
\* and only the second leave is decided on, the views asked for are on Friday
\* and Saturday, and there is no holiday.
Racing ==
    /\ approved' \subseteq {r \in MCRequests : r.from = 5} /\ holidays' = {}
    /\ view'.pc = "reading" => view'.kind = "window" /\ view'.from >= 5

Bounds == OneTapEach /\ (IF Computing THEN Quiet ELSE Racing)
=============================================================================
