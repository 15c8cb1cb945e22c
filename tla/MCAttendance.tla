---------------------------- MODULE MCAttendance ----------------------------
(***************************************************************************)
(* Small instances of AttendanceClock.                                     *)
(***************************************************************************)
EXTENDS AttendanceClock, TLC

CONSTANTS office, branch, site

MCPlaces == {office, branch, site}

\* The UTC minute of a local time of day.
LocalInstant(day, hour) == day * DayMins + hour * 60 - TzMins

\* A morning shift, 04:00 to 12:00: its job is due at 12:00 UTC, 19:00 local,
\* and the day still has taps after that.
Morning == [start |-> 240, end |-> 720, overnight |-> FALSE, weekend |-> {}]

\* A night shift, 22:00 to 06:00.
Night == [start |-> 1320, end |-> 360, overnight |-> TRUE, weekend |-> {}]

\* One assignment, with the office and a branch on day 0.
MorningRoster ==
    {[from |-> 0, to |-> NoExpiry, shift |-> Morning, standard |-> office,
      overrides |-> <<[place |-> branch, from |-> 0, to |-> 0]>>]}

\* Nights from day 1 on, and a trip on day 0 to a site.
NightRoster ==
    {[from |-> 1, to |-> NoExpiry, shift |-> Night, standard |-> office,
      overrides |-> << >>]}

NoTrips == << >>
OneTrip == <<[place |-> site, from |-> 0, to |-> 0]>>

\* Before and after the job of day 0 is due.
MorningInstants == {LocalInstant(0, 8), LocalInstant(0, 20)}

\* Evening of day 0 (no assignment yet), the small hours of day 1, its evening,
\* and the evening of day 2, when the jobs of days 0 and 1 are due.
NightArrivals == {LocalInstant(0, 23), LocalInstant(1, 5), LocalInstant(1, 23)}
NightInstants == NightArrivals \cup {LocalInstant(2, 23)}

\* In the office, where office and branch overlap, and nowhere.
MCPoints == {{office}, {office, branch}, {}}
OnePoint == {{office}}
SitePoint == {{site}}

NoImports == {}
\* A row laid down before the day, without and with its shift: taps that race
\* on it are all updates.
MCImports == {[shift |-> shift, first |-> NoTime, last |-> NoTime, entry |-> NoEntry,
               job |-> FALSE, flagged |-> FALSE, summary |-> {}] : shift \in BOOLEAN}

Symmetry == Permutations(Taps)
=============================================================================
