----------------------------- MODULE ShiftWindow -----------------------------
(***************************************************************************)
(* The pure part of the clock-event pipeline of AttendanceManagementService *)
(* (src/modules/time-management/attendance-management.service.ts): which    *)
(* operational day a tap belongs to, when the shift of that day closes, and *)
(* which allowed location it matches.                                       *)
(*                                                                         *)
(* An instant is a number of UTC minutes; day d is the local calendar date  *)
(* whose number is d, and stands for its UTC midnight, d * DayMins, as the  *)
(* code's Date does.  Everything is about one employee.                     *)
(***************************************************************************)
EXTENDS Integers, Sequences

CONSTANTS
    Roster,       \* the employee's shift_assignments
    Trips,        \* user.payload.businessTrips, a sequence
    Places,       \* geofence circles
    NoPlace,      \* no standardLocation
    NoExpiry,     \* expiryDate null
    NoEntry       \* no match

DayMins == 1440

TzMins == 420     \* OPERATIONAL_TZ_OFFSET_SECS, WIB = UTC+7

LocalDay(t) == (t + TzMins) \div DayMins

LocalTime(t) == (t + TzMins) % DayMins

\* A shift: its local minutes, and its days off, 0 for Sunday.
Shift == [start     : 0..(DayMins - 1),
          end       : 0..(DayMins - 1),
          overnight : BOOLEAN,
          weekend   : SUBSET (0..6)]

Stay == [place : Places, from : Int, to : Int]

Assignment == [from      : Int,
               to        : Int \cup {NoExpiry},
               shift     : Shift,
               standard  : Places \cup {NoPlace},
               overrides : Seq(Stay)]

\* A pool entry: a circle and why it is allowed.
Entry == [place  : Places,
          source : {"standard_schedule", "branch_assignment", "business_trip"}]

ASSUME RosterAssumption ==
    /\ Roster \subseteq Assignment
    /\ Trips \in Seq(Stay)
    /\ NoEntry \notin Entry

ActiveOn(day) ==
    {a \in Roster : a.from <= day /\ (a.to = NoExpiry \/ day <= a.to)}

\* findFirst ... orderBy effectiveDate desc: any of the latest.
LatestOn(day) ==
    {a \in ActiveOn(day) : \A b \in ActiveOn(day) : b.from <= a.from}

\* A tap up to the end of an overnight shift belongs to the day before.
IsTail(shift, t) == shift.overnight /\ LocalTime(t) <= shift.end

ResolvedDay(shift, t) == IF IsTail(shift, t) THEN LocalDay(t) - 1 ELSE LocalDay(t)

\* computeShiftCloseMs(): the local end of the shift counted from the day's
\* UTC midnight.
ShiftClose(day, shift) ==
    day * DayMins + shift.end + (IF shift.overnight THEN DayMins ELSE 0)

PunchUtcTime(t) == t % DayMins

\* utcToLocalDaySeconds(): a tap on the clock the shift is written in.
PunchLocalTime(t) == ((t % DayMins) + TzMins) % DayMins

-----------------------------------------------------------------------------

\* The entries of the stays that hold on the day, each at its place in the list.
Sourced(source, stays, day) ==
    [i \in {j \in DOMAIN stays : stays[j].from <= day /\ day <= stays[j].to} |->
        [place |-> stays[i].place, source |-> source]]

\* buildAllowedLocationsPool(), for one of the assignments the query may find:
\* the standard location, then the overrides, then the trips.
PoolOf(a, day) ==
    <<IF a.standard = NoPlace THEN << >>
      ELSE <<[place |-> a.standard, source |-> "standard_schedule"]>>,
      Sourced("branch_assignment", a.overrides, day),
      Sourced("business_trip", Trips, day)>>

Pools(day) ==
    IF LatestOn(day) = {} THEN {<<Sourced("business_trip", Trips, day)>>}
    ELSE {PoolOf(a, day) : a \in LatestOn(day)}

Hits(point, list) == {i \in DOMAIN list : list[i].place \in point}

Least(positions) == CHOOSE i \in positions : \A j \in positions : i <= j

\* intersectGeofencePool(): the first entry whose circle holds the point; a
\* point is the set of the circles around it.
FirstMatch(point, pool) ==
    LET matching == {k \in DOMAIN pool : Hits(point, pool[k]) # {}}
        list     == pool[Least(matching)]
    IN IF matching = {} THEN NoEntry ELSE list[Least(Hits(point, list))]
=============================================================================
