-------------------------- MODULE MCEmployeeViews --------------------------
(***************************************************************************)
(* A small instance of EmployeeViews: a boss with two people in a unit.     *)
(***************************************************************************)
EXTENDS EmployeeViews

CONSTANTS boss, anna, bert, unit

MCUsers == {boss, anna, bert}
MCUnits == {unit}
MCRankOf == (boss :> 3) @@ (anna :> 1) @@ (bert :> 2)
MCGenderOf == (boss :> "unknown") @@ (anna :> "female") @@ (bert :> "male")

\* A year of three months, and a today in the middle.
MCMonthStart == <<1, 4, 6, 10>>
MCToday == 5

Leave(u, type, from, to, days) ==
    [user |-> u, type |-> type, from |-> from, to |-> to, days |-> days, created |-> from - 1]

\* Over the end of the first month and until today; from before the year; the
\* days after today.
Across == Leave(anna, "ANNUAL", 3, 5, 3)
Early == Leave(anna, "ANNUAL", 0, 1, 2)
Coming1 == Leave(anna, "ANNUAL", 6, 7, 2)
Unpaid == Leave(bert, "UNPAID", 5, 5, 1)
Sick == Leave(anna, "SICK", 5, 6, 2)
MCRequests == {Across, Early, Coming1, Unpaid, Sick}

Plain == [entitled |-> 5, used |-> 1, carried |-> 1, pending |-> 1,
          gender |-> Unset, expires |-> Never, probation |-> FALSE, dontShow |-> Unset, dontList |-> Unset]
Used == [Plain EXCEPT !.used = 4, !.pending = 0]

MCBalances == (boss :> << >>)
    @@ (anna :> (("ANNUAL" :> Plain) @@ ("PATERNITY" :> Plain)))
    @@ (bert :> (("UNPAID" :> Plain) @@ ("ANNUAL" :> [Plain EXCEPT !.expires = 4, !.dontShow = "false"])))

Under(m) == [live |-> TRUE, active |-> TRUE, unit |-> unit, manager |-> m]
Left(m) == [Under(m) EXCEPT !.live = FALSE]
Resting(m) == [Under(m) EXCEPT !.active = FALSE]

Tables(bosss, annas, berts, across, early, later, unpaid, sick) ==
    [users    |-> (boss :> Under(bosss)) @@ (anna :> annas) @@ (bert :> berts),
     status   |-> (Across :> across) @@ (Early :> early) @@ (Coming1 :> later) @@ (Unpaid :> unpaid)
                 @@ (Sick :> sick),
     balances |-> MCBalances, holidays |-> {}]

\* Both under the boss; a line of three with a loop at its end; the unit of one.
MCStarts ==
    {Tables(Nobody, Under(boss), Under(boss), "APPROVED", "APPROVED", "PENDING_APPROVAL", "NONE", "NONE"),
     Tables(anna, Under(boss), Under(anna), "PENDING_APPROVAL", "NONE", "APPROVED_BY_SUPERVISOR", "APPROVED", "APPROVED"),
     Tables(Nobody, Left(boss), Resting(anna), "NONE", "NONE", "NONE", "DRAFT", "NONE")}

MCUserRows == (boss :> {}) @@ (anna :> {Left(boss), Under(Nobody), Resting(boss)}) @@ (bert :> {Under(anna), [Under(boss) EXCEPT !.unit = Nobody]})
MCBalanceRows == {Used}
MCFeasts == {5}

Window(from, to) == [from |-> from, to |-> to]
MCWindows == {Window(MCToday, MCToday), Window(4, 6), Window(6, 5)}
MCPages == {[skip |-> 0, take |-> 2], [skip |-> 1, take |-> 1]}

Percent(p) == Number(p * Grain)
Half(p) == Number(p * Grain + Grain \div 2)
Null == [kind |-> "null", value |-> 0]
Missing == [kind |-> "missing", value |-> 0]
Numeral(p) == [kind |-> "numeral", value |-> p * Grain]
Text == [kind |-> "text", value |-> 0]

Answer(p, q, n) == [positive |-> p, neutral |-> q, negative |-> n, joined |-> NaN]
Percents(p, q, n) == Answer(Percent(p), Percent(q), Percent(n))

\* In order, off by rounding, two ties, nothing, thousandths, less than nothing;
\* fractions at the end of the tolerance; keys that are missing; texts.
MCReplies ==
    {Percents(50, 30, 20), Percents(33, 33, 33), Percents(1, 7, 0), Percents(0, 0, 0),
     Percents(503, 304, 200), Percents(-10, 60, 20), Percents(10, -30, 0),
     Answer(Half(33), Half(33), Percent(35)),
     Answer(Missing, Percent(60), Null), Answer(Percent(60), Percent(60), Missing),
     [Answer(Numeral(50), Numeral(30), Numeral(20)) EXCEPT !.joined = Percent(503020)],
     Answer(Text, Text, Text)}

\* One view per behaviour, asked before anything is written.
OneView == view.code = 0 /\ (view.kind = "none" => changes = 0)
=============================================================================
