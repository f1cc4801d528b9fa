----------------------------- MODULE MCDayWalk -----------------------------
(***************************************************************************)
(* Three weeks for DayWalk: Fridays 4, 11 and 18 (day 0 is a Monday), with *)
(* the calendars that matter: a plain one, one whose expiry is a holiday,  *)
(* ones with holes in front of and on the expiry, and ends of the data.    *)
(***************************************************************************)
EXTENDS DayWalk

Weekdays == {4} \cup 7..11 \cup 14..18

Calendar(holidays, holes, e) ==
    [sessions |-> Weekdays \ holidays, days |-> Weekdays \ (holidays \cup holes), expiries |-> e]

MCCalendars == {
    Calendar({}, {}, {10, 17}),
    Calendar({}, {}, {14, 17}),              \* an expiry beyond the next Friday
    Calendar({10}, {}, {10, 17}),            \* settled on Wednesday
    Calendar({10, 11}, {7}, {10, 17}),       \* the week ends on Wednesday
    Calendar({}, {10}, {10, 17}),            \* the expiry day is missing
    Calendar({10}, {9}, {10, 17}),           \* its settlement day is missing
    Calendar({}, 7..10, {10, 17}),           \* nothing between entry and expiry
    Calendar({}, 15..18, {10, 17}),          \* the data end in the third week
    Calendar({10}, 10..18, {10, 17})}        \* they end on a settlement day

Put(k, px, delta) == [strike |-> k, settle |-> px, delta |-> delta]

MCPutChains == {
    {Put(100, 9, 25), Put(90, 3, 14), Put(80, 1, NoDelta)},
    {Put(100, 11, 30), Put(95, 8, 22), Put(90, 5, 18), Put(85, 2, 11)}}

MCMarks == {
    [short |-> 1, long |-> 1],      \* take profit
    [short |-> 9, long |-> 4],      \* nothing
    [short |-> 16, long |-> 6]}     \* stop
=============================================================================
