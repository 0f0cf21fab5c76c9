----------------------------- MODULE QuietHours -----------------------------
(***************************************************************************)
(* Recipient-local sending windows (packages/core/src/scheduling/          *)
(* quiet-hours.ts) and the two places that ask for one: the enqueueing of  *)
(* a message and the gate of the delivery pass.  Time is counted in slots; *)
(* the recipient's zone changes its offset once, by some slots forward (a  *)
(* gap in the wall clock) or backward (a fold), or never.                  *)
(***************************************************************************)
EXTENDS Integers, FiniteSets, FiniteSetsExt

CONSTANTS
    DayLength,      \* slots of a wall-clock day
    Floor,          \* the tenant's floor <<from, to>>
    Narrowing,      \* the windows a campaign may set; <<>> narrows nothing
    SendDaySets,    \* the sets of weekdays a campaign may set
    Changes,        \* the instants at which a zone may change its offset
    Shifts,         \* by how many slots: forward, backward or not at all
    Horizon,        \* bound: the last instant
    MaxEdits        \* bound: changes of the campaign

Week == 7
SearchDays == 14

ASSUME QuietConstants ==
    /\ DayLength \in Nat \ {0} /\ Horizon \in Nat /\ MaxEdits \in Nat
    /\ Floor[1] \in Nat /\ Floor[2] \in Nat /\ Floor[1] < Floor[2] /\ Floor[2] <= DayLength
    /\ \A w \in Narrowing : w = <<>> \/ (w \in Nat \X Nat /\ w[1] < w[2])
    /\ \A days \in SendDaySets : days \subseteq 0 .. Week - 1 /\ days # {}
    /\ Changes \subseteq Nat
    /\ \A s \in Shifts : s \in Int /\ -DayLength < s /\ s < DayLength

VARIABLES
    clock,       \* the present instant
    change,      \* the instant the zone changes its offset
    shift,       \* by how much: above 0 a gap, below 0 a fold, 0 no change
    window, sendDays,       \* the campaign's send_window and send_days
    mail,        \* the row: its status and scheduled_at or next_eligible_at
    edits,
    judged       \* history: when and under which settings the slot was chosen

quietVars == <<clock, change, shift, window, sendDays, mail, edits, judged>>

Unasked == [at |-> 0, window |-> <<>>, sendDays |-> {}]

QuietInit ==
    /\ clock = 0
    /\ change \in Changes /\ shift \in Shifts
    /\ window \in Narrowing /\ sendDays \in SendDaySets
    /\ mail = [status |-> "none", slot |-> 0]
    /\ edits = 0
    /\ judged = Unasked

-----------------------------------------------------------------------------
(* The zone, as luxon computes with it *)

Offset(t) == IF t < change THEN 0 ELSE shift
WallClock(t) == t + Offset(t)
DayOf(t) == WallClock(t) \div DayLength
MinuteOf(t) == WallClock(t) % DayLength

\* The instant of a wall-clock time, guessed with an offset o: a time inside
\* the gap lands behind it, one inside the fold keeps to the side of o.
FixOffset(wall, o) ==
    LET second == Offset(wall - o)
        third == Offset(wall - second)
    IN  IF o = second THEN wall - o
        ELSE IF second = third THEN wall - second
        ELSE wall - (IF second < third THEN second ELSE third)

\* set({hour, minute}) and startOf('day') on a date that is held as an instant.
AtLocalMinute(t, minute) == FixOffset(DayOf(t) * DayLength + minute, Offset(t))
StartOfDay(t) == AtLocalMinute(t, 0)
NextDay(t) == StartOfDay(FixOffset(WallClock(t) + DayLength, Offset(t)))

-----------------------------------------------------------------------------
(* resolveSendTime *)

Later(a, b) == IF a > b THEN a ELSE b
Sooner(a, b) == IF a < b THEN a ELSE b

\* A campaign may narrow the floor and never widen it.
EffectiveWindow(narrow) ==
    IF narrow = <<>> THEN Floor
    ELSE <<Later(Floor[1], narrow[1]), Sooner(Floor[2], narrow[2])>>
Unsatisfiable(narrow) == EffectiveWindow(narrow)[1] >= EffectiveWindow(narrow)[2]

Inside(minute, narrow) ==
    minute >= EffectiveWindow(narrow)[1] /\ minute < EffectiveWindow(narrow)[2]

\* May the message go out at t?
Permitted(t, narrow, days) == Inside(MinuteOf(t), narrow) /\ DayOf(t) % Week \in days

\* Mutant of Opens: the instant is taken for the minute that was asked for.
OpensUnchecked(t, narrow) == DayOf(AtLocalMinute(t, EffectiveWindow(narrow)[1])) = DayOf(t)

\* Does the window open on the date of t: the gap may swallow it.
Opens(t, narrow) == Inside(MinuteOf(AtLocalMinute(t, EffectiveWindow(narrow)[1])), narrow)

\* Mutant of FirstDay: the search always starts tomorrow.
FirstDayTomorrow(target, narrow, days) == NextDay(target)

\* The date the search starts from: tomorrow when today's window has closed.
FirstDay(target, narrow, days) ==
    IF MinuteOf(target) >= EffectiveWindow(narrow)[2] \/ DayOf(target) % Week \notin days
    THEN NextDay(target) ELSE StartOfDay(target)

\* The dates the search visits.
Dates(target, narrow, days) ==
    LET date[i \in 0 .. SearchDays - 1] ==
            IF i = 0 THEN FirstDay(target, narrow, days) ELSE NextDay(date[i - 1])
    IN  date
\* Mutant of Hits: the search is given up after a week.
HitsWithinAWeek(target, narrow, days) ==
    {i \in 0 .. Week - 1 :
        LET day == Dates(target, narrow, days)[i]
        IN  DayOf(day) % Week \in days /\ Opens(day, narrow)}

\* A date will do if it is a send day and the window opens on it.
Hits(target, narrow, days) ==
    {i \in 0 .. SearchDays - 1 :
        LET day == Dates(target, narrow, days)[i]
        IN  DayOf(day) % Week \in days /\ Opens(day, narrow)}

Throws(target, narrow, days) ==
    Unsatisfiable(narrow)
    \/ (~Permitted(target, narrow, days) /\ Hits(target, narrow, days) = {})

\* The instant resolveSendTime answers with; the target itself is "eligible".
Resolved(target, narrow, days) ==
    IF Permitted(target, narrow, days) THEN target
    ELSE AtLocalMinute(Dates(target, narrow, days)[Min(Hits(target, narrow, days))],
                       EffectiveWindow(narrow)[1])

-----------------------------------------------------------------------------
(* Who asks *)

Judges(target) ==
    judged' = [at |-> target, window |-> window, sendDays |-> sendDays]

\* scheduleMessages: a campaign without a possible slot skips the message.
ScheduleMail(target) ==
    /\ mail.status = "none"
    /\ Judges(target)
    /\ mail' = IF Throws(target, window, sendDays) THEN [mail EXCEPT !.status = "skipped"]
               ELSE [status |-> "pending", slot |-> Resolved(target, window, sendDays)]
    /\ UNCHANGED <<clock, change, shift, window, sendDays, edits>>

\* Mutant of QuietGate: a message that is put off gets a status of its own.
QuietGateDeferred ==
    /\ mail.status = "pending" /\ mail.slot <= clock
    /\ Judges(clock)
    /\ mail' = IF Throws(clock, window, sendDays) THEN [mail EXCEPT !.status = "cancelled"]
               ELSE IF Permitted(clock, window, sendDays) THEN [mail EXCEPT !.status = "sent"]
               ELSE [status |-> "deferred", slot |-> Resolved(clock, window, sendDays)]
    /\ UNCHANGED <<clock, change, shift, window, sendDays, edits>>

\* The gate of the pass that claims the row once it is due.
QuietGate ==
    /\ mail.status = "pending" /\ mail.slot <= clock
    /\ Judges(clock)
    /\ mail' = IF Throws(clock, window, sendDays) THEN [mail EXCEPT !.status = "cancelled"]
               ELSE IF Permitted(clock, window, sendDays) THEN [mail EXCEPT !.status = "sent"]
               ELSE [mail EXCEPT !.slot = Resolved(clock, window, sendDays)]
    /\ UNCHANGED <<clock, change, shift, window, sendDays, edits>>

\* PATCH of the campaign's schedule, also while messages wait.
EditSchedule(narrow, days) ==
    /\ edits < MaxEdits
    /\ edits' = edits + 1
    /\ window' = narrow /\ sendDays' = days
    /\ UNCHANGED <<clock, change, shift, mail, judged>>

\* (bound: while the message waits)
ClockTicks ==
    /\ clock < Horizon /\ mail.status = "pending"
    /\ clock' = clock + 1
    /\ UNCHANGED <<change, shift, window, sendDays, mail, edits, judged>>

QuietNext ==
    \/ \E target \in clock .. clock + 2 * DayLength : ScheduleMail(target)
    \/ QuietGate
    \/ \E narrow \in Narrowing, days \in SendDaySets : EditSchedule(narrow, days)
    \/ ClockTicks

QuietSpec == QuietInit /\ [][QuietNext]_quietVars

-----------------------------------------------------------------------------
QuietTypeOK ==
    /\ clock \in 0 .. Horizon /\ change \in Nat /\ shift \in Shifts
    /\ window \in Narrowing /\ sendDays \in SendDaySets
    /\ mail.status \in {"none", "pending", "sent", "skipped", "cancelled"} /\ mail.slot \in Int
    /\ edits \in 0 .. MaxEdits
    /\ mail.status = "none" <=> judged = Unasked

(***************************************************************************)
(* I5: the instant written to scheduled_at or next_eligible_at lies, by    *)
(* the recipient's own clock, inside the tenant's floor, the campaign's    *)
(* window and its send days, also on the days the clock changes            *)
(* (windowOpeningOn); and so does the instant of a hand-over.              *)
(***************************************************************************)
SlotsArePermitted ==
    /\ mail.status = "pending" => Permitted(mail.slot, judged.window, judged.sendDays)
    /\ mail.status = "sent" => Permitted(judged.at, judged.window, judged.sendDays)

\* The wall-clock days the change of the offset touches.
Disturbed(t) == shift # 0 /\ DayOf(t) \in {DayOf(change), DayOf(change - 1)}

(***************************************************************************)
(* A message is held no longer than it has to be: between the instant that *)
(* was asked for and the one resolveSendTime found there is none at which  *)
(* it might have gone out, and the slot is not in the past; only the day   *)
(* the clock changes may lose slots or answer with one that has passed.    *)
(***************************************************************************)
NoSlotSkipped ==
    mail.status = "pending" =>
        /\ \A t \in judged.at .. mail.slot - 1 :
              Permitted(t, judged.window, judged.sendDays) => Disturbed(t)
        /\ mail.slot < judged.at => Disturbed(judged.at)

(***************************************************************************)
(* A message is given up only for settings under which none could ever be  *)
(* sent: the fortnight of resolveSendTime is enough for every window the   *)
(* floor leaves open, whatever a change of the clock swallows.             *)
(***************************************************************************)
GivenUpForSettings ==
    mail.status \in {"skipped", "cancelled"} => Unsatisfiable(judged.window)
=============================================================================
