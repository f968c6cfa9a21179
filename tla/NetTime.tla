------------------------------ MODULE NetTime ------------------------------
(***************************************************************************)
(* The wait of main() for --net-time, on the clock of the host.  The       *)
(* network admits nobody from Closes to Opens, both in seconds of the day, *)
(* and answers ErrCode=16 instead.  The clock has the fields of struct tm; *)
(* a session is refused at any second of the closed hours, the whole       *)
(* exchange taken as one step, and a Sleep wakes the process at its end.   *)
(* The offline hook runs between the computation of the wait and the       *)
(* Sleep, for at most HookMax seconds.                                     *)
(***************************************************************************)
EXTENDS Integers

CONSTANTS
    aHour, aMinute,  \* --net-time
    Opens, Closes,   \* when the switch admits people again, when it stops to
    HookMax          \* the offline hook returns within so many seconds

Day == 24 * 60 * 60

\* --net-time in seconds of the day.
Target == (aHour * 60 + aMinute) * 60

\* parse_arguments has checked --net-time.  The network is open at the time the
\* user gave, and closes later that day, at midnight at the latest.
ASSUME ClockAssumption ==
    /\ aHour \in 0..23
    /\ aMinute \in 0..59
    /\ Opens \in Nat /\ Opens <= Target
    /\ Closes \in Target + 1 .. Day
    /\ HookMax \in Nat

VARIABLES
    hour, min, sec,  \* what localtime() says
    mode,            \* "trying", "online", "hook", "asleep" or "ended"
    left,            \* wait_seconds, of which the Sleep has so many left
    late,            \* seconds the offline hook has taken
    nights           \* history: refusals since the client was last online

vars == <<hour, min, sec, mode, left, late, nights>>

Now == (hour * 60 + min) * 60 + sec
Closed == Now >= Closes \/ Now < Opens

Init ==
    /\ hour \in 0..23 /\ min \in 0..59 /\ sec \in 0..59
    /\ mode = "trying"
    /\ left = 0
    /\ late = 0
    /\ nights = 0

\* One second later.
Clock ==
    /\ sec' = IF sec = 59 THEN 0 ELSE sec + 1
    /\ min' = IF sec < 59 THEN min ELSE IF min = 59 THEN 0 ELSE min + 1
    /\ hour' = IF sec < 59 \/ min < 59 THEN hour
               ELSE IF hour = 23 THEN 0 ELSE hour + 1

\* A login, or a session, while the network is open.
Admitted ==
    /\ mode \in {"trying", "online"}
    /\ ~Closed
    /\ Clock
    /\ mode' = "online"
    /\ nights' = 0
    /\ UNCHANGED <<left, late>>

\* Mutants of WaitSeconds: the seconds of this minute are slept too; the
\* minutes are not made seconds.
WaitWholeMinutes == ((aHour * 60 + aMinute) - (hour * 60 + min)) * 60
WaitMinutes == (aHour * 60 + aMinute) - (hour * 60 + min)

\* wait_seconds.
WaitSeconds == ((aHour * 60 + aMinute) - (hour * 60 + min)) * 60 - sec

\* Mutants of Later: the minutes of the hour are compared; a time that has
\* passed is waited for too.
LaterByMinute == aMinute > min
AlwaysLater == aMinute < 60

Later == aHour * 60 + aMinute > hour * 60 + min

\* ErrCode=16, and the branch of main() it leads to.
Refused ==
    /\ mode \in {"trying", "online"}
    /\ Closed
    /\ nights' = nights + 1
    /\ late' = 0
    /\ IF Later THEN mode' = "hook" /\ left' = WaitSeconds
                ELSE mode' = "ended" /\ UNCHANGED left
    /\ UNCHANGED <<hour, min, sec>>

\* system(OfflineHookCmd), and its return.
HookRuns ==
    /\ mode = "hook"
    /\ late < HookMax
    /\ late' = late + 1
    /\ Clock
    /\ UNCHANGED <<mode, left, nights>>

HookReturns ==
    /\ mode = "hook"
    /\ mode' = "asleep"
    /\ UNCHANGED <<hour, min, sec, left, late, nights>>

Sleeps ==
    /\ mode = "asleep"
    /\ left > 0
    /\ left' = left - 1
    /\ Clock
    /\ UNCHANGED <<mode, late, nights>>

\* Mutant of Wakes: the loop is left after the Sleep.
WakesToLeave ==
    /\ mode = "asleep"
    /\ left = 0
    /\ mode' = "ended"
    /\ UNCHANGED <<hour, min, sec, left, late, nights>>

Wakes ==
    /\ mode = "asleep"
    /\ left = 0
    /\ mode' = "trying"
    /\ UNCHANGED <<hour, min, sec, left, late, nights>>

Over == mode = "ended" /\ UNCHANGED vars

Next == Admitted \/ Refused \/ HookRuns \/ HookReturns \/ Sleeps \/ Wakes \/ Over

Spec == Init /\ [][Next]_vars /\ WF_vars(Next)

-----------------------------------------------------------------------------

\* The clock is one of localtime(), and what becomes the DWORD wait_seconds is
\* never negative.
TypeOK ==
    /\ hour \in 0..23
    /\ min \in 0..59
    /\ sec \in 0..59
    /\ mode \in {"trying", "online", "hook", "asleep", "ended"}
    /\ left \in 0..(Day - 1)
    /\ late \in 0..HookMax
    /\ nights \in Nat

\* A sleeping client wakes at --net-time, later only by what the offline hook
\* took: wait_seconds was computed before the hook ran, and the seconds of the
\* minute in which the refusal came are not slept twice.  (A hook that makes it
\* wake on another day is left out, as Now begins anew at midnight.)
SleepsTillOpening ==
    mode = "asleep" /\ Target + late < Day => Now + left = Target + late

\* One refusal per night: a client that has waited is admitted, unless the hook
\* has made it wait until the network has closed again.
WaitsOnce == nights <= 1

\* The client ends only if it was refused before midnight, when the time to come
\* is tomorrow's.
EndsInTheEvening == mode = "ended" => Now >= Closes

\* A client that went to sleep is online afterwards.
ComesBack == mode = "asleep" ~> mode = "online"

=============================================================================
