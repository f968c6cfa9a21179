--------------------------- MODULE NetTimeProofs ---------------------------
(***************************************************************************)
(* The safety of the --net-time wait for every time the user may give and  *)
(* every closing hours that fit it.  Proved about module NetTime: the      *)
(* inductive invariant says where the clock stands in every mode.          *)
(***************************************************************************)
EXTENDS NetTime, TLAPS

\* While the client waits, its wake-up time is fixed but for the hook.
IInv ==
    /\ TypeOK
    /\ mode = "hook" => left >= 1
    /\ mode \in {"hook", "asleep"} /\ Target + late < Day => Now + left = Target + late
    /\ EndsInTheEvening

\* The hook returns before the network closes again, counted from --net-time.
HookInTime == Target + HookMax < Closes

\* A client that was refused once and tries again does so in the open hours.
RefusedOnce ==
    /\ mode \in {"hook", "asleep"} => nights = 1
    /\ mode = "trying" => nights = 0 \/ (nights = 1 /\ ~Closed)
    /\ mode = "online" => nights = 0
    /\ WaitsOnce

\* The clock stays one, and before the last second of the day it counts up.
LEMMA ClockTicks ==
    ASSUME TypeOK, Clock
    PROVE  /\ hour' \in 0..23 /\ min' \in 0..59 /\ sec' \in 0..59
           /\ Now < Day - 1 => Now' = Now + 1
  <1>1. hour \in 0..23 /\ min \in 0..59 /\ sec \in 0..59
    BY DEF TypeOK
  <1>2. CASE sec < 59
    BY <1>1, <1>2 DEF Clock, Now
  <1>3. CASE sec = 59 /\ min < 59
    BY <1>1, <1>3 DEF Clock, Now
  <1>4. CASE sec = 59 /\ min = 59 /\ hour < 23
    BY <1>1, <1>4 DEF Clock, Now
  <1>5. CASE sec = 59 /\ min = 59 /\ hour = 23
    BY <1>1, <1>5 DEF Clock, Now, Day
  <1> QED BY <1>1, <1>2, <1>3, <1>4, <1>5

\* What the proofs use of the constants and of the clock.
LEMMA Numbers ==
    /\ Target \in Nat /\ HookMax \in Nat /\ Opens \in Nat /\ Closes \in Nat
    /\ Opens <= Target /\ Target < Closes /\ Closes <= Day
    /\ Day \in Nat /\ Day >= 1
  <1>1. Day \in Nat /\ Day >= 1
    BY DEF Day
  <1>2. Target \in Nat
    BY ClockAssumption DEF Target
  <1>3. Closes \in Int /\ Target + 1 <= Closes /\ Closes <= Day
    BY <1>1, <1>2, ClockAssumption
  <1> QED BY <1>1, <1>2, <1>3, ClockAssumption

LEMMA TimeOfDay ==
    ASSUME TypeOK
    PROVE  Now \in Nat /\ Now < Day
  <1>1. hour \in Int /\ min \in Int /\ sec \in Int
        /\ 0 <= hour /\ hour <= 23 /\ 0 <= min /\ min <= 59 /\ 0 <= sec /\ sec <= 59
    BY DEF TypeOK
  <1> DEFINE minute == hour * 60 + min
  <1>2. minute \in Nat /\ minute < 24 * 60
    BY <1>1
  <1>3. Now = minute * 60 + sec
    BY DEF Now
  <1> HIDE DEF minute
  <1> QED BY <1>1, <1>2, <1>3 DEF Day

\* In the closed hours the wait is positive and ends at Target, and a time that
\* has passed has passed because it is evening.
LEMMA WaitReachesTarget ==
    ASSUME TypeOK, Closed
    PROVE  /\ Later => WaitSeconds \in 1..(Day - 1) /\ Now + WaitSeconds = Target
           /\ ~Later => Now >= Closes
  <1>1. ASSUME Later PROVE WaitSeconds \in 1..(Day - 1) /\ Now + WaitSeconds = Target
    <2>1. WaitSeconds \in Int /\ Now + WaitSeconds = Target
      <3> DEFINE at == aHour * 60 + aMinute
                 minute == hour * 60 + min
      <3>1. at \in Int /\ minute \in Int /\ sec \in Int
        BY ClockAssumption DEF TypeOK
      <3>2. /\ WaitSeconds = (at - minute) * 60 - sec
            /\ Now = minute * 60 + sec
            /\ Target = at * 60
        BY DEF WaitSeconds, Now, Target
      <3> HIDE DEF at, minute
      <3> QED BY <3>1, <3>2
    <2>2. WaitSeconds >= 1
      <3> DEFINE minutes == (aHour * 60 + aMinute) - (hour * 60 + min)
      <3>1. minutes \in Int /\ minutes >= 1
        BY <1>1, ClockAssumption DEF TypeOK, Later
      <3>2. WaitSeconds = minutes * 60 - sec /\ sec \in 0..59
        BY DEF WaitSeconds, TypeOK
      <3> QED BY <3>1, <3>2
    <2> QED BY <2>1, <2>2, Numbers, TimeOfDay
  <1>2. ASSUME ~Later PROVE Now >= Closes
    <2>1. Now \in Int /\ Now >= Target
      BY <1>2, ClockAssumption DEF TypeOK, Later, Now, Target
    <2> QED BY <2>1, Numbers DEF Closed
  <1> QED BY <1>1, <1>2

LEMMA StepKeepsIInv ==
    ASSUME IInv, [Next]_vars
    PROVE  IInv'
  <1> USE Numbers
  <1>1. CASE Admitted
    <2>1. TypeOK'
      BY <1>1, ClockTicks DEF IInv, TypeOK, Admitted
    <2> QED
      BY <1>1, <2>1 DEF IInv, Admitted, EndsInTheEvening
  <1>2. CASE Refused
    <2>1. /\ Now' = Now /\ late' = 0
          /\ Later => mode' = "hook" /\ left' = WaitSeconds
          /\ ~Later => mode' = "ended" /\ left' = left
      BY <1>2 DEF IInv, TypeOK, Refused, Now
    <2>2. /\ Later => WaitSeconds \in 1..(Day - 1) /\ Now + WaitSeconds = Target
          /\ ~Later => Now >= Closes
      BY <1>2, WaitReachesTarget DEF IInv, Refused
    <2>3. TypeOK'
      BY <1>2, <2>1, <2>2 DEF IInv, TypeOK, Refused
    <2> QED
      BY <2>1, <2>2, <2>3 DEF IInv, EndsInTheEvening
  <1>3. CASE HookRuns
    <2>1. TypeOK'
      BY <1>3, ClockTicks DEF IInv, TypeOK, HookRuns
    <2>2. /\ mode' = "hook" /\ late' = late + 1 /\ left' = left
          /\ left \in Nat /\ left >= 1 /\ late \in Nat
      BY <1>3 DEF IInv, TypeOK, HookRuns
    <2>3. ASSUME Target + late + 1 < Day
          PROVE  Now' + left = Target + late + 1
      <3>1. Now + left = Target + late /\ Now \in Nat
        BY <1>3, <2>2, <2>3, TimeOfDay DEF IInv, HookRuns
      <3>2. Now' = Now + 1
        BY <1>3, <2>2, <2>3, <3>1, ClockTicks DEF IInv, HookRuns
      <3> QED BY <2>2, <3>1, <3>2
    <2> QED
      BY <2>1, <2>2, <2>3 DEF IInv, EndsInTheEvening
  <1>4. CASE HookReturns
    BY <1>4 DEF IInv, TypeOK, HookReturns, Now, EndsInTheEvening
  <1>5. CASE Sleeps
    <2>1. left \in 0..(Day - 1) /\ left > 0 /\ left' = left - 1
      BY <1>5 DEF IInv, TypeOK, Sleeps
    <2>2. TypeOK'
      <3>1. left' \in 0..(Day - 1)
        BY <2>1
      <3> QED BY <1>5, <3>1, ClockTicks DEF IInv, TypeOK, Sleeps
    <2>3. mode' = "asleep" /\ late' = late /\ late \in Nat
      BY <1>5 DEF IInv, TypeOK, Sleeps
    <2>4. ASSUME Target + late < Day
          PROVE  Now' + left' = Target + late
      <3>1. Now + left = Target + late /\ Now \in Nat
        BY <1>5, <2>4, TimeOfDay DEF IInv, Sleeps
      <3>2. Now' = Now + 1
        BY <1>5, <2>1, <2>3, <2>4, <3>1, ClockTicks DEF IInv, Sleeps
      <3> QED BY <2>1, <3>1, <3>2
    <2> QED
      BY <2>2, <2>3, <2>4 DEF IInv, EndsInTheEvening
  <1>6. CASE Wakes
    BY <1>6 DEF IInv, TypeOK, Wakes, EndsInTheEvening
  <1>7. CASE Over \/ UNCHANGED vars
    BY <1>7 DEF Over, vars, IInv, TypeOK, Now, EndsInTheEvening
  <1> QED
    BY <1>1, <1>2, <1>3, <1>4, <1>5, <1>6, <1>7 DEF Next

\* IInv holds in every state of every run.
THEOREM Inductive == Spec => []IInv
  <1>1. Init => IInv
    BY Numbers DEF Init, IInv, TypeOK, EndsInTheEvening
  <1>2. IInv /\ [Next]_vars => IInv'
    BY StepKeepsIInv
  <1> QED BY <1>1, <1>2, PTL DEF Spec

\* Only a client that wakes has to know the hour: it is --net-time and what the
\* hook took, which the network is open at.
LEMMA StepKeepsRefusedOnce ==
    ASSUME HookInTime, IInv, RefusedOnce, [Next]_vars
    PROVE  RefusedOnce'
  <1>1. CASE Refused
    <2>1. nights = 0
      BY <1>1 DEF Refused, RefusedOnce
    <2> QED
      BY <1>1, <2>1 DEF Refused, RefusedOnce, WaitsOnce
  <1>2. CASE Wakes
    <2>1. late \in 0..HookMax /\ left = 0 /\ mode = "asleep"
      BY <1>2 DEF IInv, TypeOK, Wakes
    <2>2. Now = Target + late
      BY <2>1, Numbers, TimeOfDay DEF IInv, HookInTime
    <2>3. Now >= Opens /\ Now < Closes
      BY <2>1, <2>2, Numbers DEF HookInTime
    <2>4. ~Closed'
      BY <1>2, <2>3, Numbers, TimeOfDay DEF Closed, Wakes, Now, IInv
    <2> QED
      BY <1>2, <2>1, <2>4 DEF Wakes, RefusedOnce, WaitsOnce
  <1>3. CASE Admitted \/ HookRuns \/ HookReturns \/ Sleeps
    BY <1>3 DEF Admitted, HookRuns, HookReturns, Sleeps, RefusedOnce, WaitsOnce
  <1>4. CASE Over \/ UNCHANGED vars
    BY <1>4 DEF Over, vars, RefusedOnce, WaitsOnce, Closed, Now
  <1> QED
    BY <1>1, <1>2, <1>3, <1>4 DEF Next

\* The clock fields and the wait stay in range: the value converted to a DWORD
\* is never negative (main.c, the branch of timeNotAllowed in main).
THEOREM WaitInRange == Spec => []TypeOK
  BY Inductive, PTL DEF IInv

\* A client asleep wakes at --net-time plus what the offline hook took, however
\* long it took within the day.
THEOREM WakesAtOpening == Spec => []SleepsTillOpening
  <1>1. IInv => SleepsTillOpening
    BY DEF IInv, SleepsTillOpening
  <1> QED BY <1>1, Inductive, PTL

\* A client that has waited is not refused again before it was online, if the
\* hook (system() in main) returns before the network closes again.
THEOREM OneRefusalPerNight ==
    ASSUME HookInTime
    PROVE  Spec => []WaitsOnce
  <1>1. Init => RefusedOnce
    BY DEF Init, RefusedOnce, WaitsOnce
  <1>2. IInv /\ RefusedOnce /\ [Next]_vars => RefusedOnce'
    BY StepKeepsRefusedOnce
  <1>3. RefusedOnce => WaitsOnce
    BY DEF RefusedOnce
  <1> QED BY <1>1, <1>2, <1>3, Inductive, PTL DEF Spec

\* The client gives up over ErrCode=16 in the evening only.
THEOREM GivesUpInTheEvening == Spec => []EndsInTheEvening
  BY Inductive, PTL DEF IInv

=============================================================================
