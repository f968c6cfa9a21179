------------------------- MODULE OpenSessionProofs -------------------------
(***************************************************************************)
(* Proofs about OpenSession, for all values of the timer and retry         *)
(* constants that satisfy TimerAssumption and RetryAssumption.             *)
(***************************************************************************)
EXTENDS OpenSession, TLAPS

-----------------------------------------------------------------------------
(* The inductive invariant                                                  *)

\* Where a login or a session is in progress.
Talking == {"start", "login", "eap", "udp", "beat"}

\* The capture is open from auth_8021x_Init to ERR1, the socket from
\* auth_UDP_Init to ERR2.
Resources ==
    /\ handle <=> pc \notin {"auth", "main", "exited"}
    /\ sock <=> pc \in Talking

\* times is whole while the loop runs: a FAILURE takes one and ends the loop.
TimesWhole == InLoop /\ resev => times = RecvTimes

\* OverdueIsNoticed, with what the top of a pass adds to it.
Watched ==
    success /\ ~hbDone =>
        /\ needHB
        /\ since <= HbTimeout + PollSecs
        /\ pc = "eap" => since <= HbTimeout

\* Where the buffer last sent from still holds a Logoff.
BufferAt ==
    /\ pc \in {"offWait", "prepare", "start", "main"} => eapBuf = "logoff"
    /\ pc = "offSend" => logoffCnt = 2 \/ eapBuf = "logoff"
    /\ pc \in {"auth", "exited"} => LoggedOff

\* The Starts sent and the waits left add up.
LoginCount ==
    pc = "login" =>
        /\ starts \in Nat \ {0}
        /\ times + starts = RecvTimes + 1
        /\ ~heard
        /\ StartsAlternate

\* "unreach" is still the truth about the last login wherever it is ret.
Unreached ==
    ret = "unreach" =>
        /\ pc \notin Talking
        /\ starts = RecvTimes + 1
        /\ ~heard

IInv ==
    /\ TypeOK
    /\ Resources
    /\ TimesWhole
    /\ NoLeftovers
    /\ Watched
    /\ BufferAt
    /\ LoginCount
    /\ Unreached

-----------------------------------------------------------------------------
(* auth_8021x_Handler                                                       *)

EffectTypes ==
    /\ success' \in BOOLEAN
    /\ needHB' \in BOOLEAN
    /\ hbDone' \in BOOLEAN
    /\ timeNotAllowed' \in BOOLEAN
    /\ forcedOff' \in BOOLEAN

\* What the callers rely on: only a whole times avoids the exit, only EAP
\* success raises success_8021x, and then it starts the watchdog.
Effect(f, t, r) ==
    /\ times' \in 0..RecvTimes
    /\ eapTx' \in EapOut \cup {"none"}
    /\ eapBuf' \in EapOut \cup {"none"}
    /\ udpTx' \in UdpOut \cup {"none"}
    /\ udpTx' # "none" => udpTx' # "beat" /\ success'
    /\ r = "exit" => t = 0
    /\ r = "ok" /\ t = RecvTimes => times' = RecvTimes
    /\ r # "ok" => (success' => success) /\ (hbDone' <=> hbDone)
    /\ f = "success" => needHB'
    /\ f # "success" => /\ success' => success
                        /\ success' => (needHB' <=> needHB)
                        /\ hbDone' <=> hbDone

\* Whatever frame is handled, the handler has the effect its callers rely on.
LEMMA HandlerEffect ==
    ASSUME FlagTypes, DataTypes,
           NEW f \in EapFrame, NEW r \in Results, NEW t \in 0..RecvTimes,
           Handler(f, t, r)
    PROVE  EffectTypes /\ Effect(f, t, r)
<1> USE RetryAssumption
<1> USE DEF FlagTypes, DataTypes, EapFrame, ErrorNotes, EapOut, UdpOut,
            SendEap, NoEap, NoUdp, Silent
<1>1. CASE Reply(f, t, r)
  <2>1. EffectTypes
    BY <1>1 DEF Reply, EffectTypes
  <2>2. Effect(f, t, r)
    BY <1>1 DEF Reply, Effect
  <2> QED
    BY <2>1, <2>2
<1>2. CASE LogOnly(f, t, r)
  <2>1. EffectTypes
    BY <1>2 DEF LogOnly, EffectTypes
  <2>2. Effect(f, t, r)
    BY <1>2 DEF LogOnly, Effect
  <2> QED
    BY <2>1, <2>2
<1>3. CASE Refusal(f, t, r)
  <2>1. EffectTypes
    BY <1>3 DEF Refusal, ToldOffHours, EffectTypes
  <2>2. Effect(f, t, r)
    BY <1>3 DEF Refusal, ToldOffHours, Effect
  <2> QED
    BY <2>1, <2>2
<1>4. CASE Failure(f, t, r)
  <2>1. EffectTypes
    BY <1>4 DEF Failure, EffectTypes
  <2>2. Effect(f, t, r)
    BY <1>4 DEF Failure, Effect
  <2> QED
    BY <2>1, <2>2
<1>5. CASE Granted(f, t, r)
  <2>1. EffectTypes
    BY <1>5 DEF Granted, EffectTypes
  <2>2. Effect(f, t, r)
    BY <1>5 DEF Granted, Effect
  <2> QED
    BY <2>1, <2>2
<1> QED
  BY <1>1, <1>2, <1>3, <1>4, <1>5 DEF Handler

-----------------------------------------------------------------------------
(* The invariant                                                            *)

\* Every step of the client keeps the invariant, whatever it receives.
LEMMA StepKeepsIInv ==
    ASSUME IInv, [Next]_vars
    PROVE  IInv'
<1> USE TimerAssumption, RetryAssumption
<1> USE DEF IInv, TypeOK, FlagTypes, DataTypes, Resources, TimesWhole,
            NoLeftovers, Watched, BufferAt, LoginCount, Unreached
<1> USE DEF Talking, InLoop, LoggedOff, StartsAlternate, Points, EapOut, UdpOut,
            MaxAge, Later, SendEap, NoEap, NoUdp, Silent
<1> USE DEF sessionVars, resourceVars, mainVars, historyVars, outerVars, logoffVars
<1>1. CASE OpenCapture
  <2>1. FlagTypes'
    BY <1>1 DEF OpenCapture, BeginLogoff
  <2>2. DataTypes' /\ Resources' /\ TimesWhole' /\ NoLeftovers' /\ Watched'
          /\ BufferAt' /\ LoginCount' /\ Unreached'
    BY <1>1 DEF OpenCapture, BeginLogoff
  <2> QED
    BY <2>1, <2>2
<1>2. CASE LogoffSend
  <2>1. FlagTypes'
    BY <1>2 DEF LogoffSend
  <2>2. DataTypes' /\ Resources' /\ TimesWhole' /\ NoLeftovers' /\ Watched'
          /\ BufferAt' /\ LoginCount' /\ Unreached'
    BY <1>2 DEF LogoffSend
  <2> QED
    BY <2>1, <2>2
<1>3. CASE LogoffWait
  <2>1. FlagTypes'
    BY <1>3 DEF LogoffWait
  <2>2. DataTypes' /\ Resources' /\ TimesWhole' /\ NoLeftovers' /\ Watched'
          /\ BufferAt' /\ LoginCount' /\ Unreached'
    BY <1>3 DEF LogoffWait
  <2> QED
    BY <2>1, <2>2
<1>4. CASE LogoffDone
  <2>1. FlagTypes'
    BY <1>4 DEF LogoffDone
  <2>2. DataTypes' /\ Resources' /\ TimesWhole' /\ NoLeftovers'
    BY <1>4 DEF LogoffDone
  <2>3. Watched' /\ BufferAt'
    BY <1>4 DEF LogoffDone
  <2>4. LoginCount' /\ Unreached'
    BY <1>4 DEF LogoffDone
  <2> QED
    BY <2>1, <2>2, <2>3, <2>4
<1>5. CASE OpenSocket
  <2>1. FlagTypes'
    BY <1>5 DEF OpenSocket
  <2>2. DataTypes' /\ Resources' /\ TimesWhole' /\ NoLeftovers' /\ Watched'
          /\ BufferAt' /\ LoginCount' /\ Unreached'
    BY <1>5 DEF OpenSocket
  <2> QED
    BY <2>1, <2>2
<1>6. CASE StartLogin
  <2>1. FlagTypes'
    BY <1>6 DEF StartLogin
  <2>2. DataTypes' /\ Resources' /\ TimesWhole' /\ NoLeftovers' /\ Watched'
          /\ BufferAt' /\ LoginCount' /\ Unreached'
    BY <1>6 DEF StartLogin
  <2> QED
    BY <2>1, <2>2
<1>7. CASE LoginTimeout
  <2>1. FlagTypes'
    BY <1>7 DEF LoginTimeout, OtherStart
  <2>2. DataTypes' /\ Resources' /\ TimesWhole' /\ NoLeftovers' /\ Watched'
          /\ BufferAt' /\ LoginCount' /\ Unreached'
    BY <1>7 DEF LoginTimeout, OtherStart
  <2> QED
    BY <2>1, <2>2
<1>8. CASE LoginUnreachable
  <2>1. FlagTypes'
    BY <1>8 DEF LoginUnreachable, LoginFails, BeginLogoff
  <2>2. DataTypes' /\ Resources' /\ TimesWhole' /\ NoLeftovers' /\ Watched'
          /\ BufferAt' /\ LoginCount' /\ Unreached'
    BY <1>8 DEF LoginUnreachable, LoginFails, BeginLogoff
  <2> QED
    BY <2>1, <2>2
<1>9. CASE LoopEnds
  <2>1. FlagTypes'
    BY <1>9 DEF LoopEnds, LeaveLoop, BeginLogoff
  <2>2. DataTypes' /\ Resources' /\ TimesWhole' /\ NoLeftovers' /\ Watched'
          /\ BufferAt' /\ LoginCount' /\ Unreached'
    BY <1>9 DEF LoopEnds, LeaveLoop, BeginLogoff
  <2> QED
    BY <2>1, <2>2
<1>10. CASE LoopQuiet
  <2>1. FlagTypes'
    BY <1>10 DEF LoopQuiet
  <2>2. DataTypes' /\ Resources' /\ TimesWhole' /\ NoLeftovers' /\ Watched'
          /\ BufferAt' /\ LoginCount' /\ Unreached'
    BY <1>10 DEF LoopQuiet
  <2> QED
    BY <2>1, <2>2
<1>11. CASE BeatOverdue
  <2>1. FlagTypes'
    BY <1>11 DEF BeatOverdue, BreakLoop, LeaveLoop, BeginLogoff
  <2>2. DataTypes' /\ Resources' /\ TimesWhole' /\ NoLeftovers' /\ Watched'
          /\ BufferAt' /\ LoginCount' /\ Unreached'
    BY <1>11 DEF BeatOverdue, BreakLoop, LeaveLoop, BeginLogoff
  <2> QED
    BY <2>1, <2>2
<1>12. CASE BeatFails
  <2>1. FlagTypes'
    BY <1>12 DEF BeatFails, BreakLoop, LeaveLoop, BeginLogoff
  <2>2. DataTypes' /\ Resources' /\ TimesWhole' /\ NoLeftovers' /\ Watched'
          /\ BufferAt' /\ LoginCount' /\ Unreached'
    BY <1>12 DEF BeatFails, BreakLoop, LeaveLoop, BeginLogoff
  <2> QED
    BY <2>1, <2>2
<1>13. CASE BeatSent
  <2>1. FlagTypes'
    BY <1>13 DEF BeatSent, BeatDue, Watching, ReplyOverdue
  <2>2. DataTypes' /\ Resources' /\ TimesWhole' /\ NoLeftovers' /\ Watched'
          /\ BufferAt' /\ LoginCount' /\ Unreached'
    BY <1>13 DEF BeatSent, BeatDue, Watching, ReplyOverdue
  <2> QED
    BY <2>1, <2>2
<1>14. CASE NoBeat
  <2>1. FlagTypes'
    BY <1>14 DEF NoBeat, BeatDue, Watching, ReplyOverdue
  <2>2. DataTypes' /\ Resources' /\ TimesWhole' /\ NoLeftovers' /\ Watched'
          /\ BufferAt' /\ LoginCount' /\ Unreached'
    BY <1>14 DEF NoBeat, BeatDue, Watching, ReplyOverdue
  <2> QED
    BY <2>1, <2>2
<1>15. CASE MainRestart
  <2>1. FlagTypes'
    BY <1>15 DEF MainRestart, MainOnly
  <2>2. DataTypes' /\ Resources' /\ TimesWhole' /\ NoLeftovers' /\ Watched'
          /\ BufferAt' /\ LoginCount' /\ Unreached'
    BY <1>15 DEF MainRestart, MainOnly
  <2> QED
    BY <2>1, <2>2
<1>16. CASE MainBackoff
  <2>1. FlagTypes'
    BY <1>16 DEF MainBackoff, MainOnly
  <2>2. DataTypes' /\ Resources' /\ TimesWhole' /\ NoLeftovers' /\ Watched'
          /\ BufferAt' /\ LoginCount' /\ Unreached'
    BY <1>16 DEF MainBackoff, MainOnly
  <2> QED
    BY <2>1, <2>2
<1>17. CASE MainWait
  <2>1. FlagTypes'
    BY <1>17 DEF MainWait, MainOnly, FinalRet
  <2>2. DataTypes' /\ Resources' /\ TimesWhole' /\ NoLeftovers' /\ Watched'
          /\ BufferAt' /\ LoginCount' /\ Unreached'
    BY <1>17 DEF MainWait, MainOnly, FinalRet
  <2> QED
    BY <2>1, <2>2
<1>18. CASE MainExit
  <2>1. FlagTypes'
    BY <1>18 DEF MainExit, MainOnly, FinalRet
  <2>2. DataTypes' /\ Resources' /\ TimesWhole' /\ NoLeftovers' /\ Watched'
          /\ BufferAt' /\ LoginCount' /\ Unreached'
    BY <1>18 DEF MainExit, MainOnly, FinalRet
  <2> QED
    BY <2>1, <2>2
<1>19. CASE \E g \in Datagram : LoopDatagram(g)
  <2>1. FlagTypes'
    BY <1>19 DEF LoopDatagram, DatagramEffect, Answer, Datagram
  <2>2. DataTypes' /\ Resources' /\ TimesWhole' /\ NoLeftovers' /\ Watched'
          /\ BufferAt' /\ LoginCount' /\ Unreached'
    BY <1>19 DEF LoopDatagram, DatagramEffect, Answer, Datagram
  <2> QED
    BY <2>1, <2>2
<1>20. CASE UNCHANGED vars
  <2>1. FlagTypes'
    BY <1>20 DEF vars
  <2>2. DataTypes' /\ Resources' /\ TimesWhole' /\ NoLeftovers' /\ Watched'
          /\ BufferAt' /\ LoginCount' /\ Unreached'
    BY <1>20 DEF vars
  <2> QED
    BY <2>1, <2>2
<1>21. ASSUME NEW f \in EapFrame, LoginFrame(f)
       PROVE  IInv'
  <2> PICK r \in Results :
          /\ Handler(f, RecvTimes, r)
          /\ IF r = "ok"
                THEN pc' = "eap" /\ since' = 0
                     /\ UNCHANGED <<logoffVars, ret, sock>>
                ELSE LoginFails("eproto") /\ UNCHANGED since
    BY <1>21 DEF LoginFrame
  <2>1. EffectTypes /\ Effect(f, RecvTimes, r)
    BY HandlerEffect
  <2>2. FlagTypes'
    BY <1>21, <2>1 DEF LoginFrame, LoginFails, BeginLogoff, EffectTypes
  <2>3. DataTypes'
    <3>1. CASE r = "ok"
      BY <1>21, <2>1, <3>1 DEF LoginFrame, Effect
    <3>2. CASE r # "ok"
      BY <1>21, <2>1, <3>2 DEF LoginFrame, LoginFails, BeginLogoff, Effect
    <3> QED
      BY <3>1, <3>2
  <2>4. Resources'
    BY <1>21, <2>1 DEF LoginFrame, LoginFails, BeginLogoff, Effect
  <2>5. TimesWhole'
    BY <1>21, <2>1 DEF LoginFrame, LoginFails, BeginLogoff, Effect
  <2>6. NoLeftovers'
    BY <1>21, <2>1 DEF LoginFrame, LoginFails, BeginLogoff, Effect
  <2>7. Watched'
    <3>1. ~success
      BY <1>21 DEF LoginFrame
    <3>2. CASE f # "success"
      <4>1. success' => success
        BY <2>1, <3>2 DEF Effect
      <4> QED
        BY <3>1, <4>1
    <3>3. CASE f = "success"
      <4>1. r = "ok" \/ ~success'
        BY <2>1, <3>1 DEF Effect
      <4>2. r = "ok" => since' = 0
        OBVIOUS
      <4> QED
        BY <2>1, <3>3, <4>1, <4>2 DEF Effect
    <3> QED
      BY <3>2, <3>3
  <2>8. BufferAt'
    BY <1>21, <2>1 DEF LoginFrame, LoginFails, BeginLogoff, Effect
  <2>9. LoginCount'
    BY <1>21, <2>1 DEF LoginFrame, LoginFails, BeginLogoff, Effect
  <2>10. Unreached'
    BY <1>21, <2>1 DEF LoginFrame, LoginFails, BeginLogoff, Effect
  <2> QED
    BY <2>2, <2>3, <2>4, <2>5, <2>6, <2>7, <2>8, <2>9, <2>10
<1>22. ASSUME NEW f \in EapFrame, LoopFrame(f)
       PROVE  IInv'
  <2> PICK r \in Results, d \in 0..PollSecs :
          /\ Handler(f, times, r)
          /\ ret' = r
          /\ resev' = (r = "ok")
          /\ since' = IF f = "success" THEN 0 ELSE Later(d)
          /\ pc' = IF r = "exit" THEN "exited" ELSE "udp"
    BY <1>22 DEF LoopFrame
  <2>1. EffectTypes /\ Effect(f, times, r)
    BY HandlerEffect
  <2>2. FlagTypes'
    BY <1>22, <2>1 DEF LoopFrame, EffectTypes
  <2>3. DataTypes'
    BY <1>22, <2>1 DEF LoopFrame, Effect, Results
  <2>4. Resources'
    BY <1>22, <2>1 DEF LoopFrame, Effect, Results
  <2>5. TimesWhole'
    BY <1>22, <2>1 DEF LoopFrame, Effect, Results
  <2>6. NoLeftovers'
    BY <1>22, <2>1 DEF LoopFrame, Effect, Results
  <2>7. Watched'
    <3>1. pc = "eap" /\ pc' # "eap"
      BY <1>22 DEF LoopFrame
    <3>2. CASE f # "success"
      <4>1. success' => success /\ (needHB' <=> needHB) /\ (hbDone' <=> hbDone)
        BY <2>1, <3>2 DEF Effect
      <4>2. since' <= since + PollSecs
        BY <3>2
      <4> QED
        BY <3>1, <4>1, <4>2
    <3>3. CASE f = "success"
      BY <2>1, <3>1, <3>3 DEF Effect
    <3> QED
      BY <3>2, <3>3
  <2>8. BufferAt'
    BY <1>22, <2>1 DEF LoopFrame, Effect, Results
  <2>9. LoginCount'
    BY <1>22, <2>1 DEF LoopFrame, Effect, Results
  <2>10. Unreached'
    BY <1>22, <2>1 DEF LoopFrame, Effect, Results
  <2> QED
    BY <2>2, <2>3, <2>4, <2>5, <2>6, <2>7, <2>8, <2>9, <2>10
<1> QED
  BY <1>1, <1>2, <1>3, <1>4, <1>5, <1>6, <1>7, <1>8, <1>9, <1>10, <1>11,
       <1>12, <1>13, <1>14, <1>15, <1>16, <1>17, <1>18, <1>19, <1>20, <1>21,
       <1>22 DEF Next, EapStep, UdpStep, AuthStep, MainStep, Terminated

\* The invariant holds of a fresh process.
LEMMA InitIInv == Init => IInv
<1> SUFFICES ASSUME Init PROVE IInv
  OBVIOUS
<1> USE RetryAssumption, TimerAssumption DEF Init
<1>1. FlagTypes
  BY DEF FlagTypes
<1>2. DataTypes
  BY DEF DataTypes, Points, EapOut, UdpOut, MaxAge
<1>3. Resources /\ TimesWhole /\ NoLeftovers /\ Watched
  BY DEF Resources, TimesWhole, NoLeftovers, Watched, Talking, InLoop
<1>4. BufferAt /\ LoginCount /\ Unreached
  BY DEF BufferAt, LoginCount, Unreached, LoggedOff
<1> QED
  BY <1>1, <1>2, <1>3, <1>4 DEF IInv, TypeOK

\* The invariant holds in every reachable state.
LEMMA Invariance == Spec => []IInv
<1>1. Init => IInv
  BY InitIInv
<1>2. IInv /\ [Next]_vars => IInv'
  BY StepKeepsIInv
<1> QED
  BY <1>1, <1>2, PTL DEF Spec

-----------------------------------------------------------------------------
(* The theorems                                                             *)

\* Every variable stays within its type.
THEOREM TypeCorrect == Spec => []TypeOK
<1>1. IInv => TypeOK
  BY DEF IInv
<1> QED
  BY <1>1, Invariance, PTL

\* However a session ends, the capture is closed only after a Logoff.
THEOREM IdleIsLoggedOff == Spec => []IdleMeansLoggedOff
<1>1. IInv => IdleMeansLoggedOff
  BY DEF IInv, Resources, BufferAt, IdleMeansLoggedOff, TypeOK, DataTypes,
       Points, LoggedOff
<1> QED
  BY <1>1, Invariance, PTL

\* No frame can make the process end inside Authentication: the "Reconnection
\* failed" exit is unreachable.
THEOREM EndIsInMain == Spec => []EndsInMain
<1>1. IInv => EndsInMain
  BY DEF IInv, Resources, EndsInMain, Talking
<1> QED
  BY <1>1, Invariance, PTL

\* No session inherits an authentication or an unanswered heartbeat.
THEOREM NothingLeftOver == Spec => []NoLeftovers
<1>1. IInv => NoLeftovers
  BY DEF IInv
<1> QED
  BY <1>1, Invariance, PTL

\* An unanswered heartbeat is watched, and found out in bounded time.
THEOREM OverdueNoticed == Spec => []OverdueIsNoticed
<1>1. IInv => OverdueIsNoticed
  BY DEF IInv, Watched, OverdueIsNoticed
<1> QED
  BY <1>1, Invariance, PTL

\* "No Response" is reported only after all Starts went unanswered.
THEOREM UnreachableEarned == Spec => []UnreachableIsEarned
<1>1. IInv => UnreachableIsEarned
  BY DEF IInv, Unreached, UnreachableIsEarned
<1> QED
  BY <1>1, Invariance, PTL

\* The Starts of a login alternate between the group addresses.
THEOREM Alternation == Spec => []StartsAlternate
<1>1. IInv => StartsAlternate
  BY DEF IInv, LoginCount, StartsAlternate
<1> QED
  BY <1>1, Invariance, PTL

\* A login begins only after a Logoff.
THEOREM LogoffFirst == Spec => []LogoffBeforeStart
<1>1. IInv => LogoffBeforeStart
  BY DEF IInv, BufferAt, LogoffBeforeStart
<1> QED
  BY <1>1, Invariance, PTL

\* Nothing leaves by the Dr.com socket unless EAP has succeeded.
THEOREM UdpNeedsSuccess == Spec => UdpOnlyOnline
<1> DEFINE A == udpTx' # "none" => success' /\ sock
<1>1. ASSUME IInv, [Next]_vars
      PROVE  [A]_vars
  <2> USE DEF NoUdp, Silent
  <2>1. CASE AuthStep
    <3>1. pc = "beat" => sock
      BY <1>1 DEF IInv, Resources, Talking
    <3> QED
      BY <2>1, <3>1 DEF AuthStep, OpenCapture, LogoffSend, LogoffWait, LogoffDone,
         OpenSocket, StartLogin, LoginTimeout, LoginUnreachable, LoopEnds,
         LoopQuiet, BeatOverdue, BeatFails, BreakLoop, BeatSent, NoBeat, BeatDue,
         Watching
  <2>2. CASE MainStep
    BY <2>2 DEF MainStep, MainRestart, MainBackoff, MainWait, MainExit, MainOnly
  <2>3. CASE UdpStep
    BY <1>1, <2>3 DEF UdpStep, LoopDatagram, IInv, Resources, Talking
  <2>4. CASE EapStep
    <3>1. PICK f \in EapFrame : LoginFrame(f) \/ LoopFrame(f)
      BY <2>4 DEF EapStep
    <3>2. sock
      BY <1>1, <3>1 DEF LoginFrame, LoopFrame, IInv, Resources, Talking
    <3>3. PICK r \in Results, t \in 0..RecvTimes : Handler(f, t, r)
      BY <1>1, <3>1, RetryAssumption
         DEF LoginFrame, LoopFrame, IInv, TypeOK, DataTypes
    <3>4. Effect(f, t, r)
      BY <1>1, <3>3, HandlerEffect DEF IInv, TypeOK
    <3> QED
      BY <3>2, <3>4 DEF Effect
  <2> QED
    BY <1>1, <2>1, <2>2, <2>3, <2>4 DEF Next, Terminated
<1> QED
  BY <1>1, Invariance, PTL DEF Spec, UdpOnlyOnline

\* A keep-alive is sent only when the one before it was answered, because
\* the timeout is below the delay.
THEOREM BeatsAreAnswered == Spec => OneBeatAtATime
<1> DEFINE A == udpTx' = "beat" => hbDone
<1>1. ASSUME IInv, [Next]_vars
      PROVE  [A]_vars
  <2> USE DEF NoUdp, Silent
  <2>1. CASE BeatSent
    BY <1>1, <2>1, TimerAssumption
       DEF BeatSent, BeatDue, ReplyOverdue, IInv, TypeOK, DataTypes, MaxAge
  <2>2. CASE AuthStep /\ ~BeatSent
    BY <2>2 DEF AuthStep, OpenCapture, LogoffSend, LogoffWait, LogoffDone,
       OpenSocket, StartLogin, LoginTimeout, LoginUnreachable, LoopEnds,
       LoopQuiet, BeatOverdue, BeatFails, BreakLoop, NoBeat
  <2>3. CASE MainStep
    BY <2>3 DEF MainStep, MainRestart, MainBackoff, MainWait, MainExit, MainOnly
  <2>4. CASE UdpStep
    BY <2>4 DEF UdpStep, LoopDatagram, Answer
  <2>5. CASE EapStep
    <3>1. PICK f \in EapFrame : LoginFrame(f) \/ LoopFrame(f)
      BY <2>5 DEF EapStep
    <3>2. PICK r \in Results, t \in 0..RecvTimes : Handler(f, t, r)
      BY <1>1, <3>1, RetryAssumption
         DEF LoginFrame, LoopFrame, IInv, TypeOK, DataTypes
    <3>3. Effect(f, t, r)
      BY <1>1, <3>2, HandlerEffect DEF IInv, TypeOK
    <3> QED
      BY <3>3 DEF Effect
  <2> QED
    BY <1>1, <2>1, <2>2, <2>3, <2>4, <2>5 DEF Next, Terminated
<1> QED
  BY <1>1, Invariance, PTL DEF Spec, OneBeatAtATime

-----------------------------------------------------------------------------
(* OpenSession implements Lifecycle: the initial states are initial states  *)
(* of it, and every step from a state of the invariant is a step of it or   *)
(* changes nothing of it.                                                   *)

\* A step that handles no frame is a step of the promise.
LEMMA QuietStepRefines ==
    ASSUME IInv, AuthStep \/ MainStep \/ UdpStep
    PROVE  Promise!LifeNext
<1> USE DEF IInv, TypeOK, FlagTypes, DataTypes, Resources, NoLeftovers, BufferAt
<1> USE DEF Talking, InLoop, LoggedOff, Points, EapOut, UdpOut,
            SendEap, NoEap, NoUdp, Silent
<1> USE DEF sessionVars, resourceVars, mainVars, historyVars, outerVars, logoffVars
<1> USE DEF Phase, Word, Udp
<1>1. CASE OpenCapture
  <2>1. Promise!Open
    BY <1>1
       DEF OpenCapture, BeginLogoff, Promise!Open, Promise!Goes
  <2> QED
    BY <2>1 DEF Promise!LifeNext
<1>2. CASE LogoffSend
  <2>1. Promise!SayLogoff
    BY <1>2
       DEF LogoffSend, Promise!SayLogoff, Promise!Says
  <2> QED
    BY <2>1 DEF Promise!LifeNext
<1>3. CASE LogoffWait
  <2>1. Promise!Rest
    BY <1>3
       DEF LogoffWait, Promise!Rest
  <2> QED
    BY <2>1 DEF Promise!LifeNext
<1>4. CASE LogoffDone
  <2>1. Word = "logoff" /\ Word' = Word /\ Udp' = "none"
    BY <1>4 DEF LogoffDone
  <2>2. CASE site = "open"
    <3>1. Phase = "clearing" /\ Phase' \in {"ready", "idle"}
      BY <1>4, <2>2 DEF LogoffDone
    <3>2. Promise!Cleared
      BY <2>1, <3>1 DEF Promise!Cleared, Promise!Goes
    <3> QED
      BY <3>2 DEF Promise!LifeNext
  <2>3. CASE site = "close"
    <3>1. Phase = "parting" /\ Phase' = "idle"
      BY <1>4, <2>3 DEF LogoffDone
    <3>2. Promise!Parted
      BY <2>1, <3>1 DEF Promise!Parted, Promise!Goes
    <3> QED
      BY <3>2 DEF Promise!LifeNext
  <2> QED
    BY <2>2, <2>3
<1>5. CASE OpenSocket
  <2>1. Promise!Rest \/ Promise!Abandon
    BY <1>5
       DEF OpenSocket, Promise!Rest, Promise!Abandon, Promise!Goes
  <2> QED
    BY <2>1 DEF Promise!LifeNext
<1>6. CASE StartLogin
  <2>1. Promise!Begin
    BY <1>6
       DEF StartLogin, Promise!Begin, Promise!Says
  <2> QED
    BY <2>1 DEF Promise!LifeNext
<1>7. CASE LoginTimeout
  <2>1. Promise!Ask
    BY <1>7
       DEF LoginTimeout, OtherStart, LoginCount, StartsAlternate, Promise!Ask, Promise!Says
  <2> QED
    BY <2>1 DEF Promise!LifeNext
<1>8. CASE LoginUnreachable
  <2>1. Promise!Part
    BY <1>8
       DEF LoginUnreachable, LoginFails, BeginLogoff, Promise!Part, Promise!Goes
  <2> QED
    BY <2>1 DEF Promise!LifeNext
<1>9. CASE LoopEnds
  <2>1. Promise!Part
    BY <1>9
       DEF LoopEnds, LeaveLoop, BeginLogoff, Promise!Part, Promise!Goes
  <2> QED
    BY <2>1 DEF Promise!LifeNext
<1>10. CASE LoopQuiet
  <2>1. Promise!Rest
    BY <1>10
       DEF LoopQuiet, Promise!Rest
  <2> QED
    BY <2>1 DEF Promise!LifeNext
<1>11. CASE BeatOverdue
  <2>1. Promise!Part
    BY <1>11
       DEF BeatOverdue, BreakLoop, LeaveLoop, BeginLogoff, Promise!Part, Promise!Goes
  <2> QED
    BY <2>1 DEF Promise!LifeNext
<1>12. CASE BeatFails
  <2>1. Promise!Part
    BY <1>12
       DEF BeatFails, BreakLoop, LeaveLoop, BeginLogoff, Promise!Part, Promise!Goes
  <2> QED
    BY <2>1 DEF Promise!LifeNext
<1>13. CASE BeatSent
  <2>1. Promise!Beat
    BY <1>13, TimerAssumption
       DEF BeatSent, BeatDue, Watching, ReplyOverdue, MaxAge, Promise!Beat
  <2> QED
    BY <2>1 DEF Promise!LifeNext
<1>14. CASE NoBeat
  <2>1. Promise!Rest
    BY <1>14
       DEF NoBeat, Promise!Rest
  <2> QED
    BY <2>1 DEF Promise!LifeNext
<1>15. CASE MainRestart
  <2>1. Promise!Rest
    BY <1>15
       DEF MainRestart, MainOnly, Promise!Rest
  <2> QED
    BY <2>1 DEF Promise!LifeNext
<1>16. CASE MainBackoff
  <2>1. Promise!Rest
    BY <1>16
       DEF MainBackoff, MainOnly, Promise!Rest
  <2> QED
    BY <2>1 DEF Promise!LifeNext
<1>17. CASE MainWait
  <2>1. Promise!Rest \/ Promise!End
    BY <1>17
       DEF MainWait, MainOnly, Promise!Rest, Promise!End, Promise!Goes
  <2> QED
    BY <2>1 DEF Promise!LifeNext
<1>18. CASE MainExit
  <2>1. Promise!End
    BY <1>18
       DEF MainExit, MainOnly, Promise!End, Promise!Goes
  <2> QED
    BY <2>1 DEF Promise!LifeNext
<1>19. ASSUME NEW g \in Datagram, LoopDatagram(g)
       PROVE  Promise!LifeNext
  <2>1. Phase' = Phase /\ Word' = Word
    BY <1>19 DEF LoopDatagram
  <2>2. CASE success
    <3>1. Phase = "online"
      BY <1>19, <2>2 DEF LoopDatagram
    <3>2. Udp' \in {"none", "chat"}
      BY <1>19 DEF LoopDatagram, Answer
    <3>3. hbDone' \in {hbDone, TRUE}
      BY <1>19 DEF LoopDatagram, DatagramEffect
    <3>4. Promise!Converse
      BY <2>1, <3>1, <3>2, <3>3 DEF Promise!Converse
    <3> QED
      BY <3>4 DEF Promise!LifeNext
  <2>3. CASE ~success
    <3>1. Phase # "online"
      BY <1>19, <2>3 DEF LoopDatagram
    <3>2. Udp' = "none"
      BY <1>19, <2>3 DEF LoopDatagram
    <3>3. Promise!Rest
      BY <2>1, <3>1, <3>2 DEF Promise!Rest
    <3> QED
      BY <3>3 DEF Promise!LifeNext
  <2> QED
    BY <2>2, <2>3
<1> QED
  BY <1>1, <1>2, <1>3, <1>4, <1>5, <1>6, <1>7, <1>8, <1>9, <1>10, <1>11,
     <1>12, <1>13, <1>14, <1>15, <1>16, <1>17, <1>18, <1>19
     DEF AuthStep, MainStep, UdpStep

\* What handling a frame is to the promise, before the caller looks at the
\* value returned: an answer, the grant, the loss of the session, or nothing.
LEMMA HandlerMeans ==
    ASSUME FlagTypes, DataTypes,
           NEW f \in EapFrame, NEW r \in Results, NEW t \in 0..RecvTimes,
           Handler(f, t, r)
    PROVE  \/ /\ r = "ok"
              /\ Word' = "response" /\ Udp' = "none"
              /\ success' = success /\ hbDone' = hbDone
           \/ /\ r = "ok"
              /\ Word' = Word /\ Udp' = "open"
              /\ success' = TRUE /\ hbDone' = FALSE
           \/ /\ r = "ok"
              /\ Word' = Word /\ Udp' = "none"
              /\ success' = success /\ hbDone' = hbDone
           \/ /\ r # "ok"
              /\ Word' = Word /\ Udp' = "none"
              /\ success' \in {success, FALSE} /\ hbDone' = hbDone
<1> USE DEF FlagTypes, DataTypes, SendEap, NoEap, NoUdp, Silent, Word, Udp
<1>1. CASE Reply(f, t, r)
  BY <1>1 DEF Reply
<1>2. CASE LogOnly(f, t, r)
  BY <1>2 DEF LogOnly
<1>3. CASE Refusal(f, t, r)
  BY <1>3 DEF Refusal
<1>4. CASE Failure(f, t, r)
  BY <1>4 DEF Failure
<1>5. CASE Granted(f, t, r)
  BY <1>5 DEF Granted
<1> QED
  BY <1>1, <1>2, <1>3, <1>4, <1>5 DEF Handler

\* The first frame of a login is a step of the promise.
LEMMA LoginFrameRefines ==
    ASSUME IInv, NEW f \in EapFrame, LoginFrame(f)
    PROVE  Promise!LifeNext
<1> USE DEF IInv, TypeOK, FlagTypes, DataTypes, NoLeftovers, Points, InLoop
<1> PICK r \in Results :
        /\ Handler(f, RecvTimes, r)
        /\ IF r = "ok"
              THEN pc' = "eap" /\ since' = 0
                   /\ UNCHANGED <<logoffVars, ret, sock>>
              ELSE LoginFails("eproto") /\ UNCHANGED since
  BY DEF LoginFrame
<1>1. Phase = "joining" /\ ~success /\ resev'
  BY DEF LoginFrame, Phase
<1>2. r # "ok" => Phase' = "parting"
  BY DEF LoginFails, BeginLogoff, Phase
<1>3. r = "ok" => Phase' = IF success' THEN "online" ELSE "joining"
  BY <1>1 DEF Phase
<1>4. RecvTimes \in 0..RecvTimes
  BY RetryAssumption
<1>5. \/ /\ r = "ok"
         /\ Word' = "response" /\ Udp' = "none"
         /\ success' = success
      \/ /\ r = "ok"
         /\ Word' = Word /\ Udp' = "open"
         /\ success' = TRUE /\ hbDone' = FALSE
      \/ /\ Word' = Word /\ Udp' = "none"
         /\ r = "ok" => success' = success
  BY <1>4, HandlerMeans
<1>6. Promise!Respond \/ Promise!Grant \/ Promise!Rest \/ Promise!Part
  BY <1>1, <1>2, <1>3, <1>5
     DEF Promise!Respond, Promise!Says, Promise!Grant, Promise!Rest,
         Promise!Part, Promise!Goes
<1> QED
  BY <1>6 DEF Promise!LifeNext

\* So is every later frame.  times is whole, so none of them ends the process.
LEMMA LoopFrameRefines ==
    ASSUME IInv, NEW f \in EapFrame, LoopFrame(f)
    PROVE  Promise!LifeNext
<1> USE DEF IInv, TypeOK, FlagTypes, DataTypes, Points, InLoop
<1> PICK r \in Results :
        /\ Handler(f, times, r)
        /\ resev' = (r = "ok")
        /\ pc' = IF r = "exit" THEN "exited" ELSE "udp"
  BY DEF LoopFrame
<1>1. r # "exit"
  BY HandlerEffect, RetryAssumption DEF LoopFrame, TimesWhole, Effect
<1>2. Phase = IF success THEN "online" ELSE "joining"
  BY DEF LoopFrame, Phase
<1>3. Phase' = IF success' THEN "online"
               ELSE IF r = "ok" THEN "joining" ELSE "leaving"
  BY <1>1 DEF Phase
<1>4. Promise!Respond \/ Promise!Grant \/ Promise!Rest \/ Promise!Lose
  BY <1>2, <1>3, HandlerMeans
     DEF Promise!Respond, Promise!Says, Promise!Grant, Promise!Rest,
         Promise!Lose, Promise!Goes
<1> QED
  BY <1>4 DEF Promise!LifeNext

\* Whatever the networks do, the client keeps to its Lifecycle.
THEOREM Refinement == Spec => KeepsPromise
<1>1. Init => Promise!LifeInit
  BY DEF Init, Promise!LifeInit, Phase, Word, Udp
<1>2. IInv /\ [Next]_vars => [Promise!LifeNext]_Promise!lifeVars
  <2> SUFFICES ASSUME IInv, [Next]_vars
               PROVE  [Promise!LifeNext]_Promise!lifeVars
    OBVIOUS
  <2>1. CASE UNCHANGED vars
    BY <2>1 DEF vars, logoffVars, sessionVars, resourceVars, outerVars,
       mainVars, historyVars, Phase, Word, Udp, Promise!lifeVars
  <2>2. CASE EapStep
    BY <2>2, LoginFrameRefines, LoopFrameRefines DEF EapStep
  <2>3. CASE AuthStep \/ MainStep \/ UdpStep
    BY <2>3, QuietStepRefines
  <2> QED
    BY <2>1, <2>2, <2>3 DEF Next, Terminated
<1> QED
  BY <1>1, <1>2, Invariance, PTL DEF Spec, KeepsPromise, Promise!LifeSpec

=============================================================================
