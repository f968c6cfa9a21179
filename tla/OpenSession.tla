---------------------------- MODULE OpenSession ----------------------------
(***************************************************************************)
(* Session in a network that may deliver any frame or datagram, or none,   *)
(* at any moment: whatever the switch and the Dr.com server do, and        *)
(* whatever is lost, duplicated, delayed or reordered on the way, is among *)
(* its behaviours.  What holds here depends on the client alone.           *)
(***************************************************************************)
EXTENDS Session

EapStep ==
    \E f \in EapFrame : LoginFrame(f) \/ LoopFrame(f)

UdpStep ==
    \E g \in Datagram : LoopDatagram(g)

AuthStep ==
    \/ OpenCapture
    \/ LogoffSend \/ LogoffWait \/ LogoffDone
    \/ OpenSocket
    \/ StartLogin \/ LoginTimeout \/ LoginUnreachable
    \/ LoopEnds \/ LoopQuiet
    \/ BeatOverdue \/ BeatFails \/ BeatSent \/ NoBeat

MainStep ==
    MainRestart \/ MainBackoff \/ MainWait \/ MainExit

\* The process is gone.
Terminated == pc = "exited" /\ UNCHANGED vars

Next == EapStep \/ UdpStep \/ AuthStep \/ MainStep \/ Terminated

Spec == Init /\ [][Next]_vars

-----------------------------------------------------------------------------
(* Types                                                                    *)

FlagTypes ==
    /\ resev \in BOOLEAN
    /\ success \in BOOLEAN
    /\ needHB \in BOOLEAN
    /\ hbDone \in BOOLEAN
    /\ handle \in BOOLEAN
    /\ sock \in BOOLEAN
    /\ timeNotAllowed \in BOOLEAN
    /\ netTime \in BOOLEAN
    /\ heard \in BOOLEAN
    /\ forcedOff \in BOOLEAN

DataTypes ==
    /\ pc \in Points
    /\ site \in {"open", "close"}
    /\ logoffCnt \in 0..2
    /\ ret \in {"ok", "restart", "error", "eproto", "unreach", "exit"}
    /\ times \in 0..RecvTimes
    /\ since \in 0..MaxAge
    /\ retryTime \in 1..(2 * RetryLimit)
    /\ client \in {"login", "logoff"}
    /\ starts \in 0..(RecvTimes + 1)
    /\ eapBuf \in EapOut \cup {"none"}
    /\ eapTx \in EapOut \cup {"none"}
    /\ udpTx \in UdpOut \cup {"none"}

TypeOK == FlagTypes /\ DataTypes

-----------------------------------------------------------------------------
(* Safety                                                                   *)

LoggedOff == eapBuf \in {"none", "logoff"}

\* Whenever the capture is closed, so between two attempts, during a backoff
\* and after the end, the last thing the client told the switch was Logoff,
\* however the session before it ended (ERR2 of Authentication).
IdleMeansLoggedOff == ~handle => LoggedOff

\* The "Reconnection failed" exit of auth_8021x_Handler cannot happen: a
\* refused client returns to main(), which decides, and leaves through Logoff.
EndsInMain == pc = "exited" => ~handle /\ ~sock

\* No session inherits an authentication or an unanswered heartbeat from the
\* one before, although both flags are statics and some exits skip their
\* reset (goto ERR2 at the failed login).
NoLeftovers == ~InLoop => ~success /\ hbDone

\* As long as the client counts as online, an unanswered heartbeat is under
\* the watchdog's eye and found out within its timeout and one pass of the
\* loop, whatever order frames and datagrams arrive in.
OverdueIsNoticed ==
    success /\ ~hbDone => needHB /\ since <= HbTimeout + PollSecs

\* "No Response" is reported only after every Start of the login went
\* unanswered: the first one and one for each of the RecvTimes.
UnreachableIsEarned ==
    pc = "main" /\ ret = "unreach" => starts = RecvTimes + 1 /\ ~heard

\* The Starts of a login alternate between the two group addresses, which
\* loginToGetServerMAC reads back from the buffer it sends from.
StartsAlternate ==
    pc = "login" => eapBuf = IF starts % 2 = 1 THEN "startM" ELSE "startB"

\* A login begins only after the logoff of whatever session came before: its
\* own, or one that a killed process left on the switch.
LogoffBeforeStart == pc = "start" => eapBuf = "logoff"

-----------------------------------------------------------------------------
(* Action properties                                                        *)

\* Nothing leaves by the Dr.com socket unless EAP has succeeded in this
\* session and the socket of this session is open.
UdpOnlyOnline == [][udpTx' # "none" => success' /\ sock]_vars

\* A keep-alive goes out only when the one before it was answered.
OneBeatAtATime == [][udpTx' = "beat" => hbDone]_vars

-----------------------------------------------------------------------------
(* What the client promises the two networks                                *)

Phase ==
    IF pc \in {"auth", "main"} THEN "idle"
    ELSE IF pc = "exited" THEN "over"
    ELSE IF pc \in {"offSend", "offWait"}
      THEN IF site = "open" THEN "clearing" ELSE "parting"
    ELSE IF pc \in {"prepare", "start"} THEN "ready"
    ELSE IF pc = "login" THEN "joining"
    ELSE IF success THEN "online"
    ELSE IF resev THEN "joining" ELSE "leaving"

Word ==
    IF eapBuf \in {"startM", "startB"} THEN "start"
    ELSE IF eapBuf \in {"respId", "respMd5"} THEN "response"
    ELSE eapBuf

Udp ==
    IF udpTx = "startAlive" THEN "open"
    ELSE IF udpTx \in {"none", "beat"} THEN udpTx ELSE "chat"

Promise == INSTANCE Lifecycle WITH
    phase <- Phase, word <- Word, awaited <- Phase = "online" /\ ~hbDone, udp <- Udp

\* Whatever the networks do, the client keeps to its Lifecycle: whichever of
\* the exits of Authentication() it takes, in whatever order frames, datagrams
\* and timeouts come.
KeepsPromise == Promise!LifeSpec

-----------------------------------------------------------------------------
(* What the repository says and the code does not do                        *)

\* The usage text of --offline-hook (main.c:22): "Command to execute when you
\* are forced offline at night."  A client that was online, was told
\* ErrCode=16 and knows the --net-time would not end without having run it.
HookRunsWhenForcedOff == pc = "exited" /\ netTime => ~forcedOff

=============================================================================
