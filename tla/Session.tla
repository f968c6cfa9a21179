------------------------------- MODULE Session -------------------------------
(***************************************************************************)
(* The main thread of scutclient: main()'s retry loop and Authentication() *)
(* with everything it calls in src/auth.c.                                 *)
(*                                                                         *)
(* The network is not part of this module.  A handler takes the frame or   *)
(* datagram that was read as a parameter, and what it transmits appears at *)
(* the ports eapTx and udpTx, which hold the output of the last step only. *)
(* OpenSession closes the module with a network that may deliver anything  *)
(* at any time.                                                            *)
(*                                                                         *)
(* C values keep their meaning under a name: for a function's return,      *)
(* "ok" = 0, "restart" = 1, "error" = -1, "eproto" = -EPROTO and           *)
(* "unreach" = -ENETUNREACH; 0/1 flags are booleans.                       *)
(***************************************************************************)
EXTENDS Naturals

CONSTANTS
    RecvTimes,   \* AUTH_8021X_RECV_TIMES
    HbDelay,     \* DRCOM_UDP_HEARTBEAT_DELAY, seconds
    HbTimeout,   \* DRCOM_UDP_HEARTBEAT_TIMEOUT, seconds
    RetryLimit,  \* the largest retry_time main() still doubles
    PollSecs     \* most second boundaries one pass of the session loop crosses

ASSUME TimerAssumption ==
    /\ HbDelay \in Nat
    /\ HbTimeout \in Nat
    /\ HbTimeout < HbDelay
    /\ PollSecs \in Nat

ASSUME RetryAssumption ==
    /\ RecvTimes \in Nat \ {0}
    /\ RetryLimit \in Nat \ {0}

(***************************************************************************)
(* EAPOL frames addressed to this host, by what auth_8021x_Handler tells   *)
(* apart.  A notification has the outcomes of DrcomEAPErrParse: an error,  *)
(* the error "ErrCode=16" that also sets timeNotAllowed, and an            *)
(* "Authentication Fail" without a number, for which errcode is read       *)
(* uninitialised.  A text that is no error is only logged, as are the      *)
(* reserved request types and the other codes: "logged".                   *)
(***************************************************************************)
ErrorNotes == {"noteError", "noteOffHours", "noteNoCode"}

EapFrame == {"identity", "md5", "logged", "unknownRequest", "failure",
             "success"} \cup ErrorNotes

\* One read of the UDP socket.  "other" is a read that changes nothing:
\* nothing there, an error, a datagram the test of auth_UDP_Receiver drops or
\* one Drcom_UDP_Handler only logs.
Datagram == {"alive", "info", "file", "hb2", "hb4", "beatAck", "other"}

EapOut == {"startM", "startB", "logoff", "respId", "respMd5"}
UdpOut == {"startAlive", "miscInfo", "hb1", "hb3", "beat"}

VARIABLES
    pc,             \* where the main thread is
    site,           \* which call of auth_8021x_Logoff is running: "open" or "close"
    logoffCnt,      \* LogoffCnt
    ret,            \* ret of Authentication(), then of main()
    times,
    resev,
    success,        \* success_8021x
    needHB,         \* isNeedHeartBeat
    hbDone,         \* lastHBDone
    since,          \* time(NULL) - BaseHeartbeatTime, see Later
    handle,         \* auth_8021x_handle # NULL
    sock,           \* auth_udp_sock # INVALID_SOCKET
    eapBuf,         \* send_8021x_data: the last EAPOL frame that was built
    timeNotAllowed,
    retryTime,      \* retry_time of main()
    client,         \* the command line: "login", or "logoff" for --logoff
    netTime,        \* the command line: --net-time was given
    eapTx, udpTx,   \* output ports: what the last step transmitted
    starts,         \* history: Starts sent since this login began
    heard,          \* history: a frame was handled since this login began
    forcedOff       \* history: online and told ErrCode=16, no offline hook since

sessionVars == <<times, resev, success, needHB, hbDone, since>>
resourceVars == <<handle, sock>>
mainVars == <<retryTime, client, netTime>>
historyVars == <<starts, heard, forcedOff>>
outerVars == <<timeNotAllowed, mainVars, historyVars>>
logoffVars == <<site, logoffCnt>>
vars == <<pc, logoffVars, ret, sessionVars, resourceVars, eapBuf, eapTx, udpTx,
          outerVars>>

Points == {"auth", "offSend", "offWait", "prepare", "start", "login",
           "eap", "udp", "beat", "main", "exited"}
InLoop == pc \in {"eap", "udp", "beat"}

(***************************************************************************)
(* Wall-clock time matters only inside the session loop, where it is read  *)
(* as an age and compared with HbTimeout and HbDelay.  The age saturates   *)
(* one above the larger threshold, which no comparison can tell.           *)
(***************************************************************************)
MaxAge == HbDelay + 1

\* Mutant of Later: BaseHeartbeatTime is taken anew in every pass.
RebasedEveryPass(d) == 0

Later(d) == IF since + d > MaxAge THEN MaxAge ELSE since + d

\* Mutant of SendEap: the frame is built in a buffer of its own.
SendEapFromCopy(f) == eapTx' = f /\ UNCHANGED eapBuf

\* auth_8021x_Sender: every frame that is built is handed to the driver.
SendEap(f) == eapTx' = f /\ eapBuf' = f
NoEap == eapTx' = "none" /\ UNCHANGED eapBuf
NoUdp == udpTx' = "none"
Silent == NoEap /\ NoUdp

\* The statics of a fresh process.
Init ==
    /\ pc = "auth"
    /\ site = "open"
    /\ logoffCnt = 0
    /\ ret = "ok"
    /\ times = RecvTimes
    /\ resev = FALSE
    /\ success = FALSE
    /\ needHB = FALSE
    /\ hbDone = TRUE
    /\ since = 0
    /\ handle = FALSE
    /\ sock = FALSE
    /\ eapBuf = "none"
    /\ timeNotAllowed = FALSE
    /\ retryTime = 1
    /\ client \in {"login", "logoff"}
    /\ netTime \in BOOLEAN
    /\ eapTx = "none"
    /\ udpTx = "none"
    /\ starts = 0
    /\ heard = FALSE
    /\ forcedOff = FALSE

-----------------------------------------------------------------------------
(* auth_8021x_Logoff                                                        *)

\* Mutants of BeginLogoff: the call returns at once; one Logoff is enough.
LogoffSkipped(where) ==
    /\ pc' = "offSend"
    /\ site' = where
    /\ logoffCnt' = 0

LogoffOnce(where) ==
    /\ pc' = "offSend"
    /\ site' = where
    /\ logoffCnt' = 1

BeginLogoff(where) ==
    /\ pc' = "offSend"
    /\ site' = where
    /\ logoffCnt' = 2

\* One turn of the while loop up to the wait.
LogoffSend ==
    /\ pc = "offSend"
    /\ logoffCnt > 0
    /\ logoffCnt' = logoffCnt - 1
    /\ pc' = "offWait"
    /\ SendEap("logoff")
    /\ NoUdp
    /\ UNCHANGED <<site, ret, sessionVars, resourceVars, outerVars>>

\* wait_8021x_packet took one frame, whatever it is, or ran out of time.
\* A FAILURE makes the opening call return 1, whose only effect is a pause.
LogoffWait ==
    /\ pc = "offWait"
    /\ pc' = "offSend"
    /\ Silent
    /\ UNCHANGED <<logoffVars, ret, sessionVars, resourceVars, outerVars>>

\* Logoff returned to Authentication: back to its opening, or, after ERR2,
\* through ERR1, which closes the capture, to main().
LogoffDone ==
    /\ pc = "offSend"
    /\ logoffCnt = 0
    /\ \/ /\ site = "open"
          /\ client = "login"
          /\ pc' = "prepare"
          /\ UNCHANGED <<ret, handle>>
       \/ /\ site = "open"
          /\ client = "logoff"
          /\ pc' = "main"
          /\ ret' = "ok"
          /\ handle' = FALSE
       \/ /\ site = "close"
          /\ pc' = "main"
          /\ handle' = FALSE
          /\ UNCHANGED ret
    /\ Silent
    /\ UNCHANGED <<logoffVars, sessionVars, sock, outerVars>>

-----------------------------------------------------------------------------
(* Authentication: opening the capture and the socket                       *)

\* auth_8021x_Init closes what is open and opens the selected adapter; if
\* it cannot, the process ends with exit(EXIT_FAILURE).
OpenCapture ==
    /\ pc = "auth"
    /\ \/ handle' = TRUE /\ BeginLogoff("open")
       \/ handle' = FALSE /\ pc' = "exited" /\ UNCHANGED logoffVars
    /\ Silent
    /\ UNCHANGED <<ret, sessionVars, sock, outerVars>>

\* getIfIP cannot fail once an adapter is selected; auth_UDP_Init can, at
\* any of its five calls, and then leaves no socket behind.
OpenSocket ==
    /\ pc = "prepare"
    /\ \/ /\ sock' = TRUE
          /\ ret' = "ok"
          /\ pc' = "start"
          /\ UNCHANGED handle
       \/ /\ sock' = FALSE
          /\ ret' = "error"
          /\ pc' = "main"
          /\ handle' = FALSE
    /\ Silent
    /\ UNCHANGED <<logoffVars, sessionVars, outerVars>>

-----------------------------------------------------------------------------
(* auth_8021x_Handler                                                       *)

(***************************************************************************)
(* What handling frame f does when times is t, with the returned value r.  *)
(* "exit" stands for the call of exit().  BaseHeartbeatTime, set on        *)
(* success, is left to the callers.                                        *)
(***************************************************************************)
\* Mutant of Reply: every request that is answered counts against times.
ReplyCounted(f, t, r) ==
    /\ f \in {"identity", "md5"}
    /\ r = "ok"
    /\ SendEap(IF f = "identity" THEN "respId" ELSE "respMd5")
    /\ NoUdp
    /\ times' = IF t > 0 THEN t - 1 ELSE 0
    /\ UNCHANGED <<success, needHB, hbDone, timeNotAllowed, forcedOff>>

Reply(f, t, r) ==
    /\ f \in {"identity", "md5"}
    /\ r = "ok"
    /\ SendEap(IF f = "identity" THEN "respId" ELSE "respMd5")
    /\ NoUdp
    /\ times' = t
    /\ UNCHANGED <<success, needHB, hbDone, timeNotAllowed, forcedOff>>

LogOnly(f, t, r) ==
    /\ f \in {"logged", "unknownRequest"}
    /\ r = IF f = "logged" THEN "ok" ELSE "error"
    /\ Silent
    /\ times' = t
    /\ UNCHANGED <<success, needHB, hbDone, timeNotAllowed, forcedOff>>

\* Whether DrcomEAPErrParse takes the text for ErrCode=16.  Without a number
\* in the text errcode is uninitialised, so it may.
ToldOffHours(f, told) ==
    /\ f = "noteOffHours" => told
    /\ f = "noteError" => ~told

Refusal(f, t, r) ==
    /\ f \in ErrorNotes
    /\ r = "error"
    /\ \E told \in BOOLEAN :
          /\ ToldOffHours(f, told)
          /\ timeNotAllowed' = (timeNotAllowed \/ told)
    /\ forcedOff' = (forcedOff \/ (success /\ f = "noteOffHours"))
    /\ Silent
    /\ times' = t
    /\ UNCHANGED <<success, needHB, hbDone>>

\* Mutant of Failure: the session goes on.
FailureIgnored(f, t, r) ==
    /\ f = "failure"
    /\ success' = FALSE
    /\ needHB' = FALSE
    /\ r = "ok"
    /\ times' = t
    /\ Silent
    /\ UNCHANGED <<hbDone, timeNotAllowed, forcedOff>>

Failure(f, t, r) ==
    /\ f = "failure"
    /\ success' = FALSE
    /\ needHB' = FALSE
    /\ IF t > 0 THEN r = "restart" /\ times' = t - 1
                ELSE r = "exit" /\ times' = t
    /\ Silent
    /\ UNCHANGED <<hbDone, timeNotAllowed, forcedOff>>

\* EAP success opens the Dr.com exchange with MISC_START_ALIVE.
Granted(f, t, r) ==
    /\ f = "success"
    /\ r = "ok"
    /\ times' = RecvTimes
    /\ success' = TRUE
    /\ needHB' = TRUE
    /\ hbDone' = FALSE
    /\ udpTx' = "startAlive"
    /\ NoEap
    /\ UNCHANGED <<timeNotAllowed, forcedOff>>

Handler(f, t, r) ==
    \/ Reply(f, t, r)
    \/ LogOnly(f, t, r)
    \/ Refusal(f, t, r)
    \/ Failure(f, t, r)
    \/ Granted(f, t, r)

Results == {"ok", "error", "restart", "exit"}

-----------------------------------------------------------------------------
(* loginToGetServerMAC                                                      *)

\* The first, multicast Start.  resev is static: if the previous login was
\* refused by its first frame it is still set, and the loop that waits for
\* an answer is skipped.
StartLogin ==
    /\ pc = "start"
    /\ times' = RecvTimes
    /\ SendEap("startM")
    /\ NoUdp
    /\ starts' = 1
    /\ heard' = FALSE
    /\ IF resev THEN pc' = "eap" /\ since' = 0
                ELSE pc' = "login" /\ UNCHANGED since
    /\ UNCHANGED <<logoffVars, ret, resev, success, needHB, hbDone,
                   resourceVars, timeNotAllowed, mainVars, forcedOff>>

\* The goto ERR2 of a failed login, which skips the reset of the statics.
LoginFails(why) ==
    /\ ret' = why
    /\ sock' = FALSE
    /\ BeginLogoff("close")

\* The first frame arrives within the wait and is handled at once.
LoginFrame(f) ==
    /\ pc = "login"
    /\ resev' = TRUE
    /\ heard' = TRUE
    /\ \E r \in Results :
          /\ Handler(f, RecvTimes, r)
          /\ IF r = "ok"
                THEN pc' = "eap" /\ since' = 0
                     /\ UNCHANGED <<logoffVars, ret, sock>>
                ELSE LoginFails("eproto") /\ UNCHANGED since
    /\ UNCHANGED <<starts, handle, mainVars>>

\* The other group address, by the second octet of send_8021x_data.  A Logoff
\* has the address of a multicast Start; no group's octet, no Start.
OtherStart ==
    IF eapBuf = "startB" THEN {"startM"}
    ELSE IF eapBuf \in {"startM", "logoff"} THEN {"startB"}
    ELSE {}

\* The wait ended without a frame: another Start, to the other group.
LoginTimeout ==
    /\ pc = "login"
    /\ times > 0
    /\ times' = times - 1
    /\ IF OtherStart = {} THEN NoEap /\ UNCHANGED starts
       ELSE /\ \E f \in OtherStart : SendEap(f)
            /\ starts' = starts + 1
    /\ NoUdp
    /\ UNCHANGED <<pc, logoffVars, ret, resev, success, needHB, hbDone, since,
                   resourceVars, timeNotAllowed, mainVars, heard, forcedOff>>

\* Mutant of LoginUnreachable: gives up one wait early.
LoginGivesUpEarly ==
    /\ pc = "login"
    /\ times <= 1
    /\ LoginFails("unreach")
    /\ Silent
    /\ UNCHANGED <<sessionVars, handle, outerVars>>

LoginUnreachable ==
    /\ pc = "login"
    /\ times = 0
    /\ LoginFails("unreach")
    /\ Silent
    /\ UNCHANGED <<sessionVars, handle, outerVars>>

-----------------------------------------------------------------------------
(* The loop of Authentication: one pass is "eap", "udp", "beat"             *)

\* Mutant of LeaveLoop: the statics keep their values.
LeaveLoopUnreset ==
    /\ resev' = FALSE
    /\ UNCHANGED <<success, hbDone>>
    /\ sock' = FALSE
    /\ BeginLogoff("close")

\* The statics are reset, then ERR2.
LeaveLoop ==
    /\ success' = FALSE
    /\ resev' = FALSE
    /\ hbDone' = TRUE
    /\ sock' = FALSE
    /\ BeginLogoff("close")

\* while (resev) ends the loop.
LoopEnds ==
    /\ pc = "eap"
    /\ ~resev
    /\ LeaveLoop
    /\ Silent
    /\ UNCHANGED <<ret, times, needHB, since, handle, outerVars>>

\* auth_8021x_Receiver returned a frame; the time the pass takes, its sleeps
\* included, goes by here.
LoopFrame(f) ==
    /\ pc = "eap"
    /\ resev
    /\ heard' = TRUE
    /\ \E r \in Results, d \in 0..PollSecs :
          /\ Handler(f, times, r)
          /\ ret' = r
          /\ resev' = (r = "ok")
          /\ since' = IF f = "success" THEN 0 ELSE Later(d)
          /\ pc' = IF r = "exit" THEN "exited" ELSE "udp"
    /\ UNCHANGED <<logoffVars, resourceVars, mainVars, starts>>

\* pcap_next_ex timed out, or its frame was not for us.
LoopQuiet ==
    /\ pc = "eap"
    /\ resev
    /\ pc' = "udp"
    /\ \E d \in 0..PollSecs : since' = Later(d)
    /\ Silent
    /\ UNCHANGED <<logoffVars, ret, times, resev, success, needHB, hbDone,
                   resourceVars, outerVars>>

\* Mutant of DatagramEffect: MISC_RESPONSE_FOR_ALIVE leaves the heartbeat on.
BeatOnSinceGranted(g) ==
    /\ needHB' = (g = "info" \/ needHB)
    /\ IF g \in {"alive", "hb4"} THEN hbDone' = TRUE /\ since' = 0
                                ELSE UNCHANGED <<hbDone, since>>

\* Drcom_UDP_Handler: what it does to the statics, and the packet it builds.
DatagramEffect(g) ==
    /\ needHB' = (g = "info" \/ (needHB /\ g # "alive"))
    /\ IF g \in {"alive", "hb4"} THEN hbDone' = TRUE /\ since' = 0
                                ELSE UNCHANGED <<hbDone, since>>

Answer(g) == IF g = "alive" THEN "miscInfo"
             ELSE IF g \in {"info", "file", "beatAck"} THEN "hb1"
             ELSE IF g = "hb2" THEN "hb3"
             ELSE "none"

\* The socket is read whether or not EAP has succeeded; only the answer
\* waits for success.
LoopDatagram(g) ==
    /\ pc = "udp"
    /\ pc' = "beat"
    /\ DatagramEffect(g)
    /\ udpTx' = IF success THEN Answer(g) ELSE "none"
    /\ NoEap
    /\ UNCHANGED <<logoffVars, ret, times, resev, success, resourceVars,
                   outerVars>>

\* Mutants of Watching and ReplyOverdue: needHB, which no cleanup resets, is
\* trusted alone; the timeout of the wrong constant; no watchdog.
WatchingByFlag == needHB
OverdueByDelay == success /\ needHB /\ ~hbDone /\ since > HbDelay
NoWatchdog == FALSE

Watching == success /\ needHB
ReplyOverdue == Watching /\ ~hbDone /\ since > HbTimeout
BeatDue == Watching /\ ~ReplyOverdue /\ since > HbDelay

\* The two breaks of the loop: no reply to the last heartbeat, or sendto
\* failed.  Both restart the session, whatever ret was.
BreakLoop ==
    /\ ret' = "restart"
    /\ LeaveLoop
    /\ Silent
    /\ UNCHANGED <<times, needHB, since, handle, outerVars>>

BeatOverdue == pc = "beat" /\ ReplyOverdue /\ BreakLoop
BeatFails == pc = "beat" /\ BeatDue /\ BreakLoop

BeatSent ==
    /\ pc = "beat"
    /\ BeatDue
    /\ udpTx' = "beat"
    /\ since' = 0
    /\ hbDone' = FALSE
    /\ pc' = "eap"
    /\ NoEap
    /\ UNCHANGED <<logoffVars, ret, times, resev, success, needHB,
                   resourceVars, outerVars>>

NoBeat ==
    /\ pc = "beat"
    /\ ~ReplyOverdue
    /\ ~BeatDue
    /\ pc' = "eap"
    /\ Silent
    /\ UNCHANGED <<logoffVars, ret, sessionVars, resourceVars, outerVars>>

-----------------------------------------------------------------------------
(* The retry loop of main()                                                 *)

\* What every branch below leaves alone.
MainOnly ==
    /\ Silent
    /\ UNCHANGED <<logoffVars, ret, sessionVars, resourceVars, client,
                   netTime, starts, heard>>

MainRestart ==
    /\ pc = "main"
    /\ ret = "restart"
    /\ retryTime' = 1
    /\ pc' = "auth"
    /\ MainOnly
    /\ UNCHANGED <<timeNotAllowed, forcedOff>>

\* Mutant of MainBackoff: the limit is not looked at.
BackoffUnlimited ==
    /\ pc = "main"
    /\ ret = "unreach"
    /\ retryTime' = 2 * retryTime
    /\ pc' = "auth"
    /\ MainOnly
    /\ UNCHANGED <<timeNotAllowed, forcedOff>>

\* Sleep(retry_time), then the next attempt.
MainBackoff ==
    /\ pc = "main"
    /\ ret = "unreach"
    /\ retryTime' = IF retryTime <= RetryLimit THEN 2 * retryTime ELSE retryTime
    /\ pc' = "auth"
    /\ MainOnly
    /\ UNCHANGED <<timeNotAllowed, forcedOff>>

FinalRet == ret \notin {"restart", "unreach"}

\* Refused by the hour with --net-time given.  Only if that time is still to
\* come today are the offline hook run and the time waited for.
MainWait ==
    /\ pc = "main"
    /\ FinalRet
    /\ timeNotAllowed
    /\ netTime
    /\ timeNotAllowed' = FALSE
    /\ \/ pc' = "auth" /\ forcedOff' = FALSE
       \/ pc' = "exited" /\ UNCHANGED forcedOff
    /\ MainOnly
    /\ UNCHANGED retryTime

MainExit ==
    /\ pc = "main"
    /\ FinalRet
    /\ ~(timeNotAllowed /\ netTime)
    /\ pc' = "exited"
    /\ MainOnly
    /\ UNCHANGED <<retryTime, timeNotAllowed, forcedOff>>

=============================================================================
