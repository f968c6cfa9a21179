---------------------------- MODULE ConsoleCtrl ----------------------------
(***************************************************************************)
(* handle_console_ctrl beside the main thread.  On Ctrl-C, on closing the  *)
(* window and at the end of the Windows session the system calls it in a   *)
(* thread of its own, which runs auth_8021x_Logoff on the capture handle   *)
(* and the send buffer of the main thread, and then ends the process.      *)
(* Nothing is locked and the main thread is not told.                      *)
(*                                                                         *)
(* Building a frame and handing it to the driver are two steps here, for   *)
(* both threads, and so are testing auth_8021x_handle and using it.  A     *)
(* tick is half a second, the unit of the waits that decide which thread   *)
(* comes first; the main thread may be slower than its waits, the control  *)
(* thread keeps to its own.                                                *)
(***************************************************************************)
EXTENDS Campus

CONSTANT MaxEvents   \* how many console events there are

ASSUME ConsoleAssumption == MaxEvents \in Nat

VARIABLES
    held,      \* the main thread has built a frame it has not sent yet
    busy,      \* ticks the main thread sleeps or waits, at least
    events,    \* console events so far; exiting is events > 0
    ctl,       \* where the control thread is
    ctlCnt,    \* its LogoffCnt
    left,      \* ticks left of its wait
    wasOnline, \* history: the first event came during an online session
    spoke,     \* history: a Start or a response of the main thread since then
    saidOff    \* history: the control thread has logged "Logged off."

threadVars == <<held, busy, events, ctl, ctlCnt, left, wasOnline, spoke, saidOff>>
ctlVars == <<events, ctl, ctlCnt, left, wasOnline, saidOff>>
history == <<wasOnline, spoke, saidOff>>
mainOnlyVars == <<pc, logoffVars, ret, sessionVars, resourceVars, eapTx, udpTx,
                  outerVars>>
elseVars == <<port, night, toServer, fromServer, budgets, killed, refused>>

LogoffTicks == 1   \* AUTH_8021X_LOGOFF_DELAY_MS
RecvTicks == 2     \* AUTH_8021X_RECV_DELAY_MS

ConsoleInit ==
    /\ CampusInit
    /\ held = FALSE
    /\ busy = 0
    /\ events = 0
    /\ ctl = "idle"
    /\ ctlCnt = 0
    /\ left = 0
    /\ wasOnline = FALSE
    /\ spoke = FALSE
    /\ saidOff = FALSE

-----------------------------------------------------------------------------
(* The main thread                                                          *)

\* Mutant of Occupied: the main thread logs off and in without a pause.
NeverOccupied == 0

\* It is about to handle a FAILURE, in the login or in the session loop.
HandlesFailure ==
    /\ pc = "login" \/ (pc = "eap" /\ resev)
    /\ toClient # <<>>
    /\ Head(toClient) = "failure"

\* How long it is occupied after a step: the waits of auth_8021x_Logoff and
\* loginToGetServerMAC, the sleep after a FAILURE.  Its other sleeps, after
\* SUCCESS and of the backoff, are left out, so that it may be quicker here
\* than it is.
Occupied ==
    IF pc' = "offWait" THEN LogoffTicks
    ELSE IF pc' = "login" \/ HandlesFailure THEN RecvTicks
    ELSE 0

\* A wait ends early if a frame comes, a sleep does not.
Interrupted == ClientHears /\ pc \in {"offWait", "login"}

MainActs ==
    /\ ~held
    /\ \/ busy = 0 /\ ClientActs
       \/ busy > 0 /\ Interrupted
    /\ busy' = Occupied
    /\ held' = (eapTx' # "none")
    /\ spoke' = (spoke \/ (events > 0 /\ eapTx' \notin {"none", "logoff"}))
    /\ UNCHANGED <<toSwitch, ctlVars>>

\* While both threads are between building and sending, the driver may be
\* handed a buffer one of them is writing, of which the switch makes nothing.
OnTheWire(other) == IF other THEN {eapBuf, "none"} ELSE {eapBuf}

\* auth_8021x_Sender: whatever is in the buffer by now is sent.
MainSends ==
    /\ held
    /\ held' = FALSE
    /\ \E f \in OnTheWire(ctl \in {"check", "send"}) : toSwitch' = Put(toSwitch, f)
    /\ UNCHANGED <<vars, toClient, elseVars, busy, ctlVars, spoke>>

-----------------------------------------------------------------------------
(* The control thread                                                       *)

\* The first event starts the control thread; a second one finds exiting set
\* and ends the process at once, whatever the first has got done.
Event ==
    /\ pc # "exited"
    /\ events < MaxEvents
    /\ events' = events + 1
    /\ IF events = 0
         THEN /\ ctl' = "test"
              /\ wasOnline' = (InLoop /\ success)
              /\ spoke' = (held /\ eapBuf # "logoff")
              /\ UNCHANGED <<campusVars, held>>
         ELSE /\ Vanishes
              /\ held' = FALSE
              /\ UNCHANGED <<kills, killed, ctl, wasOnline, spoke>>
    /\ UNCHANGED <<busy, ctlCnt, left, saidOff>>

\* Mutant of CtlTest: one Logoff is enough.
CtlTestOnce ==
    /\ ctl = "test"
    /\ ctl' = IF handle THEN "build" ELSE "leave"
    /\ ctlCnt' = 1
    /\ UNCHANGED <<campusVars, held, busy, events, left, history>>

\* auth_8021x_Logoff up to its loop.
CtlTest ==
    /\ ctl = "test"
    /\ ctl' = IF handle THEN "build" ELSE "leave"
    /\ ctlCnt' = 2
    /\ UNCHANGED <<campusVars, held, busy, events, left, history>>

\* A frame the main thread has just built, or is building, is overwritten, or
\* overwrites this one.
CtlBuild ==
    /\ ctl = "build"
    /\ ctlCnt > 0
    /\ ctlCnt' = ctlCnt - 1
    /\ ctl' = "check"
    /\ eapBuf' \in IF held THEN {"logoff", eapBuf} ELSE {"logoff"}
    /\ UNCHANGED <<mainOnlyVars, wires, port, night, budgets, killed, refused,
                   held, busy, events, left, history>>

\* auth_8021x_Sender tests the handle ...
CtlCheck ==
    /\ ctl = "check"
    /\ ctl' = IF handle THEN "send" ELSE "wait"
    /\ left' = LogoffTicks
    /\ UNCHANGED <<campusVars, held, busy, events, ctlCnt, history>>

\* ... and uses it.  If it was closed in between, nothing is sent.
CtlSend ==
    /\ ctl = "send"
    /\ ctl' = "wait"
    /\ IF handle THEN \E f \in OnTheWire(held) : toSwitch' = Put(toSwitch, f)
                 ELSE UNCHANGED toSwitch
    /\ UNCHANGED <<vars, toClient, elseVars, held, busy, events, ctlCnt, left,
                   history>>

\* Mutant of CtlWait: only an answer ends the wait.
CtlWaitForAnswer ==
    /\ ctl = "wait"
    /\ handle /\ toClient # <<>>
    /\ toClient' = Tail(toClient)
    /\ saidOff' = (saidOff \/ Head(toClient) = "failure")
    /\ ctl' = "build"
    /\ left' = 0
    /\ UNCHANGED <<vars, toSwitch, elseVars, held, busy, events, ctlCnt,
                   wasOnline, spoke>>

\* wait_8021x_packet takes the next frame from under the main thread, which is
\* "Logged off." if it is a FAILURE, or runs out of time.
CtlWait ==
    /\ ctl = "wait"
    /\ \/ /\ handle /\ toClient # <<>>
          /\ toClient' = Tail(toClient)
          /\ saidOff' = (saidOff \/ Head(toClient) = "failure")
       \/ left = 0 /\ UNCHANGED <<toClient, saidOff>>
    /\ ctl' = "build"
    /\ left' = 0
    /\ UNCHANGED <<vars, toSwitch, elseVars, held, busy, events, ctlCnt,
                   wasOnline, spoke>>

\* ExitProcess, after the Logoffs or without any.
CtlLeave ==
    /\ ctl = "leave" \/ (ctl = "build" /\ ctlCnt = 0)
    /\ Vanishes
    /\ held' = FALSE
    /\ UNCHANGED <<kills, killed, busy, ctlVars, spoke>>

\* The main thread has closed the capture this thread is inside of: that may
\* end the process too.
CtlCrash ==
    /\ ctl \in {"send", "wait"}
    /\ ~handle
    /\ Vanishes
    /\ held' = FALSE
    /\ UNCHANGED <<kills, killed, busy, ctlVars, spoke>>

Control ==
    /\ pc # "exited"
    /\ CtlTest \/ CtlBuild \/ CtlCheck \/ CtlSend \/ CtlWait \/ CtlLeave

-----------------------------------------------------------------------------
(* Time and the others                                                      *)

\* Half a second goes by.  The control thread does nothing that takes time but
\* wait, and wakes when its time has come.
Tick ==
    /\ pc # "exited"
    /\ \/ ctl = "idle" /\ busy > 0
       \/ ctl = "wait" /\ left > 0
    /\ busy' = IF busy > 0 THEN busy - 1 ELSE 0
    /\ left' = IF left > 0 THEN left - 1 ELSE 0
    /\ UNCHANGED <<campusVars, held, events, ctl, ctlCnt, history>>

Others ==
    /\ \/ SwitchHears \/ SwitchRepeats \/ SwitchDrops
       \/ ServerHears
       \/ Loses
       \/ Over
    /\ UNCHANGED threadVars

ConsoleNext ==
    \/ MainActs \/ MainSends
    \/ Event \/ Control \/ (CtlCrash /\ pc # "exited")
    \/ Tick
    \/ Others

\* Both threads run, and time passes.
ConsoleSpec ==
    /\ ConsoleInit
    /\ [][ConsoleNext]_<<campusVars, threadVars>>
    /\ WF_<<campusVars, threadVars>>(Control)
    /\ WF_<<campusVars, threadVars>>(Tick)

-----------------------------------------------------------------------------
(* Properties                                                               *)

\* An event during an online session is the end of it: though the FAILURE that
\* answers the control thread's Logoff makes the main thread restart, it does
\* not come to its next Start, nor to a response, before the process ends.  That
\* depends on the two waits of its own Logoffs: a night that begins at this
\* moment, with one message lost, cuts them short, and it comes to a Start.
NoTimeToReturn == wasOnline => ~spoke

\* Two Logoffs make up for the loss of one: a process that one console event
\* ends leaves the port closed if its main thread has said nothing more to the
\* switch (auth_8021x_Logoff called by handle_console_ctrl).
ExitFreesPort ==
    pc = "exited" /\ events = 1 /\ ~spoke /\ toSwitch = <<>> => port = "closed"

\* A console event ends the process, wherever the main thread hangs.
EndsOnEvent == events > 0 ~> pc = "exited"

-----------------------------------------------------------------------------
(* What the log says after a console event and is not so                     *)

\* "Logged off." (auth.c:433): the process that the control thread has logged off
\* and then ends is off the network.
LoggedOffIsOff ==
    pc = "exited" /\ events = 1 /\ saidOff /\ toSwitch = <<>> => port # "open"

=============================================================================
