------------------------------- MODULE Campus -------------------------------
(***************************************************************************)
(* Session with the peers it was written for: a switch that authenticates  *)
(* the port by EAP, a Dr.com server that answers authenticated hosts, and  *)
(* a user who may kill and restart the program (the manager script's stop  *)
(* and run).  The peers are external: they are modelled from the frames    *)
(* and datagrams the handlers of src/auth.c expect of them.                *)
(*                                                                         *)
(* The network is FIFO and prompt: a wait runs out only when nothing is on *)
(* the way, and the clock moves only while nothing is.  It loses messages  *)
(* and the switch drops the port, each a bounded number of times, so that  *)
(* in the end the client is left alone to recover.  The host is healthy:   *)
(* opening the capture and the socket and sendto succeed.                  *)
(***************************************************************************)
EXTENDS Session, Sequences, SequencesExt

CONSTANTS
    Losable,     \* the messages the network may lose
    MaxLosses,   \* how many it loses
    MaxDrops,    \* how often the switch closes an open port, with a FAILURE
    MaxNights,   \* how often the hour of ErrCode=16 begins
    MaxKills     \* how often the client is killed

ASSUME CampusAssumption ==
    /\ Losable \subseteq EapFrame \cup EapOut \cup Datagram \cup UdpOut
    /\ {MaxLosses, MaxDrops, MaxNights, MaxKills} \subseteq Nat

VARIABLES
    port,        \* switch: "closed", "identity", "challenge" or "open"
    night,       \* switch: it refuses everyone with ErrCode=16
    toSwitch, toClient, toServer, fromServer,   \* messages on the way
    losses, drops, nights, kills,               \* what was used of the bounds
    killed,      \* the process was killed, it did not end
    refused      \* history: the switch has sent a notification

wires == <<toSwitch, toClient, toServer, fromServer>>
budgets == <<losses, drops, nights, kills>>
campusVars == <<vars, port, night, wires, budgets, killed, refused>>

Quiet == toSwitch = <<>> /\ toClient = <<>> /\ toServer = <<>> /\ fromServer = <<>>

CampusInit ==
    /\ Init
    /\ netTime
    /\ port = "closed"
    /\ night \in {FALSE, MaxNights > 0}
    /\ toSwitch = <<>> /\ toClient = <<>> /\ toServer = <<>> /\ fromServer = <<>>
    /\ losses = 0 /\ drops = 0 /\ nights = 0 /\ kills = 0
    /\ killed = FALSE
    /\ refused = FALSE

-----------------------------------------------------------------------------
(* The client on the wire                                                   *)

Put(queue, message) == IF message = "none" THEN queue ELSE Append(queue, message)

\* The frame a step of the client transmits goes out.
Sent == toSwitch' = Put(toSwitch, eapTx')

\* So does its datagram; of what is still to be read, inEap and inUdp, a closed
\* capture or socket keeps nothing.
Wired(inEap, inUdp) ==
    /\ toServer' = Put(toServer, udpTx')
    /\ toClient' = IF handle' THEN inEap ELSE <<>>
    /\ fromServer' = IF sock' THEN inUdp ELSE <<>>
    /\ UNCHANGED <<port, budgets, killed, refused>>

\* A step that reads nothing.  A wait of the client that ends without a frame
\* is such a step too, but only once nothing is on the way.
ClientMoves ==
    /\ \/ OpenCapture /\ handle'
       \/ LogoffSend \/ LogoffDone
       \/ OpenSocket /\ sock'
       \/ StartLogin
       \/ LoopEnds
       \/ BeatOverdue \/ BeatSent \/ NoBeat
       \/ MainRestart \/ MainBackoff \/ MainExit
       \/ (LogoffWait \/ LoginTimeout \/ LoginUnreachable) /\ Quiet
    /\ Wired(toClient, fromServer)
    /\ UNCHANGED night

\* The capture returns the next frame.
ClientHears ==
    /\ toClient # <<>>
    /\ \/ LogoffWait
       \/ LoginFrame(Head(toClient))
       \/ LoopFrame(Head(toClient)) /\ since' \in {0, since}
    /\ Wired(Tail(toClient), fromServer)
    /\ UNCHANGED night

\* The capture returns nothing, and time may pass if the network is quiet.
ClientPolls ==
    /\ toClient = <<>>
    /\ LoopQuiet
    /\ Quiet \/ since' = since
    /\ Wired(toClient, fromServer)
    /\ UNCHANGED night

ClientReads ==
    /\ \/ fromServer = <<>> /\ LoopDatagram("other")
       \/ fromServer # <<>> /\ LoopDatagram(Head(fromServer))
    /\ Wired(toClient, IF fromServer = <<>> THEN <<>> ELSE Tail(fromServer))
    /\ UNCHANGED night

\* Waiting till --net-time is waiting till the switch lets people in again.
ClientWaits ==
    /\ MainWait
    /\ night' = (night /\ pc' = "exited")
    /\ Wired(toClient, fromServer)

ClientActs ==
    ClientMoves \/ ClientHears \/ ClientPolls \/ ClientReads \/ ClientWaits

Client == ClientActs /\ Sent

-----------------------------------------------------------------------------
(* The switch, the server, the network and the user                         *)

\* The switch sends frames; a host that does not listen does not get them.
Sends(frames) ==
    /\ toClient' = IF handle THEN toClient \o frames ELSE toClient
    /\ refused' = (refused \/ "noteOffHours" \in ToSet(frames))

NightNotice == <<"noteOffHours", "failure">>

\* 802.1X at the authenticator.  A refusal by the hour may come at once or
\* after the credentials.
SwitchHears ==
    /\ toSwitch # <<>>
    /\ toSwitch' = Tail(toSwitch)
    /\ LET f == Head(toSwitch) IN
       \/ /\ f \in {"startM", "startB"}
          /\ \/ port' = "identity" /\ Sends(<<"identity">>)
             \/ night /\ port' = "closed" /\ Sends(NightNotice)
       \/ /\ f = "respId"
          /\ IF port = "identity" THEN port' = "challenge" /\ Sends(<<"md5">>)
                                  ELSE UNCHANGED port /\ Sends(<<>>)
       \/ /\ f = "respMd5"
          /\ IF port # "challenge" THEN UNCHANGED port /\ Sends(<<>>)
             ELSE IF night THEN port' = "closed" /\ Sends(NightNotice)
             ELSE port' = "open" /\ Sends(<<"success">>)
       \/ /\ f = "logoff"
          /\ port' = "closed"
          /\ Sends(IF port = "closed" THEN <<>> ELSE <<"failure">>)
    /\ UNCHANGED <<vars, night, toServer, fromServer, budgets, killed>>

\* A request that went unanswered is repeated.
SwitchRepeats ==
    /\ port \in {"identity", "challenge"}
    /\ InLoop
    /\ Quiet
    /\ Sends(IF port = "identity" THEN <<"identity">> ELSE <<"md5">>)
    /\ UNCHANGED <<vars, port, night, toSwitch, toServer, fromServer, budgets, killed>>

SwitchDrops ==
    /\ port = "open"
    /\ port' = "closed"
    /\ \/ /\ drops < MaxDrops
          /\ drops' = drops + 1
          /\ Sends(<<"failure">>)
          /\ UNCHANGED <<night, nights>>
       \/ /\ nights < MaxNights
          /\ nights' = nights + 1
          /\ night' = TRUE
          /\ Sends(NightNotice)
          /\ UNCHANGED drops
    /\ UNCHANGED <<vars, toSwitch, toServer, fromServer, losses, kills, killed>>

Response == [startAlive |-> "alive", miscInfo |-> "info", hb1 |-> "hb2",
             hb3 |-> "hb4", beat |-> "beatAck"]

\* The server answers a host only through an open port.
ServerHears ==
    /\ toServer # <<>>
    /\ toServer' = Tail(toServer)
    /\ fromServer' = IF port = "open" /\ sock
                       THEN Append(fromServer, Response[Head(toServer)])
                       ELSE fromServer
    /\ UNCHANGED <<vars, port, night, toSwitch, toClient, budgets, killed, refused>>

Drop(queue) == queue # <<>> /\ Head(queue) \in Losable

Loses ==
    /\ losses < MaxLosses
    /\ losses' = losses + 1
    /\ \/ /\ Drop(toSwitch)
          /\ toSwitch' = Tail(toSwitch)
          /\ UNCHANGED <<toClient, toServer, fromServer>>
       \/ /\ Drop(toClient)
          /\ toClient' = Tail(toClient)
          /\ UNCHANGED <<toSwitch, toServer, fromServer>>
       \/ /\ Drop(toServer)
          /\ toServer' = Tail(toServer)
          /\ UNCHANGED <<toSwitch, toClient, fromServer>>
       \/ /\ Drop(fromServer)
          /\ fromServer' = Tail(fromServer)
          /\ UNCHANGED <<toSwitch, toClient, toServer>>
    /\ UNCHANGED <<vars, port, night, drops, nights, kills, killed, refused>>

\* The process is gone, wherever it was.  What was sent is on its way.
Vanishes ==
    /\ pc # "exited"
    /\ pc' = "exited"
    /\ handle' = FALSE
    /\ sock' = FALSE
    /\ toClient' = <<>>
    /\ fromServer' = <<>>
    /\ Silent
    /\ UNCHANGED <<logoffVars, ret, sessionVars, outerVars, port, night,
                   toSwitch, toServer, losses, drops, nights, refused>>

\* Stop-Client: taskkill /F, without a Logoff.
Kill ==
    /\ kills < MaxKills
    /\ kills' = kills + 1
    /\ killed' = TRUE
    /\ Vanishes

\* Run-Task, or the user: a fresh process, to log in or to log off.
Restart ==
    /\ killed
    /\ killed' = FALSE
    /\ pc' = "auth" /\ site' = "open" /\ logoffCnt' = 0 /\ ret' = "ok"
    /\ times' = RecvTimes /\ retryTime' = 1 /\ since' = 0 /\ starts' = 0
    /\ resev' = FALSE /\ success' = FALSE /\ needHB' = FALSE /\ hbDone' = TRUE
    /\ timeNotAllowed' = FALSE /\ heard' = FALSE /\ forcedOff' = FALSE
    /\ eapBuf' = "none" /\ eapTx' = "none" /\ udpTx' = "none"
    /\ client' \in {"login", "logoff"}
    /\ UNCHANGED <<netTime, resourceVars, port, night, wires, budgets, refused>>

Over == pc = "exited" /\ ~killed /\ Quiet /\ UNCHANGED campusVars

CampusNext ==
    \/ Client
    \/ SwitchHears \/ SwitchRepeats \/ SwitchDrops
    \/ ServerHears
    \/ Loses \/ Kill \/ Restart
    \/ Over

(***************************************************************************)
(* The threads run: the client's, as its loops never block longer than a   *)
(* timeout, the peers' and the network's.  The clock moves: a session that *)
(* polls a quiet network again and again does not do so within one second. *)
(***************************************************************************)
CampusSpec ==
    /\ CampusInit
    /\ [][CampusNext]_campusVars
    /\ WF_campusVars(Client)
    /\ WF_campusVars(SwitchHears)
    /\ WF_campusVars(ServerHears)
    /\ WF_campusVars(SwitchRepeats)
    /\ SF_campusVars(ClientPolls /\ Sent /\ since' > since)

-----------------------------------------------------------------------------
(* Properties                                                               *)

\* A client that counts as online is: the port is open, or the FAILURE that
\* says otherwise is on its way (where the network loses no FAILURE).
OnlineIsTrue ==
    InLoop /\ success =>
        port = "open" \/ "failure" \in ToSet(toClient)

\* A client that ends by itself leaves no open port behind, neither its own
\* nor that of a killed one before it, even if one of its Logoffs is lost.
LeavesPortClosed ==
    pc = "exited" /\ ~killed /\ toSwitch = <<>> => port = "closed"

\* The client ends only when asked to log off or refused by a notification:
\* no drop, no kill and no single loss makes it give up.  It takes the second
\* Logoff for that: a session left over that survives the opening Logoff may
\* end with a FAILURE during the login, and a login that hears FAILURE first
\* is over for good (-EPROTO).
EndsOnlyWhenTold == pc = "exited" => killed \/ client = "logoff" \/ refused

\* Once the disturbances are over, the client is online and keeps the session
\* alive.
StaysAlive == []<>(udpTx = "beat" \/ pc = "exited")

\* The two waits of the session loop that no timer bounds: for the end of the
\* EAP exchange, and for MISC_RESPONSE_INFO, before which MISC_RESPONSE_FOR_-
\* ALIVE has switched the watchdog off.
UntimedWait == InLoop /\ (~success \/ ~needHB)

\* Whatever messages are lost, the client can hang nowhere else.
HangsOnlyUntimed == []<>(udpTx = "beat" \/ pc = "exited" \/ UntimedWait)

-----------------------------------------------------------------------------
(* What the repository says and the code does not do                        *)

\* The log of loginToGetServerMAC (auth.c:590, 601): a login ends with
\* "Received the first request." or with "Error! No Response".
LoginConcludes ==
    (starts = 1 /\ ~heard) ~> (heard \/ ret = "unreach" \/ killed)

=============================================================================
