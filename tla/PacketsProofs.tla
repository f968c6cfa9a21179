--------------------------- MODULE PacketsProofs ---------------------------
(***************************************************************************)
(* Every keep-alive of Packets is fresh, for all values of the constants.  *)
(* What has to be excluded is that anything of an earlier login mixes with *)
(* this one: a frame that was on the way when the client began, or a       *)
(* datagram, which nobody waits for, that the server still had to answer.  *)
(* Most of this module is about Campus; kept comes last.                   *)
(***************************************************************************)
EXTENDS Packets, CampusProofs

-----------------------------------------------------------------------------
(* Queues                                                                   *)

\* Behind its first k messages q holds members of T only.
From(q, k, T) == \A i \in 1..Len(q) : i > k => q[i] \in T

\* At most one message of q is not x.
One(q, x) == \A i, j \in 1..Len(q) : q[i] # x /\ q[j] # x => i = j

\* Only the last message of q can be other than x, and then is in T.
Ends(q, x, T) == \A i \in 1..Len(q) : q[i] = x \/ (i = Len(q) /\ q[i] \in T)

LEMMA FromEmpty == \A k, T : From(<<>>, k, T)
BY DEF From

LEMMA FromTail ==
    ASSUME NEW S, NEW q \in Seq(S), q # <<>>, NEW k \in Nat, NEW T, From(q, k, T)
    PROVE  /\ From(Tail(q), k, T)
           /\ k > 0 => From(Tail(q), k - 1, T)
           /\ k = 0 => Head(q) \in T
           /\ k = 1 => From(Tail(q), 0, T)
<1> DEFINE r == Tail(q)
<1>1. /\ Len(q) \in Nat \ {0} /\ Len(r) = Len(q) - 1 /\ Head(q) = q[1] /\ 1 \in 1..Len(q)
      /\ \A i \in 1..Len(r) : r[i] = q[i + 1] /\ i + 1 \in 1..Len(q)
  OBVIOUS
<1> HIDE DEF r
<1>2. ASSUME NEW i \in 1..Len(r), i + 1 > k PROVE r[i] \in T
  BY <1>1, <1>2 DEF From
<1>3. \A i \in 1..Len(r) : i \in Nat
  BY <1>1
<1>4. From(r, k, T)
  BY <1>2, <1>3 DEF From
<1>5. k > 0 => From(r, k - 1, T)
  BY <1>2, <1>3 DEF From
<1>6. k = 0 => q[1] \in T
  BY <1>1 DEF From
<1> QED
  BY <1>1, <1>4, <1>5, <1>6 DEF r

LEMMA FromConcat ==
    ASSUME NEW S, NEW q \in Seq(S), NEW frames \in Seq(S), NEW k \in Nat, NEW T,
           From(q, k, T),
           \/ \A i \in 1..Len(frames) : frames[i] \in T
           \/ Len(q) + Len(frames) <= k
    PROVE  From(q \o frames, k, T)
<1> DEFINE r == q \o frames
<1>1. /\ Len(q) \in Nat /\ Len(frames) \in Nat /\ Len(r) = Len(q) + Len(frames)
      /\ \A i \in 1..Len(q) : r[i] = q[i]
      /\ \A i \in 1..Len(frames) : r[Len(q) + i] = frames[i]
  OBVIOUS
<1> HIDE DEF r
<1>2. SUFFICES ASSUME NEW i \in 1..Len(r), i > k PROVE r[i] \in T
  BY DEF From, r
<1>3. CASE i \in 1..Len(q)
  BY <1>1, <1>2, <1>3 DEF From
<1>4. CASE i \notin 1..Len(q)
  <2> DEFINE j == i - Len(q)
  <2>1. j \in 1..Len(frames) /\ i = Len(q) + j
    BY <1>1, <1>4
  <2>2. ~(Len(q) + Len(frames) <= k)
    BY <1>1, <1>2
  <2> HIDE DEF j
  <2> QED
    BY <1>1, <2>1, <2>2
<1> QED
  BY <1>3, <1>4

LEMMA FromWider ==
    ASSUME NEW q, NEW k \in Int, NEW T, NEW U, From(q, k, T), T \subseteq U
    PROVE  From(q, k, U)
BY DEF From

LEMMA FromPut ==
    ASSUME NEW S, NEW q \in Seq(S), NEW m \in S \cup {"none"}, NEW T,
           From(q, 0, T), m \in T \cup {"none"}
    PROVE  From(Put(q, m), 0, T)
<1>1. CASE m = "none"
  BY <1>1 DEF Put
<1>2. CASE m # "none"
  <2> DEFINE r == Append(q, m)
  <2>1. /\ Len(q) \in Nat /\ Len(r) = Len(q) + 1 /\ r[Len(q) + 1] = m
        /\ \A i \in 1..Len(q) : r[i] = q[i]
    BY <1>2
  <2> HIDE DEF r
  <2>2. ASSUME NEW i \in 1..Len(r) PROVE r[i] \in T
    <3>1. CASE i \in 1..Len(q)
      BY <2>1, <3>1 DEF From
    <3>2. CASE i = Len(q) + 1
      BY <1>2, <2>1, <3>2
    <3> QED
      BY <2>1, <3>1, <3>2
  <2>3. Put(q, m) = r
    BY <1>2 DEF Put, r
  <2> QED
    BY <2>2, <2>3 DEF From
<1> QED
  BY <1>1, <1>2

LEMMA OneEmpty == \A x : One(<<>>, x)
BY DEF One

LEMMA OneTail ==
    ASSUME NEW S, NEW q \in Seq(S), q # <<>>, NEW x, One(q, x)
    PROVE  /\ One(Tail(q), x)
           /\ Head(q) # x => From(Tail(q), 0, {x})
<1> DEFINE r == Tail(q)
<1>1. /\ Len(q) \in Nat \ {0} /\ Len(r) = Len(q) - 1 /\ Head(q) = q[1] /\ 1 \in 1..Len(q)
      /\ \A i \in 1..Len(r) : r[i] = q[i + 1] /\ i + 1 \in 1..Len(q) /\ i + 1 # 1 /\ i \in Nat
  OBVIOUS
<1> HIDE DEF r
<1>2. One(r, x)
  <2> SUFFICES ASSUME NEW i \in 1..Len(r), NEW j \in 1..Len(r), r[i] # x, r[j] # x
               PROVE  i = j
    BY DEF One
  <2>1. i + 1 = j + 1
    BY <1>1 DEF One
  <2> QED
    BY <1>1, <2>1
<1>3. ASSUME q[1] # x, NEW i \in 1..Len(r) PROVE r[i] = x
  <2>1. q[i + 1] = x
    BY <1>1, <1>3 DEF One
  <2> QED
    BY <1>1, <2>1
<1> QED
  BY <1>1, <1>2, <1>3 DEF From, r

LEMMA OneConcat ==
    ASSUME NEW S, NEW q \in Seq(S), NEW frames \in Seq(S), NEW x,
           \/ From(q, 0, {x}) /\ Len(frames) <= 1
           \/ One(q, x) /\ \A i \in 1..Len(frames) : frames[i] = x
    PROVE  One(q \o frames, x)
<1> DEFINE r == q \o frames
<1>1. /\ Len(q) \in Nat /\ Len(frames) \in Nat /\ Len(r) = Len(q) + Len(frames)
      /\ \A i \in 1..Len(q) : r[i] = q[i]
      /\ \A i \in 1..Len(frames) : r[Len(q) + i] = frames[i]
  OBVIOUS
<1> HIDE DEF r
<1>2. SUFFICES ASSUME NEW i \in 1..Len(r), NEW j \in 1..Len(r), r[i] # x, r[j] # x
               PROVE  i = j
  BY DEF One, r
<1>3. \A n \in 1..Len(r) : n \in 1..Len(q) \/ (n - Len(q) \in 1..Len(frames) /\ n = Len(q) + (n - Len(q)))
  BY <1>1
<1>4. CASE From(q, 0, {x}) /\ Len(frames) <= 1
  <2>1. \A n \in 1..Len(q) : n > 0 /\ r[n] = x
    BY <1>1, <1>4 DEF From
  <2>2. \A n \in 1..Len(r) : r[n] # x => n = Len(q) + 1
    BY <1>1, <1>3, <1>4, <2>1
  <2> QED
    BY <1>2, <2>2
<1>5. CASE One(q, x) /\ \A n \in 1..Len(frames) : frames[n] = x
  <2>1. \A n \in 1..Len(r) : r[n] # x => n \in 1..Len(q)
    BY <1>1, <1>3, <1>5
  <2>2. i \in 1..Len(q) /\ j \in 1..Len(q) /\ q[i] # x /\ q[j] # x
    BY <1>1, <1>2, <2>1
  <2> QED
    BY <1>5, <2>2 DEF One
<1> QED
  BY <1>4, <1>5

LEMMA OnePut ==
    ASSUME NEW q \in Seq(EapOut), NEW x, NEW m \in {x, "none"}, m \in EapOut \cup {"none"},
           One(q, x)
    PROVE  One(Put(q, m), x)
<1>1. CASE m = "none"
  BY <1>1 DEF Put
<1>2. CASE m # "none"
  <2>1. Put(q, m) = q \o <<x>> /\ <<x>> \in Seq(EapOut) /\ \A i \in 1..Len(<<x>>) : <<x>>[i] = x
    BY <1>2 DEF Put
  <2> QED
    BY <2>1, OneConcat
<1> QED
  BY <1>1, <1>2

LEMMA AllIsOne ==
    ASSUME NEW S, NEW q \in Seq(S), NEW x
    PROVE  From(q, 0, {x}) => One(q, x) /\ \A T : Ends(q, x, T)
BY DEF From, One, Ends

LEMMA EndsIsOne ==
    ASSUME NEW q, NEW x, NEW T, Ends(q, x, T)
    PROVE  One(q, x)
BY DEF One, Ends

LEMMA EndsTail ==
    ASSUME NEW S, NEW q \in Seq(S), q # <<>>, NEW x, NEW T, Ends(q, x, T)
    PROVE  \/ Head(q) = x /\ Ends(Tail(q), x, T)
           \/ Head(q) \in T /\ Tail(q) = <<>>
<1> DEFINE r == Tail(q)
<1>1. /\ Len(q) \in Nat \ {0} /\ Len(r) = Len(q) - 1 /\ Head(q) = q[1] /\ 1 \in 1..Len(q)
      /\ \A i \in 1..Len(r) : r[i] = q[i + 1] /\ i + 1 \in 1..Len(q)
  OBVIOUS
<1>0. r \in Seq(S) /\ \A z \in Seq(S) : Len(z) = 0 => z = <<>>
  OBVIOUS
<1> HIDE DEF r
<1>2. ASSUME NEW i \in 1..Len(r) PROVE r[i] = x \/ (i = Len(r) /\ r[i] \in T)
  <2>1. q[i + 1] = x \/ (i + 1 = Len(q) /\ q[i + 1] \in T)
    BY <1>1 DEF Ends
  <2> QED
    BY <1>1, <2>1
<1>3. q[1] = x \/ (Len(q) = 1 /\ q[1] \in T)
  BY <1>1 DEF Ends
<1>4. Ends(r, x, T)
  BY <1>2 DEF Ends
<1>5. Len(q) = 1 => r = <<>>
  BY <1>0, <1>1
<1> QED
  BY <1>1, <1>3, <1>4, <1>5 DEF r

LEMMA EndsAppend ==
    ASSUME NEW S, NEW q \in Seq(S), NEW x, NEW T, NEW m \in S, m \in T, From(q, 0, {x})
    PROVE  Ends(Append(q, m), x, T)
<1> DEFINE r == Append(q, m)
<1>1. /\ Len(q) \in Nat /\ Len(r) = Len(q) + 1 /\ r[Len(q) + 1] = m
      /\ \A i \in 1..Len(q) : r[i] = q[i] /\ i > 0
  OBVIOUS
<1> HIDE DEF r
<1>2. ASSUME NEW i \in 1..Len(r) PROVE r[i] = x \/ (i = Len(r) /\ r[i] \in T)
  <2>1. CASE i \in 1..Len(q)
    BY <1>1, <2>1 DEF From
  <2>2. CASE i = Len(q) + 1
    BY <1>1, <2>2
  <2> QED
    BY <1>1, <2>1, <2>2
<1> QED
  BY <1>2 DEF Ends, r

-----------------------------------------------------------------------------
(* Where the client is                                                      *)

\* Before the first Start: the opening Logoffs, then the socket.
Opening == (InLogoff /\ site = "open") \/ pc \in {"prepare", "start"}

\* From the first Start to the end of the EAP exchange.
Joining == pc = "login" \/ (InLoop /\ ~success /\ resev)

\* After a session and before the next one.
Between == ~Opening /\ ~Joining /\ ~Online

\* The waits of auth_8021x_Logoff still to come; each takes a frame.
Waits ==
    IF pc = "offSend" THEN logoffCnt ELSE IF pc = "offWait" THEN logoffCnt + 1 ELSE 0

\* Anything of the Dr.com exchange is on the way.
Chatter == toServer # <<>> \/ fromServer # <<>>

Stages ==
    /\ handle <=> pc \notin {"auth", "main", "exited"}
    /\ Opening \/ Joining \/ Online => handle
    /\ ~(Opening /\ Joining) /\ ~(Opening /\ Online) /\ ~(Joining /\ Online)
    /\ Opening => Waits \in 0..2
    /\ InLoop => ~Opening
    /\ ~handle => toClient = <<>>

LEMMA StageFacts == Base => Stages
<1> SUFFICES ASSUME Base PROVE Stages
  OBVIOUS
<1>1. handle <=> pc \notin {"auth", "main", "exited"}
  BY DEF Base, ClientOK, IInv, Resources
<1>2. Opening => Waits \in 0..2
  <2>1. Opening => IInv
    BY DEF Base, ClientOK, Opening, InLogoff
  <2> QED
    BY <2>1 DEF Waits, Opening, InLogoff, Base, Form, IInv, TypeOK, DataTypes
<1> QED
  BY <1>1, <1>2 DEF Stages, Opening, Joining, Online, InLogoff, InLoop, Base, Form

LEMMA StagesAfter == Base' => Stages'
BY StageFacts, PTL

\* The others leave the client where it is.
LEMMA StageUnchanged ==
    ASSUME UNCHANGED vars
    PROVE  /\ Opening' <=> Opening
           /\ Joining' <=> Joining
           /\ Online' <=> Online
           /\ Between' <=> Between
           /\ Waits' = Waits /\ handle' = handle /\ pc' = pc
BY DEF vars, sessionVars, logoffVars, resourceVars, Opening, Joining, Online, Between,
   Waits, InLogoff, InLoop

(***************************************************************************)
(* What a step of the client can do, seen from the wires: begin, go on     *)
(* with the opening Logoffs, send the first Start, go on with the EAP      *)
(* exchange, succeed, give up; be online; and be between two sessions.     *)
(***************************************************************************)
Heard == toClient # <<>> /\ toClient' = Tail(toClient)

Begins ==
    /\ Between /\ ~handle
    /\ Opening' /\ Waits' = 2
    /\ eapTx' = "none" /\ toClient' = toClient

Opens ==
    /\ Opening /\ Opening'
    /\ \/ /\ Waits' = Waits
          /\ eapTx' \in {"none", "logoff"} /\ toClient' = toClient
       \/ /\ Waits > 0 /\ Waits' = Waits - 1
          /\ eapTx' = "none"
          /\ (Quiet /\ toClient' = toClient) \/ Heard

Declines ==
    /\ Opening /\ Waits = 0
    /\ Between'
    /\ eapTx' = "none" /\ toClient' = <<>>

Joins ==
    /\ Opening /\ Waits = 0
    /\ Joining'
    /\ eapTx' = "startM" /\ toClient' = toClient

\* The answer of the EAP exchange to frame f.
Answering(f) ==
    IF f = "identity" THEN "respId" ELSE IF f = "md5" THEN "respMd5" ELSE "none"

GoesOn ==
    /\ Joining /\ Joining'
    /\ \/ Quiet /\ toClient' = toClient /\ eapTx' \in Starts \cup {"none"}
       \/ toClient' = toClient /\ eapTx' = "none"
       \/ /\ Heard
          /\ Head(toClient) \notin {"success", "failure"}
          /\ eapTx' = Answering(Head(toClient))

Succeeds ==
    /\ Joining /\ Online'
    /\ Heard /\ Head(toClient) = "success"
    /\ eapTx' = "none"

GivesUp ==
    /\ Joining /\ Between'
    /\ eapTx' = "none"
    /\ (Quiet /\ toClient' = toClient) \/ Heard

Stays ==
    /\ Online /\ (Online' \/ Between')
    /\ \/ toClient' = toClient /\ eapTx' = "none"
       \/ Heard /\ eapTx' = Answering(Head(toClient))

Idles ==
    /\ Between /\ Between'
    /\ eapTx' \in {"none", "logoff"}
    /\ toClient' = toClient \/ toClient' = <<>> \/ Heard
    /\ ~handle => ~handle' /\ pc' # "main" /\ eapTx' = "none"

Turn ==
    /\ Begins \/ Opens \/ Declines \/ Joins \/ GoesOn \/ Succeeds \/ GivesUp \/ Stays \/ Idles
    /\ night' = night \/ (Idles /\ pc = "main" /\ night)

\* What a frame that is handled makes of the EAP exchange.
LEMMA FrameTurns ==
    ASSUME NEW f \in EapFrame, NEW r \in Results, NEW t, Handler(f, t, r)
    PROVE  /\ eapTx' = Answering(f)
           /\ f = "success" => success'
           /\ f = "failure" => r # "ok"
           /\ f \notin {"success", "failure"} => (success' <=> success)
           /\ f = "failure" => ~success'
<1> USE DEF EapFrame, ErrorNotes, SendEap, NoEap, NoUdp, Silent, Answering
<1>1. CASE Reply(f, t, r)
  BY <1>1 DEF Reply
<1>2. CASE LogOnly(f, t, r)
  BY <1>2 DEF LogOnly
<1>3. CASE Refusal(f, t, r)
  BY <1>3 DEF Refusal
<1>4. CASE Failure(f, t, r)
  BY <1>4 DEF Failure
<1>5. CASE Granted(f, t, r)
  BY <1>5 DEF Granted
<1> QED
  BY <1>1, <1>2, <1>3, <1>4, <1>5 DEF Handler

LEMMA ClientTurn ==
    ASSUME Base, Client
    PROVE  Turn
<1>1. IInv /\ IInv' /\ Form'
  BY ClientLives, ClientIsOpen, StepKeepsIInv, ClientKeepsBase DEF Base
<1>2. /\ pc \in Points /\ logoffCnt \in 0..2
      /\ pc = "offWait" => logoffCnt \in {0, 1}
      /\ client \in {"login", "logoff"}
      /\ ~InLoop => ~success
      /\ success \in BOOLEAN /\ resev \in BOOLEAN
      /\ handle <=> pc \notin {"auth", "main", "exited"}
      /\ ~handle => toClient = <<>>
      /\ toClient \in Seq(EapFrame)
  BY <1>1 DEF IInv, TypeOK, DataTypes, FlagTypes, NoLeftovers, Resources, Base, Form,
     WireTypes
<1> USE DEF InLogoff, InLoop, Opening, Joining, Online, Between, Waits, Starts,
            SendEap, NoEap, NoUdp, Silent
<1> USE DEF sessionVars, resourceVars, mainVars, historyVars, outerVars, logoffVars
<1>3. CASE ClientMoves
  <2>1. night' = night /\ toClient' = IF handle' THEN toClient ELSE <<>>
    BY <1>3 DEF ClientMoves, Wired
  <2>2. CASE OpenCapture /\ handle'
    <3>1. Begins
      BY <1>2, <2>1, <2>2 DEF OpenCapture, BeginLogoff, Begins
    <3> QED
      BY <2>1, <3>1 DEF Turn
  <2>3. CASE LogoffSend
    <3>1. Opens \/ Idles
      BY <1>2, <2>1, <2>3 DEF LogoffSend, Opens, Idles
    <3> QED
      BY <2>1, <3>1 DEF Turn
  <2>4. CASE LogoffDone
    <3>1. Opens \/ Declines \/ Idles
      BY <1>2, <2>1, <2>4 DEF LogoffDone, Opens, Declines, Idles
    <3> QED
      BY <2>1, <3>1 DEF Turn
  <2>5. CASE LogoffWait /\ Quiet
    <3>1. Opens \/ Idles
      BY <1>2, <2>1, <2>5 DEF LogoffWait, Opens, Idles
    <3> QED
      BY <2>1, <3>1 DEF Turn
  <2>6. CASE OpenSocket /\ sock'
    <3>1. Opens
      BY <1>2, <2>1, <2>6 DEF OpenSocket, Opens
    <3> QED
      BY <2>1, <3>1 DEF Turn
  <2>7. CASE StartLogin
    <3>1. Joins
      BY <1>2, <2>1, <2>7 DEF StartLogin, Joins
    <3> QED
      BY <2>1, <3>1 DEF Turn
  <2>8. CASE LoginTimeout /\ Quiet
    <3>1. GoesOn
      BY <1>2, <2>1, <2>8 DEF LoginTimeout, OtherStart, GoesOn
    <3> QED
      BY <2>1, <3>1 DEF Turn
  <2>9. CASE LoginUnreachable /\ Quiet
    <3>1. GivesUp
      BY <1>2, <2>1, <2>9 DEF LoginUnreachable, LoginFails, BeginLogoff, GivesUp
    <3> QED
      BY <2>1, <3>1 DEF Turn
  <2>10. CASE LoopEnds \/ BeatOverdue
    <3>1. Stays \/ Idles
      BY <1>2, <2>1, <2>10
         DEF LoopEnds, BeatOverdue, BreakLoop, ReplyOverdue, Watching, LeaveLoop,
             BeginLogoff, Stays, Idles
    <3> QED
      BY <2>1, <3>1 DEF Turn
  <2>11. CASE BeatSent \/ NoBeat
    <3>1. GoesOn \/ Stays \/ Idles
      BY <1>2, <2>1, <2>11 DEF BeatSent, NoBeat, GoesOn, Stays, Idles
    <3> QED
      BY <2>1, <3>1 DEF Turn
  <2>12. CASE MainRestart \/ MainBackoff \/ MainExit
    <3>1. Idles
      BY <1>2, <2>1, <2>12 DEF MainRestart, MainBackoff, MainExit, MainOnly, Idles
    <3> QED
      BY <2>1, <3>1 DEF Turn
  <2> QED
    BY <1>3, <2>2, <2>3, <2>4, <2>5, <2>6, <2>7, <2>8, <2>9, <2>10, <2>11,
       <2>12 DEF ClientMoves
<1>4. CASE ClientHears
  <2>1. night' = night /\ toClient # <<>>
        /\ toClient' = IF handle' THEN Tail(toClient) ELSE <<>>
    BY <1>4 DEF ClientHears, Wired
  <2> DEFINE f == Head(toClient)
  <2>2. f \in EapFrame
    BY <1>2, <2>1
  <2> HIDE DEF f
  <2>3. CASE LogoffWait
    <3>1. Opens \/ Idles
      BY <1>2, <2>1, <2>3 DEF LogoffWait, Opens, Idles, Heard
    <3> QED
      BY <2>1, <3>1 DEF Turn
  <2>4. CASE LoginFrame(f)
    <3>1. PICK r \in Results :
             /\ Handler(f, RecvTimes, r)
             /\ IF r = "ok" THEN pc' = "eap" ELSE LoginFails("eproto")
      BY <2>4 DEF LoginFrame
    <3>2. /\ eapTx' = Answering(f)
          /\ f \in {"identity", "md5", "success"} => r = "ok"
          /\ f = "success" => success'
          /\ f = "failure" => r # "ok"
          /\ f # "success" => ~success'
      BY <1>2, <2>2, <2>4, <3>1, FrameTurns, FrameEffect DEF LoginFrame
    <3>3. Joining /\ resev' /\ handle' /\ ~Opening /\ ~Online
      BY <1>2, <2>4 DEF LoginFrame
    <3>4. CASE f = "success"
      <4>1. Succeeds
        BY <2>1, <3>1, <3>2, <3>3, <3>4 DEF Succeeds, Heard, f, Answering
      <4> QED
        BY <2>1, <4>1 DEF Turn
    <3>5. CASE f # "success" /\ r = "ok"
      <4>1. GoesOn
        BY <2>1, <3>1, <3>2, <3>3, <3>5 DEF GoesOn, Heard, f
      <4> QED
        BY <2>1, <4>1 DEF Turn
    <3>6. CASE r # "ok"
      <4>1. eapTx' = "none"
        BY <3>2, <3>6 DEF Answering
      <4>2. GivesUp
        BY <2>1, <3>1, <3>2, <3>3, <3>6, <4>1
           DEF GivesUp, Heard, LoginFails, BeginLogoff
      <4> QED
        BY <2>1, <4>2 DEF Turn
    <3> QED
      BY <3>4, <3>5, <3>6
  <2>5. CASE LoopFrame(f)
    <3>1. PICK r \in Results :
             /\ Handler(f, times, r)
             /\ resev' = (r = "ok")
             /\ pc' = IF r = "exit" THEN "exited" ELSE "udp"
      BY <2>5 DEF LoopFrame
    <3>2. /\ eapTx' = Answering(f)
          /\ f \in {"identity", "md5", "success"} => r = "ok"
          /\ f = "success" => success'
          /\ f = "failure" => r # "ok" /\ ~success'
          /\ f \notin {"success", "failure"} => (success' <=> success)
      BY <2>2, <3>1, FrameTurns, FrameEffect
    <3>3. pc = "eap" /\ resev /\ handle' /\ ~Opening
      BY <1>2, <2>5 DEF LoopFrame
    <3>4. pc' = "udp"
      BY <1>1, <3>1, <3>3 DEF IInv, Resources
    <3>5. CASE success
      <4>1. Stays
        BY <2>1, <3>1, <3>2, <3>3, <3>4, <3>5 DEF Stays, Heard, f
      <4> QED
        BY <2>1, <4>1 DEF Turn
    <3>6. CASE ~success /\ f = "success"
      <4>1. Succeeds
        BY <2>1, <3>1, <3>2, <3>3, <3>4, <3>6 DEF Succeeds, Heard, f, Answering
      <4> QED
        BY <2>1, <4>1 DEF Turn
    <3>7. CASE ~success /\ f # "success" /\ r = "ok"
      <4>1. GoesOn
        BY <2>1, <3>1, <3>2, <3>3, <3>4, <3>7 DEF GoesOn, Heard, f
      <4> QED
        BY <2>1, <4>1 DEF Turn
    <3>8. CASE ~success /\ f # "success" /\ r # "ok"
      <4>1. eapTx' = "none"
        BY <3>2, <3>8 DEF Answering
      <4>2. GivesUp
        BY <2>1, <3>1, <3>2, <3>3, <3>4, <3>8, <4>1 DEF GivesUp, Heard
      <4> QED
        BY <2>1, <4>2 DEF Turn
    <3> QED
      BY <1>2, <3>5, <3>6, <3>7, <3>8
  <2> QED
    BY <1>4, <2>3, <2>4, <2>5 DEF ClientHears, f
<1>5. CASE ClientPolls
  <2>1. GoesOn \/ Stays
    BY <1>2, <1>5 DEF ClientPolls, Wired, LoopQuiet, GoesOn, Stays
  <2> QED
    BY <1>5, <2>1 DEF Turn, ClientPolls
<1>6. CASE ClientReads
  <2>1. PICK g : LoopDatagram(g)
    BY <1>6 DEF ClientReads
  <2>2. GoesOn \/ Stays \/ Idles
    BY <1>2, <1>6, <2>1 DEF ClientReads, Wired, LoopDatagram, GoesOn, Stays, Idles
  <2> QED
    BY <1>6, <2>2 DEF Turn, ClientReads
<1>7. CASE ClientWaits
  <2>1. Idles /\ pc = "main" /\ (night' = night \/ night)
    BY <1>2, <1>7 DEF ClientWaits, Wired, MainWait, MainOnly, Idles, Base, PeerTypes
  <2> QED
    BY <2>1 DEF Turn
<1> QED
  BY <1>3, <1>4, <1>5, <1>6, <1>7 DEF Client, ClientActs

-----------------------------------------------------------------------------
(* What is ahead                                                            *)

\* The frames ahead, and the FAILURE that the switch owes for its port.
Owing == Ahead + Bit(port # "closed")

LEMMA OwingFacts ==
    ASSUME Base
    PROVE  /\ Len(toClient) \in Nat /\ Load(toSwitch) \in Nat
           /\ Bit(port # "closed") \in 0..1 /\ Bit(night) \in 0..1
           /\ Owing = Len(toClient) + Load(toSwitch) + Bit(port # "closed")
           /\ toSwitch \in Seq(EapOut) /\ toClient \in Seq(EapFrame)
BY LoadType DEF Base, WireTypes, Owing, Ahead, Bit

\* The same after a step.
LEMMA OwingAfter ==
    ASSUME Base'
    PROVE  /\ Len(toClient') \in Nat /\ Load(toSwitch') \in Nat
           /\ Bit(port' # "closed") \in 0..1 /\ Bit(night') \in 0..1
           /\ Owing' = Len(toClient') + Load(toSwitch') + Bit(port' # "closed")
           /\ toSwitch' \in Seq(EapOut) /\ toClient' \in Seq(EapFrame)
BY LoadType DEF Base, WireTypes, Owing, Ahead, Bit

\* What a step of the client adds and takes.
LEMMA ClientOwes ==
    ASSUME Base, Client
    PROVE  /\ Owing' + Len(toClient) = Owing + Weight(eapTx') + Len(toClient')
           /\ Len(toClient') <= Len(toClient)
           /\ Heard => Len(toClient') + 1 = Len(toClient)
           /\ Load(toSwitch') = Load(toSwitch) + Weight(eapTx')
           /\ toSwitch' = Put(toSwitch, eapTx') /\ eapTx' \in EapOut \cup {"none"}
           /\ port' = port
<1>1. IInv /\ IInv'
  BY ClientLives, ClientIsOpen, StepKeepsIInv DEF Base
<1>2. port' = port /\ toSwitch' = Put(toSwitch, eapTx') /\ eapTx' \in EapOut \cup {"none"}
  BY <1>1, ClientWires DEF Base, IInv, TypeOK, DataTypes
<1>3. Base'
  BY ClientKeepsBase
<1>4. /\ Load(toSwitch') = Load(toSwitch) + Weight(eapTx')
      /\ Len(toClient') <= Len(toClient)
  BY ClientAhead
<1>5. Heard => Len(toClient') + 1 = Len(toClient)
  BY OwingFacts DEF Heard
<1>6. Weight(eapTx') \in Nat
  BY WeightType
<1>7. Owing' + Len(toClient) = Owing + Weight(eapTx') + Len(toClient')
  <2> DEFINE l == Len(toClient)
             m == Len(toClient')
             n == Load(toSwitch)
             w == Weight(eapTx')
             b == Bit(port # "closed")
  <2>1. /\ l \in Nat /\ n \in Nat /\ b \in 0..1 /\ Owing = l + n + b
        /\ m \in Nat /\ Owing' = m + (n + w) + b /\ w \in Nat
    BY <1>2, <1>3, <1>4, <1>6, OwingFacts, OwingAfter
  <2> HIDE DEF l, m, n, w, b
  <2>2. Owing' + l = Owing + w + m
    BY <2>1
  <2> QED
    BY <2>2 DEF l, m, w
<1> QED
  BY <1>2, <1>4, <1>5, <1>7

\* What the switch hears brings no more than was counted for it.
LEMMA SwitchHearsOwes ==
    ASSUME Base, SwitchHears
    PROVE  Owing' <= Owing
<1> DEFINE f == Head(toSwitch)
           w == Weight(f)
           n == Load(toSwitch')
           l == Len(toClient)
           m == Len(toClient')
           b == Bit(port # "closed")
           d == Bit(port' # "closed")
<1>1. toSwitch \in Seq(EapOut) /\ toSwitch # <<>> /\ toSwitch' = Tail(toSwitch)
  BY DEF SwitchHears, Base, WireTypes
<1>2. Load(toSwitch) = w + n
  BY <1>1, LoadTail
<1>3. Base'
  BY SwitchHearsKeepsBase
<1> PICK frames \in Seq(EapFrame) : Sends(frames) /\ SwitchAnswers(f, frames)
  BY SwitchHearsCases
<1> DEFINE k == Len(frames)
<1>4. l \in Nat /\ m \in Nat /\ m <= l + k /\ n \in Nat
  BY <1>3, SendsAhead, OwingAfter DEF Base
<1>5. k \in 0..2 /\ b \in 0..1 /\ d \in 0..1 /\ w \in 0..2 /\ k + d <= w + b
  <2> HIDE DEF f
  <2>1. b = (IF port = "closed" THEN 0 ELSE 1) /\ d = (IF port' = "closed" THEN 0 ELSE 1)
    BY DEF Bit
  <2> HIDE DEF b, d
  <2>2. CASE f \in Starts
    <3>1. w = 2
      BY <2>2 DEF Weight
    <3>2. k = 1 \/ (k = 2 /\ d = 0)
      BY <2>1, <2>2, FramesLength DEF SwitchAnswers, Starts
    <3> HIDE DEF w, k
    <3> QED
      BY <2>1, <3>1, <3>2
  <2>3. CASE f \in {"respId", "respMd5"}
    <3>1. w = 1
      BY <2>3 DEF Weight, Starts
    <3>2. \/ k = 1 /\ b = 1
          \/ k = 2 /\ b = 1 /\ d = 0
          \/ k = 0 /\ d = b
      BY <2>1, <2>3, FramesLength DEF SwitchAnswers, Starts
    <3> HIDE DEF w, k
    <3> QED
      BY <2>1, <3>1, <3>2
  <2>4. CASE f = "logoff"
    <3>1. w = 0
      BY <2>4 DEF Weight, Starts
    <3>2. k = b /\ d = 0
      BY <2>1, <2>4, FramesLength DEF SwitchAnswers, Starts
    <3> HIDE DEF w, k
    <3> QED
      BY <2>1, <3>1, <3>2
  <2> QED
    BY <2>2, <2>3, <2>4 DEF SwitchAnswers
<1>6. Owing = l + (w + n) + b /\ Owing' = m + n + d
  BY <1>2, <1>3, OwingFacts, OwingAfter
<1> HIDE DEF w, n, l, m, b, d, k
<1> QED
  BY <1>4, <1>5, <1>6

\* Nor does what only takes from the wires.
LEMMA LessOwes ==
    ASSUME Base, Base', port' = port,
           toSwitch' = toSwitch \/ (toSwitch # <<>> /\ toSwitch' = Tail(toSwitch)),
           toClient' = toClient \/ toClient' = <<>> \/ Heard
    PROVE  Owing' <= Owing /\ Load(toSwitch') <= Load(toSwitch)
<1>1. Load(toSwitch') <= Load(toSwitch)
  <2>1. CASE toSwitch' = toSwitch
    BY <2>1, OwingFacts
  <2>2. CASE toSwitch # <<>> /\ toSwitch' = Tail(toSwitch)
    BY <2>2, LoadTail, OwingFacts, OwingAfter, WeightType
  <2> QED
    BY <2>1, <2>2
<1>2. Len(toClient') <= Len(toClient)
  BY OwingFacts DEF Heard
<1> QED
  BY <1>1, <1>2, OwingFacts, OwingAfter

\* A FAILURE for a port that is dropped was counted; a night's notice is one more.
LEMMA DropsOwes ==
    ASSUME Base, SwitchDrops
    PROVE  /\ Owing' <= Owing \/ (Owing' <= Owing + 1 /\ night' /\ handle)
           /\ port = "open" /\ port' = "closed" /\ ~night /\ toSwitch' = toSwitch
           /\ Owing >= 1
<1>1. Base'
  BY SwitchActsKeepsBase
<1>2. port = "open" /\ port' = "closed" /\ ~night /\ toSwitch' = toSwitch
  BY DEF SwitchDrops, Base, Form
<1>3. Bit(port # "closed") = 1 /\ Bit(port' # "closed") = 0
  BY <1>2 DEF Bit
<1>4. PICK frames \in Seq(EapFrame) :
         Sends(frames) /\ \/ Len(frames) = 1
                          \/ night' = TRUE /\ Len(frames) = 2
  BY FramesLength, FramesTyped DEF SwitchDrops
<1>5. CASE handle
  <2> DEFINE k == Len(frames)
             l == Len(toClient)
             m == Len(toClient')
             n == Load(toSwitch)
  <2>1. /\ l \in Nat /\ m \in Nat /\ m <= l + k /\ n \in Nat
        /\ Owing = l + n + 1 /\ Owing' = m + n + 0
        /\ k = 1 \/ (night' /\ k = 2)
    BY <1>1, <1>2, <1>3, <1>4, SendsAhead, OwingFacts, OwingAfter DEF Base
  <2> HIDE DEF k, l, m, n
  <2> QED
    BY <1>2, <1>5, <2>1
<1>6. CASE ~handle
  <2>1. toClient' = toClient
    BY <1>4, <1>6 DEF Sends
  <2> QED
    BY <1>1, <1>2, <1>3, <2>1, OwingFacts, OwingAfter
<1> QED
  BY <1>2, <1>5, <1>6

\* Such a sum never falls.
LEMMA Rises ==
    ASSUME NEW S, NEW q \in Seq(S), NEW sum, Adds(sum, q), NEW i \in 0..Len(q)
    PROVE  sum[Len(q)] >= sum[i]
<1> DEFINE N == Len(q)
           P == {k \in i..N : sum[k] >= sum[i]}
<1>1. N \in Nat /\ i \in Nat /\ i <= N /\ \A k \in 0..N : sum[k] \in Nat
  <2>1. sum \in [0..N -> Nat]
    BY DEF Adds
  <2>2. N \in Nat
    OBVIOUS
  <2> HIDE DEF N
  <2> QED
    BY <2>1, <2>2
<1>2. i \in P
  BY <1>1
<1>3. \A k \in i..N : k < N /\ k \in P => k + 1 \in P
  <2> SUFFICES ASSUME NEW k \in i..N, k < N, sum[k] >= sum[i]
               PROVE  k + 1 \in i..N /\ sum[k + 1] >= sum[i]
    OBVIOUS
  <2>1. k + 1 \in 1..N /\ (k + 1) - 1 = k /\ k \in 0..N /\ k + 1 \in 0..N
    BY <1>1
  <2>2. sum[k + 1] = sum[k] + Weight(q[k + 1])
    BY <2>1 DEF Adds
  <2> QED
    BY <1>1, <2>1, <2>2, WeightType
<1>4. \A k \in i..N : k \in P
  <2> HIDE DEF P, N
  <2> QED
    BY <1>1, <1>2, <1>3, UpTo
<1> QED
  BY <1>1, <1>4

\* Two messages of a queue weigh no more than the queue.
LEMMA TwoWeigh ==
    ASSUME NEW S, NEW q \in Seq(S), NEW i \in 1..Len(q), NEW j \in 1..Len(q), i < j
    PROVE  Load(q) >= Weight(q[i]) + Weight(q[j])
<1>1. PICK sum : Adds(sum, q) /\ Load(q) = sum[Len(q)]
  BY Added
<1>2. j - 1 \in i..Len(q) /\ j - 1 \in 0..Len(q) /\ j \in 0..Len(q) /\ Len(q) \in Nat
  OBVIOUS
<1>3. sum[j - 1] >= Weight(q[i])
  BY <1>1, <1>2, Above
<1>4. sum[Len(q)] >= sum[j]
  BY <1>1, <1>2, Rises
<1>5. sum[j] = sum[j - 1] + Weight(q[j])
  BY <1>1 DEF Adds
<1>6. sum[j] \in Nat /\ sum[j - 1] \in Nat /\ sum[Len(q)] \in Nat
  <2>1. sum \in [0..Len(q) -> Nat]
    BY <1>1 DEF Adds
  <2>2. Len(q) \in 0..Len(q)
    BY <1>2
  <2> QED
    BY <1>2, <2>1, <2>2
<1> QED
  BY <1>1, <1>3, <1>4, <1>5, <1>6, WeightType

\* A queue that weighs little holds little but Logoffs.
LEMMA LightIsOne ==
    ASSUME NEW q \in Seq(EapOut), Load(q) <= 1 \/ (Load(q) <= 2 /\ StartIn(q))
    PROVE  One(q, "logoff")
<1>1. \A i \in 1..Len(q) : q[i] # "logoff" => Weight(q[i]) >= 1
  BY DEF EapOut, Weight, Starts
<1>2. Load(q) \in Nat
  BY LoadType
<1>3. ASSUME NEW i \in 1..Len(q), NEW j \in 1..Len(q), i < j, q[i] # "logoff", q[j] # "logoff"
      PROVE  FALSE
  <2>1. Load(q) >= Weight(q[i]) + Weight(q[j]) /\ Weight(q[i]) \in Nat /\ Weight(q[j]) \in Nat
    BY <1>3, TwoWeigh, WeightType
  <2>2. Weight(q[i]) >= 1 /\ Weight(q[j]) >= 1
    BY <1>1, <1>3
  <2>3. PICK s \in 1..Len(q) : q[s] \in Starts
    BY <1>2, <2>1, <2>2 DEF StartIn
  <2>4. Weight(q[s]) = 2
    BY <2>3 DEF Weight
  <2>5. s # i /\ s # j
    BY <1>2, <2>1, <2>2, <2>4
  <2>6. Load(q) >= Weight(q[s]) + Weight(q[i])
    <3>1. CASE s < i
      BY <3>1, TwoWeigh
    <3>2. CASE i < s
      BY <3>2, TwoWeigh, <2>1, <2>4
    <3> QED
      BY <2>5, <3>1, <3>2
  <2> QED
    BY <1>2, <2>1, <2>2, <2>4, <2>6
<1> QED
  BY <1>3 DEF One

-----------------------------------------------------------------------------
(* The Dr.com exchange                                                      *)

\* What a client does that is online after the step: it has just succeeded,
\* has heard a frame or nothing, has sent a keep-alive, or has read a datagram.
Enters ==
    /\ Succeeds
    /\ udpTx' = "startAlive" /\ ~hbDone'
    /\ UNCHANGED <<fromServer, kept>>

Listens ==
    /\ Online
    /\ udpTx' = "none"
    /\ UNCHANGED <<hbDone, needHB, fromServer>>
    /\ kept' = kept \/ (Heard /\ Head(toClient) = "md5")

Regrants == Online /\ Heard /\ Head(toClient) = "success"

Beats ==
    /\ Online /\ hbDone /\ needHB
    /\ udpTx' = "beat" /\ ~hbDone'
    /\ UNCHANGED <<fromServer, kept>>

Reads ==
    /\ Online
    /\ \E g \in Datagram :
          /\ \/ fromServer = <<>> /\ fromServer' = <<>> /\ g = "other"
             \/ fromServer # <<>> /\ fromServer' = Tail(fromServer) /\ g = Head(fromServer)
          /\ DatagramEffect(g)
          /\ udpTx' = Answer(g)
          /\ kept' = kept \cup Filled(g)

Exchanges == Enters \/ Listens \/ Regrants \/ Beats \/ Reads

\* The digest is kept from the answer to the challenge to the next login.
Digest ==
    /\ eapTx' = "respMd5" => "md5" \in kept'
    /\ "md5" \in kept /\ ~Opening => "md5" \in kept'

Carries ==
    /\ Client
    /\ Online' => Exchanges
    /\ ~Online' => udpTx' = "none"
    /\ toServer' = Put(toServer, udpTx')
    /\ \/ fromServer' = <<>> \/ fromServer' = fromServer
       \/ fromServer # <<>> /\ fromServer' = Tail(fromServer)
    /\ Digest

LEMMA ClientCarries ==
    ASSUME Base, ClientKeeps
    PROVE  Carries
<1>1. Client
  BY DEF ClientKeeps, HearsAndKeeps, ReadsAndKeeps, MovesAndKeeps, StaysAndKeeps, Client,
     ClientActs
<1>2. IInv /\ IInv'
  BY <1>1, ClientLives, ClientIsOpen, StepKeepsIInv DEF Base
<1>3. /\ ~InLoop => ~success
      /\ ~InLoop' => ~success'
      /\ success \in BOOLEAN /\ resev \in BOOLEAN /\ needHB \in BOOLEAN
      /\ hbDone \in BOOLEAN /\ times \in 0..RecvTimes /\ since \in 0..MaxAge
      /\ handle <=> pc \notin {"auth", "main", "exited"}
      /\ sock' <=> pc' \in Talking
  BY <1>2 DEF IInv, TypeOK, DataTypes, FlagTypes, NoLeftovers, Resources
<1>4. toClient \in Seq(EapFrame) /\ fromServer \in Seq(Datagram)
  BY DEF Base, WireTypes
<1>5. toServer' = Put(toServer, udpTx')
      /\ \/ fromServer' = <<>> \/ fromServer' = fromServer
         \/ fromServer # <<>> /\ fromServer' = Tail(fromServer)
  BY DEF ClientKeeps, HearsAndKeeps, ReadsAndKeeps, MovesAndKeeps, StaysAndKeeps,
     ClientMoves, ClientHears, ClientPolls, ClientReads, ClientWaits, Wired
<1> USE DEF InLogoff, InLoop, Opening, Joining, Online, Talking, NoEap, NoUdp, Silent
<1> USE DEF sessionVars, resourceVars, mainVars, historyVars, outerVars, logoffVars
<1>6. CASE HearsAndKeeps
  <2> DEFINE f == Head(toClient)
  <2>1. /\ toClient # <<>> /\ toClient' = IF handle' THEN Tail(toClient) ELSE <<>>
        /\ fromServer' = IF sock' THEN fromServer ELSE <<>>
        /\ f \in EapFrame
        /\ kept' = IF eapTx' = "respMd5" THEN {"md5"} \cup (kept \ {"crc"}) ELSE kept
    BY <1>4, <1>6 DEF HearsAndKeeps, ClientHears, Wired
  <2>2. Digest
    BY <2>1 DEF Digest
  <2> HIDE DEF f
  <2>3. CASE LogoffWait
    BY <1>1, <1>3, <1>5, <2>2, <2>3 DEF LogoffWait, Carries
  <2>4. CASE LoginFrame(f) \/ LoopFrame(f)
    <3>1. PICK r \in Results, t \in 0..RecvTimes : Handler(f, t, r)
      BY <1>3, <2>4, RetryAssumption DEF LoginFrame, LoopFrame
    <3>2. Effect(f, t, r) /\ eapTx' = Answering(f)
          /\ (f # "success" => udpTx' = "none")
          /\ (f = "success" => udpTx' = "startAlive" /\ ~hbDone')
          /\ (f \notin {"success", "failure"} => UNCHANGED <<success, needHB, hbDone>>)
          /\ (f = "failure" => ~success')
      BY <1>2, <2>1, <3>1, HandlerEffect, FrameTurns
         DEF IInv, TypeOK, Handler, Reply, LogOnly, Refusal, Failure, Granted, ErrorNotes
    <3>3. ~Online' => udpTx' = "none"
      BY <1>3, <3>2 DEF Effect
    <3>4. ASSUME Online' PROVE Exchanges
      <4>1. /\ toClient' = Tail(toClient) /\ fromServer' = fromServer
            /\ eapTx' # "respMd5" => kept' = kept
        BY <1>2, <2>1, <3>4 DEF IInv, Resources
      <4>2. CASE f = "success" /\ ~Online
        <5>1. Succeeds
          BY <1>3, <2>1, <2>4, <3>2, <3>4, <4>1, <4>2
             DEF Succeeds, Heard, f, Answering, LoginFrame, LoopFrame
        <5> QED
          BY <3>2, <4>1, <4>2, <5>1 DEF Exchanges, Enters, Answering
      <4>3. CASE f = "success" /\ Online
        BY <2>1, <4>1, <4>3 DEF Exchanges, Regrants, Heard, f
      <4>4. CASE f # "success"
        <5>1. Online /\ f # "failure"
          BY <1>3, <3>2, <3>4, <4>4
        <5>2. Listens
          BY <2>1, <3>2, <4>1, <4>4, <5>1 DEF Listens, Heard, f, Answering
        <5> QED
          BY <5>2 DEF Exchanges
      <4> QED
        BY <4>2, <4>3, <4>4
    <3> QED
      BY <1>1, <1>5, <2>2, <3>3, <3>4 DEF Carries
  <2> QED
    BY <1>6, <2>3, <2>4 DEF HearsAndKeeps, ClientHears, f
<1>7. CASE ReadsAndKeeps
  <2> DEFINE g == IF fromServer = <<>> THEN "other" ELSE Head(fromServer)
  <2>1. LoopDatagram(g) /\ g \in Datagram /\ kept' = kept \cup Filled(g)
        /\ fromServer' = IF sock'
                           THEN IF fromServer = <<>> THEN <<>> ELSE Tail(fromServer)
                           ELSE <<>>
    BY <1>4, <1>7 DEF ReadsAndKeeps, ClientReads, Wired, Filled, Datagram
  <2>2. fromServer = <<>> => g = "other"
    OBVIOUS
  <2>3. fromServer # <<>> => g = Head(fromServer)
    OBVIOUS
  <2> HIDE DEF g
  <2>4. Digest
    BY <2>1 DEF Digest, LoopDatagram
  <2>5. sock' /\ (Online' <=> Online) /\ udpTx' = IF success THEN Answer(g) ELSE "none"
    BY <1>3, <2>1 DEF LoopDatagram
  <2>6. Online => DatagramEffect(g) /\ udpTx' = Answer(g)
    BY <2>1, <2>5 DEF LoopDatagram
  <2>7. Online' => Reads
    <3>1. \/ fromServer = <<>> /\ fromServer' = <<>> /\ g = "other"
          \/ fromServer # <<>> /\ fromServer' = Tail(fromServer) /\ g = Head(fromServer)
      BY <2>1, <2>2, <2>3, <2>5
    <3>2. Online' => \E x \in Datagram :
             /\ \/ fromServer = <<>> /\ fromServer' = <<>> /\ x = "other"
                \/ fromServer # <<>> /\ fromServer' = Tail(fromServer) /\ x = Head(fromServer)
             /\ DatagramEffect(x)
             /\ udpTx' = Answer(x)
             /\ kept' = kept \cup Filled(x)
      <4> HIDE DEF Online
      <4> QED
        BY <2>1, <2>5, <2>6, <3>1
    <3> HIDE DEF Online
    <3> QED
      BY <2>5, <3>2 DEF Reads
  <2>8. ~Online' => udpTx' = "none"
    BY <1>3, <2>1, <2>5 DEF LoopDatagram
  <2> QED
    BY <1>1, <1>5, <2>4, <2>7, <2>8 DEF Carries, Exchanges
<1>8. CASE MovesAndKeeps
  <2>1. fromServer' = (IF sock' THEN fromServer ELSE <<>>)
        /\ kept' = (IF pc = "start" THEN {} ELSE kept)
    BY <1>8 DEF MovesAndKeeps, ClientMoves, Wired
  <2>2. eapTx' \in Starts \cup {"none", "logoff"}
    BY <1>8
       DEF MovesAndKeeps, ClientMoves, OpenCapture, LogoffSend, LogoffDone, OpenSocket,
           StartLogin, LoopEnds, BeatOverdue, BreakLoop, BeatSent, NoBeat,
           MainRestart, MainBackoff, MainExit, MainOnly, LogoffWait, LoginTimeout,
           OtherStart, LoginUnreachable, SendEap, Starts
  <2>3. Digest
    BY <2>1, <2>2 DEF Digest, Starts
  <2>4. CASE BeatSent
    <3>1. Online /\ Online' /\ hbDone /\ needHB /\ sock' /\ pc # "start"
      BY <1>3, <2>4, TimerAssumption
         DEF BeatSent, BeatDue, ReplyOverdue, Watching, MaxAge
    <3>2. Beats
      BY <2>1, <2>4, <3>1 DEF Beats, BeatSent
    <3> QED
      BY <1>1, <1>5, <2>3, <3>1, <3>2 DEF Carries, Exchanges
  <2>5. CASE NoBeat
    <3>1. Online' => Listens
      BY <1>3, <2>1, <2>5 DEF Listens, NoBeat
    <3>2. udpTx' = "none"
      BY <2>5 DEF NoBeat
    <3> QED
      BY <1>1, <1>5, <2>3, <3>1, <3>2 DEF Carries, Exchanges
  <2>6. CASE ~BeatSent /\ ~NoBeat
    <3>1. ~InLoop' \/ ~success'
      BY <1>3, <1>8, <2>6
         DEF MovesAndKeeps, ClientMoves, OpenCapture, BeginLogoff, LogoffSend, LogoffDone,
             OpenSocket, StartLogin, LoopEnds, BeatOverdue, BreakLoop, LeaveLoop,
             MainRestart, MainBackoff, MainExit, MainOnly, LogoffWait, LoginTimeout,
             LoginUnreachable, LoginFails
    <3>2. udpTx' = "none"
      BY <1>8, <2>6
         DEF MovesAndKeeps, ClientMoves, OpenCapture, LogoffSend, LogoffDone, OpenSocket,
             StartLogin, LoopEnds, BeatOverdue, BreakLoop, MainRestart, MainBackoff,
             MainExit, MainOnly, LogoffWait, LoginTimeout, LoginUnreachable
    <3> QED
      BY <1>1, <1>5, <2>3, <3>1, <3>2 DEF Carries
  <2> QED
    BY <2>4, <2>5, <2>6
<1>9. CASE StaysAndKeeps
  <2>1. kept' = kept /\ fromServer' = (IF sock' THEN fromServer ELSE <<>>)
        /\ udpTx' = "none" /\ eapTx' = "none"
    BY <1>9
       DEF StaysAndKeeps, ClientPolls, ClientWaits, Wired, LoopQuiet, MainWait, MainOnly
  <2>2. Digest
    BY <2>1 DEF Digest
  <2>3. Online' => Listens
    BY <1>3, <1>9, <2>1
       DEF StaysAndKeeps, ClientPolls, ClientWaits, LoopQuiet, MainWait, MainOnly, Listens
  <2> QED
    BY <1>1, <1>5, <2>1, <2>2, <2>3 DEF Carries, Exchanges
<1> QED
  BY <1>6, <1>7, <1>8, <1>9 DEF ClientKeeps

-----------------------------------------------------------------------------
(* The invariant                                                            *)

\* At most one message each way is more than a Logoff and its FAILURE, and not
\* both ways at once.
Single ==
    /\ One(toSwitch, "logoff") /\ One(toClient, "failure")
    /\ From(toSwitch, 0, {"logoff"}) \/ From(toClient, 0, {"failure"})

\* The waits to come take all that is more.
Ordered ==
    /\ From(toClient, Waits, {"failure"})
    /\ \/ From(toSwitch, 0, {"logoff"})
       \/ Len(toClient) + Bit(port # "closed") + 1 <= Waits

\* Nothing but answers that nobody waits for is on the way.
Dead == port = "closed" /\ toClient = <<>> /\ ~StartIn(toSwitch)

\* By day, little of an earlier login is left between two sessions, and nothing
\* once the opening Logoffs are through.
Scarce ==
    ~night =>
        /\ Between => Single \/ (Dead /\ ~handle)
        /\ Opening => (Waits = 2 /\ Dead) \/ (Single /\ Ordered)

\* By night, no SUCCESS is left.
NoSuccess == EapFrame \ {"success"}

Spared == night /\ Opening => From(toClient, Waits, NoSuccess)

\* What ends a session from the switch's side.
Endings == IF night THEN {"noteOffHours", "failure"} ELSE {"failure"}

\* The SUCCESS is the next frame, for the credentials of this login.
Granting ==
    /\ toSwitch = <<>> /\ toClient # <<>> /\ Head(toClient) = "success"
    /\ From(toClient, 1, Endings)
    /\ port \in {"closed", "open"}
    /\ port = "open" => Len(toClient) = 1
    /\ ~Chatter
    /\ "md5" \in kept

\* The EAP exchange, turn by turn: the Start, the request, the two responses.
Started == Ends(toSwitch, "logoff", Starts) /\ From(toClient, 0, {"failure"})

Asked == toSwitch = <<>> /\ port = "identity" /\ Ends(toClient, "failure", {"identity"})

Named == toClient = <<>> /\ toSwitch = <<"respId">> /\ port = "identity"

Challenged == toSwitch = <<>> /\ toClient = <<"md5">> /\ port = "challenge"

Answered ==
    toClient = <<>> /\ toSwitch = <<"respMd5">> /\ port = "challenge" /\ "md5" \in kept

InTurn == Started \/ Asked \/ Named \/ Challenged \/ Answered \/ Granting

\* By day the exchange goes turn by turn, by night it can only fail.
Flow ==
    Joining =>
        /\ ~night => InTurn
        /\ night => From(toClient, 0, NoSuccess) \/ Granting

\* Online, nothing more of the EAP exchange is on the way.
Clear ==
    Online =>
        /\ toSwitch = <<>> /\ From(toClient, 0, Endings)
        /\ port \in {"closed", "open"}
        /\ port = "open" => toClient = <<>>

\* As long as a datagram of an earlier session is on the way, the frames ahead
\* do not suffice for a login.
Stale ==
    Chatter =>
        /\ Opening => Owing + 1 <= Waits + Bit(night)
        /\ Joining => night /\ Owing <= 2
        /\ Between => \/ Owing <= 1
                      \/ port = "closed" /\ Load(toSwitch) = 0
                      \/ ~handle /\ pc # "main" /\ Owing <= 1 + Bit(night)

\* A step of the switch, the server or the network, or none.
Others ==
    SwitchHears \/ SwitchRepeats \/ SwitchDrops \/ ServerHears \/ Loses \/ UNCHANGED campusVars

\* The user's kill and restart.
Cuts ==
    /\ Between' /\ ~handle' /\ pc' # "main"
    /\ toClient' = <<>>
    /\ fromServer' = <<>> \/ fromServer' = fromServer
    /\ UNCHANGED <<toSwitch, toServer, port, night>>

\* Every step is one of the three.
LEMMA PacketsCases ==
    ASSUME Base, [PacketsNext]_packetsVars
    PROVE  /\ [CampusNext]_campusVars /\ Base'
           /\ \/ Carries /\ Turn
              \/ Others /\ UNCHANGED <<vars, kept>>
              \/ Cuts /\ udpTx' = "none"
<1>1. CASE ClientKeeps
  <2>1. Carries /\ Client
    BY <1>1, ClientCarries DEF Carries
  <2>2. [CampusNext]_campusVars
    BY <2>1 DEF CampusNext
  <2> QED
    BY <2>1, <2>2, ClientTurn, StepKeepsBase
<1>2. CASE Kill \/ Restart
  <2>1. [CampusNext]_campusVars /\ Base'
    BY <1>2, StepKeepsBase DEF CampusNext
  <2>2. Cuts /\ udpTx' = "none"
    <3>1. pc' \in {"auth", "exited"}
      BY <1>2 DEF Kill, Vanishes, Restart
    <3>2. Between'
      BY <3>1 DEF Between, Opening, Joining, Online, InLogoff, InLoop
    <3>3. CASE Kill
      BY <3>1, <3>2, <3>3 DEF Kill, Vanishes, Cuts, Silent, NoUdp
    <3>4. CASE Restart
      <4>1. ~handle /\ toClient = <<>>
        BY <3>4 DEF Restart, Base, ClientOK, Form
      <4> QED
        BY <3>1, <3>2, <3>4, <4>1 DEF Restart, Cuts, wires, resourceVars
    <3> QED
      BY <1>2, <3>3, <3>4
  <2> QED
    BY <2>1, <2>2
<1>3. CASE ~ClientKeeps /\ ~Kill /\ ~Restart
  <2>1. Others /\ UNCHANGED <<vars, kept>>
    BY <1>3
       DEF PacketsNext, RestartsEmpty, Elsewhere, packetsVars, campusVars, Over, Others,
           SwitchHears, SwitchRepeats, SwitchDrops, ServerHears, Loses
  <2>2. [CampusNext]_campusVars
    BY <2>1 DEF Others, CampusNext
  <2> QED
    BY <2>1, <2>2, StepKeepsBase
<1> QED
  BY <1>1, <1>2, <1>3

\* Only a client that is online begins to speak to the server.
LEMMA ChatterGrows ==
    ASSUME Base, [PacketsNext]_packetsVars, Chatter', ~Online'
    PROVE  Chatter
<1>1. CASE Carries
  BY <1>1 DEF Carries, Chatter, Put
<1>2. CASE Others
  BY <1>2
     DEF Others, Chatter, SwitchHears, SwitchRepeats, SwitchDrops, ServerHears, Loses,
         campusVars, wires, Drop
<1>3. CASE Cuts
  BY <1>3 DEF Cuts, Chatter
<1> QED
  BY <1>1, <1>2, <1>3, PacketsCases

\* Online, the client hears nothing that it would answer.
LEMMA StaysSilent ==
    ASSUME Base, Clear, Stays
    PROVE  eapTx' = "none"
<1>1. CASE Heard
  <2>1. Head(toClient) \in Endings
    BY <1>1, FromTail, OwingFacts DEF Heard, Stays, Clear
  <2> QED
    BY <1>1, <2>1 DEF Stays, Answering, Endings
<1> QED
  BY <1>1 DEF Stays

-----------------------------------------------------------------------------
(* Stale is kept                                                            *)

LEMMA ClientKeepsStale ==
    ASSUME Base, Base', Stale, Clear, Client, Turn, Chatter, ~Online'
    PROVE  Stale'
<1> DEFINE o == Owing
           l == Len(toClient)
           m == Len(toClient')
           w == Weight(eapTx')
           n == Load(toSwitch)
           b == Bit(port # "closed")
           c == Bit(night)
           p == Owing'
           k == Load(toSwitch')
           d == Bit(night')
<1>1. /\ o \in Nat /\ l \in Nat /\ m \in Nat /\ n \in Nat /\ w \in Nat
      /\ b \in 0..1 /\ c \in 0..1 /\ d \in 0..1
      /\ o = l + n + b
      /\ p + l = o + w + m /\ m <= l /\ k = n + w /\ p \in Nat
  <2>1. /\ o \in Nat /\ l \in Nat /\ n \in Nat /\ b \in 0..1 /\ c \in 0..1 /\ o = l + n + b
    BY OwingFacts
  <2>2. m \in Nat /\ d \in 0..1 /\ p \in Nat
    BY OwingAfter
  <2>3. w \in Nat
    BY WeightType
  <2>4. p + l = o + w + m /\ m <= l /\ k = n + w
    BY ClientOwes
  <2> QED
    BY <2>1, <2>2, <2>3, <2>4
<1>2. /\ Heard => m + 1 = l
      /\ toClient' = toClient => m = l
      /\ toClient = <<>> => l = 0
      /\ port' = port
  BY ClientOwes
<1>3. ~Quiet
  BY DEF Quiet, Chatter
<1>4. /\ eapTx' \in {"none", "logoff"} => w = 0
      /\ eapTx' \in {"respId", "respMd5"} => w = 1
      /\ eapTx' = "startM" => w = 2
  BY DEF Weight, Starts
<1>5. night' = night => d = c
  OBVIOUS
<1>6. (~night => c = 0) /\ (port = "closed" => b = 0)
  BY DEF Bit
<1>7. Stages /\ Stages'
  BY StageFacts, StagesAfter
<1>8. /\ Opening => o + 1 <= Waits + c
      /\ Joining => night /\ o <= 2
      /\ Between => \/ o <= 1
                    \/ port = "closed" /\ n = 0
                    \/ ~handle /\ pc # "main" /\ o <= 1 + c
  BY DEF Stale
<1> SUFFICES /\ Opening' => p + 1 <= Waits' + d
             /\ Joining' => night' /\ p <= 2
             /\ Between' => \/ p <= 1
                            \/ port = "closed" /\ k = 0
                            \/ ~handle' /\ pc' # "main" /\ p <= 1 + d
  BY <1>2 DEF Stale
<1> HIDE DEF o, l, m, w, n, b, c, p, k, d
<1> USE DEF Stages
<1>9. CASE Begins
  BY <1>1, <1>2, <1>4, <1>5, <1>6, <1>7, <1>8, <1>9 DEF Begins, Turn, Idles, Between
<1>10. CASE Opens
  BY <1>1, <1>2, <1>3, <1>4, <1>5, <1>7, <1>8, <1>10 DEF Opens, Turn, Idles, Between
<1>11. CASE Declines
  BY <1>1, <1>4, <1>5, <1>6, <1>7, <1>8, <1>11 DEF Declines, Turn, Idles, Between
<1>12. CASE Joins
  BY <1>1, <1>2, <1>4, <1>5, <1>6, <1>7, <1>8, <1>12 DEF Joins, Turn, Idles, Between, Bit
<1>13. CASE GoesOn
  <2>1. w <= 1 /\ (toClient' = toClient => w = 0)
    BY <1>3, <1>4, <1>13 DEF GoesOn, Answering, Heard
  <2> QED
    BY <1>1, <1>2, <1>3, <1>5, <1>7, <1>8, <1>13, <2>1 DEF GoesOn, Turn, Idles, Between
<1>14. CASE GivesUp
  BY <1>1, <1>2, <1>3, <1>4, <1>5, <1>7, <1>8, <1>14 DEF GivesUp, Turn, Idles, Between
<1>15. CASE Stays
  <2>1. toSwitch = <<>> /\ From(toClient, 0, Endings)
        /\ port \in {"closed", "open"} /\ (port = "open" => toClient = <<>>)
    BY <1>15 DEF Clear, Stays
  <2>2. n = 0
    BY <2>1, LoadEmpty DEF n
  <2>3. w = 0
    BY <1>4, <1>15, StaysSilent
  <2>4. Between'
    BY <1>15 DEF Stays
  <2> QED
    BY <1>1, <1>2, <1>7, <2>1, <2>2, <2>3, <2>4 DEF Between
<1>16. CASE Idles
  <2>1. w = 0 /\ Between /\ Between' /\ (~handle => ~handle' /\ pc' # "main")
        /\ (night' = night \/ pc = "main")
    BY <1>4, <1>16 DEF Idles, Turn
  <2> QED
    BY <1>1, <1>5, <1>7, <1>8, <2>1 DEF Between
<1> QED
  BY <1>9, <1>10, <1>11, <1>12, <1>13, <1>14, <1>15, <1>16 DEF Turn, Succeeds

LEMMA OthersKeepStale ==
    ASSUME Base, Base', Stale, Others, UNCHANGED vars, Chatter
    PROVE  Stale'
<1>1. /\ Opening' <=> Opening
      /\ Joining' <=> Joining
      /\ Between' <=> Between
      /\ Waits' = Waits /\ handle' = handle /\ pc' = pc
  BY StageUnchanged
<1>2. /\ Owing \in Nat /\ Owing' \in Nat /\ Load(toSwitch) \in Nat /\ Load(toSwitch') \in Nat
      /\ Bit(night) \in 0..1 /\ Bit(night') \in 0..1
  BY OwingFacts, OwingAfter
<1>3. Stages
  BY StageFacts
<1>4. ASSUME Owing' <= Owing, night' = night,
             port = "closed" /\ Load(toSwitch) = 0 => port' = "closed" /\ Load(toSwitch') = 0
      PROVE  Stale'
  BY <1>1, <1>2, <1>3, <1>4 DEF Stale, Stages
<1>5. CASE SwitchHears
  <2> DEFINE f == Head(toSwitch)
  <2>1. toSwitch # <<>> /\ toSwitch' = Tail(toSwitch) /\ f \in EapOut /\ night' = night
    BY <1>5, OwingFacts DEF SwitchHears
  <2>2. ASSUME port = "closed", Load(toSwitch) = 0
        PROVE  port' = "closed" /\ Load(toSwitch') = 0
    <3>1. Weight(f) = 0 /\ Load(toSwitch') = 0
      BY <1>2, <2>1, <2>2, LoadTail, WeightType, OwingFacts
    <3> HIDE DEF f
    <3>2. f = "logoff"
      BY <2>1, <3>1 DEF Weight, EapOut, Starts
    <3>3. port' = "closed"
      BY <1>5, <3>2 DEF SwitchHears, f
    <3> QED
      BY <3>1, <3>3
  <2> QED
    BY <1>4, <1>5, <2>1, <2>2, SwitchHearsOwes
<1>6. CASE SwitchRepeats
  BY <1>6 DEF SwitchRepeats, Quiet, Chatter
<1>7. CASE SwitchDrops
  <2>1. /\ Owing' <= Owing \/ (Owing' <= Owing + 1 /\ night' /\ handle)
        /\ port = "open" /\ port' = "closed" /\ ~night /\ toSwitch' = toSwitch
        /\ Owing >= 1
    BY <1>7, DropsOwes
  <2>2. Bit(night) = 0 /\ (night' => Bit(night') = 1) /\ Bit(port # "closed") = 1
    BY <2>1 DEF Bit
  <2>3. Owing <= 1 => Load(toSwitch') = 0
    BY <2>1, <2>2, OwingFacts
  <2> QED
    BY <1>1, <1>2, <1>3, <2>1, <2>2, <2>3 DEF Stale, Stages
<1>8. CASE ServerHears \/ UNCHANGED campusVars
  <2>1. UNCHANGED <<port, night, toSwitch, toClient>>
    BY <1>8 DEF ServerHears, campusVars, wires
  <2>2. Owing' = Owing
    BY <2>1 DEF Owing, Ahead
  <2> QED
    BY <1>2, <1>4, <2>1, <2>2
<1>9. CASE Loses
  <2>1. /\ UNCHANGED <<port, night>>
        /\ toSwitch' = toSwitch \/ (toSwitch # <<>> /\ toSwitch' = Tail(toSwitch))
        /\ toClient' = toClient \/ Heard
    BY <1>9 DEF Loses, Drop, Heard
  <2>2. Owing' <= Owing /\ Load(toSwitch') <= Load(toSwitch)
    BY <2>1, LessOwes
  <2> QED
    BY <1>2, <1>4, <2>1, <2>2
<1> QED
  BY <1>5, <1>6, <1>7, <1>8, <1>9 DEF Others

LEMMA CutsKeepStale ==
    ASSUME Base, Base', Stale, Clear, Cuts, Chatter
    PROVE  Stale'
<1>1. UNCHANGED <<toSwitch, port, night>> /\ toClient' = <<>>
      /\ Between' /\ ~handle' /\ pc' # "main"
  BY DEF Cuts
<1>2. Owing' <= Owing /\ Load(toSwitch') = Load(toSwitch)
  BY <1>1, LessOwes
<1>3. /\ Owing \in Nat /\ Owing' \in Nat /\ Load(toSwitch) \in Nat /\ Bit(night) \in 0..1
      /\ Bit(port # "closed") \in 0..1
      /\ Owing' = 0 + Load(toSwitch) + Bit(port # "closed")
  BY <1>1, OwingFacts, OwingAfter
<1>4. Stages
  BY StageFacts
<1>5. night => Bit(night) = 1
  BY DEF Bit
<1>6. Online => Load(toSwitch) = 0
  BY LoadEmpty DEF Clear
<1> SUFFICES \/ Owing' <= 1
             \/ port = "closed" /\ Load(toSwitch) = 0
             \/ Owing' <= 1 + Bit(night)
  BY <1>1, <1>2 DEF Stale, Between
<1> QED
  BY <1>2, <1>3, <1>4, <1>5, <1>6 DEF Stale, Stages, Between

LEMMA StepKeepsStale ==
    ASSUME Base, Stale, Clear, [PacketsNext]_packetsVars
    PROVE  Stale'
<1> SUFFICES ASSUME Chatter', ~Online' PROVE Stale'
  <2>1. ASSUME Online' PROVE ~Opening' /\ ~Joining' /\ ~Between'
    BY <2>1, PacketsCases, StagesAfter DEF Stages, Between
  <2> QED
    BY <2>1 DEF Stale
<1>1. Chatter
  BY ChatterGrows
<1>2. Base'
  BY PacketsCases
<1>3. Carries => Client
  BY DEF Carries
<1> QED
  BY <1>1, <1>2, <1>3, PacketsCases, ClientKeepsStale, OthersKeepStale, CutsKeepStale

-----------------------------------------------------------------------------
(* Spared is kept                                                           *)

\* By night the switch grants nothing.
LEMMA NightAnswers ==
    ASSUME SwitchHears, night
    PROVE  \E frames \in Seq(EapFrame) :
              Sends(frames) /\ \A i \in 1..Len(frames) : frames[i] \in NoSuccess
<1>1. PICK frames \in Seq(EapFrame) : Sends(frames) /\ SwitchAnswers(Head(toSwitch), frames)
  BY SwitchHearsCases
<1>2. frames \in {<<>>, NightNotice, <<"identity">>, <<"md5">>, <<"failure">>}
  BY <1>1 DEF SwitchAnswers
<1>3. \A i \in 1..Len(frames) : frames[i] # "success" /\ frames[i] \in EapFrame
  BY <1>2, FramesSay
<1> QED
  BY <1>1, <1>3 DEF NoSuccess

\* Frames that are sent are appended, or lost on a host that does not listen.
LEMMA SendsFrom ==
    ASSUME Base, NEW frames \in Seq(EapFrame), Sends(frames), NEW k \in Nat, NEW T,
           From(toClient, k, T),
           \/ \A i \in 1..Len(frames) : frames[i] \in T
           \/ Len(toClient) + Len(frames) <= k
    PROVE  From(toClient', k, T)
<1>1. toClient \in Seq(EapFrame)
  BY OwingFacts
<1>2. From(toClient \o frames, k, T)
  BY <1>1, FromConcat
<1> QED
  BY <1>2 DEF Sends

LEMMA StepKeepsSpared ==
    ASSUME Base, Spared, Scarce, [PacketsNext]_packetsVars
    PROVE  Spared'
<1> SUFFICES ASSUME night', Opening' PROVE From(toClient', Waits', NoSuccess)
  BY DEF Spared
<1>1. Base' /\ Stages /\ Stages'
  BY PacketsCases, StageFacts, StagesAfter
<1>2. toClient \in Seq(EapFrame)
  BY OwingFacts
<1>3. CASE Turn
  <2>1. (Begins \/ Opens) /\ night
    BY <1>1, <1>3
       DEF Turn, Declines, Joins, GoesOn, Succeeds, GivesUp, Stays, Idles, Stages, Between
  <2>2. CASE Begins
    <3>1. toClient' = <<>>
      BY <1>1, <2>2 DEF Begins, Stages
    <3> QED
      BY <3>1, FromEmpty
  <2>3. CASE Opens
    <3>1. From(toClient, Waits, NoSuccess) /\ Waits \in Nat
      BY <1>1, <2>1, <2>3 DEF Spared, Opens, Stages
    <3>2. CASE Waits' = Waits /\ toClient' = toClient
      BY <3>1, <3>2
    <3>3. CASE Quiet /\ toClient' = toClient
      BY <3>3, FromEmpty DEF Quiet
    <3>4. CASE Waits > 0 /\ Waits' = Waits - 1 /\ Heard
      BY <1>2, <3>1, <3>4, FromTail DEF Heard
    <3> QED
      BY <2>3, <3>2, <3>3, <3>4 DEF Opens
  <2> QED
    BY <2>1, <2>2, <2>3
<1>4. CASE Others /\ UNCHANGED vars
  <2>1. Opening /\ Waits' = Waits /\ Waits \in Nat /\ handle
    BY <1>1, <1>4, StageUnchanged DEF Stages
  <2>2. night => From(toClient, Waits, NoSuccess)
    BY <2>1 DEF Spared
  <2>3. CASE SwitchHears
    <3>1. night
      BY <2>3 DEF SwitchHears
    <3>2. PICK frames \in Seq(EapFrame) :
             Sends(frames) /\ \A i \in 1..Len(frames) : frames[i] \in NoSuccess
      BY <2>3, <3>1, NightAnswers
    <3> QED
      BY <2>1, <2>2, <3>1, <3>2, SendsFrom
  <2>4. ~SwitchRepeats
    BY <1>1, <2>1 DEF SwitchRepeats, Stages
  <2>5. CASE SwitchDrops
    <3>1. ~night /\ port = "open"
      BY <2>5, DropsOwes
    <3>2. Sends(NightNotice)
      BY <2>5, <3>1 DEF SwitchDrops
    <3>3. From(toClient, Waits, {"failure"})
      BY <2>1, <3>1 DEF Scarce, Dead, Ordered
    <3>4. From(toClient, Waits, NoSuccess)
      BY <2>1, <3>3, FromWider DEF NoSuccess, EapFrame
    <3>5. \A i \in 1..Len(NightNotice) : NightNotice[i] \in NoSuccess
      BY DEF NightNotice, NoSuccess, EapFrame, ErrorNotes
    <3> QED
      BY <2>1, <3>2, <3>4, <3>5, FramesTyped, SendsFrom
  <2>6. CASE ServerHears \/ Loses \/ UNCHANGED campusVars
    <3>1. night /\ (toClient' = toClient \/ Heard)
      BY <2>6 DEF ServerHears, Loses, Drop, Heard, campusVars, wires
    <3> QED
      BY <1>2, <2>1, <2>2, <3>1, FromTail DEF Heard
  <2> QED
    BY <1>4, <2>3, <2>4, <2>5, <2>6 DEF Others
<1>5. ~Cuts
  BY DEF Cuts, Between
<1> QED
  BY <1>3, <1>4, <1>5, PacketsCases

-----------------------------------------------------------------------------
(* Scarce is kept                                                           *)

\* The exchange of a login, or what ends a session, leaves no more than that.
LEMMA FlowIsSingle ==
    ASSUME Base, Flow, Clear, ~night, Joining \/ Online
    PROVE  Single
<1> DEFINE S == toSwitch
           C == toClient
<1>1. S \in Seq(EapOut) /\ C \in Seq(EapFrame)
  BY OwingFacts
<1>2. CASE Online
  <2>1. S = <<>> /\ From(C, 0, {"failure"})
    BY <1>2 DEF Clear, Endings
  <2> QED
    BY <1>1, <2>1, AllIsOne, OneEmpty, FromEmpty DEF Single
<1>3. CASE Started
  BY <1>1, <1>3, AllIsOne, EndsIsOne DEF Started, Single
<1>4. CASE Asked
  BY <1>4, EndsIsOne, OneEmpty, FromEmpty DEF Asked, Single
<1>5. CASE Named
  <2>1. One(S, "logoff")
    BY <1>5 DEF Named, One
  <2> QED
    BY <1>5, <2>1, OneEmpty, FromEmpty DEF Named, Single
<1>6. CASE Challenged
  <2>1. One(C, "failure")
    BY <1>6 DEF Challenged, One
  <2> QED
    BY <1>6, <2>1, OneEmpty, FromEmpty DEF Challenged, Single
<1>7. CASE Answered
  <2>1. One(S, "logoff")
    BY <1>7 DEF Answered, One
  <2> QED
    BY <1>7, <2>1, OneEmpty, FromEmpty DEF Answered, Single
<1>8. CASE Granting
  <2>1. S = <<>> /\ From(C, 1, {"failure"})
    BY <1>8 DEF Granting, Endings
  <2>2. One(C, "failure")
    <3>1. \A i \in 1..Len(C) : C[i] # "failure" => i = 1
      BY <1>1, <2>1 DEF From
    <3> QED
      BY <3>1 DEF One
  <2> QED
    BY <2>1, <2>2, OneEmpty, FromEmpty DEF Single
<1> QED
  BY <1>2, <1>3, <1>4, <1>5, <1>6, <1>7, <1>8 DEF Flow, InTurn

\* It stays so as frames are taken, and as Logoffs are sent.
LEMMA SingleLess ==
    ASSUME Base, Single,
           toClient' = toClient \/ toClient' = <<>> \/ Heard,
           \/ toSwitch' = toSwitch
           \/ toSwitch # <<>> /\ toSwitch' = Tail(toSwitch)
           \/ toSwitch' = Put(toSwitch, "none")
           \/ toSwitch' = Put(toSwitch, "logoff")
    PROVE  Single'
<1>1. toSwitch \in Seq(EapOut) /\ toClient \in Seq(EapFrame) /\ "logoff" \in EapOut
  BY OwingFacts DEF EapOut
<1>2. One(toClient', "failure")
      /\ (From(toClient, 0, {"failure"}) => From(toClient', 0, {"failure"}))
  <2>1. CASE toClient' = toClient
    BY <2>1 DEF Single
  <2>2. CASE toClient' = <<>>
    BY <2>2, OneEmpty, FromEmpty
  <2>3. CASE Heard
    BY <1>1, <2>3, OneTail, FromTail DEF Heard, Single
  <2> QED
    BY <2>1, <2>2, <2>3
<1>3. One(toSwitch', "logoff")
      /\ (From(toSwitch, 0, {"logoff"}) => From(toSwitch', 0, {"logoff"}))
  <2>1. CASE toSwitch' = toSwitch
    BY <2>1 DEF Single
  <2>2. CASE toSwitch # <<>> /\ toSwitch' = Tail(toSwitch)
    BY <1>1, <2>2, OneTail, FromTail DEF Single
  <2>3. ASSUME NEW m \in {"none", "logoff"}, toSwitch' = Put(toSwitch, m)
        PROVE  One(toSwitch', "logoff")
               /\ (From(toSwitch, 0, {"logoff"}) => From(toSwitch', 0, {"logoff"}))
    BY <1>1, <2>3, OnePut, FromPut DEF Single
  <2> QED
    BY <2>1, <2>2, <2>3
<1> QED
  BY <1>2, <1>3 DEF Single

\* What the switch sends keeps all but one of the frames FAILUREs.
LEMMA SendsOne ==
    ASSUME Base, NEW frames \in Seq(EapFrame), Sends(frames),
           \/ From(toClient, 0, {"failure"}) /\ Len(frames) <= 1
           \/ One(toClient, "failure") /\ \A i \in 1..Len(frames) : frames[i] = "failure"
    PROVE  One(toClient', "failure")
<1>1. toClient \in Seq(EapFrame)
  BY OwingFacts
<1>2. One(toClient \o frames, "failure")
  BY <1>1, OneConcat
<1>3. One(toClient, "failure")
  BY <1>1, AllIsOne
<1> QED
  BY <1>2, <1>3 DEF Sends

\* At the end of a night's wait the frames ahead are few.
LEMMA NightEndsScarce ==
    ASSUME Base, Budget, pc = "main"
    PROVE  toClient = <<>> /\ (One(toSwitch, "logoff") \/ Dead)
<1>1. toClient = <<>>
  BY StageFacts DEF Stages
<1>2. Held = 2
  BY DEF Held, InLogoff
<1> DEFINE n == Load(toSwitch)
           b == Bit(port # "closed")
           c == Bit(night)
           l == Len(toClient)
<1>3. n \in Nat /\ b \in 0..1 /\ c \in 0..1 /\ l = 0 /\ toSwitch \in Seq(EapOut)
      /\ (l + n) + b + 2 <= 3 + c
  BY <1>1, <1>2, OwingFacts DEF Budget, Ahead
<1>4. port # "closed" => b = 1
  BY DEF Bit
<1>5. n <= 2 /\ (port # "closed" => n <= 1)
  <2> HIDE DEF n, b, c, l
  <2> QED
    BY <1>3, <1>4
<1> QED
  BY <1>1, <1>3, <1>5, LightIsOne DEF Dead

LEMMA ClientKeepsScarce ==
    ASSUME Base, Base', Budget, Scarce, Flow, Clear, Client, Turn
    PROVE  Scarce'
<1> SUFFICES ASSUME ~night'
             PROVE  /\ Between' => Single' \/ (Dead' /\ ~handle')
                    /\ Opening' => (Waits' = 2 /\ Dead') \/ (Single' /\ Ordered')
  BY DEF Scarce
<1> DEFINE b == Bit(port # "closed")
           l == Len(toClient)
           m == Len(toClient')
<1>1. /\ toSwitch \in Seq(EapOut) /\ toClient \in Seq(EapFrame) /\ b \in 0..1
      /\ l \in Nat /\ m \in Nat /\ toSwitch' = Put(toSwitch, eapTx') /\ port' = port
      /\ m <= l /\ (Heard => m + 1 = l)
      /\ Bit(port' # "closed") = b
  BY OwingFacts, OwingAfter, ClientOwes
<1>2. Stages /\ Stages'
  BY StageFacts, StagesAfter
<1>3. eapTx' = "none" => toSwitch' = toSwitch
  BY <1>1 DEF Put
<1>4. ASSUME Single, eapTx' \in {"none", "logoff"},
             toClient' = toClient \/ toClient' = <<>> \/ Heard
      PROVE  Single'
  BY <1>1, <1>4, SingleLess
<1>5. CASE Idles /\ pc = "main" /\ night
  <2>1. toSwitch' = toSwitch /\ toClient' = <<>> /\ Between' /\ ~handle' /\ ~Opening'
    <3>1. ~handle /\ toClient = <<>>
      BY <1>2, <1>5 DEF Stages
    <3>2. Heard => FALSE
      BY <3>1 DEF Heard
    <3> QED
      BY <1>3, <1>5, <3>1, <3>2 DEF Idles, Between
  <2>2. One(toSwitch', "logoff") \/ Dead'
    BY <1>1, <1>5, <2>1, NightEndsScarce DEF Dead, StartIn
  <2>3. Single' \/ Dead'
    BY <2>1, <2>2, OneEmpty, FromEmpty DEF Single
  <2> QED
    BY <2>1, <2>3
<1>6. CASE ~(Idles /\ pc = "main" /\ night)
  <2>1. ~night
    BY <1>6 DEF Turn
  <2>2. CASE Begins
    <3>1. /\ toClient = <<>> /\ toClient' = <<>> /\ Waits' = 2 /\ toSwitch' = toSwitch
          /\ Opening' /\ ~Between' /\ (Single \/ Dead)
      BY <1>2, <1>3, <2>1, <2>2 DEF Begins, Stages, Between, Scarce
    <3>2. CASE Single
      <4>1. Single'
        BY <1>4, <2>2, <3>1, <3>2 DEF Begins
      <4>2. m = 0
        BY <3>1
      <4>3. Ordered'
        <5> HIDE DEF b
        <5>1. m + b + 1 <= 2
          BY <1>1, <4>2
        <5> QED
          BY <1>1, <3>1, <5>1, FromEmpty DEF Ordered
      <4> QED
        BY <3>1, <4>1, <4>3
    <3>3. CASE Dead
      BY <1>1, <3>1, <3>3 DEF Dead, StartIn
    <3> QED
      BY <3>1, <3>2, <3>3
  <2>3. CASE Opens
    <3>1. /\ Opening' /\ ~Between' /\ Waits \in 0..2
          /\ (Waits = 2 /\ Dead) \/ (Single /\ Ordered)
      BY <1>2, <2>1, <2>3 DEF Opens, Stages, Between, Scarce
    <3>2. CASE Waits' = Waits /\ eapTx' \in {"none", "logoff"} /\ toClient' = toClient
      <4>1. CASE Waits = 2 /\ Dead
        <5>1. ~StartIn(toSwitch')
          <6>1. CASE eapTx' = "none"
            BY <1>3, <4>1, <6>1 DEF Dead
          <6>2. CASE eapTx' = "logoff"
            <7>1. toSwitch' = Append(toSwitch, "logoff") /\ "logoff" \in EapOut
                  /\ "logoff" \notin Starts
              BY <1>1, <6>2 DEF Put, EapOut, Starts
            <7> QED
              BY <1>1, <4>1, <7>1, StartAppend DEF Dead
          <6> QED
            BY <3>2, <6>1, <6>2
        <5> QED
          BY <1>1, <3>1, <3>2, <4>1, <5>1 DEF Dead
      <4>2. CASE Single /\ Ordered
        <5>1. Single'
          BY <1>4, <3>2, <4>2
        <5>2. From(toSwitch, 0, {"logoff"}) => From(toSwitch', 0, {"logoff"})
          BY <1>1, <3>2, FromPut DEF EapOut
        <5>3. Ordered'
          BY <1>1, <3>2, <4>2, <5>2 DEF Ordered
        <5> QED
          BY <3>1, <5>1, <5>3
      <4> QED
        BY <3>1, <4>1, <4>2
    <3>3. CASE Quiet /\ eapTx' = "none" /\ toClient' = toClient
      <4>1. toClient' = <<>> /\ toSwitch' = <<>>
        BY <1>3, <3>3 DEF Quiet
      <4> QED
        BY <3>1, <4>1, OneEmpty, FromEmpty DEF Single, Ordered
    <3>4. CASE Waits > 0 /\ Waits' = Waits - 1 /\ eapTx' = "none" /\ Heard
      <4>1. Single /\ Ordered
        BY <3>1, <3>4 DEF Dead, Heard
      <4>2. Single'
        BY <1>4, <3>4, <4>1
      <4>3. From(toClient', Waits', {"failure"})
        BY <1>1, <3>1, <3>4, <4>1, FromTail DEF Ordered, Heard
      <4>4. l + b + 1 <= Waits => m + b + 1 <= Waits'
        <5> HIDE DEF l, m, b
        <5> QED
          BY <1>1, <3>1, <3>4
      <4>5. Ordered'
        BY <1>1, <1>3, <3>4, <4>1, <4>3, <4>4 DEF Ordered
      <4> QED
        BY <3>1, <4>2, <4>5
    <3> QED
      BY <2>3, <3>2, <3>3, <3>4 DEF Opens
  <2>4. CASE Declines
    <3>1. Single /\ ~Opening'
      BY <1>2, <2>1, <2>4 DEF Declines, Scarce, Between
    <3> QED
      BY <1>4, <2>4, <3>1 DEF Declines
  <2>5. CASE GivesUp
    <3>1. Single /\ ~Opening'
      BY <2>1, <2>5, FlowIsSingle DEF GivesUp, Between
    <3> QED
      BY <1>4, <2>5, <3>1 DEF GivesUp
  <2>6. CASE Stays
    <3>1. Single /\ ~Opening' /\ eapTx' = "none"
      BY <1>2, <2>1, <2>6, FlowIsSingle, StaysSilent DEF Stays, Between, Stages
    <3> QED
      BY <1>4, <2>6, <3>1 DEF Stays
  <2>7. CASE Idles
    <3>1. ~Opening' /\ (Single \/ (Dead /\ ~handle))
      BY <2>1, <2>7 DEF Idles, Between, Scarce
    <3>2. CASE Single
      BY <1>4, <2>7, <3>1, <3>2 DEF Idles
    <3>3. CASE Dead /\ ~handle
      <4>1. toSwitch' = toSwitch /\ ~handle' /\ toClient' = <<>>
        BY <1>3, <2>7, <3>3 DEF Idles, Dead, Heard
      <4> QED
        BY <1>1, <3>1, <3>3, <4>1 DEF Dead
    <3> QED
      BY <3>1, <3>2, <3>3
  <2>8. CASE Joins \/ GoesOn \/ Succeeds
    BY <1>2, <2>8 DEF Joins, GoesOn, Succeeds, Stages, Between
  <2> QED
    BY <2>2, <2>3, <2>4, <2>5, <2>6, <2>7, <2>8 DEF Turn
<1> QED
  BY <1>5, <1>6

\* By day the switch answers with one frame at most.
LEMMA DayAnswers ==
    ASSUME NEW f, NEW frames, SwitchAnswers(f, frames), ~night
    PROVE  /\ frames \in {<<>>, <<"identity">>, <<"md5">>, <<"success">>, <<"failure">>}
           /\ Len(frames) <= 1
           /\ f = "logoff" => /\ \A i \in 1..Len(frames) : frames[i] = "failure"
                              /\ Len(frames) = Bit(port # "closed")
                              /\ port' = "closed"
           /\ f \notin Starts /\ port = "closed" => frames = <<>> /\ port' = "closed"
<1>1. frames \in {<<>>, <<"identity">>, <<"md5">>, <<"success">>, <<"failure">>}
  BY DEF SwitchAnswers
<1>2. Len(frames) <= 1
  BY <1>1, FramesLength
<1>3. ASSUME f = "logoff"
      PROVE  /\ \A i \in 1..Len(frames) : frames[i] = "failure"
             /\ Len(frames) = Bit(port # "closed")
             /\ port' = "closed"
  <2>1. \/ port = "closed" /\ frames = <<>>
        \/ port # "closed" /\ frames = <<"failure">>
    BY <1>3 DEF SwitchAnswers, Starts
  <2>2. \A i \in 1..Len(<<"failure">>) : <<"failure">>[i] = "failure"
    OBVIOUS
  <2>3. \A i \in 1..Len(<<>>) : <<>>[i] = "failure"
    OBVIOUS
  <2>4. port' = "closed"
    BY <1>3 DEF SwitchAnswers, Starts
  <2> QED
    BY <2>1, <2>2, <2>3, <2>4, FramesLength DEF Bit
<1>4. f \notin Starts /\ port = "closed" => frames = <<>> /\ port' = "closed"
  BY DEF SwitchAnswers
<1> QED
  BY <1>1, <1>2, <1>3, <1>4

LEMMA SwitchHearsKeepsScarce ==
    ASSUME Base, Base', SwitchHears, ~night
    PROVE  /\ Single => Single'
           /\ Dead => Dead'
           /\ Opening /\ Single /\ Ordered => Ordered'
<1> DEFINE f == Head(toSwitch)
           b == Bit(port # "closed")
           d == Bit(port' # "closed")
           l == Len(toClient)
           m == Len(toClient')
<1>1. /\ toSwitch # <<>> /\ toSwitch' = Tail(toSwitch)
      /\ toSwitch \in Seq(EapOut) /\ toClient \in Seq(EapFrame) /\ Waits' = Waits
      /\ l \in Nat /\ m \in Nat /\ b \in 0..1 /\ d \in 0..1
      /\ Opening => Waits \in Nat
  BY OwingFacts, OwingAfter, StageUnchanged, StageFacts DEF SwitchHears, Stages
<1>2. PICK frames \in Seq(EapFrame) : Sends(frames) /\ SwitchAnswers(f, frames)
  BY SwitchHearsCases
<1> DEFINE k == Len(frames)
<1>3. m <= l + k
  BY <1>2, SendsAhead DEF Base
<1>4. Dead => Dead'
  <2> SUFFICES ASSUME Dead PROVE Dead'
    OBVIOUS
  <2>1. ~StartIn(toSwitch') /\ f \notin Starts
    BY <1>1, StartTail DEF Dead
  <2>2. frames = <<>> /\ port' = "closed"
    BY <1>2, <2>1, DayAnswers DEF Dead
  <2>3. toClient' = <<>>
    BY <1>2, <2>2 DEF Sends, Dead
  <2> QED
    BY <2>1, <2>2, <2>3 DEF Dead
<1>5. CASE f = "logoff"
  <2>1. (\A i \in 1..Len(frames) : frames[i] \in {"failure"}) /\ k = b /\ d = 0
    BY <1>2, <1>5, DayAnswers DEF Bit
  <2>2. Single => One(toSwitch', "logoff") /\ One(toClient', "failure")
    BY <1>1, <1>2, <2>1, OneTail, SendsOne DEF Single
  <2>3. From(toSwitch, 0, {"logoff"}) => From(toSwitch', 0, {"logoff"})
    BY <1>1, FromTail
  <2>4. From(toClient, 0, {"failure"}) => From(toClient', 0, {"failure"})
    BY <1>2, <2>1, SendsFrom
  <2>5. Opening /\ From(toClient, Waits, {"failure"}) => From(toClient', Waits, {"failure"})
    BY <1>1, <1>2, <2>1, SendsFrom
  <2>6. \A n \in Nat : l + b + 1 <= n => m + d + 1 <= n
    <3> HIDE DEF l, m, b, d, k
    <3> QED
      BY <1>1, <1>3, <2>1
  <2>7. Single => Single'
    BY <2>2, <2>3, <2>4 DEF Single
  <2>8. Opening /\ Ordered => Ordered'
    BY <1>1, <2>3, <2>5, <2>6 DEF Ordered
  <2> QED
    BY <1>4, <2>7, <2>8
<1>6. CASE f # "logoff"
  <2> SUFFICES ASSUME Single
               PROVE  Single' /\ (Opening /\ Ordered => Ordered')
    BY <1>4
  <2>1. From(toSwitch', 0, {"logoff"})
    BY <1>1, <1>6, OneTail DEF Single
  <2>2. ~From(toSwitch, 0, {"logoff"})
    BY <1>1, <1>6, FromTail
  <2>3. From(toClient, 0, {"failure"}) /\ k <= 1
    BY <1>2, <2>2, DayAnswers DEF Single
  <2>4. One(toSwitch', "logoff") /\ One(toClient', "failure")
    BY <1>1, <1>2, <2>3, OneTail, SendsOne DEF Single
  <2>5. Single'
    BY <2>1, <2>4 DEF Single
  <2>6. ASSUME Opening, Ordered PROVE Ordered'
    <3>1. l + b + 1 <= Waits
      BY <2>2, <2>6 DEF Ordered
    <3>2. l + k <= Waits
      <4>1. Waits \in Nat /\ k \in Nat
        BY <1>1, <2>6
      <4>2. \A n \in Nat : l + b + 1 <= n => l + k <= n
        <5> HIDE DEF l, b, k
        <5> QED
          BY <1>1, <2>3, <4>1
      <4> QED
        BY <3>1, <4>1, <4>2
    <3>3. From(toClient', Waits, {"failure"})
      BY <1>1, <1>2, <2>6, <3>2, SendsFrom DEF Ordered
    <3> QED
      BY <1>1, <2>1, <3>3 DEF Ordered
  <2> QED
    BY <2>5, <2>6
<1> QED
  BY <1>5, <1>6

LEMMA OthersKeepScarce ==
    ASSUME Base, Base', Scarce, Others, UNCHANGED vars
    PROVE  Scarce'
<1> SUFFICES ASSUME ~night' PROVE Scarce'
  BY DEF Scarce
<1>1. /\ Opening' <=> Opening
      /\ Between' <=> Between
      /\ Waits' = Waits /\ handle' = handle
      /\ Stages
      /\ toSwitch \in Seq(EapOut) /\ toClient \in Seq(EapFrame)
  BY StageUnchanged, StageFacts, OwingFacts
<1>2. ~night
  BY DropsOwes
     DEF Others, SwitchHears, SwitchRepeats, ServerHears, Loses, campusVars
<1>3. SUFFICES /\ Single => Single'
               /\ Dead => Dead'
               /\ Opening /\ Single /\ Ordered => Ordered'
  BY <1>1, <1>2 DEF Scarce
<1>4. CASE SwitchHears
  BY <1>2, <1>4, SwitchHearsKeepsScarce
<1>5. CASE SwitchRepeats
  <2>1. toSwitch' = <<>> /\ toClient = <<>> /\ InLoop /\ port' # "closed" /\ port # "closed"
    BY <1>5 DEF SwitchRepeats, Quiet
  <2>2. PICK frames \in Seq(EapFrame) : Sends(frames) /\ Len(frames) = 1
    BY <1>5, FramesLength, FramesTyped DEF SwitchRepeats
  <2>0. From(toClient, 0, {"failure"})
    BY <2>1, FromEmpty
  <2>3. One(toClient', "failure")
    <3>1. Len(frames) <= 1
      BY <2>2
    <3> QED
      BY <2>0, <2>2, <3>1, SendsOne
  <2> QED
    BY <1>1, <2>1, <2>3, OneEmpty, FromEmpty DEF Single, Dead, Stages
<1>6. CASE SwitchDrops
  <2>1. port = "open" /\ port' = "closed" /\ toSwitch' = toSwitch
    BY <1>6, DropsOwes
  <2>2. Sends(<<"failure">>) /\ <<"failure">> \in Seq(EapFrame)
        /\ \A i \in 1..Len(<<"failure">>) : <<"failure">>[i] \in {"failure"}
    BY <1>6, FramesTyped DEF SwitchDrops
  <2>3. One(toClient, "failure") => One(toClient', "failure")
    BY <2>2, SendsOne
  <2>4. From(toClient, 0, {"failure"}) => From(toClient', 0, {"failure"})
    BY <2>2, SendsFrom
  <2>5. ASSUME Opening, From(toClient, Waits, {"failure"})
        PROVE  From(toClient', Waits', {"failure"})
    <3>1. Waits \in Nat /\ Waits' = Waits
      BY <1>1, <2>5 DEF Stages
    <3> QED
      BY <2>2, <2>5, <3>1, SendsFrom
  <2>6. Len(toClient') <= Len(toClient) + 1
        /\ Len(toClient) \in Nat /\ Len(toClient') \in Nat
    BY <2>2, SendsAhead, FramesLength DEF Base
  <2>7. Bit(port # "closed") = 1 /\ Bit(port' # "closed") = 0
    BY <2>1 DEF Bit
  <2>8. Opening /\ Ordered => Ordered'
    BY <1>1, <2>1, <2>5, <2>6, <2>7 DEF Ordered, Stages
  <2> QED
    BY <2>1, <2>3, <2>4, <2>8 DEF Single, Dead
<1>7. CASE ServerHears \/ UNCHANGED campusVars
  <2>1. UNCHANGED <<port, toSwitch, toClient>>
    BY <1>7 DEF ServerHears, campusVars, wires
  <2> QED
    BY <1>1, <2>1 DEF Single, Dead, Ordered, StartIn
<1>8. CASE Loses
  <2>1. /\ port' = port
        /\ toSwitch' = toSwitch \/ (toSwitch # <<>> /\ toSwitch' = Tail(toSwitch))
        /\ toClient' = toClient \/ Heard
    BY <1>8 DEF Loses, Drop, Heard
  <2>2. Single => Single'
    BY <2>1, SingleLess
  <2>3. Dead => Dead'
    BY <1>1, <2>1, StartTail DEF Dead, Heard
  <2>4. ASSUME Opening, Ordered PROVE Ordered'
    <3>1. From(toClient', Waits', {"failure"})
      <4>1. Waits \in Nat /\ Waits' = Waits /\ From(toClient, Waits, {"failure"})
        BY <1>1, <2>4 DEF Stages, Ordered
      <4>2. CASE Heard
        BY <1>1, <4>1, <4>2, FromTail DEF Heard
      <4> QED
        BY <2>1, <4>1, <4>2
    <3>2. From(toSwitch, 0, {"logoff"}) => From(toSwitch', 0, {"logoff"})
      BY <1>1, <2>1, FromTail
    <3>3. Len(toClient') <= Len(toClient) /\ Len(toClient') \in Nat /\ Len(toClient) \in Nat
      BY <1>1, <2>1 DEF Heard
    <3>4. Bit(port' # "closed") = Bit(port # "closed") /\ Bit(port # "closed") \in 0..1
      BY <2>1 DEF Bit
    <3> QED
      BY <1>1, <2>4, <3>1, <3>2, <3>3, <3>4 DEF Ordered, Stages
  <2> QED
    BY <2>2, <2>3, <2>4
<1> QED
  BY <1>4, <1>5, <1>6, <1>7, <1>8 DEF Others

LEMMA StepKeepsScarce ==
    ASSUME Base, Budget, Scarce, Flow, Clear, [PacketsNext]_packetsVars
    PROVE  Scarce'
<1>1. Base' /\ (Carries => Client)
  BY PacketsCases DEF Carries
<1>2. ASSUME Cuts PROVE Scarce'
  <2>1. /\ Between' /\ ~handle' /\ toClient' = <<>> /\ toSwitch' = toSwitch
        /\ port' = port /\ night' = night
    BY <1>2 DEF Cuts
  <2>2. ~night => Single \/ Dead
    BY FlowIsSingle DEF Scarce, Between
  <2>3. Single => Single'
    BY <2>1, SingleLess
  <2>4. Dead => Dead'
    BY <2>1 DEF Dead
  <2> QED
    BY <2>1, <2>2, <2>3, <2>4 DEF Scarce, Between
<1> QED
  BY <1>1, <1>2, PacketsCases, ClientKeepsScarce, OthersKeepScarce

-----------------------------------------------------------------------------
(* Flow is kept                                                             *)

\* At any hour no SUCCESS is on the way but the one that is next.
LEMMA FlowSpares ==
    ASSUME Base, Flow, Joining
    PROVE  From(toClient, 0, NoSuccess) \/ Granting
<1>1. toClient \in Seq(EapFrame)
  BY OwingFacts
<1>2. /\ {"failure"} \subseteq NoSuccess /\ "identity" \in NoSuccess /\ "md5" \in NoSuccess
      /\ 0 \in Int
  BY DEF NoSuccess, EapFrame
<1>3. CASE Started
  BY <1>2, <1>3, FromWider DEF Started
<1>4. CASE Asked
  <2>1. \A i \in 1..Len(toClient) : toClient[i] \in NoSuccess
    BY <1>2, <1>4 DEF Asked, Ends
  <2> QED
    BY <2>1 DEF From
<1>5. CASE Named \/ Answered
  BY <1>5, FromEmpty DEF Named, Answered
<1>6. CASE Challenged
  <2>1. \A i \in 1..Len(toClient) : toClient[i] = "md5"
    BY <1>6 DEF Challenged
  <2> QED
    BY <1>2, <2>1 DEF From
<1> QED
  BY <1>3, <1>4, <1>5, <1>6 DEF Flow, InTurn

\* A step that touches neither queue nor the port leaves the turn as it is.
LEMMA SameTurn ==
    ASSUME UNCHANGED <<port, night, toSwitch, toClient>>,
           Chatter' => Chatter, "md5" \in kept => "md5" \in kept'
    PROVE  /\ InTurn => InTurn'
           /\ From(toClient, 0, NoSuccess) \/ Granting
                => (From(toClient, 0, NoSuccess) \/ Granting)'
<1>1. Endings' = Endings
  BY DEF Endings
<1>2. Granting => Granting'
  BY <1>1 DEF Granting
<1>3. From(toClient', 0, NoSuccess) <=> From(toClient, 0, NoSuccess)
  OBVIOUS
<1>4. /\ Started => Started'
      /\ Asked => Asked'
      /\ Named => Named'
      /\ Challenged => Challenged'
      /\ Answered => Answered'
  BY DEF Started, Asked, Named, Challenged, Answered
<1> QED
  BY <1>2, <1>3, <1>4 DEF InTurn

\* Nothing on the way is a turn, too.
LEMMA EmptyStarts ==
    ASSUME toSwitch' = <<>>, From(toClient', 0, {"failure"})
    PROVE  InTurn'
<1>1. <<>> \in Seq(EapOut)
  OBVIOUS
<1>2. Ends(toSwitch', "logoff", Starts)
  BY <1>1, AllIsOne, FromEmpty
<1> QED
  BY <1>2 DEF InTurn, Started

LEMMA ClientKeepsFlow ==
    ASSUME Base, Base', Scarce, Spared, Flow, Carries, Turn, Joining', Chatter' => Chatter
    PROVE  Flow'
<1>1. /\ toSwitch \in Seq(EapOut) /\ toClient \in Seq(EapFrame) /\ port' = port
      /\ toSwitch' = Put(toSwitch, eapTx') /\ eapTx' \in EapOut \cup {"none"}
  BY OwingFacts, ClientOwes DEF Carries
<1>2. Stages /\ Stages'
  BY StageFacts, StagesAfter
<1>3. (Joins \/ GoesOn) /\ night' = night
  BY <1>2
     DEF Turn, Begins, Opens, Declines, Succeeds, GivesUp, Stays, Idles, Stages, Between
<1>4. /\ {"failure"} \subseteq NoSuccess /\ Endings' = Endings
      /\ "startM" \in Starts /\ Starts \subseteq EapOut
  BY <1>3 DEF NoSuccess, EapFrame, Endings, Starts, EapOut
<1> SUFFICES /\ ~night => InTurn'
             /\ night => From(toClient', 0, NoSuccess) \/ Granting'
  BY <1>3 DEF Flow
<1>5. CASE Joins
  <2>1. /\ Opening /\ Waits = 0 /\ toClient' = toClient
        /\ toSwitch' = Append(toSwitch, "startM")
    BY <1>1, <1>5 DEF Joins, Put
  <2>2. ASSUME ~night PROVE InTurn'
    <3>1. From(toClient, 0, {"failure"})
      BY <2>1, <2>2 DEF Scarce, Ordered
    <3>2. From(toSwitch, 0, {"logoff"})
      <4>1. Len(toClient) + Bit(port # "closed") + 1 > 0
        BY OwingFacts
      <4> QED
        BY <2>1, <2>2, <4>1, OwingFacts DEF Scarce, Ordered
    <3>3. Ends(toSwitch', "logoff", Starts)
      BY <1>1, <1>4, <2>1, <3>2, EndsAppend
    <3> QED
      BY <2>1, <3>1, <3>3 DEF InTurn, Started
  <2>3. night => From(toClient', 0, NoSuccess)
    BY <2>1 DEF Spared
  <2> QED
    BY <2>2, <2>3
<1>6. CASE GoesOn
  <2>1. Joining /\ ("md5" \in kept => "md5" \in kept')
    BY <1>2, <1>6 DEF GoesOn, Carries, Digest, Stages
  <2>2. CASE Quiet /\ toClient' = toClient /\ eapTx' \in Starts \cup {"none"}
    <3>1. toSwitch = <<>> /\ toClient' = <<>>
      BY <2>2 DEF Quiet
    <3>2. Ends(toSwitch', "logoff", Starts)
      <4>1. CASE eapTx' = "none"
        BY <1>1, <3>1, <4>1, AllIsOne, FromEmpty DEF Put
      <4>2. CASE eapTx' # "none"
        <5>1. eapTx' \in Starts /\ eapTx' \in EapOut /\ toSwitch' = Append(toSwitch, eapTx')
          BY <1>1, <1>4, <2>2, <4>2 DEF Put
        <5>2. From(toSwitch, 0, {"logoff"})
          BY <3>1, FromEmpty
        <5> QED
          BY <1>1, <5>1, <5>2, EndsAppend
      <4> QED
        BY <4>1, <4>2
    <3>3. From(toClient', 0, {"failure"}) /\ From(toClient', 0, NoSuccess)
      BY <3>1, FromEmpty
    <3> QED
      BY <3>2, <3>3 DEF InTurn, Started
  <2>3. CASE toClient' = toClient /\ eapTx' = "none"
    <3>1. toSwitch' = toSwitch
      BY <1>1, <2>3 DEF Put
    <3> QED
      BY <1>1, <1>3, <2>1, <2>3, <3>1, SameTurn DEF Flow
  <2>4. CASE /\ Heard
             /\ Head(toClient) \notin {"success", "failure"}
             /\ eapTx' = Answering(Head(toClient))
    <3> DEFINE f == Head(toClient)
    <3>1. toClient # <<>> /\ toClient' = Tail(toClient)
      BY <2>4 DEF Heard
    <3>2. ~Granting
      BY <2>4 DEF Granting
    <3>3. night => From(toClient', 0, NoSuccess)
      BY <1>1, <2>1, <3>1, <3>2, FromTail DEF Flow
    <3>4. ~Started
      BY <1>1, <2>4, <3>1, FromTail DEF Started
    <3>5. ASSUME Asked PROVE InTurn'
      <4>1. f = "identity" /\ toClient' = <<>>
        BY <1>1, <2>4, <3>1, <3>5, EndsTail DEF Asked
      <4>2. eapTx' = "respId" /\ toSwitch = <<>> /\ port = "identity"
        BY <2>4, <3>5, <4>1 DEF Answering, Asked
      <4>3. toSwitch' = <<"respId">>
        BY <1>1, <4>2 DEF Put
      <4> QED
        BY <1>1, <4>1, <4>2, <4>3 DEF InTurn, Named
    <3>6. ASSUME Challenged PROVE InTurn'
      <4>1. f = "md5" /\ toClient' = <<>>
        BY <3>1, <3>6 DEF Challenged
      <4>2. eapTx' = "respMd5" /\ toSwitch = <<>> /\ port = "challenge"
        BY <2>4, <3>6, <4>1 DEF Answering, Challenged
      <4>3. toSwitch' = <<"respMd5">> /\ "md5" \in kept'
        BY <1>1, <4>2 DEF Put, Carries, Digest
      <4> QED
        BY <1>1, <4>1, <4>2, <4>3 DEF InTurn, Answered
    <3>7. ~Named /\ ~Answered
      BY <3>1 DEF Named, Answered
    <3> QED
      BY <2>1, <3>2, <3>3, <3>4, <3>5, <3>6, <3>7 DEF Flow, InTurn
  <2> QED
    BY <1>6, <2>2, <2>3, <2>4 DEF GoesOn
<1> QED
  BY <1>3, <1>5, <1>6

\* By day the switch takes the exchange one turn on.
LEMMA DayTurns ==
    ASSUME Base, Base', Stale, Flow, SwitchHears, Joining, ~night, kept' = kept
    PROVE  InTurn'
<1> DEFINE f == Head(toSwitch)
<1>1. /\ toSwitch \in Seq(EapOut) /\ toClient \in Seq(EapFrame)
      /\ toSwitch # <<>> /\ toSwitch' = Tail(toSwitch) /\ handle
      /\ UNCHANGED <<toServer, fromServer, night>>
  BY OwingFacts, StageFacts DEF SwitchHears, Stages
<1>2. CASE Started
  <2>1. From(toClient, 0, {"failure"})
    BY <1>2 DEF Started
  <2>2. CASE f = "logoff" /\ Ends(Tail(toSwitch), "logoff", Starts)
    <3>1. PICK frames \in Seq(EapFrame) : Sends(frames) /\ SwitchAnswers(f, frames)
      BY SwitchHearsCases
    <3>2. \A i \in 1..Len(frames) : frames[i] \in {"failure"}
      BY <2>2, <3>1, DayAnswers
    <3>3. From(toClient', 0, {"failure"})
      BY <2>1, <3>1, <3>2, SendsFrom
    <3> QED
      BY <1>1, <2>2, <3>3 DEF InTurn, Started
  <2>3. CASE f \in Starts /\ Tail(toSwitch) = <<>>
    <3>1. port' = "identity" /\ Sends(<<"identity">>)
      BY <2>3 DEF SwitchHears, Starts
    <3>2. toClient' = Append(toClient, "identity") /\ "identity" \in EapFrame
      BY <1>1, <3>1 DEF Sends, EapFrame
    <3>3. Ends(toClient', "failure", {"identity"})
      BY <1>1, <2>1, <3>2, EndsAppend
    <3> QED
      BY <1>1, <2>3, <3>1, <3>3 DEF InTurn, Asked
  <2> QED
    BY <1>1, <1>2, <2>2, <2>3, EndsTail DEF Started
<1>3. CASE Named
  <2>1. f = "respId" /\ port = "identity" /\ toClient = <<>> /\ toSwitch' = <<>>
    BY <1>1, <1>3 DEF Named
  <2>2. port' = "challenge" /\ Sends(<<"md5">>)
    BY <2>1 DEF SwitchHears
  <2>3. toClient' = <<"md5">>
    BY <1>1, <2>1, <2>2 DEF Sends
  <2> QED
    BY <2>1, <2>2, <2>3 DEF InTurn, Challenged
<1>4. CASE Answered
  <2>1. f = "respMd5" /\ port = "challenge" /\ toClient = <<>> /\ toSwitch' = <<>>
        /\ "md5" \in kept'
    BY <1>1, <1>4 DEF Answered
  <2>2. port' = "open" /\ Sends(<<"success">>)
    BY <2>1 DEF SwitchHears
  <2>3. toClient' = <<"success">> /\ Len(toClient') = 1 /\ Head(toClient') = "success"
    BY <1>1, <2>1, <2>2 DEF Sends
  <2>4. From(toClient', 1, Endings')
    BY <2>3 DEF From
  <2>5. ~Chatter'
    BY <1>1 DEF Stale, Chatter
  <2> QED
    BY <2>1, <2>2, <2>3, <2>4, <2>5 DEF InTurn, Granting
<1>5. ~Asked /\ ~Challenged /\ ~Granting
  BY <1>1 DEF Asked, Challenged, Granting
<1> QED
  BY <1>2, <1>3, <1>4, <1>5 DEF Flow, InTurn

\* The frames of a drop are what ends a session.
LEMMA DropsSend ==
    ASSUME Base, Base', SwitchDrops
    PROVE  \E frames \in Seq(EapFrame) :
              /\ Sends(frames) /\ (~night' => frames = <<"failure">>)
              /\ \A i \in 1..Len(frames) : frames[i] \in Endings' /\ frames[i] \in NoSuccess
<1>1. ~night
  BY DropsOwes
<1>2. PICK frames \in {<<"failure">>, NightNotice} :
         Sends(frames) /\ (~night' => frames = <<"failure">>)
  BY <1>1 DEF SwitchDrops
<1>3. \A i \in 1..Len(NightNotice) : NightNotice[i] \in {"noteOffHours", "failure"}
  BY DEF NightNotice
<1>4. \A i \in 1..Len(<<"failure">>) : <<"failure">>[i] = "failure"
  OBVIOUS
<1>5. {"noteOffHours", "failure"} \subseteq NoSuccess
  BY DEF NoSuccess, EapFrame, ErrorNotes
<1>6. "failure" \in Endings' /\ (night' => Endings' = {"noteOffHours", "failure"})
  BY DEF Endings
<1>7. <<"failure">> \in Seq(EapFrame) /\ NightNotice \in Seq(EapFrame)
  BY FramesTyped
<1>8. frames \in Seq(EapFrame)
      /\ \A i \in 1..Len(frames) : frames[i] \in Endings' /\ frames[i] \in NoSuccess
  BY <1>2, <1>3, <1>4, <1>5, <1>6, <1>7
<1> QED
  BY <1>2, <1>8

LEMMA DropsKeepFlow ==
    ASSUME Base, Base', Flow, SwitchDrops, Joining, kept' = kept, Chatter' => Chatter
    PROVE  /\ ~night' => InTurn'
           /\ From(toClient', 0, NoSuccess) \/ Granting'
<1>1. port = "open" /\ port' = "closed" /\ ~night /\ toSwitch' = toSwitch
  BY DropsOwes
<1>2. handle /\ toClient \in Seq(EapFrame) /\ {"failure"} \subseteq NoSuccess
  BY StageFacts, OwingFacts DEF Stages, NoSuccess, EapFrame
<1>3. PICK frames \in Seq(EapFrame) :
         /\ Sends(frames) /\ (~night' => frames = <<"failure">>)
         /\ \A i \in 1..Len(frames) : frames[i] \in Endings' /\ frames[i] \in NoSuccess
  BY DropsSend
<1>4. Endings = {"failure"} /\ Endings \subseteq Endings'
  BY <1>1 DEF Endings
<1>5. From(toClient, 0, NoSuccess) => From(toClient', 0, NoSuccess)
  BY <1>3, <1>4, SendsFrom
<1>6. Granting => Granting'
  <2> SUFFICES ASSUME Granting PROVE Granting'
    OBVIOUS
  <2>1. From(toClient, 1, Endings')
    BY <1>4, FromWider DEF Granting
  <2>2. From(toClient', 1, Endings')
    BY <1>3, <1>4, <2>1, SendsFrom
  <2>3. toClient' # <<>> /\ Head(toClient') = "success"
    BY <1>2, <1>3, <1>4 DEF Sends, Granting
  <2> QED
    BY <1>1, <2>2, <2>3 DEF Granting
<1>7. ASSUME ~night' PROVE Started => Started'
  <2>0. \A i \in 1..Len(<<"failure">>) : <<"failure">>[i] = "failure"
    OBVIOUS
  <2>1. \A i \in 1..Len(frames) : frames[i] \in {"failure"}
    BY <1>3, <1>7, <2>0
  <2>2. From(toClient, 0, {"failure"}) => From(toClient', 0, {"failure"})
    BY <1>3, <1>4, <2>1, SendsFrom
  <2> QED
    BY <1>1, <2>2 DEF Started
<1>8. ~Asked /\ ~Named /\ ~Challenged /\ ~Answered
  BY <1>1 DEF Asked, Named, Challenged, Answered
<1>9. From(toClient, 0, NoSuccess) \/ Granting
  BY FlowSpares
<1> QED
  BY <1>1, <1>5, <1>6, <1>7, <1>8, <1>9 DEF Flow, InTurn

\* What the network loses takes the exchange back to a Start, or nowhere.
LEMMA LosesKeepsFlow ==
    ASSUME Base, Flow, Loses, Joining, kept' = kept, Chatter' => Chatter
    PROVE  /\ ~night => InTurn'
           /\ night => (From(toClient, 0, NoSuccess) \/ Granting)'
<1>1. UNCHANGED <<port, night>> /\ toSwitch \in Seq(EapOut) /\ toClient \in Seq(EapFrame)
  BY OwingFacts DEF Loses
<1>2. /\ {"failure"} \subseteq NoSuccess /\ {"noteOffHours", "failure"} \subseteq NoSuccess
      /\ (~night => Endings = {"failure"}) /\ Endings \subseteq NoSuccess
  BY DEF NoSuccess, EapFrame, Endings, ErrorNotes
<1>3. CASE UNCHANGED <<toSwitch, toClient>>
  BY <1>1, <1>3, SameTurn DEF Flow
<1>4. CASE toSwitch # <<>> /\ toSwitch' = Tail(toSwitch) /\ toClient' = toClient
  <2>1. ~Asked /\ ~Challenged /\ ~Granting
    BY <1>4 DEF Asked, Challenged, Granting
  <2>2. ASSUME Started PROVE InTurn'
    <3>1. Ends(toSwitch', "logoff", Starts)
      <4>1. Ends(Tail(toSwitch), "logoff", Starts) \/ Tail(toSwitch) = <<>>
        BY <1>1, <1>4, <2>2, EndsTail DEF Started
      <4>2. Ends(<<>>, "logoff", Starts)
        BY DEF Ends
      <4> QED
        BY <1>4, <4>1, <4>2
    <3> QED
      BY <1>4, <2>2, <3>1 DEF InTurn, Started
  <2>3. ASSUME Named \/ Answered PROVE InTurn'
    <3>1. toSwitch' = <<>> /\ From(toClient', 0, {"failure"})
      BY <1>4, <2>3, FromEmpty DEF Named, Answered
    <3> QED
      BY <3>1, EmptyStarts
  <2> QED
    BY <1>4, <2>1, <2>2, <2>3 DEF Flow, InTurn
<1>5. CASE Heard /\ toSwitch' = toSwitch
  <2>1. toClient # <<>> /\ toClient' = Tail(toClient)
    BY <1>5 DEF Heard
  <2>2. ASSUME Started PROVE InTurn'
    BY <1>1, <1>5, <2>1, <2>2, FromTail DEF InTurn, Started
  <2>3. ASSUME Asked PROVE InTurn'
    <3>1. Ends(toClient', "failure", {"identity"})
      BY <1>1, <2>1, <2>3, EndsTail, AllIsOne, FromEmpty DEF Asked
    <3> QED
      BY <1>1, <1>5, <2>3, <3>1 DEF InTurn, Asked
  <2>4. ASSUME Challenged PROVE InTurn'
    <3>1. toSwitch' = <<>> /\ From(toClient', 0, {"failure"})
      BY <1>5, <2>1, <2>4, FromEmpty DEF Challenged
    <3> QED
      BY <3>1, EmptyStarts
  <2>5. ~Named /\ ~Answered
    BY <2>1 DEF Named, Answered
  <2>6. ASSUME Granting
        PROVE  (~night => InTurn') /\ From(toClient', 0, NoSuccess)
    <3>1. From(toClient', 0, Endings) /\ toSwitch' = <<>>
      BY <1>1, <1>5, <2>1, <2>6, FromTail DEF Granting
    <3>2. From(toClient', 0, NoSuccess)
      BY <1>2, <3>1, FromWider
    <3> QED
      BY <1>2, <3>1, <3>2, EmptyStarts
  <2>7. From(toClient, 0, NoSuccess) => From(toClient', 0, NoSuccess)
    BY <1>1, <2>1, FromTail
  <2> QED
    BY <2>2, <2>3, <2>4, <2>5, <2>6, <2>7 DEF Flow, InTurn
<1> QED
  BY <1>3, <1>4, <1>5 DEF Loses, Drop, Heard

LEMMA OthersKeepFlow ==
    ASSUME Base, Base', Stale, Flow, Others, UNCHANGED <<vars, kept>>, Joining',
           Chatter' => Chatter
    PROVE  Flow'
<1>1. Joining /\ handle /\ toClient \in Seq(EapFrame)
  BY StageUnchanged, StageFacts, OwingFacts DEF Stages
<1> SUFFICES /\ ~night' => InTurn'
             /\ night' => From(toClient', 0, NoSuccess) \/ Granting'
  BY DEF Flow
<1>2. CASE SwitchHears
  <2>1. night' = night /\ toSwitch # <<>>
    BY <1>2 DEF SwitchHears
  <2>2. ASSUME night PROVE From(toClient', 0, NoSuccess)
    <3>1. From(toClient, 0, NoSuccess)
      BY <1>1, <2>1, <2>2 DEF Flow, Granting
    <3>2. PICK frames \in Seq(EapFrame) :
             Sends(frames) /\ \A i \in 1..Len(frames) : frames[i] \in NoSuccess
      BY <1>2, <2>2, NightAnswers
    <3> QED
      BY <3>1, <3>2, SendsFrom
  <2> QED
    BY <1>1, <1>2, <2>1, <2>2, DayTurns
<1>3. CASE SwitchRepeats
  <2>1. toSwitch' = <<>> /\ toClient = <<>> /\ UNCHANGED <<port, night>>
    BY <1>3 DEF SwitchRepeats, Quiet
  <2>2. CASE port = "identity" /\ toClient' = <<"identity">>
    <3>1. Ends(toClient', "failure", {"identity"}) /\ From(toClient', 0, NoSuccess)
      BY <2>2 DEF Ends, From, NoSuccess, EapFrame
    <3> QED
      BY <2>1, <2>2, <3>1 DEF InTurn, Asked
  <2>3. CASE port = "challenge" /\ toClient' = <<"md5">>
    <3>1. From(toClient', 0, NoSuccess)
      BY <2>3 DEF From, NoSuccess, EapFrame
    <3> QED
      BY <2>1, <2>3, <3>1 DEF InTurn, Challenged
  <2> QED
    BY <1>1, <1>3, <2>1, <2>2, <2>3 DEF SwitchRepeats, Sends
<1>4. CASE SwitchDrops
  BY <1>1, <1>4, DropsKeepFlow
<1>5. CASE Loses
  BY <1>1, <1>5, LosesKeepsFlow DEF Loses
<1>6. CASE ServerHears \/ UNCHANGED campusVars
  <2>1. UNCHANGED <<port, night, toSwitch, toClient>>
    BY <1>6 DEF ServerHears, campusVars, wires
  <2> QED
    BY <1>1, <2>1, SameTurn DEF Flow
<1> QED
  BY <1>2, <1>3, <1>4, <1>5, <1>6 DEF Others

LEMMA StepKeepsFlow ==
    ASSUME Base, Scarce, Spared, Stale, Flow, [PacketsNext]_packetsVars
    PROVE  Flow'
<1> SUFFICES ASSUME Joining' PROVE Flow'
  BY DEF Flow
<1>1. Base' /\ ~Online'
  BY PacketsCases, StagesAfter DEF Stages
<1>2. Chatter' => Chatter
  BY <1>1, ChatterGrows
<1>3. ~Cuts
  BY DEF Cuts, Between
<1> QED
  BY <1>1, <1>2, <1>3, PacketsCases, ClientKeepsFlow, OthersKeepFlow

-----------------------------------------------------------------------------
(* Clear is kept                                                            *)

LEMMA StepKeepsClear ==
    ASSUME Base, Flow, Clear, [PacketsNext]_packetsVars
    PROVE  Clear'
<1> SUFFICES ASSUME Online' PROVE Clear'
  BY DEF Clear
<1>1. Base' /\ Stages /\ Stages'
  BY PacketsCases, StageFacts, StagesAfter
<1>2. toSwitch \in Seq(EapOut) /\ toClient \in Seq(EapFrame)
  BY OwingFacts
<1>3. CASE Carries /\ Turn
  <2>1. /\ (Succeeds \/ Stays) /\ night' = night
        /\ port' = port /\ toSwitch' = Put(toSwitch, eapTx')
    BY <1>1, <1>3, ClientOwes
       DEF Carries, Turn, Begins, Opens, Declines, Joins, GoesOn, GivesUp, Idles, Stages,
           Between
  <2>2. Endings' = Endings
    BY <2>1 DEF Endings
  <2>3. CASE Succeeds
    <3>1. Joining /\ toClient # <<>> /\ toClient' = Tail(toClient)
          /\ Head(toClient) = "success" /\ eapTx' = "none"
      BY <2>3 DEF Succeeds, Heard
    <3>2. ~From(toClient, 0, NoSuccess)
      BY <1>2, <3>1, FromTail DEF NoSuccess
    <3>3. Granting
      BY <3>1, <3>2, FlowSpares
    <3>4. toSwitch' = <<>> /\ From(toClient', 0, Endings)
      BY <1>2, <2>1, <3>1, <3>3, FromTail DEF Granting, Put
    <3>5. Len(toClient) = 1 => toClient' = <<>>
      BY <1>2, <3>1
    <3> QED
      BY <2>1, <2>2, <3>3, <3>4, <3>5 DEF Clear, Granting
  <2>4. CASE Stays
    <3>1. Online /\ eapTx' = "none" /\ (toClient' = toClient \/ Heard)
      BY <2>4, StaysSilent DEF Stays
    <3>2. toSwitch' = <<>>
      BY <2>1, <3>1 DEF Put, Clear
    <3>3. From(toClient', 0, Endings)
      BY <1>2, <3>1, FromTail DEF Clear, Heard
    <3> QED
      BY <2>1, <2>2, <3>1, <3>2, <3>3 DEF Clear, Heard
  <2> QED
    BY <2>1, <2>3, <2>4
<1>4. CASE Others /\ UNCHANGED <<vars, kept>>
  <2>1. /\ Online
        /\ toSwitch = <<>> /\ From(toClient, 0, Endings)
        /\ port \in {"closed", "open"}
        /\ port = "open" => toClient = <<>>
    BY <1>4, StageUnchanged DEF Clear
  <2>2. ~SwitchHears /\ ~SwitchRepeats
    BY <2>1 DEF SwitchHears, SwitchRepeats
  <2>3. CASE SwitchDrops
    <3>1. port' = "closed" /\ toSwitch' = toSwitch /\ ~night
      BY <2>3, DropsOwes
    <3>2. From(toClient, 0, Endings')
      BY <2>1, <3>1, FromWider DEF Endings
    <3>3. From(toClient', 0, Endings')
      BY <1>1, <2>3, <3>2, DropsSend, SendsFrom
    <3> QED
      BY <2>1, <3>1, <3>3 DEF Clear
  <2>4. CASE ServerHears \/ Loses \/ UNCHANGED campusVars
    <3>1. /\ UNCHANGED <<port, night>> /\ toSwitch' = toSwitch
          /\ toClient' = toClient \/ Heard
      BY <2>1, <2>4 DEF ServerHears, Loses, Drop, Heard, campusVars, wires
    <3>2. Endings' = Endings
      BY <3>1 DEF Endings
    <3>3. From(toClient', 0, Endings)
      BY <1>2, <2>1, <3>1, FromTail DEF Heard
    <3> QED
      BY <2>1, <3>1, <3>2, <3>3 DEF Clear, Heard
  <2> QED
    BY <1>4, <2>2, <2>3, <2>4 DEF Others
<1>5. ~Cuts
  BY <1>1 DEF Cuts, Between
<1> QED
  BY <1>3, <1>4, <1>5, PacketsCases

-----------------------------------------------------------------------------
(* What a keep-alive carries                                                *)

\* The parts that the login has kept before message m can be on the way.
Needs(m) ==
    IF m \in {"startAlive", "alive", "other"} THEN {"md5"}
    ELSE IF m \in {"miscInfo", "info"} THEN {"md5", "crc"}
    ELSE Parts

Fitting == {m \in Datagram \cup UdpOut : Needs(m) \subseteq kept}

Data ==
    Online =>
        /\ "md5" \in kept
        /\ hbDone /\ needHB => Parts \subseteq kept
        /\ From(toServer, 0, Fitting) /\ From(fromServer, 0, Fitting)

\* Two queues stay so where what is kept grows.
LEMMA FittingGrows ==
    ASSUME kept \subseteq kept', NEW q, From(q, 0, Fitting)
    PROVE  From(q, 0, Fitting')
<1>1. Fitting \subseteq Fitting'
  BY DEF Fitting
<1> QED
  BY <1>1, FromWider

\* An answer needs what the datagram needs and fills.
LEMMA AnswerFits ==
    ASSUME NEW g \in Datagram, Needs(g) \subseteq kept, kept' = kept \cup Filled(g)
    PROVE  /\ Answer(g) \in Fitting' \cup {"none"}
           /\ g # "alive" /\ (g = "hb4" \/ g = "info") => Parts \subseteq kept'
<1> USE DEF Needs, Filled, Answer, Parts, Datagram, UdpOut
<1>1. CASE g = "alive"
  BY <1>1 DEF Fitting
<1>2. CASE g = "info"
  BY <1>2 DEF Fitting
<1>3. CASE g \in {"file", "beatAck", "hb2", "hb4"}
  BY <1>3 DEF Fitting
<1>4. CASE g = "other"
  BY <1>4 DEF Fitting
<1> QED
  BY <1>1, <1>2, <1>3, <1>4

LEMMA ReplyFits ==
    ASSUME NEW m \in UdpOut, m \in Fitting
    PROVE  Response[m] \in Fitting
BY DEF Fitting, Needs, Response, UdpOut, Datagram, Parts

LEMMA ClientKeepsData ==
    ASSUME Base, Base', Flow, Clear, Data, Carries, Online'
    PROVE  Data'
<1>1. /\ toServer \in Seq(UdpOut) /\ fromServer \in Seq(Datagram)
      /\ toClient \in Seq(EapFrame)
      /\ toServer' = Put(toServer, udpTx') /\ Exchanges
  BY DEF Base, WireTypes, Carries
<1>2. Online => /\ "md5" \in kept
                /\ hbDone /\ needHB => Parts \subseteq kept
                /\ From(toServer, 0, Fitting) /\ From(fromServer, 0, Fitting)
                /\ toClient # <<>> => Head(toClient) \in Endings
  BY <1>1, FromTail DEF Data, Clear
<1>3. ASSUME NEW x \in UdpOut \cup {"none"}, udpTx' = x, x \in Fitting' \cup {"none"},
             kept \subseteq kept', From(toServer, 0, Fitting)
      PROVE  From(toServer', 0, Fitting')
  BY <1>1, <1>3, FittingGrows, FromPut
<1>4. CASE Enters
  <2>1. /\ Joining /\ toClient # <<>> /\ Head(toClient) = "success"
        /\ udpTx' = "startAlive" /\ ~hbDone' /\ UNCHANGED <<fromServer, kept>>
    BY <1>4 DEF Enters, Succeeds, Heard
  <2>2. ~From(toClient, 0, NoSuccess)
    BY <1>1, <2>1, FromTail DEF NoSuccess
  <2>3. "md5" \in kept /\ toServer = <<>> /\ fromServer = <<>>
    BY <2>1, <2>2, FlowSpares DEF Granting, Chatter
  <2>4. "startAlive" \in Fitting' /\ "startAlive" \in UdpOut
    BY <2>1, <2>3 DEF Fitting, Needs, UdpOut
  <2>5. From(toServer', 0, Fitting') /\ From(fromServer', 0, Fitting')
    BY <1>3, <2>1, <2>3, <2>4, FromEmpty
  <2> QED
    BY <2>1, <2>3, <2>5 DEF Data
<1>5. CASE Listens
  <2>1. /\ Online /\ udpTx' = "none" /\ UNCHANGED <<hbDone, needHB, fromServer, kept>>
    BY <1>2, <1>5 DEF Listens, Heard, Endings
  <2>2. From(toServer', 0, Fitting') /\ From(fromServer', 0, Fitting')
    BY <1>2, <1>3, <2>1, FittingGrows
  <2> QED
    BY <1>2, <2>1, <2>2 DEF Data
<1>6. ~Regrants
  BY <1>2 DEF Regrants, Heard, Endings
<1>7. CASE Beats
  <2>1. /\ Online /\ Parts \subseteq kept /\ udpTx' = "beat" /\ ~hbDone'
        /\ UNCHANGED <<fromServer, kept>>
    BY <1>2, <1>7 DEF Beats
  <2>2. "beat" \in Fitting' /\ "beat" \in UdpOut
    BY <2>1 DEF Fitting, Needs, UdpOut
  <2>3. From(toServer', 0, Fitting') /\ From(fromServer', 0, Fitting')
    BY <1>2, <1>3, <2>1, <2>2, FittingGrows
  <2> QED
    BY <1>2, <2>1, <2>3 DEF Data
<1>8. CASE Reads
  <2>1. PICK g \in Datagram :
          /\ \/ fromServer = <<>> /\ fromServer' = <<>> /\ g = "other"
             \/ fromServer # <<>> /\ fromServer' = Tail(fromServer) /\ g = Head(fromServer)
          /\ DatagramEffect(g)
          /\ udpTx' = Answer(g)
          /\ kept' = kept \cup Filled(g)
    BY <1>8 DEF Reads
  <2>2. Online
    BY <1>8 DEF Reads
  <2>3. Needs(g) \subseteq kept /\ From(fromServer', 0, Fitting)
    <3>1. CASE fromServer = <<>>
      BY <1>2, <2>1, <2>2, <3>1 DEF Needs
    <3>2. CASE fromServer # <<>>
      <4>1. g \in Fitting /\ From(Tail(fromServer), 0, Fitting)
        BY <1>1, <1>2, <2>1, <2>2, <3>2, FromTail
      <4> QED
        BY <2>1, <3>2, <4>1 DEF Fitting
    <3> QED
      BY <3>1, <3>2
  <2>4. From(fromServer', 0, Fitting')
    BY <2>1, <2>3, FittingGrows
  <2>5. From(toServer', 0, Fitting')
    <3>1. udpTx' \in UdpOut \cup {"none"}
      BY <2>1 DEF Answer, UdpOut
    <3> QED
      BY <1>2, <1>3, <2>1, <2>2, <2>3, <3>1, AnswerFits
  <2>6. hbDone' /\ needHB' => Parts \subseteq kept'
    BY <1>2, <2>1, <2>2, <2>3, AnswerFits DEF DatagramEffect
  <2> QED
    BY <1>2, <2>1, <2>2, <2>4, <2>5, <2>6 DEF Data
<1> QED
  BY <1>1, <1>4, <1>5, <1>6, <1>7, <1>8 DEF Exchanges

LEMMA StepKeepsData ==
    ASSUME Base, Flow, Clear, Data, [PacketsNext]_packetsVars
    PROVE  Data'
<1> SUFFICES ASSUME Online' PROVE Data'
  BY DEF Data
<1>1. CASE Others /\ UNCHANGED <<vars, kept>>
  <2>1. /\ Online /\ UNCHANGED <<hbDone, needHB, kept>> /\ Fitting' = Fitting
        /\ "md5" \in kept /\ (hbDone /\ needHB => Parts \subseteq kept)
        /\ From(toServer, 0, Fitting) /\ From(fromServer, 0, Fitting)
        /\ toServer \in Seq(UdpOut) /\ fromServer \in Seq(Datagram)
    BY <1>1, StageUnchanged DEF Data, vars, sessionVars, Fitting, Base, WireTypes
  <2> SUFFICES From(toServer', 0, Fitting) /\ From(fromServer', 0, Fitting)
    BY <2>1 DEF Data
  <2>2. CASE ServerHears
    <3>1. toServer # <<>> /\ toServer' = Tail(toServer)
          /\ fromServer' \in {fromServer, Append(fromServer, Response[Head(toServer)])}
      BY <2>2 DEF ServerHears
    <3>2. Head(toServer) \in Fitting /\ Head(toServer) \in UdpOut
      BY <2>1, <3>1, FromTail
    <3> DEFINE m == Response[Head(toServer)]
    <3>3. m \in Fitting /\ m \in Datagram /\ m # "none"
      BY <3>2, ReplyFits DEF Response, UdpOut, Datagram
    <3>4. Put(fromServer, m) = Append(fromServer, m)
      BY <3>3 DEF Put
    <3>5. From(Append(fromServer, m), 0, Fitting)
      BY <2>1, <3>3, <3>4, FromPut
    <3> QED
      BY <2>1, <3>1, <3>5, FromTail
  <2>3. CASE ~ServerHears
    <3>1. /\ toServer' = toServer \/ (toServer # <<>> /\ toServer' = Tail(toServer))
          /\ fromServer' = fromServer \/ (fromServer # <<>> /\ fromServer' = Tail(fromServer))
      BY <1>1, <2>3
         DEF Others, SwitchHears, SwitchRepeats, SwitchDrops, Loses, Drop, campusVars, wires
    <3> QED
      BY <2>1, <3>1, FromTail
  <2> QED
    BY <2>2, <2>3
<1>2. ~Cuts
  BY DEF Cuts, Between
<1> QED
  BY <1>1, <1>2, PacketsCases, ClientKeepsData

\* What is kept is one of the three parts.
LEMMA StepKeepsParts ==
    ASSUME kept \subseteq Parts, [PacketsNext]_packetsVars
    PROVE  kept' \subseteq Parts
BY DEF Parts, PacketsNext, packetsVars, ClientKeeps, HearsAndKeeps, ReadsAndKeeps,
   MovesAndKeeps, StaysAndKeeps, RestartsEmpty, Elsewhere, Filled

LEMMA StepKeepsBeats ==
    ASSUME Base, Clear, Data, kept \subseteq Parts, BeatsAreFresh, [PacketsNext]_packetsVars
    PROVE  BeatsAreFresh'
<1>1. kept' \subseteq Parts
  BY StepKeepsParts
<1>2. CASE Carries /\ Online'
  <2>1. Online /\ toClient # <<>> => Head(toClient) \in Endings
    BY OwingFacts, FromTail DEF Clear
  <2>2. ~Regrants
    BY <2>1 DEF Regrants, Heard, Endings
  <2>3. udpTx' = "beat" => Beats
    BY <1>2, <2>2 DEF Carries, Exchanges, Enters, Listens, Reads, Answer
  <2> QED
    BY <1>1, <2>3 DEF Beats, Data, BeatsAreFresh
<1>3. CASE Others /\ UNCHANGED <<vars, kept>>
  BY <1>3 DEF vars, BeatsAreFresh
<1> QED
  BY <1>2, <1>3, PacketsCases DEF Carries, BeatsAreFresh

-----------------------------------------------------------------------------
(* The theorem                                                              *)

\* The inductive invariant.
Fresh ==
    /\ Base /\ Budget
    /\ Scarce /\ Spared /\ Flow /\ Clear /\ Stale
    /\ Data /\ kept \subseteq Parts /\ BeatsAreFresh

LEMMA InitFresh == PacketsInit => Fresh
<1> SUFFICES ASSUME PacketsInit PROVE Fresh
  OBVIOUS
<1>1. Base /\ Budget /\ CampusInit /\ kept = {}
  BY InitBase, InitBudget DEF PacketsInit
<1>2. ~Opening /\ ~Joining /\ ~Online /\ ~handle /\ udpTx = "none"
  BY <1>1 DEF CampusInit, Init, Opening, Joining, Online, InLogoff, InLoop
<1>3. Dead /\ ~Chatter
  BY <1>1 DEF CampusInit, Dead, StartIn, Chatter
<1> QED
  BY <1>1, <1>2, <1>3
     DEF Fresh, Scarce, Spared, Flow, Clear, Stale, Data, BeatsAreFresh

LEMMA StepKeepsFresh ==
    ASSUME Fresh, [PacketsNext]_packetsVars
    PROVE  Fresh'
<1>1. Base' /\ Budget'
  BY PacketsCases, StepKeepsBudget DEF Fresh
<1>2. Scarce' /\ Spared'
  BY StepKeepsScarce, StepKeepsSpared DEF Fresh
<1>3. Flow' /\ Clear'
  BY StepKeepsFlow, StepKeepsClear DEF Fresh
<1>4. Stale'
  BY StepKeepsStale DEF Fresh
<1>5. Data' /\ kept' \subseteq Parts /\ BeatsAreFresh'
  BY StepKeepsData, StepKeepsParts, StepKeepsBeats DEF Fresh
<1> QED
  BY <1>1, <1>2, <1>3, <1>4, <1>5 DEF Fresh, Parts

\* Every keep-alive that Drcom_ALIVE_HEARTBEAT_TYPE_Setter fills in carries
\* the checksum, the digest and the tail of the login that it keeps alive,
\* whatever the network loses, however often the switch drops the port or
\* closes for the night, and whenever the user kills the client.
THEOREM AlwaysFresh == PacketsSpec => []BeatsAreFresh
<1>1. Fresh /\ [PacketsNext]_packetsVars => Fresh'
  BY StepKeepsFresh
<1>2. Fresh => BeatsAreFresh
  BY DEF Fresh
<1> QED
  BY <1>1, <1>2, InitFresh, PTL DEF PacketsSpec

=============================================================================
