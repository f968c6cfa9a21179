----------------------------- MODULE Lifecycle -----------------------------
(***************************************************************************)
(* What the client promises the two networks it talks to, without saying   *)
(* how: the switch is told Logoff before every login and after every one,  *)
(* however it went, the Dr.com server hears from authenticated hosts only, *)
(* a refused session is never resumed, and no keep-alive is sent while the *)
(* one before is unanswered.  OpenSession implements it.                   *)
(***************************************************************************)

VARIABLES
    phase,     \* "idle", "clearing", "ready", "joining", "online", "leaving",
               \* "parting" or "over"
    word,      \* the last thing said to the switch: "none", "start",
               \* "response" or "logoff"
    awaited,   \* the server owes an answer
    udp        \* what the last step sent to the server: "none", "open",
               \* "chat" or "beat"

lifeVars == <<phase, word, awaited, udp>>

LifeInit ==
    /\ phase = "idle"
    /\ word = "none"
    /\ awaited = FALSE
    /\ udp = "none"

\* From one phase to another without a word.
Goes(from, to) ==
    /\ phase \in from
    /\ phase' \in to
    /\ awaited' = FALSE
    /\ udp' = "none"
    /\ UNCHANGED word

Says(w) ==
    /\ word' = w
    /\ udp' = "none"
    /\ UNCHANGED awaited

Open == Goes({"idle"}, {"clearing", "over"})

SayLogoff ==
    /\ phase \in {"clearing", "parting"}
    /\ Says("logoff")
    /\ UNCHANGED phase

\* Neither the opening nor the closing is over before Logoff was said.
Cleared == word = "logoff" /\ Goes({"clearing"}, {"ready", "idle"})
Parted == word = "logoff" /\ Goes({"parting"}, {"idle"})

Abandon == Goes({"ready"}, {"idle"})

Begin ==
    /\ phase = "ready"
    /\ phase' = "joining"
    /\ Says("start")

\* Starts until the switch takes part, from then on only answers.
Ask == phase = "joining" /\ word = "start" /\ Says("start") /\ UNCHANGED phase
Respond == phase \in {"joining", "online"} /\ Says("response") /\ UNCHANGED phase

Grant ==
    /\ phase \in {"joining", "online"}
    /\ phase' = "online"
    /\ awaited' = TRUE
    /\ udp' = "open"
    /\ UNCHANGED word

Converse ==
    /\ phase = "online"
    /\ awaited' \in {awaited, FALSE}
    /\ udp' \in {"none", "chat"}
    /\ UNCHANGED <<phase, word>>

Beat ==
    /\ phase = "online"
    /\ ~awaited
    /\ awaited' = TRUE
    /\ udp' = "beat"
    /\ UNCHANGED <<phase, word>>

\* The end of a session, from wherever it got to; there is no way back.
Lose == Goes({"joining", "online"}, {"leaving"})
Part == Goes({"joining", "online", "leaving"}, {"parting"})

End == Goes({"idle"}, {"over"})

\* Time passes, frames that change nothing arrive.
Rest == udp' = "none" /\ UNCHANGED <<phase, word, awaited>>

LifeNext ==
    \/ Open \/ SayLogoff \/ Cleared \/ Parted \/ Abandon
    \/ Begin \/ Ask \/ Respond
    \/ Grant \/ Converse \/ Beat
    \/ Lose \/ Part \/ End \/ Rest

LifeSpec == LifeInit /\ [][LifeNext]_lifeVars

=============================================================================
