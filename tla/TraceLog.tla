------------------------------ MODULE TraceLog ------------------------------
(***************************************************************************)
(* LogWrite of tracelog.c: every line opens the log, appends and closes,   *)
(* and a log found too big becomes the backup.  Several processes, a       *)
(* client and a --logoff beside it, use the one path in the temp           *)
(* directory; each may be killed anywhere, and another program may be      *)
(* reading the log.  A file is the sequence of the numbers of its lines,   *)
(* an empty file and none are the same, and MAXFILELEN is MaxLines lines.  *)
(* On Windows neither an open file nor onto an existing one can be renamed.*)
(***************************************************************************)
EXTENDS Integers, Sequences

CONSTANTS
    Writers,    \* the processes that log
    MaxLines,   \* MAXFILELEN, in lines
    MaxWritten  \* bound on the lines of a run

ASSUME LogAssumption == MaxLines \in Nat \ {0} /\ MaxWritten \in Nat

VARIABLES
    pc,       \* where each process is in LogWrite
    log,      \* scutclient.log
    backup,   \* scutclient.log.backup.log
    viewed,   \* a program other than the client has the log open
    written,  \* history: lines flushed so far
    refused   \* history: a rename has failed since the last one that did not

vars == <<pc, log, backup, viewed, written, refused>>

Init ==
    /\ pc = [w \in Writers |-> "idle"]
    /\ log = <<>>
    /\ backup = <<>>
    /\ viewed = FALSE
    /\ written = 0
    /\ refused = FALSE

Goto(w, p) == pc' = [pc EXCEPT ![w] = p]

\* The log is open in some process, or in a viewer.
Held == viewed \/ \E w \in Writers : pc[w] \in {"sizing", "writing", "closing"}

\* get_file_size opens the log, if there is one ...
Begin(w) ==
    /\ pc[w] = "idle"
    /\ written < MaxWritten
    /\ Goto(w, IF log = <<>> THEN "opening" ELSE "sizing")
    /\ UNCHANGED <<log, backup, viewed, written, refused>>

\* Mutant of TooBig: the size of the backup is looked at.
TooBigBackup == Len(backup) > MaxLines

TooBig == Len(log) > MaxLines

\* ... and closes it.
Size(w) ==
    /\ pc[w] = "sizing"
    /\ Goto(w, IF TooBig THEN "removing" ELSE "opening")
    /\ UNCHANGED <<log, backup, viewed, written, refused>>

\* The backup can be open in a viewer, too, and then it stays; nobody looks.
Remove(w) ==
    /\ pc[w] = "removing"
    /\ backup' \in {<<>>, backup}
    /\ Goto(w, "renaming")
    /\ UNCHANGED <<log, viewed, written, refused>>

\* Mutant of Rename: the backup is removed after it, not before.
RenameThenRemove(w) ==
    /\ pc[w] = "renaming"
    /\ IF log # <<>> /\ backup = <<>> /\ ~Held
         THEN log' = <<>> /\ backup' = <<>> /\ refused' = FALSE
         ELSE refused' = TRUE /\ UNCHANGED <<log, backup>>
    /\ Goto(w, "opening")
    /\ UNCHANGED <<viewed, written>>

\* A rename that fails is not noticed.
Rename(w) ==
    /\ pc[w] = "renaming"
    /\ IF log # <<>> /\ backup = <<>> /\ ~Held
         THEN log' = <<>> /\ backup' = log /\ refused' = FALSE
         ELSE refused' = TRUE /\ UNCHANGED <<log, backup>>
    /\ Goto(w, "opening")
    /\ UNCHANGED <<viewed, written>>

\* fopen "a+"; it fails for nobody here, as everybody shares reading and writing.
Open(w) ==
    /\ pc[w] = "opening"
    /\ Goto(w, "writing")
    /\ UNCHANGED <<log, backup, viewed, written, refused>>

\* The line reaches the file with fflush.
Write(w) ==
    /\ pc[w] = "writing"
    /\ written < MaxWritten
    /\ log' = Append(log, written + 1)
    /\ written' = written + 1
    /\ Goto(w, "closing")
    /\ UNCHANGED <<backup, viewed, refused>>

Close(w) ==
    /\ pc[w] = "closing"
    /\ Goto(w, "idle")
    /\ UNCHANGED <<log, backup, viewed, written, refused>>

\* The process is killed, and started again.
Kill(w) ==
    /\ pc[w] # "idle"
    /\ Goto(w, "idle")
    /\ UNCHANGED <<log, backup, viewed, written, refused>>

\* A viewer opens the log, or closes it.
View ==
    /\ viewed' = ~viewed
    /\ log # <<>>
    /\ UNCHANGED <<pc, log, backup, written, refused>>

LogWrite(w) ==
    \/ Begin(w) \/ Size(w) \/ Remove(w) \/ Rename(w)
    \/ Open(w) \/ Write(w) \/ Close(w)

Next == View \/ \E w \in Writers : LogWrite(w) \/ Kill(w)

Spec == Init /\ [][Next]_vars

-----------------------------------------------------------------------------

Kept == backup \o log

TypeOK ==
    /\ pc \in [Writers -> {"idle", "sizing", "removing", "renaming",
                           "opening", "writing", "closing"}]
    /\ log \in Seq(Int)
    /\ backup \in Seq(Int)
    /\ viewed \in BOOLEAN
    /\ written \in 0..MaxWritten
    /\ refused \in BOOLEAN

\* The log and its backup always hold the latest lines, at least as many as a
\* log may have and none left out, wherever the process was killed and whoever
\* kept a rename from succeeding.
KeepsLatest ==
    /\ Kept = [i \in 1..Len(Kept) |-> written - Len(Kept) + i]
    /\ Len(Kept) >= IF written < MaxLines THEN written ELSE MaxLines

\* The log is at most one line longer than its limit, unless it could not be
\* renamed because somebody had it or the backup open.
LogBounded == Len(log) > MaxLines + 1 => refused

=============================================================================
