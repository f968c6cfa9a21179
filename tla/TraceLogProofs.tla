--------------------------- MODULE TraceLogProofs ---------------------------
(***************************************************************************)
(* What a single process keeps of its log, for every limit and every       *)
(* number of lines, wherever it is killed.                                 *)
(***************************************************************************)
EXTENDS TraceLog, TLAPS

\* The lines before line n that a sequence ending just before it holds.
Ends(s, n) == \A i \in 1..Len(s) : s[i] = n - Len(s) + i

Full(k) == k >= IF written < MaxLines THEN written ELSE MaxLines

\* A process that is rotating the log has seen it too big, and found no other
\* process to change it since; only a process that has rotated it or found it
\* small enough goes on to write.
IInv(w) ==
    /\ TypeOK
    /\ Ends(log, written)
    /\ Ends(backup, written - Len(log))
    /\ Full(Len(backup) + Len(log))
    /\ pc[w] \in {"removing", "renaming"} => Len(log) > MaxLines
    /\ pc[w] \in {"opening", "writing"} => Len(log) <= MaxLines \/ refused
    /\ LogBounded

LEMMA StepKeepsIInv ==
    ASSUME NEW w, Writers = {w}, IInv(w), [Next]_vars
    PROVE  IInv(w)'
  <1> USE LogAssumption
  <1>1. TypeOK /\ pc[w] \in {"idle", "sizing", "removing", "renaming",
                             "opening", "writing", "closing"}
    BY DEF IInv, TypeOK
  <1>2. ASSUME NEW p \in {"idle", "sizing", "removing", "renaming",
                          "opening", "writing", "closing"}, Goto(w, p)
        PROVE  pc' \in [Writers -> {"idle", "sizing", "removing", "renaming",
                                    "opening", "writing", "closing"}]
               /\ pc'[w] = p
    BY <1>1, <1>2 DEF TypeOK, Goto
  <1>3. CASE Begin(w) \/ Open(w) \/ Close(w) \/ Kill(w)
    <2>1. UNCHANGED <<log, backup, viewed, written, refused>>
      BY <1>3 DEF Begin, Open, Close, Kill
    <2>2. \E p \in {"idle", "sizing", "opening", "writing"} :
            /\ Goto(w, p)
            /\ p \in {"opening", "writing"} => log = <<>> \/ pc[w] = "opening"
      BY <1>3 DEF Begin, Open, Close, Kill
    <2>3. TypeOK'
      BY <1>1, <1>2, <2>1, <2>2 DEF TypeOK
    <2>4. /\ pc'[w] \notin {"removing", "renaming"}
          /\ pc'[w] \in {"opening", "writing"} => log = <<>> \/ pc[w] = "opening"
      BY <1>2, <2>2
    <2>5. log = <<>> => Len(log) <= MaxLines
      OBVIOUS
    <2>6. pc'[w] \in {"opening", "writing"} => Len(log) <= MaxLines \/ refused
      BY <2>4, <2>5 DEF IInv
    <2> QED
      BY <2>1, <2>3, <2>4, <2>6 DEF IInv, Ends, Full, LogBounded
  <1>4. CASE Size(w)
    BY <1>1, <1>2, <1>4 DEF Size, TooBig, IInv, TypeOK, Ends, Full, LogBounded
  <1>5. CASE Remove(w)
    <2>1. CASE backup' = <<>>
      <3>1. Len(<<>>) = 0 /\ Len(log) \in Nat
        BY <1>1 DEF TypeOK
      <3>2. Full(Len(backup) + Len(log))'
        BY <1>5, <2>1, <3>1 DEF Remove, IInv, Full, TypeOK
      <3> QED
        BY <1>1, <1>2, <1>5, <2>1, <3>1, <3>2 DEF Remove, IInv, TypeOK, Ends, LogBounded
    <2>2. CASE backup' = backup
      BY <1>1, <1>2, <1>5, <2>2 DEF Remove, IInv, TypeOK, Ends, Full, LogBounded
    <2> QED BY <1>5, <2>1, <2>2 DEF Remove
  <1>6. CASE Rename(w)
    <2>1. CASE log # <<>> /\ backup = <<>> /\ ~Held
      <3>1. log' = <<>> /\ backup' = log /\ Len(<<>>) = 0 /\ written' = written
        BY <1>6, <2>1 DEF Rename
      <3>2. Len(log) \in Nat /\ written \in Int
        BY <1>1 DEF TypeOK
      <3>3. Ends(log, written)' /\ Ends(backup, written - Len(log))'
        BY <3>1, <3>2 DEF IInv, Ends
      <3>4. Full(Len(backup) + Len(log))'
        BY <3>1, <3>2, <2>1 DEF IInv, Full
      <3>5. TypeOK' /\ pc'[w] = "opening" /\ viewed' = viewed /\ refused' = FALSE
        <4>1. <<>> \in Seq(Int)
          OBVIOUS
        <4> QED BY <1>1, <1>2, <1>6, <2>1, <3>1, <4>1 DEF Rename, TypeOK
      <3>6. Len(log') <= MaxLines
        BY <3>1
      <3> QED
        BY <3>3, <3>4, <3>5, <3>6 DEF IInv, LogBounded
    <2>2. CASE ~(log # <<>> /\ backup = <<>> /\ ~Held)
      BY <1>1, <1>2, <1>6, <2>2 DEF Rename, IInv, TypeOK, Ends, Full, LogBounded
    <2> QED BY <2>1, <2>2
  <1>7. CASE Write(w)
    <2>1. /\ log' = Append(log, written + 1) /\ written' = written + 1
          /\ backup' = backup /\ refused' = refused /\ viewed' = viewed
          /\ written' \in 0..MaxWritten /\ written \in Int /\ log \in Seq(Int)
      BY <1>1, <1>7 DEF Write, TypeOK
    <2>2. /\ log' \in Seq(Int) /\ Len(log') = Len(log) + 1 /\ Len(log) \in Nat
          /\ \A i \in 1..Len(log) : log'[i] = log[i]
          /\ log'[Len(log) + 1] = written + 1
      BY <2>1
    <2>3. Ends(log, written)'
      BY <2>1, <2>2 DEF IInv, Ends
    <2>4. Ends(backup, written - Len(log))'
      <3>1. (written - Len(log))' = written - Len(log)
        BY <2>1, <2>2
      <3> QED BY <2>1, <3>1 DEF IInv, Ends
    <2>5. Full(Len(backup) + Len(log))'
      <3>1. Len(backup) \in Nat
        BY <1>1 DEF TypeOK
      <3> QED BY <2>1, <2>2, <3>1 DEF IInv, Full
    <2>6. LogBounded'
      BY <1>7, <2>1, <2>2 DEF Write, IInv, LogBounded
    <2>7. TypeOK' /\ pc'[w] = "closing"
      BY <1>1, <1>2, <1>7, <2>1, <2>2 DEF Write, TypeOK
    <2> QED BY <2>3, <2>4, <2>5, <2>6, <2>7 DEF IInv
  <1>8. CASE View \/ UNCHANGED vars
    BY <1>8 DEF View, vars, IInv, TypeOK, Ends, Full, LogBounded
  <1> QED
    BY <1>3, <1>4, <1>5, <1>6, <1>7, <1>8 DEF Next, LogWrite

LEMMA Inductive ==
    ASSUME NEW w, Writers = {w}
    PROVE  Spec => []IInv(w)
  <1>1. Init => IInv(w)
    <2> SUFFICES ASSUME Init PROVE IInv(w)
      OBVIOUS
    <2>1. <<>> \in Seq(Int) /\ Len(<<>>) = 0
      OBVIOUS
    <2>2. TypeOK
      <3>1. pc \in [Writers -> {"idle", "sizing", "removing", "renaming",
                               "opening", "writing", "closing"}]
        BY DEF Init
      <3>2. written \in 0..MaxWritten
        BY LogAssumption DEF Init
      <3> QED BY <2>1, <3>1, <3>2 DEF Init, TypeOK
    <2>3. Full(Len(backup) + Len(log))
      BY <2>1, LogAssumption DEF Init, Full
    <2>4. pc[w] = "idle"
      BY DEF Init
    <2> QED
      BY <2>1, <2>2, <2>3, <2>4, LogAssumption DEF Init, IInv, Ends, LogBounded
  <1>2. IInv(w) /\ [Next]_vars => IInv(w)'
    BY StepKeepsIInv
  <1> QED BY <1>1, <1>2, PTL DEF Spec

\* The log of one process outgrows its limit by one line only, whatever the
\* limit, as long as no rename was refused (get_file_size and rename in initlog).
THEOREM OneLineOver ==
    ASSUME NEW w, Writers = {w}
    PROVE  Spec => []LogBounded
  <1>1. IInv(w) => LogBounded
    BY DEF IInv
  <1> QED BY <1>1, Inductive, PTL

\* One process loses none of the latest lines, whatever the limit and wherever
\* it is killed: remove, rename and append keep them in the backup and the log.
THEOREM LatestKept ==
    ASSUME NEW w, Writers = {w}
    PROVE  Spec => []KeepsLatest
  <1>1. IInv(w) => KeepsLatest
    <2> SUFFICES ASSUME IInv(w) PROVE KeepsLatest
      OBVIOUS
    <2>1. log \in Seq(Int) /\ backup \in Seq(Int) /\ written \in Int
      BY DEF IInv, TypeOK
    <2>2. /\ Kept \in Seq(Int) /\ Len(Kept) = Len(backup) + Len(log)
          /\ Len(log) \in Nat /\ Len(backup) \in Nat
          /\ \A i \in 1..Len(Kept) :
               Kept[i] = IF i <= Len(backup) THEN backup[i] ELSE log[i - Len(backup)]
      BY <2>1 DEF Kept
    <2>3. \A i \in 1..Len(Kept) : Kept[i] = written - Len(Kept) + i
      <3> SUFFICES ASSUME NEW i \in 1..Len(Kept)
                   PROVE  Kept[i] = written - Len(Kept) + i
        OBVIOUS
      <3>1. CASE i <= Len(backup)
        <4>1. backup[i] = (written - Len(log)) - Len(backup) + i
          BY <2>2, <3>1 DEF IInv, Ends
        <4> QED BY <2>1, <2>2, <3>1, <4>1
      <3>2. CASE i > Len(backup)
        <4>1. i - Len(backup) \in 1..Len(log)
          BY <2>2, <3>2
        <4>2. log[i - Len(backup)] = written - Len(log) + (i - Len(backup))
          BY <4>1 DEF IInv, Ends
        <4> QED BY <2>1, <2>2, <3>2, <4>2
      <3> QED BY <2>2, <3>1, <3>2
    <2>4. Kept = [i \in 1..Len(Kept) |-> written - Len(Kept) + i]
      BY <2>2, <2>3
    <2> QED BY <2>2, <2>4 DEF KeepsLatest, IInv, Full
  <1> QED BY <1>1, Inductive, PTL

=============================================================================
