------------------------------ MODULE Options ------------------------------
(***************************************************************************)
(* The command line: option_matches, required_value and parse_arguments of *)
(* main.c and what main() makes of their result.  A word of the command    *)
(* line is an option in one of its five spellings, with the value of those *)
(* that carry one, or plain text.  Texts are strings, and "-" stands for   *)
(* any text that begins with a dash.                                       *)
(***************************************************************************)
EXTENDS Integers, Sequences

CONSTANTS
    Words,     \* the words a command line is made of
    MaxWords,  \* its greatest length
    Addresses, \* the texts inet_pton takes
    Times,     \* the texts --net-time takes
    BadLevels  \* the texts whose atoi() is no debug level

Texts == {"u", "p", "E", "Q", "i", "H", "c", "h"}
Required == Texts \cup {"n", "s", "T"}
Flags == {"o", "l"}
Keys == Required \cup Flags \cup {"D"}
Spellings == {"long", "long=", "short", "short=", "short+"}
None == "NULL"

ASSUME WordAssumption ==
    /\ MaxWords \in Nat
    /\ Words \subseteq
         [key : STRING, form : Spellings \cup {"plain", "help"}, val : STRING]
    /\ \A w \in Words : w.form \in Spellings => w.key \in Keys
    /\ \A w \in Words : w.val # None
    /\ \A w \in Words : w.form = "short+" => w.val # ""

\* The word as the value of the option before it.
Text(w) == IF w.form = "plain" THEN w.val ELSE "-"

\* *inline_value; option_matches tells the two kinds of option apart by it.
InlineValue(w) == IF w.form \in {"long=", "short=", "short+"} THEN w.val ELSE None

\* The state of parse_arguments before its first word.
Fresh == [at |-> 1, status |-> "parsing", set |-> [k \in Keys |-> None]]

Fail(s) == [s EXCEPT !.status = "failed"]

Help(s) == [s EXCEPT !.status = "help"]

\* Mutant of Assign: the UDP server is stored where the DNS server is.
AssignToDns(s, k, v) ==
    [s EXCEPT !.set[IF k = "s" THEN "n" ELSE k] = v, !.at = @ + 1]

Assign(s, k, v) ==
    [at |-> s.at + 1, status |-> s.status, set |-> [s.set EXCEPT ![k] = v]]

\* The body of a branch of parse_arguments once its value is known.
Take(s, k, v) ==
    IF \/ k \in {"n", "s"} /\ v \notin Addresses
       \/ k = "T" /\ v \notin Times
       \/ k = "D" /\ v \in BadLevels
      THEN Fail(s)
      ELSE Assign(s, k, v)

\* Mutant of NextWord: the index stays on the option.
NextWordOnce(words, s, k) == Take(s, k, Text(words[s.at + 1]))

\* The value is the next word, which is not parsed as an option then.
NextWord(words, s, k) == Take([s EXCEPT !.at = @ + 1], k, Text(words[s.at + 1]))

\* Mutant of TakesLevel: the level is required.
TakesAnyLevel(words, s) == s.at < Len(words)

\* The next word is the level of a -D without one, unless it begins with a dash.
TakesLevel(words, s) == s.at < Len(words) /\ Text(words[s.at + 1]) # "-"

\* One round of the loop.
Parse(words, s) ==
    LET w == words[s.at]
        k == w.key
        v == InlineValue(w)
        more == s.at < Len(words)
    IN  IF w.form = "help" THEN Help(s)
        ELSE IF w.form = "plain" THEN Fail(s)
        ELSE IF k \in Flags THEN Take(s, k, "set")
        ELSE IF v # None THEN Take(s, k, v)
        ELSE IF k = "D"
          THEN IF TakesLevel(words, s) THEN NextWord(words, s, k) ELSE Take(s, k, "")
        ELSE IF more THEN NextWord(words, s, k) ELSE Fail(s)

Complete(set) ==
    set["o"] = "set" \/ (set["u"] \notin {None, ""} /\ set["p"] \notin {None, ""})

\* The end of the loop, and the checks of main() before it authenticates.
Begin(s) ==
    [s EXCEPT !.status = IF s.set["l"] = "set" THEN "listed"
                         ELSE IF Complete(s.set) THEN "started" ELSE "failed"]

Round(words, s) ==
    IF s.status # "parsing" THEN s
    ELSE IF s.at > Len(words) THEN Begin(s)
    ELSE Parse(words, s)

\* The state after each round; the last round is the program's.
Rounds(words) ==
    LET after[n \in 0..(Len(words) + 1)] ==
          IF n = 0 THEN Fresh ELSE Round(words, after[n - 1])
    IN  after

\* How it ends, and with which settings it authenticates if it does.
Outcome(words) ==
    LET s == Rounds(words)[Len(words) + 1]
    IN  <<s.status, IF s.status = "started" THEN s.set ELSE Fresh.set>>

\* The words at which parse_arguments looks for an option.
OptionsOf(words) ==
    {j \in 1..Len(words) :
       \E n \in 0..Len(words) : Rounds(words)[n].status = "parsing" /\ Rounds(words)[n].at = j}

VARIABLE argv

\* A command line, word by word.
Init == argv = <<>>
Next == Len(argv) < MaxWords /\ \E w \in Words : argv' = Append(argv, w)
Spec == Init /\ [][Next]_argv

-----------------------------------------------------------------------------

\* argv with the words at j and j + 1 made one, in the spelling with "=".
Joined(j) ==
    [i \in 1..(Len(argv) - 1) |->
       IF i < j THEN argv[i]
       ELSE IF i = j THEN [key |-> argv[j].key,
                           form |-> IF argv[j].form = "long" THEN "long=" ELSE "short=",
                           val |-> Text(argv[j + 1])]
       ELSE argv[i + 1]]

\* argv with the words at j and j + 1 exchanged.
Exchanged(j) ==
    [i \in 1..Len(argv) |->
       IF i = j THEN argv[j + 1] ELSE IF i = j + 1 THEN argv[j] ELSE argv[i]]

\* It makes no difference whether an option has its value after "=" or in the
\* next word, whatever that word is and whatever stands around them.
SpellingsAgree ==
    \A j \in OptionsOf(argv) :
      j < Len(argv) /\ argv[j].form \in {"long", "short"} /\ argv[j].key \in Required
        => Outcome(argv) = Outcome(Joined(j))

\* Two options that carry their values may change places, unless they set the
\* same thing.
OrderIsFree ==
    \A j \in OptionsOf(argv) :
      /\ j + 1 \in OptionsOf(argv)
      /\ {argv[j].form, argv[j + 1].form} \subseteq {"long=", "short=", "short+"}
      /\ argv[j].key # argv[j + 1].key
      => Outcome(argv) = Outcome(Exchanged(j))

\* argv without the word at j.
Without(j) == SubSeq(argv, 1, j - 1) \o SubSeq(argv, j + 1, Len(argv))

\* A -D does not take the option that follows for its level: without it, the
\* program does the same with the same settings, the level aside.
DebugTakesNoOption ==
    \A j \in OptionsOf(argv) :
      /\ argv[j].key = "D" /\ argv[j].form \in {"long", "short"}
      /\ j < Len(argv) => Text(argv[j + 1]) = "-"
      => /\ Outcome(Without(j))[1] = Outcome(argv)[1]
         /\ \A k \in Keys \ {"D"} : Outcome(Without(j))[2][k] = Outcome(argv)[2][k]

=============================================================================
