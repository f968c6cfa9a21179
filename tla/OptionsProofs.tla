--------------------------- MODULE OptionsProofs ---------------------------
(***************************************************************************)
(* The theorems of Options, for every set of words and every length.  The  *)
(* loop of parse_arguments is a recursive function of the round, so these  *)
(* are proofs by induction on the round.                                   *)
(***************************************************************************)
EXTENDS Options, WellFoundedInduction, TLAPS

-----------------------------------------------------------------------------
(* Induction                                                                *)

\* A set that holds the first number and the successor of each of its members,
\* up to the last, holds them all: the least that it did not hold would have a
\* predecessor that it holds.
LEMMA UpTo ==
    ASSUME NEW first \in Nat, NEW last \in Nat, NEW P,
           first <= last => first \in P,
           \A n \in first..last : n < last /\ n \in P => n + 1 \in P
    PROVE  \A n \in first..last : n \in P
<1> DEFINE T == {n \in first..last : n \notin P}
           R == OpToRel(<, Nat)
<1> SUFFICES ASSUME T # {} PROVE FALSE
  OBVIOUS
<1>1. PICK m \in T : \A k \in T : m <= k
  <2>1. IsWellFoundedOn(R, Nat)
    BY NatLessThanWellFounded
  <2>2. \A x, y \in Nat : x < y => <<x, y>> \in R
    BY DEF OpToRel
  <2>3. T \subseteq Nat
    OBVIOUS
  <2> HIDE DEF R, T
  <2>4. PICK m \in T : \A k \in T : ~(<<k, m>> \in R)
    BY <2>1, <2>3, WFMin
  <2>5. \A k \in T : ~(k < m)
    BY <2>2, <2>3, <2>4, Zenon
  <2> QED
    BY <2>3, <2>5
<1>2. CASE m = first
  BY <1>2
<1>3. CASE m # first
  <2>1. m - 1 \in first..last /\ m - 1 < last
    BY <1>3
  <2>2. m - 1 \in P
    BY <1>1, <2>1
  <2> QED
    BY <2>1, <2>2
<1> QED
  BY <1>2, <1>3

-----------------------------------------------------------------------------
(* Words and states                                                         *)

\* The values of the options; the provers do not know that literals are strings.
Values == STRING \cup {"", "-", "set", None}

\* What the parser needs to know of a word; of the words of the command line
\* and of those that SpellingsAgree puts together.
Word ==
    {w \in [key : STRING, form : Spellings \cup {"plain", "help"}, val : Values] :
       /\ w.form \in Spellings => w.key \in Keys
       /\ w.val # None}

State ==
    [at : Nat \ {0},
     status : {"parsing", "failed", "help", "listed", "started"},
     set : [Keys -> Values]]

Carries == {"long=", "short=", "short+"}

LEMMA WordsAreWords == Words \subseteq Word
BY WordAssumption DEF Word, Values

\* The recursion of Rounds is well defined, and this is what it computes.
LEMMA Unrolled ==
    ASSUME NEW words \in Seq(Word)
    PROVE  /\ Rounds(words)[0] = Fresh
           /\ \A n \in 0..Len(words) :
                Rounds(words)[n + 1] = Round(words, Rounds(words)[n])
<1> DEFINE N == Len(words) + 1
           F(f, n) == IF n = 0 THEN Fresh ELSE Round(words, f[n - 1])
           Upto(m) == \E f : f = [n \in 0..m |-> F(f, n)]
           P == {m \in 0..N : Upto(m)}
<1>1. N \in Nat
  OBVIOUS
<1>2. 0 \in P
  <2> DEFINE g == [n \in 0..0 |-> Fresh]
  <2>1. g = [n \in 0..0 |-> F(g, n)]
    OBVIOUS
  <2> HIDE DEF g
  <2>2. Upto(0)
    BY <2>1
  <2>3. 0 \in 0..N
    BY <1>1
  <2> HIDE DEF Upto, N
  <2> QED
    BY <2>2, <2>3
<1>3. \A m \in 0..N : m < N /\ m \in P => m + 1 \in P
  <2> SUFFICES ASSUME NEW m \in 0..N, m < N, m \in P PROVE Upto(m + 1)
    BY <1>1
  <2>1. PICK f : f = [n \in 0..m |-> F(f, n)]
    OBVIOUS
  <2> DEFINE g == [n \in 0..(m + 1) |-> IF n = 0 THEN Fresh ELSE Round(words, f[n - 1])]
  <2>2. \A n \in 0..m : f[n] = g[n]
    BY <2>1
  <2>3. \A n \in 0..(m + 1) : g[n] = F(g, n)
    <3> TAKE n \in 0..(m + 1)
    <3>1. CASE n = 0
      BY <3>1
    <3>2. CASE n # 0
      <4>1. n - 1 \in 0..m
        BY <3>2
      <4>2. f[n - 1] = g[n - 1]
        BY <2>2, <4>1
      <4>3. g[n] = Round(words, f[n - 1])
        BY <3>2
      <4> QED
        BY <3>2, <4>2, <4>3
    <3> QED
      BY <3>1, <3>2
  <2>4. g = [n \in 0..(m + 1) |-> g[n]]
    OBVIOUS
  <2> HIDE DEF g
  <2>5. g = [n \in 0..(m + 1) |-> F(g, n)]
    BY <2>3, <2>4, Zenon
  <2> QED
    BY <2>5
<1>4. N \in P
  <2> HIDE DEF P, N
  <2>1. \A m \in 0..N : m \in P
    BY <1>1, <1>2, <1>3, UpTo
  <2> QED
    BY <1>1, <2>1
<1>5. Rounds(words) = [n \in 0..N |-> F(Rounds(words), n)]
  BY <1>4 DEF Rounds
<1>6. \A n \in 0..N : Rounds(words)[n] = F(Rounds(words), n)
  BY <1>5
<1>7. Rounds(words)[0] = Fresh
  BY <1>1, <1>6
<1>8. ASSUME NEW n \in 0..Len(words)
      PROVE  Rounds(words)[n + 1] = Round(words, Rounds(words)[n])
  <2>1. n + 1 \in 0..N /\ n + 1 # 0 /\ (n + 1) - 1 = n
    OBVIOUS
  <2> QED
    BY <1>6, <2>1
<1> QED
  BY <1>7, <1>8

-----------------------------------------------------------------------------

\* The body of a branch fails or stores a value and goes on to the next word.
LEMMA Taken ==
    ASSUME NEW s \in State, s.status = "parsing", NEW k \in Keys, NEW v \in Values
    PROVE  /\ Take(s, k, v) \in State
           /\ Take(s, k, v).status \in {"parsing", "failed"}
           /\ Take(s, k, v).status = "parsing" =>
                Take(s, k, v) = Assign(s, k, v) /\ Take(s, k, v).at = s.at + 1
           /\ Assign(s, k, v).at = s.at + 1
           /\ Assign(s, k, v).set = [s.set EXCEPT ![k] = v]
           /\ Assign(s, k, v).status = "parsing"
<1>1. Fail(s) \in State /\ Fail(s).status = "failed"
  BY DEF Fail, State
<1>2. /\ Assign(s, k, v) \in State
      /\ Assign(s, k, v).status = "parsing"
      /\ Assign(s, k, v).at = s.at + 1
      /\ Assign(s, k, v).set = [s.set EXCEPT ![k] = v]
  <2>1. s.at + 1 \in Nat \ {0} /\ [s.set EXCEPT ![k] = v] \in [Keys -> Values]
    BY DEF State
  <2>2. Assign(s, k, v) =
          [at |-> s.at + 1, status |-> "parsing", set |-> [s.set EXCEPT ![k] = v]]
    BY DEF Assign, State
  <2> QED
    BY <2>1, <2>2 DEF State
<1>3. Take(s, k, v) \in {Fail(s), Assign(s, k, v)}
  BY DEF Take
<1> QED
  BY <1>1, <1>2, <1>3

\* What a word means as the value of an option is a text, and there is one.
LEMMA TextIsGiven ==
    ASSUME NEW w \in Word
    PROVE  Text(w) \in Values /\ Text(w) # None
BY DEF Text, Word, Values, None

\* An option with its value in the next word fails or goes on behind it.
LEMMA NextTaken ==
    ASSUME NEW words \in Seq(Word), NEW s \in State, s.status = "parsing",
           s.at < Len(words), NEW k \in Keys
    PROVE  /\ NextWord(words, s, k) \in State
           /\ NextWord(words, s, k).status \in {"parsing", "failed"}
           /\ NextWord(words, s, k).status = "parsing"
              => NextWord(words, s, k).at = s.at + 2
<1> DEFINE t == [s EXCEPT !.at = @ + 1]
<1>1. t \in State /\ t.status = "parsing" /\ t.at = s.at + 1
  BY DEF State
<1>2. Text(words[s.at + 1]) \in Values
  <2>1. s.at + 1 \in 1..Len(words)
    BY DEF State
  <2> QED
    BY <2>1, TextIsGiven
<1>3. NextWord(words, s, k) = Take(t, k, Text(words[s.at + 1]))
  BY DEF NextWord
<1> HIDE DEF t
<1> DEFINE v == Text(words[s.at + 1])
<1> HIDE DEF v
<1>4. /\ Take(t, k, v) \in State
      /\ Take(t, k, v).status \in {"parsing", "failed"}
      /\ Take(t, k, v).status = "parsing" => Take(t, k, v).at = t.at + 1
  <2>1. v \in Values
    BY <1>2 DEF v
  <2> QED
    BY <1>1, <2>1, Taken
<1>5. t.at + 1 = s.at + 2
  BY <1>1 DEF State
<1> QED
  BY <1>3, <1>4, <1>5 DEF v

\* One round of the loop on a word that there is.
LEMMA Parsed ==
    ASSUME NEW words \in Seq(Word), NEW s \in State, s.status = "parsing",
           s.at <= Len(words)
    PROVE  /\ Parse(words, s) \in State
           /\ Parse(words, s).status \in {"parsing", "failed", "help"}
           /\ Parse(words, s).status = "parsing"
              => Parse(words, s).at \in {s.at + 1, s.at + 2}
<1> DEFINE w == words[s.at]
<1>1. w \in Word
  BY DEF State
<1>2. CASE w.form \notin Spellings
  BY <1>1, <1>2 DEF Parse, Fail, Help, State, Word
<1>3. CASE w.form \in Spellings
  <2>1. w.key \in Keys /\ InlineValue(w) \in Values
    BY <1>1, <1>3 DEF Word, InlineValue, Values
  <2>2. w.form \notin {"help", "plain"}
    BY <1>3 DEF Spellings
  <2>3. \/ \E v \in Values : Parse(words, s) = Take(s, w.key, v)
        \/ s.at < Len(words) /\ Parse(words, s) = NextWord(words, s, w.key)
        \/ Parse(words, s) = Fail(s)
    BY <2>1, <2>2 DEF Parse, TakesLevel, Values
  <2>4. Fail(s) \in State /\ Fail(s).status = "failed"
    BY DEF Fail, State
  <2> HIDE DEF w
  <2>5. ASSUME NEW v \in Values, Parse(words, s) = Take(s, w.key, v)
        PROVE  /\ Parse(words, s) \in State
               /\ Parse(words, s).status \in {"parsing", "failed"}
               /\ Parse(words, s).status = "parsing" => Parse(words, s).at = s.at + 1
    <3> DEFINE t == Take(s, w.key, v)
    <3>1. /\ t \in State
          /\ t.status \in {"parsing", "failed"}
          /\ t.status = "parsing" => t.at = s.at + 1
      BY <2>1, Taken
    <3> QED
      BY <2>5, <3>1
  <2> QED
    BY <2>1, <2>3, <2>4, <2>5, NextTaken
<1> QED
  BY <1>2, <1>3

\* The loop goes on only by moving forward.
LEMMA Rounded ==
    ASSUME NEW words \in Seq(Word), NEW s \in State
    PROVE  LET t == Round(words, s)
           IN  /\ t \in State
               /\ s.status # "parsing" => t = s
               /\ t.status = "parsing" =>
                    /\ s.status = "parsing" /\ s.at <= Len(words)
                    /\ t = Parse(words, s)
                    /\ t.at \in {s.at + 1, s.at + 2}
<1>1. CASE s.status # "parsing"
  BY <1>1 DEF Round
<1>2. CASE s.status = "parsing" /\ s.at > Len(words)
  <2>1. Round(words, s) = Begin(s)
    BY <1>2 DEF Round
  <2>2. /\ Begin(s) \in State
        /\ Begin(s).status \in {"listed", "started", "failed"}
        /\ Begin(s).set = s.set
    BY DEF Begin, State
  <2> QED
    BY <1>2, <2>1, <2>2
<1>3. CASE s.status = "parsing" /\ s.at <= Len(words)
  <2>1. Round(words, s) = Parse(words, s)
    BY <1>3 DEF Round, State
  <2> QED
    BY <1>3, <2>1, Parsed
<1>4. s.at \in Nat /\ Len(words) \in Nat
  BY DEF State
<1> QED
  BY <1>1, <1>2, <1>3, <1>4

\* What holds after every round.
LEMMA AfterRounds ==
    ASSUME NEW words \in Seq(Word)
    PROVE  \A n \in 0..(Len(words) + 1) :
             /\ Rounds(words)[n] \in State
             /\ Rounds(words)[n].status = "parsing" => Rounds(words)[n].at >= n + 1
<1> DEFINE N == Len(words) + 1
           Ok(n, s) == /\ s \in State
                       /\ s.status = "parsing" => s.at >= n + 1
           P == {n \in 0..N : Ok(n, Rounds(words)[n])}
<1>1. N \in Nat
  OBVIOUS
<1>2. 0 \in P
  <2>1. Ok(0, Fresh)
    BY DEF Fresh, State, Values
  <2> QED
    BY <1>1, <2>1, Unrolled
<1>3. \A n \in 0..N : n < N /\ n \in P => n + 1 \in P
  <2> SUFFICES ASSUME NEW n \in 0..N, n < N, n \in P
               PROVE  Ok(n + 1, Rounds(words)[n + 1])
    BY <1>1
  <2> DEFINE s == Rounds(words)[n]
             t == Rounds(words)[n + 1]
  <2>1. Ok(n, s)
    OBVIOUS
  <2>2. t = Round(words, s)
    BY Unrolled
  <2>3. s.at \in Nat
    BY <2>1 DEF State
  <2>4. n \in Nat
    OBVIOUS
  <2> HIDE DEF s, t
  <2>5. /\ t \in State
        /\ t.status = "parsing" => s.status = "parsing" /\ t.at \in {s.at + 1, s.at + 2}
    BY <2>1, <2>2, Rounded
  <2> QED
    BY <2>1, <2>3, <2>4, <2>5 DEF t
<1>4. \A n \in 0..N : n \in P
  <2> HIDE DEF N, P
  <2> QED
    BY <1>1, <1>2, <1>3, UpTo
<1> QED
  BY <1>4

\* A loop that is still in the parser was there in all rounds before, at
\* earlier words.
LEMMA StillParsing ==
    ASSUME NEW words \in Seq(Word), NEW m \in 0..(Len(words) + 1)
    PROVE  \A n \in m..(Len(words) + 1) :
             Rounds(words)[n].status = "parsing" =>
               /\ Rounds(words)[m].status = "parsing"
               /\ n > m => Rounds(words)[m].at < Rounds(words)[n].at
<1> DEFINE N == Len(words) + 1
           r == Rounds(words)
           Ok(n) == r[n].status = "parsing" =>
                      /\ r[m].status = "parsing"
                      /\ n > m => r[m].at < r[n].at
           P == {n \in m..N : Ok(n)}
<1>1. N \in Nat /\ m \in Nat /\ m <= N
  OBVIOUS
<1>2. m \in P
  BY <1>1
<1>3. \A n \in m..N : n < N /\ n \in P => n + 1 \in P
  <2> SUFFICES ASSUME NEW n \in m..N, n < N, n \in P PROVE Ok(n + 1)
    BY <1>1
  <2>1. r[n] \in State /\ r[m] \in State /\ r[n + 1] = Round(words, r[n])
    BY Unrolled, AfterRounds
  <2>2. r[n].at \in Nat /\ r[m].at \in Nat
    BY <2>1 DEF State
  <2>3. Ok(n)
    OBVIOUS
  <2>4. n >= m /\ n \in Nat /\ (n = m => r[n].at = r[m].at)
    OBVIOUS
  <2> HIDE DEF r
  <2>5. ASSUME r[n + 1].status = "parsing"
        PROVE  r[n].status = "parsing" /\ r[n + 1].at > r[n].at
    BY <2>1, <2>2, <2>5, Rounded
  <2>6. r[n + 1].at \in Nat
    BY <2>1, Rounded DEF State
  <2>7. n + 1 > m => r[m].at < r[n + 1].at \/ r[n + 1].status # "parsing"
    BY <2>2, <2>3, <2>4, <2>5, <2>6
  <2> QED
    BY <2>3, <2>5, <2>7
<1>4. \A n \in m..N : n \in P
  <2> HIDE DEF N, P
  <2> QED
    BY <1>1, <1>2, <1>3, UpTo
<1> QED
  BY <1>4

-----------------------------------------------------------------------------

\* The command line is one of the words that can be typed.
LEMMA CommandLines == Spec => [](argv \in Seq(Words))
<1>1. Init => argv \in Seq(Words)
  BY DEF Init
<1>2. argv \in Seq(Words) /\ [Next]_argv => (argv \in Seq(Words))'
  BY DEF Next
<1> QED
  BY <1>1, <1>2, PTL DEF Spec

LEMMA SeqOfWords == Seq(Words) \subseteq Seq(Word)
<1> SUFFICES ASSUME NEW words \in Seq(Words) PROVE words \in Seq(Word)
  OBVIOUS
<1>1. words \in [1..Len(words) -> Word]
  BY WordsAreWords
<1> QED
  BY <1>1

-----------------------------------------------------------------------------

\* A round at a word before j that goes on at j or before it looks only at the
\* words before j, and at the word j only to see that it is no plain text.
LEMMA SameRound ==
    ASSUME NEW a \in Seq(Word), NEW b \in Seq(Word), NEW j \in Nat,
           j <= Len(a), j <= Len(b),
           \A i \in 1..(j - 1) : a[i] = b[i],
           a[j].form # "plain", b[j].form # "plain",
           NEW s \in State, s.at < j,
           Round(a, s).status = "parsing", Round(a, s).at <= j
    PROVE  Round(b, s) = Round(a, s)
<1>1. /\ s.status = "parsing" /\ s.at <= Len(a) /\ s.at <= Len(b)
      /\ s.at \in 1..(j - 1) /\ s.at < Len(a) /\ s.at < Len(b)
  BY Rounded DEF State
<1> DEFINE w == a[s.at]
           v == InlineValue(w)
<1>2. /\ w \in Word
      /\ b[s.at] = w
      /\ Round(a, s) = Parse(a, s)
      /\ Round(b, s) = Parse(b, s)
  <2>1. w \in Word /\ b[s.at] = w
    <3>1. s.at \in 1..Len(a)
      BY <1>1
    <3> QED
      BY <1>1, <3>1
  <2>2. ~(s.at > Len(a)) /\ ~(s.at > Len(b))
    BY <1>1
  <2> QED
    BY <1>1, <2>1, <2>2, Zenon DEF Round
<1>3. w.form \in Spellings => w.key \in Keys
  BY <1>2 DEF Word
<1>4. CASE s.at + 1 < j
  <2>1. a[s.at + 1] = b[s.at + 1]
    <3>1. s.at + 1 \in 1..(j - 1)
      BY <1>1, <1>4
    <3> QED
      BY <3>1
  <2>2. NextWord(a, s, w.key) = NextWord(b, s, w.key)
    BY <2>1, Zenon DEF NextWord
  <2>3. Parse(b, s) = Parse(a, s)
    <3> DEFINE more(c) == s.at < Len(c)
    <3>1. more(a) = TRUE /\ more(b) = TRUE
      BY <1>1
    <3>2. TakesLevel(a, s) = TakesLevel(b, s)
      BY <1>1, <2>1 DEF TakesLevel
    <3> HIDE DEF more
    <3> QED
      BY <1>2, <2>2, <3>1, <3>2, Zenon DEF Parse, more
  <2> QED
    BY <1>2, <2>3
<1>5. CASE s.at + 1 = j
  <2>1. \/ w.form \in {"help", "plain"}
        \/ w.key \in Flags
        \/ v # None
        \/ w.key = "D"
        \/ Parse(a, s) = NextWord(a, s, w.key)
    BY <1>1, <1>2 DEF Parse
  <2>2. Parse(a, s) # NextWord(a, s, w.key) \/ w.form \notin Spellings
    <3> SUFFICES ASSUME Parse(a, s) = NextWord(a, s, w.key), w.key \in Keys PROVE FALSE
      BY <1>3
    <3>1. Parse(a, s).at = s.at + 2
      BY <1>1, <1>2, NextTaken
    <3> QED
      BY <1>1, <1>2, <1>5, <3>1
  <2>3. ~TakesLevel(a, s) /\ ~TakesLevel(b, s)
    BY <1>5 DEF TakesLevel, Text
  <2>4. w.form \in Spellings \/ w.form \in {"help", "plain"}
    BY <1>2 DEF Word
  <2>5. Parse(b, s) = Parse(a, s)
    <3>1. CASE w.form \in {"help", "plain"}
      BY <1>2, <3>1 DEF Parse
    <3>2. CASE w.form \in Spellings /\ (w.key \in Flags \/ v # None)
      BY <1>2, <3>2 DEF Parse, Spellings
    <3>3. CASE w.form \in Spellings /\ w.key \notin Flags /\ v = None /\ w.key = "D"
      BY <1>2, <2>3, <3>3 DEF Parse, Spellings
    <3> QED
      BY <2>1, <2>2, <2>4, <3>1, <3>2, <3>3
  <2> QED
    BY <1>2, <2>5
<1> QED
  BY <1>1, <1>4, <1>5

\* Two command lines that agree before j, where an option begins, are parsed
\* in the same way until it is reached.
LEMMA SamePrefix ==
    ASSUME NEW a \in Seq(Word), NEW b \in Seq(Word), NEW j \in Nat,
           j <= Len(a), j <= Len(b),
           \A i \in 1..(j - 1) : a[i] = b[i],
           a[j].form # "plain", b[j].form # "plain",
           NEW m \in 0..Len(a), m <= Len(b),
           Rounds(a)[m].status = "parsing", Rounds(a)[m].at = j
    PROVE  Rounds(b)[m] = Rounds(a)[m]
<1> DEFINE P == {n \in 0..m : Rounds(b)[n] = Rounds(a)[n]}
<1>1. m \in Nat
  OBVIOUS
<1>2. 0 \in P
  BY <1>1, Unrolled
<1>3. \A n \in 0..m : n < m /\ n \in P => n + 1 \in P
  <2> SUFFICES ASSUME NEW n \in 0..m, n < m, Rounds(b)[n] = Rounds(a)[n]
               PROVE  Rounds(b)[n + 1] = Rounds(a)[n + 1]
    OBVIOUS
  <2> DEFINE s == Rounds(a)[n]
             t == Rounds(a)[n + 1]
  <2>1. /\ n \in 0..Len(a) /\ n \in 0..Len(b) /\ n + 1 \in 0..(Len(a) + 1)
        /\ n \in 0..(Len(a) + 1)
        /\ m \in n..(Len(a) + 1) /\ m > n /\ m \in (n + 1)..(Len(a) + 1)
    OBVIOUS
  <2>2. s \in State /\ t \in State /\ t = Round(a, s)
    BY <2>1, AfterRounds, Unrolled
  <2>3. s.at < j
    BY <2>1, StillParsing
  <2>4. t.status = "parsing" /\ (m > n + 1 => t.at < j)
    BY <2>1, StillParsing
  <2>5. t.at <= j
    <3>1. CASE m = n + 1
      BY <3>1, <2>2 DEF State
    <3>2. CASE m > n + 1
      BY <3>2, <2>2, <2>4 DEF State
    <3> QED
      BY <2>1, <3>1, <3>2
  <2>6. Rounds(b)[n + 1] = Round(b, s)
    BY <2>1, Unrolled
  <2> HIDE DEF s, t
  <2>7. Round(b, s) = Round(a, s)
    BY <2>2, <2>3, <2>4, <2>5, SameRound
  <2> QED
    BY <2>2, <2>6, <2>7 DEF t
<1>4. \A n \in 0..m : n \in P
  <2> HIDE DEF P
  <2> QED
    BY <1>1, <1>2, <1>3, UpTo
<1> QED
  BY <1>1, <1>4

-----------------------------------------------------------------------------

\* Two states of the parser from which, d words apart, the rest of the command
\* line is parsed alike: it begins behind the word j + 1.
Alike(x, y, d, j) ==
    /\ x.status = y.status
    /\ x.status \in {"parsing", "started"} => x.set = y.set
    /\ x.status = "parsing" => x.at = y.at + d /\ x.at >= j + 2

\* The state at the next word, where the value of the option is.
AtValue(s) == [s EXCEPT !.at = @ + 1]

LEMMA AtValueMoves ==
    ASSUME NEW s \in State
    PROVE  /\ AtValue(s) \in State
           /\ AtValue(s).status = s.status
           /\ AtValue(s).set = s.set
           /\ AtValue(s).at = s.at + 1
BY DEF AtValue, State

\* What a round does with two states, in two command lines, when it takes the
\* same branch with the same value.
SameBranch(a, x, b, y) ==
    \/ Parse(a, x) = Help(x) /\ Parse(b, y) = Help(y)
    \/ Parse(a, x) = Fail(x) /\ Parse(b, y) = Fail(y)
    \/ \E k \in Keys, v \in Values :
         Parse(a, x) = Take(x, k, v) /\ Parse(b, y) = Take(y, k, v)
    \/ \E k \in Keys, v \in Values :
         /\ Parse(a, x) = Take(AtValue(x), k, v)
         /\ Parse(b, y) = Take(AtValue(y), k, v)

\* The parser reads the same word for the two of them, and so it does the same.
LEMMA AlikeParse ==
    ASSUME NEW a \in Seq(Word), NEW b \in Seq(Word), NEW j \in Nat, NEW d \in {0, 1},
           Len(a) = Len(b) + d,
           \A i \in (j + 2)..Len(a) : a[i] = b[i - d],
           NEW x \in State, NEW y \in State, Alike(x, y, d, j),
           x.status = "parsing", x.at <= Len(a)
    PROVE  SameBranch(a, x, b, y)
<1> USE DEF SameBranch
<1> DEFINE w == a[x.at]
           v == InlineValue(w)
           more(c, s) == s.at < Len(c)
<1>1. /\ w \in Word
      /\ b[y.at] = w
      /\ more(a, x) <=> more(b, y)
  BY DEF Alike, State
<1>2. more(a, x) => a[x.at + 1] \in Word /\ b[y.at + 1] = a[x.at + 1]
  <2>1. x.at \in Nat /\ y.at = x.at - d /\ x.at + 1 >= j + 2
    BY DEF Alike, State
  <2>2. ASSUME more(a, x) PROVE x.at + 1 \in (j + 2)..Len(a)
    BY <2>1, <2>2
  <2>3. y.at + 1 = (x.at + 1) - d
    BY <2>1
  <2> QED BY <2>1, <2>2, <2>3
<1>3. w.form \in Spellings => w.key \in Keys /\ v \in Values
  BY <1>1 DEF Word, InlineValue, Values
<1>4. more(a, x) => /\ Text(a[x.at + 1]) \in Values
                    /\ Text(a[x.at + 1]) = Text(b[y.at + 1])
  BY <1>2, TextIsGiven
<1>5. TakesLevel(a, x) <=> TakesLevel(b, y)
  BY <1>1, <1>4 DEF TakesLevel
<1>6. CASE w.form \in {"help", "plain"}
  BY <1>1, <1>6 DEF Parse
<1>7. CASE w.form \in Spellings
  <2> DEFINE k == w.key
             Both(value) == Parse(a, x) = Take(x, k, value) /\ Parse(b, y) = Take(y, k, value)
  <2>1. CASE k \in Flags
    <3>1. Both("set")
      BY <1>1, <1>7, <2>1 DEF Parse, Spellings
    <3> QED
      BY <1>3, <1>7, <3>1 DEF Values
  <2>2. CASE k \notin Flags /\ v # None
    <3>1. Both(v)
      BY <1>1, <1>7, <2>2 DEF Parse, Spellings
    <3> QED
      BY <1>3, <1>7, <3>1
  <2>3. CASE k \notin Flags /\ v = None /\ k = "D" /\ ~TakesLevel(a, x)
    <3>1. Both("")
      BY <1>1, <1>7, <1>5, <2>3 DEF Parse, Spellings
    <3> QED
      BY <1>3, <1>7, <3>1 DEF Values
  <2>4. CASE k \notin Flags /\ v = None /\ k # "D" /\ ~more(a, x)
    BY <1>1, <1>7, <2>4 DEF Parse, Spellings
  <2>5. CASE /\ k \notin Flags /\ v = None /\ more(a, x)
             /\ k = "D" => TakesLevel(a, x)
    <3>1. Parse(a, x) = NextWord(a, x, k) /\ Parse(b, y) = NextWord(b, y, k)
      BY <1>1, <1>7, <1>5, <2>5 DEF Parse, Spellings
    <3> DEFINE value == Text(a[x.at + 1])
    <3>2. NextWord(a, x, k) = Take(AtValue(x), k, value)
      BY DEF NextWord, AtValue
    <3>3. NextWord(b, y, k) = Take(AtValue(y), k, value)
      BY <1>4, <2>5, Zenon DEF NextWord, AtValue
    <3>4. value \in Values /\ k \in Keys
      BY <1>3, <1>4, <1>7, <2>5
    <3> HIDE DEF value, k
    <3> QED
      BY <3>1, <3>2, <3>3, <3>4
  <2>6. k = "D" /\ TakesLevel(a, x) => more(a, x)
    BY DEF TakesLevel
  <2> QED
    BY <2>1, <2>2, <2>3, <2>4, <2>5, <2>6
<1> QED
  BY <1>1, <1>6, <1>7 DEF Word

\* The same value taken in two states that are alike.
LEMMA AlikeTaken ==
    ASSUME NEW x \in State, NEW y \in State, NEW d \in {0, 1}, NEW j \in Nat,
           x.status = "parsing", y.status = "parsing", x.set = y.set,
           x.at = y.at + d, x.at >= j + 1,
           NEW k \in Keys, NEW v \in Values
    PROVE  Alike(Take(x, k, v), Take(y, k, v), d, j)
<1>1. \/ Take(x, k, v) = Fail(x) /\ Take(y, k, v) = Fail(y)
      \/ Take(x, k, v) = Assign(x, k, v) /\ Take(y, k, v) = Assign(y, k, v)
  BY DEF Take
<1>2. Fail(x).status = "failed" /\ Fail(y).status = "failed"
  BY DEF Fail, State
<1>3. /\ Assign(x, k, v).at = Assign(y, k, v).at + d
      /\ Assign(x, k, v).at >= j + 2
      /\ Assign(x, k, v).status = Assign(y, k, v).status
      /\ Assign(x, k, v).set = Assign(y, k, v).set
  BY DEF Assign, State
<1> QED
  BY <1>1, <1>2, <1>3 DEF Alike

\* A round keeps them alike.
LEMMA AlikeRound ==
    ASSUME NEW a \in Seq(Word), NEW b \in Seq(Word), NEW j \in Nat, NEW d \in {0, 1},
           Len(a) = Len(b) + d,
           \A i \in (j + 2)..Len(a) : a[i] = b[i - d],
           NEW x \in State, NEW y \in State, Alike(x, y, d, j)
    PROVE  Alike(Round(a, x), Round(b, y), d, j)
<1>1. CASE x.status # "parsing"
  <2>1. Round(a, x) = x /\ Round(b, y) = y
    BY <1>1 DEF Round, Alike
  <2> QED
    BY <2>1
<1>2. CASE x.status = "parsing" /\ x.at > Len(a)
  <2>1. y.status = "parsing" /\ y.at > Len(b) /\ x.set = y.set
    BY <1>2 DEF Alike, State
  <2>2. Round(a, x) = Begin(x) /\ Round(b, y) = Begin(y)
    BY <1>2, <2>1 DEF Round
  <2>3. /\ Begin(x).set = x.set /\ Begin(y).set = y.set
        /\ Begin(x).status = Begin(y).status
        /\ Begin(x).status # "parsing"
    BY <2>1 DEF Begin, State
  <2> QED
    BY <2>1, <2>2, <2>3 DEF Alike
<1>3. CASE x.status = "parsing" /\ x.at <= Len(a)
  <2>1. /\ y.status = "parsing" /\ y.at <= Len(b) /\ x.set = y.set
        /\ x.at = y.at + d /\ x.at >= j + 2 /\ x.at \in Nat /\ y.at \in Nat
    BY <1>3 DEF Alike, State
  <2>2. Round(a, x) = Parse(a, x) /\ Round(b, y) = Parse(b, y)
    BY <1>3, <2>1 DEF Round
  <2>3. ASSUME Parse(a, x) = Help(x), Parse(b, y) = Help(y)
        PROVE  Alike(Parse(a, x), Parse(b, y), d, j)
    BY <2>1, <2>3 DEF Help, State, Alike
  <2>4. ASSUME Parse(a, x) = Fail(x), Parse(b, y) = Fail(y)
        PROVE  Alike(Parse(a, x), Parse(b, y), d, j)
    BY <2>1, <2>4 DEF Fail, State, Alike
  <2>5. ASSUME NEW k \in Keys, NEW v \in Values,
               Parse(a, x) = Take(x, k, v), Parse(b, y) = Take(y, k, v)
        PROVE  Alike(Parse(a, x), Parse(b, y), d, j)
    <3>1. x.at >= j + 1
      BY <2>1
    <3>2. Alike(Take(x, k, v), Take(y, k, v), d, j)
      BY <1>3, <2>1, <3>1, AlikeTaken
    <3> QED
      BY <2>5, <3>2
  <2>6. ASSUME NEW k \in Keys, NEW v \in Values,
               Parse(a, x) = Take(AtValue(x), k, v),
               Parse(b, y) = Take(AtValue(y), k, v)
        PROVE  Alike(Parse(a, x), Parse(b, y), d, j)
    <3> DEFINE x1 == AtValue(x)
               y1 == AtValue(y)
    <3>1. x1 \in State /\ x1.status = "parsing" /\ x1.set = x.set /\ x1.at = x.at + 1
      BY <1>3, AtValueMoves
    <3>2. y1 \in State /\ y1.status = "parsing" /\ y1.set = y.set /\ y1.at = y.at + 1
      BY <2>1, AtValueMoves
    <3>3. x1.set = y1.set /\ x1.at = y1.at + d /\ x1.at >= j + 1
      BY <2>1, <3>1, <3>2
    <3> HIDE DEF x1, y1
    <3>4. Alike(Take(x1, k, v), Take(y1, k, v), d, j)
      BY <3>1, <3>2, <3>3, AlikeTaken
    <3> QED
      BY <2>6, <3>4, Zenon DEF x1, y1
  <2>7. Alike(Parse(a, x), Parse(b, y), d, j)
    <3>1. SameBranch(a, x, b, y)
      BY <1>3, AlikeParse
    <3> QED
      BY <2>3, <2>4, <2>5, <2>6, <3>1, Zenon DEF SameBranch
  <2> QED
    BY <2>2, <2>7
<1> QED
  BY <1>1, <1>2, <1>3 DEF State

\* Command lines that reach states that are alike end alike.
LEMMA SameRest ==
    ASSUME NEW a \in Seq(Word), NEW b \in Seq(Word), NEW j \in Nat, NEW d \in {0, 1},
           Len(a) = Len(b) + d,
           \A i \in (j + 2)..Len(a) : a[i] = b[i - d],
           NEW m \in 0..(Len(b) + 1),
           Alike(Rounds(a)[m], Rounds(b)[m], d, j)
    PROVE  Outcome(a) = Outcome(b)
<1> DEFINE N == Len(b) + 1
           P == {n \in m..N : Alike(Rounds(a)[n], Rounds(b)[n], d, j)}
<1>1. N \in Nat /\ m \in Nat /\ m <= N
  OBVIOUS
<1>2. m \in P
  BY <1>1
<1>3. \A n \in m..N : n < N /\ n \in P => n + 1 \in P
  <2> SUFFICES ASSUME NEW n \in m..N, n < N, n \in P
               PROVE  Alike(Rounds(a)[n + 1], Rounds(b)[n + 1], d, j)
    BY <1>1
  <2>1. n \in 0..Len(a) /\ n \in 0..Len(b)
    OBVIOUS
  <2> DEFINE x == Rounds(a)[n]
             y == Rounds(b)[n]
  <2>2. x \in State /\ y \in State /\ Alike(x, y, d, j)
    <3>1. n \in 0..(Len(a) + 1) /\ n \in 0..(Len(b) + 1)
      BY <2>1
    <3> QED
      BY <3>1, AfterRounds
  <2>3. Rounds(a)[n + 1] = Round(a, x) /\ Rounds(b)[n + 1] = Round(b, y)
    BY <2>1, Unrolled
  <2> HIDE DEF x, y
  <2> QED
    BY <2>2, <2>3, AlikeRound
<1>4. Alike(Rounds(a)[N], Rounds(b)[N], d, j)
  <2>1. \A n \in m..N : n \in P
    <3> HIDE DEF P, N
    <3> QED
      BY <1>1, <1>2, <1>3, UpTo
  <2> QED
    BY <1>1, <2>1
<1> DEFINE x == Rounds(a)[N]
           y == Rounds(b)[N]
           z == Rounds(a)[Len(a) + 1]
<1>5. y.status # "parsing"
  <2>1. Len(b) \in 0..(Len(b) + 1) /\ Len(b) \in 0..Len(b)
    OBVIOUS
  <2>2. y = Round(b, Rounds(b)[Len(b)]) /\ Rounds(b)[Len(b)] \in State
    BY <2>1, Unrolled, AfterRounds
  <2>3. Rounds(b)[Len(b)].status = "parsing" => Rounds(b)[Len(b)].at >= Len(b) + 1
    BY <2>1, AfterRounds
  <2>4. Rounds(b)[Len(b)].at \in Nat
    BY <2>2 DEF State
  <2> HIDE DEF y
  <2> QED
    BY <2>2, <2>3, <2>4, Rounded
<1>6. x.status # "parsing"
  BY <1>4, <1>5 DEF Alike
<1>7. z = x
  <2>1. CASE d = 0
    BY <2>1
  <2>2. CASE d = 1
    <3>1. N = Len(a) /\ N \in 0..Len(a) /\ N \in 0..(Len(a) + 1)
      BY <2>2
    <3>2. z = Round(a, x) /\ x \in State
      BY <3>1, Unrolled, AfterRounds
    <3> HIDE DEF x, z
    <3> QED
      BY <1>6, <3>2, Rounded
  <2> QED
    BY <2>1, <2>2
<1>8. /\ Outcome(a) = <<z.status, IF z.status = "started" THEN z.set ELSE Fresh.set>>
      /\ Outcome(b) = <<y.status, IF y.status = "started" THEN y.set ELSE Fresh.set>>
  BY DEF Outcome
<1> HIDE DEF x, y, z
<1> QED
  BY <1>4, <1>7, <1>8 DEF Alike, x, y

-----------------------------------------------------------------------------

\* A word that is looked at as an option is reached in some round.
LEMMA Reached ==
    ASSUME NEW words \in Seq(Word), NEW j \in OptionsOf(words)
    PROVE  /\ j \in 1..Len(words)
           /\ \E m \in 0..(j - 1) :
                Rounds(words)[m].status = "parsing" /\ Rounds(words)[m].at = j
<1>1. /\ j \in 1..Len(words)
      /\ \E n \in 0..Len(words) :
           Rounds(words)[n].status = "parsing" /\ Rounds(words)[n].at = j
  BY DEF OptionsOf
<1>2. PICK n \in 0..Len(words) :
        Rounds(words)[n].status = "parsing" /\ Rounds(words)[n].at = j
  BY <1>1
<1>3. n \in 0..(Len(words) + 1)
  OBVIOUS
<1>4. j >= n + 1
  BY <1>2, <1>3, AfterRounds
<1>5. n \in 0..(j - 1)
  BY <1>1, <1>4
<1> QED
  BY <1>1, <1>2, <1>5

\* The value an option that carries one gives to its key.
Given(w) == IF w.key \in Flags THEN "set" ELSE w.val

LEMMA CarriesRound ==
    ASSUME NEW words \in Seq(Word), NEW s \in State, s.status = "parsing",
           s.at <= Len(words), words[s.at].form \in Carries
    PROVE  /\ Round(words, s) = Take(s, words[s.at].key, Given(words[s.at]))
           /\ words[s.at].key \in Keys
           /\ Given(words[s.at]) \in Values
<1> DEFINE w == words[s.at]
<1>1. w \in Word
  BY DEF State
<1>2. w.key \in Keys /\ w.val \in Values /\ w.val # None /\ Given(w) \in Values
  BY <1>1 DEF Word, Values, Given, Carries, Spellings
<1>3. InlineValue(w) = w.val
  BY DEF InlineValue, Carries
<1>4. Round(words, s) = Parse(words, s)
  BY DEF Round, State
<1>5. Parse(words, s) = Take(s, w.key, Given(w))
  BY <1>2, <1>3 DEF Parse, Given, Carries
<1> QED
  BY <1>2, <1>4, <1>5

\* Two values stored one after the other, in either order, for different keys:
\* the results agree, or both orders fail.
LEMMA TakesCommute ==
    ASSUME NEW s \in State, s.status = "parsing",
           NEW k1 \in Keys, NEW v1 \in Values, NEW k2 \in Keys, NEW v2 \in Values,
           k1 # k2, Take(s, k1, v1).status = "parsing"
    PROVE  LET t1 == Take(s, k1, v1)
               t2 == Take(s, k2, v2)
           IN  \/ /\ t2.status = "parsing"
                  /\ Take(t1, k2, v2) = Take(t2, k1, v1)
               \/ /\ t2.status = "failed"
                  /\ Take(t1, k2, v2).status = "failed"
<1> DEFINE t1 == Take(s, k1, v1)
           t2 == Take(s, k2, v2)
           Bad(k, v) == \/ k \in {"n", "s"} /\ v \notin Addresses
                        \/ k = "T" /\ v \notin Times
                        \/ k = "D" /\ v \in BadLevels
<1>1. t1 = Assign(s, k1, v1) /\ t1 \in State /\ t1.status = "parsing"
  BY Taken
<1>2. ~Bad(k1, v1)
  BY <1>1 DEF Take, Fail, State
<1>3. CASE Bad(k2, v2)
  <2>1. t2 = Fail(s) /\ Take(t1, k2, v2) = Fail(t1)
    BY <1>3 DEF Take
  <2>2. t2.status = "failed" /\ Take(t1, k2, v2).status = "failed"
    <3> HIDE DEF t1
    <3> QED
      BY <1>1, <2>1 DEF Fail, State
  <2> QED
    BY <2>2
<1>4. CASE ~Bad(k2, v2)
  <2>1. t2 = Assign(s, k2, v2) /\ t2.status = "parsing" /\ t2 \in State
    <3>1. t2 = Assign(s, k2, v2)
      BY <1>4 DEF Take
    <3>2. Assign(s, k2, v2).status = "parsing"
      BY DEF Assign
    <3>3. Take(s, k2, v2) \in State
      BY Taken
    <3> HIDE DEF Bad
    <3> QED
      BY <3>1, <3>2, <3>3
  <2>2. Take(t1, k2, v2) = Assign(t1, k2, v2) /\ Take(t2, k1, v1) = Assign(t2, k1, v1)
    BY <1>2, <1>4 DEF Take
  <2>3. [[s.set EXCEPT ![k1] = v1] EXCEPT ![k2] = v2]
          = [[s.set EXCEPT ![k2] = v2] EXCEPT ![k1] = v1]
    BY DEF State
  <2>4. Assign(Assign(s, k1, v1), k2, v2) = Assign(Assign(s, k2, v2), k1, v1)
    BY <2>3 DEF Assign
  <2> HIDE DEF t1, t2
  <2>5. Take(t1, k2, v2) = Take(t2, k1, v1)
    BY <1>1, <2>1, <2>2, <2>4
  <2> QED
    BY <2>1, <2>5 DEF t1, t2
<1> QED
  BY <1>3, <1>4

\* Two options in the other order store the same values, unless one of them is
\* refused either way; the words before and behind them are parsed alike.
LEMMA OrderDoesNotMatter == argv \in Seq(Words) => OrderIsFree
<1> SUFFICES ASSUME argv \in Seq(Words),
                    NEW j \in OptionsOf(argv), j + 1 \in OptionsOf(argv),
                    {argv[j].form, argv[j + 1].form} \subseteq Carries,
                    argv[j].key # argv[j + 1].key
             PROVE  Outcome(argv) = Outcome(Exchanged(j))
  BY DEF OrderIsFree, Carries
<1> DEFINE a == argv
           b == Exchanged(j)
           v == a[j]
           w == a[j + 1]
<1>1. a \in Seq(Word)
  BY SeqOfWords
<1>2. j \in 1..Len(a) /\ j + 1 \in 1..Len(a) /\ v \in Word /\ w \in Word
  BY <1>1, Reached
<1>3. /\ b \in Seq(Word) /\ Len(b) = Len(a)
      /\ b[j] = w /\ b[j + 1] = v
      /\ \A i \in 1..(j - 1) : a[i] = b[i]
      /\ \A i \in (j + 2)..Len(a) : a[i] = b[i]
  <2>1. b \in [1..Len(a) -> Word]
    BY <1>1, <1>2 DEF Exchanged
  <2>2. b \in Seq(Word) /\ Len(b) = Len(a)
    BY <1>1, <2>1
  <2>3. b[j] = w /\ b[j + 1] = v
    BY <1>2 DEF Exchanged
  <2>4. \A i \in 1..Len(a) : i # j /\ i # j + 1 => a[i] = b[i]
    BY DEF Exchanged
  <2>5. \A i \in 1..(j - 1) : i \in 1..Len(a) /\ i # j /\ i # j + 1
    BY <1>2
  <2>6. \A i \in (j + 2)..Len(a) : i \in 1..Len(a) /\ i # j /\ i # j + 1
    BY <1>2
  <2> QED
    BY <2>2, <2>3, <2>4, <2>5, <2>6
<1>4. v.form \in Carries /\ w.form \in Carries /\ v.key # w.key
  OBVIOUS
<1> HIDE DEF a, b, v, w
<1>5. PICK m \in 0..(j - 1) : Rounds(a)[m].status = "parsing" /\ Rounds(a)[m].at = j
  BY <1>1, Reached DEF a
<1>6. PICK n \in 0..j : Rounds(a)[n].status = "parsing" /\ Rounds(a)[n].at = j + 1
  <2>1. \E n \in 0..((j + 1) - 1) :
          Rounds(a)[n].status = "parsing" /\ Rounds(a)[n].at = j + 1
    BY <1>1, Reached DEF a
  <2> QED
    BY <1>2, <2>1
<1>7. /\ m \in 0..Len(a) /\ m + 1 \in 0..Len(a)
      /\ m \in 0..(Len(a) + 1) /\ m + 1 \in 0..(Len(a) + 1) /\ m + 2 \in 0..(Len(a) + 1)
      /\ n \in 0..(Len(a) + 1)
      /\ m \in Nat /\ n \in Nat /\ j \in Nat
  BY <1>2
\* The two rounds of the first order.
<1> DEFINE s == Rounds(a)[m]
           t1 == Rounds(a)[m + 1]
           t2 == Rounds(b)[m + 1]
<1>8. s \in State /\ s.status = "parsing" /\ s.at = j /\ Rounds(b)[m] = s
  <2>1. Rounds(b)[m] = Rounds(a)[m]
    <3>1. a[j].form # "plain" /\ b[j].form # "plain"
      BY <1>3, <1>4 DEF v, w, Carries
    <3> QED
      BY <1>1, <1>2, <1>3, <1>5, <1>7, <3>1, SamePrefix
  <2> QED
    BY <1>1, <1>5, <1>7, <2>1, AfterRounds
<1>9. /\ v.key \in Keys /\ Given(v) \in Values /\ t1 = Take(s, v.key, Given(v))
      /\ w.key \in Keys /\ Given(w) \in Values /\ t2 = Take(s, w.key, Given(w))
  <2>1. /\ s.at <= Len(a) /\ a[s.at] = v
        /\ s.at <= Len(b) /\ b[s.at] = w
    BY <1>2, <1>3, <1>8 DEF v
  <2>2. t1 = Round(a, s) /\ t2 = Round(b, s)
    BY <1>1, <1>3, <1>7, <1>8, Unrolled
  <2> HIDE DEF s, t1, t2
  <2>3. Round(a, s) = Take(s, v.key, Given(v)) /\ v.key \in Keys /\ Given(v) \in Values
    BY <1>1, <1>4, <1>8, <2>1, CarriesRound
  <2>4. Round(b, s) = Take(s, w.key, Given(w)) /\ w.key \in Keys /\ Given(w) \in Values
    BY <1>3, <1>4, <1>8, <2>1, CarriesRound
  <2> QED
    BY <2>2, <2>3, <2>4
<1>10. n > m
  <2>1. CASE n = m
    BY <1>5, <1>6, <1>7, <2>1
  <2>2. CASE n < m
    <3>1. m \in n..(Len(a) + 1)
      BY <1>7, <2>2
    <3>2. Rounds(a)[n].at < Rounds(a)[m].at
      BY <1>1, <1>5, <1>7, <2>2, <3>1, StillParsing
    <3> QED
      BY <1>5, <1>6, <1>7, <3>2
  <2> QED
    BY <1>7, <2>1, <2>2
<1>11. t1.status = "parsing" /\ t1.at = j + 1 /\ t1 \in State
  <2>1. n \in (m + 1)..(Len(a) + 1)
    BY <1>7, <1>10
  <2>2. t1.status = "parsing"
    BY <1>1, <1>6, <1>7, <2>1, StillParsing
  <2> HIDE DEF s, t1
  <2>3. t1.at = j + 1 /\ t1 \in State
    <3> DEFINE k == v.key
               x == Given(v)
    <3>1. k \in Keys /\ x \in Values /\ t1 = Take(s, k, x)
      BY <1>9
    <3> HIDE DEF k, x
    <3> QED
      BY <1>8, <2>2, <3>1, Taken
  <2> QED
    BY <2>2, <2>3
<1>12. t2.status = "parsing" => t2.at = j + 1 /\ t2 \in State
  <2> HIDE DEF s, t2
  <2> DEFINE k == w.key
             x == Given(w)
  <2>1. k \in Keys /\ x \in Values /\ t2 = Take(s, k, x)
    BY <1>9
  <2> HIDE DEF k, x
  <2> QED
    BY <1>8, <2>1, Taken
<1>13. Rounds(a)[m + 2] = Take(t1, w.key, Given(w))
  <2>1. t1.at <= Len(a) /\ a[t1.at] = w
    BY <1>2, <1>11 DEF w
  <2>2. Rounds(a)[m + 2] = Round(a, t1)
    <3>1. (m + 1) + 1 = m + 2
      BY <1>7
    <3> QED
      BY <1>1, <1>7, <3>1, Unrolled
  <2> HIDE DEF t1
  <2>3. Round(a, t1) = Take(t1, w.key, Given(w))
    BY <1>1, <1>4, <1>11, <2>1, CarriesRound
  <2> QED
    BY <2>2, <2>3
<1>14. /\ t2.status = "parsing" => Rounds(b)[m + 2] = Take(t2, v.key, Given(v))
       /\ t2.status # "parsing" => Rounds(b)[m + 2] = t2
  <2>1. t2.status = "parsing" => t2.at <= Len(b) /\ b[t2.at] = v
    BY <1>2, <1>3, <1>12
  <2>2. Rounds(b)[m + 2] = Round(b, t2)
    <3>1. (m + 1) + 1 = m + 2 /\ m + 1 \in 0..Len(b)
      BY <1>3, <1>7
    <3> QED
      BY <1>3, <3>1, Unrolled
  <2> HIDE DEF t2
  <2>3. t2.status = "parsing" => Round(b, t2) = Take(t2, v.key, Given(v))
    BY <1>3, <1>4, <1>12, <2>1, CarriesRound
  <2>4. t2.status # "parsing" => Round(b, t2) = t2
    BY DEF Round
  <2> QED
    BY <2>2, <2>3, <2>4
\* The same state, or both have failed.
<1>15. Alike(Rounds(a)[m + 2], Rounds(b)[m + 2], 0, j)
  <2> DEFINE x == Rounds(a)[m + 2]
             y == Rounds(b)[m + 2]
  <2>1. x = y \/ (x.status = "failed" /\ y.status = "failed")
    <3>1. \/ /\ t2.status = "parsing"
             /\ Take(t1, w.key, Given(w)) = Take(t2, v.key, Given(v))
          \/ /\ t2.status = "failed"
             /\ Take(t1, w.key, Given(w)).status = "failed"
      <4> HIDE DEF s
      <4>1. Take(s, v.key, Given(v)).status = "parsing"
        BY <1>9, <1>11
      <4> QED
        BY <1>4, <1>8, <1>9, <4>1, TakesCommute
    <3> QED
      BY <1>13, <1>14, <3>1
  <2>2. x.status = "parsing" => x.at = j + 2
    <3> HIDE DEF t1
    <3>1. x.status = "parsing" => x.at = t1.at + 1
      <4> DEFINE k == w.key
                 u == Given(w)
      <4>1. k \in Keys /\ u \in Values /\ x = Take(t1, k, u)
        BY <1>9, <1>13
      <4> HIDE DEF k, u, x
      <4> QED
        BY <1>11, <4>1, Taken
    <3> QED
      BY <1>7, <1>11, <3>1
  <2> HIDE DEF x, y
  <2>3. Alike(x, y, 0, j)
    BY <1>7, <2>1, <2>2 DEF Alike
  <2> QED
    BY <2>3 DEF x, y
<1>16. Outcome(a) = Outcome(b)
  <2>1. /\ Len(a) = Len(b) + 0
        /\ \A i \in (j + 2)..Len(a) : a[i] = b[i - 0]
        /\ m + 2 \in 0..(Len(b) + 1)
    BY <1>1, <1>3, <1>7
  <2> QED
    BY <1>1, <1>3, <1>7, <1>15, <2>1, SameRest
<1> QED
  BY <1>16 DEF a, b

\* parse_arguments: options that carry their values may stand in any order.
THEOREM AlwaysOrderIsFree == Spec => []OrderIsFree
<1>1. Spec => [](argv \in Seq(Words))
  BY CommandLines
<1> QED
  BY <1>1, OrderDoesNotMatter, PTL

-----------------------------------------------------------------------------

\* An option takes the same value from the next word and after "=", and the
\* rest of the command line is parsed one word further on in the one case.
LEMMA SpellingDoesNotMatter == argv \in Seq(Words) => SpellingsAgree
<1> SUFFICES ASSUME argv \in Seq(Words),
                    NEW j \in OptionsOf(argv), j < Len(argv),
                    argv[j].form \in {"long", "short"}, argv[j].key \in Required
             PROVE  Outcome(argv) = Outcome(Joined(j))
  BY DEF SpellingsAgree
<1> DEFINE a == argv
           b == Joined(j)
           k == a[j].key
           v == Text(a[j + 1])
<1>1. a \in Seq(Word)
  BY SeqOfWords
<1>2. /\ j \in 1..Len(a) /\ j + 1 \in 1..Len(a) /\ a[j] \in Word /\ a[j + 1] \in Word
      /\ v \in Values /\ v # None /\ k \in Keys /\ k \notin Flags /\ k # "D"
  <2>1. j \in 1..Len(a)
    BY <1>1, Reached
  <2>2. j + 1 \in 1..Len(a)
    BY <2>1
  <2>3. a[j] \in Word /\ a[j + 1] \in Word
    BY <1>1, <2>1, <2>2
  <2>4. k \in Keys /\ k \notin Flags /\ k # "D"
    BY DEF Required, Texts, Flags, Keys
  <2> HIDE DEF a, k
  <2>5. v \in Values /\ v # None
    BY <2>3, TextIsGiven
  <2> QED
    BY <2>1, <2>2, <2>3, <2>4, <2>5
<1>3. /\ b \in Seq(Word) /\ Len(b) = Len(a) - 1
      /\ b[j].key = k /\ b[j].val = v /\ b[j].form \in Carries
      /\ \A i \in 1..(j - 1) : a[i] = b[i]
      /\ \A i \in (j + 2)..Len(a) : a[i] = b[i - 1]
  <2> DEFINE w == [key |-> a[j].key,
                   form |-> IF a[j].form = "long" THEN "long=" ELSE "short=",
                   val |-> Text(a[j + 1])]
  <2>1. w \in Word /\ w.key = k /\ w.val = v /\ w.form \in Carries
    <3>1. a[j].key \in STRING
      BY <1>2 DEF Word
    <3>2. w.form \in Carries /\ w.key = k /\ w.val = v
      BY DEF Carries
    <3>3. w \in [key : STRING, form : Spellings \cup {"plain", "help"}, val : Values]
      BY <1>2, <3>1 DEF Spellings
    <3> HIDE DEF w
    <3> QED
      BY <1>2, <3>2, <3>3 DEF Word
  <2>2. /\ Len(a) - 1 \in Nat
        /\ b = [i \in 1..(Len(a) - 1) |->
                  IF i < j THEN a[i] ELSE IF i = j THEN w ELSE a[i + 1]]
    BY <1>2 DEF Joined
  <2> HIDE DEF b, w
  <2>3. b \in [1..(Len(a) - 1) -> Word]
    BY <1>1, <1>2, <2>1, <2>2
  <2>4. b \in Seq(Word) /\ Len(b) = Len(a) - 1
    BY <2>2, <2>3
  <2>5. b[j] = w
    BY <1>2, <2>2
  <2>6. \A i \in 1..(j - 1) : a[i] = b[i]
    BY <1>2, <2>2
  <2>7. \A i \in (j + 2)..Len(a) : a[i] = b[i - 1]
    BY <1>2, <2>2
  <2> QED
    BY <2>1, <2>4, <2>5, <2>6, <2>7
<1>4. a[j].form \in {"long", "short"}
  OBVIOUS
<1> HIDE DEF a, b, k, v
<1>5. PICK m \in 0..(j - 1) : Rounds(a)[m].status = "parsing" /\ Rounds(a)[m].at = j
  BY <1>1, Reached DEF a
<1>6. /\ m \in 0..Len(a) /\ m \in 0..Len(b) /\ m + 1 \in 0..(Len(b) + 1)
      /\ m \in 0..(Len(a) + 1)
      /\ m \in Nat /\ j \in Nat /\ j <= Len(a) /\ j <= Len(b) /\ m <= Len(b)
  BY <1>1, <1>2, <1>3
<1> DEFINE s == Rounds(a)[m]
<1>7. s \in State /\ s.status = "parsing" /\ s.at = j /\ Rounds(b)[m] = s
  <2>1. Rounds(b)[m] = Rounds(a)[m]
    <3>1. a[j].form # "plain" /\ b[j].form # "plain"
      BY <1>3, <1>4 DEF Carries
    <3> QED
      BY <1>1, <1>3, <1>5, <1>6, <3>1, SamePrefix
  <2> QED
    BY <1>1, <1>5, <1>6, <2>1, AfterRounds
<1>8. Rounds(a)[m + 1] = Take(AtValue(s), k, v)
  <2>1. Rounds(a)[m + 1] = Round(a, s)
    BY <1>1, <1>6, Unrolled
  <2>2. Round(a, s) = Parse(a, s)
    BY <1>6, <1>7 DEF Round
  <2>3. s.at < Len(a) /\ a[s.at] = a[j] /\ a[s.at + 1] = a[j + 1]
    BY <1>1, <1>2, <1>7
  <2> HIDE DEF s
  <2>4. Parse(a, s) = NextWord(a, s, k)
    BY <1>2, <1>4, <2>3 DEF Parse, InlineValue, k
  <2>5. NextWord(a, s, k) = Take(AtValue(s), k, v)
    BY <2>3, Zenon DEF NextWord, AtValue, v
  <2> QED
    BY <2>1, <2>2, <2>4, <2>5
<1>9. Rounds(b)[m + 1] = Take(s, k, v)
  <2>1. Rounds(b)[m + 1] = Round(b, s)
    BY <1>3, <1>6, <1>7, Unrolled
  <2>2. s.at <= Len(b) /\ b[s.at] = b[j]
    BY <1>6, <1>7
  <2> HIDE DEF s
  <2>3. Round(b, s) = Take(s, b[j].key, Given(b[j]))
    BY <1>3, <1>7, <2>2, CarriesRound
  <2>4. b[j].key = k /\ Given(b[j]) = v
    BY <1>2, <1>3 DEF Given
  <2> QED
    BY <2>1, <2>3, <2>4
<1>10. Alike(Rounds(a)[m + 1], Rounds(b)[m + 1], 1, j)
  <2> DEFINE x == AtValue(s)
  <2> HIDE DEF s
  <2>1. x \in State /\ x.status = "parsing" /\ x.set = s.set /\ x.at = s.at + 1
    BY <1>7, AtValueMoves
  <2> HIDE DEF x
  <2>2. x.at >= j + 1
    BY <1>6, <1>7, <2>1
  <2>3. Alike(Take(x, k, v), Take(s, k, v), 1, j)
    BY <1>2, <1>6, <1>7, <2>1, <2>2, AlikeTaken
  <2> QED
    BY <1>8, <1>9, <2>3 DEF x
<1>11. Outcome(a) = Outcome(b)
  <2>1. Len(a) = Len(b) + 1
    BY <1>1, <1>3
  <2> QED
    BY <1>1, <1>3, <1>6, <1>10, <2>1, SameRest
<1> QED
  BY <1>11 DEF a, b

\* option_matches and required_value: it makes no difference whether an option
\* has its value after "=" or in the next word.
THEOREM AlwaysSpellingsAgree == Spec => []SpellingsAgree
<1>1. Spec => [](argv \in Seq(Words))
  BY CommandLines
<1> QED
  BY <1>1, SpellingDoesNotMatter, PTL

=============================================================================
