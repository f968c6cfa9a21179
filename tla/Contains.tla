------------------------------ MODULE Contains ------------------------------
(***************************************************************************)
(* contains_case_insensitive, by which --iface is compared with the names  *)
(* of an adapter: two nested loops over the octets, with one early return  *)
(* where the haystack ends inside the inner loop.  One action per turn of  *)
(* the inner loop; index 0 of the code is index 1 of the sequences, and    *)
(* the NUL is at Len + 1.                                                  *)
(***************************************************************************)
EXTENDS Naturals, Sequences

CONSTANTS
    Octets,    \* the octets that occur in names
    tolower,   \* tolower() of the C locale, on them
    Texts      \* the names and selectors the function is called with

ASSUME TextAssumption ==
    /\ tolower \in [Octets -> Octets]
    /\ Texts \subseteq Seq(Octets)

VARIABLES haystack, needle, i, j,
          result   \* "none" until the function returns 1, "yes", or 0, "no"

vars == <<haystack, needle, i, j, result>>

Init ==
    /\ haystack \in Texts
    /\ needle \in Texts
    /\ i = 0
    /\ j = 0
    /\ result = IF needle = <<>> THEN "yes" ELSE "none"

Returns(r) == result' = r /\ UNCHANGED <<haystack, needle, i, j>>

\* The outer loop is over: haystack[i] is NUL.
OuterEnds ==
    /\ j = 0
    /\ i = Len(haystack)
    /\ Returns("no")

\* The haystack ends before the needle does.
RunsOut ==
    /\ i < Len(haystack)
    /\ j < Len(needle)
    /\ i + j = Len(haystack)
    /\ Returns("no")

Same == tolower[haystack[i + j + 1]] = tolower[needle[j + 1]]

Inside ==
    /\ i < Len(haystack)
    /\ j < Len(needle)
    /\ i + j < Len(haystack)

NextOctet ==
    /\ Inside
    /\ Same
    /\ j' = j + 1
    /\ UNCHANGED <<haystack, needle, i, result>>

\* Mutant of Mismatch: what matched so far is skipped.
MismatchSkips ==
    /\ Inside
    /\ ~Same
    /\ i' = i + j + 1
    /\ j' = 0
    /\ UNCHANGED <<haystack, needle, result>>

\* Mutant of Mismatch: the next position is not tried.
MismatchStays ==
    /\ Inside
    /\ ~Same
    /\ j' = 0
    /\ UNCHANGED <<haystack, needle, i, result>>

Mismatch ==
    /\ Inside
    /\ ~Same
    /\ i' = i + 1
    /\ j' = 0
    /\ UNCHANGED <<haystack, needle, result>>

Found ==
    /\ i < Len(haystack)
    /\ j = Len(needle)
    /\ Returns("yes")

Turn == OuterEnds \/ RunsOut \/ NextOctet \/ Mismatch \/ Found

Next ==
    \/ result = "none" /\ Turn
    \/ result # "none" /\ UNCHANGED vars

Spec == Init /\ [][Next]_vars /\ WF_vars(Next)

-----------------------------------------------------------------------------

\* needle occurs in haystack behind its first k octets.
OccursAt(k) ==
    /\ k + Len(needle) <= Len(haystack)
    /\ \A m \in 1..Len(needle) : tolower[haystack[k + m]] = tolower[needle[m]]

Occurs == \E k \in 0..Len(haystack) : OccursAt(k)

\* The function returns 1 exactly if the needle is somewhere in the haystack,
\* whatever the case of the letters, although it gives up at the first position
\* where the haystack is too short and looks at no later one.
FindsSubstring == result # "none" => (result = "yes" <=> Occurs)

\* It returns.
Ends == <>(result # "none")

=============================================================================
