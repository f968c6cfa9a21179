--------------------------- MODULE ContainsProofs ---------------------------
(***************************************************************************)
(* contains_case_insensitive finds exactly the substrings, for texts of    *)
(* any length.                                                             *)
(***************************************************************************)
EXTENDS Contains, TLAPS

\* Where the two indices are.
Indices ==
    /\ haystack \in Seq(Octets)
    /\ needle \in Seq(Octets)
    /\ i \in Nat
    /\ j \in Nat
    /\ i + j <= Len(haystack)
    /\ j <= Len(needle)
    /\ result \in {"none", "yes", "no"}
    /\ result = "none" => needle # <<>>

\* The inner loop has matched j octets here, and the outer loop has found every
\* position before this one wanting.
Matched == \A m \in 1..j : tolower[haystack[i + m]] = tolower[needle[m]]
Passed == \A k \in Nat : k < i => ~OccursAt(k)

IInv == Indices /\ Matched /\ Passed /\ FindsSubstring

\* A turn of the loops keeps the invariant.
LEMMA TurnKeepsIInv ==
    ASSUME IInv, result = "none", Turn
    PROVE  IInv'
<1> USE DEF IInv, Indices
<1>1. Len(haystack) \in Nat /\ Len(needle) \in Nat
  OBVIOUS
<1>2. haystack' = haystack /\ needle' = needle
  BY DEF Turn, OuterEnds, RunsOut, NextOctet, Mismatch, Found, Returns
<1>3. \A k \in Nat : OccursAt(k)' <=> OccursAt(k)
  BY <1>2 DEF OccursAt
<1>4. Occurs' <=> Occurs
  BY <1>2, <1>3 DEF Occurs
<1>5. ASSUME Returns("no"), i = Len(haystack) \/ (j < Len(needle) /\ i + j = Len(haystack))
      PROVE  IInv'
  <2>1. Len(needle) > 0
    BY <1>1
  <2>2. \A k \in Nat : k >= i => ~OccursAt(k)
    BY <1>1, <1>5, <2>1 DEF OccursAt
  <2>3. ~Occurs
    BY <1>1, <2>2 DEF Passed, Occurs
  <2> QED
    BY <1>2, <1>3, <1>4, <1>5, <2>3 DEF Returns, Matched, Passed, FindsSubstring
<1>6. CASE OuterEnds
  BY <1>5, <1>6 DEF OuterEnds
<1>7. CASE RunsOut
  BY <1>5, <1>7 DEF RunsOut
<1>8. CASE NextOctet
  <2>1. Indices' /\ Passed' /\ FindsSubstring'
    BY <1>1, <1>2, <1>3, <1>8 DEF NextOctet, Inside, Passed, FindsSubstring
  <2>2. Matched'
    <3> SUFFICES ASSUME NEW m \in 1..(j + 1)
                 PROVE  tolower[haystack[i + m]] = tolower[needle[m]]
      BY <1>8 DEF NextOctet, Matched
    <3>1. CASE m = j + 1
      BY <1>8, <3>1 DEF NextOctet, Same
    <3>2. CASE m # j + 1
      BY <3>2 DEF Matched
    <3> QED
      BY <3>1, <3>2
  <2> QED
    BY <2>1, <2>2
<1>9. CASE Mismatch
  <2>1. ~OccursAt(i)
    <3>1. j + 1 \in 1..Len(needle)
      BY <1>1, <1>9 DEF Mismatch, Inside
    <3>2. tolower[haystack[i + (j + 1)]] # tolower[needle[j + 1]]
      BY <1>9 DEF Mismatch, Same
    <3> QED
      BY <3>1, <3>2 DEF OccursAt
  <2>2. Passed'
    <3> SUFFICES ASSUME NEW k \in Nat, k < i + 1
                 PROVE  ~OccursAt(k)
      BY <1>3, <1>9 DEF Mismatch, Passed
    <3> QED
      BY <2>1 DEF Passed
  <2>3. Indices' /\ Matched' /\ FindsSubstring'
    BY <1>1, <1>2, <1>9 DEF Mismatch, Inside, Matched, FindsSubstring
  <2> QED
    BY <2>2, <2>3
<1>10. CASE Found
  <2>1. OccursAt(i)
    BY <1>1, <1>10 DEF Found, Matched, OccursAt
  <2>2. Occurs
    BY <1>1, <2>1 DEF Occurs
  <2> QED
    BY <1>2, <1>3, <1>4, <1>10, <2>2
       DEF Found, Returns, Matched, Passed, FindsSubstring
<1> QED
  BY <1>6, <1>7, <1>8, <1>9, <1>10 DEF Turn

\* The selector is found exactly where it is, in names of any length.
THEOREM SubstringsFound == Spec => []FindsSubstring
<1>1. Init => IInv
  <2> SUFFICES ASSUME Init PROVE IInv
    OBVIOUS
  <2>1. Indices
    BY TextAssumption DEF Init, Indices
  <2>2. Matched /\ Passed
    BY DEF Init, Matched, Passed
  <2>3. needle = <<>> => OccursAt(0)
    BY <2>1 DEF Indices, OccursAt, Init
  <2>4. FindsSubstring
    BY <2>1, <2>3 DEF Indices, FindsSubstring, Occurs, Init
  <2> QED
    BY <2>1, <2>2, <2>4 DEF IInv
<1>2. IInv /\ [Next]_vars => IInv'
  <2> SUFFICES ASSUME IInv, [Next]_vars PROVE IInv'
    OBVIOUS
  <2>1. CASE UNCHANGED vars
    BY <2>1 DEF vars, IInv, Indices, Matched, Passed, FindsSubstring, Occurs, OccursAt
  <2>2. CASE result = "none" /\ Turn
    BY <2>2, TurnKeepsIInv
  <2> QED
    BY <2>1, <2>2 DEF Next
<1>3. IInv => FindsSubstring
  BY DEF IInv
<1> QED
  BY <1>1, <1>2, <1>3, PTL DEF Spec

=============================================================================
