--------------------------- MODULE AdaptersProofs ---------------------------
(***************************************************************************)
(* The choice of the adapter, for any number of adapters and addresses,    *)
(* any list Windows may return and any text of --iface.                    *)
(***************************************************************************)
EXTENDS Adapters, SequenceTheorems, TLAPS

Types ==
    /\ listed \in Seq(Adapter)
    /\ selected \in Adapter \cup {NoAdapter}
    /\ deviceName \in Adapter \cup {"option"}

\* An adapter once selected is the one DeviceName names.
NameKept ==
    /\ selected # NoAdapter => deviceName = selected
    /\ selected = NoAdapter => deviceName = "option"

\* Between look-up and bind the address is the one looked up, or it has moved.
AddressKnown ==
    pc \in {"open", "bind"} =>
        /\ selected # NoAdapter
        /\ moved \/ (selected \in usable /\ address[selected] = localIp)

OpenEnd == cause # "none" => pc = "ended"

IInv == Types /\ NameKept /\ AddressKnown /\ OpenEnd /\ FoundAgain /\ FollowsAddress

LEMMA ListTypes == Arrangements \subseteq Seq(Adapter)
  BY DEF Arrangements

\* What a step that looks up no adapter leaves alone.
LEMMA ChoiceStays ==
    ASSUME [Next]_vars, ~FindAdapter
    PROVE  UNCHANGED choiceVars
  BY DEF Next, HostChanges, ListFails, ListOverflows, NoneFits, OpenCapture,
         BindSocket, Retry, Over, vars, choiceVars, hostVars, loadVars

\* The look-up finds the adapter of the attempt before, or the first one.
LEMMA LookUp ==
    ASSUME IInv, FindAdapter
    PROVE  /\ selected' \in Adapter /\ deviceName' = selected'
           /\ selected # NoAdapter => selected' = selected
           /\ selected' \in usable /\ address[selected'] = localIp'
           /\ UNCHANGED <<hostVars, loadVars, cause>>
           /\ pc = "load" /\ pc' = "open" /\ moved' = FALSE
  <1>1. PICK k \in 1..Len(listed) : Fits(listed[k]) /\ Select(listed[k])
    BY DEF FindAdapter
  <1>2. listed[k] \in Adapter
    BY <1>1 DEF IInv, Types
  <1>3. selected # NoAdapter => listed[k] = selected
    BY <1>1, AdapterAssumption DEF IInv, Types, NameKept, Fits, Matches
  <1> QED
    BY <1>1, <1>2, <1>3 DEF FindAdapter, Fits, Select

LEMMA StepKeepsIInv ==
    ASSUME IInv, [Next]_vars
    PROVE  IInv'
  <1> USE DEF IInv, Types, NameKept, AddressKnown, OpenEnd, FoundAgain, FollowsAddress
  <1>1. CASE FindAdapter
    <2>1. NoAdapter \notin Adapter
      BY AdapterAssumption
    <2>2. cause = "none"
      BY <1>1, LookUp
    <2> QED BY <1>1, <2>1, <2>2, LookUp DEF hostVars
  <1>2. CASE HostChanges
    <2>1. UNCHANGED <<pc, loadVars, choiceVars, cause>> /\ pc # "ended"
      BY <1>2 DEF HostChanges
    <2>2. listed' \in Seq(Adapter)
      BY <1>2, ListTypes DEF HostChanges
    <2>3. moved' = (moved \/ (selected # NoAdapter /\
                      (selected \notin usable' \/ address'[selected] # localIp)))
      BY <1>2 DEF HostChanges
    <2>4. AddressKnown'
      BY <2>1, <2>3 DEF choiceVars
    <2>5. cause' = "none"
      BY <2>1
    <2> QED BY <2>1, <2>2, <2>4, <2>5 DEF choiceVars
  <1>3. CASE NoneFits
    <2>1. UNCHANGED <<hostVars, choiceVars, moved>> /\ pc' = "ended" /\ cause' = "none found"
      BY <1>3 DEF NoneFits, Ends
    <2>2. FoundAgain'
      <3> SUFFICES ASSUME selected # NoAdapter, selected \in usable, selected \in Range(listed)
                   PROVE  FALSE
        BY <2>1 DEF hostVars, choiceVars
      <3>0. DOMAIN listed = 1..Len(listed)
        <4>1. listed \in Seq(Adapter)
          OBVIOUS
        <4> HIDE DEF IInv, Types, NameKept, AddressKnown, OpenEnd, FoundAgain, FollowsAddress
        <4> QED BY <4>1, LenProperties
      <3>1. PICK k \in 1..Len(listed) : listed[k] = selected
        BY <3>0 DEF Range
      <3>2. Fits(listed[k])
        BY <3>1, AdapterAssumption DEF Fits, Matches
      <3> QED BY <1>3, <3>1, <3>2 DEF NoneFits
    <2> QED BY <2>1, <2>2 DEF hostVars, choiceVars
  <1>4. CASE BindSocket
    BY <1>4 DEF BindSocket, Ends, hostVars, choiceVars
  <1>5. CASE ListFails \/ ListOverflows \/ OpenCapture \/ Retry
    BY <1>5 DEF ListFails, ListOverflows, OpenCapture, Retry, Ends, hostVars, choiceVars
  <1>6. CASE Over \/ UNCHANGED vars
    BY <1>6 DEF Over, vars, hostVars, choiceVars
  <1> QED
    BY <1>1, <1>2, <1>3, <1>4, <1>5, <1>6 DEF Next

THEOREM Inductive == Spec => []IInv
  <1>1. Init => IInv
    BY ListTypes, AdapterAssumption
    DEF Init, IInv, Types, NameKept, AddressKnown, OpenEnd, FoundAgain, FollowsAddress
  <1>2. IInv /\ [Next]_vars => IInv'
    BY StepKeepsIInv
  <1> QED BY <1>1, <1>2, PTL DEF Spec

\* All attempts use the adapter of the first one, whatever text --iface gives
\* and however the list of Windows changes (auth_8021x_Init, find_adapter).
THEOREM OneAdapter == Spec => SameAdapter
  <1>1. IInv /\ [Next]_vars => [selected # NoAdapter => selected' = selected]_vars
    BY LookUp, ChoiceStays DEF choiceVars
  <1> QED BY <1>1, Inductive, PTL DEF Spec, SameAdapter

\* An adapter that is up and listed is found again.
THEOREM FoundEveryTime == Spec => []FoundAgain
  BY Inductive, PTL DEF IInv

\* A client ends over its address only if it changed between look-up and bind.
THEOREM AddressFollowed == Spec => []FollowsAddress
  BY Inductive, PTL DEF IInv

=============================================================================
