------------------------------ MODULE Adapters ------------------------------
(***************************************************************************)
(* Which network adapter an attempt uses.  Authentication() looks its      *)
(* adapter up anew every time, by DeviceName, in a list that Windows       *)
(* reorders, lengthens and shortens as cables, docks and VPNs come and go. *)
(* The first match is kept by overwriting DeviceName with its pcap_name.   *)
(*                                                                         *)
(* That one name contains another is the business of Contains; here a      *)
(* selector is the set of adapters it is contained in.  pcap_names differ  *)
(* and have one length, so each is contained in itself only.               *)
(***************************************************************************)
EXTENDS Naturals, FiniteSets, Sequences, Functions

CONSTANTS
    Adapter,    \* the adapters the host may have
    Addresses,  \* the addresses they may have
    NoAdapter,
    Contained,  \* those one of whose names contains the text of --iface
    Room        \* entries that fit the 15 KB load_adapters begins with

ASSUME AdapterAssumption ==
    /\ Contained \subseteq Adapter
    /\ IsFiniteSet(Adapter)
    /\ NoAdapter \notin Adapter
    /\ "option" \notin Adapter \cup {NoAdapter}
    /\ Room \in Nat

VARIABLES
    listed,      \* what GetAdaptersAddresses returns, in its order
    usable,      \* up, of six octets and with an IPv4 address
    address,     \* the first IPv4 address of each
    pc,          \* "load", "open", "bind", "session" or "ended"
    bufLen,      \* out_buf_len, in entries
    attempt,     \* of load_adapters
    deviceName,  \* DeviceName: "option", or the adapter whose pcap_name it is
    selected,    \* selected_adapter
    localIp,     \* local_ipaddr
    cause,       \* history: why the process ended
    moved        \* history: the selected adapter changed since it was looked up

hostVars == <<listed, usable, address>>
loadVars == <<bufLen, attempt>>
choiceVars == <<deviceName, selected, localIp>>
vars == <<hostVars, pc, loadVars, choiceVars, cause, moved>>

Arrangements ==
    {s \in UNION {[1..n -> Adapter] : n \in 0..Cardinality(Adapter)} : IsInjective(s)}

Init ==
    /\ listed \in Arrangements
    /\ usable \in SUBSET Adapter
    /\ address \in [Adapter -> Addresses]
    /\ pc = "load"
    /\ bufLen = Room
    /\ attempt = 0
    /\ deviceName = "option"
    /\ selected = NoAdapter
    /\ localIp \in Addresses
    /\ cause = "none"
    /\ moved = FALSE

Ends(why) ==
    /\ pc' = "ended"
    /\ cause' = why

-----------------------------------------------------------------------------
(* The host                                                                 *)

\* Adapters come, go or change places, a link goes up or down, DHCP assigns
\* another address.
HostChanges ==
    /\ pc # "ended"
    /\ \/ /\ listed' \in Arrangements
          /\ UNCHANGED <<usable, address>>
       \/ /\ \E a \in Adapter : usable' \in {usable \cup {a}, usable \ {a}}
          /\ UNCHANGED <<listed, address>>
       \/ /\ \E a \in Adapter, ip \in Addresses : address' = [address EXCEPT ![a] = ip]
          /\ UNCHANGED <<listed, usable>>
    /\ moved' = (moved \/ (selected # NoAdapter /\
                    (selected \notin usable' \/ address'[selected] # localIp)))
    /\ UNCHANGED <<pc, loadVars, choiceVars, cause>>

-----------------------------------------------------------------------------
(* auth_8021x_Init                                                          *)

\* The buffer is too small: it is made as large as the list was at the call.
ListOverflows ==
    /\ pc = "load"
    /\ Len(listed) > bufLen
    /\ bufLen' = Len(listed)
    /\ attempt' = attempt + 1
    /\ IF attempt' = 3 THEN Ends("overflow") ELSE UNCHANGED <<pc, cause>>
    /\ UNCHANGED <<hostVars, choiceVars, moved>>

\* There is no memory for the list, or Windows does not give it.
ListFails ==
    /\ pc = "load"
    /\ Ends("no list")
    /\ UNCHANGED <<hostVars, loadVars, choiceVars, moved>>

\* Mutant of Matches: pcap_name is not among the names looked at.
MatchesVisibleNames(a) == deviceName = "option" /\ a \in Contained

Matches(a) ==
    IF deviceName = "option" THEN a \in Contained ELSE a = deviceName

Fits(a) == a \in usable /\ Matches(a)

\* Mutants of Select: DeviceName stays as given; the address is only read once.
SelectAnew(a) ==
    /\ selected' = a
    /\ localIp' = address[a]
    /\ UNCHANGED deviceName

SelectAddressOnce(a) ==
    /\ selected' = a
    /\ deviceName' = a
    /\ localIp' = IF selected = NoAdapter THEN address[a] ELSE localIp

Select(a) ==
    /\ selected' = a
    /\ deviceName' = a
    /\ localIp' = address[a]

\* The first entry of the list that fits.
FindAdapter ==
    /\ pc = "load"
    /\ Len(listed) <= bufLen
    /\ \E k \in 1..Len(listed) :
         /\ Fits(listed[k])
         /\ \A l \in 1..(k - 1) : ~Fits(listed[l])
         /\ Select(listed[k])
    /\ pc' = "open"
    /\ moved' = FALSE
    /\ UNCHANGED <<hostVars, loadVars, cause>>

NoneFits ==
    /\ pc = "load"
    /\ Len(listed) <= bufLen
    /\ \A k \in 1..Len(listed) : ~Fits(listed[k])
    /\ Ends("none found")
    /\ UNCHANGED <<hostVars, loadVars, choiceVars, moved>>

\* Npcap opens the adapter and takes the filter, or the process ends.
OpenCapture ==
    /\ pc = "open"
    /\ \/ pc' = "bind" /\ UNCHANGED cause
       \/ Ends("npcap")
    /\ UNCHANGED <<hostVars, loadVars, choiceVars, moved>>

-----------------------------------------------------------------------------
(* The rest of Authentication()                                             *)

\* After the opening Logoffs: getIfIP takes the address that was looked up
\* before them, and bind() fails if it is no longer one of the host's.
BindSocket ==
    /\ pc = "bind"
    /\ IF selected \in usable /\ address[selected] = localIp
         THEN pc' = "session" /\ UNCHANGED cause
         ELSE Ends("bind")
    /\ UNCHANGED <<hostVars, loadVars, choiceVars, moved>>

\* The session is over, for any of its reasons, and main() tries again.
Retry ==
    /\ pc = "session"
    /\ pc' = "load"
    /\ bufLen' = Room
    /\ attempt' = 0
    /\ UNCHANGED <<hostVars, choiceVars, cause, moved>>

Over == pc = "ended" /\ UNCHANGED vars

Next ==
    \/ HostChanges
    \/ ListFails \/ ListOverflows \/ FindAdapter \/ NoneFits \/ OpenCapture
    \/ BindSocket \/ Retry
    \/ Over

Spec == Init /\ [][Next]_vars

-----------------------------------------------------------------------------

\* Once an adapter was selected, no later attempt uses another one, though the
\* text of --iface may fit several and their order and state change.
SameAdapter == [][selected # NoAdapter => selected' = selected]_vars

\* A client whose adapter is there finds it again, whatever the others do: the
\* name it goes by after the first attempt still matches.
FoundAgain ==
    cause = "none found" /\ selected # NoAdapter =>
        selected \notin usable \/ selected \notin Range(listed)

\* A change of address ends the process only if it comes between the look-up and
\* the bind of one attempt; one that comes during a session is taken up by the
\* next attempt.
FollowsAddress == cause = "bind" => moved

=============================================================================
