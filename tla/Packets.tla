------------------------------- MODULE Packets -------------------------------
(***************************************************************************)
(* What the keep-alives carry.  Drcom_ALIVE_HEARTBEAT_TYPE_Setter copies   *)
(* crc_md5_info and tailinfo, statics that other packets fill in passing:  *)
(*                                                                         *)
(*   "md5"   all of crc_md5_info, by the answer to the MD5 challenge       *)
(*   "crc"   its first four octets, by MISC_INFO, over the digest's        *)
(*   "tail"  tailinfo, by MISC_RESPONSE_INFO                               *)
(*                                                                         *)
(* kept is the set of the parts that are of the current login.  No session *)
(* clears the statics, so the other parts are zero or of an earlier one.   *)
(***************************************************************************)
EXTENDS Campus

VARIABLE kept

Parts == {"md5", "crc", "tail"}

packetsVars == <<campusVars, kept>>

PacketsInit == CampusInit /\ kept = {}

\* AppendDrcomResponseMD5 overwrites the checksum along with the digest.
HearsAndKeeps ==
    /\ ClientHears /\ Sent
    /\ kept' = IF eapTx' = "respMd5" THEN {"md5"} \cup (kept \ {"crc"}) ELSE kept

\* The part that handling datagram g fills, whether or not its answer is sent.
Filled(g) == IF g = "alive" THEN {"crc"} ELSE IF g = "info" THEN {"tail"} ELSE {}

ReadsAndKeeps ==
    /\ ClientReads /\ Sent
    /\ kept' = kept \cup (IF fromServer = <<>> THEN {} ELSE Filled(Head(fromServer)))

\* A new login turns what is kept into leftovers; a new process has nothing.
MovesAndKeeps ==
    /\ ClientMoves /\ Sent
    /\ kept' = IF pc = "start" THEN {} ELSE kept

RestartsEmpty == Restart /\ kept' = {}

StaysAndKeeps == (ClientPolls \/ ClientWaits) /\ Sent /\ UNCHANGED kept

ClientKeeps == HearsAndKeeps \/ ReadsAndKeeps \/ MovesAndKeeps \/ StaysAndKeeps

Elsewhere ==
    /\ \/ SwitchHears \/ SwitchRepeats \/ SwitchDrops
       \/ ServerHears
       \/ Loses \/ Kill
       \/ Over
    /\ UNCHANGED kept

PacketsNext == ClientKeeps \/ RestartsEmpty \/ Elsewhere

\* As in CampusSpec.
PacketsSpec ==
    /\ PacketsInit
    /\ [][PacketsNext]_packetsVars
    /\ WF_packetsVars(ClientKeeps)
    /\ WF_packetsVars(SwitchHears /\ UNCHANGED kept)
    /\ WF_packetsVars(ServerHears /\ UNCHANGED kept)
    /\ WF_packetsVars(SwitchRepeats /\ UNCHANGED kept)
    /\ SF_packetsVars(StaysAndKeeps /\ since' > since)

-----------------------------------------------------------------------------

\* Every keep-alive carries the checksum, the digest and the tail of the login
\* it keeps alive, and nothing of a session before it, whatever was dropped,
\* killed or lost.  This is what MISC_RESPONSE_FOR_ALIVE holds the heartbeat
\* back for until MISC_RESPONSE_INFO has come.
BeatsAreFresh == udpTx = "beat" => kept = Parts

=============================================================================
