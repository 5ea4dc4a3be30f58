------------------------------ MODULE OsnmaDsm ------------------------------
(***************************************************************************)
(* The assembly and verification of DSM-KROOT messages by OSNMAProcessor   *)
(* (process_subframe and process_dsm_kroot_block).  Each subframe of each  *)
(* satellite carries one block of a message; blocks arrive in any order    *)
(* and again and again, and a message is replaced by another one that may  *)
(* have the same DSM identifier.                                           *)
(*                                                                         *)
(* The cryptography is external and taken as perfect: the pad and the      *)
(* signature are right exactly when header and blocks are those of one     *)
(* message that was sent.                                                  *)
(***************************************************************************)
EXTENDS Integers, Sequences, FiniteSets

CONSTANTS
    Schedule,    \* the messages the satellites send, one after the other
    PublicKeys,  \* public_keys: the signature algorithm of each key that was loaded
    Overlap      \* a message may still be sent after the next one has begun

(* The fields of a message: dsm_id, nmas and header of the subframes that  *)
(* carry it, and nb_index, ks_index and pkid of its block 0.               *)
Messages == {Schedule[i] : i \in 1 .. Len(Schedule)}
DsmIds == {m.dsm_id : m \in Messages}

ASSUME DsmAssumption ==
    /\ Schedule \in Seq(Messages) /\ Len(Schedule) > 0
    /\ \A i \in 1 .. Len(Schedule) :
         /\ DOMAIN Schedule[i] = {"dsm_id", "nmas", "header", "nb_index", "ks_index", "pkid"}
         /\ Schedule[i].dsm_id \in 0 .. 15 /\ Schedule[i].nmas \in 0 .. 3
         /\ {Schedule[i].nb_index, Schedule[i].ks_index, Schedule[i].pkid} \subseteq 0 .. 15
    /\ DOMAIN PublicKeys \subseteq 0 .. 15
    /\ Overlap \in BOOLEAN

-----------------------------------------------------------------------------
(* The tables of osnma_processor.h, and the layout of a message: block 0,  *)
(* the root key, the signature and the padding to whole blocks.            *)

BLOCK_LENGTH == 104
DSM_ID_PKR_START_ID == 12

NB_BLOCKS_TABLE(i) == IF i \in 1 .. 8 THEN i + 6 ELSE -1

KS_TABLE(i) ==
    CASE i \in 0 .. 4 -> 96 + 8 * i
      [] i \in 5 .. 8 -> 32 * i
      [] OTHER -> -1

SignatureLength(algorithm) ==
    CASE algorithm = "ECDSA_SHA256" -> 512
      [] algorithm = "ECDSA_SHA512" -> 1056

(* BLOCK_LENGTH * ceil(1 + (ks + l_ds) / BLOCK_LENGTH).                    *)
l_dk(ks, l_ds) == BLOCK_LENGTH * (1 + ((ks + l_ds + BLOCK_LENGTH - 1) \div BLOCK_LENGTH))

pad_length(ks, l_ds) == l_dk(ks, l_ds) - BLOCK_LENGTH - ks - l_ds

pad_offset(ks, l_ds) == BLOCK_LENGTH + ks + l_ds

-----------------------------------------------------------------------------

VARIABLES
    dsm,        \* dsm_id_dsm_message_map
    alive,      \* no exception has ended the thread of the worker
    verified,   \* the messages whose signature was verified (printed)
    current,    \* the message of Schedule the satellites are sending
    overlapped  \* the one before is still sent too

vars == <<dsm, alive, verified, current, overlapped>>

(* A block is a pair of its message and its number; an entry that          *)
(* operator[] has created holds the empty string.                          *)
Empty == <<>>

NoMessage ==
    [nb_blocks |-> 0, nma_header |-> "none", blocks |-> [k \in {} |-> Empty], is_processed |-> FALSE]

Init ==
    /\ dsm = [id \in DsmIds |-> NoMessage]
    /\ alive = TRUE
    /\ verified = {}
    /\ current = 1
    /\ overlapped = FALSE

OnAir == {Schedule[current]} \cup (IF overlapped THEN {Schedule[current - 1]} ELSE {})

BlocksOf(m) == 0 .. (NB_BLOCKS_TABLE(m.nb_index) - 1)

-----------------------------------------------------------------------------
(* process_dsm_kroot_block.                                                *)

(* Only block 0 says how many blocks there are.  Fault variant: every      *)
(* block is taken to say so.                                               *)
NbFromAny(d, m, k) == NB_BLOCKS_TABLE(m.nb_index)
NbBlocks(d, m, k) == IF k = 0 THEN NB_BLOCKS_TABLE(m.nb_index) ELSE d.nb_blocks

(* The header of the latest block counts.  Fault variant: the first one.   *)
FirstHeader(d, header) == IF d.nma_header = "none" THEN header ELSE d.nma_header
LatestHeader(d, header) == header

Stored(d, m, k) ==
    [d EXCEPT !.nma_header = LatestHeader(d, m.header),
              !.blocks = [j \in DOMAIN d.blocks \cup {k} |->
                             IF j = k THEN <<m, k>> ELSE d.blocks[j]],
              !.nb_blocks = NbBlocks(d, m, k)]

(* Fault variant: blocks that are not counted are taken for granted.       *)
ReadyBefore(d) == Cardinality(DOMAIN d.blocks) + 1 = d.nb_blocks /\ d.nb_blocks # 0

is_message_ready(d) == Cardinality(DOMAIN d.blocks) = d.nb_blocks /\ d.nb_blocks # 0

(* Joining the blocks looks each one up with operator[].                   *)
Joined(d) ==
    [d EXCEPT !.blocks = [j \in DOMAIN d.blocks \cup 0 .. (d.nb_blocks - 1) |->
                             IF j \in DOMAIN d.blocks THEN d.blocks[j] ELSE Empty]]

JoinedLength(d) == BLOCK_LENGTH * Cardinality({j \in 0 .. (d.nb_blocks - 1) : d.blocks[j] # Empty})

FirstBlockMessage(d) == d.blocks[0][1]

KeyUsable(d) ==
    /\ FirstBlockMessage(d).pkid \in DOMAIN PublicKeys
    /\ PublicKeys[FirstBlockMessage(d).pkid] \in {"ECDSA_SHA256", "ECDSA_SHA512"}

(* substr throws when it is asked to start after the end of the message.   *)
OutOfRange(d) ==
    LET m == FirstBlockMessage(d)
    IN  pad_offset(KS_TABLE(m.ks_index), SignatureLength(PublicKeys[m.pkid])) > JoinedLength(d)

SignatureVerifies(d) ==
    /\ \A j \in 0 .. (d.nb_blocks - 1) : d.blocks[j] = <<FirstBlockMessage(d), j>>
    /\ d.nma_header = FirstBlockMessage(d).header

(* Fault variant: a processed message is not left alone.                   *)
NeverProcessed(d) == FALSE
AlreadyProcessed(d) == d.is_processed

process_dsm_kroot_block(m, k) ==
    LET stored == Stored(dsm[m.dsm_id], m, k)
        joined == Joined(stored)
        updated(d) == dsm' = [dsm EXCEPT ![m.dsm_id] = d]
    IN  IF AlreadyProcessed(dsm[m.dsm_id])
          THEN UNCHANGED <<dsm, alive, verified>>
        ELSE IF ~is_message_ready(stored)
          THEN updated(stored) /\ UNCHANGED <<alive, verified>>
        ELSE IF ~KeyUsable(joined)
          THEN updated(joined) /\ UNCHANGED <<alive, verified>>
        ELSE IF OutOfRange(joined)
          THEN updated(joined) /\ alive' = FALSE /\ UNCHANGED verified
        ELSE IF SignatureVerifies(joined)
          THEN /\ updated([joined EXCEPT !.is_processed = TRUE])
               /\ verified' = verified \cup {FirstBlockMessage(joined)}
               /\ UNCHANGED alive
          ELSE updated(joined) /\ UNCHANGED <<alive, verified>>

-----------------------------------------------------------------------------
(* process_subframe, on a subframe that carries block k of message m.  The *)
(* identifiers of a subframe are those its sender wrote: the code checks   *)
(* neither dsm_id nor dsm_block_id against the number of blocks, and the   *)
(* claims below are about subframes in which they are consistent.          *)

KrootBlock(m) == m.nmas \in {1, 2} /\ m.dsm_id < DSM_ID_PKR_START_ID

BlockReceived(m, k) ==
    /\ alive
    /\ KrootBlock(m)
    /\ process_dsm_kroot_block(m, k)
    /\ UNCHANGED <<current, overlapped>>

SubframeIgnored(m) ==
    /\ alive
    /\ ~KrootBlock(m)
    /\ UNCHANGED vars

(* The satellites change to the next message, all at once or not.          *)
NextMessage ==
    /\ current < Len(Schedule) /\ ~overlapped
    /\ current' = current + 1
    /\ overlapped' \in {FALSE, Overlap}
    /\ UNCHANGED <<dsm, alive, verified>>

OldMessageEnds ==
    /\ overlapped
    /\ overlapped' = FALSE
    /\ UNCHANGED <<dsm, alive, verified, current>>

(* After an exception (alive false) nothing is processed any more.         *)
Next ==
    \/ \E m \in OnAir : SubframeIgnored(m) \/ \E k \in BlocksOf(m) : BlockReceived(m, k)
    \/ NextMessage
    \/ OldMessageEnds

Spec == Init /\ [][Next]_vars

(* The satellites repeat the blocks of a message for as long as they send  *)
(* it, and the receiver goes on receiving.                                 *)
Received(k) == \E m \in OnAir : k \in BlocksOf(m) /\ BlockReceived(m, k)

FairSpec ==
    /\ Spec
    /\ WF_vars(OldMessageEnds)
    /\ \A k \in 0 .. 13 : WF_vars(~overlapped /\ Received(k))

-----------------------------------------------------------------------------
(* Properties.                                                             *)

(* A message fits its blocks, and an identifier is only reused for a       *)
(* message of the same number of blocks.                                   *)
WellFormedSchedule ==
    \A m, n \in Messages :
        /\ m.pkid \in DOMAIN PublicKeys /\ PublicKeys[m.pkid] \in {"ECDSA_SHA256", "ECDSA_SHA512"}
             => l_dk(KS_TABLE(m.ks_index), SignatureLength(PublicKeys[m.pkid]))
                    <= BLOCK_LENGTH * NB_BLOCKS_TABLE(m.nb_index)
        /\ m.dsm_id = n.dsm_id => m.nb_index = n.nb_index

(* The types of the message map; nb_blocks is known only with block 0.     *)
TypeOK ==
    /\ alive \in BOOLEAN /\ overlapped \in BOOLEAN
    /\ verified \subseteq Messages
    /\ current \in 1 .. Len(Schedule)
    /\ \A id \in DsmIds :
         /\ DOMAIN dsm[id].blocks \subseteq 0 .. 13
         /\ dsm[id].nb_blocks # 0 => 0 \in DOMAIN dsm[id].blocks
         /\ dsm[id].is_processed \in BOOLEAN

(* A message that counts as processed stays the one that was verified:     *)
(* header and blocks are all of one message, also after later messages     *)
(* have used its identifier.                                               *)
ProcessedIsWhole ==
    \A id \in DsmIds :
        dsm[id].is_processed =>
            \E m \in verified :
                /\ dsm[id].nma_header = m.header
                /\ dsm[id].blocks = [k \in BlocksOf(m) |-> <<m, k>>]

(* Joining the blocks never reads past the end of the message: there is no *)
(* gap when the number of blocks is right.                                 *)
NeverThrows == alive

(* A message that is sent long enough is verified, whatever blocks of      *)
(* earlier ones are still in its map, unless its identifier was used for a *)
(* message that was verified before.                                       *)
EventuallyVerified ==
    \A i \in 1 .. Len(Schedule) :
        LET m == Schedule[i]
        IN  KrootBlock(m) /\ current = i
                ~> current > i \/ (\E n \in verified : n.dsm_id = m.dsm_id)
=============================================================================
