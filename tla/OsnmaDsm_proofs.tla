-------------------------- MODULE OsnmaDsm_proofs --------------------------
(* Proofs about OsnmaDsm, for every schedule of messages, every set of     *)
(* keys and every order in which the blocks arrive.                        *)
EXTENDS OsnmaDsm, FiniteSetTheorems, TLAPS

-----------------------------------------------------------------------------
(* The layout of a message.                                                *)

(* The padding completes the last block: it is shorter than a block, and   *)
(* the message it completes is as long as the layout says.                 *)
LEMMA PaddingFits ==
    ASSUME NEW ks \in Int, NEW l_ds \in Int
    PROVE  /\ l_dk(ks, l_ds) % BLOCK_LENGTH = 0
           /\ pad_length(ks, l_ds) \in 0 .. (BLOCK_LENGTH - 1)
           /\ pad_offset(ks, l_ds) + pad_length(ks, l_ds) = l_dk(ks, l_ds)
           /\ pad_offset(ks, l_ds) \in Int
           /\ pad_offset(ks, l_ds) <= l_dk(ks, l_ds)
<1> DEFINE q == (ks + l_ds + 103) \div 104
<1>1. /\ q \in Int
      /\ 104 * q <= ks + l_ds + 103
      /\ ks + l_ds + 103 < 104 * q + 104
  OBVIOUS
<1>2. l_dk(ks, l_ds) = 104 * (1 + q)
  BY DEF l_dk, BLOCK_LENGTH
<1> HIDE DEF q
<1>3. (104 * (1 + q)) % 104 = 0
  BY <1>1
<1> QED
  BY <1>1, <1>2, <1>3 DEF pad_length, pad_offset, BLOCK_LENGTH

LEMMA TableTypes ==
    ASSUME NEW i
    PROVE  /\ KS_TABLE(i) \in Int
           /\ NB_BLOCKS_TABLE(i) \in {-1} \cup 7 .. 14
BY DEF KS_TABLE, NB_BLOCKS_TABLE

-----------------------------------------------------------------------------
(* The inductive invariant.                                                *)

Blocks == (Messages \X (0 .. 13)) \cup {Empty}
BlockMaps == UNION {[D -> Blocks] : D \in SUBSET (0 .. 13)}
Headers == {m.header : m \in Messages} \cup {"none"}
Entries == [nb_blocks : Int, nma_header : Headers, blocks : BlockMaps, is_processed : BOOLEAN]

(* What is stored under number k is block k of a message, which has it,    *)
(* with the identifier of the entry; nothing else is stored.               *)
BlockGenuine(id, d, k) ==
    \E m \in Messages : m.dsm_id = id /\ k \in BlocksOf(m) /\ d.blocks[k] = <<m, k>>

(* The number of blocks is that of the message of the block 0 in memory.   *)
CountFromFirst(d) ==
    d.nb_blocks # 0 =>
        /\ 0 \in DOMAIN d.blocks
        /\ \E m \in Messages : d.blocks[0] = <<m, 0>> /\ d.nb_blocks = NB_BLOCKS_TABLE(m.nb_index)

Whole(d, m) ==
    /\ d.nma_header = m.header
    /\ d.blocks = [k \in BlocksOf(m) |-> <<m, k>>]

DsmInv ==
    /\ dsm \in [DsmIds -> Entries]
    /\ verified \subseteq Messages
    /\ current \in 1 .. Len(Schedule)
    /\ overlapped \in BOOLEAN
    /\ overlapped => current > 1
    /\ alive \in BOOLEAN
    /\ \A id \in DsmIds :
         /\ CountFromFirst(dsm[id])
         /\ dsm[id].is_processed => \E m \in verified : Whole(dsm[id], m)

LEMMA InitialInterval ==
    ASSUME NEW n \in Int
    PROVE  /\ IsFiniteSet(0 .. n)
           /\ Cardinality(0 .. n) = IF 0 > n THEN 0 ELSE n - 0 + 1
BY 0 \in Int, FS_Interval, Zenon

LEMMA BlockMapFacts ==
    ASSUME NEW f \in BlockMaps
    PROVE  /\ DOMAIN f \subseteq 0 .. 13
           /\ f \in [DOMAIN f -> Blocks]
           /\ IsFiniteSet(DOMAIN f) /\ Cardinality(DOMAIN f) \in Nat
<1>1. PICK D \in SUBSET (0 .. 13) : f \in [D -> Blocks]
  BY DEF BlockMaps
<1>2. DOMAIN f = D
  BY <1>1
<1>3. IsFiniteSet(0 .. 13)
  BY 13 \in Int, InitialInterval
<1>4. IsFiniteSet(D)
  BY <1>3, FS_Subset
<1> QED
  BY <1>1, <1>2, <1>4, FS_CardinalityType

LEMMA BlockNumbers ==
    ASSUME NEW m \in Messages
    PROVE  BlocksOf(m) \subseteq 0 .. 13
BY TableTypes DEF BlocksOf

(* The blocks of an entry count as complete only when they are the ones    *)
(* the join looks up, or one of those is missing: as many blocks as        *)
(* needed, but not the right ones, leave a gap.                            *)
LEMMA FullOrGap ==
    ASSUME NEW D \in SUBSET (0 .. 13), NEW n \in Int, n > 0, Cardinality(D) = n,
           0 .. (n - 1) \subseteq D
    PROVE  D = 0 .. (n - 1)
<1>1. IsFiniteSet(0 .. 13)
  BY 13 \in Int, InitialInterval
<1>2. IsFiniteSet(D)
  BY <1>1, FS_Subset
<1>3. Cardinality(0 .. (n - 1)) = n
  BY InitialInterval
<1> QED
  BY <1>2, <1>3, FS_Subset

-----------------------------------------------------------------------------
(* One block is stored.                                                    *)

LEMMA StoredEntry ==
    ASSUME NEW d \in Entries, NEW m \in Messages, NEW k \in BlocksOf(m), CountFromFirst(d)
    PROVE  /\ Stored(d, m, k) \in Entries
           /\ Stored(d, m, k).is_processed = d.is_processed
           /\ Stored(d, m, k).nma_header = m.header
           /\ DOMAIN Stored(d, m, k).blocks = DOMAIN d.blocks \cup {k}
           /\ \A j \in DOMAIN d.blocks \cup {k} :
                Stored(d, m, k).blocks[j] = IF j = k THEN <<m, k>> ELSE d.blocks[j]
           /\ CountFromFirst(Stored(d, m, k))
<1> DEFINE f == [j \in DOMAIN d.blocks \cup {k} |-> IF j = k THEN <<m, k>> ELSE d.blocks[j]]
           s == Stored(d, m, k)
<1>1. k \in 0 .. 13
  BY BlockNumbers
<1>2. d.blocks \in BlockMaps /\ d.nb_blocks \in Int
  BY DEF Entries
<1>3. /\ DOMAIN d.blocks \subseteq 0 .. 13
      /\ d.blocks \in [DOMAIN d.blocks -> Blocks]
  BY <1>2, BlockMapFacts
<1>4. <<m, k>> \in Blocks
  BY <1>1 DEF Blocks
<1>5. f \in [DOMAIN d.blocks \cup {k} -> Blocks]
  BY <1>3, <1>4
<1>6. f \in BlockMaps
  BY <1>1, <1>3, <1>5 DEF BlockMaps
<1>7. m.header \in Headers
  BY DEF Headers
<1>8. NbBlocks(d, m, k) \in Int
  BY <1>2, TableTypes DEF NbBlocks
<1>9. s = [d EXCEPT !.nma_header = m.header, !.blocks = f, !.nb_blocks = NbBlocks(d, m, k)]
  BY DEF Stored, LatestHeader
<1> HIDE DEF s, f
<1>10. /\ s \in Entries /\ s.is_processed = d.is_processed /\ s.nma_header = m.header
       /\ s.blocks = f /\ s.nb_blocks = NbBlocks(d, m, k)
  BY <1>6, <1>7, <1>8, <1>9 DEF Entries
<1>11. /\ DOMAIN f = DOMAIN d.blocks \cup {k}
       /\ \A j \in DOMAIN d.blocks \cup {k} : f[j] = IF j = k THEN <<m, k>> ELSE d.blocks[j]
  BY DEF f
<1>12. CountFromFirst(s)
  <2>1. CASE k = 0
    BY <2>1, <1>10, <1>11 DEF CountFromFirst, NbBlocks
  <2>2. CASE k # 0
    BY <2>2, <1>10, <1>11 DEF CountFromFirst, NbBlocks
  <2> QED
    BY <2>1, <2>2
<1> QED
  BY <1>10, <1>11, <1>12 DEF s

-----------------------------------------------------------------------------
(* The blocks are joined.                                                  *)

LEMMA JoinedEntry ==
    ASSUME NEW d \in Entries, CountFromFirst(d)
    PROVE  /\ Joined(d) \in Entries
           /\ Joined(d).is_processed = d.is_processed
           /\ Joined(d).nma_header = d.nma_header
           /\ Joined(d).nb_blocks = d.nb_blocks
           /\ DOMAIN Joined(d).blocks = DOMAIN d.blocks \cup 0 .. (d.nb_blocks - 1)
           /\ \A j \in DOMAIN d.blocks : Joined(d).blocks[j] = d.blocks[j]
           /\ \A j \in 0 .. (d.nb_blocks - 1) :
                j \notin DOMAIN d.blocks => Joined(d).blocks[j] = Empty
           /\ CountFromFirst(Joined(d))
<1> DEFINE E == DOMAIN d.blocks \cup 0 .. (d.nb_blocks - 1)
           f == [j \in E |-> IF j \in DOMAIN d.blocks THEN d.blocks[j] ELSE Empty]
           s == Joined(d)
<1>1. d.blocks \in BlockMaps /\ d.nb_blocks \in Int
  BY DEF Entries
<1>2. /\ DOMAIN d.blocks \subseteq 0 .. 13
      /\ d.blocks \in [DOMAIN d.blocks -> Blocks]
  BY <1>1, BlockMapFacts
<1>3. d.nb_blocks \in {-1, 0} \cup 7 .. 14
  BY TableTypes DEF CountFromFirst
<1>4. E \subseteq 0 .. 13
  BY <1>2, <1>3
<1>5. Empty \in Blocks
  BY DEF Blocks
<1>6. f \in [E -> Blocks]
  BY <1>2, <1>5
<1>7. f \in BlockMaps
  BY <1>4, <1>6 DEF BlockMaps
<1>8. s = [d EXCEPT !.blocks = f]
  BY DEF Joined
<1>9. /\ DOMAIN f = E
      /\ \A j \in DOMAIN d.blocks : f[j] = d.blocks[j]
      /\ \A j \in 0 .. (d.nb_blocks - 1) : j \notin DOMAIN d.blocks => f[j] = Empty
  OBVIOUS
<1> HIDE DEF s, f
<1>10. /\ s \in Entries /\ s.is_processed = d.is_processed /\ s.nma_header = d.nma_header
       /\ s.blocks = f /\ s.nb_blocks = d.nb_blocks
  BY <1>7, <1>8 DEF Entries
<1>11. CountFromFirst(s)
  BY <1>9, <1>10 DEF CountFromFirst
<1> QED
  BY <1>9, <1>10, <1>11 DEF s

(* What is verified is whole: a signature verifies only over the blocks of *)
(* one message, all of them and no other.                                  *)
LEMMA VerifiedIsWhole ==
    ASSUME NEW d \in Entries, CountFromFirst(d), is_message_ready(d),
           SignatureVerifies(Joined(d))
    PROVE  /\ FirstBlockMessage(Joined(d)) \in Messages
           /\ Whole(Joined(d), FirstBlockMessage(Joined(d)))
<1> DEFINE j == Joined(d)
           n == d.nb_blocks
<1>1. /\ d.blocks \in BlockMaps /\ n \in Int
      /\ DOMAIN d.blocks \subseteq 0 .. 13
      /\ Cardinality(DOMAIN d.blocks) \in Nat
  BY BlockMapFacts DEF Entries
<1>2. n > 0 /\ Cardinality(DOMAIN d.blocks) = n
  BY <1>1 DEF is_message_ready
<1>3. PICK m \in Messages :
        0 \in DOMAIN d.blocks /\ d.blocks[0] = <<m, 0>> /\ n = NB_BLOCKS_TABLE(m.nb_index)
  BY <1>2 DEF CountFromFirst
<1>4. j.blocks[0] = <<m, 0>> /\ j.nb_blocks = n
  BY <1>3, JoinedEntry
<1>5. FirstBlockMessage(j) = m
  BY <1>4 DEF FirstBlockMessage
<1>6. j.nma_header = m.header /\ \A k \in 0 .. (n - 1) : j.blocks[k] = <<m, k>>
  BY <1>4, <1>5 DEF SignatureVerifies
<1>7. 0 .. (n - 1) \subseteq DOMAIN d.blocks
  <2> SUFFICES ASSUME NEW k \in 0 .. (n - 1), k \notin DOMAIN d.blocks PROVE FALSE
    OBVIOUS
  <2>1. j.blocks[k] = <<>>
    BY JoinedEntry DEF Empty
  <2> QED
    BY <2>1, <1>6
<1>8. DOMAIN d.blocks = 0 .. (n - 1)
  BY <1>1, <1>2, <1>7, FullOrGap
<1>9. DOMAIN j.blocks = BlocksOf(m)
  BY <1>3, <1>8, JoinedEntry DEF BlocksOf
<1>10. j.blocks \in [BlocksOf(m) -> Blocks]
  BY <1>9, JoinedEntry, BlockMapFacts DEF Entries
<1>11. j.blocks = [k \in BlocksOf(m) |-> <<m, k>>]
  BY <1>3, <1>6, <1>10 DEF BlocksOf
<1> QED
  BY <1>5, <1>6, <1>11 DEF Whole

-----------------------------------------------------------------------------
(* The steps.                                                              *)

LEMMA DsmInvInit == Init => DsmInv
<1> SUFFICES ASSUME Init PROVE DsmInv
  OBVIOUS
<1>1. [k \in {} |-> Empty] \in BlockMaps
  <2>1. [k \in {} |-> Empty] \in [{} -> Blocks] /\ {} \in SUBSET (0 .. 13)
    OBVIOUS
  <2> QED
    BY <2>1 DEF BlockMaps
<1>2. NoMessage \in Entries
  BY <1>1 DEF NoMessage, Entries, Headers
<1>3. CountFromFirst(NoMessage) /\ ~NoMessage.is_processed
  BY DEF CountFromFirst, NoMessage
<1>4. dsm \in [DsmIds -> Entries] /\ \A id \in DsmIds : dsm[id] = NoMessage
  BY <1>2 DEF Init
<1>5. 1 \in 1 .. Len(Schedule)
  BY DsmAssumption
<1> QED
  BY <1>3, <1>4, <1>5 DEF Init, DsmInv

(* The entry that process_dsm_kroot_block leaves behind.                   *)
LEMMA EntryKept ==
    ASSUME DsmInv, NEW id \in DsmIds, NEW d \in Entries, CountFromFirst(d),
           dsm' = [dsm EXCEPT ![id] = d],
           verified \subseteq verified', verified' \subseteq Messages,
           d.is_processed => \E m \in verified' : Whole(d, m),
           alive' \in BOOLEAN, UNCHANGED <<current, overlapped>>
    PROVE  DsmInv'
<1>1. dsm' \in [DsmIds -> Entries]
  BY DEF DsmInv
<1>2. ASSUME NEW e \in DsmIds
      PROVE  /\ CountFromFirst(dsm'[e])
             /\ dsm'[e].is_processed => \E m \in verified' : Whole(dsm'[e], m)
  <2>1. CASE e = id
    BY <2>1 DEF DsmInv
  <2>2. CASE e # id
    BY <2>2 DEF DsmInv
  <2> QED
    BY <2>1, <2>2
<1> QED
  BY <1>1, <1>2 DEF DsmInv, CountFromFirst, Whole

LEMMA OnAirAreMessages ==
    ASSUME DsmInv, NEW m \in OnAir
    PROVE  m \in Messages /\ m.dsm_id \in DsmIds
<1>1. Schedule[current] \in Messages /\ (overlapped => Schedule[current - 1] \in Messages)
  BY DsmAssumption DEF DsmInv, Messages
<1>2. m \in Messages
  BY <1>1 DEF OnAir
<1> QED
  BY <1>2 DEF DsmIds

LEMMA BlockReceivedKeeps ==
    ASSUME DsmInv, NEW m \in OnAir, NEW k \in BlocksOf(m), BlockReceived(m, k)
    PROVE  DsmInv'
<1> DEFINE id == m.dsm_id
           s == Stored(dsm[id], m, k)
           j == Joined(s)
<1>1. m \in Messages /\ id \in DsmIds
  BY OnAirAreMessages
<1>2. dsm[id] \in Entries /\ CountFromFirst(dsm[id])
  BY <1>1 DEF DsmInv
<1>3. s \in Entries /\ CountFromFirst(s) /\ s.is_processed = dsm[id].is_processed
  BY <1>1, <1>2, StoredEntry
<1>4. j \in Entries /\ CountFromFirst(j) /\ j.is_processed = s.is_processed
  BY <1>3, JoinedEntry
<1>5. UNCHANGED <<current, overlapped>> /\ process_dsm_kroot_block(m, k)
  BY DEF BlockReceived
<1>6. verified \subseteq Messages /\ alive \in BOOLEAN
  BY DEF DsmInv
<1>7. CASE AlreadyProcessed(dsm[id])
  BY <1>5, <1>7 DEF process_dsm_kroot_block, DsmInv, CountFromFirst, Whole
<1>8. CASE ~AlreadyProcessed(dsm[id])
  <2>1. ~s.is_processed /\ ~j.is_processed
    BY <1>3, <1>4, <1>8 DEF AlreadyProcessed
  <2>2. CASE dsm' = [dsm EXCEPT ![id] = s] /\ UNCHANGED <<alive, verified>>
    BY <2>1, <2>2, <1>1, <1>3, <1>5, <1>6, EntryKept
  <2>3. CASE dsm' = [dsm EXCEPT ![id] = j] /\ alive' \in BOOLEAN /\ UNCHANGED verified
    BY <2>1, <2>3, <1>1, <1>4, <1>5, <1>6, EntryKept
  <2>4. CASE /\ is_message_ready(s) /\ SignatureVerifies(j)
             /\ dsm' = [dsm EXCEPT ![id] = [j EXCEPT !.is_processed = TRUE]]
             /\ verified' = verified \cup {FirstBlockMessage(j)}
             /\ UNCHANGED alive
    <3> DEFINE w == [j EXCEPT !.is_processed = TRUE]
    <3>1. FirstBlockMessage(j) \in Messages /\ Whole(j, FirstBlockMessage(j))
      BY <1>3, <2>4, VerifiedIsWhole
    <3> HIDE DEF s, j
    <3>2. /\ w \in Entries /\ w.blocks = j.blocks /\ w.nma_header = j.nma_header
          /\ w.nb_blocks = j.nb_blocks
      BY <1>4 DEF Entries
    <3> HIDE DEF w
    <3>3. CountFromFirst(w) /\ Whole(w, FirstBlockMessage(j))
      BY <1>4, <3>1, <3>2 DEF CountFromFirst, Whole
    <3>4. dsm' = [dsm EXCEPT ![id] = w]
      BY <2>4 DEF w
    <3> QED
      BY <2>4, <3>1, <3>2, <3>3, <3>4, <1>1, <1>5, <1>6, EntryKept
  <2> HIDE DEF s, j
  <2> QED
    BY <1>5, <1>6, <1>8, <2>2, <2>3, <2>4 DEF process_dsm_kroot_block, s, j
<1> QED
  BY <1>7, <1>8

LEMMA DsmInvStep == DsmInv /\ [Next]_vars => DsmInv'
<1> SUFFICES ASSUME DsmInv, [Next]_vars PROVE DsmInv'
  OBVIOUS
<1>1. ASSUME NEW m \in OnAir, NEW k \in BlocksOf(m), BlockReceived(m, k) PROVE DsmInv'
  BY <1>1, BlockReceivedKeeps
<1>2. CASE UNCHANGED vars
  BY <1>2 DEF vars, DsmInv, CountFromFirst, Whole
<1>3. CASE NextMessage
  <2>1. Len(Schedule) \in Nat /\ Overlap \in BOOLEAN
    BY DsmAssumption
  <2>2. current' \in 1 .. Len(Schedule) /\ current' > 1
    BY <1>3, <2>1 DEF NextMessage, DsmInv
  <2>3. overlapped' \in BOOLEAN
    BY <1>3, <2>1, Zenon DEF NextMessage
  <2> QED
    BY <1>3, <2>2, <2>3 DEF NextMessage, DsmInv, CountFromFirst, Whole
<1>4. CASE OldMessageEnds
  BY <1>4 DEF OldMessageEnds, DsmInv, CountFromFirst, Whole
<1> QED
  BY <1>1, <1>2, <1>3, <1>4 DEF Next, SubframeIgnored

(* The message map keeps its types: no block is ever stored outside the    *)
(* fourteen numbers, and the number of blocks is known only with block 0.  *)
THEOREM TypeCorrect == Spec => []TypeOK
<1>1. DsmInv => TypeOK
  <2> SUFFICES ASSUME DsmInv, NEW id \in DsmIds
               PROVE  /\ DOMAIN dsm[id].blocks \subseteq 0 .. 13
                      /\ dsm[id].nb_blocks # 0 => 0 \in DOMAIN dsm[id].blocks
                      /\ dsm[id].is_processed \in BOOLEAN
    BY DEF DsmInv, TypeOK
  <2>1. dsm[id].blocks \in BlockMaps /\ dsm[id].is_processed \in BOOLEAN
    BY DEF DsmInv, Entries
  <2> QED
    BY <2>1, BlockMapFacts DEF DsmInv, CountFromFirst
<1> QED
  BY <1>1, DsmInvInit, DsmInvStep, PTL DEF Spec

(* Whatever messages share an identifier and however their blocks mix, a   *)
(* processed entry holds the header and exactly the blocks of one message  *)
(* that was verified.                                                      *)
THEOREM ProcessedAlwaysWhole == Spec => []ProcessedIsWhole
<1>1. DsmInv => ProcessedIsWhole
  BY DEF DsmInv, ProcessedIsWhole, Whole
<1> QED
  BY <1>1, DsmInvInit, DsmInvStep, PTL DEF Spec

-----------------------------------------------------------------------------
(* No exception.  The invariant says in addition that an entry only holds  *)
(* genuine blocks, which needs messages with one identifier to have the    *)
(* same number of blocks.                                                  *)

GenuineInv ==
    /\ DsmInv
    /\ \A id \in DsmIds : \A k \in DOMAIN dsm[id].blocks : BlockGenuine(id, dsm[id], k)
    /\ alive

(* In a well-formed schedule a message is complete without a gap, and then *)
(* long enough for every field the layout gives it.                        *)
LEMMA CompleteIsInRange ==
    ASSUME WellFormedSchedule, NEW id \in DsmIds, NEW d \in Entries, CountFromFirst(d),
           \A k \in DOMAIN d.blocks : BlockGenuine(id, d, k),
           is_message_ready(d)
    PROVE  /\ DOMAIN Joined(d).blocks = DOMAIN d.blocks
           /\ KeyUsable(Joined(d)) => ~OutOfRange(Joined(d))
<1> DEFINE j == Joined(d)
           n == d.nb_blocks
<1>1. /\ d.blocks \in BlockMaps /\ n \in Int
      /\ DOMAIN d.blocks \subseteq 0 .. 13
      /\ Cardinality(DOMAIN d.blocks) \in Nat
  BY BlockMapFacts DEF Entries
<1>2. n > 0 /\ Cardinality(DOMAIN d.blocks) = n
  BY <1>1 DEF is_message_ready
<1>3. PICK m \in Messages :
        0 \in DOMAIN d.blocks /\ d.blocks[0] = <<m, 0>> /\ n = NB_BLOCKS_TABLE(m.nb_index)
  BY <1>2 DEF CountFromFirst
<1>4. m.dsm_id = id
  BY <1>3 DEF BlockGenuine
<1>5. DOMAIN d.blocks \subseteq 0 .. (n - 1)
  <2> SUFFICES ASSUME NEW k \in DOMAIN d.blocks PROVE k \in 0 .. (n - 1)
    OBVIOUS
  <2>1. PICK e \in Messages : e.dsm_id = id /\ k \in BlocksOf(e)
    BY DEF BlockGenuine
  <2>2. e.nb_index = m.nb_index
    BY <1>4, <2>1 DEF WellFormedSchedule
  <2> QED
    BY <1>3, <2>1, <2>2 DEF BlocksOf
<1>6. IsFiniteSet(0 .. (n - 1)) /\ Cardinality(0 .. (n - 1)) = n
  BY <1>1, <1>2, InitialInterval
<1>7. DOMAIN d.blocks = 0 .. (n - 1)
  BY <1>2, <1>5, <1>6, FS_Subset
<1>8. DOMAIN j.blocks = DOMAIN d.blocks
  BY <1>7, JoinedEntry
<1>9. ASSUME KeyUsable(j) PROVE ~OutOfRange(j)
  <2>1. j.nb_blocks = n /\ j.blocks[0] = <<m, 0>>
    BY <1>3, JoinedEntry
  <2>2. FirstBlockMessage(j) = m
    BY <2>1 DEF FirstBlockMessage
  <2>3. ASSUME NEW k \in 0 .. (n - 1) PROVE j.blocks[k] # Empty
    <3>1. j.blocks[k] = d.blocks[k]
      BY <1>7, JoinedEntry
    <3>2. PICK e \in Messages : d.blocks[k] = <<e, k>>
      BY <1>7 DEF BlockGenuine
    <3> QED
      BY <3>1, <3>2 DEF Empty
  <2>4. {k \in 0 .. (j.nb_blocks - 1) : j.blocks[k] # Empty} = 0 .. (n - 1)
    BY <2>1, <2>3
  <2>5. JoinedLength(j) = BLOCK_LENGTH * n
    BY <1>6, <2>4 DEF JoinedLength
  <2> DEFINE l_ds == SignatureLength(PublicKeys[m.pkid])
             ks == KS_TABLE(m.ks_index)
  <2>6. /\ m.pkid \in DOMAIN PublicKeys
        /\ PublicKeys[m.pkid] \in {"ECDSA_SHA256", "ECDSA_SHA512"}
    BY <1>9, <2>2 DEF KeyUsable
  <2>7. l_ds \in Int /\ ks \in Int
    BY <2>6, TableTypes DEF SignatureLength
  <2>8. l_dk(ks, l_ds) <= BLOCK_LENGTH * n
    BY <1>3, <2>6 DEF WellFormedSchedule
  <2> HIDE DEF l_ds, ks
  <2>9. pad_offset(ks, l_ds) <= l_dk(ks, l_ds) /\ pad_offset(ks, l_ds) \in Int /\ l_dk(ks, l_ds) \in Int
    BY <2>7, PaddingFits DEF l_dk, BLOCK_LENGTH
  <2>10. ~(pad_offset(ks, l_ds) > JoinedLength(j))
    BY <2>5, <2>8, <2>9, <1>1 DEF BLOCK_LENGTH
  <2> QED
    BY <2>2, <2>10 DEF OutOfRange, l_ds, ks
<1> QED
  BY <1>8, <1>9

LEMMA GenuineKept ==
    ASSUME GenuineInv, NEW id \in DsmIds, NEW d, dsm' = [dsm EXCEPT ![id] = d],
           \A k \in DOMAIN d.blocks : BlockGenuine(id, d, k)
    PROVE  \A e \in DsmIds : \A k \in DOMAIN dsm'[e].blocks : BlockGenuine(e, dsm'[e], k)
<1> SUFFICES ASSUME NEW e \in DsmIds
             PROVE  \A k \in DOMAIN dsm'[e].blocks : BlockGenuine(e, dsm'[e], k)
  OBVIOUS
<1>1. CASE e = id
  BY <1>1 DEF GenuineInv, DsmInv
<1>2. CASE e # id
  BY <1>2 DEF GenuineInv, DsmInv
<1> QED
  BY <1>1, <1>2

LEMMA GenuineBlockReceived ==
    ASSUME WellFormedSchedule, GenuineInv, NEW m \in OnAir, NEW k \in BlocksOf(m),
           BlockReceived(m, k)
    PROVE  GenuineInv'
<1> DEFINE id == m.dsm_id
           s == Stored(dsm[id], m, k)
           j == Joined(s)
<1>1. DsmInv /\ DsmInv' /\ alive
  BY BlockReceivedKeeps DEF GenuineInv
<1>2. m \in Messages /\ id \in DsmIds
  BY <1>1, OnAirAreMessages
<1>3. dsm[id] \in Entries /\ CountFromFirst(dsm[id])
  BY <1>1, <1>2 DEF DsmInv
<1>4. /\ s \in Entries /\ CountFromFirst(s)
      /\ DOMAIN s.blocks = DOMAIN dsm[id].blocks \cup {k}
      /\ \A i \in DOMAIN dsm[id].blocks \cup {k} :
           s.blocks[i] = IF i = k THEN <<m, k>> ELSE dsm[id].blocks[i]
  BY <1>2, <1>3, StoredEntry
<1>5. \A i \in DOMAIN s.blocks : BlockGenuine(id, s, i)
  BY <1>2, <1>4 DEF GenuineInv, BlockGenuine
<1>6. /\ j \in Entries /\ \A i \in DOMAIN s.blocks : j.blocks[i] = s.blocks[i]
  BY <1>4, JoinedEntry
<1>7. ASSUME is_message_ready(s)
      PROVE  /\ \A i \in DOMAIN j.blocks : BlockGenuine(id, j, i)
             /\ KeyUsable(j) => ~OutOfRange(j)
  <2>1. DOMAIN j.blocks = DOMAIN s.blocks /\ (KeyUsable(j) => ~OutOfRange(j))
    BY <1>2, <1>4, <1>5, <1>7, CompleteIsInRange
  <2> QED
    BY <2>1, <1>5, <1>6 DEF BlockGenuine
<1>8. process_dsm_kroot_block(m, k)
  BY DEF BlockReceived
<1>9. CASE UNCHANGED <<dsm, alive, verified>>
  BY <1>1, <1>9 DEF GenuineInv, BlockGenuine
<1>10. CASE dsm' = [dsm EXCEPT ![id] = s] /\ UNCHANGED alive
  BY <1>1, <1>2, <1>5, <1>10, GenuineKept DEF GenuineInv
<1>11. CASE is_message_ready(s) /\ dsm' = [dsm EXCEPT ![id] = j] /\ UNCHANGED alive
  BY <1>1, <1>2, <1>7, <1>11, GenuineKept DEF GenuineInv
<1>12. CASE is_message_ready(s) /\ UNCHANGED alive
            /\ dsm' = [dsm EXCEPT ![id] = [j EXCEPT !.is_processed = TRUE]]
  <2> DEFINE w == [j EXCEPT !.is_processed = TRUE]
  <2> HIDE DEF s, j
  <2>1. w.blocks = j.blocks
    BY <1>6 DEF Entries
  <2>2. \A i \in DOMAIN w.blocks : BlockGenuine(id, w, i)
    BY <1>7, <1>12, <2>1 DEF BlockGenuine
  <2>3. dsm' = [dsm EXCEPT ![id] = w]
    BY <1>12
  <2> HIDE DEF w
  <2> QED
    BY <1>1, <1>2, <1>12, <2>2, <2>3, GenuineKept DEF GenuineInv
<1>13. CASE is_message_ready(s) /\ KeyUsable(j) /\ OutOfRange(j)
  BY <1>7, <1>13
<1> HIDE DEF s, j
<1> QED
  BY <1>8, <1>9, <1>10, <1>11, <1>12, <1>13 DEF process_dsm_kroot_block, s, j

LEMMA GenuineStep ==
    ASSUME WellFormedSchedule PROVE GenuineInv /\ [Next]_vars => GenuineInv'
<1> SUFFICES ASSUME GenuineInv, [Next]_vars PROVE GenuineInv'
  OBVIOUS
<1>1. DsmInv'
  BY DsmInvStep DEF GenuineInv
<1>2. ASSUME NEW m \in OnAir, NEW k \in BlocksOf(m), BlockReceived(m, k) PROVE GenuineInv'
  BY <1>2, GenuineBlockReceived
<1>3. CASE UNCHANGED <<dsm, alive>>
  BY <1>1, <1>3 DEF GenuineInv, BlockGenuine
<1> QED
  BY <1>2, <1>3 DEF Next, SubframeIgnored, NextMessage, OldMessageEnds, vars

(* With messages that fit their blocks, and identifiers that keep their    *)
(* number of blocks, the worker never throws: every message that counts as *)
(* complete has all the blocks that are joined.                            *)
THEOREM WorkerNeverThrows == WellFormedSchedule => (Spec => []NeverThrows)
<1> SUFFICES ASSUME WellFormedSchedule PROVE Spec => []NeverThrows
  OBVIOUS
<1>1. Init => GenuineInv
  <2> SUFFICES ASSUME Init PROVE GenuineInv
    OBVIOUS
  <2>1. \A id \in DsmIds : DOMAIN dsm[id].blocks = {}
    BY DEF Init, NoMessage
  <2> QED
    BY <2>1, DsmInvInit DEF Init, GenuineInv
<1>2. GenuineInv /\ [Next]_vars => GenuineInv'
  BY GenuineStep
<1>3. GenuineInv => NeverThrows
  BY DEF GenuineInv, NeverThrows
<1> QED
  BY <1>1, <1>2, <1>3, PTL DEF Spec
=============================================================================
