------------------------- MODULE MempoolCacheProofs -------------------------
(***************************************************************************)
(* Proofs about the two pending caches of the mempool actor: the chunks    *)
(* parked for an unknown data root and the pledges parked for an unstaked  *)
(* signer.  Each invariant is proved from the type invariant of            *)
(* MempoolProofs.                                                          *)
(***************************************************************************)
EXTENDS MempoolProofs

USE ConstantsAssumption

(* The signer has a pending stake among the commitments S.                 *)
HasStake(S) == \E c \in S : TxCommitmentType[c] = "Stake"

-----------------------------------------------------------------------------
(* Parking touches no other key than the one it parks under *)

(* Parking a chunk leaves every other root's parked chunks alone, or      *)
(* empties them when the LRU evicts that root.                             *)
LEMMA ParkChunkOthers ==
    ASSUME TypeOK, NEW c \in Chunks, ParkChunk(c)
    PROVE  \A x \in DataRoots \ {c.root} :
               pending_chunks'[x] = pending_chunks[x] \/ pending_chunks'[x] = <<>>
<1>1. CASE pending_chunks[c.root] # <<>>
  BY <1>1 DEF ParkChunk, TypeOK
<1>2. CASE pending_chunks[c.root] = <<>>
  BY <1>2 DEF ParkChunk
<1>3. QED
  BY <1>1, <1>2

(* Parking a pledge leaves every other signer's parked pledges alone, or  *)
(* empties them when the LRU evicts that signer.                           *)
LEMMA ParkPledgeOthers ==
    ASSUME TypeOK, NEW ct \in CommitmentTxs, ParkPledge(ct)
    PROVE  \A x \in Signers \ {TxSigner[ct]} :
               pending_pledges'[x] = pending_pledges[x] \/ pending_pledges'[x] = <<>>
<1>1. CASE pending_pledges[TxSigner[ct]] # <<>>
  BY <1>1 DEF ParkPledge, TypeOK
<1>2. CASE pending_pledges[TxSigner[ct]] = <<>>
  BY <1>2 DEF ParkPledge
<1>3. QED
  BY <1>1, <1>2

(* get_commitment_status answers Unstaked only when the signer has no     *)
(* pending stake.                                                          *)
LEMMA UnstakedHasNoStake ==
    ASSUME NEW ct \in CommitmentTxs, NEW resp,
           CommitmentStatus(ct, resp) = "Unstaked"
    PROVE  ~HasStake(valid_commitment_tx[TxSigner[ct]])
BY DEF CommitmentStatus, HasStake

-----------------------------------------------------------------------------
(* No pledge stranded behind a pending stake *)

(* The commitment handler keeps NoStrandedPledge: it parks a pledge only  *)
(* for a signer without a pending stake, and the signer whose commitment  *)
(* it accepts has its parked pledges popped in the same step.             *)
LEMMA HandleCommitmentPledges ==
    ASSUME TypeOK, NoStrandedPledge, NEW ct \in CommitmentTxs, NEW rest,
           NEW replaying, HandleCommitment(ct, rest, replaying)
    PROVE  NoStrandedPledge'
<1> DEFINE sgn == TxSigner[ct]
<1>1. sgn \in Signers
  BY DEF TxIds
<1>2. CASE UNCHANGED <<valid_commitment_tx, pending_pledges>>
  BY <1>2 DEF NoStrandedPledge
<1>3. CASE /\ valid_commitment_tx' = [valid_commitment_tx EXCEPT ![sgn] = @ \cup {ct}]
           /\ pending_pledges' = [pending_pledges EXCEPT ![sgn] = <<>>]
  <2> SUFFICES ASSUME NEW x \in Signers, pending_pledges'[x] # <<>>
               PROVE  ~HasStake(valid_commitment_tx'[x])
    BY DEF NoStrandedPledge, HasStake
  <2>1. x # sgn
    BY <1>1, <1>3 DEF TypeOK
  <2>2. pending_pledges'[x] = pending_pledges[x]
        /\ valid_commitment_tx'[x] = valid_commitment_tx[x]
    BY <1>3, <2>1 DEF TypeOK
  <2>3. QED
    BY <2>2 DEF NoStrandedPledge, HasStake
<1>4. CASE /\ \E resp \in CacheResponses : CommitmentStatus(ct, resp) = "Unstaked"
           /\ ParkPledge(ct)
           /\ UNCHANGED valid_commitment_tx
  <2> SUFFICES ASSUME NEW x \in Signers, pending_pledges'[x] # <<>>
               PROVE  ~HasStake(valid_commitment_tx'[x])
    BY DEF NoStrandedPledge, HasStake
  <2>1. CASE x = sgn
    BY <1>4, <2>1, UnstakedHasNoStake
  <2>2. CASE x # sgn
    <3>1. pending_pledges'[x] = pending_pledges[x]
      BY <1>4, <2>2, ParkPledgeOthers
    <3>2. QED
      BY <1>4, <3>1 DEF NoStrandedPledge, HasStake
  <2>3. QED
    BY <2>1, <2>2
<1>5. QED
  <2>1. \/ UNCHANGED <<valid_commitment_tx, pending_pledges>>
        \/ /\ valid_commitment_tx' = [valid_commitment_tx EXCEPT ![sgn] = @ \cup {ct}]
           /\ pending_pledges' = [pending_pledges EXCEPT ![sgn] = <<>>]
        \/ /\ \E resp \in CacheResponses : CommitmentStatus(ct, resp) = "Unstaked"
           /\ ParkPledge(ct)
           /\ UNCHANGED valid_commitment_tx
    BY DEF HandleCommitment, mem_vars, cache_vars
  <2>2. QED
    BY <1>2, <1>3, <1>4, <2>1

(* Every step keeps NoStrandedPledge.                                      *)
LEMMA NextPledges == TypeOK /\ NoStrandedPledge /\ [Next]_vars => NoStrandedPledge'
<1> SUFFICES ASSUME TypeOK, NoStrandedPledge, [Next]_vars
             PROVE  NoStrandedPledge'
  OBVIOUS
<1>1. CASE \E ct \in CommitmentTxs : CommitmentIngress(ct)
  BY <1>1, HandleCommitmentPledges DEF CommitmentIngress
<1>2. CASE ReplayPledge
  <2>1. Head(work).tx \in CommitmentTxs
    BY <1>2, WorkHeadType DEF ReplayPledge, TypeOK
  <2>2. QED
    BY <1>2, <2>1, HandleCommitmentPledges DEF ReplayPledge
<1>3. CASE \E sub \in BlockContents(DataTxs), com \in BlockContents(CommitmentTxs),
             pub \in BlockContents(confirmed \cap DataTxs) :
             BlockConfirmed(sub, com, pub)
  BY <1>3 DEF BlockConfirmed, NoStrandedPledge, cache_vars
<1>4. CASE \/ \E t \in DataTxs : TxIngress(t)
           \/ \E c \in Chunks : ChunkIngress(c)
           \/ ReplayChunk
           \/ PersistCommitment
           \/ \E task \in proof_tasks : ProofTaskRun(task)
           \/ \E w \in expiry_writes : ExpiryRecordWrite(w)
           \/ AdvanceTip
           \/ MailboxClosed
           \/ UNCHANGED vars
  <2>1. UNCHANGED <<valid_commitment_tx, pending_pledges>>
    BY <1>4 DEF TxIngress, ChunkIngress, ReplayChunk, HandleChunk,
                PersistCommitment, ProofTaskRun, ExpiryRecordWrite, AdvanceTip,
                MailboxClosed, vars, mem_vars, cache_vars
  <2>2. QED
    BY <2>1 DEF NoStrandedPledge
<1>5. QED
  BY <1>1, <1>2, <1>3, <1>4 DEF Next

(***************************************************************************)
(* No pledge stays parked while its signer has a pending stake, in every   *)
(* instance: the commitment handler parks a pledge only when                *)
(* get_commitment_status finds no pending stake of its signer, and         *)
(* accepting any commitment of a signer pops that signer's parked pledges  *)
(* for replay in the same handler call, whatever the eviction and          *)
(* confirmation steps between.                                             *)
(***************************************************************************)
THEOREM NoStrandedPledgeHolds == Spec => []NoStrandedPledge
<1>1. Init => NoStrandedPledge
  BY DEF Init, NoStrandedPledge
<1>2. QED
  BY <1>1, NextPledges, TypeCorrect, PTL DEF Spec

-----------------------------------------------------------------------------
(* No chunk parked for a root whose size is known *)

(* The tx handler keeps PendingChunksUnresolved: the one root whose size  *)
(* it may record is the root whose parked chunks it pops.                  *)
LEMMA TxIngressChunks ==
    ASSUME TypeOK, PendingChunksUnresolved, NEW t \in DataTxs, TxIngress(t)
    PROVE  PendingChunksUnresolved'
<1> DEFINE r == TxDataRoot[t]
<1>1. r \in DataRoots
  OBVIOUS
<1>2. CASE UNCHANGED <<pending_chunks, db_data_roots>>
  BY <1>2 DEF PendingChunksUnresolved, DataSizeOf
<1>3. CASE /\ db_data_roots' \in {db_data_roots, CacheDataRoot(t)}
           /\ pending_chunks' = [pending_chunks EXCEPT ![r] = <<>>]
  <2> SUFFICES ASSUME NEW x \in DataRoots, pending_chunks'[x] # <<>>
               PROVE  DataSizeOf(x)' = None
    BY DEF PendingChunksUnresolved
  <2>1. x # r
    BY <1>1, <1>3 DEF TypeOK
  <2>2. pending_chunks'[x] = pending_chunks[x] /\ db_data_roots'[x] = db_data_roots[x]
    BY <1>3, <2>1 DEF TypeOK, CacheDataRoot
  <2>3. QED
    BY <2>2 DEF PendingChunksUnresolved, DataSizeOf
<1>4. QED
  BY <1>2, <1>3 DEF TxIngress, PopPendingChunks

(* The chunk handler keeps PendingChunksUnresolved: it parks a chunk only *)
(* when no size is known for its root, and records no size.                *)
LEMMA HandleChunkChunks ==
    ASSUME TypeOK, PendingChunksUnresolved, NEW c \in Chunks, NEW rest,
           NEW replaying, HandleChunk(c, rest, replaying)
    PROVE  PendingChunksUnresolved'
<1>1. UNCHANGED db_data_roots
  BY DEF HandleChunk
<1>2. CASE UNCHANGED pending_chunks
  BY <1>1, <1>2 DEF PendingChunksUnresolved, DataSizeOf
<1>3. CASE DataSizeOf(c.root) = None /\ ParkChunk(c)
  <2> SUFFICES ASSUME NEW x \in DataRoots, pending_chunks'[x] # <<>>
               PROVE  DataSizeOf(x)' = None
    BY DEF PendingChunksUnresolved
  <2>1. CASE x = c.root
    BY <1>1, <1>3, <2>1 DEF DataSizeOf
  <2>2. CASE x # c.root
    <3>1. pending_chunks'[x] = pending_chunks[x]
      BY <1>3, <2>2, ParkChunkOthers
    <3>2. QED
      BY <1>1, <3>1 DEF PendingChunksUnresolved, DataSizeOf
  <2>3. QED
    BY <2>1, <2>2
<1>4. QED
  BY <1>2, <1>3 DEF HandleChunk

(* Every step keeps PendingChunksUnresolved.                               *)
LEMMA NextChunks ==
    TypeOK /\ PendingChunksUnresolved /\ [Next]_vars => PendingChunksUnresolved'
<1> SUFFICES ASSUME TypeOK, PendingChunksUnresolved, [Next]_vars
             PROVE  PendingChunksUnresolved'
  OBVIOUS
<1>1. CASE \E t \in DataTxs : TxIngress(t)
  BY <1>1, TxIngressChunks
<1>2. CASE \E c \in Chunks : ChunkIngress(c)
  BY <1>2, HandleChunkChunks DEF ChunkIngress
<1>3. CASE ReplayChunk
  <2>1. Head(work).chunk \in Chunks
    BY <1>3, WorkHeadType DEF ReplayChunk, TypeOK
  <2>2. QED
    BY <1>3, <2>1, HandleChunkChunks DEF ReplayChunk
<1>4. CASE \/ \E ct \in CommitmentTxs : CommitmentIngress(ct)
           \/ ReplayPledge
           \/ PersistCommitment
           \/ \E sub \in BlockContents(DataTxs), com \in BlockContents(CommitmentTxs),
                 pub \in BlockContents(confirmed \cap DataTxs) :
                 BlockConfirmed(sub, com, pub)
           \/ \E task \in proof_tasks : ProofTaskRun(task)
           \/ \E w \in expiry_writes : ExpiryRecordWrite(w)
           \/ AdvanceTip
           \/ MailboxClosed
           \/ UNCHANGED vars
  <2>1. UNCHANGED <<pending_chunks, db_data_roots>>
    BY <1>4 DEF CommitmentIngress, ReplayPledge, HandleCommitment,
                PersistCommitment, BlockConfirmed, ProofTaskRun,
                ExpiryRecordWrite, AdvanceTip, MailboxClosed, vars,
                cache_vars, db_vars
  <2>2. QED
    BY <2>1 DEF PendingChunksUnresolved, DataSizeOf
<1>5. QED
  BY <1>1, <1>2, <1>3, <1>4 DEF Next

(***************************************************************************)
(* In every instance, a chunk stays parked only while no data size is      *)
(* known for its root: the chunk handler parks only when neither           *)
(* CachedDataRoots nor the storage modules know the root, and the tx       *)
(* handler that writes the root's size pops the root's parked chunks for   *)
(* replay in the same step, whether or not the write succeeds.             *)
(***************************************************************************)
THEOREM PendingChunksUnresolvedHolds == Spec => []PendingChunksUnresolved
<1>1. Init => PendingChunksUnresolved
  BY DEF Init, PendingChunksUnresolved
<1>2. QED
  BY <1>1, NextChunks, TypeCorrect, PTL DEF Spec
=============================================================================
