--------------------------- MODULE MempoolProofs ---------------------------
(***************************************************************************)
(* Proofs about the mempool actor of module Mempool.                       *)
(***************************************************************************)
EXTENDS Mempool, SequenceTheorems, TLAPS

USE ConstantsAssumption

-----------------------------------------------------------------------------
(* Lemmas about the LRU cache operators *)

(* Dropping the element at a valid index of a sequence leaves a sequence   *)
(* over the same set.                                                      *)
LEMMA DropAtType ==
    ASSUME NEW T, NEW s \in Seq(T), NEW i \in 1..Len(s)
    PROVE  DropAt(s, i) \in Seq(T)
BY SubSeqProperties, ConcatProperties DEF DropAt

(* Removing the entry with a given key (LruCache::pop) leaves a sequence   *)
(* over the same set, whatever the key.                                    *)
LEMMA RemoveKeyType ==
    ASSUME NEW T, NEW s \in Seq(T), NEW k, NEW by
    PROVE  RemoveKey(s, k, by) \in Seq(T)
<1>1. CASE \E i \in 1..Len(s) : LruKey(s[i], by) = k
  <2>1. (CHOOSE i \in 1..Len(s) : LruKey(s[i], by) = k) \in 1..Len(s)
    BY <1>1
  <2>2. QED
    BY <1>1, <2>1, DropAtType DEF RemoveKey
<1>2. CASE ~\E i \in 1..Len(s) : LruKey(s[i], by) = k
  BY <1>2 DEF RemoveKey
<1>3. QED
  BY <1>1, <1>2

(* LruCache::put of an element of T leaves a sequence over T.              *)
LEMMA LruPutType ==
    ASSUME NEW T, NEW s \in Seq(T), NEW x \in T, NEW cap \in Nat \ {0},
           NEW by
    PROVE  LruPut(s, x, cap, by) \in Seq(T)
<1>1. RemoveKey(s, LruKey(x, by), by) \in Seq(T)
  BY RemoveKeyType
<1>2. Len(s) >= cap => Tail(s) \in Seq(T)
  BY HeadTailProperties, EmptySeq
<1>3. QED
  BY <1>1, <1>2, AppendProperties DEF LruPut

(* Draining a popped cache of parked chunks or pledges gives well-typed   *)
(* replay items.                                                           *)
LEMMA DrainChunksType ==
    ASSUME NEW s \in Seq(Chunks)
    PROVE  Drain(s, "chunk") \in Seq(WorkItems)
BY DEF Drain, WorkItem, WorkItems

LEMMA DrainPledgesType ==
    ASSUME NEW s \in Seq(CommitmentTxs)
    PROVE  Drain(s, "pledge") \in Seq(WorkItems)
BY DEF Drain, WorkItem, WorkItems

-----------------------------------------------------------------------------
(* Type correctness *)

(* The data size the chunk handler resolves is a size or None.            *)
LEMMA DataSizeOfType ==
    ASSUME TypeOK, NEW r \in DataRoots
    PROVE  DataSizeOf(r) \in Nat \cup {None}
BY DEF TypeOK, DataSizeOf

(* The chunk handler, called with a chunk and a well-typed rest of the    *)
(* work queue, keeps the variables in their types.                        *)
LEMMA HandleChunkType ==
    ASSUME TypeOK, NEW c \in Chunks, NEW rest \in Seq(WorkItems),
           NEW replaying \in BOOLEAN, HandleChunk(c, rest, replaying)
    PROVE  TypeOK'
<1> DEFINE r == c.root
           ds == DataSizeOf(r)
<1>1. r \in DataRoots /\ c.offset \in Nat
  OBVIOUS
<1>2. ds \in Nat \cup {None}
  BY <1>1, DataSizeOfType
<1>3. /\ work' = rest
      /\ UNCHANGED <<mem_vars, pending_pledges, pending_pledges_lru, tip_height,
                     db_tx_headers, db_data_roots, db_commitments,
                     db_ingress_proofs, db_data_root_lru, db_promoted, confirmed,
                     expiry_writes>>
  BY DEF HandleChunk
<1>4. CASE /\ ds = None
           /\ ParkChunk(c)
           /\ UNCHANGED <<halted, db_chunks, proof_tasks, proof_dispatches>>
  <2>1. pending_chunks_lru' \in Seq(DataRoots)
    BY <1>4, <1>1, LruPutType DEF ParkChunk, TypeOK
  <2>2. pending_chunks' \in [DataRoots -> Seq(Chunks)]
    <3>1. CASE pending_chunks[r] # <<>>
      <4>1. LruPut(pending_chunks[r], c, MaxChunksPerItem, "offset") \in Seq(Chunks)
        BY <1>1, LruPutType DEF TypeOK
      <4>2. pending_chunks' = [pending_chunks EXCEPT
                  ![r] = LruPut(pending_chunks[r], c, MaxChunksPerItem, "offset")]
        BY <1>4, <3>1 DEF ParkChunk
      <4>3. QED
        BY <4>1, <4>2 DEF TypeOK
    <3>2. CASE pending_chunks[r] = <<>>
      <4>1. <<c>> \in Seq(Chunks)
        OBVIOUS
      <4>2. QED
        BY <1>4, <3>2, <4>1 DEF ParkChunk, TypeOK
    <3>3. QED
      BY <3>1, <3>2
  <2>3. QED
    BY <1>3, <1>4, <2>1, <2>2 DEF TypeOK, mem_vars
<1>5. CASE /\ ds # None
           /\ ChunkUnderflows(c, ds)
           /\ halted' = TRUE
           /\ UNCHANGED <<pending_chunks, pending_chunks_lru, db_chunks,
                          proof_tasks, proof_dispatches>>
  BY <1>3, <1>5 DEF TypeOK, mem_vars
<1>6. CASE /\ ds # None
           /\ ~ChunkUnderflows(c, ds)
           /\ ChunkRejected(c, ds)
           /\ halted' = replaying
           /\ UNCHANGED <<pending_chunks, pending_chunks_lru, db_chunks,
                          proof_tasks, proof_dispatches>>
  BY <1>3, <1>6 DEF TypeOK, mem_vars
<1>7. CASE /\ ds # None
           /\ ~ChunkUnderflows(c, ds)
           /\ ~ChunkRejected(c, ds)
           /\ StoreChunk(c, ds)
           /\ UNCHANGED <<halted, pending_chunks, pending_chunks_lru>>
  <2>1. ds \in Nat
    BY <1>2, <1>7
  <2>2. db_chunks' \in [DataRoots -> SUBSET Nat]
    BY <1>1, <1>7 DEF StoreChunk, CacheChunk, TypeOK
  <2>3. [root |-> r, size |-> ds, height |-> tip_height] \in ProofTasks
    BY <1>1, <2>1 DEF ProofTasks, TypeOK
  <2>4. proof_tasks' \subseteq ProofTasks
    BY <1>7, <2>3 DEF StoreChunk, TypeOK
  <2>5. proof_dispatches' \in [DataRoots -> 0..2]
    <3>1. proof_dispatches' = proof_dispatches \/
          proof_dispatches' = [proof_dispatches EXCEPT
                                  ![r] = IF @ < 2 THEN @ + 1 ELSE 2]
      BY <1>7 DEF StoreChunk
    <3>2. proof_dispatches \in [DataRoots -> 0..2]
      BY DEF TypeOK
    <3>3. CASE proof_dispatches' = proof_dispatches
      BY <3>2, <3>3
    <3>4. CASE proof_dispatches' = [proof_dispatches EXCEPT
                                       ![r] = IF @ < 2 THEN @ + 1 ELSE 2]
      <4>1. \A x \in 0..2 : (IF x < 2 THEN x + 1 ELSE 2) \in 0..2
        OBVIOUS
      <4>2. QED
        BY <1>1, <3>2, <3>4, <4>1
    <3>5. QED
      BY <3>1, <3>3, <3>4
  <2>6. QED
    BY <1>3, <1>7, <2>2, <2>4, <2>5 DEF TypeOK, mem_vars
<1>8. QED
  BY <1>4, <1>5, <1>6, <1>7 DEF HandleChunk

(* Parking a pledge keeps the pending-pledge caches in their types.       *)
LEMMA ParkPledgeType ==
    ASSUME TypeOK, NEW ct \in CommitmentTxs, ParkPledge(ct)
    PROVE  /\ pending_pledges' \in [Signers -> Seq(CommitmentTxs)]
           /\ pending_pledges_lru' \in Seq(Signers)
<1> DEFINE s == TxSigner[ct]
<1>1. s \in Signers
  BY DEF TxIds
<1>2. pending_pledges_lru' \in Seq(Signers)
  BY <1>1, LruPutType DEF ParkPledge, TypeOK
<1>3. CASE pending_pledges[s] # <<>>
  <2>1. LruPut(pending_pledges[s], ct, MaxPendingPledgeItems, "id") \in Seq(CommitmentTxs)
    BY <1>1, LruPutType DEF TypeOK
  <2>2. pending_pledges' = [pending_pledges EXCEPT
            ![s] = LruPut(pending_pledges[s], ct, MaxPendingPledgeItems, "id")]
    BY <1>3 DEF ParkPledge
  <2>3. QED
    BY <1>1, <1>2, <2>1, <2>2 DEF TypeOK
<1>4. CASE pending_pledges[s] = <<>>
  <2>1. <<ct>> \in Seq(CommitmentTxs)
    OBVIOUS
  <2>2. \E ev : pending_pledges' = [x \in Signers |->
            IF x = s THEN <<ct>> ELSE IF x \in ev THEN <<>> ELSE pending_pledges[x]]
    BY <1>4 DEF ParkPledge
  <2>3. QED
    BY <1>1, <1>2, <2>1, <2>2 DEF TypeOK
<1>5. QED
  BY <1>2, <1>3, <1>4

(* The commitment handler, called with a commitment and a well-typed rest *)
(* of the work queue, keeps the variables in their types.                 *)
LEMMA HandleCommitmentType ==
    ASSUME TypeOK, NEW ct \in CommitmentTxs, NEW rest \in Seq(WorkItems),
           NEW replaying \in BOOLEAN, HandleCommitment(ct, rest, replaying)
    PROVE  TypeOK'
<1> DEFINE s == TxSigner[ct]
           Fail == /\ halted' = replaying
                   /\ work' = rest
<1>1. s \in Signers /\ ct \in TxIds
  BY DEF TxIds
<1>2. UNCHANGED <<valid_tx, tip_height, db_vars, task_vars, confirmed>>
  BY DEF HandleCommitment
<1>3. CASE /\ ct \in invalid_tx \/ ct \in valid_commitment_tx[s]
           /\ Fail
           /\ UNCHANGED <<mem_vars, cache_vars>>
  BY <1>2, <1>3 DEF TypeOK, mem_vars, cache_vars, db_vars, task_vars
<1>4. CASE /\ ct \notin invalid_tx /\ ct \notin valid_commitment_tx[s]
           /\ AnchorHeight(TxAnchor[ct]) = None
           /\ invalid_tx' = invalid_tx \cup {ct}
           /\ Fail
           /\ UNCHANGED <<valid_tx, valid_commitment_tx, recent_valid_tx, cache_vars>>
  BY <1>1, <1>2, <1>4 DEF TypeOK, cache_vars, db_vars, task_vars
<1>5. CASE /\ ct \notin invalid_tx /\ ct \notin valid_commitment_tx[s]
           /\ AnchorHeight(TxAnchor[ct]) # None
           /\ \E resp \in CacheResponses :
                LET status == CommitmentStatus(ct, resp) IN
                \/ /\ status = "Accepted"
                   /\ ~TxSigValid[ct]
                   /\ invalid_tx' = invalid_tx \cup {ct}
                   /\ Fail
                   /\ UNCHANGED <<valid_tx, valid_commitment_tx, recent_valid_tx,
                                  cache_vars>>
                \/ /\ status = "Accepted"
                   /\ TxSigValid[ct]
                   /\ valid_commitment_tx' = [valid_commitment_tx EXCEPT
                                                 ![s] = @ \cup {ct}]
                   /\ recent_valid_tx' = recent_valid_tx \cup {ct}
                   /\ pending_pledges' = [pending_pledges EXCEPT ![s] = <<>>]
                   /\ pending_pledges_lru' = RemoveKey(pending_pledges_lru, s, "id")
                   /\ work' = Drain(pending_pledges[s], "pledge")
                              \o <<[kind |-> "persist", tx |-> ct]>> \o rest
                   /\ UNCHANGED <<valid_tx, invalid_tx, halted, pending_chunks,
                                  pending_chunks_lru>>
                \/ /\ status = "Unstaked"
                   /\ ParkPledge(ct)
                   /\ work' = rest
                   /\ UNCHANGED <<mem_vars, halted, pending_chunks, pending_chunks_lru>>
                \/ /\ status = "Unsupported"
                   /\ Fail
                   /\ UNCHANGED <<mem_vars, cache_vars>>
  <2>1. PICK resp \in CacheResponses :
                LET status == CommitmentStatus(ct, resp) IN
                \/ /\ status = "Accepted"
                   /\ ~TxSigValid[ct]
                   /\ invalid_tx' = invalid_tx \cup {ct}
                   /\ Fail
                   /\ UNCHANGED <<valid_tx, valid_commitment_tx, recent_valid_tx,
                                  cache_vars>>
                \/ /\ status = "Accepted"
                   /\ TxSigValid[ct]
                   /\ valid_commitment_tx' = [valid_commitment_tx EXCEPT
                                                 ![s] = @ \cup {ct}]
                   /\ recent_valid_tx' = recent_valid_tx \cup {ct}
                   /\ pending_pledges' = [pending_pledges EXCEPT ![s] = <<>>]
                   /\ pending_pledges_lru' = RemoveKey(pending_pledges_lru, s, "id")
                   /\ work' = Drain(pending_pledges[s], "pledge")
                              \o <<[kind |-> "persist", tx |-> ct]>> \o rest
                   /\ UNCHANGED <<valid_tx, invalid_tx, halted, pending_chunks,
                                  pending_chunks_lru>>
                \/ /\ status = "Unstaked"
                   /\ ParkPledge(ct)
                   /\ work' = rest
                   /\ UNCHANGED <<mem_vars, halted, pending_chunks, pending_chunks_lru>>
                \/ /\ status = "Unsupported"
                   /\ Fail
                   /\ UNCHANGED <<mem_vars, cache_vars>>
    BY <1>5
  <2> DEFINE status == CommitmentStatus(ct, resp)
  <2>2. CASE status = "Accepted" /\ ~TxSigValid[ct]
    <3>1. /\ invalid_tx' = invalid_tx \cup {ct}
          /\ Fail
          /\ UNCHANGED <<valid_tx, valid_commitment_tx, recent_valid_tx, cache_vars>>
      BY <2>1, <2>2
    <3>2. QED
      BY <1>1, <1>2, <3>1 DEF TypeOK, cache_vars, db_vars, task_vars
  <2>3. CASE status = "Accepted" /\ TxSigValid[ct]
    <3>1. /\ valid_commitment_tx' = [valid_commitment_tx EXCEPT ![s] = @ \cup {ct}]
          /\ recent_valid_tx' = recent_valid_tx \cup {ct}
          /\ pending_pledges' = [pending_pledges EXCEPT ![s] = <<>>]
          /\ pending_pledges_lru' = RemoveKey(pending_pledges_lru, s, "id")
          /\ work' = Drain(pending_pledges[s], "pledge")
                     \o <<[kind |-> "persist", tx |-> ct]>> \o rest
          /\ UNCHANGED <<valid_tx, invalid_tx, halted, pending_chunks,
                         pending_chunks_lru>>
      BY <2>1, <2>3
    <3>2. pending_pledges_lru' \in Seq(Signers)
      BY <3>1, RemoveKeyType DEF TypeOK
    <3>3. Drain(pending_pledges[s], "pledge") \in Seq(WorkItems)
      BY <1>1, DrainPledgesType DEF TypeOK
    <3>4. <<[kind |-> "persist", tx |-> ct]>> \in Seq(WorkItems)
      BY DEF WorkItems
    <3>5. work' \in Seq(WorkItems)
      BY <3>1, <3>3, <3>4, ConcatProperties
    <3>6. valid_commitment_tx' \in [Signers -> SUBSET CommitmentTxs]
      BY <1>1, <3>1 DEF TypeOK
    <3>7. pending_pledges' \in [Signers -> Seq(CommitmentTxs)]
      BY <1>1, <3>1 DEF TypeOK
    <3>8. recent_valid_tx' \subseteq TxIds
      BY <1>1, <3>1 DEF TypeOK
    <3>9. QED
      BY <1>2, <3>1, <3>2, <3>5, <3>6, <3>7, <3>8 DEF TypeOK, db_vars, task_vars
  <2>4. CASE status = "Unstaked"
    <3>1. /\ ParkPledge(ct)
          /\ work' = rest
          /\ UNCHANGED <<mem_vars, halted, pending_chunks, pending_chunks_lru>>
      BY <2>1, <2>4
    <3>2. QED
      BY <1>2, <3>1, ParkPledgeType DEF TypeOK, mem_vars, db_vars, task_vars
  <2>5. CASE status = "Unsupported"
    <3>1. Fail /\ UNCHANGED <<mem_vars, cache_vars>>
      BY <2>1, <2>5
    <3>2. QED
      BY <1>2, <3>1 DEF TypeOK, mem_vars, cache_vars, db_vars, task_vars
  <2>6. QED
    BY <2>1, <2>2, <2>3, <2>4, <2>5
<1>6. QED
  BY <1>3, <1>4, <1>5 DEF HandleCommitment

(* The tx handler keeps the variables in their types.                     *)
LEMMA TxIngressType ==
    ASSUME TypeOK, NEW t \in DataTxs, TxIngress(t)
    PROVE  TypeOK'
<1> DEFINE r == TxDataRoot[t]
<1>1. r \in DataRoots /\ t \in TxIds
  BY DEF TxIds
<1>2. UNCHANGED <<valid_commitment_tx, halted, tip_height, pending_pledges,
                  pending_pledges_lru, db_commitments, db_chunks,
                  db_ingress_proofs, db_data_root_lru, db_promoted,
                  task_vars, confirmed>>
  BY DEF TxIngress
<1>3. CASE /\ AnchorHeight(TxAnchor[t]) = None
           /\ invalid_tx' = invalid_tx \cup {t}
           /\ UNCHANGED <<valid_tx, recent_valid_tx, pending_chunks,
                          pending_chunks_lru, work, db_tx_headers, db_data_roots>>
  BY <1>1, <1>2, <1>3 DEF TypeOK, task_vars
<1>4. CASE /\ AnchorHeight(TxAnchor[t]) # None
           /\ Balance[TxSigner[t]] < TxFee[t]
           /\ UNCHANGED <<mem_vars, pending_chunks, pending_chunks_lru, work,
                          db_tx_headers, db_data_roots>>
  BY <1>2, <1>4 DEF TypeOK, mem_vars, task_vars
<1>5. CASE /\ AnchorHeight(TxAnchor[t]) # None
           /\ Balance[TxSigner[t]] >= TxFee[t]
           /\ ~TxSigValid[t]
           /\ invalid_tx' = invalid_tx \cup {t}
           /\ UNCHANGED <<valid_tx, recent_valid_tx, pending_chunks,
                          pending_chunks_lru, work, db_tx_headers, db_data_roots>>
  BY <1>1, <1>2, <1>5 DEF TypeOK, task_vars
<1>6. CASE /\ AnchorHeight(TxAnchor[t]) # None
           /\ Balance[TxSigner[t]] >= TxFee[t]
           /\ TxSigValid[t]
           /\ valid_tx' = valid_tx \cup {t}
           /\ recent_valid_tx' = recent_valid_tx \cup {t}
           /\ \E persisted \in BOOLEAN :
                IF persisted
                THEN /\ db_tx_headers' = db_tx_headers \cup {t}
                     /\ db_data_roots' = CacheDataRoot(t)
                ELSE UNCHANGED <<db_tx_headers, db_data_roots>>
           /\ PopPendingChunks(r)
           /\ UNCHANGED invalid_tx
  <2>1. /\ db_tx_headers' \subseteq DataTxs
        /\ db_data_roots' \in [DataRoots -> Nat \cup {None}]
    <3>1. CacheDataRoot(t) \in [DataRoots -> Nat \cup {None}]
      BY <1>1 DEF CacheDataRoot, TypeOK
    <3>2. QED
      BY <1>6, <3>1 DEF TypeOK
  <2>2. /\ pending_chunks' = [pending_chunks EXCEPT ![r] = <<>>]
        /\ pending_chunks_lru' = RemoveKey(pending_chunks_lru, r, "id")
        /\ work' = Drain(pending_chunks[r], "chunk")
    BY <1>6 DEF PopPendingChunks
  <2>3. pending_chunks_lru' \in Seq(DataRoots)
    BY <2>2, RemoveKeyType DEF TypeOK
  <2>4. work' \in Seq(WorkItems)
    BY <1>1, <2>2, DrainChunksType DEF TypeOK
  <2>5. pending_chunks' \in [DataRoots -> Seq(Chunks)]
    BY <1>1, <2>2 DEF TypeOK
  <2>6. valid_tx' \subseteq DataTxs /\ recent_valid_tx' \subseteq TxIds
    BY <1>1, <1>6 DEF TypeOK
  <2>7. QED
    BY <1>2, <1>6, <2>1, <2>3, <2>4, <2>5, <2>6 DEF TypeOK, task_vars
<1>7. QED
  BY <1>3, <1>4, <1>5, <1>6 DEF TxIngress

(* The head of a well-typed, non-empty work queue is a replay item of its *)
(* kind and the rest of the queue is well typed.                          *)
LEMMA WorkHeadType ==
    ASSUME NEW w \in Seq(WorkItems), w # <<>>
    PROVE  /\ Tail(w) \in Seq(WorkItems)
           /\ Head(w).kind = "chunk" => Head(w).chunk \in Chunks
           /\ Head(w).kind \in {"pledge", "persist"} => Head(w).tx \in CommitmentTxs
<1>1. Head(w) \in WorkItems /\ Tail(w) \in Seq(WorkItems)
  BY HeadTailProperties
<1>2. QED
  BY <1>1 DEF WorkItems

(* The replay and persist steps keep the variables in their types.        *)
LEMMA ReplayType ==
    ASSUME TypeOK, ReplayChunk \/ ReplayPledge \/ PersistCommitment
    PROVE  TypeOK'
<1>1. CASE ReplayChunk
  BY <1>1, WorkHeadType, HandleChunkType DEF ReplayChunk, TypeOK
<1>2. CASE ReplayPledge
  <2>1. Head(work).tx \in CommitmentTxs /\ Tail(work) \in Seq(WorkItems)
    BY <1>2, WorkHeadType DEF ReplayPledge, TypeOK
  <2>2. QED
    BY <1>2, <2>1, HandleCommitmentType DEF ReplayPledge
<1>3. CASE PersistCommitment
  <2>1. Head(work).tx \in CommitmentTxs /\ Tail(work) \in Seq(WorkItems)
    BY <1>3, WorkHeadType DEF PersistCommitment, TypeOK
  <2>2. QED
    BY <1>3, <2>1 DEF PersistCommitment, TypeOK, mem_vars, cache_vars, task_vars
<1>4. QED
  BY <1>1, <1>2, <1>3

(* The block-confirmation handler keeps the variables in their types.     *)
LEMMA BlockConfirmedType ==
    ASSUME TypeOK, NEW sub \in SUBSET DataTxs, NEW com \in SUBSET CommitmentTxs,
           NEW pub, BlockConfirmed(sub, com, pub)
    PROVE  TypeOK'
<1>1. sub \cup com \subseteq TxIds
  BY DEF TxIds
<1>2. QED
  BY <1>1 DEF BlockConfirmed, TypeOK, cache_vars, task_vars

(* A proof task keeps the variables in their types.                       *)
LEMMA ProofTaskRunType ==
    ASSUME TypeOK, NEW task \in proof_tasks, ProofTaskRun(task)
    PROVE  TypeOK'
<1>1. task.root \in DataRoots /\ task.height \in Nat
  BY DEF TypeOK, ProofTasks
<1>2. /\ proof_tasks' = proof_tasks \ {task}
      /\ UNCHANGED <<mem_vars, cache_vars, work, halted, tip_height,
                     db_tx_headers, db_data_roots, db_commitments, db_chunks,
                     db_data_root_lru, db_promoted, proof_dispatches, confirmed>>
  BY DEF ProofTaskRun
<1>3. \/ /\ db_ingress_proofs' = db_ingress_proofs \cup {task.root}
         /\ expiry_writes' = expiry_writes \cup {[root |-> task.root, height |-> task.height]}
      \/ UNCHANGED <<db_ingress_proofs, expiry_writes>>
  BY DEF ProofTaskRun
<1>4. [root |-> task.root, height |-> task.height] \in ExpiryWrites
  BY <1>1 DEF ExpiryWrites
<1>5. QED
  BY <1>2, <1>3, <1>4, <1>1 DEF TypeOK, mem_vars, cache_vars

(* The expiry write of a proof task keeps the variables in their types.    *)
LEMMA ExpiryRecordWriteType ==
    ASSUME TypeOK, NEW w \in expiry_writes, ExpiryRecordWrite(w)
    PROVE  TypeOK'
<1>1. w.root \in DataRoots /\ w.height \in Nat
  BY DEF TypeOK, ExpiryWrites
<1>2. /\ expiry_writes' = expiry_writes \ {w}
      /\ UNCHANGED <<mem_vars, cache_vars, work, halted, tip_height,
                     db_tx_headers, db_data_roots, db_commitments, db_chunks,
                     db_ingress_proofs, db_promoted, proof_tasks,
                     proof_dispatches, confirmed>>
  BY DEF ExpiryRecordWrite
<1>3. db_data_root_lru' \in [DataRoots -> Nat \cup {None}]
  <2>1. \/ db_data_root_lru' = [db_data_root_lru EXCEPT ![w.root] = w.height]
        \/ db_data_root_lru' = db_data_root_lru
    BY DEF ExpiryRecordWrite
  <2>2. QED
    BY <1>1, <2>1 DEF TypeOK
<1>4. QED
  BY <1>2, <1>3 DEF TypeOK, mem_vars, cache_vars

(* The initial state is well typed.                                       *)
LEMMA InitType == Init => TypeOK
<1> SUFFICES ASSUME Init PROVE TypeOK
  OBVIOUS
<1>1. /\ pending_chunks \in [DataRoots -> Seq(Chunks)]
      /\ pending_chunks_lru \in Seq(DataRoots)
      /\ pending_pledges \in [Signers -> Seq(CommitmentTxs)]
      /\ pending_pledges_lru \in Seq(Signers)
      /\ work \in Seq(WorkItems)
  BY DEF Init
<1>2. tip_height \in 0..MaxHeight
  BY DEF Init
<1>3. /\ db_data_roots \in [DataRoots -> Nat \cup {None}]
      /\ db_chunks \in [DataRoots -> SUBSET Nat]
      /\ db_data_root_lru \in [DataRoots -> Nat \cup {None}]
      /\ proof_dispatches \in [DataRoots -> 0..2]
      /\ valid_commitment_tx \in [Signers -> SUBSET CommitmentTxs]
  BY DEF Init
<1>4. QED
  BY <1>1, <1>2, <1>3 DEF Init, TypeOK

(* Every step keeps the variables in their types.                         *)
LEMMA NextType == TypeOK /\ [Next]_vars => TypeOK'
<1> SUFFICES ASSUME TypeOK, [Next]_vars PROVE TypeOK'
  OBVIOUS
<1>1. CASE \E t \in DataTxs : TxIngress(t)
  BY <1>1, TxIngressType
<1>2. CASE \E c \in Chunks : ChunkIngress(c)
  <2>1. <<>> \in Seq(WorkItems)
    OBVIOUS
  <2>2. QED
    BY <1>2, <2>1, HandleChunkType DEF ChunkIngress
<1>3. CASE \E ct \in CommitmentTxs : CommitmentIngress(ct)
  <2>1. <<>> \in Seq(WorkItems)
    OBVIOUS
  <2>2. QED
    BY <1>3, <2>1, HandleCommitmentType DEF CommitmentIngress
<1>4. CASE ReplayChunk \/ ReplayPledge \/ PersistCommitment
  BY <1>4, ReplayType
<1>5. CASE \E sub \in BlockContents(DataTxs), com \in BlockContents(CommitmentTxs),
             pub \in BlockContents(confirmed \cap DataTxs) :
             BlockConfirmed(sub, com, pub)
  BY <1>5, BlockConfirmedType DEF BlockContents
<1>6. CASE \E task \in proof_tasks : ProofTaskRun(task)
  BY <1>6, ProofTaskRunType
<1>9. CASE \E w \in expiry_writes : ExpiryRecordWrite(w)
  BY <1>9, ExpiryRecordWriteType
<1>7. CASE AdvanceTip
  BY <1>7 DEF AdvanceTip, TypeOK, mem_vars, cache_vars, db_vars, task_vars
<1>8. CASE MailboxClosed \/ UNCHANGED vars
  BY <1>8 DEF MailboxClosed, vars, TypeOK, mem_vars, cache_vars, db_vars, task_vars
<1>10. QED
  BY <1>1, <1>2, <1>3, <1>4, <1>5, <1>6, <1>7, <1>8, <1>9 DEF Next

(***************************************************************************)
(* Type correctness of the mempool actor: in every reachable state the     *)
(* pools, the two-level pending caches, the replay queue, the database     *)
(* tables and the spawned proof tasks hold values of their types, whatever *)
(* the handlers, replays, proof tasks and tip advances interleave.         *)
(***************************************************************************)
THEOREM TypeCorrect == Spec => []TypeOK
BY InitType, NextType, PTL DEF Spec

-----------------------------------------------------------------------------
(* The pools and the duplicate filter *)

(* Every pending commitment sits in the bucket of its own signer: the     *)
(* commitment handler pushes onto the entry of commitment_tx.signer.      *)
BucketsBySigner ==
    \A s \in Signers : \A c \in valid_commitment_tx[s] : TxSigner[c] = s

(* The inductive invariant: the types, the bucket discipline, and the two *)
(* pool invariants the runs check.                                        *)
IInv ==
    /\ TypeOK
    /\ BucketsBySigner
    /\ RecentValidConsistent
    /\ InvalidNeverValid

(* The part of IInv about the pools, which only the pools decide.         *)
PoolsOK == BucketsBySigner /\ RecentValidConsistent /\ InvalidNeverValid

(* A step that leaves the pools alone keeps PoolsOK.                      *)
LEMMA PoolsUnchanged ==
    ASSUME PoolsOK, UNCHANGED mem_vars
    PROVE  PoolsOK'
BY DEF PoolsOK, BucketsBySigner, RecentValidConsistent, InvalidNeverValid,
       AllCommitments, mem_vars

(* The pending commitments are commitment ids.                            *)
LEMMA AllCommitmentsType ==
    ASSUME TypeOK
    PROVE  AllCommitments \subseteq CommitmentTxs
BY DEF TypeOK, AllCommitments

(* Adding a commitment to one signer's bucket adds it to AllCommitments.  *)
LEMMA AllCommitmentsAdd ==
    ASSUME TypeOK, NEW ct, NEW x \in Signers,
           valid_commitment_tx' = [valid_commitment_tx EXCEPT ![x] = @ \cup {ct}]
    PROVE  AllCommitments' = AllCommitments \cup {ct}
<1>1. \A y \in Signers : valid_commitment_tx'[y] =
          IF y = x THEN valid_commitment_tx[y] \cup {ct} ELSE valid_commitment_tx[y]
  BY DEF TypeOK
<1>2. ASSUME NEW c \in AllCommitments' PROVE c \in AllCommitments \cup {ct}
  <2>1. PICK y \in Signers : c \in valid_commitment_tx'[y]
    BY <1>2 DEF AllCommitments
  <2>2. QED
    BY <1>1, <2>1 DEF AllCommitments
<1>3. ASSUME NEW c \in AllCommitments \cup {ct} PROVE c \in AllCommitments'
  <2>1. CASE c = ct
    <3>1. valid_commitment_tx'[x] = valid_commitment_tx[x] \cup {ct}
      BY DEF TypeOK
    <3>2. QED
      BY <2>1, <3>1 DEF AllCommitments
  <2>2. CASE c \in AllCommitments
    <3>1. PICK y \in Signers : c \in valid_commitment_tx[y]
      BY <2>2 DEF AllCommitments
    <3>2. c \in valid_commitment_tx'[y]
      BY <1>1, <3>1
    <3>3. QED
      BY <3>2 DEF AllCommitments
  <2>3. QED
    BY <1>3, <2>1, <2>2
<1>4. QED
  BY <1>2, <1>3

(* Removing the ids com from every bucket removes them from AllCommitments. *)
LEMMA AllCommitmentsRemove ==
    ASSUME NEW com,
           valid_commitment_tx' = [x \in Signers |-> valid_commitment_tx[x] \ com]
    PROVE  AllCommitments' = AllCommitments \ com
<1>1. ASSUME NEW c \in AllCommitments' PROVE c \in AllCommitments \ com
  <2>1. PICK x \in Signers : c \in valid_commitment_tx'[x]
    BY <1>1 DEF AllCommitments
  <2>2. QED
    BY <2>1 DEF AllCommitments
<1>2. ASSUME NEW c \in AllCommitments \ com PROVE c \in AllCommitments'
  <2>1. PICK x \in Signers : c \in valid_commitment_tx[x]
    BY <1>2 DEF AllCommitments
  <2>2. c \in valid_commitment_tx'[x]
    BY <1>2, <2>1
  <2>3. QED
    BY <2>2 DEF AllCommitments
<1>3. QED
  BY <1>1, <1>2

(* The tx handler keeps PoolsOK: the early out keeps a known id out of    *)
(* invalid_tx, and an admitted id joins valid_tx and recent_valid_tx.     *)
LEMMA TxIngressPools ==
    ASSUME TypeOK, PoolsOK, NEW t \in DataTxs, TxIngress(t)
    PROVE  PoolsOK'
<1>1. ~Known(t) /\ UNCHANGED valid_commitment_tx
  BY DEF TxIngress
<1>2. t \notin valid_tx \cup AllCommitments /\ t \notin invalid_tx
  BY <1>1 DEF Known, PoolsOK, RecentValidConsistent
<1>3. AllCommitments' = AllCommitments
  BY <1>1 DEF AllCommitments
<1>4. CASE /\ invalid_tx' = invalid_tx \cup {t}
           /\ UNCHANGED <<valid_tx, recent_valid_tx>>
  BY <1>1, <1>2, <1>3, <1>4
     DEF PoolsOK, BucketsBySigner, RecentValidConsistent, InvalidNeverValid
<1>5. CASE UNCHANGED mem_vars
  BY <1>5, PoolsUnchanged
<1>6. CASE /\ valid_tx' = valid_tx \cup {t}
           /\ recent_valid_tx' = recent_valid_tx \cup {t}
           /\ UNCHANGED invalid_tx
  BY <1>1, <1>2, <1>3, <1>6
     DEF PoolsOK, BucketsBySigner, RecentValidConsistent, InvalidNeverValid
<1>7. QED
  BY <1>4, <1>5, <1>6 DEF TxIngress

(* The commitment handler keeps PoolsOK.  An id it marks invalid is in    *)
(* no bucket: not in its signer's (checked) and not in another's (by the  *)
(* bucket discipline); an id it admits joins its signer's bucket and      *)
(* recent_valid_tx together.                                              *)
LEMMA HandleCommitmentPools ==
    ASSUME TypeOK, PoolsOK, NEW ct \in CommitmentTxs, NEW rest, NEW replaying,
           HandleCommitment(ct, rest, replaying)
    PROVE  PoolsOK'
<1> DEFINE sgn == TxSigner[ct]
<1>1. sgn \in Signers /\ ct \notin valid_tx
  BY DEF TxIds, TypeOK
<1>2. UNCHANGED valid_tx
  BY DEF HandleCommitment
<1>3. ASSUME ct \notin invalid_tx, ct \notin valid_commitment_tx[sgn],
             invalid_tx' = invalid_tx \cup {ct},
             UNCHANGED <<valid_commitment_tx, recent_valid_tx>>
      PROVE  PoolsOK'
  <2>1. ct \notin AllCommitments
    BY <1>3 DEF PoolsOK, BucketsBySigner, AllCommitments
  <2>2. AllCommitments' = AllCommitments
    BY <1>3 DEF AllCommitments
  <2>3. QED
    BY <1>1, <1>2, <1>3, <2>1, <2>2
       DEF PoolsOK, BucketsBySigner, RecentValidConsistent, InvalidNeverValid
<1>4. ASSUME ct \notin invalid_tx,
             valid_commitment_tx' = [valid_commitment_tx EXCEPT ![sgn] = @ \cup {ct}],
             recent_valid_tx' = recent_valid_tx \cup {ct},
             UNCHANGED invalid_tx
      PROVE  PoolsOK'
  <2>0. \A x \in Signers : valid_commitment_tx'[x] =
            IF x = sgn THEN valid_commitment_tx[x] \cup {ct} ELSE valid_commitment_tx[x]
    BY <1>1, <1>4 DEF TypeOK
  <2>1. AllCommitments' = AllCommitments \cup {ct}
    BY <1>1, <1>4, AllCommitmentsAdd
  <2>2. BucketsBySigner'
    <3> SUFFICES ASSUME NEW x \in Signers, NEW c \in valid_commitment_tx'[x]
                 PROVE  TxSigner[c] = x
      BY DEF BucketsBySigner
    <3>1. CASE x = sgn /\ c = ct
      BY <3>1
    <3>2. CASE ~(x = sgn /\ c = ct)
      <4>1. c \in valid_commitment_tx[x]
        <5>1. CASE x = sgn
          <6>1. valid_commitment_tx'[x] = valid_commitment_tx[x] \cup {ct}
            BY <2>0, <5>1
          <6>2. QED
            BY <3>2, <5>1, <6>1
        <5>2. CASE x # sgn
          <6>1. valid_commitment_tx'[x] = valid_commitment_tx[x]
            BY <2>0, <5>2
          <6>2. QED
            BY <6>1
        <5>3. QED
          BY <5>1, <5>2
      <4>2. QED
        BY <4>1 DEF PoolsOK, BucketsBySigner
    <3>3. QED
      BY <3>1, <3>2
  <2>3. QED
    BY <1>2, <1>4, <2>1, <2>2
       DEF PoolsOK, RecentValidConsistent, InvalidNeverValid
<1>5. QED
  <2>1. CASE UNCHANGED mem_vars
    BY <2>1, PoolsUnchanged
  <2>2. CASE ~UNCHANGED mem_vars
    <3>1. \/ /\ ct \notin invalid_tx /\ ct \notin valid_commitment_tx[sgn]
             /\ invalid_tx' = invalid_tx \cup {ct}
             /\ UNCHANGED <<valid_commitment_tx, recent_valid_tx>>
          \/ /\ ct \notin invalid_tx
             /\ valid_commitment_tx' = [valid_commitment_tx EXCEPT ![sgn] = @ \cup {ct}]
             /\ recent_valid_tx' = recent_valid_tx \cup {ct}
             /\ UNCHANGED invalid_tx
      BY <2>2 DEF HandleCommitment, mem_vars
    <3>2. QED
      BY <3>1, <1>3, <1>4
  <2>3. QED
    BY <2>1, <2>2

(* The block-confirmation handler keeps PoolsOK: it removes the confirmed *)
(* data ids from valid_tx, the confirmed commitment ids from the buckets, *)
(* and both from recent_valid_tx; data and commitment ids are disjoint.   *)
LEMMA BlockConfirmedPools ==
    ASSUME TypeOK, PoolsOK, NEW sub \in SUBSET DataTxs,
           NEW com \in SUBSET CommitmentTxs, NEW pub,
           BlockConfirmed(sub, com, pub)
    PROVE  PoolsOK'
<1>1. /\ valid_tx' = valid_tx \ sub
      /\ valid_commitment_tx' = [x \in Signers |-> valid_commitment_tx[x] \ com]
      /\ recent_valid_tx' = recent_valid_tx \ (sub \cup com)
      /\ UNCHANGED invalid_tx
  BY DEF BlockConfirmed
<1>2. AllCommitments' = AllCommitments \ com
  BY <1>1, AllCommitmentsRemove
<1>3. valid_tx \cap com = {} /\ AllCommitments \cap sub = {}
  BY AllCommitmentsType DEF TypeOK
<1>4. RecentValidConsistent'
  BY <1>1, <1>2, <1>3 DEF PoolsOK, RecentValidConsistent
<1>5. BucketsBySigner'
  BY <1>1 DEF PoolsOK, BucketsBySigner
<1>6. InvalidNeverValid'
  BY <1>1, <1>2 DEF PoolsOK, InvalidNeverValid
<1>7. QED
  BY <1>4, <1>5, <1>6 DEF PoolsOK

(* Every step keeps PoolsOK.                                              *)
LEMMA NextPools == TypeOK /\ PoolsOK /\ [Next]_vars => PoolsOK'
<1> SUFFICES ASSUME TypeOK, PoolsOK, [Next]_vars PROVE PoolsOK'
  OBVIOUS
<1>1. CASE \E t \in DataTxs : TxIngress(t)
  BY <1>1, TxIngressPools
<1>2. CASE \E c \in Chunks : ChunkIngress(c)
  BY <1>2, PoolsUnchanged DEF ChunkIngress, HandleChunk
<1>3. CASE \E ct \in CommitmentTxs : CommitmentIngress(ct)
  BY <1>3, HandleCommitmentPools DEF CommitmentIngress
<1>4. CASE ReplayChunk
  BY <1>4, PoolsUnchanged DEF ReplayChunk, HandleChunk
<1>5. CASE ReplayPledge
  <2>1. Head(work).tx \in CommitmentTxs
    BY <1>5, WorkHeadType DEF ReplayPledge, TypeOK
  <2>2. QED
    BY <1>5, <2>1, HandleCommitmentPools DEF ReplayPledge
<1>6. CASE \E sub \in BlockContents(DataTxs), com \in BlockContents(CommitmentTxs),
             pub \in BlockContents(confirmed \cap DataTxs) :
             BlockConfirmed(sub, com, pub)
  BY <1>6, BlockConfirmedPools DEF BlockContents
<1>7. CASE \/ PersistCommitment
           \/ \E task \in proof_tasks : ProofTaskRun(task)
           \/ \E w \in expiry_writes : ExpiryRecordWrite(w)
           \/ AdvanceTip
           \/ MailboxClosed
           \/ UNCHANGED vars
  <2>1. UNCHANGED mem_vars
    BY <1>7 DEF PersistCommitment, ProofTaskRun, ExpiryRecordWrite, AdvanceTip,
                MailboxClosed, vars
  <2>2. QED
    BY <2>1, PoolsUnchanged
<1>8. QED
  BY <1>1, <1>2, <1>3, <1>4, <1>5, <1>6, <1>7 DEF Next

(* IInv holds initially and is kept by every step.                        *)
LEMMA IInvInductive == Spec => []IInv
<1>1. Init => PoolsOK
  BY DEF Init, PoolsOK, BucketsBySigner, RecentValidConsistent,
         InvalidNeverValid, AllCommitments
<1>2. IInv <=> TypeOK /\ PoolsOK
  BY DEF IInv, PoolsOK
<1>3. QED
  BY <1>1, <1>2, InitType, NextType, NextPools, PTL DEF Spec

(***************************************************************************)
(* recent_valid_tx is always exactly the pending valid data and commitment *)
(* ids, however the tx handler, the commitment handler, the pledge replay  *)
(* and block confirmation interleave.                                      *)
(***************************************************************************)
THEOREM RecentValidConsistentHolds == Spec => []RecentValidConsistent
<1>1. IInv => RecentValidConsistent
  BY DEF IInv
<1>2. QED
  BY <1>1, IInvInductive, PTL

(***************************************************************************)
(* No id recorded as invalid by the tx or commitment handler (bad anchor,  *)
(* bad signature) is ever pending as valid, whatever the order of          *)
(* resubmissions, replays and confirmations.                               *)
(***************************************************************************)
THEOREM InvalidNeverValidHolds == Spec => []InvalidNeverValid
<1>1. IInv => InvalidNeverValid
  BY DEF IInv
<1>2. QED
  BY <1>1, IInvInductive, PTL
=============================================================================
