------------------------------ MODULE Mempool ------------------------------
(***************************************************************************)
(* The mempool actor of crates/actors/src/mempool_service.rs.              *)
(*                                                                         *)
(* The actor owns its maps and caches and runs one handler at a time.  A   *)
(* handler is one action, except that the replay of parked chunks and      *)
(* parked pledges, which the code does by calling its own handlers in a    *)
(* loop, is kept as a work queue the actor drains before it takes another  *)
(* message: between two replayed items only the other actors (the block    *)
(* tree advancing the tip, the spawned ingress-proof tasks) may move.  A   *)
(* panic inside a handler (an expect() on a replayed item, an arithmetic   *)
(* overflow check) stops the actor: every later message fails with         *)
(* MailboxError.                                                           *)
(*                                                                         *)
(* Transactions and signers are model values; a transaction's fields are   *)
(* constant functions of its id (the id is the hash of the signed          *)
(* content).  A chunk is a record: its data root, its offset, the data     *)
(* size it declares, its length and whether its bytes hash to the leaf of  *)
(* its data path.  A block hash is named by the height of its block.       *)
(***************************************************************************)
EXTENDS Naturals, Sequences, FiniteSets

CONSTANTS
    DataTxs,             \* ids of data (storage) transactions
    CommitmentTxs,       \* ids of commitment transactions
    Signers,             \* account addresses
    DataRoots,           \* merkle roots of transaction data
    TxSigner,            \* tx id -> signer
    TxAnchor,            \* tx id -> anchor: a block height or a tx id
    TxFee,               \* tx id -> total_fee()
    TxSigValid,          \* tx id -> is_signature_valid()
    TxDataRoot,          \* data tx id -> data_root
    TxDataSize,          \* data tx id -> data_size declared by the header
    TxCommitmentType,    \* commitment tx id -> "Stake" | "Pledge"
    TrueDataSize,        \* data root -> byte size of the data it commits to
    SmDataSize,          \* data root -> size the storage modules know, or None
    Chunks,              \* the chunk messages that can arrive
    Balance,             \* signer -> account balance
    Staked,              \* signers the commitment state reports as staked
    CacheResponses,      \* statuses the commitment cache may answer
    ChunkSize,           \* config.consensus.chunk_size
    AnchorExpiryDepth,   \* mempool.anchor_expiry_depth
    MaxPendingChunkItems,  \* mempool.max_pending_chunk_items
    MaxChunksPerItem,      \* mempool.max_chunks_per_item
    MaxPendingPledgeItems, \* mempool.max_pending_pledge_items
    MaxDataTxsPerBlock,    \* mempool.max_data_txs_per_block
    MaxHeight,           \* bound: the highest canonical height explored
    OverflowChecks,      \* whether the build panics on u64 underflow
    ProofWriteFailures,  \* whether the proof task's db writes may fail
    None                 \* "no value" (absent map entry, unknown anchor)

TxIds == DataTxs \cup CommitmentTxs

ASSUME ConstantsAssumption ==
    /\ DataTxs \cap CommitmentTxs = {}
    /\ None \notin Nat
    /\ ChunkSize \in Nat \ {0}
    /\ AnchorExpiryDepth \in Nat
    /\ MaxHeight \in Nat
    /\ MaxPendingChunkItems \in Nat \ {0}
    /\ MaxChunksPerItem \in Nat \ {0}
    /\ MaxPendingPledgeItems \in Nat \ {0}
    /\ MaxDataTxsPerBlock \in Nat
    /\ OverflowChecks \in BOOLEAN
    /\ ProofWriteFailures \in BOOLEAN
    /\ TxSigner \in [TxIds -> Signers]
    /\ TxAnchor \in [TxIds -> Nat \cup TxIds]
    /\ TxFee \in [TxIds -> Nat]
    /\ TxSigValid \in [TxIds -> BOOLEAN]
    /\ TxDataRoot \in [DataTxs -> DataRoots]
    /\ TxDataSize \in [DataTxs -> Nat]
    /\ TxCommitmentType \in [CommitmentTxs -> {"Stake", "Pledge"}]
    /\ TrueDataSize \in [DataRoots -> Nat]
    /\ SmDataSize \in [DataRoots -> Nat \cup {None}]
    /\ Chunks \subseteq [root : DataRoots, offset : Nat, size : Nat,
                         len : Nat, hashOk : BOOLEAN]
    /\ Balance \in [Signers -> Nat]
    /\ Staked \subseteq Signers
    /\ CacheResponses \subseteq {"Unstaked", "Unsupported", "Accepted"}

BT == INSTANCE BestTxs

VARIABLES
    valid_tx,             \* ids of pending valid data txs (BTreeMap keys)
    valid_commitment_tx,  \* signer -> set of pending valid commitments
    invalid_tx,           \* ids that failed anchor or signature validation
    recent_valid_tx,      \* ids usable as anchors / duplicate filter
    pending_chunks,       \* data root -> parked chunks, least recent first
    pending_chunks_lru,   \* data roots of pending_chunks, least recent first
    pending_pledges,      \* signer -> parked pledges, least recent first
    pending_pledges_lru,  \* signers of pending_pledges, least recent first
    work,                 \* replay items the running handler still owes
    halted,               \* the actor has panicked
    tip_height,           \* height of the last canonical block
    db_tx_headers,        \* IrysTxHeaders: ids of persisted data tx headers
    db_data_roots,        \* CachedDataRoots: data root -> data_size or None
    db_commitments,       \* ids of persisted commitment txs
    db_chunks,            \* CachedChunksIndex: data root -> cached offsets
    db_ingress_proofs,    \* IngressProofs: data roots with a proof
    db_data_root_lru,     \* DataRootLRU: data root -> last_height or None
    db_promoted,          \* tx headers updated with their ingress proof
    proof_tasks,          \* spawned generate_ingress_proof tasks
    proof_dispatches,     \* history: tasks spawned per data root (saturates at 2)
    expiry_writes,        \* tasks that wrote their proof and owe the DataRootLRU write
    confirmed             \* history: ids included in a confirmed block

mem_vars   == <<valid_tx, valid_commitment_tx, invalid_tx, recent_valid_tx>>
cache_vars == <<pending_chunks, pending_chunks_lru, pending_pledges,
                pending_pledges_lru>>
db_vars    == <<db_tx_headers, db_data_roots, db_commitments, db_chunks,
                db_ingress_proofs, db_data_root_lru, db_promoted>>
task_vars == <<proof_tasks, proof_dispatches, expiry_writes>>
vars == <<mem_vars, cache_vars, db_vars, work, halted, tip_height, task_vars,
          confirmed>>

-----------------------------------------------------------------------------
(* Chunk geometry *)

DivCeil(a, b) == (a + b - 1) \div b

(* Number of chunks of a data size: data_size_to_chunk_count (db_cache).    *)
ChunkCount(size) == DivCeil(size, ChunkSize)

(* Offsets a data root's merkle tree has leaves for.                        *)
TrueOffsets(r) == 0..(ChunkCount(TrueDataSize[r]) - 1)

(* Length of the genuine chunk at offset o of root r.                      *)
GenuineLen(r, o) ==
    IF o < ChunkCount(TrueDataSize[r]) - 1 THEN ChunkSize
    ELSE TrueDataSize[r] - o * ChunkSize

(* validate_path(root, data_path, end_byte_offset) succeeds: the offset is *)
(* one the data root's tree has a leaf for.                                *)
PathValid(c) == c.offset \in TrueOffsets(c.root)

WorkItems ==
    [kind : {"chunk"}, chunk : Chunks] \cup
    [kind : {"pledge", "persist"}, tx : CommitmentTxs]

ProofTasks == [root : DataRoots, size : Nat, height : Nat]

ExpiryWrites == [root : DataRoots, height : Nat]

-----------------------------------------------------------------------------
(* LRU caches (crate lru): a sequence of distinct keys, least recent first *)

(* The sequence s without its element at index i.                          *)
DropAt(s, i) == SubSeq(s, 1, i - 1) \o SubSeq(s, i + 1, Len(s))

(* The key an LRU cache holds an entry x under: the tx_offset for the     *)
(* inner cache of parked chunks ("offset"), the entry itself otherwise.    *)
LruKey(x, by) == IF by = "offset" THEN x.offset ELSE x

(* The sequence s without the elements whose key is k.                     *)
RemoveKey(s, k, by) ==
    IF \E i \in 1..Len(s) : LruKey(s[i], by) = k
    THEN DropAt(s, CHOOSE i \in 1..Len(s) : LruKey(s[i], by) = k)
    ELSE s

(* LruCache::put: replace and promote an entry with the same key; else,    *)
(* when the cache is full, evict the least recent entry; then insert.      *)
LruPut(s, x, cap, by) ==
    IF \E i \in 1..Len(s) : LruKey(s[i], by) = LruKey(x, by)
    THEN Append(RemoveKey(s, LruKey(x, by), by), x)
    ELSE IF Len(s) >= cap THEN Append(Tail(s), x)
    ELSE Append(s, x)

(* The key LruCache::put evicts to make room for k, if any.                *)
LruEvicted(s, k, cap) ==
    IF k \notin {s[i] : i \in 1..Len(s)} /\ Len(s) >= cap THEN {Head(s)} ELSE {}

(* The replay item of a parked chunk or pledge x.                          *)
WorkItem(kind, x) ==
    IF kind = "chunk" THEN [kind |-> "chunk", chunk |-> x]
                      ELSE [kind |-> "pledge", tx |-> x]

(* A popped cache drained by into_iter, which pops the least recent entry *)
(* first: the replay items of its entries, in that order.                  *)
Drain(s, kind) == [i \in 1..Len(s) |-> WorkItem(kind, s[i])]

-----------------------------------------------------------------------------
(* Helpers of the handlers *)

(***************************************************************************)
(* validate_anchor (lines 200-243): the height of the block the anchor     *)
(* resolves to, or None.  A pending tx id resolves to the tip, which is    *)
(* always within the window; a block hash resolves to its block if it is  *)
(* known (at most the tip) and not older than the expiry depth.            *)
(***************************************************************************)
AnchorHeight(a) ==
    IF a \in recent_valid_tx THEN tip_height
    ELSE IF a \in Nat /\ a <= tip_height /\ a + AnchorExpiryDepth >= tip_height
         THEN a
         ELSE None

(* The data size of a root: the cached data root, else the storage modules *)
(* (lines 767-781).                                                        *)
DataSizeOf(r) ==
    IF db_data_roots[r] # None THEN db_data_roots[r] ELSE SmDataSize[r]

(* Mutant: an unstaked answer is final, pending stakes are not consulted.  *)
CommitmentStatusNoPendingStake(ct, cacheStatus) ==
    LET s == TxSigner[ct] IN
    IF TxCommitmentType[ct] # "Pledge" \/ s \in Staked THEN "Accepted"
    ELSE IF cacheStatus = "Unsupported" THEN "Unsupported"
    ELSE IF cacheStatus = "Unstaked" THEN "Unstaked"
    ELSE "Accepted"

(***************************************************************************)
(* get_commitment_status (lines 286-349) for a given answer of the         *)
(* commitment cache service.                                               *)
(***************************************************************************)
CommitmentStatus(ct, cacheStatus) ==
    LET s == TxSigner[ct] IN
    IF TxCommitmentType[ct] # "Pledge" \/ s \in Staked THEN "Accepted"
    ELSE IF cacheStatus = "Unsupported" THEN "Unsupported"
    ELSE IF cacheStatus = "Unstaked"
         THEN IF \E c \in valid_commitment_tx[s] : TxCommitmentType[c] = "Stake"
              THEN "Accepted" ELSE "Unstaked"
    ELSE "Accepted"

(* The chunk validation steps of lines 801-862 that fail, given the data   *)
(* size resolved for its root: data size, data path, chunk size, hash.     *)
(* With no chunks, num_chunks_in_tx - 1 wraps (overflow checks off) to     *)
(* u64::MAX, above every offset: the chunk must then be a full chunk.      *)
ChunkRejected(c, ds) ==
    LET n == ChunkCount(ds)
        notLast == IF n = 0 THEN TRUE ELSE c.offset < n - 1
    IN  \/ c.size # ds
        \/ ~PathValid(c)
        \/ notLast /\ c.len # ChunkSize
        \/ ~notLast /\ c.len > ChunkSize
        \/ ~c.hashOk

(* The u64 subtraction of line 838 panics (debug build, empty data).       *)
ChunkUnderflows(c, ds) ==
    OverflowChecks /\ c.size = ds /\ PathValid(c) /\ ChunkCount(ds) = 0

(* cache_data_root (database.rs 87-121): the first transaction that names *)
(* a root fixes its data_size; a later one only joins its txid_set.        *)
CacheDataRoot(t) ==
    [db_data_roots EXCEPT ![TxDataRoot[t]] = IF @ = None THEN TxDataSize[t] ELSE @]

(* cache_chunk (database.rs 134-162): index the chunk under its root       *)
(* unless it is already cached.                                            *)
CacheChunk(c) == [db_chunks EXCEPT ![c.root] = @ \cup {c.offset}]

-----------------------------------------------------------------------------
(* The chunk handler, lines 740-965 *)

(* Park the chunk of an unknown data root (lines 786-797).                 *)
ParkChunk(c) ==
    LET r == c.root IN
    IF pending_chunks[r] # <<>>
    THEN /\ pending_chunks' = [pending_chunks EXCEPT
                ![r] = LruPut(@, c, MaxChunksPerItem, "offset")]
         /\ pending_chunks_lru' = LruPut(pending_chunks_lru, r, MaxPendingChunkItems, "id")
    ELSE LET ev == LruEvicted(pending_chunks_lru, r, MaxPendingChunkItems) IN
         /\ pending_chunks' = [x \in DataRoots |->
                IF x = r THEN <<c>> ELSE IF x \in ev THEN <<>> ELSE pending_chunks[x]]
         /\ pending_chunks_lru' = LruPut(pending_chunks_lru, r, MaxPendingChunkItems, "id")

(* Mutant: the proof task is dispatched one chunk early.                  *)
StoreChunkEarlyDispatch(c, ds) ==
    LET r      == c.root
        cached == CacheChunk(c)[r]
    IN  /\ db_chunks' = CacheChunk(c)
        /\ IF r \notin db_ingress_proofs /\ Cardinality(cached) + 1 = ChunkCount(ds)
           THEN /\ proof_tasks' = proof_tasks \cup
                        {[root |-> r, size |-> ds, height |-> tip_height]}
                /\ proof_dispatches' = [proof_dispatches EXCEPT
                        ![r] = IF @ < 2 THEN @ + 1 ELSE 2]
           ELSE UNCHANGED <<proof_tasks, proof_dispatches>>

(***************************************************************************)
(* Store a valid chunk and dispatch the proof task when it completes the   *)
(* root (lines 868-955).  cache_chunk skips a chunk already cached; the    *)
(* storage-module writes are outside the model.  With an ingress proof     *)
(* already recorded the handler returns early.                             *)
(***************************************************************************)
StoreChunk(c, ds) ==
    LET r      == c.root
        cached == CacheChunk(c)[r]
    IN  /\ db_chunks' = CacheChunk(c)
        /\ IF r \notin db_ingress_proofs /\ Cardinality(cached) = ChunkCount(ds)
           THEN /\ proof_tasks' = proof_tasks \cup
                        {[root |-> r, size |-> ds, height |-> tip_height]}
                /\ proof_dispatches' = [proof_dispatches EXCEPT
                        ![r] = IF @ < 2 THEN @ + 1 ELSE 2]
           ELSE UNCHANGED <<proof_tasks, proof_dispatches>>

(***************************************************************************)
(* The whole chunk handler for chunk c; rest is what remains of the work   *)
(* queue afterwards and replaying says whether the call comes from the     *)
(* replay loop of the tx handler, whose expect() panics on an error.       *)
(***************************************************************************)
HandleChunk(c, rest, replaying) ==
    LET ds == DataSizeOf(c.root) IN
    /\ work' = rest
    /\ UNCHANGED <<mem_vars, pending_pledges, pending_pledges_lru, tip_height,
                   db_tx_headers, db_data_roots, db_commitments,
                   db_ingress_proofs, db_data_root_lru, db_promoted, confirmed,
                   expiry_writes>>
    /\ \/ /\ ds = None
          /\ ParkChunk(c)
          /\ UNCHANGED <<halted, db_chunks, proof_tasks, proof_dispatches>>
       \/ /\ ds # None
          /\ ChunkUnderflows(c, ds)
          /\ halted' = TRUE
          /\ UNCHANGED <<pending_chunks, pending_chunks_lru, db_chunks,
                         proof_tasks, proof_dispatches>>
       \/ /\ ds # None
          /\ ~ChunkUnderflows(c, ds)
          /\ ChunkRejected(c, ds)
          /\ halted' = replaying
          /\ UNCHANGED <<pending_chunks, pending_chunks_lru, db_chunks,
                         proof_tasks, proof_dispatches>>
       \/ /\ ds # None
          /\ ~ChunkUnderflows(c, ds)
          /\ ~ChunkRejected(c, ds)
          /\ StoreChunk(c, ds)
          /\ UNCHANGED <<halted, pending_chunks, pending_chunks_lru>>

-----------------------------------------------------------------------------
(* The commitment handler, lines 606-738 *)

(* Park an unstaked pledge in the two-level pending_pledges cache          *)
(* (lines 710-732).                                                        *)
ParkPledge(ct) ==
    LET s == TxSigner[ct] IN
    IF pending_pledges[s] # <<>>
    THEN /\ pending_pledges' = [pending_pledges EXCEPT
                ![s] = LruPut(@, ct, MaxPendingPledgeItems, "id")]
         /\ pending_pledges_lru' = LruPut(pending_pledges_lru, s, MaxPendingPledgeItems, "id")
    ELSE LET ev == LruEvicted(pending_pledges_lru, s, MaxPendingPledgeItems) IN
         /\ pending_pledges' = [x \in Signers |->
                IF x = s THEN <<ct>> ELSE IF x \in ev THEN <<>> ELSE pending_pledges[x]]
         /\ pending_pledges_lru' = LruPut(pending_pledges_lru, s, MaxPendingPledgeItems, "id")

(***************************************************************************)
(* The whole commitment handler for ct.  An accepted commitment joins its  *)
(* signer's bucket and recent_valid_tx, then the pledges parked for the    *)
(* signer are popped and re-handled, and only then is ct persisted: the    *)
(* replayed pledges and the persist step go to the front of the work       *)
(* queue.  Every error of a replayed pledge panics (line 672).             *)
(***************************************************************************)
HandleCommitment(ct, rest, replaying) ==
    LET s == TxSigner[ct]
        Fail == /\ halted' = replaying
                /\ work' = rest
    IN
    /\ UNCHANGED <<valid_tx, tip_height, db_vars, task_vars, confirmed>>
    /\ \/ /\ ct \in invalid_tx \/ ct \in valid_commitment_tx[s]
          /\ Fail
          /\ UNCHANGED <<mem_vars, cache_vars>>
       \/ /\ ct \notin invalid_tx /\ ct \notin valid_commitment_tx[s]
          /\ AnchorHeight(TxAnchor[ct]) = None
          /\ invalid_tx' = invalid_tx \cup {ct}
          /\ Fail
          /\ UNCHANGED <<valid_tx, valid_commitment_tx, recent_valid_tx, cache_vars>>
       \/ /\ ct \notin invalid_tx /\ ct \notin valid_commitment_tx[s]
          /\ AnchorHeight(TxAnchor[ct]) # None
          /\ \E resp \in CacheResponses :
               LET status == CommitmentStatus(ct, resp) IN
               \/ /\ status = "Accepted"
                  /\ ~TxSigValid[ct]
                  /\ invalid_tx' = invalid_tx \cup {ct}
                  /\ Fail
                  /\ UNCHANGED <<valid_tx, valid_commitment_tx, recent_valid_tx,
                                 cache_vars>>
               \/ /\ status = "Accepted"
                  /\ TxSigValid[ct]
                  /\ valid_commitment_tx' = [valid_commitment_tx EXCEPT
                                                ![s] = @ \cup {ct}]
                  /\ recent_valid_tx' = recent_valid_tx \cup {ct}
                  /\ pending_pledges' = [pending_pledges EXCEPT ![s] = <<>>]
                  /\ pending_pledges_lru' = RemoveKey(pending_pledges_lru, s, "id")
                  /\ work' = Drain(pending_pledges[s], "pledge")
                             \o <<[kind |-> "persist", tx |-> ct]>> \o rest
                  /\ UNCHANGED <<valid_tx, invalid_tx, halted, pending_chunks,
                                 pending_chunks_lru>>
               \/ /\ status = "Unstaked"
                  /\ ParkPledge(ct)
                  /\ work' = rest
                  /\ UNCHANGED <<mem_vars, halted, pending_chunks, pending_chunks_lru>>
               \/ /\ status = "Unsupported"
                  /\ Fail
                  /\ UNCHANGED <<mem_vars, cache_vars>>

-----------------------------------------------------------------------------
(* The actions *)

(* The actor takes a new message only when it is alive and idle.           *)
Idle == ~halted /\ work = <<>>

(* Mutant: the early out consults only recent_valid_tx.                    *)
KnownValidOnly(id) == id \in recent_valid_tx

(* The early out of the tx handler (line 481): the id is already known.    *)
Known(id) == id \in invalid_tx \/ id \in recent_valid_tx

(* Mutant: the parked chunks are neither popped nor replayed.              *)
KeepPendingChunks(r) ==
    /\ work' = <<>>
    /\ UNCHANGED <<pending_chunks, pending_chunks_lru>>

(* Pop the chunks parked under root r and queue them for replay            *)
(* (lines 574-589).                                                        *)
PopPendingChunks(r) ==
    /\ pending_chunks' = [pending_chunks EXCEPT ![r] = <<>>]
    /\ pending_chunks_lru' = RemoveKey(pending_chunks_lru, r, "id")
    /\ work' = Drain(pending_chunks[r], "chunk")

(***************************************************************************)
(* TxIngressMessage handler (lines 469-600).  Early out on a known id;     *)
(* anchor; the DataRootLRU "refresh" (lines 497-525) writes back the entry *)
(* it read, so the table is unchanged; balance; signature; admission; the  *)
(* data root and header written in one db transaction whose failure is     *)
(* only logged; the chunks parked under the root popped for replay.        *)
(***************************************************************************)
TxIngress(t) ==
    LET r == TxDataRoot[t] IN
    /\ Idle
    /\ ~Known(t)
    /\ UNCHANGED <<valid_commitment_tx, halted, tip_height, pending_pledges,
                   pending_pledges_lru, db_commitments, db_chunks,
                   db_ingress_proofs, db_data_root_lru, db_promoted,
                   task_vars, confirmed>>
    /\ \/ /\ AnchorHeight(TxAnchor[t]) = None
          /\ invalid_tx' = invalid_tx \cup {t}
          /\ UNCHANGED <<valid_tx, recent_valid_tx, pending_chunks,
                         pending_chunks_lru, work, db_tx_headers, db_data_roots>>
       \/ /\ AnchorHeight(TxAnchor[t]) # None
          /\ Balance[TxSigner[t]] < TxFee[t]
          /\ UNCHANGED <<mem_vars, pending_chunks, pending_chunks_lru, work,
                         db_tx_headers, db_data_roots>>
       \/ /\ AnchorHeight(TxAnchor[t]) # None
          /\ Balance[TxSigner[t]] >= TxFee[t]
          /\ ~TxSigValid[t]
          /\ invalid_tx' = invalid_tx \cup {t}
          /\ UNCHANGED <<valid_tx, recent_valid_tx, pending_chunks,
                         pending_chunks_lru, work, db_tx_headers, db_data_roots>>
       \/ /\ AnchorHeight(TxAnchor[t]) # None
          /\ Balance[TxSigner[t]] >= TxFee[t]
          /\ TxSigValid[t]
          /\ valid_tx' = valid_tx \cup {t}
          /\ recent_valid_tx' = recent_valid_tx \cup {t}
          /\ \E persisted \in BOOLEAN :
               IF persisted
               THEN /\ db_tx_headers' = db_tx_headers \cup {t}
                    /\ db_data_roots' = CacheDataRoot(t)
               ELSE UNCHANGED <<db_tx_headers, db_data_roots>>
          /\ PopPendingChunks(r)
          /\ UNCHANGED invalid_tx

(* ChunkIngressMessage from gossip or a client.                            *)
ChunkIngress(c) ==
    /\ Idle
    /\ HandleChunk(c, <<>>, FALSE)

(* CommitmentTxIngressMessage from gossip or a client.                     *)
CommitmentIngress(ct) ==
    /\ Idle
    /\ HandleCommitment(ct, <<>>, FALSE)

(* The running handler replays the next parked chunk (lines 584-588).      *)
ReplayChunk ==
    /\ ~halted
    /\ work # <<>>
    /\ Head(work).kind = "chunk"
    /\ HandleChunk(Head(work).chunk, Tail(work), TRUE)

(* The running handler replays the next parked pledge (lines 668-673).     *)
ReplayPledge ==
    /\ ~halted
    /\ work # <<>>
    /\ Head(work).kind = "pledge"
    /\ HandleCommitment(Head(work).tx, Tail(work), TRUE)

(* After the replay the commitment handler persists the accepted           *)
(* commitment; a failed write is only logged (lines 681-698).              *)
PersistCommitment ==
    /\ ~halted
    /\ work # <<>>
    /\ Head(work).kind = "persist"
    /\ \E ok \in BOOLEAN :
         db_commitments' = IF ok THEN db_commitments \cup {Head(work).tx}
                                 ELSE db_commitments
    /\ work' = Tail(work)
    /\ UNCHANGED <<mem_vars, cache_vars, halted, tip_height, db_tx_headers,
                   db_data_roots, db_chunks, db_ingress_proofs,
                   db_data_root_lru, db_promoted, task_vars, confirmed>>

(* Mutant: confirmed ids are left in recent_valid_tx.                      *)
BlockConfirmedKeepRecent(sub, com, pub) ==
    /\ Idle
    /\ valid_tx' = valid_tx \ sub
    /\ valid_commitment_tx' = [s \in Signers |-> valid_commitment_tx[s] \ com]
    /\ db_promoted' = db_promoted \cup (pub \cap db_tx_headers)
    /\ confirmed' = confirmed \cup sub \cup com
    /\ UNCHANGED <<invalid_tx, recent_valid_tx, cache_vars, work, halted,
                   tip_height, db_tx_headers, db_data_roots, db_commitments,
                   db_chunks, db_ingress_proofs, db_data_root_lru, task_vars>>

(***************************************************************************)
(* BlockConfirmedMessage handler (lines 1085-1185) for a block whose       *)
(* Submit ledger holds the ids sub, whose Commitment ledger holds com and  *)
(* whose Publish ledger promotes pub: remove the confirmed ids, then       *)
(* attach the proofs to the stored headers of the promoted txs, skipping   *)
(* the ones with no stored header.                                         *)
(***************************************************************************)
BlockConfirmed(sub, com, pub) ==
    /\ Idle
    /\ valid_tx' = valid_tx \ sub
    /\ valid_commitment_tx' = [s \in Signers |-> valid_commitment_tx[s] \ com]
    /\ recent_valid_tx' = recent_valid_tx \ (sub \cup com)
    /\ db_promoted' = db_promoted \cup (pub \cap db_tx_headers)
    /\ confirmed' = confirmed \cup sub \cup com
    /\ UNCHANGED <<invalid_tx, cache_vars, work, halted, tip_height,
                   db_tx_headers, db_data_roots, db_commitments, db_chunks,
                   db_ingress_proofs, db_data_root_lru, task_vars>>

(***************************************************************************)
(* A spawned ingress-proof task runs generate_ingress_proof (lines         *)
(* 1266-1342).  It walks the cached chunks of the root; when their total   *)
(* size or count differs from what the task was spawned with, an           *)
(* assert_eq! panics the task, which writes nothing.  Otherwise it writes  *)
(* the proof to IngressProofs in a db transaction of its own; a failed     *)
(* write is an Err that the task's unwrap() (line 942) turns into a panic. *)
(***************************************************************************)
ProofTaskRun(task) ==
    LET r     == task.root
        held  == db_chunks[r]
        bytes == BT!MapThenSumSet(LAMBDA o : GenuineLen(r, o), held)
        ok    == bytes = task.size /\ Cardinality(held) = ChunkCount(task.size)
    IN
    /\ task \in proof_tasks
    /\ proof_tasks' = proof_tasks \ {task}
    /\ \/ /\ ok
          /\ db_ingress_proofs' = db_ingress_proofs \cup {r}
          /\ expiry_writes' = expiry_writes \cup {[root |-> r, height |-> task.height]}
       \/ /\ ok /\ ProofWriteFailures
          /\ UNCHANGED <<db_ingress_proofs, expiry_writes>>
       \/ /\ ~ok
          /\ UNCHANGED <<db_ingress_proofs, expiry_writes>>
    /\ UNCHANGED <<mem_vars, cache_vars, work, halted, tip_height,
                   db_tx_headers, db_data_roots, db_commitments, db_chunks,
                   db_data_root_lru, db_promoted, proof_dispatches, confirmed>>

(***************************************************************************)
(* The same task then records the expiry entry of the root, with the tip   *)
(* height seen when it was spawned, in a second db transaction (lines      *)
(* 943-953); a failure panics the task at the unwrap(), after the proof    *)
(* has been written.                                                       *)
(***************************************************************************)
ExpiryRecordWrite(w) ==
    /\ w \in expiry_writes
    /\ expiry_writes' = expiry_writes \ {w}
    /\ \/ db_data_root_lru' = [db_data_root_lru EXCEPT ![w.root] = w.height]
       \/ /\ ProofWriteFailures
          /\ UNCHANGED db_data_root_lru
    /\ UNCHANGED <<mem_vars, cache_vars, work, halted, tip_height,
                   db_tx_headers, db_data_roots, db_commitments, db_chunks,
                   db_ingress_proofs, db_promoted, proof_tasks,
                   proof_dispatches, confirmed>>

(* The block tree extends the canonical chain by one block.                *)
AdvanceTip ==
    /\ tip_height < MaxHeight
    /\ tip_height' = tip_height + 1
    /\ UNCHANGED <<mem_vars, cache_vars, db_vars, work, halted, task_vars,
                   confirmed>>

(* After a panic every message to the actor fails with MailboxError        *)
(* (lines 68-84), changing nothing.                                        *)
MailboxClosed ==
    /\ halted
    /\ UNCHANGED vars

-----------------------------------------------------------------------------

Init ==
    /\ valid_tx = {}
    /\ valid_commitment_tx = [s \in Signers |-> {}]
    /\ invalid_tx = {}
    /\ recent_valid_tx = {}
    /\ pending_chunks = [r \in DataRoots |-> <<>>]
    /\ pending_chunks_lru = <<>>
    /\ pending_pledges = [s \in Signers |-> <<>>]
    /\ pending_pledges_lru = <<>>
    /\ work = <<>>
    /\ halted = FALSE
    /\ tip_height = 0
    /\ db_tx_headers = {}
    /\ db_data_roots = [r \in DataRoots |-> None]
    /\ db_commitments = {}
    /\ db_chunks = [r \in DataRoots |-> {}]
    /\ db_ingress_proofs = {}
    /\ db_data_root_lru = [r \in DataRoots |-> None]
    /\ db_promoted = {}
    /\ proof_tasks = {}
    /\ proof_dispatches = [r \in DataRoots |-> 0]
    /\ expiry_writes = {}
    /\ confirmed = {}

(* Blocks confirm at most one data and one commitment transaction each.    *)
BlockContents(S) == {x \in SUBSET S : Cardinality(x) <= 1}

Next ==
    \/ \E t \in DataTxs : TxIngress(t)
    \/ \E c \in Chunks : ChunkIngress(c)
    \/ \E ct \in CommitmentTxs : CommitmentIngress(ct)
    \/ ReplayChunk
    \/ ReplayPledge
    \/ PersistCommitment
    \/ \E sub \in BlockContents(DataTxs), com \in BlockContents(CommitmentTxs),
          pub \in BlockContents(confirmed \cap DataTxs) :
          BlockConfirmed(sub, com, pub)
    \/ \E task \in proof_tasks : ProofTaskRun(task)
    \/ \E w \in expiry_writes : ExpiryRecordWrite(w)
    \/ AdvanceTip
    \/ MailboxClosed

Spec == Init /\ [][Next]_vars

(***************************************************************************)
(* The replay of parked items is a loop inside the running handler, and    *)
(* the tokio runtime runs every task handed to spawn_blocking: these steps *)
(* are weakly fair.  Senders, block production and the tip are not.        *)
(***************************************************************************)
FairSpec ==
    /\ Spec
    /\ WF_vars(ReplayChunk \/ ReplayPledge \/ PersistCommitment)
    /\ WF_vars(\E task \in proof_tasks : ProofTaskRun(task))
    /\ WF_vars(\E w \in expiry_writes : ExpiryRecordWrite(w))

-----------------------------------------------------------------------------
(* Properties *)

AllCommitments == UNION {valid_commitment_tx[s] : s \in Signers}

(* Every variable holds a value of its type.                               *)
TypeOK ==
    /\ valid_tx \subseteq DataTxs
    /\ valid_commitment_tx \in [Signers -> SUBSET CommitmentTxs]
    /\ invalid_tx \subseteq TxIds
    /\ recent_valid_tx \subseteq TxIds
    /\ pending_chunks \in [DataRoots -> Seq(Chunks)]
    /\ pending_chunks_lru \in Seq(DataRoots)
    /\ pending_pledges \in [Signers -> Seq(CommitmentTxs)]
    /\ pending_pledges_lru \in Seq(Signers)
    /\ work \in Seq(WorkItems)
    /\ halted \in BOOLEAN
    /\ tip_height \in 0..MaxHeight
    /\ db_tx_headers \subseteq DataTxs
    /\ db_data_roots \in [DataRoots -> Nat \cup {None}]
    /\ db_commitments \subseteq CommitmentTxs
    /\ db_chunks \in [DataRoots -> SUBSET Nat]
    /\ db_ingress_proofs \subseteq DataRoots
    /\ db_data_root_lru \in [DataRoots -> Nat \cup {None}]
    /\ db_promoted \subseteq DataTxs
    /\ proof_tasks \subseteq ProofTasks
    /\ proof_dispatches \in [DataRoots -> 0..2]
    /\ expiry_writes \subseteq ExpiryWrites
    /\ confirmed \subseteq TxIds

(***************************************************************************)
(* recent_valid_tx is exactly the ids of the pending valid data and        *)
(* commitment transactions (spec 3): the tx handler, the commitment        *)
(* handler, the pledge replay and the block-confirmation handler each      *)
(* update the pools and this set separately, and a stale entry would let a *)
(* transaction anchor on an id that is no longer pending.                  *)
(***************************************************************************)
RecentValidConsistent ==
    recent_valid_tx = valid_tx \cup AllCommitments

(***************************************************************************)
(* No id recorded as invalid is pending as valid: an id that failed its    *)
(* anchor or signature check stays rejected even when its anchor block    *)
(* arrives later or it is resubmitted, by the tx and commitment handlers   *)
(* and the pledge replay alike.                                            *)
(***************************************************************************)
InvalidNeverValid ==
    invalid_tx \cap (valid_tx \cup AllCommitments) = {}

(***************************************************************************)
(* A chunk stays parked only while no data size is known for its root: the *)
(* tx handler that records the size takes the parked chunks out for        *)
(* replay, so none is left behind to wait for a parent that has come.      *)
(***************************************************************************)
PendingChunksUnresolved ==
    \A r \in DataRoots : pending_chunks[r] # <<>> => DataSizeOf(r) = None

(***************************************************************************)
(* No pledge stays parked while a stake of its signer is pending: a pledge *)
(* is parked only when the signer has no pending stake, and accepting any  *)
(* commitment of the signer drains its parked pledges (spec 4.2, 4.4).     *)
(***************************************************************************)
NoStrandedPledge ==
    \A s \in Signers :
        pending_pledges[s] # <<>> =>
            ~\E c \in valid_commitment_tx[s] : TxCommitmentType[c] = "Stake"

StakesPending  == {c \in AllCommitments : TxCommitmentType[c] = "Stake"}
PledgesPending == {c \in AllCommitments : TxCommitmentType[c] = "Pledge"}

(***************************************************************************)
(* Whatever the order among equal fees, GetBestMempoolTxs never selects    *)
(* more from a signer than its balance covers, counting its commitments    *)
(* and its data transactions together (spec 4.6).                          *)
(***************************************************************************)
SelectionFunded ==
    \A sel \in BT!Selections(StakesPending, PledgesPending, valid_tx) :
        \A s \in Signers : BT!SelectedSpend(sel, s) <= Balance[s]

(* GetBestMempoolTxs selects at most max_data_txs_per_block data txs.      *)
SelectionWithinCap ==
    \A sel \in BT!Selections(StakesPending, PledgesPending, valid_tx) :
        Len(sel.storage_tx) <= MaxDataTxsPerBlock

(***************************************************************************)
(* Once the chunk handler has spawned a proof task for a root, the root    *)
(* eventually has its ingress proof and its expiry record (spec 4.4 step  *)
(* 8, 4.7), when the db writes succeed: the task must be spawned only once *)
(* the chunks it walks are all cached, since no later chunk re-spawns it.  *)
(***************************************************************************)
ProofRecorded ==
    \A r \in DataRoots :
        (\E task \in proof_tasks : task.root = r)
            ~> (r \in db_ingress_proofs /\ db_data_root_lru[r] # None)

(* The refinement mapping: the pending pool of TxPool is the valid data   *)
(* transactions and the commitments of every signer's bucket, its          *)
(* rejected ids are invalid_tx.                                            *)
Pool == INSTANCE TxPool WITH
            Ids      <- TxIds,
            SigValid <- {id \in TxIds : TxSigValid[id]},
            pending  <- valid_tx \cup AllCommitments,
            rejected <- invalid_tx

(***************************************************************************)
(* The mempool implements TxPool: every step of the tx and commitment      *)
(* handlers, the pledge replay and block confirmation admits a new         *)
(* signature-valid id, rejects an id that is not pending, removes the ids  *)
(* of a confirmed block, or leaves the pools alone.  The handlers check    *)
(* "not pending" through recent_valid_tx and the signer's own bucket only. *)
(***************************************************************************)
PoolRefinement == Pool!Spec

-----------------------------------------------------------------------------
(* Properties the spec states of the code, which the code does not keep *)

(***************************************************************************)
(* The mempool never panics: replaying a parked chunk or a parked pledge   *)
(* is a validation like any other, and the spec (8) says a parked chunk is *)
(* validated when its parent arrives and stored "if valid".  The replay    *)
(* loops of lines 584-588 and 668-673 expect() every replayed item to pass, *)
(* and the chunk size check subtracts 1 from a u64 that may be 0 (838).    *)
(***************************************************************************)
NoPanic == ~halted

(***************************************************************************)
(* A data root gets at most one ingress-proof task (spec 8: a full chunk   *)
(* set triggers exactly one generation).  The chunk handler spawns a task  *)
(* whenever the cached count equals the expected count and no proof is     *)
(* recorded yet (lines 891-955), and the task records the proof only when  *)
(* it finishes.                                                            *)
(***************************************************************************)
ProofDispatchedOnce ==
    \A r \in DataRoots : proof_dispatches[r] <= 1

(***************************************************************************)
(* After block confirmation removes a pending transaction, it is never    *)
(* pending again, so GetBestMempoolTxs never re-selects it (spec 8).  The *)
(* property follows each id from a state where it is pending: once it is  *)
(* later confirmed and out of the pools, it stays out.  The tx handler's  *)
(* early out (line 481) consults only invalid_tx and recent_valid_tx, and *)
(* block confirmation removed the id from the latter.                     *)
(***************************************************************************)
ConfirmedNeverReselected ==
    \A t \in TxIds :
        [](t \in valid_tx \cup AllCommitments =>
             []((t \in confirmed /\ t \notin valid_tx \cup AllCommitments) =>
                  [](t \notin valid_tx \cup AllCommitments)))

(***************************************************************************)
(* Accepting a data transaction whose root has an expiry record refreshes  *)
(* that record to the anchor's height plus the expiry depth (spec 4.3 step *)
(* 3; lines 497-525 compute new_expiry for this).                          *)
(***************************************************************************)
ExpiryRefreshed ==
    [][\A t \in DataTxs :
         (/\ t \notin valid_tx /\ t \in valid_tx'
          /\ db_data_root_lru[TxDataRoot[t]] # None)
         => db_data_root_lru'[TxDataRoot[t]]
              = AnchorHeight(TxAnchor[t]) + AnchorExpiryDepth]_vars

(***************************************************************************)
(* A chunk is parked only while its parent transaction has not been seen   *)
(* (spec 3, pending chunk cache).  The chunk handler looks the root up in  *)
(* the CachedDataRoots table, which the tx handler writes in a db          *)
(* transaction whose failure it only logs (lines 545-570).                 *)
(***************************************************************************)
ChunksParkedOnlyForUnseenTx ==
    \A r \in DataRoots :
        pending_chunks[r] # <<>> => \A t \in valid_tx : TxDataRoot[t] # r

(***************************************************************************)
(* An ingress proof attests that all chunks of the data were received      *)
(* (glossary; spec 4.7): a root with a proof has every chunk of its data   *)
(* cached.  The chunk count and byte total are checked against the data    *)
(* size of the first transaction that named the root (database.rs 87-121). *)
(***************************************************************************)
ProofCoversAllChunks ==
    \A r \in db_ingress_proofs : TrueOffsets(r) \subseteq db_chunks[r]

(***************************************************************************)
(* Every recorded ingress proof has its expiry record, or its task is      *)
(* still about to write it (spec 4.7: the generator persists the proof     *)
(* plus an expiry record).  The proof and the record are written in two    *)
(* db transactions (lines 1339 and 943-953), each unwrap()ped.             *)
(***************************************************************************)
ProofHasExpiry ==
    \A r \in db_ingress_proofs :
        db_data_root_lru[r] # None \/ \E w \in expiry_writes : w.root = r
=============================================================================
