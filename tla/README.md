# Verification of the Irys mempool

This directory holds TLA+ models of the mempool of the Irys node
(`src/crates/actors/src/mempool_service.rs`) and of the database helpers it
calls (`src/crates/database/src/database.rs`). Alongside them are TLC
configurations that model-check small instances, and TLAPS proofs of the main
pool invariants for every instance.

## The system

The mempool is an actix actor. It handles one message at a time, and each
message is one of the following:

- **TxIngressMessage** (lines 469-600) admits a data transaction. The steps run in this order:
  1. An early out for an id already in `invalid_tx` or `recent_valid_tx`.
  2. Anchor validation (`validate_anchor`, 200-243). An anchor is a recent block hash, or the id of a pending transaction.
  3. The DataRootLRU expiry "refresh".
  4. The balance check, then the signature check.
  5. Admission into `valid_tx` and `recent_valid_tx`.
  6. A db transaction that writes the CachedDataRoot (`cache_data_root`) and the header. A failure of this write is only logged.
  7. Replay of the chunks parked for the data root. Each replayed chunk goes through the chunk handler with `expect()`.
- **CommitmentTxIngressMessage** (606-738) admits a stake or a pledge. The steps run in this order:
  1. The early outs.
  2. Anchor validation.
  3. `get_commitment_status` (286-349). A pledge of an unstaked signer is accepted when a stake of the signer is pending, and is parked otherwise.
  4. The signature check.
  5. Admission.
  6. Replay of the pledges parked for the signer, with `expect()`.
  7. Persisting the commitment. A failure here is only logged.
- **ChunkIngressMessage** (740-965) handles a chunk:
  1. It resolves the data size from CachedDataRoots or the storage modules.
  2. If no size is known, it parks the chunk in the two-level `pending_chunks` LRU cache.
  3. Otherwise it validates size, path, length and hash.
  4. It caches the chunk (`cache_chunk`).
  5. When the cached count reaches the expected count and no proof exists, it spawns `generate_ingress_proof` (1266-1342) on another runtime. That task writes IngressProofs and then the DataRootLRU entry.
- **GetBestMempoolTxs** (977-1083) selects the candidates for a block: stakes, then pledges, then data txs, each group by descending fee. A per-signer running spend (`check_funding`) limits what each signer can afford. Data txs are capped at `max_data_txs_per_block`.
- **BlockConfirmedMessage** (1085-1185) removes confirmed ids from the pools and `recent_valid_tx`. It then attaches ingress proofs to the stored headers of promoted txs.

A panic inside a handler stops the actor. After that, every message fails
with `MailboxError` (68-84).

## Modules

| module | models |
|---|---|
| `BestTxs` | The selector of GetBestMempoolTxs as a pure fold (`CheckFunding`, `SelectCommitments`, `SelectStorage`). `FeeOrders` gives every fee-sorted order; ties may come in any order, which covers the stable sort. |
| `Mempool` | The actor: its state, one action per handler, the replay queue, proof tasks, the block tree tip, and the properties. |
| `MC_Mempool` | The instances for TLC (model values and constant functions). |
| `MempoolProofs` | TLAPS proofs: type correctness and the pool invariants. |
| `TxPool` | The abstract pool the mempool promises: `Admit`, `Reject`, `Confirm` over sets `pending` and `rejected`. |
| `MempoolRefinement` | The TLAPS proof that `Mempool` implements `TxPool`. |
| `MempoolCacheProofs` | TLAPS proofs of the two parking invariants of the pending caches. |
| `SelectionProofs` | TLAPS proof that the selector respects `max_data_txs_per_block`, by induction over the storage loop. |

State of `Mempool` and how it corresponds to the code:

- The pools (`valid_tx`, `valid_commitment_tx` by signer, `invalid_tx`, `recent_valid_tx`) are sets of ids. A transaction is a model value, and its fields are constant functions of the id.
- An LRU cache (crate `lru`) is a sequence, least recent first:
  - `LruPut` replaces and promotes an existing key, or evicts the head when the cache is full.
  - `RemoveKey` is `pop`.
  - `Drain` is `into_iter` of a popped cache.
  - The two-level caches are an outer order (`pending_chunks_lru`, `pending_pledges_lru`) plus a map of inner sequences.
- The replay loops are a work queue, `work`:
  - The tx handler puts the parked chunks on it.
  - The commitment handler puts the parked pledges on it, followed by a "persist" item.
  - The actor takes no new message until the queue is empty.
  - Between two items, only the other actors move: the tip advances and proof tasks run.
  - `replaying` tells `HandleChunk` and `HandleCommitment` that an error is a panic (`halted`).
- The database tables are functions or sets: CachedDataRoots, CachedChunksIndex (offsets), IngressProofs, DataRootLRU, IrysTxHeaders and the commitment table.
- The spawned proof tasks are a set of `[root, size, height]` records. A task runs in two steps, because the code writes in two db transactions:
  - `ProofTaskRun` checks its chunks' total size and count against the size it was spawned with (the `assert_eq!`s), then writes IngressProofs (line 1339). On success it leaves a pending DataRootLRU write in `expiry_writes`.
  - `ExpiryRecordWrite` performs that write (lines 943-953).
  - When the constant `ProofWriteFailures` is TRUE, either write may fail. The task then panics on the `unwrap`, and whatever it had not yet written is never written.
- The block tree is reduced to `tip_height`, and a block hash to its height.
- Data sizes and chunk offsets are real numbers. The u64 underflow of line 838 is modelled for both builds:
  - with overflow checks (`OverflowChecks`), it panics;
  - without them, the wrapped value means "every offset is a non-last chunk".
- Formatting, logging, gossip and the storage-module writes are left out.

## Runs

| run | cfg | result | shows |
|---|---|---|---|
| mempool_main | `MC_Mempool.cfg` | pass, 1,189,512 states | With honest traffic in every arrival order, the checked properties hold. Those properties are: `recent_valid_tx` equals the pools; invalid ids never become valid; no chunk is parked for a known root; no pledge is parked while a stake of its signer is pending; selection stays within each balance and within the cap. The traffic includes a tx anchored on a pending tx, a pledge before its stake, block confirmations, proof tasks and the tip advancing. |
| mempool_adversarial | `MC_Adversarial.cfg` | pass, 794,112 states | The bookkeeping invariants hold under hostile input: unfunded txs, badly signed txs, txs that lie about the data size, every commitment-cache answer, overflow checks on, and proof-task writes that may fail. |
| chunk_replay_panic | `MC_ChunkReplayPanic.cfg` | violation of `NoPanic` | A chunk with bad bytes, parked before its tx arrives, panics the actor on replay (line 587). |
| pledge_replay_panic | `MC_PledgeReplayPanic.cfg` | violation of `NoPanic` | A badly signed pledge, parked before the stake, panics the actor on replay (line 672). |
| underflow_panic | `MC_UnderflowPanic.cfg` | violation of `NoPanic` | A chunk for a zero-size tx panics at `num_chunks_in_tx - 1` (line 838). |
| duplicate_proof_task | `MC_DuplicateProofTask.cfg` | violation of `ProofDispatchedOnce` | A resent chunk spawns a second proof task before the first has written its proof. |
| confirmed_readmitted | `MC_ConfirmedReadmitted.cfg` | violation of `ConfirmedNeverReselected` (a temporal property) | A tx is admitted, block confirmation removes it, and the same tx received again is admitted again (line 481), so it can be selected for a later block. Spec 8 says it is never re-selected. |
| expiry_not_refreshed | `MC_ExpiryNotRefreshed.cfg` | violation of `ExpiryRefreshed` | The refresh writes `old_expiry` back, not `new_expiry` (line 511). |
| chunks_parked_for_seen_tx | `MC_ChunksParkedForSeenTx.cfg` | violation of `ChunksParkedOnlyForUnseenTx` | A failed data-root write makes the chunks of an admitted tx be parked. |
| partial_proof | `MC_PartialProof.cfg` | violation of `ProofCoversAllChunks` | A first tx that declares a too-small size for a real root gets a proof over part of the data. |
| proof_without_expiry | `MC_ProofWithoutExpiry.cfg` | violation of `ProofHasExpiry` | The DataRootLRU write fails after the proof is stored. The proof then has no expiry record, and the chunk handler never re-dispatches because a proof exists. |
| proof_liveness_refinement | `MC_ProofLiveness.cfg` | pass (`FairSpec`), 490,392 states | `ProofRecorded`: every root that got a proof task eventually has both a proof and an expiry record. `PoolRefinement`: the pools refine `TxPool` (see below). The instance has two roots, two data txs (the second anchored on the first) and a stake, with writes that do not fail and the tip moving to 1. |

Each property of the passing runs is also checked against a mutant of the code
that it must catch (PROJECT.json, "mutants"). Examples:

- a block confirmation that keeps the ids in `recent_valid_tx`;
- a `check_funding` that ignores the running spend;
- a storage loop without its `break`.

**Bounds.** Every pending cache has capacity 1, so each put into a non-empty
cache evicts. Two data txs share one root, so the second finds the root
already cached. Its anchor is the first tx, so it depends on the first being
pending. The root has two chunks, and one more chunk has bad bytes, so
completion, duplicates and invalid replays all happen. A signer's pledge can
come before its stake, and balances are tight enough that selection must
refuse a candidate. The tip moves up to 2 with an expiry depth of 1, so an
anchor can both become known and expire. The adversarial instance replaces
the honest txs by lying, unfunded and badly signed ones. It keeps the tip at
0, which keeps the run under three minutes.

**Fairness.** `Spec` assumes none, and every safety run uses it. `FairSpec`
adds weak fairness on three things:

- **The replay loop** (`ReplayChunk`, `ReplayPledge`, `PersistCommitment`). These steps run inside the handler that queued them, so the actor cannot stop between them.
- **`ProofTaskRun`.** A task given to `spawn_blocking` is run by the tokio runtime.
- **`ExpiryRecordWrite`.** It is the rest of that same task.

Senders, blocks and the tip get no fairness. A parked chunk's parent may
never arrive, and a chunk evicted from a full cache is lost. So the only
liveness property is about work the node has already started. Deadlock is
checked: a live actor can always take a message, and a halted one answers
with `MailboxClosed`.

**Refinement.** `Mempool` defines `Pool == INSTANCE TxPool` with the mapping
`pending <- valid_tx \cup AllCommitments`, `rejected <- invalid_tx` and
`SigValid <- {id : TxSigValid[id]}`. `PoolRefinement == Pool!Spec` is
checked by the proof_liveness_refinement run and proved by `PoolRefinementHolds`.

## Proofs (`MempoolProofs`)

All proofs assume only `ConstantsAssumption`: the types of the constant
functions, capacities of at least 1, and `None` outside `Nat`.

- `TypeCorrect`: `Spec => []TypeOK`. There is one lemma per handler. No run checks `TypeOK`. It is proved for every value of the constants, and a plausible change to the Rust code that type-checks would not break it.
  - The LRU lemmas (`LruPutType`, `RemoveKeyType`) show that `put` and `pop` keep a cache a sequence over its element set, whichever key (`LruKey`: the entry itself, or a chunk's `tx_offset`) the cache uses.
  - `WorkHeadType` shows that a replay item carries a chunk or a commitment id of its kind.
- `RecentValidConsistentHolds` and `InvalidNeverValidHolds` rest on the inductive invariant `IInv`. It combines `TypeOK`, `BucketsBySigner` (every pending commitment sits in the bucket of its signer) and the two invariants.
  - `BucketsBySigner` is needed because the commitment handler checks only the signer's own bucket before marking an id invalid. Without it, an id marked invalid could already be pending in another bucket.
  - The disjointness of data and commitment ids is needed for block confirmation, which removes both kinds from one set.
  - TLC checked `IInv` on both passing instances before it was proved.

- `PoolRefinementHolds` (`MempoolRefinement`): `Spec => Pool!Spec`.
  - `Init` maps to `Pool!Init`.
  - Under `IInv`, every step maps to a step or a stutter of `TxPool`. There is one lemma per handler:
    - The tx handler's early out tests only `recent_valid_tx`. `RecentValidConsistent` makes that test "not pending".
    - The commitment handler tests only the signer's bucket. `BucketsBySigner` makes that test "not pending" too.
    - Block confirmation is `Confirm(sub \cup com)`, using the disjointness of data and commitment ids.
    - Every other step leaves the pools unchanged.
  - The temporal step combines these with `IInvInductive` by PTL.

## Proofs about the caches (`MempoolCacheProofs`)

- `NoStrandedPledgeHolds`: `Spec => []NoStrandedPledge`.
  - The invariant is inductive with `TypeOK` alone.
  - The commitment handler parks a pledge only when `CommitmentStatus` says "Unstaked". `UnstakedHasNoStake` shows the signer then has no pending stake.
  - Accepting a commitment empties the signer's parked pledges in the same step.
  - Parking touches no other signer except to evict it, which only empties its entry (`ParkPledgeOthers`).
- `PendingChunksUnresolvedHolds`: `Spec => []PendingChunksUnresolved`, inductive with `TypeOK` alone.
  - The one root whose size the tx handler may write is the root whose parked chunks it pops. This holds whether or not the write happens.
  - The chunk handler parks only under a root of unknown size and writes no size.
- No property is stated about the sizes of the pending caches. In the code, each outer `LruCache` owns its inner caches, and the `lru` crate keeps every cache within its `NonZeroUsize` capacity. A bound on the model's two-level encoding would check the encoding and the library, not the mempool code.

## Proofs about the selector (`SelectionProofs`)

- `SelectionWithinCapHolds`: under `IsFiniteSet(DataTxs)` alone, `Spec => []SelectionWithinEffectiveCap`. It holds for every `max_data_txs_per_block`, including 0.
  - For a nonzero limit, `SelectionWithinEffectiveCap` is `SelectionWithinCap`.
  - For a limit of 0 it bounds the data txs by one. The length test runs after the push (line 1071), so the first push already breaks the loop.
  - Finiteness makes every `FeeOrders` candidate a sequence.
- `ZeroCapSelectsOne`: with a limit of 0, the storage loop returns its first candidate whenever `check_funding` accepts it. So a zero limit does not keep data txs out of a block. This is the numeric-edge hazard at `mempool_service.rs:1071`. The runs use a limit of 1, so this edge is established by the proof, not by a run.
- The lemma `StorageWithinCap` proves the loop invariant of the storage fold for every input sequence: the picked txs never exceed `EffectiveCap` (the limit, or 1 for a zero limit), and stay strictly below it until the loop breaks.
  - `FiniteNatInductiveDef` (NaturalsInduction) turns the recursive function `g[i \in 0..Len(seq)]` into its defining equation.
  - Induction over the indices uses `NatSetInduction`. It states induction for a set rather than an operator, and is proved from `WFMin` and `NatLessThanWellFounded` (WellFoundedInduction). The provers cannot instantiate the operator parameter of `NatInduction`, but they can instantiate a set.

- `SelectionFundedHolds`: under `IsFiniteSet(TxIds)`, `Spec => []SelectionFunded`. For each signer, the fees of its selected commitment txs and data txs together stay within its balance.
  - The selected spend (`BT!SeqSpend`) is a fold over the selected sequences, and it counts an entry as often as it occurs. It is therefore never below the sum over the set of selected ids, so the property is at least as strong as a set-based one.
  - The loop invariant is `FundOK`. Every signer's picked spend, plus what an earlier loop picked, is within its balance. For a signer not yet marked unfunded, it equals the running `fees_spent_per_address` entry.
  - The equality is what the proof needs. A funded push adds the fee to both sides, and `check_funding` compares the new running spend with the balance. An unfunded signer is never picked again, so its last bound stays valid.
  - `FundStep` proves that one `check_funding` call keeps `FundOK`.
  - `CommitmentsFunded` carries it along the commitment fold from zero.
  - `StorageFunded` carries it along the storage fold, starting from the funding state and the spend the commitment fold leaves. The break on `max_txs` only ends that fold early.
  - `SeqSpendEmpty`, `SeqSpendAppend` and `SeqSpendNat` give the spend of the empty sequence, of an append, and its type. They are proved the same way as the storage fold: `FiniteNatInductiveDef`, then induction over the indices.

## What only TLC checks

- `ProofRecorded`, a liveness property. TLAPS does not prove liveness or `ENABLED` here.
- The properties of the violation runs, which are counterexamples by design.

## Not modelled

- The read-only queries `TxExistenceQuery` and `GetTransaction`.
- The merkle proof, the signing and the hashing inside `generate_ingress_proof`. The model keeps only the size and count checks and the writes.
- Storage-module writes and the gossip sends.
- The chunk handler's database and storage-module error returns (lines 870, 880, 893-919, 923 and 934). No checked property depends on them. During a replay each of them would also reach the `expect` at line 587, like the rejections the chunk_replay_panic run shows.
- `BlockConfirmed`'s `proofs.unwrap()` and `proofs.0[i]`, which panic on a malformed block (block contents come from block validation).
- A crash of the whole node. Nothing in the mempool's memory survives it, and the model has no restart.
- Forks: an anchor's block is assumed canonical.
- Node startup, mining, the HTTP route, chainspec parsing and the type and serialization crates. These are wiring, I/O and data definitions.
