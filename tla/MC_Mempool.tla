----------------------------- MODULE MC_Mempool -----------------------------
(***************************************************************************)
(* A small instance of the mempool for TLC.  Two data transactions share   *)
(* the data root r1 (3 bytes, two chunks of ChunkSize 2); t2 anchors on    *)
(* the id of t1.  Signer a1 has a stake s1 and a pledge p1 and pays for    *)
(* t1; it is not staked on chain, so p1 waits for s1.  The chunk messages  *)
(* are the two genuine chunks and a copy of the last one whose bytes do    *)
(* not hash to its leaf.  Every pending cache holds one entry, so          *)
(* eviction happens.                                                       *)
(***************************************************************************)
EXTENDS Mempool, TLC

CONSTANTS t1, t2, t3, t4, t5, s1, s2, p1, a1, a2, r1, r2

MC_DataTxs == {t1, t2}
MC_CommitmentTxs == {s1, p1}
MC_Signers == {a1, a2}
MC_DataRoots == {r1}
MC_TxSigner == (t1 :> a1 @@ t2 :> a2 @@ s1 :> a1 @@ p1 :> a1)
MC_TxAnchor == (t1 :> 0 @@ t2 :> t1 @@ s1 :> 0 @@ p1 :> 1)
MC_TxFee == (t1 :> 2 @@ t2 :> 1 @@ s1 :> 1 @@ p1 :> 1)
MC_TxSigValid == (t1 :> TRUE @@ t2 :> TRUE @@ s1 :> TRUE @@ p1 :> TRUE)
MC_TxDataRoot == (t1 :> r1 @@ t2 :> r1)
MC_TxDataSize == (t1 :> 3 @@ t2 :> 3)
MC_TxCommitmentType == (s1 :> "Stake" @@ p1 :> "Pledge")
MC_TrueDataSize == (r1 :> 3)
MC_SmDataSize == (r1 :> None)
MC_Chunks ==
    { [root |-> r1, offset |-> 0, size |-> 3, len |-> 2, hashOk |-> TRUE],
      [root |-> r1, offset |-> 1, size |-> 3, len |-> 1, hashOk |-> TRUE],
      [root |-> r1, offset |-> 1, size |-> 3, len |-> 1, hashOk |-> FALSE] }
MC_Balance == (a1 :> 3 @@ a2 :> 1)
MC_Staked == {}
MC_CacheResponses == {"Unstaked"}

(***************************************************************************)
(* An adversarial instance.  t1 is unfunded; t3 and t4 are funded txs of   *)
(* a2 that claim the data root r1 with a false data size (0 and 2 bytes);  *)
(* t5 has a bad signature.  The stake s2 is good; the pledge p1 has a bad  *)
(* signature, so its replay after s2 panics the actor.  The                *)
(* commitment cache may give any answer.  The build checks overflow.      *)
(***************************************************************************)
ADV_DataTxs == {t1, t3, t4, t5}
ADV_CommitmentTxs == {s2, p1}
ADV_TxSigner == (t1 :> a1 @@ t3 :> a2 @@ t4 :> a2 @@ t5 :> a2 @@
                 s2 :> a1 @@ p1 :> a1)
ADV_TxAnchor == (t1 :> 0 @@ t3 :> 0 @@ t4 :> 0 @@ t5 :> 0 @@
                 s2 :> 0 @@ p1 :> 0)
ADV_TxFee == (t1 :> 2 @@ t3 :> 1 @@ t4 :> 1 @@ t5 :> 1 @@
              s2 :> 1 @@ p1 :> 1)
ADV_TxSigValid == (t1 :> TRUE @@ t3 :> TRUE @@ t4 :> TRUE @@ t5 :> FALSE @@
                   s2 :> TRUE @@ p1 :> FALSE)
ADV_TxDataRoot == (t1 :> r1 @@ t3 :> r1 @@ t4 :> r1 @@ t5 :> r1)
ADV_TxDataSize == (t1 :> 3 @@ t3 :> 0 @@ t4 :> 2 @@ t5 :> 3)
ADV_TxCommitmentType == (s2 :> "Stake" @@ p1 :> "Pledge")
ADV_Chunks ==
    { [root |-> r1, offset |-> 0, size |-> 0, len |-> 2, hashOk |-> TRUE],
      [root |-> r1, offset |-> 0, size |-> 2, len |-> 2, hashOk |-> TRUE],
      [root |-> r1, offset |-> 1, size |-> 2, len |-> 1, hashOk |-> TRUE] }
ADV_Balance == (a1 :> 1 @@ a2 :> 2)
ADV_CacheResponses == {"Unstaked", "Unsupported", "Accepted"}

(***************************************************************************)
(* A pledge-only instance: the pledge p1 of a1 carries a bad signature and *)
(* arrives before the stake s2 of a1; no data traffic.                     *)
(***************************************************************************)
PLG_DataTxs == {}
PLG_TxSigner == (s2 :> a1 @@ p1 :> a1)
PLG_TxAnchor == (s2 :> 0 @@ p1 :> 0)
PLG_TxFee == (s2 :> 1 @@ p1 :> 1)
PLG_TxSigValid == (s2 :> TRUE @@ p1 :> FALSE)
PLG_TxDataRoot == [t \in {} |-> r1]
PLG_Chunks == {}

(***************************************************************************)
(* A data-only instance for the liveness of proof generation: the data     *)
(* transactions and chunks of the main instance, no commitments, and a     *)
(* second root r2 (one chunk) that only the storage modules know, so its   *)
(* proof task is spawned before any transaction names it.                  *)
(***************************************************************************)
LIV_DataRoots == {r1, r2}
LIV_TrueDataSize == (r1 :> 3 @@ r2 :> 2)
LIV_SmDataSize == (r1 :> None @@ r2 :> 2)
LIV_Chunks ==
    MC_Chunks \cup {[root |-> r2, offset |-> 0, size |-> 2, len |-> 2, hashOk |-> TRUE]}
LIV_CommitmentTxs == {s1}
LIV_TxSigner == (t1 :> a1 @@ t2 :> a2 @@ s1 :> a1)
LIV_TxAnchor == (t1 :> 0 @@ t2 :> t1 @@ s1 :> 0)
LIV_TxFee == (t1 :> 2 @@ t2 :> 1 @@ s1 :> 1)
LIV_TxSigValid == (t1 :> TRUE @@ t2 :> TRUE @@ s1 :> TRUE)
LIV_TxCommitmentType == (s1 :> "Stake")
=============================================================================
