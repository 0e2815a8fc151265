------------------------- MODULE MempoolRefinement -------------------------
(***************************************************************************)
(* Proof that the mempool actor implements the abstract pool TxPool under  *)
(* the mapping Pool of module Mempool: pending <- valid_tx \cup            *)
(* AllCommitments, rejected <- invalid_tx.  Each step is matched with an   *)
(* abstract step using the inductive invariant IInv of MempoolProofs: the  *)
(* handlers test "not pending" on recent_valid_tx and on the signer's own  *)
(* bucket, which RecentValidConsistent and BucketsBySigner make equal to   *)
(* the whole pending pool.                                                 *)
(***************************************************************************)
EXTENDS MempoolProofs

USE ConstantsAssumption

(* The pending pool of the mapping.                                        *)
PendingPool == valid_tx \cup AllCommitments

(* A step that leaves the pools alone is a stutter of TxPool.              *)
LEMMA StutterRefines ==
    ASSUME UNCHANGED mem_vars
    PROVE  [Pool!Next]_Pool!pool_vars
BY DEF mem_vars, Pool!pool_vars, AllCommitments

(* The tx handler admits a signature-valid new id, rejects an id that is  *)
(* not pending, or leaves the pools alone.                                 *)
LEMMA TxIngressRefines ==
    ASSUME TypeOK, PoolsOK, NEW t \in DataTxs, TxIngress(t)
    PROVE  [Pool!Next]_Pool!pool_vars
<1>1. ~Known(t) /\ UNCHANGED valid_commitment_tx
  BY DEF TxIngress
<1>2. t \notin PendingPool /\ t \notin invalid_tx /\ t \in TxIds
  BY <1>1 DEF Known, PoolsOK, RecentValidConsistent, PendingPool, TxIds
<1>3. AllCommitments' = AllCommitments
  BY <1>1 DEF AllCommitments
<1>4. CASE /\ invalid_tx' = invalid_tx \cup {t}
           /\ UNCHANGED valid_tx
  <2>1. Pool!Reject(t)
    BY <1>2, <1>3, <1>4 DEF Pool!Reject, PendingPool
  <2>2. QED
    BY <1>2, <2>1 DEF Pool!Next
<1>5. CASE UNCHANGED mem_vars
  BY <1>5, StutterRefines
<1>6. CASE /\ TxSigValid[t]
           /\ valid_tx' = valid_tx \cup {t}
           /\ UNCHANGED invalid_tx
  <2>1. Pool!Admit(t)
    BY <1>2, <1>3, <1>6 DEF Pool!Admit, PendingPool
  <2>2. QED
    BY <1>2, <2>1 DEF Pool!Next
<1>7. QED
  BY <1>4, <1>5, <1>6 DEF TxIngress, mem_vars

(* The commitment handler likewise: an id it marks invalid is in no        *)
(* bucket, an id it admits was in none.                                    *)
LEMMA HandleCommitmentRefines ==
    ASSUME TypeOK, PoolsOK, NEW ct \in CommitmentTxs, NEW rest, NEW replaying,
           HandleCommitment(ct, rest, replaying)
    PROVE  [Pool!Next]_Pool!pool_vars
<1> DEFINE sgn == TxSigner[ct]
<1>1. sgn \in Signers /\ ct \notin valid_tx /\ ct \in TxIds
  BY DEF TxIds, TypeOK
<1>2. UNCHANGED valid_tx
  BY DEF HandleCommitment
<1>3. ASSUME NEW x \in Signers, ct \in valid_commitment_tx[x]
      PROVE  ct \in valid_commitment_tx[sgn]
  BY <1>3 DEF PoolsOK, BucketsBySigner
<1>4. ASSUME ct \notin valid_commitment_tx[sgn]
      PROVE  ct \notin PendingPool
  BY <1>1, <1>3, <1>4 DEF PendingPool, AllCommitments
<1>5. CASE /\ ct \notin invalid_tx /\ ct \notin valid_commitment_tx[sgn]
           /\ invalid_tx' = invalid_tx \cup {ct}
           /\ UNCHANGED valid_commitment_tx
  <2>1. AllCommitments' = AllCommitments
    BY <1>5 DEF AllCommitments
  <2>2. Pool!Reject(ct)
    BY <1>2, <1>4, <1>5, <2>1 DEF Pool!Reject, PendingPool
  <2>3. QED
    BY <1>1, <2>2 DEF Pool!Next
<1>6. CASE /\ ct \notin invalid_tx /\ ct \notin valid_commitment_tx[sgn]
           /\ TxSigValid[ct]
           /\ valid_commitment_tx' = [valid_commitment_tx EXCEPT ![sgn] = @ \cup {ct}]
           /\ UNCHANGED invalid_tx
  <2>1. AllCommitments' = AllCommitments \cup {ct}
    BY <1>1, <1>6, AllCommitmentsAdd
  <2>2. Pool!Admit(ct)
    BY <1>1, <1>2, <1>4, <1>6, <2>1 DEF Pool!Admit, PendingPool
  <2>3. QED
    BY <1>1, <2>2 DEF Pool!Next
<1>7. CASE UNCHANGED mem_vars
  BY <1>7, StutterRefines
<1>8. QED
  <2>1. \/ UNCHANGED mem_vars
        \/ /\ ct \notin invalid_tx /\ ct \notin valid_commitment_tx[sgn]
           /\ invalid_tx' = invalid_tx \cup {ct}
           /\ UNCHANGED valid_commitment_tx
        \/ /\ ct \notin invalid_tx /\ ct \notin valid_commitment_tx[sgn]
           /\ TxSigValid[ct]
           /\ valid_commitment_tx' = [valid_commitment_tx EXCEPT ![sgn] = @ \cup {ct}]
           /\ UNCHANGED invalid_tx
    BY DEF HandleCommitment, mem_vars
  <2>2. QED
    BY <1>5, <1>6, <1>7, <2>1

(* Block confirmation removes the confirmed ids from the pending pool.     *)
LEMMA BlockConfirmedRefines ==
    ASSUME TypeOK, NEW sub \in SUBSET DataTxs,
           NEW com \in SUBSET CommitmentTxs, NEW pub,
           BlockConfirmed(sub, com, pub)
    PROVE  [Pool!Next]_Pool!pool_vars
<1>1. /\ valid_tx' = valid_tx \ sub
      /\ valid_commitment_tx' = [x \in Signers |-> valid_commitment_tx[x] \ com]
      /\ UNCHANGED invalid_tx
  BY DEF BlockConfirmed
<1>2. AllCommitments' = AllCommitments \ com
  BY <1>1, AllCommitmentsRemove
<1>3. valid_tx \cap com = {} /\ AllCommitments \cap sub = {}
  BY AllCommitmentsType DEF TypeOK
<1>4. Pool!Confirm(sub \cup com)
  BY <1>1, <1>2, <1>3 DEF Pool!Confirm, PendingPool
<1>5. sub \cup com \in SUBSET TxIds
  BY DEF TxIds
<1>6. QED
  BY <1>4, <1>5 DEF Pool!Next

(* Every step of the mempool is a step or a stutter of TxPool.             *)
LEMMA NextRefines == TypeOK /\ PoolsOK /\ [Next]_vars => [Pool!Next]_Pool!pool_vars
<1> SUFFICES ASSUME TypeOK, PoolsOK, [Next]_vars
             PROVE  [Pool!Next]_Pool!pool_vars
  OBVIOUS
<1>1. CASE \E t \in DataTxs : TxIngress(t)
  BY <1>1, TxIngressRefines
<1>2. CASE \E ct \in CommitmentTxs : CommitmentIngress(ct)
  BY <1>2, HandleCommitmentRefines DEF CommitmentIngress
<1>3. CASE ReplayPledge
  <2>1. Head(work).tx \in CommitmentTxs
    BY <1>3, WorkHeadType DEF ReplayPledge, TypeOK
  <2>2. QED
    BY <1>3, <2>1, HandleCommitmentRefines DEF ReplayPledge
<1>4. CASE \E sub \in BlockContents(DataTxs), com \in BlockContents(CommitmentTxs),
             pub \in BlockContents(confirmed \cap DataTxs) :
             BlockConfirmed(sub, com, pub)
  BY <1>4, BlockConfirmedRefines DEF BlockContents
<1>5. CASE \/ \E c \in Chunks : ChunkIngress(c)
           \/ ReplayChunk
           \/ PersistCommitment
           \/ \E task \in proof_tasks : ProofTaskRun(task)
           \/ \E w \in expiry_writes : ExpiryRecordWrite(w)
           \/ AdvanceTip
           \/ MailboxClosed
           \/ UNCHANGED vars
  <2>1. UNCHANGED mem_vars
    BY <1>5 DEF ChunkIngress, ReplayChunk, HandleChunk, PersistCommitment,
                ProofTaskRun, ExpiryRecordWrite, AdvanceTip, MailboxClosed, vars
  <2>2. QED
    BY <2>1, StutterRefines
<1>6. QED
  BY <1>1, <1>2, <1>3, <1>4, <1>5 DEF Next

(***************************************************************************)
(* The mempool implements TxPool: whatever the handlers, the replays, the  *)
(* proof tasks and the tip interleave, an id becomes pending only with a   *)
(* valid signature while neither pending nor rejected, a rejection is      *)
(* final, and a pending id leaves the pool only by block confirmation.     *)
(***************************************************************************)
THEOREM PoolRefinementHolds == Spec => PoolRefinement
<1>1. Init => Pool!Init
  BY DEF Init, Pool!Init, AllCommitments
<1>2. IInv => TypeOK /\ PoolsOK
  BY DEF IInv, PoolsOK
<1>3. QED
  BY <1>1, <1>2, IInvInductive, NextRefines, PTL
     DEF Spec, PoolRefinement, Pool!Spec
=============================================================================
