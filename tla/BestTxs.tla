------------------------------ MODULE BestTxs ------------------------------
(***************************************************************************)
(* The best-transaction selector of the mempool: the handler of            *)
(* GetBestMempoolTxs (mempool_service.rs 977-1083).  It is a pure query:   *)
(* given the pending valid commitments and data transactions it returns    *)
(* the candidate sets for the next block.  Candidates are considered       *)
(* stakes first, then pledges, then data transactions, each group in       *)
(* descending fee order; the closure check_funding keeps a running spend   *)
(* per signer and marks a signer unfunded at the first candidate its       *)
(* balance cannot cover.  The fold is written as a recursive function over *)
(* an index domain, not as a RECURSIVE operator, so that it can be reasoned *)
(* about with TLAPS.                                                       *)
(***************************************************************************)
EXTENDS Naturals, Sequences, FiniteSets, FiniteSetsExt

CONSTANTS
    Signers,            \* account addresses
    TxSigner,           \* transaction id -> signer
    TxFee,              \* transaction id -> total_fee()
    Balance,            \* signer -> on-chain balance (execution-state snapshot)
    MaxDataTxsPerBlock  \* config: mempool.max_data_txs_per_block

(* The funding state threaded through check_funding: fees_spent_per_address *)
(* and unfunded_address (lines 982-984).                                    *)
InitFunding == [spent |-> [s \in Signers |-> 0], unfunded |-> {}]

(* Mutant: the balance is compared with the fee alone, not the running    *)
(* spend of the signer.                                                    *)
CheckFundingPerTx(fs, tx) ==
    LET s     == TxSigner[tx]
        funds == Balance[s] >= TxFee[tx]
    IN  IF s \in fs.unfunded
        THEN [fs |-> fs, ok |-> FALSE]
        ELSE [fs |-> [spent    |-> [fs.spent EXCEPT ![s] = @ + TxFee[tx]],
                      unfunded |-> IF funds THEN fs.unfunded
                                            ELSE fs.unfunded \cup {s}],
              ok |-> funds]

(***************************************************************************)
(* check_funding (lines 989-1022): the new funding state and whether tx is *)
(* funded.  The fee is added to the signer's spend even when the balance   *)
(* does not cover it, and the signer is then marked unfunded.              *)
(***************************************************************************)
CheckFunding(fs, tx) ==
    LET s     == TxSigner[tx]
        need  == fs.spent[s] + TxFee[tx]
        funds == Balance[s] >= need
    IN  IF s \in fs.unfunded
        THEN [fs |-> fs, ok |-> FALSE]
        ELSE [fs |-> [spent    |-> [fs.spent EXCEPT ![s] = need],
                      unfunded |-> IF funds THEN fs.unfunded
                                            ELSE fs.unfunded \cup {s}],
              ok |-> funds]

(***************************************************************************)
(* The commitment loop (lines 1026-1047) over the already sorted sequence  *)
(* of candidates (stakes followed by pledges): every candidate is checked, *)
(* the funded ones are pushed.                                             *)
(***************************************************************************)
SelectCommitments(seq) ==
    LET f[i \in 0..Len(seq)] ==
          IF i = 0 THEN [fs |-> InitFunding, picked |-> <<>>]
          ELSE LET r == CheckFunding(f[i-1].fs, seq[i])
               IN  [fs     |-> r.fs,
                    picked |-> IF r.ok THEN Append(f[i-1].picked, seq[i])
                                       ELSE f[i-1].picked]
    IN  f[Len(seq)]

(* Mutant: the loop never breaks on max_txs.                               *)
SelectStorageNoBreak(fs0, seq) ==
    LET g[i \in 0..Len(seq)] ==
          IF i = 0 THEN [fs |-> fs0, picked |-> <<>>]
          ELSE LET r == CheckFunding(g[i-1].fs, seq[i])
               IN  [fs     |-> r.fs,
                    picked |-> IF r.ok THEN Append(g[i-1].picked, seq[i])
                                       ELSE g[i-1].picked]
    IN  g[Len(seq)]

(***************************************************************************)
(* The storage-transaction loop (lines 1056-1075): as above, but the loop  *)
(* breaks right after a push that brings the count to max_txs; the length  *)
(* test follows the push, so it is not consulted before the first one.     *)
(***************************************************************************)
SelectStorage(fs0, seq) ==
    LET g[i \in 0..Len(seq)] ==
          IF i = 0 THEN [fs |-> fs0, picked |-> <<>>, done |-> FALSE]
          ELSE IF g[i-1].done THEN g[i-1]
          ELSE LET r      == CheckFunding(g[i-1].fs, seq[i])
                   picked == IF r.ok THEN Append(g[i-1].picked, seq[i])
                                     ELSE g[i-1].picked
               IN  [fs     |-> r.fs,
                    picked |-> picked,
                    done   |-> r.ok /\ Len(picked) >= MaxDataTxsPerBlock]
    IN  g[Len(seq)]

(* The handler's result for given fee-sorted stake, pledge and storage     *)
(* sequences: MempoolTxs { commitment_tx, storage_tx }.                    *)
GetBestMempoolTxs(stakes, pledges, storage) ==
    LET c == SelectCommitments(stakes \o pledges)
        d == SelectStorage(c.fs, storage)
    IN  [commitment_tx |-> c.picked, storage_tx |-> d.picked]

(***************************************************************************)
(* sort_by(|a, b| b.total_fee().cmp(&a.total_fee())): every enumeration of *)
(* S in non-increasing fee order.  The sort is stable over BTreeMap and    *)
(* Vec order; the model lets ties come in any order, which covers the one  *)
(* the code takes.                                                         *)
(***************************************************************************)
FeeOrders(S) ==
    {seq \in Bijection(1..Cardinality(S), S) :
        \A i, j \in 1..Cardinality(S) : i < j => TxFee[seq[i]] >= TxFee[seq[j]]}

(* Every result the selector can return for these candidate sets.          *)
Selections(stakes, pledges, storage) ==
    {GetBestMempoolTxs(a, b, c) :
        a \in FeeOrders(stakes), b \in FeeOrders(pledges), c \in FeeOrders(storage)}

(* The fees signer s spends on the txs of a selected sequence: the sum of  *)
(* total_fee() over its entries signed by s, an entry counted as often as  *)
(* it occurs.                                                              *)
SeqSpend(seq, s) ==
    LET h[i \in 0..Len(seq)] ==
          IF i = 0 THEN 0
          ELSE h[i-1] + (IF TxSigner[seq[i]] = s THEN TxFee[seq[i]] ELSE 0)
    IN  h[Len(seq)]

(* The fees a selection spends from signer s: its commitment txs and its   *)
(* data txs together.                                                      *)
SelectedSpend(sel, s) ==
    SeqSpend(sel.commitment_tx, s) + SeqSpend(sel.storage_tx, s)
=============================================================================
