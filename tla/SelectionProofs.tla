--------------------------- MODULE SelectionProofs ---------------------------
(***************************************************************************)
(* Proofs about the best-transaction selector of BestTxs, as the mempool   *)
(* instantiates it.  The selection loops are folds written as recursive    *)
(* functions over 0..Len(seq): FiniteNatInductiveDef unfolds such a        *)
(* function into its defining equation, and induction over the indices,  *)
(* from the well-foundedness of < on Nat, carries a loop invariant along.  *)
(***************************************************************************)
EXTENDS MempoolProofs, FiniteSetTheorems

(* Induction over Nat, stated for a set so that it is used without         *)
(* instantiating an operator: a set that holds 0 and is closed under       *)
(* successor holds every natural number.                                   *)
LEMMA NatSetInduction ==
    ASSUME NEW S, 0 \in S, \A i \in Nat : i \in S => i + 1 \in S
    PROVE  Nat \subseteq S
<1> SUFFICES ASSUME Nat \ S # {} PROVE FALSE
  OBVIOUS
<1>1. \E x \in Nat \ S : \A y \in Nat \ S : ~(<<y, x>> \in OpToRel(<, Nat))
  BY NatLessThanWellFounded, WFMin
<1>2. PICK x \in Nat \ S : \A y \in Nat \ S : ~(<<y, x>> \in OpToRel(<, Nat))
  BY <1>1
<1>3. x # 0
  OBVIOUS
<1>4. x - 1 \in Nat /\ <<x - 1, x>> \in OpToRel(<, Nat)
  BY <1>3 DEF OpToRel
<1>5. x - 1 \in S
  BY <1>2, <1>4
<1>6. (x - 1) + 1 \in S
  BY <1>4, <1>5
<1>7. QED
  BY <1>6

-----------------------------------------------------------------------------
(* The storage loop *)

(* The number of data txs the storage loop can return: the length test    *)
(* follows the push (lines 1068-1073), so a limit of 0 still lets one tx   *)
(* through before the loop breaks.                                         *)
EffectiveCap == IF MaxDataTxsPerBlock = 0 THEN 1 ELSE MaxDataTxsPerBlock

(* The loop invariant of the storage-transaction loop: the picked txs are  *)
(* a sequence of candidates, never more than EffectiveCap of them, and     *)
(* fewer while the loop has not broken.                                    *)
StorageLoopOK(v, T) ==
    /\ v.picked \in Seq(T)
    /\ Len(v.picked) <= EffectiveCap
    /\ ~v.done => Len(v.picked) < EffectiveCap

(* The storage loop of GetBestMempoolTxs (lines 1056-1075) stops at        *)
(* max_data_txs_per_block data txs, or at one when that limit is zero: the *)
(* length test after every push breaks out on reaching it.                 *)
LEMMA StorageWithinCap ==
    ASSUME NEW T, NEW seq \in Seq(T), NEW fs0,
           MaxDataTxsPerBlock \in Nat
    PROVE  /\ BT!SelectStorage(fs0, seq).picked \in Seq(T)
           /\ Len(BT!SelectStorage(fs0, seq).picked) <= EffectiveCap
<1> DEFINE n == Len(seq)
           c == [fs |-> fs0, picked |-> <<>>, done |-> FALSE]
           Def(v, i) ==
             IF v.done THEN v
             ELSE LET r      == BT!CheckFunding(v.fs, seq[i])
                      picked == IF r.ok THEN Append(v.picked, seq[i])
                                        ELSE v.picked
                  IN  [fs     |-> r.fs,
                       picked |-> picked,
                       done   |-> r.ok /\ Len(picked) >= MaxDataTxsPerBlock]
           g == CHOOSE h : h = [i \in 0..n |-> IF i = 0 THEN c ELSE Def(h[i-1], i)]
<1>1. BT!SelectStorage(fs0, seq) = g[n]
  BY DEF BT!SelectStorage
<1>2. n \in Nat
  BY LenProperties
<1> HIDE DEF Def, c, n
<1>3. g = [i \in 0..n |-> IF i = 0 THEN c ELSE Def(g[i-1], i)]
  <2>1. FiniteNatInductiveDefHypothesis(g, c, Def, 0, n)
    BY DEF FiniteNatInductiveDefHypothesis, g
  <2> HIDE DEF g
  <2>2. FiniteNatInductiveDefConclusion(g, c, Def, 0, n)
    BY <1>2, <2>1, FiniteNatInductiveDef
  <2>3. QED
    BY <2>2 DEF FiniteNatInductiveDefConclusion
<1> HIDE DEF g
<1>4. StorageLoopOK(c, T)
  BY DEF StorageLoopOK, c, EffectiveCap
<1>5. ASSUME NEW i \in 1..n, NEW v, StorageLoopOK(v, T)
      PROVE  StorageLoopOK(Def(v, i), T)
  <2>1. seq[i] \in T
    BY <1>5 DEF n
  <2>2. CASE v.done
    BY <1>5, <2>2 DEF Def
  <2>3. CASE ~v.done
    <3> DEFINE r == BT!CheckFunding(v.fs, seq[i])
    <3>1. CASE r.ok
      <4>1. Len(Append(v.picked, seq[i])) = Len(v.picked) + 1
            /\ Append(v.picked, seq[i]) \in Seq(T)
        BY <1>5, <2>1 DEF StorageLoopOK
      <4>2. Def(v, i) = [fs     |-> r.fs,
                         picked |-> Append(v.picked, seq[i]),
                         done   |-> Len(Append(v.picked, seq[i])) >= MaxDataTxsPerBlock]
        BY <2>3, <3>1 DEF Def
      <4>3. Len(v.picked) \in Nat /\ Len(v.picked) < EffectiveCap
        BY <1>5, <2>3, LenProperties DEF StorageLoopOK
      <4>4. Len(Append(v.picked, seq[i])) <= EffectiveCap
        BY <4>1, <4>3 DEF EffectiveCap
      <4> HIDE DEF r
      <4>5. /\ Def(v, i).picked = Append(v.picked, seq[i])
            /\ Def(v, i).done = (Len(Append(v.picked, seq[i])) >= MaxDataTxsPerBlock)
        BY <4>2
      <4>6. ~Def(v, i).done => Len(Def(v, i).picked) < EffectiveCap
        <5>1. Len(Append(v.picked, seq[i])) \in Nat
          BY <4>1, <4>3
        <5>2. Def(v, i).done <=> Len(Append(v.picked, seq[i])) >= MaxDataTxsPerBlock
          BY <4>5, Zenon
        <5>3. QED
          BY <4>5, <5>1, <5>2 DEF EffectiveCap
      <4>7. QED
        BY <4>1, <4>4, <4>5, <4>6 DEF StorageLoopOK
    <3>2. CASE ~r.ok
      <4>1. Def(v, i) = [fs |-> r.fs, picked |-> v.picked, done |-> FALSE]
        BY <2>3, <3>2 DEF Def
      <4>2. QED
        BY <1>5, <2>3, <4>1 DEF StorageLoopOK
    <3>3. QED
      BY <3>1, <3>2
  <2>4. QED
    BY <2>2, <2>3
<1> DEFINE S == {i \in Nat : i \in 0..n => StorageLoopOK(g[i], T)}
<1>6. 0 \in S
  BY <1>2, <1>3, <1>4
<1>7. ASSUME NEW i \in Nat, i \in S PROVE i + 1 \in S
  <2>1. CASE i + 1 \in 0..n
    <3>1. g[i + 1] = Def(g[i], i + 1)
      BY <1>2, <1>3, <2>1
    <3>2. StorageLoopOK(g[i], T)
      BY <1>2, <1>7, <2>1
    <3>3. QED
      BY <1>5, <2>1, <3>1, <3>2
  <2>2. QED
    BY <2>1
<1> HIDE DEF S
<1>8. Nat \subseteq S
  BY <1>6, <1>7, NatSetInduction
<1>9. QED
  BY <1>1, <1>2, <1>8 DEF S, StorageLoopOK
-----------------------------------------------------------------------------
(* The spend of a signer over a sequence *)

(* What the entry x adds to the spend of signer s.                         *)
SpendStep(x, s) == IF TxSigner[x] = s THEN TxFee[x] ELSE 0

(* SeqSpend is the last value of its fold over 0..Len(seq).                *)
LEMMA SeqSpendUnfold ==
    ASSUME NEW seq, NEW s, Len(seq) \in Nat
    PROVE  \E h : /\ h = [i \in 0..Len(seq) |->
                            IF i = 0 THEN 0 ELSE h[i-1] + SpendStep(seq[i], s)]
                  /\ BT!SeqSpend(seq, s) = h[Len(seq)]
<1> DEFINE n == Len(seq)
           Def(v, i) == v + SpendStep(seq[i], s)
           g == CHOOSE h : h = [i \in 0..n |-> IF i = 0 THEN 0 ELSE Def(h[i-1], i)]
<1>1. BT!SeqSpend(seq, s) = g[n]
  BY DEF BT!SeqSpend, SpendStep
<1> HIDE DEF Def, n
<1>2. g = [i \in 0..n |-> IF i = 0 THEN 0 ELSE Def(g[i-1], i)]
  <2>1. FiniteNatInductiveDefHypothesis(g, 0, Def, 0, n)
    BY DEF FiniteNatInductiveDefHypothesis, g
  <2> HIDE DEF g
  <2>2. FiniteNatInductiveDefConclusion(g, 0, Def, 0, n)
    BY <2>1, FiniteNatInductiveDef DEF n
  <2>3. QED
    BY <2>2 DEF FiniteNatInductiveDefConclusion
<1> HIDE DEF g
<1>3. QED
  BY <1>1, <1>2 DEF Def, n

(* The spend over the empty sequence is zero.                              *)
LEMMA SeqSpendEmpty ==
    ASSUME NEW s
    PROVE  BT!SeqSpend(<<>>, s) = 0
<1>1. Len(<<>>) = 0
  OBVIOUS
<1>2. PICK h : /\ h = [i \in 0..Len(<<>>) |->
                        IF i = 0 THEN 0 ELSE h[i-1] + SpendStep(<<>>[i], s)]
               /\ BT!SeqSpend(<<>>, s) = h[Len(<<>>)]
  BY <1>1, SeqSpendUnfold
<1>3. QED
  BY <1>1, <1>2

(* The spend over a sequence of tx ids is a natural number, zero over the  *)
(* empty sequence, and appending x adds what x adds.                       *)
LEMMA SeqSpendAppend ==
    ASSUME NEW seq \in Seq(TxIds), NEW x \in TxIds, NEW s
    PROVE  /\ BT!SeqSpend(<<>>, s) = 0
           /\ BT!SeqSpend(seq, s) \in Nat
           /\ BT!SeqSpend(Append(seq, x), s) = BT!SeqSpend(seq, s) + SpendStep(x, s)
<1> DEFINE n == Len(seq)
           sa == Append(seq, x)
<1>1. /\ n \in Nat /\ Len(sa) = n + 1 /\ Len(<<>>) = 0 /\ sa \in Seq(TxIds)
      /\ sa[n + 1] = x /\ \A i \in 1..n : sa[i] = seq[i]
  OBVIOUS
<1> HIDE DEF sa
<1>2. BT!SeqSpend(<<>>, s) = 0
  BY SeqSpendEmpty
<1>3. PICK hp : /\ hp = [i \in 0..n |->
                          IF i = 0 THEN 0 ELSE hp[i-1] + SpendStep(seq[i], s)]
                /\ BT!SeqSpend(seq, s) = hp[n]
  BY <1>1, SeqSpendUnfold
<1>4. PICK ha : /\ ha = [i \in 0..Len(sa) |->
                          IF i = 0 THEN 0 ELSE ha[i-1] + SpendStep(sa[i], s)]
                /\ BT!SeqSpend(sa, s) = ha[Len(sa)]
  <2>1. Len(sa) \in Nat
    BY <1>1
  <2>2. QED
    BY <2>1, SeqSpendUnfold, Zenon
<1>5. \A i \in 1..n + 1 : SpendStep(sa[i], s) \in Nat
  <2>1. \A i \in 1..n + 1 : sa[i] \in TxIds
    BY <1>1
  <2>2. \A y \in TxIds : SpendStep(y, s) \in Nat
    BY ConstantsAssumption DEF SpendStep
  <2>3. QED
    BY <2>1, <2>2
<1> DEFINE S == {i \in Nat : i \in 0..n => ha[i] = hp[i] /\ hp[i] \in Nat}
<1>6. 0 \in S
  BY <1>1, <1>3, <1>4
<1>7. ASSUME NEW i \in Nat, i \in S PROVE i + 1 \in S
  <2>1. CASE i + 1 \in 0..n
    <3>1. ha[i + 1] = ha[i] + SpendStep(sa[i + 1], s)
      BY <1>1, <1>4, <2>1
    <3>2. hp[i + 1] = hp[i] + SpendStep(seq[i + 1], s)
      BY <1>1, <1>3, <2>1
    <3>3. sa[i + 1] = seq[i + 1]
      BY <1>1, <2>1
    <3>4. ha[i] = hp[i] /\ hp[i] \in Nat
      BY <1>7, <2>1
    <3>5. QED
      BY <1>5, <2>1, <3>1, <3>2, <3>3, <3>4
  <2>2. QED
    BY <2>1
<1> HIDE DEF S
<1>8. Nat \subseteq S
  BY <1>6, <1>7, NatSetInduction
<1>9. ha[n] = hp[n] /\ hp[n] \in Nat
  BY <1>1, <1>8 DEF S
<1>10. ha[n + 1] = ha[n] + SpendStep(x, s)
  BY <1>1, <1>4
<1>11. BT!SeqSpend(sa, s) = BT!SeqSpend(seq, s) + SpendStep(x, s)
  BY <1>1, <1>3, <1>4, <1>9, <1>10
<1>12. QED
  BY <1>2, <1>3, <1>9, <1>11 DEF sa

(* The spend over any sequence of tx ids is a natural number.              *)
LEMMA SeqSpendNat ==
    ASSUME NEW seq \in Seq(TxIds), NEW s
    PROVE  BT!SeqSpend(seq, s) \in Nat
<1>1. CASE seq = <<>>
  BY <1>1, SeqSpendEmpty
<1>2. CASE seq # <<>>
  <2>1. seq[1] \in TxIds
    BY <1>2
  <2>2. QED
    BY <2>1, SeqSpendAppend
<1>3. QED
  BY <1>1, <1>2

-----------------------------------------------------------------------------
(* The funding invariant of check_funding *)

(* The invariant the funding state keeps along the selection loops, for a  *)
(* loop state v (its funding state v.fs, its picked txs v.picked) and the  *)
(* spend base[s] already picked before the loop: every signer's total     *)
(* picked spend is covered by its balance, and for a signer not yet marked *)
(* unfunded it is exactly the running spend fees_spent_per_address holds.  *)
FundOK(v, base) ==
    /\ v.fs.spent \in [Signers -> Nat]
    /\ v.picked \in Seq(TxIds)
    /\ \A s \in Signers :
          /\ base[s] + BT!SeqSpend(v.picked, s) <= Balance[s]
          /\ s \notin v.fs.unfunded =>
                base[s] + BT!SeqSpend(v.picked, s) = v.fs.spent[s]

(* One call of check_funding (lines 989-1022), with the tx pushed when it  *)
(* is funded, keeps the invariant: a funded tx raises the running spend of *)
(* its signer by its fee and stays within the balance; an unfunded one     *)
(* leaves the picked txs alone and marks the signer.                       *)
LEMMA FundStep ==
    ASSUME NEW base \in [Signers -> Nat], NEW v, FundOK(v, base),
           NEW x \in TxIds, NEW w,
           w.fs = BT!CheckFunding(v.fs, x).fs,
           w.picked = IF BT!CheckFunding(v.fs, x).ok
                      THEN Append(v.picked, x) ELSE v.picked
    PROVE  FundOK(w, base)
<1> DEFINE sx   == TxSigner[x]
           need == v.fs.spent[sx] + TxFee[x]
           sp(t) == BT!SeqSpend(v.picked, t)
<1>1. /\ sx \in Signers /\ TxFee[x] \in Nat /\ need \in Nat
      /\ \A t \in Signers : base[t] \in Nat /\ Balance[t] \in Nat /\ sp(t) \in Nat
  BY ConstantsAssumption, SeqSpendAppend DEF FundOK
<1>2. CASE sx \in v.fs.unfunded
  <2>1. w.fs = v.fs /\ w.picked = v.picked
    BY <1>2 DEF BT!CheckFunding
  <2>2. QED
    BY <2>1 DEF FundOK
<1>3. CASE sx \notin v.fs.unfunded /\ Balance[sx] >= need
  <2>0. BT!CheckFunding(v.fs, x)
          = [fs |-> [spent    |-> [v.fs.spent EXCEPT ![sx] = need],
                     unfunded |-> v.fs.unfunded],
             ok |-> TRUE]
    BY <1>3 DEF BT!CheckFunding
  <2>1. /\ w.fs.spent = [v.fs.spent EXCEPT ![sx] = need]
        /\ w.fs.unfunded = v.fs.unfunded
        /\ w.picked = Append(v.picked, x)
    BY <2>0
  <2>2. \A t \in Signers : BT!SeqSpend(w.picked, t) = sp(t) + SpendStep(x, t)
    BY <2>1, SeqSpendAppend DEF FundOK
  <2>3. base[sx] + sp(sx) = v.fs.spent[sx]
    BY <1>1, <1>3 DEF FundOK
  <2>4. ASSUME NEW t \in Signers, t # sx
        PROVE  /\ BT!SeqSpend(w.picked, t) = sp(t)
               /\ w.fs.spent[t] = v.fs.spent[t]
    BY <2>1, <2>2, <2>4, <1>1 DEF SpendStep
  <2>5. BT!SeqSpend(w.picked, sx) = sp(sx) + TxFee[x]
    BY <1>1, <2>2 DEF SpendStep
  <2>6. w.fs.spent \in [Signers -> Nat] /\ w.fs.spent[sx] = need
    BY <1>1, <2>1 DEF FundOK
  <2>7. w.picked \in Seq(TxIds)
    BY <2>1 DEF FundOK
  <2>8. QED
    BY <1>1, <1>3, <2>1, <2>3, <2>4, <2>5, <2>6, <2>7 DEF FundOK
<1>4. CASE sx \notin v.fs.unfunded /\ ~(Balance[sx] >= need)
  <2>0. BT!CheckFunding(v.fs, x)
          = [fs |-> [spent    |-> [v.fs.spent EXCEPT ![sx] = need],
                     unfunded |-> v.fs.unfunded \cup {sx}],
             ok |-> FALSE]
    <3>1. (Balance[sx] >= need) = FALSE
      BY <1>1, <1>4
    <3>2. QED
      BY <1>4, <3>1 DEF BT!CheckFunding
  <2>1. /\ w.fs.spent = [v.fs.spent EXCEPT ![sx] = need]
        /\ w.fs.unfunded = v.fs.unfunded \cup {sx}
        /\ w.picked = v.picked
    BY <2>0
  <2>2. w.fs.spent \in [Signers -> Nat]
    BY <1>1, <2>1 DEF FundOK
  <2>3. ASSUME NEW t \in Signers, t # sx PROVE w.fs.spent[t] = v.fs.spent[t]
    BY <2>1, <2>3
  <2>4. QED
    BY <2>1, <2>2, <2>3 DEF FundOK
<1>5. QED
  BY <1>2, <1>3, <1>4

(* The commitment loop (lines 1026-1047) keeps the invariant from an      *)
(* empty spend: whatever it picks is covered by the balances.              *)
LEMMA CommitmentsFunded ==
    ASSUME NEW seq \in Seq(TxIds)
    PROVE  FundOK(BT!SelectCommitments(seq), [s \in Signers |-> 0])
<1> DEFINE n == Len(seq)
           zero == [s \in Signers |-> 0]
           c == [fs |-> BT!InitFunding, picked |-> <<>>]
           Def(v, i) ==
             LET r == BT!CheckFunding(v.fs, seq[i])
             IN  [fs     |-> r.fs,
                  picked |-> IF r.ok THEN Append(v.picked, seq[i]) ELSE v.picked]
           f == CHOOSE h : h = [i \in 0..n |-> IF i = 0 THEN c ELSE Def(h[i-1], i)]
<1>1. BT!SelectCommitments(seq) = f[n]
  BY DEF BT!SelectCommitments
<1>2. n \in Nat
  BY LenProperties
<1> HIDE DEF Def, c, n
<1>3. f = [i \in 0..n |-> IF i = 0 THEN c ELSE Def(f[i-1], i)]
  <2>1. FiniteNatInductiveDefHypothesis(f, c, Def, 0, n)
    BY DEF FiniteNatInductiveDefHypothesis, f
  <2> HIDE DEF f
  <2>2. FiniteNatInductiveDefConclusion(f, c, Def, 0, n)
    BY <1>2, <2>1, FiniteNatInductiveDef
  <2>3. QED
    BY <2>2 DEF FiniteNatInductiveDefConclusion
<1> HIDE DEF f
<1>4. FundOK(c, zero)
  <2>1. \A s \in Signers : BT!SeqSpend(<<>>, s) = 0
    BY SeqSpendEmpty
  <2>2. QED
    BY <2>1, ConstantsAssumption DEF FundOK, c, BT!InitFunding
<1>5. ASSUME NEW i \in 1..n, NEW v, FundOK(v, zero)
      PROVE  FundOK(Def(v, i), zero)
  <2>1. seq[i] \in TxIds
    BY DEF n
  <2>2. QED
    BY <1>5, <2>1, FundStep DEF Def
<1> DEFINE S == {i \in Nat : i \in 0..n => FundOK(f[i], zero)}
<1>6. 0 \in S
  BY <1>2, <1>3, <1>4
<1>7. ASSUME NEW i \in Nat, i \in S PROVE i + 1 \in S
  <2>1. CASE i + 1 \in 0..n
    <3>1. f[i + 1] = Def(f[i], i + 1)
      BY <1>2, <1>3, <2>1
    <3>2. FundOK(f[i], zero)
      BY <1>2, <1>7, <2>1
    <3>3. QED
      BY <1>5, <2>1, <3>1, <3>2
  <2>2. QED
    BY <2>1
<1> HIDE DEF S
<1>8. Nat \subseteq S
  BY <1>6, <1>7, NatSetInduction
<1>9. QED
  BY <1>1, <1>2, <1>8 DEF S

(* The storage loop (lines 1056-1075) keeps the invariant from the funding *)
(* state and the spend the commitment loop leaves: the break on max_txs    *)
(* only ends the loop early.                                               *)
LEMMA StorageFunded ==
    ASSUME NEW seq \in Seq(TxIds), NEW fs0, NEW base \in [Signers -> Nat],
           FundOK([fs |-> fs0, picked |-> <<>>], base)
    PROVE  FundOK(BT!SelectStorage(fs0, seq), base)
<1> DEFINE n == Len(seq)
           c == [fs |-> fs0, picked |-> <<>>, done |-> FALSE]
           Def(v, i) ==
             IF v.done THEN v
             ELSE LET r      == BT!CheckFunding(v.fs, seq[i])
                      picked == IF r.ok THEN Append(v.picked, seq[i])
                                        ELSE v.picked
                  IN  [fs     |-> r.fs,
                       picked |-> picked,
                       done   |-> r.ok /\ Len(picked) >= MaxDataTxsPerBlock]
           g == CHOOSE h : h = [i \in 0..n |-> IF i = 0 THEN c ELSE Def(h[i-1], i)]
<1>1. BT!SelectStorage(fs0, seq) = g[n]
  BY DEF BT!SelectStorage
<1>2. n \in Nat
  BY LenProperties
<1> HIDE DEF Def, c, n
<1>3. g = [i \in 0..n |-> IF i = 0 THEN c ELSE Def(g[i-1], i)]
  <2>1. FiniteNatInductiveDefHypothesis(g, c, Def, 0, n)
    BY DEF FiniteNatInductiveDefHypothesis, g
  <2> HIDE DEF g
  <2>2. FiniteNatInductiveDefConclusion(g, c, Def, 0, n)
    BY <1>2, <2>1, FiniteNatInductiveDef
  <2>3. QED
    BY <2>2 DEF FiniteNatInductiveDefConclusion
<1> HIDE DEF g
<1>4. FundOK(c, base)
  BY DEF FundOK, c
<1>5. ASSUME NEW i \in 1..n, NEW v, FundOK(v, base)
      PROVE  FundOK(Def(v, i), base)
  <2>1. seq[i] \in TxIds
    BY DEF n
  <2>2. CASE v.done
    BY <1>5, <2>2 DEF Def
  <2>3. CASE ~v.done
    <3>1. /\ Def(v, i).fs = BT!CheckFunding(v.fs, seq[i]).fs
          /\ Def(v, i).picked = IF BT!CheckFunding(v.fs, seq[i]).ok
                                THEN Append(v.picked, seq[i]) ELSE v.picked
      BY <2>3 DEF Def
    <3>2. QED
      BY <1>5, <2>1, <3>1, FundStep
  <2>4. QED
    BY <2>2, <2>3
<1> DEFINE S == {i \in Nat : i \in 0..n => FundOK(g[i], base)}
<1>6. 0 \in S
  BY <1>2, <1>3, <1>4
<1>7. ASSUME NEW i \in Nat, i \in S PROVE i + 1 \in S
  <2>1. CASE i + 1 \in 0..n
    <3>1. g[i + 1] = Def(g[i], i + 1)
      BY <1>2, <1>3, <2>1
    <3>2. FundOK(g[i], base)
      BY <1>2, <1>7, <2>1
    <3>3. QED
      BY <1>5, <2>1, <3>1, <3>2
  <2>2. QED
    BY <2>1
<1> HIDE DEF S
<1>8. Nat \subseteq S
  BY <1>6, <1>7, NatSetInduction
<1>9. QED
  BY <1>1, <1>2, <1>8 DEF S

-----------------------------------------------------------------------------
(* The selection as the mempool serves it *)

(* A fee order of a finite set of candidates is a sequence of candidates.  *)
LEMMA FeeOrderIsSeq ==
    ASSUME NEW U, NEW S \in SUBSET U, IsFiniteSet(S), NEW c \in BT!FeeOrders(S)
    PROVE  c \in Seq(U)
<1>1. Cardinality(S) \in Nat /\ BT!Cardinality(S) = Cardinality(S)
  BY FS_CardinalityType DEF BT!Cardinality, Cardinality
<1>2. c \in [1..Cardinality(S) -> S]
  BY <1>1 DEF BT!FeeOrders, BT!Bijection, BT!Injection
<1>3. QED
  BY <1>1, <1>2

(* Every result of GetBestMempoolTxs over the pending pools holds at most  *)
(* EffectiveCap data txs.  For a nonzero limit this is SelectionWithinCap; *)
(* for a limit of zero it is the bound of one that the code really keeps.  *)
SelectionWithinEffectiveCap ==
    IF MaxDataTxsPerBlock = 0
    THEN \A sel \in BT!Selections(StakesPending, PledgesPending, valid_tx) :
            Len(sel.storage_tx) <= 1
    ELSE SelectionWithinCap

(***************************************************************************)
(* Whatever the pools hold and whatever order equal fees come in, for      *)
(* every max_data_txs_per_block and every finite set of tx ids,            *)
(* GetBestMempoolTxs returns at most max_data_txs_per_block data txs when  *)
(* that limit is nonzero, and at most one when it is zero: the storage     *)
(* loop breaks right after the push that reaches the limit (lines          *)
(* 1068-1073), and with a limit of zero that first push already reaches    *)
(* it.  ZeroCapSelectsOne below shows that the one tx is really selected.  *)
(***************************************************************************)
THEOREM SelectionWithinCapHolds ==
    ASSUME IsFiniteSet(DataTxs)
    PROVE  Spec => []SelectionWithinEffectiveCap
<1>1. TypeOK => SelectionWithinEffectiveCap
  <2> SUFFICES ASSUME TypeOK,
                      NEW sel \in BT!Selections(StakesPending, PledgesPending, valid_tx)
               PROVE  Len(sel.storage_tx) <= EffectiveCap
    BY DEF SelectionWithinEffectiveCap, SelectionWithinCap, EffectiveCap
  <2>1. PICK a \in BT!FeeOrders(StakesPending), b \in BT!FeeOrders(PledgesPending),
             c \in BT!FeeOrders(valid_tx) :
             sel = BT!GetBestMempoolTxs(a, b, c)
    BY DEF BT!Selections
  <2>2. IsFiniteSet(valid_tx) /\ valid_tx \subseteq DataTxs
    BY FS_Subset DEF TypeOK
  <2>3. c \in Seq(DataTxs)
    BY <2>2, FeeOrderIsSeq, Zenon
  <2>4. sel.storage_tx = BT!SelectStorage(BT!SelectCommitments(a \o b).fs, c).picked
    BY <2>1 DEF BT!GetBestMempoolTxs
  <2>5. MaxDataTxsPerBlock \in Nat
    BY ConstantsAssumption
  <2>6. QED
    BY <2>3, <2>4, <2>5, StorageWithinCap
<1>2. QED
  BY <1>1, TypeCorrect, PTL

(***************************************************************************)
(* With max_data_txs_per_block = 0, the storage loop still returns its     *)
(* first candidate whenever check_funding accepts it, and then stops: the  *)
(* length test (line 1071) comes after the push, so the first push breaks  *)
(* the loop with one tx selected and a zero limit exceeded.  The bound of  *)
(* one in SelectionWithinCapHolds is therefore reached.                    *)
(***************************************************************************)
THEOREM ZeroCapSelectsOne ==
    ASSUME MaxDataTxsPerBlock = 0, NEW T, NEW seq \in Seq(T), Len(seq) # 0,
           NEW fs0, BT!CheckFunding(fs0, seq[1]).ok
    PROVE  BT!SelectStorage(fs0, seq).picked = <<seq[1]>>
<1> DEFINE n == Len(seq)
           c == [fs |-> fs0, picked |-> <<>>, done |-> FALSE]
           Def(v, i) ==
             IF v.done THEN v
             ELSE LET r      == BT!CheckFunding(v.fs, seq[i])
                      picked == IF r.ok THEN Append(v.picked, seq[i])
                                        ELSE v.picked
                  IN  [fs     |-> r.fs,
                       picked |-> picked,
                       done   |-> r.ok /\ Len(picked) >= MaxDataTxsPerBlock]
           g == CHOOSE h : h = [i \in 0..n |-> IF i = 0 THEN c ELSE Def(h[i-1], i)]
<1>1. BT!SelectStorage(fs0, seq) = g[n]
  BY DEF BT!SelectStorage
<1>2. n \in Nat /\ 1 \in 1..n
  BY LenProperties
<1> HIDE DEF Def, c, n
<1>3. g = [i \in 0..n |-> IF i = 0 THEN c ELSE Def(g[i-1], i)]
  <2>1. FiniteNatInductiveDefHypothesis(g, c, Def, 0, n)
    BY DEF FiniteNatInductiveDefHypothesis, g
  <2> HIDE DEF g
  <2>2. FiniteNatInductiveDefConclusion(g, c, Def, 0, n)
    BY <1>2, <2>1, FiniteNatInductiveDef
  <2>3. QED
    BY <2>2 DEF FiniteNatInductiveDefConclusion
<1> HIDE DEF g
<1>4. g[1] = Def(c, 1)
  BY <1>2, <1>3
<1>5. Def(c, 1) = [fs     |-> BT!CheckFunding(fs0, seq[1]).fs,
                   picked |-> <<seq[1]>>,
                   done   |-> TRUE]
  <2>1. Len(Append(<<>>, seq[1])) >= MaxDataTxsPerBlock /\ Append(<<>>, seq[1]) = <<seq[1]>>
    OBVIOUS
  <2>2. QED
    BY <2>1 DEF Def, c
<1>6. g[1].done /\ g[1].picked = <<seq[1]>>
  BY <1>4, <1>5
<1> DEFINE S == {i \in Nat : i \in 1..n => g[i] = g[1]}
<1>7. 0 \in S
  OBVIOUS
<1>8. ASSUME NEW i \in Nat, i \in S PROVE i + 1 \in S
  <2>1. CASE i + 1 \in 1..n /\ i # 0
    <3>1. g[i + 1] = Def(g[i], i + 1)
      BY <1>2, <1>3, <2>1
    <3>2. g[i] = g[1]
      BY <1>2, <1>8, <2>1
    <3>3. Def(g[i], i + 1) = g[i]
      BY <1>6, <3>2 DEF Def
    <3>4. QED
      BY <3>1, <3>2, <3>3
  <2>2. QED
    BY <2>1
<1> HIDE DEF S
<1>9. Nat \subseteq S
  BY <1>7, <1>8, NatSetInduction
<1>10. QED
  BY <1>1, <1>2, <1>6, <1>9 DEF S

(***************************************************************************)
(* Whatever the pools hold and whatever order equal fees come in,          *)
(* GetBestMempoolTxs never selects more from a signer than its balance     *)
(* covers, counting its commitments and its data txs together, for every   *)
(* finite set of tx ids: check_funding threads one running spend per       *)
(* signer through both loops, pushes a tx only when the balance covers the *)
(* spend with its fee, and once a signer is unfunded picks nothing more    *)
(* from it.  The invariant FundOK carries this along both folds.           *)
(***************************************************************************)
THEOREM SelectionFundedHolds ==
    ASSUME IsFiniteSet(TxIds)
    PROVE  Spec => []SelectionFunded
<1>1. TypeOK => SelectionFunded
  <2> SUFFICES ASSUME TypeOK,
                      NEW sel \in BT!Selections(StakesPending, PledgesPending, valid_tx),
                      NEW s \in Signers
               PROVE  BT!SelectedSpend(sel, s) <= Balance[s]
    BY DEF SelectionFunded
  <2>1. PICK a \in BT!FeeOrders(StakesPending), b \in BT!FeeOrders(PledgesPending),
             c \in BT!FeeOrders(valid_tx) :
             sel = BT!GetBestMempoolTxs(a, b, c)
    BY DEF BT!Selections
  <2>2. /\ StakesPending \subseteq TxIds /\ PledgesPending \subseteq TxIds
        /\ valid_tx \subseteq TxIds
    BY AllCommitmentsType DEF TypeOK, StakesPending, PledgesPending, TxIds
  <2>3. /\ IsFiniteSet(StakesPending) /\ IsFiniteSet(PledgesPending)
        /\ IsFiniteSet(valid_tx)
    BY <2>2, FS_Subset
  <2>4. a \in Seq(TxIds) /\ b \in Seq(TxIds) /\ c \in Seq(TxIds)
    BY <2>2, <2>3, FeeOrderIsSeq, Zenon
  <2>5. a \o b \in Seq(TxIds)
    BY <2>4
  <2> DEFINE cm   == BT!SelectCommitments(a \o b)
             base == [t \in Signers |-> BT!SeqSpend(cm.picked, t)]
             d    == BT!SelectStorage(cm.fs, c)
  <2>6. FundOK(cm, [t \in Signers |-> 0])
    BY <2>5, CommitmentsFunded
  <2>7. base \in [Signers -> Nat]
    BY <2>6, SeqSpendNat DEF FundOK
  <2>8. FundOK([fs |-> cm.fs, picked |-> <<>>], base)
    <3>1. \A t \in Signers : BT!SeqSpend(<<>>, t) = 0
      BY SeqSpendEmpty
    <3>2. QED
      BY <2>6, <2>7, <3>1 DEF FundOK
  <2>9. FundOK(d, base)
    BY <2>4, <2>7, <2>8, StorageFunded
  <2>10. sel.commitment_tx = cm.picked /\ sel.storage_tx = d.picked
    BY <2>1 DEF BT!GetBestMempoolTxs
  <2>11. QED
    BY <2>9, <2>10 DEF BT!SelectedSpend, FundOK
<1>2. QED
  BY <1>1, TypeCorrect, PTL
=============================================================================
