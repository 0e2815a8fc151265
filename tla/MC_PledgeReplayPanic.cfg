CONSTANTS
    t1 = t1
    t2 = t2
    t3 = t3
    t4 = t4
    t5 = t5
    s1 = s1
    s2 = s2
    p1 = p1
    a1 = a1
    a2 = a2
    r1 = r1
    r2 = r2
    None = None
    DataTxs <- PLG_DataTxs
    CommitmentTxs <- ADV_CommitmentTxs
    Signers <- MC_Signers
    DataRoots <- MC_DataRoots
    TxSigner <- PLG_TxSigner
    TxAnchor <- PLG_TxAnchor
    TxFee <- PLG_TxFee
    TxSigValid <- PLG_TxSigValid
    TxDataRoot <- PLG_TxDataRoot
    TxDataSize <- PLG_TxDataRoot
    TxCommitmentType <- ADV_TxCommitmentType
    TrueDataSize <- MC_TrueDataSize
    SmDataSize <- MC_SmDataSize
    Chunks <- PLG_Chunks
    Balance <- ADV_Balance
    Staked <- MC_Staked
    CacheResponses <- MC_CacheResponses
    ChunkSize = 2
    AnchorExpiryDepth = 1
    MaxPendingChunkItems = 1
    MaxChunksPerItem = 1
    MaxPendingPledgeItems = 1
    MaxDataTxsPerBlock = 1
    MaxHeight = 1
    OverflowChecks = FALSE
    ProofWriteFailures = FALSE
SPECIFICATION Spec
INVARIANT NoPanic
