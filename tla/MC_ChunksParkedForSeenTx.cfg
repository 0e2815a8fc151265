CONSTANTS
    t1 = t1
    t2 = t2
    t3 = t3
    t4 = t4
    t5 = t5
    s1 = s1
    s2 = s2
    p1 = p1
    a1 = a1
    a2 = a2
    r1 = r1
    r2 = r2
    None = None
    DataTxs <- MC_DataTxs
    CommitmentTxs <- MC_CommitmentTxs
    Signers <- MC_Signers
    DataRoots <- MC_DataRoots
    TxSigner <- MC_TxSigner
    TxAnchor <- MC_TxAnchor
    TxFee <- MC_TxFee
    TxSigValid <- MC_TxSigValid
    TxDataRoot <- MC_TxDataRoot
    TxDataSize <- MC_TxDataSize
    TxCommitmentType <- MC_TxCommitmentType
    TrueDataSize <- MC_TrueDataSize
    SmDataSize <- MC_SmDataSize
    Chunks <- MC_Chunks
    Balance <- MC_Balance
    Staked <- MC_Staked
    CacheResponses <- MC_CacheResponses
    ChunkSize = 2
    AnchorExpiryDepth = 1
    MaxPendingChunkItems = 1
    MaxChunksPerItem = 1
    MaxPendingPledgeItems = 1
    MaxDataTxsPerBlock = 1
    MaxHeight = 2
    OverflowChecks = FALSE
    ProofWriteFailures = FALSE
SPECIFICATION Spec
INVARIANT ChunksParkedOnlyForUnseenTx
