------------------------------- MODULE TxPool -------------------------------
(***************************************************************************)
(* What the mempool promises about its pools, whatever the handlers do     *)
(* inside: a transaction id is pending or rejected or neither.  An id      *)
(* joins the pending pool only with a valid signature, when it is neither  *)
(* pending nor rejected; an id is rejected only when it is not pending,    *)
(* and a rejection is final; an id leaves the pending pool only because a  *)
(* block confirmed it.  Nothing else changes the pools: no cache, replay,  *)
(* proof task or tip change drops or adds a pending transaction.           *)
(***************************************************************************)

CONSTANTS
    Ids,        \* transaction ids
    SigValid    \* the ids whose signature verifies

VARIABLES
    pending,    \* ids of the pending valid transactions
    rejected    \* ids rejected for good

pool_vars == <<pending, rejected>>

Init ==
    /\ pending = {}
    /\ rejected = {}

(* A transaction is accepted into the pending pool.                        *)
Admit(id) ==
    /\ id \in SigValid
    /\ id \notin pending
    /\ id \notin rejected
    /\ pending' = pending \cup {id}
    /\ UNCHANGED rejected

(* A transaction that is not pending is rejected.                          *)
Reject(id) ==
    /\ id \notin pending
    /\ rejected' = rejected \cup {id}
    /\ UNCHANGED pending

(* A block confirms the transactions S, which leave the pending pool.      *)
Confirm(S) ==
    /\ pending' = pending \ S
    /\ UNCHANGED rejected

Next ==
    \/ \E id \in Ids : Admit(id) \/ Reject(id)
    \/ \E S \in SUBSET Ids : Confirm(S)

Spec == Init /\ [][Next]_pool_vars
=============================================================================
