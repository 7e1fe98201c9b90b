----------------------------- MODULE BuildCleanup -----------------------------
(***************************************************************************)
(* What the finalizer is for, without caches, queues or calls: a CR is     *)
(* guarded before it is given anything in the build namespace, and stays   *)
(* guarded until it holds nothing there any more.                          *)
(***************************************************************************)
CONSTANTS CRs, Kinds

VARIABLES
    guarded,    \* the CRs that cannot be removed from the API server
    held        \* held[k]: the kinds of build objects that carry k's labels

cleanupVars == <<guarded, held>>

CleanupInit ==
    /\ guarded \in SUBSET CRs
    /\ held \in [CRs -> SUBSET Kinds]
    /\ \A k \in CRs \ guarded : held[k] = {}

Guard(k) ==
    /\ guarded' = guarded \cup {k}
    /\ UNCHANGED held

Acquire(k, x) ==
    /\ k \in guarded
    /\ held' = [held EXCEPT ![k] = @ \cup {x}]
    /\ UNCHANGED guarded

Release(k, x) ==
    /\ held' = [held EXCEPT ![k] = @ \ {x}]
    /\ UNCHANGED guarded

Unguard(k) ==
    /\ held[k] = {}
    /\ guarded' = guarded \ {k}
    /\ UNCHANGED held

CleanupNext ==
    \E k \in CRs :
        \/ Guard(k)
        \/ \E x \in Kinds : Acquire(k, x) \/ Release(k, x)
        \/ Unguard(k)

CleanupSpec == CleanupInit /\ [][CleanupNext]_cleanupVars
=============================================================================
