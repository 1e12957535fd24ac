------------------------------ MODULE ChainStore ------------------------------
(***************************************************************************)
(* What the local snapshot directories promise, however a program goes     *)
(* about it: snapshots are taken, stored on drives and dropped, and a drive *)
(* may be anchored to the local snapshot its next incremental send starts   *)
(* from.  A snapshot is dropped only when no drive is anchored to it and    *)
(* only from a subvolume that is stored somewhere else (ADR-106, ADR-107    *)
(* and the doc of `emergency_reclaim_pool`).                                *)
(***************************************************************************)
EXTENDS Naturals

CONSTANTS Subvols, Drives, Snaps, NoSnap

VARIABLES
    kept,     \* kept[s]: the local snapshots of s
    anchor,   \* anchor[s][d]: the snapshot drive d is anchored to, or NoSnap
    stored    \* stored[s]: the drives that hold a complete snapshot of s

storeVars == <<kept, anchor, stored>>

StoreInit ==
    /\ kept = [s \in Subvols |-> {}]
    /\ anchor = [s \in Subvols |-> [d \in Drives |-> NoSnap]]
    /\ stored = [s \in Subvols |-> {}]

Take(s, x) ==
    /\ kept' = [kept EXCEPT ![s] = @ \cup {x}]
    /\ UNCHANGED <<anchor, stored>>

\* A complete copy reached drive d.
Store(s, d) ==
    /\ kept[s] # {}
    /\ stored' = [stored EXCEPT ![s] = @ \cup {d}]
    /\ UNCHANGED <<kept, anchor>>

\* A complete copy reached drive d, and d is anchored to it.
StoreAndAnchor(s, d, x) ==
    /\ x \in kept[s]
    /\ stored' = [stored EXCEPT ![s] = @ \cup {d}]
    /\ anchor' = [anchor EXCEPT ![s][d] = x]
    /\ UNCHANGED kept

\* The chain of drive d is given up: its next send is full.
Forget(s, d) ==
    /\ anchor' = [anchor EXCEPT ![s][d] = NoSnap]
    /\ UNCHANGED <<kept, stored>>

Drop(s, x) ==
    /\ x \in kept[s]
    /\ \A d \in Drives : anchor[s][d] # x
    /\ stored[s] # {}
    /\ kept' = [kept EXCEPT ![s] = @ \ {x}]
    /\ UNCHANGED <<anchor, stored>>

StoreNext ==
    \E s \in Subvols :
        \/ \E x \in Snaps : Take(s, x) \/ Drop(s, x)
        \/ \E d \in Drives :
              Store(s, d) \/ Forget(s, d) \/ \E x \in Snaps : StoreAndAnchor(s, d, x)

StoreSpec == StoreInit /\ [][StoreNext]_storeVars

\* A drive is anchored only to a snapshot that is there, and only if it holds
\* a copy: every chain of the model can be continued from the local end.
AnchorsHold ==
    \A s \in Subvols, d \in Drives :
        anchor[s][d] # NoSnap => anchor[s][d] \in kept[s] /\ d \in stored[s]
===============================================================================
