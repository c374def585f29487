----------------------------- MODULE BlockStore -----------------------------
(***************************************************************************)
(* What the block log promises a node: a set of blocks a restart can read  *)
(* back, of which those reported durable are never lost again.             *)
(***************************************************************************)
CONSTANT Hash

VARIABLES
    known,      \* blocks a restart would recover
    durable     \* blocks the log has reported to be on stable storage

storeVars == <<known, durable>>

StoreInit == known = {} /\ durable = {}

Learn == \E b \in Hash : known' = known \cup {b} /\ UNCHANGED durable

Harden ==
    \E D \in SUBSET known : durable' = durable \cup D /\ UNCHANGED known

LearnDurably ==
    \E b \in Hash :
        /\ known' = known \cup {b}
        /\ \E D \in SUBSET known' : durable' = durable \cup D

(* A crash may take back whatever was not reported durable.                *)
Lose == known' \in SUBSET known /\ durable \subseteq known' /\ UNCHANGED durable

StoreNext == Learn \/ Harden \/ LearnDurably \/ Lose

StoreSpec == StoreInit /\ [][StoreNext]_storeVars
=============================================================================
