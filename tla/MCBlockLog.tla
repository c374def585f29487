----------------------------- MODULE MCBlockLog -----------------------------
(* Small instances of BlockLog: every tree over N blocks.                  *)
EXTENDS BlockLog

CONSTANT N

MCHash == 1..N

Shape(t) ==
    \A h \in MCHash :
        /\ \A a, b \in t[h] : t[a] \subseteq t[h] /\ (a \in t[b] \/ b \in t[a])
        /\ \A a \in t[h] \ {h} : h \notin t[a]

MCTrees ==
    {t \in {[h \in 0..N |-> IF h = 0 THEN {0} ELSE below[h] \cup {0, h}] :
               below \in [MCHash -> SUBSET MCHash]} : Shape(t)}
=============================================================================
