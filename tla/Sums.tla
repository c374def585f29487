-------------------------------- MODULE Sums --------------------------------
(***************************************************************************)
(* The sum of the values of a function with a finite domain.  It is a      *)
(* recursive function over the subsets of the domain, taking the function  *)
(* to sum as a value, so that facts about it can be proved.                *)
(***************************************************************************)
EXTENDS Integers

SumOf(f) ==
  LET sum[S \in SUBSET DOMAIN f] ==
        IF S = {} THEN 0 ELSE LET x == CHOOSE x \in S : TRUE IN f[x] + sum[S \ {x}]
  IN sum[DOMAIN f]
=============================================================================
