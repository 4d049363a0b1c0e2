------------------------------ MODULE MCPoolMap ------------------------------
(***************************************************************************)
(* PoolMap for TLC: four items and every set of failing items. Three items  *)
(* already let one fail while another runs and a third is cancelled; the    *)
(* fourth adds a failure that finishes before an earlier one.               *)
(***************************************************************************)
EXTENDS PoolMap

Items4 == 4
=============================================================================
