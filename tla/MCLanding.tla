------------------------------ MODULE MCLanding ------------------------------
(* One contract: what each door compares and writes is its own row, and      *)
(* other contracts of the repository act on it through the target branch,    *)
(* the chain and the order of the recovery passes.                           *)
EXTENDS Landing
==============================================================================
