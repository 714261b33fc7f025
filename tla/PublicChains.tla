---------------------------- MODULE PublicChains ----------------------------
(***************************************************************************)
(* The public chains of chains.json, which the page switches on and off    *)
(* and the chain reader reads.                                             *)
(***************************************************************************)
CONSTANT Chains
=============================================================================
