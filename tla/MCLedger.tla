------------------------------ MODULE MCLedger ------------------------------
(* Ledger.tla on a small instance. *)
EXTENDS Ledger

MCAmounts == {-2, -1, 1, 2}
MCKinds == {"Player", "Synthetic"}
MCReasons == {"Mint", "Burn", "Transfer"}
=============================================================================
