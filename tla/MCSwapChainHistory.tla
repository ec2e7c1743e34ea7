------------------------- MODULE MCSwapChainHistory -------------------------
(* SwapChainHistory on a ring of three slots, for TLC.                     *)
EXTENDS SwapChainHistory
=============================================================================
