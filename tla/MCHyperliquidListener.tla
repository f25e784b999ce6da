------------------------ MODULE MCHyperliquidListener ------------------------
(***************************************************************************)
(* Instance of HyperliquidListener for TLC: two calls of listen.           *)
(***************************************************************************)
EXTENDS HyperliquidListener

CONSTANTS l1, l2
=============================================================================
