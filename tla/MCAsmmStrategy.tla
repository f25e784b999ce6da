--------------------------- MODULE MCAsmmStrategy ---------------------------
(***************************************************************************)
(* Instances of AsmmStrategy for TLC.                                      *)
(***************************************************************************)
EXTENDS AsmmStrategy

CONSTANTS btc, eth

MCSymbol == {btc, eth}
NoSymbols == <<>>
OnlyBtc == <<btc>>
OnlyEth == <<eth>>
=============================================================================
