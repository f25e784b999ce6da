-------------------------- MODULE MCSubaccountFeed --------------------------
(***************************************************************************)
(* Instance of SubaccountFeed for TLC.                                     *)
(***************************************************************************)
EXTENDS SubaccountFeed

CONSTANTS m1, m2, usdc, weth

MCMarket == {m1, m2}
MCAsset  == {usdc, weth}
=============================================================================
