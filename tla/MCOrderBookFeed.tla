-------------------------- MODULE MCOrderBookFeed ---------------------------
(***************************************************************************)
(* Instances of OrderBookFeed for TLC: two prices are enough for a best    *)
(* and a second-best level on each side; two non-zero sizes distinguish a  *)
(* replaced level from an old one.                                         *)
(***************************************************************************)
EXTENDS OrderBookFeed

MCPrice == {1, 2}
MCSize  == {0, 1, 2}
=============================================================================
