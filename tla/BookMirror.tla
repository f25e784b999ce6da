----------------------------- MODULE BookMirror -----------------------------
(***************************************************************************)
(* What an order-book feed task promises its readers, with no mention of   *)
(* levels, B-trees or update loops: every version the indexer's book goes  *)
(* through yields exactly one top of book on the channel, in the order of  *)
(* the versions, and the task ends only when the feed is closed and every  *)
(* version has been published.                                             *)
(*                                                                         *)
(* OrderBookFeed, the model of src/src/exchange/dydx.rs, implements it.    *)
(***************************************************************************)
EXTENDS Integers, Sequences

CONSTANTS Price,    \* the prices a level may have
          Size      \* the sizes a level may have; 0 means no level

VARIABLES versions, \* the books the indexer announced, oldest first
          channel,  \* the tops of book sent to the readers, oldest first
          closed,   \* the indexer closed the feed
          ended     \* the task has stopped

mirrorVars == <<versions, channel, closed, ended>>

(* A full book as the indexer sees it: the size at every price, per side. *)
ServerBook == [bids : [Price -> Size], asks : [Price -> Size]]

Highest(P) == {p \in P : \A q \in P : q <= p}
Lowest(P)  == {p \in P : \A q \in P : p <= q}

(* The prices that have a level, in a side given as sizes. *)
Occupied(side) == {p \in Price : side[p] # 0}

(* At most one level per side: the best one, none when the side is empty. *)
TopOf(book, id) ==
  [bids  |-> {[price |-> p, amount |-> book.bids[p]] : p \in Highest(Occupied(book.bids))},
   asks  |-> {[price |-> p, amount |-> book.asks[p]] : p \in Lowest(Occupied(book.asks))},
   nonce |-> id]

MirrorInit == versions = <<>> /\ channel = <<>> /\ closed = FALSE /\ ended = FALSE

Announce ==
  /\ ~closed
  /\ \E book \in ServerBook : versions' = Append(versions, book)
  /\ UNCHANGED <<channel, closed, ended>>

Close ==
  /\ ~closed
  /\ closed' = TRUE
  /\ UNCHANGED <<versions, channel, ended>>

Forward ==
  LET i == Len(channel) + 1 IN
  /\ ~ended
  /\ i <= Len(versions)
  /\ channel' = Append(channel, TopOf(versions[i], i))
  /\ UNCHANGED <<versions, closed, ended>>

Finish ==
  /\ ~ended
  /\ closed
  /\ Len(channel) = Len(versions)
  /\ ended' = TRUE
  /\ UNCHANGED <<versions, channel, closed>>

MirrorNext == Announce \/ Close \/ Forward \/ Finish

MirrorSpec == MirrorInit /\ [][MirrorNext]_mirrorVars
=============================================================================
