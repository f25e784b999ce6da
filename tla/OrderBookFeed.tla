--------------------------- MODULE OrderBookFeed ----------------------------
(***************************************************************************)
(* The order-book path of src/src/exchange/dydx.rs: the OrderBook struct,  *)
(* its update loop, book_to_ccxt and the task handle_order_book_feed that  *)
(* load_markets spawns for a symbol.                                       *)
(*                                                                         *)
(* The task owns its book, so it is modelled loop iteration by loop        *)
(* iteration: one step receives a message, one step applies one level, one *)
(* step builds the top of book and sends it.  The phase forces that order. *)
(*                                                                         *)
(* The indexer is outside src/: it appends messages to the feed, a         *)
(* snapshot on subscription and again after every reconnection, level      *)
(* updates in between.  A message carries the indexer's book after it      *)
(* (`view`), a history field that no step of the task reads: it is what    *)
(* the published books are compared with.                                  *)
(***************************************************************************)
EXTENDS Integers, Sequences, FiniteSets

CONSTANTS Price,      \* the prices a level may have
          Size,       \* the sizes a level may have; 0 deletes the level
          MaxMsgs,    \* bound: messages the indexer sends
          MaxLevels   \* bound: levels in one message, both sides together

ASSUME FeedAssumption ==
  /\ Price \subseteq Nat
  /\ Size \subseteq Nat
  /\ 0 \in Size
  /\ MaxMsgs \in Nat
  /\ MaxLevels \in Nat

VARIABLES log,      \* every message put on the feed, oldest first
          open,     \* the indexer still holds the feed open
          taken,    \* how many messages of the log the task has received
          phase,    \* where the task's loop is
          bids,     \* OrderBook.bids
          asks,     \* OrderBook.asks
          offset,   \* OrderBook.offset
          todo,     \* the levels of the current message not yet applied
          channel   \* what was sent on order_book_tx, oldest first

feedVars == <<log, open>>
bookVars == <<bids, asks, offset>>
vars == <<log, open, taken, phase, bids, asks, offset, todo, channel>>

Level == [price : Price, size : Size]
Levels == UNION {[1..n -> Level] : n \in 0..MaxLevels}

Mirror == INSTANCE BookMirror WITH
  versions <- [i \in 1..Len(log) |-> log[i].view],
  channel  <- channel,
  closed   <- ~open,
  ended    <- (phase = "ended")

ServerBook == Mirror!ServerBook
-----------------------------------------------------------------------------
(***************************************************************************)
(* The indexer.                                                            *)
(***************************************************************************)
NoLevels == [p \in Price |-> 0]

Server == IF log = <<>> THEN [bids |-> NoLevels, asks |-> NoLevels]
                        ELSE log[Len(log)].view

(* What a list of levels means: the last entry for a price gives its size, *)
(* a price the list does not name keeps the size it had.                   *)
Describes(levels, before, after) ==
  \A p \in Price :
    \/ /\ \A i \in 1..Len(levels) : levels[i].price # p
       /\ after[p] = before[p]
    \/ \E i \in 1..Len(levels) :
         /\ levels[i].price = p
         /\ \A j \in (i+1)..Len(levels) : levels[j].price # p
         /\ after[p] = levels[i].size

(* A snapshot names each occupied price once. *)
IsSnapshot(levels) ==
  \A i \in 1..Len(levels) :
    /\ levels[i].size # 0
    /\ \A j \in 1..Len(levels) : levels[i].price = levels[j].price => i = j

Send(kind, bidLevels, askLevels, before) ==
  /\ Len(bidLevels) + Len(askLevels) <= MaxLevels
  /\ \E b \in [Price -> Size] :
       /\ Describes(bidLevels, before.bids, b)
       /\ \E a \in [Price -> Size] :
            /\ Describes(askLevels, before.asks, a)
            /\ log' = Append(log, [kind |-> kind, bids |-> bidLevels, asks |-> askLevels,
                                   id |-> Len(log) + 1, view |-> [bids |-> b, asks |-> a]])

(* Subscription, or resubscription after a lost connection: what changed   *)
(* in between was never sent.                                              *)
SendInitial ==
  /\ open
  /\ Len(log) < MaxMsgs
  /\ \E bl \in Levels, al \in Levels :
       /\ IsSnapshot(bl) /\ IsSnapshot(al)
       /\ Send("Initial", bl, al, [bids |-> NoLevels, asks |-> NoLevels])
  /\ UNCHANGED <<open, taken, phase, bookVars, todo, channel>>

SendUpdate ==
  /\ open
  /\ log # <<>>
  /\ Len(log) < MaxMsgs
  /\ \E bl \in Levels, al \in Levels : Send("Update", bl, al, Server)
  /\ UNCHANGED <<open, taken, phase, bookVars, todo, channel>>

CloseFeed ==
  /\ open
  /\ open' = FALSE
  /\ UNCHANGED <<log, taken, phase, bookVars, todo, channel>>
-----------------------------------------------------------------------------
(***************************************************************************)
(* OrderBook and book_to_ccxt.  A side is a partial function from prices   *)
(* to levels, as the BTreeMap is.                                          *)
(***************************************************************************)
EmptySide == [p \in {} |-> 0]

Remove(side, p) == [q \in DOMAIN side \ {p} |-> side[q]]

Insert(side, p, level) ==
  [q \in DOMAIN side \cup {p} |-> IF q = p THEN level ELSE side[q]]

(* Mutant of ApplyLevel: the test for a zero size is dropped. *)
ApplyLevelKeepsZero(side, level, stamp) ==
  Insert(side, level.price, [size |-> level.size, stamp |-> stamp])

(* One iteration of OrderBook::update. *)
ApplyLevel(side, level, stamp) ==
  IF level.size = 0
  THEN Remove(side, level.price)
  ELSE Insert(side, level.price, [size |-> level.size, stamp |-> stamp])

(* Mutant of NextOffset: the counter is never advanced. *)
NextOffsetStuck(level, stamp) == stamp

NextOffset(level, stamp) == IF level.size = 0 THEN stamp ELSE stamp + 1

LevelsAt(side, P) == {[price |-> p, amount |-> side[p].size] : p \in P}

(* Mutant of BookToCcxt: first_key_value on both sides. *)
BookToCcxtLowestBid(b, a, nonce) ==
  [bids  |-> LevelsAt(b, Mirror!Lowest(DOMAIN b)),
   asks  |-> LevelsAt(a, Mirror!Lowest(DOMAIN a)),
   nonce |-> nonce]

(* book_to_ccxt: last_key_value of the bids, first_key_value of the asks.  *)
BookToCcxt(b, a, nonce) ==
  [bids  |-> LevelsAt(b, Mirror!Highest(DOMAIN b)),
   asks  |-> LevelsAt(a, Mirror!Lowest(DOMAIN a)),
   nonce |-> nonce]
-----------------------------------------------------------------------------
(***************************************************************************)
(* handle_order_book_feed.                                                 *)
(***************************************************************************)
Init ==
  /\ log = <<>> /\ open = TRUE
  /\ taken = 0 /\ phase = "recv"
  /\ bids = EmptySide /\ asks = EmptySide /\ offset = 0
  /\ todo = [bids |-> <<>>, asks |-> <<>>]
  /\ channel = <<>>

(* feed.recv() returns the next message. *)
Receive(kind) ==
  /\ phase = "recv"
  /\ taken < Len(log)
  /\ log[taken + 1].kind = kind
  /\ taken' = taken + 1
  /\ todo' = [bids |-> log[taken + 1].bids, asks |-> log[taken + 1].asks]
  /\ phase' = "apply"
  /\ UNCHANGED <<feedVars, channel>>

(* Mutant of ReceiveInitial: the old levels are not cleared. *)
ReceiveInitialMerges == Receive("Initial") /\ UNCHANGED bookVars

(* A snapshot clears both sides but not the offset. *)
ReceiveInitial ==
  /\ Receive("Initial")
  /\ bids' = EmptySide
  /\ asks' = EmptySide
  /\ UNCHANGED offset

ReceiveUpdate ==
  /\ Receive("Update")
  /\ UNCHANGED bookVars

(* update_bids, then update_asks: both stamp their levels from one offset. *)
ApplyBid ==
  /\ phase = "apply"
  /\ todo.bids # <<>>
  /\ bids' = ApplyLevel(bids, Head(todo.bids), offset)
  /\ offset' = NextOffset(Head(todo.bids), offset)
  /\ todo' = [todo EXCEPT !.bids = Tail(@)]
  /\ UNCHANGED <<feedVars, taken, phase, asks, channel>>

ApplyAsk ==
  /\ phase = "apply"
  /\ todo.bids = <<>>
  /\ todo.asks # <<>>
  /\ asks' = ApplyLevel(asks, Head(todo.asks), offset)
  /\ offset' = NextOffset(Head(todo.asks), offset)
  /\ todo' = [todo EXCEPT !.asks = Tail(@)]
  /\ UNCHANGED <<feedVars, taken, phase, bids, channel>>

Publish ==
  /\ phase = "apply"
  /\ todo.bids = <<>>
  /\ todo.asks = <<>>
  /\ channel' = Append(channel, BookToCcxt(bids, asks, log[taken].id))
  /\ phase' = "recv"
  /\ UNCHANGED <<feedVars, taken, bookVars, todo>>

(* The unwrap of big_decimal_to_decimal fails for a price or amount of the *)
(* top of book: a level is only converted when it has become the best.     *)
PublishPanics ==
  /\ phase = "apply"
  /\ todo.bids = <<>>
  /\ todo.asks = <<>>
  /\ DOMAIN bids # {} \/ DOMAIN asks # {}
  /\ phase' = "panicked"
  /\ UNCHANGED <<feedVars, taken, bookVars, todo, channel>>

(* Mutant of FeedClosed: the task stops with messages still queued. *)
FeedClosedUndrained ==
  /\ phase = "recv"
  /\ ~open
  /\ phase' = "ended"
  /\ UNCHANGED <<feedVars, taken, bookVars, todo, channel>>

(* Mutant of FeedClosed: None is ignored and the loop goes round again. *)
FeedClosedIgnored ==
  /\ phase = "recv"
  /\ ~open
  /\ taken = Len(log)
  /\ UNCHANGED vars

(* feed.recv() returns None: the loop breaks and the task returns. *)
FeedClosed ==
  /\ phase = "recv"
  /\ ~open
  /\ taken = Len(log)
  /\ phase' = "ended"
  /\ UNCHANGED <<feedVars, taken, bookVars, todo, channel>>

Task ==
  \/ ReceiveInitial \/ ReceiveUpdate
  \/ ApplyBid \/ ApplyAsk
  \/ Publish \/ PublishPanics
  \/ FeedClosed

Next == SendInitial \/ SendUpdate \/ CloseFeed \/ Task

Spec == Init /\ [][Next]_vars

(* The runtime polls a spawned task that can make progress; nothing        *)
(* obliges the indexer to send or to close.                                *)
FairSpec == Spec /\ WF_vars(Task)
-----------------------------------------------------------------------------
(***************************************************************************)
(* Properties.                                                             *)
(***************************************************************************)
StampedLevel == [size : Size \ {0}, stamp : Nat]

IsSide(side) == DOMAIN side \subseteq Price /\ side \in [DOMAIN side -> StampedLevel]

Message == [kind : {"Initial", "Update"}, bids : Levels, asks : Levels,
            id : Nat, view : ServerBook]

(* The types of the variables.  A level of size 0 is never stored: update  *)
(* (dydx.rs:68) removes it instead.                                        *)
TypeOK ==
  /\ log \in Seq(Message)
  /\ open \in BOOLEAN
  /\ taken \in 0..Len(log)
  /\ phase \in {"recv", "apply", "ended", "panicked"}
  /\ IsSide(bids) /\ IsSide(asks) /\ offset \in Nat
  /\ todo.bids \in Seq(Level) /\ todo.asks \in Seq(Level)
  /\ todo = [bids |-> todo.bids, asks |-> todo.asks]
  /\ phase # "apply" => todo.bids = <<>> /\ todo.asks = <<>>

SizesOf(side) == [p \in Price |-> IF p \in DOMAIN side THEN side[p].size ELSE 0]

(* What is left of the current message describes exactly the difference    *)
(* between the task's book and the indexer's book after that message; with *)
(* nothing left the two agree at every price.  A snapshot after a lost     *)
(* connection must not keep a level of the old book, a zero size must      *)
(* delete, and of two entries for one price the later must win.            *)
BookTracksServer ==
  taken > 0 =>
    /\ Describes(todo.bids, SizesOf(bids), log[taken].view.bids)
    /\ Describes(todo.asks, SizesOf(asks), log[taken].view.asks)

(* The stamps tell for any two levels of the book, also one bid and one    *)
(* ask, which was set later: they come from one counter (`offset`,         *)
(* dydx.rs:66-74), which a snapshot does not reset and which is ahead of   *)
(* every stamp in use.                                                     *)
RecencyStamps ==
  /\ \A p \in DOMAIN bids : bids[p].stamp < offset
  /\ \A p \in DOMAIN asks : asks[p].stamp < offset
  /\ \A p, q \in DOMAIN bids : bids[p].stamp = bids[q].stamp => p = q
  /\ \A p, q \in DOMAIN asks : asks[p].stamp = asks[q].stamp => p = q
  /\ \A p \in DOMAIN bids, q \in DOMAIN asks : bids[p].stamp # asks[q].stamp

(* The feed task implements BookMirror: each message yields exactly one    *)
(* top of book, computed from both sides after the whole message, in feed  *)
(* order; the task returns only after the feed closed and was drained, and  *)
(* one that panics has sent nothing of the message it fails on             *)
(* (handle_order_book_feed, dydx.rs:171-196).                              *)
ImplementsMirror == Mirror!MirrorSpec

(* Every message on the feed is eventually published, also when the feed   *)
(* is closed behind it, unless the task panics.                            *)
EveryMessagePublished ==
  \A i \in 1..MaxMsgs : (Len(log) >= i) ~> (Len(channel) >= i \/ phase = "panicked")

(* A closed feed ends the task (the break at dydx.rs:193).                 *)
TaskEndsAfterClose == ~open ~> phase \in {"ended", "panicked"}
=============================================================================
