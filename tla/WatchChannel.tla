---------------------------- MODULE WatchChannel ----------------------------
(***************************************************************************)
(* One of the four channels of src/src/exchange/dydx.rs between the feed   *)
(* tasks spawned by load_markets and the watch_* methods: the indexer's    *)
(* feeds, one task per subscribed symbol, an unbounded mpsc channel they   *)
(* share, the mutex around its receiver, and the watchers, tasks that call *)
(* watch_* again and again as AvellanedaStoikovMarketMaking::run does.     *)
(*                                                                         *)
(* payload "trades": handle_trades_feed and watch_trades.  A message is a  *)
(* list of contents, each a list of trades.  payload "orders":             *)
(* handle_order_book_feed and watch_order_book, one book per message;      *)
(* balance and positions are the same with one symbol all watchers want.   *)
(* An item is its symbol and its number on that symbol's feed (the id of a *)
(* trade); how books, balances and positions come about is in              *)
(* OrderBookFeed and SubaccountFeed.                                       *)
(*                                                                         *)
(* Dydx itself holds a sender of each channel (trades_tx, ..., lines       *)
(* 40-46), so recv() on an empty channel waits: the `None => panic!` arms  *)
(* of the watch methods are not reachable while a watcher holds its        *)
(* Arc<dyn Exchange>, and no action here stands for them.                  *)
(***************************************************************************)
EXTENDS Integers, Sequences, FiniteSets

CONSTANTS Symbol,       \* the subscribed symbols
          Watcher,      \* the tasks that call the watch method
          Payload,      \* what the channel may carry: "trades", "orders"
          Wants,        \* Wants[p][w]: the symbols whose items of p w returns
          MaxItems,     \* bound: items put on a feed, repeated ones included
          MaxBatch      \* bound: items in one feed message

ASSUME WatchAssumption ==
  /\ Wants \in [Payload -> [Watcher -> SUBSET Symbol]]
  /\ Payload \subseteq {"trades", "orders"}
  /\ MaxItems \in Nat
  /\ MaxBatch \in Nat \ {0}

VARIABLES payload,   \* what the channel carries
          feed,      \* feed[s]: messages in flight to the task of s
          open,      \* open[s]: the indexer still holds the feed of s
          announced, \* history: announced[s]: all items put on the feed of s
          task,      \* task[s]: where the loop of the task of s is
          batch,     \* batch[s]: items of its message not yet sent
          chan,      \* the channel
          lock,      \* the mutex: its holder first, then who waits for it
          seen       \* history: every item taken off the channel, by whom

feedVars == <<payload, feed, open, announced>>
taskVars == <<task, batch>>
channelVars == <<feedVars, taskVars, chan, lock, seen>>

Item == [sym : Symbol, n : 1..MaxItems]

ChannelInit ==
  /\ payload \in Payload
  /\ feed = [s \in Symbol |-> <<>>]
  /\ open = [s \in Symbol |-> TRUE]
  /\ announced = [s \in Symbol |-> <<>>]
  /\ task = [s \in Symbol |-> "recv"]
  /\ batch = [s \in Symbol |-> <<>>]
  /\ chan = <<>>
  /\ lock = <<>>
  /\ seen = <<>>
-----------------------------------------------------------------------------
(***************************************************************************)
(* Messages.                                                               *)
(***************************************************************************)
(* What one message may put on a feed. *)
Line == UNION {[1..k -> 1..MaxItems] : k \in 0..MaxItems}

(* The contents of a message list items[from + 1], ..., items[to], content *)
(* by content: end[c] is where content c ends.                             *)
Lists(contents, items, from, to) ==
  \E end \in [0..Len(contents) -> from..to] :
    /\ end[0] = from /\ end[Len(contents)] = to
    /\ \A c \in 1..Len(contents) :
         /\ end[c] = end[c - 1] + Len(contents[c])
         /\ \A k \in 1..Len(contents[c]) : items[end[c - 1] + k] = contents[c][k]
-----------------------------------------------------------------------------
(***************************************************************************)
(* The indexer.                                                            *)
(***************************************************************************)
(* The number of the newest item, 0 before the first, as a set.            *)
Newest(s) ==
  LET numbers == {0} \cup {announced[s][i] : i \in 1..Len(announced[s])}
  IN  {n \in numbers : \A m \in numbers : m <= n}

Put(s, items, contents) ==
  /\ open[s]
  /\ Len(announced[s]) + Len(items) <= MaxItems
  /\ feed' = [feed EXCEPT ![s] = Append(@, contents)]
  /\ announced' = [announced EXCEPT ![s] = @ \o items]
  /\ UNCHANGED <<payload, open, taskVars, chan, lock, seen>>

(* New items: trades in one content or in several, or one book. *)
Announce(s) ==
  \E newest \in Newest(s), k \in 1..(IF payload = "trades" THEN MaxBatch ELSE 1) :
    LET new == [i \in 1..k |-> newest + i]
    IN  \/ Put(s, new, <<new>>)
        \/ k > 1 /\ Put(s, new, [i \in 1..k |-> <<new[i]>>])

(* A lost connection is subscribed again, and the snapshot that answers    *)
(* lists recent trades, old and new, in whatever order.                    *)
Resubscribe(s) ==
  /\ payload = "trades"
  /\ \E newest \in Newest(s) \ {0}, k \in 1..MaxBatch :
       \E list \in [1..k -> 1..(newest + 1)] :
         /\ \A i, j \in 1..k : list[i] = list[j] => i = j
         /\ Put(s, list, <<list>>)

CloseFeed(s) ==
  /\ open[s]
  /\ open' = [open EXCEPT ![s] = FALSE]
  /\ UNCHANGED <<payload, feed, announced, taskVars, chan, lock, seen>>
-----------------------------------------------------------------------------
(***************************************************************************)
(* handle_trades_feed, handle_order_book_feed, handle_subaccount_feed.     *)
(***************************************************************************)
Receive(s) ==
  /\ task[s] = "recv"
  /\ feed[s] # <<>>
  /\ feed' = [feed EXCEPT ![s] = Tail(@)]
  /\ UNCHANGED <<payload, open, announced, chan, lock, seen>>

(* Mutant of TakeMessage: of an update only the first content is used. *)
TakeFirstContent(s) ==
  /\ Receive(s)
  /\ batch' = [batch EXCEPT ![s] = Head(Head(feed[s]))]
  /\ task' = [task EXCEPT ![s] = "send"]

(* Both arms of the match: the trades of all contents, in their order.     *)
TakeMessage(s) ==
  /\ Receive(s)
  /\ \E items \in Line : /\ Lists(Head(feed[s]), items, 0, Len(items))
                         /\ batch' = [batch EXCEPT ![s] = items]
  /\ task' = [task EXCEPT ![s] = "send"]

(* The unwrap of big_decimal_to_decimal fails for a number of the message: *)
(* the task is gone before it has sent anything of it.                     *)
TakePanics(s) ==
  /\ Receive(s)
  /\ task' = [task EXCEPT ![s] = "panicked"]
  /\ UNCHANGED batch

SendItem(s) ==
  /\ task[s] = "send"
  /\ batch[s] # <<>>
  /\ chan' = Append(chan, [sym |-> s, n |-> Head(batch[s])])
  /\ batch' = [batch EXCEPT ![s] = Tail(@)]
  /\ UNCHANGED <<feedVars, task, lock, seen>>

(* Mutant of BatchSent: the next message is awaited too early. *)
BatchSentEarly(s) ==
  /\ task[s] = "send"
  /\ task' = [task EXCEPT ![s] = "recv"]
  /\ UNCHANGED <<feedVars, batch, chan, lock, seen>>

BatchSent(s) ==
  /\ task[s] = "send"
  /\ batch[s] = <<>>
  /\ task' = [task EXCEPT ![s] = "recv"]
  /\ UNCHANGED <<feedVars, batch, chan, lock, seen>>

(* Mutant of TakeNone: the break is missing everywhere. *)
TakeNoneSpins(s) ==
  /\ task[s] = "recv" /\ feed[s] = <<>> /\ ~open[s]
  /\ task' = [task EXCEPT ![s] = "send"]
  /\ UNCHANGED <<feedVars, batch, chan, lock, seen>>

(* recv() on a closed and drained feed: the order-book and subaccount      *)
(* tasks break; the trades task sends an empty Vec and asks again, without *)
(* ever waiting.                                                           *)
TakeNone(s) ==
  /\ task[s] = "recv" /\ feed[s] = <<>> /\ ~open[s]
  /\ task' = [task EXCEPT ![s] = IF payload = "trades" THEN "send" ELSE "ended"]
  /\ UNCHANGED <<feedVars, batch, chan, lock, seen>>
-----------------------------------------------------------------------------
(***************************************************************************)
(* watch_trades, watch_order_book, watch_balance, watch_positions.         *)
(***************************************************************************)
Holds(w) == lock # <<>> /\ Head(lock) = w

(* The call: rx.lock().await.  The mutex is handed over in FIFO order.     *)
Call(w) ==
  /\ \A i \in 1..Len(lock) : lock[i] # w
  /\ lock' = Append(lock, w)
  /\ UNCHANGED <<feedVars, taskVars, chan, seen>>

Consume(w, returned) ==
  /\ chan' = Tail(chan)
  /\ seen' = Append(seen, [item |-> Head(chan), by |-> w, returned |-> returned])

(* recv() gives an item the watcher wants: return it, drop the guard.      *)
Return(w) ==
  /\ Holds(w)
  /\ chan # <<>>
  /\ Head(chan).sym \in Wants[payload][w]
  /\ Consume(w, TRUE)
  /\ lock' = Tail(lock)
  /\ UNCHANGED <<feedVars, taskVars>>

(* Mutant of Skip: the watcher discards whatever it finds. *)
SkipAnything(w) ==
  /\ Holds(w)
  /\ chan # <<>>
  /\ Consume(w, FALSE)
  /\ UNCHANGED <<feedVars, taskVars, lock>>

(* recv() gives an item for another symbol: it is lost, the guard is kept. *)
Skip(w) ==
  /\ Holds(w)
  /\ chan # <<>>
  /\ Head(chan).sym \notin Wants[payload][w]
  /\ Consume(w, FALSE)
  /\ UNCHANGED <<feedVars, taskVars, lock>>
-----------------------------------------------------------------------------
Task(s) == TakeMessage(s) \/ TakePanics(s) \/ SendItem(s) \/ BatchSent(s) \/ TakeNone(s)

Watch(w) == Call(w) \/ Return(w) \/ Skip(w)

ChannelNext ==
  \/ \E s \in Symbol : Announce(s) \/ Resubscribe(s) \/ CloseFeed(s) \/ Task(s)
  \/ \E w \in Watcher : Watch(w)

ChannelSpec == ChannelInit /\ [][ChannelNext]_channelVars

(* The runtime polls every task that can make progress; a task that spins  *)
(* is preempted by tokio's cooperative budget, so it starves nobody.       *)
FairSpec ==
  /\ ChannelSpec
  /\ \A s \in Symbol : WF_channelVars(Task(s))
  /\ \A w \in Watcher : WF_channelVars(Watch(w))
-----------------------------------------------------------------------------
(***************************************************************************)
(* Properties.                                                             *)
(***************************************************************************)
Taken == [item : Item, by : Watcher, returned : BOOLEAN]

(* The types of the variables; only a task that sends has items to send,   *)
(* and a watcher is queued for the mutex once.                             *)
ChannelTypeOK ==
  /\ payload \in Payload
  /\ feed \in [Symbol -> Seq(Seq(Seq(1..MaxItems)))]
  /\ open \in [Symbol -> BOOLEAN]
  /\ announced \in [Symbol -> Seq(1..MaxItems)]
  /\ task \in [Symbol -> {"recv", "send", "ended", "panicked"}]
  /\ batch \in [Symbol -> Seq(1..MaxItems)]
  /\ \A s \in Symbol : task[s] # "send" => batch[s] = <<>>
  /\ chan \in Seq(Item)
  /\ lock \in Seq(Watcher)
  /\ \A i, j \in 1..Len(lock) : lock[i] = lock[j] => i = j
  /\ seen \in Seq(Taken)

(* What the tasks have sent, oldest first. *)
Sent == [i \in 1..Len(seen) |-> seen[i].item] \o chan

(* How many of the first m items are of s. *)
Count(items, s, m) == Cardinality({i \in 1..m : items[i].sym = s})

(* The messages list the items after the first `from`, message by message. *)
Follow(messages, items, from) ==
  \E end \in [0..Len(messages) -> from..Len(items)] :
    /\ end[0] = from /\ end[Len(messages)] = Len(items)
    /\ \A i \in 1..Len(messages) : Lists(messages[i], items, end[i - 1], end[i])

(* From feed to watcher nothing is lost, duplicated or reordered per       *)
(* symbol, although the tasks of several symbols share the channel and     *)
(* several watchers share its receiver: the items taken off the channel    *)
(* and those on it, then what the task still has to send, then what is on  *)
(* the feed are, in this order, the items the indexer announced.  Trades a *)
(* snapshot repeats after a lost connection are passed on where the        *)
(* snapshot came (dydx.rs:85-100), so their ids tell a reader what is new. *)
(* What a task that panics has forwarded is a beginning of them.           *)
PipelineIsFifo ==
  \A s \in Symbol :
    LET sent == Count(Sent, s, Len(Sent))
    IN  /\ sent + Len(batch[s]) <= Len(announced[s])
        /\ \A i \in 1..Len(Sent) :
             Sent[i].sym = s => Sent[i].n = announced[s][Count(Sent, s, i)]
        /\ \A k \in 1..Len(batch[s]) : batch[s][k] = announced[s][sent + k]
        /\ task[s] # "panicked" => Follow(feed[s], announced[s], sent + Len(batch[s]))

TakenOf(s) == SelectSeq(seen, LAMBDA t : t.item.sym = s)

(* A watcher returns what it wants, and what another symbol's watcher      *)
(* steals from it is all it misses (dydx.rs:420): each item is in the end  *)
(* returned by a watcher that wants it or discarded by one that does not,  *)
(* so every item of a symbol all watchers want is returned.  Also when     *)
(* other symbols' items share the channel, when a closed feed is asked     *)
(* again and again, when the feed is closed behind it and when the task of *)
(* another symbol panics.                                                  *)
WantedIsDelivered ==
  \A s \in Symbol, i \in 1..MaxItems :
    (Len(announced[s]) >= i)
      ~> \/ /\ Len(TakenOf(s)) >= i
            /\ TakenOf(s)[i].returned <=> s \in Wants[payload][TakenOf(s)[i].by]
         \/ task[s] = "panicked"

(* A closed feed ends the task of a book (dydx.rs:191-194), balance or     *)
(* position feed (307-310); the trades task has no such arm (126).         *)
ClosedFeedEndsTask ==
  \A s \in Symbol : payload = "orders" /\ ~open[s] ~> task[s] \in {"ended", "panicked"}
=============================================================================
