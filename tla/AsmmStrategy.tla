---------------------------- MODULE AsmmStrategy ----------------------------
(***************************************************************************)
(* AvellanedaStoikovMarketMaking of                                        *)
(* src/src/strategy/avellaneda_stoikov_market_making.rs: its start-up with *)
(* Dydx::load_markets, and the thread behind the disruptor's ring buffer   *)
(* that runs handle_message.                                               *)
(*                                                                         *)
(* main loads the configuration, constructs the strategy (new), runs it    *)
(* (run) and waits for the watchers for ever; an error or a panic of main  *)
(* ends the process.  A panic of the consumer thread ends only that        *)
(* thread: the ring is not emptied again.                                  *)
(*                                                                         *)
(* The watchers of the source log what they receive and publish nothing    *)
(* (Publishing = FALSE).  With Publishing = TRUE they put it on the ring,  *)
(* as README.md draws it ("message --> disruptor"), so that what the       *)
(* handler then does can be checked.                                       *)
(*                                                                         *)
(* A value is the number of the message it comes from; the quotes that     *)
(* handle_message computes and drops are left out, except that computing   *)
(* them fails when γ is 0.  The keys γ, σ and κ are spelled out.           *)
(***************************************************************************)
EXTENDS Integers, Sequences

CONSTANTS Symbol,
          FirstSymbols, \* exchange.symbols() at construction; <<>> for Dydx
          RunSymbols,   \* the list `symbols` of run
          Gamma,        \* the configured γ is one of these
          Publishing,   \* whether the watchers publish what they receive
          BufferSize,   \* slots of the ring
          MaxMessages   \* bound: messages received by the watchers

ASSUME StrategyAssumption ==
  /\ FirstSymbols \in Seq(Symbol)
  /\ RunSymbols \in Seq(Symbol) /\ RunSymbols # <<>>
  /\ Gamma \subseteq Nat
  /\ Publishing \in BOOLEAN
  /\ BufferSize \in Nat \ {0}
  /\ MaxMessages \in Nat

VARIABLES main,     \* where main is
          symbols,  \* the exchange's symbols
          next,     \* the index of the symbol load_markets is at
          feeds,    \* the feeds subscribed
          tasks,    \* the feed tasks spawned, named as their feeds
          state,    \* STATE_STORAGE: a function from <<symbol, name>> keys
          trades,   \* TRADES_STORAGE: what was added, oldest first
          received, \* how many messages the watchers have received
          ring,     \* the slots published and not handled, oldest first
          consumer, \* where the consumer thread is
          writes,   \* the entries it has still to set
          handled   \* history: how many messages it has handled

mainVars == <<main, symbols, next, feeds, tasks>>
consumerVars == <<consumer, writes, handled>>
vars == <<mainVars, state, trades, received, ring, consumerVars>>

Parameters == {"gamma", "sigma", "kappa", "q"}

BookNames == <<"bid_price", "bid_size", "ask_price", "ask_size", "mid_price">>

(* state.set for several keys; state is a native map, a HashMap behind an  *)
(* RwLock: a call is one step. *)
Put(keys, val) ==
  [k \in DOMAIN state \cup keys |-> IF k \in keys THEN val ELSE state[k]]

Occurring(list) == {list[i] : i \in 1..Len(list)}

Init ==
  /\ main = "load" /\ symbols = FirstSymbols /\ next = 1
  /\ feeds = {} /\ tasks = {}
  /\ state = [k \in {} |-> 0] /\ trades = <<>>
  /\ received = 0 /\ ring = <<>>
  /\ consumer = "none" /\ writes = <<>> /\ handled = 0
-----------------------------------------------------------------------------
(***************************************************************************)
(* main: the configuration, new, then run with load_markets.               *)
(***************************************************************************)
LoadConfig ==
  /\ main = "load"
  /\ main' = "new"
  /\ UNCHANGED <<symbols, next, feeds, tasks, state, trades, received, ring, consumerVars>>

(* What init_state stores: σ, κ and q are constants, whatever is configured. *)
InitState(g) ==
  [k \in Occurring(symbols) \X Parameters |->
     IF k[2] = "gamma" THEN g ELSE IF k[2] = "q" THEN 0 ELSE 1]

New ==
  /\ main = "new"
  /\ \E g \in Gamma : state' = InitState(g)
  /\ consumer' = "idle"
  /\ main' = "run"
  /\ UNCHANGED <<symbols, next, feeds, tasks, trades, received, ring, writes, handled>>

AddSymbols ==
  /\ main = "run"
  /\ symbols' = symbols \o RunSymbols
  /\ main' = "subaccount"
  /\ UNCHANGED <<next, feeds, tasks, state, trades, received, ring, consumerVars>>

(* The configuration is not whole or names another strategy, the wallet    *)
(* cannot be derived, or a subscription fails and is unwrapped.            *)
MainPanics ==
  /\ main \in {"load", "new", "subaccount", "trades", "orders"}
  /\ main' = "panicked"
  /\ UNCHANGED <<symbols, next, feeds, tasks, state, trades, received, ring, consumerVars>>

SubscribeSubaccount ==
  /\ main = "subaccount"
  /\ feeds' = feeds \cup {<<"subaccount">>}
  /\ tasks' = tasks \cup {<<"subaccount">>}
  /\ main' = "trades"
  /\ UNCHANGED <<symbols, next, state, trades, received, ring, consumerVars>>

SubscribeTrades ==
  /\ main = "trades"
  /\ next <= Len(symbols)
  /\ feeds' = feeds \cup {<<"trades", symbols[next]>>}
  /\ main' = "orders"
  /\ UNCHANGED <<symbols, next, tasks, state, trades, received, ring, consumerVars>>

(* Mutant of SubscribeOrders: both tasks are spawned, whatever happens. *)
SubscribeOrdersAnyway ==
  /\ main = "orders"
  /\ feeds' \in {feeds, feeds \cup {<<"orders", symbols[next]>>}}
  /\ tasks' = tasks \cup {<<"trades", symbols[next]>>, <<"orders", symbols[next]>>}
  /\ next' = next + 1
  /\ main' = "trades"
  /\ UNCHANGED <<symbols, state, trades, received, ring, consumerVars>>

(* Both tasks of a symbol are spawned once both feeds are there. *)
SubscribeOrders ==
  /\ main = "orders"
  /\ feeds' = feeds \cup {<<"orders", symbols[next]>>}
  /\ tasks' = tasks \cup {<<"trades", symbols[next]>>, <<"orders", symbols[next]>>}
  /\ next' = next + 1
  /\ main' = "trades"
  /\ UNCHANGED <<symbols, state, trades, received, ring, consumerVars>>

SpawnWatchers ==
  /\ main = "trades"
  /\ next > Len(symbols)
  /\ main' = "watch"
  /\ UNCHANGED <<symbols, next, feeds, tasks, state, trades, received, ring, consumerVars>>

Main ==
  \/ LoadConfig \/ New \/ AddSymbols
  \/ SubscribeSubaccount \/ SubscribeTrades \/ SubscribeOrders \/ MainPanics
  \/ SpawnWatchers
-----------------------------------------------------------------------------
(***************************************************************************)
(* The watchers.                                                           *)
(***************************************************************************)
(* A book may lack either side (book_to_ccxt).  All are of symbols[1].     *)
Message(n) ==
  {[kind |-> "Book", num |-> n, bid |-> b, ask |-> a] : b, a \in BOOLEAN}
    \cup {[kind |-> k, num |-> n, bid |-> FALSE, ask |-> FALSE] :
            k \in {"Trade", "Balance", "Position"}}

(* publish waits for a free slot. *)
Publish(m) == Len(ring) < BufferSize /\ ring' = Append(ring, m)

Watch ==
  /\ main = "watch"
  /\ received < MaxMessages
  /\ received' = received + 1
  /\ \E m \in Message(received + 1) : IF Publishing THEN Publish(m) ELSE UNCHANGED ring
  /\ UNCHANGED <<mainVars, state, trades, consumerVars>>
-----------------------------------------------------------------------------
(***************************************************************************)
(* The consumer thread: handle_message for the oldest slot.  The slot is   *)
(* free again when the handler has returned.                               *)
(***************************************************************************)
Handles(kinds) ==
  /\ main # "panicked"
  /\ consumer = "idle"
  /\ ring # <<>>
  /\ Head(ring).kind \in kinds

Key(name) == <<symbols[1], name>>

Writes(names) == [i \in 1..Len(names) |-> [key |-> Key(names[i]), val |-> Head(ring).num]]

HandleIgnored ==
  /\ Handles({"Balance", "Position"})
  /\ consumer' = "set"
  /\ UNCHANGED <<mainVars, state, trades, received, ring, writes, handled>>

HandleTrade ==
  /\ Handles({"Trade"})
  /\ consumer' = "set"
  /\ writes' = Writes(<<"last">>)
  /\ UNCHANGED <<mainVars, state, trades, received, ring, handled>>

(* state.get(key).is_some() *)
Stored(key) == key \in DOMAIN state

(* optimal_spread divides by γ. *)
SpreadDefined == state[Key("gamma")] # 0

(* Every unwrap and the formulas come before the first set. *)
Computable ==
  /\ Head(ring).bid /\ Head(ring).ask
  /\ \A name \in Parameters : Stored(Key(name))
  /\ SpreadDefined

(* Mutant of HandleBook: the bid is stored before the ask is looked at. *)
HandleBookBidFirst ==
  /\ Handles({"Book"})
  /\ IF Computable
     THEN consumer' = "set" /\ writes' = Writes(BookNames)
     ELSE consumer' = "panicked" /\ UNCHANGED writes
  /\ state' = IF Head(ring).bid THEN Put({Key("bid_price")}, Head(ring).num) ELSE state
  /\ UNCHANGED <<mainVars, trades, received, ring, handled>>

HandleBook ==
  /\ Handles({"Book"})
  /\ IF Computable
     THEN consumer' = "set" /\ writes' = Writes(BookNames)
     ELSE consumer' = "panicked" /\ UNCHANGED writes
  /\ UNCHANGED <<mainVars, state, trades, received, ring, handled>>

(* state.set(key, value) *)
SetState ==
  /\ main # "panicked"
  /\ consumer = "set"
  /\ writes # <<>>
  /\ state' = Put({Head(writes).key}, Head(writes).val)
  /\ writes' = Tail(writes)
  /\ UNCHANGED <<mainVars, trades, received, ring, consumer, handled>>

(* Mutant of Finished: the handler returns before it has set everything. *)
FinishedEarly == TRUE

Finished == writes = <<>>

(* Mutant of AddTrade: the newest trade comes first. *)
AddTradeInFront == <<Head(ring).num>> \o trades

(* trades.add(price) *)
AddTrade == Append(trades, Head(ring).num)

(* trades.add for a trade, and the handler returns. *)
Returned ==
  /\ main # "panicked"
  /\ consumer = "set"
  /\ Finished
  /\ trades' = IF Head(ring).kind = "Trade" THEN AddTrade ELSE trades
  /\ ring' = Tail(ring)
  /\ handled' = handled + 1
  /\ consumer' = "idle"
  /\ UNCHANGED <<mainVars, state, received, writes>>

Consumer == HandleIgnored \/ HandleTrade \/ HandleBook \/ SetState \/ Returned

Next == Main \/ Watch \/ Consumer

Spec == Init /\ [][Next]_vars

(* The consumer is an operating system thread that polls the ring every    *)
(* millisecond.  Nobody has to send messages.                              *)
FairSpec == Spec /\ WF_vars(Consumer)
-----------------------------------------------------------------------------
(***************************************************************************)
(* Properties.                                                             *)
(***************************************************************************)
Book == {Key(BookNames[i]) : i \in 1..Len(BookNames)}

(* The types of the variables; the ring never overflows, and nothing is    *)
(* published or consumed before main has come that far.                    *)
TypeOK ==
  /\ main \in {"load", "new", "run", "subaccount", "trades", "orders", "watch", "panicked"}
  /\ symbols \in Seq(Symbol)
  /\ next \in 1..Len(symbols) + 1
  /\ tasks \subseteq {<<"subaccount">>} \cup ({"trades", "orders"} \X Symbol)
  /\ DOMAIN state \subseteq Symbol \X (Parameters \cup {"last"} \cup Occurring(BookNames))
  /\ state \in [DOMAIN state -> Nat]
  /\ Occurring(trades) \subseteq 1..received
  /\ received \in 0..MaxMessages
  /\ Len(ring) <= BufferSize
  /\ Publishing => handled + Len(ring) = received
  /\ consumer \in {"none", "idle", "set", "panicked"}
  /\ consumer # "set" => writes = <<>>

(* No watcher runs with a feed missing: when load_markets gets through,    *)
(* every feed is subscribed and has its task, and a task has its feed at   *)
(* any time (dydx.rs:371-408).                                             *)
WatchersHaveFeeds ==
  /\ tasks \subseteq feeds
  /\ main = "watch" =>
       tasks = {<<"subaccount">>} \cup ({"trades", "orders"} \X Occurring(symbols))

(* Between messages, and after a panic, the stored prices and sizes come   *)
(* from one order book: handle_message does everything that can fail       *)
(* before it stores anything (strategy 102-142).                           *)
BookIsWhole ==
  consumer \in {"idle", "panicked"} =>
    \/ \A k \in Book : k \notin DOMAIN state
    \/ Book \subseteq DOMAIN state /\ \A k \in Book : state[k] = state[Key("mid_price")]

(* Between two states nothing older takes the place of what is stored.     *)
GoesForward ==
  /\ main = "watch" => \A k \in DOMAIN state : k \in DOMAIN state' /\ state'[k] >= state[k]
  /\ \A i, j \in 1..Len(trades') : i < j => trades'[i] < trades'[j]

(* A stored value is never replaced by one from an older message, and the  *)
(* trades of the window are in the order of their messages.                *)
NewestWins == [][GoesForward]_vars

(* README.md, "message --> disruptor", "disruptor --> storage", and        *)
(* strategy.rs:1-2, "sending `Message`s into the disruptor and execute the *)
(* core logic": what a watcher receives is handled, unless the handler's   *)
(* thread has panicked.                                                    *)
ReceivedIsHandled ==
  \A n \in 1..MaxMessages : received >= n ~> handled >= n \/ consumer = "panicked"

(* handle_message unwraps q, γ, σ and κ of the symbol (strategy 123-126):  *)
(* by the time the watchers run, they are stored for every symbol.         *)
ParametersAreSet ==
  main = "watch" => Occurring(symbols) \X Parameters \subseteq DOMAIN state
=============================================================================
