------------------------- MODULE AsmmStrategyProofs -------------------------
(***************************************************************************)
(* Theorems about AsmmStrategy, for every list of symbols, every γ, every  *)
(* size of the ring and every number of messages, whether the watchers     *)
(* publish or not.                                                         *)
(***************************************************************************)
EXTENDS AsmmStrategy, TLAPS

BookName == {"bid_price", "bid_size", "ask_price", "ask_size", "mid_price"}

Name == Parameters \cup {"last"} \cup BookName

Slot == [kind : {"Book", "Trade", "Balance", "Position"}, num : Nat, bid : BOOLEAN, ask : BOOLEAN]

Entry == [key : Symbol \X Name, val : Nat]

(***************************************************************************)
(* Names and keys.                                                         *)
(***************************************************************************)
LEMMA BookNamesAre ==
  /\ Len(BookNames) = 5
  /\ \A i \in 1..5 : BookNames[i] \in BookName
  /\ Occurring(BookNames) = BookName
<1>1. Len(BookNames) = 5
  BY DEF BookNames
<1>2. /\ BookNames[1] = "bid_price" /\ BookNames[2] = "bid_size"
      /\ BookNames[3] = "ask_price" /\ BookNames[4] = "ask_size"
      /\ BookNames[5] = "mid_price"
  BY DEF BookNames
<1>3. 1..5 = {1, 2, 3, 4, 5}
  OBVIOUS
<1> QED BY <1>1, <1>2, <1>3 DEF Occurring, BookName

LEMMA BookIs == Book = {Key(name) : name \in BookName}
BY BookNamesAre DEF Book, Occurring
-----------------------------------------------------------------------------
(***************************************************************************)
(* main.                                                                   *)
(***************************************************************************)
(* How far main has come, and what it has seen to by then.                 *)
MainInv ==
  /\ main \in {"load", "new", "run", "subaccount", "trades", "orders", "watch", "panicked"}
  /\ symbols \in Seq(Symbol)
  /\ next \in 1..Len(symbols) + 1
  /\ main \in {"load", "new", "run", "subaccount"} => next = 1
  /\ main \in {"subaccount", "trades", "orders", "watch"} => symbols # <<>>
  /\ main = "orders" => next <= Len(symbols)
  /\ main = "watch" => next = Len(symbols) + 1

Served(n) == {<<kind, symbols[i]>> : kind \in {"trades", "orders"}, i \in 1..n}

FeedsInv ==
  /\ tasks \subseteq feeds
  /\ main \in {"load", "new", "run", "subaccount"} => tasks = {}
  /\ main \in {"trades", "orders", "watch"} => tasks = {<<"subaccount">>} \cup Served(next - 1)
  /\ main = "orders" => <<"trades", symbols[next]>> \in feeds
  /\ tasks \subseteq {<<"subaccount">>} \cup ({"trades", "orders"} \X Symbol)

LEMMA MainInit == Init => MainInv /\ FeedsInv
BY StrategyAssumption DEF Init, MainInv, FeedsInv

LEMMA MainStep == MainInv /\ [Next]_vars => MainInv'
<1> SUFFICES ASSUME MainInv, [Next]_vars PROVE MainInv'
  OBVIOUS
<1> USE StrategyAssumption DEF MainInv
<1>1. CASE LoadConfig
  BY <1>1 DEF LoadConfig
<1>2. CASE New
  BY <1>2 DEF New
<1>3. CASE AddSymbols
  <2>1. /\ symbols \o RunSymbols \in Seq(Symbol)
        /\ Len(symbols \o RunSymbols) = Len(symbols) + Len(RunSymbols)
    OBVIOUS
  <2> QED BY <1>3, <2>1 DEF AddSymbols
<1>4. CASE MainPanics
  BY <1>4 DEF MainPanics
<1>5. CASE SubscribeSubaccount
  BY <1>5 DEF SubscribeSubaccount
<1>6. CASE SubscribeTrades
  BY <1>6 DEF SubscribeTrades
<1>7. CASE SubscribeOrders
  BY <1>7 DEF SubscribeOrders
<1>8. CASE SpawnWatchers
  BY <1>8 DEF SpawnWatchers
<1>9. CASE Watch \/ Consumer \/ UNCHANGED vars
  BY <1>9 DEF Watch, Consumer, HandleIgnored, HandleTrade, HandleBook, SetState, Returned, mainVars, vars
<1> QED BY <1>1, <1>2, <1>3, <1>4, <1>5, <1>6, <1>7, <1>8, <1>9 DEF Next, Main

LEMMA MainCorrect == Spec => []MainInv
BY MainInit, MainStep, PTL DEF Spec

(* A task is spawned behind the subscription of its feed.                  *)
LEMMA FeedsStep == MainInv /\ FeedsInv /\ [Next]_vars => FeedsInv'
<1> SUFFICES ASSUME MainInv, FeedsInv, [Next]_vars PROVE FeedsInv'
  OBVIOUS
<1>1. CASE LoadConfig \/ New \/ AddSymbols
  BY <1>1 DEF LoadConfig, New, AddSymbols, FeedsInv
<1>2. CASE MainPanics
  BY <1>2 DEF MainPanics, FeedsInv
<1>3. CASE SubscribeSubaccount
  <2>1. next = 1 /\ next' = 1 /\ tasks' = {<<"subaccount">>}
    BY <1>3 DEF SubscribeSubaccount, FeedsInv, MainInv
  <2>2. Served(next - 1)' = {}
    BY <2>1 DEF Served
  <2> QED BY <1>3, <2>1, <2>2 DEF SubscribeSubaccount, FeedsInv
<1>4. CASE SubscribeTrades
  BY <1>4 DEF SubscribeTrades, FeedsInv, MainInv, Served
<1>5. CASE SubscribeOrders
  <2>1. next \in Nat \ {0} /\ next \in 1..Len(symbols) /\ symbols[next] \in Symbol
    BY <1>5 DEF SubscribeOrders, MainInv
  <2>2. 1..next = 1..(next - 1) \cup {next}
    BY <2>1
  <2>3. Served(next) = Served(next - 1) \cup {<<"trades", symbols[next]>>, <<"orders", symbols[next]>>}
    BY <2>2 DEF Served
  <2>4. Served(next - 1)' = Served(next)
    BY <1>5, <2>1 DEF SubscribeOrders, Served
  <2>5. tasks' = {<<"subaccount">>} \cup Served(next)
    BY <1>5, <2>3 DEF SubscribeOrders, FeedsInv
  <2>6. tasks' \subseteq feeds'
    BY <1>5 DEF SubscribeOrders, FeedsInv
  <2>7. tasks' \subseteq {<<"subaccount">>} \cup ({"trades", "orders"} \X Symbol)
    BY <1>5, <2>1 DEF SubscribeOrders, FeedsInv
  <2> QED BY <1>5, <2>4, <2>5, <2>6, <2>7 DEF SubscribeOrders, FeedsInv
<1>6. CASE SpawnWatchers
  BY <1>6 DEF SpawnWatchers, FeedsInv, Served
<1>7. CASE Watch \/ Consumer \/ UNCHANGED vars
  BY <1>7 DEF Watch, Consumer, HandleIgnored, HandleTrade, HandleBook, SetState, Returned,
              mainVars, vars, FeedsInv, Served
<1> QED BY <1>1, <1>2, <1>3, <1>4, <1>5, <1>6, <1>7 DEF Next, Main

LEMMA AllServed ==
  ASSUME MainInv
  PROVE  Served(Len(symbols)) = {"trades", "orders"} \X Occurring(symbols)
BY DEF Served, Occurring, MainInv

(* When load_markets gets through, every feed is subscribed and has its    *)
(* task, and no task is ever spawned without its feed (dydx.rs:371-408).   *)
THEOREM FeedsBeforeWatchers == Spec => []WatchersHaveFeeds
<1>1. MainInv /\ FeedsInv => WatchersHaveFeeds
  BY AllServed DEF MainInv, FeedsInv, WatchersHaveFeeds
<1> QED BY MainInit, MainStep, FeedsStep, <1>1, PTL DEF Spec
-----------------------------------------------------------------------------
(***************************************************************************)
(* The ring.                                                               *)
(***************************************************************************)
(* The ring holds the messages from the one being handled to the newest,   *)
(* and nothing happens on it before the watchers run.                      *)
RingInv ==
  /\ ring \in Seq(Slot) /\ Len(ring) <= BufferSize
  /\ received \in 0..MaxMessages /\ handled \in Nat
  /\ handled + Len(ring) <= received
  /\ Publishing => handled + Len(ring) = received
  /\ ~Publishing => ring = <<>>
  /\ \A i \in 1..Len(ring) : ring[i].num = handled + i
  /\ main # "watch" => ring = <<>> /\ received = 0
  /\ consumer \in {"none", "idle", "set", "panicked"}
  /\ consumer = "set" => ring # <<>>

LEMMA RingInit == Init => RingInv
BY StrategyAssumption DEF Init, RingInv

LEMMA HeadIs ==
  ASSUME RingInv, ring # <<>>
  PROVE  Head(ring) \in Slot /\ Head(ring).num = handled + 1 /\ Len(ring) \in Nat \ {0}
<1>1. Len(ring) \in Nat \ {0} /\ Head(ring) = ring[1] /\ ring[1] \in Slot
  BY DEF RingInv
<1>2. ring[1].num = handled + 1
  BY <1>1 DEF RingInv
<1> QED BY <1>1, <1>2

LEMMA MessageIs ==
  ASSUME NEW n \in Nat, NEW m \in Message(n)
  PROVE  m \in Slot /\ m.num = n
<1>1. CASE \E b, a \in BOOLEAN : m = [kind |-> "Book", num |-> n, bid |-> b, ask |-> a]
  BY <1>1 DEF Slot
<1>2. CASE \E k \in {"Trade", "Balance", "Position"} :
             m = [kind |-> k, num |-> n, bid |-> FALSE, ask |-> FALSE]
  BY <1>2 DEF Slot
<1>3. \/ m \in {[kind |-> "Book", num |-> n, bid |-> b, ask |-> a] : b, a \in BOOLEAN}
      \/ m \in {[kind |-> k, num |-> n, bid |-> FALSE, ask |-> FALSE] :
                  k \in {"Trade", "Balance", "Position"}}
  BY DEF Message
<1> QED BY <1>1, <1>2, <1>3

LEMMA RingStep == RingInv /\ [Next]_vars => RingInv'
<1> SUFFICES ASSUME RingInv, [Next]_vars PROVE RingInv'
  OBVIOUS
<1> USE StrategyAssumption DEF RingInv
<1>1. CASE Main
  BY <1>1 DEF Main, LoadConfig, New, AddSymbols, MainPanics, SubscribeSubaccount, SubscribeTrades,
              SubscribeOrders, SpawnWatchers, consumerVars
<1>2. CASE Watch
  <2>1. PICK m \in Message(received + 1) : IF Publishing THEN Publish(m) ELSE UNCHANGED ring
    BY <1>2 DEF Watch
  <2>2. m \in Slot /\ m.num = received + 1
    <3>1. received + 1 \in Nat
      OBVIOUS
    <3> HIDE DEF RingInv
    <3> QED BY <2>1, <3>1, MessageIs
  <2>3. CASE Publishing
    <3>1. ring' = Append(ring, m) /\ Len(ring) < BufferSize
      BY <2>1, <2>3 DEF Publish
    <3>2. /\ ring' \in Seq(Slot) /\ Len(ring') = Len(ring) + 1
          /\ \A i \in 1..Len(ring') : ring'[i].num = handled + i
      <4>1. ring' \in Seq(Slot) /\ Len(ring') = Len(ring) + 1
        BY <2>2, <3>1
      <4>2. ASSUME NEW i \in 1..Len(ring') PROVE ring'[i].num = handled + i
        <5>1. CASE i = Len(ring) + 1
          BY <2>2, <2>3, <3>1, <5>1
        <5>2. CASE i \in 1..Len(ring)
          BY <3>1, <5>2
        <5> QED BY <4>1, <5>1, <5>2
      <4> QED BY <4>1, <4>2
    <3> QED BY <1>2, <2>3, <3>1, <3>2 DEF Watch, mainVars, consumerVars
  <2>4. CASE ~Publishing
    BY <1>2, <2>1, <2>4 DEF Watch, mainVars, consumerVars
  <2> QED BY <2>3, <2>4
<1>3. CASE HandleIgnored \/ HandleTrade \/ HandleBook \/ SetState
  BY <1>3 DEF HandleIgnored, HandleTrade, HandleBook, SetState, Handles, mainVars
<1>4. CASE Returned
  <2>1. ring # <<>> /\ Len(ring) \in Nat \ {0}
    BY <1>4, HeadIs DEF Returned
  <2>2. /\ Tail(ring) \in Seq(Slot) /\ Len(Tail(ring)) = Len(ring) - 1
        /\ \A i \in 1..Len(Tail(ring)) : Tail(ring)[i] = ring[i + 1]
    BY <2>1
  <2>3. \A i \in 1..Len(Tail(ring)) : Tail(ring)[i].num = handled + 1 + i
    BY <2>1, <2>2
  <2> QED BY <1>4, <2>1, <2>2, <2>3 DEF Returned, mainVars
<1>5. CASE UNCHANGED vars
  BY <1>5 DEF vars, mainVars, consumerVars
<1> QED BY <1>1, <1>2, <1>3, <1>4, <1>5 DEF Next, Consumer
-----------------------------------------------------------------------------
(***************************************************************************)
(* The two stores.                                                         *)
(***************************************************************************)
(* Parameters are stored before the watchers run and never again; what the *)
(* handler stores or has still to store is not newer than its message.     *)
StateInv ==
  /\ state \in [DOMAIN state -> Nat]
  /\ DOMAIN state \subseteq Symbol \X Name
  /\ main # "watch" => DOMAIN state \subseteq Symbol \X Parameters
  /\ writes \in Seq(Entry)
  /\ \A i \in 1..Len(writes) : writes[i].val = handled + 1 /\ writes[i].key[2] \notin Parameters
  /\ consumer # "set" => writes = <<>>
  /\ \A k \in DOMAIN state : k[2] \notin Parameters => state[k] <= handled + 1

TradesInv ==
  /\ trades \in Seq(Nat)
  /\ \A i \in 1..Len(trades) : trades[i] \in 1..handled
  /\ \A i, j \in 1..Len(trades) : i < j => trades[i] < trades[j]

HandlerInv == MainInv /\ RingInv /\ StateInv

LEMMA HandlesIs ==
  ASSUME HandlerInv, NEW kinds, Handles(kinds)
  PROVE  /\ main = "watch" /\ symbols[1] \in Symbol
         /\ \A name \in Name : Key(name) \in Symbol \X Name
BY DEF HandlerInv, MainInv, RingInv, Handles, Key

(* What a message lets the handler write is of its number and no parameter.*)
LEMMA WritesAre ==
  ASSUME HandlerInv, NEW kinds, Handles(kinds),
         NEW names \in Seq(Name \ Parameters)
  PROVE  /\ Writes(names) \in Seq(Entry) /\ Len(Writes(names)) = Len(names)
         /\ \A i \in 1..Len(names) : Writes(names)[i] = [key |-> Key(names[i]), val |-> handled + 1]
         /\ \A i \in 1..Len(Writes(names)) :
              Writes(names)[i].val = handled + 1 /\ Writes(names)[i].key[2] \notin Parameters
<1>1. Head(ring).num = handled + 1 /\ handled + 1 \in Nat
  BY HeadIs DEF HandlerInv, Handles, RingInv
<1>2. Len(names) \in Nat /\ \A i \in 1..Len(names) : names[i] \in Name /\ names[i] \notin Parameters
  OBVIOUS
<1>3. ASSUME NEW i \in 1..Len(names)
      PROVE  /\ [key |-> Key(names[i]), val |-> handled + 1] \in Entry
             /\ Key(names[i])[2] \notin Parameters
  BY <1>1, <1>2, <1>3, HandlesIs DEF Entry, Key
<1>4. Writes(names) = [i \in 1..Len(names) |-> [key |-> Key(names[i]), val |-> handled + 1]]
  BY <1>1 DEF Writes
<1>5. Writes(names) \in Seq(Entry) /\ Len(Writes(names)) = Len(names)
  BY <1>2, <1>3, <1>4
<1> QED BY <1>3, <1>4, <1>5

LEMMA BookNamesTyped == BookNames \in Seq(Name \ Parameters) /\ <<"last">> \in Seq(Name \ Parameters)
<1>1. BookName \subseteq Name \ Parameters /\ "last" \in Name \ Parameters
  BY DEF BookName, Name, Parameters
<1>2. BookNames \in Seq(BookName)
  BY DEF BookNames, BookName
<1> QED BY <1>1, <1>2

LEMMA PutIs ==
  ASSUME NEW key, NEW val, state' = Put({key}, val)
  PROVE  /\ DOMAIN state' = DOMAIN state \cup {key}
         /\ state'[key] = val
         /\ \A k \in DOMAIN state : k # key => state'[k] = state[k]
         /\ state' = [k \in DOMAIN state' |-> state'[k]]
BY DEF Put

LEMMA StateInit == Init => StateInv /\ TradesInv
BY DEF Init, StateInv, TradesInv

LEMMA StateStep == HandlerInv /\ [Next]_vars => StateInv'
<1> SUFFICES ASSUME HandlerInv, [Next]_vars PROVE StateInv'
  OBVIOUS
<1> USE StrategyAssumption
<1>a. MainInv /\ RingInv /\ StateInv
  BY DEF HandlerInv
<1>1. CASE New
  <2>1. PICK g \in Gamma : state' = InitState(g)
    BY <1>1 DEF New
  <2>2. /\ DOMAIN state' = Occurring(symbols) \X Parameters
        /\ state' \in [DOMAIN state' -> Nat]
    BY <2>1 DEF InitState
  <2>3. Occurring(symbols) \subseteq Symbol
    BY <1>a DEF Occurring, MainInv
  <2>4. \A k \in DOMAIN state' : k[2] \in Parameters
    BY <2>2
  <2>5. main # "watch" /\ main' # "watch" /\ writes' = writes /\ handled' = handled /\ ring' = ring /\ received' = received
    BY <1>1 DEF New
  <2>6. writes = <<>>
    BY <1>1, <1>a DEF New, RingInv, StateInv
  <2> QED BY <1>a, <2>2, <2>3, <2>4, <2>5, <2>6 DEF StateInv, Name
<1>2. CASE Main /\ ~New
  <2>1. UNCHANGED <<state, writes, handled, consumer>>
    BY <1>2 DEF Main, LoadConfig, AddSymbols, MainPanics, SubscribeSubaccount, SubscribeTrades,
                SubscribeOrders, SpawnWatchers, consumerVars
  <2>2. main # "watch"
    BY <1>2 DEF Main, LoadConfig, AddSymbols, MainPanics, SubscribeSubaccount, SubscribeTrades,
                SubscribeOrders, SpawnWatchers
  <2> QED BY <1>a, <2>1, <2>2 DEF StateInv
<1>3. CASE Watch \/ UNCHANGED vars
  BY <1>3, <1>a DEF Watch, vars, mainVars, consumerVars, StateInv
<1>4. CASE HandleIgnored
  BY <1>4, <1>a DEF HandleIgnored, Handles, mainVars, StateInv
<1>5. CASE HandleTrade
  <2>1. Handles({"Trade"}) /\ main = "watch" /\ writes' = Writes(<<"last">>)
    BY <1>5, HandlesIs DEF HandleTrade
  <2>2. /\ writes' \in Seq(Entry)
        /\ \A i \in 1..Len(writes') : writes'[i].val = handled + 1 /\ writes'[i].key[2] \notin Parameters
    BY <2>1, WritesAre, BookNamesTyped
  <2> QED BY <1>5, <1>a, <2>1, <2>2 DEF HandleTrade, mainVars, StateInv
<1>6. CASE HandleBook
  <2>1. Handles({"Book"}) /\ main = "watch"
    BY <1>6, HandlesIs DEF HandleBook
  <2>2. /\ Writes(BookNames) \in Seq(Entry)
        /\ \A i \in 1..Len(Writes(BookNames)) :
             Writes(BookNames)[i].val = handled + 1 /\ Writes(BookNames)[i].key[2] \notin Parameters
    BY <2>1, WritesAre, BookNamesTyped
  <2> QED BY <1>6, <1>a, <2>1, <2>2 DEF HandleBook, Handles, mainVars, StateInv
<1>7. CASE SetState
  <2> DEFINE key == Head(writes).key
             val == Head(writes).val
  <2>1. /\ writes \in Seq(Entry) /\ writes # <<>>
        /\ state' = Put({key}, val) /\ writes' = Tail(writes)
        /\ UNCHANGED <<main, handled, consumer>> /\ consumer = "set"
    BY <1>7, <1>a DEF SetState, StateInv, mainVars
  <2>2. main = "watch" /\ handled \in Nat
    BY <2>1, <1>a DEF RingInv
  <2>3. /\ key \in Symbol \X Name /\ val = handled + 1 /\ key[2] \notin Parameters
    <3>1. Head(writes) = writes[1] /\ 1 \in 1..Len(writes) /\ writes[1] \in Entry
      BY <2>1
    <3> QED BY <3>1, <1>a DEF StateInv, Entry
  <2>4. /\ Tail(writes) \in Seq(Entry)
        /\ \A i \in 1..Len(Tail(writes)) : Tail(writes)[i] = writes[i + 1] /\ i + 1 \in 1..Len(writes)
    BY <2>1
  <2>5. \A i \in 1..Len(writes') : writes'[i].val = handled + 1 /\ writes'[i].key[2] \notin Parameters
    BY <2>1, <2>4, <1>a DEF StateInv
  <2> HIDE DEF key, val
  <2>6. /\ DOMAIN state' = DOMAIN state \cup {key}
        /\ state' \in [DOMAIN state' -> Nat]
    <3>1. \A k \in DOMAIN state : state[k] \in Nat
      BY <1>a DEF StateInv
    <3>2. DOMAIN state' = DOMAIN state \cup {key} /\ state' = [k \in DOMAIN state' |-> state'[k]]
      BY <2>1, PutIs
    <3>3. state'[key] \in Nat
      <4>1. state'[key] = val
        BY <2>1, PutIs
      <4> QED BY <4>1, <2>2, <2>3
    <3>4. \A k \in DOMAIN state : k # key => state'[k] = state[k]
      BY <2>1, PutIs
    <3>5. \A k \in DOMAIN state' : state'[k] \in Nat
      BY <3>1, <3>2, <3>3, <3>4
    <3> QED BY <3>2, <3>5
  <2>7. \A k \in DOMAIN state' : k[2] \notin Parameters => state'[k] <= handled + 1
    <3>1. state'[key] = handled + 1
      BY <2>1, <2>3, PutIs
    <3>2. \A k \in DOMAIN state : k # key => state'[k] = state[k]
      BY <2>1, PutIs
    <3>3. \A k \in DOMAIN state : k[2] \notin Parameters => state[k] <= handled + 1
      BY <1>a DEF StateInv
    <3> QED BY <2>2, <2>6, <3>1, <3>2, <3>3
  <2> QED BY <1>a, <2>1, <2>2, <2>3, <2>4, <2>5, <2>6, <2>7 DEF StateInv
<1>8. CASE Returned
  <2>1. writes = <<>> /\ writes' = writes /\ state' = state /\ handled' = handled + 1 /\ main' = main
    BY <1>8 DEF Returned, Finished, mainVars
  <2>2. handled \in Nat
    BY <1>a DEF RingInv
  <2>3. \A k \in DOMAIN state : state[k] \in Nat
    BY <1>a DEF StateInv
  <2> QED BY <1>a, <2>1, <2>2, <2>3 DEF StateInv
<1> QED BY <1>1, <1>2, <1>3, <1>4, <1>5, <1>6, <1>7, <1>8 DEF Next, Consumer

LEMMA TradesStep == HandlerInv /\ TradesInv /\ [Next]_vars => TradesInv'
<1> SUFFICES ASSUME HandlerInv, TradesInv, [Next]_vars PROVE TradesInv'
  OBVIOUS
<1>a. handled \in Nat /\ RingInv
  BY DEF HandlerInv, RingInv
<1>1. CASE Returned
  <2>1. ring # <<>> /\ handled' = handled + 1
    BY <1>1, <1>a DEF Returned, RingInv
  <2>2. CASE trades' = trades
    BY <2>1, <2>2, <1>a DEF TradesInv
  <2>3. CASE trades' = Append(trades, handled + 1)
    <3>1. /\ trades' \in Seq(Nat) /\ Len(trades') = Len(trades) + 1
          /\ trades'[Len(trades) + 1] = handled + 1
          /\ \A i \in 1..Len(trades) : trades'[i] = trades[i]
      BY <2>3, <1>a DEF TradesInv
    <3>2. ASSUME NEW i \in 1..Len(trades') PROVE trades'[i] \in 1..handled'
      <4>1. Len(trades) \in Nat
        BY DEF TradesInv
      <4>2. CASE i = Len(trades) + 1
        BY <4>2, <3>1, <2>1, <1>a
      <4>3. CASE i \in 1..Len(trades)
        <5>1. trades'[i] \in 1..handled
          BY <4>3, <3>1 DEF TradesInv
        <5> QED BY <5>1, <2>1, <1>a
      <4> QED BY <3>1, <4>1, <4>2, <4>3
    <3>3. ASSUME NEW i \in 1..Len(trades'), NEW j \in 1..Len(trades'), i < j
          PROVE  trades'[i] < trades'[j]
      <4>1. i \in 1..Len(trades) /\ Len(trades) \in Nat
        BY <3>1, <3>3 DEF TradesInv
      <4>2. CASE j = Len(trades) + 1
        <5>1. trades'[j] = handled + 1 /\ trades'[i] = trades[i]
          BY <3>1, <4>1, <4>2
        <5>2. trades[i] \in 1..handled
          BY <4>1 DEF TradesInv
        <5> QED BY <5>1, <5>2, <1>a
      <4>3. CASE j \in 1..Len(trades)
        BY <3>1, <3>3, <4>1, <4>3 DEF TradesInv
      <4> QED BY <3>1, <3>3, <4>1, <4>2, <4>3
    <3> QED BY <3>1, <3>2, <3>3 DEF TradesInv
  <2> QED BY <1>1, <1>a, <2>1, <2>2, <2>3, HeadIs DEF Returned, AddTrade
<1>2. CASE ~Returned
  <2>1. UNCHANGED <<trades, handled>>
    BY <1>2 DEF Next, Main, Consumer, LoadConfig, New, AddSymbols, MainPanics, SubscribeSubaccount,
                SubscribeTrades, SubscribeOrders, SpawnWatchers, Watch, HandleIgnored, HandleTrade,
                HandleBook, SetState, vars, mainVars, consumerVars
  <2> QED BY <2>1 DEF TradesInv
<1> QED BY <1>1, <1>2

LEMMA InvInit == Init => HandlerInv /\ FeedsInv /\ TradesInv
BY MainInit, RingInit, StateInit DEF HandlerInv

LEMMA InvStep == HandlerInv /\ FeedsInv /\ TradesInv /\ [Next]_vars => (HandlerInv /\ FeedsInv /\ TradesInv)'
BY MainStep, RingStep, FeedsStep, StateStep, TradesStep DEF HandlerInv

(* The types of the strategy's state.  The ring's counts add up: what is   *)
(* published is handled or still on the ring, which is never over its size *)
(* (main, load_markets, handle_message).                                   *)
THEOREM TypeCorrect == Spec => []TypeOK
<1>1. HandlerInv /\ FeedsInv /\ TradesInv => TypeOK
  <2> SUFFICES ASSUME HandlerInv, FeedsInv, TradesInv PROVE TypeOK
    OBVIOUS
  <2>1. DOMAIN state \subseteq Symbol \X (Parameters \cup {"last"} \cup Occurring(BookNames))
    BY BookNamesAre DEF HandlerInv, StateInv, Name
  <2>2. Occurring(trades) \subseteq 1..received
    <3>1. /\ handled \in Nat /\ received \in Nat /\ Len(ring) \in Nat
          /\ handled + Len(ring) <= received
      BY StrategyAssumption DEF HandlerInv, RingInv
    <3>2. 1..handled \subseteq 1..received
      BY <3>1
    <3> QED BY <3>2 DEF TradesInv, Occurring
  <2>3. /\ main \in {"load", "new", "run", "subaccount", "trades", "orders", "watch", "panicked"}
        /\ symbols \in Seq(Symbol) /\ next \in 1..Len(symbols) + 1
    BY DEF HandlerInv, MainInv
  <2>4. /\ received \in 0..MaxMessages /\ Len(ring) <= BufferSize
        /\ Publishing => handled + Len(ring) = received
        /\ consumer \in {"none", "idle", "set", "panicked"}
    BY DEF HandlerInv, RingInv
  <2> QED BY <2>1, <2>2, <2>3, <2>4 DEF HandlerInv, StateInv, FeedsInv, TypeOK
<1> QED BY InvInit, InvStep, <1>1, PTL DEF Spec

(* What the handler stores comes from the message it handles, and messages *)
(* are handled in the order they were received.                            *)
LEMMA ForwardStep == HandlerInv /\ TradesInv /\ [Next]_vars => GoesForward
<1> SUFFICES ASSUME HandlerInv, TradesInv, [Next]_vars PROVE GoesForward
  OBVIOUS
<1>1. \A i, j \in 1..Len(trades') : i < j => trades'[i] < trades'[j]
  BY TradesStep DEF TradesInv
<1>2. ASSUME main = "watch", NEW k \in DOMAIN state
      PROVE  k \in DOMAIN state' /\ state'[k] >= state[k]
  <2>1. state[k] \in Nat /\ handled \in Nat
    BY <1>2 DEF HandlerInv, StateInv, RingInv
  <2>2. CASE SetState
    <3> DEFINE key == Head(writes).key
               val == Head(writes).val
    <3>1. writes \in Seq(Entry) /\ writes # <<>> /\ state' = Put({key}, val)
      BY <2>2 DEF SetState, HandlerInv, StateInv
    <3>2. val = handled + 1 /\ key[2] \notin Parameters
      <4>1. Head(writes) = writes[1] /\ 1 \in 1..Len(writes)
        BY <3>1
      <4> QED BY <4>1 DEF HandlerInv, StateInv
    <3> HIDE DEF key, val
    <3>3. CASE k = key
      <4>1. state[k] <= handled + 1
        BY <1>2, <3>2, <3>3 DEF HandlerInv, StateInv
      <4>2. key \in DOMAIN state' /\ state'[key] = val
        BY <3>1, PutIs
      <4> QED BY <2>1, <3>2, <3>3, <4>1, <4>2
    <3>4. CASE k # key
      <4>1. k \in DOMAIN state' /\ state'[k] = state[k]
        BY <1>2, <3>1, <3>4, PutIs
      <4> QED BY <2>1, <4>1
    <3> QED BY <3>3, <3>4
  <2>3. CASE ~SetState
    <3>1. state' = state
      BY <1>2, <2>3 DEF Next, Main, Consumer, LoadConfig, New, AddSymbols, MainPanics,
                SubscribeSubaccount, SubscribeTrades, SubscribeOrders, SpawnWatchers, Watch,
                HandleIgnored, HandleTrade, HandleBook, Returned, vars
    <3> QED BY <1>2, <2>1, <3>1
  <2> QED BY <2>2, <2>3
<1> QED BY <1>1, <1>2 DEF GoesForward

(* A stored price, size or last trade is never replaced by one from an     *)
(* older message, and the window keeps the trades in the order of their    *)
(* messages (handle_message, state.set and trades.add).                    *)
THEOREM NewestValueWins == Spec => NewestWins
<1>1. HandlerInv /\ FeedsInv /\ TradesInv /\ [Next]_vars => [GoesForward]_vars
  BY ForwardStep
<1> QED BY InvInit, InvStep, <1>1, PTL DEF Spec, NewestWins
-----------------------------------------------------------------------------
(***************************************************************************)
(* The stored order book.                                                  *)
(***************************************************************************)
Whole ==
  \/ \A k \in Book : k \notin DOMAIN state
  \/ Book \subseteq DOMAIN state /\ \A k \in Book : state[k] = state[Key("mid_price")]

(* While a book is being stored, its first entries are stored and the rest *)
(* is what is still to be set.                                             *)
BookInv ==
  /\ consumer # "set" => Whole
  /\ consumer = "set" /\ Head(ring).kind # "Book" =>
       Whole /\ \A i \in 1..Len(writes) : writes[i].key \notin Book
  /\ consumer = "set" /\ Head(ring).kind = "Book" =>
       /\ Len(writes) \in 0..5
       /\ \A i \in 1..Len(writes) : writes[i].key = Key(BookNames[5 - Len(writes) + i])
       /\ \A i \in 1..(5 - Len(writes)) :
            Key(BookNames[i]) \in DOMAIN state /\ state[Key(BookNames[i])] = handled + 1

LEMMA BookKeys == (\A k \in Book : k[2] \notin Parameters) /\ (\A k \in Book' : k[2] \notin Parameters)
<1>1. Book' = {<<symbols'[1], name>> : name \in BookName}
  BY BookNamesAre DEF Book, Key, Occurring
<1> QED BY <1>1, BookIs DEF Key, BookName, Parameters

LEMMA BookInit == Init => BookInv
BY DEF Init, BookInv, Whole

LEMMA BookStep == HandlerInv /\ BookInv /\ [Next]_vars => BookInv'
<1> SUFFICES ASSUME HandlerInv, BookInv, [Next]_vars PROVE BookInv'
  OBVIOUS
<1>a. RingInv /\ StateInv /\ handled \in Nat
  BY DEF HandlerInv, RingInv
<1>b. ASSUME symbols' = symbols, state' = state PROVE (Book' = Book /\ (Whole => Whole'))
  BY <1>b, BookIs DEF Whole, Book, Key
<1>1. CASE New
  <2>1. consumer' # "set" /\ main' # "watch" /\ StateInv'
    BY <1>1, StateStep DEF New
  <2>2. \A k \in Book' : k \notin DOMAIN state'
    BY <2>1, BookKeys DEF StateInv
  <2> QED BY <2>1, <2>2 DEF BookInv, Whole
<1>2. CASE Main /\ ~New
  <2>1. main # "watch" /\ state' = state /\ consumer' = consumer
    BY <1>2 DEF Main, LoadConfig, AddSymbols, MainPanics, SubscribeSubaccount, SubscribeTrades,
                SubscribeOrders, SpawnWatchers, consumerVars
  <2>2. consumer # "set"
    BY <2>1, <1>a DEF RingInv
  <2>3. \A k \in Book' : k \notin DOMAIN state'
    BY <2>1, BookKeys, <1>a DEF StateInv
  <2> QED BY <2>1, <2>2, <2>3 DEF BookInv, Whole
<1>3. CASE Watch
  <2>1. /\ symbols' = symbols /\ state' = state /\ writes' = writes /\ handled' = handled
        /\ consumer' = consumer
    BY <1>3 DEF Watch, mainVars, consumerVars
  <2>2. consumer = "set" => Head(ring') = Head(ring)
    <3>1. CASE ring' = ring
      BY <3>1
    <3>2. ASSUME NEW m, ring' = Append(ring, m), consumer = "set" PROVE Head(ring') = Head(ring)
      BY <3>2, <1>a DEF RingInv
    <3> QED BY <1>3, <3>1, <3>2 DEF Watch, Publish
  <2> QED BY <2>1, <2>2, <1>b DEF BookInv, Key
<1>4. CASE HandleIgnored
  <2>1. /\ symbols' = symbols /\ state' = state /\ writes' = writes /\ ring' = ring
        /\ consumer = "idle" /\ Head(ring).kind # "Book" /\ writes = <<>>
    BY <1>4, <1>a DEF HandleIgnored, Handles, mainVars, StateInv
  <2> QED BY <2>1, <1>b DEF BookInv
<1>5. CASE HandleTrade
  <2>1. /\ symbols' = symbols /\ state' = state /\ ring' = ring
        /\ consumer = "idle" /\ Head(ring).kind # "Book"
        /\ Handles({"Trade"}) /\ writes' = Writes(<<"last">>)
    BY <1>5 DEF HandleTrade, Handles, mainVars
  <2>2. /\ Len(writes') = 1 /\ writes'[1].key = Key("last")
    <3>1. Len(<<"last">>) = 1 /\ <<"last">>[1] = "last" /\ <<"last">> \in Seq(Name \ Parameters)
      BY BookNamesTyped
    <3>2. /\ Len(Writes(<<"last">>)) = Len(<<"last">>)
          /\ \A i \in 1..Len(<<"last">>) :
               Writes(<<"last">>)[i] = [key |-> Key(<<"last">>[i]), val |-> handled + 1]
      BY <2>1, <3>1, WritesAre
    <3>3. Writes(<<"last">>)[1] = [key |-> Key(<<"last">>[1]), val |-> handled + 1]
      BY <3>1, <3>2
    <3>4. Writes(<<"last">>)[1].key = Key("last")
      BY <3>1, <3>3
    <3> QED BY <2>1, <3>1, <3>2, <3>4
  <2>3. Key("last") \notin Book
    BY BookIs DEF Key, BookName
  <2> QED BY <2>1, <2>2, <2>3, <1>b DEF BookInv
<1>6. CASE HandleBook
  <2>1. /\ symbols' = symbols /\ state' = state /\ ring' = ring /\ handled' = handled
        /\ consumer = "idle" /\ Head(ring).kind = "Book" /\ Handles({"Book"})
    BY <1>6 DEF HandleBook, Handles, mainVars
  <2>2. CASE Computable
    <3>1. consumer' = "set" /\ writes' = Writes(BookNames)
      BY <1>6, <2>2 DEF HandleBook
    <3>2. Len(writes') = 5 /\ \A i \in 1..5 : writes'[i].key = Key(BookNames[i])
      <4>1. /\ Len(Writes(BookNames)) = Len(BookNames)
            /\ \A i \in 1..Len(BookNames) :
                 Writes(BookNames)[i] = [key |-> Key(BookNames[i]), val |-> handled + 1]
        BY <2>1, WritesAre, BookNamesTyped
      <4> QED BY <3>1, <4>1, BookNamesAre
    <3> QED BY <2>1, <3>1, <3>2 DEF BookInv, Key
  <2>3. CASE ~Computable
    BY <1>6, <2>1, <2>3, <1>b DEF HandleBook, BookInv
  <2> QED BY <2>2, <2>3
<1>7. CASE SetState
  <2> DEFINE key == Head(writes).key
             val == Head(writes).val
  <2>1. /\ writes \in Seq(Entry) /\ writes # <<>> /\ Len(writes) \in Nat \ {0}
        /\ state' = Put({key}, val) /\ writes' = Tail(writes)
        /\ consumer = "set" /\ UNCHANGED <<symbols, ring, handled, consumer>>
    BY <1>7, <1>a DEF SetState, StateInv, mainVars
  <2>2. key = writes[1].key /\ val = handled + 1
    BY <2>1, <1>a DEF StateInv
  <2>3. /\ Len(writes') = Len(writes) - 1
        /\ \A i \in 1..Len(writes') : writes'[i] = writes[i + 1]
    BY <2>1
  <2> HIDE DEF key, val
  <2>4. /\ DOMAIN state' = DOMAIN state \cup {key} /\ state'[key] = handled + 1
        /\ \A k \in DOMAIN state : k # key => state'[k] = state[k]
    <3>1. /\ DOMAIN state' = DOMAIN state \cup {key} /\ state'[key] = val
          /\ \A k \in DOMAIN state : k # key => state'[k] = state[k]
      BY <2>1, PutIs
    <3> QED BY <2>2, <3>1
  <2>5. Book' = Book /\ Key("mid_price")' = Key("mid_price") /\ Key("mid_price") \in Book
    BY <2>1, BookIs DEF Book, Key, BookName
  <2>6. CASE Head(ring).kind # "Book"
    <3>1. Whole /\ key \notin Book
      BY <2>1, <2>2, <2>6 DEF BookInv
    <3>2. Whole'
      BY <2>4, <2>5, <3>1 DEF Whole
    <3>3. \A i \in 1..Len(writes') : writes'[i].key \notin Book'
      BY <2>1, <2>3, <2>5, <2>6 DEF BookInv
    <3> QED BY <2>1, <2>6, <3>2, <3>3 DEF BookInv
  <2>7. CASE Head(ring).kind = "Book"
    <3>1. Len(writes) \in 1..5 /\ Len(writes') \in 0..5
      <4>1. Len(writes) \in 0..5
        BY <2>1, <2>7, Zenon DEF BookInv
      <4>2. Len(writes) \in Nat \ {0} /\ Len(writes') = Len(writes) - 1
        BY <2>1, <2>3
      <4> QED BY <4>1, <4>2
    <3>2. ASSUME NEW i \in 1..Len(writes')
          PROVE  writes'[i].key = Key(BookNames[5 - Len(writes') + i])
      <4>1. i + 1 \in 1..Len(writes) /\ 5 - Len(writes) + (i + 1) = 5 - Len(writes') + i
        BY <2>3, <3>1
      <4>2. writes[i + 1].key = Key(BookNames[5 - Len(writes) + (i + 1)])
        BY <2>1, <2>7, <4>1 DEF BookInv
      <4> QED BY <2>3, <4>1, <4>2
    <3>3. ASSUME NEW i \in 1..(5 - Len(writes'))
          PROVE  /\ Key(BookNames[i]) \in DOMAIN state'
                 /\ state'[Key(BookNames[i])] = handled + 1
      <4>1. CASE i = 5 - Len(writes')
        <5>1. writes[1].key = Key(BookNames[5 - Len(writes) + 1])
          BY <2>1, <2>7, <3>1 DEF BookInv
        <5>2. 5 - Len(writes) + 1 = i
          BY <2>3, <3>1, <4>1
        <5> QED BY <2>2, <2>4, <5>1, <5>2
      <4>2. CASE i # 5 - Len(writes')
        <5>1. i \in 1..(5 - Len(writes))
          BY <2>3, <3>1, <4>2
        <5>2. Key(BookNames[i]) \in DOMAIN state /\ state[Key(BookNames[i])] = handled + 1
          BY <2>1, <2>7, <5>1 DEF BookInv
        <5> QED BY <2>4, <5>2
      <4> QED BY <4>1, <4>2
    <3>4. /\ (\A i \in 1..Len(writes) : writes[i].key = Key(BookNames[5 - Len(writes) + i]))'
          /\ (\A i \in 1..(5 - Len(writes)) :
                Key(BookNames[i]) \in DOMAIN state /\ state[Key(BookNames[i])] = handled + 1)'
      BY <2>1, <3>2, <3>3 DEF Key, BookNames
    <3> QED BY <2>1, <2>7, <3>1, <3>4 DEF BookInv
  <2> QED BY <2>6, <2>7
<1>8. CASE Returned
  <2>1. /\ symbols' = symbols /\ state' = state /\ writes = <<>>
        /\ consumer = "set" /\ consumer' = "idle"
    BY <1>8 DEF Returned, Finished, mainVars
  <2>2. CASE Head(ring).kind # "Book"
    BY <2>1, <2>2, <1>b DEF BookInv
  <2>3. CASE Head(ring).kind = "Book"
    <3>1. \A i \in 1..5 : Key(BookNames[i]) \in DOMAIN state /\ state[Key(BookNames[i])] = handled + 1
      BY <2>1, <2>3 DEF BookInv
    <3>2. \A k \in Book : k \in DOMAIN state /\ state[k] = handled + 1
      BY <3>1, BookNamesAre DEF Book
    <3>3. Key("mid_price") \in Book
      BY BookIs DEF BookName
    <3>4. Whole
      BY <3>2, <3>3 DEF Whole
    <3> QED BY <2>1, <3>4, <1>b DEF BookInv
  <2> QED BY <2>2, <2>3
<1>9. CASE UNCHANGED vars
  <2>1. /\ symbols' = symbols /\ state' = state /\ writes' = writes /\ handled' = handled
        /\ consumer' = consumer /\ ring' = ring
    BY <1>9 DEF vars, mainVars, consumerVars
  <2> QED BY <2>1, <1>b DEF BookInv, Key
<1> QED BY <1>1, <1>2, <1>3, <1>4, <1>5, <1>6, <1>7, <1>8, <1>9 DEF Next, Consumer

(* Between messages, and after a panic of the handler, the stored prices   *)
(* and sizes are those of one order book: everything in handle_message     *)
(* that can fail comes before the first set.                               *)
THEOREM BookStaysWhole == Spec => []BookIsWhole
<1>1. BookInv => BookIsWhole
  BY DEF BookInv, Whole, BookIsWhole
<1>2. HandlerInv /\ FeedsInv /\ TradesInv /\ BookInv /\ [Next]_vars
        => (HandlerInv /\ FeedsInv /\ TradesInv /\ BookInv)'
  BY InvStep, BookStep
<1> QED BY InvInit, BookInit, <1>1, <1>2, PTL DEF Spec
=============================================================================
