------------------------- MODULE HyperliquidListener -------------------------
(***************************************************************************)
(* listen and connect of src/src/exchange/hyperliquid.rs: tasks that       *)
(* subscribe to trades and best bids and offers over a websocket and       *)
(* publish what they receive to the disruptor's ring.  (exchange.rs:7      *)
(* keeps the file out of the build.)                                       *)
(*                                                                         *)
(* The static WS_TX is set by the first connect and never again, so the    *)
(* receiver of every later connect has no sender: it is closed.  No code   *)
(* sends on WS_TX, so the second branch of select! never yields a text;    *)
(* all that matters of it is whether its receiver is closed.               *)
(*                                                                         *)
(* A trade is its number on its connection and whether its price and size  *)
(* parse; a bbo is one too, which parses if it has both sides and their    *)
(* four numbers do.  Everything listen skips before it looks at the channel, *)
(* a frame that is not text, an error, a text that is not JSON, and what   *)
(* is of another channel or form, is a message of the channel "other".     *)
(***************************************************************************)
EXTENDS Integers, Sequences, SequencesExt

CONSTANTS Listener,   \* the calls of listen
          Coins,      \* how many coins are configured
          RingSize,   \* slots of the ring
          MaxFrames,  \* bound: messages of all connections
          MaxTrades   \* bound: trades in one message

ASSUME ListenerAssumption ==
  /\ Coins \in Nat
  /\ RingSize \in Nat \ {0}
  /\ MaxFrames \in Nat /\ MaxTrades \in Nat \ {0}

VARIABLES sender,   \* WS_TX: the listener whose sender it holds, if any
          pc,       \* pc[l]: where the task of l is
          subs,     \* subs[l]: subscriptions sent
          conn,     \* conn[l]: the connection of l
          wire,     \* wire[l]: messages that l has not received
          sent,     \* sent[l]: trades and bbos put on the wire
          frames,   \* how many messages were put on a wire
          trades,   \* trades[l]: the rest of the message l is publishing
          ring,     \* the slots published and not handled, oldest first
          handler,  \* whether the consumer thread is alive
          arrived,  \* history: arrived[l]: what l should publish
          published \* history: published[l]: what l has published

serverVars == <<conn, wire, sent, frames, arrived>>
ringVars == <<ring, handler, published>>
vars == <<sender, pc, subs, trades, serverVars, ringVars>>

Nobody == "nobody"

Init ==
  /\ sender = Nobody
  /\ pc = [l \in Listener |-> "new"]
  /\ subs = [l \in Listener |-> 0]
  /\ conn = [l \in Listener |-> "none"]
  /\ wire = [l \in Listener |-> <<>>]
  /\ sent = [l \in Listener |-> 0]
  /\ frames = 0
  /\ trades = [l \in Listener |-> <<>>]
  /\ ring = <<>> /\ handler = "alive"
  /\ arrived = [l \in Listener |-> <<>>]
  /\ published = [l \in Listener |-> <<>>]

Goto(l, from, to) == pc[l] = from /\ pc' = [pc EXCEPT ![l] = to]
-----------------------------------------------------------------------------
(***************************************************************************)
(* connect.                                                                *)
(***************************************************************************)
(* WS_TX.set(tx).ok(): when it is set already, tx is dropped. *)
Listen(l) ==
  /\ Goto(l, "new", "connect")
  /\ sender' = IF sender = Nobody THEN l ELSE sender
  /\ UNCHANGED <<subs, trades, serverVars, ringVars>>

Connected(l) ==
  /\ Goto(l, "connect", "subscribe")
  /\ conn' = [conn EXCEPT ![l] = "open"]
  /\ UNCHANGED <<sender, subs, trades, wire, sent, frames, arrived, ringVars>>

(* First "trades" for every coin, then "bbo" for every coin. *)
Subscribe(l) ==
  /\ pc[l] = "subscribe"
  /\ subs[l] < 2 * Coins
  /\ subs' = [subs EXCEPT ![l] = @ + 1]
  /\ UNCHANGED <<sender, pc, trades, serverVars, ringVars>>

(* The unwraps of connect: no connection, or one that breaks.              *)
ConnectPanics(l) ==
  /\ \/ Goto(l, "connect", "panicked")
     \/ subs[l] < 2 * Coins /\ conn[l] = "ended" /\ Goto(l, "subscribe", "panicked")
  /\ UNCHANGED <<sender, subs, trades, serverVars, ringVars>>

(* Mutant of AllSubscribed: the bbos are forgotten. *)
TradesSubscribed(l) == subs[l] >= Coins

AllSubscribed(l) == subs[l] = 2 * Coins

Subscribed(l) ==
  /\ AllSubscribed(l)
  /\ Goto(l, "subscribe", "select")
  /\ UNCHANGED <<sender, subs, trades, serverVars, ringVars>>
-----------------------------------------------------------------------------
(***************************************************************************)
(* The exchange: it sends what has been subscribed.                        *)
(***************************************************************************)
(* Numbers k items on; `good` are the places of those that parse. *)
Put(l, channel, k, good) ==
  /\ conn[l] = "open"
  /\ frames < MaxFrames
  /\ frames' = frames + 1
  /\ LET items == [i \in 1..k |-> [n |-> sent[l] + i, parses |-> \E j \in 1..Len(good) : good[j] = i]]
     IN  wire' = [wire EXCEPT ![l] = Append(@, [channel |-> channel, items |-> items])]
  /\ sent' = [sent EXCEPT ![l] = @ + k]
  /\ arrived' = [arrived EXCEPT ![l] = @ \o [j \in 1..Len(good) |-> sent[l] + good[j]]]
  /\ UNCHANGED <<sender, pc, subs, trades, conn, ringVars>>

(* Any of k places, in their order. *)
Places(k) ==
  {at \in UNION {[1..m -> 1..k] : m \in 0..k} :
     \A i, j \in 1..Len(at) : i < j => at[i] < at[j]}

SendTrades(l) ==
  subs[l] > 0 /\ \E k \in 0..MaxTrades : \E good \in Places(k) : Put(l, "trades", k, good)

SendBbo(l) == subs[l] > Coins /\ \E good \in Places(1) : Put(l, "bbo", 1, good)

SendOther(l) == Put(l, "other", 0, <<>>)

ConnectionEnds(l) ==
  /\ conn[l] = "open"
  /\ conn' = [conn EXCEPT ![l] = "ended"]
  /\ UNCHANGED <<sender, pc, subs, trades, wire, sent, frames, arrived, ringVars>>
-----------------------------------------------------------------------------
(***************************************************************************)
(* The loop of listen.                                                     *)
(***************************************************************************)
TakeFrame(l, channel) ==
  /\ pc[l] = "select"
  /\ wire[l] # <<>>
  /\ Head(wire[l]).channel = channel
  /\ wire' = [wire EXCEPT ![l] = Tail(@)]
  /\ UNCHANGED <<sender, subs, conn, sent, frames, arrived, handler>>

(* publish waits for a free slot. *)
Publish(l, n) ==
  /\ Len(ring) < RingSize
  /\ ring' = Append(ring, [by |-> l, n |-> n])
  /\ published' = [published EXCEPT ![l] = Append(@, n)]

ReceiveOther(l) ==
  /\ TakeFrame(l, "other")
  /\ UNCHANGED <<pc, trades, ring, published>>

ReceiveTrades(l) ==
  /\ TakeFrame(l, "trades")
  /\ trades' = [trades EXCEPT ![l] = Head(wire[l]).items]
  /\ Goto(l, "select", "publish")
  /\ UNCHANGED <<ring, published>>

(* Mutant of AfterBad: a trade that does not parse ends the loop. *)
AfterBadNothing(list) == <<>>

(* A price or size that does not parse: on to the next trade. *)
AfterBad(list) == Tail(list)

SkipTrade(l) ==
  /\ pc[l] = "publish"
  /\ trades[l] # <<>> /\ ~Head(trades[l]).parses
  /\ trades' = [trades EXCEPT ![l] = AfterBad(@)]
  /\ UNCHANGED <<sender, pc, subs, serverVars, ringVars>>

PublishTrade(l) ==
  /\ pc[l] = "publish"
  /\ trades[l] # <<>> /\ Head(trades[l]).parses
  /\ Publish(l, Head(trades[l]).n)
  /\ trades' = [trades EXCEPT ![l] = Tail(@)]
  /\ UNCHANGED <<sender, pc, subs, serverVars, handler>>

TradesDone(l) ==
  /\ trades[l] = <<>>
  /\ Goto(l, "publish", "select")
  /\ UNCHANGED <<sender, subs, trades, serverVars, ringVars>>

(* Both sides and their four numbers, or nothing. *)
ReceiveBbo(l) ==
  /\ TakeFrame(l, "bbo")
  /\ LET bbo == Head(Head(wire[l]).items)
     IN  IF bbo.parses
         THEN Publish(l, bbo.n)
         ELSE UNCHANGED <<ring, published>>
  /\ UNCHANGED <<pc, trades>>

(* Mutant of NextIsNone: what the connection brought before is not read. *)
NextIsNoneEarly(l) == conn[l] = "ended"

NextIsNone(l) == conn[l] = "ended" /\ wire[l] = <<>>

(* next() gives None and so does recv(): both branches of select! are      *)
(* disabled and there is no else.  With WS_TX holding the sender of l,     *)
(* recv() waits and so does the listener, for ever.                        *)
SelectPanics(l) ==
  /\ NextIsNone(l) /\ sender # l
  /\ Goto(l, "select", "panicked")
  /\ UNCHANGED <<sender, subs, trades, serverVars, ringVars>>
-----------------------------------------------------------------------------
(***************************************************************************)
(* The thread behind the ring.                                             *)
(***************************************************************************)
Handle ==
  /\ handler = "alive"
  /\ ring # <<>>
  /\ ring' = Tail(ring)
  /\ UNCHANGED <<sender, pc, subs, trades, serverVars, handler, published>>

HandlerPanics ==
  /\ handler = "alive"
  /\ handler' = "dead"
  /\ UNCHANGED <<sender, pc, subs, trades, serverVars, ring, published>>

Task(l) ==
  \/ Connected(l) \/ Subscribe(l) \/ ConnectPanics(l) \/ Subscribed(l)
  \/ ReceiveOther(l) \/ ReceiveBbo(l)
  \/ ReceiveTrades(l) \/ SkipTrade(l) \/ PublishTrade(l) \/ TradesDone(l)
  \/ SelectPanics(l)

Exchange(l) == SendTrades(l) \/ SendBbo(l) \/ SendOther(l) \/ ConnectionEnds(l)

Next ==
  \/ \E l \in Listener : Listen(l) \/ Task(l) \/ Exchange(l)
  \/ Handle \/ HandlerPanics

Spec == Init /\ [][Next]_vars

(* The runtime polls the tasks, and the consumer is a thread that polls    *)
(* the ring; nothing is assumed of the exchange.                           *)
FairSpec == Spec /\ WF_vars(Handle) /\ \A l \in Listener : WF_vars(Task(l))
-----------------------------------------------------------------------------
(***************************************************************************)
(* Properties.                                                             *)
(***************************************************************************)
Item == 1..(MaxFrames * MaxTrades)

(* The types of the variables; the ring is never overrun, a listener in    *)
(* its loop has sent every subscription.                                   *)
TypeOK ==
  /\ sender \in Listener \cup {Nobody}
  /\ pc \in [Listener -> {"new", "connect", "subscribe", "select", "publish", "panicked"}]
  /\ subs \in [Listener -> 0..(2 * Coins)]
  /\ conn \in [Listener -> {"none", "open", "ended"}]
  /\ trades \in [Listener -> Seq([n : Item, parses : BOOLEAN])]
  /\ ring \in Seq([by : Listener, n : Item]) /\ Len(ring) <= RingSize
  /\ handler \in {"alive", "dead"}
  /\ \A l \in Listener : /\ pc[l] \in {"select", "publish"} => subs[l] = 2 * Coins
                         /\ pc[l] # "publish" => trades[l] = <<>>

Promise == INSTANCE Relay WITH Stream <- Listener, passed <- published

(* Every trade and every bbo whose numbers parse is published once and in  *)
(* the order of its connection; a trade that does not parse costs the      *)
(* message no other trade, and one that is not whole is not published      *)
(* (hyperliquid.rs:180-206, 208-262).                                      *)
ImplementsRelay == Promise!RelaySpec

(* A listener that panics because its connection ended has published       *)
(* everything the connection brought (160, 265).                           *)
DrainedBeforePanic ==
  \A l \in Listener :
    pc[l] = "panicked" /\ subs[l] = 2 * Coins => published[l] = arrived[l]

(* A listener catches up with its connection again and again, also when    *)
(* the ring is full and when the connection ends behind what it brought,   *)
(* unless connect panics or the consumer thread is dead (180-206, 259).    *)
ArrivedIsPublished ==
  \A l \in Listener :
    []<>(published[l] = arrived[l] \/ pc[l] = "panicked" \/ handler = "dead")
=============================================================================
