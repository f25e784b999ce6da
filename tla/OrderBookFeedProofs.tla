------------------------ MODULE OrderBookFeedProofs -------------------------
(***************************************************************************)
(* Theorems about OrderBookFeed, for every set of prices and sizes and     *)
(* every bound.                                                            *)
(***************************************************************************)
EXTENDS OrderBookFeed, TLAPS

-----------------------------------------------------------------------------
(***************************************************************************)
(* Facts about the operators.                                              *)
(***************************************************************************)
(* The levels of a message are a sequence of levels. *)
LEMMA LevelsAreSeq == Levels \subseteq Seq(Level)
  BY FeedAssumption DEF Levels

(* The first level of a list and the rest of it. *)
LEMMA HeadTailLevel ==
  ASSUME NEW ls \in Seq(Level), ls # <<>>
  PROVE  Head(ls) \in Level /\ Tail(ls) \in Seq(Level)
  OBVIOUS

(* One iteration of the update loop keeps a side a side: no zero size is   *)
(* stored, and every price and stamp stays in range (OrderBook::update).   *)
LEMMA ApplyLevelType ==
  ASSUME NEW side, IsSide(side), NEW level \in Level, NEW stamp \in Nat
  PROVE  IsSide(ApplyLevel(side, level, stamp))
<1>1. level.price \in Price /\ level.size \in Size
  BY DEF Level
<1>2. CASE level.size = 0
  BY <1>2 DEF IsSide, ApplyLevel, Remove
<1>3. CASE level.size # 0
  <2>1. [size |-> level.size, stamp |-> stamp] \in StampedLevel
    BY <1>1, <1>3 DEF StampedLevel
  <2>2. QED
    BY <1>1, <1>3, <2>1 DEF IsSide, ApplyLevel, Insert
<1>4. QED
  BY <1>2, <1>3

LEMMA EmptySideType == IsSide(EmptySide)
  BY DEF IsSide, EmptySide

(* The counter stays a natural number. *)
LEMMA NextOffsetType ==
  ASSUME NEW level \in Level, NEW stamp \in Nat
  PROVE  NextOffset(level, stamp) \in Nat /\ NextOffset(level, stamp) >= stamp
  BY DEF NextOffset

(* A message the indexer sends has the type of a message. *)
LEMMA SendType ==
  ASSUME TypeOK, NEW kind \in {"Initial", "Update"},
         NEW bl \in Levels, NEW al \in Levels, NEW before,
         Send(kind, bl, al, before)
  PROVE  /\ log' \in Seq(Message)
         /\ Len(log') = Len(log) + 1
         /\ \A i \in 1..Len(log) : log'[i] = log[i]
         /\ log'[Len(log) + 1].kind = kind
         /\ log'[Len(log) + 1].bids = bl
         /\ log'[Len(log) + 1].asks = al
         /\ log'[Len(log) + 1].id = Len(log) + 1
         /\ Describes(bl, before.bids, log'[Len(log) + 1].view.bids)
         /\ Describes(al, before.asks, log'[Len(log) + 1].view.asks)
<1>1. log \in Seq(Message)
  BY DEF TypeOK
<1>2. PICK b \in [Price -> Size], a \in [Price -> Size] :
        /\ Describes(bl, before.bids, b)
        /\ Describes(al, before.asks, a)
        /\ log' = Append(log, [kind |-> kind, bids |-> bl, asks |-> al,
                               id |-> Len(log) + 1, view |-> [bids |-> b, asks |-> a]])
  BY Zenon DEF Send
<1> DEFINE msg == [kind |-> kind, bids |-> bl, asks |-> al,
                   id |-> Len(log) + 1, view |-> [bids |-> b, asks |-> a]]
<1>3. msg \in Message
  BY <1>1 DEF Message, ServerBook, Mirror!ServerBook
<1>4. log' = Append(log, msg)
  BY <1>2
<1> HIDE DEF msg
<1>5. log' \in Seq(Message) /\ Len(log') = Len(log) + 1
  BY <1>1, <1>3, <1>4
<1>6. log'[Len(log) + 1] = msg /\ \A i \in 1..Len(log) : log'[i] = log[i]
  BY <1>1, <1>3, <1>4
<1>7. QED
  BY <1>2, <1>5, <1>6 DEF msg
-----------------------------------------------------------------------------
(***************************************************************************)
(* Type correctness.                                                       *)
(***************************************************************************)
LEMMA TypeInit == Init => TypeOK
  BY EmptySideType DEF Init, TypeOK

LEMMA TypeStep == TypeOK /\ [Next]_vars => TypeOK'
<1> SUFFICES ASSUME TypeOK, [Next]_vars PROVE TypeOK'
  OBVIOUS
<1> USE DEF TypeOK, feedVars, bookVars
<1>1. CASE SendInitial
  <2>1. PICK bl \in Levels, al \in Levels :
          Send("Initial", bl, al, [bids |-> NoLevels, asks |-> NoLevels])
    BY <1>1 DEF SendInitial
  <2>2. log' \in Seq(Message) /\ Len(log') = Len(log) + 1
    BY <2>1, SendType
  <2>3. QED
    BY <1>1, <2>2 DEF SendInitial, IsSide
<1>2. CASE SendUpdate
  <2>1. PICK bl \in Levels, al \in Levels : Send("Update", bl, al, Server)
    BY <1>2 DEF SendUpdate
  <2>2. log' \in Seq(Message) /\ Len(log') = Len(log) + 1
    BY <2>1, SendType
  <2>3. QED
    BY <1>2, <2>2 DEF SendUpdate, IsSide
<1>3. CASE CloseFeed
  BY <1>3 DEF CloseFeed, IsSide
<1>4. ASSUME NEW kind, Receive(kind)
      PROVE  /\ taken' \in 0..Len(log)
             /\ phase' = "apply"
             /\ todo'.bids \in Seq(Level) /\ todo'.asks \in Seq(Level)
             /\ todo' = [bids |-> todo'.bids, asks |-> todo'.asks]
  <2>1. log[taken + 1] \in Message
    BY <1>4 DEF Receive
  <2>2. QED
    <3>1. log[taken + 1].bids \in Seq(Level) /\ log[taken + 1].asks \in Seq(Level)
      BY <2>1, LevelsAreSeq DEF Message
    <3>2. /\ phase' = "apply" /\ log' = log
          /\ taken' = taken + 1 /\ taken < Len(log)
          /\ todo' = [bids |-> log[taken + 1].bids, asks |-> log[taken + 1].asks]
      BY <1>4 DEF Receive
    <3>3. taken' \in 0..Len(log)
      BY <3>2
    <3>4. /\ todo'.bids = log[taken + 1].bids /\ todo'.asks = log[taken + 1].asks
          /\ todo' = [bids |-> todo'.bids, asks |-> todo'.asks]
      BY <3>2
    <3> QED BY <3>1, <3>2, <3>3, <3>4
<1>5. CASE ReceiveInitial
  BY <1>4, <1>5, EmptySideType DEF ReceiveInitial, Receive, IsSide
<1>6. CASE ReceiveUpdate
  BY <1>4, <1>6 DEF ReceiveUpdate, Receive, IsSide
<1>7. CASE ApplyBid
  <2>1. Head(todo.bids) \in Level /\ Tail(todo.bids) \in Seq(Level)
    BY <1>7, HeadTailLevel DEF ApplyBid
  <2>2. IsSide(bids') /\ offset' \in Nat
    BY <1>7, <2>1, ApplyLevelType, NextOffsetType DEF ApplyBid
  <2>3. todo' = [bids |-> Tail(todo.bids), asks |-> todo.asks]
    BY <1>7 DEF ApplyBid
  <2>4. QED
    BY <1>7, <2>1, <2>2, <2>3 DEF ApplyBid, IsSide
<1>8. CASE ApplyAsk
  <2>1. Head(todo.asks) \in Level /\ Tail(todo.asks) \in Seq(Level)
    BY <1>8, HeadTailLevel DEF ApplyAsk
  <2>2. IsSide(asks') /\ offset' \in Nat
    BY <1>8, <2>1, ApplyLevelType, NextOffsetType DEF ApplyAsk
  <2>3. todo' = [bids |-> todo.bids, asks |-> Tail(todo.asks)]
    BY <1>8 DEF ApplyAsk
  <2>4. QED
    BY <1>8, <2>1, <2>2, <2>3 DEF ApplyAsk, IsSide
<1>9. CASE Publish
  BY <1>9 DEF Publish, IsSide
<1>10. CASE FeedClosed \/ PublishPanics
  BY <1>10 DEF FeedClosed, PublishPanics, IsSide
<1>11. CASE UNCHANGED vars
  BY <1>11 DEF vars, IsSide
<1>12. QED
  BY <1>1, <1>2, <1>3, <1>5, <1>6, <1>7, <1>8, <1>9, <1>10, <1>11 DEF Next, Task

(* The variables keep their types: in particular no level of size zero is  *)
(* ever stored in the book (OrderBook::update, dydx.rs:66-75), and a task  *)
(* that waits for a message has no level left over.                        *)
THEOREM TypeCorrect == Spec => []TypeOK
  BY TypeInit, TypeStep, PTL DEF Spec
-----------------------------------------------------------------------------
(***************************************************************************)
(* The stamps.                                                             *)
(***************************************************************************)
(* The stamps of one side are distinct, apart from those of the other, and *)
(* all of them are below the counter.                                      *)
Stamped(side, other, stamp) ==
  /\ \A p \in DOMAIN side : side[p].stamp < stamp
  /\ \A p \in DOMAIN other : other[p].stamp < stamp
  /\ \A p, q \in DOMAIN side : side[p].stamp = side[q].stamp => p = q
  /\ \A p \in DOMAIN side, q \in DOMAIN other : side[p].stamp # other[q].stamp

(* One iteration of the update loop, with the counter's value as stamp,    *)
(* keeps that so.                                                          *)
LEMMA ApplyLevelStamps ==
  ASSUME NEW side, IsSide(side), NEW other, IsSide(other),
         NEW level \in Level, NEW stamp \in Nat, Stamped(side, other, stamp)
  PROVE  Stamped(ApplyLevel(side, level, stamp), other, NextOffset(level, stamp))
<1> DEFINE new == ApplyLevel(side, level, stamp)
           next == NextOffset(level, stamp)
<1>1. /\ \A p \in DOMAIN side : side[p].stamp \in Nat
      /\ \A p \in DOMAIN other : other[p].stamp \in Nat
  BY DEF IsSide, StampedLevel
<1>2. CASE level.size = 0
  <2>1. next = stamp /\ new = [q \in DOMAIN side \ {level.price} |-> side[q]]
    BY <1>2 DEF NextOffset, ApplyLevel, Remove
  <2>2. DOMAIN new \subseteq DOMAIN side /\ \A p \in DOMAIN new : new[p] = side[p]
    BY <2>1
  <2> HIDE DEF new, next
  <2>3. Stamped(new, other, next)
    BY <2>1, <2>2 DEF Stamped
  <2>4. QED
    BY <2>3 DEF new, next
<1>3. CASE level.size # 0
  <2>1. /\ next = stamp + 1
        /\ DOMAIN new = DOMAIN side \cup {level.price}
        /\ new[level.price].stamp = stamp
        /\ \A q \in DOMAIN side \ {level.price} : new[q] = side[q]
    BY <1>3 DEF NextOffset, ApplyLevel, Insert
  <2> HIDE DEF new, next
  <2>2. \A p \in DOMAIN new :
          \/ new[p].stamp = stamp /\ p = level.price
          \/ p \in DOMAIN side /\ new[p] = side[p]
    BY <2>1
  <2>3. \A p \in DOMAIN new : new[p].stamp < next
    BY <1>1, <2>1, <2>2 DEF Stamped
  <2>4. \A p \in DOMAIN other : other[p].stamp < next
    BY <1>1, <2>1 DEF Stamped
  <2>5. \A p, q \in DOMAIN new : new[p].stamp = new[q].stamp => p = q
    BY <1>1, <2>2 DEF Stamped
  <2>6. \A p \in DOMAIN new, q \in DOMAIN other : new[p].stamp # other[q].stamp
    BY <1>1, <2>2 DEF Stamped
  <2>7. Stamped(new, other, next)
    BY <2>3, <2>4, <2>5, <2>6 DEF Stamped
  <2>8. QED
    BY <2>7 DEF new, next
<1>4. QED
  BY <1>2, <1>3

LEMMA RecencyInit == Init => RecencyStamps
  BY DEF Init, RecencyStamps, EmptySide

LEMMA RecencyStep == TypeOK /\ RecencyStamps /\ [Next]_vars => RecencyStamps'
<1> SUFFICES ASSUME TypeOK, RecencyStamps, [Next]_vars PROVE RecencyStamps'
  OBVIOUS
<1>1. CASE UNCHANGED bookVars
  BY <1>1 DEF bookVars, RecencyStamps
<1>2. CASE ReceiveInitial
  BY <1>2 DEF ReceiveInitial, RecencyStamps, EmptySide
<1>3. CASE ApplyBid
  <2>1. Head(todo.bids) \in Level
    BY <1>3, HeadTailLevel DEF ApplyBid, TypeOK
  <2>2. /\ bids' = ApplyLevel(bids, Head(todo.bids), offset)
        /\ offset' = NextOffset(Head(todo.bids), offset)
        /\ asks' = asks
    BY <1>3 DEF ApplyBid
  <2>3. IsSide(bids) /\ IsSide(asks) /\ offset \in Nat
    BY DEF TypeOK
  <2>4. Stamped(bids, asks, offset)
    BY DEF RecencyStamps, Stamped
  <2>5. Stamped(bids', asks', offset')
    BY <2>1, <2>2, <2>3, <2>4, ApplyLevelStamps
  <2>6. \A p, q \in DOMAIN asks : asks[p].stamp = asks[q].stamp => p = q
    BY DEF RecencyStamps
  <2>7. QED
    BY <2>2, <2>5, <2>6 DEF RecencyStamps, Stamped
<1>4. CASE ApplyAsk
  <2>1. Head(todo.asks) \in Level
    BY <1>4, HeadTailLevel DEF ApplyAsk, TypeOK
  <2>2. /\ asks' = ApplyLevel(asks, Head(todo.asks), offset)
        /\ offset' = NextOffset(Head(todo.asks), offset)
        /\ bids' = bids
    BY <1>4 DEF ApplyAsk
  <2>3. IsSide(bids) /\ IsSide(asks) /\ offset \in Nat
    BY DEF TypeOK
  <2>4. Stamped(asks, bids, offset)
    BY DEF RecencyStamps, Stamped
  <2>5. Stamped(asks', bids', offset')
    BY <2>1, <2>2, <2>3, <2>4, ApplyLevelStamps
  <2>6. \A p, q \in DOMAIN bids : bids[p].stamp = bids[q].stamp => p = q
    BY DEF RecencyStamps
  <2>7. QED
    BY <2>2, <2>5, <2>6 DEF RecencyStamps, Stamped
<1>5. QED
  BY <1>1, <1>2, <1>3, <1>4
  DEF Next, Task, vars, bookVars, SendInitial, SendUpdate, CloseFeed,
      ReceiveUpdate, Publish, PublishPanics, FeedClosed

(* Any two levels of the book, on whichever sides, carry different stamps, *)
(* all below the counter: the offset of OrderBook orders the levels by     *)
(* when they were set, through every snapshot (dydx.rs:66-75, 173-180).    *)
THEOREM StampsOrderLevels == Spec => []RecencyStamps
  BY TypeInit, TypeStep, RecencyInit, RecencyStep, PTL DEF Spec
-----------------------------------------------------------------------------
(***************************************************************************)
(* The book.                                                               *)
(***************************************************************************)
(* Taking the first level off a list and applying it leaves a list that    *)
(* describes what is still to be done.                                     *)
LEMMA DescribesRest ==
  ASSUME NEW ls \in Seq(Level), ls # <<>>, NEW before, NEW after, NEW next,
         Describes(ls, before, after),
         \A p \in Price : next[p] = IF p = Head(ls).price THEN Head(ls).size ELSE before[p]
  PROVE  Describes(Tail(ls), next, after)
<1> DEFINE rest == Tail(ls)
<1>1. /\ Len(ls) \in Nat \ {0}
      /\ rest \in Seq(Level)
      /\ Len(rest) = Len(ls) - 1
      /\ \A i \in 1..Len(rest) : rest[i] = ls[i + 1]
      /\ Head(ls) = ls[1]
  OBVIOUS
<1> HIDE DEF rest
<1> SUFFICES ASSUME NEW p \in Price
             PROVE  \/ /\ \A i \in 1..Len(rest) : rest[i].price # p
                       /\ after[p] = next[p]
                    \/ \E i \in 1..Len(rest) :
                         /\ rest[i].price = p
                         /\ \A j \in (i+1)..Len(rest) : rest[j].price # p
                         /\ after[p] = rest[i].size
  BY DEF Describes, rest
<1>2. CASE (\A i \in 1..Len(ls) : ls[i].price # p) /\ after[p] = before[p]
  <2>1. \A i \in 1..Len(rest) : rest[i].price # p
    BY <1>1, <1>2
  <2>2. next[p] = before[p]
    BY <1>1, <1>2
  <2>3. QED
    BY <1>2, <2>1, <2>2
<1>3. ASSUME NEW i \in 1..Len(ls),
             ls[i].price = p,
             \A j \in (i+1)..Len(ls) : ls[j].price # p,
             after[p] = ls[i].size
      PROVE  \/ /\ \A k \in 1..Len(rest) : rest[k].price # p
                /\ after[p] = next[p]
             \/ \E k \in 1..Len(rest) :
                  /\ rest[k].price = p
                  /\ \A j \in (k+1)..Len(rest) : rest[j].price # p
                  /\ after[p] = rest[k].size
  <2>1. CASE i = 1
    <3>1. \A k \in 1..Len(rest) : rest[k].price # p
      BY <1>1, <1>3, <2>1
    <3>2. next[p] = Head(ls).size
      BY <1>1, <1>3, <2>1
    <3>3. QED
      BY <1>1, <1>3, <2>1, <3>1, <3>2
  <2>2. CASE i > 1
    <3>1. i - 1 \in 1..Len(rest) /\ rest[i - 1] = ls[i]
      BY <1>1, <2>2
    <3>2. \A j \in ((i - 1) + 1)..Len(rest) : rest[j].price # p
      BY <1>1, <1>3, <2>2
    <3>3. QED
      BY <1>3, <3>1, <3>2
  <2>3. QED
    BY <2>1, <2>2
<1>4. QED
  BY <1>2, <1>3 DEF Describes

(* What one iteration of the update loop does to the sizes of a side.      *)
LEMMA SizesAfterApply ==
  ASSUME NEW side, IsSide(side), NEW level \in Level, NEW stamp
  PROVE  \A p \in Price : SizesOf(ApplyLevel(side, level, stamp))[p] =
           IF p = level.price THEN level.size ELSE SizesOf(side)[p]
<1>1. CASE level.size = 0
  BY <1>1 DEF SizesOf, ApplyLevel, Remove
<1>2. CASE level.size # 0
  BY <1>2 DEF SizesOf, ApplyLevel, Insert
<1>3. QED
  BY <1>1, <1>2

(* With no level left to apply the book is the described one.              *)
LEMMA DescribesNothing ==
  ASSUME NEW before, NEW after, Describes(<<>>, before, after)
  PROVE  \A p \in Price : after[p] = before[p]
  BY DEF Describes

(* Describes looks at the book before a message only at the prices.        *)
LEMMA DescribesSame ==
  ASSUME NEW ls, NEW before, NEW other, NEW after, Describes(ls, before, after),
         \A p \in Price : other[p] = before[p]
  PROVE  Describes(ls, other, after)
  BY DEF Describes

NoBook == [bids |-> NoLevels, asks |-> NoLevels]

(* The book that message i of a log starts from.                           *)
Before(l, i) == IF l[i].kind = "Initial" THEN NoBook ELSE l[i - 1].view

Consistent(l, i) ==
  /\ l[i].kind = "Update" => i > 1
  /\ Describes(l[i].bids, Before(l, i).bids, l[i].view.bids)
  /\ Describes(l[i].asks, Before(l, i).asks, l[i].view.asks)

(* The strengthening: every message of the log, also one not yet received, *)
(* describes how the indexer's book came from the one before it, and the   *)
(* first is a snapshot.                                                    *)
LogConsistent == \A i \in 1..Len(log) : Consistent(log, i)

BookInv == TypeOK /\ LogConsistent /\ BookTracksServer

LEMMA BookInit == Init => BookInv
<1> SUFFICES ASSUME Init PROVE LogConsistent /\ BookTracksServer
  BY TypeInit DEF BookInv
<1>1. log = <<>> /\ taken = 0
  BY DEF Init
<1>2. QED
  BY <1>1 DEF LogConsistent, BookTracksServer

(* Whether a message is consistent depends only on the log up to it.       *)
LEMMA ConsistentPrefix ==
  ASSUME NEW l \in Seq(Message), NEW l2 \in Seq(Message), NEW i \in 1..Len(l),
         \A j \in 1..Len(l) : l2[j] = l[j],
         Consistent(l, i)
  PROVE  Consistent(l2, i)
<1>1. l2[i] = l[i] /\ (l[i].kind = "Update" => i > 1)
  BY DEF Consistent
<1>2. l[i].kind = "Initial" \/ l[i].kind = "Update"
  <2>1. l[i] \in Message
    OBVIOUS
  <2>2. QED
    BY <2>1 DEF Message
<1>3. CASE l[i].kind = "Initial"
  <2>1. Before(l2, i) = Before(l, i)
    BY <1>1, <1>3 DEF Before
  <2>2. QED
    BY <1>1, <2>1 DEF Consistent
<1>4. CASE l[i].kind = "Update"
  <2>1. i - 1 \in 1..Len(l)
    BY <1>1, <1>4
  <2>2. Before(l2, i) = Before(l, i)
    BY <1>1, <1>4, <2>1 DEF Before
  <2>3. QED
    BY <1>1, <2>2 DEF Consistent
<1>5. QED
  BY <1>2, <1>3, <1>4

LEMMA LogStep == TypeOK /\ LogConsistent /\ [Next]_vars => LogConsistent'
<1> SUFFICES ASSUME TypeOK, LogConsistent, [Next]_vars PROVE LogConsistent'
  OBVIOUS
<1>1. log \in Seq(Message) /\ Len(log) \in Nat
  BY DEF TypeOK
<1>2. ASSUME log' \in Seq(Message), Len(log') = Len(log) + 1,
             \A i \in 1..Len(log) : log'[i] = log[i],
             Consistent(log', Len(log) + 1)
      PROVE  LogConsistent'
  <2>1. SUFFICES ASSUME NEW i \in 1..Len(log') PROVE Consistent(log', i)
    BY DEF LogConsistent, Consistent, Before, NoBook, NoLevels, Describes
  <2>2. CASE i = Len(log) + 1
    BY <1>2, <2>2
  <2>3. CASE i \in 1..Len(log)
    BY <1>1, <1>2, <2>3, ConsistentPrefix DEF LogConsistent
  <2>4. QED
    BY <1>1, <1>2, <2>2, <2>3
<1>3. CASE SendInitial
  <2>1. PICK bl \in Levels, al \in Levels : Send("Initial", bl, al, NoBook)
    BY <1>3 DEF SendInitial, NoBook
  <2>2. QED
    BY <1>2, <2>1, SendType DEF Consistent, Before
<1>4. CASE SendUpdate
  <2>1. PICK bl \in Levels, al \in Levels : Send("Update", bl, al, Server)
    BY <1>4 DEF SendUpdate
  <2>2. /\ Len(log) + 1 > 1 /\ (Len(log) + 1) - 1 = Len(log)
        /\ Len(log) \in 1..Len(log)
        /\ Server = log[Len(log)].view
    BY <1>1, <1>4 DEF SendUpdate, Server
  <2>3. /\ log' \in Seq(Message)
        /\ Len(log') = Len(log) + 1
        /\ \A i \in 1..Len(log) : log'[i] = log[i]
        /\ log'[Len(log) + 1].kind = "Update"
        /\ Describes(log'[Len(log) + 1].bids, Server.bids, log'[Len(log) + 1].view.bids)
        /\ Describes(log'[Len(log) + 1].asks, Server.asks, log'[Len(log) + 1].view.asks)
    BY <2>1, SendType
  <2>4. Before(log', Len(log) + 1) = Server
    BY <2>2, <2>3 DEF Before
  <2>5. Consistent(log', Len(log) + 1)
    BY <2>2, <2>3, <2>4 DEF Consistent
  <2>6. QED
    BY <1>2, <2>3, <2>5
<1>5. CASE UNCHANGED log
  BY <1>5 DEF LogConsistent, Consistent, Before, NoBook, NoLevels, Describes
<1>6. QED
  BY <1>3, <1>4, <1>5
  DEF Next, Task, vars, feedVars, CloseFeed, ReceiveInitial, ReceiveUpdate, Receive,
      ApplyBid, ApplyAsk, Publish, PublishPanics, FeedClosed

(* The book still to be reached keeps its place in the log.                *)
LEMMA SendKeepsTaken ==
  ASSUME TypeOK, BookTracksServer, SendInitial \/ SendUpdate
  PROVE  BookTracksServer'
<1>1. /\ UNCHANGED <<taken, bids, asks, todo>>
      /\ \A i \in 1..Len(log) : log'[i] = log[i]
  <2>1. CASE SendInitial
    <3>1. PICK bl \in Levels, al \in Levels : Send("Initial", bl, al, NoBook)
      BY <2>1 DEF SendInitial, NoBook
    <3>2. QED
      BY <2>1, <3>1, SendType DEF SendInitial, bookVars
  <2>2. CASE SendUpdate
    <3>1. PICK bl \in Levels, al \in Levels : Send("Update", bl, al, Server)
      BY <2>2 DEF SendUpdate
    <3>2. QED
      BY <2>2, <3>1, SendType DEF SendUpdate, bookVars
  <2>3. QED
    BY <2>1, <2>2
<1>2. taken > 0 => log'[taken] = log[taken]
  BY <1>1 DEF TypeOK
<1>3. SizesOf(bids') = SizesOf(bids) /\ SizesOf(asks') = SizesOf(asks)
  BY <1>1
<1>4. QED
  BY <1>1, <1>2, <1>3 DEF BookTracksServer

(* While the task waits, its book is the indexer's after the last message. *)
LEMMA BookWhileWaiting ==
  ASSUME TypeOK, BookTracksServer, phase = "recv", taken > 0
  PROVE  \A p \in Price : /\ SizesOf(bids)[p] = log[taken].view.bids[p]
                          /\ SizesOf(asks)[p] = log[taken].view.asks[p]
<1>1. todo.bids = <<>> /\ todo.asks = <<>>
  BY DEF TypeOK
<1>2. /\ Describes(<<>>, SizesOf(bids), log[taken].view.bids)
      /\ Describes(<<>>, SizesOf(asks), log[taken].view.asks)
  BY <1>1 DEF BookTracksServer
<1>3. QED
  BY <1>2, DescribesNothing

LEMMA BookStep == BookInv /\ [Next]_vars => BookTracksServer'
<1> SUFFICES ASSUME TypeOK, LogConsistent, BookTracksServer, [Next]_vars
             PROVE  BookTracksServer'
  BY DEF BookInv
<1>1. CASE SendInitial \/ SendUpdate
  BY <1>1, SendKeepsTaken
<1>2. CASE UNCHANGED <<log, taken, bids, asks, todo>>
  <2>1. SizesOf(bids') = SizesOf(bids) /\ SizesOf(asks') = SizesOf(asks)
    BY <1>2
  <2>2. QED
    BY <1>2, <2>1 DEF BookTracksServer
<1>3. ASSUME NEW kind, Receive(kind)
      PROVE  /\ taken' = taken + 1 /\ log' = log
             /\ taken + 1 \in 1..Len(log)
             /\ log[taken + 1].kind = kind
             /\ todo'.bids = log[taken + 1].bids
             /\ todo'.asks = log[taken + 1].asks
             /\ phase = "recv"
             /\ Consistent(log, taken + 1)
  <2>1. taken + 1 \in 1..Len(log)
    BY <1>3 DEF Receive, TypeOK
  <2>2. QED
    BY <1>3, <2>1 DEF Receive, feedVars, LogConsistent
<1>4. CASE ReceiveInitial
  <2>1. Receive("Initial") /\ bids' = EmptySide /\ asks' = EmptySide
    BY <1>4 DEF ReceiveInitial
  <2>2. \A p \in Price : SizesOf(EmptySide)[p] = NoLevels[p]
    BY DEF SizesOf, EmptySide, NoLevels
  <2>3. /\ Describes(log[taken + 1].bids, NoLevels, log[taken + 1].view.bids)
        /\ Describes(log[taken + 1].asks, NoLevels, log[taken + 1].view.asks)
    BY <1>3, <2>1 DEF Consistent, Before, NoBook
  <2>4. /\ Describes(log[taken + 1].bids, SizesOf(EmptySide), log[taken + 1].view.bids)
        /\ Describes(log[taken + 1].asks, SizesOf(EmptySide), log[taken + 1].view.asks)
    BY <2>2, <2>3, DescribesSame
  <2>5. SizesOf(bids') = SizesOf(EmptySide) /\ SizesOf(asks') = SizesOf(EmptySide)
    BY <2>1
  <2>6. QED
    BY <1>3, <2>1, <2>4, <2>5 DEF BookTracksServer
<1>5. CASE ReceiveUpdate
  <2>1. Receive("Update") /\ bids' = bids /\ asks' = asks
    BY <1>5 DEF ReceiveUpdate, bookVars
  <2>2. taken > 0 /\ (taken + 1) - 1 = taken
    BY <1>3, <2>1 DEF Consistent, TypeOK
  <2>3. Before(log, taken + 1) = log[taken].view
    BY <1>3, <2>1, <2>2 DEF Before
  <2>4. /\ Describes(log[taken + 1].bids, log[taken].view.bids, log[taken + 1].view.bids)
        /\ Describes(log[taken + 1].asks, log[taken].view.asks, log[taken + 1].view.asks)
    BY <1>3, <2>1, <2>3 DEF Consistent
  <2>5. /\ Describes(log[taken + 1].bids, SizesOf(bids), log[taken + 1].view.bids)
        /\ Describes(log[taken + 1].asks, SizesOf(asks), log[taken + 1].view.asks)
    BY <1>3, <2>1, <2>2, <2>4, BookWhileWaiting, DescribesSame
  <2>6. SizesOf(bids') = SizesOf(bids) /\ SizesOf(asks') = SizesOf(asks)
    BY <2>1
  <2>7. QED
    BY <1>3, <2>1, <2>5, <2>6 DEF BookTracksServer
<1>6. CASE ApplyBid
  <2>1. Head(todo.bids) \in Level
    BY <1>6, HeadTailLevel DEF ApplyBid, TypeOK
  <2>2. /\ bids' = ApplyLevel(bids, Head(todo.bids), offset)
        /\ asks' = asks /\ log' = log /\ taken' = taken
        /\ todo'.bids = Tail(todo.bids) /\ todo'.asks = todo.asks
    BY <1>6 DEF ApplyBid, TypeOK, feedVars
  <2>3. ASSUME taken > 0
        PROVE  Describes(Tail(todo.bids), SizesOf(bids'), log[taken].view.bids)
    <3>1. Describes(todo.bids, SizesOf(bids), log[taken].view.bids)
      BY <2>3 DEF BookTracksServer
    <3>2. \A p \in Price : SizesOf(bids')[p] =
            IF p = Head(todo.bids).price THEN Head(todo.bids).size ELSE SizesOf(bids)[p]
      BY <2>1, <2>2, SizesAfterApply DEF TypeOK
    <3>3. todo.bids \in Seq(Level) /\ todo.bids # <<>>
      BY <1>6 DEF ApplyBid, TypeOK
    <3>4. QED
      BY <3>1, <3>2, <3>3, DescribesRest
  <2>4. SizesOf(asks') = SizesOf(asks)
    BY <2>2
  <2>5. QED
    BY <2>2, <2>3, <2>4 DEF BookTracksServer
<1>7. CASE ApplyAsk
  <2>1. Head(todo.asks) \in Level
    BY <1>7, HeadTailLevel DEF ApplyAsk, TypeOK
  <2>2. /\ asks' = ApplyLevel(asks, Head(todo.asks), offset)
        /\ bids' = bids /\ log' = log /\ taken' = taken
        /\ todo'.asks = Tail(todo.asks) /\ todo'.bids = todo.bids
    BY <1>7 DEF ApplyAsk, TypeOK, feedVars
  <2>3. ASSUME taken > 0
        PROVE  Describes(Tail(todo.asks), SizesOf(asks'), log[taken].view.asks)
    <3>1. Describes(todo.asks, SizesOf(asks), log[taken].view.asks)
      BY <2>3 DEF BookTracksServer
    <3>2. \A p \in Price : SizesOf(asks')[p] =
            IF p = Head(todo.asks).price THEN Head(todo.asks).size ELSE SizesOf(asks)[p]
      BY <2>1, <2>2, SizesAfterApply DEF TypeOK
    <3>3. todo.asks \in Seq(Level) /\ todo.asks # <<>>
      BY <1>7 DEF ApplyAsk, TypeOK
    <3>4. QED
      BY <3>1, <3>2, <3>3, DescribesRest
  <2>4. SizesOf(bids') = SizesOf(bids)
    BY <2>2
  <2>5. QED
    BY <2>2, <2>3, <2>4 DEF BookTracksServer
<1>8. QED
  BY <1>1, <1>2, <1>4, <1>5, <1>6, <1>7
  DEF Next, Task, vars, feedVars, bookVars, CloseFeed, Publish, PublishPanics, FeedClosed

(* The task's book follows the indexer's: with every level of the messages *)
(* received applied, the two have the same size at every price, through    *)
(* deletions, repeated prices and snapshots after a lost connection        *)
(* (handle_order_book_feed, dydx.rs:171-196).                              *)
THEOREM BookFollowsServer == Spec => []BookTracksServer
<1>1. BookInv /\ [Next]_vars => BookInv'
  BY TypeStep, LogStep, BookStep DEF BookInv
<1>2. BookInv => BookTracksServer
  BY DEF BookInv
<1>3. QED
  BY BookInit, <1>1, <1>2, PTL DEF Spec
-----------------------------------------------------------------------------
(***************************************************************************)
(* Refinement.                                                             *)
(***************************************************************************)
Views(l) == [i \in 1..Len(l) |-> l[i].view]

Top == [bids : SUBSET [price : Nat, amount : Nat],
        asks : SUBSET [price : Nat, amount : Nat],
        nonce : Nat]

(* A top of book has been sent for every message but the one being applied *)
(* or panicked on; the indexer numbers its messages.                       *)
ChannelInv ==
  /\ channel \in Seq(Top)
  /\ phase \in {"apply", "panicked"} => taken = Len(channel) + 1
  /\ phase \notin {"apply", "panicked"} => taken = Len(channel)
  /\ \A i \in 1..Len(log) : log[i].id = i

MirrorInv == BookInv /\ ChannelInv

(* book_to_ccxt yields a top of book.                                      *)
LEMMA BookToCcxtType ==
  ASSUME NEW b, IsSide(b), NEW a, IsSide(a), NEW n \in Nat
  PROVE  BookToCcxt(b, a, n) \in Top
<1>1. ASSUME NEW side, IsSide(side), NEW P \in SUBSET DOMAIN side
      PROVE  LevelsAt(side, P) \in SUBSET [price : Nat, amount : Nat]
  <2>1. \A p \in P : p \in Nat /\ side[p].size \in Nat
    BY <1>1, FeedAssumption DEF IsSide, StampedLevel
  <2>2. QED
    BY <2>1 DEF LevelsAt
<1>2. /\ Mirror!Highest(DOMAIN b) \in SUBSET DOMAIN b
      /\ Mirror!Lowest(DOMAIN a) \in SUBSET DOMAIN a
  BY DEF Mirror!Highest, Mirror!Lowest
<1>3. /\ LevelsAt(b, Mirror!Highest(DOMAIN b)) \in SUBSET [price : Nat, amount : Nat]
      /\ LevelsAt(a, Mirror!Lowest(DOMAIN a)) \in SUBSET [price : Nat, amount : Nat]
  BY <1>1, <1>2
<1>4. QED
  BY <1>3 DEF BookToCcxt, Top

(* The best levels of the B-trees are the best levels of the indexer's     *)
(* book when the two agree at every price (book_to_ccxt).                  *)
LEMMA TopOfBook ==
  ASSUME NEW b, IsSide(b), NEW a, IsSide(a), NEW book \in ServerBook, NEW n,
         \A p \in Price : book.bids[p] = SizesOf(b)[p] /\ book.asks[p] = SizesOf(a)[p]
  PROVE  BookToCcxt(b, a, n) = Mirror!TopOf(book, n)
<1>1. ASSUME NEW side, IsSide(side), NEW sizes,
             \A p \in Price : sizes[p] = SizesOf(side)[p]
      PROVE  /\ Mirror!Occupied(sizes) = DOMAIN side
             /\ \A p \in DOMAIN side : sizes[p] = side[p].size
  <2>1. \A p \in Price : sizes[p] = IF p \in DOMAIN side THEN side[p].size ELSE 0
    BY <1>1 DEF SizesOf
  <2>2. DOMAIN side \subseteq Price /\ \A p \in DOMAIN side : side[p].size # 0
    BY <1>1 DEF IsSide, StampedLevel
  <2>3. QED
    BY <2>1, <2>2 DEF Mirror!Occupied
<1>2. /\ Mirror!Occupied(book.bids) = DOMAIN b
      /\ Mirror!Occupied(book.asks) = DOMAIN a
      /\ \A p \in DOMAIN b : book.bids[p] = b[p].size
      /\ \A p \in DOMAIN a : book.asks[p] = a[p].size
  BY <1>1
<1>3. LevelsAt(b, Mirror!Highest(DOMAIN b)) =
        {[price |-> p, amount |-> book.bids[p]] : p \in Mirror!Highest(DOMAIN b)}
  BY <1>2 DEF LevelsAt, Mirror!Highest
<1>4. LevelsAt(a, Mirror!Lowest(DOMAIN a)) =
        {[price |-> p, amount |-> book.asks[p]] : p \in Mirror!Lowest(DOMAIN a)}
  BY <1>2 DEF LevelsAt, Mirror!Lowest
<1>5. QED
  BY <1>2, <1>3, <1>4 DEF BookToCcxt, Mirror!TopOf

LEMMA ChannelInit == Init => ChannelInv
  BY DEF Init, ChannelInv

LEMMA ChannelStep == TypeOK /\ ChannelInv /\ [Next]_vars => ChannelInv'
<1> SUFFICES ASSUME TypeOK, ChannelInv, [Next]_vars PROVE ChannelInv'
  OBVIOUS
<1>1. taken \in 0..Len(log) /\ Len(log) \in Nat /\ channel \in Seq(Top)
  BY DEF TypeOK, ChannelInv
<1>2. ASSUME NEW kind \in {"Initial", "Update"}, NEW bl \in Levels, NEW al \in Levels,
             NEW before, Send(kind, bl, al, before), UNCHANGED <<taken, phase, channel>>
      PROVE  ChannelInv'
  <2>1. /\ Len(log') = Len(log) + 1
        /\ \A i \in 1..Len(log) : log'[i] = log[i]
        /\ log'[Len(log) + 1].id = Len(log) + 1
    BY <1>2, SendType
  <2>2. \A i \in 1..Len(log') : log'[i].id = i
    BY <1>1, <2>1 DEF ChannelInv
  <2>3. QED
    BY <1>2, <2>2 DEF ChannelInv
<1>3. CASE SendInitial
  BY <1>2, <1>3 DEF SendInitial
<1>4. CASE SendUpdate
  BY <1>2, <1>4 DEF SendUpdate
<1>5. CASE ReceiveInitial
  BY <1>1, <1>5 DEF ReceiveInitial, Receive, feedVars, ChannelInv
<1>6. CASE ReceiveUpdate
  BY <1>1, <1>6 DEF ReceiveUpdate, Receive, feedVars, ChannelInv
<1>7. CASE Publish
  <2>1. taken \in 1..Len(log) /\ log[taken].id = taken
    BY <1>1, <1>7 DEF Publish, ChannelInv
  <2>2. BookToCcxt(bids, asks, log[taken].id) \in Top
    BY <2>1, BookToCcxtType DEF TypeOK
  <2>3. channel' \in Seq(Top) /\ Len(channel') = Len(channel) + 1
    BY <1>1, <1>7, <2>2 DEF Publish
  <2>4. QED
    BY <1>7, <2>3 DEF Publish, ChannelInv, feedVars
<1>8. CASE CloseFeed \/ ApplyBid \/ ApplyAsk
  BY <1>8 DEF CloseFeed, ApplyBid, ApplyAsk, feedVars, ChannelInv
<1>9. CASE FeedClosed \/ PublishPanics
  BY <1>9 DEF FeedClosed, PublishPanics, feedVars, ChannelInv
<1>10. CASE UNCHANGED vars
  BY <1>10 DEF vars, ChannelInv
<1>11. QED
  BY <1>3, <1>4, <1>5, <1>6, <1>7, <1>8, <1>9, <1>10 DEF Next, Task

(* One more message, one more version.                                     *)
LEMMA ViewsAppend ==
  ASSUME NEW l \in Seq(Message), NEW l2 \in Seq(Message), Len(l2) = Len(l) + 1,
         \A i \in 1..Len(l) : l2[i] = l[i]
  PROVE  /\ l2[Len(l) + 1].view \in ServerBook
         /\ Views(l2) = Append(Views(l), l2[Len(l) + 1].view)
<1>1. \A i \in 1..Len(l) : l[i].view \in ServerBook
  <2>1. \A i \in 1..Len(l) : l[i] \in Message
    OBVIOUS
  <2>2. QED
    BY <2>1 DEF Message
<1>2. l2[Len(l) + 1].view \in ServerBook
  <2>1. l2[Len(l) + 1] \in Message
    OBVIOUS
  <2>2. QED
    BY <2>1 DEF Message
<1>3. Views(l) \in Seq(ServerBook) /\ Len(Views(l)) = Len(l)
  BY <1>1 DEF Views
<1>4. QED
  BY <1>2, <1>3 DEF Views

LEMMA MirrorStart == Init => Mirror!MirrorInit
<1> SUFFICES ASSUME Init PROVE Mirror!MirrorInit
  OBVIOUS
<1>1. Views(log) = <<>>
  BY DEF Init, Views
<1>2. QED
  BY <1>1 DEF Init, Mirror!MirrorInit, Views

(* Every step is a step of the mirror or leaves it as it was: a message    *)
(* sent is a version announced, the publication of a top of book is the    *)
(* forwarding of a version, the end of the task its end, and what happens  *)
(* between the receipt of a message and its publication is invisible.      *)
LEMMA MirrorStep == MirrorInv /\ [Next]_vars => [Mirror!MirrorNext]_(Mirror!mirrorVars)
<1> SUFFICES ASSUME TypeOK, LogConsistent, BookTracksServer, ChannelInv, [Next]_vars
             PROVE  [Mirror!MirrorNext]_(Mirror!mirrorVars)
  BY DEF MirrorInv, BookInv
<1>1. ASSUME NEW kind \in {"Initial", "Update"}, NEW bl \in Levels, NEW al \in Levels,
             NEW before, Send(kind, bl, al, before), open, UNCHANGED <<open, phase, channel>>
      PROVE  Mirror!Announce
  <2>1. /\ log \in Seq(Message) /\ log' \in Seq(Message)
        /\ Len(log') = Len(log) + 1
        /\ \A i \in 1..Len(log) : log'[i] = log[i]
    BY <1>1, SendType DEF TypeOK
  <2>2. /\ log'[Len(log) + 1].view \in ServerBook
        /\ Views(log') = Append(Views(log), log'[Len(log) + 1].view)
    BY <2>1, ViewsAppend
  <2>3. QED
    BY <1>1, <2>2 DEF Mirror!Announce, Views, ServerBook
<1>2. CASE SendInitial
  BY <1>1, <1>2 DEF SendInitial, Mirror!MirrorNext
<1>3. CASE SendUpdate
  BY <1>1, <1>3 DEF SendUpdate, Mirror!MirrorNext
<1>4. CASE CloseFeed
  <2>1. Mirror!Close
    BY <1>4 DEF CloseFeed, Mirror!Close
  <2>2. QED
    BY <2>1 DEF Mirror!MirrorNext
<1>5. CASE ReceiveInitial \/ ReceiveUpdate
  BY <1>5 DEF ReceiveInitial, ReceiveUpdate, Receive, feedVars, Mirror!mirrorVars
<1>6. CASE ApplyBid \/ ApplyAsk \/ PublishPanics
  BY <1>6 DEF ApplyBid, ApplyAsk, PublishPanics, feedVars, Mirror!mirrorVars
<1>7. CASE Publish
  <2>1. /\ taken = Len(channel) + 1 /\ taken \in 1..Len(log) /\ taken > 0
        /\ log[taken].id = taken
    BY <1>7 DEF Publish, ChannelInv, TypeOK
  <2>2. log[taken].view \in ServerBook
    <3>1. log[taken] \in Message
      BY <2>1 DEF TypeOK
    <3>2. QED
      BY <3>1 DEF Message
  <2>3. \A p \in Price : /\ log[taken].view.bids[p] = SizesOf(bids)[p]
                         /\ log[taken].view.asks[p] = SizesOf(asks)[p]
    <3>1. /\ Describes(<<>>, SizesOf(bids), log[taken].view.bids)
          /\ Describes(<<>>, SizesOf(asks), log[taken].view.asks)
      BY <1>7, <2>1 DEF Publish, BookTracksServer
    <3>2. QED
      BY <3>1, DescribesNothing
  <2>4. BookToCcxt(bids, asks, taken) = Mirror!TopOf(log[taken].view, taken)
    <3>1. IsSide(bids) /\ IsSide(asks)
      BY DEF TypeOK
    <3>2. QED
      BY <2>2, <2>3, <3>1, TopOfBook
  <2>5. /\ Len(Views(log)) = Len(log) /\ Views(log)[taken] = log[taken].view
        /\ Views(log') = Views(log)
    BY <1>7, <2>1 DEF Views, Publish, feedVars, TypeOK
  <2>6. Mirror!Forward
    BY <1>7, <2>1, <2>4, <2>5 DEF Mirror!Forward, Publish, feedVars, Views
  <2>7. QED
    BY <2>6 DEF Mirror!MirrorNext
<1>8. CASE FeedClosed
  <2>1. Len(Views(log)) = Len(log) /\ Views(log') = Views(log)
    BY <1>8 DEF Views, FeedClosed, feedVars, TypeOK
  <2>2. Mirror!Finish
    BY <1>8, <2>1 DEF Mirror!Finish, FeedClosed, feedVars, ChannelInv, Views
  <2>3. QED
    BY <2>2 DEF Mirror!MirrorNext
<1>9. CASE UNCHANGED vars
  BY <1>9 DEF vars, Mirror!mirrorVars
<1>10. QED
  BY <1>2, <1>3, <1>4, <1>5, <1>6, <1>7, <1>8, <1>9 DEF Next, Task

(* The feed task implements the mirror: its readers get one top of book    *)
(* per message, of the indexer's book after that message, in feed order,   *)
(* none missing when the task ends (handle_order_book_feed and             *)
(* book_to_ccxt, dydx.rs:135-197).                                         *)
THEOREM TaskImplementsMirror == Spec => ImplementsMirror
<1>1. Init => MirrorInv
  BY BookInit, ChannelInit DEF MirrorInv
<1>2. MirrorInv /\ [Next]_vars => MirrorInv'
  BY TypeStep, LogStep, BookStep, ChannelStep DEF MirrorInv, BookInv
<1>3. QED
  BY <1>1, <1>2, MirrorStart, MirrorStep, PTL DEF Spec, ImplementsMirror, Mirror!MirrorSpec
=============================================================================
