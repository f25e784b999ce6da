--------------------------- MODULE SubaccountFeed ---------------------------
(***************************************************************************)
(* handle_subaccount_feed of src/src/exchange/dydx.rs: the task that turns *)
(* the indexer's subaccount messages into balances and positions.          *)
(*                                                                         *)
(* A snapshot gives one balance and one position per open market; an       *)
(* update is a list of contents, each with asset and position changes, and *)
(* gives a position per change at once and one balance at the end.  The    *)
(* task is modelled loop iteration by loop iteration.                      *)
(*                                                                         *)
(* The indexer is outside src/: it sends a snapshot on subscription and    *)
(* after an outage, during which the account may have changed, and updates *)
(* in between.  The task looks at the feed only when it asks for the next  *)
(* message, so which message it will find is chosen then.                  *)
(*                                                                         *)
(* The task itself keeps nothing between messages: knownFree and knownPos  *)
(* are what the balances and positions sent so far add up to for their     *)
(* readers, `account` what the messages received say of the account.       *)
(***************************************************************************)
EXTENDS Integers, Sequences

CONSTANTS Market,
          Asset,
          Usdc,       \* the asset the snapshot reports
          Amount,     \* sizes; 0: no such asset, or the position is closed
          MaxContents \* bound: contents of an update

ASSUME SubaccountAssumption ==
  /\ Usdc \in Asset
  /\ Amount \subseteq Nat /\ 0 \in Amount
  /\ MaxContents \in Nat

VARIABLES account,   \* history: the account after the last message received
          missed,    \* history: changes in an outage, not named since
          phase,     \* where the task's loop is
          openLeft,  \* the open markets of a snapshot not yet sent
          contents,  \* the contents of an update not yet handled
          free,      \* the map `free` of the balance being built
          knownFree, \* knownFree[a]: the last balance sent for asset a
          knownPos   \* knownPos[m]: the last position sent for market m

vars == <<account, missed, phase, openLeft, contents, free, knownFree, knownPos>>

(* `collateral` is the free collateral the last snapshot reported. *)
Account == [assets : [Asset -> Amount], positions : [Market -> Amount], collateral : Amount]

Change(Key) == [key : Key, size : Amount]

(* At most one change of each kind in a content. *)
Content == [assets : {<<>>} \cup {<<c>> : c \in Change(Asset)},
            positions : {<<>>} \cup {<<c>> : c \in Change(Market)}]

EmptyMap == [a \in {} |-> 0]

Init ==
  /\ account = [assets |-> [a \in Asset |-> 0], positions |-> [m \in Market |-> 0],
                collateral |-> 0]
  /\ missed = [assets |-> {}, positions |-> {}]
  /\ phase = "subscribed"
  /\ openLeft = {} /\ contents = <<>> /\ free = EmptyMap
  /\ knownFree = [a \in Asset |-> 0]
  /\ knownPos = [m \in Market |-> 0]
-----------------------------------------------------------------------------
(***************************************************************************)
(* What the indexer says of the account.                                   *)
(***************************************************************************)
(* The changes of one kind, content by content. *)
AssetChanges(list) == [i \in 1..Len(list) |-> list[i].assets]
PositionChanges(list) == [i \in 1..Len(list) |-> list[i].positions]

(* The places in a list of changes that name a key, and the last of them. *)
Naming(key, changes) ==
  {i \in 1..Len(changes) : changes[i] # <<>> /\ Head(changes[i]).key = key}

LastNaming(key, changes) ==
  {i \in Naming(key, changes) : \A j \in Naming(key, changes) : j <= i}

(* The last change of a key counts. *)
After(f, changes) ==
  [key \in DOMAIN f |->
     LET last == LastNaming(key, changes)
     IN  IF last = {} THEN f[key] ELSE Head(changes[CHOOSE i \in last : TRUE]).size]

AfterUpdate(acc, list) ==
  [assets     |-> After(acc.assets, AssetChanges(list)),
   positions  |-> After(acc.positions, PositionChanges(list)),
   collateral |-> acc.collateral]

(* A snapshot names USDC and the open positions.  It is silent about other *)
(* assets that changed and positions that were closed since.               *)
Unsaid(acc) ==
  [assets    |-> {a \in Asset \ {Usdc} : acc.assets[a] # account.assets[a]},
   positions |-> {m \in Market : acc.positions[m] = 0 /\ account.positions[m] # 0}]
-----------------------------------------------------------------------------
(***************************************************************************)
(* handle_subaccount_feed.                                                 *)
(***************************************************************************)
OpenMarkets(acc) == {m \in Market : acc.positions[m] # 0}

(* The USDC asset of the account, its free collateral when it has none.    *)
UsdcBalance(acc) == IF acc.assets[Usdc] # 0 THEN acc.assets[Usdc] ELSE acc.collateral

(* The balance of a snapshot is sent before its positions. *)
ReceiveInitial ==
  /\ phase \in {"subscribed", "recv"}
  /\ \E acc \in Account :
       /\ account' = acc
       /\ knownFree' = [knownFree EXCEPT ![Usdc] = UsdcBalance(acc)]
       /\ openLeft' = OpenMarkets(acc)
       /\ missed' = [assets    |-> missed.assets \cup Unsaid(acc).assets,
                     positions |-> (missed.positions \cup Unsaid(acc).positions)
                                     \ OpenMarkets(acc)]
  /\ phase' = "initial"
  /\ UNCHANGED <<contents, free, knownPos>>

(* Mutant of SendOpenPosition: the loop over the positions ends after one. *)
SendOpenPositionOnce ==
  /\ phase = "initial"
  /\ \E m \in openLeft :
       /\ knownPos' = [knownPos EXCEPT ![m] = account.positions[m]]
       /\ openLeft' = {}
  /\ UNCHANGED <<account, missed, phase, contents, free, knownFree>>

(* open_perpetual_positions is a HashMap: any order. *)
SendOpenPosition ==
  /\ phase = "initial"
  /\ \E m \in openLeft :
       /\ knownPos' = [knownPos EXCEPT ![m] = account.positions[m]]
       /\ openLeft' = openLeft \ {m}
  /\ UNCHANGED <<account, missed, phase, contents, free, knownFree>>

InitialDone ==
  /\ phase = "initial"
  /\ openLeft = {}
  /\ phase' = "recv"
  /\ UNCHANGED <<account, missed, openLeft, contents, free, knownFree, knownPos>>

(* The first message of a feed is a snapshot, never an update. *)
ReceiveUpdate ==
  /\ phase = "recv"
  /\ \E n \in 1..MaxContents : \E list \in [1..n -> Content] :
       /\ contents' = list
       /\ account' = AfterUpdate(account, list)
  /\ phase' = "update"
  /\ UNCHANGED <<missed, openLeft, free, knownFree, knownPos>>

(* Mutant of ApplyAsset: the first change of an asset wins. *)
ApplyAssetOnce ==
  /\ phase = "update"
  /\ contents # <<>>
  /\ Head(contents).assets # <<>>
  /\ LET c == Head(Head(contents).assets)
     IN  /\ free' = [a \in DOMAIN free \cup {c.key} |->
                       IF a \in DOMAIN free THEN free[a] ELSE c.size]
         /\ missed' = [missed EXCEPT !.assets = @ \ {c.key}]
  /\ contents' = [contents EXCEPT ![1] = [assets |-> Tail(@.assets), positions |-> @.positions]]
  /\ UNCHANGED <<account, phase, openLeft, knownFree, knownPos>>

(* free.insert(symbol, size) *)
ApplyAsset ==
  /\ phase = "update"
  /\ contents # <<>>
  /\ Head(contents).assets # <<>>
  /\ LET c == Head(Head(contents).assets)
     IN  /\ free' = [a \in DOMAIN free \cup {c.key} |-> IF a = c.key THEN c.size ELSE free[a]]
         /\ missed' = [missed EXCEPT !.assets = @ \ {c.key}]
  /\ contents' = [contents EXCEPT ![1] = [assets |-> Tail(@.assets), positions |-> @.positions]]
  /\ UNCHANGED <<account, phase, openLeft, knownFree, knownPos>>

SendPosition ==
  /\ phase = "update"
  /\ contents # <<>>
  /\ Head(contents).assets = <<>>
  /\ Head(contents).positions # <<>>
  /\ LET c == Head(Head(contents).positions)
     IN  /\ knownPos' = [knownPos EXCEPT ![c.key] = c.size]
         /\ missed' = [missed EXCEPT !.positions = @ \ {c.key}]
  /\ contents' = [contents EXCEPT ![1] = [assets |-> @.assets, positions |-> Tail(@.positions)]]
  /\ UNCHANGED <<account, phase, openLeft, free, knownFree>>

NextContent ==
  /\ phase = "update"
  /\ contents # <<>>
  /\ Head(contents) = [assets |-> <<>>, positions |-> <<>>]
  /\ contents' = Tail(contents)
  /\ UNCHANGED <<account, missed, phase, openLeft, free, knownFree, knownPos>>

(* Mutant of SendBalance: the map outlives the message. *)
SendBalanceKeepsFree ==
  /\ phase = "update"
  /\ contents = <<>>
  /\ knownFree' = [a \in Asset |-> IF a \in DOMAIN free THEN free[a] ELSE knownFree[a]]
  /\ phase' = "recv"
  /\ UNCHANGED <<account, missed, openLeft, contents, free, knownPos>>

(* One balance with the assets the update named; none if it named none.    *)
SendBalance ==
  /\ phase = "update"
  /\ contents = <<>>
  /\ knownFree' = [a \in Asset |-> IF a \in DOMAIN free THEN free[a] ELSE knownFree[a]]
  /\ free' = EmptyMap
  /\ phase' = "recv"
  /\ UNCHANGED <<account, missed, openLeft, contents, knownPos>>

(* The unwrap of big_decimal_to_decimal fails for a number of the message: *)
(* the free collateral, an asset or a position that is looked at next.  A  *)
(* balance that was to be sent at the end of an update is lost with it.    *)
ConversionPanics ==
  /\ \/ phase \in {"subscribed", "recv"}
     \/ openLeft # {}
     \/ contents # <<>> /\ Head(contents) # [assets |-> <<>>, positions |-> <<>>]
  /\ phase' = "panicked"
  /\ openLeft' = {} /\ contents' = <<>> /\ free' = EmptyMap
  /\ UNCHANGED <<account, missed, knownFree, knownPos>>

(* The None arm: the feed may end whenever it is asked. *)
FeedClosed ==
  /\ phase \in {"subscribed", "recv"}
  /\ phase' = "ended"
  /\ UNCHANGED <<account, missed, openLeft, contents, free, knownFree, knownPos>>

Next ==
  \/ ReceiveInitial \/ SendOpenPosition \/ InitialDone
  \/ ReceiveUpdate \/ ApplyAsset \/ SendPosition \/ NextContent \/ SendBalance
  \/ ConversionPanics \/ FeedClosed

Spec == Init /\ [][Next]_vars
-----------------------------------------------------------------------------
(***************************************************************************)
(* Properties.                                                             *)
(***************************************************************************)
(* The types of the variables; nothing is left over between messages.      *)
TypeOK ==
  /\ account \in Account
  /\ missed \in [assets : SUBSET Asset, positions : SUBSET Market]
  /\ phase \in {"subscribed", "recv", "initial", "update", "ended", "panicked"}
  /\ openLeft \subseteq Market
  /\ contents \in Seq(Content)
  /\ DOMAIN free \subseteq Asset /\ free \in [DOMAIN free -> Amount]
  /\ knownFree \in [Asset -> Amount]
  /\ knownPos \in [Market -> Amount]
  /\ phase # "initial" => openLeft = {}
  /\ phase # "update" => contents = <<>> /\ free = EmptyMap

(* Between messages the readers of the position channel know every open    *)
(* position at its right size, and the only position they may still        *)
(* believe open is one whose close fell into an outage: the snapshot lists *)
(* open positions only (dydx.rs:231).                                      *)
PositionsKnown ==
  phase \in {"recv", "ended"} =>
    \A m \in Market : knownPos[m] = account.positions[m] \/ m \in missed.positions

(* Between messages the readers of the balance channel know the account's  *)
(* assets, although updates are partial and the last of several changes in *)
(* one update counts.  Two exceptions are the code's: a snapshot reports   *)
(* its free collateral when it holds no USDC, and of other assets nothing  *)
(* (dydx.rs:208-222, 256-305).                                             *)
BalancesKnown ==
  phase \in {"recv", "ended"} =>
    \A a \in Asset :
      \/ knownFree[a] = account.assets[a]
      \/ a \in missed.assets
      \/ a = Usdc /\ account.assets[a] = 0 /\ knownFree[a] = account.collateral
=============================================================================
