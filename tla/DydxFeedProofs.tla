--------------------------- MODULE DydxFeedProofs ---------------------------
(***************************************************************************)
(* Theorems and proofs about SubaccountFeed, for every set of markets, of  *)
(* assets and of sizes, and about WatchChannel, for every set of symbols   *)
(* and of watchers, whatever each watcher wants, and every bound on items. *)
(* The two modules share no name: a theorem about one says nothing of the  *)
(* variables of the other.                                                 *)
(***************************************************************************)
EXTENDS SubaccountFeed, WatchChannel, SequenceTheorems, FiniteSetTheorems, TLAPS

(***************************************************************************)
(* SubaccountFeed.                                                         *)
(***************************************************************************)
(* What a content may hold of changes of one kind.                         *)
AtMostOne(Key) == {<<>>} \cup {<<c>> : c \in Change(Key)}

(***************************************************************************)
(* The invariant.                                                          *)
(***************************************************************************)
(* The last change of a key that is still to come brings it to `size`.     *)
LastBrings(key, changes, size) ==
  \A i \in LastNaming(key, changes) : Head(changes[i]).size = size

PositionKnown(m) == knownPos[m] = account.positions[m] \/ m \in missed.positions

BalanceKnown(a) ==
  \/ knownFree[a] = account.assets[a]
  \/ a \in missed.assets
  \/ a = Usdc /\ account.assets[a] = 0 /\ knownFree[a] = account.collateral

(* Each position is as the readers know it, unless it is still to be sent: *)
(* an open one of the snapshot, or the last change the update has for it.  *)
PositionsInv ==
  phase # "panicked" =>
    \A m \in Market :
      /\ LastBrings(m, PositionChanges(contents), account.positions[m])
      /\ Naming(m, PositionChanges(contents)) = {} => m \in openLeft \/ PositionKnown(m)

(* The same of the assets; what the update changed of them is first        *)
(* collected in `free`.                                                    *)
BalancesInv ==
  phase # "panicked" =>
    \A a \in Asset :
      /\ LastBrings(a, AssetChanges(contents), account.assets[a])
      /\ Naming(a, AssetChanges(contents)) = {} =>
           IF a \in DOMAIN free THEN free[a] = account.assets[a] ELSE BalanceKnown(a)
-----------------------------------------------------------------------------
(***************************************************************************)
(* Lists of changes.                                                       *)
(***************************************************************************)
LEMMA OneAtMost ==
  ASSUME NEW Key, NEW x \in AtMostOne(Key)
  PROVE  x = <<>> \/ (x # <<>> /\ Head(x) \in Change(Key) /\ Tail(x) = <<>>)
<1>1. CASE x = <<>>
  BY <1>1
<1>2. CASE \E c \in Change(Key) : x = <<c>>
  <2>1. PICK c \in Change(Key) : x = <<c>>
    BY <1>2
  <2> QED BY <2>1
<1> QED BY <1>1, <1>2 DEF AtMostOne

LEMMA ChangeFields ==
  ASSUME NEW Key, NEW c \in Change(Key)
  PROVE  c.key \in Key /\ c.size \in Amount
  BY DEF Change

LEMMA ListsOfChanges ==
  ASSUME NEW list \in Seq(Content)
  PROVE  /\ AssetChanges(list) \in Seq(AtMostOne(Asset))
         /\ PositionChanges(list) \in Seq(AtMostOne(Market))
         /\ Len(AssetChanges(list)) = Len(list) /\ Len(PositionChanges(list)) = Len(list)
         /\ \A i \in 1..Len(list) : /\ AssetChanges(list)[i] = list[i].assets
                                    /\ PositionChanges(list)[i] = list[i].positions
<1>1. \A i \in 1..Len(list) : list[i] \in Content
  OBVIOUS
<1>2. \A i \in 1..Len(list) : list[i].assets \in AtMostOne(Asset)
  BY <1>1 DEF Content, AtMostOne
<1>3. \A i \in 1..Len(list) : list[i].positions \in AtMostOne(Market)
  BY <1>1 DEF Content, AtMostOne
<1>4. Len(list) \in Nat
  OBVIOUS
<1>5. AssetChanges(list) \in Seq(AtMostOne(Asset)) /\ Len(AssetChanges(list)) = Len(list)
  BY <1>2, <1>4 DEF AssetChanges
<1>6. PositionChanges(list) \in Seq(AtMostOne(Market)) /\ Len(PositionChanges(list)) = Len(list)
  BY <1>3, <1>4 DEF PositionChanges
<1>7. \A i \in 1..Len(list) : AssetChanges(list)[i] = list[i].assets
  BY DEF AssetChanges
<1>8. \A i \in 1..Len(list) : PositionChanges(list)[i] = list[i].positions
  BY DEF PositionChanges
<1> QED BY <1>5, <1>6, <1>7, <1>8

(* What an update makes of a map: typed, equal to the last change of a key *)
(* and unchanged where it names none.                                      *)
LEMMA AfterIs ==
  ASSUME NEW Key, NEW f \in [Key -> Amount], NEW changes \in Seq(AtMostOne(Key))
  PROVE  /\ After(f, changes) \in [Key -> Amount]
         /\ \A key \in Key : LastBrings(key, changes, After(f, changes)[key])
         /\ \A key \in Key : Naming(key, changes) = {} => After(f, changes)[key] = f[key]
<1> DEFINE v(key) == After(f, changes)[key]
           last(key) == LastNaming(key, changes)
           some(key) == CHOOSE i \in last(key) : TRUE
<1>1. DOMAIN After(f, changes) = Key /\ After(f, changes) = [key \in Key |-> v(key)]
  BY DEF After
<1>2. ASSUME NEW key \in Key
      PROVE  v(key) = IF last(key) = {} THEN f[key] ELSE Head(changes[some(key)]).size
  BY <1>2 DEF After
<1>3. ASSUME NEW key \in Key, NEW i \in last(key) PROVE some(key) = i
  <2>1. some(key) \in last(key)
    BY <1>3
  <2> HIDE DEF some
  <2>2. some(key) \in Naming(key, changes) /\ i \in Naming(key, changes)
    BY <1>3, <2>1 DEF LastNaming
  <2>3. some(key) <= i /\ i <= some(key)
    BY <1>3, <2>1, <2>2 DEF LastNaming
  <2>4. some(key) \in Nat /\ i \in Nat
    BY <2>2 DEF Naming
  <2> QED BY <2>3, <2>4
<1>4. ASSUME NEW key \in Key, NEW i \in last(key)
      PROVE  v(key) = Head(changes[i]).size /\ v(key) \in Amount
  <2>1. v(key) = Head(changes[i]).size
    BY <1>2, <1>3, <1>4
  <2>2. i \in 1..Len(changes) /\ changes[i] # <<>>
    BY <1>4 DEF LastNaming, Naming
  <2>3. changes[i] \in AtMostOne(Key)
    BY <2>2
  <2>4. Head(changes[i]) \in Change(Key)
    BY <2>2, <2>3, OneAtMost
  <2> QED BY <2>1, <2>4, ChangeFields
<1>5. ASSUME NEW key \in Key, last(key) = {} PROVE v(key) = f[key]
  BY <1>2, <1>5
<1>6. ASSUME NEW key \in Key PROVE v(key) \in Amount
  <2>1. CASE last(key) = {}
    BY <1>5, <2>1
  <2>2. CASE \E i \in last(key) : TRUE
    BY <1>4, <2>2
  <2> QED BY <2>1, <2>2
<1>7. ASSUME NEW key \in Key, Naming(key, changes) = {} PROVE last(key) = {}
  BY <1>7 DEF LastNaming
<1> HIDE DEF v, last
<1>8. After(f, changes) \in [Key -> Amount]
  BY <1>1, <1>6
<1>9. ASSUME NEW key \in Key PROVE LastBrings(key, changes, v(key))
  BY <1>4 DEF LastBrings, last
<1> QED BY <1>5, <1>7, <1>8, <1>9 DEF v

(* An entry without a change in front of a list says nothing.              *)
LEMMA EmptyFirst ==
  ASSUME NEW Key, NEW key, NEW changes \in Seq(AtMostOne(Key)), changes # <<>>, changes[1] = <<>>
  PROVE  /\ \A i \in LastNaming(key, Tail(changes)) :
              i + 1 \in LastNaming(key, changes) /\ Tail(changes)[i] = changes[i + 1]
         /\ Naming(key, Tail(changes)) = {} => Naming(key, changes) = {}
<1> DEFINE rest == Tail(changes)
           n == Len(changes)
<1>1. /\ n \in Nat \ {0} /\ Len(rest) = n - 1
      /\ \A i \in 1..Len(rest) : rest[i] = changes[i + 1]
  OBVIOUS
<1> HIDE DEF rest, n
<1>2. ASSUME NEW i \in Naming(key, changes) PROVE i - 1 \in Naming(key, rest)
  <2>1. i \in 1..n /\ i # 1 /\ changes[i] # <<>> /\ Head(changes[i]).key = key
    BY <1>2 DEF Naming, n
  <2>2. i - 1 \in 1..Len(rest) /\ (i - 1) + 1 = i
    BY <1>1, <2>1
  <2>3. rest[i - 1] = changes[i]
    BY <1>1, <2>2
  <2> QED BY <2>1, <2>2, <2>3 DEF Naming
<1>3. ASSUME NEW i \in Naming(key, rest)
      PROVE  i + 1 \in Naming(key, changes) /\ rest[i] = changes[i + 1] /\ i \in Nat
  <2>1. i \in 1..Len(rest) /\ rest[i] # <<>> /\ Head(rest[i]).key = key
    BY <1>3 DEF Naming
  <2>2. i + 1 \in 1..n /\ rest[i] = changes[i + 1]
    BY <1>1, <2>1
  <2> QED BY <2>1, <2>2 DEF Naming, n
<1>4. ASSUME NEW i \in LastNaming(key, rest)
      PROVE  i + 1 \in LastNaming(key, changes) /\ rest[i] = changes[i + 1]
  <2>1. i \in Naming(key, rest) /\ \A j \in Naming(key, rest) : j <= i
    BY <1>4 DEF LastNaming
  <2>2. ASSUME NEW j \in Naming(key, changes) PROVE j <= i + 1
    <3>1. j - 1 <= i
      BY <1>2, <2>1, <2>2
    <3>2. j \in Nat /\ i \in Nat
      BY <1>3, <2>1, <2>2 DEF Naming
    <3> QED BY <3>1, <3>2
  <2> QED BY <1>3, <2>1, <2>2 DEF LastNaming
<1>5. Naming(key, rest) = {} => Naming(key, changes) = {}
  BY <1>2
<1> QED BY <1>4, <1>5 DEF rest

(* The first change of a list is carried out: it was the last of its key   *)
(* when none is left that names it.                                        *)
OneLess(key, changes, rest) ==
  /\ \A i \in LastNaming(key, rest) : i \in LastNaming(key, changes) /\ rest[i] = changes[i]
  /\ Naming(key, rest) = {} =>
       IF key = Head(changes[1]).key THEN 1 \in LastNaming(key, changes)
                                     ELSE Naming(key, changes) = {}

LEMMA FirstDone ==
  ASSUME NEW Key, NEW key, NEW changes \in Seq(AtMostOne(Key)), NEW rest,
         changes # <<>>, changes[1] # <<>>, rest = [changes EXCEPT ![1] = <<>>]
  PROVE  OneLess(key, changes, rest)
<1> DEFINE n == Len(changes)
<1>1. /\ n \in Nat \ {0} /\ Len(rest) = n /\ rest[1] = <<>>
      /\ \A i \in 1..n : i # 1 => rest[i] = changes[i]
  OBVIOUS
<1> HIDE DEF n
<1>2. ASSUME NEW i \in Naming(key, changes)
      PROVE  (i = 1 /\ key = Head(changes[1]).key) \/ i \in Naming(key, rest)
  <2>1. i \in 1..n /\ changes[i] # <<>> /\ Head(changes[i]).key = key
    BY <1>2 DEF Naming, n
  <2>2. CASE i = 1
    BY <2>1, <2>2
  <2>3. CASE i # 1
    BY <1>1, <2>1, <2>3 DEF Naming
  <2> QED BY <2>2, <2>3
<1>3. ASSUME NEW i \in Naming(key, rest)
      PROVE  i \in Naming(key, changes) /\ rest[i] = changes[i] /\ i \in Nat /\ 1 <= i
  <2>1. i \in 1..n /\ rest[i] # <<>> /\ Head(rest[i]).key = key
    BY <1>1, <1>3 DEF Naming
  <2>2. i # 1
    BY <1>1, <2>1
  <2>3. rest[i] = changes[i]
    BY <1>1, <2>1, <2>2
  <2> QED BY <2>1, <2>3 DEF Naming, n
<1>4. ASSUME NEW i \in LastNaming(key, rest)
      PROVE  i \in LastNaming(key, changes) /\ rest[i] = changes[i]
  <2>1. i \in Naming(key, rest) /\ \A j \in Naming(key, rest) : j <= i
    BY <1>4 DEF LastNaming
  <2>2. ASSUME NEW j \in Naming(key, changes) PROVE j <= i
    <3>1. CASE j \in Naming(key, rest)
      BY <2>1, <3>1
    <3>2. CASE j = 1
      BY <1>3, <2>1, <3>2
    <3> QED BY <1>2, <2>2, <3>1, <3>2
  <2> QED BY <1>3, <2>1, <2>2 DEF LastNaming
<1>5. ASSUME Naming(key, rest) = {}, key = Head(changes[1]).key
      PROVE  1 \in LastNaming(key, changes)
  <2>1. 1 \in Naming(key, changes)
    <3>1. 1 \in 1..n
      BY <1>1
    <3>2. changes[1] # <<>> /\ Head(changes[1]).key = key
      BY <1>5
    <3> QED BY <3>1, <3>2 DEF Naming, n
  <2>2. ASSUME NEW j \in Naming(key, changes) PROVE j <= 1
    <3>1. j = 1
      BY <1>2, <1>5, <2>2
    <3> QED BY <3>1
  <2> QED BY <2>1, <2>2 DEF LastNaming
<1>6. ASSUME Naming(key, rest) = {}, key # Head(changes[1]).key
      PROVE  Naming(key, changes) = {}
  BY <1>2, <1>6
<1> QED BY <1>4, <1>5, <1>6 DEF OneLess

LEMMA NothingNamed ==
  ASSUME NEW key
  PROVE  Naming(key, <<>>) = {} /\ LastNaming(key, <<>>) = {}
  BY DEF Naming, LastNaming
-----------------------------------------------------------------------------
(***************************************************************************)
(* The message in hand, from one step of the task to the next.             *)
(***************************************************************************)
LEMMA HeadOfContents ==
  ASSUME NEW list \in Seq(Content), list # <<>>
  PROVE  /\ Head(list) = list[1] /\ list[1] \in Content
         /\ list[1] = [assets |-> list[1].assets, positions |-> list[1].positions]
         /\ list[1].assets \in AtMostOne(Asset) /\ list[1].positions \in AtMostOne(Market)
         /\ AssetChanges(list) # <<>> /\ AssetChanges(list)[1] = list[1].assets
         /\ PositionChanges(list) # <<>> /\ PositionChanges(list)[1] = list[1].positions
<1>1. 1 \in 1..Len(list) /\ Head(list) = list[1] /\ list[1] \in Content
  OBVIOUS
<1>2. /\ list[1] = [assets |-> list[1].assets, positions |-> list[1].positions]
      /\ list[1].assets \in AtMostOne(Asset) /\ list[1].positions \in AtMostOne(Market)
  BY <1>1 DEF Content, AtMostOne
<1> QED BY <1>1, <1>2, ListsOfChanges

LEMMA TailOf ==
  ASSUME NEW S, NEW s \in Seq(S), s # <<>>
  PROVE  Tail(s) = [i \in 1..(Len(s) - 1) |-> s[i + 1]]
<1>1. Tail(s) \in Seq(S) /\ Len(Tail(s)) = Len(s) - 1
  OBVIOUS
<1>2. \A i \in 1..(Len(s) - 1) : Tail(s)[i] = s[i + 1]
  OBVIOUS
<1> DEFINE n == Len(s) - 1
           t == Tail(s)
<1>3. t \in Seq(S) /\ Len(t) = n
  BY <1>1
<1> HIDE DEF t, n
<1>4. t = [i \in 1..n |-> t[i]]
  BY <1>3
<1>5. \A i \in 1..n : t[i] = s[i + 1]
  BY <1>2 DEF t, n
<1>6. t = [i \in 1..n |-> s[i + 1]]
  BY <1>4, <1>5
<1> QED BY <1>6 DEF t, n

LEMMA AssetApplied ==
  ASSUME NEW list \in Seq(Content), list # <<>>, NEW c,
         c = [assets |-> <<>>, positions |-> list[1].positions],
         NEW rest, rest = [list EXCEPT ![1] = c]
  PROVE  /\ rest \in Seq(Content)
         /\ AssetChanges(rest) = [AssetChanges(list) EXCEPT ![1] = <<>>]
         /\ PositionChanges(rest) = PositionChanges(list)
<1>1. /\ list[1] \in Content /\ list[1].assets \in AtMostOne(Asset)
      /\ list[1] = [assets |-> list[1].assets, positions |-> list[1].positions]
      /\ list[1].positions \in AtMostOne(Market)
  BY HeadOfContents
<1>2. c \in Content
  BY <1>1 DEF Content, AtMostOne
<1>3. c.assets = <<>> /\ c.positions = list[1].positions
  OBVIOUS
<1>4. /\ rest \in Seq(Content) /\ Len(rest) = Len(list) /\ Len(list) \in Nat
      /\ \A i \in 1..Len(list) : rest[i] = IF i = 1 THEN c ELSE list[i]
  BY <1>2
<1>5. AssetChanges(rest) = [i \in 1..Len(list) |-> IF i = 1 THEN <<>> ELSE list[i].assets]
  <2>1. \A i \in 1..Len(list) : rest[i].assets = IF i = 1 THEN <<>> ELSE list[i].assets
    BY <1>3, <1>4
  <2>2. AssetChanges(rest) = [i \in 1..Len(list) |-> rest[i].assets]
    BY <1>4 DEF AssetChanges
  <2> QED BY <2>1, <2>2
<1>6. [AssetChanges(list) EXCEPT ![1] = <<>>]
        = [i \in 1..Len(list) |-> IF i = 1 THEN <<>> ELSE list[i].assets]
  BY DEF AssetChanges
<1>7. PositionChanges(rest) = PositionChanges(list)
  <2>1. \A i \in 1..Len(list) : rest[i].positions = list[i].positions
    BY <1>3, <1>4
  <2> QED BY <1>4, <2>1 DEF PositionChanges
<1> QED BY <1>4, <1>5, <1>6, <1>7

LEMMA PositionApplied ==
  ASSUME NEW list \in Seq(Content), list # <<>>, NEW c,
         c = [assets |-> list[1].assets, positions |-> <<>>],
         NEW rest, rest = [list EXCEPT ![1] = c]
  PROVE  /\ rest \in Seq(Content)
         /\ PositionChanges(rest) = [PositionChanges(list) EXCEPT ![1] = <<>>]
         /\ AssetChanges(rest) = AssetChanges(list)
<1>1. /\ list[1] \in Content /\ list[1].assets \in AtMostOne(Asset)
      /\ list[1] = [assets |-> list[1].assets, positions |-> list[1].positions]
      /\ list[1].positions \in AtMostOne(Market)
  BY HeadOfContents
<1>2. c \in Content
  BY <1>1 DEF Content, AtMostOne
<1>3. c.positions = <<>> /\ c.assets = list[1].assets
  OBVIOUS
<1>4. /\ rest \in Seq(Content) /\ Len(rest) = Len(list) /\ Len(list) \in Nat
      /\ \A i \in 1..Len(list) : rest[i] = IF i = 1 THEN c ELSE list[i]
  BY <1>2
<1>5. PositionChanges(rest) = [i \in 1..Len(list) |-> IF i = 1 THEN <<>> ELSE list[i].positions]
  <2>1. \A i \in 1..Len(list) : rest[i].positions = IF i = 1 THEN <<>> ELSE list[i].positions
    BY <1>3, <1>4
  <2>2. PositionChanges(rest) = [i \in 1..Len(list) |-> rest[i].positions]
    BY <1>4 DEF PositionChanges
  <2> QED BY <2>1, <2>2
<1>6. [PositionChanges(list) EXCEPT ![1] = <<>>]
        = [i \in 1..Len(list) |-> IF i = 1 THEN <<>> ELSE list[i].positions]
  BY DEF PositionChanges
<1>7. AssetChanges(rest) = AssetChanges(list)
  <2>1. \A i \in 1..Len(list) : rest[i].assets = list[i].assets
    BY <1>3, <1>4
  <2> QED BY <1>4, <2>1 DEF AssetChanges
<1> QED BY <1>4, <1>5, <1>6, <1>7

LEMMA ContentDone ==
  ASSUME NEW list \in Seq(Content), list # <<>>
  PROVE  /\ Tail(list) \in Seq(Content)
         /\ AssetChanges(Tail(list)) = Tail(AssetChanges(list))
         /\ PositionChanges(Tail(list)) = Tail(PositionChanges(list))
<1>1. /\ Tail(list) \in Seq(Content) /\ Len(Tail(list)) = Len(list) - 1 /\ Len(list) \in Nat \ {0}
      /\ \A i \in 1..(Len(list) - 1) : Tail(list)[i] = list[i + 1]
  OBVIOUS
<1>2. AssetChanges(Tail(list)) = Tail(AssetChanges(list))
  <2>1. Tail(AssetChanges(list)) = [i \in 1..(Len(list) - 1) |-> list[i + 1].assets]
    <3>1. Tail(AssetChanges(list)) = [i \in 1..(Len(AssetChanges(list)) - 1) |-> AssetChanges(list)[i + 1]]
      BY ListsOfChanges, HeadOfContents, TailOf
    <3>2. \A i \in 1..(Len(list) - 1) : AssetChanges(list)[i + 1] = list[i + 1].assets
      BY <1>1, ListsOfChanges
    <3> QED BY <3>1, <3>2, ListsOfChanges
  <2> QED BY <1>1, <2>1 DEF AssetChanges
<1>3. PositionChanges(Tail(list)) = Tail(PositionChanges(list))
  <2>1. Tail(PositionChanges(list)) = [i \in 1..(Len(list) - 1) |-> list[i + 1].positions]
    <3>1. Tail(PositionChanges(list))
            = [i \in 1..(Len(PositionChanges(list)) - 1) |-> PositionChanges(list)[i + 1]]
      BY ListsOfChanges, HeadOfContents, TailOf
    <3>2. \A i \in 1..(Len(list) - 1) : PositionChanges(list)[i + 1] = list[i + 1].positions
      BY <1>1, ListsOfChanges
    <3> QED BY <3>1, <3>2, ListsOfChanges
  <2> QED BY <1>1, <2>1 DEF PositionChanges
<1> QED BY <1>1, <1>2, <1>3
-----------------------------------------------------------------------------
(***************************************************************************)
(* Type correctness.                                                       *)
(***************************************************************************)
LEMMA AccountFields ==
  ASSUME NEW acc \in Account
  PROVE  /\ acc.assets \in [Asset -> Amount] /\ acc.positions \in [Market -> Amount]
         /\ acc.collateral \in Amount
  BY DEF Account

(* What an update says of the account, key by key.                         *)
Updated(acc, list, new) ==
  /\ new \in Account /\ new.collateral = acc.collateral
  /\ \A a \in Asset :
       /\ LastBrings(a, AssetChanges(list), new.assets[a])
       /\ Naming(a, AssetChanges(list)) = {} => new.assets[a] = acc.assets[a]
  /\ \A m \in Market :
       /\ LastBrings(m, PositionChanges(list), new.positions[m])
       /\ Naming(m, PositionChanges(list)) = {} => new.positions[m] = acc.positions[m]

LEMMA AfterUpdateIs ==
  ASSUME NEW acc \in Account, NEW list \in Seq(Content), NEW new, new = AfterUpdate(acc, list)
  PROVE  Updated(acc, list, new)
<1> DEFINE f == After(acc.assets, AssetChanges(list))
           g == After(acc.positions, PositionChanges(list))
<1>1. /\ f \in [Asset -> Amount]
      /\ \A a \in Asset : LastBrings(a, AssetChanges(list), f[a])
      /\ \A a \in Asset : Naming(a, AssetChanges(list)) = {} => f[a] = acc.assets[a]
  BY AccountFields, ListsOfChanges, AfterIs
<1>2. /\ g \in [Market -> Amount]
      /\ \A m \in Market : LastBrings(m, PositionChanges(list), g[m])
      /\ \A m \in Market : Naming(m, PositionChanges(list)) = {} => g[m] = acc.positions[m]
  BY AccountFields, ListsOfChanges, AfterIs
<1>3. new = [assets |-> f, positions |-> g, collateral |-> acc.collateral]
  BY DEF AfterUpdate
<1> HIDE DEF f, g
<1>4. new.assets = f /\ new.positions = g /\ new.collateral = acc.collateral
  BY <1>3
<1>5. new \in Account
  BY <1>1, <1>2, <1>3, AccountFields DEF Account
<1> QED BY <1>1, <1>2, <1>4, <1>5 DEF Updated

LEMMA MissedLess ==
  ASSUME NEW gone \in [assets : SUBSET Asset, positions : SUBSET Market], NEW key
  PROVE  /\ [gone EXCEPT !.assets = @ \ {key}]
              = [assets |-> gone.assets \ {key}, positions |-> gone.positions]
         /\ [gone EXCEPT !.positions = @ \ {key}]
              = [assets |-> gone.assets, positions |-> gone.positions \ {key}]
  OBVIOUS

(* A change of an asset, or of a position, is taken out of the message.    *)
LEMMA ApplyAssetDoes ==
  ASSUME TypeOK, ApplyAsset
  PROVE  \E c \in Change(Asset) :
           /\ AssetChanges(contents) # <<>> /\ AssetChanges(contents)[1] # <<>>
           /\ c = Head(AssetChanges(contents)[1])
           /\ contents' \in Seq(Content)
           /\ AssetChanges(contents') = [AssetChanges(contents) EXCEPT ![1] = <<>>]
           /\ PositionChanges(contents') = PositionChanges(contents)
           /\ free' = [a \in DOMAIN free \cup {c.key} |-> IF a = c.key THEN c.size ELSE free[a]]
           /\ missed' = [assets |-> missed.assets \ {c.key}, positions |-> missed.positions]
           /\ phase = "update" /\ UNCHANGED <<account, phase, openLeft, knownFree, knownPos>>
<1> DEFINE x == contents[1]
           c == Head(x.assets)
           d == [assets |-> Tail(x.assets), positions |-> x.positions]
<1>1. contents \in Seq(Content) /\ contents # <<>> /\ Head(contents).assets # <<>>
  BY DEF ApplyAsset, TypeOK
<1>2. /\ Head(contents) = x /\ x.assets \in AtMostOne(Asset) /\ x.assets # <<>>
      /\ AssetChanges(contents) # <<>> /\ AssetChanges(contents)[1] = x.assets
  BY <1>1, HeadOfContents
<1>3. c \in Change(Asset) /\ Tail(x.assets) = <<>>
  BY <1>2, OneAtMost
<1>4. d = [assets |-> <<>>, positions |-> x.positions]
  BY <1>3
<1>5. /\ contents' = [contents EXCEPT ![1] = d]
      /\ free' = [a \in DOMAIN free \cup {c.key} |-> IF a = c.key THEN c.size ELSE free[a]]
      /\ missed' = [missed EXCEPT !.assets = @ \ {c.key}]
      /\ phase = "update" /\ UNCHANGED <<account, phase, openLeft, knownFree, knownPos>>
  BY <1>2 DEF ApplyAsset
<1> HIDE DEF c, d
<1>6. missed' = [assets |-> missed.assets \ {c.key}, positions |-> missed.positions]
  BY <1>5, MissedLess DEF TypeOK
<1>7. /\ contents' \in Seq(Content)
      /\ AssetChanges(contents') = [AssetChanges(contents) EXCEPT ![1] = <<>>]
      /\ PositionChanges(contents') = PositionChanges(contents)
  BY <1>1, <1>4, <1>5, AssetApplied
<1>8. c = Head(AssetChanges(contents)[1]) /\ AssetChanges(contents)[1] # <<>>
  BY <1>2 DEF c
<1> QED BY <1>2, <1>3, <1>5, <1>6, <1>7, <1>8

LEMMA SendPositionDoes ==
  ASSUME TypeOK, SendPosition
  PROVE  \E c \in Change(Market) :
           /\ PositionChanges(contents) # <<>> /\ PositionChanges(contents)[1] # <<>>
           /\ c = Head(PositionChanges(contents)[1])
           /\ contents' \in Seq(Content)
           /\ PositionChanges(contents') = [PositionChanges(contents) EXCEPT ![1] = <<>>]
           /\ AssetChanges(contents') = AssetChanges(contents)
           /\ knownPos' = [knownPos EXCEPT ![c.key] = c.size]
           /\ missed' = [assets |-> missed.assets, positions |-> missed.positions \ {c.key}]
           /\ phase = "update" /\ UNCHANGED <<account, phase, openLeft, free, knownFree>>
<1> DEFINE x == contents[1]
           c == Head(x.positions)
           d == [assets |-> x.assets, positions |-> Tail(x.positions)]
<1>1. contents \in Seq(Content) /\ contents # <<>> /\ Head(contents).positions # <<>>
  BY DEF SendPosition, TypeOK
<1>2. /\ Head(contents) = x /\ x.positions \in AtMostOne(Market) /\ x.positions # <<>>
      /\ PositionChanges(contents) # <<>> /\ PositionChanges(contents)[1] = x.positions
  BY <1>1, HeadOfContents
<1>3. c \in Change(Market) /\ Tail(x.positions) = <<>>
  BY <1>2, OneAtMost
<1>4. d = [assets |-> x.assets, positions |-> <<>>]
  BY <1>3
<1>5. /\ contents' = [contents EXCEPT ![1] = d]
      /\ knownPos' = [knownPos EXCEPT ![c.key] = c.size]
      /\ missed' = [missed EXCEPT !.positions = @ \ {c.key}]
      /\ phase = "update" /\ UNCHANGED <<account, phase, openLeft, free, knownFree>>
  BY <1>2 DEF SendPosition
<1> HIDE DEF c, d
<1>6. missed' = [assets |-> missed.assets, positions |-> missed.positions \ {c.key}]
  BY <1>5, MissedLess DEF TypeOK
<1>7. /\ contents' \in Seq(Content)
      /\ PositionChanges(contents') = [PositionChanges(contents) EXCEPT ![1] = <<>>]
      /\ AssetChanges(contents') = AssetChanges(contents)
  BY <1>1, <1>4, <1>5, PositionApplied
<1>8. c = Head(PositionChanges(contents)[1]) /\ PositionChanges(contents)[1] # <<>>
  BY <1>2 DEF c
<1> QED BY <1>2, <1>3, <1>5, <1>6, <1>7, <1>8

LEMMA TypeInit == Init => TypeOK
<1> SUFFICES ASSUME Init PROVE TypeOK
  OBVIOUS
<1>1. account \in Account
  BY SubaccountAssumption DEF Init, Account
<1>2. free = EmptyMap /\ DOMAIN EmptyMap = {} /\ EmptyMap \in [{} -> Amount]
  BY DEF Init, EmptyMap
<1> QED BY <1>1, <1>2, SubaccountAssumption DEF Init, TypeOK

LEMMA TypeStep == TypeOK /\ [Next]_vars => TypeOK'
<1> SUFFICES ASSUME TypeOK, [Next]_vars PROVE TypeOK'
  OBVIOUS
<1> USE DEF TypeOK
<1>1. CASE ReceiveInitial
  <2>1. PICK acc \in Account :
          /\ account' = acc
          /\ knownFree' = [knownFree EXCEPT ![Usdc] = UsdcBalance(acc)]
          /\ openLeft' = OpenMarkets(acc)
          /\ missed' = [assets    |-> missed.assets \cup Unsaid(acc).assets,
                        positions |-> (missed.positions \cup Unsaid(acc).positions)
                                        \ OpenMarkets(acc)]
    BY <1>1 DEF ReceiveInitial
  <2>2. UsdcBalance(acc) \in Amount
    BY AccountFields, SubaccountAssumption DEF UsdcBalance
  <2>3. /\ Unsaid(acc).assets \subseteq Asset /\ Unsaid(acc).positions \subseteq Market
        /\ OpenMarkets(acc) \subseteq Market
    BY DEF Unsaid, OpenMarkets
  <2>4. knownFree' \in [Asset -> Amount]
    BY <2>1, <2>2
  <2>5. missed' \in [assets : SUBSET Asset, positions : SUBSET Market]
    BY <2>1, <2>3
  <2>6. /\ phase' = "initial" /\ UNCHANGED <<contents, free, knownPos>>
        /\ phase # "update"
    BY <1>1 DEF ReceiveInitial
  <2>7. account' \in Account /\ openLeft' \subseteq Market
    BY <2>1, <2>3
  <2> QED BY <2>4, <2>5, <2>6, <2>7
<1>2. CASE SendOpenPosition
  <2>1. PICK m \in openLeft : /\ knownPos' = [knownPos EXCEPT ![m] = account.positions[m]]
                              /\ openLeft' = openLeft \ {m}
    BY <1>2 DEF SendOpenPosition
  <2>2. account.positions[m] \in Amount
    BY <2>1, AccountFields
  <2>3. knownPos' \in [Market -> Amount] /\ openLeft' \subseteq Market
    BY <2>1, <2>2
  <2> QED BY <1>2, <2>3 DEF SendOpenPosition
<1>3. CASE InitialDone
  BY <1>3 DEF InitialDone
<1>4. CASE ReceiveUpdate
  <2>1. PICK n \in 1..MaxContents : \E list \in [1..n -> Content] :
          contents' = list /\ account' = AfterUpdate(account, list)
    BY <1>4 DEF ReceiveUpdate
  <2>2. PICK list \in [1..n -> Content] : contents' = list /\ account' = AfterUpdate(account, list)
    BY <2>1
  <2>3. list \in Seq(Content)
    BY <2>1, SubaccountAssumption
  <2>4. account' \in Account
    <3>1. Updated(account, list, account')
      BY <2>2, <2>3, AfterUpdateIs
    <3> QED BY <3>1 DEF Updated
  <2>5. phase = "recv" /\ phase' = "update" /\ UNCHANGED <<missed, openLeft, free, knownFree, knownPos>>
    BY <1>4 DEF ReceiveUpdate
  <2> QED BY <2>2, <2>3, <2>4, <2>5
<1>5. CASE ApplyAsset
  <2>1. PICK c \in Change(Asset) :
          /\ contents' \in Seq(Content)
          /\ free' = [a \in DOMAIN free \cup {c.key} |-> IF a = c.key THEN c.size ELSE free[a]]
          /\ missed' = [assets |-> missed.assets \ {c.key}, positions |-> missed.positions]
          /\ phase = "update" /\ UNCHANGED <<account, phase, openLeft, knownFree, knownPos>>
    BY <1>5, ApplyAssetDoes
  <2>2. c.key \in Asset /\ c.size \in Amount
    BY ChangeFields
  <2>3. DOMAIN free' \subseteq Asset /\ free' \in [DOMAIN free' -> Amount]
    BY <2>1, <2>2
  <2>4. missed' \in [assets : SUBSET Asset, positions : SUBSET Market]
    BY <2>1
  <2> QED BY <2>1, <2>3, <2>4
<1>6. CASE SendPosition
  <2>1. PICK c \in Change(Market) :
          /\ contents' \in Seq(Content)
          /\ knownPos' = [knownPos EXCEPT ![c.key] = c.size]
          /\ missed' = [assets |-> missed.assets, positions |-> missed.positions \ {c.key}]
          /\ phase = "update" /\ UNCHANGED <<account, phase, openLeft, free, knownFree>>
    BY <1>6, SendPositionDoes
  <2>2. knownPos' \in [Market -> Amount]
    BY <2>1, ChangeFields
  <2>3. missed' \in [assets : SUBSET Asset, positions : SUBSET Market]
    BY <2>1
  <2> QED BY <2>1, <2>2, <2>3
<1>7. CASE NextContent
  <2>1. contents' \in Seq(Content)
    BY <1>7 DEF NextContent
  <2> QED BY <1>7, <2>1 DEF NextContent
<1>8. CASE SendBalance
  <2>1. knownFree' = [a \in Asset |-> IF a \in DOMAIN free THEN free[a] ELSE knownFree[a]]
        /\ free' = EmptyMap /\ contents = <<>> /\ phase' = "recv" /\ phase = "update"
        /\ UNCHANGED <<account, missed, openLeft, contents, knownPos>>
    BY <1>8 DEF SendBalance
  <2>2. knownFree' \in [Asset -> Amount]
    BY <2>1
  <2>3. DOMAIN EmptyMap = {} /\ EmptyMap \in [{} -> Amount]
    BY DEF EmptyMap
  <2> QED BY <2>1, <2>2, <2>3
<1>9. CASE ConversionPanics
  <2>1. DOMAIN EmptyMap = {} /\ EmptyMap \in [{} -> Amount]
    BY DEF EmptyMap
  <2> QED BY <1>9, <2>1 DEF ConversionPanics
<1>10. CASE FeedClosed
  BY <1>10 DEF FeedClosed
<1>11. CASE UNCHANGED vars
  BY <1>11 DEF vars
<1> QED BY <1>1, <1>2, <1>3, <1>4, <1>5, <1>6, <1>7, <1>8, <1>9, <1>10, <1>11 DEF Next

(* The variables keep their types: nothing of a message is left over when  *)
(* the task asks for the next one (handle_subaccount_feed, dydx.rs:        *)
(* 199-313).                                                               *)
THEOREM TypeCorrect == Spec => []TypeOK
BY TypeInit, TypeStep, PTL DEF Spec
-----------------------------------------------------------------------------
(***************************************************************************)
(* What the readers of positions know.                                     *)
(***************************************************************************)
LEMMA NothingToCome ==
  ASSUME TypeOK, phase # "update"
  PROVE  /\ \A key : Naming(key, AssetChanges(contents)) = {}
         /\ \A key : LastNaming(key, AssetChanges(contents)) = {}
         /\ \A key : Naming(key, PositionChanges(contents)) = {}
         /\ \A key : LastNaming(key, PositionChanges(contents)) = {}
         /\ free = EmptyMap
<1>1. contents = <<>> /\ free = EmptyMap
  BY DEF TypeOK
<1>2. AssetChanges(<<>>) = <<>> /\ PositionChanges(<<>>) = <<>>
  BY DEF AssetChanges, PositionChanges
<1> QED BY <1>1, <1>2, NothingNamed

LEMMA PositionsInit == Init => PositionsInv
<1> SUFFICES ASSUME Init PROVE PositionsInv
  OBVIOUS
<1>1. TypeOK /\ phase # "update"
  BY TypeInit DEF Init
<1>2. \A m \in Market : PositionKnown(m)
  BY DEF Init, PositionKnown
<1> QED BY <1>1, <1>2, NothingToCome DEF PositionsInv, LastBrings

LEMMA PositionsStep == TypeOK /\ TypeOK' /\ PositionsInv /\ [Next]_vars => PositionsInv'
<1> DEFINE Knows(m) ==
             /\ LastBrings(m, PositionChanges(contents), account.positions[m])
             /\ Naming(m, PositionChanges(contents)) = {} => m \in openLeft \/ PositionKnown(m)
<1> SUFFICES ASSUME TypeOK, TypeOK', PositionsInv, [Next]_vars, phase' # "panicked",
                    NEW m \in Market
             PROVE  Knows(m)'
  BY DEF PositionsInv
<1>a. phase # "panicked" => Knows(m)
  BY DEF PositionsInv
<1>1. CASE ReceiveInitial
  <2>1. PICK acc \in Account :
          /\ account' = acc /\ openLeft' = OpenMarkets(acc)
          /\ missed' = [assets    |-> missed.assets \cup Unsaid(acc).assets,
                        positions |-> (missed.positions \cup Unsaid(acc).positions)
                                        \ OpenMarkets(acc)]
    BY <1>1 DEF ReceiveInitial
  <2>2. phase \in {"subscribed", "recv"} /\ knownPos' = knownPos /\ contents' = contents
    BY <1>1 DEF ReceiveInitial
  <2>3. LastNaming(m, PositionChanges(contents)) = {}
    BY <2>2, NothingToCome
  <2>4. PositionKnown(m)
    <3>1. m \notin openLeft /\ Naming(m, PositionChanges(contents)) = {}
      BY <2>2, NothingToCome DEF TypeOK
    <3> QED BY <1>a, <2>2, <3>1
  <2>5. missed'.positions = (missed.positions \cup Unsaid(acc).positions) \ OpenMarkets(acc)
    BY <2>1
  <2>6. m \in openLeft' \/ PositionKnown(m)'
    <3>1. CASE acc.positions[m] # 0
      BY <2>1, <3>1 DEF OpenMarkets
    <3>2. CASE acc.positions[m] = 0
      <4>1. m \notin OpenMarkets(acc)
        BY <3>2 DEF OpenMarkets
      <4>2. CASE account.positions[m] # 0
        <5>1. m \in Unsaid(acc).positions
          BY <3>2, <4>2 DEF Unsaid
        <5> QED BY <2>5, <4>1, <5>1 DEF PositionKnown
      <4>3. CASE account.positions[m] = 0
        <5>1. knownPos'[m] = account'.positions[m] \/ m \in missed.positions
          BY <2>1, <2>2, <2>4, <3>2, <4>3 DEF PositionKnown
        <5> QED BY <2>5, <4>1, <5>1 DEF PositionKnown
      <4> QED BY <4>2, <4>3
    <3> QED BY <3>1, <3>2
  <2>7. LastBrings(m, PositionChanges(contents), account.positions[m])'
    BY <2>2, <2>3 DEF LastBrings
  <2> QED BY <2>6, <2>7
<1>2. CASE SendOpenPosition
  <2>1. PICK k \in openLeft : /\ knownPos' = [knownPos EXCEPT ![k] = account.positions[k]]
                              /\ openLeft' = openLeft \ {k}
    BY <1>2 DEF SendOpenPosition
  <2>2. phase = "initial" /\ UNCHANGED <<account, missed, contents>>
    BY <1>2 DEF SendOpenPosition
  <2>3. m # k => knownPos'[m] = knownPos[m]
    BY <2>1 DEF TypeOK
  <2>4. m = k => knownPos'[m] = account.positions[m]
    BY <2>1 DEF TypeOK
  <2> QED BY <1>a, <2>1, <2>2, <2>3, <2>4 DEF PositionKnown
<1>3. CASE InitialDone
  BY <1>3, <1>a DEF InitialDone, PositionKnown
<1>4. CASE ReceiveUpdate
  <2>1. PICK n \in 1..MaxContents : \E list \in [1..n -> Content] :
          contents' = list /\ account' = AfterUpdate(account, list)
    BY <1>4 DEF ReceiveUpdate
  <2>2. contents' \in Seq(Content) /\ account' = AfterUpdate(account, contents')
    BY <2>1 DEF TypeOK
  <2>3. phase = "recv" /\ UNCHANGED <<missed, openLeft, knownPos>>
    BY <1>4 DEF ReceiveUpdate
  <2>4. m \in openLeft \/ PositionKnown(m)
    BY <1>a, <2>3, NothingToCome
  <2>5. /\ LastBrings(m, PositionChanges(contents'), account'.positions[m])
        /\ Naming(m, PositionChanges(contents')) = {} => account'.positions[m] = account.positions[m]
    <3>1. account \in Account
      BY DEF TypeOK
    <3>2. Updated(account, contents', account')
      BY <2>2, <3>1, AfterUpdateIs
    <3> QED BY <3>2 DEF Updated
  <2> QED BY <2>3, <2>4, <2>5 DEF PositionKnown
<1>5. CASE ApplyAsset
  <2>1. /\ PositionChanges(contents') = PositionChanges(contents)
        /\ missed'.positions = missed.positions
        /\ phase = "update" /\ UNCHANGED <<account, openLeft, knownPos>>
    <3>1. PICK c \in Change(Asset) :
            /\ PositionChanges(contents') = PositionChanges(contents)
            /\ missed' = [assets |-> missed.assets \ {c.key}, positions |-> missed.positions]
            /\ phase = "update" /\ UNCHANGED <<account, phase, openLeft, knownFree, knownPos>>
      BY <1>5, ApplyAssetDoes
    <3> QED BY <3>1
  <2> QED BY <1>a, <2>1 DEF PositionKnown
<1>6. CASE SendPosition
  <2> DEFINE old == PositionChanges(contents)
             new == PositionChanges(contents')
  <2>1. PICK c \in Change(Market) :
          /\ old # <<>> /\ old[1] # <<>> /\ c = Head(old[1])
          /\ new = [old EXCEPT ![1] = <<>>]
          /\ knownPos' = [knownPos EXCEPT ![c.key] = c.size]
          /\ missed' = [assets |-> missed.assets, positions |-> missed.positions \ {c.key}]
          /\ phase = "update" /\ UNCHANGED <<account, openLeft>>
    BY <1>6, SendPositionDoes
  <2>2. old \in Seq(AtMostOne(Market))
    BY ListsOfChanges DEF TypeOK
  <2>3. /\ LastBrings(m, old, account.positions[m])
        /\ Naming(m, old) = {} => m \in openLeft \/ PositionKnown(m)
    BY <1>a, <2>1
  <2> HIDE DEF old, new
  <2>4. /\ \A i \in LastNaming(m, new) : i \in LastNaming(m, old) /\ new[i] = old[i]
        /\ Naming(m, new) = {} => IF m = c.key THEN 1 \in LastNaming(m, old)
                                               ELSE Naming(m, old) = {}
    <3>1. old # <<>> /\ old[1] # <<>> /\ new = [old EXCEPT ![1] = <<>>]
      BY <2>1
    <3>2. OneLess(m, old, new)
      BY <2>2, <3>1, FirstDone
    <3> QED BY <2>1, <3>2, Zenon DEF OneLess
  <2>5. LastBrings(m, new, account'.positions[m])
    BY <2>1, <2>3, <2>4 DEF LastBrings
  <2>6. ASSUME Naming(m, new) = {} PROVE m \in openLeft' \/ PositionKnown(m)'
    <3>1. CASE m = c.key
      <4>1. c.size = account.positions[m]
        BY <2>1, <2>3, <2>4, <2>6, <3>1 DEF LastBrings
      <4>2. knownPos'[m] = c.size
        BY <2>1, <3>1 DEF TypeOK
      <4> QED BY <2>1, <4>1, <4>2 DEF PositionKnown
    <3>2. CASE m # c.key
      <4>1. m \in openLeft \/ PositionKnown(m)
        BY <2>3, <2>4, <2>6, <3>2
      <4>2. knownPos'[m] = knownPos[m]
        BY <2>1, <3>2 DEF TypeOK
      <4>3. m \in missed.positions => m \in missed'.positions
        BY <2>1, <3>2
      <4> QED BY <2>1, <4>1, <4>2, <4>3 DEF PositionKnown
    <3> QED BY <3>1, <3>2
  <2> QED BY <2>5, <2>6 DEF new
<1>7. CASE NextContent
  <2> DEFINE old == PositionChanges(contents)
             new == PositionChanges(contents')
  <2>1. /\ contents # <<>> /\ contents[1].positions = <<>> /\ contents' = Tail(contents)
        /\ phase = "update" /\ UNCHANGED <<account, missed, openLeft, knownPos>>
    BY <1>7, HeadOfContents DEF NextContent, TypeOK
  <2>2. old \in Seq(AtMostOne(Market)) /\ old # <<>> /\ old[1] = <<>> /\ new = Tail(old)
    BY <2>1, ListsOfChanges, HeadOfContents, ContentDone DEF TypeOK
  <2>3. /\ LastBrings(m, old, account.positions[m])
        /\ Naming(m, old) = {} => m \in openLeft \/ PositionKnown(m)
    BY <1>a, <2>1
  <2> HIDE DEF old, new
  <2>4. /\ \A i \in LastNaming(m, new) : i + 1 \in LastNaming(m, old) /\ new[i] = old[i + 1]
        /\ Naming(m, new) = {} => Naming(m, old) = {}
    <3>1. /\ \A i \in LastNaming(m, Tail(old)) :
               i + 1 \in LastNaming(m, old) /\ Tail(old)[i] = old[i + 1]
          /\ Naming(m, Tail(old)) = {} => Naming(m, old) = {}
      BY <2>2, EmptyFirst, Zenon
    <3> QED BY <2>2, <3>1, Zenon
  <2>5. LastBrings(m, new, account'.positions[m])
    BY <2>1, <2>3, <2>4 DEF LastBrings
  <2> QED BY <2>1, <2>3, <2>4, <2>5 DEF PositionKnown, new
<1>8. CASE SendBalance
  BY <1>8, <1>a DEF SendBalance, PositionKnown
<1>9. CASE ConversionPanics
  BY <1>9 DEF ConversionPanics
<1>10. CASE FeedClosed
  BY <1>10, <1>a DEF FeedClosed, PositionKnown
<1>11. CASE UNCHANGED vars
  BY <1>11, <1>a DEF vars, PositionKnown
<1> QED BY <1>1, <1>2, <1>3, <1>4, <1>5, <1>6, <1>7, <1>8, <1>9, <1>10, <1>11 DEF Next

(* Between messages the readers of the position channel know every open    *)
(* position, through every snapshot, outage and update of however many     *)
(* contents, but for closes that fell into an outage (dydx.rs:231-253,     *)
(* 269-294).                                                               *)
THEOREM PositionsAreKnown == Spec => []PositionsKnown
<1>1. TypeOK /\ PositionsInv => PositionsKnown
  <2> SUFFICES ASSUME TypeOK, PositionsInv, phase \in {"recv", "ended"}, NEW m \in Market
               PROVE  PositionKnown(m)
    BY DEF PositionsKnown, PositionKnown
  <2>1. m \notin openLeft /\ Naming(m, PositionChanges(contents)) = {}
    BY NothingToCome DEF TypeOK
  <2> QED BY <2>1 DEF PositionsInv
<1> QED BY TypeInit, TypeStep, PositionsInit, PositionsStep, <1>1, PTL DEF Spec
-----------------------------------------------------------------------------
(***************************************************************************)
(* What the readers of balances know.                                      *)
(***************************************************************************)
LEMMA BalancesInit == Init => BalancesInv
<1> SUFFICES ASSUME Init PROVE BalancesInv
  OBVIOUS
<1>1. TypeOK /\ phase # "update"
  BY TypeInit DEF Init
<1>2. DOMAIN free = {} /\ \A a \in Asset : BalanceKnown(a)
  BY DEF Init, EmptyMap, BalanceKnown
<1> QED BY <1>1, <1>2, NothingToCome DEF BalancesInv, LastBrings

LEMMA BalancesStep == TypeOK /\ TypeOK' /\ BalancesInv /\ [Next]_vars => BalancesInv'
<1> DEFINE Heard(a) == IF a \in DOMAIN free THEN free[a] = account.assets[a] ELSE BalanceKnown(a)
           Knows(a) == /\ LastBrings(a, AssetChanges(contents), account.assets[a])
                       /\ Naming(a, AssetChanges(contents)) = {} => Heard(a)
<1> SUFFICES ASSUME TypeOK, TypeOK', BalancesInv, [Next]_vars, phase' # "panicked",
                    NEW a \in Asset
             PROVE  Knows(a)'
  BY DEF BalancesInv
<1>a. phase # "panicked" => Knows(a)
  BY DEF BalancesInv
<1>b. ASSUME UNCHANGED <<account, free, knownFree>>, missed'.assets = missed.assets, Heard(a)
      PROVE  Heard(a)'
  BY <1>b DEF BalanceKnown
<1>1. CASE ReceiveInitial
  <2>1. PICK acc \in Account :
          /\ account' = acc
          /\ knownFree' = [knownFree EXCEPT ![Usdc] = UsdcBalance(acc)]
          /\ missed' = [assets    |-> missed.assets \cup Unsaid(acc).assets,
                        positions |-> (missed.positions \cup Unsaid(acc).positions)
                                        \ OpenMarkets(acc)]
    BY <1>1 DEF ReceiveInitial
  <2>2. phase \in {"subscribed", "recv"} /\ free' = free /\ contents' = contents
    BY <1>1 DEF ReceiveInitial
  <2>3. /\ LastNaming(a, AssetChanges(contents)) = {} /\ Naming(a, AssetChanges(contents)) = {}
        /\ DOMAIN free = {}
    BY <2>2, NothingToCome DEF EmptyMap
  <2>4. BalanceKnown(a)
    BY <1>a, <2>2, <2>3
  <2>5. missed'.assets = missed.assets \cup Unsaid(acc).assets
    BY <2>1
  <2>6. BalanceKnown(a)'
    <3>1. CASE a = Usdc
      <4>1. knownFree'[a] = UsdcBalance(acc)
        BY <2>1, <3>1 DEF TypeOK
      <4> QED BY <2>1, <3>1, <4>1 DEF UsdcBalance, BalanceKnown
    <3>2. CASE a # Usdc
      <4>1. knownFree'[a] = knownFree[a]
        BY <2>1, <3>2 DEF TypeOK
      <4>2. CASE acc.assets[a] = account.assets[a]
        BY <2>1, <2>4, <2>5, <3>2, <4>1, <4>2 DEF BalanceKnown
      <4>3. CASE acc.assets[a] # account.assets[a]
        <5>1. a \in Unsaid(acc).assets
          BY <3>2, <4>3 DEF Unsaid
        <5> QED BY <2>5, <5>1 DEF BalanceKnown
      <4> QED BY <4>2, <4>3
    <3> QED BY <3>1, <3>2
  <2>7. LastBrings(a, AssetChanges(contents), account.assets[a])'
    BY <2>2, <2>3 DEF LastBrings
  <2> QED BY <2>2, <2>3, <2>6, <2>7
<1>2. CASE SendOpenPosition
  BY <1>2, <1>a, <1>b DEF SendOpenPosition
<1>3. CASE InitialDone
  BY <1>3, <1>a, <1>b DEF InitialDone
<1>4. CASE ReceiveUpdate
  <2>1. PICK n \in 1..MaxContents : \E list \in [1..n -> Content] :
          contents' = list /\ account' = AfterUpdate(account, list)
    BY <1>4 DEF ReceiveUpdate
  <2>2. contents' \in Seq(Content) /\ account' = AfterUpdate(account, contents')
    BY <2>1 DEF TypeOK
  <2>3. phase = "recv" /\ UNCHANGED <<missed, free, knownFree>>
    BY <1>4 DEF ReceiveUpdate
  <2>4. DOMAIN free = {} /\ BalanceKnown(a)
    BY <1>a, <2>3, NothingToCome DEF EmptyMap
  <2>5. /\ LastBrings(a, AssetChanges(contents'), account'.assets[a])
        /\ Naming(a, AssetChanges(contents')) = {} => account'.assets[a] = account.assets[a]
        /\ account'.collateral = account.collateral
    <3>1. account \in Account
      BY DEF TypeOK
    <3>2. Updated(account, contents', account')
      BY <2>2, <3>1, AfterUpdateIs
    <3> QED BY <3>2 DEF Updated
  <2> QED BY <2>3, <2>4, <2>5 DEF BalanceKnown
<1>5. CASE ApplyAsset
  <2> DEFINE old == AssetChanges(contents)
             new == AssetChanges(contents')
  <2>1. PICK c \in Change(Asset) :
          /\ old # <<>> /\ old[1] # <<>> /\ c = Head(old[1])
          /\ new = [old EXCEPT ![1] = <<>>]
          /\ free' = [k \in DOMAIN free \cup {c.key} |-> IF k = c.key THEN c.size ELSE free[k]]
          /\ missed' = [assets |-> missed.assets \ {c.key}, positions |-> missed.positions]
          /\ phase = "update" /\ UNCHANGED <<account, knownFree>>
    BY <1>5, ApplyAssetDoes
  <2>2. old \in Seq(AtMostOne(Asset))
    BY ListsOfChanges DEF TypeOK
  <2>3. /\ LastBrings(a, old, account.assets[a])
        /\ Naming(a, old) = {} => Heard(a)
    BY <1>a, <2>1
  <2> HIDE DEF old, new
  <2>4. /\ \A i \in LastNaming(a, new) : i \in LastNaming(a, old) /\ new[i] = old[i]
        /\ Naming(a, new) = {} => IF a = c.key THEN 1 \in LastNaming(a, old)
                                               ELSE Naming(a, old) = {}
    <3>1. old # <<>> /\ old[1] # <<>> /\ new = [old EXCEPT ![1] = <<>>]
      BY <2>1
    <3>2. OneLess(a, old, new)
      BY <2>2, <3>1, FirstDone
    <3> QED BY <2>1, <3>2, Zenon DEF OneLess
  <2>5. LastBrings(a, new, account'.assets[a])
    BY <2>1, <2>3, <2>4 DEF LastBrings
  <2>6. ASSUME Naming(a, new) = {} PROVE Heard(a)'
    <3>1. CASE a = c.key
      <4>1. c.size = account.assets[a]
        BY <2>1, <2>3, <2>4, <2>6, <3>1 DEF LastBrings
      <4>2. a \in DOMAIN free' /\ free'[a] = c.size
        BY <2>1, <3>1
      <4> QED BY <2>1, <4>1, <4>2
    <3>2. CASE a # c.key
      <4>1. Heard(a)
        BY <2>3, <2>4, <2>6, <3>2
      <4>2. /\ a \in DOMAIN free' <=> a \in DOMAIN free
            /\ a \in DOMAIN free => free'[a] = free[a]
        BY <2>1, <3>2
      <4>3. a \in missed.assets => a \in missed'.assets
        BY <2>1, <3>2
      <4> QED BY <2>1, <4>1, <4>2, <4>3 DEF BalanceKnown
    <3> QED BY <3>1, <3>2
  <2> QED BY <2>5, <2>6 DEF new
<1>6. CASE SendPosition
  <2>1. /\ AssetChanges(contents') = AssetChanges(contents)
        /\ missed'.assets = missed.assets
        /\ phase = "update" /\ UNCHANGED <<account, free, knownFree>>
    <3>1. PICK c \in Change(Market) :
            /\ AssetChanges(contents') = AssetChanges(contents)
            /\ missed' = [assets |-> missed.assets, positions |-> missed.positions \ {c.key}]
            /\ phase = "update" /\ UNCHANGED <<account, phase, openLeft, free, knownFree>>
      BY <1>6, SendPositionDoes
    <3> QED BY <3>1
  <2> QED BY <1>a, <1>b, <2>1
<1>7. CASE NextContent
  <2> DEFINE old == AssetChanges(contents)
             new == AssetChanges(contents')
  <2>1. /\ contents # <<>> /\ contents[1].assets = <<>> /\ contents' = Tail(contents)
        /\ phase = "update" /\ UNCHANGED <<account, missed, free, knownFree>>
    BY <1>7, HeadOfContents DEF NextContent, TypeOK
  <2>2. old \in Seq(AtMostOne(Asset)) /\ old # <<>> /\ old[1] = <<>> /\ new = Tail(old)
    BY <2>1, ListsOfChanges, HeadOfContents, ContentDone DEF TypeOK
  <2>3. /\ LastBrings(a, old, account.assets[a])
        /\ Naming(a, old) = {} => Heard(a)
    BY <1>a, <2>1
  <2> HIDE DEF old, new
  <2>4. /\ \A i \in LastNaming(a, new) : i + 1 \in LastNaming(a, old) /\ new[i] = old[i + 1]
        /\ Naming(a, new) = {} => Naming(a, old) = {}
    <3>1. /\ \A i \in LastNaming(a, Tail(old)) :
               i + 1 \in LastNaming(a, old) /\ Tail(old)[i] = old[i + 1]
          /\ Naming(a, Tail(old)) = {} => Naming(a, old) = {}
      BY <2>2, EmptyFirst, Zenon
    <3> QED BY <2>2, <3>1, Zenon
  <2>5. LastBrings(a, new, account'.assets[a])
    BY <2>1, <2>3, <2>4 DEF LastBrings
  <2>6. Naming(a, new) = {} => Heard(a)'
    BY <1>b, <2>1, <2>3, <2>4
  <2> QED BY <2>5, <2>6 DEF new
<1>8. CASE SendBalance
  <2>1. /\ knownFree' = [k \in Asset |-> IF k \in DOMAIN free THEN free[k] ELSE knownFree[k]]
        /\ free' = EmptyMap /\ contents = <<>> /\ contents' = contents /\ phase = "update"
        /\ account' = account /\ missed' = missed
    BY <1>8 DEF SendBalance
  <2>2. AssetChanges(contents) = <<>>
    BY <2>1 DEF AssetChanges
  <2>3. Naming(a, AssetChanges(contents)) = {} /\ LastNaming(a, AssetChanges(contents)) = {}
    BY <2>2, NothingNamed
  <2>4. Heard(a)
    BY <1>a, <2>1, <2>3
  <2>5. BalanceKnown(a)'
    BY <2>1, <2>4 DEF BalanceKnown
  <2>6. DOMAIN free' = {}
    BY <2>1 DEF EmptyMap
  <2>7. LastBrings(a, AssetChanges(contents), account.assets[a])'
    BY <2>1, <2>3 DEF LastBrings
  <2> QED BY <2>5, <2>6, <2>7
<1>9. CASE ConversionPanics
  BY <1>9 DEF ConversionPanics
<1>10. CASE FeedClosed
  BY <1>10, <1>a, <1>b DEF FeedClosed
<1>11. CASE UNCHANGED vars
  BY <1>11, <1>a, <1>b DEF vars
<1> QED BY <1>1, <1>2, <1>3, <1>4, <1>5, <1>6, <1>7, <1>8, <1>9, <1>10, <1>11 DEF Next

(* Between messages the readers of the balance channel know the account's  *)
(* assets, of several changes of one asset in an update the last; but for  *)
(* what no snapshot says and for an account without USDC (dydx.rs:208-222, *)
(* 256-305).                                                               *)
THEOREM BalancesAreKnown == Spec => []BalancesKnown
<1>1. TypeOK /\ BalancesInv => BalancesKnown
  <2> SUFFICES ASSUME TypeOK, BalancesInv, phase \in {"recv", "ended"}, NEW a \in Asset
               PROVE  BalanceKnown(a)
    BY DEF BalancesKnown, BalanceKnown
  <2>1. Naming(a, AssetChanges(contents)) = {} /\ DOMAIN free = {}
    BY NothingToCome DEF EmptyMap
  <2> QED BY <2>1 DEF BalancesInv
<1> QED BY TypeInit, TypeStep, BalancesInit, BalancesStep, <1>1, PTL DEF Spec
-----------------------------------------------------------------------------
(***************************************************************************)
(* WatchChannel.                                                           *)
(***************************************************************************)
(***************************************************************************)
(* Numbers and counting.                                                   *)
(***************************************************************************)
(* Every nonempty set of natural numbers has a least element: the          *)
(* intervals from 0 to them are finite and ordered by inclusion.           *)
LEMMA LeastNumber ==
  ASSUME NEW T \in SUBSET Nat, T # {}
  PROVE  \E least \in T : \A y \in T : least <= y
<1> DEFINE Q == {0..x : x \in T}
           R == StrictSubsetOrdering(Nat)
           F == FiniteSubsetsOf(Nat)
<1>1. IsWellFoundedOn(R, F)
  BY FS_StrictSubsetOrderingWellFounded
<1>2. ASSUME NEW x \in T PROVE 0..x \in F
  <2>1. x \in Int /\ 0 \in Int
    OBVIOUS
  <2>2. IsFiniteSet(0..x)
    BY <2>1, FS_Interval
  <2> QED BY <2>2 DEF FiniteSubsetsOf
<1>3. Q \subseteq F /\ Q # {}
  BY <1>2
<1>4. ASSUME NEW x \in T, NEW y \in T, y < x PROVE <<0..y, 0..x>> \in R
  <2>1. 0..y \subseteq 0..x /\ x \in 0..x /\ x \notin 0..y
    BY <1>4
  <2> QED BY <2>1 DEF StrictSubsetOrdering
<1>5. \E q \in Q : \A p \in Q : ~(<<p, q>> \in R)
  <2> HIDE DEF Q, R, F
  <2> QED BY <1>1, <1>3, WFMin
<1>6. PICK x \in T : \A p \in Q : ~(<<p, 0..x>> \in R)
  BY <1>5
<1>7. \A y \in T : ~(y < x)
  BY <1>4, <1>6
<1> QED BY <1>7

(* Induction, with the property as a set of numbers.                       *)
LEMMA NumberInduction ==
  ASSUME NEW S, NEW top \in Nat, 0 \in S, \A i \in 1..top : i - 1 \in S => i \in S
  PROVE  0..top \subseteq S
<1> SUFFICES ASSUME ~(0..top \subseteq S) PROVE FALSE
  OBVIOUS
<1> DEFINE T == {i \in 0..top : i \notin S}
<1>1. T \in SUBSET Nat /\ T # {}
  OBVIOUS
<1> HIDE DEF T
<1>2. PICK least \in T : \A y \in T : least <= y
  BY <1>1, LeastNumber
<1>3. least \in 0..top /\ least \notin S /\ least # 0
  BY <1>2 DEF T
<1>4. least \in 1..top /\ least - 1 \in 0..top /\ ~(least <= least - 1)
  BY <1>3
<1>5. least - 1 \in S
  BY <1>2, <1>4 DEF T
<1> QED BY <1>3, <1>4, <1>5

LEMMA CountTyped ==
  ASSUME NEW items, NEW s, NEW m \in Nat
  PROVE  /\ IsFiniteSet({i \in 1..m : items[i].sym = s})
         /\ Count(items, s, m) \in Nat /\ Count(items, s, m) <= m
<1> DEFINE P == {i \in 1..m : items[i].sym = s}
<1>1. IsFiniteSet(1..m) /\ Cardinality(1..m) <= m
  BY FS_Interval
<1>2. P \in SUBSET (1..m)
  OBVIOUS
<1> HIDE DEF P
<1>3. IsFiniteSet(P) /\ Cardinality(P) <= Cardinality(1..m)
  BY <1>1, <1>2, FS_Subset
<1>4. Cardinality(P) \in Nat /\ Cardinality(1..m) \in Nat
  BY <1>1, <1>3, FS_CardinalityType
<1> QED BY <1>1, <1>3, <1>4 DEF Count, P

(* A place of s is counted, and by all that follow.                        *)
LEMMA CountGrows ==
  ASSUME NEW items, NEW s, NEW m \in Nat, NEW i \in 1..m, items[i].sym = s
  PROVE  Count(items, s, i) \in 1..Count(items, s, m)
<1> DEFINE P(j) == {h \in 1..j : items[h].sym = s}
<1>1. /\ IsFiniteSet(P(i)) /\ IsFiniteSet(P(m))
      /\ Cardinality(P(i)) \in Nat /\ Cardinality(P(m)) \in Nat
  <2>1. i \in Nat
    OBVIOUS
  <2> QED BY <2>1, CountTyped DEF Count
<1>2. P(i) \in SUBSET P(m) /\ i \in P(i)
  OBVIOUS
<1> HIDE DEF P
<1>3. Cardinality(P(i)) <= Cardinality(P(m))
  BY <1>1, <1>2, FS_Subset
<1>4. Cardinality(P(i)) # 0
  BY <1>1, <1>2, FS_EmptySet
<1>5. Cardinality(P(i)) \in 1..Cardinality(P(m))
  BY <1>1, <1>3, <1>4
<1> QED BY <1>5 DEF Count, P

(* Another item is counted if it is of s; the places before it keep their  *)
(* counts.                                                                 *)
LEMMA CountAppend ==
  ASSUME NEW items \in Seq(Item), NEW it \in Item, NEW s
  PROVE  /\ \A i \in 1..Len(items) : Count(Append(items, it), s, i) = Count(items, s, i)
         /\ Count(Append(items, it), s, Len(items) + 1) =
              IF it.sym = s THEN Count(items, s, Len(items)) + 1
                            ELSE Count(items, s, Len(items))
<1> DEFINE more == Append(items, it)
           m == Len(items)
           P == {i \in 1..m : items[i].sym = s}
           N == {i \in 1..m + 1 : more[i].sym = s}
<1>1. m \in Nat /\ more[m + 1] = it /\ \A i \in 1..m : more[i] = items[i]
  OBVIOUS
<1> HIDE DEF more, m
<1>2. ASSUME NEW i \in 1..m PROVE Count(more, s, i) = Count(items, s, i)
  <2>1. {h \in 1..i : more[h].sym = s} = {h \in 1..i : items[h].sym = s}
    BY <1>1
  <2> QED BY <2>1 DEF Count
<1>3. IsFiniteSet(P)
  BY <1>1, CountTyped
<1>4. CASE it.sym = s
  <2>1. N = P \cup {m + 1} /\ m + 1 \notin P
    BY <1>1, <1>4
  <2> HIDE DEF N, P
  <2>2. Cardinality(N) = Cardinality(P) + 1
    BY <1>3, <2>1, FS_AddElement
  <2> QED BY <1>2, <1>4, <2>2 DEF Count, N, P, m, more
<1>5. CASE it.sym # s
  <2>1. N = P
    BY <1>1, <1>5
  <2>2. Cardinality(N) = Cardinality(P)
    BY <2>1
  <2> QED BY <1>2, <1>5, <2>2 DEF Count, m, more
<1> QED BY <1>4, <1>5
-----------------------------------------------------------------------------
(***************************************************************************)
(* Messages and what they list.                                            *)
(***************************************************************************)
Number == 1..MaxItems

(* Where the contents of a message end, in the numbering of the items.     *)
Ends(end, message, items, from, to) ==
  /\ end \in [0..Len(message) -> from..to]
  /\ end[0] = from /\ end[Len(message)] = to
  /\ \A c \in 1..Len(message) :
       /\ end[c] = end[c - 1] + Len(message[c])
       /\ \A k \in 1..Len(message[c]) : items[end[c - 1] + k] = message[c][k]

LEMMA ListsHasEnds ==
  \A message, items, from, to :
    Lists(message, items, from, to) <=> \E end : Ends(end, message, items, from, to)
<1> SUFFICES ASSUME NEW message, NEW items, NEW from, NEW to
             PROVE  /\ Lists(message, items, from, to) =>
                         \E end : Ends(end, message, items, from, to)
                    /\ (\E end : Ends(end, message, items, from, to)) =>
                         Lists(message, items, from, to)
  OBVIOUS
<1>1. ASSUME Lists(message, items, from, to)
      PROVE  \E end : Ends(end, message, items, from, to)
  BY <1>1, Zenon DEF Lists, Ends
<1>2. ASSUME NEW end, Ends(end, message, items, from, to)
      PROVE  Lists(message, items, from, to)
  BY <1>2, Zenon DEF Lists, Ends
<1> QED BY <1>1, <1>2

(* Items that come later do not change what a message lists.               *)
LEMMA ListsStays ==
  ASSUME NEW message \in Seq(Seq(Number)), NEW items \in Seq(Number), NEW more \in Seq(Number),
         NEW from \in Nat, NEW to \in 0..Len(items), Lists(message, items, from, to)
  PROVE  Lists(message, items \o more, from, to)
<1> DEFINE n == Len(message)
           all == items \o more
<1>1. PICK end : Ends(end, message, items, from, to)
  BY ListsHasEnds
<1>2. n \in Nat /\ to \in Nat /\ \A c \in 1..n : Len(message[c]) \in Nat
  OBVIOUS
<1>3. \A k \in 1..Len(items) : all[k] = items[k]
  OBVIOUS
<1>4. /\ end \in [0..n -> from..to] /\ end[0] = from /\ end[n] = to
      /\ \A c \in 1..n : end[c] = end[c - 1] + Len(message[c])
      /\ \A c \in 1..n : \A k \in 1..Len(message[c]) : items[end[c - 1] + k] = message[c][k]
  BY <1>1 DEF Ends
<1> HIDE DEF all
<1>5. ASSUME NEW c \in 1..n, NEW k \in 1..Len(message[c])
      PROVE  all[end[c - 1] + k] = message[c][k]
  <2>1. c - 1 \in 0..n /\ c \in 0..n
    BY <1>2
  <2>a. end[c - 1] \in from..to /\ end[c] \in from..to
    BY <1>4, <2>1
  <2>2. end[c - 1] \in Nat /\ end[c] \in Nat /\ end[c] <= to
    BY <1>2, <2>a
  <2>3. end[c - 1] + k \in 1..Len(items)
    <3> DEFINE u == end[c - 1]
               v == Len(message[c])
    <3>1. u + v <= to /\ u \in Nat /\ v \in Nat /\ k \in 1..v /\ to \in Nat /\ to <= Len(items)
      BY <1>2, <1>4, <2>2
    <3> HIDE DEF u, v
    <3>2. u + k \in 1..Len(items)
      BY <3>1
    <3> QED BY <3>2 DEF u
  <2> QED BY <1>3, <1>4, <2>3
<1>6. Ends(end, message, all, from, to)
  BY <1>4, <1>5 DEF Ends
<1> QED BY <1>6, ListsHasEnds DEF all

(* What a message lists does not depend on where it stands: the ends are   *)
(* the same by induction, and each item is in some content.                *)
LEMMA ListsDetermines ==
  ASSUME NEW message \in Seq(Seq(Number)), NEW x \in Seq(Number), NEW items \in Seq(Number),
         NEW from \in Nat, NEW to \in Nat,
         Lists(message, x, 0, Len(x)), Lists(message, items, from, to)
  PROVE  to = from + Len(x) /\ \A k \in 1..Len(x) : x[k] = items[from + k]
<1> DEFINE n == Len(message)
           L == Len(x)
<1>1. PICK e : Ends(e, message, x, 0, L)
  BY ListsHasEnds
<1>2. PICK f : Ends(f, message, items, from, to)
  BY ListsHasEnds
<1>3. n \in Nat /\ L \in Nat /\ \A c \in 1..n : Len(message[c]) \in Nat
  OBVIOUS
<1>4. /\ e \in [0..n -> 0..L] /\ e[0] = 0 /\ e[n] = L
      /\ \A c \in 1..n : e[c] = e[c - 1] + Len(message[c])
      /\ \A c \in 1..n : \A k \in 1..Len(message[c]) : x[e[c - 1] + k] = message[c][k]
  BY <1>1 DEF Ends
<1>5. /\ f \in [0..n -> from..to] /\ f[0] = from /\ f[n] = to
      /\ \A c \in 1..n : f[c] = f[c - 1] + Len(message[c])
      /\ \A c \in 1..n : \A k \in 1..Len(message[c]) : items[f[c - 1] + k] = message[c][k]
  BY <1>2 DEF Ends
<1> HIDE DEF n, L
<1>6. \A c \in 0..n : e[c] \in Nat /\ f[c] \in Nat
  BY <1>3, <1>4, <1>5
<1>7. 0..n \subseteq {c \in 0..n : f[c] = from + e[c]}
  <2> DEFINE S == {c \in 0..n : f[c] = from + e[c]}
  <2>1. 0 \in S
    BY <1>3, <1>4, <1>5
  <2>2. ASSUME NEW c \in 1..n, c - 1 \in S PROVE c \in S
    <3>1. c \in 0..n /\ c - 1 \in 0..n /\ f[c - 1] = from + e[c - 1]
      BY <1>3, <2>2
    <3>2. f[c] = f[c - 1] + Len(message[c]) /\ e[c] = e[c - 1] + Len(message[c])
      BY <1>4, <1>5
    <3>3. f[c] = from + e[c]
      BY <1>3, <1>6, <3>1, <3>2
    <3> QED BY <3>1, <3>3
  <2> HIDE DEF S
  <2>3. 0..n \subseteq S
    BY <1>3, <2>1, <2>2, NumberInduction
  <2> QED BY <2>3 DEF S
<1>8. to = from + L
  <2>1. n \in 0..n
    BY <1>3
  <2> QED BY <1>4, <1>5, <1>7, <2>1
<1>9. ASSUME NEW k \in 1..L PROVE x[k] = items[from + k]
  <2> DEFINE T == {c \in 0..n : k <= e[c]}
  <2>1. T \in SUBSET Nat /\ n \in T
    BY <1>3, <1>4
  <2> HIDE DEF T
  <2>2. PICK c \in T : \A y \in T : c <= y
    BY <2>1, LeastNumber
  <2>3. c \in 1..n /\ c - 1 \in 0..n /\ k <= e[c]
    BY <1>3, <1>4, <2>2 DEF T
  <2>4. c - 1 \notin T
    BY <2>2, <2>3
  <2>5. e[c - 1] < k /\ e[c - 1] \in Nat
    BY <1>6, <2>3, <2>4 DEF T
  <2> DEFINE j == k - e[c - 1]
  <2>6. e[c] = e[c - 1] + Len(message[c]) /\ Len(message[c]) \in Nat
    BY <1>3, <1>4, <2>3
  <2>7. j \in 1..Len(message[c]) /\ k = e[c - 1] + j
    <3> DEFINE u == e[c - 1]
               v == Len(message[c])
    <3>1. u \in Nat /\ v \in Nat /\ k <= u + v /\ u < k /\ k \in Nat
      BY <1>3, <2>3, <2>5, <2>6
    <3> HIDE DEF u, v
    <3>2. k - u \in 1..v /\ k = u + (k - u)
      BY <3>1
    <3> QED BY <3>2 DEF u, v
  <2>8. f[c - 1] = from + e[c - 1]
    BY <1>7, <2>3
  <2> HIDE DEF j
  <2>9. x[k] = message[c][j] /\ items[f[c - 1] + j] = message[c][j]
    BY <1>4, <1>5, <2>3, <2>7
  <2>10. f[c - 1] + j = from + k
    BY <2>5, <2>7, <2>8
  <2> QED BY <2>9, <2>10
<1> QED BY <1>8, <1>9 DEF L

(* The two ways in which new items come: in one content, or one each.      *)
LEMMA ListsOneContent ==
  ASSUME NEW items \in Seq(Number), NEW new \in Seq(Number)
  PROVE  Lists(<<new>>, items \o new, Len(items), Len(items) + Len(new))
<1> DEFINE a == Len(items)
           k == Len(new)
           all == items \o new
           end == [c \in 0..1 |-> IF c = 0 THEN a ELSE a + k]
<1>1. a \in Nat /\ k \in Nat /\ \A i \in 1..k : all[a + i] = new[i]
  OBVIOUS
<1> HIDE DEF a, all
<1>2. Len(<<new>>) = 1 /\ <<new>>[1] = new
  OBVIOUS
<1>3. end \in [0..1 -> a..a + k] /\ end[0] = a /\ end[1] = a + k
  BY <1>1
<1> HIDE DEF end
<1>4. ASSUME NEW c \in 1..1
      PROVE  /\ end[c] = end[c - 1] + Len(<<new>>[c])
             /\ \A i \in 1..Len(<<new>>[c]) : all[end[c - 1] + i] = <<new>>[c][i]
  <2>1. c = 1 /\ c - 1 = 0
    OBVIOUS
  <2> QED BY <1>1, <1>2, <1>3, <2>1
<1>5. Ends(end, <<new>>, all, a, a + k)
  BY <1>2, <1>3, <1>4 DEF Ends
<1> QED BY <1>5, ListsHasEnds DEF a, all

LEMMA ListsOneEach ==
  ASSUME NEW items \in Seq(Number), NEW k \in Nat, NEW new \in [1..k -> Number]
  PROVE  Lists([i \in 1..k |-> <<new[i]>>], items \o new, Len(items), Len(items) + Len(new))
<1> DEFINE a == Len(items)
           all == items \o new
           message == [i \in 1..k |-> <<new[i]>>]
           end == [c \in 0..k |-> a + c]
<1>1. a \in Nat /\ Len(new) = k /\ \A i \in 1..k : all[a + i] = new[i]
  OBVIOUS
<1>2. Len(message) = k /\ \A c \in 1..k : message[c] = <<new[c]>>
  OBVIOUS
<1> HIDE DEF a, all, message
<1>3. end \in [0..k -> a..a + k] /\ end[0] = a /\ end[k] = a + k
  BY <1>1
<1>4. \A c \in 0..k : end[c] = a + c
  OBVIOUS
<1> HIDE DEF end
<1>5. ASSUME NEW c \in 1..k
      PROVE  /\ end[c] = end[c - 1] + Len(message[c])
             /\ \A i \in 1..Len(message[c]) : all[end[c - 1] + i] = message[c][i]
  <2>a. message[c] = <<new[c]>> /\ c \in 0..k /\ c - 1 \in 0..k
    BY <1>2
  <2>b. Len(<<new[c]>>) = 1 /\ <<new[c]>>[1] = new[c]
    OBVIOUS
  <2>1. c \in 0..k /\ c - 1 \in 0..k /\ Len(message[c]) = 1 /\ message[c][1] = new[c]
    BY <2>a, <2>b
  <2>2. end[c] = a + c /\ end[c - 1] = a + (c - 1)
    BY <1>4, <2>1
  <2>3. end[c] = end[c - 1] + 1 /\ end[c - 1] + 1 = a + c
    BY <1>1, <2>2
  <2> QED BY <1>1, <2>1, <2>3
<1>6. Ends(end, message, all, a, a + k)
  BY <1>2, <1>3, <1>5 DEF Ends
<1>7. Lists(message, all, a, a + k)
  BY <1>6, ListsHasEnds
<1> QED BY <1>1, <1>7 DEF a, all, message

(***************************************************************************)
(* The messages on a feed.                                                 *)
(***************************************************************************)
MessageEnds(end, messages, items, from) ==
  /\ end \in [0..Len(messages) -> from..Len(items)]
  /\ end[0] = from /\ end[Len(messages)] = Len(items)
  /\ \A i \in 1..Len(messages) : Lists(messages[i], items, end[i - 1], end[i])

LEMMA FollowHasEnds ==
  \A messages, items, from :
    Follow(messages, items, from) <=> \E end : MessageEnds(end, messages, items, from)
<1> SUFFICES ASSUME NEW messages, NEW items, NEW from
             PROVE  /\ Follow(messages, items, from) =>
                         \E end : MessageEnds(end, messages, items, from)
                    /\ (\E end : MessageEnds(end, messages, items, from)) =>
                         Follow(messages, items, from)
  OBVIOUS
<1>1. ASSUME Follow(messages, items, from)
      PROVE  \E end : MessageEnds(end, messages, items, from)
  BY <1>1, Zenon DEF Follow, MessageEnds
<1>2. ASSUME NEW end, MessageEnds(end, messages, items, from)
      PROVE  Follow(messages, items, from)
  BY <1>2, Zenon DEF Follow, MessageEnds
<1> QED BY <1>1, <1>2

(* The indexer puts a message with new items on the feed.                  *)
LEMMA FollowPut ==
  ASSUME NEW messages \in Seq(Seq(Seq(Number))), NEW items \in Seq(Number), NEW from \in Nat,
         NEW new \in Seq(Number), NEW message \in Seq(Seq(Number)),
         Follow(messages, items, from),
         Lists(message, items \o new, Len(items), Len(items) + Len(new))
  PROVE  Follow(Append(messages, message), items \o new, from)
<1> DEFINE n == Len(messages)
           a == Len(items)
           l == Len(new)
           all == items \o new
           more == Append(messages, message)
<1>1. PICK end : MessageEnds(end, messages, items, from)
  BY FollowHasEnds
<1> DEFINE later == [i \in 0..n + 1 |-> IF i <= n THEN end[i] ELSE a + l]
<1>2. n \in Nat /\ a \in Nat /\ l \in Nat /\ Len(all) = a + l
  OBVIOUS
<1>3. Len(more) = n + 1 /\ more[n + 1] = message /\ \A i \in 1..n : more[i] = messages[i]
  OBVIOUS
<1>4. /\ end \in [0..n -> from..a] /\ end[0] = from /\ end[n] = a
      /\ \A i \in 1..n : Lists(messages[i], items, end[i - 1], end[i])
  BY <1>1 DEF MessageEnds
<1>5. Lists(message, all, a, a + l)
  OBVIOUS
<1>6. ASSUME NEW i \in 1..n PROVE Lists(messages[i], all, end[i - 1], end[i])
  <2>1. i - 1 \in 0..n /\ i \in 0..n /\ messages[i] \in Seq(Seq(Number))
    BY <1>2
  <2>2. end[i - 1] \in from..a /\ end[i] \in from..a
    BY <1>4, <2>1
  <2>3. end[i - 1] \in Nat /\ end[i] \in 0..Len(items)
    BY <1>2, <2>2
  <2> QED BY <1>4, <2>1, <2>3, ListsStays
<1> HIDE DEF n, a, l, all, more
<1>7. \A i \in 0..n : later[i] = end[i]
  BY <1>2
<1>8. later[n + 1] = a + l /\ later[0] = from
  BY <1>2, <1>4
<1>9. later \in [0..n + 1 -> from..a + l]
  <2>1. \A i \in 0..n : end[i] \in from..a + l
    BY <1>2, <1>4
  <2>2. from \in 0..a
    BY <1>2, <1>4
  <2>3. a + l \in from..a + l
    BY <1>2, <2>2
  <2> QED BY <2>1, <2>3
<1> HIDE DEF later
<1>10. ASSUME NEW i \in 1..n + 1 PROVE Lists(more[i], all, later[i - 1], later[i])
  <2>1. CASE i = n + 1
    <3>1. i - 1 = n /\ n \in 0..n
      BY <1>2, <2>1
    <3>2. later[i - 1] = a /\ later[i] = a + l /\ more[i] = message
      BY <1>3, <1>4, <1>7, <1>8, <2>1, <3>1
    <3> QED BY <1>5, <3>2
  <2>2. CASE i \in 1..n
    <3>1. i - 1 \in 0..n /\ i \in 0..n
      BY <1>2, <2>2
    <3>2. later[i - 1] = end[i - 1] /\ later[i] = end[i] /\ more[i] = messages[i]
      BY <1>3, <1>7, <2>2, <3>1
    <3> QED BY <1>6, <2>2, <3>2
  <2> QED BY <1>2, <2>1, <2>2
<1>11. MessageEnds(later, more, all, from)
  BY <1>2, <1>3, <1>8, <1>9, <1>10 DEF MessageEnds
<1> QED BY <1>11, FollowHasEnds DEF more, all

(* The task takes the first message: its items are the next.               *)
LEMMA FollowTake ==
  ASSUME NEW messages \in Seq(Seq(Seq(Number))), messages # <<>>,
         NEW items \in Seq(Number), NEW from \in Nat, NEW x \in Seq(Number),
         Follow(messages, items, from), Lists(Head(messages), x, 0, Len(x))
  PROVE  /\ from + Len(x) <= Len(items)
         /\ \A k \in 1..Len(x) : x[k] = items[from + k]
         /\ Follow(Tail(messages), items, from + Len(x))
<1> DEFINE n == Len(messages)
           a == Len(items)
           l == Len(x)
           rest == Tail(messages)
<1>1. PICK end : MessageEnds(end, messages, items, from)
  BY FollowHasEnds
<1> DEFINE later == [i \in 0..n - 1 |-> end[i + 1]]
<1>2. n \in Nat \ {0} /\ a \in Nat /\ l \in Nat
  OBVIOUS
<1>3. /\ Len(rest) = n - 1 /\ Head(messages) = messages[1]
      /\ \A i \in 1..n - 1 : rest[i] = messages[i + 1]
  OBVIOUS
<1>4. /\ end \in [0..n -> from..a] /\ end[0] = from /\ end[n] = a
      /\ \A i \in 1..n : Lists(messages[i], items, end[i - 1], end[i])
  BY <1>1 DEF MessageEnds
<1>5. messages[1] \in Seq(Seq(Number)) /\ Lists(messages[1], x, 0, Len(x))
  BY <1>2, <1>3
<1>6. \A i \in 0..n : end[i] \in from..a
  BY <1>4
<1>7. end[1] \in from..a /\ Lists(messages[1], items, from, end[1])
  <2>1. 1 \in 1..n /\ 1 - 1 = 0 /\ 1 \in 0..n
    BY <1>2
  <2> QED BY <1>4, <1>6, <2>1
<1>8. end[1] = from + l /\ \A k \in 1..l : x[k] = items[from + k]
  <2>1. end[1] \in Nat
    BY <1>7
  <2> QED BY <1>5, <1>7, <2>1, ListsDetermines
<1> HIDE DEF n, a, l, rest
<1>9. \A i \in 0..n - 1 : later[i] = end[i + 1]
  OBVIOUS
<1>10. ASSUME NEW i \in 0..n - 1 PROVE end[i + 1] \in from + l..a
  <2> DEFINE S == {j \in 0..n - 1 : from + l <= end[j + 1]}
  <2>1. 0 \in S
    BY <1>2, <1>7, <1>8
  <2>2. ASSUME NEW j \in 1..n - 1, j - 1 \in S PROVE j \in S
    <3>1. j \in 0..n - 1 /\ j + 1 \in 1..n /\ (j + 1) - 1 = j /\ (j - 1) + 1 = j
      BY <1>2
    <3>2. from + l <= end[j] /\ Lists(messages[j + 1], items, end[j], end[j + 1])
      BY <1>4, <2>2, <3>1
    <3>3. PICK e : Ends(e, messages[j + 1], items, end[j], end[j + 1])
      BY <3>2, ListsHasEnds
    <3>4. e[0] = end[j] /\ e[0] \in end[j]..end[j + 1]
      <4>1. messages[j + 1] \in Seq(Seq(Number))
        BY <3>1 DEF n
      <4>2. 0 \in 0..Len(messages[j + 1])
        BY <4>1
      <4> QED BY <3>3, <4>2 DEF Ends
    <3>5. end[j] <= end[j + 1] /\ end[j] \in from..a /\ end[j + 1] \in from..a
      <4>1. j \in 0..n /\ j + 1 \in 0..n
        BY <1>2, <3>1
      <4>2. end[j] \in from..a /\ end[j + 1] \in from..a
        BY <1>6, <4>1
      <4> QED BY <1>2, <3>4, <4>2
    <3>6. from + l <= end[j + 1]
      BY <1>2, <3>2, <3>5
    <3> QED BY <3>1, <3>6
  <2> HIDE DEF S
  <2>3. n - 1 \in Nat
    BY <1>2
  <2>4. 0..n - 1 \subseteq S
    BY <2>1, <2>2, <2>3, NumberInduction
  <2>5. i + 1 \in 0..n
    BY <1>2
  <2>6. from + l <= end[i + 1] /\ end[i + 1] \in from..a
    BY <1>6, <2>4, <2>5 DEF S
  <2> QED BY <1>2, <2>6
<1>11. later \in [0..n - 1 -> from + l..a] /\ later[0] = from + l /\ later[n - 1] = a
  BY <1>2, <1>4, <1>8, <1>10
<1> HIDE DEF later
<1>12. ASSUME NEW i \in 1..n - 1 PROVE Lists(rest[i], items, later[i - 1], later[i])
  <2>1. /\ i - 1 \in 0..n - 1 /\ i \in 0..n - 1 /\ (i - 1) + 1 = i
        /\ i + 1 \in 1..n /\ (i + 1) - 1 = i
    BY <1>2
  <2>2. later[i - 1] = end[i] /\ later[i] = end[i + 1] /\ rest[i] = messages[i + 1]
    BY <1>3, <1>9, <2>1
  <2>3. Lists(messages[i + 1], items, end[i], end[i + 1])
    BY <1>4, <2>1
  <2> QED BY <2>2, <2>3
<1>13. MessageEnds(later, rest, items, from + l)
  BY <1>3, <1>11, <1>12 DEF MessageEnds, a
<1>14. Follow(rest, items, from + l)
  BY <1>13, FollowHasEnds
<1>15. from + l <= a
  BY <1>2, <1>7, <1>8
<1> QED BY <1>8, <1>14, <1>15 DEF rest, l, a
-----------------------------------------------------------------------------
(***************************************************************************)
(* The pipeline of one symbol.                                             *)
(***************************************************************************)
(* `items` have been sent on the channel, `hand` is what the task has of   *)
(* its message, `messages` are on the feed and `all` was announced.        *)
Piped(items, s, hand, all, messages, state) ==
  /\ Count(items, s, Len(items)) + Len(hand) <= Len(all)
  /\ \A i \in 1..Len(items) : items[i].sym = s => items[i].n = all[Count(items, s, i)]
  /\ \A k \in 1..Len(hand) : hand[k] = all[Count(items, s, Len(items)) + k]
  /\ state # "panicked" => Follow(messages, all, Count(items, s, Len(items)) + Len(hand))

LEMMA SentTyped ==
  ASSUME NEW items \in Seq(Item), NEW s
  PROVE  Count(items, s, Len(items)) \in Nat
<1>1. Len(items) \in Nat
  OBVIOUS
<1> QED BY <1>1, CountTyped

LEMMA PipedPut ==
  ASSUME NEW items \in Seq(Item), NEW s, NEW hand \in Seq(Number), NEW all \in Seq(Number),
         NEW messages \in Seq(Seq(Seq(Number))), NEW state,
         Piped(items, s, hand, all, messages, state),
         NEW new \in Seq(Number), NEW message \in Seq(Seq(Number)),
         Lists(message, all \o new, Len(all), Len(all) + Len(new))
  PROVE  Piped(items, s, hand, all \o new, Append(messages, message), state)
<1> DEFINE m == Len(items)
           sent == Count(items, s, m)
           more == all \o new
<1>1. m \in Nat /\ Len(hand) \in Nat /\ Len(all) \in Nat /\ sent \in Nat
  <2>1. m \in Nat /\ Len(hand) \in Nat /\ Len(all) \in Nat
    OBVIOUS
  <2>2. sent \in Nat
    BY SentTyped
  <2> QED BY <2>1, <2>2
<1>2. Len(all) <= Len(more) /\ Len(more) \in Nat /\ \A k \in 1..Len(all) : more[k] = all[k]
  OBVIOUS
<1>3. /\ sent + Len(hand) <= Len(all)
      /\ \A i \in 1..m : items[i].sym = s => items[i].n = all[Count(items, s, i)]
      /\ \A k \in 1..Len(hand) : hand[k] = all[sent + k]
      /\ state # "panicked" => Follow(messages, all, sent + Len(hand))
  BY Zenon DEF Piped
<1>4. state # "panicked" => Follow(Append(messages, message), more, sent + Len(hand))
  <2>1. sent + Len(hand) \in Nat
    BY <1>1
  <2> HIDE DEF sent
  <2> QED BY <1>3, <2>1, FollowPut
<1> HIDE DEF more, sent
<1>5. ASSUME NEW i \in 1..m, items[i].sym = s PROVE items[i].n = more[Count(items, s, i)]
  <2>1. Count(items, s, i) \in 1..sent
    BY <1>1, <1>5, CountGrows DEF sent
  <2>2. Count(items, s, i) \in 1..Len(all)
    BY <1>1, <1>3, <2>1
  <2> QED BY <1>2, <1>3, <1>5, <2>2
<1>6. ASSUME NEW k \in 1..Len(hand) PROVE hand[k] = more[sent + k]
  <2>1. sent + k \in 1..Len(all)
    BY <1>1, <1>3
  <2> QED BY <1>2, <1>3, <2>1
<1>7. sent + Len(hand) <= Len(more)
  BY <1>1, <1>2, <1>3
<1> QED BY <1>4, <1>5, <1>6, <1>7 DEF Piped, more, sent

LEMMA PipedTake ==
  ASSUME NEW items \in Seq(Item), NEW s, NEW all \in Seq(Number),
         NEW messages \in Seq(Seq(Seq(Number))), messages # <<>>, NEW state, state # "panicked",
         Piped(items, s, <<>>, all, messages, state),
         NEW x \in Seq(Number), Lists(Head(messages), x, 0, Len(x)), NEW later
  PROVE  Piped(items, s, x, all, Tail(messages), later)
<1> DEFINE m == Len(items)
           sent == Count(items, s, m)
<1>1. m \in Nat /\ sent \in Nat /\ Len(<<>>) = 0 /\ Len(x) \in Nat /\ Len(all) \in Nat
  <2>1. m \in Nat /\ Len(<<>>) = 0 /\ Len(x) \in Nat /\ Len(all) \in Nat
    OBVIOUS
  <2>2. sent \in Nat
    BY SentTyped
  <2> QED BY <2>1, <2>2
<1>2. /\ \A i \in 1..m : items[i].sym = s => items[i].n = all[Count(items, s, i)]
      /\ Follow(messages, all, sent + Len(<<>>))
  BY DEF Piped
<1> HIDE DEF sent
<1>3. Follow(messages, all, sent)
  <2>1. sent + Len(<<>>) = sent
    BY <1>1
  <2> QED BY <1>2, <2>1
<1>4. /\ sent + Len(x) <= Len(all) /\ \A k \in 1..Len(x) : x[k] = all[sent + k]
      /\ Follow(Tail(messages), all, sent + Len(x))
  BY <1>1, <1>3, FollowTake
<1> QED BY <1>2, <1>4 DEF Piped, sent

LEMMA PipedSend ==
  ASSUME NEW items \in Seq(Item), NEW s, NEW hand \in Seq(Number), hand # <<>>,
         NEW all \in Seq(Number), NEW messages, NEW state,
         Piped(items, s, hand, all, messages, state),
         NEW it \in Item, it.sym = s, it.n = Head(hand)
  PROVE  Piped(Append(items, it), s, Tail(hand), all, messages, state)
<1> DEFINE m == Len(items)
           sent == Count(items, s, m)
           more == Append(items, it)
           rest == Tail(hand)
           h == Len(hand)
<1>1. m \in Nat /\ sent \in Nat /\ h \in Nat \ {0} /\ Len(all) \in Nat
  <2>1. m \in Nat /\ h \in Nat \ {0} /\ Len(all) \in Nat
    OBVIOUS
  <2>2. sent \in Nat
    BY SentTyped
  <2> QED BY <2>1, <2>2
<1>2. Len(more) = m + 1 /\ more[m + 1] = it /\ \A i \in 1..m : more[i] = items[i]
  OBVIOUS
<1>3. Len(rest) = h - 1 /\ Head(hand) = hand[1] /\ \A k \in 1..h - 1 : rest[k] = hand[k + 1]
  OBVIOUS
<1>4. /\ sent + h <= Len(all)
      /\ \A i \in 1..m : items[i].sym = s => items[i].n = all[Count(items, s, i)]
      /\ \A k \in 1..h : hand[k] = all[sent + k]
      /\ state # "panicked" => Follow(messages, all, sent + h)
  BY Zenon DEF Piped
<1>5. /\ \A i \in 1..m : Count(more, s, i) = Count(items, s, i)
      /\ Count(more, s, m + 1) = sent + 1
  BY CountAppend
<1>6. Count(more, s, Len(more)) = sent + 1
  BY <1>2, <1>5
<1>a. it.n = Head(hand)
  OBVIOUS
<1> HIDE DEF more, sent, rest, h, m
<1>7. it.n = all[sent + 1]
  <2>1. 1 \in 1..h
    BY <1>1
  <2> QED BY <1>3, <1>4, <1>a, <2>1
<1>8. ASSUME NEW i \in 1..m + 1, more[i].sym = s PROVE more[i].n = all[Count(more, s, i)]
  <2>1. CASE i = m + 1
    BY <1>2, <1>5, <1>7, <2>1
  <2>2. CASE i \in 1..m
    BY <1>2, <1>4, <1>5, <1>8, <2>2
  <2> QED BY <1>1, <2>1, <2>2
<1>9. ASSUME NEW k \in 1..h - 1 PROVE rest[k] = all[(sent + 1) + k]
  <2>1. k + 1 \in 1..h /\ sent + (k + 1) = (sent + 1) + k
    BY <1>1
  <2> QED BY <1>3, <1>4, <2>1
<1>10. (sent + 1) + Len(rest) = sent + h
  BY <1>1, <1>3
<1> QED BY <1>2, <1>3, <1>4, <1>6, <1>8, <1>9, <1>10, Zenon DEF Piped, more, rest

LEMMA PipedOther ==
  ASSUME NEW items \in Seq(Item), NEW s, NEW hand, NEW all, NEW messages, NEW state,
         Piped(items, s, hand, all, messages, state), NEW it \in Item, it.sym # s
  PROVE  Piped(Append(items, it), s, hand, all, messages, state)
<1> DEFINE m == Len(items)
           sent == Count(items, s, m)
           more == Append(items, it)
<1>1. Len(more) = m + 1 /\ more[m + 1] = it /\ m \in Nat /\ \A i \in 1..m : more[i] = items[i]
  OBVIOUS
<1>2. /\ \A i \in 1..m : Count(more, s, i) = Count(items, s, i)
      /\ Count(more, s, m + 1) = sent
  BY CountAppend
<1>3. /\ sent + Len(hand) <= Len(all)
      /\ \A i \in 1..m : items[i].sym = s => items[i].n = all[Count(items, s, i)]
      /\ \A k \in 1..Len(hand) : hand[k] = all[sent + k]
      /\ state # "panicked" => Follow(messages, all, sent + Len(hand))
  BY Zenon DEF Piped
<1>4. Count(more, s, Len(more)) = sent
  BY <1>1, <1>2
<1>a. it.sym # s
  OBVIOUS
<1> HIDE DEF more, sent, m
<1>5. ASSUME NEW i \in 1..Len(more), more[i].sym = s PROVE more[i].n = all[Count(more, s, i)]
  <2>1. i # m + 1
    BY <1>1, <1>5, <1>a
  <2>2. i \in 1..m
    BY <1>1, <2>1
  <2> QED BY <1>1, <1>2, <1>3, <1>5, <2>2
<1> QED BY <1>3, <1>4, <1>5, Zenon DEF Piped, more
-----------------------------------------------------------------------------
(***************************************************************************)
(* What has been sent on the channel.                                      *)
(***************************************************************************)
Through(got, rest) == [i \in 1..Len(got) |-> got[i].item] \o rest

LEMMA ThroughIs ==
  ASSUME NEW got \in Seq(Taken), NEW rest \in Seq(Item)
  PROVE  /\ Through(got, rest) \in Seq(Item)
         /\ Len(Through(got, rest)) = Len(got) + Len(rest)
         /\ \A i \in 1..Len(got) : Through(got, rest)[i] = got[i].item
         /\ \A i \in 1..Len(rest) : Through(got, rest)[Len(got) + i] = rest[i]
<1> DEFINE first == [i \in 1..Len(got) |-> got[i].item]
<1>1. \A i \in 1..Len(got) : got[i] \in Taken
  OBVIOUS
<1>2. \A i \in 1..Len(got) : got[i].item \in Item
  BY <1>1 DEF Taken
<1>3. first \in Seq(Item) /\ Len(first) = Len(got)
  BY <1>2
<1>4. \A i \in 1..Len(got) : first[i] = got[i].item
  OBVIOUS
<1> HIDE DEF first
<1>5. /\ first \o rest \in Seq(Item) /\ Len(first \o rest) = Len(first) + Len(rest)
      /\ \A i \in 1..Len(first) : (first \o rest)[i] = first[i]
      /\ \A i \in 1..Len(rest) : (first \o rest)[Len(first) + i] = rest[i]
  BY <1>3
<1> QED BY <1>3, <1>4, <1>5 DEF Through, first

LEMMA ThroughReceive ==
  ASSUME NEW got \in Seq(Taken), NEW rest \in Seq(Item), rest # <<>>,
         NEW t \in Taken, t.item = Head(rest)
  PROVE  Through(Append(got, t), Tail(rest)) = Through(got, rest)
<1> DEFINE a == Len(got)
           b == Len(rest)
           got2 == Append(got, t)
           rest2 == Tail(rest)
           old == Through(got, rest)
           new == Through(got2, rest2)
<1>1. a \in Nat /\ b \in Nat \ {0} /\ got2 \in Seq(Taken) /\ rest2 \in Seq(Item)
  OBVIOUS
<1>2. /\ Len(got2) = a + 1 /\ got2[a + 1] = t /\ \A i \in 1..a : got2[i] = got[i]
  OBVIOUS
<1>3. Len(rest2) = b - 1 /\ Head(rest) = rest[1] /\ \A i \in 1..b - 1 : rest2[i] = rest[i + 1]
  OBVIOUS
<1> HIDE DEF got2, rest2, old, new
<1>4. /\ old \in Seq(Item) /\ Len(old) = a + b
      /\ \A i \in 1..a : old[i] = got[i].item
      /\ \A i \in 1..b : old[a + i] = rest[i]
  BY ThroughIs DEF old
<1>5. /\ new \in Seq(Item) /\ Len(new) = (a + 1) + (b - 1)
      /\ \A i \in 1..a + 1 : new[i] = got2[i].item
      /\ \A i \in 1..b - 1 : new[(a + 1) + i] = rest2[i]
  <2>1. /\ new \in Seq(Item) /\ Len(new) = Len(got2) + Len(rest2)
        /\ \A i \in 1..Len(got2) : new[i] = got2[i].item
        /\ \A i \in 1..Len(rest2) : new[Len(got2) + i] = rest2[i]
    BY <1>1, ThroughIs DEF new
  <2> QED BY <1>2, <1>3, <2>1
<1>a. t.item = Head(rest)
  OBVIOUS
<1> HIDE DEF a, b
<1>6. ASSUME NEW i \in 1..a + b PROVE new[i] = old[i]
  <2>1. CASE i \in 1..a
    <3>1. i \in 1..a + 1
      BY <1>1, <2>1
    <3> QED BY <1>2, <1>4, <1>5, <2>1, <3>1
  <2>2. CASE i = a + 1
    <3>1. new[i] = t.item /\ i \in 1..a + 1
      BY <1>1, <1>2, <1>5, <2>2
    <3>2. old[a + 1] = rest[1]
      BY <1>1, <1>4
    <3> QED BY <1>3, <1>a, <2>2, <3>1, <3>2
  <2>3. CASE i \in (a + 2)..(a + b)
    <3> DEFINE j == i - (a + 1)
    <3>1. j \in 1..b - 1 /\ j + 1 \in 1..b /\ (a + 1) + j = i /\ a + (j + 1) = i
      BY <1>1, <2>3
    <3> HIDE DEF j
    <3>2. new[i] = rest2[j] /\ old[i] = rest[j + 1]
      BY <1>4, <1>5, <3>1
    <3> QED BY <1>3, <3>1, <3>2
  <2> QED BY <1>1, <2>1, <2>2, <2>3
<1>7. Len(new) = Len(old) /\ Len(new) = a + b
  BY <1>1, <1>4, <1>5
<1>8. new = old
  BY <1>4, <1>5, <1>6, <1>7, SeqEqual
<1> QED BY <1>8 DEF new, old, got2, rest2

LEMMA ThroughSend ==
  ASSUME NEW got \in Seq(Taken), NEW rest \in Seq(Item), NEW it \in Item
  PROVE  Through(got, Append(rest, it)) = Append(Through(got, rest), it)
<1> DEFINE a == Len(got)
           b == Len(rest)
           rest2 == Append(rest, it)
           old == Through(got, rest)
           new == Through(got, rest2)
           more == Append(old, it)
<1>1. a \in Nat /\ b \in Nat /\ rest2 \in Seq(Item)
  OBVIOUS
<1>2. Len(rest2) = b + 1 /\ rest2[b + 1] = it /\ \A i \in 1..b : rest2[i] = rest[i]
  OBVIOUS
<1> HIDE DEF rest2, old, new
<1>3. /\ old \in Seq(Item) /\ Len(old) = a + b
      /\ \A i \in 1..a : old[i] = got[i].item
      /\ \A i \in 1..b : old[a + i] = rest[i]
  BY ThroughIs DEF old
<1>4. /\ new \in Seq(Item) /\ Len(new) = a + (b + 1)
      /\ \A i \in 1..a : new[i] = got[i].item
      /\ \A i \in 1..b + 1 : new[a + i] = rest2[i]
  <2>1. /\ new \in Seq(Item) /\ Len(new) = a + Len(rest2)
        /\ \A i \in 1..a : new[i] = got[i].item
        /\ \A i \in 1..Len(rest2) : new[a + i] = rest2[i]
    BY <1>1, ThroughIs DEF new
  <2> QED BY <1>2, <2>1
<1>5. /\ more \in Seq(Item) /\ Len(more) = (a + b) + 1 /\ more[(a + b) + 1] = it
      /\ \A i \in 1..a + b : more[i] = old[i]
  BY <1>3
<1> HIDE DEF a, b, more
<1>6. ASSUME NEW i \in 1..(a + b) + 1 PROVE new[i] = more[i]
  <2>1. CASE i \in 1..a
    <3>1. i \in 1..a + b
      BY <1>1, <2>1
    <3> QED BY <1>3, <1>4, <1>5, <2>1, <3>1
  <2>2. CASE i \in (a + 1)..(a + b)
    <3> DEFINE j == i - a
    <3>1. j \in 1..b /\ j \in 1..b + 1 /\ a + j = i /\ i \in 1..a + b
      BY <1>1, <2>2
    <3> HIDE DEF j
    <3>2. new[i] = rest2[j] /\ old[i] = rest[j]
      BY <1>3, <1>4, <3>1
    <3> QED BY <1>2, <1>5, <3>1, <3>2
  <2>3. CASE i = (a + b) + 1
    <3>1. i = a + (b + 1) /\ b + 1 \in 1..b + 1
      BY <1>1, <2>3
    <3>2. new[i] = rest2[b + 1]
      BY <1>4, <3>1
    <3> QED BY <1>2, <1>5, <2>3, <3>2
  <2> QED BY <1>1, <2>1, <2>2, <2>3
<1>7. Len(new) = Len(more) /\ Len(new) = (a + b) + 1
  BY <1>1, <1>4, <1>5
<1>8. new = more
  BY <1>4, <1>5, <1>6, <1>7, SeqEqual
<1> QED BY <1>8 DEF new, more, old, rest2
-----------------------------------------------------------------------------
(***************************************************************************)
(* What the indexer puts on a feed.                                        *)
(***************************************************************************)
(* No number exceeds its place among the items announced, so the bound on  *)
(* their number bounds the numbers too.                                    *)
NumbersInv ==
  \A s \in Symbol : \A i \in 1..Len(announced[s]) : announced[s][i] <= i

(* A message, what it lists and what it may list.                          *)
Puts(s, new, message) ==
  /\ Put(s, new, message)
  /\ new \in Seq(Number) /\ message \in Seq(Seq(Number))
  /\ Lists(message, announced[s] \o new, Len(announced[s]), Len(announced[s]) + Len(new))
  /\ \A i \in 1..Len(new) : new[i] <= Len(announced[s]) + i

LEMMA NewestTyped ==
  ASSUME ChannelTypeOK, NumbersInv, NEW s \in Symbol, NEW newest \in Newest(s)
  PROVE  newest \in 0..Len(announced[s])
<1>1. announced[s] \in Seq(Number) /\ \A i \in 1..Len(announced[s]) : announced[s][i] <= i
  BY DEF ChannelTypeOK, NumbersInv, Number
<1>2. CASE newest = 0
  BY <1>1, <1>2
<1>3. CASE newest # 0
  <2>1. PICK i \in 1..Len(announced[s]) : newest = announced[s][i]
    BY <1>3 DEF Newest
  <2>2. announced[s][i] \in Number /\ announced[s][i] <= i
    BY <1>1, <2>1
  <2>3. Len(announced[s]) \in Nat /\ i \in 1..Len(announced[s])
    BY <1>1, <2>1
  <2> QED BY <2>1, <2>2, <2>3 DEF Number
<1> QED BY <1>2, <1>3

LEMMA ListsOneItem ==
  ASSUME NEW new \in Seq(Number)
  PROVE  <<new>> \in Seq(Seq(Number))
OBVIOUS

LEMMA IndexerPuts ==
  ASSUME ChannelTypeOK, NumbersInv, NEW s \in Symbol, Announce(s) \/ Resubscribe(s)
  PROVE  \E new, message : Puts(s, new, message)
<1> DEFINE a == Len(announced[s])
<1>1. announced[s] \in Seq(Number) /\ a \in Nat /\ MaxItems \in Nat /\ MaxBatch \in Nat
  BY WatchAssumption DEF ChannelTypeOK, Number
<1> HIDE DEF a
<1>2. CASE Announce(s)
  <2>1. PICK newest \in Newest(s), k \in 1..(IF payload = "trades" THEN MaxBatch ELSE 1) :
          \/ Put(s, [i \in 1..k |-> newest + i], <<[i \in 1..k |-> newest + i]>>)
          \/ Put(s, [i \in 1..k |-> newest + i],
                 [i \in 1..k |-> <<[j \in 1..k |-> newest + j][i]>>])
    BY <1>2, Zenon DEF Announce
  <2>2. k \in Nat \ {0} /\ newest \in 0..a
    BY <1>1, <2>1, NewestTyped DEF a
  <2> DEFINE new == [i \in 1..k |-> newest + i]
             one == <<new>>
             each == [i \in 1..k |-> <<new[i]>>]
  <2>3. Len(new) = k /\ \A i \in 1..k : new[i] = newest + i
    BY <2>2
  <2>4. Put(s, new, one) \/ Put(s, new, each)
    BY <2>1, Zenon
  <2> HIDE DEF new, one, each
  <2>5. a + k <= MaxItems
    BY <1>1, <2>3, <2>4 DEF Put, a
  <2>6. \A i \in 1..k : new[i] \in Number /\ new[i] <= a + i
    BY <1>1, <2>2, <2>3, <2>5 DEF Number
  <2>7. new \in [1..k -> Number] /\ new \in Seq(Number)
    <3>1. new = [i \in 1..k |-> new[i]]
      BY DEF new
    <3>2. new \in [1..k -> Number]
      BY <2>6, <3>1
    <3> QED BY <2>2, <3>2
  <2>8. CASE Put(s, new, one)
    <3>1. Lists(one, announced[s] \o new, a, a + Len(new))
      BY <1>1, <2>7, ListsOneContent DEF one, a
    <3>2. one \in Seq(Seq(Number))
      BY <2>7, ListsOneItem DEF one
    <3>3. Puts(s, new, one)
      BY <2>3, <2>6, <2>7, <2>8, <3>1, <3>2 DEF Puts, a
    <3> QED BY <3>3
  <2>9. CASE Put(s, new, each)
    <3>1. Lists(each, announced[s] \o new, a, a + Len(new))
      BY <1>1, <2>2, <2>7, ListsOneEach DEF each, a
    <3>2. \A i \in 1..k : <<new[i]>> \in Seq(Number)
      BY <2>6
    <3>3. each \in Seq(Seq(Number))
      BY <2>2, <3>2 DEF each
    <3>4. Puts(s, new, each)
      BY <2>3, <2>6, <2>7, <2>9, <3>1, <3>3 DEF Puts, a
    <3> QED BY <3>4
  <2> QED BY <2>4, <2>8, <2>9
<1>3. CASE Resubscribe(s)
  <2>1. PICK newest \in Newest(s), k \in 1..MaxBatch :
          \E list \in [1..k -> 1..(newest + 1)] : Put(s, list, <<list>>)
    BY <1>3, Zenon DEF Resubscribe
  <2>2. PICK list \in [1..k -> 1..(newest + 1)] : Put(s, list, <<list>>)
    BY <2>1
  <2>3. k \in Nat \ {0} /\ newest \in 0..a
    BY <1>1, <2>1, NewestTyped DEF a
  <2>4. Len(list) = k /\ \A i \in 1..k : list[i] \in 1..(newest + 1)
    BY <2>3
  <2>5. a + k <= MaxItems
    BY <1>1, <2>2, <2>4 DEF Put, a
  <2>6. \A i \in 1..k : list[i] \in Number /\ list[i] <= a + i
    BY <1>1, <2>3, <2>4, <2>5 DEF Number
  <2>7. list \in Seq(Number)
    BY <2>3, <2>6
  <2>8. Lists(<<list>>, announced[s] \o list, a, a + Len(list))
    BY <1>1, <2>7, ListsOneContent DEF a
  <2>9. <<list>> \in Seq(Seq(Number))
    BY <2>7, ListsOneItem
  <2>10. Puts(s, list, <<list>>)
    BY <2>2, <2>4, <2>6, <2>7, <2>8, <2>9 DEF Puts, a
  <2> QED BY <2>10
<1> QED BY <1>2, <1>3
-----------------------------------------------------------------------------
(***************************************************************************)
(* Types.                                                                  *)
(***************************************************************************)
TypeInv == ChannelTypeOK /\ NumbersInv

LEMMA ChannelTypeInit == ChannelInit => TypeInv
<1> SUFFICES ASSUME ChannelInit PROVE TypeInv
  OBVIOUS
<1>1. \A S : <<>> \in Seq(S)
  OBVIOUS
<1>2. ChannelTypeOK
  BY <1>1 DEF ChannelInit, ChannelTypeOK
<1>3. NumbersInv
  BY DEF ChannelInit, NumbersInv
<1> QED BY <1>2, <1>3 DEF TypeInv

LEMMA PutTypes ==
  ASSUME TypeInv, NEW s \in Symbol, NEW new, NEW message, Puts(s, new, message)
  PROVE  TypeInv'
<1>1. /\ new \in Seq(Number) /\ message \in Seq(Seq(Number))
      /\ \A i \in 1..Len(new) : new[i] <= Len(announced[s]) + i
      /\ feed' = [feed EXCEPT ![s] = Append(@, message)]
      /\ announced' = [announced EXCEPT ![s] = @ \o new]
      /\ UNCHANGED <<payload, open, task, batch, chan, lock, seen>>
  BY DEF Puts, Put, taskVars
<1>2. /\ feed \in [Symbol -> Seq(Seq(Seq(Number)))] /\ announced \in [Symbol -> Seq(Number)]
  BY DEF TypeInv, ChannelTypeOK, Number
<1>3. feed' \in [Symbol -> Seq(Seq(Seq(Number)))]
  <2>1. Append(feed[s], message) \in Seq(Seq(Seq(Number)))
    BY <1>1, <1>2
  <2> QED BY <1>1, <1>2, <2>1
<1>4. announced' \in [Symbol -> Seq(Number)]
  <2>1. announced[s] \o new \in Seq(Number)
    BY <1>1, <1>2
  <2> QED BY <1>1, <1>2, <2>1
<1>5. ChannelTypeOK'
  BY <1>1, <1>3, <1>4 DEF TypeInv, ChannelTypeOK, Number
<1>6. ASSUME NEW r \in Symbol, NEW i \in 1..Len(announced'[r])
      PROVE  announced'[r][i] <= i
  <2>1. CASE r # s
    BY <1>1, <1>2, <1>6, <2>1 DEF TypeInv, NumbersInv
  <2>2. CASE r = s
    <3> DEFINE a == Len(announced[s])
               l == Len(new)
               all == announced[s] \o new
    <3>1. announced'[r] = all
      BY <1>1, <1>2, <2>2
    <3>2. /\ a \in Nat /\ l \in Nat /\ Len(all) = a + l
          /\ \A j \in 1..a : all[j] = announced[s][j]
          /\ \A j \in 1..l : all[a + j] = new[j]
      BY <1>1, <1>2
    <3>3. \A j \in 1..a : announced[s][j] <= j
      BY DEF TypeInv, NumbersInv
    <3>4. \A j \in 1..l : new[j] <= a + j
      BY <1>1
    <3>5. i \in 1..a + l
      BY <1>6, <3>1, <3>2
    <3> HIDE DEF a, l, all
    <3>6. CASE i \in 1..a
      BY <3>1, <3>2, <3>3, <3>6
    <3>7. CASE i \in (a + 1)..(a + l)
      <4>1. i - a \in 1..l /\ a + (i - a) = i
        BY <3>2, <3>7
      <4>2. all[a + (i - a)] = new[i - a] /\ new[i - a] <= a + (i - a)
        BY <3>2, <3>4, <4>1
      <4> QED BY <3>1, <4>1, <4>2
    <3> QED BY <3>2, <3>5, <3>6, <3>7
  <2> QED BY <2>1, <2>2
<1> QED BY <1>5, <1>6 DEF TypeInv, NumbersInv

LEMMA LineTyped ==
  ASSUME NEW items \in Line
  PROVE  items \in Seq(Number)
<1>1. PICK k \in 0..MaxItems : items \in [1..k -> 1..MaxItems]
  BY DEF Line
<1>2. k \in Nat
  BY WatchAssumption
<1>3. items \in [1..k -> Number]
  BY <1>1 DEF Number
<1> QED BY <1>2, <1>3

(* A task takes a message, sends one item or moves on.                     *)
LEMMA TaskTypes ==
  ASSUME TypeInv, NEW s \in Symbol, Task(s)
  PROVE  TypeInv'
<1>1. /\ feed \in [Symbol -> Seq(Seq(Seq(Number)))] /\ announced \in [Symbol -> Seq(Number)]
      /\ task \in [Symbol -> {"recv", "send", "ended", "panicked"}]
      /\ batch \in [Symbol -> Seq(Number)]
      /\ \A r \in Symbol : task[r] # "send" => batch[r] = <<>>
      /\ chan \in Seq(Item)
  BY DEF TypeInv, ChannelTypeOK, Number
<1>2. UNCHANGED <<payload, open, announced, lock, seen>>
  BY Zenon DEF Task, TakeMessage, TakePanics, Receive, SendItem, BatchSent, TakeNone, feedVars
<1>a. feed' \in [Symbol -> Seq(Seq(Seq(Number)))]
  <2>1. CASE feed' = feed
    BY <1>1, <2>1
  <2>2. CASE feed[s] # <<>> /\ feed' = [feed EXCEPT ![s] = Tail(@)]
    <3>1. Tail(feed[s]) \in Seq(Seq(Seq(Number)))
      BY <1>1, <2>2
    <3> QED BY <1>1, <2>2, <3>1
  <2> QED BY <2>1, <2>2, Zenon
       DEF Task, TakeMessage, TakePanics, Receive, SendItem, BatchSent, TakeNone, feedVars
<1>b. task' \in [Symbol -> {"recv", "send", "ended", "panicked"}]
  <2>1. CASE TakeMessage(s) \/ TakePanics(s)
    BY <1>1, <2>1 DEF TakeMessage, TakePanics
  <2>2. CASE SendItem(s)
    BY <1>1, <2>2 DEF SendItem
  <2>3. CASE BatchSent(s)
    BY <1>1, <2>3 DEF BatchSent
  <2>4. CASE TakeNone(s)
    BY <1>1, <2>4 DEF TakeNone
  <2> QED BY <2>1, <2>2, <2>3, <2>4 DEF Task
<1>c. /\ batch' \in [Symbol -> Seq(Number)]
      /\ \A r \in Symbol : task'[r] # "send" => batch'[r] = <<>>
  <2>1. CASE TakeMessage(s)
    <3>1. PICK items \in Line : batch' = [batch EXCEPT ![s] = items]
      BY <2>1 DEF TakeMessage
    <3>2. items \in Seq(Number)
      BY <3>1, LineTyped
    <3> QED BY <1>1, <2>1, <3>1, <3>2 DEF TakeMessage
  <2>2. CASE TakePanics(s)
    BY <1>1, <2>2 DEF TakePanics, Receive
  <2>3. CASE SendItem(s)
    <3>1. Tail(batch[s]) \in Seq(Number)
      BY <1>1, <2>3 DEF SendItem
    <3> QED BY <1>1, <2>3, <3>1 DEF SendItem
  <2>4. CASE BatchSent(s)
    BY <1>1, <2>4 DEF BatchSent
  <2>5. CASE TakeNone(s)
    BY <1>1, <2>5 DEF TakeNone
  <2> QED BY <2>1, <2>2, <2>3, <2>4, <2>5 DEF Task
<1>d. chan' \in Seq(Item)
  <2>1. CASE SendItem(s)
    <3>1. Head(batch[s]) \in Number
      BY <1>1, <2>1 DEF SendItem
    <3>2. [sym |-> s, n |-> Head(batch[s])] \in Item
      BY <3>1 DEF Item, Number
    <3> QED BY <1>1, <2>1, <3>2 DEF SendItem
  <2>2. CASE TakeMessage(s) \/ TakePanics(s) \/ BatchSent(s) \/ TakeNone(s)
    BY <1>1, <2>2 DEF TakeMessage, TakePanics, Receive, BatchSent, TakeNone
  <2> QED BY <2>1, <2>2 DEF Task
<1>3. ChannelTypeOK'
  BY <1>2, <1>a, <1>b, <1>c, <1>d DEF TypeInv, ChannelTypeOK, Number
<1>4. NumbersInv'
  BY <1>2 DEF TypeInv, NumbersInv
<1> QED BY <1>3, <1>4 DEF TypeInv

LEMMA WatchTypes ==
  ASSUME TypeInv, NEW w \in Watcher, Watch(w)
  PROVE  TypeInv'
<1>1. /\ chan \in Seq(Item) /\ lock \in Seq(Watcher) /\ seen \in Seq(Taken)
      /\ \A i, j \in 1..Len(lock) : lock[i] = lock[j] => i = j
  BY DEF TypeInv, ChannelTypeOK
<1>2. UNCHANGED <<payload, feed, open, announced, task, batch>>
  BY DEF Watch, Call, Return, Skip, feedVars, taskVars
<1>3. chan' \in Seq(Item) /\ seen' \in Seq(Taken)
  <2>1. CASE Call(w)
    BY <1>1, <2>1 DEF Call
  <2>2. ASSUME NEW returned \in BOOLEAN, chan # <<>>, Consume(w, returned)
        PROVE  chan' \in Seq(Item) /\ seen' \in Seq(Taken)
    <3>1. Tail(chan) \in Seq(Item) /\ Head(chan) \in Item
      BY <1>1, <2>2
    <3>2. [item |-> Head(chan), by |-> w, returned |-> returned] \in Taken
      BY <3>1 DEF Taken
    <3> QED BY <1>1, <2>2, <3>1, <3>2 DEF Consume
  <2>3. CASE Return(w)
    BY <2>2, <2>3 DEF Return
  <2>4. CASE Skip(w)
    BY <2>2, <2>4 DEF Skip
  <2> QED BY <2>1, <2>3, <2>4 DEF Watch
<1>4. lock' \in Seq(Watcher) /\ \A i, j \in 1..Len(lock') : lock'[i] = lock'[j] => i = j
  <2>1. CASE Call(w)
    <3> DEFINE n == Len(lock)
    <3>1. lock' = Append(lock, w) /\ \A i \in 1..n : lock[i] # w
      BY <2>1 DEF Call
    <3>2. /\ lock' \in Seq(Watcher) /\ Len(lock') = n + 1 /\ lock'[n + 1] = w /\ n \in Nat
          /\ \A i \in 1..n : lock'[i] = lock[i]
      BY <1>1, <3>1
    <3> QED BY <1>1, <3>1, <3>2
  <2>2. CASE Return(w)
    <3> DEFINE n == Len(lock)
    <3>1. lock' = Tail(lock) /\ lock # <<>>
      BY <2>2 DEF Return, Holds
    <3>2. /\ lock' \in Seq(Watcher) /\ Len(lock') = n - 1 /\ n \in Nat \ {0}
          /\ \A i \in 1..n - 1 : lock'[i] = lock[i + 1]
      BY <1>1, <3>1
    <3> HIDE DEF n
    <3>3. ASSUME NEW i \in 1..n - 1, NEW j \in 1..n - 1, lock'[i] = lock'[j] PROVE i = j
      <4>1. i + 1 \in 1..n /\ j + 1 \in 1..n /\ lock[i + 1] = lock[j + 1]
        BY <3>2, <3>3
      <4>2. i + 1 = j + 1
        BY <1>1, <4>1 DEF n
      <4> QED BY <4>2
    <3> QED BY <3>2, <3>3
  <2>3. CASE Skip(w)
    BY <1>1, <2>3 DEF Skip
  <2> QED BY <2>1, <2>2, <2>3 DEF Watch
<1>5. ChannelTypeOK'
  BY <1>2, <1>3, <1>4 DEF TypeInv, ChannelTypeOK
<1>6. NumbersInv'
  BY <1>2 DEF TypeInv, NumbersInv
<1> QED BY <1>5, <1>6 DEF TypeInv

LEMMA ChannelTypeStep == TypeInv /\ [ChannelNext]_channelVars => TypeInv'
<1> SUFFICES ASSUME TypeInv, [ChannelNext]_channelVars PROVE TypeInv'
  OBVIOUS
<1>1. ASSUME NEW s \in Symbol, Announce(s) \/ Resubscribe(s) PROVE TypeInv'
  <2>1. PICK new, message : Puts(s, new, message)
    BY <1>1, IndexerPuts DEF TypeInv
  <2> QED BY <2>1, PutTypes
<1>2. ASSUME NEW s \in Symbol, CloseFeed(s) PROVE TypeInv'
  BY <1>2 DEF TypeInv, ChannelTypeOK, NumbersInv, CloseFeed, taskVars
<1>3. ASSUME NEW s \in Symbol, Task(s) PROVE TypeInv'
  BY <1>3, TaskTypes
<1>4. ASSUME NEW w \in Watcher, Watch(w) PROVE TypeInv'
  BY <1>4, WatchTypes
<1>5. CASE UNCHANGED channelVars
  BY <1>5 DEF TypeInv, ChannelTypeOK, NumbersInv, channelVars, feedVars, taskVars
<1> QED BY <1>1, <1>2, <1>3, <1>4, <1>5, Zenon DEF ChannelNext

(* The variables of the feed tasks, the channel and the mutex keep their   *)
(* types; a watcher waits for the mutex at most once (dydx.rs:348-472).    *)
THEOREM ChannelTypeCorrect == ChannelSpec => []ChannelTypeOK
<1>1. TypeInv => ChannelTypeOK
  BY DEF TypeInv
<1> QED BY ChannelTypeInit, ChannelTypeStep, <1>1, PTL DEF ChannelSpec
-----------------------------------------------------------------------------
(***************************************************************************)
(* Order.                                                                  *)
(***************************************************************************)
PipedInv ==
  /\ TypeInv
  /\ \A s \in Symbol :
       Piped(Through(seen, chan), s, batch[s], announced[s], feed[s], task[s])

LEMMA PipelineTyped ==
  ASSUME TypeInv
  PROVE  /\ Through(seen, chan) \in Seq(Item) /\ chan \in Seq(Item) /\ seen \in Seq(Taken)
         /\ feed \in [Symbol -> Seq(Seq(Seq(Number)))] /\ announced \in [Symbol -> Seq(Number)]
         /\ batch \in [Symbol -> Seq(Number)]
         /\ task \in [Symbol -> {"recv", "send", "ended", "panicked"}]
         /\ \A s \in Symbol : task[s] # "send" => batch[s] = <<>>
<1>1. chan \in Seq(Item) /\ seen \in Seq(Taken)
  BY DEF TypeInv, ChannelTypeOK
<1>2. Through(seen, chan) \in Seq(Item)
  BY <1>1, ThroughIs
<1> QED BY <1>1, <1>2 DEF TypeInv, ChannelTypeOK, Number

LEMMA PipedInit == ChannelInit => PipedInv
<1> SUFFICES ASSUME ChannelInit PROVE PipedInv
  OBVIOUS
<1>1. TypeInv
  BY ChannelTypeInit
<1> SUFFICES ASSUME NEW s \in Symbol
             PROVE  Piped(Through(seen, chan), s, batch[s], announced[s], feed[s], task[s])
  BY <1>1 DEF PipedInv
<1>2. seen = <<>> /\ chan = <<>> /\ batch[s] = <<>> /\ announced[s] = <<>> /\ feed[s] = <<>>
  BY DEF ChannelInit
<1> DEFINE items == Through(seen, chan)
           end == [i \in 0..0 |-> 0]
<1>3. Len(items) = 0
  <2>1. seen \in Seq(Taken) /\ chan \in Seq(Item)
    BY <1>1, PipelineTyped
  <2>2. Len(items) = Len(seen) + Len(chan)
    BY <2>1, ThroughIs
  <2> QED BY <1>2, <2>2
<1> HIDE DEF items
<1>4. Count(items, s, 0) = 0
  <2>1. Count(items, s, 0) \in Nat /\ Count(items, s, 0) <= 0
    BY CountTyped
  <2> QED BY <2>1
<1>5. Len(<<>>) = 0
  OBVIOUS
<1>6. MessageEnds(end, <<>>, <<>>, 0)
  BY <1>5 DEF MessageEnds
<1> HIDE DEF end
<1>7. Follow(<<>>, <<>>, 0)
  BY <1>6, FollowHasEnds
<1>8. Piped(items, s, <<>>, <<>>, <<>>, task[s])
  BY <1>3, <1>4, <1>5, <1>7 DEF Piped
<1> QED BY <1>2, <1>8 DEF items

(* Nothing moves.                                                          *)
LEMMA PipedStays ==
  ASSUME PipedInv, TypeInv', UNCHANGED <<seen, chan, batch, announced, feed, task>>
  PROVE  PipedInv'
BY DEF PipedInv

LEMMA PipedAnnounce ==
  ASSUME PipedInv, TypeInv', NEW s \in Symbol, NEW new, NEW message, Puts(s, new, message)
  PROVE  PipedInv'
<1>1. /\ new \in Seq(Number) /\ message \in Seq(Seq(Number))
      /\ Lists(message, announced[s] \o new, Len(announced[s]), Len(announced[s]) + Len(new))
      /\ feed' = [feed EXCEPT ![s] = Append(@, message)]
      /\ announced' = [announced EXCEPT ![s] = @ \o new]
      /\ UNCHANGED <<task, batch, chan, seen>>
  BY DEF Puts, Put, taskVars
<1>2. TypeInv
  BY DEF PipedInv
<1> DEFINE items == Through(seen, chan)
<1>3. items' = items
  BY <1>1
<1> SUFFICES ASSUME NEW q \in Symbol
             PROVE  Piped(items', q, batch'[q], announced'[q], feed'[q], task'[q])
  BY DEF PipedInv
<1>4. Piped(items, q, batch[q], announced[q], feed[q], task[q]) /\ items \in Seq(Item)
  BY <1>2, PipelineTyped DEF PipedInv
<1>5. /\ feed \in [Symbol -> Seq(Seq(Seq(Number)))] /\ announced \in [Symbol -> Seq(Number)]
      /\ batch \in [Symbol -> Seq(Number)]
  BY <1>2, PipelineTyped
<1> HIDE DEF items
<1>6. CASE q = s
  <2>1. announced'[q] = announced[q] \o new /\ feed'[q] = Append(feed[q], message)
    BY <1>1, <1>5, <1>6
  <2>2. /\ batch[q] \in Seq(Number) /\ announced[q] \in Seq(Number)
        /\ feed[q] \in Seq(Seq(Seq(Number)))
    BY <1>5
  <2>3. Piped(items, q, batch[q], announced[q] \o new, Append(feed[q], message), task[q])
    BY <1>1, <1>4, <1>6, <2>2, PipedPut
  <2> QED BY <1>1, <1>3, <2>1, <2>3
<1>7. CASE q # s
  <2>1. announced'[q] = announced[q] /\ feed'[q] = feed[q]
    BY <1>1, <1>5, <1>7
  <2> QED BY <1>1, <1>3, <1>4, <2>1
<1> QED BY <1>6, <1>7

LEMMA PipedTask ==
  ASSUME PipedInv, TypeInv', NEW s \in Symbol, Task(s)
  PROVE  PipedInv'
<1>1. TypeInv
  BY DEF PipedInv
<1> DEFINE items == Through(seen, chan)
<1> SUFFICES ASSUME NEW q \in Symbol
             PROVE  Piped(items', q, batch'[q], announced'[q], feed'[q], task'[q])
  BY DEF PipedInv
<1>2. Piped(items, q, batch[q], announced[q], feed[q], task[q])
  BY DEF PipedInv
<1>3. items \in Seq(Item) /\ chan \in Seq(Item) /\ seen \in Seq(Taken)
  BY <1>1, PipelineTyped
<1>4. /\ feed \in [Symbol -> Seq(Seq(Seq(Number)))] /\ announced \in [Symbol -> Seq(Number)]
      /\ batch \in [Symbol -> Seq(Number)]
      /\ task \in [Symbol -> {"recv", "send", "ended", "panicked"}]
      /\ \A r \in Symbol : task[r] # "send" => batch[r] = <<>>
  BY <1>1, PipelineTyped
<1>5. /\ batch[q] \in Seq(Number) /\ announced[q] \in Seq(Number)
      /\ feed[q] \in Seq(Seq(Seq(Number)))
  BY <1>4
<1>6. ASSUME Receive(s) PROVE items' = items /\ UNCHANGED announced
  BY <1>6 DEF Receive
<1>7. ASSUME BatchSent(s) \/ TakeNone(s)
      PROVE  items' = items /\ UNCHANGED <<announced, feed, batch>>
  BY <1>7 DEF BatchSent, TakeNone, feedVars
<1>8. CASE TakeMessage(s)
  <2>1. PICK x \in Line : /\ Lists(Head(feed[s]), x, 0, Len(x))
                          /\ batch' = [batch EXCEPT ![s] = x]
    BY <1>8 DEF TakeMessage
  <2>2. x \in Seq(Number)
    BY <2>1, LineTyped
  <2>3. /\ task[s] = "recv" /\ feed[s] # <<>> /\ feed' = [feed EXCEPT ![s] = Tail(@)]
        /\ task' = [task EXCEPT ![s] = "send"] /\ items' = items /\ announced' = announced
    BY <1>6, <1>8 DEF TakeMessage, Receive
  <2> HIDE DEF items
  <2>4. CASE q = s
    <3>1. batch[q] = <<>> /\ task[q] # "panicked" /\ feed[q] # <<>>
      BY <1>4, <2>3, <2>4
    <3>2. Piped(items, q, <<>>, announced[q], feed[q], task[q])
      BY <1>2, <3>1
    <3>3. Lists(Head(feed[q]), x, 0, Len(x))
      BY <2>1, <2>4
    <3>4. Piped(items, q, x, announced[q], Tail(feed[q]), "send")
      BY <1>3, <1>5, <2>2, <3>1, <3>2, <3>3, PipedTake
    <3>5. batch'[q] = x /\ feed'[q] = Tail(feed[q]) /\ task'[q] = "send"
      BY <1>4, <2>1, <2>3, <2>4
    <3> QED BY <2>3, <3>4, <3>5
  <2>5. CASE q # s
    <3>1. batch'[q] = batch[q] /\ feed'[q] = feed[q] /\ task'[q] = task[q]
      BY <1>4, <2>1, <2>3, <2>5
    <3> QED BY <1>2, <2>3, <3>1
  <2> QED BY <2>4, <2>5
<1>9. CASE TakePanics(s)
  <2>1. /\ feed' = [feed EXCEPT ![s] = Tail(@)] /\ task' = [task EXCEPT ![s] = "panicked"]
        /\ items' = items /\ announced' = announced /\ batch' = batch
    BY <1>6, <1>9 DEF TakePanics, Receive
  <2> HIDE DEF items
  <2>2. CASE q = s
    <3>1. task'[q] = "panicked"
      BY <1>4, <2>1, <2>2
    <3> QED BY <1>2, <2>1, <3>1 DEF Piped
  <2>3. CASE q # s
    <3>1. feed'[q] = feed[q] /\ task'[q] = task[q]
      BY <1>4, <2>1, <2>3
    <3> QED BY <1>2, <2>1, <3>1
  <2> QED BY <2>2, <2>3
<1>10. CASE SendItem(s)
  <2> DEFINE it == [sym |-> s, n |-> Head(batch[s])]
  <2>1. /\ batch[s] # <<>> /\ chan' = Append(chan, it) /\ batch' = [batch EXCEPT ![s] = Tail(@)]
        /\ UNCHANGED <<announced, feed, task, seen>>
    BY <1>10 DEF SendItem, feedVars
  <2>2. Head(batch[s]) \in Number
    BY <1>4, <2>1
  <2>3. it \in Item /\ it.sym = s /\ it.n = Head(batch[s])
    BY <2>2 DEF Item, Number
  <2> HIDE DEF it
  <2>4. items' = Append(items, it)
    BY <1>3, <2>1, <2>3, ThroughSend
  <2> HIDE DEF items
  <2>5. CASE q = s
    <3>1. batch[q] # <<>> /\ batch'[q] = Tail(batch[q]) /\ it.sym = q /\ it.n = Head(batch[q])
      BY <1>4, <2>1, <2>3, <2>5
    <3>2. Piped(Append(items, it), q, Tail(batch[q]), announced[q], feed[q], task[q])
      BY <1>2, <1>3, <1>5, <2>3, <3>1, PipedSend
    <3> QED BY <2>1, <2>4, <3>1, <3>2
  <2>6. CASE q # s
    <3>1. batch'[q] = batch[q] /\ it.sym # q
      BY <1>4, <2>1, <2>3, <2>6
    <3>2. Piped(Append(items, it), q, batch[q], announced[q], feed[q], task[q])
      BY <1>2, <1>3, <2>3, <3>1, PipedOther
    <3> QED BY <2>1, <2>4, <3>1, <3>2
  <2> QED BY <2>5, <2>6
<1>11. CASE BatchSent(s) \/ TakeNone(s)
  <2>1. task[q] # "panicked" \/ task'[q] = "panicked"
    BY <1>4, <1>11 DEF BatchSent, TakeNone
  <2> HIDE DEF items
  <2> QED BY <1>2, <1>7, <1>11, <2>1 DEF Piped
<1> QED BY <1>8, <1>9, <1>10, <1>11 DEF Task

LEMMA PipedWatch ==
  ASSUME PipedInv, TypeInv', NEW w \in Watcher, Watch(w)
  PROVE  PipedInv'
<1>1. TypeInv
  BY DEF PipedInv
<1>2. chan \in Seq(Item) /\ seen \in Seq(Taken)
  BY <1>1, PipelineTyped
<1>3. UNCHANGED <<feed, announced, task, batch>>
  BY DEF Watch, Call, Return, Skip, feedVars, taskVars
<1>4. Through(seen, chan)' = Through(seen, chan)
  <2>1. CASE Call(w)
    BY <2>1 DEF Call
  <2>2. ASSUME NEW returned \in BOOLEAN, chan # <<>>, Consume(w, returned)
        PROVE  Through(seen, chan)' = Through(seen, chan)
    <3> DEFINE t == [item |-> Head(chan), by |-> w, returned |-> returned]
    <3>1. Head(chan) \in Item
      BY <1>2, <2>2
    <3>2. t \in Taken /\ t.item = Head(chan)
      BY <3>1 DEF Taken
    <3>3. chan' = Tail(chan) /\ seen' = Append(seen, t)
      BY <2>2 DEF Consume
    <3> HIDE DEF t
    <3>4. Through(Append(seen, t), Tail(chan)) = Through(seen, chan)
      BY <1>2, <2>2, <3>2, ThroughReceive
    <3> QED BY <3>3, <3>4
  <2>3. CASE Return(w)
    BY <2>2, <2>3 DEF Return
  <2>4. CASE Skip(w)
    BY <2>2, <2>4 DEF Skip
  <2> QED BY <2>1, <2>3, <2>4 DEF Watch
<1> QED BY <1>3, <1>4 DEF PipedInv

LEMMA PipedStep == PipedInv /\ [ChannelNext]_channelVars => PipedInv'
<1> SUFFICES ASSUME PipedInv, [ChannelNext]_channelVars PROVE PipedInv'
  OBVIOUS
<1>1. TypeInv /\ TypeInv'
  BY ChannelTypeStep DEF PipedInv
<1>2. ASSUME NEW s \in Symbol, Announce(s) \/ Resubscribe(s) PROVE PipedInv'
  <2>1. PICK new, message : Puts(s, new, message)
    BY <1>1, <1>2, IndexerPuts DEF TypeInv
  <2> QED BY <1>1, <2>1, PipedAnnounce
<1>3. ASSUME NEW s \in Symbol, CloseFeed(s) PROVE PipedInv'
  BY <1>1, <1>3, PipedStays DEF CloseFeed, taskVars
<1>4. ASSUME NEW s \in Symbol, Task(s) PROVE PipedInv'
  BY <1>1, <1>4, PipedTask
<1>5. ASSUME NEW w \in Watcher, Watch(w) PROVE PipedInv'
  BY <1>1, <1>5, PipedWatch
<1>6. CASE UNCHANGED channelVars
  BY <1>1, <1>6, PipedStays DEF channelVars, feedVars, taskVars
<1> QED BY <1>2, <1>3, <1>4, <1>5, <1>6, Zenon DEF ChannelNext

(* From the feeds to the watchers every channel keeps the order of each    *)
(* symbol, whatever the tasks of the other symbols and the watchers do     *)
(* (dydx.rs:78-132, 164-197, 410-472).                                     *)
THEOREM PipelineKeepsOrder == ChannelSpec => []PipelineIsFifo
<1>1. PipedInv => PipelineIsFifo
  <2> SUFFICES ASSUME PipedInv, NEW s \in Symbol
               PROVE  Piped(Sent, s, batch[s], announced[s], feed[s], task[s])
    BY Zenon DEF PipelineIsFifo, Piped
  <2>1. Sent = Through(seen, chan)
    BY DEF Sent, Through
  <2> QED BY <2>1 DEF PipedInv
<1> QED BY PipedInit, PipedStep, <1>1, PTL DEF ChannelSpec
=============================================================================
