--------------------- MODULE HyperliquidListenerProofs ---------------------
(***************************************************************************)
(* Theorems and proofs about HyperliquidListener, for every set of calls   *)
(* of listen, every number of coins and every size of the ring.            *)
(***************************************************************************)
EXTENDS HyperliquidListener, TLAPS

Message == [n : Item, parses : BOOLEAN]
Frame == [channel : {"trades", "bbo", "other"}, items : Seq(Message)]

(***************************************************************************)
(* The invariant.                                                          *)
(***************************************************************************)
(* What a listener still has to go through: the rest of the message it is  *)
(* publishing, then the messages of its connection.                        *)
Chunks(rest, w) == [j \in 0..Len(w) |-> IF j = 0 THEN rest ELSE w[j].items]

Rising(s) == \A i, k \in 1..Len(s) : i < k => s[i].n < s[k].n

Before(s, t) == \A i \in 1..Len(s), k \in 1..Len(t) : s[i].n < t[k].n

(* The numbers rise from the first item of ch[0] to the last of ch[m].     *)
InLine(ch, m, top) ==
  /\ \A j \in 0..m : Rising(ch[j])
  /\ \A j, k \in 0..m : j < k => Before(ch[j], ch[k])
  /\ \A j \in 0..m : \A i \in 1..Len(ch[j]) : ch[j][i].n <= top

Increases(arr, top) ==
  /\ \A i, k \in 1..Len(arr) : i < k => arr[i] < arr[k]
  /\ \A i \in 1..Len(arr) : arr[i] <= top

Starts(pub, arr) == Len(pub) <= Len(arr) /\ \A i \in 1..Len(pub) : pub[i] = arr[i]

(* What arrived after the first p is what parses of the chunks.            *)
Awaits(ch, m, arr, p) ==
  /\ \A j \in 0..m : \A i \in 1..Len(ch[j]) :
       ch[j][i].parses => \E a \in (p + 1)..Len(arr) : arr[a] = ch[j][i].n
  /\ \A a \in (p + 1)..Len(arr) :
       \E j \in 0..m : \E i \in 1..Len(ch[j]) : ch[j][i].parses /\ ch[j][i].n = arr[a]

Keeps(ch, m, arr, pub, top) ==
  /\ InLine(ch, m, top)
  /\ Increases(arr, top)
  /\ Starts(pub, arr)
  /\ Awaits(ch, m, arr, Len(pub))

(* Both sides of a connection, in types.                                   *)
WireTyped ==
  /\ frames \in 0..MaxFrames
  /\ sent \in [Listener -> Nat]
  /\ \A l \in Listener : sent[l] <= frames * MaxTrades
  /\ wire \in [Listener -> Seq(Frame)]
  /\ \A l \in Listener : \A j \in 1..Len(wire[l]) :
       /\ wire[l][j].channel = "other" => wire[l][j].items = <<>>
       /\ wire[l][j].channel = "bbo" => Len(wire[l][j].items) = 1
  /\ arrived \in [Listener -> Seq(Item)]
  /\ published \in [Listener -> Seq(Item)]

InStep ==
  \A l \in Listener :
    Keeps(Chunks(trades[l], wire[l]), Len(wire[l]), arrived[l], published[l], sent[l])

ListenInv == TypeOK /\ WireTyped /\ InStep

(* A connection brings nothing before it is made and after it has ended.   *)
Connections ==
  \A l \in Listener :
    /\ pc[l] \in {"new", "connect"} => conn[l] = "none"
    /\ conn[l] = "none" => arrived[l] = <<>>
    /\ pc[l] = "panicked" => conn[l] # "open"

DrainInv == ListenInv /\ Connections /\ DrainedBeforePanic
-----------------------------------------------------------------------------
(***************************************************************************)
(* What a listener goes through, in turn.                                  *)
(***************************************************************************)
LEMMA ItemsAreNumbers == Item \subseteq Nat
<1>1. MaxFrames * MaxTrades \in Nat
  BY ListenerAssumption
<1> QED BY <1>1 DEF Item

LEMMA MessageFields ==
  ASSUME NEW s \in Seq(Message), NEW i \in 1..Len(s)
  PROVE  s[i] \in Message /\ s[i].n \in Nat /\ s[i].n \in Item /\ s[i].parses \in BOOLEAN
<1>1. s[i] \in Message
  OBVIOUS
<1> QED BY <1>1, ItemsAreNumbers DEF Message

LEMMA NumbersOfItems ==
  ASSUME NEW s \in Seq(Item)
  PROVE  s \in Seq(Nat) /\ Len(s) \in Nat /\ \A a \in 1..Len(s) : s[a] \in Nat
<1>1. Len(s) \in Nat
  OBVIOUS
<1>2. ASSUME NEW a \in 1..Len(s) PROVE s[a] \in Nat
  <2>1. s[a] \in Item
    OBVIOUS
  <2> QED BY <2>1, ItemsAreNumbers
<1>3. s \in Seq(Nat)
  BY <1>1, <1>2
<1> QED BY <1>1, <1>2, <1>3

LEMMA BothAre ==
  ASSUME NEW s \in Seq(Nat), NEW t \in Seq(Nat)
  PROVE  /\ Len(s \o t) = Len(s) + Len(t)
         /\ \A i \in 1..Len(s) : (s \o t)[i] = s[i]
         /\ \A j \in 1..Len(t) : (s \o t)[Len(s) + j] = t[j]
<1>1. Len(s \o t) = Len(s) + Len(t) /\ \A i \in 1..Len(s) : (s \o t)[i] = s[i]
  OBVIOUS
<1>2. ASSUME NEW j \in 1..Len(t) PROVE (s \o t)[Len(s) + j] = t[j]
  <2>1. Len(s) + j \in 1..(Len(s) + Len(t)) /\ Len(s) + j > Len(s) /\ Len(s) + j - Len(s) = j
    OBVIOUS
  <2> QED BY <2>1
<1> QED BY <1>1, <1>2

LEMMA TailIs ==
  ASSUME NEW s \in Seq(Message), s # <<>>
  PROVE  /\ Tail(s) \in Seq(Message) /\ Len(s) \in Nat \ {0} /\ Len(Tail(s)) = Len(s) - 1
         /\ Head(s) = s[1]
         /\ \A i \in 1..Len(Tail(s)) : Tail(s)[i] = s[i + 1]
OBVIOUS

LEMMA OneItem ==
  ASSUME NEW s \in Seq(Message), Len(s) = 1
  PROVE  s # <<>> /\ Tail(s) = <<>>
<1>1. s # <<>>
  <2>1. Len(<<>>) = 0
    OBVIOUS
  <2> QED BY <2>1
<1>2. Tail(s) \in Seq(Message) /\ Len(Tail(s)) = 0
  BY <1>1, TailIs
<1>3. ASSUME NEW t \in Seq(Message), Len(t) = 0 PROVE t = <<>>
  BY <1>3
<1> QED BY <1>1, <1>2, <1>3

(* The next message is looked at. *)
LEMMA ShiftKeeps ==
  ASSUME NEW m \in Nat, NEW ch, NEW ch2, NEW arr, NEW pub, NEW top,
         Keeps(ch, m + 1, arr, pub, top), ch[0] = <<>>,
         \A j \in 0..m : ch2[j] = ch[j + 1]
  PROVE  Keeps(ch2, m, arr, pub, top)
<1>1. \A j \in 0..m : j + 1 \in 0..(m + 1)
  OBVIOUS
<1>2. InLine(ch2, m, top)
  <2>1. InLine(ch, m + 1, top)
    BY DEF Keeps
  <2>2. \A j \in 0..m : Rising(ch2[j])
    BY <1>1, <2>1 DEF InLine
  <2>3. \A j, k \in 0..m : j < k => Before(ch2[j], ch2[k])
    BY <1>1, <2>1 DEF InLine
  <2>4. \A j \in 0..m : \A i \in 1..Len(ch2[j]) : ch2[j][i].n <= top
    BY <1>1, <2>1 DEF InLine
  <2> QED BY <2>2, <2>3, <2>4 DEF InLine
<1>3. Awaits(ch2, m, arr, Len(pub))
  <2>1. Awaits(ch, m + 1, arr, Len(pub))
    BY DEF Keeps
  <2> DEFINE p == Len(pub)
             q == Len(arr)
  <2> HIDE DEF p, q
  <2>2. ASSUME NEW j \in 0..m, NEW i \in 1..Len(ch2[j]), ch2[j][i].parses
        PROVE  \E a \in (p + 1)..q : arr[a] = ch2[j][i].n
    <3>1. j + 1 \in 0..(m + 1) /\ ch2[j] = ch[j + 1]
      BY <1>1
    <3>2. \A k \in 1..Len(ch[j + 1]) :
            ch[j + 1][k].parses => \E a \in (p + 1)..q : arr[a] = ch[j + 1][k].n
      BY <2>1, <3>1 DEF Awaits, p, q
    <3> QED BY <2>2, <3>1, <3>2
  <2>3. ASSUME NEW a \in (p + 1)..q
        PROVE  \E j \in 0..m : \E i \in 1..Len(ch2[j]) : ch2[j][i].parses /\ ch2[j][i].n = arr[a]
    <3>1. PICK j \in 0..(m + 1) : \E i \in 1..Len(ch[j]) : ch[j][i].parses /\ ch[j][i].n = arr[a]
      BY <2>1, <2>3 DEF Awaits, p, q
    <3>2. j # 0
      <4>1. Len(ch[0]) = 0
        OBVIOUS
      <4> QED BY <3>1, <4>1
    <3>3. j - 1 \in 0..m /\ ch2[j - 1] = ch[j]
      BY <3>2
    <3> QED BY <3>1, <3>3
  <2> QED BY <2>2, <2>3 DEF Awaits, p, q
<1> QED BY <1>2, <1>3 DEF Keeps

(* The numbers of the rest of a message are in line. *)
LEMMA TailInLine ==
  ASSUME NEW m \in Nat, NEW ch, NEW ch2, NEW top, InLine(ch, m, top),
         ch[0] \in Seq(Message), ch[0] # <<>>, ch2[0] = Tail(ch[0]),
         \A j \in 1..m : ch2[j] = ch[j]
  PROVE  InLine(ch2, m, top)
<1>1. \A i \in 1..Len(ch2[0]) : i + 1 \in 1..Len(ch[0]) /\ ch2[0][i] = ch[0][i + 1]
  BY TailIs
<1>2. ASSUME NEW j \in 0..m PROVE Rising(ch2[j])
  <2>1. Rising(ch[j])
    BY DEF InLine
  <2>2. CASE j = 0
    <3> SUFFICES ASSUME NEW i \in 1..Len(ch2[0]), NEW k \in 1..Len(ch2[0]), i < k
                 PROVE  ch2[0][i].n < ch2[0][k].n
      BY <2>2 DEF Rising
    <3>1. /\ i + 1 \in 1..Len(ch[0]) /\ ch2[0][i] = ch[0][i + 1]
          /\ k + 1 \in 1..Len(ch[0]) /\ ch2[0][k] = ch[0][k + 1]
          /\ i + 1 < k + 1
      BY <1>1
    <3>2. ch[0][i + 1].n < ch[0][k + 1].n
      BY <2>1, <2>2, <3>1 DEF Rising
    <3> QED BY <3>1, <3>2
  <2>3. CASE j # 0
    BY <2>1, <2>3
  <2> QED BY <2>2, <2>3
<1>3. ASSUME NEW j \in 0..m, NEW k \in 0..m, j < k PROVE Before(ch2[j], ch2[k])
  <2>1. Before(ch[j], ch[k]) /\ ch2[k] = ch[k]
    BY <1>3 DEF InLine
  <2>2. CASE j = 0
    BY <1>1, <2>1, <2>2 DEF Before
  <2>3. CASE j # 0
    BY <2>1, <2>3
  <2> QED BY <2>2, <2>3
<1>4. ASSUME NEW j \in 0..m PROVE \A i \in 1..Len(ch2[j]) : ch2[j][i].n <= top
  <2>1. \A i \in 1..Len(ch[j]) : ch[j][i].n <= top
    BY DEF InLine
  <2>2. CASE j = 0
    BY <1>1, <2>1, <2>2
  <2>3. CASE j # 0
    BY <2>1, <2>3
  <2> QED BY <2>2, <2>3
<1> QED BY <1>2, <1>3, <1>4 DEF InLine

(* An item that does not parse is skipped. *)
LEMMA SkipKeeps ==
  ASSUME NEW m \in Nat, NEW ch, NEW ch2, NEW arr, NEW pub, NEW top,
         Keeps(ch, m, arr, pub, top),
         ch[0] \in Seq(Message), ch[0] # <<>>, ~Head(ch[0]).parses, ch2[0] = Tail(ch[0]),
         \A j \in 1..m : ch2[j] = ch[j]
  PROVE  Keeps(ch2, m, arr, pub, top)
<1>1. InLine(ch2, m, top)
  BY TailInLine DEF Keeps
<1>2. /\ \A i \in 1..Len(ch2[0]) : i + 1 \in 1..Len(ch[0]) /\ ch2[0][i] = ch[0][i + 1]
      /\ \A i \in 2..Len(ch[0]) : i - 1 \in 1..Len(ch2[0]) /\ ch2[0][i - 1] = ch[0][i]
      /\ ~ch[0][1].parses
  BY TailIs
<1>3. Awaits(ch2, m, arr, Len(pub))
  <2>1. Awaits(ch, m, arr, Len(pub))
    BY DEF Keeps
  <2> DEFINE p == Len(pub)
             q == Len(arr)
  <2> HIDE DEF p, q
  <2>2. ASSUME NEW j \in 0..m, NEW i \in 1..Len(ch2[j]), ch2[j][i].parses
        PROVE  \E a \in (p + 1)..q : arr[a] = ch2[j][i].n
    <3>1. \A k \in 1..Len(ch[j]) : ch[j][k].parses => \E a \in (p + 1)..q : arr[a] = ch[j][k].n
      BY <2>1 DEF Awaits, p, q
    <3>2. CASE j = 0
      <4>1. i + 1 \in 1..Len(ch[0]) /\ ch2[0][i] = ch[0][i + 1]
        BY <1>2, <3>2
      <4>2. ch[0][i + 1].parses
        BY <2>2, <3>2, <4>1
      <4> QED BY <3>1, <3>2, <4>1, <4>2
    <3>3. CASE j # 0
      BY <2>2, <3>1, <3>3
    <3> QED BY <3>2, <3>3
  <2>3. ASSUME NEW a \in (p + 1)..q
        PROVE  \E j \in 0..m : \E i \in 1..Len(ch2[j]) : ch2[j][i].parses /\ ch2[j][i].n = arr[a]
    <3>1. PICK j \in 0..m : \E i \in 1..Len(ch[j]) : ch[j][i].parses /\ ch[j][i].n = arr[a]
      BY <2>1, <2>3 DEF Awaits, p, q
    <3>2. PICK i \in 1..Len(ch[j]) : ch[j][i].parses /\ ch[j][i].n = arr[a]
      BY <3>1
    <3>3. CASE j = 0
      <4>1. i # 1
        BY <1>2, <3>2, <3>3
      <4>2. i \in 2..Len(ch[0])
        BY <3>3, <4>1
      <4>3. i - 1 \in 1..Len(ch2[0]) /\ ch2[0][i - 1] = ch[0][i]
        BY <1>2, <4>2
      <4>4. ch2[0][i - 1].parses /\ ch2[0][i - 1].n = arr[a] /\ 0 \in 0..m
        BY <3>2, <3>3, <4>3
      <4> QED BY <4>3, <4>4
    <3>4. CASE j # 0
      BY <3>2, <3>4
    <3> QED BY <3>3, <3>4
  <2> QED BY <2>2, <2>3 DEF Awaits, p, q
<1> QED BY <1>1, <1>3 DEF Keeps

(* The first item is the smallest. *)
LEMMA FirstIsSmallest ==
  ASSUME NEW m \in Nat, NEW ch, NEW top, InLine(ch, m, top),
         \A j \in 0..m : ch[j] \in Seq(Message), ch[0] # <<>>
  PROVE  \A j \in 0..m : \A i \in 1..Len(ch[j]) :
           /\ (j = 0 /\ i = 1) \/ ch[0][1].n < ch[j][i].n
           /\ ch[j][i].n \in Nat
<1> SUFFICES ASSUME NEW j \in 0..m, NEW i \in 1..Len(ch[j])
             PROVE  /\ (j = 0 /\ i = 1) \/ ch[0][1].n < ch[j][i].n
                    /\ ch[j][i].n \in Nat
  OBVIOUS
<1>1. ch[j][i].n \in Nat
  BY MessageFields
<1>2. 0 \in 0..m /\ 1 \in 1..Len(ch[0])
  <2>1. ch[0] \in Seq(Message) /\ 0 \in 0..m
    OBVIOUS
  <2> QED BY <2>1, TailIs
<1>3. CASE j = 0
  <2>1. CASE i = 1
    BY <1>1, <1>3, <2>1
  <2>2. CASE i # 1
    <3>1. Rising(ch[0]) /\ 1 < i
      BY <1>2, <2>2 DEF InLine
    <3>2. ch[0][1].n < ch[0][i].n
      BY <1>2, <1>3, <3>1 DEF Rising
    <3> QED BY <1>1, <1>3, <3>2
  <2> QED BY <2>1, <2>2
<1>4. CASE j # 0
  <2>1. Before(ch[0], ch[j])
    BY <1>2, <1>4 DEF InLine
  <2>2. ch[0][1].n < ch[j][i].n
    BY <1>2, <2>1 DEF Before
  <2> QED BY <1>1, <2>2
<1> QED BY <1>3, <1>4

(* An item that parses is the next of what arrived. *)
LEMMA FirstIsNext ==
  ASSUME NEW m \in Nat, NEW ch, NEW arr \in Seq(Item), NEW pub \in Seq(Item), NEW top,
         Keeps(ch, m, arr, pub, top), \A j \in 0..m : ch[j] \in Seq(Message),
         ch[0] # <<>>, Head(ch[0]).parses
  PROVE  Len(pub) < Len(arr) /\ arr[Len(pub) + 1] = ch[0][1].n
<1> DEFINE p == Len(pub)
           q == Len(arr)
           h == ch[0][1].n
<1>1. /\ p \in Nat /\ q \in Nat /\ 0 \in 0..m /\ \A a \in 1..q : arr[a] \in Nat
  BY NumbersOfItems
<1>2. 1 \in 1..Len(ch[0]) /\ ch[0][1].parses
  <2>1. ch[0] \in Seq(Message)
    BY <1>1
  <2> QED BY <2>1, TailIs
<1>3. /\ Awaits(ch, m, arr, p) /\ InLine(ch, m, top)
      /\ \A i, k \in 1..q : i < k => arr[i] < arr[k]
  BY DEF Keeps, Increases
<1> HIDE DEF p, q
<1>4. PICK a \in (p + 1)..q : arr[a] = h
  BY <1>1, <1>2, <1>3 DEF Awaits, q
<1>5. p + 1 \in (p + 1)..q /\ p + 1 \in 1..q /\ p + 1 <= a /\ a \in 1..q /\ p < q
  BY <1>1, <1>4
<1>6. PICK j \in 0..m : \E i \in 1..Len(ch[j]) : ch[j][i].parses /\ ch[j][i].n = arr[p + 1]
  BY <1>3, <1>5 DEF Awaits, q
<1>7. PICK i \in 1..Len(ch[j]) : ch[j][i].n = arr[p + 1]
  BY <1>6
<1>8. ((j = 0 /\ i = 1) \/ h < ch[j][i].n) /\ h \in Nat
  BY <1>1, <1>2, <1>3, FirstIsSmallest
<1> HIDE DEF h
<1>9. h <= arr[p + 1] /\ arr[p + 1] \in Nat
  <2>1. arr[p + 1] \in Nat
    BY <1>1, <1>5
  <2>2. CASE j = 0 /\ i = 1
    <3>1. h = arr[p + 1]
      BY <1>7, <2>2 DEF h
    <3> QED BY <1>8, <3>1
  <2>3. CASE h < ch[j][i].n
    <3>1. h < arr[p + 1]
      BY <1>7, <2>3
    <3> QED BY <1>8, <2>1, <3>1
  <2> QED BY <1>8, <2>2, <2>3
<1>10. arr[p + 1] <= h
  <2>1. CASE a = p + 1
    BY <1>4, <1>8, <2>1
  <2>2. CASE a # p + 1
    <3>1. p + 1 < a
      BY <1>1, <1>4, <2>2
    <3>2. arr[p + 1] < arr[a]
      BY <1>3, <1>5, <3>1
    <3> QED BY <1>4, <1>8, <1>9, <3>2
  <2> QED BY <2>1, <2>2
<1>11. arr[p + 1] = h
  BY <1>8, <1>9, <1>10
<1> QED BY <1>5, <1>11 DEF p, q, h

LEMMA PublishKeeps ==
  ASSUME NEW m \in Nat, NEW ch, NEW ch2, NEW arr \in Seq(Item), NEW pub \in Seq(Item), NEW top,
         Keeps(ch, m, arr, pub, top), \A j \in 0..m : ch[j] \in Seq(Message),
         ch[0] # <<>>, Head(ch[0]).parses, ch2[0] = Tail(ch[0]),
         \A j \in 1..m : ch2[j] = ch[j]
  PROVE  Keeps(ch2, m, arr, Append(pub, Head(ch[0]).n), top)
<1> DEFINE p == Len(pub)
           q == Len(arr)
           h == ch[0][1].n
           pub2 == Append(pub, h)
<1>0. 0 \in 0..m /\ ch[0] \in Seq(Message)
  OBVIOUS
<1>1. /\ p < q /\ arr[p + 1] = h /\ p \in Nat /\ q \in Nat
      /\ \A a \in 1..q : arr[a] \in Nat
  <2>1. p < q /\ arr[p + 1] = h
    BY FirstIsNext
  <2>2. p \in Nat /\ q \in Nat /\ \A a \in 1..q : arr[a] \in Nat
    BY NumbersOfItems
  <2> QED BY <2>1, <2>2
<1>2. Head(ch[0]) = ch[0][1] /\ 1 \in 1..Len(ch[0])
  BY <1>0, TailIs
<1>3. InLine(ch2, m, top)
  BY <1>0, TailInLine DEF Keeps
<1>4. /\ Awaits(ch, m, arr, p) /\ InLine(ch, m, top) /\ Increases(arr, top) /\ Starts(pub, arr)
  BY DEF Keeps
<1>5. Len(pub2) = p + 1
  OBVIOUS
<1>6. Starts(pub2, arr)
  <2>1. /\ \A i \in 1..p : pub2[i] = pub[i]
        /\ pub2[p + 1] = h
    <3> HIDE DEF h
    <3> QED OBVIOUS
  <2>2. \A i \in 1..p : pub2[i] = arr[i]
    BY <1>4, <2>1 DEF Starts
  <2> HIDE DEF p, q, h, pub2
  <2>3. \A i \in 1..(p + 1) : pub2[i] = arr[i]
    BY <1>1, <2>1, <2>2
  <2>4. p + 1 <= q
    BY <1>1
  <2> QED BY <1>5, <2>3, <2>4 DEF Starts, q
<1>7. /\ \A i \in 1..Len(ch2[0]) : i + 1 \in 1..Len(ch[0]) /\ ch2[0][i] = ch[0][i + 1]
      /\ \A i \in 1..Len(ch[0]) : i # 1 => i - 1 \in 1..Len(ch2[0]) /\ ch2[0][i - 1] = ch[0][i]
  BY <1>0, TailIs
<1>8. \A j \in 0..m : \A i \in 1..Len(ch[j]) :
        ((j = 0 /\ i = 1) \/ h < ch[j][i].n) /\ ch[j][i].n \in Nat
  BY <1>4, FirstIsSmallest
<1>9. Awaits(ch2, m, arr, p + 1)
  <2> HIDE DEF p, q, h
  <2>1. ASSUME NEW j \in 0..m, NEW i \in 1..Len(ch2[j]), ch2[j][i].parses
        PROVE  \E a \in (p + 1 + 1)..q : arr[a] = ch2[j][i].n
    <3>1. PICK k \in 1..Len(ch[j]) : ch[j][k] = ch2[j][i] /\ ~(j = 0 /\ k = 1)
      <4>1. CASE j = 0
        <5>1. i \in 1..Len(ch2[0])
          BY <4>1
        <5>2. i + 1 \in 1..Len(ch[0]) /\ ch[0][i + 1] = ch2[0][i]
          BY <1>7, <5>1
        <5>3. i + 1 # 1
          BY <5>1
        <5> QED BY <4>1, <5>2, <5>3
      <4>2. CASE j # 0
        BY <4>2
      <4> QED BY <4>1, <4>2
    <3>2. h < ch[j][k].n /\ ch[j][k].n \in Nat /\ ch[j][k].parses
      BY <1>8, <2>1, <3>1
    <3>3. PICK a \in (p + 1)..q : arr[a] = ch[j][k].n
      BY <1>4, <3>2 DEF Awaits, q
    <3>4. a # p + 1
      <4>1. h \in Nat
        BY <1>0, <1>2, MessageFields DEF h
      <4> QED BY <1>1, <3>2, <3>3, <4>1
    <3>5. a \in (p + 1 + 1)..q
      BY <1>1, <3>4
    <3> QED BY <3>1, <3>3, <3>5
  <2>2. ASSUME NEW a \in (p + 1 + 1)..q
        PROVE  \E j \in 0..m : \E i \in 1..Len(ch2[j]) : ch2[j][i].parses /\ ch2[j][i].n = arr[a]
    <3>1. a \in (p + 1)..q /\ a \in 1..q /\ p + 1 \in 1..q /\ p + 1 < a
      BY <1>1
    <3>2. PICK j \in 0..m : \E i \in 1..Len(ch[j]) : ch[j][i].parses /\ ch[j][i].n = arr[a]
      BY <1>4, <3>1 DEF Awaits, q
    <3>3. PICK i \in 1..Len(ch[j]) : ch[j][i].parses /\ ch[j][i].n = arr[a]
      BY <3>2
    <3>4. arr[p + 1] < arr[a] /\ arr[a] \in Nat /\ arr[p + 1] \in Nat
      BY <1>1, <1>4, <3>1 DEF Increases, q
    <3>5. ~(j = 0 /\ i = 1)
      <4>1. SUFFICES ASSUME j = 0, i = 1 PROVE FALSE
        OBVIOUS
      <4>2. h = arr[a]
        BY <3>3, <4>1 DEF h
      <4> QED BY <1>1, <3>4, <4>2
    <3>6. CASE j = 0
      <4>1. i - 1 \in 1..Len(ch2[0]) /\ ch2[0][i - 1] = ch[0][i]
        BY <1>7, <3>5, <3>6
      <4> QED BY <3>3, <3>6, <4>1
    <3>7. CASE j # 0
      <4>1. ch2[j] = ch[j]
        BY <3>7
      <4> QED BY <3>3, <4>1
    <3> QED BY <3>6, <3>7
  <2> QED BY <2>1, <2>2 DEF Awaits, q
<1>10. Keeps(ch2, m, arr, pub2, top)
  <2> HIDE DEF pub2
  <2> QED BY <1>3, <1>4, <1>5, <1>6, <1>9 DEF Keeps
<1> QED BY <1>2, <1>10

(* A message of k items arrives, whose places in `good` parse. *)
Arrival(ch, ch2, m, arr, arr2, top, k, good) ==
  /\ \A j \in 0..m : ch2[j] = ch[j]
  /\ Len(ch2[m + 1]) = k
  /\ \A i \in 1..k : /\ ch2[m + 1][i].n = top + i
                     /\ ch2[m + 1][i].parses <=> \E j \in 1..Len(good) : good[j] = i
  /\ Len(good) \in Nat
  /\ \A j \in 1..Len(good) : good[j] \in 1..k
  /\ \A i, j \in 1..Len(good) : i < j => good[i] < good[j]
  /\ Len(arr2) = Len(arr) + Len(good)
  /\ \A i \in 1..Len(arr) : arr2[i] = arr[i]
  /\ \A j \in 1..Len(good) : arr2[Len(arr) + j] = top + good[j]

LEMMA ArrivalKeeps ==
  ASSUME NEW m \in Nat, NEW ch, NEW ch2, NEW arr \in Seq(Item), NEW arr2, NEW pub \in Seq(Item),
         NEW top \in Nat, NEW k \in Nat, NEW good,
         Keeps(ch, m, arr, pub, top), \A j \in 0..m : ch[j] \in Seq(Message),
         Arrival(ch, ch2, m, arr, arr2, top, k, good)
  PROVE  Keeps(ch2, m + 1, arr2, pub, top + k)
<1> DEFINE p == Len(pub)
           q == Len(arr)
           g == Len(good)
           new == ch2[m + 1]
<1>1. /\ p \in Nat /\ q \in Nat /\ g \in Nat /\ Len(arr2) = q + g
      /\ \A a \in 1..q : arr[a] \in Nat /\ arr2[a] = arr[a]
      /\ \A j \in 1..g : arr2[q + j] = top + good[j]
  <2>1. p \in Nat /\ q \in Nat /\ \A a \in 1..q : arr[a] \in Nat
    BY NumbersOfItems
  <2> QED BY <2>1 DEF Arrival
<1>2. \A j \in 0..m : \A i \in 1..Len(ch[j]) : ch[j][i].n \in Nat /\ ch[j][i].n <= top
  <2> SUFFICES ASSUME NEW j \in 0..m, NEW i \in 1..Len(ch[j])
               PROVE  ch[j][i].n \in Nat /\ ch[j][i].n <= top
    OBVIOUS
  <2>1. ch[j][i].n \in Nat
    BY MessageFields
  <2> QED BY <2>1 DEF Keeps, InLine
<1>3. InLine(ch, m, top) /\ Increases(arr, top) /\ Starts(pub, arr) /\ Awaits(ch, m, arr, p)
  BY DEF Keeps
<1>4. \A j \in 0..(m + 1) : j \in 0..m \/ j = m + 1
  OBVIOUS
<1>5. /\ Len(new) = k
      /\ \A i \in 1..k : /\ new[i].n = top + i
                         /\ new[i].parses <=> \E j \in 1..g : good[j] = i
  BY DEF Arrival
<1>a. /\ \A j \in 0..m : ch2[j] = ch[j]
      /\ \A j \in 1..g : good[j] \in 1..k
      /\ \A i, j \in 1..g : i < j => good[i] < good[j]
  BY DEF Arrival
<1> HIDE DEF p, q, g, new
<1>6. InLine(ch2, m + 1, top + k)
  <2>1. ASSUME NEW j \in 0..(m + 1) PROVE Rising(ch2[j])
    <3>1. CASE j \in 0..m
      BY <1>3, <1>a, <3>1 DEF InLine
    <3>2. CASE j = m + 1
      <4>1. \A a, b \in 1..k : a < b => top + a < top + b
        OBVIOUS
      <4>2. Rising(new)
        BY <1>5, <4>1 DEF Rising
      <4> QED BY <3>2, <4>2 DEF new
    <3> QED BY <1>4, <3>1, <3>2
  <2>2. ASSUME NEW j \in 0..(m + 1), NEW i \in 0..(m + 1), j < i PROVE Before(ch2[j], ch2[i])
    <3>1. j \in 0..m /\ ch2[j] = ch[j]
      BY <1>a, <2>2
    <3>2. CASE i \in 0..m
      BY <1>3, <1>a, <2>2, <3>1, <3>2 DEF InLine
    <3>3. CASE i = m + 1
      <4>1. ASSUME NEW a \in 1..Len(ch[j]), NEW b \in 1..k PROVE ch[j][a].n < new[b].n
        <5>1. ch[j][a].n \in Nat /\ ch[j][a].n <= top /\ new[b].n = top + b
          BY <1>2, <1>5, <3>1
        <5> QED BY <5>1
      <4>2. Before(ch[j], new)
        BY <1>5, <4>1 DEF Before
      <4> QED BY <3>1, <3>3, <4>2 DEF new
    <3> QED BY <1>4, <3>2, <3>3
  <2>3. ASSUME NEW j \in 0..(m + 1), NEW i \in 1..Len(ch2[j]) PROVE ch2[j][i].n <= top + k
    <3>1. CASE j \in 0..m
      <4>1. ch2[j][i].n \in Nat /\ ch2[j][i].n <= top
        BY <1>2, <1>a, <3>1
      <4> QED BY <4>1
    <3>2. CASE j = m + 1
      <4>1. i \in 1..k /\ ch2[j][i].n = top + i
        BY <1>5, <3>2 DEF new
      <4> QED BY <4>1
    <3> QED BY <1>4, <3>1, <3>2
  <2> QED BY <2>1, <2>2, <2>3 DEF InLine
<1>7. ASSUME NEW a \in 1..(q + g)
      PROVE  a \in 1..q \/ \E j \in 1..g : a = q + j
  <2>1. CASE a <= q
    BY <1>1, <2>1
  <2>2. CASE a > q
    <3>1. a - q \in 1..g /\ a = q + (a - q)
      BY <1>1, <2>2
    <3> QED BY <3>1
  <2> QED BY <1>1, <2>1, <2>2
<1>8. Increases(arr2, top + k)
  <2>1. ASSUME NEW a \in 1..(q + g), NEW b \in 1..(q + g), a < b PROVE arr2[a] < arr2[b]
    <3>1. CASE b \in 1..q
      <4>1. a \in 1..q
        BY <1>1, <2>1, <3>1
      <4>2. arr[a] < arr[b]
        BY <1>3, <2>1, <3>1, <4>1 DEF Increases, q
      <4> QED BY <1>1, <3>1, <4>1, <4>2
    <3>2. ASSUME NEW j \in 1..g, b = q + j PROVE arr2[a] < arr2[b]
      <4>1. arr2[b] = top + good[j] /\ good[j] \in 1..k
        BY <1>1, <1>a, <3>2
      <4>2. CASE a \in 1..q
        <5>1. arr2[a] \in Nat /\ arr2[a] <= top
          BY <1>1, <1>3, <4>2 DEF Increases, q
        <5> QED BY <4>1, <5>1
      <4>3. ASSUME NEW i \in 1..g, a = q + i PROVE arr2[a] < arr2[b]
        <5>1. i < j
          BY <1>1, <2>1, <3>2, <4>3
        <5>2. good[i] < good[j] /\ good[i] \in 1..k
          BY <1>a, <5>1
        <5>3. arr2[a] = top + good[i]
          BY <1>1, <4>3
        <5> QED BY <4>1, <5>2, <5>3
      <4> QED BY <1>7, <4>2, <4>3
    <3> QED BY <1>7, <3>1, <3>2
  <2>2. ASSUME NEW a \in 1..(q + g) PROVE arr2[a] <= top + k
    <3>1. CASE a \in 1..q
      <4>1. arr2[a] \in Nat /\ arr2[a] <= top
        BY <1>1, <1>3, <3>1 DEF Increases, q
      <4> QED BY <4>1
    <3>2. ASSUME NEW j \in 1..g, a = q + j PROVE arr2[a] <= top + k
      <4>1. arr2[a] = top + good[j] /\ good[j] \in 1..k
        BY <1>1, <1>a, <3>2
      <4> QED BY <4>1
    <3> QED BY <1>7, <3>1, <3>2
  <2> QED BY <1>1, <2>1, <2>2 DEF Increases
<1>9. Starts(pub, arr2)
  <2>1. p <= q /\ \A i \in 1..p : pub[i] = arr[i]
    BY <1>3 DEF Starts, p, q
  <2>2. p <= q + g /\ \A i \in 1..p : i \in 1..q
    BY <1>1, <2>1
  <2>3. \A i \in 1..p : pub[i] = arr2[i]
    BY <1>1, <2>1, <2>2
  <2> QED BY <1>1, <2>2, <2>3 DEF Starts, p
<1>10. Awaits(ch2, m + 1, arr2, p)
  <2>0. p <= q
    BY <1>3 DEF Starts, p, q
  <2>1. ASSUME NEW j \in 0..(m + 1), NEW i \in 1..Len(ch2[j]), ch2[j][i].parses
        PROVE  \E a \in (p + 1)..(q + g) : arr2[a] = ch2[j][i].n
    <3>1. CASE j \in 0..m
      <4>1. ch2[j] = ch[j]
        BY <1>a, <3>1
      <4>2. PICK a \in (p + 1)..q : arr[a] = ch[j][i].n
        BY <1>3, <2>1, <3>1, <4>1 DEF Awaits, q
      <4>3. a \in 1..q /\ a \in (p + 1)..(q + g)
        BY <1>1
      <4> QED BY <1>1, <4>1, <4>2, <4>3
    <3>2. CASE j = m + 1
      <4>1. i \in 1..k /\ ch2[j][i].n = top + i /\ \E b \in 1..g : good[b] = i
        BY <1>5, <2>1, <3>2 DEF new
      <4>2. PICK b \in 1..g : good[b] = i
        BY <4>1
      <4>3. q + b \in (p + 1)..(q + g)
        BY <1>1, <2>0
      <4>4. arr2[q + b] = top + i
        BY <1>1, <4>2
      <4> QED BY <4>1, <4>3, <4>4
    <3> QED BY <1>4, <3>1, <3>2
  <2>2. ASSUME NEW a \in (p + 1)..(q + g)
        PROVE  \E j \in 0..(m + 1) : \E i \in 1..Len(ch2[j]) :
                 ch2[j][i].parses /\ ch2[j][i].n = arr2[a]
    <3>0. a \in 1..(q + g)
      BY <1>1
    <3>1. CASE a \in 1..q
      <4>1. a \in (p + 1)..q /\ arr2[a] = arr[a]
        BY <1>1, <3>1
      <4>2. PICK j \in 0..m : \E i \in 1..Len(ch[j]) : ch[j][i].parses /\ ch[j][i].n = arr[a]
        BY <1>3, <4>1 DEF Awaits, q
      <4>3. j \in 0..(m + 1) /\ ch2[j] = ch[j]
        BY <1>a
      <4>4. PICK i \in 1..Len(ch[j]) : ch[j][i].parses /\ ch[j][i].n = arr[a]
        BY <4>2
      <4> QED BY <4>1, <4>3, <4>4
    <3>2. ASSUME NEW b \in 1..g, a = q + b
          PROVE  \E j \in 0..(m + 1) : \E i \in 1..Len(ch2[j]) :
                   ch2[j][i].parses /\ ch2[j][i].n = arr2[a]
      <4>1. good[b] \in 1..k /\ arr2[a] = top + good[b]
        BY <1>1, <1>a, <3>2
      <4>2. new[good[b]].parses /\ new[good[b]].n = top + good[b]
        BY <1>5, <4>1
      <4>3. m + 1 \in 0..(m + 1) /\ ch2[m + 1] = new /\ good[b] \in 1..Len(new)
        BY <1>5, <4>1 DEF new
      <4> QED BY <4>1, <4>2, <4>3
    <3> QED BY <1>7, <3>0, <3>1, <3>2
  <2> QED BY <1>1, <2>1, <2>2 DEF Awaits
<1> QED BY <1>6, <1>8, <1>9, <1>10 DEF Keeps, p
-----------------------------------------------------------------------------
(***************************************************************************)
(* Types.                                                                  *)
(***************************************************************************)
LEMMA OneMoreFrame ==
  ASSUME NEW a \in Nat, NEW b \in Nat, NEW c \in Nat, a < b
  PROVE  /\ (a + 1) * c = a * c + c
         /\ a * c + c <= b * c
<1> DEFINE d == b - (a + 1)
<1>1. d \in Nat /\ b = a + 1 + d
  OBVIOUS
<1> HIDE DEF d
<1>2. (a + 1 + d) * c = a * c + c + d * c /\ (a + 1) * c = a * c + c
  BY <1>1
<1>3. d * c \in Nat /\ a * c \in Nat
  BY <1>1
<1> QED BY <1>1, <1>2, <1>3

(* The places of a message, whether chosen or none. *)
ArePlaces(good, k) ==
  /\ Len(good) \in Nat
  /\ \A j \in 1..Len(good) : good[j] \in 1..k
  /\ \A i, j \in 1..Len(good) : i < j => good[i] < good[j]

LEMMA PlacesAre ==
  ASSUME NEW k \in Nat, NEW good \in Places(k)
  PROVE  ArePlaces(good, k)
<1>1. PICK m \in 0..k : good \in [1..m -> 1..k]
  BY DEF Places
<1>2. Len(good) = m
  BY <1>1
<1>3. \A i, j \in 1..Len(good) : i < j => good[i] < good[j]
  BY DEF Places
<1>4. \A j \in 1..m : good[j] \in 1..k
  BY <1>1
<1> QED BY <1>2, <1>3, <1>4 DEF ArePlaces

(* What a message looks like. *)
Sending(l, channel, k, good) ==
  /\ Put(l, channel, k, good)
  /\ k \in Nat /\ k <= MaxTrades /\ ArePlaces(good, k)
  /\ channel \in {"trades", "bbo", "other"}
  /\ channel = "other" => k = 0
  /\ channel = "bbo" => k = 1

LEMMA ExchangeSends ==
  ASSUME NEW l \in Listener, SendTrades(l) \/ SendBbo(l) \/ SendOther(l)
  PROVE  \E channel, k, good : Sending(l, channel, k, good)
<1>0. MaxTrades \in Nat \ {0}
  BY ListenerAssumption
<1>1. CASE SendTrades(l)
  <2>1. PICK k \in 0..MaxTrades : \E good \in Places(k) : Put(l, "trades", k, good)
    BY <1>1 DEF SendTrades
  <2>2. PICK good \in Places(k) : Put(l, "trades", k, good)
    BY <2>1
  <2>3. k \in Nat /\ k <= MaxTrades
    BY <1>0
  <2>4. ArePlaces(good, k)
    BY <2>3, PlacesAre
  <2> QED BY <2>2, <2>3, <2>4 DEF Sending
<1>2. CASE SendBbo(l)
  <2>1. PICK good \in Places(1) : Put(l, "bbo", 1, good)
    BY <1>2 DEF SendBbo
  <2>2. 1 \in Nat /\ 1 <= MaxTrades
    BY <1>0
  <2>3. ArePlaces(good, 1)
    BY <2>2, PlacesAre
  <2> QED BY <2>1, <2>2, <2>3 DEF Sending
<1>3. CASE SendOther(l)
  <2>1. 0 \in Nat /\ 0 <= MaxTrades
    BY <1>0
  <2>2. ArePlaces(<<>>, 0)
    BY DEF ArePlaces
  <2> QED BY <1>3, <2>1, <2>2 DEF Sending, SendOther
<1> QED BY <1>1, <1>2, <1>3

LEMMA TypeInit == Init => TypeOK /\ WireTyped
<1> SUFFICES ASSUME Init PROVE TypeOK /\ WireTyped
  OBVIOUS
<1>1. 0 \in 0..(2 * Coins) /\ 0 \in 0..MaxFrames /\ 0 <= RingSize /\ 0 <= 0 * MaxTrades
  BY ListenerAssumption
<1>2. <<>> \in Seq(Item) /\ <<>> \in Seq([n : Item, parses : BOOLEAN]) /\ <<>> \in Seq(Frame)
      /\ <<>> \in Seq([by : Listener, n : Item])
  OBVIOUS
<1>3. Len(<<>>) = 0
  OBVIOUS
<1>4. TypeOK
  BY <1>1, <1>2, <1>3, Zenon DEF Init, TypeOK
<1>5. \A l \in Listener : wire[l] = <<>> /\ sent[l] = 0
  BY Zenon DEF Init
<1>6. frames \in 0..MaxFrames /\ sent \in [Listener -> Nat] /\ \A l \in Listener : sent[l] <= frames * MaxTrades
  <2>1. sent \in [Listener -> Nat] /\ frames = 0
    BY DEF Init
  <2> QED BY <1>1, <1>5, <2>1
<1>7. /\ wire \in [Listener -> Seq(Frame)] /\ arrived \in [Listener -> Seq(Item)]
      /\ published \in [Listener -> Seq(Item)]
  BY <1>2, Zenon DEF Init
<1>8. \A l \in Listener : \A j \in 1..Len(wire[l]) : FALSE
  BY <1>5
<1> QED BY <1>4, <1>6, <1>7, <1>8 DEF WireTyped

(* A message on the wire is well-formed. *)
LEMMA SendingTyped ==
  ASSUME TypeOK, WireTyped, NEW l \in Listener, NEW channel, NEW k, NEW good,
         Sending(l, channel, k, good)
  PROVE  WireTyped'
<1> DEFINE items == [i \in 1..k |-> [n |-> sent[l] + i,
                                     parses |-> \E j \in 1..Len(good) : good[j] = i]]
           frame == [channel |-> channel, items |-> items]
           new == [j \in 1..Len(good) |-> sent[l] + good[j]]
<1>1. /\ k \in Nat /\ k <= MaxTrades /\ ArePlaces(good, k)
      /\ channel \in {"trades", "bbo", "other"}
      /\ channel = "other" => k = 0
      /\ channel = "bbo" => k = 1
  BY DEF Sending
<1>2. /\ frames < MaxFrames /\ frames' = frames + 1
      /\ wire' = [wire EXCEPT ![l] = Append(@, frame)]
      /\ sent' = [sent EXCEPT ![l] = @ + k]
      /\ arrived' = [arrived EXCEPT ![l] = @ \o new]
      /\ published' = published
  BY DEF Sending, Put, ringVars
<1>3. /\ frames \in Nat /\ MaxFrames \in Nat /\ MaxTrades \in Nat
      /\ sent \in [Listener -> Nat] /\ \A h \in Listener : sent[h] <= frames * MaxTrades
      /\ wire \in [Listener -> Seq(Frame)] /\ arrived \in [Listener -> Seq(Item)]
      /\ published \in [Listener -> Seq(Item)]
  BY ListenerAssumption DEF WireTyped
<1>4. /\ frames' \in 0..MaxFrames /\ frames * MaxTrades \in Nat
      /\ frames' * MaxTrades = frames * MaxTrades + MaxTrades
      /\ frames * MaxTrades + MaxTrades <= MaxFrames * MaxTrades
      /\ MaxFrames * MaxTrades \in Nat
  BY <1>2, <1>3, OneMoreFrame
<1> DEFINE before == frames * MaxTrades
           bound == MaxFrames * MaxTrades
<1>5. Item = 1..bound
  BY DEF Item
<1>5a. before \in Nat /\ bound \in Nat /\ before + MaxTrades <= bound
  BY <1>4
<1> HIDE DEF before, bound
<1>6. ASSUME NEW i \in 1..k PROVE sent[l] + i \in Item
  <2>1. sent[l] \in Nat /\ sent[l] <= before
    BY <1>3 DEF before
  <2> QED BY <1>1, <1>3, <1>5, <1>5a, <2>1
<1>7. items \in Seq(Message) /\ Len(items) = k
  BY <1>1, <1>6 DEF Message
<1>8. new \in Seq(Item)
  BY <1>1, <1>6 DEF ArePlaces
<1> HIDE DEF items, new
<1>9. frame \in Frame
  BY <1>1, <1>7 DEF Frame
<1>10. /\ frame.channel = "other" => frame.items = <<>>
       /\ frame.channel = "bbo" => Len(frame.items) = 1
  BY <1>1, <1>7
<1> HIDE DEF frame
<1>11. wire' \in [Listener -> Seq(Frame)]
  <2>1. Append(wire[l], frame) \in Seq(Frame)
    BY <1>3, <1>9
  <2> QED BY <1>2, <1>3, <2>1
<1>12. arrived' \in [Listener -> Seq(Item)]
  <2>1. arrived[l] \o new \in Seq(Item)
    BY <1>3, <1>8
  <2> QED BY <1>2, <1>3, <2>1
<1>13. sent' \in [Listener -> Nat]
  BY <1>1, <1>2, <1>3
<1>14. ASSUME NEW h \in Listener PROVE sent'[h] <= frames' * MaxTrades
  <2>1. frames' * MaxTrades = before + MaxTrades
    BY <1>4 DEF before
  <2>2. sent[h] \in Nat /\ sent[h] <= before /\ (sent'[h] = sent[h] \/ sent'[h] = sent[h] + k)
    BY <1>2, <1>3 DEF before
  <2>3. sent'[h] <= before + MaxTrades
    BY <1>1, <1>3, <1>5a, <2>2
  <2> QED BY <2>1, <2>3
<1>15. ASSUME NEW h \in Listener, NEW j \in 1..Len(wire'[h])
       PROVE  /\ wire'[h][j].channel = "other" => wire'[h][j].items = <<>>
              /\ wire'[h][j].channel = "bbo" => Len(wire'[h][j].items) = 1
  <2>1. CASE h = l
    <3>1. wire'[l] = Append(wire[l], frame) /\ wire[l] \in Seq(Frame)
      BY <1>2, <1>3
    <3>2. \/ j = Len(wire[l]) + 1 /\ wire'[l][j] = frame
          \/ j \in 1..Len(wire[l]) /\ wire'[l][j] = wire[l][j]
      BY <1>15, <2>1, <3>1
    <3>3. CASE wire'[l][j] = frame
      BY <1>10, <2>1, <3>3
    <3>4. CASE j \in 1..Len(wire[l]) /\ wire'[l][j] = wire[l][j]
      BY <2>1, <3>4 DEF WireTyped
    <3> QED BY <3>2, <3>3, <3>4
  <2>2. CASE h # l
    <3>1. wire'[h] = wire[h]
      BY <1>2, <1>3, <2>2
    <3> QED BY <3>1 DEF WireTyped
  <2> QED BY <2>1, <2>2
<1>16. published' \in [Listener -> Seq(Item)]
  BY <1>2, <1>3
<1> QED BY <1>4, <1>11, <1>12, <1>13, <1>14, <1>15, <1>16 DEF WireTyped

(* The next message leaves the wire. *)
LEMMA TakingTyped ==
  ASSUME TypeOK, WireTyped, NEW l \in Listener, NEW channel, TakeFrame(l, channel)
  PROVE  /\ wire[l] \in Seq(Frame) /\ Head(wire[l]) \in Frame /\ Len(wire[l]) \in Nat \ {0}
         /\ Head(wire[l]) = wire[l][1] /\ Head(wire[l]).items \in Seq(Message)
         /\ wire' = [wire EXCEPT ![l] = Tail(wire[l])] /\ Tail(wire[l]) \in Seq(Frame)
         /\ Len(Tail(wire[l])) = Len(wire[l]) - 1
         /\ \A j \in 1..Len(Tail(wire[l])) : Tail(wire[l])[j] = wire[l][j + 1]
         /\ channel = "other" => Head(wire[l]).items = <<>>
         /\ channel = "bbo" => Len(Head(wire[l]).items) = 1
<1>1. /\ wire[l] \in Seq(Frame) /\ wire[l] # <<>> /\ Head(wire[l]).channel = channel
      /\ wire' = [wire EXCEPT ![l] = Tail(wire[l])]
  BY DEF WireTyped, TakeFrame
<1>2. Len(wire[l]) \in Nat \ {0} /\ Head(wire[l]) \in Frame /\ Tail(wire[l]) \in Seq(Frame)
      /\ Head(wire[l]) = wire[l][1] /\ Len(Tail(wire[l])) = Len(wire[l]) - 1
      /\ \A j \in 1..Len(Tail(wire[l])) : Tail(wire[l])[j] = wire[l][j + 1]
  BY <1>1
<1>3. Head(wire[l]).items \in Seq(Message)
  BY <1>2 DEF Frame
<1>4. /\ wire[l][1].channel = "other" => wire[l][1].items = <<>>
      /\ wire[l][1].channel = "bbo" => Len(wire[l][1].items) = 1
  <2>1. 1 \in 1..Len(wire[l])
    BY <1>2
  <2> QED BY <2>1 DEF WireTyped
<1> QED BY <1>1, <1>2, <1>3, <1>4

LEMMA TakingKeepsWire ==
  ASSUME TypeOK, WireTyped, NEW l \in Listener, NEW channel, TakeFrame(l, channel),
         published' \in [Listener -> Seq(Item)]
  PROVE  WireTyped'
<1>1. /\ wire' = [wire EXCEPT ![l] = Tail(wire[l])] /\ Tail(wire[l]) \in Seq(Frame)
      /\ \A j \in 1..Len(Tail(wire[l])) : Tail(wire[l])[j] = wire[l][j + 1]
      /\ Len(Tail(wire[l])) = Len(wire[l]) - 1 /\ Len(wire[l]) \in Nat \ {0}
  BY TakingTyped
<1>2. UNCHANGED <<sent, frames, arrived>>
  BY DEF TakeFrame
<1>3. wire \in [Listener -> Seq(Frame)]
  BY DEF WireTyped
<1>4. wire' \in [Listener -> Seq(Frame)]
  BY <1>1, <1>3
<1>5. ASSUME NEW h \in Listener, NEW j \in 1..Len(wire'[h])
      PROVE  /\ wire'[h][j].channel = "other" => wire'[h][j].items = <<>>
             /\ wire'[h][j].channel = "bbo" => Len(wire'[h][j].items) = 1
  <2>1. PICK i \in 1..Len(wire[h]) : wire'[h][j] = wire[h][i]
    <3>1. CASE h = l
      <4>1. wire'[h] = Tail(wire[l]) /\ j + 1 \in 1..Len(wire[l])
        BY <1>1, <1>3, <1>5, <3>1
      <4> QED BY <1>1, <1>5, <3>1, <4>1
    <3>2. CASE h # l
      BY <1>1, <1>3, <1>5, <3>2
    <3> QED BY <3>1, <3>2
  <2> QED BY <2>1 DEF WireTyped
<1> QED BY <1>2, <1>4, <1>5 DEF WireTyped

(* publish takes a free slot of the ring. *)
LEMMA PublishTyped ==
  ASSUME TypeOK, WireTyped, NEW l \in Listener, NEW n \in Item, Publish(l, n)
  PROVE  /\ ring' \in Seq([by : Listener, n : Item]) /\ Len(ring') <= RingSize
         /\ published' \in [Listener -> Seq(Item)]
         /\ published' = [published EXCEPT ![l] = Append(published[l], n)]
<1>1. ring \in Seq([by : Listener, n : Item]) /\ Len(ring) \in Nat /\ RingSize \in Nat
  BY ListenerAssumption DEF TypeOK
<1>2. Len(ring) < RingSize /\ ring' = Append(ring, [by |-> l, n |-> n])
  BY DEF Publish
<1>3. [by |-> l, n |-> n] \in [by : Listener, n : Item]
  OBVIOUS
<1>4. ring' \in Seq([by : Listener, n : Item]) /\ Len(ring') = Len(ring) + 1
  BY <1>1, <1>2, <1>3
<1>5. published' = [published EXCEPT ![l] = Append(published[l], n)]
  BY DEF Publish
<1>6. Append(published[l], n) \in Seq(Item) /\ published \in [Listener -> Seq(Item)]
  BY DEF WireTyped
<1> QED BY <1>1, <1>2, <1>4, <1>5, <1>6

LEMMA TypeStep ==
  ASSUME TypeOK, WireTyped, [Next]_vars
  PROVE  TypeOK' /\ WireTyped'
<1>a. /\ sender \in Listener \cup {Nobody}
      /\ pc \in [Listener -> {"new", "connect", "subscribe", "select", "publish", "panicked"}]
      /\ subs \in [Listener -> 0..(2 * Coins)] /\ Coins \in Nat
      /\ conn \in [Listener -> {"none", "open", "ended"}]
      /\ trades \in [Listener -> Seq(Message)]
      /\ ring \in Seq([by : Listener, n : Item])
      /\ handler \in {"alive", "dead"}
  BY ListenerAssumption DEF TypeOK, Message
<1>b. \A l \in Listener : /\ pc[l] \in {"select", "publish"} => subs[l] = 2 * Coins
                          /\ pc[l] # "publish" => trades[l] = <<>>
  BY DEF TypeOK
<1>1. ASSUME NEW l \in Listener, Listen(l) PROVE TypeOK' /\ WireTyped'
  <2>1. UNCHANGED <<subs, conn, trades, ring, handler, wire, sent, frames, arrived, published>>
    BY <1>1 DEF Listen, serverVars, ringVars
  <2>2. sender' \in Listener \cup {Nobody} /\ pc[l] = "new" /\ pc' = [pc EXCEPT ![l] = "connect"]
    BY <1>1, <1>a DEF Listen, Goto
  <2> QED BY <1>a, <1>b, <2>1, <2>2 DEF TypeOK, WireTyped
<1>2. ASSUME NEW l \in Listener, Connected(l) PROVE TypeOK' /\ WireTyped'
  BY <1>2, <1>a, <1>b DEF Connected, Goto, ringVars, TypeOK, WireTyped
<1>3. ASSUME NEW l \in Listener, Subscribe(l) PROVE TypeOK' /\ WireTyped'
  <2>1. /\ pc[l] = "subscribe" /\ subs[l] < 2 * Coins /\ subs' = [subs EXCEPT ![l] = @ + 1]
        /\ UNCHANGED <<sender, pc, trades, conn, ring, handler, wire, sent, frames, arrived, published>>
    BY <1>3 DEF Subscribe, serverVars, ringVars
  <2>2. subs[l] + 1 \in 0..(2 * Coins)
    BY <1>a, <2>1
  <2>3. subs' \in [Listener -> 0..(2 * Coins)]
    BY <1>a, <2>1, <2>2
  <2>4. \A h \in Listener : /\ pc[h] \in {"select", "publish"} => subs'[h] = 2 * Coins
    BY <1>a, <1>b, <2>1
  <2> QED BY <2>1, <2>3, <2>4 DEF TypeOK, WireTyped
<1>4. ASSUME NEW l \in Listener, ConnectPanics(l) PROVE TypeOK' /\ WireTyped'
  BY <1>4, <1>a, <1>b DEF ConnectPanics, Goto, serverVars, ringVars, TypeOK, WireTyped
<1>5. ASSUME NEW l \in Listener, Subscribed(l) PROVE TypeOK' /\ WireTyped'
  BY <1>5, <1>a, <1>b DEF Subscribed, AllSubscribed, Goto, serverVars, ringVars, TypeOK, WireTyped
<1>6. ASSUME NEW l \in Listener, NEW channel, NEW k, NEW good, Sending(l, channel, k, good)
      PROVE  TypeOK' /\ WireTyped'
  <2>1. UNCHANGED <<sender, pc, subs, trades, conn, ring, handler>>
    BY <1>6 DEF Sending, Put, ringVars
  <2> QED BY <1>6, <2>1, SendingTyped DEF TypeOK
<1>7. ASSUME NEW l \in Listener, ConnectionEnds(l) PROVE TypeOK' /\ WireTyped'
  BY <1>7, <1>a, <1>b DEF ConnectionEnds, ringVars, TypeOK, WireTyped
<1>8. ASSUME NEW l \in Listener, ReceiveOther(l) PROVE TypeOK' /\ WireTyped'
  <2>1. TakeFrame(l, "other") /\ UNCHANGED <<pc, trades, ring, published>>
    BY <1>8 DEF ReceiveOther
  <2>2. WireTyped'
    BY <2>1, TakingKeepsWire DEF WireTyped
  <2>3. UNCHANGED <<sender, subs, conn, handler>>
    BY <2>1 DEF TakeFrame
  <2> QED BY <2>1, <2>2, <2>3 DEF TypeOK
<1>9. ASSUME NEW l \in Listener, ReceiveTrades(l) PROVE TypeOK' /\ WireTyped'
  <2>1. TakeFrame(l, "trades") /\ UNCHANGED <<ring, published>>
        /\ trades' = [trades EXCEPT ![l] = Head(wire[l]).items]
        /\ pc[l] = "select" /\ pc' = [pc EXCEPT ![l] = "publish"]
    BY <1>9 DEF ReceiveTrades, Goto
  <2>2. WireTyped'
    BY <2>1, TakingKeepsWire DEF WireTyped
  <2>3. UNCHANGED <<sender, subs, conn, handler>>
    BY <2>1 DEF TakeFrame
  <2>4. Head(wire[l]).items \in Seq(Message)
    BY <2>1, TakingTyped
  <2>5. trades' \in [Listener -> Seq([n : Item, parses : BOOLEAN])]
    BY <1>a, <2>1, <2>4 DEF Message
  <2>6. \A h \in Listener : /\ pc'[h] \in {"select", "publish"} => subs'[h] = 2 * Coins
                            /\ pc'[h] # "publish" => trades'[h] = <<>>
    BY <1>a, <1>b, <2>1, <2>3
  <2>7. pc' \in [Listener -> {"new", "connect", "subscribe", "select", "publish", "panicked"}]
    BY <1>a, <2>1
  <2> QED BY <2>1, <2>2, <2>3, <2>5, <2>6, <2>7 DEF TypeOK
<1>10. ASSUME NEW l \in Listener, ReceiveBbo(l) PROVE TypeOK' /\ WireTyped'
  <2>1. TakeFrame(l, "bbo") /\ UNCHANGED <<pc, trades>>
    BY <1>10 DEF ReceiveBbo
  <2>2. Head(wire[l]).items \in Seq(Message) /\ Len(Head(wire[l]).items) = 1
    BY <2>1, TakingTyped
  <2>3. Head(Head(wire[l]).items).n \in Item
    <3> DEFINE items == Head(wire[l]).items
    <3> HIDE DEF items
    <3>1. items \in Seq(Message) /\ Len(items) = 1
      BY <2>2 DEF items
    <3>2. items # <<>> /\ 1 \in 1..Len(items)
      BY <3>1
    <3>3. Head(items) = items[1]
      BY <3>1, <3>2, TailIs
    <3>4. items[1].n \in Item
      BY <3>1, <3>2, MessageFields
    <3> QED BY <3>3, <3>4 DEF items
  <2>4. UNCHANGED <<ring, published>> \/ Publish(l, Head(Head(wire[l]).items).n)
    BY <1>10 DEF ReceiveBbo
  <2>5. /\ ring' \in Seq([by : Listener, n : Item]) /\ Len(ring') <= RingSize
        /\ published' \in [Listener -> Seq(Item)]
    <3>1. CASE UNCHANGED <<ring, published>>
      BY <3>1 DEF TypeOK, WireTyped
    <3>2. CASE Publish(l, Head(Head(wire[l]).items).n)
      BY <2>3, <3>2, PublishTyped
    <3> QED BY <2>4, <3>1, <3>2
  <2>6. WireTyped'
    BY <2>1, <2>5, TakingKeepsWire
  <2>7. UNCHANGED <<sender, subs, conn, handler>>
    BY <2>1 DEF TakeFrame
  <2> QED BY <2>1, <2>5, <2>6, <2>7 DEF TypeOK
<1>11. ASSUME NEW l \in Listener, SkipTrade(l) PROVE TypeOK' /\ WireTyped'
  <2>1. /\ pc[l] = "publish" /\ trades[l] # <<>>
        /\ trades' = [trades EXCEPT ![l] = Tail(trades[l])]
        /\ UNCHANGED <<sender, pc, subs, conn, ring, handler, wire, sent, frames, arrived, published>>
    BY <1>11 DEF SkipTrade, AfterBad, serverVars, ringVars
  <2>2. Tail(trades[l]) \in Seq(Message)
    BY <1>a, <2>1
  <2>3. trades' \in [Listener -> Seq([n : Item, parses : BOOLEAN])]
    BY <1>a, <2>1, <2>2 DEF Message
  <2>4. \A h \in Listener : pc[h] # "publish" => trades'[h] = <<>>
    BY <1>a, <1>b, <2>1
  <2> QED BY <2>1, <2>3, <2>4 DEF TypeOK, WireTyped
<1>12. ASSUME NEW l \in Listener, PublishTrade(l) PROVE TypeOK' /\ WireTyped'
  <2>1. /\ pc[l] = "publish" /\ trades[l] # <<>> /\ Publish(l, Head(trades[l]).n)
        /\ trades' = [trades EXCEPT ![l] = Tail(trades[l])]
        /\ UNCHANGED <<sender, pc, subs, conn, handler, wire, sent, frames, arrived>>
    BY <1>12 DEF PublishTrade, serverVars
  <2>2. Tail(trades[l]) \in Seq(Message) /\ Head(trades[l]) \in Message
    BY <1>a, <2>1
  <2>3. trades' \in [Listener -> Seq([n : Item, parses : BOOLEAN])]
    BY <1>a, <2>1, <2>2 DEF Message
  <2>4. \A h \in Listener : pc[h] # "publish" => trades'[h] = <<>>
    BY <1>a, <1>b, <2>1
  <2>5. Head(trades[l]).n \in Item
    BY <2>2 DEF Message
  <2>6. /\ ring' \in Seq([by : Listener, n : Item]) /\ Len(ring') <= RingSize
        /\ published' \in [Listener -> Seq(Item)]
    BY <2>1, <2>5, PublishTyped
  <2> QED BY <2>1, <2>3, <2>4, <2>6 DEF TypeOK, WireTyped
<1>13. ASSUME NEW l \in Listener, TradesDone(l) PROVE TypeOK' /\ WireTyped'
  BY <1>13, <1>a, <1>b DEF TradesDone, Goto, serverVars, ringVars, TypeOK, WireTyped
<1>14. ASSUME NEW l \in Listener, SelectPanics(l) PROVE TypeOK' /\ WireTyped'
  BY <1>14, <1>a, <1>b DEF SelectPanics, Goto, serverVars, ringVars, TypeOK, WireTyped
<1>15. CASE Handle
  <2>1. /\ ring # <<>> /\ ring' = Tail(ring)
        /\ UNCHANGED <<sender, pc, subs, trades, conn, handler, wire, sent, frames, arrived, published>>
    BY <1>15 DEF Handle, serverVars
  <2>2. ring' \in Seq([by : Listener, n : Item]) /\ Len(ring') = Len(ring) - 1
    BY <1>a, <2>1
  <2>3. Len(ring') <= RingSize
    BY <1>a, <2>2, ListenerAssumption DEF TypeOK
  <2> QED BY <2>1, <2>2, <2>3 DEF TypeOK, WireTyped
<1>16. CASE HandlerPanics
  BY <1>16 DEF HandlerPanics, serverVars, TypeOK, WireTyped
<1>17. CASE UNCHANGED vars
  BY <1>17 DEF vars, serverVars, ringVars, TypeOK, WireTyped
<1>18. ASSUME NEW l \in Listener, SendTrades(l) \/ SendBbo(l) \/ SendOther(l)
       PROVE  TypeOK' /\ WireTyped'
  BY <1>6, <1>18, ExchangeSends
<1> QED BY <1>1, <1>2, <1>3, <1>4, <1>5, <1>7, <1>8, <1>9, <1>10, <1>11, <1>12, <1>13, <1>14, <1>15,
           <1>16, <1>17, <1>18 DEF Next, Task, Exchange

(* The variables of the listeners, the ring and the exchange keep their    *)
(* types: the ring is never overrun, whoever publishes, and a listener in  *)
(* its loop has sent every subscription (connect and listen,               *)
(* hyperliquid.rs:113-272).                                                *)
THEOREM TypeCorrect == Spec => []TypeOK
<1>1. Spec => [](TypeOK /\ WireTyped)
  BY TypeInit, TypeStep, PTL DEF Spec
<1> QED BY <1>1, PTL
-----------------------------------------------------------------------------
(***************************************************************************)
(* Every listener keeps in step with its connection.                       *)
(***************************************************************************)
LEMMA ChunksAre ==
  ASSUME NEW rest \in Seq(Message), NEW w \in Seq(Frame)
  PROVE  /\ Len(w) \in Nat
         /\ Chunks(rest, w)[0] = rest
         /\ \A j \in 1..Len(w) : Chunks(rest, w)[j] = w[j].items
         /\ \A j \in 0..Len(w) : Chunks(rest, w)[j] \in Seq(Message)
<1>1. Len(w) \in Nat
  OBVIOUS
<1>2. Chunks(rest, w)[0] = rest /\ \A j \in 1..Len(w) : Chunks(rest, w)[j] = w[j].items
  BY <1>1 DEF Chunks
<1>3. ASSUME NEW j \in 1..Len(w) PROVE w[j].items \in Seq(Message)
  <2>1. w[j] \in Frame
    OBVIOUS
  <2> QED BY <2>1 DEF Frame
<1>4. \A j \in 0..Len(w) : j = 0 \/ j \in 1..Len(w)
  BY <1>1
<1> QED BY <1>1, <1>2, <1>3, <1>4

LEMMA ListenTypes ==
  ASSUME ListenInv, NEW l \in Listener
  PROVE  /\ trades \in [Listener -> Seq(Message)] /\ trades[l] \in Seq(Message)
         /\ wire \in [Listener -> Seq(Frame)] /\ wire[l] \in Seq(Frame)
         /\ arrived \in [Listener -> Seq(Item)] /\ arrived[l] \in Seq(Item)
         /\ published \in [Listener -> Seq(Item)] /\ published[l] \in Seq(Item)
         /\ sent \in [Listener -> Nat] /\ sent[l] \in Nat
         /\ pc[l] # "publish" => trades[l] = <<>>
         /\ Keeps(Chunks(trades[l], wire[l]), Len(wire[l]), arrived[l], published[l], sent[l])
<1>1. /\ trades \in [Listener -> Seq(Message)]
      /\ wire \in [Listener -> Seq(Frame)]
      /\ arrived \in [Listener -> Seq(Item)]
      /\ published \in [Listener -> Seq(Item)]
      /\ sent \in [Listener -> Nat]
  BY DEF ListenInv, TypeOK, WireTyped, Message
<1>2. pc[l] # "publish" => trades[l] = <<>>
  BY DEF ListenInv, TypeOK
<1>3. Keeps(Chunks(trades[l], wire[l]), Len(wire[l]), arrived[l], published[l], sent[l])
  BY DEF ListenInv, InStep
<1> QED BY <1>1, <1>2, <1>3

(* A step of one listener leaves the others where they are. *)
LEMMA OthersKeep ==
  ASSUME ListenInv, NEW l \in Listener,
         \A h \in Listener \ {l} :
           /\ trades'[h] = trades[h] /\ wire'[h] = wire[h] /\ arrived'[h] = arrived[h]
           /\ published'[h] = published[h] /\ sent'[h] = sent[h],
         Keeps(Chunks(trades'[l], wire'[l]), Len(wire'[l]), arrived'[l], published'[l], sent'[l])
  PROVE  InStep'
<1>1. ASSUME NEW h \in Listener
      PROVE  Keeps(Chunks(trades'[h], wire'[h]), Len(wire'[h]), arrived'[h], published'[h], sent'[h])
  <2>1. CASE h = l
    BY <2>1
  <2>2. CASE h # l
    <3>1. Keeps(Chunks(trades[h], wire[h]), Len(wire[h]), arrived[h], published[h], sent[h])
      BY ListenTypes
    <3>2. /\ trades'[h] = trades[h] /\ wire'[h] = wire[h] /\ arrived'[h] = arrived[h]
          /\ published'[h] = published[h] /\ sent'[h] = sent[h]
      BY <2>2
    <3> QED BY <3>1, <3>2
  <2> QED BY <2>1, <2>2
<1> QED BY <1>1, Zenon DEF InStep

LEMMA SendingKeeps ==
  ASSUME ListenInv, NEW l \in Listener, NEW channel, NEW k, NEW good, Sending(l, channel, k, good)
  PROVE  InStep'
<1> DEFINE items == [i \in 1..k |-> [n |-> sent[l] + i,
                                     parses |-> \E j \in 1..Len(good) : good[j] = i]]
           frame == [channel |-> channel, items |-> items]
           new == [j \in 1..Len(good) |-> sent[l] + good[j]]
           w2 == Append(wire[l], frame)
           arr2 == arrived[l] \o new
           m == Len(wire[l])
           ch == Chunks(trades[l], wire[l])
           ch2 == Chunks(trades[l], w2)
<1>1. k \in Nat /\ ArePlaces(good, k)
  BY DEF Sending
<1>2. /\ wire' = [wire EXCEPT ![l] = w2]
      /\ sent' = [sent EXCEPT ![l] = sent[l] + k]
      /\ arrived' = [arrived EXCEPT ![l] = arr2]
      /\ published' = published /\ trades' = trades
  BY DEF Sending, Put, ringVars
<1>3. /\ trades[l] \in Seq(Message) /\ wire \in [Listener -> Seq(Frame)] /\ wire[l] \in Seq(Frame)
      /\ arrived \in [Listener -> Seq(Item)] /\ arrived[l] \in Seq(Item)
      /\ published[l] \in Seq(Item) /\ sent \in [Listener -> Nat] /\ sent[l] \in Nat
      /\ Keeps(ch, m, arrived[l], published[l], sent[l])
  BY ListenTypes
<1>4. m \in Nat /\ \A j \in 0..m : ch[j] \in Seq(Message)
  BY <1>3, ChunksAre
<1>5. Len(w2) = m + 1 /\ w2[m + 1] = frame /\ \A j \in 1..m : w2[j] = wire[l][j]
  <2> HIDE DEF frame
  <2> QED BY <1>3
<1>6. Len(arr2) = Len(arrived[l]) + Len(good)
      /\ (\A i \in 1..Len(arrived[l]) : arr2[i] = arrived[l][i])
      /\ (\A j \in 1..Len(good) : arr2[Len(arrived[l]) + j] = sent[l] + good[j])
  <2>1. \A j \in 1..Len(good) : sent[l] + good[j] \in Nat
    BY <1>1, <1>3 DEF ArePlaces
  <2>2. new \in Seq(Nat) /\ Len(new) = Len(good) /\ \A j \in 1..Len(good) : new[j] = sent[l] + good[j]
    BY <1>1, <2>1 DEF ArePlaces
  <2>3. arrived[l] \in Seq(Nat)
    BY <1>3, NumbersOfItems
  <2> DEFINE a == arrived[l]
  <2> HIDE DEF new, a
  <2>4. /\ Len(a \o new) = Len(a) + Len(new)
        /\ \A i \in 1..Len(a) : (a \o new)[i] = a[i]
        /\ \A j \in 1..Len(new) : (a \o new)[Len(a) + j] = new[j]
    BY <2>2, <2>3, BothAre DEF a
  <2> QED BY <2>2, <2>4 DEF a
<1>7. Len(items) = k /\ \A i \in 1..k : /\ items[i].n = sent[l] + i
                                        /\ items[i].parses <=> \E j \in 1..Len(good) : good[j] = i
  BY <1>1
<1> HIDE DEF items, new, w2, arr2, m
<1>8. ch2[m + 1] = items /\ \A j \in 0..m : ch2[j] = ch[j]
  <2>1. m + 1 \in 0..Len(w2) /\ m + 1 # 0
    BY <1>4, <1>5
  <2>2. ch2[m + 1] = items
    BY <1>5, <2>1 DEF Chunks
  <2>3. ASSUME NEW j \in 0..m PROVE ch2[j] = ch[j]
    <3>1. j \in 0..Len(w2) /\ (j = 0 \/ j \in 1..m)
      BY <1>4, <1>5
    <3> QED BY <1>5, <3>1 DEF Chunks, m
  <2> QED BY <2>2, <2>3
<1> HIDE DEF ch, ch2
<1>9. Arrival(ch, ch2, m, arrived[l], arr2, sent[l], k, good)
  <2>1. \A j \in 0..m : ch2[j] = ch[j]
    BY <1>8
  <2>2. Len(ch2[m + 1]) = k
    BY <1>7, <1>8
  <2>3. \A i \in 1..k : /\ ch2[m + 1][i].n = sent[l] + i
                        /\ ch2[m + 1][i].parses <=> \E j \in 1..Len(good) : good[j] = i
    BY <1>7, <1>8, Zenon
  <2> QED BY <1>1, <1>6, <2>1, <2>2, <2>3, Zenon DEF Arrival, ArePlaces
<1>10. Keeps(ch2, m + 1, arr2, published[l], sent[l] + k)
  BY <1>1, <1>3, <1>4, <1>9, ArrivalKeeps
<1>11. /\ trades'[l] = trades[l] /\ wire'[l] = w2 /\ arrived'[l] = arr2
       /\ published'[l] = published[l] /\ sent'[l] = sent[l] + k
  BY <1>2, <1>3
<1>12. Keeps(Chunks(trades'[l], wire'[l]), Len(wire'[l]), arrived'[l], published'[l], sent'[l])
  BY <1>5, <1>10, <1>11 DEF ch2
<1>13. \A h \in Listener \ {l} :
         /\ trades'[h] = trades[h] /\ wire'[h] = wire[h] /\ arrived'[h] = arrived[h]
         /\ published'[h] = published[h] /\ sent'[h] = sent[h]
  BY <1>2, <1>3
<1> QED BY <1>12, <1>13, OthersKeep

(* When a listener takes a message off its wire, its items come next. *)
LEMMA TakingKeeps ==
  ASSUME ListenInv, NEW l \in Listener, NEW channel, TakeFrame(l, channel)
  PROVE  /\ trades[l] = <<>>
         /\ Keeps(Chunks(Head(wire[l]).items, Tail(wire[l])), Len(Tail(wire[l])),
                  arrived[l], published[l], sent[l])
<1> DEFINE first == Head(wire[l]).items
           w2 == Tail(wire[l])
           m == Len(w2)
           ch == Chunks(trades[l], wire[l])
           ch2 == Chunks(first, w2)
<1>1. pc[l] = "select"
  BY DEF TakeFrame
<1>2. /\ trades[l] = <<>> /\ trades[l] \in Seq(Message) /\ wire[l] \in Seq(Frame)
      /\ Keeps(ch, Len(wire[l]), arrived[l], published[l], sent[l])
  BY <1>1, ListenTypes
<1>3. /\ first = wire[l][1].items /\ first \in Seq(Message) /\ w2 \in Seq(Frame)
      /\ Len(wire[l]) \in Nat \ {0} /\ m = Len(wire[l]) - 1
      /\ \A j \in 1..m : w2[j] = wire[l][j + 1]
  BY TakingTyped DEF ListenInv
<1> HIDE DEF first, w2, m, ch, ch2
<1>4. m \in Nat /\ Len(wire[l]) = m + 1
  BY <1>3
<1>5. ch[0] = <<>> /\ \A j \in 1..Len(wire[l]) : ch[j] = wire[l][j].items
  BY <1>2, ChunksAre DEF ch
<1>6. ch2[0] = first /\ \A j \in 1..m : ch2[j] = w2[j].items
  BY <1>3, ChunksAre DEF ch2, m
<1>7. ASSUME NEW j \in 0..m PROVE ch2[j] = ch[j + 1]
  <2>1. j + 1 \in 1..Len(wire[l]) /\ (j = 0 \/ j \in 1..m)
    BY <1>4
  <2>2. ch[j + 1] = wire[l][j + 1].items
    BY <1>5, <2>1
  <2>3. CASE j = 0
    BY <1>3, <1>6, <2>2, <2>3
  <2>4. CASE j \in 1..m
    BY <1>3, <1>6, <2>2, <2>4
  <2> QED BY <2>1, <2>3, <2>4
<1>8. Keeps(ch, m + 1, arrived[l], published[l], sent[l])
  BY <1>2, <1>4
<1>9. Keeps(ch2, m, arrived[l], published[l], sent[l])
  BY <1>4, <1>5, <1>7, <1>8, ShiftKeeps
<1> QED BY <1>2, <1>9 DEF ch2, first, w2, m

(* The rest of a message, after an item that is skipped or published. *)
LEMMA RestKeeps ==
  ASSUME NEW rest \in Seq(Message), NEW w \in Seq(Frame), NEW arr \in Seq(Item),
         NEW pub \in Seq(Item), NEW top, rest # <<>>,
         Keeps(Chunks(rest, w), Len(w), arr, pub, top)
  PROVE  /\ ~Head(rest).parses => Keeps(Chunks(Tail(rest), w), Len(w), arr, pub, top)
         /\ Head(rest).parses =>
              /\ Len(pub) < Len(arr) /\ arr[Len(pub) + 1] = Head(rest).n
              /\ Keeps(Chunks(Tail(rest), w), Len(w), arr, Append(pub, Head(rest).n), top)
<1> DEFINE m == Len(w)
           ch == Chunks(rest, w)
           ch2 == Chunks(Tail(rest), w)
<1>1. Tail(rest) \in Seq(Message) /\ Head(rest) = rest[1]
  BY TailIs
<1>2. m \in Nat /\ ch[0] = rest /\ \A j \in 0..m : ch[j] \in Seq(Message)
  BY ChunksAre
<1>3. ch2[0] = Tail(rest) /\ \A j \in 1..m : ch2[j] = ch[j]
  <2>1. \A j \in 1..m : ch[j] = w[j].items
    BY ChunksAre
  <2>2. ch2[0] = Tail(rest) /\ \A j \in 1..m : ch2[j] = w[j].items
    BY <1>1, ChunksAre
  <2> QED BY <2>1, <2>2
<1>4. Keeps(ch, m, arr, pub, top)
  OBVIOUS
<1> HIDE DEF m, ch, ch2
<1>5. ASSUME ~Head(rest).parses PROVE Keeps(ch2, m, arr, pub, top)
  BY <1>2, <1>3, <1>4, <1>5, SkipKeeps
<1>6. ASSUME Head(rest).parses
      PROVE  Len(pub) < Len(arr) /\ arr[Len(pub) + 1] = Head(rest).n
  BY <1>1, <1>2, <1>4, <1>6, FirstIsNext
<1>7. ASSUME Head(rest).parses PROVE Keeps(ch2, m, arr, Append(pub, Head(rest).n), top)
  BY <1>2, <1>3, <1>4, <1>7, PublishKeeps
<1> QED BY <1>5, <1>6, <1>7 DEF m, ch2

(* What a listener publishes is what arrived next. *)
PublishesNext(l) ==
  /\ Len(published[l]) < Len(arrived[l])
  /\ published' = [published EXCEPT ![l] = Append(@, arrived[l][Len(@) + 1])]

LEMMA PublishTradeKeeps ==
  ASSUME ListenInv, NEW l \in Listener, PublishTrade(l)
  PROVE  InStep' /\ PublishesNext(l)
<1>1. /\ trades[l] # <<>> /\ Head(trades[l]).parses
      /\ published' = [published EXCEPT ![l] = Append(published[l], Head(trades[l]).n)]
      /\ trades' = [trades EXCEPT ![l] = Tail(trades[l])]
      /\ UNCHANGED <<wire, sent, arrived>>
  BY DEF PublishTrade, Publish, serverVars
<1>2. /\ trades[l] \in Seq(Message) /\ wire[l] \in Seq(Frame) /\ trades \in [Listener -> Seq(Message)]
      /\ arrived[l] \in Seq(Item) /\ published[l] \in Seq(Item)
      /\ published \in [Listener -> Seq(Item)]
      /\ Keeps(Chunks(trades[l], wire[l]), Len(wire[l]), arrived[l], published[l], sent[l])
  BY ListenTypes
<1>3. /\ Len(published[l]) < Len(arrived[l])
      /\ arrived[l][Len(published[l]) + 1] = Head(trades[l]).n
      /\ Keeps(Chunks(Tail(trades[l]), wire[l]), Len(wire[l]), arrived[l],
               Append(published[l], Head(trades[l]).n), sent[l])
  <2> DEFINE rest == trades[l]
             w == wire[l]
             arr == arrived[l]
             pub == published[l]
             top == sent[l]
  <2>1. /\ rest \in Seq(Message) /\ w \in Seq(Frame) /\ arr \in Seq(Item) /\ pub \in Seq(Item)
        /\ rest # <<>> /\ Head(rest).parses /\ Keeps(Chunks(rest, w), Len(w), arr, pub, top)
    BY <1>1, <1>2
  <2> HIDE DEF rest, w, arr, pub, top
  <2>2. /\ Len(pub) < Len(arr) /\ arr[Len(pub) + 1] = Head(rest).n
        /\ Keeps(Chunks(Tail(rest), w), Len(w), arr, Append(pub, Head(rest).n), top)
    BY <2>1, RestKeeps
  <2> QED BY <2>2 DEF rest, w, arr, pub, top
<1>4. PublishesNext(l)
  BY <1>1, <1>3 DEF PublishesNext
<1>5. /\ trades'[l] = Tail(trades[l]) /\ wire'[l] = wire[l] /\ arrived'[l] = arrived[l]
      /\ published'[l] = Append(published[l], Head(trades[l]).n) /\ sent'[l] = sent[l]
  BY <1>1, <1>2
<1>6. \A h \in Listener \ {l} :
        /\ trades'[h] = trades[h] /\ wire'[h] = wire[h] /\ arrived'[h] = arrived[h]
        /\ published'[h] = published[h] /\ sent'[h] = sent[h]
  BY <1>1, <1>2
<1>7. Keeps(Chunks(trades'[l], wire'[l]), Len(wire'[l]), arrived'[l], published'[l], sent'[l])
  BY <1>3, <1>5
<1> QED BY <1>4, <1>6, <1>7, OthersKeep

LEMMA SkipTradeKeeps ==
  ASSUME ListenInv, NEW l \in Listener, SkipTrade(l)
  PROVE  InStep'
<1>1. /\ trades[l] # <<>> /\ ~Head(trades[l]).parses
      /\ trades' = [trades EXCEPT ![l] = Tail(trades[l])]
      /\ UNCHANGED <<wire, sent, arrived, published>>
  BY DEF SkipTrade, AfterBad, serverVars, ringVars
<1>2. /\ trades[l] \in Seq(Message) /\ wire[l] \in Seq(Frame) /\ trades \in [Listener -> Seq(Message)]
      /\ arrived[l] \in Seq(Item) /\ published[l] \in Seq(Item)
      /\ Keeps(Chunks(trades[l], wire[l]), Len(wire[l]), arrived[l], published[l], sent[l])
  BY ListenTypes
<1>3. Keeps(Chunks(Tail(trades[l]), wire[l]), Len(wire[l]), arrived[l], published[l], sent[l])
  BY <1>1, <1>2, RestKeeps
<1>4. trades'[l] = Tail(trades[l]) /\ \A h \in Listener \ {l} : trades'[h] = trades[h]
  BY <1>1, <1>2
<1>5. Keeps(Chunks(trades'[l], wire'[l]), Len(wire'[l]), arrived'[l], published'[l], sent'[l])
  BY <1>1, <1>3, <1>4
<1> QED BY <1>1, <1>4, <1>5, OthersKeep

LEMMA ReceiveTradesKeeps ==
  ASSUME ListenInv, NEW l \in Listener, ReceiveTrades(l)
  PROVE  InStep'
<1>1. /\ TakeFrame(l, "trades")
      /\ trades' = [trades EXCEPT ![l] = Head(wire[l]).items]
      /\ UNCHANGED <<sent, arrived, published>>
  BY DEF ReceiveTrades, TakeFrame
<1>2. wire' = [wire EXCEPT ![l] = Tail(wire[l])]
  BY <1>1, TakingTyped DEF ListenInv
<1>3. trades \in [Listener -> Seq(Message)] /\ wire \in [Listener -> Seq(Frame)]
  BY ListenTypes
<1>4. Keeps(Chunks(Head(wire[l]).items, Tail(wire[l])), Len(Tail(wire[l])),
            arrived[l], published[l], sent[l])
  BY <1>1, TakingKeeps
<1>5. /\ trades'[l] = Head(wire[l]).items /\ wire'[l] = Tail(wire[l])
      /\ \A h \in Listener \ {l} : trades'[h] = trades[h] /\ wire'[h] = wire[h]
  BY <1>1, <1>2, <1>3
<1>6. Keeps(Chunks(trades'[l], wire'[l]), Len(wire'[l]), arrived'[l], published'[l], sent'[l])
  BY <1>1, <1>4, <1>5
<1> QED BY <1>1, <1>5, <1>6, OthersKeep

LEMMA ReceiveOtherKeeps ==
  ASSUME ListenInv, NEW l \in Listener, ReceiveOther(l)
  PROVE  InStep'
<1>1. TakeFrame(l, "other") /\ UNCHANGED <<trades, sent, arrived, published>>
  BY DEF ReceiveOther, TakeFrame
<1>2. wire' = [wire EXCEPT ![l] = Tail(wire[l])] /\ Head(wire[l]).items = <<>>
  BY <1>1, TakingTyped DEF ListenInv
<1>3. wire \in [Listener -> Seq(Frame)]
  BY ListenTypes
<1>4. /\ trades[l] = <<>>
      /\ Keeps(Chunks(Head(wire[l]).items, Tail(wire[l])), Len(Tail(wire[l])),
               arrived[l], published[l], sent[l])
  BY <1>1, TakingKeeps
<1>5. wire'[l] = Tail(wire[l]) /\ \A h \in Listener \ {l} : wire'[h] = wire[h]
  BY <1>2, <1>3
<1>6. Keeps(Chunks(trades'[l], wire'[l]), Len(wire'[l]), arrived'[l], published'[l], sent'[l])
  BY <1>1, <1>2, <1>4, <1>5
<1> QED BY <1>1, <1>5, <1>6, OthersKeep

LEMMA ReceiveBboKeeps ==
  ASSUME ListenInv, NEW l \in Listener, ReceiveBbo(l)
  PROVE  /\ InStep'
         /\ UNCHANGED published \/ PublishesNext(l)
<1> DEFINE items == Head(wire[l]).items
<1>1. /\ TakeFrame(l, "bbo") /\ UNCHANGED <<trades, sent, arrived>>
      /\ IF Head(items).parses
         THEN published' = [published EXCEPT ![l] = Append(published[l], Head(items).n)]
         ELSE published' = published
  BY DEF ReceiveBbo, TakeFrame, Publish
<1>2. wire' = [wire EXCEPT ![l] = Tail(wire[l])] /\ Tail(wire[l]) \in Seq(Frame)
      /\ items \in Seq(Message) /\ Len(items) = 1
  BY <1>1, TakingTyped DEF ListenInv
<1>3. /\ wire \in [Listener -> Seq(Frame)] /\ published \in [Listener -> Seq(Item)]
      /\ arrived[l] \in Seq(Item) /\ published[l] \in Seq(Item)
  BY ListenTypes
<1>4. /\ trades[l] = <<>>
      /\ Keeps(Chunks(items, Tail(wire[l])), Len(Tail(wire[l])),
               arrived[l], published[l], sent[l])
  BY <1>1, TakingKeeps
<1> HIDE DEF items
<1>5. items # <<>> /\ Tail(items) = <<>>
  <2>1. items \in Seq(Message) /\ Len(items) = 1
    BY <1>2
  <2> QED BY <2>1, OneItem
<1>6. /\ wire'[l] = Tail(wire[l]) /\ \A h \in Listener \ {l} : wire'[h] = wire[h]
      /\ \A h \in Listener \ {l} : published'[h] = published[h]
  BY <1>1, <1>2, <1>3
<1>7. CASE ~Head(items).parses
  <2>1. Keeps(Chunks(<<>>, Tail(wire[l])), Len(Tail(wire[l])), arrived[l], published[l], sent[l])
    BY <1>2, <1>3, <1>4, <1>5, <1>7, RestKeeps
  <2>2. published' = published
    BY <1>1, <1>7
  <2>3. Keeps(Chunks(trades'[l], wire'[l]), Len(wire'[l]), arrived'[l], published'[l], sent'[l])
    BY <1>1, <1>4, <1>6, <2>1, <2>2
  <2> QED BY <1>1, <1>6, <2>2, <2>3, OthersKeep
<1>8. CASE Head(items).parses
  <2>1. /\ Len(published[l]) < Len(arrived[l])
        /\ arrived[l][Len(published[l]) + 1] = Head(items).n
        /\ Keeps(Chunks(Tail(items), Tail(wire[l])), Len(Tail(wire[l])), arrived[l],
                 Append(published[l], Head(items).n), sent[l])
    BY <1>2, <1>3, <1>4, <1>5, <1>8, RestKeeps
  <2>2. published' = [published EXCEPT ![l] = Append(published[l], Head(items).n)]
    BY <1>1, <1>8
  <2>3. published'[l] = Append(published[l], Head(items).n)
    BY <1>3, <2>2
  <2>4. Keeps(Chunks(trades'[l], wire'[l]), Len(wire'[l]), arrived'[l], published'[l], sent'[l])
    BY <1>1, <1>4, <1>5, <1>6, <2>1, <2>3
  <2>5. PublishesNext(l)
    BY <2>1, <2>2 DEF PublishesNext
  <2> QED BY <1>1, <1>6, <2>4, <2>5, OthersKeep
<1> QED BY <1>7, <1>8

LEMMA ListenInit == Init => ListenInv
<1> SUFFICES ASSUME Init PROVE InStep
  BY TypeInit DEF ListenInv
<1> SUFFICES ASSUME NEW l \in Listener
             PROVE  Keeps(Chunks(trades[l], wire[l]), Len(wire[l]), arrived[l], published[l], sent[l])
  BY DEF InStep
<1>1. trades[l] = <<>> /\ wire[l] = <<>> /\ arrived[l] = <<>> /\ published[l] = <<>>
  BY DEF Init
<1>2. Len(<<>>) = 0
  OBVIOUS
<1>3. \A j \in 0..0 : Chunks(<<>>, <<>>)[j] = <<>>
  BY DEF Chunks
<1>4. \A i \in 1..0 : FALSE
  OBVIOUS
<1>5. InLine(Chunks(<<>>, <<>>), 0, sent[l])
  BY <1>2, <1>3, <1>4 DEF InLine, Rising, Before
<1>6. Awaits(Chunks(<<>>, <<>>), 0, <<>>, 0)
  BY <1>2, <1>3 DEF Awaits
<1>7. Increases(<<>>, sent[l]) /\ Starts(<<>>, <<>>)
  BY <1>2 DEF Increases, Starts
<1> QED BY <1>1, <1>2, <1>5, <1>6, <1>7 DEF Keeps

(* The other steps have no part in what is published. *)
OtherStep ==
  \/ \E l \in Listener : \/ Listen(l) \/ Connected(l) \/ Subscribe(l) \/ ConnectPanics(l)
                         \/ Subscribed(l) \/ ConnectionEnds(l) \/ TradesDone(l) \/ SelectPanics(l)
  \/ Handle \/ HandlerPanics \/ UNCHANGED vars

LEMMA OtherStepKeeps ==
  OtherStep => UNCHANGED <<trades, wire, sent, arrived, published>>
BY DEF OtherStep, Listen, Connected, Subscribe, ConnectPanics, Subscribed, ConnectionEnds,
       TradesDone, SelectPanics, Handle, HandlerPanics, vars, serverVars, ringVars

LEMMA StepIs ==
  ASSUME [Next]_vars
  PROVE  \/ \E l \in Listener : \/ ReceiveOther(l) \/ ReceiveBbo(l) \/ ReceiveTrades(l)
                                \/ SkipTrade(l) \/ PublishTrade(l)
         \/ \E l \in Listener : \E channel, k, good : Sending(l, channel, k, good)
         \/ OtherStep
<1>1. CASE UNCHANGED vars \/ Handle \/ HandlerPanics
  BY <1>1 DEF OtherStep
<1>2. ASSUME NEW l \in Listener, Listen(l) \/ Task(l) \/ ConnectionEnds(l)
      PROVE  OtherStep \/ ReceiveOther(l) \/ ReceiveBbo(l) \/ ReceiveTrades(l)
                       \/ SkipTrade(l) \/ PublishTrade(l)
  BY <1>2 DEF Task, OtherStep
<1>3. ASSUME NEW l \in Listener, SendTrades(l) \/ SendBbo(l) \/ SendOther(l)
      PROVE  \E channel, k, good : Sending(l, channel, k, good)
  BY <1>3, ExchangeSends
<1> QED BY <1>1, <1>2, <1>3 DEF Next, Exchange

LEMMA ListenStep == ListenInv /\ [Next]_vars => ListenInv'
<1> SUFFICES ASSUME ListenInv, [Next]_vars PROVE InStep'
  BY TypeStep DEF ListenInv
<1>1. CASE OtherStep
  BY <1>1, OtherStepKeeps DEF ListenInv, InStep
<1> QED BY <1>1, StepIs, ReceiveOtherKeeps, ReceiveBboKeeps, ReceiveTradesKeeps, SkipTradeKeeps,
           PublishTradeKeeps, SendingKeeps

(* What a listener has still to publish is always what parses of the rest  *)
(* of its message and of its connection, in the order of both (listen,     *)
(* hyperliquid.rs:152-272).                                                *)
THEOREM ListenersKeepUp == Spec => []ListenInv
BY ListenInit, ListenStep, PTL DEF Spec

(* Every trade and every bbo that parses is published exactly once and in  *)
(* the order of its connection, whatever the other listeners and the       *)
(* consumer of the ring do (listen, hyperliquid.rs:160-262): the listeners *)
(* implement Relay.                                                        *)
THEOREM ListenersImplementRelay == Spec => ImplementsRelay
<1>1. Init => Promise!RelayInit
  BY DEF Init, Promise!RelayInit
<1>2. ASSUME ListenInv, [Next]_vars
      PROVE  [Promise!RelayNext]_(Promise!relayVars)
  <2>1. ASSUME NEW l \in Listener, PublishesNext(l), arrived' = arrived
        PROVE  Promise!Pass(l)
    BY <2>1 DEF PublishesNext, Promise!Pass
  <2>2. ASSUME NEW l \in Listener, NEW channel, NEW k, NEW good, Sending(l, channel, k, good)
        PROVE  Promise!Arrive(l)
    <3> DEFINE new == [j \in 1..Len(good) |-> sent[l] + good[j]]
               a == arrived[l]
               b == a \o new
    <3>1. arrived' = [arrived EXCEPT ![l] = b] /\ published' = published
      BY <2>2 DEF Sending, Put, ringVars
    <3>2. arrived \in [Listener -> Seq(Item)] /\ a \in Seq(Item) /\ sent[l] \in Nat
      BY <1>2, ListenTypes
    <3>3. a \in Seq(Nat)
      BY <3>2, NumbersOfItems
    <3>4. new \in Seq(Nat)
      <4>1. ArePlaces(good, k) /\ k \in Nat
        BY <2>2 DEF Sending
      <4>2. \A j \in 1..Len(good) : sent[l] + good[j] \in Nat
        BY <3>2, <4>1 DEF ArePlaces
      <4> QED BY <4>1, <4>2 DEF ArePlaces
    <3> HIDE DEF new, a
    <3>5. Len(a) <= Len(b) /\ SubSeq(a, 1, Len(a)) = SubSeq(b, 1, Len(a))
      BY <3>3, <3>4
    <3>6. arrived'[l] = b
      BY <3>1, <3>2
    <3> HIDE DEF b
    <3>7. Promise!IsPrefix(a, b)
      BY <3>5 DEF Promise!IsPrefix
    <3>8. arrived' = [arrived EXCEPT ![l] = arrived'[l]]
      BY <3>1, <3>6
    <3> QED BY <3>1, <3>6, <3>7, <3>8 DEF Promise!Arrive, a
  <2>3. CASE OtherStep
    BY <2>3, OtherStepKeeps DEF Promise!relayVars
  <2>4. ASSUME NEW l \in Listener,
               ReceiveOther(l) \/ ReceiveBbo(l) \/ ReceiveTrades(l) \/ SkipTrade(l) \/ PublishTrade(l)
        PROVE  arrived' = arrived /\ (UNCHANGED published \/ PublishesNext(l))
    <3>1. CASE ReceiveBbo(l)
      BY <1>2, <3>1, ReceiveBboKeeps DEF ReceiveBbo, TakeFrame
    <3>2. CASE PublishTrade(l)
      BY <1>2, <3>2, PublishTradeKeeps DEF PublishTrade, serverVars
    <3>3. CASE ReceiveOther(l) \/ ReceiveTrades(l) \/ SkipTrade(l)
      BY <3>3 DEF ReceiveOther, ReceiveTrades, SkipTrade, TakeFrame, serverVars, ringVars
    <3> QED BY <2>4, <3>1, <3>2, <3>3
  <2>5. CASE \E l \in Listener : \/ ReceiveOther(l) \/ ReceiveBbo(l) \/ ReceiveTrades(l)
                                 \/ SkipTrade(l) \/ PublishTrade(l)
    <3>1. PICK l \in Listener : \/ ReceiveOther(l) \/ ReceiveBbo(l) \/ ReceiveTrades(l)
                                \/ SkipTrade(l) \/ PublishTrade(l)
      BY <2>5
    <3>2. arrived' = arrived /\ (UNCHANGED published \/ PublishesNext(l))
      BY <2>4, <3>1
    <3>3. CASE UNCHANGED published
      BY <3>2, <3>3 DEF Promise!relayVars
    <3>4. CASE PublishesNext(l)
      <4>1. Promise!Pass(l)
        BY <2>1, <3>2, <3>4
      <4>2. Promise!RelayNext
        BY <4>1, Zenon DEF Promise!RelayNext
      <4> QED BY <4>2
    <3> QED BY <3>2, <3>3, <3>4
  <2> QED BY <1>2, <2>2, <2>3, <2>5, StepIs DEF Promise!RelayNext
<1> QED BY ListenersKeepUp, <1>1, <1>2, PTL DEF Spec, ImplementsRelay, Promise!RelaySpec
-----------------------------------------------------------------------------
(***************************************************************************)
(* A connection that ends is drained.                                      *)
(***************************************************************************)
LEMMA NothingLeft ==
  ASSUME NEW arr \in Seq(Item), NEW pub \in Seq(Item), NEW top, NEW ch, ch[0] = <<>>,
         Keeps(ch, 0, arr, pub, top)
  PROVE  pub = arr
<1>1. Len(pub) \in Nat /\ Len(arr) \in Nat /\ Len(pub) <= Len(arr)
      /\ \A i \in 1..Len(pub) : pub[i] = arr[i]
  BY DEF Keeps, Starts
<1>2. ~(Len(pub) < Len(arr))
  <2> SUFFICES ASSUME Len(pub) < Len(arr) PROVE FALSE
    OBVIOUS
  <2>1. Len(arr) \in (Len(pub) + 1)..Len(arr)
    BY <1>1
  <2>2. \E j \in 0..0 : \E i \in 1..Len(ch[j]) : ch[j][i].parses /\ ch[j][i].n = arr[Len(arr)]
    BY <2>1 DEF Keeps, Awaits
  <2>3. \E i \in 1..Len(ch[0]) : TRUE
    BY <2>2
  <2> QED BY <2>3
<1>3. Len(pub) = Len(arr)
  BY <1>1, <1>2
<1> QED BY <1>1, <1>3

LEMMA DrainInit == Init => DrainInv
<1> SUFFICES ASSUME Init PROVE Connections /\ DrainedBeforePanic
  BY ListenInit DEF DrainInv
<1> QED BY DEF Init, Connections, DrainedBeforePanic

LEMMA DrainStep == DrainInv /\ [Next]_vars => DrainInv'
<1> SUFFICES ASSUME DrainInv, [Next]_vars PROVE Connections' /\ DrainedBeforePanic'
  BY ListenStep DEF DrainInv
<1>a. /\ pc \in [Listener -> {"new", "connect", "subscribe", "select", "publish", "panicked"}]
      /\ subs \in [Listener -> 0..(2 * Coins)]
      /\ conn \in [Listener -> {"none", "open", "ended"}]
      /\ ListenInv
  BY DEF DrainInv, ListenInv, TypeOK
<1>b. \A l \in Listener : /\ pc[l] \in {"new", "connect"} => conn[l] = "none"
                          /\ conn[l] = "none" => arrived[l] = <<>>
                          /\ pc[l] = "panicked" => conn[l] # "open"
                          /\ pc[l] = "panicked" /\ subs[l] = 2 * Coins => published[l] = arrived[l]
  BY DEF DrainInv, Connections, DrainedBeforePanic
<1>c. \A l \in Listener : arrived[l] = <<>> => published[l] = <<>>
  <2> SUFFICES ASSUME NEW l \in Listener, arrived[l] = <<>> PROVE published[l] = <<>>
    OBVIOUS
  <2>1. published[l] \in Seq(Item) /\ Starts(published[l], arrived[l])
    BY <1>a, ListenTypes DEF Keeps
  <2>2. Len(arrived[l]) = 0 /\ Len(published[l]) \in Nat
    BY <2>1
  <2>3. Len(published[l]) = 0
    BY <2>1, <2>2 DEF Starts
  <2> QED BY <2>1, <2>3
<1> DEFINE Good == \A l \in Listener :
             /\ pc'[l] \in {"new", "connect"} => conn'[l] = "none"
             /\ conn'[l] = "none" => arrived'[l] = <<>>
             /\ pc'[l] = "panicked" => conn'[l] # "open"
             /\ pc'[l] = "panicked" /\ subs'[l] = 2 * Coins => published'[l] = arrived'[l]
<1> SUFFICES Good
  BY DEF Connections, DrainedBeforePanic
<1>1. ASSUME NEW l \in Listener, Listen(l) PROVE Good
  BY <1>1, <1>a, <1>b DEF Listen, Goto, serverVars, ringVars
<1>2. ASSUME NEW l \in Listener, Connected(l) PROVE Good
  BY <1>2, <1>a, <1>b DEF Connected, Goto, ringVars
<1>3. ASSUME NEW l \in Listener, Subscribe(l) PROVE Good
  BY <1>3, <1>a, <1>b DEF Subscribe, serverVars, ringVars
<1>4. ASSUME NEW l \in Listener, ConnectPanics(l) PROVE Good
  <2>1. /\ UNCHANGED <<subs, conn, arrived, published>>
        /\ pc' = [pc EXCEPT ![l] = "panicked"]
        /\ \/ pc[l] = "connect"
           \/ subs[l] < 2 * Coins /\ conn[l] = "ended"
    BY <1>4 DEF ConnectPanics, Goto, serverVars, ringVars
  <2>2. subs[l] < 2 * Coins => subs[l] # 2 * Coins
    BY <1>a, ListenerAssumption
  <2> QED BY <1>a, <1>b, <1>c, <2>1, <2>2
<1>5. ASSUME NEW l \in Listener, Subscribed(l) PROVE Good
  BY <1>5, <1>a, <1>b DEF Subscribed, Goto, serverVars, ringVars
<1>6. ASSUME NEW l \in Listener, NEW channel, NEW k, NEW good, Sending(l, channel, k, good) PROVE Good
  <2>1. /\ conn[l] = "open" /\ UNCHANGED <<pc, subs, conn, published>>
        /\ \A h \in Listener \ {l} : arrived'[h] = arrived[h]
    <3>1. arrived \in [Listener -> Seq(Item)]
      BY <1>a, ListenTypes
    <3> QED BY <1>6, <3>1 DEF Sending, Put, ringVars
  <2> QED BY <1>b, <2>1
<1>7. ASSUME NEW l \in Listener, ConnectionEnds(l) PROVE Good
  BY <1>7, <1>a, <1>b DEF ConnectionEnds, ringVars
<1>8. ASSUME NEW l \in Listener,
             ReceiveOther(l) \/ ReceiveBbo(l) \/ ReceiveTrades(l) \/ SkipTrade(l) \/ PublishTrade(l)
      PROVE  Good
  <2>1. /\ pc[l] \in {"select", "publish"} /\ pc'[l] \in {"select", "publish"}
        /\ UNCHANGED <<subs, conn, arrived>>
        /\ \A h \in Listener \ {l} : pc'[h] = pc[h]
    BY <1>8, <1>a DEF ReceiveOther, ReceiveBbo, ReceiveTrades, SkipTrade, PublishTrade,
                      TakeFrame, Goto, serverVars, ringVars
  <2>2. \A h \in Listener \ {l} : published'[h] = published[h]
    <3>1. published \in [Listener -> Seq(Item)]
      BY <1>a, ListenTypes
    <3> QED BY <1>8, <3>1 DEF ReceiveOther, ReceiveBbo, ReceiveTrades, SkipTrade, PublishTrade,
                              Publish, TakeFrame, Goto, serverVars, ringVars
  <2> QED BY <1>b, <2>1, <2>2
<1>9. ASSUME NEW l \in Listener, TradesDone(l) PROVE Good
  BY <1>9, <1>a, <1>b DEF TradesDone, Goto, serverVars, ringVars
<1>10. ASSUME NEW l \in Listener, SelectPanics(l) PROVE Good
  <2>1. /\ conn[l] = "ended" /\ wire[l] = <<>> /\ pc[l] = "select"
        /\ pc' = [pc EXCEPT ![l] = "panicked"] /\ UNCHANGED <<subs, conn, arrived, published>>
    BY <1>10 DEF SelectPanics, NextIsNone, Goto, serverVars, ringVars
  <2>2. published[l] = arrived[l]
    <3>1. /\ trades[l] = <<>> /\ arrived[l] \in Seq(Item) /\ published[l] \in Seq(Item)
          /\ Keeps(Chunks(trades[l], wire[l]), Len(wire[l]), arrived[l], published[l], sent[l])
      BY <1>a, <2>1, ListenTypes
    <3>2. Len(wire[l]) = 0 /\ Chunks(trades[l], wire[l])[0] = <<>>
      BY <2>1, <3>1 DEF Chunks
    <3> QED BY <3>1, <3>2, NothingLeft
  <2> QED BY <1>a, <1>b, <2>1, <2>2
<1>11. CASE Handle \/ HandlerPanics \/ UNCHANGED vars
  BY <1>11, <1>b DEF Handle, HandlerPanics, vars, serverVars, ringVars
<1> HIDE DEF Good
<1>12. CASE OtherStep
  BY <1>12, <1>1, <1>2, <1>3, <1>4, <1>5, <1>7, <1>9, <1>10, <1>11 DEF OtherStep
<1> QED BY <1>6, <1>8, <1>12, StepIs

(* A listener that panics because its connection ended, WS_TX holding      *)
(* another listener's sender, has published everything the connection      *)
(* brought (select! in listen, hyperliquid.rs:160-161, 265-269).           *)
THEOREM ListenersDrain == Spec => []DrainedBeforePanic
<1>1. DrainInv => DrainedBeforePanic
  BY DEF DrainInv
<1> QED BY DrainInit, DrainStep, <1>1, PTL DEF Spec
=============================================================================
