-------------------- MODULE NativeExpirationBufferProofs --------------------
(***************************************************************************)
(* Theorems about NativeExpirationBuffer, for every set of threads and     *)
(* values, every ttl and every bound.                                      *)
(***************************************************************************)
EXTENDS NativeExpirationBuffer, TLAPS

(***************************************************************************)
(* The deque and the entries around it.                                    *)
(***************************************************************************)

(* Moving the front of a deque to the end of what was evicted (native.rs:  *)
(* 61-65) leaves the sequence of all entries as it was.                    *)
LEMMA EvictMoves ==
  ASSUME NEW S, NEW e \in Seq(S), NEW q \in Seq(S), NEW r \in Seq(S), q # <<>>
  PROVE  Append(e, Head(q)) \o Tail(q) \o r = e \o q \o r
<1>1. Append(e, Head(q)) \o Tail(q) = e \o q
  OBVIOUS
<1> QED BY <1>1

(* Pushing behind the deque (55-56) and having pushed are the same         *)
(* sequence of all entries.                                                *)
LEMMA PushAppends ==
  ASSUME NEW S, NEW e \in Seq(S), NEW q \in Seq(S), NEW x \in S
  PROVE  /\ e \o Append(q, x) \o <<>> = e \o q \o <<x>>
         /\ e \o q \o <<x>> = Append(e \o q \o <<>>, x)
<1>1. e \o Append(q, x) = e \o q \o <<x>>
  OBVIOUS
<1>2. e \o q \o <<x>> = Append(e \o q, x)
  OBVIOUS
<1>3. e \o Append(q, x) \o <<>> = e \o Append(q, x) /\ e \o q \o <<>> = e \o q
  OBVIOUS
<1> QED BY <1>1, <1>2, <1>3

LEMMA EntriesInAdded ==
  ASSUME TypeOK
  PROVE  Pending \in Seq(Entry) /\ Added \in Seq(Entry)
<1>1. Pending \in Seq(Entry)
  BY DEF TypeOK, Pending
<1>2. evicted \o list \in Seq(Entry)
  BY DEF TypeOK
<1> QED BY <1>1, <1>2 DEF Added

LEMMA ValuesTyped ==
  ASSUME NEW q \in Seq(Entry)
  PROVE  ValuesOf(q) \in Seq(Value)
<1>1. ASSUME NEW i \in 1..Len(q) PROVE q[i].val \in Value
  <2>1. q[i] \in Entry
    OBVIOUS
  <2> QED BY <2>1 DEF Entry
<1>2. ValuesOf(q) \in [1..Len(q) -> Value]
  BY <1>1 DEF ValuesOf, Window!ValuesOf
<1>3. Len(q) \in Nat
  OBVIOUS
<1> QED BY <1>2, <1>3
-----------------------------------------------------------------------------
(***************************************************************************)
(* Types.                                                                  *)
(***************************************************************************)
LEMMA TypeInit == Init => TypeOK
BY BufferAssumption DEF Init, TypeOK

(* One step per action; a thread only moves its own pc.                    *)
LEMMA TypeStep == TypeOK /\ [Next]_vars => TypeOK'
<1> SUFFICES ASSUME TypeOK, [Next]_vars PROVE TypeOK'
  OBVIOUS
<1> USE BufferAssumption
<1>1. CASE Tick
  BY <1>1 DEF Tick, TypeOK
<1>2. ASSUME NEW t \in Adder, LockForAdd(t) PROVE TypeOK'
  BY <1>2 DEF LockForAdd, Lock, Goto, TypeOK, Thread
<1>3. ASSUME NEW t \in Getter, LockForGet(t) PROVE TypeOK'
  BY <1>3 DEF LockForGet, Lock, Goto, TypeOK, Thread
<1>4. ASSUME NEW t \in Thread, Stamp(t) PROVE TypeOK'
  <2>1. PICK v \in Value : arg' = [arg EXCEPT ![t] = [at |-> clock, val |-> v]]
    BY <1>4 DEF Stamp
  <2>2. [at |-> clock, val |-> v] \in Entry
    BY DEF TypeOK, Entry
  <2> QED BY <1>4, <2>1, <2>2 DEF Stamp, Goto, TypeOK
<1>5. ASSUME NEW t \in Thread, Push(t) PROVE TypeOK'
  <2>1. arg[t] \in Entry /\ holder = t
    BY <1>5 DEF Push, TypeOK
  <2>2. list' \in Seq(Entry)
    BY <1>5, <2>1 DEF Push, TypeOK
  <2> QED BY <1>5, <2>1, <2>2 DEF Push, Goto, TypeOK
<1>6. ASSUME NEW t \in Thread, Evict(t) PROVE TypeOK'
  <2>1. list' \in Seq(Entry) /\ evicted' \in Seq(Entry)
    BY <1>6 DEF Evict, TypeOK
  <2> QED BY <1>6, <2>1 DEF Evict, TypeOK
<1>7. ASSUME NEW t \in Thread, EvictDone(t) PROVE TypeOK'
  BY <1>7 DEF EvictDone, Goto, TypeOK
<1>8. ASSUME NEW t \in Thread, Collect(t) PROVE TypeOK'
  <2>1. ValuesOf(list) \in Seq(Value) /\ holder = t
    BY <1>8, ValuesTyped DEF Collect, TypeOK
  <2>2. got' \in [Thread -> Seq(Value)]
    BY <1>8, <2>1 DEF Collect, TypeOK
  <2> QED BY <1>8, <2>1, <2>2 DEF Collect, Goto, TypeOK
<1>9. CASE UNCHANGED vars
  BY <1>9 DEF vars, TypeOK
<1> QED BY <1>1, <1>2, <1>3, <1>4, <1>5, <1>6, <1>7, <1>8, <1>9 DEF Next, UnderLock

(* The variables of the native buffer keep their types, and the write lock *)
(* excludes: only its holder is between taking and dropping the guard      *)
(* (native.rs:53-73).                                                      *)
THEOREM TypeCorrect == Spec => []TypeOK
BY TypeInit, TypeStep, PTL DEF Spec
-----------------------------------------------------------------------------
(***************************************************************************)
(* The order of the stamps.                                                *)
(***************************************************************************)

(* Every step leaves the sequence of all entries alone, or puts one behind *)
(* it that is stamped now: an entry is stamped and pushed under one lock.  *)
LEMMA AddedGrows ==
  ASSUME TypeOK, [Next]_vars
  PROVE  \/ Added' = Added /\ clock' \in {clock, clock + 1}
         \/ \E v \in Value : Added' = Append(Added, [at |-> clock, val |-> v]) /\ clock' = clock
<1> USE BufferAssumption
<1>1. CASE Tick
  BY <1>1 DEF Tick, Added, Pending
<1>2. ASSUME NEW t \in Adder, LockForAdd(t) PROVE Added' = Added /\ clock' = clock
  BY <1>2 DEF LockForAdd, Lock, Goto, Added, Pending, TypeOK, Thread
<1>3. ASSUME NEW t \in Getter, LockForGet(t) PROVE Added' = Added /\ clock' = clock
  BY <1>3 DEF LockForGet, Lock, Goto, Added, Pending, TypeOK, Thread
<1>4. ASSUME NEW t \in Thread, Stamp(t)
      PROVE \E v \in Value : Added' = Append(Added, [at |-> clock, val |-> v]) /\ clock' = clock
  <2>1. PICK v \in Value : arg' = [arg EXCEPT ![t] = [at |-> clock, val |-> v]]
    BY <1>4 DEF Stamp
  <2>2. [at |-> clock, val |-> v] \in Entry
    BY DEF TypeOK, Entry
  <2>3. Pending = <<>> /\ Pending' = <<[at |-> clock, val |-> v]>>
    BY <1>4, <2>1 DEF Stamp, Goto, Pending, TypeOK
  <2>4. evicted' = evicted /\ list' = list /\ clock' = clock
    BY <1>4 DEF Stamp
  <2>5. list \in Seq(Entry) /\ evicted \in Seq(Entry)
    BY DEF TypeOK
  <2> DEFINE e == [at |-> clock, val |-> v]
  <2>6. evicted \o list \o <<e>> = Append(evicted \o list \o <<>>, e)
    BY <2>2, <2>5, PushAppends
  <2>7. Added' = Append(Added, e)
    BY <2>3, <2>4, <2>6 DEF Added
  <2> QED BY <2>4, <2>7
<1>5. ASSUME NEW t \in Thread, Push(t) PROVE Added' = Added /\ clock' = clock
  <2>1. arg[t] \in Entry /\ holder = t
    BY <1>5 DEF Push, TypeOK
  <2>2. Pending = <<arg[t]>> /\ Pending' = <<>>
    BY <1>5, <2>1 DEF Push, Goto, Pending, TypeOK
  <2>3. evicted' = evicted /\ list' = Append(list, arg[t]) /\ clock' = clock
    BY <1>5 DEF Push
  <2> QED BY <2>1, <2>2, <2>3, PushAppends DEF Added, TypeOK
<1>6. ASSUME NEW t \in Thread, Evict(t) PROVE Added' = Added /\ clock' = clock
  <2>1. Pending \in Seq(Entry)
    BY EntriesInAdded
  <2>2. Pending' = Pending /\ clock' = clock
    BY <1>6 DEF Evict, Pending
  <2>3. evicted' = Append(evicted, Head(list)) /\ list' = Tail(list) /\ list # <<>>
    BY <1>6 DEF Evict
  <2>4. list \in Seq(Entry) /\ evicted \in Seq(Entry)
    BY DEF TypeOK
  <2>5. Append(evicted, Head(list)) \o Tail(list) \o Pending = evicted \o list \o Pending
    BY <2>1, <2>3, <2>4, EvictMoves
  <2> QED BY <2>2, <2>3, <2>5 DEF Added
<1>7. ASSUME NEW t \in Thread, EvictDone(t) PROVE Added' = Added /\ clock' = clock
  BY <1>7 DEF EvictDone, Goto, Added, Pending, TypeOK
<1>8. ASSUME NEW t \in Thread, Collect(t) PROVE Added' = Added /\ clock' = clock
  BY <1>8 DEF Collect, Goto, Added, Pending, TypeOK
<1>9. CASE UNCHANGED vars
  BY <1>9 DEF vars, Added, Pending
<1> QED BY <1>1, <1>2, <1>3, <1>4, <1>5, <1>6, <1>7, <1>8, <1>9 DEF Next, UnderLock

LEMMA SortedStep == TypeOK /\ StampsSorted /\ [Next]_vars => StampsSorted'
<1> SUFFICES ASSUME TypeOK, StampsSorted, [Next]_vars PROVE StampsSorted'
  OBVIOUS
<1>1. Added \in Seq(Entry) /\ clock \in Nat
  BY EntriesInAdded DEF TypeOK
<1>2. ASSUME NEW i \in 1..Len(Added) PROVE Added[i].at \in Nat
  <2>1. Added[i] \in Entry
    BY <1>1
  <2> QED BY <2>1 DEF Entry
<1>3. CASE Added' = Added /\ clock' \in {clock, clock + 1}
  BY <1>1, <1>2, <1>3 DEF StampsSorted
<1>4. ASSUME NEW v \in Value, Added' = Append(Added, [at |-> clock, val |-> v]), clock' = clock
      PROVE StampsSorted'
  <2> DEFINE n == Len(Added)
  <2>1. n \in Nat /\ Len(Added') = n + 1
    BY <1>1, <1>4
  <2>2. \A i \in 1..n : Added'[i] = Added[i]
    BY <1>1, <1>4
  <2>3. Added'[n + 1] = [at |-> clock, val |-> v]
    BY <1>1, <1>4
  <2>4. \A i \in 1..n + 1 : Added'[i].at <= clock /\ Added'[i].at \in Nat
    BY <1>1, <1>2, <2>1, <2>2, <2>3 DEF StampsSorted
  <2>5. \A i, j \in 1..n + 1 : i <= j => Added'[i].at <= Added'[j].at
    BY <1>1, <1>2, <2>1, <2>2, <2>3, <2>4 DEF StampsSorted
  <2> QED BY <1>4, <2>1, <2>4, <2>5 DEF StampsSorted
<1> QED BY <1>3, <1>4, AddedGrows

(* The deque of the native buffer is always sorted by time, with any       *)
(* number of threads adding and getting (native.rs:53-73).                 *)
THEOREM DequeIsSorted == Spec => []StampsSorted
<1>1. Init => StampsSorted
  BY BufferAssumption DEF Init, StampsSorted, Added, Pending
<1> QED BY <1>1, SortedStep, TypeCorrect, PTL DEF Spec
-----------------------------------------------------------------------------
(***************************************************************************)
(* The refinement of WindowBuffer.                                         *)
(***************************************************************************)
(* What was popped has expired, and stays so. *)
EvictedExpired == \A i \in 1..Len(evicted) : clock - evicted[i].at >= TTL

EvictInv == TypeOK /\ StampsSorted /\ EvictedExpired

(* The state function that stands for the abstract result. *)
Result == [t \in Thread |-> IF pc[t] = "collect"
                            THEN [i \in 1..Len(list) |-> list[i].val] ELSE got[t]]

LEMMA StampTyped ==
  ASSUME NEW s \in Seq(Entry), NEW i \in 1..Len(s)
  PROVE  s[i].at \in Nat
<1>1. s[i] \in Entry
  OBVIOUS
<1> QED BY <1>1 DEF Entry

LEMMA ExpiredStep == TypeOK /\ EvictedExpired /\ [Next]_vars => EvictedExpired'
<1> SUFFICES ASSUME TypeOK, EvictedExpired, [Next]_vars PROVE EvictedExpired'
  OBVIOUS
<1>1. evicted \in Seq(Entry) /\ list \in Seq(Entry) /\ clock \in Nat /\ TTL \in Nat
  BY BufferAssumption DEF TypeOK
<1>2. CASE Tick
  <2>1. clock' = clock + 1 /\ evicted' = evicted
    BY <1>2 DEF Tick
  <2> QED BY <1>1, <2>1, StampTyped DEF EvictedExpired
<1>3. ASSUME NEW t \in Thread, Evict(t) PROVE EvictedExpired'
  <2>1. /\ evicted' = Append(evicted, Head(list)) /\ clock' = clock
        /\ clock - Head(list).at >= TTL
    BY <1>3 DEF Evict, Expired
  <2>2. ASSUME NEW i \in 1..Len(evicted') PROVE clock - evicted'[i].at >= TTL
    <3>1. CASE i \in 1..Len(evicted)
      <4>1. evicted'[i] = evicted[i]
        BY <1>1, <2>1, <3>1
      <4> QED BY <3>1, <4>1 DEF EvictedExpired
    <3>2. CASE i = Len(evicted) + 1
      <4>1. evicted'[i] = Head(list)
        BY <1>1, <2>1, <3>2
      <4> QED BY <2>1, <4>1
    <3>3. Len(evicted) \in Nat /\ Len(evicted') = Len(evicted) + 1
      BY <1>1, <2>1
    <3> QED BY <3>1, <3>2, <3>3
  <2> QED BY <2>1, <2>2 DEF EvictedExpired
<1>4. CASE UNCHANGED <<clock, evicted>>
  BY <1>4 DEF EvictedExpired
<1> QED BY <1>2, <1>3, <1>4
        DEF Next, UnderLock, LockForAdd, LockForGet, Stamp, Push, EvictDone, Collect, vars

(* Everything the eviction loop of get has popped is at least ttl old, and *)
(* what was added, popped or not, is in the order of its stamps            *)
(* (native.rs:59-68).                                                      *)
THEOREM EvictInvariant == Spec => []EvictInv
<1>1. Init => EvictedExpired
  BY DEF Init, EvictedExpired
<1> QED BY TypeCorrect, DequeIsSorted, ExpiredStep, <1>1, PTL DEF Spec, EvictInv

(* The steps a thread cannot see: whoever is about to collect has the      *)
(* lock, so the deque does not change under it.                            *)
LEMMA ResultStays ==
  ASSUME TypeOK, [Next]_vars, \A t \in Thread : ~EvictDone(t)
  PROVE  Result' = Result
<1> USE BufferAssumption
<1>1. /\ pc \in [Thread -> {"idle", "stamp", "push", "evict", "collect"}]
      /\ \A t \in Thread : pc[t] # "idle" <=> holder = t
      /\ got \in [Thread -> Seq(Value)]
  BY DEF TypeOK
<1>2. CASE Tick
  BY <1>2 DEF Tick, Result
<1>3. ASSUME NEW t \in Thread, LockForAdd(t) \/ LockForGet(t) \/ Stamp(t)
      PROVE  Result' = Result
  <2>1. /\ UNCHANGED <<list, got>> /\ pc[t] # "collect"
        /\ \E label \in {"stamp", "evict", "push"} : pc' = [pc EXCEPT ![t] = label]
    BY <1>3 DEF LockForAdd, LockForGet, Stamp, Lock, Goto
  <2>2. \A u \in Thread : pc'[u] = "collect" <=> pc[u] = "collect"
    BY <1>1, <2>1
  <2> QED BY <2>1, <2>2 DEF Result
<1>4. ASSUME NEW t \in Thread, Push(t) \/ Evict(t) PROVE Result' = Result
  <2>1. pc[t] \in {"push", "evict"} /\ got' = got /\ (pc' = pc \/ pc' = [pc EXCEPT ![t] = "idle"])
    BY <1>4 DEF Push, Evict, Goto
  <2>2. \A u \in Thread : pc[u] # "collect" /\ pc'[u] # "collect"
    BY <1>1, <2>1
  <2> QED BY <2>1, <2>2 DEF Result
<1>5. ASSUME NEW t \in Thread, Collect(t) PROVE Result' = Result
  <2>1. /\ pc[t] = "collect" /\ pc' = [pc EXCEPT ![t] = "idle"] /\ list' = list
        /\ got' = [got EXCEPT ![t] = [i \in 1..Len(list) |-> list[i].val]]
    BY <1>5 DEF Collect, Goto, ValuesOf, Window!ValuesOf
  <2> DEFINE values == [i \in 1..Len(list) |-> list[i].val]
  <2>2. \A u \in Thread :
          (IF pc'[u] = "collect" THEN values ELSE got'[u])
            = (IF pc[u] = "collect" THEN values ELSE got[u])
    <3> HIDE DEF values
    <3> SUFFICES ASSUME NEW u \in Thread
                 PROVE  (IF pc'[u] = "collect" THEN values ELSE got'[u])
                          = (IF pc[u] = "collect" THEN values ELSE got[u])
      OBVIOUS
    <3>0. got' = [got EXCEPT ![t] = values]
      BY <2>1 DEF values
    <3>1. CASE u = t
      BY <1>1, <2>1, <3>0, <3>1
    <3>2. CASE u # t
      BY <1>1, <2>1, <3>0, <3>2
    <3> QED BY <3>1, <3>2
  <2> QED BY <2>1, <2>2 DEF Result
<1>6. CASE UNCHANGED vars
  BY <1>6 DEF vars, Result
<1>7. Adder \subseteq Thread /\ Getter \subseteq Thread
  BY DEF Thread
<1> QED BY <1>2, <1>3, <1>4, <1>5, <1>6, <1>7 DEF Next, UnderLock

(* A get that leaves the loop has the window in front of it: what was      *)
(* evicted has expired, the front is fresh, and the deque is sorted.       *)
LEMMA EvictDoneIsGet ==
  ASSUME EvictInv, NEW t \in Thread, EvictDone(t)
  PROVE  Window!Get(t)
<1> DEFINE k == Len(evicted)
<1>1. /\ pc \in [Thread -> {"idle", "stamp", "push", "evict", "collect"}]
      /\ \A u \in Thread : pc[u] # "idle" <=> holder = u
      /\ got \in [Thread -> Seq(Value)] /\ clock \in Nat /\ TTL \in Nat
      /\ evicted \in Seq(Entry) /\ list \in Seq(Entry)
  BY BufferAssumption DEF EvictInv, TypeOK
<1>2. /\ pc[t] = "evict" /\ pc' = [pc EXCEPT ![t] = "collect"]
      /\ list # <<>> => ~(clock - Head(list).at >= TTL)
      /\ UNCHANGED <<clock, list, holder, got, evicted>>
  BY DEF EvictDone, Goto, Expired
<1>3. Pending = <<>> /\ Pending' = <<>>
  BY <1>1, <1>2 DEF Pending
<1>4. Added = evicted \o list /\ Added' = Added
  BY <1>1, <1>2, <1>3 DEF Added
<1>5. /\ k \in Nat /\ Len(list) \in Nat /\ Len(Added) = k + Len(list)
      /\ \A i \in 1..k : Added[i] = evicted[i]
      /\ \A i \in 1..Len(list) : Added[k + i] = list[i]
  BY <1>1, <1>4
<1>6. Added \in Seq(Entry) /\ \A i \in 1..Len(Added) : Added[i].at \in Nat
  BY <1>1, <1>4, StampTyped
<1>7. ASSUME NEW i \in 1..Len(Added) PROVE clock - Added[i].at < TTL <=> i > k
  <2>1. CASE i <= k
    <3>1. clock - Added[i].at >= TTL
      BY <1>5, <2>1 DEF EvictInv, EvictedExpired
    <3> QED BY <1>1, <1>5, <1>6, <2>1, <3>1
  <2>2. CASE i > k
    <3>1. k + 1 \in 1..Len(Added) /\ k + 1 <= i /\ list # <<>>
      BY <1>1, <1>5, <2>2
    <3>2. Added[k + 1] = Head(list)
      BY <1>1, <1>5, <3>1
    <3>3. Added[k + 1].at <= Added[i].at
      BY <3>1 DEF EvictInv, StampsSorted
    <3>4. ~(clock - Added[k + 1].at >= TTL)
      BY <1>2, <3>1, <3>2
    <3>5. clock \in Nat /\ TTL \in Nat /\ Added[k + 1].at \in Nat /\ Added[i].at \in Nat
      BY <1>1, <1>6, <3>1
    <3> DEFINE a == Added[k + 1].at
               b == Added[i].at
    <3>6. a \in Nat /\ b \in Nat /\ a <= b /\ ~(clock - a >= TTL)
      BY <3>3, <3>4, <3>5
    <3> HIDE DEF k, a, b
    <3>7. clock - b < TTL
      BY <1>1, <3>6
    <3> QED BY <2>2, <3>7 DEF b
  <2> QED BY <1>5, <2>1, <2>2
<1>8. [i \in 1..Len(SubSeq(Added, k + 1, Len(Added))) |-> SubSeq(Added, k + 1, Len(Added))[i].val]
        = [i \in 1..Len(list) |-> list[i].val]
  <2>1. SubSeq(Added, k + 1, Len(Added)) = list
    BY <1>1, <1>4, <1>5
  <2> QED BY <2>1
<1> DEFINE values == [i \in 1..Len(list) |-> list[i].val]
<1>9. Result' = [Result EXCEPT ![t] = values]
  <2> HIDE DEF values
  <2>1. /\ Result = [u \in Thread |-> IF pc[u] = "collect" THEN values ELSE got[u]]
        /\ Result' = [u \in Thread |-> IF pc'[u] = "collect" THEN values ELSE got[u]]
    BY <1>2 DEF Result, values
  <2>2. ASSUME NEW u \in Thread
        PROVE  (IF pc'[u] = "collect" THEN values ELSE got[u])
                 = [Result EXCEPT ![t] = values][u]
    <3>1. CASE u = t
      BY <1>1, <1>2, <2>1, <3>1
    <3>2. CASE u # t
      BY <1>1, <1>2, <2>1, <3>2
    <3> QED BY <3>1, <3>2
  <2> QED BY <2>1, <2>2
<1> HIDE DEF k
<1>10. k \in 0..Len(Added)
  BY <1>5
<1> QED BY <1>2, <1>4, <1>7, <1>8, <1>9, <1>10 DEF Window!Get, Window!Fresh, Window!ValuesOf, Result

(* The native buffer implements the rolling window: a get returns exactly  *)
(* what was added less than ttl before the last check of its eviction      *)
(* loop, in the order of the adds, whatever the other threads do           *)
(* (NativeExpirationBuffer, native.rs:52-73).                              *)
THEOREM BufferImplementsWindow == Spec => ImplementsWindow
<1>1. Init => Window!WindowInit
  <2> SUFFICES ASSUME Init PROVE Window!WindowInit
    OBVIOUS
  <2>1. Added = <<>> /\ Result = [t \in Thread |-> <<>>]
    BY BufferAssumption DEF Init, Added, Pending, Result
  <2> QED BY <2>1 DEF Window!WindowInit, Init, Result
<1>2. ASSUME EvictInv, [Next]_vars PROVE [Window!WindowNext]_(Window!windowVars)
  <2>1. CASE \E t \in Thread : EvictDone(t)
    BY <1>2, <2>1, EvictDoneIsGet DEF Window!WindowNext
  <2>2. CASE \A t \in Thread : ~EvictDone(t)
    <3>1. Result' = Result /\ TypeOK
      BY <1>2, <2>2, ResultStays DEF EvictInv
    <3>2. CASE Added' = Added /\ clock' = clock + 1
      BY <3>1, <3>2 DEF Window!WindowNext, Window!Elapse, Result
    <3>3. CASE Added' = Added /\ clock' = clock
      BY <3>1, <3>3 DEF Window!windowVars, Result
    <3>4. CASE \E v \in Value : Added' = Append(Added, [at |-> clock, val |-> v]) /\ clock' = clock
      BY <3>1, <3>4 DEF Window!WindowNext, Window!Add, Result
    <3> QED BY <1>2, <3>1, <3>2, <3>3, <3>4, AddedGrows
  <2> QED BY <2>1, <2>2
<1> QED BY EvictInvariant, <1>1, <1>2, PTL DEF Spec, ImplementsWindow, Window!WindowSpec
=============================================================================
