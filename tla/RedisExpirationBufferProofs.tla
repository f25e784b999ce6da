--------------------- MODULE RedisExpirationBufferProofs ---------------------
(***************************************************************************)
(* Theorems about RedisExpirationBuffer, for every number of threads and   *)
(* values, every time to live, and any number of adds, crashes of the      *)
(* server and restarts of the process.                                     *)
(***************************************************************************)
EXTENDS RedisExpirationBuffer, TLAPS

(***************************************************************************)
(* Types.  The types alone are not inductive: what the server saved comes  *)
(* back when it restarts.                                                  *)
(***************************************************************************)
IsSortedSet(s) == s \in [DOMAIN s -> Nat] /\ DOMAIN s \subseteq Value

TypeInv ==
  /\ TypeOK
  /\ DOMAIN arg = Thread /\ DOMAIN conn = Thread
  /\ IsSortedSet(disk.zset)

LEMMA TypeInit == Init => TypeInv
BY RedisBufferAssumption DEF Init, TypeInv, TypeOK, IsSortedSet, EmptySet

Adding == {"add", "zadd"}
Apart  == {"idle", "add"}

(* A step of one thread: its new place, and what it then holds.            *)
LEMMA ThreadStep ==
  ASSUME TypeInv, NEW t \in Thread,
         NEW label \in {"idle", "add", "zadd", "now", "range", "remove"},
         pc' = [pc EXCEPT ![t] = label],
         DOMAIN arg' = Thread, DOMAIN conn' = Thread, run' = run,
         \A u \in Thread \ {t} : arg'[u] = arg[u] /\ conn'[u] = conn[u],
         IF label \in Adding THEN arg'[t] \in Entry ELSE arg'[t] = <<>>,
         IF label \in Apart THEN conn'[t] = 0 ELSE conn'[t] \in 1..run
  PROVE  /\ pc' \in [Thread -> {"idle", "add", "zadd", "now", "range", "remove"}]
         /\ \A u \in Thread :
              IF pc'[u] \in {"add", "zadd"} THEN arg'[u] \in Entry ELSE arg'[u] = <<>>
         /\ \A u \in Thread :
              IF pc'[u] \in {"idle", "add"} THEN conn'[u] = 0 ELSE conn'[u] \in 1..run'
         /\ DOMAIN arg' = Thread /\ DOMAIN conn' = Thread
<1>1. pc \in [Thread -> {"idle", "add", "zadd", "now", "range", "remove"}]
  BY DEF TypeInv, TypeOK
<1>2. ASSUME NEW u \in Thread
      PROVE  /\ IF pc'[u] \in Adding THEN arg'[u] \in Entry ELSE arg'[u] = <<>>
             /\ IF pc'[u] \in Apart THEN conn'[u] = 0 ELSE conn'[u] \in 1..run'
  <2>1. CASE u = t
    <3>1. pc'[u] = label
      BY <1>1, <2>1
    <3> QED BY <2>1, <3>1
  <2>2. CASE u # t
    <3>1. pc'[u] = pc[u] /\ arg'[u] = arg[u] /\ conn'[u] = conn[u]
      BY <1>1, <2>2
    <3> QED BY <3>1 DEF TypeInv, TypeOK, Adding, Apart
  <2> QED BY <2>1, <2>2
<1> QED BY <1>1, <1>2 DEF Adding, Apart

LEMMA Here ==
  ASSUME TypeInv, NEW t \in Thread
  PROVE  /\ DOMAIN arg = Thread /\ DOMAIN conn = Thread
         /\ IF pc[t] \in Adding THEN arg[t] \in Entry ELSE arg[t] = <<>>
         /\ IF pc[t] \in Apart THEN conn[t] = 0 ELSE conn[t] \in 1..run
         /\ run \in 1..run
BY DEF TypeInv, TypeOK, Adding, Apart

(* The other variables, when a step of a thread leaves them alone.         *)
Rest ==
  /\ clock \in Nat /\ min \in [Thread -> Int] /\ got \in [Thread -> SUBSET Value]
  /\ IsSortedSet(zset) /\ added \in Seq(Entry) /\ up \in BOOLEAN /\ run \in Nat \ {0}
  /\ disk.added \in Seq(Entry) /\ IsSortedSet(disk.zset)

LEMMA RestIs == TypeInv => Rest
BY DEF TypeInv, TypeOK, Rest, IsSortedSet

LEMMA TypeStep == TypeInv /\ [Next]_vars => TypeInv'
<1> SUFFICES ASSUME TypeInv, [Next]_vars PROVE TypeInv'
  OBVIOUS
<1> USE DEF Goto
<1>1. CASE Tick
  BY <1>1 DEF Tick, TypeInv, TypeOK, threadVars, serverVars, IsSortedSet
<1>2. ASSUME NEW t \in Thread, AddCalled(t) PROVE TypeInv'
  <2>1. PICK v \in Value : arg' = [arg EXCEPT ![t] = [at |-> clock, val |-> v]]
    BY <1>2 DEF AddCalled
  <2>2. Rest /\ UNCHANGED <<clock, conn, min, got, zset, added, up, run, disk>>
    BY <1>2, RestIs DEF AddCalled, serverVars
  <2>3. [at |-> clock, val |-> v] \in Entry
    BY <2>2 DEF Entry, Rest
  <2>4. pc' = [pc EXCEPT ![t] = "add"] /\ pc[t] = "idle"
    BY <1>2 DEF AddCalled
  <2>5. /\ DOMAIN arg' = Thread /\ arg'[t] \in Entry
        /\ \A u \in Thread \ {t} : arg'[u] = arg[u]
    BY <2>1, <2>3, Here
  <2>6. conn'[t] = 0 /\ DOMAIN conn' = Thread
    BY <2>2, <2>4, Here DEF Apart
  <2> HIDE DEF Goto
  <2> QED BY <2>2, <2>4, <2>5, <2>6, ThreadStep DEF TypeInv, TypeOK, Rest, IsSortedSet, Adding, Apart
<1>3. ASSUME NEW t \in Thread, AddConnect(t) PROVE TypeInv'
  <2>1. Rest /\ pc[t] = "add" /\ UNCHANGED <<clock, min, got, zset, added, up, run, disk>>
    BY <1>3, RestIs DEF AddConnect, serverVars
  <2>2. /\ DOMAIN arg = Thread /\ DOMAIN conn = Thread /\ arg[t] \in Entry /\ run \in 1..run
    BY <2>1, Here DEF Adding
  <2>3. CASE Connected(t, "zadd")
    <3>1. /\ pc' = [pc EXCEPT ![t] = "zadd"] /\ arg' = arg
          /\ conn' = [conn EXCEPT ![t] = run]
      BY <2>3 DEF Connected
    <3>2. /\ conn'[t] = run /\ DOMAIN conn' = Thread
          /\ \A u \in Thread \ {t} : conn'[u] = conn[u]
      BY <2>2, <3>1
    <3> HIDE DEF Goto
    <3> QED BY <2>1, <2>2, <3>1, <3>2, ThreadStep DEF TypeInv, TypeOK, Rest, IsSortedSet, Adding, Apart
  <2>4. CASE Return(t)
    <3>1. /\ pc' = [pc EXCEPT ![t] = "idle"] /\ arg' = [arg EXCEPT ![t] = <<>>]
          /\ conn' = [conn EXCEPT ![t] = 0]
      BY <2>4 DEF Return
    <3>2. /\ conn'[t] = 0 /\ DOMAIN conn' = Thread /\ arg'[t] = <<>> /\ DOMAIN arg' = Thread
          /\ \A u \in Thread \ {t} : conn'[u] = conn[u] /\ arg'[u] = arg[u]
      BY <2>2, <3>1
    <3> HIDE DEF Goto
    <3> QED BY <2>1, <3>1, <3>2, ThreadStep DEF TypeInv, TypeOK, Rest, IsSortedSet, Adding, Apart
  <2> QED BY <1>3, <2>3, <2>4 DEF AddConnect
<1>4. ASSUME NEW t \in Thread, Return(t), UNCHANGED <<clock, up, run, disk>>,
             min' \in [Thread -> Int], got' \in [Thread -> SUBSET Value],
             IsSortedSet(zset'), added' \in Seq(Entry)
      PROVE  TypeInv'
  <2>1. /\ pc' = [pc EXCEPT ![t] = "idle"] /\ arg' = [arg EXCEPT ![t] = <<>>]
        /\ conn' = [conn EXCEPT ![t] = 0]
    BY <1>4 DEF Return
  <2>2. /\ conn'[t] = 0 /\ DOMAIN conn' = Thread /\ arg'[t] = <<>> /\ DOMAIN arg' = Thread
        /\ \A u \in Thread \ {t} : conn'[u] = conn[u] /\ arg'[u] = arg[u]
    BY <2>1, Here
  <2> HIDE DEF Goto
  <2> QED BY <1>4, <2>1, <2>2, ThreadStep, RestIs
          DEF TypeInv, TypeOK, Rest, IsSortedSet, Adding, Apart
<1>5. ASSUME NEW t \in Thread, Zadd(t) PROVE TypeInv'
  <2>1. /\ Return(t) /\ UNCHANGED <<clock, min, got, up, run, disk>> /\ pc[t] = "zadd"
        /\ added' = Append(added, arg[t])
        /\ zset' = [v \in DOMAIN zset \cup {arg[t].val} |->
                      IF v = arg[t].val THEN arg[t].at ELSE zset[v]]
    BY <1>5 DEF Zadd
  <2>2. arg[t] \in Entry /\ arg[t].val \in Value /\ arg[t].at \in Nat
    BY <2>1, Here DEF Adding, Entry
  <2>3. IsSortedSet(zset') /\ added' \in Seq(Entry)
    BY <2>1, <2>2, RestIs DEF Rest, IsSortedSet
  <2> QED BY <1>4, <2>1, <2>3, RestIs DEF Rest
<1>6. ASSUME NEW t \in Thread, ZaddFailed(t) PROVE TypeInv'
  <2>1. Return(t) /\ UNCHANGED <<clock, min, got, zset, added, up, run, disk>>
    BY <1>6 DEF ZaddFailed, serverVars
  <2> QED BY <1>4, <2>1, RestIs DEF Rest
<1>7. ASSUME NEW t \in Thread, GetConnect(t) PROVE TypeInv'
  <2>1. Rest /\ pc[t] = "idle" /\ UNCHANGED <<clock, min, zset, added, up, run, disk>>
    BY <1>7, RestIs DEF GetConnect, serverVars
  <2>2. DOMAIN arg = Thread /\ DOMAIN conn = Thread /\ arg[t] = <<>> /\ run \in 1..run
    BY <2>1, Here DEF Adding
  <2>3. CASE Connected(t, "now") /\ got' = got
    <3>1. /\ pc' = [pc EXCEPT ![t] = "now"] /\ arg' = arg
          /\ conn' = [conn EXCEPT ![t] = run]
      BY <2>3 DEF Connected
    <3>2. /\ conn'[t] = run /\ DOMAIN conn' = Thread
          /\ \A u \in Thread \ {t} : conn'[u] = conn[u]
      BY <2>2, <3>1
    <3> HIDE DEF Goto
    <3> QED BY <2>1, <2>2, <2>3, <3>1, <3>2, ThreadStep
            DEF TypeInv, TypeOK, Rest, IsSortedSet, Adding, Apart
  <2>4. CASE got' = [got EXCEPT ![t] = {}] /\ UNCHANGED <<pc, conn, arg>>
    <3>1. got' \in [Thread -> SUBSET Value]
      BY <2>1, <2>4 DEF Rest
    <3> QED BY <2>1, <2>4, <3>1 DEF TypeInv, TypeOK, IsSortedSet
  <2> QED BY <1>7, <2>3, <2>4 DEF GetConnect
<1>8. ASSUME NEW t \in Thread, NEW label \in {"range", "remove"}, pc[t] \in {"now", "range"},
             pc' = [pc EXCEPT ![t] = label],
             UNCHANGED <<clock, arg, conn, zset, added, up, run, disk>>,
             min' \in [Thread -> Int], got' \in [Thread -> SUBSET Value]
      PROVE  TypeInv'
  <2>1. DOMAIN arg = Thread /\ DOMAIN conn = Thread /\ arg[t] = <<>> /\ conn[t] \in 1..run
    BY <1>8, Here DEF Adding, Apart
  <2> HIDE DEF Goto
  <2> QED BY <1>8, <2>1, ThreadStep, RestIs DEF TypeInv, TypeOK, Rest, IsSortedSet, Adding, Apart
<1>9. ASSUME NEW t \in Thread, MinScore(t) PROVE TypeInv'
  <2>1. clock - TTL \in Int
    BY RedisBufferAssumption, RestIs DEF Rest
  <2>2. /\ pc[t] = "now" /\ pc' = [pc EXCEPT ![t] = "range"]
        /\ min' = [min EXCEPT ![t] = clock - TTL]
        /\ UNCHANGED <<clock, arg, conn, got, zset, added, up, run, disk>>
    BY <1>9 DEF MinScore, serverVars
  <2>3. min' \in [Thread -> Int] /\ got' \in [Thread -> SUBSET Value]
    BY <2>1, <2>2, RestIs DEF Rest
  <2> QED BY <1>8, <2>2, <2>3
<1>10. ASSUME NEW t \in Thread, Range(t) PROVE TypeInv'
  <2>1. /\ pc[t] = "range" /\ pc' = [pc EXCEPT ![t] = "remove"]
        /\ got' = [got EXCEPT ![t] = {v \in DOMAIN zset : zset[v] >= min[t]}]
        /\ UNCHANGED <<clock, arg, conn, min, zset, added, up, run, disk>>
    BY <1>10 DEF Range, serverVars
  <2>2. min' \in [Thread -> Int] /\ got' \in [Thread -> SUBSET Value]
    BY <2>1, RestIs DEF Rest, IsSortedSet
  <2> QED BY <1>8, <2>1, <2>2
<1>11. ASSUME NEW t \in Thread, RangeFailed(t) PROVE TypeInv'
  <2>1. /\ Return(t) /\ got' = [got EXCEPT ![t] = {}]
        /\ UNCHANGED <<clock, min, zset, added, up, run, disk>>
    BY <1>11 DEF RangeFailed, serverVars
  <2>2. got' \in [Thread -> SUBSET Value]
    BY <2>1, RestIs DEF Rest
  <2> QED BY <1>4, <2>1, <2>2, RestIs DEF Rest
<1>12. ASSUME NEW t \in Thread, Remove(t) PROVE TypeInv'
  <2>1. Return(t) /\ UNCHANGED <<clock, min, got, added, up, run, disk>>
    BY <1>12 DEF Remove
  <2>2. zset' = zset \/ zset' = [v \in {w \in DOMAIN zset : zset[w] > min[t]} |-> zset[v]]
    BY <1>12 DEF Remove, Keep
  <2>3. IsSortedSet(zset')
    BY <2>2, RestIs DEF Rest, IsSortedSet
  <2> QED BY <1>4, <2>1, <2>3, RestIs DEF Rest
<1>13. CASE Save
  BY <1>13 DEF Save, TypeInv, TypeOK, threadVars, IsSortedSet
<1>14. CASE Crash
  BY <1>14 DEF Crash, TypeInv, TypeOK, threadVars, IsSortedSet
<1>15. CASE Restart
  <2>1. /\ up' = TRUE /\ run' = run + 1 /\ zset' = disk.zset /\ added' = disk.added
        /\ UNCHANGED <<clock, pc, arg, conn, min, got, disk>>
    BY <1>15 DEF Restart, threadVars
  <2>2. run' \in Nat \ {0} /\ 1..run \subseteq 1..run'
    BY <2>1 DEF TypeInv, TypeOK
  <2>3. \A u \in Thread : IF pc[u] \in {"idle", "add"} THEN conn[u] = 0 ELSE conn[u] \in 1..run'
    BY <2>2 DEF TypeInv, TypeOK
  <2> QED BY <2>1, <2>2, <2>3 DEF TypeInv, TypeOK, IsSortedSet
<1>16. CASE NewProcess
  BY <1>16 DEF NewProcess, TypeInv, TypeOK, serverVars, IsSortedSet
<1>17. CASE UNCHANGED vars
  BY <1>17 DEF vars, threadVars, serverVars, TypeInv, TypeOK, IsSortedSet
<1>18. Adder \subseteq Thread /\ Getter \subseteq Thread
  BY DEF Thread
<1> QED BY <1>1, <1>2, <1>3, <1>5, <1>6, <1>7, <1>9, <1>10, <1>11, <1>12, <1>13, <1>14, <1>15,
           <1>16, <1>17, <1>18 DEF Next

(* The variables of the buffer and its server keep their types: a thread   *)
(* sends a command only over a connection it has opened in this call, and  *)
(* one that adds has an entry (RedisExpirationBuffer, redis.rs:122-172).   *)
THEOREM TypeCorrect == Spec => []TypeOK
<1>1. TypeInv => TypeOK
  BY DEF TypeInv
<1> QED BY TypeInit, TypeStep, <1>1, PTL DEF Spec
-----------------------------------------------------------------------------
(***************************************************************************)
(* The window.                                                             *)
(***************************************************************************)
(* A sorted set agrees with the ZADDs executed: it may lack a value that   *)
(* is not fresh, but has every value at the score of its last ZADD.        *)
Tracks(zs, entries, now) ==
  \A v \in Value : \A i \in 1..Len(entries) :
    IsLastOf(entries[i], v, entries) =>
      /\ v \in DOMAIN zs => zs[v] = entries[i].at
      /\ now - entries[i].at < TTL => v \in DOMAIN zs

(* The min_score of a get under way is ttl before a time that has been.    *)
MinIsPast == \A t \in Thread : pc[t] \in {"range", "remove"} => min[t] <= clock - TTL

WindowInv == TypeInv /\ Tracks(zset, added, clock) /\ Tracks(disk.zset, disk.added, clock) /\ MinIsPast

LEMMA EntryFields ==
  ASSUME NEW s \in Seq(Entry), NEW i \in 1..Len(s)
  PROVE  s[i] \in Entry /\ s[i].at \in Nat /\ s[i].val \in Value
<1>1. s[i] \in Entry
  OBVIOUS
<1> QED BY <1>1 DEF Entry

(* Another ZADD makes its own entry the last of its value, and no other.   *)
LEMMA LastAfterZadd ==
  ASSUME NEW s \in Seq(Entry), NEW e \in Entry, NEW v \in Value,
         NEW i \in 1..Len(Append(s, e)), IsLastOf(Append(s, e)[i], v, Append(s, e))
  PROVE  IF v = e.val THEN Append(s, e)[i] = e
         ELSE \E k \in 1..Len(s) : s[k] = Append(s, e)[i] /\ IsLastOf(s[k], v, s)
<1> DEFINE t == Append(s, e)
           n == Len(s)
<1>1. n \in Nat /\ Len(t) = n + 1 /\ t[n + 1] = e /\ \A j \in 1..n : t[j] = s[j]
  OBVIOUS
<1> HIDE DEF t
<1>2. PICK k \in 1..Len(t) : t[k] = t[i] /\ t[i].val = v /\ \A j \in k + 1..Len(t) : t[j].val # v
  BY DEF IsLastOf, t
<1>3. CASE v = e.val
  <2>1. k = n + 1
    <3>1. n + 1 \notin k + 1..Len(t)
      BY <1>1, <1>2, <1>3
    <3> QED BY <1>1, <3>1
  <2> QED BY <1>1, <1>2, <1>3, <2>1 DEF t
<1>4. CASE v # e.val
  <2>1. k \in 1..n /\ t[k] = s[k]
    BY <1>1, <1>2, <1>4
  <2>2. \A j \in k + 1..n : s[j].val # v
    <3> SUFFICES ASSUME NEW j \in k + 1..n PROVE s[j].val # v
      OBVIOUS
    <3>1. j \in 1..n /\ j \in k + 1..Len(t)
      BY <1>1, <2>1
    <3> QED BY <1>1, <1>2, <3>1
  <2>3. IsLastOf(s[k], v, s)
    BY <1>2, <2>1, <2>2 DEF IsLastOf
  <2> QED BY <1>2, <1>4, <2>1, <2>3 DEF t
<1> QED BY <1>3, <1>4

LEMMA ZaddTracks ==
  ASSUME NEW s \in Seq(Entry), NEW e \in Entry, NEW zs, NEW now, Tracks(zs, s, now),
         NEW zn, zn = [v \in DOMAIN zs \cup {e.val} |-> IF v = e.val THEN e.at ELSE zs[v]]
  PROVE  Tracks(zn, Append(s, e), now)
<1> SUFFICES ASSUME NEW v \in Value, NEW i \in 1..Len(Append(s, e)),
                    IsLastOf(Append(s, e)[i], v, Append(s, e))
             PROVE  /\ v \in DOMAIN zn => zn[v] = Append(s, e)[i].at
                    /\ now - Append(s, e)[i].at < TTL => v \in DOMAIN zn
  BY DEF Tracks
<1> DEFINE x == Append(s, e)[i]
<1>1. IF v = e.val THEN x = e ELSE \E k \in 1..Len(s) : s[k] = x /\ IsLastOf(s[k], v, s)
  BY LastAfterZadd
<1> HIDE DEF x
<1>2. CASE v = e.val
  BY <1>1, <1>2 DEF x
<1>3. CASE v # e.val
  <2>1. (v \in DOMAIN zs => zs[v] = x.at) /\ (now - x.at < TTL => v \in DOMAIN zs)
    BY <1>1, <1>3 DEF Tracks
  <2> QED BY <1>3, <2>1 DEF x
<1> QED BY <1>2, <1>3

(* A removal up to a time that is ttl back takes nothing that is fresh.    *)
LEMMA RemoveTracks ==
  ASSUME NEW s \in Seq(Entry), NEW zs, NEW now \in Nat, Tracks(zs, s, now),
         IsSortedSet(zs), NEW m \in Int, m <= now - TTL,
         NEW zn, zn = [v \in {w \in DOMAIN zs : zs[w] > m} |-> zs[v]]
  PROVE  Tracks(zn, s, now)
<1> SUFFICES ASSUME NEW v \in Value, NEW i \in 1..Len(s), IsLastOf(s[i], v, s)
             PROVE  /\ v \in DOMAIN zn => zn[v] = s[i].at
                    /\ now - s[i].at < TTL => v \in DOMAIN zn
  BY DEF Tracks
<1>1. (v \in DOMAIN zs => zs[v] = s[i].at) /\ (now - s[i].at < TTL => v \in DOMAIN zs)
  BY DEF Tracks
<1>2. s[i].at \in Nat
  BY EntryFields
<1>3. ASSUME now - s[i].at < TTL PROVE v \in DOMAIN zn
  <2>1. v \in DOMAIN zs /\ zs[v] = s[i].at
    BY <1>1, <1>3
  <2>2. s[i].at > m
    BY <1>2, <1>3, RedisBufferAssumption
  <2> QED BY <2>1, <2>2
<1> QED BY <1>1, <1>3

(* Time only makes values less fresh.                                      *)
LEMMA TickTracks ==
  ASSUME NEW s \in Seq(Entry), NEW zs, NEW now \in Nat, Tracks(zs, s, now)
  PROVE  Tracks(zs, s, now + 1)
<1> SUFFICES ASSUME NEW v \in Value, NEW i \in 1..Len(s), IsLastOf(s[i], v, s)
             PROVE  /\ v \in DOMAIN zs => zs[v] = s[i].at
                    /\ (now + 1) - s[i].at < TTL => v \in DOMAIN zs
  BY DEF Tracks
<1>1. (v \in DOMAIN zs => zs[v] = s[i].at) /\ (now - s[i].at < TTL => v \in DOMAIN zs)
  BY DEF Tracks
<1>2. s[i].at \in Nat
  BY EntryFields
<1> QED BY <1>1, <1>2, RedisBufferAssumption

LEMMA WindowInit == Init => WindowInv
BY TypeInit DEF Init, WindowInv, MinIsPast, Tracks, EmptySet

LEMMA WindowStep == WindowInv /\ [Next]_vars => WindowInv'
<1> SUFFICES ASSUME WindowInv, [Next]_vars PROVE WindowInv'
  OBVIOUS
<1>a. /\ TypeInv /\ TypeInv' /\ Tracks(zset, added, clock)
      /\ Tracks(disk.zset, disk.added, clock) /\ MinIsPast
  BY TypeStep DEF WindowInv
<1>b. /\ clock \in Nat /\ min \in [Thread -> Int] /\ added \in Seq(Entry)
      /\ disk.added \in Seq(Entry) /\ IsSortedSet(zset) /\ TTL \in Nat
      /\ pc \in [Thread -> {"idle", "add", "zadd", "now", "range", "remove"}]
  BY <1>a, RestIs, RedisBufferAssumption DEF Rest, TypeInv, TypeOK
<1>c. Adder \subseteq Thread /\ Getter \subseteq Thread
  BY DEF Thread
(* A step of a thread that reads no clock. *)
<1>d. ASSUME NEW t \in Thread, NEW label \in {"idle", "add", "zadd", "now"},
             pc' = [pc EXCEPT ![t] = label], UNCHANGED <<clock, min>>
      PROVE  MinIsPast'
  BY <1>a, <1>b, <1>d DEF MinIsPast
<1>1. CASE Tick
  <2>1. clock' = clock + 1 /\ UNCHANGED <<zset, added, disk, pc, min>>
    BY <1>1 DEF Tick, threadVars, serverVars
  <2>2. Tracks(zset, added, clock)' /\ Tracks(disk.zset, disk.added, clock)'
    BY <1>a, <1>b, <2>1, TickTracks
  <2>3. MinIsPast'
    BY <1>a, <1>b, <2>1 DEF MinIsPast
  <2> QED BY <1>a, <2>2, <2>3 DEF WindowInv
<1>2. ASSUME NEW t \in Thread,
             AddCalled(t) \/ AddConnect(t) \/ ZaddFailed(t) \/ GetConnect(t) \/ RangeFailed(t)
      PROVE  WindowInv'
  <2>1. UNCHANGED <<clock, min, zset, added, disk>>
    BY <1>2 DEF AddCalled, AddConnect, ZaddFailed, GetConnect, RangeFailed, serverVars
  <2>2. pc' = pc \/ \E label \in {"idle", "add", "zadd", "now"} : pc' = [pc EXCEPT ![t] = label]
    BY <1>2 DEF AddCalled, AddConnect, ZaddFailed, GetConnect, RangeFailed, Connected, Return, Goto
  <2>3. MinIsPast'
    BY <1>a, <1>d, <2>1, <2>2 DEF MinIsPast
  <2> QED BY <1>a, <2>1, <2>3 DEF WindowInv
<1>3. ASSUME NEW t \in Thread, Zadd(t) PROVE WindowInv'
  <2>1. /\ pc[t] = "zadd" /\ pc' = [pc EXCEPT ![t] = "idle"] /\ UNCHANGED <<clock, min, disk>>
        /\ added' = Append(added, arg[t])
        /\ zset' = [v \in DOMAIN zset \cup {arg[t].val} |->
                      IF v = arg[t].val THEN arg[t].at ELSE zset[v]]
    BY <1>3 DEF Zadd, Return, Goto
  <2>2. arg[t] \in Entry
    BY <1>a, <2>1, Here DEF Adding
  <2>3. Tracks(zset', added', clock')
    BY <1>a, <1>b, <2>1, <2>2, ZaddTracks
  <2> QED BY <1>a, <1>d, <2>1, <2>3 DEF WindowInv
<1>4. ASSUME NEW t \in Thread, MinScore(t) PROVE WindowInv'
  <2>1. /\ pc' = [pc EXCEPT ![t] = "range"] /\ min' = [min EXCEPT ![t] = clock - TTL]
        /\ UNCHANGED <<clock, zset, added, disk>>
    BY <1>4 DEF MinScore, Goto, serverVars
  <2>2. MinIsPast'
    <3> SUFFICES ASSUME NEW u \in Thread, pc'[u] \in {"range", "remove"}
                 PROVE  min'[u] <= clock - TTL
      BY <2>1 DEF MinIsPast
    <3>1. CASE u = t
      BY <1>b, <2>1, <3>1
    <3>2. CASE u # t
      <4>1. pc'[u] = pc[u] /\ min'[u] = min[u]
        BY <1>b, <2>1, <3>2
      <4> QED BY <1>a, <4>1 DEF MinIsPast
    <3> QED BY <3>1, <3>2
  <2> QED BY <1>a, <2>1, <2>2 DEF WindowInv
<1>5. ASSUME NEW t \in Thread, Range(t) PROVE WindowInv'
  <2>1. /\ pc[t] = "range" /\ pc' = [pc EXCEPT ![t] = "remove"]
        /\ UNCHANGED <<clock, min, zset, added, disk>>
    BY <1>5 DEF Range, Goto, serverVars
  <2>2. MinIsPast'
    BY <1>a, <1>b, <2>1 DEF MinIsPast
  <2> QED BY <1>a, <2>1, <2>2 DEF WindowInv
<1>6. ASSUME NEW t \in Thread, Remove(t) PROVE WindowInv'
  <2>1. /\ pc[t] = "remove" /\ pc' = [pc EXCEPT ![t] = "idle"]
        /\ UNCHANGED <<clock, min, added, disk>>
    BY <1>6 DEF Remove, Return, Goto
  <2>2. zset' = zset \/ zset' = [v \in {w \in DOMAIN zset : zset[w] > min[t]} |-> zset[v]]
    BY <1>6 DEF Remove, Keep
  <2>3. min[t] \in Int /\ min[t] <= clock - TTL
    BY <1>a, <1>b, <2>1 DEF MinIsPast
  <2>4. Tracks(zset', added, clock)
    BY <1>a, <1>b, <2>2, <2>3, RemoveTracks
  <2> QED BY <1>a, <1>d, <2>1, <2>4 DEF WindowInv
<1>7. CASE Save
  <2>1. disk' = [zset |-> zset, added |-> added] /\ UNCHANGED <<clock, pc, min, zset, added>>
    BY <1>7 DEF Save, threadVars
  <2> QED BY <1>a, <2>1 DEF WindowInv, MinIsPast
<1>8. CASE Crash
  <2>1. UNCHANGED <<clock, pc, min, zset, added, disk>>
    BY <1>8 DEF Crash, threadVars
  <2> QED BY <1>a, <2>1 DEF WindowInv, MinIsPast
<1>9. CASE Restart
  <2>1. zset' = disk.zset /\ added' = disk.added /\ UNCHANGED <<clock, pc, min, disk>>
    BY <1>9 DEF Restart, threadVars
  <2> QED BY <1>a, <2>1 DEF WindowInv, MinIsPast
<1>10. CASE NewProcess
  <2>1. pc' = [t \in Thread |-> "idle"] /\ UNCHANGED <<clock, zset, added, disk>>
    BY <1>10 DEF NewProcess, serverVars
  <2> QED BY <1>a, <2>1 DEF WindowInv, MinIsPast
<1>11. CASE UNCHANGED vars
  <2>1. UNCHANGED <<clock, pc, min, zset, added, disk>>
    BY <1>11 DEF vars, threadVars, serverVars
  <2> QED BY <1>a, <2>1 DEF WindowInv, MinIsPast
<1> QED BY <1>1, <1>2, <1>3, <1>4, <1>5, <1>6, <1>7, <1>8, <1>9, <1>10, <1>11, <1>c DEF Next

(* The buffer and both copies of the server agree on every value whose     *)
(* last add is in the window, and no min_score lies less than ttl in the   *)
(* past (add and get, redis.rs:122-172).                                   *)
THEOREM Window == Spec => []WindowInv
BY WindowInit, WindowStep, PTL DEF Spec

LEMMA LastInWindow ==
  ASSUME WindowInv, NEW v \in Value, NEW i \in 1..Len(added), IsLastOf(added[i], v, added)
  PROVE  /\ added[i].at \in Nat
         /\ v \in DOMAIN zset => zset[v] = added[i].at
         /\ clock - added[i].at < TTL => v \in DOMAIN zset
<1>1. added \in Seq(Entry)
  BY DEF WindowInv, TypeInv, TypeOK
<1> QED BY <1>1, EntryFields DEF WindowInv, Tracks

(* No get removes a value that was last added less than ttl ago: whatever  *)
(* other calls came between its two commands, its ZREMRANGEBYSCORE only    *)
(* goes up to ttl before a time that has been (redis.rs:149-170), through  *)
(* restarts of the process and of the server.                              *)
THEOREM FreshValuesAreStored == Spec => []FreshIsStored
<1>1. WindowInv => FreshIsStored
  BY LastInWindow DEF FreshIsStored
<1> QED BY Window, <1>1, PTL

(* A get returns every value whose last add is less than ttl old at its    *)
(* ZRANGEBYSCORE, and none whose last add is before its min_score          *)
(* (RedisExpirationBuffer::get, redis.rs:141-176).                         *)
THEOREM GetsSeeTheWindow == Spec => GetSeesWindow
<1> DEFINE Sees(t) ==
      pc[t] = "range" /\ pc'[t] = "remove" =>
        \A v \in Value : \A i \in 1..Len(added) :
          IsLastOf(added[i], v, added) =>
            /\ clock - added[i].at < TTL => v \in got'[t]
            /\ v \in got'[t] => added[i].at >= min[t]
<1>1. ASSUME WindowInv, Next PROVE \A t \in Getter : Sees(t)
  <2> SUFFICES ASSUME NEW t \in Getter, pc[t] = "range", pc'[t] = "remove",
                      NEW v \in Value, NEW i \in 1..Len(added), IsLastOf(added[i], v, added)
               PROVE  /\ clock - added[i].at < TTL => v \in got'[t]
                      /\ v \in got'[t] => added[i].at >= min[t]
    OBVIOUS
  <2>1. /\ t \in Thread /\ Adder \subseteq Thread /\ Getter \subseteq Thread
        /\ pc \in [Thread -> {"idle", "add", "zadd", "now", "range", "remove"}]
        /\ min \in [Thread -> Int] /\ got \in [Thread -> SUBSET Value] /\ clock \in Nat
        /\ TTL \in Nat
    BY <1>1, RedisBufferAssumption DEF WindowInv, TypeInv, TypeOK, Thread
  <2>2. got' = [got EXCEPT ![t] = {w \in DOMAIN zset : zset[w] >= min[t]}]
    <3>1. ASSUME NEW u \in Thread, NEW label \in {"idle", "add", "zadd", "now", "range"},
                 pc' = [pc EXCEPT ![u] = label]
          PROVE  FALSE
      BY <2>1, <3>1
    <3>2. pc' # pc
      OBVIOUS
    <3>3. PICK u \in Getter : Range(u)
      BY <1>1, <2>1, <3>1, <3>2
         DEF Next, Tick, AddCalled, AddConnect, Zadd, ZaddFailed, GetConnect, MinScore, RangeFailed,
             Remove, Save, Crash, Restart, NewProcess, Connected, Return, Goto, threadVars
    <3>4. u = t
      BY <2>1, <3>3 DEF Range, Goto
    <3> QED BY <3>3, <3>4 DEF Range
  <2>3. got'[t] = {w \in DOMAIN zset : zset[w] >= min[t]}
    BY <2>1, <2>2
  <2>4. /\ added[i].at \in Nat
        /\ v \in DOMAIN zset => zset[v] = added[i].at
        /\ clock - added[i].at < TTL => v \in DOMAIN zset
    BY <1>1, LastInWindow
  <2>5. min[t] \in Int /\ min[t] <= clock - TTL
    BY <1>1, <2>1 DEF WindowInv, MinIsPast
  <2>6. ASSUME clock - added[i].at < TTL PROVE added[i].at >= min[t]
    BY <2>1, <2>4, <2>5, <2>6
  <2> QED BY <2>3, <2>4, <2>6
<1>2. WindowInv /\ [Next]_vars => [\A t \in Getter : Sees(t)]_vars
  BY <1>1
<1> HIDE DEF Sees
<1>3. Spec => [][\A t \in Getter : Sees(t)]_vars
  BY Window, <1>2, PTL DEF Spec
<1> QED BY <1>3 DEF GetSeesWindow, Sees
=============================================================================
