------------------------ MODULE RedisMemoryMapProofs ------------------------
(***************************************************************************)
(* Theorems about RedisMemoryMap, for every set of keys, every number of   *)
(* sets and every number of crashes of the server.                         *)
(***************************************************************************)
EXTENDS RedisMemoryMap, TLAPS

(***************************************************************************)
(* Types.                                                                  *)
(***************************************************************************)
LEMMA CommandIsSomething == \A c \in Command : c # <<>>
<1> SUFFICES ASSUME NEW c \in Command, c = <<>> PROVE FALSE
  OBVIOUS
<1>1. DOMAIN c = {"key", "ver"}
  BY DEF Command
<1>2. DOMAIN <<>> = {}
  OBVIOUS
<1> QED BY <1>1, <1>2

LEMMA UnsavedAre ==
  ASSUME TypeOK
  PROVE  /\ Unsaved \subseteq Command
         /\ \A k \in Key : \A n \in Nat :
              disk[k] < n /\ n <= store[k] => [key |-> k, ver |-> n] \in Unsaved
<1>1. \A k \in Key : disk[k] \in Nat /\ store[k] \in Nat
  BY DEF TypeOK
<1>2. ASSUME NEW c \in Unsaved PROVE c \in Command
  <2>1. PICK k \in Key : c \in {[key |-> k, ver |-> m] : m \in (disk[k] + 1)..store[k]}
    BY DEF Unsaved
  <2>2. PICK n \in (disk[k] + 1)..store[k] : c = [key |-> k, ver |-> n]
    BY <2>1
  <2>3. n \in Nat
    BY <1>1
  <2> QED BY <2>2, <2>3 DEF Command
<1>3. ASSUME NEW k \in Key, NEW n \in Nat, disk[k] < n, n <= store[k]
      PROVE  [key |-> k, ver |-> n] \in Unsaved
  <2>1. n \in (disk[k] + 1)..store[k]
    BY <1>1, <1>3
  <2> QED BY <2>1 DEF Unsaved
<1> QED BY <1>2, <1>3

LEMMA TypeInit == Init => TypeOK
BY RedisAssumption DEF Init, TypeOK, Absent

LEMMA TypeStep == TypeOK /\ [Next]_vars => TypeOK'
<1> SUFFICES ASSUME TypeOK, [Next]_vars PROVE TypeOK'
  OBVIOUS
<1>1. ASSUME NEW k \in Key, Set(k) PROVE TypeOK'
  <2>1. [key |-> k, ver |-> sets[k] + 1] \in Command
    BY DEF TypeOK, Command
  <2>2. queue' \in Seq(Command)
    BY <1>1, <2>1 DEF Set, TypeOK
  <2> QED BY <1>1, <2>2 DEF Set, TypeOK, workerVars, serverVars
<1>2. ASSUME NEW k \in Key, Get(k) PROVE TypeOK'
  <2>1. reads' \in [Key -> [ver : Nat, run : 0..run]]
    <3>1. [ver |-> store[k], run |-> run] \in [ver : Nat, run : 0..run]
      BY DEF TypeOK
    <3>2. [ver |-> Absent, run |-> 0] \in [ver : Nat, run : 0..run]
      BY DEF TypeOK, Absent
    <3> QED BY <1>2, <3>1, <3>2 DEF Get, TypeOK
  <2> QED BY <1>2, <2>1 DEF Get, TypeOK, workerVars, serverVars
<1>3. CASE Connect \/ ManagerReconnects
  BY <1>3 DEF Connect, ManagerReconnects, TypeOK, serverVars
<1>4. CASE Take
  <2>1. Head(queue) \in Command /\ Tail(queue) \in Seq(Command)
    BY <1>4 DEF Take, TypeOK
  <2> QED BY <1>4, <2>1, CommandIsSomething DEF Take, TypeOK, serverVars
<1>5. CASE Executed
  <2>1. current \in Command
    BY <1>5 DEF Executed, TypeOK
  <2>2. store' \in [Key -> Nat]
    BY <1>5, <2>1 DEF Executed, TypeOK, Command
  <2> QED BY <1>5, <2>2 DEF Executed, TypeOK
<1>6. CASE Answered
  BY <1>6 DEF Answered, TypeOK, serverVars
<1>7. CASE Failed
  <2>1. lost' \subseteq Command
    BY <1>7 DEF Failed, TypeOK
  <2> QED BY <1>7, <2>1 DEF Failed, TypeOK
<1>8. CASE TimedOut
  <2>1. current \in Command
    BY <1>8 DEF TimedOut, TypeOK
  <2>2. late' \in Seq(Command)
    BY <1>8, <2>1 DEF TimedOut, TypeOK
  <2> QED BY <1>8, <2>2 DEF TimedOut, TypeOK
<1>9. CASE Reconnect
  BY <1>9 DEF Reconnect, TypeOK, serverVars
<1>10. CASE ExecuteLate
  <2>1. Head(late) \in Command /\ Tail(late) \in Seq(Command)
    BY <1>10 DEF ExecuteLate, TypeOK
  <2>2. store' \in [Key -> Nat]
    BY <1>10, <2>1 DEF ExecuteLate, TypeOK, Command
  <2> QED BY <1>10, <2>1, <2>2 DEF ExecuteLate, TypeOK, workerVars
<1>11. CASE Save
  BY <1>11 DEF Save, TypeOK, workerVars
<1>12. CASE Crash
  <2>1. late' = <<>> /\ <<>> \in Seq(Command)
    BY <1>12 DEF Crash
  <2>2. lost' \subseteq Command
    BY <1>12 DEF Crash, TypeOK
  <2> QED BY <1>12, <2>1, <2>2 DEF Crash, TypeOK, workerVars
<1>13. CASE Restart
  <2>1. run' \in Nat \ {0} /\ 0..run \subseteq 0..run'
    BY <1>13 DEF Restart, TypeOK
  <2>2. reads' \in [Key -> [ver : Nat, run : 0..run']] /\ conn' \in 0..run'
    BY <1>13, <2>1 DEF Restart, TypeOK, workerVars
  <2>3. lost' \subseteq Command
    BY <1>13, UnsavedAre DEF Restart, TypeOK
  <2> QED BY <1>13, <2>1, <2>2, <2>3 DEF Restart, TypeOK, workerVars
<1>14. CASE UNCHANGED vars
  BY <1>14 DEF vars, TypeOK
<1> QED BY <1>1, <1>2, <1>3, <1>4, <1>5, <1>6, <1>7, <1>8, <1>9, <1>10, <1>11, <1>12, <1>13, <1>14
        DEF Next, Worker

(* The variables of the map, its worker and its server keep their types,   *)
(* and the worker has a command in hand exactly while it queries for one   *)
(* (background_worker, redis.rs:33-79).                                    *)
THEOREM TypeCorrect == Spec => []TypeOK
BY TypeInit, TypeStep, PTL DEF Spec
-----------------------------------------------------------------------------
(***************************************************************************)
(* What is still to be executed.                                           *)
(***************************************************************************)
(* The commands of a list are newer than what the store `st` has of their  *)
(* keys, not newer than the last call in `se`, and in the order of calls.  *)
InOrder(list, st, se) ==
  /\ \A i \in 1..Len(list) : st[list[i].key] < list[i].ver /\ list[i].ver <= se[list[i].key]
  /\ \A i, j \in 1..Len(list) :
       i < j /\ list[i].key = list[j].key => list[i].ver < list[j].ver

Stores(st, se) == \A k \in Key : disk[k] <= st[k] /\ st[k] <= se[k]

Executing == IF pc = "query" THEN <<current>> ELSE <<>>

LEMMA CommandFields ==
  ASSUME NEW s \in Seq(Command)
  PROVE  \A i \in 1..Len(s) : s[i].key \in Key /\ s[i].ver \in Nat
<1> SUFFICES ASSUME NEW i \in 1..Len(s) PROVE s[i].key \in Key /\ s[i].ver \in Nat
  OBVIOUS
<1>1. s[i] \in Command
  OBVIOUS
<1> QED BY <1>1 DEF Command

LEMMA SetsInOrderIs ==
  /\ SetsInOrder <=> Stores(store, sets) /\ InOrder(ToDo, store, sets)
  /\ ToDo = late \o Executing \o queue
BY DEF SetsInOrder, Stores, InOrder, ToDo, Executing

LEMMA ToDoTyped ==
  ASSUME TypeOK
  PROVE  /\ Executing \in Seq(Command) /\ ToDo \in Seq(Command)
         /\ late \in Seq(Command) /\ queue \in Seq(Command)
<1>1. Executing \in Seq(Command)
  BY DEF TypeOK, Executing
<1> QED BY <1>1 DEF TypeOK, ToDo, Executing

(* Leaving commands out does no harm, wherever they are in the list.       *)
LEMMA SomeInOrder ==
  ASSUME NEW s \in Seq(Command), NEW t \in Seq(Command), NEW st, NEW se,
         NEW at \in [1..Len(t) -> 1..Len(s)],
         \A i \in 1..Len(t) : t[i] = s[at[i]],
         \A i, j \in 1..Len(t) : i < j => at[i] < at[j],
         InOrder(s, st, se)
  PROVE  InOrder(t, st, se)
<1>1. \A i \in 1..Len(t) : at[i] \in 1..Len(s)
  OBVIOUS
<1> QED BY <1>1 DEF InOrder

(* A command that is the newest of its key may join at the end.            *)
LEMMA NewestJoins ==
  ASSUME NEW s \in Seq(Command), NEW c \in Command,
         NEW st \in [Key -> Nat], NEW se \in [Key -> Nat],
         InOrder(s, st, se), st[c.key] <= se[c.key], c.ver = se[c.key] + 1
  PROVE  InOrder(Append(s, c), st, [se EXCEPT ![c.key] = @ + 1])
<1> DEFINE t == Append(s, c)
           se2 == [se EXCEPT ![c.key] = @ + 1]
           n == Len(s)
<1>1. n \in Nat /\ Len(t) = n + 1 /\ t[n + 1] = c /\ \A i \in 1..n : t[i] = s[i]
  OBVIOUS
<1>2. c.key \in Key /\ c.ver \in Nat /\ \A i \in 1..n : s[i].key \in Key /\ s[i].ver \in Nat
  <2>1. c.key \in Key /\ c.ver \in Nat
    BY DEF Command
  <2> QED BY <2>1, CommandFields
<1>3. \A k \in Key : se2[k] = IF k = c.key THEN se[k] + 1 ELSE se[k]
  OBVIOUS
<1>4. \A k \in Key : se[k] \in Nat /\ st[k] \in Nat
  OBVIOUS
<1> HIDE DEF t, se2, n
<1>5. \A i \in 1..n : st[s[i].key] < s[i].ver /\ s[i].ver <= se[s[i].key]
  BY DEF InOrder, n
<1>6. ASSUME NEW i \in 1..Len(t) PROVE st[t[i].key] < t[i].ver /\ t[i].ver <= se2[t[i].key]
  <2>1. CASE i = n + 1
    <3>1. st[c.key] < se[c.key] + 1 /\ se2[c.key] = se[c.key] + 1
      BY <1>2, <1>3, <1>4
    <3> QED BY <1>1, <2>1, <3>1, <1>2, <1>4
  <2>2. CASE i \in 1..n
    <3>1. se[s[i].key] <= se2[s[i].key] /\ se[s[i].key] \in Nat /\ se2[s[i].key] \in Nat
      <4>1. ASSUME NEW k \in Key PROVE se[k] <= se2[k] /\ se[k] \in Nat /\ se2[k] \in Nat
        <5>1. se[k] \in Nat /\ se2[k] = IF k = c.key THEN se[k] + 1 ELSE se[k]
          BY <1>3, <1>4
        <5> QED BY <5>1
      <4> QED BY <1>2, <2>2, <4>1
    <3>2. st[s[i].key] < s[i].ver /\ s[i].ver <= se[s[i].key] /\ s[i].ver \in Nat
      BY <1>2, <1>5, <2>2
    <3> QED BY <1>1, <2>2, <3>1, <3>2
  <2> QED BY <1>1, <2>1, <2>2
<1>7. ASSUME NEW i \in 1..Len(t), NEW j \in 1..Len(t), i < j, t[i].key = t[j].key
      PROVE  t[i].ver < t[j].ver
  <2>1. i \in 1..n /\ t[i] = s[i]
    BY <1>1, <1>7
  <2>2. CASE j = n + 1
    BY <1>1, <1>2, <1>4, <1>5, <1>7, <2>1, <2>2
  <2>3. CASE j \in 1..n
    BY <1>1, <1>7, <2>1, <2>3 DEF InOrder, n
  <2> QED BY <1>1, <2>2, <2>3
<1> QED BY <1>6, <1>7 DEF InOrder, t, se2

(* Executing the oldest command leaves the others newer than the store.    *)
LEMMA OldestExecuted ==
  ASSUME NEW s \in Seq(Command), s # <<>>,
         NEW st \in [Key -> Nat], NEW se \in [Key -> Nat], InOrder(s, st, se)
  PROVE  /\ InOrder(Tail(s), [st EXCEPT ![Head(s).key] = Head(s).ver], se)
         /\ Head(s).key \in Key /\ Head(s).ver \in Nat
         /\ st[Head(s).key] < Head(s).ver /\ Head(s).ver <= se[Head(s).key]
<1> DEFINE t == Tail(s)
           c == Head(s)
           st2 == [st EXCEPT ![c.key] = c.ver]
<1>1. /\ Len(s) \in Nat \ {0} /\ c = s[1] /\ c \in Command
      /\ Len(t) = Len(s) - 1 /\ \A i \in 1..Len(t) : t[i] = s[i + 1]
  OBVIOUS
<1>2. c.key \in Key /\ c.ver \in Nat
  BY <1>1 DEF Command
<1>3. \A i \in 1..Len(t) : t[i].key \in Key /\ t[i].ver \in Nat
  <2>1. t \in Seq(Command)
    OBVIOUS
  <2> QED BY <2>1, CommandFields
<1>4. \A k \in Key : st2[k] = IF k = c.key THEN c.ver ELSE st[k]
  OBVIOUS
<1> HIDE DEF t, c, st2
<1>5. st[c.key] < c.ver /\ c.ver <= se[c.key]
  BY <1>1 DEF InOrder
<1>6. ASSUME NEW i \in 1..Len(t) PROVE st2[t[i].key] < t[i].ver /\ t[i].ver <= se[t[i].key]
  <2>1. i + 1 \in 1..Len(s) /\ 1 \in 1..Len(s) /\ 1 < i + 1 /\ t[i] = s[i + 1]
    BY <1>1
  <2>2. st[t[i].key] < t[i].ver /\ t[i].ver <= se[t[i].key] /\ (c.key = t[i].key => c.ver < t[i].ver)
    BY <1>1, <2>1 DEF InOrder
  <2> QED BY <1>3, <1>4, <2>2
<1>7. ASSUME NEW i \in 1..Len(t), NEW j \in 1..Len(t), i < j, t[i].key = t[j].key
      PROVE  t[i].ver < t[j].ver
  <2>1. /\ i + 1 \in 1..Len(s) /\ j + 1 \in 1..Len(s) /\ i + 1 < j + 1
        /\ t[i] = s[i + 1] /\ t[j] = s[j + 1]
    BY <1>1, <1>7
  <2> QED BY <1>7, <2>1 DEF InOrder
<1> QED BY <1>2, <1>5, <1>6, <1>7 DEF InOrder, t, c, st2
-----------------------------------------------------------------------------
(***************************************************************************)
(* The order of the sets.                                                  *)
(***************************************************************************)
LEMMA SetKeepsOrder ==
  ASSUME TypeOK, SetsInOrder, NEW k \in Key, Set(k)
  PROVE  SetsInOrder'
<1> DEFINE c == [key |-> k, ver |-> sets[k] + 1]
<1>1. /\ c \in Command /\ ToDo \in Seq(Command) /\ queue \in Seq(Command)
      /\ late \in Seq(Command) /\ Executing \in Seq(Command)
  <2>1. c \in Command
    BY DEF TypeOK, Command
  <2> QED BY <2>1, ToDoTyped
<1>2. /\ sets' = [sets EXCEPT ![k] = @ + 1] /\ queue' = Append(queue, c)
      /\ UNCHANGED <<late, pc, current, store, disk>>
  BY DEF Set, workerVars, serverVars
<1>3. /\ sets \in [Key -> Nat] /\ store \in [Key -> Nat] /\ disk \in [Key -> Nat]
      /\ Stores(store, sets) /\ InOrder(ToDo, store, sets)
  BY SetsInOrderIs DEF TypeOK
<1>4. c.key = k /\ c.ver = sets[k] + 1 /\ store[k] <= sets[k]
  BY <1>3 DEF Stores
<1>5. ToDo' = Append(ToDo, c)
  <2>1. late \o Executing \o Append(queue, c) = Append(late \o Executing \o queue, c)
    BY <1>1
  <2> QED BY <1>2, <2>1 DEF ToDo, Executing
<1>6. InOrder(Append(ToDo, c), store, [sets EXCEPT ![k] = @ + 1])
  <2> HIDE DEF c
  <2> QED BY <1>1, <1>3, <1>4, NewestJoins
<1>7. Stores(store, sets)'
  BY <1>2, <1>3 DEF Stores
<1>8. InOrder(ToDo, store, sets)'
  BY <1>2, <1>5, <1>6 DEF InOrder
<1> QED BY <1>7, <1>8 DEF SetsInOrder, Stores, InOrder

(* A step that leaves the stores alone, and only leaves commands out.      *)
LEMMA FewerKeepOrder ==
  ASSUME TypeOK, SetsInOrder, UNCHANGED <<sets, store, disk>>,
         ToDo' \in Seq(Command),
         NEW at \in [1..Len(ToDo') -> 1..Len(ToDo)],
         \A i \in 1..Len(ToDo') : ToDo'[i] = ToDo[at[i]],
         \A i, j \in 1..Len(ToDo') : i < j => at[i] < at[j]
  PROVE  SetsInOrder'
<1>1. ToDo \in Seq(Command) /\ InOrder(ToDo, store, sets) /\ Stores(store, sets)
  BY ToDoTyped, SetsInOrderIs
<1> DEFINE t == ToDo'
<1>2. InOrder(t, store, sets)
  <2>1. /\ t \in Seq(Command) /\ at \in [1..Len(t) -> 1..Len(ToDo)]
        /\ \A i \in 1..Len(t) : t[i] = ToDo[at[i]]
        /\ \A i, j \in 1..Len(t) : i < j => at[i] < at[j]
    OBVIOUS
  <2> HIDE DEF t
  <2> QED BY <1>1, <2>1, SomeInOrder
<1> QED BY <1>1, <1>2 DEF SetsInOrder, Stores, InOrder

LEMMA SameKeepOrder ==
  ASSUME SetsInOrder, UNCHANGED <<sets, store>>, ToDo' = ToDo,
         \A k \in Key : disk'[k] <= store[k]
  PROVE  SetsInOrder'
BY DEF SetsInOrder

(* The server executes the oldest command.                                 *)
LEMMA ExecutionKeepsOrder ==
  ASSUME TypeOK, SetsInOrder, ToDo # <<>>, ToDo' = Tail(ToDo), UNCHANGED <<sets, disk>>,
         store' = [store EXCEPT ![Head(ToDo).key] = Head(ToDo).ver]
  PROVE  SetsInOrder' /\ \A k \in Key : store[k] <= store'[k]
<1>1. /\ ToDo \in Seq(Command) /\ InOrder(ToDo, store, sets) /\ Stores(store, sets)
      /\ sets \in [Key -> Nat] /\ store \in [Key -> Nat] /\ disk \in [Key -> Nat]
  BY ToDoTyped, SetsInOrderIs DEF TypeOK
<1> DEFINE c == Head(ToDo)
<1>2. /\ InOrder(Tail(ToDo), [store EXCEPT ![c.key] = c.ver], sets)
      /\ c.key \in Key /\ c.ver \in Nat /\ store[c.key] < c.ver /\ c.ver <= sets[c.key]
  BY <1>1, OldestExecuted
<1> HIDE DEF c
<1>3. \A k \in Key : store'[k] = IF k = c.key THEN c.ver ELSE store[k]
  BY <1>1 DEF c
<1>4. \A k \in Key : store[k] <= store'[k] /\ disk[k] <= store'[k] /\ store'[k] <= sets[k]
  BY <1>1, <1>2, <1>3 DEF Stores
<1>5. InOrder(ToDo, store, sets)'
  BY <1>2 DEF InOrder, c
<1> QED BY <1>4, <1>5 DEF SetsInOrder, InOrder

(* What is left of a non-empty first list and two others. *)
IsRest(all, a, b, c) ==
  all # <<>> /\ Head(all) = Head(a) /\ Tail(all) = Tail(a) \o b \o c

LEMMA RestOfThree ==
  \A a, b, c \in Seq(Command) : a # <<>> => IsRest(a \o b \o c, a, b, c)
<1> SUFFICES ASSUME NEW a \in Seq(Command), NEW b \in Seq(Command), NEW c \in Seq(Command), a # <<>>
             PROVE  IsRest(a \o b \o c, a, b, c)
  BY Zenon
<1> DEFINE r == b \o c
<1>1. r \in Seq(Command) /\ a \o b \o c = a \o r
  OBVIOUS
<1>2. Tail(a) \in Seq(Command) /\ Tail(a) \o b \o c = Tail(a) \o r
  OBVIOUS
<1> HIDE DEF r
<1>3. a \o r # <<>> /\ Head(a \o r) = Head(a) /\ Tail(a \o r) = Tail(a) \o r
  BY <1>1
<1>4. /\ a \o b \o c # <<>> /\ Head(a \o b \o c) = Head(a)
      /\ Tail(a \o b \o c) = Tail(a) \o b \o c
  BY <1>1, <1>2, <1>3
<1> QED BY <1>4, Zenon DEF IsRest

(* One step per action: where the command in hand goes.                    *)
LEMMA OrderStep ==
  ASSUME TypeOK, SetsInOrder, [Next]_vars
  PROVE  SetsInOrder'
<1> USE DEF Executing
<1>a. /\ late \in Seq(Command) /\ queue \in Seq(Command) /\ ToDo \in Seq(Command)
      /\ ToDo = late \o Executing \o queue /\ Executing \in Seq(Command)
      /\ \A k \in Key : disk[k] <= store[k] /\ store[k] \in Nat
  BY ToDoTyped, SetsInOrderIs DEF SetsInOrder, TypeOK
<1>1. ASSUME NEW k \in Key, Set(k) PROVE SetsInOrder'
  BY <1>1, SetKeepsOrder
<1>2. ASSUME NEW k \in Key, Get(k) PROVE SetsInOrder'
  <2>1. UNCHANGED <<sets, queue, late, pc, current, store, disk>>
    BY <1>2 DEF Get, workerVars, serverVars
  <2> QED BY <1>a, <2>1, SameKeepOrder DEF ToDo
<1>3. CASE Connect \/ Reconnect \/ Answered \/ ManagerReconnects
  <2>1. UNCHANGED <<sets, queue, late, store, disk>> /\ pc # "query" /\ pc' # "query"
    BY <1>3 DEF Connect, Reconnect, Answered, ManagerReconnects, serverVars
  <2> QED BY <1>a, <2>1, SameKeepOrder DEF ToDo
<1>4. CASE Take
  <2>1. /\ UNCHANGED <<sets, late, store, disk>>
        /\ queue # <<>> /\ queue' = Tail(queue) /\ current' = Head(queue)
        /\ pc # "query" /\ pc' = "query"
    BY <1>4 DEF Take, serverVars
  <2>2. late \o <<Head(queue)>> \o Tail(queue) = late \o <<>> \o queue
    BY <1>a, <2>1
  <2>3. ToDo' = ToDo
    BY <2>1, <2>2 DEF ToDo
  <2> QED BY <1>a, <2>1, <2>3, SameKeepOrder
<1>5. CASE Executed
  <2>1. /\ UNCHANGED <<sets, queue, late, disk>> /\ late = <<>>
        /\ store' = [store EXCEPT ![current.key] = current.ver]
        /\ pc = "query" /\ pc' # "query"
    BY <1>5 DEF Executed
  <2>2. current \in Command
    BY <2>1 DEF TypeOK
  <2>3. ToDo = <<current>> \o queue /\ ToDo' = queue
    BY <1>a, <2>1, <2>2 DEF ToDo
  <2>4. ToDo # <<>> /\ Head(ToDo) = current /\ Tail(ToDo) = queue
    BY <1>a, <2>2, <2>3
  <2> QED BY <2>1, <2>3, <2>4, ExecutionKeepsOrder
<1>6. CASE Failed
  <2>1. UNCHANGED <<sets, queue, late, store, disk>> /\ pc' # "query"
    BY <1>6 DEF Failed
  <2>2. ToDo' = late \o queue
    BY <1>a, <2>1 DEF ToDo
  <2>3. CASE pc # "query"
    BY <1>a, <2>1, <2>3, SameKeepOrder DEF ToDo
  <2>4. CASE pc = "query"
    <3> DEFINE at == [i \in 1..Len(ToDo') |-> IF i <= Len(late) THEN i ELSE i + 1]
    <3>1. current \in Command
      BY <2>4 DEF TypeOK
    <3>2. /\ Len(late) \in Nat /\ Len(queue) \in Nat
          /\ Len(ToDo) = Len(late) + 1 + Len(queue) /\ Len(ToDo') = Len(late) + Len(queue)
      BY <1>a, <2>2, <2>4, <3>1
    <3>3. \A i \in 1..Len(late) : ToDo[i] = late[i] /\ ToDo'[i] = late[i]
      BY <1>a, <2>2, <2>4, <3>1
    <3>4. \A i \in 1..Len(queue) :
            ToDo[Len(late) + 1 + i] = queue[i] /\ ToDo'[Len(late) + i] = queue[i]
      BY <1>a, <2>2, <2>4, <3>1
    <3>5. at \in [1..Len(ToDo') -> 1..Len(ToDo)]
      BY <3>2
    <3>6. \A i, j \in 1..Len(ToDo') : i < j => at[i] < at[j]
      BY <3>2
    <3>7. ASSUME NEW i \in 1..Len(ToDo') PROVE ToDo'[i] = ToDo[at[i]]
      <4>1. CASE i <= Len(late)
        BY <3>2, <3>3, <4>1
      <4>2. CASE i > Len(late)
        <5>1. i - Len(late) \in 1..Len(queue) /\ at[i] = Len(late) + 1 + (i - Len(late))
          BY <3>2, <4>2
        <5>2. ToDo[Len(late) + 1 + (i - Len(late))] = ToDo'[Len(late) + (i - Len(late))]
          BY <3>4, <5>1
        <5> QED BY <3>2, <5>1, <5>2
      <4> QED BY <3>2, <4>1, <4>2
    <3>8. ToDo' \in Seq(Command)
      BY <1>a, <2>2
    <3> HIDE DEF at
    <3> QED BY <2>1, <3>5, <3>6, <3>7, <3>8, FewerKeepOrder
  <2> QED BY <2>3, <2>4
<1>7. CASE TimedOut
  <2>1. UNCHANGED <<sets, queue, store, disk>> /\ pc' # "query"
    BY <1>7 DEF TimedOut
  <2>2. CASE pc = "query"
    <3>1. current \in Command /\ late' = Append(late, current)
      BY <1>7, <2>2 DEF TimedOut, TypeOK
    <3>2. Append(late, current) \o <<>> \o queue = late \o <<current>> \o queue
      BY <1>a, <3>1
    <3>3. ToDo' = ToDo
      BY <2>1, <2>2, <3>1, <3>2 DEF ToDo
    <3> QED BY <1>a, <2>1, <3>3, SameKeepOrder
  <2>3. CASE pc # "query"
    <3>1. late' = late
      BY <1>7, <2>3 DEF TimedOut
    <3> QED BY <1>a, <2>1, <2>3, <3>1, SameKeepOrder DEF ToDo
  <2> QED BY <2>2, <2>3
<1>8. CASE ExecuteLate
  <2>1. /\ UNCHANGED <<sets, queue, pc, current, disk>> /\ late # <<>> /\ late' = Tail(late)
        /\ store' = [store EXCEPT ![Head(late).key] = Head(late).ver]
    BY <1>8 DEF ExecuteLate, workerVars
  <2>2. ToDo # <<>> /\ Head(ToDo) = Head(late) /\ Tail(ToDo) = Tail(late) \o Executing \o queue
    <3> HIDE DEF Executing
    <3>1. /\ late \in Seq(Command) /\ Executing \in Seq(Command) /\ queue \in Seq(Command)
          /\ late # <<>> /\ ToDo = late \o Executing \o queue
      BY <1>a, <2>1
    <3>2. IsRest(late \o Executing \o queue, late, Executing, queue)
      BY <3>1, RestOfThree, Zenon
    <3>3. IsRest(ToDo, late, Executing, queue)
      BY <3>1, <3>2, Zenon
    <3> QED BY <3>3, Zenon DEF IsRest
  <2>3. ToDo' = Tail(ToDo)
    BY <2>1, <2>2 DEF ToDo
  <2> QED BY <2>1, <2>2, <2>3, ExecutionKeepsOrder
<1>9. CASE Save
  <2>1. UNCHANGED <<sets, queue, late, pc, current, store>> /\ disk' = store
    BY <1>9 DEF Save, workerVars
  <2> QED BY <1>a, <2>1, SameKeepOrder DEF ToDo
<1>10. CASE Crash
  <2>1. UNCHANGED <<sets, queue, pc, current, store, disk>> /\ late' = <<>>
    BY <1>10 DEF Crash, workerVars
  <2> DEFINE r == Executing \o queue
             at == [i \in 1..Len(ToDo') |-> i + Len(late)]
  <2>2. r \in Seq(Command) /\ ToDo = late \o r /\ ToDo' = r
    <3>1. ToDo' = <<>> \o Executing \o queue
      BY <2>1 DEF ToDo
    <3> HIDE DEF Executing
    <3> QED BY <1>a, <3>1
  <2> HIDE DEF r
  <2>3. /\ Len(late) \in Nat /\ Len(r) \in Nat /\ Len(ToDo) = Len(late) + Len(r)
        /\ \A i \in 1..Len(r) : ToDo[i + Len(late)] = r[i]
    <3>1. late \in Seq(Command)
      BY <1>a
    <3>2. Len(late) \in Nat /\ Len(r) \in Nat /\ Len(late \o r) = Len(late) + Len(r)
      BY <2>2, <3>1
    <3>3. ASSUME NEW i \in 1..Len(r) PROVE (late \o r)[i + Len(late)] = r[i]
      <4>1. i + Len(late) \in 1..Len(late) + Len(r) /\ i + Len(late) > Len(late)
            /\ (i + Len(late)) - Len(late) = i
        BY <3>2
      <4> QED BY <2>2, <3>1, <4>1
    <3> QED BY <2>2, <3>2, <3>3
  <2>4. /\ at \in [1..Len(ToDo') -> 1..Len(ToDo)]
        /\ \A i \in 1..Len(ToDo') : ToDo'[i] = ToDo[at[i]]
        /\ \A i, j \in 1..Len(ToDo') : i < j => at[i] < at[j]
    BY <2>2, <2>3
  <2> HIDE DEF at
  <2> QED BY <2>1, <2>2, <2>4, FewerKeepOrder
<1>11. CASE Restart
  <2>1. UNCHANGED <<sets, queue, late, pc, current, disk>> /\ store' = disk
    BY <1>11 DEF Restart, workerVars
  <2>2. ToDo' = ToDo
    BY <2>1 DEF ToDo
  <2>3. \A k \in Key : disk[k] \in Nat /\ store[k] \in Nat /\ sets[k] \in Nat
    BY DEF TypeOK
  <2>4. \A i \in 1..Len(ToDo) : ToDo[i].key \in Key /\ ToDo[i].ver \in Nat
    BY <1>a, CommandFields
  <2>5. \A k \in Key : disk'[k] <= store'[k] /\ store'[k] <= sets'[k]
    BY <2>1, <2>3 DEF SetsInOrder
  <2>6. ASSUME NEW i \in 1..Len(ToDo) PROVE disk[ToDo[i].key] < ToDo[i].ver
    <3>1. /\ disk[ToDo[i].key] <= store[ToDo[i].key] /\ store[ToDo[i].key] < ToDo[i].ver
          /\ disk[ToDo[i].key] \in Nat /\ store[ToDo[i].key] \in Nat
      BY <2>3, <2>4 DEF SetsInOrder
    <3> QED BY <2>4, <3>1
  <2> QED BY <2>1, <2>2, <2>5, <2>6 DEF SetsInOrder
<1>12. CASE UNCHANGED vars
  <2>1. UNCHANGED <<sets, queue, late, pc, current, store, disk>>
    BY <1>12 DEF vars
  <2> QED BY <1>a, <2>1, SameKeepOrder DEF ToDo
<1> QED BY <1>1, <1>2, <1>3, <1>4, <1>5, <1>6, <1>7, <1>8, <1>9, <1>10, <1>11, <1>12
        DEF Next, Worker

(* A set never undoes a later one, whatever the server and the connections *)
(* do: the worker drops a failed SET and never retries it (68-74).         *)
THEOREM SetsStayInOrder == Spec => []SetsInOrder
<1>1. Init => SetsInOrder
  BY DEF Init, SetsInOrder, ToDo, Absent
<1>2. TypeOK /\ SetsInOrder /\ [Next]_vars => SetsInOrder'
  BY OrderStep
<1> QED BY TypeCorrect, <1>1, <1>2, PTL DEF Spec
-----------------------------------------------------------------------------
(***************************************************************************)
(* What the gets return.                                                   *)
(***************************************************************************)
LEMMA StoreGrows ==
  ASSUME TypeOK, SetsInOrder, Executed \/ ExecuteLate
  PROVE  \A k \in Key : store[k] <= store'[k]
<1>1. ASSUME NEW c \in Command, store[c.key] < c.ver,
             store' = [store EXCEPT ![c.key] = c.ver], NEW k \in Key
      PROVE  store[k] <= store'[k]
  <2>1. store \in [Key -> Nat] /\ c.key \in Key /\ c.ver \in Nat
    BY DEF TypeOK, Command
  <2>2. store'[k] = IF k = c.key THEN c.ver ELSE store[k]
    BY <1>1, <2>1
  <2> QED BY <1>1, <2>1, <2>2
<1>2. CASE Executed
  <2>1. /\ current \in Command /\ queue \in Seq(Command)
        /\ store' = [store EXCEPT ![current.key] = current.ver]
    BY <1>2 DEF Executed, TypeOK
  <2>2. ToDo = <<>> \o <<current>> \o queue
    BY <1>2 DEF Executed, ToDo
  <2>3. 1 \in 1..Len(ToDo) /\ ToDo[1] = current
    BY <2>1, <2>2
  <2>4. store[current.key] < current.ver
    BY <2>3 DEF SetsInOrder
  <2> QED BY <1>1, <2>1, <2>4
<1>3. CASE ExecuteLate
  <2>1. /\ late \in Seq(Command) /\ late # <<>> /\ Head(late) \in Command
        /\ store' = [store EXCEPT ![Head(late).key] = Head(late).ver]
    BY <1>3 DEF ExecuteLate, TypeOK
  <2>2. ToDo \in Seq(Command) /\ ToDo # <<>> /\ Head(ToDo) = Head(late)
    <3>1. Executing \in Seq(Command) /\ queue \in Seq(Command)
      BY ToDoTyped DEF TypeOK
    <3>2. IsRest(late \o Executing \o queue, late, Executing, queue)
      BY <2>1, <3>1, RestOfThree, Zenon
    <3>3. IsRest(ToDo, late, Executing, queue)
      BY <3>2, SetsInOrderIs, Zenon
    <3> QED BY <3>3, ToDoTyped, Zenon DEF IsRest
  <2>3. 1 \in 1..Len(ToDo) /\ ToDo[1] = Head(late)
    BY <2>2
  <2>4. store[Head(late).key] < Head(late).ver
    BY <2>3 DEF SetsInOrder
  <2> QED BY <1>1, <2>1, <2>4
<1> QED BY <1>2, <1>3

LEMMA ReadsStep ==
  ASSUME TypeOK, SetsInOrder, ReadsGoForward, [Next]_vars
  PROVE  ReadsGoForward'
<1>a. /\ reads \in [Key -> [ver : Nat, run : 0..run]] /\ run \in Nat \ {0}
      /\ store \in [Key -> Nat]
  BY DEF TypeOK
<1>b. \A k \in Key : reads[k].ver \in Nat /\ reads[k].run \in 0..run
  <2> SUFFICES ASSUME NEW k \in Key PROVE reads[k].ver \in Nat /\ reads[k].run \in 0..run
    OBVIOUS
  <2>1. reads[k] \in [ver : Nat, run : 0..run]
    BY <1>a
  <2> QED BY <2>1
<1>1. ASSUME NEW g \in Key, Get(g) PROVE ReadsGoForward'
  <2>1. UNCHANGED <<run, store>>
    BY <1>1 DEF Get, serverVars
  <2>2. ASSUME NEW k \in Key, reads'[k].run = run PROVE reads'[k].ver <= store[k]
    <3>1. CASE k # g
      <4>1. reads'[k] = reads[k]
        BY <1>1, <1>a, <3>1 DEF Get
      <4> QED BY <2>2, <4>1 DEF ReadsGoForward
    <3>2. CASE k = g /\ reads'[k] = [ver |-> store[k], run |-> run]
      BY <1>a, <3>2
    <3>3. CASE k = g /\ reads'[k] = [ver |-> Absent, run |-> 0]
      BY <1>a, <2>2, <3>3
    <3>4. reads'[g] \in {[ver |-> store[g], run |-> run], [ver |-> Absent, run |-> 0]}
      BY <1>1, <1>a DEF Get
    <3> QED BY <3>1, <3>2, <3>3, <3>4
  <2> QED BY <2>1, <2>2 DEF ReadsGoForward
<1>2. ASSUME UNCHANGED <<reads, run>>, \A k \in Key : store[k] <= store'[k] /\ store'[k] \in Nat
      PROVE  ReadsGoForward'
  <2>1. ASSUME NEW k \in Key, reads[k].run = run PROVE reads[k].ver <= store'[k]
    <3>1. reads[k].ver <= store[k] /\ store[k] \in Nat /\ reads[k].ver \in Nat
      BY <1>a, <1>b, <2>1 DEF ReadsGoForward
    <3> QED BY <1>2, <3>1
  <2> QED BY <1>2, <2>1 DEF ReadsGoForward
<1>3. CASE Executed \/ ExecuteLate
  <2>1. UNCHANGED <<reads, run>>
    BY <1>3 DEF Executed, ExecuteLate
  <2>2. store' \in [Key -> Nat]
    BY TypeStep DEF TypeOK
  <2> QED BY <1>2, <1>3, <2>1, <2>2, StoreGrows
<1>4. CASE Restart
  <2>1. reads' = reads /\ run' = run + 1
    BY <1>4 DEF Restart
  <2>2. \A k \in Key : reads[k].run # run + 1
    BY <1>a, <1>b
  <2> QED BY <2>1, <2>2 DEF ReadsGoForward
<1>5. CASE Connect \/ Take \/ Answered \/ Failed \/ TimedOut \/ Reconnect \/ ManagerReconnects \/ Save \/ Crash
  BY <1>5 DEF Connect, Take, Answered, Failed, TimedOut, Reconnect, ManagerReconnects, Save, Crash,
              serverVars, ReadsGoForward
<1>6. ASSUME NEW k \in Key, Set(k) PROVE ReadsGoForward'
  BY <1>6 DEF Set, serverVars, ReadsGoForward
<1>7. CASE UNCHANGED vars
  BY <1>7 DEF vars, ReadsGoForward
<1> QED BY <1>1, <1>3, <1>4, <1>5, <1>6, <1>7 DEF Next, Worker

(* A get never returns an older value than an earlier get of the key did   *)
(* while the server runs (RedisMemoryMap::get, 87-91): the server only     *)
(* executes commands that are newer than what it has.                      *)
THEOREM ReadsNeverGoBack == Spec => []ReadsGoForward
<1>1. Init => ReadsGoForward
  BY DEF Init, ReadsGoForward
<1>2. TypeOK /\ SetsInOrder /\ ReadsGoForward /\ [Next]_vars => ReadsGoForward'
  BY ReadsStep
<1> QED BY TypeCorrect, SetsStayInOrder, <1>1, <1>2, PTL DEF Spec
-----------------------------------------------------------------------------
(***************************************************************************)
(* What is lost.                                                           *)
(***************************************************************************)
Has(list, c) == \E i \in 1..Len(list) : list[i] = c

(* Where a set can be that the server has not executed yet. *)
Pending(c) == Has(late, c) \/ (pc = "query" /\ c = current) \/ Has(queue, c) \/ c \in lost

LEMMA HasAppend ==
  ASSUME NEW s \in Seq(Command), NEW d \in Command
  PROVE  \A c : Has(Append(s, d), c) <=> Has(s, c) \/ c = d
<1>1. /\ Len(s) \in Nat /\ Len(Append(s, d)) = Len(s) + 1 /\ Append(s, d)[Len(s) + 1] = d
      /\ \A i \in 1..Len(s) : Append(s, d)[i] = s[i]
  OBVIOUS
<1> QED BY <1>1 DEF Has

LEMMA HasHead ==
  ASSUME NEW s \in Seq(Command), s # <<>>
  PROVE  \A c : Has(s, c) <=> c = Head(s) \/ Has(Tail(s), c)
<1>1. /\ Len(s) \in Nat \ {0} /\ Len(Tail(s)) = Len(s) - 1 /\ Head(s) = s[1]
      /\ \A i \in 1..Len(Tail(s)) : Tail(s)[i] = s[i + 1]
  OBVIOUS
<1>2. ASSUME NEW c, Has(s, c) PROVE c = Head(s) \/ Has(Tail(s), c)
  <2>1. PICK i \in 1..Len(s) : s[i] = c
    BY <1>2 DEF Has
  <2>2. CASE i = 1
    BY <1>1, <2>1, <2>2
  <2>3. CASE i # 1
    <3>1. i - 1 \in 1..Len(Tail(s)) /\ Tail(s)[i - 1] = s[(i - 1) + 1] /\ (i - 1) + 1 = i
      BY <1>1, <2>3
    <3> QED BY <2>1, <3>1 DEF Has
  <2> QED BY <2>2, <2>3
<1>3. ASSUME NEW c, c = Head(s) \/ Has(Tail(s), c) PROVE Has(s, c)
  <2>1. ASSUME NEW i \in 1..Len(Tail(s)) PROVE i + 1 \in 1..Len(s) /\ Tail(s)[i] = s[i + 1]
    BY <1>1
  <2>2. 1 \in 1..Len(s)
    BY <1>1
  <2> QED BY <1>1, <1>3, <2>1, <2>2 DEF Has
<1> QED BY <1>2, <1>3

LEMMA HasEither ==
  ASSUME NEW s \in Seq(Command), NEW t \in Seq(Command)
  PROVE  \A c : Has(s \o t, c) <=> Has(s, c) \/ Has(t, c)
<1>1. /\ Len(s) \in Nat /\ Len(t) \in Nat /\ Len(s \o t) = Len(s) + Len(t)
      /\ \A i \in 1..Len(s) : (s \o t)[i] = s[i]
      /\ \A i \in 1..Len(s) + Len(t) : i > Len(s) => (s \o t)[i] = t[i - Len(s)]
  OBVIOUS
<1>2. ASSUME NEW c, Has(s \o t, c) PROVE Has(s, c) \/ Has(t, c)
  <2>1. PICK i \in 1..Len(s) + Len(t) : (s \o t)[i] = c
    BY <1>1, <1>2 DEF Has
  <2>2. i \in 1..Len(s) \/ (i > Len(s) /\ i - Len(s) \in 1..Len(t))
    BY <1>1
  <2> QED BY <1>1, <2>1, <2>2 DEF Has
<1>3. ASSUME NEW c, Has(s, c) PROVE Has(s \o t, c)
  <2>1. \A i \in 1..Len(s) : i \in 1..Len(s \o t)
    BY <1>1
  <2> QED BY <1>1, <1>3, <2>1 DEF Has
<1>4. ASSUME NEW c, Has(t, c) PROVE Has(s \o t, c)
  <2>1. PICK i \in 1..Len(t) : t[i] = c
    BY <1>4 DEF Has
  <2>2. /\ Len(s) + i \in 1..Len(s) + Len(t) /\ Len(s) + i > Len(s)
        /\ (Len(s) + i) - Len(s) = i
    BY <1>1
  <2> QED BY <1>1, <2>1, <2>2 DEF Has
<1> QED BY <1>2, <1>3, <1>4

AllPending ==
  \A k \in Key : \A n \in 1..sets[k] : store[k] < n => Pending([key |-> k, ver |-> n])

LEMMA OnlyFailedIs == TypeOK => (OnlyFailedAreLost <=> AllPending)
<1> SUFFICES ASSUME TypeOK PROVE OnlyFailedAreLost <=> AllPending
  OBVIOUS
<1>1. /\ late \in Seq(Command) /\ queue \in Seq(Command) /\ Executing \in Seq(Command)
      /\ ToDo = (late \o Executing) \o queue /\ late \o Executing \in Seq(Command)
  BY ToDoTyped, SetsInOrderIs
<1>2. \A c : Has(Executing, c) <=> pc = "query" /\ c = current
  <2>1. ASSUME NEW c PROVE Has(<<current>>, c) <=> c = current
    <3>1. Len(<<current>>) = 1 /\ <<current>>[1] = current
      OBVIOUS
    <3> QED BY <3>1 DEF Has
  <2>2. ASSUME NEW c PROVE ~Has(<<>>, c)
    BY DEF Has
  <2> QED BY <2>1, <2>2 DEF Executing
<1>3. \A c : Has(ToDo, c) \/ c \in lost <=> Pending(c)
  <2>1. \A c : Has(late \o Executing, c) <=> Has(late, c) \/ Has(Executing, c)
    BY <1>1, HasEither
  <2>2. \A c : Has(ToDo, c) <=> Has(late \o Executing, c) \/ Has(queue, c)
    <3>1. \A c : Has((late \o Executing) \o queue, c)
                   <=> Has(late \o Executing, c) \/ Has(queue, c)
      <4> DEFINE s == late \o Executing
      <4>1. s \in Seq(Command)
        BY <1>1
      <4> HIDE DEF s
      <4>2. \A c : Has(s \o queue, c) <=> Has(s, c) \/ Has(queue, c)
        BY <1>1, <4>1, HasEither
      <4> QED BY <4>2 DEF s
    <3> QED BY <1>1, <3>1
  <2> QED BY <1>2, <2>1, <2>2 DEF Pending
<1>4. \A k, n : Queued(k, n) <=> Has(ToDo, [key |-> k, ver |-> n])
  BY DEF Queued, Has
<1> QED BY <1>3, <1>4 DEF OnlyFailedAreLost, AllPending

LEMMA OnlyFailedIsNext == TypeOK' => (OnlyFailedAreLost' <=> AllPending')
BY OnlyFailedIs, PTL

(* A step without a call: what it does not execute stays pending.          *)
LEMMA StillPending ==
  ASSUME TypeOK, TypeOK', OnlyFailedAreLost, sets' = sets,
         \A k \in Key : store[k] <= store'[k],
         \A k \in Key : \A n \in Nat :
           /\ store'[k] < n
           /\ Pending([key |-> k, ver |-> n])
           => Pending([key |-> k, ver |-> n])'
  PROVE  OnlyFailedAreLost'
<1>1. ASSUME NEW k \in Key, NEW n \in 1..sets[k], store'[k] < n
      PROVE  Pending([key |-> k, ver |-> n])'
  <2>1. store[k] \in Nat /\ store'[k] \in Nat /\ sets[k] \in Nat /\ store[k] <= store'[k]
    BY DEF TypeOK
  <2>2. n \in Nat /\ store[k] < n
    BY <1>1, <2>1
  <2>3. Pending([key |-> k, ver |-> n])
    BY <2>2, OnlyFailedIs DEF AllPending
  <2> QED BY <1>1, <2>2, <2>3
<1>2. AllPending'
  BY <1>1 DEF AllPending
<1> QED BY <1>2, OnlyFailedIsNext

LEMMA LostStep ==
  ASSUME TypeOK, SetsInOrder, OnlyFailedAreLost, [Next]_vars
  PROVE  OnlyFailedAreLost'
<1>a. TypeOK'
  BY TypeStep
<1>b. /\ late \in Seq(Command) /\ queue \in Seq(Command) /\ AllPending
      /\ \A k \in Key : store[k] \in Nat /\ disk[k] \in Nat /\ sets[k] \in Nat
  BY OnlyFailedIs DEF TypeOK
<1>1. ASSUME NEW s \in Key, Set(s) PROVE OnlyFailedAreLost'
  <2> DEFINE d == [key |-> s, ver |-> sets[s] + 1]
  <2>1. /\ d \in Command /\ queue' = Append(queue, d) /\ UNCHANGED <<late, lost, pc, current, store>>
        /\ sets' = [sets EXCEPT ![s] = @ + 1]
    BY <1>1, <1>b DEF Set, workerVars, serverVars, Command
  <2>2. \A c : Has(queue', c) <=> Has(queue, c) \/ c = d
    <3> HIDE DEF d
    <3> QED BY <1>b, <2>1, HasAppend
  <2>3. \A c : Pending(c)' <=> Pending(c) \/ c = d
    BY <2>1, <2>2 DEF Pending
  <2>4. ASSUME NEW k \in Key, NEW n \in 1..sets'[k], store'[k] < n
        PROVE  Pending([key |-> k, ver |-> n])'
    <3>1. sets'[k] = IF k = s THEN sets[k] + 1 ELSE sets[k]
      BY <2>1 DEF TypeOK
    <3>2. n \in 1..sets[k] \/ (k = s /\ n = sets[s] + 1)
      BY <1>b, <3>1
    <3>3. CASE n \in 1..sets[k]
      BY <1>b, <2>1, <2>3, <2>4, <3>3 DEF AllPending
    <3>4. CASE k = s /\ n = sets[s] + 1
      BY <2>3, <3>4
    <3> QED BY <3>2, <3>3, <3>4
  <2>5. AllPending'
    BY <2>4 DEF AllPending
  <2> QED BY <1>a, <2>5, OnlyFailedIsNext
<1>2. ASSUME UNCHANGED <<sets, store>>, \A c : Pending(c) => Pending(c)'
      PROVE  OnlyFailedAreLost'
  BY <1>2, <1>a, <1>b, StillPending
<1>3. ASSUME UNCHANGED <<sets, queue, pc, current, late, lost, store>>
      PROVE  OnlyFailedAreLost'
  BY <1>3, <1>2 DEF Pending
<1>4. ASSUME NEW k \in Key, Get(k) PROVE OnlyFailedAreLost'
  BY <1>3, <1>4 DEF Get, workerVars, serverVars
<1>5. CASE Connect \/ Answered \/ Reconnect \/ ManagerReconnects
  <2>1. UNCHANGED <<sets, queue, late, lost, store>> /\ pc # "query"
    BY <1>5 DEF Connect, Answered, Reconnect, ManagerReconnects, serverVars
  <2> QED BY <1>2, <2>1 DEF Pending
<1>6. CASE Take
  <2>1. /\ UNCHANGED <<sets, late, lost, store>> /\ queue # <<>> /\ pc # "query" /\ pc' = "query"
        /\ current' = Head(queue) /\ queue' = Tail(queue)
    BY <1>6 DEF Take, serverVars
  <2>2. \A c : Has(queue, c) <=> c = Head(queue) \/ Has(Tail(queue), c)
    BY <1>b, <2>1, HasHead
  <2> QED BY <1>2, <2>1, <2>2 DEF Pending
<1>7. CASE Executed
  <2>1. /\ UNCHANGED <<sets, queue, late, lost>> /\ pc = "query"
        /\ store' = [store EXCEPT ![current.key] = current.ver]
    BY <1>7 DEF Executed
  <2>2. current \in Command /\ store \in [Key -> Nat]
    BY <2>1 DEF TypeOK
  <2>3. \A k \in Key : store[k] <= store'[k]
    BY <1>7, StoreGrows
  <2>4. ASSUME NEW k \in Key, NEW n \in Nat, store'[k] < n, Pending([key |-> k, ver |-> n])
        PROVE  Pending([key |-> k, ver |-> n])'
    <3>1. [key |-> k, ver |-> n] # current
      BY <2>1, <2>2, <2>4
    <3> QED BY <2>1, <2>4, <3>1 DEF Pending
  <2> QED BY <1>a, <2>1, <2>3, <2>4, StillPending
<1>8. CASE Failed
  <2>1. /\ UNCHANGED <<sets, queue, late, store>>
        /\ lost' = IF pc = "query" THEN lost \cup {current} ELSE lost
    BY <1>8 DEF Failed
  <2> QED BY <1>2, <2>1 DEF Pending
<1>9. CASE TimedOut
  <2>1. /\ UNCHANGED <<sets, queue, lost, store>>
        /\ late' = IF pc = "query" THEN Append(late, current) ELSE late
    BY <1>9 DEF TimedOut
  <2>2. CASE pc = "query"
    <3>1. current \in Command
      BY <2>2 DEF TypeOK
    <3>2. \A c : Has(late', c) <=> Has(late, c) \/ c = current
      BY <1>b, <2>1, <2>2, <3>1, HasAppend
    <3> QED BY <1>2, <2>1, <3>2 DEF Pending
  <2>3. CASE pc # "query"
    BY <1>2, <2>1, <2>3 DEF Pending
  <2> QED BY <2>2, <2>3
<1>10. CASE ExecuteLate
  <2>1. /\ UNCHANGED <<sets, queue, pc, current, lost>> /\ late # <<>> /\ late' = Tail(late)
        /\ store' = [store EXCEPT ![Head(late).key] = Head(late).ver]
    BY <1>10 DEF ExecuteLate, workerVars
  <2>2. Head(late) \in Command /\ store \in [Key -> Nat]
    BY <1>b, <2>1 DEF TypeOK
  <2>3. \A c : Has(late, c) <=> c = Head(late) \/ Has(late', c)
    BY <1>b, <2>1, HasHead
  <2>4. \A k \in Key : store[k] <= store'[k]
    BY <1>10, StoreGrows
  <2>5. ASSUME NEW k \in Key, NEW n \in Nat, store'[k] < n, Pending([key |-> k, ver |-> n])
        PROVE  Pending([key |-> k, ver |-> n])'
    <3>1. [key |-> k, ver |-> n] # Head(late)
      BY <2>1, <2>2, <2>5
    <3> QED BY <2>1, <2>3, <2>5, <3>1 DEF Pending
  <2> QED BY <1>a, <2>1, <2>4, <2>5, StillPending
<1>11. CASE Save
  BY <1>3, <1>11 DEF Save, workerVars
<1>12. CASE Crash
  <2>1. /\ UNCHANGED <<sets, queue, pc, current, store>>
        /\ lost' = lost \cup {late[i] : i \in 1..Len(late)}
    BY <1>12 DEF Crash, workerVars
  <2>2. \A c : Has(late, c) => c \in lost'
    BY <2>1 DEF Has
  <2> QED BY <1>2, <2>1, <2>2 DEF Pending
<1>13. CASE Restart
  <2>1. /\ UNCHANGED <<sets, queue, pc, current, late>> /\ store' = disk
        /\ lost' = lost \cup Unsaved
    BY <1>13 DEF Restart, workerVars
  <2>2. ASSUME NEW k \in Key, NEW n \in 1..sets[k], disk[k] < n
        PROVE  Pending([key |-> k, ver |-> n])'
    <3>1. CASE store[k] < n
      BY <1>b, <2>1, <3>1 DEF AllPending, Pending
    <3>2. CASE n <= store[k]
      BY <1>b, <2>1, <2>2, <3>2, UnsavedAre DEF Pending
    <3> QED BY <1>b, <3>1, <3>2
  <2>3. AllPending'
    BY <2>1, <2>2 DEF AllPending
  <2> QED BY <1>a, <2>3, OnlyFailedIsNext
<1>14. CASE UNCHANGED vars
  BY <1>3, <1>14 DEF vars
<1> QED BY <1>1, <1>4, <1>5, <1>6, <1>7, <1>8, <1>9, <1>10, <1>11, <1>12, <1>13, <1>14
        DEF Next, Worker

(* A failed SET costs itself only: the worker gives up one command for one *)
(* error (redis.rs:68-74), whatever the reason of the error is, and no     *)
(* other set is lost on its account, nor by a reconnection.                *)
THEOREM FailuresCostThemselves == Spec => []OnlyFailedAreLost
<1>1. Init => OnlyFailedAreLost
  BY DEF Init, OnlyFailedAreLost, Absent
<1>2. TypeOK /\ SetsInOrder /\ OnlyFailedAreLost /\ [Next]_vars => OnlyFailedAreLost'
  BY LostStep
<1> QED BY TypeCorrect, SetsStayInOrder, <1>1, <1>2, PTL DEF Spec
=============================================================================
