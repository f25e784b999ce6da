----------------------- MODULE NativeExpirationBuffer -----------------------
(***************************************************************************)
(* NativeExpirationBuffer of src/src/data/storage/backend/native.rs: a     *)
(* VecDeque of stamped values behind an RwLock, shared by threads.         *)
(*                                                                         *)
(* add and get both take the write lock first.  Under it, add reads the    *)
(* clock and then pushes; get reads the clock once for every entry it      *)
(* inspects, pops the expired ones from the front and copies what is left. *)
(* Each of these is a step of its own and time may pass between any two.   *)
(* std's RwLock is not fair: any waiting thread may get it next.           *)
(***************************************************************************)
EXTENDS Integers, Sequences

CONSTANTS Adder,    \* the threads that call add
          Getter,   \* the threads that call get
          Value,    \* the values added
          TTL,      \* the field ttl, in ticks of the clock
          MaxTime,  \* bound: the last time the clock shows
          MaxAdds   \* bound: calls of add

Thread == Adder \cup Getter

NoOne == "no one"

ASSUME BufferAssumption ==
  /\ TTL \in Nat
  /\ MaxTime \in Nat
  /\ MaxAdds \in Nat
  /\ NoOne \notin Thread

VARIABLES clock,    \* Instant::now()
          list,     \* the deque: [at, val] records, front first
          holder,   \* the thread that has the write lock, or NoOne
          pc,       \* pc[t]: where thread t is
          arg,      \* arg[t]: the entry thread t is adding
          got,      \* got[t]: what the last get of thread t returned
          evicted   \* history: the entries popped so far, oldest first

vars == <<clock, list, holder, pc, arg, got, evicted>>

Entry == [at : Nat, val : Value]

(* Mutant of Expired: strictly older than ttl. *)
ExpiredStrictly(e) == clock - e.at > TTL

Expired(e) == clock - e.at >= TTL

(* The entry stamped but not pushed yet. *)
Pending == IF holder \in Thread /\ pc[holder] = "push" THEN <<arg[holder]>> ELSE <<>>

Added == evicted \o list \o Pending

(* get takes effect when it finds nothing more to evict: from then on the  *)
(* thread has, so to speak, its result.                                    *)
Window == INSTANCE WindowBuffer WITH
  added  <- Added,
  result <- [t \in Thread |-> IF pc[t] = "collect"
                              THEN [i \in 1..Len(list) |-> list[i].val] ELSE got[t]]

ValuesOf(entries) == Window!ValuesOf(entries)

Init ==
  /\ clock = 0
  /\ list = <<>>
  /\ holder = NoOne
  /\ pc = [t \in Thread |-> "idle"]
  /\ arg = [t \in Thread |-> <<>>]
  /\ got = [t \in Thread |-> <<>>]
  /\ evicted = <<>>

Tick ==
  /\ clock < MaxTime
  /\ clock' = clock + 1
  /\ UNCHANGED <<list, holder, pc, arg, got, evicted>>
-----------------------------------------------------------------------------
Goto(t, label) == pc' = [pc EXCEPT ![t] = label]

Lock(t, label) ==
  /\ pc[t] = "idle"
  /\ holder = NoOne
  /\ holder' = t
  /\ Goto(t, label)

(***************************************************************************)
(* add                                                                     *)
(***************************************************************************)
LockForAdd(t) ==
  /\ Len(Added) < MaxAdds
  /\ Lock(t, "stamp")
  /\ UNCHANGED <<clock, list, arg, got, evicted>>

(* Mutant of Stamp: the guard is dropped once the time is read. *)
StampUnlocks(t) ==
  /\ pc[t] = "stamp"
  /\ \E v \in Value : arg' = [arg EXCEPT ![t] = [at |-> clock, val |-> v]]
  /\ holder' = NoOne
  /\ Goto(t, "push")
  /\ UNCHANGED <<clock, list, got, evicted>>

(* Instant::now() *)
Stamp(t) ==
  /\ pc[t] = "stamp"
  /\ \E v \in Value : arg' = [arg EXCEPT ![t] = [at |-> clock, val |-> v]]
  /\ Goto(t, "push")
  /\ UNCHANGED <<clock, list, holder, got, evicted>>

(* push_back, and the guard is dropped. *)
Push(t) ==
  /\ pc[t] = "push"
  /\ list' = Append(list, arg[t])
  /\ arg' = [arg EXCEPT ![t] = <<>>]
  /\ holder' = NoOne
  /\ Goto(t, "idle")
  /\ UNCHANGED <<clock, got, evicted>>
-----------------------------------------------------------------------------
(***************************************************************************)
(* get                                                                     *)
(***************************************************************************)
LockForGet(t) ==
  /\ Lock(t, "evict")
  /\ UNCHANGED <<clock, list, arg, got, evicted>>

(* Mutant of Evict: the front is inspected and left where it is. *)
EvictPeeks(t) ==
  /\ pc[t] = "evict"
  /\ list # <<>> /\ Expired(Head(list))
  /\ UNCHANGED vars

(* The front has expired: pop it and look at the next. *)
Evict(t) ==
  /\ pc[t] = "evict"
  /\ list # <<>> /\ Expired(Head(list))
  /\ evicted' = Append(evicted, Head(list))
  /\ list' = Tail(list)
  /\ UNCHANGED <<clock, holder, pc, arg, got>>

(* The deque is empty or its front is fresh: leave the loop. *)
EvictDone(t) ==
  /\ pc[t] = "evict"
  /\ list # <<>> => ~Expired(Head(list))
  /\ Goto(t, "collect")
  /\ UNCHANGED <<clock, list, holder, arg, got, evicted>>

(* Copy the values, drop the guard. *)
Collect(t) ==
  /\ pc[t] = "collect"
  /\ got' = [got EXCEPT ![t] = ValuesOf(list)]
  /\ holder' = NoOne
  /\ Goto(t, "idle")
  /\ UNCHANGED <<clock, list, arg, evicted>>
-----------------------------------------------------------------------------
UnderLock(t) == Stamp(t) \/ Push(t) \/ Evict(t) \/ EvictDone(t) \/ Collect(t)

Next ==
  \/ Tick
  \/ \E t \in Adder : LockForAdd(t)
  \/ \E t \in Getter : LockForGet(t)
  \/ \E t \in Thread : UnderLock(t)

Spec == Init /\ [][Next]_vars

(* The operating system runs a thread that is not blocked, and time goes   *)
(* on.  Nobody has to call add or get, and the lock may starve a caller.   *)
FairSpec == Spec /\ WF_vars(Tick) /\ \A t \in Thread : WF_vars(UnderLock(t))
-----------------------------------------------------------------------------
(***************************************************************************)
(* Properties.                                                             *)
(***************************************************************************)
(* The types of the variables, and which thread is where: only the holder  *)
(* of the lock is past it, an adder in add and a getter in get.            *)
TypeOK ==
  /\ clock \in Nat
  /\ list \in Seq(Entry)
  /\ holder \in Thread \cup {NoOne}
  /\ pc \in [Thread -> {"idle", "stamp", "push", "evict", "collect"}]
  /\ \A t \in Thread : pc[t] # "idle" <=> holder = t
  /\ arg \in [Thread -> Entry \cup {<<>>}]
  /\ \A t \in Thread : pc[t] = "push" => arg[t] \in Entry
  /\ got \in [Thread -> Seq(Value)]
  /\ evicted \in Seq(Entry)

(* The deque is sorted by time and holds nothing from the future, although *)
(* several threads add and none of them is stopped between reading the     *)
(* clock and pushing: the clock is read under the lock (native.rs:54-55).  *)
(* get relies on it, it stops at the first fresh entry (66).               *)
StampsSorted ==
  /\ \A i \in 1..Len(Added) : Added[i].at <= clock
  /\ \A i, j \in 1..Len(Added) : i <= j => Added[i].at <= Added[j].at

(* The buffer implements the rolling window: whatever the interleaving,    *)
(* and although the deque keeps expired values until somebody calls get, a *)
(* get returns exactly the values younger than ttl at the time of its last *)
(* check, in the order of the adds (native.rs:53-72).                      *)
ImplementsWindow == Window!WindowSpec

(* Whoever takes the lock gives it back: the eviction loop ends.           *)
LockIsReleased == \A t \in Thread : holder = t ~> holder # t
=============================================================================
