---------------------------- MODULE WindowBuffer ----------------------------
(***************************************************************************)
(* What an ExpirationBuffer (src/src/data/storage/expiration_buffer.rs)    *)
(* promises its users: a rolling time window.  get() yields the values     *)
(* added less than TTL ago, in the order in which they were added; nothing *)
(* else can be seen of the buffer, and there is no eviction here.          *)
(***************************************************************************)
EXTENDS Integers, Sequences

CONSTANTS Thread, Value, TTL

VARIABLES clock,    \* the time
          added,    \* every value added with its time, oldest first
          result    \* result[t]: what the last get of thread t returned

windowVars == <<clock, added, result>>

ValuesOf(entries) == [i \in 1..Len(entries) |-> entries[i].val]

Fresh(e) == clock - e.at < TTL

WindowInit == clock = 0 /\ added = <<>> /\ result = [t \in Thread |-> <<>>]

Elapse ==
  /\ clock' = clock + 1
  /\ UNCHANGED <<added, result>>

Add ==
  /\ \E v \in Value : added' = Append(added, [at |-> clock, val |-> v])
  /\ UNCHANGED <<clock, result>>

(* What was added is in the order of time, so the window is all after the  *)
(* first k entries.                                                        *)
Get(t) ==
  /\ \E k \in 0..Len(added) :
       /\ \A i \in 1..Len(added) : Fresh(added[i]) <=> i > k
       /\ result' = [result EXCEPT ![t] = ValuesOf(SubSeq(added, k + 1, Len(added)))]
  /\ UNCHANGED <<clock, added>>

WindowNext == Elapse \/ Add \/ \E t \in Thread : Get(t)

WindowSpec == WindowInit /\ [][WindowNext]_windowVars
=============================================================================
