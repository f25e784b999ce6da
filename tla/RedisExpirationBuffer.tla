------------------------ MODULE RedisExpirationBuffer ------------------------
(***************************************************************************)
(* RedisExpirationBuffer of src/src/data/storage/backend/redis.rs: the     *)
(* values of a buffer are the members of one sorted set of a Redis server, *)
(* their times the scores.                                                 *)
(*                                                                         *)
(* add reads the wall clock, opens a connection and sends one ZADD; get    *)
(* opens a connection, reads the clock and sends two commands, a           *)
(* ZRANGEBYSCORE and a ZREMRANGEBYSCORE.  There is no lock: the commands   *)
(* of several threads mix, and time passes between any two steps.  Every   *)
(* failure ends the call: add loses the value, get yields nothing.         *)
(*                                                                         *)
(* The server is outside src/.  It crashes and restarts with what it last  *)
(* saved (compose.yml:16-18); a connection to an earlier run of it fails.  *)
(* A connection or a command may fail with the server up as well: whatever *)
(* needs the server may fail, for any reason.                              *)
(* The process may end and start again; its first buffer has the same key  *)
(* as before, since ids start at 0 (redis.rs:9, 107).                      *)
(***************************************************************************)
EXTENDS Integers, Sequences, FiniteSets

CONSTANTS Adder,      \* the threads that call add
          Getter,     \* the threads that call get
          Value,      \* the values added
          TTL,        \* the field ttl, in ticks of the clock
          MaxTime,    \* bound: the last time the clock shows
          MaxAdds,    \* bound: values added
          MaxCrashes  \* bound: crashes of the server

Thread == Adder \cup Getter

ASSUME RedisBufferAssumption ==
  /\ TTL \in Nat
  /\ MaxTime \in Nat
  /\ MaxAdds \in Nat
  /\ MaxCrashes \in Nat

VARIABLES clock,  \* SystemTime::now(), taken to be monotonic
          pc,     \* pc[t]: where thread t is
          arg,    \* arg[t]: the entry thread t is adding, <<>> if it is not
          conn,   \* conn[t]: the run of the server its connection is to, or 0
          min,    \* min[t]: min_score of thread t's get
          got,    \* got[t]: the values its last ZRANGEBYSCORE found
          zset,   \* the sorted set: a function from its members to scores
          added,  \* history: the entries of the ZADDs executed, oldest first
          up,     \* the server runs
          run,    \* the number of the server's run
          disk    \* the zset, and `added`, as the server last saved them

threadVars == <<pc, arg, conn, min, got>>
serverVars == <<zset, added, up, run, disk>>
vars == <<clock, threadVars, serverVars>>

Entry == [at : Nat, val : Value]

EmptySet == [v \in {} |-> 0]

Init ==
  /\ clock = 0
  /\ pc = [t \in Thread |-> "idle"]
  /\ arg = [t \in Thread |-> <<>>]
  /\ conn = [t \in Thread |-> 0]
  /\ min = [t \in Thread |-> 0]
  /\ got = [t \in Thread |-> {}]
  /\ zset = EmptySet /\ added = <<>>
  /\ up = TRUE /\ run = 1
  /\ disk = [zset |-> EmptySet, added |-> <<>>]

Tick ==
  /\ clock < MaxTime
  /\ clock' = clock + 1
  /\ UNCHANGED <<threadVars, serverVars>>
-----------------------------------------------------------------------------
Goto(t, label) == pc' = [pc EXCEPT ![t] = label]

(* The connection is a local of the call. *)
Return(t) ==
  /\ Goto(t, "idle")
  /\ conn' = [conn EXCEPT ![t] = 0]
  /\ arg' = [arg EXCEPT ![t] = <<>>]

Usable(t) == up /\ conn[t] = run

(* get_connection(): what follows it, or the early return of an error. *)
Connected(t, label) ==
  /\ up
  /\ conn' = [conn EXCEPT ![t] = run]
  /\ Goto(t, label)
  /\ UNCHANGED arg
-----------------------------------------------------------------------------
(***************************************************************************)
(* add                                                                     *)
(***************************************************************************)
AddCalled(t) ==
  /\ pc[t] = "idle"
  /\ Len(added) + Cardinality({u \in Thread : arg[u] # <<>>}) < MaxAdds
  /\ \E v \in Value : arg' = [arg EXCEPT ![t] = [at |-> clock, val |-> v]]
  /\ Goto(t, "add")
  /\ UNCHANGED <<clock, conn, min, got, serverVars>>

(* Mutant of AddConnect: no early return without a connection. *)
AddConnectGoesOn(t) ==
  /\ pc[t] = "add"
  /\ Connected(t, "zadd") \/ (Goto(t, "zadd") /\ UNCHANGED <<conn, arg>>)
  /\ UNCHANGED <<clock, min, got, serverVars>>

AddConnect(t) ==
  /\ pc[t] = "add"
  /\ Connected(t, "zadd") \/ Return(t)
  /\ UNCHANGED <<clock, min, got, serverVars>>

(* The member is the value: adding one that is there moves its score.      *)
Zadd(t) ==
  /\ pc[t] = "zadd"
  /\ Usable(t)
  /\ zset' = [v \in DOMAIN zset \cup {arg[t].val} |->
                IF v = arg[t].val THEN arg[t].at ELSE zset[v]]
  /\ added' = Append(added, arg[t])
  /\ Return(t)
  /\ UNCHANGED <<clock, min, got, up, run, disk>>

ZaddFailed(t) ==
  /\ pc[t] = "zadd"
  /\ Return(t)
  /\ UNCHANGED <<clock, min, got, serverVars>>
-----------------------------------------------------------------------------
(***************************************************************************)
(* get                                                                     *)
(***************************************************************************)
GetConnect(t) ==
  /\ pc[t] = "idle"
  /\ \/ Connected(t, "now") /\ UNCHANGED got
     \/ got' = [got EXCEPT ![t] = {}] /\ UNCHANGED <<pc, conn, arg>>
  /\ UNCHANGED <<clock, min, serverVars>>

(* Mutant of MinScore: the ttl is not subtracted. *)
MinScoreNow(t) ==
  /\ pc[t] = "now"
  /\ min' = [min EXCEPT ![t] = clock]
  /\ Goto(t, "range")
  /\ UNCHANGED <<clock, arg, conn, got, serverVars>>

MinScore(t) ==
  /\ pc[t] = "now"
  /\ min' = [min EXCEPT ![t] = clock - TTL]
  /\ Goto(t, "range")
  /\ UNCHANGED <<clock, arg, conn, got, serverVars>>

(* ZRANGEBYSCORE key min_score +inf *)
Range(t) ==
  /\ pc[t] = "range"
  /\ Usable(t)
  /\ got' = [got EXCEPT ![t] = {v \in DOMAIN zset : zset[v] >= min[t]}]
  /\ Goto(t, "remove")
  /\ UNCHANGED <<clock, arg, conn, min, serverVars>>

RangeFailed(t) ==
  /\ pc[t] = "range"
  /\ got' = [got EXCEPT ![t] = {}]
  /\ Return(t)
  /\ UNCHANGED <<clock, min, serverVars>>

Keep(S) == zset' = [v \in S |-> zset[v]]

(* Mutant of Remove: everything goes that ZRANGEBYSCORE did not find. *)
RemoveOthers(t) ==
  /\ pc[t] = "remove"
  /\ (Usable(t) /\ Keep(DOMAIN zset \cap got[t])) \/ UNCHANGED zset
  /\ Return(t)
  /\ UNCHANGED <<clock, min, got, added, up, run, disk>>

(* ZREMRANGEBYSCORE key -inf min_score; an error is ignored. *)
Remove(t) ==
  /\ pc[t] = "remove"
  /\ (Usable(t) /\ Keep({v \in DOMAIN zset : zset[v] > min[t]})) \/ UNCHANGED zset
  /\ Return(t)
  /\ UNCHANGED <<clock, min, got, added, up, run, disk>>
-----------------------------------------------------------------------------
(***************************************************************************)
(* The server, and the process.                                            *)
(***************************************************************************)
Save ==
  /\ up
  /\ disk' = [zset |-> zset, added |-> added]
  /\ UNCHANGED <<clock, threadVars, zset, added, up, run>>

Crash ==
  /\ up
  /\ run <= MaxCrashes
  /\ up' = FALSE
  /\ UNCHANGED <<clock, threadVars, zset, added, run, disk>>

Restart ==
  /\ ~up
  /\ up' = TRUE
  /\ run' = run + 1
  /\ zset' = disk.zset
  /\ added' = disk.added
  /\ UNCHANGED <<clock, threadVars, disk>>

(* The process ends and new() gives its buffer the key it had before. *)
NewProcess ==
  /\ pc' = [t \in Thread |-> "idle"]
  /\ arg' = [t \in Thread |-> <<>>]
  /\ conn' = [t \in Thread |-> 0]
  /\ min' = [t \in Thread |-> 0]
  /\ got' = [t \in Thread |-> {}]
  /\ UNCHANGED <<clock, serverVars>>

Next ==
  \/ Tick
  \/ \E t \in Adder : AddCalled(t) \/ AddConnect(t) \/ Zadd(t) \/ ZaddFailed(t)
  \/ \E t \in Getter :
       GetConnect(t) \/ MinScore(t) \/ Range(t) \/ RangeFailed(t) \/ Remove(t)
  \/ Save \/ Crash \/ Restart \/ NewProcess

Spec == Init /\ [][Next]_vars
-----------------------------------------------------------------------------
(***************************************************************************)
(* Properties.                                                             *)
(***************************************************************************)
(* The types of the variables; a thread that sends a command has got a     *)
(* connection, and one that adds has an entry.                             *)
TypeOK ==
  /\ clock \in Nat
  /\ pc \in [Thread -> {"idle", "add", "zadd", "now", "range", "remove"}]
  /\ \A t \in Thread : IF pc[t] \in {"add", "zadd"} THEN arg[t] \in Entry ELSE arg[t] = <<>>
  /\ \A t \in Thread :
       IF pc[t] \in {"idle", "add"} THEN conn[t] = 0 ELSE conn[t] \in 1..run
  /\ min \in [Thread -> Int]
  /\ got \in [Thread -> SUBSET Value]
  /\ zset \in [DOMAIN zset -> Nat] /\ DOMAIN zset \subseteq Value
  /\ added \in Seq(Entry)
  /\ up \in BOOLEAN
  /\ run \in Nat \ {0}
  /\ disk.added \in Seq(Entry)

(* The entry of the last ZADD of value v among the entries, if any. *)
IsLastOf(e, v, entries) ==
  \E i \in 1..Len(entries) :
    /\ entries[i] = e /\ e.val = v
    /\ \A j \in i + 1..Len(entries) : entries[j].val # v

(* A value whose last ZADD lies less than ttl back is in the sorted set,   *)
(* at that ZADD's score: no get removes it, although the removal is a      *)
(* command of its own, with adds and removals of others since its read of  *)
(* the clock (redis.rs:149-170), and whether or not the process or the     *)
(* server restarted.                                                       *)
FreshIsStored ==
  \A v \in Value : \A i \in 1..Len(added) :
    IsLastOf(added[i], v, added) /\ clock - added[i].at < TTL =>
      v \in DOMAIN zset /\ zset[v] = added[i].at

(* What a get returns lies between two windows: everything last added less *)
(* than ttl before its query, and nothing that was last added more than    *)
(* ttl before it read the clock.                                           *)
GetSeesWindow ==
  [][\A t \in Getter : pc[t] = "range" /\ pc'[t] = "remove" =>
       \A v \in Value : \A i \in 1..Len(added) :
         IsLastOf(added[i], v, added) =>
           /\ clock - added[i].at < TTL => v \in got'[t]
           /\ v \in got'[t] => added[i].at >= min[t]]_vars

(* "a single interchangeable api" (storage.rs:2-3) to buffers with         *)
(* "time-windowed value accumulation" (expiration_buffer.rs:2): as with    *)
(* the native buffer, a get yields one value for every add in the window.  *)
EveryAddCounts ==
  \A t \in Getter : pc[t] = "remove" =>
    Cardinality({i \in 1..Len(added) : added[i].at > min[t]}) <= Cardinality(got[t])
=============================================================================
