--------------------------- MODULE RedisMemoryMap ---------------------------
(***************************************************************************)
(* RedisMemoryMap of src/src/data/storage/backend/redis.rs: set puts a     *)
(* command on an unbounded queue and returns; one background worker sends  *)
(* the commands to the Redis server over its connection; get opens a       *)
(* connection of its own and asks the server.                              *)
(*                                                                         *)
(* A value is the number of its set among the sets of its key.  The server *)
(* and the connection manager are outside src/: the server may crash at    *)
(* any time, it then restarts (compose.yml:18) with what it last saved     *)
(* (the volume of compose.yml:16); a connection to an earlier run of the   *)
(* server fails on its next use.  Any command may fail, also over a good   *)
(* connection: a server that still loads, has no memory left or cannot     *)
(* write to its disk answers with an error, and a connection may be lost   *)
(* without the server.  A slow server lets a command time out and executes *)
(* it later.  Assumed of it: a connection is served in order, and a new    *)
(* one only after what an older one brought, since a new one begins with   *)
(* a handshake the worker waits for.                                       *)
(***************************************************************************)
EXTENDS Integers, Sequences

CONSTANTS Key,
          MaxSets,    \* bound: sets of one key
          MaxCrashes  \* bound: crashes of the server

ASSUME RedisAssumption == MaxSets \in Nat /\ MaxCrashes \in Nat

VARIABLES sets,     \* sets[k]: how often set(k, _) was called
          queue,    \* the mpsc queue: [key, ver] records, oldest first
          pc,       \* where background_worker is
          current,  \* the command the worker took off the queue, or <<>>
          conn,     \* the run of the server the worker's connection is to
          reads,    \* reads[k]: the last get of k, and the run it asked, or 0
          late,     \* commands that timed out and the server will execute
          lost,     \* history: sets that failed unexecuted or a crash took
          up,       \* the server runs
          run,      \* the number of the server's run
          store,    \* store[k]: the server's value of k, 0 when it has none
          disk      \* disk[k]: its value in the last snapshot saved

workerVars == <<pc, current, conn>>
serverVars == <<late, lost, up, run, store, disk>>
vars == <<sets, queue, pc, current, conn, reads, late, lost, up, run, store, disk>>

Absent == 0

Init ==
  /\ sets = [k \in Key |-> 0]
  /\ queue = <<>>
  /\ pc = "connect" /\ current = <<>> /\ conn = 0
  /\ reads = [k \in Key |-> [ver |-> Absent, run |-> 0]]
  /\ late = <<>> /\ lost = {} /\ up = TRUE /\ run = 1
  /\ store = [k \in Key |-> Absent]
  /\ disk = [k \in Key |-> Absent]
-----------------------------------------------------------------------------
(***************************************************************************)
(* The callers.                                                            *)
(***************************************************************************)
Set(k) ==
  /\ sets[k] < MaxSets
  /\ sets' = [sets EXCEPT ![k] = @ + 1]
  /\ queue' = Append(queue, [key |-> k, ver |-> sets[k] + 1])
  /\ UNCHANGED <<workerVars, reads, serverVars>>

(* None when there is no connection to be had or the GET fails, as for an  *)
(* absent key.                                                             *)
Get(k) ==
  /\ \/ up /\ reads' = [reads EXCEPT ![k] = [ver |-> store[k], run |-> run]]
     \/ reads' = [reads EXCEPT ![k] = [ver |-> Absent, run |-> 0]]
  /\ UNCHANGED <<sets, queue, workerVars, serverVars>>
-----------------------------------------------------------------------------
(***************************************************************************)
(* background_worker.                                                      *)
(***************************************************************************)
Usable == up /\ conn = run

(* The loop before the first command: retry every second until connected.  *)
Connect ==
  /\ pc = "connect"
  /\ up
  /\ conn' = run
  /\ pc' = "recv"
  /\ UNCHANGED <<sets, queue, current, reads, serverVars>>

(* Mutant of Take: everything queued is taken, only the oldest is sent. *)
TakeAll ==
  /\ pc = "recv"
  /\ queue # <<>>
  /\ current' = Head(queue)
  /\ queue' = <<>>
  /\ pc' = "query"
  /\ UNCHANGED <<sets, conn, reads, serverVars>>

Take ==
  /\ pc = "recv"
  /\ queue # <<>>
  /\ current' = Head(queue)
  /\ queue' = Tail(queue)
  /\ pc' = "query"
  /\ UNCHANGED <<sets, conn, reads, serverVars>>

(* The server executes the SET; the answer is still under way. *)
Executed ==
  /\ pc = "query"
  /\ Usable
  /\ late = <<>>
  /\ store' = [store EXCEPT ![current.key] = current.ver]
  /\ pc' = "answer"
  /\ UNCHANGED <<sets, queue, current, conn, reads, late, lost, up, run, disk>>

Answered ==
  /\ pc = "answer"
  /\ Usable
  /\ pc' = "recv"
  /\ current' = <<>>
  /\ UNCHANGED <<sets, queue, conn, reads, serverVars>>

(* Mutant of Failed: the command is put back on the queue. *)
FailedRequeues ==
  /\ pc \in {"query", "answer"}
  /\ pc' = "reconnect"
  /\ queue' = Append(queue, current)
  /\ current' = <<>>
  /\ UNCHANGED <<sets, conn, reads, serverVars>>

(* Mutant of Failed: an error ends the worker. *)
FailedReturns ==
  /\ pc \in {"query", "answer"}
  /\ pc' = "ended"
  /\ current' = <<>>
  /\ UNCHANGED <<sets, queue, conn, reads, serverVars>>

(* The query fails, before or after the server executed it, whatever the   *)
(* reason: the worker gives the command up.                                *)
Failed ==
  /\ pc \in {"query", "answer"}
  /\ pc' = "reconnect"
  /\ current' = <<>>
  /\ lost' = IF pc = "query" THEN lost \cup {current} ELSE lost
  /\ UNCHANGED <<sets, queue, conn, reads, late, up, run, store, disk>>

(* No answer in time, or the connection lost behind the command: given up  *)
(* as well, but the server will execute it or has.                         *)
TimedOut ==
  /\ pc \in {"query", "answer"}
  /\ Usable
  /\ late' = IF pc = "query" THEN Append(late, current) ELSE late
  /\ pc' = "reconnect"
  /\ current' = <<>>
  /\ UNCHANGED <<sets, queue, conn, reads, lost, up, run, store, disk>>

(* One attempt at a new connection, which may fail although the server is  *)
(* up; without one the old is kept, good or bad.                           *)
Reconnect ==
  /\ pc = "reconnect"
  /\ conn' = conn \/ (up /\ conn' = run)
  /\ pc' = "recv"
  /\ UNCHANGED <<sets, queue, current, reads, serverVars>>

Worker == Connect \/ Take \/ Executed \/ Answered \/ Failed \/ TimedOut \/ Reconnect
-----------------------------------------------------------------------------
(***************************************************************************)
(* The connection manager and the server.                                  *)
(***************************************************************************)
(* The manager reconnects by itself once its connection has failed.        *)
ManagerReconnects ==
  /\ pc = "recv"
  /\ up
  /\ conn' = run
  /\ UNCHANGED <<sets, queue, pc, current, reads, serverVars>>

ExecuteLate ==
  /\ up
  /\ late # <<>>
  /\ store' = [store EXCEPT ![Head(late).key] = Head(late).ver]
  /\ late' = Tail(late)
  /\ UNCHANGED <<sets, queue, workerVars, reads, lost, up, run, disk>>

Save ==
  /\ up
  /\ disk' = store
  /\ UNCHANGED <<sets, queue, workerVars, reads, late, lost, up, run, store>>

Crash ==
  /\ up
  /\ run <= MaxCrashes
  /\ up' = FALSE
  /\ late' = <<>>
  /\ lost' = lost \cup {late[i] : i \in 1..Len(late)}
  /\ UNCHANGED <<sets, queue, workerVars, reads, run, store, disk>>

(* What the server has and its last snapshot has not. *)
Unsaved == UNION {{[key |-> k, ver |-> n] : n \in (disk[k] + 1)..store[k]} : k \in Key}

Restart ==
  /\ ~up
  /\ up' = TRUE
  /\ run' = run + 1
  /\ store' = disk
  /\ lost' = lost \cup Unsaved
  /\ UNCHANGED <<sets, queue, workerVars, reads, late, disk>>

Next ==
  \/ \E k \in Key : Set(k) \/ Get(k)
  \/ Worker
  \/ ManagerReconnects \/ ExecuteLate \/ Save \/ Crash \/ Restart

Spec == Init /\ [][Next]_vars

(* The worker is a spawned task; the container restarts the server, which  *)
(* executes what it has received.  Nobody has to call set or get.          *)
FairSpec == Spec /\ WF_vars(Worker) /\ WF_vars(Restart) /\ WF_vars(ExecuteLate)
-----------------------------------------------------------------------------
(***************************************************************************)
(* Properties.                                                             *)
(***************************************************************************)
Command == [key : Key, ver : Nat]

(* The types of the variables. *)
TypeOK ==
  /\ sets \in [Key -> Nat]
  /\ queue \in Seq(Command)
  /\ pc \in {"connect", "recv", "query", "answer", "reconnect"}
  /\ current \in Command \cup {<<>>}
  /\ pc \in {"query", "answer"} <=> current # <<>>
  /\ conn \in 0..run
  /\ reads \in [Key -> [ver : Nat, run : 0..run]]
  /\ late \in Seq(Command)
  /\ lost \subseteq Command
  /\ up \in BOOLEAN
  /\ run \in Nat \ {0}
  /\ store \in [Key -> Nat]
  /\ disk \in [Key -> Nat]

(* The commands of a key that are still to be executed, oldest first. *)
ToDo == late \o (IF pc = "query" THEN <<current>> ELSE <<>>) \o queue

(* A set never undoes a later one, through any number of crashes, lost     *)
(* answers and reconnections: what is still to be executed of a key is     *)
(* newer than what the server has of it, and in the order of the calls.    *)
(* It holds because a failed SET is dropped, not retried (redis.rs:68-74). *)
SetsInOrder ==
  /\ \A k \in Key : disk[k] <= store[k] /\ store[k] <= sets[k]
  /\ \A i \in 1..Len(ToDo) : store[ToDo[i].key] < ToDo[i].ver /\ ToDo[i].ver <= sets[ToDo[i].key]
  /\ \A i, j \in 1..Len(ToDo) :
       i < j /\ ToDo[i].key = ToDo[j].key => ToDo[i].ver < ToDo[j].ver

Queued(k, n) == \E i \in 1..Len(ToDo) : ToDo[i] = [key |-> k, ver |-> n]

(* The worker survives outages: whatever was queued is eventually sent or  *)
(* given up, the queue does not stall behind a dead connection.            *)
QueueDrains == \A k \in Key, n \in 1..MaxSets : Queued(k, n) ~> ~Queued(k, n)

(* A failed SET costs itself only: whatever fails, is answered too late or *)
(* is reconnected around it, every other set is still to be executed, or   *)
(* the server has it or a later one of its key, until a crash takes it.    *)
(* The worker replaces its connection after any error, also a good one     *)
(* (redis.rs:70-74), and goes on with the queue.                           *)
OnlyFailedAreLost ==
  \A k \in Key : \A n \in 1..sets[k] :
    store[k] < n => Queued(k, n) \/ [key |-> k, ver |-> n] \in lost

(* A get never returns an older value than an earlier get did, as long as  *)
(* the server has not crashed in between.                                  *)
ReadsGoForward == \A k \in Key : reads[k].run = run => reads[k].ver <= store[k]
=============================================================================
