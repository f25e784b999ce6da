--------------------------- MODULE MqttPublisher ---------------------------
(***************************************************************************)
(* MqttPublisher::run and poll_eventloop of                                *)
(* src/src/data/transception/mqtt.rs: a task that turns messages into      *)
(* requests to publish, and a task that polls the client's event loop.     *)
(* (data.rs:8 keeps the module out of the build.)  Between them is the     *)
(* bounded queue of the client.                                            *)
(*                                                                         *)
(* A request is the number of its message and its topic.  The payload is   *)
(* one number, the exchange and the symbol are parts of the topic that     *)
(* are the same for all topics of a message: both are left out.            *)
(*                                                                         *)
(* External is the rumqttc crate: publish waits for a place in the queue.  *)
(* Its errors (17-19) are left out: the event loop is never gone (135),    *)
(* and whether a topic is valid is decided by the configured topic_prefix  *)
(* for all topics alike.  When a connection breaks, what was queued is     *)
(* kept apart for the next one, which sends it or, the session being new,  *)
(* drops it.                                                               *)
(***************************************************************************)
EXTENDS Integers, Sequences, SequencesExt

CONSTANTS QueueSize,   \* 100 in the code
          MaxMessages  \* bound: messages sent to the publisher

ASSUME PublisherAssumption == QueueSize \in Nat \ {0} /\ MaxMessages \in Nat

VARIABLES rx,        \* messages sent and not received
          count,     \* how many were sent
          closed,    \* whether their senders are gone
          pc,        \* where run is
          todo,      \* requests of the message in hand
          queue,     \* requests waiting for the event loop
          pending,   \* requests of an earlier connection
          loop,      \* what poll_eventloop does
          link,      \* the connection to the broker
          wire,      \* requests written to the connection
          broker,    \* history: what the broker received
          arrived,   \* history: what should be requested
          requested  \* history: what was requested

runVars == <<pc, todo, requested>>
senderVars == <<rx, count, closed, arrived>>
loopVars == <<pending, loop, link, wire, broker>>
vars == <<runVars, senderVars, queue, loopVars>>

Kind == {"trade", "bbo", "quote", "fill", "other"}

(* The topics of the messages of a kind, in the order of publication;      *)
(* "other" is a balance or an empty message, which run ignores.            *)
Topics(kind) ==
  CASE kind = "trade" -> <<"price">>
    [] kind = "bbo"   -> <<"bid", "ask", "mid_price">>
    [] kind = "quote" -> <<"reservation_price", "asmm_bid_price", "asmm_ask_price">>
    [] OTHER          -> <<>>

Requests(message) ==
  LET topics == Topics(message.kind)
  IN  [i \in 1..Len(topics) |-> [n |-> message.n, topic |-> topics[i]]]

Init ==
  /\ rx = <<>> /\ count = 0 /\ closed = FALSE
  /\ pc = "recv" /\ todo = <<>>
  /\ queue = <<>> /\ pending = <<>>
  /\ loop = "poll" /\ link = "down" /\ wire = <<>> /\ broker = <<>>
  /\ arrived = <<>> /\ requested = <<>>
-----------------------------------------------------------------------------
(***************************************************************************)
(* The senders.                                                            *)
(***************************************************************************)
Produce ==
  /\ ~closed /\ count < MaxMessages
  /\ count' = count + 1
  /\ \E kind \in Kind :
       LET message == [n |-> count + 1, kind |-> kind]
       IN  rx' = Append(rx, message) /\ arrived' = arrived \o Requests(message)
  /\ UNCHANGED <<closed, runVars, queue, loopVars>>

Close ==
  /\ ~closed
  /\ closed' = TRUE
  /\ UNCHANGED <<rx, count, arrived, runVars, queue, loopVars>>
-----------------------------------------------------------------------------
(***************************************************************************)
(* run.                                                                    *)
(***************************************************************************)
Receive ==
  /\ pc = "recv"
  /\ rx # <<>> /\ Head(rx).kind # "fill"
  /\ rx' = Tail(rx)
  /\ todo' = Requests(Head(rx))
  /\ pc' = IF todo' = <<>> THEN "recv" ELSE "publish"
  /\ UNCHANGED <<count, closed, arrived, requested, queue, loopVars>>

(* The todo!() of a fill. *)
ReceiveFill ==
  /\ pc = "recv"
  /\ rx # <<>> /\ Head(rx).kind = "fill"
  /\ rx' = Tail(rx)
  /\ pc' = "panicked"
  /\ UNCHANGED <<count, closed, arrived, todo, requested, queue, loopVars>>

(* Mutant of HasRoom: the queue has no limit. *)
HasRoomAlways == TRUE

HasRoom == Len(queue) < QueueSize

(* Mutant of Remaining: without a connection a request is repeated. *)
RemainingRepeats == IF link = "up" THEN Tail(todo) ELSE todo

(* Mutant of Remaining: the rest of the message is given up when the queue *)
(* is full.                                                                *)
RemainingGivesUp == IF Len(queue) + 1 < QueueSize THEN Tail(todo) ELSE <<>>

Remaining == Tail(todo)

(* publish waits for a place in the queue. *)
Request ==
  /\ pc = "publish"
  /\ HasRoom
  /\ queue' = Append(queue, Head(todo))
  /\ requested' = Append(requested, Head(todo))
  /\ todo' = Remaining
  /\ pc' = IF todo' = <<>> THEN "recv" ELSE "publish"
  /\ UNCHANGED <<senderVars, loopVars>>

(* Mutant of Exit: None is not the end of the loop. *)
ExitIgnored == pc = "recv" /\ closed /\ rx = <<>> /\ UNCHANGED vars

Exit ==
  /\ pc = "recv"
  /\ closed /\ rx = <<>>
  /\ pc' = "exited"
  /\ UNCHANGED <<senderVars, todo, requested, queue, loopVars>>

Run == Receive \/ ReceiveFill \/ Request \/ Exit
-----------------------------------------------------------------------------
(***************************************************************************)
(* poll_eventloop and the connection.                                      *)
(***************************************************************************)
Connect ==
  /\ loop = "poll" /\ link = "down"
  /\ link' = "up"
  /\ pending' \in {pending, <<>>}
  /\ UNCHANGED <<runVars, senderVars, queue, loop, wire, broker>>

(* Mutant of PollFails: the error ends the task. *)
PollFailsAndEnds == loop = "poll" /\ loop' = "ended"

PollFails == loop = "poll" /\ loop' = "sleep"

ConnectFails ==
  /\ PollFails
  /\ link = "down"
  /\ UNCHANGED <<runVars, senderVars, queue, pending, link, wire, broker>>

(* A second later. *)
Awake ==
  /\ loop = "sleep"
  /\ loop' = "poll"
  /\ UNCHANGED <<runVars, senderVars, queue, pending, link, wire, broker>>

Write ==
  /\ loop = "poll" /\ link = "up"
  /\ IF pending # <<>>
     THEN /\ wire' = Append(wire, Head(pending))
          /\ pending' = Tail(pending) /\ UNCHANGED queue
     ELSE /\ queue # <<>>
          /\ wire' = Append(wire, Head(queue))
          /\ queue' = Tail(queue) /\ UNCHANGED pending
  /\ UNCHANGED <<runVars, senderVars, loop, link, broker>>

Deliver ==
  /\ wire # <<>>
  /\ broker' = Append(broker, Head(wire))
  /\ wire' = Tail(wire)
  /\ UNCHANGED <<runVars, senderVars, queue, pending, loop, link>>

(* The wire is lost.  Also what the client does when run has exited and    *)
(* its last request is written: poll fails from then on, for ever.         *)
LinkLost ==
  /\ PollFails
  /\ link = "up"
  /\ link' = "down" /\ wire' = <<>>
  /\ pending' = pending \o queue /\ queue' = <<>>
  /\ UNCHANGED <<runVars, senderVars, broker>>

Next ==
  \/ Produce \/ Close \/ Run
  \/ Connect \/ ConnectFails \/ Awake \/ Write \/ Deliver \/ LinkLost

Spec == Init /\ [][Next]_vars

(* The runtime polls both tasks, the sleep ends, and a broker that is      *)
(* tried again and again accepts at last and reads what is written.        *)
FairSpec ==
  /\ Spec
  /\ WF_vars(Run) /\ WF_vars(Awake) /\ WF_vars(Connect \/ ConnectFails)
  /\ SF_vars(Connect) /\ SF_vars(Write) /\ WF_vars(Deliver)
-----------------------------------------------------------------------------
(***************************************************************************)
(* Properties.                                                             *)
(***************************************************************************)
Topic == UNION {Range(Topics(kind)) : kind \in Kind}
RequestType == [n : 1..MaxMessages, topic : Topic]

(* The types of the variables; the queue is never longer than its size,    *)
(* nothing is on the wire of a connection that is lost, and run is at      *)
(* publish exactly while the message in hand has topics left.              *)
TypeOK ==
  /\ rx \in Seq([n : 1..MaxMessages, kind : Kind]) /\ count \in 0..MaxMessages
  /\ closed \in BOOLEAN
  /\ pc \in {"recv", "publish", "exited", "panicked"}
  /\ todo \in Seq(RequestType) /\ (pc = "publish") = (todo # <<>>)
  /\ queue \in Seq(RequestType) /\ Len(queue) <= QueueSize
  /\ pending \in Seq(RequestType)
  /\ loop \in {"poll", "sleep"} /\ link \in {"up", "down"}
  /\ wire \in Seq(RequestType) /\ (link = "down" => wire = <<>>)

Promise == INSTANCE Relay WITH
  Stream <- {"client"},
  arrived <- [s \in {"client"} |-> arrived],
  passed <- [s \in {"client"} |-> requested]

(* Every topic of every message is requested once and in order, also while *)
(* the queue is full and without a connection (mqtt.rs:51-126).            *)
ImplementsRelay == Promise!RelaySpec

(* What a topic shows never goes back, and the topics of a message change  *)
(* in one order, whatever the outages lose: the broker receives a          *)
(* subsequence of what was to be published (132-149).                      *)
BrokerSeesSubsequence ==
  \A i, j \in 1..Len(broker) :
    i < j => \E a, b \in 1..Len(arrived) :
               a < b /\ arrived[a] = broker[i] /\ arrived[b] = broker[j]

(* An outage of the broker, however often, holds run up at its queue but   *)
(* not for ever: all that was sent is requested, unless a fill panics it.  *)
MessagesAreRequested == []<>(requested = arrived \/ pc = "panicked")

(* When the senders are gone run ends, after what they sent (51, 128).     *)
ClosedRxEndsRun == closed ~> pc \in {"exited", "panicked"}
=============================================================================
