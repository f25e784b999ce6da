------------------------- MODULE MqttPublisherProofs -------------------------
(***************************************************************************)
(* Theorems about MqttPublisher, for every size of the client's queue and  *)
(* every number of messages.                                               *)
(***************************************************************************)
EXTENDS MqttPublisher, TLAPS

(***************************************************************************)
(* Types.                                                                  *)
(***************************************************************************)
Message == [n : 1..MaxMessages, kind : Kind]

LEMMA TopicsOfKind ==
  ASSUME NEW kind \in Kind
  PROVE  Topics(kind) \in Seq(Topic)
<1>1. Range(Topics(kind)) \subseteq Topic
  BY DEF Topic
<1> DEFINE s == Topics(kind)
<1>2. Len(s) \in Nat /\ s \in [1..Len(s) -> Range(s)]
  <2>1. \E S : s \in Seq(S)
    <3>1. s = <<"price">> \/ s = <<"bid", "ask", "mid_price">> \/ s = <<>>
          \/ s = <<"reservation_price", "asmm_bid_price", "asmm_ask_price">>
      BY Zenon DEF Topics, Kind
    <3> HIDE DEF s
    <3>2. \A a, b, c : <<>> \in Seq({a}) /\ <<a>> \in Seq({a}) /\ <<a, b, c>> \in Seq({a, b, c})
      OBVIOUS
    <3>3. /\ \E S : <<>> \in Seq(S)
          /\ \A a, b, c : (\E S : <<a>> \in Seq(S)) /\ (\E S : <<a, b, c>> \in Seq(S))
      BY <3>2, Zenon
    <3>4. CASE s = <<"price">>
      BY <3>3, <3>4
    <3>5. CASE s = <<"bid", "ask", "mid_price">>
      BY <3>3, <3>5
    <3>6. CASE s = <<"reservation_price", "asmm_bid_price", "asmm_ask_price">>
      BY <3>3, <3>6
    <3>7. CASE s = <<>>
      BY <3>3, <3>7
    <3> QED BY <3>1, <3>4, <3>5, <3>6, <3>7
  <2> HIDE DEF s
  <2> QED BY <2>1 DEF Range
<1> HIDE DEF s
<1>3. s \in [1..Len(s) -> Topic]
  BY <1>1, <1>2 DEF s
<1> QED BY <1>2, <1>3 DEF s

LEMMA RequestsTyped ==
  ASSUME NEW m \in Message
  PROVE  Requests(m) \in Seq(RequestType)
<1> DEFINE topics == Topics(m.kind)
<1>1. m.n \in 1..MaxMessages /\ topics \in Seq(Topic)
  BY TopicsOfKind DEF Message
<1> HIDE DEF topics
<1>2. ASSUME NEW i \in 1..Len(topics) PROVE [n |-> m.n, topic |-> topics[i]] \in RequestType
  BY <1>1 DEF RequestType
<1>3. Requests(m) = [i \in 1..Len(topics) |-> [n |-> m.n, topic |-> topics[i]]]
  BY DEF Requests, topics
<1>4. Requests(m) \in [1..Len(topics) -> RequestType] /\ Len(topics) \in Nat
  BY <1>1, <1>2, <1>3
<1> QED BY <1>4

LEMMA TypeInit == Init => TypeOK
<1> SUFFICES ASSUME Init PROVE TypeOK
  OBVIOUS
<1>1. \A S : <<>> \in Seq(S)
  OBVIOUS
<1>2. Len(<<>>) = 0
  OBVIOUS
<1>3. (pc = "publish") = (todo # <<>>)
  BY DEF Init
<1>4. /\ rx \in Seq([n : 1..MaxMessages, kind : Kind]) /\ todo \in Seq(RequestType)
      /\ queue \in Seq(RequestType) /\ pending \in Seq(RequestType) /\ wire \in Seq(RequestType)
  BY <1>1, Zenon DEF Init
<1>5. Len(queue) <= QueueSize
  BY <1>2, PublisherAssumption DEF Init
<1>6. count \in 0..MaxMessages
  BY PublisherAssumption DEF Init
<1>7. /\ closed \in BOOLEAN /\ pc \in {"recv", "publish", "exited", "panicked"}
      /\ loop \in {"poll", "sleep"} /\ link \in {"up", "down"} /\ wire = <<>>
  BY Zenon DEF Init
<1> QED BY <1>3, <1>4, <1>5, <1>6, <1>7, Zenon DEF TypeOK

LEMMA TypeStep == TypeOK /\ [Next]_vars => TypeOK'
<1> SUFFICES ASSUME TypeOK, [Next]_vars PROVE TypeOK'
  OBVIOUS
<1> USE PublisherAssumption
<1>a. rx \in Seq(Message)
  BY DEF TypeOK, Message
<1>1. CASE Produce
  <2>1. PICK kind \in Kind : rx' = Append(rx, [n |-> count + 1, kind |-> kind])
    BY <1>1 DEF Produce
  <2>2. [n |-> count + 1, kind |-> kind] \in Message /\ count' \in 0..MaxMessages
    BY <1>1 DEF Produce, TypeOK, Message
  <2>3. rx' \in Seq(Message)
    BY <1>a, <2>1, <2>2
  <2> QED BY <1>1, <2>2, <2>3 DEF Produce, TypeOK, Message, runVars, loopVars
<1>2. CASE Close
  BY <1>2 DEF Close, TypeOK, runVars, loopVars
<1>3. CASE Receive
  <2>1. Head(rx) \in Message /\ rx' \in Seq(Message)
    BY <1>3, <1>a DEF Receive
  <2>2. todo' \in Seq(RequestType)
    BY <1>3, <2>1, RequestsTyped DEF Receive
  <2> QED BY <1>3, <2>1, <2>2 DEF Receive, TypeOK, Message, loopVars
<1>4. CASE ReceiveFill
  <2>1. rx' \in Seq(Message) /\ todo = <<>>
    BY <1>4, <1>a DEF ReceiveFill, TypeOK
  <2> QED BY <1>4, <2>1 DEF ReceiveFill, TypeOK, Message, loopVars
<1>5. CASE Request
  <2>1. /\ pc = "publish" /\ Len(queue) < QueueSize /\ queue' = Append(queue, Head(todo))
        /\ todo' = Tail(todo) /\ pc' = IF todo' = <<>> THEN "recv" ELSE "publish"
        /\ UNCHANGED <<senderVars, loopVars>>
    BY <1>5 DEF Request, HasRoom, Remaining
  <2>2. todo \in Seq(RequestType) /\ todo # <<>> /\ queue \in Seq(RequestType)
    BY <2>1 DEF TypeOK
  <2>3. Head(todo) \in RequestType /\ todo' \in Seq(RequestType)
    BY <2>1, <2>2
  <2>4. queue' \in Seq(RequestType) /\ Len(queue') <= QueueSize
    BY <2>1, <2>2, <2>3
  <2> QED BY <2>1, <2>3, <2>4 DEF TypeOK, senderVars, loopVars
<1>6. CASE Exit
  BY <1>6 DEF Exit, TypeOK, senderVars, loopVars
<1>7. CASE Connect
  <2>1. pending' \in Seq(RequestType)
    BY <1>7 DEF Connect, TypeOK
  <2> QED BY <1>7, <2>1 DEF Connect, TypeOK, senderVars, runVars
<1>8. CASE ConnectFails
  BY <1>8 DEF ConnectFails, PollFails, TypeOK, senderVars, runVars
<1>9. CASE Awake
  BY <1>9 DEF Awake, TypeOK, senderVars, runVars
<1>10. CASE Write
  <2>1. /\ queue \in Seq(RequestType) /\ pending \in Seq(RequestType) /\ wire \in Seq(RequestType)
        /\ Len(queue) <= QueueSize
    BY DEF TypeOK
  <2>2. CASE pending # <<>>
    <3>1. wire' = Append(wire, Head(pending)) /\ pending' = Tail(pending) /\ queue' = queue
      BY <1>10, <2>2 DEF Write
    <3>2. wire' \in Seq(RequestType) /\ pending' \in Seq(RequestType)
      BY <2>1, <2>2, <3>1
    <3> QED BY <1>10, <3>1, <3>2 DEF Write, TypeOK, senderVars, runVars
  <2>3. CASE pending = <<>>
    <3>1. queue # <<>> /\ wire' = Append(wire, Head(queue)) /\ queue' = Tail(queue) /\ pending' = pending
      BY <1>10, <2>3 DEF Write
    <3>2. wire' \in Seq(RequestType) /\ queue' \in Seq(RequestType) /\ Len(queue') <= QueueSize
      BY <2>1, <3>1
    <3> QED BY <1>10, <3>1, <3>2 DEF Write, TypeOK, senderVars, runVars
  <2> QED BY <2>2, <2>3
<1>11. CASE Deliver
  <2>1. wire' \in Seq(RequestType) /\ link = "up"
    BY <1>11 DEF Deliver, TypeOK
  <2> QED BY <1>11, <2>1 DEF Deliver, TypeOK, senderVars, runVars
<1>12. CASE LinkLost
  <2>1. pending' \in Seq(RequestType) /\ queue' = <<>> /\ wire' = <<>>
    BY <1>12 DEF LinkLost, TypeOK
  <2>2. <<>> \in Seq(RequestType) /\ Len(<<>>) = 0
    OBVIOUS
  <2> QED BY <1>12, <2>1, <2>2 DEF LinkLost, PollFails, TypeOK, senderVars, runVars
<1>13. CASE UNCHANGED vars
  BY <1>13 DEF vars, TypeOK, senderVars, runVars, loopVars
<1> QED BY <1>1, <1>2, <1>3, <1>4, <1>5, <1>6, <1>7, <1>8, <1>9, <1>10, <1>11, <1>12, <1>13
        DEF Next, Run

(* The variables keep their types; the queue of the client never exceeds   *)
(* its size (mqtt.rs:45), and run waits at publish exactly while the       *)
(* message in hand has topics left (51-126).                               *)
THEOREM TypeCorrect == Spec => []TypeOK
BY TypeInit, TypeStep, PTL DEF Spec
-----------------------------------------------------------------------------
(***************************************************************************)
(* What has arrived and what has been requested of it.                     *)
(***************************************************************************)
(* What should be requested, `arr`, is what has been requested, then the   *)
(* requests of the message in hand, then those of each message received:   *)
(* off[i] is where the requests of the first i messages end.               *)
IsCut(off, msgs, hand, req, arr) ==
  /\ off \in [0..Len(msgs) -> 0..Len(arr)]
  /\ off[0] = Len(req) + Len(hand) /\ off[Len(msgs)] = Len(arr)
  /\ \A i \in 1..Len(msgs) :
       /\ off[i] = off[i - 1] + Len(Requests(msgs[i]))
       /\ \A k \in 1..Len(Requests(msgs[i])) : arr[off[i - 1] + k] = Requests(msgs[i])[k]
  /\ \A k \in 1..Len(req) : arr[k] = req[k]
  /\ \A k \in 1..Len(hand) : arr[Len(req) + k] = hand[k]

RelayInv ==
  /\ TypeOK
  /\ arrived \in Seq(RequestType) /\ requested \in Seq(RequestType)
  /\ \E off : IsCut(off, rx, todo, requested, arrived)

LEMMA FillHasNone == \A m : m.kind = "fill" => Requests(m) = <<>>
<1> SUFFICES ASSUME NEW m, m.kind = "fill" PROVE Requests(m) = <<>>
  OBVIOUS
<1>1. Topics(m.kind) = <<>>
  BY Zenon DEF Topics
<1>2. Requests(m) = [i \in 1..Len(<<>>) |-> [n |-> m.n, topic |-> <<>>[i]]]
  BY <1>1 DEF Requests
<1>3. 1..Len(<<>>) = {}
  OBVIOUS
<1> QED BY <1>2, <1>3

LEMMA MessageRequests ==
  ASSUME NEW s \in Seq(Message), NEW i \in 1..Len(s)
  PROVE  /\ s[i] \in Message /\ Requests(s[i]) \in Seq(RequestType)
         /\ Len(Requests(s[i])) \in Nat
<1>1. s[i] \in Message
  OBVIOUS
<1>2. Requests(s[i]) \in Seq(RequestType)
  BY <1>1, RequestsTyped
<1> QED BY <1>1, <1>2

(* A message arrives. *)
LEMMA ProduceCuts ==
  ASSUME NEW msgs \in Seq(Message), NEW hand \in Seq(RequestType), NEW req \in Seq(RequestType),
         NEW arr \in Seq(RequestType), NEW off, IsCut(off, msgs, hand, req, arr),
         NEW m \in Message
  PROVE  \E o : IsCut(o, Append(msgs, m), hand, req, arr \o Requests(m))
<1> DEFINE r == Requests(m)
           n == Len(msgs)
           a == Len(arr)
           msgs2 == Append(msgs, m)
           arr2 == arr \o r
           o == [i \in 0..n + 1 |-> IF i <= n THEN off[i] ELSE a + Len(r)]
<1>1. r \in Seq(RequestType)
  BY RequestsTyped
<1> HIDE DEF r
<1>2. n \in Nat /\ a \in Nat /\ Len(r) \in Nat /\ Len(req) \in Nat /\ Len(hand) \in Nat
  BY <1>1
<1>3. Len(msgs2) = n + 1 /\ msgs2[n + 1] = m /\ \A i \in 1..n : msgs2[i] = msgs[i]
  OBVIOUS
<1>4. /\ Len(arr2) = a + Len(r) /\ \A k \in 1..a : arr2[k] = arr[k]
      /\ \A k \in 1..Len(r) : arr2[a + k] = r[k]
  BY <1>1
<1>5. /\ off \in [0..n -> 0..a] /\ off[0] = Len(req) + Len(hand) /\ off[n] = a
      /\ \A k \in 1..Len(req) : arr[k] = req[k]
      /\ \A k \in 1..Len(hand) : arr[Len(req) + k] = hand[k]
  BY DEF IsCut
<1> HIDE DEF msgs2, arr2, n, a
<1>6. \A i \in 0..n : o[i] = off[i] /\ off[i] \in 0..a
  BY <1>2, <1>5
<1>7. o[n + 1] = a + Len(r) /\ o \in [0..n + 1 -> 0..a + Len(r)]
  BY <1>2, <1>5
<1>8. \A k \in 1..Len(req) : k \in 1..a
  BY <1>2, <1>5, <1>6
<1>9. \A k \in 1..Len(hand) : Len(req) + k \in 1..a
  BY <1>2, <1>5, <1>6
<1> HIDE DEF o
<1>10. ASSUME NEW i \in 1..n + 1
       PROVE  /\ o[i] = o[i - 1] + Len(Requests(msgs2[i]))
              /\ \A k \in 1..Len(Requests(msgs2[i])) : arr2[o[i - 1] + k] = Requests(msgs2[i])[k]
  <2>1. CASE i = n + 1
    <3>1. o[i - 1] = a /\ o[i] = a + Len(r) /\ Requests(msgs2[i]) = r
      BY <1>2, <1>3, <1>5, <1>6, <1>7, <2>1 DEF r
    <3> QED BY <1>2, <1>4, <3>1
  <2>2. CASE i \in 1..n
    <3> DEFINE q == Requests(msgs[i])
    <3>1. /\ o[i - 1] = off[i - 1] /\ o[i] = off[i] /\ Requests(msgs2[i]) = q
          /\ off[i - 1] \in 0..a /\ off[i] \in 0..a
      BY <1>2, <1>3, <1>6, <2>2
    <3>2. Len(q) \in Nat
      BY <2>2, MessageRequests DEF n
    <3>3. off[i] = off[i - 1] + Len(q) /\ \A k \in 1..Len(q) : arr[off[i - 1] + k] = q[k]
      BY <2>2 DEF IsCut, n
    <3> HIDE DEF q
    <3>4. ASSUME NEW k \in 1..Len(q) PROVE off[i - 1] + k \in 1..a
      <4> DEFINE u == off[i - 1]
                 v == Len(q)
      <4>1. u \in Nat /\ off[i] \in Nat /\ off[i] <= a /\ off[i] = u + v
        BY <1>2, <3>1, <3>3
      <4>2. v \in Nat /\ k \in 1..v /\ a \in Nat
        BY <1>2, <3>2
      <4> HIDE DEF u, v
      <4>3. u + v <= a
        BY <4>1
      <4>4. u + k \in 1..a
        BY <4>1, <4>2, <4>3
      <4> QED BY <4>4 DEF u
    <3>5. \A k \in 1..Len(q) : arr2[off[i - 1] + k] = q[k]
      BY <1>4, <3>3, <3>4
    <3> QED BY <3>1, <3>3, <3>5
  <2> QED BY <1>2, <2>1, <2>2
<1>11. o[0] = Len(req) + Len(hand)
  BY <1>2, <1>5, <1>6
<1>12. /\ \A k \in 1..Len(req) : arr2[k] = req[k]
       /\ \A k \in 1..Len(hand) : arr2[Len(req) + k] = hand[k]
  BY <1>4, <1>5, <1>8, <1>9
<1>13. IsCut(o, msgs2, hand, req, arr2)
  BY <1>3, <1>4, <1>7, <1>10, <1>11, <1>12 DEF IsCut
<1> QED BY <1>13 DEF msgs2, arr2, r

(* A message is taken in hand: its requests are the next.                  *)
LEMMA ReceiveCuts ==
  ASSUME NEW msgs \in Seq(Message), NEW req \in Seq(RequestType), NEW arr \in Seq(RequestType),
         NEW off, IsCut(off, msgs, <<>>, req, arr), msgs # <<>>
  PROVE  \E o : IsCut(o, Tail(msgs), Requests(Head(msgs)), req, arr)
<1> DEFINE r == Requests(Head(msgs))
           n == Len(msgs)
           a == Len(arr)
           rest == Tail(msgs)
           o == [i \in 0..n - 1 |-> off[i + 1]]
<1>1. n \in Nat \ {0} /\ a \in Nat /\ Len(req) \in Nat /\ Len(<<>>) = 0
  OBVIOUS
<1>2. Len(rest) = n - 1 /\ Head(msgs) = msgs[1] /\ \A i \in 1..n - 1 : rest[i] = msgs[i + 1]
  OBVIOUS
<1>3. /\ off \in [0..n -> 0..a] /\ off[0] = Len(req) + 0 /\ off[n] = a
      /\ \A k \in 1..Len(req) : arr[k] = req[k]
  BY <1>1 DEF IsCut
<1>4. \A i \in 1..n :
        /\ off[i] = off[i - 1] + Len(Requests(msgs[i]))
        /\ \A k \in 1..Len(Requests(msgs[i])) : arr[off[i - 1] + k] = Requests(msgs[i])[k]
  BY DEF IsCut
<1>5. r = Requests(msgs[1]) /\ 1 \in 1..n /\ 1 - 1 = 0
  BY <1>1, <1>2
<1>6. off[1] = off[0] + Len(r) /\ \A k \in 1..Len(r) : arr[off[0] + k] = r[k]
  BY <1>4, <1>5
<1> HIDE DEF r, n, a, rest
<1>7. \A i \in 0..n - 1 : o[i] = off[i + 1]
  OBVIOUS
<1>8. o \in [0..n - 1 -> 0..a] /\ o[0] = off[1] /\ o[n - 1] = a
  BY <1>1, <1>3
<1> HIDE DEF o
<1>9. ASSUME NEW i \in 1..n - 1
      PROVE  /\ o[i] = o[i - 1] + Len(Requests(rest[i]))
             /\ \A k \in 1..Len(Requests(rest[i])) : arr[o[i - 1] + k] = Requests(rest[i])[k]
  <2>1. /\ i + 1 \in 1..n /\ (i + 1) - 1 = i /\ rest[i] = msgs[i + 1]
        /\ o[i] = off[i + 1] /\ o[i - 1] = off[i]
    BY <1>1, <1>2, <1>7
  <2> QED BY <1>4, <2>1
<1>10. o[0] = Len(req) + Len(r) /\ o[Len(rest)] = Len(arr) /\ o \in [0..Len(rest) -> 0..Len(arr)]
  <2>1. o[0] = Len(req) + 0 + Len(r)
    BY <1>3, <1>6, <1>8
  <2> QED BY <1>1, <1>2, <1>8, <2>1 DEF a
<1>11. \A k \in 1..Len(r) : arr[Len(req) + k] = r[k]
  <2>1. Len(req) + 0 = Len(req)
    BY <1>1
  <2> QED BY <1>3, <1>6, <2>1
<1>12. IsCut(o, rest, r, req, arr)
  BY <1>2, <1>3, <1>9, <1>10, <1>11 DEF IsCut
<1> QED BY <1>12 DEF r, rest

(* The first request of the message in hand is made.                       *)
LEMMA RequestCuts ==
  ASSUME NEW msgs \in Seq(Message), NEW hand \in Seq(RequestType), NEW req \in Seq(RequestType),
         NEW arr \in Seq(RequestType), NEW off, IsCut(off, msgs, hand, req, arr), hand # <<>>
  PROVE  /\ IsCut(off, msgs, Tail(hand), Append(req, Head(hand)), arr)
         /\ Len(req) < Len(arr) /\ Head(hand) = arr[Len(req) + 1]
<1> DEFINE n == Len(req)
           h == Len(hand)
           req2 == Append(req, Head(hand))
           rest == Tail(hand)
<1>1. n \in Nat /\ h \in Nat \ {0} /\ Len(msgs) \in Nat /\ Len(arr) \in Nat
  OBVIOUS
<1>2. Len(req2) = n + 1 /\ req2[n + 1] = hand[1] /\ \A k \in 1..n : req2[k] = req[k]
  OBVIOUS
<1>3. Len(rest) = h - 1 /\ \A k \in 1..h - 1 : rest[k] = hand[k + 1]
  OBVIOUS
<1>4. /\ off \in [0..Len(msgs) -> 0..Len(arr)] /\ off[0] = n + h
      /\ \A k \in 1..n : arr[k] = req[k]
      /\ \A k \in 1..h : arr[n + k] = hand[k]
  BY DEF IsCut
<1>5. off[0] \in 0..Len(arr) /\ 1 \in 1..h
  BY <1>1, <1>4
<1>6. Head(hand) = hand[1] /\ arr[n + 1] = hand[1] /\ n < Len(arr)
  BY <1>1, <1>4, <1>5
<1> HIDE DEF n, h, req2, rest
<1>7. \A k \in 1..n + 1 : arr[k] = req2[k]
  BY <1>1, <1>2, <1>4, <1>6
<1>8. ASSUME NEW k \in 1..h - 1 PROVE arr[(n + 1) + k] = rest[k]
  <2>1. k + 1 \in 1..h /\ n + (k + 1) = (n + 1) + k
    BY <1>1
  <2> QED BY <1>3, <1>4, <2>1
<1>9. off[0] = (n + 1) + (h - 1)
  BY <1>1, <1>4
<1>10. IsCut(off, msgs, rest, req2, arr)
  BY <1>2, <1>3, <1>7, <1>8, <1>9 DEF IsCut
<1> QED BY <1>6, <1>10 DEF n, req2, rest

LEMMA RelayInit == Init => RelayInv
<1> SUFFICES ASSUME Init PROVE RelayInv
  OBVIOUS
<1>1. rx = <<>> /\ todo = <<>> /\ arrived = <<>> /\ requested = <<>> /\ TypeOK
  BY TypeInit DEF Init
<1>2. \A S : <<>> \in Seq(S)
  OBVIOUS
<1>3. Len(<<>>) = 0
  OBVIOUS
<1> DEFINE o == [i \in 0..0 |-> 0]
<1>4. IsCut(o, <<>>, <<>>, <<>>, <<>>)
  BY <1>3 DEF IsCut
<1> HIDE DEF o
<1>5. \E off : IsCut(off, rx, todo, requested, arrived)
  BY <1>1, <1>4
<1> QED BY <1>1, <1>2, <1>5, Zenon DEF RelayInv

LEMMA RelayStep == RelayInv /\ [Next]_vars => RelayInv'
<1> SUFFICES ASSUME RelayInv, [Next]_vars PROVE RelayInv'
  OBVIOUS
<1>a. /\ TypeOK /\ TypeOK' /\ rx \in Seq(Message) /\ todo \in Seq(RequestType)
      /\ arrived \in Seq(RequestType) /\ requested \in Seq(RequestType)
      /\ (pc = "publish") = (todo # <<>>)
  BY TypeStep DEF RelayInv, TypeOK, Message
<1>b. PICK off : IsCut(off, rx, todo, requested, arrived)
  BY DEF RelayInv
<1>c. ASSUME UNCHANGED <<rx, todo, requested, arrived>> PROVE RelayInv'
  BY <1>a, <1>b, <1>c DEF RelayInv
<1>1. CASE Produce
  <2>1. PICK kind \in Kind : /\ rx' = Append(rx, [n |-> count + 1, kind |-> kind])
                            /\ arrived' = arrived \o Requests([n |-> count + 1, kind |-> kind])
    BY <1>1 DEF Produce
  <2> DEFINE m == [n |-> count + 1, kind |-> kind]
  <2>2. m \in Message
    BY <1>1, <1>a DEF Produce, TypeOK, Message
  <2>3. todo' = todo /\ requested' = requested
    BY <1>1 DEF Produce, runVars
  <2> HIDE DEF m
  <2>4. rx' = Append(rx, m) /\ arrived' = arrived \o Requests(m)
    BY <2>1 DEF m
  <2>5. \E o : IsCut(o, Append(rx, m), todo, requested, arrived \o Requests(m))
    BY <1>a, <1>b, <2>2, ProduceCuts
  <2>6. arrived' \in Seq(RequestType)
    BY <1>a, <2>2, <2>4, RequestsTyped
  <2> QED BY <1>a, <2>3, <2>4, <2>5, <2>6 DEF RelayInv
<1>2. CASE Receive \/ ReceiveFill
  <2>1. /\ rx # <<>> /\ rx' = Tail(rx) /\ todo = <<>>
        /\ arrived' = arrived /\ requested' = requested
    BY <1>2, <1>a DEF Receive, ReceiveFill
  <2>2. todo' = Requests(Head(rx))
    BY <1>2, <2>1, FillHasNone DEF Receive, ReceiveFill
  <2>3. \E o : IsCut(o, Tail(rx), Requests(Head(rx)), requested, arrived)
    BY <1>a, <1>b, <2>1, ReceiveCuts
  <2> QED BY <1>a, <2>1, <2>2, <2>3 DEF RelayInv
<1>3. CASE Request
  <2>1. /\ todo # <<>> /\ todo' = Tail(todo) /\ requested' = Append(requested, Head(todo))
        /\ rx' = rx /\ arrived' = arrived
    BY <1>3, <1>a DEF Request, Remaining, senderVars
  <2>2. IsCut(off, rx, Tail(todo), Append(requested, Head(todo)), arrived)
    BY <1>a, <1>b, <2>1, RequestCuts
  <2>3. requested' \in Seq(RequestType)
    BY <1>a, <2>1
  <2> QED BY <1>a, <2>1, <2>2, <2>3 DEF RelayInv
<1>4. CASE Close \/ Exit
  BY <1>4, <1>c DEF Close, Exit, runVars, senderVars
<1>5. CASE Connect \/ ConnectFails \/ Awake \/ Write \/ Deliver \/ LinkLost
  BY <1>5, <1>c DEF Connect, ConnectFails, Awake, Write, Deliver, LinkLost, runVars, senderVars
<1>6. CASE UNCHANGED vars
  BY <1>6, <1>c DEF vars, runVars, senderVars
<1> QED BY <1>1, <1>2, <1>3, <1>4, <1>5, <1>6 DEF Next, Run

(* What is left of the message in hand and of the channel is always what   *)
(* remains of the messages that arrived, at the place run has reached      *)
(* (mqtt.rs:51-126).                                                       *)
THEOREM RelayInvariant == Spec => []RelayInv
BY RelayInit, RelayStep, PTL DEF Spec

(* run requests every topic of every message, each once and in the order   *)
(* of arrival, whatever the queue and the connection do (MqttPublisher::   *)
(* run, mqtt.rs:51-126): it implements Relay.                              *)
THEOREM PublisherImplementsRelay == Spec => ImplementsRelay
<1> DEFINE A == [s \in {"client"} |-> arrived]
           P == [s \in {"client"} |-> requested]
<1>1. Init => Promise!RelayInit
  BY Zenon DEF Init, Promise!RelayInit
<1>2. ASSUME RelayInv, [Next]_vars
      PROVE  [Promise!RelayNext]_(Promise!relayVars)
  <2>1. /\ rx \in Seq(Message) /\ todo \in Seq(RequestType) /\ arrived \in Seq(RequestType)
        /\ requested \in Seq(RequestType) /\ (pc = "publish") = (todo # <<>>)
    BY <1>2 DEF RelayInv, TypeOK, Message
  <2>2. CASE UNCHANGED <<arrived, requested>>
    BY <2>2 DEF Promise!relayVars
  <2>3. CASE Produce
    <3>1. PICK kind \in Kind : arrived' = arrived \o Requests([n |-> count + 1, kind |-> kind])
      BY <2>3 DEF Produce
    <3>2. Requests([n |-> count + 1, kind |-> kind]) \in Seq(RequestType)
      <4>1. count \in 0..MaxMessages /\ count < MaxMessages
        BY <1>2, <2>3 DEF Produce, RelayInv, TypeOK
      <4>2. [n |-> count + 1, kind |-> kind] \in Message
        BY <4>1, PublisherAssumption DEF Message
      <4> QED BY <4>2, RequestsTyped
    <3> DEFINE r == Requests([n |-> count + 1, kind |-> kind])
    <3> HIDE DEF r
    <3>3. arrived' = arrived \o r /\ r \in Seq(RequestType)
      BY <3>1, <3>2 DEF r
    <3>4. Len(arrived) <= Len(arrived \o r) /\ SubSeq(arrived, 1, Len(arrived)) = SubSeq(arrived \o r, 1, Len(arrived))
      BY <2>1, <3>3
    <3>5. Promise!IsPrefix(arrived, arrived')
      BY <3>3, <3>4 DEF Promise!IsPrefix
    <3>6. requested' = requested
      BY <2>3 DEF Produce, runVars
    <3>7. A["client"] = arrived /\ A'["client"] = arrived' /\ A' = [A EXCEPT !["client"] = A'["client"]]
      OBVIOUS
    <3>8. Promise!Arrive("client")
      BY <3>5, <3>6, <3>7 DEF Promise!Arrive
    <3> QED BY <3>8 DEF Promise!RelayNext
  <2>4. CASE Request
    <3>1. /\ todo # <<>> /\ requested' = Append(requested, Head(todo)) /\ arrived' = arrived
      BY <2>1, <2>4 DEF Request, senderVars
    <3>2. PICK off : IsCut(off, rx, todo, requested, arrived)
      BY <1>2 DEF RelayInv
    <3>3. Len(requested) < Len(arrived) /\ Head(todo) = arrived[Len(requested) + 1]
      BY <2>1, <3>1, <3>2, RequestCuts
    <3>4. P["client"] = requested /\ A["client"] = arrived
      OBVIOUS
    <3>5. P' = [P EXCEPT !["client"] = Append(requested, arrived[Len(requested) + 1])]
      BY <3>1, <3>3
    <3>6. Promise!Pass("client")
      BY <3>1, <3>3, <3>4, <3>5 DEF Promise!Pass
    <3> QED BY <3>6 DEF Promise!RelayNext
  <2> QED BY <1>2, <2>2, <2>3, <2>4
          DEF Next, Run, Close, Receive, ReceiveFill, Exit, Connect, ConnectFails, Awake, Write,
              Deliver, LinkLost, vars, runVars, senderVars, Promise!RelayNext
<1> QED BY RelayInvariant, <1>1, <1>2, PTL DEF Spec, ImplementsRelay, Promise!RelaySpec
-----------------------------------------------------------------------------
(***************************************************************************)
(* What the broker receives.                                               *)
(***************************************************************************)
IsSubsequence(s, t) ==
  \E at \in [1..Len(s) -> 1..Len(t)] :
    /\ \A i \in 1..Len(s) : s[i] = t[at[i]]
    /\ \A i, j \in 1..Len(s) : i < j => at[i] < at[j]

(* On its way to the broker a request can be lost but not overtaken.       *)
OnTheWay == broker \o wire \o pending \o queue

BrokerInv == RelayInv /\ broker \in Seq(RequestType) /\ IsSubsequence(OnTheWay, requested)

LEMMA BothGrow ==
  ASSUME NEW S, NEW s \in Seq(S), NEW t \in Seq(S), NEW x \in S, IsSubsequence(s, t)
  PROVE  IsSubsequence(Append(s, x), Append(t, x))
<1> DEFINE n == Len(s)
           m == Len(t)
           s2 == Append(s, x)
           t2 == Append(t, x)
<1>1. PICK at \in [1..n -> 1..m] : /\ \A i \in 1..n : s[i] = t[at[i]]
                                 /\ \A i, j \in 1..n : i < j => at[i] < at[j]
  BY DEF IsSubsequence
<1> DEFINE to == [i \in 1..n + 1 |-> IF i <= n THEN at[i] ELSE m + 1]
<1>2. /\ n \in Nat /\ m \in Nat /\ Len(s2) = n + 1 /\ Len(t2) = m + 1
      /\ s2[n + 1] = x /\ t2[m + 1] = x
      /\ (\A i \in 1..n : s2[i] = s[i]) /\ (\A i \in 1..m : t2[i] = t[i])
  OBVIOUS
<1> HIDE DEF n, m, s2, t2
<1>3. \A i \in 1..n : to[i] = at[i] /\ at[i] \in 1..m
  BY <1>2
<1>4. to[n + 1] = m + 1 /\ to \in [1..n + 1 -> 1..m + 1]
  BY <1>2, <1>3
<1> HIDE DEF to
<1>5. \A i \in 1..n + 1 : i \in 1..n \/ i = n + 1
  BY <1>2
<1>6. ASSUME NEW i \in 1..n + 1 PROVE s2[i] = t2[to[i]]
  <2>1. CASE i = n + 1
    BY <1>2, <1>4, <2>1
  <2>2. CASE i \in 1..n
    <3>1. s2[i] = s[i] /\ to[i] = at[i] /\ at[i] \in 1..m /\ s[i] = t[at[i]]
      BY <1>1, <1>2, <1>3, <2>2
    <3>2. t2[at[i]] = t[at[i]]
      BY <1>2, <3>1
    <3> QED BY <3>1, <3>2
  <2> QED BY <1>5, <2>1, <2>2
<1>7. ASSUME NEW i \in 1..n + 1, NEW j \in 1..n + 1, i < j PROVE to[i] < to[j]
  <2>1. i \in 1..n
    BY <1>2, <1>7
  <2>2. CASE j = n + 1
    BY <1>2, <1>3, <1>4, <2>1, <2>2
  <2>3. CASE j \in 1..n
    BY <1>1, <1>3, <1>7, <2>1, <2>3
  <2> QED BY <1>5, <2>2, <2>3
<1>8. IsSubsequence(s2, t2)
  BY <1>2, <1>4, <1>6, <1>7 DEF IsSubsequence
<1> QED BY <1>8 DEF s2, t2

LEMMA MiddleDropped ==
  ASSUME NEW S, NEW a \in Seq(S), NEW b \in Seq(S), NEW c \in Seq(S), NEW t \in Seq(S),
         IsSubsequence(a \o b \o c, t)
  PROVE  IsSubsequence(a \o c, t)
<1> DEFINE p == Len(a)
           q == Len(b)
           r == Len(c)
           long == a \o b \o c
           short == a \o c
           m == Len(t)
<1>1. p \in Nat /\ q \in Nat /\ r \in Nat /\ Len(long) = p + q + r /\ Len(short) = p + r
  OBVIOUS
<1>2. /\ \A i \in 1..p : long[i] = a[i] /\ short[i] = a[i]
      /\ \A i \in 1..r : long[p + q + i] = c[i] /\ short[p + i] = c[i]
  <2>1. a \o b \in Seq(S) /\ Len(a \o b) = p + q /\ \A i \in 1..p : (a \o b)[i] = a[i]
    OBVIOUS
  <2>2. \A i \in 1..p : long[i] = a[i] /\ short[i] = a[i]
    BY <2>1
  <2>3. \A i \in 1..r : long[p + q + i] = c[i]
    BY <2>1
  <2>4. \A i \in 1..r : short[p + i] = c[i]
    OBVIOUS
  <2> QED BY <2>2, <2>3, <2>4
<1>3. IsSubsequence(long, t)
  OBVIOUS
<1> HIDE DEF p, q, r, long, short, m
<1>4. PICK at \in [1..p + q + r -> 1..m] :
        /\ \A i \in 1..p + q + r : long[i] = t[at[i]]
        /\ \A i, j \in 1..p + q + r : i < j => at[i] < at[j]
  BY <1>1, <1>3 DEF IsSubsequence, m
<1> DEFINE skip == [i \in 1..p + r |-> IF i <= p THEN i ELSE i + q]
           to == [i \in 1..p + r |-> at[skip[i]]]
<1>5. skip \in [1..p + r -> 1..p + q + r]
  BY <1>1
<1>6. \A i, j \in 1..p + r : i < j => skip[i] < skip[j]
  BY <1>1
<1>7. ASSUME NEW i \in 1..p + r PROVE short[i] = long[skip[i]]
  <2>1. CASE i <= p
    BY <1>1, <1>2, <2>1
  <2>2. CASE i > p
    <3>1. /\ i - p \in 1..r /\ p + (i - p) = i /\ p + q + (i - p) = i + q
          /\ skip[i] = i + q
      BY <1>1, <2>2
    <3> QED BY <1>2, <3>1
  <2> QED BY <1>1, <2>1, <2>2
<1> HIDE DEF skip
<1>8. to \in [1..p + r -> 1..m] /\ \A i \in 1..p + r : to[i] = at[skip[i]]
  BY <1>4, <1>5
<1> HIDE DEF to
<1>9. \A i \in 1..p + r : skip[i] \in 1..p + q + r
  BY <1>5
<1>10. ASSUME NEW i \in 1..p + r PROVE short[i] = t[to[i]]
  <2>1. short[i] = long[skip[i]] /\ to[i] = at[skip[i]] /\ skip[i] \in 1..p + q + r
    BY <1>7, <1>8, <1>9
  <2> QED BY <1>4, <2>1
<1>11. ASSUME NEW i \in 1..p + r, NEW j \in 1..p + r, i < j PROVE to[i] < to[j]
  <2>1. /\ skip[i] \in 1..p + q + r /\ skip[j] \in 1..p + q + r /\ skip[i] < skip[j]
        /\ to[i] = at[skip[i]] /\ to[j] = at[skip[j]]
    BY <1>6, <1>8, <1>9, <1>11
  <2> QED BY <1>4, <2>1
<1>12. IsSubsequence(short, t)
  BY <1>1, <1>8, <1>10, <1>11 DEF IsSubsequence, m
<1> QED BY <1>12 DEF short

LEMMA ConcatAssociates ==
  \A a, b, c \in Seq(RequestType) : (a \o b) \o c = a \o (b \o c)
OBVIOUS

LEMMA ConcatTyped ==
  \A a, b \in Seq(RequestType) : a \o b \in Seq(RequestType)
OBVIOUS

LEMMA BrokerIsFirst ==
  ASSUME TypeOK, broker \in Seq(RequestType)
  PROVE  OnTheWay = broker \o (wire \o pending \o queue) /\ wire \o pending \o queue \in Seq(RequestType)
<1>0. wire \in Seq(RequestType) /\ pending \in Seq(RequestType) /\ queue \in Seq(RequestType)
  BY DEF TypeOK
<1>1. wire \o pending \in Seq(RequestType) /\ wire \o pending \o queue \in Seq(RequestType)
  BY <1>0, ConcatTyped, Zenon
<1>2. broker \o wire \o pending = broker \o (wire \o pending)
  BY <1>0, ConcatAssociates, Zenon
<1>3. broker \o (wire \o pending) \o queue = broker \o (wire \o pending \o queue)
  BY <1>0, <1>1, ConcatAssociates, Zenon
<1> QED BY <1>1, <1>2, <1>3, Zenon DEF OnTheWay

(* Moving the head of one list to the end of the list before it.           *)
LEMMA MovedAlong ==
  ASSUME NEW a \in Seq(RequestType), NEW b \in Seq(RequestType), b # <<>>
  PROVE  Append(a, Head(b)) \o Tail(b) = a \o b
OBVIOUS

LEMMA MovedAlongBehind ==
  ASSUME NEW p \in Seq(RequestType), NEW a \in Seq(RequestType), NEW b \in Seq(RequestType),
         b # <<>>
  PROVE  p \o Append(a, Head(b)) \o Tail(b) = p \o a \o b
<1>1. Append(a, Head(b)) \in Seq(RequestType) /\ Tail(b) \in Seq(RequestType)
  OBVIOUS
<1>2. p \o Append(a, Head(b)) \o Tail(b) = p \o (Append(a, Head(b)) \o Tail(b))
  BY <1>1, ConcatAssociates, Zenon
<1>3. p \o a \o b = p \o (a \o b)
  BY ConcatAssociates, Zenon
<1> QED BY <1>2, <1>3, MovedAlong, Zenon

LEMMA BrokerStep == BrokerInv /\ [Next]_vars => BrokerInv'
<1> SUFFICES ASSUME BrokerInv, [Next]_vars PROVE BrokerInv'
  OBVIOUS
<1>a. /\ RelayInv /\ RelayInv' /\ IsSubsequence(OnTheWay, requested)
      /\ broker \in Seq(RequestType) /\ wire \in Seq(RequestType)
      /\ pending \in Seq(RequestType) /\ queue \in Seq(RequestType)
      /\ requested \in Seq(RequestType)
  BY RelayStep DEF BrokerInv, RelayInv, TypeOK
<1>b. ASSUME OnTheWay' = OnTheWay, broker' \in Seq(RequestType), requested' = requested
      PROVE  BrokerInv'
  BY <1>a, <1>b DEF BrokerInv
<1>c. ASSUME UNCHANGED <<queue, pending, wire, broker, requested>> PROVE BrokerInv'
  <2>1. OnTheWay' = OnTheWay
    BY <1>c DEF OnTheWay
  <2> QED BY <1>a, <1>b, <1>c, <2>1
<1>1. CASE Produce \/ Close \/ Receive \/ ReceiveFill \/ Exit
  BY <1>1, <1>c DEF Produce, Close, Receive, ReceiveFill, Exit, runVars, loopVars
<1>2. CASE Request
  <2>1. /\ queue' = Append(queue, Head(todo)) /\ requested' = Append(requested, Head(todo))
        /\ UNCHANGED <<pending, wire, broker>> /\ Head(todo) \in RequestType
    BY <1>2, <1>a DEF Request, loopVars, RelayInv, TypeOK
  <2> DEFINE p == broker \o wire \o pending
             x == Head(todo)
  <2>2. p \in Seq(RequestType) /\ OnTheWay = p \o queue
    BY <1>a DEF OnTheWay
  <2>3. OnTheWay' = p \o Append(queue, x)
    BY <2>1 DEF OnTheWay
  <2> HIDE DEF p, x
  <2>4. p \o Append(queue, x) = Append(p \o queue, x) /\ p \o queue \in Seq(RequestType)
    BY <1>a, <2>1, <2>2 DEF x
  <2>5. IsSubsequence(Append(p \o queue, x), Append(requested, x))
    BY <1>a, <2>1, <2>2, <2>4, BothGrow DEF x
  <2>6. IsSubsequence(OnTheWay', requested')
    BY <2>1, <2>3, <2>4, <2>5 DEF x
  <2> QED BY <1>a, <2>1, <2>6 DEF BrokerInv, IsSubsequence
<1>3. CASE Connect
  <2>1. pending' \in {pending, <<>>} /\ UNCHANGED <<queue, wire, broker, requested>>
    BY <1>3 DEF Connect, runVars
  <2>2. CASE pending' = pending
    BY <1>c, <2>1, <2>2
  <2>3. CASE pending' = <<>>
    <3> DEFINE p == broker \o wire
    <3>1. p \in Seq(RequestType) /\ OnTheWay = p \o pending \o queue
      BY <1>a DEF OnTheWay
    <3>2. OnTheWay' = p \o <<>> \o queue
      BY <2>1, <2>3 DEF OnTheWay
    <3> HIDE DEF p
    <3>3. p \o <<>> \o queue = p \o queue
      BY <1>a, <3>1
    <3>4. IsSubsequence(p \o queue, requested)
      BY <1>a, <3>1, MiddleDropped
    <3>5. IsSubsequence(OnTheWay', requested')
      BY <2>1, <3>2, <3>3, <3>4
    <3> QED BY <1>a, <2>1, <3>5 DEF BrokerInv, IsSubsequence
  <2> QED BY <2>1, <2>2, <2>3
<1>4. CASE ConnectFails \/ Awake
  BY <1>4, <1>c DEF ConnectFails, Awake, runVars
<1>5. CASE Write
  <2>1. UNCHANGED <<broker, requested>>
    BY <1>5 DEF Write, runVars
  <2>2. CASE pending # <<>>
    <3>1. wire' = Append(wire, Head(pending)) /\ pending' = Tail(pending) /\ queue' = queue
      BY <1>5, <2>2 DEF Write
    <3>2. broker \o Append(wire, Head(pending)) \o Tail(pending) = broker \o wire \o pending
      BY <1>a, <2>2, MovedAlongBehind, Zenon
    <3>3. OnTheWay' = OnTheWay
      BY <2>1, <3>1, <3>2 DEF OnTheWay
    <3> QED BY <1>a, <1>b, <2>1, <3>3
  <2>3. CASE pending = <<>>
    <3>1. /\ queue # <<>> /\ wire' = Append(wire, Head(queue)) /\ queue' = Tail(queue)
          /\ pending' = <<>>
      BY <1>5, <2>3 DEF Write
    <3>2. Append(broker \o wire, Head(queue)) \o Tail(queue) = (broker \o wire) \o queue
      <4>1. broker \o wire \in Seq(RequestType)
        BY <1>a
      <4> QED BY <1>a, <3>1, <4>1, MovedAlong
    <3>3. Head(queue) \in RequestType /\ Tail(queue) \in Seq(RequestType)
      BY <1>a, <3>1
    <3>4. broker \o Append(wire, Head(queue)) = Append(broker \o wire, Head(queue))
      BY <1>a, <3>3
    <3>5. /\ broker \o Append(wire, Head(queue)) \o <<>> = broker \o Append(wire, Head(queue))
          /\ broker \o wire \o <<>> = broker \o wire
      BY <1>a, <3>3
    <3>6. OnTheWay' = OnTheWay
      BY <2>1, <2>3, <3>1, <3>2, <3>4, <3>5 DEF OnTheWay
    <3> QED BY <1>a, <1>b, <2>1, <3>6
  <2> QED BY <2>2, <2>3
<1>6. CASE Deliver
  <2>1. /\ wire # <<>> /\ broker' = Append(broker, Head(wire)) /\ wire' = Tail(wire)
        /\ UNCHANGED <<queue, pending, requested>>
    BY <1>6 DEF Deliver, runVars
  <2>2. Append(broker, Head(wire)) \o Tail(wire) = broker \o wire
    BY <1>a, <2>1, MovedAlong
  <2>3. broker' \in Seq(RequestType)
    BY <1>a, <2>1
  <2>4. OnTheWay' = OnTheWay
    BY <2>1, <2>2 DEF OnTheWay
  <2> QED BY <1>b, <2>1, <2>3, <2>4
<1>7. CASE LinkLost
  <2>1. /\ wire' = <<>> /\ pending' = pending \o queue /\ queue' = <<>>
        /\ UNCHANGED <<broker, requested>>
    BY <1>7 DEF LinkLost, runVars
  <2> DEFINE r == pending \o queue
  <2>2. r \in Seq(RequestType) /\ OnTheWay = broker \o wire \o r
    <3>1. broker \o wire \in Seq(RequestType)
      BY <1>a
    <3> QED BY <1>a, <3>1 DEF OnTheWay
  <2>3. OnTheWay' = broker \o <<>> \o r \o <<>>
    BY <2>1 DEF OnTheWay
  <2> HIDE DEF r
  <2>4. broker \o <<>> \o r \o <<>> = broker \o r
    BY <1>a, <2>2
  <2>5. IsSubsequence(broker \o r, requested)
    BY <1>a, <2>2, MiddleDropped
  <2>6. IsSubsequence(OnTheWay', requested')
    BY <2>1, <2>3, <2>4, <2>5
  <2> QED BY <1>a, <2>1, <2>6 DEF BrokerInv, IsSubsequence
<1>8. CASE UNCHANGED vars
  BY <1>8, <1>c DEF vars, runVars, loopVars
<1> QED BY <1>1, <1>2, <1>3, <1>4, <1>5, <1>6, <1>7, <1>8 DEF Next, Run

LEMMA BrokerInit == Init => BrokerInv
<1> SUFFICES ASSUME Init PROVE BrokerInv
  OBVIOUS
<1>1. /\ broker = <<>> /\ wire = <<>> /\ pending = <<>> /\ queue = <<>>
      /\ requested = <<>> /\ RelayInv
  BY RelayInit DEF Init
<1>2. \A S : <<>> \in Seq(S)
  OBVIOUS
<1>3. <<>> \o <<>> \o <<>> \o <<>> = <<>>
  OBVIOUS
<1>4. IsSubsequence(<<>>, <<>>)
  <2> DEFINE at == [i \in 1..0 |-> 0]
  <2>1. 1..Len(<<>>) = {}
    OBVIOUS
  <2>2. at \in [1..Len(<<>>) -> 1..Len(<<>>)]
    BY <2>1
  <2> HIDE DEF at
  <2> QED BY <2>1, <2>2 DEF IsSubsequence
<1>5. IsSubsequence(OnTheWay, requested)
  BY <1>1, <1>3, <1>4 DEF OnTheWay
<1> QED BY <1>1, <1>2, <1>5, Zenon DEF BrokerInv

LEMMA BrokerBehind == BrokerInv => BrokerSeesSubsequence
<1> SUFFICES ASSUME BrokerInv, NEW i \in 1..Len(broker), NEW j \in 1..Len(broker), i < j
             PROVE  \E a, b \in 1..Len(arrived) :
                      a < b /\ arrived[a] = broker[i] /\ arrived[b] = broker[j]
  BY DEF BrokerSeesSubsequence
<1>1. /\ broker \in Seq(RequestType) /\ wire \in Seq(RequestType)
      /\ pending \in Seq(RequestType) /\ queue \in Seq(RequestType)
      /\ requested \in Seq(RequestType) /\ arrived \in Seq(RequestType)
      /\ todo \in Seq(RequestType)
  BY DEF BrokerInv, RelayInv, TypeOK
<1> DEFINE r == wire \o pending \o queue
<1>2. OnTheWay = broker \o r /\ r \in Seq(RequestType)
  BY BrokerIsFirst DEF BrokerInv, RelayInv
<1> HIDE DEF r
<1>3. /\ i \in 1..Len(OnTheWay) /\ j \in 1..Len(OnTheWay)
      /\ OnTheWay[i] = broker[i] /\ OnTheWay[j] = broker[j]
  BY <1>1, <1>2
<1>4. PICK at \in [1..Len(OnTheWay) -> 1..Len(requested)] :
        /\ \A k \in 1..Len(OnTheWay) : OnTheWay[k] = requested[at[k]]
        /\ \A k, l \in 1..Len(OnTheWay) : k < l => at[k] < at[l]
  BY DEF BrokerInv, IsSubsequence
<1>5. /\ at[i] \in 1..Len(requested) /\ at[j] \in 1..Len(requested) /\ at[i] < at[j]
      /\ requested[at[i]] = broker[i] /\ requested[at[j]] = broker[j]
  BY <1>3, <1>4
<1>6. /\ Len(requested) <= Len(arrived)
      /\ \A k \in 1..Len(requested) : arrived[k] = requested[k]
  <2>1. PICK off : IsCut(off, rx, todo, requested, arrived)
    BY DEF BrokerInv, RelayInv
  <2>2. /\ off \in [0..Len(rx) -> 0..Len(arrived)] /\ off[0] = Len(requested) + Len(todo)
        /\ \A k \in 1..Len(requested) : arrived[k] = requested[k]
    BY <2>1 DEF IsCut
  <2>3. rx \in Seq(Message)
    BY DEF BrokerInv, RelayInv, TypeOK, Message
  <2>4. /\ Len(rx) \in Nat /\ Len(arrived) \in Nat /\ Len(requested) \in Nat
        /\ Len(todo) \in Nat
    BY <1>1, <2>3
  <2>5. off[0] \in 0..Len(arrived)
    BY <2>2, <2>4
  <2> QED BY <2>2, <2>4, <2>5
<1> DEFINE a == at[i]
           b == at[j]
<1>7. /\ a \in 1..Len(requested) /\ b \in 1..Len(requested) /\ a < b
      /\ requested[a] = broker[i] /\ requested[b] = broker[j]
  BY <1>5
<1>8. Len(requested) \in Nat /\ Len(arrived) \in Nat
  BY <1>1
<1> HIDE DEF a, b
<1>9. a \in 1..Len(arrived) /\ b \in 1..Len(arrived)
  BY <1>6, <1>7, <1>8
<1>10. arrived[a] = broker[i] /\ arrived[b] = broker[j]
  BY <1>6, <1>7, Zenon
<1> QED BY <1>7, <1>9, <1>10

(* The broker receives a subsequence of what was to be published, through  *)
(* any number of outages: a request is lost or keeps its place             *)
(* (poll_eventloop, mqtt.rs:132-149).                                      *)
THEOREM BrokerSeesOrder == Spec => []BrokerSeesSubsequence
BY BrokerInit, BrokerStep, BrokerBehind, PTL DEF Spec
=============================================================================
