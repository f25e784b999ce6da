------------------------------- MODULE Relay --------------------------------
(***************************************************************************)
(* What a component promises that passes things on: each exactly once, in  *)
(* the order in which they arrived on their stream.  When it passes them   *)
(* on, and whether it ever stops, is left open.                            *)
(***************************************************************************)
EXTENDS Integers, Sequences, SequencesExt

CONSTANT Stream

VARIABLES arrived,  \* arrived[s]: what has arrived on s, oldest first
          passed    \* passed[s]: what has been passed on of s, oldest first

relayVars == <<arrived, passed>>

RelayInit ==
  /\ arrived = [s \in Stream |-> <<>>]
  /\ passed = [s \in Stream |-> <<>>]

Arrive(s) ==
  /\ IsPrefix(arrived[s], arrived'[s])
  /\ arrived' = [arrived EXCEPT ![s] = arrived'[s]]
  /\ UNCHANGED passed

Pass(s) ==
  /\ Len(passed[s]) < Len(arrived[s])
  /\ passed' = [passed EXCEPT ![s] = Append(@, arrived[s][Len(@) + 1])]
  /\ UNCHANGED arrived

RelayNext == \E s \in Stream : Arrive(s) \/ Pass(s)

RelaySpec == RelayInit /\ [][RelayNext]_relayVars
=============================================================================
