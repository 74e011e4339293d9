-------------------------- MODULE AtLeastOnceQueue --------------------------
(***************************************************************************)
(* What the post queue promises, without cycles, cursors or a database: a  *)
(* post that was accepted waits until it is either dropped unread or       *)
(* acknowledged, it is acknowledged only after the subscriber received it, *)
(* and once it is dropped or acknowledged it is never delivered again.     *)
(* Nothing bounds the number of copies: delivery is at least once.         *)
(***************************************************************************)
EXTENDS Naturals

CONSTANT Post

VARIABLES
  state,    \* post -> absent, waiting, delivered or dropped
  copies    \* post -> how often the subscriber received it

vars == <<state, copies>>

Init ==
  /\ state = [p \in Post |-> "absent"]
  /\ copies = [p \in Post |-> 0]

Accept(p) ==
  /\ state[p] = "absent"
  /\ state' = [state EXCEPT ![p] = "waiting"]
  /\ UNCHANGED copies

\* Only a post the subscriber has not seen may be dropped.
Drop(p) ==
  /\ state[p] = "waiting" /\ copies[p] = 0
  /\ state' = [state EXCEPT ![p] = "dropped"]
  /\ UNCHANGED copies

\* One message brings some of the waiting posts.
Deliver(S) ==
  /\ \A p \in S : state[p] = "waiting"
  /\ copies' = [p \in Post |-> IF p \in S THEN copies[p] + 1 ELSE copies[p]]
  /\ UNCHANGED state

Acknowledge(p) ==
  /\ state[p] = "waiting" /\ copies[p] > 0
  /\ state' = [state EXCEPT ![p] = "delivered"]
  /\ UNCHANGED copies

Next ==
  \/ \E p \in Post : Accept(p) \/ Drop(p) \/ Acknowledge(p)
  \/ \E S \in SUBSET Post : Deliver(S)

Spec == Init /\ [][Next]_vars

=============================================================================
