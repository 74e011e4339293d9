---------------------------- MODULE ChannelFeed ----------------------------
(***************************************************************************)
(* What capturing one channel promises, without pages, updates, buffers or *)
(* a database: messages are stored from the cursor on, and the cursor      *)
(* passes a message only when its fate is settled for good, stored or      *)
(* given up.  Nothing is stored that was not published, or that the cursor *)
(* has passed.                                                             *)
(***************************************************************************)
EXTENDS Integers

VARIABLES
  newest,    \* the last published message
  captured,  \* the messages with a row
  missed,    \* messages that were given up and have no row
  cursor     \* the last message that was passed

vars == <<newest, captured, missed, cursor>>

Init == newest = 0 /\ captured = {} /\ missed = {} /\ cursor = 0

Publish ==
  /\ newest' = newest + 1
  /\ UNCHANGED <<captured, missed, cursor>>

\* Messages without a row are lost, deleted or left behind.
GiveUp(S) ==
  /\ missed' = missed \cup S
  /\ UNCHANGED <<newest, captured, cursor>>

\* Messages beyond the cursor are stored, and the cursor moves to n, maybe
\* where it is.
Capture(S, n) ==
  /\ captured' = captured \cup S
  /\ missed' = missed \ S
  /\ cursor' = n
  /\ 1..n \subseteq captured' \cup missed'
  /\ UNCHANGED newest

Next ==
  \/ Publish
  \/ \E S \in SUBSET ((1..newest) \ captured) : GiveUp(S)
  \/ \E n \in cursor..newest, S \in SUBSET ((cursor + 1)..newest) : Capture(S, n)

Spec == Init /\ [][Next]_vars

============================================================================
