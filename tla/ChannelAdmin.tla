---------------------------- MODULE ChannelAdmin ----------------------------
(***************************************************************************)
(* The channels table (internal/store/sqlite/channels.go) between the      *)
(* admin panel and the fetch step of a running digest cycle.               *)
(*                                                                         *)
(* A cycle lists the channels once and works through that list, although   *)
(* the panel adds and removes rows meanwhile.  Posts and digest items      *)
(* reference their row, and the database refuses to remove it under them.  *)
(* RemoveChannel counts the digest items and deletes the row in two        *)
(* statements; the cycle does not take the lock that it holds.             *)
(*                                                                         *)
(* Handles are unique as they are spelled, while the clients of Telegram   *)
(* know a channel by its handle in lower case: two spellings are two rows  *)
(* of one channel.                                                         *)
(***************************************************************************)
EXTENDS Integers, FiniteSets

CONSTANTS
  Handle, Channel,
  ChannelOf,      \* normalizeHandle
  NoHandle,
  MaxId,          \* bound: rows ever inserted
  MaxMsg,         \* bound: messages of a channel
  MaxFailures     \* bound: failing fetches

ASSUME HandleAssumption ==
  ChannelOf \in [Handle -> Channel] /\ NoHandle \notin Handle
ASSUME BoundsAssumption ==
  MaxId \in Nat /\ MaxMsg \in Nat /\ MaxFailures \in Nat

VARIABLES
  (* channels: a row per id. *)
  exists, handle, active, cursor, nextId,
  (* posts and digest_items, as pairs of a row and a message. *)
  post, item,
  (* Telegram, and the buffer of the long-poll client. *)
  source,       \* TELEGRAM_SOURCE
  published,    \* per channel, the last message
  drained,      \* per channel, the messages the long-poll client handed out
  (* The cycle. *)
  pc,
  todo,         \* listed rows that are not fetched yet
  current,      \* the row whose messages are being stored, 0 for none
  batch,        \* its fetched messages that are not stored yet
  last,         \* the last message of the batch
  (* The panel. *)
  removing,     \* the row that a removal is about to delete, 0 for none
  failures

Id  == 1..MaxId
Msg == 1..MaxMsg

table    == <<exists, handle, active, cursor, nextId>>
telegram == <<source, published, drained>>
cycle    == <<pc, todo, current, batch, last>>
vars     == <<table, post, item, telegram, cycle, removing, failures>>

TypeOK ==
  /\ exists \subseteq Id /\ handle \in [Id -> Handle \cup {NoHandle}]
  /\ active \in [Id -> BOOLEAN] /\ cursor \in [Id -> 0..MaxMsg]
  /\ nextId \in 1..(MaxId + 1)
  /\ post \subseteq Id \X Msg /\ item \subseteq Id \X Msg
  /\ source \in {"longpoll", "preview"}
  /\ published \in [Channel -> 0..MaxMsg]
  /\ drained \in [Channel -> SUBSET Msg]
  /\ pc \in {"idle", "fetch", "store", "deliver"}
  /\ todo \subseteq Id /\ current \in Id \cup {0}
  /\ batch \subseteq Msg /\ last \in 0..MaxMsg
  /\ removing \in Id \cup {0}
  /\ failures \in 0..MaxFailures

Init ==
  /\ exists = {} /\ handle = [i \in Id |-> NoHandle]
  /\ active = [i \in Id |-> FALSE] /\ cursor = [i \in Id |-> 0] /\ nextId = 1
  /\ post = {} /\ item = {}
  /\ source \in {"longpoll", "preview"}
  /\ published = [c \in Channel |-> 0] /\ drained = [c \in Channel |-> {}]
  /\ pc = "idle" /\ todo = {} /\ current = 0 /\ batch = {} /\ last = 0
  /\ removing = 0 /\ failures = 0

RowChannel(i) == ChannelOf[handle[i]]
Sent(c) == 1..published[c]

Publish(c) ==
  /\ published[c] < MaxMsg
  /\ published' = [published EXCEPT ![c] = @ + 1]
  /\ UNCHANGED <<table, post, item, source, drained, cycle, removing, failures>>

----------------------------------------------------------------------------
(* The panel. *)

\* INSERT fails on a handle that is taken, as it is spelled.
Free(h) == \A i \in exists : handle[i] # h

\* The client knows the channel; a new row is active, its cursor at 0.
Add(h) ==
  /\ Free(h) /\ nextId <= MaxId
  /\ exists' = exists \cup {nextId}
  /\ handle' = [handle EXCEPT ![nextId] = h]
  /\ active' = [active EXCEPT ![nextId] = TRUE]
  /\ nextId' = nextId + 1
  /\ UNCHANGED <<cursor, post, item, telegram, cycle, removing, failures>>

Rows(refs, i) == {r \in refs : r[1] = i}

\* RemoveChannel holds the lock of the store: one removal at a time.  A
\* channel with digest items is refused here (channel_has_history).
CountItems(i) ==
  /\ removing = 0 /\ i \in exists /\ Rows(item, i) = {}
  /\ removing' = i
  /\ UNCHANGED <<table, post, item, telegram, cycle, failures>>

\* ON DELETE RESTRICT, of the posts and of the digest items: the delete fails
\* (db_error).
Referenced_ItemsOnly(i) == Rows(item, i) # {}
Referenced(i) == Rows(post, i) # {} \/ Rows(item, i) # {}

DeleteRow ==
  /\ removing # 0
  /\ exists' = IF Referenced(removing) THEN exists ELSE exists \ {removing}
  /\ removing' = 0
  /\ UNCHANGED <<handle, active, cursor, nextId, post, item, telegram, cycle,
                 failures>>

----------------------------------------------------------------------------
(* The cycle. *)

List ==
  /\ pc = "idle"
  /\ todo' = {i \in exists : active[i]}
  /\ pc' = "fetch"
  /\ UNCHANGED <<table, post, item, telegram, current, batch, last, removing,
                 failures>>

\* FetchNewPosts for the handle and the cursor of the list.  No one else
\* writes the cursor of a row.  The long-poll client forgets what it hands
\* out, whatever row asks for it.
Fetched(i) ==
  {m \in Sent(RowChannel(i)) \ drained[RowChannel(i)] : m > cursor[i]}

Newest(msgs) == CHOOSE m \in msgs : \A n \in msgs : n <= m
Oldest(msgs) == CHOOSE m \in msgs : \A n \in msgs : m <= n

Fetch(i) ==
  /\ pc = "fetch" /\ i \in todo
  /\ todo' = todo \ {i}
  /\ IF Fetched(i) = {}
     THEN UNCHANGED <<pc, current, batch, last, drained>>
     ELSE /\ pc' = "store" /\ current' = i
          /\ batch' = Fetched(i) /\ last' = Newest(Fetched(i))
          /\ drained' = IF source = "longpoll"
                        THEN [drained EXCEPT
                                ![RowChannel(i)] = @ \cup Fetched(i)]
                        ELSE drained
  /\ UNCHANGED <<table, post, item, source, published, removing, failures>>

\* The preview answers with an error.  UpdateChannelStatus of a row that is
\* gone changes no row and is no error.
FetchFails(i) ==
  /\ pc = "fetch" /\ i \in todo /\ source = "preview"
  /\ failures < MaxFailures /\ failures' = failures + 1
  /\ todo' = todo \ {i}
  /\ active' = IF i \in exists THEN [active EXCEPT ![i] = FALSE] ELSE active
  /\ UNCHANGED <<exists, handle, cursor, nextId, post, item, telegram, pc,
                 current, batch, last, removing>>

\* Upsert, from the oldest on.  The row of a removed channel is refused, and
\* the cycle goes on with the next message.
Inserted(m) == IF current \in exists THEN post \cup {<<current, m>>} ELSE post

Upsert_StopsAtFirst ==
  /\ pc = "store" /\ batch # {}
  /\ post' = Inserted(Oldest(batch))
  /\ batch' = {}
  /\ UNCHANGED <<table, item, telegram, pc, todo, current, last, removing,
                 failures>>
Upsert ==
  /\ pc = "store" /\ batch # {}
  /\ post' = Inserted(Oldest(batch))
  /\ batch' = batch \ {Oldest(batch)}
  /\ UNCHANGED <<table, item, telegram, pc, todo, current, last, removing,
                 failures>>

\* AdvanceCursor, by id: it changes no row when the listed one is gone.
Advanced_ByHandle ==
  [i \in Id |-> IF i \in exists /\ handle[i] = handle[current] THEN last
                ELSE cursor[i]]
Advanced ==
  IF current \in exists THEN [cursor EXCEPT ![current] = last] ELSE cursor

AdvanceCursor ==
  /\ pc = "store" /\ batch = {}
  /\ cursor' = Advanced
  /\ pc' = "fetch" /\ current' = 0 /\ last' = 0
  /\ UNCHANGED <<exists, handle, active, nextId, post, item, telegram, todo,
                 batch, removing, failures>>

FetchDone ==
  /\ pc = "fetch" /\ todo = {}
  /\ pc' = "deliver"
  /\ UNCHANGED <<table, post, item, telegram, todo, current, batch, last,
                 removing, failures>>

\* AddItem for a post of the digest.
AddItem(p) ==
  /\ pc = "deliver" /\ p \in post \ item
  /\ p[1] \in exists
  /\ item' = item \cup {p}
  /\ UNCHANGED <<table, post, telegram, cycle, removing, failures>>

\* Posts that are filtered out or not delivered keep no item.
Finish ==
  /\ pc = "deliver"
  /\ pc' = "idle"
  /\ UNCHANGED <<table, post, item, telegram, todo, current, batch, last,
                 removing, failures>>

----------------------------------------------------------------------------

CycleStep ==
  \/ List \/ Upsert \/ AdvanceCursor \/ FetchDone \/ Finish
  \/ \E i \in Id : Fetch(i) \/ FetchFails(i)
  \/ \E p \in post : AddItem(p)

Panel ==
  \/ \E h \in Handle : Add(h)
  \/ \E i \in Id : CountItems(i)
  \/ DeleteRow

Next == CycleStep \/ Panel \/ \E c \in Channel : Publish(c)

Spec == Init /\ [][Next]_vars

\* Cycles follow one another, and a cycle fetches every listed row.
FairSpec == Spec /\ WF_vars(CycleStep)

----------------------------------------------------------------------------
(* Properties. *)

\* Nothing refers to a row that is gone, although the cycle writes for rows it
\* listed earlier and a removal checks before it deletes.
References ==
  /\ \A p \in post : p[1] \in exists
  /\ item \subseteq post

Stored(c, m) == \E i \in exists : RowChannel(i) = c /\ <<i, m>> \in post

\* A row of this channel was removed at some time.
Removed(c) == \E i \in 1..(nextId - 1) : i \notin exists /\ RowChannel(i) = c

\* The cursor of a row passes no message that was not stored: with the
\* preview, for this very row; with long-poll, for this row or another
\* spelling of it, unless a row of the channel was removed under the cycle.
CursorPassesNothing ==
  \A i \in exists : \A m \in 1..cursor[i] :
    \/ <<i, m>> \in post
    \/ /\ source = "longpoll"
       /\ Stored(RowChannel(i), m) \/ Removed(RowChannel(i))

\* What the long-poll client handed out is stored or about to be, unless a
\* row of the channel was removed.
DrainedIsStored ==
  \A c \in Channel : \A m \in drained[c] :
    \/ Stored(c, m) \/ Removed(c)
    \/ pc = "store" /\ m \in batch /\ RowChannel(current) = c

\* A channel that is removed and added again does not get a message a second
\* time, nor a cursor that an older row has earned.
NoRecapture ==
  /\ \A p, q \in post :
       p[2] = q[2] /\ handle[p[1]] = handle[q[1]] => p[1] = q[1]
  /\ \A i \in exists : cursor[i] # 0 =>
       (<<i, cursor[i]>> \in post)

\* The inductive strengthening.  An id is never used again, and its row keeps
\* its handle.
RowsInv ==
  /\ exists \subseteq 1..(nextId - 1)
  /\ todo \subseteq 1..(nextId - 1) /\ current \in 0..(nextId - 1)
  /\ \A i \in 1..(nextId - 1) : handle[i] \in Handle
  /\ \A i, j \in exists : handle[i] = handle[j] => i = j
  /\ \A i \in Id : i >= nextId => cursor[i] = 0
  /\ removing \in 0..(nextId - 1)

\* What is before the end of the batch is stored or still in it.
BatchInv ==
  /\ batch # {} => pc = "store"
  /\ source = "preview" => \A c \in Channel : drained[c] = {}
  /\ pc = "store" =>
       /\ current # 0
       /\ current \in exists =>
            /\ last \in Msg
            /\ last \in batch \/ <<current, last>> \in post
            /\ \A m \in 1..last :
                 \/ m \in batch \/ <<current, m>> \in post
                 \/ /\ source = "longpoll"
                    /\ Stored(RowChannel(current), m) \/ Removed(RowChannel(current))

ChannelInv ==
  /\ RowsInv /\ BatchInv
  /\ References /\ CursorPassesNothing /\ DrainedIsStored /\ NoRecapture

\* A message of a selected channel is stored, unless the channel turns
\* inaccessible or is removed.
SelectedIsCaptured ==
  \A c \in Channel, m \in Msg :
    (m \in Sent(c) /\ \E i \in exists : RowChannel(i) = c)
      ~> \/ Stored(c, m) \/ Removed(c)
         \/ \E i \in exists : RowChannel(i) = c /\ ~active[i]

=============================================================================
