------------------------------ MODULE LongPoll ------------------------------
(***************************************************************************)
(* The long-poll client (internal/telegram/real.go) between Telegram and   *)
(* the fetch step of the digest cycle (internal/digest/cycle.go).          *)
(*                                                                         *)
(* Telegram numbers the updates of a bot; the goroutine of longPoll asks   *)
(* for the updates from its offset on, which makes Telegram forget the     *)
(* ones before it, and keeps the posts in a buffer per channel.  A cycle   *)
(* takes what is newer than the cursor out of the buffer, stores the posts *)
(* one by one and moves the cursor.  Offset, buffers and the batch live in *)
(* memory only.                                                            *)
(*                                                                         *)
(* An update stands for the version of the post that it carries, and the   *)
(* order of a buffer or a batch is the order of its updates: so a buffer   *)
(* is a set of update numbers.                                             *)
(***************************************************************************)
EXTENDS Integers, Sequences, FiniteSets, FiniteSetsExt

CONSTANTS
  Channel, NoChannel,
  MaxBuffered,  \* MaxBufferedPostsPerChannel
  FaultKinds,   \* the faults that may happen: "restart", "store"
  MaxUpdates,   \* bound: posts and edits
  MaxFaults     \* bound: faults

ASSUME ChannelAssumption == NoChannel \notin Channel
ASSUME BufferAssumption == MaxBuffered \in Nat \ {0}
ASSUME FaultsAssumption ==
  FaultKinds \subseteq {"restart", "store"} /\ MaxFaults \in Nat
ASSUME UpdatesAssumption == MaxUpdates \in Nat

VARIABLES
  (* Telegram. *)
  feed,       \* the updates of the bot: posts and edits, in order
  newest,     \* the newest message id of each channel
  forgotten,  \* the updates up to this one are never delivered again
  (* The client. *)
  offset,     \* r.offset: 0 in a new process
  got,        \* the last update of the response that is being handled
  buffer,     \* r.postsByHandle, as update numbers
  (* The fetch step of a cycle. *)
  todo,       \* the channels the cycle has still to visit
  source,     \* the channel whose batch is being stored
  batch,      \* the updates of that batch that are still to be stored
  last,       \* the message id of the last post of the batch
  (* The SQLite file. *)
  rows,       \* the (channel, message id) pairs in the posts table
  cursor,     \* channels.last_seen_msg_id
  (* History. *)
  lost,       \* the pairs that were in memory only when a fault took them
  faults

telegram == <<feed, newest, forgotten>>
client   == <<offset, got, buffer>>
cycle    == <<todo, source, batch, last>>
store    == <<rows, cursor>>
vars     == <<telegram, client, cycle, store, lost, faults>>

Message == Channel \X (1..MaxUpdates)
Update  == 1..MaxUpdates

TypeOK ==
  /\ feed \in Seq(Message) /\ Len(feed) <= MaxUpdates
  /\ newest \in [Channel -> 0..Len(feed)]
  /\ forgotten \in 0..Len(feed) /\ got \in 0..Len(feed)
  /\ offset \in 0..(Len(feed) + 1)
  /\ buffer \in [Channel -> SUBSET (1..Len(feed))]
  /\ \A c \in Channel : Cardinality(buffer[c]) <= MaxBuffered
  /\ todo \subseteq Channel /\ source \in Channel \cup {NoChannel}
  /\ batch \subseteq 1..Len(feed) /\ last \in 0..MaxUpdates
  /\ rows \subseteq Message /\ lost \subseteq Message
  /\ cursor \in [Channel -> 0..MaxUpdates]
  /\ faults \in 0..MaxFaults

Init ==
  /\ feed = <<>> /\ newest = [c \in Channel |-> 0] /\ forgotten = 0
  /\ offset = 0 /\ got = 0 /\ buffer = [c \in Channel |-> {}]
  /\ todo = {} /\ source = NoChannel /\ batch = {} /\ last = 0
  /\ rows = {} /\ cursor = [c \in Channel |-> 0]
  /\ lost = {} /\ faults = 0

Id(u) == feed[u][2]
Carried(U) == {feed[u] : u \in U}

Fault(kind) ==
  kind \in FaultKinds /\ faults < MaxFaults /\ faults' = faults + 1

----------------------------------------------------------------------------
(* Telegram. *)

\* Message ids of a channel grow.
Publish(c) ==
  /\ Len(feed) < MaxUpdates
  /\ feed' = Append(feed, <<c, newest[c] + 1>>)
  /\ newest' = [newest EXCEPT ![c] = @ + 1]
  /\ UNCHANGED <<forgotten, client, cycle, store, lost, faults>>

\* edited_channel_post: an old message id in a new update
Edit(c) ==
  /\ Len(feed) < MaxUpdates
  /\ \E m \in 1..newest[c] : feed' = Append(feed, <<c, m>>)
  /\ UNCHANGED <<newest, forgotten, client, cycle, store, lost, faults>>

----------------------------------------------------------------------------
(* longPoll. *)

\* The first update that Telegram has for the client.
First == IF offset > forgotten THEN offset ELSE forgotten + 1

\* getUpdates(offset) acknowledges the updates before the offset.  It returns
\* some of the rest, or none when it times out or fails.
Poll ==
  /\ got < First
  /\ forgotten' = First - 1
  /\ \E n \in (First - 1)..Len(feed) : got' = n
  /\ UNCHANGED <<feed, newest, offset, buffer, cycle, store, lost, faults>>

\* bufferPost: the oldest post is dropped when the buffer is full.
Buffered(b, u) ==
  IF Cardinality(b \cup {u}) > MaxBuffered
  THEN (b \cup {u}) \ {Min(b \cup {u})}
  ELSE b \cup {u}

\* handleUpdate
HandleUpdate_SkipsResponse ==
  /\ First <= got
  /\ offset' = got + 1
  /\ buffer' = [buffer EXCEPT ![feed[First][1]] = Buffered(@, First)]
  /\ UNCHANGED <<telegram, got, cycle, store, lost, faults>>
HandleUpdate ==
  /\ First <= got
  /\ offset' = First + 1
  /\ LET c == feed[First][1]
         b == Buffered(buffer[c], First)
     IN  /\ buffer' = [buffer EXCEPT ![c] = b]
         /\ lost' = lost \cup (Carried((buffer[c] \cup {First}) \ b) \ rows)
  /\ UNCHANGED <<telegram, got, cycle, store, faults>>

----------------------------------------------------------------------------
(* The fetch step of the cycle. *)

StartCycle ==
  /\ todo = {} /\ source = NoChannel
  /\ todo' = Channel
  /\ UNCHANGED <<telegram, client, source, batch, last, store, lost, faults>>

\* FetchNewPosts takes what is newer than the cursor; the rest stays.
Newer_All(c) == buffer[c]
Newer_OffByOne(c) == {u \in buffer[c] : Id(u) > cursor[c] + 1}
Newer(c) == {u \in buffer[c] : Id(u) > cursor[c]}

Fetch(c) ==
  /\ source = NoChannel /\ c \in todo
  /\ todo' = todo \ {c}
  /\ buffer' = [buffer EXCEPT ![c] = @ \ Newer(c)]
  /\ IF Newer(c) = {}
     THEN UNCHANGED <<source, batch, last>>
     ELSE /\ source' = c /\ batch' = Newer(c)
          /\ last' = Id(Max(Newer(c)))
  /\ UNCHANGED <<telegram, offset, got, store, lost, faults>>

\* Upsert of the next post; a post that cannot be stored is passed.
Upsert ==
  /\ batch # {}
  /\ LET u == Min(batch)
     IN  /\ batch' = batch \ {u}
         /\ \/ rows' = rows \cup {feed[u]} /\ UNCHANGED <<lost, faults>>
            \/ /\ Fault("store")
               /\ lost' = lost \cup ({feed[u]} \ rows)
               /\ UNCHANGED rows
  /\ UNCHANGED <<telegram, client, todo, source, last, cursor>>

\* AdvanceCursor, once per batch; its error is ignored.
AdvanceCursor_BeforeStore ==
  /\ source # NoChannel
  /\ cursor' = [cursor EXCEPT ![source] = last]
  /\ source' = NoChannel /\ last' = 0
  /\ UNCHANGED <<telegram, client, todo, batch, rows, lost, faults>>
AdvanceCursor ==
  /\ source # NoChannel /\ batch = {}
  /\ \/ /\ cursor' = [cursor EXCEPT ![source] = last]
        /\ UNCHANGED faults
     \/ Fault("store") /\ UNCHANGED cursor
  /\ source' = NoChannel /\ last' = 0
  /\ UNCHANGED <<telegram, client, todo, batch, rows, lost>>

----------------------------------------------------------------------------
(* The process. *)

\* A crash, or a shutdown: the batch, the buffers and the offset are gone.
\* What Telegram has not forgotten is delivered again.
Restart ==
  /\ Fault("restart")
  /\ offset' = 0 /\ got' = forgotten
  /\ buffer' = [c \in Channel |-> {}]
  /\ todo' = {} /\ source' = NoChannel /\ batch' = {} /\ last' = 0
  /\ LET memory == batch \cup UNION {buffer[c] : c \in Channel}
     IN  lost' = lost \cup
           (Carried({u \in memory : u <= forgotten}) \ rows)
  /\ UNCHANGED <<telegram, store>>

----------------------------------------------------------------------------

ClientStep == Poll \/ HandleUpdate

CycleStep ==
  \/ StartCycle \/ Upsert \/ AdvanceCursor
  \/ \E c \in Channel : Fetch(c)

Next ==
  \/ \E c \in Channel : Publish(c) \/ Edit(c)
  \/ ClientStep \/ CycleStep \/ Restart

Spec == Init /\ [][Next]_vars

\* The goroutine of longPoll runs and a response brings what there is, in the
\* end; cycles recur (CyclesRecur of Scheduler) and visit every channel.
FairSpec ==
  /\ Spec
  /\ WF_vars(HandleUpdate) /\ WF_vars(CycleStep)
  /\ WF_vars(Poll /\ got' = Len(feed))

----------------------------------------------------------------------------
(* Properties. *)

Held(u) ==
  \/ feed[u] \in rows \cup lost
  \/ u \in batch
  \/ u \in Newer(feed[u][1])

\* What the client has handled or Telegram has forgotten is in the posts
\* table, in the batch, in the buffer where the next fetch takes it, or it was
\* in memory only when a fault or a full buffer took it.  Edits, redelivery
\* after a restart and batches out of order lose nothing else.
Accounted == \A u \in 1..(First - 1) : Held(u)

\* What is published reaches the posts table, unless it was lost: again and
\* again nothing is on its way.
EveryPostStored ==
  []<>(\A u \in 1..Len(feed) : feed[u] \in rows \cup lost)

\* The cursor never passes a message that is neither stored nor lost, nor one
\* that Telegram has still to deliver.
CursorSafe ==
  \A c \in Channel : \A m \in 1..cursor[c] : <<c, m>> \in rows \cup lost

\* AdvanceCursor overwrites the cursor with the id of the last post of the
\* batch, which is not the largest when the batch holds an edit: still the
\* cursor never moves back.
CursorOnlyAdvances ==
  [][ \A c \in Channel : cursor'[c] >= cursor[c] ]_vars

\* The inductive strengthening of Accounted and CursorSafe.  Message ids are
\* published in order, and edited only afterwards.
FeedInv ==
  /\ \A c \in Channel : \A m \in 1..newest[c] :
       \E v \in 1..Len(feed) : feed[v] = <<c, m>>
  /\ \A u \in 1..Len(feed) : \A m \in 1..Id(u) :
       \E v \in 1..u : feed[v] = <<feed[u][1], m>>

\* The client has handled what it holds, and Telegram forgets nothing else.
ClientInv ==
  /\ forgotten <= got /\ offset <= got + 1
  /\ offset = 0 \/ offset > forgotten
  /\ \A c \in Channel : \A u \in buffer[c] : u < First /\ feed[u][1] = c

\* A batch belongs to its channel and is newer than its cursor; once it is
\* stored the cursor may move to its last post.
BatchInv ==
  /\ source = NoChannel => batch = {}
  /\ source # NoChannel =>
       /\ last > cursor[source]
       /\ \A u \in batch : u < First
       /\ \A m \in 1..last : <<source, m>> \in rows \cup lost \cup Carried(batch)

Feed(c) ==
  INSTANCE ChannelFeed
    WITH newest <- newest[c], cursor <- cursor[c],
         captured <- {m \in 1..MaxUpdates : <<c, m>> \in rows},
         missed <- {m \in 1..MaxUpdates : <<c, m>> \in lost \ rows}

\* The buffers, the batch and the cursor implement the feed of every channel,
\* although edits put old posts at the end of a batch: AdvanceCursor writes the
\* id of the last post, and still the cursor never moves back, nor past a post
\* whose fate is open, and what it has passed is not stored any more.
ImplementsFeed ==
  /\ \A c \in Channel : Feed(c)!Init
  /\ [][ \A c \in Channel : [Feed(c)!Next]_(Feed(c)!vars) ]_vars

\* What the refinement needs besides: updates, rows and losses are of published
\* posts, and a batch stays ahead of its cursor.
CaptureInv ==
  /\ \A u \in 1..Len(feed) : Id(u) \in 1..newest[feed[u][1]]
  /\ \A p \in rows \cup lost : p[2] \in 1..newest[p[1]]
  /\ \A u \in batch : feed[u][1] = source /\ Id(u) > cursor[source]

IntakeInv == FeedInv /\ ClientInv /\ BatchInv /\ Accounted /\ CursorSafe

=============================================================================
