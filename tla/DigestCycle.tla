---------------------------- MODULE DigestCycle ----------------------------
(***************************************************************************)
(* The digest cycle and the post queue it drives (internal/digest/cycle.go *)
(* over internal/store/sqlite/posts.go).  One process runs one cycle at a  *)
(* time: fetch new posts from every active channel, persist each as a row  *)
(* of the posts table, summarize, bundle everything unsent into a digest,  *)
(* send it to the subscriber in one or more Telegram messages, and record  *)
(* per post what became of it.                                             *)
(*                                                                         *)
(* Every store call and every Telegram call is an action of its own: the   *)
(* process may crash, or be shut down, between any two of them.  After the *)
(* shutdown has cancelled the context (main.go) the database refuses every *)
(* statement, while SendMessage, which ignores its context, still works.   *)
(*                                                                         *)
(* Faults (crashes, shutdowns, failing store calls, failing fetches,       *)
(* failing sends) are drawn from FaultKinds and from a budget MaxFaults.   *)
(***************************************************************************)
EXTENDS Integers, Sequences, FiniteSets

CONSTANTS
  Channel,      \* the channels the subscriber selected
  MaxMsg,       \* bound: messages published per channel, ids 1..MaxMsg
  KeyOf,        \* the dedup key of each post (computeDedupKey)
  Rejected,     \* posts the summarizer answers with ErrInvalidInput
  BatchLimit,   \* LIMIT of ListReceived and ListUnsent (200 in the code)
  FaultKinds,   \* which faults may happen
  MaxFaults,    \* bound: how many faults may happen in a behaviour
  ItemCap       \* bound: digest_items rows of a post are counted up to this

Post == Channel \X (1..MaxMsg)

AllFaults == {"crash", "shutdown", "store", "fetch", "send"}

ASSUME MaxMsgAssumption == MaxMsg \in Nat \ {0}
ASSUME RejectedAssumption == Rejected \subseteq Post
ASSUME BatchLimitAssumption == BatchLimit \in Nat \ {0}
ASSUME FaultAssumption == FaultKinds \subseteq AllFaults /\ MaxFaults \in Nat
ASSUME ItemCapAssumption == ItemCap \in Nat \ {0}

VARIABLES
  (* The world outside the process. *)
  published,    \* channel -> id of the newest message of its public feed
  chat,         \* has the settings row a subscriber chat id?
  deliveries,   \* post -> how often its text reached the subscriber
  confirmed,    \* channel -> the updates Telegram has forgotten, by message id
  (* The long-poll client, in memory. *)
  received,     \* channel -> the newest message its updates brought
  taken,        \* channel -> the newest message FetchNewPosts handed out
  (* The SQLite file. *)
  status,       \* post -> posts.status, "none" when there is no row
  summary,      \* post -> what posts.summary holds
  rows,         \* the posts table in insertion (captured_at) order
  cursor,       \* channel -> channels.last_seen_msg_id
  chStatus,     \* channel -> channels.status
  row,          \* status of the newest cycles row
  orphaned,     \* is an earlier cycles row still pending?
  items,        \* post -> number of digest_items rows, up to ItemCap
  (* The process: locals of Cycle.Run. *)
  ctx,          \* the context every store call is given
  pc,           \* the next call of Cycle.Run
  todo,         \* channels of the snapshot still to be fetched
  fetched,      \* posts FetchNewPosts returned for the current channel
  at,           \* index of the next of them to be ingested
  work,         \* posts the current loop (summarize, mark) has left
  bundle,       \* renderPosts: the posts of this cycle's digest
  rest,         \* posts of the digest whose message is not yet sent
  recipient,    \* the chat id of the settings snapshot is set
  degraded,     \* some summary of this cycle is a raw headline
  sendStatus,   \* digests.send_status to be
  outcome,      \* the status finishCycle will write
  (* History. *)
  shadowed,     \* posts captured beside a settled twin, with an unbroken dedup
  dropped,      \* posts without a row that the store refused or memory lost
  unrecorded,   \* posts whose AddItem failed or was never reached
  faults        \* faults so far

world   == <<published, chat, deliveries>>
client  == <<confirmed, received, taken>>
posts   == <<status, summary, rows>>
chans   == <<cursor, chStatus>>
records == <<row, orphaned, items>>
ingest  == <<todo, fetched, at>>
digest  == <<bundle, rest, recipient, degraded, sendStatus>>
history == <<shadowed, dropped, unrecorded>>
vars    == <<world, client, posts, chans, records, ctx, pc, ingest, work,
             digest, outcome, history, faults>>

Statuses  == {"none", "received", "summarized", "included_in_digest",
              "sent", "send_failed", "filtered_out"}
Terminal  == {"sent", "filtered_out"}
RowStatus == {"none", "pending", "succeeded", "degraded", "failed",
              "skipped_no_items"}
InCycle   == {"list", "fetch", "ingest", "dedup", "advance", "load",
              "summarize", "bundle", "include", "send", "mark", "record",
              "finish"}

TypeOK ==
  /\ published \in [Channel -> 0..MaxMsg]
  /\ chat \in BOOLEAN
  /\ deliveries \in [Post -> Nat]
  /\ confirmed \in [Channel -> 0..MaxMsg]
  /\ received \in [Channel -> 0..MaxMsg]
  /\ taken \in [Channel -> 0..MaxMsg]
  /\ status \in [Post -> Statuses]
  /\ summary \in [Post -> {"none", "ai", "raw"}]
  /\ rows \in Seq(Post)
  /\ cursor \in [Channel -> 0..MaxMsg]
  /\ chStatus \in [Channel -> {"active", "inaccessible"}]
  /\ row \in RowStatus
  /\ orphaned \in BOOLEAN
  /\ items \in [Post -> 0..ItemCap]
  /\ ctx \in {"live", "cancelled"}
  /\ pc \in InCycle \cup {"idle", "down"}
  /\ todo \subseteq Channel
  /\ fetched \in Seq(Post)
  /\ at \in Nat
  /\ work \subseteq Post
  /\ bundle \subseteq Post
  /\ rest \subseteq Post
  /\ recipient \in BOOLEAN
  /\ degraded \in BOOLEAN
  /\ sendStatus \in {"ok", "failed"}
  /\ outcome \in RowStatus
  /\ shadowed \subseteq Post
  /\ dropped \subseteq Post
  /\ unrecorded \subseteq Post
  /\ faults \in 0..MaxFaults

Init ==
  /\ published = [c \in Channel |-> 0]
  /\ chat \in BOOLEAN
  /\ deliveries = [p \in Post |-> 0]
  /\ confirmed = [c \in Channel |-> 0]
  /\ received = [c \in Channel |-> 0]
  /\ taken = [c \in Channel |-> 0]
  /\ status = [p \in Post |-> "none"]
  /\ summary = [p \in Post |-> "none"]
  /\ rows = <<>>
  /\ cursor = [c \in Channel |-> 0]
  /\ chStatus = [c \in Channel |-> "active"]
  /\ row = "none"
  /\ orphaned = FALSE
  /\ items = [p \in Post |-> 0]
  /\ ctx = "live"
  /\ pc = "idle"
  /\ todo = {} /\ fetched = <<>> /\ at = 1 /\ work = {}
  /\ bundle = {} /\ rest = {} /\ recipient = FALSE
  /\ degraded = FALSE /\ sendStatus = "ok" /\ outcome = "none"
  /\ shadowed = {} /\ dropped = {} /\ unrecorded = {} /\ faults = 0

----------------------------------------------------------------------------
(* Faults. *)

Fault(kind) ==
  /\ kind \in FaultKinds
  /\ faults < MaxFaults
  /\ faults' = faults + 1

\* A store call commits only under a live context.
StoreOK == ctx = "live" /\ UNCHANGED faults

\* It fails for a reason of its own, or because the context is cancelled.
StoreFails == IF ctx = "live" THEN Fault("store") ELSE UNCHANGED faults

----------------------------------------------------------------------------
(* Helpers over the posts table. *)

Having(S) == {p \in Post : status[p] \in S}

Older(q, p) ==
  \E i, j \in DOMAIN rows : i < j /\ rows[i] = q /\ rows[j] = p

\* The statuses ListUnsent selects.
Unsent_ForgetsFailed == {"summarized", "included_in_digest"}
Unsent_TakesSent == Statuses \ {"none", "received", "filtered_out"}
Unsent == {"summarized", "included_in_digest", "send_failed"}

\* ORDER BY captured_at ASC LIMIT BatchLimit
Oldest(S) == {p \in S : Cardinality({q \in S : Older(q, p)}) < BatchLimit}

Twins(p) == {q \in Post \ {p} : KeyOf[q] = KeyOf[p]}

\* GetFirstTerminalByDedupKey finds a row
TerminalTwin_Newer(p) ==
  \E q \in Twins(p) : status[q] \in Terminal /\ Older(p, q)
TerminalTwin(p) == \E q \in Twins(p) : status[q] \in Terminal

----------------------------------------------------------------------------
(* Outside the process. *)

Publish(c) ==
  /\ published[c] < MaxMsg
  /\ published' = [published EXCEPT ![c] = @ + 1]
  /\ UNCHANGED <<chat, deliveries, posts, client, chans, records, ctx, pc,
                 ingest, work, digest, outcome, history, faults>>

\* The first /start of the subscriber, or PATCH /api/settings, stores a chat.
SetChat ==
  /\ ~chat
  /\ chat' = TRUE
  /\ UNCHANGED <<published, deliveries, posts, client, chans, records, ctx, pc,
                 ingest, work, digest, outcome, history, faults>>

----------------------------------------------------------------------------
(* The long-poll client. *)

\* getUpdates acknowledges what the client has received, and the response
\* brings some of the rest, or nothing.
Poll ==
  /\ pc # "down"
  /\ confirmed' = received
  /\ received' \in [Channel -> 0..MaxMsg]
  /\ \A c \in Channel : received'[c] \in received[c]..published[c]
  /\ UNCHANGED <<world, taken, posts, chans, records, ctx, pc, ingest, work,
                 digest, outcome, history, faults>>

----------------------------------------------------------------------------
(* Starting a cycle. *)

Goto(label) == pc' = label

\* finishCycle(status) is the next call
FinishWith(s) == pc' = "finish" /\ outcome' = s

\* The scheduler fires; Cycles.Create.  On an error Run returns at once.
Tick ==
  /\ pc = "idle" /\ ctx = "live"
  /\ \/ /\ StoreOK
        /\ Goto("list")
        /\ row' = "pending"
        /\ orphaned' = (orphaned \/ row = "pending")
        /\ sendStatus' = "ok" /\ degraded' = FALSE
     \/ /\ StoreFails
        /\ UNCHANGED <<pc, row, orphaned, sendStatus, degraded>>
  /\ UNCHANGED <<world, posts, client, chans, items, ctx, ingest, work, bundle,
                 rest, recipient, outcome, history>>

\* Channels.List; the loop skips channels that are not active.
ListChannels ==
  /\ pc = "list"
  /\ \/ /\ StoreOK
        /\ todo' = {c \in Channel : chStatus[c] = "active"}
        /\ Goto("fetch")
        /\ UNCHANGED outcome
     \/ StoreFails /\ FinishWith("failed") /\ UNCHANGED todo
  /\ UNCHANGED <<world, posts, client, chans, records, ctx, fetched, at, work,
                 digest, history>>

----------------------------------------------------------------------------
(* Step 1: fetch and persist. *)

\* FetchNewPosts(handle, cursor) takes out of the buffer what is newer than
\* the cursor, in ascending order.  Messages enter the buffer in order and the
\* newer ones leave it together, so what it holds for the cycle are the
\* messages beyond the cursor and beyond those it handed out before.
Handled(c) == IF taken[c] > cursor[c] THEN taken[c] ELSE cursor[c]

Fetch_OffByOne(c) ==
  /\ pc = "fetch" /\ c \in todo
  /\ todo' = todo \ {c}
  /\ LET first == Handled(c) + 1 IN
     IF received[c] > first
     THEN /\ fetched' = [i \in 1..(received[c] - first) |-> <<c, first + i>>]
          /\ taken' = [taken EXCEPT ![c] = received[c]]
          /\ at' = 1
          /\ Goto("ingest")
     ELSE UNCHANGED <<fetched, taken, at, pc>>
  /\ UNCHANGED <<world, confirmed, received, posts, chans, records, ctx, work,
                 digest, outcome, history, faults>>
Fetch(c) ==
  /\ pc = "fetch" /\ c \in todo
  /\ todo' = todo \ {c}
  /\ IF received[c] > Handled(c)
     THEN /\ fetched' = [i \in 1..(received[c] - Handled(c))
                           |-> <<c, Handled(c) + i>>]
          /\ taken' = [taken EXCEPT ![c] = received[c]]
          /\ at' = 1
          /\ Goto("ingest")
     ELSE UNCHANGED <<fetched, taken, at, pc>>
  /\ UNCHANGED <<world, confirmed, received, posts, chans, records, ctx, work,
                 digest, outcome, history, faults>>

\* The client returns an error (the preview client, never the long-poll one):
\* the channel is marked inaccessible, if the store lets it.
FetchFails(c) ==
  /\ pc = "fetch" /\ c \in todo
  /\ todo' = todo \ {c}
  /\ IF ctx = "live"
     THEN /\ Fault("fetch")
          /\ \/ chStatus' = [chStatus EXCEPT ![c] = "inaccessible"]
             \/ "store" \in FaultKinds /\ UNCHANGED chStatus
     ELSE UNCHANGED <<chStatus, faults>>
  /\ UNCHANGED <<world, posts, client, cursor, records, ctx, pc, fetched, at,
                 work, digest, outcome, history>>

FetchDone ==
  /\ pc = "fetch" /\ todo = {}
  /\ Goto("load")
  /\ UNCHANGED <<world, posts, client, chans, records, ctx, ingest, work,
                 digest, outcome, history, faults>>

\* The loop moves to the next fetched post, or past the last one.
NextPost_StopsEarly == at' = at + 1 /\ Goto("advance")
NextPost ==
  /\ at' = at + 1
  /\ Goto(IF at < Len(fetched) THEN "ingest" ELSE "advance")

\* Posts.Upsert: a new row, the row that is already there, or an error.
Upsert ==
  /\ pc = "ingest"
  /\ LET p == fetched[at] IN
     \/ /\ StoreOK /\ status[p] = "none"
        /\ status' = [status EXCEPT ![p] = "received"]
        /\ rows' = Append(rows, p)
        /\ shadowed' = IF \E q \in Twins(p) : status[q] \in Terminal
                       THEN shadowed \cup {p} ELSE shadowed
        /\ dropped' = dropped \ {p}
        /\ Goto("dedup") /\ UNCHANGED <<at, unrecorded>>
     \/ /\ StoreOK /\ status[p] # "none"
        /\ NextPost
        /\ UNCHANGED <<status, rows, history>>
     \/ /\ StoreFails
        /\ dropped' = IF status[p] = "none" THEN dropped \cup {p} ELSE dropped
        /\ NextPost
        /\ UNCHANGED <<status, rows, shadowed, unrecorded>>
  /\ UNCHANGED <<world, summary, client, chans, records, ctx, todo, fetched,
                 work, digest, outcome>>

\* GetFirstTerminalByDedupKey and MarkFiltered.  When either fails, the post
\* stays received.
Dedup ==
  /\ pc = "dedup"
  /\ LET p == fetched[at] IN
     \/ /\ StoreOK
        /\ status' = IF TerminalTwin(p) /\ status[p] = "received"
                     THEN [status EXCEPT ![p] = "filtered_out"]
                     ELSE status
        /\ UNCHANGED shadowed
     \/ StoreFails /\ UNCHANGED status /\ shadowed' = shadowed \ {p}
  /\ NextPost
  /\ UNCHANGED <<world, summary, rows, client, chans, records, ctx, todo,
                 fetched, work, digest, outcome, dropped, unrecorded>>

\* AdvanceCursor to the last fetched id; its error is ignored.
AdvanceCursor ==
  /\ pc = "advance"
  /\ LET p == fetched[Len(fetched)] IN
     \/ StoreOK /\ cursor' = [cursor EXCEPT ![p[1]] = p[2]]
     \/ StoreFails /\ UNCHANGED cursor
  /\ fetched' = <<>> /\ at' = 1
  /\ Goto("fetch")
  /\ UNCHANGED <<world, posts, client, chStatus, records, ctx, todo, work,
                 digest, outcome, history>>

----------------------------------------------------------------------------
(* Step 2: summarize. *)

\* Settings.Get, Categories.List, ListReceived.
LoadReceived ==
  /\ pc = "load"
  /\ \/ /\ StoreOK
        /\ recipient' = chat
        /\ work' = Oldest(Having({"received"}))
        /\ Goto("summarize")
        /\ UNCHANGED outcome
     \/ /\ StoreFails
        /\ FinishWith("failed")
        /\ UNCHANGED <<recipient, work>>
  /\ UNCHANGED <<world, posts, client, chans, records, ctx, ingest, bundle,
                 rest, degraded, sendStatus, history>>

\* MarkSummarized, which touches only a received row
MarkSummarized(p, s) ==
  IF status[p] = "received"
  THEN /\ status' = [status EXCEPT ![p] = "summarized"]
       /\ summary' = [summary EXCEPT ![p] = s]
  ELSE UNCHANGED <<status, summary>>

\* MarkFiltered, which touches only a received row
MarkFiltered(p) ==
  /\ status' = IF status[p] = "received"
               THEN [status EXCEPT ![p] = "filtered_out"] ELSE status
  /\ UNCHANGED summary

\* What the client makes of a post: it rejects an input without text and
\* captions, and answers or is unavailable otherwise.  Under a cancelled
\* context, as after a timeout or an answer it cannot parse, it is unavailable.
Answers(p) ==
  IF p \in Rejected THEN {"invalid"}
  ELSE {"unavailable"} \cup {a \in {"summary"} : ctx = "live"}

\* What is stored for an answer: the summary, or the headline of the post.
Store(p, answer) ==
  \/ answer = "invalid" /\ MarkFiltered(p)
  \/ answer = "summary" /\ MarkSummarized(p, "ai")
  \/ answer = "unavailable" /\ MarkSummarized(p, "raw")

\* One goroutine of summarizeBatch, in any order; errors of the store are
\* ignored.
Summarize(p) ==
  /\ pc = "summarize" /\ p \in work
  /\ work' = work \ {p}
  /\ \E answer \in Answers(p) :
       /\ \/ StoreOK /\ Store(p, answer)
          \/ StoreFails /\ UNCHANGED <<status, summary>>
       /\ degraded' = (degraded \/ answer = "unavailable")
  /\ UNCHANGED <<world, rows, client, chans, records, ctx, pc, ingest, bundle,
                 rest, recipient, sendStatus, outcome, history>>

\* wg.Wait returns
SummarizeDone ==
  /\ pc = "summarize" /\ work = {}
  /\ Goto("bundle")
  /\ UNCHANGED <<world, posts, client, chans, records, ctx, ingest, work,
                 digest, outcome, history, faults>>

----------------------------------------------------------------------------
(* Steps 3 to 6: bundle, render, mark included, send. *)

\* ListUnsent; posts without a summary are left out of the digest.
Bundle ==
  /\ pc = "bundle"
  /\ LET unsent == Oldest(Having(Unsent)) IN
     \/ /\ StoreOK /\ unsent = {}
        /\ FinishWith("skipped_no_items")
        /\ UNCHANGED <<bundle, rest>>
     \/ /\ StoreOK /\ unsent # {}
        /\ bundle' = {p \in unsent : summary[p] # "none"}
        /\ rest' = bundle'
        /\ Goto("include") /\ UNCHANGED outcome
     \/ /\ StoreFails
        /\ FinishWith("failed")
        /\ UNCHANGED <<bundle, rest>>
  /\ UNCHANGED <<world, posts, client, chans, records, ctx, ingest, work,
                 recipient, degraded, sendStatus, history>>

\* MarkIncluded, unguarded by the status; its error is only logged.
MarkIncluded ==
  /\ pc = "include"
  /\ \/ /\ StoreOK
        /\ status' = [p \in Post |-> IF p \in bundle
                                     THEN "included_in_digest" ELSE status[p]]
     \/ StoreFails /\ UNCHANGED status
  /\ Goto("send")
  /\ UNCHANGED <<world, summary, rows, client, chans, records, ctx, ingest,
                 work, digest, outcome, history>>

\* The subscriber receives one message with the posts of part.
Deliver(part) ==
  deliveries' = [p \in Post |-> IF p \in part THEN deliveries[p] + 1
                                              ELSE deliveries[p]]

\* The send loop is over: the per-post outcomes are written next.
SendOver_Ok(s) ==
  sendStatus' = "ok" /\ work' = bundle /\ rest' = {} /\ Goto("mark")
SendOver(s) ==
  /\ sendStatus' = s
  /\ work' = bundle
  /\ rest' = {}
  /\ Goto("mark")

\* SendMessage of one part: Telegram accepts it.  The long-poll client does
\* not look at the context.
SendPart ==
  /\ pc = "send" /\ recipient
  /\ \E part \in (SUBSET rest) \ {{}} :
       /\ Deliver(part)
       /\ IF part = rest
          THEN SendOver("ok")
          ELSE /\ rest' = rest \ part
               /\ UNCHANGED <<sendStatus, work, pc>>
  /\ UNCHANGED <<published, chat, posts, client, chans, records, ctx, ingest,
                 bundle, recipient, degraded, outcome, history, faults>>

\* SendMessage returns an error (403 included; in the preview client also a
\* cancelled context) and the loop breaks.  The message may have reached the
\* subscriber all the same.
SendFails ==
  /\ pc = "send" /\ recipient /\ rest # {}
  /\ IF ctx = "live" THEN Fault("send") ELSE UNCHANGED faults
  /\ \E part \in SUBSET rest : Deliver(part)
  /\ SendOver("failed")
  /\ UNCHANGED <<published, chat, posts, client, chans, records, ctx, ingest,
                 bundle, recipient, degraded, outcome, history>>

\* No chat id, or no message to send.
SendNothing ==
  /\ pc = "send"
  /\ ~recipient \/ rest = {}
  /\ SendOver(IF rest = {} THEN "ok" ELSE "failed")
  /\ UNCHANGED <<world, posts, client, chans, records, ctx, ingest, bundle,
                 recipient, degraded, outcome, history, faults>>

----------------------------------------------------------------------------
(* Steps 7 to 10: record the outcome. *)

\* MarkSent or MarkSendFailed of one post, unguarded by the status; errors
\* are only logged.
MarkOutcome(p) ==
  /\ pc = "mark" /\ p \in work
  /\ work' = work \ {p}
  /\ \/ /\ StoreOK
        /\ status' = [status EXCEPT ![p] = IF sendStatus = "ok" THEN "sent"
                                           ELSE "send_failed"]
     \/ StoreFails /\ UNCHANGED status
  /\ UNCHANGED <<world, summary, rows, client, chans, records, ctx, pc, ingest,
                 digest, outcome, history>>

MarkDone ==
  /\ pc = "mark" /\ work = {}
  /\ Goto("record")
  /\ UNCHANGED <<world, posts, client, chans, records, ctx, ingest, work,
                 digest, outcome, history, faults>>

\* The terminal status of a cycle that got as far as sending.
CycleStatus_Sent == IF degraded THEN "degraded" ELSE "succeeded"
CycleStatus ==
  IF sendStatus # "ok" THEN "failed"
  ELSE IF degraded THEN "degraded" ELSE "succeeded"

\* AddItem of each post in written
AddItems_None(written) == UNCHANGED items
AddItems(written) ==
  items' = [p \in Post |-> IF p \in written /\ items[p] < ItemCap
                           THEN items[p] + 1 ELSE items[p]]

\* Digests.Create, one AddItem per post, UpdateSendResult; errors are
\* ignored, so any of the rows may be missing when the store fails.
Record ==
  /\ pc = "record"
  /\ \E written \in SUBSET bundle :
       /\ AddItems(written)
       /\ IF ctx = "live" /\ written = bundle
          THEN UNCHANGED faults
          ELSE StoreFails /\ (ctx = "live" \/ written = {})
       /\ unrecorded' = (unrecorded \ written) \cup (bundle \ written)
  /\ FinishWith(CycleStatus)
  /\ UNCHANGED <<world, posts, client, chans, row, orphaned, ctx, ingest, work,
                 digest, shadowed, dropped>>

\* finishCycle; its error is ignored.  Run returns.
Finish_NotWhenSkipped ==
  /\ pc = "finish"
  /\ \/ outcome # "skipped_no_items" /\ StoreOK /\ row' = outcome
     \/ outcome = "skipped_no_items" /\ UNCHANGED <<row, faults>>
     \/ StoreFails /\ UNCHANGED row
  /\ Goto("idle")
  /\ outcome' = "none" /\ bundle' = {} /\ recipient' = FALSE
  /\ degraded' = FALSE /\ sendStatus' = "ok"
  /\ UNCHANGED <<world, posts, client, chans, orphaned, items, ctx, ingest,
                 work, rest, history>>
Finish ==
  /\ pc = "finish"
  /\ \/ StoreOK /\ row' = outcome
     \/ StoreFails /\ UNCHANGED row
  /\ Goto("idle")
  /\ outcome' = "none" /\ bundle' = {} /\ recipient' = FALSE
  /\ degraded' = FALSE /\ sendStatus' = "ok"
  /\ UNCHANGED <<world, posts, client, chans, orphaned, items, ctx, ingest,
                 work, rest, history>>

----------------------------------------------------------------------------
(* The end and the beginning of the process. *)

\* What Telegram has forgotten and the store does not hold.
Forgotten == {p \in Post : p[2] <= confirmed[p[1]] /\ status[p] = "none"}

\* Whatever the process holds in memory is gone, buffer and batch included.
\* The next one gets the updates that were not yet acknowledged again.
ProcessDies ==
  /\ pc' = "down" /\ ctx' = "live"
  /\ todo' = {} /\ fetched' = <<>> /\ at' = 1 /\ work' = {}
  /\ bundle' = {} /\ rest' = {} /\ recipient' = FALSE
  /\ degraded' = FALSE /\ sendStatus' = "ok" /\ outcome' = "none"
  /\ received' = confirmed /\ taken' = confirmed
  /\ dropped' = dropped \cup Forgotten
  /\ shadowed' = IF pc = "dedup" THEN shadowed \ {fetched[at]} ELSE shadowed
  /\ unrecorded' = IF pc \in {"mark", "record"} THEN unrecorded \cup bundle
                   ELSE unrecorded
  /\ UNCHANGED <<world, confirmed, posts, chans, records>>

Crash ==
  /\ pc # "down"
  /\ Fault("crash")
  /\ ProcessDies

\* SIGTERM: the context of the scheduler, and of the cycle in flight, is
\* cancelled before WaitIdle.
Shutdown ==
  /\ pc # "down" /\ ctx = "live"
  /\ Fault("shutdown")
  /\ ctx' = "cancelled"
  /\ UNCHANGED <<world, posts, client, chans, records, pc, ingest, work, digest,
                 outcome, history>>

\* WaitIdle returns, the cycle being over or its 30 seconds having passed.
Exit ==
  /\ ctx = "cancelled"
  /\ ProcessDies
  /\ UNCHANGED faults

Boot ==
  /\ pc = "down"
  /\ Goto("idle")
  /\ UNCHANGED <<world, posts, client, chans, records, ctx, ingest, work,
                 digest, outcome, history, faults>>

----------------------------------------------------------------------------

CycleStep ==
  \/ ListChannels
  \/ \E c \in Channel : Fetch(c) \/ FetchFails(c)
  \/ FetchDone \/ Upsert \/ Dedup \/ AdvanceCursor
  \/ LoadReceived
  \/ \E p \in Post : Summarize(p)
  \/ SummarizeDone \/ Bundle \/ MarkIncluded
  \/ SendPart \/ SendFails \/ SendNothing
  \/ \E p \in Post : MarkOutcome(p)
  \/ MarkDone \/ Record \/ Finish

Environment == (\E c \in Channel : Publish(c)) \/ SetChat

Process == Tick \/ Poll \/ Crash \/ Shutdown \/ Exit \/ Boot

Next == CycleStep \/ Environment \/ Process

\* The goroutine of the cycle runs, the ticker fires, the goroutine of longPoll
\* brings what there is in the end, a cancelled process exits and the
\* supervisor restarts it.
Fairness ==
  /\ WF_vars(CycleStep)
  /\ WF_vars(Tick)
  /\ WF_vars(Poll /\ received' = published)
  /\ WF_vars(Exit)
  /\ WF_vars(Boot)

Spec == Init /\ [][Next]_vars
FairSpec == Spec /\ Fairness

----------------------------------------------------------------------------
(* Properties that hold. *)

\* The subscriber holds a copy that the store accounts for, or will when the
\* running cycle has written its outcomes.
InHand(p) ==
  \/ status[p] = "sent"
  \/ pc = "send" /\ p \in bundle \ rest
  \/ pc = "mark" /\ sendStatus = "ok" /\ p \in work

\* The duplicate-delivery hazard of steps 6 and 7: every copy of a post
\* beyond the one that is accounted for was caused by a fault of its own, so
\* without faults the subscriber receives each post at most once.
CopiesPaidByFaults ==
  \A p \in Post : deliveries[p] <= faults + (IF InHand(p) THEN 1 ELSE 0)

\* A message has its row, or its row was refused, or a fault took the message
\* from memory when Telegram had already forgotten it.
Covered(c, m) == status[<<c, m>>] # "none" \/ <<c, m>> \in dropped

\* The crash-while-ingesting hazard of step 1: a message up to the stored
\* cursor is covered, wherever in the loop the process died before.
CursorCovers == \A c \in Channel : \A m \in 1..cursor[c] : Covered(c, m)

\* The inductive strengthening of this.  The client is not ahead of the channel
\* nor behind what it handed out.
ClientInv == \A c \in Channel :
  /\ confirmed[c] <= received[c] /\ received[c] <= published[c]
  /\ taken[c] <= received[c]

\* What the client has handed out is covered or still to be ingested.
TakenCovers ==
  \A c \in Channel : \A m \in 1..taken[c] :
    \/ Covered(c, m)
    \/ /\ pc \in {"ingest", "dedup"}
       /\ \E i \in at..Len(fetched) : fetched[i] = <<c, m>>

\* The slice of fetched posts ends with what was handed out and is ahead of the
\* stored cursor.
FetchedInv ==
  /\ pc \in {"ingest", "dedup"} => at \in 1..Len(fetched)
  /\ pc = "advance" => at = Len(fetched) + 1 /\ Len(fetched) > 0
  /\ pc \in {"ingest", "dedup", "advance"} => \E c \in Channel :
       /\ cursor[c] + Len(fetched) <= taken[c]
       /\ \A i \in 1..Len(fetched) :
            fetched[i] = <<c, taken[c] - Len(fetched) + i>>
  /\ pc = "dedup" => status[fetched[at]] # "none"

\* The posts of a digest stay unsettled until their own outcome is written.
BundleInv ==
  /\ pc = "include" => rest = bundle
  /\ pc = "send" => /\ rest \subseteq bundle
                    /\ rest = {} => bundle = {}
                    /\ ~recipient => rest = bundle
  /\ pc \in {"include", "send"} => bundle \subseteq Having(Unsent)
  /\ pc = "mark" => work \subseteq Having(Unsent)

\* What the subscriber holds, against what the rows and the loops say.
DeliveryInv ==
  /\ \A p \in Post : deliveries[p] > 0 => status[p] \in Unsent \cup {"sent"}
  /\ \A p \in Post : status[p] = "sent" => deliveries[p] > 0
  /\ pc = "send" => \A p \in bundle \ rest : deliveries[p] > 0
  /\ pc = "mark" /\ sendStatus = "ok" => \A p \in work : deliveries[p] > 0

\* A shutdown has paid in advance for the copy the cycle in flight may send.
ShutdownInv ==
  ctx = "cancelled" =>
    /\ \A p \in Post : deliveries[p] <= faults
    /\ pc \in {"include", "send"} => \A p \in rest : deliveries[p] < faults

QueueInv ==
  /\ FetchedInv /\ ClientInv /\ TakenCovers /\ CursorCovers
  /\ BundleInv /\ DeliveryInv /\ ShutdownInv /\ CopiesPaidByFaults

\* The cross-channel dedup of step 1: content that was settled before a
\* forward of it is captured does not reach the subscriber again, whatever
\* else failed or died, unless the dedup of this very post was cut short: by a
\* failing call, or by the end of the process right after its Upsert.
SettledContentStaysSettled == \A p \in shadowed : deliveries[p] = 0

\* FR-014: a post recorded as sent appears in the digest history, unless its own
\* AddItem failed or the process ended between the marks and the items.
SentIsRecorded ==
  \A p \in Having({"sent"}) :
    \/ items[p] > 0 \/ p \in unrecorded
    \/ pc \in {"mark", "record"} /\ p \in bundle

\* What a cycle status says of the queue: "skipped" leaves nothing to deliver,
\* "succeeded" and "degraded" mean that the whole digest arrived, "failed" that
\* none of its posts counts as sent.
IsTrue(s) ==
  /\ s = "skipped_no_items" => Having(Unsent) = {}
  /\ s \in {"succeeded", "degraded"} =>
       \A p \in bundle : deliveries[p] > 0 /\ (status[p] = "sent" \/ faults > 0)
  /\ s = "failed" => \A p \in bundle : status[p] # "sent"

\* The status finishCycle writes, decided from locals after many ignored
\* errors, is true of the queue.
StatusTellsTheTruth ==
  [][ (pc = "finish" /\ row' # row) => IsTrue(row') ]_vars

\* A cycle that leaves Run on any of its paths has finished its row: no row
\* stays pending without a fault.
PendingIsPaid ==
  orphaned \/ (row = "pending" /\ pc \in {"idle", "down"}) => faults > 0

\* The inductive strengthening of these four.  A cancelled or dead process has
\* cost a fault, and a row is in the table once.
CalmInv ==
  /\ (ctx = "cancelled" \/ pc = "down") => faults > 0
  /\ outcome # "pending"
  /\ \A i \in DOMAIN rows : status[rows[i]] # "none"
  /\ \A i, j \in DOMAIN rows : rows[i] = rows[j] => i = j

\* A post that was captured beside a settled twin is filtered, at the latest by
\* the next call.
ShadowInv ==
  \A p \in shadowed :
    \/ status[p] = "filtered_out"
    \/ /\ pc = "dedup" /\ fetched[at] = p
       /\ status[p] = "received" /\ TerminalTwin(p)

\* What the locals of Run say of the digest on the way to its status.
OutcomeInv ==
  /\ pc \notin {"include", "send", "mark", "record", "finish"} => bundle = {}
  /\ pc = "mark" => work \subseteq bundle
  /\ pc \in {"mark", "record"} =>
       \A p \in bundle :
         /\ sendStatus = "ok" =>
              /\ deliveries[p] > 0
              /\ status[p] = "sent" \/ faults > 0 \/ (pc = "mark" /\ p \in work)
         /\ sendStatus = "failed" => status[p] # "sent"
  /\ pc = "finish" => IsTrue(outcome)

RecordInv ==
  CalmInv /\ ShadowInv /\ OutcomeInv /\ SentIsRecorded /\ PendingIsPaid

QueueState(p) ==
  CASE status[p] = "none" -> "absent"
    [] status[p] = "sent" -> "delivered"
    [] status[p] = "filtered_out" -> "dropped"
    [] OTHER -> "waiting"

Queue == INSTANCE AtLeastOnceQueue
           WITH state <- [p \in Post |-> QueueState(p)], copies <- deliveries

\* The cycle implements the at-least-once queue: no post is marked sent that
\* was not delivered, none is dropped after its delivery, and no settled
\* post is delivered or changed again, although MarkIncluded, MarkSent and
\* MarkSendFailed do not look at the status they overwrite.
ImplementsQueue == Queue!Spec

Feed(c) ==
  INSTANCE ChannelFeed
    WITH newest <- published[c], cursor <- cursor[c],
         captured <- {m \in 1..MaxMsg : status[<<c, m>>] # "none"},
         missed <- {m \in 1..MaxMsg : <<c, m>> \in dropped}

\* Step 1 implements the feed of every channel: AdvanceCursor, which writes the
\* id of the last fetched post whatever became of the posts before it, passes
\* only what is stored or given up.  Given up is what the store refused, and
\* what a crash, an exit or a cancelled context took from the buffer or the batch
\* after Telegram had forgotten it; what it had not comes again, is passed
\* when it has a row or lies behind the cursor, and is stored otherwise.
ImplementsFeed ==
  /\ \A c \in Channel : Feed(c)!Init
  /\ [][ \A c \in Channel : [Feed(c)!Next]_(Feed(c)!vars) ]_vars

\* Once a chat is known every captured post is eventually delivered or
\* filtered, whatever failed on the way (spec.md, Send failure recovery).
EveryCaptureSettles ==
  \A p \in Post :
    (status[p] # "none" /\ chat) ~> status[p] \in Terminal

\* A message published on a channel is captured, unless the channel was
\* marked inaccessible, the store refused the row, or the process ended while
\* the message was in its memory only.
EveryMessageCaptured ==
  \A c \in Channel, m \in 1..MaxMsg :
    published[c] >= m ~>
      \/ status[<<c, m>>] # "none"
      \/ chStatus[c] # "active"
      \/ <<c, m>> \in dropped

----------------------------------------------------------------------------
(* What the documents say of the program, and the code does not do. *)

\* README.md: no window is double-delivered across a restart; a graceful
\* shutdown lets the in-flight cycle finish.
DeliveredOnce == \A p \in Post : deliveries[p] <= 1

============================================================================
