------------------------------ MODULE Preview ------------------------------
(***************************************************************************)
(* The web-preview client (internal/telegram/preview.go) on one channel:   *)
(* FetchNewPosts walks the pages of t.me/s/<handle> from the newest post   *)
(* back to the cursor, while posts are published and deleted, and every    *)
(* request waits its turn at the throttle, which the cycle and the checks  *)
(* of the admin panel share.                                               *)
(*                                                                         *)
(* A page holds the newest posts that are older than ?before=, newest      *)
(* first, and links to the older ones (external: it is what the client and *)
(* its tests expect of t.me).  The batch is kept as a set: each page is    *)
(* older than the one before it, so its order is that of the ids.          *)
(***************************************************************************)
EXTENDS Integers, FiniteSets

CONSTANTS
  MaxId,         \* bound: posts ever published
  PageSize,      \* of t.me
  MaxPages,      \* maxPages, 20 in the code
  MinInterval,   \* minInterval, in units of time
  MaxDeletes, MaxGlitches, MaxFailures, MaxChecks    \* bounds

ASSUME SizesAssumption ==
  PageSize \in Nat \ {0} /\ MaxPages \in Nat \ {0} /\ MinInterval \in Nat \ {0}
ASSUME BoundsAssumption ==
  /\ MaxId \in Nat /\ MaxDeletes \in Nat /\ MaxGlitches \in Nat
  /\ MaxFailures \in Nat /\ MaxChecks \in Nat

VARIABLES
  (* The channel on t.me. *)
  newest,       \* the id of the last published post
  live,         \* the posts that are not deleted
  (* The row of the channel and its posts. *)
  active, cursor, captured,
  (* FetchNewPosts. *)
  pc,           \* idle, walk (a page is due), done (the batch is returned)
  before, pages,
  batch,        \* the collected posts
  first,        \* the first of them, which the reversed batch ends with
  (* The throttle of the handle. *)
  step,         \* of each caller: out, look (at lastFetch), sleep
  wait,         \* what is left of its sleep
  age,          \* time since lastFetch, counted up to minInterval
  own,          \* time since the caller's own last fetch, likewise
  (* Counters and history. *)
  deletes, glitches, failures, checks,
  cut,          \* posts that a walk left behind at its last allowed page
  unread        \* posts that a walk passed without reading

channel  == <<newest, live>>
rows     == <<active, cursor, captured>>
walk     == <<pc, before, pages, batch, first>>
throttle == <<step, wait, age, own>>
counters == <<deletes, glitches, failures, checks>>
vars     == <<channel, rows, walk, throttle, counters, cut, unread>>

PostId == 1..MaxId
Caller == {"cycle", "panel"}

TypeOK ==
  /\ newest \in 0..MaxId /\ live \subseteq 1..newest
  /\ active \in BOOLEAN /\ cursor \in 0..MaxId /\ captured \subseteq PostId
  /\ pc \in {"idle", "walk", "done"}
  /\ before \in 0..MaxId /\ pages \in 0..MaxPages
  /\ batch \subseteq PostId /\ first \in 0..MaxId
  /\ step \in [Caller -> {"out", "look", "sleep"}]
  /\ wait \in [Caller -> 0..MinInterval]
  /\ age \in 0..MinInterval /\ own \in [Caller -> 0..MinInterval]
  /\ deletes \in 0..MaxDeletes /\ glitches \in 0..MaxGlitches
  /\ failures \in 0..MaxFailures /\ checks \in 0..MaxChecks
  /\ cut \subseteq PostId /\ unread \subseteq PostId

\* No fetch yet: lastFetch is the zero time, long ago.
Init ==
  /\ newest = 0 /\ live = {}
  /\ active = TRUE /\ cursor = 0 /\ captured = {}
  /\ pc = "idle" /\ before = 0 /\ pages = 0 /\ batch = {} /\ first = 0
  /\ step = [c \in Caller |-> "out"] /\ wait = [c \in Caller |-> 0]
  /\ age = MinInterval /\ own = [c \in Caller |-> MinInterval]
  /\ deletes = 0 /\ glitches = 0 /\ failures = 0 /\ checks = 0
  /\ cut = {} /\ unread = {}

----------------------------------------------------------------------------
(* The channel. *)

Publish ==
  /\ newest < MaxId
  /\ newest' = newest + 1 /\ live' = live \cup {newest + 1}
  /\ UNCHANGED <<rows, walk, throttle, counters, cut, unread>>

Delete(i) ==
  /\ i \in live /\ deletes < MaxDeletes
  /\ deletes' = deletes + 1
  /\ live' = live \ {i}
  /\ UNCHANGED <<newest, rows, walk, throttle, glitches, failures, checks, cut,
                 unread>>

Older(b) == {i \in live : b = 0 \/ i < b}
Page(b)  == {i \in Older(b) : Cardinality({j \in Older(b) : j > i}) < PageSize}

Oldest(posts) == CHOOSE i \in posts : \A j \in posts : i <= j
Newest(posts) == CHOOSE i \in posts : \A j \in posts : j <= i

----------------------------------------------------------------------------
(* The throttle. *)

AtLeast(a, b) == IF a >= b THEN a ELSE b
AtMost(a, b)  == IF a <= b THEN a ELSE b

Tick ==
  /\ age' = AtMost(age + 1, MinInterval)
  /\ own' = [c \in Caller |-> AtMost(own[c] + 1, MinInterval)]
  /\ wait' = [c \in Caller |-> AtLeast(wait[c] - 1, 0)]
  /\ UNCHANGED <<channel, rows, walk, step, counters, cut, unread>>

\* lastFetch is read under the lock, which is released for the sleep.
TimeToSleep == MinInterval - age

Look(c) ==
  /\ step[c] = "look"
  /\ step' = [step EXCEPT ![c] = "sleep"]
  /\ wait' = [wait EXCEPT ![c] = TimeToSleep]
  /\ UNCHANGED <<channel, rows, walk, age, own, counters, cut, unread>>

\* After the sleep lastFetch is now, and the request goes out.
Stamp_Never == age' = age
Stamp == age' = 0

Request(c, next) ==
  /\ step[c] = "sleep" /\ wait[c] = 0
  /\ Stamp
  /\ own' = [own EXCEPT ![c] = 0]
  /\ step' = [step EXCEPT ![c] = next]
  /\ wait' = wait

----------------------------------------------------------------------------
(* GetChat of the same handle: a channel is added in the panel. *)

Check ==
  /\ step["panel"] = "out" /\ checks < MaxChecks
  /\ checks' = checks + 1
  /\ step' = [step EXCEPT !["panel"] = "look"]
  /\ UNCHANGED <<channel, rows, walk, wait, age, own, deletes, glitches,
                 failures, cut, unread>>

GetChat ==
  /\ Request("panel", "out")
  /\ UNCHANGED <<channel, rows, walk, counters, cut, unread>>

----------------------------------------------------------------------------
(* FetchNewPosts, called by the cycle with the cursor of the channel. *)

StartWalk ==
  /\ active /\ pc = "idle"
  /\ pc' = "walk" /\ before' = 0 /\ pages' = 0 /\ batch' = {} /\ first' = 0
  /\ step' = [step EXCEPT !["cycle"] = "look"]
  /\ UNCHANGED <<channel, rows, wait, age, own, counters, cut, unread>>

\* A page is shown without some of its posts, or without its link to the older
\* ones, when the markup is not what the expressions of the client match.
Shown(page) == IF glitches < MaxGlitches THEN SUBSET page ELSE {page}
Links(b) ==
  IF glitches < MaxGlitches THEN {Older(b) # Page(b), FALSE}
  ELSE {Older(b) # Page(b)}
Intact(b, shown, link) == shown = Page(b) /\ link = (Older(b) # Page(b))

New(posts) == {i \in posts : i > cursor}

\* The walk ends at a page without posts, at a post that is not new, at a
\* page without a link, and after the last allowed page.
AtBoundary(shown) == shown = {} \/ \E i \in shown : i <= cursor
Ends(shown, link) == AtBoundary(shown) \/ ~link \/ pages + 1 = MaxPages

\* The id that the next page starts before.
NextBefore_SkipsOne(page) == AtLeast(Oldest(page) - 1, 1)
NextBefore(page) == Oldest(page)

Left(b) == {i \in New(Older(b)) : i \notin Page(b)}

ReadPage(shown, link) ==
  /\ pc = "walk"
  /\ batch' = batch \cup New(shown)
  /\ first' = IF batch = {} /\ New(shown) # {} THEN Newest(New(shown)) ELSE first
  /\ IF Ends(shown, link)
     THEN pc' = "done" /\ UNCHANGED <<before, pages>> /\ Request("cycle", "out")
     ELSE /\ pc' = "walk" /\ before' = NextBefore(Page(before))
          /\ pages' = pages + 1 /\ Request("cycle", "look")
  /\ glitches' = IF Intact(before, shown, link) THEN glitches ELSE glitches + 1
  /\ unread' = unread \cup (New(Page(before)) \ shown)
                 \cup (IF Older(before) # Page(before) /\ (~link \/ shown = {})
                       THEN Left(before) ELSE {})
  /\ cut' = IF ~AtBoundary(shown) /\ link /\ pages + 1 = MaxPages
            THEN cut \cup Left(before) ELSE cut
  /\ UNCHANGED <<channel, rows, deletes, failures, checks>>

\* An error ends the walk: the cycle drops the collected posts and marks the
\* channel inaccessible.
ReadFails ==
  /\ pc = "walk" /\ failures < MaxFailures
  /\ failures' = failures + 1
  /\ Request("cycle", "out")
  /\ pc' = "idle" /\ active' = FALSE
  /\ UNCHANGED <<channel, cursor, captured, before, pages, batch, first,
                 deletes, glitches, checks, cut, unread>>

\* The cycle stores the reversed batch and moves the cursor to its last post.
LastOfBatch_NotReversed == Oldest(batch)
LastOfBatch == first

Deliver ==
  /\ pc = "done"
  /\ captured' = captured \cup batch
  /\ cursor' = IF batch = {} THEN cursor ELSE LastOfBatch
  /\ pc' = "idle"
  /\ UNCHANGED <<channel, active, before, pages, batch, first, throttle,
                 counters, cut, unread>>

----------------------------------------------------------------------------

WalkStep ==
  \/ StartWalk \/ Deliver \/ ReadFails
  \/ \E shown \in Shown(Page(before)), link \in Links(before) :
       ReadPage(shown, link)

Next ==
  \/ Publish \/ (\E i \in PostId : Delete(i))
  \/ Tick \/ Check \/ GetChat \/ (\E c \in Caller : Look(c))
  \/ WalkStep

Spec == Init /\ [][Next]_vars

\* Time passes, and the callers run when their sleep is over.
FairSpec ==
  /\ Spec
  /\ WF_vars(Tick) /\ WF_vars(GetChat) /\ WF_vars(WalkStep)
  /\ \A c \in Caller : WF_vars(Look(c))

----------------------------------------------------------------------------
(* Properties. *)

\* The cursor passes no post that can still be read, whatever is published or
\* deleted during the walk, except those behind the last allowed page and
\* those on a page that could not be read.
SkippedOnlyWithCause ==
  \A i \in live : i <= cursor => i \in captured \cup cut \cup unread

\* The inductive strengthening, of the walk in progress: the posts between the
\* cursor and the end of the batch are collected, given up, or still to come.
BatchInv ==
  /\ \A i \in batch : cursor < i /\ i <= first
  /\ batch = {} => first = 0
  /\ batch # {} => first \in batch
  /\ \A i \in live :
       cursor < i /\ i <= first =>
         \/ i \in batch \cup cut \cup unread
         \/ pc = "walk" /\ i < before

WalkInv ==
  /\ SkippedOnlyWithCause
  /\ cursor <= newest /\ first <= newest
  /\ pc # "idle" => BatchInv
  /\ pc = "walk" => pages < MaxPages /\ \A i \in batch : before # 0 /\ before <= i
  /\ pc # "walk" => step["cycle"] = "out"

\* A batch lies between the old and the new cursor: the cycle never asks the
\* same post again, and never goes back.
BatchMovesCursor ==
  [][ /\ cursor <= cursor'
      /\ \A i \in captured' \ captured : cursor < i /\ i <= cursor' ]_vars

Feed ==
  INSTANCE ChannelFeed
    WITH missed <- (cut \cup unread \cup ((1..newest) \ live)) \ captured

\* A walk, its batch and its cursor implement the feed of the channel, although
\* the walk goes backwards while posts are published and deleted: when the
\* cursor jumps to the newest post of the batch, every post it passes is stored,
\* deleted, or left behind for a cause.
ImplementsFeed == Feed!Spec

\* The age of lastFetch bounds what is left to wait.
ThrottleInv ==
  \A c \in Caller :
    /\ age <= own[c]
    /\ step[c] = "sleep" => own[c] + wait[c] >= MinInterval

\* No caller fetches twice within the interval.
Fetches(c) == step[c] = "sleep" /\ step'[c] # "sleep"

CallersKeepInterval ==
  [][ \A c \in Caller : Fetches(c) => own[c] >= MinInterval ]_vars

\* Every post that stays is captured, or was left behind for a cause, or the
\* channel turned inaccessible.
PostIsCaptured ==
  \A i \in PostId :
    i \in live ~> i \in captured \cup cut \cup unread \/ i \notin live \/ ~active

=============================================================================
