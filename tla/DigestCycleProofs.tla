------------------------- MODULE DigestCycleProofs -------------------------
(***************************************************************************)
(* Theorems about DigestCycle, for every set of channels, every assignment *)
(* of dedup keys, every batch limit and every fault budget.  Four parts:   *)
(*   - the rows and the cursor: type correctness, ClientInv, TakenCovers,  *)
(*     FetchedInv, CursorCovers;                                           *)
(*   - the copies the subscriber receives: QueueInv, and that the cycle    *)
(*     implements the at-least-once queue;                                 *)
(*   - the records: the status row of the cycle, the items of its digest,  *)
(*     the posts captured beside a settled twin (RecordInv);               *)
(*   - that step 1 implements the feed of every channel.                   *)
(***************************************************************************)
EXTENDS DigestCycle, TLAPS, SequenceTheorems, WellFoundedInduction,
        FiniteSetTheorems

USE MaxMsgAssumption, FaultAssumption, ItemCapAssumption, BatchLimitAssumption

(***************************************************************************)
(* Lemmas about the operators.                                             *)
(***************************************************************************)

\* The batch of ListReceived and of ListUnsent holds rows of the status that
\* was asked for.
LEMMA OldestHaving ==
  ASSUME NEW S
  PROVE  /\ Oldest(Having(S)) \subseteq Having(S)
         /\ Oldest(Having(S)) \subseteq Post
BY Zenon DEF Oldest, Having

\* A function on 1..n is a sequence of length n.
LEMMA SliceIsSeq ==
  ASSUME NEW n \in Nat, NEW S, NEW f \in [1..n -> S]
  PROVE  f \in Seq(S) /\ Len(f) = n
OBVIOUS

\* What FetchNewPosts returns is a sequence of posts that continues the handled
\* ones and ends with the newest one received.
LEMMA FetchedType ==
  ASSUME TypeOK, NEW c \in Channel, received[c] > Handled(c),
         NEW f, f = [i \in 1..(received[c] - Handled(c)) |-> <<c, Handled(c) + i>>]
  PROVE  /\ f \in Seq(Post)
         /\ Len(f) \in Nat /\ Len(f) > 0
         /\ received[c] - Len(f) = Handled(c)
         /\ cursor[c] + Len(f) <= received[c]
         /\ \A i \in 1..Len(f) : f[i] = <<c, received[c] - Len(f) + i>>
<1> DEFINE h == Handled(c)
           n == received[c] - h
<1>0. /\ received[c] \in 0..MaxMsg /\ taken[c] \in 0..MaxMsg
      /\ cursor[c] \in 0..MaxMsg
  BY DEF TypeOK
<1>1. /\ h \in 0..MaxMsg /\ cursor[c] <= h /\ received[c] > h
      /\ received[c] \in 0..MaxMsg /\ cursor[c] \in 0..MaxMsg
      /\ n \in Nat /\ n > 0
  BY <1>0 DEF Handled
<1> HIDE DEF h
<1>2. \A i \in 1..n : <<c, h + i>> \in Post
  BY <1>1 DEF Post
<1>3. f = [i \in 1..n |-> <<c, h + i>>]
  BY DEF h
<1>4. f \in [1..n -> Post]
  BY <1>2, <1>3
<1>5. f \in Seq(Post) /\ Len(f) = n
  BY <1>1, <1>4, SliceIsSeq
<1>6. \A i \in 1..n : f[i] = <<c, h + i>>
  BY <1>3
<1>7. received[c] - n = h /\ cursor[c] + n <= received[c]
  BY <1>1
<1> QED
  BY <1>1, <1>5, <1>6, <1>7 DEF h

\* The post the ingest loop works on is a post, and so is the one whose id
\* becomes the cursor.
LEMMA CurrentPost ==
  ASSUME TypeOK, FetchedInv
  PROVE  /\ pc \in {"ingest", "dedup"} => fetched[at] \in Post
         /\ pc = "advance" => fetched[Len(fetched)] \in Post
<1>1. Len(fetched) \in Nat /\ \A i \in 1..Len(fetched) : fetched[i] \in Post
  BY ElementOfSeq, LenProperties DEF TypeOK
<1> QED
  BY <1>1 DEF FetchedInv

(***************************************************************************)
(* Type correctness.                                                       *)
(***************************************************************************)

\* The first boot finds every variable in its type.
LEMMA InitType == Init => TypeOK
<1> SUFFICES ASSUME Init PROVE TypeOK
  OBVIOUS
<1>1. /\ chat \in BOOLEAN /\ orphaned \in BOOLEAN
      /\ recipient \in BOOLEAN /\ degraded \in BOOLEAN
  BY Zenon DEF Init
<1> QED
  BY <1>1 DEF Init, TypeOK, RowStatus, InCycle, Statuses

\* The steps outside the cycle keep every variable in its type.
LEMMA OutsideType ==
  ASSUME TypeOK, Environment \/ Process PROVE TypeOK'
<1> USE DEF Goto, Fault, StoreOK, StoreFails, world, client, posts, chans, records,
            ingest, digest, history
<1>1. ASSUME NEW c \in Channel, Publish(c) PROVE TypeOK'
  <2>1. published' \in [Channel -> 0..MaxMsg]
    BY <1>1 DEF TypeOK, Publish
  <2> QED
    BY <1>1, <2>1 DEF TypeOK, Publish
<1>2. CASE SetChat
  <2>1. chat' \in BOOLEAN
    BY <1>2, Zenon DEF SetChat
  <2> QED
    BY <1>2, <2>1 DEF TypeOK, SetChat
<1>3. CASE Tick
  <2>1. orphaned' \in BOOLEAN /\ degraded' \in BOOLEAN
    BY <1>3, Zenon DEF Tick, TypeOK
  <2>2. /\ pc' \in InCycle \cup {"idle", "down"} /\ row' \in RowStatus
        /\ sendStatus' \in {"ok", "failed"} /\ faults' \in 0..MaxFaults
    BY <1>3 DEF Tick, TypeOK, RowStatus, InCycle
  <2> QED
    BY <1>3, <2>1, <2>2 DEF TypeOK, Tick
<1>4. ASSUME ProcessDies, faults' \in 0..MaxFaults PROVE TypeOK'
  <2>1. recipient' \in BOOLEAN /\ degraded' \in BOOLEAN
    BY <1>4, Zenon DEF ProcessDies
  <2>2. /\ shadowed' \subseteq Post /\ dropped' \subseteq Post
        /\ unrecorded' \subseteq Post
    BY <1>4 DEF ProcessDies, Forgotten, TypeOK
  <2> QED
    BY <1>4, <2>1, <2>2 DEF TypeOK, ProcessDies, RowStatus
<1>5. CASE Crash \/ Exit
  <2>1. faults' \in 0..MaxFaults
    BY <1>5 DEF TypeOK, Crash, Exit
  <2> QED
    BY <1>4, <1>5, <2>1 DEF Crash, Exit
<1>6. CASE Shutdown
  BY <1>6 DEF TypeOK, Shutdown
<1>7. CASE Boot
  BY <1>7 DEF TypeOK, Boot
<1>8. CASE Poll
  <2>1. confirmed' \in [Channel -> 0..MaxMsg]
    BY <1>8 DEF Poll, TypeOK
  <2> QED
    BY <1>8, <2>1 DEF TypeOK, Poll
<1> QED
  BY <1>1, <1>2, <1>3, <1>5, <1>6, <1>7, <1>8 DEF Environment, Process

\* The first half of a cycle, up to the summaries, keeps every variable in
\* its type.
LEMMA IngestType ==
  ASSUME TypeOK, FetchedInv,
         \/ ListChannels \/ FetchDone \/ Upsert \/ Dedup \/ AdvanceCursor
         \/ LoadReceived \/ SummarizeDone
         \/ \E c \in Channel : Fetch(c) \/ FetchFails(c)
         \/ \E p \in Post : Summarize(p)
  PROVE  TypeOK'
<1> USE DEF Goto, FinishWith, Fault, StoreOK, StoreFails, world, client, posts,
            chans, records, ingest, digest, history
<1>1. CASE ListChannels
  <2>1. /\ pc' \in InCycle \cup {"idle", "down"} /\ outcome' \in RowStatus
        /\ todo' \subseteq Channel /\ faults' \in 0..MaxFaults
    BY <1>1 DEF ListChannels, TypeOK, RowStatus, InCycle
  <2> QED
    BY <1>1, <2>1 DEF TypeOK, ListChannels
<1>2. ASSUME NEW c \in Channel, Fetch(c) PROVE TypeOK'
  <2>1. fetched' \in Seq(Post) /\ at' \in Nat
    <3>1. CASE received[c] > Handled(c)
      BY <1>2, <3>1, FetchedType DEF Fetch
    <3>2. CASE ~(received[c] > Handled(c))
      BY <1>2, <3>2 DEF Fetch, TypeOK
    <3> QED
      BY <3>1, <3>2
  <2>2. taken' \in [Channel -> 0..MaxMsg]
    BY <1>2 DEF Fetch, TypeOK
  <2> QED
    BY <1>2, <2>1, <2>2 DEF TypeOK, Fetch, InCycle
<1>3. ASSUME NEW c \in Channel, FetchFails(c) PROVE TypeOK'
  <2>1. chStatus' \in [Channel -> {"active", "inaccessible"}]
    BY <1>3 DEF FetchFails, TypeOK
  <2>2. faults' \in 0..MaxFaults
    BY <1>3 DEF FetchFails, TypeOK
  <2> QED
    BY <1>3, <2>1, <2>2 DEF TypeOK, FetchFails
<1>4. CASE FetchDone
  BY <1>4 DEF TypeOK, FetchDone, InCycle
<1>5. CASE Upsert
  <2> DEFINE p == fetched[at]
  <2>1. p \in Post
    BY <1>5, CurrentPost DEF Upsert
  <2> HIDE DEF p
  <2>2. /\ status' \in [Post -> Statuses]
        /\ rows' \in Seq(Post)
        /\ shadowed' \subseteq Post /\ dropped' \subseteq Post
        /\ unrecorded' \subseteq Post
    <3>1. Append(rows, p) \in Seq(Post)
      BY <2>1, AppendProperties DEF TypeOK
    <3> QED
      BY <1>5, <2>1, <3>1 DEF Upsert, p, TypeOK, Statuses, NextPost
  <2>3. /\ at' \in Nat /\ pc' \in InCycle \cup {"idle", "down"}
        /\ faults' \in 0..MaxFaults
    <3>1. at' = at + 1 \/ at' = at
      BY <1>5, Zenon DEF Upsert, NextPost
    <3>2. pc' \in {"dedup", "ingest", "advance"}
      BY <1>5 DEF Upsert, NextPost
    <3>3. faults' \in 0..MaxFaults
      BY <1>5 DEF Upsert, TypeOK
    <3> QED
      BY <3>1, <3>2, <3>3 DEF TypeOK, InCycle
  <2> QED
    BY <1>5, <2>2, <2>3 DEF TypeOK, Upsert
<1>6. CASE Dedup
  <2>1. \/ status' = status
        \/ status' = [status EXCEPT ![fetched[at]] = "filtered_out"]
    BY <1>6, Zenon DEF Dedup
  <2>2. status' \in [Post -> Statuses]
    BY <2>1 DEF TypeOK, Statuses
  <2>3. /\ at' \in Nat /\ pc' \in InCycle \cup {"idle", "down"}
        /\ faults' \in 0..MaxFaults
    BY <1>6 DEF Dedup, NextPost, TypeOK, InCycle
  <2> QED
    BY <1>6, <2>2, <2>3 DEF TypeOK, Dedup
<1>7. CASE AdvanceCursor
  <2> DEFINE p == fetched[Len(fetched)]
  <2>1. p[2] \in 0..MaxMsg
    BY <1>7, CurrentPost DEF AdvanceCursor, Post
  <2>2. cursor' \in [Channel -> 0..MaxMsg]
    BY <1>7, <2>1 DEF AdvanceCursor, TypeOK
  <2> QED
    BY <1>7, <2>2 DEF TypeOK, AdvanceCursor, InCycle
<1>8. CASE LoadReceived
  <2>1. work' \subseteq Post
    BY <1>8, OldestHaving DEF LoadReceived, TypeOK
  <2> QED
    BY <1>8, <2>1 DEF TypeOK, LoadReceived, RowStatus, InCycle
<1>9. ASSUME NEW p \in Post, Summarize(p) PROVE TypeOK'
  <2>1. degraded' \in BOOLEAN
    <3>1. PICK answer \in Answers(p) :
            degraded' = (degraded \/ answer = "unavailable")
      BY <1>9, Zenon DEF Summarize
    <3> QED
      BY <3>1, Zenon DEF TypeOK
  <2>2. /\ status' \in [Post -> Statuses]
        /\ summary' \in [Post -> {"none", "ai", "raw"}]
    <3>1. \/ UNCHANGED <<status, summary>>
          \/ \E answer \in Answers(p) : Store(p, answer)
      BY <1>9, Zenon DEF Summarize
    <3> QED
      BY <3>1 DEF Store, MarkFiltered, MarkSummarized, TypeOK, Statuses
  <2>3. faults' \in 0..MaxFaults
    BY <1>9 DEF Summarize, TypeOK
  <2> QED
    BY <1>9, <2>1, <2>2, <2>3 DEF TypeOK, Summarize
<1>10. CASE SummarizeDone
  BY <1>10 DEF TypeOK, SummarizeDone, InCycle
<1> QED
  BY <1>1, <1>2, <1>3, <1>4, <1>5, <1>6, <1>7, <1>8, <1>9, <1>10

\* The second half of a cycle, from the bundle on, keeps every variable in
\* its type.
LEMMA DeliverType ==
  ASSUME TypeOK,
         \/ Bundle \/ MarkIncluded \/ SendPart \/ SendFails \/ SendNothing
         \/ \E p \in Post : MarkOutcome(p)
         \/ MarkDone \/ Record \/ Finish
  PROVE  TypeOK'
<1> USE DEF Goto, FinishWith, Fault, StoreOK, StoreFails, world, client, posts,
            chans, records, ingest, digest, history
<1>1. CASE Bundle
  <2> DEFINE unsent == Oldest(Having(Unsent))
  <2>1. unsent \subseteq Post
    BY OldestHaving
  <2> HIDE DEF unsent
  <2>2. bundle' \subseteq Post /\ rest' \subseteq Post
    BY <1>1, <2>1 DEF Bundle, unsent, TypeOK
  <2>3. /\ pc' \in InCycle \cup {"idle", "down"} /\ outcome' \in RowStatus
        /\ faults' \in 0..MaxFaults
    BY <1>1 DEF Bundle, TypeOK, RowStatus, InCycle
  <2> QED
    BY <1>1, <2>2, <2>3 DEF TypeOK, Bundle
<1>2. CASE MarkIncluded
  <2>1. status' \in [Post -> Statuses]
    BY <1>2 DEF MarkIncluded, TypeOK, Statuses
  <2> QED
    BY <1>2, <2>1 DEF TypeOK, MarkIncluded, InCycle
<1>3. CASE SendPart
  <2>1. PICK part \in (SUBSET rest) \ {{}} :
          /\ Deliver(part)
          /\ IF part = rest THEN SendOver("ok")
             ELSE rest' = rest \ part /\ UNCHANGED <<sendStatus, work, pc>>
    BY <1>3, Zenon DEF SendPart
  <2>2. deliveries' \in [Post -> Nat]
    BY <2>1 DEF Deliver, TypeOK
  <2>3. /\ rest' \subseteq Post /\ work' \subseteq Post
        /\ pc' \in InCycle \cup {"idle", "down"}
        /\ sendStatus' \in {"ok", "failed"}
    BY <2>1 DEF SendOver, TypeOK, InCycle
  <2> QED
    BY <1>3, <2>1, <2>2, <2>3 DEF TypeOK, SendPart, Deliver
<1>4. CASE SendFails
  <2>1. deliveries' \in [Post -> Nat]
    BY <1>4 DEF TypeOK, SendFails, Deliver
  <2>2. /\ rest' \subseteq Post /\ work' \subseteq Post
        /\ pc' \in InCycle \cup {"idle", "down"}
        /\ sendStatus' \in {"ok", "failed"} /\ faults' \in 0..MaxFaults
    BY <1>4 DEF TypeOK, SendFails, SendOver, InCycle
  <2> QED
    BY <1>4, <2>1, <2>2 DEF TypeOK, SendFails
<1>5. CASE SendNothing
  BY <1>5 DEF TypeOK, SendNothing, SendOver, InCycle
<1>6. ASSUME NEW p \in Post, MarkOutcome(p) PROVE TypeOK'
  <2>1. status' \in [Post -> Statuses]
    BY <1>6 DEF MarkOutcome, TypeOK, Statuses
  <2>2. work' \subseteq Post /\ faults' \in 0..MaxFaults
    BY <1>6 DEF MarkOutcome, TypeOK
  <2> QED
    BY <1>6, <2>1, <2>2 DEF TypeOK, MarkOutcome
<1>7. CASE MarkDone
  BY <1>7 DEF TypeOK, MarkDone, InCycle
<1>8. CASE Record
  <2>1. items' \in [Post -> 0..ItemCap] /\ unrecorded' \subseteq Post
    BY <1>8 DEF TypeOK, Record, AddItems
  <2>2. /\ pc' = "finish" /\ outcome' \in RowStatus /\ faults' \in 0..MaxFaults
    BY <1>8 DEF TypeOK, Record, CycleStatus, RowStatus
  <2> QED
    BY <1>8, <2>1, <2>2 DEF TypeOK, Record, InCycle
<1>9. CASE Finish
  <2>1. recipient' \in BOOLEAN /\ degraded' \in BOOLEAN
    BY <1>9, Zenon DEF Finish
  <2> QED
    BY <1>9, <2>1 DEF TypeOK, Finish, RowStatus
<1> QED
  BY <1>1, <1>2, <1>3, <1>4, <1>5, <1>6, <1>7, <1>8, <1>9

\* Type correctness is inductive relative to FetchedInv, which bounds the
\* index of the ingest loop.
LEMMA NextType ==
  ASSUME TypeOK, FetchedInv, [Next]_vars PROVE TypeOK'
<1>1. CASE UNCHANGED vars
  BY <1>1 DEF TypeOK, vars, world, client, posts, chans, records, ingest, digest,
              history
<1>2. CASE CycleStep
  BY <1>2, IngestType, DeliverType DEF CycleStep
<1> QED
  BY <1>1, <1>2, OutsideType DEF Next

(***************************************************************************)
(* The cursor never hides a message (step 1 of the cycle).                 *)
(***************************************************************************)

\* No step deletes a row of the posts table, and a post leaves dropped only
\* by getting a row.
LEMMA RowsStay ==
  ASSUME TypeOK, [Next]_vars
  PROVE  \A q \in Post :
           /\ status[q] # "none" => status'[q] # "none"
           /\ q \in dropped => q \in dropped' \/ status'[q] # "none"
<1> SUFFICES ASSUME NEW q \in Post
             PROVE  /\ status[q] # "none" => status'[q] # "none"
                    /\ q \in dropped => q \in dropped' \/ status'[q] # "none"
  OBVIOUS
<1>1. CASE UNCHANGED status /\ dropped \subseteq dropped'
  BY <1>1
<1>2. CASE Upsert
  <2>1. \/ UNCHANGED status /\ dropped \subseteq dropped'
        \/ /\ status' = [status EXCEPT ![fetched[at]] = "received"]
           /\ dropped' = dropped \ {fetched[at]}
    BY <1>2, Zenon DEF Upsert, history
  <2> QED
    BY <2>1 DEF TypeOK
<1>3. CASE Dedup
  <2>1. \/ status' = status
        \/ status' = [status EXCEPT ![fetched[at]] = "filtered_out"]
    BY <1>3, Zenon DEF Dedup
  <2> QED
    BY <1>3, <2>1 DEF TypeOK, Dedup
<1>4. ASSUME NEW p \in Post, Summarize(p)
      PROVE  status[q] # "none" => status'[q] # "none"
  <2>1. UNCHANGED status \/ \E answer \in Answers(p) : Store(p, answer)
    BY <1>4, Zenon DEF Summarize
  <2> QED
    BY <2>1 DEF Store, MarkFiltered, MarkSummarized, TypeOK
<1>5. CASE MarkIncluded
  BY <1>5 DEF MarkIncluded, history
<1>6. ASSUME NEW p \in Post, MarkOutcome(p)
      PROVE  status[q] # "none" => status'[q] # "none"
  BY <1>6 DEF MarkOutcome, TypeOK
<1>7. (\E p \in Post : Summarize(p) \/ MarkOutcome(p)) => UNCHANGED dropped
  BY DEF Summarize, MarkOutcome, history
<1>8. \/ UNCHANGED status /\ dropped \subseteq dropped'
      \/ Upsert \/ Dedup \/ MarkIncluded
      \/ \E p \in Post : Summarize(p) \/ MarkOutcome(p)
  BY DEF Next, vars, CycleStep, Environment, Process, Tick, ListChannels,
         Fetch, FetchFails, FetchDone, AdvanceCursor, LoadReceived,
         SummarizeDone, Bundle, SendPart, SendFails, SendNothing, MarkDone,
         Record, Finish, Crash, Shutdown, Exit, Boot, ProcessDies, Publish,
         SetChat, Poll, posts, history
<1> QED
  BY <1>1, <1>2, <1>3, <1>4, <1>5, <1>6, <1>7, <1>8

\* So a covered message stays covered.
LEMMA CoveredStays ==
  ASSUME TypeOK, [Next]_vars, NEW c \in Channel, NEW m \in 1..MaxMsg,
         Covered(c, m)
  PROVE  Covered(c, m)'
BY RowsStay DEF Covered, Post

\* The position of the ingest loop, the slice it walks and the client's count
\* change only in the steps of the loop and at the end of the process.
LEMMA IngestFrame ==
  ASSUME TypeOK, [Next]_vars
  PROVE  \/ UNCHANGED <<pc, at, fetched, cursor, taken>>
         \/ /\ UNCHANGED <<taken, cursor>>
            /\ pc \notin {"ingest", "dedup"}
            /\ pc' \notin {"ingest", "dedup", "advance"}
         \/ \E c \in Channel : Fetch(c)
         \/ Upsert \/ Dedup \/ AdvanceCursor \/ ProcessDies
BY DEF Next, vars, CycleStep, Environment, Process, Tick, ListChannels,
       FetchFails, FetchDone, LoadReceived, Summarize, SummarizeDone, Bundle,
       MarkIncluded, SendPart, SendFails, SendNothing, SendOver, MarkOutcome,
       MarkDone, Record, Finish, Crash, Shutdown, Exit, Boot, Publish, SetChat, Poll,
       Poll, Goto, FinishWith, chans, ingest, client

\* Fetch hands out all that is beyond the handled messages, or nothing.
LEMMA FetchTakes ==
  ASSUME TypeOK, NEW c \in Channel, Fetch(c)
  PROVE  \/ /\ UNCHANGED <<pc, at, fetched, cursor, taken>>
            /\ pc = "fetch"
         \/ /\ received[c] > Handled(c)
            /\ fetched' = [i \in 1..(received[c] - Handled(c))
                             |-> <<c, Handled(c) + i>>]
            /\ at' = 1 /\ pc = "fetch" /\ pc' = "ingest"
            /\ taken' = [taken EXCEPT ![c] = received[c]]
            /\ UNCHANGED <<cursor, status, dropped>>
BY Zenon DEF Fetch, Goto, chans, posts, history

\* Nothing between the handled messages and the newest received one is left out.
LEMMA FetchedAll ==
  ASSUME TypeOK, NEW c \in Channel, received[c] > Handled(c),
         fetched' = [i \in 1..(received[c] - Handled(c)) |-> <<c, Handled(c) + i>>],
         NEW m \in 1..received[c], m > Handled(c)
  PROVE  \E i \in 1..Len(fetched') : fetched'[i] = <<c, m>>
<1> DEFINE f == fetched'
<1> HIDE DEF f
<1>1. f = [i \in 1..(received[c] - Handled(c)) |-> <<c, Handled(c) + i>>]
  BY DEF f
<1>2. /\ Len(f) \in Nat /\ received[c] - Len(f) = Handled(c)
      /\ \A i \in 1..Len(f) : f[i] = <<c, received[c] - Len(f) + i>>
  BY <1>1, FetchedType
<1>3. PICK n \in Nat : n = Len(f)
  BY <1>2
<1>4. received[c] \in Nat
  BY DEF TypeOK
<1>5. PICK k \in 1..n : received[c] - n + k = m
  <2>1. m - (received[c] - n) \in 1..n
    BY <1>2, <1>3, <1>4
  <2>2. received[c] - n + (m - (received[c] - n)) = m
    BY <1>3, <1>4
  <2> QED
    BY <2>1, <2>2
<1> QED
  BY <1>2, <1>3, <1>5 DEF f

\* The loop goes to the dedup of a new row, or to the next message, or past
\* the last one.
LEMMA LoopMoves ==
  ASSUME TypeOK, FetchedInv, Upsert \/ Dedup
  PROVE  /\ pc \in {"ingest", "dedup"} /\ at \in 1..Len(fetched)
         /\ UNCHANGED <<fetched, cursor, taken>>
         /\ \/ pc' = "dedup" /\ at' = at
            \/ at' = at + 1 /\ pc' = "ingest" /\ at < Len(fetched)
            \/ at' = at + 1 /\ pc' = "advance" /\ ~(at < Len(fetched))
         /\ \/ status'[fetched[at]] # "none"
            \/ fetched[at] \in dropped' /\ pc' # "dedup"
<1>1. /\ pc \in {"ingest", "dedup"} /\ at \in 1..Len(fetched)
      /\ UNCHANGED <<fetched, cursor, taken>>
  BY DEF Upsert, Dedup, FetchedInv, chans, client
<1>2. \/ pc' = "dedup" /\ at' = at
      \/ at' = at + 1 /\ pc' = "ingest" /\ at < Len(fetched)
      \/ at' = at + 1 /\ pc' = "advance" /\ ~(at < Len(fetched))
  BY Zenon DEF Upsert, Dedup, NextPost, Goto
<1>3. fetched[at] \in Post
  BY <1>1, CurrentPost
<1>4. \/ status'[fetched[at]] # "none"
      \/ fetched[at] \in dropped' /\ pc' # "dedup"
  <2>1. CASE Dedup
    BY <1>3, <2>1 DEF Dedup, FetchedInv, TypeOK
  <2>2. CASE Upsert
    BY <1>3, <2>2 DEF Upsert, TypeOK, NextPost, Goto
  <2> QED
    BY <2>1, <2>2
<1> QED
  BY <1>1, <1>2, <1>4

\* The slice of fetched posts keeps its place.
LEMMA NextFetched ==
  ASSUME TypeOK, FetchedInv, [Next]_vars PROVE FetchedInv'
<1>1. CASE pc' \notin {"ingest", "dedup", "advance"}
  BY <1>1 DEF FetchedInv
<1> SUFFICES ASSUME pc' \in {"ingest", "dedup", "advance"} PROVE FetchedInv'
  BY <1>1
<1>2. Len(fetched) \in Nat /\ at \in Nat
  BY LenProperties DEF TypeOK
<1>3. CASE UNCHANGED <<pc, at, fetched, cursor, taken>>
  <2>1. pc = "dedup" => status'[fetched[at]] # "none"
    BY RowsStay, CurrentPost DEF FetchedInv
  <2> QED
    BY <1>3, <2>1 DEF FetchedInv
<1>4. ASSUME NEW c \in Channel, Fetch(c) PROVE FetchedInv'
  <2>1. /\ fetched' = [i \in 1..(received[c] - Handled(c))
                          |-> <<c, Handled(c) + i>>]
        /\ received[c] > Handled(c)
        /\ at' = 1 /\ pc' = "ingest" /\ UNCHANGED cursor
        /\ taken'[c] = received[c]
    BY <1>4, FetchTakes DEF TypeOK
  <2> DEFINE f == fetched'
  <2> HIDE DEF f
  <2>2. /\ Len(f) \in Nat /\ Len(f) > 0
        /\ cursor[c] + Len(f) <= received[c]
        /\ \A i \in 1..Len(f) : f[i] = <<c, received[c] - Len(f) + i>>
    <3>1. f = [i \in 1..(received[c] - Handled(c)) |-> <<c, Handled(c) + i>>]
      BY <2>1 DEF f
    <3> QED
      BY <2>1, <3>1, FetchedType
  <2>3. at' \in 1..Len(f) /\ cursor' = cursor
    BY <2>1, <2>2
  <2>4. /\ pc' = "ingest" /\ at' \in 1..Len(f)
        /\ cursor'[c] + Len(f) <= taken'[c]
        /\ \A i \in 1..Len(f) : f[i] = <<c, taken'[c] - Len(f) + i>>
    BY <2>1, <2>2, <2>3
  <2> QED
    BY <2>4 DEF FetchedInv, f
<1>5. ASSUME Upsert \/ Dedup PROVE FetchedInv'
  BY <1>2, <1>5, LoopMoves DEF FetchedInv
<1>6. CASE AdvanceCursor \/ ProcessDies
  BY <1>6 DEF AdvanceCursor, ProcessDies, Goto
<1> QED
  BY <1>3, <1>4, <1>5, <1>6, IngestFrame

\* The client stays behind the channel and ahead of what it handed out.
LEMMA NextClient ==
  ASSUME TypeOK, ClientInv, [Next]_vars PROVE ClientInv'
<1>1. CASE UNCHANGED <<client, published>>
  BY <1>1 DEF ClientInv, client
<1>2. ASSUME NEW c \in Channel, Publish(c) PROVE ClientInv'
  <2>1. \A d \in Channel : published'[d] \in {published[d], published[d] + 1}
    BY <1>2 DEF Publish, TypeOK
  <2> QED
    BY <1>2, <2>1 DEF Publish, ClientInv, TypeOK, client
<1>3. CASE Poll
  BY <1>3 DEF Poll, ClientInv, TypeOK, world
<1>4. ASSUME NEW c \in Channel, Fetch(c) PROVE ClientInv'
  <2>1. \A d \in Channel : taken'[d] \in {taken[d], received[d]}
    BY <1>4 DEF Fetch, TypeOK
  <2>2. \A d \in Channel : received[d] <= received[d]
    BY DEF TypeOK
  <2> QED
    BY <1>4, <2>1, <2>2 DEF Fetch, ClientInv, TypeOK, world
<1>5. CASE ProcessDies
  BY <1>5 DEF ProcessDies, ClientInv, TypeOK, world
<1> QED
  BY <1>1, <1>2, <1>3, <1>4, <1>5
  DEF Next, vars, CycleStep, Environment, Process, Tick, ListChannels,
      FetchFails, FetchDone, Upsert, Dedup, AdvanceCursor, LoadReceived,
      Summarize, SummarizeDone, Bundle, MarkIncluded, SendPart, SendFails,
      SendNothing, MarkOutcome, MarkDone, Record, Finish, Crash, Shutdown,
      Exit, Boot, SetChat, world

\* What the client has handed out stays covered or in the slice, and what it
\* takes for handed out after a restart was stored or is given up.
LEMMA NextTaken ==
  ASSUME TypeOK, FetchedInv, TakenCovers, CursorCovers, [Next]_vars
  PROVE  TakenCovers'
<1>0. \A c \in Channel : /\ taken[c] \in 0..MaxMsg /\ cursor[c] \in 0..MaxMsg
                         /\ received[c] \in 0..MaxMsg
                         /\ confirmed[c] \in 0..MaxMsg
  BY DEF TypeOK
<1>1. CASE UNCHANGED <<pc, at, fetched, cursor, taken>>
  <2>1. ASSUME NEW c \in Channel, NEW m \in 1..taken[c]
        PROVE  \/ Covered(c, m)'
               \/ /\ pc \in {"ingest", "dedup"}
                  /\ \E i \in at..Len(fetched) : fetched[i] = <<c, m>>
    <3>1. m \in 1..MaxMsg
      BY <1>0
    <3> QED
      BY <3>1, CoveredStays DEF TakenCovers
  <2> QED
    BY <1>1, <2>1 DEF TakenCovers
<1>2. ASSUME UNCHANGED taken, pc \notin {"ingest", "dedup"} PROVE TakenCovers'
  BY <1>0, <1>2, CoveredStays DEF TakenCovers
<1>3. ASSUME NEW c \in Channel, Fetch(c) PROVE TakenCovers'
  <2>1. CASE UNCHANGED <<pc, at, fetched, cursor, taken>>
    BY <1>1, <2>1
  <2>2. CASE ~UNCHANGED <<pc, at, fetched, cursor, taken>>
    <3>1. /\ received[c] > Handled(c)
          /\ fetched' = [i \in 1..(received[c] - Handled(c))
                           |-> <<c, Handled(c) + i>>]
          /\ at' = 1 /\ pc = "fetch" /\ pc' = "ingest"
          /\ taken' = [taken EXCEPT ![c] = received[c]]
      BY <1>3, <2>2, FetchTakes
    <3>2. ASSUME NEW d \in Channel, NEW m \in 1..taken'[d]
          PROVE  \/ Covered(d, m)'
                 \/ \E i \in at'..Len(fetched') : fetched'[i] = <<d, m>>
      <4>1. CASE m \in 1..taken[d]
        BY <1>0, <3>1, <4>1, CoveredStays DEF TakenCovers
      <4>2. CASE m \notin 1..taken[d]
        <5>1. d = c /\ m \in 1..received[c] /\ m \in 1..MaxMsg /\ m > taken[c]
          BY <1>0, <3>1, <3>2, <4>2 DEF TypeOK
        <5>2. CASE m <= cursor[c]
          BY <1>0, <5>1, <5>2, CoveredStays DEF CursorCovers
        <5>3. CASE ~(m <= cursor[c])
          <6>1. m > Handled(c)
            BY <1>0, <5>1, <5>3 DEF Handled
          <6>2. \E i \in 1..Len(fetched') : fetched'[i] = <<c, m>>
            BY <3>1, <5>1, <6>1, FetchedAll
          <6> QED
            BY <3>1, <5>1, <6>2
        <5> QED
          BY <5>2, <5>3
      <4> QED
        BY <4>1, <4>2
    <3> QED
      BY <3>1, <3>2 DEF TakenCovers
  <2> QED
    BY <2>1, <2>2
<1>4. ASSUME Upsert \/ Dedup PROVE TakenCovers'
  <2>1. at \in Nat /\ Len(fetched) \in Nat
    BY LenProperties DEF TypeOK
  <2> SUFFICES ASSUME NEW c \in Channel, NEW m \in 1..taken'[c],
                      ~Covered(c, m)'
               PROVE  /\ pc' \in {"ingest", "dedup"}
                      /\ \E i \in at'..Len(fetched') : fetched'[i] = <<c, m>>
    BY DEF TakenCovers
  <2>2. m \in 1..taken[c] /\ m \in 1..MaxMsg /\ ~Covered(c, m)
    BY <1>0, <1>4, LoopMoves, CoveredStays
  <2>3. PICK i \in at..Len(fetched) : fetched[i] = <<c, m>>
    BY <2>2 DEF TakenCovers
  <2>4. CASE i = at
    <3>1. pc' = "dedup" \/ Covered(c, m)'
      BY <1>4, <2>3, <2>4, LoopMoves DEF Covered
    <3>2. pc' = "dedup" => Covered(c, m)'
      BY <1>4, <2>3, <2>4, LoopMoves DEF Covered
    <3> QED
      BY <3>1, <3>2
  <2>5. CASE i > at
    <3>1. i \in at'..Len(fetched') /\ pc' \in {"ingest", "dedup"}
      BY <1>4, <2>1, <2>5, LoopMoves
    <3> QED
      BY <1>4, <2>3, <3>1, LoopMoves
  <2> QED
    BY <2>1, <2>4, <2>5
<1>5. CASE AdvanceCursor
  BY <1>2, <1>5 DEF AdvanceCursor, client
<1>6. CASE ProcessDies
  <2> SUFFICES ASSUME NEW c \in Channel, NEW m \in 1..taken'[c]
               PROVE  Covered(c, m)'
    BY DEF TakenCovers
  <2>1. <<c, m>> \in Post /\ m <= confirmed[c]
    BY <1>0, <1>6 DEF ProcessDies, Post
  <2> QED
    BY <1>6, <2>1 DEF ProcessDies, Forgotten, Covered, posts
<1> QED
  BY <1>1, <1>2, <1>3, <1>4, <1>5, <1>6, IngestFrame

\* AdvanceCursor moves the cursor to the end of the slice, all of which the loop
\* has passed, and the rest of what the client handed out is covered.
LEMMA NextCursor ==
  ASSUME TypeOK, FetchedInv, TakenCovers, CursorCovers, [Next]_vars
  PROVE  CursorCovers'
<1>1. UNCHANGED cursor \/ AdvanceCursor
  BY DEF Next, vars, CycleStep, Environment, Process, Tick, ListChannels,
         Fetch, FetchFails, FetchDone, Upsert, Dedup, LoadReceived, Summarize,
         SummarizeDone, Bundle, MarkIncluded, SendPart, SendFails,
         SendNothing, MarkOutcome, MarkDone, Record, Finish, Crash, Shutdown,
         Exit, Boot, ProcessDies, Publish, SetChat, Poll, chans
<1>2. \A c \in Channel : cursor[c] \in 0..MaxMsg /\ taken[c] \in 0..MaxMsg
  BY DEF TypeOK
<1>3. CASE UNCHANGED cursor
  BY <1>2, <1>3, CoveredStays DEF CursorCovers
<1>4. CASE AdvanceCursor
  <2> DEFINE n == Len(fetched)
  <2>1. n \in Nat /\ n > 0 /\ pc = "advance"
    BY <1>4, LenProperties DEF AdvanceCursor, FetchedInv, TypeOK
  <2>2. PICK c \in Channel : fetched[n] = <<c, taken[c] - n + n>>
    BY <2>1 DEF FetchedInv
  <2>3. fetched[n] = <<c, taken[c]>>
    BY <1>2, <2>1, <2>2
  <2>4. UNCHANGED cursor \/ cursor' = [cursor EXCEPT ![c] = taken[c]]
    BY <1>4, <2>3 DEF AdvanceCursor
  <2>5. CASE cursor' = [cursor EXCEPT ![c] = taken[c]]
    <3>1. \A d \in Channel :
            cursor'[d] = IF d = c THEN taken[c] ELSE cursor[d]
      BY <2>5 DEF TypeOK
    <3>2. \A d \in Channel : \A m \in 1..cursor'[d] : Covered(d, m)
      BY <2>1, <3>1 DEF TakenCovers, CursorCovers
    <3> QED
      BY <1>2, <3>1, <3>2, CoveredStays DEF CursorCovers
  <2> QED
    BY <1>3, <2>4, <2>5
<1> QED
  BY <1>1, <1>3, <1>4

\* What is said of ingesting: it is inductive relative to TypeOK.
Ingested == FetchedInv /\ ClientInv /\ TakenCovers /\ CursorCovers

\* The first boot satisfies it.
LEMMA InitIngest == Init => Ingested
BY DEF Init, Ingested, FetchedInv, ClientInv, TakenCovers, CursorCovers

\* Every step keeps it.
LEMMA NextIngest == ASSUME TypeOK, Ingested, [Next]_vars PROVE Ingested'
BY NextFetched, NextClient, NextTaken, NextCursor DEF Ingested

\* Every variable stays within its type (the status columns of the store's
\* tables among them), whatever fails and however often the process dies.
THEOREM TypeCorrect == Spec => []TypeOK
<1>1. TypeOK /\ FetchedInv /\ [Next]_vars => TypeOK' /\ FetchedInv'
  BY NextType, NextFetched
<1>2. Init => TypeOK /\ FetchedInv
  BY InitType, InitIngest DEF Ingested
<1> QED
  BY <1>1, <1>2, PTL DEF Spec

\* AdvanceCursor passes no message without a row, but for those the store
\* refused and those a crash, an exit or a cancelled context took from memory
\* after Telegram had forgotten them: a restart in any place of the ingest loop
\* costs what was in the process alone, and nothing else.
THEOREM CursorIsCovered == Spec => []CursorCovers
<1>1. Init => TypeOK /\ Ingested
  BY InitType, InitIngest
<1>2. TypeOK /\ Ingested /\ [Next]_vars => TypeOK' /\ Ingested'
  BY NextType, NextIngest DEF Ingested
<1>3. Ingested => CursorCovers
  BY DEF Ingested
<1> QED
  BY <1>1, <1>2, <1>3, PTL DEF Spec

----------------------------------------------------------------------------
(***************************************************************************)
(* How often the subscriber receives a post, and what the store says of it *)
(* (steps 3 to 10 of the cycle).                                           *)
(***************************************************************************)

\* The part of QueueInv about bundles, copies and shutdowns; it is inductive
\* relative to TypeOK and FetchedInv.
Delivery == BundleInv /\ DeliveryInv /\ ShutdownInv /\ CopiesPaidByFaults

(***************************************************************************)
(* Steps that touch neither the rows nor what the subscriber holds.        *)
(***************************************************************************)

\* Outside the send and mark loops the copies are judged by the rows alone.
LEMMA QuietStep ==
  ASSUME TypeOK, Delivery,
         UNCHANGED <<status, deliveries>>,
         pc \notin {"send", "mark"},
         pc' \notin {"include", "send", "mark"},
         faults' \in Nat, faults' >= faults,
         ctx' = "cancelled" => ctx = "cancelled"
  PROVE  Delivery'
<1>1. BundleInv' /\ DeliveryInv'
  BY DEF Delivery, BundleInv, DeliveryInv
<1>2. \A p \in Post : deliveries[p] \in Nat
  BY DEF TypeOK
<1>3. faults \in Nat
  BY DEF TypeOK
<1>4. ShutdownInv'
  BY <1>2, <1>3 DEF Delivery, ShutdownInv
<1>5. \A p \in Post : InHand(p)' <=> InHand(p)
  BY DEF InHand
<1>6. CopiesPaidByFaults'
  BY <1>2, <1>3, <1>5 DEF Delivery, CopiesPaidByFaults
<1> QED
  BY <1>1, <1>4, <1>6 DEF Delivery

\* A step that only moves the world, the channels or the bookkeeping.
LEMMA IdleStep ==
  ASSUME TypeOK, Delivery,
         UNCHANGED <<status, deliveries, pc, bundle, rest, work, recipient,
                     sendStatus, ctx, faults>>
  PROVE  Delivery'
<1>1. \A p \in Post : InHand(p)' <=> InHand(p)
  BY DEF InHand
<1>2. BundleInv' /\ DeliveryInv' /\ ShutdownInv'
  BY DEF Delivery, BundleInv, DeliveryInv, ShutdownInv, Having
<1>3. CopiesPaidByFaults'
  BY <1>1 DEF Delivery, CopiesPaidByFaults
<1> QED
  BY <1>2, <1>3 DEF Delivery

\* A post that is bundled, or waits for its outcome, is not yet sent.
LEMMA NotInHand ==
  ASSUME TypeOK, Delivery, pc \in {"include", "send"}
  PROVE  \A p \in rest :
           /\ p \in Post /\ status[p] \in Unsent
           /\ ~InHand(p) /\ deliveries[p] <= faults
<1>1. \A p \in rest : p \in Post /\ status[p] \in Unsent /\ p \in bundle
  BY DEF Delivery, BundleInv, Having, TypeOK
<1>2. \A p \in rest : ~InHand(p)
  BY <1>1 DEF InHand, Unsent
<1>3. \A p \in rest : deliveries[p] <= faults + 0
  BY <1>1, <1>2 DEF Delivery, CopiesPaidByFaults
<1> QED
  BY <1>1, <1>2, <1>3 DEF TypeOK

(***************************************************************************)
(* The steps of the process and of the ingest loop.                        *)
(***************************************************************************)

\* A crash or a shutdown pays for the copies in hand; at the exit of a
\* cancelled process they were paid for by its shutdown.
LEMMA ProcessDelivery ==
  ASSUME TypeOK, Delivery, Process PROVE Delivery'
<1> USE DEF Fault, StoreOK, StoreFails, Goto, world, posts, digest
<1>0. faults \in Nat /\ \A p \in Post : deliveries[p] \in Nat
  BY DEF TypeOK
<1>1. CASE Tick
  BY <1>0, <1>1, QuietStep DEF Tick
<1>2. CASE Boot
  BY <1>0, <1>2, QuietStep DEF Boot
<1>3. ASSUME ProcessDies, faults' \in Nat,
             \A p \in Post : deliveries[p] <= faults' + (IF status[p] = "sent" THEN 1 ELSE 0)
      PROVE  Delivery'
  <2>1. /\ pc' = "down" /\ ctx' = "live" /\ UNCHANGED <<status, deliveries>>
    BY <1>3 DEF ProcessDies
  <2>2. BundleInv' /\ DeliveryInv' /\ ShutdownInv'
    BY <2>1 DEF Delivery, BundleInv, DeliveryInv, ShutdownInv
  <2>3. \A p \in Post : InHand(p)' <=> status[p] = "sent"
    BY <2>1 DEF InHand
  <2>4. CopiesPaidByFaults'
    BY <1>3, <2>1, <2>3 DEF CopiesPaidByFaults
  <2> QED
    BY <2>2, <2>4 DEF Delivery
<1>4. CASE Crash
  <2>1. faults' = faults + 1 /\ ProcessDies
    BY <1>4 DEF Crash
  <2>2. \A p \in Post : deliveries[p] <= faults'
    BY <1>0, <2>1 DEF Delivery, CopiesPaidByFaults
  <2> QED
    BY <1>0, <1>3, <2>1, <2>2
<1>5. CASE Exit
  <2>1. faults' = faults /\ ProcessDies /\ ctx = "cancelled"
    BY <1>5 DEF Exit
  <2>2. \A p \in Post : deliveries[p] <= faults'
    BY <2>1 DEF Delivery, ShutdownInv
  <2> QED
    BY <1>0, <1>3, <2>1, <2>2
<1>6. CASE Shutdown
  <2>1. /\ UNCHANGED <<status, deliveries, pc, bundle, rest, work, recipient,
                       sendStatus>>
        /\ ctx' = "cancelled" /\ faults' = faults + 1
    BY <1>6 DEF Shutdown
  <2>2. BundleInv' /\ DeliveryInv'
    BY <2>1 DEF Delivery, BundleInv, DeliveryInv, Having
  <2>3. \A p \in Post : deliveries[p] <= faults'
    BY <1>0, <2>1 DEF Delivery, CopiesPaidByFaults
  <2>4. ShutdownInv'
    <3>1. pc \in {"include", "send"} => \A p \in rest : deliveries[p] < faults'
      BY <1>0, <2>1, NotInHand
    <3> QED
      BY <2>1, <2>3, <3>1 DEF ShutdownInv
  <2>5. CopiesPaidByFaults'
    BY <1>0, <2>1, <2>3 DEF CopiesPaidByFaults
  <2> QED
    BY <2>2, <2>4, <2>5 DEF Delivery
<1>7. CASE Poll
  BY <1>7, IdleStep DEF Poll
<1> QED
  BY <1>1, <1>2, <1>4, <1>5, <1>6, <1>7 DEF Process

\* Ingest and summarize change only rows the subscriber has not seen.
LEMMA FreshStep ==
  ASSUME TypeOK, Delivery, NEW p \in Post,
         NEW s \in {"received", "summarized", "filtered_out"},
         status[p] \in {"none", "received"},
         status' = [status EXCEPT ![p] = s],
         UNCHANGED <<deliveries, ctx>>,
         pc \notin {"include", "send", "mark"},
         pc' \notin {"include", "send", "mark"},
         faults' \in Nat, faults' >= faults
  PROVE  Delivery'
<1>1. deliveries[p] = 0
  <2>1. deliveries[p] > 0 => status[p] \in Unsent \cup {"sent"}
    BY DEF Delivery, DeliveryInv
  <2>2. deliveries[p] \in Nat
    BY DEF TypeOK
  <2> QED
    BY <2>1, <2>2 DEF Unsent
<1>2. \A q \in Post : status'[q] = IF q = p THEN s ELSE status[q]
  BY DEF TypeOK
<1>3. BundleInv' /\ DeliveryInv'
  BY <1>1, <1>2 DEF Delivery, BundleInv, DeliveryInv
<1>4. faults \in Nat /\ \A q \in Post : deliveries[q] \in Nat
  BY DEF TypeOK
<1>5. ShutdownInv'
  BY <1>4 DEF Delivery, ShutdownInv
<1>6. \A q \in Post \ {p} : InHand(q)' <=> InHand(q)
  BY <1>2 DEF InHand
<1>7. CopiesPaidByFaults'
  BY <1>1, <1>4, <1>6 DEF Delivery, CopiesPaidByFaults
<1> QED
  BY <1>3, <1>5, <1>7 DEF Delivery

\* What the first half of a cycle does to the rows: nothing, or one post that
\* was absent or received moves on.
LEMMA IngestRows ==
  ASSUME TypeOK, FetchedInv,
         \/ ListChannels \/ FetchDone \/ Upsert \/ Dedup \/ AdvanceCursor
         \/ LoadReceived \/ SummarizeDone
         \/ \E c \in Channel : Fetch(c) \/ FetchFails(c)
         \/ \E p \in Post : Summarize(p)
  PROVE  /\ UNCHANGED <<deliveries, ctx>>
         /\ pc \notin {"include", "send", "mark"}
         /\ pc' \notin {"include", "send", "mark"}
         /\ faults' \in Nat /\ faults' >= faults
         /\ \/ UNCHANGED status
            \/ \E p \in Post :
                 \/ /\ status[p] = "none"
                    /\ status' = [status EXCEPT ![p] = "received"]
                 \/ /\ status[p] = "received"
                    /\ \E s \in {"summarized", "filtered_out"} :
                         status' = [status EXCEPT ![p] = s]
<1> USE DEF Goto, FinishWith, Fault, StoreOK, StoreFails, world, client, posts,
            chans, records, ingest, digest, history
<1>1. faults \in Nat
  BY DEF TypeOK
<1>2. CASE \/ ListChannels \/ FetchDone \/ AdvanceCursor \/ LoadReceived
           \/ SummarizeDone
  BY <1>1, <1>2 DEF ListChannels, FetchDone, AdvanceCursor, LoadReceived,
                    SummarizeDone
<1>3. ASSUME NEW c \in Channel, Fetch(c) \/ FetchFails(c)
      PROVE  /\ UNCHANGED <<deliveries, ctx, status>>
             /\ pc = "fetch" /\ pc' \in {"fetch", "ingest"}
             /\ faults' \in Nat /\ faults' >= faults
  BY <1>1, <1>3 DEF Fetch, FetchFails
<1>4. CASE Upsert
  <2>1. fetched[at] \in Post
    BY <1>4, CurrentPost DEF Upsert
  <2>2. \/ UNCHANGED status
        \/ /\ status[fetched[at]] = "none"
           /\ status' = [status EXCEPT ![fetched[at]] = "received"]
    BY <1>4, Zenon DEF Upsert
  <2>3. /\ UNCHANGED <<deliveries, ctx>> /\ pc = "ingest"
        /\ pc' \in {"ingest", "dedup", "advance"}
        /\ faults' \in Nat /\ faults' >= faults
    BY <1>1, <1>4 DEF Upsert, NextPost
  <2> QED
    BY <2>1, <2>2, <2>3
<1>5. CASE Dedup
  <2>1. fetched[at] \in Post
    BY <1>5, CurrentPost DEF Dedup
  <2>2. \/ UNCHANGED status
        \/ /\ status[fetched[at]] = "received"
           /\ status' = [status EXCEPT ![fetched[at]] = "filtered_out"]
    BY <1>5, Zenon DEF Dedup
  <2>3. /\ UNCHANGED <<deliveries, ctx>> /\ pc = "dedup"
        /\ pc' \in {"ingest", "advance"}
        /\ faults' \in Nat /\ faults' >= faults
    BY <1>1, <1>5 DEF Dedup, NextPost
  <2> QED
    BY <2>1, <2>2, <2>3
<1>6. ASSUME NEW p \in Post, Summarize(p)
      PROVE  /\ UNCHANGED <<deliveries, ctx, pc>> /\ pc = "summarize"
             /\ faults' \in Nat /\ faults' >= faults
             /\ \/ UNCHANGED status
                \/ /\ status[p] = "received"
                   /\ \E s \in {"summarized", "filtered_out"} :
                        status' = [status EXCEPT ![p] = s]
  <2>1. /\ UNCHANGED <<deliveries, ctx, pc>> /\ pc = "summarize"
        /\ faults' \in Nat /\ faults' >= faults
    BY <1>1, <1>6 DEF Summarize
  <2>2. \/ UNCHANGED status
        \/ /\ status[p] = "received"
           /\ \/ status' = [status EXCEPT ![p] = "summarized"]
              \/ status' = [status EXCEPT ![p] = "filtered_out"]
    <3>1. UNCHANGED status \/ \E answer \in Answers(p) : Store(p, answer)
      BY <1>6, Zenon DEF Summarize
    <3> QED
      BY <3>1, Zenon DEF Store, MarkFiltered, MarkSummarized
  <2> QED
    BY <2>1, <2>2
<1> QED
  BY <1>2, <1>3, <1>4, <1>5, <1>6

\* The first half of a cycle delivers nothing and touches no row of a post
\* that was delivered.
LEMMA IngestDelivery ==
  ASSUME TypeOK, FetchedInv, Delivery,
         \/ ListChannels \/ FetchDone \/ Upsert \/ Dedup \/ AdvanceCursor
         \/ LoadReceived \/ SummarizeDone
         \/ \E c \in Channel : Fetch(c) \/ FetchFails(c)
         \/ \E p \in Post : Summarize(p)
  PROVE  Delivery'
<1>1. CASE UNCHANGED status
  BY <1>1, IngestRows, QuietStep
<1>2. ASSUME NEW p \in Post, NEW s \in {"received", "summarized", "filtered_out"},
             status[p] \in {"none", "received"},
             status' = [status EXCEPT ![p] = s]
      PROVE  Delivery'
  <2>1. /\ UNCHANGED <<deliveries, ctx>>
        /\ pc \notin {"include", "send", "mark"}
        /\ pc' \notin {"include", "send", "mark"}
        /\ faults' \in Nat /\ faults' >= faults
    BY IngestRows
  <2> QED
    BY <1>2, <2>1, FreshStep
<1> QED
  BY <1>1, <1>2, IngestRows

(***************************************************************************)
(* The send loop and the outcomes.                                         *)
(***************************************************************************)

\* Bundle takes only posts that await delivery.
LEMMA BundleDelivery ==
  ASSUME TypeOK, Delivery, Bundle PROVE Delivery'
<1> USE DEF Goto, FinishWith, Fault, StoreOK, StoreFails, world, posts, digest
<1>0. faults \in Nat /\ \A p \in Post : deliveries[p] \in Nat
  BY DEF TypeOK
<1> DEFINE unsent == Oldest(Having(Unsent))
<1>1. unsent \subseteq Having(Unsent)
  BY OldestHaving
<1> HIDE DEF unsent
<1>2. /\ UNCHANGED <<status, deliveries, ctx>> /\ pc = "bundle"
      /\ faults' \in Nat /\ faults' >= faults
      /\ \/ pc' = "finish"
         \/ /\ pc' = "include" /\ ctx = "live" /\ UNCHANGED faults
            /\ bundle' = {p \in unsent : summary[p] # "none"}
            /\ rest' = bundle'
  <2>1. \/ pc' = "finish"
        \/ /\ pc' = "include" /\ ctx = "live" /\ UNCHANGED faults
           /\ bundle' = {p \in unsent : summary[p] # "none"}
           /\ rest' = bundle'
    BY Zenon DEF Bundle, unsent
  <2>2. UNCHANGED <<status, deliveries, ctx>> /\ pc = "bundle"
    BY DEF Bundle
  <2>3. faults' \in Nat /\ faults' >= faults
    BY <1>0 DEF Bundle
  <2> QED
    BY <2>1, <2>2, <2>3
<1>3. CASE pc' = "finish"
  BY <1>2, <1>3, QuietStep
<1>4. CASE pc' = "include"
  <2>1. /\ bundle' \subseteq Having(Unsent)' /\ rest' = bundle'
        /\ ctx' = "live" /\ faults' = faults
    BY <1>1, <1>2, <1>4 DEF Having
  <2>2. BundleInv' /\ DeliveryInv' /\ ShutdownInv'
    BY <1>2, <1>4, <2>1 DEF Delivery, BundleInv, DeliveryInv, ShutdownInv
  <2>3. \A p \in Post : InHand(p)' <=> InHand(p)
    BY <1>2, <1>4 DEF InHand
  <2>4. CopiesPaidByFaults'
    BY <1>2, <2>1, <2>3 DEF Delivery, CopiesPaidByFaults
  <2> QED
    BY <2>2, <2>4 DEF Delivery
<1> QED
  BY <1>2, <1>3, <1>4

\* MarkIncluded overwrites only rows that await delivery.
LEMMA IncludeDelivery ==
  ASSUME TypeOK, Delivery, MarkIncluded PROVE Delivery'
<1> USE DEF Goto, Fault, StoreOK, StoreFails, world, digest
<1>0. faults \in Nat /\ \A p \in Post : deliveries[p] \in Nat
  BY DEF TypeOK
<1>1. /\ pc = "include" /\ pc' = "send" /\ rest = bundle
      /\ bundle \subseteq Having(Unsent)
      /\ UNCHANGED <<deliveries, ctx, bundle, rest, recipient, sendStatus>>
      /\ faults' \in Nat /\ faults' >= faults
  BY <1>0 DEF MarkIncluded, Delivery, BundleInv
<1>2. \A p \in Post : \/ status'[p] = status[p]
                      \/ /\ status[p] \in Unsent
                         /\ status'[p] = "included_in_digest"
  BY <1>1 DEF MarkIncluded, Having
<1>3. \A p \in Post : /\ status[p] \in Unsent <=> status'[p] \in Unsent
                      /\ status[p] = "sent" <=> status'[p] = "sent"
  BY <1>2 DEF Unsent
<1>4. BundleInv'
  <2>1. Having(Unsent)' = Having(Unsent)
    BY <1>3 DEF Having, Unsent
  <2> QED
    BY <1>1, <2>1 DEF BundleInv
<1>5. DeliveryInv'
  <2>1. Unsent' = Unsent
    BY DEF Unsent
  <2> QED
    BY <1>1, <1>3, <2>1 DEF Delivery, DeliveryInv
<1>6. ShutdownInv'
  BY <1>0, <1>1 DEF Delivery, ShutdownInv, BundleInv, TypeOK
<1>7. \A p \in Post : InHand(p)' <=> InHand(p)
  BY <1>1, <1>3 DEF InHand
<1>8. CopiesPaidByFaults'
  BY <1>0, <1>1, <1>7 DEF Delivery, CopiesPaidByFaults
<1> QED
  BY <1>4, <1>5, <1>6, <1>8 DEF Delivery

\* One accepted message moves its posts from rest to the subscriber: they are
\* in hand from here on, and no other post loses that.
LEMMA SendPartDelivery ==
  ASSUME TypeOK, Delivery, SendPart PROVE Delivery'
<1>0. faults \in Nat /\ \A p \in Post : deliveries[p] \in Nat
  BY DEF TypeOK
<1>1. /\ pc = "send" /\ rest \subseteq bundle /\ recipient
      /\ UNCHANGED <<status, ctx, faults, bundle, recipient>>
  BY DEF SendPart, Delivery, BundleInv, posts
<1>2. PICK part \in (SUBSET rest) \ {{}} :
        /\ Deliver(part)
        /\ IF part = rest THEN SendOver("ok")
           ELSE rest' = rest \ part /\ UNCHANGED <<sendStatus, work, pc>>
  BY DEF SendPart
<1>3. \/ pc' = "send" /\ rest' = rest \ part /\ rest' # {}
      \/ pc' = "mark" /\ sendStatus' = "ok" /\ work' = bundle /\ part = rest
  BY <1>1, <1>2 DEF SendOver, Goto
<1>4. part \subseteq rest
  BY <1>2
<1>5. \A p \in Post : deliveries'[p] = IF p \in part THEN deliveries[p] + 1
                                                     ELSE deliveries[p]
  BY <1>2 DEF Deliver
<1>6. \A p \in rest : /\ p \in Post /\ status[p] \in Unsent
                      /\ ~InHand(p) /\ deliveries[p] <= faults
  BY <1>1, NotInHand
<1>7. Having(Unsent)' = Having(Unsent) /\ bundle \subseteq Having(Unsent)
  BY <1>1 DEF Having, Unsent, Delivery, BundleInv
<1>8. BundleInv'
  BY <1>1, <1>3, <1>4, <1>7, Zenon DEF BundleInv
<1>9. DeliveryInv'
  <2>1. \A p \in Post : /\ deliveries'[p] > 0 => deliveries[p] > 0 \/ p \in part
                        /\ deliveries[p] > 0 \/ p \in part => deliveries'[p] > 0
    BY <1>0, <1>5
  <2>2. \A p \in bundle : p \in Post /\ (p \in rest \/ deliveries[p] > 0)
    BY <1>1 DEF Delivery, DeliveryInv, TypeOK
  <2>3. \A p \in Post : deliveries'[p] > 0 => status'[p] \in Unsent \cup {"sent"}
    BY <1>1, <1>4, <1>6, <2>1 DEF Delivery, DeliveryInv
  <2>4. \A p \in Post : status'[p] = "sent" => deliveries'[p] > 0
    BY <1>1, <2>1 DEF Delivery, DeliveryInv
  <2>5. pc' = "send" => \A p \in bundle' \ rest' : deliveries'[p] > 0
    BY <1>1, <1>3, <2>1, <2>2
  <2>6. pc' = "mark" => \A p \in work' : deliveries'[p] > 0
    BY <1>1, <1>3, <2>1, <2>2
  <2>7. Unsent' = Unsent
    BY DEF Unsent
  <2> QED
    BY <2>3, <2>4, <2>5, <2>6, <2>7 DEF DeliveryInv
<1>10. ShutdownInv'
  <2> SUFFICES ASSUME ctx' = "cancelled"
               PROVE  /\ \A p \in Post : deliveries'[p] <= faults'
                      /\ pc' \in {"include", "send"} =>
                           \A p \in rest' : deliveries'[p] < faults'
    BY DEF ShutdownInv
  <2>1. /\ \A p \in Post : deliveries[p] <= faults
        /\ \A p \in rest : deliveries[p] < faults
    BY <1>1 DEF Delivery, ShutdownInv
  <2>2. \A p \in Post : deliveries'[p] <= faults'
    BY <1>0, <1>1, <1>4, <1>5, <2>1
  <2>3. pc' = "send" => \A p \in rest' : p \in Post /\ p \in rest /\ p \notin part
    BY <1>3, <1>6
  <2> QED
    BY <1>1, <1>3, <1>5, <2>1, <2>2, <2>3
<1>11. CopiesPaidByFaults'
  <2> SUFFICES ASSUME NEW p \in Post
               PROVE  deliveries'[p] <= faults' + (IF InHand(p)' THEN 1 ELSE 0)
    BY DEF CopiesPaidByFaults
  <2>1. p \in part => InHand(p)'
    BY <1>1, <1>3, <1>4 DEF InHand
  <2>2. InHand(p) => InHand(p)'
    BY <1>1, <1>3, <1>4 DEF InHand
  <2>3. deliveries[p] <= faults + (IF InHand(p) THEN 1 ELSE 0)
    BY DEF Delivery, CopiesPaidByFaults
  <2>4. CASE p \in part
    <3>1. deliveries'[p] = deliveries[p] + 1 /\ deliveries[p] <= faults
      BY <1>4, <1>5, <1>6, <2>4
    <3> QED
      BY <1>0, <1>1, <2>1, <2>4, <3>1
  <2>5. CASE p \notin part
    BY <1>0, <1>1, <1>5, <2>2, <2>3, <2>5
  <2> QED
    BY <2>4, <2>5
<1> QED
  BY <1>8, <1>9, <1>10, <1>11 DEF Delivery

\* A failing send ends the loop: what was in hand is in hand no more, and the
\* fault, or the shutdown before it, pays for it.
LEMMA SendFailsDelivery ==
  ASSUME TypeOK, Delivery, SendFails PROVE Delivery'
<1>0. faults \in Nat /\ \A p \in Post : deliveries[p] \in Nat
  BY DEF TypeOK
<1>1. /\ pc = "send" /\ rest \subseteq bundle
      /\ UNCHANGED <<status, ctx, bundle>>
      /\ pc' = "mark" /\ sendStatus' = "failed" /\ work' = bundle
      /\ IF ctx = "live" THEN faults' = faults + 1 ELSE faults' = faults
  BY DEF SendFails, SendOver, Goto, Fault, Delivery, BundleInv, posts
<1>2. PICK part \in SUBSET rest : Deliver(part)
  BY DEF SendFails
<1>3. \A p \in Post : deliveries'[p] = IF p \in part THEN deliveries[p] + 1
                                                     ELSE deliveries[p]
  BY <1>2 DEF Deliver
<1>4. \A p \in rest : /\ p \in Post /\ status[p] \in Unsent
                      /\ ~InHand(p) /\ deliveries[p] <= faults
  BY <1>1, NotInHand
<1>5. BundleInv'
  BY <1>1 DEF BundleInv, Having, Unsent, Delivery
<1>6. DeliveryInv'
  <2>1. \A p \in Post : /\ deliveries'[p] > 0 => deliveries[p] > 0 \/ p \in part
                        /\ deliveries[p] > 0 => deliveries'[p] > 0
    BY <1>0, <1>3
  <2>2. \A p \in Post : deliveries'[p] > 0 => status'[p] \in Unsent \cup {"sent"}
    BY <1>1, <1>2, <1>4, <2>1 DEF Delivery, DeliveryInv
  <2>3. \A p \in Post : status'[p] = "sent" => deliveries'[p] > 0
    BY <1>1, <2>1 DEF Delivery, DeliveryInv
  <2>4. Unsent' = Unsent
    BY DEF Unsent
  <2> QED
    BY <1>1, <2>2, <2>3, <2>4 DEF DeliveryInv
<1>7. \A p \in Post : deliveries'[p] <= faults'
  <2> SUFFICES ASSUME NEW p \in Post PROVE deliveries'[p] <= faults'
    OBVIOUS
  <2>1. CASE ctx = "live"
    <3>1. deliveries[p] <= faults + 1
      BY <1>0 DEF Delivery, CopiesPaidByFaults
    <3> QED
      BY <1>0, <1>1, <1>2, <1>3, <1>4, <2>1, <3>1
  <2>2. CASE ctx # "live"
    <3>1. /\ deliveries[p] <= faults
          /\ p \in rest => deliveries[p] < faults
      BY <1>1, <2>2 DEF Delivery, ShutdownInv, TypeOK
    <3> QED
      BY <1>0, <1>1, <1>2, <1>3, <2>2, <3>1
  <2> QED
    BY <2>1, <2>2
<1>8. ShutdownInv' /\ CopiesPaidByFaults'
  <2>1. faults' \in Nat /\ \A p \in Post : deliveries'[p] \in Nat
    BY <1>0, <1>1, <1>3
  <2> QED
    BY <1>1, <1>7, <2>1 DEF ShutdownInv, CopiesPaidByFaults
<1> QED
  BY <1>5, <1>6, <1>8 DEF Delivery

\* Without a recipient nothing was sent in this cycle; without a message the
\* whole bundle was.
LEMMA SendNothingDelivery ==
  ASSUME TypeOK, Delivery, SendNothing PROVE Delivery'
<1>0. faults \in Nat /\ \A p \in Post : deliveries[p] \in Nat
  BY DEF TypeOK
<1>1. /\ pc = "send" /\ rest \subseteq bundle
      /\ rest = {} \/ rest = bundle
      /\ UNCHANGED <<status, deliveries, ctx, bundle, faults>>
      /\ pc' = "mark" /\ work' = bundle
      /\ sendStatus' = IF rest = {} THEN "ok" ELSE "failed"
  BY DEF SendNothing, SendOver, Goto, Delivery, BundleInv, posts, world
<1>2. BundleInv'
  BY <1>1 DEF BundleInv, Having, Unsent, Delivery
<1>3. DeliveryInv'
  BY <1>1 DEF Delivery, DeliveryInv, Unsent
<1>4. ShutdownInv'
  BY <1>1 DEF Delivery, ShutdownInv
<1>5. \A p \in Post : InHand(p) => InHand(p)'
  BY <1>1 DEF InHand
<1>6. CopiesPaidByFaults'
  BY <1>0, <1>1, <1>5 DEF Delivery, CopiesPaidByFaults
<1> QED
  BY <1>2, <1>3, <1>4, <1>6 DEF Delivery

\* The outcome of one post: a copy in hand becomes a sent row, or the failing
\* store pays for it.
LEMMA OutcomeDelivery ==
  ASSUME TypeOK, Delivery, NEW p \in Post, MarkOutcome(p) PROVE Delivery'
<1>0. faults \in Nat /\ \A q \in Post : deliveries[q] \in Nat
  BY DEF TypeOK
<1>1. /\ pc = "mark" /\ pc' = "mark" /\ p \in work /\ work' = work \ {p}
      /\ work \subseteq Having(Unsent) /\ status[p] \in Unsent
      /\ UNCHANGED <<deliveries, ctx, bundle, rest, sendStatus>>
  BY DEF MarkOutcome, Delivery, BundleInv, Having, world, digest
<1>2. \/ /\ ctx = "live" /\ faults' = faults
         /\ status' = [status EXCEPT ![p] = IF sendStatus = "ok" THEN "sent"
                                            ELSE "send_failed"]
      \/ ctx = "live" /\ faults' = faults + 1 /\ status' = status
      \/ ctx # "live" /\ faults' = faults /\ status' = status
  BY DEF MarkOutcome, StoreOK, StoreFails, Fault
<1>3. \A q \in Post \ {p} : status'[q] = status[q]
  BY <1>2 DEF TypeOK
<1>4. \/ status'[p] = status[p]
      \/ sendStatus = "ok" /\ status'[p] = "sent"
      \/ sendStatus # "ok" /\ status'[p] = "send_failed"
  BY <1>2 DEF TypeOK
<1>5. BundleInv'
  BY <1>1, <1>3 DEF BundleInv, Having, Unsent
<1>6. DeliveryInv'
  <2>1. sendStatus = "ok" => deliveries[p] > 0
    BY <1>1 DEF Delivery, DeliveryInv
  <2>2. status[p] # "sent"
    BY <1>1 DEF Unsent
  <2>3. \A q \in Post : deliveries[q] > 0 => status'[q] \in Unsent \cup {"sent"}
    BY <1>1, <1>3, <1>4 DEF Delivery, DeliveryInv, Unsent
  <2>4. \A q \in Post : status'[q] = "sent" => deliveries[q] > 0
    BY <1>3, <1>4, <2>1, <2>2 DEF Delivery, DeliveryInv
  <2>5. sendStatus = "ok" => \A q \in work' : deliveries[q] > 0
    BY <1>1 DEF Delivery, DeliveryInv
  <2>6. Unsent' = Unsent
    BY DEF Unsent
  <2> QED
    BY <1>1, <2>3, <2>4, <2>5, <2>6 DEF DeliveryInv
<1>7. ShutdownInv'
  BY <1>0, <1>1, <1>2 DEF Delivery, ShutdownInv
<1>8. CopiesPaidByFaults'
  <2>1. \A q \in Post \ {p} : InHand(q) => InHand(q)'
    BY <1>1, <1>3 DEF InHand
  <2>2. \A q \in Post \ {p} :
          deliveries'[q] <= faults' + (IF InHand(q)' THEN 1 ELSE 0)
    BY <1>0, <1>1, <1>2, <2>1 DEF Delivery, CopiesPaidByFaults
  <2>3. deliveries'[p] <= faults' + (IF InHand(p)' THEN 1 ELSE 0)
    <3>1. deliveries[p] <= faults + (IF InHand(p) THEN 1 ELSE 0)
      BY DEF Delivery, CopiesPaidByFaults
    <3>2. sendStatus # "ok" => ~InHand(p)
      BY <1>1 DEF InHand, Unsent
    <3>3. status'[p] = "sent" => InHand(p)'
      BY DEF InHand
    <3>4. CASE ctx = "live" /\ faults' = faults
      <4>1. sendStatus = "ok" => status'[p] = "sent"
        BY <1>2, <3>4, <1>0 DEF TypeOK
      <4> QED
        BY <1>0, <1>1, <3>1, <3>2, <3>3, <3>4, <4>1
    <3>5. CASE faults' = faults + 1
      BY <1>0, <1>1, <3>1, <3>5
    <3>6. CASE ctx # "live" /\ faults' = faults
      <4>1. deliveries[p] <= faults
        BY <3>6 DEF Delivery, ShutdownInv, TypeOK
      <4> QED
        BY <1>0, <1>1, <3>6, <4>1
    <3> QED
      BY <1>2, <3>4, <3>5, <3>6
  <2> QED
    BY <2>2, <2>3 DEF CopiesPaidByFaults
<1> QED
  BY <1>5, <1>6, <1>7, <1>8 DEF Delivery

\* When the mark loop is done, and after it, the rows alone tell what is in
\* hand.
LEMMA ClosingDelivery ==
  ASSUME TypeOK, Delivery, MarkDone \/ Record \/ Finish PROVE Delivery'
<1>0. faults \in Nat
  BY DEF TypeOK
<1>1. CASE Record \/ Finish
  <2>1. /\ UNCHANGED <<status, deliveries, ctx>>
        /\ pc \in {"record", "finish"} /\ pc' \in {"finish", "idle"}
    BY <1>1 DEF Record, Finish, FinishWith, Goto, world, posts
  <2>2. faults' \in Nat /\ faults' >= faults
    BY <1>0, <1>1 DEF Record, Finish, StoreOK, StoreFails, Fault
  <2> QED
    BY <2>1, <2>2, QuietStep
<1>2. CASE MarkDone
  <2>1. /\ pc = "mark" /\ work = {} /\ pc' = "record"
        /\ UNCHANGED <<status, deliveries, ctx, faults>>
    BY <1>2 DEF MarkDone, Goto, world, posts
  <2>2. BundleInv' /\ DeliveryInv' /\ ShutdownInv'
    BY <2>1 DEF Delivery, BundleInv, DeliveryInv, ShutdownInv
  <2>3. \A p \in Post : InHand(p)' <=> InHand(p)
    BY <2>1 DEF InHand
  <2>4. CopiesPaidByFaults'
    BY <2>1, <2>3 DEF Delivery, CopiesPaidByFaults
  <2> QED
    BY <2>2, <2>4 DEF Delivery
<1> QED
  BY <1>1, <1>2

(***************************************************************************)
(* The bound on the copies.                                                *)
(***************************************************************************)

\* The messages and the settings that come from outside touch no row.
LEMMA OutsideDelivery ==
  ASSUME TypeOK, Delivery, Environment PROVE Delivery'
BY IdleStep DEF Environment, Publish, SetChat, Poll, posts, digest

\* Every step preserves Delivery.
LEMMA NextDelivery ==
  ASSUME TypeOK, FetchedInv, Delivery, [Next]_vars PROVE Delivery'
<1>1. CASE UNCHANGED vars
  BY <1>1, IdleStep DEF vars, world, posts, digest
<1>2. CASE Environment \/ Process
  BY <1>2, OutsideDelivery, ProcessDelivery
<1>3. CASE CycleStep
  BY <1>3, IngestDelivery, BundleDelivery, IncludeDelivery, SendPartDelivery,
     SendFailsDelivery, SendNothingDelivery, OutcomeDelivery, ClosingDelivery
  DEF CycleStep
<1> QED
  BY <1>1, <1>2, <1>3 DEF Next

\* On the first boot nothing was delivered.
LEMMA InitDelivery == Init => Delivery
<1> SUFFICES ASSUME Init PROVE Delivery
  OBVIOUS
<1>1. /\ pc = "idle" /\ ctx = "live" /\ faults = 0
      /\ \A p \in Post : deliveries[p] = 0 /\ status[p] = "none"
  BY DEF Init
<1>2. BundleInv /\ DeliveryInv /\ ShutdownInv
  BY <1>1 DEF BundleInv, DeliveryInv, ShutdownInv
<1>3. CopiesPaidByFaults
  BY <1>1 DEF CopiesPaidByFaults
<1> QED
  BY <1>2, <1>3 DEF Delivery

\* The inductive invariant: type correctness and the whole of QueueInv, the
\* state of steps 1 to 10 of Cycle.Run as it is between two of its calls.
THEOREM QueueInvariant == Spec => [](TypeOK /\ QueueInv)
<1> DEFINE IInv == TypeOK /\ Ingested /\ Delivery
<1>1. Init => IInv
  BY InitType, InitIngest, InitDelivery
<1>2. IInv /\ [Next]_vars => IInv'
  BY NextType, NextIngest, NextDelivery DEF Ingested
<1>3. IInv => TypeOK /\ QueueInv
  BY DEF QueueInv, Delivery, Ingested
<1> QED
  BY <1>1, <1>2, <1>3, PTL DEF Spec

\* The subscriber never holds more copies of a post than one per fault and one
\* that the store accounts for (or will, when the running cycle has written
\* its outcomes): the duplicates of steps 6 and 7 are all due to crashes,
\* shutdowns, failed sends and failed statements.
THEOREM CopiesArePaid == Spec => []CopiesPaidByFaults
<1>1. TypeOK /\ QueueInv => CopiesPaidByFaults
  BY DEF QueueInv
<1> QED
  BY <1>1, QueueInvariant, PTL

(***************************************************************************)
(* The cycle implements the at-least-once queue.                           *)
(***************************************************************************)

\* The four states of the queue in terms of posts.status.
LEMMA QueueStates ==
  ASSUME NEW p \in Post, TypeOK
  PROVE  /\ status[p] = "none" => QueueState(p) = "absent"
         /\ status[p] = "sent" => QueueState(p) = "delivered"
         /\ status[p] = "filtered_out" => QueueState(p) = "dropped"
         /\ status[p] \in Unsent \cup {"received"} => QueueState(p) = "waiting"
BY DEF QueueState, Unsent

\* A step that changes neither the copies nor the state of a post in the queue
\* is a stuttering step of the queue.
LEMMA QueueStutters ==
  ASSUME UNCHANGED deliveries, \A p \in Post : QueueState(p)' = QueueState(p)
  PROVE  UNCHANGED Queue!vars
BY DEF Queue!vars

\* A step that changes the row of one post only moves that post in the queue.
LEMMA QueueMoves ==
  ASSUME TypeOK, UNCHANGED deliveries, NEW p \in Post,
         \A q \in Post \ {p} : status'[q] = status[q],
         \/ QueueState(p)' = QueueState(p)
         \/ QueueState(p) = "absent" /\ QueueState(p)' = "waiting"
         \/ /\ QueueState(p) = "waiting" /\ deliveries[p] = 0
            /\ QueueState(p)' = "dropped"
         \/ /\ QueueState(p) = "waiting" /\ deliveries[p] > 0
            /\ QueueState(p)' = "delivered"
  PROVE  [Queue!Next]_(Queue!vars)
<1> DEFINE abs == [q \in Post |-> QueueState(q)]
<1>1. \A q \in Post \ {p} : QueueState(q)' = QueueState(q)
  BY DEF QueueState
<1>2. abs' = [abs EXCEPT ![p] = QueueState(p)'] /\ abs[p] = QueueState(p)
  BY <1>1
<1>3. CASE QueueState(p)' = QueueState(p)
  BY <1>1, <1>3, QueueStutters
<1>4. CASE QueueState(p) = "absent" /\ QueueState(p)' = "waiting"
  BY <1>2, <1>4 DEF Queue!Next, Queue!Accept
<1>5. CASE /\ QueueState(p) = "waiting" /\ deliveries[p] = 0
           /\ QueueState(p)' = "dropped"
  BY <1>2, <1>5 DEF Queue!Next, Queue!Drop
<1>6. CASE /\ QueueState(p) = "waiting" /\ deliveries[p] > 0
           /\ QueueState(p)' = "delivered"
  BY <1>2, <1>6 DEF Queue!Next, Queue!Acknowledge
<1> QED
  BY <1>3, <1>4, <1>5, <1>6

\* SendMessage, accepted or not, delivers only posts that wait.
LEMMA SendMaps ==
  ASSUME TypeOK, Delivery, SendPart \/ SendFails
  PROVE  Queue!Next
<1> DEFINE abs == [q \in Post |-> QueueState(q)]
<1>1. pc = "send" /\ UNCHANGED status
  BY DEF SendPart, SendFails, posts
<1>2. PICK part \in SUBSET rest : Deliver(part)
  BY DEF SendPart, SendFails
<1>3. \A p \in part : p \in Post /\ QueueState(p) = "waiting"
  BY <1>1, <1>2, NotInHand, QueueStates
<1>4. \A p \in part : abs[p] = "waiting"
  BY <1>3
<1>5. \A p \in Post : QueueState(p)' = QueueState(p)
  BY <1>1 DEF QueueState
<1>6. UNCHANGED abs
  BY <1>5
<1>7. part \in SUBSET Post
  BY <1>3
<1> QED
  BY <1>2, <1>4, <1>6, <1>7 DEF Queue!Next, Queue!Deliver, Deliver

\* Every step of the cycle is a step of the queue or a stuttering step.
LEMMA StepMaps ==
  ASSUME TypeOK, FetchedInv, Delivery, [Next]_vars
  PROVE  [Queue!Next]_(Queue!vars)
<1>1. ASSUME UNCHANGED <<status, deliveries>>
      PROVE  [Queue!Next]_(Queue!vars)
  BY <1>1, QueueStutters DEF QueueState
<1>2. ASSUME UNCHANGED deliveries, NEW p \in Post,
             \/ /\ status[p] = "none"
                /\ status' = [status EXCEPT ![p] = "received"]
             \/ /\ status[p] = "received"
                /\ \E s \in {"summarized", "filtered_out"} :
                     status' = [status EXCEPT ![p] = s]
      PROVE  [Queue!Next]_(Queue!vars)
  <2>1. \A q \in Post \ {p} : status'[q] = status[q]
    BY <1>2 DEF TypeOK
  <2>2. \/ status[p] = "none" /\ status'[p] = "received"
        \/ status[p] = "received" /\ status'[p] \in {"summarized", "filtered_out"}
    BY <1>2 DEF TypeOK
  <2>3. status[p] = "received" => deliveries[p] = 0
    <3>1. deliveries[p] > 0 => status[p] \in Unsent \cup {"sent"}
      BY DEF Delivery, DeliveryInv
    <3>2. deliveries[p] \in Nat
      BY DEF TypeOK
    <3> QED
      BY <3>1, <3>2 DEF Unsent
  <2>4. \/ QueueState(p) = "absent" /\ QueueState(p)' = "waiting"
        \/ /\ QueueState(p) = "waiting" /\ deliveries[p] = 0
           /\ QueueState(p)' \in {"waiting", "dropped"}
    BY <2>2, <2>3 DEF QueueState
  <2> QED
    BY <1>2, <2>1, <2>4, QueueMoves
<1>3. CASE MarkIncluded
  <2>1. /\ bundle \subseteq Having(Unsent) /\ UNCHANGED deliveries
        /\ \A p \in Post : \/ status'[p] = status[p]
                           \/ /\ p \in bundle
                              /\ status'[p] = "included_in_digest"
    BY <1>3 DEF MarkIncluded, Delivery, BundleInv, world
  <2>2. \A p \in Post : QueueState(p)' = QueueState(p)
    BY <2>1 DEF QueueState, Having, Unsent
  <2> QED
    BY <2>1, <2>2, QueueStutters
<1>4. ASSUME NEW p \in Post, MarkOutcome(p)
      PROVE  [Queue!Next]_(Queue!vars)
  <2>1. /\ p \in work /\ pc = "mark" /\ UNCHANGED deliveries
        /\ status[p] \in Unsent
    BY <1>4 DEF MarkOutcome, Delivery, BundleInv, Having, world
  <2>2. \/ UNCHANGED status
        \/ status' = [status EXCEPT ![p] = IF sendStatus = "ok" THEN "sent"
                                           ELSE "send_failed"]
    BY <1>4 DEF MarkOutcome
  <2>3. /\ \A q \in Post \ {p} : status'[q] = status[q]
        /\ \/ status'[p] = status[p]
           \/ status'[p] = "sent" /\ sendStatus = "ok"
           \/ status'[p] = "send_failed"
    BY <2>2 DEF TypeOK
  <2>4. sendStatus = "ok" => deliveries[p] > 0
    BY <2>1 DEF Delivery, DeliveryInv
  <2>5. /\ QueueState(p) = "waiting"
        /\ \/ QueueState(p)' = "waiting"
           \/ QueueState(p)' = "delivered" /\ deliveries[p] > 0
    BY <2>1, <2>3, <2>4 DEF QueueState, Unsent
  <2> QED
    BY <2>1, <2>3, <2>5, QueueMoves
<1>5. CASE \/ ListChannels \/ FetchDone \/ Upsert \/ Dedup \/ AdvanceCursor
           \/ LoadReceived \/ SummarizeDone
           \/ \E c \in Channel : Fetch(c) \/ FetchFails(c)
           \/ \E p \in Post : Summarize(p)
  BY <1>1, <1>2, <1>5, IngestRows
<1>6. CASE Bundle \/ SendNothing \/ MarkDone \/ Record \/ Finish
           \/ Environment \/ Process \/ UNCHANGED vars
  <2>1. UNCHANGED <<status, deliveries>>
    BY <1>6 DEF Bundle, SendNothing, MarkDone, Record, Finish, Environment,
                Publish, SetChat, Poll, Process, Tick, Crash, Shutdown, Exit, Boot,
                ProcessDies, vars, world, posts
  <2> QED
    BY <1>1, <2>1
<1>7. CASE SendPart \/ SendFails
  BY <1>7, SendMaps
<1> QED
  BY <1>3, <1>4, <1>5, <1>6, <1>7 DEF Next, CycleStep

\* Whatever fails and whenever the process dies, the pipeline from Upsert to
\* MarkSent is an at-least-once queue: a post is acknowledged only after its
\* delivery, dropped only unread, and then neither delivered nor changed again.
THEOREM CycleImplementsQueue == Spec => ImplementsQueue
<1> DEFINE IInv == TypeOK /\ Ingested /\ Delivery
<1>1. Init => IInv
  BY InitType, InitIngest, InitDelivery
<1>2. IInv /\ [Next]_vars => IInv'
  BY NextType, NextIngest, NextDelivery DEF Ingested
<1>3. Init => Queue!Init
  BY DEF Init, Queue!Init, QueueState
<1>4. IInv /\ [Next]_vars => [Queue!Next]_(Queue!vars)
  BY StepMaps DEF Ingested
<1> QED
  BY <1>1, <1>2, <1>3, <1>4, PTL DEF Spec, ImplementsQueue, Queue!Spec

----------------------------------------------------------------------------
(***************************************************************************)
(* The records of the cycle: its status row, the items of its digest, the  *)
(* posts that were captured beside a settled twin.                         *)
(***************************************************************************)

\* ORDER BY captured_at LIMIT n leaves nothing out when it returns nothing: a
\* set of rows that is not empty has an oldest one, and n > 0.
LEMMA OldestTakesOne ==
  ASSUME TypeOK, CalmInv, NEW S \in SUBSET Post, S # {}
  PROVE  Oldest(S) # {}
<1> DEFINE Places == {i \in DOMAIN rows : rows[i] \in S}
<1>1. DOMAIN rows \subseteq Nat
  BY LenProperties DEF TypeOK
<1>2. CASE Places = {}
  <2>1. PICK p \in S : TRUE
    OBVIOUS
  <2>2. {q \in S : Older(q, p)} = {}
    BY <1>2, <2>1 DEF Older
  <2>3. Cardinality({q \in S : Older(q, p)}) < BatchLimit
    BY <2>2, FS_EmptySet
  <2> QED
    BY <2>1, <2>3 DEF Oldest
<1>3. CASE Places # {}
  <2>1. Places \in SUBSET Nat
    BY <1>1
  <2>2. PICK i \in Places : \A j \in Places : <<j, i>> \notin OpToRel(<, Nat)
    BY <1>3, <2>1, WFMin, NatLessThanWellFounded, Zenon
  <2>3. ASSUME NEW j \in Places, j < i PROVE FALSE
    <3>1. <<j, i>> \in {ss \in Nat \X Nat : ss[1] < ss[2]}
      BY <2>1, <2>3
    <3> QED
      BY <2>2, <3>1, Zenon DEF OpToRel
  <2>4. {q \in S : Older(q, rows[i])} = {}
    <3> SUFFICES ASSUME NEW q \in S, Older(q, rows[i]) PROVE FALSE
      OBVIOUS
    <3>1. PICK j, k \in DOMAIN rows : j < k /\ rows[j] = q /\ rows[k] = rows[i]
      BY DEF Older
    <3>2. k = i
      BY <3>1 DEF CalmInv
    <3> QED
      BY <2>3, <3>1, <3>2
  <2>5. Cardinality({q \in S : Older(q, rows[i])}) < BatchLimit
    BY <2>4, FS_EmptySet
  <2> QED
    BY <2>2, <2>5 DEF Oldest
<1> QED
  BY <1>2, <1>3

\* No step takes a fault back, and a process whose context is cancelled, or
\* that is down, has cost one.
LEMMA FaultsGrow ==
  ASSUME TypeOK, [Next]_vars
  PROVE  /\ faults' \in Nat /\ faults' >= faults
         /\ \/ faults' > faults
            \/ UNCHANGED ctx /\ (pc' = "down" => pc = "down")
            \/ ctx = "cancelled" /\ pc' = "down"
<1>1. faults \in Nat
  BY DEF TypeOK
<1>2. CASE UNCHANGED vars
  BY <1>1, <1>2 DEF vars
<1>3. CASE Environment \/ Process
  BY <1>1, <1>3 DEF Environment, Process, Publish, SetChat, Poll, Tick, Crash,
     Shutdown, Exit, Boot, ProcessDies, Goto, Fault, StoreOK, StoreFails, world
<1>4. CASE \/ ListChannels \/ FetchDone \/ Upsert \/ Dedup \/ AdvanceCursor
           \/ LoadReceived \/ SummarizeDone
  BY <1>1, <1>4 DEF ListChannels, FetchDone, Upsert, Dedup, AdvanceCursor,
     LoadReceived, SummarizeDone, NextPost, Goto, FinishWith, Fault, StoreOK,
     StoreFails
<1>5. CASE \E c \in Channel : Fetch(c) \/ FetchFails(c)
  BY <1>1, <1>5 DEF Fetch, FetchFails, Goto, Fault
<1>6. CASE \E p \in Post : Summarize(p) \/ MarkOutcome(p)
  BY <1>1, <1>6 DEF Summarize, MarkOutcome, Fault, StoreOK, StoreFails
<1>7. CASE Bundle \/ MarkIncluded \/ SendNothing \/ MarkDone \/ Record \/ Finish
  BY <1>1, <1>7 DEF Bundle, MarkIncluded, SendNothing, SendOver, MarkDone,
     Record, Finish, Goto, FinishWith, Fault, StoreOK, StoreFails
<1>8. CASE SendPart \/ SendFails
  BY <1>1, <1>8 DEF SendPart, SendFails, SendOver, Goto, Fault
<1> QED
  BY <1>2, <1>3, <1>4, <1>5, <1>6, <1>7, <1>8 DEF Next, CycleStep

\* A statement of the store is refused only by a fault.
LEMMA RefusalCosts ==
  ASSUME TypeOK, CalmInv, StoreFails
  PROVE  faults' > 0
<1>1. faults \in Nat
  BY DEF TypeOK
<1>2. ctx \in {"live", "cancelled"}
  BY DEF TypeOK
<1>3. CASE ctx = "live"
  BY <1>1, <1>3 DEF StoreFails, Fault
<1>4. CASE ctx = "cancelled"
  BY <1>1, <1>4 DEF StoreFails, CalmInv
<1> QED
  BY <1>2, <1>3, <1>4

\* A cancelled or dead process has cost a fault, no cycle ends "pending", and
\* the posts table holds a post once.
LEMMA NextCalm ==
  ASSUME TypeOK, FetchedInv, CalmInv, [Next]_vars PROVE CalmInv'
<1>0. faults \in Nat
  BY DEF TypeOK
<1>1. (ctx' = "cancelled" \/ pc' = "down") => faults' > 0
  BY <1>0, FaultsGrow DEF CalmInv
<1>2. outcome' # "pending"
  <2>1. \/ UNCHANGED outcome
        \/ outcome' \in {"none", "failed", "skipped_no_items", "succeeded",
                         "degraded"}
    BY DEF Next, vars, CycleStep, Environment, Process, Tick, ListChannels,
           Fetch, FetchFails, FetchDone, Upsert, Dedup, AdvanceCursor,
           LoadReceived, Summarize, SummarizeDone, Bundle, MarkIncluded,
           SendPart, SendFails, SendNothing, MarkOutcome, MarkDone, Record,
           CycleStatus, Finish, Crash, Shutdown, Exit, Boot, ProcessDies,
           Publish, SetChat, Poll, FinishWith
  <2> QED
    BY <2>1 DEF CalmInv
<1>3. \/ UNCHANGED rows
      \/ Upsert /\ status[fetched[at]] = "none" /\ rows' = Append(rows, fetched[at])
         /\ status' = [status EXCEPT ![fetched[at]] = "received"]
  <2>1. UNCHANGED rows \/ Upsert
    BY DEF Next, vars, CycleStep, Environment, Process, Tick, ListChannels,
           Fetch, FetchFails, FetchDone, Dedup, AdvanceCursor,
           LoadReceived, Summarize, SummarizeDone, Bundle, MarkIncluded,
           SendPart, SendFails, SendNothing, MarkOutcome, MarkDone, Record,
           Finish, Crash, Shutdown, Exit, Boot, ProcessDies,
           Publish, SetChat, Poll, posts
  <2> QED
    BY <2>1, Zenon DEF Upsert
<1>4. \A i \in DOMAIN rows : rows[i] \in Post
  BY DEF TypeOK
<1>5. CASE UNCHANGED rows
  <2>1. \A i \in DOMAIN rows : status'[rows[i]] # "none"
    BY <1>4, RowsStay DEF CalmInv
  <2> QED
    BY <1>1, <1>2, <1>5, <2>1 DEF CalmInv
<1>6. CASE /\ Upsert /\ status[fetched[at]] = "none"
           /\ rows' = Append(rows, fetched[at])
           /\ status' = [status EXCEPT ![fetched[at]] = "received"]
  <2> DEFINE p == fetched[at]
             n == Len(rows)
  <2>1. p \in Post
    BY <1>6, CurrentPost DEF Upsert
  <2>2. status'[p] = "received"
    BY <1>6, <2>1 DEF TypeOK
  <2> HIDE DEF p
  <2>3. n \in Nat /\ DOMAIN rows = 1..n /\ DOMAIN rows' = 1..(n+1)
        /\ rows'[n+1] = p /\ \A i \in 1..n : rows'[i] = rows[i]
    BY <1>6, <2>1, AppendProperties, LenProperties DEF TypeOK, p
  <2>4. \A i \in 1..n : status'[rows[i]] # "none" /\ rows[i] # p
    BY <1>4, <1>6, <2>3, RowsStay DEF CalmInv, p
  <2> HIDE DEF n
  <2>5. \A i \in 1..(n+1) : i \in 1..n \/ i = n + 1
    BY <2>3
  <2>6. \A i \in DOMAIN rows' : status'[rows'[i]] # "none"
    BY <2>2, <2>3, <2>4, <2>5
  <2>7. \A i, j \in DOMAIN rows' : rows'[i] = rows'[j] => i = j
    <3>1. \A i, j \in 1..n : rows[i] = rows[j] => i = j
      BY <2>3 DEF CalmInv
    <3> QED
      BY <2>3, <2>4, <2>5, <3>1
  <2> QED
    BY <1>1, <1>2, <2>6, <2>7 DEF CalmInv
<1> QED
  BY <1>3, <1>5, <1>6

\* A filtered row stays filtered: the two writes that ignore the status they
\* overwrite reach only rows that await delivery.
LEMMA FilteredStays ==
  ASSUME TypeOK, FetchedInv, Delivery, [Next]_vars, NEW p \in Post,
         status[p] = "filtered_out"
  PROVE  status'[p] = "filtered_out"
<1>1. CASE UNCHANGED status
  BY <1>1
<1>2. CASE \/ ListChannels \/ FetchDone \/ Upsert \/ Dedup \/ AdvanceCursor
           \/ LoadReceived \/ SummarizeDone
           \/ \E c \in Channel : Fetch(c) \/ FetchFails(c)
           \/ \E q \in Post : Summarize(q)
  <2>1. \/ UNCHANGED status
        \/ \E q \in Post : /\ status[q] \in {"none", "received"}
                           /\ \E s : status' = [status EXCEPT ![q] = s]
    BY <1>2, IngestRows
  <2> QED
    BY <2>1 DEF TypeOK
<1>3. CASE MarkIncluded
  BY <1>3 DEF MarkIncluded, Delivery, BundleInv, Having, Unsent
<1>4. ASSUME NEW q \in Post, MarkOutcome(q) PROVE status'[p] = status[p]
  <2>1. q # p
    BY <1>4 DEF MarkOutcome, Delivery, BundleInv, Having, Unsent
  <2>2. UNCHANGED status \/ \E s : status' = [status EXCEPT ![q] = s]
    BY <1>4 DEF MarkOutcome
  <2> QED
    BY <2>1, <2>2 DEF TypeOK
<1>5. \/ UNCHANGED status
      \/ ListChannels \/ FetchDone \/ Upsert \/ Dedup \/ AdvanceCursor
      \/ LoadReceived \/ SummarizeDone
      \/ \E c \in Channel : Fetch(c) \/ FetchFails(c)
      \/ \E q \in Post : Summarize(q)
      \/ MarkIncluded \/ \E q \in Post : MarkOutcome(q)
  BY DEF Next, vars, CycleStep, Environment, Process, Tick, Bundle, SendPart,
         SendFails, SendNothing, MarkDone, Record, Finish, Crash, Shutdown,
         Exit, Boot, ProcessDies, Publish, SetChat, Poll, posts
<1> QED
  BY <1>1, <1>2, <1>3, <1>4, <1>5

(***************************************************************************)
(* Settled content.                                                        *)
(***************************************************************************)

\* Dedup follows Upsert: what was captured beside a settled twin is filtered
\* before anything else sees it, or is not in shadowed any more.
LEMMA NextShadow ==
  ASSUME TypeOK, FetchedInv, Delivery, ShadowInv, [Next]_vars
  PROVE  ShadowInv'
<1> SUFFICES ASSUME NEW p \in shadowed'
             PROVE  \/ status'[p] = "filtered_out"
                    \/ /\ pc' = "dedup" /\ fetched'[at'] = p
                       /\ status'[p] = "received" /\ TerminalTwin(p)'
  BY DEF ShadowInv
<1>2. \A q \in shadowed : q \in Post
  BY DEF TypeOK
<1>3. CASE p \in shadowed /\ status[p] = "filtered_out"
  BY <1>2, <1>3, FilteredStays
<1>4. CASE Upsert
  <2> DEFINE q == fetched[at]
  <2>1. q \in Post
    BY <1>4, CurrentPost DEF Upsert
  <2>2. p \in shadowed => status[p] = "filtered_out"
    BY <1>4 DEF ShadowInv, Upsert
  <2>3. ASSUME p \notin shadowed
        PROVE  /\ p = q /\ status' = [status EXCEPT ![q] = "received"]
               /\ \E r \in Twins(q) : status[r] \in Terminal
               /\ pc' = "dedup" /\ UNCHANGED <<at, fetched>>
    BY <1>4, <2>3, Zenon DEF Upsert, Goto, history
  <2>4. ASSUME p \notin shadowed
        PROVE  /\ pc' = "dedup" /\ fetched'[at'] = p /\ status'[p] = "received"
               /\ TerminalTwin(p)'
    <3>1. PICK r \in Twins(q) : status[r] \in Terminal
      BY <2>3, <2>4
    <3>2. r \in Post /\ r # q
      BY <3>1 DEF Twins
    <3>3. status'[r] = status[r] /\ status'[q] = "received"
      BY <2>1, <2>3, <2>4, <3>2 DEF TypeOK
    <3>4. p \in Post /\ r \in Post \ {p} /\ KeyOf[r] = KeyOf[p]
          /\ status'[r] \in Terminal
      BY <2>1, <2>3, <2>4, <3>1, <3>3 DEF Twins
    <3>5. TerminalTwin(p)'
      BY <3>4 DEF TerminalTwin, Twins, Terminal
    <3> QED
      BY <2>3, <2>4, <3>3, <3>5
  <2> QED
    BY <1>3, <2>2, <2>4
<1>5. CASE Dedup
  <2>1. p \in shadowed /\ p \in Post
    BY <1>2, <1>5, Zenon DEF Dedup
  <2>2. CASE status[p] # "filtered_out"
    <3>1. fetched[at] = p /\ status[p] = "received" /\ TerminalTwin(p)
      BY <2>1, <2>2 DEF ShadowInv
    <3>2. status' = [status EXCEPT ![p] = "filtered_out"]
      BY <1>5, <3>1, Zenon DEF Dedup
    <3> QED
      BY <2>1, <3>2 DEF TypeOK
  <2> QED
    BY <1>3, <2>1, <2>2
<1>6. CASE ProcessDies
  BY <1>3, <1>6 DEF ProcessDies, ShadowInv
<1>7. CASE ~Upsert /\ ~Dedup /\ ~ProcessDies
  <2>1. p \in shadowed
    BY <1>7 DEF Next, vars, CycleStep, Environment, Process, Tick,
       ListChannels, Fetch, FetchFails, FetchDone, AdvanceCursor, LoadReceived,
       Summarize, SummarizeDone, Bundle, MarkIncluded, SendPart, SendFails,
       SendNothing, MarkOutcome, MarkDone, Record, Finish, Crash, Shutdown,
       Exit, Boot, Publish, SetChat, Poll, history
  <2>2. CASE pc = "dedup"
    <3>1. UNCHANGED <<pc, fetched, at, status>>
      BY <1>7, <2>2 DEF Next, vars, CycleStep, Environment, Process,
         Tick, ListChannels, Fetch, FetchFails, FetchDone, AdvanceCursor,
         LoadReceived, Summarize, SummarizeDone, Bundle, MarkIncluded,
         SendPart, SendFails, SendNothing, MarkOutcome, MarkDone, Record,
         Finish, Crash, Shutdown, Exit, Boot, Publish, SetChat, Poll, posts,
         ingest
    <3>2. TerminalTwin(p)' <=> TerminalTwin(p)
      BY <3>1 DEF TerminalTwin, Twins, Terminal
    <3> QED
      BY <2>1, <3>1, <3>2 DEF ShadowInv
  <2>3. CASE pc # "dedup"
    BY <1>3, <2>1, <2>3 DEF ShadowInv
  <2> QED
    BY <2>2, <2>3
<1> QED
  BY <1>4, <1>5, <1>6, <1>7

(***************************************************************************)
(* The status of a cycle.                                                  *)
(***************************************************************************)

\* Steps that leave the digest, the rows and the copies alone, and do not lead
\* on from a send or an outcome.
LEMMA OutcomeFrame ==
  ASSUME TypeOK, OutcomeInv,
         UNCHANGED <<status, deliveries, bundle, outcome, sendStatus, work, pc>>,
         faults' \in Nat, faults' >= faults
  PROVE  OutcomeInv'
<1>1. faults \in Nat
  BY DEF TypeOK
<1>2. Having(Unsent)' = Having(Unsent)
  BY DEF Having, Unsent
<1>3. pc' = "finish" => IsTrue(outcome)'
  BY <1>1, <1>2 DEF OutcomeInv, IsTrue, TypeOK
<1> QED
  BY <1>1, <1>3 DEF OutcomeInv, TypeOK

\* Before the bundle is made there is none, and a cycle that ends there says
\* so.
LEMMA OutcomeIngest ==
  ASSUME TypeOK, OutcomeInv,
         \/ ListChannels \/ FetchDone \/ Upsert \/ Dedup \/ AdvanceCursor
         \/ LoadReceived \/ SummarizeDone
         \/ \E c \in Channel : Fetch(c) \/ FetchFails(c)
         \/ \E p \in Post : Summarize(p)
  PROVE  OutcomeInv'
<1>1. /\ pc \notin {"include", "send", "mark", "record", "finish"}
      /\ UNCHANGED bundle
      /\ \/ pc' \notin {"include", "send", "mark", "record", "finish"}
         \/ pc' = "finish" /\ outcome' = "failed"
  BY DEF ListChannels, FetchDone, Upsert, Dedup, AdvanceCursor, LoadReceived,
     SummarizeDone, Fetch, FetchFails, Summarize, NextPost, Goto, FinishWith,
     digest
<1>2. bundle' = {}
  BY <1>1 DEF OutcomeInv
<1> QED
  BY <1>1, <1>2 DEF OutcomeInv, IsTrue

\* "skipped" is decided by an empty answer of ListUnsent, and the limit of that
\* query never makes the answer empty.
LEMMA OutcomeBundle ==
  ASSUME TypeOK, CalmInv, OutcomeInv, Bundle PROVE OutcomeInv'
<1>1. Having(Unsent) \in SUBSET Post
  BY DEF Having
<1>2. bundle = {} /\ UNCHANGED <<status, deliveries>>
  BY DEF Bundle, OutcomeInv, posts, world
<1>3. \/ pc' = "include"
      \/ /\ pc' = "finish" /\ bundle' = {}
         /\ \/ outcome' = "failed"
            \/ outcome' = "skipped_no_items" /\ Oldest(Having(Unsent)) = {}
  BY <1>2 DEF Bundle, Goto, FinishWith
<1>4. Oldest(Having(Unsent)) = {} => Having(Unsent) = {}
  BY <1>1, OldestTakesOne
<1>5. Having(Unsent)' = Having(Unsent)
  BY <1>2 DEF Having, Unsent
<1> QED
  BY <1>3, <1>4, <1>5 DEF OutcomeInv, IsTrue

\* The send loop ends "ok" with every post delivered, and leaves no post of a
\* digest sent when it ends "failed".
LEMMA OutcomeSend ==
  ASSUME TypeOK, Delivery, Delivery',
         MarkIncluded \/ SendPart \/ SendFails \/ SendNothing
  PROVE  OutcomeInv'
<1>1. \/ pc' = "send"
      \/ pc' = "mark" /\ work' = bundle'
  BY DEF MarkIncluded, SendPart, SendFails, SendNothing, SendOver, Goto, digest
<1>2. CASE pc' = "send"
  BY <1>2 DEF OutcomeInv
<1>3. CASE pc' = "mark" /\ work' = bundle'
  <2>1. \A p \in bundle' : sendStatus' = "ok" => deliveries'[p] > 0
    BY <1>3 DEF Delivery, DeliveryInv
  <2>2. \A p \in bundle' : status'[p] # "sent"
    BY <1>3 DEF Delivery, BundleInv, Having, Unsent
  <2> QED
    BY <1>3, <2>1, <2>2 DEF OutcomeInv
<1> QED
  BY <1>1, <1>2, <1>3

\* MarkSent and MarkSendFailed write what the send loop ended with.
LEMMA OutcomeMark ==
  ASSUME TypeOK, Delivery, CalmInv, OutcomeInv, NEW p \in Post, MarkOutcome(p)
  PROVE  OutcomeInv'
<1>0. faults \in Nat /\ p \in Post
  BY DEF TypeOK
<1>1. /\ pc = "mark" /\ pc' = "mark" /\ p \in work /\ work' = work \ {p}
      /\ UNCHANGED <<deliveries, bundle, sendStatus>>
  BY DEF MarkOutcome, world, digest
<1>2. \/ /\ faults' = faults
         /\ status' = [status EXCEPT ![p] = IF sendStatus = "ok" THEN "sent"
                                            ELSE "send_failed"]
      \/ faults' > 0 /\ UNCHANGED status
  BY RefusalCosts DEF MarkOutcome, StoreOK
<1>3. \A q \in bundle : q \in Post
  BY DEF TypeOK
<1>4. \A q \in Post : \/ q # p /\ status'[q] = status[q]
                      \/ q = p /\ sendStatus = "ok" /\ status'[q] = "sent"
                      \/ q = p /\ sendStatus # "ok" /\ status'[q] = "send_failed"
                      \/ faults' > 0 /\ status'[q] = status[q]
  BY <1>2 DEF TypeOK
<1>5. faults' \in Nat /\ faults' >= faults
  BY <1>0 DEF MarkOutcome, StoreOK, StoreFails, Fault
<1>6. \A q \in bundle :
        sendStatus = "ok" => status'[q] = "sent" \/ faults' > 0 \/ q \in work'
  BY <1>0, <1>1, <1>3, <1>4, <1>5 DEF OutcomeInv
<1>7. \A q \in bundle : sendStatus = "failed" => status'[q] # "sent"
  BY <1>1, <1>3, <1>4 DEF OutcomeInv
<1> QED
  BY <1>1, <1>6, <1>7 DEF OutcomeInv

\* The status is decided from the outcome of the send loop.
LEMMA OutcomeClose ==
  ASSUME TypeOK, OutcomeInv, MarkDone \/ Record \/ Finish
  PROVE  OutcomeInv'
<1>0. faults \in Nat
  BY DEF TypeOK
<1>1. CASE MarkDone
  BY <1>1 DEF MarkDone, OutcomeInv, Goto, world, posts, digest
<1>2. CASE Record
  <2>1. /\ pc = "record" /\ pc' = "finish"
        /\ UNCHANGED <<status, deliveries, bundle>>
        /\ outcome' = CycleStatus
    BY <1>2 DEF Record, FinishWith, world, posts, digest
  <2>2. faults' \in Nat /\ faults' >= faults
    BY <1>0, <1>2 DEF Record, StoreFails, Fault
  <2>3. /\ outcome' \in {"succeeded", "degraded"} => sendStatus = "ok"
        /\ outcome' = "failed" => sendStatus = "failed"
        /\ outcome' # "skipped_no_items"
    BY <2>1 DEF CycleStatus, TypeOK
  <2>4. \A p \in bundle :
          /\ sendStatus = "ok" =>
               deliveries[p] > 0 /\ (status[p] = "sent" \/ faults' > 0)
          /\ sendStatus = "failed" => status[p] # "sent"
    BY <1>0, <2>1, <2>2 DEF OutcomeInv
  <2>5. IsTrue(outcome)'
    BY <2>1, <2>3, <2>4 DEF IsTrue
  <2> QED
    BY <2>1, <2>5 DEF OutcomeInv
<1>3. CASE Finish
  BY <1>3 DEF Finish, OutcomeInv, Goto
<1> QED
  BY <1>1, <1>2, <1>3

\* The locals of Run are true of the queue, from the send loop to finishCycle.
LEMMA NextOutcome ==
  ASSUME TypeOK, FetchedInv, Delivery, CalmInv, OutcomeInv, [Next]_vars
  PROVE  OutcomeInv'
<1>1. faults' \in Nat /\ faults' >= faults
  BY FaultsGrow
<1>2. CASE UNCHANGED vars \/ Environment \/ Poll \/ Shutdown
  <2>1. UNCHANGED <<status, deliveries, bundle, outcome, sendStatus, work, pc>>
    BY <1>2 DEF vars, Environment, Publish, SetChat, Poll, Shutdown, world, posts,
       digest
  <2> QED
    BY <1>1, <2>1, OutcomeFrame
<1>3. CASE Tick \/ Crash \/ Exit \/ Boot
  <2>1. /\ pc' \in {"idle", "list", "down"}
        /\ \/ bundle' = {}
           \/ UNCHANGED bundle /\ pc \in {"idle", "down"}
    BY <1>3 DEF Tick, Crash, Exit, Boot, ProcessDies, Goto, digest
  <2> QED
    BY <2>1 DEF OutcomeInv
<1>4. Delivery'
  BY NextDelivery
<1> QED
  BY <1>2, <1>3, <1>4, OutcomeIngest, OutcomeBundle, OutcomeSend, OutcomeMark,
     OutcomeClose
  DEF Next, CycleStep, Process

(***************************************************************************)
(* The history.                                                            *)
(***************************************************************************)

\* A step that ends without a fault had none before it: no statement was
\* refused and no process ended.
LEMMA NoFault ==
  ASSUME TypeOK, CalmInv, [Next]_vars, faults' = 0
  PROVE  /\ faults = 0 /\ ~StoreFails /\ ctx # "cancelled" /\ pc # "down"
         /\ ~Crash /\ ~Shutdown /\ ~Exit
<1>1. faults = 0 /\ ~StoreFails
  <2>1. faults \in Nat
    BY DEF TypeOK
  <2>2. faults = 0
    BY <2>1, FaultsGrow
  <2> QED
    BY <2>2, RefusalCosts
<1>2. ctx # "cancelled" /\ pc # "down"
  BY <1>1 DEF CalmInv
<1> QED
  BY <1>1, <1>2 DEF Crash, Shutdown, Exit, Fault

\* The posts of a digest become "sent" while it is in hand, Record gives each its
\* item or notes that it has none, and no step takes an item back.
LEMMA NextItems ==
  ASSUME TypeOK, FetchedInv, Delivery, OutcomeInv, SentIsRecorded, [Next]_vars
  PROVE  SentIsRecorded'
<1> SUFFICES ASSUME NEW p \in Post, status'[p] = "sent"
             PROVE  \/ items'[p] > 0 \/ p \in unrecorded'
                    \/ pc' \in {"mark", "record"} /\ p \in bundle'
  BY DEF SentIsRecorded, Having
<1>1. status[p] = "sent" => \/ items[p] > 0 \/ p \in unrecorded
                            \/ pc \in {"mark", "record"} /\ p \in bundle
  BY DEF SentIsRecorded, Having
<1>2. ItemCap > 0 /\ \A q \in Post : items[q] \in 0..ItemCap
  BY ItemCapAssumption DEF TypeOK
<1>3. CASE Record
  <2>1. PICK written \in SUBSET bundle :
          /\ AddItems(written)
          /\ unrecorded' = (unrecorded \ written) \cup (bundle \ written)
    BY <1>3, Zenon DEF Record
  <2>2. items'[p] = IF p \in written /\ items[p] < ItemCap THEN items[p] + 1
                                                           ELSE items[p]
    BY <2>1 DEF AddItems
  <2>3. status[p] = "sent"
    BY <1>3 DEF Record, posts
  <2> QED
    BY <1>1, <1>2, <2>1, <2>2, <2>3
<1>4. ASSUME NEW q \in Post, MarkOutcome(q)
      PROVE  \/ items'[p] > 0 \/ p \in unrecorded'
             \/ pc' \in {"mark", "record"} /\ p \in bundle'
  <2>1. /\ q \in work /\ q \in bundle
        /\ UNCHANGED <<items, bundle, unrecorded>>
        /\ pc = "mark" /\ pc' = "mark"
    BY <1>4 DEF MarkOutcome, OutcomeInv, records, digest, history
  <2>2. p = q \/ status[p] = "sent"
    <3>1. UNCHANGED status \/ \E s : status' = [status EXCEPT ![q] = s]
      BY <1>4 DEF MarkOutcome
    <3> QED
      BY <3>1 DEF TypeOK
  <2> QED
    BY <1>1, <2>1, <2>2
<1>5. CASE ProcessDies
  BY <1>1, <1>5 DEF ProcessDies, posts, records
<1>6. CASE ~Record /\ ~ProcessDies /\ ~\E q \in Post : MarkOutcome(q)
  <2>1. UNCHANGED <<items, unrecorded>>
    BY <1>6 DEF Next, vars, CycleStep, Environment, Process, Tick,
       ListChannels, Fetch, FetchFails, FetchDone, Upsert, Dedup,
       AdvanceCursor, LoadReceived, Summarize, SummarizeDone, Bundle,
       MarkIncluded, SendPart, SendFails, SendNothing, MarkDone, Finish, Crash,
       Shutdown, Exit, Boot, Publish, SetChat, Poll, records, history
  <2>2. status[p] = "sent"
    <3>1. CASE UNCHANGED status
      BY <3>1
    <3>2. CASE \/ ListChannels \/ FetchDone \/ Upsert \/ Dedup \/ AdvanceCursor
               \/ LoadReceived \/ SummarizeDone
               \/ \E c \in Channel : Fetch(c) \/ FetchFails(c)
               \/ \E q \in Post : Summarize(q)
      <4>1. \/ UNCHANGED status
            \/ \E q \in Post, s \in {"received", "summarized", "filtered_out"} :
                 status' = [status EXCEPT ![q] = s]
        BY <3>2, IngestRows
      <4> QED
        BY <4>1 DEF TypeOK
    <3>3. CASE MarkIncluded
      BY <3>3 DEF MarkIncluded
    <3>4. \/ UNCHANGED status
          \/ ListChannels \/ FetchDone \/ Upsert \/ Dedup \/ AdvanceCursor
          \/ LoadReceived \/ SummarizeDone
          \/ \E c \in Channel : Fetch(c) \/ FetchFails(c)
          \/ \E q \in Post : Summarize(q)
          \/ MarkIncluded
      BY <1>6 DEF Next, vars, CycleStep, Environment, Process, Tick, Bundle,
         SendPart, SendFails, SendNothing, MarkDone, Finish, Crash, Shutdown,
         Exit, Boot, Publish, SetChat, Poll, posts
    <3> QED
      BY <3>1, <3>2, <3>3, <3>4
  <2>3. CASE pc \in {"mark", "record"}
    <3>1. UNCHANGED bundle /\ pc' \in {"mark", "record"}
      BY <1>6, <2>3 DEF Next, vars, CycleStep, Environment, Process,
         Tick, ListChannels, Fetch, FetchFails, FetchDone, Upsert, Dedup,
         AdvanceCursor, LoadReceived, Summarize, SummarizeDone, Bundle,
         MarkIncluded, SendPart, SendFails, SendNothing, MarkDone, Finish,
         Crash, Shutdown, Exit, Boot, Publish, SetChat, Poll, Goto, digest
    <3> QED
      BY <1>1, <2>1, <2>2, <3>1
  <2>4. CASE pc \notin {"mark", "record"}
    BY <1>1, <2>1, <2>2, <2>4
  <2> QED
    BY <2>3, <2>4
<1> QED
  BY <1>3, <1>4, <1>5, <1>6

\* The row of a cycle leaves "pending" before Run returns, or a fault has been
\* paid for it.
LEMMA NextPending ==
  ASSUME TypeOK, CalmInv, PendingIsPaid, [Next]_vars
  PROVE  PendingIsPaid'
<1> SUFFICES ASSUME faults' = 0
             PROVE  ~orphaned' /\ (row' = "pending" => pc' \notin {"idle", "down"})
  BY FaultsGrow DEF PendingIsPaid
<1>1. /\ faults = 0 /\ ~StoreFails /\ ctx # "cancelled" /\ pc # "down"
      /\ ~Crash /\ ~Shutdown /\ ~Exit
  BY NoFault
<1>2. ~orphaned /\ (row = "pending" => pc \notin {"idle", "down"})
  BY <1>1 DEF PendingIsPaid
<1>3. CASE Tick
  BY <1>1, <1>2, <1>3 DEF Tick, Goto
<1>4. CASE Finish
  <2>1. row' = outcome /\ UNCHANGED orphaned
    BY <1>1, <1>4 DEF Finish
  <2> QED
    BY <1>2, <2>1 DEF CalmInv
<1>5. CASE ~Tick /\ ~Finish
  <2>1. UNCHANGED <<row, orphaned>>
    BY <1>5 DEF Next, vars, CycleStep, Environment, Process, ListChannels,
       Fetch, FetchFails, FetchDone, Upsert, Dedup, AdvanceCursor,
       LoadReceived, Summarize, SummarizeDone, Bundle, MarkIncluded, SendPart,
       SendFails, SendNothing, MarkOutcome, MarkDone, Record, Crash, Shutdown,
       Exit, Boot, ProcessDies, Publish, SetChat, Poll, records
  <2>2. UNCHANGED pc \/ pc' \notin {"idle", "down"}
    BY <1>1, <1>5 DEF Next, vars, CycleStep, Environment, Process,
       ListChannels, Fetch, FetchFails, FetchDone, Upsert, Dedup, NextPost,
       AdvanceCursor, LoadReceived, Summarize, SummarizeDone, Bundle,
       MarkIncluded, SendPart, SendFails, SendNothing, SendOver, MarkOutcome,
       MarkDone, Record, Boot, Publish, SetChat, Poll, Goto, FinishWith
  <2> QED
    BY <1>2, <2>1, <2>2
<1> QED
  BY <1>3, <1>4, <1>5

(***************************************************************************)
(* The theorems.                                                           *)
(***************************************************************************)

\* The first boot has recorded nothing.
LEMMA InitRecord == Init => RecordInv
<1> SUFFICES ASSUME Init PROVE RecordInv
  OBVIOUS
<1>1. /\ pc = "idle" /\ ctx = "live" /\ bundle = {} /\ shadowed = {}
      /\ outcome = "none" /\ row = "none" /\ orphaned = FALSE /\ rows = <<>>
      /\ \A p \in Post : status[p] = "none"
  BY DEF Init
<1>2. DOMAIN rows = {}
  BY <1>1
<1>3. Having({"sent"}) = {}
  BY <1>1 DEF Having
<1> QED
  BY <1>1, <1>2, <1>3
  DEF RecordInv, CalmInv, ShadowInv, OutcomeInv, SentIsRecorded, PendingIsPaid

\* Every step preserves it.
LEMMA NextRecord ==
  ASSUME TypeOK, FetchedInv, Delivery, RecordInv, [Next]_vars
  PROVE  RecordInv'
BY NextCalm, NextShadow, NextOutcome, NextItems, NextPending DEF RecordInv

\* The inductive invariant of the records: what the cycles row, the items of a
\* digest and the filtered rows owe to the locals of Cycle.Run.
THEOREM RecordInvariant == Spec => [](TypeOK /\ QueueInv /\ RecordInv)
<1> DEFINE IInv == TypeOK /\ Ingested /\ Delivery /\ RecordInv
<1>1. Init => IInv
  BY InitType, InitIngest, InitDelivery, InitRecord
<1>2. IInv /\ [Next]_vars => IInv'
  BY NextType, NextIngest, NextDelivery, NextRecord DEF Ingested
<1>3. IInv => TypeOK /\ QueueInv /\ RecordInv
  BY DEF QueueInv, Delivery, Ingested
<1> QED
  BY <1>1, <1>2, <1>3, PTL DEF Spec

\* Cross-channel dedup: a forward of content that was already delivered or
\* filtered does not reach the subscriber, whatever the channels publish, in
\* whatever order they are read and whatever fails, unless the dedup of this very
\* post was cut short.
THEOREM SettledStaysSettled == Spec => []SettledContentStaysSettled
<1>1. TypeOK /\ QueueInv /\ RecordInv => SettledContentStaysSettled
  <2> SUFFICES ASSUME TypeOK, QueueInv, RecordInv, NEW p \in shadowed
               PROVE  deliveries[p] = 0
    BY DEF SettledContentStaysSettled
  <2>1. p \in Post /\ deliveries[p] \in Nat
    BY DEF TypeOK
  <2>2. status[p] \notin Unsent \cup {"sent"}
    BY DEF RecordInv, ShadowInv, Unsent
  <2>3. ~(deliveries[p] > 0)
    BY <2>1, <2>2 DEF QueueInv, DeliveryInv
  <2> QED
    BY <2>1, <2>3
<1> QED
  BY <1>1, RecordInvariant, PTL

\* FR-014: every post whose row says "sent" is an item of a recorded digest as
\* soon as its cycle has recorded one, unless its own AddItem failed or the
\* process ended first.
THEOREM SentHasItem == Spec => []SentIsRecorded
<1>1. RecordInv => SentIsRecorded
  BY DEF RecordInv
<1> QED
  BY <1>1, RecordInvariant, PTL

\* Every return of Cycle.Run has finished its cycles row: a pending row of a
\* cycle that is over has been paid for by a fault.
THEOREM NoPendingForFree == Spec => []PendingIsPaid
<1>1. RecordInv => PendingIsPaid
  BY DEF RecordInv
<1> QED
  BY <1>1, RecordInvariant, PTL

\* The status a cycle is recorded with is true of the queue: "skipped" means
\* that nothing awaits delivery although the query had a limit, "succeeded" and
\* "degraded" that the whole digest arrived, "failed" that none of its posts
\* was taken as sent.
THEOREM StatusIsTrue == Spec => StatusTellsTheTruth
<1>1. RecordInv /\ [Next]_vars =>
        [ (pc = "finish" /\ row' # row) => IsTrue(row') ]_vars
  <2> SUFFICES ASSUME RecordInv, [Next]_vars, pc = "finish", row' # row
               PROVE  IsTrue(row')
    OBVIOUS
  <2>1. row' = outcome
    BY DEF Next, vars, CycleStep, Environment, Process, Tick, ListChannels,
       Fetch, FetchFails, FetchDone, Upsert, Dedup, AdvanceCursor,
       LoadReceived, Summarize, SummarizeDone, Bundle, MarkIncluded, SendPart,
       SendFails, SendNothing, MarkOutcome, MarkDone, Record, Finish, Crash,
       Shutdown, Exit, Boot, ProcessDies, Publish, SetChat, Poll, records
  <2>2. IsTrue(outcome)
    BY DEF RecordInv, OutcomeInv
  <2> QED
    BY <2>1, <2>2
<1> QED
  BY <1>1, RecordInvariant, PTL DEF Spec, StatusTellsTheTruth

(***************************************************************************)
(* The feed of a channel.                                                  *)
(***************************************************************************)

\* A message of channel c, as the feed sees it.
Captured(c) == {m \in 1..MaxMsg : status[<<c, m>>] # "none"}
Missed(c)   == {m \in 1..MaxMsg : <<c, m>> \in dropped}

FeedsGoOn == \A c \in Channel : [Feed(c)!Next]_(Feed(c)!vars)

\* What has to be shown of a step that stores the messages S of c, or that
\* gives them up.
LEMMA CaptureFeeds ==
  ASSUME NEW c \in Channel, NEW n \in cursor[c]..published[c],
         NEW S \in SUBSET ((cursor[c] + 1)..published[c]),
         Captured(c)' = Captured(c) \cup S, Missed(c)' = Missed(c) \ S,
         cursor'[c] = n, 1..n \subseteq Captured(c)' \cup Missed(c)',
         published'[c] = published[c]
  PROVE  [Feed(c)!Next]_(Feed(c)!vars)
<1>1. Feed(c)!Capture(S, n)
  BY Zenon DEF Feed!Capture, Captured, Missed
<1> QED
  BY <1>1, Zenon DEF Feed!Next

LEMMA GiveUpFeeds ==
  ASSUME NEW c \in Channel, NEW S \in SUBSET ((1..published[c]) \ Captured(c)),
         Captured(c)' = Captured(c), Missed(c)' = Missed(c) \cup S,
         cursor'[c] = cursor[c], published'[c] = published[c]
  PROVE  [Feed(c)!Next]_(Feed(c)!vars)
<1>1. Feed(c)!GiveUp(S)
  BY Zenon DEF Feed!GiveUp, Captured, Missed
<1> QED
  BY <1>1, Zenon DEF Feed!Next, Captured

LEMMA FeedStays ==
  ASSUME NEW c \in Channel,
         Captured(c)' = Captured(c), Missed(c)' = Missed(c),
         cursor'[c] = cursor[c], published'[c] = published[c]
  PROVE  [Feed(c)!Next]_(Feed(c)!vars)
BY Zenon DEF Feed!vars, Captured, Missed

\* Only Publish moves the end of the feed.
LEMMA PublishedGrows ==
  ASSUME TypeOK, [Next]_vars
  PROVE  \/ UNCHANGED published
         \/ \E c \in Channel : published' = [published EXCEPT ![c] = @ + 1]
BY DEF Next, vars, CycleStep, Environment, Process, Tick, ListChannels,
       Fetch, FetchFails, FetchDone, Upsert, Dedup, AdvanceCursor, LoadReceived,
       Summarize, SummarizeDone, Bundle, MarkIncluded, SendPart, SendFails,
       SendNothing, MarkOutcome, MarkDone, Record, Finish, Crash, Shutdown,
       Exit, Boot, ProcessDies, Publish, SetChat, Poll, world

\* Only Upsert gives a message its row.
LEMMA RowsAppear ==
  ASSUME TypeOK, BundleInv, [Next]_vars, ~Upsert
  PROVE  \A q \in Post : status'[q] = "none" <=> status[q] = "none"
<1> SUFFICES ASSUME NEW q \in Post, status[q] = "none"
             PROVE  status'[q] = "none"
  BY RowsStay
<1>1. CASE Dedup
  <2>1. \/ status' = status
        \/ /\ status[fetched[at]] = "received"
           /\ status' = [status EXCEPT ![fetched[at]] = "filtered_out"]
    BY <1>1, Zenon DEF Dedup
  <2> QED
    BY <2>1 DEF TypeOK
<1>2. ASSUME NEW p \in Post, Summarize(p) PROVE status'[q] = "none"
  <2>1. UNCHANGED status \/ \E answer \in Answers(p) : Store(p, answer)
    BY <1>2, Zenon DEF Summarize
  <2> QED
    BY <2>1 DEF Store, MarkFiltered, MarkSummarized, TypeOK
<1>3. CASE MarkIncluded
  <2>1. q \notin bundle
    BY <1>3 DEF MarkIncluded, BundleInv, Having, Unsent
  <2> QED
    BY <1>3, <2>1 DEF MarkIncluded
<1>4. ASSUME NEW p \in Post, MarkOutcome(p) PROVE status'[q] = "none"
  <2>1. q # p
    BY <1>4 DEF MarkOutcome, BundleInv, Having, Unsent
  <2> QED
    BY <1>4, <2>1 DEF MarkOutcome, TypeOK
<1>5. \/ UNCHANGED status \/ Dedup \/ MarkIncluded
      \/ \E p \in Post : Summarize(p) \/ MarkOutcome(p)
  BY DEF Next, vars, CycleStep, Environment, Process, Tick, ListChannels,
         Fetch, FetchFails, FetchDone, AdvanceCursor, LoadReceived,
         SummarizeDone, Bundle, SendPart, SendFails, SendNothing, MarkDone,
         Record, Finish, Crash, Shutdown, Exit, Boot, ProcessDies, Publish,
         SetChat, Poll, posts
<1> QED
  BY <1>1, <1>2, <1>3, <1>4, <1>5

\* Only Upsert and the end of the process give a message up.
LEMMA DroppedFrame ==
  ASSUME [Next]_vars, ~Upsert, ~ProcessDies PROVE UNCHANGED dropped
BY DEF Next, vars, CycleStep, Environment, Process, Tick, ListChannels,
       Fetch, FetchFails, FetchDone, Dedup, AdvanceCursor, LoadReceived,
       Summarize, SummarizeDone, Bundle, MarkIncluded, SendPart, SendFails,
       SendNothing, MarkOutcome, MarkDone, Record, Finish, Crash, Shutdown,
       Exit, Boot, Publish, SetChat, Poll, history

\* A row for the post at hand, that it has one, or that it is refused one.
LEMMA UpsertFeeds ==
  ASSUME TypeOK, FetchedInv, ClientInv, CursorCovers, Upsert
  PROVE  FeedsGoOn
<1> DEFINE p == fetched[at]
           n == Len(fetched)
<1>1. UNCHANGED <<published, cursor>> /\ pc = "ingest" /\ at \in 1..n
  BY DEF Upsert, FetchedInv, world, chans
<1>2. PICK d \in Channel : p = <<d, taken[d] - n + at>> /\ cursor[d] + n <= taken[d]
  BY <1>1 DEF FetchedInv
<1>3. PICK k \in Nat : p = <<d, k>> /\ k > cursor[d] /\ k <= published[d]
  <2>1. /\ cursor[d] \in Nat /\ taken[d] \in Nat /\ received[d] \in Nat
        /\ published[d] \in Nat /\ n \in Nat
    BY LenProperties DEF TypeOK
  <2>2. taken[d] <= published[d]
    BY <2>1 DEF ClientInv
  <2> HIDE DEF n
  <2>3. /\ taken[d] - n + at \in Nat /\ taken[d] - n + at > cursor[d]
        /\ taken[d] - n + at <= published[d]
    BY <1>1, <1>2, <2>1, <2>2
  <2> QED
    BY <1>2, <2>3
<1>4. published[d] \in 0..MaxMsg /\ cursor[d] \in 0..MaxMsg /\ k \in 1..MaxMsg
  BY <1>3 DEF TypeOK
<1>5. p \in Post /\ \A m \in 1..MaxMsg : <<d, m>> = p <=> m = k
  BY <1>3, <1>4 DEF Post
<1>6. \/ UNCHANGED <<status, dropped>>
      \/ /\ status' = [status EXCEPT ![p] = "received"]
         /\ dropped' = dropped \ {p}
      \/ /\ UNCHANGED status /\ status[p] = "none"
         /\ dropped' = dropped \cup {p}
  BY Zenon DEF Upsert, history
<1> HIDE DEF p
<1>7. ASSUME NEW c \in Channel, c # d PROVE [Feed(c)!Next]_(Feed(c)!vars)
  <2>1. \A m \in 1..MaxMsg : <<c, m>> # p /\ <<c, m>> \in Post
    BY <1>3, <1>7 DEF Post
  <2>2. \A m \in 1..MaxMsg : /\ status'[<<c, m>>] = status[<<c, m>>]
                             /\ <<c, m>> \in dropped' <=> <<c, m>> \in dropped
    BY <1>6, <2>1, Zenon DEF TypeOK
  <2>3. Captured(c)' = Captured(c) /\ Missed(c)' = Missed(c)
    BY <2>2, Zenon DEF Captured, Missed
  <2> QED
    BY <1>1, <2>3, FeedStays
<1>8. [Feed(d)!Next]_(Feed(d)!vars)
  <2>0. \A m \in 1..MaxMsg : <<d, m>> \in Post
    BY DEF Post
  <2>1. CASE UNCHANGED <<status, dropped>>
    <3>1. Captured(d)' = Captured(d) /\ Missed(d)' = Missed(d)
      BY <2>1, Zenon DEF Captured, Missed
    <3> QED
      BY <1>1, <3>1, FeedStays
  <2>2. CASE /\ status' = [status EXCEPT ![p] = "received"]
             /\ dropped' = dropped \ {p}
    <3>1. Captured(d)' = Captured(d) \cup {k} /\ Missed(d)' = Missed(d) \ {k}
      <4>1. \A m \in 1..MaxMsg :
              status'[<<d, m>>] = IF m = k THEN "received" ELSE status[<<d, m>>]
        BY <1>5, <2>0, <2>2, Zenon DEF TypeOK
      <4>2. "received" # "none"
        OBVIOUS
      <4>3. Captured(d)' = Captured(d) \cup {k}
        BY <1>4, <4>1, <4>2, Zenon DEF Captured
      <4>4. Missed(d)' = Missed(d) \ {k}
        BY <1>5, <2>2, Zenon DEF Missed
      <4> QED
        BY <4>3, <4>4
    <3>2. cursor[d] \in cursor[d]..published[d]
          /\ {k} \in SUBSET ((cursor[d] + 1)..published[d])
      BY <1>3, <1>4
    <3>3. 1..cursor[d] \subseteq Captured(d)' \cup Missed(d)'
      <4>1. ASSUME NEW m \in 1..cursor[d] PROVE m \in Captured(d) \cup Missed(d)
        <5>1. m \in 1..MaxMsg
          BY <1>4
        <5> QED
          BY <5>1, Zenon DEF CursorCovers, Covered, Captured, Missed
      <4> QED
        BY <3>1, <4>1, Zenon
    <3> QED
      BY <1>1, <3>1, <3>2, <3>3, CaptureFeeds, Zenon
  <2>3. CASE /\ UNCHANGED status /\ status[p] = "none"
             /\ dropped' = dropped \cup {p}
    <3>1. Captured(d)' = Captured(d) /\ Missed(d)' = Missed(d) \cup {k}
      BY <1>4, <1>5, <2>3, Zenon DEF Captured, Missed
    <3>2. {k} \in SUBSET ((1..published[d]) \ Captured(d))
      <4>1. k \in 1..published[d]
        BY <1>3, <1>4
      <4>2. k \notin Captured(d)
        BY <1>3, <2>3, Zenon DEF Captured
      <4> QED
        BY <4>1, <4>2, Zenon
    <3> QED
      BY <1>1, <3>1, <3>2, GiveUpFeeds, Zenon
  <2> QED
    BY <1>6, <2>1, <2>2, <2>3
<1> QED
  BY <1>7, <1>8, Zenon DEF FeedsGoOn

\* The cursor jumps over the slice, all of which the loop has passed.
LEMMA AdvanceFeeds ==
  ASSUME TypeOK, FetchedInv, ClientInv, CursorCovers', AdvanceCursor
  PROVE  FeedsGoOn
<1>1. UNCHANGED <<published, status, dropped>> /\ pc = "advance"
  BY DEF AdvanceCursor, world, posts, history
<1>2. \A c \in Channel : Captured(c)' = Captured(c) /\ Missed(c)' = Missed(c)
  BY <1>1, Zenon DEF Captured, Missed
<1>3. CASE UNCHANGED cursor
  <2>1. \A c \in Channel : [Feed(c)!Next]_(Feed(c)!vars)
    BY <1>1, <1>2, <1>3, FeedStays, Zenon
  <2> QED
    BY <2>1, Zenon DEF FeedsGoOn
<1>4. CASE ~UNCHANGED cursor
  <2>1. Len(fetched) \in Nat /\ Len(fetched) \in 1..Len(fetched)
    BY <1>1, LenProperties DEF FetchedInv, TypeOK
  <2>2. PICK d \in Channel :
          /\ fetched[Len(fetched)] = <<d, taken[d] - Len(fetched) + Len(fetched)>>
          /\ cursor[d] + Len(fetched) <= taken[d]
    BY <1>1, <2>1 DEF FetchedInv
  <2>3. PICK n \in Nat : n = taken[d] /\ fetched[Len(fetched)] = <<d, n>>
    BY <2>1, <2>2 DEF TypeOK
  <2>4. n <= published[d] /\ cursor[d] < n
    <3>1. taken[d] <= published[d]
      BY DEF ClientInv, TypeOK
    <3> QED
      BY <2>1, <2>2, <2>3, <3>1 DEF TypeOK
  <2>5. cursor' = [cursor EXCEPT ![d] = n]
    BY <1>4, <2>3 DEF AdvanceCursor
  <2>6. cursor'[d] = n /\ \A c \in Channel \ {d} : cursor'[c] = cursor[c]
    BY <2>5, Zenon DEF TypeOK
  <2>7. published[d] \in 0..MaxMsg /\ cursor[d] \in 0..MaxMsg
    BY DEF TypeOK
  <2>8. ASSUME NEW c \in Channel PROVE [Feed(c)!Next]_(Feed(c)!vars)
    <3>1. CASE c # d
      BY <1>1, <1>2, <2>6, <3>1, FeedStays, Zenon
    <3>2. CASE c = d
      <4>1. n \in cursor[d]..published[d] /\ {} \in SUBSET ((cursor[d] + 1)..published[d])
        BY <2>4, <2>7
      <4>2. Captured(d)' = Captured(d) \cup {} /\ Missed(d)' = Missed(d) \ {}
        BY <1>2, Zenon
      <4>3. 1..n \subseteq Captured(d)' \cup Missed(d)'
        <5>1. ASSUME NEW m \in 1..n PROVE m \in Captured(d) \cup Missed(d)
          <6>1. m \in 1..MaxMsg
            BY <2>4, <2>7
          <6>2. status[<<d, m>>] # "none" \/ <<d, m>> \in dropped
            BY <1>1, <2>6, Zenon DEF CursorCovers, Covered
          <6> QED
            BY <6>1, <6>2, Zenon DEF Captured, Missed
        <5> QED
          BY <1>2, <5>1, Zenon
      <4>4. [Feed(d)!Next]_(Feed(d)!vars)
        BY <1>1, <2>6, <4>1, <4>2, <4>3, CaptureFeeds, Zenon
      <4> QED
        BY <3>2, <4>4
    <3> QED
      BY <3>1, <3>2
  <2> QED
    BY <2>8, Zenon DEF FeedsGoOn
<1> QED
  BY <1>3, <1>4

\* A process that ends gives up what Telegram has forgotten and the store does
\* not hold.
LEMMA EndFeeds ==
  ASSUME TypeOK, ClientInv, ProcessDies PROVE FeedsGoOn
<1> SUFFICES ASSUME NEW c \in Channel PROVE [Feed(c)!Next]_(Feed(c)!vars)
  BY Zenon DEF FeedsGoOn
<1> DEFINE S == {m \in 1..MaxMsg : <<c, m>> \in Forgotten}
<1>1. UNCHANGED <<published, cursor, status>> /\ dropped' = dropped \cup Forgotten
  BY Zenon DEF ProcessDies, world, chans, posts
<1>2. Captured(c)' = Captured(c) /\ Missed(c)' = Missed(c) \cup S
  BY <1>1, Zenon DEF Captured, Missed
<1>3. S \in SUBSET ((1..published[c]) \ Captured(c))
  <2>1. /\ confirmed[c] \in Nat /\ received[c] \in Nat /\ published[c] \in Nat
        /\ confirmed[c] <= published[c]
    BY DEF TypeOK, ClientInv
  <2>2. ASSUME NEW m \in S PROVE m \in (1..published[c]) \ Captured(c)
    <3>1. m \in 1..MaxMsg /\ m <= confirmed[c] /\ status[<<c, m>>] = "none"
      BY DEF Forgotten
    <3> QED
      BY <2>1, <3>1 DEF Captured
  <2> QED
    BY <2>2
<1> HIDE DEF S
<1> QED
  BY <1>1, <1>2, <1>3, GiveUpFeeds, Zenon

\* Every step of the cycle is a step of every feed, or none.
LEMMA FeedStep ==
  ASSUME TypeOK, Ingested, BundleInv, CursorCovers', [Next]_vars
  PROVE  FeedsGoOn
<1>1. CASE Upsert
  BY <1>1, UpsertFeeds DEF Ingested
<1>2. CASE AdvanceCursor
  BY <1>2, AdvanceFeeds DEF Ingested
<1>3. CASE ProcessDies
  BY <1>3, EndFeeds DEF Ingested
<1>4. CASE ~Upsert /\ ~AdvanceCursor /\ ~ProcessDies
  <2>1. UNCHANGED cursor
    BY <1>4 DEF Next, vars, CycleStep, Environment, Process, Tick, ListChannels,
         Fetch, FetchFails, FetchDone, Dedup, LoadReceived, Summarize,
         SummarizeDone, Bundle, MarkIncluded, SendPart, SendFails,
         SendNothing, MarkOutcome, MarkDone, Record, Finish, Crash, Shutdown,
         Exit, Boot, Publish, SetChat, Poll, chans
  <2>2. UNCHANGED dropped /\ \A q \in Post : status'[q] = "none" <=> status[q] = "none"
    BY <1>4, RowsAppear, DroppedFrame
  <2>3. ASSUME NEW c \in Channel
        PROVE  Captured(c)' = Captured(c) /\ Missed(c)' = Missed(c)
    <3>1. \A m \in 1..MaxMsg : <<c, m>> \in Post
      BY DEF Post
    <3> QED
      BY <2>2, <3>1, Zenon DEF Captured, Missed
  <2>4. ASSUME NEW c \in Channel PROVE [Feed(c)!Next]_(Feed(c)!vars)
    <3>1. published'[c] = published[c] \/ published'[c] = published[c] + 1
      BY PublishedGrows, Zenon DEF TypeOK
    <3>2. CASE published'[c] = published[c]
      BY <2>1, <2>3, <3>2, FeedStays, Zenon
    <3>3. CASE published'[c] = published[c] + 1
      <4>1. Feed(c)!Publish
        BY <2>1, <2>3, <3>3, Zenon DEF Feed!Publish, Captured, Missed
      <4> QED
        BY <4>1, Zenon DEF Feed!Next
    <3> QED
      BY <3>1, <3>2, <3>3
  <2> QED
    BY <2>4, Zenon DEF FeedsGoOn
<1> QED
  BY <1>1, <1>2, <1>3, <1>4

\* Polling, fetching, storing and advancing the cursor implement the feed of
\* every channel, wherever the process dies and whatever the store refuses.
THEOREM CycleImplementsFeed == Spec => ImplementsFeed
<1> DEFINE IInv == TypeOK /\ Ingested /\ BundleInv
<1>1. TypeOK /\ QueueInv => IInv
  BY DEF QueueInv, Ingested
<1>2. Init => \A c \in Channel : Feed(c)!Init
  <2> SUFFICES ASSUME Init, NEW c \in Channel PROVE Feed(c)!Init
    OBVIOUS
  <2>1. \A m \in 1..MaxMsg : <<c, m>> \in Post
    BY DEF Post
  <2> QED
    BY <2>1, Zenon DEF Init, Feed!Init
<1>3. IInv /\ IInv' /\ [Next]_vars
        => [\A c \in Channel : [Feed(c)!Next]_(Feed(c)!vars)]_vars
  BY FeedStep DEF FeedsGoOn, Ingested
<1> QED
  BY <1>1, <1>2, <1>3, QueueInvariant, PTL DEF Spec, ImplementsFeed

============================================================================
