------------------------- MODULE ChannelAdminProofs -------------------------
(***************************************************************************)
(* Proofs about ChannelAdmin: references stay valid, and no cursor passes  *)
(* a message that was not stored, while rows come and go under the cycle.  *)
(***************************************************************************)
EXTENDS ChannelAdmin, TLAPS, WellFoundedInduction

\* A set of numbers has a least element, and a bounded one a greatest.
LEMMA OldestSpec ==
  ASSUME NEW T \in SUBSET Nat, T # {}
  PROVE  Oldest(T) \in T /\ \A y \in T : Oldest(T) <= y
<1>1. PICK x \in T : \A y \in T : <<y, x>> \notin OpToRel(<, Nat)
  BY WFMin, NatLessThanWellFounded, Zenon
<1>2. ASSUME NEW y \in T PROVE x <= y
  <2>1. y < x => <<y, x>> \in {ss \in Nat \X Nat : ss[1] < ss[2]}
    BY SMT
  <2>2. y < x => <<y, x>> \in OpToRel(<, Nat)
    BY <2>1, Zenon DEF OpToRel
  <2>3. ~(y < x)
    BY <1>1, <2>2, Zenon
  <2> QED
    BY <2>3, SMT
<1> QED
  BY <1>2 DEF Oldest

LEMMA NewestSpec ==
  ASSUME NEW n \in Nat, NEW T \in SUBSET (1..n), T # {}
  PROVE  Newest(T) \in T /\ \A y \in T : y <= Newest(T)
<1> DEFINE D == {n - y : y \in T}
<1>1. D \in SUBSET Nat /\ D # {}
  <2>1. \A y \in T : n - y \in Nat
    BY SMT
  <2> QED
    BY <2>1, Zenon
<1>2. PICK d \in D : \A y \in D : d <= y
  BY <1>1, OldestSpec
<1>3. PICK x \in T : d = n - x
  BY <1>2
<1>4. ASSUME NEW y \in T PROVE y <= x
  <2>1. d <= n - y
    BY <1>2, Zenon
  <2> QED
    BY <1>3, <2>1, SMT
<1> QED
  BY <1>4 DEF Newest

----------------------------------------------------------------------------

USE HandleAssumption, BoundsAssumption

IInv == TypeOK /\ ChannelInv

LEMMA Ids ==
  ASSUME NEW a \in 1..(MaxId + 1), NEW b \in 1..(MaxId + 1)
  PROVE  /\ a <= b => 1..(a - 1) \subseteq 1..(b - 1)
         /\ \A i \in 1..(b - 1) : i \in Id /\ (i \notin 1..(a - 1) => i >= a)
         /\ \A i \in 0..(a - 1) : i # 0 => i \in 1..(a - 1)
BY SMT DEF Id

LEMMA ChannelOfRow ==
  ASSUME TypeOK, RowsInv, NEW i \in 1..(nextId - 1)
  PROVE  RowChannel(i) \in Channel /\ i \in Id
BY SMT DEF TypeOK, RowsInv, RowChannel, Id

\* What Fetch hands to the cycle.
LEMMA FetchedFacts ==
  ASSUME IInv, NEW i \in 1..(nextId - 1), Fetched(i) # {}
  PROVE  /\ Fetched(i) \subseteq Msg
         /\ Newest(Fetched(i)) \in Fetched(i)
         /\ \A m \in 1..Newest(Fetched(i)) :
              m <= cursor[i] \/ m \in drained[RowChannel(i)] \/ m \in Fetched(i)
<1>1. RowChannel(i) \in Channel /\ i \in Id
  BY ChannelOfRow DEF IInv, ChannelInv
<1>2. published[RowChannel(i)] \in 0..MaxMsg /\ cursor[i] \in 0..MaxMsg
  BY <1>1 DEF IInv, TypeOK
<1>3. Fetched(i) \subseteq Msg
  BY <1>2, SMT DEF Fetched, Sent, Msg
<1>4. Newest(Fetched(i)) \in Fetched(i)
  BY <1>3, NewestSpec DEF Msg
<1>5. ASSUME NEW m \in 1..Newest(Fetched(i))
      PROVE  m <= cursor[i] \/ m \in drained[RowChannel(i)] \/ m \in Fetched(i)
  <2>1. Newest(Fetched(i)) \in 1..published[RowChannel(i)]
    BY <1>4, Zenon DEF Fetched, Sent
  <2>2. m \in Sent(RowChannel(i))
    BY <1>2, <2>1, SMT DEF Sent
  <2>3. m > cursor[i] \/ m <= cursor[i]
    BY <1>2, <2>1, SMT
  <2> QED
    BY <2>2, <2>3, Zenon DEF Fetched
<1> QED
  BY <1>3, <1>4, <1>5

----------------------------------------------------------------------------
(* What a step keeps. *)

\* Rows keep their channel, what is stored stays stored, and what was removed
\* stays removed.
Keeps ==
  /\ nextId <= nextId'
  /\ \A i \in 1..(nextId - 1) : handle'[i] = handle[i]
  /\ \A i \in 1..(nextId - 1) : i \in exists' => i \in exists
  /\ \A i \in exists : i \in exists' \/ \A m \in Msg : <<i, m>> \notin post
  /\ post \subseteq post'

LEMMA KeptFacts ==
  ASSUME IInv, Keeps, nextId' \in 1..(MaxId + 1)
  PROVE  /\ \A i \in 1..(nextId - 1) : RowChannel(i)' = RowChannel(i)
         /\ \A c \in Channel, m \in Msg : Stored(c, m) => Stored(c, m)'
         /\ \A c \in Channel : Removed(c) => Removed(c)'
<1>1. ASSUME NEW i \in 1..(nextId - 1) PROVE RowChannel(i)' = RowChannel(i)
  BY Zenon DEF Keeps, RowChannel
<1>2. exists \subseteq 1..(nextId - 1)
  BY DEF IInv, ChannelInv, RowsInv
<1>3. ASSUME NEW c \in Channel, NEW m \in Msg, Stored(c, m) PROVE Stored(c, m)'
  <2>1. PICK i \in exists : RowChannel(i) = c /\ <<i, m>> \in post
    BY <1>3, Zenon DEF Stored
  <2>2. i \in exists' /\ <<i, m>> \in post'
    BY <2>1, Zenon DEF Keeps
  <2>3. RowChannel(i)' = c
    BY <1>1, <1>2, <2>1, Zenon
  <2> QED
    BY <2>2, <2>3, Zenon DEF Stored
<1>4. ASSUME NEW c \in Channel, Removed(c) PROVE Removed(c)'
  <2>1. PICK i \in 1..(nextId - 1) : i \notin exists /\ RowChannel(i) = c
    BY <1>4, Zenon DEF Removed
  <2>2. i \in 1..(nextId' - 1)
    <3>1. nextId \in 1..(MaxId + 1) /\ nextId <= nextId'
      BY Zenon DEF IInv, TypeOK, Keeps
    <3> QED
      BY <2>1, <3>1, Ids, Zenon
  <2>3. i \notin exists' /\ RowChannel(i)' = c
    BY <1>1, <2>1, Zenon DEF Keeps
  <2> QED
    BY <2>2, <2>3, Zenon DEF Removed
<1> QED
  BY <1>1, <1>3, <1>4

\* What the cursors have passed stays stored, while rows come and go.
LEMMA CursorKept ==
  ASSUME IInv, Keeps, TypeOK', RowsInv', UNCHANGED <<cursor, source>>
  PROVE  CursorPassesNothing'
<1>0. nextId' \in 1..(MaxId + 1) /\ nextId \in 1..(MaxId + 1)
  BY DEF TypeOK, IInv
<1> USE DEF IInv, ChannelInv
<1>1. ASSUME NEW i \in exists', NEW m \in 1..cursor'[i]
      PROVE  \/ <<i, m>> \in post'
             \/ /\ source' = "longpoll"
                /\ (Stored(RowChannel(i), m) \/ Removed(RowChannel(i)))'
  <2>1. CASE i \in 1..(nextId - 1)
    <3>1. i \in exists /\ m \in 1..cursor[i]
      BY <1>1, <2>1, Zenon DEF Keeps
    <3>2. m \in Msg
      BY <2>1, <3>1, ChannelOfRow, SMT DEF TypeOK, Msg
    <3>3. PICK c \in Channel : c = RowChannel(i)
      BY <2>1, ChannelOfRow
    <3>4. RowChannel(i)' = c /\ post \subseteq post'
      BY <1>0, <2>1, <3>3, KeptFacts, Zenon DEF Keeps
    <3>5. (Stored(c, m) => Stored(c, m)') /\ (Removed(c) => Removed(c)')
      BY <1>0, <3>2, KeptFacts, Zenon
    <3>6. \/ <<i, m>> \in post
          \/ source = "longpoll" /\ (Stored(c, m) \/ Removed(c))
      BY <3>1, <3>3, Zenon DEF CursorPassesNothing
    <3> QED
      BY <3>4, <3>5, <3>6, Zenon
  <2>2. CASE i \notin 1..(nextId - 1)
    <3>1. i \in Id /\ i >= nextId
      <4>1. i \in 1..(nextId' - 1)
        BY <1>1, Zenon DEF RowsInv
      <4> QED
        BY <1>0, <2>2, <4>1, Ids, Zenon
    <3>2. cursor'[i] = 0
      BY <3>1, Zenon DEF RowsInv
    <3>3. m \in 1..0
      BY <1>1, <3>2, Zenon
    <3> QED
      BY <3>3, SMT
  <2> QED
    BY <2>1, <2>2
<1> QED
  BY <1>1, Zenon DEF CursorPassesNothing

\* A step of the panel, or one of the cycle outside of its batch.
LEMMA OutsideBatch ==
  ASSUME IInv, Keeps, TypeOK', RowsInv',
         UNCHANGED <<cursor, source, drained, current, batch, last>>,
         pc' = "store" <=> pc = "store"
  PROVE  BatchInv' /\ CursorPassesNothing' /\ DrainedIsStored'
<1>0. nextId' \in 1..(MaxId + 1) /\ nextId \in 1..(MaxId + 1)
  BY DEF TypeOK, IInv
<1> USE DEF IInv, ChannelInv
<1>2. ASSUME NEW c \in Channel, NEW m \in drained'[c]
      PROVE  \/ Stored(c, m)' \/ Removed(c)'
             \/ pc' = "store" /\ m \in batch' /\ RowChannel(current)' = c
  <2>1. m \in Msg /\ m \in drained[c]
    BY <1>2, Zenon DEF TypeOK
  <2>2. CASE Stored(c, m) \/ Removed(c)
    BY <1>0, <2>1, <2>2, KeptFacts, Zenon
  <2>3. CASE pc = "store" /\ m \in batch /\ RowChannel(current) = c
    <3>1. current \in 1..(nextId - 1)
      <4>1. current # 0 /\ current \in 0..(nextId - 1)
        BY <2>3, Zenon DEF BatchInv, RowsInv
      <4> QED
        BY <1>0, <4>1, SMT
    <3> QED
      BY <1>0, <2>3, <3>1, KeptFacts, Zenon
  <2> QED
    BY <2>1, <2>2, <2>3, Zenon DEF DrainedIsStored
<1>3. BatchInv'
  <2> SUFFICES ASSUME pc' = "store", current' \in exists'
               PROVE  /\ last' \in Msg
                      /\ last' \in batch' \/ <<current', last'>> \in post'
                      /\ \A m \in 1..last' :
                           \/ m \in batch' \/ <<current', m>> \in post'
                           \/ /\ source' = "longpoll"
                              /\ (\/ Stored(RowChannel(current), m)
                                  \/ Removed(RowChannel(current)))'
    BY Zenon DEF BatchInv
  <2>1. current \in 1..(nextId - 1) /\ pc = "store"
    <3>1. current # 0 /\ current \in 0..(nextId - 1)
      BY Zenon DEF BatchInv, RowsInv
    <3> QED
      BY <1>0, <3>1, SMT
  <2>2. current \in exists
    BY <2>1, Zenon DEF Keeps
  <2>3. PICK c \in Channel : c = RowChannel(current)
    BY <2>1, ChannelOfRow
  <2>4. RowChannel(current)' = c /\ post \subseteq post'
    BY <1>0, <2>1, <2>3, KeptFacts, Zenon DEF Keeps
  <2>5. last \in Msg /\ (last \in batch \/ <<current, last>> \in post)
    BY <2>1, <2>2, Zenon DEF BatchInv
  <2>6. ASSUME NEW m \in 1..last
        PROVE  \/ m \in batch \/ <<current, m>> \in post'
               \/ source = "longpoll" /\ (Stored(c, m)' \/ Removed(c)')
    <3>1. m \in Msg
      BY <2>5, SMT DEF Msg
    <3>2. \/ m \in batch \/ <<current, m>> \in post
          \/ source = "longpoll" /\ (Stored(c, m) \/ Removed(c))
      BY <2>1, <2>2, <2>3, Zenon DEF BatchInv
    <3> QED
      BY <1>0, <2>4, <3>1, <3>2, KeptFacts, Zenon
  <2> QED
    BY <2>4, <2>5, <2>6, Zenon
<1> QED
  BY <1>2, <1>3, CursorKept, Zenon DEF DrainedIsStored

\* Handles are unique among the rows that posts refer to.
LEMMA OutsideCursor ==
  ASSUME IInv, Keeps, RowsInv', References', TypeOK', UNCHANGED cursor
  PROVE  NoRecapture'
<1> USE DEF IInv, ChannelInv
<1>1. ASSUME NEW p \in post', NEW q \in post',
             p[2] = q[2], handle'[p[1]] = handle'[q[1]]
      PROVE  p[1] = q[1]
  BY <1>1, Zenon DEF References, RowsInv
<1>2. ASSUME NEW i \in exists', cursor'[i] # 0
      PROVE  <<i, cursor'[i]>> \in post'
  <2>1. i \in 1..(nextId' - 1) /\ nextId \in 1..(MaxId + 1) /\ nextId' \in 1..(MaxId + 1)
    BY Zenon DEF RowsInv, TypeOK
  <2>2. i \in Id /\ (i \notin 1..(nextId - 1) => i >= nextId)
    BY <2>1, Ids, Zenon
  <2>3. i \in 1..(nextId - 1)
    BY <1>2, <2>2, Zenon DEF RowsInv
  <2>4. i \in exists
    BY <2>3, Zenon DEF Keeps
  <2> QED
    BY <1>2, <2>4, Zenon DEF NoRecapture, Keeps
<1> QED
  BY <1>1, <1>2, Zenon DEF NoRecapture

\* Steps that change no row.
LEMMA SameRows ==
  ASSUME IInv, UNCHANGED <<exists, handle, nextId>>, post \subseteq post'
  PROVE  Keeps
<1>1. nextId <= nextId
  BY SMT DEF IInv, TypeOK
<1> QED
  BY <1>1, Zenon DEF Keeps

LEMMA Outside ==
  ASSUME IInv, Keeps, TypeOK', RowsInv', References',
         UNCHANGED <<cursor, source, drained, current, batch, last>>,
         pc' = "store" <=> pc = "store"
  PROVE  IInv'
<1>1. BatchInv' /\ CursorPassesNothing' /\ DrainedIsStored'
  BY OutsideBatch
<1>2. NoRecapture'
  BY OutsideCursor
<1> QED
  BY <1>1, <1>2, Zenon DEF IInv, ChannelInv

----------------------------------------------------------------------------
(* The channel and the panel. *)

LEMMA PublishStep ==
  ASSUME IInv, NEW c \in Channel, Publish(c) PROVE IInv'
<1> USE DEF IInv, ChannelInv
<1>1. published' \in [Channel -> 0..MaxMsg]
  BY SMT DEF TypeOK, Publish
<1>2. UNCHANGED <<exists, handle, active, cursor, nextId, post, item, source, drained,
                  pc, todo, current, batch, last, removing, failures>>
  BY Zenon DEF Publish, table, cycle
<1>3. TypeOK'
  BY <1>1, <1>2, Zenon DEF TypeOK
<1>4. RowsInv' /\ References'
  BY <1>2, Zenon DEF RowsInv, References
<1> QED
  BY <1>2, <1>3, <1>4, SameRows, Outside, Zenon

LEMMA AddStep ==
  ASSUME IInv, NEW h \in Handle, Add(h) PROVE IInv'
<1> USE DEF IInv, ChannelInv
<1>0. nextId \in Id /\ nextId' = nextId + 1 /\ nextId \in 1..(MaxId + 1)
      /\ nextId' \in 1..(MaxId + 1) /\ nextId \notin 1..(nextId - 1)
      /\ 1..(nextId' - 1) = 1..(nextId - 1) \cup {nextId}
      /\ nextId <= nextId'
  BY SMT DEF TypeOK, Add, Id
<1>1. UNCHANGED <<cursor, post, item, source, published, drained,
                  pc, todo, current, batch, last, removing, failures>>
  BY Zenon DEF Add, telegram, cycle
<1>2. exists' = exists \cup {nextId} /\ handle' = [handle EXCEPT ![nextId] = h]
      /\ active' = [active EXCEPT ![nextId] = TRUE]
  BY Zenon DEF Add
<1>3. TypeOK'
  BY <1>0, <1>1, <1>2, Zenon DEF TypeOK
<1>4. exists \subseteq 1..(nextId - 1)
  BY Zenon DEF RowsInv
<1>5. handle'[nextId] = h /\ \A i \in 1..(nextId - 1) : handle'[i] = handle[i]
  <2>1. 1..(nextId - 1) \subseteq Id
    BY SMT DEF TypeOK, Id
  <2> QED
    BY <1>0, <1>2, <2>1, Zenon DEF TypeOK
<1>6. Keeps
  BY <1>0, <1>1, <1>2, <1>5, Zenon DEF Keeps
<1>7. RowsInv'
  <2>1. exists' \subseteq 1..(nextId' - 1) /\ todo' \subseteq 1..(nextId' - 1)
    BY <1>0, <1>1, <1>2, Zenon DEF RowsInv
  <2>2. current' \in 0..(nextId' - 1) /\ removing' \in 0..(nextId' - 1)
    BY <1>0, <1>1, SMT DEF RowsInv
  <2>3. \A i \in 1..(nextId' - 1) : handle'[i] \in Handle
    BY <1>0, <1>5, Zenon DEF RowsInv
  <2>4. \A i, j \in exists' : handle'[i] = handle'[j] => i = j
    <3>1. \A i \in exists : handle[i] # h /\ handle'[i] = handle[i]
      BY <1>4, <1>5, Zenon DEF Add, Free
    <3>2. \A i, j \in exists : handle[i] = handle[j] => i = j
      BY Zenon DEF RowsInv
    <3> SUFFICES ASSUME NEW i \in exists', NEW j \in exists', handle'[i] = handle'[j]
                 PROVE  i = j
      OBVIOUS
    <3>3. (i \in exists \/ i = nextId) /\ (j \in exists \/ j = nextId)
      BY <1>2, Zenon
    <3> QED
      BY <1>5, <3>1, <3>2, <3>3, Zenon
  <2>5. \A i \in Id : i >= nextId' => cursor'[i] = 0
    <3>1. \A i \in Id : i >= nextId' => i >= nextId
      BY <1>0, SMT DEF Id
    <3> QED
      BY <1>1, <3>1, Zenon DEF RowsInv
  <2> QED
    BY <2>1, <2>2, <2>3, <2>4, <2>5, Zenon DEF RowsInv
<1>8. References'
  BY <1>1, <1>2, Zenon DEF References
<1> QED
  BY <1>1, <1>3, <1>6, <1>7, <1>8, Outside, Zenon

LEMMA RemoveStep ==
  ASSUME IInv, DeleteRow \/ \E i \in Id : CountItems(i) PROVE IInv'
<1> USE DEF IInv, ChannelInv
<1>1. ASSUME NEW i \in Id, CountItems(i) PROVE IInv'
  <2>1. UNCHANGED <<exists, handle, active, cursor, nextId, post, item, source,
                    published, drained, pc, todo, current, batch, last, failures>>
    BY <1>1, Zenon DEF CountItems, table, telegram, cycle
  <2>2. removing' = i /\ i \in exists
    BY <1>1, Zenon DEF CountItems
  <2>3. i \in 0..(nextId - 1)
    BY <2>2, SMT DEF RowsInv, TypeOK
  <2>4. TypeOK'
    BY <2>1, <2>2, Zenon DEF TypeOK
  <2>5. RowsInv' /\ References'
    BY <2>1, <2>2, <2>3, Zenon DEF RowsInv, References
  <2> QED
    BY <2>1, <2>4, <2>5, SameRows, Outside, Zenon
<1>2. CASE DeleteRow
  <2>1. UNCHANGED <<handle, active, cursor, nextId, post, item, source, published,
                    drained, pc, todo, current, batch, last, failures>>
    BY <1>2, Zenon DEF DeleteRow, telegram, cycle
  <2>2. /\ removing' = 0 /\ exists' \subseteq exists
        /\ \A i \in exists : i \in exists' \/ Rows(post, i) = {}
    BY <1>2, Zenon DEF DeleteRow, Referenced
  <2>3. \A i \in exists : i \in exists' \/ \A r \in post : r[1] # i
    BY <2>2, Zenon DEF Rows
  <2>4. \A i \in exists : i \in exists' \/ \A m \in Msg : <<i, m>> \notin post
    BY <2>3, SMT
  <2>5. nextId <= nextId' /\ 0 \in 0..(nextId - 1)
    BY <2>1, SMT DEF TypeOK
  <2>6. Keeps
    BY <2>1, <2>2, <2>4, <2>5, Zenon DEF Keeps
  <2>7. TypeOK'
    BY <2>1, <2>2, Zenon DEF TypeOK
  <2>8. RowsInv'
    BY <2>1, <2>2, <2>5, Zenon DEF RowsInv
  <2>9. References'
    BY <2>1, <2>3, Zenon DEF References
  <2> QED
    BY <2>1, <2>6, <2>7, <2>8, <2>9, Outside, Zenon
<1> QED
  BY <1>1, <1>2, Zenon

----------------------------------------------------------------------------
(* The cycle, outside of its batch. *)

LEMMA CycleStepOutside ==
  ASSUME IInv,
         List \/ FetchDone \/ Finish
         \/ (\E i \in Id : FetchFails(i)) \/ (\E p \in post : AddItem(p))
  PROVE  IInv'
<1> USE DEF IInv, ChannelInv
<1>1. UNCHANGED <<exists, handle, cursor, nextId, post, source, published, drained,
                  current, batch, last, removing>>
  BY Zenon DEF List, FetchDone, Finish, FetchFails, AddItem, table, telegram, cycle
<1>2. pc' = "store" <=> pc = "store"
  BY Zenon DEF List, FetchDone, Finish, FetchFails, AddItem, cycle
<1>3. todo' \subseteq todo \cup exists
  BY Zenon DEF List, FetchDone, Finish, FetchFails, AddItem, cycle
<1>4. item' \subseteq post
  BY Zenon DEF List, FetchDone, Finish, FetchFails, AddItem, References
<1>5. TypeOK'
  <2>1. todo' \subseteq Id /\ item' \subseteq Id \X Msg
    BY <1>3, <1>4, Zenon DEF TypeOK
  <2>2. pc' \in {"idle", "fetch", "store", "deliver"}
    BY Zenon DEF List, FetchDone, Finish, FetchFails, AddItem, cycle, TypeOK
  <2>3. active' \in [Id -> BOOLEAN]
    BY Zenon DEF List, FetchDone, Finish, FetchFails, AddItem, table, TypeOK
  <2>4. failures' \in 0..MaxFailures
    <3>1. \/ failures' = failures
          \/ failures < MaxFailures /\ failures' = failures + 1
      BY Zenon DEF List, FetchDone, Finish, FetchFails, AddItem
    <3> QED
      BY <3>1, SMT DEF TypeOK
  <2> QED
    BY <1>1, <2>1, <2>2, <2>3, <2>4, Zenon DEF TypeOK
<1>6. RowsInv' /\ References'
  BY <1>1, <1>3, <1>4, Zenon DEF RowsInv, References
<1>7. Keeps
  BY <1>1, SameRows, Zenon
<1> QED
  BY <1>1, <1>2, <1>5, <1>6, <1>7, Outside, Zenon

----------------------------------------------------------------------------
(* The batch. *)

LEMMA FetchStep ==
  ASSUME IInv, NEW i \in Id, Fetch(i) PROVE IInv'
<1> USE DEF IInv, ChannelInv
<1>1. UNCHANGED <<exists, handle, active, cursor, nextId, post, item, source,
                  published, removing, failures>>
  BY Zenon DEF Fetch, table
<1>2. i \in 1..(nextId - 1) /\ todo' = todo \ {i} /\ pc = "fetch"
  BY Zenon DEF Fetch, RowsInv
<1>3. CASE Fetched(i) = {}
  <2>1. UNCHANGED <<pc, current, batch, last, drained>>
    BY <1>3, Zenon DEF Fetch
  <2>2. TypeOK' /\ RowsInv' /\ References'
    BY <1>1, <1>2, <2>1, Zenon DEF TypeOK, RowsInv, References
  <2> QED
    BY <1>1, <2>1, <2>2, SameRows, Outside, Zenon
<1>4. CASE Fetched(i) # {}
  <2> DEFINE c == RowChannel(i)
  <2>1. /\ pc' = "store" /\ current' = i
        /\ batch' = Fetched(i) /\ last' = Newest(Fetched(i))
        /\ drained' = IF source = "longpoll"
                      THEN [drained EXCEPT ![c] = @ \cup Fetched(i)] ELSE drained
    BY <1>4, Zenon DEF Fetch
  <2>2. /\ Fetched(i) \subseteq Msg /\ Newest(Fetched(i)) \in Fetched(i)
        /\ \A m \in 1..Newest(Fetched(i)) :
             m <= cursor[i] \/ m \in drained[c] \/ m \in Fetched(i)
    BY <1>2, <1>4, FetchedFacts
  <2>3. c \in Channel
    BY <1>2, ChannelOfRow
  <2>4. last' \in Msg /\ last' \in 0..MaxMsg
    BY <2>1, <2>2, SMT DEF Msg
  <2>5. drained' \in [Channel -> SUBSET Msg]
    BY <2>1, <2>2, Zenon DEF TypeOK
  <2>6. TypeOK'
    BY <1>1, <1>2, <2>1, <2>2, <2>4, <2>5, Zenon DEF TypeOK
  <2>7. i \in 0..(nextId - 1) /\ i # 0
    BY <1>2, SMT
  <2>8. RowsInv' /\ References'
    BY <1>1, <1>2, <2>1, <2>7, Zenon DEF RowsInv, References
  <2>9. Keeps
    BY <1>1, SameRows, Zenon
  <2>10. NoRecapture'
    BY <1>1, <2>6, <2>8, <2>9, OutsideCursor, Zenon
  <2>11. \A r, m : Stored(r, m)' = Stored(r, m)
    BY <1>1, Zenon DEF Stored, RowChannel
  <2>12. \A r : Removed(r)' = Removed(r)
    BY <1>1, Zenon DEF Removed, RowChannel
  <2>13. \A j : RowChannel(j)' = RowChannel(j)
    BY <1>1, Zenon DEF RowChannel
  <2>14. \A d \in Channel : \A m \in drained[d] : Stored(d, m) \/ Removed(d)
    BY <1>2, Zenon DEF DrainedIsStored
  <2>15. CursorPassesNothing'
    BY <1>1, <2>6, <2>8, <2>9, CursorKept, Zenon
  <2>16. DrainedIsStored'
    <3> SUFFICES ASSUME NEW d \in Channel, NEW m \in drained'[d]
                 PROVE  \/ Stored(d, m)' \/ Removed(d)'
                        \/ pc' = "store" /\ m \in batch' /\ RowChannel(current)' = d
      BY Zenon DEF DrainedIsStored
    <3>1. CASE m \in drained[d]
      BY <2>11, <2>12, <2>14, <3>1, Zenon
    <3>2. CASE m \notin drained[d]
      <4>1. d = c /\ m \in Fetched(i)
        BY <2>1, <3>2, Zenon DEF TypeOK
      <4> QED
        BY <1>1, <2>1, <4>1, Zenon DEF RowChannel
    <3> QED
      BY <3>1, <3>2
  <2>17. BatchInv'
    <3>1. source = "preview" => \A d \in Channel : drained'[d] = {}
      BY <2>1, Zenon DEF BatchInv
    <3>2. ASSUME i \in exists, NEW m \in 1..last'
          PROVE  \/ m \in batch' \/ <<i, m>> \in post
                 \/ source = "longpoll" /\ (Stored(c, m) \/ Removed(c))
      <4>1. CASE m <= cursor[i]
        <5>1. m \in 1..cursor[i]
          BY <2>4, <4>1, SMT DEF TypeOK
        <5> QED
          BY <3>2, <5>1, Zenon DEF CursorPassesNothing
      <4>2. CASE m \in drained[c]
        BY <2>3, <2>14, <4>2, Zenon DEF BatchInv, TypeOK
      <4>3. CASE m \in Fetched(i)
        BY <2>1, <4>3, Zenon
      <4> QED
        BY <2>1, <2>2, <4>1, <4>2, <4>3, Zenon
    <3>3. ASSUME NEW m PROVE (Stored(RowChannel(current), m) \/ Removed(RowChannel(current)))'
                             <=> Stored(c, m) \/ Removed(c)
      BY <1>1, <2>1, Zenon DEF Stored, Removed, RowChannel
    <3> QED
      BY <1>1, <2>1, <2>2, <2>4, <2>7, <3>1, <3>2, <3>3, Zenon DEF BatchInv
  <2> QED
    BY <2>6, <2>8, <2>10, <2>15, <2>16, <2>17, Zenon
<1> QED
  BY <1>3, <1>4

LEMMA UpsertStep ==
  ASSUME IInv, Upsert PROVE IInv'
<1> USE DEF IInv, ChannelInv
<1>0. PICK o \in batch : o = Oldest(batch)
  <2>1. batch \in SUBSET Nat /\ batch # {}
    BY SMT DEF TypeOK, Msg, Upsert
  <2> QED
    BY <2>1, OldestSpec, Zenon
<1>1. UNCHANGED <<exists, handle, active, cursor, nextId, item, source, published,
                  drained, pc, todo, current, last, removing, failures>>
  BY Zenon DEF Upsert, table, telegram
<1>2. /\ pc = "store" /\ batch' = batch \ {o}
      /\ post' = IF current \in exists THEN post \cup {<<current, o>>} ELSE post
  BY <1>0, Zenon DEF Upsert, Inserted
<1>3. o \in Msg
  BY Zenon DEF TypeOK
<1>4. current \in 1..(nextId - 1) /\ current \in Id
  <2>1. current # 0 /\ current \in 0..(nextId - 1) /\ nextId \in 1..(MaxId + 1)
    BY <1>2, Zenon DEF BatchInv, RowsInv, TypeOK
  <2> QED
    BY <2>1, Ids, Zenon
<1>5. TypeOK'
  <2>1. <<current, o>> \in Id \X Msg
    BY <1>3, <1>4, Zenon
  <2> QED
    BY <1>1, <1>2, <2>1, Zenon DEF TypeOK
<1>6. RowsInv' /\ References'
  BY <1>1, <1>2, SMT DEF RowsInv, References
<1>7. Keeps
  BY <1>1, <1>2, SameRows, Zenon
<1>8. CursorPassesNothing' /\ NoRecapture'
  BY <1>1, <1>5, <1>6, <1>7, CursorKept, OutsideCursor, Zenon
<1>9. PICK c \in Channel : c = RowChannel(current) /\ RowChannel(current)' = c
  BY <1>1, <1>4, ChannelOfRow, Zenon DEF RowChannel
<1>10. nextId' \in 1..(MaxId + 1)
  BY <1>5, Zenon DEF TypeOK
<1>11. Stored(c, o)' \/ Removed(c)'
  <2>1. CASE current \in exists
    BY <1>1, <1>2, <1>9, <2>1, Zenon DEF Stored, RowChannel
  <2>2. CASE current \notin exists
    BY <1>1, <1>4, <1>9, <2>2, Zenon DEF Removed, RowChannel
  <2> QED
    BY <2>1, <2>2
<1>12. DrainedIsStored'
  <2> SUFFICES ASSUME NEW d \in Channel, NEW m \in drained[d]
               PROVE  \/ Stored(d, m)' \/ Removed(d)'
                      \/ pc' = "store" /\ m \in batch' /\ RowChannel(current)' = d
    BY <1>1, Zenon DEF DrainedIsStored
  <2>1. m \in Msg
    BY Zenon DEF TypeOK
  <2>2. CASE Stored(d, m) \/ Removed(d)
    BY <1>7, <1>10, <2>1, <2>2, KeptFacts, Zenon
  <2>3. CASE m \in batch /\ c = d
    <3>1. m = o \/ m \in batch'
      BY <1>2, <2>3, Zenon
    <3>2. CASE m = o
      BY <1>11, <2>3, <3>2, Zenon
    <3> QED
      BY <1>1, <1>2, <1>9, <2>3, <3>1, <3>2, Zenon
  <2> QED
    BY <1>9, <2>2, <2>3, Zenon DEF DrainedIsStored
<1>13. BatchInv'
  <2>2. ASSUME current \in exists
        PROVE  /\ last \in Msg /\ (last \in batch' \/ <<current, last>> \in post')
               /\ \A m \in 1..last :
                    \/ m \in batch' \/ <<current, m>> \in post'
                    \/ source = "longpoll" /\ (Stored(c, m)' \/ Removed(c)')
    <3>1. last \in Msg /\ (last \in batch \/ <<current, last>> \in post)
      BY <1>2, <2>2, Zenon DEF BatchInv
    <3>2. \A m \in 1..last : m \in Msg
      BY <3>1, SMT DEF Msg
    <3>3. \A m \in 1..last :
            \/ m \in batch \/ <<current, m>> \in post
            \/ source = "longpoll" /\ (Stored(c, m) \/ Removed(c))
      BY <1>2, <1>9, <2>2, Zenon DEF BatchInv
    <3>4. \A m \in batch : m \in batch' \/ <<current, m>> \in post'
      BY <1>2, <2>2, Zenon
    <3> QED
      BY <1>2, <1>7, <1>10, <3>1, <3>2, <3>3, <3>4, KeptFacts, Zenon
  <2> QED
    BY <1>1, <1>2, <1>9, <2>2, Zenon DEF BatchInv
<1> QED
  BY <1>5, <1>6, <1>8, <1>12, <1>13, Zenon

\* The end of the batch is stored, and nothing before it is missing.
LEMMA AdvanceStep ==
  ASSUME IInv, AdvanceCursor PROVE IInv'
<1> USE DEF IInv, ChannelInv
<1>1. UNCHANGED <<exists, handle, active, nextId, post, item, source, published,
                  drained, todo, batch, removing, failures>>
  BY Zenon DEF AdvanceCursor, telegram
<1>2. /\ pc = "store" /\ batch = {} /\ pc' = "fetch" /\ current' = 0 /\ last' = 0
      /\ cursor' = IF current \in exists THEN [cursor EXCEPT ![current] = last]
                   ELSE cursor
  BY Zenon DEF AdvanceCursor, Advanced
<1>3. current \in 1..(nextId - 1) /\ current \in Id
  <2>1. current # 0 /\ current \in 0..(nextId - 1) /\ nextId \in 1..(MaxId + 1)
    BY <1>2, Zenon DEF BatchInv, RowsInv, TypeOK
  <2> QED
    BY <2>1, Ids, Zenon
<1>4. cursor' \in [Id -> 0..MaxMsg]
  BY <1>2, Zenon DEF TypeOK
<1>5. \A i \in Id : /\ i \notin exists => cursor'[i] = cursor[i]
                    /\ i # current => cursor'[i] = cursor[i]
                    /\ i = current /\ i \in exists => cursor'[i] = last
  BY <1>2, Zenon DEF TypeOK
<1>6. TypeOK'
  <2>1. 0 \in 0..MaxMsg
    BY SMT
  <2> QED
    BY <1>1, <1>2, <1>4, <2>1, Zenon DEF TypeOK
<1>7. RowsInv'
  <2>1. 0 \in 0..(nextId - 1)
    BY SMT DEF TypeOK
  <2>2. \A i \in exists : ~(i >= nextId)
    <3>1. \A i \in 1..(nextId - 1) : ~(i >= nextId)
      BY SMT DEF TypeOK
    <3> QED
      BY <3>1, Zenon DEF RowsInv
  <2>3. \A i \in Id : i >= nextId => cursor'[i] = 0
    BY <1>5, <2>2, Zenon DEF RowsInv
  <2> QED
    BY <1>1, <1>2, <2>1, <2>3, Zenon DEF RowsInv
<1>8. exists \subseteq Id
  BY Zenon DEF TypeOK
<1>9. \A d, m : Stored(d, m)' = Stored(d, m)
  BY <1>1, Zenon DEF Stored, RowChannel
<1>10. \A d : Removed(d)' = Removed(d)
  BY <1>1, Zenon DEF Removed, RowChannel
<1>11. CursorPassesNothing'
  <2> SUFFICES ASSUME NEW i \in exists, NEW m \in 1..cursor'[i]
               PROVE  \/ <<i, m>> \in post
                      \/ /\ source = "longpoll"
                         /\ (Stored(RowChannel(i), m) \/ Removed(RowChannel(i)))'
    BY <1>1, Zenon DEF CursorPassesNothing
  <2>1. \/ <<i, m>> \in post
        \/ source = "longpoll" /\ (Stored(RowChannel(i), m) \/ Removed(RowChannel(i)))
    <3>1. CASE i = current
      BY <1>2, <1>5, <1>8, <3>1, Zenon DEF BatchInv
    <3>2. CASE i # current
      BY <1>5, <1>8, <3>2, Zenon DEF CursorPassesNothing
    <3> QED
      BY <3>1, <3>2
  <2> QED
    BY <1>1, <2>1, Zenon DEF Stored, Removed, RowChannel
<1>12. NoRecapture'
  <2>1. \A i \in exists : cursor'[i] # 0 => <<i, cursor'[i]>> \in post
    <3> SUFFICES ASSUME NEW i \in exists, cursor'[i] # 0
                 PROVE  <<i, cursor'[i]>> \in post
      OBVIOUS
    <3>1. CASE i = current
      BY <1>2, <1>5, <1>8, <3>1, Zenon DEF BatchInv
    <3>2. CASE i # current
      BY <1>5, <1>8, <3>2, Zenon DEF NoRecapture
    <3> QED
      BY <3>1, <3>2
  <2> QED
    BY <1>1, <2>1, Zenon DEF NoRecapture
<1>13. DrainedIsStored'
  BY <1>1, <1>2, <1>9, <1>10, Zenon DEF DrainedIsStored
<1>14. BatchInv'
  BY <1>1, <1>2, Zenon DEF BatchInv
<1>15. References'
  BY <1>1, Zenon DEF References
<1> QED
  BY <1>6, <1>7, <1>11, <1>12, <1>13, <1>14, <1>15, Zenon

----------------------------------------------------------------------------

\* The rows, the cycle in flight, and what the long-poll client handed out
\* agree in every behaviour.
THEOREM ChannelInvariant == Spec => [](TypeOK /\ ChannelInv)
<1>1. Init => IInv
  <2> SUFFICES ASSUME Init PROVE IInv
    OBVIOUS
  <2>1. TypeOK
    BY SMT DEF Init, TypeOK, Id, Msg
  <2>2. 1..(nextId - 1) = {} /\ 0 \in 0..(nextId - 1) /\ 1..0 = {}
    BY SMT DEF Init
  <2>3. RowsInv /\ BatchInv /\ References /\ CursorPassesNothing /\ NoRecapture
    BY <2>2, Zenon DEF Init, RowsInv, BatchInv, References, CursorPassesNothing,
       NoRecapture
  <2>4. DrainedIsStored
    BY Zenon DEF Init, DrainedIsStored
  <2> QED
    BY <2>1, <2>3, <2>4, Zenon DEF IInv, ChannelInv
<1>2. IInv /\ [Next]_vars => IInv'
  <2> SUFFICES ASSUME IInv, [Next]_vars PROVE IInv'
    OBVIOUS
  <2>1. CASE CycleStep
    BY <2>1, CycleStepOutside, FetchStep, UpsertStep, AdvanceStep, Zenon
       DEF CycleStep
  <2>2. CASE Panel
    BY <2>2, AddStep, RemoveStep, Zenon DEF Panel
  <2>3. CASE \E c \in Channel : Publish(c)
    BY <2>3, PublishStep, Zenon
  <2>4. CASE UNCHANGED vars
    <3>1. UNCHANGED <<exists, handle, active, cursor, nextId, post, item, source,
                      published, drained, pc, todo, current, batch, last, removing,
                      failures>>
      BY <2>4, Zenon DEF vars, table, telegram, cycle
    <3>2. TypeOK' /\ RowsInv' /\ References'
      BY <3>1, Zenon DEF IInv, ChannelInv, TypeOK, RowsInv, References
    <3> QED
      BY <3>1, <3>2, SameRows, Outside, Zenon
  <2> QED
    BY <2>1, <2>2, <2>3, <2>4, Zenon DEF Next
<1> QED
  BY <1>1, <1>2, PTL DEF Spec, IInv

\* No post and no digest item refers to a removed row, although a removal
\* counts before it deletes and a cycle writes for rows it listed before.
THEOREM ReferencesStay == Spec => []References
<1>1. ChannelInv => References
  BY DEF ChannelInv
<1> QED
  BY <1>1, ChannelInvariant, PTL

\* The cursor of a row hides nothing that was not stored.
THEOREM CursorsPassNothing == Spec => []CursorPassesNothing
<1>1. ChannelInv => CursorPassesNothing
  BY DEF ChannelInv
<1> QED
  BY <1>1, ChannelInvariant, PTL

\* A row never stores a message twice, and a new row starts at the beginning.
THEOREM NothingIsRecaptured == Spec => []NoRecapture
<1>1. ChannelInv => NoRecapture
  BY DEF ChannelInv
<1> QED
  BY <1>1, ChannelInvariant, PTL

============================================================================
