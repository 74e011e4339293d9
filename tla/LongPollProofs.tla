--------------------------- MODULE LongPollProofs ---------------------------
(***************************************************************************)
(* Proofs about LongPoll: what the client and the fetch step of a cycle    *)
(* hold is accounted for, the cursor is safe and never moves back, and     *)
(* together they implement the feed of every channel.                      *)
(***************************************************************************)
EXTENDS LongPoll, TLAPS, FiniteSetTheorems, WellFoundedInduction

\* A set of numbers has a least element, and a bounded one a greatest.
LEMMA MinNat ==
  ASSUME NEW T \in SUBSET Nat, T # {}
  PROVE  /\ Min(T) \in T
         /\ \A y \in T : Min(T) <= y
<1>1. PICK x \in T : \A y \in T : <<y, x>> \notin OpToRel(<, Nat)
  BY WFMin, NatLessThanWellFounded, Zenon
<1>2. ASSUME NEW y \in T PROVE x <= y
  <2>1. y < x => <<y, x>> \in {ss \in Nat \X Nat : ss[1] < ss[2]}
    BY SMT
  <2>2. y < x => <<y, x>> \in OpToRel(<, Nat)
    BY <2>1, Zenon DEF OpToRel
  <2>3. ~(y < x)
    BY <1>1, <2>2, Zenon
  <2> QED
    BY <2>3, SMT
<1> QED
  BY <1>2 DEF Min

LEMMA MaxNat ==
  ASSUME NEW n \in Nat, NEW T \in SUBSET (0..n), T # {}
  PROVE  /\ Max(T) \in T
         /\ \A y \in T : Max(T) >= y
<1> DEFINE D == {n - y : y \in T}
<1>1. D \in SUBSET Nat /\ D # {}
  <2>1. \A y \in T : n - y \in Nat
    BY SMT
  <2> QED
    BY <2>1, Zenon
<1>2. PICK d \in D : \A y \in D : d <= y
  BY <1>1, MinNat
<1>3. PICK x \in T : d = n - x
  BY <1>2
<1>4. ASSUME NEW y \in T PROVE x >= y
  <2>1. d <= n - y
    BY <1>2, Zenon
  <2> QED
    BY <1>3, <2>1, SMT
<1> QED
  BY <1>4 DEF Max

----------------------------------------------------------------------------

USE ChannelAssumption, BufferAssumption, FaultsAssumption, UpdatesAssumption

IInv == TypeOK /\ IntakeInv

\* What the type of the feed says of one update.
LEMMA FeedType ==
  ASSUME TypeOK, NEW u \in 1..Len(feed)
  PROVE  /\ feed[u] \in Message
         /\ feed[u][1] \in Channel /\ Id(u) \in 1..MaxUpdates
         /\ feed[u] = <<feed[u][1], Id(u)>>
<1>1. feed \in Seq(Message)
  BY DEF TypeOK
<1>2. feed[u] \in Message
  BY <1>1
<1> QED
  BY <1>2, SMT DEF Message, Id

\* Where the next update lies.
LEMMA FirstType ==
  ASSUME TypeOK
  PROVE  First \in 1..(Len(feed) + 1) /\ First > forgotten
BY SMT DEF TypeOK, First

LEMMA Handled ==
  ASSUME TypeOK
  PROVE  1..(First - 1) \subseteq 1..Len(feed)
<1>1. First \in 1..(Len(feed) + 1) /\ Len(feed) \in Nat
  BY FirstType, SMT DEF TypeOK
<1> QED
  BY <1>1, SMT

LEMMA InitInv == Init => IInv
<1> SUFFICES ASSUME Init PROVE IInv
  OBVIOUS
<1>1. Len(feed) = 0 /\ feed \in Seq(Message)
  BY SMT DEF Init
<1>2. Cardinality({}) = 0
  BY FS_EmptySet
<1>3. TypeOK
  BY <1>1, <1>2, SMT DEF Init, TypeOK
<1>4. First = 1
  BY SMT DEF Init, First
<1>5. IntakeInv
  BY <1>1, <1>4, SMT
     DEF Init, IntakeInv, FeedInv, ClientInv, BatchInv, Accounted, CursorSafe
<1> QED
  BY <1>3, <1>5 DEF IInv

----------------------------------------------------------------------------

\* A longer feed keeps what was said of the shorter one.
LEMMA FeedGrows ==
  ASSUME IInv, NEW c \in Channel, NEW m \in 1..MaxUpdates,
         feed' = Append(feed, <<c, m>>), Len(feed) < MaxUpdates,
         newest' \in [Channel -> 0..(Len(feed) + 1)],
         UNCHANGED <<forgotten, client, cycle, store, lost, faults>>,
         FeedInv'
  PROVE  IInv'
<1> USE DEF IInv
<1>1. /\ feed' \in Seq(Message) /\ Len(feed') = Len(feed) + 1
      /\ \A u \in 1..Len(feed) : feed'[u] = feed[u]
  BY SMT DEF TypeOK, Message
<1>2. /\ UNCHANGED <<forgotten, offset, got, buffer, todo, source, batch, last,
                    rows, cursor, lost, faults>>
      /\ First' = First
  BY DEF client, cycle, store, First
<1>3. TypeOK'
  <2>1. 1..Len(feed) \subseteq 1..Len(feed')
    BY <1>1, SMT DEF TypeOK
  <2>2. /\ Len(feed') <= MaxUpdates /\ forgotten \in 0..Len(feed')
        /\ got \in 0..Len(feed') /\ offset \in 0..(Len(feed') + 1)
    BY <1>1, SMT DEF TypeOK
  <2>3. buffer \in [Channel -> SUBSET (1..Len(feed'))]
    BY <2>1, Zenon DEF TypeOK
  <2>4. batch \subseteq 1..Len(feed')
    BY <2>1, Zenon DEF TypeOK
  <2> QED
    BY <1>1, <1>2, <2>2, <2>3, <2>4, Zenon DEF TypeOK
<1>4. 1..(First - 1) \subseteq 1..Len(feed)
  BY Handled
<1>5. /\ \A d \in Channel : buffer[d] \subseteq 1..Len(feed)
      /\ batch \subseteq 1..Len(feed)
  BY Zenon DEF TypeOK
<1>6. \A u \in 1..Len(feed) : Id(u)' = Id(u)
  BY <1>1 DEF Id
<1>7. Carried(batch)' = Carried(batch)
  BY <1>1, <1>2, <1>5, Zenon DEF Carried
<1>8. ClientInv'
  BY <1>1, <1>2, <1>5, Zenon DEF IntakeInv, ClientInv
<1>9. BatchInv'
  BY <1>2, <1>7, Zenon DEF IntakeInv, BatchInv
<1>10. Accounted'
  <2> SUFFICES ASSUME NEW u \in 1..(First - 1) PROVE Held(u)'
    BY <1>2, Zenon DEF Accounted
  <2>1. u \in 1..Len(feed) /\ feed'[u] = feed[u] /\ Id(u)' = Id(u)
    BY <1>1, <1>4, <1>6, Zenon
  <2>2. Held(u)
    BY Zenon DEF IntakeInv, Accounted
  <2>3. u \in Newer(feed[u][1]) => u \in Newer(feed[u][1])'
    BY <1>2, <2>1, Zenon DEF Newer
  <2> QED
    BY <1>2, <2>1, <2>2, <2>3, Zenon DEF Held
<1>11. CursorSafe'
  BY <1>2, Zenon DEF IntakeInv, CursorSafe
<1> QED
  BY <1>3, <1>8, <1>9, <1>10, <1>11 DEF IntakeInv

LEMMA PublishInv == ASSUME IInv, NEW c \in Channel, Publish(c) PROVE IInv'
<1> USE DEF IInv
<1> DEFINE m == newest[c] + 1
           n == Len(feed) + 1
<1>1. /\ feed' = Append(feed, <<c, m>>) /\ n <= MaxUpdates
      /\ newest' = [newest EXCEPT ![c] = m]
  BY SMT DEF Publish, TypeOK
<1>2. /\ m \in 1..MaxUpdates /\ n \in Nat /\ newest[c] \in 0..Len(feed)
      /\ newest' \in [Channel -> 0..n]
  BY <1>1, SMT DEF TypeOK
<1>3. /\ Len(feed') = n /\ feed'[n] = <<c, m>>
      /\ \A u \in 1..Len(feed) : feed'[u] = feed[u]
  BY <1>1, SMT DEF TypeOK, Message
<1>4. ASSUME NEW d \in Channel, NEW k \in 1..newest'[d]
      PROVE  \E v \in 1..n : feed'[v] = <<d, k>>
  <2>1. CASE k \in 1..newest[d]
    <3>1. PICK v \in 1..Len(feed) : feed[v] = <<d, k>>
      BY <2>1, Zenon DEF IntakeInv, FeedInv
    <3>2. v \in 1..n
      BY <1>2, <3>1, SMT DEF TypeOK
    <3> QED
      BY <1>3, <3>1, <3>2, Zenon
  <2>2. CASE k \notin 1..newest[d]
    <3>1. d = c /\ k = m
      BY <1>1, <1>2, <2>2, SMT DEF TypeOK
    <3>2. n \in 1..n
      BY <1>2, SMT DEF TypeOK
    <3> QED
      BY <1>3, <3>1, <3>2, Zenon
  <2> QED
    BY <2>1, <2>2
<1>5. ASSUME NEW u \in 1..n, NEW k \in 1..feed'[u][2]
      PROVE  \E v \in 1..u : feed'[v] = <<feed'[u][1], k>>
  <2>1. CASE u \in 1..Len(feed)
    <3>1. feed'[u] = feed[u] /\ k \in 1..Id(u)
      BY <1>3, <2>1 DEF Id
    <3>2. PICK v \in 1..u : feed[v] = <<feed[u][1], k>>
      BY <2>1, <3>1, Zenon DEF IntakeInv, FeedInv
    <3>3. v \in 1..Len(feed)
      BY <2>1, <3>2, SMT DEF TypeOK
    <3> QED
      BY <1>3, <3>1, <3>2, <3>3, Zenon
  <2>2. CASE u \notin 1..Len(feed)
    <3>1. u = n
      <4>1. Len(feed) \in Nat
        BY SMT DEF TypeOK
      <4> QED
        BY <2>2, <4>1, SMT
    <3>2. feed'[u][1] = c /\ feed'[u][2] = m
      BY <1>3, <3>1
    <3>3. newest'[c] = m
      BY <1>1, SMT DEF TypeOK
    <3>4. k \in 1..newest'[c]
      BY <3>2, <3>3, Zenon
    <3>5. PICK v \in 1..n : feed'[v] = <<c, k>>
      BY <1>4, <3>4, Zenon
    <3> QED
      BY <3>1, <3>2, <3>5, Zenon
  <2> QED
    BY <2>1, <2>2
<1>6. FeedInv'
  BY <1>3, <1>4, <1>5, Zenon DEF FeedInv, Id
<1> QED
  BY <1>1, <1>2, <1>6, FeedGrows DEF Publish

LEMMA EditInv == ASSUME IInv, NEW c \in Channel, Edit(c) PROVE IInv'
<1> USE DEF IInv
<1> DEFINE n == Len(feed) + 1
<1>1. PICK m \in 1..newest[c] : feed' = Append(feed, <<c, m>>)
  BY DEF Edit
<1>2. /\ n <= MaxUpdates /\ newest' = newest /\ Len(feed) < MaxUpdates
      /\ UNCHANGED <<forgotten, client, cycle, store, lost, faults>>
  BY SMT DEF Edit, TypeOK
<1>3. /\ m \in 1..MaxUpdates /\ n \in Nat /\ newest[c] \in 0..Len(feed)
      /\ newest' \in [Channel -> 0..n]
  BY <1>2, SMT DEF TypeOK
<1>4. /\ Len(feed') = n /\ feed'[n] = <<c, m>>
      /\ \A u \in 1..Len(feed) : feed'[u] = feed[u]
  <2>1. feed \in Seq(Message)
    BY Zenon DEF TypeOK
  <2>2. <<c, m>> \in Message
    BY <1>3, Zenon DEF Message
  <2> QED
    BY <1>1, <2>1, <2>2, SMT
<1>5. ASSUME NEW d \in Channel, NEW k \in 1..newest[d]
      PROVE  \E v \in 1..n : feed'[v] = <<d, k>>
  <2>1. PICK v \in 1..Len(feed) : feed[v] = <<d, k>>
    BY Zenon DEF IntakeInv, FeedInv
  <2>2. v \in 1..n
    BY <1>3, <2>1, SMT DEF TypeOK
  <2> QED
    BY <1>4, <2>1, <2>2, Zenon
<1>6. ASSUME NEW u \in 1..n, NEW k \in 1..feed'[u][2]
      PROVE  \E v \in 1..u : feed'[v] = <<feed'[u][1], k>>
  <2>1. CASE u \in 1..Len(feed)
    <3>1. feed'[u] = feed[u] /\ k \in 1..Id(u)
      BY <1>4, <2>1 DEF Id
    <3>2. PICK v \in 1..u : feed[v] = <<feed[u][1], k>>
      BY <2>1, <3>1, Zenon DEF IntakeInv, FeedInv
    <3>3. v \in 1..Len(feed)
      BY <2>1, <3>2, SMT DEF TypeOK
    <3> QED
      BY <1>4, <3>1, <3>2, <3>3, Zenon
  <2>2. CASE u \notin 1..Len(feed)
    <3>1. u = n
      BY <1>3, <2>2, SMT DEF TypeOK
    <3>2. feed'[u][1] = c /\ feed'[u][2] = m
      BY <1>4, <3>1
    <3>3. k \in 1..newest[c]
      BY <1>3, <3>2, SMT DEF TypeOK
    <3>4. PICK v \in 1..n : feed'[v] = <<c, k>>
      BY <1>5, <3>3, Zenon
    <3> QED
      BY <3>1, <3>2, <3>4, Zenon
  <2> QED
    BY <2>1, <2>2
<1>7. FeedInv'
  BY <1>2, <1>4, <1>5, <1>6, Zenon DEF FeedInv, Id
<1> QED
  BY <1>1, <1>2, <1>3, <1>7, FeedGrows

----------------------------------------------------------------------------

LEMMA CarriedType ==
  ASSUME TypeOK, NEW U \in SUBSET (1..Len(feed))
  PROVE  Carried(U) \subseteq Message
BY FeedType, Zenon DEF Carried

\* A full buffer drops exactly one post.
LEMMA BufferedSize ==
  ASSUME NEW n \in Nat, NEW b \in SUBSET (1..n), NEW u \in 1..n,
         Cardinality(b) <= MaxBuffered
  PROVE  /\ Buffered(b, u) \subseteq b \cup {u}
         /\ Cardinality(Buffered(b, u)) <= MaxBuffered
<1> DEFINE B == b \cup {u}
<1>1. IsFiniteSet(b) /\ Cardinality(b) \in Nat
  <2>1. 1 \in Int /\ n \in Int
    BY SMT
  <2>2. IsFiniteSet(1..n)
    BY <2>1, FS_Interval
  <2> QED
    BY <2>2, FS_Subset, FS_CardinalityType
<1>2. IsFiniteSet(B) /\ Cardinality(B) \in Nat /\ Cardinality(B) <= MaxBuffered + 1
  <2>1. /\ IsFiniteSet(B)
        /\ u \in b \/ Cardinality(B) = Cardinality(b) + 1
    BY <1>1, FS_AddElement, Zenon
  <2>2. u \in b => B = b
    BY Zenon
  <2>3. Cardinality(B) \in Nat
    BY <2>1, FS_CardinalityType
  <2> QED
    BY <1>1, <2>1, <2>2, <2>3, SMT
<1>3. Min(B) \in B
  <2>1. B \in SUBSET Nat /\ B # {}
    BY SMT
  <2> QED
    BY <2>1, MinNat
<1>4. Cardinality(B \ {Min(B)}) = Cardinality(B) - 1
  BY <1>2, <1>3, FS_RemoveElement, Zenon
<1>5. CASE Cardinality(B) > MaxBuffered
  <2>1. Buffered(b, u) = B \ {Min(B)}
    BY <1>5, Zenon DEF Buffered
  <2> QED
    BY <1>2, <1>4, <2>1, SMT
<1>6. CASE ~(Cardinality(B) > MaxBuffered)
  <2>1. Buffered(b, u) = B
    BY <1>6, Zenon DEF Buffered
  <2> QED
    BY <1>2, <1>6, <2>1, SMT
<1> QED
  BY <1>5, <1>6

----------------------------------------------------------------------------

LEMMA PollInv == IInv /\ Poll => IInv'
<1> SUFFICES ASSUME IInv, Poll PROVE IInv'
  OBVIOUS
<1> USE DEF IInv
<1>1. UNCHANGED <<feed, newest, offset, buffer, todo, source, batch, last,
                  rows, cursor, lost, faults>>
  BY DEF Poll, cycle, store
<1>2. /\ forgotten' = First - 1 /\ got' \in (First - 1)..Len(feed)
      /\ First \in 1..(Len(feed) + 1) /\ Len(feed) \in Nat
  BY FirstType, SMT DEF Poll, TypeOK
<1>3. First' = First
  BY <1>1, <1>2, SMT DEF First, TypeOK
<1>4. TypeOK'
  <2>1. forgotten' \in 0..Len(feed) /\ got' \in 0..Len(feed)
    BY <1>2, SMT
  <2> QED
    BY <1>1, <2>1, Zenon DEF TypeOK
<1>5. ClientInv'
  <2>1. forgotten' <= got' /\ offset <= got' + 1
    <3>1. offset <= First /\ offset \in Nat
      BY SMT DEF First, TypeOK
    <3>2. First \in Int /\ got' \in Int
      BY <1>2, SMT
    <3>3. got' >= First - 1
      BY <1>2, SMT
    <3>4. forgotten' <= got'
      BY <1>2, <3>2, <3>3, Zenon
    <3>5. \A o, f, g \in Int : o <= f /\ g >= f - 1 => o <= g + 1
      BY SMT
    <3>6. offset \in Int /\ First \in Int /\ got' \in Int
      BY <3>1, <3>2, SMT
    <3>7. offset <= got' + 1
      BY <3>1, <3>3, <3>5, <3>6, Zenon
    <3> QED
      BY <3>4, <3>7
  <2>2. offset = 0 \/ offset > forgotten'
    BY <1>2, SMT DEF First, TypeOK, IntakeInv, ClientInv
  <2> QED
    BY <1>1, <1>3, <2>1, <2>2, Zenon DEF IntakeInv, ClientInv
<1>6. FeedInv' /\ CursorSafe'
  BY <1>1, Zenon DEF IntakeInv, FeedInv, CursorSafe, Id
<1>7. BatchInv'
  BY <1>1, <1>3, Zenon DEF IntakeInv, BatchInv, Carried
<1>8. Accounted'
  BY <1>1, <1>3, Zenon DEF IntakeInv, Accounted, Held, Newer, Id
<1> QED
  BY <1>4, <1>5, <1>6, <1>7, <1>8 DEF IntakeInv

\* What handleUpdate drops from a full buffer is stored or counted as lost.
LEMMA HandleInv == IInv /\ HandleUpdate => IInv'
<1> SUFFICES ASSUME IInv, HandleUpdate PROVE IInv'
  OBVIOUS
<1> USE DEF IInv
<1> DEFINE u == First
           c == feed[First][1]
           b == Buffered(buffer[c], First)
           D == (buffer[c] \cup {First}) \ b
<1>1. UNCHANGED <<feed, newest, forgotten, got, todo, source, batch, last,
                  rows, cursor, faults>>
  BY DEF HandleUpdate, telegram, cycle, store
<1>2. /\ offset' = u + 1 /\ buffer' = [buffer EXCEPT ![c] = b]
      /\ lost' = lost \cup (Carried(D) \ rows)
  BY DEF HandleUpdate
<1>3. /\ u \in 1..Len(feed) /\ u <= got /\ u > forgotten
      /\ Len(feed) \in Nat
  BY FirstType, SMT DEF HandleUpdate, TypeOK
<1>4. /\ c \in Channel /\ Id(u) \in 1..MaxUpdates /\ feed[u] = <<c, Id(u)>>
  BY <1>3, FeedType
<1>5. buffer[c] \in SUBSET (1..Len(feed)) /\ Cardinality(buffer[c]) <= MaxBuffered
  BY <1>4, Zenon DEF TypeOK
<1>6. b \subseteq buffer[c] \cup {u} /\ Cardinality(b) <= MaxBuffered
  BY <1>3, <1>5, BufferedSize
<1>7. First' = u + 1
  BY <1>1, <1>2, <1>3, SMT DEF First, TypeOK
<1>8. \A d \in Channel : buffer'[d] = IF d = c THEN b ELSE buffer[d]
  BY <1>2, <1>4, Zenon DEF TypeOK
<1>9. D \in SUBSET (1..Len(feed)) /\ lost' \subseteq Message /\ lost \subseteq lost'
  <2>1. D \in SUBSET (1..Len(feed))
    BY <1>3, <1>5, Zenon
  <2>2. Carried(D) \subseteq Message
    BY <2>1, CarriedType
  <2> QED
    BY <1>2, <2>1, <2>2, Zenon DEF TypeOK
<1>10. TypeOK'
  <2>1. offset' \in 0..(Len(feed) + 1)
    BY <1>2, <1>3, SMT
  <2>2. b \subseteq 1..Len(feed)
    BY <1>3, <1>5, <1>6, Zenon
  <2>3. buffer' \in [Channel -> SUBSET (1..Len(feed))]
    BY <1>2, <1>4, <2>2, Zenon DEF TypeOK
  <2>4. \A d \in Channel : Cardinality(buffer'[d]) <= MaxBuffered
    BY <1>6, <1>8, Zenon DEF TypeOK
  <2> QED
    BY <1>1, <1>9, <2>1, <2>3, <2>4, Zenon DEF TypeOK
<1>11. ClientInv'
  <2>1. forgotten <= got /\ offset' <= got + 1 /\ offset' > forgotten
    BY <1>2, <1>3, SMT DEF TypeOK
  <2>2. ASSUME NEW d \in Channel, NEW v \in buffer'[d]
        PROVE  v < u + 1 /\ feed[v][1] = d
    <3>1. v = u => d = c \/ v \in buffer[d]
      BY <1>8, <2>2, Zenon
    <3>2. v \in buffer[d] \/ (v = u /\ d = c)
      BY <1>6, <1>8, <2>2, Zenon
    <3>3. CASE v \in buffer[d]
      <4>1. v < u /\ feed[v][1] = d /\ v \in 1..Len(feed)
        BY <3>3, Zenon DEF IntakeInv, ClientInv, TypeOK
      <4> QED
        BY <1>3, <4>1, SMT
    <3>4. CASE v = u /\ d = c
      BY <1>3, <3>4, SMT
    <3> QED
      BY <3>2, <3>3, <3>4
  <2> QED
    BY <1>1, <1>7, <2>1, <2>2, Zenon DEF ClientInv
<1>12. FeedInv' /\ CursorSafe'
  BY <1>1, <1>9, Zenon DEF IntakeInv, FeedInv, CursorSafe, Id
<1>13. BatchInv'
  <2>1. \A v \in batch : v < u => v < u + 1
    BY <1>3, SMT DEF TypeOK
  <2> QED
    BY <1>1, <1>7, <1>9, <2>1, Zenon DEF IntakeInv, BatchInv, Carried
<1>14. Accounted'
  <2> SUFFICES ASSUME NEW v \in 1..u PROVE Held(v)'
    <3>1. 1..(First' - 1) = 1..u
      BY <1>3, <1>7, SMT
    <3> QED
      BY <3>1, Zenon DEF Accounted
  <2>1. v \in D => Held(v)'
    BY <1>1, <1>2, Zenon DEF Held, Carried
  <2>2. CASE v \in 1..(First - 1)
    <3>1. Held(v)
      BY <2>2, Zenon DEF IntakeInv, Accounted
    <3>2. v \in 1..Len(feed) /\ feed[v][1] \in Channel
      BY <2>2, Handled, FeedType
    <3>3. v \in Newer(feed[v][1]) /\ v \notin D => v \in Newer(feed[v][1])'
      BY <1>1, <1>8, <3>2, Zenon DEF Newer, Id
    <3> QED
      BY <1>1, <1>9, <2>1, <3>1, <3>3, Zenon DEF Held
  <2>3. CASE v \notin 1..(First - 1)
    <3>1. v = u
      BY <1>3, <2>3, SMT
    <3>2. CASE Id(u) > cursor[c]
      <4>1. feed[v][1] = c /\ Id(v) > cursor[feed[v][1]]
        BY <3>1, <3>2
      <4>2. v \notin D => v \in buffer'[feed[v][1]]
        BY <1>4, <1>8, <3>1, <4>1, Zenon
      <4>3. v \notin D => v \in Newer(feed[v][1])'
        BY <1>1, <4>1, <4>2, Zenon DEF Newer, Id
      <4> QED
        BY <1>1, <2>1, <4>3, Zenon DEF Held
    <3>3. CASE ~(Id(u) > cursor[c])
      <4>1. Id(u) \in 1..cursor[c]
        BY <1>4, <3>3, SMT DEF TypeOK
      <4>2. feed[u] \in rows \cup lost
        BY <1>4, <4>1, Zenon DEF IntakeInv, CursorSafe
      <4> QED
        BY <1>1, <1>9, <3>1, <4>2, Zenon DEF Held
    <3> QED
      BY <3>2, <3>3
  <2> QED
    BY <2>2, <2>3
<1> QED
  BY <1>10, <1>11, <1>12, <1>13, <1>14 DEF IntakeInv

----------------------------------------------------------------------------

LEMMA SameIntake ==
  ASSUME IInv,
         UNCHANGED <<feed, newest, forgotten, offset, got, buffer, source,
                     batch, last, rows, cursor, lost>>
  PROVE  IntakeInv'
<1> USE DEF IInv
<1>1. First' = First
  BY DEF First
<1>2. FeedInv' /\ CursorSafe'
  BY Zenon DEF IntakeInv, FeedInv, CursorSafe, Id
<1>3. ClientInv'
  BY <1>1, Zenon DEF IntakeInv, ClientInv
<1>4. BatchInv'
  BY <1>1, Zenon DEF IntakeInv, BatchInv, Carried
<1>5. Accounted'
  BY <1>1, Zenon DEF IntakeInv, Accounted, Held, Newer, Id
<1> QED
  BY <1>2, <1>3, <1>4, <1>5 DEF IntakeInv

LEMMA StartInv == IInv /\ StartCycle => IInv'
<1> SUFFICES ASSUME IInv, StartCycle PROVE IInv'
  OBVIOUS
<1> USE DEF IInv
<1>1. /\ UNCHANGED <<feed, newest, forgotten, offset, got, buffer, source,
                     batch, last, rows, cursor, lost, faults>>
      /\ todo' = Channel
  BY DEF StartCycle, telegram, client, store
<1>2. TypeOK'
  BY <1>1, Zenon DEF TypeOK
<1>3. IntakeInv'
  BY <1>1, SameIntake
<1> QED
  BY <1>2, <1>3

\* The batch is all that is newer than the cursor, so that everything up to
\* its last post is settled or in it.
LEMMA FetchInv == ASSUME IInv, NEW c \in Channel, Fetch(c) PROVE IInv'
<1> USE DEF IInv
<1> DEFINE N == Newer(c)
<1>1. /\ UNCHANGED <<feed, newest, forgotten, offset, got, rows, cursor, lost,
                     faults>>
      /\ source = NoChannel /\ batch = {} /\ todo' = todo \ {c}
      /\ buffer' = [buffer EXCEPT ![c] = @ \ N]
  BY Zenon DEF Fetch, telegram, store, IntakeInv, BatchInv
<1>2. First' = First
  BY <1>1 DEF First
<1>3. /\ N \subseteq buffer[c] /\ buffer[c] \in SUBSET (1..Len(feed))
      /\ \A u \in N : u < First /\ feed[u][1] = c /\ Id(u) > cursor[c]
  BY Zenon DEF Newer, TypeOK, IntakeInv, ClientInv
<1>4. \A d \in Channel : /\ buffer'[d] \subseteq buffer[d]
                         /\ d # c => buffer'[d] = buffer[d]
  BY <1>1, Zenon DEF TypeOK
<1>5. \/ N = {} /\ UNCHANGED <<source, batch, last>>
      \/ /\ N # {} /\ source' = c /\ batch' = N /\ last' = Id(Max(N))
  BY Zenon DEF Fetch
<1>6. ASSUME N # {}
      PROVE  /\ Max(N) \in N /\ Max(N) \in 1..Len(feed)
             /\ \A y \in N : y <= Max(N)
             /\ Id(Max(N)) \in 1..MaxUpdates
  <2>1. N \in SUBSET (0..Len(feed)) /\ Len(feed) \in Nat
    BY <1>3, SMT DEF TypeOK
  <2>2. Max(N) \in N /\ \A y \in N : Max(N) >= y
    BY <1>6, <2>1, MaxNat
  <2>3. Max(N) \in 1..Len(feed)
    BY <1>3, <2>2, Zenon
  <2>4. Id(Max(N)) \in 1..MaxUpdates
    BY <2>3, FeedType
  <2>5. \A y \in N : y <= Max(N)
    BY <2>1, <2>2, SMT
  <2> QED
    BY <2>2, <2>3, <2>4, <2>5
<1>7. TypeOK'
  <2>1. buffer' \in [Channel -> SUBSET (1..Len(feed))]
    BY <1>1, <1>3, Zenon DEF TypeOK
  <2>2. ASSUME NEW d \in Channel PROVE Cardinality(buffer'[d]) <= MaxBuffered
    <3>1. 1 \in Int /\ Len(feed) \in Int
      BY SMT DEF TypeOK
    <3>2. IsFiniteSet(1..Len(feed))
      BY <3>1, FS_Interval
    <3>3. buffer[d] \in SUBSET (1..Len(feed)) /\ Cardinality(buffer[d]) <= MaxBuffered
      BY Zenon DEF TypeOK
    <3>4. IsFiniteSet(buffer[d])
      BY <3>2, <3>3, FS_Subset
    <3>5. /\ IsFiniteSet(buffer'[d])
          /\ Cardinality(buffer'[d]) <= Cardinality(buffer[d])
      BY <1>4, <3>4, FS_Subset
    <3>6. Cardinality(buffer[d]) \in Nat /\ Cardinality(buffer'[d]) \in Nat
      BY <3>4, <3>5, FS_CardinalityType
    <3> QED
      BY <3>3, <3>5, <3>6, SMT
  <2>3. source' \in Channel \cup {NoChannel} /\ batch' \subseteq 1..Len(feed)
    BY <1>3, <1>5, Zenon DEF TypeOK
  <2>4. last' \in 0..MaxUpdates
    <3>1. CASE N = {}
      BY <1>5, <3>1, Zenon DEF TypeOK
    <3>2. CASE N # {}
      BY <1>5, <1>6, <3>2, SMT
    <3> QED
      BY <3>1, <3>2
  <2> QED
    BY <1>1, <2>1, <2>2, <2>3, <2>4, Zenon DEF TypeOK
<1>8. FeedInv' /\ CursorSafe'
  BY <1>1, Zenon DEF IntakeInv, FeedInv, CursorSafe, Id
<1>9. ClientInv'
  BY <1>1, <1>2, <1>4, Zenon DEF IntakeInv, ClientInv
<1>10. BatchInv'
  <2>1. CASE N = {}
    BY <1>1, <1>5, <2>1, Zenon DEF BatchInv
  <2>2. CASE N # {}
    <3>1. /\ source' = c /\ batch' = N /\ last' = Id(Max(N))
          /\ source' # NoChannel
      BY <1>5, <2>2, Zenon
    <3>2. last' > cursor'[c]
      BY <1>1, <1>3, <1>6, <2>2, <3>1, Zenon
    <3>3. ASSUME NEW m \in 1..Id(Max(N))
          PROVE  <<c, m>> \in rows \cup lost \cup Carried(N)
      <4>1. PICK v \in 1..Max(N) : feed[v] = <<feed[Max(N)][1], m>>
        BY <1>6, <2>2, Zenon DEF IntakeInv, FeedInv
      <4>2. feed[v] = <<c, m>> /\ feed[v][1] = c
        BY <1>3, <1>6, <2>2, <4>1
      <4>3. v \in 1..(First - 1)
        <5>1. Max(N) < First /\ Max(N) \in 1..Len(feed) /\ Len(feed) \in Nat
          BY <1>3, <1>6, <2>2, SMT DEF TypeOK
        <5>2. First \in 1..(Len(feed) + 1)
          BY FirstType
        <5> QED
          BY <4>1, <5>1, <5>2, SMT
      <4>4. Held(v)
        BY <4>3, Zenon DEF IntakeInv, Accounted
      <4>5. feed[v] \in rows \cup lost \/ v \in N
        BY <1>1, <4>2, <4>4 DEF Held
      <4> QED
        BY <4>2, <4>5, Zenon DEF Carried
    <3>4. Carried(batch)' = Carried(N)
      BY <1>1, <3>1, Zenon DEF Carried
    <3> QED
      BY <1>1, <1>2, <1>3, <3>1, <3>2, <3>3, <3>4, Zenon DEF BatchInv
  <2> QED
    BY <2>1, <2>2
<1>11. Accounted'
  <2> SUFFICES ASSUME NEW v \in 1..(First - 1) PROVE Held(v)'
    BY <1>2, Zenon DEF Accounted
  <2>1. Held(v) /\ feed[v][1] \in Channel
    BY Handled, FeedType, Zenon DEF IntakeInv, Accounted
  <2>2. CASE v \in Newer(feed[v][1]) /\ feed[v][1] = c
    <3>1. batch' = N /\ v \in N
      BY <1>5, <2>2, Zenon
    <3> QED
      BY <3>1, Zenon DEF Held
  <2>3. CASE v \in Newer(feed[v][1]) /\ feed[v][1] # c
    <3>1. v \in Newer(feed[v][1])'
      BY <1>1, <1>4, <2>1, <2>3, Zenon DEF Newer, Id
    <3> QED
      BY <1>1, <3>1, Zenon DEF Held
  <2>4. CASE feed[v] \in rows \cup lost
    BY <1>1, <2>4, Zenon DEF Held
  <2> QED
    BY <1>1, <2>1, <2>2, <2>3, <2>4, Zenon DEF Held
<1> QED
  BY <1>7, <1>8, <1>9, <1>10, <1>11 DEF IntakeInv

\* A post leaves the batch into the posts table, or as lost.
LEMMA UpsertInv == IInv /\ Upsert => IInv'
<1> SUFFICES ASSUME IInv, Upsert PROVE IInv'
  OBVIOUS
<1> USE DEF IInv
<1> DEFINE u == Min(batch)
<1>1. UNCHANGED <<feed, newest, forgotten, offset, got, buffer, todo, source,
                  last, cursor>>
  BY DEF Upsert, telegram, client
<1>2. batch # {} /\ batch' = batch \ {u}
  BY DEF Upsert
<1>3. \/ rows' = rows \cup {feed[u]} /\ lost' = lost /\ faults' = faults
      \/ /\ lost' = lost \cup ({feed[u]} \ rows) /\ rows' = rows
         /\ faults' \in 0..MaxFaults
  BY SMT DEF Upsert, Fault, TypeOK
<1>4. u \in batch /\ u \in 1..Len(feed)
  <2>1. batch \in SUBSET Nat
    BY SMT DEF TypeOK
  <2>2. u \in batch
    BY <1>2, <2>1, MinNat
  <2> QED
    BY <2>2, Zenon DEF TypeOK
<1>5. feed[u] \in Message /\ feed[u] \in rows' \cup lost'
  BY <1>3, <1>4, FeedType, Zenon
<1>6. rows \subseteq rows' /\ lost \subseteq lost' /\ First' = First
  BY <1>1, <1>3, Zenon DEF First
<1>7. TypeOK'
  BY <1>1, <1>2, <1>3, <1>5, Zenon DEF TypeOK
<1>8. FeedInv' /\ CursorSafe'
  BY <1>1, <1>6, Zenon DEF IntakeInv, FeedInv, CursorSafe, Id
<1>9. ClientInv'
  BY <1>1, <1>6, Zenon DEF IntakeInv, ClientInv
<1>10. BatchInv'
  <2>1. rows \cup lost \cup Carried(batch)
          \subseteq rows' \cup lost' \cup Carried(batch)'
    BY <1>1, <1>2, <1>5, <1>6, Zenon DEF Carried
  <2> QED
    BY <1>1, <1>2, <1>6, <2>1, Zenon DEF IntakeInv, BatchInv
<1>11. Accounted'
  <2> SUFFICES ASSUME NEW v \in 1..(First - 1) PROVE Held(v)'
    BY <1>6, Zenon DEF Accounted
  <2>1. Held(v)
    BY Zenon DEF IntakeInv, Accounted
  <2>2. v \in Newer(feed[v][1]) => v \in Newer(feed[v][1])'
    BY <1>1, Zenon DEF Newer, Id
  <2>3. v = u => Held(v)'
    BY <1>1, <1>5, Zenon DEF Held
  <2> QED
    BY <1>1, <1>2, <1>6, <2>1, <2>2, <2>3, Zenon DEF Held
<1> QED
  BY <1>7, <1>8, <1>9, <1>10, <1>11 DEF IntakeInv

\* The cursor moves to the last post of a batch that is settled.
LEMMA AdvanceInv == IInv /\ AdvanceCursor => IInv'
<1> SUFFICES ASSUME IInv, AdvanceCursor PROVE IInv'
  OBVIOUS
<1> USE DEF IInv
<1>1. /\ UNCHANGED <<feed, newest, forgotten, offset, got, buffer, todo, batch,
                     rows, lost>>
      /\ source # NoChannel /\ batch = {} /\ source' = NoChannel /\ last' = 0
  BY DEF AdvanceCursor, telegram, client
<1>2. \/ cursor' = [cursor EXCEPT ![source] = last] /\ faults' = faults
      \/ cursor' = cursor /\ faults' \in 0..MaxFaults
  BY SMT DEF AdvanceCursor, Fault, TypeOK
<1>3. First' = First /\ source \in Channel
  BY <1>1, Zenon DEF First, TypeOK
<1>4. TypeOK'
  <2>1. last' \in 0..MaxUpdates
    BY <1>1, SMT
  <2>2. cursor' \in [Channel -> 0..MaxUpdates] /\ faults' \in 0..MaxFaults
    BY <1>2, Zenon DEF TypeOK
  <2> QED
    BY <1>1, <2>1, <2>2, Zenon DEF TypeOK
<1>5. FeedInv' /\ BatchInv'
  BY <1>1, Zenon DEF IntakeInv, FeedInv, BatchInv, Id
<1>6. ClientInv'
  BY <1>1, <1>3, Zenon DEF IntakeInv, ClientInv
<1>7. \A m \in 1..last : <<source, m>> \in rows \cup lost
  <2>1. Carried(batch) = {}
    BY <1>1, Zenon DEF Carried
  <2> QED
    BY <1>1, <2>1, Zenon DEF IntakeInv, BatchInv
<1>8. \A d \in Channel : cursor'[d] = cursor[d] \/ (d = source /\ cursor'[d] = last)
  BY <1>2, <1>3, Zenon DEF TypeOK
<1>9. CursorSafe'
  <2> SUFFICES ASSUME NEW d \in Channel, NEW m \in 1..cursor'[d]
               PROVE  <<d, m>> \in rows \cup lost
    BY <1>1, Zenon DEF CursorSafe
  <2>1. CASE cursor'[d] = cursor[d]
    BY <2>1, Zenon DEF IntakeInv, CursorSafe
  <2>2. CASE d = source /\ cursor'[d] = last
    BY <1>7, <2>2, Zenon
  <2> QED
    BY <1>8, <2>1, <2>2
<1>10. Accounted'
  <2> SUFFICES ASSUME NEW v \in 1..(First - 1) PROVE Held(v)'
    BY <1>3, Zenon DEF Accounted
  <2>1. /\ feed[v] = <<feed[v][1], Id(v)>> /\ feed[v][1] \in Channel
        /\ Id(v) \in 1..MaxUpdates
    BY Handled, FeedType
  <2>2. Held(v)
    BY Zenon DEF IntakeInv, Accounted
  <2>3. CASE Id(v) > cursor'[feed[v][1]]
    <3>1. v \in Newer(feed[v][1]) => v \in Newer(feed[v][1])'
      BY <1>1, <2>3, Zenon DEF Newer, Id
    <3> QED
      BY <1>1, <2>2, <3>1, Zenon DEF Held
  <2>4. CASE ~(Id(v) > cursor'[feed[v][1]])
    <3>1. cursor'[feed[v][1]] \in 0..MaxUpdates
      BY <1>4, <2>1, Zenon DEF TypeOK
    <3>2. Id(v) \in 1..cursor'[feed[v][1]]
      BY <2>1, <2>4, <3>1, SMT
    <3>3. feed[v] \in rows \cup lost
      BY <1>1, <1>9, <2>1, <3>2, Zenon DEF CursorSafe
    <3> QED
      BY <1>1, <3>3, Zenon DEF Held
  <2> QED
    BY <2>3, <2>4
<1> QED
  BY <1>4, <1>5, <1>6, <1>9, <1>10 DEF IntakeInv

\* A new process starts empty: Telegram still has what it has not forgotten,
\* and the rest of what was in memory counts as lost.
LEMMA RestartInv == IInv /\ Restart => IInv'
<1> SUFFICES ASSUME IInv, Restart PROVE IInv'
  OBVIOUS
<1> USE DEF IInv
<1> DEFINE memory == batch \cup UNION {buffer[c] : c \in Channel}
           U == {u \in memory : u <= forgotten}
<1>1. /\ UNCHANGED <<feed, newest, forgotten, rows, cursor>>
      /\ offset' = 0 /\ got' = forgotten
      /\ buffer' = [c \in Channel |-> {}]
      /\ todo' = {} /\ source' = NoChannel /\ batch' = {} /\ last' = 0
      /\ lost' = lost \cup (Carried(U) \ rows)
  BY Zenon DEF Restart, telegram, store
<1>2. faults' \in 0..MaxFaults /\ forgotten \in 0..Len(feed) /\ Len(feed) \in Nat
  BY SMT DEF Restart, Fault, TypeOK
<1>3. First' = forgotten + 1
  BY <1>1, <1>2, SMT DEF First
<1>4. U \in SUBSET (1..Len(feed))
  <2>1. \A c \in Channel : buffer[c] \subseteq 1..Len(feed)
    BY SMT DEF TypeOK
  <2>2. batch \subseteq 1..Len(feed)
    BY DEF TypeOK
  <2>3. \A u \in memory : u \in 1..Len(feed)
    BY <2>1, <2>2, Zenon
  <2> QED
    BY <2>3, Zenon
<1>5. lost' \subseteq Message /\ lost \subseteq lost'
  BY <1>1, <1>4, CarriedType, Zenon DEF TypeOK
<1>6. TypeOK'
  <2>1. Cardinality({}) <= MaxBuffered
    BY FS_EmptySet, SMT
  <2>2. offset' \in 0..(Len(feed) + 1) /\ got' \in 0..Len(feed) /\ last' \in 0..MaxUpdates
    BY <1>1, <1>2, SMT
  <2>3. buffer' \in [Channel -> SUBSET (1..Len(feed))]
    BY <1>1, Zenon
  <2>4. \A c \in Channel : Cardinality(buffer'[c]) <= MaxBuffered
    BY <1>1, <2>1, Zenon
  <2> QED
    BY <1>1, <1>2, <1>5, <2>2, <2>3, <2>4, Zenon DEF TypeOK
<1>7. FeedInv' /\ CursorSafe' /\ BatchInv'
  BY <1>1, <1>5, Zenon DEF IntakeInv, FeedInv, CursorSafe, BatchInv, Id
<1>8. ClientInv'
  <2>1. forgotten' <= got' /\ offset' <= got' + 1
    BY <1>1, <1>2, SMT
  <2> QED
    BY <1>1, <2>1, Zenon DEF ClientInv
<1>9. Accounted'
  <2> SUFFICES ASSUME NEW v \in 1..forgotten PROVE Held(v)'
    <3>1. 1..(First' - 1) = 1..forgotten
      BY <1>2, <1>3, SMT
    <3> QED
      BY <3>1, Zenon DEF Accounted
  <2>1. v <= forgotten /\ v \in 1..(First - 1)
    BY <1>2, FirstType, SMT
  <2>2. Held(v) /\ feed[v][1] \in Channel
    BY <2>1, Handled, FeedType, Zenon DEF IntakeInv, Accounted
  <2>3. v \in memory => feed[v] \in rows \cup lost'
    BY <1>1, <2>1, Zenon DEF Carried
  <2>4. v \in Newer(feed[v][1]) => v \in memory
    BY <2>2, Zenon DEF Newer
  <2> QED
    BY <1>1, <1>5, <2>2, <2>3, <2>4, Zenon DEF Held
<1> QED
  BY <1>6, <1>7, <1>8, <1>9 DEF IntakeInv

----------------------------------------------------------------------------

\* The inductive invariant of the client and the fetch step of a cycle, for
\* any channels, any buffer size and any faults.
THEOREM IntakeInvariant == Spec => [](TypeOK /\ IntakeInv)
<1>1. Init => IInv
  BY InitInv
<1>2. IInv /\ [Next]_vars => IInv'
  <2> SUFFICES ASSUME IInv, [Next]_vars PROVE IInv'
    OBVIOUS
  <2>1. CASE UNCHANGED vars
    <3>1. UNCHANGED <<feed, newest, forgotten, offset, got, buffer, todo,
                      source, batch, last, rows, cursor, lost, faults>>
      BY <2>1 DEF vars, telegram, client, cycle, store
    <3>2. TypeOK'
      BY <3>1, Zenon DEF IInv, TypeOK
    <3> QED
      BY <3>1, <3>2, SameIntake DEF IInv
  <2>2. CASE \E c \in Channel : Publish(c) \/ Edit(c)
    BY <2>2, PublishInv, EditInv
  <2>3. CASE ClientStep
    BY <2>3, PollInv, HandleInv DEF ClientStep
  <2>4. CASE CycleStep
    BY <2>4, StartInv, FetchInv, UpsertInv, AdvanceInv DEF CycleStep
  <2>5. CASE Restart
    BY <2>5, RestartInv
  <2> QED
    BY <2>1, <2>2, <2>3, <2>4, <2>5 DEF Next
<1>3. IInv <=> TypeOK /\ IntakeInv
  BY DEF IInv
<1> QED
  BY <1>1, <1>2, <1>3, PTL DEF Spec

\* Nothing that Telegram has forgotten disappears without a fault or a full
\* buffer (longPoll, FetchNewPosts, the loop over a batch).
THEOREM NothingSlipsThrough == Spec => []Accounted
<1>1. TypeOK /\ IntakeInv => Accounted
  BY DEF IntakeInv
<1> QED
  BY <1>1, IntakeInvariant, PTL

\* The cursor of a channel passes only settled posts, although it is set to
\* the id of the last post of a batch that may be out of order.
THEOREM CursorIsSafe == Spec => []CursorSafe
<1>1. TypeOK /\ IntakeInv => CursorSafe
  BY DEF IntakeInv
<1> QED
  BY <1>1, IntakeInvariant, PTL

\* The unguarded UPDATE of AdvanceCursor never moves a cursor back.
THEOREM CursorNeverMovesBack == Spec => CursorOnlyAdvances
<1>1. ASSUME TypeOK, IntakeInv, [Next]_vars
      PROVE  [\A c \in Channel : cursor'[c] >= cursor[c]]_vars
  <2> SUFFICES ASSUME NEW c \in Channel, cursor' # cursor
               PROVE  cursor'[c] >= cursor[c]
    <3>1. cursor' = cursor => \A c \in Channel : cursor'[c] >= cursor[c]
      <4>1. \A c \in Channel : cursor[c] \in 0..MaxUpdates
        BY <1>1, SMT DEF TypeOK
      <4>2. \A c \in Channel : cursor[c] >= cursor[c]
        BY <4>1, SMT
      <4> QED
        BY <4>2, Zenon
    <3> QED
      BY <3>1, Zenon
  <2>1. AdvanceCursor
    BY <1>1, Zenon DEF Next, ClientStep, CycleStep, Publish, Edit, Poll,
       HandleUpdate, StartCycle, Upsert, Fetch, Restart, vars, telegram,
       client, cycle, store
  <2>2. /\ cursor' = [cursor EXCEPT ![source] = last] /\ source \in Channel
        /\ last > cursor[source]
    BY <1>1, <2>1, Zenon DEF AdvanceCursor, IntakeInv, BatchInv, TypeOK
  <2>3. CASE c = source
    <3>1. cursor'[c] = last /\ last \in 0..MaxUpdates /\ cursor[c] \in 0..MaxUpdates
      BY <1>1, <2>2, <2>3, Zenon DEF TypeOK
    <3> QED
      BY <2>2, <2>3, <3>1, SMT
  <2>4. CASE c # source
    <3>1. cursor'[c] = cursor[c] /\ cursor[c] \in 0..MaxUpdates
      BY <1>1, <2>2, <2>4, Zenon DEF TypeOK
    <3> QED
      BY <3>1, SMT
  <2> QED
    BY <2>3, <2>4
<1> QED
  BY <1>1, IntakeInvariant, PTL DEF Spec, CursorOnlyAdvances

----------------------------------------------------------------------------
(* The feed of a channel. *)

\* A published message of channel c, as the feed sees it.
Captured(c) == {m \in 1..MaxUpdates : <<c, m>> \in rows}
Missed(c)   == {m \in 1..MaxUpdates : <<c, m>> \in lost \ rows}

RowsPublished == \A p \in rows \cup lost : p[2] \in 1..newest[p[1]]
FeedsGoOn     == \A c \in Channel : [Feed(c)!Next]_(Feed(c)!vars)

LEMMA FeedsStay ==
  ASSUME UNCHANGED <<newest, cursor, rows, lost>>
  PROVE  FeedsGoOn
BY Zenon DEF FeedsGoOn, Feed!vars

LEMMA CaptureFeeds ==
  ASSUME NEW c \in Channel, NEW n \in cursor[c]..newest[c],
         NEW S \in SUBSET ((cursor[c] + 1)..newest[c]),
         Captured(c)' = Captured(c) \cup S, Missed(c)' = Missed(c) \ S,
         cursor'[c] = n, 1..n \subseteq Captured(c)' \cup Missed(c)',
         newest'[c] = newest[c]
  PROVE  [Feed(c)!Next]_(Feed(c)!vars)
<1>1. Feed(c)!Capture(S, n)
  BY Zenon DEF Feed!Capture, Captured, Missed
<1> QED
  BY <1>1, Zenon DEF Feed!Next

LEMMA GiveUpFeeds ==
  ASSUME NEW c \in Channel, NEW S \in SUBSET ((1..newest[c]) \ Captured(c)),
         Captured(c)' = Captured(c), Missed(c)' = Missed(c) \cup S,
         cursor'[c] = cursor[c], newest'[c] = newest[c]
  PROVE  [Feed(c)!Next]_(Feed(c)!vars)
<1>1. Feed(c)!GiveUp(S)
  BY Zenon DEF Feed!GiveUp, Captured, Missed
<1> QED
  BY <1>1, Zenon DEF Feed!Next, Captured

\* Updates carry published messages.
LEMMA CarriedPublished ==
  ASSUME IInv, CaptureInv, NEW U \in SUBSET (1..Len(feed))
  PROVE  \A p \in Carried(U) : p \in Message /\ p[2] \in 1..newest[p[1]]
<1>1. ASSUME NEW u \in U PROVE feed[u] \in Message /\ feed[u][2] \in 1..newest[feed[u][1]]
  BY FeedType, Zenon DEF IInv, CaptureInv, Id
<1> QED
  BY <1>1, Zenon DEF Carried

\* Updates that a fault or a full buffer takes out of the memory.
LEMMA LossFeeds ==
  ASSUME IInv, CaptureInv, NEW U \in SUBSET (1..Len(feed)),
         UNCHANGED <<newest, cursor, rows>>,
         lost' = lost \cup (Carried(U) \ rows)
  PROVE  FeedsGoOn /\ RowsPublished'
<1>1. \A p \in Carried(U) : p \in Message /\ p[2] \in 1..newest[p[1]]
  BY CarriedPublished
<1>2. RowsPublished'
  BY <1>1, Zenon DEF RowsPublished, CaptureInv
<1>3. ASSUME NEW c \in Channel PROVE [Feed(c)!Next]_(Feed(c)!vars)
  <2> DEFINE S == {m \in 1..MaxUpdates : <<c, m>> \in Carried(U) \ rows}
  <2>1. S \in SUBSET ((1..newest[c]) \ Captured(c))
    <3>1. ASSUME NEW m \in S PROVE m \in 1..newest[c] /\ m \notin Captured(c)
      <4>1. <<c, m>>[2] \in 1..newest[<<c, m>>[1]]
        BY <1>1, Zenon
      <4>2. <<c, m>>[1] = c /\ <<c, m>>[2] = m
        OBVIOUS
      <4>3. m \in 1..newest[c]
        BY <4>1, <4>2, Zenon
      <4> QED
        BY <4>3, Zenon DEF Captured
    <3> QED
      BY <3>1, Zenon
  <2>2. Missed(c)' = Missed(c) \cup S /\ Captured(c)' = Captured(c)
    BY Zenon DEF Missed, Captured
  <2> HIDE DEF S
  <2> QED
    BY <2>1, <2>2, GiveUpFeeds, Zenon
<1> QED
  BY <1>2, <1>3, Zenon DEF FeedsGoOn

LEMMA PublishFeeds ==
  ASSUME IInv, CaptureInv, IInv', NEW c \in Channel, Publish(c) \/ Edit(c)
  PROVE  FeedsGoOn /\ CaptureInv'
<1>1. UNCHANGED <<batch, source, rows, cursor, lost>>
  BY Zenon DEF Publish, Edit, cycle, store
<1>2. /\ newest \in [Channel -> 0..Len(feed)] /\ feed \in Seq(Message)
      /\ Len(feed) \in Nat
      /\ \A d \in Channel : newest[d] \in Nat
  <2>1. newest \in [Channel -> 0..Len(feed)] /\ feed \in Seq(Message)
    BY Zenon DEF IInv, TypeOK
  <2>2. Len(feed) \in Nat /\ \A i \in 0..Len(feed) : i \in Nat
    BY <2>1, SMT
  <2> QED
    BY <2>1, <2>2, Zenon
<1>3. PICK m \in 1..newest'[c] : feed' = Append(feed, <<c, m>>)
  <2>1. CASE Publish(c)
    <3>1. newest'[c] = newest[c] + 1 /\ feed' = Append(feed, <<c, newest[c] + 1>>)
      BY <1>2, <2>1, Zenon DEF Publish
    <3>2. newest[c] + 1 \in 1..(newest[c] + 1)
      BY <1>2, SMT
    <3> QED
      BY <3>1, <3>2, Zenon
  <2>2. CASE Edit(c)
    BY <2>2, Zenon DEF Edit
  <2> QED
    BY <2>1, <2>2
<1>4. ASSUME NEW d \in Channel
      PROVE  newest'[d] = newest[d] \/ newest'[d] = newest[d] + 1
  BY <1>2, Zenon DEF Publish, Edit
<1>5. ASSUME NEW d \in Channel PROVE 1..newest[d] \subseteq 1..newest'[d]
  <2>1. newest[d] \in Nat
    BY <1>2, Zenon
  <2> QED
    BY <1>4, <2>1, SMT
<1>6. FeedsGoOn
  <2>1. ASSUME NEW d \in Channel PROVE [Feed(d)!Next]_(Feed(d)!vars)
    <3>1. CASE newest'[d] = newest[d]
      BY <1>1, <3>1, Zenon DEF Feed!vars
    <3>2. CASE newest'[d] = newest[d] + 1
      <4>1. Feed(d)!Publish
        BY <1>1, <3>2, Zenon DEF Feed!Publish
      <4> QED
        BY <4>1, Zenon DEF Feed!Next
    <3> QED
      BY <1>4, <3>1, <3>2
  <2> QED
    BY <2>1, Zenon DEF FeedsGoOn
<1>7. Len(feed') = Len(feed) + 1 /\ feed'[Len(feed) + 1] = <<c, m>>
      /\ \A u \in 1..Len(feed) : feed'[u] = feed[u]
  <2>1. <<c, m>> \in Message
    BY <1>3, FeedType, SMT DEF IInv, TypeOK, Message
  <2> QED
    BY <1>2, <1>3, <2>1, SMT
<1>8. ASSUME NEW u \in 1..Len(feed') PROVE Id(u)' \in 1..newest'[feed'[u][1]]
  <2>1. u \in 1..Len(feed) \/ u = Len(feed) + 1
    BY <1>2, <1>7, SMT
  <2>2. CASE u \in 1..Len(feed)
    <3>1. feed'[u] = feed[u] /\ feed[u][1] \in Channel /\ Id(u) \in 1..newest[feed[u][1]]
      BY <1>7, <2>2, FeedType, Zenon DEF IInv, CaptureInv
    <3>2. Id(u)' = Id(u)
      BY <3>1, Zenon DEF Id
    <3> QED
      BY <1>5, <3>1, <3>2, Zenon
  <2>3. CASE u = Len(feed) + 1
    <3>1. feed'[u] = <<c, m>>
      BY <1>7, <2>3, Zenon
    <3>2. <<c, m>>[1] = c /\ <<c, m>>[2] = m
      OBVIOUS
    <3> QED
      BY <3>1, <3>2, Zenon DEF Id
  <2> QED
    BY <2>1, <2>2, <2>3
<1>9. RowsPublished'
  <2>1. \A p \in rows \cup lost : p \in Message
    BY Zenon DEF IInv, TypeOK
  <2>2. \A p \in Message : p[1] \in Channel
    BY DEF Message
  <2> QED
    BY <1>1, <1>5, <2>1, <2>2, Zenon DEF RowsPublished, CaptureInv
<1>10. ASSUME NEW u \in batch PROVE feed'[u][1] = source /\ Id(u)' > cursor[source]
  <2>1. feed'[u] = feed[u] /\ feed[u][1] = source /\ Id(u) > cursor[source]
    BY <1>7, Zenon DEF IInv, TypeOK, CaptureInv
  <2> QED
    BY <2>1, Zenon DEF Id
<1> QED
  BY <1>1, <1>6, <1>8, <1>9, <1>10, Zenon DEF CaptureInv, RowsPublished

LEMMA UpsertFeeds ==
  ASSUME IInv, CaptureInv, Upsert
  PROVE  FeedsGoOn /\ CaptureInv'
<1> DEFINE u == Min(batch)
           p == feed[u]
<1>1. UNCHANGED <<feed, newest, source, cursor>> /\ batch # {} /\ batch' = batch \ {u}
  BY DEF Upsert, telegram, client
<1>2. u \in batch /\ u \in 1..Len(feed)
  <2>1. batch \in SUBSET Nat
    BY SMT DEF IInv, TypeOK
  <2>2. u \in batch
    BY <1>1, <2>1, MinNat
  <2> QED
    BY <2>2, Zenon DEF IInv, TypeOK
<1>3. \A v \in batch' : feed'[v][1] = source' /\ Id(v)' > cursor'[source']
  BY <1>1, Zenon DEF CaptureInv, Id
<1>4. \A v \in 1..Len(feed') : Id(v)' \in 1..newest'[feed'[v][1]]
  BY <1>1, Zenon DEF CaptureInv, Id
<1>5. {u} \in SUBSET (1..Len(feed)) /\ Carried({u}) = {p}
  BY <1>2, Zenon DEF Carried
<1>6. CASE UNCHANGED rows /\ lost' = lost \cup ({p} \ rows)
  <2>1. FeedsGoOn /\ RowsPublished'
    BY <1>1, <1>5, <1>6, LossFeeds, Zenon
  <2> QED
    BY <1>3, <1>4, <2>1, Zenon DEF CaptureInv, RowsPublished
<1>7. CASE rows' = rows \cup {p} /\ lost' = lost
  <2> DEFINE k == Id(u)
             s == source
  <2>1. p = <<s, k>> /\ k \in 1..newest[s] /\ k > cursor[s] /\ k \in 1..MaxUpdates
        /\ s \in Channel
    BY <1>2, FeedType, Zenon DEF IInv, CaptureInv
  <2>2. RowsPublished'
    <3>1. p[2] \in 1..newest[p[1]]
      BY <1>2, Zenon DEF CaptureInv, Id
    <3> QED
      BY <1>1, <1>7, <3>1, Zenon DEF RowsPublished, CaptureInv
  <2>3. ASSUME NEW d \in Channel PROVE [Feed(d)!Next]_(Feed(d)!vars)
    <3> HIDE DEF k, s
    <3>1. CASE d # s
      <4>1. \A m \in 1..MaxUpdates : <<d, m>> # p
        BY <2>1, <3>1
      <4>2. Captured(d)' = Captured(d) /\ Missed(d)' = Missed(d)
        BY <1>7, <4>1, Zenon DEF Captured, Missed
      <4> QED
        BY <1>1, <4>2, Zenon DEF Feed!vars, Captured, Missed
    <3>2. CASE d = s
      <4>1. \A m \in 1..MaxUpdates : <<d, m>> = p <=> m = k
        BY <2>1, <3>2
      <4>2. Captured(d)' = Captured(d) \cup {k} /\ Missed(d)' = Missed(d) \ {k}
        BY <1>7, <2>1, <4>1, Zenon DEF Captured, Missed
      <4>3. cursor[d] \in 0..MaxUpdates /\ newest[d] \in 0..Len(feed) /\ Len(feed) \in Nat
        BY SMT DEF IInv, TypeOK
      <4>4. cursor[d] \in cursor[d]..newest[d] /\ {k} \in SUBSET ((cursor[d] + 1)..newest[d])
        BY <2>1, <3>2, <4>3, SMT
      <4>5. 1..cursor[d] \subseteq Captured(d)' \cup Missed(d)'
        <5>1. ASSUME NEW m \in 1..cursor[d] PROVE m \in Captured(d) \cup Missed(d)
          <6>1. m \in 1..MaxUpdates
            BY <4>3, SMT
          <6>2. <<d, m>> \in rows \cup lost
            BY Zenon DEF IInv, IntakeInv, CursorSafe
          <6> QED
            BY <6>1, <6>2, Zenon DEF Captured, Missed
        <5> QED
          BY <4>2, <5>1, Zenon
      <4> HIDE DEF u, p
      <4> QED
        BY <1>1, <4>2, <4>4, <4>5, CaptureFeeds, Zenon
    <3> QED
      BY <3>1, <3>2
  <2> QED
    BY <1>3, <1>4, <2>2, <2>3, Zenon DEF CaptureInv, RowsPublished, FeedsGoOn
<1> QED
  BY <1>6, <1>7, Zenon DEF Upsert

LEMMA AdvanceFeeds ==
  ASSUME IInv, CaptureInv, AdvanceCursor
  PROVE  FeedsGoOn /\ CaptureInv'
<1> DEFINE s == source
<1>1. /\ UNCHANGED <<feed, newest, batch, rows, lost>>
      /\ s # NoChannel /\ s \in Channel /\ batch = {}
      /\ cursor' = [cursor EXCEPT ![s] = last] \/ cursor' = cursor
  BY Zenon DEF AdvanceCursor, telegram, client, IInv, TypeOK
<1>2. CaptureInv'
  BY <1>1, Zenon DEF CaptureInv, Id
<1>3. CASE cursor' = cursor
  BY <1>1, <1>2, <1>3, FeedsStay
<1>4. CASE cursor' = [cursor EXCEPT ![s] = last]
  <2>1. ASSUME NEW d \in Channel PROVE [Feed(d)!Next]_(Feed(d)!vars)
    <3>1. CASE d # s
      <4>1. cursor'[d] = cursor[d]
        BY <1>4, <3>1, Zenon DEF IInv, TypeOK
      <4> QED
        BY <1>1, <4>1, Zenon DEF Feed!vars
    <3>2. CASE d = s
      <4>1. cursor'[d] = last /\ last > cursor[d]
            /\ cursor[d] \in 0..MaxUpdates /\ last \in 0..MaxUpdates
        BY <1>1, <1>4, <3>2, Zenon DEF IInv, TypeOK, IntakeInv, BatchInv
      <4>2. \A m \in 1..last : <<d, m>> \in rows \cup lost
        <5>1. Carried(batch) = {}
          BY <1>1, Zenon DEF Carried
        <5> QED
          BY <1>1, <3>2, <5>1, Zenon DEF IInv, IntakeInv, BatchInv
      <4>3. last \in 1..newest[d]
        <5>1. last \in 1..last
          BY <4>1, SMT
        <5>2. <<d, last>>[2] \in 1..newest[<<d, last>>[1]]
          BY <4>2, <5>1, Zenon DEF CaptureInv
        <5> QED
          BY <5>2
      <4>4. last \in cursor[d]..newest[d] /\ {} \in SUBSET ((cursor[d] + 1)..newest[d])
        <5>1. newest[d] \in 0..Len(feed) /\ Len(feed) \in Nat
          BY SMT DEF IInv, TypeOK
        <5> QED
          BY <4>1, <4>3, <5>1, SMT
      <4>5. Captured(d)' = Captured(d) \cup {} /\ Missed(d)' = Missed(d) \ {}
        BY <1>1, Zenon DEF Captured, Missed
      <4>6. 1..last \subseteq Captured(d)' \cup Missed(d)'
        <5>1. ASSUME NEW m \in 1..last PROVE m \in Captured(d) \cup Missed(d)
          <6>1. m \in 1..MaxUpdates
            BY <4>1, SMT
          <6> QED
            BY <4>2, <6>1, Zenon DEF Captured, Missed
        <5> QED
          BY <4>5, <5>1, Zenon
      <4> QED
        BY <1>1, <4>1, <4>4, <4>5, <4>6, CaptureFeeds, Zenon
    <3> QED
      BY <3>1, <3>2
  <2> QED
    BY <1>2, <2>1, Zenon DEF FeedsGoOn
<1> QED
  BY <1>1, <1>3, <1>4

LEMMA HandleFeeds ==
  ASSUME IInv, CaptureInv, HandleUpdate \/ Restart
  PROVE  FeedsGoOn /\ CaptureInv'
<1>1. UNCHANGED <<feed, newest, rows, cursor>>
      /\ (UNCHANGED <<source, batch>> \/ batch' = {})
  BY Zenon DEF HandleUpdate, Restart, telegram, cycle, store
<1>2. \A d \in Channel : buffer[d] \subseteq 1..Len(feed)
  BY Zenon DEF IInv, TypeOK
<1>3. PICK U \in SUBSET (1..Len(feed)) : lost' = lost \cup (Carried(U) \ rows)
  <2>1. CASE HandleUpdate
    <3> DEFINE c == feed[First][1]
               D == (buffer[c] \cup {First}) \ Buffered(buffer[c], First)
    <3>1. lost' = lost \cup (Carried(D) \ rows)
      BY <2>1, Zenon DEF HandleUpdate
    <3>2. First \in 1..Len(feed)
      BY <2>1, FirstType, SMT DEF HandleUpdate, IInv, TypeOK
    <3>3. c \in Channel
      BY <3>2, FeedType, Zenon DEF IInv
    <3>4. D \in SUBSET (1..Len(feed))
      BY <1>2, <3>2, <3>3, Zenon
    <3> QED
      BY <3>1, <3>4, Zenon
  <2>2. CASE Restart
    <3> DEFINE memory == batch \cup UNION {buffer[c] : c \in Channel}
               U == {v \in memory : v <= forgotten}
    <3>1. lost' = lost \cup (Carried(U) \ rows)
      BY <2>2, Zenon DEF Restart
    <3>2. batch \subseteq 1..Len(feed)
      BY Zenon DEF IInv, TypeOK
    <3>3. \A v \in memory : v \in 1..Len(feed)
      BY <1>2, <3>2, Zenon
    <3>4. U \in SUBSET (1..Len(feed))
      BY <3>3, Zenon
    <3> QED
      BY <3>1, <3>4, Zenon
  <2> QED
    BY <2>1, <2>2
<1>4. FeedsGoOn /\ RowsPublished'
  BY <1>1, <1>3, LossFeeds, Zenon
<1> QED
  BY <1>1, <1>4, Zenon DEF CaptureInv, RowsPublished, Id

LEMMA FetchFeeds ==
  ASSUME IInv, CaptureInv, NEW c \in Channel, Fetch(c)
  PROVE  FeedsGoOn /\ CaptureInv'
<1>1. UNCHANGED <<feed, newest, rows, cursor, lost>>
      /\ (UNCHANGED <<source, batch>> \/ (source' = c /\ batch' = Newer(c)))
  BY Zenon DEF Fetch, telegram, store
<1>2. \A u \in Newer(c) : feed[u][1] = c /\ Id(u) > cursor[c]
  BY Zenon DEF Newer, IInv, IntakeInv, ClientInv
<1>3. CaptureInv'
  BY <1>1, <1>2, Zenon DEF CaptureInv, Id
<1> QED
  BY <1>1, <1>3, FeedsStay

LEMMA FeedStep ==
  ASSUME IInv, CaptureInv, IInv', [Next]_vars
  PROVE  FeedsGoOn /\ CaptureInv'
<1>1. CASE \E c \in Channel : Publish(c) \/ Edit(c)
  BY <1>1, PublishFeeds
<1>2. CASE HandleUpdate \/ Restart
  BY <1>2, HandleFeeds
<1>3. CASE Upsert \/ AdvanceCursor
  BY <1>3, UpsertFeeds, AdvanceFeeds
<1>4. CASE \E c \in Channel : Fetch(c)
  BY <1>4, FetchFeeds
<1>5. CASE Poll \/ StartCycle \/ UNCHANGED vars
  <2>1. UNCHANGED <<feed, newest, source, batch, rows, cursor, lost>>
    BY <1>5, Zenon DEF Poll, StartCycle, vars, telegram, client, cycle, store
  <2>2. CaptureInv'
    BY <2>1, Zenon DEF CaptureInv, Id
  <2> QED
    BY <2>1, <2>2, FeedsStay
<1> QED
  BY <1>1, <1>2, <1>3, <1>4, <1>5, Zenon DEF Next, ClientStep, CycleStep

\* The client, its buffers and the batches of a cycle implement the feed of
\* every channel, through edits, redelivery, full buffers and restarts.
THEOREM IntakeImplementsFeed == Spec => ImplementsFeed
<1>1. Init => CaptureInv /\ \A c \in Channel : Feed(c)!Init
  <2> SUFFICES ASSUME Init
               PROVE  CaptureInv /\ \A c \in Channel : Feed(c)!Init
    OBVIOUS
  <2>1. 1..Len(feed) = {}
    BY SMT DEF Init
  <2> QED
    BY <2>1, Zenon DEF Init, CaptureInv, Feed!Init
<1>2. IInv /\ CaptureInv /\ IInv' /\ [Next]_vars => FeedsGoOn /\ CaptureInv'
  BY FeedStep
<1>3. IInv /\ CaptureInv /\ IInv' /\ [Next]_vars
        => [\A c \in Channel : [Feed(c)!Next]_(Feed(c)!vars)]_vars
  BY <1>2 DEF FeedsGoOn
<1> QED
  BY <1>1, <1>2, <1>3, IntakeInvariant, PTL DEF Spec, IInv, ImplementsFeed

=============================================================================
