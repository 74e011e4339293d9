--------------------------- MODULE PreviewProofs ---------------------------
(***************************************************************************)
(* Proofs about Preview: the cursor passes no readable post without a      *)
(* cause, a batch moves the cursor forward, every caller keeps the interval *)
(* between its own requests, and the walk implements the channel's feed.   *)
(***************************************************************************)
EXTENDS Preview, TLAPS, FiniteSetTheorems, WellFoundedInduction

USE SizesAssumption, BoundsAssumption

\* A set of post ids has an oldest one, and a bounded one a newest.
LEMMA OldestSpec ==
  ASSUME NEW T \in SUBSET Nat, T # {}
  PROVE  Oldest(T) \in T /\ \A y \in T : Oldest(T) <= y
<1>1. PICK x \in T : \A y \in T : <<y, x>> \notin OpToRel(<, Nat)
  BY WFMin, NatLessThanWellFounded, Zenon
<1>2. ASSUME NEW y \in T PROVE x <= y
  <2>1. y < x => <<y, x>> \in {ss \in Nat \X Nat : ss[1] < ss[2]}
    BY SMT
  <2>2. y < x => <<y, x>> \in OpToRel(<, Nat)
    BY <2>1, Zenon DEF OpToRel
  <2>3. ~(y < x)
    BY <1>1, <2>2, Zenon
  <2> QED
    BY <2>3, SMT
<1> QED
  BY <1>2 DEF Oldest

LEMMA NewestSpec ==
  ASSUME NEW T \in SUBSET PostId, T # {}
  PROVE  Newest(T) \in T /\ \A y \in T : y <= Newest(T)
<1> DEFINE D == {MaxId - y : y \in T}
<1>1. D \in SUBSET Nat /\ D # {}
  <2>1. \A y \in T : MaxId - y \in Nat
    BY SMT DEF PostId
  <2> QED
    BY <2>1, Zenon
<1>2. PICK d \in D : \A y \in D : d <= y
  BY <1>1, OldestSpec
<1>3. PICK x \in T : d = MaxId - x
  BY <1>2
<1>4. ASSUME NEW y \in T PROVE y <= x
  <2>1. d <= MaxId - y
    BY <1>2, Zenon
  <2> QED
    BY <1>3, <2>1, SMT DEF PostId
<1> QED
  BY <1>4 DEF Newest

\* A page holds the newest of the posts it may hold: with a post, all that are
\* newer.
LEMMA PageSpec ==
  ASSUME TypeOK, NEW b \in 0..MaxId
  PROVE  /\ Page(b) \subseteq Older(b) /\ Older(b) \subseteq live
         /\ \A j \in Page(b), i \in Older(b) : i > j => i \in Page(b)
<1>1. Page(b) \subseteq Older(b) /\ Older(b) \subseteq live
  BY Zenon DEF Page, Older
<1>2. newest \in Int /\ live \subseteq 1..newest
  BY SMT DEF TypeOK
<1>3. IsFiniteSet(1..newest)
  BY <1>2, FS_Interval, SMT
<1>4. ASSUME NEW j \in Page(b), NEW i \in Older(b), i > j
      PROVE  i \in Page(b)
  <2> DEFINE S == {k \in Older(b) : k > j}
             T == {k \in Older(b) : k > i}
  <2>1. T \in SUBSET S
    <3>1. Older(b) \subseteq Int
      <4>1. 1..newest \subseteq Int
        BY SMT
      <4> QED
        BY <1>1, <1>2, <4>1, Zenon
    <3> QED
      BY <1>1, <1>4, <3>1, SMT
  <2>2. IsFiniteSet(S)
    <3>1. S \in SUBSET (1..newest)
      BY <1>1, <1>2, Zenon
    <3> QED
      BY <1>3, <3>1, FS_Subset, Zenon
  <2>3. IsFiniteSet(T) /\ Cardinality(T) <= Cardinality(S)
    BY <2>1, <2>2, FS_Subset, Zenon
  <2>4. Cardinality(T) \in Nat /\ Cardinality(S) \in Nat
    BY <2>2, <2>3, FS_CardinalityType, Zenon
  <2>5. Cardinality(S) < PageSize
    BY Zenon DEF Page
  <2>6. Cardinality(T) < PageSize
    <3> HIDE DEF S, T
    <3> QED
      BY <2>3, <2>4, <2>5, SMT
  <2> QED
    BY <2>6, Zenon DEF Page
<1> QED
  BY <1>1, <1>4

\* What ReadPage reads.
LEMMA ShownSpec ==
  ASSUME TypeOK, NEW b \in 0..MaxId, NEW shown \in Shown(Page(b))
  PROVE  /\ shown \subseteq Page(b) /\ shown \subseteq live /\ shown \subseteq PostId
         /\ New(shown) \subseteq shown
         /\ shown # {} => NextBefore(Page(b)) \in Page(b)
         /\ \A i \in Page(b) : NextBefore(Page(b)) <= i
<1>1. shown \subseteq Page(b)
  BY Zenon DEF Shown
<1>2. live \subseteq PostId
  BY SMT DEF TypeOK, PostId
<1>3. Page(b) \subseteq live
  BY PageSpec, Zenon
<1>4. Page(b) \in SUBSET Nat
  <2>1. PostId \subseteq Nat
    BY SMT DEF PostId
  <2> QED
    BY <1>2, <1>3, <2>1, Zenon
<1>5. Page(b) # {} => /\ NextBefore(Page(b)) \in Page(b)
                      /\ \A i \in Page(b) : NextBefore(Page(b)) <= i
  BY <1>4, OldestSpec, Zenon DEF NextBefore
<1> QED
  BY <1>1, <1>2, <1>3, <1>5, Zenon DEF New

----------------------------------------------------------------------------
(* The throttle. *)

LEMMA RequestType ==
  ASSUME TypeOK, NEW c \in Caller, NEW next \in {"out", "look"}, Request(c, next)
  PROVE  /\ step' \in [Caller -> {"out", "look", "sleep"}]
         /\ wait' \in [Caller -> 0..MinInterval]
         /\ age' \in 0..MinInterval /\ own' \in [Caller -> 0..MinInterval]
<1>1. 0 \in 0..MinInterval
  BY SMT
<1> QED
  BY <1>1, Zenon DEF TypeOK, Request, Stamp

LEMMA RequestThrottle ==
  ASSUME TypeOK, ThrottleInv, NEW c \in Caller, NEW next \in {"out", "look"},
         Request(c, next)
  PROVE  ThrottleInv' /\ own[c] >= MinInterval
<1>1. ASSUME NEW d \in Caller
      PROVE  age' <= own'[d] /\ (step'[d] = "sleep" => own'[d] + wait'[d] >= MinInterval)
  <2>1. age' = 0
    BY Zenon DEF Request, Stamp
  <2>2. CASE d = c
    <3>1. own'[d] = 0 /\ step'[d] = next
      BY <2>2, Zenon DEF TypeOK, Request
    <3> QED
      BY <2>1, <3>1, SMT
  <2>3. CASE d # c
    <3>1. own'[d] = own[d] /\ step'[d] = step[d] /\ wait'[d] = wait[d]
      BY <2>3, Zenon DEF TypeOK, Request
    <3>2. own[d] \in 0..MinInterval
      BY Zenon DEF TypeOK
    <3> QED
      BY <2>1, <3>1, <3>2, SMT DEF ThrottleInv
  <2> QED
    BY <2>2, <2>3
<1>2. own[c] >= MinInterval
  <2>1. own[c] + wait[c] >= MinInterval /\ wait[c] = 0 /\ own[c] \in 0..MinInterval
    BY Zenon DEF ThrottleInv, Request, TypeOK
  <2> QED
    BY <2>1, SMT
<1> QED
  BY <1>1, <1>2, Zenon DEF ThrottleInv

LEMMA TickThrottle ==
  ASSUME TypeOK, ThrottleInv, Tick
  PROVE  /\ ThrottleInv'
         /\ age' \in 0..MinInterval /\ own' \in [Caller -> 0..MinInterval]
         /\ wait' \in [Caller -> 0..MinInterval]
<1> USE DEF AtMost, AtLeast
<1>1. age \in 0..MinInterval
  BY Zenon DEF TypeOK
<1>2. age' \in 0..MinInterval
  BY <1>1, SMT DEF Tick
<1>3. ASSUME NEW d \in Caller
      PROVE  /\ own'[d] \in 0..MinInterval /\ wait'[d] \in 0..MinInterval
             /\ age' <= own'[d]
             /\ step'[d] = "sleep" => own'[d] + wait'[d] >= MinInterval
  <2>1. own[d] \in 0..MinInterval /\ wait[d] \in 0..MinInterval
    BY Zenon DEF TypeOK
  <2>2. own'[d] = AtMost(own[d] + 1, MinInterval) /\ wait'[d] = AtLeast(wait[d] - 1, 0)
        /\ step' = step /\ age' = AtMost(age + 1, MinInterval)
    BY Zenon DEF Tick
  <2>3. age <= own[d] /\ (step[d] = "sleep" => own[d] + wait[d] >= MinInterval)
    BY Zenon DEF ThrottleInv
  <2> QED
    BY <1>1, <2>1, <2>2, <2>3, SMT
<1>4. own' \in [Caller -> 0..MinInterval] /\ wait' \in [Caller -> 0..MinInterval]
  BY <1>3, Zenon DEF Tick
<1> QED
  BY <1>2, <1>3, <1>4, Zenon DEF ThrottleInv

LEMMA LookThrottle ==
  ASSUME TypeOK, ThrottleInv, NEW c \in Caller, Look(c)
  PROVE  /\ ThrottleInv'
         /\ step' \in [Caller -> {"out", "look", "sleep"}]
         /\ wait' \in [Caller -> 0..MinInterval]
<1>1. age \in 0..MinInterval
  BY Zenon DEF TypeOK
<1>2. TimeToSleep \in 0..MinInterval
  BY <1>1, SMT DEF TimeToSleep
<1>3. step' \in [Caller -> {"out", "look", "sleep"}] /\ wait' \in [Caller -> 0..MinInterval]
  BY <1>2, Zenon DEF TypeOK, Look
<1>4. ASSUME NEW d \in Caller
      PROVE  age' <= own'[d] /\ (step'[d] = "sleep" => own'[d] + wait'[d] >= MinInterval)
  <2>1. own[d] \in 0..MinInterval /\ age <= own[d] /\ own' = own /\ age' = age
    BY Zenon DEF TypeOK, ThrottleInv, Look
  <2>2. CASE d = c
    <3>1. wait'[d] = MinInterval - age
      BY <2>2, Zenon DEF TypeOK, Look, TimeToSleep
    <3> QED
      BY <1>1, <2>1, <3>1, SMT
  <2>3. CASE d # c
    <3>1. step'[d] = step[d] /\ wait'[d] = wait[d]
      BY <2>3, Zenon DEF TypeOK, Look
    <3> QED
      BY <2>1, <3>1, Zenon DEF ThrottleInv
  <2> QED
    BY <2>2, <2>3
<1> QED
  BY <1>3, <1>4, Zenon DEF ThrottleInv

----------------------------------------------------------------------------
(* One page of a walk. *)

IInv == TypeOK /\ ThrottleInv /\ WalkInv

LEMMA ReadPageType ==
  ASSUME IInv, NEW shown \in Shown(Page(before)), NEW link \in Links(before),
         ReadPage(shown, link)
  PROVE  TypeOK'
<1> USE DEF IInv
<1>1. before \in 0..MaxId
  BY Zenon DEF TypeOK
<1>2. /\ shown \subseteq live /\ shown \subseteq PostId /\ New(shown) \subseteq PostId
      /\ New(shown) # {} => Newest(New(shown)) \in New(shown)
  BY <1>1, ShownSpec, NewestSpec, Zenon DEF New
<1>3. live \subseteq PostId
  BY SMT DEF TypeOK, PostId
<1>4. batch' \subseteq PostId
  BY <1>2, Zenon DEF ReadPage, TypeOK
<1>5. first' \in 0..MaxId
  <2>1. PostId \subseteq 0..MaxId
    BY SMT DEF PostId
  <2> QED
    BY <1>2, <2>1, Zenon DEF ReadPage, TypeOK
<1>6. /\ pc' \in {"idle", "walk", "done"}
      /\ before' \in 0..MaxId /\ pages' \in 0..MaxPages
  <2>1. CASE Ends(shown, link)
    BY <2>1, Zenon DEF ReadPage, TypeOK
  <2>2. CASE ~Ends(shown, link)
    <3>1. shown # {} /\ pages + 1 # MaxPages
      BY <2>2, Zenon DEF Ends, AtBoundary
    <3>2. NextBefore(Page(before)) \in live
      BY <1>1, <3>1, ShownSpec, PageSpec, Zenon
    <3>3. NextBefore(Page(before)) \in 0..MaxId
      <4>1. PostId \subseteq 0..MaxId
        BY SMT DEF PostId
      <4> QED
        BY <1>3, <3>2, <4>1, Zenon
    <3>4. pages + 1 \in 0..MaxPages
      <4>1. pages \in 0..MaxPages /\ pages < MaxPages
        BY Zenon DEF WalkInv, TypeOK, ReadPage
      <4> QED
        BY <4>1, SMT
    <3> QED
      BY <2>2, <3>3, <3>4, Zenon DEF ReadPage
  <2> QED
    BY <2>1, <2>2
<1>7. /\ step' \in [Caller -> {"out", "look", "sleep"}]
      /\ wait' \in [Caller -> 0..MinInterval]
      /\ age' \in 0..MinInterval /\ own' \in [Caller -> 0..MinInterval]
  <2>1. PICK next \in {"out", "look"} : Request("cycle", next)
    BY Zenon DEF ReadPage
  <2> QED
    BY <2>1, RequestType, Zenon DEF Caller
<1>8. glitches' \in 0..MaxGlitches
  <2>1. glitches < MaxGlitches \/ Intact(before, shown, link)
    BY Zenon DEF Shown, Links, Intact
  <2>2. glitches \in 0..MaxGlitches
    BY Zenon DEF TypeOK
  <2>3. glitches' = IF Intact(before, shown, link) THEN glitches ELSE glitches + 1
    BY Zenon DEF ReadPage
  <2> QED
    BY <2>1, <2>2, <2>3, SMT
<1>9. cut' \subseteq PostId /\ unread' \subseteq PostId
  <2>1. Left(before) \subseteq PostId /\ New(Page(before)) \subseteq PostId
    BY <1>1, <1>3, PageSpec, Zenon DEF Left, New
  <2> QED
    BY <2>1, Zenon DEF ReadPage, TypeOK
<1>10. UNCHANGED <<newest, live, active, cursor, captured, deletes, failures, checks>>
  BY Zenon DEF ReadPage, channel, rows
<1> QED
  BY <1>4, <1>5, <1>6, <1>7, <1>8, <1>9, <1>10, Zenon DEF TypeOK

\* A post between the cursor and the end of the longer batch is collected, given
\* up for a cause, or older than the next page.
LEMMA ReadPageWalk ==
  ASSUME IInv, NEW shown \in Shown(Page(before)), NEW link \in Links(before),
         ReadPage(shown, link)
  PROVE  WalkInv'
<1> USE DEF IInv
<1> DEFINE N == New(shown)
           b == before
           next == NextBefore(Page(before))
<1>0. /\ UNCHANGED <<newest, live, cursor, captured>>
      /\ pc = "walk" /\ batch' = batch \cup N
      /\ first' = IF batch = {} /\ N # {} THEN Newest(N) ELSE first
      /\ before \in 0..MaxId /\ newest \in 0..MaxId /\ cursor \in 0..MaxId
      /\ first \in 0..MaxId
  BY Zenon DEF ReadPage, channel, rows, TypeOK
<1>1. /\ shown \subseteq Page(b) /\ shown \subseteq live /\ shown \subseteq PostId
      /\ N \subseteq shown
      /\ shown # {} => next \in Page(b)
      /\ \A i \in Page(b) : next <= i
  BY <1>0, ShownSpec, Zenon
<1>2. /\ Page(b) \subseteq Older(b) /\ Older(b) \subseteq live
      /\ \A j \in Page(b), i \in Older(b) : i > j => i \in Page(b)
  BY <1>0, PageSpec, Zenon
<1>3. N # {} => Newest(N) \in N /\ \A y \in N : y <= Newest(N)
  <2>1. N \in SUBSET PostId
    BY <1>1, Zenon
  <2> QED
    BY <2>1, NewestSpec, Zenon
<1>4. /\ live \subseteq Int /\ batch \subseteq Int /\ N \subseteq Int
      /\ \A i \in live : 1 <= i /\ i <= newest
  <2>1. live \subseteq 1..newest /\ batch \subseteq PostId /\ N \subseteq PostId
    BY <1>1, Zenon DEF TypeOK
  <2>2. PostId \subseteq Int /\ \A i \in 1..newest : i \in Int /\ 1 <= i /\ i <= newest
    BY <1>0, SMT DEF PostId
  <2> QED
    BY <2>1, <2>2, Zenon
<1>5. \A i \in N : cursor < i
  <2>1. \A i \in N : i > cursor
    BY Zenon DEF New
  <2> QED
    BY <1>0, <1>4, <2>1, SMT
<1>6. BatchInv /\ \A i \in batch : b # 0 /\ b <= i
  BY <1>0, Zenon DEF WalkInv
<1>7. \A i \in Older(b) : b = 0 \/ i < b
  BY Zenon DEF Older
<1>8. batch # {} => first' = first /\ first \in batch /\ \A i \in N : i < first
  <2> SUFFICES ASSUME batch # {} PROVE first \in batch /\ \A i \in N : i < first
    BY <1>0, Zenon
  <2>1. first \in batch /\ b # 0 /\ b <= first
    BY <1>6, Zenon DEF BatchInv
  <2>2. ASSUME NEW i \in N PROVE i < first
    <3>1. i < b /\ i \in Int
      BY <1>1, <1>2, <1>4, <1>7, <2>1, Zenon
    <3> QED
      BY <1>0, <2>1, <3>1, SMT
  <2> QED
    BY <2>1, <2>2
<1>9. batch' # {} => first' \in batch'
  BY <1>0, <1>3, <1>8, Zenon
<1>10. batch' = {} => first' = 0
  BY <1>0, <1>6, Zenon DEF BatchInv
<1>11. ASSUME NEW i \in batch' PROVE cursor < i /\ i <= first'
  <2>1. CASE batch # {}
    <3>1. CASE i \in batch
      BY <1>6, <1>8, <2>1, <3>1, Zenon DEF BatchInv
    <3>2. CASE i \in N
      BY <1>0, <1>4, <1>5, <1>8, <2>1, <3>2, SMT
    <3> QED
      BY <1>0, <1>11, <3>1, <3>2, Zenon
  <2>2. CASE batch = {}
    <3>1. i \in N /\ first' = Newest(N)
      BY <1>0, <1>11, <2>2, Zenon
    <3> QED
      BY <1>3, <1>5, <3>1, Zenon
  <2> QED
    BY <2>1, <2>2
<1>12. first' <= newest
  <2>1. CASE batch' = {}
    BY <1>0, <1>10, <2>1, SMT
  <2>2. CASE batch = {} /\ N # {}
    <3>1. first' \in live
      BY <1>0, <1>1, <1>3, <2>2, Zenon
    <3> QED
      BY <1>4, <3>1, Zenon
  <2>3. CASE batch # {}
    BY <1>8, <2>3, Zenon DEF WalkInv
  <2> QED
    BY <1>0, <2>1, <2>2, <2>3, Zenon
<1>13. /\ cut \subseteq cut' /\ unread \subseteq unread'
       /\ New(Page(b)) \ shown \subseteq unread'
       /\ Older(b) # Page(b) /\ (~link \/ shown = {}) => Left(b) \subseteq unread'
       /\ ~AtBoundary(shown) /\ link /\ pages + 1 = MaxPages => Left(b) \subseteq cut'
       /\ Ends(shown, link) => pc' = "done"
       /\ ~Ends(shown, link) => pc' = "walk" /\ before' = next /\ pages' = pages + 1
  BY Zenon DEF ReadPage
<1>14. ASSUME NEW i \in live, cursor < i, i <= first'
       PROVE  \/ i \in batch' \cup cut' \cup unread'
              \/ pc' = "walk" /\ i < before'
  <2>1. CASE i \in batch \cup cut \cup unread
    BY <1>0, <1>13, <2>1, Zenon
  <2>2. CASE i \notin batch \cup cut \cup unread
    <3>1. i \in Older(b)
      <4>1. CASE batch # {}
        <5>1. i < b
          BY <1>6, <1>8, <1>14, <2>2, <4>1, Zenon DEF BatchInv
        <5> QED
          BY <5>1, Zenon DEF Older
      <4>2. CASE batch = {}
        <5>1. N # {} /\ first' = Newest(N)
          <6>1. first' # 0
            BY <1>4, <1>14, SMT
          <6> QED
            BY <1>0, <1>10, <4>2, <6>1, Zenon
        <5>2. Newest(N) \in Older(b) /\ Newest(N) \in Int /\ i \in Int
          BY <1>1, <1>2, <1>3, <1>4, <5>1, Zenon
        <5>3. b = 0 \/ Newest(N) < b
          BY <1>7, <5>2, Zenon
        <5>4. b = 0 \/ i < b
          BY <1>0, <1>14, <5>1, <5>2, <5>3, SMT
        <5> QED
          BY <5>4, Zenon DEF Older
      <4> QED
        BY <4>1, <4>2
    <3>2. i > cursor
      BY <1>0, <1>4, <1>14, SMT
    <3>3. CASE i \in Page(b)
      BY <1>0, <1>13, <3>2, <3>3, Zenon DEF New
    <3>4. CASE i \notin Page(b)
      <4>1. i \in Left(b) /\ Older(b) # Page(b)
        BY <3>1, <3>2, <3>4, Zenon DEF Left, New
      <4>2. CASE ~link \/ shown = {}
        BY <1>13, <4>1, <4>2, Zenon
      <4>3. CASE link /\ shown # {} /\ AtBoundary(shown)
        <5>1. PICK j \in shown : j <= cursor
          BY <4>3, Zenon DEF AtBoundary
        <5>2. i > j
          BY <1>0, <1>1, <1>4, <3>2, <5>1, SMT
        <5> QED
          BY <1>1, <1>2, <3>1, <3>4, <5>2, Zenon
      <4>4. CASE link /\ ~AtBoundary(shown) /\ pages + 1 = MaxPages
        BY <1>13, <4>1, <4>4, Zenon
      <4>5. CASE link /\ ~AtBoundary(shown) /\ pages + 1 # MaxPages
        <5>1. ~Ends(shown, link) /\ shown # {}
          BY <4>5, Zenon DEF Ends, AtBoundary
        <5>2. next \in Page(b) /\ ~(i > next) /\ i # next
          BY <1>1, <1>2, <3>1, <3>4, <5>1, Zenon
        <5>3. next \in Int
          BY <1>2, <1>4, <5>2, Zenon
        <5>4. i < next
          BY <1>4, <5>2, <5>3, SMT
        <5> QED
          BY <1>13, <5>1, <5>4, Zenon
      <4> QED
        BY <4>2, <4>3, <4>4, <4>5
    <3> QED
      BY <3>3, <3>4
  <2> QED
    BY <2>1, <2>2
<1>15. pc' = "walk" =>
         /\ pages' < MaxPages
         /\ \A i \in batch' : before' # 0 /\ before' <= i
  <2> SUFFICES ASSUME pc' = "walk"
               PROVE  /\ pages' < MaxPages
                      /\ \A i \in batch' : before' # 0 /\ before' <= i
    OBVIOUS
  <2>1. ~Ends(shown, link) /\ before' = next /\ pages' = pages + 1
    BY <1>13, Zenon
  <2>2. pages + 1 # MaxPages /\ shown # {} /\ pages < MaxPages /\ pages \in 0..MaxPages
    BY <1>0, <2>1, Zenon DEF Ends, AtBoundary, WalkInv, TypeOK
  <2>3. pages' < MaxPages
    BY <2>1, <2>2, SMT
  <2>4. next \in Page(b) /\ next \in Older(b) /\ next \in live /\ next \in Int /\ 1 <= next
    BY <1>1, <1>2, <1>4, <2>2, Zenon
  <2>5. ASSUME NEW i \in batch' PROVE next <= i
    <3>1. CASE i \in N
      BY <1>1, <3>1, Zenon
    <3>2. CASE i \in batch
      <4>1. b # 0 /\ b <= i /\ i \in Int
        BY <1>4, <1>6, <3>2, Zenon
      <4>2. next < b
        BY <1>7, <2>4, <4>1, Zenon
      <4> QED
        BY <1>0, <2>4, <4>1, <4>2, SMT
    <3> QED
      BY <1>0, <2>5, <3>1, <3>2, Zenon
  <2>6. next # 0
    BY <2>4, SMT
  <2> QED
    BY <2>1, <2>3, <2>5, <2>6, Zenon
<1>16. SkippedOnlyWithCause'
  BY <1>0, <1>13, Zenon DEF WalkInv, SkippedOnlyWithCause
<1>17. BatchInv'
  BY <1>0, <1>9, <1>10, <1>11, <1>14, Zenon DEF BatchInv
<1>18. pc' # "walk" => step'["cycle"] = "out"
  BY Zenon DEF ReadPage, Request, TypeOK, Caller
<1> QED
  BY <1>0, <1>12, <1>15, <1>16, <1>17, <1>18, Zenon DEF WalkInv

----------------------------------------------------------------------------
(* The other steps. *)

\* Steps that leave the walk, the rows and the channel alone.
LEMMA SameWalk ==
  ASSUME IInv,
         UNCHANGED <<newest, live, active, cursor, captured, pc, before, pages, batch,
                     first, deletes, glitches, failures, cut, unread>>,
         checks' \in 0..MaxChecks, ThrottleInv',
         step' \in [Caller -> {"out", "look", "sleep"}],
         pc # "walk" => step'["cycle"] = "out",
         wait' \in [Caller -> 0..MinInterval],
         age' \in 0..MinInterval, own' \in [Caller -> 0..MinInterval]
  PROVE  IInv'
<1>1. TypeOK'
  BY Zenon DEF IInv, TypeOK
<1>2. WalkInv'
  BY Zenon DEF IInv, WalkInv, BatchInv, SkippedOnlyWithCause
<1> QED
  BY <1>1, <1>2, Zenon DEF IInv

LEMMA ThrottleStep ==
  ASSUME IInv, Tick \/ Check \/ GetChat \/ \E c \in Caller : Look(c)
  PROVE  IInv'
<1> USE DEF IInv
<1> "panel" \in Caller
  BY Zenon DEF Caller
<1>0. UNCHANGED <<newest, live, active, cursor, captured, pc, before, pages, batch,
                  first, deletes, glitches, failures, cut, unread>>
  BY Zenon DEF Tick, Check, GetChat, Look, channel, rows, walk, counters
<1>out. pc # "walk" => step'["cycle"] = "out"
  <2> "cycle" \in Caller /\ "cycle" # "panel"
    BY DEF Caller
  <2> SUFFICES ASSUME pc # "walk", step["cycle"] = "out"
               PROVE  step'["cycle"] = "out"
    BY Zenon DEF WalkInv
  <2>1. CASE Tick
    BY <2>1, Zenon DEF Tick
  <2>2. CASE Check
    BY <2>2, Zenon DEF Check, TypeOK
  <2>3. CASE GetChat
    BY <2>3, Zenon DEF GetChat, Request, TypeOK
  <2>4. ASSUME NEW c \in Caller, Look(c) PROVE step'["cycle"] = "out"
    <3>1. c # "cycle"
      <4>1. step[c] = "look"
        BY <2>4, Zenon DEF Look
      <4> QED
        BY <4>1
    <3> QED
      BY <2>4, <3>1, Zenon DEF Look, TypeOK
  <2> QED
    BY <2>1, <2>2, <2>3, <2>4
<1>1. CASE Tick
  BY <1>0, <1>out, <1>1, TickThrottle, SameWalk, Zenon DEF Tick, counters, TypeOK
<1>2. CASE Check
  <2>1. checks' \in 0..MaxChecks
    <3>1. checks \in 0..MaxChecks /\ checks < MaxChecks /\ checks' = checks + 1
      BY <1>2, Zenon DEF Check, TypeOK
    <3> QED
      BY <3>1, SMT
  <2>2. step' \in [Caller -> {"out", "look", "sleep"}]
    BY <1>2, Zenon DEF Check, TypeOK
  <2>3. ThrottleInv'
    <3>1. \A d \in Caller : step'[d] = "sleep" => step[d] = "sleep"
      BY <1>2, Zenon DEF Check, TypeOK
    <3> QED
      BY <1>2, <3>1, Zenon DEF Check, ThrottleInv
  <2> QED
    BY <1>0, <1>out, <1>2, <2>1, <2>2, <2>3, SameWalk, Zenon DEF Check, TypeOK
<1>3. CASE GetChat
  BY <1>0, <1>out, <1>3, RequestType, RequestThrottle, SameWalk, Zenon
     DEF GetChat, counters, TypeOK
<1>4. ASSUME NEW c \in Caller, Look(c) PROVE IInv'
  BY <1>0, <1>out, <1>4, LookThrottle, SameWalk, Zenon DEF Look, counters, TypeOK
<1> QED
  BY <1>1, <1>2, <1>3, <1>4

LEMMA ChannelStep ==
  ASSUME IInv, Publish \/ \E i \in PostId : Delete(i) PROVE IInv'
<1> USE DEF IInv
<1>1. UNCHANGED <<active, cursor, captured, pc, before, pages, batch, first, step, wait,
                  age, own, glitches, failures, checks, cut, unread>>
  BY Zenon DEF Publish, Delete, rows, walk, throttle, counters
<1>2. ThrottleInv'
  BY <1>1, Zenon DEF ThrottleInv
<1>3. newest \in 0..MaxId /\ cursor \in 0..MaxId /\ first \in 0..MaxId
  BY Zenon DEF TypeOK
<1>4. CASE Publish
  <2>1. newest' = newest + 1 /\ live' = live \cup {newest + 1} /\ newest < MaxId
        /\ deletes' = deletes
    BY <1>4, Zenon DEF Publish, counters
  <2>2. newest' \in 0..MaxId /\ live' \subseteq 1..newest'
    <3>1. newest' \in 0..MaxId /\ 1..newest \subseteq 1..newest' /\ newest + 1 \in 1..newest'
      BY <1>3, <2>1, SMT
    <3> QED
      BY <2>1, <3>1, Zenon DEF TypeOK
  <2>3. TypeOK'
    BY <1>1, <2>1, <2>2, Zenon DEF TypeOK
  <2>4. ~(newest + 1 <= cursor) /\ ~(newest + 1 <= first)
        /\ cursor <= newest' /\ first <= newest'
    <3>1. cursor <= newest /\ first <= newest
      BY Zenon DEF WalkInv
    <3> QED
      BY <1>3, <2>1, <3>1, SMT
  <2>5. SkippedOnlyWithCause'
    BY <1>1, <2>1, <2>4, Zenon DEF WalkInv, SkippedOnlyWithCause
  <2>6. BatchInv => BatchInv'
    BY <1>1, <2>1, <2>4, Zenon DEF BatchInv
  <2>7. WalkInv'
    BY <1>1, <2>4, <2>5, <2>6, Zenon DEF WalkInv
  <2> QED
    BY <1>2, <2>3, <2>7
<1>5. ASSUME NEW i \in PostId, Delete(i) PROVE IInv'
  <2>1. newest' = newest /\ live' \subseteq live
    BY <1>5, Zenon DEF Delete
  <2>2. deletes' \in 0..MaxDeletes
    <3>1. deletes \in 0..MaxDeletes /\ deletes < MaxDeletes /\ deletes' = deletes + 1
      BY <1>5, Zenon DEF Delete, TypeOK
    <3> QED
      BY <3>1, SMT
  <2>3. TypeOK'
    BY <1>1, <2>1, <2>2, Zenon DEF TypeOK
  <2>4. WalkInv'
    BY <1>1, <2>1, Zenon DEF WalkInv, SkippedOnlyWithCause, BatchInv
  <2> QED
    BY <1>2, <2>3, <2>4
<1> QED
  BY <1>4, <1>5

LEMMA StartStep ==
  ASSUME IInv, StartWalk PROVE IInv'
<1> USE DEF IInv
<1>0. "cycle" \in Caller
  BY Zenon DEF Caller
<1>1. /\ UNCHANGED <<newest, live, active, cursor, captured, wait, age, own, deletes,
                     glitches, failures, checks, cut, unread>>
      /\ pc' = "walk" /\ before' = 0 /\ pages' = 0 /\ batch' = {} /\ first' = 0
      /\ step' = [step EXCEPT !["cycle"] = "look"]
  BY Zenon DEF StartWalk, channel, rows, counters
<1>2. 0 \in 0..MaxId /\ 0 \in 0..MaxPages /\ 0 < MaxPages
  BY SMT
<1>3. TypeOK'
  BY <1>1, <1>2, Zenon DEF TypeOK
<1>4. ThrottleInv'
  <2>1. \A d \in Caller : step'[d] = "sleep" => step[d] = "sleep"
    BY <1>0, <1>1, Zenon DEF TypeOK
  <2> QED
    BY <1>1, <2>1, Zenon DEF ThrottleInv
<1>5. \A i \in live : ~(i <= 0)
  <2>1. \A i \in 1..newest : ~(i <= 0)
    BY SMT DEF TypeOK
  <2> QED
    BY <2>1, Zenon DEF TypeOK
<1>6. 0 <= newest
  BY SMT DEF TypeOK
<1>7. WalkInv'
  BY <1>1, <1>2, <1>5, <1>6, Zenon DEF WalkInv, SkippedOnlyWithCause, BatchInv
<1> QED
  BY <1>3, <1>4, <1>7

LEMMA EndStep ==
  ASSUME IInv, Deliver \/ ReadFails PROVE IInv'
<1> USE DEF IInv
<1>0. "cycle" \in Caller
  BY Zenon DEF Caller
<1>1. CASE Deliver
  <2>1. /\ UNCHANGED <<newest, live, active, before, pages, batch, first, step, wait, age,
                       own, deletes, glitches, failures, checks, cut, unread>>
        /\ pc = "done" /\ pc' = "idle" /\ captured' = captured \cup batch
        /\ cursor' = IF batch = {} THEN cursor ELSE first
    BY <1>1, Zenon DEF Deliver, LastOfBatch, channel, throttle, counters
  <2>2. TypeOK'
    BY <2>1, Zenon DEF TypeOK
  <2>3. ThrottleInv'
    BY <2>1, Zenon DEF ThrottleInv
  <2>4. SkippedOnlyWithCause'
    <3>1. CASE batch = {}
      BY <2>1, <3>1, Zenon DEF WalkInv, SkippedOnlyWithCause
    <3>2. CASE batch # {}
      <4> SUFFICES ASSUME NEW i \in live, i <= first
                   PROVE  i \in captured' \cup cut \cup unread
        BY <2>1, <3>2, Zenon DEF SkippedOnlyWithCause
      <4>1. i \in 1..newest /\ newest \in 0..MaxId /\ cursor \in 0..MaxId
        BY Zenon DEF TypeOK
      <4>2. i <= cursor \/ cursor < i
        BY <4>1, SMT
      <4> QED
        BY <2>1, <4>2, Zenon DEF WalkInv, BatchInv, SkippedOnlyWithCause
    <3> QED
      BY <3>1, <3>2
  <2>5. WalkInv'
    BY <2>1, <2>4, Zenon DEF WalkInv
  <2> QED
    BY <2>2, <2>3, <2>5
<1>2. CASE ReadFails
  <2>1. /\ UNCHANGED <<newest, live, cursor, captured, before, pages, batch, first,
                       deletes, glitches, checks, cut, unread>>
        /\ pc' = "idle" /\ active' = FALSE /\ failures < MaxFailures
        /\ failures' = failures + 1
    BY <1>2, Zenon DEF ReadFails, channel
  <2>2. Request("cycle", "out")
    BY <1>2, Zenon DEF ReadFails
  <2>3. failures' \in 0..MaxFailures
    BY <2>1, SMT DEF TypeOK
  <2>4. TypeOK'
    BY <1>0, <2>1, <2>2, <2>3, RequestType, Zenon DEF TypeOK
  <2>5. ThrottleInv'
    BY <1>0, <2>2, RequestThrottle, Zenon
  <2>6. WalkInv'
    <3>1. step'["cycle"] = "out"
      BY <1>0, <2>2, Zenon DEF Request, TypeOK
    <3> QED
      BY <2>1, <3>1, Zenon DEF WalkInv, SkippedOnlyWithCause
  <2> QED
    BY <2>4, <2>5, <2>6
<1> QED
  BY <1>1, <1>2

----------------------------------------------------------------------------

\* The walk in progress, the cursor and the throttle agree in every behaviour,
\* for any page size and page cap.
THEOREM PreviewInvariant == Spec => [](TypeOK /\ ThrottleInv /\ WalkInv)
<1>1. Init => IInv
  <2> SUFFICES ASSUME Init PROVE IInv
    OBVIOUS
  <2>1. TypeOK
    BY SMT DEF Init, TypeOK, PostId
  <2>2. 0 <= MinInterval /\ MinInterval <= MinInterval /\ 0 <= 0
    BY SMT
  <2>3. ThrottleInv
    BY <2>2, Zenon DEF Init, ThrottleInv
  <2>4. WalkInv
    <3>1. step["cycle"] = "out" /\ "idle" # "walk"
      BY DEF Init, Caller
    <3> QED
      BY <2>2, <3>1, Zenon DEF Init, WalkInv, SkippedOnlyWithCause
  <2> QED
    BY <2>1, <2>3, <2>4 DEF IInv
<1>2. IInv /\ [Next]_vars => IInv'
  <2> SUFFICES ASSUME IInv, [Next]_vars PROVE IInv'
    OBVIOUS
  <2>1. CASE Publish \/ \E i \in PostId : Delete(i)
    BY <2>1, ChannelStep
  <2>2. CASE Tick \/ Check \/ GetChat \/ \E c \in Caller : Look(c)
    BY <2>2, ThrottleStep
  <2>3. CASE StartWalk \/ Deliver \/ ReadFails
    BY <2>3, StartStep, EndStep
  <2>4. ASSUME NEW shown \in Shown(Page(before)), NEW link \in Links(before),
               ReadPage(shown, link)
        PROVE  IInv'
    <3>1. ThrottleInv'
      <4>1. PICK next \in {"out", "look"} : Request("cycle", next)
        BY <2>4, Zenon DEF ReadPage
      <4> QED
        BY <4>1, RequestThrottle, Zenon DEF IInv, Caller
    <3> QED
      BY <2>4, <3>1, ReadPageType, ReadPageWalk, Zenon DEF IInv
  <2>5. CASE UNCHANGED vars
    <3>1. UNCHANGED <<newest, live, active, cursor, captured, pc, before, pages, batch,
                      first, step, wait, age, own, deletes, glitches, failures, checks,
                      cut, unread>>
      BY <2>5, Zenon DEF vars, channel, rows, walk, throttle, counters
    <3>2. ThrottleInv'
      BY <3>1, Zenon DEF IInv, ThrottleInv
    <3> QED
      BY <3>1, <3>2, SameWalk, Zenon DEF IInv, TypeOK, WalkInv
  <2> QED
    BY <2>1, <2>2, <2>3, <2>4, <2>5, Zenon DEF Next, WalkStep
<1> QED
  BY <1>1, <1>2, PTL DEF Spec, IInv

\* Whatever is published or deleted during a walk, the cursor passes a post
\* that can still be read only at the page cap or at an unreadable page.
THEOREM PostsAreSkippedWithCause == Spec => []SkippedOnlyWithCause
<1>1. WalkInv => SkippedOnlyWithCause
  BY DEF WalkInv
<1> QED
  BY <1>1, PreviewInvariant, PTL

\* A batch moves the cursor forward, from one end of the batch to the other.
THEOREM BatchesMoveCursor == Spec => BatchMovesCursor
<1> DEFINE Moves == /\ cursor <= cursor'
                    /\ \A i \in captured' \ captured : cursor < i /\ i <= cursor'
<1>1. ASSUME IInv, Next PROVE Moves
  <2>1. cursor <= cursor
    BY <1>1, SMT DEF IInv, TypeOK
  <2>2. CASE ~Deliver
    <3>1. UNCHANGED <<cursor, captured>>
      BY <1>1, <2>2, Zenon
         DEF Next, WalkStep, Publish, Delete, Tick, Check, GetChat, Look, StartWalk,
             ReadFails, ReadPage, rows
    <3> QED
      BY <2>1, <3>1, Zenon
  <2>3. CASE Deliver
    <3>1. pc = "done" /\ captured' = captured \cup batch
          /\ cursor' = IF batch = {} THEN cursor ELSE first
      BY <2>3, Zenon DEF Deliver, LastOfBatch
    <3>2. batch # {} => /\ first \in batch /\ cursor < first
                        /\ \A i \in batch : cursor < i /\ i <= first
      BY <1>1, <3>1, Zenon DEF IInv, WalkInv, BatchInv
    <3>3. cursor < first => cursor <= first
      BY <1>1, SMT DEF IInv, TypeOK
    <3> QED
      BY <2>1, <3>1, <3>2, <3>3, Zenon
  <2> QED
    BY <2>2, <2>3
<1>2. IInv /\ [Next]_vars => [Moves]_vars
  BY <1>1
<1> QED
  BY <1>2, PreviewInvariant, PTL DEF Spec, IInv, BatchMovesCursor

\* Two requests of one caller are an interval apart, although callers can
\* overtake each other between the look and the request.
THEOREM CallersWait == Spec => CallersKeepInterval
<1> DEFINE Keeps == \A c \in Caller : Fetches(c) => own[c] >= MinInterval
<1>1. ASSUME IInv, Next PROVE Keeps
  <2> SUFFICES ASSUME NEW c \in Caller, step[c] = "sleep", step'[c] # "sleep"
               PROVE  own[c] >= MinInterval
    BY Zenon DEF Fetches
  <2>1. PICK next \in {"out", "look"}, d \in Caller : Request(d, next)
    <3>0. "sleep" # "out" /\ "sleep" # "look" /\ "walk" # "idle"
      OBVIOUS
    <3>1. ~(\E d \in Caller : Look(d)) /\ ~Check /\ ~StartWalk /\ step' # step
      <4>1. ASSUME NEW d \in Caller, Look(d) PROVE FALSE
        <5>1. d # c
          BY <3>0, <4>1, Zenon DEF Look
        <5> QED
          BY <1>1, <4>1, <5>1, Zenon DEF Look, IInv, TypeOK
      <4>2. ASSUME Check PROVE FALSE
        <5>1. c # "panel"
          BY <3>0, <4>2, Zenon DEF Check
        <5> QED
          BY <1>1, <4>2, <5>1, Zenon DEF Check, IInv, TypeOK
      <4>3. ASSUME StartWalk PROVE FALSE
        <5>1. c # "cycle"
          BY <1>1, <3>0, <4>3, Zenon DEF StartWalk, IInv, WalkInv
        <5> QED
          BY <1>1, <4>3, <5>1, Zenon DEF StartWalk, IInv, TypeOK
      <4> QED
        BY <4>1, <4>2, <4>3
    <3>2. GetChat \/ ReadFails
          \/ \E shown \in Shown(Page(before)), link \in Links(before) :
               ReadPage(shown, link)
      BY <1>1, <3>1, Zenon DEF Next, WalkStep, Publish, Delete, Tick, Deliver, throttle
    <3> QED
      BY <3>2, Zenon DEF GetChat, ReadFails, ReadPage, Caller
  <2>2. d = c
    BY <1>1, <2>1, Zenon DEF Request, IInv, TypeOK
  <2> QED
    BY <1>1, <2>1, <2>2, RequestThrottle, Zenon DEF IInv
<1>2. IInv /\ [Next]_vars => [Keeps]_vars
  BY <1>1
<1> QED
  BY <1>2, PreviewInvariant, PTL DEF Spec, IInv, CallersKeepInterval

----------------------------------------------------------------------------
(* The feed of the channel. *)

Missed == (cut \cup unread \cup ((1..newest) \ live)) \ captured

\* What is left behind was published, and is not stored.
LEMMA LeftBehind ==
  ASSUME TypeOK, NEW S \in SUBSET (1..newest),
         UNCHANGED <<newest, captured, cursor>>, Missed' = Missed \cup (S \ captured)
  PROVE  Feed!Next
<1>1. S \ captured \in SUBSET ((1..newest) \ captured)
  OBVIOUS
<1>2. Feed!GiveUp(S \ captured)
  BY Zenon DEF Feed!GiveUp, Missed
<1> QED
  BY <1>1, <1>2, Zenon DEF Feed!Next

LEMMA DeliverFeeds ==
  ASSUME IInv, IInv', Deliver
  PROVE  [Feed!Next]_(Feed!vars)
<1>1. /\ UNCHANGED <<newest, live, cut, unread>>
      /\ pc = "done" /\ captured' = captured \cup batch
      /\ cursor' = IF batch = {} THEN cursor ELSE first
  BY Zenon DEF Deliver, LastOfBatch, channel
<1>2. CASE batch = {}
  <2>1. captured' = captured /\ cursor' = cursor
    BY <1>1, <1>2
  <2> QED
    BY <1>1, <2>1, Zenon DEF Feed!vars
<1>3. CASE batch # {}
  <2>1. /\ cursor' = first /\ first \in batch
        /\ \A i \in batch : cursor < i /\ i <= first
        /\ cursor \in 0..MaxId /\ first \in 0..MaxId /\ newest \in 0..MaxId
        /\ batch \subseteq PostId /\ first <= newest
    BY <1>1, <1>3, Zenon DEF IInv, WalkInv, BatchInv, TypeOK
  <2>2. first \in cursor..newest
    BY <2>1, SMT
  <2>3. batch \in SUBSET ((cursor + 1)..newest)
    BY <2>1, SMT DEF PostId
  <2>4. Missed' = Missed \ batch
    BY <1>1, Zenon DEF Missed
  <2>5. ASSUME NEW i \in 1..first PROVE i \in captured' \cup Missed'
    <3>1. i \in 1..newest
      BY <2>1, SMT
    <3>2. i <= cursor'
      BY <2>1, SMT
    <3>3. i \in live' => i \in captured' \cup cut' \cup unread'
      BY <3>2, Zenon DEF IInv, WalkInv, SkippedOnlyWithCause
    <3> QED
      BY <1>1, <3>1, <3>3, Zenon DEF Missed
  <2>6. Feed!Capture(batch, first)
    <3>1. 1..first \subseteq captured' \cup Missed'
      BY <2>5, Zenon
    <3> QED
      BY <1>1, <2>1, <2>4, <3>1, Zenon DEF Feed!Capture, Missed
  <2> QED
    BY <2>2, <2>3, <2>6, Zenon DEF Feed!Next
<1> QED
  BY <1>2, <1>3

LEMMA FeedStep ==
  ASSUME IInv, IInv', [Next]_vars
  PROVE  [Feed!Next]_(Feed!vars)
<1>0. newest \in 0..MaxId /\ live \subseteq 1..newest
  BY Zenon DEF IInv, TypeOK
<1>1. CASE Publish
  <2>1. newest' = newest + 1 /\ live' = live \cup {newest + 1}
        /\ UNCHANGED <<cursor, captured, cut, unread>>
    BY <1>1, Zenon DEF Publish, rows
  <2>2. (1..newest') \ live' = (1..newest) \ live
    BY <1>0, <2>1, SMT
  <2>3. Missed' = Missed
    BY <2>1, <2>2, Zenon DEF Missed
  <2>4. Feed!Publish
    BY <2>1, <2>3, Zenon DEF Feed!Publish, Missed
  <2> QED
    BY <2>4, Zenon DEF Feed!Next
<1>2. ASSUME NEW i \in PostId, Delete(i) PROVE [Feed!Next]_(Feed!vars)
  <2>1. /\ i \in live /\ live' = live \ {i}
        /\ UNCHANGED <<newest, cursor, captured, cut, unread>>
    BY <1>2, Zenon DEF Delete, rows
  <2>2. {i} \in SUBSET (1..newest)
    BY <1>0, <2>1, Zenon
  <2>3. Missed' = Missed \cup ({i} \ captured)
    BY <2>1, <2>2, Zenon DEF Missed
  <2> QED
    BY <2>1, <2>2, <2>3, LeftBehind, Zenon DEF IInv
<1>3. CASE Deliver
  BY <1>3, DeliverFeeds
<1>4. ASSUME NEW shown \in Shown(Page(before)), NEW link \in Links(before),
             ReadPage(shown, link)
      PROVE  [Feed!Next]_(Feed!vars)
  <2> DEFINE S == (cut' \cup unread') \ (cut \cup unread)
  <2>1. UNCHANGED <<newest, live, cursor, captured>>
        /\ cut \subseteq cut' /\ unread \subseteq unread'
    BY <1>4, Zenon DEF ReadPage, channel, rows
  <2>2. S \in SUBSET live
    <3>1. before \in 0..MaxId
      BY Zenon DEF IInv, TypeOK
    <3>2. Page(before) \subseteq live /\ Left(before) \subseteq live
      BY <3>1, PageSpec, Zenon DEF IInv, Left, New
    <3> QED
      BY <1>4, <3>2, Zenon DEF ReadPage, New
  <2>3. S \in SUBSET (1..newest)
    BY <1>0, <2>2, Zenon
  <2>4. Missed' = Missed \cup (S \ captured)
    BY <2>1, Zenon DEF Missed
  <2> QED
    BY <2>1, <2>3, <2>4, LeftBehind, Zenon DEF IInv
<1>5. CASE Tick \/ Check \/ GetChat \/ (\E c \in Caller : Look(c)) \/ StartWalk
           \/ ReadFails \/ UNCHANGED vars
  <2>1. UNCHANGED <<newest, live, cursor, captured, cut, unread>>
    BY <1>5, Zenon
       DEF Tick, Check, GetChat, Look, StartWalk, ReadFails, vars, channel, rows
  <2> QED
    BY <2>1, Zenon DEF Feed!vars
<1> QED
  BY <1>1, <1>2, <1>3, <1>4, <1>5, Zenon DEF Next, WalkStep

\* Walking the pages of a channel backwards, while posts are published and
\* deleted, implements its feed.
THEOREM WalkImplementsFeed == Spec => ImplementsFeed
<1>1. Init => Feed!Init
  <2> SUFFICES ASSUME Init PROVE Feed!Init
    OBVIOUS
  <2>1. 1..0 = {}
    BY SMT
  <2> QED
    BY <2>1, Zenon DEF Init, Feed!Init
<1>2. IInv /\ IInv' /\ [Next]_vars => [Feed!Next]_(Feed!vars)
  BY FeedStep
<1> QED
  BY <1>1, <1>2, PreviewInvariant, PTL DEF Spec, IInv, ImplementsFeed, Feed!Spec

============================================================================
