---------------------------- MODULE RenderProofs ----------------------------
(***************************************************************************)
(* Proofs about Render: the messages hold the lines in order, every post   *)
(* is below the heading of its category, and every message fits.           *)
(***************************************************************************)
EXTENDS Render, TLAPS, SequenceTheorems, WellFoundedInduction

(***************************************************************************)
(* FlattenSeq, one sequence at a time.                                     *)
(***************************************************************************)

\* Induction over a set of numbers.
LEMMA EveryNat ==
  ASSUME NEW T \in SUBSET Nat,
         \A n \in Nat : (\A m \in 0..n - 1 : m \in T) => n \in T
  PROVE  \A n \in Nat : n \in T
<1> SUFFICES ASSUME Nat \ T # {} PROVE FALSE
  OBVIOUS
<1>1. PICK n \in Nat \ T : \A m \in Nat \ T : <<m, n>> \notin OpToRel(<, Nat)
  BY WFMin, NatLessThanWellFounded, Zenon
<1>2. PICK m \in 0..n - 1 : m \notin T
  BY <1>1
<1>3. <<m, n>> \in {ss \in Nat \X Nat : ss[1] < ss[2]}
  <2> DEFINE mn == <<m, n>>
  <2>1. n \in Nat /\ m \in Nat /\ m < n
    <3>1. n \in Nat
      OBVIOUS
    <3> QED
      BY <3>1
  <2>2. mn \in Nat \X Nat /\ mn[1] < mn[2]
    BY <2>1
  <2> HIDE DEF mn
  <2>3. mn \in {ss \in Nat \X Nat : ss[1] < ss[2]}
    BY <2>2
  <2> QED
    BY <2>3 DEF mn
<1> QED
  BY <1>1, <1>2, <1>3, Zenon DEF OpToRel

\* The partial results of FlattenSeq.
Glue(s, t) == s \o t

Joins(f, ss, n) ==
  f = [i \in 1..n |-> IF i = 1 THEN ss[i] ELSE Glue(f[i - 1], ss[i])]

LEMMA JoinsExist ==
  ASSUME NEW ss, NEW n \in Nat
  PROVE  \E f : Joins(f, ss, n)
<1> DEFINE T == {m \in Nat : \E f : Joins(f, ss, m)}
<1>1. ASSUME NEW m \in Nat, \A l \in 0..m - 1 : l \in T PROVE m \in T
  <2> SUFFICES \E f : Joins(f, ss, m)
    OBVIOUS
  <2>1. CASE m = 0
    <3> DEFINE f == [i \in 1..m |-> IF i = 1 THEN ss[i] ELSE ss[i]]
    <3>1. Joins(f, ss, m)
      BY <2>1 DEF Joins
    <3> QED
      BY <3>1, Zenon
  <2>2. CASE m # 0
    <3>1. m - 1 \in 0..m - 1
      BY <2>2
    <3>2. PICK f : Joins(f, ss, m - 1)
      BY <1>1, <3>1
    <3> DEFINE g == [i \in 1..m |-> IF i = 1 THEN ss[i] ELSE Glue(f[i - 1], ss[i])]
    <3>3. ASSUME NEW i \in 1..m - 1 PROVE g[i] = f[i]
      BY <3>2 DEF Joins
    <3>4. \A i \in 1..m : i # 1 => i - 1 \in 1..m - 1
      BY <3>1
    <3>5. Joins(g, ss, m)
      BY <3>3, <3>4 DEF Joins
    <3> QED
      BY <3>5, Zenon
  <2> QED
    BY <2>1, <2>2
<1>2. \A m \in Nat : m \in T
  <2>1. T \in SUBSET Nat
    OBVIOUS
  <2> HIDE DEF T
  <2> QED
    BY <1>1, <2>1, EveryNat, Zenon
<1> QED
  BY <1>2

LEMMA FlattenIsJoin ==
  ASSUME NEW ss, Len(ss) \in Nat, Len(ss) # 0
  PROVE  \E f : Joins(f, ss, Len(ss)) /\ FlattenSeq(ss) = f[Len(ss)]
<1> DEFINE f == CHOOSE g : Joins(g, ss, Len(ss))
<1>1. Joins(f, ss, Len(ss))
  BY JoinsExist
<1>2. FlattenSeq(ss) = f[Len(ss)]
  BY DEF FlattenSeq, Joins, Glue
<1> QED
  BY <1>1, <1>2

LEMMA JoinSteps ==
  ASSUME NEW ss, NEW n \in Nat, NEW f, Joins(f, ss, n)
  PROVE  /\ n > 0 => f[1] = ss[1]
         /\ \A i \in 2..n : f[i] = Glue(f[i - 1], ss[i])
<1>1. \A i \in 1..n : f[i] = IF i = 1 THEN ss[i] ELSE Glue(f[i - 1], ss[i])
  BY DEF Joins
<1> QED
  BY <1>1

\* The same sequences have the same partial results, and these are sequences.
LEMMA JoinsAgree ==
  ASSUME NEW ss, NEW tt, NEW n \in Nat, NEW S,
         NEW f, Joins(f, ss, n), NEW g, NEW m \in n..(n + 1), Joins(g, tt, m),
         \A i \in 1..n : ss[i] = tt[i] /\ ss[i] \in Seq(S)
  PROVE  \A i \in 1..n : f[i] = g[i] /\ f[i] \in Seq(S)
<1> DEFINE T == {i \in Nat : i \in 1..n => f[i] = g[i] /\ f[i] \in Seq(S)}
<1>1. ASSUME NEW i \in Nat, \A l \in 0..i - 1 : l \in T, i \in 1..n
      PROVE  f[i] = g[i] /\ f[i] \in Seq(S)
  <2>1. ss[i] = tt[i] /\ ss[i] \in Seq(S) /\ n > 0 /\ m > 0
    BY <1>1
  <2>2. CASE i = 1
    <3>1. f[1] = ss[1] /\ g[1] = tt[1]
      BY <2>1, JoinSteps
    <3> QED
      BY <2>1, <2>2, <3>1
  <2>3. CASE i # 1
    <3>1. i - 1 \in 0..i - 1 /\ i - 1 \in 1..n /\ i \in 2..n /\ i \in 2..m
      BY <1>1, <2>3
    <3>2. f[i - 1] = g[i - 1] /\ f[i - 1] \in Seq(S)
      BY <1>1, <3>1
    <3>3. f[i] = Glue(f[i - 1], ss[i]) /\ g[i] = Glue(g[i - 1], tt[i])
      BY <3>1, JoinSteps
    <3>4. Glue(f[i - 1], ss[i]) \in Seq(S)
      BY <2>1, <3>2, ConcatProperties DEF Glue
    <3> QED
      BY <2>1, <3>2, <3>3, <3>4
  <2> QED
    BY <2>2, <2>3
<1>2. \A i \in Nat : i \in T
  <2>1. T \in SUBSET Nat
    OBVIOUS
  <2>2. \A i \in Nat : (\A l \in 0..i - 1 : l \in T) => i \in T
    BY <1>1
  <2> HIDE DEF T
  <2> QED
    BY <2>1, <2>2, EveryNat, Zenon
<1> QED
  BY <1>2

LEMMA JoinsGrow ==
  ASSUME NEW S, NEW ss, NEW tt, NEW n, NEW f, NEW g,
         n \in Nat, n # 0, Joins(f, ss, n), Joins(g, tt, n + 1),
         \A i \in 1..n : ss[i] = tt[i] /\ ss[i] \in Seq(S)
  PROVE  g[n + 1] = Glue(f[n], tt[n + 1]) /\ f[n] \in Seq(S)
<1>1. \A i \in 1..n : f[i] = g[i] /\ f[i] \in Seq(S)
  <2>1. n + 1 \in n..(n + 1)
    OBVIOUS
  <2> QED
    BY <2>1, JoinsAgree
<1>2. \A i \in 2..(n + 1) : g[i] = Glue(g[i - 1], tt[i])
  <2>1. n + 1 \in Nat
    OBVIOUS
  <2> QED
    BY <2>1, JoinSteps
<1>3. n + 1 \in 2..(n + 1) /\ n \in 1..n /\ (n + 1) - 1 = n
  OBVIOUS
<1> QED
  BY <1>1, <1>2, <1>3

\* FlattenSeq of one sequence more.
LEMMA FlattenAppend ==
  ASSUME NEW S, NEW ss \in Seq(Seq(S)), NEW s \in Seq(S)
  PROVE  /\ FlattenSeq(Append(ss, s)) = FlattenSeq(ss) \o s
         /\ FlattenSeq(ss) \in Seq(S)
<1>0. SUFFICES ASSUME NEW tt, tt = Append(ss, s), NEW n \in Nat, n = Len(ss)
               PROVE  FlattenSeq(tt) = FlattenSeq(ss) \o s /\ FlattenSeq(ss) \in Seq(S)
  BY LenProperties
<1>1. /\ n \in Nat /\ tt \in Seq(Seq(S)) /\ Len(tt) = n + 1 /\ tt[n + 1] = s
      /\ \A i \in 1..n : ss[i] = tt[i] /\ ss[i] \in Seq(S)
  BY <1>0, AppendProperties, LenProperties
<1>2. PICK g : Joins(g, tt, n + 1) /\ FlattenSeq(tt) = g[n + 1]
  <2>1. Len(tt) \in Nat /\ Len(tt) # 0
    BY <1>1
  <2> QED
    BY <1>1, <2>1, FlattenIsJoin, Zenon
<1>3. CASE n = 0
  <2>1. FlattenSeq(ss) = << >> /\ ss = << >>
    <3>1. ss = << >>
      BY <1>0, <1>3, EmptySeq
    <3> QED
      BY <1>3, <3>1 DEF FlattenSeq
  <2>2. g[1] = tt[1]
    <3>1. n + 1 \in Nat /\ n + 1 > 0
      BY <1>1
    <3> QED
      BY <1>2, <3>1, JoinSteps
  <2> QED
    BY <1>1, <1>2, <1>3, <2>1, <2>2
<1>4. CASE n # 0
  <2>1. PICK f : Joins(f, ss, n) /\ FlattenSeq(ss) = f[n]
    BY <1>0, <1>1, <1>4, FlattenIsJoin
  <2>2. g[n + 1] = Glue(f[n], tt[n + 1]) /\ f[n] \in Seq(S)
    <3>1. n \in Nat /\ n # 0 /\ Joins(f, ss, n) /\ Joins(g, tt, n + 1)
      BY <1>1, <1>2, <1>4, <2>1
    <3>2. \A i \in 1..n : ss[i] = tt[i] /\ ss[i] \in Seq(S)
      BY <1>1
    <3> QED
      BY <3>1, <3>2, JoinsGrow, Zenon
  <2> QED
    BY <1>1, <1>2, <2>1, <2>2 DEF Glue
<1> QED
  BY <1>3, <1>4

\* Concatenation, by the position in one part or the other.
LEMMA GlueType ==
  ASSUME NEW S, NEW s \in Seq(S), NEW t \in Seq(S)
  PROVE  Glue(s, t) \in Seq(S)
  BY ConcatProperties DEF Glue

LEMMA GlueFacts ==
  ASSUME NEW S, NEW s \in Seq(S), NEW t \in Seq(S)
  PROVE  /\ Len(s) \in Nat /\ Len(t) \in Nat
         /\ Len(Glue(s, t)) = Len(s) + Len(t)
         /\ \A i \in 1..Len(s) : Glue(s, t)[i] = s[i]
         /\ \A i \in 1..Len(t) : Glue(s, t)[Len(s) + i] = t[i]
<1>1. Len(s) \in Nat /\ Len(t) \in Nat
  BY LenProperties
<1>2. Len(Glue(s, t)) = Len(s) + Len(t)
  BY ConcatProperties DEF Glue
<1>3. \A i \in 1..Len(s) + Len(t) :
        Glue(s, t)[i] = IF i <= Len(s) THEN s[i] ELSE t[i - Len(s)]
  BY ConcatProperties, Zenon DEF Glue
<1>4. \A i \in 1..Len(s) : i \in 1..Len(s) + Len(t) /\ i <= Len(s)
  BY <1>1
<1>5. \A i \in 1..Len(t) :
        /\ Len(s) + i \in 1..Len(s) + Len(t) /\ ~(Len(s) + i <= Len(s))
        /\ (Len(s) + i) - Len(s) = i
  BY <1>1
<1> QED
  BY <1>1, <1>2, <1>3, <1>4, <1>5, Zenon

LEMMA GlueThree ==
  ASSUME NEW S, NEW h \in Seq(S), NEW s \in Seq(S), NEW t \in Seq(S)
  PROVE  Len(h) = 1 =>
           /\ Len(Glue(Glue(h, s), t)) = 1 + Len(s) + Len(t)
           /\ Glue(Glue(h, s), t)[1] = h[1]
           /\ \A j \in 1..Len(s) : Glue(Glue(h, s), t)[j + 1] = s[j]
           /\ \A j \in 1..Len(t) : Glue(Glue(h, s), t)[Len(s) + 1 + j] = t[j]
<1> DEFINE w == Glue(Glue(h, s), t)
<1>1. Len(h) \in Nat /\ Len(s) \in Nat /\ Len(t) \in Nat
  BY LenProperties
<1>2. Glue(h, s) \in Seq(S) /\ w \in Seq(S)
  BY GlueType, Zenon
<1>3. /\ Len(Glue(h, s)) = Len(h) + Len(s)
      /\ \A j \in 1..Len(h) : Glue(h, s)[j] = h[j]
      /\ \A j \in 1..Len(s) : Glue(h, s)[Len(h) + j] = s[j]
  BY GlueFacts, SMT
<1>9. /\ Len(w) = Len(Glue(h, s)) + Len(t)
      /\ \A j \in 1..Len(Glue(h, s)) : w[j] = Glue(h, s)[j]
      /\ \A j \in 1..Len(t) : w[Len(Glue(h, s)) + j] = t[j]
  BY <1>2, GlueFacts, SMTT(60)
<1> HIDE DEF w
<1>4. SUFFICES ASSUME Len(h) = 1
               PROVE  /\ Len(w) = 1 + Len(s) + Len(t)
                      /\ w[1] = h[1]
                      /\ \A j \in 1..Len(s) : w[j + 1] = s[j]
                      /\ \A j \in 1..Len(t) : w[Len(s) + 1 + j] = t[j]
  BY DEF w
<1>5. /\ Len(Glue(h, s)) = Len(s) + 1
      /\ 1 \in 1..Len(h) /\ 1 \in 1..Len(Glue(h, s))
      /\ \A j \in 1..Len(s) : /\ j + 1 \in 1..Len(Glue(h, s))
                              /\ j + 1 = Len(h) + j
  BY <1>1, <1>3, <1>4
<1>6. w[1] = h[1] /\ \A j \in 1..Len(s) : w[j + 1] = s[j]
  BY <1>3, <1>9, <1>5
<1>7. \A j \in 1..Len(t) : w[Len(s) + 1 + j] = t[j]
  BY <1>9, <1>5, Zenon
<1>8. Len(w) = 1 + Len(s) + Len(t)
  BY <1>1, <1>9, <1>5
<1> QED
  BY <1>6, <1>7, <1>8

(***************************************************************************)
(* Posts and lines.                                                        *)
(***************************************************************************)

LEMMA ItemFacts ==
  ASSUME TypeOK, NEW i \in 1..Len(items)
  PROVE  /\ items[i] \in Item /\ Heading(i) \in Category
         /\ i \in 1..MaxItems /\ SummarySize(i) \in Nat
<1>1. items[i] \in Item /\ i \in 1..MaxItems
  BY SizesAssumption, LenProperties, ElementOfSeq DEF TypeOK
<1>2. Heading(i) \in Category
  BY <1>1, CategoryAssumption DEF Heading, Item
<1>3. items[i].len \in Nat
  BY <1>1, SizesAssumption DEF Item
<1>4. AtMost(items[i].len, MaxSummary) \in Nat
  BY <1>3, SizesAssumption DEF AtMost
<1>5. SummarySize(i) \in Nat
  BY <1>4 DEF SummarySize, Escaped
<1> QED
  BY <1>1, <1>2, <1>5

\* A line is one of three kinds.
LEMMA LineFacts ==
  /\ \A c : HeadingLine(c).kind = "heading" /\ HeadingLine(c).cat = c
  /\ \A i : ItemLine(i).kind = "item" /\ ItemLine(i).item = i
  /\ Blank.kind = "blank"
  /\ \A c \in Category : HeadingLine(c) \in Line
  /\ \A i \in 1..MaxItems : ItemLine(i) \in Line
  /\ Blank \in Line
  BY DEF HeadingLine, ItemLine, Blank, Line

LEMMA LineKinds ==
  ASSUME NEW ln \in Line
  PROVE  ln.kind \in {"heading", "item", "blank"}
  BY DEF Line

\* A line takes its newline, and no more than the limit for one item.
LEMMA PieceBounds ==
  ASSUME TypeOK, LinesInv, NEW p \in 1..Len(lines)
  PROVE  PieceSize(lines[p]) \in 1..SingleLimit + 1
<1>1. lines[p] \in Line
  BY ElementOfSeq DEF TypeOK
<1>2. lines[p].kind = "item" => SummarySize(lines[p].item) \in Nat
  BY ItemFacts DEF LinesInv
<1>3. LineSize(lines[p]) \in Nat
  <2>1. CASE lines[p].kind = "heading"
    BY <2>1, SizesAssumption DEF LineSize
  <2>2. CASE lines[p].kind = "item"
    BY <1>2, <2>2, SizesAssumption DEF LineSize
  <2>3. CASE lines[p].kind = "blank"
    BY <2>3 DEF LineSize
  <2> QED
    BY <1>1, <2>1, <2>2, <2>3, LineKinds
<1>4. \A a \in Nat : AtMost(a, SingleLimit) \in 0..SingleLimit
  BY SizesAssumption DEF AtMost
<1>5. AtMost(LineSize(lines[p]), SingleLimit) \in 0..SingleLimit
  BY <1>3, <1>4
<1> HIDE DEF LineSize
<1> QED
  BY <1>5, SizesAssumption DEF PieceSize

\* The lines of a category: its heading and its items, and a blank line.
Block(c, last) ==
  Glue(Glue(<<HeadingLine(c)>>, ItemLines(c)), IF last THEN << >> ELSE <<Blank>>)

LEMMA BlockFacts ==
  ASSUME TypeOK, NEW c \in Category, NEW last \in BOOLEAN
  PROVE  /\ Block(c, last) \in Seq(Line)
         /\ Len(group[c]) \in Nat /\ Len(Block(c, last)) \in Nat
         /\ Len(Block(c, last)) = Len(group[c]) + IF last THEN 1 ELSE 2
         /\ Block(c, last)[1] = HeadingLine(c)
         /\ \A j \in 1..Len(group[c]) : Block(c, last)[j + 1] = ItemLine(group[c][j])
         /\ ~last => Block(c, last)[Len(group[c]) + 2] = Blank
<1> DEFINE n == Len(group[c])
           h == <<HeadingLine(c)>>
           t == IF last THEN << >> ELSE <<Blank>>
           b == Block(c, last)
<1>1. group[c] \in Seq(1..MaxItems) /\ n \in Nat
  BY LenProperties DEF TypeOK
<1>2. \A j \in 1..n : group[c][j] \in 1..MaxItems
  BY <1>1, ElementOfSeq
<1>3. ItemLines(c) \in Seq(Line) /\ Len(ItemLines(c)) = n
      /\ \A j \in 1..n : ItemLines(c)[j] = ItemLine(group[c][j])
  <2>1. ItemLines(c) \in [1..n -> Line]
    BY <1>2, LineFacts DEF ItemLines
  <2>2. ItemLines(c) \in Seq(Line) /\ Len(ItemLines(c)) = n
    BY <1>1, <2>1, IsASeq, LenProperties
  <2> QED
    BY <2>2 DEF ItemLines
<1>4. /\ t \in Seq(Line) /\ Len(t) = (IF last THEN 0 ELSE 1)
      /\ ~last => t[1] = Blank
  BY LineFacts
<1>5. b = Glue(Glue(h, ItemLines(c)), t)
  BY Zenon DEF Block
<1>6. h \in Seq(Line) /\ Len(h) = 1 /\ h[1] = HeadingLine(c)
  BY LineFacts
<1> HIDE DEF n, h, t, b
<1>7. /\ b \in Seq(Line) /\ Len(b) = 1 + Len(ItemLines(c)) + Len(t)
      /\ b[1] = HeadingLine(c)
      /\ \A j \in 1..Len(ItemLines(c)) : b[j + 1] = ItemLines(c)[j]
      /\ \A j \in 1..Len(t) : b[Len(ItemLines(c)) + 1 + j] = t[j]
  <2>1. h \in Seq(Line) /\ ItemLines(c) \in Seq(Line) /\ t \in Seq(Line)
    BY <1>3, <1>4, <1>6
  <2>2. b \in Seq(Line)
    BY <1>5, <2>1, GlueType, Zenon
  <2>3. /\ Len(b) = 1 + Len(ItemLines(c)) + Len(t) /\ b[1] = h[1]
        /\ \A j \in 1..Len(ItemLines(c)) : b[j + 1] = ItemLines(c)[j]
        /\ \A j \in 1..Len(t) : b[Len(ItemLines(c)) + 1 + j] = t[j]
    <3> DEFINE s == ItemLines(c)
               w == Glue(Glue(h, s), t)
    <3>1. h \in Seq(Line) /\ s \in Seq(Line) /\ t \in Seq(Line)
      BY <2>1
    <3> HIDE DEF s
    <3>2. Len(h) = 1 =>
            /\ Len(w) = 1 + Len(s) + Len(t) /\ w[1] = h[1]
            /\ \A j \in 1..Len(s) : w[j + 1] = s[j]
            /\ \A j \in 1..Len(t) : w[Len(s) + 1 + j] = t[j]
      BY <3>1, GlueThree, SMTT(60)
    <3>3. b = w
      BY <1>5 DEF s
    <3> QED
      BY <1>6, <3>2, <3>3, Zenon DEF s
  <2> QED
    BY <1>6, <2>2, <2>3
<1>8. \A j \in 1..n : b[j + 1] = ItemLine(group[c][j])
  BY <1>3, <1>7
<1>9. ~last => b[n + 2] = Blank
  <2>1. ~last => b[n + 1 + 1] = t[1]
    BY <1>3, <1>4, <1>7
  <2> QED
    BY <1>1, <1>4, <2>1
<1>10. Len(b) = n + IF last THEN 1 ELSE 2
  BY <1>1, <1>3, <1>4, <1>7
<1>11. Len(b) \in Nat
  BY <1>1, <1>10
<1> QED
  BY <1>1, <1>7, <1>8, <1>9, <1>10, <1>11, Zenon DEF n, b

(***************************************************************************)
(* Steps from one loop to the next.                                        *)
(***************************************************************************)

LEMMA LinesFrame ==
  ASSUME LinesInv, UNCHANGED <<items, lines>>, \A c : Written(c)' <=> Written(c)
  PROVE  LinesInv'
<1>1. \A i : Heading(i)' = Heading(i)
  BY DEF Heading
<1> DEFINE I == {i \in 1..Len(items) : Written(Heading(i))}
<1>2. {i \in 1..Len(items') : Written(Heading(i))'} = I
  <2>1. \A i : Written(Heading(i))' <=> Written(Heading(i))
    BY <1>1
  <2> QED
    BY <2>1
<1>3. Arranged(lines, I)
  BY DEF LinesInv
<1> QED
  BY <1>1, <1>2, <1>3 DEF LinesInv, Arranged

LEMMA GroupFrame ==
  ASSUME GroupInv, UNCHANGED <<items, group, catOrder>>, Seen' = Seen
  PROVE  GroupInv'
<1>1. \A i : Heading(i)' = Heading(i)
  BY DEF Heading
<1> QED
  BY <1>1 DEF GroupInv

\* Before the packing there is no message.
LEMMA NoMessageYet ==
  ASSUME TypeOK, SizeInv, FitsTelegram, pc \in {"group", "lines"},
         UNCHANGED <<messages, current, size>>, pc' \in {"group", "lines"}
  PROVE  SizeInv' /\ FitsTelegram' /\ PackedInOrder'
<1>1. SizeInv'
  BY DEF SizeInv, Untouched
<1>2. FitsTelegram'
  BY DEF SizeInv, FitsTelegram, Done
<1>3. PackedInOrder'
  BY DEF PackedInOrder, Pending, Done
<1> QED
  BY <1>1, <1>2, <1>3

LEMMA InitRender == Init => TypeOK /\ RenderInv
<1> SUFFICES ASSUME Init PROVE TypeOK /\ RenderInv
  OBVIOUS
<1>1. PICK n \in 0..MaxItems : items \in [1..n -> Item]
  BY DEF Init
<1>2. items \in Seq(Item) /\ Len(items) = n
  BY <1>1, SizesAssumption, IsASeq, LenProperties
<1>3. TypeOK
  <2>1. size \in 0..SoftLimit
    BY SizesAssumption, LimitsAssumption DEF Init
  <2>2. group \in [Category -> Seq(1..MaxItems)]
    BY DEF Init
  <2>3. k \in Nat /\ pc \in {"group", "lines", "pack", "done"}
    BY DEF Init
  <2>4. catOrder = << >> /\ lines = << >> /\ messages = << >> /\ current = << >>
    BY DEF Init
  <2> QED
    BY <1>2, <2>1, <2>2, <2>3, <2>4, SizesAssumption DEF TypeOK
<1>4. pc = "group" \/ (pc = "done" /\ Len(items) = 0)
  <2>1. (items = << >>) => (Len(items) = 0)
    BY <1>2, EmptySeq
  <2>2. pc = IF items = << >> THEN "done" ELSE "group"
    BY DEF Init
  <2> QED
    BY <2>1, <2>2, Zenon
<1>5. PositionInv
  BY <1>2, <1>4 DEF Init, PositionInv
<1>6. GroupInv
  <2>1. Seen = 0
    BY <1>4 DEF Init, Seen
  <2>2. \A c \in Category : group[c] = << >>
    BY DEF Init
  <2>3. catOrder = << >>
    BY DEF Init
  <2> QED
    BY <2>1, <2>2, <2>3 DEF GroupInv
<1>7. LinesInv
  BY DEF Init, LinesInv, Arranged, Written
<1>8. SizeInv
  BY <1>4, SizesAssumption DEF Init, SizeInv, Untouched
<1>9. PackedInOrder /\ FitsTelegram
  <2>1. messages = << >> /\ ~Pending /\ ~Done
    BY <1>4, <1>2, EmptySeq DEF Init, Pending, Done
  <2> QED
    BY <2>1 DEF PackedInOrder, FitsTelegram
<1> QED
  BY <1>3, <1>5, <1>6, <1>7, <1>8, <1>9 DEF RenderInv

LEMMA GroupedInv ==
  ASSUME TypeOK, RenderInv, Grouped
  PROVE  TypeOK' /\ RenderInv'
<1>1. TypeOK'
  BY DEF TypeOK, Grouped
<1>2. PositionInv'
  <2>1. Len(catOrder) \in Nat
    BY LenProperties DEF TypeOK
  <2> QED
    BY <2>1 DEF Grouped, PositionInv
<1>3. GroupInv'
  <2>1. Seen' = Seen
    <3>1. Len(items) \in Nat
      BY LenProperties DEF TypeOK
    <3> QED
      BY <3>1 DEF Grouped, Seen, RenderInv, PositionInv
  <2> QED
    BY <2>1, GroupFrame DEF Grouped, RenderInv
<1>4. LinesInv'
  <2>1. Len(catOrder) \in Nat
    BY LenProperties DEF TypeOK
  <2>2. \A c : Written(c)' <=> Written(c)
    BY <2>1 DEF Grouped, Written
  <2> QED
    BY <2>2, LinesFrame DEF Grouped, RenderInv
<1>5. SizeInv' /\ FitsTelegram' /\ PackedInOrder'
  BY NoMessageYet DEF Grouped, RenderInv
<1> QED
  BY <1>1, <1>2, <1>3, <1>4, <1>5 DEF RenderInv

LEMMA LinesBuiltInv ==
  ASSUME TypeOK, RenderInv, LinesBuilt
  PROVE  TypeOK' /\ RenderInv'
<1>1. TypeOK'
  BY DEF TypeOK, LinesBuilt
<1>2. PositionInv'
  <2>1. Len(lines) \in Nat
    BY LenProperties DEF TypeOK
  <2> QED
    BY <2>1 DEF LinesBuilt, PositionInv
<1>3. GroupInv'
  BY GroupFrame DEF LinesBuilt, RenderInv, Seen
<1>4. LinesInv'
  <2>1. Len(catOrder) \in Nat /\ k \in Nat
    BY LenProperties DEF TypeOK
  <2>2. \A c : Written(c)' <=> Written(c)
    BY <2>1 DEF LinesBuilt, Written
  <2> QED
    BY <2>2, LinesFrame DEF LinesBuilt, RenderInv
<1>5. messages = << >> /\ current = << >>
  BY DEF LinesBuilt, RenderInv, SizeInv
<1>6. SizeInv' /\ FitsTelegram'
  BY <1>5 DEF LinesBuilt, RenderInv, SizeInv, FitsTelegram, Untouched, Done
<1>7. PackedInOrder'
  <2>1. Read' = << >>
    BY <1>5 DEF LinesBuilt, Read, FlattenSeq
  <2>2. SubSeq(lines', 1, k' - 1) = << >>
    BY DEF LinesBuilt
  <2> QED
    BY <2>1, <2>2 DEF LinesBuilt, PackedInOrder, Pending, Done
<1> QED
  BY <1>1, <1>2, <1>3, <1>4, <1>6, <1>7 DEF RenderInv

\* A post joins the group of its heading as its last one.
LEMMA GroupItemInv ==
  ASSUME TypeOK, RenderInv, GroupItem
  PROVE  TypeOK' /\ RenderInv'
<1> DEFINE h == Heading(k)
<1>1. /\ pc = "group" /\ k \in 1..Len(items) /\ Len(items) \in Nat
      /\ pc' = pc /\ k' = k + 1
      /\ UNCHANGED <<items, lines, messages, current, size>>
  BY LenProperties DEF TypeOK, GroupItem, RenderInv, PositionInv
<1>2. h \in Category /\ k \in 1..MaxItems
  BY <1>1, ItemFacts
<1>3. /\ group' = [group EXCEPT ![h] = Append(@, k)]
      /\ catOrder' = IF group[h] = << >> THEN Append(catOrder, h) ELSE catOrder
  BY DEF GroupItem
<1>4. Seen = k - 1 /\ Seen' = k
  BY <1>1 DEF Seen
<1>5. \A i : Heading(i)' = Heading(i)
  BY <1>1 DEF Heading
<1> HIDE DEF h
<1>6. group[h] \in Seq(1..MaxItems) /\ Len(group[h]) \in Nat
  BY <1>2, LenProperties DEF TypeOK
<1>7. /\ group'[h] \in Seq(1..MaxItems) /\ Len(group'[h]) = Len(group[h]) + 1
      /\ group'[h][Len(group[h]) + 1] = k
      /\ \A j \in 1..Len(group[h]) : group'[h][j] = group[h][j]
  <2>1. group'[h] = Append(group[h], k)
    BY <1>2, <1>3 DEF TypeOK
  <2> QED
    BY <1>2, <1>6, <2>1, AppendProperties
<1>8. \A c \in Category : c # h => group'[c] = group[c]
  BY <1>3 DEF TypeOK
<1>9. catOrder \in Seq(Category) /\ Len(catOrder) \in Nat
  BY LenProperties DEF TypeOK
<1>10. TypeOK'
  <2>1. group' \in [Category -> Seq(1..MaxItems)]
    BY <1>2, <1>3, <1>7 DEF TypeOK
  <2>2. catOrder' \in Seq(Category)
    BY <1>2, <1>3, <1>9, AppendProperties
  <2> QED
    BY <1>1, <2>1, <2>2 DEF TypeOK
<1>11. PositionInv'
  BY <1>1 DEF PositionInv
<1>12. GroupInv'
  <2>1. ASSUME NEW c \in Category, NEW j \in 1..Len(group'[c])
        PROVE  /\ group'[c][j] \in 1..Seen' /\ Heading(group[c][j])' = c
               /\ \A i \in 1..j - 1 : group'[c][i] < group'[c][j]
    <3>1. Len(group[c]) \in Nat
      BY LenProperties DEF TypeOK
    <3>2. CASE j \in 1..Len(group[c])
      <4>1. group'[c][j] = group[c][j] /\ \A i \in 1..j - 1 : group'[c][i] = group[c][i]
        BY <1>7, <1>8, <3>1, <3>2
      <4>2. /\ group[c][j] \in 1..k - 1 /\ Heading(group[c][j]) = c
            /\ \A i \in 1..j - 1 : group[c][i] < group[c][j]
        BY <1>4, <3>2 DEF RenderInv, GroupInv
      <4>3. Heading(group[c][j])' = c
        BY <1>1, <4>1, <4>2 DEF Heading
      <4> QED
        BY <1>1, <1>4, <4>1, <4>2, <4>3
    <3>3. CASE j \notin 1..Len(group[c])
      <4>1. c = h /\ j = Len(group[h]) + 1 /\ group'[c][j] = k
        BY <1>7, <1>8, <3>1, <3>3
      <4>2. \A i \in 1..j - 1 : group'[c][i] = group[c][i] /\ group[c][i] \in 1..k - 1
        BY <1>2, <1>4, <1>6, <1>7, <4>1 DEF RenderInv, GroupInv
      <4>3. Heading(group[c][j])' = c
        BY <1>1, <4>1 DEF Heading, h
      <4> QED
        BY <1>1, <1>4, <4>1, <4>2, <4>3
    <3> QED
      BY <3>2, <3>3
  <2>2. ASSUME NEW i \in 1..k
        PROVE  \E j \in 1..Len(group'[Heading(i)]) : group'[Heading(i)][j] = i
    <3>1. CASE i = k
      BY <1>6, <1>7, <3>1 DEF h
    <3>2. CASE i # k
      <4>1. i \in 1..Seen /\ i \in 1..Len(items)
        BY <1>1, <1>4, <3>2
      <4>2. PICK j \in 1..Len(group[Heading(i)]) : group[Heading(i)][j] = i
        BY <4>1 DEF RenderInv, GroupInv
      <4>3. Heading(i) \in Category
        BY <4>1, ItemFacts
      <4>4. CASE Heading(i) = h
        BY <1>6, <1>7, <4>2, <4>4
      <4>5. CASE Heading(i) # h
        BY <1>8, <4>2, <4>3, <4>5
      <4> QED
        BY <4>4, <4>5
    <3> QED
      BY <3>1, <3>2
  <2>3. ASSUME NEW c \in Category
        PROVE  group'[c] # << >> <=> \E j \in 1..Len(catOrder') : catOrder'[j] = c
    <3>1. group[c] # << >> <=> \E j \in 1..Len(catOrder) : catOrder[j] = c
      BY DEF RenderInv, GroupInv
    <3>2. group'[h] # << >>
      BY <1>6, <1>7
    <3>3. CASE group[h] = << >>
      <4>1. /\ Len(catOrder') = Len(catOrder) + 1
            /\ catOrder'[Len(catOrder) + 1] = h
            /\ \A j \in 1..Len(catOrder) : catOrder'[j] = catOrder[j]
        BY <1>2, <1>3, <1>9, <3>3, AppendProperties
      <4> QED
        BY <1>8, <1>9, <3>1, <3>2, <4>1
    <3>4. CASE group[h] # << >>
      BY <1>3, <1>8, <3>1, <3>2, <3>4
    <3> QED
      BY <3>3, <3>4
  <2>4. \A i, j \in 1..Len(catOrder') : catOrder'[i] = catOrder'[j] => i = j
    <3>1. \A i, j \in 1..Len(catOrder) : catOrder[i] = catOrder[j] => i = j
      BY DEF RenderInv, GroupInv
    <3>2. CASE group[h] = << >>
      <4>1. /\ Len(catOrder') = Len(catOrder) + 1
            /\ catOrder'[Len(catOrder) + 1] = h
            /\ \A j \in 1..Len(catOrder) : catOrder'[j] = catOrder[j]
        BY <1>2, <1>3, <1>9, <3>2, AppendProperties
      <4>2. \A j \in 1..Len(catOrder) : catOrder[j] # h
        BY <1>2, <3>2 DEF RenderInv, GroupInv
      <4> QED
        BY <1>9, <3>1, <4>1, <4>2
    <3>3. CASE group[h] # << >>
      BY <1>3, <3>1, <3>3
    <3> QED
      BY <3>2, <3>3
  <2> QED
    BY <1>4, <1>5, <2>1, <2>2, <2>3, <2>4 DEF GroupInv
<1>13. LinesInv'
  BY <1>1, LinesFrame DEF RenderInv, Written
<1>14. SizeInv' /\ FitsTelegram' /\ PackedInOrder'
  BY <1>1, NoMessageYet DEF RenderInv
<1> QED
  BY <1>10, <1>11, <1>12, <1>13, <1>14 DEF RenderInv

\* The lines of a category follow the others: its heading, its posts, and what
\* separates it from the next.
Added(c, n, g) ==
  /\ c \in Category /\ n \in Nat /\ g \in Nat
  /\ lines' \in Seq(Line) /\ Len(lines') \in Nat
  /\ n + 1 + g <= Len(lines')
  /\ \A p \in 1..n : lines'[p] = lines[p]
  /\ lines'[n + 1] = HeadingLine(c)
  /\ \A j \in 1..g : lines'[n + 1 + j] = ItemLine(group[c][j])
  /\ \A p \in 1..Len(lines') : p > n + 1 + g => lines'[p] = Blank

LEMMA CategoryLines ==
  ASSUME TypeOK, RenderInv, AddCategory, NEW c, NEW n, NEW g
  PROVE  c = catOrder[k] /\ n = Len(lines) /\ g = Len(group[c]) => Added(c, n, g)
<1>0. SUFFICES ASSUME c = catOrder[k], n = Len(lines), g = Len(group[c])
               PROVE  Added(c, n, g)
  OBVIOUS
<1> DEFINE last == k = Len(catOrder)
           b == Block(c, last)
           new == lines'
<1>1. k \in 1..Len(catOrder) /\ Len(catOrder) \in Nat
  BY LenProperties DEF TypeOK, AddCategory, RenderInv, PositionInv
<1>2. c \in Category /\ last \in BOOLEAN
  BY <1>0, <1>1, ElementOfSeq DEF TypeOK
<1>3. lines \in Seq(Line) /\ n \in Nat
  BY <1>0, LenProperties DEF TypeOK
<1>4. lines' = Glue(lines, b)
  <2>1. ~(k < Len(catOrder)) <=> last
    BY <1>1
  <2>2. lines' = lines \o (<<HeadingLine(c)>> \o ItemLines(c)
                             \o IF k < Len(catOrder) THEN <<Blank>> ELSE << >>)
    BY <1>0 DEF AddCategory
  <2>3. (IF k < Len(catOrder) THEN <<Blank>> ELSE << >>)
          = (IF last THEN << >> ELSE <<Blank>>)
    BY <2>1
  <2> QED
    BY <2>2, <2>3, Zenon DEF Glue, Block
<1>5. /\ b \in Seq(Line) /\ g \in Nat /\ Len(b) \in Nat
      /\ Len(b) = g + IF last THEN 1 ELSE 2
      /\ b[1] = HeadingLine(c)
      /\ \A j \in 1..g : b[j + 1] = ItemLine(group[c][j])
      /\ ~last => b[g + 2] = Blank
  <2> HIDE DEF last
  <2>1. /\ b \in Seq(Line) /\ Len(group[c]) \in Nat /\ Len(b) \in Nat
        /\ Len(b) = Len(group[c]) + IF last THEN 1 ELSE 2
        /\ b[1] = HeadingLine(c)
        /\ \A j \in 1..Len(group[c]) : b[j + 1] = ItemLine(group[c][j])
        /\ ~last => b[Len(group[c]) + 2] = Blank
    BY <1>2, BlockFacts, Zenon
  <2> QED
    BY <1>0, <2>1, Zenon
<1> HIDE DEF last, b
<1>6. new \in Seq(Line)
  BY <1>3, <1>4, <1>5, GlueType, Zenon
<1>7. /\ Len(new) = n + Len(b)
      /\ \A i \in 1..n : new[i] = lines[i]
      /\ \A i \in 1..Len(b) : new[n + i] = b[i]
  <2>1. /\ Len(Glue(lines, b)) = Len(lines) + Len(b)
        /\ \A i \in 1..Len(lines) : Glue(lines, b)[i] = lines[i]
        /\ \A i \in 1..Len(b) : Glue(lines, b)[Len(lines) + i] = b[i]
    BY <1>3, <1>5, GlueFacts, SMTT(60)
  <2> QED
    BY <1>0, <1>4, <2>1, Zenon
<1> HIDE DEF new
<1>8. /\ Len(new) \in Nat /\ n + 1 + g <= Len(new) /\ Len(new) <= n + g + 2
      /\ new[n + 1] = HeadingLine(c)
  BY <1>2, <1>3, <1>5, <1>7
<1>9. \A j \in 1..g : new[n + 1 + j] = ItemLine(group[c][j])
  <2>1. \A j \in 1..g : /\ j + 1 \in 1..Len(b)
                        /\ n + (j + 1) = n + 1 + j
    BY <1>2, <1>3, <1>5
  <2> QED
    BY <1>5, <1>7, <2>1
<1>10. ASSUME NEW p \in 1..Len(new), p > n + 1 + g PROVE new[p] = Blank
  <2>1. ~last /\ g + 2 \in 1..Len(b) /\ p = n + (g + 2)
    BY <1>2, <1>3, <1>5, <1>7, <1>10
  <2> QED
    BY <1>5, <1>7, <2>1
<1> QED
  BY <1>2, <1>3, <1>5, <1>6, <1>7, <1>8, <1>9, <1>10 DEF new, Added

LEMMA AddCategoryInv ==
  ASSUME TypeOK, RenderInv, AddCategory
  PROVE  TypeOK' /\ RenderInv'
<1>0. PICK c : c = catOrder[k]
  OBVIOUS
<1>1. /\ pc = "lines" /\ k \in 1..Len(catOrder) /\ Len(catOrder) \in Nat
      /\ Len(items) \in Nat
      /\ pc' = pc /\ k' = k + 1
      /\ UNCHANGED <<items, group, catOrder, messages, current, size>>
  BY LenProperties DEF TypeOK, AddCategory, RenderInv, PositionInv
<1>2. PICK n : n = Len(lines)
  OBVIOUS
<1>3. PICK g : g = Len(group[c])
  OBVIOUS
<1>4. /\ c \in Category /\ n \in Nat /\ g \in Nat
      /\ lines' \in Seq(Line) /\ Len(lines') \in Nat
      /\ n + 1 + g <= Len(lines')
      /\ \A p \in 1..n : lines'[p] = lines[p]
      /\ lines'[n + 1] = HeadingLine(c)
      /\ \A j \in 1..g : lines'[n + 1 + j] = ItemLine(group[c][j])
      /\ \A p \in 1..Len(lines') : p > n + 1 + g => lines'[p] = Blank
  <2>1. Added(c, n, g)
    BY <1>0, <1>2, <1>3, CategoryLines, Zenon
  <2> QED
    BY <2>1 DEF Added
<1>5. ~Written(c)
  BY <1>0, <1>1 DEF RenderInv, GroupInv, Written
<1>6. \A d : Written(d)' <=> Written(d) \/ d = c
  BY <1>0, <1>1 DEF Written
<1>7. \A i : Heading(i)' = Heading(i)
  BY <1>1 DEF Heading
<1>8. /\ \A j \in 1..g : group[c][j] \in 1..Len(items) /\ Heading(group[c][j]) = c
      /\ \A i, j \in 1..g : i < j => group[c][i] < group[c][j]
      /\ \A i \in 1..Len(items) : Heading(i) = c => \E j \in 1..g : group[c][j] = i
  <2>1. Seen = Len(items)
    BY <1>1 DEF Seen
  <2>2. \A j \in 1..g : /\ group[c][j] \in 1..Len(items)
                        /\ Heading(group[c][j]) = c
                        /\ \A i \in 1..j - 1 : group[c][i] < group[c][j]
    BY <1>3, <1>4, <2>1 DEF RenderInv, GroupInv
  <2>3. \A i \in 1..Len(items) : Heading(i) = c => \E j \in 1..g : group[c][j] = i
    BY <1>3, <2>1 DEF RenderInv, GroupInv
  <2>4. \A i, j \in 1..g : i < j => i \in 1..j - 1
    BY <1>4
  <2> QED
    BY <2>2, <2>3, <2>4
<1>9. TypeOK'
  BY <1>1, <1>4 DEF TypeOK
<1>10. PositionInv'
  BY <1>1 DEF PositionInv
<1>11. GroupInv'
  BY <1>1, GroupFrame DEF RenderInv, Seen
<1>12. SizeInv' /\ FitsTelegram' /\ PackedInOrder'
  BY <1>1, NoMessageYet DEF RenderInv
<1>13. \A p \in 1..Len(lines') :
         \/ p \in 1..n /\ lines'[p] = lines[p]
         \/ p = n + 1 /\ lines'[p] = HeadingLine(c)
         \/ \E j \in 1..g : p = n + 1 + j /\ lines'[p] = ItemLine(group[c][j])
         \/ p > n + 1 + g /\ lines'[p] = Blank
  <2> SUFFICES ASSUME NEW p \in 1..Len(lines')
               PROVE  \/ p \in 1..n /\ lines'[p] = lines[p]
                      \/ p = n + 1 /\ lines'[p] = HeadingLine(c)
                      \/ \E j \in 1..g : p = n + 1 + j /\ lines'[p] = ItemLine(group[c][j])
                      \/ p > n + 1 + g /\ lines'[p] = Blank
    OBVIOUS
  <2>1. CASE p = n + 1
    BY <1>4, <2>1, Zenon
  <2>4. CASE p < n + 1
    <3>1. p \in 1..n
      BY <1>4, <2>4
    <3> QED
      BY <1>4, <3>1, Zenon
  <2>2. CASE p > n + 1 + g
    BY <1>4, <2>2
  <2>3. CASE p > n + 1 /\ p <= n + 1 + g
    <3>1. p - n - 1 \in 1..g /\ p = n + 1 + (p - n - 1)
      BY <1>4, <2>3
    <3> QED
      BY <1>4, <3>1
  <2> QED
    BY <1>4, <2>1, <2>2, <2>3, <2>4
\* What the new lines hold.
<1>14. ASSUME NEW p \in 1..Len(lines')
       PROVE  /\ lines'[p].kind = "item" =>
                   /\ lines'[p].item \in 1..Len(items)
                   /\ \/ Written(Heading(lines'[p].item))
                      \/ Heading(lines'[p].item) = c
              /\ lines'[p].kind = "heading" =>
                   Written(lines'[p].cat) \/ lines'[p].cat = c
  <2>1. CASE p \in 1..n /\ lines'[p] = lines[p]
    <3>1. /\ lines[p].kind = "item" =>
               lines[p].item \in 1..Len(items) /\ Written(Heading(lines[p].item))
          /\ lines[p].kind = "heading" => Written(lines[p].cat)
      BY <1>2, <2>1 DEF RenderInv, LinesInv
    <3> QED
      BY <1>6, <1>7, <2>1, <3>1
  <2>2. CASE lines'[p] = HeadingLine(c)
    BY <1>6, <2>2, LineFacts
  <2>3. CASE \E j \in 1..g : lines'[p] = ItemLine(group[c][j])
    BY <1>6, <1>7, <1>8, <2>3, LineFacts
  <2>4. CASE lines'[p] = Blank
    BY <2>4, LineFacts
  <2> QED
    BY <1>13, <2>1, <2>2, <2>3, <2>4
\* A category that was written before.
<1>15. ASSUME NEW i \in 1..Len(items), Written(Heading(i))
       PROVE  \E p \in 1..Len(lines') :
                 /\ lines'[p] = ItemLine(i)
                 /\ \A q \in 1..Len(lines') \ {p} : lines'[q] # ItemLine(i)
                 /\ \E h \in 1..p - 1 :
                      /\ lines'[h] = HeadingLine(Heading(i))
                      /\ \A q \in h + 1..p - 1 :
                           /\ lines'[q].kind = "item"
                           /\ Heading(lines'[q].item) = Heading(i)
                           /\ lines'[q].item < i
  <2>1. PICK p \in 1..n :
          /\ lines[p] = ItemLine(i)
          /\ \A q \in 1..n \ {p} : lines[q] # ItemLine(i)
          /\ \E h \in 1..p - 1 :
               /\ lines[h] = HeadingLine(Heading(i))
               /\ \A q \in h + 1..p - 1 :
                    /\ lines[q].kind = "item"
                    /\ Heading(lines[q].item) = Heading(i) /\ lines[q].item < i
    BY <1>2, <1>15 DEF RenderInv, LinesInv, Arranged
  <2>2. PICK h \in 1..p - 1 :
          /\ lines[h] = HeadingLine(Heading(i))
          /\ \A q \in h + 1..p - 1 :
               /\ lines[q].kind = "item"
               /\ Heading(lines[q].item) = Heading(i) /\ lines[q].item < i
    BY <2>1
  <2>3. Heading(i) # c
    BY <1>5, <1>15
  <2>4. ASSUME NEW q \in 1..Len(lines') \ {p} PROVE lines'[q] # ItemLine(i)
    <3>1. CASE q \in 1..n /\ lines'[q] = lines[q]
      BY <2>1, <3>1
    <3>2. CASE lines'[q] = HeadingLine(c)
      BY <3>2, LineFacts
    <3>3. CASE \E j \in 1..g : lines'[q] = ItemLine(group[c][j])
      BY <1>8, <2>3, <3>3, LineFacts
    <3>4. CASE lines'[q] = Blank
      BY <3>4, LineFacts
    <3> QED
      BY <1>13, <3>1, <3>2, <3>3, <3>4
  <2>5. p \in 1..Len(lines') /\ h \in 1..n /\ \A q \in h + 1..p - 1 : q \in 1..n
    BY <1>4
  <2>6. /\ lines'[p] = lines[p] /\ lines'[h] = lines[h]
        /\ \A q \in h + 1..p - 1 : lines'[q] = lines[q]
    BY <1>4, <2>5
  <2> QED
    BY <2>1, <2>2, <2>4, <2>5, <2>6
\* The category that this step writes.
<1>16. ASSUME NEW i \in 1..Len(items), Heading(i) = c
       PROVE  \E p \in 1..Len(lines') :
                 /\ lines'[p] = ItemLine(i)
                 /\ \A q \in 1..Len(lines') \ {p} : lines'[q] # ItemLine(i)
                 /\ \E h \in 1..p - 1 :
                      /\ lines'[h] = HeadingLine(Heading(i))
                      /\ \A q \in h + 1..p - 1 :
                           /\ lines'[q].kind = "item"
                           /\ Heading(lines'[q].item) = Heading(i)
                           /\ lines'[q].item < i
  <2>1. PICK j \in 1..g : group[c][j] = i
    BY <1>8, <1>16
  <2>2. PICK p : p = n + 1 + j
    OBVIOUS
  <2>3. p \in 1..Len(lines') /\ n + 1 \in 1..p - 1 /\ lines'[p] = ItemLine(i)
    BY <1>4, <2>1, <2>2
  <2>4. ASSUME NEW q \in 1..Len(lines') \ {p} PROVE lines'[q] # ItemLine(i)
    <3>1. CASE q \in 1..n /\ lines'[q] = lines[q]
      <4>1. lines[q].kind = "item" => Written(Heading(lines[q].item))
        BY <1>2, <3>1 DEF RenderInv, LinesInv
      <4> QED
        BY <1>5, <1>16, <3>1, <4>1, LineFacts
    <3>2. CASE lines'[q] = HeadingLine(c)
      BY <3>2, LineFacts
    <3>3. CASE \E l \in 1..g : q = n + 1 + l /\ lines'[q] = ItemLine(group[c][l])
      <4>1. PICK l \in 1..g : q = n + 1 + l /\ lines'[q] = ItemLine(group[c][l])
        BY <3>3
      <4>2. l < j \/ j < l
        BY <1>4, <2>2, <4>1
      <4>3. group[c][l] # i
        BY <1>8, <2>1, <4>2
      <4> QED
        BY <4>1, <4>3, LineFacts
    <3>4. CASE lines'[q] = Blank
      BY <3>4, LineFacts
    <3> QED
      BY <1>13, <3>1, <3>2, <3>3, <3>4
  <2>5. ASSUME NEW q \in (n + 1) + 1..p - 1
        PROVE  /\ lines'[q].kind = "item"
               /\ Heading(lines'[q].item) = Heading(i)
               /\ lines'[q].item < i
    <3>1. PICK l : l = q - n - 1
      OBVIOUS
    <3>2. l \in 1..g /\ l < j /\ q = n + 1 + l
      BY <1>4, <2>2, <3>1
    <3>3. lines'[q] = ItemLine(group[c][l])
      BY <1>4, <3>2
    <3>4. Heading(group[c][l]) = c /\ group[c][l] < i
      BY <1>8, <2>1, <3>2
    <3> QED
      BY <1>16, <3>3, <3>4, LineFacts
  <2>6. lines'[n + 1] = HeadingLine(Heading(i))
    BY <1>4, <1>16
  <2> QED
    BY <2>3, <2>4, <2>5, <2>6
<1>17. ASSUME NEW p \in 1..Len(lines'), NEW q \in 1..Len(lines'),
              lines'[p].kind = "heading", lines'[p] = lines'[q]
       PROVE  p = q
  <2>1. \A r \in 1..Len(lines') :
          lines'[r].kind = "heading" =>
            \/ r \in 1..n /\ lines'[r] = lines[r] /\ Written(lines[r].cat)
            \/ r = n + 1 /\ lines'[r] = HeadingLine(c)
    <3>1. \A r \in 1..n : lines[r].kind = "heading" => Written(lines[r].cat)
      BY <1>2 DEF RenderInv, LinesInv
    <3> QED
      BY <1>13, <3>1, LineFacts
  <2>2. \A r, t \in 1..n :
          lines[r].kind = "heading" /\ lines[r] = lines[t] => r = t
    BY <1>2 DEF RenderInv, LinesInv, Arranged
  <2>3. HeadingLine(c).cat = c
    BY LineFacts
  <2> QED
    BY <1>5, <1>17, <2>1, <2>2, <2>3
<1>18. LinesInv'
  <2> DEFINE I == {i \in 1..Len(items) : Written(Heading(i)) \/ Heading(i) = c}
             R == \A p \in 1..Len(lines) :
                    /\ lines[p].kind = "item" =>
                         lines[p].item \in 1..Len(items) /\ Written(Heading(lines[p].item))
                    /\ lines[p].kind = "heading" => Written(lines[p].cat)
  <2>1. {i \in 1..Len(items') : Written(Heading(i))'} = I
    <3>1. \A i : Written(Heading(i))' <=> Written(Heading(i)) \/ Heading(i) = c
      BY <1>6, <1>7
    <3> QED
      BY <1>1, <3>1
  <2>2. /\ \A i \in I :
             \E p \in 1..Len(lines') :
                /\ lines'[p] = ItemLine(i)
                /\ \A q \in 1..Len(lines') \ {p} : lines'[q] # ItemLine(i)
                /\ \E h \in 1..p - 1 :
                     /\ lines'[h] = HeadingLine(Heading(i))
                     /\ \A q \in h + 1..p - 1 :
                          /\ lines'[q].kind = "item"
                          /\ Heading(lines'[q].item) = Heading(i)
                          /\ lines'[q].item < i
        /\ \A p, q \in 1..Len(lines') :
             lines'[p].kind = "heading" /\ lines'[p] = lines'[q] => p = q
    BY <1>15, <1>16, <1>17
  <2>3. Arranged(lines, {i \in 1..Len(items) : Written(Heading(i))})'
    BY <1>7, <2>1, <2>2 DEF Arranged
  <2>4. R'
    BY <1>1, <1>6, <1>7, <1>14
  <2> QED
    BY <2>3, <2>4 DEF LinesInv
<1> QED
  BY <1>9, <1>10, <1>11, <1>12, <1>18 DEF RenderInv

(***************************************************************************)
(* Packing.                                                                *)
(***************************************************************************)

LinesOf(ms) == [m \in 1..Len(ms) |-> ms[m].lines]

\* A message more is its lines more.
LEMMA OneMessageMore ==
  ASSUME NEW ms \in Seq(Message), NEW msg \in Message
  PROVE  /\ FlattenSeq(LinesOf(Append(ms, msg))) = FlattenSeq(LinesOf(ms)) \o msg.lines
         /\ FlattenSeq(LinesOf(ms)) \in Seq(Line)
<1>1. PICK all : all = Append(ms, msg)
  OBVIOUS
<1>2. PICK n : n = Len(ms)
  OBVIOUS
<1>3. /\ n \in Nat /\ Len(all) = n + 1 /\ all[n + 1] = msg
      /\ \A m \in 1..n : all[m] = ms[m] /\ ms[m] \in Message
  <2>1. Len(ms) \in Nat /\ \A m \in 1..Len(ms) : ms[m] \in Message
    BY LenProperties, ElementOfSeq
  <2>2. /\ Len(all) = Len(ms) + 1 /\ all[Len(ms) + 1] = msg
        /\ \A m \in 1..Len(ms) : all[m] = ms[m]
    BY <1>1, AppendProperties
  <2> QED
    BY <1>2, <2>1, <2>2, Zenon
<1>4. msg.lines \in Seq(Line) /\ \A m \in 1..n : ms[m].lines \in Seq(Line)
  BY <1>3 DEF Message
<1>5. LinesOf(ms) \in Seq(Seq(Line)) /\ Len(LinesOf(ms)) = n
  <2>1. LinesOf(ms) \in [1..n -> Seq(Line)]
    BY <1>2, <1>4 DEF LinesOf
  <2>2. LinesOf(ms) \in Seq(Seq(Line))
    BY <1>3, <2>1, IsASeq
  <2>3. Len(LinesOf(ms)) = n
    BY <1>3, <2>1, <2>2, LenProperties
  <2> QED
    BY <2>2, <2>3
<1>6. LinesOf(all) = Append(LinesOf(ms), msg.lines)
  <2>1. LinesOf(all) \in Seq(Seq(Line)) /\ Len(LinesOf(all)) = n + 1
    <3>1. \A m \in 1..n + 1 : all[m].lines \in Seq(Line)
      <4>1. \A m \in 1..n + 1 : m \in 1..n \/ m = n + 1
        BY <1>3
      <4> QED
        BY <1>3, <1>4, <4>1, Zenon
    <3>2. LinesOf(all) \in [1..n + 1 -> Seq(Line)]
      BY <1>3, <3>1 DEF LinesOf
    <3>3. LinesOf(all) \in Seq(Seq(Line))
      BY <1>3, <3>2, IsASeq
    <3> QED
      BY <1>3, <3>2, <3>3, LenProperties
  <2>2. PICK more : more = Append(LinesOf(ms), msg.lines)
    OBVIOUS
  <2>3. /\ more \in Seq(Seq(Line)) /\ Len(more) = n + 1
        /\ more[n + 1] = msg.lines
        /\ \A m \in 1..n : more[m] = LinesOf(ms)[m]
    BY <1>4, <1>5, <2>2, AppendProperties
  <2>4. \A m \in 1..n + 1 : LinesOf(all)[m] = more[m]
    <3>1. \A m \in 1..n + 1 : LinesOf(all)[m] = all[m].lines
      BY <1>3 DEF LinesOf
    <3>2. \A m \in 1..n : LinesOf(ms)[m] = ms[m].lines
      BY <1>2 DEF LinesOf
    <3>3. \A m \in 1..n + 1 : m \in 1..n \/ m = n + 1
      BY <1>3
    <3> QED
      BY <1>3, <2>3, <3>1, <3>2, <3>3, Zenon
  <2>5. LinesOf(all) = more
    BY <1>3, <2>1, <2>3, <2>4, SeqEqual
  <2> QED
    BY <2>2, <2>5
<1>7. /\ FlattenSeq(Append(LinesOf(ms), msg.lines)) = FlattenSeq(LinesOf(ms)) \o msg.lines
      /\ FlattenSeq(LinesOf(ms)) \in Seq(Line)
  BY <1>4, <1>5, FlattenAppend, Zenon
<1> QED
  BY <1>1, <1>6, <1>7, Zenon

LEMMA ReadFacts ==
  /\ Read = FlattenSeq(LinesOf(messages)) \o current
  /\ Read' = FlattenSeq(LinesOf(messages')) \o current'
  BY Zenon DEF Read, LinesOf

\* The size of a message that is closed.
LEMMA ClosedFacts ==
  ASSUME TypeOK, RenderInv, pc # "done"
  PROVE  /\ Closed \in Message /\ Closed.lines = current
         /\ ~Closed.cut /\ ~Closed.footer /\ Closed.size <= HardLimit
<1>1. size \in Nat /\ size >= 2 /\ size <= SoftLimit
  BY SizesAssumption DEF TypeOK, RenderInv, SizeInv
<1>2. TrimmedSize \in Nat /\ TrimmedSize <= SoftLimit
  BY <1>1, SizesAssumption DEF TrimmedSize
<1>3. SoftLimit <= HardLimit
  BY SizesAssumption, LimitsAssumption
<1>4. TrimmedSize <= HardLimit
  BY <1>2, <1>3, SizesAssumption
<1>5. current \in Seq(Line)
  BY DEF TypeOK
<1> QED
  BY <1>2, <1>4, <1>5 DEF Closed, Message

\* The footer has room in the message being filled.
LEMMA FootedFacts ==
  ASSUME TypeOK, NEW msg
  PROVE  msg = Footed(size + 1 + FooterSize) =>
           /\ msg \in Message /\ msg.lines = current
           /\ ~msg.cut /\ msg.footer /\ msg.size <= HardLimit
<1>0. PICK n : n = size + 1 + FooterSize
  OBVIOUS
<1>1. n \in Nat /\ n <= HardLimit
  BY <1>0, SizesAssumption, LimitsAssumption DEF TypeOK
<1>2. AtMost(n, HardLimit) = n /\ (n > HardLimit) = FALSE
  BY <1>1, SizesAssumption DEF AtMost
<1>3. current \in Seq(Line)
  BY DEF TypeOK
<1>4. Footed(n) = [lines |-> current, size |-> n, footer |-> TRUE, cut |-> FALSE]
  BY <1>2, Zenon DEF Footed
<1>5. /\ Footed(n) \in Message /\ Footed(n).lines = current
      /\ ~Footed(n).cut /\ Footed(n).footer /\ Footed(n).size <= HardLimit
  BY <1>1, <1>3, <1>4 DEF Message
<1> QED
  BY <1>0, <1>5

\* The line packed next goes below what was packed, in this message or the next.
LEMMA PackLineRead ==
  ASSUME TypeOK, RenderInv, PackLine
  PROVE  Read' = Read \o <<lines[k]>>
<1>1. pc = "pack" /\ k \in 1..Len(lines) /\ lines \in Seq(Line)
  BY LenProperties DEF TypeOK, PackLine, RenderInv, PositionInv
<1>2. lines[k] \in Line /\ <<lines[k]>> \in Seq(Line)
  <2>1. lines[k] \in Line
    BY <1>1, ElementOfSeq
  <2> QED
    BY <2>1
<1>3. current \in Seq(Line) /\ messages \in Seq(Message)
  BY DEF TypeOK
<1>4. Closed \in Message /\ Closed.lines = current
  BY <1>1, ClosedFacts
<1>5. PICK before : before = FlattenSeq(LinesOf(messages))
  OBVIOUS
<1>6. before \in Seq(Line)
       /\ FlattenSeq(LinesOf(Append(messages, Closed))) = before \o current
  BY <1>3, <1>4, <1>5, OneMessageMore, Zenon
<1>7. Read = before \o current
  BY <1>5, ReadFacts, Zenon
<1>8. CASE Full(lines[k])
  <2>1. messages' = Append(messages, Closed) /\ current' = <<lines[k]>>
    BY <1>8 DEF PackLine
  <2>2. Read' = FlattenSeq(LinesOf(Append(messages, Closed))) \o <<lines[k]>>
    BY <2>1, ReadFacts, Zenon
  <2> QED
    BY <1>6, <1>7, <2>2, Zenon
<1>9. CASE ~Full(lines[k])
  <2>1. messages' = messages /\ current' = Append(current, lines[k])
    BY <1>9 DEF PackLine
  <2>2. current' = current \o <<lines[k]>>
    BY <1>2, <1>3, <2>1, AppendIsConcat, Zenon
  <2>3. Read' = before \o (current \o <<lines[k]>>)
    BY <1>5, <2>1, <2>2, ReadFacts, Zenon
  <2>4. (before \o current) \o <<lines[k]>> = before \o (current \o <<lines[k]>>)
    <3>1. before \in Seq(Line) /\ current \in Seq(Line) /\ <<lines[k]>> \in Seq(Line)
      BY <1>2, <1>3, <1>6
    <3>2. \A s, t, u \in Seq(Line) : (s \o t) \o u = s \o (t \o u)
      BY ConcatAssociative
    <3> QED
      BY <3>1, <3>2, Zenon
  <2> QED
    BY <1>7, <2>3, <2>4, Zenon
<1> QED
  BY <1>8, <1>9

LEMMA PackLineInv ==
  ASSUME TypeOK, RenderInv, PackLine
  PROVE  TypeOK' /\ RenderInv'
<1>1. /\ pc = "pack" /\ k \in 1..Len(lines) /\ Len(lines) \in Nat
      /\ pc' = pc /\ k' = k + 1
      /\ UNCHANGED <<items, group, catOrder, lines>>
  BY LenProperties DEF TypeOK, PackLine, RenderInv, PositionInv
<1>2. lines \in Seq(Line) /\ lines[k] \in Line
  BY <1>1, ElementOfSeq DEF TypeOK
<1>3. PICK piece \in 1..SingleLimit + 1 : piece = PieceSize(lines[k])
  BY <1>1, PieceBounds DEF RenderInv
<1>4. /\ size \in Nat /\ size >= 2 /\ size <= SoftLimit
      /\ Untouched => size = HeaderSize + 2
  BY <1>1, SizesAssumption DEF TypeOK, RenderInv, SizeInv
<1>5. current \in Seq(Line) /\ messages \in Seq(Message) /\ Len(messages) \in Nat
  BY LenProperties DEF TypeOK
<1>6. \A m \in 1..Len(messages) :
        ~messages[m].cut /\ messages[m].size <= HardLimit /\ ~messages[m].footer
  BY <1>1 DEF RenderInv, FitsTelegram
<1>7. /\ messages' \in Seq(Message) /\ current' \in Seq(Line)
      /\ current' # << >>
  <2>1. CASE Full(lines[k])
    <3>1. messages' = Append(messages, Closed) /\ current' = <<lines[k]>>
      BY <2>1 DEF PackLine
    <3>2. Closed \in Message
      BY <1>1, ClosedFacts
    <3>3. messages' \in Seq(Message)
      BY <1>5, <3>1, <3>2, AppendProperties
    <3> QED
      BY <1>2, <3>1, <3>3
  <2>2. CASE ~Full(lines[k])
    <3>1. messages' = messages /\ current' = Append(current, lines[k])
      BY <2>2 DEF PackLine
    <3> QED
      BY <1>2, <1>5, <3>1, AppendProperties
  <2> QED
    BY <2>1, <2>2
<1>8. size' \in 0..SoftLimit /\ size' >= 2
  <2>1. CASE Full(lines[k])
    <3>1. size' = ContinuedSize + 2 + piece
      BY <1>3, <2>1 DEF PackLine
    <3> QED
      BY <1>3, <3>1, SizesAssumption, LimitsAssumption
  <2>2. CASE ~Full(lines[k])
    <3>1. size' = size + piece
      BY <1>3, <2>2 DEF PackLine
    <3>2. Untouched \/ ~(size + piece > SoftLimit)
      BY <1>3, <2>2 DEF Full
    <3>3. CASE Untouched
      BY <1>3, <1>4, <3>1, <3>3, SizesAssumption, LimitsAssumption
    <3>4. CASE ~(size + piece > SoftLimit)
      BY <1>3, <1>4, <3>1, <3>4, SizesAssumption
    <3> QED
      BY <3>2, <3>3, <3>4
  <2> QED
    BY <2>1, <2>2
<1>9. TypeOK'
  BY <1>1, <1>7, <1>8 DEF TypeOK
<1>10. PositionInv'
  BY <1>1 DEF PositionInv
<1>11. GroupInv'
  BY <1>1, GroupFrame DEF RenderInv, Seen
<1>12. LinesInv'
  BY <1>1, LinesFrame DEF RenderInv, Written
<1>13. SizeInv'
  BY <1>1, <1>7, <1>8 DEF SizeInv, Untouched
<1>14. PackedInOrder'
  <2>1. Read = SubSeq(lines, 1, k - 1)
    BY <1>1 DEF RenderInv, PackedInOrder, Pending
  <2>2. SubSeq(lines, 1, k) = SubSeq(lines, 1, k - 1) \o <<lines[k]>>
    BY <1>1, <1>2, SubSeqRecursiveSecond
  <2>3. Read' = SubSeq(lines, 1, k)
    BY <2>1, <2>2, PackLineRead, Zenon
  <2>4. lines' = lines /\ k' - 1 = k
    BY <1>1
  <2>5. Read' = SubSeq(lines', 1, k' - 1)
    BY <2>3, <2>4, Zenon
  <2>6. ~Done'
    BY <1>1 DEF Done
  <2> QED
    BY <2>5, <2>6, Zenon DEF PackedInOrder
<1>15. FitsTelegram'
  <2>1. \A m \in 1..Len(messages') :
          ~messages'[m].cut /\ messages'[m].size <= HardLimit /\ ~messages'[m].footer
    <3>1. CASE Full(lines[k])
      <4>1. messages' = Append(messages, Closed)
        BY <3>1 DEF PackLine
      <4>2. /\ Closed \in Message
            /\ ~Closed.cut /\ ~Closed.footer /\ Closed.size <= HardLimit
        BY <1>1, ClosedFacts
      <4>3. /\ Len(messages') = Len(messages) + 1
            /\ messages'[Len(messages) + 1] = Closed
            /\ \A m \in 1..Len(messages) : messages'[m] = messages[m]
        BY <1>5, <4>1, <4>2, AppendProperties
      <4>4. \A m \in 1..Len(messages') :
              m \in 1..Len(messages) \/ m = Len(messages) + 1
        BY <1>5, <4>3
      <4> QED
        BY <1>6, <4>2, <4>3, <4>4, Zenon
    <3>2. CASE ~Full(lines[k])
      <4>1. messages' = messages
        BY <3>2 DEF PackLine
      <4> QED
        BY <1>6, <4>1
    <3> QED
      BY <3>1, <3>2
  <2> QED
    BY <1>1, <2>1 DEF FitsTelegram, Done
<1> QED
  BY <1>9, <1>10, <1>11, <1>12, <1>13, <1>14, <1>15 DEF RenderInv

LEMMA FinishInv ==
  ASSUME TypeOK, RenderInv, Finish
  PROVE  TypeOK' /\ RenderInv'
<1>1. /\ pc = "pack" /\ k = Len(lines) + 1 /\ Len(lines) \in Nat
      /\ pc' = "done" /\ current' = << >>
      /\ UNCHANGED <<items, k, group, catOrder, lines, size>>
  <2>1. Len(lines) \in Nat
    BY LenProperties DEF TypeOK
  <2>2. pc = "pack" /\ k > Len(lines) /\ k \in 1..Len(lines) + 1
    BY DEF Finish, RenderInv, PositionInv
  <2>3. k = Len(lines) + 1
    BY <2>1, <2>2
  <2> QED
    BY <2>1, <2>2, <2>3 DEF Finish
<1>2. PICK msg : msg = Footed(size + 1 + FooterSize)
  OBVIOUS
<1>3. /\ msg \in Message /\ msg.lines = current
      /\ ~msg.cut /\ msg.footer /\ msg.size <= HardLimit
  BY <1>2, FootedFacts
<1>4. messages' = Append(messages, msg)
  BY <1>2 DEF Finish
<1>5. current \in Seq(Line) /\ messages \in Seq(Message) /\ Len(messages) \in Nat
  BY LenProperties DEF TypeOK
<1>6. /\ messages' \in Seq(Message) /\ messages' # << >>
      /\ Len(messages') = Len(messages) + 1
      /\ messages'[Len(messages) + 1] = msg
      /\ \A m \in 1..Len(messages) : messages'[m] = messages[m]
  BY <1>3, <1>4, <1>5, AppendProperties
<1>7. TypeOK'
  <2>1. << >> \in Seq(Line)
    OBVIOUS
  <2> QED
    BY <1>1, <1>6, <2>1 DEF TypeOK
<1>8. PositionInv'
  BY <1>1 DEF PositionInv
<1>9. GroupInv'
  BY <1>1, GroupFrame DEF RenderInv, Seen
<1>10. LinesInv'
  BY <1>1, LinesFrame DEF RenderInv, Written
<1>11. SizeInv'
  BY <1>1 DEF SizeInv
<1>12. PackedInOrder'
  <2>1. lines \in Seq(Line) /\ k - 1 = Len(lines)
    BY <1>1 DEF TypeOK
  <2>2. Read = lines
    <3>1. Read = SubSeq(lines, 1, k - 1)
      BY <1>1 DEF RenderInv, PackedInOrder, Pending
    <3>2. SubSeq(lines, 1, Len(lines)) = lines
      BY <2>1, SubSeqFull
    <3> QED
      BY <2>1, <3>1, <3>2, Zenon
  <2>3. PICK before : before = FlattenSeq(LinesOf(messages))
    OBVIOUS
  <2>4. /\ FlattenSeq(LinesOf(messages')) = before \o current
        /\ before \in Seq(Line)
    BY <1>3, <1>4, <1>5, <2>3, OneMessageMore, Zenon
  <2>5. (before \o current) \o << >> = before \o current
    <3>1. before \o current \in Seq(Line)
      BY <1>5, <2>4, ConcatProperties, Zenon
    <3> QED
      BY <3>1, ConcatEmptySeq, Zenon
  <2>6. Read' = Read
    BY <1>1, <2>3, <2>4, <2>5, ReadFacts, Zenon
  <2>7. Read' = lines' /\ ~Pending'
    BY <1>1, <2>2, <2>6 DEF Pending
  <2> QED
    BY <2>7, Zenon DEF PackedInOrder
<1>13. FitsTelegram'
  <2>1. \A m \in 1..Len(messages) :
          ~messages[m].cut /\ messages[m].size <= HardLimit /\ ~messages[m].footer
    BY <1>1 DEF RenderInv, FitsTelegram
  <2>2. ASSUME NEW m \in 1..Len(messages')
        PROVE  /\ ~messages'[m].cut /\ messages'[m].size <= HardLimit
               /\ messages'[m].footer <=> m = Len(messages')
    <3>1. CASE m = Len(messages) + 1
      BY <1>3, <1>6, <3>1
    <3>2. CASE m # Len(messages) + 1
      <4>1. m \in 1..Len(messages) /\ m # Len(messages')
        BY <1>5, <1>6, <3>2
      <4> QED
        BY <1>6, <2>1, <4>1, Zenon
    <3> QED
      BY <3>1, <3>2
  <2> QED
    BY <1>1, <1>6, <2>2 DEF FitsTelegram
<1> QED
  BY <1>7, <1>8, <1>9, <1>10, <1>11, <1>12, <1>13 DEF RenderInv

(***************************************************************************)
(* The theorems.                                                           *)
(***************************************************************************)

LEMMA NextRender == TypeOK /\ RenderInv /\ [Next]_vars => TypeOK' /\ RenderInv'
<1> SUFFICES ASSUME TypeOK, RenderInv, [Next]_vars PROVE TypeOK' /\ RenderInv'
  OBVIOUS
<1>1. CASE GroupItem
  BY <1>1, GroupItemInv
<1>2. CASE Grouped
  BY <1>2, GroupedInv
<1>3. CASE AddCategory
  BY <1>3, AddCategoryInv
<1>4. CASE LinesBuilt
  BY <1>4, LinesBuiltInv
<1>5. CASE PackLine
  BY <1>5, PackLineInv
<1>6. CASE Finish
  BY <1>6, FinishInv
<1>7. CASE UNCHANGED vars
  <2>1. TypeOK'
    BY <1>7 DEF TypeOK, vars
  <2>2. PositionInv' /\ SizeInv'
    BY <1>7 DEF RenderInv, PositionInv, SizeInv, Untouched, vars
  <2>3. GroupInv'
    BY <1>7, GroupFrame DEF RenderInv, Seen, vars
  <2>4. LinesInv'
    BY <1>7, LinesFrame DEF RenderInv, Written, vars
  <2>5. PackedInOrder'
    <3>1. Read' = Read
      BY <1>7, ReadFacts DEF vars
    <3> QED
      BY <1>7, <3>1 DEF RenderInv, PackedInOrder, Pending, Done, vars
  <2>6. FitsTelegram'
    BY <1>7 DEF RenderInv, FitsTelegram, Done, vars
  <2> QED
    BY <2>1, <2>2, <2>3, <2>4, <2>5, <2>6 DEF RenderInv
<1> QED
  BY <1>1, <1>2, <1>3, <1>4, <1>5, <1>6, <1>7 DEF Next

\* Posts are grouped under the heading of their category in the order of
\* capture, the lines are those of the categories written so far, and a message
\* that is being filled always has room (render.go:52-126).
THEOREM RenderInvariant == Spec => [](TypeOK /\ RenderInv)
<1> QED
  BY InitRender, NextRender, PTL DEF Spec

\* A message is a sequence of lines with a size that the limits allow
\* (render.go:103-126).
THEOREM TypeCorrect == Spec => []TypeOK
  BY RenderInvariant, PTL

\* No message is longer than Telegram takes, none is cut, and the footer is on
\* the last one only, however long the posts are (render.go:114-133).
THEOREM MessagesFit == Spec => []FitsTelegram
<1>1. RenderInv => FitsTelegram
  BY DEF RenderInv
<1> QED
  BY <1>1, RenderInvariant, PTL

\* The messages hold every line once and in order, wherever one message ends
\* and the next begins (render.go:103-126).
THEOREM PackingKeepsOrder == Spec => []PackedInOrder
<1>1. RenderInv => PackedInOrder
  BY DEF RenderInv
<1> QED
  BY <1>1, RenderInvariant, PTL

\* The reader finds each post once, below the heading of its category and in
\* the order of capture, and no heading twice (render.go:52-97).
THEOREM HeadingsHold == Spec => []UnderItsHeading
<1>1. ASSUME TypeOK, RenderInv, Done PROVE Arranged(Read, 1..Len(items))
  <2>1. Read = lines /\ pc = "done" /\ Seen = Len(items)
    BY <1>1 DEF RenderInv, PackedInOrder, Done, Seen
  <2>2. ASSUME NEW i \in 1..Len(items) PROVE Written(Heading(i))
    <3>1. Heading(i) \in Category
      BY <1>1, ItemFacts
    <3>2. group[Heading(i)] # << >>
      <4>1. PICK j \in 1..Len(group[Heading(i)]) : group[Heading(i)][j] = i
        BY <1>1, <2>1 DEF RenderInv, GroupInv
      <4> QED
        BY <4>1
    <3>3. \E j \in 1..Len(catOrder) : catOrder[j] = Heading(i)
      BY <1>1, <3>1, <3>2 DEF RenderInv, GroupInv
    <3> QED
      BY <2>1, <3>3 DEF Written
  <2>3. {i \in 1..Len(items) : Written(Heading(i))} = 1..Len(items)
    BY <2>2
  <2>4. Arranged(lines, {i \in 1..Len(items) : Written(Heading(i))})
    BY <1>1 DEF RenderInv, LinesInv
  <2> QED
    BY <2>1, <2>3, <2>4
<1>2. TypeOK /\ RenderInv => UnderItsHeading
  BY <1>1 DEF UnderItsHeading
<1> QED
  BY <1>2, RenderInvariant, PTL

=============================================================================
