------------------------------- MODULE Render -------------------------------
(***************************************************************************)
(* Render (internal/digest/render.go): the posts of a digest become one or *)
(* more Telegram messages.                                                 *)
(*                                                                         *)
(* Posts are grouped under the heading of their category, in the order in  *)
(* which categories first appear, and the lines are packed greedily.  Of a *)
(* text the model keeps its length in characters: the limits of Telegram   *)
(* and of the renderer count those.                                        *)
(***************************************************************************)
EXTENDS Integers, SequencesExt

CONSTANTS
  Category, NoCategory,
  Uncategorized,        \* the label for posts without a category name
  MaxItems,             \* bound: posts of a digest
  Lengths,              \* lengths that a cleaned summary may have
  MaxSummary,           \* maxSummaryRunes, 280
  Frame,                \* bullet, media label and handle of an item line
  HeadingSize, HeaderSize, ContinuedSize, FooterSize,
  SingleLimit,          \* singleItemLimit, 3500
  SoftLimit,            \* telegramSoftLimit, 3900
  HardLimit             \* telegramHardLimit, 4096

ASSUME CategoryAssumption ==
  NoCategory \notin Category /\ Uncategorized \in Category
ASSUME SizesAssumption ==
  /\ Lengths \subseteq Nat /\ MaxItems \in Nat
  /\ MaxSummary \in Nat /\ Frame \in Nat /\ HeadingSize \in Nat \ {0}
  /\ HeaderSize \in Nat /\ ContinuedSize \in Nat /\ FooterSize \in Nat
  /\ SingleLimit \in Nat /\ SoftLimit \in Nat /\ HardLimit \in Nat
  /\ Frame > 0
\* Of the limits in the code: headroom for the footer, and for one line that
\* was cut to the limit for one item.
ASSUME LimitsAssumption ==
  /\ SoftLimit + 1 + FooterSize <= HardLimit
  /\ HeaderSize + 2 + SingleLimit + 1 <= SoftLimit
  /\ ContinuedSize + 2 + SingleLimit + 1 <= SoftLimit

VARIABLES
  items,        \* in.Items: the category, the length of the summary, and
                \* whether its characters need escaping
  pc, k,        \* the loop that runs, and its position
  group,        \* cats: per category its items, by position
  catOrder,
  lines,
  messages,     \* closed messages: their lines and their size
  current, size \* the message being filled

vars == <<items, pc, k, group, catOrder, lines, messages, current, size>>

Item == [cat : Category \cup {NoCategory}, len : Lengths, special : BOOLEAN]
Line ==
  [kind : {"heading"}, cat : Category] \cup
  [kind : {"item"}, item : 1..MaxItems] \cup [kind : {"blank"}]
Message == [lines : Seq(Line), size : Nat, footer : BOOLEAN, cut : BOOLEAN]

TypeOK ==
  /\ items \in Seq(Item) /\ Len(items) <= MaxItems
  /\ pc \in {"group", "lines", "pack", "done"} /\ k \in Nat
  /\ group \in [Category -> Seq(1..MaxItems)]
  /\ catOrder \in Seq(Category) /\ lines \in Seq(Line)
  /\ messages \in Seq(Message)
  /\ current \in Seq(Line) /\ size \in 0..SoftLimit

Init ==
  /\ \E n \in 0..MaxItems : items \in [1..n -> Item]
  /\ pc = IF items = <<>> THEN "done" ELSE "group"
  /\ k = 1 /\ group = [c \in Category |-> <<>>] /\ catOrder = <<>>
  /\ lines = <<>> /\ messages = <<>>
  /\ current = <<>> /\ size = HeaderSize + 2

----------------------------------------------------------------------------
(* Grouping. *)

Heading(i) == IF items[i].cat = NoCategory THEN Uncategorized ELSE items[i].cat

GroupItem_Unlabelled ==
  /\ pc = "group" /\ k <= Len(items)
  /\ IF items[k].cat = NoCategory THEN UNCHANGED <<group, catOrder>>
     ELSE /\ group' = [group EXCEPT ![Heading(k)] = Append(@, k)]
          /\ catOrder' = IF group[Heading(k)] = <<>>
                         THEN Append(catOrder, Heading(k)) ELSE catOrder
  /\ k' = k + 1
  /\ UNCHANGED <<items, pc, lines, messages, current, size>>
GroupItem ==
  /\ pc = "group" /\ k <= Len(items)
  /\ group' = [group EXCEPT ![Heading(k)] = Append(@, k)]
  /\ catOrder' = IF group[Heading(k)] = <<>> THEN Append(catOrder, Heading(k))
                 ELSE catOrder
  /\ k' = k + 1
  /\ UNCHANGED <<items, pc, lines, messages, current, size>>

Grouped ==
  /\ pc = "group" /\ k > Len(items)
  /\ pc' = "lines" /\ k' = 1
  /\ UNCHANGED <<items, group, catOrder, lines, messages, current, size>>

HeadingLine(c) == [kind |-> "heading", cat |-> c]
ItemLine(i)    == [kind |-> "item", item |-> i]
Blank          == [kind |-> "blank"]

ItemLines(c) == [j \in 1..Len(group[c]) |-> ItemLine(group[c][j])]

\* The heading and the items of a category; a blank line between categories.
AddCategory ==
  /\ pc = "lines" /\ k <= Len(catOrder)
  /\ lines' = lines \o (<<HeadingLine(catOrder[k])>> \o ItemLines(catOrder[k])
                           \o IF k < Len(catOrder) THEN <<Blank>> ELSE <<>>)
  /\ k' = k + 1
  /\ UNCHANGED <<items, pc, group, catOrder, messages, current, size>>

LinesBuilt ==
  /\ pc = "lines" /\ k > Len(catOrder)
  /\ pc' = "pack" /\ k' = 1
  /\ UNCHANGED <<items, group, catOrder, lines, messages, current, size>>

----------------------------------------------------------------------------
(* Packing. *)

AtMost(a, b) == IF a <= b THEN a ELSE b

\* cleanSummary cuts the summary before it is escaped, which writes two
\* characters for one.
Escaped(n, special) == IF special THEN 2 * n ELSE n
SummarySize(i) == Escaped(AtMost(items[i].len, MaxSummary), items[i].special)

LineSize(ln) ==
  CASE ln.kind = "heading" -> HeadingSize
    [] ln.kind = "item"    -> SummarySize(ln.item) + Frame
    [] ln.kind = "blank"   -> 0

\* With its newline; a line over the limit for one item is cut (with the
\* limits of the code no line is, those of the instance are smaller).
PieceSize(ln) == AtMost(LineSize(ln), SingleLimit) + 1

\* The message being filled is still its header only, the one of the first
\* message.
Untouched == messages = <<>> /\ current = <<>>

Full_WithoutNewline(ln) == size + LineSize(ln) > SoftLimit /\ ~Untouched
Full(ln) == size + PieceSize(ln) > SoftLimit /\ ~Untouched

\* TrimRight of the newlines that a message ends with.
EndsBlank == current # <<>> /\ Last(current) = Blank
TrimmedSize == IF EndsBlank THEN size - 2 ELSE size - 1

Closed ==
  [lines |-> current, size |-> TrimmedSize, footer |-> FALSE, cut |-> FALSE]

PackLine_DropsLine ==
  /\ pc = "pack" /\ k <= Len(lines)
  /\ IF Full(lines[k])
     THEN /\ messages' = Append(messages, Closed)
          /\ current' = <<>> /\ size' = ContinuedSize + 2
     ELSE /\ messages' = messages
          /\ current' = Append(current, lines[k])
          /\ size' = size + PieceSize(lines[k])
  /\ k' = k + 1
  /\ UNCHANGED <<items, pc, group, catOrder, lines>>
PackLine ==
  /\ pc = "pack" /\ k <= Len(lines)
  /\ IF Full(lines[k])
     THEN /\ messages' = Append(messages, Closed)
          /\ current' = <<lines[k]>>
          /\ size' = ContinuedSize + 2 + PieceSize(lines[k])
     ELSE /\ messages' = messages
          /\ current' = Append(current, lines[k])
          /\ size' = size + PieceSize(lines[k])
  /\ k' = k + 1
  /\ UNCHANGED <<items, pc, group, catOrder, lines>>

\* The footer ends the last message, and no message is longer than Telegram
\* takes.
Footed(n) ==
  [lines |-> current, size |-> AtMost(n, HardLimit), footer |-> TRUE,
   cut |-> n > HardLimit]

Finish ==
  /\ pc = "pack" /\ k > Len(lines)
  /\ messages' = Append(messages, Footed(size + 1 + FooterSize))
  /\ current' = <<>> /\ pc' = "done"
  /\ UNCHANGED <<items, k, group, catOrder, lines, size>>

Next == GroupItem \/ Grouped \/ AddCategory \/ LinesBuilt \/ PackLine \/ Finish

Spec == Init /\ [][Next]_vars

----------------------------------------------------------------------------
(* Properties. *)

Pending == pc = "pack"
Done    == pc = "done" /\ items # <<>>

\* The lines as the subscriber reads them, message after message.
Read ==
  FlattenSeq([m \in 1..Len(messages) |-> messages[m].lines]) \o current

\* While the lines are packed, the messages hold what was packed so far: no
\* line is lost, doubled or moved where one message ends and the next begins
\* (render.go:103-126).
PackedInOrder ==
  /\ Pending => Read = SubSeq(lines, 1, k - 1)
  /\ Done => Read = lines

\* A sequence of lines shows each of the posts I once, below the heading of its
\* category and after the earlier posts of it, and repeats no heading.
Arranged(s, I) ==
  /\ \A i \in I :
       \E p \in 1..Len(s) :
          /\ s[p] = ItemLine(i)
          /\ \A q \in 1..Len(s) \ {p} : s[q] # ItemLine(i)
          /\ \E h \in 1..p - 1 :
               /\ s[h] = HeadingLine(Heading(i))
               /\ \A q \in h + 1..p - 1 :
                    /\ s[q].kind = "item"
                    /\ Heading(s[q].item) = Heading(i) /\ s[q].item < i
  /\ \A p, q \in 1..Len(s) :
       s[p].kind = "heading" /\ s[p] = s[q] => p = q

\* In the order the reader sees them, each post of the digest appears once,
\* below the heading of its own category and not below a later one, also when
\* the category goes on in the next message; posts of a category keep the order
\* they were captured in, and no heading is repeated (render.go:52-97 and the
\* packing; cycle.go:273 hands over the label for posts without a category).
UnderItsHeading == Done => Arranged(Read, 1..Len(items))

\* What the hard limit is for never happens: packing to the soft limit leaves
\* room for the footer, so that Telegram takes every message and none loses
\* its end; the footer is on the last message and on no other
\* (render.go:32-39, 114-133; contracts/telegram-render.md:67, 72).
FitsTelegram ==
  /\ \A m \in 1..Len(messages) :
       /\ ~messages[m].cut /\ messages[m].size <= HardLimit
       /\ messages[m].footer <=> pc = "done" /\ m = Len(messages)
  /\ Done => messages # <<>>

(* The inductive strengthening of these properties. *)

PositionInv ==
  /\ pc = "group" => k \in 1..Len(items) + 1
  /\ pc = "lines" => k \in 1..Len(catOrder) + 1
  /\ pc = "pack" => k \in 1..Len(lines) + 1

\* The posts that were grouped, and the categories whose lines were written.
Seen == IF pc = "group" THEN k - 1 ELSE Len(items)

Written(c) ==
  \E j \in 1..Len(catOrder) :
     catOrder[j] = c /\ pc # "group" /\ (pc = "lines" => j < k)

\* Every post is in the group of its heading, in the order of capture, and the
\* order of the categories has each category with a post once.
GroupInv ==
  /\ \A c \in Category : \A j \in 1..Len(group[c]) :
       /\ group[c][j] \in 1..Seen /\ Heading(group[c][j]) = c
       /\ \A i \in 1..j - 1 : group[c][i] < group[c][j]
  /\ \A i \in 1..Seen :
       \E j \in 1..Len(group[Heading(i)]) : group[Heading(i)][j] = i
  /\ \A c \in Category :
       group[c] # <<>> <=> \E j \in 1..Len(catOrder) : catOrder[j] = c
  /\ \A i, j \in 1..Len(catOrder) : catOrder[i] = catOrder[j] => i = j

\* The lines have the posts of the categories that were written, and no other.
LinesInv ==
  /\ Arranged(lines, {i \in 1..Len(items) : Written(Heading(i))})
  /\ \A p \in 1..Len(lines) :
       /\ lines[p].kind = "item" =>
            lines[p].item \in 1..Len(items) /\ Written(Heading(lines[p].item))
       /\ lines[p].kind = "heading" => Written(lines[p].cat)

\* A message always has its header, and the first line always fits below it.
SizeInv ==
  /\ pc \in {"group", "lines"} => messages = <<>> /\ current = <<>>
  /\ pc # "done" => size >= 2 /\ (Untouched => size = HeaderSize + 2)

RenderInv ==
  /\ PositionInv /\ GroupInv /\ LinesInv /\ SizeInv
  /\ PackedInOrder /\ FitsTelegram

=============================================================================
