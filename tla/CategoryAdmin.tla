--------------------------- MODULE CategoryAdmin ---------------------------
(***************************************************************************)
(* The categories table (internal/store/sqlite/categories.go) between the  *)
(* admin panel, the boot and a running digest cycle.                       *)
(*                                                                         *)
(* A cycle lists the categories once and works with that list: it resolves *)
(* the answers of the summarizer, the headings of the digest and the       *)
(* category of each history row with it, while the panel adds, renames and *)
(* removes rows.  The database refuses a reference to a removed row, sets  *)
(* the references to a row to NULL when it is removed, and the cycle       *)
(* ignores the errors.  Every boot inserts the shipped categories that are *)
(* missing by name.                                                        *)
(***************************************************************************)
EXTENDS Integers, FiniteSets

CONSTANTS
  Name, NoName,
  Shipped,      \* defaultCategoryNames, also the names the summarizer knows
  Label,        \* settings.uncategorized_label
  Uncategorized,\* what the summarizer answers when no name fits
  Post,
  MaxId,        \* bound: rows ever inserted
  MaxEdits,     \* bound: edits in the panel, and restarts
  MaxFailures   \* bound: failing sends

ASSUME NameAssumption ==
  /\ NoName \notin Name /\ Shipped \subseteq Name
  /\ Label \in Name /\ Uncategorized \in Name
ASSUME BoundsAssumption ==
  MaxId \in Nat /\ MaxEdits \in Nat /\ MaxFailures \in Nat

VARIABLES
  (* categories: a row per id. *)
  name,         \* the name of a row, NoName when there is no such row
  default,      \* the ids inserted with is_default = 1
  nextId,
  (* posts and digest_items. *)
  status,
  category,     \* posts.category_id, 0 for NULL
  filed,        \* digest_items.category_id, for each digest and post
  (* The process and its cycle. *)
  pc,
  known,        \* the categories as the cycle listed them
  todo,         \* received posts, then posts of the digest without a row yet
  heading,      \* the heading of each post of the digest
  try,          \* the digest of this cycle: 0 delivered, k the k-th failed one
  (* Counters and history. *)
  edits, failures,
  home,         \* the category whose heading a post was under in a digest
  pulled        \* rows removed while a cycle had them in its list

Id == 1..MaxId
NoRow == -1

\* A post is in at most one delivered digest, and in any number of failed ones.
Try == 0..MaxFailures
Entry == Try \X Post

table  == <<name, default, nextId>>
posts  == <<status, category>>
cycle  == <<pc, known, todo, heading, try>>
vars   == <<table, posts, filed, cycle, edits, failures, home, pulled>>

Statuses == {"new", "received", "summarized", "sent"}

TypeOK ==
  /\ name \in [Id -> Name \cup {NoName}] /\ default \subseteq Id
  /\ nextId \in 1..(MaxId + 1)
  /\ status \in [Post -> Statuses] /\ category \in [Post -> Id \cup {0}]
  /\ filed \in [Entry -> Id \cup {0, NoRow}]
  /\ pc \in {"seed", "idle", "summarize", "send", "record"}
  /\ known \in [Id -> Name \cup {NoName}]
  /\ todo \subseteq Post /\ heading \in [Post -> Name] /\ try \in Try
  /\ edits \in 0..MaxEdits /\ failures \in 0..MaxFailures
  /\ home \in [Entry -> Id \cup {0, NoRow}] /\ pulled \subseteq Id

NoRows == [i \in Id |-> NoName]

Init ==
  /\ name = NoRows /\ default = {} /\ nextId = 1
  /\ status = [p \in Post |-> "new"] /\ category = [p \in Post |-> 0]
  /\ filed = [e \in Entry |-> NoRow]
  /\ pc = "seed" /\ known = NoRows /\ todo = {}
  /\ heading = [p \in Post |-> Label] /\ try = 0
  /\ edits = 0 /\ failures = 0
  /\ home = [e \in Entry |-> NoRow] /\ pulled = {}

Taken(n) == \E i \in Id : name[i] = n

\* The row that a list of categories has for a name, 0 if none.
IdOf(list, n) ==
  IF \E i \in Id : list[i] = n THEN CHOOSE i \in Id : list[i] = n ELSE 0

\* INSERT fails on a name that is taken.
Insert(n) ==
  /\ ~Taken(n) /\ nextId <= MaxId
  /\ name' = [name EXCEPT ![nextId] = n]
  /\ nextId' = nextId + 1

----------------------------------------------------------------------------
(* The boot: seedDefaults and EnsureDefaults. *)

Missing == {n \in Shipped : ~Taken(n)}

Seed(n) ==
  /\ pc = "seed" /\ n \in Missing
  /\ Insert(n)
  /\ default' = default \cup {nextId}
  /\ UNCHANGED <<posts, filed, cycle, edits, failures, home, pulled>>

Seeded ==
  /\ pc = "seed" /\ Missing = {}
  /\ pc' = "idle"
  /\ UNCHANGED <<table, posts, filed, known, todo, heading, try, edits,
                 failures, home, pulled>>

----------------------------------------------------------------------------
(* The panel. *)

Edit == pc # "seed" /\ edits < MaxEdits /\ edits' = edits + 1

Add(n) ==
  /\ Edit /\ Insert(n)
  /\ UNCHANGED <<default, posts, filed, cycle, failures, home, pulled>>

Rename(i, n) ==
  /\ Edit
  /\ name[i] # NoName /\ ~Taken(n)
  /\ name' = [name EXCEPT ![i] = n]
  /\ UNCHANGED <<default, nextId, posts, filed, cycle, failures, home, pulled>>

\* ON DELETE SET NULL
Nulled(refs, i) == [r \in DOMAIN refs |-> IF refs[r] = i THEN 0 ELSE refs[r]]

Remove_KeepsReferences(i) ==
  /\ Edit
  /\ name[i] # NoName /\ i \notin default
  /\ name' = [name EXCEPT ![i] = NoName]
  /\ pulled' = IF pc = "idle" THEN pulled ELSE pulled \cup {i}
  /\ UNCHANGED <<default, nextId, posts, filed, cycle, failures, home>>
Remove(i) ==
  /\ Edit
  /\ name[i] # NoName /\ i \notin default
  /\ name' = [name EXCEPT ![i] = NoName]
  /\ category' = Nulled(category, i) /\ filed' = Nulled(filed, i)
  /\ pulled' = IF pc = "idle" THEN pulled ELSE pulled \cup {i}
  /\ UNCHANGED <<default, nextId, status, cycle, failures, home>>

----------------------------------------------------------------------------
(* The cycle. *)

Having(s) == {p \in Post : status[p] = s}

\* New posts are captured, the categories and the received posts are listed.
StartCycle ==
  /\ pc = "idle"
  /\ \E captured \in SUBSET Having("new") :
       /\ status' = [p \in Post |-> IF p \in captured THEN "received"
                                    ELSE status[p]]
       /\ todo' = Having("received") \cup captured
  /\ known' = name
  /\ pc' = "summarize"
  /\ UNCHANGED <<table, category, filed, heading, try, edits, failures, home,
                 pulled>>

\* A row that references the category i can be written.
Writable(i) == i = 0 \/ name[i] # NoName

\* The names a parsed answer can have: those the client was given at boot, and
\* the name it has for none.  For any other name parseResponse returns an error.
Answers == Shipped \cup {Uncategorized}

\* The row of the list for an answer; a name that is not in the list is replaced
\* by the label of the settings, which may be the name of a row, too.
Resolved(n) == IF \E i \in Id : known[i] = n THEN IdOf(known, n)
               ELSE IdOf(known, Label)

\* MarkSummarized stores the row of the answer, and none for an error.  The post
\* stays received when that row is gone.
Summarize(p) ==
  /\ pc = "summarize" /\ p \in todo
  /\ todo' = todo \ {p}
  /\ \E i \in {Resolved(n) : n \in Answers} \cup {0} :
       IF Writable(i)
       THEN /\ status' = [status EXCEPT ![p] = "summarized"]
            /\ category' = [category EXCEPT ![p] = i]
       ELSE UNCHANGED posts
  /\ UNCHANGED <<table, filed, pc, known, heading, try, edits, failures,
                 home, pulled>>

\* The heading of a post of category i: the name in the list, or the label.
HeadingOf(i) == IF i # 0 /\ known[i] # NoName THEN known[i] ELSE Label

\* ListUnsent; without any post the cycle is skipped.
Bundled_WithCategory == {p \in Having("summarized") : category[p] # 0}
Bundled == Having("summarized")

\* Run returns; its locals are gone.
Return ==
  /\ pc' = "idle" /\ known' = NoRows /\ todo' = {} /\ try' = 0
  /\ heading' = [p \in Post |-> Label]

Bundle ==
  /\ pc = "summarize" /\ todo = {}
  /\ IF Bundled = {}
     THEN Return
     ELSE /\ pc' = "send" /\ todo' = Bundled
          /\ heading' = [p \in Post |-> HeadingOf(category[p])]
          /\ UNCHANGED <<known, try>>
  /\ UNCHANGED <<table, posts, filed, edits, failures, home, pulled>>

\* The categories of the headings of the digest t, whose posts are todo.
Headed(t) == [e \in Entry |-> IF e[1] = t /\ e[2] \in todo
                              THEN IdOf(known, heading[e[2]]) ELSE home[e]]

\* The digest is sent and its posts are marked; or it fails, and a later cycle
\* takes them again.  The digest gets its row and its items in both cases.
Send ==
  /\ pc = "send"
  /\ status' = [p \in Post |-> IF p \in todo THEN "sent" ELSE status[p]]
  /\ try' = 0 /\ home' = Headed(0)
  /\ pc' = "record"
  /\ UNCHANGED <<table, category, filed, known, todo, heading, edits, failures,
                 pulled>>

SendFails ==
  /\ pc = "send" /\ failures < MaxFailures
  /\ failures' = failures + 1
  /\ try' = failures + 1 /\ home' = Headed(failures + 1)
  /\ pc' = "record"
  /\ UNCHANGED <<table, posts, filed, known, todo, heading, edits, pulled>>

\* AddItem; its error is ignored.
FiledUnder_Current(p) == IdOf(name, heading[p])
FiledUnder(p) == IdOf(known, heading[p])

AddItem_Categorized(p) ==
  /\ pc = "record" /\ p \in todo
  /\ todo' = todo \ {p}
  /\ filed' = IF FiledUnder(p) # 0 /\ Writable(FiledUnder(p))
              THEN [filed EXCEPT ![<<try, p>>] = FiledUnder(p)] ELSE filed
  /\ UNCHANGED <<table, posts, pc, known, heading, try, edits, failures,
                 home, pulled>>
AddItem(p) ==
  /\ pc = "record" /\ p \in todo
  /\ todo' = todo \ {p}
  /\ filed' = IF Writable(FiledUnder(p))
              THEN [filed EXCEPT ![<<try, p>>] = FiledUnder(p)] ELSE filed
  /\ UNCHANGED <<table, posts, pc, known, heading, try, edits, failures,
                 home, pulled>>

Finish ==
  /\ pc = "record" /\ todo = {}
  /\ Return
  /\ UNCHANGED <<table, posts, filed, edits, failures, home, pulled>>

----------------------------------------------------------------------------

\* Between two cycles; DigestCycle has the restarts in the middle of one.
Restart ==
  /\ pc = "idle" /\ Edit
  /\ pc' = "seed"
  /\ UNCHANGED <<table, posts, filed, known, todo, heading, try, failures, home,
                 pulled>>

CycleStep ==
  \/ \E p \in Post : Summarize(p) \/ AddItem(p)
  \/ StartCycle \/ Bundle \/ Send \/ SendFails \/ Finish

Panel ==
  \/ \E n \in Name : Add(n)
  \/ \E i \in Id : Remove(i) \/ \E n \in Name : Rename(i, n)

Boot == Seeded \/ \E n \in Shipped : Seed(n)

Next == CycleStep \/ Panel \/ Boot \/ Restart

Spec == Init /\ [][Next]_vars

\* The boot and the goroutine of the cycle run; the scheduler fires again.
FairSpec == Spec /\ WF_vars(Boot) /\ WF_vars(CycleStep)

----------------------------------------------------------------------------
(* Properties. *)

\* Names stay unique, and nothing refers to a row that is gone, although the
\* cycle writes references out of an old list.
References ==
  /\ \A i, j \in Id : name[i] = name[j] /\ name[i] # NoName => i = j
  /\ \A p \in Post : Writable(category[p])
  /\ \A e \in Entry : filed[e] # NoRow => Writable(filed[e])

\* The history files a post of a digest, delivered or failed, under the category
\* of its heading there, or under none once that category is removed, even when
\* another one took its name in the meantime.
FiledAsDelivered ==
  \A e \in Entry : filed[e] \in {NoRow, 0, home[e]}

\* The item of this post is still to be written.
Unwritten(e) == pc = "record" /\ e[1] = try /\ e[2] \in todo

\* FR-014, as far as it holds: a post of a digest, delivered or failed, is
\* missing from the history only if its category was removed while the cycle
\* ran; and every delivered post is in a digest.
MissingOnlyIfPulled ==
  /\ \A e \in Entry : home[e] # NoRow /\ ~Unwritten(e) =>
       filed[e] # NoRow \/ home[e] \in pulled
  /\ \A p \in Post : status[p] = "sent" => home[<<0, p>>] # NoRow

\* The inductive strengthening: what the cycle works on, which posts the digests
\* have, and what the list of the cycle still stands for.
WorkInv ==
  /\ pc = "summarize" => todo \subseteq Having("received")
  /\ pc = "send" => todo \subseteq Having("summarized")
  /\ pc = "record" => \A p \in todo : /\ filed[<<try, p>>] = NoRow
                                      /\ home[<<try, p>>] = FiledUnder(p)

EntryInv ==
  /\ \A e \in Entry : filed[e] # NoRow => home[e] # NoRow
  /\ \A e \in Entry : home[e] # NoRow =>
       /\ e[1] <= failures
       /\ status[e[2]] \in {"summarized", "sent"}
       /\ e[1] = 0 => status[e[2]] = "sent"

SnapshotInv ==
  pc \in {"summarize", "send", "record"} =>
    \A i \in Id : known[i] # NoName => name[i] # NoName \/ i \in pulled

CategoryInv ==
  /\ References /\ FiledAsDelivered /\ MissingOnlyIfPulled
  /\ WorkInv /\ EntryInv /\ SnapshotInv

\* A shipped category is never removed.
DefaultsStay == [][ \A i \in default : name'[i] # NoName ]_vars

\* Removing categories delays a post, and delays it only: it is summarized
\* again and delivered.
EveryPostDelivered ==
  \A p \in Post : status[p] = "received" ~> status[p] = "sent"

=============================================================================
