------------------------------ MODULE History ------------------------------
(***************************************************************************)
(* The page of one cycle (GET /api/cycles/{id},                            *)
(* internal/adminapi/history.go) over the categories of CategoryAdmin.     *)
(*                                                                         *)
(* The handler reads the row of the cycle, then the items of its digest,   *)
(* then the categories, each in a statement of its own and without a       *)
(* transaction, while the cycle may still be adding items and the panel    *)
(* edits the categories.  It writes nothing: every step of CategoryAdmin   *)
(* leaves the view alone, and every read leaves CategoryAdmin alone.  The  *)
(* cycles asked for are those with a digest, delivered or failed: both     *)
(* have a row in digests and their items.  A cycle without a digest is     *)
(* answered with 410 and shows no item.                                    *)
(***************************************************************************)
EXTENDS CategoryAdmin, Sequences

CONSTANT MaxViews   \* bound: pages opened

ASSUME MaxViewsAssumption == MaxViews \in Nat

VARIABLES
  latest,   \* the entries of the newest digest
  view,     \* the request in progress
  views     \* pages opened so far

hvars == <<vars, latest, view, views>>

Unread == [e \in Entry |-> NoRow]

\* at: the next statement, 0 without a request; digest: the entries of the cycle
\* asked for; finished: the status read; rows: the items read.
NoView == [at |-> 0, digest |-> {}, finished |-> FALSE, rows |-> Unread]

ViewTypeOK ==
  /\ latest \subseteq Entry /\ views \in 0..MaxViews
  /\ view \in [at : 0..3, digest : SUBSET Entry, finished : BOOLEAN,
               rows : [Entry -> Id \cup {0, NoRow}]]

HInit == Init /\ latest = {} /\ view = NoView /\ views = 0

----------------------------------------------------------------------------

\* The order in which handleGetCycle and buildItemsByCategory read.
Reads_ItemsFirst == <<"items", "cycle", "categories">>
Reads == <<"cycle", "items", "categories">>

At(read) == view.at \in DOMAIN Reads /\ Reads[view.at] = read

Open ==
  /\ view = NoView /\ views < MaxViews /\ latest # {}
  /\ views' = views + 1
  /\ view' = [NoView EXCEPT !.at = 1, !.digest = latest]

\* The row is pending until finishCycle, which follows the last AddItem.
Pending == pc = "record" /\ view.digest = latest

GetCycle ==
  /\ At("cycle")
  /\ view' = [view EXCEPT !.at = @ + 1, !.finished = ~Pending]
  /\ UNCHANGED views

ListItems ==
  /\ At("items")
  /\ view' = [view EXCEPT !.at = @ + 1,
                !.rows = [e \in Entry |-> IF e \in view.digest THEN filed[e]
                                          ELSE NoRow]]
  /\ UNCHANGED views

\* The categories are listed and the items grouped under their names.
Reply == At("categories") /\ view' = NoView /\ UNCHANGED views

View == Open \/ GetCycle \/ ListItems \/ Reply

HNext ==
  \/ View /\ UNCHANGED <<vars, latest>>
  \/ /\ Next
     /\ latest' = IF pc = "send" /\ pc' = "record" THEN {try'} \X todo
                ELSE latest
     /\ UNCHANGED <<view, views>>

HSpec == HInit /\ [][HNext]_hvars

----------------------------------------------------------------------------
(* Properties. *)

\* The group the page puts an item in: the name of its row, NoName when that
\* row was removed after the second read, and for an item without a category a
\* group of the handler's own, whatever the label in the settings is.
Group(e) == IF view.rows[e] = 0 THEN Uncategorized ELSE name[view.rows[e]]

\* A page that says the cycle is over shows its whole digest, whether it was
\* delivered or failed, up to the posts whose history row was lost: the status
\* is read first, and written last.
FinishedPageIsComplete ==
  At("categories") /\ view.finished =>
    \A e \in view.digest : view.rows[e] # NoRow \/ home[e] \in pulled

\* The page groups a post under the present name of the category whose heading
\* it had in the digest, also after names have moved between rows, and as
\* uncategorized only if there is no such category or no longer.
GroupedAsDelivered ==
  At("categories") =>
    \A e \in view.digest : view.rows[e] # NoRow =>
      \/ home[e] # 0 /\ Group(e) = name[home[e]]
      \/ Group(e) = Uncategorized /\ (home[e] = 0 \/ name[home[e]] = NoName)

\* The queue page and the history pages never name two categories for a post:
\* its row and its items refer to one, unless one of them refers to none.
PagesAgree ==
  \A e \in Entry :
    filed[e] \in Id /\ category[e[2]] # 0 => filed[e] = category[e[2]]

(* The inductive strengthening of these properties. *)

\* A row that is gone does not come back: ids are given out in order.
IdsInv ==
  /\ \A i \in Id : name[i] # NoName \/ known[i] # NoName => i < nextId
  /\ \A e \in Entry : home[e] < nextId

\* An item without a category had none, or lost it with the row.
GoneInv ==
  \A e \in Entry : filed[e] = 0 => home[e] = 0 \/ name[home[e]] = NoName

\* The list of a cycle knows the category of every post, by a name of its own.
ListInv == pc \in {"summarize", "send", "record"} =>
  /\ \A i, j \in Id : known[i] = known[j] /\ known[i] # NoName => i = j
  /\ \A p \in Post : category[p] # 0 => known[category[p]] # NoName
  /\ pc # "summarize" =>
       \A p \in todo : category[p] # 0 => FiledUnder(p) = category[p]

PageInv == IdsInv /\ GoneInv /\ ListInv /\ PagesAgree

\* The digest on the page went out or failed, and a cycle that still adds items
\* adds them to the newest digest.
DigestInv ==
  /\ \A e \in latest \cup view.digest : home[e] # NoRow
  /\ pc = "record" => {try} \X todo \subseteq latest
  /\ view.digest = latest \/ view.digest \cap latest = {}

\* What was read stays true of the rows as they are now.
ReadInv ==
  /\ view.finished =>
       \A e \in view.digest : filed[e] # NoRow \/ home[e] \in pulled
  /\ At("categories") => \A e \in Entry :
       /\ view.finished /\ e \in view.digest =>
            view.rows[e] # NoRow \/ home[e] \in pulled
       /\ view.rows[e] # NoRow =>
            e \in view.digest /\ view.rows[e] \in {0, home[e]}
       /\ view.rows[e] = 0 => home[e] = 0 \/ name[home[e]] = NoName

HistoryInv == PageInv /\ DigestInv /\ ReadInv

=============================================================================
