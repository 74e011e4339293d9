------------------------ MODULE CategoryAdminProofs ------------------------
(***************************************************************************)
(* Proofs about CategoryAdmin: references stay valid, and the history is   *)
(* filed as it was delivered, complete but for categories that were        *)
(* removed in the middle of a cycle.  Proofs about History: the page of a  *)
(* cycle says so too, although it is put together from three reads.        *)
(***************************************************************************)
EXTENDS History, TLAPS

\* IdOf returns a row of the list with that name, or 0 if there is none.
LEMMA IdOfSpec ==
  ASSUME NEW list, NEW n
  PROVE  /\ IdOf(list, n) \in Id \cup {0}
         /\ IdOf(list, n) # 0 => /\ IdOf(list, n) \in Id
                                 /\ list[IdOf(list, n)] = n
<1>1. CASE \E i \in Id : list[i] = n
  <2>1. IdOf(list, n) = CHOOSE i \in Id : list[i] = n
    BY <1>1, Zenon DEF IdOf
  <2>2. IdOf(list, n) \in Id /\ list[IdOf(list, n)] = n
    BY <1>1, <2>1, Zenon
  <2> QED
    BY <2>2, Zenon
<1>2. CASE ~ \E i \in Id : list[i] = n
  <2>1. IdOf(list, n) = 0
    BY <1>2, Zenon DEF IdOf
  <2> QED
    BY <2>1, Zenon
<1> QED
  BY <1>1, <1>2, Zenon

LEMMA IdFacts == 0 \notin Id /\ NoRow \notin Id /\ NoRow # 0
  BY SMT DEF Id, NoRow

\* An entry is a digest and a post of it.
LEMMA EntryFacts ==
  /\ \A t \in Try, p \in Post :
       <<t, p>> \in Entry /\ <<t, p>>[1] = t /\ <<t, p>>[2] = p
  /\ \A e \in Entry : e[1] \in Try /\ e[2] \in Post /\ e = <<e[1], e[2]>>
  BY DEF Entry

LEMMA TryFacts ==
  /\ 0 \in Try
  /\ \A t \in Try : t \in Nat
  /\ \A k \in 0..MaxFailures : k < MaxFailures => k + 1 \in Try /\ k + 1 # 0
  BY BoundsAssumption, SMT DEF Try

\* The answer of the summarizer resolves to a row of the list, or to none.
LEMMA ResolvedSpec ==
  ASSUME NEW n \in Answers
  PROVE  /\ Resolved(n) \in Id \cup {0}
         /\ Resolved(n) # 0 => known[Resolved(n)] # NoName
<1>1. n # NoName /\ Label # NoName
  BY NameAssumption, Zenon DEF Answers
<1>2. Resolved(n) = IdOf(known, n) \/ Resolved(n) = IdOf(known, Label)
  BY Zenon DEF Resolved
<1>3. CASE Resolved(n) = IdOf(known, n)
  BY <1>1, <1>3, IdOfSpec, Zenon
<1>4. CASE Resolved(n) = IdOf(known, Label)
  BY <1>1, <1>4, IdOfSpec, Zenon
<1> QED
  BY <1>2, <1>3, <1>4, Zenon

----------------------------------------------------------------------------
(* Type correctness. *)

LEMMA ReturnType ==
  ASSUME Return
  PROVE  /\ pc' = "idle" /\ todo' \subseteq Post /\ try' \in Try
         /\ known' \in [Id -> Name \cup {NoName}] /\ heading' \in [Post -> Name]
  BY NameAssumption, TryFacts, Zenon DEF Return, NoRows

LEMMA HeadedType ==
  ASSUME TypeOK, NEW t
  PROVE  Headed(t) \in [Entry -> Id \cup {0, NoRow}]
<1>1. \A e \in Entry : IdOf(known, heading[e[2]]) \in Id \cup {0}
  BY IdOfSpec, Zenon
<1> QED
  BY <1>1, Zenon DEF Headed, TypeOK

\* Every value stays in its range.
THEOREM TypeCorrect == Spec => []TypeOK
<1>1. Init => TypeOK
  BY BoundsAssumption, NameAssumption, TryFacts, SMT
     DEF Init, TypeOK, Id, NoRow, NoRows, Statuses
<1>2. TypeOK /\ [Next]_vars => TypeOK'
  <2> SUFFICES ASSUME TypeOK, [Next]_vars PROVE TypeOK'
    OBVIOUS
  <2> USE DEF TypeOK
  <2>1. ASSUME NEW n \in Shipped, Seed(n) PROVE TypeOK'
    BY <2>1, NameAssumption, BoundsAssumption, SMT
       DEF Seed, Insert, Missing, posts, cycle, Id
  <2>2. CASE Seeded
    BY <2>2, Zenon DEF Seeded, table, posts
  <2>3. ASSUME NEW n \in Name, Add(n) PROVE TypeOK'
    BY <2>3, BoundsAssumption, SMT DEF Add, Edit, Insert, posts, cycle, Id
  <2>4. ASSUME NEW i \in Id, NEW n \in Name, Rename(i, n) PROVE TypeOK'
    BY <2>4, BoundsAssumption, SMT DEF Rename, Edit, posts, cycle
  <2>5. ASSUME NEW i \in Id, Remove(i) PROVE TypeOK'
    <3>1. /\ category' \in [Post -> Id \cup {0}]
          /\ filed' \in [Entry -> Id \cup {0, NoRow}]
      BY <2>5, Zenon DEF Remove, Nulled
    <3>2. name' \in [Id -> Name \cup {NoName}] /\ pulled' \subseteq Id
      BY <2>5, Zenon DEF Remove
    <3>3. edits' \in 0..MaxEdits
      BY <2>5, BoundsAssumption, SMT DEF Remove, Edit
    <3> QED
      BY <2>5, <3>1, <3>2, <3>3, Zenon DEF Remove, cycle
  <2>6. CASE StartCycle
    <3>1. todo' \subseteq Post /\ status' \in [Post -> Statuses]
      BY <2>6, Zenon DEF StartCycle, Having, Statuses
    <3> QED
      BY <2>6, <3>1, Zenon DEF StartCycle, table
  <2>7. ASSUME NEW p \in Post, Summarize(p) PROVE TypeOK'
    <3>1. PICK i \in {Resolved(n) : n \in Answers} \cup {0} :
            IF Writable(i)
            THEN /\ status' = [status EXCEPT ![p] = "summarized"]
                 /\ category' = [category EXCEPT ![p] = i]
            ELSE UNCHANGED posts
      BY <2>7, Zenon DEF Summarize
    <3>2. i \in Id \cup {0}
      <4>1. CASE i = 0
        BY <4>1, Zenon
      <4>2. ASSUME NEW n \in Answers, i = Resolved(n) PROVE i \in Id \cup {0}
        BY <4>2, ResolvedSpec, Zenon
      <4> QED
        BY <3>1, <4>1, <4>2, Zenon
    <3>3. status' \in [Post -> Statuses] /\ category' \in [Post -> Id \cup {0}]
      BY <3>1, <3>2, Zenon DEF posts, Statuses
    <3>4. todo' \subseteq Post
      BY <2>7, Zenon DEF Summarize
    <3> QED
      BY <2>7, <3>3, <3>4, Zenon DEF Summarize, table
  <2>8. CASE Bundle
    <3>1. CASE Return
      BY <2>8, <3>1, ReturnType, Zenon DEF Bundle, table, posts
    <3>2. CASE ~Return
      <4>1. heading' \in [Post -> Name]
        BY <2>8, <3>2, NameAssumption, SMT DEF Bundle, HeadingOf
      <4>2. todo' \subseteq Post
        BY <2>8, <3>2, Zenon DEF Bundle, Bundled, Having
      <4> QED
        BY <2>8, <3>2, <4>1, <4>2, Zenon DEF Bundle, table, posts
    <3> QED
      BY <3>1, <3>2
  <2>9. CASE Send
    <3>1. home' \in [Entry -> Id \cup {0, NoRow}]
      BY <2>9, HeadedType DEF Send
    <3>2. status' \in [Post -> Statuses]
      BY <2>9, Zenon DEF Send, Statuses
    <3> QED
      BY <2>9, <3>1, <3>2, TryFacts, Zenon DEF Send, table
  <2>10. CASE SendFails
    <3>1. home' \in [Entry -> Id \cup {0, NoRow}]
      BY <2>10, HeadedType DEF SendFails
    <3>2. try' \in Try /\ failures' \in 0..MaxFailures
      BY <2>10, TryFacts, BoundsAssumption, SMT DEF SendFails
    <3> QED
      BY <2>10, <3>1, <3>2, Zenon DEF SendFails, table, posts
  <2>11. ASSUME NEW p \in Post, AddItem(p) PROVE TypeOK'
    <3>1. filed' \in [Entry -> Id \cup {0, NoRow}]
      BY <2>11, IdOfSpec, Zenon DEF AddItem, FiledUnder
    <3>2. todo' \subseteq Post
      BY <2>11, Zenon DEF AddItem
    <3> QED
      BY <2>11, <3>1, <3>2, Zenon DEF AddItem, table, posts
  <2>12. CASE Finish
    BY <2>12, ReturnType, Zenon DEF Finish, table, posts
  <2>13. CASE Restart
    BY <2>13, BoundsAssumption, SMT DEF Restart, Edit, table, posts
  <2>14. CASE UNCHANGED vars
    BY <2>14, Zenon DEF vars, table, posts, cycle
  <2> QED
    BY <2>1, <2>2, <2>3, <2>4, <2>5, <2>6, <2>7, <2>8, <2>9, <2>10, <2>11,
       <2>12, <2>13, <2>14, Zenon DEF Next, CycleStep, Panel, Boot
<1> QED
  BY <1>1, <1>2, PTL DEF Spec

----------------------------------------------------------------------------
(* The history invariant. *)

\* What Send and SendFails have in common: the digest t gets the posts of the
\* cycle, none of which it has yet.
Goes(t) ==
  /\ pc = "send" /\ pc' = "record" /\ t \in Try /\ try' = t
  /\ UNCHANGED <<name, nextId, category, filed, known, todo, heading, pulled>>
  /\ \A e \in Entry : home'[e] = IF e[1] = t /\ e[2] \in todo
                                 THEN FiledUnder(e[2]) ELSE home[e]
  /\ \A p \in Post : status'[p] = IF t = 0 /\ p \in todo THEN "sent"
                                  ELSE status[p]
  /\ failures' \in Nat /\ failures <= failures' /\ t <= failures'
  /\ \A p \in todo :
       /\ p \in Post /\ status[p] = "summarized" /\ <<t, p>> \in Entry
       /\ filed[<<t, p>>] = NoRow /\ home[<<t, p>>] = NoRow

LEMMA DigestGoes ==
  ASSUME TypeOK, CategoryInv, Send \/ SendFails
  PROVE  \E t \in Try : Goes(t)
<1>1. \A p \in todo : p \in Post /\ status[p] = "summarized"
  BY Zenon DEF Send, SendFails, CategoryInv, WorkInv, Having
<1>2. ASSUME NEW t \in Try, home' = Headed(t), NEW e \in Entry
      PROVE  home'[e] = IF e[1] = t /\ e[2] \in todo THEN FiledUnder(e[2])
                                                    ELSE home[e]
  BY <1>2, Zenon DEF Headed, FiledUnder
<1>3. ASSUME NEW t \in Try, t = 0 \/ t = failures + 1, NEW p \in todo
      PROVE  /\ <<t, p>> \in Entry
             /\ filed[<<t, p>>] = NoRow /\ home[<<t, p>>] = NoRow
  <2>1. <<t, p>> \in Entry /\ <<t, p>>[1] = t /\ <<t, p>>[2] = p
    BY <1>1, <1>3, EntryFacts
  <2>2. t = 0 \/ ~(t <= failures)
    BY <1>3, SMT DEF TypeOK
  <2>3. status[p] # "sent"
    BY <1>1, <1>3, Zenon
  <2>4. home[<<t, p>>] = NoRow
    BY <2>1, <2>2, <2>3, Zenon DEF CategoryInv, EntryInv
  <2> QED
    BY <2>1, <2>4, Zenon DEF CategoryInv, EntryInv
<1>4. CASE Send
  <2>1. \A p \in Post : status'[p] = IF p \in todo THEN "sent" ELSE status[p]
    BY <1>4, Zenon DEF Send
  <2>2. /\ pc = "send" /\ pc' = "record" /\ try' = 0 /\ home' = Headed(0)
        /\ UNCHANGED <<name, nextId, category, filed, known, todo, heading, pulled>>
        /\ failures' = failures
    BY <1>4, Zenon DEF Send, table
  <2>3. failures \in Nat /\ failures <= failures /\ 0 <= failures
    BY SMT DEF TypeOK
  <2>4. Goes(0)
    BY <1>1, <1>2, <1>3, <2>1, <2>2, <2>3, TryFacts, Zenon DEF Goes
  <2> QED
    BY <2>4, TryFacts, Zenon
<1>5. CASE SendFails
  <2>1. failures + 1 \in Try /\ failures + 1 # 0
    BY <1>5, TryFacts, Zenon DEF SendFails, TypeOK
  <2>2. /\ pc = "send" /\ pc' = "record" /\ try' = failures + 1
        /\ home' = Headed(failures + 1) /\ failures' = failures + 1
        /\ UNCHANGED <<name, nextId, category, filed, known, todo, heading, pulled>>
        /\ UNCHANGED status
    BY <1>5, Zenon DEF SendFails, table, posts
  <2>3. /\ failures + 1 \in Nat /\ failures <= failures + 1
        /\ failures + 1 <= failures + 1
    BY SMT DEF TypeOK
  <2>4. Goes(failures + 1)
    BY <1>1, <1>2, <1>3, <2>1, <2>2, <2>3, Zenon DEF Goes
  <2> QED
    BY <2>1, <2>4, Zenon
<1> QED
  BY <1>4, <1>5

UniqueNames == \A i, j \in Id : name[i] = name[j] /\ name[i] # NoName => i = j

\* An edit that removes no row leaves everything else as it was.
LEMMA RowsGrowInv ==
  ASSUME TypeOK, CategoryInv, UniqueNames',
         \A i \in Id : name[i] # NoName => name'[i] # NoName,
         UNCHANGED <<posts, filed, cycle, failures, home, pulled>>
  PROVE  CategoryInv'
<1>1. UNCHANGED <<status, category, filed, pc, known, todo, heading, try, failures,
                  home, pulled>>
  BY Zenon DEF posts, cycle
<1>2. ASSUME NEW i, Writable(i), i \in Id \cup {0} PROVE Writable(i)'
  BY <1>2, Zenon DEF Writable
<1>3. References'
  <2>1. ASSUME NEW p \in Post PROVE Writable(category[p])'
    BY <1>1, <1>2, Zenon DEF CategoryInv, References, TypeOK
  <2>2. ASSUME NEW e \in Entry, filed[e] # NoRow PROVE Writable(filed[e])'
    <3>1. filed[e] \in Id \cup {0} /\ Writable(filed[e])
      BY <2>2, Zenon DEF CategoryInv, References, TypeOK
    <3> QED
      BY <1>1, <1>2, <3>1, Zenon
  <2> QED
    BY <1>1, <2>1, <2>2, Zenon DEF References, UniqueNames
<1>4. FiledAsDelivered' /\ MissingOnlyIfPulled'
  BY <1>1, Zenon DEF CategoryInv, FiledAsDelivered, MissingOnlyIfPulled, Unwritten
<1>5. WorkInv' /\ EntryInv'
  BY <1>1, Zenon DEF CategoryInv, WorkInv, EntryInv, Having, FiledUnder
<1>6. SnapshotInv'
  BY <1>1, Zenon DEF CategoryInv, SnapshotInv
<1> QED
  BY <1>3, <1>4, <1>5, <1>6, Zenon DEF CategoryInv

\* A new row takes a name that no other row has.
LEMMA InsertInv ==
  ASSUME TypeOK, CategoryInv, NEW n \in Name, Insert(n),
         UNCHANGED <<posts, filed, cycle, failures, home, pulled>>
  PROVE  CategoryInv'
<1>1. /\ \A i \in Id : name'[i] = IF i = nextId THEN n ELSE name[i]
      /\ \A i \in Id : name[i] # n
  BY Zenon DEF Insert, Taken, TypeOK
<1>2. UniqueNames'
  BY <1>1, Zenon DEF UniqueNames, CategoryInv, References
<1>3. \A i \in Id : name[i] # NoName => name'[i] # NoName
  BY <1>1, NameAssumption, Zenon
<1> QED
  BY <1>2, <1>3, RowsGrowInv, Zenon

LEMMA RenameInv ==
  ASSUME TypeOK, CategoryInv, NEW i \in Id, NEW n \in Name, Rename(i, n)
  PROVE  CategoryInv'
<1>1. /\ \A j \in Id : name'[j] = IF j = i THEN n ELSE name[j]
      /\ \A j \in Id : name[j] # n
  BY Zenon DEF Rename, Taken, TypeOK
<1>2. UniqueNames'
  BY <1>1, Zenon DEF UniqueNames, CategoryInv, References
<1>3. \A j \in Id : name[j] # NoName => name'[j] # NoName
  BY <1>1, NameAssumption, Zenon
<1>4. UNCHANGED <<posts, filed, cycle, failures, home, pulled>>
  BY Zenon DEF Rename
<1> QED
  BY <1>2, <1>3, <1>4, RowsGrowInv, Zenon

\* The references to a removed row are set to NULL, and a row that a running
\* cycle has in its list counts as pulled.
LEMMA RemoveInv ==
  ASSUME TypeOK, CategoryInv, NEW i \in Id, Remove(i)
  PROVE  CategoryInv'
<1>1. /\ \A j \in Id : name'[j] = IF j = i THEN NoName ELSE name[j]
      /\ \A p \in Post : category'[p] = IF category[p] = i THEN 0 ELSE category[p]
      /\ \A e \in Entry : filed'[e] = IF filed[e] = i THEN 0 ELSE filed[e]
      /\ pulled' = IF pc = "idle" THEN pulled ELSE pulled \cup {i}
      /\ UNCHANGED <<status, pc, known, todo, heading, try, failures, home>>
  BY Zenon DEF Remove, Nulled, TypeOK, cycle
<1>2. References'
  <2>1. UniqueNames'
    BY <1>1, Zenon DEF UniqueNames, CategoryInv, References
  <2>2. ASSUME NEW p \in Post PROVE Writable(category[p])'
    <3>1. category[p] \in Id \cup {0} /\ Writable(category[p])
      BY Zenon DEF CategoryInv, References, TypeOK
    <3>2. CASE category[p] = i
      BY <1>1, <3>2, Zenon DEF Writable
    <3>3. CASE category[p] # i
      BY <1>1, <3>1, <3>3, Zenon DEF Writable
    <3> QED
      BY <3>2, <3>3, Zenon
  <2>3. ASSUME NEW e \in Entry, filed'[e] # NoRow PROVE Writable(filed[e])'
    <3>1. CASE filed[e] = i
      BY <1>1, <3>1, Zenon DEF Writable
    <3>2. CASE filed[e] # i
      <4>1. filed'[e] = filed[e] /\ filed[e] \in Id \cup {0} /\ Writable(filed[e])
        BY <1>1, <2>3, <3>2, Zenon DEF CategoryInv, References, TypeOK
      <4> QED
        BY <1>1, <3>2, <4>1, Zenon DEF Writable
    <3> QED
      BY <3>1, <3>2, Zenon
  <2> QED
    BY <2>1, <2>2, <2>3, Zenon DEF References, UniqueNames
<1>3. \A e \in Entry : filed'[e] = NoRow <=> filed[e] = NoRow
  BY <1>1, IdFacts, Zenon
<1>4. FiledAsDelivered'
  BY <1>1, Zenon DEF CategoryInv, FiledAsDelivered
<1>5. MissingOnlyIfPulled'
  BY <1>1, <1>3, Zenon DEF CategoryInv, MissingOnlyIfPulled, Unwritten
<1>6. WorkInv' /\ EntryInv'
  <2>1. todo \subseteq Post /\ WorkInv
    BY Zenon DEF TypeOK, CategoryInv
  <2>2. \A p \in Post : FiledUnder(p)' = FiledUnder(p)
    BY <1>1, Zenon DEF FiledUnder
  <2>3. EntryInv'
    BY <1>1, <1>3, Zenon DEF CategoryInv, EntryInv
  <2>4. /\ (pc = "summarize" => todo \subseteq Having("received"))'
        /\ (pc = "send" => todo \subseteq Having("summarized"))'
    BY <1>1, <2>1, Zenon DEF WorkInv, Having
  <2>5. ASSUME pc = "record", NEW p \in todo
        PROVE  filed'[<<try, p>>] = NoRow /\ home'[<<try, p>>] = FiledUnder(p)'
    <3>1. <<try, p>> \in Entry
      BY <2>1, <2>5, EntryFacts, Zenon DEF TypeOK
    <3> QED
      BY <1>1, <1>3, <2>1, <2>2, <2>5, <3>1, Zenon DEF WorkInv
  <2> QED
    BY <1>1, <2>3, <2>4, <2>5, Zenon DEF WorkInv
<1>7. SnapshotInv'
  BY <1>1, Zenon DEF CategoryInv, SnapshotInv
<1> QED
  BY <1>2, <1>4, <1>5, <1>6, <1>7, Zenon DEF CategoryInv

\* Steps that write neither rows nor posts.
LEMMA StepInv ==
  ASSUME TypeOK, CategoryInv, Seeded \/ Bundle \/ Finish \/ Restart
  PROVE  CategoryInv'
<1>1. UNCHANGED <<name, status, category, filed, failures, home, pulled>>
  BY Zenon DEF Seeded, Bundle, Finish, Restart, table, posts
<1>2. References' /\ FiledAsDelivered'
  BY <1>1, Zenon DEF CategoryInv, References, FiledAsDelivered, Writable
<1>3. \/ pc' \in {"idle", "seed"}
      \/ /\ pc = "summarize" /\ pc' = "send" /\ todo' = Having("summarized")
         /\ UNCHANGED known
  BY Zenon DEF Seeded, Bundle, Bundled, Return, Finish, Restart
<1>4. pc = "record" => todo = {}
  BY Zenon DEF Seeded, Bundle, Finish, Restart
<1>5. MissingOnlyIfPulled'
  BY <1>1, <1>4, Zenon DEF CategoryInv, MissingOnlyIfPulled, Unwritten
<1>6. WorkInv' /\ EntryInv'
  BY <1>1, <1>3, Zenon DEF CategoryInv, WorkInv, EntryInv, Having
<1>7. SnapshotInv'
  BY <1>1, <1>3, Zenon DEF CategoryInv, SnapshotInv
<1> QED
  BY <1>2, <1>5, <1>6, <1>7, Zenon DEF CategoryInv

LEMMA StartCycleInv ==
  ASSUME TypeOK, CategoryInv, StartCycle
  PROVE  CategoryInv'
<1>1. PICK captured \in SUBSET Having("new") :
        /\ status' = [p \in Post |-> IF p \in captured THEN "received"
                                     ELSE status[p]]
        /\ todo' = Having("received") \cup captured
  BY Zenon DEF StartCycle
<1>2. /\ UNCHANGED <<name, category, filed, failures, home, pulled>>
      /\ pc = "idle" /\ pc' = "summarize" /\ known' = name
  BY Zenon DEF StartCycle, table
<1>3. \A p \in Post : /\ status'[p] = "sent" <=> status[p] = "sent"
                      /\ status[p] = "summarized" => status'[p] = "summarized"
  BY <1>1, Zenon DEF Having
<1>4. References' /\ FiledAsDelivered'
  BY <1>2, Zenon DEF CategoryInv, References, FiledAsDelivered, Writable
<1>5. MissingOnlyIfPulled'
  BY <1>2, <1>3, Zenon DEF CategoryInv, MissingOnlyIfPulled, Unwritten
<1>6. todo' \subseteq Having("received")'
  BY <1>1, Zenon DEF Having
<1>7. WorkInv' /\ EntryInv'
  <2>1. WorkInv'
    BY <1>2, <1>6, Zenon DEF WorkInv
  <2>2. EntryInv'
    BY <1>2, <1>3, EntryFacts, Zenon DEF CategoryInv, EntryInv
  <2> QED
    BY <2>1, <2>2
<1>8. SnapshotInv'
  BY <1>2, Zenon DEF SnapshotInv
<1> QED
  BY <1>4, <1>5, <1>7, <1>8, Zenon DEF CategoryInv

LEMMA SummarizeInv ==
  ASSUME TypeOK, CategoryInv, NEW p \in Post, Summarize(p)
  PROVE  CategoryInv'
<1>1. /\ UNCHANGED <<name, filed, pc, known, failures, home, pulled>>
      /\ pc = "summarize" /\ p \in todo /\ todo' = todo \ {p}
  BY Zenon DEF Summarize, table
<1>2. PICK i : \/ /\ Writable(i)
                  /\ status' = [status EXCEPT ![p] = "summarized"]
                  /\ category' = [category EXCEPT ![p] = i]
               \/ UNCHANGED <<status, category>>
  BY Zenon DEF Summarize, posts
<1>3. status[p] = "received"
  BY <1>1, Zenon DEF CategoryInv, WorkInv, Having
<1>4. /\ \A q \in Post : status'[q] = "sent" <=> status[q] = "sent"
      /\ \A q \in Post : q # p => status'[q] = status[q]
  BY <1>2, <1>3, Zenon DEF TypeOK
<1>5. \A q \in Post : Writable(category[q])'
  <2> SUFFICES ASSUME NEW q \in Post PROVE Writable(category[q])'
    OBVIOUS
  <2>1. category'[q] = category[q] \/ Writable(category'[q])
    BY <1>2, Zenon DEF TypeOK
  <2>2. Writable(category[q])
    BY Zenon DEF CategoryInv, References
  <2> QED
    BY <1>1, <2>1, <2>2, Zenon DEF Writable
<1>6. References' /\ FiledAsDelivered'
  BY <1>1, <1>5, Zenon DEF CategoryInv, References, FiledAsDelivered, Writable
<1>7. MissingOnlyIfPulled'
  BY <1>1, <1>4, Zenon DEF CategoryInv, MissingOnlyIfPulled, Unwritten
<1>8. WorkInv' /\ EntryInv'
  <2>1. todo' \subseteq Having("received")'
    BY <1>1, <1>4, Zenon DEF CategoryInv, WorkInv, Having
  <2>2. \A e \in Entry : home[e] # NoRow => status'[e[2]] = status[e[2]]
    <3>1. \A e \in Entry : home[e] # NoRow => e[2] # p /\ e[2] \in Post
      BY <1>3, EntryFacts, Zenon DEF CategoryInv, EntryInv
    <3> QED
      BY <1>4, <3>1, Zenon
  <2>3. EntryInv'
    BY <1>1, <2>2, Zenon DEF CategoryInv, EntryInv
  <2> QED
    BY <1>1, <2>1, <2>3, Zenon DEF WorkInv
<1>9. SnapshotInv'
  BY <1>1, Zenon DEF CategoryInv, SnapshotInv
<1> QED
  BY <1>6, <1>7, <1>8, <1>9, Zenon DEF CategoryInv

\* The digest that goes out or fails has no history rows yet.
LEMMA SendInv ==
  ASSUME TypeOK, CategoryInv, Send \/ SendFails
  PROVE  CategoryInv'
<1> PICK t \in Try : Goes(t)
  BY DigestGoes
<1>1. /\ UNCHANGED <<name, category, filed, known, todo, heading, pulled>>
      /\ pc = "send" /\ pc' = "record" /\ try' = t
      /\ \A p \in Post : status'[p] = IF t = 0 /\ p \in todo THEN "sent"
                                      ELSE status[p]
      /\ \A e \in Entry : home'[e] = IF e[1] = t /\ e[2] \in todo
                                     THEN FiledUnder(e[2]) ELSE home[e]
  BY Zenon DEF Goes
<1>2. \A p \in todo :
        /\ p \in Post /\ status[p] = "summarized" /\ <<t, p>> \in Entry
        /\ filed[<<t, p>>] = NoRow /\ home[<<t, p>>] = NoRow
  BY Zenon DEF Goes
<1>3. \A e \in Entry : e[1] = t /\ e[2] \in todo => e = <<t, e[2]>>
  BY EntryFacts, Zenon
<1>4. \A p \in Post : FiledUnder(p) \in Id \cup {0}
  BY IdOfSpec, Zenon DEF FiledUnder
<1>5. References'
  BY <1>1, Zenon DEF CategoryInv, References, Writable
<1>6. FiledAsDelivered'
  BY <1>1, <1>2, <1>3, Zenon DEF CategoryInv, FiledAsDelivered
<1>7. MissingOnlyIfPulled'
  <2>1. ASSUME NEW e \in Entry, home'[e] # NoRow, ~Unwritten(e)'
        PROVE  filed'[e] # NoRow \/ home'[e] \in pulled'
    <3>1. ~(e[1] = t /\ e[2] \in todo)
      BY <1>1, <2>1, Zenon DEF Unwritten
    <3> QED
      BY <1>1, <2>1, <3>1, Zenon DEF CategoryInv, MissingOnlyIfPulled, Unwritten
  <2>2. ASSUME NEW p \in Post, status'[p] = "sent" PROVE home'[<<0, p>>] # NoRow
    <3>1. <<0, p>> \in Entry /\ <<0, p>>[1] = 0 /\ <<0, p>>[2] = p
      BY <2>2, EntryFacts, TryFacts, Zenon
    <3>2. CASE t = 0 /\ p \in todo
      <4>1. home'[<<0, p>>] = FiledUnder(p)
        BY <1>1, <3>1, <3>2, Zenon
      <4> QED
        BY <1>4, <2>2, <4>1, IdFacts, Zenon
    <3>3. CASE ~(t = 0 /\ p \in todo)
      <4>1. home'[<<0, p>>] = home[<<0, p>>] /\ status[p] = "sent"
        BY <1>1, <2>2, <3>1, <3>3, Zenon
      <4> QED
        BY <2>2, <4>1, Zenon DEF CategoryInv, MissingOnlyIfPulled
    <3> QED
      BY <3>2, <3>3
  <2> QED
    BY <2>1, <2>2, Zenon DEF MissingOnlyIfPulled
<1>8. WorkInv'
  <2>1. \A p \in Post : FiledUnder(p)' = FiledUnder(p)
    BY <1>1, Zenon DEF FiledUnder
  <2>2. ASSUME NEW p \in todo PROVE home'[<<t, p>>] = FiledUnder(p)
    <3>1. <<t, p>> \in Entry /\ <<t, p>>[1] = t /\ <<t, p>>[2] = p
      BY <1>2, <2>2, EntryFacts, Zenon
    <3> QED
      BY <1>1, <2>2, <3>1, Zenon
  <2> QED
    BY <1>1, <1>2, <2>1, <2>2, Zenon DEF WorkInv
<1>9. EntryInv'
  <2>1. ASSUME NEW e \in Entry, filed'[e] # NoRow PROVE home'[e] # NoRow
    <3>1. ~(e[1] = t /\ e[2] \in todo)
      BY <1>1, <1>2, <1>3, <2>1, Zenon
    <3> QED
      BY <1>1, <2>1, <3>1, Zenon DEF CategoryInv, EntryInv
  <2>2. ASSUME NEW e \in Entry, home'[e] # NoRow
        PROVE  /\ e[1] <= failures'
               /\ status'[e[2]] \in {"summarized", "sent"}
               /\ e[1] = 0 => status'[e[2]] = "sent"
    <3>1. e[1] \in Try /\ e[2] \in Post
      BY <2>2, EntryFacts, Zenon
    <3>2. CASE e[1] = t /\ e[2] \in todo
      BY <1>1, <1>2, <3>1, <3>2, Zenon DEF Goes
    <3>3. CASE ~(e[1] = t /\ e[2] \in todo)
      <4>1. home[e] # NoRow
        BY <1>1, <2>2, <3>3, Zenon
      <4>2. /\ e[1] <= failures /\ status[e[2]] \in {"summarized", "sent"}
            /\ e[1] = 0 => status[e[2]] = "sent"
        BY <2>2, <4>1, Zenon DEF CategoryInv, EntryInv
      <4>3. e[1] <= failures'
        BY <3>1, <4>2, TryFacts, SMT DEF Goes, TypeOK
      <4> QED
        BY <1>1, <3>1, <4>2, <4>3, Zenon
    <3> QED
      BY <3>2, <3>3
  <2> QED
    BY <2>1, <2>2, Zenon DEF EntryInv
<1>10. SnapshotInv'
  BY <1>1, Zenon DEF CategoryInv, SnapshotInv
<1> QED
  BY <1>5, <1>6, <1>7, <1>8, <1>9, <1>10, Zenon DEF CategoryInv

\* A row that cannot be written refers to a category that was pulled.
LEMMA AddItemInv ==
  ASSUME TypeOK, CategoryInv, NEW p \in Post, AddItem(p)
  PROVE  CategoryInv'
<1> DEFINE item == <<try, p>>
<1>0. item \in Entry /\ item[1] = try /\ item[2] = p
  BY EntryFacts, Zenon DEF TypeOK
<1>1. /\ UNCHANGED <<name, status, category, pc, known, heading, try, failures,
                     home, pulled>>
      /\ pc = "record" /\ p \in todo /\ todo' = todo \ {p}
      /\ \A e \in Entry : e # item => filed'[e] = filed[e]
      /\ Writable(FiledUnder(p)) => filed'[item] = FiledUnder(p)
      /\ ~Writable(FiledUnder(p)) => filed'[item] = filed[item]
  BY <1>0, Zenon DEF AddItem, table, posts, TypeOK
<1>2. filed[item] = NoRow /\ home[item] = FiledUnder(p)
  BY <1>1, Zenon DEF CategoryInv, WorkInv
<1> HIDE DEF item
<1>3. /\ FiledUnder(p) \in Id \cup {0}
      /\ FiledUnder(p) # 0 => known[FiledUnder(p)] = heading[p]
  BY IdOfSpec, Zenon DEF FiledUnder
<1>4. ~Writable(FiledUnder(p)) => home[item] \in pulled
  <2> SUFFICES ASSUME ~Writable(FiledUnder(p)) PROVE home[item] \in pulled
    OBVIOUS
  <2>1. FiledUnder(p) \in Id /\ name[FiledUnder(p)] = NoName
    BY <1>3, Zenon DEF Writable
  <2>2. known[FiledUnder(p)] # NoName
    BY <1>3, <2>1, IdFacts, NameAssumption, Zenon DEF TypeOK
  <2> QED
    BY <1>1, <1>2, <2>1, <2>2, Zenon DEF CategoryInv, SnapshotInv
<1>5. References'
  BY <1>1, Zenon DEF CategoryInv, References, Writable
<1>6. FiledAsDelivered'
  BY <1>1, <1>2, Zenon DEF CategoryInv, FiledAsDelivered
<1>7. MissingOnlyIfPulled'
  <2>1. filed'[item] # NoRow \/ home'[item] \in pulled'
    BY <1>1, <1>3, <1>4, IdFacts, Zenon
  <2>2. ASSUME NEW e \in Entry, e # item, home'[e] # NoRow, ~Unwritten(e)'
        PROVE  filed'[e] # NoRow \/ home'[e] \in pulled'
    <3>1. ~(e[1] = try /\ e[2] = p)
      BY <2>2, EntryFacts, Zenon DEF item
    <3>2. ~Unwritten(e)
      BY <1>1, <2>2, <3>1, Zenon DEF Unwritten
    <3> QED
      BY <1>1, <2>2, <3>2, Zenon DEF CategoryInv, MissingOnlyIfPulled
  <2>3. \A q \in Post : status'[q] = "sent" => home'[<<0, q>>] # NoRow
    BY <1>1, Zenon DEF CategoryInv, MissingOnlyIfPulled
  <2> QED
    BY <2>1, <2>2, <2>3, Zenon DEF MissingOnlyIfPulled
<1>8. WorkInv'
  <2>1. \A q \in Post : FiledUnder(q)' = FiledUnder(q)
    BY <1>1, Zenon DEF FiledUnder
  <2>2. ASSUME NEW q \in todo'
        PROVE  filed'[<<try, q>>] = NoRow /\ home'[<<try, q>>] = FiledUnder(q)'
    <3>1. q \in todo /\ q \in Post /\ q # p
      BY <1>1, <2>2, Zenon DEF TypeOK
    <3>2. <<try, q>> \in Entry /\ <<try, q>> # item
      <4>1. <<try, q>> \in Entry /\ <<try, q>>[2] = q
        BY <3>1, EntryFacts, Zenon DEF TypeOK
      <4> QED
        BY <1>0, <3>1, <4>1, Zenon
    <3>3. filed[<<try, q>>] = NoRow /\ home[<<try, q>>] = FiledUnder(q)
      BY <1>1, <3>1, Zenon DEF CategoryInv, WorkInv
    <3>4. filed'[<<try, q>>] = filed[<<try, q>>]
      BY <1>1, <3>2, Zenon
    <3> QED
      BY <1>1, <2>1, <3>1, <3>3, <3>4, Zenon
  <2> QED
    BY <1>1, <2>2, Zenon DEF WorkInv
<1>9. EntryInv'
  <2>1. home[item] # NoRow
    BY <1>2, <1>3, IdFacts, Zenon
  <2> QED
    BY <1>1, <2>1, Zenon DEF CategoryInv, EntryInv
<1>10. SnapshotInv'
  BY <1>1, Zenon DEF CategoryInv, SnapshotInv
<1> QED
  BY <1>5, <1>6, <1>7, <1>8, <1>9, <1>10, Zenon DEF CategoryInv

----------------------------------------------------------------------------
(* Theorems. *)

\* The inductive invariant of the table, the cycle and the history.
THEOREM CategoryInvariant == Spec => [](TypeOK /\ CategoryInv)
<1>1. Init => CategoryInv
  <2> SUFFICES ASSUME Init PROVE CategoryInv
    OBVIOUS
  <2>1. \A i \in Id : name[i] = NoName
    BY Zenon DEF Init, NoRows
  <2>2. /\ \A p \in Post : category[p] = 0 /\ status[p] = "new"
        /\ \A e \in Entry : filed[e] = NoRow /\ home[e] = NoRow
    BY Zenon DEF Init
  <2>3. References /\ FiledAsDelivered
    BY <2>1, <2>2, Zenon DEF References, FiledAsDelivered, Writable
  <2>4. MissingOnlyIfPulled /\ WorkInv /\ EntryInv /\ SnapshotInv
    BY <2>2, Zenon DEF Init, MissingOnlyIfPulled, WorkInv, EntryInv, SnapshotInv
  <2> QED
    BY <2>3, <2>4, Zenon DEF CategoryInv
<1>2. TypeOK /\ CategoryInv /\ [Next]_vars => CategoryInv'
  <2> SUFFICES ASSUME TypeOK, CategoryInv, [Next]_vars PROVE CategoryInv'
    OBVIOUS
  <2>1. ASSUME NEW n \in Shipped, Seed(n) PROVE CategoryInv'
    BY <2>1, InsertInv, NameAssumption, Zenon DEF Seed
  <2>2. ASSUME NEW n \in Name, Add(n) PROVE CategoryInv'
    BY <2>2, InsertInv, Zenon DEF Add
  <2>3. ASSUME NEW i \in Id, NEW n \in Name, Rename(i, n) PROVE CategoryInv'
    BY <2>3, RenameInv, Zenon
  <2>4. ASSUME NEW i \in Id, Remove(i) PROVE CategoryInv'
    BY <2>4, RemoveInv, Zenon
  <2>5. CASE StartCycle
    BY <2>5, StartCycleInv, Zenon
  <2>6. ASSUME NEW p \in Post, Summarize(p) PROVE CategoryInv'
    BY <2>6, SummarizeInv, Zenon
  <2>7. CASE Send \/ SendFails
    BY <2>7, SendInv, Zenon
  <2>8. ASSUME NEW p \in Post, AddItem(p) PROVE CategoryInv'
    BY <2>8, AddItemInv, Zenon
  <2>9. CASE Seeded \/ Bundle \/ Finish \/ Restart
    BY <2>9, StepInv, Zenon
  <2>10. CASE UNCHANGED vars
    BY <2>10, Zenon DEF vars, table, posts, cycle, CategoryInv, References,
       FiledAsDelivered, MissingOnlyIfPulled, Unwritten, WorkInv, EntryInv,
       SnapshotInv, Writable, Having, FiledUnder
  <2> QED
    BY <2>1, <2>2, <2>3, <2>4, <2>5, <2>6, <2>7, <2>8, <2>9, <2>10, Zenon
       DEF Next, CycleStep, Panel, Boot
<1> QED
  BY <1>1, <1>2, TypeCorrect, PTL DEF Spec

\* Nothing refers to a removed category, although the cycle writes references
\* out of the list it read at its start, and names stay unique.
THEOREM ReferencesStayValid == Spec => []References
<1>1. CategoryInv => References
  BY DEF CategoryInv
<1> QED
  BY <1>1, CategoryInvariant, PTL

\* A post of a digest, delivered or failed, is missing from the history only if
\* its category was removed while the cycle ran: AddItem, whose error is ignored,
\* fails for no other reason.
THEOREM HistoryGapsAreExplained == Spec => []MissingOnlyIfPulled
<1>1. CategoryInv => MissingOnlyIfPulled
  BY DEF CategoryInv
<1> QED
  BY <1>1, CategoryInvariant, PTL

\* The history never shows a post under a category other than the one of its
\* heading.
THEOREM HistoryIsFiledAsDelivered == Spec => []FiledAsDelivered
<1>1. CategoryInv => FiledAsDelivered
  BY DEF CategoryInv
<1> QED
  BY <1>1, CategoryInvariant, PTL

\* A shipped row is never removed, whatever it is renamed to, so a history row
\* filed under it keeps its category.
THEOREM ShippedRowsStay == Spec => DefaultsStay
<1> DEFINE Named == \A i \in default : i \in Id /\ name[i] # NoName
           Kept  == \A i \in default : name'[i] # NoName
<1>1. Init => Named
  BY Zenon DEF Init
<1>2. ASSUME TypeOK, Named, [Next]_vars PROVE Named' /\ Kept
  <2>1. ASSUME NEW n \in Shipped, Seed(n) PROVE Named' /\ Kept
    BY <1>2, <2>1, NameAssumption, BoundsAssumption, SMT
       DEF TypeOK, Seed, Insert, Missing, Id
  <2>2. ASSUME NEW n \in Name, Add(n) PROVE Named' /\ Kept
    BY <1>2, <2>2, NameAssumption, BoundsAssumption, SMT
       DEF TypeOK, Add, Insert, Id
  <2>3. ASSUME NEW i \in Id, NEW n \in Name, Rename(i, n) PROVE Named' /\ Kept
    BY <1>2, <2>3, NameAssumption, SMT DEF TypeOK, Rename
  <2>4. ASSUME NEW i \in Id, Remove(i) PROVE Named' /\ Kept
    BY <1>2, <2>4, SMT DEF TypeOK, Remove
  <2>5. ASSUME UNCHANGED table PROVE Named' /\ Kept
    BY <1>2, <2>5, Zenon DEF table
  <2>6. CASE Seeded \/ Bundle \/ SendFails \/ Finish \/ Restart \/ StartCycle \/ Send
    BY <2>5, <2>6, Zenon DEF Seeded, Bundle, SendFails, Finish, Restart, StartCycle, Send
  <2>7. ASSUME NEW p \in Post, Summarize(p) \/ AddItem(p) PROVE Named' /\ Kept
    BY <2>5, <2>7, Zenon DEF Summarize, AddItem
  <2>8. CASE UNCHANGED vars
    BY <2>5, <2>8, Zenon DEF vars
  <2> QED
    BY <1>2, <2>1, <2>2, <2>3, <2>4, <2>6, <2>7, <2>8, Zenon
       DEF Next, CycleStep, Panel, Boot
<1>3. TypeOK /\ Named /\ [Next]_vars => [Kept]_vars
  BY <1>2
<1> QED
  BY <1>1, <1>2, <1>3, TypeCorrect, PTL DEF Spec, DefaultsStay

----------------------------------------------------------------------------
(***************************************************************************)
(* The page of a cycle.                                                    *)
(***************************************************************************)

\* The handler only reads: whatever it does, the tables follow CategoryAdmin.
LEMMA PanelReadsOnly == HSpec => Spec
<1>1. HInit => Init
  BY DEF HInit
<1>2. [HNext]_hvars => [Next]_vars
  BY DEF HNext, hvars
<1> QED
  BY <1>1, <1>2, PTL DEF HSpec, Spec

\* A name of a list without repetitions leads back to its row.
LEMMA IdOfListed ==
  ASSUME NEW list, NEW i \in Id,
         \A j \in Id : list[i] = list[j] => i = j
  PROVE  IdOf(list, list[i]) = i
<1>1. IdOf(list, list[i]) = CHOOSE j \in Id : list[j] = list[i]
  BY Zenon DEF IdOf
<1>2. /\ (CHOOSE j \in Id : list[j] = list[i]) \in Id
      /\ list[CHOOSE j \in Id : list[j] = list[i]] = list[i]
  BY Zenon
<1> QED
  BY <1>1, <1>2, Zenon

\* A step that adds no row of categories, changes no name and no reference, and
\* does not lead on into the cycle.
LEMMA PageFrame ==
  ASSUME TypeOK, PageInv,
         UNCHANGED <<name, nextId, category, filed, home>>,
         \/ pc' \in {"seed", "idle"} /\ (UNCHANGED known \/ Return)
         \/ UNCHANGED <<pc, known, heading>> /\ todo' \subseteq todo
  PROVE  PageInv'
<1>0. \A i \in Id : known'[i] = known[i] \/ known'[i] = NoName
  BY Zenon DEF Return, NoRows
<1>1. IdsInv' /\ GoneInv' /\ PagesAgree'
  BY <1>0, Zenon DEF PageInv, IdsInv, GoneInv, PagesAgree
<1>2. ListInv'
  <2>1. CASE pc' \in {"seed", "idle"}
    BY <2>1 DEF ListInv
  <2>2. CASE UNCHANGED <<pc, known, heading>> /\ todo' \subseteq todo
    <3>1. \A p \in Post : FiledUnder(p)' = FiledUnder(p)
      BY <2>2 DEF FiledUnder
    <3>2. todo \subseteq Post
      BY DEF TypeOK
    <3> QED
      BY <2>2, <3>1, <3>2 DEF PageInv, ListInv
  <2> QED
    BY <2>1, <2>2
<1> QED
  BY <1>1, <1>2 DEF PageInv

\* The panel and the boot: a new row gets a new id, and a removed one takes
\* its references along.
LEMMA PageEdit ==
  ASSUME TypeOK, CategoryInv, PageInv,
         \/ \E n \in Shipped : Seed(n)
         \/ \E n \in Name : Add(n)
         \/ \E i \in Id : Remove(i) \/ \E n \in Name : Rename(i, n)
  PROVE  PageInv'
<1>0. \A e \in Entry : /\ home[e] \in Id \cup {0, NoRow}
                       /\ filed[e] = 0 => home[e] \in Id \cup {0}
  BY IdFacts, Zenon DEF TypeOK, CategoryInv, EntryInv
<1>1. ASSUME NEW n, Insert(n), UNCHANGED <<posts, filed, cycle, home>>
      PROVE  PageInv'
  <2>1. /\ UNCHANGED <<category, filed, known, pc, todo, heading, home>>
        /\ nextId \in Id /\ nextId' = nextId + 1
        /\ \A i \in Id : name'[i] = IF i = nextId THEN n ELSE name[i]
    BY <1>1, BoundsAssumption, SMT DEF Insert, posts, cycle, TypeOK, Id
  <2>2. IdsInv'
    <3>1. nextId \in Nat /\ nextId' = nextId + 1
      BY <2>1, SMT DEF Id
    <3>2. ASSUME NEW e \in Entry PROVE home'[e] < nextId'
      <4>1. home[e] \in Int /\ home[e] < nextId
        BY <1>0, SMT DEF PageInv, IdsInv, Id, NoRow
      <4> QED
        BY <2>1, <3>1, <4>1, SMT
    <3>3. ASSUME NEW i \in Id, name'[i] # NoName \/ known'[i] # NoName
          PROVE  i < nextId'
      <4>1. i = nextId \/ i < nextId
        BY <2>1, <3>3, Zenon DEF PageInv, IdsInv
      <4> QED
        BY <3>1, <4>1, SMT DEF Id
    <3> QED
      BY <3>2, <3>3, Zenon DEF IdsInv
  <2>3. GoneInv'
    <3> SUFFICES ASSUME NEW e \in Entry, filed[e] = 0, home[e] # 0
                 PROVE  name'[home[e]] = NoName
      BY <2>1, Zenon DEF GoneInv
    <3>1. home[e] \in Id /\ name[home[e]] = NoName
      BY <1>0, Zenon DEF PageInv, GoneInv
    <3>2. home[e] # nextId
      BY <3>1, <2>1, SMT DEF PageInv, IdsInv, Id
    <3> QED
      BY <2>1, <3>1, <3>2, Zenon
  <2>4. ListInv' /\ PagesAgree'
    BY <2>1, Zenon DEF PageInv, ListInv, PagesAgree, FiledUnder
  <2> QED
    BY <2>2, <2>3, <2>4 DEF PageInv
<1>2. ASSUME NEW i \in Id, NEW n \in Name, Rename(i, n) PROVE PageInv'
  <2>1. /\ UNCHANGED <<category, filed, known, pc, todo, heading, home, nextId>>
        /\ name[i] # NoName
        /\ \A j \in Id : name'[j] = IF j = i THEN n ELSE name[j]
    BY <1>2, Zenon DEF Rename, posts, cycle, TypeOK
  <2>2. IdsInv'
    BY <2>1, Zenon DEF PageInv, IdsInv
  <2>3. GoneInv'
    <3> SUFFICES ASSUME NEW e \in Entry, filed[e] = 0, home[e] # 0
                 PROVE  name'[home[e]] = NoName
      BY <2>1, Zenon DEF GoneInv
    <3>1. home[e] \in Id /\ name[home[e]] = NoName
      BY <1>0, Zenon DEF PageInv, GoneInv
    <3> QED
      BY <2>1, <3>1, Zenon
  <2>4. ListInv' /\ PagesAgree'
    BY <2>1, Zenon DEF PageInv, ListInv, PagesAgree, FiledUnder
  <2> QED
    BY <2>2, <2>3, <2>4 DEF PageInv
<1>3. ASSUME NEW i \in Id, Remove(i) PROVE PageInv'
  <2>1. /\ UNCHANGED <<known, pc, todo, heading, home, nextId>>
        /\ \A j \in Id : name'[j] = IF j = i THEN NoName ELSE name[j]
        /\ \A p \in Post : category'[p] = IF category[p] = i THEN 0 ELSE category[p]
        /\ \A e \in Entry : filed'[e] = IF filed[e] = i THEN 0 ELSE filed[e]
    BY <1>3, Zenon DEF Remove, Nulled, TypeOK, cycle
  <2>2. IdsInv'
    BY <2>1, Zenon DEF PageInv, IdsInv
  <2>3. GoneInv'
    <3> SUFFICES ASSUME NEW e \in Entry, filed'[e] = 0, home[e] # 0
                 PROVE  name'[home[e]] = NoName
      BY <2>1, Zenon DEF GoneInv
    <3>1. CASE filed[e] = i
      <4>1. home[e] = i
        BY <3>1, IdFacts, Zenon DEF CategoryInv, FiledAsDelivered
      <4> QED
        BY <2>1, <4>1, Zenon
    <3>2. CASE filed[e] = 0
      <4>1. home[e] \in Id /\ name[home[e]] = NoName
        BY <1>0, <3>2, Zenon DEF PageInv, GoneInv
      <4> QED
        BY <2>1, <4>1, Zenon
    <3> QED
      BY <2>1, <3>1, <3>2, Zenon
  <2>4. ListInv'
    <3>1. \A p \in Post : FiledUnder(p)' = FiledUnder(p)
      BY <2>1 DEF FiledUnder
    <3>2. todo \subseteq Post
      BY DEF TypeOK
    <3> QED
      BY <2>1, <3>1, <3>2, Zenon DEF PageInv, ListInv
  <2>5. PagesAgree'
    BY <2>1, EntryFacts, IdFacts, Zenon DEF PageInv, PagesAgree
  <2> QED
    BY <2>2, <2>3, <2>4, <2>5 DEF PageInv
<1>4. \A n : Seed(n) \/ Add(n) => Insert(n) /\ UNCHANGED <<posts, filed, cycle, home>>
  BY DEF Seed, Add
<1> QED
  BY <1>1, <1>2, <1>3, <1>4

\* The list is a copy of the table, which names every category of a post.
LEMMA PageStart ==
  ASSUME TypeOK, CategoryInv, PageInv, StartCycle
  PROVE  PageInv'
<1>1. /\ UNCHANGED <<name, nextId, category, filed, home>>
      /\ known' = name /\ pc' = "summarize"
  BY Zenon DEF StartCycle, table
<1>2. IdsInv' /\ GoneInv' /\ PagesAgree'
  BY <1>1, Zenon DEF PageInv, IdsInv, GoneInv, PagesAgree
<1>3. ListInv'
  <2>1. \A p \in Post : category[p] # 0 => name[category[p]] # NoName
    BY Zenon DEF CategoryInv, References, Writable
  <2> QED
    BY <1>1, <2>1, Zenon DEF CategoryInv, References, ListInv
<1> QED
  BY <1>2, <1>3, Zenon DEF PageInv

\* The answer resolves to a row of the list, or to none.
LEMMA PageSummarize ==
  ASSUME TypeOK, CategoryInv, PageInv, NEW p \in Post, Summarize(p)
  PROVE  PageInv'
<1>1. /\ UNCHANGED <<name, nextId, filed, pc, known, heading, home>>
      /\ pc = "summarize" /\ p \in todo
  BY Zenon DEF Summarize, table
<1>2. PICK i \in {Resolved(n) : n \in Answers} \cup {0} :
        UNCHANGED category \/ category' = [category EXCEPT ![p] = i]
  BY Zenon DEF Summarize, posts
<1>3. i # 0 => known[i] # NoName
  <2> SUFFICES ASSUME i # 0 PROVE known[i] # NoName
    OBVIOUS
  <2>1. PICK n \in Answers : i = Resolved(n)
    BY <1>2, Zenon
  <2> QED
    BY <2>1, ResolvedSpec, Zenon
<1>4. \A q \in Post : category'[q] \in {category[q], i}
  BY <1>2, Zenon DEF TypeOK
<1>5. \A q \in Post : q # p => category'[q] = category[q]
  BY <1>2, Zenon DEF TypeOK
<1>6. \A e \in Entry : filed[e] \in Id => e[2] # p /\ e[2] \in Post
  <2>1. status[p] = "received"
    BY <1>1, Zenon DEF CategoryInv, WorkInv, Having
  <2> QED
    BY <2>1, IdFacts, EntryFacts, Zenon DEF CategoryInv, EntryInv
<1>7. IdsInv' /\ GoneInv'
  BY <1>1, Zenon DEF PageInv, IdsInv, GoneInv
<1>8. ListInv'
  BY <1>1, <1>3, <1>4, Zenon DEF PageInv, ListInv
<1>9. PagesAgree'
  BY <1>1, <1>5, <1>6, IdFacts, Zenon DEF PageInv, PagesAgree
<1> QED
  BY <1>7, <1>8, <1>9, Zenon DEF PageInv

\* The heading of a post is the name that the list has for its category.
LEMMA PageBundle ==
  ASSUME TypeOK, CategoryInv, PageInv, Bundle, ~Return
  PROVE  PageInv'
<1>1. /\ UNCHANGED <<name, nextId, category, filed, known, home>>
      /\ pc = "summarize"
      /\ \A p \in Post : heading'[p] = HeadingOf(category[p])
      /\ todo' \subseteq Post
  BY Zenon DEF Bundle, Bundled, Having, table, posts
<1>2. IdsInv' /\ GoneInv' /\ PagesAgree'
  BY <1>1, Zenon DEF PageInv, IdsInv, GoneInv, PagesAgree
<1>3. ASSUME NEW p \in Post, category[p] # 0
      PROVE  IdOf(known, heading'[p]) = category[p]
  <2>1. category[p] \in Id /\ known[category[p]] # NoName
    BY <1>1, <1>3, Zenon DEF TypeOK, PageInv, ListInv
  <2>2. heading'[p] = known[category[p]]
    BY <1>1, <1>3, <2>1, Zenon DEF HeadingOf
  <2>3. \A j \in Id : known[category[p]] = known[j] => category[p] = j
    BY <1>1, <2>1, Zenon DEF PageInv, ListInv
  <2> QED
    BY <2>1, <2>2, <2>3, IdOfListed, Zenon
<1>4. ListInv'
  <2>1. \A p \in Post : FiledUnder(p)' = IdOf(known, heading'[p])
    BY <1>1, Zenon DEF FiledUnder, IdOf
  <2> QED
    BY <1>1, <1>3, <2>1, Zenon DEF PageInv, ListInv
<1> QED
  BY <1>2, <1>4, Zenon DEF PageInv

\* The digest that goes out or fails has no items yet.
LEMMA PageSend ==
  ASSUME TypeOK, CategoryInv, PageInv, Send \/ SendFails
  PROVE  PageInv'
<1> PICK t \in Try : Goes(t)
  BY DigestGoes
<1>1. /\ UNCHANGED <<name, nextId, category, filed, known, todo, heading>>
      /\ pc = "send"
      /\ \A e \in Entry : home'[e] = IF e[1] = t /\ e[2] \in todo
                                     THEN FiledUnder(e[2]) ELSE home[e]
  BY Zenon DEF Goes
<1>2. \A e \in Entry : e[1] = t /\ e[2] \in todo => filed[e] = NoRow
  <2>1. \A e \in Entry : e = <<e[1], e[2]>>
    BY EntryFacts, Zenon
  <2>2. \A p \in todo : filed[<<t, p>>] = NoRow
    BY Zenon DEF Goes
  <2> QED
    BY <2>1, <2>2, Zenon
<1>3. \A p \in Post : FiledUnder(p)' = FiledUnder(p)
  BY <1>1, Zenon DEF FiledUnder
<1>4. ASSUME NEW p \in Post PROVE FiledUnder(p) < nextId
  <2>1. CASE FiledUnder(p) = 0
    BY <2>1, SMT DEF TypeOK
  <2>2. CASE FiledUnder(p) # 0
    <3>1. FiledUnder(p) \in Id /\ known[FiledUnder(p)] = heading[p]
      BY <2>2, IdOfSpec, Zenon DEF FiledUnder
    <3>2. known[FiledUnder(p)] # NoName
      BY <3>1, NameAssumption, Zenon DEF TypeOK
    <3> QED
      BY <3>1, <3>2, Zenon DEF PageInv, IdsInv
  <2> QED
    BY <2>1, <2>2
<1>5. IdsInv'
  <2>1. ASSUME NEW e \in Entry PROVE home'[e] < nextId
    <3>1. e[2] \in Post /\ home[e] < nextId
      BY EntryFacts, Zenon DEF PageInv, IdsInv
    <3> QED
      BY <1>1, <1>4, <3>1, Zenon
  <2> QED
    BY <1>1, <2>1, Zenon DEF PageInv, IdsInv
<1>6. GoneInv'
  BY <1>1, <1>2, IdFacts, Zenon DEF PageInv, GoneInv
<1>7. ListInv'
  BY <1>1, <1>3, Zenon DEF PageInv, ListInv, TypeOK
<1>8. PagesAgree'
  BY <1>1, Zenon DEF PageInv, PagesAgree
<1> QED
  BY <1>5, <1>6, <1>7, <1>8, Zenon DEF PageInv

\* An item is filed under the row of its heading.
LEMMA PageAddItem ==
  ASSUME TypeOK, CategoryInv, PageInv, NEW p \in Post, AddItem(p)
  PROVE  PageInv'
<1> DEFINE item == <<try, p>>
<1>0. item \in Entry /\ item[2] = p
  BY EntryFacts, Zenon DEF TypeOK
<1>1. /\ UNCHANGED <<name, nextId, category, pc, known, heading, home>>
      /\ pc = "record" /\ p \in todo /\ todo' = todo \ {p}
      /\ \A e \in Entry : e # item => filed'[e] = filed[e]
      /\ filed'[item] \in {FiledUnder(p), filed[item]}
  BY <1>0, Zenon DEF AddItem, table, posts, TypeOK
<1>2. home[item] = FiledUnder(p)
  BY <1>1, Zenon DEF CategoryInv, WorkInv
<1> HIDE DEF item
<1>3. \A q \in Post : FiledUnder(q)' = FiledUnder(q)
  BY <1>1, Zenon DEF FiledUnder
<1>4. IdsInv'
  BY <1>1, Zenon DEF PageInv, IdsInv
<1>5. GoneInv'
  BY <1>1, <1>2, Zenon DEF PageInv, GoneInv
<1>6. ListInv'
  <2>1. \A q \in todo' : q \in todo /\ q \in Post
    BY <1>1, Zenon DEF TypeOK
  <2>2. ASSUME NEW q \in todo', category'[q] # 0
        PROVE  FiledUnder(q)' = category'[q]
    BY <1>1, <1>3, <2>1, <2>2, Zenon DEF PageInv, ListInv
  <2> QED
    BY <1>1, <2>2, Zenon DEF PageInv, ListInv
<1>7. PagesAgree'
  <2>1. category[p] # 0 => FiledUnder(p) = category[p]
    BY <1>1, Zenon DEF PageInv, ListInv
  <2> QED
    BY <1>0, <1>1, <2>1, Zenon DEF PageInv, PagesAgree
<1> QED
  BY <1>4, <1>5, <1>6, <1>7, Zenon DEF PageInv

\* Every step keeps what the two pages rest on.
LEMMA NextPage ==
  ASSUME TypeOK, CategoryInv, PageInv, [Next]_vars
  PROVE  PageInv'
<1>1. ASSUME NEW p \in Post, Summarize(p) \/ AddItem(p) PROVE PageInv'
  BY <1>1, PageSummarize, PageAddItem, Zenon
<1>2. CASE StartCycle \/ (Bundle /\ ~Return) \/ Send \/ SendFails
  BY <1>2, PageStart, PageBundle, PageSend, Zenon
<1>3. CASE Seeded \/ (Bundle /\ Return) \/ Finish \/ Restart \/ UNCHANGED vars
  <2>1. /\ UNCHANGED <<name, nextId, category, filed, home>>
        /\ \/ pc' \in {"seed", "idle"} /\ (UNCHANGED known \/ Return)
           \/ UNCHANGED <<pc, known, heading>> /\ todo' = todo
    BY <1>3, Zenon DEF Seeded, Bundle, Return, Finish, Restart, vars, table,
                       posts, cycle
  <2> QED
    BY <2>1, PageFrame, Zenon
<1>4. CASE Panel \/ \E n \in Shipped : Seed(n)
  BY <1>4, PageEdit, Zenon DEF Panel
<1> QED
  BY <1>1, <1>2, <1>3, <1>4, Zenon DEF Next, CycleStep, Boot

\* The three reads of the handler, in order.
LEMMA ReadOrder ==
  \A n \in 0..3 : /\ n \in DOMAIN Reads /\ Reads[n] = "cycle" <=> n = 1
                  /\ n \in DOMAIN Reads /\ Reads[n] = "items" <=> n = 2
                  /\ n \in DOMAIN Reads /\ Reads[n] = "categories" <=> n = 3
  BY SMT DEF Reads

\* At, for the request as it is and as it will be.
LEMMA Statements ==
  ASSUME view.at \in 0..3
  PROVE  /\ At("cycle") <=> view.at = 1
         /\ At("items") <=> view.at = 2
         /\ At("categories") <=> view.at = 3
  BY ReadOrder DEF At

LEMMA LaterStatements ==
  ASSUME view'.at \in 0..3
  PROVE  At("categories")' <=> view'.at = 3
  BY ReadOrder DEF At, Reads

\* What a request does to itself.
LEMMA ViewSteps ==
  ASSUME ViewTypeOK, View
  PROVE  \/ /\ view'.at \in {0, 1} /\ view'.finished = FALSE
            /\ view'.digest \in {{}, latest} /\ view'.rows = Unread
         \/ /\ view.at = 1 /\ view'.at = 2 /\ view'.finished = ~Pending
            /\ view'.digest = view.digest /\ view'.rows = view.rows
         \/ /\ view.at = 2 /\ view'.at = 3 /\ view'.finished = view.finished
            /\ view'.digest = view.digest
            /\ view'.rows = [e \in Entry |-> IF e \in view.digest THEN filed[e]
                                             ELSE NoRow]
<1>1. view.at \in 0..3
  BY DEF ViewTypeOK
<1>2. CASE Open
  <2>1. view' = [NoView EXCEPT !.at = 1, !.digest = latest]
    BY <1>2 DEF Open
  <2> QED
    BY <2>1 DEF NoView
<1>3. CASE GetCycle
  <2>1. /\ view.at = 1
        /\ view' = [view EXCEPT !.at = @ + 1, !.finished = ~Pending]
    BY <1>1, <1>3, Statements DEF GetCycle
  <2> QED
    BY <2>1 DEF ViewTypeOK
<1>4. CASE ListItems
  <2>1. /\ view.at = 2
        /\ view' = [view EXCEPT !.at = @ + 1,
                      !.rows = [e \in Entry |-> IF e \in view.digest THEN filed[e]
                                                ELSE NoRow]]
    BY <1>1, <1>4, Statements DEF ListItems
  <2> QED
    BY <2>1 DEF ViewTypeOK
<1>5. CASE Reply
  BY <1>5 DEF Reply, NoView
<1> QED
  BY <1>2, <1>3, <1>4, <1>5 DEF View

\* A request is at most at its third read, and its rows are those of items.
LEMMA NextView ==
  ASSUME TypeOK, ViewTypeOK, [HNext]_hvars
  PROVE  ViewTypeOK'
<1>1. CASE View /\ UNCHANGED <<vars, latest>>
  <2>1. views' \in 0..MaxViews
    BY <1>1, MaxViewsAssumption, SMT
       DEF View, Open, GetCycle, ListItems, Reply, ViewTypeOK
  <2>2. view' \in [at : 0..3, digest : SUBSET Entry, finished : BOOLEAN,
                   rows : [Entry -> Id \cup {0, NoRow}]]
    <3>1. CASE Open
      <4>1. Unread \in [Entry -> Id \cup {0, NoRow}]
        BY DEF Unread
      <4>2. view' = [NoView EXCEPT !.at = 1, !.digest = latest]
        BY <3>1 DEF Open
      <4>3. view' = [at |-> 1, digest |-> latest, finished |-> FALSE,
                     rows |-> Unread]
        BY <4>2 DEF NoView
      <4> QED
        BY <4>1, <4>3 DEF ViewTypeOK
    <3>2. CASE GetCycle
      <4> DEFINE over == ~Pending
      <4>1. over \in BOOLEAN
        BY DEF Pending
      <4>2. view.at + 1 \in 0..3
        BY <3>2, Statements DEF GetCycle, ViewTypeOK
      <4>3. view' = [view EXCEPT !.at = view.at + 1, !.finished = over]
        BY <3>2 DEF GetCycle
      <4> HIDE DEF over
      <4> QED
        BY <4>1, <4>2, <4>3 DEF ViewTypeOK
    <3>3. CASE ListItems
      <4> DEFINE read == [e \in Entry |-> IF e \in view.digest THEN filed[e]
                                          ELSE NoRow]
      <4>1. read \in [Entry -> Id \cup {0, NoRow}]
        BY DEF TypeOK
      <4>2. view.at + 1 \in 0..3
        BY <3>3, Statements DEF ListItems, ViewTypeOK
      <4>3. view' = [view EXCEPT !.at = view.at + 1, !.rows = read]
        BY <3>3 DEF ListItems
      <4> HIDE DEF read
      <4> QED
        BY <4>1, <4>2, <4>3 DEF ViewTypeOK
    <3>4. CASE Reply
      BY <3>4 DEF Reply, NoView, Unread
    <3> QED
      BY <1>1, <3>1, <3>2, <3>3, <3>4 DEF View
  <2> QED
    BY <1>1, <2>1, <2>2 DEF ViewTypeOK
<1>2. CASE Next /\ UNCHANGED <<view, views>>
           /\ latest' = IF pc = "send" /\ pc' = "record" THEN {try'} \X todo
                        ELSE latest
  <2>1. ASSUME pc = "send", pc' = "record" PROVE {try'} \X todo \subseteq Entry
    <3>1. Send \/ SendFails
      BY <1>2, <2>1, Zenon DEF Next, CycleStep, Panel, Boot, Restart, StartCycle,
         Summarize, Bundle, Return, AddItem, Finish, Seeded, Seed, Add, Rename,
         Remove, cycle
    <3>2. try' \in Try
      <4>1. 0 \in Try /\ (SendFails => failures + 1 \in Try)
        BY TryFacts DEF SendFails, TypeOK
      <4> QED
        BY <3>1, <4>1 DEF Send, SendFails
    <3> QED
      BY <3>2 DEF TypeOK, Entry
  <2> QED
    BY <1>2, <2>1 DEF ViewTypeOK
<1>3. CASE UNCHANGED hvars
  BY <1>3 DEF hvars, ViewTypeOK
<1> QED
  BY <1>1, <1>2, <1>3 DEF HNext

\* Only the delivery, or its failure, leads from the send to the record.
LEMMA OnlyDigestsGo ==
  ASSUME [Next]_vars, pc = "send", pc' = "record"
  PROVE  Send \/ SendFails
BY Zenon DEF Next, CycleStep, Panel, Boot, Restart, StartCycle, Summarize,
   Bundle, Return, AddItem, Finish, Seeded, Seed, Add, Rename, Remove, cycle, vars

\* An entry of a digest stays under its heading, its item stays, and so does
\* the reason why it is missing or filed under no category.
Stays(e) ==
  /\ home'[e] = home[e] /\ pulled \subseteq pulled'
  /\ filed[e] # NoRow => filed'[e] # NoRow
  /\ home[e] # 0 /\ name[home[e]] = NoName => name'[home[e]] = NoName

LEMMA EntryStays ==
  ASSUME TypeOK, CategoryInv, PageInv, [Next]_vars,
         NEW e \in Entry, home[e] # NoRow
  PROVE  Stays(e)
<1>0. home[e] \in Id \cup {0}
  BY Zenon DEF TypeOK
<1>1. ASSUME NEW n, Insert(n), UNCHANGED <<filed, home, pulled>>
      PROVE  Stays(e)
  <2>1. home[e] # nextId
    <3>1. home[e] < nextId
      BY DEF PageInv, IdsInv
    <3> QED
      BY <1>0, <3>1, SMT DEF TypeOK, Id
  <2>2. home[e] # 0 => name'[home[e]] = name[home[e]]
    BY <1>0, <1>1, <2>1, Zenon DEF Insert, TypeOK
  <2> QED
    BY <1>1, <2>2, Zenon DEF Stays
<1>2. CASE Panel \/ \E n \in Shipped : Seed(n)
  <2>1. ASSUME NEW i \in Id, Remove(i) PROVE Stays(e)
    <3>1. \A j \in Id : name[j] = NoName => name'[j] = NoName
      BY <2>1, Zenon DEF Remove, TypeOK
    <3>2. filed[e] # NoRow => filed'[e] # NoRow
      BY <2>1, IdFacts, Zenon DEF Remove, Nulled, TypeOK
    <3> QED
      BY <1>0, <2>1, <3>1, <3>2, Zenon DEF Remove, Stays
  <2>2. ASSUME NEW i \in Id, NEW n \in Name, Rename(i, n) PROVE Stays(e)
    <3>1. \A j \in Id : name[j] = NoName => name'[j] = NoName
      BY <2>2, Zenon DEF Rename, TypeOK
    <3> QED
      BY <1>0, <2>2, <3>1, Zenon DEF Rename, Stays
  <2>3. ASSUME NEW n, Add(n) \/ Seed(n) PROVE Stays(e)
    BY <1>1, <2>3, Zenon DEF Add, Seed
  <2> QED
    BY <1>2, <2>1, <2>2, <2>3, Zenon DEF Panel
<1>3. ASSUME UNCHANGED <<name, filed, home, pulled>> PROVE Stays(e)
  BY <1>3, Zenon DEF Stays
<1>4. CASE Send \/ SendFails
  <2> PICK t \in Try : Goes(t)
    BY <1>4, DigestGoes, Zenon
  <2>1. ~(e[1] = t /\ e[2] \in todo)
    <3>1. e = <<e[1], e[2]>>
      BY EntryFacts, Zenon
    <3>2. \A p \in todo : home[<<t, p>>] = NoRow
      BY Zenon DEF Goes
    <3> SUFFICES ASSUME e[1] = t, e[2] \in todo PROVE FALSE
      OBVIOUS
    <3>3. e = <<t, e[2]>>
      BY <3>1
    <3> QED
      BY <3>2, <3>3, Zenon
  <2>2. home'[e] = home[e] /\ UNCHANGED <<name, filed, pulled>>
    BY <2>1, Zenon DEF Goes
  <2> QED
    BY <2>2, Zenon DEF Stays
<1>5. ASSUME NEW q \in Post, AddItem(q) PROVE Stays(e)
  <2>1. FiledUnder(q) # NoRow
    BY IdOfSpec, IdFacts, Zenon DEF FiledUnder
  <2>2. filed[e] # NoRow => filed'[e] # NoRow
    BY <1>5, <2>1, Zenon DEF AddItem, TypeOK
  <2> QED
    BY <1>5, <2>2, Zenon DEF AddItem, Stays, table
<1>6. CASE StartCycle \/ \E q \in Post : Summarize(q)
  BY <1>3, <1>6, Zenon DEF StartCycle, Summarize, table
<1>7. CASE Seeded \/ Bundle \/ Finish \/ Restart \/ UNCHANGED vars
  BY <1>3, <1>7, Zenon DEF Seeded, Bundle, Finish, Restart, vars, table
<1> QED
  BY <1>2, <1>4, <1>5, <1>6, <1>7, Zenon DEF Next, CycleStep, Boot

\* What is on the page is in a digest, also when the next one goes out.
LEMMA NextDigest ==
  ASSUME TypeOK, ViewTypeOK, CategoryInv, PageInv, DigestInv, [HNext]_hvars
  PROVE  DigestInv'
<1>1. CASE View /\ UNCHANGED <<vars, latest>>
  <2>1. UNCHANGED <<home, try, pc, todo, latest>>
    BY <1>1 DEF vars, posts, cycle
  <2>2. view'.digest \in {view.digest, latest, {}}
    BY <1>1, ViewSteps
  <2> QED
    BY <2>1, <2>2 DEF DigestInv
<1>2. CASE Next /\ UNCHANGED <<view, views>>
           /\ latest' = IF pc = "send" /\ pc' = "record" THEN {try'} \X todo
                        ELSE latest
  <2>1. \A e \in latest \cup view.digest : home[e] # NoRow /\ home'[e] # NoRow
    BY <1>2, EntryStays DEF Stays, DigestInv, ViewTypeOK
  <2>2. CASE pc = "send" /\ pc' = "record"
    <3> PICK t \in Try : Goes(t)
      BY <1>2, <2>2, OnlyDigestsGo, DigestGoes
    <3>1. /\ todo' = todo /\ try' = t /\ latest' = {t} \X todo
          /\ view' = view
      BY <1>2, <2>2, Zenon DEF Goes
    <3>2. ASSUME NEW e \in latest'
          PROVE  home[e] = NoRow /\ home'[e] # NoRow
      <4>1. PICK p \in todo : e = <<t, p>>
        BY <3>1, <3>2
      <4>2. e \in Entry /\ e[1] = t /\ e[2] = p /\ home[e] = NoRow
        BY <4>1, EntryFacts, Zenon DEF Goes
      <4>3. FiledUnder(p) # NoRow
        BY IdOfSpec, IdFacts, Zenon DEF FiledUnder
      <4> QED
        BY <4>2, <4>3, Zenon DEF Goes
    <3> QED
      BY <2>1, <3>1, <3>2, Zenon DEF DigestInv
  <2>3. CASE ~(pc = "send" /\ pc' = "record")
    <3>1. pc' = "record" => pc = "record" /\ todo' \subseteq todo /\ try' = try
      BY <1>2, <2>3, Zenon DEF Next, CycleStep, Panel, Boot, Restart, Send,
         SendFails, StartCycle, Summarize, Bundle, Return, AddItem, Finish,
         Seeded, Seed, Add, Rename, Remove, cycle
    <3> QED
      BY <1>2, <2>1, <2>3, <3>1 DEF DigestInv
  <2> QED
    BY <2>2, <2>3
<1>3. CASE UNCHANGED hvars
  BY <1>3 DEF hvars, vars, posts, cycle, DigestInv
<1> QED
  BY <1>1, <1>2, <1>3 DEF HNext

\* What a request has read stays true of the rows.
LEMMA NextRead ==
  ASSUME TypeOK, ViewTypeOK, ViewTypeOK', CategoryInv, PageInv, DigestInv,
         ReadInv, [HNext]_hvars
  PROVE  ReadInv'
<1>1. view.at \in 0..3 /\ view'.at \in 0..3 /\ view.digest \subseteq Entry
  BY DEF ViewTypeOK
<1>2. CASE View /\ UNCHANGED <<vars, latest>>
  <2>1. UNCHANGED <<name, filed, pc, todo, try, home, pulled>>
    BY <1>2 DEF vars, posts, cycle, table
  <2>2. CASE /\ view'.at \in {0, 1} /\ view'.finished = FALSE
    BY <1>1, <2>2, LaterStatements DEF ReadInv
  <2>3. CASE /\ view.at = 1 /\ view'.at = 2 /\ view'.finished = ~Pending
             /\ view'.digest = view.digest
    <3>1. ASSUME ~Pending, NEW e \in view.digest
          PROVE  filed[e] # NoRow \/ home[e] \in pulled
      <4>1. e \in Entry /\ home[e] # NoRow
        BY <1>1 DEF DigestInv
      <4>2. ~Unwritten(e)
        <5> SUFFICES ASSUME Unwritten(e) PROVE FALSE
          OBVIOUS
        <5>1. e \in {try} \X todo
          BY <4>1, EntryFacts DEF Unwritten
        <5>2. pc = "record" /\ e \in latest
          BY <5>1 DEF Unwritten, DigestInv
        <5> QED
          BY <3>1, <5>2 DEF Pending, DigestInv
      <4> QED
        BY <4>1, <4>2 DEF CategoryInv, MissingOnlyIfPulled
    <3>2. view'.finished =>
            \A e \in view'.digest : filed'[e] # NoRow \/ home'[e] \in pulled'
      BY <2>1, <2>3, <3>1, Zenon
    <3>3. ~At("categories")'
      BY <1>1, <2>3, LaterStatements
    <3> QED
      BY <3>2, <3>3 DEF ReadInv
  <2>4. CASE /\ view.at = 2 /\ view'.at = 3 /\ view'.finished = view.finished
             /\ view'.digest = view.digest
             /\ view'.rows = [e \in Entry |-> IF e \in view.digest THEN filed[e]
                                              ELSE NoRow]
    <3>1. \A e \in Entry : view'.rows[e] = IF e \in view.digest THEN filed[e]
                                           ELSE NoRow
      BY <2>4
    <3>2. \A e \in Entry : filed[e] \in {NoRow, 0, home[e]}
      BY DEF CategoryInv, FiledAsDelivered
    <3>3. \A e \in Entry : filed[e] = 0 => home[e] = 0 \/ name[home[e]] = NoName
      BY DEF PageInv, GoneInv
    <3> QED
      BY <1>1, <2>1, <2>4, <3>1, <3>2, <3>3, IdFacts DEF ReadInv
  <2> QED
    BY <1>2, <2>2, <2>3, <2>4, ViewSteps
<1>3. CASE [Next]_vars /\ view' = view
  <2>1. ASSUME NEW e \in view.digest
        PROVE  /\ e \in Entry /\ home'[e] = home[e] /\ pulled \subseteq pulled'
               /\ filed[e] # NoRow => filed'[e] # NoRow
               /\ home[e] # 0 /\ name[home[e]] = NoName => name'[home[e]] = NoName
    BY <1>1, <1>3, EntryStays DEF Stays, DigestInv
  <2>2. At("categories")' => At("categories")
    BY <1>3 DEF At, Reads
  <2>3. view.finished =>
          \A e \in view.digest : filed'[e] # NoRow \/ home'[e] \in pulled'
    BY <2>1 DEF ReadInv
  <2>4. ASSUME At("categories"), NEW e \in Entry
        PROVE  /\ view.finished /\ e \in view.digest =>
                    view.rows[e] # NoRow \/ home'[e] \in pulled'
               /\ view.rows[e] # NoRow =>
                    e \in view.digest /\ view.rows[e] \in {0, home'[e]}
               /\ view.rows[e] = 0 => home'[e] = 0 \/ name'[home'[e]] = NoName
    <3>1. CASE e \in view.digest
      BY <2>1, <2>4, <3>1 DEF ReadInv
    <3>2. CASE e \notin view.digest
      <4>1. view.rows[e] = NoRow
        BY <2>4, <3>2 DEF ReadInv
      <4> QED
        BY <3>2, <4>1, IdFacts
    <3> QED
      BY <3>1, <3>2
  <2> QED
    BY <1>3, <2>2, <2>3, <2>4 DEF ReadInv
<1> QED
  BY <1>2, <1>3 DEF HNext, hvars

\* The inductive invariant of the pages.
THEOREM HistoryInvariant == HSpec => [](ViewTypeOK /\ HistoryInv)
<1>1. HInit => ViewTypeOK /\ HistoryInv
  <2> SUFFICES ASSUME HInit PROVE ViewTypeOK /\ HistoryInv
    OBVIOUS
  <2>1. view.at = 0 /\ view.digest = {} /\ view.finished = FALSE /\ latest = {}
    BY DEF HInit, NoView
  <2>2. Unread \in [Entry -> Id \cup {0, NoRow}]
    BY DEF Unread
  <2>3. ViewTypeOK
    BY <2>2, MaxViewsAssumption DEF HInit, NoView, ViewTypeOK
  <2>4. PageInv
    <3>1. GoneInv /\ ListInv /\ PagesAgree
      BY IdFacts, Zenon DEF HInit, Init, GoneInv, ListInv, PagesAgree
    <3>2. \A e \in Entry : home[e] = -1
      BY DEF HInit, Init, NoRow
    <3>3. IdsInv
      BY <3>2, SMT DEF HInit, Init, NoRows, IdsInv
    <3> QED
      BY <3>1, <3>3 DEF PageInv
  <2>5. DigestInv
    BY <2>1 DEF HInit, Init, DigestInv
  <2>6. ReadInv
    BY <2>1, Statements DEF ReadInv
  <2> QED
    BY <2>3, <2>4, <2>5, <2>6 DEF HistoryInv
<1>2. /\ TypeOK /\ CategoryInv
      /\ ViewTypeOK /\ HistoryInv
      /\ [HNext]_hvars
      => ViewTypeOK' /\ HistoryInv'
  <2> SUFFICES ASSUME TypeOK, CategoryInv, ViewTypeOK, HistoryInv, [HNext]_hvars
               PROVE  ViewTypeOK' /\ HistoryInv'
    OBVIOUS
  <2>1. [Next]_vars
    BY DEF HNext, hvars
  <2>2. PageInv'
    BY <2>1, NextPage DEF HistoryInv
  <2>3. ViewTypeOK' /\ DigestInv'
    BY NextView, NextDigest DEF HistoryInv
  <2>4. ReadInv'
    BY <2>3, NextRead DEF HistoryInv
  <2> QED
    BY <2>2, <2>3, <2>4 DEF HistoryInv
<1>3. HSpec => [](TypeOK /\ CategoryInv)
  BY PanelReadsOnly, CategoryInvariant, PTL
<1> QED
  BY <1>1, <1>2, <1>3, PTL DEF HSpec

\* The answer of the handler is always of the shape the page expects.
THEOREM PageIsWellFormed == HSpec => []ViewTypeOK
  BY HistoryInvariant, PTL

\* A page that says the cycle is over shows its whole digest, whether it was
\* delivered or failed: the handler reads the status first and the cycle writes
\* it last.
THEOREM PageIsComplete == HSpec => []FinishedPageIsComplete
<1>1. ViewTypeOK /\ HistoryInv => FinishedPageIsComplete
  <2> SUFFICES ASSUME ViewTypeOK, HistoryInv, At("categories"), view.finished,
                      NEW e \in view.digest
               PROVE  view.rows[e] # NoRow \/ home[e] \in pulled
    BY DEF FinishedPageIsComplete
  <2> QED
    BY DEF HistoryInv, ReadInv, ViewTypeOK
<1> QED
  BY <1>1, HistoryInvariant, PTL

\* The page groups a post under the present name of the category it was
\* delivered under, whatever the panel did between the reads.
THEOREM PageGroupsAsDelivered == HSpec => []GroupedAsDelivered
<1>1. ViewTypeOK /\ HistoryInv => GroupedAsDelivered
  BY DEF ViewTypeOK, HistoryInv, ReadInv, GroupedAsDelivered, Group
<1> QED
  BY <1>1, HistoryInvariant, PTL

\* The queue and the history never file a post under two categories.
THEOREM QueueAndHistoryAgree == HSpec => []PagesAgree
<1>1. HistoryInv => PagesAgree
  BY DEF HistoryInv, PageInv
<1> QED
  BY <1>1, HistoryInvariant, PTL

============================================================================
