------------------------- MODULE SettingsRowProofs -------------------------
(***************************************************************************)
(* Proofs about SettingsRow: what an update set is only ever undone by a   *)
(* writer that took its values before.                                     *)
(***************************************************************************)
EXTENDS SettingsRow, TLAPS

----------------------------------------------------------------------------
(* Rows and patches. *)

LEMMA RowsArePatches ==
  /\ Row \subseteq Patch /\ Nothing \in Patch
  /\ Sets(Nothing) = {} /\ Nothing.interval # Bad /\ Nothing.label # Bad
  /\ Seed \in Row
  /\ \A r \in Row : /\ Sets(r) = Field
                    /\ r.interval # Bad /\ r.label # Bad
<1>1. Row \subseteq Patch /\ Nothing \in Patch
  BY SMT DEF Row, Patch, Nothing, Field
<1>2. Sets(Nothing) = {} /\ Nothing.interval # Bad /\ Nothing.label # Bad
  BY ValuesAssumption, SMT DEF Sets, Nothing, Field
<1>3. Seed \in Row
  BY ValuesAssumption, SMT DEF Row, Seed
<1>4. ASSUME NEW r \in Row PROVE Sets(r) = Field /\ r.interval # Bad /\ r.label # Bad
  BY ValuesAssumption, SMT DEF Row, Sets, Field
<1> QED
  BY <1>1, <1>2, <1>3, <1>4

\* Field by field, what the UPDATE writes.
LEMMA MergedFacts ==
  ASSUME NEW w, form[w] \in Patch, cur[w] \in Row,
         form[w].interval # Bad, form[w].label # Bad
  PROVE  /\ Merged(w) \in Row
         /\ \A f \in Sets(form[w]) : Merged(w)[f] = form[w][f]
         /\ \A f \in Field \ Sets(form[w]) : Merged(w)[f] = cur[w][f]
<1>1. Merged(w) \in Row
  BY SMT DEF Merged, Row, Patch
<1>2. \A f \in Sets(form[w]) : Merged(w)[f] = form[w][f]
  BY SMT DEF Merged, Sets, Field
<1>3. \A f \in Field \ Sets(form[w]) : Merged(w)[f] = cur[w][f]
  BY SMT DEF Merged, Sets, Field
<1> QED
  BY <1>1, <1>2, <1>3

LEMMA OverwriteFacts ==
  ASSUME NEW old \in Row, NEW new \in Patch, NEW fields \in SUBSET Field,
         fields \subseteq Sets(new), new.interval # Bad, new.label # Bad
  PROVE  /\ Overwrite(old, new, fields) \in Row
         /\ \A f \in fields : Overwrite(old, new, fields)[f] = new[f]
         /\ \A f \in Field \ fields : Overwrite(old, new, fields)[f] = old[f]
<1>1. Overwrite(old, new, fields) \in Row
  BY SMT DEF Overwrite, Row, Patch, Sets, Field
<1>2. \A f \in fields : Overwrite(old, new, fields)[f] = new[f]
  BY SMT DEF Overwrite, Field
<1>3. \A f \in Field \ fields : Overwrite(old, new, fields)[f] = old[f]
  BY SMT DEF Overwrite, Field
<1> QED
  BY <1>1, <1>2, <1>3

----------------------------------------------------------------------------
(* Type correctness, which needs that a request in flight was validated and *)
(* that nobody writes before there is a row.                                *)

Sound == TypeOK /\ (\A w \in Writer : Validated(w)) /\ UntilFirstBoot

LEMMA SoundBoot ==
  ASSUME Sound, Boot \/ Crash PROVE Sound'
<1> USE DEF Sound, TypeOK
<1>1. CASE Boot
  <2>1. row' \in Row /\ row' # NoRow
    BY <1>1, RowsArePatches, ValuesAssumption, Zenon DEF Boot, SeedDefaults
  <2> QED
    BY <1>1, <2>1, Zenon
       DEF Boot, writers, counters, history, Validated, UntilFirstBoot
<1>2. CASE Crash
  <2>1. \A w \in Writer : Validated(w)'
    <3> SUFFICES ASSUME NEW w \in Writer PROVE Validated(w)'
      OBVIOUS
    <3>1. CASE step[w] = "open"
      <4>1. form'[w] = form[w] /\ step'[w] = "open" /\ edited'[w] = {}
        BY <1>2, <3>1, Zenon DEF Crash
      <4> QED
        BY <4>1, Zenon DEF Validated
    <3>2. CASE step[w] # "open"
      <4>1. form'[w] = Nothing /\ edited'[w] = {}
        BY <1>2, <3>2, Zenon DEF Crash
      <4> QED
        BY <4>1, RowsArePatches, Zenon DEF Validated
    <3> QED
      BY <3>1, <3>2
  <2>2. faults' \in 0..MaxFaults
    BY <1>2, BoundsAssumption, SMT DEF Crash
  <2>3. form' \in [Writer -> Patch]
    BY <1>2, RowsArePatches, Zenon DEF Crash
  <2>4. step' \in [Writer -> {"idle", "open", "found", "sent", "read"}]
    BY <1>2, Zenon DEF Crash
  <2>5. stale' \in [Writer -> SUBSET Field] /\ edited' \in [Writer -> SUBSET Field]
    BY <1>2, Zenon DEF Crash
  <2>6. cur' \in [Writer -> Row]
    BY <1>2, RowsArePatches, Zenon DEF Crash
  <2> QED
    BY <1>2, <2>1, <2>2, <2>3, <2>4, <2>5, <2>6, Zenon
       DEF Crash, database, UntilFirstBoot
<1> QED
  BY <1>1, <1>2

\* The writer is done and its form is empty.
LEMMA SoundDone ==
  ASSUME Sound, NEW w \in Writer, Done(w)
  PROVE  /\ step' \in [Writer -> {"idle", "open", "found", "sent", "read"}]
         /\ form' \in [Writer -> Patch] /\ cur' \in [Writer -> Row]
         /\ edited' \in [Writer -> SUBSET Field]
         /\ \A v \in Writer : Validated(v)'
<1> USE DEF Sound, TypeOK
<1>1. form' \in [Writer -> Patch] /\ cur' \in [Writer -> Row]
  BY RowsArePatches, Zenon DEF Done
<1>2. /\ step' \in [Writer -> {"idle", "open", "found", "sent", "read"}]
      /\ edited' \in [Writer -> SUBSET Field]
  BY Zenon DEF Done
<1>3. ASSUME NEW v \in Writer PROVE Validated(v)'
  <2>2. CASE v = w
    <3>1. form'[v] = Nothing /\ edited'[v] = {}
      BY <2>2, Zenon DEF Done
    <3> QED
      BY <3>1, RowsArePatches, Zenon DEF Validated
  <2>3. CASE v # w
    <3>1. form'[v] = form[v] /\ step'[v] = step[v] /\ edited'[v] = edited[v]
      BY <2>3, Zenon DEF Done
    <3> QED
      BY <3>1, Zenon DEF Validated
  <2> QED
    BY <2>2, <2>3
<1> QED
  BY <1>1, <1>2, <1>3

\* A writer gets a form that was validated, or starts from the row.
LEMMA SoundForm ==
  ASSUME Sound, NEW w \in Writer, NEW new \in Patch,
         new.interval # Bad, new.label # Bad,
         NEW s \in {"open", "found", "sent"},
         form' = [form EXCEPT ![w] = new], step' = [step EXCEPT ![w] = s],
         edited'[w] \subseteq Sets(new), s = "open" => edited'[w] = {},
         \A v \in Writer \ {w} : edited'[v] = edited[v]
  PROVE  /\ step' \in [Writer -> {"idle", "open", "found", "sent", "read"}]
         /\ form' \in [Writer -> Patch]
         /\ \A v \in Writer : Validated(v)'
<1> USE DEF Sound, TypeOK
<1>1. /\ step' \in [Writer -> {"idle", "open", "found", "sent", "read"}]
      /\ form' \in [Writer -> Patch]
  BY Zenon
<1>2. ASSUME NEW v \in Writer PROVE Validated(v)'
  <2>1. CASE v = w
    <3>1. form'[v] = new /\ step'[v] = s
      BY <2>1, Zenon
    <3> QED
      BY <3>1, Zenon DEF Validated
  <2>2. CASE v # w
    <3>1. form'[v] = form[v] /\ step'[v] = step[v] /\ edited'[v] = edited[v]
      BY <2>2, Zenon
    <3> QED
      BY <3>1, Zenon DEF Validated
  <2> QED
    BY <2>1, <2>2
<1> QED
  BY <1>1, <1>2

LEMMA SoundOperator ==
  ASSUME Sound, Operator PROVE Sound'
<1> USE DEF Sound
<1>0. row \in Row /\ row # NoRow /\ row' = row
  BY Zenon DEF TypeOK, UntilFirstBoot, Operator, Load, Save, Request, database
<1>1. ASSUME NEW p \in Page, Load(p) PROVE Sound'
  <2> USE DEF TypeOK
  <2>1. row \in Patch /\ row.interval # Bad /\ row.label # Bad /\ p \in Writer
    BY <1>0, RowsArePatches, Zenon DEF Writer
  <2>2. /\ step' \in [Writer -> {"idle", "open", "found", "sent", "read"}]
        /\ form' \in [Writer -> Patch]
        /\ \A v \in Writer : Validated(v)'
    <3>1. edited[p] = {}
      BY <1>1, <2>1, RowsArePatches, Zenon DEF Load, Validated
    <3> QED
      BY <1>1, <2>1, <3>1, SoundForm, Zenon DEF Load
  <2>3. stale' \in [Writer -> SUBSET Field]
    BY <1>1, Zenon DEF Load
  <2> QED
    BY <1>0, <1>1, <2>2, <2>3, Zenon DEF Load, database, counters, UntilFirstBoot
<1>2. ASSUME NEW p \in Page, Save(p) PROVE Sound'
  <2> USE DEF TypeOK
  <2>1. PICK new \in Row :
          /\ form' = [form EXCEPT ![p] = new]
          /\ edited' = [edited EXCEPT ![p] = {f \in Field : new[f] # form[p][f]}]
    BY <1>2, Zenon DEF Save
  <2>2. new \in Patch /\ new.interval # Bad /\ new.label # Bad /\ p \in Writer
    BY RowsArePatches, Zenon DEF Writer
  <2>3. /\ step' \in [Writer -> {"idle", "open", "found", "sent", "read"}]
        /\ form' \in [Writer -> Patch]
        /\ \A v \in Writer : Validated(v)'
    <3>1. edited'[p] \subseteq Sets(new)
      BY <2>1, <2>2, RowsArePatches, Zenon
    <3> QED
      BY <1>2, <2>1, <2>2, <3>1, SoundForm, Zenon DEF Save
  <2>4. edited' \in [Writer -> SUBSET Field]
    BY <2>1, Zenon
  <2>5. requests' \in 0..MaxRequests
    BY <1>2, BoundsAssumption, SMT DEF Save
  <2> QED
    BY <1>0, <1>2, <2>3, <2>4, <2>5, Zenon
       DEF Save, database, history, UntilFirstBoot
<1>3. ASSUME NEW c \in Script, Request(c) PROVE Sound'
  <2> USE DEF TypeOK
  <2>1. PICK patch \in Patch :
          /\ Valid(patch)
          /\ form' = [form EXCEPT ![c] = patch]
          /\ edited' = [edited EXCEPT ![c] = Sets(patch)]
    BY <1>3, Zenon DEF Request
  <2>2. patch.interval # Bad /\ patch.label # Bad /\ c \in Writer
    BY <2>1, Zenon DEF Writer, Valid, Acceptable
  <2>3. /\ step' \in [Writer -> {"idle", "open", "found", "sent", "read"}]
        /\ form' \in [Writer -> Patch]
        /\ \A v \in Writer : Validated(v)'
    BY <1>3, <2>1, <2>2, SoundForm, Zenon DEF Request
  <2>4. edited' \in [Writer -> SUBSET Field]
    BY <2>1, Zenon DEF Sets
  <2>5. requests' \in 0..MaxRequests
    BY <1>3, BoundsAssumption, SMT DEF Request
  <2> QED
    BY <1>0, <1>3, <2>3, <2>4, <2>5, Zenon
       DEF Request, database, history, UntilFirstBoot
<1> QED
  BY <1>1, <1>2, <1>3, Zenon DEF Operator

LEMMA SoundCallback ==
  ASSUME Sound, Callback \/ Discovery PROVE Sound'
<1> USE DEF Sound, TypeOK
<1> Bot \in Writer
  BY Zenon DEF Writer
<1>1. CASE SkipKnown
  BY <1>1, SoundDone, Zenon DEF SkipKnown, database, counters, history, UntilFirstBoot
<1>2. CASE Persist
  <2>1. step' \in [Writer -> {"idle", "open", "found", "sent", "read"}]
    BY <1>2, Zenon DEF Persist
  <2>2. ASSUME NEW v \in Writer PROVE Validated(v)'
    BY <1>2, Zenon DEF Persist, Validated
  <2>3. row # NoRow
    BY <1>2, Zenon DEF Persist, UntilFirstBoot
  <2> QED
    BY <1>2, <2>1, <2>2, <2>3, Zenon
       DEF Persist, database, counters, history, UntilFirstBoot
<1>3. ASSUME NEW chat \in Chat \ {NoChat}, Message(chat) PROVE Sound'
  <2> DEFINE new == [Nothing EXCEPT !.chat = chat]
  <2>1. new \in Patch /\ new.interval # Bad /\ new.label # Bad
    BY ValuesAssumption, SMT DEF Nothing, Patch, Field
  <2>2. /\ step' \in [Writer -> {"idle", "open", "found", "sent", "read"}]
        /\ form' \in [Writer -> Patch]
        /\ \A v \in Writer : Validated(v)'
    <3>1. {"chat"} \subseteq Sets(new)
      BY ValuesAssumption, SMT DEF Nothing, Sets, Field
    <3> QED
      BY <1>3, <2>1, <3>1, SoundForm, Zenon DEF Message
  <2>3. edited' \in [Writer -> SUBSET Field]
    BY <1>3, Zenon DEF Message, Field
  <2>4. heard' \subseteq Chat /\ stored' \subseteq Chat
    BY <1>3, Zenon DEF Message
  <2>5. messages' \in 0..MaxMessages
    BY <1>3, BoundsAssumption, SMT DEF Message
  <2>6. row # NoRow
    BY <1>3, Zenon DEF Message, UntilFirstBoot
  <2> QED
    BY <1>3, <2>2, <2>3, <2>4, <2>5, <2>6, Zenon DEF Message, database, UntilFirstBoot
<1> QED
  BY <1>1, <1>2, <1>3, Zenon DEF Callback, Discovery

LEMMA SoundUpdate ==
  ASSUME Sound, NEW w \in Writer, Read(w) \/ Write(w) \/ Fail(w) PROVE Sound'
<1> USE DEF Sound, TypeOK
<1>0. row \in Row /\ row # NoRow
  BY Zenon DEF UntilFirstBoot, Read, Write, Fail
<1>1. CASE Read(w)
  <2>1. step' \in [Writer -> {"idle", "open", "found", "sent", "read"}]
    BY <1>1, Zenon DEF Read
  <2>2. cur' \in [Writer -> Row]
    BY <1>0, <1>1, Zenon DEF Read
  <2>3. stale' \in [Writer -> SUBSET Field]
    BY <1>1, Zenon DEF Read
  <2>4. ASSUME NEW v \in Writer PROVE Validated(v)'
    BY <1>1, Zenon DEF Read, Validated
  <2> QED
    BY <1>0, <1>1, <2>1, <2>2, <2>3, <2>4, Zenon
       DEF Read, database, counters, UntilFirstBoot
<1>2. CASE Fail(w)
  <2>1. stale' \in [Writer -> SUBSET Field]
    BY <1>2, Zenon DEF Fail
  <2>2. faults' \in 0..MaxFaults
    BY <1>2, BoundsAssumption, SMT DEF Fail
  <2> QED
    BY <1>0, <1>2, <2>1, <2>2, SoundDone, Zenon DEF Fail, database, UntilFirstBoot
<1>3. CASE Write(w)
  <2>1. Merged(w) \in Row
    BY MergedFacts, Zenon DEF Validated
  <2>2. row' \in Row /\ row' # NoRow
    BY <1>3, <2>1, ValuesAssumption, Zenon DEF Write
  <2>3. intended' \in Row
    <3>1. intended' = Overwrite(intended, form[w], edited[w])
      BY <1>3, Zenon DEF Write
    <3> QED
      BY <3>1, OverwriteFacts, Zenon DEF Validated
  <2>4. lost' \subseteq Field /\ stale' \in [Writer -> SUBSET Field]
    BY <1>3, Zenon DEF Write
  <2>5. stored' \subseteq Chat
    BY <1>3, Zenon DEF Write
  <2>6. /\ step' \in [Writer -> {"idle", "open", "found", "sent", "read"}]
        /\ edited' \in [Writer -> SUBSET Field]
        /\ cur' \in [Writer -> Row]
    BY <1>3, RowsArePatches, Zenon DEF Write
  <2>7. form' \in [Writer -> Patch]
    BY <1>3, <2>2, RowsArePatches, Zenon DEF Write
  <2>8. ASSUME NEW v \in Writer PROVE Validated(v)'
    <3>1. CASE v = w
      <4>1. /\ edited'[v] = {}
            /\ \/ form'[v] = row' /\ step'[v] = "open"
               \/ form'[v] = Nothing
        BY <1>3, <3>1, Zenon DEF Write
      <4> QED
        BY <2>2, <4>1, RowsArePatches, Zenon DEF Validated
    <3>2. CASE v # w
      <4>1. form'[v] = form[v] /\ step'[v] = step[v] /\ edited'[v] = edited[v]
        BY <1>3, <3>2, Zenon DEF Write
      <4> QED
        BY <4>1, Zenon DEF Validated
    <3> QED
      BY <3>1, <3>2
  <2> QED
    BY <1>3, <2>2, <2>3, <2>4, <2>5, <2>6, <2>7, <2>8, Zenon
       DEF Write, counters, UntilFirstBoot
<1> QED
  BY <1>1, <1>2, <1>3

----------------------------------------------------------------------------
(* What writers carry. *)

Carries == LostOnlyToStaleWriter /\ \A w \in Writer : CarriesOld(w)

\* A step that sets nothing and leaves the forms alone.
LEMMA CarriesIdle ==
  ASSUME Carries, UNCHANGED <<row, form, cur, edited, intended, stale, lost>>,
         \A w \in Writer : step'[w] = "read" => step[w] = "read"
  PROVE  Carries'
<1>1. LostOnlyToStaleWriter'
  BY Zenon DEF Carries, LostOnlyToStaleWriter
<1>2. ASSUME NEW v \in Writer PROVE CarriesOld(v)'
  BY Zenon DEF Carries, CarriesOld, Sets
<1> QED
  BY <1>1, <1>2, Zenon DEF Carries

\* A writer is given a new form, of which it means to change every field that
\* is not intended already; the others keep theirs.
LEMMA CarriesForm ==
  ASSUME Carries, NEW w \in Writer, UNCHANGED <<row, intended, lost>>,
         step'[w] # "read",
         \A f \in Sets(form'[w]) \ edited'[w] :
           form'[w][f] = intended[f] \/ f \in stale'[w] \cup lost,
         \A v \in Writer \ {w} :
           /\ form'[v] = form[v] /\ cur'[v] = cur[v] /\ stale'[v] = stale[v]
           /\ edited'[v] = edited[v] /\ step'[v] = step[v]
  PROVE  Carries'
<1>1. LostOnlyToStaleWriter'
  BY Zenon DEF Carries, LostOnlyToStaleWriter
<1>2. CarriesOld(w)'
  BY Zenon DEF CarriesOld, Sets
<1>3. ASSUME NEW v \in Writer \ {w} PROVE CarriesOld(v)'
  BY Zenon DEF Carries, CarriesOld, Sets
<1> QED
  BY <1>1, <1>2, <1>3, Zenon DEF Carries

LEMMA CarriesRead ==
  ASSUME Sound, Carries, NEW w \in Writer, Read(w) PROVE Carries'
<1>0. row # NoRow
  BY Zenon DEF Sound, UntilFirstBoot, Read
<1>1. LostOnlyToStaleWriter'
  BY Zenon DEF Carries, LostOnlyToStaleWriter, Read, database
<1>2. CarriesOld(w)'
  <2>1. /\ form'[w] = form[w] /\ edited'[w] = edited[w] /\ cur'[w] = row
        /\ stale'[w] = stale[w] \cap Sets(form[w])
        /\ lost' = lost /\ intended' = intended
    BY Zenon DEF Read, Sound, TypeOK
  <2>2. Sets(form[w])' = Sets(form[w])
    BY <2>1, Zenon DEF Sets
  <2>3. \A f \in Field : row[f] = intended[f] \/ f \in lost
    BY <1>0, Zenon DEF Carries, LostOnlyToStaleWriter
  <2>4. \A f \in Sets(form[w]) \ edited[w] :
           form[w][f] = intended[f] \/ f \in stale[w] \cup lost
    BY Zenon DEF Carries, CarriesOld
  <2> QED
    BY <2>1, <2>2, <2>3, <2>4, Zenon DEF CarriesOld
<1>3. ASSUME NEW v \in Writer \ {w} PROVE CarriesOld(v)'
  BY Zenon DEF Carries, CarriesOld, Sets, Read, Sound, TypeOK
<1> QED
  BY <1>1, <1>2, <1>3, Zenon DEF Carries

\* What the UPDATE puts into a field that the writer does not mean to change
\* is intended, or the field becomes lost.
LEMMA CarriesWrite ==
  ASSUME Sound, Carries, NEW w \in Writer, Write(w) PROVE Carries'
<1> DEFINE Set == Sets(form[w])
<1>1. /\ Merged(w) \in Row
      /\ \A f \in Set : Merged(w)[f] = form[w][f]
      /\ \A f \in Field \ Set : Merged(w)[f] = cur[w][f]
  BY MergedFacts, Zenon DEF Sound, TypeOK, Validated
<1>2. /\ \A f \in edited[w] : intended'[f] = form[w][f]
      /\ \A f \in Field \ edited[w] : intended'[f] = intended[f]
  <2>1. intended' = Overwrite(intended, form[w], edited[w])
    BY Zenon DEF Write
  <2>2. /\ intended \in Row /\ form[w] \in Patch /\ edited[w] \in SUBSET Field
        /\ edited[w] \subseteq Sets(form[w])
        /\ form[w].interval # Bad /\ form[w].label # Bad
    BY Zenon DEF Sound, TypeOK, Validated
  <2>3. /\ \A f \in edited[w] :
             Overwrite(intended, form[w], edited[w])[f] = form[w][f]
        /\ \A f \in Field \ edited[w] :
             Overwrite(intended, form[w], edited[w])[f] = intended[f]
    BY <2>2, OverwriteFacts, Zenon
  <2> QED
    BY <2>1, <2>3, Zenon
<1>3. edited[w] \subseteq Set /\ edited[w] \subseteq Field
  BY Zenon DEF Sound, TypeOK, Validated
<1>4. row' = Merged(w) /\ lost' = (lost \cup stale[w]) \ edited[w] /\ step[w] = "read"
  BY Zenon DEF Write
<1>5. \A f \in Field : row'[f] = intended'[f] \/ f \in lost'
  <2> SUFFICES ASSUME NEW f \in Field, f \notin lost'
               PROVE  row'[f] = intended'[f]
    OBVIOUS
  <2>1. CASE f \in edited[w]
    BY <1>1, <1>2, <1>3, <1>4, <2>1, Zenon
  <2>2. CASE f \in Set \ edited[w]
    <3>1. form[w][f] = intended[f]
      BY <1>4, <2>2, Zenon DEF Carries, CarriesOld
    <3> QED
      BY <1>1, <1>2, <1>4, <2>2, <3>1, Zenon
  <2>3. CASE f \notin Set
    <3>1. cur[w][f] = intended[f]
      BY <1>3, <1>4, <2>3, Zenon DEF Carries, CarriesOld
    <3> QED
      BY <1>1, <1>2, <1>3, <1>4, <2>3, <3>1, Zenon
  <2> QED
    BY <2>1, <2>2, <2>3, Zenon
<1>6. CarriesOld(w)'
  <2>1. step'[w] # "read" /\ edited'[w] = {}
    BY Zenon DEF Write, Sound, TypeOK
  <2>2. CASE w \in Page
    <3>1. form'[w] = row'
      BY <2>2, Zenon DEF Write, Sound, TypeOK
    <3> QED
      BY <1>5, <2>1, <3>1, Zenon DEF CarriesOld, Sets
  <2>3. CASE w \notin Page
    <3>1. form'[w] = Nothing
      BY <2>3, Zenon DEF Write, Sound, TypeOK
    <3>2. Sets(form[w])' = {}
      BY <3>1, RowsArePatches, Zenon DEF Sets
    <3> QED
      BY <2>1, <3>2, Zenon DEF CarriesOld
  <2> QED
    BY <2>2, <2>3
<1>7. ASSUME NEW v \in Writer \ {w} PROVE CarriesOld(v)'
  <2>1. /\ form'[v] = form[v] /\ cur'[v] = cur[v] /\ edited'[v] = edited[v]
        /\ step'[v] = step[v]
        /\ step[v] # "idle" => stale'[v] = stale[v] \cup edited[w]
    BY Zenon DEF Write, Sound, TypeOK
  <2>2. Sets(form[v])' = Sets(form[v])
    BY <2>1, Zenon DEF Sets
  <2>3. CASE step[v] = "idle"
    <3>1. Sets(form[v]) = {}
      BY <2>3, RowsArePatches, Zenon DEF Sound, Validated
    <3> QED
      BY <2>1, <2>2, <2>3, <3>1, Zenon DEF CarriesOld
  <2>4. CASE step[v] # "idle"
    <3>1. \A f \in Field : f \in stale[v] \cup lost \/ intended'[f] # intended[f]
            => f \in stale'[v] \cup lost'
      BY <1>2, <1>4, <2>1, <2>4, Zenon
    <3>2. Sets(form[v]) \subseteq Field
      BY Zenon DEF Sets
    <3> QED
      BY <2>1, <2>2, <3>1, <3>2, Zenon DEF Carries, CarriesOld
  <2> QED
    BY <2>3, <2>4
<1> QED
  BY <1>5, <1>6, <1>7, Zenon DEF Carries, LostOnlyToStaleWriter

----------------------------------------------------------------------------

LEMMA CarriesOperator ==
  ASSUME Sound, Carries, Operator \/ Callback \/ Discovery PROVE Carries'
<1> USE DEF Sound, TypeOK
<1> Bot \in Writer /\ Page \subseteq Writer /\ Script \subseteq Writer
  BY Zenon DEF Writer
<1>0. row # NoRow
  BY Zenon DEF UntilFirstBoot, Operator, Callback, Discovery,
     Load, Save, Request, SkipKnown, Persist, Message
<1>1. ASSUME NEW p \in Page, Load(p) PROVE Carries'
  <2>1. \A f \in Field : row[f] = intended[f] \/ f \in lost
    BY <1>0, Zenon DEF Carries, LostOnlyToStaleWriter
  <2>2. form'[p] = row /\ step'[p] = "open"
    BY <1>1, Zenon DEF Load
  <2>3. \A f \in Sets(form'[p]) : f \in Field
    BY Zenon DEF Sets
  <2> QED
    BY <1>1, <2>1, <2>2, <2>3, CarriesForm, Zenon DEF Load, database
<1>2. ASSUME NEW p \in Page, Save(p) PROVE Carries'
  <2>1. PICK new \in Row :
          /\ form' = [form EXCEPT ![p] = new]
          /\ edited' = [edited EXCEPT ![p] = {f \in Field : new[f] # form[p][f]}]
    BY <1>2, Zenon DEF Save
  <2>2. form'[p] = new /\ edited'[p] = {f \in Field : new[f] # form[p][f]}
    BY <2>1, Zenon
  <2>3. ASSUME NEW f \in Sets(new) \ edited'[p]
        PROVE  new[f] = intended[f] \/ f \in stale[p] \cup lost
    <3>1. f \in Field /\ new[f] = form[p][f] /\ new[f] # Unset
      BY <2>2, <2>3, Zenon DEF Sets
    <3>2. f \in Sets(form[p]) \ edited[p]
      BY <1>2, <3>1, Zenon DEF Sets, Save, Validated
    <3> QED
      BY <3>1, <3>2, Zenon DEF Carries, CarriesOld
  <2>4. stale' = stale
    BY <1>2, Zenon DEF Save, history
  <2>5. \A f \in Sets(form'[p]) \ edited'[p] :
           form'[p][f] = intended[f] \/ f \in stale'[p] \cup lost
    BY <2>2, <2>3, <2>4, Zenon
  <2>6. step'[p] # "read"
    BY <1>2, Zenon DEF Save
  <2>7. \A v \in Writer \ {p} :
           /\ form'[v] = form[v] /\ cur'[v] = cur[v] /\ stale'[v] = stale[v]
           /\ edited'[v] = edited[v] /\ step'[v] = step[v]
    BY <1>2, <2>1, <2>4, Zenon DEF Save
  <2>8. UNCHANGED <<row, intended, lost>>
    BY <1>2, Zenon DEF Save, database, history
  <2> QED
    BY <2>5, <2>6, <2>7, <2>8, CarriesForm, Zenon
<1>3. ASSUME NEW c \in Script, Request(c) PROVE Carries'
  <2>1. PICK patch \in Patch :
          /\ form' = [form EXCEPT ![c] = patch]
          /\ edited' = [edited EXCEPT ![c] = Sets(patch)]
    BY <1>3, Zenon DEF Request
  <2>2. form'[c] = patch /\ edited'[c] = Sets(patch) /\ step'[c] # "read"
    BY <1>3, <2>1, Zenon DEF Request
  <2>3. \A v \in Writer \ {c} :
           /\ form'[v] = form[v] /\ cur'[v] = cur[v] /\ stale'[v] = stale[v]
           /\ edited'[v] = edited[v] /\ step'[v] = step[v]
    BY <1>3, <2>1, Zenon DEF Request, history
  <2>4. UNCHANGED <<row, intended, lost>>
    BY <1>3, Zenon DEF Request, database, history
  <2> QED
    BY <2>2, <2>3, <2>4, CarriesForm, Zenon
<1>4. CASE SkipKnown
  <2>1. /\ form'[Bot] = Nothing /\ step'[Bot] # "read"
        /\ \A v \in Writer \ {Bot} :
             /\ form'[v] = form[v] /\ cur'[v] = cur[v] /\ stale'[v] = stale[v]
             /\ edited'[v] = edited[v] /\ step'[v] = step[v]
    BY <1>4, Zenon DEF SkipKnown, Done, history
  <2>2. UNCHANGED <<row, intended, lost>>
    BY <1>4, Zenon DEF SkipKnown, database, history
  <2> QED
    BY <2>1, <2>2, RowsArePatches, CarriesForm, Zenon
<1>5. CASE Persist
  BY <1>5, CarriesIdle, Zenon DEF Persist, database, history
<1>6. ASSUME NEW chat \in Chat \ {NoChat}, Message(chat) PROVE Carries'
  <2>1. form'[Bot] = [Nothing EXCEPT !.chat = chat] /\ edited'[Bot] = {"chat"}
    BY <1>6, Zenon DEF Message
  <2>2. Sets(form'[Bot]) \subseteq edited'[Bot]
    BY <2>1, SMT DEF Sets, Nothing, Field
  <2>3. \A v \in Writer \ {Bot} :
           /\ form'[v] = form[v] /\ cur'[v] = cur[v] /\ stale'[v] = stale[v]
           /\ edited'[v] = edited[v] /\ step'[v] = step[v]
    BY <1>6, Zenon DEF Message
  <2>4. UNCHANGED <<row, intended, lost>> /\ step'[Bot] # "read"
    BY <1>6, Zenon DEF Message, database
  <2> QED
    BY <2>2, <2>3, <2>4, CarriesForm, Zenon
<1> QED
  BY <1>1, <1>2, <1>3, <1>4, <1>5, <1>6, Zenon DEF Operator, Callback, Discovery

LEMMA CarriesFault ==
  ASSUME Sound, Carries, Boot \/ Fault PROVE Carries'
<1> USE DEF Sound, TypeOK
<1>1. CASE Boot
  <2>1. LostOnlyToStaleWriter'
    <3>1. CASE row = NoRow
      BY <1>1, <3>1, Zenon
         DEF Boot, SeedDefaults, LostOnlyToStaleWriter, UntilFirstBoot, history
    <3>2. CASE row # NoRow
      BY <1>1, <3>2, Zenon
         DEF Boot, SeedDefaults, LostOnlyToStaleWriter, Carries, history
    <3> QED
      BY <3>1, <3>2
  <2>2. ASSUME NEW v \in Writer PROVE CarriesOld(v)'
    BY <1>1, Zenon DEF Boot, Carries, CarriesOld, Sets, writers, history
  <2> QED
    BY <2>1, <2>2, Zenon DEF Carries
<1>2. CASE Crash
  <2>1. LostOnlyToStaleWriter'
    BY <1>2, Zenon DEF Crash, Carries, LostOnlyToStaleWriter, database
  <2>2. ASSUME NEW v \in Writer PROVE CarriesOld(v)'
    <3>1. CASE step[v] = "open"
      <4>1. /\ form'[v] = form[v] /\ edited'[v] = edited[v]
            /\ stale'[v] = stale[v] /\ step'[v] = "open"
            /\ intended' = intended /\ lost' = lost
        BY <1>2, <3>1, Zenon DEF Crash, Validated
      <4> QED
        BY <4>1, Zenon DEF Carries, CarriesOld, Sets
    <3>2. CASE step[v] # "open"
      <4>1. form'[v] = Nothing /\ step'[v] # "read"
        BY <1>2, <3>2, Zenon DEF Crash
      <4>2. Sets(form[v])' = {}
        BY <4>1, RowsArePatches, Zenon DEF Sets
      <4> QED
        BY <4>1, <4>2, Zenon DEF CarriesOld
    <3> QED
      BY <3>1, <3>2
  <2> QED
    BY <2>1, <2>2, Zenon DEF Carries
<1>3. ASSUME NEW w \in Writer, Fail(w) PROVE Carries'
  <2>1. /\ form'[w] = Nothing /\ step'[w] # "read"
        /\ \A v \in Writer \ {w} :
             /\ form'[v] = form[v] /\ cur'[v] = cur[v] /\ stale'[v] = stale[v]
             /\ edited'[v] = edited[v] /\ step'[v] = step[v]
    BY <1>3, Zenon DEF Fail, Done
  <2>2. UNCHANGED <<row, intended, lost>>
    BY <1>3, Zenon DEF Fail, database
  <2> QED
    BY <2>1, <2>2, RowsArePatches, CarriesForm, Zenon
<1> QED
  BY <1>1, <1>2, <1>3, Zenon DEF Fault

----------------------------------------------------------------------------

\* The settings row holds what was last set, or a stale writer put an older
\* value back; every writer in flight carries values that are either intended
\* or known to be stale.
THEOREM SettingsInvariant == Spec => [](TypeOK /\ SettingsInv)
<1>1. TypeOK /\ SettingsInv <=> Sound /\ Carries
  BY Zenon DEF SettingsInv, Sound, Carries
<1>2. Init => Sound /\ Carries
  <2> SUFFICES ASSUME Init PROVE Sound /\ Carries
    OBVIOUS
  <2>1. TypeOK
    <3>1. requests \in 0..MaxRequests /\ messages \in 0..MaxMessages /\ faults \in 0..MaxFaults
      BY BoundsAssumption, SMT DEF Init
    <3>2. /\ step \in [Writer -> {"idle", "open", "found", "sent", "read"}]
          /\ form \in [Writer -> Patch] /\ cur \in [Writer -> Row]
          /\ edited \in [Writer -> SUBSET Field] /\ stale \in [Writer -> SUBSET Field]
      BY RowsArePatches, Zenon DEF Init
    <3> QED
      BY <3>1, <3>2, RowsArePatches, ValuesAssumption, Zenon DEF Init, TypeOK
  <2>2. Carries
    BY RowsArePatches, Zenon DEF Init, Carries, LostOnlyToStaleWriter, CarriesOld
  <2>3. \A w \in Writer : Validated(w)
    BY RowsArePatches, Zenon DEF Init, Validated
  <2>4. UntilFirstBoot
    BY Zenon DEF Init, UntilFirstBoot
  <2> QED
    BY <2>1, <2>2, <2>3, <2>4, Zenon DEF Sound
<1>3. Sound /\ Carries /\ [Next]_vars => Sound' /\ Carries'
  <2> SUFFICES ASSUME Sound, Carries, [Next]_vars PROVE Sound' /\ Carries'
    OBVIOUS
  <2>1. CASE Boot \/ Fault
    BY <2>1, SoundBoot, SoundUpdate, CarriesFault, Zenon DEF Fault
  <2>2. CASE Operator
    BY <2>2, SoundOperator, CarriesOperator, Zenon
  <2>3. CASE Discovery \/ Callback
    BY <2>3, SoundCallback, CarriesOperator, Zenon
  <2>4. CASE Update
    BY <2>4, SoundUpdate, CarriesRead, CarriesWrite, Zenon DEF Update
  <2>5. CASE UNCHANGED vars
    <3>1. UNCHANGED <<row, ai, env, up, step, form, cur, edited, chatSet, requests,
                      messages, faults, intended, stale, lost, stored, heard>>
      BY <2>5, Zenon DEF vars, database, writers, counters, history
    <3>2. Sound'
      BY <3>1, Zenon DEF Sound, TypeOK, Validated, UntilFirstBoot, Sets
    <3> QED
      BY <3>1, <3>2, CarriesIdle, Zenon
  <2> QED
    BY <2>1, <2>2, <2>3, <2>4, <2>5, Zenon DEF Next
<1> QED
  BY <1>1, <1>2, <1>3, PTL DEF Spec

\* An accepted setting is undone only by a writer that was stale on it, and
\* never by the order of the two statements of an update that sets it.
THEOREM SettingsStay == Spec => []LostOnlyToStaleWriter
<1>1. SettingsInv => LostOnlyToStaleWriter
  BY DEF SettingsInv
<1> QED
  BY <1>1, SettingsInvariant, PTL

============================================================================
