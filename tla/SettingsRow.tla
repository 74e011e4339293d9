---------------------------- MODULE SettingsRow ----------------------------
(***************************************************************************)
(* The settings row (internal/store/sqlite/settings.go) and its writers:   *)
(* the settings page of the panel, any other client of PATCH               *)
(* /api/settings, and the callback of the long-poll client that stores the *)
(* chat of the first message of a run.                                     *)
(*                                                                         *)
(* UpdateSettings reads the whole row and then, in a second statement,     *)
(* writes the three operator fields back; nothing keeps two updates apart. *)
(* The page sends all three fields, with the values it loaded for those    *)
(* the operator did not edit.                                              *)
(***************************************************************************)
EXTENDS Integers, FiniteSets

CONSTANTS
  Page, Script, Bot,    \* settings pages, other API clients, the callback onChat
  Interval, Chat, Label,
  NoChat,               \* telegram_subscriber_chat = 0
  Group,                \* negative chat ids
  SeedInterval, SeedLabel,
  Bad,                  \* an interval or a label that is not accepted
  Unset,                \* a field that is not in the request
  Env, FirstEnv,        \* the AI settings an env file may hold
  NoRow,
  MaxRequests, MaxMessages, MaxFaults   \* bounds

Field  == {"interval", "chat", "label"}
Row    == [interval : Interval, chat : Chat, label : Label]
Writer == Page \cup Script \cup {Bot}
Seed   == [interval |-> SeedInterval, chat |-> NoChat, label |-> SeedLabel]

ASSUME ValuesAssumption ==
  /\ SeedInterval \in Interval /\ SeedLabel \in Label
  /\ NoChat \in Chat \ Group /\ Group \subseteq Chat
  /\ Bad \notin Interval \cup Label
  /\ Unset \notin Interval \cup Chat \cup Label \cup {Bad}
  /\ Page \cap Script = {} /\ Bot \notin Page \cup Script
  /\ NoRow \notin Row /\ FirstEnv \in Env
ASSUME BoundsAssumption ==
  MaxRequests \in Nat /\ MaxMessages \in Nat /\ MaxFaults \in Nat

VARIABLES
  row,        \* the operator fields of the singleton row
  ai,         \* its AI fields
  env,        \* what the env file says
  up,         \* the process runs
  step,       \* of each writer: idle, open (a loaded page), found (a chat to
              \* store), sent (a request), read (between the two statements)
  form,       \* the fields that a writer sends, or the page shows
  cur,        \* the row that UpdateSettings read
  chatSet,    \* subscriberChatSet: a chat was recorded in this run
  (* Counters and history. *)
  requests, messages, faults,
  edited,     \* the fields a request means to change
  intended,   \* per field, the value of the last write that meant to set it
  stale,      \* per writer, the fields intended anew since it took its values
  lost,       \* the fields overwritten by a writer that was stale on them
  heard,      \* the chats of recorded first messages
  stored      \* the recorded chats the row held since

database == <<row, ai>>
writers  == <<step, form, cur, edited>>
counters == <<requests, messages, faults>>
history  == <<intended, stale, lost, stored>>
vars == <<database, env, up, writers, chatSet, counters, history, heard>>

Patch ==
  [interval : Interval \cup {Bad, Unset}, chat : Chat \cup {Unset},
   label : Label \cup {Bad, Unset}]
Nothing == [f \in Field |-> Unset]

TypeOK ==
  /\ row \in Row \cup {NoRow} /\ ai \in Env /\ env \in Env /\ up \in BOOLEAN
  /\ step \in [Writer -> {"idle", "open", "found", "sent", "read"}]
  /\ form \in [Writer -> Patch] /\ cur \in [Writer -> Row]
  /\ chatSet \in BOOLEAN
  /\ requests \in 0..MaxRequests /\ messages \in 0..MaxMessages
  /\ faults \in 0..MaxFaults
  /\ edited \in [Writer -> SUBSET Field] /\ intended \in Row
  /\ stale \in [Writer -> SUBSET Field] /\ lost \subseteq Field
  /\ heard \subseteq Chat /\ stored \subseteq Chat

Init ==
  /\ row = NoRow /\ ai = FirstEnv /\ env = FirstEnv /\ up = FALSE
  /\ step = [w \in Writer |-> "idle"] /\ form = [w \in Writer |-> Nothing]
  /\ cur = [w \in Writer |-> Seed] /\ chatSet = FALSE
  /\ requests = 0 /\ messages = 0 /\ faults = 0
  /\ edited = [w \in Writer |-> {}] /\ intended = Seed
  /\ stale = [w \in Writer |-> {}] /\ lost = {}
  /\ heard = {} /\ stored = {}

----------------------------------------------------------------------------
(* The boot. *)

\* seedDefaults: INSERT OR IGNORE.
SeedDefaults == IF row = NoRow THEN Seed ELSE row

\* SyncAISettings writes the AI fields only, before anything else runs.
Boot ==
  /\ ~up
  /\ up' = TRUE
  /\ row' = SeedDefaults
  /\ ai' = env
  /\ UNCHANGED <<env, writers, chatSet, counters, history, heard>>

\* Requests in flight and the callback are gone.  The operator may edit the
\* env file before the next boot.
Crash ==
  /\ up /\ faults < MaxFaults
  /\ faults' = faults + 1
  /\ up' = FALSE /\ chatSet' = FALSE
  /\ env' \in Env
  /\ step' = [w \in Writer |-> IF step[w] = "open" THEN "open" ELSE "idle"]
  /\ form' = [w \in Writer |-> IF step[w] = "open" THEN form[w] ELSE Nothing]
  /\ cur' = [w \in Writer |-> Seed]
  /\ edited' = [w \in Writer |-> {}]
  /\ stale' = [w \in Writer |-> IF step[w] = "open" THEN stale[w] ELSE {}]
  /\ UNCHANGED <<database, requests, messages, intended, lost, heard, stored>>

----------------------------------------------------------------------------
(* Clients of the admin API. *)

Sets(patch) == {f \in Field : patch[f] # Unset}

\* The writer is done; nothing of its request is left.
Done(w) ==
  /\ step' = [step EXCEPT ![w] = "idle"]
  /\ form' = [form EXCEPT ![w] = Nothing]
  /\ cur' = [cur EXCEPT ![w] = Seed]
  /\ edited' = [edited EXCEPT ![w] = {}]

\* GET /api/settings: the page fills its form.
Load(p) ==
  /\ up /\ step[p] \in {"idle", "open"}
  /\ step' = [step EXCEPT ![p] = "open"]
  /\ form' = [form EXCEPT ![p] = row]
  /\ stale' = [stale EXCEPT ![p] = {}]
  /\ UNCHANGED <<database, env, up, cur, edited, chatSet, counters, intended,
                 lost, heard, stored>>

\* What the page lets the operator send.
Acceptable(patch) ==
  patch.interval # Bad /\ patch.chat \notin Group /\ patch.label # Bad

\* handlePatchSettings validates before it touches the database; a request
\* that it refuses changes nothing.
Valid(patch) == Acceptable(patch)

\* save(): all the fields, of which one at least differs from the loaded.
Save(p) ==
  /\ up /\ step[p] = "open" /\ requests < MaxRequests
  /\ requests' = requests + 1
  /\ \E new \in Row :
       /\ new # form[p] /\ Acceptable(new) /\ Valid(new)
       /\ form' = [form EXCEPT ![p] = new]
       /\ edited' = [edited EXCEPT ![p] = {f \in Field : new[f] # form[p][f]}]
  /\ step' = [step EXCEPT ![p] = "sent"]
  /\ UNCHANGED <<database, env, up, cur, chatSet, messages, faults, history,
                 heard>>

\* A PATCH of another client: some of the fields, of any value.
Request(c) ==
  /\ up /\ step[c] = "idle" /\ requests < MaxRequests
  /\ requests' = requests + 1
  /\ \E patch \in Patch :
       /\ Valid(patch)
       /\ form' = [form EXCEPT ![c] = patch]
       /\ edited' = [edited EXCEPT ![c] = Sets(patch)]
  /\ step' = [step EXCEPT ![c] = "sent"]
  /\ UNCHANGED <<database, env, up, cur, chatSet, messages, faults, history,
                 heard>>

----------------------------------------------------------------------------
(* The callback of the long-poll client. *)

\* recordSubscriberChat: the first message of a run, of a user or a group,
\* starts the callback in a goroutine of its own.
Message_NotLatched(chat) ==
  /\ up /\ ~chatSet /\ messages < MaxMessages
  /\ messages' = messages + 1
  /\ chatSet' = TRUE /\ heard' = heard \cup {chat}
  /\ UNCHANGED <<database, env, up, writers, requests, faults, history>>
Message(chat) ==
  /\ up /\ ~chatSet /\ messages < MaxMessages
  /\ messages' = messages + 1
  /\ chatSet' = TRUE /\ heard' = heard \cup {chat}
  /\ stored' = stored \cup ({row.chat} \cap heard')
  /\ step' = [step EXCEPT ![Bot] = "found"]
  /\ form' = [form EXCEPT ![Bot] = [Nothing EXCEPT !.chat = chat]]
  /\ edited' = [edited EXCEPT ![Bot] = {"chat"}]
  /\ UNCHANGED <<database, env, up, cur, requests, faults, intended, stale,
                 lost>>

\* onChat looks first, in a statement of its own.
Known == row.chat = form[Bot].chat

SkipKnown ==
  /\ step[Bot] = "found" /\ Known
  /\ Done(Bot)
  /\ UNCHANGED <<database, env, up, chatSet, counters, history, heard>>

Persist ==
  /\ step[Bot] = "found" /\ ~Known
  /\ step' = [step EXCEPT ![Bot] = "sent"]
  /\ UNCHANGED <<database, env, up, form, cur, edited, chatSet, counters,
                 history, heard>>

----------------------------------------------------------------------------
(* UpdateSettings. *)

\* GetSettings.
Read(w) ==
  /\ step[w] = "sent"
  /\ step' = [step EXCEPT ![w] = "read"]
  /\ cur' = [cur EXCEPT ![w] = row]
  /\ stale' = [stale EXCEPT ![w] = @ \cap Sets(form[w])]
  /\ UNCHANGED <<database, env, up, form, edited, chatSet, counters, intended,
                 lost, heard, stored>>

Merged_FieldsOfTheRead(w) == cur[w]
Merged(w) ==
  LET Kept(f) == IF form[w][f] = Unset THEN cur[w][f] ELSE form[w][f] IN
  [interval |-> Kept("interval"), chat |-> Kept("chat"), label |-> Kept("label")]

Overwrite(old, new, fields) ==
  LET Of(f) == IF f \in fields THEN new[f] ELSE old[f] IN
  [interval |-> Of("interval"), chat |-> Of("chat"), label |-> Of("label")]

\* The UPDATE, and the answer: the page shows the row of the answer.
Write(w) ==
  /\ step[w] = "read"
  /\ row' = Merged(w)
  /\ intended' = Overwrite(intended, form[w], edited[w])
  /\ lost' = (lost \cup stale[w]) \ edited[w]
  /\ stale' = [v \in Writer |-> IF v = w THEN {}
                                ELSE IF step[v] = "idle" THEN stale[v]
                                ELSE stale[v] \cup edited[w]]
  /\ stored' = stored \cup ({row'.chat} \cap heard)
  /\ step' = [step EXCEPT ![w] = IF w \in Page THEN "open" ELSE "idle"]
  /\ form' = [form EXCEPT ![w] = IF w \in Page THEN row' ELSE Nothing]
  /\ cur' = [cur EXCEPT ![w] = Seed]
  /\ edited' = [edited EXCEPT ![w] = {}]
  /\ UNCHANGED <<ai, env, up, chatSet, counters, heard>>

\* Either statement fails: the client gets an error, the callback logs it and
\* does not run again.
Fail(w) ==
  /\ step[w] \in {"found", "sent", "read"} /\ faults < MaxFaults
  /\ faults' = faults + 1
  /\ Done(w)
  /\ stale' = [stale EXCEPT ![w] = {}]
  /\ UNCHANGED <<database, env, up, chatSet, requests, messages, intended, lost,
                 heard, stored>>

----------------------------------------------------------------------------

Update == \E w \in Writer : Read(w) \/ Write(w)
Callback == SkipKnown \/ Persist
Operator ==
  \/ \E p \in Page : Load(p) \/ Save(p)
  \/ \E c \in Script : Request(c)
Discovery == \E chat \in Chat \ {NoChat} : Message(chat)
Fault == Crash \/ \E w \in Writer : Fail(w)

Next == Boot \/ Operator \/ Discovery \/ Callback \/ Update \/ Fault

Spec == Init /\ [][Next]_vars

\* The process is started again, and its goroutines run.
FairSpec ==
  /\ Spec
  /\ WF_vars(Boot) /\ WF_vars(Callback)
  /\ \A w \in Writer : WF_vars(Read(w) \/ Write(w))

----------------------------------------------------------------------------
(* Properties. *)

\* What an accepted update set stays until another update means to change it,
\* unless an update that took its values before puts the old ones back: a
\* page that was loaded earlier, or a read and a write around it.
LostOnlyToStaleWriter ==
  row # NoRow => \A f \in Field : row[f] = intended[f] \/ f \in lost

\* The inductive strengthening: what a writer puts back is what was intended,
\* or it is stale on that field.
CarriesOld(w) ==
  /\ \A f \in Sets(form[w]) \ edited[w] :
       form[w][f] = intended[f] \/ f \in stale[w] \cup lost
  /\ step[w] = "read" =>
       \A f \in Field \ Sets(form[w]) :
         cur[w][f] = intended[f] \/ f \in stale[w] \cup lost

\* No request in flight holds a value that was refused, and it sends what it
\* means to change.
Validated(w) ==
  /\ form[w].interval # Bad /\ form[w].label # Bad
  /\ edited[w] \subseteq Sets(form[w])
  /\ step[w] = "open" => edited[w] = {}
  /\ step[w] = "idle" => form[w] = Nothing

\* Until the first boot nobody writes.
UntilFirstBoot ==
  row = NoRow =>
    /\ ~up /\ intended = Seed
    /\ \A w \in Writer : step[w] = "idle"

SettingsInv ==
  /\ LostOnlyToStaleWriter
  /\ \A w \in Writer : CarriesOld(w) /\ Validated(w)
  /\ UntilFirstBoot

\* The chat of the first message of a run reaches the row, unless a statement
\* fails or the process dies: the callback is not repeated.
DiscoveredIsStored ==
  \A c \in Chat : c \in heard ~> c \in stored \/ faults > 0

----------------------------------------------------------------------------
(* What the documents say, and the code does not do. *)

\* contracts/admin-api.md, PATCH /api/settings: a partial update.  A field
\* that is not in the request keeps its value.
PartialUpdate ==
  [][ \A w \in Writer : row # NoRow /\ row' # row /\ step'[w] # step[w] =>
        \A f \in Field \ Sets(form[w]) : row'[f] = row[f] ]_vars

=============================================================================
