----------------------------- MODULE CoreEditor -----------------------------
(***************************************************************************)
(* The core editor of the dashboard: one global store holding the draft of *)
(* the core on screen (features/core-editor/state/core-editor-store.ts),   *)
(* the JSON editor kept beside the draft (use-core-draft-sync.ts), the     *)
(* page that loads, saves and leaves it (routes/core-editor-page.tsx), the *)
(* query cache in front of the server, and other administrators.           *)
(*                                                                         *)
(* A config is a value of Configs: the same one whether it is read as a    *)
(* profile, as JSON text or as what the server stores, since the adapters  *)
(* convert between the three and the properties only compare them.  Broken *)
(* stands for text that does not parse or does not import.                 *)
(***************************************************************************)
EXTENDS Naturals, FiniteSets

CONSTANTS
  Cores,      \* ids of cores, stored or still to be created
  Configs,    \* contents of a config
  Default,    \* the content of a new core
  Names,      \* names of cores
  NoName,     \* the empty name, which cannot be saved
  Broken,     \* JSON text, or a stored WireGuard config, that cannot be read
  NoCore,     \* no id, no content
  Stored,     \* what other administrators store
  Slots,      \* saves that may be in flight together
  MaxEdits,   \* bound on edits in the store and by other administrators
  MaxVisits   \* bound on visits of the editor

\* The server refuses inbound tags on a WireGuard core.
ASSUME CoreEditorAssumption ==
  /\ Default \in Configs /\ Broken \notin Configs
  /\ NoName \in Names /\ NoCore \notin Cores
  /\ \A d \in Stored : d.kind = "wg" => ~d.tags
  /\ MaxEdits \in Nat /\ MaxVisits \in Nat

VARIABLES
  route,      \* the page: "list", "new" or the id of a core
  store,      \* the zustand store
  saving,     \* the Save button waits
  saves,      \* requests to create or modify a core, by slot
  cores,      \* the server's cores
  cached,     \* the last answer of GET /api/core/{id}
  fetching,   \* the state of that query
  answer,     \* what the server has answered and the page not yet seen
  known,      \* (history) what the server is known to hold of a core
  mine,       \* (history) the user's content neither saved nor discarded
  serial,     \* (history) nothing was edited under a save in flight, no JSON text was
              \* pending at a save, no kind switched, no unreadable config shown
  edits, visits

view == <<route, store, saving>>
net  == <<saves, cores, cached, fetching, answer>>
hist == <<known, mine, serial>>
vars == <<view, net, hist, edits, visits>>

Kinds == {"xray", "wg"}
Content == [kind: Kinds, config: Configs \cup {Broken}, name: Names, tags: BOOLEAN]
Text == Configs \cup {Broken, NoCore}

Snapshot == [kind: Kinds, name: Names, tags: BOOLEAN, config: Configs \cup {NoCore},
             monaco: Text, tab: {"form", "advanced"}]

\* The fields of the store that the page reads.  tags stands for the two
\* lists of inbound tags (empty or not), baseline for xrayBaseline and
\* wgBaseline, serverJson for serverHydratedConfigJson.
Store == [hydrated: BOOLEAN, coreId: Cores \cup {NoCore}, kind: Kinds, name: Names,
          tags: BOOLEAN, config: Configs \cup {NoCore}, baseline: Configs \cup {NoCore},
          monaco: Text, monacoDirty: BOOLEAN, serverJson: Text \X Kinds,
          tab: {"form", "advanced"}, snapshot: Snapshot]

Request == [target: Cores \cup {NoCore}, editing: Cores \cup {NoCore}, data: Content,
            state: {"sent", "stored", "failed"}, made: Cores \cup {NoCore}, here: BOOLEAN]

ASSUME NoCoreAssumption ==
  /\ NoCore \notin Configs \cup {Broken} \cup Content \cup Request
  /\ {"list", "new"} \cap Cores = {}
  /\ Stored \subseteq Content

CoreEditorTypeOK ==
  /\ route \in Cores \cup {"list", "new"}
  /\ store \in Store
  /\ saving \in BOOLEAN
  /\ saves \in [Slots -> Request \cup {NoCore}]
  /\ cores \in [Cores -> Content \cup {NoCore}]
  /\ cached \in [Cores -> Content \cup {NoCore}]
  /\ fetching \in [Cores -> {"idle", "sent", "answered"}]
  /\ answer \in [Cores -> Content \cup {NoCore}]
  /\ known \in [Cores -> Content \cup {NoCore}]
  /\ mine \in Content \cup {NoCore}
  /\ serial \in BOOLEAN
  /\ edits \in 0..MaxEdits /\ visits \in 0..MaxVisits

-----------------------------------------------------------------------------
(* The store's operations, as functions from store to store.               *)

Capture(s) == [kind |-> s.kind, name |-> s.name, tags |-> s.tags, config |-> s.config,
               monaco |-> s.monaco, tab |-> s.tab]

Captured(s) == [s EXCEPT !.snapshot = Capture(s)]

EmptyFields == [hydrated |-> FALSE, coreId |-> NoCore, kind |-> "xray", name |-> NoName,
                tags |-> FALSE, config |-> NoCore, baseline |-> NoCore, monaco |-> NoCore,
                monacoDirty |-> FALSE, serverJson |-> <<NoCore, "xray">>, tab |-> "form",
                snapshot |-> [kind |-> "xray", name |-> NoName, tags |-> FALSE, config |-> NoCore,
                              monaco |-> NoCore, tab |-> "form"]]

\* reset(), when the page unmounts.
Reset == EmptyFields

\* initFromCore(): a WireGuard config that cannot be read is replaced by a
\* new draft, while the JSON editor shows what the server holds.
InitFromCore(s, c, d, preserve) ==
  LET draft == IF d.config = Broken THEN Default ELSE d.config
  IN Captured([s EXCEPT
       !.hydrated = TRUE, !.coreId = c, !.kind = d.kind, !.name = d.name,
       !.tags = d.kind = "xray" /\ d.tags, !.config = draft, !.baseline = draft,
       !.monaco = d.config, !.monacoDirty = FALSE, !.serverJson = <<d.config, d.kind>>,
       !.tab = IF preserve /\ s.coreId = c THEN s.tab ELSE "form"])

\* initNew(): a default draft under the name typed so far.
InitNew(s, kind, name) ==
  Captured([s EXCEPT
    !.hydrated = TRUE, !.coreId = NoCore, !.kind = kind, !.name = name, !.tags = FALSE,
    !.config = Default, !.baseline = Default, !.monaco = Default, !.monacoDirty = FALSE,
    !.serverJson = <<NoCore, "xray">>, !.tab = "form"])

SyncMonacoFromDraft(s) == [s EXCEPT !.monaco = s.config, !.monacoDirty = FALSE]

\* updateXrayProfile(), setXrayProfile(), updateWgDraft(), setWgDraft().
UpdateDraft(s, config) == SyncMonacoFromDraft([s EXCEPT !.config = config])

SetMonacoJson(s, text) == [s EXCEPT !.monaco = text, !.monacoDirty = TRUE]

\* applyMonacoJson(): text that does not import changes nothing.
ApplyMonacoJson(s) ==
  IF s.monaco = Broken THEN s ELSE [s EXCEPT !.config = s.monaco, !.monacoDirty = FALSE]

\* markClean(): the draft becomes the baseline and the snapshot, whatever
\* was saved; the JSON text is regenerated from it.
MarkClean(s) ==
  IF s.hydrated
  THEN Captured(SyncMonacoFromDraft([s EXCEPT !.baseline = s.config]))
  ELSE Captured(s)

\* Fault variant of ApplyPersistedSnapshot: the inbound tags are not restored.
Fault_ApplyPersistedSnapshot(s, p) ==
  [s EXCEPT !.kind = p.kind, !.name = p.name, !.config = p.config, !.baseline = p.config,
            !.monaco = p.monaco, !.monacoDirty = FALSE, !.tab = p.tab]

ApplyPersistedSnapshot(s, p) ==
  [s EXCEPT !.kind = p.kind, !.name = p.name, !.tags = p.tags, !.config = p.config,
            !.baseline = p.config, !.monaco = p.monaco, !.monacoDirty = FALSE, !.tab = p.tab]

DiscardDraft(s) == ApplyPersistedSnapshot(s, s.snapshot)

\* switchKind() of a stored core: a default draft of the other kind is the
\* new baseline, the snapshot stays that of the old kind.
SwitchKind(s, kind) ==
  [s EXCEPT !.kind = kind, !.tags = FALSE, !.config = Default, !.baseline = Default,
            !.monaco = Default, !.monacoDirty = FALSE, !.tab = "form"]

\* currentConfigString(): JSON text not yet applied counts before the draft.
CurrentConfig(s) == IF s.monacoDirty THEN s.monaco ELSE s.config

\* Fault variant of HasActualChanges: the name is not compared.
Fault_HasActualChanges(s) ==
  /\ s.hydrated
  /\ \/ s.kind # s.snapshot.kind
     \/ s.tags # s.snapshot.tags
     \/ CurrentConfig(s) # s.baseline

\* selectCoreEditorHasActualChanges().
HasActualChanges(s) ==
  /\ s.hydrated
  /\ \/ s.kind # s.snapshot.kind
     \/ s.name # s.snapshot.name
     \/ s.tags # s.snapshot.tags
     \/ CurrentConfig(s) # s.baseline

\* What the user sees, and what a save sends.
Shown(s) == [kind |-> s.kind, config |-> CurrentConfig(s), name |-> s.name, tags |-> s.tags]
Payload(s) == [kind |-> s.kind, config |-> s.config, name |-> s.name, tags |-> s.tags]

InFlight == {i \in Slots : saves[i] # NoCore}

\* The form is rendered once the core is loaded and the store hydrated.
Editable ==
  /\ route # "list" /\ store.hydrated
  /\ route \in Cores => cached[route] # NoCore

-----------------------------------------------------------------------------
(* The page.                                                               *)

CoreEditorInit ==
  /\ route = "list"
  /\ store = EmptyFields
  /\ saving = FALSE
  /\ saves = [i \in Slots |-> NoCore]
  /\ \E c \in Cores, d \in Stored :
       cores = [x \in Cores |-> IF x = c THEN d ELSE NoCore]
  /\ cached = [c \in Cores |-> NoCore]
  /\ fetching = [c \in Cores |-> "idle"]
  /\ answer = [c \in Cores |-> NoCore]
  /\ known = [c \in Cores |-> NoCore]
  /\ mine = NoCore
  /\ serial = TRUE
  /\ edits = 0 /\ visits = 0

\* Fault variant of Hydrate: a refetch does not look for unsaved changes.
Fault_HydrateDirty(s, c, d) ==
  IF s.coreId # c THEN InitFromCore(s, c, d, FALSE)
  ELSE IF s.hydrated /\ s.serverJson # <<d.config, d.kind>>
       THEN InitFromCore(s, c, d, TRUE)
       ELSE s

\* Fault variant of Hydrate: only the first core is loaded into the store.
Fault_HydrateOnce(s, c, d) ==
  IF ~s.hydrated THEN InitFromCore(s, c, d, FALSE)
  ELSE IF ~HasActualChanges(s) /\ s.serverJson # <<d.config, d.kind>>
       THEN InitFromCore(s, c, d, TRUE)
       ELSE s

\* The effect of the page on the data of its query: another core is loaded,
\* or the same one was changed elsewhere and nothing is unsaved here.
Hydrate(s, c, d) ==
  IF s.coreId # c THEN InitFromCore(s, c, d, FALSE)
  ELSE IF /\ s.hydrated /\ ~HasActualChanges(s)
          /\ s.serverJson # <<d.config, d.kind>>
       THEN InitFromCore(s, c, d, TRUE)
       ELSE s

\* The page of core c comes on screen, over the store s: cached data is
\* loaded and fetched again.  held is what is known of the cores.
Show(c, s, held) ==
  /\ route' = c
  /\ IF cached[c] = NoCore
     THEN store' = s /\ known' = held /\ UNCHANGED serial
     ELSE /\ store' = Hydrate(s, c, cached[c])
          /\ known' = IF store' # s THEN [held EXCEPT ![c] = cached[c]] ELSE held
          /\ serial' = (serial /\ (store' # s => cached[c].config # Broken))
  /\ fetching' = [x \in Cores |-> IF x = c THEN "sent" ELSE "idle"]
  /\ answer' = [x \in Cores |-> NoCore]

OpenCore(c) ==
  /\ route = "list" /\ visits < MaxVisits /\ cores[c] # NoCore
  /\ visits' = visits + 1
  /\ Show(c, store, known)
  /\ UNCHANGED <<saving, saves, cores, cached, mine, edits>>

OpenNew(kind) ==
  /\ route = "list" /\ visits < MaxVisits
  /\ visits' = visits + 1
  /\ route' = "new"
  /\ store' = InitNew(store, kind, store.name)
  /\ UNCHANGED <<saving, net, hist, edits>>

\* Back, after the dialog if something is unsaved: the page unmounts, the
\* store is reset and the query of the page aborted.  Requests go on.
Leave ==
  /\ route # "list"
  /\ route' = "list"
  /\ store' = Reset
  /\ saving' = FALSE
  /\ saves' = [i \in Slots |-> IF saves[i] = NoCore THEN NoCore ELSE [saves[i] EXCEPT !.here = FALSE]]
  /\ fetching' = [c \in Cores |-> "idle"]
  /\ answer' = [c \in Cores |-> NoCore]
  /\ mine' = NoCore
  /\ serial' = (serial /\ InFlight = {})
  /\ UNCHANGED <<cores, cached, known, edits, visits>>

\* A change of the store by the page.
Change(s) ==
  /\ Editable /\ s # store
  /\ store' = s
  /\ mine' = IF Shown(s) = Shown(store) THEN mine
             ELSE IF route \in Cores /\ Shown(s) = known[route] THEN NoCore ELSE Shown(s)
  /\ serial' = (serial /\ (InFlight = {} \/ Shown(s) = Shown(store)))
  /\ UNCHANGED <<route, saving, net, known, visits>>

Edit(s) == edits < MaxEdits /\ edits' = edits + 1 /\ Change(s)

EditForm == \E config \in Configs : store.tab = "form" /\ Edit(UpdateDraft(store, config))
EditName == \E name \in Names : Edit([store EXCEPT !.name = name])
EditTags == store.kind = "xray" /\ Edit([store EXCEPT !.tags = ~@])
TypeJson == \E text \in Configs \cup {Broken} :
              store.tab = "advanced" /\ Edit(SetMonacoJson(store, text))

\* The two debounced pushes, which live as long as the JSON tab is open.
ApplyJson ==
  /\ store.tab = "advanced" /\ store.monacoDirty
  /\ Change(ApplyMonacoJson(store)) /\ UNCHANGED edits
SyncJson ==
  /\ store.tab = "advanced" /\ ~store.monacoDirty
  /\ Change(SyncMonacoFromDraft(store)) /\ UNCHANGED edits

\* "Refresh JSON preview from draft" of the command menu, on every tab.
RefreshJson == Change(SyncMonacoFromDraft(store)) /\ UNCHANGED edits
SwitchTab ==
  /\ Change([store EXCEPT !.tab = IF @ = "form" THEN "advanced" ELSE "form"])
  /\ UNCHANGED edits

\* The select of the kind: a new core is started afresh under its name.
ChooseKind(kind) ==
  /\ Editable /\ kind # store.kind /\ edits < MaxEdits
  /\ edits' = edits + 1
  /\ IF route = "new"
     THEN /\ store' = InitNew(store, kind, store.name)
          /\ serial' = (serial /\ InFlight = {})
     ELSE /\ store' = SwitchKind(store, kind)
          /\ serial' = FALSE
  /\ mine' = NoCore
  /\ UNCHANGED <<route, saving, net, known, visits>>

\* The Discard button waits for a save, the command menu does not.
Discard ==
  /\ Editable /\ HasActualChanges(store)
  /\ store' = DiscardDraft(store)
  /\ mine' = NoCore
  /\ serial' = (serial /\ InFlight = {})
  /\ UNCHANGED <<route, saving, net, known, edits, visits>>

\* handleSave(), up to the request.  A name is required; the draft, not the
\* JSON text, is sent.
Save(i) ==
  /\ Editable /\ HasActualChanges(store) /\ ~saving
  /\ store.name # NoName
  /\ saves[i] = NoCore
  /\ saving' = TRUE
  /\ saves' = [saves EXCEPT ![i] =
       [target |-> IF route = "new" THEN NoCore ELSE route, editing |-> store.coreId,
        data |-> Payload(store), state |-> "sent", made |-> NoCore, here |-> TRUE]]
  /\ serial' = (serial /\ ~store.monacoDirty)
  /\ UNCHANGED <<route, store, cores, cached, fetching, answer, known, mine, edits, visits>>

\* The request succeeds: the draft of whatever core is on screen is marked
\* clean; the page of a created core is opened, that of a modified one
\* fetched again if it is on screen.
SaveDone(i) ==
  /\ saves[i] # NoCore /\ saves[i].state = "stored"
  /\ saves' = [saves EXCEPT ![i] = NoCore]
  /\ saving' = (saving /\ ~saves[i].here)
  /\ LET r == saves[i]
         held == [known EXCEPT ![r.made] = r.data]
     IN /\ mine' = IF mine = r.data THEN NoCore ELSE mine
        /\ IF r.target = NoCore /\ route # r.made
           THEN Show(r.made, MarkClean(store), held)
           ELSE /\ store' = MarkClean(store) /\ known' = held
                /\ IF route = r.target
                   THEN /\ fetching' = [fetching EXCEPT ![route] = "sent"]
                        /\ answer' = [answer EXCEPT ![route] = NoCore]
                   ELSE UNCHANGED <<fetching, answer>>
                /\ UNCHANGED <<route, serial>>
  /\ UNCHANGED <<cores, cached, edits, visits>>

SaveFailed(i) ==
  /\ saves[i] # NoCore /\ saves[i].state = "failed"
  /\ saves' = [saves EXCEPT ![i] = NoCore]
  /\ saving' = (saving /\ ~saves[i].here)
  /\ UNCHANGED <<route, store, cores, cached, fetching, answer, hist, edits, visits>>

\* The answer of the query reaches the page.
Fetched(c) ==
  /\ fetching[c] = "answered"
  /\ fetching' = [fetching EXCEPT ![c] = "idle"]
  /\ answer' = [answer EXCEPT ![c] = NoCore]
  /\ cached' = [cached EXCEPT ![c] = answer[c]]
  /\ IF route = c /\ answer[c] # cached[c]
     THEN /\ store' = Hydrate(store, c, answer[c])
          /\ known' = IF store' # store THEN [known EXCEPT ![c] = answer[c]] ELSE known
          /\ serial' = (serial /\ (store' # store => answer[c].config # Broken))
     ELSE UNCHANGED <<store, known, serial>>
  /\ UNCHANGED <<route, saving, saves, cores, mine, edits, visits>>

-----------------------------------------------------------------------------
(* The server and the other administrators.                                *)

Commit(i) ==
  /\ saves[i] # NoCore /\ saves[i].state = "sent"
  /\ LET r == saves[i]
     IN \E c \in Cores :
          /\ IF r.target = NoCore THEN cores[c] = NoCore ELSE c = r.target
          /\ cores' = [cores EXCEPT ![c] = r.data]
          /\ saves' = [saves EXCEPT ![i].state = "stored", ![i].made = c]
  /\ UNCHANGED <<view, cached, fetching, answer, hist, edits, visits>>

Refuse(i) ==
  /\ saves[i] # NoCore /\ saves[i].state = "sent"
  /\ saves' = [saves EXCEPT ![i].state = "failed"]
  /\ UNCHANGED <<view, cores, cached, fetching, answer, hist, edits, visits>>

Answer(c) ==
  /\ fetching[c] = "sent" /\ cores[c] # NoCore
  /\ fetching' = [fetching EXCEPT ![c] = "answered"]
  /\ answer' = [answer EXCEPT ![c] = cores[c]]
  /\ UNCHANGED <<view, saves, cores, cached, hist, edits, visits>>

ChangedElsewhere(c) ==
  /\ cores[c] # NoCore /\ edits < MaxEdits
  /\ edits' = edits + 1
  /\ \E d \in Stored \ {cores[c]} : cores' = [cores EXCEPT ![c] = d]
  /\ UNCHANGED <<view, saves, cached, fetching, answer, hist, visits>>

CoreEditorNext ==
  \/ \E c \in Cores : OpenCore(c) \/ Fetched(c) \/ Answer(c) \/ ChangedElsewhere(c)
  \/ \E k \in Kinds : OpenNew(k) \/ ChooseKind(k)
  \/ \E i \in Slots : Save(i) \/ SaveDone(i) \/ SaveFailed(i) \/ Commit(i) \/ Refuse(i)
  \/ EditForm \/ EditName \/ EditTags \/ TypeJson
  \/ ApplyJson \/ SyncJson \/ RefreshJson \/ SwitchTab
  \/ Discard \/ Leave

CoreEditorSpec == CoreEditorInit /\ [][CoreEditorNext]_vars

-----------------------------------------------------------------------------
(* Properties.                                                             *)

(* The bar below the editor says "All changes saved" only of what the      *)
(* server is known to hold: every content on screen without changes was    *)
(* loaded from it or accepted by it.                                       *)
AllChangesSaved ==
  Editable /\ route \in Cores /\ store.coreId = route /\ ~HasActualChanges(store)
    => Shown(store) = known[route]

(* The same as long as nobody edits or leaves under a save in flight, saves *)
(* with JSON text pending or switches the kind, and the stored config can  *)
(* be read: then loads, refetches, saves, JSON edits and discards agree on *)
(* what is saved.                                                          *)
AllChangesSavedWhenSerial ==
  serial => AllChangesSaved

(* What the user made of the draft, in the form or as JSON, stays on screen *)
(* until it is saved or the user discards it: neither a refetch nor the    *)
(* answer to a save nor the pushes between draft and JSON undo it.         *)
DraftKept == serial /\ mine # NoCore => Shown(store) = mine

(* A save is sent for the core the draft was loaded from, also when the    *)
(* answer to an earlier creation has moved the page to another core.       *)
SaveTargetsItsCore ==
  \A i \in InFlight : saves[i].target = saves[i].editing

(* Discarding brings back what the server is known to hold, whichever      *)
(* loads, saves and JSON edits came before.                                *)
DiscardRestoresSaved ==
  [][Discard /\ serial /\ route \in Cores
       => Shown(store') = known[route]]_vars
=============================================================================
