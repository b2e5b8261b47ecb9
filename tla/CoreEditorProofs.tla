-------------------------- MODULE CoreEditorProofs --------------------------
(***************************************************************************)
(* Theorems about CoreEditor, for any cores, configs and names, any number *)
(* of saves in flight, edits and visits, and whatever is stored elsewhere. *)
(*                                                                         *)
(* The invariant ties the draft to the page (PageOK): whatever can be      *)
(* edited was loaded from the core on screen.  As long as the conditions   *)
(* of the properties hold (serial), at most one save is in flight, of what *)
(* is on screen (FlightOK), the baseline and the snapshot are together     *)
(* what the server is known to hold, and the user's content differs from   *)
(* it: a refetch, which only replaces a draft without changes, cannot meet *)
(* it (SerialOK).                                                          *)
(***************************************************************************)
EXTENDS CoreEditor, TLAPS

\* A content as it may be stored: only Xray cores have inbound tags.
Proper(d) == d \in Content /\ (d.kind = "wg" => ~d.tags)

\* The core a page edits, none while one is created.
Target == IF route = "new" THEN NoCore ELSE route

\* What the draft was loaded or saved as.
Base(s) == [kind |-> s.snapshot.kind, config |-> s.baseline, name |-> s.snapshot.name,
            tags |-> s.snapshot.tags]

Sound(s) ==
  /\ s \in Store
  /\ ~s.hydrated => s = EmptyFields
  /\ s.hydrated => s.config \in Configs /\ s.baseline \in Configs /\ s.snapshot.config \in Configs
  /\ s.monacoDirty => s.monaco # NoCore
  /\ s.kind = "wg" => ~s.tags
  /\ s.snapshot.kind = "wg" => ~s.snapshot.tags

PageOK ==
  /\ Editable => store.coreId = Target
  /\ route = "list" => store = EmptyFields
  /\ route = "new" => store.hydrated
  /\ store.coreId # NoCore => cached[store.coreId] # NoCore

ServerOK == \A c \in Cores :
  /\ fetching[c] = "answered" => answer[c] # NoCore
  /\ cores[c] # NoCore => Proper(cores[c])
  /\ cached[c] # NoCore => Proper(cached[c])
  /\ answer[c] # NoCore => Proper(answer[c])

SavesOK == \A i \in InFlight :
  /\ Proper(saves[i].data)
  /\ saves[i].target = saves[i].editing
  /\ saves[i].state = "stored" =>
       saves[i].made \in Cores /\ (saves[i].target # NoCore => saves[i].made = saves[i].target)

\* One save at a time, of what is on screen.
FlightOK ==
  /\ \A i, j \in InFlight : i = j
  /\ \A i \in InFlight :
       /\ Editable /\ HasActualChanges(store)
       /\ saving /\ saves[i].here /\ saves[i].target = Target
       /\ saves[i].data = Payload(store) /\ Payload(store) = Shown(store)

SerialOK == serial =>
  /\ FlightOK
  /\ Editable => store.snapshot.config = store.baseline
  /\ Editable /\ route \in Cores => Base(store) = known[route]
  /\ mine # NoCore => Editable /\ Shown(store) = mine /\ (route \in Cores => mine # known[route])

CoreEditorInv == CoreEditorTypeOK /\ Sound(store) /\ PageOK /\ ServerOK /\ SavesOK /\ SerialOK

-----------------------------------------------------------------------------
(* The store's operations.                                                 *)

LEMMA Values ==
  /\ Default \in Configs /\ NoName \in Names /\ NoCore \notin Cores /\ NoCore \notin Configs
  /\ NoCore # Broken /\ Broken \notin Configs /\ NoCore \notin Content /\ NoCore \notin Request
  /\ "list" \notin Cores /\ "new" \notin Cores
BY CoreEditorAssumption, NoCoreAssumption

\* There are changes if what is shown is not what was loaded or saved.
LEMMA ChangesFact == ASSUME NEW s PROVE HasActualChanges(s) <=> s.hydrated /\ Shown(s) # Base(s)
BY DEF HasActualChanges, Shown, Base

LEMMA EmptySound == Sound(EmptyFields) /\ ~EmptyFields.hydrated /\ EmptyFields.coreId = NoCore
BY Values DEF Sound, EmptyFields, Store, Snapshot, Text, Kinds

LEMMA CaptureFacts ==
  ASSUME NEW s \in Store
  PROVE  Capture(s) \in Snapshot /\ Captured(s) \in Store
BY DEF Capture, Captured, Store, Snapshot, Text

\* Loading a core.
LEMMA InitFacts ==
  ASSUME NEW s, Sound(s), NEW c \in Cores, NEW d, Proper(d), NEW preserve \in BOOLEAN
  PROVE  /\ Sound(InitFromCore(s, c, d, preserve))
         /\ InitFromCore(s, c, d, preserve).hydrated
         /\ InitFromCore(s, c, d, preserve).coreId = c
         /\ InitFromCore(s, c, d, preserve).snapshot.config = InitFromCore(s, c, d, preserve).baseline
         /\ d.config # Broken => Base(InitFromCore(s, c, d, preserve)) = d
<1>1. PICK draft \in Configs : draft = IF d.config = Broken THEN Default ELSE d.config
  BY Values DEF Proper, Content
<1>2. PICK tab \in {"form", "advanced"} : tab = IF preserve /\ s.coreId = c THEN s.tab ELSE "form"
  BY DEF Sound, Store
<1>3. PICK tags \in BOOLEAN : tags = (d.kind = "xray" /\ d.tags)
  OBVIOUS
<1>4. /\ d.kind \in Kinds /\ d.name \in Names /\ d.config \in Configs \cup {Broken} /\ tags = d.tags
      /\ d = [kind |-> d.kind, config |-> d.config, name |-> d.name, tags |-> d.tags]
      /\ d.kind = "wg" => ~tags
  BY <1>3 DEF Proper, Content, Kinds
<1>. DEFINE t == [s EXCEPT
       !.hydrated = TRUE, !.coreId = c, !.kind = d.kind, !.name = d.name,
       !.tags = tags, !.config = draft, !.baseline = draft,
       !.monaco = d.config, !.monacoDirty = FALSE, !.serverJson = <<d.config, d.kind>>,
       !.tab = tab]
<1>5. InitFromCore(s, c, d, preserve) = Captured(t)
  BY <1>1, <1>2, <1>3 DEF InitFromCore
<1>6. /\ t \in Store /\ t.hydrated /\ t.coreId = c /\ t.kind = d.kind /\ t.name = d.name /\ t.tags = tags
      /\ t.config = draft /\ t.baseline = draft /\ t.monacoDirty = FALSE
  BY <1>4 DEF Sound, Store, Text
<1>. HIDE DEF t
<1>7. /\ Captured(t) \in Store /\ Captured(t).hydrated /\ Captured(t).coreId = c /\ Captured(t).kind = d.kind
      /\ Captured(t).tags = tags /\ Captured(t).config = draft /\ Captured(t).baseline = draft
      /\ Captured(t).monacoDirty = FALSE /\ Captured(t).snapshot.kind = d.kind
      /\ Captured(t).snapshot.name = d.name /\ Captured(t).snapshot.tags = tags
      /\ Captured(t).snapshot.config = draft
  BY <1>6, CaptureFacts DEF Captured, Capture, Store
<1>8. Sound(Captured(t))
  BY <1>4, <1>7 DEF Sound
<1>9. d.config # Broken => Base(Captured(t)) = d
  BY <1>1, <1>4, <1>7 DEF Base
<1>. QED
  BY <1>5, <1>7, <1>8, <1>9

\* A new core.
LEMMA NewFacts ==
  ASSUME NEW s, Sound(s), NEW kind \in Kinds, NEW name \in Names
  PROVE  /\ Sound(InitNew(s, kind, name)) /\ InitNew(s, kind, name).hydrated
         /\ InitNew(s, kind, name).coreId = NoCore
         /\ InitNew(s, kind, name).snapshot.config = InitNew(s, kind, name).baseline
<1>. DEFINE t == [s EXCEPT
    !.hydrated = TRUE, !.coreId = NoCore, !.kind = kind, !.name = name, !.tags = FALSE,
    !.config = Default, !.baseline = Default, !.monaco = Default, !.monacoDirty = FALSE,
    !.serverJson = <<NoCore, "xray">>, !.tab = "form"]
<1>1. /\ t \in Store /\ t.hydrated /\ t.coreId = NoCore /\ t.kind = kind /\ t.tags = FALSE
      /\ t.config = Default /\ t.baseline = Default /\ t.monacoDirty = FALSE
  BY Values DEF Sound, Store, Text, Kinds
<1>2. InitNew(s, kind, name) = Captured(t)
  BY DEF InitNew
<1>. HIDE DEF t
<1>3. /\ Captured(t) \in Store /\ Captured(t).hydrated /\ Captured(t).coreId = NoCore
      /\ Captured(t).tags = FALSE /\ Captured(t).config = Default /\ Captured(t).baseline = Default
      /\ Captured(t).monacoDirty = FALSE /\ Captured(t).snapshot.tags = FALSE
      /\ Captured(t).snapshot.config = Default
  BY <1>1, CaptureFacts DEF Captured, Capture, Store
<1>4. Sound(Captured(t))
  BY <1>3, Values DEF Sound
<1>. QED
  BY <1>2, <1>3, <1>4

\* What is on screen becomes the baseline.
LEMMA MarkFacts ==
  ASSUME NEW s, Sound(s)
  PROVE  /\ Sound(MarkClean(s)) /\ MarkClean(s).hydrated = s.hydrated /\ MarkClean(s).coreId = s.coreId
         /\ ~s.hydrated => MarkClean(s) = s
         /\ s.hydrated => /\ MarkClean(s).snapshot.config = MarkClean(s).baseline
                          /\ Base(MarkClean(s)) = Payload(s)
<1>1. CASE ~s.hydrated
  <2>1. s = EmptyFields /\ MarkClean(s) = Captured(s)
    BY <1>1 DEF Sound, MarkClean
  <2>2. Captured(EmptyFields) = EmptyFields
    <3>1. PICK e \in Store : e = EmptyFields
      BY EmptySound DEF Sound
    <3>2. Capture(e) = e.snapshot
      BY <3>1 DEF Capture, EmptyFields
    <3>3. Captured(e) = [e EXCEPT !.snapshot = e.snapshot]
      BY <3>2 DEF Captured
    <3>4. [e EXCEPT !.snapshot = e.snapshot] = e
      BY DEF Store
    <3>. QED
      BY <3>1, <3>3, <3>4
  <2>. QED
    BY <1>1, <2>1, <2>2
<1>2. CASE s.hydrated
  <2>. DEFINE t == SyncMonacoFromDraft([s EXCEPT !.baseline = s.config])
  <2>1. /\ t \in Store /\ t.hydrated = s.hydrated /\ t.coreId = s.coreId /\ t.kind = s.kind /\ t.tags = s.tags
        /\ t.name = s.name /\ t.config = s.config /\ t.baseline = s.config /\ t.monacoDirty = FALSE
        /\ s.config \in Configs /\ (s.kind = "wg" => ~s.tags)
    BY <1>2 DEF Sound, Store, Text, SyncMonacoFromDraft
  <2>2. MarkClean(s) = Captured(t)
    BY <1>2 DEF MarkClean
  <2>. HIDE DEF t
  <2>3. /\ Captured(t) \in Store /\ Captured(t).hydrated = s.hydrated /\ Captured(t).coreId = s.coreId
        /\ Captured(t).kind = s.kind /\ Captured(t).tags = s.tags
        /\ Captured(t).config = s.config /\ Captured(t).baseline = s.config
        /\ Captured(t).monacoDirty = FALSE /\ Captured(t).snapshot.kind = s.kind
        /\ Captured(t).snapshot.name = s.name /\ Captured(t).snapshot.tags = s.tags
        /\ Captured(t).snapshot.config = s.config
    BY <2>1, CaptureFacts DEF Captured, Capture, Store
  <2>4. Sound(Captured(t))
    BY <1>2, <2>1, <2>3 DEF Sound
  <2>5. Base(Captured(t)) = Payload(s)
    BY <2>3 DEF Base, Payload
  <2>. QED
    BY <1>2, <2>2, <2>3, <2>4, <2>5
<1>. QED
  BY <1>1, <1>2

\* What was loaded or saved is back on screen.
LEMMA DiscardFacts ==
  ASSUME NEW s, Sound(s), s.hydrated
  PROVE  /\ Sound(DiscardDraft(s)) /\ DiscardDraft(s).hydrated /\ DiscardDraft(s).coreId = s.coreId
         /\ DiscardDraft(s).snapshot.config = DiscardDraft(s).baseline
         /\ s.snapshot.config = s.baseline =>
              Base(DiscardDraft(s)) = Base(s) /\ Shown(DiscardDraft(s)) = Base(s)
<1>. DEFINE p == s.snapshot
            t == DiscardDraft(s)
<1>1. /\ p \in Snapshot /\ p.config \in Configs /\ (p.kind = "wg" => ~p.tags)
  BY DEF Sound, Store
<1>2. /\ t \in Store /\ t.hydrated /\ t.coreId = s.coreId /\ t.snapshot = p /\ t.kind = p.kind
      /\ t.name = p.name /\ t.tags = p.tags /\ t.config = p.config /\ t.baseline = p.config
      /\ t.monacoDirty = FALSE
  BY <1>1 DEF Sound, Store, Snapshot, DiscardDraft, ApplyPersistedSnapshot
<1>. HIDE DEF t
<1>3. Sound(t)
  BY <1>1, <1>2 DEF Sound
<1>4. p.config = s.baseline => Base(t) = Base(s) /\ Shown(t) = Base(s)
  BY <1>2 DEF Base, Shown, CurrentConfig
<1>. QED
  BY <1>2, <1>3, <1>4 DEF t

LEMMA SwitchFacts ==
  ASSUME NEW s, Sound(s), s.hydrated, NEW kind \in Kinds
  PROVE  Sound(SwitchKind(s, kind)) /\ SwitchKind(s, kind).hydrated /\ SwitchKind(s, kind).coreId = s.coreId
<1>. DEFINE t == SwitchKind(s, kind)
<1>1. /\ t \in Store /\ t.hydrated /\ t.coreId = s.coreId /\ t.snapshot = s.snapshot /\ t.kind = kind
      /\ t.tags = FALSE /\ t.config = Default /\ t.baseline = Default /\ t.monacoDirty = FALSE
  BY Values DEF Sound, Store, Text, SwitchKind
<1>. HIDE DEF t
<1>2. Sound(t)
  BY <1>1, Values DEF Sound
<1>. QED
  BY <1>1, <1>2 DEF t

\* A change of the draft on screen: the core, the baseline and the snapshot
\* stay.  Text that is not applied yet is what is shown.
Changed(s, t) ==
  /\ Sound(t) /\ t.hydrated /\ t.coreId = s.coreId /\ Base(t) = Base(s)
  /\ t.snapshot.config = s.snapshot.config
  /\ Payload(s) = Shown(s) /\ Shown(t) = Shown(s) => Payload(t) = Payload(s)

LEMMA EditFacts ==
  ASSUME NEW s, Sound(s), s.hydrated
  PROVE  /\ \A config \in Configs : Changed(s, UpdateDraft(s, config))
         /\ \A name \in Names : Changed(s, [s EXCEPT !.name = name])
         /\ s.kind = "xray" => Changed(s, [s EXCEPT !.tags = ~s.tags])
         /\ \A text \in Configs \cup {Broken} : Changed(s, SetMonacoJson(s, text))
         /\ \A tab \in {"form", "advanced"} : Changed(s, [s EXCEPT !.tab = tab])
<1>0. s \in Store /\ s.config \in Configs /\ s.baseline \in Configs /\ s.snapshot.config \in Configs
      /\ (s.monacoDirty => s.monaco # NoCore) /\ (s.kind = "wg" => ~s.tags)
      /\ (s.snapshot.kind = "wg" => ~s.snapshot.tags)
  BY DEF Sound
<1>1. ASSUME NEW config \in Configs PROVE Changed(s, UpdateDraft(s, config))
  <2>. DEFINE t == UpdateDraft(s, config)
  <2>1. /\ t \in Store /\ t.hydrated /\ t.coreId = s.coreId /\ t.baseline = s.baseline /\ t.snapshot = s.snapshot
        /\ t.kind = s.kind /\ t.tags = s.tags /\ t.name = s.name /\ t.config = config /\ ~t.monacoDirty
    BY <1>0 DEF Store, Text, UpdateDraft, SyncMonacoFromDraft
  <2>. HIDE DEF t
  <2>2. Payload(t) = Shown(t) /\ Base(t) = Base(s)
    BY <2>1 DEF Payload, Shown, CurrentConfig, Base
  <2>3. Sound(t)
    BY <1>0, <2>1 DEF Sound
  <2>. QED
    BY <2>1, <2>2, <2>3 DEF Changed, t
<1>2. ASSUME NEW name \in Names PROVE Changed(s, [s EXCEPT !.name = name])
  <2>. DEFINE t == [s EXCEPT !.name = name]
  <2>1. /\ t \in Store /\ t.hydrated /\ t.coreId = s.coreId /\ t.baseline = s.baseline /\ t.snapshot = s.snapshot
        /\ t.kind = s.kind /\ t.tags = s.tags /\ t.name = name /\ t.config = s.config
        /\ t.monacoDirty = s.monacoDirty /\ t.monaco = s.monaco
    BY <1>0 DEF Store
  <2>. HIDE DEF t
  <2>2. Sound(t) /\ Base(t) = Base(s)
    BY <1>0, <2>1 DEF Sound, Base
  <2>3. Shown(t) = Shown(s) => Payload(t) = Payload(s)
    BY <2>1 DEF Payload, Shown
  <2>. QED
    BY <2>1, <2>2, <2>3 DEF Changed, t
<1>3. ASSUME s.kind = "xray" PROVE Changed(s, [s EXCEPT !.tags = ~s.tags])
  <2>. DEFINE t == [s EXCEPT !.tags = ~s.tags]
  <2>1. /\ t \in Store /\ t.hydrated /\ t.coreId = s.coreId /\ t.baseline = s.baseline /\ t.snapshot = s.snapshot
        /\ t.kind = s.kind /\ t.name = s.name /\ t.config = s.config
        /\ t.monacoDirty = s.monacoDirty /\ t.monaco = s.monaco
    BY <1>0 DEF Store
  <2>. HIDE DEF t
  <2>2. Sound(t) /\ Base(t) = Base(s)
    BY <1>0, <1>3, <2>1 DEF Sound, Base
  <2>3. Shown(t) = Shown(s) => Payload(t) = Payload(s)
    BY <2>1 DEF Payload, Shown
  <2>. QED
    BY <2>1, <2>2, <2>3 DEF Changed, t
<1>4. ASSUME NEW text \in Configs \cup {Broken} PROVE Changed(s, SetMonacoJson(s, text))
  <2>. DEFINE t == SetMonacoJson(s, text)
  <2>1. /\ t \in Store /\ t.hydrated /\ t.coreId = s.coreId /\ t.baseline = s.baseline /\ t.snapshot = s.snapshot
        /\ t.kind = s.kind /\ t.tags = s.tags /\ t.name = s.name /\ t.config = s.config
        /\ t.monacoDirty /\ t.monaco = text
    BY <1>0 DEF Store, Text, SetMonacoJson
  <2>. HIDE DEF t
  <2>2. Sound(t) /\ Base(t) = Base(s) /\ Payload(t) = Payload(s)
    BY <1>0, <2>1, Values DEF Sound, Base, Payload
  <2>. QED
    BY <2>1, <2>2 DEF Changed, t
<1>5. ASSUME NEW tab \in {"form", "advanced"} PROVE Changed(s, [s EXCEPT !.tab = tab])
  <2>. DEFINE t == [s EXCEPT !.tab = tab]
  <2>1. /\ t \in Store /\ t.hydrated /\ t.coreId = s.coreId /\ t.baseline = s.baseline /\ t.snapshot = s.snapshot
        /\ t.kind = s.kind /\ t.tags = s.tags /\ t.name = s.name /\ t.config = s.config
        /\ t.monacoDirty = s.monacoDirty /\ t.monaco = s.monaco
    BY <1>0 DEF Store
  <2>. HIDE DEF t
  <2>2. Sound(t) /\ Base(t) = Base(s) /\ Payload(t) = Payload(s)
    BY <1>0, <2>1 DEF Sound, Base, Payload
  <2>. QED
    BY <2>1, <2>2 DEF Changed, t
<1>. QED
  BY <1>1, <1>2, <1>3, <1>4, <1>5

\* The pushes between the draft and its text; they leave what is shown.
LEMMA PushFacts ==
  ASSUME NEW s, Sound(s), s.hydrated
  PROVE  /\ Changed(s, SyncMonacoFromDraft(s))
         /\ ~s.monacoDirty => Shown(SyncMonacoFromDraft(s)) = Shown(s)
         /\ s.monacoDirty => Changed(s, ApplyMonacoJson(s)) /\ Shown(ApplyMonacoJson(s)) = Shown(s)
<1>0. s \in Store /\ s.config \in Configs /\ s.baseline \in Configs /\ s.snapshot.config \in Configs
      /\ (s.monacoDirty => s.monaco # NoCore) /\ (s.kind = "wg" => ~s.tags)
      /\ (s.snapshot.kind = "wg" => ~s.snapshot.tags)
  BY DEF Sound
<1>1. Changed(s, SyncMonacoFromDraft(s)) /\ (~s.monacoDirty => Shown(SyncMonacoFromDraft(s)) = Shown(s))
  <2>. DEFINE t == SyncMonacoFromDraft(s)
  <2>1. /\ t \in Store /\ t.hydrated /\ t.coreId = s.coreId /\ t.baseline = s.baseline /\ t.snapshot = s.snapshot
        /\ t.kind = s.kind /\ t.tags = s.tags /\ t.name = s.name /\ t.config = s.config /\ ~t.monacoDirty
    BY <1>0 DEF Store, Text, SyncMonacoFromDraft
  <2>. HIDE DEF t
  <2>2. Sound(t) /\ Base(t) = Base(s) /\ Payload(t) = Payload(s)
    BY <1>0, <2>1 DEF Sound, Base, Payload
  <2>3. ~s.monacoDirty => Shown(t) = Shown(s)
    BY <2>1 DEF Shown, CurrentConfig
  <2>. QED
    BY <2>1, <2>2, <2>3 DEF Changed, t
<1>2. ASSUME s.monacoDirty PROVE Changed(s, ApplyMonacoJson(s)) /\ Shown(ApplyMonacoJson(s)) = Shown(s)
  <2>1. CASE s.monaco = Broken
    <3>1. ApplyMonacoJson(s) = s
      BY <2>1 DEF ApplyMonacoJson
    <3>. QED
      BY <3>1 DEF Changed
  <2>2. CASE s.monaco # Broken
    <3>. DEFINE t == ApplyMonacoJson(s)
    <3>1. s.monaco \in Configs
      BY <1>0, <1>2, <2>2 DEF Store, Text
    <3>2. /\ t \in Store /\ t.hydrated /\ t.coreId = s.coreId /\ t.baseline = s.baseline
          /\ t.snapshot = s.snapshot /\ t.kind = s.kind /\ t.tags = s.tags /\ t.name = s.name
          /\ t.config = s.monaco /\ ~t.monacoDirty
      BY <1>0, <2>2, <3>1 DEF Store, ApplyMonacoJson
    <3>. HIDE DEF t
    <3>3. Shown(t) = Shown(s) /\ Base(t) = Base(s) /\ Payload(t) = Shown(t)
      BY <1>2, <3>2 DEF Shown, CurrentConfig, Base, Payload
    <3>4. Sound(t)
      BY <1>0, <3>1, <3>2 DEF Sound
    <3>. QED
      BY <3>2, <3>3, <3>4 DEF Changed, t
  <2>. QED
    BY <2>1, <2>2
<1>. QED
  BY <1>1, <1>2

\* A core is loaded if it is another one, or changed and nothing is unsaved.
LEMMA HydrateFacts ==
  ASSUME NEW s, Sound(s), NEW c \in Cores, NEW d, Proper(d), NEW t, t = Hydrate(s, c, d)
  PROVE  /\ Sound(t) /\ t.coreId = c
         /\ t # s => /\ t.hydrated /\ t.snapshot.config = t.baseline
                     /\ d.config # Broken => Base(t) = d
                     /\ s.coreId = c => ~HasActualChanges(s)
<1>1. CASE t = s /\ s.coreId = c
  BY <1>1
<1>2. ASSUME NEW preserve \in BOOLEAN, t = InitFromCore(s, c, d, preserve), s.coreId = c => ~HasActualChanges(s)
      PROVE  /\ Sound(t) /\ t.coreId = c /\ t.hydrated /\ t.snapshot.config = t.baseline
             /\ d.config # Broken => Base(t) = d
             /\ s.coreId = c => ~HasActualChanges(s)
  BY <1>2, InitFacts
<1>. QED
  BY <1>1, <1>2 DEF Hydrate

\* Contents on screen.
LEMMA ContentFacts ==
  ASSUME NEW s, Sound(s), s.hydrated
  PROVE  Shown(s) \in Content /\ Proper(Payload(s))
<1>1. s \in Store /\ s.config \in Configs /\ (s.monacoDirty => s.monaco \in Configs \cup {Broken})
  BY DEF Sound, Store, Text
<1>2. CurrentConfig(s) \in Configs \cup {Broken}
  BY <1>1 DEF CurrentConfig
<1>. QED
  BY <1>1, <1>2 DEF Shown, Payload, Proper, Content, Sound, Store

-----------------------------------------------------------------------------
(* Requests.                                                               *)

LEMMA Parts ==
  ASSUME CoreEditorInv
  PROVE  /\ CoreEditorTypeOK /\ Sound(store) /\ PageOK /\ ServerOK /\ SavesOK /\ SerialOK
         /\ route \in Cores \cup {"list", "new"} /\ store \in Store /\ saving \in BOOLEAN
         /\ saves \in [Slots -> Request \cup {NoCore}] /\ serial \in BOOLEAN
         /\ cores \in [Cores -> Content \cup {NoCore}] /\ cached \in [Cores -> Content \cup {NoCore}]
         /\ fetching \in [Cores -> {"idle", "sent", "answered"}]
         /\ answer \in [Cores -> Content \cup {NoCore}] /\ known \in [Cores -> Content \cup {NoCore}]
         /\ mine \in Content \cup {NoCore} /\ edits \in 0..MaxEdits /\ visits \in 0..MaxVisits
         /\ \A i \in InFlight : i \in Slots /\ saves[i] \in Request /\ saves[i] # NoCore
         /\ \A i \in Slots : saves[i] # NoCore => i \in InFlight
<1>1. CoreEditorTypeOK
  BY DEF CoreEditorInv
<1>. QED
  BY <1>1 DEF CoreEditorInv, CoreEditorTypeOK, InFlight

\* One slot changes.
LEMMA SlotFacts ==
  ASSUME CoreEditorInv, NEW i \in Slots, NEW r \in Request \cup {NoCore}, saves' = [saves EXCEPT ![i] = r]
  PROVE  /\ saves' \in [Slots -> Request \cup {NoCore}] /\ saves'[i] = r
         /\ \A j \in Slots : j # i => saves'[j] = saves[j]
         /\ \A j : j \in InFlight' <=> (IF j = i THEN r # NoCore ELSE j \in InFlight)
BY Parts DEF InFlight

\* A step of the network: the page does not see it.
LEMMA NetStep ==
  ASSUME CoreEditorInv, UNCHANGED <<route, store, cached, known, mine, serial, visits>>,
         saving' \in BOOLEAN, saves' \in [Slots -> Request \cup {NoCore}],
         cores' \in [Cores -> Content \cup {NoCore}], fetching' \in [Cores -> {"idle", "sent", "answered"}],
         answer' \in [Cores -> Content \cup {NoCore}], edits' \in 0..MaxEdits,
         ServerOK', SavesOK',
         \/ UNCHANGED <<saving, saves>>
         \/ \E i \in InFlight : /\ \A j \in InFlight' : j = i \/ (j \in InFlight /\ saves'[j] = saves[j])
                                /\ i \in InFlight' => /\ saving' = saving
                                                      /\ \A f \in {"here", "target", "data"} :
                                                           saves'[i][f] = saves[i][f]
  PROVE  CoreEditorInv'
<1>1. CoreEditorTypeOK'
  BY Parts DEF CoreEditorTypeOK
<1>2. Sound(store)'
  BY Parts DEF Sound
<1>3. PageOK' /\ Editable' = Editable /\ Target' = Target
  BY Parts DEF PageOK, Editable, Target
<1>4. FlightOK => FlightOK'
  <2>. SUFFICES ASSUME FlightOK PROVE FlightOK'
    OBVIOUS
  <2>1. CASE UNCHANGED <<saving, saves>>
    BY <1>3, <2>1 DEF FlightOK, InFlight, HasActualChanges, CurrentConfig, Payload, Shown, Editable, Target
  <2>2. ASSUME NEW i \in InFlight,
               \A j \in InFlight' : j = i \/ (j \in InFlight /\ saves'[j] = saves[j]),
               i \in InFlight' => saving' = saving /\ \A f \in {"here", "target", "data"} : saves'[i][f] = saves[i][f]
        PROVE  FlightOK'
    <3>1. \A j \in InFlight : j = i
      BY DEF FlightOK
    <3>2. \A j \in InFlight' : j = i
      BY <2>2, <3>1
    <3>3. /\ Editable /\ HasActualChanges(store)
          /\ saving /\ saves[i].here /\ saves[i].target = Target
          /\ saves[i].data = Payload(store) /\ Payload(store) = Shown(store)
      BY DEF FlightOK
    <3>4. HasActualChanges(store)' /\ Payload(store)' = Payload(store) /\ Shown(store)' = Shown(store)
      BY <3>3 DEF HasActualChanges, CurrentConfig, Payload, Shown
    <3>5. i \in InFlight' => saving' /\ saves'[i].here /\ saves'[i].target = Target
                              /\ saves'[i].data = Payload(store)
      BY <2>2, <3>3
    <3>. QED
      BY <1>3, <3>2, <3>3, <3>4, <3>5 DEF FlightOK
  <2>. QED
    BY <2>1, <2>2
<1>5. SerialOK'
  BY <1>3, <1>4, Parts DEF SerialOK, Base, Shown, CurrentConfig
<1>. QED
  BY <1>1, <1>2, <1>3, <1>5 DEF CoreEditorInv

LEMMA CommitInv == ASSUME CoreEditorInv, NEW i \in Slots, Commit(i) PROVE CoreEditorInv'
<1>1. /\ saves[i] # NoCore /\ saves[i].state = "sent" /\ saves[i] \in Request /\ i \in InFlight
      /\ UNCHANGED <<route, store, saving, cached, fetching, answer, known, mine, serial, edits, visits>>
  BY Parts DEF Commit, InFlight, view, hist
<1>2. PICK c \in Cores :
        /\ IF saves[i].target = NoCore THEN cores[c] = NoCore ELSE c = saves[i].target
        /\ cores' = [cores EXCEPT ![c] = saves[i].data]
        /\ saves' = [saves EXCEPT ![i].state = "stored", ![i].made = c]
  BY DEF Commit
<1>3. PICK r \in Request : r = [saves[i] EXCEPT !.state = "stored", !.made = c]
  BY <1>1 DEF Request
<1>4. /\ r.target = saves[i].target /\ r.editing = saves[i].editing /\ r.data = saves[i].data
      /\ r.here = saves[i].here /\ r.made = c /\ r # NoCore
  BY <1>1, <1>3, Values DEF Request
<1>5. saves' = [saves EXCEPT ![i] = r]
  BY <1>1, <1>2, <1>3, Parts
<1>6. /\ saves' \in [Slots -> Request \cup {NoCore}] /\ saves'[i] = r
      /\ \A j \in Slots : j # i => saves'[j] = saves[j]
      /\ \A j : j \in InFlight' <=> j \in InFlight
  BY <1>1, <1>4, <1>5, SlotFacts
<1>7. Proper(saves[i].data)
  BY <1>1, Parts DEF SavesOK
<1>8. cores' \in [Cores -> Content \cup {NoCore}]
  BY <1>2, <1>7, Parts DEF Proper
<1>9. ServerOK'
  BY <1>1, <1>2, <1>7, Parts DEF ServerOK
<1>10. SavesOK'
  <2>. SUFFICES ASSUME NEW j \in InFlight'
                PROVE  /\ Proper(saves'[j].data) /\ saves'[j].target = saves'[j].editing
                       /\ saves'[j].state = "stored" => saves'[j].made \in Cores
                            /\ (saves'[j].target # NoCore => saves'[j].made = saves'[j].target)
    BY DEF SavesOK, Proper
  <2>1. j \in InFlight /\ j \in Slots
    BY <1>6, Parts
  <2>2. Proper(saves[j].data) /\ saves[j].target = saves[j].editing
    BY <2>1, Parts DEF SavesOK
  <2>3. CASE j = i
    BY <1>2, <1>4, <1>6, <2>2, <2>3
  <2>4. CASE j # i
    BY <1>6, <2>1, <2>4, Parts DEF SavesOK
  <2>. QED
    BY <2>3, <2>4
<1>11. \A j \in InFlight' : j = i \/ (j \in InFlight /\ saves'[j] = saves[j])
  BY <1>6, Parts
<1>12. saves'[i].here = saves[i].here /\ saves'[i].target = saves[i].target /\ saves'[i].data = saves[i].data
  BY <1>4, <1>6
<1>. QED
  BY <1>1, <1>6, <1>8, <1>9, <1>10, <1>11, <1>12, NetStep, Parts

LEMMA RefuseInv == ASSUME CoreEditorInv, NEW i \in Slots, Refuse(i) PROVE CoreEditorInv'
<1>1. /\ saves[i] # NoCore /\ saves[i] \in Request /\ i \in InFlight
      /\ UNCHANGED <<route, store, saving, cores, cached, fetching, answer, known, mine, serial, edits, visits>>
      /\ saves' = [saves EXCEPT ![i].state = "failed"]
  BY Parts DEF Refuse, InFlight, view, hist
<1>2. PICK r \in Request : r = [saves[i] EXCEPT !.state = "failed"]
  BY <1>1 DEF Request
<1>3. /\ r.target = saves[i].target /\ r.editing = saves[i].editing /\ r.data = saves[i].data
      /\ r.here = saves[i].here /\ r.state = "failed" /\ r # NoCore
  BY <1>1, <1>2, Values DEF Request
<1>4. saves' = [saves EXCEPT ![i] = r]
  BY <1>1, <1>2, Parts
<1>5. /\ saves' \in [Slots -> Request \cup {NoCore}] /\ saves'[i] = r
      /\ \A j \in Slots : j # i => saves'[j] = saves[j]
      /\ \A j : j \in InFlight' <=> j \in InFlight
  BY <1>1, <1>3, <1>4, SlotFacts
<1>6. ServerOK'
  BY <1>1, Parts DEF ServerOK
<1>7. SavesOK'
  BY <1>3, <1>5, Parts DEF SavesOK, Proper
<1>8. \A j \in InFlight' : j = i \/ (j \in InFlight /\ saves'[j] = saves[j])
  BY <1>5, Parts
<1>9. saves'[i].here = saves[i].here /\ saves'[i].target = saves[i].target /\ saves'[i].data = saves[i].data
  BY <1>3, <1>5
<1>. QED
  BY <1>1, <1>5, <1>6, <1>7, <1>8, <1>9, NetStep, Parts

LEMMA SaveFailedInv == ASSUME CoreEditorInv, NEW i \in Slots, SaveFailed(i) PROVE CoreEditorInv'
<1>1. /\ saves[i] # NoCore /\ i \in InFlight /\ saves[i] \in Request
      /\ UNCHANGED <<route, store, cores, cached, fetching, answer, known, mine, serial, edits, visits>>
      /\ saves' = [saves EXCEPT ![i] = NoCore]
      /\ saving' = (saving /\ ~saves[i].here)
  BY Parts DEF SaveFailed, InFlight, hist
<1>2. saving' \in BOOLEAN
  BY <1>1
<1>3. /\ saves' \in [Slots -> Request \cup {NoCore}]
      /\ \A j \in Slots : j # i => saves'[j] = saves[j]
      /\ \A j : j \in InFlight' <=> (j # i /\ j \in InFlight)
  BY <1>1, SlotFacts
<1>4. ServerOK'
  BY <1>1, Parts DEF ServerOK
<1>5. SavesOK'
  BY <1>3, Parts DEF SavesOK, Proper
<1>6. \A j \in InFlight' : j = i \/ (j \in InFlight /\ saves'[j] = saves[j])
  BY <1>3, Parts
<1>. QED
  BY <1>1, <1>2, <1>3, <1>4, <1>5, <1>6, NetStep, Parts

LEMMA AnswerInv == ASSUME CoreEditorInv, NEW c \in Cores, Answer(c) PROVE CoreEditorInv'
<1>1. /\ cores[c] # NoCore /\ UNCHANGED <<route, store, saving, saves, cores, cached, known, mine, serial, edits, visits>>
      /\ fetching' = [fetching EXCEPT ![c] = "answered"] /\ answer' = [answer EXCEPT ![c] = cores[c]]
  BY DEF Answer, view, hist
<1>2. fetching' \in [Cores -> {"idle", "sent", "answered"}] /\ answer' \in [Cores -> Content \cup {NoCore}]
  BY <1>1, Parts
<1>3. ServerOK'
  BY <1>1, Parts DEF ServerOK
<1>4. SavesOK'
  BY <1>1, Parts DEF SavesOK, InFlight, Proper
<1>. QED
  BY <1>1, <1>2, <1>3, <1>4, NetStep, Parts

LEMMA ChangedElsewhereInv == ASSUME CoreEditorInv, NEW c \in Cores, ChangedElsewhere(c) PROVE CoreEditorInv'
<1>1. /\ edits < MaxEdits /\ edits' = edits + 1
      /\ UNCHANGED <<route, store, saving, saves, cached, fetching, answer, known, mine, serial, visits>>
  BY DEF ChangedElsewhere, view, hist
<1>2. PICK d \in Stored : cores' = [cores EXCEPT ![c] = d]
  BY DEF ChangedElsewhere
<1>3. Proper(d)
  BY CoreEditorAssumption, NoCoreAssumption DEF Proper
<1>4. cores' \in [Cores -> Content \cup {NoCore}]
  BY <1>2, <1>3, Parts DEF Proper
<1>5. edits' \in 0..MaxEdits
  BY <1>1, Parts, CoreEditorAssumption
<1>6. ServerOK'
  BY <1>1, <1>2, <1>3, Parts DEF ServerOK
<1>7. SavesOK'
  BY <1>1, Parts DEF SavesOK, InFlight, Proper
<1>. QED
  BY <1>1, <1>4, <1>5, <1>6, <1>7, NetStep, Parts

-----------------------------------------------------------------------------
(* The page comes on screen, or sees the answer of its query.              *)

\* A page is shown over a store that holds no core, as long as serial holds.
LEMMA ShowInv ==
  ASSUME CoreEditorInv, NEW c \in Cores, NEW s, Sound(s), NEW held \in [Cores -> Content \cup {NoCore}],
         Show(c, s, held), UNCHANGED <<cores, cached>>,
         s.coreId # NoCore => cached[s.coreId] # NoCore,
         saving' \in BOOLEAN, saves' \in [Slots -> Request \cup {NoCore}], SavesOK',
         mine' \in Content \cup {NoCore}, edits' \in 0..MaxEdits, visits' \in 0..MaxVisits,
         serial => InFlight' = {} /\ mine' = NoCore /\ s.coreId = NoCore
  PROVE  CoreEditorInv'
<1>1. /\ route' = c
      /\ fetching' = [x \in Cores |-> IF x = c THEN "sent" ELSE "idle"]
      /\ answer' = [x \in Cores |-> NoCore]
  BY DEF Show
<1>2. /\ Sound(store') /\ known' \in [Cores -> Content \cup {NoCore}] /\ serial' \in BOOLEAN
      /\ serial' => serial
      /\ store'.coreId # NoCore => cached[store'.coreId] # NoCore
      /\ cached[c] # NoCore =>
           /\ store'.coreId = c
           /\ serial' => /\ store'.snapshot.config = store'.baseline
                         /\ Base(store') = known'[c]
  <2>1. CASE cached[c] = NoCore
    BY <2>1, Parts DEF Show
  <2>2. CASE cached[c] # NoCore
    <3>1. Proper(cached[c]) /\ cached[c] \in Content
      BY <2>2, Parts DEF ServerOK
    <3>2. /\ store' = Hydrate(s, c, cached[c])
          /\ known' = IF store' # s THEN [held EXCEPT ![c] = cached[c]] ELSE held
          /\ serial' = (serial /\ (store' # s => cached[c].config # Broken))
      BY <2>2 DEF Show
    <3>3. /\ Sound(store') /\ store'.coreId = c
          /\ store' # s => /\ store'.snapshot.config = store'.baseline
                           /\ cached[c].config # Broken => Base(store') = cached[c]
      BY <3>1, <3>2, HydrateFacts
    <3>4. known' \in [Cores -> Content \cup {NoCore}] /\ serial' \in BOOLEAN /\ (serial' => serial)
      BY <3>1, <3>2
    <3>5. ASSUME serial' PROVE store'.snapshot.config = store'.baseline /\ Base(store') = known'[c]
      <4>1. store' # s
        BY <3>2, <3>3, <3>5, Values
      <4>2. known'[c] = cached[c]
        BY <3>2, <4>1
      <4>. QED
        BY <3>2, <3>3, <3>5, <4>1, <4>2
    <3>. QED
      BY <2>2, <3>3, <3>4, <3>5
  <2>. QED
    BY <2>1, <2>2
<1>3. store' \in Store /\ Sound(store)'
  BY <1>2 DEF Sound
<1>4. CoreEditorTypeOK'
  BY <1>1, <1>2, <1>3, Parts DEF CoreEditorTypeOK
<1>5. Editable' => cached[c] # NoCore
  BY <1>1 DEF Editable
<1>6. PageOK'
  BY <1>1, <1>2, <1>5, Values DEF PageOK, Target
<1>7. ServerOK'
  BY <1>1, Parts DEF ServerOK, Proper
<1>8. SerialOK'
  BY <1>1, <1>2, <1>5 DEF SerialOK, FlightOK, Base
<1>. QED
  BY <1>3, <1>4, <1>6, <1>7, <1>8 DEF CoreEditorInv

\* No save, no content of the user where nothing can be edited.
LEMMA Quiet ==
  ASSUME CoreEditorInv, serial
  PROVE  /\ ~Editable => InFlight = {} /\ mine = NoCore
         /\ ~saving => InFlight = {}
         /\ Editable /\ ~HasActualChanges(store) => InFlight = {}
         /\ Editable /\ ~HasActualChanges(store) /\ route \in Cores => mine = NoCore
<1>1. /\ FlightOK /\ (Editable /\ route \in Cores => Base(store) = known[route])
      /\ mine # NoCore => Editable /\ Shown(store) = mine /\ (route \in Cores => mine # known[route])
  BY Parts DEF SerialOK
<1>2. Editable => store.hydrated
  BY DEF Editable
<1>. QED
  BY <1>1, <1>2, ChangesFact DEF FlightOK

LEMMA OpenCoreInv == ASSUME CoreEditorInv, NEW c \in Cores, OpenCore(c) PROVE CoreEditorInv'
<1>1. /\ route = "list" /\ visits < MaxVisits /\ visits' = visits + 1
      /\ Show(c, store, known) /\ UNCHANGED <<saving, saves, cores, cached, mine, edits>>
  BY DEF OpenCore
<1>2. visits' \in 0..MaxVisits
  BY <1>1, Parts, CoreEditorAssumption
<1>3. store.coreId = NoCore
  BY <1>1, Parts, EmptySound DEF PageOK
<1>4. SavesOK' /\ InFlight' = InFlight
  BY <1>1, Parts DEF SavesOK, InFlight, Proper
<1>5. serial => InFlight = {} /\ mine = NoCore
  BY <1>1, Quiet DEF Editable
<1>. QED
  BY <1>1, <1>2, <1>3, <1>4, <1>5, Parts, ShowInv

LEMMA SaveDoneInv == ASSUME CoreEditorInv, NEW i \in Slots, SaveDone(i) PROVE CoreEditorInv'
<1>. DEFINE r == saves[i]
            held == [known EXCEPT ![r.made] = r.data]
<1>1. /\ r # NoCore /\ r.state = "stored" /\ saves' = [saves EXCEPT ![i] = NoCore]
      /\ saving' = (saving /\ ~r.here) /\ mine' = (IF mine = r.data THEN NoCore ELSE mine)
      /\ UNCHANGED <<cores, cached, edits, visits>>
      /\ IF r.target = NoCore /\ route # r.made
           THEN Show(r.made, MarkClean(store), held)
           ELSE /\ store' = MarkClean(store) /\ known' = held
                /\ IF route = r.target
                   THEN /\ fetching' = [fetching EXCEPT ![route] = "sent"]
                        /\ answer' = [answer EXCEPT ![route] = NoCore]
                   ELSE UNCHANGED <<fetching, answer>>
                /\ UNCHANGED <<route, serial>>
  BY DEF SaveDone
<1>2. i \in InFlight /\ r \in Request
  BY <1>1, Parts
<1>3. /\ r.made \in Cores /\ Proper(r.data) /\ r.data \in Content
      /\ r.target # NoCore => r.made = r.target
  BY <1>1, <1>2, Parts DEF SavesOK, Proper
<1>. HIDE DEF r
<1>4. held \in [Cores -> Content \cup {NoCore}] /\ held[r.made] = r.data
  BY <1>3, Parts
<1>. HIDE DEF held
<1>5. saving' \in BOOLEAN /\ mine' \in Content \cup {NoCore}
  BY <1>1, Parts
<1>6. /\ saves' \in [Slots -> Request \cup {NoCore}]
      /\ \A j \in Slots : j # i => saves'[j] = saves[j]
      /\ \A j : j \in InFlight' <=> (j # i /\ j \in InFlight)
  BY <1>1, SlotFacts
<1>7. SavesOK'
  BY <1>6, Parts DEF SavesOK, Proper
<1>8. /\ Sound(MarkClean(store)) /\ MarkClean(store).hydrated = store.hydrated
      /\ MarkClean(store).coreId = store.coreId /\ (~store.hydrated => MarkClean(store) = store)
      /\ store.hydrated => /\ MarkClean(store).snapshot.config = MarkClean(store).baseline
                           /\ Base(MarkClean(store)) = Payload(store)
  BY Parts, MarkFacts
<1>9. serial => /\ InFlight' = {} /\ mine' = NoCore /\ Editable /\ r.target = Target
                /\ r.data = Payload(store) /\ r.target = store.coreId
  <2>. SUFFICES ASSUME serial PROVE /\ InFlight' = {} /\ mine' = NoCore /\ Editable /\ r.target = Target
                                    /\ r.data = Payload(store) /\ r.target = store.coreId
    OBVIOUS
  <2>1. /\ \A j \in InFlight : j = i
        /\ Editable /\ r.target = Target /\ r.data = Payload(store) /\ Payload(store) = Shown(store)
        /\ mine # NoCore => Shown(store) = mine
    BY <1>2, Parts DEF SerialOK, FlightOK, r
  <2>2. InFlight' = {}
    BY <1>6, <2>1
  <2>3. mine' = NoCore
    BY <1>1, <2>1
  <2>. QED
    BY <2>1, <2>2, <2>3, Parts DEF PageOK
<1>10. store.coreId # NoCore => cached[store.coreId] # NoCore
  BY Parts DEF PageOK
<1>11. CASE r.target = NoCore /\ route # r.made
  <2>1. Show(r.made, MarkClean(store), held)
    BY <1>1, <1>11
  <2>2. serial => InFlight' = {} /\ mine' = NoCore /\ MarkClean(store).coreId = NoCore
    BY <1>8, <1>9, <1>11
  <2>3. edits' \in 0..MaxEdits /\ visits' \in 0..MaxVisits /\ UNCHANGED <<cores, cached>>
    BY <1>1, Parts
  <2>4. MarkClean(store).coreId # NoCore => cached[MarkClean(store).coreId] # NoCore
    BY <1>8, <1>10
  <2>. QED
    BY <1>3, <1>4, <1>5, <1>6, <1>7, <1>8, <2>1, <2>2, <2>3, <2>4, ShowInv
<1>12. CASE ~(r.target = NoCore /\ route # r.made)
  <2>1. /\ store' = MarkClean(store) /\ known' = held /\ UNCHANGED <<route, serial>>
        /\ \/ UNCHANGED <<fetching, answer>>
           \/ /\ fetching' = [fetching EXCEPT ![route] = "sent"]
              /\ answer' = [answer EXCEPT ![route] = NoCore]
    BY <1>1, <1>12
  <2>2. /\ fetching' \in [Cores -> {"idle", "sent", "answered"}] /\ answer' \in [Cores -> Content \cup {NoCore}]
        /\ \A x \in Cores : (fetching'[x] = fetching[x] /\ answer'[x] = answer[x])
                            \/ (fetching'[x] = "sent" /\ answer'[x] = NoCore)
    BY <2>1, Parts
  <2>3. Sound(store)' /\ store' \in Store
    BY <1>8, <2>1 DEF Sound
  <2>4. CoreEditorTypeOK'
    BY <1>1, <1>4, <1>5, <1>6, <2>1, <2>2, <2>3, Parts DEF CoreEditorTypeOK
  <2>5. Editable' = Editable /\ Target' = Target
    BY <1>1, <1>8, <2>1 DEF Editable, Target
  <2>6. PageOK'
    <3>1. route = "list" => store' = EmptyFields
      BY <1>8, <2>1, Parts, EmptySound DEF PageOK
    <3>. QED
      BY <1>1, <1>8, <1>10, <2>1, <2>5, <3>1, Parts DEF PageOK
  <2>7. ServerOK'
    BY <1>1, <2>2, Parts DEF ServerOK, Proper
  <2>8. ASSUME serial PROVE /\ Editable => store'.snapshot.config = store'.baseline
                            /\ Editable /\ route \in Cores => Base(store') = known'[route]
    <3>1. store.hydrated
      BY <1>9, <2>8 DEF Editable
    <3>2. route \in Cores => r.target # NoCore /\ route = r.made
      BY <1>3, <1>9, <2>8, Values DEF Target
    <3>. QED
      BY <1>4, <1>8, <1>9, <2>1, <2>8, <3>1, <3>2
  <2>9. SerialOK'
    BY <1>9, <2>1, <2>5, <2>8 DEF SerialOK, FlightOK, Base
  <2>. QED
    BY <1>7, <2>3, <2>4, <2>6, <2>7, <2>9 DEF CoreEditorInv
<1>. QED
  BY <1>11, <1>12

LEMMA FetchedInv == ASSUME CoreEditorInv, NEW c \in Cores, Fetched(c) PROVE CoreEditorInv'
<1>1. /\ fetching[c] = "answered"
      /\ fetching' = [fetching EXCEPT ![c] = "idle"] /\ answer' = [answer EXCEPT ![c] = NoCore]
      /\ cached' = [cached EXCEPT ![c] = answer[c]]
      /\ UNCHANGED <<route, saving, saves, cores, mine, edits, visits>>
  BY DEF Fetched
<1>2. answer[c] # NoCore /\ Proper(answer[c]) /\ answer[c] \in Content
  BY <1>1, Parts DEF ServerOK
<1>3. /\ fetching' \in [Cores -> {"idle", "sent", "answered"}] /\ answer' \in [Cores -> Content \cup {NoCore}]
      /\ cached' \in [Cores -> Content \cup {NoCore}]
      /\ cached'[c] = answer[c] /\ \A x \in Cores \ {c} : cached'[x] = cached[x]
      /\ \A x \in Cores : cached[x] # NoCore => cached'[x] # NoCore
  BY <1>1, <1>2, Parts
<1>4. ServerOK'
  BY <1>1, <1>2, Parts DEF ServerOK, Proper
<1>5. SavesOK' /\ InFlight' = InFlight
  BY <1>1, Parts DEF SavesOK, InFlight, Proper
<1>6. CASE ~(route = c /\ answer[c] # cached[c])
  <2>1. UNCHANGED <<store, known, serial>>
    BY <1>6 DEF Fetched
  <2>2. Sound(store)' /\ CoreEditorTypeOK'
    BY <1>1, <1>3, <2>1, Parts DEF CoreEditorTypeOK, Sound
  <2>3. Editable' = Editable /\ Target' = Target
    BY <1>1, <1>3, <1>6, <2>1 DEF Editable, Target
  <2>4. PageOK'
    BY <1>1, <1>3, <2>1, <2>3, Parts DEF PageOK, Sound
  <2>5. SerialOK'
    BY <1>1, <1>5, <2>1, <2>3, Parts
    DEF SerialOK, FlightOK, Base, Shown, Payload, CurrentConfig, HasActualChanges
  <2>. QED
    BY <1>4, <1>5, <2>2, <2>4, <2>5 DEF CoreEditorInv
<1>7. CASE route = c /\ answer[c] # cached[c]
  <2>1. /\ store' = Hydrate(store, c, answer[c])
        /\ known' = IF store' # store THEN [known EXCEPT ![c] = answer[c]] ELSE known
        /\ serial' = (serial /\ (store' # store => answer[c].config # Broken))
    BY <1>7 DEF Fetched
  <2>2. /\ Sound(store') /\ store'.coreId = c
        /\ store' # store => /\ store'.hydrated /\ store'.snapshot.config = store'.baseline
                             /\ answer[c].config # Broken => Base(store') = answer[c]
                             /\ store.coreId = c => ~HasActualChanges(store)
    BY <1>2, <2>1, Parts, HydrateFacts
  <2>3. /\ known' \in [Cores -> Content \cup {NoCore}] /\ serial' \in BOOLEAN /\ (serial' => serial)
        /\ store' # store => known'[c] = answer[c]
    BY <1>2, <2>1, Parts
  <2>4. Sound(store)' /\ store' \in Store /\ CoreEditorTypeOK'
    BY <1>1, <1>3, <2>2, <2>3, Parts DEF CoreEditorTypeOK, Sound
  <2>5. PageOK'
    BY <1>1, <1>3, <1>7, <2>2, Values DEF PageOK, Target
  <2>6. SerialOK'
    <3>. SUFFICES ASSUME serial' PROVE SerialOK'
      BY DEF SerialOK
    <3>1. serial
      BY <2>3
    <3>2. CASE store' = store
      <4>1. store.coreId = c /\ cached[c] # NoCore /\ cached'[c] # NoCore
        BY <1>3, <2>2, <3>2, Parts, Values DEF PageOK
      <4>2. Editable' = Editable /\ Target' = Target /\ known' = known
        BY <1>1, <1>7, <2>1, <3>2, <4>1 DEF Editable, Target
      <4>. QED
        BY <1>1, <1>5, <2>3, <3>1, <3>2, <4>2, Parts
        DEF SerialOK, FlightOK, Base, Shown, Payload, CurrentConfig, HasActualChanges
    <3>3. CASE store' # store
      <4>1. InFlight = {} /\ mine = NoCore
        <5>1. CASE Editable
          <6>1. store.coreId = c /\ ~HasActualChanges(store)
            BY <1>7, <2>2, <3>3, <5>1, Parts, Values DEF PageOK, Target
          <6>. QED
            BY <1>7, <3>1, <5>1, <6>1, Quiet
        <5>2. CASE ~Editable
          BY <3>1, <5>2, Quiet
        <5>. QED
          BY <5>1, <5>2
      <4>2. Base(store') = known'[c] /\ store'.snapshot.config = store'.baseline
        BY <2>1, <2>2, <2>3, <3>3
      <4>. QED
        BY <1>1, <1>5, <1>7, <4>1, <4>2 DEF SerialOK, FlightOK, Base
    <3>. QED
      BY <3>2, <3>3
  <2>. QED
    BY <1>4, <1>5, <2>4, <2>5, <2>6 DEF CoreEditorInv
<1>. QED
  BY <1>6, <1>7

-----------------------------------------------------------------------------
(* The user.                                                               *)

LEMMA ChangeInv ==
  ASSUME CoreEditorInv, NEW t, Changed(store, t), Change(t), edits' \in 0..MaxEdits
  PROVE  CoreEditorInv'
<1>1. /\ Editable /\ store' = t /\ store.hydrated
      /\ mine' = IF Shown(t) = Shown(store) THEN mine
                 ELSE IF route \in Cores /\ Shown(t) = known[route] THEN NoCore ELSE Shown(t)
      /\ serial' = (serial /\ (InFlight = {} \/ Shown(t) = Shown(store)))
      /\ UNCHANGED <<route, saving, saves, cores, cached, fetching, answer, known, visits>>
  BY DEF Change, net, Editable
<1>2. /\ Sound(t) /\ t.hydrated /\ t.coreId = store.coreId /\ Base(t) = Base(store)
      /\ t.snapshot.config = store.snapshot.config /\ t.baseline = store.baseline
      /\ Payload(store) = Shown(store) /\ Shown(t) = Shown(store) => Payload(t) = Payload(store)
  BY DEF Changed, Base
<1>3. Shown(t) \in Content
  BY <1>2, ContentFacts
<1>4. Sound(store)' /\ store' \in Store
  BY <1>1, <1>2 DEF Sound
<1>5. CoreEditorTypeOK'
  BY <1>1, <1>3, <1>4, Parts DEF CoreEditorTypeOK
<1>6. Editable' /\ Target' = Target
  BY <1>1, <1>2 DEF Editable, Target
<1>7. PageOK'
  BY <1>1, <1>2, <1>6, Parts DEF PageOK, Editable
<1>8. ServerOK' /\ SavesOK' /\ InFlight' = InFlight
  BY <1>1, Parts DEF ServerOK, SavesOK, InFlight, Proper
<1>9. SerialOK'
  <2>. SUFFICES ASSUME serial' PROVE SerialOK'
    BY DEF SerialOK
  <2>1. serial /\ (InFlight = {} \/ Shown(t) = Shown(store))
    BY <1>1
  <2>2. FlightOK'
    <3>1. CASE InFlight = {}
      BY <1>8, <3>1 DEF FlightOK
    <3>2. CASE InFlight # {}
      <4>1. /\ \A j, k \in InFlight : j = k
            /\ \A j \in InFlight :
                 /\ HasActualChanges(store) /\ saving /\ saves[j].here /\ saves[j].target = Target
                 /\ saves[j].data = Payload(store) /\ Payload(store) = Shown(store)
        BY <2>1, Parts DEF SerialOK, FlightOK
      <4>2. Shown(t) = Shown(store)
        BY <2>1, <3>2
      <4>3. Payload(store) = Shown(store) /\ Payload(t) = Shown(t) /\ Payload(t) = Payload(store)
        BY <1>2, <3>2, <4>1, <4>2
      <4>4. HasActualChanges(t)
        BY <1>2, <3>2, <4>1, <4>2, ChangesFact
      <4>5. HasActualChanges(store)' /\ Payload(store)' = Payload(t) /\ Shown(store)' = Shown(t)
        BY <1>1, <4>4 DEF HasActualChanges, Payload, Shown, CurrentConfig
      <4>. QED
        BY <1>1, <1>6, <1>8, <4>1, <4>3, <4>5 DEF FlightOK
    <3>. QED
      BY <3>1, <3>2
  <2>3. store'.snapshot.config = store'.baseline /\ (route \in Cores => Base(store') = known[route])
    BY <1>1, <1>2, <2>1, Parts DEF SerialOK
  <2>4. mine' # NoCore => Shown(store') = mine' /\ (route \in Cores => mine' # known[route])
    BY <1>1, <2>1, Parts DEF SerialOK
  <2>5. Shown(store)' = Shown(store') /\ Base(store)' = Base(store')
    BY DEF Shown, CurrentConfig, Base
  <2>. QED
    BY <1>1, <1>6, <2>2, <2>3, <2>4, <2>5 DEF SerialOK
<1>. QED
  BY <1>4, <1>5, <1>7, <1>8, <1>9 DEF CoreEditorInv

\* The form, the JSON editor and the pushes between the two.
LEMMA EditsInv ==
  ASSUME CoreEditorInv,
         EditForm \/ EditName \/ EditTags \/ TypeJson \/ ApplyJson \/ SyncJson \/ RefreshJson \/ SwitchTab
  PROVE  CoreEditorInv'
<1>. SUFFICES \E t : Changed(store, t) /\ Change(t) /\ edits' \in 0..MaxEdits
  BY ChangeInv
<1>1. ASSUME NEW t, Edit(t) PROVE Change(t) /\ edits' \in 0..MaxEdits
  BY <1>1, Parts, CoreEditorAssumption DEF Edit
<1>2. ASSUME NEW t, Change(t) PROVE store.hydrated
  BY <1>2 DEF Change, Editable
<1>3. Sound(store) /\ store \in Store
  BY Parts
<1>4. CASE EditForm
  <2>1. PICK config \in Configs : Edit(UpdateDraft(store, config))
    BY <1>4 DEF EditForm
  <2>. QED
    BY <1>1, <1>2, <1>3, <2>1, EditFacts
<1>5. CASE EditName
  <2>1. PICK name \in Names : Edit([store EXCEPT !.name = name])
    BY <1>5 DEF EditName
  <2>. QED
    BY <1>1, <1>2, <1>3, <2>1, EditFacts
<1>6. CASE EditTags
  <2>1. store.kind = "xray" /\ Edit([store EXCEPT !.tags = ~store.tags])
    BY <1>6 DEF EditTags
  <2>. QED
    BY <1>1, <1>2, <1>3, <2>1, EditFacts
<1>7. CASE TypeJson
  <2>1. PICK text \in Configs \cup {Broken} : Edit(SetMonacoJson(store, text))
    BY <1>7 DEF TypeJson
  <2>. QED
    BY <1>1, <1>2, <1>3, <2>1, EditFacts
<1>8. CASE ApplyJson
  <2>1. store.monacoDirty /\ Change(ApplyMonacoJson(store)) /\ edits' \in 0..MaxEdits
    BY <1>8, Parts DEF ApplyJson
  <2>. QED
    BY <1>2, <1>3, <2>1, PushFacts
<1>9. CASE SyncJson \/ RefreshJson
  <2>1. Change(SyncMonacoFromDraft(store)) /\ edits' \in 0..MaxEdits
    BY <1>9, Parts DEF SyncJson, RefreshJson
  <2>. QED
    BY <1>2, <1>3, <2>1, PushFacts
<1>10. CASE SwitchTab
  <2>1. PICK tab \in {"form", "advanced"} : tab = IF store.tab = "form" THEN "advanced" ELSE "form"
    OBVIOUS
  <2>2. [store EXCEPT !.tab = IF @ = "form" THEN "advanced" ELSE "form"] = [store EXCEPT !.tab = tab]
    BY <2>1
  <2>3. Change([store EXCEPT !.tab = tab]) /\ edits' \in 0..MaxEdits
    BY <1>10, <2>2, Parts DEF SwitchTab
  <2>. QED
    BY <1>2, <1>3, <2>3, EditFacts
<1>. QED
  BY <1>4, <1>5, <1>6, <1>7, <1>8, <1>9, <1>10

\* The draft is replaced: by the user, who then has nothing unsaved.
LEMMA ReplaceInv ==
  ASSUME CoreEditorInv, Sound(store'), store'.hydrated, route' # "list",
         store'.coreId = NoCore \/ store'.coreId = store.coreId,
         route' \in Cores \cup {"new"}, Editable' => store'.coreId = Target',
         mine' \in Content \cup {NoCore}, serial' \in BOOLEAN, edits' \in 0..MaxEdits, visits' \in 0..MaxVisits,
         UNCHANGED <<saving, saves, cores, cached, fetching, answer, known>>,
         serial' => /\ InFlight = {} /\ mine' = NoCore /\ store'.snapshot.config = store'.baseline
                    /\ Editable' /\ route' \in Cores => Base(store') = known[route']
  PROVE  CoreEditorInv'
<1>1. Sound(store)' /\ store' \in Store
  BY DEF Sound
<1>2. CoreEditorTypeOK'
  BY <1>1, Parts DEF CoreEditorTypeOK
<1>3. PageOK'
  BY Parts DEF PageOK
<1>4. ServerOK' /\ SavesOK' /\ InFlight' = InFlight
  BY Parts DEF ServerOK, SavesOK, InFlight, Proper
<1>5. SerialOK'
  BY <1>4 DEF SerialOK, FlightOK, Base
<1>. QED
  BY <1>1, <1>2, <1>3, <1>4, <1>5 DEF CoreEditorInv

LEMMA DiscardInv == ASSUME CoreEditorInv, Discard PROVE CoreEditorInv'
<1>1. /\ Editable /\ store.hydrated /\ store' = DiscardDraft(store) /\ mine' = NoCore
      /\ serial' = (serial /\ InFlight = {})
      /\ UNCHANGED <<route, saving, saves, cores, cached, fetching, answer, known, edits, visits>>
  BY DEF Discard, Editable, net
<1>2. /\ Sound(store') /\ store'.hydrated /\ store'.coreId = store.coreId
      /\ store'.snapshot.config = store'.baseline
      /\ store.snapshot.config = store.baseline => Base(store') = Base(store)
  BY <1>1, Parts, DiscardFacts
<1>3. route \in Cores \cup {"new"} /\ route # "list" /\ store.coreId = Target /\ Target' = Target
  BY <1>1, Parts DEF Editable, PageOK, Target
<1>4. serial => store.snapshot.config = store.baseline /\ (route \in Cores => Base(store) = known[route])
  BY <1>1, Parts DEF SerialOK
<1>. QED
  BY <1>1, <1>2, <1>3, <1>4, Parts, ReplaceInv

LEMMA ChooseKindInv == ASSUME CoreEditorInv, NEW kind \in Kinds, ChooseKind(kind) PROVE CoreEditorInv'
<1>1. /\ Editable /\ store.hydrated /\ mine' = NoCore /\ edits < MaxEdits /\ edits' = edits + 1
      /\ IF route = "new"
         THEN /\ store' = InitNew(store, kind, store.name)
              /\ serial' = (serial /\ InFlight = {})
         ELSE /\ store' = SwitchKind(store, kind)
              /\ serial' = FALSE
      /\ UNCHANGED <<route, saving, saves, cores, cached, fetching, answer, known, visits>>
  BY DEF ChooseKind, Editable, net
<1>2. route \in Cores \cup {"new"} /\ route # "list" /\ store.coreId = Target /\ Target' = Target
  BY <1>1, Parts DEF Editable, PageOK, Target
<1>3. store.name \in Names /\ edits' \in 0..MaxEdits
  BY <1>1, Parts, CoreEditorAssumption DEF Store
<1>4. CASE route = "new"
  <2>1. /\ Sound(store') /\ store'.hydrated /\ store'.coreId = NoCore
        /\ store'.snapshot.config = store'.baseline
    BY <1>1, <1>3, <1>4, Parts, NewFacts
  <2>. QED
    BY <1>1, <1>2, <1>3, <1>4, <2>1, Parts, Values, ReplaceInv DEF Target
<1>5. CASE route # "new"
  <2>1. Sound(store') /\ store'.hydrated /\ store'.coreId = store.coreId
    BY <1>1, <1>5, Parts, SwitchFacts
  <2>. QED
    BY <1>1, <1>2, <1>3, <1>5, <2>1, Parts, ReplaceInv
<1>. QED
  BY <1>4, <1>5

LEMMA OpenNewInv == ASSUME CoreEditorInv, NEW kind \in Kinds, OpenNew(kind) PROVE CoreEditorInv'
<1>1. /\ route = "list" /\ route' = "new" /\ visits < MaxVisits /\ visits' = visits + 1
      /\ store' = InitNew(store, kind, store.name)
      /\ UNCHANGED <<saving, saves, cores, cached, fetching, answer, known, mine, serial, edits>>
  BY DEF OpenNew, net, hist
<1>2. visits' \in 0..MaxVisits
  BY <1>1, Parts, CoreEditorAssumption
<1>3. /\ Sound(store') /\ store'.hydrated /\ store'.coreId = NoCore
      /\ store'.snapshot.config = store'.baseline
  BY <1>1, Parts, NewFacts DEF Store
<1>4. ~Editable /\ Target' = NoCore
  BY <1>1 DEF Editable, Target
<1>5. serial => InFlight = {} /\ mine = NoCore
  BY <1>4, Quiet
<1>. QED
  BY <1>1, <1>2, <1>3, <1>4, <1>5, Parts, Values, ReplaceInv

LEMMA LeaveInv == ASSUME CoreEditorInv, Leave PROVE CoreEditorInv'
<1>1. /\ route' = "list" /\ store' = EmptyFields /\ saving' = FALSE /\ mine' = NoCore
      /\ saves' = [i \in Slots |-> IF saves[i] = NoCore THEN NoCore ELSE [saves[i] EXCEPT !.here = FALSE]]
      /\ fetching' = [c \in Cores |-> "idle"] /\ answer' = [c \in Cores |-> NoCore]
      /\ serial' = (serial /\ InFlight = {})
      /\ UNCHANGED <<cores, cached, known, edits, visits>>
  BY DEF Leave, Reset
<1>2. /\ saves' \in [Slots -> Request \cup {NoCore}]
      /\ \A i \in Slots : saves[i] = NoCore => saves'[i] = NoCore
      /\ \A i \in Slots : saves[i] # NoCore =>
           /\ saves'[i].data = saves[i].data /\ saves'[i].target = saves[i].target
           /\ saves'[i].editing = saves[i].editing /\ saves'[i].state = saves[i].state
           /\ saves'[i].made = saves[i].made
  <2>1. ASSUME NEW i \in Slots, saves[i] # NoCore
        PROVE  /\ saves'[i] \in Request
               /\ saves'[i].data = saves[i].data /\ saves'[i].target = saves[i].target
               /\ saves'[i].editing = saves[i].editing /\ saves'[i].state = saves[i].state
               /\ saves'[i].made = saves[i].made
    <3>1. saves[i] \in Request
      BY <2>1, Parts
    <3>2. saves'[i] = [saves[i] EXCEPT !.here = FALSE]
      BY <1>1, <2>1
    <3>. QED
      BY <3>1, <3>2 DEF Request
  <2>2. \A i \in Slots : saves[i] = NoCore => saves'[i] = NoCore
    BY <1>1
  <2>3. \A i \in Slots : saves'[i] \in Request \cup {NoCore}
    BY <2>1, <2>2
  <2>4. saves' \in [Slots -> Request \cup {NoCore}]
    <3>1. \A i \in Slots : (IF saves[i] = NoCore THEN NoCore ELSE [saves[i] EXCEPT !.here = FALSE]) = saves'[i]
      BY <1>1
    <3>. QED
      BY <1>1, <2>3, <3>1
  <2>. QED
    BY <2>1, <2>2, <2>4
<1>3. \A i : i \in InFlight' => i \in InFlight /\ i \in Slots /\ saves[i] # NoCore
  BY <1>2 DEF InFlight
<1>4. SavesOK'
  BY <1>2, <1>3, Parts DEF SavesOK, Proper
<1>5. Sound(store)' /\ store' \in Store
  BY <1>1, EmptySound DEF Sound
<1>6. CoreEditorTypeOK'
  BY <1>1, <1>2, <1>5, Parts DEF CoreEditorTypeOK
<1>7. ~Editable'
  BY <1>1 DEF Editable
<1>8. PageOK'
  BY <1>1, <1>7, EmptySound DEF PageOK
<1>9. ServerOK'
  BY <1>1, Parts DEF ServerOK, Proper
<1>10. SerialOK'
  BY <1>1, <1>3, <1>7 DEF SerialOK, FlightOK
<1>. QED
  BY <1>4, <1>5, <1>6, <1>8, <1>9, <1>10 DEF CoreEditorInv

LEMMA SaveInv == ASSUME CoreEditorInv, NEW i \in Slots, Save(i) PROVE CoreEditorInv'
<1>. DEFINE r == [target |-> Target, editing |-> store.coreId,
                  data |-> Payload(store), state |-> "sent", made |-> NoCore, here |-> TRUE]
<1>1. /\ Editable /\ store.hydrated /\ HasActualChanges(store) /\ ~saving /\ saving' = TRUE /\ saves[i] = NoCore
      /\ saves' = [saves EXCEPT ![i] = r]
      /\ serial' = (serial /\ ~store.monacoDirty)
      /\ UNCHANGED <<route, store, cores, cached, fetching, answer, known, mine, edits, visits>>
  BY DEF Save, Editable, Target
<1>2. store.coreId = Target /\ Target \in Cores \cup {NoCore}
  BY <1>1, Parts DEF PageOK, Editable, Target
<1>3. Proper(Payload(store)) /\ Payload(store) \in Content
  BY <1>1, Parts, ContentFacts DEF Proper
<1>4. /\ r \in Request /\ r.target = Target /\ r.editing = Target /\ r.data = Payload(store)
      /\ r.state = "sent" /\ r.here
  BY <1>2, <1>3 DEF Request
<1>. HIDE DEF r
<1>5. /\ saves' \in [Slots -> Request \cup {NoCore}] /\ saves'[i] = r
      /\ \A j \in Slots : j # i => saves'[j] = saves[j]
      /\ \A j : j \in InFlight' <=> (j = i \/ j \in InFlight)
  BY <1>1, <1>4, Values, SlotFacts
<1>6. SavesOK'
  <2>. SUFFICES ASSUME NEW j \in InFlight'
                PROVE  /\ Proper(saves'[j].data) /\ saves'[j].target = saves'[j].editing
                       /\ saves'[j].state = "stored" => saves'[j].made \in Cores
                            /\ (saves'[j].target # NoCore => saves'[j].made = saves'[j].target)
    BY DEF SavesOK, Proper
  <2>1. CASE j = i
    BY <1>3, <1>4, <1>5, <2>1
  <2>2. CASE j # i
    BY <1>5, <2>2, Parts DEF SavesOK
  <2>. QED
    BY <2>1, <2>2
<1>7. CoreEditorTypeOK' /\ Sound(store)'
  BY <1>1, <1>5, Parts DEF CoreEditorTypeOK, Sound
<1>8. Editable' = Editable /\ Target' = Target
  BY <1>1 DEF Editable, Target
<1>9. PageOK' /\ ServerOK'
  BY <1>1, <1>8, Parts DEF PageOK, ServerOK, Proper
<1>10. SerialOK'
  <2>. SUFFICES ASSUME serial' PROVE SerialOK'
    BY DEF SerialOK
  <2>1. serial /\ ~store.monacoDirty
    BY <1>1
  <2>2. InFlight = {}
    BY <1>1, <2>1, Quiet
  <2>3. Payload(store) = Shown(store)
    BY <2>1 DEF Payload, Shown, CurrentConfig
  <2>4. HasActualChanges(store)' /\ Payload(store)' = Payload(store) /\ Shown(store)' = Shown(store)
        /\ Base(store)' = Base(store)
    BY <1>1 DEF HasActualChanges, Payload, Shown, CurrentConfig, Base
  <2>5. FlightOK'
    BY <1>1, <1>4, <1>5, <1>8, <2>2, <2>3, <2>4 DEF FlightOK
  <2>. QED
    BY <1>1, <1>8, <2>1, <2>4, <2>5, Parts DEF SerialOK
<1>. QED
  BY <1>6, <1>7, <1>9, <1>10 DEF CoreEditorInv

LEMMA InitInv == CoreEditorInit => CoreEditorInv
<1>. SUFFICES ASSUME CoreEditorInit PROVE CoreEditorInv
  OBVIOUS
<1>1. /\ route = "list" /\ store = EmptyFields /\ saving = FALSE /\ saves = [i \in Slots |-> NoCore]
      /\ cached = [c \in Cores |-> NoCore] /\ fetching = [c \in Cores |-> "idle"]
      /\ answer = [c \in Cores |-> NoCore] /\ known = [c \in Cores |-> NoCore]
      /\ mine = NoCore /\ serial = TRUE /\ edits = 0 /\ visits = 0
  BY DEF CoreEditorInit
<1>2. PICK d \in Stored : \E c \in Cores : cores = [x \in Cores |-> IF x = c THEN d ELSE NoCore]
  BY DEF CoreEditorInit
<1>3. Proper(d) /\ d \in Content
  BY CoreEditorAssumption, NoCoreAssumption DEF Proper
<1>4. cores \in [Cores -> Content \cup {NoCore}] /\ \A c \in Cores : cores[c] = d \/ cores[c] = NoCore
  BY <1>2, <1>3
<1>5. Sound(store) /\ store \in Store /\ store.coreId = NoCore /\ ~store.hydrated
  BY <1>1, EmptySound DEF Sound
<1>6. CoreEditorTypeOK
  <2>1. /\ store \in Store /\ cores \in [Cores -> Content \cup {NoCore}]
        /\ route \in Cores \cup {"list", "new"} /\ saving \in BOOLEAN /\ serial \in BOOLEAN
        /\ mine \in Content \cup {NoCore}
    BY <1>1, <1>4, <1>5
  <2>2. edits \in 0..MaxEdits /\ visits \in 0..MaxVisits
    BY <1>1, CoreEditorAssumption
  <2>3. /\ saves \in [Slots -> Request \cup {NoCore}] /\ cached \in [Cores -> Content \cup {NoCore}]
        /\ fetching \in [Cores -> {"idle", "sent", "answered"}]
        /\ answer \in [Cores -> Content \cup {NoCore}] /\ known \in [Cores -> Content \cup {NoCore}]
    BY <1>1
  <2>. QED
    BY <2>1, <2>2, <2>3 DEF CoreEditorTypeOK
<1>7. ~Editable /\ InFlight = {}
  BY <1>1, <1>5 DEF Editable, InFlight
<1>8. PageOK
  BY <1>1, <1>5, <1>7 DEF PageOK
<1>9. ServerOK
  BY <1>1, <1>3, <1>4 DEF ServerOK
<1>10. SavesOK /\ SerialOK
  BY <1>1, <1>7 DEF SavesOK, SerialOK, FlightOK
<1>. QED
  BY <1>5, <1>6, <1>8, <1>9, <1>10 DEF CoreEditorInv

LEMMA NextInv == CoreEditorInv /\ [CoreEditorNext]_vars => CoreEditorInv'
<1>. SUFFICES ASSUME CoreEditorInv, [CoreEditorNext]_vars PROVE CoreEditorInv'
  OBVIOUS
<1>1. ASSUME NEW c \in Cores, OpenCore(c) \/ Fetched(c) \/ Answer(c) \/ ChangedElsewhere(c) PROVE CoreEditorInv'
  BY <1>1, OpenCoreInv, FetchedInv, AnswerInv, ChangedElsewhereInv
<1>2. ASSUME NEW k \in Kinds, OpenNew(k) \/ ChooseKind(k) PROVE CoreEditorInv'
  BY <1>2, OpenNewInv, ChooseKindInv
<1>3. ASSUME NEW i \in Slots, Save(i) \/ SaveDone(i) \/ SaveFailed(i) \/ Commit(i) \/ Refuse(i) PROVE CoreEditorInv'
  BY <1>3, SaveInv, SaveDoneInv, SaveFailedInv, CommitInv, RefuseInv
<1>4. CASE EditForm \/ EditName \/ EditTags \/ TypeJson \/ ApplyJson \/ SyncJson \/ RefreshJson \/ SwitchTab
  BY <1>4, EditsInv
<1>5. CASE Discard \/ Leave
  BY <1>5, DiscardInv, LeaveInv
<1>6. CASE UNCHANGED vars
  BY <1>6 DEF vars, view, net, hist, CoreEditorInv, CoreEditorTypeOK, Sound, PageOK, ServerOK, SavesOK,
              SerialOK, FlightOK, InFlight, Editable, Target, Base, Shown, Payload, CurrentConfig,
              HasActualChanges, Proper
<1>. QED
  BY <1>1, <1>2, <1>3, <1>4, <1>5, <1>6 DEF CoreEditorNext

LEMMA InvAlways == CoreEditorSpec => []CoreEditorInv
BY InitInv, NextInv, PTL DEF CoreEditorSpec

-----------------------------------------------------------------------------
(* The theorems.                                                           *)

(* The page, the store, the requests, the cache and the server stay within *)
(* their types.                                                            *)
THEOREM EditorTypeCorrect == CoreEditorSpec => []CoreEditorTypeOK
<1>1. CoreEditorInv => CoreEditorTypeOK
  BY DEF CoreEditorInv
<1>. QED
  BY <1>1, InvAlways, PTL

(* "All changes saved" is said only of what the server is known to hold:   *)
(* nothing differs from the snapshot and the baseline, and the two are     *)
(* together what was loaded or accepted.                                   *)
THEOREM SavedMeansStored == CoreEditorSpec => []AllChangesSavedWhenSerial
<1>1. ASSUME CoreEditorInv PROVE AllChangesSavedWhenSerial
  <2>. SUFFICES ASSUME serial, Editable, route \in Cores, ~HasActualChanges(store)
                PROVE  Shown(store) = known[route]
    BY DEF AllChangesSavedWhenSerial, AllChangesSaved
  <2>1. Base(store) = known[route]
    BY <1>1, Parts DEF SerialOK
  <2>2. Shown(store) = Base(store)
    BY ChangesFact DEF Editable
  <2>. QED
    BY <2>1, <2>2
<1>. QED
  BY <1>1, InvAlways, PTL

(* The user's content stays on screen until it is saved or discarded: a    *)
(* refetch replaces only a draft without changes, the answer to a save     *)
(* marks clean what it sent, the pushes leave what is shown.               *)
THEOREM NothingTypedIsLost == CoreEditorSpec => []DraftKept
<1>1. CoreEditorInv => DraftKept
  BY Parts DEF SerialOK, DraftKept
<1>. QED
  BY <1>1, InvAlways, PTL

(* Every save is sent for the core the draft was loaded from, whichever    *)
(* pages were opened, left and moved to before.                            *)
THEOREM SavesGoToTheirCore == CoreEditorSpec => []SaveTargetsItsCore
<1>1. CoreEditorInv => SaveTargetsItsCore
  BY Parts DEF SavesOK, SaveTargetsItsCore
<1>. QED
  BY <1>1, InvAlways, PTL

(* A discard shows what the server is known to hold: the snapshot it       *)
(* restores agrees with the baseline.                                      *)
THEOREM DiscardBringsBackTheCore == CoreEditorSpec => DiscardRestoresSaved
<1>1. ASSUME CoreEditorInv, Discard, serial, route \in Cores PROVE Shown(store') = known[route]
  <2>1. store.hydrated /\ store' = DiscardDraft(store) /\ store.snapshot.config = store.baseline
        /\ Base(store) = known[route]
    BY <1>1, Parts DEF Discard, Editable, SerialOK
  <2>. QED
    BY <2>1, <1>1, Parts, DiscardFacts
<1>2. CoreEditorInv =>
        [Discard /\ serial /\ route \in Cores => Shown(store') = known[route]]_vars
  BY <1>1
<1>. QED
  BY <1>2, InvAlways, PTL DEF DiscardRestoresSaved

=============================================================================
