----------------------- MODULE OutboundsSectionProofs -----------------------
(***************************************************************************)
(* Theorems about OutboundsSection, for any tags, bodies and stored lists  *)
(* and any number of rows.                                                 *)
(*                                                                         *)
(* The dialog writes by position, so the invariant says what the position  *)
(* is worth: as long as the list under an open dialog is not exchanged,    *)
(* the rows are those it was opened on but for the one selected, which is  *)
(* untouched if the form does not show it (OpenedOK).  Tags are told apart *)
(* from that list: while the tag in the form is free, so is the one in the *)
(* row, and "Modify" looks at the first but may store the second (TagsOK). *)
(***************************************************************************)
EXTENDS OutboundsSection, FiniteSetTheorems, SequenceTheorems, TLAPS

\* An outbound the form shows.
Typed == [tag: Tags, body: Bodies]

DialogType == [open: BOOLEAN, mode: {"add", "edit"}, tab: {"form", "json"},
               text: Outbound \cup {Bad, Nothing}, tag: Tags,
               draft: Outbound \cup {Nothing}, original: Outbound \cup {Hole, Nothing},
               ask: {"no", "draft", "edit"}]

DialogOK ==
  /\ dialog.mode = "add" <=> dialog.draft # Nothing
  /\ dialog.draft \in Typed \cup {Nothing}
  /\ dialog.text \in Typed \cup {Bad, Nothing}
  /\ dialog.tab = "json" => dialog.text # Nothing
  /\ dialog.ask = "edit" => dialog.mode = "edit"
  /\ dialog.ask = "draft" => dialog.mode = "add"
  /\ dialog.open => ~bulk
  /\ ~dialog.open => dialog.mode = "edit" /\ dialog.ask = "no"

\* The rows are those the dialog was opened on, but for the one it edits.
OpenedOK == steady /\ dialog.open =>
  /\ Len(rows) = Len(opened)
  /\ dialog.mode = "add" => rows = opened
  /\ dialog.mode = "edit" =>
       /\ selected \in DOMAIN rows /\ dialog.original = opened[selected]
       /\ \A i \in DOMAIN rows : i # selected => rows[i] = opened[i]
       /\ rows[selected] = dialog.original \/ rows[selected] \in Typed

\* A tag that another row or another part of the profile has.
Clash(ls, i, tag) ==
  /\ tag # NoTag
  /\ tag \in Taken \/ \E k \in DOMAIN ls : ls[k] # Hole /\ ls[k].tag = tag /\ k # i

TagsOK == steady /\ checked =>
  /\ Unique(baseline)
  /\ ~dialog.open => Unique(rows)
  /\ dialog.open => Unique(opened)
  /\ dialog.open /\ dialog.mode = "edit" /\ rows[selected] \in Typed =>
       \/ Clash(opened, selected, dialog.tag)
       \/ ~ Clash(opened, selected, rows[selected].tag)

RowsOK == baseline # <<>> => rows # <<>>

OutboundsInv == OutboundsTypeOK /\ DialogOK /\ OpenedOK /\ TagsOK /\ RowsOK

-----------------------------------------------------------------------------
(* Lists.                                                                  *)

Row == Outbound \cup {Hole}

\* An element is written at a position.
LEMMA PutFacts ==
  ASSUME NEW s \in Seq(Row), NEW i \in Nat \ {0}, NEW ob \in Row
  PROVE  /\ Put(s, i, ob) \in Seq(Row)
         /\ i \in DOMAIN s => Len(Put(s, i, ob)) = Len(s)
         /\ i \notin DOMAIN s => Len(Put(s, i, ob)) = i
         /\ DOMAIN Put(s, i, ob) = 1..Len(Put(s, i, ob)) /\ i \in DOMAIN Put(s, i, ob)
         /\ Put(s, i, ob)[i] = ob
         /\ i \in DOMAIN s => \A k \in DOMAIN s : k # i => Put(s, i, ob)[k] = s[k]
<1>1. PICK n \in Nat : n = IF i > Len(s) THEN i ELSE Len(s)
  OBVIOUS
<1>2. i \in 1..n /\ DOMAIN s = 1..Len(s) /\ Len(s) \in Nat
  BY <1>1
<1>3. ASSUME i \in DOMAIN s PROVE n = Len(s)
  <2>1. i \in Nat /\ Len(s) \in Nat /\ i <= Len(s)
    BY <1>3
  <2>2. ~ (i > Len(s))
    BY ONLY <2>1
  <2>. QED
    BY <1>1, <2>2
<1>. DEFINE e(k) == IF k = i THEN ob ELSE IF k <= Len(s) THEN s[k] ELSE Hole
            p == [k \in 1..n |-> e(k)]
<1>4. ASSUME NEW k \in 1..n PROVE e(k) \in Row
  <2>1. k <= Len(s) => s[k] \in Row
    OBVIOUS
  <2>. QED
    BY <2>1 DEF Row
<1>5. e(i) = ob /\ \A k \in DOMAIN s : k # i => e(k) = s[k]
  OBVIOUS
<1>6. Put(s, i, ob) = p
  BY <1>1 DEF Put
<1>. HIDE DEF e
<1>7. p \in [1..n -> Row] /\ DOMAIN p = 1..n /\ \A k \in 1..n : p[k] = e(k)
  BY <1>4
<1>. HIDE DEF p
<1>8. p \in Seq(Row) /\ Len(p) = n
  BY <1>7
<1>9. i \notin DOMAIN s => n = i
  <2>1. i \notin DOMAIN s => i > Len(s)
    BY <1>2
  <2>. QED
    BY <1>1, <2>1
<1>10. p[i] = ob /\ (i \in DOMAIN s => \A k \in DOMAIN s : k # i => p[k] = s[k])
  BY <1>2, <1>3, <1>5, <1>7
<1>. QED
  BY <1>2, <1>3, <1>6, <1>7, <1>8, <1>9, <1>10

\* An element is taken out of a list.
LEMMA RemoveFacts ==
  ASSUME NEW s \in Seq(Row), NEW i \in 1..Len(s)
  PROVE  /\ RemoveAt(s, i) \in Seq(Row) /\ Len(RemoveAt(s, i)) = Len(s) - 1
         /\ \A k \in 1..(Len(s) - 1) : RemoveAt(s, i)[k] = s[IF k < i THEN k ELSE k + 1]
<1>. DEFINE a == SubSeq(s, 1, i - 1)
            b == SubSeq(s, i + 1, Len(s))
<1>1. a \in Seq(Row) /\ Len(a) = i - 1 /\ \A k \in 1..(i - 1) : a[k] = s[k]
  OBVIOUS
<1>2. b \in Seq(Row) /\ Len(b) = Len(s) - i /\ \A k \in 1..(Len(s) - i) : b[k] = s[k + i]
  OBVIOUS
<1>3. RemoveAt(s, i) = a \o b
  BY DEF RemoveAt
<1>4. Len(s) \in Nat /\ i \in Nat /\ i >= 1 /\ i <= Len(s)
  OBVIOUS
<1>. HIDE DEF a, b
<1>5. a \o b \in Seq(Row) /\ Len(a \o b) = Len(s) - 1
  <2>1. Len(a \o b) = Len(a) + Len(b)
    BY <1>1, <1>2, ConcatProperties
  <2>2. Len(a) + Len(b) = Len(s) - 1
    BY <1>1, <1>2, <1>4
  <2>. QED
    BY <1>1, <1>2, <2>1, <2>2
<1>6. ASSUME NEW k \in 1..(Len(s) - 1) PROVE (a \o b)[k] = s[IF k < i THEN k ELSE k + 1]
  <2>1. CASE k < i
    BY <1>1, <1>2, <1>4, <2>1
  <2>2. CASE ~ (k < i)
    <3>1. k - (i - 1) \in 1..(Len(s) - i) /\ k > Len(a)
      BY <1>1, <1>4, <2>2
    <3>2. (a \o b)[k] = b[k - (i - 1)]
      BY <1>1, <1>2, <1>4, <3>1
    <3>. QED
      BY <1>2, <1>4, <2>2, <3>1, <3>2
  <2>. QED
    BY <2>1, <2>2
<1>. QED
  BY <1>3, <1>5, <1>6

\* An element is put into a list.
LEMMA InsertFacts ==
  ASSUME NEW s \in Seq(Row), NEW i \in 1..(Len(s) + 1), NEW ob \in Row
  PROVE  /\ InsertAt(s, i, ob) \in Seq(Row) /\ Len(InsertAt(s, i, ob)) = Len(s) + 1
         /\ \A k \in 1..(Len(s) + 1) :
              InsertAt(s, i, ob)[k] = IF k < i THEN s[k] ELSE IF k = i THEN ob ELSE s[k - 1]
<1>. DEFINE a == SubSeq(s, 1, i - 1)
            b == SubSeq(s, i, Len(s))
            c == a \o <<ob>>
<1>0. Len(s) \in Nat /\ i \in Nat /\ i >= 1 /\ i <= Len(s) + 1
  OBVIOUS
<1>1. a \in Seq(Row) /\ Len(a) = i - 1 /\ \A k \in 1..(i - 1) : a[k] = s[k]
  BY <1>0
<1>2. b \in Seq(Row) /\ Len(b) = Len(s) - i + 1 /\ \A k \in 1..(Len(s) - i + 1) : b[k] = s[k + i - 1]
  BY <1>0
<1>3. InsertAt(s, i, ob) = c \o b
  BY DEF InsertAt
<1>. HIDE DEF a, b
<1>4. c \in Seq(Row) /\ Len(c) = i /\ c[i] = ob /\ \A k \in 1..(i - 1) : c[k] = s[k]
  BY <1>0, <1>1
<1>. HIDE DEF c
<1>5. c \o b \in Seq(Row) /\ Len(c \o b) = Len(s) + 1
  <2>1. Len(c \o b) = Len(c) + Len(b)
    BY <1>2, <1>4, ConcatProperties
  <2>2. Len(c) + Len(b) = Len(s) + 1
    BY <1>0, <1>2, <1>4
  <2>. QED
    BY <1>2, <1>4, <2>1, <2>2
<1>6. ASSUME NEW k \in 1..(Len(s) + 1)
      PROVE  (c \o b)[k] = IF k < i THEN s[k] ELSE IF k = i THEN ob ELSE s[k - 1]
  <2>1. CASE k <= i
    <3>1. (c \o b)[k] = c[k]
      BY <1>0, <1>2, <1>4, <2>1
    <3>. QED
      BY <1>0, <1>4, <2>1, <3>1
  <2>2. CASE ~ (k <= i)
    <3>1. k - i \in 1..(Len(s) - i + 1) /\ k > Len(c)
      BY <1>0, <1>4, <2>2
    <3>2. (c \o b)[k] = b[k - i]
      BY <1>0, <1>2, <1>4, <3>1
    <3>3. b[k - i] = s[k - 1]
      <4>1. b[k - i] = s[(k - i) + i - 1] /\ (k - i) + i - 1 = k - 1
        BY <1>0, <1>2, <3>1
      <4>. QED
        BY <4>1
    <3>. QED
      BY <1>0, <2>2, <3>2, <3>3
  <2>. QED
    BY <2>1, <2>2
<1>. QED
  BY <1>3, <1>5, <1>6

\* Rows that come from different places of a list with unique tags.
LEMMA UniqueFrom ==
  ASSUME NEW s, NEW t, Unique(s), NEW place,
         \A k \in DOMAIN t : place[k] \in DOMAIN s /\ t[k] = s[place[k]],
         \A j, k \in DOMAIN t : j # k => place[j] # place[k]
  PROVE  Unique(t)
BY DEF Unique

-----------------------------------------------------------------------------
(* What the invariant says of the dialog.                                  *)

LEMMA Values ==
  /\ Typed \subseteq Outbound /\ Outbound \subseteq Row /\ Hole \in Row
  /\ Nothing \notin Row /\ Nothing # Bad /\ Bad \notin Outbound /\ Hole \notin Outbound
  /\ \A ob \in Outbound : ob.tag \in Tags /\ (ob \in Typed <=> ob.body # Unmanaged)
  /\ NoTag \in Tags /\ MaxRows \in Nat \ {0} /\ MaxActs \in Nat
<1>. QED
  BY OutboundsAssumption, ValuesAssumption DEF Typed, Outbound, Row

LEMMA Types ==
  ASSUME OutboundsTypeOK
  PROVE  /\ rows \in Seq(Row) /\ baseline \in Seq(Row) /\ opened \in Seq(Row) /\ dialog \in DialogType
         /\ selected \in 1..MaxRows /\ picked \subseteq 1..MaxRows
         /\ Len(rows) <= MaxRows /\ Len(rows) \in Nat /\ DOMAIN rows = 1..Len(rows)
         /\ Len(baseline) <= MaxRows /\ Len(opened) \in Nat /\ DOMAIN opened = 1..Len(opened)
         /\ steady \in BOOLEAN /\ checked \in BOOLEAN
<1>1. rows \in Seq(Row) /\ baseline \in Seq(Row) /\ opened \in Seq(Row)
  BY DEF OutboundsTypeOK, Row
<1>. QED
  BY <1>1 DEF OutboundsTypeOK, DialogType

LEMMA ClosedFacts ==
  /\ Closed \in DialogType /\ ~Closed.open /\ Closed.mode = "edit" /\ Closed.draft = Nothing
  /\ Closed.text = Nothing /\ Closed.tab = "form" /\ Closed.ask = "no" /\ Closed.original = Nothing
  /\ \A tag \in Tags :
       /\ [Closed EXCEPT !.tag = tag] \in DialogType /\ ~[Closed EXCEPT !.tag = tag].open
       /\ [Closed EXCEPT !.tag = tag].mode = "edit" /\ [Closed EXCEPT !.tag = tag].draft = Nothing
       /\ [Closed EXCEPT !.tag = tag].text = Nothing /\ [Closed EXCEPT !.tag = tag].tab = "form"
       /\ [Closed EXCEPT !.tag = tag].ask = "no"
BY Values DEF Closed, DialogType

\* The outbound the dialog shows.
LEMMA ObFacts ==
  ASSUME OutboundsTypeOK, DialogOK
  PROVE  /\ Adding <=> dialog.mode = "add"
         /\ ~Adding <=> dialog.mode = "edit"
         /\ Adding => Ob = dialog.draft /\ Ob \in Typed /\ Managed
         /\ ~Adding /\ selected \in DOMAIN rows => Ob = rows[selected] /\ (Managed <=> rows[selected] \in Typed)
         /\ Managed => Ob \in Typed /\ (~Adding => selected \in DOMAIN rows)
<1>1. dialog \in DialogType /\ \A i \in DOMAIN rows : rows[i] \in Row
  BY Types
<1>2. (Adding <=> dialog.mode = "add") /\ (~Adding <=> dialog.mode = "edit")
  BY <1>1 DEF Adding, DialogOK, DialogType
<1>3. Adding => Ob = dialog.draft /\ Ob \in Typed /\ Managed
  <2>1. Adding => Ob = dialog.draft /\ Ob \in Typed
    BY DEF Adding, Ob, DialogOK
  <2>2. Ob \in Typed => Ob \notin {Nothing, Hole} /\ Ob.body # Unmanaged
    BY Values
  <2>. QED
    BY <2>1, <2>2 DEF Managed
<1>4. ASSUME ~Adding, selected \in DOMAIN rows PROVE Ob = rows[selected] /\ (Managed <=> rows[selected] \in Typed)
  <2>1. Ob = rows[selected] /\ Ob \in Row
    BY <1>1, <1>4 DEF Ob
  <2>2. Managed <=> Ob \in Typed
    BY <2>1, Values DEF Managed, Row
  <2>. QED
    BY <2>1, <2>2
<1>5. ~Adding /\ selected \notin DOMAIN rows => ~Managed
  BY DEF Ob, Managed
<1>. QED
  BY <1>2, <1>3, <1>4, <1>5

\* A tag is taken, from the form's point of view.
LEMMA ClashFacts ==
  ASSUME OutboundsTypeOK, DialogOK, OpenedOK, steady, dialog.open, dialog.mode = "edit", NEW tag
  PROVE  Duplicate(tag) <=> Clash(opened, selected, tag)
<1>1. DOMAIN rows = DOMAIN opened /\ \A i \in DOMAIN rows : i # selected => rows[i] = opened[i]
  BY Types DEF OpenedOK
<1>. QED
  BY <1>1 DEF Duplicate, Clash

\* The dialog after a draft has changed.
LEMMA DraftFacts ==
  ASSUME OutboundsTypeOK, DialogOK, NEW ob \in Typed, NEW d \in DialogType, d.draft = dialog.draft
  PROVE  /\ WithDraft(d, ob) \in DialogType
         /\ WithDraft(d, ob).open = d.open /\ WithDraft(d, ob).mode = d.mode /\ WithDraft(d, ob).tab = d.tab
         /\ WithDraft(d, ob).text = d.text /\ WithDraft(d, ob).original = d.original
         /\ WithDraft(d, ob).ask = d.ask
         /\ WithDraft(d, ob).draft = IF Adding THEN ob ELSE dialog.draft
         /\ ~Adding => WithDraft(d, ob).tag = d.tag
<1>1. CASE ~Adding
  BY <1>1 DEF WithDraft
<1>2. CASE Adding
  <2>1. PICK tag \in Tags : WithDraft(d, ob) = [d EXCEPT !.draft = ob, !.tag = tag]
    <3>1. (IF ob.body = Unmanaged THEN d.tag ELSE ob.tag) \in Tags
      BY Values DEF DialogType
    <3>. QED
      BY <1>2, <3>1 DEF WithDraft
  <2>2. ob \in Outbound
    BY Values
  <2>. QED
    BY <1>2, <2>1, <2>2 DEF DialogType
<1>. QED
  BY <1>1, <1>2

\* The rest of the type invariant, and what the steps of the dialog leave.
Rest == UNCHANGED <<baseline, sent, selected, picked, bulk, opened, steady>>

LEMMA TypesNext ==
  ASSUME OutboundsTypeOK, Rest, rows' \in Seq(Row), Len(rows') <= MaxRows, dialog' \in DialogType,
         checked' \in BOOLEAN, acts' \in 0..MaxActs
  PROVE  OutboundsTypeOK'
BY DEF OutboundsTypeOK, Rest, Row, DialogType

\* The rows after the selected outbound is written.
LEMMA PatchFacts ==
  ASSUME OutboundsTypeOK, DialogOK, Managed, NEW ob \in Typed
  PROVE  /\ Patched(ob) \in Seq(Row) /\ Len(Patched(ob)) = Len(rows)
         /\ DOMAIN Patched(ob) = DOMAIN rows
         /\ Adding => Patched(ob) = rows
         /\ ~Adding => /\ selected \in DOMAIN rows /\ Patched(ob)[selected] = ob
                       /\ \A k \in DOMAIN rows : k # selected => Patched(ob)[k] = rows[k]
<1>1. CASE Adding
  BY <1>1, Types DEF Patched
<1>2. CASE ~Adding
  <2>1. /\ rows \in Seq(Row) /\ selected \in Nat \ {0} /\ ob \in Row /\ selected \in DOMAIN rows
    <3>1. selected \in DOMAIN rows /\ ob \in Row
      BY <1>2, ObFacts, Values
    <3>. QED
      BY <3>1, Types
  <2>2. Patched(ob) = Put(rows, selected, ob)
    BY <1>2 DEF Patched
  <2>3. /\ Put(rows, selected, ob) \in Seq(Row)
        /\ Len(Put(rows, selected, ob)) = Len(rows)
        /\ DOMAIN Put(rows, selected, ob) = 1..Len(Put(rows, selected, ob))
        /\ Put(rows, selected, ob)[selected] = ob
        /\ \A k \in DOMAIN rows : k # selected => Put(rows, selected, ob)[k] = rows[k]
    BY <2>1, PutFacts
  <2>. QED
    BY <1>2, <2>1, <2>2, <2>3, Types
<1>. QED
  BY <1>1, <1>2

\* An outbound is written and the dialog stays open.
LEMMA EditStep ==
  ASSUME OutboundsInv, dialog.open, Managed, Rest, NEW ob \in Typed, NEW d \in DialogType,
         d.open, d.mode = dialog.mode, d.draft = dialog.draft, d.original = dialog.original,
         d.text \in Typed \cup {Bad, Nothing}, d.tab = "json" => d.text # Nothing,
         d.ask = "edit" => d.mode = "edit", d.ask = "draft" => d.mode = "add",
         rows' = Patched(ob), dialog' = WithDraft(d, ob),
         checked' \in BOOLEAN, checked' => checked, acts' \in 0..MaxActs,
         ~Adding /\ steady /\ checked' =>
           \/ ob.tag = d.tag
           \/ ~ Clash(opened, selected, ob.tag)
           \/ ob.tag = Ob.tag /\ d.tag = dialog.tag
  PROVE  OutboundsInv'
<1>0. /\ OutboundsTypeOK /\ DialogOK /\ OpenedOK /\ TagsOK /\ RowsOK
      /\ dialog \in DialogType /\ rows \in Seq(Row) /\ DOMAIN rows = 1..Len(rows) /\ Len(rows) \in Nat
      /\ Len(rows) <= MaxRows
  BY Types DEF OutboundsInv
<1>1. /\ dialog' \in DialogType /\ dialog'.open /\ dialog'.mode = dialog.mode /\ dialog'.tab = d.tab
      /\ dialog'.text = d.text /\ dialog'.original = dialog.original /\ dialog'.ask = d.ask
      /\ dialog'.draft = IF Adding THEN ob ELSE dialog.draft
      /\ ~Adding => dialog'.tag = d.tag
  BY <1>0, DraftFacts
<1>2. /\ rows' \in Seq(Row) /\ Len(rows') = Len(rows) /\ DOMAIN rows' = DOMAIN rows
      /\ Adding => rows' = rows
      /\ ~Adding => /\ selected \in DOMAIN rows /\ rows'[selected] = ob
                    /\ \A k \in DOMAIN rows : k # selected => rows'[k] = rows[k]
  BY <1>0, PatchFacts
<1>3. /\ Adding <=> dialog.mode = "add"
      /\ ~Adding <=> dialog.mode = "edit"
      /\ ~Adding => Ob = rows[selected] /\ rows[selected] \in Typed
  BY <1>0, <1>2, ObFacts
<1>4. OutboundsTypeOK'
  BY <1>0, <1>1, <1>2, TypesNext
<1>5. DialogOK'
  <2>1. ob # Nothing
    BY Values
  <2>. QED
    BY <1>0, <1>1, <1>3, <2>1 DEF DialogOK, Rest
<1>6. OpenedOK'
  <2>. SUFFICES ASSUME steady PROVE
         /\ Len(rows') = Len(opened)
         /\ dialog'.mode = "add" => rows' = opened
         /\ dialog'.mode = "edit" =>
              /\ selected \in DOMAIN rows' /\ dialog'.original = opened[selected]
              /\ \A i \in DOMAIN rows' : i # selected => rows'[i] = opened[i]
              /\ rows'[selected] \in Typed
    BY DEF OpenedOK, Rest
  <2>. QED
    BY <1>0, <1>1, <1>2, <1>3 DEF OpenedOK
<1>7. TagsOK'
  <2>. SUFFICES ASSUME steady, checked' PROVE
         /\ Unique(baseline) /\ Unique(opened)
         /\ dialog'.mode = "edit" =>
              \/ Clash(opened, selected, dialog'.tag)
              \/ ~ Clash(opened, selected, rows'[selected].tag)
    BY <1>1 DEF TagsOK, Rest
  <2>. QED
    BY <1>0, <1>1, <1>2, <1>3 DEF TagsOK
<1>8. RowsOK'
  BY <1>0, <1>2 DEF RowsOK, Rest
<1>. QED
  BY <1>4, <1>5, <1>6, <1>7, <1>8 DEF OutboundsInv

\* The rows stay, and so does the dialog's hold on them.
LEMMA DialogStep ==
  ASSUME OutboundsInv, dialog.open, Rest, UNCHANGED <<rows, checked>>, acts' \in 0..MaxActs,
         dialog' \in DialogType, dialog'.open, dialog'.mode = dialog.mode, dialog'.draft = dialog.draft,
         dialog'.original = dialog.original,
         dialog'.text \in Typed \cup {Bad, Nothing}, dialog'.tab = "json" => dialog'.text # Nothing,
         dialog'.ask = "edit" => dialog'.mode = "edit", dialog'.ask = "draft" => dialog'.mode = "add",
         dialog'.tag = dialog.tag \/ Duplicate(dialog'.tag)
  PROVE  OutboundsInv'
<1>0. OutboundsTypeOK /\ DialogOK /\ OpenedOK /\ TagsOK /\ RowsOK
  BY DEF OutboundsInv
<1>1. OutboundsTypeOK'
  BY <1>0, Types, TypesNext DEF OutboundsTypeOK
<1>2. DialogOK'
  BY <1>0 DEF DialogOK, Rest
<1>3. OpenedOK'
  BY <1>0 DEF OpenedOK, Rest
<1>4. TagsOK'
  <2>1. steady /\ dialog.mode = "edit" => dialog'.tag = dialog.tag \/ Clash(opened, selected, dialog'.tag)
    BY <1>0, ClashFacts
  <2>. QED
    BY <1>0, <2>1 DEF TagsOK, Rest
<1>5. RowsOK'
  BY <1>0 DEF RowsOK, Rest
<1>. QED
  BY <1>1, <1>2, <1>3, <1>4, <1>5 DEF OutboundsInv

\* Without a dialog on screen only the tags matter.
LEMMA ClosedStep ==
  ASSUME OutboundsInv, dialog' \in DialogType, ~dialog'.open,
         dialog'.mode = "edit", dialog'.ask = "no", dialog'.draft = Nothing,
         dialog'.text \in Typed \cup {Bad, Nothing}, dialog'.tab = "json" => dialog'.text # Nothing,
         rows' \in Seq(Row), Len(rows') <= MaxRows,
         baseline' \in Seq(Row), Len(baseline') <= MaxRows, baseline' # <<>> => rows' # <<>>,
         sent' \in BOOLEAN, bulk' \in BOOLEAN, selected' \in 1..MaxRows, picked' \subseteq 1..MaxRows,
         opened' \in Seq(Row), steady' \in BOOLEAN, checked' \in BOOLEAN, acts' \in 0..MaxActs,
         steady' /\ checked' => Unique(rows') /\ Unique(baseline')
  PROVE  OutboundsInv'
<1>1. OutboundsTypeOK'
  BY DEF OutboundsTypeOK, Row, DialogType
<1>2. DialogOK'
  BY DEF DialogOK
<1>3. OpenedOK' /\ TagsOK' /\ RowsOK'
  BY DEF OpenedOK, TagsOK, RowsOK
<1>. QED
  BY <1>1, <1>2, <1>3 DEF OutboundsInv

\* The dialog closes, or stays closed.
LEMMA ClosedDialog ==
  ASSUME OutboundsInv,
         \/ dialog' = Closed \/ dialog' = [Closed EXCEPT !.tag = dialog.tag]
         \/ ~dialog.open /\ UNCHANGED dialog
  PROVE  /\ dialog' \in DialogType /\ ~dialog'.open
         /\ dialog'.mode = "edit" /\ dialog'.ask = "no" /\ dialog'.draft = Nothing
         /\ dialog'.text \in Typed \cup {Bad, Nothing} /\ (dialog'.tab = "json" => dialog'.text # Nothing)
<1>1. dialog \in DialogType /\ DialogOK /\ dialog.tag \in Tags
  BY Types DEF OutboundsInv, DialogType
<1>2. CASE dialog' = Closed
  BY <1>2, ClosedFacts
<1>3. CASE dialog' = [Closed EXCEPT !.tag = dialog.tag]
  BY <1>1, <1>3, ClosedFacts
<1>4. CASE ~dialog.open /\ UNCHANGED dialog
  BY <1>1, <1>4 DEF DialogOK
<1>. QED
  BY <1>2, <1>3, <1>4

\* A row of a list with unique tags gets a tag that nobody else has.
LEMMA UniquePut ==
  ASSUME NEW s \in Seq(Row), Unique(s), NEW i \in DOMAIN s, NEW ob \in Typed,
         ob.tag # NoTag, ~ Clash(s, i, ob.tag),
         NEW t, DOMAIN t = DOMAIN s, t[i] = ob, \A k \in DOMAIN s : k # i => t[k] = s[k]
  PROVE  Unique(t)
BY Values DEF Unique, Clash

LEMMA UniqueAppend ==
  ASSUME NEW s \in Seq(Row), Unique(s), NEW ob \in Typed, ob.tag # NoTag, ob.tag \notin Taken,
         \A k \in DOMAIN s : s[k].tag # ob.tag
  PROVE  Unique(Append(s, ob))
<1>. DEFINE t == Append(s, ob)
<1>1. /\ DOMAIN t = 1..(Len(s) + 1) /\ DOMAIN s = 1..Len(s) /\ Len(s) \in Nat
      /\ t[Len(s) + 1] = ob /\ \A k \in 1..Len(s) : t[k] = s[k]
  BY Values
<1>2. \A k \in DOMAIN t : k \in DOMAIN s \/ k = Len(s) + 1
  BY <1>1
<1>. HIDE DEF t
<1>3. \A k \in DOMAIN t : (k \in DOMAIN s /\ t[k] = s[k]) \/ (k = Len(s) + 1 /\ t[k] = ob)
  BY <1>1, <1>2
<1>4. ob # Hole
  BY Values
<1>5. Unique(t)
  BY <1>3, <1>4 DEF Unique
<1>. QED
  BY <1>5 DEF t

-----------------------------------------------------------------------------
(* The steps of the dialog.                                                *)

\* What is the same for all of them.
LEMMA DialogBase ==
  ASSUME OutboundsInv
  PROVE  /\ OutboundsTypeOK /\ DialogOK /\ OpenedOK /\ TagsOK /\ RowsOK
         /\ dialog \in DialogType /\ dialog.tag \in Tags /\ checked \in BOOLEAN /\ steady \in BOOLEAN
         /\ dialog.text \in Typed \cup {Bad, Nothing} /\ acts \in 0..MaxActs
         /\ \A d \in DialogType : d.open \in BOOLEAN
         /\ Act => acts' \in 0..MaxActs
<1>1. acts \in 0..MaxActs /\ MaxActs \in Nat
  BY Values DEF OutboundsInv, OutboundsTypeOK
<1>2. Act => acts' \in 0..MaxActs
  BY <1>1 DEF Act
<1>. QED
  BY <1>1, <1>2, Types DEF OutboundsInv, DialogOK, DialogType

LEMMA TypeTagInv == ASSUME OutboundsInv, NEW tag \in Tags, TypeTag(tag) PROVE OutboundsInv'
<1>. DEFINE d == [dialog EXCEPT !.tag = tag]
            ob == [Ob EXCEPT !.tag = tag]
<1>1. /\ dialog \in DialogType /\ dialog.open /\ dialog.ask = "no" /\ dialog.tab = "form" /\ Managed
      /\ Rest /\ UNCHANGED checked /\ acts' \in 0..MaxActs /\ checked \in BOOLEAN /\ Ob \in Typed
      /\ dialog.text \in Typed \cup {Bad, Nothing}
  BY DialogBase, ObFacts DEF TypeTag, Typing, Rest, table, hist
<1>2. /\ d \in DialogType /\ d.open /\ d.mode = dialog.mode /\ d.draft = dialog.draft
      /\ d.original = dialog.original /\ d.text = dialog.text /\ d.tab = "form" /\ d.ask = "no" /\ d.tag = tag
  BY <1>1 DEF DialogType
<1>3. ob \in Typed /\ ob.tag = tag
  BY <1>1 DEF Typed
<1>4. \/ Duplicate(tag) /\ dialog' = d /\ UNCHANGED rows
      \/ rows' = Patched(ob) /\ dialog' = WithDraft(d, ob)
  BY DEF TypeTag, Patch
<1>. HIDE DEF d, ob
<1>5. CASE Duplicate(tag) /\ dialog' = d /\ UNCHANGED rows
  BY <1>1, <1>2, <1>5, DialogStep
<1>6. CASE rows' = Patched(ob) /\ dialog' = WithDraft(d, ob)
  BY <1>1, <1>2, <1>3, <1>6, EditStep
<1>. QED
  BY <1>4, <1>5, <1>6

LEMMA TypeBodyInv ==
  ASSUME OutboundsInv, NEW body \in Bodies, TypeBody(body) \/ ChooseProtocol(body)
  PROVE  OutboundsInv'
<1>. DEFINE ob == [Ob EXCEPT !.body = body]
<1>1. /\ dialog \in DialogType /\ dialog.open /\ dialog.ask = "no" /\ dialog.tab = "form" /\ Managed
      /\ Rest /\ UNCHANGED checked /\ acts' \in 0..MaxActs /\ checked \in BOOLEAN /\ Ob \in Typed
      /\ dialog.text \in Typed \cup {Bad, Nothing} /\ Ob.tag \in Tags
  BY DialogBase, ObFacts DEF TypeBody, ChooseProtocol, Typing, Rest, table, hist, Typed
<1>2. PICK d \in {dialog, [dialog EXCEPT !.tag = Ob.tag]} : rows' = Patched(ob) /\ dialog' = WithDraft(d, ob)
  BY DEF TypeBody, ChooseProtocol, Patch
<1>3. /\ d \in DialogType /\ d.open /\ d.mode = dialog.mode /\ d.draft = dialog.draft
      /\ d.original = dialog.original /\ d.text = dialog.text /\ d.tab = "form" /\ d.ask = "no"
      /\ d.tag = dialog.tag \/ d.tag = Ob.tag
  BY <1>1 DEF DialogType
<1>4. ob \in Typed /\ ob.tag = Ob.tag
  BY <1>1 DEF Typed
<1>. HIDE DEF ob
<1>. QED
  BY <1>1, <1>2, <1>3, <1>4, EditStep

LEMMA ImportUriInv == ASSUME OutboundsInv, NEW ob \in Typed, ImportUri(ob) PROVE OutboundsInv'
<1>. DEFINE d == [dialog EXCEPT !.text = ob, !.tag = ob.tag]
<1>1. /\ dialog \in DialogType /\ dialog.open /\ dialog.ask = "no" /\ Managed
      /\ Rest /\ UNCHANGED checked /\ acts' \in 0..MaxActs /\ checked \in BOOLEAN
  BY DialogBase DEF ImportUri, Rest, table, hist
<1>2. ob \in Outbound /\ ob.tag \in Tags /\ ob # Nothing
  BY Values
<1>3. /\ d \in DialogType /\ d.open /\ d.mode = dialog.mode /\ d.draft = dialog.draft
      /\ d.original = dialog.original /\ d.text = ob /\ d.ask = "no" /\ d.tag = ob.tag
  BY <1>1, <1>2 DEF DialogType
<1>4. rows' = Patched(ob) /\ dialog' = WithDraft(d, ob)
  BY DEF ImportUri, Patch
<1>. HIDE DEF d
<1>. QED
  BY <1>1, <1>2, <1>3, <1>4, EditStep

LEMMA JsonInv ==
  ASSUME OutboundsInv, ShowJson \/ (\E text \in Typed \cup {Bad} : TypeJson(text)) \/ KeepEditing
  PROVE  OutboundsInv'
<1>1. /\ dialog \in DialogType /\ dialog.text \in Typed \cup {Bad, Nothing} /\ DialogOK
      /\ Rest /\ UNCHANGED <<rows, checked>> /\ acts' \in 0..MaxActs
  BY DialogBase DEF ShowJson, TypeJson, KeepEditing, Rest, table, hist, list
<1>2. Typed \subseteq Outbound /\ Nothing \notin Typed /\ Nothing # Bad
  BY Values
<1>3. CASE ShowJson
  <2>1. Ob \in Typed /\ dialog.open /\ dialog.ask = "no" /\ dialog' = [dialog EXCEPT !.tab = "json", !.text = Ob]
    BY <1>3, DialogBase, ObFacts DEF ShowJson, Typing
  <2>2. /\ dialog' \in DialogType /\ dialog'.open /\ dialog'.mode = dialog.mode
        /\ dialog'.draft = dialog.draft /\ dialog'.original = dialog.original
        /\ dialog'.text = Ob /\ dialog'.ask = "no" /\ dialog'.tag = dialog.tag
    BY <1>1, <1>2, <2>1 DEF DialogType
  <2>. QED
    BY <1>1, <1>2, <2>1, <2>2, DialogStep
<1>4. ASSUME NEW text \in Typed \cup {Bad}, TypeJson(text) PROVE OutboundsInv'
  <2>1. dialog.open /\ dialog.ask = "no" /\ dialog' = [dialog EXCEPT !.text = text]
    BY <1>4 DEF TypeJson, Typing
  <2>2. /\ dialog' \in DialogType /\ dialog'.open /\ dialog'.mode = dialog.mode
        /\ dialog'.draft = dialog.draft /\ dialog'.original = dialog.original
        /\ dialog'.text = text /\ dialog'.ask = "no" /\ dialog'.tag = dialog.tag
    BY <1>1, <1>2, <2>1 DEF DialogType
  <2>. QED
    BY <1>1, <1>2, <2>1, <2>2, DialogStep
<1>5. CASE KeepEditing
  <2>1. dialog.open /\ dialog' = [dialog EXCEPT !.ask = "no"]
    BY <1>1, <1>5 DEF KeepEditing, DialogOK, DialogType
  <2>2. /\ dialog' \in DialogType /\ dialog'.open /\ dialog'.mode = dialog.mode
        /\ dialog'.draft = dialog.draft /\ dialog'.original = dialog.original
        /\ dialog'.text = dialog.text /\ dialog'.tab = dialog.tab /\ dialog'.ask = "no" /\ dialog'.tag = dialog.tag
    BY <1>1, <2>1 DEF DialogType
  <2>. QED
    BY <1>1, <2>1, <2>2, DialogStep DEF DialogOK
<1>. QED
  BY <1>3, <1>4, <1>5

\* What a text of the JSON tab, once it is written, does to the tags.
LEMMA TextFacts ==
  ASSUME OutboundsInv, dialog.tab = "json", dialog.text # Bad
  PROVE  dialog.text \in Typed /\ (~TagFromText /\ ~Adding => dialog.text.tag = Ob.tag)
BY DialogBase DEF DialogOK, TagFromText

LEMMA ShowFormInv == ASSUME OutboundsInv, ShowForm PROVE OutboundsInv'
<1>. DEFINE d == [dialog EXCEPT !.tab = "form"]
<1>1. /\ dialog \in DialogType /\ dialog.open /\ dialog.ask = "no" /\ Managed /\ dialog.text \in Typed
      /\ Rest /\ checked' \in BOOLEAN /\ acts' \in 0..MaxActs /\ (checked' => checked)
      /\ ~Adding /\ checked' => dialog.text.tag = Ob.tag
  BY DialogBase, TextFacts DEF ShowForm, Typing, Rest, table
<1>2. /\ d \in DialogType /\ d.open /\ d.mode = dialog.mode /\ d.draft = dialog.draft
      /\ d.original = dialog.original /\ d.text = dialog.text /\ d.tab = "form" /\ d.ask = "no"
      /\ d.tag = dialog.tag
  BY <1>1 DEF DialogType
<1>3. rows' = Patched(dialog.text) /\ dialog' = WithDraft(d, dialog.text)
  BY DEF ShowForm, Patch
<1>. HIDE DEF d
<1>. QED
  BY <1>1, <1>2, <1>3, EditStep

\* The old row brings back the list the dialog was opened on.
LEMMA Restores ==
  ASSUME OutboundsInv, steady, dialog.open, dialog.mode = "edit"
  PROVE  /\ selected \in DOMAIN rows /\ selected \in DOMAIN opened /\ DOMAIN rows = DOMAIN opened
         /\ dialog.original \in Row /\ dialog.original # Nothing /\ dialog.original = opened[selected]
         /\ Restored = opened
         /\ rows[selected] = dialog.original => rows = opened
         /\ ~Managed => rows[selected] = dialog.original
<1>1. /\ rows \in Seq(Row) /\ opened \in Seq(Row) /\ Len(rows) = Len(opened) /\ selected \in DOMAIN rows
      /\ DOMAIN rows = 1..Len(rows) /\ DOMAIN opened = 1..Len(opened) /\ Len(rows) \in Nat
      /\ selected \in Nat \ {0} /\ dialog.original = opened[selected]
      /\ \A i \in DOMAIN rows : i # selected => rows[i] = opened[i]
  BY DialogBase, Types DEF OpenedOK
<1>2. dialog.original \in Row /\ dialog.original # Nothing
  BY <1>1, Values
<1>3. Restored = opened
  <2>1. Restored = Put(rows, selected, dialog.original)
    BY <1>2 DEF Restored
  <2>2. /\ Put(rows, selected, dialog.original) \in Seq(Row)
        /\ Len(Put(rows, selected, dialog.original)) = Len(opened)
        /\ Put(rows, selected, dialog.original)[selected] = opened[selected]
        /\ \A k \in DOMAIN rows : k # selected => Put(rows, selected, dialog.original)[k] = rows[k]
    <3>1. PICK ob \in Row : ob = dialog.original
      BY <1>2
    <3>2. /\ Put(rows, selected, ob) \in Seq(Row) /\ Len(Put(rows, selected, ob)) = Len(rows)
          /\ Put(rows, selected, ob)[selected] = ob
          /\ \A k \in DOMAIN rows : k # selected => Put(rows, selected, ob)[k] = rows[k]
      <4>1. rows \in Seq(Row) /\ selected \in Nat \ {0} /\ selected \in DOMAIN rows
        BY <1>1
      <4>. QED
        BY <4>1, PutFacts
    <3>. QED
      BY <1>1, <3>1, <3>2
  <2>3. \A k \in 1..Len(opened) : Put(rows, selected, dialog.original)[k] = opened[k]
    BY <1>1, <2>2
  <2>. QED
    BY <1>1, <2>1, <2>2, <2>3, SeqEqual
<1>4. rows[selected] = dialog.original => rows = opened
  <2>1. rows[selected] = dialog.original => \A k \in 1..Len(rows) : rows[k] = opened[k]
    BY <1>1
  <2>. QED
    BY <1>1, <2>1, SeqEqual
<1>5. ~Managed => rows[selected] = dialog.original
  BY <1>1, DialogBase, ObFacts DEF OpenedOK
<1>. QED
  BY <1>1, <1>2, <1>3, <1>4, <1>5

\* The dialog asks before it closes; JSON text is written first.
LEMMA CloseAsks == ASSUME OutboundsInv, Close, dialog'.open PROVE OutboundsInv'
<1>. DEFINE text == Managed /\ dialog.tab = "json" /\ dialog.text # Bad
            ask == IF Adding THEN "draft" ELSE "edit"
            d == [dialog EXCEPT !.ask = ask]
<1>1. /\ dialog \in DialogType /\ dialog.open /\ DialogOK /\ dialog.text \in Typed \cup {Bad, Nothing}
      /\ Rest /\ checked' \in BOOLEAN /\ acts' \in 0..MaxActs /\ (checked' => checked)
      /\ checked \in BOOLEAN
      /\ checked' = (checked /\ (text => ~TagFromText))
      /\ rows' = IF text THEN Patched(dialog.text) ELSE rows
  BY DialogBase DEF Close, Rest, table
<1>2. dialog' = [(IF text THEN WithDraft(dialog, dialog.text) ELSE dialog) EXCEPT !.ask = ask]
  BY <1>1, ClosedFacts, DialogBase DEF Close
<1>3. /\ d \in DialogType /\ d.open /\ d.mode = dialog.mode /\ d.draft = dialog.draft
      /\ d.original = dialog.original /\ d.text = dialog.text /\ d.tab = dialog.tab /\ d.ask = ask
      /\ d.tag = dialog.tag
  BY <1>1 DEF DialogType
<1>4. /\ ask = "edit" => d.mode = "edit"
      /\ ask = "draft" => d.mode = "add"
      /\ d.tab = "json" => d.text # Nothing
  BY <1>1, <1>3, ObFacts, DialogBase DEF DialogOK
<1>5. CASE ~text
  <2>1. dialog' = d /\ UNCHANGED <<rows, checked>>
    BY <1>1, <1>2, <1>5
  <2>. HIDE DEF d, text, ask
  <2>. QED
    BY <1>1, <1>3, <1>4, <2>1, DialogStep
<1>6. CASE text
  <2>1. /\ dialog.text \in Typed /\ Managed /\ (checked' => ~TagFromText)
        /\ ~Adding /\ checked' => dialog.text.tag = Ob.tag
    BY <1>1, <1>6, TextFacts
  <2>2. WithDraft(d, dialog.text) = [WithDraft(dialog, dialog.text) EXCEPT !.ask = ask]
    <3>1. PICK tag : tag = (IF dialog.text.body = Unmanaged THEN dialog.tag ELSE dialog.text.tag)
      OBVIOUS
    <3>2. CASE ~Adding
      BY <3>2 DEF WithDraft
    <3>3. CASE Adding
      <4>1. WithDraft(dialog, dialog.text) = [dialog EXCEPT !.draft = dialog.text, !.tag = tag]
        BY <3>1, <3>3 DEF WithDraft
      <4>2. WithDraft(d, dialog.text) = [d EXCEPT !.draft = dialog.text, !.tag = tag]
        BY <1>3, <3>1, <3>3 DEF WithDraft
      <4>. QED
        BY <1>1, <4>1, <4>2 DEF DialogType
    <3>. QED
      BY <3>2, <3>3
  <2>3. rows' = Patched(dialog.text) /\ dialog' = WithDraft(d, dialog.text)
    BY <1>1, <1>2, <1>6, <2>2
  <2>. HIDE DEF d, text, ask
  <2>. QED
    BY <1>1, <1>3, <1>4, <2>1, <2>3, EditStep
<1>. QED
  BY <1>5, <1>6

\* Rows with the tags of others.
LEMMA UniqueTags ==
  ASSUME NEW s, Unique(s), NEW t, DOMAIN t = DOMAIN s,
         \A k \in DOMAIN s : t[k] # Hole /\ t[k].tag = s[k].tag
  PROVE  Unique(t)
BY DEF Unique

\* It closes without a question: the row is as it was, or its text has the
\* same tag.
LEMMA CloseCloses == ASSUME OutboundsInv, Close, ~dialog'.open PROVE OutboundsInv'
<1>. DEFINE text == Managed /\ dialog.tab = "json" /\ dialog.text # Bad
<1>1. /\ dialog \in DialogType /\ dialog.open /\ DialogOK /\ OutboundsTypeOK
      /\ UNCHANGED <<baseline, sent, selected, picked, bulk, steady, acts>> /\ opened' = <<>>
      /\ checked' = (checked /\ (text => ~TagFromText))
      /\ rows' = IF text THEN Patched(dialog.text) ELSE rows
      /\ checked \in BOOLEAN /\ steady \in BOOLEAN
  BY DialogBase DEF Close, table
<1>2. text => dialog.text \in Typed /\ (~TagFromText /\ ~Adding => dialog.text.tag = Ob.tag)
  BY TextFacts
<1>3. /\ ~Adding /\ dialog' = [Closed EXCEPT !.tag = dialog.tag]
      /\ Managed /\ dialog.original # Nothing => Ob = dialog.original
  <2>1. \A x \in {"draft", "edit"} : [dialog EXCEPT !.ask = x].open
    BY <1>1 DEF DialogType
  <2>2. text => \A x \in {"draft", "edit"} : [WithDraft(dialog, dialog.text) EXCEPT !.ask = x].open
    <3>1. text => WithDraft(dialog, dialog.text) \in DialogType /\ WithDraft(dialog, dialog.text).open
      BY <1>1, <1>2, DraftFacts
    <3>. QED
      BY <3>1 DEF DialogType
  <2>. QED
    BY <2>1, <2>2 DEF Close
<1>4. /\ rows' \in Seq(Row) /\ Len(rows') = Len(rows) /\ DOMAIN rows' = DOMAIN rows
      /\ text => /\ selected \in DOMAIN rows /\ rows'[selected] = dialog.text
                 /\ \A k \in DOMAIN rows : k # selected => rows'[k] = rows[k]
  <2>1. CASE text
    BY <1>1, <1>2, <1>3, <2>1, PatchFacts
  <2>2. CASE ~text
    BY <1>1, <2>2, Types
  <2>. QED
    BY <2>1, <2>2
<1>5. ASSUME steady, checked' PROVE Unique(rows')
  <2>1. /\ dialog.mode = "edit" /\ Unique(opened) /\ rows[selected] = dialog.original /\ rows = opened
        /\ selected \in DOMAIN rows
    <3>1. dialog.mode = "edit" /\ Unique(opened)
      BY <1>1, <1>3, <1>5, ObFacts, DialogBase DEF TagsOK
    <3>2. rows[selected] = dialog.original
      BY <1>1, <1>3, <1>5, <3>1, Restores, ObFacts
    <3>. QED
      BY <1>1, <1>5, <3>1, <3>2, Restores
  <2>2. CASE ~text
    BY <1>1, <2>1, <2>2
  <2>3. CASE text
    <3>1. dialog.text.tag = rows[selected].tag /\ dialog.text # Hole
      BY <1>1, <1>2, <1>3, <1>5, <2>1, <2>3, ObFacts, Values
    <3>2. \A k \in DOMAIN opened : rows'[k] # Hole /\ rows'[k].tag = opened[k].tag
      BY <1>4, <2>1, <2>3, <3>1 DEF Unique
    <3>. QED
      BY <1>4, <2>1, <3>2, UniqueTags
  <2>. QED
    BY <2>2, <2>3
<1>6. steady /\ checked' => Unique(baseline)
  BY <1>1, DialogBase DEF TagsOK
<1>7. baseline # <<>> => rows' # <<>>
  <2>1. baseline # <<>> => rows # <<>>
    BY DialogBase DEF RowsOK
  <2>. QED
    BY <1>1, <1>4, <2>1, Types
<1>8. <<>> \in Seq(Row)
  OBVIOUS
<1>. HIDE DEF text
<1>. QED
  BY <1>1, <1>3, <1>4, <1>5, <1>6, <1>7, <1>8, Types, ClosedDialog, ClosedStep DEF OutboundsTypeOK

LEMMA DiscardInv == ASSUME OutboundsInv, DiscardNew \/ DiscardEdit PROVE OutboundsInv'
<1>1. /\ dialog \in DialogType /\ OutboundsTypeOK /\ DialogOK /\ checked \in BOOLEAN /\ steady \in BOOLEAN
      /\ dialog' = [Closed EXCEPT !.tag = dialog.tag] /\ opened' = <<>>
      /\ UNCHANGED <<baseline, sent, selected, picked, bulk, steady, checked, acts>>
  BY DialogBase DEF DiscardNew, DiscardEdit, Finalize, table, list
<1>2. dialog.open
  BY <1>1 DEF DialogOK, DiscardNew, DiscardEdit, DialogType
<1>3. baseline # <<>> => rows # <<>>
  BY DialogBase DEF RowsOK
<1>4. rows' \in Seq(Row) /\ Len(rows') <= MaxRows /\ (baseline # <<>> => rows' # <<>>)
  <2>1. CASE rows' = rows
    BY <1>1, <1>3, <2>1, Types
  <2>2. CASE rows' # rows
    <3>1. DiscardEdit /\ dialog.original # Nothing /\ rows' = Put(rows, selected, dialog.original)
      BY <2>2 DEF DiscardNew, DiscardEdit, Restored, list
    <3>2. PICK ob \in Row : ob = dialog.original
      BY <1>1, <3>1 DEF DialogType, Row
    <3>3. rows \in Seq(Row) /\ selected \in Nat \ {0}
      BY <1>1, Types, Values
    <3>4. /\ Put(rows, selected, ob) \in Seq(Row)
          /\ selected \in DOMAIN rows => Len(Put(rows, selected, ob)) = Len(rows)
          /\ selected \notin DOMAIN rows => Len(Put(rows, selected, ob)) = selected
          /\ Put(rows, selected, ob)[selected] = ob /\ selected \in DOMAIN Put(rows, selected, ob)
      BY <3>3, PutFacts
    <3>5. DOMAIN <<>> = {}
      OBVIOUS
    <3>6. selected <= MaxRows /\ Len(rows) <= MaxRows
      BY <1>1, Types, Values
    <3>. QED
      BY <3>1, <3>2, <3>4, <3>5, <3>6
  <2>. QED
    BY <2>1, <2>2
<1>5. ASSUME steady, checked PROVE Unique(rows') /\ Unique(baseline)
  <2>1. Unique(opened) /\ Unique(baseline)
    BY <1>2, <1>5, DialogBase DEF TagsOK
  <2>2. CASE DiscardNew
    <3>1. rows' = rows /\ dialog.mode = "add"
      BY <1>1, <2>2 DEF DiscardNew, list, DialogOK
    <3>. QED
      BY <1>2, <1>5, <2>1, <3>1, DialogBase DEF OpenedOK
  <2>3. CASE DiscardEdit
    <3>1. rows' = Restored /\ dialog.mode = "edit"
      BY <1>1, <2>3 DEF DiscardEdit, DialogOK
    <3>. QED
      BY <1>2, <1>5, <2>1, <3>1, Restores
  <2>. QED
    BY <2>2, <2>3
<1>6. <<>> \in Seq(Row)
  OBVIOUS
<1>. QED
  BY <1>1, <1>3, <1>4, <1>5, <1>6, Types, ClosedDialog, ClosedStep DEF OutboundsTypeOK

LEMMA CommitAddInv == ASSUME OutboundsInv, CommitAdd PROVE OutboundsInv'
<1>. DEFINE body == IF dialog.tab = "json" THEN dialog.text.body ELSE dialog.draft.body
<1>1. /\ dialog \in DialogType /\ OutboundsTypeOK /\ DialogOK /\ checked \in BOOLEAN /\ steady \in BOOLEAN
      /\ dialog.open /\ Adding /\ dialog.mode = "add" /\ dialog.tag \in Tags
      /\ dialog' = [Closed EXCEPT !.tag = dialog.tag] /\ opened' = <<>>
      /\ UNCHANGED <<baseline, sent, picked, bulk, steady, checked, acts>>
      /\ selected' = Len(rows) + 1 /\ Len(rows) < MaxRows
  BY DialogBase, ObFacts DEF CommitAdd, Finalize, table
<1>2. body \in Bodies
  <2>1. dialog.tab = "json" => dialog.text \in Typed
    BY TextFacts DEF CommitAdd
  <2>2. dialog.draft \in Typed
    BY <1>1, ObFacts
  <2>. QED
    BY <2>1, <2>2 DEF Typed
<1>3. PICK ob \in Typed : ob = [tag |-> dialog.tag, body |-> body]
  BY <1>1, <1>2 DEF Typed
<1>4. rows' = Append(rows, ob) /\ ob.tag = dialog.tag /\ Accepted(ob)
  BY <1>3 DEF CommitAdd
<1>5. rows' \in Seq(Row) /\ Len(rows') = Len(rows) + 1 /\ Len(rows) \in Nat
  <2>1. rows \in Seq(Row) /\ ob \in Row
    BY <1>1, Types, Values
  <2>. QED
    BY <1>4, <2>1
<1>6. ASSUME steady, checked PROVE Unique(rows') /\ Unique(baseline)
  <2>1. Unique(opened) /\ Unique(baseline) /\ rows = opened /\ rows \in Seq(Row)
    BY <1>1, <1>6, DialogBase, Types DEF TagsOK, OpenedOK
  <2>2. ob.tag # NoTag /\ ~Duplicate(ob.tag)
    BY <1>4 DEF Accepted
  <2>3. ob.tag \notin Taken /\ \A k \in DOMAIN rows : rows[k].tag # ob.tag
    BY <1>1, <2>1, <2>2 DEF Duplicate, Unique
  <2>. QED
    BY <1>4, <2>1, <2>2, <2>3, UniqueAppend
<1>7. rows' # <<>>
  <2>1. Len(rows') # 0
    BY <1>5
  <2>. QED
    BY <2>1, DialogBase DEF RowsOK
<1>8. <<>> \in Seq(Row) /\ selected' \in 1..MaxRows /\ Len(rows') <= MaxRows
  BY <1>1, <1>5, Values
<1>. QED
  BY <1>1, <1>5, <1>6, <1>7, <1>8, Types, ClosedDialog, ClosedStep DEF OutboundsTypeOK

LEMMA CommitEditInv == ASSUME OutboundsInv, CommitEdit PROVE OutboundsInv'
<1>1. /\ dialog \in DialogType /\ OutboundsTypeOK /\ DialogOK /\ checked \in BOOLEAN /\ steady \in BOOLEAN
      /\ dialog.open /\ ~Adding /\ Managed /\ dialog.mode = "edit" /\ dialog.tag \in Tags
      /\ dialog' = [Closed EXCEPT !.tag = dialog.tag] /\ opened' = <<>>
      /\ UNCHANGED <<baseline, sent, selected, picked, bulk, steady, acts>>
      /\ checked' = (checked /\ (dialog.tab = "json" => ~TagFromText))
  BY DialogBase, ObFacts DEF CommitEdit, Finalize, table
<1>2. Ob \in Typed /\ selected \in DOMAIN rows /\ Ob = rows[selected]
  BY <1>1, ObFacts
<1>3. dialog.tab = "json" => dialog.text \in Typed /\ (~TagFromText => dialog.text.tag = Ob.tag)
  BY <1>1, TextFacts DEF CommitEdit
<1>4. PICK ob \in Typed :
        /\ ob = IF dialog.tab = "json" THEN dialog.text ELSE [Ob EXCEPT !.tag = dialog.tag]
        /\ ob.tag = IF dialog.tab = "json" THEN dialog.text.tag ELSE dialog.tag
  <2>1. [Ob EXCEPT !.tag = dialog.tag] \in Typed /\ [Ob EXCEPT !.tag = dialog.tag].tag = dialog.tag
    BY <1>1, <1>2 DEF Typed
  <2>. QED
    BY <1>3, <2>1
<1>5. rows' = Put(rows, selected, ob) /\ Accepted(ob)
  BY <1>4 DEF CommitEdit
<1>6. /\ rows' \in Seq(Row) /\ Len(rows') = Len(rows) /\ DOMAIN rows' = DOMAIN rows /\ rows'[selected] = ob
      /\ \A k \in DOMAIN rows : k # selected => rows'[k] = rows[k]
  <2>1. rows' = Patched(ob)
    BY <1>1, <1>5 DEF Patched
  <2>. QED
    BY <1>1, <2>1, PatchFacts
<1>7. ASSUME steady, checked' PROVE Unique(rows') /\ Unique(baseline)
  <2>1. /\ Unique(opened) /\ Unique(baseline) /\ opened \in Seq(Row)
        /\ DOMAIN opened = DOMAIN rows /\ \A k \in DOMAIN rows : k # selected => rows[k] = opened[k]
    BY <1>1, <1>7, DialogBase, Types DEF TagsOK, OpenedOK
  <2>2. ob.tag # NoTag /\ ~Clash(opened, selected, dialog.tag)
    BY <1>1, <1>5, <1>7, ClashFacts, DialogBase DEF Accepted
  <2>3. ~Clash(opened, selected, ob.tag)
    <3>1. ~Clash(opened, selected, rows[selected].tag)
      BY <1>1, <1>2, <1>7, <2>2, DialogBase DEF TagsOK
    <3>. QED
      BY <1>1, <1>2, <1>3, <1>4, <1>7, <2>2, <3>1
  <2>. QED
    BY <1>2, <1>6, <2>1, <2>2, <2>3, UniquePut
<1>8. rows' # <<>>
  <2>1. DOMAIN <<>> = {}
    OBVIOUS
  <2>. QED
    BY <1>2, <1>6, <2>1
<1>9. <<>> \in Seq(Row)
  OBVIOUS
<1>. QED
  BY <1>1, <1>6, <1>7, <1>8, <1>9, Types, ClosedDialog, ClosedStep DEF OutboundsTypeOK

\* A dialog that opens holds the list as it is.
LEMMA OpenInv ==
  ASSUME OutboundsInv, BeginAdd \/ \E i \in 1..MaxRows : OpenRow(i)
  PROVE  OutboundsInv'
<1>1. /\ dialog \in DialogType /\ OutboundsTypeOK /\ DialogOK /\ RowsOK /\ TagsOK /\ ~dialog.open /\ ~bulk
      /\ opened' = rows /\ UNCHANGED <<rows, baseline, sent, picked, bulk, steady, checked, acts>>
      /\ rows \in Seq(Row) /\ dialog.tag \in Tags
  BY DialogBase, Types DEF BeginAdd, OpenRow, list, table
<1>2. RowsOK' /\ (steady' /\ checked' => Unique(baseline') /\ Unique(opened'))
  BY <1>1 DEF RowsOK, TagsOK
<1>3. CASE BeginAdd
  <2>1. [tag |-> NoTag, body |-> NewBody] \in Typed
    BY OutboundsAssumption DEF Typed
  <2>2. PICK ob \in Typed : dialog' = [Closed EXCEPT !.open = TRUE, !.mode = "add", !.draft = ob]
    BY <1>3, <2>1 DEF BeginAdd
  <2>3. ob # Nothing /\ ob \in Outbound
    BY Values
  <2>4. /\ dialog' \in DialogType /\ dialog'.open /\ dialog'.mode = "add" /\ dialog'.draft = ob
        /\ dialog'.text = Nothing /\ dialog'.tab = "form" /\ dialog'.ask = "no"
    BY <2>2, <2>3, ClosedFacts DEF DialogType
  <2>5. selected' = selected
    BY <1>3 DEF BeginAdd
  <2>6. OutboundsTypeOK'
    BY <1>1, <2>4, <2>5 DEF OutboundsTypeOK, Row, DialogType
  <2>7. DialogOK'
    BY <1>1, <2>3, <2>4 DEF DialogOK
  <2>8. OpenedOK' /\ TagsOK'
    BY <1>1, <1>2, <2>4 DEF OpenedOK, TagsOK
  <2>. QED
    BY <1>2, <2>6, <2>7, <2>8 DEF OutboundsInv
<1>4. ASSUME NEW i \in 1..MaxRows, OpenRow(i) PROVE OutboundsInv'
  <2>0. i \in DOMAIN rows /\ selected' = i
    BY <1>4 DEF OpenRow
  <2>1. i \in DOMAIN rows /\ rows[i] \in Row /\ selected' = i
    BY <1>1, <2>0
  <2>2. rows[i] = Hole \/ (rows[i] \in Outbound /\ rows[i].tag \in Tags)
    BY <2>1, Values DEF Row
  <2>3. PICK tag \in Tags : /\ dialog' = [Closed EXCEPT !.open = TRUE, !.original = rows[i], !.tag = tag]
                            /\ rows[i] \in Typed => tag = rows[i].tag
    <3>1. rows[i] \in Typed => ~(rows[i] = Hole \/ rows[i].body = Unmanaged)
      BY Values
    <3>2. (IF rows[i] = Hole \/ rows[i].body = Unmanaged THEN dialog.tag ELSE rows[i].tag) \in Tags
      BY <1>1, <2>2
    <3>. QED
      BY <1>4, <3>1, <3>2 DEF OpenRow
  <2>4. /\ dialog' \in DialogType /\ dialog'.open /\ dialog'.mode = "edit" /\ dialog'.draft = Nothing
        /\ dialog'.text = Nothing /\ dialog'.tab = "form" /\ dialog'.ask = "no"
        /\ dialog'.original = rows[i] /\ dialog'.tag = tag
    BY <2>2, <2>3, ClosedFacts DEF DialogType
  <2>5. OutboundsTypeOK'
    BY <1>1, <2>1, <2>4 DEF OutboundsTypeOK, Row, DialogType
  <2>6. DialogOK'
    BY <1>1, <2>4 DEF DialogOK
  <2>7. OpenedOK' /\ TagsOK'
    BY <1>1, <1>2, <2>1, <2>3, <2>4 DEF OpenedOK, TagsOK
  <2>. QED
    BY <1>2, <2>5, <2>6, <2>7 DEF OutboundsInv
<1>. QED
  BY <1>3, <1>4

-----------------------------------------------------------------------------
(* The table and the rest of the editor.                                   *)

\* A row that goes leaves the others in their order.
LEMMA RemoveUnique ==
  ASSUME NEW s \in Seq(Row), NEW i \in 1..Len(s), Unique(s)
  PROVE  Unique(RemoveAt(s, i))
<1>. DEFINE t == RemoveAt(s, i)
            place == [k \in 1..(Len(s) - 1) |-> IF k < i THEN k ELSE k + 1]
<1>1. /\ t \in Seq(Row) /\ Len(t) = Len(s) - 1
      /\ \A k \in 1..(Len(s) - 1) : t[k] = s[IF k < i THEN k ELSE k + 1]
  BY RemoveFacts
<1>2. DOMAIN s = 1..Len(s) /\ Len(s) \in Nat /\ i \in Nat
  OBVIOUS
<1>. HIDE DEF t
<1>3. DOMAIN t = 1..(Len(s) - 1)
  BY <1>1, <1>2
<1>4. \A k \in DOMAIN t : place[k] \in DOMAIN s /\ t[k] = s[place[k]]
  BY <1>1, <1>2, <1>3
<1>5. \A j, k \in DOMAIN t : j # k => place[j] # place[k]
  BY <1>2, <1>3
<1>. HIDE DEF place
<1>6. Unique(t)
  BY <1>4, <1>5, UniqueFrom
<1>. QED
  BY <1>6 DEF t

LEMMA MoveUnique ==
  ASSUME NEW s \in Seq(Row), NEW from \in 1..Len(s), NEW to \in 1..Len(s)
  PROVE  /\ InsertAt(RemoveAt(s, from), to, s[from]) \in Seq(Row)
         /\ Len(InsertAt(RemoveAt(s, from), to, s[from])) = Len(s)
         /\ Unique(s) => Unique(InsertAt(RemoveAt(s, from), to, s[from]))
<1>1. Len(s) \in Nat /\ DOMAIN s = 1..Len(s) /\ s[from] \in Row /\ from \in Nat /\ to \in Nat
  OBVIOUS
<1>2. PICK r \in Seq(Row) : r = RemoveAt(s, from)
  BY RemoveFacts
<1>3. Len(r) = Len(s) - 1 /\ \A k \in 1..(Len(s) - 1) : r[k] = s[IF k < from THEN k ELSE k + 1]
  BY <1>2, RemoveFacts
<1>4. to \in 1..(Len(r) + 1) /\ Len(r) + 1 = Len(s)
  BY <1>1, <1>3
<1>5. PICK t \in Seq(Row) : t = InsertAt(r, to, s[from])
  BY <1>1, <1>4, InsertFacts
<1>6. /\ Len(t) = Len(s)
      /\ \A k \in 1..Len(s) : t[k] = IF k < to THEN r[k] ELSE IF k = to THEN s[from] ELSE r[k - 1]
  <2>1. /\ Len(InsertAt(r, to, s[from])) = Len(r) + 1
        /\ \A k \in 1..(Len(r) + 1) : InsertAt(r, to, s[from])[k]
             = IF k < to THEN r[k] ELSE IF k = to THEN s[from] ELSE r[k - 1]
    BY <1>1, <1>4, InsertFacts
  <2>. QED
    BY <1>4, <1>5, <2>1
<1>. DEFINE skip(k) == IF k < from THEN k ELSE k + 1
            at(k) == IF k < to THEN skip(k) ELSE IF k = to THEN from ELSE skip(k - 1)
            origin == [k \in 1..Len(s) |-> at(k)]
<1>7. DOMAIN t = 1..Len(s)
  BY <1>6
<1>8. ASSUME NEW k \in 1..Len(s) PROVE at(k) \in 1..Len(s) /\ t[k] = s[at(k)]
  <2>1. CASE k < to
    <3>1. k \in 1..(Len(s) - 1)
      BY <1>1, <2>1
    <3>2. skip(k) \in 1..Len(s) /\ at(k) = skip(k)
      BY <1>1, <2>1, <3>1
    <3>3. t[k] = r[k] /\ r[k] = s[skip(k)]
      BY <1>3, <1>6, <2>1, <3>1
    <3>. QED
      BY <3>2, <3>3
  <2>2. CASE k = to
    BY <1>1, <1>6, <2>2
  <2>3. CASE k > to
    <3>1. k - 1 \in 1..(Len(s) - 1) /\ ~(k < to) /\ k # to
      BY <1>1, <2>3
    <3>2. skip(k - 1) \in 1..Len(s) /\ at(k) = skip(k - 1)
      BY <1>1, <3>1
    <3>3. t[k] = r[k - 1]
      BY <1>6, <3>1
    <3>4. r[k - 1] = s[skip(k - 1)]
      BY <1>3, <3>1
    <3>. QED
      BY <3>2, <3>3, <3>4
  <2>. QED
    BY <1>1, <2>1, <2>2, <2>3
<1>9. ASSUME NEW j \in 1..Len(s), NEW k \in 1..Len(s), j # k PROVE at(j) # at(k)
  BY <1>1, <1>9
<1>. HIDE DEF at
<1>10. PICK f \in [1..Len(s) -> Nat] : \A k \in 1..Len(s) : f[k] = at(k)
  <2>1. \A k \in 1..Len(s) : at(k) \in Nat
    BY <1>8
  <2>2. origin \in [1..Len(s) -> Nat] /\ \A k \in 1..Len(s) : origin[k] = at(k)
    BY <2>1
  <2>. QED
    BY <2>2
<1>. HIDE DEF origin
<1>11. ASSUME Unique(s) PROVE Unique(t)
  <2>1. \A k \in DOMAIN t : f[k] \in DOMAIN s /\ t[k] = s[f[k]]
    BY <1>1, <1>7, <1>8, <1>10
  <2>2. \A j, k \in DOMAIN t : j # k => f[j] # f[k]
    BY <1>7, <1>9, <1>10
  <2>. QED
    BY <1>11, <2>1, <2>2 DEF Unique
<1>. QED
  BY <1>2, <1>5, <1>6, <1>11

LEMMA IntervalSize == ASSUME NEW n \in Nat PROVE IsFiniteSet(1..n) /\ Cardinality(1..n) = n
<1>1. n \in Int /\ 1 \in Int
  OBVIOUS
<1>2. IsFiniteSet(1..n) /\ Cardinality(1..n) = IF 1 > n THEN 0 ELSE n - 1 + 1
  BY ONLY <1>1, FS_Interval
<1>. QED
  BY <1>2

\* The list without the rows that have a tick.
LEMMA BulkFacts ==
  ASSUME OutboundsInv, ~TooMany, NEW n \in 0..Len(rows), NEW place \in [1..n -> DOMAIN rows \ picked],
         \A j, k \in 1..n : j < k => place[j] < place[k],
         \A i \in DOMAIN rows \ picked : \E k \in 1..n : place[k] = i,
         rows' = [k \in 1..n |-> rows[place[k]]]
  PROVE  /\ rows' \in Seq(Row) /\ Len(rows') <= Len(rows) /\ rows' # <<>>
         /\ Unique(rows) => Unique(rows')
<1>1. /\ rows \in Seq(Row) /\ Len(rows) \in Nat /\ DOMAIN rows = 1..Len(rows)
      /\ picked \subseteq 1..MaxRows /\ MaxRows \in Nat
  BY DialogBase, Types, Values
<1>2. n \in Nat /\ n <= Len(rows) /\ \A k \in 1..n : place[k] \in DOMAIN rows /\ place[k] \in Nat
  BY <1>1
<1>3. rows' \in [1..n -> Row]
  BY <1>1, <1>2
<1>4. rows' \in Seq(Row) /\ Len(rows') = n /\ DOMAIN rows' = 1..n
  BY <1>2, <1>3
<1>5. n # 0
  <2>. SUFFICES ASSUME n = 0 PROVE FALSE
    OBVIOUS
  <2>1. 1..Len(rows) \subseteq picked
    BY <1>1
  <2>2. IsFiniteSet(1..MaxRows) /\ IsFiniteSet(picked)
    BY <1>1, IntervalSize, FS_Subset
  <2>3. Cardinality(1..Len(rows)) <= Cardinality(picked) /\ Cardinality(picked) \in Nat
    BY <2>1, <2>2, FS_Subset, FS_CardinalityType
  <2>4. Cardinality(1..Len(rows)) = Len(rows)
    BY <1>1, IntervalSize
  <2>. QED
    BY <1>1, <2>3, <2>4 DEF TooMany
<1>6. Unique(rows) => Unique(rows')
  <2>1. \A k \in DOMAIN rows' : place[k] \in DOMAIN rows /\ rows'[k] = rows[place[k]]
    BY <1>2, <1>4
  <2>2. \A j, k \in DOMAIN rows' : j # k => place[j] # place[k]
    BY <1>2, <1>4
  <2>. QED
    BY <2>1, <2>2, UniqueFrom
<1>. QED
  BY <1>1, <1>2, <1>4, <1>5, <1>6

\* A step of the table: there is no dialog, and tags stay apart.
LEMMA TableStep ==
  ASSUME OutboundsInv, ~dialog.open, UNCHANGED <<baseline, dialog, opened, steady, checked>>,
         rows' \in Seq(Row), Len(rows') <= MaxRows, rows # <<>> => rows' # <<>>,
         Unique(rows) => Unique(rows'),
         sent' \in BOOLEAN, bulk' \in BOOLEAN, selected' \in 1..MaxRows, picked' \subseteq 1..MaxRows,
         acts' \in 0..MaxActs
  PROVE  OutboundsInv'
<1>1. OutboundsTypeOK /\ TagsOK /\ RowsOK /\ steady \in BOOLEAN /\ checked \in BOOLEAN
  BY DialogBase
<1>2. /\ dialog' \in DialogType /\ ~dialog'.open
      /\ dialog'.mode = "edit" /\ dialog'.ask = "no" /\ dialog'.draft = Nothing
      /\ dialog'.text \in Typed \cup {Bad, Nothing} /\ (dialog'.tab = "json" => dialog'.text # Nothing)
  BY ClosedDialog
<1>3. /\ baseline' \in Seq(Row) /\ Len(baseline') <= MaxRows /\ opened' \in Seq(Row)
      /\ baseline' # <<>> => rows' # <<>>
  BY <1>1, Types DEF RowsOK
<1>4. steady' /\ checked' => Unique(rows') /\ Unique(baseline')
  BY <1>1 DEF TagsOK
<1>5. steady' \in BOOLEAN /\ checked' \in BOOLEAN
  BY <1>1
<1>. QED
  BY <1>2, <1>3, <1>4, <1>5, ClosedStep

\* What the steps of the table start from.
LEMMA TableFacts ==
  ASSUME OutboundsInv
  PROVE  /\ rows \in Seq(Row) /\ Len(rows) <= MaxRows /\ Len(rows) \in Nat /\ DOMAIN rows = 1..Len(rows)
         /\ sent \in BOOLEAN /\ bulk \in BOOLEAN /\ selected \in 1..MaxRows
         /\ picked \subseteq 1..MaxRows /\ acts \in 0..MaxActs /\ (Act => acts' \in 0..MaxActs)
         /\ bulk => ~dialog.open
         /\ 1 \in 1..MaxRows /\ MaxRows \in Nat \ {0}
<1>1. OutboundsTypeOK /\ DialogOK /\ acts \in 0..MaxActs /\ (Act => acts' \in 0..MaxActs)
  BY DialogBase
<1>2. dialog.open \in BOOLEAN
  BY DialogBase DEF DialogType
<1>3. sent \in BOOLEAN /\ bulk \in BOOLEAN
  BY <1>1 DEF OutboundsTypeOK
<1>4. MaxRows \in Nat \ {0} /\ 1 \in 1..MaxRows
  BY Values
<1>5. bulk => ~dialog.open
  BY <1>1, <1>2, <1>3 DEF DialogOK
<1>. QED
  BY <1>1, <1>3, <1>4, <1>5, Types

LEMMA TicksInv ==
  ASSUME OutboundsInv, (\E i \in 1..MaxRows : Pick(i)) \/ AskBulk \/ CancelBulk \/ SendSave
  PROVE  OutboundsInv'
<1>0. /\ rows \in Seq(Row) /\ Len(rows) <= MaxRows /\ sent \in BOOLEAN /\ bulk \in BOOLEAN
      /\ selected \in 1..MaxRows /\ picked \subseteq 1..MaxRows /\ acts \in 0..MaxActs
      /\ bulk => ~dialog.open
  BY TableFacts
<1>1. ~dialog.open /\ UNCHANGED <<rows, baseline, dialog, opened, steady, checked, selected, acts>>
  BY <1>0 DEF Pick, AskBulk, CancelBulk, SendSave, list, hist, table
<1>2. sent' \in BOOLEAN /\ bulk' \in BOOLEAN
  BY <1>0 DEF Pick, AskBulk, CancelBulk, SendSave, list, table
<1>3. picked' \subseteq 1..MaxRows
  BY <1>0 DEF Pick, AskBulk, CancelBulk, SendSave, table
<1>. QED
  BY <1>0, <1>1, <1>2, <1>3, TableStep

LEMMA RemoveRowInv == ASSUME OutboundsInv, NEW i \in 1..MaxRows, RemoveRow(i) PROVE OutboundsInv'
<1>0. /\ rows \in Seq(Row) /\ Len(rows) <= MaxRows /\ Len(rows) \in Nat /\ DOMAIN rows = 1..Len(rows)
      /\ sent \in BOOLEAN /\ bulk \in BOOLEAN /\ picked \subseteq 1..MaxRows
      /\ (Act => acts' \in 0..MaxActs) /\ 1 \in 1..MaxRows /\ MaxRows \in Nat
  BY TableFacts
<1>1. /\ ~dialog.open /\ i \in 1..Len(rows) /\ Len(rows) > 1 /\ Act /\ rows' = RemoveAt(rows, i)
      /\ selected' = 1 /\ UNCHANGED <<baseline, sent, dialog, picked, bulk, opened, steady, checked>>
  BY <1>0 DEF RemoveRow, table, hist
<1>2. rows' \in Seq(Row) /\ Len(rows') = Len(rows) - 1
  BY <1>0, <1>1, RemoveFacts
<1>3. Len(rows') <= MaxRows /\ rows' # <<>>
  BY <1>0, <1>1, <1>2
<1>4. Unique(rows) => Unique(rows')
  BY <1>0, <1>1, RemoveUnique
<1>5. acts' \in 0..MaxActs /\ selected' \in 1..MaxRows
  BY <1>0, <1>1
<1>6. sent' \in BOOLEAN /\ bulk' \in BOOLEAN /\ picked' \subseteq 1..MaxRows
  BY <1>0, <1>1
<1>. QED
  BY <1>1, <1>2, <1>3, <1>4, <1>5, <1>6, TableStep

LEMMA ReorderInv ==
  ASSUME OutboundsInv, NEW from \in 1..MaxRows, NEW to \in 1..MaxRows, Reorder(from, to)
  PROVE  OutboundsInv'
<1>0. /\ rows \in Seq(Row) /\ Len(rows) <= MaxRows /\ Len(rows) \in Nat /\ DOMAIN rows = 1..Len(rows)
      /\ sent \in BOOLEAN /\ bulk \in BOOLEAN /\ picked \subseteq 1..MaxRows /\ selected \in 1..MaxRows
      /\ (Act => acts' \in 0..MaxActs) /\ MaxRows \in Nat
  BY TableFacts
<1>1. /\ ~dialog.open /\ from \in 1..Len(rows) /\ to \in 1..Len(rows) /\ Act
      /\ rows' = InsertAt(RemoveAt(rows, from), to, rows[from])
      /\ selected' = Remap(selected, from, to)
      /\ UNCHANGED <<baseline, sent, dialog, picked, bulk, opened, steady, checked>>
  BY <1>0 DEF Reorder, table, hist
<1>2. rows' \in Seq(Row) /\ Len(rows') = Len(rows) /\ (Unique(rows) => Unique(rows'))
  BY <1>0, <1>1, MoveUnique
<1>3. Len(rows') <= MaxRows /\ rows' # <<>>
  BY <1>0, <1>1, <1>2
<1>4. selected' \in 1..MaxRows
  BY <1>0, <1>1 DEF Remap
<1>5. acts' \in 0..MaxActs
  BY <1>0, <1>1
<1>6. sent' \in BOOLEAN /\ bulk' \in BOOLEAN /\ picked' \subseteq 1..MaxRows
  BY <1>0, <1>1
<1>. QED
  BY <1>1, <1>2, <1>3, <1>4, <1>5, <1>6, TableStep

LEMMA ConfirmBulkInv == ASSUME OutboundsInv, ConfirmBulk PROVE OutboundsInv'
<1>0. /\ rows \in Seq(Row) /\ Len(rows) <= MaxRows /\ Len(rows) \in Nat
      /\ sent \in BOOLEAN /\ bulk \in BOOLEAN /\ picked \subseteq 1..MaxRows /\ selected \in 1..MaxRows
      /\ acts \in 0..MaxActs /\ MaxRows \in Nat /\ 1 \in 1..MaxRows
      /\ bulk => ~dialog.open
  BY TableFacts
<1>1. /\ ~dialog.open /\ sent' \in BOOLEAN /\ bulk' \in BOOLEAN /\ acts' \in 0..MaxActs
      /\ UNCHANGED <<baseline, dialog, opened, steady, checked>>
  BY <1>0 DEF ConfirmBulk, hist
<1>2. CASE TooMany
  <2>1. UNCHANGED <<rows, selected, picked>>
    BY <1>2 DEF ConfirmBulk
  <2>. QED
    BY <1>0, <1>1, <2>1, TableStep
<1>3. CASE ~TooMany
  <2>1. PICK n \in 0..Len(rows) : \E place \in [1..n -> DOMAIN rows \ picked] :
          /\ \A j, k \in 1..n : j < k => place[j] < place[k]
          /\ \A i \in DOMAIN rows \ picked : \E k \in 1..n : place[k] = i
          /\ rows' = [k \in 1..n |-> rows[place[k]]]
    BY <1>3 DEF ConfirmBulk
  <2>2. PICK place \in [1..n -> DOMAIN rows \ picked] :
          /\ \A j, k \in 1..n : j < k => place[j] < place[k]
          /\ \A i \in DOMAIN rows \ picked : \E k \in 1..n : place[k] = i
          /\ rows' = [k \in 1..n |-> rows[place[k]]]
    BY <2>1
  <2>3. /\ rows' \in Seq(Row) /\ Len(rows') <= Len(rows) /\ rows' # <<>>
        /\ Unique(rows) => Unique(rows')
    BY <1>3, <2>2, BulkFacts
  <2>4. selected' \in 1..MaxRows /\ picked' \subseteq 1..MaxRows
    BY <1>0, <1>3 DEF ConfirmBulk
  <2>5. Len(rows') <= MaxRows
    BY <1>0, <2>3
  <2>. QED
    BY <1>1, <2>3, <2>4, <2>5, TableStep
<1>. QED
  BY <1>2, <1>3

\* A step of the rest of the editor: a dialog that is open over it no longer
\* holds the list.
LEMMA StoreStep ==
  ASSUME OutboundsInv, UNCHANGED <<dialog, picked, bulk, selected, opened>>,
         steady' = (steady /\ ~dialog.open), checked' \in BOOLEAN, checked' => checked,
         rows' \in Seq(Row), Len(rows') <= MaxRows,
         baseline' \in Seq(Row), Len(baseline') <= MaxRows, baseline' # <<>> => rows' # <<>>,
         sent' \in BOOLEAN, acts' \in 0..MaxActs,
         steady /\ checked' /\ ~dialog.open => Unique(rows') /\ Unique(baseline')
  PROVE  OutboundsInv'
<1>1. /\ OutboundsTypeOK /\ DialogOK /\ steady \in BOOLEAN /\ checked \in BOOLEAN /\ dialog \in DialogType
      /\ dialog.open \in BOOLEAN
  BY DialogBase DEF DialogType
<1>2. /\ opened \in Seq(Row) /\ selected \in 1..MaxRows /\ picked \subseteq 1..MaxRows /\ bulk \in BOOLEAN
  BY <1>1, Types, TableFacts
<1>3. CASE ~dialog.open
  <2>1. /\ dialog' \in DialogType /\ ~dialog'.open
        /\ dialog'.mode = "edit" /\ dialog'.ask = "no" /\ dialog'.draft = Nothing
        /\ dialog'.text \in Typed \cup {Bad, Nothing} /\ (dialog'.tab = "json" => dialog'.text # Nothing)
    BY <1>3, ClosedDialog
  <2>2. steady' \in BOOLEAN /\ checked' \in BOOLEAN /\ (steady' /\ checked' => steady /\ checked)
    BY <1>1
  <2>3. opened' \in Seq(Row) /\ selected' \in 1..MaxRows /\ picked' \subseteq 1..MaxRows /\ bulk' \in BOOLEAN
    BY <1>2
  <2>. QED
    BY <1>3, <2>1, <2>2, <2>3, ClosedStep
<1>4. CASE dialog.open
  <2>1. ~steady' /\ steady' \in BOOLEAN
    BY <1>4
  <2>2. OutboundsTypeOK'
    BY <1>1, <1>2, <2>1 DEF OutboundsTypeOK, Row, DialogType
  <2>3. DialogOK'
    BY <1>1 DEF DialogOK
  <2>4. OpenedOK' /\ TagsOK' /\ RowsOK'
    BY <2>1 DEF OpenedOK, TagsOK, RowsOK
  <2>. QED
    BY <2>2, <2>3, <2>4 DEF OutboundsInv
<1>. QED
  BY <1>1, <1>3, <1>4

LEMMA RefetchedInv == ASSUME OutboundsInv, NEW new \in StoredLists, Refetched(new) PROVE OutboundsInv'
<1>1. /\ UNCHANGED <<dialog, picked, bulk, selected, opened, sent>>
      /\ steady' = (steady /\ ~dialog.open) /\ rows' = new /\ baseline' = new /\ Act
      /\ checked' = (checked /\ Unique(new)) /\ checked \in BOOLEAN
  BY DialogBase DEF Refetched, Replace, table
<1>2. new \in Seq(Row) /\ Len(new) <= MaxRows
  <2>1. new \in Seq(Outbound) /\ Len(new) <= MaxRows
    BY StoredAssumption
  <2>. QED
    BY <2>1, Values
<1>3. sent' \in BOOLEAN /\ acts' \in 0..MaxActs
  BY <1>1, TableFacts
<1>. QED
  BY <1>1, <1>2, <1>3, StoreStep

LEMMA DiscardAllInv == ASSUME OutboundsInv, DiscardAll PROVE OutboundsInv'
<1>1. /\ UNCHANGED <<dialog, picked, bulk, selected, opened, checked, sent, acts, baseline>>
      /\ steady' = (steady /\ ~dialog.open) /\ rows' = baseline
  BY DEF DiscardAll, Replace, table
<1>2. /\ baseline \in Seq(Row) /\ Len(baseline) <= MaxRows /\ checked \in BOOLEAN
      /\ steady /\ checked => Unique(baseline)
  BY DialogBase, Types DEF RowsOK, TagsOK
<1>3. sent' \in BOOLEAN /\ acts' \in 0..MaxActs
  BY <1>1, TableFacts
<1>. QED
  BY <1>1, <1>2, <1>3, StoreStep

LEMMA SavedInv == ASSUME OutboundsInv, Saved PROVE OutboundsInv'
<1>1. /\ UNCHANGED <<dialog, picked, bulk, selected, opened, checked, acts, rows>>
      /\ steady' = (steady /\ ~dialog.open) /\ baseline' = rows /\ sent' = FALSE
  BY DEF Saved, table
<1>2. /\ rows \in Seq(Row) /\ Len(rows) <= MaxRows /\ checked \in BOOLEAN
      /\ steady /\ checked /\ ~dialog.open => Unique(rows)
  BY DialogBase, Types DEF RowsOK, TagsOK
<1>3. sent' \in BOOLEAN /\ acts' \in 0..MaxActs
  BY <1>1, TableFacts
<1>. QED
  BY <1>1, <1>2, <1>3, StoreStep

LEMMA LeaveSectionInv == ASSUME OutboundsInv, LeaveSection PROVE OutboundsInv'
<1>1. /\ dialog' = Closed /\ selected' = 1 /\ picked' = {} /\ bulk' = FALSE /\ opened' = <<>>
      /\ steady' = (steady /\ ~dialog.open) /\ UNCHANGED <<rows, baseline, sent, checked, acts>>
  BY DEF LeaveSection, list
<1>2. /\ dialog' \in DialogType /\ ~dialog'.open
      /\ dialog'.mode = "edit" /\ dialog'.ask = "no" /\ dialog'.draft = Nothing
      /\ dialog'.text \in Typed \cup {Bad, Nothing} /\ (dialog'.tab = "json" => dialog'.text # Nothing)
  BY <1>1, ClosedDialog
<1>3. /\ OutboundsTypeOK /\ TagsOK /\ RowsOK /\ steady \in BOOLEAN /\ checked \in BOOLEAN
      /\ dialog \in DialogType /\ dialog.open \in BOOLEAN
  BY DialogBase DEF DialogType
<1>4. /\ rows' \in Seq(Row) /\ Len(rows') <= MaxRows
      /\ baseline' \in Seq(Row) /\ Len(baseline') <= MaxRows /\ (baseline' # <<>> => rows' # <<>>)
  BY <1>1, <1>3, Types DEF RowsOK
<1>5. sent' \in BOOLEAN /\ acts' \in 0..MaxActs /\ selected' \in 1..MaxRows
  BY <1>1, TableFacts
<1>6. /\ steady' \in BOOLEAN /\ checked' \in BOOLEAN /\ bulk' \in BOOLEAN /\ picked' \subseteq 1..MaxRows
      /\ opened' \in Seq(Row)
  <2>1. <<>> \in Seq(Row)
    OBVIOUS
  <2>2. (steady /\ ~dialog.open) \in BOOLEAN /\ FALSE \in BOOLEAN /\ {} \subseteq 1..MaxRows
    OBVIOUS
  <2>. QED
    BY <1>1, <1>3, <2>1, <2>2
<1>7. steady' /\ checked' => Unique(rows') /\ Unique(baseline')
  BY <1>1, <1>3 DEF TagsOK
<1>. QED
  BY <1>2, <1>4, <1>5, <1>6, <1>7, ClosedStep

-----------------------------------------------------------------------------
(* The invariant.                                                          *)

LEMMA OutboundsInvInit == OutboundsInit => OutboundsInv
<1>. SUFFICES ASSUME OutboundsInit PROVE OutboundsInv
  OBVIOUS
<1>1. rows \in Seq(Outbound) /\ Len(rows) <= MaxRows /\ baseline = rows
  BY StoredAssumption DEF OutboundsInit
<1>2. rows \in Seq(Row) /\ Len(rows) <= MaxRows
  BY <1>1, Values
<1>3. /\ Closed \in DialogType /\ ~Closed.open /\ Closed.mode = "edit" /\ Closed.draft = Nothing
      /\ Closed.text = Nothing /\ Closed.tab = "form" /\ Closed.ask = "no"
  BY ClosedFacts
<1>4. dialog = Closed /\ sent = FALSE /\ selected = 1 /\ picked = {} /\ bulk = FALSE
      /\ opened = <<>> /\ steady = TRUE /\ checked = Unique(rows) /\ checked \in BOOLEAN /\ acts = 0
  BY DEF OutboundsInit, Unique
<1>5. 1 \in 1..MaxRows /\ 0 \in 0..MaxActs /\ <<>> \in Seq(Row)
  <2>1. <<>> \in Seq(Row)
    OBVIOUS
  <2>. QED
    BY <2>1, Values
<1>6. OutboundsTypeOK
  BY <1>1, <1>2, <1>3, <1>4, <1>5 DEF OutboundsTypeOK, Row, DialogType
<1>7. DialogOK
  BY <1>3, <1>4 DEF DialogOK
<1>8. OpenedOK /\ TagsOK /\ RowsOK
  BY <1>1, <1>2, <1>3, <1>4 DEF OpenedOK, TagsOK, RowsOK
<1>. QED
  BY <1>6, <1>7, <1>8 DEF OutboundsInv

LEMMA OutboundsInvNext == OutboundsInv /\ [OutboundsNext]_outboundsVars => OutboundsInv'
<1>. SUFFICES ASSUME OutboundsInv, [OutboundsNext]_outboundsVars PROVE OutboundsInv'
  OBVIOUS
<1>1. ASSUME NEW i \in 1..MaxRows, OpenRow(i) \/ Pick(i) \/ RemoveRow(i) PROVE OutboundsInv'
  BY <1>1, OpenInv, TicksInv, RemoveRowInv
<1>2. ASSUME NEW tag \in Tags, TypeTag(tag) PROVE OutboundsInv'
  BY <1>2, TypeTagInv
<1>3. ASSUME NEW body \in Bodies, TypeBody(body) \/ ChooseProtocol(body) PROVE OutboundsInv'
  BY <1>3, TypeBodyInv
<1>4. ASSUME NEW ob \in Typed, ImportUri(ob) PROVE OutboundsInv'
  BY <1>4, ImportUriInv
<1>5. ASSUME NEW text \in Typed \cup {Bad}, TypeJson(text) PROVE OutboundsInv'
  BY <1>5, JsonInv
<1>6. ASSUME ShowJson \/ KeepEditing PROVE OutboundsInv'
  BY <1>6, JsonInv
<1>7. ASSUME Close PROVE OutboundsInv'
  BY <1>7, CloseAsks, CloseCloses
<1>8. ASSUME NEW from \in 1..MaxRows, NEW to \in 1..MaxRows, Reorder(from, to) PROVE OutboundsInv'
  BY <1>8, ReorderInv
<1>9. ASSUME NEW new \in StoredLists, Refetched(new) PROVE OutboundsInv'
  BY <1>9, RefetchedInv
<1>10. CASE UNCHANGED outboundsVars
  BY <1>10 DEF outboundsVars, hist, OutboundsInv, OutboundsTypeOK, DialogOK, OpenedOK, TagsOK, RowsOK, Unique, Clash
<1>. QED
  BY <1>1, <1>2, <1>3, <1>4, <1>5, <1>6, <1>7, <1>8, <1>9, <1>10, ShowFormInv, OpenInv, DiscardInv,
     CommitAddInv, CommitEditInv, TicksInv, ConfirmBulkInv, DiscardAllInv, SavedInv, LeaveSectionInv
     DEF OutboundsNext, Typed

LEMMA OutboundsInvAlways == OutboundsSpec => []OutboundsInv
<1>1. OutboundsInit => OutboundsInv
  BY OutboundsInvInit
<1>2. OutboundsInv /\ [OutboundsNext]_outboundsVars => OutboundsInv'
  BY OutboundsInvNext
<1>. QED
  BY <1>1, <1>2, PTL DEF OutboundsSpec

-----------------------------------------------------------------------------
(* The theorems.                                                           *)

(* The rows, the dialog and the ticks stay in their types.                 *)
THEOREM OutboundsTypeCorrect == OutboundsSpec => []OutboundsTypeOK
<1>1. OutboundsInv => OutboundsTypeOK
  BY DEF OutboundsInv
<1>. QED
  BY <1>1, OutboundsInvAlways, PTL

(* A core stored with outbounds keeps one: the last row cannot be removed, *)
(* and a bulk removal whose ticks are stale is refused when it is confirmed. *)
THEOREM OutboundsRemainAlways == OutboundsSpec => []OutboundsRemain
<1>1. OutboundsInv => OutboundsRemain
  BY DEF OutboundsInv, RowsOK, OutboundsRemain
<1>. QED
  BY <1>1, OutboundsInvAlways, PTL

(* The keystrokes of a dialog reach the row it was opened on and no other, *)
(* and none while it adds a row.                                           *)
THEOREM KeystrokesStayInTheirRow == OutboundsSpec => []OnlyOpenedRowChanges
<1>1. OutboundsInv => OnlyOpenedRowChanges
  <2>. SUFFICES ASSUME OutboundsInv, steady, dialog.open
       PROVE  /\ Len(rows) = Len(opened)
              /\ \A i \in DOMAIN rows : rows[i] # opened[i] => dialog.mode = "edit" /\ i = selected
    BY DEF OnlyOpenedRowChanges
  <2>1. OpenedOK /\ dialog.mode \in {"add", "edit"}
    BY DialogBase DEF DialogType
  <2>. QED
    BY <2>1 DEF OpenedOK
<1>. QED
  BY <1>1, OutboundsInvAlways, PTL

(* Between dialogs no two outbounds, and no outbound and another part of    *)
(* the profile, have the same tag, as long as no tag came from JSON text,   *)
(* no list was exchanged under an open dialog, and the server sent none     *)
(* with a tag used twice.                                                   *)
THEOREM TagsStayApart == OutboundsSpec => []OutboundTagsUnique
<1>1. OutboundsInv => OutboundTagsUnique
  BY DEF OutboundsInv, TagsOK, OutboundTagsUnique
<1>. QED
  BY <1>1, OutboundsInvAlways, PTL

(* A dialog that is closed on the form, or whose changes are discarded,    *)
(* leaves the rows as they were when it was opened.                         *)
THEOREM DiscardBringsBackTheRows == OutboundsSpec => DiscardedEditIsLost
<1>. DEFINE A == (Close \/ DiscardEdit) /\ ~dialog'.open /\ steady
                   /\ (dialog.ask = "no" => dialog.tab = "form")
                 => rows' = opened
<1>1. OutboundsInv /\ [OutboundsNext]_outboundsVars => [A]_outboundsVars
  <2>. SUFFICES ASSUME OutboundsInv, Close \/ DiscardEdit, ~dialog'.open, steady,
                       dialog.ask = "no" => dialog.tab = "form"
                PROVE  rows' = opened
    OBVIOUS
  <2>1. dialog \in DialogType /\ DialogOK /\ OpenedOK /\ OutboundsTypeOK
    BY DialogBase
  <2>2. CASE Close
    <3>1. dialog.open /\ dialog.tab = "form" /\ rows' = rows
      BY <2>2 DEF Close
    <3>2. dialog.mode = "edit" /\ (Managed /\ dialog.original # Nothing => Ob = dialog.original)
      <4>1. \A x \in {"draft", "edit"} : [dialog EXCEPT !.ask = x].open
        BY <2>1, <3>1 DEF DialogType
      <4>2. ~Adding /\ (Managed /\ dialog.original # Nothing => Ob = dialog.original)
        BY <2>2, <3>1, <4>1 DEF Close
      <4>. QED
        BY <2>1, <4>2, ObFacts
    <3>3. /\ selected \in DOMAIN rows /\ dialog.original # Nothing
          /\ rows[selected] = dialog.original => rows = opened
          /\ ~Managed => rows[selected] = dialog.original
      BY <3>1, <3>2, Restores
    <3>4. Ob = rows[selected]
      BY <2>1, <3>2, <3>3, ObFacts
    <3>. QED
      BY <3>1, <3>2, <3>3, <3>4
  <2>3. CASE DiscardEdit
    <3>1. rows' = Restored /\ dialog.ask = "edit"
      BY <2>3 DEF DiscardEdit
    <3>2. dialog.open /\ dialog.mode = "edit"
      BY <2>1, <3>1 DEF DialogOK, DialogType
    <3>. QED
      BY <3>1, <3>2, Restores
  <2>. QED
    BY <2>2, <2>3
<1>2. OutboundsSpec => [][A]_outboundsVars
  BY <1>1, OutboundsInvAlways, PTL DEF OutboundsSpec
<1>. QED
  BY <1>2 DEF DiscardedEditIsLost

=============================================================================
