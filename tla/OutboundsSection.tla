-------------------------- MODULE OutboundsSection --------------------------
(***************************************************************************)
(* The outbounds of the core editor: the table of rows and the dialog that *)
(* adds or edits one (components/xray/xray-outbounds-section.tsx, with     *)
(* shared/core-editor-data-table.tsx and kit/profile-tag-uniqueness.ts).   *)
(* An edit writes into the profile while the user types; "Modify" only     *)
(* validates, and discarding writes the old row back by its position.      *)
(*                                                                         *)
(* An outbound is a tag and a body; the body stands for the protocol and   *)
(* all its settings.  JSON text is the outbound it stands for, or Bad.     *)
(***************************************************************************)
EXTENDS Naturals, FiniteSets, SequencesExt

CONSTANTS
  Tags, NoTag,      \* tags, and the empty one, which cannot be kept
  Taken,            \* tags of the inbounds, balancers and routing rules
  Bodies, NewBody,  \* settings, and those of a new outbound
  Incomplete,       \* settings that lack a required field
  Unmanaged,        \* the body of an outbound the form does not show
  Bad,              \* text that does not parse
  Nothing,          \* no outbound, no text
  Hole,             \* an array element that was never assigned
  StoredLists,      \* outbounds of the core as the server sends them
  MaxRows,          \* bound on the rows
  MaxActs           \* bound on edits and on changes of the whole list

ASSUME OutboundsAssumption ==
  /\ NoTag \in Tags /\ Taken \subseteq Tags \ {NoTag}
  /\ NewBody \in Bodies /\ Incomplete \subseteq Bodies /\ Unmanaged \notin Bodies
  /\ MaxRows \in Nat \ {0} /\ MaxActs \in Nat

Outbound == [tag: Tags, body: Bodies \cup {Unmanaged}]

ASSUME ValuesAssumption ==
  /\ {Hole, Nothing, Bad} \cap Outbound = {}
  /\ Nothing # Hole /\ Nothing # Bad

VARIABLES
  rows,       \* profile.outbounds of the store
  baseline,   \* the outbounds of the baseline config
  sent,       \* a save of the core is in flight
  selected,   \* the row the dialog writes to
  dialog,
  picked,     \* rows with a tick, by position
  bulk,       \* the dialog that confirms a bulk removal is open
  opened,     \* (history) the rows when the dialog on screen was opened
  steady,     \* (history) no list was replaced or marked as saved, nor the section
              \* left, under an open dialog
  checked,    \* (history) the server sent no list with a tag used twice, and no tag was
              \* written from JSON text into the rows
  acts

hist == <<opened, steady, checked>>
outboundsVars == <<rows, baseline, sent, selected, dialog, picked, bulk, hist, acts>>

Closed == [open |-> FALSE, mode |-> "edit", tab |-> "form", text |-> Nothing, tag |-> NoTag,
           draft |-> Nothing, original |-> Nothing, ask |-> "no"]

Unique(list) ==
  \A i, j \in DOMAIN list :
    /\ list[i] # Hole /\ list[i].tag \notin Taken \cup {NoTag}
    /\ i # j /\ list[j] # Hole => list[i].tag # list[j].tag

\* The server takes any list: without outbounds, and with tags used twice.
ASSUME StoredAssumption ==
  \A new \in StoredLists : new \in Seq(Outbound) /\ Len(new) <= MaxRows

OutboundsTypeOK ==
  /\ rows \in Seq(Outbound \cup {Hole}) /\ Len(rows) <= MaxRows
  /\ baseline \in Seq(Outbound \cup {Hole}) /\ Len(baseline) <= MaxRows
  /\ sent \in BOOLEAN /\ bulk \in BOOLEAN
  /\ selected \in 1..MaxRows /\ picked \subseteq 1..MaxRows
  /\ dialog \in [open: BOOLEAN, mode: {"add", "edit"}, tab: {"form", "json"},
                 text: Outbound \cup {Bad, Nothing}, tag: Tags,
                 draft: Outbound \cup {Nothing}, original: Outbound \cup {Hole, Nothing},
                 ask: {"no", "draft", "edit"}]
  /\ opened \in Seq(Outbound \cup {Hole})
  /\ steady \in BOOLEAN /\ checked \in BOOLEAN
  /\ acts \in 0..MaxActs

-----------------------------------------------------------------------------
(* What the dialog shows and writes.                                       *)

Adding == dialog.mode = "add" /\ dialog.draft # Nothing

\* ob: the draft, or whatever row stands at the position that was opened.
Ob == IF Adding THEN dialog.draft
      ELSE IF selected \in DOMAIN rows THEN rows[selected] ELSE Nothing

Managed == Ob \notin {Nothing, Hole} /\ Ob.body # Unmanaged

\* replaceOutbound(): assignment beyond the end leaves holes.
Put(list, i, ob) ==
  [k \in 1..(IF i > Len(list) THEN i ELSE Len(list)) |->
     IF k = i THEN ob ELSE IF k <= Len(list) THEN list[k] ELSE Hole]

\* Fault variant of Duplicate: only the outbounds are looked at.
Fault_Duplicate(tag) ==
  /\ tag # NoTag
  /\ \E i \in DOMAIN rows : rows[i] # Hole /\ rows[i].tag = tag /\ ~(dialog.mode = "edit" /\ i = selected)

\* isTagDuplicate(): against every tag of the profile but that of the row
\* being edited.
Duplicate(tag) ==
  /\ tag # NoTag
  /\ \/ tag \in Taken
     \/ \E i \in DOMAIN rows :
          rows[i] # Hole /\ rows[i].tag = tag /\ ~(dialog.mode = "edit" /\ i = selected)

\* Fault variant of Patched: a draft is written over the selected row.
Fault_Patched(ob) == Put(rows, selected, ob)

\* The rows after patchOutbound(ob): a draft is not among them.
Patched(ob) == IF Adding THEN rows ELSE Put(rows, selected, ob)

\* The dialog after patchOutbound(ob): a draft that changes resets the form.
WithDraft(d, ob) ==
  IF Adding THEN [d EXCEPT !.draft = ob, !.tag = IF ob.body = Unmanaged THEN @ ELSE ob.tag] ELSE d

Patch(ob, d) == rows' = Patched(ob) /\ dialog' = WithDraft(d, ob)

\* Whether the JSON text changes the tag of a row: only the tag of the form
\* is ever compared with the others.
TagFromText == ~Adding /\ dialog.text.tag # Ob.tag

\* collectOutboundRequiredIssues() and isTagDuplicate().
Accepted(ob) == /\ ob.tag # NoTag /\ ob.body \notin Incomplete
                /\ ~Duplicate(dialog.tag)

Act == acts < MaxActs /\ acts' = acts + 1

\* The dialog is on screen with nothing over it, and shows a form.
Typing(tab) == dialog.open /\ dialog.ask = "no" /\ dialog.tab = tab /\ Managed

-----------------------------------------------------------------------------
(* The dialog.                                                             *)

OutboundsInit ==
  /\ rows \in StoredLists /\ baseline = rows
  /\ sent = FALSE
  /\ selected = 1
  /\ dialog = Closed
  /\ picked = {} /\ bulk = FALSE
  /\ opened = <<>> /\ steady = TRUE /\ checked = Unique(rows)
  /\ acts = 0

table == <<picked, bulk>>
list == <<rows, baseline, sent>>

OpenRow(i) ==
  /\ ~dialog.open /\ ~bulk /\ i \in DOMAIN rows
  /\ selected' = i
  /\ dialog' = [Closed EXCEPT !.open = TRUE, !.original = rows[i],
                  !.tag = IF rows[i] = Hole \/ rows[i].body = Unmanaged THEN dialog.tag ELSE rows[i].tag]
  /\ opened' = rows
  /\ UNCHANGED <<list, table, steady, checked, acts>>

BeginAdd ==
  /\ ~dialog.open /\ ~bulk
  /\ dialog' = [Closed EXCEPT !.open = TRUE, !.mode = "add", !.draft = [tag |-> NoTag, body |-> NewBody]]
  /\ opened' = rows
  /\ UNCHANGED <<list, selected, table, steady, checked, acts>>

\* The field shows what is typed; only a tag nobody has is written.
TypeTag(tag) ==
  /\ Typing("form") /\ tag # dialog.tag /\ Act
  /\ IF Duplicate(tag)
     THEN dialog' = [dialog EXCEPT !.tag = tag] /\ UNCHANGED rows
     ELSE Patch([Ob EXCEPT !.tag = tag], [dialog EXCEPT !.tag = tag])
  /\ UNCHANGED <<baseline, sent, selected, table, hist>>

TypeBody(body) ==
  /\ Typing("form") /\ body # Ob.body /\ Act
  /\ Patch([Ob EXCEPT !.body = body], dialog)
  /\ UNCHANGED <<baseline, sent, selected, table, hist>>

\* Another protocol: the form is filled again, with the tag last written.
ChooseProtocol(body) ==
  /\ Typing("form") /\ body # Ob.body /\ Act
  /\ Patch([Ob EXCEPT !.body = body], [dialog EXCEPT !.tag = Ob.tag])
  /\ UNCHANGED <<baseline, sent, selected, table, hist>>

\* A share link, on either tab: its tag is written unseen, and is the one
\* the form has from now on.
ImportUri(ob) ==
  /\ dialog.open /\ dialog.ask = "no" /\ Managed /\ Act
  /\ Patch(ob, [dialog EXCEPT !.text = ob, !.tag = ob.tag])
  /\ UNCHANGED <<baseline, sent, selected, table, hist>>

ShowJson ==
  /\ Typing("form")
  /\ dialog' = [dialog EXCEPT !.tab = "json", !.text = Ob]
  /\ UNCHANGED <<list, selected, table, hist, acts>>

TypeJson(text) ==
  /\ Typing("json") /\ text # dialog.text /\ Act
  /\ dialog' = [dialog EXCEPT !.text = text]
  /\ UNCHANGED <<list, selected, table, hist>>

\* flushOutboundJsonOrToast(), then the form.
ShowForm ==
  /\ Typing("json") /\ dialog.text # Bad
  /\ Patch(dialog.text, [dialog EXCEPT !.tab = "form"])
  /\ checked' = (checked /\ ~TagFromText)
  /\ UNCHANGED <<baseline, sent, selected, table, opened, steady, acts>>

\* handleDetailOpenChange(false): text of the JSON tab is written first, but
\* whether there is something to ask about is told from the row as it was.
Close ==
  /\ dialog.open /\ dialog.ask = "no"
  /\ LET text == Managed /\ dialog.tab = "json" /\ dialog.text # Bad
         next == IF text THEN WithDraft(dialog, dialog.text) ELSE dialog
     IN /\ rows' = IF text THEN Patched(dialog.text) ELSE rows
        /\ checked' = (checked /\ (text => ~TagFromText))
        /\ dialog' = IF Adding THEN [next EXCEPT !.ask = "draft"]
                     ELSE IF Managed /\ dialog.original # Nothing /\ Ob # dialog.original
                          THEN [next EXCEPT !.ask = "edit"]
                          ELSE [Closed EXCEPT !.tag = dialog.tag]
  /\ opened' = IF dialog'.open THEN opened ELSE <<>>
  /\ UNCHANGED <<baseline, sent, selected, table, steady, acts>>

\* finalizeDetailClose(): the form keeps its values.
Finalize == dialog' = [Closed EXCEPT !.tag = dialog.tag] /\ opened' = <<>>

KeepEditing ==
  /\ dialog.ask # "no"
  /\ dialog' = [dialog EXCEPT !.ask = "no"]
  /\ UNCHANGED <<list, selected, table, hist, acts>>

DiscardNew ==
  /\ dialog.ask = "draft"
  /\ Finalize
  /\ UNCHANGED <<list, selected, table, steady, checked, acts>>

\* Fault variant of Restored: the row keeps what was typed.
Fault_Restored == rows

\* The rows after the original is written back to its position.
Restored == IF dialog.original # Nothing THEN Put(rows, selected, dialog.original) ELSE rows

DiscardEdit ==
  /\ dialog.ask = "edit"
  /\ rows' = Restored
  /\ Finalize
  /\ UNCHANGED <<baseline, sent, selected, table, steady, checked, acts>>

\* The row takes the tag of the form, also on the JSON tab.
CommitAdd ==
  /\ dialog.open /\ dialog.ask = "no" /\ Adding /\ Managed /\ Len(rows) < MaxRows
  /\ dialog.tab = "json" => dialog.text # Bad
  /\ LET body == IF dialog.tab = "json" THEN dialog.text.body ELSE dialog.draft.body
         ob   == [tag |-> dialog.tag, body |-> body]
     IN Accepted(ob) /\ rows' = Append(rows, ob)
  /\ selected' = Len(rows) + 1
  /\ Finalize
  /\ UNCHANGED <<baseline, sent, table, steady, checked, acts>>

\* On the JSON tab the row takes the tag of the text, while the tag of the
\* form is the one compared with the others.
CommitEdit ==
  /\ dialog.open /\ dialog.ask = "no" /\ dialog.mode = "edit" /\ Managed
  /\ dialog.tab = "json" => dialog.text # Bad
  /\ LET ob == IF dialog.tab = "json" THEN dialog.text ELSE [Ob EXCEPT !.tag = dialog.tag]
     IN Accepted(ob) /\ rows' = Put(rows, selected, ob)
  /\ checked' = (checked /\ (dialog.tab = "json" => ~TagFromText))
  /\ Finalize
  /\ UNCHANGED <<baseline, sent, selected, table, steady, acts>>

-----------------------------------------------------------------------------
(* The table.  A tick belongs to a position, and stays there when rows     *)
(* move or go.                                                             *)

Pick(i) ==
  /\ ~dialog.open /\ ~bulk /\ i \in DOMAIN rows
  /\ picked' = IF i \in picked THEN picked \ {i} ELSE picked \cup {i}
  /\ UNCHANGED <<list, selected, dialog, bulk, hist, acts>>

RemoveRow(i) ==
  /\ ~dialog.open /\ ~bulk /\ i \in DOMAIN rows /\ Len(rows) > 1
  /\ Act
  /\ rows' = RemoveAt(rows, i)
  /\ selected' = 1
  /\ UNCHANGED <<baseline, sent, dialog, table, hist>>

AskBulk ==
  /\ ~dialog.open /\ ~bulk /\ picked # {} /\ Cardinality(picked) + 1 <= Len(rows)
  /\ bulk' = TRUE
  /\ UNCHANGED <<list, selected, dialog, picked, hist, acts>>

CancelBulk ==
  /\ bulk /\ bulk' = FALSE
  /\ UNCHANGED <<list, selected, dialog, picked, hist, acts>>

\* Fault variant of TooMany: the count was checked when the dialog opened.
Fault_TooMany == FALSE

\* The list may have changed since the confirmation was asked for.
TooMany == Cardinality(picked) + 1 > Len(rows)

\* What has no tick is left, in its order.
ConfirmBulk ==
  /\ bulk /\ bulk' = FALSE
  /\ IF TooMany
     THEN UNCHANGED <<rows, selected, picked>>
     ELSE /\ \E n \in 0..Len(rows) : \E place \in [1..n -> DOMAIN rows \ picked] :
               /\ \A j, k \in 1..n : j < k => place[j] < place[k]
               /\ \A i \in DOMAIN rows \ picked : \E k \in 1..n : place[k] = i
               /\ rows' = [k \in 1..n |-> rows[place[k]]]
          /\ selected' = 1 /\ picked' = {}
  /\ UNCHANGED <<baseline, sent, dialog, hist, acts>>

\* remapIndexAfterArrayMove().
Remap(i, from, to) ==
  IF i = from THEN to
  ELSE IF from < to /\ i > from /\ i <= to THEN i - 1
  ELSE IF from > to /\ i >= to /\ i < from THEN i + 1
  ELSE i

Reorder(from, to) ==
  /\ ~dialog.open /\ ~bulk /\ {from, to} \subseteq DOMAIN rows /\ from # to
  /\ Act
  /\ rows' = InsertAt(RemoveAt(rows, from), to, rows[from])
  /\ selected' = Remap(selected, from, to)
  /\ UNCHANGED <<baseline, sent, dialog, table, hist>>

-----------------------------------------------------------------------------
(* The rest of the editor, which works on the same store.                  *)

Replace(new) == rows' = new /\ steady' = (steady /\ ~dialog.open)

\* The core was stored by someone else and fetched again: a draft without
\* changes is replaced.
Refetched(new) ==
  /\ rows = baseline /\ new # rows /\ Act
  /\ Replace(new) /\ baseline' = new
  /\ checked' = (checked /\ Unique(new))
  /\ UNCHANGED <<sent, selected, dialog, table, opened>>

\* "Discard unsaved changes" of the command menu, which opens over dialogs.
DiscardAll ==
  /\ rows # baseline
  /\ Replace(baseline)
  /\ UNCHANGED <<baseline, sent, selected, dialog, table, opened, checked, acts>>

SendSave ==
  /\ ~dialog.open /\ ~bulk /\ ~sent /\ rows # baseline
  /\ sent' = TRUE
  /\ UNCHANGED <<rows, baseline, selected, dialog, table, hist, acts>>

\* The answer marks as saved what is on screen by then.
Saved ==
  /\ sent /\ sent' = FALSE
  /\ baseline' = rows
  /\ steady' = (steady /\ ~dialog.open)
  /\ UNCHANGED <<rows, selected, dialog, table, opened, checked, acts>>

\* Another section: the component goes with all its state, the rows stay.
LeaveSection ==
  /\ dialog # Closed \/ picked # {} \/ bulk
  /\ dialog' = Closed /\ selected' = 1 /\ picked' = {} /\ bulk' = FALSE
  /\ opened' = <<>>
  /\ steady' = (steady /\ ~dialog.open)
  /\ UNCHANGED <<list, checked, acts>>

OutboundsNext ==
  \/ \E i \in 1..MaxRows : OpenRow(i) \/ Pick(i) \/ RemoveRow(i)
  \/ \E tag \in Tags : TypeTag(tag)
  \/ \E body \in Bodies : TypeBody(body) \/ ChooseProtocol(body)
  \/ \E ob \in [tag: Tags, body: Bodies] : ImportUri(ob) \/ TypeJson(ob)
  \/ TypeJson(Bad) \/ ShowJson \/ ShowForm
  \/ BeginAdd \/ Close \/ KeepEditing \/ DiscardNew \/ DiscardEdit \/ CommitAdd \/ CommitEdit
  \/ AskBulk \/ CancelBulk \/ ConfirmBulk
  \/ \E from, to \in 1..MaxRows : Reorder(from, to)
  \/ \E new \in StoredLists : Refetched(new)
  \/ DiscardAll \/ SendSave \/ Saved \/ LeaveSection

OutboundsSpec == OutboundsInit /\ [][OutboundsNext]_outboundsVars

-----------------------------------------------------------------------------
(* Properties.                                                             *)

(* Outbounds that no dialog is working on have tags, and no two of them, or *)
(* of the other parts of the profile, the same: Xray refers to them by tag. *)
(* Adding, editing, importing and discarding keep it as long as no tag came *)
(* from JSON text, the list was not replaced under an open dialog, and the *)
(* server sent no list with a tag used twice.                              *)
OutboundTagsUnique == steady /\ checked /\ ~dialog.open => Unique(rows)

(* While a row is edited no other row changes, and none does while one is  *)
(* added, although every keystroke is written by position into the profile. *)
OnlyOpenedRowChanges ==
  steady /\ dialog.open =>
    /\ Len(rows) = Len(opened)
    /\ \A i \in DOMAIN rows : rows[i] # opened[i] => dialog.mode = "edit" /\ i = selected

(* A core stored with outbounds keeps one, however stale the ticks of a    *)
(* bulk removal are when it is confirmed.                                  *)
OutboundsRemain == baseline # <<>> => rows # <<>>

(* A dialog that is closed without "Modify" leaves the rows as it found    *)
(* them: "Your modifications to this outbound will be lost".               *)
CancelledEditIsLost ==
  [][(Close \/ DiscardEdit) /\ ~dialog'.open /\ steady => rows' = opened]_outboundsVars

(* The same unless it is closed on the JSON tab.                           *)
DiscardedEditIsLost ==
  [][(Close \/ DiscardEdit) /\ ~dialog'.open /\ steady
       /\ (dialog.ask = "no" => dialog.tab = "form")
     => rows' = opened]_outboundsVars
=============================================================================
