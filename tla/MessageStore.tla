----------------------------- MODULE MessageStore -----------------------------
(***************************************************************************)
(* The rows one conversation has in the messages table, the four live      *)
(* events that change them and the Export Chat import that writes the same *)
(* table (storage/live.go, storage/imports.go, storage/hashfill.go, the    *)
(* message handlers of api/internal_events.go).                            *)
(*                                                                         *)
(* The connector publishes every event with a POST it does not wait for    *)
(* (index.js forwardIfAllowed, publisher.js), so the published events form *)
(* a set from which the backend takes them in any order; a POST that fails *)
(* is logged and never repeated.  An import is one transaction: its lines  *)
(* are inserted one by one, other sessions see none of them before the     *)
(* commit, and the lock its conversation upsert holds keeps live inserts   *)
(* of that conversation waiting.                                           *)
(*                                                                         *)
(* A text stands for the string after strings.TrimSpace; the two sides of  *)
(* the conversation are its only senders.                                  *)
(***************************************************************************)
EXTENDS Naturals, FiniteSets

CONSTANTS
  WaId,         \* ids WhatsApp gives the messages of this conversation
  Text,         \* non-empty texts people write
  NoText,       \* text_cipher IS NULL
  DeletedNote,  \* what an export prints in place of a deleted message
  MediaNote,    \* what an export prints in place of a media message
  Emoji,        \* reactions
  NoEmoji,      \* the empty emoji that removes a reaction
  NoHash,       \* content_hash IS NULL
  Unsent,       \* a message that does not exist on the phone yet
  Sendable,     \* the messages people may send: a bound on the phone
  ExportUnit,   \* seconds in the unit of an export's clock: 1, or 60
  Lossy,        \* whether a POST may fail
  Exporting,    \* whether the user takes exports and imports them
  MaxInFlight   \* bound: published events not yet answered

Side == {"SELF", "OTHER"}
MessageType == {"text", "media", "unknown"}

\* ephemeral: sent in a chat of disappearing messages, inside an ephemeralMessage.
Sent == [at : Nat, side : Side, type : {"text", "media"},
         text : Text \cup {NoText}, viewOnce : BOOLEAN, ephemeral : BOOLEAN]
OnPhone == [at : Nat, side : Side, type : {"text", "media"},
            text : Text \cup {NoText}, viewOnce : BOOLEAN, ephemeral : BOOLEAN,
            edited : BOOLEAN, revoked : BOOLEAN]

Words == Text \cup {DeletedNote, MediaNote}

ASSUME StoreAssumption ==
  /\ NoText \notin Words
  /\ {DeletedNote, MediaNote} \cap Text = {}
  /\ NoEmoji \notin Emoji
  /\ Unsent \notin OnPhone
  /\ NoHash \notin Nat \X Side \X Words
  /\ Sendable \subseteq Sent
  /\ \A m \in Sendable : m.type = "text" => m.text # NoText
  /\ ExportUnit \in Nat \ {0}
  /\ Lossy \in BOOLEAN /\ Exporting \in BOOLEAN
  /\ MaxInFlight \in Nat \ {0}

\* An export carries no ids: the importer derives one from the line, behind a
\* prefix no WhatsApp id has.
ImportId == [at : Nat, sender : Side, type : MessageType, text : Words]
ASSUME IdsApart == WaId \cap ImportId = {}

RowId == WaId \cup ImportId
Content == Nat \X Side \X Words
Reaction == [from : Side, emoji : Emoji]
Row == [id : RowId, at : Nat, side : Side, type : MessageType,
        text : Words \cup {NoText}, deleted : BOOLEAN, edited : BOOLEAN,
        hash : Content \cup {NoHash}, reactions : SUBSET Reaction]

Ingested == [kind : {"ingested"}, id : WaId, at : Nat, side : Side,
             type : MessageType, text : Text \cup {NoText}, viewOnce : BOOLEAN]
Updated == [kind : {"updated"}, id : WaId, content : BOOLEAN,
            text : Text \cup {NoText}]
Deleted == [kind : {"deleted"}, id : WaId]
Reacted == [kind : {"reaction"}, id : WaId, from : Side,
            emoji : Emoji \cup {NoEmoji}]
Event == Ingested \cup Updated \cup Deleted \cup Reacted

Line == [at : Nat, sender : Side, type : MessageType, text : Words,
         deleted : BOOLEAN, edited : BOOLEAN]
Fill == [id : RowId, hash : Content]

VARIABLES
  phone,  \* the message of each id as WhatsApp shows it now
  wrote,  \* history: every text a message has had
  wire,   \* events published and not answered
  file,   \* the lines of the export the user took last
  tx,     \* the open import: lines to insert, rows inserted, self_name right
  fill,   \* what a running hashfill pass still has to write
  rows    \* the committed rows of the conversation

vars == <<phone, wrote, wire, file, tx, fill, rows>>

-------------------------------------------------------------------------------
(* The writes.                                                             *)

\* A variant named ...Variant below is what a plausible mistake in the code would
\* make of the definition after it; no action uses one.
HashOfEmptyVariant(at, side, text) == <<at, side, text>>

\* Identity of a message by time, side and text; empty text has none.
ContentHash(at, side, text) ==
  IF text = NoText THEN NoHash ELSE <<at, side, text>>

NoHashIndexVariant(S, r) == \E s \in S : s.id = r.id
NoIdIndexVariant(S, r) == \E s \in S : r.hash # NoHash /\ s.hash = r.hash

\* Both unique indexes: (conversation, wa_message_id), and the partial one on
\* content_hash.
Conflicts(S, r) ==
  \E s \in S : s.id = r.id \/ (r.hash # NoHash /\ s.hash = r.hash)

\* INSERT ... ON CONFLICT DO NOTHING
Insert(S, r) == IF Conflicts(S, r) THEN S ELSE S \cup {r}

ViewOnceKeptVariant(e) == e.text = NoText /\ e.type = "text"

\* What SaveLiveMessage refuses before it opens a transaction.
Skipped(e) == e.viewOnce \/ (e.text = NoText /\ e.type = "text")

LiveRow(e) ==
  [id |-> e.id, at |-> e.at, side |-> e.side, type |-> e.type, text |-> e.text,
   deleted |-> FALSE, edited |-> FALSE,
   hash |-> ContentHash(e.at, e.side, e.text), reactions |-> {}]

SaveLiveMessage(S, e) == IF Skipped(e) THEN S ELSE Insert(S, LiveRow(e))

ClearingHashVariant(S, id) ==
  {IF r.id = id
     THEN [r EXCEPT !.deleted = TRUE, !.text = NoText, !.hash = NoHash]
     ELSE r : r \in S}
ClearingReactionsVariant(S, id) ==
  {IF r.id = id
     THEN [r EXCEPT !.deleted = TRUE, !.text = NoText, !.reactions = {}]
     ELSE r : r \in S}
RemovingRowVariant(S, id) == {r \in S : r.id # id}

MarkMessageDeleted(S, id) ==
  {IF r.id = id THEN [r EXCEPT !.deleted = TRUE, !.text = NoText] ELSE r : r \in S}

EveryRowVariant(S, id, text) ==
  {[r EXCEPT !.text = IF text = NoText THEN @ ELSE text, !.edited = TRUE] : r \in S}

MarkMessageEdited(S, id, text) ==
  {IF r.id = id
     THEN [r EXCEPT !.text = IF text = NoText THEN @ ELSE text, !.edited = TRUE]
     ELSE r : r \in S}

AppendingVariant(S, id, from, emoji) ==
  {IF r.id = id
     THEN [r EXCEPT !.reactions =
             @ \cup (IF emoji = NoEmoji THEN {}
                     ELSE {[from |-> from, emoji |-> emoji]})]
     ELSE r : r \in S}

\* One slot per side: the other side's entry stays, this side's is replaced,
\* or removed by the empty emoji.
ApplyReaction(S, id, from, emoji) ==
  {IF r.id = id
     THEN [r EXCEPT !.reactions =
             {x \in @ : x.from # from} \cup
             (IF emoji = NoEmoji THEN {} ELSE {[from |-> from, emoji |-> emoji]})]
     ELSE r : r \in S}

ReceiptsAsEditsVariant(S, e) ==
  CASE e.kind = "ingested" -> SaveLiveMessage(S, e)
    [] e.kind = "updated" -> MarkMessageEdited(S, e.id, e.text)
    [] e.kind = "deleted" -> MarkMessageDeleted(S, e.id)
    [] e.kind = "reaction" -> ApplyReaction(S, e.id, e.from, e.emoji)

\* The event handlers.  An update without message content is a receipt, or a
\* revoke reported as an update: the handler ignores both.
Apply(S, e) ==
  CASE e.kind = "ingested" -> SaveLiveMessage(S, e)
    [] e.kind = "updated" /\ e.content -> MarkMessageEdited(S, e.id, e.text)
    [] e.kind = "updated" /\ ~e.content -> S
    [] e.kind = "deleted" -> MarkMessageDeleted(S, e.id)
    [] e.kind = "reaction" -> ApplyReaction(S, e.id, e.from, e.emoji)

\* One line of an export as ImportExport writes it.  The role depends on the
\* self_name the user typed; the derived id does not.
ImportRow(l, selfKnown) ==
  LET role == IF selfKnown /\ l.sender = "SELF" THEN "SELF" ELSE "OTHER"
  IN [id |-> [at |-> l.at, sender |-> l.sender, type |-> l.type, text |-> l.text],
      at |-> l.at, side |-> role, type |-> l.type, text |-> l.text,
      deleted |-> l.deleted, edited |-> l.edited,
      hash |-> ContentHash(l.at, role, l.text), reactions |-> {}]

-------------------------------------------------------------------------------
(* The phone, and what the connector publishes for it.                     *)

NoTx == [open |-> FALSE, todo |-> {}, added |-> {}, selfKnown |-> FALSE]

Init ==
  /\ phone = [w \in WaId |-> Unsent]
  /\ wrote = [w \in WaId |-> {}]
  /\ wire = {}
  /\ file = {}
  /\ tx = NoTx
  /\ fill = {}
  /\ rows = {}

Publish(e) ==
  /\ Cardinality(wire) < MaxInFlight
  /\ wire' = wire \cup {e}

\* isViewOnce looks at the outermost wrapper only, so an ephemeralMessage hides a
\* view-once message inside it.
RecognisedViewOnce(m) == m.viewOnce /\ ~m.ephemeral

\* The normalized message: unwrap opens every wrapper, so text and type are those
\* of the message inside.  Or what is left of one Baileys could not decrypt.
Normalized(w, m) ==
  [kind |-> "ingested", id |-> w, at |-> m.at, side |-> m.side,
   type |-> m.type, text |-> m.text, viewOnce |-> RecognisedViewOnce(m)]
Undecrypted(w, m) ==
  [kind |-> "ingested", id |-> w, at |-> m.at, side |-> m.side,
   type |-> "unknown", text |-> NoText, viewOnce |-> FALSE]

Send(w, m) ==
  /\ phone[w] = Unsent
  /\ phone' = [phone EXCEPT ![w] =
       [at |-> m.at, side |-> m.side, type |-> m.type, text |-> m.text,
        viewOnce |-> m.viewOnce, ephemeral |-> m.ephemeral,
        edited |-> FALSE, revoked |-> FALSE]]
  /\ wrote' = [wrote EXCEPT ![w] = {m.text} \ {NoText}]
  /\ \E e \in {Normalized(w, m), Undecrypted(w, m)} : Publish(e)
  /\ UNCHANGED <<file, tx, fill, rows>>

Live(w) == phone[w] # Unsent /\ ~phone[w].revoked

\* The update carries the new text, or content in which the handler finds no
\* text (a wrapper it does not open).  A bound: an edit writes a text the message
\* has not had.
EditOnPhone(w, t) ==
  /\ Live(w)
  /\ ~phone[w].viewOnce
  /\ t \notin wrote[w]
  /\ phone' = [phone EXCEPT ![w].text = t, ![w].edited = TRUE]
  /\ wrote' = [wrote EXCEPT ![w] = @ \cup {t}]
  /\ \E seen \in {t, NoText} :
       Publish([kind |-> "updated", id |-> w, content |-> TRUE, text |-> seen])
  /\ UNCHANGED <<file, tx, fill, rows>>

\* Baileys reports a revoke as messages.delete, or as an update whose message
\* is null.
RevokeOnPhone(w) ==
  /\ Live(w)
  /\ phone' = [phone EXCEPT ![w].revoked = TRUE]
  /\ \E e \in {[kind |-> "deleted", id |-> w],
               [kind |-> "updated", id |-> w, content |-> FALSE, text |-> NoText]} :
       Publish(e)
  /\ UNCHANGED <<wrote, file, tx, fill, rows>>

\* Delivery and read receipts come as updates without content.
Receipt(w) ==
  /\ Live(w)
  /\ Publish([kind |-> "updated", id |-> w, content |-> FALSE, text |-> NoText])
  /\ UNCHANGED <<phone, wrote, file, tx, fill, rows>>

ReactOnPhone(w, from, emoji) ==
  /\ Live(w)
  /\ Publish([kind |-> "reaction", id |-> w, from |-> from, emoji |-> emoji])
  /\ UNCHANGED <<phone, wrote, file, tx, fill, rows>>

\* A reconnect or a history sync delivers a message again, as it is now.
Redeliver(w) ==
  /\ Live(w)
  /\ Publish(Normalized(w, phone[w]))
  /\ UNCHANGED <<phone, wrote, file, tx, fill, rows>>

-------------------------------------------------------------------------------
(* The backend.                                                            *)

\* A handler answers one POST.  A message to be saved waits for the lock an
\* open import holds on the conversation.
Deliver(e) ==
  /\ e \in wire
  /\ tx.open => ~(e.kind = "ingested" /\ ~Skipped(e))
  /\ wire' = wire \ {e}
  /\ rows' = Apply(rows, e)
  /\ UNCHANGED <<phone, wrote, file, tx, fill>>

\* The POST fails: publish() logs it and returns null, nobody tries again.
Lose(e) ==
  /\ Lossy
  /\ e \in wire
  /\ wire' = wire \ {e}
  /\ UNCHANGED <<phone, wrote, file, tx, fill, rows>>

\* The line an export shows for a message.
Shown(m) ==
  [at |-> m.at - (m.at % ExportUnit), sender |-> m.side,
   type |-> IF m.revoked THEN "text" ELSE m.type,
   text |-> IF m.revoked THEN DeletedNote
            ELSE IF m.type = "media" THEN MediaNote ELSE m.text,
   deleted |-> m.revoked, edited |-> m.edited /\ ~m.revoked]

\* The user takes an export of the chat; it may be uploaded much later.
TakeExport ==
  /\ Exporting
  /\ file' = {Shown(phone[w]) : w \in {v \in WaId : phone[v] # Unsent}}
  /\ UNCHANGED <<phone, wrote, wire, tx, fill, rows>>

ImportBegin(selfKnown) ==
  /\ ~tx.open
  /\ file # {}
  /\ tx' = [open |-> TRUE, todo |-> file, added |-> {}, selfKnown |-> selfKnown]
  /\ UNCHANGED <<phone, wrote, wire, file, fill, rows>>

ImportLine(l) ==
  /\ tx.open
  /\ l \in tx.todo
  /\ LET r == ImportRow(l, tx.selfKnown) IN
       tx' = [tx EXCEPT !.todo = @ \ {l},
                        !.added = IF Conflicts(rows \cup @, r) THEN @ ELSE @ \cup {r}]
  /\ UNCHANGED <<phone, wrote, wire, file, fill, rows>>

ImportCommit ==
  /\ tx.open
  /\ tx.todo = {}
  /\ rows' = rows \cup tx.added
  /\ tx' = NoTx
  /\ UNCHANGED <<phone, wrote, wire, file, fill>>

\* Any error returns before the commit; the deferred rollback drops the rows.
ImportRollback ==
  /\ tx.open
  /\ tx' = NoTx
  /\ UNCHANGED <<phone, wrote, wire, file, fill, rows>>

\* cmd/hashfill: the rows are read once ...
HashfillRead ==
  /\ fill = {}
  /\ fill' = {[id |-> r.id, hash |-> ContentHash(r.at, r.side, r.text)] :
                r \in {s \in rows : s.hash = NoHash /\ s.text # NoText}}
  /\ UNCHANGED <<phone, wrote, wire, file, tx, rows>>

\* ... and written one by one, each behind a NOT EXISTS guard.
FillHash(S, p) ==
  {IF r.id = p.id /\ \A o \in S : o.hash # p.hash
     THEN [r EXCEPT !.hash = p.hash] ELSE r : r \in S}

\* A hash an open import has inserted makes the update wait for that import.
HashfillWrite(p) ==
  /\ p \in fill
  /\ \A r \in tx.added : r.hash # p.hash
  /\ fill' = fill \ {p}
  /\ rows' = FillHash(rows, p)
  /\ UNCHANGED <<phone, wrote, wire, file, tx>>

\* The first failing update ends the pass.
HashfillAbort ==
  /\ fill # {}
  /\ fill' = {}
  /\ UNCHANGED <<phone, wrote, wire, file, tx, rows>>

PhoneStep ==
  \E w \in WaId :
    \/ \E m \in Sendable : Send(w, m)
    \/ \E t \in Text : EditOnPhone(w, t)
    \/ RevokeOnPhone(w)
    \/ Receipt(w)
    \/ \E from \in Side, emoji \in Emoji \cup {NoEmoji} : ReactOnPhone(w, from, emoji)
    \/ Redeliver(w)

ImportStep ==
  \/ TakeExport
  \/ \E selfKnown \in BOOLEAN : ImportBegin(selfKnown)
  \/ \E l \in tx.todo : ImportLine(l)
  \/ ImportCommit
  \/ ImportRollback

HashfillStep ==
  \/ HashfillRead
  \/ \E p \in fill : HashfillWrite(p)
  \/ HashfillAbort

Next ==
  \/ PhoneStep
  \/ \E e \in wire : Deliver(e) \/ Lose(e)
  \/ ImportStep
  \/ HashfillStep

Spec == Init /\ [][Next]_vars
-------------------------------------------------------------------------------
(* Properties.                                                             *)

Txs == [open : BOOLEAN, todo : SUBSET Line, added : SUBSET Row, selfKnown : BOOLEAN]

\* Type invariant of the store, the phone and the events between them.
TypeOK ==
  /\ phone \in [WaId -> OnPhone \cup {Unsent}]
  /\ wrote \in [WaId -> SUBSET Text]
  /\ wire \subseteq Event
  /\ file \subseteq Line
  /\ tx \in Txs
  /\ fill \subseteq Fill
  /\ rows \subseteq Row

Table == rows \cup tx.added

\* Redelivery, an import and a hashfill pass never leave two rows with one
\* message id, nor two rows with one content hash (migrations 00001 and 00009),
\* not even between the committed rows and those of an open import.
UniqueRows ==
  \A r, s \in Table : (r.id = s.id \/ (r.hash # NoHash /\ r.hash = s.hash)) => r = s

\* A row that carries a WhatsApp id describes that message and no other: its time
\* and side, a text the message really had, a hash of such a text, and a deletion
\* or an edit only if the phone saw one.  Events of one message never reach
\* another's row, in whatever order they arrive.
LiveRowsFaithful ==
  \A r \in rows : r.id \in WaId =>
    /\ phone[r.id] # Unsent
    /\ r.at = phone[r.id].at /\ r.side = phone[r.id].side
    /\ r.text # NoText => r.text \in wrote[r.id]
    /\ r.hash # NoHash => \E t \in wrote[r.id] : r.hash = <<r.at, r.side, t>>
    /\ r.deleted => phone[r.id].revoked
    /\ r.edited => phone[r.id].edited

EmptyUnknown(r) == r.type = "unknown" /\ r.text = NoText

\* All that is ever stored of a view-once message the connector recognises is the
\* empty row of a copy that could not be decrypted, and so carried no flag.
RecognisedViewOnceNotStored ==
  \A r \in rows : r.id \in WaId /\ RecognisedViewOnce(phone[r.id]) => EmptyUnknown(r)

\* "View-once tidak disimpan" (README.md:87): the same of every view-once message.
\* The code breaks it for one sent inside an ephemeralMessage.
ViewOnceNotStored ==
  \A r \in rows : r.id \in WaId /\ phone[r.id].viewOnce => EmptyUnknown(r)

\* What was written, by whom and when: a live row has it in its columns, an imported
\* one in the line its id is derived from, for its side is a guess (self_name).
Said(r) ==
  IF r.id \in WaId THEN <<r.at, r.side, r.text>>
  ELSE <<r.id.at, r.id.sender, r.id.text>>

\* What a deleted row was hashed for comes back as another row only as a line imported
\* with its sender taken for the other side, or as a live row edited into it; and the
\* row itself has a text again only through an edit (a late one, live.go:313).
DeletedContentStaysOut ==
  \A r \in rows : r.id \in WaId /\ r.deleted =>
    /\ r.type = "text" => r.hash # NoHash
    /\ r.text # NoText => r.edited
    /\ \A s \in Table \ {r} : s.text # NoText /\ Said(s) = r.hash =>
         IF s.id \in WaId THEN s.edited ELSE s.side # s.id.sender

\* A row holds at most one reaction of each side ("satu slot per orang").
OneReactionPerSide ==
  \A r \in rows : \A x, y \in r.reactions : x.from = y.from => x = y

KeepsRows ==
  \A r \in rows : \E s \in rows' :
    /\ s.id = r.id /\ s.at = r.at /\ s.side = r.side /\ s.type = r.type
    /\ r.deleted => s.deleted
    /\ r.edited => s.edited
    /\ r.hash # NoHash => s.hash = r.hash

\* Nothing takes a row out of the table, moves it or undoes a deletion or the
\* record of an edit, and a content hash once set is never replaced, so an analysis
\* that cites a message keeps its target.
RowsEndure == [][KeepsRows]_vars

\* The pairs of events whose order does not matter: those of different messages,
\* unless both create a row with one content hash, and those of one message that
\* write different columns of a row.
Writes(e) ==
  CASE e.kind = "ingested" -> {"row"}
    [] e.kind = "updated" -> IF e.content THEN {"text"} ELSE {}
    [] e.kind = "deleted" -> {"text"}
    [] e.kind = "reaction" -> {e.from}
SameContent(e, f) ==
  /\ e.kind = "ingested" /\ f.kind = "ingested"
  /\ <<e.at, e.side, e.text>> = <<f.at, f.side, f.text>>
Independent(e, f) ==
  IF e.id # f.id THEN ~SameContent(e, f)
  ELSE Writes(e) \cap Writes(f) = {} /\ "row" \notin Writes(e) \cup Writes(f)

\* The unordered POSTs can only disturb what conflicts: two independent events
\* that are both under way leave the same table in either order.
IndependentEventsCommute ==
  \A e, f \in wire : Independent(e, f) =>
    Apply(Apply(rows, e), f) = Apply(Apply(rows, f), e)
===============================================================================
