-------------------------- MODULE MessageStoreProofs --------------------------
(***************************************************************************)
(* Proofs about MessageStore, for every set of messages, texts and         *)
(* reactions and any number of events in flight.                           *)
(***************************************************************************)
EXTENDS MessageStore, TLAPS

-------------------------------------------------------------------------------
(* Type correctness.                                                       *)

\* What the handlers write is rows again.
LEMMA ApplyType ==
  ASSUME NEW S \in SUBSET Row, NEW e \in Event
  PROVE  Apply(S, e) \in SUBSET Row
<1>1. CASE e \in Ingested
  <2>1. ContentHash(e.at, e.side, e.text) \in Content \cup {NoHash}
    BY <1>1 DEF ContentHash, Content, Ingested, Words
  <2>2. LiveRow(e) \in Row
    BY <1>1, <2>1 DEF LiveRow, Row, Ingested, Words, RowId
  <2>3. Apply(S, e) = SaveLiveMessage(S, e)
    BY <1>1 DEF Apply, Ingested
  <2> QED BY <2>2, <2>3 DEF SaveLiveMessage, Insert
<1>2. CASE e \in Updated
  <2>1. MarkMessageEdited(S, e.id, e.text) \in SUBSET Row
    <3>1. e.text \in Words \cup {NoText}
      BY <1>2 DEF Updated, Words
    <3>2. ASSUME NEW r \in S
          PROVE  [r EXCEPT !.text = IF e.text = NoText THEN @ ELSE e.text, !.edited = TRUE] \in Row
      BY <3>1 DEF Row
    <3> QED BY <3>2 DEF MarkMessageEdited
  <2>2. Apply(S, e) = IF e.content THEN MarkMessageEdited(S, e.id, e.text) ELSE S
    BY <1>2 DEF Apply, Updated
  <2> QED BY <2>1, <2>2
<1>3. CASE e \in Deleted
  <2>1. MarkMessageDeleted(S, e.id) \in SUBSET Row
    BY DEF MarkMessageDeleted, Row
  <2>2. Apply(S, e) = MarkMessageDeleted(S, e.id)
    BY <1>3 DEF Apply, Deleted
  <2> QED BY <2>1, <2>2
<1>4. CASE e \in Reacted
  <2>1. ApplyReaction(S, e.id, e.from, e.emoji) \in SUBSET Row
    BY <1>4 DEF ApplyReaction, Row, Reacted, Reaction
  <2>2. Apply(S, e) = ApplyReaction(S, e.id, e.from, e.emoji)
    BY <1>4 DEF Apply, Reacted
  <2> QED BY <2>1, <2>2
<1> QED BY <1>1, <1>2, <1>3, <1>4 DEF Event

\* What Publish adds to the wire is an event.
LEMMA PublishType ==
  ASSUME TypeOK, NEW e \in Event, Publish(e)
  PROVE  wire' \subseteq Event
BY DEF TypeOK, Publish

\* A line of an export and the row it becomes.
LEMMA ShownType ==
  ASSUME NEW m \in OnPhone, m.type = "text" => m.text # NoText
  PROVE  Shown(m) \in Line
<1>1. m.at - (m.at % ExportUnit) \in Nat
  <2>1. m.at \in Nat /\ ExportUnit \in Nat /\ ExportUnit > 0
    BY StoreAssumption DEF OnPhone
  <2>2. m.at % ExportUnit \in Nat /\ m.at % ExportUnit <= m.at
    BY <2>1
  <2> QED BY <2>1, <2>2
<1>2. m.type \in {"text", "media"} /\ m.side \in Side /\ m.revoked \in BOOLEAN
      /\ m.edited \in BOOLEAN /\ m.text \in Text \cup {NoText}
  BY DEF OnPhone
<1> DEFINE type == IF m.revoked THEN "text" ELSE m.type
           text == IF m.revoked THEN DeletedNote
                   ELSE IF m.type = "media" THEN MediaNote ELSE m.text
<1>3. type \in MessageType /\ text \in Words
  BY <1>2 DEF MessageType, Words
<1>4. Shown(m) = [at |-> m.at - (m.at % ExportUnit), sender |-> m.side, type |-> type,
                  text |-> text, deleted |-> m.revoked, edited |-> m.edited /\ ~m.revoked]
  BY DEF Shown
<1> HIDE DEF type, text
<1> QED BY <1>1, <1>2, <1>3, <1>4 DEF Line

LEMMA ImportRowType ==
  ASSUME NEW l \in Line, NEW selfKnown \in BOOLEAN
  PROVE  ImportRow(l, selfKnown) \in Row
<1> DEFINE role == IF selfKnown /\ l.sender = "SELF" THEN "SELF" ELSE "OTHER"
           id == [at |-> l.at, sender |-> l.sender, type |-> l.type, text |-> l.text]
           hash == ContentHash(l.at, role, l.text)
<1>1. role \in Side
  BY DEF Side
<1>2. id \in RowId
  BY DEF Line, RowId, ImportId
<1>3. hash \in Content \cup {NoHash}
  BY <1>1 DEF Line, ContentHash, Content
<1>4. ImportRow(l, selfKnown) =
        [id |-> id, at |-> l.at, side |-> role, type |-> l.type, text |-> l.text,
         deleted |-> l.deleted, edited |-> l.edited, hash |-> hash, reactions |-> {}]
  BY DEF ImportRow
<1> HIDE DEF role, id, hash
<1> QED BY <1>1, <1>2, <1>3, <1>4 DEF Line, Row

\* A text message on the phone always has a text.
PhoneTexts ==
  \A w \in WaId : phone[w] # Unsent /\ phone[w].type = "text" => phone[w].text # NoText

TypeInv == TypeOK /\ PhoneTexts

LEMMA TypeInit == Init => TypeInv
BY DEF Init, TypeInv, TypeOK, PhoneTexts, NoTx, Txs

\* The steps of the phone keep its messages and the published events well-typed.
LEMMA TypePhone ==
  ASSUME TypeInv, PhoneStep
  PROVE  TypeInv'
<1> USE DEF TypeInv
<1> PICK w \in WaId :
      \/ \E m \in Sendable : Send(w, m)
      \/ \E t \in Text : EditOnPhone(w, t)
      \/ RevokeOnPhone(w)
      \/ Receipt(w)
      \/ \E from \in Side, emoji \in Emoji \cup {NoEmoji} : ReactOnPhone(w, from, emoji)
      \/ Redeliver(w)
  BY DEF PhoneStep
<1>p. phone[w] # Unsent => phone[w] \in OnPhone
  BY DEF TypeOK
<1>1. ASSUME NEW m \in Sendable, Send(w, m) PROVE TypeInv'
  <2>1. m \in Sent /\ (m.type = "text" => m.text # NoText)
    BY StoreAssumption
  <2> DEFINE new == [at |-> m.at, side |-> m.side, type |-> m.type, text |-> m.text,
                     viewOnce |-> m.viewOnce, ephemeral |-> m.ephemeral,
                     edited |-> FALSE, revoked |-> FALSE]
  <2>2. new \in OnPhone /\ new.type = m.type /\ new.text = m.text
    BY <2>1 DEF Sent, OnPhone
  <2>3. phone' = [phone EXCEPT ![w] = new]
    BY <1>1 DEF Send
  <2> HIDE DEF new
  <2>4. phone' \in [WaId -> OnPhone \cup {Unsent}]
    BY <2>2, <2>3 DEF TypeOK
  <2>5. {m.text} \ {NoText} \in SUBSET Text
    BY <2>1 DEF Sent
  <2>6. wrote' \in [WaId -> SUBSET Text]
    BY <1>1, <2>5 DEF Send, TypeOK
  <2>7. Normalized(w, m) \in Event /\ Undecrypted(w, m) \in Event
    BY <2>1 DEF Normalized, Undecrypted, Event, Ingested, Sent, MessageType,
                RecognisedViewOnce
  <2>8. wire' \subseteq Event
    BY <1>1, <2>7, PublishType DEF Send
  <2>9. PhoneTexts'
    BY <2>1, <2>2, <2>3 DEF PhoneTexts, TypeOK
  <2> QED BY <1>1, <2>4, <2>6, <2>8, <2>9 DEF Send, TypeOK
<1>2. ASSUME NEW t \in Text, EditOnPhone(w, t) PROVE TypeInv'
  <2>1. phone[w] \in OnPhone
    BY <1>2, <1>p DEF EditOnPhone, Live
  <2> DEFINE new == [phone[w] EXCEPT !.text = t, !.edited = TRUE]
  <2>2. new \in OnPhone /\ new.text = t
    BY <2>1 DEF OnPhone
  <2>3. phone' = [phone EXCEPT ![w] = new]
    BY <1>2 DEF EditOnPhone
  <2> HIDE DEF new
  <2>4. phone' \in [WaId -> OnPhone \cup {Unsent}]
    BY <2>2, <2>3 DEF TypeOK
  <2>5. wrote' \in [WaId -> SUBSET Text]
    BY <1>2 DEF EditOnPhone, TypeOK
  <2>6. \A seen \in {t, NoText} :
          [kind |-> "updated", id |-> w, content |-> TRUE, text |-> seen] \in Event
    BY DEF Event, Updated
  <2>7. wire' \subseteq Event
    BY <1>2, <2>6, PublishType DEF EditOnPhone
  <2>8. PhoneTexts'
    BY <2>2, <2>3, StoreAssumption DEF PhoneTexts, TypeOK, Words
  <2> QED BY <1>2, <2>4, <2>5, <2>7, <2>8 DEF EditOnPhone, TypeOK
<1>3. CASE RevokeOnPhone(w)
  <2>1. phone[w] \in OnPhone
    BY <1>3, <1>p DEF RevokeOnPhone, Live
  <2> DEFINE new == [phone[w] EXCEPT !.revoked = TRUE]
  <2>2. new \in OnPhone /\ new.text = phone[w].text /\ new.type = phone[w].type
    BY <2>1 DEF OnPhone
  <2>3. phone' = [phone EXCEPT ![w] = new]
    BY <1>3 DEF RevokeOnPhone
  <2> HIDE DEF new
  <2>4. phone' \in [WaId -> OnPhone \cup {Unsent}]
    BY <2>2, <2>3 DEF TypeOK
  <2>5. /\ [kind |-> "deleted", id |-> w] \in Event
        /\ [kind |-> "updated", id |-> w, content |-> FALSE, text |-> NoText] \in Event
    BY DEF Event, Deleted, Updated
  <2>6. wire' \subseteq Event
    BY <1>3, <2>5, PublishType DEF RevokeOnPhone
  <2>7. PhoneTexts'
    BY <1>3, <2>2, <2>3 DEF PhoneTexts, TypeOK, RevokeOnPhone, Live
  <2> QED BY <1>3, <2>4, <2>6, <2>7 DEF RevokeOnPhone, TypeOK
<1>4. CASE Receipt(w)
  <2>1. [kind |-> "updated", id |-> w, content |-> FALSE, text |-> NoText] \in Event
    BY DEF Event, Updated
  <2>2. wire' \subseteq Event
    BY <1>4, <2>1, PublishType DEF Receipt
  <2> QED BY <1>4, <2>2 DEF Receipt, TypeOK, PhoneTexts
<1>5. ASSUME NEW from \in Side, NEW emoji \in Emoji \cup {NoEmoji},
             ReactOnPhone(w, from, emoji)
      PROVE  TypeInv'
  <2>1. [kind |-> "reaction", id |-> w, from |-> from, emoji |-> emoji] \in Event
    BY DEF Event, Reacted
  <2>2. wire' \subseteq Event
    BY <1>5, <2>1, PublishType DEF ReactOnPhone
  <2> QED BY <1>5, <2>2 DEF ReactOnPhone, TypeOK, PhoneTexts
<1>6. CASE Redeliver(w)
  <2>1. phone[w] \in OnPhone
    BY <1>6, <1>p DEF Redeliver, Live
  <2>2. Normalized(w, phone[w]) \in Event
    BY <2>1 DEF Normalized, Event, Ingested, OnPhone, MessageType, RecognisedViewOnce
  <2>3. wire' \subseteq Event
    BY <1>6, <2>2, PublishType DEF Redeliver
  <2> QED BY <1>6, <2>3 DEF Redeliver, TypeOK, PhoneTexts
<1> QED BY <1>1, <1>2, <1>3, <1>4, <1>5, <1>6

\* The backend and the import write rows, lines and pending hashes.
LEMMA TypeStep ==
  ASSUME TypeInv, [Next]_vars
  PROVE  TypeInv'
<1> USE DEF TypeInv
<1>1. CASE UNCHANGED vars
  BY <1>1 DEF vars, TypeOK, PhoneTexts
<1>2. CASE PhoneStep
  BY <1>2, TypePhone
<1>3. ASSUME NEW e \in wire, Deliver(e) PROVE TypeInv'
  <2>1. e \in Event /\ rows \in SUBSET Row
    BY DEF TypeOK
  <2>2. rows' \in SUBSET Row
    BY <1>3, <2>1, ApplyType DEF Deliver
  <2> QED BY <1>3, <2>2 DEF Deliver, TypeOK, PhoneTexts
<1>4. ASSUME NEW e \in wire, Lose(e) PROVE TypeInv'
  BY <1>4 DEF Lose, TypeOK, PhoneTexts
<1>5. CASE TakeExport
  <2>1. ASSUME NEW w \in WaId, phone[w] # Unsent PROVE Shown(phone[w]) \in Line
    <3>1. phone[w] \in OnPhone /\ (phone[w].type = "text" => phone[w].text # NoText)
      BY <2>1 DEF TypeOK, PhoneTexts
    <3> QED BY <3>1, ShownType
  <2>2. file' \subseteq Line
    BY <1>5, <2>1 DEF TakeExport
  <2> QED BY <1>5, <2>2 DEF TakeExport, TypeOK, PhoneTexts
<1>6. ASSUME NEW selfKnown \in BOOLEAN, ImportBegin(selfKnown) PROVE TypeInv'
  BY <1>6 DEF ImportBegin, TypeOK, PhoneTexts, Txs
<1>7. ASSUME NEW l \in tx.todo, ImportLine(l) PROVE TypeInv'
  <2>1. tx \in Txs /\ l \in Line
    BY DEF TypeOK, Txs
  <2>2. ImportRow(l, tx.selfKnown) \in Row
    BY <2>1, ImportRowType DEF Txs
  <2>3. tx' \in Txs
    BY <1>7, <2>1, <2>2 DEF ImportLine, Txs
  <2> QED BY <1>7, <2>3 DEF ImportLine, TypeOK, PhoneTexts
<1>8. CASE ImportCommit
  BY <1>8 DEF ImportCommit, TypeOK, PhoneTexts, Txs, NoTx
<1>9. CASE ImportRollback
  BY <1>9 DEF ImportRollback, TypeOK, PhoneTexts, Txs, NoTx
<1>10. CASE HashfillRead
  <2>1. ASSUME NEW r \in rows, r.text # NoText
        PROVE  [id |-> r.id, hash |-> ContentHash(r.at, r.side, r.text)] \in Fill
    <3>1. r \in Row
      BY DEF TypeOK
    <3> QED BY <2>1, <3>1 DEF Row, Fill, ContentHash, Content
  <2>2. fill' \subseteq Fill
    BY <1>10, <2>1 DEF HashfillRead
  <2> QED BY <1>10, <2>2 DEF HashfillRead, TypeOK, PhoneTexts
<1>11. ASSUME NEW p \in fill, HashfillWrite(p) PROVE TypeInv'
  <2>1. p \in Fill
    BY DEF TypeOK
  <2>2. ASSUME NEW r \in rows PROVE [r EXCEPT !.hash = p.hash] \in Row
    BY <2>1 DEF TypeOK, Row, Fill
  <2>3. rows' \subseteq Row
    BY <1>11, <2>2 DEF HashfillWrite, FillHash, TypeOK
  <2> QED BY <1>11, <2>3 DEF HashfillWrite, TypeOK, PhoneTexts
<1>12. CASE HashfillAbort
  BY <1>12 DEF HashfillAbort, TypeOK, PhoneTexts
<1> QED
  BY <1>1, <1>2, <1>3, <1>4, <1>5, <1>6, <1>7, <1>8, <1>9, <1>10, <1>11, <1>12
  DEF Next, ImportStep, HashfillStep

\* Every reachable state of the store is well-typed.
THEOREM TypeCorrect == Spec => []TypeOK
<1>1. Spec => []TypeInv
  BY TypeInit, TypeStep, PTL DEF Spec
<1> QED BY <1>1, PTL DEF TypeInv

-------------------------------------------------------------------------------
(* What the writes keep.                                                   *)

Same(r, s) == r.id = s.id \/ (r.hash # NoHash /\ r.hash = s.hash)
Distinct(S) == \A r, s \in S : Same(r, s) => r = s

\* t is what the event e, no new message, may make of the row s.
Edits(e, r) == e \in Updated /\ e.content /\ e.id = r.id
Kept(e, s, t) ==
  /\ t.id = s.id /\ t.at = s.at /\ t.side = s.side /\ t.type = s.type
  /\ t.hash = s.hash
  /\ s.deleted => t.deleted
  /\ t.deleted => s.deleted \/ (e \in Deleted /\ e.id = t.id)
  /\ s.edited => t.edited
  /\ t.edited => s.edited \/ Edits(e, t)
  /\ t.text \in {s.text, NoText} \/ (Edits(e, t) /\ t.edited /\ t.text = e.text)
  /\ e \in Deleted /\ e.id = t.id => t.text = NoText
KeptAll(e, S, T) ==
  /\ \A t \in T : \E s \in S : Kept(e, s, t)
  /\ \A s \in S : \E t \in T : Kept(e, s, t)

\* Events other than new messages rewrite rows one by one and keep them distinct.
LEMMA ApplyKeeps ==
  ASSUME NEW S \in SUBSET Row, NEW e \in Event, e \notin Ingested, Distinct(S)
  PROVE  KeptAll(e, S, Apply(S, e)) /\ Distinct(Apply(S, e))
<1>1. CASE e \in Updated
  <2> DEFINE f(r) == IF r.id = e.id
                       THEN [r EXCEPT !.text = IF e.text = NoText THEN @ ELSE e.text,
                                      !.edited = TRUE]
                       ELSE r
  <2> HIDE DEF f
  <2>2. CASE e.content
    <3>2. \A r \in S : Kept(e, r, f(r))
      BY <1>1, <2>2 DEF Kept, Row, Edits, f, Updated, Deleted
    <3>1. Apply(S, e) = {f(r) : r \in S}
      BY <1>1, <2>2 DEF Apply, Updated, MarkMessageEdited, f
    <3> QED BY <3>1, <3>2 DEF KeptAll, Kept, Distinct, Same
  <2>3. CASE ~e.content
    <3>1. Apply(S, e) = S
      BY <1>1, <2>3 DEF Apply, Updated
    <3> QED BY <1>1, <3>1 DEF KeptAll, Kept, Updated, Deleted
  <2> QED BY <2>2, <2>3
<1>2. CASE e \in Deleted
  <2> DEFINE f(r) == IF r.id = e.id THEN [r EXCEPT !.deleted = TRUE, !.text = NoText]
                     ELSE r
  <2>1. \A r \in S : Kept(e, r, f(r))
    BY <1>2 DEF Kept, Row
  <2> HIDE DEF f
  <2>2. Apply(S, e) = {f(r) : r \in S}
    BY <1>2 DEF Apply, Deleted, MarkMessageDeleted, f
  <2> QED BY <2>1, <2>2 DEF KeptAll, Kept, Distinct, Same
<1>3. CASE e \in Reacted
  <2> DEFINE f(r) == IF r.id = e.id
                       THEN [r EXCEPT !.reactions =
                               {x \in @ : x.from # e.from} \cup
                               (IF e.emoji = NoEmoji THEN {}
                                ELSE {[from |-> e.from, emoji |-> e.emoji]})]
                       ELSE r
  <2>1. \A r \in S : Kept(e, r, f(r))
    BY <1>3 DEF Kept, Row, Reacted, Deleted
  <2> HIDE DEF f
  <2>2. Apply(S, e) = {f(r) : r \in S}
    BY <1>3 DEF Apply, Reacted, ApplyReaction, f
  <2> QED BY <2>1, <2>2 DEF KeptAll, Kept, Distinct, Same
<1> QED BY <1>1, <1>2, <1>3 DEF Event

\* A new message adds its row when no stored row has its id or its hash.
LEMMA ApplyInserts ==
  ASSUME NEW S \in SUBSET Row, NEW e \in Ingested, Distinct(S)
  PROVE  /\ Distinct(Apply(S, e))
         /\ S \subseteq Apply(S, e)
         /\ Apply(S, e) \subseteq S \cup {LiveRow(e)}
         /\ Skipped(e) => Apply(S, e) = S
<1>1. Apply(S, e) = IF Skipped(e) \/ Conflicts(S, LiveRow(e)) THEN S
                    ELSE S \cup {LiveRow(e)}
  BY DEF Apply, Ingested, SaveLiveMessage, Insert
<1>2. ~Conflicts(S, LiveRow(e)) => \A s \in S : ~Same(s, LiveRow(e)) /\ ~Same(LiveRow(e), s)
  BY DEF Conflicts, Same
<1> QED BY <1>1, <1>2 DEF Distinct

-------------------------------------------------------------------------------
(* UniqueRows.                                                             *)

\* UniqueRows alone is not inductive: a row in both rows and tx.added would
\* change in one of them only, so the rows of an open import must be new.
UniqueInv ==
  /\ TypeInv
  /\ Distinct(rows)
  /\ Distinct(tx.added)
  /\ \A r \in rows, s \in tx.added : ~Same(r, s)
  /\ ~tx.open => tx.added = {}

LEMMA UniqueInit == Init => UniqueInv
<1> SUFFICES ASSUME Init PROVE UniqueInv
  OBVIOUS
<1>1. rows = {} /\ tx.added = {}
  BY DEF Init, NoTx
<1> QED BY <1>1, TypeInit DEF UniqueInv, Distinct

LEMMA UniqueStep ==
  ASSUME UniqueInv, [Next]_vars
  PROVE  UniqueInv'
<1>t. TypeInv /\ TypeInv'
  BY TypeStep DEF UniqueInv
<1>u. rows \in SUBSET Row /\ wire \subseteq Event /\ tx \in Txs /\ tx.todo \subseteq Line
  BY <1>t DEF TypeInv, TypeOK, Txs
<1> SUFFICES /\ Distinct(rows') /\ Distinct(tx'.added)
             /\ \A r \in rows', s \in tx'.added : ~Same(r, s)
             /\ ~tx'.open => tx'.added = {}
  BY <1>t DEF UniqueInv, Distinct, Same
<1>1. CASE UNCHANGED <<rows, tx>>
  BY <1>1 DEF UniqueInv
<1>2. ASSUME NEW e \in wire, Deliver(e) PROVE UniqueInv'
  <2>1. tx' = tx /\ rows' = Apply(rows, e)
    BY <1>2 DEF Deliver
  <2>2. CASE e \in Ingested
    <3>1. Distinct(rows') /\ (tx.open => rows' = rows)
      BY <1>2, <1>u, <2>1, <2>2, ApplyInserts DEF UniqueInv, Deliver, Ingested
    <3> QED BY <1>t, <2>1, <3>1 DEF UniqueInv, Distinct
  <2>3. CASE e \notin Ingested
    <3>1. KeptAll(e, rows, rows') /\ Distinct(rows')
      BY <1>u, <2>1, <2>3, ApplyKeeps DEF UniqueInv
    <3>2. \A r \in rows', s \in tx.added : ~Same(r, s)
      BY <3>1 DEF UniqueInv, KeptAll, Kept, Same
    <3> QED BY <1>t, <2>1, <3>1, <3>2 DEF UniqueInv, Distinct
  <2> QED BY <2>2, <2>3
<1>3. ASSUME NEW selfKnown \in BOOLEAN, ImportBegin(selfKnown) PROVE UniqueInv'
  BY <1>3, <1>t DEF ImportBegin, UniqueInv, Distinct
<1>4. ASSUME NEW l \in tx.todo, ImportLine(l) PROVE UniqueInv'
  <2> DEFINE r == ImportRow(l, tx.selfKnown)
  <2>1. rows' = rows /\ tx'.open = tx.open /\ tx.open
    BY <1>4, <1>u DEF ImportLine, Txs
  <2>2. tx'.added = IF Conflicts(rows \cup tx.added, r) THEN tx.added
                    ELSE tx.added \cup {r}
    BY <1>4, <1>u DEF ImportLine, Txs
  <2> HIDE DEF r
  <2>3. ~Conflicts(rows \cup tx.added, r) =>
          \A s \in rows \cup tx.added : ~Same(s, r) /\ ~Same(r, s)
    BY DEF Conflicts, Same
  <2> QED BY <1>t, <2>1, <2>2, <2>3 DEF UniqueInv, Distinct
<1>5. CASE ImportCommit
  <2>1. rows' = rows \cup tx.added /\ tx'.added = {}
    BY <1>5 DEF ImportCommit, NoTx
  <2> QED BY <1>t, <2>1 DEF UniqueInv, Distinct, Same
<1>6. CASE ImportRollback
  BY <1>6, <1>t DEF ImportRollback, NoTx, UniqueInv, Distinct
<1>7. ASSUME NEW p \in fill, HashfillWrite(p) PROVE UniqueInv'
  <2> DEFINE f(r) == IF r.id = p.id /\ \A o \in rows : o.hash # p.hash
                       THEN [r EXCEPT !.hash = p.hash] ELSE r
  <2>1. \A r \in rows : f(r).id = r.id /\ (f(r).hash = r.hash \/ f(r).hash = p.hash)
    BY <1>u DEF Row
  <2>2. \A r \in rows : f(r).hash # r.hash => r.id = p.id /\ \A o \in rows : o.hash # p.hash
    BY <1>u DEF Row
  <2>3. rows' = {f(r) : r \in rows} /\ tx' = tx /\ \A s \in tx.added : s.hash # p.hash
    BY <1>7 DEF HashfillWrite, FillHash
  <2> HIDE DEF f
  <2>4. ASSUME NEW r \in rows, NEW s \in rows, Same(f(r), f(s)) PROVE r = s
    BY <2>1, <2>2, <2>4 DEF UniqueInv, Distinct, Same
  <2>5. ASSUME NEW r \in rows, NEW s \in tx.added PROVE ~Same(f(r), s)
    BY <2>1, <2>3 DEF UniqueInv, Same
  <2> QED BY <1>t, <2>3, <2>4, <2>5 DEF UniqueInv, Distinct
<1> QED
  BY <1>1, <1>2, <1>3, <1>4, <1>5, <1>6, <1>7
  DEF Next, vars, PhoneStep, Send, EditOnPhone, RevokeOnPhone, Receipt, ReactOnPhone,
      Redeliver, Lose, ImportStep, TakeExport, HashfillStep, HashfillRead, HashfillAbort,
      UniqueInv

\* No two rows have one message id or one content hash, for any number of messages,
\* in whatever order events, imports and hashfill passes interleave.
THEOREM RowsUnique == Spec => []UniqueRows
<1>1. UniqueInv => UniqueRows
  BY DEF UniqueInv, UniqueRows, Table, Distinct, Same
<1> QED BY <1>1, UniqueInit, UniqueStep, PTL DEF Spec

-------------------------------------------------------------------------------
(* RowsEndure.                                                             *)

\* What a hashfill pass still has to write concerns rows that have no hash yet,
\* each once: otherwise it could overwrite a hash.
FillInv ==
  /\ UniqueInv
  /\ \A p, q \in fill : p.id = q.id => p = q
  /\ \A p \in fill : \E r \in rows : r.id = p.id /\ r.hash = NoHash

\* How the rows change in any step.
LEMMA RowsStep ==
  ASSUME UniqueInv, [Next]_vars
  PROVE  \/ rows \subseteq rows'
         \/ \E e \in wire : Deliver(e) /\ KeptAll(e, rows, rows')
         \/ \E p \in fill : HashfillWrite(p)
<1>u. rows \in SUBSET Row /\ wire \subseteq Event /\ Distinct(rows)
  BY DEF UniqueInv, TypeInv, TypeOK
<1>1. ASSUME NEW e \in wire, Deliver(e)
      PROVE  rows \subseteq rows' \/ KeptAll(e, rows, rows')
  <2>1. e \in Event /\ rows' = Apply(rows, e)
    BY <1>1, <1>u DEF Deliver
  <2>2. CASE e \in Ingested
    BY <1>u, <2>1, <2>2, ApplyInserts
  <2>3. CASE e \notin Ingested
    BY <1>u, <2>1, <2>3, ApplyKeeps
  <2> QED BY <2>2, <2>3
<1>2. CASE ImportCommit
  BY <1>2 DEF ImportCommit
<1>3. CASE UNCHANGED rows
  BY <1>3
<1> QED
  BY <1>1, <1>2, <1>3
  DEF Next, vars, PhoneStep, Send, EditOnPhone, RevokeOnPhone, Receipt, ReactOnPhone,
      Redeliver, Lose, ImportStep, TakeExport, ImportBegin, ImportLine, ImportRollback,
      HashfillStep, HashfillRead, HashfillAbort

\* hashfill writes its hash to the one row it was computed for.
LEMMA FillStepRows ==
  ASSUME FillInv, NEW p \in fill, HashfillWrite(p), NEW r \in rows
  PROVE  \E s \in rows' :
           /\ s.id = r.id /\ s.at = r.at /\ s.side = r.side /\ s.type = r.type
           /\ s.deleted = r.deleted /\ s.edited = r.edited
           /\ r.hash # NoHash => s.hash = r.hash
           /\ r.id # p.id => s = r
<1>1. rows \in SUBSET Row /\ Distinct(rows)
  BY DEF FillInv, UniqueInv, TypeInv, TypeOK
<1>2. r.id = p.id => r.hash = NoHash
  BY <1>1 DEF FillInv, Distinct, Same
<1> DEFINE s == IF r.id = p.id /\ \A o \in rows : o.hash # p.hash
                  THEN [r EXCEPT !.hash = p.hash] ELSE r
<1>3. s \in rows'
  BY DEF HashfillWrite, FillHash
<1>4. r \in Row
  BY <1>1
<1>5. /\ s.id = r.id /\ s.at = r.at /\ s.side = r.side /\ s.type = r.type
      /\ s.deleted = r.deleted /\ s.edited = r.edited
      /\ r.hash # NoHash => s.hash = r.hash
      /\ r.id # p.id => s = r
  BY <1>2, <1>4 DEF Row
<1> HIDE DEF s
<1> QED BY <1>3, <1>5

LEMMA FillInit == Init => FillInv
BY UniqueInit DEF Init, FillInv

LEMMA FillStep ==
  ASSUME FillInv, [Next]_vars
  PROVE  FillInv'
<1>1. UniqueInv /\ UniqueInv'
  BY UniqueStep DEF FillInv
<1>2. CASE HashfillRead
  <2>1. \A p \in fill' : \E r \in rows :
          /\ r.hash = NoHash
          /\ p = [id |-> r.id, hash |-> ContentHash(r.at, r.side, r.text)]
    BY <1>2 DEF HashfillRead
  <2>2. rows' = rows
    BY <1>2 DEF HashfillRead
  <2> QED BY <1>1, <2>1, <2>2 DEF FillInv, UniqueInv, Distinct, Same
<1>3. ASSUME NEW p \in fill, HashfillWrite(p) PROVE FillInv'
  <2>1. fill' = fill \ {p}
    BY <1>3 DEF HashfillWrite
  <2>2. ASSUME NEW q \in fill' PROVE \E r \in rows' : r.id = q.id /\ r.hash = NoHash
    <3>1. q.id # p.id
      BY <2>1 DEF FillInv
    <3>2. PICK r \in rows : r.id = q.id /\ r.hash = NoHash
      BY <2>1 DEF FillInv
    <3> QED BY <1>3, <3>1, <3>2, FillStepRows
  <2> QED BY <1>1, <2>1, <2>2 DEF FillInv
<1>4. CASE HashfillAbort
  BY <1>1, <1>4 DEF HashfillAbort, FillInv
<1>5. CASE ~HashfillStep
  <2>1. fill' = fill
    BY <1>5 DEF Next, vars, PhoneStep, Send, EditOnPhone, RevokeOnPhone, Receipt,
                ReactOnPhone, Redeliver, Deliver, Lose, ImportStep, TakeExport,
                ImportBegin, ImportLine, ImportCommit, ImportRollback
  <2>2. ASSUME NEW r \in rows, r.hash = NoHash
        PROVE  \E s \in rows' : s.id = r.id /\ s.hash = NoHash
    BY <1>1, <1>5, <2>2, RowsStep DEF HashfillStep, KeptAll, Kept
  <2> QED BY <1>1, <2>1, <2>2 DEF FillInv
<1> QED BY <1>2, <1>3, <1>4, <1>5 DEF HashfillStep

\* Every row stays, keeps its place and its hash, and stays deleted or edited.
THEOREM RowsStay == Spec => RowsEndure
<1>1. ASSUME FillInv, [Next]_vars PROVE KeepsRows
  <2>1. UniqueInv
    BY <1>1 DEF FillInv
  <2>2. CASE rows \subseteq rows'
    BY <2>2 DEF KeepsRows
  <2>3. ASSUME NEW e \in wire, KeptAll(e, rows, rows') PROVE KeepsRows
    BY <2>3 DEF KeepsRows, KeptAll, Kept
  <2>4. ASSUME NEW p \in fill, HashfillWrite(p) PROVE KeepsRows
    <3>1. ASSUME NEW r \in rows
          PROVE  \E s \in rows' :
                   /\ s.id = r.id /\ s.at = r.at /\ s.side = r.side /\ s.type = r.type
                   /\ r.deleted => s.deleted
                   /\ r.edited => s.edited
                   /\ r.hash # NoHash => s.hash = r.hash
      BY <1>1, <2>4, FillStepRows
    <3> QED BY <3>1 DEF KeepsRows
  <2> QED BY <1>1, <2>1, <2>2, <2>3, <2>4, RowsStep
<1>2. FillInv /\ [Next]_vars => [KeepsRows]_vars
  BY <1>1
<1> QED BY <1>2, FillInit, FillStep, PTL DEF Spec, RowsEndure

\* Absorbed: a copy of a message stored under its own id, whatever its text has become;
\* a copy whose time, side and text a row was stored with; and a line of an export that
\* once met a row, if it is imported under the same self_name.
Absorbs(S, e) == Apply(S, e) = S
MeetsId(S, e) == \E r \in S : r.id = e.id
KnownStays ==
  [][/\ \A e \in Ingested : MeetsId(rows, e) => Absorbs(rows', e)
     /\ \A e \in Ingested : Conflicts(rows, LiveRow(e)) => Absorbs(rows', e)
     /\ \A l \in Line, selfKnown \in BOOLEAN :
          Conflicts(rows, ImportRow(l, selfKnown)) => Conflicts(rows', ImportRow(l, selfKnown))]_vars

\* What the table absorbs it goes on absorbing, whatever is edited, deleted or filled in
\* between (imports.go, live.go: ON CONFLICT DO NOTHING).  Two copies are other rows and
\* not meant: one whose text was edited after the table met only its content, and a line
\* imported under another self_name; either may add a row.
THEOREM KnownRowsStayKnown == Spec => KnownStays
<1>1. ASSUME KeepsRows, NEW r, Conflicts(rows, r) PROVE Conflicts(rows', r)
  BY <1>1 DEF KeepsRows, Conflicts
<1>2. ASSUME NEW S, NEW e \in Ingested, Conflicts(S, LiveRow(e)) PROVE Absorbs(S, e)
  BY <1>2 DEF Absorbs, Apply, Ingested, SaveLiveMessage, Insert
<1>3. ASSUME NEW e \in Ingested, MeetsId(rows, e) PROVE Conflicts(rows, LiveRow(e))
  BY <1>3 DEF MeetsId, Conflicts, LiveRow
<1> DEFINE Stays ==
      /\ \A e \in Ingested : MeetsId(rows, e) => Absorbs(rows', e)
      /\ \A e \in Ingested : Conflicts(rows, LiveRow(e)) => Absorbs(rows', e)
      /\ \A l \in Line, selfKnown \in BOOLEAN :
           Conflicts(rows, ImportRow(l, selfKnown)) => Conflicts(rows', ImportRow(l, selfKnown))
<1>4. KeepsRows => Stays
  BY <1>1, <1>2, <1>3
<1>5. [KeepsRows]_vars => [Stays]_vars
  BY <1>4
<1> QED BY <1>5, RowsStay, PTL DEF RowsEndure, KnownStays

-------------------------------------------------------------------------------
(* LiveRowsFaithful.                                                       *)

\* What an event, a pending hash and a row may claim of the message of their id.
EventFaithful(e) ==
  /\ phone[e.id] # Unsent
  /\ e \in Ingested =>
       /\ e.at = phone[e.id].at /\ e.side = phone[e.id].side
       /\ e.text \in wrote[e.id] \cup {NoText}
  /\ e \in Updated /\ e.content =>
       phone[e.id].edited /\ e.text \in wrote[e.id] \cup {NoText}
  /\ e \in Deleted => phone[e.id].revoked
HashFaithful(id, hash) ==
  \E t \in wrote[id] : hash = <<phone[id].at, phone[id].side, t>>
RowFaithful(r) ==
  /\ phone[r.id] # Unsent
  /\ r.at = phone[r.id].at /\ r.side = phone[r.id].side
  /\ r.text # NoText => r.text \in wrote[r.id]
  /\ r.hash # NoHash => HashFaithful(r.id, r.hash)
  /\ r.deleted => phone[r.id].revoked
  /\ r.edited => phone[r.id].edited

PhoneWrote ==
  \A w \in WaId : phone[w] # Unsent => phone[w].text \in wrote[w] \cup {NoText}
WireFaithful == \A e \in wire : EventFaithful(e)
RowsFaithful == \A r \in rows : r.id \in WaId => RowFaithful(r)
FillFaithful ==
  \A p \in fill : p.id \in WaId => phone[p.id] # Unsent /\ HashFaithful(p.id, p.hash)

FaithfulInv ==
  /\ FillInv
  /\ PhoneWrote
  /\ WireFaithful
  /\ RowsFaithful
  /\ FillFaithful
  /\ \A r \in tx.added : r.id \in ImportId

\* The phone forgets neither a message nor a text, an edit or a revocation of it.
PhoneGrows ==
  \A w \in WaId : phone[w] # Unsent =>
    /\ phone'[w] # Unsent
    /\ phone'[w].at = phone[w].at /\ phone'[w].side = phone[w].side
    /\ phone[w].edited => phone'[w].edited
    /\ phone[w].revoked => phone'[w].revoked
    /\ wrote[w] \subseteq wrote'[w]

LEMMA PhoneStepFaithful ==
  ASSUME FaithfulInv, PhoneStep
  PROVE  PhoneGrows /\ PhoneWrote' /\ WireFaithful'
<1>t. TypeOK /\ TypeInv'
  BY TypePhone DEF FaithfulInv, FillInv, UniqueInv, TypeInv
<1> PICK w \in WaId :
      \/ \E m \in Sendable : Send(w, m)
      \/ \E t \in Text : EditOnPhone(w, t)
      \/ RevokeOnPhone(w)
      \/ Receipt(w)
      \/ \E from \in Side, emoji \in Emoji \cup {NoEmoji} : ReactOnPhone(w, from, emoji)
      \/ Redeliver(w)
  BY DEF PhoneStep
<1>w. \A e \in wire : e.id \in WaId /\ EventFaithful(e)
  BY <1>t DEF TypeOK, Event, Ingested, Updated, Deleted, Reacted, FaithfulInv, WireFaithful
<1>0. ASSUME PhoneGrows, NEW e, e \in Event, EventFaithful(e)' , wire' = wire \cup {e}
      PROVE  WireFaithful'
  <2>1. \A f \in wire : EventFaithful(f)'
    BY <1>0, <1>w DEF PhoneGrows, EventFaithful
  <2> QED BY <1>0, <2>1 DEF WireFaithful
<1>p. phone[w] # Unsent => phone[w] \in OnPhone /\ phone[w].text \in wrote[w] \cup {NoText}
  BY <1>t DEF TypeOK, FaithfulInv, PhoneWrote
<1>1. ASSUME NEW m \in Sendable, Send(w, m)
      PROVE  PhoneGrows /\ PhoneWrote' /\ WireFaithful'
  <2>1. m \in Sent
    BY StoreAssumption
  <2> DEFINE new == [at |-> m.at, side |-> m.side, type |-> m.type, text |-> m.text,
                     viewOnce |-> m.viewOnce, ephemeral |-> m.ephemeral,
                     edited |-> FALSE, revoked |-> FALSE]
  <2>2. new \in OnPhone /\ new.at = m.at /\ new.side = m.side /\ new.text = m.text
    BY <2>1 DEF Sent, OnPhone
  <2>3. phone[w] = Unsent /\ phone' = [phone EXCEPT ![w] = new] /\ new # Unsent
    BY <1>1, <2>2, StoreAssumption DEF Send
  <2> HIDE DEF new
  <2>4. wrote' = [wrote EXCEPT ![w] = {m.text} \ {NoText}]
    BY <1>1 DEF Send
  <2>5. PhoneGrows /\ PhoneWrote'
    BY <1>t, <2>2, <2>3, <2>4 DEF PhoneGrows, PhoneWrote, TypeOK, FaithfulInv
  <2>6. PICK e \in {Normalized(w, m), Undecrypted(w, m)} : Publish(e)
    BY <1>1 DEF Send
  <2>7. /\ e \in Ingested /\ e.id = w /\ e.at = m.at /\ e.side = m.side
        /\ e.text \in {m.text, NoText} /\ e \notin Updated /\ e \notin Deleted
    <3>1. CASE e = Normalized(w, m)
      BY <2>1, <3>1 DEF Normalized, Ingested, Updated, Deleted, Sent, MessageType,
                        RecognisedViewOnce
    <3>2. CASE e = Undecrypted(w, m)
      BY <2>1, <3>2 DEF Undecrypted, Ingested, Updated, Deleted, Sent, MessageType
    <3> QED BY <2>6, <3>1, <3>2
  <2>8. e.text \in wrote'[w] \cup {NoText} /\ phone'[w] = new
    BY <1>t, <2>3, <2>4, <2>7 DEF TypeOK
  <2>9. EventFaithful(e)'
    BY <2>2, <2>3, <2>7, <2>8 DEF EventFaithful
  <2> QED BY <1>0, <2>5, <2>6, <2>7, <2>9 DEF Publish, Event
<1>2. ASSUME NEW t \in Text, EditOnPhone(w, t)
      PROVE  PhoneGrows /\ PhoneWrote' /\ WireFaithful'
  <2>1. phone[w] \in OnPhone /\ phone[w] # Unsent
    BY <1>2, <1>p DEF EditOnPhone, Live
  <2> DEFINE new == [phone[w] EXCEPT !.text = t, !.edited = TRUE]
  <2>2. /\ new \in OnPhone /\ new.text = t /\ new.edited /\ new.at = phone[w].at
        /\ new.side = phone[w].side /\ new.revoked = phone[w].revoked
    BY <2>1 DEF OnPhone
  <2>3. phone' = [phone EXCEPT ![w] = new] /\ new # Unsent
    BY <1>2, <2>2, StoreAssumption DEF EditOnPhone
  <2> HIDE DEF new
  <2>4. wrote' = [wrote EXCEPT ![w] = wrote[w] \cup {t}]
    BY <1>2 DEF EditOnPhone
  <2>5. PhoneGrows /\ PhoneWrote'
    BY <1>t, <2>2, <2>3, <2>4 DEF PhoneGrows, PhoneWrote, TypeOK, FaithfulInv
  <2>6. PICK seen \in {t, NoText} :
          Publish([kind |-> "updated", id |-> w, content |-> TRUE, text |-> seen])
    BY <1>2 DEF EditOnPhone
  <2> DEFINE e == [kind |-> "updated", id |-> w, content |-> TRUE, text |-> seen]
  <2>7. /\ e \in Updated /\ e.id = w /\ e.text = seen /\ e \notin Ingested
        /\ e \notin Deleted
    BY DEF Updated, Ingested, Deleted
  <2>8. phone'[w] = new /\ seen \in wrote'[w] \cup {NoText}
    BY <1>t, <2>3, <2>4 DEF TypeOK
  <2>w. wire' = wire \cup {e}
    BY <2>6 DEF Publish
  <2> HIDE DEF e
  <2>9. EventFaithful(e)'
    BY <2>2, <2>3, <2>7, <2>8 DEF EventFaithful
  <2> QED BY <1>0, <2>5, <2>w, <2>7, <2>9 DEF Event
<1>3. CASE RevokeOnPhone(w)
  <2>1. phone[w] \in OnPhone /\ phone[w] # Unsent /\ wrote' = wrote
    BY <1>3, <1>p DEF RevokeOnPhone, Live
  <2> DEFINE new == [phone[w] EXCEPT !.revoked = TRUE]
  <2>2. /\ new \in OnPhone /\ new.text = phone[w].text /\ new.revoked
        /\ new.at = phone[w].at /\ new.side = phone[w].side
        /\ new.edited = phone[w].edited
    BY <2>1 DEF OnPhone
  <2>3. phone' = [phone EXCEPT ![w] = new] /\ new # Unsent
    BY <1>3, <2>2, StoreAssumption DEF RevokeOnPhone
  <2> HIDE DEF new
  <2>4. PhoneGrows /\ PhoneWrote' /\ phone'[w] = new
    BY <1>t, <2>1, <2>2, <2>3 DEF PhoneGrows, PhoneWrote, TypeOK, FaithfulInv
  <2>5. PICK e \in {[kind |-> "deleted", id |-> w],
                    [kind |-> "updated", id |-> w, content |-> FALSE, text |-> NoText]} :
          Publish(e)
    BY <1>3 DEF RevokeOnPhone
  <2>6. /\ e \in Deleted \cup Updated /\ (e \in Updated => ~e.content)
        /\ e.id = w /\ e \notin Ingested
    <3>1. CASE e = [kind |-> "deleted", id |-> w]
      BY <3>1 DEF Updated, Ingested, Deleted
    <3>2. CASE e = [kind |-> "updated", id |-> w, content |-> FALSE, text |-> NoText]
      BY <3>2 DEF Updated, Ingested, Deleted
    <3> QED BY <2>5, <3>1, <3>2
  <2>7. EventFaithful(e)'
    BY <2>2, <2>3, <2>4, <2>6 DEF EventFaithful
  <2> QED BY <1>0, <2>4, <2>5, <2>6, <2>7 DEF Publish, Event
<1>4. ASSUME UNCHANGED <<phone, wrote>>, NEW e \in Event, Publish(e), EventFaithful(e)
      PROVE  PhoneGrows /\ PhoneWrote' /\ WireFaithful'
  <2>1. PhoneGrows /\ PhoneWrote'
    BY <1>4 DEF PhoneGrows, PhoneWrote, FaithfulInv
  <2>2. EventFaithful(e)'
    BY <1>4 DEF EventFaithful
  <2> QED BY <1>0, <1>4, <2>1, <2>2 DEF Publish
<1>5. CASE Receipt(w)
  <2> DEFINE e == [kind |-> "updated", id |-> w, content |-> FALSE, text |-> NoText]
  <2>1. e \in Event /\ e \notin Ingested /\ e \notin Deleted /\ ~e.content /\ e.id = w
    BY DEF Event, Ingested, Updated, Deleted
  <2>2. Publish(e) /\ phone[w] # Unsent /\ UNCHANGED <<phone, wrote>>
    BY <1>5 DEF Receipt, Live
  <2> HIDE DEF e
  <2> QED BY <1>4, <2>1, <2>2 DEF EventFaithful
<1>6. ASSUME NEW from \in Side, NEW emoji \in Emoji \cup {NoEmoji},
             ReactOnPhone(w, from, emoji)
      PROVE  PhoneGrows /\ PhoneWrote' /\ WireFaithful'
  <2> DEFINE e == [kind |-> "reaction", id |-> w, from |-> from, emoji |-> emoji]
  <2>1. e \in Event /\ e \notin Ingested /\ e \notin Deleted /\ e \notin Updated /\ e.id = w
    BY DEF Event, Ingested, Updated, Deleted, Reacted
  <2>2. Publish(e) /\ phone[w] # Unsent /\ UNCHANGED <<phone, wrote>>
    BY <1>6 DEF ReactOnPhone, Live
  <2> HIDE DEF e
  <2> QED BY <1>4, <2>1, <2>2 DEF EventFaithful
<1>7. CASE Redeliver(w)
  <2>1. phone[w] \in OnPhone /\ phone[w] # Unsent /\ phone[w].text \in wrote[w] \cup {NoText}
    BY <1>7, <1>p DEF Redeliver, Live
  <2> DEFINE e == Normalized(w, phone[w])
  <2>2. /\ e \in Ingested /\ e.id = w /\ e.at = phone[w].at /\ e.side = phone[w].side
        /\ e.text = phone[w].text /\ e \notin Updated /\ e \notin Deleted
    BY <2>1 DEF Normalized, Ingested, Updated, Deleted, OnPhone, MessageType,
                RecognisedViewOnce
  <2>3. Publish(e) /\ UNCHANGED <<phone, wrote>>
    BY <1>7 DEF Redeliver
  <2> HIDE DEF e
  <2> QED BY <1>4, <2>1, <2>2, <2>3 DEF EventFaithful, Event
<1> QED BY <1>1, <1>2, <1>3, <1>5, <1>6, <1>7

LEMMA FaithfulInit == Init => FaithfulInv
<1> SUFFICES ASSUME Init PROVE FaithfulInv
  OBVIOUS
<1>1. rows = {} /\ fill = {} /\ wire = {} /\ tx.added = {}
      /\ \A w \in WaId : phone[w] = Unsent
  BY DEF Init, NoTx
<1> QED
  BY <1>1, FillInit
  DEF FaithfulInv, PhoneWrote, WireFaithful, RowsFaithful, FillFaithful

\* The row of a new message, and what another event makes of a row.
LEMMA ApplyFaithful ==
  ASSUME TypeOK, Distinct(rows), RowsFaithful, NEW e \in Event, EventFaithful(e),
         NEW r \in Apply(rows, e), r.id \in WaId
  PROVE  RowFaithful(r)
<1>1. CASE e \in Ingested
  <2>1. r \in rows \/ (r = LiveRow(e) /\ ~Skipped(e))
    BY <1>1, ApplyInserts DEF TypeOK
  <2>2. CASE r \in rows
    BY <2>2 DEF RowsFaithful
  <2>3. CASE r = LiveRow(e)
    <3>1. /\ r.id = e.id /\ r.at = e.at /\ r.side = e.side /\ r.text = e.text
          /\ ~r.deleted /\ ~r.edited
          /\ r.hash = IF e.text = NoText THEN NoHash ELSE <<e.at, e.side, e.text>>
      BY <2>3 DEF LiveRow, ContentHash
    <3> QED BY <1>1, <3>1 DEF RowFaithful, EventFaithful, HashFaithful
  <2> QED BY <2>1, <2>2, <2>3
<1>2. CASE e \notin Ingested
  <2>1. PICK s \in rows : Kept(e, s, r)
    BY <1>2, ApplyKeeps DEF TypeOK, KeptAll
  <2>2. RowFaithful(s) /\ s.id = r.id
    BY <2>1 DEF RowsFaithful, Kept
  <2> QED BY <2>1, <2>2 DEF RowFaithful, EventFaithful, Kept, Edits
<1> QED BY <1>1, <1>2

LEMMA FaithfulStep ==
  ASSUME FaithfulInv, [Next]_vars
  PROVE  FaithfulInv'
<1>t. FillInv /\ FillInv' /\ UniqueInv /\ TypeOK /\ TypeOK' /\ Distinct(rows)
  BY FillStep DEF FaithfulInv, FillInv, UniqueInv, TypeInv
<1>1. CASE PhoneStep
  <2>1. PhoneGrows /\ PhoneWrote' /\ WireFaithful' /\ UNCHANGED <<rows, tx, fill>>
    BY <1>1, PhoneStepFaithful
    DEF PhoneStep, Send, EditOnPhone, RevokeOnPhone, Receipt, ReactOnPhone, Redeliver
  <2>2. RowsFaithful'
    BY <2>1 DEF FaithfulInv, RowsFaithful, RowFaithful, HashFaithful, PhoneGrows
  <2>3. FillFaithful'
    BY <2>1 DEF FaithfulInv, FillFaithful, HashFaithful, PhoneGrows
  <2> QED BY <1>t, <2>1, <2>2, <2>3 DEF FaithfulInv
<1>2. CASE ~PhoneStep
  <2>1. UNCHANGED <<phone, wrote>> /\ wire' \subseteq wire
    BY <1>2 DEF Next, vars, Deliver, Lose, ImportStep, TakeExport, ImportBegin, ImportLine,
                ImportCommit, ImportRollback, HashfillStep, HashfillRead, HashfillWrite,
                HashfillAbort
  <2>2. PhoneWrote' /\ WireFaithful'
    BY <2>1 DEF FaithfulInv, PhoneWrote, WireFaithful, EventFaithful
  <2> SUFFICES RowsFaithful' /\ FillFaithful' /\ \A r \in tx'.added : r.id \in ImportId
    BY <1>t, <2>2 DEF FaithfulInv
  <2>3. ASSUME UNCHANGED <<rows, tx>>, fill' \subseteq fill
        PROVE  RowsFaithful' /\ FillFaithful' /\ \A r \in tx'.added : r.id \in ImportId
    BY <2>1, <2>3 DEF FaithfulInv, RowsFaithful, RowFaithful, HashFaithful, FillFaithful
  <2>4. ASSUME NEW e \in wire, Deliver(e)
        PROVE  RowsFaithful' /\ FillFaithful' /\ \A r \in tx'.added : r.id \in ImportId
    <3>1. e \in Event /\ EventFaithful(e)
      BY <1>t DEF TypeOK, FaithfulInv, WireFaithful
    <3>2. rows' = Apply(rows, e) /\ UNCHANGED <<tx, fill>>
      BY <2>4 DEF Deliver
    <3>3. \A r \in rows' : r.id \in WaId => RowFaithful(r)
      BY <1>t, <3>1, <3>2, ApplyFaithful DEF FaithfulInv
    <3> QED
      BY <2>1, <3>2, <3>3
      DEF FaithfulInv, RowsFaithful, RowFaithful, HashFaithful, FillFaithful
  <2>5. ASSUME UNCHANGED <<rows, fill>>, tx'.added = {}
        PROVE  RowsFaithful' /\ FillFaithful' /\ \A r \in tx'.added : r.id \in ImportId
    BY <2>1, <2>5 DEF FaithfulInv, RowsFaithful, RowFaithful, HashFaithful, FillFaithful
  <2>6. ASSUME NEW l \in tx.todo, ImportLine(l)
        PROVE  RowsFaithful' /\ FillFaithful' /\ \A r \in tx'.added : r.id \in ImportId
    <3>1. tx \in Txs /\ l \in Line
      BY <1>t DEF TypeOK, Txs
    <3>2. ImportRow(l, tx.selfKnown).id \in ImportId
      BY <3>1 DEF ImportRow, ImportId, Line
    <3>3. tx'.added \subseteq tx.added \cup {ImportRow(l, tx.selfKnown)}
      BY <2>6, <3>1 DEF ImportLine, Txs
    <3>4. UNCHANGED <<rows, fill>>
      BY <2>6 DEF ImportLine
    <3> QED
      BY <2>1, <3>2, <3>3, <3>4
      DEF FaithfulInv, RowsFaithful, RowFaithful, HashFaithful, FillFaithful
  <2>7. CASE ImportCommit
    <3>1. rows' = rows \cup tx.added /\ fill' = fill /\ tx'.added = {}
      BY <2>7 DEF ImportCommit, NoTx
    <3>2. \A r \in tx.added : r.id \notin WaId
      BY IdsApart DEF FaithfulInv
    <3> QED
      BY <2>1, <3>1, <3>2
      DEF FaithfulInv, RowsFaithful, RowFaithful, HashFaithful, FillFaithful
  <2>8. CASE HashfillRead
    <3>1. ASSUME NEW p \in fill', p.id \in WaId
          PROVE  phone[p.id] # Unsent /\ HashFaithful(p.id, p.hash)
      <4>1. PICK r \in rows :
              /\ r.text # NoText
              /\ p = [id |-> r.id, hash |-> ContentHash(r.at, r.side, r.text)]
        BY <2>8 DEF HashfillRead
      <4>2. p.id = r.id /\ p.hash = <<r.at, r.side, r.text>>
        BY <4>1 DEF ContentHash
      <4> QED BY <3>1, <4>1, <4>2 DEF FaithfulInv, RowsFaithful, RowFaithful, HashFaithful
    <3>2. UNCHANGED <<rows, tx>>
      BY <2>8 DEF HashfillRead
    <3> QED
      BY <2>1, <3>1, <3>2
      DEF FaithfulInv, RowsFaithful, RowFaithful, HashFaithful, FillFaithful
  <2>9. ASSUME NEW p \in fill, HashfillWrite(p)
        PROVE  RowsFaithful' /\ FillFaithful' /\ \A r \in tx'.added : r.id \in ImportId
    <3>1. fill' \subseteq fill /\ tx' = tx
      BY <2>9 DEF HashfillWrite
    <3>2. ASSUME NEW r \in rows', r.id \in WaId PROVE RowFaithful(r)
      <4>1. PICK s \in rows : r = s \/ (s.id = p.id /\ r = [s EXCEPT !.hash = p.hash])
        BY <2>9 DEF HashfillWrite, FillHash
      <4>2. s \in Row
        BY <1>t DEF TypeOK
      <4>3. /\ r.id = s.id /\ r.at = s.at /\ r.side = s.side /\ r.text = s.text
            /\ r.deleted = s.deleted /\ r.edited = s.edited
            /\ r.hash = s.hash \/ (s.id = p.id /\ r.hash = p.hash)
        BY <4>1, <4>2 DEF Row
      <4>4. RowFaithful(s) /\ (p.id \in WaId => HashFaithful(p.id, p.hash))
        BY <3>2, <4>3 DEF FaithfulInv, RowsFaithful, FillFaithful
      <4> QED BY <3>2, <4>3, <4>4 DEF RowFaithful
    <3> QED
      BY <2>1, <3>1, <3>2
      DEF FaithfulInv, RowsFaithful, RowFaithful, HashFaithful, FillFaithful
  <2>10. \/ UNCHANGED <<rows, tx>> /\ fill' \subseteq fill
         \/ \E e \in wire : Deliver(e)
         \/ UNCHANGED <<rows, fill>> /\ tx'.added = {}
         \/ \E l \in tx.todo : ImportLine(l)
         \/ ImportCommit
         \/ HashfillRead
         \/ \E p \in fill : HashfillWrite(p)
    BY <1>2 DEF Next, vars, Lose, ImportStep, TakeExport, ImportBegin, ImportRollback,
                NoTx, HashfillStep, HashfillAbort
  <2> QED BY <2>3, <2>4, <2>5, <2>6, <2>7, <2>8, <2>9, <2>10
<1> QED BY <1>1, <1>2

\* In whatever order its events arrive, a live row describes its own message only.
THEOREM LiveRowsDescribeTheirMessage == Spec => []LiveRowsFaithful
<1>1. FaithfulInv => LiveRowsFaithful
  BY DEF FaithfulInv, RowsFaithful, RowFaithful, HashFaithful, LiveRowsFaithful
<1> QED BY <1>1, FaithfulInit, FaithfulStep, PTL DEF Spec

-------------------------------------------------------------------------------
(* DeletedContentStaysOut.                                                 *)

\* A row whose text is the one it was stored with is known by its content hash, and
\* a text message's row has one whatever became of its text; an imported row keeps the
\* text of its line, and a deleted row has a text only by an edit.
TextHashed(r) ==
  /\ r.type = "text" => r.hash # NoHash
  /\ r.text # NoText /\ (~r.edited \/ r.id \notin WaId) => r.hash = <<r.at, r.side, r.text>>
  /\ r.text # NoText /\ r.id \notin WaId => r.at = r.id.at /\ r.text = r.id.text
  /\ r.text # NoText /\ r.id \in WaId /\ r.deleted => r.edited

HashedInv == FillInv /\ \A r \in Table : TextHashed(r)

LEMMA HashedInit == Init => HashedInv
BY FillInit DEF Init, HashedInv, Table, NoTx

\* The steps by which a row comes into the table or changes in it.
LEMMA TableStep ==
  ASSUME [Next]_vars
  PROVE  \/ \E e \in wire : Deliver(e)
         \/ \E l \in tx.todo : ImportLine(l)
         \/ \E p \in fill : HashfillWrite(p)
         \/ Table' \subseteq Table
<1>1. CASE UNCHANGED <<rows, tx>>
  BY <1>1 DEF Table
<1>2. CASE ImportCommit
  BY <1>2 DEF ImportCommit, NoTx, Table
<1>3. CASE rows' = rows /\ tx'.added = {}
  BY <1>3 DEF Table
<1>4. CASE PhoneStep
  BY <1>1, <1>4 DEF PhoneStep, Send, EditOnPhone, RevokeOnPhone, Receipt, ReactOnPhone,
                    Redeliver
<1>5. CASE ~PhoneStep
  BY <1>1, <1>2, <1>3, <1>5
  DEF Next, vars, Lose, ImportStep, TakeExport, ImportBegin, ImportRollback, NoTx,
      HashfillStep, HashfillRead, HashfillAbort
<1> QED BY <1>4, <1>5

LEMMA HashedStep ==
  ASSUME HashedInv, [Next]_vars
  PROVE  HashedInv'
<1>t. FillInv /\ FillInv' /\ UniqueInv /\ TypeOK /\ Distinct(rows)
  BY FillStep DEF HashedInv, FillInv, UniqueInv, TypeInv
<1> SUFFICES ASSUME NEW r \in Table' PROVE TextHashed(r)
  BY <1>t DEF HashedInv, TextHashed
<1>1. CASE r \in Table
  BY <1>1 DEF HashedInv
<1>2. ASSUME NEW e \in wire, Deliver(e) PROVE TextHashed(r)
  <2>1. e \in Event /\ tx' = tx /\ rows' = Apply(rows, e)
    BY <1>2, <1>t DEF Deliver, TypeOK
  <2>2. CASE e \in Ingested /\ r \in rows'
    <3>1. r \in rows \/ (r = LiveRow(e) /\ ~Skipped(e))
      BY <1>t, <2>1, <2>2, ApplyInserts DEF TypeOK
    <3>2. e.text # NoText => <<e.at, e.side, e.text>> \in Nat \X Side \X Words
      BY <2>2 DEF Ingested, Words
    <3>3. ~Skipped(e) => TextHashed(LiveRow(e))
      BY <2>2, <3>2, StoreAssumption DEF LiveRow, ContentHash, TextHashed, Skipped, Ingested
    <3> QED BY <1>1, <3>1, <3>3 DEF Table
  <2>3. CASE e \notin Ingested /\ r \in rows'
    <3>1. PICK s \in rows : Kept(e, s, r)
      BY <1>t, <2>1, <2>3, ApplyKeeps DEF TypeOK, KeptAll
    <3>2. TextHashed(s)
      BY DEF HashedInv, Table
    <3>3. Edits(e, r) => r.id \in WaId
      BY DEF Edits, Updated
    <3> QED BY <3>1, <3>2, <3>3 DEF Kept, TextHashed
  <2> QED BY <1>1, <2>1, <2>2, <2>3 DEF Table
<1>3. ASSUME NEW l \in tx.todo, ImportLine(l) PROVE TextHashed(r)
  <2>1. tx \in Txs /\ l \in Line
    BY <1>t DEF TypeOK, Txs
  <2>2. rows' = rows /\ tx'.added \subseteq tx.added \cup {ImportRow(l, tx.selfKnown)}
    BY <1>3, <2>1 DEF ImportLine, Txs
  <2>3. l.text # NoText /\ l.at \in Nat /\ l.text \in Words
    BY <2>1, StoreAssumption DEF Line
  <2>5. ImportRow(l, tx.selfKnown).id \notin WaId
    BY <2>1, IdsApart DEF ImportRow, ImportId, Line
  <2>4. TextHashed(ImportRow(l, tx.selfKnown))
    BY <2>5, <2>3, StoreAssumption DEF ImportRow, ContentHash, TextHashed, Side
  <2> QED BY <1>1, <2>2, <2>4 DEF Table
<1>4. ASSUME NEW p \in fill, HashfillWrite(p) PROVE TextHashed(r)
  <2>1. PICK q \in rows : q.id = p.id /\ q.hash = NoHash
    BY <1>t DEF FillInv
  <2>2. tx' = tx /\ (r \in rows' =>
          \E s \in rows : r = s \/ (s.id = p.id /\ r = [s EXCEPT !.hash = p.hash]))
    BY <1>4 DEF HashfillWrite, FillHash
  <2>3. ASSUME NEW s \in rows, s.id = p.id, r = [s EXCEPT !.hash = p.hash]
        PROVE  TextHashed(r)
    <3>1. s = q /\ s \in Row
      BY <1>t, <2>1, <2>3 DEF Distinct, Same, TypeOK
    <3>2. r.text = s.text /\ r.edited = s.edited /\ r.id = s.id /\ r.type = s.type
      BY <2>3, <3>1 DEF Row
    <3>3. s.text # NoText /\ (~s.edited \/ s.id \notin WaId) =>
            NoHash = <<s.at, s.side, s.text>>
      BY <2>1, <3>1 DEF HashedInv, Table, TextHashed
    <3>4. s.text # NoText => <<s.at, s.side, s.text>> \in Nat \X Side \X Words
      BY <3>1 DEF Row
    <3>5. s.type # "text"
      BY <2>1, <3>1 DEF HashedInv, Table, TextHashed
    <3> QED BY <3>2, <3>3, <3>4, <3>5, StoreAssumption DEF TextHashed
  <2> QED BY <1>1, <2>2, <2>3 DEF Table
<1> QED BY <1>1, <1>2, <1>3, <1>4, TableStep

\* The hash a deleted live row holds keeps its text from coming back in another row,
\* but for a line imported as the other side's and a live row edited into it.
THEOREM DeletedTextStaysOut == Spec => []DeletedContentStaysOut
<1>1. ASSUME HashedInv, NEW r \in rows, r.id \in WaId, r.deleted
      PROVE  /\ r.type = "text" => r.hash # NoHash
             /\ r.text # NoText => r.edited
  BY <1>1 DEF HashedInv, Table, TextHashed
<1>2. ASSUME HashedInv, NEW r \in rows, NEW s \in Table \ {r},
             s.text # NoText, Said(s) = r.hash
      PROVE  IF s.id \in WaId THEN s.edited ELSE s.side # s.id.sender
  <2>1. r \in Row /\ s \in Row
    BY <1>2 DEF HashedInv, FillInv, UniqueInv, TypeInv, TypeOK, Txs, Table
  <2>2. s.hash # r.hash \/ s.hash = NoHash
    BY <1>2 DEF HashedInv, FillInv, UniqueInv, Distinct, Table, Same
  <2>3. <<s.at, s.side, s.text>> # NoHash
    BY <1>2, <2>1, StoreAssumption DEF Row
  <2>4. TextHashed(s)
    BY <1>2 DEF HashedInv
  <2>5. <<s.at, s.side, s.text>> # r.hash \/ (s.edited /\ s.id \in WaId)
    BY <1>2, <2>2, <2>3, <2>4 DEF TextHashed
  <2>6. CASE s.id \in WaId
    BY <1>2, <2>5, <2>6 DEF Said
  <2>7. CASE s.id \notin WaId
    <3>1. s.at = s.id.at /\ s.text = s.id.text
      BY <1>2, <2>4, <2>7 DEF TextHashed
    <3> QED BY <1>2, <2>5, <2>7, <3>1 DEF Said
  <2> QED BY <2>6, <2>7
<1>3. HashedInv => DeletedContentStaysOut
  BY <1>1, <1>2 DEF DeletedContentStaysOut
<1> QED BY <1>3, HashedInit, HashedStep, PTL DEF Spec
-------------------------------------------------------------------------------
(* OneReactionPerSide.                                                     *)

OneSlot(r) == \A x, y \in r.reactions : x.from = y.from => x = y

SlotInv == UniqueInv /\ \A r \in Table : OneSlot(r)

LEMMA SlotInit == Init => SlotInv
BY UniqueInit DEF Init, SlotInv, Table, NoTx

\* A reaction event rebuilds the array without the slots of its own side; every
\* other event leaves the array alone.
LEMMA ApplySlots ==
  ASSUME NEW S \in SUBSET Row, NEW e \in Event, Distinct(S), \A r \in S : OneSlot(r)
  PROVE  \A r \in Apply(S, e) : OneSlot(r)
<1>1. CASE e \in Ingested
  <2>1. OneSlot(LiveRow(e))
    BY DEF OneSlot, LiveRow
  <2> QED BY <1>1, <2>1, ApplyInserts
<1>2. CASE e \in Updated
  <2>1. \A r \in MarkMessageEdited(S, e.id, e.text) : \E s \in S : r.reactions = s.reactions
    BY DEF MarkMessageEdited, Row
  <2>2. Apply(S, e) = S \/ Apply(S, e) = MarkMessageEdited(S, e.id, e.text)
    BY <1>2 DEF Apply, Updated
  <2> QED BY <2>1, <2>2 DEF OneSlot
<1>3. CASE e \in Deleted
  <2>1. \A r \in MarkMessageDeleted(S, e.id) : \E s \in S : r.reactions = s.reactions
    BY DEF MarkMessageDeleted, Row
  <2>2. Apply(S, e) = MarkMessageDeleted(S, e.id)
    BY <1>3 DEF Apply, Deleted
  <2> QED BY <2>1, <2>2 DEF OneSlot
<1>4. CASE e \in Reacted
  <2> DEFINE slot == IF e.emoji = NoEmoji THEN {} ELSE {[from |-> e.from, emoji |-> e.emoji]}
             f(r) == IF r.id = e.id
                       THEN [r EXCEPT !.reactions = {x \in @ : x.from # e.from} \cup slot]
                       ELSE r
  <2>1. \A x, y \in slot : x = y /\ x.from = e.from
    OBVIOUS
  <2>2. Apply(S, e) = {f(r) : r \in S}
    BY <1>4 DEF Apply, Reacted, ApplyReaction
  <2> HIDE DEF slot
  <2>3. ASSUME NEW r \in S PROVE OneSlot(f(r))
    <3>1. CASE r.id = e.id
      <4>1. f(r).reactions = {x \in r.reactions : x.from # e.from} \cup slot
        BY <3>1 DEF Row
      <4> QED BY <2>1, <4>1 DEF OneSlot
    <3>2. CASE r.id # e.id
      BY <3>2
    <3> QED BY <3>1, <3>2
  <2> HIDE DEF f
  <2> QED BY <2>2, <2>3
<1> QED BY <1>1, <1>2, <1>3, <1>4 DEF Event

LEMMA SlotStep ==
  ASSUME SlotInv, [Next]_vars
  PROVE  SlotInv'
<1>t. UniqueInv /\ UniqueInv' /\ TypeOK /\ Distinct(rows)
  BY UniqueStep DEF SlotInv, UniqueInv, TypeInv
<1> SUFFICES ASSUME NEW r \in Table' PROVE OneSlot(r)
  BY <1>t DEF SlotInv, OneSlot
<1>1. CASE r \in Table
  BY <1>1 DEF SlotInv
<1>2. ASSUME NEW e \in wire, Deliver(e) PROVE OneSlot(r)
  <2>1. e \in Event /\ tx' = tx /\ rows' = Apply(rows, e) /\ rows \in SUBSET Row
    BY <1>2, <1>t DEF Deliver, TypeOK
  <2>2. \A s \in rows : OneSlot(s)
    BY DEF SlotInv, Table
  <2>3. \A s \in rows' : OneSlot(s)
    BY <1>t, <2>1, <2>2, ApplySlots
  <2> QED BY <1>1, <2>1, <2>3 DEF Table
<1>3. ASSUME NEW l \in tx.todo, ImportLine(l) PROVE OneSlot(r)
  <2>1. tx \in Txs
    BY <1>t DEF TypeOK
  <2>2. rows' = rows /\ tx'.added \subseteq tx.added \cup {ImportRow(l, tx.selfKnown)}
    BY <1>3, <2>1 DEF ImportLine, Txs
  <2>3. OneSlot(ImportRow(l, tx.selfKnown))
    BY DEF ImportRow, OneSlot
  <2> QED BY <1>1, <2>2, <2>3 DEF Table
<1>4. ASSUME NEW p \in fill, HashfillWrite(p) PROVE OneSlot(r)
  <2>1. tx' = tx /\ (r \in rows' => \E s \in rows : r = s \/ r = [s EXCEPT !.hash = p.hash])
    BY <1>4 DEF HashfillWrite, FillHash
  <2>2. ASSUME NEW s \in rows, r = [s EXCEPT !.hash = p.hash] PROVE OneSlot(r)
    <3>1. r.reactions = s.reactions
      BY <1>t, <2>2 DEF TypeOK, Row
    <3> QED BY <3>1 DEF SlotInv, OneSlot, Table
  <2> QED BY <1>1, <2>1, <2>2 DEF Table
<1> QED BY <1>1, <1>2, <1>3, <1>4, TableStep

\* However reactions and removals of both sides are ordered, each side has one slot.
THEOREM OneSlotPerSide == Spec => []OneReactionPerSide
<1>1. SlotInv => OneReactionPerSide
  BY DEF SlotInv, OneSlot, Table, OneReactionPerSide
<1> QED BY <1>1, SlotInit, SlotStep, PTL DEF Spec

-------------------------------------------------------------------------------
(* RecognisedViewOnceNotStored.                                            *)

\* What is under way for a recognised view-once message says so, unless it is the empty copy
\* that could not be decrypted; such a message is never edited.
WireGuarded ==
  \A e \in wire : RecognisedViewOnce(phone[e.id]) =>
    /\ e \in Ingested => e.viewOnce \/ (e.type = "unknown" /\ e.text = NoText)
    /\ ~(e \in Updated /\ e.content)

SameWrap(w) ==
  /\ phone'[w].viewOnce = phone[w].viewOnce
  /\ phone'[w].ephemeral = phone[w].ephemeral

ViewInv == FaithfulInv /\ WireGuarded /\ RecognisedViewOnceNotStored

LEMMA ViewInit == Init => ViewInv
BY FaithfulInit DEF Init, ViewInv, WireGuarded, RecognisedViewOnceNotStored

LEMMA ViewPhone ==
  ASSUME FaithfulInv, WireGuarded, PhoneStep
  PROVE  /\ WireGuarded'
         /\ \A w \in WaId : phone[w] # Unsent => SameWrap(w)
<1>t. TypeOK
  BY DEF FaithfulInv, FillInv, UniqueInv, TypeInv
<1> PICK w \in WaId :
      \/ \E m \in Sendable : Send(w, m)
      \/ \E t \in Text : EditOnPhone(w, t)
      \/ RevokeOnPhone(w)
      \/ Receipt(w)
      \/ \E from \in Side, emoji \in Emoji \cup {NoEmoji} : ReactOnPhone(w, from, emoji)
      \/ Redeliver(w)
  BY DEF PhoneStep
<1>1. \A v \in WaId : phone[v] # Unsent => SameWrap(v)
  <2>1. phone \in [WaId -> OnPhone \cup {Unsent}]
    BY <1>t DEF TypeOK
  <2>2. ASSUME NEW m \in Sendable, Send(w, m)
        PROVE  \A v \in WaId : phone[v] # Unsent => phone'[v] = phone[v]
    BY <2>1, <2>2 DEF Send
  <2>3. ASSUME NEW t \in Text, EditOnPhone(w, t)
        PROVE  \A v \in WaId : phone[v] # Unsent => SameWrap(v)
    <3>1. phone[w] \in OnPhone
      BY <2>1, <2>3 DEF EditOnPhone, Live
    <3>2. LET m == [phone[w] EXCEPT !.text = t, !.edited = TRUE]
          IN  m.viewOnce = phone[w].viewOnce /\ m.ephemeral = phone[w].ephemeral
      BY <3>1 DEF OnPhone
    <3>3. phone' = [phone EXCEPT ![w] = [phone[w] EXCEPT !.text = t, !.edited = TRUE]]
      BY <2>3 DEF EditOnPhone
    <3> QED BY <2>1, <3>2, <3>3 DEF SameWrap
  <2>4. CASE RevokeOnPhone(w)
    <3>1. phone[w] \in OnPhone
      BY <2>1, <2>4 DEF RevokeOnPhone, Live
    <3>2. LET m == [phone[w] EXCEPT !.revoked = TRUE]
          IN  m.viewOnce = phone[w].viewOnce /\ m.ephemeral = phone[w].ephemeral
      BY <3>1 DEF OnPhone
    <3>3. phone' = [phone EXCEPT ![w] = [phone[w] EXCEPT !.revoked = TRUE]]
      BY <2>4 DEF RevokeOnPhone
    <3> QED BY <2>1, <3>2, <3>3 DEF SameWrap
  <2>5. UNCHANGED phone => \A v \in WaId : SameWrap(v)
    BY DEF SameWrap
  <2> QED BY <2>2, <2>3, <2>4, <2>5 DEF SameWrap, Receipt, ReactOnPhone, Redeliver
<1>2. \A e \in wire : phone[e.id] # Unsent /\ e.id \in WaId
  BY <1>t DEF FaithfulInv, WireFaithful, EventFaithful, TypeOK, Event, Ingested, Updated,
              Deleted, Reacted
<1> DEFINE Guarded(e) ==
             RecognisedViewOnce(phone'[e.id]) =>
               /\ e \in Ingested => e.viewOnce \/ (e.type = "unknown" /\ e.text = NoText)
               /\ ~(e \in Updated /\ e.content)
<1>3. \A e \in wire : Guarded(e)
  BY <1>1, <1>2 DEF WireGuarded, SameWrap, RecognisedViewOnce
<1>4. ASSUME NEW e \in wire' \ wire PROVE Guarded(e)
  <2>1. ASSUME NEW m \in Sendable, Send(w, m) PROVE Guarded(e)
    <3>1. e \in {Normalized(w, m), Undecrypted(w, m)}
      BY <2>1 DEF Send, Publish
    <3>2. RecognisedViewOnce(phone'[w]) = RecognisedViewOnce(m)
      BY <2>1, <1>t DEF Send, TypeOK, RecognisedViewOnce
    <3> QED BY <3>1, <3>2 DEF Normalized, Undecrypted, Updated
  <2>2. ASSUME NEW t \in Text, EditOnPhone(w, t) PROVE Guarded(e)
    <3>1. e.id = w /\ ~phone[w].viewOnce /\ phone[w] # Unsent
      BY <2>2 DEF EditOnPhone, Publish, Live
    <3> QED BY <1>1, <3>1 DEF SameWrap, RecognisedViewOnce
  <2>3. CASE RevokeOnPhone(w) \/ Receipt(w)
    <3>1. /\ e.kind # "ingested"
          /\ e.kind = "updated" => ~e.content
      BY <2>3 DEF RevokeOnPhone, Receipt, Publish
    <3> QED BY <3>1 DEF Ingested, Updated
  <2>4. ASSUME NEW from \in Side, NEW emoji \in Emoji \cup {NoEmoji},
               ReactOnPhone(w, from, emoji)
        PROVE  Guarded(e)
    <3>1. e.kind = "reaction"
      BY <2>4 DEF ReactOnPhone, Publish
    <3> QED BY <3>1 DEF Ingested, Updated
  <2>5. CASE Redeliver(w)
    <3>1. e = Normalized(w, phone[w]) /\ phone' = phone
      BY <2>5 DEF Redeliver, Publish
    <3> QED BY <3>1 DEF Normalized, Updated
  <2> QED BY <2>1, <2>2, <2>3, <2>4, <2>5
<1> QED BY <1>1, <1>3, <1>4 DEF WireGuarded

LEMMA ViewStep ==
  ASSUME ViewInv, [Next]_vars
  PROVE  ViewInv'
<1>t. FaithfulInv /\ FaithfulInv' /\ TypeOK /\ Distinct(rows)
  BY FaithfulStep DEF ViewInv, FaithfulInv, FillInv, UniqueInv, TypeInv
<1>1. CASE PhoneStep
  <2>1. /\ WireGuarded' /\ rows' = rows
        /\ \A w \in WaId : phone[w] # Unsent => SameWrap(w)
    BY <1>1, <1>t, ViewPhone
    DEF ViewInv, PhoneStep, Send, EditOnPhone, RevokeOnPhone, Receipt, ReactOnPhone, Redeliver
  <2>2. \A r \in rows : r.id \in WaId => phone[r.id] # Unsent
    BY <1>t DEF FaithfulInv, RowsFaithful, RowFaithful
  <2> QED BY <1>t, <2>1, <2>2 DEF ViewInv, RecognisedViewOnceNotStored, SameWrap,
                                 RecognisedViewOnce
<1>2. CASE ~PhoneStep
  <2>1. phone' = phone /\ wire' \subseteq wire
    BY <1>2 DEF Next, vars, Deliver, Lose, ImportStep, TakeExport, ImportBegin, ImportLine,
                ImportCommit, ImportRollback, HashfillStep, HashfillRead, HashfillWrite,
                HashfillAbort
  <2>2. WireGuarded'
    BY <2>1 DEF ViewInv, WireGuarded
  <2>3. ASSUME NEW r \in rows', r.id \in WaId, RecognisedViewOnce(phone[r.id])
        PROVE  EmptyUnknown(r)
    <3>1. CASE r \in rows
      BY <2>3, <3>1 DEF ViewInv, RecognisedViewOnceNotStored
    <3>2. ASSUME NEW e \in wire, Deliver(e)
          PROVE  EmptyUnknown(r)
      <4>1. e \in Event /\ rows' = Apply(rows, e)
        BY <1>t, <3>2 DEF Deliver, TypeOK
      <4>2. CASE e \in Ingested
        <5>1. r \in rows \/ (r = LiveRow(e) /\ ~Skipped(e))
          BY <1>t, <4>1, <4>2, ApplyInserts DEF TypeOK
        <5>2. r = LiveRow(e) => r.id = e.id /\ r.type = e.type /\ r.text = e.text
          BY DEF LiveRow
        <5> QED BY <2>3, <3>1, <4>2, <5>1, <5>2 DEF ViewInv, WireGuarded, Skipped, EmptyUnknown
      <4>3. CASE e \notin Ingested
        <5>1. PICK s \in rows : Kept(e, s, r)
          BY <1>t, <4>1, <4>3, ApplyKeeps DEF TypeOK, KeptAll
        <5>2. EmptyUnknown(s)
          BY <2>3, <5>1 DEF ViewInv, RecognisedViewOnceNotStored, Kept, EmptyUnknown
        <5>3. ~Edits(e, r)
          BY <2>3 DEF ViewInv, WireGuarded, Edits
        <5> QED BY <5>1, <5>2, <5>3 DEF Kept, EmptyUnknown
      <4> QED BY <4>2, <4>3
    <3>3. CASE ImportCommit
      BY <2>3, <3>1, <3>3, <1>t, IdsApart DEF ImportCommit, FaithfulInv
    <3>4. ASSUME NEW p \in fill, HashfillWrite(p)
          PROVE  EmptyUnknown(r)
      <4>1. PICK s \in rows : r = s \/ r = [s EXCEPT !.hash = p.hash]
        BY <3>4 DEF HashfillWrite, FillHash
      <4>2. r.id = s.id /\ r.type = s.type /\ r.text = s.text
        BY <1>t, <4>1 DEF TypeOK, Row
      <4> QED BY <2>3, <4>2 DEF ViewInv, RecognisedViewOnceNotStored, EmptyUnknown
    <3>5. CASE UNCHANGED rows
      BY <3>1, <3>5
    <3> QED
      BY <1>2, <3>2, <3>3, <3>4, <3>5
      DEF Next, vars, Lose, ImportStep, TakeExport, ImportBegin, ImportLine,
          ImportRollback, HashfillStep, HashfillRead, HashfillAbort
  <2> QED BY <1>t, <2>1, <2>2, <2>3 DEF ViewInv, RecognisedViewOnceNotStored
<1> QED BY <1>1, <1>2

\* Nothing readable of a view-once message is stored, whatever copies of it come, if the
\* connector recognises it: if it is not inside an ephemeralMessage.
THEOREM RecognisedViewOnceStaysOut == Spec => []RecognisedViewOnceNotStored
<1>1. ViewInv => RecognisedViewOnceNotStored
  BY DEF ViewInv
<1> QED BY <1>1, ViewInit, ViewStep, PTL DEF Spec
-------------------------------------------------------------------------------
(* IndependentEventsCommute.                                               *)

\* What an event other than a new message makes of one row.
Rewrite(e, r) ==
  IF r.id # e.id THEN r
  ELSE CASE e.kind = "updated" ->
              IF e.content
                THEN [r EXCEPT !.text = IF e.text = NoText THEN @ ELSE e.text, !.edited = TRUE]
                ELSE r
         [] e.kind = "deleted" -> [r EXCEPT !.deleted = TRUE, !.text = NoText]
         [] e.kind = "reaction" ->
              [r EXCEPT !.reactions =
                 {x \in @ : x.from # e.from} \cup
                 (IF e.emoji = NoEmoji THEN {} ELSE {[from |-> e.from, emoji |-> e.emoji]})]

LEMMA ApplyRewrites ==
  ASSUME NEW S, NEW e \in Event, e \notin Ingested
  PROVE  Apply(S, e) = {Rewrite(e, r) : r \in S}
<1>1. CASE e \in Updated
  <2>1. CASE e.content
    <3> DEFINE f(r) ==
                 IF r.id = e.id
                   THEN [r EXCEPT !.text = IF e.text = NoText THEN @ ELSE e.text,
                                  !.edited = TRUE]
                   ELSE r
    <3>1. \A r \in S : Rewrite(e, r) = f(r)
      BY <1>1, <2>1 DEF Rewrite, Updated
    <3>2. Apply(S, e) = {f(r) : r \in S}
      BY <1>1, <2>1 DEF Apply, Updated, MarkMessageEdited
    <3> HIDE DEF f
    <3> QED BY <3>1, <3>2
  <2>2. CASE ~e.content
    BY <1>1, <2>2 DEF Apply, Rewrite, Updated
  <2> QED BY <2>1, <2>2
<1>2. CASE e \in Deleted
  <2> DEFINE f(r) ==
               IF r.id = e.id THEN [r EXCEPT !.deleted = TRUE, !.text = NoText] ELSE r
  <2>1. \A r \in S : Rewrite(e, r) = f(r)
    BY <1>2 DEF Rewrite, Deleted
  <2>2. Apply(S, e) = {f(r) : r \in S}
    BY <1>2 DEF Apply, Deleted, MarkMessageDeleted
  <2> HIDE DEF f
  <2> QED BY <2>1, <2>2
<1>3. CASE e \in Reacted
  <2> DEFINE f(r) ==
               IF r.id = e.id
                 THEN [r EXCEPT !.reactions =
                         {x \in @ : x.from # e.from} \cup
                         (IF e.emoji = NoEmoji THEN {}
                          ELSE {[from |-> e.from, emoji |-> e.emoji]})]
                 ELSE r
  <2>1. \A r \in S : Rewrite(e, r) = f(r)
    BY <1>3 DEF Rewrite, Reacted
  <2>2. Apply(S, e) = {f(r) : r \in S}
    BY <1>3 DEF Apply, Reacted, ApplyReaction
  <2> HIDE DEF f
  <2> QED BY <2>1, <2>2
<1> QED BY <1>1, <1>2, <1>3 DEF Event

\* What it makes of the columns it may write.
TextAfter(e, r) ==
  IF r.id # e.id THEN r.text
  ELSE IF e.kind = "deleted" THEN NoText
  ELSE IF e.kind = "updated" /\ e.content /\ e.text # NoText THEN e.text
  ELSE r.text
EditedAfter(e, r) ==
  IF r.id = e.id /\ e.kind = "updated" /\ e.content THEN TRUE ELSE r.edited
DeletedAfter(e, r) == IF r.id = e.id /\ e.kind = "deleted" THEN TRUE ELSE r.deleted
SlotsAfter(e, r) ==
  IF r.id = e.id /\ e.kind = "reaction"
    THEN {x \in r.reactions : x.from # e.from} \cup
         (IF e.emoji = NoEmoji THEN {} ELSE {[from |-> e.from, emoji |-> e.emoji]})
    ELSE r.reactions

\* A rewriting leaves the keys of a row alone and writes the columns above.
LEMMA RewriteColumns ==
  ASSUME NEW e \in Event, e \notin Ingested, NEW r \in Row
  PROVE  LET t == Rewrite(e, r) IN
           /\ t \in Row
           /\ t.id = r.id /\ t.at = r.at /\ t.side = r.side /\ t.type = r.type
           /\ t.hash = r.hash
           /\ t.text = TextAfter(e, r) /\ t.edited = EditedAfter(e, r)
           /\ t.deleted = DeletedAfter(e, r) /\ t.reactions = SlotsAfter(e, r)
<1> USE DEF TextAfter, EditedAfter, DeletedAfter, SlotsAfter
<1>1. CASE r.id # e.id
  BY <1>1 DEF Rewrite
<1>2. CASE r.id = e.id /\ e \in Updated
  <2>1. CASE e.content
    <3> DEFINE text == IF e.text = NoText THEN r.text ELSE e.text
    <3>1. text \in Words \cup {NoText} /\ e.kind = "updated"
      BY <1>2 DEF Updated, Words, Row
    <3>2. Rewrite(e, r) = [r EXCEPT !.text = text, !.edited = TRUE]
      BY <1>2, <2>1, <3>1 DEF Rewrite
    <3>3. TextAfter(e, r) = text
      BY <1>2, <2>1, <3>1
    <3> HIDE DEF text, TextAfter
    <3> QED BY <1>2, <2>1, <3>1, <3>2, <3>3 DEF Row
  <2>2. CASE ~e.content
    BY <1>2, <2>2 DEF Rewrite, Updated
  <2> QED BY <2>1, <2>2
<1>3. CASE r.id = e.id /\ e \in Deleted
  <2>1. Rewrite(e, r) = [r EXCEPT !.deleted = TRUE, !.text = NoText] /\ e.kind = "deleted"
    BY <1>3 DEF Rewrite, Deleted
  <2> QED BY <1>3, <2>1 DEF Row
<1>4. CASE r.id = e.id /\ e \in Reacted
  <2>1. e.kind = "reaction"
    BY <1>4 DEF Reacted
  <2>2. Rewrite(e, r) = [r EXCEPT !.reactions = SlotsAfter(e, r)]
    BY <1>4, <2>1 DEF Rewrite
  <2>3. SlotsAfter(e, r) \in SUBSET Reaction
    BY <1>4 DEF Row, Reaction, Reacted
  <2> HIDE DEF SlotsAfter
  <2> QED BY <1>4, <2>1, <2>2, <2>3 DEF Row
<1> QED BY <1>1, <1>2, <1>3, <1>4 DEF Event

LEMMA SameRow ==
  ASSUME NEW r \in Row, NEW s \in Row,
         r.id = s.id, r.at = s.at, r.side = s.side, r.type = s.type, r.hash = s.hash,
         r.text = s.text, r.edited = s.edited, r.deleted = s.deleted,
         r.reactions = s.reactions
  PROVE  r = s
BY DEF Row

\* Rewritings commute when they concern different rows or write different columns.
LEMMA RewritesCommute ==
  ASSUME NEW e \in Event, e \notin Ingested, NEW f \in Event, f \notin Ingested,
         Independent(e, f), NEW r \in Row
  PROVE  Rewrite(f, Rewrite(e, r)) = Rewrite(e, Rewrite(f, r))
<1> DEFINE a == Rewrite(e, r)
           b == Rewrite(f, r)
<1>1. /\ a \in Row /\ a.id = r.id /\ a.text = TextAfter(e, r)
      /\ a.edited = EditedAfter(e, r) /\ a.deleted = DeletedAfter(e, r)
      /\ a.reactions = SlotsAfter(e, r)
  BY RewriteColumns
<1>2. /\ b \in Row /\ b.id = r.id /\ b.text = TextAfter(f, r)
      /\ b.edited = EditedAfter(f, r) /\ b.deleted = DeletedAfter(f, r)
      /\ b.reactions = SlotsAfter(f, r)
  BY RewriteColumns
<1>3. /\ a.at = b.at /\ a.side = b.side /\ a.type = b.type /\ a.hash = b.hash
  BY RewriteColumns
<1> HIDE DEF a, b
<1>4. r.id = e.id /\ r.id = f.id => Writes(e) \cap Writes(f) = {}
  BY DEF Independent
<1>5. e.kind \in {"updated", "deleted", "reaction"} /\ f.kind \in {"updated", "deleted", "reaction"}
  BY DEF Event, Updated, Deleted, Reacted
<1>6. TextAfter(f, a) = TextAfter(e, b)
  BY <1>1, <1>2, <1>4, <1>5 DEF TextAfter, Writes
<1>7. EditedAfter(f, a) = EditedAfter(e, b)
  BY <1>1, <1>2 DEF EditedAfter
<1>8. DeletedAfter(f, a) = DeletedAfter(e, b)
  BY <1>1, <1>2 DEF DeletedAfter
<1>9. SlotsAfter(f, a) = SlotsAfter(e, b)
  <2>1. r.id = e.id /\ r.id = f.id /\ e.kind = "reaction" /\ f.kind = "reaction" =>
          e.from # f.from
    BY <1>4 DEF Writes
  <2> DEFINE put(g) == IF g.emoji = NoEmoji THEN {} ELSE {[from |-> g.from, emoji |-> g.emoji]}
             clear(g, set) == {x \in set : x.from # g.from}
  <2>2. \A g, q : SlotsAfter(g, q) =
          IF q.id = g.id /\ g.kind = "reaction"
            THEN clear(g, q.reactions) \cup put(g) ELSE q.reactions
    BY DEF SlotsAfter
  <2>3. \A g : \A x \in put(g) : x.from = g.from
    OBVIOUS
  <2> HIDE DEF put
  <2>4. e.from # f.from =>
          clear(f, clear(e, r.reactions) \cup put(e)) \cup put(f)
            = clear(e, clear(f, r.reactions) \cup put(f)) \cup put(e)
    BY <2>3
  <2> HIDE DEF clear
  <2> QED BY <1>1, <1>2, <2>1, <2>2, <2>4
<1>10. LET t == Rewrite(f, a) IN
         /\ t \in Row
         /\ t.id = a.id /\ t.at = a.at /\ t.side = a.side /\ t.type = a.type
         /\ t.hash = a.hash
         /\ t.text = TextAfter(f, a) /\ t.edited = EditedAfter(f, a)
         /\ t.deleted = DeletedAfter(f, a) /\ t.reactions = SlotsAfter(f, a)
  BY <1>1, RewriteColumns
<1>11. LET t == Rewrite(e, b) IN
         /\ t \in Row
         /\ t.id = b.id /\ t.at = b.at /\ t.side = b.side /\ t.type = b.type
         /\ t.hash = b.hash
         /\ t.text = TextAfter(e, b) /\ t.edited = EditedAfter(e, b)
         /\ t.deleted = DeletedAfter(e, b) /\ t.reactions = SlotsAfter(e, b)
  BY <1>2, RewriteColumns
<1>12. Rewrite(f, a) = Rewrite(e, b)
  BY <1>1, <1>2, <1>3, <1>6, <1>7, <1>8, <1>9, <1>10, <1>11, SameRow
<1> QED BY <1>12 DEF a, b

\* A new message commutes with a rewriting of another row, and with a new message
\* that has neither its id nor its content.
LEMMA InsertCommutes ==
  ASSUME NEW S \in SUBSET Row, NEW e \in Ingested, NEW f \in Event, Independent(e, f)
  PROVE  Apply(Apply(S, e), f) = Apply(Apply(S, f), e)
<1> DEFINE row == LiveRow(e)
<1>1. e.id # f.id
  BY DEF Independent, Writes, Ingested
<1>2. \A T : Apply(T, e) = IF Skipped(e) \/ Conflicts(T, row) THEN T ELSE T \cup {row}
  BY DEF Apply, Ingested, SaveLiveMessage, Insert
<1>3. row.id = e.id /\ row.hash = ContentHash(e.at, e.side, e.text) /\ e \in Event
  BY DEF LiveRow, Event
<1>4. CASE f \notin Ingested
  <2>1. \A T : Apply(T, f) = {Rewrite(f, r) : r \in T}
    BY <1>4, ApplyRewrites
  <2>2. Rewrite(f, row) = row
    BY <1>1, <1>3 DEF Rewrite
  <2>3. Conflicts(Apply(S, f), row) <=> Conflicts(S, row)
    <3>1. \A r \in S : Rewrite(f, r).id = r.id /\ Rewrite(f, r).hash = r.hash
      BY <1>4, RewriteColumns
    <3> HIDE DEF row
    <3> QED BY <2>1, <3>1 DEF Conflicts
  <2> HIDE DEF row
  <2>4. Apply(S \cup {row}, f) = Apply(S, f) \cup {row}
    BY <2>1, <2>2
  <2>5. CASE Skipped(e) \/ Conflicts(S, row)
    BY <1>2, <2>3, <2>5
  <2>6. CASE ~(Skipped(e) \/ Conflicts(S, row))
    BY <1>2, <2>3, <2>4, <2>6
  <2> QED BY <2>5, <2>6
<1>5. CASE f \in Ingested
  <2> DEFINE other == LiveRow(f)
  <2>1. \A T : Apply(T, f) = IF Skipped(f) \/ Conflicts(T, other) THEN T ELSE T \cup {other}
    BY <1>5 DEF Apply, Ingested, SaveLiveMessage, Insert
  <2>2. other.id = f.id /\ other.hash = ContentHash(f.at, f.side, f.text)
    BY DEF LiveRow
  <2>3. ~SameContent(e, f)
    BY <1>1 DEF Independent
  <2>4. <<e.at, e.side, e.text>> # <<f.at, f.side, f.text>>
    BY <1>5, <2>3 DEF SameContent, Ingested
  <2>5. ~(row.hash # NoHash /\ other.hash = row.hash)
        /\ ~(other.hash # NoHash /\ row.hash = other.hash)
    BY <1>3, <2>2, <2>4 DEF ContentHash
  <2> HIDE DEF row, other
  <2>6. \A T : /\ Conflicts(T \cup {row}, other) <=> Conflicts(T, other)
               /\ Conflicts(T \cup {other}, row) <=> Conflicts(T, row)
    BY <1>1, <1>3, <2>2, <2>5 DEF Conflicts
  <2> DEFINE out == Skipped(e) \/ Conflicts(S, row)
             fout == Skipped(f) \/ Conflicts(S, other)
  <2>7. CASE out /\ fout
    BY <1>2, <2>1, <2>7
  <2>8. CASE out /\ ~fout
    BY <1>2, <2>1, <2>6, <2>8
  <2>9. CASE ~out /\ fout
    BY <1>2, <2>1, <2>6, <2>9
  <2>10. CASE ~out /\ ~fout
    <3>1. Apply(S, e) = S \cup {row} /\ Apply(S, f) = S \cup {other}
      BY <1>2, <2>1, <2>10
    <3>2. Apply(S \cup {row}, f) = S \cup {row} \cup {other}
      BY <2>1, <2>6, <2>10
    <3>3. Apply(S \cup {other}, e) = S \cup {other} \cup {row}
      BY <1>2, <2>6, <2>10
    <3> QED BY <3>1, <3>2, <3>3
  <2> QED BY <2>7, <2>8, <2>9, <2>10
<1> QED BY <1>4, <1>5

\* The order in which independent events are answered never shows in the table.
THEOREM IndependentOrderFree == Spec => []IndependentEventsCommute
<1>1. ASSUME TypeOK, NEW e \in wire, NEW f \in wire, Independent(e, f)
      PROVE  Apply(Apply(rows, e), f) = Apply(Apply(rows, f), e)
  <2>1. e \in Event /\ f \in Event /\ rows \in SUBSET Row /\ Independent(f, e)
    BY <1>1 DEF TypeOK, Independent, SameContent
  <2>2. CASE e \notin Ingested /\ f \notin Ingested
    <3>1. \A S : Apply(S, e) = {Rewrite(e, r) : r \in S}
      BY <2>1, <2>2, ApplyRewrites
    <3>2. \A S : Apply(S, f) = {Rewrite(f, r) : r \in S}
      BY <2>1, <2>2, ApplyRewrites
    <3>3. \A r \in rows : Rewrite(f, Rewrite(e, r)) = Rewrite(e, Rewrite(f, r))
      BY <1>1, <2>1, <2>2, RewritesCommute
    <3>4. Apply(Apply(rows, e), f) = {Rewrite(f, Rewrite(e, r)) : r \in rows}
      BY <3>1, <3>2
    <3>5. Apply(Apply(rows, f), e) = {Rewrite(e, Rewrite(f, r)) : r \in rows}
      BY <3>1, <3>2
    <3> QED BY <3>3, <3>4, <3>5
  <2> QED BY <1>1, <2>1, <2>2, InsertCommutes
<1>2. TypeOK => IndependentEventsCommute
  BY <1>1 DEF IndependentEventsCommute
<1> QED BY <1>2, TypeCorrect, PTL
===============================================================================
