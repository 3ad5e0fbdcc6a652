------------------------------ MODULE Directory ------------------------------
(***************************************************************************)
(* The list of conversations the owner chooses from: how the connector      *)
(* collects it (contacts.js), pairs LID addresses with numbers (lidmap.js), *)
(* sends it to the backend and keeps it on disk (index.js pollLoop,         *)
(* saveDirectory, loadDirectory, main), and what an unlinking leaves of it  *)
(* (index.js clearAuth, wa/state.go SetStatus).                             *)
(*                                                                         *)
(* What WhatsApp tells arrives between any two steps of the poll loop; so   *)
(* does the end of the link.  A name is its length, for that is what the    *)
(* code compares; 0 is no name, and at time 0 there is no time.             *)
(***************************************************************************)
EXTENDS Naturals, FiniteSets

CONSTANTS
  Person,         \* numbers of one-to-one chats
  Lid,            \* LID addresses
  NoPerson,       \* what an unpaired LID resolves to
  Time,           \* times of the last message, bound
  Name,           \* lengths of names, bound
  Order,          \* by which chats of the same time are sorted: theirs in the Map
  MaxCandidates,  \* MAX_CANDIDATES
  MaxLinks,       \* bound: times a device is linked
  MaxTold,        \* bound: things WhatsApp tells
  MaxFaults       \* bound: requests and writes that fail, processes that restart

ASSUME DirectoryAssumption ==
  /\ NoPerson \notin Person
  /\ IsFiniteSet(Person) /\ IsFiniteSet(Lid)
  /\ Time \subseteq Nat /\ 0 \in Time
  /\ Name \subseteq Nat /\ 0 \in Name
  /\ Order \in [Person -> Nat]
  /\ \A p, q \in Person : Order[p] = Order[q] => p = q
  /\ MaxCandidates \in Nat
  /\ MaxLinks \in Nat /\ MaxTold \in Nat /\ MaxFaults \in Nat

VARIABLES
  link,        \* WhatsApp: whether the device is linked and connected
  links,       \* devices linked so far
  told,        \* things WhatsApp told so far
  faults,      \* failures and restarts so far
  auth,        \* whether there are credentials on disk
  dir,         \* connector: the directory
  dirty,       \* connector: the directory changed since it was last sent
  lids,        \* connector: byLid of the LID map
  savedLids,   \* connector: lastSavedLidSize
  loop,        \* connector: where the poll loop is
  sent,        \* the list being published
  image,       \* what writeFile is writing
  closing,     \* connector: where the handler of a logged out socket is
  disk,        \* the directory file
  candidates,  \* backend: candidates
  forgotten,   \* history: a logout was reported and no device linked since
  missed,      \* history: a list, or what a process knew of it, was lost since the last arrived
  unsaved      \* history: a save failed, or the file was lost, since the last that succeeded

memory == <<dir, dirty, lids, savedLids>>
whatsapp == <<link, links, told, auth>>
vars == <<whatsapp, faults, memory, loop, sent, image, closing, disk, candidates,
          forgotten, missed, unsaved>>

Empty == [chats |-> {}, title |-> [p \in Person |-> 0],
          lastAt |-> [p \in Person |-> 0], names |-> [p \in Person |-> 0]]
Unpaired == [l \in Lid |-> NoPerson]
NoFile == [dir |-> Empty, lids |-> Unpaired]
NoList == [p \in {} |-> 0]

Init ==
  /\ link = "out" /\ links = 0 /\ told = 0 /\ auth = FALSE
  /\ faults = 0
  /\ dir = Empty /\ dirty = FALSE
  /\ lids = Unpaired /\ savedLids = 0
  /\ loop = "waiting"
  /\ sent = NoList /\ image = NoFile
  /\ closing = "no"
  /\ disk = NoFile
  /\ candidates = NoList
  /\ forgotten = FALSE /\ missed = FALSE /\ unsaved = FALSE

-------------------------------------------------------------------------------
(* The directory (contacts.js) and the LID map (lidmap.js).  A ...Variant is  *)
(* what a plausible mistake would make of the definition after it.            *)

\* A longer name replaces a shorter one; without a chat it is only remembered.
NoteContact(d, p, n) == IF n > d.names[p] THEN [d EXCEPT !.names[p] = n] ELSE d

NewChatsOnlyVariant(d, e) == e.chats # d.chats

\* When the mutators set dirty.
Dirties(d, e) == e.chats # d.chats \/ \E p \in d.chats :
  e.title[p] # d.title[p] \/ e.lastAt[p] # d.lastAt[p] \/ e.names[p] # d.names[p]

\* A new chat takes what it is given, a known one a later time and its first name.
NoteChat(d, p, t, n) ==
  LET new == p \notin d.chats IN
  [d EXCEPT !.chats = @ \cup {p},
            !.lastAt[p] = IF new \/ t > @ THEN t ELSE @,
            !.title[p] = IF new \/ @ = 0 THEN n ELSE @]

Note(m, p, l) == [m EXCEPT ![l] = p]

Paired(m) == {l \in Lid : m[l] # NoPerson}
Size(m) == Cardinality(Paired(m))
HasPhone(m, p) == \E l \in Lid : m[l] = p

\* Sorted by time, the latest first.  The order in the Map, which decides a tie, is that
\* of insertion; here it is the same in every run of the connector.
Ahead(d, q, p) ==
  \/ d.lastAt[q] > d.lastAt[p]
  \/ d.lastAt[q] = d.lastAt[p] /\ Order[q] < Order[p]

\* The first MaxCandidates of them.
Latest(d) ==
  {p \in d.chats : Cardinality({q \in d.chats : Ahead(d, q, p)}) < MaxCandidates}

AllChatsVariant(d) == [p \in d.chats |->
  [name |-> IF d.title[p] # 0 THEN d.title[p] ELSE d.names[p], lastAt |-> d.lastAt[p]]]

Snapshot(d) == [p \in Latest(d) |->
  [name |-> IF d.title[p] # 0 THEN d.title[p] ELSE d.names[p], lastAt |-> d.lastAt[p]]]

\* toJSON: names of people without a chat are not written.
Saved(d, m) ==
  [dir |-> [d EXCEPT !.names = [p \in Person |-> IF p \in d.chats THEN @[p] ELSE 0]],
   lids |-> m]

\* loadDirectory and loadFrom, into what was empty.
Loaded(file) ==
  /\ dir' = file.dir /\ lids' = file.lids
  /\ savedLids' = Size(file.lids)

-------------------------------------------------------------------------------
(* What WhatsApp tells (index.js, the handlers of startSocket).               *)

Fault == faults < MaxFaults /\ faults' = faults + 1

Told(d) ==
  /\ dir' = d
  /\ dirty' = (dirty \/ Dirties(dir, d))
  /\ told < MaxTold /\ told' = told + 1
  /\ UNCHANGED <<link, links, auth, faults, savedLids, loop, sent, image, closing, disk, candidates,
                 forgotten, missed, unsaved>>

\* messaging-history.set, contacts.upsert, contacts.update: a contact with both
\* addresses teaches a pairing.
ContactTold(p, n) ==
  /\ link = "open"
  /\ \/ UNCHANGED lids
     \/ \E l \in Lid : lids' = Note(lids, p, l)
  /\ Told(NoteContact(dir, p, n))

\* messaging-history.set, chats.upsert, chats.update.
ChatTold(p, t, n) ==
  /\ link = "open"
  /\ Told(NoteChat(dir, p, t, n))
  /\ UNCHANGED lids

\* messages.upsert with a message in a LID-addressed chat: an incoming one that names
\* the sender's number teaches the pairing, and only a paired chat is noted.  One in a
\* plain chat does what ChatTold does.
MessageTold(l, p, t, n) ==
  /\ link = "open"
  /\ \/ lids' = Note(lids, p, l)
     \/ lids[l] = p /\ UNCHANGED lids
  /\ Told(NoteChat(dir, p, t, n))

-------------------------------------------------------------------------------
(* The poll loop.                                                             *)

\* The answer of a poll has come.
PollPublishes ==
  /\ loop = "waiting" /\ dirty
  /\ dirty' = FALSE
  /\ sent' = Snapshot(dir)
  /\ loop' = "publishing"
  /\ UNCHANGED <<whatsapp, faults, dir, lids, savedLids, image, closing, disk, candidates,
                 forgotten, missed, unsaved>>

PollSavesLids ==
  /\ loop = "waiting" /\ ~dirty
  /\ Size(lids) # savedLids
  /\ loop' = "savingLids"
  /\ UNCHANGED <<whatsapp, faults, memory, sent, image, closing, disk, candidates,
                 forgotten, missed, unsaved>>

PollGoesOn ==
  /\ loop = "waiting" /\ ~dirty
  /\ Size(lids) = savedLids
  /\ loop' = "looking"
  /\ UNCHANGED <<whatsapp, faults, memory, sent, image, closing, disk, candidates,
                 forgotten, missed, unsaved>>

\* applyContactsEvent, SetCandidates.
PublishArrives ==
  /\ loop = "publishing"
  /\ candidates' = sent
  /\ missed' = FALSE
  /\ sent' = NoList
  /\ loop' = "saving"
  /\ UNCHANGED <<whatsapp, faults, memory, image, closing, disk, forgotten, unsaved>>

PublishLostVariant ==
  /\ Fault
  /\ loop = "publishing"
  /\ missed' = TRUE
  /\ sent' = NoList
  /\ loop' = "looking"
  /\ UNCHANGED <<whatsapp, memory, image, closing, disk, candidates, forgotten, unsaved>>

\* publish() reports a failure by its result, which nobody looks at.
PublishLost ==
  /\ Fault
  /\ loop = "publishing"
  /\ missed' = TRUE
  /\ sent' = NoList
  /\ loop' = "saving"
  /\ UNCHANGED <<whatsapp, memory, image, closing, disk, candidates, forgotten, unsaved>>

WriteBeginsVariant ==
  /\ loop \in {"saving", "savingLids"}
  /\ image' = Saved(dir, lids)
  /\ disk' = NoFile
  /\ dirty' = FALSE
  /\ loop' = IF loop = "saving" THEN "writing" ELSE "writingLids"
  /\ UNCHANGED <<whatsapp, faults, dir, lids, savedLids, sent, closing, candidates,
                 forgotten, missed, unsaved>>

\* writeFile empties the file and then fills it.
WriteBegins ==
  /\ loop \in {"saving", "savingLids"}
  /\ image' = Saved(dir, lids)
  /\ disk' = NoFile
  /\ loop' = IF loop = "saving" THEN "writing" ELSE "writingLids"
  /\ UNCHANGED <<whatsapp, faults, memory, sent, closing, candidates, forgotten, missed, unsaved>>

SavedSizeAfter == IF loop = "writingLids" THEN Size(lids) ELSE savedLids

WriteEnds ==
  /\ loop \in {"writing", "writingLids"}
  /\ disk' = image
  /\ savedLids' = SavedSizeAfter
  /\ unsaved' = (unsaved /\ image = NoFile)
  /\ image' = NoFile
  /\ loop' = "looking"
  /\ UNCHANGED <<whatsapp, faults, dir, dirty, lids, sent, closing, candidates,
                 forgotten, missed>>

\* A failure is logged; the loop goes on as if the file had been written.
WriteFails ==
  /\ Fault
  /\ loop \in {"writing", "writingLids"}
  /\ savedLids' = SavedSizeAfter
  /\ unsaved' = TRUE
  /\ image' = NoFile
  /\ loop' = "looking"
  /\ UNCHANGED <<whatsapp, dir, dirty, lids, sent, closing, disk, candidates,
                 forgotten, missed>>

\* ensureLidForSelected for the selected numbers without a pairing; its request may
\* fail or teach nothing.
LookUp ==
  /\ loop = "looking"
  /\ \/ UNCHANGED lids
     \/ /\ link = "open"
        /\ \E p \in Person, l \in Lid : ~HasPhone(lids, p) /\ lids' = Note(lids, p, l)
  /\ loop' = "commands"
  /\ UNCHANGED <<whatsapp, faults, dir, dirty, savedLids, sent, image, closing, disk, candidates,
                 forgotten, missed, unsaved>>

NoCommand ==
  /\ loop = "commands"
  /\ loop' = "waiting"
  /\ UNCHANGED <<whatsapp, faults, memory, sent, image, closing, disk, candidates,
                 forgotten, missed, unsaved>>

-------------------------------------------------------------------------------
(* Linking and unlinking.                                                     *)

Link ==
  /\ link = "out" /\ closing = "no" /\ loop \notin {"clearing", "reporting"}
  /\ links < MaxLinks
  /\ links' = links + 1
  /\ link' = "open" /\ auth' = TRUE
  /\ forgotten' = FALSE
  /\ UNCHANGED <<told, faults, memory, loop, sent, image, closing, disk, candidates, missed, unsaved>>

\* The device is removed on the phone: the close handler starts.
UnlinkOnPhone ==
  /\ link = "open"
  /\ link' = "out"
  /\ closing' = "reporting"
  /\ UNCHANGED <<links, told, auth, faults, memory, loop, sent, image, disk, candidates,
                 forgotten, missed, unsaved>>

\* The owner asks for it and handleLogout begins; the socket closes as logged out.
LogoutBegins ==
  /\ loop = "commands"
  /\ loop' = "clearing"
  /\ IF link = "open" THEN link' = "out" /\ closing' = "reporting"
     ELSE UNCHANGED <<link, closing>>
  /\ UNCHANGED <<links, told, auth, faults, memory, sent, image, disk, candidates,
                 forgotten, missed, unsaved>>

\* What the report of a logout does in the backend, if it arrives.
LoggedOut ==
  \/ /\ candidates' = NoList
     /\ forgotten' = TRUE
     /\ missed' = TRUE
     /\ UNCHANGED faults
  \/ Fault /\ UNCHANGED <<candidates, forgotten, missed>>

\* clearAuth.  A file that is being written when it is removed is gone as well.
ClearAuth ==
  /\ auth' = FALSE
  /\ disk' = NoFile
  /\ image' = NoFile
  /\ unsaved' = TRUE

LogoutClears ==
  /\ loop = "clearing"
  /\ ClearAuth
  /\ loop' = "reporting"
  /\ UNCHANGED <<link, links, told, faults, memory, sent, closing, candidates, forgotten, missed>>

LogoutReported ==
  /\ loop = "reporting"
  /\ LoggedOut
  /\ loop' = "waiting"
  /\ UNCHANGED <<whatsapp, memory, sent, image, closing, disk, unsaved>>

CloseReported ==
  /\ closing = "reporting"
  /\ LoggedOut
  /\ closing' = "clearing"
  /\ UNCHANGED <<whatsapp, memory, loop, sent, image, disk, unsaved>>

CloseClears ==
  /\ closing = "clearing"
  /\ ClearAuth
  /\ closing' = "no"
  /\ UNCHANGED <<link, links, told, faults, memory, loop, sent, candidates, forgotten, missed>>

-------------------------------------------------------------------------------
(* Restarts.                                                                  *)

ConnectorRestartsVariant ==
  /\ Fault
  /\ Loaded(disk)
  /\ dirty' = FALSE
  /\ loop' = "waiting"
  /\ link' = IF auth THEN link ELSE "out"
  /\ closing' = IF auth /\ link = "out" THEN "reporting" ELSE "no"
  /\ missed' = (missed \/ disk.dir.chats = {}) /\ unsaved' = FALSE
  /\ sent' = NoList /\ image' = NoFile
  /\ UNCHANGED <<links, told, auth, disk, candidates, forgotten>>

\* The connector comes up with what is on disk; main has a list it loaded sent again.
\* Credentials WhatsApp no longer accepts are refused again.
ConnectorRestarts ==
  /\ Fault
  /\ Loaded(disk)
  /\ dirty' = (disk.dir.chats # {})
  /\ loop' = "waiting"
  /\ link' = IF auth THEN link ELSE "out"
  /\ closing' = IF auth /\ link = "out" THEN "reporting" ELSE "no"
  /\ missed' = (missed \/ ~dirty') /\ unsaved' = FALSE
  /\ sent' = NoList /\ image' = NoFile
  /\ UNCHANGED <<links, told, auth, disk, candidates, forgotten>>

\* The backend keeps the list in memory only.
BackendRestarts ==
  /\ Fault
  /\ candidates' = NoList
  /\ missed' = TRUE
  /\ UNCHANGED <<whatsapp, memory, loop, sent, image, closing, disk, forgotten, unsaved>>

-------------------------------------------------------------------------------

WhatsAppStep ==
  \/ \E p \in Person, n \in Name \ {0} : ContactTold(p, n)
  \/ \E p \in Person, t \in Time, n \in Name : ChatTold(p, t, n)
  \/ \E l \in Lid, p \in Person, t \in Time \ {0}, n \in Name : MessageTold(l, p, t, n)
  \/ UnlinkOnPhone

LoopStep ==
  \/ PollPublishes
  \/ PollSavesLids
  \/ PollGoesOn
  \/ PublishArrives
  \/ PublishLost
  \/ WriteBegins
  \/ WriteEnds
  \/ WriteFails
  \/ LookUp
  \/ NoCommand
  \/ LogoutClears
  \/ LogoutReported

CloseStep == CloseReported \/ CloseClears

Next ==
  \/ WhatsAppStep
  \/ LoopStep
  \/ CloseStep
  \/ Link
  \/ LogoutBegins
  \/ ConnectorRestarts
  \/ BackendRestarts

Spec == Init /\ [][Next]_vars

\* The loop goes round and what it awaits comes to an end, as does the close handler.
Fairness == WF_vars(LoopStep) /\ WF_vars(CloseStep)

FairSpec == Spec /\ Fairness

-------------------------------------------------------------------------------
(* Properties.                                                                *)

DirType == [chats : SUBSET Person, title : [Person -> Name],
            lastAt : [Person -> Time], names : [Person -> Name]]
LidsType == [Lid -> Person \cup {NoPerson}]
FileType == [dir : DirType, lids : LidsType]
ListType == UNION {[top -> [name : Name, lastAt : Time]] :
                   top \in {t \in SUBSET Person : Cardinality(t) <= MaxCandidates}}

\* Every variable has its type, and no list is longer than the cap (contacts.js:168-177).
TypeOK ==
  /\ link \in {"out", "open"} /\ auth \in BOOLEAN
  /\ links \in 0..MaxLinks /\ told \in 0..MaxTold /\ faults \in 0..MaxFaults
  /\ dir \in DirType /\ dirty \in BOOLEAN
  /\ lids \in LidsType /\ savedLids \in Nat
  /\ loop \in {"waiting", "publishing", "saving", "writing", "savingLids", "writingLids",
               "looking", "commands", "clearing", "reporting"}
  /\ sent \in ListType /\ candidates \in ListType
  /\ image \in FileType /\ disk \in FileType
  /\ closing \in {"no", "reporting", "clearing"}
  /\ forgotten \in BOOLEAN /\ missed \in BOOLEAN /\ unsaved \in BOOLEAN

\* The list of the dashboard is the directory's, or it is due: the flag is up, the list
\* is on its way, or one was lost.  The flag goes down before the publish it announces,
\* while what WhatsApp tells goes on raising it (index.js:542-543).
NothingUnpublished ==
  dirty \/ loop = "publishing" \/ missed \/ candidates = Snapshot(dir)

\* The file has the conversations the directory has, or is about to: what a restart
\* would lose is only what is still to be published (index.js:542-553, main).
DiskFollows ==
  \/ dirty \/ unsaved
  \/ loop \in {"publishing", "saving", "writing", "writingLids"}
  \/ disk.dir = Saved(dir, lids).dir

\* A dashboard that misses nothing gets the directory as it is, again and again: no burst
\* of updates keeps the loop from ever sending the latest (index.js:541-543).
CatchesUp == []<>(missed \/ candidates = Snapshot(dir))

\* Once an unlinking is reported the dashboard has no list until a device is linked.
\* state.go says so where it drops the list: "Unlinking must not leave the account's
\* identity or the contact list of people who were never allowlisted behind."
UnlinkForgets == forgotten => candidates = NoList
===============================================================================
