--------------------------- MODULE DirectoryProofs ---------------------------
(***************************************************************************)
(* Proofs, for any people, LIDs, times and names and any number of links,   *)
(* tellings and failures, that no update of the directory is forgotten on   *)
(* its way to the dashboard (NothingUnpublished) or to the file             *)
(* (DiskFollows), and that a published list never exceeds its cap (TypeOK). *)
(* That the dashboard does catch up is liveness and is left to TLC.         *)
(***************************************************************************)
EXTENDS Directory, TLAPS, FiniteSetTheorems

\* Only names of people without a chat differ.
Quiet(d, e) ==
  /\ e.chats = d.chats /\ e.title = d.title /\ e.lastAt = d.lastAt
  /\ \A p \in d.chats : e.names[p] = d.names[p]

\* What the file has of a directory.
OnFile(d) == Saved(d, Unpaired).dir

\* What the two properties read is of its type, and a file has no name without a chat.
DirInv ==
  /\ dir \in DirType
  /\ lids \in LidsType
  /\ image \in FileType /\ disk \in FileType
  /\ OnFile(image.dir) = image.dir /\ OnFile(disk.dir) = disk.dir
  /\ dirty \in BOOLEAN /\ unsaved \in BOOLEAN

\* What is being sent is the directory, unless the flag is up again.
SendsLatest == loop = "publishing" => dirty \/ sent = Snapshot(dir)

Writing == loop \in {"writing", "writingLids"}

\* What is being written is the directory, unless the flag is up again or the file was
\* removed meanwhile.
WritesLatest ==
  Writing => \/ dirty
             \/ image.dir = OnFile(dir)
             \/ image = NoFile /\ unsaved

DirectoryInv == DirInv /\ NothingUnpublished /\ SendsLatest /\ DiskFollows /\ WritesLatest

-------------------------------------------------------------------------------
(* The directory.                                                             *)

LEMMA EmptyType == Empty \in DirType /\ Unpaired \in LidsType /\ OnFile(Empty) = Empty
<1>1. Empty \in DirType
  BY DirectoryAssumption DEF Empty, DirType
<1>2. Unpaired \in LidsType
  BY DEF Unpaired, LidsType
<1>3. OnFile(Empty) = Empty
  BY DEF OnFile, Saved, Empty
<1>. QED
  BY <1>1, <1>2, <1>3

LEMMA SavedFields ==
  ASSUME NEW d \in DirType, NEW m
  PROVE  Saved(d, m).dir =
           [chats |-> d.chats, title |-> d.title, lastAt |-> d.lastAt,
            names |-> [p \in Person |-> IF p \in d.chats THEN d.names[p] ELSE 0]]
BY DEF DirType, Saved

\* toJSON gives a directory, and writing what was read changes nothing.
LEMMA SavedType ==
  ASSUME NEW d \in DirType, NEW m \in LidsType
  PROVE  /\ Saved(d, m) \in FileType
         /\ Saved(d, m).dir = OnFile(d)
         /\ OnFile(d) \in DirType
         /\ OnFile(OnFile(d)) = OnFile(d)
<1> DEFINE e == [chats |-> d.chats, title |-> d.title, lastAt |-> d.lastAt,
                 names |-> [p \in Person |-> IF p \in d.chats THEN d.names[p] ELSE 0]]
<1>1. Saved(d, m).dir = e /\ OnFile(d) = e
  BY SavedFields DEF OnFile
<1>2. e \in DirType
  BY DirectoryAssumption DEF DirType
<1>3. OnFile(e) = [chats |-> e.chats, title |-> e.title, lastAt |-> e.lastAt,
                   names |-> [p \in Person |-> IF p \in e.chats THEN e.names[p] ELSE 0]]
  BY <1>2, SavedFields DEF OnFile
<1>4. OnFile(e) = e
  BY <1>3
<1>5. Saved(d, m) = [dir |-> e, lids |-> m]
  BY <1>1 DEF Saved
<1>. QED
  BY <1>1, <1>2, <1>4, <1>5 DEF FileType

LEMMA QuietSaved ==
  ASSUME NEW d \in DirType, NEW e \in DirType, Quiet(d, e)
  PROVE  Snapshot(e) = Snapshot(d) /\ OnFile(e) = OnFile(d)
<1>1. Latest(e) = Latest(d) /\ Latest(d) \subseteq d.chats
  BY DEF Quiet, Latest, Ahead
<1>2. Snapshot(e) = Snapshot(d)
  BY <1>1 DEF Quiet, Snapshot
<1>3. OnFile(e) = OnFile(d)
  <2>1. [p \in Person |-> IF p \in e.chats THEN e.names[p] ELSE 0]
          = [p \in Person |-> IF p \in d.chats THEN d.names[p] ELSE 0]
    BY DEF Quiet
  <2>2. /\ OnFile(d) = [chats |-> d.chats, title |-> d.title, lastAt |-> d.lastAt,
                        names |-> [p \in Person |-> IF p \in d.chats THEN d.names[p] ELSE 0]]
        /\ OnFile(e) = [chats |-> e.chats, title |-> e.title, lastAt |-> e.lastAt,
                        names |-> [p \in Person |-> IF p \in e.chats THEN e.names[p] ELSE 0]]
    BY SavedFields DEF OnFile
  <2>. QED
    BY <2>1, <2>2 DEF Quiet
<1>. QED
  BY <1>2, <1>3

\* noteContact raises the flag when the list changes, and only then.
LEMMA NoteContactFlag ==
  ASSUME NEW d \in DirType, NEW p \in Person, NEW n \in Name
  PROVE  /\ NoteContact(d, p, n) \in DirType
         /\ Dirties(d, NoteContact(d, p, n)) \/ Quiet(d, NoteContact(d, p, n))
<1>1. CASE ~(n > d.names[p])
  BY <1>1 DEF NoteContact, Quiet
<1>2. CASE n > d.names[p]
  <2> DEFINE e == [d EXCEPT !.names[p] = n]
  <2>1. e \in DirType
    BY DEF DirType
  <2>2. e.chats = d.chats /\ e.title = d.title /\ e.lastAt = d.lastAt
    BY DEF DirType
  <2>3. \A q \in Person : e.names[q] = IF q = p THEN n ELSE d.names[q]
    BY DEF DirType
  <2>4. n # d.names[p] /\ d.chats \subseteq Person
    BY <1>2, DirectoryAssumption DEF DirType
  <2>5. NoteContact(d, p, n) = e
    BY <1>2 DEF NoteContact
  <2>. HIDE DEF e
  <2>6. CASE p \in d.chats
    BY <2>1, <2>3, <2>4, <2>5, <2>6 DEF Dirties
  <2>7. CASE p \notin d.chats
    BY <2>1, <2>2, <2>3, <2>4, <2>5, <2>7 DEF Quiet
  <2>. QED
    BY <2>6, <2>7
<1>. QED
  BY <1>1, <1>2

\* So does noteChat.
LEMMA NoteChatFlag ==
  ASSUME NEW d \in DirType, NEW p \in Person, NEW t \in Time, NEW n \in Name
  PROVE  /\ NoteChat(d, p, t, n) \in DirType
         /\ Dirties(d, NoteChat(d, p, t, n)) \/ Quiet(d, NoteChat(d, p, t, n))
<1> DEFINE e == NoteChat(d, p, t, n)
<1>1. e.chats = d.chats \cup {p} /\ e.names = d.names
  BY DEF NoteChat, DirType
<1>2. /\ e.title \in [Person -> Name] /\ e.lastAt \in [Person -> Time]
      /\ \A q \in Person \ {p} : e.title[q] = d.title[q] /\ e.lastAt[q] = d.lastAt[q]
  BY DEF NoteChat, DirType
<1>3. e \in DirType
  BY DEF NoteChat, DirType
<1>. HIDE DEF e
<1>4. d.chats \subseteq Person /\ d.title \in [Person -> Name] /\ d.lastAt \in [Person -> Time]
  BY DEF DirType
<1>5. Dirties(d, e) \/ Quiet(d, e)
  <2>1. CASE p \notin d.chats
    BY <1>1, <2>1 DEF Dirties
  <2>2. CASE p \in d.chats /\ ~Dirties(d, e)
    <3>1. e.title[p] = d.title[p] /\ e.lastAt[p] = d.lastAt[p]
      BY <2>2 DEF Dirties
    <3>2. e.title = d.title /\ e.lastAt = d.lastAt
      BY <3>1, <1>2, <1>4
    <3>. QED
      BY <1>1, <2>2, <3>2 DEF Quiet
  <2>. QED
    BY <2>1, <2>2
<1>. QED
  BY <1>3, <1>5 DEF e

-------------------------------------------------------------------------------
(* The invariant.                                                             *)

LEMMA InvInit == Init => DirectoryInv
<1>. SUFFICES ASSUME Init PROVE DirectoryInv
  OBVIOUS
<1>1. dir = Empty /\ lids = Unpaired /\ image = NoFile /\ disk = NoFile /\ loop = "waiting"
      /\ dirty = FALSE /\ unsaved = FALSE /\ candidates = NoList
  BY DEF Init
<1>2. NoFile \in FileType /\ NoFile.dir = Empty
  BY EmptyType DEF NoFile, FileType
<1>3. DirInv
  BY <1>1, <1>2, EmptyType DEF DirInv
<1>4. Snapshot(Empty) = NoList
  BY DEF Snapshot, Latest, Empty, NoList
<1>5. Saved(dir, lids).dir = OnFile(dir)
  BY <1>1, EmptyType, SavedType
<1>6. disk.dir = Saved(dir, lids).dir
  BY <1>1, <1>2, <1>5, EmptyType
<1>. QED
  BY <1>1, <1>3, <1>4, <1>6
  DEF DirectoryInv, NothingUnpublished, SendsLatest, DiskFollows, WritesLatest, Writing

\* What WhatsApp tells: the flag is up, or nothing that is sent or written changes.
LEMMA InvTold ==
  ASSUME DirectoryInv, NEW d \in DirType, Told(d), lids' \in LidsType,
         Dirties(dir, d) \/ Quiet(dir, d)
  PROVE  DirectoryInv'
<1>1. dir' = d /\ dirty' = (dirty \/ Dirties(dir, d))
      /\ UNCHANGED <<loop, sent, image, disk, candidates, missed, unsaved>>
  BY DEF Told
<1>2. dir \in DirType /\ lids \in LidsType
  BY DEF DirectoryInv, DirInv
<1>3. dirty' \in BOOLEAN
  BY <1>1
<1>4. DirInv'
  BY <1>1, <1>3 DEF DirectoryInv, DirInv
<1>5. CASE dirty'
  BY <1>1, <1>4, <1>5
  DEF DirectoryInv, NothingUnpublished, SendsLatest, DiskFollows, WritesLatest
<1>6. CASE ~dirty'
  <2>1. ~dirty /\ Quiet(dir, d)
    BY <1>1, <1>6
  <2>2. Snapshot(dir') = Snapshot(dir) /\ OnFile(dir') = OnFile(dir)
    BY <1>1, <1>2, <2>1, QuietSaved
  <2>3. Saved(dir', lids').dir = OnFile(dir') /\ Saved(dir, lids).dir = OnFile(dir)
    BY <1>1, <1>2, SavedType
  <2>. QED
    BY <1>1, <1>4, <2>1, <2>2, <2>3
    DEF DirectoryInv, NothingUnpublished, SendsLatest, DiskFollows, WritesLatest, Writing
<1>. QED
  BY <1>5, <1>6

LEMMA NoteType ==
  ASSUME NEW m \in LidsType, NEW p \in Person, NEW l \in Lid
  PROVE  Note(m, p, l) \in LidsType
BY DEF Note, LidsType

LEMMA InvWhatsApp ==
  ASSUME DirectoryInv, WhatsAppStep
  PROVE  DirectoryInv'
<1>1. dir \in DirType /\ lids \in LidsType
  BY DEF DirectoryInv, DirInv
<1>2. ASSUME NEW p \in Person, NEW n \in Name, ContactTold(p, n)
      PROVE  DirectoryInv'
  <2>1. lids' \in LidsType
    BY <1>1, <1>2, NoteType DEF ContactTold
  <2>2. Told(NoteContact(dir, p, n))
    BY <1>2 DEF ContactTold
  <2>. QED
    BY <1>1, <2>1, <2>2, NoteContactFlag, InvTold
<1>3. ASSUME NEW p \in Person, NEW t \in Time, NEW n \in Name, ChatTold(p, t, n)
      PROVE  DirectoryInv'
  BY <1>1, <1>3, NoteChatFlag, InvTold DEF ChatTold
<1>4. ASSUME NEW l \in Lid, NEW p \in Person, NEW t \in Time, NEW n \in Name,
             MessageTold(l, p, t, n)
      PROVE  DirectoryInv'
  <2>1. lids' \in LidsType
    BY <1>1, <1>4, NoteType DEF MessageTold
  <2>2. Told(NoteChat(dir, p, t, n))
    BY <1>4 DEF MessageTold
  <2>. QED
    BY <1>1, <2>1, <2>2, NoteChatFlag, InvTold
<1>5. CASE UnlinkOnPhone
  BY <1>5 DEF UnlinkOnPhone, memory, DirectoryInv, DirInv, NothingUnpublished, SendsLatest,
              DiskFollows, WritesLatest, Writing
<1>. QED
  BY <1>2, <1>3, <1>4, <1>5 DEF WhatsAppStep

\* A step that leaves the directory, the flag, the file and what is on its way alone.
LEMMA InvElsewhere ==
  ASSUME DirectoryInv, lids' \in LidsType,
         UNCHANGED <<dir, dirty, sent, image, disk, candidates, missed, unsaved>>,
         loop' \notin {"publishing", "writing", "writingLids"},
         loop \notin {"publishing", "saving", "writing", "writingLids"}
  PROVE  DirectoryInv'
<1>1. dir \in DirType /\ lids \in LidsType
  BY DEF DirectoryInv, DirInv
<1>2. Saved(dir', lids').dir = Saved(dir, lids).dir
  BY <1>1, SavedType
<1>. QED
  BY <1>2 DEF DirectoryInv, DirInv, NothingUnpublished, SendsLatest, DiskFollows, WritesLatest,
              Writing

LEMMA InvPublish ==
  ASSUME DirectoryInv, PollPublishes \/ PublishArrives \/ PublishLost
  PROVE  DirectoryInv'
<1>1. UNCHANGED <<dir, lids, image, disk, unsaved>> /\ loop' \in {"publishing", "saving"}
  BY DEF PollPublishes, PublishArrives, PublishLost, memory
<1>2. dirty' \in BOOLEAN
  BY DEF PollPublishes, PublishArrives, PublishLost, memory, DirectoryInv, DirInv
<1>3. DirInv'
  BY <1>1, <1>2 DEF DirectoryInv, DirInv
<1>4. DiskFollows' /\ WritesLatest'
  BY <1>1 DEF DiskFollows, WritesLatest, Writing
<1>5. NothingUnpublished' /\ SendsLatest'
  BY DEF PollPublishes, PublishArrives, PublishLost, memory, DirectoryInv, NothingUnpublished,
         SendsLatest
<1>. QED
  BY <1>3, <1>4, <1>5 DEF DirectoryInv

LEMMA InvWriteBegins ==
  ASSUME DirectoryInv, WriteBegins
  PROVE  DirectoryInv'
<1>1. dir \in DirType /\ lids \in LidsType
  BY DEF DirectoryInv, DirInv
<1>2. image' = Saved(dir, lids) /\ disk' = NoFile /\ loop' \in {"writing", "writingLids"}
      /\ UNCHANGED <<dir, dirty, lids, sent, candidates, missed, unsaved>>
      /\ loop # "publishing"
  BY DEF WriteBegins, memory
<1>3. image' \in FileType /\ image'.dir = OnFile(dir) /\ OnFile(image'.dir) = image'.dir
  BY <1>1, <1>2, SavedType
<1>4. NoFile \in FileType /\ NoFile.dir = Empty
  BY EmptyType DEF NoFile, FileType
<1>5. DirInv'
  BY <1>2, <1>3, <1>4, EmptyType DEF DirectoryInv, DirInv
<1>. QED
  BY <1>2, <1>3, <1>5
  DEF DirectoryInv, NothingUnpublished, SendsLatest, DiskFollows, WritesLatest, Writing

LEMMA InvWriteEnds ==
  ASSUME DirectoryInv, WriteEnds
  PROVE  DirectoryInv'
<1>1. dir \in DirType /\ lids \in LidsType /\ image \in FileType
  BY DEF DirectoryInv, DirInv
<1>2. disk' = image /\ image' = NoFile /\ loop' = "looking" /\ Writing
      /\ unsaved' = (unsaved /\ image = NoFile)
      /\ UNCHANGED <<dir, dirty, lids, sent, candidates, missed>> /\ loop # "publishing"
  BY DEF WriteEnds, Writing
<1>3. NoFile \in FileType /\ NoFile.dir = Empty
  BY EmptyType DEF NoFile, FileType
<1>4. DirInv'
  BY <1>2, <1>3, EmptyType DEF DirectoryInv, DirInv
<1>5. Saved(dir', lids').dir = OnFile(dir)
  BY <1>1, <1>2, SavedType
<1>. QED
  BY <1>2, <1>4, <1>5
  DEF DirectoryInv, NothingUnpublished, SendsLatest, DiskFollows, WritesLatest, Writing

LEMMA InvWriteFails ==
  ASSUME DirectoryInv, WriteFails
  PROVE  DirectoryInv'
<1>1. image' = NoFile /\ loop' = "looking" /\ unsaved' = TRUE
      /\ UNCHANGED <<dir, dirty, lids, sent, disk, candidates, missed>> /\ loop # "publishing"
  BY DEF WriteFails
<1>2. NoFile \in FileType /\ NoFile.dir = Empty
  BY EmptyType DEF NoFile, FileType
<1>. QED
  BY <1>1, <1>2, EmptyType
  DEF DirectoryInv, DirInv, NothingUnpublished, SendsLatest, DiskFollows, WritesLatest, Writing

\* clearAuth: the file and what was to become it are gone.
LEMMA InvClears ==
  ASSUME DirectoryInv, LogoutClears \/ CloseClears
  PROVE  DirectoryInv'
<1>1. image' = NoFile /\ disk' = NoFile /\ unsaved' = TRUE
      /\ UNCHANGED <<dir, dirty, lids, sent, candidates, missed>>
      /\ (loop' = loop \/ (loop' = "reporting" /\ loop = "clearing"))
  BY DEF LogoutClears, CloseClears, ClearAuth, memory
<1>2. NoFile \in FileType /\ NoFile.dir = Empty
  BY EmptyType DEF NoFile, FileType
<1>. QED
  BY <1>1, <1>2, EmptyType
  DEF DirectoryInv, DirInv, NothingUnpublished, SendsLatest, DiskFollows, WritesLatest, Writing

\* What the backend loses counts as missed.
LEMMA InvBackendLoses ==
  ASSUME DirectoryInv, LogoutReported \/ CloseReported \/ BackendRestarts
  PROVE  DirectoryInv'
<1>1. /\ UNCHANGED <<dir, dirty, lids, sent, image, disk, unsaved>>
      /\ missed' \/ UNCHANGED <<candidates, missed>>
      /\ loop' = loop \/ (loop' = "waiting" /\ loop = "reporting")
  BY DEF LogoutReported, CloseReported, BackendRestarts, LoggedOut, memory
<1>. QED
  BY <1>1
  DEF DirectoryInv, DirInv, NothingUnpublished, SendsLatest, DiskFollows, WritesLatest, Writing

\* What the connector knows after a restart is what is on disk, and is sent if it is anything.
LEMMA InvConnectorRestarts ==
  ASSUME DirectoryInv, ConnectorRestarts
  PROVE  DirectoryInv'
<1>1. disk \in FileType /\ OnFile(disk.dir) = disk.dir
  BY DEF DirectoryInv, DirInv
<1>2. disk.dir \in DirType /\ disk.lids \in LidsType
  BY <1>1 DEF FileType
<1>3. /\ dir' = disk.dir /\ lids' = disk.lids /\ disk' = disk /\ image' = NoFile
      /\ dirty' \in BOOLEAN /\ unsaved' = FALSE /\ loop' = "waiting"
      /\ dirty' \/ missed'
  BY DEF ConnectorRestarts, Loaded
<1>4. NoFile \in FileType /\ NoFile.dir = Empty
  BY EmptyType DEF NoFile, FileType
<1>5. DirInv'
  BY <1>1, <1>2, <1>3, <1>4, EmptyType DEF DirInv
<1>6. Saved(dir', lids').dir = disk'.dir
  BY <1>1, <1>2, <1>3, SavedType
<1>. QED
  BY <1>3, <1>5, <1>6
  DEF DirectoryInv, NothingUnpublished, SendsLatest, DiskFollows, WritesLatest, Writing

LEMMA InvNext == DirectoryInv /\ [Next]_vars => DirectoryInv'
<1>. SUFFICES ASSUME DirectoryInv, [Next]_vars PROVE DirectoryInv'
  OBVIOUS
<1>1. lids \in LidsType
  BY DEF DirectoryInv, DirInv
<1>2. CASE PollSavesLids \/ PollGoesOn
  BY <1>1, <1>2, InvElsewhere DEF PollSavesLids, PollGoesOn, memory
<1>3. CASE LookUp
  BY <1>1, <1>3, InvElsewhere, NoteType DEF LookUp
<1>4. CASE NoCommand \/ LogoutBegins
  BY <1>1, <1>4, InvElsewhere DEF NoCommand, LogoutBegins, memory
<1>5. CASE Link \/ UNCHANGED vars
  BY <1>5 DEF Link, vars, memory, DirectoryInv, DirInv, NothingUnpublished, SendsLatest,
              DiskFollows, WritesLatest, Writing
<1>. QED
  BY <1>2, <1>3, <1>4, <1>5, InvWhatsApp, InvPublish, InvWriteBegins, InvWriteEnds,
     InvWriteFails, InvClears, InvBackendLoses, InvConnectorRestarts
  DEF Next, LoopStep, CloseStep

LEMMA Invariance == Spec => []DirectoryInv
BY InvInit, InvNext, PTL DEF Spec

\* The list the dashboard has is the directory's unless the flag is up, a list is on its
\* way or one was lost: no update is forgotten, whenever it comes.
THEOREM NoUpdateForgotten == Spec => []NothingUnpublished
<1>1. DirectoryInv => NothingUnpublished
  BY DEF DirectoryInv
<1>. QED
  BY <1>1, Invariance, PTL

\* A restart finds the conversations of the directory on disk unless a save is due, under
\* way or failed.
THEOREM FileKeepsUp == Spec => []DiskFollows
<1>1. DirectoryInv => DiskFollows
  BY DEF DirectoryInv
<1>. QED
  BY <1>1, Invariance, PTL

-------------------------------------------------------------------------------
(* Type correctness.  That a list fits is a matter of ranks: no two chats have   *)
(* the same number of chats ahead of them.                                    *)

LEMMA AheadOrders ==
  ASSUME NEW d \in DirType, NEW p \in Person, NEW q \in Person
  PROVE  /\ p # q => Ahead(d, p, q) \/ Ahead(d, q, p)
         /\ ~Ahead(d, p, p)
         /\ \A r \in Person : Ahead(d, r, q) /\ Ahead(d, q, p) => Ahead(d, r, p)
<1>1. \A r \in Person : d.lastAt[r] \in Nat /\ Order[r] \in Nat
  BY DirectoryAssumption DEF DirType
<1>2. p # q => Order[p] # Order[q]
  BY DirectoryAssumption
<1>. QED
  BY <1>1, <1>2 DEF Ahead

\* contacts.js:168-177: however many chats there are, a list is no longer than the cap.
LEMMA ListFits ==
  ASSUME NEW d \in DirType
  PROVE  /\ Latest(d) \in SUBSET Person
         /\ Cardinality(Latest(d)) <= MaxCandidates
<1> DEFINE ahead(p) == {q \in d.chats : Ahead(d, q, p)}
           rank == [p \in Latest(d) |-> Cardinality(ahead(p))]
<1>1. d.chats \in SUBSET Person /\ IsFiniteSet(d.chats)
  BY DirectoryAssumption, FS_Subset DEF DirType
<1>2. ASSUME NEW p PROVE IsFiniteSet(ahead(p)) /\ Cardinality(ahead(p)) \in Nat
  BY <1>1, FS_Subset, FS_CardinalityType
<1>3. ASSUME NEW p \in d.chats, NEW q \in d.chats, Ahead(d, q, p)
      PROVE  Cardinality(ahead(q)) # Cardinality(ahead(p))
  <2>1. ahead(q) \in SUBSET ahead(p) /\ q \in ahead(p) /\ q \notin ahead(q)
    BY <1>1, <1>3, AheadOrders
  <2>. HIDE DEF ahead
  <2>. QED
    BY <1>2, <2>1, FS_Subset
<1>4. Latest(d) = {p \in d.chats : Cardinality(ahead(p)) < MaxCandidates}
  BY DEF Latest
<1>. HIDE DEF ahead
<1>5. \A p \in Latest(d) : rank[p] \in 0 .. (MaxCandidates - 1)
  BY <1>2, <1>4, DirectoryAssumption
<1>6. \A p, q \in Latest(d) : rank[p] = rank[q] => p = q
  BY <1>1, <1>3, <1>4, AheadOrders
<1>7. rank \in [Latest(d) -> 0 .. (MaxCandidates - 1)] /\ DOMAIN rank = Latest(d)
  BY <1>5
<1>. HIDE DEF rank
<1>8. rank \in Injection(Latest(d), 0 .. (MaxCandidates - 1))
  BY <1>6, <1>7 DEF Injection, IsInjective
<1>9. /\ IsFiniteSet(0 .. (MaxCandidates - 1))
      /\ Cardinality(0 .. (MaxCandidates - 1)) = MaxCandidates
  BY DirectoryAssumption, FS_Interval
<1>10. Cardinality(Latest(d)) <= Cardinality(0 .. (MaxCandidates - 1))
  BY <1>8, <1>9, FS_Injection
<1>. QED
  BY <1>1, <1>4, <1>9, <1>10

LEMMA ListTypes ==
  /\ NoList \in ListType
  /\ \A d \in DirType : Snapshot(d) \in ListType
<1>1. NoList \in ListType
  <2>1. {} \in {t \in SUBSET Person : Cardinality(t) <= MaxCandidates}
    BY FS_EmptySet, DirectoryAssumption
  <2>2. NoList \in [{} -> [name : Name, lastAt : Time]]
    BY DEF NoList
  <2>. QED
    BY <2>1, <2>2 DEF ListType
<1>2. ASSUME NEW d \in DirType PROVE Snapshot(d) \in ListType
  <2>1. Latest(d) \in {t \in SUBSET Person : Cardinality(t) <= MaxCandidates}
    BY ListFits
  <2>2. \A p \in Latest(d) :
          /\ d.lastAt[p] \in Time
          /\ (IF d.title[p] # 0 THEN d.title[p] ELSE d.names[p]) \in Name
    BY <2>1 DEF DirType
  <2>3. Snapshot(d) \in [Latest(d) -> [name : Name, lastAt : Time]]
    BY <2>2 DEF Snapshot
  <2>. QED
    BY <2>1, <2>3 DEF ListType
<1>. QED
  BY <1>1, <1>2

LEMMA SizeType ==
  ASSUME NEW m
  PROVE  Size(m) \in Nat
BY DirectoryAssumption, FS_Subset, FS_CardinalityType DEF Size, Paired

LoopType == {"waiting", "publishing", "saving", "writing", "savingLids", "writingLids",
             "looking", "commands", "clearing", "reporting"}

CountersOK == links \in 0..MaxLinks /\ told \in 0..MaxTold /\ faults \in 0..MaxFaults

PlacesOK == link \in {"out", "open"} /\ loop \in LoopType
            /\ closing \in {"no", "reporting", "clearing"}

FlagsOK == auth \in BOOLEAN /\ forgotten \in BOOLEAN /\ missed \in BOOLEAN

ListsOK == sent \in ListType /\ candidates \in ListType /\ savedLids \in Nat

TypeInv == DirectoryInv /\ CountersOK /\ PlacesOK /\ FlagsOK /\ ListsOK

LEMMA TypeInvInit == Init => TypeInv
<1>. SUFFICES ASSUME Init PROVE TypeInv
  OBVIOUS
<1>1. CountersOK
  BY DirectoryAssumption DEF Init, CountersOK
<1>2. PlacesOK
  BY DEF Init, PlacesOK, LoopType
<1>3. FlagsOK
  BY Zenon DEF Init, FlagsOK
<1>4. ListsOK
  BY ListTypes DEF Init, ListsOK
<1>. QED
  BY <1>1, <1>2, <1>3, <1>4, InvInit DEF TypeInv

\* What a step can make of the variables that are only counters, flags and lists.
LEMMA StepParts ==
  ASSUME [Next]_vars
  PROVE  /\ links' = links \/ (links < MaxLinks /\ links' = links + 1)
         /\ told' = told \/ (told < MaxTold /\ told' = told + 1)
         /\ faults' = faults \/ (faults < MaxFaults /\ faults' = faults + 1)
         /\ auth' \in {auth, TRUE, FALSE}
         /\ forgotten' \in {forgotten, TRUE, FALSE}
         /\ missed' \in {missed, TRUE, FALSE} \/ missed' = (missed \/ ~dirty')
         /\ sent' \in {sent, NoList, Snapshot(dir)}
         /\ candidates' \in {candidates, NoList, sent}
         /\ savedLids' = savedLids \/ \E m : savedLids' = Size(m)
<1>. USE DEF Next, vars, whatsapp, memory, WhatsAppStep, LoopStep, CloseStep, ContactTold,
             ChatTold, MessageTold, Told, UnlinkOnPhone, PollPublishes, PollSavesLids,
             PollGoesOn, PublishArrives, PublishLost, WriteBegins, WriteEnds, WriteFails,
             LookUp, NoCommand, LogoutClears, LogoutReported, CloseReported, CloseClears,
             Link, LogoutBegins, ConnectorRestarts, BackendRestarts
<1>1. links' = links \/ (links < MaxLinks /\ links' = links + 1)
  OBVIOUS
<1>2. told' = told \/ (told < MaxTold /\ told' = told + 1)
  OBVIOUS
<1>3. faults' = faults \/ (faults < MaxFaults /\ faults' = faults + 1)
  BY DEF Fault, LoggedOut
<1>4. auth' \in {auth, TRUE, FALSE}
  BY DEF ClearAuth
<1>5. forgotten' \in {forgotten, TRUE, FALSE}
  BY DEF LoggedOut
<1>6. missed' \in {missed, TRUE, FALSE} \/ missed' = (missed \/ ~dirty')
  BY DEF LoggedOut
<1>7. sent' \in {sent, NoList, Snapshot(dir)}
  OBVIOUS
<1>8. candidates' \in {candidates, NoList, sent}
  BY DEF LoggedOut
<1>9. savedLids' = savedLids \/ \E m : savedLids' = Size(m)
  BY DEF Loaded, SavedSizeAfter
<1>. QED
  BY <1>1, <1>2, <1>3, <1>4, <1>5, <1>6, <1>7, <1>8, <1>9

LEMMA PlacesStep ==
  ASSUME PlacesOK, [Next]_vars
  PROVE  PlacesOK'
<1>1. CASE WhatsAppStep
  BY <1>1 DEF WhatsAppStep, ContactTold, ChatTold, MessageTold, Told, UnlinkOnPhone, PlacesOK
<1>2. CASE LoopStep
  BY <1>2 DEF LoopStep, whatsapp, PollPublishes, PollSavesLids, PollGoesOn, PublishArrives,
              PublishLost, WriteBegins, WriteEnds, WriteFails, LookUp, NoCommand,
              LogoutClears, LogoutReported, PlacesOK, LoopType
<1>3. CASE CloseStep
  BY <1>3 DEF CloseStep, whatsapp, CloseReported, CloseClears, PlacesOK
<1>4. CASE Link \/ LogoutBegins \/ ConnectorRestarts \/ BackendRestarts \/ UNCHANGED vars
  BY <1>4 DEF vars, whatsapp, Link, LogoutBegins, ConnectorRestarts, BackendRestarts,
              PlacesOK, LoopType
<1>. QED
  BY <1>1, <1>2, <1>3, <1>4 DEF Next

\* The rest: counters stay below their bounds, and every list is a snapshot, or none.
LEMMA PartsStep ==
  ASSUME CountersOK, FlagsOK, ListsOK, dir \in DirType, dirty' \in BOOLEAN, [Next]_vars
  PROVE  CountersOK' /\ FlagsOK' /\ ListsOK'
<1>1. CountersOK'
  <2>1. /\ links' = links \/ (links < MaxLinks /\ links' = links + 1)
        /\ told' = told \/ (told < MaxTold /\ told' = told + 1)
        /\ faults' = faults \/ (faults < MaxFaults /\ faults' = faults + 1)
    BY StepParts
  <2>. QED
    BY <2>1, DirectoryAssumption DEF CountersOK
<1>2. FlagsOK'
  <2>1. auth' \in BOOLEAN /\ forgotten' \in BOOLEAN
    BY StepParts DEF FlagsOK
  <2>2. missed' \in BOOLEAN
    BY StepParts, Zenon DEF FlagsOK
  <2>. QED
    BY <2>1, <2>2 DEF FlagsOK
<1>3. ListsOK'
  BY StepParts, ListTypes, SizeType DEF ListsOK
<1>. QED
  BY <1>1, <1>2, <1>3

\* Every variable keeps its type, and neither the list of the dashboard nor one on its
\* way is ever longer than the cap, however many chats WhatsApp tells of.
THEOREM DirectoryTypeCorrect == Spec => []TypeOK
<1>1. TypeInv /\ [Next]_vars => TypeInv'
  <2>. SUFFICES ASSUME TypeInv, [Next]_vars PROVE TypeInv'
    OBVIOUS
  <2>1. DirectoryInv'
    BY InvNext DEF TypeInv
  <2>2. dir \in DirType /\ dirty' \in BOOLEAN
    BY <2>1 DEF TypeInv, DirectoryInv, DirInv
  <2>. QED
    BY <2>1, <2>2, PlacesStep, PartsStep DEF TypeInv
<1>2. TypeInv => TypeOK
  BY DEF TypeInv, TypeOK, DirectoryInv, DirInv, CountersOK, PlacesOK, LoopType, FlagsOK, ListsOK
<1>. QED
  BY <1>1, <1>2, TypeInvInit, PTL DEF Spec
===============================================================================
