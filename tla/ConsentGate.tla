------------------------------ MODULE ConsentGate ------------------------------
(***************************************************************************)
(* The way of a chat event past the two allowlist filters.                 *)
(*                                                                         *)
(* The owner edits allowed_contacts through the API.  The connector copies *)
(* the active numbers by polling (index.js pollLoop, loadInitialAllowlist) *)
(* and checks every event against its copy (allowlist.js check, after      *)
(* lidmap.js has named the number behind a LID address); the backend then  *)
(* asks the table itself (storage/allowlist.go IsAllowed), and only after  *)
(* that opens the transaction that stores the message: the owner may       *)
(* change the table between any two of these steps.                        *)
(*                                                                         *)
(* Edits and reactions pass the same filters as new messages and change    *)
(* nothing kept here.  The allowlist version is copied and never read, and *)
(* rejections are only counted: both are left out.                         *)
(***************************************************************************)
EXTENDS Naturals, FiniteSets

CONSTANTS
  Phone,        \* registered or registrable numbers
  NoPhone,      \* no number: a group, a broadcast or an unresolved LID
  Chat,         \* addresses of chats
  Owner,        \* the number behind each chat
  ByLid,        \* chats WhatsApp addresses by LID
  Message,      \* messages
  ChatOf,       \* the chat of each message
  Attempts,     \* polls tried before the socket is opened anyway
  Faults,       \* whether requests fail and processes restart
  MaxInFlight   \* bound: events published and not answered

ASSUME GateAssumption ==
  /\ NoPhone \notin Phone
  /\ Owner \in [Chat -> Phone \cup {NoPhone}]
  /\ ByLid \subseteq Chat
  /\ ChatOf \in [Message -> Chat]
  /\ Attempts \in Nat \ {0}
  /\ Faults \in BOOLEAN
  /\ MaxInFlight \in Nat \ {0}

OwnerOf == [m \in Message |-> Owner[ChatOf[m]]]

\* conversation_id is the number the connector resolved.
Event == [kind : {"ingested", "deleted"}, msg : Message, to : Phone]

VARIABLES
  contacts,  \* allowed_contacts: each number absent, active or paused
  loaded,    \* connector: an allowlist has been loaded
  phones,    \* connector: its copy of the active numbers
  lids,      \* connector: LID chats whose number it knows
  tries,     \* connector: failed polls before the socket was opened
  started,   \* connector: the socket is open
  poll,      \* the poll under way and the numbers it will bring
  wire,      \* events published and not looked at
  handling,  \* events past IsAllowed whose transaction has not begun
  stored,    \* messages stored
  deleted,   \* stored messages marked deleted
  lapse      \* history: what the connector has heard of a withdrawal

connector == <<loaded, phones, lids, tries, started>>
backend == <<handling, stored, deleted>>
vars == <<contacts, loaded, phones, lids, tries, started, poll, wire, handling,
          stored, deleted, lapse>>

Active == {p \in Phone : contacts[p] = "active"}

IdlePoll == [state |-> "idle", phones |-> {}]

Init ==
  /\ contacts \in [Phone -> {"absent", "active", "paused"}]
  /\ loaded = FALSE
  /\ phones = {}
  /\ lids = {}
  /\ tries = 0
  /\ started = FALSE
  /\ poll = IdlePoll
  /\ wire = {}
  /\ handling = {}
  /\ stored = {}
  /\ deleted = {}
  /\ lapse = [p \in Phone |-> IF contacts[p] = "active" THEN "none" ELSE "heard"]

-------------------------------------------------------------------------------
(* The owner.                                                              *)

\* A registered number is made active again.
AddAllowedContact(p) ==
  /\ contacts' = [contacts EXCEPT ![p] = "active"]
  /\ lapse' = [lapse EXCEPT ![p] = "none"]
  /\ UNCHANGED <<connector, poll, wire, backend>>

Withdrawn(p) == IF contacts[p] = "active" THEN "unheard" ELSE lapse[p]

SetAllowedContactActive(p, active) ==
  /\ contacts[p] # "absent"
  /\ contacts' = [contacts EXCEPT ![p] = IF active THEN "active" ELSE "paused"]
  /\ lapse' = [lapse EXCEPT ![p] = IF active THEN "none" ELSE Withdrawn(p)]
  /\ UNCHANGED <<connector, poll, wire, backend>>

DeleteAllowedContact(p) ==
  /\ contacts[p] # "absent"
  /\ contacts' = [contacts EXCEPT ![p] = "absent"]
  /\ lapse' = [lapse EXCEPT ![p] = Withdrawn(p)]
  /\ UNCHANGED <<connector, poll, wire, backend>>

-------------------------------------------------------------------------------
(* The connector's copy of the allowlist.                                  *)

FetchCommands ==
  /\ poll.state = "idle"
  /\ poll' = [poll EXCEPT !.state = "asked"]
  /\ lapse' = [p \in Phone |-> IF lapse[p] = "unheard" THEN "asked" ELSE lapse[p]]
  /\ UNCHANGED <<contacts, connector, wire, backend>>

\* handleInternalCommands reads the table; the answer travels on.
ActivePhones ==
  /\ poll.state = "asked"
  /\ poll' = [state |-> "answered", phones |-> Active]
  /\ UNCHANGED <<contacts, connector, wire, backend, lapse>>

Unheard == [p \in Phone |-> IF lapse[p] = "asked" THEN "unheard" ELSE lapse[p]]

\* No answer: the copy stays as it is.
FetchFails ==
  /\ poll.state # "idle"
  /\ poll' = IdlePoll
  /\ tries' = IF started \/ tries = Attempts THEN tries ELSE tries + 1
  /\ lapse' = Unheard
  /\ UNCHANGED <<contacts, loaded, phones, lids, started, wire, backend>>

\* Variants stand for plausible mistakes in the definition after them.
MergeVariant(old, new) == old \cup new
FirstOnlyVariant(old, new) == IF loaded THEN old ELSE new

\* this.phones = new Set(phones)
Replace(old, new) == new

PollDone ==
  /\ poll.state = "answered"
  /\ phones' = Replace(phones, poll.phones)
  /\ loaded' = TRUE
  /\ poll' = IdlePoll
  /\ lapse' = [p \in Phone |-> IF lapse[p] = "asked" THEN "heard" ELSE lapse[p]]
  /\ UNCHANGED <<contacts, lids, tries, started, wire, backend>>

\* The socket waits for the first allowlist, but not forever.
StartSocket ==
  /\ ~started
  /\ loaded \/ tries = Attempts
  /\ started' = TRUE
  /\ UNCHANGED <<contacts, loaded, phones, lids, tries, poll, wire, backend, lapse>>

\* LID chats whose number WhatsApp may tell.
Tellable == {c \in ByLid : Owner[c] # NoPhone}

\* lidmap.note: a contact, the history sync or a lookup pairs a LID with its number.
NoteLid(c) ==
  /\ started
  /\ c \in Tellable
  /\ lids' = lids \cup {c}
  /\ UNCHANGED <<contacts, loaded, phones, tries, started, poll, wire, backend, lapse>>

-------------------------------------------------------------------------------
(* Events.                                                                 *)

\* The number a chat resolves to when the numbers behind these LIDs are known.
JidForKey(c, known) == IF c \in ByLid \ known THEN NoPhone ELSE Owner[c]

LoadedVariant(p) == loaded

\* The connector's filter; without a number there is nothing to match.
Check(p) == loaded /\ p \in phones

\* What the filter lets out is published; anything else is dropped.
ForwardIfAllowed(kind, m, known) ==
  /\ started
  /\ Cardinality(wire) + Cardinality(handling) < MaxInFlight
  /\ LET p == JidForKey(ChatOf[m], known) IN
       wire' = IF Check(p) THEN wire \cup {[kind |-> kind, msg |-> m, to |-> p]}
               ELSE wire

\* The key of a message may itself name the number behind its LID.
ForwardMessage(m) ==
  /\ \E told \in SUBSET ({ChatOf[m]} \cap Tellable) :
       /\ lids' = lids \cup told
       /\ ForwardIfAllowed("ingested", m, lids \cup told)
  /\ UNCHANGED <<contacts, loaded, phones, tries, started, poll, backend, lapse>>

\* The key of a deletion is not searched for one.
ForwardDeletion(m) ==
  /\ ForwardIfAllowed("deleted", m, lids)
  /\ UNCHANGED <<contacts, connector, poll, backend, lapse>>

RegisteredVariant(p) == contacts[p] # "absent"

\* The backend's filter: a row that is active.
IsAllowed(p) == contacts[p] = "active"

\* applyMessageEvent asks the table; a lookup that fails is a rejection.
AdmitEvent(e) ==
  /\ e \in wire
  /\ IsAllowed(e.to)
  /\ wire' = wire \ {e}
  /\ handling' = handling \cup {e}
  /\ UNCHANGED <<contacts, connector, poll, stored, deleted, lapse>>

RejectEvent(e) ==
  /\ e \in wire
  /\ IsAllowed(e.to) => Faults
  /\ wire' = wire \ {e}
  /\ UNCHANGED <<contacts, connector, poll, backend, lapse>>

SaveLiveMessage(e) ==
  /\ e \in handling
  /\ e.kind = "ingested"
  /\ stored' = stored \cup {e.msg}
  /\ handling' = handling \ {e}
  /\ UNCHANGED <<contacts, connector, poll, wire, deleted, lapse>>

\* The row is looked up by the address in the key, and a LID address has none.
MarkMessageDeleted(e) ==
  /\ e \in handling
  /\ e.kind = "deleted"
  /\ deleted' = IF e.msg \in stored /\ ChatOf[e.msg] \notin ByLid
                  THEN deleted \cup {e.msg} ELSE deleted
  /\ handling' = handling \ {e}
  /\ UNCHANGED <<contacts, connector, poll, wire, stored, lapse>>

-------------------------------------------------------------------------------
(* Faults.                                                                 *)

PublishFails(e) ==
  /\ Faults
  /\ e \in wire
  /\ wire' = wire \ {e}
  /\ UNCHANGED <<contacts, connector, poll, backend, lapse>>

BackendRestart ==
  /\ Faults
  /\ handling' = {}
  /\ UNCHANGED <<contacts, connector, poll, wire, stored, deleted, lapse>>

\* Of the LID pairings those saved with the directory come back.
ConnectorRestart ==
  /\ Faults
  /\ loaded' = FALSE
  /\ phones' = {}
  /\ lids' \in SUBSET lids
  /\ tries' = 0
  /\ started' = FALSE
  /\ poll' = IdlePoll
  /\ lapse' = Unheard
  /\ UNCHANGED <<contacts, wire, backend>>

OwnerStep ==
  \E p \in Phone :
    \/ AddAllowedContact(p)
    \/ \E active \in BOOLEAN : SetAllowedContactActive(p, active)
    \/ DeleteAllowedContact(p)

PollStep == FetchCommands \/ ActivePhones \/ FetchFails \/ PollDone \/ StartSocket

ConnectorStep ==
  \/ \E c \in Chat : NoteLid(c)
  \/ \E m \in Message : ForwardMessage(m) \/ ForwardDeletion(m)

BackendStep ==
  \/ \E e \in wire : AdmitEvent(e) \/ RejectEvent(e)
  \/ \E e \in handling : SaveLiveMessage(e) \/ MarkMessageDeleted(e)

FaultStep ==
  \/ \E e \in wire : PublishFails(e)
  \/ BackendRestart
  \/ ConnectorRestart

Next == OwnerStep \/ PollStep \/ ConnectorStep \/ BackendStep \/ FaultStep

Spec == Init /\ [][Next]_vars

\* The poll loop runs every few seconds as long as the connector lives, and a poll
\* made again and again is answered some day; the backend goes on with a request it
\* has taken.  Nothing makes the owner, WhatsApp or a fault act.
Fairness ==
  /\ WF_vars(FetchCommands)
  /\ SF_vars(ActivePhones)
  /\ SF_vars(PollDone)
  /\ WF_vars(StartSocket)
  /\ \A e \in Event :
       /\ WF_vars(AdmitEvent(e) \/ RejectEvent(e))
       /\ WF_vars(SaveLiveMessage(e) \/ MarkMessageDeleted(e))

FairSpec == Spec /\ Fairness

-------------------------------------------------------------------------------
(* Properties.                                                             *)

\* Type invariant.
TypeOK ==
  /\ contacts \in [Phone -> {"absent", "active", "paused"}]
  /\ loaded \in BOOLEAN /\ started \in BOOLEAN
  /\ phones \subseteq Phone
  /\ lids \subseteq ByLid
  /\ tries \in 0 .. Attempts
  /\ poll \in [state : {"idle", "asked", "answered"}, phones : SUBSET Phone]
  /\ wire \subseteq Event /\ handling \subseteq Event
  /\ stored \subseteq Message /\ deleted \subseteq Message
  /\ lapse \in [Phone -> {"none", "unheard", "asked", "heard"}]

\* Once a poll that began after a withdrawal has been answered, nothing of that
\* contact leaves the connector until it is active again (README: content that may
\* not be read never leaves that process).
QuietAfterWithdrawal == [][\A e \in wire' \ wire : lapse[e.to] # "heard"]_vars

Admitted == {e.msg : e \in {f \in handling : f.kind = "ingested"}}

Kept == INSTANCE Consent WITH active <- Active, admitted <- Admitted, kept <- stored

\* The two filters, the stale copy and the check apart from the save implement
\* Consent: only what was admitted while its contact was active is ever stored.
ImplementsConsent == Kept!Spec

\* The connector's copy follows the table: a number that stays active gets in, and
\* one that stays withdrawn gets out.
AllowlistConverges ==
  \A p \in Phone :
    /\ p \in Active ~> (p \in phones \/ p \notin Active)
    /\ p \notin Active ~> (p \notin phones \/ p \in Active)

\* "Pesan yang dihapus untuk semua orang tetap menyisakan barisnya dengan is_deleted =
\* true" (README:91-92): an admitted deletion of a stored message marks its row.
DeletionMarks ==
  [][\A e \in handling \ handling' :
       e.kind = "deleted" /\ e.msg \in stored => e.msg \in deleted']_vars
===============================================================================
