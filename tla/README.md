# Ditalk in TLA+

Ditalk reads the WhatsApp conversations a user has chosen, keeps them encrypted and
prepares them for analysis. These modules model the parts of it in which something can go
wrong without a test noticing: several processes, requests nobody waits for, messages that
come twice or in the wrong order, and consent that may be withdrawn at any moment.

Paths are those of the repository; `index.js` and other `.js` files are under
`services/wa-connector/src`, `.go` files under `backend/internal`.

## The system

```
 phone <-> WhatsApp <-> wa-connector (Node, Baileys)  --POST /internal/events-->  backend API (Go) <-> PostgreSQL
                             ^                        --GET /internal/commands-->     ^
                             |        allowlist, logout, pair, backfill               |
                        auth files, directory file                          React dashboard, hashfill
```

| Part | State | Operations | What is hard, and what makes it correct |
|---|---|---|---|
| Message store (`storage/live.go`, `imports.go`, `hashfill.go`) | table `messages`, two unique indexes | save, edit, delete, react, import, hashfill | Events arrive unordered, twice or never; an import and live events describe the same messages. Rows stay unique and faithful, none is lost, deleted content comes back only by known ways. |
| Sessions (`live.go`, `waimport/sessionize.go`) | table `conversation_sessions` | attach one message, rebuild at an import | Any order of arrival; limits at gap and midnight. A session never spans too much, no message counts twice. |
| Consent gate (`allowlist.js`, `lidmap.js`, `storage/allowlist.go`) | `allowed_contacts`, the connector's copy, LID pairings | owner's changes, poll, two checks, save | The copy is stale, the second check is apart from the save, both processes restart. Nothing is kept that was not admitted while its contact was active. |
| Backfill (`wa/backfill.go`) | cursor, time, stalls of each walk | poll, request, page, retry | Slow and lost rounds look like the end of the history. The walk ends, and not because of one slow round. |
| Sockets and commands (`index.js`, `wa/state.go`) | socket, credentials, failure budget, one-shot flags | start, close, restart, pair, log out, poll | Handlers interleave at every `await`; old sockets keep their listeners. Never stranded, no multiplying of sockets, no silent loop. |
| Connector directory (`contacts.js`, `lidmap.js`, `index.js`) | chats, names, LID pairings, the dirty flag, the file; the backend's `candidates` | told by WhatsApp, publish, save, load, unlink | The flag goes down before the publish and the save it announces, while WhatsApp goes on telling; both may fail. The dashboard and the file follow the directory. |
| Profile pictures (`avatars.js`, `wa/state.go`) | attempts, one slow pass; `contactAvatars` | poll, pass, retry, store | A pass outlives polls and sockets. One pass at a time, and no picture waits for hours because a socket died. |
| Dashboard (`contact-picker.tsx`, `pairing.tsx`, `connection-badge.tsx`, `wa-profile.tsx`, `lib/wa.ts`) | two query caches, mutations under way | poll, click, invalidate | Answers older than a click, ids of rows that are gone. The page has its own writes, hits no wrong row and converges. |
| Reports of the connector (`wa/state.go`) | status, code, identity | reports, views | What the report of a logout drops is modelled; the order of status, code and identity reports is not. |
| Export parser (`waimport/parser.go`) | none | parse | Date order, continuation lines. Only its lines are modelled. |
| JIDs and numbers (`waid`) | none | normalise | Only "has a number or none" is modelled. |
| Crypto, auth, config | none | | Pure. Not modelled. |
| Queue, worker, AI client, ai-media; analysis and vault schema | | | Stubs and unused tables. Not modelled. |
| Navigation, theme, component library, `run.sh` | | | No state of the system. Not modelled. |

## Modules

| Module | Models | Proofs |
|---|---|---|
| `MessageStore` | rows of one conversation, live events, import, hashfill | `MessageStoreProofs` |
| `Sessions`, `SessionRecompute` | sessions; their recomputation, both compared with a definition of runs | `SessionsProofs` |
| `Consent` | abstract: what the gate promises | |
| `ConsentGate` | the gate in detail; refines `Consent` | `ConsentGateProofs` |
| `Backfill` | the walk through one conversation's history | `BackfillProofs` |
| `Linking` | sockets, credentials, commands | `LinkingProofs` |
| `Directory` | the contact directory from WhatsApp to the dashboard and the file | `DirectoryProofs` |
| `Pictures` | the fetching and keeping of profile pictures | `PicturesProofs` |
| `Dashboard` | the pairing page, its queries and its buttons | `DashboardProofs` |
| `MCMessageStore`, `MCSessions`, `MCConsentGate`, `MCLinking`, `MCDirectory`, `MCPictures`, `MCDashboard` | small instances for TLC | |

A definition whose name ends in `Variant` is a plausible mistake in the code its neighbour
models. No action uses one; exchanging it for its neighbour makes a property fail, which
shows that the property depends on that code.

### MessageStore

`rows` is the table, restricted to one conversation. `phone` is what WhatsApp shows, the
truth the rows are compared with, and `wrote` remembers every text a message has had.
`wire` holds the events that `publish` has POSTed and the backend has not handled: a set,
because `forwardIfAllowed` does not wait for the answer (`index.js:83`). `Deliver` is a whole
handler, from `handleInternalEvents` to the SQL, `Lose` a failed POST. `Conflicts` stands for
both unique indexes, so `Insert` is `ON CONFLICT DO NOTHING`.

An import (`tx`) is a transaction: lines are inserted one at a time and seen by nobody before
`ImportCommit`. Its `INSERT ... ON CONFLICT DO UPDATE` of the conversation locks that row, and
`SaveLiveMessage` begins with the same statement; that is why `Deliver` of a message to be
saved waits for `~tx.open`, while edits, deletions and reactions, which touch only
`messages`, do not. The hashfill pass reads once and writes row by row; a write whose hash an
open import holds waits, and an error ends the pass.

Abstracted: texts are model values standing for trimmed strings (a hash is the triple it
is computed from, so different triples have different hashes), encryption is the identity
on content, message types are those that matter. A quoted id is copied and never read. `ephemeral` is the
wrapper around a message of a chat that forgets: `unwrap` opens it, `isViewOnce` does not (`RecognisedViewOnce`).

`Said` is what a row says was written, by whom and when. For an imported row it reads the line behind the derived id and not the
columns, because the side in the columns is a guess that depends on the `self_name` typed.

### Sessions and SessionRecompute

`at` gives each message a time for ever. `AttachToSession` is the query and the update of
`attachToSession`; `MarkMessageDeleted` marks a row and leaves the sessions as they are; `SessionizeLine` is the loop body of `Sessionize`, with the open import's state in
`tx`; `InsertSessions` is the delete and the inserts at the import. `members`, `imported` and `inOrder` are history; `inOrder`
says that the lines of the last import, if there was one, and the messages saved since came in time order.
Times may be equal, which matters at `ORDER BY start_at DESC`: any of the sessions that
start last may be chosen. The reference is declarative: `Runs(S)` are the largest sets of messages of one day without a long silence.
`RecomputeSessions` is the pass (`Recompute`) of the Go function of that name over the sorted timestamps of the rows that are not deleted, a recursive function from the number of those read to what
is left, closed and current; production never calls it (its test does), so it is an operator. It is compared with the `Runs` of what is
not deleted, the incremental sessions with those of what they count, and the two with each other. One calendar is assumed for database and
program: the code uses the server's zone in one and the export's zone in the other.

### Consent and ConsentGate

`contacts` is `allowed_contacts`; `loaded`, `phones`, `lids` and `started` are the connector's. A poll
has three steps (asked, answered by the table as it is then, arrived), and may fail between any two.
An event passes `Check` in the connector when it is published; the backend then takes `AdmitEvent` or
`RejectEvent`, and the write is a step of its own, with the owner free to act in between. `lapse`
is history: whether the connector has heard of a number's withdrawal through a poll that began after it.
`Consent` has three variables, and `ConsentGate` refines it with the active numbers, the admitted events
and the stored messages.

### Backfill

One conversation. `read` separates the poll's query of the oldest message (`BackfillCursors`) from the decision
(`ShouldRequest`), for messages may be stored between the two. Time is a flag, `recent`: requested less than
`backfillInterval` ago. A page is the messages before the anchor of its request, which arrive as
separate events. `slow` is history: rounds that were lost, or not landed when the decision about the
next was read; `late` marks requests the interval has passed over.

Not every message of a page gets stored (`MissMessage`): view-once messages and those without text are skipped, a POST that fails is not repeated, a
withdrawn contact's message is refused. What was not stored is never asked for again once something older is, so a hole stays for
ever, and a page of which nothing is stored looks like the end of the history; `Seen` is therefore what was published once, and
`Barren` the rounds that brought something and left nothing. `got` and `missed` are history. An import (`ImportExport`) may move the cursor to a
row whose id WhatsApp does not know; such a request is one that gets lost. Timestamps are distinct: a group of messages of one second that
is smaller than a page changes nothing, for the page before any message of the group reaches past it.

### Linking

`conn` is the state of every socket that still exists, `sock` the one the variable `sock` names. The handler of a
close has two halves around `await reportConnection`: `Closes` and `CloseHandled`. `startSocket` has two around its own await, `Begun` (the credentials are read)
and `Made` (the socket exists and `sock` names it); a restart goes through `RestartFires` and `SocketMade`, the one of a pairing, which `pollLoop` awaits,
through `PairReads` and `PairStarts`. `handleLogout` has three steps (`LogoutBegins`, `LogoutClears`, `LogoutReported`). `timers` counts the
restarts that `setTimeout` will fire, and the start `main` is about to make. `Cleared` is `clearAuth`, whose catch may leave the credentials where they
are. A start that throws is left out: it strands the connector at once. `auth` is the credentials on disk, numbered by the scan that made them, and `linked` those WhatsApp
accepts.

### Directory

`dir` is `ContactDirectory` (`chats`, the chat's `title`, `lastAt`, and `names`, which may name people without a chat), `lids` the
`byLid` of the LID map. `Told` and the three actions after it are the Baileys events; each sets `dirty` when the mutators do.
`loop` is where `pollLoop` stands: it puts the flag down and publishes (`PollPublishes`, `PublishArrives`, `PublishLost`), then saves
(`PollGoesOn`, `WriteBegins`, `WriteEnds`, `WriteFails`), then looks up a LID and turns to the command. Between
`WriteBegins` and `WriteEnds` the file is empty, as `writeFile` leaves it. An unlinking comes from the phone (`CloseReported`,
`CloseClears`) or from the dashboard (`LogoutBegins`, `LogoutClears`, `LogoutReported`); both clear files and leave the memory.
`ConnectorRestarts` runs `main` up to the loop. `missed` and `unsaved` are history: what was lost in a way the
code only logs. Names are their lengths, which is all `noteContact` compares. Chats of the same time are
sorted by a fixed `Order`; in the code it is the order in which they came into the `Map`.

### Pictures

`attempted` says of each person whether an attempt is due, failed or settled; time is what makes it due again (`RetryDue`
after a minute, `RefreshDue` after hours). `pass` holds the runs of `AvatarFetcher.run`, each with the socket it began with, and `Slot` has room
for two, so that a second one could be seen. A pass takes its next entry, asks over its socket, downloads without it, publishes; pictures in `Refused` are too large or in no supported format, so that the connector or the backend drops them; a poll, a new socket, a close or a logout
may come at any of these points. `kept` is `contactAvatars` with its cap, the oldest first. `stale` is history: people whose settled
attempt is not, or no longer, what the backend keeps.

### Dashboard

`contacts` and `status` are the data of the two queries, `getting` the GET under way of each, whose answer is read by the backend at one
moment and shown at another. `calls` has one mutation of each kind, as `useMutation` is used. `Click` obeys the disabled buttons,
`SubmitForm` only its own. `Succeeds` is `onSuccess` with `invalidateQueries`; a lost call refetches nothing. `Elsewhere` is
another tab. Row ids are never used twice: they come from the count of `writes`, so that an id is also the age of its row, and `seen` is the age of the list a click was made on. `Loading` is `isPending`: a query that never had an answer and has a GET under way. `Picker`, `Card` and `Badge` are what the components render,
as far as it depends on the two queries. React Query is external: modelled by what the page relies on (one fetch of a query at a
time; invalidation cancels the one under way unless it is the first).

## What the runs show

| Run | Bounds | States | Shows |
|---|---|---|---|
| `StoreLive` | 2 messages, 2 texts, 1 emoji, 2 events under way, loss | 0.75 M | `UniqueRows`, `LiveRowsFaithful`, `IndependentEventsCommute` |
| `StoreImport` | 1 message of four kinds, 2 texts, 2 emojis, exports, loss, 1 event under way | 0.76 M | `TypeOK`, `UniqueRows`, `RecognisedViewOnceNotStored`, `DeletedContentStaysOut`, `OneReactionPerSide`, `RowsEndure` |
| `Sessions` | 3 messages, 1 notice, times 0..5, days of 4, gap 1, 1 deletion | 1.6 M | `TypeOK`, `SessionsSound`, `CountedOnce`, `NeverOverMerged`, `InOrderMatchesRecompute`, `RecomputesRuns`, `RecomputeOnlySplits` |
| `ConsentGate` | 1 number with a plain and a LID chat, a group, faults, 2 events under way, fairness | 97 k | `TypeOK`, `QuietAfterWithdrawal`, `ImplementsConsent`, `AllowlistConverges` |
| `Backfill` | 4 messages, 2 of them never stored, pages of 2, 2 slow rounds, 1 other message lost, 1 import, 1 retry | 1.5 M | `TypeOK`, `SlowRoundSurvived`, `NoPileUp`, `WalkEnds` |
| `Linking` | 3 sockets, 3 refusals, 2 requests, 1 scan, faults | 0.54 M | `TypeOK`, `NeverStranded`, `OnePerRequest`, `NoSilentLoop`, `LogoutRemedies` |
| `Directory` | 2 people, 1 LID, a cap of 1 candidate, 2 times, 2 names, 1 link, 3 things told, 1 fault | 1.3 M | `TypeOK`, `NothingUnpublished`, `DiskFollows`, `CatchesUp` |
| `Pictures` | 2 people, room for 1 picture, 2 sockets, 1 change, to a picture that is refused or back to none, 1 fault, 2 slots | 0.28 M | `TypeOK`, `OnePass`, `ShownSoon` |
| `Dashboard` | 1 number, 3 acts, 1 loss | 0.59 M | `TypeOK`, `ReadYourWrites`, `OldRowHarmless`, `ShownConverges` |

Why the bounds are enough to be of interest. Two messages and two texts give two messages of the same content, and an edit
into the other's text; two events under way give every pair of orders. One message with exports of each
of its stages gives every meeting of a live row with the imported one, with either role (a mistyped `self_name`).
Three messages are the least with which a later one falls between two sessions that it fits both of; six ticks give a gap, a
midnight and a gap across midnight. Two slow rounds are the number that may end a walk, in a row or apart; two messages in the middle of the history that are never stored are a barren page or halves of two pages, as the cursor falls, and a lost one widens it.
One number with two chats and a group has every case of an address (plain, LID with its number known or not, none), and two events under way let one be past the check while another comes; numbers do not affect each other, and the proofs take any set of them.
Two requests give a logout after a pairing and a pairing after a logout, and three sockets what those leave behind.
Two people and a cap of one make the list leave somebody out; three things told are a chat, its change and the pairing of its LID, one of them
while the list is under way; one fault is a publish, a write or a process, each against all the rest, and the proofs lift
the bound. Two sockets give a pass that outlives its own, and room for one picture an eviction. One number and three acts give a row removed and chosen again while its old id is
clicked, and a click under a GET; rows do not affect each other except through the id, which the proof takes in general.
Deadlock is checked wherever polls go round for ever; the store and the sessions may come to rest when
everything the bounds allow has been done.

### Where the code and its documents differ

Three runs end in a violation of something a document or a comment says.

* `GateDeletion` - `DeletionMarks`: a deletion in a chat WhatsApp addresses by LID is admitted and marks nothing, for
  the row is looked up by the key's own address, against `README.md:91-92`.
* `ViewOnce` - `ViewOnceNotStored`: a view-once message inside an `ephemeralMessage` is published without the flag, for `isViewOnce` (`normalizer.js:38-40`)
  looks at the outermost wrapper, and is stored with its type and caption, against `README.md:87` ("View-once tidak disimpan").
* `UnlinkForgets` - `UnlinkForgets`: a list that is being published when the device is unlinked arrives after the report that
  drops the list, and the directory stays in memory (`index.js:358`), against `state.go:221-222`.

Met while modelling, without a run of their own.

Messages, sessions, history:

* An edit answered after the deletion of its message writes text into the deleted row: `live.go:313` does not look at
  `is_deleted` (`live_test.go:312` expects deleted text to be gone). The order of the POSTs decides.
* The text of a deleted message comes back through an older export imported with a `self_name` that is not the user's: the row has the other side
  and so another hash (`imports.go:103`), which `DeletedContentStaysOut` names as one of its two exceptions. The other is a different live message edited into that text.
* A message edited after its live copy met an imported row is redelivered with a text no row has, and adds one; so does a line imported again under another
  `self_name` if it first met a live row (`README.md:131-133` calls the import idempotent).
* If an import comes first, the live copy is refused and the WhatsApp id is not kept (`live.go:101`), while
  `migrations/00009_content_dedupe.sql:29-31` prefers the live row.
* An import drops the sessions of stored messages that are not in its file (`imports.go:145`; compare `README.md:132-133`).
* Recomputing sessions leaves deleted messages out (`live.go:213`), the stored sessions keep counting them; `RecomputeOnlySplits` says how far the two may differ.
* A lost POST, a skipped message or a refused one leaves a hole in the history that is never filled, and `maxStalls` pages in a row without a stored message end a walk
  before its beginning, though no round was slow (`internal_events.go:454-456`).
* Two slow rounds in a row end a walk early (admitted at `api/wa.go:137-139`). A revoke reported as an update is ignored
  (`internal_events.go:338`). A view-once message that could not be decrypted is stored as an empty row. An edited
  message, or an export with minutes only, does not meet the live row's hash (`00009` says so).

Sockets and commands:

* A logout or a pairing taken by the polls of `loadInitialAllowlist` is dropped (`index.js:608`), though `state.go:170-171` has it "acted
  on exactly once"; so is one whose answer is lost.
* A logout starts two restarts, and the socket `sock` forgets goes on reporting, so `socketOpen` may speak of another socket (comment at `index.js:43-44`).
  A late `connected` after `logged_out` brings the old identity back.

Directory and pictures:

* "A saved contact name beats a pushName" (`contacts.js:52`) is decided by length alone.
* A LID pairing learned during the write counts as saved (`index.js:551-552`) and is lost by a restart, against the comment above it.
* After a restart of the backend the picker is empty until something changes, and the status stays `disconnected` while the connector is open.
* `internal_events.go:196-197` says pictures come only for selected contacts; `index.js` fetches those of all candidates.
* A picture somebody removed stays: `none` is not published. After a logout the attempts stay settled, so pictures come back hours later.
* "Stop as soon as the socket goes away" (`avatars.js:78-79`): a pass goes on with the dead socket once another one is open; `ShownSoon` shows
  that it does no harm, for such failures are retried after a minute.

Dashboard:

* A connector killed while connected leaves the badge at "Tersambung" (`connection-badge.tsx:43`); the offline card is hidden in the same way.
* The rejection counts are fetched once. The form for a number clears its fields also when the call fails, and its call during the first load joins the GET under way.
* A second command replaces the first unless it was taken: a pairing asked for cancels a logout and the other way round, while the page says both were done.

## Fairness

`ConsentGate`: the poll loop goes round for ever, so `FetchCommands` and `StartSocket` are weakly fair; an answer competes with
a failure each time, so the answer and its arrival are strongly fair (a backend that never answers converges to nothing), also across restarts of the connector; the
backend finishes a request it has taken. The owner, WhatsApp and faults have no fairness.

`Backfill`: polls, decisions and the passing of time are weakly fair; WhatsApp answers a request that is not lost, and a
published message is handled, well or badly. The user need not retry.

`Linking`: timers fire, awaited calls return (the report and the removal of a close, the start of a socket), the loop goes round; connecting, showing a code and waiting for the
reconnection after a scan all come to an end. Nobody need scan a code, and an open socket may stay open. `NoSilentLoop` and `LogoutRemedies` except
a removal of credentials that fails, for then the refused session is tried again.

`Directory`: the poll loop goes round and every await of it ends, well or badly; so does the handler of a close. WhatsApp, the owner, faults
and restarts have no fairness.

`Pictures`: polls go on, what a pass awaits comes to an end (Baileys and `fetch` have time limits of their own), and a minute passes (`RetryDue`). Nothing is assumed of the
hours after which a settled attempt is repeated, so `ShownSoon` cannot lean on them.

`Dashboard`: both intervals go on and every request is answered or lost. Nobody need click.

## What is proved

All theorems hold for any constants that satisfy the modules' named assumptions; TLC evaluates these in every run.

**Message store** (`MessageStoreProofs`), everything its two runs check. `TypeCorrect`, `RowsUnique`, `RowsStay`, `LiveRowsDescribeTheirMessage`,
`DeletedTextStaysOut`, `OneSlotPerSide`, `RecognisedViewOnceStaysOut`, `IndependentOrderFree`, and `KnownRowsStayKnown`: what the table has once absorbed - a copy of a
message under its id, a copy whose time, side and text a row was stored with, a line imported again under the same `self_name` - it goes on absorbing,
whatever is edited, deleted or filled in between (it follows from `RowsStay`). It does not say that nothing is ever added: see the exceptions above. Type correctness alone is not inductive: an exported line shows a text only if every text
message on the phone has one (`PhoneTexts`). `UniqueInv` adds to `UniqueRows` that the rows of an open import are apart from
the committed ones, which holds because no live insert can happen under an open import. `FillInv` says of a hashfill
pass that it writes only rows that have no hash, each once: the rows it has read may have changed since. `FaithfulInv` extends
`LiveRowsFaithful` from the rows to the events still under way: whatever is on the wire describes its message, so any order of delivery is as good. `HashedInv`
says that a row whose text is unedited has the hash of that text, and a text message's row has one at all, which makes the unique index keep a deleted
row's content out unless the side or an edit differs. `ViewInv` extends `RecognisedViewOnceNotStored` to the wire in the same way. `IndependentOrderFree` needs no invariant but the types: an event that is no new message
rewrites rows one by one without touching id or hash (`ApplyRewrites`, `RewriteColumns`), rewritings of different columns commute
(`RewritesCommute`), and an insertion commutes with whatever leaves the keys alone (`InsertCommutes`).

**Sessions** (`SessionsProofs`). `SessionsTypeCorrect`, `SessionsAreSound` and `SessionsNeverOverMerged` (both assuming exports in time order), `MessagesCountedOnce`,
`InOrderIsRecompute`, `RecomputeComputesRuns`, `IncrementalIsRecompute`. The invariant covers the import under way: the sessions closed so far and the current one are sound, their members are lines already
read, and the lines to come are not earlier than the current session's end. In time order the sessions are moreover maximal and share
no message (`ExactInv`), and a message not earlier than all others extends the last run or begins one; so sessions and runs stay equal.
The recursive function is shown to exist by continuing a shorter pass (`PassExists`), and then that after each timestamp the closed sessions and the current one are the
runs of what was read (`PassIsExact`). Both are inductions over a set of numbers with a least element (`FiniteMin`, `UpTo`), for the library's
induction theorems take an operator. `IncrementalIsRecompute` puts the two together (`RecomputeOnlySplits`): it is what `TestRecomputeSessionsMatchesIncremental` samples, for
every history without an import, and with deleted messages, where each run of what is left lies in one run of all.

**Consent gate** (`ConsentGateProofs`). `GateTypeCorrect`, `WithdrawalSilences`, `GateImplementsConsent`. For the second the
invariant is that a number whose withdrawal has been heard is neither in the connector's copy nor in
an answer on its way. For the refinement it is that every event's number owns its message's chat, LID or not, so that the number
the backend asks the table about is the one `Consent` asks about; each action is then shown to be a step of `Consent` or a stutter.

**Backfill** (`BackfillProofs`). `BackfillTypeCorrect`, `WalkCompletes`, `NoRequestsPileUp`. A walk may end only on stalls, and that these were wasted rounds (slow, or barren with nothing left under way) needs to
know what the page of the latest round holds and where it is: `WalkInv` says that what was published or imported is the newest part of the
history without gaps, that the anchor of every request was stored, that each message of the latest round's page is asked for, under way, stored or missed, that a decision which
found nothing under way has read what is stored of it, and that every stall counted stands for a wasted round at the end of the walk. `PileInv` counts: a request younger than the
interval is the one the record calls recent, or one the user's retry left.

**Linking** (`LinkingProofs`). `LinkingTypeCorrect`, `ConnectorNeverStranded`, `SocketsNeverMultiply`. `CountInv` counts commands not yet carried out - flagged, taken, or half
through their handler - beside sockets and restarts: each can add one, and none is left over.

**Directory** (`DirectoryProofs`). `NoUpdateForgotten`, `FileKeepsUp`, `DirectoryTypeCorrect`. The first two need to know what is on its way: the list being published and the
image being written are those of the directory now, unless the flag went up again (`SendsLatest`, `WritesLatest`). That is where the order "flag down,
then publish, then save" matters. That a list keeps to its cap follows from its definition: its entries have different ranks, all of them below the cap.

**Pictures** (`PicturesProofs`). `OnePassAtATime`: the flag is up exactly when one pass is not over (`PassInv`). `PicturesTypeCorrect`: a newcomer at the cap takes the oldest
person's place, one already kept only moves, and no pass publishes without a picture in hand.

**Dashboard** (`DashboardProofs`). `ListHasOwnWrites`, `StaleClicksHarmless`, `DashboardTypeCorrect`. An answer on its way to a loaded list was read after everything the tab was told
of (`AnswerIsNew`), because an invalidation throws older ones away. Ids are ages
(`RowsAreOld`): a list, an answer or a call holds no row newer than its own reading of the table, and a row made later has a greater id than any of them, which is why an old row's buttons
cannot reach it. The bound
on writes is an account (`Budget`): a call under way has had its click and owes its write.

**Only model-checked.** Liveness, which depends on fairness and is out of the prover's reach: `AllowlistConverges`,
`WalkEnds`, `NoSilentLoop`, `LogoutRemedies`, `CatchesUp`, `ShownSoon`, `ShownConverges`. Every other property of a passing run has a theorem.

## Not modelled

* The order of the connector's status, code and identity reports (`state.go:205`). Two of them are out of order only when a logout has left two sockets behind, which `Linking` shows;
  what the dashboard then says is an arbitrary one of the reports, until the next.
* `ensureContactNames` asks WhatsApp again for what may be told at any time; the rejection counts, search box and code drawing change nothing else.
* `profile.js`: one picture, fetched when a socket opens.
* The parser: date order and continuation lines are functions of strings, tested line by line in `parser_test.go`.
* Encryption, tokens, configuration, `normalizePhone` (`000...` is not a fixed point of it: `waid.go` strips one prefix per call), schemas of forms: pure functions.
* Queue, worker, AI services, analysis and vault tables: no code behind them yet.

## Plan

1. `Reports`: status, code and identity with late reports, composed with the sockets of `Linking`.
2. `Parser`: date order and continuation lines as functions over abstract lines, checked against a reference definition.
3. An abstract specification of the store (what the rows of a conversation mean, given what the phone showed) that `MessageStore` implements.
4. Further proofs: that an import leaves every line of its file known, that abstract specification as a refinement, and the steps towards the
   liveness properties that are safety (what a step brings nearer, and that nothing takes it back).
