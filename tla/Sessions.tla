------------------------------- MODULE Sessions -------------------------------
(***************************************************************************)
(* The conversation_sessions of one conversation: runs of messages with no *)
(* silence longer than Gap, inside one day.                                *)
(*                                                                         *)
(* A live message extends a session or opens one (storage/live.go          *)
(* attachToSession); messages arrive in any order.  An import computes the *)
(* sessions of the file, line by line (waimport/sessionize.go), and        *)
(* replaces with them all sessions of the conversation                     *)
(* (storage/imports.go insertSessions), in the transaction that inserts    *)
(* the rows.  Live saves and imports of one conversation exclude each      *)
(* other: both begin by updating its row.                                  *)
(*                                                                         *)
(* A message that is both live and in a file is one element of Message:    *)
(* MessageStore models how the two copies meet.  Deleting a message marks  *)
(* its row and leaves the sessions as they are, editing it not even that;  *)
(* only a recomputation leaves deleted messages out (SessionRecompute).    *)
(***************************************************************************)
EXTENDS Integers, FiniteSets

CONSTANTS
  Message,       \* messages of the conversation, and notices of its exports
  Notice,        \* system notices: only exports have them
  Blank,         \* lines of exports without text: an import does not store them
  Stamp,         \* timestamps
  Gap,           \* longest silence inside a session
  Day,           \* the calendar day of each timestamp
  SortedExport,  \* whether the lines of an export are in time order
  Importing,     \* whether exports are imported
  MaxDeleted,    \* bound: deleted messages
  NoSession      \* no current session yet

ASSUME SessionsAssumption ==
  /\ Notice \subseteq Message /\ Blank \subseteq Message
  /\ Stamp \subseteq Int
  /\ Gap \in Nat
  /\ Day \in [Stamp -> Int]
  /\ \A t, u \in Stamp : t <= u => Day[t] <= Day[u]
  /\ SortedExport \in BOOLEAN /\ Importing \in BOOLEAN
  /\ MaxDeleted \in Nat

\* count is message_count; members is the history of what was counted.
Session == [start : Stamp, end : Stamp, count : Nat, members : SUBSET Message]

ASSUME NoSessionAssumption == NoSession \notin Session

VARIABLES
  at,        \* the timestamp of each message, fixed
  rows,      \* messages stored
  deleted,   \* those of them marked is_deleted
  sessions,  \* sessions stored
  inOrder,   \* history: since the last import, live messages came in time order
  imported,  \* history: whether an import was committed
  tx         \* the open import: lines left, rows and sessions so far

vars == <<at, rows, deleted, sessions, inOrder, imported, tx>>

NoTx == [open |-> FALSE, todo |-> {}, added |-> {}, closed |-> {}, current |-> NoSession]

Init ==
  /\ at \in [Message -> Stamp]
  /\ rows = {}
  /\ deleted = {}
  /\ sessions = {}
  /\ inOrder = TRUE
  /\ imported = FALSE
  /\ tx = NoTx

\* The messages counted in a set of sessions, and in those stored.
Members(S) == UNION {s.members : s \in S}
Counted == Members(sessions)

NewSession(m) == [start |-> at[m], end |-> at[m], count |-> 1, members |-> {m}]

-------------------------------------------------------------------------------
(* Live messages.  A ...Variant is what a plausible mistake would make of the *)
(* definition after it; no action uses one.                                *)

AnyDayVariant(s, t) == s.start - Gap <= t /\ t <= s.end + Gap
WideWindowVariant(s, t) ==
  /\ s.start - 2 * Gap <= t /\ t <= s.end + 2 * Gap
  /\ Day[s.start] = Day[t]
StrictWindowVariant(s, t) ==
  /\ s.start - Gap < t /\ t < s.end + Gap
  /\ Day[s.start] = Day[t]

\* The window around a session that takes a message in.
InWindow(s, t) ==
  /\ s.start - Gap <= t /\ t <= s.end + Gap
  /\ Day[s.start] = Day[t]

\* least(start_at, ts), greatest(end_at, ts), message_count + 1
Extend(s, m) ==
  [s EXCEPT !.start = IF at[m] < @ THEN at[m] ELSE @,
            !.end = IF at[m] > @ THEN at[m] ELSE @,
            !.count = @ + 1, !.members = @ \cup {m}]

\* Of the sessions whose window holds the message, the one that starts last.
AttachToSession(m) ==
  LET matching == {s \in sessions : InWindow(s, at[m])} IN
  \/ /\ matching = {}
     /\ sessions' = sessions \cup {NewSession(m)}
  \/ \E s \in matching :
       /\ \A o \in matching : o.start <= s.start
       /\ sessions' = (sessions \ {s}) \cup {Extend(s, m)}

\* A message stored for the first time; a duplicate changes nothing, and neither
\* a system notice nor an empty line comes live.
SaveLiveMessage(m) ==
  /\ ~tx.open
  /\ m \notin rows \cup Notice \cup Blank
  /\ rows' = rows \cup {m}
  /\ AttachToSession(m)
  /\ inOrder' = (inOrder /\ \A k \in Counted : at[k] <= at[m])
  /\ UNCHANGED <<at, deleted, imported, tx>>

\* The UPDATE waits for nobody: it writes the message's row alone, open import or not.
MarkMessageDeleted(m) ==
  /\ m \in rows \ deleted
  /\ Cardinality(deleted) < MaxDeleted
  /\ deleted' = deleted \cup {m}
  /\ UNCHANGED <<at, rows, sessions, inOrder, imported, tx>>

-------------------------------------------------------------------------------
(* Import.                                                                 *)

ImportBegin(lines) ==
  /\ Importing
  /\ ~tx.open
  /\ tx' = [open |-> TRUE, todo |-> lines, added |-> {}, closed |-> {},
            current |-> NoSession]
  /\ UNCHANGED <<at, rows, deleted, sessions, inOrder, imported>>

Continues(s, t) == Day[t] = Day[s.end] /\ t - s.end <= Gap

Grow(s, m) ==
  [s EXCEPT !.end = at[m], !.count = @ + 1, !.members = @ \cup {m}]

\* The body of Sessionize's loop.  A notice never opens a session.
SessionizeLine(m) ==
  LET s == tx.current IN
  IF s # NoSession /\ Continues(s, at[m])
    THEN [tx EXCEPT !.current = Grow(s, m)]
  ELSE IF m \in Notice THEN tx
  ELSE [tx EXCEPT !.current = NewSession(m),
                  !.closed = @ \cup ({s} \ {NoSession})]

\* The next line; the row is inserted unless it is a notice, blank or known.
ImportLine(m) ==
  /\ m \in tx.todo
  /\ SortedExport => \A o \in tx.todo : at[m] <= at[o]
  /\ tx' = [SessionizeLine(m) EXCEPT
              !.todo = @ \ {m},
              !.added = @ \cup ({m} \ (rows \cup Notice \cup Blank))]
  /\ UNCHANGED <<at, rows, deleted, sessions, inOrder, imported>>

NilSessionVariant == tx.closed \cup {tx.current}
AppendSessionsVariant == sessions \cup tx.closed \cup ({tx.current} \ {NoSession})

\* The DELETE and the INSERTs of insertSessions.
InsertSessions == tx.closed \cup ({tx.current} \ {NoSession})

\* A line may show its message as deleted; its row is inserted with the mark.
ImportCommit ==
  /\ tx.open
  /\ tx.todo = {}
  /\ rows' = rows \cup tx.added
  /\ \E shown \in SUBSET tx.added :
       /\ Cardinality(deleted \cup shown) <= MaxDeleted
       /\ deleted' = deleted \cup shown
  /\ sessions' = InsertSessions
  /\ tx' = NoTx
  /\ inOrder' = SortedExport
  /\ imported' = TRUE
  /\ UNCHANGED at

ImportRollback ==
  /\ tx.open
  /\ tx' = NoTx
  /\ UNCHANGED <<at, rows, deleted, sessions, inOrder, imported>>

Next ==
  \/ \E m \in Message : SaveLiveMessage(m) \/ MarkMessageDeleted(m)
  \/ \E lines \in SUBSET Message : ImportBegin(lines)
  \/ \E m \in tx.todo : ImportLine(m)
  \/ ImportCommit
  \/ ImportRollback

Spec == Init /\ [][Next]_vars

-------------------------------------------------------------------------------
(* Properties.                                                             *)

\* Type invariant.
TypeOK ==
  /\ at \in [Message -> Stamp]
  /\ rows \subseteq Message /\ deleted \subseteq rows
  /\ sessions \subseteq Session
  /\ inOrder \in BOOLEAN /\ imported \in BOOLEAN
  /\ tx \in [open : BOOLEAN, todo : SUBSET Message, added : SUBSET Message,
             closed : SUBSET Session, current : Session \cup {NoSession}]

\* A session spans exactly its messages, on one day.
Spans(s) ==
  /\ \E m \in s.members : at[m] = s.start
  /\ \E m \in s.members : at[m] = s.end
  /\ \A m \in s.members : s.start <= at[m] /\ at[m] <= s.end
  /\ Day[s.start] = Day[s.end]

\* From no moment between two times is the next message of S more than Gap away.
NoSilence(S, from, to) ==
  \A x \in from .. (to - 1) : \E k \in S : x < at[k] /\ at[k] <= x + Gap

NoLongSilence(s) == NoSilence(s.members, s.start, s.end)

\* The sessions that a set of messages has by what a session is, however they are
\* computed: messages of one day with no long silence between them.
Together(S, m, n) ==
  /\ Day[at[m]] = Day[at[n]]
  /\ NoSilence(S, at[m], at[n]) /\ NoSilence(S, at[n], at[m])

Run(S, m) == {n \in S : Together(S, m, n)}
Earliest(R) == CHOOSE m \in R : \A n \in R : at[m] <= at[n]
Latest(R) == CHOOSE m \in R : \A n \in R : at[n] <= at[m]
RunSession(R) ==
  [start |-> at[Earliest(R)], end |-> at[Latest(R)], count |-> Cardinality(R), members |-> R]
Runs(S) == {RunSession(Run(S, m)) : m \in S}

\* However the messages arrive, a stored session never spans two days or a silence
\* longer than Gap, and its bounds are those of the messages counted in it.
SessionsSound == \A s \in sessions : Spans(s) /\ NoLongSilence(s)

\* No message is counted in two sessions, neither after messages that fit two
\* sessions nor after an import of messages already in sessions, and message_count
\* is the number of messages the session was built from.
CountedOnce ==
  /\ \A s, u \in sessions : s.members \cap u.members # {} => s = u
  /\ \A s \in sessions : s.count = Cardinality(s.members)

\* Incremental sessions may be split where the full computation would merge them
\* (live.go:149-151), but never joined where it would split: each lies inside one
\* run of the messages counted.
NeverOverMerged ==
  \A s \in sessions : \E r \in Runs(Counted) :
    s.members \subseteq r.members /\ r.start <= s.start /\ s.end <= r.end

\* TestRecomputeSessionsMatchesIncremental for every in-order arrival, and for
\* arrivals after an import: the sessions built one message or one line at a time
\* are the runs of the messages counted, which are all stored ones before any import.
InOrderMatchesRecompute ==
  inOrder => sessions = Runs(Counted) /\ (~imported => Counted = rows)
===============================================================================
