-------------------------------- MODULE Backfill --------------------------------
(***************************************************************************)
(* How the history of one conversation is walked backwards (wa/backfill.go, *)
(* pendingBackfill in api/internal_events.go, requestOlderHistory in the   *)
(* connector's index.js).                                                  *)
(*                                                                         *)
(* A poll of the connector makes the backend decide whether to ask for the *)
(* messages older than the oldest one stored.  The request may get lost on *)
(* the way (the answer to the poll is lost, the socket is not open), and   *)
(* its messages come back as ordinary events, handled one by one in any    *)
(* order.  Not all of them get stored, and what was not is never asked for *)
(* again once something older is stored.  WhatsApp never says that there   *)
(* is no more: the backend infers it from an oldest message that stays the *)
(* same.                                                                   *)
(*                                                                         *)
(* History messages are numbered from the oldest, 1; the newer ones that   *)
(* are stored anyway count as one, History + 1.  Their timestamps differ.  *)
(***************************************************************************)
EXTENDS Naturals, FiniteSets

CONSTANTS
  History,    \* messages on the phone older than the first one stored
  Batch,      \* messages asked for in a round
  MaxStalls,  \* rounds in a row without progress before the walk ends
  Skipped,    \* history messages never stored: view-once, or without text
  MaxSlow,    \* bound: rounds that do not land in time
  MaxMissed,  \* bound: other messages published and not stored
  MaxImports, \* bound: exports imported
  MaxResets   \* bound: times the user asks for another attempt

ASSUME BackfillAssumption ==
  /\ History \in Nat
  /\ Batch \in Nat \ {0}
  /\ MaxStalls \in Nat \ {0}
  /\ Skipped \subseteq 1 .. History
  /\ MaxSlow \in Nat /\ MaxMissed \in Nat /\ MaxImports \in Nat /\ MaxResets \in Nat

Older == 1 .. History
Cursor == 1 .. History + 1
NoCursor == 0  \* lastCursor.IsZero()

VARIABLES
  stored,  \* history messages stored
  entry,   \* the backend's record of the walk
  read,    \* what a poll read of the stored messages before its decision
  round,   \* history: requests made
  asked,   \* requests under way; late is history: the interval has passed since
  wire,    \* history messages published and not handled
  slow,    \* history: rounds that did not land in time
  got,     \* history: rounds of which a message was stored
  missed,  \* history: messages published, with their round, and not stored
  imports, \* history: exports imported
  resets   \* history: times the user tried again

vars == <<stored, entry, read, round, asked, wire, slow, got, missed, imports, resets>>
outcome == <<got, missed, imports>>

\* An absent entry; a poll that creates one goes on at once to make a request.
Fresh == [last |-> NoCursor, recent |-> FALSE, stalls |-> 0, done |-> FALSE]

NoRead == [oldest |-> NoCursor, underWay |-> {}]

Init ==
  /\ stored = {}
  /\ entry = Fresh
  /\ read = NoRead
  /\ round = 0
  /\ asked = {}
  /\ wire = {}
  /\ slow = {}
  /\ got = {}
  /\ missed = {}
  /\ imports = 0
  /\ resets = 0

Oldest == CHOOSE c \in stored \cup {History + 1} :
            \A d \in stored \cup {History + 1} : c <= d

UnderWay == {q.round : q \in asked} \cup {w.round : w \in wire}

\* A poll of the connector reads the oldest stored message of the conversation.
BackfillCursors ==
  /\ read = NoRead
  /\ Cardinality(slow \cup UnderWay) <= MaxSlow
  /\ read' = [oldest |-> Oldest, underWay |-> UnderWay]
  /\ UNCHANGED <<stored, entry, round, asked, wire, slow, outcome, resets>>

\* A ...Variant is what a plausible mistake would make of the definition after it.
OneMoreVariant(stalls) == stalls > MaxStalls
OneStallVariant(stalls) == stalls >= 1

\* The history counts as exhausted.
Exhausted(stalls) == stalls >= MaxStalls

\* The part of ShouldRequest behind its early returns.  The first request always
\* goes out; then an oldest message that has not moved is a stall.
ShouldRequest(e, oldest) ==
  LET stalls == IF e.last = NoCursor \/ oldest < e.last THEN 0 ELSE e.stalls + 1 IN
  IF Exhausted(stalls)
    THEN [last |-> e.last, recent |-> e.recent, stalls |-> stalls, done |-> TRUE]
    ELSE [last |-> oldest, recent |-> TRUE, stalls |-> stalls, done |-> FALSE]

EveryPollVariant == ~entry.done
OncePerWalkVariant == ~entry.done /\ entry.last = NoCursor

\* Neither finished nor asked within the interval.
Due == ~entry.done /\ ~entry.recent

\* The decision, made on what was read; a round that had not landed by then is slow.
PendingBackfill ==
  /\ read # NoRead
  /\ read' = NoRead
  /\ IF Due
       THEN /\ entry' = ShouldRequest(entry, read.oldest)
            /\ slow' = slow \cup read.underWay
            /\ IF entry'.done
                 THEN UNCHANGED <<round, asked>>
                 ELSE /\ round' = round + 1
                      /\ asked' = asked \cup {[round |-> round + 1, anchor |-> read.oldest,
                                             late |-> FALSE]}
       ELSE UNCHANGED <<entry, slow, round, asked>>
  /\ UNCHANGED <<stored, wire, outcome, resets>>

\* backfillInterval passes.
IntervalPasses ==
  /\ entry.recent
  /\ entry' = [entry EXCEPT !.recent = FALSE]
  /\ asked' = {[q EXCEPT !.late = TRUE] : q \in asked}
  /\ UNCHANGED <<stored, read, round, wire, slow, outcome, resets>>

\* The request never reaches WhatsApp: the poll's answer was lost, the socket is
\* not open, or the call failed.
RequestLost(q) ==
  /\ q \in asked
  /\ asked' = asked \ {q}
  /\ slow' = slow \cup {q.round}
  /\ Cardinality(slow') <= MaxSlow
  /\ UNCHANGED <<stored, entry, read, round, wire, outcome, resets>>

\* An ON_DEMAND history sync: the page before the anchor.
HistoryArrives(q) ==
  /\ q \in asked
  /\ asked' = asked \ {q}
  /\ wire' = wire \cup {[round |-> q.round, msg |-> m] :
                          m \in {o \in Older : o < q.anchor /\ q.anchor <= o + Batch}}
  /\ UNCHANGED <<stored, entry, read, round, slow, outcome, resets>>

StoreMessage(w) ==
  /\ w \in wire
  /\ w.msg \notin Skipped
  /\ wire' = wire \ {w}
  /\ stored' = stored \cup {w.msg}
  /\ got' = got \cup {w.round}
  /\ UNCHANGED <<entry, read, round, asked, slow, missed, imports, resets>>

\* The message is skipped, its POST fails and is not repeated, or the owner has
\* withdrawn the contact and the backend refuses it.
MissMessage(w) ==
  /\ w \in wire
  /\ w.msg \in Skipped \/ Cardinality({x \in missed : x.msg \notin Skipped}) < MaxMissed
  /\ wire' = wire \ {w}
  /\ missed' = missed \cup {w}
  /\ UNCHANGED <<stored, entry, read, round, asked, slow, got, imports, resets>>

\* An import of an export that goes back to m.  The cursor may be one of its rows from
\* then on; WhatsApp does not know their ids, so such a request may get lost.
ImportExport(m) ==
  /\ imports < MaxImports
  /\ imports' = imports + 1
  /\ stored' = stored \cup m .. History
  /\ UNCHANGED <<entry, read, round, asked, wire, slow, got, missed, resets>>

\* handleBackfillRetry: the walk begins anew.
Reset ==
  /\ resets < MaxResets
  /\ resets' = resets + 1
  /\ entry' = Fresh
  /\ UNCHANGED <<stored, read, round, asked, wire, slow, outcome>>

Next ==
  \/ BackfillCursors
  \/ PendingBackfill
  \/ IntervalPasses
  \/ \E q \in asked : RequestLost(q) \/ HistoryArrives(q)
  \/ \E w \in wire : StoreMessage(w) \/ MissMessage(w)
  \/ \E m \in Older : ImportExport(m)
  \/ Reset

Spec == Init /\ [][Next]_vars

\* The connector polls every few seconds and time passes; what was asked for and
\* not lost is answered, and a published message is handled.  The user need not act.
Fairness ==
  /\ WF_vars(BackfillCursors)
  /\ WF_vars(PendingBackfill)
  /\ WF_vars(IntervalPasses)
  /\ WF_vars(\E q \in asked : HistoryArrives(q))
  /\ WF_vars(\E w \in wire : StoreMessage(w) \/ MissMessage(w))

FairSpec == Spec /\ Fairness

-------------------------------------------------------------------------------
(* Properties.                                                             *)

\* Type invariant.
TypeOK ==
  /\ stored \subseteq Older
  /\ entry \in [last : Cursor \cup {NoCursor}, recent : BOOLEAN,
                stalls : 0 .. MaxStalls, done : BOOLEAN]
  /\ read \in [oldest : Cursor \cup {NoCursor}, underWay : SUBSET (1 .. round)]
  /\ round \in Nat
  /\ asked \subseteq [round : 1 .. round, anchor : Cursor, late : BOOLEAN]
  /\ wire \subseteq [round : 1 .. round, msg : Older]
  /\ slow \subseteq 1 .. round /\ got \subseteq 1 .. round
  /\ missed \subseteq [round : 1 .. round, msg : Older]
  /\ imports \in 0 .. MaxImports
  /\ resets \in 0 .. MaxResets

Seen == stored \cup {w.msg : w \in wire \cup missed}
AllSeen == Older \subseteq Seen

\* Rounds that brought messages of which none was stored.
Barren == {r \in {w.round : w \in missed} : r \notin got}

\* The walk ends only with the whole history stored, or at least published once ("as
\* long as a selected contact still yields older messages, another page is requested",
\* internal_events.go:454-456), unless maxStalls rounds in a row were lost or late or had
\* nothing of their page stored: "Two guards against a single slow round"
\* (backfill.go:33-35), wherever it falls, however late it lands and however stale the
\* oldest message a decision used.
SlowRoundSurvived ==
  entry.done => \/ AllSeen
                \/ \E r \in slow \cup Barren :
                     r .. (r + MaxStalls - 1) \subseteq slow \cup Barren

\* Requests do not pile up (backfill.go:30-32): however often the connector polls, at
\* most one request younger than the interval is under way, and one more for each
\* attempt the user ordered.
NoPileUp == Cardinality({q \in asked : ~q.late}) <= 1 + resets

\* Every walk comes to an end, however many rounds are slow, unless the user starts
\* it anew.
WalkEnds == []<>entry.done
===============================================================================
