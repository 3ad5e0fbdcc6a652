---------------------------- MODULE SessionsProofs ----------------------------
(***************************************************************************)
(* Proofs about Sessions and SessionRecompute, for every set of messages,  *)
(* gap and calendar.                                                       *)
(***************************************************************************)
EXTENDS SessionRecompute, TLAPS, FiniteSetTheorems

\* The sessions of the open import, the current one included.
Pending == tx.closed \cup ({tx.current} \ {NoSession})

-------------------------------------------------------------------------------
(* Type correctness.                                                       *)

LEMMA NewSessionType ==
  ASSUME TypeOK, NEW m \in Message
  PROVE  NewSession(m) \in Session
BY DEF TypeOK, NewSession, Session

LEMMA ExtendType ==
  ASSUME TypeOK, NEW s \in Session, NEW m \in Message
  PROVE  Extend(s, m) \in Session /\ Grow(s, m) \in Session
<1>1. at[m] \in Stamp
  BY DEF TypeOK
<1>2. ASSUME NEW start \in Stamp, NEW end \in Stamp
      PROVE  [s EXCEPT !.start = start, !.end = end, !.count = @ + 1,
                       !.members = @ \cup {m}] \in Session
  <2>1. s.count + 1 \in Nat /\ s.members \cup {m} \in SUBSET Message
    BY DEF Session
  <2> QED BY <2>1 DEF Session
<1>3. Grow(s, m) = [s EXCEPT !.start = s.start, !.end = at[m], !.count = @ + 1,
                             !.members = @ \cup {m}]
  BY DEF Grow, Session
<1>4. s.start \in Stamp /\ s.end \in Stamp
  BY DEF Session
<1> QED BY <1>1, <1>2, <1>3, <1>4 DEF Extend

LEMMA NoTxType ==
  /\ NoTx \in [open : BOOLEAN, todo : SUBSET Message, added : SUBSET Message,
               closed : SUBSET Session, current : Session \cup {NoSession}]
  /\ NoTx.todo = {} /\ NoTx.closed = {} /\ NoTx.current = NoSession
BY DEF NoTx

LEMMA SessionsTypeInit == Init => TypeOK
<1> SUFFICES ASSUME Init PROVE TypeOK
  OBVIOUS
<1>1. inOrder \in BOOLEAN /\ imported \in BOOLEAN
  BY Zenon DEF Init
<1>2. /\ rows = {} /\ deleted = {} /\ sessions = {} /\ tx = NoTx
      /\ at \in [Message -> Stamp]
  BY DEF Init
<1> QED BY <1>1, <1>2, NoTxType, Zenon DEF TypeOK

\* What one line makes of the open import.
LEMMA SessionizeCases ==
  ASSUME TypeOK, NEW m \in Message
  PROVE  LET t == SessionizeLine(m) IN
         /\ t \in [open : BOOLEAN, todo : SUBSET Message, added : SUBSET Message,
                   closed : SUBSET Session, current : Session \cup {NoSession}]
         /\ t.open = tx.open /\ t.todo = tx.todo /\ t.added = tx.added
         /\ \/ /\ tx.current # NoSession /\ Continues(tx.current, at[m])
               /\ t.current = Grow(tx.current, m) /\ t.closed = tx.closed
            \/ /\ ~(tx.current # NoSession /\ Continues(tx.current, at[m]))
               /\ \/ t.current = tx.current /\ t.closed = tx.closed
                  \/ t.current = NewSession(m) /\ t.closed = Pending
<1>1. /\ tx \in [open : BOOLEAN, todo : SUBSET Message, added : SUBSET Message,
                 closed : SUBSET Session, current : Session \cup {NoSession}]
      /\ tx.current # NoSession => Grow(tx.current, m) \in Session
      /\ NewSession(m) \in Session
  BY NewSessionType, ExtendType DEF TypeOK
<1>2. CASE tx.current # NoSession /\ Continues(tx.current, at[m])
  <2>1. SessionizeLine(m) = [tx EXCEPT !.current = Grow(tx.current, m)]
    BY <1>2 DEF SessionizeLine
  <2> QED BY <1>1, <1>2, <2>1
<1>3. CASE ~(tx.current # NoSession /\ Continues(tx.current, at[m]))
  <2>1. CASE m \in Notice
    BY <1>1, <1>3, <2>1 DEF SessionizeLine
  <2>2. CASE m \notin Notice
    <3>1. SessionizeLine(m) = [tx EXCEPT !.current = NewSession(m), !.closed = Pending]
      BY <1>3, <2>2 DEF SessionizeLine, Pending
    <3>2. Pending \subseteq Session
      BY <1>1 DEF Pending
    <3> DEFINE line == SessionizeLine(m)
    <3>3. line = [tx EXCEPT !.current = NewSession(m), !.closed = Pending]
      BY <3>1
    <3> HIDE DEF line
    <3>4. /\ line \in [open : BOOLEAN, todo : SUBSET Message, added : SUBSET Message,
                       closed : SUBSET Session, current : Session \cup {NoSession}]
          /\ line.open = tx.open /\ line.todo = tx.todo /\ line.added = tx.added
          /\ line.current = NewSession(m) /\ line.closed = Pending
      BY <1>1, <3>2, <3>3
    <3> QED BY <1>3, <3>4 DEF line
  <2> QED BY <2>1, <2>2
<1> QED BY <1>2, <1>3

\* The parts of a step that change the sessions or the open import.
LEMMA SessionsCases ==
  ASSUME TypeOK, [Next]_vars
  PROVE  /\ at' = at
         /\ \/ \E m \in Message : SaveLiveMessage(m)
            \/ \E lines \in SUBSET Message : ImportBegin(lines)
            \/ \E m \in tx.todo : ImportLine(m)
            \/ ImportCommit
            \/ UNCHANGED <<at, rows, sessions, inOrder, imported>> /\ (tx' = tx \/ tx' = NoTx)
         /\ deleted' \subseteq rows'
BY DEF TypeOK, Next, vars, SaveLiveMessage, MarkMessageDeleted, ImportBegin, ImportLine,
       ImportCommit, ImportRollback

\* What saving a message makes of the sessions.
LEMMA AttachCases ==
  ASSUME NEW m \in Message, SaveLiveMessage(m)
  PROVE  \/ sessions' = sessions \cup {NewSession(m)}
         \/ \E s \in sessions : /\ InWindow(s, at[m])
                               /\ sessions' = (sessions \ {s}) \cup {Extend(s, m)}
BY DEF SaveLiveMessage, AttachToSession

LEMMA SessionsTypeStep ==
  ASSUME TypeOK, [Next]_vars
  PROVE  TypeOK'
<1>d. deleted' \subseteq rows'
  BY SessionsCases
<1>1. ASSUME NEW m \in Message, SaveLiveMessage(m) PROVE TypeOK'
  <2>1. sessions' \subseteq Session
    BY <1>1, AttachCases, NewSessionType, ExtendType DEF TypeOK
  <2>2. inOrder' \in BOOLEAN /\ rows' \subseteq Message /\ UNCHANGED <<at, imported, tx>>
    BY <1>1 DEF SaveLiveMessage, TypeOK
  <2> QED BY <1>d, <2>1, <2>2 DEF TypeOK
<1>2. ASSUME NEW lines \in SUBSET Message, ImportBegin(lines) PROVE TypeOK'
  BY <1>2, <1>d DEF ImportBegin, TypeOK
<1>3. ASSUME NEW m \in tx.todo, ImportLine(m) PROVE TypeOK'
  <2>1. m \in Message
    BY DEF TypeOK
  <2>2. tx' \in [open : BOOLEAN, todo : SUBSET Message, added : SUBSET Message,
                 closed : SUBSET Session, current : Session \cup {NoSession}]
    <3> DEFINE t == SessionizeLine(m)
    <3>1. t \in [open : BOOLEAN, todo : SUBSET Message, added : SUBSET Message,
                 closed : SUBSET Session, current : Session \cup {NoSession}]
      BY <2>1, SessionizeCases
    <3>2. tx' = [t EXCEPT !.todo = @ \ {m},
                          !.added = @ \cup ({m} \ (rows \cup Notice \cup Blank))]
      BY <1>3 DEF ImportLine
    <3> HIDE DEF t
    <3> QED BY <2>1, <3>1, <3>2
  <2> QED BY <1>3, <1>d, <2>2 DEF ImportLine, TypeOK
<1>4. CASE ImportCommit
  <2>1. Pending \subseteq Session /\ rows \cup tx.added \subseteq Message
    BY DEF TypeOK, Pending
  <2>2. /\ rows' = rows \cup tx.added /\ sessions' = Pending /\ at' = at /\ tx' = NoTx
        /\ inOrder' = SortedExport /\ imported' = TRUE
    BY <1>4 DEF ImportCommit, InsertSessions, Pending
  <2>3. inOrder' \in BOOLEAN /\ imported' \in BOOLEAN
    BY <2>2, SessionsAssumption, Zenon
  <2>4. at \in [Message -> Stamp]
    BY DEF TypeOK
  <2> QED BY <1>d, <2>1, <2>2, <2>3, <2>4, NoTxType, Zenon DEF TypeOK
<1>5. CASE UNCHANGED <<at, rows, sessions, inOrder, imported>> /\ (tx' = tx \/ tx' = NoTx)
  BY <1>5, <1>d, NoTxType DEF TypeOK
<1> QED BY <1>1, <1>2, <1>3, <1>4, <1>5, SessionsCases

\* Every reachable state of the sessions is well-typed.
THEOREM SessionsTypeCorrect == Spec => []TypeOK
BY SessionsTypeInit, SessionsTypeStep, PTL DEF Spec

-------------------------------------------------------------------------------
(* SessionsSound.                                                          *)

Sound(s) == Spans(s) /\ NoLongSilence(s)

\* A session grows at its end, at its start or not at all: none of it adds a
\* silence longer than Gap.
LEMMA NewSessionSound ==
  ASSUME TypeOK, NEW m \in Message
  PROVE  Sound(NewSession(m))
<1>1. at[m] \in Int
  BY SessionsAssumption DEF TypeOK
<1>2. NewSession(m).start = at[m] /\ NewSession(m).end = at[m] /\ NewSession(m).members = {m}
  BY DEF NewSession
<1> QED BY <1>1, <1>2 DEF Sound, Spans, NoLongSilence, NoSilence

LEMMA ExtendSound ==
  ASSUME TypeOK, NEW s \in Session, Sound(s), NEW m \in Message, InWindow(s, at[m])
  PROVE  Sound(Extend(s, m))
<1> DEFINE t == at[m]
           e == Extend(s, m)
<1>1. /\ t \in Int /\ t \in Stamp /\ s.start \in Int /\ s.end \in Int /\ Gap \in Nat
      /\ \A x \in Message : at[x] \in Int /\ s.members \subseteq Message
  BY SessionsAssumption DEF TypeOK, Session
<1>2. /\ e.start = IF t < s.start THEN t ELSE s.start
      /\ e.end = IF t > s.end THEN t ELSE s.end
      /\ e.members = s.members \cup {m}
  BY DEF Extend, Session
<1>3. s.start - Gap <= t /\ t <= s.end + Gap /\ Day[s.start] = Day[t]
  BY DEF InWindow
<1>4. PICK x \in s.members : at[x] = s.start
  BY DEF Sound, Spans
<1>5. PICK y \in s.members : at[y] = s.end
  BY DEF Sound, Spans
<1>6. \A z \in s.members : s.start <= at[z] /\ at[z] <= s.end
  BY DEF Sound, Spans
<1>7. Day[s.start] = Day[s.end]
  BY DEF Sound, Spans
<1> HIDE DEF t, e
<1>8. at[m] = t
  BY DEF t
<1>9. Spans(e)
  <2>1. \E z \in e.members : at[z] = e.start
    BY <1>2, <1>4, <1>8
  <2>2. \E z \in e.members : at[z] = e.end
    BY <1>2, <1>5, <1>8
  <2>3. \A z \in e.members : e.start <= at[z] /\ at[z] <= e.end
    BY <1>1, <1>2, <1>4, <1>6, <1>8
  <2>4. Day[e.start] = Day[e.end]
    BY <1>2, <1>3, <1>7
  <2> QED BY <2>1, <2>2, <2>3, <2>4 DEF Spans
<1>10. ASSUME NEW x1 \in e.start .. (e.end - 1)
       PROVE  \E z \in e.members : x1 < at[z] /\ at[z] <= x1 + Gap
  <2>1. x1 \in Int /\ e.start <= x1 /\ x1 < e.end
    BY <1>1, <1>2
  <2>2. CASE x1 < s.start
    BY <1>1, <1>2, <1>3, <1>4, <2>1, <2>2
  <2>3. CASE x1 >= s.end
    BY <1>1, <1>2, <1>3, <1>8, <2>1, <2>3
  <2>4. CASE s.start <= x1 /\ x1 < s.end
    <3>1. x1 \in s.start .. (s.end - 1)
      BY <1>1, <2>1, <2>4
    <3> QED BY <1>2, <3>1 DEF Sound, NoLongSilence, NoSilence
  <2> QED BY <1>1, <2>1, <2>2, <2>3, <2>4
<1> QED BY <1>9, <1>10 DEF Sound, NoLongSilence, NoSilence, e

\* Grow is only right for a line that is not before the end of the session.
LEMMA GrowSound ==
  ASSUME TypeOK, NEW s \in Session, Sound(s), NEW m \in Message,
         Continues(s, at[m]), s.end <= at[m]
  PROVE  Sound(Grow(s, m)) /\ Grow(s, m).end = at[m]
<1>1. at[m] \in Int /\ s.start \in Int /\ s.end \in Int /\ Gap \in Nat
  BY SessionsAssumption DEF TypeOK, Session
<1>2. \E x \in s.members : at[x] = s.start /\ s.start <= s.end
  BY DEF Sound, Spans
<1>3. InWindow(s, at[m])
  BY <1>1, <1>2 DEF Continues, InWindow, Sound, Spans
<1>4. Grow(s, m) = Extend(s, m)
  <2>1. ~(at[m] < s.start) /\ (at[m] > s.end \/ at[m] = s.end)
    BY <1>1, <1>2
  <2> QED BY <2>1 DEF Grow, Extend, Session
<1>5. Grow(s, m).end = at[m]
  BY DEF Grow, Session
<1> QED BY <1>3, <1>4, <1>5, ExtendSound

\* The sessions of a file are only sound while its lines come in time order: the
\* current session ends before every line still to come.
SoundInv ==
  /\ TypeOK
  /\ \A s \in sessions : Sound(s)
  /\ \A s \in Pending : Sound(s)
  /\ tx.current # NoSession => \A m \in tx.todo : tx.current.end <= at[m]

LEMMA SoundInit == Init => SoundInv
BY SessionsTypeInit DEF Init, SoundInv, Pending, NoTx

LEMMA SoundStep ==
  ASSUME SortedExport, SoundInv, [Next]_vars
  PROVE  SoundInv'
<1>t. TypeOK /\ TypeOK' /\ at' = at
  BY SessionsTypeStep, SessionsCases DEF SoundInv
<1>s. ASSUME NEW s PROVE Sound(s)' <=> Sound(s)
  BY <1>t DEF Sound, Spans, NoLongSilence, NoSilence
<1>1. ASSUME NEW m \in Message, SaveLiveMessage(m) PROVE SoundInv'
  <2>1. \A s \in sessions' : Sound(s)
    BY <1>1, <1>t, AttachCases, NewSessionSound, ExtendSound DEF SoundInv, TypeOK
  <2>2. tx' = tx
    BY <1>1 DEF SaveLiveMessage
  <2> QED BY <1>t, <1>s, <2>1, <2>2 DEF SoundInv, Pending
<1>2. ASSUME NEW lines \in SUBSET Message, ImportBegin(lines) PROVE SoundInv'
  BY <1>2, <1>t, <1>s DEF ImportBegin, SoundInv, Pending
<1>3. ASSUME NEW m \in tx.todo, ImportLine(m) PROVE SoundInv'
  <2> DEFINE t == SessionizeLine(m)
  <2>1. m \in Message /\ at[m] \in Int
    BY <1>t, SessionsAssumption DEF TypeOK
  <2>2. \A o \in tx.todo : at[m] <= at[o]
    BY <1>3 DEF ImportLine
  <2>3. /\ t \in [open : BOOLEAN, todo : SUBSET Message, added : SUBSET Message,
                  closed : SUBSET Session, current : Session \cup {NoSession}]
        /\ \/ /\ tx.current # NoSession /\ Continues(tx.current, at[m])
              /\ t.current = Grow(tx.current, m) /\ t.closed = tx.closed
           \/ t.current = tx.current /\ t.closed = tx.closed
           \/ t.current = NewSession(m) /\ t.closed = Pending
    BY <1>t, <2>1, SessionizeCases
  <2>4. tx' = [t EXCEPT !.todo = @ \ {m},
                        !.added = @ \cup ({m} \ (rows \cup Notice \cup Blank))]
        /\ sessions' = sessions /\ t.todo = tx.todo
    BY <1>3, <1>t, <2>1, SessionizeCases DEF ImportLine
  <2> HIDE DEF t
  <2>5. tx'.closed = t.closed /\ tx'.current = t.current /\ tx'.todo = tx.todo \ {m}
    BY <2>3, <2>4
  <2>6. CASE /\ tx.current # NoSession /\ Continues(tx.current, at[m])
             /\ t.current = Grow(tx.current, m) /\ t.closed = tx.closed
    <3>1. tx.current \in Session /\ Sound(tx.current) /\ tx.current.end <= at[m]
      BY <1>t, <2>6 DEF TypeOK, SoundInv, Pending
    <3>2. Sound(Grow(tx.current, m)) /\ Grow(tx.current, m).end = at[m]
      BY <1>t, <2>1, <2>6, <3>1, GrowSound
    <3> QED BY <1>t, <1>s, <2>2, <2>4, <2>5, <2>6, <3>2 DEF SoundInv, Pending
  <2>7. CASE t.current = tx.current /\ t.closed = tx.closed
    BY <1>t, <1>s, <2>4, <2>5, <2>7 DEF SoundInv, Pending
  <2>8. CASE t.current = NewSession(m) /\ t.closed = Pending
    <3>1. Sound(NewSession(m)) /\ NewSession(m).end = at[m]
      BY <1>t, <2>1, NewSessionSound DEF NewSession
    <3> QED BY <1>t, <1>s, <2>2, <2>4, <2>5, <2>8, <3>1 DEF SoundInv, Pending
  <2> QED BY <2>3, <2>6, <2>7, <2>8
<1>4. CASE ImportCommit
  <2>1. sessions' = Pending /\ tx' = NoTx
    BY <1>4 DEF ImportCommit, InsertSessions, Pending
  <2> QED BY <1>t, <1>s, <2>1 DEF SoundInv, Pending, NoTx
<1>5. CASE UNCHANGED <<at, rows, sessions, inOrder, imported>> /\ (tx' = tx \/ tx' = NoTx)
  BY <1>t, <1>s, <1>5 DEF SoundInv, Pending, NoTx
<1> QED BY <1>t, <1>1, <1>2, <1>3, <1>4, <1>5, SessionsCases

\* If exports are in time order, no session ever spans two days or a silence longer
\* than Gap, in whatever order live messages and imports come.
THEOREM SessionsAreSound ==
  ASSUME SortedExport
  PROVE  Spec => []SessionsSound
<1>1. SoundInv /\ [Next]_vars => SoundInv'
  BY SoundStep
<1>2. SoundInv => SessionsSound
  BY DEF SoundInv, SessionsSound, Sound
<1> QED BY <1>1, <1>2, SoundInit, PTL DEF Spec

-------------------------------------------------------------------------------
(* CountedOnce.                                                            *)

Counts(S) ==
  /\ \A s, u \in S : s.members \cap u.members # {} => s = u
  /\ \A s \in S : IsFiniteSet(s.members) /\ s.count = Cardinality(s.members)

\* A message that can still be saved or imported is in no session it would join.
CountInv ==
  /\ TypeOK
  /\ Counts(sessions)
  /\ \A s \in sessions : s.members \subseteq rows \cup Notice \cup Blank
  /\ Counts(Pending)
  /\ tx.current # NoSession => \A s \in tx.closed : s.members \cap tx.current.members = {}
  /\ \A s \in Pending : /\ s.members \subseteq rows \cup tx.added \cup Notice \cup Blank
                        /\ s.members \cap tx.todo = {}

LEMMA CountInit == Init => CountInv
BY SessionsTypeInit DEF Init, CountInv, Counts, Pending, NoTx

LEMMA NewSessionCounts ==
  ASSUME NEW m \in Message
  PROVE  /\ NewSession(m).members = {m} /\ NewSession(m).count = 1
         /\ IsFiniteSet({m}) /\ Cardinality({m}) = 1
BY FS_Singleton DEF NewSession

LEMMA ExtendCounts ==
  ASSUME NEW s \in Session, NEW m \in Message, m \notin s.members,
         IsFiniteSet(s.members), s.count = Cardinality(s.members),
         NEW e \in {Extend(s, m), Grow(s, m)}
  PROVE  /\ e.members = s.members \cup {m}
         /\ IsFiniteSet(e.members) /\ e.count = Cardinality(e.members)
<1>1. e.members = s.members \cup {m} /\ e.count = s.count + 1
  BY DEF Extend, Grow, Session
<1>2. IsFiniteSet(s.members \cup {m}) /\ Cardinality(s.members \cup {m}) = Cardinality(s.members) + 1
  BY FS_AddElement
<1> QED BY <1>1, <1>2

LEMMA CountStep ==
  ASSUME CountInv, [Next]_vars
  PROVE  CountInv'
<1>t. TypeOK /\ TypeOK'
  BY SessionsTypeStep DEF CountInv
<1>1. ASSUME NEW m \in Message, SaveLiveMessage(m) PROVE CountInv'
  <2>1. rows' = rows \cup {m} /\ tx' = tx /\ \A s \in sessions : m \notin s.members
    BY <1>1 DEF SaveLiveMessage, CountInv
  <2>2. CASE sessions' = sessions \cup {NewSession(m)}
    <3> DEFINE e == NewSession(m)
    <3>e. e.members = {m} /\ e.count = 1 /\ IsFiniteSet({m}) /\ Cardinality({m}) = 1
          /\ sessions' = sessions \cup {e}
      BY <2>2, NewSessionCounts
    <3> HIDE DEF e
    <3>d. \A s \in sessions : s.members \cap e.members = {}
      BY <2>1, <3>e
    <3>1. Counts(sessions')
      BY <3>d, <3>e DEF Counts, CountInv
    <3>2. \A s \in sessions' : s.members \subseteq rows' \cup Notice \cup Blank
      BY <2>1, <2>2, NewSessionCounts DEF CountInv
    <3> QED BY <1>t, <2>1, <3>1, <3>2 DEF CountInv, Pending, Counts
  <2>3. ASSUME NEW s \in sessions, sessions' = (sessions \ {s}) \cup {Extend(s, m)}
        PROVE  CountInv'
    <3> DEFINE e == Extend(s, m)
    <3>1. /\ e.members = s.members \cup {m}
          /\ IsFiniteSet(e.members) /\ e.count = Cardinality(e.members)
      BY <1>t, <2>1, ExtendCounts DEF CountInv, Counts, TypeOK
    <3>2. sessions' = (sessions \ {s}) \cup {e}
      BY <2>3
    <3> HIDE DEF e
    <3>d. \A u \in sessions \ {s} : u.members \cap e.members = {}
      BY <2>1, <3>1 DEF Counts, CountInv
    <3>3. Counts(sessions')
      BY <3>1, <3>2, <3>d DEF Counts, CountInv
    <3>4. \A u \in sessions' : u.members \subseteq rows' \cup Notice \cup Blank
      BY <2>1, <3>1, <3>2 DEF CountInv
    <3> QED BY <1>t, <2>1, <3>3, <3>4 DEF CountInv, Pending, Counts
  <2> QED BY <1>1, <2>2, <2>3, AttachCases
<1>2. ASSUME NEW lines \in SUBSET Message, ImportBegin(lines) PROVE CountInv'
  BY <1>2, <1>t DEF ImportBegin, CountInv, Pending, Counts
<1>3. ASSUME NEW m \in tx.todo, ImportLine(m) PROVE CountInv'
  <2> DEFINE t == SessionizeLine(m)
             added == tx.added \cup ({m} \ (rows \cup Notice \cup Blank))
  <2>1. m \in Message /\ \A s \in Pending : m \notin s.members
    BY <1>t DEF TypeOK, CountInv
  <2>2. /\ t \in [open : BOOLEAN, todo : SUBSET Message, added : SUBSET Message,
                  closed : SUBSET Session, current : Session \cup {NoSession}]
        /\ t.todo = tx.todo /\ t.added = tx.added
        /\ \/ tx.current # NoSession /\ t.current = Grow(tx.current, m) /\ t.closed = tx.closed
           \/ t.current = tx.current /\ t.closed = tx.closed
           \/ t.current = NewSession(m) /\ t.closed = Pending
    BY <1>t, <2>1, SessionizeCases
  <2>3. tx' = [t EXCEPT !.todo = @ \ {m},
                        !.added = @ \cup ({m} \ (rows \cup Notice \cup Blank))]
        /\ sessions' = sessions /\ rows' = rows
    BY <1>3 DEF ImportLine
  <2> HIDE DEF t
  <2>4. /\ tx'.closed = t.closed /\ tx'.current = t.current
        /\ tx'.todo = tx.todo \ {m} /\ tx'.added = added
    BY <2>2, <2>3
  <2>5. tx.added \subseteq added /\ m \in rows \cup added \cup Notice \cup Blank
    OBVIOUS
  <2> HIDE DEF added
  <2> SUFFICES /\ Counts(Pending)'
               /\ tx'.current # NoSession =>
                    \A s \in tx'.closed : s.members \cap tx'.current.members = {}
               /\ \A s \in Pending' : /\ s.members \subseteq rows \cup added \cup Notice \cup Blank
                                      /\ s.members \cap (tx.todo \ {m}) = {}
    BY <1>t, <2>3, <2>4 DEF CountInv, Counts
  <2>6. CASE tx.current # NoSession /\ t.current = Grow(tx.current, m) /\ t.closed = tx.closed
    <3> DEFINE e == Grow(tx.current, m)
    <3>1. tx.current \in Session /\ tx.current \in Pending
      BY <1>t, <2>6 DEF TypeOK, Pending
    <3>2. /\ e.members = tx.current.members \cup {m}
          /\ IsFiniteSet(e.members) /\ e.count = Cardinality(e.members)
      BY <2>1, <3>1, ExtendCounts DEF CountInv, Counts
    <3>3. e \in Session
      BY <1>t, <2>1, <3>1, ExtendType
    <3>4. Pending' = tx.closed \cup {e} /\ tx'.current = e /\ tx'.closed = tx.closed
      BY <2>4, <2>6, <3>3, NoSessionAssumption DEF Pending
    <3>5. tx.closed \subseteq Pending
      BY DEF Pending
    <3> HIDE DEF e
    <3>6. \A s \in tx.closed : s.members \cap e.members = {}
      BY <2>1, <2>6, <3>2, <3>5 DEF CountInv
    <3>7. Counts(Pending)'
      BY <3>2, <3>4, <3>5, <3>6 DEF Counts, CountInv
    <3>8. \A s \in Pending' : /\ s.members \subseteq rows \cup added \cup Notice \cup Blank
                             /\ s.members \cap (tx.todo \ {m}) = {}
      BY <2>5, <3>1, <3>2, <3>4, <3>5 DEF CountInv
    <3> QED BY <3>4, <3>6, <3>7, <3>8
  <2>7. CASE t.current = tx.current /\ t.closed = tx.closed
    <3>1. Pending' = Pending
      BY <2>4, <2>7 DEF Pending
    <3> QED BY <2>4, <2>5, <2>7, <3>1 DEF CountInv, Counts
  <2>8. CASE t.current = NewSession(m) /\ t.closed = Pending
    <3> DEFINE e == NewSession(m)
    <3>1. e.members = {m} /\ e.count = 1 /\ IsFiniteSet({m}) /\ Cardinality({m}) = 1
      BY <2>1, NewSessionCounts
    <3>2. Pending' = Pending \cup {e} /\ tx'.current = e /\ tx'.closed = Pending
      BY <1>t, <2>1, <2>4, <2>8, NewSessionType, NoSessionAssumption DEF Pending
    <3> HIDE DEF e
    <3>3. \A s \in Pending : s.members \cap e.members = {}
      BY <2>1, <3>1
    <3>4. Counts(Pending)'
      BY <3>1, <3>2, <3>3 DEF Counts, CountInv
    <3>5. \A s \in Pending' : /\ s.members \subseteq rows \cup added \cup Notice \cup Blank
                             /\ s.members \cap (tx.todo \ {m}) = {}
      BY <2>5, <3>1, <3>2 DEF CountInv
    <3> QED BY <3>2, <3>3, <3>4, <3>5
  <2> QED BY <2>2, <2>6, <2>7, <2>8
<1>4. CASE ImportCommit
  <2>1. sessions' = Pending /\ rows' = rows \cup tx.added /\ Pending' = {}
        /\ tx'.current = NoSession
    BY <1>4 DEF ImportCommit, InsertSessions, Pending, NoTx
  <2> QED BY <1>t, <2>1 DEF CountInv, Counts
<1>5. CASE UNCHANGED <<at, rows, sessions, inOrder, imported>> /\ tx' = tx
  BY <1>t, <1>5 DEF CountInv, Pending, Counts
<1>6. CASE UNCHANGED <<at, rows, sessions, inOrder, imported>> /\ tx' = NoTx
  <2>1. Pending' = {} /\ tx'.current = NoSession
    BY <1>6 DEF Pending, NoTx
  <2> QED BY <1>t, <1>6, <2>1 DEF CountInv, Counts
<1> QED BY <1>t, <1>1, <1>2, <1>3, <1>4, <1>5, <1>6, SessionsCases

\* No message is counted in two sessions and every message_count is right.
THEOREM MessagesCountedOnce == Spec => []CountedOnce
<1>1. CountInv => CountedOnce
  BY DEF CountInv, Counts, CountedOnce
<1> QED BY <1>1, CountInit, CountStep, PTL DEF Spec

-------------------------------------------------------------------------------
(* NeverOverMerged.  A run is what it is by definition, so that its ends must *)
(* first be shown to exist: runs are finite, as the messages counted are.  *)

\* A function takes a smallest value on a finite set: of the sets of elements below
\* an element, one contains no other strictly.
LEMMA FiniteMin ==
  ASSUME NEW R, IsFiniteSet(R), R # {}, NEW f \in [R -> Int]
  PROVE  \E m \in R : \A n \in R : f[m] <= f[n]
<1> DEFINE below(m) == {n \in R : f[n] < f[m]}
           B == {below(m) : m \in R}
<1>1. B \subseteq FiniteSubsetsOf(R) /\ B # {}
  <2>1. ASSUME NEW m \in R PROVE below(m) \in FiniteSubsetsOf(R)
    <3>1. below(m) \in SUBSET R
      OBVIOUS
    <3> HIDE DEF below
    <3> QED BY <3>1, FS_Subset DEF FiniteSubsetsOf
  <2> HIDE DEF below
  <2> QED BY <2>1
<1>2. \E x \in B : \A y \in B : ~(<<y, x>> \in StrictSubsetOrdering(R))
  BY <1>1, FS_StrictSubsetOrderingWellFounded, WFMin
<1>3. PICK m \in R : \A n \in R : ~(<<below(n), below(m)>> \in StrictSubsetOrdering(R))
  BY <1>2
<1>4. ASSUME NEW n \in R, ~(f[m] <= f[n]) PROVE FALSE
  <2>1. f[m] \in Int /\ f[n] \in Int /\ f[n] < f[m]
    BY <1>4
  <2>2. \A k \in below(n) : k \in below(m)
    BY <2>1
  <2>3. n \in below(m) /\ n \notin below(n)
    BY <2>1
  <2>4. below(n) \in SUBSET R /\ below(m) \in SUBSET R
    OBVIOUS
  <2> HIDE DEF below
  <2>5. <<below(n), below(m)>> \in StrictSubsetOrdering(R)
    BY <2>2, <2>3, <2>4 DEF StrictSubsetOrdering
  <2> QED BY <1>3, <2>5
<1> QED BY <1>4

\* The ends of a finite set of messages.
LEMMA EndsExist ==
  ASSUME TypeOK, NEW R \in SUBSET Message, IsFiniteSet(R), R # {}
  PROVE  /\ Earliest(R) \in R /\ \A n \in R : at[Earliest(R)] <= at[n]
         /\ Latest(R) \in R /\ \A n \in R : at[n] <= at[Latest(R)]
<1>1. \A m \in Message : at[m] \in Int
  BY SessionsAssumption DEF TypeOK
<1>2. \E m \in R : \A n \in R : at[m] <= at[n]
  <2> DEFINE f == [m \in R |-> at[m]]
  <2>1. f \in [R -> Int]
    BY <1>1
  <2>2. \E m \in R : \A n \in R : f[m] <= f[n]
    <3> HIDE DEF f
    <3> QED BY <2>1, FiniteMin
  <2> QED BY <2>2
<1>3. \E m \in R : \A n \in R : at[n] <= at[m]
  <2> DEFINE f == [m \in R |-> 0 - at[m]]
  <2>1. f \in [R -> Int]
    BY <1>1
  <2>2. PICK m \in R : \A n \in R : f[m] <= f[n]
    <3> HIDE DEF f
    <3> QED BY <2>1, FiniteMin
  <2>3. \A n \in R : at[n] <= at[m]
    <3> SUFFICES ASSUME NEW n \in R PROVE at[n] <= at[m]
      OBVIOUS
    <3>1. 0 - at[m] <= 0 - at[n]
      BY <2>2
    <3> QED BY <1>1, <3>1
  <2> QED BY <2>3
<1> QED BY <1>2, <1>3 DEF Earliest, Latest

\* Between two moments of one day it is the same day.
LEMMA SameDay ==
  ASSUME NEW t \in Stamp, NEW u \in Stamp, NEW v \in Stamp,
         t <= u, u <= v, Day[t] = Day[v]
  PROVE  Day[u] = Day[t]
<1>1. Day[t] <= Day[u] /\ Day[u] <= Day[v]
  BY SessionsAssumption
<1>2. Day[t] \in Int /\ Day[u] \in Int /\ Day[v] \in Int
  BY SessionsAssumption
<1> QED BY <1>1, <1>2

\* Messages of one sound session are together, among any messages with it.
LEMMA SoundTogether ==
  ASSUME TypeOK, NEW s \in Session, Sound(s), NEW S, s.members \subseteq S,
         NEW m \in s.members, NEW n \in s.members
  PROVE  Together(S, m, n)
<1>1. /\ at[m] \in Stamp /\ at[n] \in Stamp /\ s.start \in Stamp /\ s.end \in Stamp
      /\ Stamp \subseteq Int
  BY SessionsAssumption DEF TypeOK, Session
<1>2. s.start <= at[m] /\ at[m] <= s.end /\ s.start <= at[n] /\ at[n] <= s.end
  BY DEF Sound, Spans
<1>3. Day[at[m]] = Day[at[n]]
  <2>1. Day[s.start] = Day[s.end]
    BY DEF Sound, Spans
  <2> QED BY <1>1, <1>2, <2>1, SameDay
<1>4. \A x \in s.start .. (s.end - 1) : \E k \in S : x < at[k] /\ at[k] <= x + Gap
  BY DEF Sound, NoLongSilence, NoSilence
<1>5. ASSUME NEW x \in (at[m] .. (at[n] - 1)) \cup (at[n] .. (at[m] - 1))
      PROVE  x \in s.start .. (s.end - 1)
  <2>1. at[m] \in Int /\ at[n] \in Int /\ s.start \in Int /\ s.end \in Int
    BY <1>1
  <2> QED BY <1>2, <2>1
<1> QED BY <1>3, <1>4, <1>5 DEF Together, NoSilence

\* What saving a message, or reading a line, makes of the messages counted.
LEMMA SaveMembers ==
  ASSUME TypeOK, NEW m \in Message, SaveLiveMessage(m)
  PROVE  Counted' = Counted \cup {m}
<1>1. NewSession(m).members = {m}
  BY DEF NewSession
<1>2. \A s \in sessions : Extend(s, m).members = s.members \cup {m}
  BY DEF Extend, TypeOK, Session
<1>3. CASE sessions' = sessions \cup {NewSession(m)}
  BY <1>1, <1>3 DEF Counted, Members
<1>4. ASSUME NEW s \in sessions, sessions' = (sessions \ {s}) \cup {Extend(s, m)}
      PROVE  Counted' = Counted \cup {m}
  BY <1>2, <1>4 DEF Counted, Members
<1> QED BY <1>3, <1>4, AttachCases

LEMMA LineCases ==
  ASSUME TypeOK, NEW m \in tx.todo, ImportLine(m)
  PROVE  /\ m \in Message /\ tx'.todo = tx.todo \ {m}
         /\ UNCHANGED <<at, rows, sessions, inOrder, imported>>
         /\ SortedExport => \A o \in tx.todo : at[m] <= at[o]
         /\ \/ /\ tx.current # NoSession /\ Continues(tx.current, at[m])
               /\ tx'.current = Grow(tx.current, m) /\ tx'.closed = tx.closed
               /\ Pending' = tx.closed \cup {Grow(tx.current, m)}
               /\ Members(Pending') = Members(Pending) \cup {m}
            \/ /\ tx'.current = tx.current /\ tx'.closed = tx.closed
               /\ Pending' = Pending
            \/ /\ ~(tx.current # NoSession /\ Continues(tx.current, at[m]))
               /\ tx'.current = NewSession(m) /\ tx'.closed = Pending
               /\ Pending' = Pending \cup {NewSession(m)}
               /\ Members(Pending') = Members(Pending) \cup {m}
<1> DEFINE t == SessionizeLine(m)
<1>1. m \in Message
  BY DEF TypeOK
<1>2. /\ t \in [open : BOOLEAN, todo : SUBSET Message, added : SUBSET Message,
                closed : SUBSET Session, current : Session \cup {NoSession}]
      /\ t.todo = tx.todo
      /\ \/ /\ tx.current # NoSession /\ Continues(tx.current, at[m])
            /\ t.current = Grow(tx.current, m) /\ t.closed = tx.closed
         \/ t.current = tx.current /\ t.closed = tx.closed
         \/ /\ ~(tx.current # NoSession /\ Continues(tx.current, at[m]))
            /\ t.current = NewSession(m) /\ t.closed = Pending
  BY <1>1, SessionizeCases
<1>3. /\ tx' = [t EXCEPT !.todo = @ \ {m},
                         !.added = @ \cup ({m} \ (rows \cup Notice \cup Blank))]
      /\ UNCHANGED <<at, rows, sessions, inOrder, imported>>
      /\ SortedExport => \A o \in tx.todo : at[m] <= at[o]
  BY DEF ImportLine
<1> HIDE DEF t
<1>4. /\ tx'.closed = t.closed /\ tx'.current = t.current /\ tx'.todo = tx.todo \ {m}
  BY <1>2, <1>3
<1>5. tx.current # NoSession => /\ tx.current \in Session
                                /\ Grow(tx.current, m) \in Session
                                /\ Grow(tx.current, m).members = tx.current.members \cup {m}
  BY <1>1, ExtendType DEF TypeOK, Grow, Session
<1>6. NewSession(m) \in Session /\ NewSession(m).members = {m}
  BY <1>1, NewSessionType DEF NewSession
<1>7. CASE /\ tx.current # NoSession /\ Continues(tx.current, at[m])
           /\ t.current = Grow(tx.current, m) /\ t.closed = tx.closed
  <2>1. Pending' = tx.closed \cup {Grow(tx.current, m)}
    BY <1>4, <1>5, <1>7, NoSessionAssumption DEF Pending
  <2>2. Members(Pending') = Members(Pending) \cup {m}
    BY <1>5, <1>7, <2>1 DEF Members, Pending
  <2> QED BY <1>1, <1>3, <1>4, <1>7, <2>1, <2>2
<1>8. CASE t.current = tx.current /\ t.closed = tx.closed
  BY <1>1, <1>3, <1>4, <1>8 DEF Pending
<1>9. CASE /\ ~(tx.current # NoSession /\ Continues(tx.current, at[m]))
           /\ t.current = NewSession(m) /\ t.closed = Pending
  <2>1. Pending' = Pending \cup {NewSession(m)}
    BY <1>4, <1>6, <1>9, NoSessionAssumption DEF Pending
  <2>2. Members(Pending') = Members(Pending) \cup {m}
    BY <1>6, <2>1 DEF Members
  <2> QED BY <1>1, <1>3, <1>4, <1>9, <2>1, <2>2
<1> QED BY <1>2, <1>7, <1>8, <1>9

\* The messages counted are finitely many: each step counts at most one more.
FiniteInv == TypeOK /\ IsFiniteSet(Counted) /\ IsFiniteSet(Members(Pending))

LEMMA FiniteInit == Init => FiniteInv
<1> SUFFICES ASSUME Init PROVE FiniteInv
  OBVIOUS
<1>1. Counted = {} /\ Members(Pending) = {}
  BY DEF Init, Counted, Members, Pending, NoTx
<1> QED BY <1>1, SessionsTypeInit, FS_EmptySet DEF FiniteInv

LEMMA FiniteStep ==
  ASSUME FiniteInv, [Next]_vars
  PROVE  FiniteInv'
<1>t. TypeOK /\ TypeOK'
  BY SessionsTypeStep DEF FiniteInv
<1>a. \A m : IsFiniteSet(Counted \cup {m}) /\ IsFiniteSet(Members(Pending) \cup {m})
  BY FS_AddElement DEF FiniteInv
<1>1. ASSUME NEW m \in Message, SaveLiveMessage(m) PROVE FiniteInv'
  <2>1. Pending' = Pending
    BY <1>1 DEF SaveLiveMessage, Pending
  <2> QED BY <1>1, <1>t, <1>a, <2>1, SaveMembers DEF FiniteInv
<1>2. ASSUME NEW lines \in SUBSET Message, ImportBegin(lines) PROVE FiniteInv'
  <2>1. Members(Pending)' = {} /\ Counted' = Counted
    BY <1>2 DEF ImportBegin, Pending, Members, Counted
  <2> QED BY <1>t, <2>1, FS_EmptySet DEF FiniteInv
<1>3. ASSUME NEW m \in tx.todo, ImportLine(m) PROVE FiniteInv'
  <2>1. Counted' = Counted
    BY <1>3, <1>t, LineCases DEF Counted
  <2>2. Members(Pending)' = Members(Pending) \/ Members(Pending)' = Members(Pending) \cup {m}
    BY <1>3, <1>t, LineCases DEF Members
  <2> QED BY <1>t, <1>a, <2>1, <2>2 DEF FiniteInv
<1>4. CASE ImportCommit
  <2>1. Counted' = Members(Pending) /\ Members(Pending)' = {}
    BY <1>4 DEF ImportCommit, InsertSessions, Pending, Counted, Members, NoTx
  <2> QED BY <1>t, <2>1, FS_EmptySet DEF FiniteInv
<1>5. CASE UNCHANGED <<at, rows, sessions, inOrder, imported>> /\ (tx' = tx \/ tx' = NoTx)
  <2>1. Counted' = Counted
    BY <1>5 DEF Counted
  <2>2. Members(Pending)' = Members(Pending) \/ Members(Pending)' = {}
    BY <1>5 DEF Members, Pending, NoTx
  <2> QED BY <1>t, <2>1, <2>2, FS_EmptySet DEF FiniteInv
<1> QED BY <1>t, <1>1, <1>2, <1>3, <1>4, <1>5, SessionsCases

\* The session of a run of messages.
LEMMA RunEnds ==
  ASSUME TypeOK, NEW S \in SUBSET Message, IsFiniteSet(S), NEW m \in S
  PROVE  /\ m \in Run(S, m) /\ Run(S, m) \subseteq S
         /\ Earliest(Run(S, m)) \in Run(S, m) /\ Latest(Run(S, m)) \in Run(S, m)
         /\ \A n \in Run(S, m) : /\ at[Earliest(Run(S, m))] <= at[n]
                                /\ at[n] <= at[Latest(Run(S, m))]
<1>1. at[m] \in Int
  BY SessionsAssumption DEF TypeOK
<1>2. m \in Run(S, m) /\ Run(S, m) \in SUBSET S
  BY <1>1 DEF Run, Together, NoSilence
<1>3. IsFiniteSet(Run(S, m))
  BY <1>2, FS_Subset
<1> QED BY <1>2, <1>3, EndsExist

\* If exports are in time order, no stored session ever reaches over the ends of the
\* run of messages that it lies in, in whatever order messages and imports come.
THEOREM SessionsNeverOverMerged ==
  ASSUME SortedExport
  PROVE  Spec => []NeverOverMerged
<1>1. SoundInv /\ FiniteInv => NeverOverMerged
  <2> SUFFICES ASSUME SoundInv, FiniteInv, NEW s \in sessions
               PROVE  \E r \in Runs(Counted) : /\ s.members \subseteq r.members
                                               /\ r.start <= s.start /\ s.end <= r.end
    BY DEF NeverOverMerged
  <2>1. TypeOK /\ s \in Session /\ Sound(s) /\ s.members \subseteq Counted
    BY DEF FiniteInv, TypeOK, SoundInv, Counted, Members
  <2>2. Counted \in SUBSET Message
    BY <2>1 DEF TypeOK, Session, Counted, Members
  <2>3. PICK m \in s.members : at[m] = s.start
    BY <2>1 DEF Sound, Spans
  <2>4. PICK n \in s.members : at[n] = s.end
    BY <2>1 DEF Sound, Spans
  <2> DEFINE R == Run(Counted, m)
  <2>5. s.members \subseteq R
    BY <2>1, <2>3, SoundTogether DEF Run
  <2>6. \A k \in R : at[Earliest(R)] <= at[k] /\ at[k] <= at[Latest(R)]
    BY <2>1, <2>2, <2>3, RunEnds DEF FiniteInv
  <2>7. RunSession(R) \in Runs(Counted)
    BY <2>1 DEF Runs
  <2>8. /\ RunSession(R).members = R
        /\ RunSession(R).start = at[Earliest(R)] /\ RunSession(R).end = at[Latest(R)]
    BY DEF RunSession
  <2> HIDE DEF R
  <2> QED BY <2>3, <2>4, <2>5, <2>6, <2>7, <2>8
<1>2. SoundInv /\ [Next]_vars => SoundInv'
  BY SoundStep
<1>3. FiniteInv /\ [Next]_vars => FiniteInv'
  BY FiniteStep
<1> QED BY <1>1, <1>2, <1>3, SoundInit, FiniteInit, PTL DEF Spec

-------------------------------------------------------------------------------
(* InOrderMatchesRecompute.  A set of sound sessions that share no message is *)
(* the set of runs of its messages exactly if none of its sessions could take *)
(* another of these messages in, which a message after all others preserves. *)

Maximal(X) ==
  \A s \in X : \A a \in s.members, b \in Members(X) :
    Together(Members(X), a, b) => b \in s.members

Exact(X) == /\ X \subseteq Session /\ Counts(X) /\ Maximal(X)
            /\ \A s \in X : Sound(s)

\* A message at t, after all messages of a session, would be the next one of it.
Reaches(s, t) == Day[s.end] = Day[t] /\ t <= s.end + Gap

LEMMA TogetherSymmetric ==
  ASSUME NEW S, NEW a, NEW b
  PROVE  Together(S, a, b) <=> Together(S, b, a)
BY DEF Together

\* A later message joins no two messages that were apart.
LEMMA TogetherBefore ==
  ASSUME TypeOK, NEW S \in SUBSET Message, NEW m \in Message,
         \A k \in S : at[k] <= at[m],
         NEW a \in S, NEW b \in S, Together(S \cup {m}, a, b)
  PROVE  Together(S, a, b)
<1>1. \A k \in Message : at[k] \in Int
  BY SessionsAssumption DEF TypeOK
<1>2. ASSUME NEW c \in S, NEW d \in S, NoSilence(S \cup {m}, at[c], at[d])
      PROVE  NoSilence(S, at[c], at[d])
  <2> SUFFICES ASSUME NEW x \in at[c] .. (at[d] - 1)
               PROVE  \E k \in S : x < at[k] /\ at[k] <= x + Gap
    BY DEF NoSilence
  <2>1. x \in Int /\ x < at[d] /\ Gap \in Nat /\ at[m] \in Int /\ at[d] \in Int /\ at[d] <= at[m]
    BY <1>1, SessionsAssumption
  <2>2. PICK k \in S \cup {m} : x < at[k] /\ at[k] <= x + Gap
    BY <1>2 DEF NoSilence
  <2>3. CASE k \in S
    BY <2>2, <2>3
  <2>4. CASE k = m
    <3>1. at[d] <= x + Gap
      BY <2>1, <2>2, <2>4
    <3> QED BY <2>1, <3>1
  <2> QED BY <2>2, <2>3, <2>4
<1> QED BY <1>2 DEF Together

\* A message within the gap after another one of its day is together with it.
LEMMA NextTogether ==
  ASSUME TypeOK, NEW S \in SUBSET Message, NEW a \in Message, NEW b \in S,
         at[a] <= at[b], at[b] <= at[a] + Gap, Day[at[a]] = Day[at[b]]
  PROVE  Together(S, a, b)
<1>1. at[a] \in Int /\ at[b] \in Int /\ Gap \in Nat
  BY SessionsAssumption DEF TypeOK
<1>2. NoSilence(S, at[a], at[b])
  <2> SUFFICES ASSUME NEW x \in at[a] .. (at[b] - 1)
               PROVE  x < at[b] /\ at[b] <= x + Gap
    BY DEF NoSilence
  <2> QED BY <1>1
<1>3. NoSilence(S, at[b], at[a])
  <2>1. at[b] .. (at[a] - 1) = {}
    BY <1>1
  <2> QED BY <2>1 DEF NoSilence
<1> QED BY <1>2, <1>3 DEF Together

\* What the messages of an exact set of sessions are.
LEMMA ExactMembers ==
  ASSUME TypeOK, NEW X, Exact(X)
  PROVE  /\ Members(X) \in SUBSET Message
         /\ \A s \in X : /\ s \in Session /\ s.members \subseteq Members(X)
                         /\ s.start \in Stamp /\ s.end \in Stamp
                         /\ \E y \in s.members : at[y] = s.end
                         /\ \A k \in s.members : at[k] <= s.end
<1>1. \A s \in X : s \in Session /\ s.members \subseteq Members(X)
  BY DEF Exact, Members
<1>2. Members(X) \in SUBSET Message
  BY <1>1 DEF Members, Session
<1>3. \A s \in X : s.start \in Stamp /\ s.end \in Stamp
  BY <1>1 DEF Session
<1> QED BY <1>1, <1>2, <1>3 DEF Exact, Sound, Spans

\* A later message that is together with one of a session is the next one of it.
LEMMA LateReaches ==
  ASSUME TypeOK, NEW X, Exact(X), NEW m \in Message, \A k \in Members(X) : at[k] <= at[m],
         NEW u \in X, NEW b \in u.members, Together(Members(X) \cup {m}, b, m)
  PROVE  Reaches(u, at[m])
<1> DEFINE M == Members(X)
<1>1. /\ M \in SUBSET Message /\ u.members \subseteq M
      /\ u.end \in Stamp /\ at[m] \in Stamp /\ at[b] \in Stamp
      /\ \A k \in u.members : at[k] <= u.end
  BY ExactMembers DEF TypeOK
<1>2. PICK y \in u.members : at[y] = u.end
  BY ExactMembers
<1> HIDE DEF M
<1>3. Stamp \subseteq Int /\ Gap \in Nat /\ \A k \in Message : at[k] \in Stamp
  BY SessionsAssumption DEF TypeOK
<1>n. u.end \in Int /\ at[m] \in Int /\ at[b] \in Int
  BY <1>1, <1>3
<1>4. at[b] <= u.end /\ u.end <= at[m]
  BY <1>1, <1>2 DEF M
<1>5. Day[at[b]] = Day[at[m]]
  BY DEF Together
<1>6. Day[u.end] = Day[at[m]]
  BY <1>1, <1>4, <1>5, SameDay
<1>7. at[m] <= u.end + Gap
  <2>1. CASE u.end = at[m]
    BY <1>n, <1>3, <2>1
  <2>2. CASE u.end # at[m]
    <3>1. u.end \in at[b] .. (at[m] - 1)
      BY <1>n, <1>4, <2>2
    <3>2. PICK k \in M \cup {m} : u.end < at[k] /\ at[k] <= u.end + Gap
      BY <3>1 DEF Together, NoSilence, M
    <3>3. CASE k = m
      BY <3>2, <3>3
    <3>4. CASE k \in M
      <4>1. k \in Message /\ at[k] \in Stamp /\ at[k] <= at[m] /\ y \in Message
        BY <1>1, <1>2, <1>3, <3>4 DEF M
      <4>n. at[k] \in Int
        BY <1>3, <4>1
      <4>2. Day[at[k]] = Day[u.end]
        <5>1. u.end <= at[k]
          BY <1>n, <3>2, <4>n
        <5> QED BY <1>1, <1>6, <4>1, <5>1, SameDay
      <4>3. Together(M, y, k)
        <5>1. at[y] <= at[k]
          BY <1>2, <1>n, <3>2, <4>n
        <5> QED BY <1>1, <1>2, <3>2, <3>4, <4>1, <4>2, <5>1, NextTogether
      <4>4. k \in u.members
        BY <1>2, <3>4, <4>3 DEF Exact, Maximal, M
      <4>5. at[k] <= u.end
        BY <1>1, <4>4
      <4> QED BY <1>n, <3>2, <4>n, <4>5
    <3> QED BY <3>2, <3>3, <3>4
  <2> QED BY <2>1, <2>2
<1> QED BY <1>6, <1>7 DEF Reaches

\* Only one session of an exact set takes a message after all others in.
LEMMA ReachesOnce ==
  ASSUME TypeOK, NEW X, Exact(X), NEW m \in Message, \A k \in Members(X) : at[k] <= at[m],
         NEW s \in X, NEW u \in X, Reaches(s, at[m]), Reaches(u, at[m])
  PROVE  s = u
<1>1. ASSUME NEW v \in X, NEW w \in X, v.end <= w.end,
             Day[v.end] = Day[w.end], Reaches(v, at[m])
      PROVE  v = w
  <2>1. PICK y \in v.members : at[y] = v.end
    BY ExactMembers
  <2>2. PICK z \in w.members : at[z] = w.end
    BY ExactMembers
  <2>3. /\ Members(X) \in SUBSET Message /\ y \in Members(X) /\ z \in Members(X)
        /\ v.end \in Int /\ w.end \in Int /\ at[m] \in Int /\ w.end <= at[m] /\ Gap \in Nat
    BY <2>1, <2>2, ExactMembers, SessionsAssumption DEF TypeOK
  <2>4. at[y] <= at[z] /\ at[z] <= at[y] + Gap /\ Day[at[y]] = Day[at[z]]
    <3>1. at[m] <= v.end + Gap
      BY <1>1 DEF Reaches
    <3>2. w.end <= v.end + Gap
      BY <2>3, <3>1
    <3> QED BY <1>1, <2>1, <2>2, <3>2
  <2>5. Together(Members(X), y, z)
    BY <2>3, <2>4, NextTogether
  <2>6. z \in v.members
    BY <2>1, <2>3, <2>5 DEF Exact, Maximal
  <2> QED BY <2>2, <2>6 DEF Exact, Counts
<1>2. Day[s.end] = Day[u.end]
  BY DEF Reaches
<1>3. s.end <= u.end \/ u.end <= s.end
  <2>1. s.end \in Int /\ u.end \in Int
    BY ExactMembers, SessionsAssumption
  <2> QED BY <2>1
<1> QED BY <1>1, <1>2, <1>3

\* A message after all others, in the one session it reaches or in one of its own,
\* keeps the sessions exact.
LEMMA NewExact ==
  ASSUME TypeOK, NEW X, Exact(X), NEW m \in Message \ Members(X),
         \A k \in Members(X) : at[k] <= at[m],
         \A s \in X : ~Reaches(s, at[m])
  PROVE  Maximal(X \cup {NewSession(m)})
<1> DEFINE e == NewSession(m)
           M == Members(X)
<1>0. e.members = {m}
  BY DEF NewSession
<1> HIDE DEF e
<1>1. Members(X \cup {e}) = M \cup {m}
  BY <1>0 DEF Members
<1>2. M \in SUBSET Message /\ \A s \in X : s.members \subseteq M
  BY ExactMembers
<1>3. ASSUME NEW b \in M, Together(M \cup {m}, b, m) PROVE FALSE
  <2>1. PICK u \in X : b \in u.members
    BY DEF Members
  <2> QED BY <1>3, <2>1, LateReaches
<1> SUFFICES ASSUME NEW s \in X \cup {e}, NEW a \in s.members, NEW b \in M \cup {m},
                    Together(M \cup {m}, a, b)
             PROVE  b \in s.members
  BY <1>1 DEF Maximal, e
<1>4. CASE s \in X
  <2>1. a \in M /\ b \in M
    BY <1>2, <1>3, <1>4
  <2>2. Together(M, a, b)
    BY <1>2, <2>1, TogetherBefore
  <2> QED BY <1>4, <2>1, <2>2 DEF Exact, Maximal
<1>5. CASE s = e
  BY <1>0, <1>3, <1>5, TogetherSymmetric
<1> QED BY <1>4, <1>5

LEMMA ExtendExact ==
  ASSUME TypeOK, NEW X, Exact(X), NEW m \in Message \ Members(X),
         \A k \in Members(X) : at[k] <= at[m],
         NEW s \in X, Reaches(s, at[m]), NEW e, e.members = s.members \cup {m}
  PROVE  /\ Maximal((X \ {s}) \cup {e})
         /\ Members((X \ {s}) \cup {e}) = Members(X) \cup {m}
<1> DEFINE M == Members(X)
           Y == (X \ {s}) \cup {e}
<1>1. Members(Y) = M \cup {m}
  BY DEF Members
<1>2. M \in SUBSET Message /\ \A u \in X : u.members \subseteq M
  BY ExactMembers
<1>3. ASSUME NEW b \in M, Together(M \cup {m}, b, m) PROVE b \in s.members
  <2>1. PICK u \in X : b \in u.members
    BY DEF Members
  <2>2. Reaches(u, at[m])
    BY <1>3, <2>1, LateReaches
  <2> QED BY <2>1, <2>2, ReachesOnce
<1>4. ASSUME NEW v \in Y, NEW a \in v.members, NEW b \in M \cup {m},
             Together(M \cup {m}, a, b)
      PROVE  b \in v.members
  <2>1. CASE a = m
    <3>1. v = e
      BY <1>2, <2>1
    <3>2. b = m \/ b \in s.members
      BY <1>3, <1>4, <2>1, TogetherSymmetric
    <3> QED BY <3>1, <3>2
  <2>2. CASE a # m /\ b = m
    <3>1. a \in M /\ a \in s.members
      BY <1>2, <1>3, <1>4, <2>2
    <3>2. v = e
      BY <1>4, <3>1 DEF Exact, Counts
    <3> QED BY <2>2, <3>2
  <2>3. CASE a # m /\ b # m
    <3>1. PICK u \in X : a \in u.members /\ (v = u \/ (u = s /\ v = e))
      BY <2>3
    <3>2. a \in M /\ b \in M
      BY <1>2, <2>3, <3>1
    <3>3. Together(M, a, b)
      BY <1>2, <1>4, <3>2, TogetherBefore
    <3>4. b \in u.members
      BY <3>1, <3>2, <3>3 DEF Exact, Maximal
    <3> QED BY <3>1, <3>4
  <2> QED BY <2>1, <2>2, <2>3
<1> HIDE DEF M, Y
<1> QED BY <1>1, <1>4 DEF Maximal, M, Y

\* Exact sessions are the runs of their messages.
LEMMA ExactRuns ==
  ASSUME TypeOK, NEW X, Exact(X), IsFiniteSet(Members(X))
  PROVE  X = Runs(Members(X))
<1> DEFINE M == Members(X)
<1>1. M \in SUBSET Message /\ \A s \in X : s \in Session /\ s.members \subseteq M
  BY ExactMembers
<1>2. ASSUME NEW s \in X, NEW m \in s.members PROVE RunSession(Run(M, m)) = s
  <2>1. Run(M, m) = s.members
    <3>1. \A n \in s.members : Together(M, m, n)
      BY <1>1, SoundTogether DEF Exact
    <3>2. \A n \in M : Together(M, m, n) => n \in s.members
      BY DEF Exact, Maximal
    <3> QED BY <1>1, <3>1, <3>2 DEF Run
  <2>2. /\ Earliest(s.members) \in s.members /\ Latest(s.members) \in s.members
        /\ \A n \in s.members : /\ at[Earliest(s.members)] <= at[n]
                                /\ at[n] <= at[Latest(s.members)]
    BY <1>1, <2>1, RunEnds
  <2>3. /\ \E x \in s.members : at[x] = s.start
        /\ \E x \in s.members : at[x] = s.end
        /\ \A x \in s.members : s.start <= at[x] /\ at[x] <= s.end
    BY DEF Exact, Sound, Spans
  <2>4. at[Earliest(s.members)] = s.start /\ at[Latest(s.members)] = s.end
    <3>1. \A x \in s.members : at[x] \in Int
      BY <1>1, SessionsAssumption DEF TypeOK
    <3>2. s.start \in Int /\ s.end \in Int
      BY <1>1, SessionsAssumption DEF Session
    <3> QED BY <2>2, <2>3, <3>1, <3>2
  <2>5. s.count = Cardinality(s.members)
    BY DEF Exact, Counts
  <2>6. s = [start |-> s.start, end |-> s.end, count |-> s.count, members |-> s.members]
    BY <1>1 DEF Session
  <2> QED BY <2>1, <2>4, <2>5, <2>6 DEF RunSession
<1>3. X \subseteq Runs(M)
  <2> SUFFICES ASSUME NEW s \in X PROVE s \in Runs(M)
    OBVIOUS
  <2>1. PICK m \in s.members : TRUE
    BY DEF Exact, Sound, Spans
  <2> HIDE DEF M
  <2> QED BY <1>1, <1>2, <2>1 DEF Runs
<1>4. Runs(M) \subseteq X
  <2> SUFFICES ASSUME NEW m \in M PROVE RunSession(Run(M, m)) \in X
    BY DEF Runs
  <2>1. PICK s \in X : m \in s.members
    BY DEF Members
  <2> HIDE DEF M
  <2> QED BY <1>2, <2>1
<1> QED BY <1>3, <1>4

\* The inductive invariant.  What has been read of an open import lies before what
\* is still to be read, and its current session ends last.
ExactInv ==
  /\ SoundInv /\ CountInv /\ FiniteInv
  /\ inOrder => Maximal(sessions)
  /\ Maximal(Pending)
  /\ \A k \in Members(Pending), o \in tx.todo : at[k] <= at[o]
  /\ tx.current # NoSession => \A k \in Members(Pending) : at[k] <= tx.current.end
  /\ tx.current = NoSession => tx.closed = {}
  /\ ~imported => Counted = rows

LEMMA EmptyMaximal == Maximal({}) /\ Members({}) = {}
BY DEF Maximal, Members

LEMMA ExactInit == Init => ExactInv
<1> SUFFICES ASSUME Init PROVE ExactInv
  OBVIOUS
<1>1. sessions = {} /\ Pending = {} /\ rows = {} /\ tx.current = NoSession /\ tx.closed = {}
  BY DEF Init, Pending, NoTx
<1>2. Counted = {}
  BY <1>1, EmptyMaximal DEF Counted
<1> QED BY <1>1, <1>2, EmptyMaximal, SoundInit, CountInit, FiniteInit DEF ExactInv

LEMMA ExactFromInv ==
  ASSUME ExactInv
  PROVE  TypeOK /\ (inOrder => Exact(sessions)) /\ Exact(Pending)
<1>1. TypeOK /\ sessions \subseteq Session /\ Pending \subseteq Session
  BY DEF ExactInv, SoundInv, TypeOK, Pending
<1> QED BY <1>1 DEF ExactInv, Exact, SoundInv, CountInv

LEMMA MaximalStep ==
  ASSUME at' = at
  PROVE  /\ Maximal(sessions)' <=> Maximal(sessions')
         /\ Maximal(Pending)' <=> Maximal(Pending')
BY DEF Maximal, Members, Together, NoSilence

\* A message saved in order leaves exact sessions.
LEMMA SaveExact ==
  ASSUME CountInv, Exact(sessions), NEW m \in Message, SaveLiveMessage(m),
         \A k \in Counted : at[k] <= at[m]
  PROVE  Maximal(sessions')
<1>1. TypeOK /\ Counted = Members(sessions)
  BY DEF Counted, CountInv
<1>2. m \notin Members(sessions)
  BY DEF SaveLiveMessage, CountInv, Members
<1>3. ASSUME NEW s \in sessions PROVE InWindow(s, at[m]) <=> Reaches(s, at[m])
  <2>1. /\ s.start \in Stamp /\ s.end \in Stamp /\ at[m] \in Stamp
        /\ s.start <= s.end /\ s.end <= at[m] /\ Day[s.start] = Day[s.end]
    BY <1>1, ExactMembers DEF TypeOK, Exact, Sound, Spans
  <2>2. s.start \in Int /\ s.end \in Int /\ at[m] \in Int /\ Gap \in Nat
    BY <2>1, SessionsAssumption
  <2>3. s.start - Gap <= at[m]
    BY <2>1, <2>2
  <2> QED BY <2>1, <2>3 DEF InWindow, Reaches
<1>4. CASE /\ {s \in sessions : InWindow(s, at[m])} = {}
           /\ sessions' = sessions \cup {NewSession(m)}
  BY <1>1, <1>2, <1>3, <1>4, NewExact
<1>5. ASSUME NEW s \in sessions, InWindow(s, at[m]),
             sessions' = (sessions \ {s}) \cup {Extend(s, m)}
      PROVE  Maximal(sessions')
  <2>1. Extend(s, m).members = s.members \cup {m}
    BY <1>1 DEF Extend, TypeOK, Session
  <2> QED BY <1>1, <1>2, <1>3, <1>5, <2>1, ExtendExact
<1> QED BY <1>4, <1>5 DEF SaveLiveMessage, AttachToSession

\* So does the next line of an export in time order.
LEMMA LineExact ==
  ASSUME SortedExport, ExactInv, NEW m \in tx.todo, ImportLine(m)
  PROVE  /\ Maximal(Pending')
         /\ \A k \in Members(Pending'), o \in tx'.todo : at[k] <= at[o]
         /\ tx'.current # NoSession => \A k \in Members(Pending') : at[k] <= tx'.current.end
         /\ tx'.current = NoSession => tx'.closed = {}
<1>1. TypeOK /\ Exact(Pending)
  BY ExactFromInv
<1>2. /\ m \in Message /\ tx'.todo = tx.todo \ {m}
      /\ \A o \in tx.todo : at[m] <= at[o]
      /\ \A k \in Members(Pending) : at[k] <= at[m]
  BY <1>1, LineCases DEF ExactInv
<1>3. m \notin Members(Pending)
  BY DEF ExactInv, CountInv, Members
<1>4. \A k \in Members(Pending) \cup {m}, o \in tx'.todo : at[k] <= at[o]
  BY <1>2 DEF ExactInv
<1>5. CASE /\ tx.current # NoSession /\ Continues(tx.current, at[m])
           /\ tx'.current = Grow(tx.current, m) /\ tx'.closed = tx.closed
           /\ Pending' = tx.closed \cup {Grow(tx.current, m)}
           /\ Members(Pending') = Members(Pending) \cup {m}
  <2>1. tx.current \in Pending /\ tx.current \in Session
    BY <1>1, <1>5 DEF Pending, TypeOK
  <2>2. Reaches(tx.current, at[m])
    <3>1. tx.current.end \in Int /\ at[m] \in Int /\ Gap \in Nat
      BY <1>1, <1>2, <2>1, SessionsAssumption DEF TypeOK, Session
    <3>2. Day[at[m]] = Day[tx.current.end] /\ at[m] - tx.current.end <= Gap
      BY <1>5 DEF Continues
    <3> QED BY <3>1, <3>2 DEF Reaches
  <2>3. /\ Grow(tx.current, m).members = tx.current.members \cup {m}
        /\ Grow(tx.current, m).end = at[m]
    BY <2>1 DEF Grow, Session
  <2>4. tx.current \notin tx.closed
    BY <1>5, <2>1 DEF ExactInv, CountInv, SoundInv, Sound, Spans
  <2>5. Pending' = (Pending \ {tx.current}) \cup {Grow(tx.current, m)}
    BY <1>5, <2>4 DEF Pending
  <2>6. Maximal(Pending')
    BY <1>1, <1>2, <1>3, <2>1, <2>2, <2>3, <2>5, ExtendExact
  <2>7. Grow(tx.current, m) # NoSession
    BY <1>1, <1>2, <2>1, ExtendType, NoSessionAssumption
  <2>8. at[m] <= at[m]
    BY <1>1, <1>2, SessionsAssumption DEF TypeOK
  <2> QED BY <1>2, <1>4, <1>5, <2>3, <2>6, <2>7, <2>8
<1>6. CASE tx'.current = tx.current /\ tx'.closed = tx.closed /\ Pending' = Pending
  BY <1>4, <1>6 DEF ExactInv
<1>7. CASE /\ ~(tx.current # NoSession /\ Continues(tx.current, at[m]))
           /\ tx'.current = NewSession(m) /\ tx'.closed = Pending
           /\ Pending' = Pending \cup {NewSession(m)}
           /\ Members(Pending') = Members(Pending) \cup {m}
  <2>1. ASSUME NEW s \in Pending, Reaches(s, at[m]) PROVE FALSE
    <3> DEFINE c == tx.current
    <3>1. c # NoSession /\ c \in Pending
      BY <1>1, <2>1 DEF ExactInv, Pending
    <3>2. /\ s.end \in Stamp /\ c.end \in Stamp /\ at[m] \in Stamp
          /\ \E y \in s.members : at[y] = s.end /\ y \in Members(Pending)
          /\ \E y \in c.members : at[y] = c.end /\ y \in Members(Pending)
      BY <1>1, <1>2, <3>1, ExactMembers DEF TypeOK
    <3>3. s.end <= c.end /\ c.end <= at[m]
      BY <1>2, <3>1, <3>2 DEF ExactInv
    <3>4. Day[s.end] = Day[at[m]] /\ at[m] <= s.end + Gap
      BY <2>1 DEF Reaches
    <3>5. Day[c.end] = Day[at[m]]
      BY <3>2, <3>3, <3>4, SameDay
    <3>6. s.end \in Int /\ c.end \in Int /\ at[m] \in Int /\ Gap \in Nat
      BY <3>2, SessionsAssumption
    <3>7. at[m] - c.end <= Gap
      BY <3>3, <3>4, <3>6
    <3> QED BY <1>7, <3>1, <3>5, <3>7 DEF Continues
  <2>2. Maximal(Pending')
    BY <1>1, <1>2, <1>3, <1>7, <2>1, NewExact
  <2>3. NewSession(m) # NoSession /\ NewSession(m).end = at[m]
    BY <1>1, <1>2, NewSessionType, NoSessionAssumption DEF NewSession
  <2>4. at[m] <= at[m]
    BY <1>1, <1>2, SessionsAssumption DEF TypeOK
  <2> QED BY <1>2, <1>4, <1>7, <2>2, <2>3, <2>4
<1> QED BY <1>1, <1>5, <1>6, <1>7, LineCases

LEMMA ExactStep ==
  ASSUME SortedExport, ExactInv, [Next]_vars
  PROVE  ExactInv'
<1>t. TypeOK /\ at' = at /\ SoundInv' /\ CountInv' /\ FiniteInv'
  BY ExactFromInv, SessionsCases, SoundStep, CountStep, FiniteStep DEF ExactInv
<1>m. /\ Maximal(sessions)' <=> Maximal(sessions')
      /\ Maximal(Pending)' <=> Maximal(Pending')
      /\ Members(Pending)' = Members(Pending')
  BY <1>t, MaximalStep DEF Members
<1>1. ASSUME NEW m \in Message, SaveLiveMessage(m) PROVE ExactInv'
  <2>1. /\ rows' = rows \cup {m} /\ imported' = imported /\ tx' = tx
        /\ Pending' = Pending /\ Counted' = Counted \cup {m}
        /\ inOrder' = (inOrder /\ \A k \in Counted : at[k] <= at[m])
    BY <1>1, <1>t, SaveMembers DEF SaveLiveMessage, Pending
  <2>2. inOrder' => Maximal(sessions)'
    BY <1>1, <1>m, <2>1, SaveExact, ExactFromInv DEF ExactInv
  <2> QED BY <1>t, <1>m, <2>1, <2>2 DEF ExactInv
<1>2. ASSUME NEW lines \in SUBSET Message, ImportBegin(lines) PROVE ExactInv'
  <2>1. /\ Pending' = {} /\ Counted' = Counted /\ tx'.closed = {} /\ tx'.current = NoSession
        /\ UNCHANGED <<at, rows, sessions, inOrder, imported>>
    BY <1>2 DEF ImportBegin, Pending, Counted
  <2> QED BY <1>t, <1>m, <2>1, EmptyMaximal DEF ExactInv
<1>3. ASSUME NEW m \in tx.todo, ImportLine(m) PROVE ExactInv'
  <2>1. UNCHANGED <<at, rows, sessions, inOrder, imported>> /\ Counted' = Counted
    BY <1>3, <1>t, LineCases DEF Counted
  <2> QED BY <1>3, <1>t, <1>m, <2>1, LineExact DEF ExactInv
<1>4. CASE ImportCommit
  <2>1. /\ sessions' = Pending /\ Pending' = {} /\ imported' = TRUE
        /\ tx'.closed = {} /\ tx'.current = NoSession
    BY <1>4 DEF ImportCommit, InsertSessions, Pending, NoTx
  <2> QED BY <1>t, <1>m, <2>1, EmptyMaximal DEF ExactInv
<1>5. CASE UNCHANGED <<at, rows, sessions, inOrder, imported>> /\ tx' = tx
  <2>1. Pending' = Pending /\ Counted' = Counted
    BY <1>5 DEF Pending, Counted
  <2> QED BY <1>5, <1>t, <1>m, <2>1 DEF ExactInv
<1>6. CASE UNCHANGED <<at, rows, sessions, inOrder, imported>> /\ tx' = NoTx
  <2>1. Pending' = {} /\ Counted' = Counted /\ tx'.closed = {} /\ tx'.current = NoSession
    BY <1>6 DEF Pending, Counted, NoTx
  <2> QED BY <1>6, <1>t, <1>m, <2>1, EmptyMaximal DEF ExactInv
<1> QED BY <1>t, <1>1, <1>2, <1>3, <1>4, <1>5, <1>6, SessionsCases

\* Exports in any order: the sessions are exact until the first import.
UnsortedInv ==
  /\ CountInv /\ FiniteInv
  /\ inOrder => Exact(sessions)
  /\ ~imported => Counted = rows

LEMMA UnsortedInit == Init => UnsortedInv
<1> SUFFICES ASSUME Init PROVE UnsortedInv
  OBVIOUS
<1>1. ExactInv /\ inOrder
  BY ExactInit DEF Init
<1> QED BY <1>1, ExactFromInv DEF ExactInv, UnsortedInv

LEMMA UnsortedStep ==
  ASSUME ~SortedExport, UnsortedInv, [Next]_vars
  PROVE  UnsortedInv'
<1>t. TypeOK /\ TypeOK' /\ at' = at /\ CountInv' /\ FiniteInv'
  BY SessionsTypeStep, SessionsCases, CountStep, FiniteStep DEF UnsortedInv, CountInv
<1>m. /\ Maximal(sessions)' <=> Maximal(sessions')
      /\ \A s : Sound(s)' <=> Sound(s)
  BY <1>t, MaximalStep DEF Sound, Spans, NoLongSilence, NoSilence
<1>1. ASSUME NEW m \in Message, SaveLiveMessage(m) PROVE UnsortedInv'
  <2>1. /\ rows' = rows \cup {m} /\ imported' = imported /\ Counted' = Counted \cup {m}
        /\ inOrder' = (inOrder /\ \A k \in Counted : at[k] <= at[m])
    BY <1>1, <1>t, SaveMembers DEF SaveLiveMessage
  <2>2. ASSUME inOrder' PROVE Exact(sessions)'
    <3>1. Exact(sessions) /\ \A k \in Counted : at[k] <= at[m]
      BY <2>1, <2>2 DEF UnsortedInv
    <3>2. Maximal(sessions)'
      BY <1>1, <1>m, <3>1, SaveExact DEF UnsortedInv
    <3>3. \A s \in sessions' : Sound(s)
      BY <1>1, <1>t, <3>1, AttachCases, NewSessionSound, ExtendSound DEF Exact
    <3>4. sessions' \subseteq Session /\ Counts(sessions)'
      BY <1>t DEF CountInv, TypeOK, Session
    <3> QED BY <1>m, <3>2, <3>3, <3>4 DEF Exact, Session
  <2> QED BY <1>t, <2>1, <2>2 DEF UnsortedInv
<1>2. CASE UNCHANGED <<at, rows, sessions, inOrder, imported>>
  <2>1. Counted' = Counted /\ (Exact(sessions)' <=> Exact(sessions))
    BY <1>2, <1>m DEF Counted, Exact, Counts, Session
  <2> QED BY <1>2, <1>t, <2>1 DEF UnsortedInv
<1>3. CASE ImportCommit
  <2>1. inOrder' = FALSE /\ imported' = TRUE
    BY <1>3 DEF ImportCommit
  <2> QED BY <1>t, <2>1 DEF UnsortedInv
<1>4. ASSUME NEW lines \in SUBSET Message, ImportBegin(lines) PROVE UnsortedInv'
  BY <1>2, <1>4 DEF ImportBegin
<1>5. ASSUME NEW m \in tx.todo, ImportLine(m) PROVE UnsortedInv'
  BY <1>2, <1>5 DEF ImportLine
<1> QED BY <1>t, <1>1, <1>2, <1>3, <1>4, <1>5, SessionsCases

\* The sessions built one live message at a time, or one line of an export in time
\* order at a time, are exactly the runs of the messages counted, as long as the live
\* messages since came in time order; before any import these are all stored ones.
THEOREM InOrderIsRecompute == Spec => []InOrderMatchesRecompute
<1>1. ASSUME TypeOK, IsFiniteSet(Counted), inOrder => Exact(sessions),
             ~imported => Counted = rows
      PROVE  InOrderMatchesRecompute
  <2>1. inOrder => sessions = Runs(Counted)
    BY <1>1, ExactRuns DEF Counted
  <2> QED BY <1>1, <2>1 DEF InOrderMatchesRecompute
<1>2. ExactInv => InOrderMatchesRecompute
  BY <1>1, ExactFromInv DEF ExactInv, FiniteInv
<1>3. UnsortedInv => InOrderMatchesRecompute
  BY <1>1 DEF UnsortedInv, FiniteInv
<1>4. CASE SortedExport
  <2>1. ExactInv /\ [Next]_vars => ExactInv'
    BY <1>4, ExactStep
  <2> QED BY <1>2, <2>1, ExactInit, PTL DEF Spec
<1>5. CASE ~SortedExport
  <2>1. UnsortedInv /\ [Next]_vars => UnsortedInv'
    BY <1>5, UnsortedStep
  <2> QED BY <1>3, <2>1, UnsortedInit, PTL DEF Spec
<1> QED BY <1>4, <1>5
-------------------------------------------------------------------------------
(* RecomputesRuns.  The pass is a recursive function, which exists because a  *)
(* shorter pass can be continued; what it has built is exact at every step.  *)

\* Induction up to n, for a set of numbers.
LEMMA UpTo ==
  ASSUME NEW n \in Nat, NEW G \in SUBSET (0..n), 0 \in G, \A i \in 1..n : i - 1 \in G => i \in G
  PROVE  G = 0..n
<1> DEFINE B == (0..n) \ G
           f == [i \in B |-> i]
<1>1. SUFFICES ASSUME B # {} PROVE FALSE
  OBVIOUS
<1>2. IsFiniteSet(B)
  <2>1. IsFiniteSet(0..n)
    BY FS_Interval
  <2> HIDE DEF B
  <2>2. B \subseteq 0..n
    BY DEF B
  <2> QED BY <2>1, <2>2, FS_Subset
<1>3. f \in [B -> Int] /\ \A i \in B : f[i] = i
  OBVIOUS
<1> HIDE DEF f
<1>4. PICK b \in B : \A i \in B : f[b] <= f[i]
  <2> HIDE DEF B
  <2> QED BY <1>1, <1>2, <1>3, FiniteMin
<1>5. b \in 1..n /\ b \notin G
  OBVIOUS
<1>6. b - 1 \in 0..n /\ b - 1 \notin G
  BY <1>5
<1>7. b <= b - 1
  BY <1>3, <1>4, <1>6
<1> QED BY <1>5, <1>7

NoneRead(S) == [left |-> S, closed |-> {}, current |-> NoSession]

\* A pass over k timestamps.
IsPass(S, f, k) == f = [i \in 0..k |-> IF i = 0 THEN NoneRead(S) ELSE ReadStamp(f[i - 1])]

LEMMA PassExists ==
  ASSUME NEW S, NEW n \in Nat
  PROVE  \E f : IsPass(S, f, n)
<1> DEFINE G == {k \in 0..n : \E f : IsPass(S, f, k)}
<1>1. 0 \in G
  <2> DEFINE f == [i \in 0..0 |-> NoneRead(S)]
  <2>1. IsPass(S, f, 0)
    BY DEF IsPass
  <2> QED BY <2>1
<1>2. ASSUME NEW k \in 1..n, k - 1 \in G PROVE k \in G
  <2>1. PICK f : IsPass(S, f, k - 1)
    BY <1>2
  <2> DEFINE g == [i \in 0..k |-> IF i = k THEN ReadStamp(f[k - 1]) ELSE f[i]]
  <2>2. \A i \in 0..(k - 1) : f[i] = IF i = 0 THEN NoneRead(S) ELSE ReadStamp(f[i - 1])
    BY <2>1 DEF IsPass
  <2>3. \A i \in 0..(k - 1) : g[i] = f[i]
    OBVIOUS
  <2>4. ASSUME NEW i \in 0..k
        PROVE  g[i] = IF i = 0 THEN NoneRead(S) ELSE ReadStamp(g[i - 1])
    <3>1. CASE i = k
      <4>1. i - 1 \in 0..(k - 1) /\ i # 0
        BY <3>1
      <4> QED BY <2>3, <3>1, <4>1
    <3>2. CASE i # k
      <4>1. i \in 0..(k - 1) /\ (i # 0 => i - 1 \in 0..(k - 1))
        BY <3>2
      <4> HIDE DEF g
      <4> QED BY <2>2, <2>3, <4>1
    <3> QED BY <3>1, <3>2
  <2>5. g = [i \in 0..k |-> g[i]]
    OBVIOUS
  <2> HIDE DEF g
  <2>6. IsPass(S, g, k)
    BY <2>4, <2>5 DEF IsPass
  <2>7. k \in 0..n
    OBVIOUS
  <2> QED BY <2>6, <2>7
<1>3. n \in 0..n
  OBVIOUS
<1>4. G \in SUBSET (0..n)
  OBVIOUS
<1> HIDE DEF G
<1>5. G = 0..n
  BY <1>1, <1>2, <1>4, UpTo
<1> QED BY <1>3, <1>5 DEF G

\* What a pass has built, the session at hand included.
Built(r) == r.closed \cup ({r.current} \ {NoSession})

\* What has been read lies before what is left, its sessions are exact, and the one at
\* hand ends last.
ReadInv(S, r) ==
  /\ r.left \in SUBSET S
  /\ Exact(Built(r)) /\ Members(Built(r)) = S \ r.left
  /\ \A k \in S \ r.left, o \in r.left : at[k] <= at[o]
  /\ r.current # NoSession =>
       r.current \notin r.closed /\ \A k \in S \ r.left : at[k] <= r.current.end
  /\ r.current = NoSession => r.closed = {}

\* The sessions of a pass share no message and count each once.
LEMMA NewCounts ==
  ASSUME NEW X, Counts(X), NEW m \in Message \ Members(X)
  PROVE  Counts(X \cup {NewSession(m)})
<1> DEFINE e == NewSession(m)
<1>1. e.members = {m} /\ IsFiniteSet(e.members) /\ e.count = Cardinality(e.members)
  BY NewSessionCounts
<1> HIDE DEF e
<1>2. \A u \in X : u.members \cap e.members = {}
  BY <1>1 DEF Members
<1>3. ASSUME NEW u \in X \cup {e}, NEW v \in X \cup {e}, u.members \cap v.members # {}
      PROVE  u = v
  BY <1>2, <1>3 DEF Counts
<1>4. ASSUME NEW u \in X \cup {e}
      PROVE  IsFiniteSet(u.members) /\ u.count = Cardinality(u.members)
  BY <1>1 DEF Counts
<1> QED BY <1>3, <1>4 DEF Counts, e

LEMMA GrowCounts ==
  ASSUME NEW X, Counts(X), NEW m \in Message \ Members(X), NEW s \in X, s \in Session
  PROVE  Counts((X \ {s}) \cup {Grow(s, m)})
<1> DEFINE e == Grow(s, m)
<1>1. m \notin s.members /\ IsFiniteSet(s.members) /\ s.count = Cardinality(s.members)
  BY DEF Counts, Members
<1>2. e.members = s.members \cup {m} /\ IsFiniteSet(e.members) /\ e.count = Cardinality(e.members)
  BY <1>1, ExtendCounts
<1> HIDE DEF e
<1>3. \A u \in X \ {s} : u.members \cap e.members = {}
  BY <1>2 DEF Counts, Members
<1>4. ASSUME NEW u \in (X \ {s}) \cup {e}, NEW v \in (X \ {s}) \cup {e}, u.members \cap v.members # {}
      PROVE  u = v
  BY <1>3, <1>4 DEF Counts
<1>5. ASSUME NEW u \in (X \ {s}) \cup {e}
      PROVE  IsFiniteSet(u.members) /\ u.count = Cardinality(u.members)
  BY <1>2 DEF Counts
<1> QED BY <1>4, <1>5 DEF Counts, e

LEMMA ReadKeepsExact ==
  ASSUME TypeOK, NEW S \in SUBSET Message, IsFiniteSet(S),
         NEW r, ReadInv(S, r), r.left # {}
  PROVE  /\ ReadInv(S, ReadStamp(r))
         /\ \E m \in r.left : ReadStamp(r).left = r.left \ {m}
<1> DEFINE m == Earliest(r.left)
           q == ReadStamp(r)
           X == Built(r)
           c == r.current
<1>1. r.left \in SUBSET Message /\ IsFiniteSet(r.left)
  BY FS_Subset DEF ReadInv
<1>2. m \in r.left /\ \A o \in r.left : at[m] <= at[o]
  BY <1>1, EndsExist
<1> HIDE DEF m
<1>3. /\ Exact(X) /\ Members(X) = S \ r.left /\ m \in Message \ Members(X)
      /\ \A k \in Members(X) : at[k] <= at[m]
  BY <1>1, <1>2 DEF ReadInv
<1>4. at[m] \in Int /\ at[m] \in Stamp /\ Gap \in Nat
  BY <1>3, SessionsAssumption DEF TypeOK
<1>5. q.left = r.left \ {m} /\ q.left \in SUBSET S /\ S \ q.left = (S \ r.left) \cup {m}
  BY <1>2 DEF ReadStamp, m, ReadInv
<1>6. \A k \in S \ q.left, o \in q.left : at[k] <= at[o]
  BY <1>2, <1>5 DEF ReadInv
<1>7. CASE c # NoSession /\ Adjoins(c, at[m])
  <2>1. c \in X /\ c \in Session /\ Sound(c) /\ c \notin r.closed
        /\ X = r.closed \cup {c}
    BY <1>3, <1>7 DEF Built, Exact, ReadInv
  <2>2. c.end \in Int /\ c.end \in Stamp
    BY <2>1, SessionsAssumption DEF Session
  <2>3. PICK y \in c.members : at[y] = c.end
    BY <2>1 DEF Sound, Spans
  <2>4. c.end <= at[m]
    BY <1>3, <2>1, <2>3 DEF Members
  <2>5. Reaches(c, at[m]) /\ Continues(c, at[m])
    BY <1>4, <1>7, <2>2 DEF Adjoins, Reaches, Continues
  <2> DEFINE e == Grow(c, m)
  <2>6. e.members = c.members \cup {m} /\ e.end = at[m] /\ e \in Session /\ Sound(e)
    BY <1>3, <2>1, <2>4, <2>5, GrowSound, ExtendType DEF Grow, Session
  <2>7. Counts((X \ {c}) \cup {e})
    BY <1>3, <2>1, GrowCounts DEF Exact
  <2>8. q.current = e /\ q.closed = r.closed
    BY <1>7 DEF ReadStamp, m
  <2> HIDE DEF e
  <2>9. e # NoSession /\ e \notin r.closed
    BY <1>3, <2>1, <2>6, NoSessionAssumption DEF Members
  <2>10. Built(q) = (X \ {c}) \cup {e}
    BY <2>1, <2>8, <2>9 DEF Built
  <2> HIDE DEF X, q
  <2>11. Maximal(Built(q)) /\ Members(Built(q)) = Members(X) \cup {m}
    <3>1. e.members = c.members \cup {m} /\ c \in X /\ Reaches(c, at[m])
      BY <2>1, <2>5, <2>6
    <3> HIDE DEF c
    <3>2. Maximal((X \ {c}) \cup {e}) /\ Members((X \ {c}) \cup {e}) = Members(X) \cup {m}
      BY <1>3, <3>1, ExtendExact
    <3> QED BY <2>10, <3>2
  <2>12. Exact(Built(q))
    BY <1>3, <2>6, <2>7, <2>10, <2>11 DEF Exact
  <2>13. \A k \in S \ q.left : at[k] <= q.current.end
    BY <1>3, <1>4, <1>5, <2>6, <2>8
  <2>14. Members(Built(q)) = S \ q.left
    BY <1>3, <1>5, <2>11
  <2>15. q.current # NoSession /\ q.current \notin q.closed
    BY <2>8, <2>9
  <2>16. ReadInv(S, q)
    BY <1>5, <1>6, <2>12, <2>13, <2>14, <2>15 DEF ReadInv
  <2> QED BY <1>2, <1>5, <2>16 DEF q
<1>8. CASE ~(c # NoSession /\ Adjoins(c, at[m]))
  <2> DEFINE e == NewSession(m)
  <2>1. e.members = {m} /\ e.end = at[m] /\ e \in Session /\ Sound(e)
    BY <1>3, NewSessionType, NewSessionSound DEF NewSession
  <2>2. Counts(X \cup {e})
    BY <1>3, NewCounts DEF Exact
  <2>3. ASSUME NEW s \in X, Reaches(s, at[m]) PROVE FALSE
    <3>1. c # NoSession /\ c \in X
      BY <2>3 DEF ReadInv, Built
    <3>2. /\ s.end \in Stamp /\ c.end \in Stamp
          /\ \E y \in s.members : at[y] = s.end /\ y \in Members(X)
          /\ \E y \in c.members : at[y] = c.end /\ y \in Members(X)
      BY <1>3, <3>1, ExactMembers
    <3>3. s.end <= c.end /\ c.end <= at[m]
      BY <1>3, <3>1, <3>2 DEF ReadInv
    <3>4. Day[s.end] = Day[at[m]] /\ at[m] <= s.end + Gap
      BY <2>3 DEF Reaches
    <3>5. Day[c.end] = Day[at[m]]
      BY <1>4, <3>2, <3>3, <3>4, SameDay
    <3>6. s.end \in Int /\ c.end \in Int
      BY <3>2, SessionsAssumption
    <3>7. at[m] - c.end <= Gap
      BY <1>4, <3>3, <3>4, <3>6
    <3> QED BY <1>8, <3>1, <3>5, <3>7 DEF Adjoins
  <2>4. q.current = e /\ q.closed = X
    BY <1>8 DEF ReadStamp, m, Built
  <2> HIDE DEF e
  <2>5. e # NoSession /\ e \notin X
    BY <1>3, <2>1, NoSessionAssumption DEF Members
  <2>6. Built(q) = X \cup {e}
    BY <2>4, <2>5 DEF Built
  <2> HIDE DEF X, q
  <2>7. Maximal(Built(q))
    BY <1>3, <2>3, <2>6, NewExact DEF e
  <2>8. Members(Built(q)) = Members(X) \cup {m}
    BY <2>1, <2>6 DEF Members
  <2>9. Exact(Built(q))
    BY <1>3, <2>1, <2>2, <2>6, <2>7 DEF Exact
  <2>10. \A k \in S \ q.left : at[k] <= q.current.end
    BY <1>3, <1>4, <1>5, <2>1, <2>4
  <2>11. Members(Built(q)) = S \ q.left
    BY <1>3, <1>5, <2>8
  <2>12. q.current # NoSession /\ q.current \notin q.closed
    BY <2>4, <2>5
  <2>13. ReadInv(S, q)
    BY <1>5, <1>6, <2>9, <2>10, <2>11, <2>12 DEF ReadInv
  <2> QED BY <1>2, <1>5, <2>13 DEF q
<1> QED BY <1>7, <1>8
LEMMA PassIsExact ==
  ASSUME TypeOK, NEW S \in SUBSET Message, IsFiniteSet(S),
         NEW f, IsPass(S, f, Cardinality(S))
  PROVE  Built(f[Cardinality(S)]) = Runs(S)
<1> DEFINE n == Cardinality(S)
           G == {i \in 0..n : ReadInv(S, f[i]) /\ Cardinality(f[i].left) = n - i}
<1>1. n \in Nat
  BY FS_CardinalityType
<1>2. \A i \in 0..n : f[i] = IF i = 0 THEN NoneRead(S) ELSE ReadStamp(f[i - 1])
  BY DEF IsPass
<1> HIDE DEF n
<1>3. 0 \in G
  <2>1. f[0] = NoneRead(S) /\ 0 \in 0..n
    BY <1>1, <1>2
  <2>2. Built(NoneRead(S)) = {}
    BY DEF Built, NoneRead
  <2>3. Exact({}) /\ Members({}) = {}
    BY EmptyMaximal DEF Exact, Counts
  <2>4. ReadInv(S, NoneRead(S))
    <3>1. /\ NoneRead(S).left = S /\ NoneRead(S).closed = {}
          /\ NoneRead(S).current = NoSession
      BY DEF NoneRead
    <3> QED BY <2>2, <2>3, <3>1 DEF ReadInv
  <2>5. Cardinality(NoneRead(S).left) = n - 0
    BY <1>1 DEF NoneRead, n
  <2> QED BY <2>1, <2>4, <2>5
<1>4. ASSUME NEW i \in 1..n, i - 1 \in G PROVE i \in G
  <2> DEFINE r == f[i - 1]
  <2>1. ReadInv(S, r) /\ Cardinality(r.left) = n - (i - 1)
    BY <1>4
  <2>2. IsFiniteSet(r.left)
    BY <2>1, FS_Subset DEF ReadInv
  <2>3. r.left # {}
    BY <1>1, <2>1, FS_EmptySet
  <2>4. f[i] = ReadStamp(r) /\ i \in 0..n
    BY <1>1, <1>2
  <2> HIDE DEF r, G
  <2>5. ReadInv(S, f[i]) /\ \E m \in r.left : f[i].left = r.left \ {m}
    BY <2>1, <2>3, <2>4, ReadKeepsExact
  <2>6. Cardinality(f[i].left) = Cardinality(r.left) - 1
    BY <2>2, <2>5, FS_RemoveElement
  <2>7. Cardinality(f[i].left) = n - i
    BY <1>1, <2>1, <2>6
  <2> QED BY <2>4, <2>5, <2>7 DEF G
<1>5. G \in SUBSET (0..n)
  OBVIOUS
<1>6. n \in G
  <2> HIDE DEF G
  <2>1. G = 0..n
    BY <1>1, <1>3, <1>4, <1>5, UpTo
  <2> QED BY <1>1, <2>1
<1>7. f[n].left = {} /\ ReadInv(S, f[n])
  <2>1. ReadInv(S, f[n]) /\ Cardinality(f[n].left) = 0
    BY <1>1, <1>6
  <2>2. IsFiniteSet(f[n].left)
    BY <2>1, FS_Subset DEF ReadInv
  <2> QED BY <2>1, <2>2, FS_EmptySet
<1>8. Exact(Built(f[n])) /\ Members(Built(f[n])) = S
  BY <1>7 DEF ReadInv
<1> QED BY <1>8, ExactRuns DEF n

\* What RecomputeSessions computes, of any finite set of messages.
LEMMA RecomputeIsRuns ==
  ASSUME TypeOK, NEW S \in SUBSET Message, IsFiniteSet(S)
  PROVE  Recompute(S) = Runs(S)
<1> DEFINE n == Cardinality(S)
<1>1. n \in Nat
  BY FS_CardinalityType
<1>2. PICK f : IsPass(S, f, n) /\ Recompute(S) = Built(f[n])
  <2>1. \E f : IsPass(S, f, n)
    BY <1>1, PassExists
  <2> QED BY <2>1 DEF IsPass, Recompute, NoneRead, Built
<1> QED BY <1>2, PassIsExact

\* The rows that are stored are finitely many.
RowsInv == TypeOK /\ FiniteInv /\ IsFiniteSet(rows) /\ IsFiniteSet(tx.added)

LEMMA RowsStep == RowsInv /\ [Next]_vars => RowsInv'
<1> SUFFICES ASSUME RowsInv, [Next]_vars PROVE RowsInv'
  OBVIOUS
<1>t. TypeOK /\ TypeOK' /\ FiniteInv' /\ IsFiniteSet(rows) /\ IsFiniteSet(tx.added)
  BY SessionsTypeStep, FiniteStep DEF RowsInv
<1>a. \A m : IsFiniteSet(rows \cup {m}) /\ IsFiniteSet(tx.added \cup {m})
  BY <1>t, FS_AddElement
<1>b. IsFiniteSet(rows \cup tx.added) /\ IsFiniteSet({})
  BY <1>t, FS_Union, FS_EmptySet
<1>1. ASSUME NEW m \in Message, SaveLiveMessage(m) PROVE RowsInv'
  BY <1>1, <1>t, <1>a DEF SaveLiveMessage, RowsInv
<1>2. ASSUME NEW lines \in SUBSET Message, ImportBegin(lines) PROVE RowsInv'
  BY <1>2, <1>t, <1>b DEF ImportBegin, RowsInv
<1>3. ASSUME NEW m \in tx.todo, ImportLine(m) PROVE RowsInv'
  <2> DEFINE t == SessionizeLine(m)
  <2>1. m \in Message
    BY <1>t DEF TypeOK
  <2>2. /\ t \in [open : BOOLEAN, todo : SUBSET Message, added : SUBSET Message,
                  closed : SUBSET Session, current : Session \cup {NoSession}]
        /\ t.added = tx.added
    BY <1>t, <2>1, SessionizeCases
  <2>3. /\ tx' = [t EXCEPT !.todo = @ \ {m},
                           !.added = @ \cup ({m} \ (rows \cup Notice \cup Blank))]
        /\ UNCHANGED rows
    BY <1>3 DEF ImportLine
  <2> HIDE DEF t
  <2>4. tx'.added = tx.added \/ tx'.added = tx.added \cup {m}
    BY <2>2, <2>3
  <2> QED BY <1>t, <1>a, <2>3, <2>4 DEF RowsInv
<1>4. CASE ImportCommit
  BY <1>4, <1>t, <1>b DEF ImportCommit, NoTx, RowsInv
<1>5. CASE UNCHANGED <<at, rows, sessions, inOrder, imported>> /\ (tx' = tx \/ tx' = NoTx)
  BY <1>5, <1>t, <1>b DEF NoTx, RowsInv
<1> QED BY <1>t, <1>1, <1>2, <1>3, <1>4, <1>5, SessionsCases

\* What RecomputeSessions computes from the rows that are not deleted.
LEMMA RecomputeSessionsIsRuns ==
  ASSUME RowsInv
  PROVE  RecomputeSessions = Runs(rows \ deleted)
<1>1. rows \ deleted \in SUBSET Message /\ IsFiniteSet(rows \ deleted)
  BY FS_Subset DEF RowsInv, TypeOK
<1> QED BY <1>1, RecomputeIsRuns DEF RowsInv, RecomputeSessions

LEMMA RowsInit == Init => RowsInv
BY SessionsTypeInit, FiniteInit, FS_EmptySet DEF Init, NoTx, RowsInv

\* The program's own recomputation gives the runs that the rows still there have by
\* definition, whatever was saved, imported and deleted before (live.go:213).
THEOREM RecomputeComputesRuns == Spec => []RecomputesRuns
<1>1. RowsInv => RecomputesRuns
  BY RecomputeSessionsIsRuns DEF RecomputesRuns
<1> QED BY <1>1, RowsInit, RowsStep, PTL DEF Spec

\* Fewer messages have smaller runs.
LEMMA RunsShrink ==
  ASSUME TypeOK, NEW T \in SUBSET Message, IsFiniteSet(T), NEW S \in SUBSET T,
         NEW u \in Runs(S)
  PROVE  \E s \in Runs(T) :
           u.members \subseteq s.members /\ s.start <= u.start /\ u.end <= s.end
<1>1. PICK m \in S : u = RunSession(Run(S, m))
  BY DEF Runs
<1> DEFINE R == Run(S, m)
           Q == Run(T, m)
<1>2. \A from, to : NoSilence(S, from, to) => NoSilence(T, from, to)
  BY DEF NoSilence
<1>3. R \subseteq Q
  BY <1>2 DEF Run, Together
<1>4. Earliest(R) \in R /\ Latest(R) \in R
  BY <1>1, RunEnds, FS_Subset
<1>5. \A n \in Q : at[Earliest(Q)] <= at[n] /\ at[n] <= at[Latest(Q)]
  BY <1>1, RunEnds
<1>6. RunSession(Q) \in Runs(T)
  BY <1>1 DEF Runs
<1>7. /\ u.members = R /\ u.start = at[Earliest(R)] /\ u.end = at[Latest(R)]
      /\ RunSession(Q).members = Q
      /\ RunSession(Q).start = at[Earliest(Q)] /\ RunSession(Q).end = at[Latest(Q)]
  BY <1>1 DEF RunSession
<1> HIDE DEF R, Q
<1> QED BY <1>3, <1>4, <1>5, <1>6, <1>7

\* TestRecomputeSessionsMatchesIncremental, for every history without an import: messages
\* saved in time order have left the sessions that recomputing would give, and with
\* deleted messages each recomputed session lies inside one of them.
THEOREM IncrementalIsRecompute == Spec => []RecomputeOnlySplits
<1>1. ASSUME InOrderMatchesRecompute, RowsInv, inOrder, ~imported
      PROVE  /\ deleted = {} => RecomputeSessions = sessions
             /\ \A u \in RecomputeSessions : \E s \in sessions :
                  u.members \subseteq s.members /\ s.start <= u.start /\ u.end <= s.end
  <2>1. sessions = Runs(rows)
    BY <1>1 DEF InOrderMatchesRecompute
  <2>2. RecomputeSessions = Runs(rows \ deleted)
    BY <1>1, RecomputeSessionsIsRuns
  <2>3. deleted = {} => rows \ deleted = rows
    OBVIOUS
  <2>4. TypeOK /\ rows \in SUBSET Message /\ IsFiniteSet(rows) /\ rows \ deleted \in SUBSET rows
    BY <1>1 DEF RowsInv, TypeOK
  <2> QED BY <2>1, <2>2, <2>3, <2>4, RunsShrink
<1>2. InOrderMatchesRecompute /\ RowsInv => RecomputeOnlySplits
  BY <1>1 DEF RecomputeOnlySplits
<1> QED BY <1>2, RowsInit, RowsStep, InOrderIsRecompute, PTL DEF Spec
===============================================================================
