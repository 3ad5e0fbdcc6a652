---------------------------- MODULE BackfillProofs ----------------------------
(***************************************************************************)
(* Proofs, for a history, a batch, a number of stalls and any delays and    *)
(* losses, that the walk ends only with the whole history published unless  *)
(* maxStalls rounds in a row were slow or had nothing stored                *)
(* (SlowRoundSurvived) and that requests do not pile up (NoPileUp).  That   *)
(* it ends is liveness and is left to TLC.                                  *)
(***************************************************************************)
EXTENDS Backfill, FiniteSetTheorems, WellFoundedInduction, TLAPS

EntryType == [last : Cursor \cup {NoCursor}, recent : BOOLEAN,
              stalls : 0 .. MaxStalls, done : BOOLEAN]

\* The messages of the page before an anchor.
Page(anchor) == {o \in Older : o < anchor /\ anchor <= o + Batch}

-------------------------------------------------------------------------------
(* The oldest stored message.                                                 *)

LEMMA LeastExists ==
  ASSUME NEW T \in SUBSET Nat, T # {}
  PROVE  \E c \in T : \A d \in T : c <= d
<1> DEFINE Segments == {1 .. c : c \in T}
<1>1. Segments \subseteq FiniteSubsetsOf(Nat) /\ Segments # {}
  <2>1. \A c \in T : IsFiniteSet(1 .. c) /\ 1 .. c \subseteq Nat
    BY FS_Interval
  <2>. QED
    BY <2>1 DEF FiniteSubsetsOf
<1>2. IsWellFoundedOn(StrictSubsetOrdering(Nat), FiniteSubsetsOf(Nat))
  BY FS_StrictSubsetOrderingWellFounded
<1>. HIDE DEF Segments
<1>3. PICK x \in Segments : \A y \in Segments : ~(<<y, x>> \in StrictSubsetOrdering(Nat))
  BY <1>1, <1>2, WFMin
<1>4. PICK c \in T : x = 1 .. c
  BY <1>3 DEF Segments
<1>5. ASSUME NEW d \in T, d < c PROVE FALSE
  <2>1. (1 .. d) \subseteq (1 .. c) /\ c \in 1 .. c /\ c \notin 1 .. d
    BY <1>5
  <2>2. <<1 .. d, 1 .. c>> \in StrictSubsetOrdering(Nat)
    BY <2>1 DEF StrictSubsetOrdering
  <2>3. 1 .. d \in Segments
    BY DEF Segments
  <2>. QED
    BY <1>3, <1>4, <2>2, <2>3
<1>. QED
  BY <1>5

LEMMA OldestIsLeast ==
  ASSUME stored \subseteq Older
  PROVE  /\ Oldest \in Cursor /\ Oldest \in stored \cup {History + 1}
         /\ \A o \in stored : Oldest <= o
<1> DEFINE T == stored \cup {History + 1}
<1>1. T \in SUBSET Nat /\ T # {} /\ T \subseteq Cursor
  BY BackfillAssumption DEF Older, Cursor
<1>2. \E c \in T : \A d \in T : c <= d
  BY <1>1, LeastExists
<1>3. Oldest \in T /\ \A d \in T : Oldest <= d
  BY <1>2 DEF Oldest
<1>. QED
  BY <1>1, <1>3

-------------------------------------------------------------------------------
(* The invariant.                                                             *)

\* What is seen reaches up to the newest: a page ends where the stored messages begin.
NoGaps == \A m \in Seen : \A o \in Older : m < o => o \in Seen

\* Anchors and what a decision works on were stored, and stay so.
AnchorsStored ==
  /\ \A q \in asked : q.anchor \in stored \cup {History + 1}
  /\ read # NoRead => read.oldest \in stored \cup {History + 1}
  /\ entry.last # NoCursor => entry.last \in stored \cup {History + 1}

\* The entry is about the latest round, unless the walk has begun anew.
LatestRound ==
  /\ entry.last # NoCursor => round >= 1 /\ \A q \in asked : q.round = round => q.anchor = entry.last
  /\ entry.last = NoCursor => entry.stalls = 0 /\ ~entry.done
  /\ ~entry.done => entry.stalls < MaxStalls
  /\ entry.done => entry.stalls = MaxStalls

Answered == round \notin slow /\ \A q \in asked : q.round # round

\* Message o of the latest round was published and not stored.
Missed(o) == [round |-> round, msg |-> o] \in missed

\* The page of the latest round is stored, missed or on its way, unless it was lost ...
PageComes ==
  entry.last # NoCursor /\ Answered =>
    \A o \in Page(entry.last) :
      o \in stored \/ [round |-> round, msg |-> o] \in wire \/ Missed(o)

\* ... what is stored of it is older than its anchor ...
PageOlder ==
  entry.last # NoCursor =>
    /\ \A w \in wire : w.round = round => w.msg < entry.last
    /\ round \in got => \E o \in stored : o < entry.last

\* ... and a decision that found nothing under way has read what is stored of it.
PageRead ==
  read # NoRead /\ entry.last # NoCursor /\ round \notin slow /\ round \notin read.underWay =>
    /\ \A o \in Page(entry.last) : read.oldest <= o \/ Missed(o)
    /\ round \in got => read.oldest < entry.last
    /\ round \notin UnderWay

\* A round after the last that was found to stall.
End == IF entry.done THEN round + 1 ELSE round

\* A round that was slow, or of which nothing was stored and nothing more can be.
Wasted(r) == r \in slow \/ (r \in Barren /\ r \notin UnderWay)

\* Every stall counted stands for a wasted round, and these are the last ones.
StallsAreSlow ==
  \/ AllSeen
  \/ /\ entry.last # NoCursor => entry.stalls < End
     /\ \A r \in Nat : r < End /\ End <= r + entry.stalls => Wasted(r)

WalkInv ==
  /\ TypeOK /\ NoGaps /\ AnchorsStored /\ LatestRound
  /\ PageComes /\ PageOlder /\ PageRead /\ StallsAreSlow

LEMMA WalkInvInit == Init => WalkInv
<1>. SUFFICES ASSUME Init PROVE WalkInv
  OBVIOUS
<1>1. TypeOK
  BY BackfillAssumption DEF Init, TypeOK, Fresh, NoRead, NoCursor
<1>2. entry.last = NoCursor /\ entry.stalls = 0 /\ entry.done = FALSE
  BY DEF Init, Fresh
<1>3. \A r \in Nat : ~(r < round)
  BY DEF Init
<1>. QED
  BY <1>1, <1>2, <1>3, BackfillAssumption
  DEF Init, WalkInv, NoGaps, Seen, AnchorsStored, LatestRound, PageComes, PageOlder, PageRead,
      StallsAreSlow, End

-------------------------------------------------------------------------------
(* The steps that leave the record of the walk alone.                         *)

LEMMA ReadType ==
  ASSUME TypeOK
  PROVE  UnderWay \subseteq 1 .. round
BY DEF TypeOK, UnderWay

\* A wasted round stays so: what is under way is of other rounds.
LEMMA WastedStays ==
  ASSUME TypeOK, NEW r \in Nat, r < round + 1, Wasted(r),
         slow \subseteq slow', missed \subseteq missed', got' \subseteq got \cup UnderWay,
         UnderWay' \subseteq UnderWay \cup {round + 1}
  PROVE  Wasted(r)'
BY DEF Wasted, Barren

LEMMA StallsKept ==
  ASSUME WalkInv, UNCHANGED round,
         entry'.last = entry.last, entry'.stalls = entry.stalls, entry'.done = entry.done,
         Seen \subseteq Seen', slow \subseteq slow', missed \subseteq missed',
         got' \subseteq got \cup UnderWay, UnderWay' \subseteq UnderWay
  PROVE  StallsAreSlow'
<1>1. TypeOK /\ round \in Nat /\ End' = End
  BY DEF WalkInv, TypeOK, End
<1>2. AllSeen => AllSeen'
  BY DEF AllSeen
<1>3. ASSUME NEW r \in Nat, r < End, Wasted(r) PROVE Wasted(r)'
  <2>1. r < round + 1
    BY <1>1, <1>3 DEF End
  <2>. QED
    BY <1>1, <1>3, <2>1, WastedStays
<1>. QED
  BY <1>1, <1>2, <1>3 DEF WalkInv, StallsAreSlow

LEMMA InvBackfillCursors ==
  ASSUME WalkInv, BackfillCursors
  PROVE  WalkInv'
<1>1. read' = [oldest |-> Oldest, underWay |-> UnderWay]
      /\ UNCHANGED <<stored, entry, round, asked, wire, slow, got, missed, imports, resets>>
  BY DEF BackfillCursors, outcome
<1>2. stored \subseteq Older
  BY DEF WalkInv, TypeOK
<1>3. TypeOK'
  <2>1. read' \in [oldest : Cursor \cup {NoCursor}, underWay : SUBSET (1 .. round)]
    BY <1>1, <1>2, OldestIsLeast, ReadType DEF WalkInv
  <2>. QED
    BY <1>1, <2>1 DEF WalkInv, TypeOK
<1>u. UnderWay' = UnderWay /\ Seen' = Seen
  BY <1>1 DEF UnderWay, Seen
<1>4. PageRead'
  <2>. SUFFICES ASSUME entry.last # NoCursor, round \notin slow, round \notin UnderWay
                PROVE  /\ \A o \in Page(entry.last) : Oldest <= o \/ Missed(o)
                       /\ round \in got => Oldest < entry.last
    BY <1>1, <1>u DEF PageRead, Missed
  <2>1. \A q \in asked : q.round # round
    BY DEF UnderWay
  <2>2. \A o : [round |-> round, msg |-> o] \notin wire
    BY DEF UnderWay
  <2>3. \A o \in Page(entry.last) : o \in stored \/ Missed(o)
    BY <2>1, <2>2 DEF WalkInv, PageComes, Answered
  <2>4. entry.last \in Nat /\ Oldest \in Nat /\ \A o \in stored : o \in Nat /\ Oldest <= o
    BY <1>2, OldestIsLeast, BackfillAssumption
    DEF WalkInv, TypeOK, Cursor, NoCursor, Older
  <2>5. round \in got => Oldest < entry.last
    BY <2>4 DEF WalkInv, PageOlder
  <2>. QED
    BY <2>3, <2>4, <2>5
<1>5. AnchorsStored'
  BY <1>1, <1>2, OldestIsLeast DEF WalkInv, AnchorsStored
<1>6. StallsAreSlow'
  BY <1>1, <1>u, StallsKept
<1>. QED
  BY <1>1, <1>3, <1>4, <1>5, <1>6, <1>u
  DEF WalkInv, NoGaps, LatestRound, PageComes, PageOlder, Missed, Answered

LEMMA InvIntervalPasses ==
  ASSUME WalkInv, IntervalPasses
  PROVE  WalkInv'
<1>1. entry' = [entry EXCEPT !.recent = FALSE]
      /\ asked' = {[q EXCEPT !.late = TRUE] : q \in asked}
      /\ UNCHANGED <<stored, read, round, wire, slow, got, missed, imports, resets>>
  BY DEF IntervalPasses, outcome
<1>2. entry' \in EntryType
      /\ entry'.last = entry.last /\ entry'.stalls = entry.stalls /\ entry'.done = entry.done
  BY <1>1 DEF WalkInv, TypeOK, EntryType
<1>3. \A q \in asked : q \in [round : 1 .. round, anchor : Cursor, late : BOOLEAN]
  BY DEF WalkInv, TypeOK
<1>4. asked' \subseteq [round : 1 .. round, anchor : Cursor, late : BOOLEAN]
  BY <1>1, <1>3
<1>5. \A r \in asked' : \E q \in asked : r.round = q.round /\ r.anchor = q.anchor
  BY <1>1, <1>3
<1>6. ASSUME NEW q \in asked PROVE \E r \in asked' : r.round = q.round
  <2>1. [q EXCEPT !.late = TRUE] \in asked' /\ [q EXCEPT !.late = TRUE].round = q.round
    BY <1>1, <1>3
  <2>. QED
    BY <2>1
<1>7. TypeOK'
  BY <1>1, <1>2, <1>4 DEF WalkInv, TypeOK, EntryType
<1>u. UnderWay' \subseteq UnderWay /\ Seen' = Seen
  BY <1>1, <1>5 DEF UnderWay, Seen
<1>8. StallsAreSlow'
  BY <1>1, <1>2, <1>u, StallsKept
<1>. QED
  BY <1>1, <1>2, <1>5, <1>6, <1>7, <1>8, <1>u
  DEF WalkInv, NoGaps, AnchorsStored, LatestRound, PageComes, PageOlder, Missed, Answered,
      PageRead

LEMMA InvRequestLost ==
  ASSUME WalkInv, NEW q \in asked, RequestLost(q)
  PROVE  WalkInv'
<1>1. asked' = asked \ {q} /\ slow' = slow \cup {q.round}
      /\ UNCHANGED <<stored, entry, read, round, wire, got, missed, imports, resets>>
  BY DEF RequestLost, outcome
<1>2. q.round \in 1 .. round
  BY DEF WalkInv, TypeOK
<1>3. TypeOK'
  BY <1>1, <1>2 DEF WalkInv, TypeOK
<1>4. Answered' => Answered
  BY <1>1 DEF Answered
<1>u. UnderWay' \subseteq UnderWay /\ Seen' = Seen
  BY <1>1 DEF UnderWay, Seen
<1>5. StallsAreSlow'
  BY <1>1, <1>u, StallsKept
<1>. QED
  BY <1>1, <1>3, <1>4, <1>5, <1>u
  DEF WalkInv, NoGaps, AnchorsStored, LatestRound, PageComes, PageOlder, Missed, PageRead

LEMMA InvHistoryArrives ==
  ASSUME WalkInv, NEW q \in asked, HistoryArrives(q)
  PROVE  WalkInv'
<1> DEFINE new == {[round |-> q.round, msg |-> m] : m \in Page(q.anchor)}
<1>1. asked' = asked \ {q} /\ wire' = wire \cup new
      /\ UNCHANGED <<stored, entry, read, round, slow, got, missed, imports, resets>>
  BY DEF HistoryArrives, Page, outcome
<1>2. q \in [round : 1 .. round, anchor : Cursor, late : BOOLEAN]
  BY DEF WalkInv, TypeOK
<1>n. /\ \A w \in new : w.round = q.round /\ w.msg \in Page(q.anchor)
      /\ \A m \in Page(q.anchor) : [round |-> q.round, msg |-> m] \in new
      /\ new \subseteq [round : 1 .. round, msg : Older]
  BY <1>2 DEF Page
<1>. HIDE DEF new
<1>3. TypeOK'
  BY <1>1, <1>n DEF WalkInv, TypeOK
<1>4. Seen' = Seen \cup Page(q.anchor)
  <2>1. {w.msg : w \in new} = Page(q.anchor)
    <3>1. ASSUME NEW m \in Page(q.anchor) PROVE m \in {w.msg : w \in new}
      <4>1. [round |-> q.round, msg |-> m].msg = m
        OBVIOUS
      <4>. QED
        BY <1>n, <4>1
    <3>. QED
      BY <1>n, <3>1
  <2>2. {w.msg : w \in (wire \cup new) \cup missed}
          = {w.msg : w \in wire \cup missed} \cup {w.msg : w \in new}
    OBVIOUS
  <2>. QED
    BY <1>1, <2>1, <2>2 DEF Seen
<1>5. NoGaps'
  <2>. SUFFICES ASSUME NEW m \in Page(q.anchor), NEW o \in Older, m < o, o \notin Page(q.anchor)
                PROVE  o \in Seen
    BY <1>1, <1>4 DEF WalkInv, NoGaps
  <2>1. m \in Nat /\ o \in Nat /\ q.anchor \in Nat /\ o <= History
    BY <1>2, BackfillAssumption DEF Page, Older, Cursor
  <2>2. q.anchor <= o
    BY <2>1, BackfillAssumption DEF Page
  <2>3. q.anchor \in stored
    BY <2>1, <2>2, BackfillAssumption DEF WalkInv, AnchorsStored
  <2>4. CASE o = q.anchor
    BY <2>3, <2>4 DEF Seen
  <2>5. CASE q.anchor < o
    BY <2>3, <2>5 DEF WalkInv, NoGaps, Seen
  <2>. QED
    BY <2>1, <2>2, <2>4, <2>5
<1>6. PageComes'
  <2>. SUFFICES ASSUME entry.last # NoCursor, Answered', NEW o \in Page(entry.last)
                PROVE  o \in stored \/ [round |-> round, msg |-> o] \in wire' \/ Missed(o)
    BY <1>1 DEF PageComes, Page, Missed
  <2>1. CASE q.round = round
    BY <1>1, <1>n, <2>1 DEF WalkInv, LatestRound
  <2>2. CASE q.round # round
    BY <1>1, <2>2 DEF WalkInv, PageComes, Answered
  <2>. QED
    BY <2>1, <2>2
<1>7. PageOlder'
  <2>1. ASSUME NEW w \in new, entry.last # NoCursor, w.round = round PROVE w.msg < entry.last
    BY <1>n, <2>1 DEF WalkInv, LatestRound, Page
  <2>. QED
    BY <1>1, <2>1 DEF WalkInv, PageOlder
<1>u. UnderWay' \subseteq UnderWay
  BY <1>1, <1>n DEF UnderWay
<1>8. StallsAreSlow'
  BY <1>1, <1>4, <1>u, StallsKept
<1>. QED
  BY <1>1, <1>3, <1>5, <1>6, <1>7, <1>8, <1>u
  DEF WalkInv, AnchorsStored, LatestRound, PageRead, Missed

\* A message of a page is handled, stored or not.
LEMMA InvHandled ==
  ASSUME WalkInv, NEW w \in wire, StoreMessage(w) \/ MissMessage(w)
  PROVE  WalkInv'
<1>1. /\ wire' = wire \ {w}
      /\ \/ stored' = stored \cup {w.msg} /\ got' = got \cup {w.round} /\ missed' = missed
         \/ stored' = stored /\ got' = got /\ missed' = missed \cup {w}
      /\ UNCHANGED <<entry, read, round, asked, slow, imports, resets>>
  BY DEF StoreMessage, MissMessage
<1>2. w.msg \in Older /\ w \in [round : 1 .. round, msg : Older] /\ w.round \in UnderWay
  BY DEF WalkInv, TypeOK, UnderWay
<1>3. TypeOK'
  BY <1>1, <1>2 DEF WalkInv, TypeOK
<1>4. Seen' = Seen
  BY <1>1 DEF Seen
<1>6. \A o : [round |-> round, msg |-> o] = w => o = w.msg
  OBVIOUS
<1>7. PageComes'
  BY <1>1, <1>6 DEF WalkInv, PageComes, Answered, Page, Missed
<1>8. PageOlder'
  BY <1>1 DEF WalkInv, PageOlder
<1>u. UnderWay' \subseteq UnderWay
  BY <1>1 DEF UnderWay
<1>9. PageRead'
  BY <1>1, <1>2, <1>u DEF WalkInv, PageRead, Missed, Page
<1>10. StallsAreSlow'
  BY <1>1, <1>2, <1>4, <1>u, StallsKept
<1>. QED
  BY <1>1, <1>3, <1>4, <1>7, <1>8, <1>9, <1>10
  DEF WalkInv, NoGaps, AnchorsStored, LatestRound

LEMMA InvImportExport ==
  ASSUME WalkInv, NEW m \in Older, ImportExport(m)
  PROVE  WalkInv'
<1>1. /\ imports' = imports + 1 /\ imports < MaxImports
      /\ stored' = stored \cup m .. History
      /\ UNCHANGED <<entry, read, round, asked, wire, slow, got, missed, resets>>
  BY DEF ImportExport
<1>2. m .. History \subseteq Older /\ \A o \in Older : o \in Nat /\ o <= History
  BY BackfillAssumption DEF Older
<1>3. imports' \in 0 .. MaxImports
  BY <1>1, BackfillAssumption DEF WalkInv, TypeOK
<1>4. TypeOK'
  BY <1>1, <1>2, <1>3 DEF WalkInv, TypeOK
<1>5. Seen' = Seen \cup m .. History /\ UnderWay' = UnderWay
  BY <1>1 DEF Seen, UnderWay
<1>6. NoGaps'
  BY <1>2, <1>5, BackfillAssumption DEF WalkInv, NoGaps, Older
<1>7. StallsAreSlow'
  BY <1>1, <1>5, StallsKept
<1>. QED
  BY <1>1, <1>4, <1>5, <1>6, <1>7
  DEF WalkInv, AnchorsStored, LatestRound, PageComes, PageOlder, PageRead, Answered, Missed

LEMMA InvReset ==
  ASSUME WalkInv, Reset
  PROVE  WalkInv'
<1>1. entry' = [last |-> NoCursor, recent |-> FALSE, stalls |-> 0, done |-> FALSE]
      /\ UNCHANGED <<stored, read, round, asked, wire, slow, got, missed, imports>>
  BY DEF Reset, Fresh, outcome
<1>2. resets' \in 0 .. MaxResets
  BY BackfillAssumption DEF Reset, WalkInv, TypeOK
<1>3. entry' \in [last : Cursor \cup {NoCursor}, recent : BOOLEAN,
                 stalls : 0 .. MaxStalls, done : BOOLEAN]
  BY <1>1, BackfillAssumption
<1>4. TypeOK'
  BY <1>1, <1>2, <1>3 DEF WalkInv, TypeOK
<1>5. StallsAreSlow'
  <2>1. entry'.last = NoCursor /\ entry'.stalls = 0 /\ entry'.done = FALSE
    BY <1>1
  <2>2. End' = round /\ round \in Nat
    BY <1>1, <2>1 DEF End, WalkInv, TypeOK
  <2>. QED
    BY <2>1, <2>2 DEF StallsAreSlow
<1>. QED
  BY <1>1, <1>4, <1>5, BackfillAssumption
  DEF WalkInv, NoGaps, Seen, AnchorsStored, LatestRound, PageComes, PageOlder, PageRead

-------------------------------------------------------------------------------
(* The decision.                                                              *)

\* A decision that finds the oldest message where it was: the round was slow or wasted, or
\* there is nothing older.
LEMMA StallIsSlow ==
  ASSUME WalkInv, read # NoRead, entry.last # NoCursor, ~(read.oldest < entry.last)
  PROVE  AllSeen \/ round \in read.underWay \/ Wasted(round)
<1>. SUFFICES ASSUME ~Wasted(round), round \notin read.underWay
              PROVE  AllSeen
  OBVIOUS
<1>1. /\ \A o \in Page(entry.last) : read.oldest <= o \/ Missed(o)
      /\ round \notin got /\ round \notin UnderWay
  BY DEF WalkInv, PageRead, Wasted
<1>m. \A o : ~Missed(o)
  <2>. SUFFICES ASSUME NEW o, Missed(o) PROVE FALSE
    OBVIOUS
  <2>1. round \in {w.round : w \in missed}
    BY DEF Missed
  <2>. QED
    BY <1>1, <2>1 DEF Wasted, Barren
<1>2. entry.last \in Cursor /\ read.oldest \in Nat
  BY BackfillAssumption DEF WalkInv, TypeOK, NoCursor, Cursor
<1>3. entry.last = 1
  <2>. SUFFICES ASSUME entry.last # 1 PROVE FALSE
    OBVIOUS
  <2>1. entry.last - 1 \in Page(entry.last)
    BY <1>2, BackfillAssumption DEF Page, Cursor, Older
  <2>. QED
    BY <1>1, <1>2, <1>m, <2>1, BackfillAssumption DEF Cursor
<1>4. CASE History = 0
  BY <1>4 DEF AllSeen, Older
<1>5. CASE History # 0
  <2>1. 1 \in stored
    BY <1>3, <1>5, BackfillAssumption DEF WalkInv, AnchorsStored
  <2>2. \A o \in Older : o = 1 \/ 1 < o
    BY BackfillAssumption DEF Older
  <2>3. 1 \in Seen
    BY <2>1 DEF Seen
  <2>4. \A o \in Older : o \in Seen
    BY <2>2, <2>3 DEF WalkInv, NoGaps
  <2>. QED
    BY <2>4 DEF AllSeen, Seen
<1>. QED
  BY <1>4, <1>5

Stalls == IF entry.last = NoCursor \/ read.oldest < entry.last THEN 0 ELSE entry.stalls + 1

\* What a decision makes of the count, in the terms of the invariant.
LEMMA StallsCount ==
  ASSUME WalkInv, read # NoRead, ~entry.done, NEW n \in Nat, n = Stalls
  PROVE  /\ n <= MaxStalls /\ round \in Nat
         /\ \/ AllSeen
            \/ /\ n < round + 1
               /\ \A r \in Nat : r < round + 1 /\ round + 1 <= r + n =>
                    Wasted(r) \/ r \in read.underWay
<1>1. round \in Nat /\ entry.stalls \in Nat /\ entry.stalls < MaxStalls
  BY BackfillAssumption DEF WalkInv, TypeOK, LatestRound
<1>2. CASE n = 0
  BY <1>1, <1>2, BackfillAssumption
<1>3. CASE n # 0
  <2>1. entry.last # NoCursor /\ ~(read.oldest < entry.last) /\ n = entry.stalls + 1
    BY <1>3 DEF Stalls
  <2>2. n <= MaxStalls
    BY <1>1, <2>1, BackfillAssumption
  <2>3. AllSeen \/ Wasted(round) \/ round \in read.underWay
    BY <2>1, StallIsSlow
  <2>4. ASSUME ~AllSeen
        PROVE  /\ entry.stalls < round
               /\ \A r \in Nat : r < round /\ round <= r + entry.stalls => Wasted(r)
    BY <2>1, <2>4 DEF WalkInv, StallsAreSlow, End
  <2>5. ASSUME ~AllSeen, NEW r \in Nat, r < round + 1, round + 1 <= r + n
        PROVE  Wasted(r) \/ r \in read.underWay
    <3>1. CASE r = round
      BY <2>3, <2>5, <3>1
    <3>2. CASE r # round
      BY <1>1, <2>1, <2>4, <2>5, <3>2
    <3>. QED
      BY <3>1, <3>2
  <2>. QED
    BY <1>1, <2>1, <2>2, <2>4, <2>5
<1>. QED
  BY <1>2, <1>3

LEMMA DecisionFields ==
  ASSUME NEW e, NEW oldest, NEW n,
         n = (IF e.last = NoCursor \/ oldest < e.last THEN 0 ELSE e.stalls + 1)
  PROVE  ShouldRequest(e, oldest) =
           IF n >= MaxStalls
             THEN [last |-> e.last, recent |-> e.recent, stalls |-> n, done |-> TRUE]
             ELSE [last |-> oldest, recent |-> TRUE, stalls |-> n, done |-> FALSE]
BY DEF ShouldRequest, Exhausted

LEMMA InvNotDue ==
  ASSUME WalkInv, PendingBackfill, ~Due
  PROVE  WalkInv'
<1>1. read' = NoRead
      /\ UNCHANGED <<stored, entry, round, asked, wire, slow, got, missed, imports, resets>>
  BY DEF PendingBackfill, outcome
<1>2. TypeOK'
  <2>1. NoRead \in [oldest : Cursor \cup {NoCursor}, underWay : SUBSET (1 .. round)]
    BY DEF NoRead
  <2>. QED
    BY <1>1, <2>1 DEF WalkInv, TypeOK
<1>3. StallsAreSlow'
  BY <1>1, StallsKept DEF Seen, UnderWay
<1>. QED
  BY <1>1, <1>2, <1>3
  DEF WalkInv, NoGaps, Seen, AnchorsStored, LatestRound, PageComes, PageOlder, Missed, Answered,
      PageRead

LEMMA InvDue ==
  ASSUME WalkInv, PendingBackfill, Due
  PROVE  WalkInv'
<1> DEFINE n == Stalls
<1>1. read # NoRead /\ ~entry.done /\ read' = NoRead /\ slow' = slow \cup read.underWay
      /\ entry' = ShouldRequest(entry, read.oldest)
      /\ UNCHANGED <<stored, wire, got, missed, imports, resets>>
  BY DEF PendingBackfill, Due, outcome
<1>2. entry \in EntryType /\ read \in [oldest : Cursor \cup {NoCursor}, underWay : SUBSET (1 .. round)]
      /\ round \in Nat
  BY DEF WalkInv, TypeOK, EntryType
<1>3. n \in Nat
  BY <1>2, BackfillAssumption DEF Stalls, EntryType
<1>4. entry' = IF n >= MaxStalls
                 THEN [last |-> entry.last, recent |-> entry.recent, stalls |-> n, done |-> TRUE]
                 ELSE [last |-> read.oldest, recent |-> TRUE, stalls |-> n, done |-> FALSE]
  BY <1>1, DecisionFields DEF Stalls
<1>5. /\ n <= MaxStalls
      /\ \/ AllSeen
         \/ /\ n < round + 1
            /\ \A r \in Nat : r < round + 1 /\ round + 1 <= r + n =>
                 Wasted(r) \/ r \in read.underWay
  BY <1>1, <1>3, StallsCount
<1>6. read.oldest \in stored \cup {History + 1} /\ read.oldest \in Cursor /\ read.oldest # NoCursor
  BY <1>1, <1>2, BackfillAssumption DEF WalkInv, AnchorsStored, TypeOK, Cursor, NoCursor, Older
<1>7. (AllSeen' <=> AllSeen) /\ Seen' = Seen
  BY <1>1 DEF AllSeen, Seen
<1>w. ASSUME NEW r \in Nat, r < round + 1, Wasted(r) \/ r \in read.underWay,
             UnderWay' \subseteq UnderWay \cup {round + 1}
      PROVE  Wasted(r)'
  <2>1. CASE r \in read.underWay
    BY <1>1, <2>1 DEF Wasted
  <2>2. CASE Wasted(r)
    BY <1>1, <1>w, <2>2, WastedStays DEF WalkInv
  <2>. QED
    BY <1>w, <2>1, <2>2
<1>8. NoRead \in [oldest : Cursor \cup {NoCursor}, underWay : SUBSET (1 .. round')]
  BY DEF NoRead
<1>. HIDE DEF n
<1>9. CASE n >= MaxStalls
  <2>1. entry'.last = entry.last /\ entry'.stalls = MaxStalls /\ entry'.done = TRUE
        /\ n = MaxStalls
    BY <1>3, <1>4, <1>5, <1>9, BackfillAssumption
  <2>2. UNCHANGED <<round, asked>>
    BY <2>1 DEF PendingBackfill, Due
  <2>3. entry' \in EntryType
    BY <1>2, <1>3, <1>4, <1>9, <2>1, BackfillAssumption DEF EntryType
  <2>4. TypeOK'
    BY <1>1, <1>2, <1>8, <2>2, <2>3 DEF WalkInv, TypeOK, EntryType
  <2>5. entry.last # NoCursor
    <3>1. MaxStalls # 0
      BY BackfillAssumption
    <3>. QED
      BY <2>1, <3>1 DEF Stalls, n
  <2>6. End' = round + 1
    BY <2>1, <2>2 DEF End
  <2>u. UnderWay' \subseteq UnderWay \cup {round + 1}
    BY <1>1, <2>2 DEF UnderWay
  <2>7. StallsAreSlow'
    BY <1>5, <1>7, <1>w, <2>1, <2>6, <2>u DEF StallsAreSlow
  <2>8. PageComes'
    BY <1>1, <2>1, <2>2 DEF WalkInv, PageComes, Answered, Page, Missed
  <2>. QED
    BY <1>1, <1>7, <2>1, <2>2, <2>4, <2>5, <2>7, <2>8
    DEF WalkInv, NoGaps, AnchorsStored, LatestRound, PageOlder, PageRead
<1>10. CASE ~(n >= MaxStalls)
  <2> DEFINE q == [round |-> round + 1, anchor |-> read.oldest, late |-> FALSE]
  <2>1. entry'.last = read.oldest /\ entry'.stalls = n /\ entry'.done = FALSE
    BY <1>4, <1>10
  <2>2. round' = round + 1 /\ asked' = asked \cup {q}
    BY <2>1 DEF PendingBackfill, Due
  <2>3. entry' \in EntryType
    BY <1>3, <1>4, <1>6, <1>10, BackfillAssumption DEF EntryType
  <2>4. TypeOK'
    <3>1. q \in [round : 1 .. round', anchor : Cursor, late : BOOLEAN]
      BY <1>2, <1>6, <2>2
    <3>2. 1 .. round \subseteq 1 .. round' /\ round' \in Nat
      BY <1>2, <2>2
    <3>. HIDE DEF q
    <3>3. asked' \subseteq [round : 1 .. round', anchor : Cursor, late : BOOLEAN]
      BY <2>2, <3>1, <3>2 DEF WalkInv, TypeOK
    <3>4. /\ wire' \subseteq [round : 1 .. round', msg : Older]
          /\ missed' \subseteq [round : 1 .. round', msg : Older]
          /\ slow' \subseteq 1 .. round' /\ got' \subseteq 1 .. round'
      BY <1>1, <1>2, <3>2 DEF WalkInv, TypeOK
    <3>. QED
      BY <1>1, <1>8, <2>3, <3>2, <3>3, <3>4 DEF WalkInv, TypeOK, EntryType
  <2>5. \A p \in asked : p.round # round'
    BY <1>2, <2>2 DEF WalkInv, TypeOK
  <2>6. q.round = round' /\ q.anchor = entry'.last
    BY <2>1, <2>2
  <2>. HIDE DEF q
  <2>7. ~Answered'
    BY <2>2, <2>6 DEF Answered
  <2>8. End' = round + 1
    BY <2>1, <2>2 DEF End
  <2>u. UnderWay' \subseteq UnderWay \cup {round + 1}
    BY <1>1, <2>2, <2>6 DEF UnderWay
  <2>9. StallsAreSlow'
    BY <1>5, <1>7, <1>w, <2>1, <2>8, <2>u DEF StallsAreSlow
  <2>p. PageOlder'
    <3>1. round' \notin got' /\ \A w \in wire' : w.round # round'
      BY <1>1, <1>2, <2>2 DEF WalkInv, TypeOK
    <3>. QED
      BY <3>1 DEF PageOlder
  <2>10. AnchorsStored'
    BY <1>1, <1>6, <2>1, <2>2, <2>6 DEF WalkInv, AnchorsStored
  <2>11. LatestRound'
    BY <1>2, <1>3, <1>6, <1>10, <2>1, <2>2, <2>5, <2>6, BackfillAssumption DEF LatestRound
  <2>. QED
    BY <1>1, <1>7, <2>4, <2>7, <2>9, <2>10, <2>11, <2>p
    DEF WalkInv, NoGaps, PageComes, PageRead
<1>. QED
  BY <1>9, <1>10

LEMMA WalkInvNext == WalkInv /\ [Next]_vars => WalkInv'
<1>. SUFFICES ASSUME WalkInv, [Next]_vars PROVE WalkInv'
  OBVIOUS
<1>1. CASE UNCHANGED vars
  BY <1>1
  DEF vars, WalkInv, TypeOK, NoGaps, Seen, AnchorsStored, LatestRound, PageComes, PageOlder,
      Answered, PageRead, StallsAreSlow, AllSeen, End, Missed, Wasted, Barren, UnderWay
<1>. QED
  BY <1>1, InvBackfillCursors, InvNotDue, InvDue, InvIntervalPasses, InvRequestLost,
     InvHistoryArrives, InvHandled, InvImportExport, InvReset
  DEF Next

LEMMA WalkInvariance == Spec => []WalkInv
BY WalkInvInit, WalkInvNext, PTL DEF Spec

\* The walk, the decisions and the requests keep their types; the count of stalls never
\* passes maxStalls.
THEOREM BackfillTypeCorrect == Spec => []TypeOK
<1>1. WalkInv => TypeOK
  BY DEF WalkInv
<1>. QED
  BY <1>1, WalkInvariance, PTL

LEMMA FinishedIsSeen == WalkInv => SlowRoundSurvived
<1>. SUFFICES ASSUME WalkInv, entry.done, ~AllSeen
              PROVE  \E r \in slow \cup Barren :
                       r .. (r + MaxStalls - 1) \subseteq slow \cup Barren
  BY DEF SlowRoundSurvived
<1>1. entry.stalls = MaxStalls /\ entry.last # NoCursor
  BY DEF WalkInv, LatestRound
<1>2. End = round + 1 /\ round \in Nat /\ MaxStalls \in Nat \ {0}
  BY BackfillAssumption DEF End, WalkInv, TypeOK
<1>3. /\ MaxStalls < round + 1
      /\ \A r \in Nat : r < round + 1 /\ round + 1 <= r + MaxStalls => r \in slow \cup Barren
  BY <1>1, <1>2 DEF WalkInv, StallsAreSlow, Wasted
<1> DEFINE first == (round + 1) - MaxStalls
<1>4. first \in Nat /\ first + MaxStalls = round + 1
  BY <1>2, <1>3
<1>. HIDE DEF first
<1>5. \A r \in first .. (first + MaxStalls - 1) : r \in slow \cup Barren
  BY <1>2, <1>3, <1>4
<1>6. first \in slow \cup Barren
  BY <1>2, <1>4, <1>5
<1>. QED
  BY <1>5, <1>6

\* The walk ends only with the whole history published, or after maxStalls rounds in a row
\* that were slow or of which nothing was stored, however requests and messages are lost,
\* answers delayed and exports imported.
THEOREM WalkCompletes == Spec => []SlowRoundSurvived
BY FinishedIsSeen, WalkInvariance, PTL

-------------------------------------------------------------------------------
(* Requests do not pile up.                                                   *)

Young == {q \in asked : ~q.late}

\* The record says of a young request that it is recent, unless the user began anew.
PileInv ==
  /\ IsFiniteSet(Young)
  /\ Cardinality(Young) <= resets + IF entry.recent THEN 1 ELSE 0

LEMMA FewerYoung ==
  ASSUME PileInv, WalkInv, Young' \subseteq Young, UNCHANGED resets,
         entry.recent => entry'.recent
  PROVE  PileInv'
<1>1. IsFiniteSet(Young') /\ Cardinality(Young') <= Cardinality(Young)
  BY FS_Subset DEF PileInv
<1>2. Cardinality(Young) \in Nat /\ Cardinality(Young') \in Nat /\ resets \in Nat
  BY <1>1, FS_CardinalityType, BackfillAssumption DEF PileInv, WalkInv, TypeOK
<1>. QED
  BY <1>1, <1>2 DEF PileInv

LEMMA PileInvDue ==
  ASSUME PileInv, WalkInv, PendingBackfill, Due
  PROVE  PileInv'
<1>1. resets' = resets /\ resets \in Nat /\ entry' = ShouldRequest(entry, read.oldest)
      /\ ~entry.recent /\ ~entry.done
  BY BackfillAssumption DEF PendingBackfill, Due, WalkInv, TypeOK
<1>2. CASE entry'.done
  <2>1. UNCHANGED asked
    BY <1>2 DEF PendingBackfill, Due
  <2>. QED
    BY <1>1, <2>1, FewerYoung DEF Young
<1>3. CASE ~entry'.done
  <2> DEFINE q == [round |-> round + 1, anchor |-> read.oldest, late |-> FALSE]
  <2>1. asked' = asked \cup {q}
    BY <1>3 DEF PendingBackfill, Due
  <2>2. entry'.recent
    BY <1>1, <1>3 DEF ShouldRequest
  <2>3. Young' = Young \cup {q}
    BY <2>1 DEF Young
  <2>. HIDE DEF q
  <2>4. IsFiniteSet(Young') /\ Cardinality(Young') <= Cardinality(Young) + 1
        /\ Cardinality(Young) \in Nat /\ Cardinality(Young') \in Nat
    BY <2>3, FS_AddElement, FS_CardinalityType DEF PileInv
  <2>. QED
    BY <1>1, <2>2, <2>4 DEF PileInv
<1>. QED
  BY <1>2, <1>3

LEMMA PileInvNext == PileInv /\ WalkInv /\ [Next]_vars => PileInv'
<1>. SUFFICES ASSUME PileInv, WalkInv, [Next]_vars PROVE PileInv'
  OBVIOUS
<1>1. CASE BackfillCursors \/ UNCHANGED vars \/ (\E w \in wire : StoreMessage(w) \/ MissMessage(w))
                 \/ (\E m \in Older : ImportExport(m))
  BY <1>1, FewerYoung
  DEF BackfillCursors, vars, StoreMessage, MissMessage, ImportExport, Young
<1>2. CASE PendingBackfill /\ ~Due
  BY <1>2, FewerYoung DEF PendingBackfill, Young
<1>3. CASE \E q \in asked : RequestLost(q) \/ HistoryArrives(q)
  BY <1>3, FewerYoung DEF RequestLost, HistoryArrives, Young
<1>4. CASE IntervalPasses
  <2>1. \A q \in asked : q \in [round : 1 .. round, anchor : Cursor, late : BOOLEAN]
    BY DEF WalkInv, TypeOK
  <2>2. \A q \in asked' : q.late
    BY <1>4, <2>1 DEF IntervalPasses
  <2>3. Young' = {}
    BY <2>2 DEF Young
  <2>4. resets' \in Nat
    BY <1>4, BackfillAssumption DEF IntervalPasses, WalkInv, TypeOK
  <2>. QED
    BY <2>3, <2>4, FS_EmptySet DEF PileInv
<1>5. CASE Reset
  <2>1. Young' = Young /\ resets' = resets + 1 /\ resets \in Nat /\ ~entry'.recent
    BY <1>5, BackfillAssumption DEF Reset, Fresh, Young, WalkInv, TypeOK
  <2>2. Cardinality(Young) \in Nat
    BY FS_CardinalityType DEF PileInv
  <2>. QED
    BY <2>1, <2>2 DEF PileInv
<1>. QED
  BY <1>1, <1>2, <1>3, <1>4, <1>5, PileInvDue DEF Next

LEMMA PileInvInit == Init => PileInv
<1>. SUFFICES ASSUME Init PROVE PileInv
  OBVIOUS
<1>1. Young = {} /\ resets = 0 /\ entry.recent = FALSE
  BY DEF Init, Young, Fresh
<1>. QED
  BY <1>1, FS_EmptySet DEF PileInv

\* However often the connector polls, at most one request younger than the interval is
\* under way, and one more for each attempt the user ordered.
THEOREM NoRequestsPileUp == Spec => []NoPileUp
<1>1. Spec => []PileInv
  BY PileInvInit, PileInvNext, WalkInvariance, PTL DEF Spec
<1>2. PileInv /\ WalkInv => NoPileUp
  <2>. SUFFICES ASSUME PileInv, WalkInv PROVE NoPileUp
    OBVIOUS
  <2>1. Cardinality(Young) \in Nat /\ resets \in Nat
    BY FS_CardinalityType, BackfillAssumption DEF PileInv, WalkInv, TypeOK
  <2>2. Cardinality(Young) <= 1 + resets
    BY <2>1 DEF PileInv
  <2>. QED
    BY <2>2 DEF NoPileUp, Young
<1>. QED
  BY <1>1, <1>2, WalkInvariance, PTL
===============================================================================
