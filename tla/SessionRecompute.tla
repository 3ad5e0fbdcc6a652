--------------------------- MODULE SessionRecompute ---------------------------
(***************************************************************************)
(* RecomputeSessions (storage/live.go), which rebuilds sessions from the   *)
(* stored timestamps alone, beside the incremental sessions of Sessions.   *)
(* Nothing but its test calls it, so it is an operator here and no action. *)
(***************************************************************************)
EXTENDS Sessions

StrictGapVariant(s, t) == Day[t] = Day[s.end] /\ t - s.end < Gap

AcrossMidnightVariant(s, t) == t - s.end <= Gap

\* Whether the next timestamp goes on with the session before it.
Adjoins(s, t) == Day[t] = Day[s.end] /\ t - s.end <= Gap

\* ORDER BY timestamp: what is left is read from the earliest on.  The session that is
\* being built is inserted when one that does not adjoin it is read.
ReadStamp(r) ==
  LET m == Earliest(r.left)
      joins == r.current # NoSession /\ Adjoins(r.current, at[m])
  IN [left    |-> r.left \ {m},
      closed  |-> IF joins THEN r.closed ELSE r.closed \cup ({r.current} \ {NoSession}),
      current |-> IF joins THEN Grow(r.current, m) ELSE NewSession(m)]

Recompute(S) ==
  LET read[i \in 0..Cardinality(S)] ==
        IF i = 0 THEN [left |-> S, closed |-> {}, current |-> NoSession]
        ELSE ReadStamp(read[i - 1])
      all == read[Cardinality(S)]
  IN all.closed \cup ({all.current} \ {NoSession})

DeletedTooVariant == Recompute(rows)

\* WHERE NOT is_deleted
RecomputeSessions == Recompute(rows \ deleted)

\* The one pass finds the sessions that the messages still there have by definition:
\* the reference with which Sessions compares the incremental and the imported sessions
\* is what the program itself would recompute.
RecomputesRuns == RecomputeSessions = Runs(rows \ deleted)

\* Recomputing what in-order messages have built changes nothing, as
\* TestRecomputeSessionsMatchesIncremental has it, unless messages were deleted; then it
\* shortens, splits or drops sessions but never joins or widens one.
RecomputeOnlySplits ==
  inOrder /\ ~imported =>
    /\ deleted = {} => RecomputeSessions = sessions
    /\ \A u \in RecomputeSessions : \E s \in sessions :
         u.members \subseteq s.members /\ s.start <= u.start /\ u.end <= s.end
===============================================================================
