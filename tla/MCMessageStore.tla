---------------------------- MODULE MCMessageStore ----------------------------
(* Small instances of MessageStore for TLC.                                *)
EXTENDS MessageStore, TLC

CONSTANTS t1, t2, m1, m2

\* A text, a picture without caption, a view-once picture, and one with a caption in
\* a chat of disappearing messages.
TextAt(s, side, t) ==
  [at |-> s, side |-> side, type |-> "text", text |-> t,
   viewOnce |-> FALSE, ephemeral |-> FALSE]
Picture(s, side) == [TextAt(s, side, NoText) EXCEPT !.type = "media"]
ViewOnce(s) == [Picture(s, "OTHER") EXCEPT !.viewOnce = TRUE]
HiddenViewOnce(s) == [ViewOnce(s) EXCEPT !.ephemeral = TRUE, !.text = t1]

Ids == {m1, m2}
IdSymmetry == Permutations(Ids)

MCText == {t1, t2}
OneText == {TextAt(60, "SELF", t1)}
Mixed == {TextAt(60, "SELF", t1), Picture(60, "SELF"), ViewOnce(60), HiddenViewOnce(60)}
===============================================================================
