------------------------------ MODULE MCSessions ------------------------------
(* Small instances of Sessions for TLC: a day of four ticks and the next one.             *)
EXTENDS SessionRecompute, TLC

CONSTANTS a, b, c, n

MCStamp == 0 .. 5
MCDay == [t \in MCStamp |-> t \div 4]

\* Renaming people's messages changes neither an action nor a property.
People == {a, b, c}
MCMessage == People \cup {n}
PeopleSymmetry == Permutations(People)
===============================================================================
