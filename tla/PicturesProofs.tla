---------------------------- MODULE PicturesProofs ----------------------------
(***************************************************************************)
(* Proofs, for any number of people, slots and sockets, that the fetcher    *)
(* never has two passes under way (OnePass of Pictures) and that the        *)
(* backend never keeps more pictures than its cap (TypeOK).  That a picture *)
(* is shown in the end is liveness and is left to TLC.                      *)
(***************************************************************************)
EXTENDS Pictures, FiniteSetTheorems, TLAPS

PassType == [at : {"no", "next", "asking", "fetching", "publishing"}, sock : 0..MaxSocks,
             rest : SUBSET Phone, phone : SUBSET Phone, got : 0..2]

Running(i) == pass[i] # NoPass

\* A pass that is nowhere is over, and one that downloads or publishes has a picture.
Proper(q) == (q.at = "no" => q = NoPass) /\ (q.at \in {"fetching", "publishing"} => q.got # 0)

\* What OnePass needs to be inductive: what a pass is, and that the flag is up for the only
\* one.
PassInv ==
  /\ pictures \in [Phone -> 0..2]
  /\ sock \in 0..MaxSocks
  /\ picker \subseteq Phone
  /\ running \in BOOLEAN
  /\ pass \in [Slot -> PassType]
  /\ \A i \in Slot : Proper(pass[i])
  /\ \A i, j \in Slot : Running(i) /\ Running(j) => i = j
  /\ running <=> \E i \in Slot : Running(i)

-------------------------------------------------------------------------------
(* A step of one pass either keeps it going or ends it.                       *)

\* Advancing a pass leaves every pass what it was: running or not.
LEMMA PassGoesOn ==
  ASSUME PassInv, NEW i \in Slot, Running(i),
         NEW q \in PassType, q.at # "no", Proper(q),
         pass' = [pass EXCEPT ![i] = q],
         UNCHANGED running
  PROVE  /\ pass' \in [Slot -> PassType]
         /\ \A k \in Slot : Proper(pass'[k])
         /\ \A k, j \in Slot : (Running(k) /\ Running(j) => k = j)'
         /\ (running <=> \E k \in Slot : Running(k))'
<1> USE DEF PassInv
<1>1. pass' \in [Slot -> PassType]
  OBVIOUS
<1>2. q # NoPass
  BY DEF NoPass
<1>3. \A k \in Slot : pass'[k] # NoPass <=> pass[k] # NoPass
  BY <1>2 DEF Running
<1>4. \A k \in Slot : Proper(pass'[k])
  OBVIOUS
<1>. QED
  BY <1>1, <1>3, <1>4 DEF Running

\* The finally of run() puts the flag down, and no pass is left.
LEMMA PassIsOver ==
  ASSUME PassInv, NEW i \in Slot, Running(i), Ends(i)
  PROVE  /\ pass' \in [Slot -> PassType]
         /\ running' \in BOOLEAN
         /\ \A k \in Slot : Proper(pass'[k])
         /\ \A k, j \in Slot : (Running(k) /\ Running(j) => k = j)'
         /\ (running <=> \E k \in Slot : Running(k))'
<1> USE DEF PassInv
<1>1. NoPass \in PassType /\ Proper(NoPass)
  BY PicturesAssumption DEF NoPass, PassType, Proper
<1>2. pass' = [pass EXCEPT ![i] = NoPass] /\ running' = FALSE
  BY DEF Ends
<1>3. \A k \in Slot : pass'[k] = NoPass
  BY <1>2 DEF Running
<1>. QED
  BY <1>1, <1>2, <1>3 DEF Running

LEMMA PassMoves ==
  ASSUME PassInv, NEW i \in Slot, OnNext(i), Running(i), UNCHANGED running
  PROVE  /\ pass' \in [Slot -> PassType]
         /\ \A k \in Slot : Proper(pass'[k])
         /\ \A k, j \in Slot : (Running(k) /\ Running(j) => k = j)'
         /\ (running <=> \E k \in Slot : Running(k))'
<1> DEFINE q == Between(pass[i].sock, pass[i].rest)
<1>1. q \in PassType /\ q.at # "no" /\ Proper(q)
  <2>1. pass[i] \in PassType
    BY DEF PassInv
  <2>2. pass[i].sock \in 0..MaxSocks /\ pass[i].rest \in SUBSET Phone
    BY <2>1 DEF PassType
  <2>. QED
    BY <2>2 DEF PassType, Between, Proper
<1>2. pass' = [pass EXCEPT ![i] = q]
  BY DEF OnNext, PassInv
<1>. HIDE DEF q
<1>. QED
  BY <1>1, <1>2, PassGoesOn

-------------------------------------------------------------------------------
(* The invariant.                                                             *)

LEMMA PassInvInit == Init => PassInv
<1>. SUFFICES ASSUME Init PROVE PassInv
  OBVIOUS
<1>1. NoPass \in PassType /\ Proper(NoPass)
  BY PicturesAssumption DEF NoPass, PassType, Proper
<1>2. \A i \in Slot : ~Running(i)
  BY DEF Init, Running
<1>3. pictures \in [Phone -> 0..2] /\ sock \in 0..MaxSocks /\ picker \subseteq Phone /\ running = FALSE
  BY PicturesAssumption DEF Init
<1>4. pass \in [Slot -> PassType] /\ \A i \in Slot : Proper(pass[i])
  BY <1>1 DEF Init
<1>. QED
  BY <1>2, <1>3, <1>4 DEF PassInv

LEMMA PassInvPoll ==
  ASSUME PassInv, Poll
  PROVE  PassInv'
<1> USE DEF PassInv
<1>1. UNCHANGED <<pictures, sock, picker>>
  BY DEF Poll
<1>2. CASE ~MayStart
  <2>1. UNCHANGED <<running, pass>>
    BY <1>2 DEF Poll
  <2>. QED
    BY <1>1, <2>1 DEF Running
<1>3. CASE MayStart
  <2> DEFINE q == Between(sock, picker)
  <2>1. q \in PassType /\ q # NoPass /\ q.at # "no" /\ Proper(q)
    BY DEF PassType, Between, NoPass, Proper
  <2>2. PICK i \in Slot : pass[i] = NoPass /\ pass' = [pass EXCEPT ![i] = q]
    BY <1>3 DEF Poll
  <2>3. running' = TRUE /\ ~running
    BY <1>3 DEF Poll, MayStart
  <2>4. \A k \in Slot : ~Running(k)
    BY <2>3
  <2>. HIDE DEF q
  <2>5. \A k \in Slot : pass'[k] # NoPass <=> k = i
    BY <2>1, <2>2, <2>4 DEF Running
  <2>6. pass' \in [Slot -> PassType] /\ \A k \in Slot : Proper(pass'[k])
    BY <2>1, <2>2
  <2>. QED
    BY <1>1, <2>3, <2>5, <2>6 DEF Running
<1>. QED
  BY <1>2, <1>3

LEMMA PassInvPassTakes ==
  ASSUME PassInv, NEW i \in Slot, PassTakes(i)
  PROVE  PassInv'
<1>1. pass[i] \in PassType
  BY DEF PassInv
<1>2. pass[i].sock \in 0..MaxSocks /\ pass[i].rest \in SUBSET Phone /\ pass[i].at = "next"
  BY <1>1 DEF PassType, PassTakes
<1>3. Running(i)
  BY <1>2 DEF Running, NoPass
<1>4. UNCHANGED <<pictures, sock, picker>>
  BY DEF PassTakes
<1>5. PICK p \in pass[i].rest :
        \/ pass' = [pass EXCEPT ![i] = Between(pass[i].sock, pass[i].rest \ {p})] /\ UNCHANGED running
        \/ Ends(i)
        \/ pass' = [pass EXCEPT ![i] = Asking(pass[i].sock, pass[i].rest \ {p}, p)] /\ UNCHANGED running
  BY DEF PassTakes, PassInv
<1>6. CASE pass' = [pass EXCEPT ![i] = Between(pass[i].sock, pass[i].rest \ {p})] /\ UNCHANGED running
  <2> DEFINE q == Between(pass[i].sock, pass[i].rest \ {p})
  <2>1. q \in PassType /\ q.at # "no" /\ Proper(q)
    BY <1>2 DEF PassType, Between, Proper
  <2>2. pass' = [pass EXCEPT ![i] = q]
    BY <1>6
  <2>. HIDE DEF q
  <2>. QED
    BY <1>3, <1>4, <1>6, <2>1, <2>2, PassGoesOn DEF PassInv
<1>7. CASE Ends(i)
  BY <1>3, <1>4, <1>7, PassIsOver DEF PassInv
<1>8. CASE pass' = [pass EXCEPT ![i] = Asking(pass[i].sock, pass[i].rest \ {p}, p)] /\ UNCHANGED running
  <2> DEFINE q == Asking(pass[i].sock, pass[i].rest \ {p}, p)
  <2>1. q \in PassType /\ q.at # "no" /\ Proper(q)
    BY <1>2 DEF PassType, Asking, Proper
  <2>2. pass' = [pass EXCEPT ![i] = q]
    BY <1>8
  <2>. HIDE DEF q
  <2>. QED
    BY <1>3, <1>4, <1>8, <2>1, <2>2, PassGoesOn DEF PassInv
<1>. QED
  BY <1>5, <1>6, <1>7, <1>8

LEMMA PassInvOnNext ==
  ASSUME PassInv, NEW i \in Slot, pass[i].at # "no", OnNext(i),
         UNCHANGED <<pictures, sock, picker, running>>
  PROVE  PassInv'
<1>1. Running(i)
  BY DEF Running, NoPass
<1>. QED
  BY <1>1, PassMoves DEF PassInv

\* A pass that goes on with a picture has one.
LEMMA PassInvPictured ==
  ASSUME PassInv, NEW i \in Slot, pass[i].at # "no", NEW p \in Phone, NEW v \in 1..2,
         \/ pass' = [pass EXCEPT ![i] = Fetching(pass[i].sock, pass[i].rest, p, v)]
         \/ pass' = [pass EXCEPT ![i] = Publishing(pass[i].sock, pass[i].rest, p, v)],
         UNCHANGED <<pictures, sock, picker, running>>
  PROVE  PassInv'
<1>1. Running(i)
  BY DEF Running, NoPass
<1>2. pass[i].sock \in 0..MaxSocks /\ pass[i].rest \in SUBSET Phone
  <2>1. pass[i] \in PassType
    BY DEF PassInv
  <2>. QED
    BY <2>1 DEF PassType
<1>3. ASSUME NEW q \in {Fetching(pass[i].sock, pass[i].rest, p, v),
                        Publishing(pass[i].sock, pass[i].rest, p, v)},
             pass' = [pass EXCEPT ![i] = q]
      PROVE  PassInv'
  <2>1. q \in PassType /\ q.at # "no" /\ Proper(q)
    BY <1>2 DEF PassType, Fetching, Publishing, Proper
  <2>. QED
    BY <1>1, <1>3, <2>1, PassGoesOn DEF PassInv
<1>. QED
  BY <1>3

LEMMA PassInvPassStep ==
  ASSUME PassInv, NEW i \in Slot, PassStep(i)
  PROVE  PassInv'
<1>1. CASE PassTakes(i)
  BY <1>1, PassInvPassTakes
<1>2. CASE PassEnds(i)
  <2>1. Running(i)
    BY <1>2 DEF PassEnds, Running, NoPass
  <2>. QED
    BY <1>2, <2>1, PassIsOver DEF PassEnds, PassInv
<1>3. CASE Answered(i)
  <2>1. UNCHANGED <<pictures, sock, picker, running>> /\ pass[i].at = "asking"
    BY <1>3 DEF Answered, Records
  <2>2. PICK p \in pass[i].phone :
          \/ OnNext(i)
          \/ /\ pictures[p] # 0
             /\ pass' = [pass EXCEPT ![i] = Fetching(pass[i].sock, pass[i].rest, p, pictures[p])]
    BY <1>3 DEF Answered, PassInv
  <2>3. CASE OnNext(i)
    BY <2>1, <2>3, PassInvOnNext
  <2>4. CASE /\ pictures[p] # 0
             /\ pass' = [pass EXCEPT ![i] = Fetching(pass[i].sock, pass[i].rest, p, pictures[p])]
    <3>1. p \in Phone
      BY DEF PassInv, PassType
    <3>2. pictures[p] \in 1..2
      BY <2>4, <3>1 DEF PassInv
    <3>. QED
      BY <2>1, <2>4, <3>1, <3>2, PassInvPictured
  <2>. QED
    BY <2>2, <2>3, <2>4
<1>3a. CASE Downloaded(i)
  <2>1. UNCHANGED <<pictures, sock, picker, running>> /\ pass[i].at = "fetching"
    BY <1>3a DEF Downloaded, Records
  <2>2. CASE OnNext(i)
    BY <2>1, <2>2, PassInvOnNext
  <2>3. CASE \E p \in pass[i].phone :
               pass' = [pass EXCEPT ![i] = Publishing(pass[i].sock, pass[i].rest, p, pass[i].got)]
    <3>1. pass[i].phone \subseteq Phone /\ pass[i].got \in 1..2
      <4>1. pass[i] \in PassType /\ pass[i].got # 0
        BY <2>1 DEF PassInv, Proper
      <4>. QED
        BY <4>1 DEF PassType
    <3>. QED
      BY <2>1, <2>3, <3>1, PassInvPictured
  <2>. QED
    BY <1>3a, <2>2, <2>3 DEF Downloaded, PassInv
<1>4. CASE Fails(i)
  BY <1>4, PassInvOnNext DEF Fails, NoAnswer, Records
<1>5. CASE PublishArrives(i)
  BY <1>5, PassInvOnNext DEF PublishArrives
<1>6. CASE PublishLost(i)
  BY <1>6, PassInvOnNext DEF PublishLost
<1>. QED
  BY <1>1, <1>2, <1>3, <1>3a, <1>4, <1>5, <1>6 DEF PassStep

\* Everything that is not a step of the fetcher leaves the passes alone.
LEMMA PassInvAround ==
  ASSUME PassInv,
         \/ \E p \in Phone : PictureChanges(p) \/ PickerChanges(p) \/ RetryDue(p) \/ RefreshDue(p)
         \/ SocketOpens \/ SocketCloses \/ LoggedOut \/ BackendRestarts
  PROVE  PassInv'
<1>1. UNCHANGED <<running, pass>>
  BY DEF PictureChanges, PickerChanges, RetryDue, RefreshDue, Wait, SocketOpens, SocketCloses,
         LoggedOut, BackendRestarts, Forgets
<1>2. pictures' \in [Phone -> 0..2]
  BY DEF PictureChanges, PickerChanges, RetryDue, RefreshDue, Wait, SocketOpens, SocketCloses,
         LoggedOut, BackendRestarts, Forgets, PassInv
<1>3. sock' \in 0..MaxSocks
  BY PicturesAssumption DEF PictureChanges, PickerChanges, RetryDue, RefreshDue, Wait, SocketOpens, SocketCloses,
         LoggedOut, BackendRestarts, Forgets, PassInv
<1>4. picker' \subseteq Phone
  BY DEF PictureChanges, PickerChanges, RetryDue, RefreshDue, Wait, SocketOpens, SocketCloses,
         LoggedOut, BackendRestarts, Forgets, PassInv
<1>. QED
  BY <1>1, <1>2, <1>3, <1>4 DEF PassInv, Running

LEMMA PassInvNext == PassInv /\ [Next]_vars => PassInv'
<1>. SUFFICES ASSUME PassInv, [Next]_vars PROVE PassInv'
  OBVIOUS
<1>1. CASE Poll
  BY <1>1, PassInvPoll
<1>2. ASSUME NEW i \in Slot, PassStep(i) PROVE PassInv'
  BY <1>2, PassInvPassStep
<1>3. CASE UNCHANGED vars
  BY <1>3 DEF vars, PassInv, Running
<1>. QED
  BY <1>1, <1>2, <1>3, PassInvAround DEF Next

LEMMA PassInvOnePass == PassInv => OnePass
<1>. SUFFICES ASSUME PassInv PROVE OnePass
  OBVIOUS
<1> DEFINE S == {i \in Slot : pass[i] # NoPass}
<1>1. Cardinality(S) <= 1
  <2>1. CASE S = {}
    BY <2>1, FS_EmptySet
  <2>2. CASE S # {}
    <3>1. PICK i : S = {i}
      BY <2>2 DEF PassInv, Running
    <3>. HIDE DEF S
    <3>. QED
      BY <3>1, FS_Singleton
  <2>. QED
    BY <2>1, <2>2
<1>2. running = (\E i \in Slot : pass[i] # NoPass)
  BY DEF PassInv, Running
<1>. QED
  BY <1>1, <1>2 DEF OnePass

\* Whatever polls, sockets and failures do, the requests to WhatsApp go out in one pass at
\* a time, and the flag that keeps others from starting is down exactly when none is left.
THEOREM OnePassAtATime == Spec => []OnePass
<1>1. Spec => []PassInv
  BY PassInvInit, PassInvNext, PTL DEF Spec
<1>. QED
  BY <1>1, PassInvOnePass, PTL
-------------------------------------------------------------------------------
(* The backend's store and the types of the rest.                             *)

KeptType == [phone : Phone, picture : 1..2]

StoreInv == kept \in Seq(KeptType) /\ Len(kept) <= MaxKept

Rest ==
  /\ changes \in 0..MaxChanges
  /\ open \in BOOLEAN
  /\ attempted \in [Phone -> {"due", "settled", "failed"}]
  /\ stale \subseteq Phone
  /\ faults \in 0..MaxFaults

\* Taking one picture out leaves the others, in their order.
LEMMA WithoutType ==
  ASSUME kept \in Seq(KeptType), NEW j \in 1..Len(kept)
  PROVE  Without(j) \in Seq(KeptType) /\ Len(Without(j)) = Len(kept) - 1
<1>1. Len(kept) \in Nat /\ Len(kept) - 1 \in Nat
  OBVIOUS
<1>2. \A i \in 1..(Len(kept) - 1) :
        (IF i < j THEN kept[i] ELSE kept[i + 1]) \in KeptType
  <2>. SUFFICES ASSUME NEW i \in 1..(Len(kept) - 1)
                PROVE  (IF i < j THEN kept[i] ELSE kept[i + 1]) \in KeptType
    OBVIOUS
  <2>1. i \in 1..Len(kept) /\ i + 1 \in 1..Len(kept)
    BY <1>1
  <2>2. \A n \in 1..Len(kept) : kept[n] \in KeptType
    OBVIOUS
  <2>. HIDE DEF KeptType
  <2>. QED
    BY <2>1, <2>2
<1>3. Without(j) \in [1..(Len(kept) - 1) -> KeptType]
  BY <1>2 DEF Without
<1>. QED
  BY <1>1, <1>3

\* A newcomer at the cap takes the place of the oldest, and whoever has a picture already
\* that of the old one.
LEMMA StoredFits ==
  ASSUME StoreInv, NEW p \in Phone, NEW v \in 1..2
  PROVE  Stored(p, v) \in Seq(KeptType) /\ Len(Stored(p, v)) <= MaxKept
<1> DEFINE new == [phone |-> p, picture |-> v]
<1>1. new \in KeptType
  BY DEF KeptType
<1>2. kept \in Seq(KeptType) /\ Len(kept) \in Nat /\ Len(kept) <= MaxKept /\ MaxKept \in Nat \ {0}
  BY PicturesAssumption DEF StoreInv
<1>3. ASSUME NEW s \in Seq(KeptType), Len(s) < MaxKept
      PROVE  Append(s, new) \in Seq(KeptType) /\ Len(Append(s, new)) <= MaxKept
  <2>. HIDE DEF new
  <2>1. Len(Append(s, new)) = Len(s) + 1 /\ Len(s) \in Nat
    BY <1>1
  <2>. QED
    BY <1>1, <1>2, <1>3, <2>1
<1>4. CASE p \notin Pictured(kept) /\ Len(kept) >= MaxKept
  <2>1. kept # <<>>
    BY <1>2, <1>4
  <2>2. Tail(kept) \in Seq(KeptType) /\ Len(Tail(kept)) = Len(kept) - 1
    BY <1>2, <2>1
  <2>3. Len(Tail(kept)) < MaxKept
    BY <1>2, <2>2
  <2>. QED
    BY <1>3, <1>4, <2>2, <2>3 DEF Stored
<1>5. CASE p \notin Pictured(kept) /\ Len(kept) < MaxKept
  <2>1. Stored(p, v) = Append(kept, new)
    BY <1>2, <1>5 DEF Stored, Others
  <2>. QED
    BY <1>2, <1>3, <1>5, <2>1
<1>6. CASE p \in Pictured(kept)
  <2> DEFINE j == CHOOSE i \in 1..Len(kept) : kept[i].phone = p
  <2>1. j \in 1..Len(kept)
    BY <1>6 DEF Pictured
  <2>2. Stored(p, v) = Append(Without(j), new)
    BY <1>6 DEF Stored, Others
  <2>. HIDE DEF j
  <2>3. Without(j) \in Seq(KeptType) /\ Len(Without(j)) = Len(kept) - 1
    BY <1>2, <2>1, WithoutType
  <2>4. Len(Without(j)) < MaxKept
    BY <1>2, <2>3
  <2>. QED
    BY <1>3, <2>2, <2>3, <2>4
<1>. QED
  BY <1>2, <1>4, <1>5, <1>6

LEMMA StoreNext ==
  ASSUME PassInv, StoreInv, [Next]_vars
  PROVE  StoreInv'
<1>1. ASSUME NEW i \in Slot, PublishArrives(i) PROVE StoreInv'
  <2>1. PICK p \in pass[i].phone : kept' \in {kept, Stored(p, pass[i].got)}
    BY <1>1 DEF PublishArrives
  <2>2. pass[i] \in PassType /\ pass[i].at = "publishing" /\ pass[i].got # 0
    BY <1>1 DEF PassInv, PublishArrives, Proper
  <2>3. p \in Phone /\ pass[i].got \in 1..2
    BY <2>2 DEF PassType
  <2>. QED
    BY <2>1, <2>3, StoredFits DEF StoreInv
<1>2. CASE LoggedOut \/ BackendRestarts
  <2>1. kept' = <<>>
    BY <1>2 DEF LoggedOut, BackendRestarts, Forgets
  <2>. QED
    BY <2>1, PicturesAssumption DEF StoreInv
<1>3. CASE UNCHANGED kept
  BY <1>3 DEF StoreInv
<1>4. ASSUME NEW i \in Slot, PassStep(i), ~PublishArrives(i) PROVE UNCHANGED kept
  BY <1>4 DEF PassStep, PassTakes, PassEnds, Answered, Downloaded, Fails, PublishLost, Records
<1>5. ASSUME NEW p \in Phone, PictureChanges(p) \/ PickerChanges(p) \/ RetryDue(p) \/ RefreshDue(p)
      PROVE  UNCHANGED kept
  BY <1>5 DEF PictureChanges, PickerChanges, RetryDue, RefreshDue, Wait
<1>6. CASE SocketOpens \/ SocketCloses \/ Poll \/ UNCHANGED vars
  BY <1>3, <1>6 DEF SocketOpens, SocketCloses, Poll, vars
<1>. QED
  BY <1>1, <1>2, <1>3, <1>4, <1>5, <1>6 DEF Next

LEMMA RestNext ==
  ASSUME PassInv, Rest, [Next]_vars
  PROVE  Rest'
<1>. USE PicturesAssumption DEF Rest
<1>1. ASSUME NEW p \in Phone, PictureChanges(p) \/ PickerChanges(p) PROVE Rest'
  BY <1>1 DEF PictureChanges, PickerChanges, Settled
<1>2. ASSUME NEW p \in Phone, RetryDue(p) \/ RefreshDue(p) PROVE Rest'
  BY <1>2 DEF RetryDue, RefreshDue, Wait
<1>3. CASE SocketOpens \/ SocketCloses \/ UNCHANGED vars
  BY <1>3 DEF SocketOpens, SocketCloses, vars
<1>4. CASE LoggedOut \/ BackendRestarts
  BY <1>4 DEF LoggedOut, BackendRestarts, Forgets, Fault, Settled
<1>5. CASE Poll
  BY <1>5 DEF Poll, Retained
<1>6. ASSUME NEW i \in Slot, PassStep(i) PROVE Rest'
  <2>1. CASE PassTakes(i) \/ PassEnds(i)
    BY <2>1 DEF PassTakes, PassEnds
  <2>2. ASSUME NEW outcome \in {"settled", "failed"}, Records(i, outcome)
        PROVE  attempted' \in [Phone -> {"due", "settled", "failed"}] /\ stale' \subseteq Phone
    BY <2>2 DEF Records
  <2>3. CASE Answered(i)
    BY <2>2, <2>3 DEF Answered, Records
  <2>3a. CASE Downloaded(i)
    <3>1. pass[i].phone \subseteq Phone
      BY DEF PassInv, PassType
    <3>. QED
      BY <2>2, <2>3a, <3>1 DEF Downloaded, Records
  <2>4. CASE Fails(i)
    BY <2>2, <2>4 DEF Fails, NoAnswer, Records
  <2>5. CASE PublishArrives(i)
    <3>1. pass[i].phone \subseteq Phone
      BY DEF PassInv, PassType
    <3>. QED
      BY <2>5, <3>1 DEF PublishArrives, Settled
  <2>6. CASE PublishLost(i)
    BY <2>6 DEF PublishLost, Fault, Settled
  <2>. QED
    BY <1>6, <2>1, <2>3, <2>3a, <2>4, <2>5, <2>6 DEF PassStep
<1>. QED
  BY <1>1, <1>2, <1>3, <1>4, <1>5, <1>6 DEF Next

LEMMA PicturesInit == Init => StoreInv /\ Rest
<1>. SUFFICES ASSUME Init PROVE StoreInv /\ Rest
  OBVIOUS
<1>1. <<>> \in Seq(KeptType) /\ Len(<<>>) <= MaxKept
  BY PicturesAssumption
<1>2. kept = <<>>
  BY DEF Init
<1>3. attempted \in [Phone -> {"due", "settled", "failed"}]
  BY DEF Init
<1>4. Rest
  <2>1. changes = 0 /\ faults = 0 /\ stale = {}
    BY DEF Init
  <2>2. open \in BOOLEAN
    BY Zenon DEF Init
  <2>. QED
    BY <1>3, <2>1, <2>2, PicturesAssumption DEF Rest
<1>. QED
  BY <1>1, <1>2, <1>4 DEF StoreInv

LEMMA PicturesTypes == PassInv /\ StoreInv /\ Rest => TypeOK
BY DEF PassInv, StoreInv, Rest, TypeOK, PassType, KeptType

\* Every variable keeps its type, and the backend never keeps more pictures than its cap,
\* whoever they are of and however often they are sent.
THEOREM PicturesTypeCorrect == Spec => []TypeOK
<1>1. PassInv /\ StoreInv /\ Rest /\ [Next]_vars => (PassInv /\ StoreInv /\ Rest)'
  BY PassInvNext, StoreNext, RestNext
<1>. QED
  BY <1>1, PassInvInit, PicturesInit, PicturesTypes, PTL DEF Spec
===============================================================================
