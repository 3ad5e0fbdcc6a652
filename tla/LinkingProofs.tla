---------------------------- MODULE LinkingProofs ----------------------------
(***************************************************************************)
(* Proofs, for any number of sockets, requests, links and refusals, that    *)
(* the connector is never left without a socket to come (NeverStranded) and *)
(* that only the user's requests add sockets (OnePerRequest).  What comes   *)
(* of refusals and logouts in the end is liveness and is left to TLC.       *)
(***************************************************************************)
EXTENDS Linking, FiniteSetTheorems, TLAPS

ConnType == [state : {"closed", "restarting", "starting", "connecting", "qr", "scanned", "open"},
             creds : Creds]

-------------------------------------------------------------------------------
(* Types.                                                                     *)

LoopType == [at : {"waiting", "asked", "answered", "tearing", "reporting", "pairing", "starting"},
             logout : BOOLEAN, pair : BOOLEAN]

LEMMA Constants ==
  /\ 0 \in Creds /\ Closed \in ConnType /\ Waiting \in LoopType
  /\ \A n \in 0 .. MaxLoginFailures : Failed(n) \in 0 .. MaxLoginFailures
BY LinkingAssumption DEF Creds, Closed, Waiting, Failed, ConnType, LoopType

LEMMA TypeInit == Init => TypeOK
<1>. SUFFICES ASSUME Init PROVE TypeOK
  OBVIOUS
<1>1. conn \in [Socket -> ConnType] /\ loop \in LoopType
  BY Constants DEF Init
<1>2. linked = {} /\ pausing = {} /\ scans \in Creds /\ auth \in Creds
  BY Constants DEF Init
<1>3. requests \in 0 .. MaxRequests /\ tries \in 0 .. Attempts /\ timers \in Nat
      /\ failures \in 0 .. MaxLoginFailures
  BY LinkingAssumption DEF Init
<1>4. logoutFlag \in BOOLEAN /\ pairFlag \in BOOLEAN /\ seen \in BOOLEAN /\ loading \in BOOLEAN
      /\ sock \in Socket \cup {NoSocket}
  BY Zenon DEF Init
<1>. QED
  BY <1>1, <1>2, <1>3, <1>4, Zenon DEF TypeOK, ConnType, LoopType

LEMMA BegunType ==
  ASSUME TypeOK, NEW s \in Socket, NEW state \in {"restarting", "starting"}, Begun(s, state)
  PROVE  conn' \in [Socket -> ConnType]
<1>1. [state |-> state, creds |-> auth] \in ConnType
  BY DEF TypeOK, ConnType
<1>. QED
  BY <1>1 DEF Begun, TypeOK, ConnType

LEMMA MadeType ==
  ASSUME TypeOK, NEW s \in Socket, Made(s)
  PROVE  conn' \in [Socket -> ConnType] /\ sock' \in Socket \cup {NoSocket}
BY DEF Made, TypeOK, ConnType

LEMMA ClearedType ==
  ASSUME TypeOK, Cleared
  PROVE  auth' \in Creds
BY Constants DEF Cleared, TypeOK

LEMMA ClosesType ==
  ASSUME TypeOK, NEW s \in Socket, NEW loggedOut \in BOOLEAN, Closes(s, loggedOut)
  PROVE  /\ conn' \in [Socket -> ConnType]
         /\ pausing' \subseteq [of : Socket, clears : BOOLEAN]
         /\ failures' \in 0 .. MaxLoginFailures
BY Constants DEF Closes, TypeOK, ConnType

LEMMA TypeUser ==
  ASSUME TypeOK, UserStep
  PROVE  TypeOK'
<1>1. CASE RequestLogout \/ RequestPairing
  <2>1. requests' \in 0 .. MaxRequests
    BY <1>1, LinkingAssumption DEF RequestLogout, RequestPairing, TypeOK
  <2>2. logoutFlag' \in BOOLEAN /\ pairFlag' \in BOOLEAN
    BY <1>1, Zenon DEF RequestLogout, RequestPairing
  <2>. QED
    BY <1>1, <2>1, <2>2 DEF RequestLogout, RequestPairing, TypeOK, sockets
<1>2. CASE UnlinkOnPhone
  BY <1>2 DEF UnlinkOnPhone, TypeOK, user, sockets
<1>. QED
  BY <1>1, <1>2 DEF UserStep

LEMMA TypeSocket ==
  ASSUME TypeOK, SocketStep
  PROVE  TypeOK'
<1>1. ASSUME NEW s \in Socket, SocketCloses(s) PROVE TypeOK'
  <2>1. /\ conn' \in [Socket -> ConnType] /\ pausing' \subseteq [of : Socket, clears : BOOLEAN]
        /\ failures' \in 0 .. MaxLoginFailures
    BY <1>1, ClosesType DEF SocketCloses
  <2>. QED
    BY <1>1, <2>1 DEF SocketCloses, TypeOK, user, ConnType
<1>2. ASSUME NEW s \in Socket, QrShown(s) \/ SocketOpens(s) PROVE TypeOK'
  <2>1. conn' \in [Socket -> ConnType] /\ failures' = 0
    BY <1>2 DEF QrShown, SocketOpens, TypeOK, ConnType
  <2>. QED
    BY <1>2, <2>1, LinkingAssumption DEF QrShown, SocketOpens, TypeOK, user, ConnType
<1>3. ASSUME NEW s \in Socket, CodeScanned(s) PROVE TypeOK'
  <2>1. scans + 1 \in Creds \ {0}
    BY <1>3, LinkingAssumption DEF CodeScanned, TypeOK, Creds
  <2>2. [state |-> "scanned", creds |-> scans + 1] \in ConnType
    BY <2>1 DEF ConnType
  <2>3. conn' \in [Socket -> ConnType]
    BY <1>3, <2>2 DEF CodeScanned, TypeOK, ConnType
  <2>. QED
    BY <1>3, <2>1, <2>3 DEF CodeScanned, TypeOK, user, ConnType
<1>4. ASSUME NEW h \in pausing, CloseHandled(h) PROVE TypeOK'
  BY <1>4, ClearedType DEF CloseHandled, TypeOK, user
<1>5. CASE RestartFires
  BY <1>5, BegunType DEF RestartFires, TypeOK, user, ConnType
<1>6. ASSUME NEW s \in Socket, SocketMade(s) PROVE TypeOK'
  BY <1>6, MadeType DEF SocketMade, TypeOK, user, ConnType
<1>. QED
  BY <1>1, <1>2, <1>3, <1>4, <1>5, <1>6 DEF SocketStep

LEMMA TypeLoop ==
  ASSUME TypeOK, LoopStep
  PROVE  TypeOK'
<1>1. CASE FetchCommands \/ FetchFails \/ NoCommand
  <2>1. loop' \in LoopType /\ tries' \in 0 .. Attempts
    BY <1>1, Constants, LinkingAssumption
    DEF FetchCommands, FetchFails, NoCommand, TypeOK, LoopType
  <2>. QED
    BY <1>1, <2>1 DEF FetchCommands, FetchFails, NoCommand, TypeOK, user, sockets, LoopType
<1>2. CASE TakeCommand
  BY <1>2 DEF TakeCommand, TypeOK, sockets
<1>3. CASE LoadDone \/ PairReads \/ PairStarts
  <2>1. loop' \in LoopType
    BY <1>3, Constants DEF LoadDone, PairReads, PairStarts, Waiting, LoopType
  <2>2. CASE LoadDone
    <3>1. timers' \in Nat /\ loading' = FALSE
      BY <2>2 DEF LoadDone, TypeOK
    <3>2. UNCHANGED <<linked, scans, user, auth, tries, sock, conn, pausing, failures>>
      BY <2>2 DEF LoadDone
    <3>. QED
      BY <2>1, <3>1, <3>2 DEF TypeOK, user, LoopType
  <2>3. CASE PairReads
    <3>1. conn' \in [Socket -> ConnType]
      BY <2>3, BegunType DEF PairReads
    <3>. QED
      BY <2>1, <2>3, <3>1 DEF PairReads, TypeOK, user, LoopType, ConnType
  <2>4. CASE PairStarts
    <3>1. conn' \in [Socket -> ConnType] /\ sock' \in Socket \cup {NoSocket}
      BY <2>4, MadeType DEF PairStarts
    <3>. QED
      BY <2>1, <2>4, <3>1 DEF PairStarts, TypeOK, user, LoopType, ConnType
  <2>. QED
    BY <1>3, <2>2, <2>3, <2>4
<1>4. CASE LogoutBegins
  <2>1. loop' \in LoopType /\ failures' = 0
    BY <1>4 DEF LogoutBegins, TypeOK, LoopType
  <2>2. CASE sock \in UpSockets /\ conn' = [conn EXCEPT ![sock] = Closed]
             /\ pausing' = pausing \cup {[of |-> sock, clears |-> TRUE]}
             /\ linked' = linked \ {conn[sock].creds}
    <3>1. conn' \in [Socket -> ConnType]
      BY <2>2, Constants DEF TypeOK, ConnType
    <3>2. linked' \subseteq Creds \ {0}
      BY <2>2 DEF TypeOK
    <3>3. pausing' \subseteq [of : Socket, clears : BOOLEAN]
      <4>1. [of |-> sock, clears |-> TRUE] \in [of : Socket, clears : BOOLEAN]
        BY <2>2 DEF UpSockets, LiveSockets
      <4>. QED
        BY <2>2, <4>1 DEF TypeOK
    <3>. QED
      BY <1>4, <2>1, <3>1, <3>2, <3>3, LinkingAssumption DEF LogoutBegins, TypeOK, user, LoopType, ConnType
  <2>3. CASE UNCHANGED <<conn, pausing, linked>>
    BY <1>4, <2>1, <2>3, LinkingAssumption DEF LogoutBegins, TypeOK, user, LoopType, ConnType
  <2>. QED
    BY <1>4, <2>2, <2>3 DEF LogoutBegins
<1>5. CASE LogoutClears \/ LogoutReported
  <2>1. loop' \in LoopType
    BY <1>5 DEF LogoutClears, LogoutReported, TypeOK, LoopType
  <2>2. timers' \in Nat
    BY <1>5 DEF LogoutClears, LogoutReported, Restart, TypeOK, sockets
  <2>3. auth' \in Creds
    BY <1>5, ClearedType DEF LogoutClears, LogoutReported, TypeOK
  <2>. QED
    BY <1>5, <2>1, <2>2, <2>3 DEF LogoutClears, LogoutReported, TypeOK, user, sockets, LoopType
<1>6. CASE PairBegins
  <2>1. loop' \in LoopType
    BY <1>6 DEF PairBegins, TypeOK, LoopType
  <2>2. /\ conn' \in [Socket -> ConnType] /\ pausing' \subseteq [of : Socket, clears : BOOLEAN]
        /\ failures' \in 0 .. MaxLoginFailures
    BY <1>6, ClosesType DEF PairBegins, UpSockets, LiveSockets, TypeOK, ConnType
  <2>. QED
    BY <1>6, <2>1, <2>2 DEF PairBegins, TypeOK, user, LoopType, ConnType
<1>. QED
  BY <1>1, <1>2, <1>3, <1>4, <1>5, <1>6 DEF LoopStep

LEMMA TypeNext == TypeOK /\ [Next]_vars => TypeOK'
<1>. SUFFICES ASSUME TypeOK, [Next]_vars PROVE TypeOK'
  OBVIOUS
<1>1. CASE ConnectorRestarts
  <2>1. conn' \in [Socket -> ConnType] /\ loop' \in LoopType
    BY <1>1, Constants DEF ConnectorRestarts
  <2>. QED
    BY <1>1, <2>1, LinkingAssumption DEF ConnectorRestarts, TypeOK, user, ConnType, LoopType
<1>2. CASE UNCHANGED vars
  BY <1>2 DEF vars, user, sockets, TypeOK
<1>. QED
  BY <1>1, <1>2, TypeUser, TypeSocket, TypeLoop DEF Next

\* The connector, the flags kept for it and WhatsApp keep their types; the count of
\* refusals never passes its limit.
THEOREM LinkingTypeCorrect == Spec => []TypeOK
BY TypeInit, TypeNext, PTL DEF Spec

-------------------------------------------------------------------------------
(* What is under way.                                                         *)

\* Handlers are finitely many, and each is of a socket.
LEMMA HandlersFinite ==
  TypeOK =>
    /\ IsFiniteSet(pausing) /\ Cardinality(pausing) \in Nat
    /\ IsFiniteSet(LiveSockets) /\ Cardinality(LiveSockets) \in Nat
<1>. SUFFICES ASSUME TypeOK
              PROVE  /\ IsFiniteSet(pausing) /\ Cardinality(pausing) \in Nat
                     /\ IsFiniteSet(LiveSockets) /\ Cardinality(LiveSockets) \in Nat
  OBVIOUS
<1>1. IsFiniteSet(Socket \X BOOLEAN)
  <2>1. IsFiniteSet(BOOLEAN)
    <3>1. BOOLEAN = {TRUE} \cup {FALSE}
      BY Zenon
    <3>2. IsFiniteSet({TRUE}) /\ IsFiniteSet({FALSE})
      BY FS_Singleton
    <3>3. IsFiniteSet({TRUE} \cup {FALSE})
      BY <3>2, FS_Union
    <3>. QED
      BY <3>1, <3>3, Zenon
  <2>. QED
    BY <2>1, LinkingAssumption, FS_Product
<1> DEFINE f == [h \in pausing |-> <<h.of, h.clears>>]
<1>2. f \in Injection(pausing, Socket \X BOOLEAN)
  <2>1. \A h \in pausing : h \in [of : Socket, clears : BOOLEAN]
    BY DEF TypeOK
  <2>2. f \in [pausing -> Socket \X BOOLEAN]
    BY <2>1
  <2>3. \A g, h \in pausing : f[g] = f[h] => g = h
    BY <2>1
  <2>. HIDE DEF f
  <2>. QED
    BY <2>2, <2>3 DEF Injection, IsInjective
<1>3. IsFiniteSet(pausing)
  BY <1>1, <1>2, FS_Injection
<1>4. LiveSockets \in SUBSET Socket
  BY DEF LiveSockets
<1>. QED
  BY <1>3, <1>4, LinkingAssumption, FS_Subset, FS_CardinalityType

\* The same of the next state.
LEMMA HandlersFiniteNext ==
  TypeOK' => (/\ IsFiniteSet(pausing) /\ Cardinality(pausing) \in Nat
              /\ IsFiniteSet(LiveSockets) /\ Cardinality(LiveSockets) \in Nat)'
BY HandlersFinite, PTL

LEMMA UnderwayCounts ==
  TypeOK =>
    /\ Underway \in Nat
    /\ Underway > 0 <=> LiveSockets # {} \/ pausing # {} \/ timers > 0
<1>. SUFFICES ASSUME TypeOK
              PROVE  /\ Underway \in Nat
                     /\ Underway > 0 <=> LiveSockets # {} \/ pausing # {} \/ timers > 0
  OBVIOUS
<1>1. /\ IsFiniteSet(pausing) /\ Cardinality(pausing) \in Nat
      /\ IsFiniteSet(LiveSockets) /\ Cardinality(LiveSockets) \in Nat
  BY HandlersFinite
<1>2. /\ Cardinality(pausing) = 0 <=> pausing = {}
      /\ Cardinality(LiveSockets) = 0 <=> LiveSockets = {}
  BY <1>1, FS_EmptySet
<1>3. timers \in Nat
  BY DEF TypeOK
<1>. QED
  BY <1>1, <1>2, <1>3 DEF Underway

LEMMA UnderwayCountsNext ==
  TypeOK' =>
    (/\ Underway \in Nat
     /\ Underway > 0 <=> LiveSockets # {} \/ pausing # {} \/ timers > 0)'
BY UnderwayCounts, PTL

\* A start under way counts as a socket.
LEMMA BegunCounts ==
  ASSUME TypeOK, TypeOK', NEW s \in Socket, NEW state \in {"restarting", "starting"},
         Begun(s, state), UNCHANGED pausing
  PROVE  /\ Cardinality(LiveSockets') = Cardinality(LiveSockets) + 1
         /\ LiveSockets' # {}
<1>1. LiveSockets' = LiveSockets \cup {s} /\ s \notin LiveSockets
  BY DEF Begun, LiveSockets, Live, TypeOK
<1>. QED
  BY <1>1, HandlersFinite, FS_AddElement

\* Making the socket of a start changes no count.
LEMMA MadeCounts ==
  ASSUME TypeOK, NEW s \in Socket, conn[s].state \in {"restarting", "starting"}, Made(s),
         UNCHANGED <<pausing, timers>>
  PROVE  Underway' = Underway /\ LiveSockets' # {}
<1>1. LiveSockets' = LiveSockets /\ s \in LiveSockets
  BY DEF Made, LiveSockets, Live, TypeOK
<1>. QED
  BY <1>1 DEF Underway

\* A socket that closes is one less, and at most one handler more.
LEMMA ClosesCounts ==
  ASSUME TypeOK, TypeOK', NEW s \in LiveSockets, conn' = [conn EXCEPT ![s] = Closed],
         NEW h, pausing' \subseteq pausing \cup {h}, UNCHANGED timers
  PROVE  Underway' <= Underway
<1>1. LiveSockets' = LiveSockets \ {s}
  BY DEF LiveSockets, Live, TypeOK, Closed
<1>2. Cardinality(LiveSockets') = Cardinality(LiveSockets) - 1
  BY <1>1, HandlersFinite, FS_RemoveElement
<1>3. IsFiniteSet(pausing \cup {h}) /\ Cardinality(pausing \cup {h}) <= Cardinality(pausing) + 1
      /\ Cardinality(pausing \cup {h}) \in Nat
  <2>1. IsFiniteSet(pausing) /\ Cardinality(pausing) \in Nat
    BY HandlersFinite
  <2>2. IsFiniteSet(pausing \cup {h}) /\ Cardinality(pausing \cup {h}) \in Nat
    BY <2>1, FS_AddElement, FS_CardinalityType
  <2>3. Cardinality(pausing \cup {h})
          = IF h \in pausing THEN Cardinality(pausing) ELSE Cardinality(pausing) + 1
    BY <2>1, FS_AddElement
  <2>. QED
    BY <2>1, <2>2, <2>3
<1>4. Cardinality(pausing') <= Cardinality(pausing \cup {h})
  BY <1>3, FS_Subset
<1>5. /\ Cardinality(pausing) \in Nat /\ Cardinality(LiveSockets) \in Nat
      /\ Cardinality(pausing') \in Nat /\ Cardinality(LiveSockets') \in Nat /\ timers \in Nat
  <2>1. TypeOK' => Cardinality(pausing') \in Nat /\ Cardinality(LiveSockets') \in Nat
    BY HandlersFiniteNext
  <2>. QED
    BY <2>1, HandlersFinite DEF TypeOK
<1>. QED
  BY <1>2, <1>3, <1>4, <1>5 DEF Underway

One(b) == IF b THEN 1 ELSE 0

\* Commands of the user that have not had their effect.
Commands == One(logoutFlag) + One(pairFlag) + One(loop.logout) + One(loop.pair)

\* Each of them can add one to what is under way, which is nothing before the first socket.
CountInv ==
  /\ Commands <= requests
  /\ Underway + Commands + One(loading) <= 1 + requests
  /\ loop.at \in {"tearing", "reporting"} => loop.logout
  /\ loop.at = "pairing" => loop.pair

LinkInv == TypeOK /\ NeverStranded /\ CountInv

LEMMA LinkInvInit == Init => LinkInv
<1>. SUFFICES ASSUME Init PROVE LinkInv
  OBVIOUS
<1>1. TypeOK
  BY TypeInit
<1>2. LiveSockets = {} /\ pausing = {} /\ timers = 0
  BY DEF Init, LiveSockets, Live, Closed
<1>3. Underway = 0
  BY <1>2, FS_EmptySet DEF Underway
<1>4. Commands = 0 /\ requests = 0 /\ One(loading) = 1 /\ loop.at = "waiting"
  BY DEF Init, Commands, One, Waiting
<1>5. CountInv
  BY <1>3, <1>4 DEF CountInv
<1>6. NeverStranded
  BY DEF Init, NeverStranded
<1>. QED
  BY <1>1, <1>5, <1>6 DEF LinkInv

\* The terms of the sums are numbers.
LEMMA Sums ==
  TypeOK =>
    /\ Commands \in Nat /\ requests \in Nat /\ Underway \in Nat
    /\ One(loading) \in Nat /\ One(logoutFlag) \in Nat /\ One(pairFlag) \in Nat
    /\ One(loop.logout) \in Nat /\ One(loop.pair) \in Nat
BY LinkingAssumption, UnderwayCounts DEF Commands, One, TypeOK

LEMMA SumsNext ==
  TypeOK' =>
   (/\ Commands \in Nat /\ requests \in Nat /\ Underway \in Nat
    /\ One(loading) \in Nat /\ One(logoutFlag) \in Nat /\ One(pairFlag) \in Nat
    /\ One(loop.logout) \in Nat /\ One(loop.pair) \in Nat)'
BY Sums, PTL

\* A step that adds no more than the command it carries out, or the first socket, stands for.
LEMMA Accounted ==
  ASSUME LinkInv, TypeOK', NeverStranded',
         Underway' + Commands' + One(loading)' <= Underway + Commands + One(loading),
         Commands' <= Commands, UNCHANGED requests,
         loop'.at \in {"tearing", "reporting"} => loop'.logout,
         loop'.at = "pairing" => loop'.pair
  PROVE  LinkInv'
<1>1. /\ Commands' \in Nat /\ Commands \in Nat /\ requests \in Nat /\ Underway' \in Nat
      /\ Underway \in Nat /\ One(loading) \in Nat /\ One(loading)' \in Nat
  BY Sums, SumsNext DEF LinkInv
<1>2. Commands' <= requests' /\ Underway' + Commands' + One(loading)' <= 1 + requests'
  BY <1>1 DEF LinkInv, CountInv
<1>. QED
  BY <1>2 DEF LinkInv, CountInv

\* Most steps change neither what is under way nor what is to come of a command.
LEMMA Undisturbed ==
  ASSUME LinkInv, TypeOK', Underway' <= Underway, Commands' <= Commands,
         UNCHANGED <<requests, loading>>,
         (Underway' = Underway /\ failures' = failures) \/ NeverStranded',
         loop.at \in {"tearing", "reporting", "pairing"} =>
           loop'.at \in {"tearing", "reporting", "pairing"},
         loop'.at \in {"tearing", "reporting"} => loop'.logout,
         loop'.at = "pairing" => loop'.pair
  PROVE  LinkInv'
<1>1. NeverStranded'
  BY DEF LinkInv, NeverStranded
<1>2. /\ Commands' \in Nat /\ Commands \in Nat /\ Underway' \in Nat /\ Underway \in Nat
      /\ One(loading) \in Nat /\ One(loading)' = One(loading)
  BY Sums, SumsNext DEF LinkInv, One
<1>. QED
  BY <1>1, <1>2, Accounted

LEMMA SameUnderway ==
  ASSUME UNCHANGED <<conn, pausing, timers>>
  PROVE  Underway' = Underway
BY DEF Underway, LiveSockets, Live

LEMMA InvUser ==
  ASSUME LinkInv, TypeOK', UserStep
  PROVE  LinkInv'
<1>1. UNCHANGED <<conn, pausing, timers, failures, loading, loop>>
  BY DEF UserStep, RequestLogout, RequestPairing, UnlinkOnPhone, sockets
<1>2. Underway' = Underway
  BY <1>1, SameUnderway
<1>3. CASE RequestLogout \/ RequestPairing
  <2>1. requests' = requests + 1
    BY <1>3 DEF RequestLogout, RequestPairing
  <2>2. Commands' <= Commands + 1
    <3>1. One(logoutFlag)' + One(pairFlag)' <= One(logoutFlag) + One(pairFlag) + 1
      BY <1>3 DEF RequestLogout, RequestPairing, One
    <3>2. One(loop.logout)' = One(loop.logout) /\ One(loop.pair)' = One(loop.pair)
      BY <1>1 DEF One
    <3>. QED
      BY <3>1, <3>2, Sums, SumsNext DEF LinkInv, Commands
  <2>3. One(loading)' = One(loading)
    BY <1>1 DEF One
  <2>4. Commands' <= requests' /\ Underway' + Commands' + One(loading)' <= 1 + requests'
    BY <1>2, <2>1, <2>2, <2>3, Sums, SumsNext DEF LinkInv, CountInv
  <2>. QED
    BY <1>1, <1>2, <2>4 DEF LinkInv, CountInv, NeverStranded
<1>4. CASE UnlinkOnPhone
  <2>1. Commands' = Commands /\ UNCHANGED requests
    BY <1>4 DEF UnlinkOnPhone, Commands, One, user
  <2>2. Underway' <= Underway /\ Commands' <= Commands
    BY <1>2, <2>1, Sums DEF LinkInv
  <2>. QED
    BY <1>1, <1>2, <2>1, <2>2, Undisturbed DEF LinkInv, CountInv
<1>. QED
  BY <1>3, <1>4 DEF UserStep

LEMMA InvSocket ==
  ASSUME LinkInv, TypeOK', SocketStep
  PROVE  LinkInv'
<1>1. UNCHANGED <<requests, loading, loop, logoutFlag, pairFlag>>
  BY DEF SocketStep, SocketMade, SocketCloses, QrShown, CodeScanned, SocketOpens, CloseHandled,
         RestartFires, user
<1>2. Commands' = Commands /\ Commands' <= Commands
  BY <1>1, Sums DEF Commands, One, LinkInv
<1>3. Underway' <= Underway /\ (Underway' > 0 \/ (failures' = MaxLoginFailures))
  <2>1. ASSUME NEW s \in Socket, SocketCloses(s)
        PROVE  Underway' <= Underway /\ (Underway' > 0 \/ failures' = MaxLoginFailures)
    <3> DEFINE out == conn[s].creds \notin linked \cup {0}
               h == [of |-> s, clears |-> out]
    <3>1. s \in LiveSockets /\ conn' = [conn EXCEPT ![s] = Closed] /\ UNCHANGED timers
          /\ pausing' = (IF ~out /\ failures' = MaxLoginFailures THEN pausing ELSE pausing \cup {h})
      BY <2>1 DEF SocketCloses, Closes, UpSockets
    <3>. HIDE DEF out, h
    <3>2. Underway' <= Underway
      BY <3>1, ClosesCounts DEF LinkInv
    <3>3. failures' = MaxLoginFailures \/ pausing' # {}
      BY <3>1
    <3>. QED
      BY <3>2, <3>3, UnderwayCountsNext
  <2>2. ASSUME NEW s \in Socket, QrShown(s) \/ CodeScanned(s) \/ SocketOpens(s)
        PROVE  Underway' = Underway /\ Underway' > 0
    <3>1. UNCHANGED <<pausing, timers>> /\ conn[s].state # "closed" /\ conn'[s].state # "closed"
          /\ \A t \in Socket : t # s => conn'[t] = conn[t]
      BY <2>2 DEF QrShown, CodeScanned, SocketOpens, LinkInv, TypeOK
    <3>1a. LiveSockets' = LiveSockets /\ s \in LiveSockets
      BY <3>1 DEF LiveSockets, Live
    <3>2. Underway' = Underway
      BY <3>1, <3>1a DEF Underway
    <3>. QED
      BY <3>1a, <3>2, UnderwayCounts DEF LinkInv
  <2>3. ASSUME NEW h \in pausing, CloseHandled(h)
        PROVE  Underway' = Underway /\ Underway' > 0
    <3>1. pausing' = pausing \ {h} /\ timers' = timers + 1 /\ LiveSockets' = LiveSockets
      BY <2>3 DEF CloseHandled, LiveSockets, Live
    <3>2. Cardinality(pausing') = Cardinality(pausing) - 1
      BY <3>1, HandlersFinite, FS_RemoveElement DEF LinkInv
    <3>3. timers \in Nat /\ timers' > 0
      BY <3>1 DEF LinkInv, TypeOK
    <3>4. Underway' = Underway
      BY <3>1, <3>2, <3>3, HandlersFinite DEF Underway, LinkInv
    <3>. QED
      BY <3>3, <3>4, UnderwayCountsNext
  <2>4. ASSUME RestartFires
        PROVE  Underway' = Underway /\ Underway' > 0
    <3>1. PICK s \in Socket : Begun(s, "restarting")
      BY <2>4 DEF RestartFires
    <3>2. timers' = timers - 1 /\ timers > 0 /\ timers \in Nat /\ UNCHANGED pausing
      BY <2>4 DEF RestartFires, LinkInv, TypeOK
    <3>3. Cardinality(LiveSockets') = Cardinality(LiveSockets) + 1 /\ LiveSockets' # {}
      BY <3>1, <3>2, BegunCounts DEF LinkInv
    <3>4. Underway' = Underway
      BY <3>2, <3>3, HandlersFinite DEF Underway, LinkInv
    <3>. QED
      BY <3>3, <3>4, UnderwayCountsNext
  <2>5. ASSUME NEW s \in Socket, SocketMade(s)
        PROVE  Underway' = Underway /\ Underway' > 0
    <3>1. Underway' = Underway /\ LiveSockets' # {}
      BY <2>5, MadeCounts DEF SocketMade, LinkInv
    <3>. QED
      BY <3>1, UnderwayCountsNext
  <2>6. Underway \in Nat
    BY UnderwayCounts DEF LinkInv
  <2>. QED
    BY <2>1, <2>2, <2>3, <2>4, <2>5, <2>6 DEF SocketStep
<1>. QED
  BY <1>1, <1>2, <1>3, Undisturbed DEF LinkInv, CountInv, NeverStranded

LEMMA InvLoopTurns ==
  ASSUME LinkInv, TypeOK', FetchCommands \/ TakeCommand \/ FetchFails \/ NoCommand \/ LogoutClears
  PROVE  LinkInv'
<1>1. UNCHANGED <<conn, pausing, timers, failures, loading, requests>>
  BY DEF FetchCommands, TakeCommand, FetchFails, NoCommand, LogoutClears, user, sockets
<1>2. Underway' = Underway /\ Underway \in Nat
  BY <1>1, SameUnderway, UnderwayCounts DEF LinkInv
<1>3. Commands' <= Commands
  <2>1. CASE TakeCommand
    BY <2>1, Sums DEF TakeCommand, Commands, One, LinkInv
  <2>2. CASE FetchCommands \/ LogoutClears
    <3>1. One(loop'.logout) = One(loop.logout) /\ One(loop'.pair) = One(loop.pair)
          /\ UNCHANGED <<logoutFlag, pairFlag>>
      BY <2>2 DEF FetchCommands, LogoutClears, One, LinkInv, TypeOK, user
    <3>. QED
      BY <3>1, Sums DEF Commands, One, LinkInv
  <2>3. CASE FetchFails \/ NoCommand
    BY <2>3, Sums DEF FetchFails, NoCommand, Waiting, user, Commands, One, LinkInv
  <2>. QED
    BY <2>1, <2>2, <2>3
<1>4. /\ loop.at \in {"tearing", "reporting", "pairing"} => loop'.at \in {"tearing", "reporting", "pairing"}
      /\ loop'.at \in {"tearing", "reporting"} => loop'.logout
      /\ loop'.at # "pairing"
  BY DEF FetchCommands, TakeCommand, FetchFails, NoCommand, LogoutClears, Waiting, LinkInv,
         CountInv, TypeOK
<1>. QED
  BY <1>1, <1>2, <1>3, <1>4, Undisturbed

\* The first socket is the one the connector has of its own.
LEMMA InvLoadDone ==
  ASSUME LinkInv, TypeOK', LoadDone
  PROVE  LinkInv'
<1>1. UNCHANGED <<conn, pausing, requests, logoutFlag, pairFlag>> /\ loop' = Waiting
      /\ timers' = timers + 1 /\ timers \in Nat /\ loading = TRUE /\ loading' = FALSE
  BY DEF LoadDone, user, LinkInv, TypeOK
<1>2. Underway' = Underway + 1 /\ Underway' > 0
  BY <1>1, HandlersFinite DEF Underway, LiveSockets, Live, LinkInv
<1>3. Commands' <= Commands
  BY <1>1, Sums DEF Commands, One, Waiting, LinkInv
<1>4. One(loading) = 1 /\ One(loading)' = 0
  BY <1>1 DEF One
<1>5. NeverStranded'
  BY <1>2 DEF NeverStranded
<1>6. Underway' + Commands' + One(loading)' <= Underway + Commands + One(loading)
  BY <1>2, <1>3, <1>4, Sums, SumsNext DEF LinkInv
<1>. QED
  BY <1>1, <1>3, <1>5, <1>6, Accounted DEF Waiting

LEMMA InvLogoutBegins ==
  ASSUME LinkInv, TypeOK', LogoutBegins
  PROVE  LinkInv'
<1>1. loop' = [loop EXCEPT !.at = "tearing"] /\ loop.logout
      /\ UNCHANGED <<requests, loading, timers, logoutFlag, pairFlag>>
  BY DEF LogoutBegins, user
<1>2. loop'.at = "tearing" /\ loop'.logout = loop.logout /\ loop'.pair = loop.pair
  BY <1>1 DEF LinkInv, TypeOK
<1>3. Commands' <= Commands
  BY <1>1, <1>2, Sums DEF Commands, One, LinkInv
<1>4. Underway' <= Underway
  <2>1. CASE /\ sock \in UpSockets /\ conn' = [conn EXCEPT ![sock] = Closed]
             /\ pausing' = pausing \cup {[of |-> sock, clears |-> TRUE]}
    <3> DEFINE h == [of |-> sock, clears |-> TRUE]
    <3>1. pausing' \subseteq pausing \cup {h}
      BY <2>1
    <3>. HIDE DEF h
    <3>. QED
      BY <1>1, <2>1, <3>1, ClosesCounts DEF LinkInv, UpSockets
  <2>2. CASE UNCHANGED <<conn, pausing>>
    BY <1>1, <2>2, SameUnderway, UnderwayCounts DEF LinkInv
  <2>. QED
    BY <2>1, <2>2 DEF LogoutBegins
<1>. QED
  BY <1>1, <1>2, <1>3, <1>4, Undisturbed DEF NeverStranded

\* The restart of a logout is what its command stands for.
LEMMA InvLogoutReported ==
  ASSUME LinkInv, TypeOK', LogoutReported
  PROVE  LinkInv'
<1>1. loop' = [loop EXCEPT !.at = "answered", !.logout = FALSE] /\ timers' = timers + 1
      /\ UNCHANGED <<requests, loading, conn, pausing, logoutFlag, pairFlag>> /\ loop.logout
  BY DEF LogoutReported, Restart, user, LinkInv, CountInv
<1>2. loop'.at = "answered" /\ loop'.logout = FALSE /\ loop'.pair = loop.pair
  BY <1>1 DEF LinkInv, TypeOK
<1>3. Underway' = Underway + 1 /\ Underway' > 0
  BY <1>1, HandlersFinite DEF Underway, LiveSockets, Live, LinkInv, TypeOK
<1>4. Commands' + 1 = Commands
  BY <1>1, <1>2, Sums DEF Commands, One, LinkInv
<1>5. One(loading)' = One(loading)
  BY <1>1 DEF One
<1>6. /\ Underway' + Commands' + One(loading)' <= Underway + Commands + One(loading)
      /\ Commands' <= Commands
  BY <1>3, <1>4, <1>5, Sums, SumsNext DEF LinkInv
<1>7. NeverStranded'
  BY <1>3 DEF NeverStranded
<1>. QED
  BY <1>1, <1>2, <1>6, <1>7, Accounted

LEMMA InvPairBegins ==
  ASSUME LinkInv, TypeOK', PairBegins
  PROVE  LinkInv'
<1>1. loop' = [loop EXCEPT !.at = "pairing"] /\ loop.pair
      /\ UNCHANGED <<requests, loading, timers, logoutFlag, pairFlag>>
  BY DEF PairBegins, user
<1>2. loop'.at = "pairing" /\ loop'.logout = loop.logout /\ loop'.pair = loop.pair
  BY <1>1 DEF LinkInv, TypeOK
<1>3. Commands' <= Commands
  BY <1>1, <1>2, Sums DEF Commands, One, LinkInv
<1>4. Underway' <= Underway
  <2>1. CASE sock \in UpSockets
    <3> DEFINE h == [of |-> sock, clears |-> FALSE]
    <3>1. pausing' \subseteq pausing \cup {h} /\ conn' = [conn EXCEPT ![sock] = Closed]
      BY <2>1 DEF PairBegins, Closes
    <3>. HIDE DEF h
    <3>. QED
      BY <1>1, <2>1, <3>1, ClosesCounts DEF LinkInv, UpSockets
  <2>2. CASE sock \notin UpSockets
    BY <1>1, <2>2, SameUnderway, UnderwayCounts DEF PairBegins, LinkInv
  <2>. QED
    BY <2>1, <2>2
<1>. QED
  BY <1>1, <1>2, <1>3, <1>4, Undisturbed DEF NeverStranded

\* So is the socket a pairing starts beside the restart of the one it ended.
LEMMA InvPairReads ==
  ASSUME LinkInv, TypeOK', PairReads
  PROVE  LinkInv'
<1>1. PICK s \in Socket : Begun(s, "starting")
  BY DEF PairReads
<1>2. UNCHANGED <<pausing, timers, requests, loading, logoutFlag, pairFlag>> /\ loop.pair
      /\ loop' = [Waiting EXCEPT !.at = "starting"]
  BY DEF PairReads, user, LinkInv, CountInv
<1>3. Cardinality(LiveSockets') = Cardinality(LiveSockets) + 1 /\ LiveSockets' # {}
  BY <1>1, <1>2, BegunCounts DEF LinkInv
<1>4. Underway' = Underway + 1 /\ Underway' > 0
  <2>1. Underway' > 0
    BY <1>3, UnderwayCountsNext
  <2>2. Underway' = Underway + 1
    BY <1>2, <1>3, HandlersFinite DEF Underway, LinkInv, TypeOK
  <2>. QED
    BY <2>1, <2>2
<1>5. Commands' + 1 <= Commands
  BY <1>2, Sums DEF Commands, One, Waiting, LinkInv
<1>6. One(loading)' = One(loading)
  BY <1>2 DEF One
<1>7. /\ Underway' + Commands' + One(loading)' <= Underway + Commands + One(loading)
      /\ Commands' <= Commands
  BY <1>4, <1>5, <1>6, Sums, SumsNext DEF LinkInv
<1>8. NeverStranded'
  BY <1>4 DEF NeverStranded
<1>. QED
  BY <1>2, <1>7, <1>8, Accounted DEF Waiting

LEMMA InvPairStarts ==
  ASSUME LinkInv, TypeOK', PairStarts
  PROVE  LinkInv'
<1>1. PICK s \in Socket : conn[s].state = "starting" /\ Made(s)
  BY DEF PairStarts
<1>2. UNCHANGED <<pausing, timers, failures, requests, loading, logoutFlag, pairFlag>>
      /\ loop' = Waiting
  BY DEF PairStarts, user
<1>3. Underway' = Underway /\ Underway' > 0
  BY <1>1, <1>2, MadeCounts, UnderwayCountsNext DEF LinkInv
<1>4. Commands' <= Commands
  BY <1>2, Sums DEF Commands, One, Waiting, LinkInv
<1>5. One(loading)' = One(loading) /\ NeverStranded'
  BY <1>2, <1>3 DEF One, NeverStranded
<1>6. Underway' + Commands' + One(loading)' <= Underway + Commands + One(loading)
  BY <1>3, <1>4, <1>5, Sums, SumsNext DEF LinkInv
<1>. QED
  BY <1>2, <1>4, <1>5, <1>6, Accounted DEF Waiting

LEMMA InvConnectorRestarts ==
  ASSUME LinkInv, TypeOK', ConnectorRestarts
  PROVE  LinkInv'
<1>1. loop' = Waiting /\ loading' = TRUE /\ UNCHANGED <<requests, logoutFlag, pairFlag>>
      /\ pausing' = {} /\ timers' = 0
  BY DEF ConnectorRestarts, user
<1>2. LiveSockets' = {}
  BY DEF ConnectorRestarts, LiveSockets, Live, Closed
<1>3. Underway' = 0
  BY <1>1, <1>2, FS_EmptySet DEF Underway
<1>4. Commands' <= Commands
  BY <1>1, Sums DEF Commands, One, Waiting, LinkInv
<1>5. One(loading)' = 1
  BY <1>1 DEF One
<1>6. Commands' <= requests' /\ Underway' + Commands' + One(loading)' <= 1 + requests'
  BY <1>1, <1>3, <1>4, <1>5, Sums, SumsNext DEF LinkInv, CountInv
<1>7. NeverStranded'
  BY <1>1 DEF NeverStranded
<1>. QED
  BY <1>1, <1>6, <1>7 DEF LinkInv, CountInv, Waiting

LEMMA LinkInvNext == LinkInv /\ [Next]_vars => LinkInv'
<1>. SUFFICES ASSUME LinkInv, [Next]_vars PROVE LinkInv'
  OBVIOUS
<1>1. TypeOK'
  BY TypeNext DEF LinkInv
<1>2. CASE UNCHANGED vars
  <2>1. UNCHANGED <<conn, pausing, timers, failures, loading, loop, requests, logoutFlag, pairFlag>>
    BY <1>2 DEF vars, user, sockets
  <2>2. Underway' = Underway /\ Commands' = Commands
    BY <2>1, SameUnderway DEF Commands, One
  <2>3. Underway' <= Underway /\ Commands' <= Commands
    BY <2>2, Sums DEF LinkInv
  <2>. QED
    BY <1>1, <2>1, <2>2, <2>3, Undisturbed DEF LinkInv, CountInv
<1>. QED
  BY <1>1, <1>2, InvUser, InvSocket, InvLoopTurns, InvLoadDone, InvLogoutBegins,
     InvLogoutReported, InvPairBegins, InvPairReads, InvPairStarts, InvConnectorRestarts
  DEF Next, LoopStep

LEMMA LinkInvariance == Spec => []LinkInv
BY LinkInvInit, LinkInvNext, PTL DEF Spec

\* No order of closes, pairings, logouts and failures leaves the connector without a
\* socket and without one to come, unless it has given up.
THEOREM ConnectorNeverStranded == Spec => []NeverStranded
<1>1. LinkInv => NeverStranded
  BY DEF LinkInv
<1>. QED
  BY <1>1, LinkInvariance, PTL

\* Reconnecting never multiplies sockets: there is one, and one more for each request of
\* the user at most.
THEOREM SocketsNeverMultiply == Spec => []OnePerRequest
<1>1. LinkInv => OnePerRequest
  BY Sums DEF LinkInv, CountInv, OnePerRequest
<1>. QED
  BY <1>1, LinkInvariance, PTL
===============================================================================
