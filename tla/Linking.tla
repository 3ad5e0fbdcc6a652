-------------------------------- MODULE Linking --------------------------------
(***************************************************************************)
(* The sockets of the connector and the commands that reach it: starting,  *)
(* reconnecting, pairing, logging out and giving up (index.js startSocket, *)
(* restart, clearAuth, handlePairRequest, handleLogout, pollLoop, main),   *)
(* with the one-shot flags the backend keeps for it (wa/state.go).         *)
(*                                                                         *)
(* JavaScript runs one step at a time, but every await lets other steps in: *)
(* the handler of a closing socket pauses while it reports the closing,    *)
(* the poll loop while it fetches, logs out or reports, a start between     *)
(* reading the credentials and making the socket, and a restart is a timer. *)
(* A start that fails is left out.  Sockets are never taken off the list of listeners: one that     *)
(* the variable sock no longer names goes on acting on the shared state.   *)
(*                                                                         *)
(* What the reports say is left to the backend's own model; a report that  *)
(* fails is as good as one that arrives, for publish() never throws.       *)
(***************************************************************************)
EXTENDS Naturals, FiniteSets

CONSTANTS
  Socket,            \* sockets that can exist at one time: a bound
  NoSocket,          \* sock is null
  MaxLoginFailures,  \* refusals in a row before the connector gives up
  Attempts,          \* polls tried before the first socket is opened anyway
  MaxRequests,       \* bound: logouts and pairings the user asks for
  MaxLinks,          \* bound: times a code is scanned
  Faults             \* whether polls and removals fail and the connector is restarted

ASSUME LinkingAssumption ==
  /\ NoSocket \notin Socket
  /\ IsFiniteSet(Socket) /\ Cardinality(Socket) > MaxRequests
  /\ MaxLoginFailures \in Nat \ {0} /\ Attempts \in Nat \ {0}
  /\ MaxRequests \in Nat /\ MaxLinks \in Nat
  /\ Faults \in BOOLEAN

\* Credentials are numbered by the scan that made them; 0 is none.
Creds == 0 .. MaxLinks

VARIABLES
  linked,      \* WhatsApp: credentials it accepts
  scans,       \* codes scanned so far
  requests,    \* requests of the user so far
  logoutFlag,  \* backend: logoutRequested
  pairFlag,    \* backend: pairingRequested
  seen,        \* backend: the connector has polled
  auth,        \* the credentials on disk
  loading,     \* connector: loadInitialAllowlist has not returned
  tries,       \* connector: failed polls while loading
  loop,        \* connector: where the poll loop is, and the command it holds
  sock,        \* connector: the socket the code refers to
  conn,        \* connector: the state of every socket, with its credentials
  pausing,     \* connector: handlers of a close waiting for their report
  timers,      \* connector: restarts to come, and the first start
  failures     \* connector: consecutiveFailures, capped at MaxLoginFailures

user == <<requests, logoutFlag, pairFlag, seen>>
sockets == <<sock, conn, pausing, timers, failures>>
vars == <<linked, scans, user, auth, loading, tries, loop, sockets>>

Closed == [state |-> "closed", creds |-> 0]
Waiting == [at |-> "waiting", logout |-> FALSE, pair |-> FALSE]

Live(s) == conn[s].state # "closed"
LiveSockets == {s \in Socket : Live(s)}

\* A socket that is there, not one whose start has only read the credentials.
UpSockets == {s \in LiveSockets : conn[s].state \notin {"restarting", "starting"}}

Init ==
  /\ linked = {}
  /\ scans = 0
  /\ requests = 0
  /\ logoutFlag = FALSE /\ pairFlag = FALSE /\ seen = FALSE
  /\ auth = 0
  /\ loading = TRUE /\ tries = 0
  /\ loop = Waiting
  /\ sock = NoSocket
  /\ conn = [s \in Socket |-> Closed]
  /\ pausing = {}
  /\ timers = 0
  /\ failures = 0

-------------------------------------------------------------------------------
(* The user.                                                               *)

RequestLogout ==
  /\ requests < MaxRequests
  /\ requests' = requests + 1
  /\ logoutFlag' = TRUE
  /\ pairFlag' = FALSE
  /\ UNCHANGED <<linked, scans, seen, auth, loading, tries, loop, sockets>>

\* Refused while the connector has not polled for a while.
RequestPairing ==
  /\ requests < MaxRequests
  /\ seen
  /\ requests' = requests + 1
  /\ pairFlag' = TRUE
  /\ logoutFlag' = FALSE
  /\ UNCHANGED <<linked, scans, seen, auth, loading, tries, loop, sockets>>

\* The device is removed on the phone.
UnlinkOnPhone ==
  /\ linked # {}
  /\ linked' = {}
  /\ UNCHANGED <<scans, user, auth, loading, tries, loop, sockets>>

-------------------------------------------------------------------------------
(* Sockets.                                                                *)

\* startSocket up to its await: the credentials on disk are read ...
Begun(s, state) ==
  /\ ~Live(s)
  /\ conn' = [conn EXCEPT ![s] = [state |-> state, creds |-> auth]]

\* ... and after it: the socket made with them is the one the code refers to.
Made(s) ==
  /\ sock' = s
  /\ conn' = [conn EXCEPT ![s].state = "connecting"]

\* A ...Variant is what a plausible mistake would make of the definition after it.
UncountedVariant(n) == n
UncappedVariant(n) == n + 1

\* consecutiveFailures++
Failed(n) == IF n < MaxLoginFailures THEN n + 1 ELSE n

\* The return of the first branch is missing.
FallingThroughVariant(s, loggedOut) ==
  /\ conn' = [conn EXCEPT ![s] = Closed]
  /\ failures' = Failed(failures)
  /\ pausing' = pausing \cup {[of |-> s, clears |-> c] : c \in {loggedOut, FALSE}}

\* The handler of a close up to its first await: a logged out device is cleared
\* and restarted once that is reported, a refused one is restarted unless it was
\* refused too often.
Closes(s, loggedOut) ==
  /\ conn' = [conn EXCEPT ![s] = Closed]
  /\ failures' = IF loggedOut THEN failures ELSE Failed(failures)
  /\ pausing' = IF ~loggedOut /\ failures' = MaxLoginFailures THEN pausing
                ELSE pausing \cup {[of |-> s, clears |-> loggedOut]}

\* WhatsApp ends the connection: as logged out if it no longer accepts the
\* credentials, for another reason at any time.
SocketCloses(s) ==
  /\ s \in UpSockets
  /\ ~\E h \in pausing : h.of = s
  /\ Closes(s, conn[s].creds \notin linked \cup {0})
  /\ UNCHANGED <<linked, scans, user, auth, loading, tries, loop, sock, timers>>

\* clearAuth: when the removal fails the credentials stay, and nobody is told.
Cleared == auth' = 0 \/ (Faults /\ UNCHANGED auth)

\* The handler goes on when its report has been answered.
CloseHandled(h) ==
  /\ h \in pausing
  /\ pausing' = pausing \ {h}
  /\ IF h.clears THEN Cleared ELSE UNCHANGED auth
  /\ timers' = timers + 1
  /\ UNCHANGED <<linked, scans, user, loading, tries, loop, sock, conn, failures>>

RestartFires ==
  /\ timers > 0
  /\ timers' = timers - 1
  /\ \E s \in Socket : Begun(s, "restarting")
  /\ UNCHANGED <<linked, scans, user, auth, loading, tries, loop, sock, pausing, failures>>

SocketMade(s) ==
  /\ conn[s].state = "restarting"
  /\ Made(s)
  /\ UNCHANGED <<linked, scans, user, auth, loading, tries, loop, pausing, timers, failures>>

\* Without credentials WhatsApp offers a code, and a new one now and then.
QrShown(s) ==
  /\ conn[s].state \in {"connecting", "qr"}
  /\ conn[s].creds = 0
  /\ conn' = [conn EXCEPT ![s].state = "qr"]
  /\ failures' = 0
  /\ UNCHANGED <<linked, scans, user, auth, loading, tries, loop, sock, pausing, timers>>

\* The new credentials are saved; WhatsApp then asks for a new connection.
CodeScanned(s) ==
  /\ conn[s].state = "qr"
  /\ scans < MaxLinks
  /\ scans' = scans + 1
  /\ linked' = linked \cup {scans + 1}
  /\ auth' = scans + 1
  /\ conn' = [conn EXCEPT ![s] = [state |-> "scanned", creds |-> scans + 1]]
  /\ UNCHANGED <<user, loading, tries, loop, sock, pausing, timers, failures>>

SocketOpens(s) ==
  /\ conn[s].state = "connecting"
  /\ conn[s].creds \in linked
  /\ conn' = [conn EXCEPT ![s].state = "open"]
  /\ failures' = 0
  /\ UNCHANGED <<linked, scans, user, auth, loading, tries, loop, sock, pausing, timers>>

-------------------------------------------------------------------------------
(* The poll loop, and the polls of loadInitialAllowlist before it.         *)

FetchCommands ==
  /\ loop.at = "waiting"
  /\ loading => tries < Attempts
  /\ loop' = [loop EXCEPT !.at = "asked"]
  /\ UNCHANGED <<linked, scans, user, auth, loading, tries, sockets>>

\* The flags are cleared as the answer is made.
TakeCommand ==
  /\ loop.at = "asked"
  /\ loop' = [at |-> "answered", logout |-> logoutFlag, pair |-> pairFlag]
  /\ logoutFlag' = FALSE /\ pairFlag' = FALSE /\ seen' = TRUE
  /\ UNCHANGED <<linked, scans, requests, auth, loading, tries, sockets>>

FetchFails ==
  /\ Faults
  /\ loop.at \in {"asked", "answered"}
  /\ loop' = Waiting
  /\ tries' = IF loading /\ tries < Attempts THEN tries + 1 ELSE tries
  /\ UNCHANGED <<linked, scans, user, auth, loading, sockets>>

\* main goes on to the poll loop and the first socket.  Of the command only the
\* allowlist has been used.
LoadDone ==
  /\ loading
  /\ loop.at = "answered" \/ (loop.at = "waiting" /\ tries = Attempts)
  /\ loading' = FALSE
  /\ loop' = Waiting
  /\ timers' = timers + 1
  /\ UNCHANGED <<linked, scans, user, auth, tries, sock, conn, pausing, failures>>

NoCommand ==
  /\ ~loading
  /\ loop.at = "answered" /\ ~loop.logout /\ ~loop.pair
  /\ loop' = Waiting
  /\ UNCHANGED <<linked, scans, user, auth, loading, tries, sockets>>

\* The first await of handleLogout.  A live socket unlinks the device and closes as
\* logged out, unless its connection is not open and the attempt throws; the throw is
\* ignored, as is the absence of a socket.
LogoutBegins ==
  /\ ~loading
  /\ loop.at = "answered" /\ loop.logout
  /\ loop' = [loop EXCEPT !.at = "tearing"]
  /\ \/ /\ sock \in UpSockets
        /\ conn' = [conn EXCEPT ![sock] = Closed]
        /\ pausing' = pausing \cup {[of |-> sock, clears |-> TRUE]}
        /\ linked' = linked \ {conn[sock].creds}
     \/ /\ sock \in UpSockets => conn[sock].creds # 0
        /\ UNCHANGED <<conn, pausing, linked>>
  /\ failures' = 0
  /\ UNCHANGED <<scans, user, auth, loading, tries, sock, timers>>

\* clearAuth, and the report after it.
LogoutClears ==
  /\ loop.at = "tearing"
  /\ Cleared
  /\ loop' = [loop EXCEPT !.at = "reporting"]
  /\ UNCHANGED <<linked, scans, user, loading, tries, sockets>>

NoRestartVariant == timers' = timers
RestartIfNoneVariant == timers' = IF sock = NoSocket THEN timers + 1 ELSE timers

\* restart()
Restart == timers' = timers + 1

LogoutReported ==
  /\ loop.at = "reporting"
  /\ Restart
  /\ loop' = [loop EXCEPT !.at = "answered", !.logout = FALSE]
  /\ UNCHANGED <<linked, scans, user, auth, loading, tries, sock, conn, pausing, failures>>

\* handlePairRequest ends the socket it knows, which closes it like any other ...
PairBegins ==
  /\ ~loading
  /\ loop.at = "answered" /\ ~loop.logout /\ loop.pair
  /\ loop' = [loop EXCEPT !.at = "pairing"]
  /\ sock' = NoSocket
  /\ IF sock \in UpSockets THEN Closes(sock, FALSE)
     ELSE UNCHANGED <<conn, pausing, failures>>
  /\ UNCHANGED <<linked, scans, user, auth, loading, tries, timers>>

\* ... and starts another, which it awaits.
PairReads ==
  /\ loop.at = "pairing"
  /\ loop' = [Waiting EXCEPT !.at = "starting"]
  /\ \E s \in Socket : Begun(s, "starting")
  /\ UNCHANGED <<linked, scans, user, auth, loading, tries, sock, pausing, timers, failures>>

PairStarts ==
  /\ loop.at = "starting"
  /\ loop' = Waiting
  /\ \E s \in Socket : conn[s].state = "starting" /\ Made(s)
  /\ UNCHANGED <<linked, scans, user, auth, loading, tries, pausing, timers, failures>>

\* The connector process ends and comes up again; the credentials stay.
ConnectorRestarts ==
  /\ Faults
  /\ loading' = TRUE /\ tries' = 0
  /\ loop' = Waiting
  /\ sock' = NoSocket
  /\ conn' = [s \in Socket |-> Closed]
  /\ pausing' = {}
  /\ timers' = 0
  /\ failures' = 0
  /\ UNCHANGED <<linked, scans, user, auth>>

-------------------------------------------------------------------------------

UserStep == RequestLogout \/ RequestPairing \/ UnlinkOnPhone

SocketStep ==
  \/ \E s \in Socket : SocketMade(s) \/ SocketCloses(s) \/ QrShown(s) \/ CodeScanned(s) \/ SocketOpens(s)
  \/ \E h \in pausing : CloseHandled(h)
  \/ RestartFires

LoopStep ==
  \/ FetchCommands
  \/ TakeCommand
  \/ FetchFails
  \/ LoadDone
  \/ NoCommand
  \/ LogoutBegins
  \/ LogoutClears
  \/ LogoutReported
  \/ PairBegins
  \/ PairReads
  \/ PairStarts

Next == UserStep \/ SocketStep \/ LoopStep \/ ConnectorRestarts

Spec == Init /\ [][Next]_vars

\* Timers fire, awaited calls return and the loop goes round; an attempt to connect,
\* a code shown and one that was scanned all come to an end.  Nobody need scan, and an
\* open socket may stay open.
Fairness ==
  /\ WF_vars(RestartFires)
  /\ WF_vars(\E h \in pausing : CloseHandled(h))
  /\ WF_vars(FetchCommands) /\ WF_vars(TakeCommand \/ FetchFails)
  /\ WF_vars(LoadDone) /\ WF_vars(NoCommand)
  /\ WF_vars(LogoutBegins) /\ WF_vars(LogoutClears) /\ WF_vars(LogoutReported)
  /\ WF_vars(PairBegins) /\ WF_vars(PairReads) /\ WF_vars(PairStarts)
  /\ \A s \in Socket :
       /\ WF_vars(SocketMade(s))
       /\ WF_vars(conn[s].state \in {"connecting", "scanned"} /\
                  (SocketCloses(s) \/ QrShown(s) \/ SocketOpens(s)))
       /\ WF_vars(conn[s].state = "qr" /\ (SocketCloses(s) \/ CodeScanned(s)))

FairSpec == Spec /\ Fairness

-------------------------------------------------------------------------------
(* Properties.                                                             *)

\* Type invariant.
TypeOK ==
  /\ linked \subseteq Creds \ {0}
  /\ scans \in Creds
  /\ requests \in 0 .. MaxRequests
  /\ logoutFlag \in BOOLEAN /\ pairFlag \in BOOLEAN /\ seen \in BOOLEAN
  /\ auth \in Creds
  /\ loading \in BOOLEAN
  /\ tries \in 0 .. Attempts
  /\ loop \in [at : {"waiting", "asked", "answered", "tearing", "reporting", "pairing", "starting"},
               logout : BOOLEAN, pair : BOOLEAN]
  /\ sock \in Socket \cup {NoSocket}
  /\ conn \in [Socket -> [state : {"closed", "restarting", "starting", "connecting", "qr",
                                   "scanned", "open"},
                          creds : Creds]]
  /\ pausing \subseteq [of : Socket, clears : BOOLEAN]
  /\ timers \in Nat
  /\ failures \in 0 .. MaxLoginFailures

Underway == Cardinality(LiveSockets) + Cardinality(pausing) + timers

\* The connector never sits without a socket and without one to come, unless it has
\* given up: no order of closes, pairings and logouts loses the last restart.
NeverStranded ==
  \/ loading
  \/ Underway > 0
  \/ loop.at \in {"tearing", "reporting", "pairing"}
  \/ failures = MaxLoginFailures

\* Reconnecting never multiplies sockets.  Only a request of the user can add one
\* (a logout restarts twice, a pairing starts one beside the restart of the socket it
\* ends), and each adds at most one.
OnePerRequest == Underway <= 1 + requests

Stopped == Underway = 0 /\ failures = MaxLoginFailures

Progress == \E s \in Socket : QrShown(s) \/ SocketOpens(s)

\* The handler of a logged out socket fails to remove its credentials.
ClearFails == (\E h \in pausing \ pausing' : h.clears) /\ auth # 0 /\ auth' # 0

\* "retrying forever produces a silent loop with no QR and no explanation"
\* (index.js:50-53): a connector that WhatsApp keeps refusing stops, unless it is one whose
\* removed device it fails to forget each time it is told of it.
NoSilentLoop ==
  \/ []<><<Progress>>_vars
  \/ <>[](\E s \in Socket : conn[s].state = "open")
  \/ <>[]Stopped
  \/ []<>loading
  \/ []<><<ClearFails>>_vars

\* "Unlinking is the remedy for a rejected session" (index.js:487): after a logout the
\* connector comes to connect without the credentials it had, unless their removal failed.
LogoutRemedies ==
  \A c \in Creds \ {0} :
    (loop.at = "tearing" /\ auth = c)
      ~> \/ loading
         \/ loop.at = "reporting" /\ auth = c
         \/ \E s \in UpSockets : conn[s].creds # c
===============================================================================
