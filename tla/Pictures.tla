------------------------------ MODULE Pictures ------------------------------
(***************************************************************************)
(* Profile pictures of the people in the picker: the slow pass that fetches *)
(* them one by one (avatars.js, called by index.js pollLoop) and the ones   *)
(* the backend keeps in memory (wa/state.go, api/internal_events.go).       *)
(*                                                                         *)
(* A pass outlives the poll that started it, and the socket it started      *)
(* with: polls, closes, reconnects and logouts come between any two of its  *)
(* steps.  Time is what has become due: a failed attempt soon, a settled    *)
(* one after hours.  The order of a pass and the size it asks for decide    *)
(* nothing here; a picture is its version, 0 for none.                      *)
(***************************************************************************)
EXTENDS Naturals, Sequences, FiniteSets

CONSTANTS
  Phone,      \* people who can be in the picker
  Slot,       \* passes that could run at one time: a bound
  Refused,    \* pictures too large for the connector, or none the backend takes
  MaxKept,    \* maxContactAvatars
  MaxSocks,   \* bound: sockets opened
  MaxChanges, \* bound: pictures changed
  MaxFaults   \* bound: requests that fail, restarts of the backend

ASSUME PicturesAssumption ==
  /\ IsFiniteSet(Phone) /\ Slot # {} /\ Refused \subseteq 1..2
  /\ MaxKept \in Nat \ {0}
  /\ MaxSocks \in Nat /\ MaxChanges \in Nat /\ MaxFaults \in Nat

VARIABLES
  pictures,   \* WhatsApp: everybody's picture
  changes,    \* pictures changed so far
  sock,       \* connector: the socket the code refers to, by its number
  open,       \* connector: socketOpen
  picker,     \* connector: the phones of targets
  attempted,  \* connector: what is known of each phone, and whether it is due again
  running,    \* connector: the flag of the fetcher
  pass,       \* connector: the passes
  kept,       \* backend: contactAvatars, the oldest first
  stale,      \* history: phones that are settled while what was settled is not kept
  faults      \* failures and restarts so far

vars == <<pictures, changes, sock, open, picker, attempted, running, pass, kept, stale, faults>>

NoPass == [at |-> "no", sock |-> 0, rest |-> {}, phone |-> {}, got |-> 0]

\* A pass with the entries that are left to it, one that waits for the URL of a phone, one
\* that downloads what is there, and one that publishes it.
Between(s, rest) == [at |-> "next", sock |-> s, rest |-> rest, phone |-> {}, got |-> 0]
Asking(s, rest, p) == [at |-> "asking", sock |-> s, rest |-> rest, phone |-> {p}, got |-> 0]
Fetching(s, rest, p, v) ==
  [at |-> "fetching", sock |-> s, rest |-> rest, phone |-> {p}, got |-> v]
Publishing(s, rest, p, v) ==
  [at |-> "publishing", sock |-> s, rest |-> rest, phone |-> {p}, got |-> v]

Init ==
  /\ pictures \in [Phone -> 0..1]
  /\ changes = 0
  /\ sock = 0 /\ open = FALSE
  /\ picker = {}
  /\ attempted = [p \in Phone |-> "due"]
  /\ running = FALSE
  /\ pass = [i \in Slot |-> NoPass]
  /\ kept = <<>>
  /\ stale = {}
  /\ faults = 0

Settled == {p \in Phone : attempted[p] = "settled"}
Keeps(p, v) == \E i \in 1..Len(kept) : kept[i] = [phone |-> p, picture |-> v]

Fault == faults < MaxFaults /\ faults' = faults + 1

-------------------------------------------------------------------------------
(* What happens around the fetcher.                                           *)

PictureChanges(p) ==
  /\ changes < MaxChanges
  /\ changes' = changes + 1
  /\ \E v \in 0..2 \ {pictures[p]} : pictures' = [pictures EXCEPT ![p] = v]
  /\ stale' = stale \cup (Settled \cap {p})
  /\ UNCHANGED <<sock, open, picker, attempted, running, pass, kept, faults>>

\* Chats and selections come and go.
PickerChanges(p) ==
  /\ picker' = IF p \in picker THEN picker \ {p} ELSE picker \cup {p}
  /\ UNCHANGED <<pictures, changes, sock, open, attempted, running, pass, kept, stale, faults>>

SocketOpens ==
  /\ ~open /\ sock < MaxSocks
  /\ sock' = sock + 1 /\ open' = TRUE
  /\ UNCHANGED <<pictures, changes, picker, attempted, running, pass, kept, stale, faults>>

SocketCloses ==
  /\ open
  /\ open' = FALSE
  /\ UNCHANGED <<pictures, changes, sock, picker, attempted, running, pass, kept, stale, faults>>

\* The backend forgets: SetStatus(logged_out), or a restart of it.
Forgets ==
  /\ kept' = <<>>
  /\ stale' = stale \cup Settled
  /\ UNCHANGED <<pictures, changes, sock, open, picker, attempted, running, pass>>

LoggedOut == ~open /\ Forgets /\ UNCHANGED faults

BackendRestarts == Fault /\ Forgets

\* RETRY_AFTER_ERROR_MS have passed, or REFRESH_AFTER_MS: needsFetch.
Wait(p, outcome) ==
  /\ attempted[p] = outcome
  /\ attempted' = [attempted EXCEPT ![p] = "due"]
  /\ stale' = stale \ {p}
  /\ UNCHANGED <<pictures, changes, sock, open, picker, running, pass, kept, faults>>

RetryDue(p) == Wait(p, "failed")
RefreshDue(p) == Wait(p, "settled")

-------------------------------------------------------------------------------
(* The fetcher.  A ...Variant is what a plausible mistake would make of the   *)
(* definition after it.                                                       *)

\* retainOnly: whoever left the picker is due when back.
Retained == [p \in Phone |-> IF p \in picker THEN attempted[p] ELSE "due"]

MayStartVariant == open /\ picker # {}

MayStart == ~running /\ open /\ picker # {}

\* The part of a poll that concerns pictures, with run() up to its first entry.
Poll ==
  /\ attempted' = Retained
  /\ stale' = stale \cap picker
  /\ IF MayStart
     THEN /\ running' = TRUE
          /\ \E i \in Slot :
               /\ pass[i] = NoPass
               /\ pass' = [pass EXCEPT ![i] = Between(sock, picker)]
     ELSE UNCHANGED <<running, pass>>
  /\ UNCHANGED <<pictures, changes, sock, open, picker, kept, faults>>

EndsVariant(i) == pass' = [pass EXCEPT ![i] = NoPass] /\ UNCHANGED running

\* The finally of run().
Ends(i) == pass' = [pass EXCEPT ![i] = NoPass] /\ running' = FALSE

\* The next entry: not needed, or there is no socket any more, or it is asked for.
PassTakes(i) ==
  /\ pass[i].at = "next"
  /\ \E p \in pass[i].rest :
       \/ /\ attempted[p] # "due"
          /\ pass' = [pass EXCEPT ![i] = Between(@.sock, @.rest \ {p})]
          /\ UNCHANGED running
       \/ /\ attempted[p] = "due" /\ ~open
          /\ Ends(i)
       \/ /\ attempted[p] = "due" /\ open
          /\ pass' = [pass EXCEPT ![i] = Asking(@.sock, @.rest \ {p}, p)]
          /\ UNCHANGED running
  /\ UNCHANGED <<pictures, changes, sock, open, picker, attempted, kept, stale, faults>>

PassEnds(i) ==
  /\ pass[i].at = "next" /\ pass[i].rest = {}
  /\ Ends(i)
  /\ UNCHANGED <<pictures, changes, sock, open, picker, attempted, kept, stale, faults>>

\* The socket of the pass, which may not be the connector's any more.
Alive(i) == open /\ pass[i].sock = sock

Records(i, outcome) ==
  /\ attempted' = [p \in Phone |-> IF p \in pass[i].phone THEN outcome ELSE attempted[p]]
  /\ stale' = stale \ pass[i].phone
  /\ UNCHANGED <<pictures, changes, sock, open, picker, running, kept>>

OnNext(i) == pass' = [pass EXCEPT ![i] = Between(@.sock, @.rest)]

\* profilePictureUrl, over the socket of the pass: there is none, or where to find it.
Answered(i) ==
  /\ pass[i].at = "asking" /\ Alive(i)
  /\ \E p \in pass[i].phone :
       IF pictures[p] = 0 THEN Records(i, "settled") /\ OnNext(i)
       ELSE /\ pass' = [pass EXCEPT ![i] = Fetching(@.sock, @.rest, p, pictures[p])]
            /\ UNCHANGED <<pictures, changes, sock, open, picker, attempted, running, kept, stale>>
  /\ UNCHANGED faults

\* The download, which needs no socket, and the note of it.  What is too large is noted as
\* no picture.
Downloaded(i) ==
  /\ pass[i].at = "fetching"
  /\ \/ /\ Records(i, "settled")
        /\ \E p \in pass[i].phone :
             pass' = [pass EXCEPT ![i] = Publishing(@.sock, @.rest, p, @.got)]
     \/ /\ pass[i].got \in Refused
        /\ attempted' = [p \in Phone |-> IF p \in pass[i].phone THEN "settled" ELSE attempted[p]]
        /\ stale' = stale \cup pass[i].phone
        /\ OnNext(i)
        /\ UNCHANGED <<pictures, changes, sock, open, picker, running, kept>>
  /\ UNCHANGED faults

\* A dead socket answers nothing by itself; all else that fails is a fault.
NoAnswer(i) ==
  /\ pass[i].at \in {"asking", "fetching"}
  /\ LET dead == pass[i].at = "asking" /\ ~Alive(i)
     IN  (dead \/ faults < MaxFaults) /\ faults' = IF dead THEN faults ELSE faults + 1

FailsVariant(i) == NoAnswer(i) /\ Records(i, "settled") /\ OnNext(i)

Fails(i) == NoAnswer(i) /\ Records(i, "failed") /\ OnNext(i)

Pictured(k) == {k[j].phone : j \in 1..Len(k)}

Without(j) == [i \in 1..(Len(kept) - 1) |-> IF i < j THEN kept[i] ELSE kept[i + 1]]

Others(p) == IF p \in Pictured(kept)
             THEN Without(CHOOSE j \in 1..Len(kept) : kept[j].phone = p) ELSE kept

StoredVariant(p, v) == Append(Others(p), [phone |-> p, picture |-> v])

\* SetContactAvatar: at the cap the oldest goes for a newcomer.
Stored(p, v) ==
  Append(IF p \notin Pictured(kept) /\ Len(kept) >= MaxKept THEN Tail(kept) ELSE Others(p),
         [phone |-> p, picture |-> v])

\* applyContactAvatarEvent: what it takes for no picture it drops.
PublishArrives(i) ==
  /\ pass[i].at = "publishing"
  /\ \E p \in pass[i].phone :
       /\ kept' = IF pass[i].got \in Refused THEN kept ELSE Stored(p, pass[i].got)
       /\ stale' = (stale \ {p}) \cup (Settled \cap (Pictured(kept) \ Pictured(kept')))
                   \cup (Settled \cap {q \in {p} : ~\E j \in 1..Len(kept') :
                                           kept'[j] = [phone |-> q, picture |-> pictures[q]]})
  /\ OnNext(i)
  /\ UNCHANGED <<pictures, changes, sock, open, picker, attempted, running, faults>>

\* publish() reports a failure by its result, which nobody looks at.
PublishLost(i) ==
  /\ Fault
  /\ pass[i].at = "publishing"
  /\ stale' = stale \cup (Settled \cap pass[i].phone)
  /\ OnNext(i)
  /\ UNCHANGED <<pictures, changes, sock, open, picker, attempted, running, kept>>

-------------------------------------------------------------------------------

PassStep(i) ==
  \/ PassTakes(i) \/ PassEnds(i) \/ Answered(i) \/ Downloaded(i) \/ Fails(i)
  \/ PublishArrives(i) \/ PublishLost(i)

Next ==
  \/ \E p \in Phone : PictureChanges(p) \/ PickerChanges(p) \/ RetryDue(p) \/ RefreshDue(p)
  \/ SocketOpens \/ SocketCloses
  \/ LoggedOut \/ BackendRestarts
  \/ Poll
  \/ \E i \in Slot : PassStep(i)

Spec == Init /\ [][Next]_vars

\* The loop polls, what a pass awaits comes to an end, and a minute passes.  Nothing is
\* assumed of the hours a settled attempt lasts.
Fairness ==
  /\ WF_vars(Poll)
  /\ \A i \in Slot : WF_vars(PassStep(i))
  /\ \A p \in Phone : WF_vars(RetryDue(p))

FairSpec == Spec /\ Fairness

-------------------------------------------------------------------------------
(* Properties.                                                                *)

\* Every variable has its type, and no more pictures are kept than the cap (state.go:299).
TypeOK ==
  /\ pictures \in [Phone -> 0..2] /\ changes \in 0..MaxChanges
  /\ sock \in 0..MaxSocks /\ open \in BOOLEAN
  /\ picker \subseteq Phone
  /\ attempted \in [Phone -> {"due", "settled", "failed"}]
  /\ running \in BOOLEAN
  /\ pass \in [Slot -> [at : {"no", "next", "asking", "fetching", "publishing"}, sock : 0..MaxSocks,
                        rest : SUBSET Phone, phone : SUBSET Phone, got : 0..2]]
  /\ kept \in Seq([phone : Phone, picture : 1..2]) /\ Len(kept) <= MaxKept
  /\ stale \subseteq Phone
  /\ faults \in 0..MaxFaults

\* Requests go to WhatsApp one at a time: while polls go on and sockets are replaced, no
\* second pass starts beside one that has not ended, and the flag is down only when none
\* is left (avatars.js:79-114).
OnePass ==
  /\ Cardinality({i \in Slot : pass[i] # NoPass}) <= 1
  /\ running = (\E i \in Slot : pass[i] # NoPass)

\* A picture WhatsApp would give does not wait for the refresh hours later: while the
\* device is connected it gets to the dashboard, whatever sockets the passes outlived,
\* unless it is one that is refused, or the settled answer was lost on the way or has since
\* been overtaken.
ShownSoon ==
  \A p \in Phone : []<>(~open \/ p \notin picker \/ p \in stale \/ pictures[p] \in {0} \cup Refused
                        \/ Keeps(p, pictures[p]))
===============================================================================
