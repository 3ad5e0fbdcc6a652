------------------------------ MODULE Dashboard ------------------------------
(***************************************************************************)
(* The pairing page of the dashboard: the list of contacts and its buttons  *)
(* (contact-picker.tsx), the state of the link (pairing.tsx,                *)
(* connection-badge.tsx), the two queries behind them and the requests the  *)
(* buttons send (lib/wa.ts, lib/api.ts), with what the backend does with    *)
(* them (api/wa.go, storage/allowlist.go).  What the connector makes of a   *)
(* pairing or a logout is left to Linking.                                  *)
(*                                                                         *)
(* One browser tab is modelled; another one writes to the backend directly. *)
(* Between the read of an answer and its showing anything may happen.       *)
(* React Query is external: one request per query at a time, and an         *)
(* invalidation drops the one under way once something has been loaded.     *)
(***************************************************************************)
EXTENDS Naturals, FiniteSets

CONSTANTS
  Phone,      \* numbers, those of the list and those typed in
  AtFirst,    \* bound: those that are chosen to begin with
  MaxActs,    \* bound: clicks, writes of another tab, changes of the link
  MaxFaults   \* bound: requests and answers that are lost

ASSUME DashboardAssumption ==
  /\ IsFiniteSet(Phone) /\ AtFirst \subseteq Phone
  /\ MaxActs \in Nat /\ MaxFaults \in Nat

VARIABLES
  acts,      \* clicks, writes and changes so far
  faults,    \* requests and answers lost so far
  device,    \* backend: the candidates, which stay the same here
  table,     \* backend: allowed_contacts, the id 0 for no row
  writes,    \* backend: changes of the table so far
  link,      \* backend: the code or connection it knows of, and whether the connector is online
  contacts,  \* tab: the data of the query ['wa', 'contacts']
  status,    \* tab: the data of the query ['wa', 'status']
  getting,   \* tab: where the GET of each query is, and what it read
  calls,     \* tab: the mutation of each kind under way
  confirmed  \* history: the age of the table when the latest change the tab knows of was done

vars == <<acts, faults, device, table, writes, link, contacts, status, getting, calls, confirmed>>
backend == <<device, table, writes, link>>

NoRow == [id |-> 0, active |-> FALSE]
NoRows == [p \in Phone |-> NoRow]
NoLink == [state |-> "none", online |-> FALSE]

\* What a query holds or a GET has read.  writes is the age of it.
NoContacts == [loaded |-> FALSE, rows |-> NoRows, device |-> {}, writes |-> 0]
NoStatus == [loaded |-> FALSE, link |-> NoLink, active |-> 0]

Active(rows) == Cardinality({p \in Phone : rows[p].active})

ListCall == {"add", "toggle", "remove"}
Kind == ListCall \cup {"retry", "pair", "logout"}
\* A mutation.  seen is the age of the list it was clicked on, served the age of its write.
NoCall == [at |-> "no", phone |-> {}, row |-> NoRow, seen |-> 0, served |-> 0]

Tables == {t \in [Phone -> {NoRow} \cup [id : 1..Cardinality(Phone), active : {TRUE}]] :
             /\ AtFirst = {p \in Phone : t[p] # NoRow}
             /\ \A p, q \in AtFirst : p # q => t[p].id # t[q].id}

Init ==
  /\ acts = 0 /\ faults = 0
  /\ device \in SUBSET Phone
  /\ table \in Tables /\ writes = Cardinality(Phone)
  /\ link = NoLink
  /\ contacts = NoContacts /\ status = NoStatus
  /\ getting = [contacts |-> [at |-> "asked", read |-> NoContacts],
                status |-> [at |-> "asked", read |-> NoStatus]]
  /\ calls = [k \in Kind |-> NoCall]
  /\ confirmed = 0

Act == acts < MaxActs /\ acts' = acts + 1
Fault == faults < MaxFaults /\ faults' = faults + 1

-------------------------------------------------------------------------------
(* What the page shows.  A ...Variant is what a plausible mistake would make  *)
(* of the definition after it.                                                *)

Pending(k) == calls[k].at # "no"
Busy == \E k \in ListCall : Pending(k)

Listed(c) == {p \in Phone : c.loaded /\ (c.rows[p].id # 0 \/ p \in c.device)}

\* ContactRowItem: the buttons of a row, and whether it says dijeda.
Row(row) == IF row.id = 0 THEN [offers |-> {"add"}, paused |-> FALSE]
            ELSE [offers |-> {"toggle", "remove"}, paused |-> ~row.active]

\* A query that never had an answer shows a skeleton while it has a GET under way; when
\* that fails it shows what a page without data shows.
Loading == {q \in {"contacts", "status"} :
              /\ getting[q].at # "no"
              /\ ~(IF q = "contacts" THEN contacts.loaded ELSE status.loaded)}

\* What stands for the rows when there are none.
Instead(s) == IF s.link.state = "connected" THEN "no history" ELSE "not linked"

\* ContactPicker.  A search only narrows what is shown.
Picker(c, s, loading) ==
  [list |-> [p \in Listed(c) |-> Row(c.rows[p])], chosen |-> Active(c.rows),
   instead |-> IF "contacts" \in loading THEN "loading"
               ELSE IF Listed(c) = {} THEN Instead(s) ELSE ""]

Offline(s) == s.loaded /\ s.link.state # "connected" /\ ~s.link.online

\* WAProfile: the account, and how many numbers are read.
Profile(s) == [read |-> s.active]

\* What the status card says, and the profile under it.
Panel(s, loading) == IF "status" \in loading THEN "loading"
                     ELSE IF s.link.state # "none" THEN s.link.state
                     ELSE IF Offline(s) THEN "offline" ELSE "waiting"

PairOffered(s) == s.loaded => s.link.state # "connected" /\ s.link.online

\* The badge of the page and of the top bar.
Badge(s) == IF ~s.loaded THEN "loading" ELSE IF Offline(s) THEN "connector off" ELSE s.link.state

Card(s, loading) == [panel |-> Panel(s, loading), profile |-> Profile(s), pair |-> PairOffered(s)]

Page(c, s, loading) ==
  [picker |-> Picker(c, s, loading), card |-> Card(s, loading), badge |-> Badge(s)]

-------------------------------------------------------------------------------
(* The queries.                                                               *)

GetOf(q) == getting[q].at
Asked(q) == [getting EXCEPT ![q].at = "asked"]

PolledIfConnectedVariant(q) ==
  /\ GetOf(q) = "no"
  /\ q = "contacts" /\ contacts.loaded => status.link.state = "connected"
  /\ getting' = Asked(q)
  /\ UNCHANGED <<acts, faults, backend, contacts, status, calls, confirmed>>

\* refetchInterval; the first load is asked for when the page opens.
Polled(q) ==
  /\ GetOf(q) = "no"
  /\ getting' = Asked(q)
  /\ UNCHANGED <<acts, faults, backend, contacts, status, calls, confirmed>>

\* handleWAContacts, handleWAStatus.
Read(q) ==
  /\ GetOf(q) = "asked"
  /\ getting' = [getting EXCEPT ![q] =
       [at |-> "read",
        read |-> IF q = "contacts" THEN [loaded |-> TRUE, rows |-> table,
                                                    device |-> device, writes |-> writes]
                 ELSE [loaded |-> TRUE, link |-> link, active |-> Active(table)]]]
  /\ UNCHANGED <<acts, faults, backend, contacts, status, calls, confirmed>>

NoGet(q) == [getting EXCEPT ![q] = [at |-> "no", read |-> IF q = "contacts" THEN NoContacts
                                                          ELSE NoStatus]]

Shown(q) ==
  /\ GetOf(q) = "read"
  /\ getting' = NoGet(q)
  /\ IF q = "contacts" THEN contacts' = getting[q].read /\ UNCHANGED status
     ELSE status' = getting[q].read /\ UNCHANGED contacts
  /\ UNCHANGED <<acts, faults, backend, calls, confirmed>>

GetLostVariant(q) ==
  /\ Fault
  /\ GetOf(q) # "no"
  /\ getting' = NoGet(q)
  /\ contacts' = IF q = "contacts" THEN [loaded |-> TRUE] ELSE contacts
  /\ UNCHANGED <<acts, backend, status, calls, confirmed>>

\* The GET and its retry fail: the data stays what it was.
GetLost(q) ==
  /\ Fault
  /\ GetOf(q) # "no"
  /\ getting' = NoGet(q)
  /\ UNCHANGED <<acts, backend, contacts, status, calls, confirmed>>

JoinedVariant(q, loaded) == IF GetOf(q) = "no" THEN Asked(q)[q] ELSE getting[q]

\* invalidateQueries: a GET under way is dropped for a new one, unless it is the first.
Refetched(q, loaded) ==
  IF GetOf(q) # "no" /\ ~loaded THEN getting[q] ELSE [NoGet(q)[q] EXCEPT !.at = "asked"]

Invalidated == [contacts |-> Refetched("contacts", contacts.loaded),
                status |-> Refetched("status", status.loaded)]

-------------------------------------------------------------------------------
(* The buttons.                                                               *)

Sends(k, call) ==
  /\ Act
  /\ calls' = [calls EXCEPT ![k] = call]
  /\ UNCHANGED <<faults, backend, contacts, status, getting, confirmed>>

\* Pilih, the switch and the bin of a row, for the row as it is shown.
Click(k, p) ==
  /\ p \in Listed(contacts)
  /\ k \in Row(contacts.rows[p]).offers /\ ~Busy
  /\ Sends(k, [at |-> "sent", phone |-> {p}, row |-> contacts.rows[p],
               seen |-> contacts.writes, served |-> 0])

\* The form for a number: open whatever the list shows or awaits, but for another add.
SubmitForm(p) ==
  /\ ~Pending("add")
  /\ Sends("add", [NoCall EXCEPT !.at = "sent", !.phone = {p}])

\* coba lagi, shown for a registered row when the walk through its history is over, and
\* never disabled.
ClickRetry(p) ==
  /\ contacts.loaded /\ contacts.rows[p].id # 0
  /\ Sends("retry", [NoCall EXCEPT !.at = "sent", !.phone = {p}])

ClickPair ==
  PairOffered(status) /\ ~Pending("pair") /\ Sends("pair", [NoCall EXCEPT !.at = "sent"])
ClickLogout == ~Pending("logout") /\ Sends("logout", [NoCall EXCEPT !.at = "sent"])

-------------------------------------------------------------------------------
(* The backend.                                                               *)

\* AddAllowedContact: a number that is there becomes active and keeps its row.
Added(p) == [table EXCEPT ![p] =
  [id |-> IF @.id = 0 THEN writes + 1 ELSE @.id, active |-> TRUE]]

NamedVariant(call) == {p \in call.phone : table[p].id # 0}

\* The number whose row the call names by its id, if the row is still there.
Named(call) == {p \in Phone : table[p].id # 0 /\ table[p].id = call.row.id}

\* SetAllowedContactActive, DeleteAllowedContact.
Changed(p, row) == [table EXCEPT ![p] = row]

Writes(t) == table' = t /\ writes' = writes + 1

Effect(k, call) ==
  CASE k = "add" -> \E p \in call.phone : Writes(Added(p)) /\ UNCHANGED <<device, link>>
    [] k = "toggle" -> \E p \in Named(call) :
         /\ Writes(Changed(p, [table[p] EXCEPT !.active = ~call.row.active]))
         /\ UNCHANGED <<device, link>>
    [] k = "remove" -> \E p \in Named(call) :
         Writes(Changed(p, NoRow)) /\ UNCHANGED <<device, link>>
    [] k = "pair" -> link.online /\ UNCHANGED backend
    [] k \in {"retry", "logout"} -> UNCHANGED backend

\* contact_not_found, connector_offline.
Refused(k, call) ==
  \/ k \in {"toggle", "remove"} /\ Named(call) = {}
  \/ k = "pair" /\ ~link.online

Served(k) ==
  /\ calls[k].at = "sent"
  /\ Effect(k, calls[k])
  /\ calls' = [calls EXCEPT ![k].at = "done",
                            ![k].served = IF k \in ListCall THEN writes' ELSE 0]
  /\ UNCHANGED <<acts, faults, contacts, status, getting, confirmed>>

\* An error is shown, and nothing else happens.
Rejected(k) ==
  /\ calls[k].at = "sent"
  /\ Refused(k, calls[k])
  /\ calls' = [calls EXCEPT ![k] = NoCall]
  /\ UNCHANGED <<acts, faults, backend, contacts, status, getting, confirmed>>

\* onSuccess.
Succeeds(k) ==
  /\ calls[k].at = "done"
  /\ calls' = [calls EXCEPT ![k] = NoCall]
  /\ getting' = IF k = "pair" THEN getting ELSE Invalidated
  /\ confirmed' = IF calls[k].served > confirmed THEN calls[k].served ELSE confirmed
  /\ UNCHANGED <<acts, faults, backend, contacts, status>>

\* The request or its answer is lost: onError.
CallLost(k) ==
  /\ Fault
  /\ Pending(k)
  /\ calls' = [calls EXCEPT ![k] = NoCall]
  /\ UNCHANGED <<acts, backend, contacts, status, getting, confirmed>>

\* Another tab: any write at any time.
Elsewhere(p) ==
  /\ Act
  /\ \/ Writes(Added(p))
     \/ table[p].id # 0 /\ Writes(Changed(p, [table[p] EXCEPT !.active = ~@]))
     \/ table[p].id # 0 /\ Writes(Changed(p, NoRow))
  /\ UNCHANGED <<faults, device, link, contacts, status, getting, calls, confirmed>>

\* The connector is heard from or falls silent; it reports a code, a connection or its end.
LinkChanges ==
  /\ Act
  /\ \/ link' = [link EXCEPT !.online = ~@]
     \/ /\ link.online
        /\ \E state \in {"none", "qr", "connected"} \ {link.state} :
             link' = [link EXCEPT !.state = state]
  /\ UNCHANGED <<faults, device, table, writes, contacts, status, getting, calls, confirmed>>

-------------------------------------------------------------------------------

Query == {"contacts", "status"}

GetStep(q) == Polled(q) \/ Read(q) \/ Shown(q) \/ GetLost(q)
CallStep(k) == Served(k) \/ Rejected(k) \/ Succeeds(k) \/ CallLost(k)

Next ==
  \/ \E q \in Query : GetStep(q)
  \/ \E k \in Kind : CallStep(k)
  \/ \E p \in Phone : \/ \E k \in ListCall : Click(k, p)
                      \/ SubmitForm(p) \/ ClickRetry(p) \/ Elsewhere(p)
  \/ ClickPair \/ ClickLogout
  \/ LinkChanges

Spec == Init /\ [][Next]_vars

\* The intervals go on, and a request is answered or lost.
Fairness == (\A q \in Query : WF_vars(GetStep(q))) /\ (\A k \in Kind : WF_vars(CallStep(k)))

FairSpec == Spec /\ Fairness

-------------------------------------------------------------------------------
(* Properties.                                                                *)

MaxWrites == Cardinality(Phone) + MaxActs
RowsType == [Phone -> [id : Nat, active : BOOLEAN]]
ContactsType == [loaded : BOOLEAN, rows : RowsType,
                 device : SUBSET Phone, writes : 0..MaxWrites]
LinkType == [state : {"none", "qr", "connected"}, online : BOOLEAN]
StatusType == [loaded : BOOLEAN, link : LinkType, active : 0..Cardinality(Phone)]

\* Every variable has its type.
TypeOK ==
  /\ acts \in 0..MaxActs /\ faults \in 0..MaxFaults
  /\ device \subseteq Phone
  /\ table \in RowsType /\ writes \in 0..MaxWrites
  /\ link \in LinkType
  /\ contacts \in ContactsType /\ status \in StatusType
  /\ getting \in [contacts : [at : {"no", "asked", "read"}, read : ContactsType],
                  status : [at : {"no", "asked", "read"}, read : StatusType]]
  /\ calls \in [Kind -> [at : {"no", "sent", "done"}, phone : SUBSET Phone,
                         row : [id : Nat, active : BOOLEAN],
                         seen : 0..MaxWrites, served : 0..MaxWrites]]
  /\ confirmed \in 0..MaxWrites

\* Once the list has been loaded, what it shows next has every change the tab was told of:
\* no answer read before a click was served replaces the row behind the owner's back
\* (contact-picker.tsx:100-102, 105-140).
ReadYourWrites ==
  [][contacts.loaded /\ contacts' # contacts => contacts'.writes >= confirmed]_vars

\* A row that was removed and chosen again, here or in another tab, is a new consent: no
\* switch or bin of a list read before touches it, however late its call is served.  A
\* call reaches only rows as old as the list it was clicked on (contact-picker.tsx:209-212,
\* wa.go handleAllowlistSetActive, handleAllowlistDelete).
OldRowHarmless ==
  [][\A k \in {"toggle", "remove"} : Served(k) =>
       \A p \in Phone : table'[p] # table[p] => table[p].id <= calls[k].seen]_vars

\* When nobody acts any more the page comes to say what is the case, in the list, the
\* panel, the badge and both counts, although they come from two queries, a failed request
\* refetches nothing and pairing never does (contact-picker.tsx:93-98, pairing.tsx:56-84).
ShownConverges ==
  <>[](Page(contacts, status, Loading)
         = Page([loaded |-> TRUE, rows |-> table, device |-> device],
                [loaded |-> TRUE, link |-> link, active |-> Active(table)], {}))
===============================================================================
