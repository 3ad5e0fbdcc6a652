--------------------------- MODULE DashboardProofs ---------------------------
(***************************************************************************)
(* Proofs, for any numbers and any number of clicks and losses, that the    *)
(* list never falls behind what the tab was told of (ReadYourWrites), that  *)
(* a stale row's buttons reach no newer row (OldRowHarmless), and that no   *)
(* count or age exceeds what happened (TypeOK).  That the page converges is *)
(* liveness and is left to TLC.                                             *)
(***************************************************************************)
EXTENDS Dashboard, FiniteSetTheorems, TLAPS

RowType == [id : Nat, active : BOOLEAN]
ListType == [loaded : BOOLEAN, rows : [Phone -> RowType], device : SUBSET Phone, writes : Nat]
GetType == [at : {"no", "asked", "read"}, read : ListType]
CallType == [at : {"no", "sent", "done"}, phone : SUBSET Phone, row : RowType,
             seen : Nat, served : Nat]

Types ==
  /\ device \subseteq Phone
  /\ table \in [Phone -> RowType]
  /\ writes \in Nat /\ confirmed \in Nat
  /\ contacts \in ListType
  /\ getting = [contacts |-> getting.contacts, status |-> getting.status]
  /\ getting.contacts \in GetType
  /\ calls \in [Kind -> CallType]

\* No call knows of a change to come, and only those of the list know of one.
ServedInThePast ==
  /\ confirmed <= writes
  /\ \A k \in Kind : calls[k].served <= writes
  /\ \A k \in Kind \ ListCall : calls[k].served = 0

\* An answer on its way to a list that is shown was read after what the tab was told of.
AnswerIsNew ==
  contacts.loaded /\ getting.contacts.at = "read" => getting.contacts.read.writes >= confirmed

DashInv == Types /\ ServedInThePast /\ AnswerIsNew

\* No row of a table is newer than the table.
Old(rows, age) == \A p \in Phone : rows[p].id <= age

\* A row has the age of the write that made it, in the table, in an answer on its way and in
\* the list shown, and a call names a row of the list it was clicked on.
RowsAreOld ==
  /\ Old(table, writes)
  /\ Old(contacts.rows, contacts.writes)
  /\ Old(getting.contacts.read.rows, getting.contacts.read.writes)
  /\ \A k \in Kind : calls[k].row.id <= calls[k].seen

-------------------------------------------------------------------------------
LEMMA Constants ==
  /\ NoRow \in RowType /\ NoRows \in [Phone -> RowType]
  /\ NoContacts \in ListType /\ NoCall \in CallType
  /\ "contacts" # "status"
<1>1. NoRow \in RowType
  BY DEF NoRow, RowType
<1>2. NoRows \in [Phone -> RowType]
  BY <1>1 DEF NoRows
<1>. QED
  BY <1>1, <1>2 DEF NoContacts, ListType, NoCall, CallType

-------------------------------------------------------------------------------
(* The queries.                                                               *)

\* Where a query has its new GET, the other keeps its own.
LEMMA GetSet ==
  ASSUME Types, NEW q \in Query, NEW g, q = "contacts" => g \in GetType,
         getting' = [getting EXCEPT ![q] = g]
  PROVE  /\ getting' = [contacts |-> getting'.contacts, status |-> getting'.status]
         /\ getting'.contacts \in GetType
         /\ getting'.contacts = IF q = "contacts" THEN g ELSE getting.contacts
BY DEF Types, Query

LEMMA InvPolled ==
  ASSUME DashInv, NEW q \in Query, Polled(q)
  PROVE  DashInv'
<1> DEFINE g == [getting[q] EXCEPT !.at = "asked"]
<1>1. getting' = [getting EXCEPT ![q] = g]
  BY DEF Polled, Asked
<1>2. q = "contacts" => g \in GetType /\ g.at = "asked"
  BY DEF DashInv, Types, GetType
<1>3. UNCHANGED <<device, table, writes, contacts, calls, confirmed>>
  BY DEF Polled, backend
<1>. HIDE DEF g
<1>4. Types /\ getting'.contacts = (IF q = "contacts" THEN g ELSE getting.contacts)
      /\ Types'
  BY <1>1, <1>2, <1>3, GetSet DEF DashInv, Types
<1>. QED
  BY <1>2, <1>3, <1>4 DEF DashInv, ServedInThePast, AnswerIsNew

LEMMA InvRead ==
  ASSUME DashInv, NEW q \in Query, Read(q)
  PROVE  DashInv'
<1> DEFINE list == [loaded |-> TRUE, rows |-> table, device |-> device, writes |-> writes]
           g == [at |-> "read", read |-> IF q = "contacts" THEN list
                 ELSE [loaded |-> TRUE, link |-> link, active |-> Active(table)]]
<1>1. getting' = [getting EXCEPT ![q] = g]
  BY DEF Read
<1>2. q = "contacts" => g \in GetType /\ g.read.writes = writes
  BY DEF DashInv, Types, GetType, ListType
<1>3. UNCHANGED <<device, table, writes, contacts, calls, confirmed>>
  BY DEF Read, backend
<1>. HIDE DEF g
<1>4. getting'.contacts = (IF q = "contacts" THEN g ELSE getting.contacts) /\ Types'
  BY <1>1, <1>2, <1>3, GetSet DEF DashInv, Types
<1>. QED
  BY <1>2, <1>3, <1>4 DEF DashInv, ServedInThePast, AnswerIsNew, Types

\* NoGet leaves no answer on its way.
LEMMA NoGetType ==
  ASSUME Types, NEW q \in Query
  PROVE  /\ NoGet(q) = [getting EXCEPT ![q] = NoGet(q)[q]]
         /\ q = "contacts" => NoGet(q)[q] = [at |-> "no", read |-> NoContacts]
         /\ q = "contacts" => NoGet(q)[q] \in GetType
BY Constants DEF NoGet, GetType, Types, Query

LEMMA InvShownOrLost ==
  ASSUME DashInv, NEW q \in Query, Shown(q) \/ GetLost(q)
  PROVE  DashInv'
<1> DEFINE g == NoGet(q)[q]
<1>1. getting' = [getting EXCEPT ![q] = g]
  BY NoGetType DEF Shown, GetLost, DashInv
<1>2. q = "contacts" => g \in GetType /\ g.at = "no"
  BY NoGetType DEF DashInv
<1>3. UNCHANGED <<device, table, writes, calls, confirmed>>
  BY DEF Shown, GetLost, backend
<1>4. contacts' \in ListType /\ (q # "contacts" => contacts' = contacts)
  BY DEF Shown, GetLost, DashInv, Types, GetType, Query
<1>. HIDE DEF g
<1>5. getting'.contacts = (IF q = "contacts" THEN g ELSE getting.contacts) /\ Types'
  BY <1>1, <1>2, <1>3, <1>4, GetSet DEF DashInv, Types
<1>. QED
  BY <1>2, <1>3, <1>4, <1>5 DEF DashInv, ServedInThePast, AnswerIsNew

-------------------------------------------------------------------------------
(* The calls.                                                                 *)

\* A call that is new or over knows of no change.
LEMMA InvCallSet ==
  ASSUME DashInv, NEW k \in Kind, NEW call \in CallType, call.served = 0,
         calls' = [calls EXCEPT ![k] = call],
         UNCHANGED <<device, table, writes, contacts, getting, confirmed>>
  PROVE  DashInv'
<1>1. calls' \in [Kind -> CallType]
  BY DEF DashInv, Types
<1>2. \A j \in Kind : calls'[j].served = calls[j].served \/ calls'[j].served = 0
  BY DEF DashInv, Types
<1>3. Types'
  BY <1>1 DEF DashInv, Types
<1>4. ServedInThePast'
  BY <1>2 DEF DashInv, Types, ServedInThePast
<1>. QED
  BY <1>3, <1>4 DEF DashInv, AnswerIsNew

\* What a call knows of the list it was clicked on.
OfTheList(call) ==
  /\ call.seen \in {0, contacts.writes}
  /\ RowsAreOld => call.row.id <= call.seen

\* Every button sends a call of its kind.
LEMMA ClickSends ==
  ASSUME Types,
         \/ \E p \in Phone : (\E k \in ListCall : Click(k, p)) \/ SubmitForm(p) \/ ClickRetry(p)
         \/ ClickPair \/ ClickLogout
  PROVE  \E k \in Kind, call \in CallType :
           call.served = 0 /\ OfTheList(call) /\ Sends(k, call)
<1>1. \A p \in Phone : contacts.rows[p] \in RowType
  BY DEF Types, ListType
<1>2. ASSUME NEW p \in Phone, NEW k \in ListCall, Click(k, p)
      PROVE  \E c \in CallType : c.served = 0 /\ OfTheList(c) /\ Sends(k, c)
  <2> DEFINE c == [at |-> "sent", phone |-> {p}, row |-> contacts.rows[p],
                    seen |-> contacts.writes, served |-> 0]
  <2>1. c \in CallType /\ c.served = 0 /\ OfTheList(c)
    BY <1>1 DEF CallType, Types, ListType, OfTheList, RowsAreOld, Old
  <2>2. Sends(k, c)
    BY <1>2 DEF Click
  <2>. QED
    BY <2>1, <2>2
<1>3. ASSUME NEW p \in Phone, NEW k \in {"add", "retry"},
             Sends(k, [NoCall EXCEPT !.at = "sent", !.phone = {p}])
      PROVE  \E c \in CallType : c.served = 0 /\ OfTheList(c) /\ Sends(k, c)
  <2> DEFINE c == [NoCall EXCEPT !.at = "sent", !.phone = {p}]
  <2>1. c \in CallType
    BY Constants DEF CallType
  <2>2. c.served = 0 /\ c.seen = 0 /\ c.row.id = 0
    BY DEF NoCall, NoRow
  <2>3. OfTheList(c)
    BY <2>2 DEF OfTheList
  <2>. HIDE DEF c
  <2>4. Sends(k, c)
    BY <1>3 DEF c
  <2>. QED
    BY <2>1, <2>2, <2>3, <2>4
<1>4. ASSUME NEW k \in {"pair", "logout"}, Sends(k, [NoCall EXCEPT !.at = "sent"])
      PROVE  \E c \in CallType : c.served = 0 /\ OfTheList(c) /\ Sends(k, c)
  <2> DEFINE c == [NoCall EXCEPT !.at = "sent"]
  <2>1. c \in CallType
    BY Constants DEF CallType
  <2>2. c.served = 0 /\ c.seen = 0 /\ c.row.id = 0
    BY DEF NoCall, NoRow
  <2>3. OfTheList(c)
    BY <2>2 DEF OfTheList
  <2>. HIDE DEF c
  <2>4. Sends(k, c)
    BY <1>4 DEF c
  <2>. QED
    BY <2>1, <2>2, <2>3, <2>4
<1>. QED
  BY <1>2, <1>3, <1>4 DEF SubmitForm, ClickRetry, ClickPair, ClickLogout, Kind, ListCall

LEMMA InvClicks ==
  ASSUME DashInv,
         \/ \E p \in Phone : (\E k \in ListCall : Click(k, p)) \/ SubmitForm(p) \/ ClickRetry(p)
         \/ ClickPair \/ ClickLogout
  PROVE  DashInv'
<1>1. PICK k \in Kind, call \in CallType : call.served = 0 /\ OfTheList(call) /\ Sends(k, call)
  BY ClickSends DEF DashInv
<1>. QED
  BY <1>1, InvCallSet DEF Sends, backend

LEMMA InvRejectedOrLost ==
  ASSUME DashInv, NEW k \in Kind, Rejected(k) \/ CallLost(k)
  PROVE  DashInv'
<1>1. calls' = [calls EXCEPT ![k] = NoCall]
      /\ UNCHANGED <<device, table, writes, contacts, getting, confirmed>>
  BY DEF Rejected, CallLost, backend
<1>. QED
  BY <1>1, Constants, InvCallSet DEF NoCall

\* A write is one step further, and the table keeps its type.
LEMMA WriteType ==
  ASSUME Types, NEW p \in Phone, NEW row \in RowType
  PROVE  Added(p) \in [Phone -> RowType] /\ Changed(p, row) \in [Phone -> RowType]
<1>1. table[p] \in RowType /\ writes + 1 \in Nat
  BY DEF Types
<1>2. [id |-> IF table[p].id = 0 THEN writes + 1 ELSE table[p].id, active |-> TRUE] \in RowType
  BY <1>1 DEF RowType
<1>. QED
  BY <1>2 DEF Added, Changed, Types

LEMMA EffectType ==
  ASSUME Types, NEW k \in Kind, NEW call \in CallType, Effect(k, call)
  PROVE  /\ table' \in [Phone -> RowType] /\ UNCHANGED device
         /\ writes' = writes + 1 \/ (writes' = writes /\ k \notin ListCall)
<1>1. CASE k = "add"
  BY <1>1, WriteType, Constants DEF Effect, Writes, CallType
<1>2. CASE k = "toggle"
  <2>1. PICK p \in Named(call) :
          /\ Writes(Changed(p, [table[p] EXCEPT !.active = ~call.row.active]))
          /\ UNCHANGED <<device, link>>
    BY <1>2 DEF Effect
  <2>2. p \in Phone /\ table[p] \in RowType /\ call.row.active \in BOOLEAN
    BY DEF Named, Types, CallType, RowType
  <2>3. [table[p] EXCEPT !.active = ~call.row.active] \in RowType
    BY <2>2 DEF RowType
  <2>. QED
    BY <2>1, <2>2, <2>3, WriteType DEF Writes
<1>3. CASE k = "remove"
  BY <1>3, WriteType, Constants DEF Effect, Writes, Named
<1>4. CASE k \in {"pair", "retry", "logout"}
  BY <1>4 DEF Effect, backend, Types, ListCall
<1>. QED
  BY <1>1, <1>2, <1>3, <1>4 DEF Kind, ListCall

LEMMA InvServed ==
  ASSUME DashInv, NEW k \in Kind, Served(k)
  PROVE  DashInv'
<1> DEFINE n == IF k \in ListCall THEN writes' ELSE 0
           call == [calls[k] EXCEPT !.at = "done", !.served = n]
<1>1. calls[k] \in CallType /\ writes \in Nat
  BY DEF DashInv, Types
<1>2. /\ table' \in [Phone -> RowType] /\ UNCHANGED device
      /\ writes' \in Nat /\ writes <= writes'
  BY <1>1, EffectType DEF Served, DashInv
<1>3. calls' = [calls EXCEPT ![k] = call]
      /\ UNCHANGED <<contacts, getting, confirmed>>
  BY DEF Served
<1>4. n \in Nat /\ n <= writes' /\ (k \notin ListCall => n = 0)
  BY <1>2
<1>5. call \in CallType /\ call.served = n
  BY <1>1, <1>4 DEF CallType
<1>. HIDE DEF call, n
<1>6. calls' \in [Kind -> CallType] /\ \A j \in Kind : calls'[j] = IF j = k THEN call ELSE calls[j]
  BY <1>3, <1>5 DEF DashInv, Types
<1>7. Types'
  BY <1>2, <1>3, <1>6 DEF DashInv, Types
<1>8. ServedInThePast'
  <2>1. confirmed' <= writes'
    BY <1>1, <1>2, <1>3 DEF DashInv, Types, ServedInThePast
  <2>2. \A j \in Kind : calls[j].served \in Nat /\ calls[j].served <= writes
    BY DEF DashInv, Types, ServedInThePast, CallType
  <2>3. \A j \in Kind : calls'[j].served <= writes'
    BY <1>1, <1>2, <1>4, <1>5, <1>6, <2>2
  <2>4. \A j \in Kind \ ListCall : calls'[j].served = 0
    BY <1>4, <1>5, <1>6 DEF DashInv, ServedInThePast
  <2>. QED
    BY <2>1, <2>3, <2>4 DEF ServedInThePast
<1>. QED
  BY <1>3, <1>7, <1>8 DEF DashInv, AnswerIsNew

\* The answer of a call that is heard drops what was read before it.
LEMMA InvSucceeds ==
  ASSUME DashInv, NEW k \in Kind, Succeeds(k)
  PROVE  DashInv'
<1>1. /\ calls' = [calls EXCEPT ![k] = NoCall]
      /\ confirmed' = (IF calls[k].served > confirmed THEN calls[k].served ELSE confirmed)
      /\ UNCHANGED <<device, table, writes, contacts>>
  BY DEF Succeeds, backend
<1>2. calls' \in [Kind -> CallType] /\ \A j \in Kind : calls'[j] = IF j = k THEN NoCall ELSE calls[j]
  BY <1>1, Constants DEF DashInv, Types
<1>3. calls[k].served \in Nat /\ calls[k].served <= writes
  BY DEF DashInv, Types, CallType, ServedInThePast
<1>4. confirmed' \in Nat /\ confirmed' <= writes'
  BY <1>1, <1>3 DEF DashInv, Types, ServedInThePast
<1>5. ServedInThePast'
  BY <1>1, <1>2, <1>4 DEF DashInv, Types, ServedInThePast, NoCall
<1>6. CASE k = "pair"
  <2>1. UNCHANGED <<getting, confirmed>>
    BY <1>1, <1>6 DEF Succeeds, DashInv, Types, ServedInThePast, Kind, ListCall
  <2>. QED
    BY <1>1, <1>2, <1>4, <1>5, <2>1 DEF DashInv, Types, AnswerIsNew
<1>7. CASE k # "pair"
  <2> DEFINE g == Refetched("contacts", contacts.loaded)
  <2>1. getting' = [contacts |-> g, status |-> Refetched("status", status.loaded)]
    BY <1>7 DEF Succeeds, Invalidated
  <2>2. NoGet("contacts")["contacts"] = [at |-> "no", read |-> NoContacts]
    BY NoGetType DEF DashInv, Query
  <2>3. g \in GetType /\ (contacts.loaded => g.at = "asked")
    BY <2>2, Constants DEF Refetched, GetOf, GetType, DashInv, Types, ListType
  <2>. HIDE DEF g
  <2>. QED
    BY <1>1, <1>2, <1>4, <1>5, <2>1, <2>3 DEF DashInv, Types, AnswerIsNew
<1>. QED
  BY <1>6, <1>7

LEMMA InvElsewhere ==
  ASSUME DashInv, NEW p \in Phone, Elsewhere(p)
  PROVE  DashInv'
<1>1. table[p] \in RowType
  BY DEF DashInv, Types
<1>2. [table[p] EXCEPT !.active = ~@] \in RowType
  BY <1>1 DEF RowType
<1>3. table' \in [Phone -> RowType] /\ writes' = writes + 1
      /\ UNCHANGED <<device, contacts, getting, calls, confirmed>>
  BY <1>2, WriteType, Constants DEF Elsewhere, Writes, DashInv
<1>4. \A k \in Kind : calls[k].served \in Nat
  BY DEF DashInv, Types, CallType
<1>. QED
  BY <1>3, <1>4 DEF DashInv, Types, ServedInThePast, AnswerIsNew

-------------------------------------------------------------------------------
(* The invariant and the properties.                                          *)

LEMMA InvInit == Init => DashInv
<1>. SUFFICES ASSUME Init PROVE DashInv
  OBVIOUS
<1>1. Cardinality(Phone) \in Nat
  BY DashboardAssumption, FS_CardinalityType
<1>2. table \in [Phone -> RowType]
  <2>1. table \in [Phone -> {NoRow} \cup [id : 1..Cardinality(Phone), active : {TRUE}]]
    BY DEF Init, Tables
  <2>2. {NoRow} \cup [id : 1..Cardinality(Phone), active : {TRUE}] \subseteq RowType
    <3>1. \A i \in 1..Cardinality(Phone) : i \in Nat
      BY <1>1
    <3>2. \A r \in [id : 1..Cardinality(Phone), active : {TRUE}] : r \in RowType
      BY <3>1, Zenon DEF RowType
    <3>. QED
      BY <3>2, Constants
  <2>. QED
    BY <2>1, <2>2
<1>3. calls \in [Kind -> CallType] /\ \A k \in Kind : calls[k].served = 0
  BY Constants DEF Init, NoCall
<1>4. getting.contacts = [at |-> "asked", read |-> NoContacts]
      /\ getting = [contacts |-> getting.contacts, status |-> getting.status]
  BY DEF Init
<1>5. getting.contacts \in GetType /\ contacts \in ListType
  BY <1>4, Constants DEF Init, GetType
<1>. QED
  BY <1>1, <1>2, <1>3, <1>4, <1>5
  DEF Init, DashInv, Types, ServedInThePast, AnswerIsNew

LEMMA InvNext == DashInv /\ [Next]_vars => DashInv'
<1>. SUFFICES ASSUME DashInv, [Next]_vars PROVE DashInv'
  OBVIOUS
<1>1. ASSUME NEW q \in Query, GetStep(q) PROVE DashInv'
  BY <1>1, InvPolled, InvRead, InvShownOrLost DEF GetStep
<1>2. ASSUME NEW k \in Kind, CallStep(k) PROVE DashInv'
  BY <1>2, InvServed, InvSucceeds, InvRejectedOrLost DEF CallStep
<1>3. CASE LinkChanges \/ UNCHANGED vars
  BY <1>3 DEF LinkChanges, vars, backend, DashInv, Types, ServedInThePast, AnswerIsNew
<1>. QED
  BY <1>1, <1>2, <1>3, InvClicks, InvElsewhere DEF Next

LEMMA Invariance == Spec => []DashInv
BY InvInit, InvNext, PTL DEF Spec

\* Only the answer of a GET changes the list.
LEMMA OnlyShownChangesList ==
  ASSUME Next, contacts' # contacts
  PROVE  Shown("contacts")
<1>1. \A q \in Query : Polled(q) \/ Read(q) \/ GetLost(q) => contacts' = contacts
  BY DEF Polled, Read, GetLost
<1>2. \A q \in Query : Shown(q) => contacts' = contacts \/ q = "contacts"
  BY DEF Shown, Query
<1>3. \A k \in Kind : CallStep(k) => contacts' = contacts
  BY DEF CallStep, Served, Rejected, Succeeds, CallLost
<1>4. \A p \in Phone : (\E k \in ListCall : Click(k, p)) \/ SubmitForm(p) \/ ClickRetry(p)
                       \/ Elsewhere(p) => contacts' = contacts
  BY DEF Click, SubmitForm, ClickRetry, Elsewhere, Sends
<1>5. ClickPair \/ ClickLogout \/ LinkChanges => contacts' = contacts
  BY DEF ClickPair, ClickLogout, LinkChanges, Sends
<1>. QED
  BY <1>1, <1>2, <1>3, <1>4, <1>5 DEF Next, GetStep

\* A list that is shown has every change the tab was told of, whatever order the requests,
\* the polls and the answers come in.
THEOREM ListHasOwnWrites == Spec => ReadYourWrites
<1>1. DashInv /\ [Next]_vars =>
        [contacts.loaded /\ contacts' # contacts => contacts'.writes >= confirmed]_vars
  <2>. SUFFICES ASSUME DashInv, Next, contacts.loaded, contacts' # contacts
                PROVE  contacts'.writes >= confirmed
    BY DEF vars
  <2>1. Shown("contacts")
    BY OnlyShownChangesList
  <2>2. getting.contacts.at = "read" /\ contacts' = getting.contacts.read
    BY <2>1 DEF Shown, GetOf
  <2>. QED
    BY <2>2 DEF DashInv, AnswerIsNew
<1>. QED
  BY <1>1, Invariance, PTL DEF Spec, ReadYourWrites

-------------------------------------------------------------------------------
(* The age of rows.                                                           *)

LEMMA OldInit == Init => RowsAreOld
<1>. SUFFICES ASSUME Init PROVE RowsAreOld
  OBVIOUS
<1>1. Old(table, writes)
  <2>1. Cardinality(Phone) \in Nat
    BY DashboardAssumption, FS_CardinalityType
  <2>2. ASSUME NEW p \in Phone PROVE table[p].id <= Cardinality(Phone)
    <3>1. table[p] = NoRow \/ table[p] \in [id : 1..Cardinality(Phone), active : {TRUE}]
      BY DEF Init, Tables
    <3>2. CASE table[p] = NoRow
      BY <2>1, <3>2 DEF NoRow
    <3>3. CASE table[p] \in [id : 1..Cardinality(Phone), active : {TRUE}]
      <4>1. PICK i \in 1..Cardinality(Phone) : table[p].id = i
        BY <3>3
      <4>. QED
        BY <2>1, <4>1
    <3>. QED
      BY <3>1, <3>2, <3>3
  <2>. QED
    BY <2>2 DEF Init, Old
<1>2. Old(NoRows, 0)
  BY DEF NoRows, NoRow, Old
<1>3. contacts = NoContacts /\ getting.contacts.read = NoContacts
      /\ \A k \in Kind : calls[k] = NoCall
  BY DEF Init
<1>. QED
  BY <1>1, <1>2, <1>3 DEF RowsAreOld, NoContacts, NoCall, NoRow

LEMMA OldGetStep ==
  ASSUME DashInv, RowsAreOld, NEW q \in Query, GetStep(q)
  PROVE  RowsAreOld'
<1>. USE DEF DashInv
<1>1. UNCHANGED <<table, writes, calls>>
  BY DEF GetStep, Polled, Read, Shown, GetLost, backend
<1>2. Old(NoRows, 0)
  BY DEF NoRows, NoRow, Old
<1>3. CASE Polled(q)
  <2>1. contacts' = contacts /\ getting'.contacts.read = getting.contacts.read
    BY <1>3 DEF Polled, Asked, Types, GetType, Query
  <2>. QED
    BY <1>1, <2>1 DEF RowsAreOld, Old
<1>4. CASE Read(q)
  <2>1. contacts' = contacts
        /\ \/ getting'.contacts = getting.contacts
           \/ getting'.contacts.read.rows = table /\ getting'.contacts.read.writes = writes
    BY <1>4 DEF Read, Types, Query
  <2>. QED
    BY <1>1, <2>1 DEF RowsAreOld, Old
<1>5. CASE Shown(q) \/ GetLost(q)
  <2>1. getting'.contacts = getting.contacts \/ getting'.contacts.read = NoContacts
    BY <1>5 DEF Shown, GetLost, NoGet, Types, Query
  <2>2. contacts' = contacts \/ contacts' = getting.contacts.read
    BY <1>5 DEF Shown, GetLost, Query
  <2>. QED
    BY <1>1, <1>2, <2>1, <2>2 DEF RowsAreOld, Old, NoContacts
<1>. QED
  BY <1>3, <1>4, <1>5 DEF GetStep

\* A new row has the age of its write, any other row keeps the age it had.
LEMMA WriteAge ==
  ASSUME Types, NEW p \in Phone, NEW row \in RowType, row.id \in {0, table[p].id, writes + 1},
         Old(table, writes)
  PROVE  Old([table EXCEPT ![p] = row], writes + 1)
<1>1. \A q \in Phone : table[q] \in RowType /\ table[q].id \in Nat
  BY DEF Types, RowType
<1>2. writes \in Nat /\ \A q \in Phone : table[q].id <= writes + 1
  BY <1>1 DEF Types, Old
<1>3. row.id <= writes + 1
  BY <1>2
<1>4. \A q \in Phone : [table EXCEPT ![p] = row][q] = IF q = p THEN row ELSE table[q]
  BY DEF Types
<1>. QED
  BY <1>2, <1>3, <1>4 DEF Old

LEMMA OldWrites ==
  ASSUME Types, RowsAreOld, NEW p \in Phone,
         \/ Writes(Added(p))
         \/ \E active \in BOOLEAN : Writes(Changed(p, [table[p] EXCEPT !.active = active]))
         \/ Writes(Changed(p, NoRow))
  PROVE  Old(table', writes')
<1>1. table[p] \in RowType /\ writes + 1 \in Nat /\ Old(table, writes)
  BY DEF Types, RowsAreOld
<1>2. CASE Writes(Added(p))
  <2> DEFINE row == [id |-> IF table[p].id = 0 THEN writes + 1 ELSE table[p].id, active |-> TRUE]
  <2>1. row \in RowType /\ row.id \in {0, table[p].id, writes + 1}
    BY <1>1 DEF RowType
  <2>2. table' = [table EXCEPT ![p] = row] /\ writes' = writes + 1
    BY <1>2 DEF Writes, Added
  <2>. QED
    BY <1>1, <2>1, <2>2, WriteAge
<1>3. CASE \E active \in BOOLEAN : Writes(Changed(p, [table[p] EXCEPT !.active = active]))
  <2>1. PICK active \in BOOLEAN : Writes(Changed(p, [table[p] EXCEPT !.active = active]))
    BY <1>3
  <2> DEFINE row == [table[p] EXCEPT !.active = active]
  <2>2. row \in RowType /\ row.id \in {0, table[p].id, writes + 1}
    BY <1>1 DEF RowType
  <2>3. table' = [table EXCEPT ![p] = row] /\ writes' = writes + 1
    BY <2>1 DEF Writes, Changed
  <2>. QED
    BY <1>1, <2>2, <2>3, WriteAge
<1>4. CASE Writes(Changed(p, NoRow))
  BY <1>1, <1>4, WriteAge, Constants DEF Writes, Changed, NoRow
<1>. QED
  BY <1>2, <1>3, <1>4

LEMMA OldEffect ==
  ASSUME DashInv, RowsAreOld, NEW k \in Kind, Effect(k, calls[k])
  PROVE  Old(table', writes')
<1>1. Types /\ calls[k] \in CallType
  BY DEF DashInv, Types
<1>2. calls[k].phone \subseteq Phone /\ (~calls[k].row.active) \in BOOLEAN
      /\ Named(calls[k]) \subseteq Phone
  <2>1. calls[k].phone \subseteq Phone /\ Named(calls[k]) \subseteq Phone
    BY <1>1 DEF CallType, Named
  <2>2. (~calls[k].row.active) \in BOOLEAN
    OBVIOUS
  <2>. QED
    BY <2>1, <2>2
<1>3. CASE k = "add"
  BY <1>1, <1>2, <1>3, OldWrites DEF Effect
<1>4. CASE k = "toggle"
  BY <1>1, <1>2, <1>4, OldWrites DEF Effect
<1>5. CASE k = "remove"
  BY <1>1, <1>2, <1>5, OldWrites DEF Effect
<1>6. CASE k \in {"pair", "retry", "logout"}
  BY <1>6 DEF Effect, backend, RowsAreOld, Old
<1>. QED
  BY <1>3, <1>4, <1>5, <1>6 DEF Kind, ListCall

LEMMA OldCallStep ==
  ASSUME DashInv, RowsAreOld, NEW k \in Kind, CallStep(k)
  PROVE  RowsAreOld'
<1>. USE DEF DashInv
<1>1. contacts' = contacts
  BY DEF CallStep, Served, Rejected, Succeeds, CallLost
<1>2. Old(table, writes)'
  <2>1. CASE Served(k)
    BY <2>1, OldEffect DEF Served, Old
  <2>2. CASE Rejected(k) \/ Succeeds(k) \/ CallLost(k)
    BY <2>2 DEF Rejected, Succeeds, CallLost, backend, RowsAreOld, Old
  <2>. QED
    BY <2>1, <2>2 DEF CallStep
<1>3. Old(getting.contacts.read.rows, getting.contacts.read.writes)'
  <2>1. Old(NoRows, 0)
    BY DEF NoRows, NoRow, Old
  <2>2. getting' = getting \/ getting'.contacts = Refetched("contacts", contacts.loaded)
    BY DEF CallStep, Served, Rejected, Succeeds, CallLost, Invalidated
  <2>3. NoGet("contacts")["contacts"] = [at |-> "no", read |-> NoContacts]
    BY DEF NoGet, Types
  <2>4. getting'.contacts = getting.contacts \/ getting'.contacts.read = NoContacts
    BY <2>2, <2>3 DEF Refetched
  <2>. QED
    BY <2>1, <2>4 DEF RowsAreOld, Old, NoContacts
<1>4. \A j \in Kind : calls'[j].row.id <= calls'[j].seen
  <2>1. \A j \in Kind : \/ calls'[j].row = calls[j].row /\ calls'[j].seen = calls[j].seen
                        \/ calls'[j] = NoCall
    BY DEF CallStep, Served, Rejected, Succeeds, CallLost, Types, CallType
  <2>. QED
    BY <2>1 DEF RowsAreOld, NoCall, NoRow
<1>. QED
  BY <1>1, <1>2, <1>3, <1>4 DEF RowsAreOld

LEMMA OldClicks ==
  ASSUME DashInv, RowsAreOld,
         NEW k \in Kind, NEW call \in CallType, OfTheList(call), Sends(k, call)
  PROVE  RowsAreOld'
<1>1. \A j \in Kind : calls'[j] = IF j = k THEN call ELSE calls[j]
  BY DEF Sends, DashInv, Types
<1>2. UNCHANGED <<table, writes, contacts, getting>>
  BY DEF Sends, backend
<1>. QED
  BY <1>1, <1>2 DEF RowsAreOld, OfTheList, Old

LEMMA OldElsewhere ==
  ASSUME DashInv, RowsAreOld, NEW p \in Phone, Elsewhere(p)
  PROVE  RowsAreOld'
<1>1. (~table[p].active) \in BOOLEAN
  OBVIOUS
<1>2. Old(table', writes')
  BY <1>1, OldWrites DEF Elsewhere, DashInv
<1>. QED
  BY <1>2 DEF Elsewhere, RowsAreOld, Old

LEMMA OldNext == DashInv /\ RowsAreOld /\ [Next]_vars => RowsAreOld'
<1>. SUFFICES ASSUME DashInv, RowsAreOld, [Next]_vars PROVE RowsAreOld'
  OBVIOUS
<1>1. ASSUME \/ \E p \in Phone : (\E k \in ListCall : Click(k, p)) \/ SubmitForm(p) \/ ClickRetry(p)
             \/ ClickPair \/ ClickLogout
      PROVE  RowsAreOld'
  BY <1>1, OldClicks, ClickSends DEF DashInv
<1>2. CASE LinkChanges \/ UNCHANGED vars
  BY <1>2 DEF LinkChanges, vars, backend, RowsAreOld, Old
<1>. QED
  BY <1>1, <1>2, OldGetStep, OldCallStep, OldElsewhere DEF Next

LEMMA OldInvariance == Spec => []RowsAreOld
BY OldInit, OldNext, Invariance, PTL DEF Spec

\* A switch or a bin reaches no row that was made after the list it was clicked on was read,
\* however stale the list and however late the call: the row of a number that was removed and
\* chosen again is newer than every list that shows the old one.
THEOREM StaleClicksHarmless == Spec => OldRowHarmless
<1> DEFINE Spared(k) == \A p \in Phone : table'[p] # table[p] => table[p].id <= calls[k].seen
<1>1. ASSUME DashInv, RowsAreOld, NEW k \in {"toggle", "remove"}, Served(k)
      PROVE  Spared(k)
  <2>1. PICK q \in Named(calls[k]) : \E row : table' = Changed(q, row)
    BY <1>1 DEF Served, Effect, Writes
  <2>2. table[q].id <= calls[k].seen
    BY <1>1 DEF Named, RowsAreOld, Kind, ListCall
  <2>3. \A p \in Phone : p # q => table'[p] = table[p]
    BY <1>1, <2>1 DEF Changed, DashInv, Types, Named
  <2>. QED
    BY <2>2, <2>3
<1>2. DashInv /\ RowsAreOld /\ [Next]_vars =>
        [\A k \in {"toggle", "remove"} : Served(k) => Spared(k)]_vars
  BY <1>1
<1>. QED
  BY <1>2, Invariance, OldInvariance, PTL DEF Spec, OldRowHarmless

-------------------------------------------------------------------------------
(* The types and bounds of TypeOK.                                            *)

StatusGet == [at : {"no", "asked", "read"}, read : StatusType]

\* What the page knows of the link.
LinkInv == link \in LinkType /\ status \in StatusType /\ getting.status \in StatusGet

Owed(k) == IF calls[k].at = "sent" THEN 1 ELSE 0

\* A call of the list that is under way has had its click and owes its write; no list is
\* newer than the table.
Budget ==
  /\ acts \in 0..MaxActs /\ faults \in 0..MaxFaults
  /\ writes + Owed("add") + Owed("toggle") + Owed("remove") <= Cardinality(Phone) + acts
  /\ contacts.writes <= writes /\ getting.contacts.read.writes <= writes

LEMMA PhoneCount == Cardinality(Phone) \in Nat
BY DashboardAssumption, FS_CardinalityType

LEMMA ActiveType == ASSUME NEW rows PROVE Active(rows) \in 0..Cardinality(Phone)
<1> DEFINE S == {p \in Phone : rows[p].active}
<1>1. S \subseteq Phone
  OBVIOUS
<1>. HIDE DEF S
<1>2. IsFiniteSet(S) /\ Cardinality(S) <= Cardinality(Phone)
  BY <1>1, DashboardAssumption, FS_Subset
<1>3. Cardinality(S) \in Nat
  BY <1>2, FS_CardinalityType
<1>4. Cardinality(S) \in 0..Cardinality(Phone)
  BY <1>2, <1>3, PhoneCount
<1>. QED
  BY <1>4 DEF S, Active

\* Where only a query moves, what the calls owe stays.
LEMMA QuietCalls ==
  ASSUME Budget, Types, UNCHANGED <<acts, writes, calls>>, faults' \in 0..MaxFaults,
         contacts'.writes <= writes, getting'.contacts.read.writes <= writes
  PROVE  Budget'
BY DEF Budget, Owed

LEMMA FaultType == ASSUME Budget, Fault PROVE faults' \in 0..MaxFaults
BY DashboardAssumption DEF Budget, Fault

LEMMA ActType == ASSUME Budget, Act PROVE acts' = acts + 1 /\ acts' \in 0..MaxActs
BY DashboardAssumption DEF Budget, Act

LEMMA StatusSet ==
  ASSUME Types, LinkInv, NEW q \in Query, NEW g, q = "status" => g \in StatusGet,
         getting' = [getting EXCEPT ![q] = g]
  PROVE  getting'.status \in StatusGet
BY DEF Types, Query, LinkInv

LEMMA GetStepTypes ==
  ASSUME DashInv, LinkInv, Budget, NEW q \in Query, GetStep(q)
  PROVE  LinkInv' /\ Budget'
<1>. USE DEF DashInv
<1>1. UNCHANGED <<acts, link, writes, table, device, calls>>
  BY DEF GetStep, Polled, Read, Shown, GetLost, backend
<1>2. faults' \in 0..MaxFaults
  BY FaultType DEF GetStep, Polled, Read, Shown, GetLost, Budget
<1>3. CASE Polled(q)
  <2> DEFINE g == [getting[q] EXCEPT !.at = "asked"]
  <2>1. getting' = [getting EXCEPT ![q] = g] /\ UNCHANGED <<contacts, status>>
    BY <1>3 DEF Polled, Asked
  <2>2. q = "contacts" => g \in GetType /\ g.read.writes = getting.contacts.read.writes
    BY DEF Types, GetType
  <2>3. q = "status" => g \in StatusGet
    BY DEF LinkInv, StatusGet
  <2>. HIDE DEF g
  <2>4. getting'.contacts = (IF q = "contacts" THEN g ELSE getting.contacts)
    BY <2>1, <2>2, GetSet
  <2>. QED
    BY <1>1, <1>2, <2>1, <2>2, <2>3, <2>4, StatusSet, QuietCalls DEF LinkInv, Budget
<1>4. CASE Read(q)
  <2> DEFINE list == [loaded |-> TRUE, rows |-> table, device |-> device, writes |-> writes]
             seen == [loaded |-> TRUE, link |-> link, active |-> Active(table)]
             g == [at |-> "read", read |-> IF q = "contacts" THEN list ELSE seen]
  <2>1. getting' = [getting EXCEPT ![q] = g] /\ UNCHANGED <<contacts, status>>
    BY <1>4 DEF Read
  <2>2. q = "contacts" => g \in GetType /\ g.read.writes = writes
    BY DEF Types, GetType, ListType
  <2>3. q = "status" => g \in StatusGet
    <3>1. seen \in StatusType
      BY ActiveType DEF LinkInv, StatusType
    <3>. QED
      BY <3>1 DEF StatusGet
  <2>. HIDE DEF g
  <2>4. getting'.contacts = (IF q = "contacts" THEN g ELSE getting.contacts)
    BY <2>1, <2>2, GetSet
  <2>5. writes \in Nat
    BY DEF Types
  <2>. QED
    BY <1>1, <1>2, <2>1, <2>2, <2>3, <2>4, <2>5, StatusSet, QuietCalls DEF LinkInv, Budget
<1>5. CASE Shown(q) \/ GetLost(q)
  <2> DEFINE g == NoGet(q)[q]
  <2>1. getting' = [getting EXCEPT ![q] = g]
    BY <1>5, NoGetType DEF Shown, GetLost
  <2>2. q = "contacts" => g \in GetType /\ g.read.writes = 0
    BY NoGetType DEF NoContacts
  <2>3. q = "status" => g \in StatusGet
    <3>1. NoStatus \in StatusType
      BY PhoneCount DEF NoStatus, NoLink, LinkType, StatusType
    <3>2. q = "status" => g = [at |-> "no", read |-> NoStatus]
      BY DEF NoGet, Types
    <3>. QED
      BY <3>1, <3>2 DEF StatusGet
  <2>. HIDE DEF g
  <2>4. getting'.contacts = (IF q = "contacts" THEN g ELSE getting.contacts)
    BY <2>1, <2>2, GetSet
  <2>5. status' \in StatusType
    BY <1>5 DEF Shown, GetLost, LinkInv, StatusGet, Query
  <2>6. contacts'.writes <= writes
    BY <1>5 DEF Shown, GetLost, Budget, Query
  <2>7. writes \in Nat
    BY DEF Types
  <2>. QED
    BY <1>1, <1>2, <2>1, <2>2, <2>3, <2>4, <2>5, <2>6, <2>7, StatusSet, QuietCalls
    DEF LinkInv, Budget
<1>. QED
  BY <1>3, <1>4, <1>5 DEF GetStep

\* What a call owes is nothing or one write.
LEMMA OwedType == \A k \in Kind : Owed(k) \in {0, 1}
BY DEF Owed

\* One call changes, and with it only what it owes.
LEMMA OwedSet ==
  ASSUME Types, NEW k \in Kind, NEW call \in CallType, calls' = [calls EXCEPT ![k] = call]
  PROVE  /\ \A j \in Kind : Owed(j)' = IF j # k THEN Owed(j)
                                      ELSE IF call.at = "sent" THEN 1 ELSE 0
         /\ \A j \in Kind : Owed(j) \in {0, 1} /\ Owed(j)' \in {0, 1}
<1>1. \A j \in Kind : calls'[j] = IF j = k THEN call ELSE calls[j]
  BY DEF Types
<1>2. \A j \in Kind : Owed(j)' = IF calls'[j].at = "sent" THEN 1 ELSE 0
  BY DEF Owed
<1>. QED
  BY <1>1, <1>2 DEF Owed

LEMMA ClicksBudget ==
  ASSUME DashInv, LinkInv, Budget, NEW k \in Kind, NEW call \in CallType, Sends(k, call)
  PROVE  LinkInv' /\ Budget'
<1>1. UNCHANGED <<faults, writes, link, contacts, status, getting>>
      /\ calls' = [calls EXCEPT ![k] = call]
  BY DEF Sends, backend
<1>2. acts \in Nat /\ acts' = acts + 1 /\ acts' \in 0..MaxActs
  BY ActType DEF Sends, Budget
<1>3. \A j \in Kind : Owed(j) \in {0, 1} /\ Owed(j)' \in {0, 1} /\ (j # k => Owed(j)' = Owed(j))
  BY <1>1, OwedSet DEF DashInv
<1> DEFINE a == Owed("add") b == Owed("toggle") c == Owed("remove")
           x == Owed("add")' y == Owed("toggle")' z == Owed("remove")'
<1>4. /\ a \in {0, 1} /\ b \in {0, 1} /\ c \in {0, 1} /\ x \in {0, 1} /\ y \in {0, 1} /\ z \in {0, 1}
      /\ (x = a /\ y = b) \/ (x = a /\ z = c) \/ (y = b /\ z = c)
  BY <1>3 DEF Kind, ListCall
<1>5. writes + a + b + c <= Cardinality(Phone) + acts /\ writes \in Nat
  BY DEF Budget, DashInv, Types
<1>6. writes + x + y + z <= Cardinality(Phone) + (acts + 1)
  <2>. HIDE DEF a, b, c, x, y, z
  <2>. QED
    BY <1>2, <1>4, <1>5, PhoneCount
<1>7. writes' + Owed("add")' + Owed("toggle")' + Owed("remove")' <= Cardinality(Phone) + acts'
  BY <1>1, <1>2, <1>6
<1>. QED
  BY <1>1, <1>2, <1>7 DEF LinkInv, Budget

\* No call was clicked on a list to come.
SeenInThePast == \A k \in Kind : calls[k].seen <= writes

LEMMA SeenNext == DashInv /\ Budget /\ SeenInThePast /\ [Next]_vars => SeenInThePast'
<1>. SUFFICES ASSUME DashInv, Budget, SeenInThePast, [Next]_vars PROVE SeenInThePast'
  OBVIOUS
<1>1. writes \in Nat /\ contacts.writes \in Nat /\ contacts.writes <= writes
      /\ \A k \in Kind : calls[k].seen \in Nat
  BY DEF DashInv, Types, ListType, CallType, Budget
<1>2. ASSUME NEW q \in Query, GetStep(q) PROVE SeenInThePast'
  BY <1>2 DEF GetStep, Polled, Read, Shown, GetLost, backend, SeenInThePast
<1>3. ASSUME NEW k \in Kind, CallStep(k) PROVE SeenInThePast'
  <2>1. writes' \in Nat /\ writes <= writes'
    <3>1. calls[k] \in CallType
      BY DEF DashInv, Types
    <3>. QED
      BY <1>1, <1>3, <3>1, EffectType
      DEF CallStep, Served, Rejected, Succeeds, CallLost, backend, DashInv
  <2>2. \A j \in Kind : calls'[j].seen \in {0, calls[j].seen}
    BY <1>3 DEF CallStep, Served, Rejected, Succeeds, CallLost, DashInv, Types, CallType, NoCall
  <2>. QED
    BY <1>1, <2>1, <2>2 DEF SeenInThePast
<1>4. ASSUME \/ \E p \in Phone : (\E k \in ListCall : Click(k, p)) \/ SubmitForm(p) \/ ClickRetry(p)
             \/ ClickPair \/ ClickLogout
      PROVE  SeenInThePast'
  <2>1. PICK k \in Kind, call \in CallType : OfTheList(call) /\ Sends(k, call)
    BY <1>4, ClickSends DEF DashInv
  <2>2. writes' = writes /\ \A j \in Kind : calls'[j] = IF j = k THEN call ELSE calls[j]
    BY <2>1 DEF Sends, backend, DashInv, Types
  <2>. QED
    BY <1>1, <2>1, <2>2 DEF SeenInThePast, OfTheList
<1>5. ASSUME NEW p \in Phone, Elsewhere(p) PROVE SeenInThePast'
  BY <1>1, <1>5 DEF Elsewhere, Writes, SeenInThePast
<1>6. CASE LinkChanges \/ UNCHANGED vars
  BY <1>6 DEF LinkChanges, vars, backend, SeenInThePast
<1>. QED
  BY <1>2, <1>3, <1>4, <1>5, <1>6 DEF Next

\* A call that is served pays what it owed; one that ends owes nothing.
LEMMA CallsBudget ==
  ASSUME DashInv, LinkInv, Budget, NEW k \in Kind, CallStep(k)
  PROVE  LinkInv' /\ Budget'
<1> DEFINE a == Owed("add") b == Owed("toggle") c == Owed("remove")
           x == Owed("add")' y == Owed("toggle")' z == Owed("remove")'
<1>1. calls[k] \in CallType /\ writes \in Nat
  BY DEF DashInv, Types
<1>2. acts' = acts /\ acts \in 0..MaxActs /\ contacts' = contacts /\ faults' \in 0..MaxFaults
      /\ status' = status /\ link' = link
  <2>1. CASE Served(k)
    <3>1. UNCHANGED link
      BY <2>1 DEF Served, Effect, Kind, ListCall, backend
    <3>. QED
      BY <2>1, <3>1 DEF Served, Budget
  <2>2. CASE Rejected(k) \/ Succeeds(k)
    BY <2>2 DEF Rejected, Succeeds, Budget, backend
  <2>3. CASE CallLost(k)
    BY <2>3, FaultType DEF CallLost, Budget, backend
  <2>. QED
    BY <2>1, <2>2, <2>3 DEF CallStep
<1>3. /\ writes' \in Nat /\ writes <= writes'
      /\ writes' + x + y + z <= writes + a + b + c
  <2>1. CASE Served(k)
    <3> DEFINE n == IF k \in ListCall THEN writes' ELSE 0
               call == [calls[k] EXCEPT !.at = "done", !.served = n]
    <3>1. writes' = writes + 1 \/ (writes' = writes /\ k \notin ListCall)
      BY <1>1, <2>1, EffectType DEF Served, DashInv
    <3>2. calls' = [calls EXCEPT ![k] = call]
      BY <2>1 DEF Served
    <3>3. n \in Nat
      BY <1>1, <3>1
    <3>4. call \in CallType /\ call.at = "done"
      BY <1>1, <3>3 DEF CallType
    <3>. HIDE DEF call, n
    <3>5. \A j \in Kind : Owed(j) \in {0, 1} /\ Owed(j)' = IF j = k THEN 0 ELSE Owed(j)
      BY <3>2, <3>4, OwedSet DEF DashInv
    <3>6. Owed(k) = 1
      BY <2>1 DEF Served, Owed
    <3>7. \/ writes' = writes /\ x = a /\ y = b /\ z = c
          \/ /\ writes' = writes + 1
             /\ \/ a = 1 /\ x = 0 /\ y = b /\ z = c
                \/ b = 1 /\ y = 0 /\ x = a /\ z = c
                \/ c = 1 /\ z = 0 /\ x = a /\ y = b
      <4>1. CASE k \in ListCall
        BY <2>1, <3>1, <3>5, <3>6, <4>1 DEF ListCall, Kind
      <4>2. CASE k \notin ListCall
        <5>1. writes' = writes
          BY <2>1, <4>2 DEF Served, Effect, Kind, ListCall, backend
        <5>. QED
          BY <3>5, <4>2, <5>1 DEF ListCall, Kind
      <4>. QED
        BY <4>1, <4>2
    <3>8. a \in {0, 1} /\ b \in {0, 1} /\ c \in {0, 1}
      BY <3>5 DEF Kind, ListCall
    <3>. HIDE DEF a, b, c, x, y, z
    <3>. QED
      BY <1>1, <3>7, <3>8
  <2>2. CASE Rejected(k) \/ Succeeds(k) \/ CallLost(k)
    <3>1. calls' = [calls EXCEPT ![k] = NoCall] /\ writes' = writes
      BY <2>2 DEF Rejected, Succeeds, CallLost, backend
    <3>2. \A j \in Kind : Owed(j) \in {0, 1} /\ Owed(j)' = IF j = k THEN 0 ELSE Owed(j)
      <4>1. NoCall \in CallType /\ NoCall.at = "no"
        BY Constants DEF NoCall
      <4>. QED
        BY <3>1, <4>1, OwedSet DEF DashInv
    <3>3. /\ a \in {0, 1} /\ b \in {0, 1} /\ c \in {0, 1}
          /\ x \in {0, a} /\ y \in {0, b} /\ z \in {0, c}
      BY <3>2 DEF Kind, ListCall
    <3>. HIDE DEF a, b, c, x, y, z
    <3>. QED
      BY <1>1, <3>1, <3>3
  <2>. QED
    BY <2>1, <2>2 DEF CallStep
<1>4. getting'.contacts.read.writes <= writes' /\ getting'.status \in StatusGet
  <2>1. getting.contacts.read.writes \in Nat /\ getting.contacts.read.writes <= writes
    BY DEF DashInv, Types, GetType, ListType, Budget
  <2>2. CASE UNCHANGED getting
    BY <1>1, <1>3, <2>1, <2>2 DEF LinkInv
  <2>3. CASE Succeeds(k) /\ k # "pair"
    <3> DEFINE g == Refetched("contacts", contacts.loaded)
               h == Refetched("status", status.loaded)
    <3>1. getting' = [contacts |-> g, status |-> h]
      BY <2>3 DEF Succeeds, Invalidated
    <3>2. NoGet("contacts")["contacts"] = [at |-> "no", read |-> NoContacts]
          /\ NoGet("status")["status"] = [at |-> "no", read |-> NoStatus]
      BY DEF NoGet, DashInv, Types
    <3>3. NoStatus \in StatusType
      BY PhoneCount DEF NoStatus, NoLink, LinkType, StatusType
    <3>4. g = getting.contacts \/ g.read.writes = 0
      BY <3>2 DEF Refetched, NoContacts
    <3>5. h \in StatusGet
      BY <3>2, <3>3 DEF Refetched, LinkInv, StatusGet
    <3>. HIDE DEF g, h
    <3>. QED
      BY <1>1, <1>3, <2>1, <3>1, <3>4, <3>5
  <2>4. Succeeds(k) /\ k = "pair" => UNCHANGED getting
    BY DEF Succeeds
  <2>5. Served(k) \/ Rejected(k) \/ CallLost(k) => UNCHANGED getting
    BY DEF Served, Rejected, CallLost
  <2>. QED
    BY <2>2, <2>3, <2>4, <2>5 DEF CallStep
<1>5. contacts'.writes <= writes'
  BY <1>1, <1>2, <1>3 DEF Budget, DashInv, Types, ListType
<1>6. writes' + x + y + z <= Cardinality(Phone) + acts'
  <2>1. writes + a + b + c <= Cardinality(Phone) + acts
    BY DEF Budget
  <2>2. a \in Int /\ b \in Int /\ c \in Int /\ x \in Int /\ y \in Int /\ z \in Int
    BY DEF Owed
  <2>. HIDE DEF a, b, c, x, y, z
  <2> DEFINE s == writes + a + b + c
             t == writes' + x + y + z
  <2>3. s \in Int /\ t \in Int
    BY <1>1, <1>3, <2>2
  <2>4. t <= s
    BY <1>3
  <2>5. s <= Cardinality(Phone) + acts
    BY <2>1
  <2>. HIDE DEF s, t
  <2>6. t <= Cardinality(Phone) + acts
    BY <1>2, <2>3, <2>4, <2>5, PhoneCount
  <2>. QED
    BY <1>2, <2>6 DEF t
<1>. QED
  BY <1>2, <1>4, <1>5, <1>6 DEF LinkInv, Budget

\* Another tab's write and a change of the link have their act.
LEMMA OthersBudget ==
  ASSUME DashInv, LinkInv, Budget, LinkChanges \/ \E p \in Phone : Elsewhere(p)
  PROVE  LinkInv' /\ Budget'
<1>1. UNCHANGED <<faults, contacts, status, getting, calls>> /\ writes' \in {writes, writes + 1}
  BY DEF LinkChanges, Elsewhere, Writes
<1>2. acts \in Nat /\ acts' = acts + 1 /\ acts' \in 0..MaxActs
  <2>1. Act
    BY DEF LinkChanges, Elsewhere
  <2>. QED
    BY <2>1, ActType DEF Budget
<1>3. link' \in LinkType
  <2>1. CASE LinkChanges
    BY <2>1 DEF LinkChanges, LinkInv, LinkType
  <2>2. CASE \E p \in Phone : Elsewhere(p)
    BY <2>2 DEF Elsewhere, LinkInv
  <2>. QED
    BY <2>1, <2>2
<1>4. \A k \in Kind : Owed(k)' = Owed(k) /\ Owed(k) \in {0, 1}
  BY <1>1 DEF Owed
<1>5. writes \in Nat /\ contacts.writes \in Nat /\ getting.contacts.read.writes \in Nat
  BY DEF DashInv, Types, ListType, GetType
<1>6. contacts'.writes <= writes' /\ getting'.contacts.read.writes <= writes'
  BY <1>1, <1>5 DEF Budget
<1> DEFINE a == Owed("add") b == Owed("toggle") c == Owed("remove")
<1>7. writes' + a + b + c <= Cardinality(Phone) + acts'
  <2>1. writes + a + b + c <= Cardinality(Phone) + acts
    BY DEF Budget
  <2>2. a \in {0, 1} /\ b \in {0, 1} /\ c \in {0, 1}
    BY <1>4 DEF Kind, ListCall
  <2>. HIDE DEF a, b, c
  <2>. QED
    BY <1>1, <1>2, <1>5, <2>1, <2>2, PhoneCount
<1>8. Owed("add")' = a /\ Owed("toggle")' = b /\ Owed("remove")' = c
  BY <1>4 DEF Kind, ListCall
<1>. QED
  BY <1>1, <1>2, <1>3, <1>6, <1>7, <1>8 DEF LinkInv, Budget

LEMMA TypesInit == Init => LinkInv /\ Budget
<1>. SUFFICES ASSUME Init PROVE LinkInv /\ Budget
  OBVIOUS
<1>1. NoLink \in LinkType /\ NoStatus \in StatusType
  BY PhoneCount DEF NoStatus, NoLink, LinkType, StatusType
<1>2. link = NoLink /\ status = NoStatus /\ getting.status = [at |-> "asked", read |-> NoStatus]
  BY DEF Init
<1>3. LinkInv
  BY <1>1, <1>2 DEF LinkInv, StatusGet
<1>4. acts = 0 /\ faults = 0 /\ writes = Cardinality(Phone)
      /\ contacts.writes = 0 /\ getting.contacts.read.writes = 0
  BY DEF Init, NoContacts
<1>5. Owed("add") = 0 /\ Owed("toggle") = 0 /\ Owed("remove") = 0
  BY DEF Init, Owed, NoCall, Kind, ListCall
<1>. QED
  BY <1>3, <1>4, <1>5, PhoneCount, DashboardAssumption DEF Budget

LEMMA TypesNext == DashInv /\ LinkInv /\ Budget /\ [Next]_vars => LinkInv' /\ Budget'
<1>. SUFFICES ASSUME DashInv, LinkInv, Budget, [Next]_vars PROVE LinkInv' /\ Budget'
  OBVIOUS
<1>1. ASSUME NEW k \in Kind, NEW call \in CallType, Sends(k, call) PROVE LinkInv' /\ Budget'
  BY <1>1, ClicksBudget
<1>2. ASSUME \/ \E p \in Phone : (\E k \in ListCall : Click(k, p)) \/ SubmitForm(p) \/ ClickRetry(p)
             \/ ClickPair \/ ClickLogout
      PROVE  LinkInv' /\ Budget'
  BY <1>1, <1>2, ClickSends DEF DashInv
<1>3. CASE UNCHANGED vars
  BY <1>3 DEF vars, LinkInv, Budget, Owed
<1>. QED
  BY <1>2, <1>3, GetStepTypes, CallsBudget, OthersBudget DEF Next

LEMMA TypesHold == DashInv /\ LinkInv /\ Budget /\ SeenInThePast => TypeOK
<1>. SUFFICES ASSUME DashInv, LinkInv, Budget, SeenInThePast PROVE TypeOK
  OBVIOUS
<1>. USE DEF DashInv
<1>1. writes \in 0..MaxWrites
  <2>1. writes \in Nat /\ Owed("add") \in {0, 1} /\ Owed("toggle") \in {0, 1}
        /\ Owed("remove") \in {0, 1}
    BY OwedType DEF Types, Kind, ListCall
  <2>. QED
    BY <2>1, PhoneCount, DashboardAssumption DEF Budget, MaxWrites
<1>2. \A n \in Nat : n <= writes => n \in 0..MaxWrites
  BY <1>1, PhoneCount, DashboardAssumption DEF MaxWrites
<1>3. \A c \in ListType : c.writes <= writes => c \in ContactsType
  BY <1>2 DEF ListType, ContactsType, RowsType, RowType
<1>4. contacts \in ContactsType
  BY <1>3 DEF Types, Budget
<1>5. getting \in [contacts : [at : {"no", "asked", "read"}, read : ContactsType],
                  status : [at : {"no", "asked", "read"}, read : StatusType]]
  <2>1. getting.contacts.read \in ListType
    BY DEF Types, GetType
  <2>2. getting.contacts.read \in ContactsType
    BY <1>3, <2>1 DEF Budget
  <2>3. getting.contacts \in [at : {"no", "asked", "read"}, read : ContactsType]
    BY <2>2 DEF Types, GetType
  <2>. QED
    BY <2>3 DEF Types, LinkInv, StatusGet
<1>6. \A k \in Kind : calls[k] \in [at : {"no", "sent", "done"}, phone : SUBSET Phone,
                                   row : [id : Nat, active : BOOLEAN],
                                   seen : 0..MaxWrites, served : 0..MaxWrites]
  <2>. SUFFICES ASSUME NEW k \in Kind
                PROVE  calls[k] \in [at : {"no", "sent", "done"}, phone : SUBSET Phone,
                                   row : [id : Nat, active : BOOLEAN],
                                   seen : 0..MaxWrites, served : 0..MaxWrites]
    OBVIOUS
  <2>1. calls[k] \in CallType /\ calls[k].served <= writes /\ calls[k].seen <= writes
    BY DEF Types, ServedInThePast, SeenInThePast
  <2>2. calls[k].served \in 0..MaxWrites /\ calls[k].seen \in 0..MaxWrites
    BY <1>2, <2>1 DEF CallType
  <2>. QED
    BY <2>1, <2>2 DEF CallType, RowType
<1>7. confirmed \in 0..MaxWrites
  BY <1>2 DEF Types, ServedInThePast
<1>8. calls \in [Kind -> [at : {"no", "sent", "done"}, phone : SUBSET Phone,
                         row : [id : Nat, active : BOOLEAN],
                         seen : 0..MaxWrites, served : 0..MaxWrites]]
  BY <1>6 DEF Types
<1>9. acts \in 0..MaxActs /\ faults \in 0..MaxFaults /\ device \subseteq Phone
      /\ table \in RowsType /\ link \in LinkType /\ status \in StatusType
  BY DEF Budget, Types, LinkInv, RowsType, RowType
<1>. QED
  BY <1>1, <1>4, <1>5, <1>7, <1>8, <1>9 DEF TypeOK

\* Every variable keeps its type: each change of the table is one the tab clicked for or
\* another tab made, no answer, read or call knows of a change that was not made, and the
\* counts on the page are counts of people.
THEOREM DashboardTypeCorrect == Spec => []TypeOK
<1>1. Spec => [](LinkInv /\ Budget)
  BY TypesInit, TypesNext, Invariance, PTL DEF Spec
<1>2. Init => SeenInThePast
  BY PhoneCount DEF Init, NoCall, SeenInThePast
<1>3. Spec => []SeenInThePast
  BY <1>1, <1>2, SeenNext, Invariance, PTL DEF Spec
<1>. QED
  BY <1>1, <1>3, Invariance, TypesHold, PTL
===============================================================================
