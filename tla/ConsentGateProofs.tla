--------------------------- MODULE ConsentGateProofs ---------------------------
(* Proofs about ConsentGate for every set of numbers, chats and messages:  *)
(* the types, the silence after a withdrawal the connector has heard of,   *)
(* and the refinement of Consent.                                          *)
EXTENDS ConsentGate, TLAPS

LEMMA TypeInit == ASSUME GateAssumption PROVE Init => TypeOK
  <1> SUFFICES ASSUME Init PROVE TypeOK
    OBVIOUS
  <1>1. lapse \in [Phone -> {"none", "unheard", "asked", "heard"}]
    BY DEF Init
  <1>2. poll \in [state : {"idle", "asked", "answered"}, phones : SUBSET Phone]
    BY DEF Init, IdlePoll
  <1>3. tries \in 0 .. Attempts
    BY DEF Init, GateAssumption
  <1> QED BY <1>1, <1>2, <1>3 DEF Init, TypeOK

LEMMA FilterLetsOutNumbers ==
  ASSUME GateAssumption, TypeOK, NEW kind \in {"ingested", "deleted"},
         NEW m \in Message, NEW known, ForwardIfAllowed(kind, m, known)
  PROVE  /\ wire' \subseteq Event
         /\ \A e \in wire' \ wire : e.to \in phones /\ e.to = OwnerOf[e.msg]
  <1> DEFINE p == JidForKey(ChatOf[m], known)
  <1>1. CASE Check(p)
    <2>1. p \in phones /\ phones \subseteq Phone
      BY <1>1 DEF Check, TypeOK
    <2>2. p = Owner[ChatOf[m]]
      BY <2>1 DEF JidForKey, GateAssumption
    <2>3. wire' = wire \cup {[kind |-> kind, msg |-> m, to |-> p]}
      BY <1>1 DEF ForwardIfAllowed
    <2>4. [kind |-> kind, msg |-> m, to |-> p] \in Event
      BY <2>1 DEF Event
    <2> QED BY <2>1, <2>2, <2>3, <2>4 DEF TypeOK, OwnerOf
  <1>2. CASE ~Check(p)
    BY <1>2 DEF ForwardIfAllowed, TypeOK
  <1> QED BY <1>1, <1>2

LEMMA TypeStep == ASSUME GateAssumption, TypeOK, [Next]_vars PROVE TypeOK'
  <1> USE DEF TypeOK
  <1>1. ASSUME NEW p \in Phone, AddAllowedContact(p) PROVE TypeOK'
    BY <1>1 DEF AddAllowedContact, connector, backend
  <1>2. ASSUME NEW p \in Phone, NEW active \in BOOLEAN, SetAllowedContactActive(p, active)
        PROVE TypeOK'
    BY <1>2 DEF SetAllowedContactActive, Withdrawn, connector, backend
  <1>3. ASSUME NEW p \in Phone, DeleteAllowedContact(p) PROVE TypeOK'
    BY <1>3 DEF DeleteAllowedContact, Withdrawn, connector, backend
  <1>4. CASE FetchCommands
    BY <1>4 DEF FetchCommands, connector, backend
  <1>5. CASE ActivePhones
    BY <1>5 DEF ActivePhones, Active, connector, backend
  <1>6. CASE FetchFails
    BY <1>6 DEF FetchFails, IdlePoll, Unheard, backend, GateAssumption
  <1>7. CASE PollDone
    BY <1>7 DEF PollDone, IdlePoll, Replace, backend
  <1>8. CASE StartSocket
    BY <1>8 DEF StartSocket, backend
  <1>9. ASSUME NEW c \in Chat, NoteLid(c) PROVE TypeOK'
    BY <1>9 DEF NoteLid, Tellable, backend
  <1>10. ASSUME NEW m \in Message, ForwardMessage(m) PROVE TypeOK'
    <2>1. PICK told \in SUBSET ({ChatOf[m]} \cap Tellable) :
            /\ lids' = lids \cup told
            /\ ForwardIfAllowed("ingested", m, lids \cup told)
      BY <1>10 DEF ForwardMessage
    <2>2. wire' \subseteq Event
      BY <2>1, FilterLetsOutNumbers
    <2>3. lids' \subseteq ByLid
      BY <2>1 DEF Tellable
    <2> QED BY <1>10, <2>2, <2>3 DEF ForwardMessage, backend
  <1>11. ASSUME NEW m \in Message, ForwardDeletion(m) PROVE TypeOK'
    <2>1. wire' \subseteq Event
      BY <1>11, FilterLetsOutNumbers DEF ForwardDeletion
    <2> QED BY <1>11, <2>1 DEF ForwardDeletion, connector, backend
  <1>12. ASSUME NEW e \in wire, AdmitEvent(e) PROVE TypeOK'
    BY <1>12 DEF AdmitEvent, connector
  <1>13. ASSUME NEW e \in wire, RejectEvent(e) PROVE TypeOK'
    BY <1>13 DEF RejectEvent, connector, backend
  <1>14. ASSUME NEW e \in handling, SaveLiveMessage(e) PROVE TypeOK'
    BY <1>14 DEF SaveLiveMessage, connector, Event
  <1>15. ASSUME NEW e \in handling, MarkMessageDeleted(e) PROVE TypeOK'
    BY <1>15 DEF MarkMessageDeleted, connector, Event
  <1>16. ASSUME NEW e \in wire, PublishFails(e) PROVE TypeOK'
    BY <1>16 DEF PublishFails, connector, backend
  <1>17. CASE BackendRestart
    BY <1>17 DEF BackendRestart, connector
  <1>18. CASE ConnectorRestart
    <2>1. lids' \subseteq ByLid
      BY <1>18 DEF ConnectorRestart
    <2>2. tries' \in 0 .. Attempts
      BY <1>18 DEF ConnectorRestart, GateAssumption
    <2>3. lapse' \in [Phone -> {"none", "unheard", "asked", "heard"}]
      BY <1>18 DEF ConnectorRestart, Unheard
    <2>4. poll' \in [state : {"idle", "asked", "answered"}, phones : SUBSET Phone]
      BY <1>18 DEF ConnectorRestart, IdlePoll
    <2> QED BY <1>18, <2>1, <2>2, <2>3, <2>4 DEF ConnectorRestart, backend
  <1>19. CASE UNCHANGED vars
    BY <1>19 DEF vars
  <1> HIDE DEF TypeOK
  <1>20. CASE OwnerStep
    BY <1>20, <1>1, <1>2, <1>3 DEF OwnerStep
  <1>21. CASE PollStep
    BY <1>21, <1>4, <1>5, <1>6, <1>7, <1>8 DEF PollStep
  <1>22. CASE ConnectorStep
    BY <1>22, <1>9, <1>10, <1>11 DEF ConnectorStep
  <1>23. CASE BackendStep
    BY <1>23, <1>12, <1>13, <1>14, <1>15 DEF BackendStep
  <1>24. CASE FaultStep
    BY <1>24, <1>16, <1>17, <1>18 DEF FaultStep
  <1> QED BY <1>19, <1>20, <1>21, <1>22, <1>23, <1>24 DEF Next

\* Every reachable state is well typed; in particular only numbers go on the wire.
THEOREM GateTypeCorrect == ASSUME GateAssumption PROVE Spec => []TypeOK
  <1>1. Init => TypeOK
    BY TypeInit
  <1>2. TypeOK /\ [Next]_vars => TypeOK'
    BY TypeStep
  <1> QED BY <1>1, <1>2, PTL DEF Spec
-------------------------------------------------------------------------------
\* What the connector can still believe of a number whose withdrawal it heard of:
\* nothing, and the answer to a poll begun since then does not name the number.
HeardInv ==
  /\ \A p \in Phone : lapse[p] # "none" => p \notin Active
  /\ \A p \in Phone : lapse[p] = "heard" => p \notin phones
  /\ \A p \in Phone : lapse[p] \in {"asked", "heard"} => p \notin poll.phones
  /\ poll.state # "answered" => poll.phones = {}

LEMMA HeardInit == ASSUME GateAssumption PROVE Init => HeardInv
  <1> SUFFICES ASSUME Init PROVE HeardInv
    OBVIOUS
  <1>1. ASSUME NEW p \in Phone, lapse[p] # "none" PROVE p \notin Active
    BY <1>1 DEF Init, Active
  <1>2. phones = {} /\ poll.phones = {}
    BY DEF Init, IdlePoll
  <1> QED BY <1>1, <1>2 DEF HeardInv

\* The steps that leave the table, the copy, the poll and the history alone.
LEMMA HeardStays ==
  ASSUME HeardInv, UNCHANGED <<contacts, phones, poll, lapse>>
  PROVE  HeardInv'
  BY DEF HeardInv, Active

LEMMA HeardStep ==
  ASSUME GateAssumption, TypeOK, HeardInv, [Next]_vars PROVE HeardInv'
  <1>1. ASSUME NEW q \in Phone, AddAllowedContact(q) PROVE HeardInv'
    <2> SUFFICES ASSUME NEW p \in Phone
                 PROVE  p # q => lapse'[p] = lapse[p] /\ (p \in Active' <=> p \in Active)
      BY <1>1 DEF AddAllowedContact, HeardInv, connector, TypeOK
    <2> QED BY <1>1 DEF AddAllowedContact, Active, TypeOK
  <1>2. ASSUME NEW q \in Phone, NEW active \in BOOLEAN, SetAllowedContactActive(q, active)
        PROVE HeardInv'
    BY <1>2 DEF SetAllowedContactActive, Withdrawn, HeardInv, Active, connector, TypeOK
  <1>3. ASSUME NEW q \in Phone, DeleteAllowedContact(q) PROVE HeardInv'
    BY <1>3 DEF DeleteAllowedContact, Withdrawn, HeardInv, Active, connector, TypeOK
  <1>4. CASE FetchCommands
    BY <1>4 DEF FetchCommands, HeardInv, Active, connector, TypeOK
  <1>5. CASE ActivePhones
    BY <1>5 DEF ActivePhones, HeardInv, Active, connector, TypeOK
  <1>6. CASE FetchFails
    BY <1>6 DEF FetchFails, IdlePoll, Unheard, HeardInv, Active, TypeOK
  <1>7. CASE PollDone
    BY <1>7 DEF PollDone, IdlePoll, Replace, HeardInv, Active, TypeOK
  <1>8. CASE ConnectorRestart
    BY <1>8 DEF ConnectorRestart, IdlePoll, Unheard, HeardInv, Active, TypeOK
  <1>9. CASE UNCHANGED <<contacts, phones, poll, lapse>>
    BY <1>9, HeardStays
  <1> QED
    BY <1>1, <1>2, <1>3, <1>4, <1>5, <1>6, <1>7, <1>8, <1>9
    DEF Next, OwnerStep, PollStep, ConnectorStep, BackendStep, FaultStep, StartSocket,
        NoteLid, ForwardMessage, ForwardDeletion, AdmitEvent, RejectEvent,
        SaveLiveMessage, MarkMessageDeleted, PublishFails, BackendRestart, vars,
        connector, backend

\* A step puts on the wire only events of a number in the connector's copy, with
\* the number that owns the chat.
LEMMA NewEvents ==
  ASSUME GateAssumption, TypeOK, [Next]_vars
  PROVE  \A e \in wire' \ wire : e \in Event /\ e.to \in phones /\ e.to = OwnerOf[e.msg]
  <1>1. ASSUME NEW m \in Message, ForwardMessage(m)
        PROVE  \A e \in wire' \ wire : e \in Event /\ e.to \in phones /\ e.to = OwnerOf[e.msg]
    BY <1>1, FilterLetsOutNumbers DEF ForwardMessage
  <1>2. ASSUME NEW m \in Message, ForwardDeletion(m)
        PROVE  \A e \in wire' \ wire : e \in Event /\ e.to \in phones /\ e.to = OwnerOf[e.msg]
    BY <1>2, FilterLetsOutNumbers DEF ForwardDeletion
  <1>3. CASE wire' \subseteq wire
    BY <1>3
  <1> QED
    BY <1>1, <1>2, <1>3
    DEF Next, OwnerStep, PollStep, ConnectorStep, BackendStep, FaultStep,
        AddAllowedContact, SetAllowedContactActive, DeleteAllowedContact,
        FetchCommands, ActivePhones, FetchFails, PollDone, StartSocket, NoteLid,
        AdmitEvent, RejectEvent, SaveLiveMessage, MarkMessageDeleted, PublishFails,
        BackendRestart, ConnectorRestart, vars, connector, backend

\* Once a poll that began after a withdrawal has been answered, the connector
\* publishes nothing of that contact until it is made active again, however polls,
\* events, restarts and further edits of the table interleave.
THEOREM WithdrawalSilences == ASSUME GateAssumption PROVE Spec => QuietAfterWithdrawal
  <1>1. Init => TypeOK /\ HeardInv
    BY TypeInit, HeardInit
  <1>2. TypeOK /\ HeardInv /\ [Next]_vars => TypeOK' /\ HeardInv'
    BY TypeStep, HeardStep
  <1>3. TypeOK /\ HeardInv /\ [Next]_vars =>
          [\A e \in wire' \ wire : lapse[e.to] # "heard"]_vars
    BY NewEvents DEF HeardInv, TypeOK
  <1> QED BY <1>1, <1>2, <1>3, PTL DEF Spec, QuietAfterWithdrawal
-------------------------------------------------------------------------------
\* Every event on the wire carries the number that owns its chat.
AddressInv == \A e \in wire : e.to = OwnerOf[e.msg]

LEMMA AddressStep ==
  ASSUME GateAssumption, TypeOK, AddressInv, [Next]_vars PROVE AddressInv'
  BY NewEvents DEF AddressInv, OwnerOf

LEMMA OwnerStepImplements ==
  ASSUME TypeOK, OwnerStep PROVE Kept!Next
  <1>0. UNCHANGED <<Admitted, stored>>
    BY DEF OwnerStep, AddAllowedContact, SetAllowedContactActive,
           DeleteAllowedContact, backend, Admitted
  <1>1. ASSUME NEW p \in Phone, Active' = Active \cup {p} PROVE Kept!Next
    BY <1>0, <1>1 DEF Kept!Next, Kept!Grant
  <1>2. ASSUME NEW p \in Phone, Active' = Active \ {p} PROVE Kept!Next
    BY <1>0, <1>2 DEF Kept!Next, Kept!Withdraw
  <1>3. ASSUME NEW p \in Phone, AddAllowedContact(p) PROVE Active' = Active \cup {p}
    BY <1>3 DEF AddAllowedContact, Active, TypeOK
  <1>4. ASSUME NEW p \in Phone, SetAllowedContactActive(p, TRUE)
        PROVE  Active' = Active \cup {p}
    BY <1>4 DEF SetAllowedContactActive, Active, TypeOK
  <1>5. ASSUME NEW p \in Phone, SetAllowedContactActive(p, FALSE)
        PROVE  Active' = Active \ {p}
    BY <1>5 DEF SetAllowedContactActive, Active, TypeOK
  <1>6. ASSUME NEW p \in Phone, DeleteAllowedContact(p) PROVE Active' = Active \ {p}
    BY <1>6 DEF DeleteAllowedContact, Active, TypeOK
  <1> QED BY <1>1, <1>2, <1>3, <1>4, <1>5, <1>6 DEF OwnerStep

LEMMA AdmitImplements ==
  ASSUME TypeOK, AddressInv, NEW e \in wire, AdmitEvent(e)
  PROVE  [Kept!Next]_(Kept!consentVars)
  <1>0. UNCHANGED <<Active, stored>>
    BY DEF AdmitEvent, Active
  <1>1. CASE e.kind = "ingested"
    <2>1. Admitted' = Admitted \cup {e.msg}
      BY <1>1 DEF AdmitEvent, Admitted
    <2>2. OwnerOf[e.msg] \in Active /\ e.msg \in Message
      BY DEF AdmitEvent, IsAllowed, Active, AddressInv, TypeOK, Event
    <2> QED BY <1>0, <2>1, <2>2 DEF Kept!Next, Kept!Admit
  <1>2. CASE e.kind # "ingested"
    <2>1. Admitted' = Admitted
      BY <1>2 DEF AdmitEvent, Admitted
    <2> QED BY <1>0, <2>1 DEF Kept!consentVars
  <1> QED BY <1>1, <1>2

LEMMA SaveImplements ==
  ASSUME TypeOK, NEW e \in handling, SaveLiveMessage(e) PROVE Kept!Next
  <1>1. e.msg \in Message /\ e.msg \in Admitted
    BY DEF TypeOK, Event, SaveLiveMessage, Admitted
  <1>2. UNCHANGED Active /\ stored' = stored \cup {e.msg}
    BY DEF SaveLiveMessage, Active
  <1>3. Admitted' \in {Admitted, Admitted \ {e.msg}}
    <2>1. CASE \E f \in handling \ {e} : f.kind = "ingested" /\ f.msg = e.msg
      <3>1. Admitted' = Admitted
        BY <2>1 DEF SaveLiveMessage, Admitted
      <3> QED BY <3>1
    <2>2. CASE ~\E f \in handling \ {e} : f.kind = "ingested" /\ f.msg = e.msg
      <3>1. Admitted' = Admitted \ {e.msg}
        BY <2>2 DEF SaveLiveMessage, Admitted
      <3> QED BY <3>1
    <2> QED BY <2>1, <2>2
  <1> QED BY <1>1, <1>2, <1>3 DEF Kept!Next, Kept!Keep

LEMMA StepImplements ==
  ASSUME TypeOK, AddressInv, [Next]_vars PROVE [Kept!Next]_(Kept!consentVars)
  <1>1. CASE OwnerStep
    BY <1>1, OwnerStepImplements
  <1>2. ASSUME NEW e \in wire, AdmitEvent(e) PROVE [Kept!Next]_(Kept!consentVars)
    BY <1>2, AdmitImplements
  <1>3. ASSUME NEW e \in handling, SaveLiveMessage(e)
        PROVE  [Kept!Next]_(Kept!consentVars)
    BY <1>3, SaveImplements
  <1>4. ASSUME NEW e \in handling, MarkMessageDeleted(e)
        PROVE  [Kept!Next]_(Kept!consentVars)
    <2>1. UNCHANGED <<Active, Admitted, stored>>
      BY <1>4 DEF MarkMessageDeleted, Active, Admitted
    <2> QED BY <2>1 DEF Kept!consentVars
  <1>5. CASE BackendRestart
    <2>1. Admitted' = {} /\ UNCHANGED <<Active, stored>>
      BY <1>5 DEF BackendRestart, Active, Admitted
    <2> QED BY <2>1 DEF Kept!Next, Kept!Drop
  <1>6. CASE UNCHANGED <<contacts, handling, stored>>
    <2>1. UNCHANGED <<Active, Admitted, stored>>
      BY <1>6 DEF Active, Admitted
    <2> QED BY <2>1 DEF Kept!consentVars
  <1> QED
    BY <1>1, <1>2, <1>3, <1>4, <1>5, <1>6
    DEF Next, PollStep, ConnectorStep, BackendStep, FaultStep, FetchCommands,
        ActivePhones, FetchFails, PollDone, StartSocket, NoteLid, ForwardMessage,
        ForwardDeletion, RejectEvent, PublishFails, ConnectorRestart, vars,
        connector, backend

\* The stale copy, the LID map and the check made before the save implement
\* Consent: a stored message was admitted while its contact was active, and nothing
\* of a group or an unknown address is ever stored.
THEOREM GateImplementsConsent == ASSUME GateAssumption PROVE Spec => ImplementsConsent
  <1>1. Init => TypeOK /\ AddressInv /\ Kept!Init
    <2> SUFFICES ASSUME Init PROVE AddressInv /\ Kept!Init
      BY TypeInit
    <2>1. AddressInv /\ Admitted = {} /\ stored = {}
      BY DEF Init, AddressInv, Admitted
    <2> QED BY <2>1 DEF Kept!Init, Active
  <1>2. TypeOK /\ AddressInv /\ [Next]_vars => TypeOK' /\ AddressInv'
    BY TypeStep, AddressStep
  <1>3. TypeOK /\ AddressInv /\ [Next]_vars => [Kept!Next]_(Kept!consentVars)
    BY StepImplements
  <1> QED BY <1>1, <1>2, <1>3, PTL DEF Spec, ImplementsConsent, Kept!Spec
===============================================================================
