-------------------------------- MODULE Consent --------------------------------
(***************************************************************************)
(* What the two allowlist filters promise together: a message is kept only *)
(* if it was admitted while its contact was active, and nothing of a chat  *)
(* that no contact owns (a group, an unknown address) is ever admitted.    *)
(* A withdrawal does not reach back to what was admitted before it.        *)
(***************************************************************************)

CONSTANTS
  Phone,    \* numbers the owner may register
  Message,  \* messages on the device
  OwnerOf   \* the number whose chat each message belongs to, or something else

VARIABLES
  active,    \* numbers the owner lets the system read
  admitted,  \* messages let in and not yet kept or dropped
  kept       \* messages stored

consentVars == <<active, admitted, kept>>

Init ==
  /\ active \in SUBSET Phone
  /\ admitted = {}
  /\ kept = {}

Grant(p) ==
  /\ active' = active \cup {p}
  /\ UNCHANGED <<admitted, kept>>

Withdraw(p) ==
  /\ active' = active \ {p}
  /\ UNCHANGED <<admitted, kept>>

Admit(m) ==
  /\ OwnerOf[m] \in active
  /\ admitted' = admitted \cup {m}
  /\ UNCHANGED <<active, kept>>

Keep(m) ==
  /\ m \in admitted
  /\ admitted' \in {admitted, admitted \ {m}}
  /\ kept' = kept \cup {m}
  /\ UNCHANGED active

Drop ==
  /\ admitted' \in SUBSET admitted
  /\ UNCHANGED <<active, kept>>

Next ==
  \/ \E p \in Phone : Grant(p) \/ Withdraw(p)
  \/ \E m \in Message : Admit(m) \/ Keep(m)
  \/ Drop

Spec == Init /\ [][Next]_consentVars
===============================================================================
