----------------------------- MODULE MCConsentGate -----------------------------
(* Small instances of ConsentGate for TLC.                                 *)
EXTENDS ConsentGate, TLC

CONSTANTS p1, p2, plain, lid, group, m1, m2, m3

\* One contact with a chat of either kind of address, and a group.
OneOwner == (plain :> p1) @@ (lid :> p1) @@ (group :> NoPhone)
MCChatOf == (m1 :> plain) @@ (m2 :> lid) @@ (m3 :> group)

\* Two contacts, without the group, whose messages no filter lets pass.
TwoOwners == (plain :> p1) @@ (lid :> p2)
TwoChatOf == (m1 :> plain) @@ (m2 :> lid)
===============================================================================
