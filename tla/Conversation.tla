--------------------------- MODULE Conversation ---------------------------
(***************************************************************************)
(* What a stepping flow promises the mirror, seen from the connection      *)
(* alone (the contract of the stepping loop in include/mirrorcpp/client.hpp *)
(* and docs/design.md 5.6): a registration, a verdict, then steps that the *)
(* client answers one by one, until one side ends it for good.  An         *)
(* exception abandons it without an end; the next flow that is called with *)
(* the connection starts a conversation of its own.                        *)
(***************************************************************************)
EXTENDS Naturals

VARIABLES
  stage,  \* how far the conversation of the current flow is
  owed    \* steps the mirror asked for and the client has not answered

Init == stage = "silent" /\ owed = 0

Register == stage = "silent" /\ stage' = "asked" /\ owed' = owed
Agree == stage = "asked" /\ stage' = "agreed" /\ owed' = owed
Ask == /\ stage \in {"agreed", "stepping"} /\ owed = 0
       /\ stage' = "stepping" /\ owed' = 1
Answer == stage = "stepping" /\ owed = 1 /\ owed' = 0 /\ stage' = stage
Abandon == stage' = "silent" /\ owed' = 0
End == stage' = "over" /\ owed' = 0

Next == Register \/ Agree \/ Ask \/ Answer \/ Abandon \/ End
Spec == Init /\ [][Next /\ stage # "over"]_<<stage, owed>>
=============================================================================
