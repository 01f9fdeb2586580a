--------------------------- MODULE MCConversations ---------------------------
(* A tab whose tool prompts kid1, whose tool prompts kid2.  In the wide      *)
(* instance kid1 also detaches a run that prompts kid3.  kid2 continues the *)
(* session of the tab, and kid3 that of kid1.                                *)
EXTENDS Conversations, TLC

CONSTANTS tab, kid1, kid2, kid3, c1, c2, c3

DeepSessions == tab :> 1 @@ kid1 :> 2 @@ kid2 :> 1
DeepHosts    == c1 :> tab @@ c2 :> kid1
DeepPrompts  == c1 :> kid1 @@ c2 :> kid2

WideSessions == DeepSessions @@ kid3 :> 2
WideHosts    == DeepHosts @@ c3 :> kid1
WidePrompts  == DeepPrompts @@ c3 :> kid3
=============================================================================
