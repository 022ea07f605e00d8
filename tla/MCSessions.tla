----------------------------- MODULE MCSessions -----------------------------
(* Sessions on small instances.                                             *)
EXTENDS Sessions, TLC

CONSTANTS q1, q2, q3, ui, bg

MCClient == (q1 :> ui) @@ (q2 :> ui) @@ (q3 :> bg)
MCThreeUi == (q1 :> ui) @@ (q2 :> ui) @@ (q3 :> ui)
MCUiOnly == (q1 :> ui) @@ (q2 :> ui)
MCFaults == {"network", "retry", "kill", "logout", "background"}
MCUiFaults == {"network", "retry", "kill"}
MCRetry == {"retry"}
=============================================================================
