------------------------------- MODULE KeyCall -------------------------------
(***************************************************************************)
(* What a caller of derive_key and the owner of the dongle are promised,   *)
(* with no firmware, no line and no clock: a call asks for the key of one  *)
(* request, and returns that key only if BOOT was pressed while it was     *)
(* open.  It may fail at any moment.                                       *)
(***************************************************************************)
CONSTANTS Requests, NoRequest

VARIABLES
    asked,      \* the request of the open call, or NoRequest
    consent,    \* BOOT was pressed since the last call began
    got         \* what the last call returned, or NoRequest

keyVars == <<asked, consent, got>>

KeyInit == asked = NoRequest /\ consent = FALSE /\ got = NoRequest

Ask ==
    /\ asked = NoRequest /\ asked' \in Requests
    /\ consent' = FALSE /\ got' = NoRequest

Agree == consent' = TRUE /\ UNCHANGED <<asked, got>>

Return ==
    /\ asked # NoRequest /\ consent
    /\ got' = asked /\ asked' = NoRequest
    /\ UNCHANGED consent

(* A call that fails, or what an earlier one returned is forgotten.        *)
GiveUp == asked' = NoRequest /\ got' = NoRequest /\ consent' \in {consent, TRUE}

KeyNext == Ask \/ Agree \/ Return \/ GiveUp

KeySpec == KeyInit /\ [][KeyNext]_keyVars
=============================================================================
