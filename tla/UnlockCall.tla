----------------------------- MODULE UnlockCall -----------------------------
(***************************************************************************)
(* The composition of module DigitalKey observed by two history variables, *)
(* the mapping under which it implements module KeyCall, and the time a    *)
(* call takes.                                                             *)
(***************************************************************************)
EXTENDS DigitalKey

VARIABLES
    consent,    \* history: BOOT was pressed since the last derive_key began
    spent       \* history: ticks the open call has waited, over all its lines

callTrace == <<vars, consent, spent>>

Begins  == pc = "ready" /\ pc' = "wait_key"
Presses == button = "up" /\ button' = "down"

WaitsOn == pc \in Waiting /\ pc' = pc

CallInit == Init /\ consent = FALSE /\ spent = 0
CallNext ==
    /\ Next
    /\ consent' = (~Begins /\ (consent \/ Presses))
    /\ spent' = IF ~WaitsOn THEN 0
                ELSE IF hostWaited' > hostWaited THEN spent + 1 ELSE spent

CallSpec     == CallInit /\ [][CallNext]_callTrace
FairCallSpec == CallSpec /\ Fairness

Promise == INSTANCE KeyCall WITH
    asked <- IF pc = "wait_key" THEN req ELSE NoRequest,
    got   <- IF outcome = "key" THEN answer ELSE NoRequest

(* derive_key keeps the promise of module KeyCall through every fault the  *)
(* composition has: a key it returns was asked for by this call, and the   *)
(* owner pressed BOOT after the call began, so no reply that is left of an *)
(* earlier call, even one for the same request, is ever returned.          *)
ImplementsKeyCall == Promise!KeySpec

(* What a call can wait, in serial timeouts: readline starts its timeout   *)
(* anew with every byte and _read_line with every line it skips, and only  *)
(* the number of lines is bounded by the code.  So the 20 s are no bound   *)
(* of a call, and the bound there is depends on how often a line pauses    *)
(* (_read_line).                                                           *)
CallIsBounded == spent =< MaxLines * ((MaxPauses + 1) * ReadTimeout)
=============================================================================
