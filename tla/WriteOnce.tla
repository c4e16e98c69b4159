------------------------------ MODULE WriteOnce ------------------------------
(***************************************************************************)
(* What a vault descriptor promises, with no file and no processes: its    *)
(* creator may take the first binding back as long as it has not settled;  *)
(* from then on the vault is bound for good, and whoever mounts it mounts  *)
(* it with that binding, or with one seen before it was taken back.        *)
(***************************************************************************)
CONSTANTS Credentials, Unbound

VARIABLES
    binding,    \* the credentials the vault is bound to, or Unbound
    settled,    \* whether the binding is there to stay
    revoked,    \* bindings that were taken back
    mounted     \* the credentials the vault was ever mounted with

onceVars == <<binding, settled, revoked, mounted>>

OnceInit ==
    /\ binding \in Credentials \cup {Unbound} /\ settled = (binding # Unbound)
    /\ revoked = {} /\ mounted = {}

Bind ==
    /\ binding = Unbound /\ binding' \in Credentials /\ ~settled'
    /\ UNCHANGED <<revoked, mounted>>

Settle ==
    /\ binding # Unbound /\ ~settled /\ settled'
    /\ UNCHANGED <<binding, revoked, mounted>>

TakeBack ==
    /\ binding # Unbound /\ ~settled
    /\ binding' = Unbound /\ revoked' = revoked \cup {binding}
    /\ UNCHANGED <<settled, mounted>>

MountIt ==
    /\ \E c \in revoked \cup ({binding} \ {Unbound}) : mounted' = mounted \cup {c}
    /\ UNCHANGED <<binding, settled, revoked>>

OnceSpec == OnceInit /\ [][Bind \/ Settle \/ TakeBack \/ MountIt]_onceVars
=============================================================================
