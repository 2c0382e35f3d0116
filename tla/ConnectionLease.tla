-------------------------- MODULE ConnectionLease --------------------------
(***************************************************************************)
(* What the rest of the program relies on about a session: at any moment   *)
(* at most one connection serves, it is the one of the newest operation,   *)
(* every new operation revokes it at once, and after the end none serves.  *)
(***************************************************************************)
EXTENDS Integers

VARIABLES
    newest,   \* the newest operation
    serving,  \* the operation whose connection serves, or 0
    ended     \* no operation may begin any more

leaseVars == <<newest, serving, ended>>

LeaseInit == newest = 0 /\ serving = 0 /\ ended = FALSE

\* A connect or a disconnect revokes the lease, a shutdown for good.
Revoke ==
    /\ ~ended
    /\ newest' = newest + 1
    /\ serving' = 0
    /\ ended' \in BOOLEAN

\* Only the newest operation may grant the lease, once.
Grant ==
    /\ ~ended
    /\ newest # 0
    /\ serving = 0
    /\ serving' = newest
    /\ UNCHANGED <<newest, ended>>

LeaseNext == Revoke \/ Grant

LeaseSpec == LeaseInit /\ [][LeaseNext]_leaseVars
===========================================================================
