---------------------------- MODULE RepairLedger ----------------------------
(***************************************************************************)
(* RepairLedger: what the repair history promises about every record of a  *)
(* reviewed replay, whatever crashes and continuations come between:       *)
(*   - a record is entered as uncertain before it is sent, and is sent     *)
(*     once at most;                                                       *)
(*   - an acknowledgement or a rejection is entered only when the broker   *)
(*     said so, and is never taken back;                                   *)
(*   - a record goes back to unsent only if it was never sent;             *)
(*   - a history is forgotten only when nothing in it is uncertain.        *)
(***************************************************************************)
CONSTANTS Roots, Indexes

VARIABLES
    entry,   \* what the history says of each record
    sends,   \* how often each record was sent
    broker   \* what became of it at the broker

Records == Roots \X Indexes

Init ==
    /\ entry = [r \in Records |-> "unsent"]
    /\ sends = [r \in Records |-> 0]
    /\ broker = [r \in Records |-> "none"]

Intend(r) ==
    /\ entry[r] = "unsent" /\ sends[r] = 0
    /\ entry' = [entry EXCEPT ![r] = "uncertain"]
    /\ UNCHANGED <<sends, broker>>

Withdraw(r) ==
    /\ entry[r] = "uncertain" /\ sends[r] = 0
    /\ entry' = [entry EXCEPT ![r] = "unsent"]
    /\ UNCHANGED <<sends, broker>>

Send(r) ==
    /\ entry[r] = "uncertain" /\ sends[r] = 0
    /\ sends' = [sends EXCEPT ![r] = 1]
    /\ UNCHANGED <<entry, broker>>

Decide(r) ==
    /\ sends[r] = 1 /\ broker[r] = "none"
    /\ \E verdict \in {"acknowledged", "rejected"} : broker' = [broker EXCEPT ![r] = verdict]
    /\ UNCHANGED <<entry, sends>>

Enter(r) ==
    /\ entry[r] = "uncertain" /\ sends[r] = 1 /\ broker[r] # "none"
    /\ entry' = [entry EXCEPT ![r] = broker[r]]
    /\ UNCHANGED <<sends, broker>>

Forget(root) ==
    /\ \A i \in Indexes : entry[<<root, i>>] # "uncertain"
    /\ entry' = [r \in Records |-> IF r[1] = root THEN "forgotten" ELSE entry[r]]
    /\ UNCHANGED <<sends, broker>>

Next ==
    \/ \E r \in Records : Intend(r) \/ Withdraw(r) \/ Send(r) \/ Decide(r) \/ Enter(r)
    \/ \E root \in Roots : Forget(root)

Spec == Init /\ [][Next]_<<entry, sends, broker>>
=============================================================================
