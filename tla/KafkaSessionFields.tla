------------------------ MODULE KafkaSessionFields ------------------------
(***************************************************************************)
(* The fields of KafkaApplicationSession that its three parts share: the   *)
(* lifecycle (KafkaSession), the record consumption (KafkaConsumption) and *)
(* the request registry (KafkaSessionRequests).                            *)
(*                                                                         *)
(* Every lifecycle operation (connect, disconnect, shutdown) takes the     *)
(* next generation, so an operation is named by its generation, and the    *)
(* connection an attempt opens by the generation of that attempt.          *)
(***************************************************************************)
EXTENDS Integers, FiniteSets

CONSTANTS
    MaxOps,     \* bound: lifecycle operations in a behaviour
    MaxCons,    \* bound: calls of startConsumption that reach a connection
    MaxReqs,    \* bound: requests sent through the session
    MaxCalls    \* bound: all of these together

ASSUME BoundsAssumption ==
    /\ MaxOps \in Nat
    /\ MaxCons \in Nat
    /\ MaxReqs \in Nat
    /\ MaxCalls \in Nat

VARIABLES
    generation,        \* the generation of the newest lifecycle operation
    shuttingDown,      \* set once by shutdown and never cleared
    snapshot,          \* currentSnapshot.state
    activeConnection,  \* the connection every operation borrows, or None
    connections        \* what became of the connection each attempt opened

None == 0
Generations == 1 .. MaxOps
Snapshots ==
    {"disconnected", "connecting", "connected", "disconnecting", "failed"}

\* "leaked": the close of a connection no field refers to was refused.
Resources == {"none", "open", "closed", "leaked"}

fieldVars == <<generation, shuttingDown, snapshot, activeConnection, connections>>

FieldsInit ==
    /\ generation = 0
    /\ shuttingDown = FALSE
    /\ snapshot = "disconnected"
    /\ activeConnection = None
    /\ connections = [c \in Generations |-> "none"]

FieldsTypeOK ==
    /\ generation \in 0 .. MaxOps
    /\ shuttingDown \in BOOLEAN
    /\ snapshot \in Snapshots
    /\ activeConnection \in Generations \cup {None}
    /\ connections \in [Generations -> Resources]

\* Work borrows a connection only while a session is connected.
IsConnected == activeConnection # None /\ snapshot = "connected"

\* The fence a borrower checks after every await.
IsCurrentConnection(c, g) ==
    /\ ~shuttingDown
    /\ g = generation
    /\ c = activeConnection
    /\ snapshot = "connected"
===========================================================================
