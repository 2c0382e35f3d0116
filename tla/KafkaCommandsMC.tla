-------------------------- MODULE KafkaCommandsMC --------------------------
(* Instances of KafkaCommands: what the commands of a behavior may be.     *)
EXTENDS KafkaCommandsProperties

Behavior(first, second, third, fourth, fifth, shutdown) ==
    [kinds |-> <<first, second, third, fourth, fifth>>, shutdown |-> shutdown]

\* A connection is replaced under an export or a read.
Switching ==
    Behavior({"connect", "profile"}, {"export", "start"}, ConnectionKinds \cup {"stop"},
             {"profile", "export", "start", "disconnect"}, {}, FALSE)
\* Preferences change beside remote operations.
Protecting ==
    Behavior({"connect", "profile", "read"}, {"export", "codecs", "start"},
             {"protection", "disconnect"}, {"write", "profile", "protection"}, {}, FALSE)
\* The facade closes over what is pending.
Closing ==
    Behavior({"connect", "profile"}, {"export", "start", "disconnect"},
             {"recovery", "read", "connect"}, {}, {}, TRUE)

\* A read is asked for while a connect waits for the old connection's export.
LateRead == Behavior({"connect"}, {"export"}, {"connect"}, {"start"}, {}, FALSE)

\* Preferences change after a read that outlived its connection.
Outliving == Behavior({"connect"}, {"export"}, {"connect"}, {"start"}, {"protection"}, FALSE)
\* A connection survives two that were asked for, and meets an export.
Surviving == Behavior({"connect"}, {"connect"}, {"connect"}, {"export"}, {}, FALSE)

OnlyLateRead == {LateRead}
Behaviors == {Switching, Protecting, Closing, Outliving, Surviving}
============================================================================
