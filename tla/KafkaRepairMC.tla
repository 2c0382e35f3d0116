--------------------------- MODULE KafkaRepairMC ---------------------------
(***************************************************************************)
(* KafkaRepairMC: KafkaRepair for model checking. A behavior has either a  *)
(* replay with its continuation and a crash, or two plans in flight and an *)
(* invalidation, or one plan, two crashes and every call of the recovery.  *)
(***************************************************************************)
EXTENDS KafkaRepairProperties

Crashing == [plans |-> 2, crashes |-> 1, calls |-> {"continue"}]
Invalidating == [plans |-> 2, crashes |-> 0, calls |-> {"continue", "invalidate"}]
Recovering == [plans |-> 1, crashes |-> 2, calls |-> {"reconcile", "archive", "continue", "invalidate"}]
Behaviors == {Crashing, Invalidating, Recovering}

LatePlan == {[plans |-> 2, crashes |-> 0, calls |-> {"invalidate"}]}
============================================================================
