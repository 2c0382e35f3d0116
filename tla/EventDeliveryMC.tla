--------------------------- MODULE EventDeliveryMC ---------------------------
(***************************************************************************)
(* EventDeliveryMC: EventDelivery for model checking. A behavior has       *)
(* either two reads that meet each other, or one read with many records,   *)
(* with more of what the world does, or with two event streams that share  *)
(* its record or are disturbed.                                            *)
(***************************************************************************)
EXTENDS EventDeliveryProperties

MeetingReads == [reads |-> 2, arrivals |-> 1, clients |-> 1, turns |-> 0]
LongRead == [reads |-> 1, arrivals |-> 3, clients |-> 1, turns |-> 0]
DisturbedRead == [reads |-> 1, arrivals |-> 2, clients |-> 1, turns |-> 1]
SharedRead == [reads |-> 1, arrivals |-> 1, clients |-> 2, turns |-> 0]
SlowClients == [reads |-> 1, arrivals |-> 0, clients |-> 2, turns |-> 1]
Behaviors == {MeetingReads, LongRead, DisturbedRead, SharedRead, SlowClients}
=============================================================================
