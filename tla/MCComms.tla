------------------------------- MODULE MCComms -------------------------------
(***************************************************************************)
(* Comms for TLC: leaf tables with and without each transport, and two     *)
(* whose WiFi leaves, or only the first of them, run without being chosen. *)
(***************************************************************************)
EXTENDS Comms

MCTable(s) == FoldLeft(LAMBDA q, t : q \o <<Ip(t), Pubsub(t)>>, <<>>, s)
MCChoosing(s) == [table |-> MCTable(s), declared |-> {}]

MCDevices ==
  {MCChoosing(<<"lte", "wifi", "null">>), MCChoosing(<<"wifi", "null">>),
   MCChoosing(<<"lte", "wifi">>),
   [table |-> MCTable(<<"lte", "wifi">>), declared |-> Pair("wifi")],
   [table |-> <<Ip("lte"), Ip("wifi"), Pubsub("wifi")>>, declared |-> {}]}

MCDefault == [t \in Switches |-> t = "lte"]
=============================================================================
