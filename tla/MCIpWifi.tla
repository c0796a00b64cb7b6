------------------------------- MODULE MCIpWifi -------------------------------
(***************************************************************************)
(* IpWifi for TLC: the devices that can always help themselves.  Left out  *)
(* are a build without IP_WIFI_USE_AP, a portal with several networks      *)
(* saved, whose portal has no timeout, and a portal in a leaf with a       *)
(* thread of its own, which takes the timeout for a connection.            *)
(***************************************************************************)
EXTENDS IpWifi

MCDevices ==
  {d \in DeviceOptions :
     /\ d.on_failure # "nothing"
     /\ d.on_failure = "portal" => ~d.several_networks /\ ~d.own_loop}

\* The common device: one network, the portal as a fallback, one loop task.
MCPlainDevice ==
  {[on_failure |-> "portal", several_networks |-> FALSE,
    own_loop |-> FALSE, immediate_retry |-> FALSE]}
=============================================================================
