----------------------------- MODULE MCLauncher -----------------------------
(* Launcher on two servers: settings in the order the database's columns   *)
(* suggest, a server without its a2sport, and servers entered out of order.*)
EXTENDS Launcher

Row(id, key) == [serverid |-> id, key |-> key]

TwoServers ==
    <<Row(1, "activated"), Row(1, "a2sport"),
      Row(2, "a2sport"), Row(2, "activated")>>

Incomplete == <<Row(1, "deactivated"), Row(1, "a2sport"), Row(2, "activated")>>

OutOfOrder == <<Row(2, "activated"), Row(1, "a2sport"), Row(1, "activated")>>

MCConfigs == {TwoServers, Incomplete, OutOfOrder}
=============================================================================
