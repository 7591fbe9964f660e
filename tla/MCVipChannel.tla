---------------------------- MODULE MCVipChannel ----------------------------
(* A few passengers at the VIP channel. *)
EXTENDS VipChannel
=============================================================================
