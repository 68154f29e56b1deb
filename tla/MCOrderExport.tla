---------------------------- MODULE MCOrderExport ----------------------------
(* The instances of OrderExport that TLC checks. *)
EXTENDS OrderExport

CONSTANTS o1, o2

MCMarket == {o2}
=============================================================================
