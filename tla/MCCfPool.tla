------------------------------ MODULE MCCfPool ------------------------------
(* Small instances of CfPool for TLC. *)
EXTENDS CfPool, TLC

CONSTANTS d1, d2

TwoDomains == <<d1, d2>>

EverySetup == [tier : {"worker", "proxy"}, cf_balance : BOOLEAN]
BalancedProxy == [tier : {"proxy"}, cf_balance : {TRUE}]
=============================================================================
