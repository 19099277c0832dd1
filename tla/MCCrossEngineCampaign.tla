------------------------ MODULE MCCrossEngineCampaign ------------------------
(* Two cells, so that what an earlier cell leaves in the ledger meets a later   *)
(* one.  The controller keeps the default of two attempts per cell; three make  *)
(* chains of retries happen.  The frozen reason is the one runtime errors carry *)
(* too, so that the status and not the reason alone has to authorise a retry.   *)
EXTENDS CrossEngineCampaign

MCReasons == {"bad_contract", "cell_execution_failed"}
MCFrozen  == {"cell_execution_failed"}
=============================================================================
