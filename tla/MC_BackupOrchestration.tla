--------------------- MODULE MC_BackupOrchestration ---------------------
(* Two buttons: Documents for two users, Photos for one; two presses.     *)
EXTENDS BackupOrchestration, TLC

CONSTANTS Docs, Photos, U1Docs, U2Docs, U1Photos

MCSources == (Docs :> <<U1Docs, U2Docs>>) @@ (Photos :> <<U1Photos>>)
=============================================================================
