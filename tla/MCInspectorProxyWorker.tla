----------------------- MODULE MCInspectorProxyWorker -----------------------
(***************************************************************************)
(* InspectorProxyWorker for TLC.                                           *)
(***************************************************************************)
EXTENDS InspectorProxyWorker

=============================================================================
