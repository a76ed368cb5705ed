----------------------------- MODULE MCBundler ------------------------------
(***************************************************************************)
(* Bundler for TLC.                                                        *)
(***************************************************************************)
EXTENDS Bundler

=============================================================================
