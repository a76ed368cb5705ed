--------------------------- MODULE MCProxyClient ----------------------------
(***************************************************************************)
(* ProxyClient for TLC.                                                    *)
(***************************************************************************)
EXTENDS ProxyClient, TLC

\* Calls are interchangeable.
Symmetry == Permutations(Calls)

=============================================================================
