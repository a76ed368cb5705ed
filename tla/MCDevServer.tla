---------------------------- MODULE MCDevServer ----------------------------
(* Bundles 1 and 2 are served on the same port, bundle 3 on another one. *)
EXTENDS DevServer

MCProxyData == 1..MaxBundles
MCUrls == [d \in MCProxyData |-> IF d = 3 THEN "port2" ELSE "port1"]
============================================================================
