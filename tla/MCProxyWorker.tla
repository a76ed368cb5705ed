--------------------------- MODULE MCProxyWorker ---------------------------
(* Two workers on the same port and a third on another one. *)
EXTENDS ProxyWorker

CONSTANTS r1, r2, r3, r4, d1, d2, d3

MCUrls == [d \in ProxyData |-> IF d = d3 THEN "port2" ELSE "port1"]
============================================================================
