----------------------------- MODULE MCClients ------------------------------
(* An instance of ExternalClients for TLC.                                 *)
EXTENDS ExternalClients

CONSTANTS h, w, o

(* Two hosts of one site, and one of another.                              *)
Sites == [host \in Hosts |-> IF host = o THEN "other" ELSE "company"]
=============================================================================
