--------------------------- MODULE MCRedirectTrace ---------------------------
(* Two hosts and a denied one, three hops, a chain's time of two hops.      *)
EXTENDS RedirectTrace
=============================================================================
