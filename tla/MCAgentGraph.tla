--------------------------- MODULE MCAgentGraph ---------------------------
(* Two companies, so that a request can mix known and unknown ones, and    *)
(* the code's own retry caps.                                              *)
EXTENDS AgentGraph

CONSTANTS acme, enel, ad_hoc

MCIdentifiers == {acme, enel}
===========================================================================
