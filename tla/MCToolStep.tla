----------------------------- MODULE MCToolStep -----------------------------
(* Instances of ToolStep for TLC. *)
EXTENDS ToolStep

CONSTANTS url, other

\* Every name may be registered with either URL.
AnyUrl == [n \in Names |-> {url, other}]
=============================================================================
