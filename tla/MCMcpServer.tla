----------------------------- MODULE MCMcpServer -----------------------------
(* Instance of McpServer for TLC. *)
EXTENDS McpServer

CONSTANTS one, oneString, two, three, flag, ca, cb

(* "1" is the same request as 1, and true is none. *)
MCKeyOf == [i \in Ids |-> CASE i = oneString -> one [] i = flag -> Invalid [] OTHER -> i]
=============================================================================
