--------------------------- MODULE MCAgentConsent ---------------------------
(* Two agents of two processes compete for the only attempt of a grant,    *)
(* and the second may also replace or revoke it: two grants let one take    *)
(* the place of the other while a read of the first is under way.           *)
EXTENDS AgentConsent

CONSTANTS a1, a2, server, second

MCAgents == {a1, a2}
MCAdmins == {a2}
MCProcesses == {server, second}
MCProcessOf == [a \in MCAgents |-> IF a = a1 THEN server ELSE second]
MCTerms == {[quota |-> 1, scopes |-> Scopes, ceiling |-> 0]}
MCLevels == {0, 1}
=============================================================================
