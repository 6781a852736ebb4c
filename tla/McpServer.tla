------------------------------ MODULE McpServer ------------------------------
(***************************************************************************)
(* agent/mcp_server.py: one session over stdio and its tools, with the     *)
(* visual challenges they issue and verify.                                *)
(*                                                                         *)
(* The SDK is external: it starts a task for every request it is given and *)
(* sends one response for it.  The admission stands between them: a        *)
(* request is received, waits for a slot, and only then is its identifier  *)
(* looked at; the slot comes back when its response was handed over.       *)
(***************************************************************************)
EXTENDS VisionChallenge

CONSTANTS
  Ids,          \* request identifiers, as they come: 1 and "1" are two
  KeyOf,        \* _request_key, a member of Ids or Invalid
  Invalid,
  MaxInflight,  \* limits.max_inflight_requests
  MaxRequests   \* bound of the model: requests received

ASSUME AdmissionAssumption ==
  /\ Invalid \notin Ids
  /\ KeyOf \in [Ids -> Ids \cup {Invalid}]
  /\ MaxInflight \in Nat \ {0} /\ MaxRequests \in Nat

VARIABLES
  reader,    \* the read stream: "receiving", "acquiring" a slot, or "over"
  held,      \* the request it has received
  free,      \* the value of the semaphore
  inflight,  \* _pending
  stage,     \* per identifier: "none", "running" its tool, "ready" to be sent
  received   \* history: requests received

vars == <<challengeVars, reader, held, free, inflight, stage, received>>

Init ==
  /\ ChallengeInit
  /\ reader = "receiving" /\ held = Invalid
  /\ free = MaxInflight /\ inflight = {}
  /\ stage = [i \in Ids |-> "none"] /\ received = 0

-----------------------------------------------------------------------------
Receive(i) ==
  /\ reader = "receiving" /\ received < MaxRequests
  /\ received' = received + 1
  /\ reader' = "acquiring" /\ held' = i
  /\ UNCHANGED <<challengeVars, free, inflight, stage>>

(* The end of stdin, a frame that is too long, or a response that cannot be *)
(* sent.  The session is over, and nothing is answered any more.            *)
End ==
  /\ reader # "over"
  /\ reader' = "over" /\ held' = Invalid
  /\ UNCHANGED <<challengeVars, free, inflight, stage, received>>

(* Mutant: the identifiers in flight are not looked at. *)
AdmitAnyway ==
  /\ reader = "acquiring" /\ free > 0 /\ KeyOf[held] # Invalid
  /\ free' = free - 1 /\ inflight' = inflight \cup {KeyOf[held]}
  /\ stage' = [stage EXCEPT ![held] = "running"]
  /\ reader' = "receiving" /\ held' = Invalid
  /\ UNCHANGED <<challengeVars, received>>

Admit ==
  /\ reader = "acquiring" /\ free > 0
  /\ KeyOf[held] \notin inflight \cup {Invalid}
  /\ free' = free - 1 /\ inflight' = inflight \cup {KeyOf[held]}
  /\ stage' = [stage EXCEPT ![held] = "running"]
  /\ reader' = "receiving" /\ held' = Invalid
  /\ UNCHANGED <<challengeVars, received>>

(* MCPTransportError; the slot was given back. *)
Reject ==
  /\ reader = "acquiring" /\ free > 0
  /\ KeyOf[held] \in inflight \cup {Invalid}
  /\ reader' = "over" /\ held' = Invalid
  /\ UNCHANGED <<challengeVars, free, inflight, stage, received>>

-----------------------------------------------------------------------------
(* The tool runs, or its arguments are refused.  A thread that runs a tool  *)
(* is not stopped by the end of the session.                                *)
Tool(i, effect) ==
  /\ stage[i] = "running"
  /\ effect
  /\ stage' = [stage EXCEPT ![i] = "ready"]
  /\ UNCHANGED <<reader, held, free, inflight, received>>

VisionChallengeTool(i) ==
  \E id \in ChallengeIds : Tool(i, Issue(id)) \/ Tool(i, IssueRefused(id))

VerifyVisionChallengeTool(i) ==
  \E id \in ChallengeIds, right \in BOOLEAN : Tool(i, Verify(id, right))

(* status, latest_observation and snapshot, or a refusal. *)
OtherTool(i) == Tool(i, UNCHANGED challengeVars)

Run(i) == VisionChallengeTool(i) \/ VerifyVisionChallengeTool(i) \/ OtherTool(i)

(* Mutant: the identifier is forgotten and the slot kept. *)
RespondKeeps(i) ==
  /\ stage[i] = "ready" /\ reader # "over"
  /\ stage' = [stage EXCEPT ![i] = "none"]
  /\ inflight' = inflight \ {KeyOf[i]}
  /\ UNCHANGED <<challengeVars, reader, held, free, received>>

(* send() and complete() *)
Respond(i) ==
  /\ stage[i] = "ready" /\ reader # "over"
  /\ stage' = [stage EXCEPT ![i] = "none"]
  /\ inflight' = inflight \ {KeyOf[i]}
  /\ free' = IF KeyOf[i] \in inflight THEN free + 1 ELSE free
  /\ UNCHANGED <<challengeVars, reader, held, received>>

-----------------------------------------------------------------------------
Next ==
  \/ \E i \in Ids : Receive(i) \/ Run(i) \/ Respond(i)
  \/ Admit \/ Reject \/ End
  \/ StoreNext /\ UNCHANGED <<reader, held, free, inflight, stage, received>>

Spec == Init /\ [][Next]_vars

(* Every tool has a deadline, and the client reads its responses. *)
FairSpec ==
  /\ Spec
  /\ WF_vars(Admit \/ Reject)
  /\ \A i \in Ids : WF_vars(Run(i)) /\ WF_vars(Respond(i))

-----------------------------------------------------------------------------
(* The slots not taken, and the requests under way, add up to the limit,    *)
(* and no two of these would be answered as one: a slot is not lost to a    *)
(* repeated or mistyped identifier, and none is given back twice.           *)
AdmissionAccounted ==
  LET underway == {i \in Ids : stage[i] # "none"} IN
    /\ free + Cardinality(underway) = MaxInflight
    /\ inflight = {KeyOf[i] : i \in underway}
    /\ \A i, j \in underway : KeyOf[i] = KeyOf[j] => i = j

(* A request that waits for a slot gets one, or the session is over, and a  *)
(* request that got one is answered.                                        *)
RequestsProceed ==
  /\ reader = "acquiring" ~> reader # "acquiring"
  /\ \A i \in Ids : stage[i] # "none" ~> (stage[i] = "none" \/ reader = "over")
=============================================================================
