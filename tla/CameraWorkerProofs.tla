------------------------- MODULE CameraWorkerProofs -------------------------
(***************************************************************************)
(* Theorems about CameraWorker, for any number of children, commands and   *)
(* deaths of the parent.                                                   *)
(***************************************************************************)
EXTENDS CameraWorker, SequenceTheorems, TLAPS

(* How many messages of the handshake the owner thread has received, and a  *)
(* child has sent, where it is.                                             *)
Seen == [popen |-> 0, start |-> 0, request |-> 1, backend |-> 1, device |-> 2, configure |-> 3]
Sent == [boot |-> 0, waiting |-> 1, loading |-> 1, opening |-> 2, configuring |-> 3, idle |-> 4]

(* The child that open() deals with. *)
Cur == IF pc = "popen" THEN newest ELSE process

Launched ==
  \A g \in Workers :
    /\ child[g] = "none" <=> g > newest
    /\ g > newest => inbox[g] = <<>> /\ outbox[g] = <<>>

PlaceInv ==
  /\ pc \in {"launch", "popen"} => process = 0
  /\ pc \in {"popen", "request"} => windows
  /\ pc = "popen" => newest \in ends
  /\ pc \in {"start", "request", "backend", "device", "configure", "reading"} => process \in ends
  /\ pc \in {"joining", "terminating", "killing"} => process # 0
  /\ pc \in {"terminating", "killing"} => outcome \notin {"frame", "recoverable"}
  /\ stream => process \in ends /\ pc \in {"idle", "reading", "joining"}
  /\ pc = "reading" => stream

(* During the handshake the child is as many messages ahead as are on their *)
(* way; the last one is "configured", and nothing is said after it; with    *)
(* the second launcher the child goes no further without its request.       *)
Greeting(g) ==
  /\ child[g] \in DOMAIN Sent \cup {"leaving", "exited"}
  /\ child[g] \in DOMAIN Sent => Len(outbox[g]) = Sent[child[g]] - Seen[pc]
  /\ \A k \in 1..Len(outbox[g]) : outbox[g][k].kind = "configured" =>
       k = Len(outbox[g]) /\ Seen[pc] + k = 4 /\ child[g] \in {"idle", "exited"}
  /\ inbox[g] # <<>> =>
       /\ pc = "backend" /\ outbox[g] = <<>> /\ child[g] \in {"waiting", "exited"}
       /\ Len(inbox[g]) = 1
  /\ windows /\ pc \in {"popen", "start", "request"} =>
       child[g] \in {"boot", "waiting", "exited"} /\ Len(outbox[g]) + Seen[pc] <= 1

(* During read() the command is on its way, being served, answered, or lost *)
(* with the child.                                                          *)
Serving(g) ==
  \/ /\ inbox[g] = <<Message("read", asked)>> /\ outbox[g] = <<>>
     /\ child[g] \in {"idle", "exited"}
  \/ /\ inbox[g] = <<>> /\ outbox[g] = <<>>
     /\ child[g] = "exited" \/ (child[g] = "reading" /\ job[g] = asked)
  \/ /\ inbox[g] = <<>> /\ Len(outbox[g]) = 1 /\ outbox[g][1].n = asked
     /\ child[g] \in {"idle", "exited"} \/ (child[g] = "leaving" /\ outbox[g][1].kind = "fatal")

Dialogue ==
  /\ pc \in DOMAIN Seen => Greeting(Cur)
  /\ pc = "reading" => Serving(process)

(* Only a living child is inside send(). *)
WritingInv == writing \subseteq Live

IInv ==
  TypeOK /\ Launched /\ PlaceInv /\ WritingInv /\ NoStrayWorker /\ Dialogue /\ ReplyOfItsRequest

-----------------------------------------------------------------------------
LEMMA CurrentIsWorker ==
  ASSUME TypeOK, PlaceInv
  PROVE  /\ pc \in DOMAIN Seen => Cur \in ends
         /\ ends \subseteq Workers
         /\ process # 0 => process \in Workers
  BY WorkerAssumption DEF TypeOK, PlaceInv, Seen, Cur, Workers

LEMMA InitHolds == Init => IInv
<1> SUFFICES ASSUME Init PROVE IInv
  OBVIOUS
<1>1. TypeOK
  <2>1. 0 \in 0..MaxWorkers /\ 0 \in 0..0
    BY WorkerAssumption
  <2>2. <<>> \in Seq(Messages)
    OBVIOUS
  <2>3. child \in [Workers -> ChildPlaces] /\ job \in [Workers -> Nat]
    BY DEF Init, ChildPlaces
  <2>4. QED
    BY <2>1, <2>2, <2>3 DEF Init, TypeOK, Places, Outcomes
<1>2. Launched /\ PlaceInv /\ WritingInv /\ NoStrayWorker /\ Dialogue /\ ReplyOfItsRequest
  BY WorkerAssumption DEF Init, Launched, PlaceInv, WritingInv, NoStrayWorker, Dialogue, ReplyOfItsRequest,
     Live, Workers, Seen
<1>3. QED
  BY <1>1, <1>2 DEF IInv

(* _terminate_worker() of the child that the call deals with, at the end of *)
(* a call that does not answer with a reply.                                *)
LEMMA TerminateKeeps ==
  ASSUME IInv, NEW g \in Workers, NEW o \in Outcomes \ {"frame", "recoverable"},
         g = process \/ (pc = "popen" /\ g = newest), child[g] # "none",
         Terminate(g, o), UNCHANGED <<workers, inbox, history, death>>
  PROVE  IInv'
<1> USE DEF workers, history, death
<1>1. /\ process' \in {0, g} /\ pc' \in {"idle", "terminating"} /\ outcome' = o /\ stream' = FALSE
      /\ stuck' \in BOOLEAN /\ polled' = FALSE /\ ends' = ends \ {g} /\ outbox' = [outbox EXCEPT ![g] = <<>>]
      /\ pc' = "idle" => process' = 0 /\ child[g] = "exited"
      /\ pc' = "terminating" => process' = g
  <2>1. stuck \in BOOLEAN
    BY DEF IInv, TypeOK
  <2>2. CASE child[g] = "exited" /\ Forget(o)
    BY <2>2 DEF Terminate, Forget
  <2>3. CASE pc' = "terminating"
    BY <2>1, <2>3 DEF Terminate, Forget
  <2>4. QED
    BY <2>2, <2>3 DEF Terminate, Exited
<1>2. TypeOK'
  <2>1. process' \in 0..newest
    BY <1>1 DEF IInv, TypeOK, Launched, Workers
  <2>2. outbox' \in [Workers -> Seq(Messages)]
    BY <1>1 DEF IInv, TypeOK
  <2>3. QED
    BY <1>1, <2>1, <2>2 DEF IInv, TypeOK, Places
<1>3. Launched'
  BY <1>1 DEF IInv, TypeOK, Launched
<1>4. PlaceInv'
  BY <1>1, WorkerAssumption DEF PlaceInv, Workers
<1>5. NoStrayWorker'
  <2> SUFFICES ASSUME NEW h \in (Live \ orphans)' PROVE (h = process)'
    BY DEF NoStrayWorker
  <2>1. h = g
    BY WorkerAssumption DEF IInv, PlaceInv, NoStrayWorker, Live, Workers
  <2>2. child[g] # "exited"
    BY <2>1 DEF Live
  <2>3. QED
    BY <1>1, <2>1, <2>2
<1>6. Dialogue' /\ ReplyOfItsRequest' /\ WritingInv'
  BY <1>1 DEF Dialogue, ReplyOfItsRequest, Seen, IInv, WritingInv, Live
<1>7. QED
  BY <1>2, <1>3, <1>4, <1>5, <1>6 DEF IInv

-----------------------------------------------------------------------------
(* Steps of a child. *)

LEMMA ReplyAppends ==
  ASSUME TypeOK, NEW g \in Workers, NEW m \in Messages, Reply(g, m)
  PROVE  /\ outbox' \in [Workers -> Seq(Messages)] /\ writing' \in SUBSET Workers
         /\ \A h \in Workers \ {g} :
              outbox'[h] = outbox[h] /\ (h \in writing' <=> h \in writing)
         /\ g \in ends => outbox'[g] = Append(outbox[g], m)
<1>1. outbox \in [Workers -> Seq(Messages)] /\ writing \in SUBSET Workers
  BY DEF TypeOK
<1>2. Append(outbox[g], m) \in Seq(Messages)
  BY <1>1
<1>3. CASE g \in ends
  BY <1>1, <1>2, <1>3 DEF Reply
<1>4. CASE g \notin ends
  BY <1>1, <1>4 DEF Reply
<1>5. QED
  BY <1>3, <1>4

LEMMA InboxTail ==
  ASSUME TypeOK, NEW g \in Workers, inbox[g] # <<>>, inbox' = [inbox EXCEPT ![g] = Tail(@)]
  PROVE  /\ inbox' \in [Workers -> Seq(Messages)] /\ Head(inbox[g]) \in Messages
         /\ \A h \in Workers \ {g} : inbox'[h] = inbox[h]
         /\ inbox'[g] = Tail(inbox[g])
<1>1. inbox[g] \in Seq(Messages)
  BY DEF TypeOK
<1>2. Tail(inbox[g]) \in Seq(Messages) /\ Head(inbox[g]) \in Messages
  BY <1>1
<1>3. QED
  BY <1>2 DEF TypeOK

(* What a child leaves when its last message is cut off. *)
LEMMA FrontOf ==
  ASSUME NEW s \in Seq(Messages), NEW m \in Nat, m <= Len(s)
  PROVE  /\ SubSeq(s, 1, m) \in Seq(Messages) /\ Len(SubSeq(s, 1, m)) = m
         /\ \A k \in 1..m : SubSeq(s, 1, m)[k] = s[k]
  BY SMTT(20)

(* A child that dies takes back what it had not finished to write. *)
LEMMA ExitEffect ==
  ASSUME TypeOK, NEW g \in Workers, Exit(g)
  PROVE  /\ child'[g] = "exited" /\ inbox'[g] = <<>> /\ writing' = writing \ {g}
         /\ outbox' \in [Workers -> Seq(Messages)]
         /\ \A h \in Workers \ {g} : outbox'[h] = outbox[h]
         /\ outbox[g] = <<>> => outbox'[g] = <<>>
         /\ Len(outbox'[g]) \in {Len(outbox[g]), Len(outbox[g]) - 1}
         /\ Len(outbox'[g]) = Len(outbox[g]) => outbox'[g] = outbox[g]
         /\ \A k \in 1..Len(outbox'[g]) : k \in 1..Len(outbox[g]) /\ outbox'[g][k] = outbox[g][k]
<1>1. child'[g] = "exited" /\ inbox'[g] = <<>> /\ writing' = writing \ {g}
  BY DEF Exit, Become, TypeOK
<1>2. outbox \in [Workers -> Seq(Messages)] /\ outbox[g] \in Seq(Messages)
  BY DEF TypeOK
<1>3. CASE outbox' = outbox
  BY <1>1, <1>2, <1>3
<1>4. CASE outbox[g] # <<>> /\ outbox' = [outbox EXCEPT ![g] = SubSeq(@, 1, Len(@) - 1)]
  <2> DEFINE rest == SubSeq(outbox[g], 1, Len(outbox[g]) - 1)
  <2>1. Len(outbox[g]) \in Nat \ {0}
    BY <1>2, <1>4, EmptySeq
  <2>2. /\ rest \in Seq(Messages) /\ Len(rest) = Len(outbox[g]) - 1
        /\ \A k \in 1..Len(rest) : rest[k] = outbox[g][k]
    <3>1. Len(outbox[g]) - 1 \in Nat /\ Len(outbox[g]) - 1 <= Len(outbox[g])
      BY <2>1
    <3>2. QED
      BY <1>2, <3>1, FrontOf
  <2>3. outbox'[g] = rest /\ \A h \in Workers \ {g} : outbox'[h] = outbox[h]
    BY <1>2, <1>4
  <2>4. outbox' \in [Workers -> Seq(Messages)]
    BY <1>2, <1>4, <2>2
  <2> HIDE DEF rest
  <2>5. QED
    BY <1>1, <1>4, <2>1, <2>2, <2>3, <2>4
<1>5. QED
  BY <1>3, <1>4 DEF Exit

(* A child changes nothing of the backend, and nothing of another child. *)
OnlyOf(g) ==
  /\ UNCHANGED <<pc, outcome, polled, backend, newest, history, death>>
  /\ g \in Live
  /\ child'[g] \in ChildPlaces \ {"none"}
  /\ \A h \in Workers \ {g} :
       /\ child'[h] = child[h] /\ job'[h] = job[h] /\ (h \in writing' <=> h \in writing)
       /\ inbox'[h] = inbox[h] /\ outbox'[h] = outbox[h]

LEMMA ChildFrame ==
  ASSUME IInv, NEW g \in Workers, Child(g) \/ Die(g)
  PROVE  OnlyOf(g) /\ TypeOK'
<1> USE DEF Owner, Become, Live, ChildPlaces, OnlyOf
<1>0. TypeOK /\ child \in [Workers -> ChildPlaces] /\ job \in [Workers -> Nat]
      /\ writing \in SUBSET Workers
      /\ inbox \in [Workers -> Seq(Messages)] /\ outbox \in [Workers -> Seq(Messages)]
  BY DEF IInv, TypeOK
<1>t. ASSUME UNCHANGED <<pc, outcome, polled, backend, newest, history, death>>,
             writing' \in SUBSET Workers, child' \in [Workers -> ChildPlaces], job' \in [Workers -> Nat],
             inbox' \in [Workers -> Seq(Messages)], outbox' \in [Workers -> Seq(Messages)]
      PROVE  TypeOK'
  BY <1>0, <1>t DEF TypeOK, backend, history, death
<1>1. CASE Boot(g)
  <2>1. Message("worker_started", 0) \in Messages
    BY DEF Message, Messages
  <2>2. QED
    BY <1>0, <1>1, <1>t, <2>1, ReplyAppends DEF Boot
<1>2. CASE TakeRequest(g)
  BY <1>0, <1>2, <1>t, InboxTail DEF TakeRequest
<1>3. CASE Prepare(g)
  <2>1. /\ Message(Announces[child[g]], 0) \in Messages
        /\ Message(Errors[child[g]], 0) \in Messages /\ Enters[child[g]] \in ChildPlaces \ {"none"}
        /\ child[g] \notin {"none", "exited"}
    BY <1>3 DEF Prepare, Announces, Errors, Enters, Message, Messages
  <2>2. /\ outbox' \in [Workers -> Seq(Messages)] /\ writing' \in SUBSET Workers
        /\ \A h \in Workers \ {g} :
             outbox'[h] = outbox[h] /\ (h \in writing' <=> h \in writing)
    BY <1>0, <1>3, <2>1, ReplyAppends DEF Prepare
  <2>3. QED
    BY <1>0, <1>3, <1>t, <2>1, <2>2 DEF Prepare
<1>4. CASE TakeCommand(g)
  <2>1. Head(inbox[g]).n \in Nat
    BY <1>0, <1>4, InboxTail DEF TakeCommand, Messages
  <2>2. QED
    BY <1>0, <1>4, <1>t, <2>1, InboxTail DEF TakeCommand
<1>5. CASE ReadDevice(g)
  <2>1. \A kind \in {"frame", "recoverable", "disconnected", "fatal"} :
          Message(kind, job[g]) \in Messages
    BY <1>0 DEF Message, Messages
  <2>2. /\ outbox' \in [Workers -> Seq(Messages)] /\ writing' \in SUBSET Workers
        /\ \A h \in Workers \ {g} :
             outbox'[h] = outbox[h] /\ (h \in writing' <=> h \in writing)
    BY <1>0, <1>5, <2>1, ReplyAppends DEF ReadDevice
  <2>3. QED
    BY <1>0, <1>5, <1>t, <2>2 DEF ReadDevice
<1>6. CASE NoticeEnd(g)
  BY <1>0, <1>6, <1>t DEF NoticeEnd, pipes
<1>7. CASE Leave(g) \/ Die(g)
  <2>1. <<>> \in Seq(Messages)
    OBVIOUS
  <2>2. Exit(g) /\ g \in Live
    BY <1>7 DEF Leave, Die
  <2>3. /\ child' = [child EXCEPT ![g] = "exited"] /\ job' = [job EXCEPT ![g] = 0]
        /\ inbox' = [inbox EXCEPT ![g] = <<>>] /\ writing' = writing \ {g}
        /\ UNCHANGED <<pc, outcome, polled, backend, newest, history, death>>
    BY <2>2 DEF Exit
  <2>4. inbox' \in [Workers -> Seq(Messages)] /\ job' \in [Workers -> Nat]
        /\ child' \in [Workers -> ChildPlaces] /\ writing' \in SUBSET Workers
    BY <1>0, <2>1, <2>3
  <2>5. /\ outbox' \in [Workers -> Seq(Messages)]
        /\ \A h \in Workers \ {g} : outbox'[h] = outbox[h]
    BY <1>0, <2>2, ExitEffect
  <2>6. TypeOK'
    BY <1>0, <1>t, <2>3, <2>4, <2>5
  <2>7. QED
    BY <1>0, <2>2, <2>3, <2>5, <2>6
<1>8. CASE FinishMessage(g)
  <2>1. child[g] \notin {"none", "exited"}
    BY <1>8 DEF IInv, WritingInv, FinishMessage
  <2>2. /\ writing' = writing \ {g} /\ UNCHANGED <<child, job, inbox, outbox>>
        /\ UNCHANGED <<pc, outcome, polled, backend, newest, history, death>>
    BY <1>8 DEF FinishMessage, pipes
  <2>3. TypeOK'
    BY <1>0, <1>t, <2>2
  <2>4. QED
    BY <1>0, <2>1, <2>2, <2>3
<1>9. QED
  BY <1>1, <1>2, <1>3, <1>4, <1>5, <1>6, <1>7, <1>8 DEF Child

(* The handshake goes on, with the parent's side at rest. *)
LEMMA ChildGreets ==
  ASSUME IInv, NEW g \in Workers, g = Cur, pc \in DOMAIN Seen, Child(g) \/ Die(g)
  PROVE  Greeting(g)'
<1> USE DEF Become
<1>1. /\ TypeOK /\ g \in ends /\ Greeting(g) /\ Seen[pc] \in 0..3
      /\ child \in [Workers -> ChildPlaces] /\ outbox[g] \in Seq(Messages)
      /\ inbox[g] \in Seq(Messages)
  BY CurrentIsWorker DEF IInv, Dialogue, Seen, TypeOK
<1>2. pc' = pc /\ windows' = windows
  BY ChildFrame DEF OnlyOf, death
<1>3. CASE Boot(g)
  <2>1. outbox[g] = <<>> /\ Seen[pc] = 0 /\ inbox[g] = <<>>
    BY <1>1, <1>3 DEF Boot, Greeting, Sent
  <2>2. Message("worker_started", 0) \in Messages /\ Message("worker_started", 0).kind # "configured"
    BY DEF Message, Messages
  <2>3. outbox'[g] = <<Message("worker_started", 0)>> /\ inbox'[g] = <<>>
    BY <1>1, <1>3, <2>1, <2>2, ReplyAppends DEF Boot
  <2>4. child'[g] = IF windows THEN "waiting" ELSE "loading"
    BY <1>1, <1>3 DEF Boot
  <2>5. QED
    BY <1>2, <2>1, <2>2, <2>3, <2>4 DEF Greeting, Sent, Seen
<1>4. CASE TakeRequest(g)
  <2>1. pc = "backend" /\ outbox[g] = <<>> /\ Len(inbox[g]) = 1
    BY <1>1, <1>4 DEF TakeRequest, Greeting
  <2>2. inbox'[g] = <<>>
    <3>1. Tail(inbox[g]) = <<>>
      <4>1. Tail(inbox[g]) \in Seq(Messages) /\ Len(Tail(inbox[g])) = 0
        BY <1>1, <2>1
      <4>2. QED
        BY <4>1, EmptySeq
    <3>2. QED
      BY <1>1, <1>4, <3>1, InboxTail DEF TakeRequest
  <2>3. child'[g] = "loading" /\ outbox'[g] = <<>>
    BY <1>1, <1>4, <2>1 DEF TakeRequest
  <2>4. QED
    BY <1>2, <2>1, <2>2, <2>3 DEF Greeting, Sent, Seen
<1>5. CASE Prepare(g)
  <2>1. /\ child[g] \in {"loading", "opening", "configuring"} /\ inbox[g] = <<>> /\ inbox'[g] = <<>>
        /\ Len(outbox[g]) = Sent[child[g]] - Seen[pc]
        /\ \A k \in 1..Len(outbox[g]) : outbox[g][k].kind # "configured"
        /\ ~(windows /\ pc \in {"popen", "start", "request"})
    BY <1>1, <1>5 DEF Prepare, Announces, Greeting, Sent
  <2>2. CASE Reply(g, Message(Announces[child[g]], 0)) /\ Become(g, Enters[child[g]])
    <3> DEFINE m == Message(Announces[child[g]], 0)
    <3>1. m \in Messages /\ (m.kind = "configured" => child[g] = "configuring")
      BY <2>1 DEF Announces, Message, Messages
    <3>2. outbox'[g] = Append(outbox[g], m)
      BY <1>1, <2>2, <3>1, ReplyAppends
    <3>3. child'[g] \in {"opening", "configuring", "idle"} /\ Sent[child'[g]] = Sent[child[g]] + 1
      BY <1>1, <2>1, <2>2 DEF Enters, Sent
    <3>4. child[g] = "configuring" => child'[g] = "idle" /\ Sent[child[g]] = 3
      BY <1>1, <2>1, <2>2 DEF Enters, Sent
    <3>5. Len(outbox'[g]) = Len(outbox[g]) + 1 /\ outbox'[g][Len(outbox[g]) + 1] = m
          /\ \A k \in 1..Len(outbox[g]) : outbox'[g][k] = outbox[g][k]
      BY <1>1, <3>1, <3>2
    <3> HIDE DEF m
    <3>6. Len(outbox'[g]) = Sent[child'[g]] - Seen[pc]
      BY <1>1, <2>1, <3>3, <3>5 DEF Sent
    <3>7. \A k \in 1..Len(outbox'[g]) : outbox'[g][k].kind = "configured" =>
            k = Len(outbox'[g]) /\ Seen[pc] + k = 4 /\ child'[g] = "idle"
      BY <1>1, <2>1, <3>1, <3>4, <3>5
    <3>8. QED
      BY <1>2, <2>1, <3>3, <3>6, <3>7 DEF Greeting, Sent
  <2>3. CASE Reply(g, Message(Errors[child[g]], 0)) /\ Become(g, "leaving")
    <3> DEFINE m == Message(Errors[child[g]], 0)
    <3>1. m \in Messages /\ m.kind # "configured"
      BY <2>1 DEF Errors, Message, Messages
    <3>2. outbox'[g] = Append(outbox[g], m)
      BY <1>1, <2>3, <3>1, ReplyAppends
    <3>3. child'[g] = "leaving"
      BY <1>1, <2>3
    <3>4. \A k \in 1..Len(outbox'[g]) : outbox'[g][k].kind # "configured"
      BY <1>1, <2>1, <3>1, <3>2
    <3>5. QED
      BY <1>2, <2>1, <3>3, <3>4 DEF Greeting, Sent
  <2>4. QED
    BY <1>5, <2>2, <2>3 DEF Prepare
<1>6. ~TakeCommand(g) /\ ~ReadDevice(g) /\ ~NoticeEnd(g)
  BY <1>1 DEF TakeCommand, ReadDevice, NoticeEnd, Greeting, Sent
<1>7. CASE Leave(g) \/ Die(g)
  <2>1. /\ child'[g] = "exited" /\ inbox'[g] = <<>>
        /\ Len(outbox'[g]) \in {Len(outbox[g]), Len(outbox[g]) - 1}
        /\ Len(outbox'[g]) = Len(outbox[g]) => outbox'[g] = outbox[g]
        /\ \A k \in 1..Len(outbox'[g]) : k \in 1..Len(outbox[g]) /\ outbox'[g][k] = outbox[g][k]
    BY <1>1, <1>7, ExitEffect DEF Leave, Die
  <2>2. child[g] # "exited" /\ (child[g] = "leaving" =>
          \A k \in 1..Len(outbox[g]) : outbox[g][k].kind # "configured")
    BY <1>1, <1>7 DEF Leave, Die, Live, Greeting
  <2>3. \A k \in 1..Len(outbox'[g]) : outbox'[g][k].kind = "configured" =>
          k = Len(outbox'[g]) /\ Seen[pc] + k = 4
    <3>1. Len(outbox[g]) \in Nat
      BY <1>1
    <3>2. ASSUME NEW k \in 1..Len(outbox'[g]), outbox'[g][k].kind = "configured"
          PROVE  k = Len(outbox[g]) /\ Seen[pc] + k = 4 /\ k \in Nat /\ k <= Len(outbox'[g])
      BY <1>1, <2>1, <3>1, <3>2 DEF Greeting
    <3>3. QED
      BY <2>1, <3>1, <3>2
  <2>4. windows /\ pc \in {"popen", "start", "request"} => Len(outbox'[g]) + Seen[pc] <= 1
    BY <1>1, <2>1 DEF Greeting
  <2>5. QED
    BY <1>2, <2>1, <2>3, <2>4 DEF Greeting, Sent
<1>8. CASE FinishMessage(g)
  <2>1. UNCHANGED <<child, inbox, outbox>>
    BY <1>8 DEF FinishMessage, pipes
  <2>2. QED
    BY <1>1, <1>2, <2>1 DEF Greeting
<1>9. QED
  BY <1>3, <1>4, <1>5, <1>6, <1>7, <1>8 DEF Child

(* A command is served, and its reply sent or lost. *)
LEMMA ChildServes ==
  ASSUME IInv, NEW g \in Workers, g = process, pc = "reading", Child(g) \/ Die(g)
  PROVE  Serving(g)'
<1> USE DEF Become
<1>1. /\ TypeOK /\ g \in ends /\ Serving(g)
      /\ child \in [Workers -> ChildPlaces] /\ outbox[g] \in Seq(Messages)
      /\ inbox[g] \in Seq(Messages) /\ job \in [Workers -> Nat] /\ asked \in Nat
  BY DEF IInv, Dialogue, PlaceInv, TypeOK
<1>2. asked' = asked
  BY ChildFrame DEF OnlyOf, history
<1>3. CASE TakeCommand(g)
  <2>1. inbox[g] = <<Message("read", asked)>> /\ outbox[g] = <<>>
    BY <1>1, <1>3 DEF TakeCommand, Serving
  <2>2. Head(inbox[g]) = Message("read", asked) /\ Tail(inbox[g]) = <<>>
    BY <2>1
  <2>3. inbox'[g] = <<>> /\ child'[g] = "reading" /\ job'[g] = asked /\ outbox'[g] = <<>>
    <3>1. Head(inbox[g]).kind = "read" /\ Head(inbox[g]).n = asked
      BY <2>2 DEF Message
    <3>2. inbox'[g] = Tail(inbox[g])
      BY <1>1, <1>3, InboxTail DEF TakeCommand
    <3>3. /\ child' = [child EXCEPT ![g] = "reading"] /\ job' = [job EXCEPT ![g] = asked]
          /\ outbox' = outbox
      BY <1>3, <3>1 DEF TakeCommand
    <3>4. QED
      BY <1>1, <2>1, <2>2, <3>2, <3>3
  <2>4. QED
    BY <1>2, <2>3 DEF Serving
<1>4. CASE ReadDevice(g)
  <2>1. inbox[g] = <<>> /\ outbox[g] = <<>> /\ job[g] = asked /\ inbox'[g] = <<>>
    BY <1>1, <1>4 DEF ReadDevice, Serving
  <2>2. PICK kind \in {"frame", "recoverable", "disconnected", "fatal"} :
          /\ Reply(g, Message(kind, asked))
          /\ child'[g] = IF kind = "fatal" THEN "leaving" ELSE "idle"
    BY <1>1, <1>4, <2>1 DEF ReadDevice
  <2>3. /\ Message(kind, asked) \in Messages
        /\ Message(kind, asked).n = asked /\ Message(kind, asked).kind = kind
    BY <1>1 DEF Message, Messages
  <2>4. outbox'[g] = <<Message(kind, asked)>>
    BY <1>1, <2>1, <2>2, <2>3, ReplyAppends
  <2>5. QED
    BY <1>2, <2>1, <2>2, <2>3, <2>4 DEF Serving
<1>5. ~Boot(g) /\ ~TakeRequest(g) /\ ~Prepare(g) /\ ~NoticeEnd(g)
  BY <1>1 DEF Boot, TakeRequest, Prepare, Announces, NoticeEnd, Serving
<1>6. CASE Leave(g) \/ Die(g)
  <2>1. child'[g] = "exited" /\ inbox'[g] = <<>>
    BY <1>1, <1>6, ExitEffect DEF Leave, Die
  <2>2. CASE outbox[g] = <<>>
    <3>1. outbox'[g] = <<>>
      BY <1>1, <1>6, <2>2, ExitEffect DEF Leave, Die
    <3>2. QED
      BY <2>1, <3>1 DEF Serving
  <2>3. CASE outbox[g] # <<>>
    <3>1. Len(outbox[g]) = 1 /\ outbox[g][1].n = asked
      BY <1>1, <2>3 DEF Serving
    <3>2. /\ outbox'[g] \in Seq(Messages) /\ Len(outbox'[g]) \in {1, 1 - 1}
          /\ Len(outbox'[g]) = 1 => outbox'[g] = outbox[g]
      <4>1. Exit(g)
        BY <1>6 DEF Leave, Die
      <4>2. /\ outbox' \in [Workers -> Seq(Messages)]
            /\ Len(outbox'[g]) \in {Len(outbox[g]), Len(outbox[g]) - 1}
            /\ Len(outbox'[g]) = Len(outbox[g]) => outbox'[g] = outbox[g]
        BY <1>1, <4>1, ExitEffect
      <4>3. QED
        BY <3>1, <4>2
    <3>3. outbox'[g] = outbox[g] \/ outbox'[g] = <<>>
      BY <3>2, EmptySeq
    <3>4. QED
      BY <1>2, <2>1, <3>1, <3>3 DEF Serving
  <2>4. QED
    BY <2>2, <2>3
<1>7. CASE FinishMessage(g)
  <2>1. UNCHANGED <<child, job, inbox, outbox>>
    BY <1>7 DEF FinishMessage, pipes
  <2>2. QED
    BY <1>1, <1>2, <2>1 DEF Serving
<1>8. QED
  BY <1>3, <1>4, <1>5, <1>6, <1>7 DEF Child

LEMMA ChildKeeps ==
  ASSUME IInv, NEW g \in Workers, Child(g) \/ Die(g) PROVE IInv'
<1>1. TypeOK' /\ OnlyOf(g)
  BY ChildFrame
<1>2. /\ pc' = pc /\ outcome' = outcome /\ process' = process /\ stream' = stream /\ ends' = ends
      /\ newest' = newest /\ asked' = asked /\ returned' = returned /\ orphans' = orphans
      /\ windows' = windows /\ Cur' = Cur
  BY <1>1 DEF OnlyOf, backend, history, death, Cur
<1>3. Launched'
  BY <1>1, <1>2 DEF IInv, Launched, OnlyOf, Live
<1>4. PlaceInv' /\ NoStrayWorker'
  BY <1>1, <1>2 DEF IInv, PlaceInv, NoStrayWorker, OnlyOf, Live
<1>w. WritingInv'
  <2>1. child'[g] # "exited" \/ g \notin writing'
    <3>1. CASE Leave(g) \/ Die(g)
      BY <3>1, ExitEffect DEF Leave, Die, IInv
    <3>2. CASE FinishMessage(g)
      BY <3>2 DEF FinishMessage
    <3>3. CASE Boot(g) \/ TakeRequest(g) \/ Prepare(g) \/ TakeCommand(g) \/ ReadDevice(g)
                 \/ NoticeEnd(g)
      BY <3>3 DEF Boot, TakeRequest, Prepare, TakeCommand, ReadDevice, NoticeEnd, Become, Enters,
         Announces, IInv, TypeOK
    <3>4. QED
      BY <3>1, <3>2, <3>3 DEF Child
  <2>2. QED
    BY <1>1, <2>1 DEF IInv, TypeOK, WritingInv, OnlyOf, Live
<1>5. pc \in DOMAIN Seen => Greeting(Cur)'
  <2>1. CASE g = Cur
    BY <1>2, <2>1, ChildGreets
  <2>2. ASSUME g # Cur, pc \in DOMAIN Seen PROVE Greeting(Cur)'
    <3>1. Cur \in Workers \ {g} /\ Greeting(Cur)
      BY <2>2, CurrentIsWorker DEF IInv, Dialogue
    <3>2. QED
      BY <1>1, <1>2, <3>1 DEF OnlyOf, Greeting
  <2>3. QED
    BY <2>1, <2>2
<1>6. pc = "reading" => Serving(process)'
  <2>1. CASE g = process
    BY <1>2, <2>1, ChildServes
  <2>2. ASSUME g # process, pc = "reading" PROVE Serving(process)'
    <3>1. process \in Workers \ {g} /\ Serving(process)
      BY <2>2, CurrentIsWorker DEF IInv, Dialogue, PlaceInv
    <3>2. QED
      BY <1>1, <1>2, <3>1 DEF OnlyOf, Serving
  <2>3. QED
    BY <2>1, <2>2
<1>7. ReplyOfItsRequest'
  <2>1. ASSUME pc = "idle", stream
        PROVE  /\ child'[process] \in {"idle", "exited"} /\ process \notin writing'
               /\ inbox'[process] = <<>> /\ outbox'[process] = <<>>
    <3>1. /\ process \in Workers /\ process \in ends /\ child[process] \in {"idle", "exited"}
          /\ process \notin writing
          /\ inbox[process] = <<>> /\ outbox[process] = <<>>
      BY <2>1, CurrentIsWorker DEF IInv, ReplyOfItsRequest, PlaceInv
    <3>2. CASE g # process
      BY <1>1, <3>1, <3>2 DEF OnlyOf
    <3>3. CASE g = process
      <4>1. Die(g)
        BY <3>1, <3>3 DEF Child, FinishMessage, Boot, TakeRequest, Prepare, Announces, TakeCommand,
           ReadDevice, NoticeEnd, Leave
      <4>2. QED
        BY <3>1, <3>3, <4>1, ExitEffect DEF Die, IInv
    <3>4. QED
      BY <3>2, <3>3
  <2>2. QED
    BY <1>2, <2>1 DEF IInv, ReplyOfItsRequest, Connected
<1>8. QED
  BY <1>1, <1>2, <1>3, <1>4, <1>w, <1>5, <1>6, <1>7 DEF IInv, Dialogue

-----------------------------------------------------------------------------
(* Steps of the parent. *)

LEMMA KnownChild ==
  ASSUME IInv, process # 0
  PROVE  process \in Workers /\ child[process] # "none" /\ process <= newest
<1>1. process \in Workers /\ process \in 0..newest /\ newest \in Nat /\ process \in Nat
  BY CurrentIsWorker, WorkerAssumption DEF IInv, TypeOK
<1>2. QED
  BY <1>1 DEF IInv, Launched

(* A step that leaves the children and the pipes alone, and no dialogue.    *)
LEMMA QuietKeeps ==
  ASSUME IInv, UNCHANGED <<workers, pipes, history, death, process, ends>>,
         pc' \in {"idle", "launch", "killing"}, outcome' \in Outcomes, stuck' \in BOOLEAN,
         polled' \in BOOLEAN, stream' = stream, stream => pc = "idle" /\ pc' = "idle",
         pc' = "launch" => process = 0,
         pc' = "killing" => process # 0 /\ outcome' \notin {"frame", "recoverable"},
         pc # "popen",
         outcome' \notin {"frame", "recoverable"} \/ (pc' # "idle" /\ outcome' = outcome)
  PROVE  IInv'
<1> USE DEF workers, pipes, history, death
<1>1. TypeOK'
  BY DEF IInv, TypeOK, Places
<1>2. Launched' /\ PlaceInv' /\ WritingInv' /\ NoStrayWorker'
  BY DEF IInv, Launched, PlaceInv, WritingInv, NoStrayWorker, Live
<1>3. Dialogue' /\ ReplyOfItsRequest'
  BY DEF IInv, Dialogue, Seen, ReplyOfItsRequest, Connected
<1>4. QED
  BY <1>1, <1>2, <1>3 DEF IInv

LEMMA OpenKeeps == ASSUME IInv, Open PROVE IInv'
<1>1. /\ pc = "idle" /\ polled' \in BOOLEAN /\ stuck' \in BOOLEAN /\ pc' \in {"idle", "launch"}
      /\ UNCHANGED <<backend, workers, pipes, history, death>>
      /\ pc' = "launch" => process = 0 /\ outcome' = outcome
      /\ pc' = "idle" => outcome' \in {"state_error", "deadline"}
  BY DEF Open, Answer, IInv, TypeOK, backend
<1>2. outcome' \in Outcomes
  BY <1>1 DEF IInv, TypeOK, Outcomes
<1>3. stream => process # 0
  <2>1. ends \subseteq Workers /\ (stream => process \in ends)
    BY CurrentIsWorker DEF IInv, PlaceInv
  <2>2. QED
    BY <2>1, WorkerAssumption DEF Workers
<1>4. QED
  BY <1>1, <1>2, <1>3, QuietKeeps DEF backend

LEMMA CloseKeeps == ASSUME IInv, CloseNothing \/ Close PROVE IInv'
<1>1. CASE CloseNothing
  BY <1>1, QuietKeeps DEF CloseNothing, Answer, IInv, TypeOK, Outcomes, PlaceInv, backend
<1>2. CASE Close
  <2> USE <1>2 DEF workers, history, death, backend
  <2>1. process \in Workers /\ process <= newest /\ newest \in Nat
    BY KnownChild DEF Close, IInv, TypeOK
  <2>2. /\ inbox' \in [Workers -> Seq(Messages)]
        /\ \A g \in Workers : g # process => inbox'[g] = inbox[g]
    <3>1. Message("close", 0) \in Messages
      BY DEF Message, Messages
    <3>2. QED
      BY <2>1, <3>1 DEF Close, IInv, TypeOK
  <2>3. TypeOK'
    BY <2>2 DEF Close, IInv, TypeOK, Places
  <2>4. Launched'
    BY <2>1, <2>2, WorkerAssumption DEF Close, IInv, Launched, Workers
  <2>5. PlaceInv' /\ WritingInv' /\ NoStrayWorker' /\ Dialogue' /\ ReplyOfItsRequest'
    BY DEF Close, IInv, PlaceInv, WritingInv, NoStrayWorker, Live, Dialogue, Seen, ReplyOfItsRequest
  <2>6. QED
    BY <2>3, <2>4, <2>5 DEF IInv
<1>3. QED
  BY <1>1, <1>2

LEMMA LaunchKeeps == ASSUME IInv, Launch PROVE IInv'
<1> USE DEF history, death, pipes
<1>1. /\ newest \in Nat /\ newest' = newest + 1 /\ newest' \in Workers /\ newest' \in 1..MaxWorkers
      /\ process = 0 /\ stream = FALSE /\ pc = "launch" /\ windows \in BOOLEAN
      /\ child \in [Workers -> ChildPlaces]
  BY WorkerAssumption DEF Launch, IInv, TypeOK, PlaceInv, Workers
<1>2. /\ child' = [child EXCEPT ![newest'] = "boot"] /\ ends' = ends \cup {newest'}
      /\ pc' = IF windows THEN "popen" ELSE "start"
      /\ process' = IF windows THEN 0 ELSE newest'
      /\ UNCHANGED <<outcome, polled, stream, stuck, job, writing, pipes, history, death>>
  BY <1>1 DEF Launch
<1>3. TypeOK'
  <2>1. process' \in 0..newest' /\ ends' \in SUBSET (1..newest') /\ newest' \in 0..MaxWorkers
    <3> DEFINE n == newest + 1
    <3>1. n \in 1..n /\ n \in 0..n /\ 0 \in 0..n /\ 1..newest \subseteq 1..n
      BY <1>1
    <3>2. n \in 0..MaxWorkers
      BY <1>1, WorkerAssumption
    <3>3. process' \in {0, n} /\ ends' = ends \cup {n} /\ ends \subseteq 1..newest /\ newest' = n
      BY <1>1, <1>2 DEF IInv, TypeOK
    <3> HIDE DEF n
    <3>4. process' \in 0..n /\ ends' \in SUBSET (1..n)
      BY <3>1, <3>3
    <3>5. QED
      BY <3>2, <3>3, <3>4
  <2>2. child' \in [Workers -> ChildPlaces]
    BY <1>1, <1>2 DEF ChildPlaces
  <2>3. QED
    BY <1>2, <2>1, <2>2 DEF IInv, TypeOK, Places
<1>4. Launched'
  BY <1>1, <1>2, WorkerAssumption DEF IInv, Launched, Workers
<1>5. PlaceInv'
  BY <1>1, <1>2 DEF IInv, PlaceInv, Workers
<1>6. NoStrayWorker'
  <2> SUFFICES ASSUME NEW g \in (Live \ orphans)', g # newest' PROVE FALSE
    BY <1>2 DEF NoStrayWorker
  <2>1. g \in Live \ orphans /\ g # 0
    BY <1>1, <1>2, WorkerAssumption DEF Live, Workers
  <2>2. QED
    BY <1>1, <2>1 DEF IInv, NoStrayWorker
<1>7. Dialogue' /\ ReplyOfItsRequest'
  <2>1. PICK g \in Workers : g = newest'
    BY <1>1
  <2>2. Cur' = g /\ pc' \in {"popen", "start"} /\ windows' = windows
    BY <1>2, <2>1 DEF Cur
  <2>3. inbox'[g] = <<>> /\ outbox'[g] = <<>> /\ child'[g] = "boot"
    BY <1>1, <1>2, <2>1 DEF IInv, Launched
  <2>4. Greeting(g)'
    BY <2>2, <2>3 DEF Greeting, Sent, Seen
  <2>5. QED
    BY <1>1, <1>2, <2>2, <2>4 DEF Dialogue, ReplyOfItsRequest
<1>8. WritingInv'
  BY <1>1, <1>2 DEF IInv, WritingInv, Live
<1>9. QED
  BY <1>3, <1>4, <1>5, <1>6, <1>7, <1>8 DEF IInv

LEMMA PopenReturnsKeeps == ASSUME IInv, PopenReturns PROVE IInv'
<1> USE DEF workers, history, death, pipes
<1>1. /\ pc = "popen" /\ pc' = "start" /\ process' = newest /\ newest \in ends /\ newest \in Nat
      /\ UNCHANGED <<outcome, polled, stream, stuck, ends, workers, pipes, history, death>>
      /\ process = 0
  BY DEF PopenReturns, IInv, PlaceInv, TypeOK
<1>2. TypeOK'
  BY <1>1 DEF IInv, TypeOK, Places
<1>3. Launched' /\ PlaceInv' /\ WritingInv'
  BY <1>1 DEF IInv, Launched, PlaceInv, WritingInv, Live
<1>4. NoStrayWorker'
  BY <1>1, WorkerAssumption DEF IInv, NoStrayWorker, Live, Workers
<1>5. Greeting(newest) /\ Cur' = newest
  BY <1>1 DEF IInv, Dialogue, Cur, Seen
<1>6. Dialogue' /\ ReplyOfItsRequest'
  BY <1>1, <1>5 DEF Dialogue, ReplyOfItsRequest, Greeting, Seen, Sent
<1>7. QED
  BY <1>2, <1>3, <1>4, <1>6 DEF IInv

(* Only the pipes of a known child change. *)
LEMMA PipesKeepLaunched ==
  ASSUME IInv, NEW g \in Workers, child[g] # "none", newest' = newest, child' = child,
         \A h \in Workers \ {g} : inbox'[h] = inbox[h] /\ outbox'[h] = outbox[h]
  PROVE  Launched'
  BY DEF IInv, Launched

LEMMA PollKeeps == ASSUME IInv, PollReturns PROVE IInv'
<1> USE DEF PollReturns, backend, workers, pipes, history, death
<1>1. TypeOK'
  BY DEF IInv, TypeOK
<1>2. Launched' /\ PlaceInv' /\ WritingInv' /\ NoStrayWorker'
  BY DEF IInv, Launched, PlaceInv, WritingInv, NoStrayWorker, Live
<1>3. Dialogue' /\ ReplyOfItsRequest'
  BY DEF IInv, Dialogue, Greeting, Serving, Cur, ReplyOfItsRequest, Connected
<1>4. QED
  BY <1>1, <1>2, <1>3 DEF IInv

LEMMA ReceiveKeeps == ASSUME IInv, Receive PROVE IInv'
<1> USE DEF workers, history, death
<1> DEFINE g == process
<1>1. /\ pc \in {"start", "backend", "device", "configure"} /\ g \in ends /\ g \in Workers
      /\ g # 0 /\ Greeting(g) /\ windows \in BOOLEAN /\ outbox \in [Workers -> Seq(Messages)]
      /\ outbox[g] \in Seq(Messages) /\ child[g] # "none"
  <2>1. pc \in {"start", "backend", "device", "configure"}
    BY DEF Receive, Expected
  <2>2. pc \in DOMAIN Seen /\ Cur = g
    BY <2>1 DEF Seen, Cur
  <2>3. g \in ends /\ g \in Workers /\ Greeting(g)
    BY <2>2, CurrentIsWorker DEF IInv, Dialogue
  <2>4. g # 0
    BY <2>3, WorkerAssumption DEF Workers
  <2>5. QED
    BY <2>1, <2>3, <2>4, KnownChild DEF IInv, TypeOK
<1>2. /\ outbox[g] # <<>> /\ outbox' = [outbox EXCEPT ![g] = Tail(@)]
      /\ g \in writing => Len(outbox[g]) > 1
      /\ polled' = FALSE /\ Head(outbox[g]).kind = Expected[pc] /\ pc' = Following[pc]
      /\ UNCHANGED <<process, stuck, ends, workers, inbox, history, death>>
  BY DEF Receive, ReceiveMessage, Whole
<1> DEFINE before == outbox[g]
           after == Tail(outbox[g])
<1>3. /\ after \in Seq(Messages) /\ Len(after) = Len(before) - 1
      /\ Len(before) \in Nat \ {0} /\ Head(before) = before[1]
      /\ \A k \in 1..Len(after) : after[k] = before[k + 1]
  BY <1>1, <1>2, HeadTailProperties
<1>4. /\ outbox' \in [Workers -> Seq(Messages)] /\ outbox'[g] = after
      /\ \A h \in Workers \ {g} : outbox'[h] = outbox[h]
  BY <1>1, <1>2, <1>3
<1>5. inbox[g] = <<>> /\ inbox'[g] = <<>>
  BY <1>1, <1>2 DEF Greeting
<1>l. Launched'
  BY <1>1, <1>2, <1>4, PipesKeepLaunched
<1>n. NoStrayWorker' /\ WritingInv'
  <2>1. /\ Live' = Live /\ orphans' = orphans /\ process' = process /\ pc # "popen"
        /\ writing' = writing
    BY <1>1, <1>2 DEF Live
  <2>2. QED
    BY <2>1 DEF IInv, NoStrayWorker, WritingInv
<1>6. CASE pc = "configure"
  <2>1. pc' = "idle" /\ outcome' = "opened" /\ stream' = TRUE
    BY <1>2, <1>6 DEF Receive, Following
  <2>2. Head(before).kind = "configured"
    BY <1>2, <1>6 DEF Expected
  <2>3. Len(before) = 1 /\ child[g] \in {"idle", "exited"} /\ g \notin writing
    <3>1. 1 \in 1..Len(before) /\ before[1].kind = "configured"
      BY <1>3, <2>2
    <3>2. Len(before) = 1 /\ child[g] \in {"idle", "exited"}
      BY <1>1, <3>1 DEF Greeting
    <3>3. QED
      BY <1>2, <3>2
  <2>4. outbox'[g] = <<>>
    <3>1. Len(after) = 0
      BY <1>3, <2>3
    <3>2. QED
      BY <1>3, <1>4, <3>1, EmptySeq
  <2>5. TypeOK'
    <3>1. pc' \in Places /\ outcome' \in Outcomes /\ stream' \in BOOLEAN
      BY <2>1 DEF Places, Outcomes
    <3>2. QED
      BY <1>2, <1>4, <3>1 DEF IInv, TypeOK
  <2>6. PlaceInv'
    BY <1>1, <1>2, <2>1 DEF PlaceInv
  <2>7. Dialogue' /\ ReplyOfItsRequest'
    BY <1>1, <1>2, <1>5, <2>1, <2>3, <2>4 DEF Dialogue, Seen, ReplyOfItsRequest, Connected
  <2>8. QED
    BY <1>l, <1>n, <2>5, <2>6, <2>7 DEF IInv
<1>7. CASE pc # "configure"
  <2>1. /\ pc' \in {"request", "backend", "device", "configure"} /\ Seen[pc'] = Seen[pc] + 1
        /\ Seen[pc] \in 0..2
        /\ pc' = "request" => windows /\ pc = "start"
        /\ pc' = "backend" => ~windows
        /\ UNCHANGED <<outcome, stream>>
    BY <1>1, <1>2, <1>7 DEF Receive, Following, Seen
  <2>2. TypeOK'
    <3>1. pc' \in Places
      BY <2>1 DEF Places
    <3>2. QED
      BY <1>2, <1>4, <2>1, <3>1 DEF IInv, TypeOK
  <2>3. stream = FALSE
    BY <1>1 DEF IInv, PlaceInv, TypeOK
  <2>4. PlaceInv' /\ ReplyOfItsRequest'
    BY <1>1, <1>2, <2>1, <2>3 DEF PlaceInv, ReplyOfItsRequest
  <2>5. ASSUME NEW k \in 1..Len(after), after[k].kind = "configured"
        PROVE  k = Len(after) /\ Seen[pc'] + k = 4 /\ child[g] \in {"idle", "exited"}
    <3>1. k + 1 \in 1..Len(before) /\ before[k + 1].kind = "configured" /\ k \in Nat
      BY <1>3, <2>5
    <3>2. k + 1 = Len(before) /\ Seen[pc] + (k + 1) = 4 /\ child[g] \in {"idle", "exited"}
      BY <1>1, <3>1 DEF Greeting
    <3>3. QED
      BY <1>3, <2>1, <3>1, <3>2
  <2>6. child[g] \in DOMAIN Sent => Len(after) = Sent[child[g]] - Seen[pc']
    <3>1. child[g] \in DOMAIN Sent => Len(before) = Sent[child[g]] - Seen[pc] /\ Sent[child[g]] \in 0..4
      BY <1>1 DEF Greeting, Sent
    <3>2. QED
      BY <1>3, <2>1, <3>1
  <2>7. windows /\ pc' \in {"popen", "start", "request"} =>
          child[g] \in {"boot", "waiting", "exited"} /\ Len(after) + Seen[pc'] <= 1
    <3>1. windows /\ pc = "start" =>
            child[g] \in {"boot", "waiting", "exited"} /\ Len(before) + Seen[pc] <= 1
      BY <1>1 DEF Greeting
    <3>2. QED
      BY <1>3, <2>1, <3>1
  <2> HIDE DEF after
  <2>8. Greeting(process)'
    <3>1. child[g] \in DOMAIN Sent \cup {"leaving", "exited"}
      BY <1>1 DEF Greeting
    <3>2. QED
      BY <1>2, <1>4, <1>5, <2>5, <2>6, <2>7, <3>1 DEF Greeting
  <2>9. Cur' = process' /\ pc' # "reading"
    BY <2>1 DEF Cur
  <2>10. QED
    BY <1>l, <1>n, <2>2, <2>4, <2>8, <2>9 DEF IInv, Dialogue
<1>8. QED
  BY <1>6, <1>7

LEMMA SendRequestKeeps == ASSUME IInv, SendRequest PROVE IInv'
<1> USE DEF workers, history, death, backend
<1> DEFINE g == process
           m == Message("request", 0)
<1>1. /\ pc = "request" /\ g \in ends /\ g \in Workers /\ Greeting(g) /\ windows /\ g # 0
      /\ inbox \in [Workers -> Seq(Messages)] /\ outbox[g] \in Seq(Messages)
      /\ child[g] # "none" /\ stream = FALSE
  <2>1. pc = "request"
    BY DEF SendRequest
  <2>2. pc \in DOMAIN Seen /\ Cur = g
    BY <2>1 DEF Seen, Cur
  <2>3. g \in ends /\ g \in Workers /\ Greeting(g)
    BY <2>2, CurrentIsWorker DEF IInv, Dialogue
  <2>4. g # 0
    BY <2>3, WorkerAssumption DEF Workers
  <2>5. windows /\ stream = FALSE
    BY <2>1 DEF IInv, PlaceInv, TypeOK
  <2>6. QED
    BY <2>1, <2>3, <2>4, <2>5, KnownChild DEF IInv, TypeOK
<1>m. m \in Messages
  BY DEF Message, Messages
<1>2. /\ inbox' = [inbox EXCEPT ![g] = Append(@, m)] /\ pc' = "backend"
      /\ UNCHANGED <<outcome, polled, process, stream, stuck, ends, workers, outbox, history, death>>
  BY DEF SendRequest
<1>3. inbox[g] = <<>> /\ Len(outbox[g]) + 1 <= 1 /\ child[g] \in {"boot", "waiting", "exited"}
  BY <1>1 DEF Greeting, Seen
<1>4. outbox[g] = <<>> /\ child[g] \in {"waiting", "exited"}
  BY <1>1, <1>3, EmptySeq DEF Greeting, Sent, Seen
<1>5. /\ inbox' \in [Workers -> Seq(Messages)] /\ inbox'[g] = <<m>>
      /\ \A h \in Workers \ {g} : inbox'[h] = inbox[h]
  BY <1>m, <1>1, <1>2, <1>3
<1>6. TypeOK'
  <2>1. pc' \in Places
    BY <1>2 DEF Places
  <2>2. QED
    BY <1>2, <1>5, <2>1 DEF IInv, TypeOK
<1>7. Launched'
  BY <1>1, <1>2, <1>5, PipesKeepLaunched
<1>8. PlaceInv' /\ WritingInv' /\ NoStrayWorker' /\ ReplyOfItsRequest'
  BY <1>1, <1>2 DEF IInv, PlaceInv, WritingInv, NoStrayWorker, Live, ReplyOfItsRequest
<1>9. Greeting(process)'
  BY <1>1, <1>2, <1>4, <1>5 DEF Greeting, Sent, Seen
<1>10. QED
  BY <1>2, <1>6, <1>7, <1>8, <1>9 DEF IInv, Dialogue, Cur

LEMMA ReadSendsKeeps == ASSUME IInv, ReadSends PROVE IInv'
<1> USE DEF workers, death, backend
<1> DEFINE g == process
           m == Message("read", asked + 1)
<1>1. /\ pc = "idle" /\ stream /\ g \in ends /\ g \in Workers /\ g # 0 /\ asked \in Nat
      /\ child[g] \in {"idle", "exited"} /\ inbox[g] = <<>> /\ outbox[g] = <<>>
      /\ inbox \in [Workers -> Seq(Messages)] /\ m \in Messages
  BY KnownChild, WorkerAssumption DEF ReadSends, IInv, PlaceInv, ReplyOfItsRequest, TypeOK, Workers,
     Message, Messages
<1>2. /\ inbox' = [inbox EXCEPT ![g] = Append(@, m)] /\ pc' = "reading" /\ asked' = asked + 1
      /\ UNCHANGED <<outcome, polled, process, stream, stuck, ends, workers, outbox, returned, death>>
  BY DEF ReadSends
<1>3. /\ inbox' \in [Workers -> Seq(Messages)] /\ inbox'[g] = <<m>>
      /\ \A h \in Workers \ {g} : inbox'[h] = inbox[h]
  BY <1>1, <1>2
<1>4. TypeOK'
  BY <1>1, <1>2, <1>3 DEF IInv, TypeOK, Places
<1>5. Launched'
  <2>1. process <= newest /\ newest \in Nat /\ process \in Nat
    BY <1>1, KnownChild DEF IInv, TypeOK
  <2>2. QED
    BY <1>2, <1>3, <2>1, WorkerAssumption DEF IInv, Launched, Workers
<1>6. PlaceInv' /\ WritingInv' /\ NoStrayWorker' /\ ReplyOfItsRequest'
  BY <1>1, <1>2 DEF IInv, PlaceInv, WritingInv, NoStrayWorker, Live, ReplyOfItsRequest
<1>7. Serving(process)'
  BY <1>1, <1>2, <1>3 DEF Serving
<1>8. QED
  BY <1>2, <1>4, <1>5, <1>6, <1>7 DEF IInv, Dialogue, Seen

LEMMA ReadReturnsKeeps == ASSUME IInv, ReadReturns PROVE IInv'
<1> USE DEF workers, death, backend
<1> DEFINE g == process
<1>1. /\ pc = "reading" /\ stream /\ g \in ends /\ g \in Workers /\ g # 0 /\ asked \in Nat
      /\ Serving(g) /\ outbox \in [Workers -> Seq(Messages)] /\ outbox[g] # <<>>
      /\ g \in writing => Len(outbox[g]) > 1
  <2>1. pc = "reading" /\ outbox[g] # <<>> /\ (g \in writing => Len(outbox[g]) > 1)
    BY DEF ReadReturns, Whole
  <2>2. asked \in Nat /\ outbox \in [Workers -> Seq(Messages)] /\ process \in 0..newest
    BY DEF IInv, TypeOK
  <2>3. stream /\ g \in ends /\ Serving(g)
    BY <2>1 DEF IInv, PlaceInv, Dialogue
  <2>4. g # 0
    BY <2>3 DEF IInv, TypeOK
  <2>5. g \in Workers
    BY <2>4, KnownChild
  <2>6. QED
    BY <2>1, <2>2, <2>3, <2>4, <2>5
<1>2. /\ inbox[g] = <<>> /\ Len(outbox[g]) = 1 /\ outbox[g][1].n = asked
      /\ child[g] \in {"idle", "exited"} \/ outbox[g][1].kind = "fatal"
      /\ g \notin writing
  <2>1. /\ inbox[g] = <<>> /\ Len(outbox[g]) = 1 /\ outbox[g][1].n = asked
        /\ child[g] \in {"idle", "exited"} \/ outbox[g][1].kind = "fatal"
    BY <1>1 DEF Serving
  <2>2. QED
    BY <1>1, <2>1
<1>3. Head(outbox[g]) = outbox[g][1] /\ Tail(outbox[g]) = <<>>
  <2>1. Tail(outbox[g]) \in Seq(Messages) /\ Len(Tail(outbox[g])) = 0
    BY <1>1, <1>2
  <2>2. Tail(outbox[g]) = <<>>
    BY <2>1, EmptySeq
  <2>3. Head(outbox[g]) = outbox[g][1]
    BY <1>1
  <2>4. QED
    BY <2>2, <2>3
<1>4. /\ outcome' \in {"frame", "recoverable", "disconnected"} /\ pc' = "idle"
      /\ outbox[g][1].kind # "fatal" /\ returned' = asked
      /\ polled' = FALSE /\ outbox' = [outbox EXCEPT ![g] = <<>>]
      /\ UNCHANGED <<process, stream, stuck, ends, workers, inbox, asked, death>>
  BY <1>2, <1>3 DEF ReadReturns, Answer
<1>5. TypeOK'
  <2>1. outbox' \in [Workers -> Seq(Messages)]
    BY <1>1, <1>4, EmptySeq
  <2>2. QED
    BY <1>1, <1>4, <2>1 DEF IInv, TypeOK, Places, Outcomes
<1>6. Launched' /\ PlaceInv' /\ WritingInv' /\ NoStrayWorker'
  BY <1>1, <1>4 DEF IInv, Launched, PlaceInv, WritingInv, NoStrayWorker, Live
<1>7. Dialogue' /\ ReplyOfItsRequest'
  BY <1>1, <1>2, <1>4 DEF Dialogue, Seen, ReplyOfItsRequest, Connected
<1>8. QED
  BY <1>5, <1>6, <1>7 DEF IInv

LEMMA LaunchFailsKeeps == ASSUME IInv, LaunchFails PROVE IInv'
  BY QuietKeeps DEF LaunchFails, Answer, IInv, TypeOK, Outcomes, PlaceInv, backend

(* The calls that end in _terminate_worker(). *)
LEMMA EndedCallKeeps ==
  ASSUME IInv, PopenRaises \/ OpenFails \/ ReadRejects \/ ReadLoses \/ ReadTimesOut \/ CloseJoined
  PROVE  IInv'
<1>1. CASE PopenRaises
  <2>1. newest \in Workers /\ child[newest] # "none"
    <3>1. pc = "popen" /\ newest \in Workers /\ newest \in Nat
      BY <1>1, CurrentIsWorker DEF PopenRaises, IInv, PlaceInv, TypeOK
    <3>2. ~(newest > newest)
      BY <3>1
    <3>3. QED
      BY <3>1, <3>2 DEF IInv, Launched
  <2>2. "open_failed" \in Outcomes \ {"frame", "recoverable"}
    BY DEF Outcomes
  <2>3. QED
    BY <1>1, <2>1, <2>2, TerminateKeeps DEF PopenRaises
<1>2. CASE OpenFails \/ ReadRejects \/ ReadLoses \/ ReadTimesOut \/ CloseJoined
  <2>1. process # 0
    <3>1. pc \in {"start", "request", "backend", "device", "configure", "reading", "joining"}
      BY <1>2 DEF OpenFails, Expected, ReadRejects, ReadLoses, ReadTimesOut, CloseJoined
    <3>2. process \in ends \/ process # 0
      BY <3>1 DEF IInv, PlaceInv
    <3>3. QED
      BY <3>2, CurrentIsWorker, WorkerAssumption DEF IInv, Workers
  <2>2. PICK o \in Outcomes \ {"frame", "recoverable"} :
          Terminate(process, o) /\ UNCHANGED <<workers, inbox, history, death>>
    <3>1. {"open_failed", "fatal", "disconnected", "timeout", "closed"}
            \subseteq Outcomes \ {"frame", "recoverable"}
      BY DEF Outcomes
    <3>2. QED
      BY <1>2, <3>1 DEF OpenFails, ReadRejects, ReadLoses, ReadTimesOut, CloseJoined
  <2>3. QED
    BY <2>1, <2>2, KnownChild, TerminateKeeps
<1>3. QED
  BY <1>1, <1>2

LEMMA ReadRefusedKeeps == ASSUME IInv, ReadRefused PROVE IInv'
<1>1. CASE ~stream /\ Answer("state_error") /\ UNCHANGED outbox
  BY <1>1, QuietKeeps DEF ReadRefused, Answer, IInv, TypeOK, Outcomes, PlaceInv, backend, pipes
<1>2. CASE stream /\ ~(Answer("state_error") /\ UNCHANGED outbox)
  <2>1. process # 0
    BY <1>2, CurrentIsWorker, WorkerAssumption DEF IInv, PlaceInv, Workers
  <2>2. PICK o \in {"timeout", "disconnected"} : Terminate(process, o)
    BY <1>2 DEF ReadRefused
  <2>3. o \in Outcomes \ {"frame", "recoverable"}
    BY DEF Outcomes
  <2>4. QED
    BY <2>1, <2>2, <2>3, KnownChild, TerminateKeeps DEF ReadRefused
<1>3. CASE stream /\ Answer("state_error") /\ UNCHANGED outbox
  <2>1. PICK o \in {"timeout", "disconnected"} : Terminate(process, o)
    BY <1>3 DEF ReadRefused
  <2>2. outcome' = o
    BY <2>1 DEF Terminate, Forget
  <2>3. QED
    BY <1>3, <2>2 DEF Answer
<1>4. QED
  BY <1>1, <1>2, <1>3 DEF ReadRefused

(* A child is forgotten when it is seen dead. *)
LEMMA ForgetKeeps ==
  ASSUME IInv, pc \in {"terminating", "killing"}, Exited(process), Forget(outcome),
         UNCHANGED <<ends, workers, pipes, history, death>>
  PROVE  IInv'
<1> USE DEF workers, pipes, history, death, Forget
<1>1. outcome \in Outcomes \ {"frame", "recoverable"}
  BY DEF IInv, TypeOK, PlaceInv
<1>2. TypeOK'
  <2>1. process' \in 0..newest
    BY DEF IInv, TypeOK
  <2>2. QED
    BY <1>1, <2>1 DEF IInv, TypeOK, Places
<1>3. NoStrayWorker'
  <2>1. Live' = Live /\ process \notin Live
    BY DEF Live, Exited
  <2>2. QED
    BY <2>1 DEF IInv, NoStrayWorker
<1>4. Launched' /\ PlaceInv' /\ WritingInv'
  BY DEF IInv, Launched, PlaceInv, WritingInv, Live
<1>5. Dialogue' /\ ReplyOfItsRequest'
  BY <1>1 DEF Dialogue, Seen, ReplyOfItsRequest
<1>6. QED
  BY <1>2, <1>3, <1>4, <1>5 DEF IInv

LEMMA JoinedKeeps == ASSUME IInv, TerminateJoined \/ KillJoined PROVE IInv'
<1>1. CASE Exited(process) /\ Forget(outcome)
  BY <1>1, ForgetKeeps DEF TerminateJoined, KillJoined
<1>2. CASE TerminateJoined /\ pc' = "killing" /\ UNCHANGED <<outcome, polled, process, stream, stuck>>
  BY <1>2, QuietKeeps DEF TerminateJoined, IInv, TypeOK, PlaceInv
<1>3. CASE KillJoined /\ pc' = "idle" /\ outcome' = "state_error" /\ stuck' = TRUE
             /\ UNCHANGED <<polled, process, stream>>
  BY <1>3, QuietKeeps DEF KillJoined, IInv, TypeOK, PlaceInv, Outcomes
<1>4. QED
  BY <1>1, <1>2, <1>3 DEF TerminateJoined, KillJoined

(* A new backend knows no child; those of the one before are orphans. *)
LEMMA CrashKeeps == ASSUME IInv, Crash PROVE IInv'
<1> USE DEF Crash, Forget, workers, history
<1>1. TypeOK'
  <2>1. process' \in 0..newest /\ ends' \in SUBSET (1..newest) /\ crashes' \in Nat
    BY DEF IInv, TypeOK
  <2>2. outbox' \in [Workers -> Seq(Messages)] /\ orphans' \in SUBSET Workers
    <3>1. <<>> \in Seq(Messages)
      OBVIOUS
    <3>2. QED
      BY <3>1 DEF IInv, TypeOK, Live
  <2>3. pc' \in Places /\ outcome' \in Outcomes
    BY DEF Places, Outcomes
  <2>4. QED
    BY <2>1, <2>2, <2>3 DEF IInv, TypeOK
<1>2. NoStrayWorker'
  <2>1. Live' \subseteq orphans'
    BY DEF Live
  <2>2. QED
    BY <2>1 DEF NoStrayWorker
<1>3. Launched' /\ PlaceInv' /\ WritingInv' /\ Dialogue' /\ ReplyOfItsRequest'
  BY DEF IInv, Launched, PlaceInv, WritingInv, Live, Dialogue, Seen, ReplyOfItsRequest
<1>4. QED
  BY <1>1, <1>2, <1>3 DEF IInv

LEMMA StepKeeps == IInv /\ [Next]_vars => IInv'
<1> SUFFICES ASSUME IInv, [Next]_vars PROVE IInv'
  OBVIOUS
<1>1. CASE Call
  BY <1>1, OpenKeeps, ReadRefusedKeeps, ReadSendsKeeps, CloseKeeps DEF Call
<1>2. CASE Parent
  BY <1>2, LaunchFailsKeeps, LaunchKeeps, PopenReturnsKeeps, PollKeeps, ReceiveKeeps, SendRequestKeeps,
     ReadReturnsKeeps, EndedCallKeeps, JoinedKeeps DEF Parent
<1>3. CASE Crash
  BY <1>3, CrashKeeps
<1>4. ASSUME NEW g \in Workers, Child(g) \/ Die(g) PROVE IInv'
  BY <1>4, ChildKeeps
<1>5. CASE UNCHANGED vars
  BY <1>5 DEF vars, backend, workers, pipes, history, death, IInv, TypeOK, Launched, PlaceInv,
     WritingInv, NoStrayWorker, Live, Dialogue, Greeting, Serving, Cur, ReplyOfItsRequest, Connected
<1>6. QED
  BY <1>1, <1>2, <1>3, <1>4, <1>5 DEF Next

LEMMA Invariant == Spec => []IInv
<1>1. QED
  BY InitHolds, StepKeeps, PTL DEF Spec

-----------------------------------------------------------------------------
(* The backend's variables keep their types, with any number of children.  *)
THEOREM WorkerTypeCorrect == Spec => []TypeOK
<1>1. IInv => TypeOK
  BY DEF IInv
<1>2. QED
  BY Invariant, <1>1, PTL

(* No call leaves a second process with the camera: a living child is the   *)
(* one that the backend knows, or an orphan of a parent that died.          *)
THEOREM NoSecondWorker == Spec => []NoStrayWorker
<1>1. IInv => NoStrayWorker
  BY DEF IInv
<1>2. QED
  BY Invariant, <1>1, PTL

(* read() returns the reply to its own command, after any timeouts.         *)
THEOREM ReadAnswersItsCommand == Spec => []ReplyOfItsRequest
<1>1. IInv => ReplyOfItsRequest
  BY DEF IInv
<1>2. QED
  BY Invariant, <1>1, PTL
=============================================================================
