---------------------------- MODULE CameraWorker ----------------------------
(***************************************************************************)
(* adapters/opencv_process_camera.py with _worker_transport.py and the two *)
(* worker entry points: a camera driven by a child process, so that a call *)
(* can be given up at its deadline.                                        *)
(*                                                                         *)
(* The parent's owner thread opens (a handshake of four or five messages), *)
(* reads (one command, one reply) and closes; whatever goes wrong it ends  *)
(* the child before the backend can be used again, and keeps hold of a     *)
(* child it could not end.  The child serves one parent and lets the       *)
(* device go when its end of the pipe says so.  Either process may die at  *)
(* any moment; a parent that is started again knows nothing of the child   *)
(* of the one before, an orphan.  A bounded wait may end at any moment;    *)
(* but only poll() is bounded: once it has seen the first byte, recv()     *)
(* waits for the rest of that message, or for the end of the pipe.         *)
(***************************************************************************)
EXTENDS Naturals, Sequences

CONSTANTS
  MaxWorkers,   \* bound of the model: children ever launched
  MaxReads,     \* bound of the model: read commands sent
  MaxCrashes    \* bound of the model: deaths of the parent

ASSUME WorkerAssumption ==
  /\ MaxWorkers \in Nat /\ MaxReads \in Nat /\ MaxCrashes \in Nat

VARIABLES
  windows,   \* _use_windows_subprocess: a socket pair, and the request sent later
  pc,        \* where the owner thread is; "idle" between calls
  outcome,   \* what the last call came to, or what the one under way will say
  polled,    \* poll() answered True and recv() is under way
  process,   \* _process: the child the backend knows, 0 for None
  stream,    \* _stream is not None (and _request)
  stuck,     \* _termination_failed
  ends,      \* children whose parent end of the pipe is open
  newest,    \* children launched so far; a child is its number
  child,     \* per child, where it is
  job,       \* per child, the number of the read command it serves
  writing,   \* children inside send(): their last message is not yet whole
  inbox,     \* per child, messages on their way to it
  outbox,    \* per child, messages on their way to the parent
  asked,     \* history: read commands sent
  returned,  \* history: the command whose reply the last read() returned
  orphans,   \* history: children whose parent died
  crashes    \* history: deaths of the parent

pipes    == <<inbox, outbox>>
backend  == <<process, stream, stuck, ends>>
workers  == <<newest, child, job, writing>>
history  == <<asked, returned>>
death    == <<orphans, crashes, windows>>
vars == <<pc, outcome, polled, backend, workers, pipes, history, death>>

Workers == 1..MaxWorkers
Message(kind, n) == [kind |-> kind, n |-> n]
Live == {g \in Workers : child[g] \notin {"none", "exited"}}
Connected == process # 0 /\ process \in ends

(* _process_has_exited. *)
Exited(g) == child[g] = "exited"

Init ==
  /\ windows \in BOOLEAN
  /\ pc = "idle" /\ outcome = "none" /\ polled = FALSE
  /\ process = 0 /\ stream = FALSE /\ stuck = FALSE /\ ends = {}
  /\ newest = 0 /\ child = [g \in Workers |-> "none"] /\ job = [g \in Workers |-> 0]
  /\ writing = {} /\ inbox = [g \in Workers |-> <<>>] /\ outbox = [g \in Workers |-> <<>>]
  /\ asked = 0 /\ returned = 0
  /\ orphans = {} /\ crashes = 0

-----------------------------------------------------------------------------
(* The end of every failed call and of close().                            *)

(* A call returns, or raises, without touching the backend. *)
Answer(o) == pc' = "idle" /\ outcome' = o /\ polled' = FALSE /\ UNCHANGED backend

(* The worker was seen dead: nothing is kept of it. *)
Forget(o) == /\ pc' = "idle" /\ outcome' = o /\ polled' = FALSE
             /\ process' = 0 /\ stream' = FALSE /\ stuck' = FALSE

(* _terminate_worker() of child g: the pipe is closed, then the child is    *)
(* forgotten if it is dead, or else signalled and waited for.  is_alive()   *)
(* may raise, which counts as alive.                                        *)
Terminate(g, o) ==
  /\ ends' = ends \ {g} /\ outbox' = [outbox EXCEPT ![g] = <<>>]
  /\ \/ /\ Exited(g) /\ Forget(o)
     \/ /\ pc' = "terminating" /\ outcome' = o /\ process' = g /\ stream' = FALSE
        /\ polled' = FALSE /\ UNCHANGED stuck

(* terminate() and join() *)
TerminateJoined ==
  /\ pc = "terminating"
  /\ \/ Exited(process) /\ Forget(outcome)
     \/ pc' = "killing" /\ UNCHANGED <<outcome, polled, process, stream, stuck>>
  /\ UNCHANGED <<ends, workers, pipes, history, death>>

(* kill() and join(): a child that is still there is kept. *)
KillJoined ==
  /\ pc = "killing"
  /\ \/ Exited(process) /\ Forget(outcome)
     \/ /\ pc' = "idle" /\ outcome' = "state_error" /\ stuck' = TRUE
        /\ UNCHANGED <<polled, process, stream>>
  /\ UNCHANGED <<ends, workers, pipes, history, death>>

-----------------------------------------------------------------------------
(* open()                                                                  *)

(* Mutant: a child that could not be ended does not keep open() away. *)
OpenOverStuck ==
  /\ pc = "idle"
  /\ \/ Connected /\ Answer("state_error")
     \/ ~Connected /\ Answer("deadline")
     \/ ~Connected /\ pc' = "launch" /\ UNCHANGED <<outcome, polled, backend>>
  /\ UNCHANGED <<workers, pipes, history, death>>

Open ==
  /\ pc = "idle"
  /\ \/ process # 0 /\ Answer("state_error")
     \/ process = 0 /\ Answer("deadline")
     \/ process = 0 /\ pc' = "launch" /\ UNCHANGED <<outcome, polled, backend>>
  /\ UNCHANGED <<workers, pipes, history, death>>

(* Pipe() or Process() fail, start() raises, or the socket pair or Popen.   *)
LaunchFails ==
  /\ pc = "launch"
  /\ Answer("open_failed")
  /\ UNCHANGED <<workers, pipes, history, death>>

(* A child runs.  With multiprocessing the backend knows it at once; Popen  *)
(* is followed by more checks before it is handed over.                     *)
Launch ==
  /\ pc = "launch" /\ newest < MaxWorkers
  /\ newest' = newest + 1
  /\ child' = [child EXCEPT ![newest + 1] = "boot"]
  /\ ends' = ends \cup {newest + 1}
  /\ IF windows THEN pc' = "popen" /\ UNCHANGED process
                ELSE pc' = "start" /\ process' = newest + 1
  /\ UNCHANGED <<outcome, polled, stream, stuck, job, writing, pipes, history, death>>

(* launch_socket_subprocess returns. *)
PopenReturns ==
  /\ pc = "popen"
  /\ pc' = "start" /\ process' = newest
  /\ UNCHANGED <<outcome, polled, stream, stuck, ends, workers, pipes, history, death>>

(* The deadline has passed, or the handle stays inheritable: the launcher   *)
(* signals the child without waiting and hands over what is still alive,    *)
(* which open() then terminates.                                            *)
PopenRaises ==
  /\ pc = "popen"
  /\ Terminate(newest, "open_failed")
  /\ UNCHANGED <<workers, inbox, history, death>>

(* The message each step of the handshake waits for, and the step after it. *)
Expected == [start |-> "worker_started", backend |-> "backend_ready",
             device |-> "opened", configure |-> "configured"]
Following == [start |-> IF windows THEN "request" ELSE "backend", backend |-> "device",
              device |-> "configure", configure |-> "idle"]

(* The first message of child g is whole; recv() returns it, or raises at   *)
(* the end of the pipe.                                                     *)
Whole(g) == outbox[g] # <<>> /\ (g \in writing => Len(outbox[g]) > 1)
RecvReturns(g) == polled /\ (Whole(g) \/ Exited(g))

(* poll() answers True: a message began to arrive, or the pipe ended.       *)
PollReturns ==
  /\ pc \in DOMAIN Expected \cup {"reading"} /\ ~polled
  /\ outbox[process] # <<>> \/ Exited(process)
  /\ polled' = TRUE
  /\ UNCHANGED <<pc, outcome, backend, workers, pipes, history, death>>

(* _receive_worker_message returns the first message on its way, in time;   *)
(* for any other end of it see OpenFails.                                   *)
ReceiveMessage(kind) ==
  /\ RecvReturns(process) /\ Whole(process) /\ Head(outbox[process]).kind = kind
  /\ outbox' = [outbox EXCEPT ![process] = Tail(@)]
  /\ polled' = FALSE

Receive ==
  /\ pc \in DOMAIN Expected
  /\ ReceiveMessage(Expected[pc])
  /\ pc' = Following[pc]
  /\ IF pc = "configure" THEN outcome' = "opened" /\ stream' = TRUE
                         ELSE UNCHANGED <<outcome, stream>>
  /\ UNCHANGED <<process, stuck, ends, workers, inbox, history, death>>

SendRequest ==
  /\ pc = "request"
  /\ inbox' = [inbox EXCEPT ![process] = Append(@, Message("request", 0))]
  /\ pc' = "backend"
  /\ UNCHANGED <<outcome, polled, backend, workers, outbox, history, death>>

(* The deadline passed before a message began, or recv() is over: with an   *)
(* error message, another message, one too late, or the end of the pipe.    *)
OpenFails ==
  /\ pc \in DOMAIN Expected \cup {"request"}
  /\ ~polled \/ RecvReturns(process)
  /\ Terminate(process, "open_failed")
  /\ UNCHANGED <<workers, inbox, history, death>>

-----------------------------------------------------------------------------
(* read()                                                                  *)

ReadRefused ==
  /\ pc = "idle"
  /\ \/ ~stream /\ Answer("state_error") /\ UNCHANGED outbox
     \/ stream /\ Terminate(process, "timeout")
     \/ stream /\ Exited(process) /\ Terminate(process, "disconnected")
  /\ UNCHANGED <<workers, inbox, history, death>>

ReadSends ==
  /\ pc = "idle" /\ stream /\ asked < MaxReads
  /\ asked' = asked + 1
  /\ inbox' = [inbox EXCEPT ![process] = Append(@, Message("read", asked + 1))]
  /\ pc' = "reading"
  /\ UNCHANGED <<outcome, polled, backend, workers, outbox, returned, death>>

(* A frame or an error that leaves the worker in use. *)
ReadReturns ==
  /\ pc = "reading" /\ RecvReturns(process) /\ Whole(process)
  /\ LET reply == Head(outbox[process]) IN
       /\ reply.kind \in {"frame", "recoverable", "disconnected"}
       /\ Answer(reply.kind)
       /\ returned' = reply.n
  /\ outbox' = [outbox EXCEPT ![process] = Tail(@)]
  /\ UNCHANGED <<workers, inbox, asked, death>>

(* A fatal reply, or a frame that differs from the negotiated stream. *)
ReadRejects ==
  /\ pc = "reading" /\ RecvReturns(process) /\ Whole(process)
  /\ Head(outbox[process]).kind \in {"frame", "fatal"}
  /\ Terminate(process, "fatal")
  /\ UNCHANGED <<workers, inbox, history, death>>

(* send() finds the pipe broken, or recv() its end. *)
ReadLoses ==
  /\ pc = "reading" /\ outbox[process] = <<>> /\ Exited(process)
  /\ Terminate(process, "disconnected")
  /\ UNCHANGED <<workers, inbox, history, death>>

(* Mutant: a late worker is given another chance. *)
ReadTimesOutOnly ==
  /\ pc = "reading" /\ ~polled
  /\ Answer("timeout")
  /\ UNCHANGED <<workers, pipes, history, death>>

(* Mutant: a reply is waited for as long as the worker lives. *)
ReadTimesOutOnExit ==
  /\ pc = "reading" /\ ~polled /\ Exited(process)
  /\ Terminate(process, "timeout")
  /\ UNCHANGED <<workers, inbox, history, death>>

(* No byte of a reply before the deadline. *)
ReadTimesOut ==
  /\ pc = "reading" /\ ~polled
  /\ Terminate(process, "timeout")
  /\ UNCHANGED <<workers, inbox, history, death>>

-----------------------------------------------------------------------------
(* close()                                                                 *)

CloseNothing ==
  /\ pc = "idle" /\ process = 0
  /\ Answer("closed")
  /\ UNCHANGED <<workers, pipes, history, death>>

Close ==
  /\ pc = "idle" /\ process # 0
  /\ pc' = "joining"
  /\ inbox' = IF Connected THEN [inbox EXCEPT ![process] = Append(@, Message("close", 0))]
                           ELSE inbox
  /\ UNCHANGED <<outcome, polled, backend, workers, outbox, history, death>>

CloseJoined ==
  /\ pc = "joining"
  /\ Terminate(process, "closed")
  /\ UNCHANGED <<workers, inbox, history, death>>

-----------------------------------------------------------------------------
(* The child: _camera_worker_bootstrap, the subprocess main, _run_worker.   *)

Owner == UNCHANGED <<pc, outcome, polled, backend, newest, history, death>>

(* send() begins a message: what is sent after the parent closed its end is *)
(* lost at once, and the rest may take any time, or never come.             *)
Reply(g, message) ==
  IF g \in ends THEN /\ outbox' = [outbox EXCEPT ![g] = Append(@, message)]
                     /\ writing' = writing \cup {g}
                ELSE UNCHANGED <<outbox, writing>>

(* The rest was written, or the parent closed its end. *)
FinishMessage(g) ==
  /\ g \in writing
  /\ writing' = writing \ {g}
  /\ Owner /\ UNCHANGED <<child, job, pipes>>

Become(g, place) == child' = [child EXCEPT ![g] = place]

(* What it did not receive is lost, what it sent is not, but for a message  *)
(* that is not whole.                                                       *)
Exit(g) ==
  /\ Become(g, "exited") /\ job' = [job EXCEPT ![g] = 0]
  /\ inbox' = [inbox EXCEPT ![g] = <<>>]
  /\ outbox' = IF g \in writing /\ outbox[g] # <<>>
               THEN [outbox EXCEPT ![g] = SubSeq(@, 1, Len(@) - 1)] ELSE outbox
  /\ writing' = writing \ {g}
  /\ Owner

Boot(g) ==
  /\ child[g] = "boot"
  /\ Reply(g, Message("worker_started", 0))
  /\ Become(g, IF windows THEN "waiting" ELSE "loading")
  /\ Owner /\ UNCHANGED <<job, inbox>>

TakeRequest(g) ==
  /\ child[g] = "waiting" /\ inbox[g] # <<>>
  /\ inbox' = [inbox EXCEPT ![g] = Tail(@)]
  /\ Become(g, "loading")
  /\ Owner /\ UNCHANGED <<job, outbox, writing>>

(* Import of cv2 and choice of the API, the device, its mode: each step     *)
(* ends with its message, or with an error and the end of the worker.       *)
Announces == [loading |-> "backend_ready", opening |-> "opened", configuring |-> "configured"]
Enters    == [loading |-> "opening", opening |-> "configuring", configuring |-> "idle"]
Errors    == [loading |-> "open_error", opening |-> "open_error",
              configuring |-> "configure_error"]

Prepare(g) ==
  /\ child[g] \in DOMAIN Announces
  /\ \/ Reply(g, Message(Announces[child[g]], 0)) /\ Become(g, Enters[child[g]])
     \/ Reply(g, Message(Errors[child[g]], 0)) /\ Become(g, "leaving")
  /\ Owner /\ UNCHANGED <<job, inbox>>

TakeCommand(g) ==
  /\ child[g] = "idle" /\ inbox[g] # <<>>
  /\ inbox' = [inbox EXCEPT ![g] = Tail(@)]
  /\ IF Head(inbox[g]).kind = "read"
     THEN Become(g, "reading") /\ job' = [job EXCEPT ![g] = Head(inbox[g]).n]
     ELSE Become(g, "leaving") /\ UNCHANGED job
  /\ Owner /\ UNCHANGED <<outbox, writing>>

(* capture.read() came back, with a frame or without. *)
ReadDevice(g) ==
  /\ child[g] = "reading"
  /\ \/ \E kind \in {"frame", "recoverable", "disconnected"} :
          Reply(g, Message(kind, job[g])) /\ Become(g, "idle")
     \/ Reply(g, Message("fatal", job[g])) /\ Become(g, "leaving")
  /\ Owner /\ UNCHANGED <<job, inbox>>

(* Mutant: a command that cannot be received is waited for again. *)
NoticeEndAtFirst(g) ==
  /\ child[g] = "waiting" /\ inbox[g] = <<>> /\ g \notin ends
  /\ Become(g, "leaving")
  /\ Owner /\ UNCHANGED <<job, writing, pipes>>

(* recv() finds the pipe closed at the other end. *)
NoticeEnd(g) ==
  /\ child[g] \in {"waiting", "idle"} /\ inbox[g] = <<>> /\ g \notin ends
  /\ Become(g, "leaving")
  /\ Owner /\ UNCHANGED <<job, writing, pipes>>

(* The device is released and the pipe closed. *)
Leave(g) ==
  /\ child[g] = "leaving"
  /\ Exit(g)

(* The child is killed, by the parent or by its driver. *)
Die(g) ==
  /\ g \in Live
  /\ Exit(g)

-----------------------------------------------------------------------------
(* The parent dies and is started again with a new backend. *)
Crash ==
  /\ crashes < MaxCrashes
  /\ crashes' = crashes + 1
  /\ orphans' = orphans \cup Live
  /\ ends' = {}
  /\ Forget("none")
  /\ outbox' = [g \in Workers |-> <<>>]
  /\ UNCHANGED <<workers, inbox, history, windows>>

Parent ==
  \/ LaunchFails \/ Launch \/ PopenReturns \/ PopenRaises
  \/ PollReturns \/ Receive \/ SendRequest \/ OpenFails
  \/ ReadReturns \/ ReadRejects \/ ReadLoses \/ ReadTimesOut
  \/ CloseJoined \/ TerminateJoined \/ KillJoined

Call == Open \/ ReadRefused \/ ReadSends \/ CloseNothing \/ Close

Child(g) ==
  \/ FinishMessage(g)
  \/ /\ g \notin writing
     /\ \/ Boot(g) \/ TakeRequest(g) \/ Prepare(g) \/ TakeCommand(g)
        \/ ReadDevice(g) \/ NoticeEnd(g) \/ Leave(g)

Next == Call \/ Parent \/ Crash \/ \E g \in Workers : Child(g) \/ Die(g)

Spec == Init /\ [][Next]_vars
FairSpec == Spec /\ WF_vars(Parent)

-----------------------------------------------------------------------------
Places == {"idle", "launch", "popen", "start", "request", "backend", "device", "configure",
           "reading", "joining", "terminating", "killing"}
Outcomes == {"none", "state_error", "deadline", "open_failed", "opened", "timeout", "fatal",
             "disconnected", "recoverable", "frame", "closed"}
ChildPlaces == {"none", "boot", "waiting", "loading", "opening", "configuring", "idle",
                "reading", "leaving", "exited"}
Messages == [kind : {"worker_started", "backend_ready", "opened", "configured", "open_error",
                     "configure_error", "request", "read", "close", "frame", "recoverable",
                     "disconnected", "fatal"}, n : Nat]

(* The variables keep their types. *)
TypeOK ==
  /\ windows \in BOOLEAN
  /\ pc \in Places /\ outcome \in Outcomes /\ polled \in BOOLEAN
  /\ process \in 0..newest /\ stream \in BOOLEAN /\ stuck \in BOOLEAN
  /\ ends \in SUBSET (1..newest)
  /\ newest \in 0..MaxWorkers
  /\ child \in [Workers -> ChildPlaces] /\ job \in [Workers -> Nat]
  /\ writing \in SUBSET Workers
  /\ inbox \in [Workers -> Seq(Messages)] /\ outbox \in [Workers -> Seq(Messages)]
  /\ asked \in Nat /\ returned \in Nat
  /\ orphans \in SUBSET Workers /\ crashes \in Nat

(* One command and one reply at a time: what read() returns is the worker's *)
(* reply to the command of that read(), never to an earlier one that was    *)
(* answered too late; and between calls an open backend has a worker that   *)
(* waits for a command (or has died), with nothing on its way to either.    *)
ReplyOfItsRequest ==
  /\ pc = "idle" /\ outcome \in {"frame", "recoverable"} => returned = asked
  /\ pc = "idle" /\ stream =>
       /\ Connected
       /\ child[process] \in {"idle", "exited"} /\ process \notin writing
       /\ inbox[process] = <<>> /\ outbox[process] = <<>>

(* Every living worker is the one the backend knows, an orphan, or about to *)
(* be handed over by the launcher: no open, failed open, timeout or close   *)
(* leaves a second process with the camera.                                 *)
NoStrayWorker ==
  \A g \in Live \ orphans : g = process \/ (pc = "popen" /\ g = newest)

(* open, read and close return, whatever the worker and its driver do and   *)
(* wherever they hang, but for one thing that no deadline covers: a worker  *)
(* that began a message must finish it or die, for recv() waits for it.     *)
CallsReturn ==
  (\A g \in Workers : WF_vars(FinishMessage(g))) => (pc # "idle" ~> pc = "idle")

(* A worker that outlives its parent lets the camera go, when the calls of  *)
(* the driver return.                                                       *)
OrphansLetGo ==
  (\A g \in Workers : WF_vars(Child(g))) =>
    \A g \in Workers : g \in orphans ~> child[g] = "exited"
=============================================================================
