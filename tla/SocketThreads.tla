---------------------------- MODULE SocketThreads ----------------------------
(***************************************************************************)
(* The three threads of a Peer and the socket they share: the application, *)
(* which binds, connects, stops and destroys the peer; the PacketQueue     *)
(* worker, which begins reads and writes; and the socket thread, which     *)
(* runs their completion handlers.  Every access to a shared flag is a     *)
(* step of its own.                                                        *)
(*                                                                         *)
(* Of asio, an external library, the model has what SocketUDP relies on: a *)
(* handler runs only inside run(), on the thread that called it; stop()    *)
(* makes run() return, as does having no work left; closing a socket       *)
(* completes its operations with an error; and an operation begun on a     *)
(* closed socket fails at once.                                            *)
(***************************************************************************)
EXTENDS Integers, Sequences, FiniteSets

VARIABLES
  user,      \* where the application is: in Bind, Unbind or the destructor
  quit,      \* is it the destructor that calls Unbind?
  bound,     \* m_state = SocketState::OPEN
  open,      \* m_socket.is_open()
  thread,    \* where the socket thread is
  abort,     \* m_socketThreadAbort
  stopped,   \* m_context.stopped()
  reading,   \* m_reading
  sending,   \* m_sending
  waiting,   \* operations that the system has not completed: "read", "write"
  ready,     \* handlers to run, as pairs of a kind and "has it failed?"
  failed,    \* the error that the read handler was called with
  worker,    \* where the PacketQueue worker is
  quitting   \* m_updateThreadAbort

socket == <<bound, open, abort, quit>>
flags == <<reading, sending>>
vars == <<user, socket, thread, stopped, flags, waiting, ready, failed, worker, quitting>>

Init ==
  /\ user = "idle" /\ thread = "none" /\ worker = "check"
  /\ open = FALSE /\ bound = FALSE /\ abort = FALSE /\ quit = FALSE
  /\ stopped = FALSE /\ failed = FALSE /\ quitting = FALSE
  /\ reading = FALSE /\ sending = FALSE
  /\ waiting = <<>> /\ ready = <<>>

-----------------------------------------------------------------------------
(***************************************************************************)
(* asio.                                                                   *)
(***************************************************************************)

\* The operations under way and the handlers to run, by their places.
Operations(kind) == {k \in DOMAIN waiting : waiting[k] = kind}
Handlers(kind) == {k \in DOMAIN ready : ready[k][1] = kind}

\* async_receive_from and async_send_to.
Begin(kind) ==
  IF open THEN waiting' = Append(waiting, kind) /\ UNCHANGED ready
  ELSE ready' = Append(ready, <<kind, TRUE>>) /\ UNCHANGED waiting

\* Mutant of Cancel: closing the socket leaves its operations alone.
CancelNothing == UNCHANGED <<waiting, ready>>

\* cancel and close: what the system has not completed has failed.
Cancel ==
  /\ waiting' = <<>>
  /\ ready' = ready \o [k \in DOMAIN waiting |-> <<waiting[k], TRUE>>]

\* A datagram has come in or gone out, or there was an error.
Completes(k, error) ==
  /\ open
  /\ waiting' = SubSeq(waiting, 1, k - 1) \o SubSeq(waiting, k + 1, Len(waiting))
  /\ ready' = Append(ready, <<waiting[k], error>>)
  /\ UNCHANGED <<user, socket, thread, stopped, flags, failed, worker, quitting>>

-----------------------------------------------------------------------------
(***************************************************************************)
(* The application.                                                        *)
(***************************************************************************)

App(from, to) == user = from /\ user' = to
AppRest == <<flags, failed, quitting>>

\* Bind closes the socket and, if the system lets it, opens it again ...
BindOpen ==
  /\ App("idle", "binding")
  /\ ~ bound
  /\ Cancel
  /\ open' \in BOOLEAN
  /\ UNCHANGED <<bound, abort, quit, thread, stopped, worker, AppRest>>

\* ... and starts the socket thread, unless the system refuses the port or the
\* option, in which case the socket stays open.
BindEnd ==
  /\ App("binding", "idle")
  /\ \/ open /\ bound' = TRUE /\ thread' = "check"
     \/ UNCHANGED <<bound, thread>>
  /\ UNCHANGED <<open, abort, quit, stopped, waiting, ready, worker, AppRest>>

\* Socket::Connect posts its callback.  One at a time bounds the model.
Connect ==
  /\ App("idle", "idle")
  /\ bound /\ open
  /\ Handlers("connect") = {}
  /\ ready' = Append(ready, <<"connect", FALSE>>)
  /\ UNCHANGED <<socket, thread, stopped, waiting, worker, AppRest>>

\* Unbind, called by Stop or, as the first thing, by ~Peer.
Unbind ==
  /\ App("idle", "closing")
  /\ quit' \in BOOLEAN
  /\ UNCHANGED <<bound, open, abort, thread, stopped, waiting, ready, worker, AppRest>>

UnbindClose ==
  /\ App("closing", "aborting")
  /\ IF open THEN Cancel ELSE UNCHANGED <<waiting, ready>>
  /\ open' = FALSE
  /\ bound' = (bound /\ ~ open)
  /\ UNCHANGED <<abort, quit, thread, stopped, worker, AppRest>>

UnbindAbort ==
  /\ App("aborting", "stopping")
  /\ abort' = TRUE
  /\ UNCHANGED <<bound, open, quit, thread, stopped, waiting, ready, worker, AppRest>>

UnbindStop ==
  /\ App("stopping", "joining")
  /\ stopped' = TRUE
  /\ UNCHANGED <<socket, thread, waiting, ready, worker, AppRest>>

UnbindJoin ==
  /\ App("joining", IF quit THEN "queue" ELSE "idle")
  /\ thread \in {"none", "exited"}
  /\ thread' = "none"
  /\ UNCHANGED <<socket, stopped, waiting, ready, worker, AppRest>>

\* PacketQueue::Stop sets the flag, wakes the worker up, if it waits, and joins.
QueueAbort ==
  /\ App("queue", "signal")
  /\ quitting' = TRUE
  /\ UNCHANGED <<socket, thread, stopped, waiting, ready, worker, flags, failed>>

QueueSignal ==
  /\ App("signal", "queuejoin")
  /\ worker' = IF worker = "wait" THEN "check" ELSE worker
  /\ UNCHANGED <<socket, thread, stopped, waiting, ready, AppRest>>

QueueJoin ==
  /\ App("queuejoin", "gone")
  /\ worker = "exited"
  /\ UNCHANGED <<socket, thread, stopped, waiting, ready, worker, AppRest>>

-----------------------------------------------------------------------------
(***************************************************************************)
(* The socket thread: SocketUDP::ThreadWorker.                             *)
(***************************************************************************)

Run(from, to) == thread = from /\ thread' = to
RunRest == <<user, socket, worker, quitting>>

\* while (!m_socketThreadAbort)
ThreadCheck ==
  /\ Run("check", IF abort THEN "exited" ELSE "loop")
  /\ UNCHANGED <<stopped, waiting, ready, failed, flags, RunRest>>

\* Mutant of ThreadRestart: run() is simply called again.
ThreadRunAgain ==
  /\ Run("loop", "run")
  /\ UNCHANGED <<stopped, waiting, ready, failed, flags, RunRest>>

\* A context that was stopped, or that ran out of work, is restarted.
ThreadRestart ==
  /\ Run("loop", "run")
  /\ stopped' = FALSE
  /\ UNCHANGED <<waiting, ready, failed, flags, RunRest>>

\* run() returns.
ThreadReturn ==
  /\ Run("run", "check")
  /\ stopped \/ (ready = <<>> /\ waiting = <<>>)
  /\ stopped' = TRUE
  /\ UNCHANGED <<waiting, ready, failed, flags, RunRest>>

\* run() calls the next handler.
ThreadHandler ==
  /\ ~ stopped /\ ready # <<>>
  /\ Run("run", CASE Head(ready)[1] = "read" -> "received"
                  [] Head(ready)[1] = "write" -> "sent"
                  [] OTHER -> "run")
  /\ failed' = IF Head(ready)[1] = "read" THEN Head(ready)[2] ELSE failed
  /\ ready' = Tail(ready)
  /\ UNCHANGED <<waiting, stopped, flags, RunRest>>

\* Mutant of ReadCallback: the flag is cleared before the callback, as it is for
\* writes.
ReadCallbackClears ==
  /\ Run("received", "reread")
  /\ reading' = FALSE
  /\ UNCHANGED <<stopped, waiting, ready, failed, sending, RunRest>>

\* The callback of BeginRead works on m_readbuf.
ReadCallback ==
  /\ Run("received", "reread")
  /\ UNCHANGED <<stopped, waiting, ready, failed, flags, RunRest>>

\* Mutant of ReadAgain: the flag stays set after a failure.
ReadAgainForgets ==
  /\ Run("reread", IF ~ failed /\ open THEN "restart" ELSE "run")
  /\ UNCHANGED <<stopped, waiting, ready, failed, flags, RunRest>>

\* Then the next read begins, unless this one failed or the socket is closed.
ReadAgain ==
  /\ Run("reread", IF ~ failed /\ open THEN "restart" ELSE "run")
  /\ reading' = (~ failed /\ open)
  /\ UNCHANGED <<stopped, waiting, ready, failed, sending, RunRest>>

\* The socket may have been closed since.
ReadBegin ==
  /\ Run("restart", "run")
  /\ Begin("read")
  /\ UNCHANGED <<stopped, failed, flags, RunRest>>

\* The handler of BeginWrite.  Its callback touches nothing of the socket.
WriteDone ==
  /\ Run("sent", "run")
  /\ sending' = FALSE
  /\ UNCHANGED <<stopped, waiting, ready, failed, reading, RunRest>>

-----------------------------------------------------------------------------
(***************************************************************************)
(* The worker: PacketQueue::ThreadWorker.  Slot 0 has its turn first,      *)
(* whenever the socket is open; turns of other slots use the socket alike, *)
(* and one of them may be the worker's last.                               *)
(***************************************************************************)

Turn(from, to) == worker = from /\ worker' = to
TurnRest == <<user, socket, thread, stopped, failed, quitting>>

WorkerCheck ==
  /\ Turn("check", IF quitting THEN "exited" ELSE "turn")
  /\ UNCHANGED <<flags, waiting, ready, TurnRest>>

WorkerTurn ==
  /\ Turn("turn", IF open THEN "read" ELSE "others")
  /\ UNCHANGED <<flags, waiting, ready, TurnRest>>

\* DoReadCycle: nothing to do while a read is pending.
DoReadCycle ==
  /\ Turn("read", IF reading THEN "write" ELSE "beginread")
  /\ UNCHANGED <<flags, waiting, ready, TurnRest>>

BeginRead ==
  /\ Turn("beginread", "write")
  /\ reading' = TRUE
  /\ Begin("read")
  /\ UNCHANGED <<sending, TurnRest>>

\* DoWriteCycle: nothing to do while a write is pending, or without a datagram.
DoWriteCycle ==
  /\ \/ Turn("write", "others")
     \/ ~ sending /\ Turn("write", "beginwrite")
  /\ UNCHANGED <<flags, waiting, ready, TurnRest>>

BeginWrite ==
  /\ Turn("beginwrite", "others")
  /\ sending' = TRUE
  /\ Begin("write")
  /\ UNCHANGED <<reading, TurnRest>>

\* The turns of the other slots.
OtherTurns ==
  /\ Turn("others", "wait")
  /\ UNCHANGED <<flags, waiting, ready, TurnRest>>

\* In one of them a disconnect has timed out: the thread returns.  No slot is in
\* use before the peer was bound.
DisconnectTimeout ==
  /\ bound \/ abort
  /\ Turn("others", "exited")
  /\ UNCHANGED <<flags, waiting, ready, TurnRest>>

\* Mutant of WaitFor: AwaitableEvent::Wait, which has no time limit.
Wait == FALSE /\ UNCHANGED vars

\* AwaitableEvent::WaitFor ends by itself.
WaitFor ==
  /\ Turn("wait", "check")
  /\ UNCHANGED <<flags, waiting, ready, TurnRest>>

-----------------------------------------------------------------------------
ApplicationStep ==
  \/ UnbindClose \/ UnbindAbort \/ UnbindStop \/ UnbindJoin
  \/ QueueAbort \/ QueueSignal \/ QueueJoin \/ BindEnd

ThreadStep ==
  \/ ThreadCheck \/ ThreadRestart \/ ThreadReturn \/ ThreadHandler
  \/ ReadCallback \/ ReadAgain \/ ReadBegin \/ WriteDone

WorkerStep ==
  \/ WorkerCheck \/ WorkerTurn \/ DoReadCycle \/ BeginRead
  \/ DoWriteCycle \/ BeginWrite \/ OtherTurns \/ DisconnectTimeout \/ WaitFor

Next ==
  \/ BindOpen \/ Connect \/ Unbind
  \/ ApplicationStep \/ ThreadStep \/ WorkerStep
  \/ \E k \in DOMAIN waiting, error \in BOOLEAN : Completes(k, error)

\* Threads are scheduled.  The application need not call anything, and the
\* system need not complete anything.
Spec ==
  /\ Init /\ [][Next]_vars
  /\ WF_vars(ApplicationStep) /\ WF_vars(ThreadStep) /\ WF_vars(WorkerStep)

-----------------------------------------------------------------------------
(***************************************************************************)
(* Properties.                                                             *)
(***************************************************************************)

Count(kind) == Cardinality(Operations(kind)) + Cardinality(Handlers(kind))

\* m_readbuf has one user at a time: the two threads that begin reads, of which
\* the worker tests the flag first and the handler does not, never have two reads
\* under way, nor a read while the callback works on the datagram before it.
\* Likewise no write begins before the last one is done, though m_sending is
\* cleared by another thread than the one that sets it.
OneOperationAtATime ==
  /\ Count("read") + (IF thread \in {"received", "reread", "restart"} THEN 1 ELSE 0)
       + (IF worker = "beginread" THEN 1 ELSE 0) <= 1
  /\ Count("write") + (IF worker = "beginwrite" THEN 1 ELSE 0) <= 1

\* Unbind joins the socket thread, and the thread always comes to its end, also
\* when it restarts the context just after Unbind has stopped it.
UnbindReturns == user = "closing" ~> user \in {"idle", "queue"}

\* So does ~Peer with the worker, though the wake-up of PacketQueue::Stop is lost
\* on a worker that is not waiting yet.
DestructorReturns == user = "queue" ~> user = "gone"

\* As long as a peer was never stopped and no disconnect of it has timed out, a
\* bound socket gets to read: after a failed read, and after a failed Bind whose
\* socket the worker has read from.  The timeout ends the worker, and with it
\* whatever would begin a read after one that failed.
ReadsGoOn ==
  bound /\ ~ abort ~> Count("read") > 0 \/ user = "closing" \/ worker = "exited"

\* Likewise the callback of Connect runs.
ConnectRuns ==
  bound /\ ~ abort /\ Handlers("connect") # {} ~> Handlers("connect") = {} \/ ~ bound

-----------------------------------------------------------------------------
(***************************************************************************)
(* The inductive invariant behind OneOperationAtATime.                     *)
(***************************************************************************)

Kind == {"read", "write", "connect"}

\* Where the socket thread is in the handler of BeginRead.
InRead == {"received", "reread", "restart"}

QueuesOK ==
  /\ waiting \in Seq(Kind) /\ ready \in Seq(Kind \X BOOLEAN)
  /\ open \in BOOLEAN /\ reading \in BOOLEAN /\ sending \in BOOLEAN

Pending(kind) == Operations(kind) # {} \/ Handlers(kind) # {}

\* Of a kind there is at most one operation under way or one handler to run.
Alone(kind) ==
  /\ \A j, k \in Operations(kind) : j = k
  /\ \A j, k \in Handlers(kind) : j = k
  /\ Operations(kind) = {} \/ Handlers(kind) = {}

\* A flag is set for as long as its operation is pending or its handler runs, and
\* still clear when the worker, having found it clear, is about to set it.
ThreadsInv ==
  /\ QueuesOK /\ Alone("read") /\ Alone("write")
  /\ Pending("read") => reading /\ thread \notin InRead
  /\ thread \in InRead => reading
  /\ worker = "beginread" => ~ reading
  /\ Pending("write") => sending /\ thread # "sent"
  /\ thread = "sent" => sending
  /\ worker = "beginwrite" => ~ sending
=============================================================================
