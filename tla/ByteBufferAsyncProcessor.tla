---------------------- MODULE ByteBufferAsyncProcessor ----------------------
(***************************************************************************)
(* The sender queue of a SocketWire (rd_framework wire/                     *)
(* ByteBufferAsyncProcessor.{h,cpp}): producers put messages, one thread   *)
(* (ThreadProc) hands them to a `processor' callback under consecutive     *)
(* sequence numbers and keeps them until they are acknowledged, and the    *)
(* connection thread pauses the queue when the socket breaks and resumes   *)
(* it, resending what is unacknowledged, when there is a new one.          *)
(*                                                                         *)
(* A message is the number of the put that was accepted.  The mutexes      *)
(* `lock', `queue_lock' and `processing_lock' are not variables: a section *)
(* without a blocking call inside is one action, and who holds a lock over *)
(* several actions is read off the program counters `thread' and `conn'.   *)
(***************************************************************************)
EXTENDS Integers, Sequences

CONSTANT MaxPut    \* bound: how many messages producers get accepted

ASSUME MaxPutAssumption == MaxPut \in Nat

VARIABLES
    state,              \* StateKind
    data,               \* accepted by put, not yet seen by ThreadProc
    queue,              \* taken by ThreadProc, not yet sent
    pending_queue,      \* sent, not yet known to be acknowledged
    max_sent_seqn, current_seqn, acknowledged_seqn,
    interrupt_balance,  \* pauses minus resumes
    thread,             \* where ThreadProc is
    conn,               \* where the connection thread is
    resent,             \* i, the loop counter of reprocess
    stopper,            \* where the call of stop is
    accepted            \* number of messages accepted so far

seqns  == <<max_sent_seqn, current_seqn, acknowledged_seqn>>
queues == <<data, queue, pending_queue, accepted>>
pcs    == <<thread, conn, resent, stopper>>
pvars  == <<state, queues, seqns, interrupt_balance, pcs>>

Initialized == 0
AsyncProcessing == 1
Stopping == 2
Terminating == 3
Terminated == 4
StateKind == Initialized .. Terminated

ThreadPC == {"loop", "wait", "woken", "taken", "process", "sent", "done"}
ConnPC   == {"paused", "resume", "reprocess", "running", "pause"}
StopPC   == {"idle", "waiting", "ok", "timeout"}

-----------------------------------------------------------------------------
\* pause and resume keep `lock' across blocking calls; every other holder of
\* `lock' is a single action.
LockFree == conn \notin {"pause", "resume", "reprocess"}

\* process() holds queue_lock and processing_lock exactly while this is set.
in_processing == thread \in {"process", "sent"}

\* cv.notify_all(): only ThreadProc waits on cv.
Notified(pc) == IF pc = "wait" THEN "woken" ELSE pc

\* Seqn of the newest message the processor has been given successfully:
\* max_sent_seqn lags behind between the callback's return and the increment.
LastSent == IF thread = "sent" THEN max_sent_seqn + 1 ELSE max_sent_seqn

-----------------------------------------------------------------------------
\* The state the wire's constructor leaves: pause("initial"), then start().
Init ==
    /\ state = AsyncProcessing
    /\ data = <<>> /\ queue = <<>> /\ pending_queue = <<>>
    /\ max_sent_seqn = 0 /\ current_seqn = 1 /\ acknowledged_seqn = 0
    /\ interrupt_balance = 1
    /\ thread = "loop" /\ conn = "paused" /\ resent = 0 /\ stopper = "idle"
    /\ accepted = 0

\* Mutant of Put: no notification.
PutSilently ==
    /\ LockFree
    /\ state < Stopping
    /\ accepted < MaxPut
    /\ accepted' = accepted + 1
    /\ data' = Append(data, accepted + 1)
    /\ UNCHANGED <<state, queue, pending_queue, seqns, interrupt_balance, pcs>>

\* put(): from Stopping on the message is dropped without a trace, which
\* changes nothing and is not an action.
Put ==
    /\ LockFree
    /\ state < Stopping
    /\ accepted < MaxPut
    /\ accepted' = accepted + 1
    /\ data' = Append(data, accepted + 1)
    /\ thread' = Notified(thread)
    /\ UNCHANGED <<state, queue, pending_queue, seqns, interrupt_balance,
                   conn, resent, stopper>>

-----------------------------------------------------------------------------
(* ThreadProc *)

\* Mutant of NothingToDo: the pause is ignored.
NothingAtAll == data = <<>>

NothingToDo == data = <<>> \/ interrupt_balance # 0

\* Mutant of MustReturn: the state is tested at the head of the loop only.
MustReturnAtHead == thread = "loop" /\ state >= Terminated

MustReturn ==
    \/ thread = "loop"  /\ state >= Terminated
    \/ thread = "woken" /\ state >= Terminating
    \/ NothingToDo /\ state >= Stopping

AtLoopHead == thread \in {"loop", "woken"} /\ LockFree

ThreadReturn ==
    /\ AtLoopHead
    /\ MustReturn
    /\ thread' = "done"
    /\ UNCHANGED <<state, queues, seqns, interrupt_balance, conn, resent, stopper>>

ThreadWait ==
    /\ AtLoopHead
    /\ ~MustReturn
    /\ NothingToDo
    /\ thread' = "wait"
    /\ UNCHANGED <<state, queues, seqns, interrupt_balance, conn, resent, stopper>>

\* Mutants of ThreadTake: the new data overtakes the queue; data is not cleared.
ThreadTakeFirst ==
    /\ AtLoopHead
    /\ ~MustReturn
    /\ ~NothingToDo
    /\ queue' = data \o queue
    /\ data' = <<>>
    /\ thread' = "taken"
    /\ UNCHANGED <<state, pending_queue, accepted, seqns, interrupt_balance,
                   conn, resent, stopper>>

ThreadTakeCopy ==
    /\ AtLoopHead
    /\ ~MustReturn
    /\ ~NothingToDo
    /\ queue' = queue \o data
    /\ thread' = "taken"
    /\ UNCHANGED <<state, data, pending_queue, accepted, seqns, interrupt_balance,
                   conn, resent, stopper>>

\* add_data(std::move(data)); `lock' is released before process() runs.
ThreadTake ==
    /\ AtLoopHead
    /\ ~MustReturn
    /\ ~NothingToDo
    /\ queue' = queue \o data
    /\ data' = <<>>
    /\ thread' = "taken"
    /\ UNCHANGED <<state, pending_queue, accepted, seqns, interrupt_balance,
                   conn, resent, stopper>>

\* process() gets queue_lock, which reprocess may hold.
ProcessBegin ==
    /\ thread = "taken"
    /\ conn # "reprocess"
    /\ thread' = "process"
    /\ UNCHANGED <<state, queues, seqns, interrupt_balance, conn, resent, stopper>>

\* processor(queue.front(), max_sent_seqn + 1) returned ok.
ProcessSend(ok) ==
    /\ thread = "process"
    /\ queue # <<>>
    /\ thread' = IF ok THEN "sent" ELSE "loop"
    /\ UNCHANGED <<state, queues, seqns, interrupt_balance, conn, resent, stopper>>

ProcessSent ==
    /\ thread = "sent"
    /\ max_sent_seqn' = max_sent_seqn + 1
    /\ pending_queue' = Append(pending_queue, Head(queue))
    /\ queue' = Tail(queue)
    /\ thread' = "process"
    /\ UNCHANGED <<state, data, accepted, current_seqn, acknowledged_seqn,
                   interrupt_balance, conn, resent, stopper>>

ProcessEnd ==
    /\ thread = "process"
    /\ queue = <<>>
    /\ thread' = "loop"
    /\ UNCHANGED <<state, queues, seqns, interrupt_balance, conn, resent, stopper>>

-----------------------------------------------------------------------------
(* The connection thread *)

\* pause(): takes `lock' and keeps it until process() is not running.
PauseBegin ==
    /\ conn = "running"
    /\ interrupt_balance' = interrupt_balance + 1
    /\ conn' = "pause"
    /\ UNCHANGED <<state, queues, seqns, thread, resent, stopper>>

\* Mutant of PauseEnd: waits, holding `lock', for the thread to be idle.
PauseEndIdle ==
    /\ conn = "pause"
    /\ thread = "wait"
    /\ conn' = "paused"
    /\ UNCHANGED <<state, queues, seqns, interrupt_balance, thread, resent, stopper>>

PauseEnd ==
    /\ conn = "pause"
    /\ ~in_processing
    /\ conn' = "paused"
    /\ UNCHANGED <<state, queues, seqns, interrupt_balance, thread, resent, stopper>>

\* resume() takes `lock' ...
ResumeBegin ==
    /\ conn = "paused"
    /\ conn' = "resume"
    /\ UNCHANGED <<state, queues, seqns, interrupt_balance, thread, resent, stopper>>

\* while (current_seqn <= seqn) { pending_queue.pop_front(); ++current_seqn; }
Forget(seqn) ==
    IF current_seqn <= seqn
    THEN /\ pending_queue' = SubSeq(pending_queue, seqn - current_seqn + 2,
                                    Len(pending_queue))
         /\ current_seqn' = seqn + 1
    ELSE UNCHANGED <<pending_queue, current_seqn>>

\* Mutant of ReprocessBegin: one message too many is forgotten.
ReprocessForgetsMore ==
    /\ conn = "resume"
    /\ ~in_processing
    /\ Forget(IF pending_queue = <<>> THEN acknowledged_seqn ELSE acknowledged_seqn + 1)
    /\ resent' = 0
    /\ conn' = "reprocess"
    /\ UNCHANGED <<state, data, queue, accepted, max_sent_seqn, acknowledged_seqn,
                   interrupt_balance, thread, stopper>>

\* ... and calls reprocess(), which takes queue_lock and forgets what has been
\* acknowledged ...
ReprocessBegin ==
    /\ conn = "resume"
    /\ ~in_processing
    /\ Forget(acknowledged_seqn)
    /\ resent' = 0
    /\ conn' = "reprocess"
    /\ UNCHANGED <<state, data, queue, accepted, max_sent_seqn, acknowledged_seqn,
                   interrupt_balance, thread, stopper>>

\* The rest of resume() once reprocess() has returned, whatever it returned.
ResumeDone ==
    /\ conn' = "running"
    /\ resent' = 0
    /\ interrupt_balance' = interrupt_balance - 1
    /\ thread' = Notified(thread)

\* ... and sends the rest again, processor(pending_queue[i], current_seqn + i),
\* giving up at the first failure.
ReprocessSend(ok) ==
    /\ conn = "reprocess"
    /\ resent < Len(pending_queue)
    /\ IF ok
       THEN /\ resent' = resent + 1
            /\ UNCHANGED <<conn, interrupt_balance, thread>>
       ELSE ResumeDone
    /\ UNCHANGED <<state, queues, seqns, stopper>>

ResumeEnd ==
    /\ conn = "reprocess"
    /\ resent = Len(pending_queue)
    /\ ResumeDone
    /\ UNCHANGED <<state, queues, seqns, stopper>>

\* acknowledge(): needs only `lock', so it may run while process() does.  An
\* acknowledgement that is not news is logged as an error and ignored.
Acknowledge(seqn) ==
    /\ conn = "running"
    /\ acknowledged_seqn' = IF seqn > acknowledged_seqn THEN seqn
                                                        ELSE acknowledged_seqn
    /\ UNCHANGED <<state, queues, max_sent_seqn, current_seqn, interrupt_balance,
                   pcs>>

-----------------------------------------------------------------------------
(* stop(timeout), called once, by the termination of the wire's lifetime *)

Stop ==
    /\ LockFree
    /\ stopper = "idle"
    /\ state' = Stopping
    /\ thread' = Notified(thread)
    /\ stopper' = "waiting"
    /\ UNCHANGED <<queues, seqns, interrupt_balance, conn, resent>>

\* async_future.wait_for ended, because ThreadProc returned or by the timeout;
\* then cleanup0().
StopReturn(result) ==
    /\ LockFree
    /\ stopper = "waiting"
    /\ result = "ok" => thread = "done"
    /\ state' = Terminated
    /\ thread' = Notified(thread)
    /\ stopper' = result
    /\ UNCHANGED <<queues, seqns, interrupt_balance, conn, resent>>

-----------------------------------------------------------------------------
\* Steps in which the processor is not called.
QuietThreadStep == ThreadReturn \/ ThreadWait \/ ThreadTake \/ ProcessBegin
                   \/ ProcessSent \/ ProcessEnd

Next ==
    \/ Put
    \/ QuietThreadStep
    \/ \E ok \in BOOLEAN : ProcessSend(ok) \/ ReprocessSend(ok)
    \/ PauseBegin \/ PauseEnd
    \/ ResumeBegin \/ ReprocessBegin \/ ResumeEnd
    \/ \E seqn \in 1 .. LastSent : Acknowledge(seqn)
    \/ Stop
    \/ \E result \in {"ok", "timeout"} : StopReturn(result)

Spec == Init /\ [][Next]_pvars

-----------------------------------------------------------------------------
(* Properties *)

\* The types of the members; the processor is in one of the kinds of StateKind.
TypeOK ==
    /\ state \in StateKind
    /\ data \in Seq(Nat) /\ queue \in Seq(Nat) /\ pending_queue \in Seq(Nat)
    /\ max_sent_seqn \in Nat /\ current_seqn \in Nat \ {0} /\ acknowledged_seqn \in Nat
    /\ interrupt_balance \in {0, 1}
    /\ thread \in ThreadPC /\ conn \in ConnPC /\ stopper \in StopPC
    /\ resent \in Nat
    /\ accepted \in 0 .. MaxPut

\* A message keeps its place: whatever pauses, failed sends and resends did,
\* pending_queue, queue and data hold, in this order and without a gap, every
\* accepted message that has not been forgotten, the m-th message being sent
\* under seqn m each time (max_sent_seqn + 1 in process, current_seqn + i in
\* reprocess).
SeqnContinuity ==
    /\ current_seqn + Len(pending_queue) = max_sent_seqn + 1
    /\ max_sent_seqn + Len(queue) + Len(data) = accepted
    /\ \A i \in 1 .. Len(pending_queue) : pending_queue[i] = current_seqn + i - 1
    /\ \A i \in 1 .. Len(queue) : queue[i] = max_sent_seqn + i
    /\ \A i \in 1 .. Len(data) : data[i] = max_sent_seqn + Len(queue) + i

\* pop_front in reprocess never meets an empty pending_queue: although an
\* acknowledgement can overtake the increment of max_sent_seqn in process,
\* reprocess never sees it do so.
PopIsSafe ==
    [][conn = "resume" /\ conn' = "reprocess"
          => acknowledged_seqn - current_seqn + 1 <= Len(pending_queue)]_pvars

\* Only what the peer has acknowledged is ever forgotten.
ForgetsOnlyAcknowledged ==
    [][\A i \in 1 .. Len(pending_queue) :
          pending_queue[i] < current_seqn' => pending_queue[i] <= acknowledged_seqn]_pvars
=============================================================================
