------------------------------- MODULE RdCall -------------------------------
(***************************************************************************)
(* Calls (rd_framework task/RdCall, WiredRdTaskImpl, RdEndpoint): members  *)
(* of an extension.  One end calls, synchronously or not, and has a task   *)
(* for each call; the endpoint at the other end executes the request and   *)
(* responds under the id of the task.                                      *)
(***************************************************************************)
EXTENDS ExtWire

CONSTANTS Client, Server,  \* the ends
          MaxCalls         \* bound: how many calls are made

ASSUME RdCallAssumption == Ends = {Client, Server} /\ Client # Server /\ MaxCalls \in Nat

VARIABLES
    calls,        \* how many were made
    result,       \* of each task: "none" or its RdTaskResult
    subscribed,   \* tasks with an entry in the broker, until their extension ends
    sync_tasks,   \* tasks whose results need no scheduler
    cancelling,   \* tasks whose termination action was taken by the end of the lifetime,
                  \* until it was executed
    destroyed,    \* tasks whose WiredRdTaskImpl is gone
    sync_task_id, \* 0 for nullopt
    executed,     \* how often each request was executed
    addressee,    \* of the queued request: the binding of the endpoint it was queued for,
                  \* or 0: it waits for one
    undefined     \* tasks that the wire thread used when they were destroyed

taskvars == <<calls, sync_tasks, destroyed, sync_task_id>>
servervars == <<executed, addressee>>
tvars == <<taskvars, result, subscribed, cancelling, servervars, undefined>>
vars == <<evars, tvars>>

Tasks == 1 .. MaxCalls
Results == {"Success", "Fault", "Cancelled"}
Request(n) == [op |-> "request", task |-> n]
Response(n, r) == [op |-> r, task |-> n]
IsResponse(m) == m.op \in {"Success", "Fault"}
InProgress == at[Client]["main"].msg.task

Init ==
    /\ ExtInit
    /\ calls = 0
    /\ result = [n \in Tasks |-> "none"]
    /\ subscribed = {} /\ destroyed = {} /\ sync_tasks = {} /\ cancelling = {}
    /\ sync_task_id = 0
    /\ executed = [n \in Tasks |-> 0] /\ addressee = executed
    /\ undefined = {}

-----------------------------------------------------------------------------
(* The life of the extension: lifetimes and objects of the members         *)

\* The call is a member of a new object.
AdviseStep(e) ==
    /\ Advise(e)
    /\ sync_task_id' = IF e = Client THEN 0 ELSE sync_task_id
    /\ UNCHANGED <<calls, sync_tasks, destroyed, result, subscribed, cancelling, servervars,
                   undefined>>

\* Mutant of Taken: tasks are not cancelled.
TakenNone == {}

\* Mutant of Taken: the destructor does not remove the action.
TakenAll == subscribed

\* The actions of tasks, but those of destroyed tasks were removed.
Taken == subscribed \ destroyed

\* The lifetime of the client's extension ends: the actions are taken, ...
EndLifetimeStep(e) ==
    \/ /\ EndLifetime(e)
       /\ cancelling' = IF e = Client THEN Taken ELSE cancelling
       /\ UNCHANGED <<taskvars, result, subscribed, servervars, undefined>>
    \/ EndEarly(e) /\ UNCHANGED tvars

\* Mutant of Lacks: a result that is there is replaced.
LacksAlways(n) == TRUE

\* set_if_empty(): the task has no result, ...
Lacks(n) == result[n] = "none"

\* ... and now this one, whether or not another thread has set one since.
Give(m) == result' = [result EXCEPT ![m.task] = m.op]

Uses(n) == undefined' = undefined \cup ({n} \cap destroyed)

\* ... and executed, the last one first: a task without a result is going to be
\* cancelled, another one is only unsubscribed.
Terminate ==
    /\ Does(Client, "wire", "end")
    /\ \E n \in cancelling :
          /\ \A k \in cancelling : k <= n
          /\ Uses(n)
          /\ IF Lacks(n)
             THEN /\ Goes(Client, "wire", Doing("give", Response(n, "Cancelled"), <<>>))
                  /\ UNCHANGED <<subscribed, cancelling>>
             ELSE /\ subscribed' = subscribed \ {n} /\ cancelling' = cancelling \ {n}
                  /\ UNCHANGED at
    /\ UNCHANGED <<extvars, wirevars, taskvars, result, servervars>>

\* Then the members are unbound, and the extension says Disconnected.
UnbindStep(e) ==
    /\ SendDisconnected(e)
    /\ e = Client => cancelling = {}
    /\ subscribed' = IF e = Client THEN {} ELSE subscribed
    /\ UNCHANGED <<taskvars, result, cancelling, servervars, undefined>>

ExtStep(e) ==
    /\ \/ SendReady(e) \/ AddClosing(e) \/ Unsubscribe(e) \/ ReceiveState(e)
       \/ RunDeferred(e) \/ SendNow(e)
       \/ \E t \in {"main", "wire"} :
             Answer(e, t) \/ SetConnected(e, t) \/ Flush(e, t) \/ SetDisconnected(e, t)
    /\ UNCHANGED tvars

-----------------------------------------------------------------------------
(* The client's scheduler                                                  *)

\* start_internal(): a new task is subscribed, ...
NewTask ==
    /\ ext[Client] = "bound" /\ IsIdle(Client, "main")
    /\ calls < MaxCalls
    /\ calls' = calls + 1
    /\ subscribed' = subscribed \cup {calls'}
    /\ UNCHANGED <<ext, binds, connected, wirevars, result, cancelling, servervars, undefined>>

\* ... and the request is sent.
StartCall ==
    /\ NewTask
    /\ Send(Client, Request(calls'), "idle")
    /\ UNCHANGED <<sync_tasks, destroyed, sync_task_id>>

\* sync(): then it waits.
SyncCall ==
    /\ NewTask
    /\ sync_task_id = 0 /\ sync_task_id' = calls'
    /\ sync_tasks' = sync_tasks \cup {calls'}
    /\ Send(Client, Request(calls'), "wait")
    /\ UNCHANGED destroyed

\* "Already exists sync task": the new task is destroyed, nothing is sent.
SyncRefused ==
    /\ NewTask
    /\ sync_task_id # 0
    /\ sync_tasks' = sync_tasks \cup {calls'}
    /\ destroyed' = destroyed \cup {calls'}
    /\ UNCHANGED <<sendQ, at, sync_task_id>>

\* The caller looks at the result or handles the exception, and is done with the
\* task.
SyncEnds ==
    /\ Does(Client, "main", "wait")
    /\ destroyed' = destroyed \cup {InProgress}
    /\ Halts(Client, "main")
    /\ UNCHANGED <<extvars, wirevars, calls, sync_tasks, result, subscribed, cancelling, servervars,
                   undefined>>

\* Mutant of SyncReturns: sync_task_id is not forgotten.
SyncReturnsOnly == SyncEnds /\ result[InProgress] = "Success" /\ UNCHANGED sync_task_id

SyncReturns == SyncEnds /\ result[InProgress] = "Success" /\ sync_task_id' = 0

\* value_or_throw() or unwrap() throws: there is another result or, because the
\* lifetime has ended or because of the timeout, none.
SyncThrows == SyncEnds /\ result[InProgress] # "Success" /\ UNCHANGED sync_task_id

\* What the wire thread queued for a started call finds no result ...
ApplyResponse ==
    /\ IsIdle(Client, "main")
    /\ queue[Client] # <<>> /\ IsResponse(Head(queue[Client]))
    /\ queue' = [queue EXCEPT ![Client] = Tail(@)]
    /\ IF Lacks(Head(queue[Client]).task)
       THEN Goes(Client, "main", Doing("give", Head(queue[Client]), <<>>))
       ELSE UNCHANGED at
    /\ UNCHANGED <<extvars, inbox, mq, custom, tvars>>

\* ... and sets it.
GiveResult ==
    /\ Does(Client, "main", "give")
    /\ Give(at[Client]["main"].msg)
    /\ Halts(Client, "main")
    /\ UNCHANGED <<extvars, wirevars, taskvars, subscribed, cancelling, servervars, undefined>>

-----------------------------------------------------------------------------
(* The client's wire thread                                                *)

Receive(e) ==
    /\ IsIdle(e, "wire")
    /\ inbox[e] # <<>> /\ Head(inbox[e]).op \notin States
    /\ inbox' = [inbox EXCEPT ![e] = Tail(@)]
    /\ UNCHANGED <<extvars, mq, custom>>

\* The task of a sync call is going to be given its result here, the result of a
\* started call is queued.  A response for a task of an ended extension is dropped.
ReceiveResponse ==
    /\ Receive(Client)
    /\ LET m == Head(inbox[Client])
       IN  \/ /\ m.task \in subscribed \cap sync_tasks
              /\ Uses(m.task)
              /\ IF Lacks(m.task)
                 THEN Goes(Client, "wire", Doing("give", m, <<>>))
                 ELSE UNCHANGED at
              /\ UNCHANGED queue
           \/ /\ m.task \in subscribed \ sync_tasks
              /\ Uses(m.task)
              /\ queue' = [queue EXCEPT ![Client] = Append(@, m)]
              /\ UNCHANGED at
           \/ m.task \notin subscribed /\ UNCHANGED <<undefined, queue, at>>
    /\ UNCHANGED <<taskvars, result, subscribed, cancelling, servervars>>

\* Property::set: the value is there, which a sync call may see, ...
SetValue ==
    /\ Does(Client, "wire", "give")
    /\ Uses(at[Client]["wire"].msg.task)
    /\ Give(at[Client]["wire"].msg)
    /\ GoesOn(Client, "wire", "fire")
    /\ UNCHANGED <<extvars, wirevars, taskvars, subscribed, cancelling, servervars>>

\* ... and the property fires its change.  A task that was cancelled is also
\* unsubscribed.
FireChange ==
    /\ Does(Client, "wire", "fire")
    /\ LET m == at[Client]["wire"].msg
       IN  /\ Uses(m.task)
           /\ IF m.op = "Cancelled"
              THEN /\ subscribed' = subscribed \ {m.task} /\ cancelling' = cancelling \ {m.task}
                   /\ Goes(Client, "wire", Doing("end", Nothing, <<>>))
              ELSE Halts(Client, "wire") /\ UNCHANGED <<subscribed, cancelling>>
    /\ UNCHANGED <<extvars, wirevars, taskvars, result, servervars>>

-----------------------------------------------------------------------------
(* The endpoint                                                            *)

ReceiveRequest ==
    /\ Receive(Server)
    /\ queue' = [queue EXCEPT ![Server] = Append(@, Head(inbox[Server]))]
    /\ addressee' = IF ext[Server] = "bound"
                    THEN [addressee EXCEPT ![Head(inbox[Server]).task] = binds[Server]]
                    ELSE addressee
    /\ UNCHANGED <<at, taskvars, result, subscribed, cancelling, executed, undefined>>

\* Nobody wants a request if the endpoint is not bound any more; one that was
\* queued for an endpoint has lost its id with it.
Wanted(n) == ext[Server] \in {"bound", "dying"} /\ addressee[n] \in {0, binds[Server]}

\* The handler returns or throws; the response is sent if the lifetime has not
\* ended by now.
Execute ==
    /\ IsIdle(Server, "main")
    /\ queue[Server] # <<>> /\ Head(queue[Server]).op = "request"
    /\ queue' = [queue EXCEPT ![Server] = Tail(@)]
    /\ LET n == Head(queue[Server]).task
       IN  /\ executed' = IF Wanted(n) THEN [executed EXCEPT ![n] = @ + 1] ELSE executed
           /\ addressee' = [addressee EXCEPT ![n] = 0]
           /\ IF Wanted(n) /\ ext[Server] = "bound"
              THEN \E r \in {"Success", "Fault"} : Send(Server, Response(n, r), "idle")
              ELSE UNCHANGED <<sendQ, at>>
    /\ UNCHANGED <<ext, binds, connected, inbox, mq, custom, taskvars, result, subscribed,
                   cancelling, undefined>>

-----------------------------------------------------------------------------
\* What the threads do without being asked.
Progress(e) ==
    \/ ExtStep(e) \/ UnbindStep(e)
    \/ e = Client /\ \/ SyncReturns \/ SyncThrows \/ ApplyResponse \/ GiveResult
                     \/ ReceiveResponse \/ SetValue \/ FireChange \/ Terminate
    \/ e = Server /\ (ReceiveRequest \/ Execute)

Next ==
    \/ \E e \in Ends : AdviseStep(e) \/ EndLifetimeStep(e) \/ Progress(e)
    \/ StartCall \/ SyncCall \/ SyncRefused

\* Both threads of both ends run on; a sync call times out.  What they do without
\* being asked comes to an end, so it is enough that one that can go on does.
Fairness == WF_vars(\E e \in Ends : Progress(e))

Spec == Init /\ [][Next]_vars /\ Fairness
=============================================================================
