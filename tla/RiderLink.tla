----------------------------- MODULE RiderLink ------------------------------
(***************************************************************************)
(* The RiderLink module (RiderLink/Private/RiderLink.cpp) and a client of  *)
(* it (RiderGameControl/Private/RiderGameControl.cpp): the life of the     *)
(* EditorModel over connections that are made and lost.                    *)
(*                                                                         *)
(* Four threads: the wire thread reports connections and terminates their  *)
(* lifetimes; the scheduler ("main") creates the models and runs the views *)
(* of RdIsModelAlive; the game thread sends engine events and shuts the    *)
(* modules down; a logging thread calls FireAsyncAction.                   *)
(***************************************************************************)
EXTENDS Lifetime

CONSTANTS MaxConnections,  \* bound: how many connections are made
          MaxEvents        \* bound: how many engine events there are

ASSUME RiderLinkAssumption ==
    /\ MaxConnections \in Nat /\ MaxEvents \in Nat
    /\ Threads = {"wire", "main", "game"}
    /\ OtherActions = {"stopPool", "join", "endConnection", "endModel", "unbind", "unsubscribe",
                       "dead", "uninitialize", "removeDelegates", "reset"}

VARIABLES
    current,      \* current_def of the view of `connected'
    connections,  \* how many have been made
    wire,         \* what the wire thread does
    closing,      \* the termination action of the server has closed its sockets
    queue,        \* of the scheduler
    main,         \* what the scheduler does, [op, model, lifetime, locked]
    model,        \* EditorModel, by number; 0 is a null pointer
    bound,        \* parent # nullptr, of that model
    subscription, \* subscriptions[id] of the broker, by model
    alive,        \* RdIsModelAlive
    logger,       \* what the logging thread does, which holds ModelLock unless "idle"
    viewing,      \* ViewModel was executed for the client
    client_current,  \* current_def of the client's view
    client,       \* GameControl, by the model it was made for
    delegates,    \* the GameControl that engine events go to
    events,
    game          \* what the game thread does

linkvars == <<current, connections, wire, closing>>
modelvars == <<model, bound, subscription, alive>>
clientvars == <<viewing, client_current, client, delegates>>
others == <<logger, events, game>>
vars == <<ltvars, linkvars, queue, main, modelvars, clientvars, others>>

Models == 1 .. MaxConnections
Module == <<"module", 0>>
Wire == <<"wire", 0>>
View == <<"view", 0>>
Client == <<"client", 0>>
Connection(n) == <<"connection", n>>
ModelLifetime(n) == <<"model", n>>

ASSUME LinkLifetimes ==
    Lifetimes = {Module, Wire, View, Client} \cup {Connection(n) : n \in Models}
                    \cup {ModelLifetime(n) : n \in Models}

Do(op) == [op |-> op]
Task(op, n, l) == [op |-> op, model |-> n, lifetime |-> l, locked |-> FALSE]
Idle == Task("idle", 0, Eternal)

-----------------------------------------------------------------------------
\* The modules are loaded: the scheduler's own action came first into the
\* lifetime of the module, InitProtocol is queued, then the client's ViewModel.
Init ==
    /\ terminated = {}
    /\ actions = [l \in Lifetimes |->
                    CASE l = Module -> <<Do("stopPool"), End(Client)>>
                      [] l = Client -> <<Detach(Module, Client)>>
                      [] OTHER -> <<>>]
    /\ todo = [t \in Threads |-> <<>>]
    /\ current = Eternal /\ connections = 0 /\ wire = "none" /\ closing = FALSE
    /\ queue = <<Task("init", 0, Eternal), Task("view", 0, Eternal)>>
    /\ main = Idle
    /\ model = 0 /\ bound = FALSE /\ subscription = 0 /\ alive = FALSE
    /\ logger = "idle"
    /\ viewing = FALSE /\ client_current = Eternal /\ client = 0 /\ delegates = 0
    /\ events = 0 /\ game = "running"

-----------------------------------------------------------------------------
(* The wire thread: connected.set(true), connected.set(false) and the view *)
(* of `connected' in InitProtocol.                                         *)

\* The listener of the view is called if the lifetime of the view is alive.
Connect ==
    /\ wire = "down" /\ ~closing
    /\ connections < MaxConnections
    /\ connections' = connections + 1
    /\ wire' = IF CanAdd(View) THEN "next" ELSE "up"
    /\ UNCHANGED <<ltvars, current, closing, queue, main, modelvars, clientvars, others>>

\* SequentialLifetimes::next(): if the view has ended by now, the listener does
\* nothing or throws out of set_socket_provider.
NextLifetime ==
    /\ wire = "next"
    /\ IF CanAdd(View)
       THEN actions' = Attached(View, Connection(connections)) /\ wire' = "set"
       ELSE UNCHANGED actions /\ wire' \in {"up", "down"}
    /\ UNCHANGED <<terminated, todo, current, connections, closing, queue, main, modelvars,
                   clientvars, others>>

\* Mutant of SetCurrent: the lifetime of a connection still to come.
SetCurrentToNext ==
    /\ wire = "set"
    /\ current' = Connection(connections + 1)
    /\ wire' = "handler"
    /\ UNCHANGED <<ltvars, connections, closing, queue, main, modelvars, clientvars, others>>

SetCurrent ==
    /\ wire = "set"
    /\ current' = Connection(connections)
    /\ wire' = "handler"
    /\ UNCHANGED <<ltvars, connections, closing, queue, main, modelvars, clientvars, others>>

\* next() returns the lifetime of current_def, which it reads again.
ConnectedHandler ==
    /\ wire = "handler"
    /\ queue' = Append(queue, Task("connect", connections, current))
    /\ wire' = "up"
    /\ UNCHANGED <<ltvars, current, connections, closing, main, modelvars, clientvars, others>>

\* Mutant of Disconnect: the lifetime of the connection is not ended.
DisconnectSilently ==
    /\ wire = "up"
    /\ wire' = "down"
    /\ UNCHANGED <<ltvars, current, connections, closing, queue, main, modelvars, clientvars, others>>

\* The listener of before_change: terminate_current().
Disconnect ==
    /\ wire = "up"
    /\ IF CanAdd(View)
       THEN /\ wire' = "ending"
            /\ current' = Eternal
            /\ todo' = [todo EXCEPT !["wire"] = <<End(current)>>]
       ELSE wire' = "down" /\ UNCHANGED <<current, todo>>
    /\ UNCHANGED <<terminated, actions, connections, closing, queue, main, modelvars, clientvars, others>>

Disconnected ==
    /\ wire = "ending" /\ ~Busy("wire")
    /\ wire' = "down"
    /\ UNCHANGED <<ltvars, current, connections, closing, queue, main, modelvars, clientvars, others>>

WireThreadEnds ==
    /\ wire = "down" /\ closing
    /\ wire' = "exit"
    /\ UNCHANGED <<ltvars, current, connections, closing, queue, main, modelvars, clientvars, others>>

-----------------------------------------------------------------------------
(* The tasks of the scheduler.  An exception ends a task.                  *)

Run(op) == main = Idle /\ queue # <<>> /\ Head(queue).op = op /\ queue' = Tail(queue)
At(step) == main.op = step
Go(step) == main' = [main EXCEPT !.op = step]
TaskEnds == main' = Idle

\* The lifetime the task works with has ended; the eternal one never does.
Ended == ~CanAdd(main.lifetime)
AddToLifetime(op) == actions' = Added(main.lifetime, Do(op))

InitProtocol ==
    /\ Run("init")
    /\ IF CanAdd(Module)
       THEN /\ actions' = [actions EXCEPT
                  ![Module] = Append(@, End(Wire)),
                  ![Wire] = <<Detach(Module, Wire), Do("join"), End(View)>>,
                  ![View] = <<Detach(Wire, View), Do("endConnection")>>]
            /\ wire' = "down"
       ELSE UNCHANGED <<actions, wire>>
    /\ UNCHANGED <<terminated, todo, current, connections, closing, main, modelvars, clientvars, others>>

\* EditorModel = MakeUnique<RdEditorModel>(), under ModelLock
NewModel ==
    /\ Run("connect") /\ logger = "idle"
    /\ model' = Head(queue).model /\ bound' = FALSE
    /\ main' = [Head(queue) EXCEPT !.op = "bind", !.locked = TRUE]
    /\ UNCHANGED <<ltvars, linkvars, subscription, alive, clientvars, others>>

\* connect(): if the connection is lost by now, the bracket of bind() does
\* nothing and the rest throws; if it is lost before the closing is added,
\* adding it throws; ...
Bind ==
    /\ At("bind")
    /\ IF Ended THEN TaskEnds /\ UNCHANGED bound ELSE Go("bound") /\ bound' = TRUE
    /\ UNCHANGED <<ltvars, linkvars, queue, model, subscription, alive, clientvars, others>>

BindClosing ==
    /\ At("bound")
    /\ IF Ended THEN TaskEnds /\ UNCHANGED actions ELSE Go("init") /\ AddToLifetime("unbind")
    /\ UNCHANGED <<terminated, todo, linkvars, queue, modelvars, clientvars, others>>

\* Mutant of Advise: the test of advise_on is missing.
AdviseAnyway ==
    /\ At("init")
    /\ Go("advised") /\ subscription' = model
    /\ UNCHANGED <<ltvars, linkvars, queue, model, bound, alive, clientvars, others>>

\* ... init() needs the parent, and advise_on() tests the lifetime, registers
\* the entity and then adds to the lifetime.
Advise ==
    /\ At("init")
    /\ \/ ~bound /\ TaskEnds /\ UNCHANGED subscription
       \/ bound /\ Ended /\ Go("initialized") /\ UNCHANGED subscription
       \/ bound /\ ~Ended /\ Go("advised") /\ subscription' = model
    /\ UNCHANGED <<ltvars, linkvars, queue, model, bound, alive, clientvars, others>>

AdviseClosing ==
    /\ At("advised")
    /\ IF Ended THEN TaskEnds /\ UNCHANGED actions
                ELSE Go("initialized") /\ AddToLifetime("unsubscribe")
    /\ UNCHANGED <<terminated, todo, linkvars, queue, modelvars, clientvars, others>>

\* Lines 73-83: both statements throw if the connection is lost by now.
AddDead ==
    /\ At("initialized")
    /\ IF ~bound \/ Ended THEN TaskEnds /\ UNCHANGED actions ELSE Go("alive") /\ AddToLifetime("dead")
    /\ UNCHANGED <<terminated, todo, linkvars, queue, modelvars, clientvars, others>>

\* Mutant of SetAlive: the views are not called.
SetAliveUnviewed ==
    /\ At("alive")
    /\ alive' = TRUE
    /\ TaskEnds
    /\ UNCHANGED <<ltvars, linkvars, queue, model, bound, subscription, clientvars, others>>

\* RdIsModelAlive.set(true) calls the views if it was false.
SetAlive ==
    /\ At("alive")
    /\ alive' = TRUE
    /\ IF ~alive /\ viewing /\ CanAdd(Client) THEN Go("view") ELSE TaskEnds
    /\ UNCHANGED <<ltvars, linkvars, queue, model, bound, subscription, clientvars, others>>

\* Mutant of SetDead: the lock is not taken.
SetDeadUnlocked ==
    /\ Run("dead")
    /\ main' = [Task("dying", 0, Eternal) EXCEPT !.locked = TRUE]
    /\ IF alive /\ viewing /\ CanAdd(Client)
       THEN /\ todo' = [todo EXCEPT !["main"] = <<End(client_current)>>]
            /\ client_current' = Eternal
       ELSE UNCHANGED <<todo, client_current>>
    /\ UNCHANGED <<terminated, actions, linkvars, modelvars, viewing, client, delegates, others>>

\* RdIsModelAlive.set(false), queued by the action of the connection: before it
\* changes, the views end the lifetime they gave to the client.
SetDead ==
    /\ Run("dead") /\ logger = "idle"
    /\ main' = [Task("dying", 0, Eternal) EXCEPT !.locked = TRUE]
    /\ IF alive /\ viewing /\ CanAdd(Client)
       THEN /\ todo' = [todo EXCEPT !["main"] = <<End(client_current)>>]
            /\ client_current' = Eternal
       ELSE UNCHANGED <<todo, client_current>>
    /\ UNCHANGED <<terminated, actions, linkvars, modelvars, viewing, client, delegates, others>>

Died ==
    /\ At("dying") /\ ~Busy("main")
    /\ alive' = FALSE
    /\ TaskEnds
    /\ UNCHANGED <<ltvars, linkvars, queue, model, bound, subscription, clientvars, others>>

\* ViewModel: the handler is called at once for a model that is alive.
ViewModel ==
    /\ Run("view")
    /\ IF CanAdd(Client)
       THEN /\ viewing' = TRUE
            /\ actions' = Added(Client, Do("endModel"))
            /\ main' = IF alive THEN Head(queue) ELSE Idle
       ELSE UNCHANGED <<viewing, actions, main>>
    /\ UNCHANGED <<terminated, todo, linkvars, modelvars, client_current, client, delegates, others>>

-----------------------------------------------------------------------------
(* The client: FRiderGameControlModule and FRiderGameControl, whose        *)
(* constructor runs on the scheduler.                                      *)

ClientLifetime ==
    /\ At("view")
    /\ IF CanAdd(Client)
       THEN /\ actions' = Attached(Client, ModelLifetime(model))
            /\ client_current' = ModelLifetime(model)
            /\ Go("reset")
       ELSE TaskEnds /\ UNCHANGED <<actions, client_current>>
    /\ UNCHANGED <<terminated, todo, linkvars, queue, modelvars, viewing, client, delegates, others>>

\* The first line of the handler, with the lifetime read again from current_def.
AddReset ==
    /\ At("reset")
    /\ IF CanAdd(client_current)
       THEN /\ actions' = Added(client_current, Do("reset"))
            /\ main' = [main EXCEPT !.op = "delegates", !.model = model, !.lifetime = client_current]
       ELSE TaskEnds /\ UNCHANGED actions
    /\ UNCHANGED <<terminated, todo, linkvars, queue, modelvars, clientvars, others>>

\* The bracket around the engine's events.
AddDelegates ==
    /\ At("delegates")
    /\ IF Ended THEN Go("use") /\ UNCHANGED delegates ELSE Go("removal") /\ delegates' = model
    /\ UNCHANGED <<ltvars, linkvars, queue, modelvars, viewing, client_current, client, others>>

AddRemoval ==
    /\ At("removal")
    /\ IF Ended THEN TaskEnds /\ UNCHANGED actions ELSE Go("use") /\ AddToLifetime("removeDelegates")
    /\ UNCHANGED <<terminated, todo, linkvars, queue, modelvars, clientvars, others>>

\* playModeFromEditor.fire() throws if the model is not bound any more: then the
\* object under construction is freed.  In the end GameControl is assigned.
Construct ==
    /\ At("use") /\ TaskEnds
    /\ client' = IF bound THEN model ELSE client
    /\ IF bound /\ ~Ended THEN AddToLifetime("uninitialize") ELSE UNCHANGED actions
    /\ UNCHANGED <<terminated, todo, linkvars, queue, modelvars, viewing, client_current, delegates, others>>

\* An engine event: ScheduleModelAction captures `this'.
EngineEvent ==
    /\ game = "running" /\ delegates # 0
    /\ events < MaxEvents
    /\ events' = events + 1
    /\ queue' = Append(queue, Task("use", delegates, Eternal))
    /\ UNCHANGED <<ltvars, linkvars, main, modelvars, clientvars, logger, game>>

\* The action dereferences `this' and its model.
UseClient ==
    /\ Run("use")
    /\ UNCHANGED <<ltvars, linkvars, main, modelvars, clientvars, others>>

-----------------------------------------------------------------------------
(* The actions of lifetimes, on whichever thread terminates them.          *)

UnbindAction(t) ==
    /\ Doing(t, "unbind") /\ Done(t)
    /\ bound' = FALSE
    /\ UNCHANGED <<terminated, actions, linkvars, queue, main, model, subscription, alive, clientvars, others>>

\* subscriptions.erase(key)
UnsubscribeAction(t) ==
    /\ Doing(t, "unsubscribe") /\ Done(t)
    /\ subscription' = 0
    /\ UNCHANGED <<terminated, actions, linkvars, queue, main, model, bound, alive, clientvars, others>>

DeadAction(t) ==
    /\ Doing(t, "dead") /\ Done(t)
    /\ queue' = Append(queue, Task("dead", 0, Eternal))
    /\ UNCHANGED <<terminated, actions, linkvars, main, modelvars, clientvars, others>>

\* Mutant of UninitializeAction: it is always queued.
UninitializeLater(t) ==
    /\ Doing(t, "uninitialize") /\ Done(t)
    /\ queue' = Append(queue, Task("use", client, Eternal))
    /\ UNCHANGED <<terminated, actions, linkvars, main, modelvars, clientvars, others>>

\* ScheduleModelAction: at once on the scheduler, queued on another thread.
UninitializeAction(t) ==
    /\ Doing(t, "uninitialize") /\ Done(t)
    /\ queue' = IF t = "main" THEN queue ELSE Append(queue, Task("use", client, Eternal))
    /\ UNCHANGED <<terminated, actions, linkvars, main, modelvars, clientvars, others>>

RemoveDelegatesAction(t) ==
    /\ Doing(t, "removeDelegates") /\ Done(t)
    /\ delegates' = 0
    /\ UNCHANGED <<terminated, actions, linkvars, queue, main, modelvars, viewing, client_current,
                   client, others>>

\* GameControl.Reset()
ResetAction(t) ==
    /\ Doing(t, "reset") /\ Done(t)
    /\ client' = 0
    /\ UNCHANGED <<terminated, actions, linkvars, queue, main, modelvars, viewing, client_current,
                   delegates, others>>

\* The actions of the two SequentialLifetimes on their parents.
EndConnectionAction(t) ==
    /\ Doing(t, "endConnection")
    /\ todo' = [todo EXCEPT ![t] = <<End(current)>> \o Tail(@)]
    /\ current' = Eternal
    /\ UNCHANGED <<terminated, actions, connections, wire, closing, queue, main, modelvars,
                   clientvars, others>>

EndModelAction(t) ==
    /\ Doing(t, "endModel")
    /\ todo' = [todo EXCEPT ![t] = <<End(client_current)>> \o Tail(@)]
    /\ client_current' = Eternal
    /\ UNCHANGED <<terminated, actions, linkvars, queue, main, modelvars, viewing, client, delegates, others>>

\* Mutant of CloseSockets: they are left open.
CloseNothing(t) ==
    /\ FALSE
    /\ UNCHANGED <<ltvars, linkvars, queue, main, modelvars, clientvars, others>>

\* The termination action of the server closes the sockets and joins its thread.
CloseSockets(t) ==
    /\ Doing(t, "join") /\ ~closing
    /\ closing' = TRUE
    /\ UNCHANGED <<ltvars, current, connections, wire, queue, main, modelvars, clientvars, others>>

JoinAction(t) ==
    /\ Doing(t, "join") /\ wire = "exit" /\ Done(t)
    /\ UNCHANGED <<terminated, actions, linkvars, queue, main, modelvars, clientvars, others>>

\* pool->stop(true) waits for the tasks in the queue.
StopPoolAction(t) ==
    /\ Doing(t, "stopPool") /\ Done(t)
    /\ queue = <<>> /\ main = Idle
    /\ UNCHANGED <<terminated, actions, linkvars, queue, main, modelvars, clientvars, others>>

ActionStep(t) ==
    \/ UnbindAction(t) \/ UnsubscribeAction(t) \/ DeadAction(t)
    \/ UninitializeAction(t) \/ RemoveDelegatesAction(t) \/ ResetAction(t)
    \/ EndConnectionAction(t) \/ EndModelAction(t)
    \/ CloseSockets(t) \/ JoinAction(t) \/ StopPoolAction(t)
    \/ LifetimeStep(t) /\ UNCHANGED <<linkvars, queue, main, modelvars, clientvars, others>>

-----------------------------------------------------------------------------
(* The other threads.                                                      *)

\* FireAsyncAction: under ModelLock, if the model is alive, unrealLog.fire()
\* returns if the signal is not bound, ...
FireAsyncAction ==
    /\ logger = "idle" /\ ~main.locked
    /\ logger' = IF alive /\ bound THEN "firing" ELSE "locked"
    /\ UNCHANGED <<ltvars, linkvars, queue, main, modelvars, clientvars, events, game>>

\* ... and then asks its parent for the wire, and throws if it has none by now.
FireAsyncReturns ==
    /\ logger # "idle"
    /\ logger' = "idle"
    /\ UNCHANGED <<ltvars, linkvars, queue, main, modelvars, clientvars, events, game>>

\* ShutdownModule of the client, then of RiderLink.
Shutdown(from, to, l) ==
    /\ game = from /\ ~Busy("game")
    /\ game' = to
    /\ todo' = [todo EXCEPT !["game"] = <<End(l)>>]
    /\ UNCHANGED <<terminated, actions, linkvars, queue, main, modelvars, clientvars, logger, events>>

ShutdownReturns ==
    /\ game = "shutdown" /\ ~Busy("game")
    /\ game' = "done"
    /\ UNCHANGED <<ltvars, linkvars, queue, main, modelvars, clientvars, logger, events>>

WireStep ==
    \/ NextLifetime \/ SetCurrent \/ ConnectedHandler \/ Disconnected \/ WireThreadEnds
    \/ ActionStep("wire")

MainStep ==
    \/ InitProtocol \/ NewModel \/ Bind \/ BindClosing \/ Advise \/ AdviseClosing \/ AddDead
    \/ SetAlive \/ SetDead \/ Died \/ ViewModel
    \/ ClientLifetime \/ AddReset \/ AddDelegates \/ AddRemoval \/ Construct \/ UseClient
    \/ ActionStep("main")

GameStep == ActionStep("game") \/ Shutdown("client", "shutdown", Module) \/ ShutdownReturns

\* All is over.
Finished == game = "done" /\ UNCHANGED vars

Next ==
    \/ Connect \/ Disconnect \/ WireStep
    \/ MainStep
    \/ EngineEvent \/ Shutdown("running", "client", Client) \/ GameStep
    \/ FireAsyncAction \/ FireAsyncReturns
    \/ Finished

\* The threads run on; connections need not come, and are lost for certain only
\* when the sockets are closed.
Fairness ==
    /\ WF_vars(WireStep) /\ WF_vars(GameStep) /\ WF_vars(FireAsyncReturns)
    /\ SF_vars(MainStep)
    /\ WF_vars(closing /\ Disconnect)

Spec == Init /\ [][Next]_vars /\ Fairness
=============================================================================
