# Specifications of the Rider–Unreal link

The repository holds the Unreal Editor side of the connection to JetBrains Rider: the plugin
`Plugins/Developer/RiderLink`, most of whose logic is the C++ implementation of the *rd* protocol
(`Source/RD/src/rd_core_cpp`, `Source/RD/src/rd_framework_cpp`), a few plugin modules on top of it
(`Source/RiderLink`, `RiderGameControl`, `RiderLogging`, ...), and two small plugins that sort assets.
This directory holds TLA+ specifications of the protocol's core, the TLC configurations that check
them and TLAPS proofs about them.

Paths below are relative to `Plugins/Developer/RiderLink/Source/RD/src/`; `fw/` is short for
`rd_framework_cpp/src/main/` and `core/` for `rd_core_cpp/src/main/`.

## 1. The system

Two processes hold copies of a model, a tree of *reactive entities* with equal identifiers. A change
of an entity at one end becomes a message that travels to the entity with the same identifier at the
other end:

    entity --send--> [ExtWire] --> SocketWire: put --> ByteBufferAsyncProcessor --> socket
                                                                                       |
    entity <-- scheduler <-- MessageBroker: dispatch <-- PkgInputStream, read_package <-+

| Component | State | Operations | What is hard about it | What makes it correct |
|---|---|---|---|---|
| `ByteBufferAsyncProcessor` (`fw/wire`) | three queues, three sequence numbers, a pause counter, the state of its thread | put; the steps of ThreadProc; pause, resume, acknowledge; stop | four kinds of callers, three mutexes, calls that block while holding one, sends that fail halfway | messages keep their order and number; only acknowledged ones are forgotten; pause, resume and stop end |
| `SocketWire`, sending and receiving (`fw/wire`) | socket, numbers received, the stream being read | send0, read_package, read_header, set_socket_provider, receiverProc | a connection may be lost at any time with anything in flight, and is made anew while the sender thread runs | every message arrives once and in order over all connections |
| `SocketWire`, heartbeat, `Client`, `Server` | timestamps, `heartbeatAlive`, the listening socket, two threads | ping, the accept and connect loops, the termination actions | counters written by two threads; joining a thread that may be blocked | the threads end with the lifetime; a dead peer is reported |
| `MessageBroker` (`fw/protocol`) | subscriptions, messages kept back per identifier | dispatch, the deferred action, invoke, advise_on | the receiver thread runs beside the default scheduler, and part of the deferred action is outside the lock | messages reach the bound entity in order, none is forgotten, none comes after its lifetime |
| Schedulers (`fw/scheduler`) | a queue of tasks, a thread | queue, invoke_or_queue, flush | reentrance, tasks that throw | tasks run in order, one at a time |
| `RdProperty` (`fw/base/RdPropertyBase.h`) | a value and a version at each end | set, on_wire_received | both ends set it at once | the ends agree once nothing is on its way, and the master wins |
| `RdMap` (`fw/impl/RdMap.h`) | a map at each end, versions, `pendingForAck` | set, remove, clear, on_wire_received, acknowledgements | changes that cross; a second change before the acknowledgement of the first | as for properties, key by key |
| `RdList`, `RdSet`, `RdSignal` (`fw/impl`) | a collection | add, remove, fire, on_wire_received | no conflict resolution | what one end does the other repeats |
| `RdCall`, `RdEndpoint`, tasks (`fw/task`) | the pending sync call, the result of each task | sync, start, on_wire_received, cancellation | timeouts racing responses, the end of the lifetime | each request gets at most one result, each task ends |
| `RdExtBase`, `ExtWire` (`fw/ext`) | `connected`, the queue of early messages | bind, unbind, the states Ready, ReceivedCounterpart, Disconnected | the ends bind at different times; states are executed by two threads | the ends agree whether they are connected; no message is sent before the other end is bound; order is kept |
| Lifetimes (`core/lifetime`) | the ordered actions of each lifetime, the tree of lifetimes | terminate, add_action, bracket, attach_nested, `SequentialLifetimes` | termination beside additions on other threads, callbacks that reenter | what is opened is closed once, in reverse order |
| Signals, viewable collections (`core/reactive`) | listeners, values | fire, advise, view, set | listeners that fire, advise or end lifetimes | a view has exactly one lifetime alive, that of the present value |
| Protocol, identities, `InternRoot` (`fw/protocol`, `fw/intern`) | identifiers, numbers of interned values | next, intern, on_wire_received | both ends intern the same value | equal identifiers at both ends; a number means the same value at both |
| Serialization (`fw/protocol/Buffer.*`, `fw/serialization`) | a position in a buffer | read, write | none of interest to a model | reading gives back what was written |
| `RiderLink` module | `EditorModel`, `RdIsModelAlive`, lifetimes | InitProtocol, ViewModel, QueueModelAction, FireAsyncAction | the model is replaced at each connection while other threads use it | handlers only ever see the model of the living connection |
| `RiderGameControl` | the client object `GameControl`, delegates of engine events, play modes | construct and reset with the model; schedule actions; play requests, settings packed into an integer | actions queued past the connection; a constructor that throws halfway; settings change at both ends | an action finds the client and the model it was made for; a setting does not bounce between the ends |
| `RiderLogging`, `RiderLC`, `RiderBlueprint`, `RiderShaderInfo` | almost none | forward events | none of their own | rests on the module above |
| `AssetAutoArrange`, `AssetAutoArranger` | settings | one loop over the assets | none | — |
| Generated models, third-party libraries | — | — | — | out of scope: generated, vendored |

`PROJECT.json` lists the components with their state of modelling, and every hazard found so far at
its line, with the properties that guard against it.

## 2. Modules

| Module | Models | Built on |
|---|---|---|
| `ByteBufferAsyncProcessor` | the sender queue | — |
| `SocketWire` | one direction of a wire over connections that break | extends `ByteBufferAsyncProcessor` |
| `ReliableChannel` | what `IWire` promises | — |
| `SocketWireMC` | observers of the wire's environment, the specification checked by TLC, the refinement of `ReliableChannel` | extends `SocketWire` |
| `MessageBroker` | the broker for one identifier, with the schedulers its entities may have | — |
| `MessageBrokerMC` | observers of the broker's environment | extends `MessageBroker` |
| `RdProperty` | one property with its counterpart | — |
| `RdMap` | one map with its counterpart | — |
| `RdMapMC` | observers of how the master uses the map | extends `RdMap` |
| `Lifetime` | lifetimes and their termination by several threads | — |
| `RiderLink` | the `RiderLink` module, its connections, `RiderGameControl` as a client | extends `Lifetime` |
| `RiderLinkMC` | observers of races the code does not cope with | extends `RiderLink` |
| `ExtWire` | an extension at its two ends, with the broker's part in receiving its states | — |
| `RdCall` | a call and its endpoint, members of an extension | extends `ExtWire` |
| `RdCallMC` | observers of what the properties cannot ask for | extends `RdCall` |
| `..._proofs` | theorems about the module of that name | extends it |
| `SequenceLemmas` | what the proofs need to know about queues: ends, concatenations, prefixes, ranges | — |

Definitions whose comment begins with "Mutant of" are not part of a specification. Each is the
definition it names with a bug someone could have written, and shows which property notices.

### ByteBufferAsyncProcessor

The variables carry the names of the members. A message is the number of the `put` that was
accepted, so that order, loss and duplication can be read off the queues. The mutexes are not
variables: a section that does not block is one action, and `thread` and `conn` tell who holds a lock
for longer.

| Code | Actions |
|---|---|
| `put` | `Put` (from `Stopping` on the message is dropped, which changes nothing) |
| `ThreadProc`, `add_data` | `ThreadReturn`, `ThreadWait`, `ThreadTake` (all tests and the move of `data` are under `lock`) |
| `process` | `ProcessBegin`, `ProcessSend(ok)`, `ProcessSent`, `ProcessEnd`; the call of the processor and the increment that follows it are separate steps, as an acknowledgement can come in between |
| `pause` | `PauseBegin`, `PauseEnd`; it holds `lock` in between, waiting for `process` |
| `resume`, `reprocess` | `ResumeBegin`, `ReprocessBegin`, `ReprocessSend(ok)`, `ResumeEnd` |
| `acknowledge` | `Acknowledge(seqn)` |
| `stop`, `cleanup0` | `Stop`, `StopReturn(result)`: the future may be ready or the wait may time out |

The start state is the one the constructor of `SocketWire::Base` leaves: paused once, thread started.
`terminate()` is not modelled; nothing calls it. A notification is one step with the release of the
lock that precedes it.

### SocketWire

`packages` and `acks` are the bytes in flight on the current connection. `send0` appends a package;
on a dead socket it reports a failure or swallows the package. `CounterpartReads` is `read_package`
of the other end, which runs the same code: it drops a package whose number is not new (1 always
counts as new), acknowledges whatever it read, and hands the rest to the stream. `AckArrives` is
`read_header`. A connection that ends (`Break`, `CloseSocket`) lets the counterpart read a prefix of what was
in flight and loses the rest with all acknowledgements. The connection thread stores a new socket
(`SetSocketProvider`), resumes the queue (`ResumeConnection`) and, when its reads fail, pauses it
(`Disconnected`).

`leaked` records that the code has put a byte into the stream that belongs to no message: for a duplicate
`read_package` returns `true`, which its caller takes for a length of one. The model goes on as if the messages
behind it could still be told apart; in the program the parse of everything that follows is off by a byte.

Abstractions: a package is read as a whole; pings are left out; the two directions of a socket are
independent, so that blocking on a full socket is not modelled; the counterpart process does not
restart.

### MessageBroker

One identifier, at most one entity bound to it at a time. The receiver thread calls `Dispatch`; the
default scheduler runs the tasks in `default_queue`, among them the deferred actions that `dispatch`
queues for messages without a handler; an entity may have another scheduler (`wire_scheduler`): one
with a thread of its own, the synchronous one, or an out-of-order one.

| Code | Actions |
|---|---|
| `dispatch` (under `lock`) | `Dispatch`, with the cases `DispatchLater`, `DispatchNow`, `DispatchToMq` |
| the deferred action, lines 66-89 | `ReadSubscription` without the lock, then `PopMessage`: pop and invocation; `DanglingIterator` if its Mq is gone |
| lines 91, 93-94, 95-102 (no lock) | `EmptyCheck`, `EraseMq`, `Flush`/`NullDereference`/`FlushEnd`, one step each |
| the action queued by `invoke`, under `lock` | `InvokeOnDefault`, or `ThreadCheck` for a thread of its own: the test of the subscription (`Recheck`) |
| `execute`, without the lock | `Execute(t)`, by the thread `t` that made the test |
| `advise_on`, its termination action and that of `bind` | `AdviseOn`, `Terminate` on any thread, `Unbind`: first the subscription is erased, then the entity loses its id |

An Mq has a number because deferred actions hold an iterator to it. `handling` is what each thread has tested and is about
to execute; the receiver thread does so while it holds `lock`. What is looked up before an execution is the id that the entity has
then (`Exists`), which is null once its lifetime is over. Accesses of the two hash maps are atomic in the model, although some in
the code are not under the lock; after `undefined` nothing is modelled. An unbound entity under the default scheduler throws
where its scheduler is asked for (`Throws`), which ends the deferred action.

### RdProperty

Both ends of one property, one of them master, on a wire that delivers in order (which is what
`ReliableChannel` promises). `Set` is `RdPropertyBase::set` down to the listener that sends; `Receive`
is `on_wire_received`. Binding, nested values and their identifiers are left out.

### RdMap

The same for a map. `Fire` is what `ViewableMap`'s `set`, `remove` and `clear` have in common with the listener of
`RdMap::init`: numbers for the master's changes, an entry of `pendingForAck` for each, a message for each.
`ReceiveChange` and `ReceiveAck` are the two halves of `on_wire_received`. The map is empty when it is bound: `init` sends
the entries of one that is not, numbered and expected, just as if they were set after it. `pendingForAck` is keyed by
pointers to keys that end with a removal; an entry that is left behind is `dead`, and a lookup that compares
with it may or may not find it. Only the master's `next_version` and `pendingForAck` are variables, since the
other end uses neither. There may be any number of keys, but finitely many: a `clear` is over after as many messages as
there are keys. `RdMapMC` adds the keys that the master's owner has `removed`, or `hurried`: changed again before the last
change was acknowledged.

### Lifetime and RiderLink

A lifetime is the sequence of its actions and whether it is `terminated`. `LifetimeImpl::terminate` is two steps
of the thread that calls it, the flag (`Terminate`) and the taking of the actions under `actions_lock`
(`TakeActions`), after which the thread executes what is in its `todo`, newest first, one action per step; the
termination of a nested lifetime is such an action and runs to its end before the next. `add_action` on a lifetime
whose flag is set throws (`CanAdd`), so each test of a lifetime and each `add_action` after it are separate steps of
`RiderLink`. The erasure of a nested lifetime from its parent is one step, although the code makes it without the lock.

`RiderLink` has four threads. The wire thread (`fw/wire/SocketWire.cpp`) makes and loses connections and calls the view
of `connected`: `Connect`, `NextLifetime`, `SetCurrent`, `ConnectedHandler`, then `Disconnect`, `Disconnected`. The
scheduler executes what is queued, one task at a time, each a chain of steps:

| Code | Actions |
|---|---|
| `InitProtocol` | `InitProtocol`, with the construction of wire and protocol as one step |
| the handler of a connection, lines 70-84 | `NewModel`, `Bind`, `BindClosing`, `Advise`, `AdviseClosing`, `AddDead`, `SetAlive`; it holds `ModelLock` throughout |
| the task of the action of line 76 | `SetDead`, `Died` |
| `ViewModel` and the view of `RdIsModelAlive` | `ViewModel`, `ClientLifetime` |
| the constructor of `FRiderGameControl` | `AddReset`, `AddDelegates`, `AddRemoval`, `Construct` |
| `ScheduleModelAction` | `EngineEvent` on the game thread, `UseClient` on the scheduler |

The actions that the code adds to lifetimes are the operators that end in `Action`, executed by whichever thread
terminates the lifetime. The game thread sends engine events and calls the `ShutdownModule` of both modules (`Shutdown`); a
logging thread calls `FireAsyncAction` and holds `ModelLock` while it uses the model.

Abstractions: one client; the lifetimes that a view makes for the value `false` are left out, since no listener uses
them; `current_def` is a `shared_ptr` that two threads access without a lock, and is atomic in the model; the
contents of the model, `QueueModelAction` and the play modes are left out.

### ExtWire and RdCall

Both ends of an extension run the same code. Between them is a wire that delivers in order (`ReliableChannel`). At each end are
two threads: the wire thread, which receives, executes the states of the extension itself (`RdExtBase` asks for the
synchronous scheduler) and ends the lifetime of the extension, as it does for `EditorModel` when a connection is lost; and the scheduler,
which binds, executes what the members receive, and executes the states that came before the binding. `at` is what
each thread is doing.

| Code | Actions |
|---|---|
| `RdExtBase::init` | `Advise`, `SendReady` (the test and the opening of `bracket`), `AddClosing` (its `add_action`, which throws if the lifetime has ended; with it, the binding of the members) |
| the end of its lifetime | `EndLifetime` (the flag, and the actions are taken), `SendDisconnected` (its members are unbound by now), `Unsubscribe`; `EndEarly` and `Unsubscribe` if it ends during `init` |
| `dispatch` and its deferred action, for the id of the extension | `ReceiveState`, `RunDeferred` |
| `RdExtBase::on_wire_received` | `Answer`, `SetConnected`, `SetDisconnected` |
| the listener of `ExtWire::connected` | `Flush` |
| `ExtWire::send` | `Send` under `lock`, `SendNow` after it |
| `RdCall::start`, `sync` | `StartCall`; `SyncCall`, `SyncReturns`, `SyncThrows`, `SyncRefused` |
| `WiredRdTaskImpl` | `EndLifetimeStep` (its termination action is taken), `Terminate` (it is executed), `UnbindStep` (what is left is unsubscribed); `ReceiveResponse`, `ApplyResponse` |
| `set_if_empty`, `Property::set` | the test (`Lacks`) in `Terminate`, `ReceiveResponse`, `ApplyResponse`; then, on the wire thread, `SetValue` and `FireChange`, and on the scheduler `GiveResult`, behind which no other thread destroys the task |
| `RdEndpoint::on_wire_received` | `ReceiveRequest`, `Execute`, which looks whether the endpoint that the request was queued for (`addressee`) still has its id (`Wanted`) |

A task is a number. `subscribed`, `destroyed` and `cancelling` say where the program still has a pointer to it;
`undefined` records that one was used after its end, after which the model goes on as if nothing had happened. `sync`
waits until its timeout at the latest, so that `SyncThrows` is possible at any time before the result.

Abstractions: the handler of an endpoint returns a value or throws; the holder of a started task keeps it. `bracket` tests
the lifetime and opens in one step, and the members are bound in one step with its `add_action`: what arrives for them in
between would find them bound or not, and is executed by the scheduler after `init` either way. A call
tests the lifetime and registers its task in one step. A request that was
queued for an endpoint is dropped if that is unbound by now, since its id is null, whether or not another one
was bound; a request kept back in the Mq of the broker goes to the endpoint that is there. An object that is unbound has a
null id, under which nothing useful can be sent, so that it sends nothing. The window between the storing of a subscription and its
`add_action` (`fw/protocol/MessageBroker.cpp:142`) is left out. If the broker has messages to flush and the extension is not subscribed any more, it
calls a null pointer (`DeferredActionsAreSafe` of `broker` has that case); here nothing is modelled beyond it. `Flush` is one step, since nothing
else is sent for the members while it holds `lock`; the serialization hash is left out.

## 3. What the runs check

Some properties do not hold for the code in every environment. The MC modules therefore carry observers: variables
that record when something happened that the code does not cope with, so that a property says exactly under which
condition it holds. The observers never restrict a behaviour.

| Observer | says that | why it is needed |
|---|---|---|
| `prompt` | the sender thread has finished the batch it took before a pause when the next socket is stored | `ThreadProc` releases `lock` before it enters `process`; see `wire_race` |
| `calm` | no connection is lost while message 1 is sent and not acknowledged | number 1 is exempt from the recognition of duplicates |
| `undisturbed` | no message arrives between `empty()` and the end of a flush | that part of the deferred action is outside the lock; see `broker_forgets` |
| `kept` | no entity's lifetime ends while messages are kept back for its identifier | the subscription read by the deferred action may be null |
| `confined` | lifetimes end between the tasks that execute their entity, not beside them | the test of the subscription and the execution are separate, and the wire thread ends lifetimes too; see `broker_late` |
| `hurried` | of these keys: the master changed the key again before the acknowledgement of the last change arrived | `emplace` keeps the older version; see `map_ack` |
| `removed` | of these keys: the master removed the key | the entry left in `pendingForAck` has a dangling pointer |
| `raced` (`RiderLinkMC`) | a connection was lost between a test of its lifetime and the `add_action` that relies on it | `add_action` throws, and what was opened stays open until the next connection |
| `orderly` | engine events came only while the connection lasted, no constructor of the client threw, the client was not shut down | the delegates outlive the client when its constructor throws, and on shutdown its last action is queued behind its end |
| `disordered` | an end of an extension executed two states at once, or a later one before an earlier one, or executed one while it was unbound | two threads execute states, see below |
| `silent` | of these ends: its last lifetime ended during `init`, after Ready may have been sent and before the action that sends Disconnected was added | nobody tells the counterpart, which stays connected until the end says Ready again |
| `gave_up` | of these sync calls: it threw without a result, or was over while its termination action was to come | the response or the termination action still comes to the task |
| `hasty` | of these sync calls: it was over when its result was there, but its change was still to be fired | `Property::set` assigns, then fires on the same object, which the caller may have destroyed |
| `raced` (`RdCallMC`) | of these calls: both threads had found no result and were about to give one | `set_if_empty` tests and sets in two steps, so that in either order the second replaces the first |

| Run | Shows |
|---|---|
| `wire` | 3 messages, 2 lost connections, stop at any time, about 210 000 states. In every environment: the queues hold every message that was not forgotten, in order and under its number (`SeqnContinuity`, `PackagesKeepNumbers`); `reprocess` never pops an empty queue (`PopIsSafe`) and forgets only what was acknowledged (`ForgetsOnlyAcknowledged`); no null socket is used; the wire drives its queue as the queue's own specification says (`UsesProcessorCorrectly`, which makes the first module an abstraction of the second). In a prompt environment nothing acknowledged is lost and there are no gaps (`NothingAckedIsLost`). In a prompt and calm one the wire implements `ReliableChannel` over lost connections (`ImplementsChannel`), leaked bytes aside. Under fairness: every message is delivered unless the wire is stopped or the message is stranded (`DeliveredOrStranded`); `pause`, `resume` and `stop` end although they wait holding `lock` (`PauseAndResumeEnd`, `StopEndsThread`) |
| `wire_race` | expected violation: an acknowledgement that is not news |
| `wire_junk` | expected violation: a byte in the stream that belongs to no message |
| `broker` | 4 messages, 2 entities one after the other, each kind of scheduler, lifetimes ended by any thread, about 410 000 states. Order (`KeepsOrder`: always with the default scheduler, while `undisturbed` and `kept` with the others), no loss (`ForgetsNothing`), a deferred action finds its Mq with its message, and its flush a subscription (`DeferredActionsAreSafe`), nothing is executed for an entity after its end, whatever was queued for it (`StopsWithLifetime`, while `confined`), every message is handled in the end (`HandlesEverything`) |
| `broker_forgets` | expected violation: a message that arrives between `empty()` and `erase` is lost |
| `broker_late` | expected violation: an entity is executed after its lifetime, which another thread has ended since the subscription was tested |
| `property` | 3 values, 5 changes at both ends: the ends agree whenever nothing is on its way (`Convergence`) and in the end for good (`EventuallyAgree`); the master is not overruled (`MasterIsNotOverruled`) |
| `map` | 2 keys, 2 values, 5 changes by both ends, about 370 000 states: the ends agree on every key that the master sets patiently whenever nothing is on its way (`Convergence`), the master takes over a change of such a key only if the other end has seen all of its own (`MasterIsNotOverruled`), and an entry of `pendingForAck` always has its acknowledgement to come, hurried keys included (`AcknowledgementComes`) |
| `map_ack` | expected violation: an acknowledgement whose key does not wait (any more) |
| `link` | 2 connections, an engine event, shutdown at any time, about 200 000 states. `EditorModel` is replaced only when it was reported dead and no client holds on to it (`ReplacedOnlyWhenDead`); the thread in `FireAsyncAction` has it to itself but for the loss of the connection (`ReadersAreUndisturbed`); actions scheduled by the client find the client they captured (`UsesLiveClient`, while `orderly`); once a loss is dealt with, nothing is bound or subscribed, so that the broker has no pointer to what the next connection destroys (`LostMeansUnbound`, unless `raced`). Under fairness: model and client follow the wire (`FollowsTheWire`), and the modules can be shut down at any time, with all threads and locks (`ShutdownEnds`) |
| `call` | 2 calls, sync or started, each end bound once at a time of its own, about 900 000 states. Requests are executed once and in order, those kept back included (`ExecutedInOrder`); a result is final and a response is that of an executed request (`ResultIsFinal`, unless `raced`); a task that is gone is used only if its sync call had given up or was `hasty` (`NoDangling`); "Already exists sync task" only while there is one or after a sync call that threw (`SyncIsPossible`). Under fairness every call ends when the client's extension does, or when the endpoint is there or comes to stay (`CallEnds`, for the first endpoint and unless `disordered`); nothing is promised while there is no endpoint |
| `ext` | no calls, one end bound once and the other twice, about 510 000 states. When the states on their way have arrived, an end that is bound is connected just if the other one is bound (`Agreement`, unless `disordered` or the other end is `silent`) |

**Bounds.** `MaxPut`, `MaxBreaks`, `MaxMessages`, `MaxSets` and `MaxChanges` cap inputs, in guards, and nothing else. Three
messages are the smallest number with one forgotten, one resent and one new at the same time; two lost
connections let a message be resent twice and be received in between; four messages let one be in each
place of the broker while another arrives. Two entities are needed for one to follow the other.
Two connections let a model be replaced while the loss of the first is still being dealt with. A call needs a second one to be refused or
overtaken; an end that is bound again meets the answers to what it sent before. `MaxBinds`, `MaxCalls`, `MaxConnections` and `MaxEvents` are bounds
of the same kind. With five changes of three values each end can have two on their way, and values can recur. Both ends of a map start empty, so that the first of five
changes fills it; then two crossing changes of each end on one key are possible, or a `clear` of two keys that crosses a change.

**Fairness.** The threads of both ends are scheduled, and a call that was made goes on: weak fairness of
the sender thread, of the connection thread, of the counterpart's reads, of a `stop` that was called,
of the closing of the socket, and of the schedulers' tasks. For `link`, weak fairness of the wire thread's steps after
a connection was made or lost, of the game thread, of the end of a `FireAsyncAction`, and of the loss of the connection once
the sockets are closed; strong fairness of the scheduler, which gets `ModelLock` although the logging thread takes it again
and again. For `call`, the threads of both ends run on, and a sync call reaches its timeout; one
weak fairness of all they do unasked is enough, because that comes to an end unless something is bound, unbound or called. Nothing is assumed of producers, of failures, of the call
of `stop`, of binding and unbinding, or of anyone setting a property. Deadlock is checked for the wire, which
stops only in `Finished`; and for the link, which ends in a state of the same name;
the broker, the property, the map and the calls may run out of messages.

**Disagreements found.** They are listed in `PROJECT.json` with the text they contradict.

* `wire_race`: `pause` may return while a batch is still to be sent; if this happens on the next connection
  before `reprocess`, new messages arrive first and the older ones are dropped as duplicates.
* `wire_junk`: see `leaked` above.
* `broker_forgets`: the unlocked test of `empty()`.
* `broker_late`: the subscription is tested under the lock, the entity executed after it, and the end of its lifetime waits for neither.
* `map_ack`: the second of two changes of a key is not recorded, so that its acknowledgement is reported as an error; between
  the two acknowledgements the master accepts a change that the other end has already lost, and the ends disagree.

More are visible in the properties and their observers:

* a message whose send failed is not sent after a reconnection until something else is put (`Stranded`);
* in the broker a message can overtake the flushed ones or find a null subscription when `undisturbed` or `kept` do not hold;
* `RdExtBase` executes states on the wire thread, but those that came before its binding on the scheduler: an old
  Ready and a new Disconnected may be executed at once, after which the end believes to be connected to nobody (`disordered`);
* after a `sync` that timed out or met a fault, `sync_task_id` keeps its value and every later `sync` throws (`SyncIsPossible`);
* the task of such a call is destroyed, but its `WiredRdTaskImpl` stays subscribed until the extension ends, and a late response is
  given to it; the same holds for the termination action of a task whose `sync` ended with its lifetime (`gave_up`);
* even after a `sync` that succeeded the wire thread may still be firing the change of the task's result (`hasty`);
* a call that is cancelled while it is given its result ends with either, and may be seen with both (`raced`);
* an extension whose lifetime ends while it is being bound sends Ready but not Disconnected (`silent`);
* `bracket` and `advise_on` test a lifetime before they open something and throw if it has ended when they add the closing, so that
  what was opened stays open (`raced` of `RiderLinkMC`);
* `FireAsyncAction` holds `ModelLock`, but the wire thread unbinds the model without it: a signal fired after its own test of
  `is_bound` may still throw (`ReadersAreUndisturbed` allows for it).

## 4. What is proved

The proofs hold for every value of the constants. They assume nothing but the ASSUMEs in the modules,
which say that bounds are natural numbers, that special values are not values and which threads and lifetimes the link has. TLC has
checked each property, and each inductive invariant, before its proof was written.

* `ByteBufferAsyncProcessor_proofs`: `TypeCorrect`, `MessagesKeepTheirPlace`, `PoppingIsSafe`, `ForgettingIsSafe`.
  `SeqnContinuity` alone is not inductive. The invariant adds `Exclusion` (`process` and `reprocess` are never
  active together, and in `process` with a message sent there is one at the head of `queue`),
  `PausedUnlessRunning` (what `interrupt_balance` says of the connection thread) and `AckAtMostSent`: an
  acknowledgement is at most `LastSent`, which counts a message from the return of the processor. That the
  acknowledgement cannot exceed `max_sent_seqn` when `reprocess` pops is the point of `PoppingIsSafe`: only there
  has `process` been excluded.
* `SocketWireMC_proofs`, first part: every step of the wire is a step of its queue or leaves the queue alone
  (`WireUsesProcessor`), so that the theorems above hold in the wire; messages keep their numbers on all
  connections (`NumbersAreKept`); the socket is never null (`NoNullSocket`). The invariant adds that everything in
  flight was sent (`AcksWereSent`, `PackagesWereSent`), which is what justifies the guard of `Acknowledge`, and that
  nothing happens before the first socket.
* `RdProperty_proofs`: `PropertyTypes`, `EndsConverge`, `MasterPrevails`, `VersionsNeverShrink` (the action property `VersionsGrow`). The invariant describes what
  is on its way. To the slave travel exactly the master's changes that it has not seen, numbered
  consecutively, the newest with the master's value (`Lag`, `Unseen`). To the master travel changes that
  know at most what the slave has seen, in the order of that knowledge (`Knowledge`). When nothing
  travels to the slave, the newest of these is accepted exactly if it knows everything, and then it carries the
  slave's value; otherwise the ends agree already (`Agreement`).
* `SocketWireMC_proofs`, second part: `NoAckedLoss` (`NothingAckedIsLost`) and `WireIsReliable`, the refinement of `ReliableChannel`. The
  invariant of the wire is strengthened under the conditions that the observers state. While `prompt`, the packages in flight are
  numbered without a gap from one after a prefix of the messages that the counterpart has, up to one before the package
  that is sent next (`Follow`, `NextSeqn`), and the sender thread is quiet from the storing of a socket to `resume`
  (`QuietBeforeResume`): this is what the observer excludes, and the proof fails at `ProcessSend` without it. While also `calm`, the
  stream is the messages 1, 2, ... (`OnceInOrder`), for which it has to be known that number 1 does not come a second
  time. Each step of the wire is then a put, a delivery or a stutter of the channel.
* `MessageBrokerMC_proofs`: `TypeCorrect`, `NothingIsForgotten`, `DeferredActionsFindTheirMq`, `MessagesStayInOrder`,
  `SilentAfterLifetime`. `CoreInv` holds in every environment: there is at most one Mq, and under the default scheduler its length and
  what is ahead of it are tied to the deferred actions that are queued. While `undisturbed`, every deferred action is for the
  present Mq and every message is in one of the places it can be (`UndisturbedInv`). While also `kept`, the places
  form a sequence of stages (executed, about to be, in the scheduler's queue, in the flush, in the Mq), and a message in an earlier stage
  arrived earlier (`KeptInv`, `Sorted`); a single statement "the queues are in order" is not inductive, since one step moves a
  message from the Mq to a queue while others are at rest in both. While `confined`, what a
  thread is about to execute, and what a deferred action has read, is for an entity that is alive (`ConfinedInv`).
* `RdMapMC_proofs`: `TypeCorrect`, `EndsConverge`, `NoKeyWaitsInVain`, `MasterDecides`. The invariant follows the numbers: they go
  out and come back in order, and none is on its way twice (`Numbered`); a key that waits, and was not removed, has one entry,
  whose number is on its way there or back (`WaitInv`), and for a key that is changed patiently no other number is (`Awaited`). Of
  the slave's changes of such a key the master will take over those that are behind the acknowledgement, so the last
  of them decides what the master will have; if there is none, the ends agree already, unless the master's own change is on
  its way, and then that one decides (`Leads`).

* `RdCallMC_proofs`: `TypeCorrect`, `SyncStaysPossible`, `NothingDangles`, `RequestsInOrder`, `ResultsAreFinal`, `EndsAgree`, for any number of
  calls and bindings. That requests are executed in order says nothing of where they are, so the invariant follows them: what an end
  has kept back or is about to send, what is on the wire and what its counterpart's scheduler has queued is one `Line`, in which the
  numbers of the calls grow (`LInv`). That needs an end which is about to send to have nothing kept back (`FrameInv`), which is
  what `MustWait` sees to. A number that is `Asked` was not executed, nor was any beyond it; one that is `Told` was (`OInv`). From this
  follows also that a response is that of an executed request, and, since a call is never asked and told at once, that a sync call
  that has its result has no response to come (`GInv`): its task may go once the change of that result is fired. A thread that is about to give a
  result has found none, and only the other thread can have given one since. `SInv` says who waits for the last sync call, or how it
  ended. `DInv` ties the states that the broker keeps back to the deferred actions, so that none of them finds its Mq empty.
  `EndsAgree` has an invariant of its own (`AInv`), which TLC checked on the instances of `ext` and `call` before it was proved. `Agreement`
  speaks of moments at which nothing is on its way, and says nothing of how they are reached. So `Coming` follows the states that an end
  has still to execute: what its thread is executing (`Now`) and has taken from the Mq with it (`Rest`), then the Mq, then what
  the broker keeps back, then the wire. The last of them decides whether the end will be connected; if there is none (`Clear`),
  it stays as it is (`WillBe`, `WillNot`). `Knows` relates this to the binding of the counterpart: of one that is gone, and said so, the end will
  not be connected (`Gone`); of one that is there, while it is there itself, it will be, or the counterpart has a Ready of it
  which it will answer (`Unanswered`). An end is there when it has sent its Ready (`Present`), before `init` is over. That holds while no state is put out of its order (`~disordered`), and needs to know that then
  the scheduler and the wire thread of an end never both execute states (`InTurn`). `BInv`, what the
  threads are about at each stage of a binding, holds with and without disorder.
* `RiderLinkMC_proofs`: `LinkTypes`, `ClientIsLive`, `LostIsUnbound`, `ReplacedWhenDead`, `ReadersStay`, for any number of connections
  and of engine events. Everything here hangs on actions of lifetimes that some thread will execute, so the invariant says where they
  are: which actions a lifetime can hold (`Holders`), which of them a thread can be executing, and that the shutdown does not reach what
  is below a view that has not ended (`Workers`). Then it orders the past: until the view of `connected` ends, each connection before the
  current one is over and has executed all its actions (`Sequential`); the tasks for connections are queued in order (`Numbers`); and
  whatever is queued before such a task belongs to a connection that is over, with nothing left to do for its model (`Superseded`).
  What is promised for the future is carried by an action that is still to come: a model that is alive has a `dead` task, or the action
  that will queue it (`Dies`); what is bound and subscribed has the actions that undo it (`Unbinds`), unless `raced`; a client has its
  `reset` and `removeDelegates` in the lifetime of its model (`Serves`, `Due`). While `orderly`, the scheduled actions come before the
  model dies (`Uses`). `ReplacedWhenDead` follows because at the task for the next connection all of them have been executed (`NothingIsLeft`).

In these modules the models use neither `SelectSeq` nor the folds where a property depends on what they compute: the proof system knows
nothing of them but their definition by recursion, and induction over data is out of its reach. The properties count
positions or compare ranges instead.

Every invariant and every action property that a passing run checks is proved, and both refinements (`UsesProcessorCorrectly`,
`ImplementsChannel`). Only model-checked: the liveness properties, which need fairness and ENABLED and are beyond the proof system.

## 5. Plan

The plan is carried out as far as the proof system reaches. What could be added is listed below, part by part.

## Not modelled

* The heartbeat: a ping changes nothing but `heartbeatAlive`, which nobody but the wire reads, to log a change. The accept and
  connect loops of `SocketWire`: they decide when a connection is made, which the models let happen at any time.
* Both directions of a socket together: acknowledgements need the lock that a sender blocked on a full socket
  holds. `SocketWire.tla` has one direction and sockets without a limit; the hazard is listed.
* `RdList`, `RdSet`, `RdSignal`: no control beyond sending and applying; what they rely on, order without
  loss, is what the wire and the broker are checked for.
* Interning, identities, `Protocol`: no model of the plugin interns values, and identities are names on which both ends
  agree by construction.
* Nested entities and their binding, views of collections, signals with priorities, nested fires.
* The play modes and requests of `RiderGameControl`: conversions between settings of the engine and an integer.
* Serialization (no control), the modules that only forward events, the asset plugins (one loop of engine calls),
  generated and third-party code.
