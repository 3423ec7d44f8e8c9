---------------------------- MODULE MessageBroker ----------------------------
(***************************************************************************)
(* The MessageBroker of a wire (rd_framework protocol/MessageBroker.{h,    *)
(* cpp}): the wire's receiver thread dispatches messages to the reactive   *)
(* entity subscribed under their id.  While there is none they wait in an  *)
(* Mq for a deferred action on the default scheduler, because the entity   *)
(* may be about to be bound there.                                         *)
(*                                                                         *)
(* The module models one id: everything is keyed by it, and what happens   *)
(* under other ids only delays the schedulers.  A message is the number of *)
(* its dispatch.  Entities are bound under the id one after the other, and *)
(* each loses the id when its lifetime ends.                               *)
(*                                                                         *)
(* Three threads use the broker: the wire's receiver thread, that of the   *)
(* default scheduler ("main"), and that of an entity's own scheduler       *)
(* ("worker").  Lifetimes are ended by any thread: the wire's ends them    *)
(* when the connection is lost, the scheduler's with the value they hang   *)
(* on, the game's at shutdown.                                             *)
(***************************************************************************)
EXTENDS Integers, Sequences, SequencesExt

CONSTANTS Entities,      \* the entities bound under the id
          Missing, Null, \* what `subscriptions' may hold instead of one
          Kinds,         \* the SchedulerKinds of entities to consider
          MaxMessages    \* bound: how many messages arrive

\* The kinds of an entity's get_wire_scheduler().  "default": the protocol's own
\* scheduler, a thread with a queue; "thread": another one, such as
\* RdSignal::advise_on may name; "synchronous": runs an action in the calling
\* thread (RdExtBase, WiredRdTask); "outOfOrder": so does this, but with
\* out_of_order_execution set (InternScheduler).
SchedulerKinds == {"default", "thread", "synchronous", "outOfOrder"}

ASSUME MessageBrokerAssumption ==
    /\ Missing \notin Entities /\ Null \notin Entities /\ Missing # Null
    /\ Kinds \subseteq SchedulerKinds
    /\ MaxMessages \in Nat

VARIABLES
    wire_scheduler,   \* of all entities with the id, a SchedulerKind
    subscription,     \* subscriptions[id]
    mq,               \* broker[id]: a set that is empty or holds one Mq
    mqs,              \* how many Mqs there have been
    default_queue,    \* tasks of the default scheduler
    thread_queue,     \* tasks of the "thread" scheduler
    action,           \* the deferred action in execution
    handling,         \* of each thread: what it is about to execute
    lifetime,         \* of each entity: "new", "alive", "ending" while it still has
                      \* its id, "terminated"
    dispatched,       \* number of messages dispatched
    executed,         \* pairs: which entity was given which message, in order
    dropped,          \* messages discarded because there was no handler
    undefined         \* undefined behaviour has happened

broker == <<mq, mqs>>
tasks  == <<default_queue, thread_queue, action, handling>>
log    == <<executed, dropped>>
vars   == <<wire_scheduler, subscription, broker, tasks, lifetime, dispatched, log,
            undefined>>

Mq(n, ms) == [number |-> n, default_scheduler_messages |-> ms,
              custom_scheduler_messages |-> <<>>]
Deferred(n)  == [type |-> "deferred", mq |-> n]
Invoke(e, m) == [type |-> "invoke", entity |-> e, message |-> m]

Threads == {"main", "wire", "worker"}

\* The steps of the deferred action: none in execution; read the subscription;
\* popped and invoked; found the Mq empty; erased it, `left' being still to be
\* invoked.
Idle == [step |-> "idle", subscription |-> Missing, left |-> <<>>]
NoTask == [type |-> "none"]

IsEntity(s) == s \in Entities

\* The id that the entity has now has an entry, be it null or another entity's.
HasId(e) == lifetime[e] \in {"alive", "ending"}
Exists(e) == HasId(e) /\ subscription # Missing

\* A thread is between tasks; the wire thread executes under `lock', the others do
\* not.
Free(t) == handling[t] = NoTask
Unlocked == Free("wire")

Init ==
    /\ wire_scheduler \in Kinds
    /\ subscription = Missing
    /\ mq = {} /\ mqs = 0
    /\ default_queue = <<>> /\ thread_queue = <<>>
    /\ action = Idle /\ handling = [t \in Threads |-> NoTask]
    /\ lifetime = [e \in Entities |-> "new"]
    /\ dispatched = 0 /\ executed = <<>> /\ dropped = {}
    /\ undefined = FALSE

TheMq == CHOOSE q \in mq : TRUE

-----------------------------------------------------------------------------
Drop(m) == dropped' = dropped \cup {m} /\ UNCHANGED executed

\* invoke(that, msg, sync = true): the thread executes it next.
Pass(t, e, m) == handling' = [handling EXCEPT ![t] = Invoke(e, m)] /\ UNCHANGED log

\* Mutant of Recheck: what invoke queued is executed unconditionally.
RecheckNot(t, e, m) == Pass(t, e, m)

\* The action that invoke() queues looks for the entry under `lock' ...
Recheck(t, e, m) == IF Exists(e) THEN Pass(t, e, m) ELSE Drop(m) /\ UNCHANGED handling

\* ... and executes the entity, on_wire_received, after releasing it.
Execute(t) ==
    /\ ~Free(t)
    /\ executed' = Append(executed, <<handling[t].entity, handling[t].message>>)
    /\ handling' = [handling EXCEPT ![t] = NoTask]
    /\ UNCHANGED <<subscription, broker, default_queue, thread_queue, action, lifetime,
                   dispatched, dropped, undefined>>

\* invoke(that, msg, sync = false), by thread t: to the queue of the entity's
\* scheduler, or at once.
Invoked(t, e, m, default_tasks) ==
    CASE wire_scheduler = "default" ->
            /\ default_queue' = Append(default_tasks, Invoke(e, m))
            /\ UNCHANGED <<thread_queue, handling, log>>
      [] wire_scheduler = "thread" ->
            /\ default_queue' = default_tasks
            /\ thread_queue' = Append(thread_queue, Invoke(e, m))
            /\ UNCHANGED <<handling, log>>
      [] OTHER ->
            /\ default_queue' = default_tasks
            /\ UNCHANGED thread_queue
            /\ Recheck(t, e, m)

-----------------------------------------------------------------------------
(* dispatch(), on the wire's receiver thread, under `lock' *)

\* Nobody is subscribed: subscriptions[id] leaves a null entry.
DispatchLater ==
    /\ ~IsEntity(subscription)
    /\ subscription' = Null
    /\ IF mq = {}
       THEN mq' = {Mq(mqs + 1, <<dispatched + 1>>)} /\ mqs' = mqs + 1
       ELSE /\ mq' = {[TheMq EXCEPT !.default_scheduler_messages =
                                       Append(@, dispatched + 1)]}
            /\ UNCHANGED mqs
    /\ default_queue' = Append(default_queue, Deferred(mqs'))
    /\ UNCHANGED <<thread_queue, handling, log>>

\* Mutant of MayOvertake: the Mq is not looked for.
AlwaysOvertakes == TRUE

\* Whether a message for a subscribed entity may pass those in the Mq.
MayOvertake == mq = {} \/ wire_scheduler \in {"default", "outOfOrder"}

DispatchNow ==
    /\ IsEntity(subscription)
    /\ MayOvertake
    /\ Invoked("wire", subscription, dispatched + 1, default_queue)
    /\ UNCHANGED <<subscription, broker>>

DispatchToMq ==
    /\ IsEntity(subscription)
    /\ ~MayOvertake
    /\ mq' = {[TheMq EXCEPT !.custom_scheduler_messages = Append(@, dispatched + 1)]}
    /\ UNCHANGED <<subscription, mqs, default_queue, thread_queue, handling, log>>

Dispatch ==
    /\ Free("wire")
    /\ dispatched < MaxMessages
    /\ DispatchLater \/ DispatchNow \/ DispatchToMq
    /\ dispatched' = dispatched + 1
    /\ UNCHANGED <<action, lifetime, undefined>>

-----------------------------------------------------------------------------
(* The default scheduler's thread *)

NextTask == Head(default_queue)

InvokeOnDefault ==
    /\ action = Idle /\ Free("main") /\ Unlocked
    /\ default_queue # <<>> /\ NextTask.type = "invoke"
    /\ default_queue' = Tail(default_queue)
    /\ Recheck("main", NextTask.entity, NextTask.message)
    /\ UNCHANGED <<subscription, broker, thread_queue, action, lifetime, dispatched,
                   undefined>>

\* Mutant of Handle: the subscription is not tested.
HandleUnchecked(s, m) ==
    IF wire_scheduler = "default"
    THEN /\ default_queue' = Tail(default_queue)
         /\ UNCHANGED thread_queue
         /\ Pass("main", s, m)
    ELSE Invoked("main", s, m, Tail(default_queue))

\* get_wire_scheduler() of an unbound entity, which finds no protocol to ask.
Throws(s) == IsEntity(s) /\ wire_scheduler = "default" /\ lifetime[s] = "terminated"

\* What the deferred action does with the message it popped.  Under the default
\* scheduler it is executed without another look, sync = true.
Handle(s, m) ==
    CASE ~IsEntity(s) \/ Throws(s) ->
            /\ default_queue' = Tail(default_queue)
            /\ UNCHANGED <<thread_queue, handling>>
            /\ Drop(m)
      [] IsEntity(s) /\ ~Throws(s) /\ wire_scheduler = "default" ->
            /\ default_queue' = Tail(default_queue)
            /\ UNCHANGED thread_queue
            /\ Pass("main", s, m)
      [] OTHER -> Invoked("main", s, m, Tail(default_queue))

\* The deferred action: subscriptions[id], read without `lock', which leaves a
\* null entry if there is none ...
ReadSubscription ==
    /\ action = Idle /\ Free("main")
    /\ default_queue # <<>> /\ NextTask.type = "deferred"
    /\ subscription' = IF subscription = Missing THEN Null ELSE subscription
    /\ action' = [step |-> "read", subscription |-> subscription', left |-> <<>>]
    /\ UNCHANGED <<broker, default_queue, thread_queue, handling, lifetime, dispatched, log,
                   undefined>>

\* ... the pop under `lock' and the invocation: the Mq is the one its iterator was
\* made for.  Its queue is never empty here: there are as many messages in it as
\* deferred actions for it.  An exception ends the action there.
PopMessage ==
    /\ action.step = "read" /\ Unlocked
    /\ mq # {} /\ TheMq.number = NextTask.mq
    /\ LET ms == TheMq.default_scheduler_messages
       IN  /\ mq' = {[TheMq EXCEPT !.default_scheduler_messages = Tail(ms)]}
           /\ Handle(action.subscription, Head(ms))
    /\ action' = IF Throws(action.subscription) THEN Idle
                 ELSE [action EXCEPT !.step = "handled"]
    /\ UNCHANGED <<subscription, mqs, lifetime, dispatched, undefined>>

\* The Mq that the iterator points to has been erased.
DanglingIterator ==
    /\ action.step = "read"
    /\ \A q \in mq : q.number # NextTask.mq
    /\ undefined' = TRUE
    /\ UNCHANGED <<subscription, broker, tasks, lifetime, dispatched, log>>

\* Mutant of EmptyCheck: the Mq is given up after every message.
EmptyUnchecked ==
    /\ action.step = "handled" /\ Free("main")
    /\ action' = [action EXCEPT !.step = "empty"]
    /\ UNCHANGED <<subscription, broker, default_queue, thread_queue, handling,
                   lifetime, dispatched, log, undefined>>

\* default_scheduler_messages.empty(), read without `lock' ...
EmptyCheck ==
    /\ action.step = "handled" /\ Free("main")
    /\ action' = IF TheMq.default_scheduler_messages = <<>>
                 THEN [action EXCEPT !.step = "empty"]
                 ELSE Idle
    /\ UNCHANGED <<subscription, broker, default_queue, thread_queue, handling,
                   lifetime, dispatched, log, undefined>>

\* Mutant of EraseMq: custom_scheduler_messages are not moved out.
EraseMqOnly ==
    /\ action.step = "empty"
    /\ mq' = {}
    /\ action' = [action EXCEPT !.step = "flush"]
    /\ UNCHANGED <<subscription, mqs, default_queue, thread_queue, handling,
                   lifetime, dispatched, log, undefined>>

\* ... t = std::move(broker[id]); broker.erase(id), without `lock' ...
EraseMq ==
    /\ action.step = "empty"
    /\ mq' = {}
    /\ action' = [action EXCEPT !.step = "flush",
                                !.left = TheMq.custom_scheduler_messages]
    /\ UNCHANGED <<subscription, mqs, default_queue, thread_queue, handling,
                   lifetime, dispatched, log, undefined>>

\* ... and the messages that came after the entity was bound.
Flush ==
    /\ action.step = "flush" /\ Free("main") /\ Unlocked
    /\ action.left # <<>> /\ IsEntity(action.subscription)
    /\ Invoked("main", action.subscription, Head(action.left), default_queue)
    /\ action' = [action EXCEPT !.left = Tail(@)]
    /\ UNCHANGED <<subscription, broker, lifetime, dispatched, undefined>>

\* subscription->get_wire_scheduler() in the assertion before that.
NullDereference ==
    /\ action.step = "flush" /\ action.left # <<>>
    /\ ~IsEntity(action.subscription)
    /\ undefined' = TRUE
    /\ UNCHANGED <<subscription, broker, tasks, lifetime, dispatched, log>>

FlushEnd ==
    /\ action.step = "flush" /\ Free("main") /\ action.left = <<>>
    /\ action' = Idle
    /\ UNCHANGED <<subscription, broker, default_queue, thread_queue, handling,
                   lifetime, dispatched, log, undefined>>

-----------------------------------------------------------------------------
(* The "thread" scheduler *)

ThreadCheck ==
    /\ Free("worker") /\ Unlocked
    /\ thread_queue # <<>>
    /\ thread_queue' = Tail(thread_queue)
    /\ Recheck("worker", Head(thread_queue).entity, Head(thread_queue).message)
    /\ UNCHANGED <<subscription, broker, default_queue, action, lifetime, dispatched,
                   undefined>>

-----------------------------------------------------------------------------
\* advise_on(): entities are bound by tasks of the default scheduler, under
\* `lock', between those modelled here.
AdviseOn(e) ==
    /\ action = Idle /\ Free("main") /\ Unlocked
    /\ lifetime[e] = "new"
    /\ \A f \in Entities : ~HasId(f)
    /\ lifetime' = [lifetime EXCEPT ![e] = "alive"]
    /\ subscription' = e
    /\ UNCHANGED <<broker, tasks, dispatched, log, undefined>>

\* The lifetime ends: the action that advise_on added to it, without `lock', ...
Terminate(e) ==
    /\ lifetime[e] = "alive"
    /\ lifetime' = [lifetime EXCEPT ![e] = "ending"]
    /\ subscription' = Missing
    /\ UNCHANGED <<broker, tasks, dispatched, log, undefined>>

\* ... and then that of bind(): rdid = RdId::Null().
Unbind(e) ==
    /\ lifetime[e] = "ending"
    /\ lifetime' = [lifetime EXCEPT ![e] = "terminated"]
    /\ UNCHANGED <<subscription, broker, tasks, dispatched, log, undefined>>

-----------------------------------------------------------------------------
DefaultStep ==
    \/ InvokeOnDefault
    \/ ReadSubscription \/ PopMessage \/ DanglingIterator
    \/ EmptyCheck \/ EraseMq
    \/ Flush \/ NullDereference \/ FlushEnd
    \/ Execute("main")

ThreadStep == ThreadCheck \/ Execute("worker")

\* Nothing is modelled beyond undefined behaviour.
Next ==
    /\ ~undefined
    /\ UNCHANGED wire_scheduler
    /\ \/ Dispatch
       \/ DefaultStep
       \/ ThreadStep
       \/ Execute("wire")
       \/ \E e \in Entities : AdviseOn(e) \/ Terminate(e) \/ Unbind(e)

Spec == Init /\ [][Next]_vars

\* The schedulers run their tasks and dispatch() returns; messages, binding and
\* unbinding are up to the environment.
Fairness ==
    /\ WF_vars(~undefined /\ UNCHANGED wire_scheduler /\ DefaultStep)
    /\ WF_vars(~undefined /\ UNCHANGED wire_scheduler /\ ThreadStep)
    /\ WF_vars(~undefined /\ UNCHANGED wire_scheduler /\ Execute("wire"))

-----------------------------------------------------------------------------
(* Properties *)

Messages == 1 .. MaxMessages
Task == [type : {"invoke"}, entity : Entities, message : Messages]

\* The types of the broker and its schedulers; the broker has at most one Mq for
\* the id.
TypeOK ==
    /\ wire_scheduler \in SchedulerKinds
    /\ subscription \in Entities \cup {Missing, Null}
    /\ mqs \in 0 .. MaxMessages
    /\ mq \subseteq [number : 1 .. mqs, default_scheduler_messages : Seq(Messages),
                    custom_scheduler_messages : Seq(Messages)]
    /\ Cardinality(mq) <= 1
    /\ default_queue \in Seq(Task \cup [type : {"deferred"}, mq : 1 .. mqs])
    /\ thread_queue \in Seq(Task)
    /\ action \in [step : {"idle", "read", "handled", "empty", "flush"},
                   subscription : Entities \cup {Missing, Null},
                   left : Seq(Messages)]
    /\ handling \in [Threads -> Task \cup {NoTask}]
    /\ lifetime \in [Entities -> {"new", "alive", "ending", "terminated"}]
    /\ dispatched \in 0 .. MaxMessages
    /\ executed \in Seq(Entities \X Messages) /\ dropped \subseteq Messages
    /\ undefined \in BOOLEAN

ExecutedMessages == [i \in 1 .. Len(executed) |-> executed[i][2]]
Increasing(s) == \A i, j \in 1 .. Len(s) : i < j => s[i] < s[j]

\* Entities get their messages in order, unless their scheduler asks for
\* out_of_order_execution.
InOrder == wire_scheduler # "outOfOrder" => Increasing(ExecutedMessages)

QueuedMessages == {t.message : t \in {u \in Range(default_queue) \cup Range(thread_queue)
                                            \cup Range(handling) : u.type = "invoke"}}
WaitingMessages ==
    Range(action.left) \cup
    UNION {Range(q.default_scheduler_messages) \cup Range(q.custom_scheduler_messages)
           : q \in mq}

\* Every message that arrived was executed, was found to have no handler, or is
\* still in a place from which it will be taken.
NothingForgotten ==
    1 .. dispatched = Range(ExecutedMessages) \cup dropped \cup QueuedMessages
                         \cup WaitingMessages

\* A deferred action finds the Mq for which it was queued, with its message in
\* it: PopMessage takes the front of that queue unasked.
OneMessagePerAction ==
    LET deferred == {i \in 1 .. Len(default_queue) : default_queue[i].type = "deferred"}
    IN  /\ \A i \in deferred : \E q \in mq : q.number = default_queue[i].mq
        /\ \A q \in mq : Len(q.default_scheduler_messages) = Cardinality(deferred)

\* The flush of a deferred action has a subscription whose scheduler it can ask
\* for.
FlushHasSubscription ==
    action.step = "flush" /\ action.left # <<>> => IsEntity(action.subscription)

\* An entity gets nothing after its lifetime was terminated.
RemovedHandlerIsSilent ==
    [][executed' # executed => lifetime[Last(executed')[1]] = "alive"]_vars
=============================================================================
