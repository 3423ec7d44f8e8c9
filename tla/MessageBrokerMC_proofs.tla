----------------------- MODULE MessageBrokerMC_proofs -----------------------
(***************************************************************************)
(* The message broker keeps the order of messages and forgets none, under  *)
(* the conditions that MessageBrokerMC observes, for every number of       *)
(* messages and of entities.                                               *)
(*                                                                         *)
(* The inductive invariant says where the message of each task is: under   *)
(* the default scheduler every message that has arrived is behind just one *)
(* task, in the order of arrival; under another scheduler messages move    *)
(* from the Mq through the flush of a deferred action to the queue of that *)
(* scheduler, and those ahead arrived earlier.                             *)
(***************************************************************************)
EXTENDS MessageBrokerMC, SequenceLemmas, FiniteSetTheorems

\* The queues of the Mq, if there is one.
Ms == IF mq = {} THEN <<>> ELSE TheMq.default_scheduler_messages
Cs == IF mq = {} THEN <<>> ELSE TheMq.custom_scheduler_messages

IsDeferred(i) == default_queue[i].type = "deferred"

MqRecord == [number : Nat, default_scheduler_messages : Seq(Messages),
             custom_scheduler_messages : Seq(Messages)]
AnyTask == Task \cup [type : {"deferred"}, mq : Nat]
Handlers == Entities \cup {Missing, Null}

\* The broker has at most one Mq for the id, and that is the newest.
OneMq == mq = {} \/ \E q \in MqRecord : mq = {q} /\ q.number = mqs /\ mqs # 0

BTypes ==
    /\ wire_scheduler \in SchedulerKinds
    /\ subscription \in Handlers
    /\ mqs \in Nat /\ mqs <= dispatched
    /\ OneMq
    /\ default_queue \in Seq(AnyTask)
    /\ \A i \in 1 .. Len(default_queue) : IsDeferred(i) => default_queue[i].mq \in 1 .. mqs
    /\ thread_queue \in Seq(Task)
    /\ action \in [step : {"idle", "read", "handled", "empty", "flush"},
                   subscription : Handlers, left : Seq(Messages)]
    /\ handling \in [Threads -> Task \cup {NoTask}]
    /\ lifetime \in [Entities -> {"new", "alive", "ending", "terminated"}]
    /\ dispatched \in Nat /\ dispatched <= MaxMessages
    /\ executed \in Seq(Entities \X Messages) /\ dropped \in SUBSET Messages
    /\ undefined \in BOOLEAN

-----------------------------------------------------------------------------
(* The Mq *)

\* The Mq is the only one.
LEMMA OnlyMq ==
    /\ \A q : mq = {q} => TheMq = q /\ Ms = q.default_scheduler_messages
                                    /\ Cs = q.custom_scheduler_messages /\ mq # {}
    /\ \A q : mq' = {q} => TheMq' = q /\ Ms' = q.default_scheduler_messages
                                      /\ Cs' = q.custom_scheduler_messages /\ mq' # {}
<1>1. \A q : (CHOOSE r \in {q} : TRUE) = q
  OBVIOUS
<1> QED BY <1>1 DEF TheMq, Ms, Cs

\* The Mq, if there is one.
LEMMA MqTypes ==
    ASSUME OneMq
    PROVE  /\ Ms \in Seq(Messages) /\ Cs \in Seq(Messages)
           /\ mq = {} => Ms = <<>> /\ Cs = <<>>
           /\ mq # {} => /\ TheMq \in MqRecord /\ TheMq.number = mqs /\ mqs # 0 /\ mq = {TheMq}
                         /\ Ms = TheMq.default_scheduler_messages
                         /\ Cs = TheMq.custom_scheduler_messages
<1>1. CASE mq = {}
  BY <1>1, EmptySeq DEF Ms, Cs
<1>2. CASE mq # {}
  <2>1. PICK q \in MqRecord : mq = {q} /\ q.number = mqs /\ mqs # 0
    BY <1>2 DEF OneMq
  <2>2. TheMq = q /\ Ms = q.default_scheduler_messages /\ Cs = q.custom_scheduler_messages
    BY <2>1, OnlyMq
  <2> QED BY <1>2, <2>1, <2>2 DEF MqRecord
<1> QED BY <1>1, <1>2

\* A message without a handler goes to the back of the Mq.
LEMMA LaterMq ==
    ASSUME BTypes, DispatchLater, dispatched < MaxMessages
    PROVE  /\ OneMq' /\ mq' # {} /\ mqs' \in {mqs, mqs + 1}
           /\ mq # {} => mqs' = mqs
           /\ mq = {} => mqs' = mqs + 1
           /\ Ms' = Append(Ms, dispatched + 1) /\ Cs' = Cs
<1>1. dispatched + 1 \in Messages /\ OneMq /\ mqs \in Nat
  BY MessageBrokerAssumption, SMT DEF BTypes, Messages
<1>2. CASE mq = {}
  <2> DEFINE q == Mq(mqs + 1, <<dispatched + 1>>)
  <2>1. mq' = {q} /\ mqs' = mqs + 1
    BY <1>2 DEF DispatchLater
  <2>2. /\ <<dispatched + 1>> \in Seq(Messages) /\ <<>> \in Seq(Messages)
        /\ Append(<<>>, dispatched + 1) = <<dispatched + 1>>
    BY <1>1, SMT
  <2>3. /\ q \in MqRecord /\ q.number = mqs + 1 /\ mqs + 1 # 0
        /\ q.default_scheduler_messages = <<dispatched + 1>>
        /\ q.custom_scheduler_messages = <<>>
    BY <1>1, <2>2, SMT DEF MqRecord, Mq
  <2> HIDE DEF q
  <2>4. Ms' = <<dispatched + 1>> /\ Cs' = <<>> /\ mq' # {}
    BY <2>1, <2>3, OnlyMq
  <2> QED BY <1>1, <1>2, <2>1, <2>2, <2>3, <2>4, MqTypes DEF OneMq
<1>3. CASE mq # {}
  <2> DEFINE q == [TheMq EXCEPT !.default_scheduler_messages = Append(@, dispatched + 1)]
  <2>1. mq' = {q} /\ mqs' = mqs
    BY <1>3 DEF DispatchLater
  <2>2. /\ TheMq \in MqRecord /\ TheMq.number = mqs /\ mqs # 0
        /\ Ms = TheMq.default_scheduler_messages /\ Cs = TheMq.custom_scheduler_messages
        /\ Append(Ms, dispatched + 1) \in Seq(Messages)
    BY <1>1, <1>3, MqTypes, AppendProperties
  <2>3. /\ q \in MqRecord /\ q.number = mqs
        /\ q.default_scheduler_messages = Append(Ms, dispatched + 1)
        /\ q.custom_scheduler_messages = Cs
    BY <2>2 DEF MqRecord
  <2> HIDE DEF q
  <2>4. Ms' = Append(Ms, dispatched + 1) /\ Cs' = Cs /\ mq' # {}
    BY <2>1, <2>3, OnlyMq
  <2> QED BY <1>3, <2>1, <2>2, <2>3, <2>4 DEF OneMq
<1> QED BY <1>2, <1>3

\* So does one that must not overtake it, in the queue of its own.
LEMMA ToMqMq ==
    ASSUME BTypes, DispatchToMq, dispatched < MaxMessages
    PROVE  /\ OneMq' /\ mq # {} /\ mq' # {} /\ mqs' = mqs
           /\ Ms' = Ms /\ Cs' = Append(Cs, dispatched + 1)
<1>1. dispatched + 1 \in Messages /\ OneMq /\ mq # {}
  BY MessageBrokerAssumption, SMT DEF BTypes, Messages, DispatchToMq, MayOvertake
<1> DEFINE q == [TheMq EXCEPT !.custom_scheduler_messages = Append(@, dispatched + 1)]
<1>2. mq' = {q} /\ mqs' = mqs
  BY DEF DispatchToMq
<1>3. /\ TheMq \in MqRecord /\ TheMq.number = mqs /\ mqs # 0
      /\ Ms = TheMq.default_scheduler_messages /\ Cs = TheMq.custom_scheduler_messages
      /\ Append(Cs, dispatched + 1) \in Seq(Messages)
  BY <1>1, MqTypes, AppendProperties
<1>4. /\ q \in MqRecord /\ q.number = mqs
      /\ q.default_scheduler_messages = Ms
      /\ q.custom_scheduler_messages = Append(Cs, dispatched + 1)
  BY <1>3 DEF MqRecord
<1> HIDE DEF q
<1>5. Ms' = Ms /\ Cs' = Append(Cs, dispatched + 1) /\ mq' # {}
  BY <1>2, <1>4, OnlyMq
<1> QED BY <1>1, <1>2, <1>3, <1>4, <1>5 DEF OneMq

\* A deferred action takes the front of the Mq.
LEMMA PopMq ==
    ASSUME BTypes, PopMessage, Ms # <<>>
    PROVE  /\ OneMq' /\ mq # {} /\ mq' # {} /\ mqs' = mqs
           /\ Ms' = Tail(Ms) /\ Cs' = Cs
           /\ Handle(action.subscription, Head(Ms)) /\ NextTask.mq = mqs
<1>1. OneMq /\ mq # {} /\ mqs' = mqs
  BY DEF BTypes, PopMessage
<1> DEFINE q == [TheMq EXCEPT !.default_scheduler_messages = Tail(Ms)]
<1>2. /\ TheMq \in MqRecord /\ TheMq.number = mqs /\ mqs # 0
      /\ Ms = TheMq.default_scheduler_messages /\ Cs = TheMq.custom_scheduler_messages
      /\ Tail(Ms) \in Seq(Messages)
  BY <1>1, MqTypes, HeadTailProperties
<1>3. mq' = {q} /\ Handle(action.subscription, Head(Ms)) /\ NextTask.mq = mqs
  BY <1>2 DEF PopMessage
<1>4. /\ q \in MqRecord /\ q.number = mqs
      /\ q.default_scheduler_messages = Tail(Ms)
      /\ q.custom_scheduler_messages = Cs
  BY <1>2 DEF MqRecord
<1> HIDE DEF q
<1>5. Ms' = Tail(Ms) /\ Cs' = Cs /\ mq' # {}
  BY <1>3, <1>4, OnlyMq
<1> QED BY <1>1, <1>2, <1>3, <1>4, <1>5 DEF OneMq

\* The erased Mq leaves its custom_scheduler_messages to the flush.
LEMMA EraseMqMq ==
    ASSUME BTypes, EraseMq, mq # {}
    PROVE  /\ OneMq' /\ mq' = {} /\ mqs' = mqs /\ Ms' = <<>> /\ Cs' = <<>>
           /\ action' = [action EXCEPT !.step = "flush", !.left = Cs]
BY MqTypes DEF BTypes, EraseMq, OneMq, Ms, Cs

\* All other steps leave the Mq alone.
LEMMA SameMq ==
    ASSUME UNCHANGED broker
    PROVE  /\ OneMq' <=> OneMq
           /\ Ms' = Ms /\ Cs' = Cs /\ mq' = mq /\ mqs' = mqs
BY DEF broker, OneMq, Ms, Cs, TheMq

-----------------------------------------------------------------------------
(* Types *)

\* What becomes of a message on the thread that looks at its entity, ...
LEMMA RecheckTypes ==
    ASSUME BTypes, NEW t \in Threads, NEW e \in Entities, NEW m \in Messages,
           Recheck(t, e, m) \/ Pass(t, e, m)
    PROVE  /\ handling' \in [Threads -> Task \cup {NoTask}]
           /\ executed' \in Seq(Entities \X Messages) /\ dropped' \in SUBSET Messages
<1>1. /\ executed \in Seq(Entities \X Messages) /\ dropped \in SUBSET Messages
      /\ handling \in [Threads -> Task \cup {NoTask}] /\ Invoke(e, m) \in Task
  BY DEF BTypes, Invoke, Task
<1>2. CASE Pass(t, e, m)
  BY <1>1, <1>2 DEF Pass, log
<1>3. CASE Drop(m) /\ UNCHANGED handling
  BY <1>1, <1>3 DEF Drop
<1> QED BY <1>2, <1>3 DEF Recheck

\* ... and of one that is given to a scheduler.
LEMMA InvokedTypes ==
    ASSUME BTypes, NEW t \in Threads, NEW e \in Entities, NEW m \in Messages,
           NEW q \in Seq(AnyTask), Invoked(t, e, m, q)
    PROVE  /\ default_queue' \in Seq(AnyTask) /\ thread_queue' \in Seq(Task)
           /\ handling' \in [Threads -> Task \cup {NoTask}]
           /\ executed' \in Seq(Entities \X Messages) /\ dropped' \in SUBSET Messages
           /\ default_queue' = q \/ default_queue' = Append(q, Invoke(e, m))
<1>1. Invoke(e, m) \in Task /\ Invoke(e, m) \in AnyTask
  BY DEF Task, AnyTask, Invoke
<1>2. /\ Append(q, Invoke(e, m)) \in Seq(AnyTask) /\ Append(thread_queue, Invoke(e, m)) \in Seq(Task)
      /\ thread_queue \in Seq(Task) /\ handling \in [Threads -> Task \cup {NoTask}]
      /\ executed \in Seq(Entities \X Messages) /\ dropped \in SUBSET Messages
  BY <1>1, AppendProperties DEF BTypes
<1>3. CASE wire_scheduler = "default"
  BY <1>2, <1>3 DEF Invoked, log
<1>4. CASE wire_scheduler = "thread"
  BY <1>2, <1>4 DEF Invoked, log
<1>5. CASE wire_scheduler \notin {"default", "thread"}
  <2>1. default_queue' = q /\ UNCHANGED thread_queue /\ Recheck(t, e, m)
    BY <1>5 DEF Invoked
  <2> QED BY <1>2, <2>1, RecheckTypes
<1> QED BY <1>3, <1>4, <1>5

\* An execution takes what its thread handles.
LEMMA ExecuteTypes ==
    ASSUME BTypes, NEW t \in Threads, Execute(t), UNCHANGED wire_scheduler
    PROVE  /\ handling[t] \in Task /\ handling[t].entity \in Entities
           /\ handling[t].message \in Messages /\ handling[t].message \in Nat
           /\ executed' = Append(executed, <<handling[t].entity, handling[t].message>>)
           /\ BTypes'
<1>1. /\ executed \in Seq(Entities \X Messages) /\ handling[t] \in Task
      /\ handling \in [Threads -> Task \cup {NoTask}]
      /\ executed' = Append(executed, <<handling[t].entity, handling[t].message>>)
      /\ handling' = [handling EXCEPT ![t] = NoTask]
      /\ UNCHANGED <<subscription, broker, default_queue, thread_queue, action, lifetime, dispatched,
                     dropped, undefined>>
  BY DEF BTypes, Execute, Free
<1>2. /\ handling[t].entity \in Entities /\ handling[t].message \in Messages
      /\ handling[t].message \in Nat
  BY <1>1, SMT DEF Task, Messages
<1>3. /\ executed' \in Seq(Entities \X Messages)
      /\ handling' \in [Threads -> Task \cup {NoTask}]
  BY <1>1, <1>2, AppendProperties
<1> QED BY <1>1, <1>2, <1>3, SameMq DEF BTypes, IsDeferred

\* Deferred actions are known to the broker, whatever is queued behind them or
\* taken from before them.
DeferredAreKnown(q, n) ==
    \A i \in 1 .. Len(q) : q[i].type = "deferred" => q[i].mq \in 1 .. n

\* Each deferred action is for an Mq that has been made, after one was queued ...
LEMMA KnownAfterAppend ==
    ASSUME NEW q \in Seq(AnyTask), NEW n \in Nat, DeferredAreKnown(q, n),
           NEW k \in Nat, n <= k,
           NEW t \in AnyTask, t.type = "deferred" => t.mq \in 1 .. k
    PROVE  DeferredAreKnown(q, k) /\ DeferredAreKnown(Append(q, t), k)
<1>1. 1 .. n \subseteq 1 .. k
  BY SMT
<1>2. DeferredAreKnown(q, k)
  BY <1>1 DEF DeferredAreKnown
<1>3. /\ \A i \in 1 .. Len(q) : Append(q, t)[i] = q[i]
      /\ Append(q, t)[Len(q) + 1] = t
      /\ \A i \in 1 .. Len(Append(q, t)) : i \in 1 .. Len(q) \/ i = Len(q) + 1
  BY AppendIndices
<1> QED BY <1>2, <1>3 DEF DeferredAreKnown

\* ... and after one was taken.
LEMMA KnownAfterTail ==
    ASSUME NEW q \in Seq(AnyTask), q # <<>>, NEW n \in Nat, DeferredAreKnown(q, n)
    PROVE  DeferredAreKnown(Tail(q), n) /\ Tail(q) \in Seq(AnyTask) /\ Head(q) \in AnyTask
<1>1. /\ Tail(q) \in Seq(AnyTask) /\ Head(q) \in AnyTask
      /\ \A i \in 1 .. Len(Tail(q)) : i + 1 \in 1 .. Len(q) /\ Tail(q)[i] = q[i + 1]
  BY TailIndices
<1> QED BY <1>1 DEF DeferredAreKnown

\* The types are kept by the wire thread, ...
LEMMA DispatchTypes == ASSUME BTypes, Dispatch, UNCHANGED wire_scheduler PROVE BTypes'
<1>1. /\ dispatched < MaxMessages /\ dispatched' = dispatched + 1
      /\ UNCHANGED <<action, lifetime, undefined>>
  BY DEF Dispatch
<1>2. /\ dispatched' \in Nat /\ dispatched' <= MaxMessages /\ dispatched + 1 \in Messages
      /\ mqs \in Nat /\ \A n \in {mqs, mqs + 1} : n \in Nat /\ mqs <= n /\ n <= dispatched'
  BY <1>1, MessageBrokerAssumption, SMT DEF BTypes, Messages
<1>3. default_queue \in Seq(AnyTask) /\ DeferredAreKnown(default_queue, mqs)
  BY DEF BTypes, DeferredAreKnown, IsDeferred
<1>4. /\ OneMq' /\ mqs' \in {mqs, mqs + 1} /\ subscription' \in Handlers
      /\ default_queue' \in Seq(AnyTask) /\ DeferredAreKnown(default_queue', mqs')
      /\ thread_queue' \in Seq(Task) /\ handling' \in [Threads -> Task \cup {NoTask}]
      /\ executed' \in Seq(Entities \X Messages) /\ dropped' \in SUBSET Messages
  <2>1. CASE DispatchLater
    <3>1. OneMq' /\ mqs' \in {mqs, mqs + 1} /\ mqs' # 0
      <4>1. OneMq' /\ mqs' \in {mqs, mqs + 1} /\ mq' # {}
        BY <1>1, <2>1, LaterMq
      <4> QED BY <4>1 DEF OneMq
    <3>2. /\ subscription' = Null /\ default_queue' = Append(default_queue, Deferred(mqs'))
          /\ UNCHANGED <<thread_queue, handling, log>>
      BY <2>1 DEF DispatchLater
    <3>3. /\ Deferred(mqs') \in AnyTask /\ Deferred(mqs').type = "deferred"
          /\ Deferred(mqs').mq = mqs' /\ mqs' \in 1 .. mqs'
      BY <1>2, <3>1, SMT DEF AnyTask, Deferred
    <3>4. default_queue' \in Seq(AnyTask) /\ DeferredAreKnown(default_queue', mqs')
      BY <1>2, <1>3, <3>1, <3>2, <3>3, KnownAfterAppend, AppendProperties
    <3> QED BY <3>1, <3>2, <3>4 DEF BTypes, Handlers, log
  <2>2. CASE DispatchNow
    <3>1. /\ subscription \in Entities /\ UNCHANGED <<subscription, broker>>
          /\ Invoked("wire", subscription, dispatched + 1, default_queue)
      BY <2>2 DEF DispatchNow, IsEntity
    <3>2. /\ default_queue' \in Seq(AnyTask) /\ thread_queue' \in Seq(Task)
          /\ handling' \in [Threads -> Task \cup {NoTask}]
          /\ executed' \in Seq(Entities \X Messages) /\ dropped' \in SUBSET Messages
          /\ \/ default_queue' = default_queue
             \/ default_queue' = Append(default_queue, Invoke(subscription, dispatched + 1))
      BY <1>2, <1>3, <3>1, InvokedTypes DEF Threads
    <3>3. /\ Invoke(subscription, dispatched + 1) \in AnyTask
          /\ Invoke(subscription, dispatched + 1).type # "deferred"
      BY <1>2, <3>1 DEF AnyTask, Task, Invoke
    <3>4. DeferredAreKnown(default_queue', mqs)
      BY <1>2, <1>3, <3>2, <3>3, KnownAfterAppend
    <3> QED BY <3>1, <3>2, <3>4, SameMq DEF BTypes
  <2>3. CASE DispatchToMq
    <3>1. OneMq' /\ mqs' = mqs
      BY <1>1, <2>3, ToMqMq
    <3> QED BY <1>3, <2>3, <3>1 DEF DispatchToMq, BTypes, log
  <2> QED BY <2>1, <2>2, <2>3 DEF Dispatch
<1> QED BY <1>1, <1>2, <1>4 DEF BTypes, DeferredAreKnown, IsDeferred

\* A task that the default scheduler takes.
LEMMA TakenTask ==
    ASSUME BTypes, default_queue # <<>>
    PROVE  /\ Tail(default_queue) \in Seq(AnyTask) /\ DeferredAreKnown(Tail(default_queue), mqs)
           /\ NextTask.type = "invoke" =>
                 NextTask.entity \in Entities /\ NextTask.message \in Messages
<1>1. default_queue \in Seq(AnyTask) /\ DeferredAreKnown(default_queue, mqs) /\ mqs \in Nat
  BY DEF BTypes, DeferredAreKnown, IsDeferred
<1>2. /\ Tail(default_queue) \in Seq(AnyTask) /\ DeferredAreKnown(Tail(default_queue), mqs)
      /\ NextTask \in AnyTask
  BY <1>1, KnownAfterTail DEF NextTask
<1> QED BY <1>2 DEF AnyTask, Task

\* ... by a deferred action that finds a message, ...
LEMMA PopTypes ==
    ASSUME BTypes, PopMessage, Ms # <<>>, default_queue # <<>>, UNCHANGED wire_scheduler
    PROVE  BTypes'
<1>1. OneMq' /\ mqs' = mqs /\ Handle(action.subscription, Head(Ms))
  BY PopMq
<1>2. Head(Ms) \in Messages /\ Tail(default_queue) \in Seq(AnyTask)
      /\ DeferredAreKnown(Tail(default_queue), mqs) /\ mqs \in Nat /\ "main" \in Threads
  BY TakenTask, MqTypes, HeadTailProperties DEF BTypes, Threads
<1>3. /\ default_queue' \in Seq(AnyTask) /\ DeferredAreKnown(default_queue', mqs)
      /\ thread_queue' \in Seq(Task) /\ handling' \in [Threads -> Task \cup {NoTask}]
      /\ executed' \in Seq(Entities \X Messages) /\ dropped' \in SUBSET Messages
  <2>1. CASE ~IsEntity(action.subscription) \/ Throws(action.subscription)
    BY <1>1, <1>2, <2>1 DEF Handle, Drop, BTypes
  <2>2. CASE IsEntity(action.subscription) /\ ~Throws(action.subscription) /\ wire_scheduler = "default"
    <3>1. default_queue' = Tail(default_queue) /\ UNCHANGED thread_queue
          /\ Pass("main", action.subscription, Head(Ms)) /\ action.subscription \in Entities
      BY <1>1, <2>2 DEF Handle, IsEntity
    <3> QED BY <1>2, <3>1, RecheckTypes DEF BTypes
  <2>3. CASE IsEntity(action.subscription) /\ wire_scheduler # "default"
    <3>1. Invoked("main", action.subscription, Head(Ms), Tail(default_queue))
          /\ action.subscription \in Entities
      BY <1>1, <2>3 DEF Handle, IsEntity, Throws
    <3>2. default_queue' = Tail(default_queue)
      BY <2>3, <3>1 DEF Invoked
    <3> QED BY <1>2, <3>1, <3>2, InvokedTypes
  <2> QED BY <2>1, <2>2, <2>3
<1>4. action' \in {Idle, [action EXCEPT !.step = "handled"]}
      /\ UNCHANGED <<subscription, lifetime, dispatched, undefined>>
  BY DEF PopMessage
<1>5. action' \in [step : {"idle", "read", "handled", "empty", "flush"},
                   subscription : Handlers, left : Seq(Messages)]
  <2>1. CASE action' = Idle
    BY <2>1, EmptySeq DEF Idle, Handlers
  <2>2. CASE action' = [action EXCEPT !.step = "handled"]
    BY <2>2 DEF BTypes
  <2> QED BY <1>4, <2>1, <2>2
<1> QED BY <1>1, <1>3, <1>4, <1>5 DEF BTypes, DeferredAreKnown, IsDeferred

\* ... by the default scheduler, ...
LEMMA DefaultTypes ==
    ASSUME BTypes, DefaultStep, ~PopMessage, action.step = "empty" => mq # {},
           UNCHANGED wire_scheduler
    PROVE  BTypes'
<1> DEFINE Actions == [step : {"idle", "read", "handled", "empty", "flush"},
                       subscription : Handlers, left : Seq(Messages)]
<1>1. CASE InvokeOnDefault
  <2>1. /\ default_queue' = Tail(default_queue) /\ default_queue # <<>>
        /\ NextTask.type = "invoke" /\ Recheck("main", NextTask.entity, NextTask.message)
        /\ UNCHANGED <<subscription, broker, thread_queue, action, lifetime, dispatched, undefined>>
    BY <1>1 DEF InvokeOnDefault
  <2>2. /\ handling' \in [Threads -> Task \cup {NoTask}]
        /\ executed' \in Seq(Entities \X Messages) /\ dropped' \in SUBSET Messages
    BY <2>1, TakenTask, RecheckTypes DEF Threads
  <2> QED BY <2>1, <2>2, TakenTask, SameMq DEF BTypes, DeferredAreKnown, IsDeferred, broker
<1>2. CASE DanglingIterator \/ NullDereference
  BY <1>2, SameMq DEF DanglingIterator, NullDereference, BTypes, broker, tasks, log, IsDeferred
<1>3. CASE ReadSubscription \/ EmptyCheck \/ FlushEnd
  <2>1. subscription' \in Handlers /\ action' \in Actions
    <3>1. CASE ReadSubscription
      <4>1. /\ subscription' \in {subscription, Null} /\ <<>> \in Seq(Messages)
            /\ action' = [step |-> "read", subscription |-> subscription', left |-> <<>>]
        BY <3>1, EmptySeq DEF ReadSubscription
      <4> QED BY <4>1 DEF BTypes, Handlers
    <3>2. CASE EmptyCheck \/ FlushEnd
      <4>1. action' \in {Idle, [action EXCEPT !.step = "empty"]} /\ UNCHANGED subscription
        BY <3>2 DEF EmptyCheck, FlushEnd
      <4>2. Idle \in Actions
        BY EmptySeq DEF Idle, Handlers
      <4> QED BY <4>1, <4>2 DEF BTypes
    <3> QED BY <1>3, <3>1, <3>2
  <2>2. UNCHANGED <<broker, default_queue, thread_queue, handling, lifetime, dispatched, log, undefined>>
    BY <1>3 DEF ReadSubscription, EmptyCheck, FlushEnd
  <2> QED BY <2>1, <2>2, SameMq DEF BTypes, broker, log, IsDeferred
<1>4. CASE EraseMq
  <2>1. OneMq' /\ mqs' = mqs /\ action' = [action EXCEPT !.step = "flush", !.left = Cs]
    BY <1>4, EraseMqMq DEF EraseMq
  <2>2. action' \in Actions
    <3>1. Cs \in Seq(Messages)
      BY MqTypes DEF BTypes
    <3>2. /\ action.subscription \in Handlers
          /\ action' = [step |-> "flush", subscription |-> action.subscription, left |-> Cs]
      BY <2>1 DEF BTypes
    <3> QED BY <3>1, <3>2
  <2> QED BY <1>4, <2>1, <2>2 DEF EraseMq, BTypes, log, IsDeferred
<1>5. CASE Flush
  <2>1. /\ action.left \in Seq(Messages) /\ action.left # <<>> /\ action.subscription \in Entities
        /\ Invoked("main", action.subscription, Head(action.left), default_queue)
        /\ action' = [action EXCEPT !.left = Tail(@)] /\ "main" \in Threads
        /\ UNCHANGED <<subscription, broker, lifetime, dispatched, undefined>>
        /\ default_queue \in Seq(AnyTask) /\ DeferredAreKnown(default_queue, mqs) /\ mqs \in Nat
    BY <1>5 DEF Flush, BTypes, IsEntity, DeferredAreKnown, IsDeferred, Threads
  <2>2. Head(action.left) \in Messages /\ Tail(action.left) \in Seq(Messages)
    BY <2>1, HeadTailProperties
  <2>3. /\ default_queue' \in Seq(AnyTask) /\ thread_queue' \in Seq(Task)
        /\ handling' \in [Threads -> Task \cup {NoTask}]
        /\ executed' \in Seq(Entities \X Messages) /\ dropped' \in SUBSET Messages
        /\ \/ default_queue' = default_queue
           \/ default_queue' = Append(default_queue, Invoke(action.subscription, Head(action.left)))
    BY <2>1, <2>2, InvokedTypes
  <2>4. /\ Invoke(action.subscription, Head(action.left)) \in AnyTask
        /\ Invoke(action.subscription, Head(action.left)).type # "deferred"
    BY <2>1, <2>2 DEF AnyTask, Task, Invoke
  <2>5. DeferredAreKnown(default_queue', mqs)
    <3>1. mqs <= mqs
      BY <2>1, SMT
    <3> QED BY <2>1, <2>3, <2>4, <3>1, KnownAfterAppend
  <2>6. action' \in Actions
    BY <2>1, <2>2 DEF BTypes
  <2> QED BY <2>1, <2>3, <2>5, <2>6, SameMq DEF BTypes, broker, DeferredAreKnown, IsDeferred
<1>6. CASE Execute("main")
  BY <1>6, ExecuteTypes DEF Threads
<1> QED BY <1>1, <1>2, <1>3, <1>4, <1>5, <1>6 DEF DefaultStep

\* ... and by the other one.
LEMMA ThreadTypes ==
    ASSUME BTypes, ThreadStep, UNCHANGED wire_scheduler
    PROVE  BTypes'
<1>1. CASE ThreadCheck
  <2>1. /\ thread_queue \in Seq(Task) /\ thread_queue # <<>> /\ thread_queue' = Tail(thread_queue)
        /\ Recheck("worker", Head(thread_queue).entity, Head(thread_queue).message)
        /\ UNCHANGED <<subscription, broker, default_queue, action, lifetime, dispatched, undefined>>
    BY <1>1 DEF ThreadCheck, BTypes
  <2>2. Head(thread_queue) \in Task /\ Tail(thread_queue) \in Seq(Task)
    BY <2>1, HeadTailProperties
  <2>3. /\ handling' \in [Threads -> Task \cup {NoTask}]
        /\ executed' \in Seq(Entities \X Messages) /\ dropped' \in SUBSET Messages
    BY <2>1, <2>2, RecheckTypes DEF Task, Threads
  <2> QED BY <2>1, <2>2, <2>3, SameMq DEF BTypes, broker, IsDeferred
<1>2. CASE Execute("worker")
  BY <1>2, ExecuteTypes DEF Threads
<1> QED BY <1>1, <1>2 DEF ThreadStep

-----------------------------------------------------------------------------
(* Messages in order *)

\* A sequence of growing numbers keeps growing with a greater one, ...
LEMMA IncreasingAppend ==
    ASSUME NEW s \in Seq(Nat), Increasing(s), NEW x \in Nat, \A m \in Range(s) : m < x
    PROVE  Increasing(Append(s, x))
<1>1. /\ Len(s) \in Nat /\ Len(Append(s, x)) = Len(s) + 1
      /\ \A i \in 1 .. Len(s) : Append(s, x)[i] = s[i] /\ s[i] < x
      /\ Append(s, x)[Len(s) + 1] = x
      /\ \A i \in 1 .. Len(Append(s, x)) : i \in 1 .. Len(s) \/ i = Len(s) + 1
  BY AppendIndices, RangeEquality
<1> SUFFICES ASSUME NEW i \in 1 .. Len(Append(s, x)), NEW j \in 1 .. Len(Append(s, x)), i < j
             PROVE  Append(s, x)[i] < Append(s, x)[j]
  BY DEF Increasing
<1>2. i \in 1 .. Len(s)
  BY <1>1, SMT
<1>3. CASE j \in 1 .. Len(s)
  BY <1>1, <1>2, <1>3 DEF Increasing
<1>4. CASE j = Len(s) + 1
  BY <1>1, <1>2, <1>4
<1> QED BY <1>1, <1>3, <1>4

\* ... and without its first.
LEMMA IncreasingTail ==
    ASSUME NEW s \in Seq(Nat), Increasing(s), s # <<>>
    PROVE  /\ Increasing(Tail(s)) /\ Tail(s) \in Seq(Nat) /\ Head(s) \in Nat
           /\ Range(s) = {Head(s)} \cup Range(Tail(s))
           /\ \A m \in Range(Tail(s)) : m \in Nat /\ Head(s) < m
<1>1. /\ Len(s) \in Nat /\ 1 \in 1 .. Len(s) /\ Head(s) = s[1] /\ Head(s) \in Nat
      /\ Tail(s) \in Seq(Nat)
      /\ \A i \in 1 .. Len(Tail(s)) : i + 1 \in 1 .. Len(s) /\ Tail(s)[i] = s[i + 1]
  BY TailIndices
<1>2. Len(Tail(s)) \in Nat /\ Range(Tail(s)) = {Tail(s)[i] : i \in 1 .. Len(Tail(s))}
  <2> DEFINE t == Tail(s)
  <2>1. t \in Seq(Nat)
    BY <1>1
  <2> HIDE DEF t
  <2>2. Len(t) \in Nat /\ Range(t) = {t[i] : i \in 1 .. Len(t)}
    BY <2>1, RangeEquality, LenProperties
  <2> QED BY <2>2 DEF t
<1>3. \A i, j \in 1 .. Len(s) : i < j => s[i] < s[j]
  BY DEF Increasing
<1>4. Increasing(Tail(s))
  <2> SUFFICES ASSUME NEW i \in 1 .. Len(Tail(s)), NEW j \in 1 .. Len(Tail(s)), i < j
               PROVE  Tail(s)[i] < Tail(s)[j]
    BY DEF Increasing
  <2>1. i + 1 < j + 1
    BY <1>2, SMT
  <2> QED BY <1>1, <1>3, <2>1
<1>5. ASSUME NEW i \in 1 .. Len(Tail(s)) PROVE Tail(s)[i] \in Nat /\ Head(s) < Tail(s)[i]
  <2>1. 1 < i + 1
    BY <1>2, SMT
  <2> QED BY <1>1, <1>3, <2>1, ElementOfSeq
<1> QED BY <1>1, <1>2, <1>4, <1>5, RangeOfTail

\* Under the default scheduler there is one task for each of the last messages,
\* in the order of their arrival; the tasks for Mq number n are those for the
\* messages ms in it.
InArrivalOrder(q, ms, n, d) ==
    /\ Len(q) <= d
    /\ Increasing(ms)
    /\ \A m \in Range(ms) : d - Len(q) < m /\ m <= d
    /\ \A i \in 1 .. Len(q) :
          /\ q[i].type = "invoke" => q[i].message = d - Len(q) + i
          /\ (q[i].type = "deferred" /\ q[i].mq = n) <=> d - Len(q) + i \in Range(ms)

\* Under another scheduler there are deferred actions only, and as many of the
\* last ones as there are messages in the Mq are for it.
OnlyDeferred(q, ms, n) ==
    /\ Len(ms) <= Len(q)
    /\ \A i \in 1 .. Len(q) :
          q[i].type = "deferred" /\ (q[i].mq = n <=> i > Len(q) - Len(ms))

\* The order of arrival is kept by a message that is queued, ...
LEMMA ArrivalOfInvoke ==
    ASSUME NEW S, NEW q \in Seq(S), NEW ms \in Seq(Nat), NEW n, NEW d \in Nat,
           InArrivalOrder(q, ms, n, d),
           NEW t \in S, t.type = "invoke", t.message = d + 1
    PROVE  InArrivalOrder(Append(q, t), ms, n, d + 1)
<1> DEFINE r == Append(q, t)
<1>1. /\ Len(q) \in Nat /\ Len(r) = Len(q) + 1
      /\ \A i \in 1 .. Len(q) : r[i] = q[i]
      /\ r[Len(q) + 1] = t
      /\ \A i \in 1 .. Len(r) : i \in 1 .. Len(q) \/ i = Len(q) + 1
  BY AppendIndices
<1> HIDE DEF r
<1>2. \A m \in Range(ms) : m \in Nat
  BY RangeOfSeq
<1>3. /\ Len(r) <= d + 1 /\ d + 1 - Len(r) = d - Len(q)
      /\ \A m \in Range(ms) : d - Len(q) < m /\ m <= d + 1
      /\ d + 1 \notin Range(ms)
      /\ d - Len(q) + (Len(q) + 1) = d + 1
  BY <1>1, <1>2, SMT DEF InArrivalOrder
<1>4. ASSUME NEW i \in 1 .. Len(r)
      PROVE  /\ r[i].type = "invoke" => r[i].message = d - Len(q) + i
             /\ (r[i].type = "deferred" /\ r[i].mq = n) <=> d - Len(q) + i \in Range(ms)
  <2>1. CASE i \in 1 .. Len(q)
    BY <1>1, <2>1 DEF InArrivalOrder
  <2>2. CASE i = Len(q) + 1
    BY <1>1, <1>3, <2>2
  <2> QED BY <1>1, <2>1, <2>2
<1>5. InArrivalOrder(r, ms, n, d + 1)
  <2>1. \A i \in 1 .. Len(r) :
            /\ r[i].type = "invoke" => r[i].message = d + 1 - Len(r) + i
            /\ (r[i].type = "deferred" /\ r[i].mq = n) <=> d + 1 - Len(r) + i \in Range(ms)
    BY <1>3, <1>4
  <2>2. \A m \in Range(ms) : d + 1 - Len(r) < m /\ m <= d + 1
    BY <1>3
  <2>3. Increasing(ms)
    BY DEF InArrivalOrder
  <2> QED BY <1>3, <2>1, <2>2, <2>3 DEF InArrivalOrder
<1> QED BY <1>5 DEF r

\* ... and by one that goes to the Mq, with a deferred action for it.
LEMMA ArrivalOfDeferred ==
    ASSUME NEW S, NEW q \in Seq(S), NEW ms \in Seq(Nat), NEW n, NEW k, NEW d \in Nat,
           InArrivalOrder(q, ms, n, d),
           \A i \in 1 .. Len(q) : q[i].type = "deferred" => (q[i].mq = n <=> q[i].mq = k),
           NEW t \in S, t.type = "deferred", t.mq = k
    PROVE  InArrivalOrder(Append(q, t), Append(ms, d + 1), k, d + 1)
<1>1. /\ Len(q) \in Nat /\ Len(Append(q, t)) = Len(q) + 1
      /\ \A i \in 1 .. Len(q) : Append(q, t)[i] = q[i]
      /\ Append(q, t)[Len(q) + 1] = t
      /\ \A i \in 1 .. Len(Append(q, t)) : i \in 1 .. Len(q) \/ i = Len(q) + 1
  BY AppendIndices
<1>2. d + 1 \in Nat /\ \A m \in Range(ms) : m \in Nat
  BY RangeOfSeq, SMT
<1>3. Range(Append(ms, d + 1)) = Range(ms) \cup {d + 1}
  BY <1>2, RangeOfAppend
<1>4. /\ Len(Append(q, t)) <= d + 1 /\ d + 1 - Len(Append(q, t)) = d - Len(q)
      /\ \A m \in Range(ms) : d - Len(q) < m /\ m < d + 1 /\ m <= d + 1
      /\ d - Len(q) < d + 1 /\ d + 1 <= d + 1
      /\ \A i \in 1 .. Len(q) : d - Len(q) + i # d + 1
      /\ d - Len(q) + (Len(q) + 1) = d + 1
  BY <1>1, <1>2, SMT DEF InArrivalOrder
<1>5. Increasing(Append(ms, d + 1))
  BY <1>2, <1>4, IncreasingAppend DEF InArrivalOrder
<1> DEFINE r == Append(q, t)
<1>6. ASSUME NEW i \in 1 .. Len(q)
      PROVE  /\ r[i].type = "invoke" => r[i].message = d + 1 - Len(r) + i
             /\ (r[i].type = "deferred" /\ r[i].mq = k)
                   <=> d + 1 - Len(r) + i \in Range(Append(ms, d + 1))
  BY <1>1, <1>3, <1>4, <1>6 DEF InArrivalOrder
<1>7. /\ r[Len(q) + 1].type = "deferred" /\ r[Len(q) + 1].mq = k
      /\ d + 1 - Len(r) + (Len(q) + 1) \in Range(Append(ms, d + 1))
  BY <1>1, <1>3, <1>4
<1>8. \A i \in 1 .. Len(r) : i \in 1 .. Len(q) \/ i = Len(q) + 1
  BY <1>1
<1>9. \A m \in Range(Append(ms, d + 1)) : d + 1 - Len(r) < m /\ m <= d + 1
  BY <1>1, <1>3, <1>4
<1>10. Len(r) <= d + 1
  BY <1>1, <1>4
<1> HIDE DEF r
<1>11. ASSUME NEW i \in 1 .. Len(r)
       PROVE  /\ r[i].type = "invoke" => r[i].message = d + 1 - Len(r) + i
              /\ (r[i].type = "deferred" /\ r[i].mq = k)
                    <=> d + 1 - Len(r) + i \in Range(Append(ms, d + 1))
  <2>1. CASE i \in 1 .. Len(q)
    BY <1>6, <2>1
  <2>2. CASE i = Len(q) + 1
    BY <1>7, <2>2
  <2> QED BY <1>8, <2>1, <2>2
<1> DEFINE ns == Append(ms, d + 1)
<1> HIDE DEF ns
<1>12. InArrivalOrder(r, ns, k, d + 1)
  <2>1. /\ Increasing(ns) /\ \A m \in Range(ns) : d + 1 - Len(r) < m /\ m <= d + 1
        /\ \A i \in 1 .. Len(r) : /\ r[i].type = "invoke" => r[i].message = d + 1 - Len(r) + i
                                  /\ (r[i].type = "deferred" /\ r[i].mq = k)
                                        <=> d + 1 - Len(r) + i \in Range(ns)
    BY <1>5, <1>9, <1>11 DEF ns
  <2> QED BY <1>10, <2>1 DEF InArrivalOrder
<1> QED BY <1>12 DEF r, ns

\* The front of the tasks is for the first of these messages, in the Mq or not.
LEMMA ArrivalTail ==
    ASSUME NEW S, NEW q \in Seq(S), q # <<>>, NEW ms \in Seq(Nat), NEW n, NEW d \in Nat,
           InArrivalOrder(q, ms, n, d)
    PROVE  /\ d - Len(q) + 1 = d - Len(Tail(q)) /\ d - Len(q) \in Nat /\ d - Len(Tail(q)) \in Nat
           /\ d - Len(q) < d - Len(Tail(q))
           /\ Head(q).type = "invoke" => Head(q).message = d - Len(Tail(q))
           /\ ~(Head(q).type = "deferred" /\ Head(q).mq = n) => InArrivalOrder(Tail(q), ms, n, d)
           /\ Head(q).type = "deferred" /\ Head(q).mq = n =>
                 /\ ms # <<>> /\ Head(ms) = d - Len(Tail(q))
                 /\ InArrivalOrder(Tail(q), Tail(ms), n, d)
<1>1. /\ Len(q) \in Nat /\ 1 \in 1 .. Len(q) /\ Head(q) = q[1] /\ Len(Tail(q)) = Len(q) - 1
      /\ \A i \in 1 .. Len(Tail(q)) : i + 1 \in 1 .. Len(q) /\ Tail(q)[i] = q[i + 1]
  BY TailIndices
<1> DEFINE f == d - Len(q) + 1
<1>2. /\ f = d - Len(Tail(q)) /\ f \in Nat /\ d - Len(q) \in Nat /\ d - Len(q) < f
      /\ Len(Tail(q)) <= d
      /\ \A i \in 1 .. Len(Tail(q)) : d - Len(Tail(q)) + i = d - Len(q) + (i + 1) /\ f < d - Len(Tail(q)) + i
  BY <1>1, SMT DEF InArrivalOrder
<1>3. \A m \in Range(ms) : m \in Nat /\ (m = f \/ f < m)
  <2>1. \A m \in Range(ms) : m \in Nat
    BY RangeOfSeq
  <2> QED BY <1>1, <1>2, <2>1, SMT DEF InArrivalOrder
<1>4. /\ Head(q).type = "invoke" => Head(q).message = f
      /\ (Head(q).type = "deferred" /\ Head(q).mq = n) <=> f \in Range(ms)
  BY <1>1 DEF InArrivalOrder
<1>5. /\ Increasing(ms)
      /\ \A m \in Range(ms) : m <= d
      /\ \A i \in 1 .. Len(Tail(q)) :
            /\ Tail(q)[i].type = "invoke" => Tail(q)[i].message = d - Len(Tail(q)) + i
            /\ (Tail(q)[i].type = "deferred" /\ Tail(q)[i].mq = n)
                  <=> d - Len(Tail(q)) + i \in Range(ms)
  BY <1>1, <1>2 DEF InArrivalOrder
<1> HIDE DEF f
<1>6. CASE f \notin Range(ms)
  <2>1. InArrivalOrder(Tail(q), ms, n, d)
    BY <1>2, <1>3, <1>5, <1>6 DEF InArrivalOrder
  <2> QED BY <1>2, <1>4, <1>6, <2>1 DEF f
<1>7. CASE f \in Range(ms)
  <2>1. ms # <<>>
    <3>1. Range(ms) = {ms[i] : i \in 1 .. Len(ms)}
      BY RangeEquality
    <3>2. PICK i \in 1 .. Len(ms) : ms[i] = f
      BY <1>7, <3>1
    <3> QED BY <3>2, EmptySeq, SMT
  <2>2. /\ Increasing(Tail(ms)) /\ Tail(ms) \in Seq(Nat) /\ Head(ms) \in Nat
        /\ Range(ms) = {Head(ms)} \cup Range(Tail(ms))
        /\ \A m \in Range(Tail(ms)) : m \in Nat /\ Head(ms) < m
    BY <1>5, <2>1, IncreasingTail
  <2>3. Head(ms) = f
    <3>1. CASE f \in Range(Tail(ms))
      BY <1>2, <1>3, <2>2, <3>1, SMT
    <3> QED BY <1>7, <2>2, <3>1
  <2>4. Range(Tail(ms)) = Range(ms) \ {f} /\ \A m \in Range(Tail(ms)) : f < m /\ m <= d
    BY <1>2, <1>5, <2>2, <2>3, SMT
  <2>5. \A i \in 1 .. Len(Tail(q)) : d - Len(Tail(q)) + i # f
    BY <1>1, <1>2, SMT
  <2>6. InArrivalOrder(Tail(q), Tail(ms), n, d)
    BY <1>2, <1>5, <2>2, <2>4, <2>5 DEF InArrivalOrder
  <2> QED BY <1>2, <1>4, <1>7, <2>1, <2>3, <2>6 DEF f
<1> QED BY <1>6, <1>7

\* Each message of the Mq has its deferred action, after one came ...
LEMMA OnlyDeferredAppend ==
    ASSUME NEW S, NEW q \in Seq(S), NEW ms \in Seq(Nat), NEW n, NEW k, NEW x \in Nat,
           OnlyDeferred(q, ms, n),
           \A i \in 1 .. Len(q) : q[i].mq = n <=> q[i].mq = k,
           NEW t \in S, t.type = "deferred", t.mq = k
    PROVE  OnlyDeferred(Append(q, t), Append(ms, x), k)
<1>1. /\ Len(q) \in Nat /\ Len(Append(q, t)) = Len(q) + 1
      /\ \A i \in 1 .. Len(q) : Append(q, t)[i] = q[i]
      /\ Append(q, t)[Len(q) + 1] = t
      /\ \A i \in 1 .. Len(Append(q, t)) : i \in 1 .. Len(q) \/ i = Len(q) + 1
  BY AppendIndices
<1>2. Len(ms) \in Nat /\ Len(Append(ms, x)) = Len(ms) + 1
  BY AppendIndices
<1>3. /\ Len(Append(ms, x)) <= Len(Append(q, t))
      /\ Len(Append(q, t)) - Len(Append(ms, x)) = Len(q) - Len(ms)
      /\ Len(q) + 1 > Len(q) - Len(ms)
  BY <1>1, <1>2, SMT DEF OnlyDeferred
<1> QED BY <1>1, <1>3 DEF OnlyDeferred

\* ... and after one was taken.
LEMMA OnlyDeferredTail ==
    ASSUME NEW S, NEW q \in Seq(S), q # <<>>, NEW ms \in Seq(Nat), NEW n,
           OnlyDeferred(q, ms, n), Head(q).mq = n
    PROVE  ms # <<>> /\ OnlyDeferred(Tail(q), Tail(ms), n)
<1>1. /\ Len(q) \in Nat /\ 1 \in 1 .. Len(q) /\ Head(q) = q[1] /\ Len(Tail(q)) = Len(q) - 1
      /\ \A i \in 1 .. Len(Tail(q)) : i + 1 \in 1 .. Len(q) /\ Tail(q)[i] = q[i + 1]
  BY TailIndices
<1>2. Len(ms) \in Nat /\ Len(ms) <= Len(q) /\ 1 > Len(q) - Len(ms)
  BY <1>1, LenProperties DEF OnlyDeferred
<1>3. ms # <<>> /\ Len(Tail(ms)) = Len(ms) - 1
  BY <1>1, <1>2, EmptySeq, TailIndices, SMT
<1>4. Len(Tail(ms)) <= Len(Tail(q))
  BY <1>1, <1>2, <1>3, SMT
<1>5. \A i \in 1 .. Len(Tail(q)) : i > Len(Tail(q)) - Len(Tail(ms)) <=> i + 1 > Len(q) - Len(ms)
  BY <1>1, <1>2, <1>3, SMT
<1> QED BY <1>1, <1>3, <1>4, <1>5 DEF OnlyDeferred

\* Once the Mq is erased no deferred action is for it.
LEMMA OrderWithoutMq ==
    ASSUME NEW S, NEW q \in Seq(S), NEW ms, NEW k, NEW n \in Nat, NEW d \in Nat,
           DeferredAreKnown(q, n)
    PROVE  /\ InArrivalOrder(q, ms, k, d) => InArrivalOrder(q, <<>>, 0, d)
           /\ OnlyDeferred(q, ms, k) => OnlyDeferred(q, <<>>, 0)
<1>1. Len(q) \in Nat /\ Len(<<>>) = 0 /\ Range(<<>>) = {} /\ Increasing(<<>>)
  <2>1. Len(q) \in Nat /\ <<>> \in Seq(S) /\ Len(<<>>) = 0 /\ 1 .. 0 = {}
    BY EmptySeq, LenProperties, SMT
  <2>2. Range(<<>>) = {<<>>[i] : i \in 1 .. Len(<<>>)}
    BY <2>1, RangeEquality
  <2> QED BY <2>1, <2>2 DEF Increasing
<1>2. \A i \in 1 .. Len(q) : q[i].type = "deferred" => q[i].mq # 0
  BY SMT DEF DeferredAreKnown
<1>3. ASSUME InArrivalOrder(q, ms, k, d) PROVE InArrivalOrder(q, <<>>, 0, d)
  BY <1>1, <1>2, <1>3 DEF InArrivalOrder
<1>4. ASSUME OnlyDeferred(q, ms, k) PROVE OnlyDeferred(q, <<>>, 0)
  <2>1. 0 <= Len(q) /\ \A i \in 1 .. Len(q) : ~(i > Len(q) - 0)
    BY <1>1, SMT
  <2> QED BY <1>1, <1>2, <1>4, <2>1 DEF OnlyDeferred
<1> QED BY <1>3, <1>4

-----------------------------------------------------------------------------
(* The core of the invariant *)

CurrentMq == IF mq = {} THEN 0 ELSE mqs

\* The messages of what the threads are about to execute.
HandledMessages == {handling[t].message : t \in {u \in Threads : ~Free(u)}}

\* A deferred action that is executed has the Mq it began with, as long as that has
\* not been erased, and messages left to flush only then.
ActionInv ==
    /\ action.step = "idle" => action = Idle
    /\ action.step = "read" => default_queue # <<>> /\ NextTask.type = "deferred"
    /\ action.step \in {"read", "empty"} => Free("main")
    /\ action.step \in {"handled", "empty"} => mq # {}
    /\ action.left # <<>> => action.step = "flush"

\* The subscription is that of the entity that is alive.
OneSubscriber == \A e \in Entities : lifetime[e] = "alive" <=> subscription = e

DefaultInv ==
    /\ InArrivalOrder(default_queue, Ms, CurrentMq, dispatched)
    /\ Cs = <<>> /\ action.left = <<>>
    /\ Increasing(ExecutedMessages)
    /\ \A m \in Range(ExecutedMessages) \cup HandledMessages : m <= dispatched - Len(default_queue)
    /\ \A h \in HandledMessages, m \in Range(ExecutedMessages) : m < h

\* Each kind of scheduler has its threads.
HandlersInv ==
    /\ wire_scheduler # "thread" => thread_queue = <<>> /\ Free("worker")
    /\ wire_scheduler \in {"default", "thread"} => Free("wire")
    /\ wire_scheduler = "thread" => Free("main")
    /\ wire_scheduler # "default" /\ ~Free("main") => action.step \in {"handled", "flush"}

QueueInv ==
    /\ wire_scheduler = "default" => DefaultInv
    /\ wire_scheduler # "default" => OnlyDeferred(default_queue, Ms, CurrentMq)

CoreInv == BTypes /\ ActionInv /\ OneSubscriber /\ HandlersInv /\ QueueInv

\* The state as the proofs below see it.
LEMMA CoreTypes ==
    ASSUME BTypes
    PROVE  /\ Messages \subseteq Nat
           /\ Ms \in Seq(Messages) /\ Ms \in Seq(Nat) /\ Cs \in Seq(Messages) /\ Cs \in Seq(Nat)
           /\ mqs \in Nat /\ CurrentMq \in Nat /\ dispatched \in Nat
           /\ default_queue \in Seq(AnyTask) /\ DeferredAreKnown(default_queue, mqs)
           /\ ExecutedMessages \in Seq(Messages) /\ ExecutedMessages \in Seq(Nat)
           /\ Len(ExecutedMessages) = Len(executed)
<1>1. Messages \subseteq Nat
  BY SMT DEF Messages
<1>2. Ms \in Seq(Messages) /\ Cs \in Seq(Messages)
  BY MqTypes DEF BTypes
<1>3. Ms \in Seq(Nat) /\ Cs \in Seq(Nat)
  BY <1>1, <1>2, SeqMonotonic
<1>4. executed \in Seq(Entities \X Messages) /\ Len(executed) \in Nat
  BY LenProperties DEF BTypes
<1>5. \A i \in 1 .. Len(executed) : executed[i][2] \in Messages
  <2> TAKE i \in 1 .. Len(executed)
  <2>1. executed[i] \in Entities \X Messages
    BY <1>4, ElementOfSeq
  <2> QED BY <2>1
<1>6. ExecutedMessages \in Seq(Messages) /\ Len(ExecutedMessages) = Len(executed)
  <2>1. ExecutedMessages \in [1 .. Len(executed) -> Messages]
    BY <1>5 DEF ExecutedMessages
  <2> QED BY <1>4, <2>1, IsASeq, LenProperties
<1>7. ExecutedMessages \in Seq(Nat)
  BY <1>1, <1>6, SeqMonotonic
<1> QED BY <1>1, <1>2, <1>3, <1>4, <1>6, <1>7 DEF BTypes, CurrentMq, DeferredAreKnown, IsDeferred

\* A thread takes a message to execute it, ...
LEMMA PassHandles ==
    ASSUME BTypes, NEW t \in Threads, Free(t), NEW e \in Entities, NEW m \in Messages, Pass(t, e, m)
    PROVE  /\ HandledMessages' = HandledMessages \cup {m} /\ ExecutedMessages' = ExecutedMessages
           /\ ~Free(t)' /\ \A u \in Threads \ {t} : Free(u)' <=> Free(u)
<1>1. /\ handling \in [Threads -> Task \cup {NoTask}]
      /\ handling' = [handling EXCEPT ![t] = Invoke(e, m)] /\ UNCHANGED executed
      /\ Invoke(e, m) # NoTask /\ Invoke(e, m).message = m
  BY DEF BTypes, Pass, log, Invoke, NoTask
<1>2. /\ handling'[t] = Invoke(e, m) /\ \A u \in Threads \ {t} : handling'[u] = handling[u]
  BY <1>1
<1>3. ~Free(t)' /\ \A u \in Threads \ {t} : Free(u)' <=> Free(u)
  BY <1>1, <1>2 DEF Free
<1>4. HandledMessages' = {handling'[u].message : u \in {v \in Threads : ~Free(v)'}}
  BY DEF HandledMessages
<1>5. HandledMessages' = HandledMessages \cup {m}
  BY <1>1, <1>2, <1>3, <1>4 DEF HandledMessages
<1> QED BY <1>1, <1>3, <1>5 DEF ExecutedMessages

\* ... unless its entity has disappeared, ...
LEMMA RecheckHandles ==
    ASSUME BTypes, NEW t \in Threads, Free(t), NEW e \in Entities, NEW m \in Messages,
           Recheck(t, e, m) \/ Pass(t, e, m)
    PROVE  /\ ExecutedMessages' = ExecutedMessages
           /\ \/ /\ HandledMessages' = HandledMessages \cup {m} /\ UNCHANGED dropped
                 /\ \A u \in Threads \ {t} : Free(u)' <=> Free(u)
              \/ /\ HandledMessages' = HandledMessages /\ dropped' = dropped \cup {m}
                 /\ UNCHANGED handling
<1>1. CASE Pass(t, e, m)
  BY <1>1, PassHandles DEF Pass, log
<1>2. CASE Drop(m) /\ UNCHANGED handling
  BY <1>2 DEF Drop, ExecutedMessages, HandledMessages, Free
<1> QED BY <1>1, <1>2 DEF Recheck

\* ... and executes it.
LEMMA ExecuteAdds ==
    ASSUME BTypes, NEW t \in Threads, Execute(t), UNCHANGED wire_scheduler,
           NEW m, m = handling[t].message
    PROVE  /\ m \in Messages /\ m \in Nat /\ m \in HandledMessages
           /\ ExecutedMessages' = Append(ExecutedMessages, m)
           /\ Range(ExecutedMessages') = Range(ExecutedMessages) \cup {m}
           /\ HandledMessages' \cup {m} = HandledMessages
           /\ Free(t)' /\ \A u \in Threads \ {t} : Free(u)' <=> Free(u)
<1> DEFINE S == Entities \X Messages
           p == <<handling[t].entity, m>>
<1>1. /\ executed \in Seq(S) /\ p \in S /\ m \in Messages /\ m \in Nat
      /\ executed' = Append(executed, p) /\ p[2] = m
  BY ExecuteTypes DEF BTypes
<1> HIDE DEF S, p
<1>2. /\ Len(executed) \in Nat /\ Len(executed') = Len(executed) + 1
      /\ \A i \in 1 .. Len(executed) : executed'[i] = executed[i]
      /\ executed'[Len(executed) + 1] = p
  BY <1>1, AppendIndices
<1>3. /\ ExecutedMessages \in Seq(Messages) /\ Len(ExecutedMessages) = Len(executed)
      /\ Append(ExecutedMessages, m) \in Seq(Messages)
      /\ Len(Append(ExecutedMessages, m)) = Len(executed) + 1
      /\ \A i \in 1 .. Len(executed) : Append(ExecutedMessages, m)[i] = ExecutedMessages[i]
      /\ Append(ExecutedMessages, m)[Len(executed) + 1] = m
  BY <1>1, CoreTypes, AppendIndices
<1>4. \A i \in 1 .. Len(executed) + 1 : i \in 1 .. Len(executed) \/ i = Len(executed) + 1
  BY <1>2, SMT
<1>5. \A i \in 1 .. Len(executed) + 1 : executed'[i][2] = Append(ExecutedMessages, m)[i]
  <2>1. \A i \in 1 .. Len(executed) : ExecutedMessages[i] = executed[i][2]
    BY DEF ExecutedMessages
  <2> QED BY <1>1, <1>2, <1>3, <1>4, <2>1
<1>6. Append(ExecutedMessages, m)
         = [i \in 1 .. Len(executed) + 1 |-> Append(ExecutedMessages, m)[i]]
  BY <1>3, LenProperties
<1>7. ExecutedMessages' = [i \in 1 .. Len(executed) + 1 |-> executed'[i][2]]
  BY <1>2 DEF ExecutedMessages
<1>8. ExecutedMessages' = Append(ExecutedMessages, m)
  BY <1>5, <1>6, <1>7
<1>9. /\ handling \in [Threads -> Task \cup {NoTask}] /\ ~Free(t)
      /\ handling' = [handling EXCEPT ![t] = NoTask]
  BY DEF BTypes, Execute
<1>10. handling'[t] = NoTask /\ \A u \in Threads \ {t} : handling'[u] = handling[u]
  BY <1>9
<1>11. Free(t)' /\ \A u \in Threads \ {t} : Free(u)' <=> Free(u)
  BY <1>10 DEF Free
<1>12. HandledMessages' = {handling'[u].message : u \in {v \in Threads : ~Free(v)'}}
  BY DEF HandledMessages
<1>13. HandledMessages' \cup {m} = HandledMessages /\ m \in HandledMessages
  BY <1>9, <1>10, <1>11, <1>12 DEF HandledMessages
<1> QED BY <1>1, <1>3, <1>8, <1>11, <1>13, RangeOfAppend

\* What comes after all that was executed keeps the order, ...
LEMMA TakenLater ==
    ASSUME BTypes, DefaultInv, HandledMessages = {},
           NEW x \in Nat, NEW n \in Nat, n < x, n = dispatched - Len(default_queue),
           ExecutedMessages' = ExecutedMessages, HandledMessages' \subseteq {x}
    PROVE  /\ Increasing(ExecutedMessages')
           /\ \A m \in Range(ExecutedMessages') \cup HandledMessages' : m <= x
           /\ \A h \in HandledMessages', m \in Range(ExecutedMessages') : m < h
<1>1. \A m \in Range(ExecutedMessages) : m \in Nat /\ m <= n
  BY CoreTypes, RangeOfSeq DEF DefaultInv
<1>2. x <= x /\ \A m \in Range(ExecutedMessages) : m < x /\ m <= x
  BY <1>1, SMT
<1> QED BY <1>2 DEF DefaultInv

\* A deferred action finds a message: its Mq is there and has one for it.
LEMMA MessageIsThere ==
    ASSUME BTypes, ActionInv, QueueInv, PopMessage
    PROVE  /\ Ms # <<>> /\ Head(Ms) \in Messages /\ default_queue # <<>>
           /\ NextTask.type = "deferred" /\ NextTask.mq = CurrentMq
<1>1. /\ default_queue # <<>> /\ NextTask.type = "deferred" /\ NextTask.mq = CurrentMq
  BY MqTypes DEF PopMessage, ActionInv, CurrentMq, BTypes
<1>2. CASE wire_scheduler = "default"
  <2>1. InArrivalOrder(default_queue, Ms, CurrentMq, dispatched)
    BY <1>2 DEF QueueInv, DefaultInv
  <2> QED BY <1>1, <2>1, CoreTypes, ArrivalTail, HeadTailProperties DEF NextTask
<1>3. CASE wire_scheduler # "default"
  <2>1. OnlyDeferred(default_queue, Ms, CurrentMq)
    BY <1>3 DEF QueueInv
  <2> QED BY <1>1, <2>1, CoreTypes, OnlyDeferredTail, HeadTailProperties DEF NextTask
<1> QED BY <1>1, <1>2, <1>3

\* What an append does to the length of the queue.
LEMMA QueueLengths ==
    ASSUME BTypes
    PROVE  /\ Len(default_queue) \in Nat
           /\ \A t \in AnyTask : /\ Append(default_queue, t) \in Seq(AnyTask)
                                 /\ Len(Append(default_queue, t)) = Len(default_queue) + 1
BY LenProperties, AppendProperties DEF BTypes

\* The order in the queues is kept by a message without a subscription, ...
LEMMA LaterQueue ==
    ASSUME BTypes, QueueInv, DispatchLater, dispatched < MaxMessages, dispatched' = dispatched + 1,
           UNCHANGED <<wire_scheduler, action, handling>>
    PROVE  QueueInv'
<1>1. /\ mq' # {} /\ mqs' \in {mqs, mqs + 1}
      /\ mq # {} => mqs' = mqs
      /\ mq = {} => mqs' = mqs + 1
      /\ Ms' = Append(Ms, dispatched + 1) /\ Cs' = Cs
  BY LaterMq
<1>2. CurrentMq' = mqs' /\ mqs' \in Nat
  BY <1>1, SMT DEF CurrentMq, BTypes
<1>3. /\ default_queue' = Append(default_queue, Deferred(mqs'))
      /\ ExecutedMessages' = ExecutedMessages /\ HandledMessages' = HandledMessages
  BY DEF DispatchLater, log, ExecutedMessages, HandledMessages, Free
<1>4. /\ Deferred(mqs') \in AnyTask /\ Deferred(mqs').type = "deferred" /\ Deferred(mqs').mq = mqs'
  BY <1>2 DEF AnyTask, Deferred
<1>5. /\ default_queue \in Seq(AnyTask) /\ Ms \in Seq(Nat) /\ dispatched \in Nat
      /\ dispatched + 1 \in Nat
  BY CoreTypes, SMT
<1>6. ASSUME NEW i \in 1 .. Len(default_queue), IsDeferred(i)
      PROVE  default_queue[i].mq = CurrentMq <=> default_queue[i].mq = mqs'
  <2>1. default_queue[i].mq \in 1 .. mqs /\ mqs \in Nat
    BY <1>6 DEF BTypes
  <2> QED BY <1>1, <2>1, SMT DEF CurrentMq
<1>7. CASE wire_scheduler = "default"
  <2>1. DefaultInv
    BY <1>7 DEF QueueInv
  <2>2. InArrivalOrder(default_queue', Ms', CurrentMq', dispatched')
    <3>1. InArrivalOrder(Append(default_queue, Deferred(mqs')), Append(Ms, dispatched + 1), mqs',
                         dispatched + 1)
      BY <1>4, <1>5, <1>6, <2>1, ArrivalOfDeferred DEF DefaultInv, IsDeferred
    <3> QED BY <1>1, <1>2, <1>3, <3>1
  <2>3. dispatched' - Len(default_queue') = dispatched - Len(default_queue)
    <3>1. Len(default_queue') = Len(default_queue) + 1 /\ Len(default_queue) \in Nat
      BY <1>3, <1>4, QueueLengths
    <3> QED BY <1>5, <3>1, SMT
  <2>4. DefaultInv'
    BY <1>1, <1>3, <2>1, <2>2, <2>3 DEF DefaultInv
  <2> QED BY <1>7, <2>4 DEF QueueInv
<1>8. CASE wire_scheduler # "default"
  <2>1. OnlyDeferred(default_queue, Ms, CurrentMq)
    BY <1>8 DEF QueueInv
  <2>2. \A i \in 1 .. Len(default_queue) :
           default_queue[i].mq = CurrentMq <=> default_queue[i].mq = mqs'
    BY <1>6, <2>1 DEF OnlyDeferred, IsDeferred
  <2>3. OnlyDeferred(Append(default_queue, Deferred(mqs')), Append(Ms, dispatched + 1), mqs')
    BY <1>4, <1>5, <2>1, <2>2, OnlyDeferredAppend
  <2> QED BY <1>1, <1>2, <1>3, <1>8, <2>3 DEF QueueInv
<1> QED BY <1>7, <1>8

\* ... by one that goes to the scheduler of the entity at once ...
LEMMA NowQueue ==
    ASSUME BTypes, QueueInv, DispatchNow, dispatched < MaxMessages, dispatched' = dispatched + 1,
           UNCHANGED <<wire_scheduler, action>>
    PROVE  QueueInv'
<1>1. /\ subscription \in Entities /\ UNCHANGED broker
      /\ Invoked("wire", subscription, dispatched + 1, default_queue)
  BY DEF DispatchNow, IsEntity
<1>2. Ms' = Ms /\ Cs' = Cs /\ CurrentMq' = CurrentMq
  BY <1>1, SameMq DEF CurrentMq
<1>3. CASE wire_scheduler = "default"
  <2> DEFINE t == Invoke(subscription, dispatched + 1)
  <2>1. DefaultInv
    BY <1>3 DEF QueueInv
  <2>2. /\ default_queue' = Append(default_queue, t)
        /\ ExecutedMessages' = ExecutedMessages /\ HandledMessages' = HandledMessages
    BY <1>1, <1>3 DEF Invoked, log, ExecutedMessages, HandledMessages, Free
  <2>3. t \in AnyTask /\ t.type = "invoke" /\ t.message = dispatched + 1
    <3>1. dispatched + 1 \in Messages
      BY CoreTypes, MessageBrokerAssumption, SMT DEF Messages
    <3> QED BY <1>1, <3>1 DEF AnyTask, Task, Invoke
  <2> HIDE DEF t
  <2>4. InArrivalOrder(default_queue', Ms', CurrentMq', dispatched')
    <3>1. InArrivalOrder(Append(default_queue, t), Ms, CurrentMq, dispatched + 1)
      BY <2>1, <2>3, CoreTypes, ArrivalOfInvoke DEF DefaultInv
    <3> QED BY <1>2, <2>2, <3>1
  <2>5. dispatched' - Len(default_queue') = dispatched - Len(default_queue)
    <3>1. Len(default_queue') = Len(default_queue) + 1 /\ Len(default_queue) \in Nat
      BY <2>2, <2>3, QueueLengths
    <3> QED BY <3>1, CoreTypes, SMT
  <2>6. DefaultInv'
    BY <1>2, <2>1, <2>2, <2>4, <2>5 DEF DefaultInv
  <2> QED BY <1>3, <2>6 DEF QueueInv
<1>4. CASE wire_scheduler # "default"
  <2>1. default_queue' = default_queue
    BY <1>1, <1>4 DEF Invoked
  <2> QED BY <1>2, <1>4, <2>1 DEF QueueInv
<1> QED BY <1>3, <1>4

\* ... and by one that goes to the Mq behind others.
LEMMA ToMqQueue ==
    ASSUME BTypes, QueueInv, DispatchToMq, dispatched < MaxMessages,
           UNCHANGED <<wire_scheduler, action>>
    PROVE  QueueInv'
<1>1. wire_scheduler # "default" /\ UNCHANGED default_queue
  BY DEF DispatchToMq, MayOvertake
<1>2. Ms' = Ms /\ CurrentMq' = CurrentMq
  BY ToMqMq DEF CurrentMq
<1> QED BY <1>1, <1>2 DEF QueueInv

\* Threads that are between tasks handle nothing.
LEMMA NothingHandled ==
    /\ (\A t \in Threads : Free(t)) => HandledMessages = {}
    /\ HandlersInv /\ wire_scheduler = "default" /\ Free("main") => HandledMessages = {}
BY DEF HandledMessages, HandlersInv, Threads

\* An invocation that was queued is taken in its turn.
LEMMA InvokeQueue ==
    ASSUME BTypes, HandlersInv, QueueInv, InvokeOnDefault, UNCHANGED wire_scheduler
    PROVE  QueueInv'
<1>1. /\ default_queue # <<>> /\ NextTask.type = "invoke" /\ default_queue' = Tail(default_queue)
      /\ Recheck("main", NextTask.entity, NextTask.message) /\ Free("main") /\ "main" \in Threads
      /\ UNCHANGED <<broker, action, dispatched>>
  BY DEF InvokeOnDefault, Threads
<1>2. /\ NextTask.entity \in Entities /\ NextTask.message \in Messages
      /\ NextTask.message \in Nat
  BY <1>1, TakenTask, CoreTypes
<1>3. Ms' = Ms /\ Cs' = Cs /\ CurrentMq' = CurrentMq
  BY <1>1, SameMq DEF CurrentMq
<1>4. CASE wire_scheduler = "default"
  <2>1. DefaultInv /\ HandledMessages = {}
    BY <1>1, <1>4, NothingHandled DEF QueueInv
  <2>2. /\ dispatched - Len(default_queue) \in Nat
        /\ dispatched - Len(default_queue) < NextTask.message
        /\ NextTask.message = dispatched - Len(Tail(default_queue))
        /\ InArrivalOrder(Tail(default_queue), Ms, CurrentMq, dispatched)
    BY <1>1, <2>1, CoreTypes, ArrivalTail DEF DefaultInv, NextTask
  <2>3. ExecutedMessages' = ExecutedMessages /\ HandledMessages' \subseteq {NextTask.message}
    BY <1>1, <1>2, <2>1, RecheckHandles
  <2>4. DefaultInv'
    BY <1>1, <1>2, <1>3, <2>1, <2>2, <2>3, TakenLater DEF DefaultInv
  <2> QED BY <1>4, <2>4 DEF QueueInv
<1>5. CASE wire_scheduler # "default"
  <2>1. NextTask.type = "deferred"
    <3>1. 1 \in 1 .. Len(default_queue) /\ NextTask = default_queue[1]
      BY <1>1, CoreTypes, TailIndices DEF NextTask
    <3> QED BY <1>5, <3>1 DEF QueueInv, OnlyDeferred
  <2> QED BY <1>1, <2>1
<1> QED BY <1>4, <1>5

\* So is a message of the Mq.
LEMMA PopQueue ==
    ASSUME BTypes, ActionInv, HandlersInv, QueueInv, PopMessage, UNCHANGED wire_scheduler
    PROVE  QueueInv'
<1>1. /\ Ms # <<>> /\ Head(Ms) \in Messages /\ default_queue # <<>>
      /\ NextTask.type = "deferred" /\ NextTask.mq = CurrentMq
  BY MessageIsThere
<1>2. /\ mq # {} /\ mq' # {} /\ mqs' = mqs /\ Ms' = Tail(Ms) /\ Cs' = Cs
      /\ Handle(action.subscription, Head(Ms))
  BY <1>1, PopMq
<1>3. CurrentMq' = CurrentMq
  BY <1>2 DEF CurrentMq
<1>4. /\ Free("main") /\ "main" \in Threads /\ UNCHANGED dispatched
      /\ action' \in {Idle, [action EXCEPT !.step = "handled"]} /\ action.left = <<>>
  BY DEF PopMessage, ActionInv, Threads
<1>5. default_queue' = Tail(default_queue)
  BY <1>2 DEF Handle, Invoked, Throws
<1>6. CASE wire_scheduler = "default"
  <2>1. DefaultInv /\ HandledMessages = {} /\ Head(Ms) \in Nat
    BY <1>1, <1>4, <1>6, NothingHandled, CoreTypes DEF QueueInv
  <2>2. /\ dispatched - Len(default_queue) \in Nat
        /\ dispatched - Len(default_queue) < Head(Ms)
        /\ Head(Ms) = dispatched - Len(Tail(default_queue))
        /\ InArrivalOrder(Tail(default_queue), Tail(Ms), CurrentMq, dispatched)
    <3>1. /\ InArrivalOrder(default_queue, Ms, CurrentMq, dispatched)
          /\ Head(default_queue).type = "deferred" /\ Head(default_queue).mq = CurrentMq
      BY <1>1, <2>1 DEF DefaultInv, NextTask
    <3>2. Ms \in Seq(Nat) /\ dispatched \in Nat
      BY <1>1, CoreTypes
    <3>3. PICK S : default_queue \in Seq(S)
      BY <1>1, CoreTypes
    <3>4. /\ dispatched - Len(default_queue) \in Nat
          /\ dispatched - Len(default_queue) < dispatched - Len(Tail(default_queue))
          /\ Head(Ms) = dispatched - Len(Tail(default_queue))
          /\ InArrivalOrder(Tail(default_queue), Tail(Ms), CurrentMq, dispatched)
      BY <1>1, <3>1, <3>2, <3>3, ArrivalTail
    <3> QED BY <3>4
  <2>3. ExecutedMessages' = ExecutedMessages /\ HandledMessages' \subseteq {Head(Ms)}
    <3>1. CASE ~IsEntity(action.subscription) \/ Throws(action.subscription)
      BY <1>2, <2>1, <3>1 DEF Handle, Drop, ExecutedMessages, HandledMessages, Free
    <3>2. CASE IsEntity(action.subscription) /\ ~Throws(action.subscription)
      <4>1. Pass("main", action.subscription, Head(Ms)) /\ action.subscription \in Entities
        BY <1>2, <1>6, <3>2 DEF Handle, IsEntity
      <4> QED BY <1>1, <1>4, <2>1, <4>1, PassHandles
    <3> QED BY <3>1, <3>2
  <2>4. action'.left = <<>>
    BY <1>4 DEF BTypes, Idle
  <2>5. DefaultInv'
    BY <1>2, <1>3, <1>4, <1>5, <2>1, <2>2, <2>3, <2>4, TakenLater DEF DefaultInv
  <2> QED BY <1>6, <2>5 DEF QueueInv
<1>7. CASE wire_scheduler # "default"
  <2>1. OnlyDeferred(Tail(default_queue), Tail(Ms), CurrentMq)
    BY <1>1, <1>7, CoreTypes, OnlyDeferredTail DEF QueueInv, NextTask
  <2> QED BY <1>2, <1>3, <1>5, <1>7, <2>1 DEF QueueInv
<1> QED BY <1>6, <1>7

\* What a thread executes it took after what was executed before.
LEMMA ExecuteQueue ==
    ASSUME BTypes, HandlersInv, QueueInv, NEW t \in Threads, Execute(t), UNCHANGED wire_scheduler
    PROVE  QueueInv'
<1>1. UNCHANGED <<broker, default_queue, action, dispatched>>
  BY DEF Execute
<1>2. Ms' = Ms /\ Cs' = Cs /\ CurrentMq' = CurrentMq
  BY <1>1, SameMq DEF CurrentMq
<1>3. CASE wire_scheduler = "default"
  <2>1. DefaultInv
    BY <1>3 DEF QueueInv
  <2>2. t = "main"
    BY <1>3 DEF HandlersInv, Execute, Threads
  <2> DEFINE m == handling[t].message
  <2>3. /\ m \in Nat /\ m \in HandledMessages
        /\ ExecutedMessages' = Append(ExecutedMessages, m)
        /\ Range(ExecutedMessages') = Range(ExecutedMessages) \cup {m}
        /\ Free(t)' /\ \A u \in Threads \ {t} : Free(u)' <=> Free(u)
    BY ExecuteAdds
  <2> HIDE DEF m
  <2>4. HandledMessages' = {}
    <3>1. \A u \in Threads : Free(u)'
      BY <1>3, <2>2, <2>3 DEF HandlersInv, Threads
    <3>2. HandledMessages' = {handling'[u].message : u \in {v \in Threads : ~Free(v)'}}
      BY DEF HandledMessages
    <3> QED BY <3>1, <3>2
  <2>5. Increasing(ExecutedMessages')
    BY <2>1, <2>3, CoreTypes, IncreasingAppend DEF DefaultInv
  <2>6. DefaultInv'
    BY <1>1, <1>2, <2>1, <2>3, <2>4, <2>5 DEF DefaultInv
  <2> QED BY <1>3, <2>6 DEF QueueInv
<1>4. CASE wire_scheduler # "default"
  BY <1>1, <1>2, <1>4 DEF QueueInv
<1> QED BY <1>3, <1>4

\* Steps that neither append nor take a task of the default scheduler.
LEMMA OtherQueue ==
    ASSUME CoreInv, UNCHANGED wire_scheduler,
           \/ ReadSubscription \/ EmptyCheck \/ EraseMq \/ Flush \/ FlushEnd \/ DanglingIterator
           \/ NullDereference \/ ThreadCheck
           \/ \E e \in Entities : AdviseOn(e) \/ Terminate(e) \/ Unbind(e)
           \/ UNCHANGED vars
    PROVE  QueueInv'
<1>1. UNCHANGED dispatched /\ (mq' = {} \/ UNCHANGED broker) /\ BTypes
  BY DEF CoreInv, ReadSubscription, EmptyCheck, EraseMq, Flush, FlushEnd, DanglingIterator,
     NullDereference, ThreadCheck, AdviseOn, Terminate, Unbind, vars
<1>2. CASE wire_scheduler = "default"
  <2>1. DefaultInv /\ thread_queue = <<>>
    BY <1>2 DEF QueueInv, HandlersInv, CoreInv
  <2>2. UNCHANGED <<default_queue, handling, executed>>
    BY <2>1 DEF DefaultInv, ReadSubscription, EmptyCheck, EraseMq, Flush, FlushEnd, DanglingIterator,
       NullDereference, ThreadCheck, AdviseOn, Terminate, Unbind, vars, tasks, log
  <2>3. action'.left = <<>>
    <3>1. CASE EraseMq
      <4>1. action' = [action EXCEPT !.step = "flush", !.left = Cs]
        BY <1>1, <3>1, EraseMqMq DEF CoreInv, ActionInv, EraseMq
      <4> QED BY <1>1, <2>1, <4>1 DEF DefaultInv, BTypes
    <3>2. CASE EmptyCheck
      <4>1. action' \in {Idle, [action EXCEPT !.step = "empty"]}
        BY <3>2 DEF EmptyCheck
      <4> QED BY <1>1, <2>1, <4>1 DEF DefaultInv, BTypes, Idle
    <3>3. CASE FlushEnd \/ ReadSubscription
      BY <3>3 DEF FlushEnd, ReadSubscription, Idle
    <3>4. CASE ~EraseMq /\ ~EmptyCheck /\ ~FlushEnd /\ ~ReadSubscription
      <4>1. action' = action
        BY <2>1, <3>4 DEF DefaultInv, Flush, DanglingIterator, NullDereference,
           ThreadCheck, AdviseOn, Terminate, Unbind, vars, tasks
      <4> QED BY <2>1, <4>1 DEF DefaultInv
    <3> QED BY <3>1, <3>2, <3>3, <3>4
  <2>4. InArrivalOrder(default_queue, Ms', CurrentMq', dispatched) /\ Cs' = <<>>
    <3>1. CASE mq' = {}
      <4>1. Ms' = <<>> /\ Cs' = <<>> /\ CurrentMq' = 0
        BY <3>1 DEF Ms, Cs, CurrentMq
      <4>2. InArrivalOrder(default_queue, <<>>, 0, dispatched)
        BY <1>1, <2>1, CoreTypes, OrderWithoutMq DEF DefaultInv
      <4> QED BY <4>1, <4>2
    <3>2. CASE UNCHANGED broker
      BY <2>1, <3>2, SameMq DEF DefaultInv, CurrentMq
    <3> QED BY <1>1, <3>1, <3>2
  <2>5. ExecutedMessages' = ExecutedMessages /\ HandledMessages' = HandledMessages
    BY <2>2 DEF ExecutedMessages, HandledMessages, Free
  <2>6. DefaultInv'
    BY <1>1, <2>1, <2>2, <2>3, <2>4, <2>5 DEF DefaultInv
  <2> QED BY <1>2, <2>6 DEF QueueInv
<1>3. CASE wire_scheduler # "default"
  <2>1. UNCHANGED default_queue
    BY <1>3 DEF ReadSubscription, EmptyCheck, EraseMq, Flush, Invoked, FlushEnd, DanglingIterator,
       NullDereference, ThreadCheck, AdviseOn, Terminate, Unbind, vars, tasks
  <2>2. OnlyDeferred(default_queue, Ms', CurrentMq')
    <3>1. OnlyDeferred(default_queue, Ms, CurrentMq)
      BY <1>3 DEF CoreInv, QueueInv
    <3>2. CASE mq' = {}
      <4>1. Ms' = <<>> /\ CurrentMq' = 0
        BY <3>2 DEF Ms, CurrentMq
      <4>2. OnlyDeferred(default_queue, <<>>, 0)
        BY <1>1, <3>1, CoreTypes, OrderWithoutMq
      <4> QED BY <4>1, <4>2
    <3>3. CASE UNCHANGED broker
      BY <3>1, <3>3, SameMq DEF CurrentMq
    <3> QED BY <1>1, <3>2, <3>3
  <2> QED BY <1>3, <2>1, <2>2 DEF QueueInv
<1> QED BY <1>2, <1>3

\* Each kind of scheduler keeps to its threads when it is given a message ...
LEMMA InvokedHandlers ==
    ASSUME BTypes, HandlersInv, NEW t \in Threads, t # "worker", Free(t), NEW e \in Entities,
           NEW m \in Messages, NEW q, Invoked(t, e, m, q)
    PROVE  /\ wire_scheduler # "thread" => thread_queue' = <<>>
           /\ wire_scheduler \in {"default", "thread"} => UNCHANGED handling
           /\ \A u \in Threads \ {t} : Free(u)' <=> Free(u)
<1>1. CASE wire_scheduler \in {"default", "thread"}
  BY <1>1 DEF Invoked, HandlersInv, Free
<1>2. CASE wire_scheduler \notin {"default", "thread"}
  <2>1. UNCHANGED thread_queue /\ Recheck(t, e, m)
    BY <1>2 DEF Invoked
  <2>2. \A u \in Threads \ {t} : Free(u)' <=> Free(u)
    BY <2>1, RecheckHandles DEF Free
  <2> QED BY <1>2, <2>1, <2>2 DEF HandlersInv
<1> QED BY <1>1, <1>2

\* ... and by every other step.
LEMMA HandlersStep == ASSUME CoreInv, Next PROVE HandlersInv'
<1>1. /\ BTypes /\ ActionInv /\ HandlersInv /\ UNCHANGED wire_scheduler
      /\ Threads = {"main", "wire", "worker"}
  BY DEF CoreInv, Next, Threads
<1>2. CASE Dispatch
  <2>1. UNCHANGED action /\ Free("wire") /\ dispatched < MaxMessages
    BY <1>2 DEF Dispatch
  <2>2. CASE DispatchNow
    <3>1. /\ subscription \in Entities /\ Invoked("wire", subscription, dispatched + 1, default_queue)
          /\ dispatched + 1 \in Messages
      BY <1>1, <2>1, <2>2, MessageBrokerAssumption, CoreTypes, SMT DEF DispatchNow, IsEntity, Messages
    <3> QED BY <1>1, <2>1, <3>1, InvokedHandlers DEF HandlersInv, Free
  <2>3. CASE DispatchLater \/ DispatchToMq
    BY <1>1, <2>1, <2>3 DEF DispatchLater, DispatchToMq, HandlersInv, Free
  <2> QED BY <1>2, <2>2, <2>3 DEF Dispatch
<1>3. CASE InvokeOnDefault
  <2>1. /\ default_queue # <<>> /\ NextTask.type = "invoke" /\ Free("main")
        /\ Recheck("main", NextTask.entity, NextTask.message) /\ UNCHANGED thread_queue
    BY <1>3 DEF InvokeOnDefault
  <2>2. wire_scheduler = "default"
    <3>1. 1 \in 1 .. Len(default_queue) /\ NextTask = default_queue[1]
      BY <1>1, <2>1, CoreTypes, TailIndices DEF NextTask
    <3> QED BY <2>1, <3>1 DEF CoreInv, QueueInv, OnlyDeferred
  <2>3. \A u \in Threads \ {"main"} : Free(u)' <=> Free(u)
    BY <1>1, <2>1, TakenTask, RecheckHandles DEF Free
  <2> QED BY <1>1, <2>1, <2>2, <2>3 DEF HandlersInv
<1>4. CASE PopMessage
  <2>1. /\ Ms # <<>> /\ Head(Ms) \in Messages /\ Free("main")
    BY <1>1, <1>4, MessageIsThere DEF CoreInv, ActionInv, PopMessage
  <2>2. Handle(action.subscription, Head(Ms))
    BY <1>1, <1>4, <2>1, PopMq
  <2>3. wire_scheduler # "default" => action'.step = "handled"
    BY <1>1, <1>4 DEF PopMessage, Throws, BTypes
  <2>4. CASE IsEntity(action.subscription) /\ wire_scheduler # "default"
    <3>1. /\ Invoked("main", action.subscription, Head(Ms), Tail(default_queue))
          /\ action.subscription \in Entities
      BY <2>2, <2>4 DEF Handle, Throws, IsEntity
    <3> QED BY <1>1, <2>1, <2>3, <2>4, <3>1, InvokedHandlers DEF HandlersInv, Free
  <2>5. CASE ~IsEntity(action.subscription) \/ Throws(action.subscription)
    BY <1>1, <2>2, <2>3, <2>5 DEF Handle, HandlersInv, Free
  <2>6. CASE IsEntity(action.subscription) /\ ~Throws(action.subscription) /\ wire_scheduler = "default"
    <3>1. /\ Pass("main", action.subscription, Head(Ms)) /\ UNCHANGED thread_queue
          /\ action.subscription \in Entities
      BY <2>2, <2>6 DEF Handle, IsEntity
    <3>2. \A u \in Threads \ {"main"} : Free(u)' <=> Free(u)
      BY <1>1, <2>1, <3>1, PassHandles
    <3> QED BY <1>1, <2>6, <3>1, <3>2 DEF HandlersInv
  <2> QED BY <2>4, <2>5, <2>6
<1>5. CASE Flush
  <2>1. /\ action.subscription \in Entities /\ Head(action.left) \in Messages /\ Free("main")
        /\ Invoked("main", action.subscription, Head(action.left), default_queue)
        /\ action'.step = "flush"
    BY <1>1, <1>5, HeadTailProperties DEF Flush, BTypes, IsEntity
  <2> QED BY <1>1, <2>1, InvokedHandlers DEF HandlersInv, Free
<1>6. CASE ThreadCheck
  <2>1. /\ thread_queue \in Seq(Task) /\ thread_queue # <<>> /\ Free("worker")
        /\ Recheck("worker", Head(thread_queue).entity, Head(thread_queue).message)
        /\ UNCHANGED action
    BY <1>1, <1>6 DEF ThreadCheck, BTypes
  <2>2. Head(thread_queue).entity \in Entities /\ Head(thread_queue).message \in Messages
    <3>1. Head(thread_queue) \in Task
      BY <2>1, HeadTailProperties
    <3> QED BY <3>1 DEF Task
  <2>3. \A u \in Threads \ {"worker"} : Free(u)' <=> Free(u)
    BY <1>1, <2>1, <2>2, RecheckHandles DEF Free
  <2> QED BY <1>1, <2>1, <2>3 DEF HandlersInv
<1>7. ASSUME NEW t \in Threads, Execute(t) PROVE HandlersInv'
  <2>1. /\ Free(t)' /\ \A u \in Threads \ {t} : Free(u)' <=> Free(u)
        /\ UNCHANGED <<thread_queue, action>>
    BY <1>1, <1>7, ExecuteAdds DEF Execute
  <2> QED BY <1>1, <2>1 DEF HandlersInv
<1>8. CASE ReadSubscription \/ EmptyCheck \/ EraseMq \/ FlushEnd
  <2>1. UNCHANGED <<thread_queue, handling>> /\ Free("main")
    BY <1>1, <1>8 DEF ReadSubscription, EmptyCheck, EraseMq, FlushEnd, ActionInv
  <2> QED BY <1>1, <2>1 DEF HandlersInv, Free
<1>9. CASE \/ DanglingIterator \/ NullDereference
           \/ \E e \in Entities : AdviseOn(e) \/ Terminate(e) \/ Unbind(e)
  BY <1>1, <1>9 DEF DanglingIterator, NullDereference, AdviseOn, Terminate, Unbind, tasks,
     HandlersInv, Free
<1> QED BY <1>1, <1>2, <1>3, <1>4, <1>5, <1>6, <1>7, <1>8, <1>9 DEF Next, DefaultStep, ThreadStep

\* In the beginning there is no message.
LEMMA InitCore == Init => CoreInv
<1> SUFFICES ASSUME Init PROVE CoreInv
  OBVIOUS
<1>1. /\ \A S : <<>> \in Seq(S)
      /\ Len(<<>>) = 0 /\ 1 .. 0 = {} /\ Range(<<>>) = {}
  <2>1. \A S : <<>> \in Seq(S)
    BY EmptySeq
  <2>2. Len(<<>>) = 0 /\ 1 .. 0 = {}
    BY EmptySeq, SMT
  <2>3. <<>> \in Seq(Nat)
    BY EmptySeq
  <2>4. Range(<<>>) = {<<>>[i] : i \in 1 .. Len(<<>>)}
    BY <2>3, RangeEquality
  <2> QED BY <2>1, <2>2, <2>4
<1>2. /\ mq = {} /\ mqs = 0 /\ dispatched = 0 /\ subscription = Missing /\ action = Idle
      /\ default_queue = <<>> /\ thread_queue = <<>> /\ executed = <<>> /\ dropped = {}
      /\ handling = [t \in Threads |-> NoTask] /\ lifetime = [e \in Entities |-> "new"] /\ undefined = FALSE
      /\ wire_scheduler \in SchedulerKinds
  BY MessageBrokerAssumption DEF Init
<1>3. BTypes
  <2>1. dispatched <= MaxMessages /\ mqs <= dispatched
    BY <1>2, MessageBrokerAssumption, SMT
  <2>2. Idle \in [step : {"idle", "read", "handled", "empty", "flush"}, subscription : Handlers,
                  left : Seq(Messages)]
    BY <1>1 DEF Idle, Handlers
  <2> QED BY <1>1, <1>2, <2>1, <2>2 DEF BTypes, OneMq, Handlers
<1>4. ActionInv
  BY <1>2 DEF ActionInv, Idle
<1>5. OneSubscriber
  BY <1>2, MessageBrokerAssumption DEF OneSubscriber
<1>6. HandlersInv /\ HandledMessages = {}
  <2>1. \A t \in Threads : Free(t)
    BY <1>2 DEF Free
  <2> QED BY <1>2, <2>1, NothingHandled DEF HandlersInv, Threads
<1>7. QueueInv
  <2>1. Ms = <<>> /\ Cs = <<>> /\ CurrentMq = 0
    BY <1>2 DEF Ms, Cs, CurrentMq
  <2>2. Len(ExecutedMessages) = 0
    BY <1>1, <1>2, <1>3, CoreTypes
  <2>3. ExecutedMessages = <<>>
    BY <1>3, <2>2, CoreTypes, EmptySeq
  <2>4. Increasing(<<>>)
    BY <1>1 DEF Increasing
  <2>5. InArrivalOrder(<<>>, <<>>, 0, 0) /\ OnlyDeferred(<<>>, <<>>, 0) /\ action.left = <<>>
    BY <1>1, <1>2, <2>4, SMT DEF InArrivalOrder, OnlyDeferred, Idle
  <2>6. DefaultInv
    <3>1. Range(ExecutedMessages) = {} /\ Len(default_queue) = 0
      BY <1>1, <1>2, <2>3
    <3>2. Increasing(ExecutedMessages) /\ InArrivalOrder(default_queue, Ms, CurrentMq, dispatched)
      BY <1>2, <2>1, <2>3, <2>4, <2>5
    <3> QED BY <1>6, <2>1, <2>5, <3>1, <3>2 DEF DefaultInv
  <2> QED BY <1>2, <2>1, <2>5, <2>6 DEF QueueInv
<1> QED BY <1>3, <1>4, <1>5, <1>6, <1>7 DEF CoreInv

\* The steps of a deferred action follow each other.
LEMMA ActionStep == ASSUME CoreInv, Next PROVE ActionInv'
<1>1. BTypes /\ ActionInv /\ HandlersInv
  BY DEF CoreInv
<1>2. CASE Dispatch
  <2>1. action' = action
    BY <1>2 DEF Dispatch
  <2>2. mq # {} => mq' # {}
    BY <1>1, <1>2, LaterMq, ToMqMq DEF Dispatch, DispatchNow, broker
  <2>3. /\ default_queue' = default_queue \/ \E t \in AnyTask : default_queue' = Append(default_queue, t)
        /\ Free("main")' <=> Free("main")
    <3>1. dispatched + 1 \in Messages /\ mqs' \in Nat /\ default_queue \in Seq(AnyTask)
      <4>1. BTypes'
        BY <1>1, <1>2, DispatchTypes DEF Next
      <4> QED BY <1>1, <1>2, <4>1, MessageBrokerAssumption, SMT DEF BTypes, Messages, Dispatch
    <3>2. CASE DispatchLater
      <4>1. Deferred(mqs') \in AnyTask
        BY <3>1 DEF AnyTask, Deferred
      <4> QED BY <3>2, <4>1 DEF DispatchLater, Free
    <3>3. CASE DispatchNow
      <4>1. /\ Invoked("wire", subscription, dispatched + 1, default_queue) /\ Free("wire")
            /\ subscription \in Entities
        BY <1>2, <3>3 DEF Dispatch, DispatchNow, IsEntity
      <4>2. /\ \/ default_queue' = default_queue
               \/ default_queue' = Append(default_queue, Invoke(subscription, dispatched + 1))
            /\ Invoke(subscription, dispatched + 1) \in AnyTask
        BY <1>1, <3>1, <4>1, InvokedTypes DEF AnyTask, Task, Invoke, Threads
      <4>3. Free("main")' <=> Free("main")
        BY <1>1, <3>1, <4>1, InvokedHandlers DEF Threads
      <4> QED BY <4>2, <4>3
    <3>4. CASE DispatchToMq
      BY <3>4 DEF DispatchToMq, Free
    <3> QED BY <1>2, <3>2, <3>3, <3>4 DEF Dispatch
  <2>4. default_queue # <<>> => default_queue' # <<>> /\ NextTask' = NextTask
    <3> SUFFICES ASSUME default_queue # <<>>, NEW t \in AnyTask,
                        default_queue' = Append(default_queue, t)
                 PROVE  default_queue' # <<>> /\ NextTask' = NextTask
      BY <2>3 DEF NextTask
    <3>1. default_queue \in Seq(AnyTask) /\ Append(default_queue, t) # <<>>
      BY <1>1, AppendProperties DEF BTypes
    <3>2. 1 \in 1 .. Len(default_queue) /\ Head(default_queue) = default_queue[1]
      BY <3>1, TailIndices
    <3>3. Append(default_queue, t)[1] = default_queue[1] /\ Append(default_queue, t) \in Seq(AnyTask)
      BY <3>1, <3>2, AppendIndices, AppendProperties
    <3>4. Head(Append(default_queue, t)) = Append(default_queue, t)[1]
      BY <3>1, <3>3, TailIndices
    <3> QED BY <3>1, <3>2, <3>3, <3>4 DEF NextTask
  <2> QED BY <1>1, <2>1, <2>2, <2>3, <2>4 DEF ActionInv
<1>3. CASE ReadSubscription
  <2>1. action' = [step |-> "read", subscription |-> subscription', left |-> <<>>]
    BY <1>3 DEF ReadSubscription
  <2>2. /\ UNCHANGED <<default_queue, handling>> /\ Free("main") /\ default_queue # <<>>
        /\ NextTask.type = "deferred"
    BY <1>3 DEF ReadSubscription
  <2> QED BY <2>1, <2>2 DEF ActionInv, Idle, NextTask, Free
<1>4. CASE PopMessage
  <2>1. action.left = <<>> /\ action' \in {Idle, [action EXCEPT !.step = "handled"]}
    BY <1>1, <1>4 DEF PopMessage, ActionInv
  <2>2. mq' # {}
    BY <1>4 DEF PopMessage
  <2> QED BY <1>1, <2>1, <2>2 DEF ActionInv, BTypes, Idle
<1>5. CASE EmptyCheck
  <2>1. /\ action' \in {Idle, [action EXCEPT !.step = "empty"]} /\ action.step = "handled"
        /\ UNCHANGED <<mq, handling>> /\ Free("main")
    BY <1>5 DEF EmptyCheck, broker
  <2>2. action.left = <<>> /\ mq # {}
    BY <1>1, <2>1 DEF ActionInv
  <2> QED BY <1>1, <2>1, <2>2 DEF ActionInv, BTypes, Idle, Free
<1>6. CASE EraseMq
  <2>1. action' = [action EXCEPT !.step = "flush", !.left = Cs] /\ action.step = "empty"
    BY <1>1, <1>6, EraseMqMq DEF ActionInv, EraseMq
  <2> QED BY <1>1, <2>1 DEF ActionInv, BTypes, Idle
<1>7. CASE Flush
  <2>1. action' = [action EXCEPT !.left = Tail(@)] /\ action.step = "flush"
    BY <1>7 DEF Flush
  <2> QED BY <1>1, <2>1 DEF ActionInv, BTypes, Idle
<1>8. CASE FlushEnd
  BY <1>8 DEF FlushEnd, ActionInv, Idle
<1>9. CASE InvokeOnDefault
  BY <1>1, <1>9 DEF InvokeOnDefault, ActionInv, broker, Idle
<1>10. CASE ThreadCheck
  <2>1. /\ UNCHANGED <<action, mq, default_queue>> /\ Free("worker")
        /\ thread_queue \in Seq(Task) /\ thread_queue # <<>>
        /\ Recheck("worker", Head(thread_queue).entity, Head(thread_queue).message)
    BY <1>1, <1>10 DEF ThreadCheck, broker, BTypes
  <2>2. Head(thread_queue).entity \in Entities /\ Head(thread_queue).message \in Messages
    <3>1. Head(thread_queue) \in Task
      BY <2>1, HeadTailProperties
    <3> QED BY <3>1 DEF Task
  <2>3. Free("main")' <=> Free("main")
    BY <1>1, <2>1, <2>2, RecheckHandles DEF Free, Threads
  <2> QED BY <1>1, <2>1, <2>3 DEF ActionInv, NextTask
<1>11. ASSUME NEW t \in Threads, Execute(t) PROVE ActionInv'
  <2>1. UNCHANGED <<action, mq, default_queue>> /\ (Free("main") => Free("main")')
    <3>1. Free(t)' /\ \A u \in Threads \ {t} : Free(u)' <=> Free(u)
      BY <1>1, <1>11, ExecuteAdds DEF Next
    <3> QED BY <1>11, <3>1 DEF Execute, broker, Threads
  <2> QED BY <1>1, <2>1 DEF ActionInv, NextTask
<1>12. CASE \/ DanglingIterator \/ NullDereference
            \/ \E e \in Entities : AdviseOn(e) \/ Terminate(e) \/ Unbind(e)
  <2>1. UNCHANGED <<action, mq, default_queue, handling>>
    BY <1>12 DEF DanglingIterator, NullDereference, AdviseOn, Terminate, Unbind, tasks, broker
  <2> QED BY <1>1, <2>1 DEF ActionInv, NextTask, Free
<1>13. "main" \in Threads /\ "wire" \in Threads /\ "worker" \in Threads
  BY DEF Threads
<1> QED BY <1>2, <1>3, <1>4, <1>5, <1>6, <1>7, <1>8, <1>9, <1>10, <1>11, <1>12, <1>13
     DEF Next, DefaultStep, ThreadStep

\* The subscription is that of the entity whose lifetime lasts.
LEMMA SubscriberStep == ASSUME CoreInv, Next PROVE OneSubscriber'
<1>1. /\ OneSubscriber /\ subscription \in Handlers
      /\ lifetime \in [Entities -> {"new", "alive", "ending", "terminated"}]
  BY DEF CoreInv, BTypes
<1>2. CASE \E e \in Entities : AdviseOn(e)
  BY <1>1, <1>2 DEF AdviseOn, HasId, OneSubscriber
<1>3. CASE \E e \in Entities : Terminate(e)
  BY <1>1, <1>3, MessageBrokerAssumption DEF Terminate, OneSubscriber
<1>4. CASE \E e \in Entities : Unbind(e)
  BY <1>1, <1>4 DEF Unbind, OneSubscriber
<1>5. CASE \A e \in Entities : ~AdviseOn(e) /\ ~Terminate(e) /\ ~Unbind(e)
  <2>1. UNCHANGED lifetime
    BY <1>5 DEF Next, Dispatch, DefaultStep, InvokeOnDefault, ReadSubscription, PopMessage,
       DanglingIterator, EmptyCheck, EraseMq, Flush, NullDereference, FlushEnd, ThreadStep,
       ThreadCheck, Execute
  <2>2. subscription' = subscription \/ (subscription \notin Entities /\ subscription' = Null)
    <3>1. CASE Dispatch
      BY <3>1 DEF Dispatch, DispatchLater, DispatchNow, DispatchToMq, IsEntity
    <3>2. CASE ReadSubscription
      BY <3>2, MessageBrokerAssumption DEF ReadSubscription
    <3> QED BY <1>5, <3>1, <3>2 DEF Next, DefaultStep, InvokeOnDefault, PopMessage, DanglingIterator,
       EmptyCheck, EraseMq, Flush, NullDereference, FlushEnd, ThreadStep, ThreadCheck, Execute
  <2> QED BY <1>1, <2>1, <2>2, MessageBrokerAssumption DEF OneSubscriber
<1> QED BY <1>2, <1>3, <1>4, <1>5

\* The invariant of every environment.
LEMMA NextCore == CoreInv /\ [Next]_vars => CoreInv'
<1> SUFFICES ASSUME CoreInv, [Next]_vars PROVE CoreInv'
  OBVIOUS
<1>1. CASE Next
  <2>1. BTypes /\ ActionInv /\ HandlersInv /\ QueueInv /\ UNCHANGED wire_scheduler
        /\ "main" \in Threads /\ "wire" \in Threads /\ "worker" \in Threads
    BY <1>1 DEF CoreInv, Next, Threads
  <2>2. BTypes'
    <3>1. CASE Dispatch
      BY <2>1, <3>1, DispatchTypes
    <3>2. CASE PopMessage
      BY <2>1, <3>2, PopTypes, MessageIsThere
    <3>3. CASE DefaultStep /\ ~PopMessage
      BY <2>1, <3>3, DefaultTypes DEF ActionInv
    <3>4. CASE ThreadStep
      BY <2>1, <3>4, ThreadTypes
    <3>5. CASE Execute("wire")
      BY <2>1, <3>5, ExecuteTypes
    <3>6. CASE \E e \in Entities : AdviseOn(e) \/ Terminate(e) \/ Unbind(e)
      <4>1. /\ UNCHANGED <<wire_scheduler, broker, tasks, dispatched, log, undefined>>
            /\ subscription' \in Handlers
            /\ lifetime' \in [Entities -> {"new", "alive", "ending", "terminated"}]
        BY <2>1, <3>6 DEF AdviseOn, Terminate, Unbind, BTypes, Handlers
      <4> QED BY <2>1, <4>1, SameMq DEF BTypes, broker, tasks, log, IsDeferred
    <3> QED BY <1>1, <3>1, <3>2, <3>3, <3>4, <3>5, <3>6 DEF Next
  <2>3. QueueInv'
    <3>1. CASE Dispatch
      BY <2>1, <3>1, LaterQueue, NowQueue, ToMqQueue DEF Dispatch, DispatchLater
    <3>2. CASE InvokeOnDefault
      BY <2>1, <3>2, InvokeQueue
    <3>3. CASE PopMessage
      BY <2>1, <3>3, PopQueue
    <3>4. CASE \E t \in Threads : Execute(t)
      BY <2>1, <3>4, ExecuteQueue
    <3> QED BY <1>1, <2>1, <3>1, <3>2, <3>3, <3>4, OtherQueue DEF Next, DefaultStep, ThreadStep
  <2> QED BY <1>1, <2>2, <2>3, ActionStep, SubscriberStep, HandlersStep DEF CoreInv
<1>2. CASE UNCHANGED vars
  <2>1. UNCHANGED wire_scheduler /\ QueueInv'
    BY <1>2, OtherQueue DEF vars
  <2>2. BTypes'
    BY <1>2, SameMq DEF CoreInv, BTypes, vars, broker, tasks, log, IsDeferred
  <2> QED BY <1>2, <2>1, <2>2 DEF CoreInv, ActionInv, OneSubscriber, HandlersInv, NextTask, Free, vars,
             broker, tasks
<1> QED BY <1>1, <1>2

\* The core of the invariant holds whatever the environment does.
THEOREM CoreInvariance == Spec => []CoreInv
BY InitCore, NextCore, PTL DEF Spec

\* The broker's data keep their types: in particular a deferred action never takes
\* a message from an empty Mq, and there is never a second Mq for the id.
THEOREM TypeCorrect == Spec => []TypeOK
<1>1. CoreInv => TypeOK
  <2> SUFFICES ASSUME BTypes PROVE TypeOK
    BY DEF CoreInv
  <2>1. mqs \in 0 .. MaxMessages /\ dispatched \in 0 .. MaxMessages
    BY MessageBrokerAssumption, SMT DEF BTypes
  <2>2. default_queue \in Seq(Task \cup [type : {"deferred"}, mq : 1 .. mqs])
    <3>1. ASSUME NEW i \in 1 .. Len(default_queue)
          PROVE  default_queue[i] \in Task \cup [type : {"deferred"}, mq : 1 .. mqs]
      <4>1. default_queue[i] \in AnyTask /\ (IsDeferred(i) => default_queue[i].mq \in 1 .. mqs)
        BY ElementOfSeq DEF BTypes
      <4> QED BY <4>1 DEF AnyTask, IsDeferred
    <3> QED BY <3>1, SeqOfElements DEF BTypes
  <2>3. /\ Cardinality(mq) <= 1
        /\ mq \subseteq [number : 1 .. mqs, default_scheduler_messages : Seq(Messages),
                         custom_scheduler_messages : Seq(Messages)]
    <3>1. CASE mq = {}
      BY <3>1, FS_EmptySet
    <3>2. CASE mq # {}
      <4>1. PICK q \in MqRecord : mq = {q} /\ q.number = mqs /\ mqs # 0
        BY <3>2 DEF BTypes, OneMq
      <4>2. mqs \in 1 .. mqs
        BY <4>1, SMT DEF BTypes
      <4>3. Cardinality(mq) = 1
        BY <4>1, FS_Singleton
      <4> QED BY <4>1, <4>2, <4>3 DEF MqRecord
    <3> QED BY <3>1, <3>2
  <2> QED BY <2>1, <2>2, <2>3 DEF BTypes, TypeOK, Handlers
<1> QED BY <1>1, CoreInvariance, PTL

-----------------------------------------------------------------------------
(* No message is forgotten *)

\* The messages that the invocations in a queue are for.
InvokedIn(q) == {q[i].message : i \in {j \in 1 .. Len(q) : q[j].type = "invoke"}}

\* The messages that have left the queues.
Taken == Range(ExecutedMessages) \cup dropped \cup HandledMessages
Queued == InvokedIn(default_queue) \cup InvokedIn(thread_queue)
Waiting == Range(action.left) \cup Range(Ms) \cup Range(Cs)

\* The messages in a queue, with one more task ...
LEMMA InvokedAppend ==
    ASSUME NEW q \in Seq(AnyTask), NEW t \in AnyTask
    PROVE  InvokedIn(Append(q, t)) = InvokedIn(q) \cup (IF t.type = "invoke" THEN {t.message} ELSE {})
<1> DEFINE r == Append(q, t)
<1>1. /\ Len(q) \in Nat /\ Len(r) = Len(q) + 1
      /\ \A i \in 1 .. Len(q) : r[i] = q[i]
      /\ r[Len(q) + 1] = t
      /\ \A i \in 1 .. Len(r) : i \in 1 .. Len(q) \/ i = Len(q) + 1
  BY AppendIndices
<1>2. Len(q) + 1 \in 1 .. Len(r) /\ \A i \in 1 .. Len(q) : i \in 1 .. Len(r)
  BY <1>1, SMT
<1> HIDE DEF r
<1>3. InvokedIn(r) \subseteq InvokedIn(q) \cup (IF t.type = "invoke" THEN {t.message} ELSE {})
  BY <1>1 DEF InvokedIn
<1>4. InvokedIn(q) \cup (IF t.type = "invoke" THEN {t.message} ELSE {}) \subseteq InvokedIn(r)
  BY <1>1, <1>2 DEF InvokedIn
<1> QED BY <1>3, <1>4 DEF r

\* ... and with one less.
LEMMA InvokedTail ==
    ASSUME NEW S, NEW q \in Seq(S), q # <<>>
    PROVE  InvokedIn(q) = (IF Head(q).type = "invoke" THEN {Head(q).message} ELSE {})
                             \cup InvokedIn(Tail(q))
<1> DEFINE r == Tail(q)
           h == Head(q)
<1>1. /\ Len(q) \in Nat /\ 1 \in 1 .. Len(q) /\ h = q[1] /\ Len(r) = Len(q) - 1
      /\ \A i \in 1 .. Len(r) : i + 1 \in 1 .. Len(q) /\ r[i] = q[i + 1]
  BY TailIndices
<1> HIDE DEF r, h
<1>2. ASSUME NEW i \in 1 .. Len(q), i # 1 PROVE i - 1 \in 1 .. Len(r) /\ r[i - 1] = q[i]
  <2>1. i - 1 \in 1 .. Len(r) /\ (i - 1) + 1 = i
    BY <1>1, <1>2, SMT
  <2> QED BY <1>1, <2>1
<1>3. InvokedIn(q) \subseteq (IF h.type = "invoke" THEN {h.message} ELSE {}) \cup InvokedIn(r)
  <2> SUFFICES ASSUME NEW i \in 1 .. Len(q), q[i].type = "invoke"
               PROVE  q[i].message \in (IF h.type = "invoke" THEN {h.message} ELSE {})
                                           \cup InvokedIn(r)
    BY DEF InvokedIn
  <2>1. CASE i = 1
    BY <1>1, <2>1
  <2>2. CASE i # 1
    BY <1>2, <2>2 DEF InvokedIn
  <2> QED BY <2>1, <2>2
<1>4. (IF h.type = "invoke" THEN {h.message} ELSE {}) \cup InvokedIn(r) \subseteq InvokedIn(q)
  BY <1>1 DEF InvokedIn
<1> QED BY <1>3, <1>4 DEF r, h

\* Where the messages are that NothingForgotten speaks of.
LEMMA Places ==
    ASSUME BTypes
    PROVE  QueuedMessages = Queued \cup HandledMessages /\ WaitingMessages = Waiting
<1>1. /\ default_queue \in Seq(AnyTask) /\ thread_queue \in Seq(Task)
      /\ handling \in [Threads -> Task \cup {NoTask}]
  BY DEF BTypes
<1>2. /\ Range(default_queue) = {default_queue[i] : i \in 1 .. Len(default_queue)}
      /\ Range(thread_queue) = {thread_queue[i] : i \in 1 .. Len(thread_queue)}
      /\ Range(handling) = {handling[t] : t \in Threads}
  <2>1. Range(handling) = {handling[t] : t \in Threads}
    BY <1>1 DEF Range
  <2> QED BY <1>1, <2>1, RangeEquality
<1>3. \A t \in Threads : handling[t].type = "invoke" <=> ~Free(t)
  BY <1>1 DEF Task, NoTask, Free
<1>4. QueuedMessages = Queued \cup HandledMessages
  <2>1. QueuedMessages \subseteq Queued \cup HandledMessages
    <3> SUFFICES ASSUME NEW u \in Range(default_queue) \cup Range(thread_queue) \cup Range(handling),
                        u.type = "invoke"
                 PROVE  u.message \in Queued \cup HandledMessages
      BY DEF QueuedMessages
    <3>1. CASE u \in Range(default_queue)
      BY <1>2, <3>1 DEF Queued, InvokedIn
    <3>2. CASE u \in Range(thread_queue)
      BY <1>2, <3>2 DEF Queued, InvokedIn
    <3>3. CASE u \in Range(handling)
      BY <1>2, <1>3, <3>3 DEF HandledMessages
    <3> QED BY <3>1, <3>2, <3>3
  <2>2. InvokedIn(default_queue) \subseteq QueuedMessages
    BY <1>2 DEF InvokedIn, QueuedMessages
  <2>3. InvokedIn(thread_queue) \subseteq QueuedMessages
    BY <1>2 DEF InvokedIn, QueuedMessages
  <2>4. HandledMessages \subseteq QueuedMessages
    BY <1>2, <1>3 DEF HandledMessages, QueuedMessages
  <2> QED BY <2>1, <2>2, <2>3, <2>4 DEF Queued
<1>5. WaitingMessages = Waiting
  <2>1. CASE mq = {}
    <3>1. Range(<<>>) = {}
      <4>1. <<>> \in Seq(Nat) /\ Len(<<>>) = 0 /\ 1 .. 0 = {}
        BY EmptySeq, SMT
      <4> QED BY <4>1, RangeEquality
    <3> QED BY <2>1, <3>1 DEF WaitingMessages, Waiting, Ms, Cs
  <2>2. CASE mq # {}
    <3>1. /\ mq = {TheMq} /\ Ms = TheMq.default_scheduler_messages
          /\ Cs = TheMq.custom_scheduler_messages
      BY <2>2, MqTypes DEF BTypes
    <3> QED BY <3>1 DEF WaitingMessages, Waiting
  <2> QED BY <2>1, <2>2
<1> QED BY <1>4, <1>5

\* A message is taken when a thread is about to execute it or found no entity, ...
LEMMA RecheckTakes ==
    ASSUME BTypes, NEW t \in Threads, Free(t), NEW e \in Entities, NEW m \in Messages,
           Recheck(t, e, m) \/ Pass(t, e, m)
    PROVE  Taken' = Taken \cup {m}
<1>1. Taken' = Range(ExecutedMessages') \cup dropped' \cup HandledMessages'
  BY DEF Taken
<1> QED BY <1>1, RecheckHandles DEF Taken

\* ... it stays so when it is executed, ...
LEMMA ExecuteTakes ==
    ASSUME BTypes, NEW t \in Threads, Execute(t), UNCHANGED wire_scheduler
    PROVE  Taken' = Taken
<1> DEFINE m == handling[t].message
<1>1. /\ Range(ExecutedMessages') = Range(ExecutedMessages) \cup {m}
      /\ HandledMessages' \cup {m} = HandledMessages
  BY ExecuteAdds
<1>2. Taken' = Range(ExecutedMessages') \cup dropped' \cup HandledMessages' /\ dropped' = dropped
  BY DEF Taken, Execute
<1> HIDE DEF m
<1> QED BY <1>1, <1>2 DEF Taken

\* ... and while nothing is executed.
LEMMA SameTaken ==
    ASSUME UNCHANGED <<handling, log>>
    PROVE  Taken' = Taken
BY DEF Taken, HandledMessages, Free, ExecutedMessages, log

\* One that is invoked is queued, or taken at once.
LEMMA InvokedTakes ==
    ASSUME BTypes, NEW t \in Threads, Free(t), NEW e \in Entities, NEW m \in Messages,
           NEW q \in Seq(AnyTask), Invoked(t, e, m, q)
    PROVE  Taken' \cup Queued' = Taken \cup InvokedIn(q) \cup InvokedIn(thread_queue) \cup {m}
<1>1. /\ Invoke(e, m) \in AnyTask /\ Invoke(e, m).type = "invoke" /\ Invoke(e, m).message = m
      /\ thread_queue \in Seq(AnyTask)
  <2>1. Invoke(e, m) \in Task /\ Task \subseteq AnyTask
    BY DEF Task, AnyTask, Invoke
  <2> QED BY <2>1, SeqMonotonic DEF BTypes, Invoke
<1>2. Queued' = InvokedIn(default_queue') \cup InvokedIn(thread_queue')
  BY DEF Queued
<1>3. CASE wire_scheduler = "default"
  <2>1. default_queue' = Append(q, Invoke(e, m)) /\ UNCHANGED <<thread_queue, handling, log>>
    BY <1>3 DEF Invoked
  <2>2. InvokedIn(Append(q, Invoke(e, m))) = InvokedIn(q) \cup {m}
    BY <1>1, InvokedAppend
  <2> QED BY <1>2, <2>1, <2>2, SameTaken
<1>4. CASE wire_scheduler = "thread"
  <2>1. /\ default_queue' = q /\ thread_queue' = Append(thread_queue, Invoke(e, m))
        /\ UNCHANGED <<handling, log>>
    BY <1>4 DEF Invoked
  <2>2. InvokedIn(Append(thread_queue, Invoke(e, m))) = InvokedIn(thread_queue) \cup {m}
    BY <1>1, InvokedAppend
  <2> QED BY <1>2, <2>1, <2>2, SameTaken
<1>5. CASE wire_scheduler \notin {"default", "thread"}
  <2>1. default_queue' = q /\ UNCHANGED thread_queue /\ Recheck(t, e, m)
    BY <1>5 DEF Invoked
  <2> QED BY <1>2, <2>1, RecheckTakes
<1> QED BY <1>3, <1>4, <1>5

AllCurrent(q, n) == \A i \in 1 .. Len(q) : q[i].type = "deferred" => q[i].mq = n

\* As long as no message comes between the unlocked empty() and the end of the
\* flush, no deferred action is left behind by its Mq and no message by the rest.
UndisturbedInv ==
    /\ AllCurrent(default_queue, CurrentMq)
    /\ action.step = "empty" => Ms = <<>>
    /\ action.step = "flush" => mq = {}
    /\ 1 .. dispatched = Taken \cup Queued \cup Waiting

\* All deferred actions are for the present Mq, with one more ...
LEMMA AllCurrentAppend ==
    ASSUME NEW q \in Seq(AnyTask), NEW n, AllCurrent(q, n),
           NEW t \in AnyTask, t.type = "deferred" => t.mq = n
    PROVE  AllCurrent(Append(q, t), n)
<1> DEFINE r == Append(q, t)
<1>1. /\ \A i \in 1 .. Len(q) : r[i] = q[i]
      /\ r[Len(q) + 1] = t
      /\ \A i \in 1 .. Len(r) : i \in 1 .. Len(q) \/ i = Len(q) + 1
  BY AppendIndices
<1> HIDE DEF r
<1>2. AllCurrent(r, n)
  BY <1>1 DEF AllCurrent
<1> QED BY <1>2 DEF r

\* ... and with one less.
LEMMA AllCurrentTail ==
    ASSUME NEW S, NEW q \in Seq(S), q # <<>>, NEW n, AllCurrent(q, n)
    PROVE  AllCurrent(Tail(q), n)
<1>1. \A i \in 1 .. Len(Tail(q)) : i + 1 \in 1 .. Len(q) /\ Tail(q)[i] = q[i + 1]
  BY TailIndices
<1> QED BY <1>1 DEF AllCurrent

\* What is done next with messages.
LEMMA NextInterval == ASSUME NEW d \in Nat PROVE 1 .. d + 1 = (1 .. d) \cup {d + 1}
OBVIOUS

\* A deferred action is for the current Mq or for one that has been erased: an Mq
\* is empty only when all deferred actions for it have been taken.
LEMMA NoneCurrent ==
    ASSUME CoreInv, Ms = <<>>, AllCurrent(default_queue, CurrentMq)
    PROVE  \A i \in 1 .. Len(default_queue) : default_queue[i].type # "deferred"
<1>1. /\ Len(default_queue) \in Nat /\ Len(<<>>) = 0 /\ Range(<<>>) = {}
  <2>1. <<>> \in Seq(Nat) /\ Len(<<>>) = 0 /\ 1 .. 0 = {} /\ Len(default_queue) \in Nat
    BY EmptySeq, QueueLengths, SMT DEF CoreInv
  <2> QED BY <2>1, RangeEquality
<1>2. CASE wire_scheduler = "default"
  <2>1. InArrivalOrder(default_queue, <<>>, CurrentMq, dispatched)
    BY <1>2 DEF CoreInv, QueueInv, DefaultInv
  <2> QED BY <1>1, <2>1 DEF InArrivalOrder, AllCurrent
<1>3. CASE wire_scheduler # "default"
  <2>1. OnlyDeferred(default_queue, <<>>, CurrentMq)
    BY <1>3 DEF CoreInv, QueueInv
  <2>2. \A i \in 1 .. Len(default_queue) : ~(i > Len(default_queue) - 0)
    BY <1>1, SMT
  <2> QED BY <1>1, <2>1, <2>2 DEF OnlyDeferred, AllCurrent
<1> QED BY <1>2, <1>3

\* A message without a subscription has its deferred action, ...
LEMMA LaterUndisturbed ==
    ASSUME CoreInv, UndisturbedInv, Dispatch, DispatchLater, action.step \notin {"empty", "flush"}
    PROVE  UndisturbedInv'
<1>1. /\ BTypes /\ dispatched < MaxMessages /\ dispatched' = dispatched + 1
      /\ UNCHANGED <<action, handling>>
      /\ default_queue' = Append(default_queue, Deferred(mqs')) /\ UNCHANGED <<thread_queue, log>>
  BY DEF CoreInv, Dispatch, DispatchLater
<1>2. /\ mq' # {} /\ mqs' \in {mqs, mqs + 1} /\ (mq # {} => mqs' = mqs)
      /\ Ms' = Append(Ms, dispatched + 1) /\ Cs' = Cs
  BY <1>1, LaterMq
<1>3. CurrentMq' = mqs' /\ mqs' \in Nat /\ dispatched + 1 \in Nat /\ dispatched \in Nat
  BY <1>1, <1>2, SMT DEF CurrentMq, BTypes
<1>4. /\ Deferred(mqs') \in AnyTask /\ Deferred(mqs').type = "deferred" /\ Deferred(mqs').mq = mqs'
      /\ default_queue \in Seq(AnyTask)
  BY <1>1, <1>3, CoreTypes DEF AnyTask, Deferred
<1>5. AllCurrent(default_queue', CurrentMq')
  <2>1. AllCurrent(default_queue, mqs')
    <3>1. CASE mq # {}
      BY <1>2, <3>1 DEF UndisturbedInv, CurrentMq
    <3>2. CASE mq = {}
      BY <3>2, NoneCurrent DEF UndisturbedInv, AllCurrent, Ms
    <3> QED BY <3>1, <3>2
  <2>2. AllCurrent(Append(default_queue, Deferred(mqs')), mqs')
    BY <1>4, <2>1, AllCurrentAppend
  <2> QED BY <1>1, <1>3, <2>2
<1>6. Queued' = Queued
  <2>1. InvokedIn(Append(default_queue, Deferred(mqs'))) = InvokedIn(default_queue)
    BY <1>4, InvokedAppend
  <2>2. Queued' = InvokedIn(default_queue') \cup InvokedIn(thread_queue')
    BY DEF Queued
  <2> QED BY <1>1, <2>1, <2>2 DEF Queued
<1>7. Taken' = Taken
  BY <1>1, SameTaken
<1>8. Waiting' = Waiting \cup {dispatched + 1}
  <2>1. Range(Append(Ms, dispatched + 1)) = Range(Ms) \cup {dispatched + 1}
    <3>1. Ms \in Seq(Nat)
      BY <1>1, CoreTypes
    <3> QED BY <1>3, <3>1, RangeOfAppend
  <2>2. Waiting' = Range(action.left) \cup Range(Append(Ms, dispatched + 1)) \cup Range(Cs)
    BY <1>1, <1>2 DEF Waiting
  <2> QED BY <2>1, <2>2 DEF Waiting
<1>9. 1 .. dispatched' = (1 .. dispatched) \cup {dispatched + 1}
  BY <1>1, <1>3, NextInterval
<1>10. 1 .. dispatched' = Taken' \cup Queued' \cup Waiting'
  BY <1>6, <1>7, <1>8, <1>9 DEF UndisturbedInv
<1> QED BY <1>1, <1>5, <1>10 DEF UndisturbedInv

\* ... one that goes to a scheduler at once has its place there, ...
LEMMA NowUndisturbed ==
    ASSUME CoreInv, UndisturbedInv, Dispatch, DispatchNow, action.step \notin {"empty", "flush"}
    PROVE  UndisturbedInv'
<1>1. /\ BTypes /\ dispatched < MaxMessages /\ dispatched' = dispatched + 1
      /\ UNCHANGED <<action, broker>> /\ subscription \in Entities
      /\ Free("wire") /\ "wire" \in Threads
      /\ Invoked("wire", subscription, dispatched + 1, default_queue)
  BY DEF CoreInv, Dispatch, DispatchNow, IsEntity, Threads
<1>2. Ms' = Ms /\ Cs' = Cs /\ CurrentMq' = CurrentMq
  BY <1>1, SameMq DEF CurrentMq
<1>3. dispatched + 1 \in Messages /\ dispatched \in Nat /\ default_queue \in Seq(AnyTask)
  BY <1>1, CoreTypes, MessageBrokerAssumption, SMT DEF Messages
<1>4. AllCurrent(default_queue', CurrentMq')
  <2>1. \/ default_queue' = default_queue
        \/ default_queue' = Append(default_queue, Invoke(subscription, dispatched + 1))
    BY <1>1, <1>3, InvokedTypes
  <2>2. /\ Invoke(subscription, dispatched + 1) \in AnyTask
        /\ Invoke(subscription, dispatched + 1).type # "deferred"
    BY <1>1, <1>3 DEF AnyTask, Task, Invoke
  <2>3. AllCurrent(default_queue, CurrentMq)
    BY DEF UndisturbedInv
  <2>4. AllCurrent(Append(default_queue, Invoke(subscription, dispatched + 1)), CurrentMq)
    BY <1>3, <2>2, <2>3, AllCurrentAppend
  <2> QED BY <1>2, <2>1, <2>3, <2>4
<1>5. Taken' \cup Queued' = Taken \cup Queued \cup {dispatched + 1}
  <2>1. Taken' \cup Queued' = Taken \cup InvokedIn(default_queue) \cup InvokedIn(thread_queue)
                                  \cup {dispatched + 1}
    BY <1>1, <1>3, InvokedTakes
  <2> QED BY <2>1 DEF Queued
<1>6. Waiting' = Waiting
  BY <1>1, <1>2 DEF Waiting
<1>7. 1 .. dispatched' = (1 .. dispatched) \cup {dispatched + 1}
  BY <1>1, <1>3, NextInterval
<1>8. 1 .. dispatched' = Taken' \cup Queued' \cup Waiting'
  BY <1>5, <1>6, <1>7 DEF UndisturbedInv
<1> QED BY <1>1, <1>4, <1>8 DEF UndisturbedInv

\* ... and one behind others waits for the flush.
LEMMA ToMqUndisturbed ==
    ASSUME CoreInv, UndisturbedInv, Dispatch, DispatchToMq, action.step \notin {"empty", "flush"}
    PROVE  UndisturbedInv'
<1>1. /\ BTypes /\ dispatched < MaxMessages /\ dispatched' = dispatched + 1
      /\ UNCHANGED <<action, handling, default_queue, thread_queue, log>>
  BY DEF CoreInv, Dispatch, DispatchToMq
<1>2. Ms' = Ms /\ Cs' = Append(Cs, dispatched + 1) /\ CurrentMq' = CurrentMq
  BY <1>1, ToMqMq DEF CurrentMq
<1>3. dispatched + 1 \in Nat /\ dispatched \in Nat
  BY <1>1, CoreTypes, SMT
<1>4. Taken' = Taken /\ Queued' = Queued
  BY <1>1, SameTaken DEF Queued
<1>5. Waiting' = Waiting \cup {dispatched + 1}
  <2>1. Range(Append(Cs, dispatched + 1)) = Range(Cs) \cup {dispatched + 1}
    <3>1. Cs \in Seq(Nat)
      BY <1>1, CoreTypes
    <3> QED BY <1>3, <3>1, RangeOfAppend
  <2>2. Waiting' = Range(action.left) \cup Range(Ms) \cup Range(Append(Cs, dispatched + 1))
    BY <1>1, <1>2 DEF Waiting
  <2> QED BY <2>1, <2>2 DEF Waiting
<1>6. 1 .. dispatched' = (1 .. dispatched) \cup {dispatched + 1}
  BY <1>1, <1>3, NextInterval
<1>7. 1 .. dispatched' = Taken' \cup Queued' \cup Waiting'
  BY <1>4, <1>5, <1>6 DEF UndisturbedInv
<1> QED BY <1>1, <1>2, <1>7 DEF UndisturbedInv

\* The default scheduler takes a message out of its queue, ...
LEMMA InvokeUndisturbed ==
    ASSUME CoreInv, UndisturbedInv, InvokeOnDefault
    PROVE  UndisturbedInv'
<1>1. /\ BTypes /\ default_queue # <<>> /\ NextTask.type = "invoke"
      /\ default_queue' = Tail(default_queue)
      /\ Recheck("main", NextTask.entity, NextTask.message) /\ Free("main") /\ "main" \in Threads
      /\ UNCHANGED <<broker, thread_queue, action, dispatched>>
  BY DEF CoreInv, InvokeOnDefault, Threads
<1>2. Ms' = Ms /\ Cs' = Cs /\ CurrentMq' = CurrentMq
  BY <1>1, SameMq DEF CurrentMq
<1>3. NextTask.entity \in Entities /\ NextTask.message \in Messages /\ default_queue \in Seq(AnyTask)
  BY <1>1, TakenTask, CoreTypes
<1>4. AllCurrent(default_queue', CurrentMq')
  BY <1>1, <1>2, <1>3, AllCurrentTail DEF UndisturbedInv
<1>5. Taken' = Taken \cup {NextTask.message}
  BY <1>1, <1>3, RecheckTakes
<1>6. Queued = Queued' \cup {NextTask.message}
  <2>1. InvokedIn(default_queue) = {NextTask.message} \cup InvokedIn(Tail(default_queue))
    BY <1>1, <1>3, InvokedTail DEF NextTask
  <2>2. Queued' = InvokedIn(Tail(default_queue)) \cup InvokedIn(thread_queue)
    BY <1>1 DEF Queued
  <2> QED BY <2>1, <2>2 DEF Queued
<1>7. Waiting' = Waiting
  BY <1>1, <1>2 DEF Waiting
<1>8. 1 .. dispatched' = Taken' \cup Queued' \cup Waiting'
  BY <1>1, <1>5, <1>6, <1>7 DEF UndisturbedInv
<1> QED BY <1>1, <1>2, <1>4, <1>8 DEF UndisturbedInv, broker

\* ... or a deferred action one out of the Mq.
LEMMA PopUndisturbed ==
    ASSUME CoreInv, UndisturbedInv, PopMessage
    PROVE  UndisturbedInv'
<1>1. /\ BTypes /\ ActionInv /\ action.step = "read" /\ action.left = <<>> /\ UNCHANGED dispatched
      /\ action' \in {Idle, [action EXCEPT !.step = "handled"]}
      /\ Free("main") /\ "main" \in Threads
  BY DEF CoreInv, ActionInv, PopMessage, Threads
<1>2. /\ Ms # <<>> /\ Head(Ms) \in Messages /\ NextTask.type = "deferred" /\ Ms \in Seq(Nat)
      /\ default_queue \in Seq(AnyTask) /\ default_queue # <<>>
  BY <1>1, MessageIsThere, CoreTypes DEF CoreInv
<1>3. /\ mq # {} /\ mq' # {} /\ mqs' = mqs /\ Ms' = Tail(Ms) /\ Cs' = Cs
      /\ Handle(action.subscription, Head(Ms))
  BY <1>1, <1>2, PopMq
<1>4. CurrentMq' = CurrentMq
  BY <1>3 DEF CurrentMq
<1>5. Tail(default_queue) \in Seq(AnyTask) /\ AllCurrent(Tail(default_queue), CurrentMq)
  BY <1>1, <1>2, TakenTask, AllCurrentTail DEF UndisturbedInv
<1>6. InvokedIn(default_queue) = InvokedIn(Tail(default_queue))
  BY <1>2, InvokedTail DEF NextTask
<1>7. default_queue' = Tail(default_queue)
  BY <1>3 DEF Handle, Invoked, Throws
<1>8. Taken' \cup Queued' = Taken \cup Queued \cup {Head(Ms)}
  <2>1. Queued' = InvokedIn(Tail(default_queue)) \cup InvokedIn(thread_queue')
    BY <1>7 DEF Queued
  <2>2. CASE IsEntity(action.subscription) /\ wire_scheduler # "default"
    <3>1. /\ Invoked("main", action.subscription, Head(Ms), Tail(default_queue))
          /\ action.subscription \in Entities
      BY <1>3, <2>2 DEF Handle, Throws, IsEntity
    <3>2. Taken' \cup Queued' = Taken \cup InvokedIn(Tail(default_queue)) \cup InvokedIn(thread_queue)
                                    \cup {Head(Ms)}
      BY <1>1, <1>2, <1>5, <3>1, InvokedTakes
    <3> QED BY <1>6, <3>2 DEF Queued
  <2>3. CASE IsEntity(action.subscription) /\ ~Throws(action.subscription) /\ wire_scheduler = "default"
    <3>1. /\ Pass("main", action.subscription, Head(Ms)) /\ UNCHANGED thread_queue
          /\ action.subscription \in Entities
      BY <1>3, <2>3 DEF Handle, IsEntity
    <3>2. Taken' = Taken \cup {Head(Ms)}
      BY <1>1, <1>2, <3>1, RecheckTakes
    <3> QED BY <1>6, <2>1, <3>1, <3>2 DEF Queued
  <2>4. CASE ~IsEntity(action.subscription) \/ Throws(action.subscription)
    <3>1. UNCHANGED <<thread_queue, handling, executed>> /\ dropped' = dropped \cup {Head(Ms)}
      BY <1>3, <2>4 DEF Handle, Drop
    <3>2. ExecutedMessages' = ExecutedMessages /\ HandledMessages' = HandledMessages
      BY <3>1 DEF ExecutedMessages, HandledMessages, Free
    <3>3. Taken' = Range(ExecutedMessages') \cup dropped' \cup HandledMessages'
      BY DEF Taken
    <3>4. Taken' = Taken \cup {Head(Ms)}
      BY <3>1, <3>2, <3>3 DEF Taken
    <3> QED BY <1>6, <2>1, <3>1, <3>4 DEF Queued
  <2> QED BY <2>2, <2>3, <2>4
<1>9. action'.left = <<>> /\ action'.step \in {"idle", "handled"}
  BY <1>1 DEF Idle, BTypes
<1>10. Waiting = Waiting' \cup {Head(Ms)}
  <2>1. Range(Ms) = {Head(Ms)} \cup Range(Tail(Ms))
    BY <1>2, RangeOfTail
  <2>2. Waiting' = Range(action'.left) \cup Range(Tail(Ms)) \cup Range(Cs)
    BY <1>3 DEF Waiting
  <2> QED BY <1>1, <1>9, <2>1, <2>2 DEF Waiting
<1>11. 1 .. dispatched' = Taken' \cup Queued' \cup Waiting'
  BY <1>1, <1>8, <1>10 DEF UndisturbedInv
<1> QED BY <1>4, <1>5, <1>7, <1>9, <1>11 DEF UndisturbedInv

\* The flush moves the rest.
LEMMA FlushUndisturbedStep ==
    ASSUME CoreInv, UndisturbedInv, Flush
    PROVE  UndisturbedInv'
<1>1. /\ BTypes /\ action.step = "flush" /\ action.left \in Seq(Messages) /\ action.left # <<>>
      /\ action.subscription \in Entities /\ Free("main") /\ "main" \in Threads
      /\ Invoked("main", action.subscription, Head(action.left), default_queue)
      /\ action' = [action EXCEPT !.left = Tail(@)]
      /\ UNCHANGED <<broker, dispatched>>
  BY DEF CoreInv, BTypes, Flush, IsEntity, Threads
<1>2. action'.left = Tail(action.left) /\ action'.step = "flush"
  BY <1>1 DEF BTypes
<1>3. Ms' = Ms /\ Cs' = Cs /\ CurrentMq' = CurrentMq /\ mq' = mq
  BY <1>1, SameMq DEF CurrentMq
<1>4. /\ Head(action.left) \in Messages /\ Tail(action.left) \in Seq(Messages)
      /\ default_queue \in Seq(AnyTask)
      /\ Range(action.left) = {Head(action.left)} \cup Range(Tail(action.left))
  BY <1>1, HeadTailProperties, RangeOfTail, CoreTypes
<1>5. AllCurrent(default_queue', CurrentMq')
  <2>1. \/ default_queue' = default_queue
        \/ default_queue' = Append(default_queue, Invoke(action.subscription, Head(action.left)))
    BY <1>1, <1>4, InvokedTypes
  <2>2. /\ Invoke(action.subscription, Head(action.left)) \in AnyTask
        /\ Invoke(action.subscription, Head(action.left)).type # "deferred"
    BY <1>1, <1>4 DEF AnyTask, Task, Invoke
  <2>3. AllCurrent(default_queue, CurrentMq)
    BY DEF UndisturbedInv
  <2>4. AllCurrent(Append(default_queue, Invoke(action.subscription, Head(action.left))), CurrentMq)
    BY <1>4, <2>2, <2>3, AllCurrentAppend
  <2> QED BY <1>3, <2>1, <2>3, <2>4
<1>6. Taken' \cup Queued' = Taken \cup Queued \cup {Head(action.left)}
  <2>1. Taken' \cup Queued' = Taken \cup InvokedIn(default_queue) \cup InvokedIn(thread_queue)
                                  \cup {Head(action.left)}
    BY <1>1, <1>4, InvokedTakes
  <2> QED BY <2>1 DEF Queued
<1>7. Waiting = Waiting' \cup {Head(action.left)}
  <2>1. Waiting' = Range(Tail(action.left)) \cup Range(Ms) \cup Range(Cs)
    BY <1>2, <1>3 DEF Waiting
  <2> QED BY <1>4, <2>1 DEF Waiting
<1>8. 1 .. dispatched' = Taken' \cup Queued' \cup Waiting'
  BY <1>1, <1>6, <1>7 DEF UndisturbedInv
<1> QED BY <1>1, <1>2, <1>3, <1>5, <1>8 DEF UndisturbedInv

\* After the test of empty() there is nothing left but what the flush will move.
LEMMA EmptyCheckUndisturbed ==
    ASSUME CoreInv, UndisturbedInv, EmptyCheck
    PROVE  UndisturbedInv'
<1>1. /\ BTypes /\ action.step = "handled" /\ mq # {} /\ action.left = <<>>
      /\ UNCHANGED <<broker, default_queue, thread_queue, handling, dispatched, log>>
      /\ action' = IF TheMq.default_scheduler_messages = <<>>
                   THEN [action EXCEPT !.step = "empty"] ELSE Idle
  BY DEF CoreInv, ActionInv, EmptyCheck, BTypes
<1>2. Ms' = Ms /\ Cs' = Cs /\ CurrentMq' = CurrentMq /\ mq' = mq
  BY <1>1, SameMq DEF CurrentMq
<1>3. Ms = TheMq.default_scheduler_messages
  BY <1>1, MqTypes DEF BTypes
<1>4. /\ action'.left = <<>> /\ action'.step \in {"idle", "empty"}
      /\ action'.step = "empty" => Ms = <<>>
  BY <1>1, <1>3 DEF BTypes, Idle
<1>5. Waiting' = Waiting
  BY <1>1, <1>2, <1>4 DEF Waiting
<1>6. Taken' = Taken /\ Queued' = Queued
  BY <1>1, SameTaken DEF Queued
<1> QED BY <1>1, <1>2, <1>4, <1>5, <1>6 DEF UndisturbedInv

\* An Mq is erased with no message in it.
LEMMA EraseUndisturbed ==
    ASSUME CoreInv, UndisturbedInv, EraseMq
    PROVE  UndisturbedInv'
<1>1. /\ BTypes /\ action.step = "empty" /\ mq # {} /\ action.left = <<>> /\ Ms = <<>>
      /\ UNCHANGED <<default_queue, thread_queue, handling, dispatched, log>>
  BY DEF CoreInv, ActionInv, EraseMq, BTypes, UndisturbedInv
<1>2. /\ mq' = {} /\ Ms' = <<>> /\ Cs' = <<>>
      /\ action' = [action EXCEPT !.step = "flush", !.left = Cs]
  BY <1>1, EraseMqMq
<1>3. action'.left = Cs /\ action'.step = "flush"
  BY <1>1, <1>2 DEF BTypes
<1>4. AllCurrent(default_queue', CurrentMq')
  BY <1>1, NoneCurrent DEF UndisturbedInv, AllCurrent
<1>5. Waiting' = Waiting
  BY <1>1, <1>2, <1>3 DEF Waiting
<1>6. Taken' = Taken /\ Queued' = Queued
  BY <1>1, SameTaken DEF Queued
<1> QED BY <1>1, <1>2, <1>3, <1>4, <1>5, <1>6 DEF UndisturbedInv

\* The other scheduler takes a message out of its queue.
LEMMA ThreadUndisturbed ==
    ASSUME CoreInv, UndisturbedInv, ThreadCheck
    PROVE  UndisturbedInv'
<1> DEFINE task == Head(thread_queue)
<1>1. /\ BTypes /\ UNCHANGED <<broker, default_queue, action, dispatched>>
      /\ thread_queue \in Seq(Task) /\ thread_queue # <<>> /\ thread_queue' = Tail(thread_queue)
      /\ Recheck("worker", task.entity, task.message) /\ Free("worker") /\ "worker" \in Threads
  BY DEF CoreInv, BTypes, ThreadCheck, Threads
<1>2. Ms' = Ms /\ Cs' = Cs /\ CurrentMq' = CurrentMq /\ mq' = mq
  BY <1>1, SameMq DEF CurrentMq
<1>3. Waiting' = Waiting
  BY <1>1, <1>2 DEF Waiting
<1>4. task.type = "invoke" /\ task.entity \in Entities /\ task.message \in Messages
  <2>1. task \in Task
    BY <1>1, HeadTailProperties
  <2> QED BY <2>1 DEF Task
<1>5. Taken' = Taken \cup {task.message}
  BY <1>1, <1>4, RecheckTakes
<1>6. InvokedIn(thread_queue) = {task.message} \cup InvokedIn(Tail(thread_queue))
  BY <1>1, <1>4, InvokedTail
<1>7. Queued' = InvokedIn(default_queue) \cup InvokedIn(Tail(thread_queue))
  BY <1>1 DEF Queued
<1> HIDE DEF task
<1>8. Taken' \cup Queued' = Taken \cup Queued
  BY <1>5, <1>6, <1>7 DEF Queued
<1>9. 1 .. dispatched' = Taken' \cup Queued' \cup Waiting'
  BY <1>1, <1>3, <1>8 DEF UndisturbedInv
<1> QED BY <1>1, <1>2, <1>9 DEF UndisturbedInv

\* A thread executes what it has taken.
LEMMA ExecuteUndisturbed ==
    ASSUME CoreInv, UndisturbedInv, NEW t \in Threads, Execute(t), UNCHANGED wire_scheduler
    PROVE  UndisturbedInv'
<1>1. BTypes /\ UNCHANGED <<broker, default_queue, thread_queue, action, dispatched>>
  BY DEF CoreInv, Execute
<1>2. Ms' = Ms /\ Cs' = Cs /\ CurrentMq' = CurrentMq /\ mq' = mq
  BY <1>1, SameMq DEF CurrentMq
<1>3. Waiting' = Waiting /\ Queued' = Queued
  BY <1>1, <1>2 DEF Waiting, Queued
<1>4. Taken' = Taken
  BY <1>1, ExecuteTakes
<1> QED BY <1>1, <1>2, <1>3, <1>4 DEF UndisturbedInv

\* All other steps leave the messages where they are.
LEMMA OtherUndisturbed ==
    ASSUME CoreInv, UndisturbedInv,
           \/ ReadSubscription \/ DanglingIterator \/ NullDereference \/ FlushEnd
           \/ \E e \in Entities : AdviseOn(e) \/ Terminate(e) \/ Unbind(e)
           \/ UNCHANGED vars
    PROVE  UndisturbedInv'
<1>1. /\ UNCHANGED <<broker, default_queue, thread_queue, handling, dispatched, log>>
      /\ \/ action' = action
         \/ action.left = <<>> /\ action'.left = <<>> /\ action'.step \in {"idle", "read"}
  BY DEF ReadSubscription, DanglingIterator, NullDereference, FlushEnd, AdviseOn, Terminate, Unbind,
     vars, tasks, Idle
<1>2. Ms' = Ms /\ Cs' = Cs /\ CurrentMq' = CurrentMq /\ mq' = mq
  BY <1>1, SameMq DEF CurrentMq
<1>3. /\ action'.left = action.left
      /\ action'.step = action.step \/ action'.step \in {"idle", "read"}
  BY <1>1
<1>4. Waiting' = Waiting
  BY <1>2, <1>3 DEF Waiting
<1>5. Taken' = Taken /\ Queued' = Queued
  BY <1>1, SameTaken DEF Queued
<1> QED BY <1>1, <1>2, <1>3, <1>4, <1>5 DEF UndisturbedInv

\* While undisturbed, every message stays in one of its places.
LEMMA UndisturbedStep ==
    ASSUME CoreInv, UndisturbedInv, [Next]_vars, FlushUndisturbed
    PROVE  UndisturbedInv'
<1>1. CASE Dispatch
  <2>1. action.step \notin {"empty", "flush"}
    <3>1. dispatched' = dispatched + 1 /\ dispatched \in Nat
      BY <1>1 DEF Dispatch, CoreInv, BTypes
    <3>2. dispatched' # dispatched
      BY <3>1, SMT
    <3> QED BY <3>2 DEF FlushUndisturbed
  <2> QED BY <1>1, <2>1, LaterUndisturbed, NowUndisturbed, ToMqUndisturbed DEF Dispatch
<1>2. CASE InvokeOnDefault
  BY <1>2, InvokeUndisturbed
<1>3. CASE PopMessage
  BY <1>3, PopUndisturbed
<1>4. CASE EmptyCheck
  BY <1>4, EmptyCheckUndisturbed
<1>5. CASE EraseMq
  BY <1>5, EraseUndisturbed
<1>6. CASE Flush
  BY <1>6, FlushUndisturbedStep
<1>7. CASE ThreadCheck
  BY <1>7, ThreadUndisturbed
<1>8. ASSUME NEW t \in Threads, Execute(t), UNCHANGED wire_scheduler PROVE UndisturbedInv'
  BY <1>8, ExecuteUndisturbed
<1> QED BY <1>1, <1>2, <1>3, <1>4, <1>5, <1>6, <1>7, <1>8, OtherUndisturbed
        DEF Next, DefaultStep, ThreadStep, Threads

-----------------------------------------------------------------------------
(* Messages overtake none under the other schedulers *)

Before(A, B) == \A a \in A, b \in B : a < b

\* The places that a message passes, in this order: the Mq's two queues, the flush,
\* the queue of the other scheduler, its thread, the entity.
Staged(E, H, T, L, M, C, d) ==
    /\ \A m \in E \cup H \cup T \cup L \cup M \cup C : m \in Nat /\ m <= d
    /\ Before(E, H \cup T \cup L \cup M \cup C)
    /\ Before(H, T \cup L \cup M \cup C)
    /\ Before(T, L \cup M \cup C)
    /\ Before(L, M \cup C)
    /\ Before(M, C)

MessagesOf(q) == [i \in 1 .. Len(q) |-> q[i].message]

\* At most one thread has something to execute.
OneBusy == \A t, u \in Threads : Free(t) \/ Free(u) \/ t = u

Sorted ==
    /\ Staged(Range(ExecutedMessages), HandledMessages, Range(MessagesOf(thread_queue)),
              Range(action.left), Range(Ms), Range(Cs), dispatched)
    /\ Increasing(ExecutedMessages) /\ Increasing(MessagesOf(thread_queue))
    /\ Increasing(action.left) /\ Increasing(Ms) /\ Increasing(Cs)
    /\ OneBusy

\* As long as, moreover, entities outlive the deferred actions of their id, the
\* subscription that a deferred action read is still there, and messages that wait
\* for a flush have an entity to be invoked for.
KeptInv ==
    /\ Cs # <<>> => IsEntity(subscription)
    /\ action.left # <<>> => IsEntity(action.subscription)
    /\ action.step \in {"read", "handled", "empty"} =>
          action.subscription = subscription /\ subscription # Missing
    /\ wire_scheduler \in {"thread", "synchronous"} => Sorted

\* A message that arrives is the newest of its stage, ...
LEMMA Arrives ==
    ASSUME NEW E, NEW H, NEW T, NEW L, NEW M, NEW C, NEW d \in Nat, Staged(E, H, T, L, M, C, d)
    PROVE  /\ C = {} => Staged(E, H, T, L, M \cup {d + 1}, C, d + 1)
           /\ L = {} /\ M = {} /\ C = {} => Staged(E, H, T \cup {d + 1}, L, M, C, d + 1)
           /\ Staged(E, H, T, L, M, C \cup {d + 1}, d + 1)
           /\ \A m \in E \cup H \cup T \cup L \cup M \cup C : m < d + 1
<1>1. \A m \in E \cup H \cup T \cup L \cup M \cup C : m \in Nat /\ m < d + 1 /\ m <= d + 1
  BY SMT DEF Staged
<1>2. d + 1 \in Nat /\ d + 1 <= d + 1
  BY SMT
<1> QED BY <1>1, <1>2, SMT DEF Staged, Before

\* ... the oldest of a stage may move on to the next, ...
LEMMA MovesOn ==
    ASSUME NEW E, NEW H, NEW T, NEW L, NEW M, NEW C, NEW d, Staged(E, H, T, L, M, C, d),
           NEW m, NEW R, \A r \in R : m < r
    PROVE  /\ L = {} /\ M = {m} \cup R => Staged(E, H, T \cup {m}, L, R, C, d)
           /\ M = {m} \cup R => Staged(E, H, T, L, R, C, d)
           /\ L = {m} \cup R => Staged(E, H, T \cup {m}, R, M, C, d)
           /\ H = {} /\ T = {m} \cup R => Staged(E, {m}, R, L, M, C, d)
           /\ T = {m} \cup R => Staged(E, H, R, L, M, C, d)
<1>1. L = {} /\ M = {m} \cup R => Staged(E, H, T \cup {m}, L, R, C, d)
  BY SMT DEF Staged, Before
<1>2. M = {m} \cup R => Staged(E, H, T, L, R, C, d)
  BY SMT DEF Staged, Before
<1>3. L = {m} \cup R => Staged(E, H, T \cup {m}, R, M, C, d)
  BY SMT DEF Staged, Before
<1>4. H = {} /\ T = {m} \cup R => Staged(E, {m}, R, L, M, C, d)
  BY SMT DEF Staged, Before
<1>5. T = {m} \cup R => Staged(E, H, R, L, M, C, d)
  BY SMT DEF Staged, Before
<1> QED BY <1>1, <1>2, <1>3, <1>4, <1>5

\* ... and so may a whole stage.
LEMMA MoveOn ==
    ASSUME NEW E, NEW H, NEW T, NEW L, NEW M, NEW C, NEW d, Staged(E, H, T, L, M, C, d)
    PROVE  /\ H = {} => Staged(E \cup T, {}, {}, L, M, C, d) /\ Staged(E, {}, {}, L, M, C, d)
           /\ L = {} /\ M = {} => Staged(E, H, T, C, {}, {}, d)
           /\ Staged(E \cup H, {}, T, L, M, C, d)
<1>1. H = {} => Staged(E \cup T, {}, {}, L, M, C, d) /\ Staged(E, {}, {}, L, M, C, d)
  BY SMT DEF Staged, Before
<1>2. L = {} /\ M = {} => Staged(E, H, T, C, {}, {}, d)
  BY SMT DEF Staged, Before
<1>3. Staged(E \cup H, {}, T, L, M, C, d)
  BY SMT DEF Staged, Before
<1> QED BY <1>1, <1>2, <1>3

\* The messages of a queue of invocations.
LEMMA MessagesAppend ==
    ASSUME NEW q \in Seq(Task), NEW t \in Task
    PROVE  /\ MessagesOf(q) \in Seq(Nat)
           /\ MessagesOf(Append(q, t)) = Append(MessagesOf(q), t.message)
           /\ Range(MessagesOf(Append(q, t))) = Range(MessagesOf(q)) \cup {t.message}
<1> DEFINE r == Append(q, t)
           s == MessagesOf(q)
           u == Append(s, t.message)
<1>1. /\ Len(q) \in Nat /\ Len(r) = Len(q) + 1
      /\ \A i \in 1 .. Len(q) : r[i] = q[i] /\ q[i] \in Task
      /\ r[Len(q) + 1] = t
      /\ \A i \in 1 .. Len(r) : i \in 1 .. Len(q) \/ i = Len(q) + 1
  BY AppendIndices, ElementOfSeq
<1>2. t.message \in Nat /\ \A i \in 1 .. Len(q) : q[i].message \in Nat
  BY <1>1, SMT DEF Task, Messages
<1>3. s \in Seq(Nat) /\ Len(s) = Len(q)
  <2>1. s \in [1 .. Len(q) -> Nat]
    BY <1>2 DEF MessagesOf
  <2> QED BY <1>1, <2>1, IsASeq, LenProperties
<1>4. \A i \in 1 .. Len(q) : s[i] = q[i].message
  BY DEF MessagesOf
<1> HIDE DEF r, s
<1>5. /\ u \in Seq(Nat) /\ Len(u) = Len(q) + 1 /\ \A i \in 1 .. Len(q) : u[i] = s[i]
      /\ u[Len(q) + 1] = t.message
  BY <1>2, <1>3, AppendIndices
<1>6. \A i \in 1 .. Len(r) : r[i].message = u[i]
  BY <1>1, <1>4, <1>5
<1> HIDE DEF u
<1>7. u = [i \in 1 .. Len(r) |-> u[i]]
  BY <1>1, <1>5, LenProperties
<1>8. MessagesOf(r) = u
  BY <1>6, <1>7 DEF MessagesOf
<1>9. Range(u) = Range(s) \cup {t.message}
  BY <1>2, <1>3, RangeOfAppend DEF u
<1> QED BY <1>3, <1>8, <1>9 DEF r, s, u

\* The messages of a queue without its first task.
LEMMA MessagesTail ==
    ASSUME NEW q \in Seq(Task), q # <<>>, Increasing(MessagesOf(q))
    PROVE  /\ Increasing(MessagesOf(Tail(q))) /\ Head(q).message \in Nat
           /\ Range(MessagesOf(q)) = {Head(q).message} \cup Range(MessagesOf(Tail(q)))
           /\ \A m \in Range(MessagesOf(Tail(q))) : Head(q).message < m
<1> DEFINE r == Tail(q)
           s == MessagesOf(q)
           u == Tail(s)
<1>1. /\ Len(q) \in Nat /\ 1 \in 1 .. Len(q) /\ Head(q) = q[1] /\ Len(r) = Len(q) - 1
      /\ \A i \in 1 .. Len(r) : i + 1 \in 1 .. Len(q) /\ r[i] = q[i + 1]
      /\ \A i \in 1 .. Len(q) : q[i] \in Task
  BY TailIndices, ElementOfSeq
<1>2. \A i \in 1 .. Len(q) : q[i].message \in Nat
  BY <1>1, SMT DEF Task, Messages
<1>3. s \in Seq(Nat) /\ Len(s) = Len(q) /\ s # <<>>
  <2>1. s \in [1 .. Len(q) -> Nat]
    BY <1>2 DEF MessagesOf
  <2>2. s \in Seq(Nat) /\ Len(s) = Len(q)
    BY <1>1, <2>1, IsASeq, LenProperties
  <2>3. Len(s) # 0
    BY <1>1, <2>2, SMT
  <2> QED BY <2>2, <2>3, EmptySeq
<1>4. \A i \in 1 .. Len(q) : s[i] = q[i].message
  BY DEF MessagesOf
<1>5. Increasing(s)
  OBVIOUS
<1> HIDE DEF r, s
<1>6. /\ u \in Seq(Nat) /\ Len(u) = Len(q) - 1 /\ \A i \in 1 .. Len(u) : u[i] = s[i + 1]
      /\ Head(s) = s[1]
  BY <1>3, TailIndices
<1>7. /\ Increasing(u) /\ Head(s) \in Nat /\ Range(s) = {Head(s)} \cup Range(u)
      /\ \A m \in Range(u) : Head(s) < m
  BY <1>3, <1>5, IncreasingTail
<1>8. \A i \in 1 .. Len(r) : r[i].message = u[i]
  BY <1>1, <1>4, <1>6
<1> HIDE DEF u
<1>9. u = [i \in 1 .. Len(r) |-> u[i]]
  BY <1>1, <1>6, LenProperties
<1>10. MessagesOf(r) = u
  BY <1>8, <1>9 DEF MessagesOf
<1>11. Head(s) = Head(q).message
  BY <1>1, <1>4, <1>6
<1> QED BY <1>7, <1>10, <1>11 DEF r, s

\* An empty queue has no messages.
LEMMA NoMessages == Range(<<>>) = {} /\ Range(MessagesOf(<<>>)) = {} /\ Increasing(<<>>)
<1>1. <<>> \in Seq(Nat) /\ Len(<<>>) = 0 /\ 1 .. 0 = {}
  BY EmptySeq, SMT
<1>2. MessagesOf(<<>>) = <<>>
  <2>1. MessagesOf(<<>>) \in [1 .. 0 -> Nat]
    BY <1>1 DEF MessagesOf
  <2>2. MessagesOf(<<>>) \in Seq(Nat) /\ Len(MessagesOf(<<>>)) = 0
    BY <2>1, IsASeq, LenProperties
  <2> QED BY <2>2, EmptySeq
<1> QED BY <1>1, <1>2, RangeEquality DEF Increasing

\* What is invoked after all that was invoked before keeps the order.
LEMMA InvokedSorted ==
    ASSUME BTypes, HandlersInv, wire_scheduler \in {"thread", "synchronous"},
           NEW t \in Threads, wire_scheduler = "synchronous" => \A u \in Threads : Free(u),
           NEW e \in Entities, NEW m \in Messages, NEW q, Invoked(t, e, m, q), OneBusy,
           Increasing(ExecutedMessages), Increasing(MessagesOf(thread_queue)),
           \A x \in Range(MessagesOf(thread_queue)) : x < m,
           NEW L, NEW M, NEW C, NEW d,
           Staged(Range(ExecutedMessages), HandledMessages, Range(MessagesOf(thread_queue)) \cup {m},
                  L, M, C, d)
    PROVE  /\ Staged(Range(ExecutedMessages'), HandledMessages', Range(MessagesOf(thread_queue')),
                     L, M, C, d)
           /\ Increasing(ExecutedMessages') /\ Increasing(MessagesOf(thread_queue')) /\ OneBusy'
<1>1. thread_queue \in Seq(Task) /\ m \in Nat
  BY CoreTypes DEF BTypes
<1>2. CASE wire_scheduler = "thread"
  <2>1. thread_queue' = Append(thread_queue, Invoke(e, m)) /\ UNCHANGED <<handling, log>>
    BY <1>2 DEF Invoked
  <2>2. Invoke(e, m) \in Task /\ Invoke(e, m).message = m
    BY DEF Task, Invoke
  <2>3. /\ MessagesOf(thread_queue) \in Seq(Nat)
        /\ MessagesOf(thread_queue') = Append(MessagesOf(thread_queue), m)
        /\ Range(MessagesOf(thread_queue')) = Range(MessagesOf(thread_queue)) \cup {m}
    BY <1>1, <2>1, <2>2, MessagesAppend
  <2>4. Increasing(MessagesOf(thread_queue'))
    BY <1>1, <2>3, IncreasingAppend
  <2>5. ExecutedMessages' = ExecutedMessages /\ HandledMessages' = HandledMessages /\ OneBusy'
    BY <2>1 DEF log, ExecutedMessages, HandledMessages, Free, OneBusy
  <2> QED BY <2>3, <2>4, <2>5
<1>3. CASE wire_scheduler = "synchronous"
  <2>1. UNCHANGED thread_queue /\ Recheck(t, e, m) /\ thread_queue = <<>> /\ Free(t)
    BY <1>3 DEF Invoked, HandlersInv
  <2>2. HandledMessages = {} /\ Range(MessagesOf(thread_queue)) = {}
    BY <1>3, <2>1, NoMessages, NothingHandled
  <2>3. /\ ExecutedMessages' = ExecutedMessages /\ HandledMessages' \in {{}, {m}}
        /\ \A u \in Threads \ {t} : Free(u)' <=> Free(u)
    BY <2>1, <2>2, RecheckHandles DEF Free
  <2>4. OneBusy'
    BY <1>3, <2>3 DEF OneBusy
  <2>5. /\ Staged(Range(ExecutedMessages), {m}, {}, L, M, C, d)
        /\ Staged(Range(ExecutedMessages), {}, {}, L, M, C, d)
    <3> DEFINE X == Range(ExecutedMessages)
    <3>1. Staged(X, {}, {m}, L, M, C, d)
      BY <2>2
    <3> HIDE DEF X
    <3>2. Staged(X, {m}, {}, L, M, C, d) /\ Staged(X, {}, {}, L, M, C, d)
      <4>1. \A r \in {} : m < r
        OBVIOUS
      <4>2. {m} = {m} \cup {}
        OBVIOUS
      <4> QED BY <3>1, <4>1, <4>2, MovesOn
    <3> QED BY <3>2 DEF X
  <2>6. HandledMessages' = {} \/ HandledMessages' = {m}
    BY <2>3
  <2> QED BY <2>1, <2>2, <2>3, <2>4, <2>5, <2>6
<1> QED BY <1>2, <1>3

\* Under a synchronous scheduler, the thread that invokes is the only one at work.
LEMMA OthersAreFree ==
    ASSUME HandlersInv, Free("main"), Unlocked, wire_scheduler = "synchronous"
    PROVE  \A u \in Threads : Free(u)
BY DEF HandlersInv, Unlocked, Threads

\* The stages stay sorted when a message arrives, ...
LEMMA DispatchSorted ==
    ASSUME CoreInv, KeptInv, Dispatch, action.step \notin {"empty", "flush"},
           wire_scheduler \in {"thread", "synchronous"}
    PROVE  Sorted'
<1>1. /\ BTypes /\ HandlersInv /\ Sorted /\ OneBusy /\ dispatched < MaxMessages
      /\ dispatched' = dispatched + 1 /\ Free("wire") /\ UNCHANGED action /\ action.left = <<>>
  BY DEF CoreInv, ActionInv, KeptInv, Dispatch, Sorted
<1>2. /\ dispatched \in Nat /\ dispatched + 1 \in Nat /\ dispatched + 1 \in Messages
      /\ Ms \in Seq(Nat) /\ Cs \in Seq(Nat)
  BY <1>1, CoreTypes, MessageBrokerAssumption, SMT DEF Messages
<1> DEFINE E == Range(ExecutedMessages)
           T == Range(MessagesOf(thread_queue))
           L == Range(action.left)
           M == Range(Ms)
           C == Range(Cs)
<1>3. Staged(E, HandledMessages, T, L, M, C, dispatched) /\ L = {}
  BY <1>1, NoMessages DEF Sorted
<1>4. /\ C = {} => Staged(E, HandledMessages, T, L, M \cup {dispatched + 1}, C, dispatched + 1)
      /\ M = {} /\ C = {} =>
            Staged(E, HandledMessages, T \cup {dispatched + 1}, L, M, C, dispatched + 1)
      /\ Staged(E, HandledMessages, T, L, M, C \cup {dispatched + 1}, dispatched + 1)
      /\ \A m \in E \cup HandledMessages \cup T \cup L \cup M \cup C : m < dispatched + 1
  <2> HIDE DEF E, T, L, M, C
  <2> QED BY <1>2, <1>3, Arrives
<1>5. CASE DispatchLater
  <2>1. /\ Cs = <<>> /\ UNCHANGED <<thread_queue, executed>>
        /\ HandledMessages' = HandledMessages /\ OneBusy'
    BY <1>1, <1>5 DEF KeptInv, DispatchLater, log, HandledMessages, Free, OneBusy
  <2>2. Ms' = Append(Ms, dispatched + 1) /\ Cs' = Cs
    BY <1>1, <1>5, LaterMq
  <2>3. Range(Ms') = M \cup {dispatched + 1} /\ Increasing(Ms')
    <3>1. Increasing(Ms) /\ \A m \in Range(Ms) : m < dispatched + 1
      BY <1>1, <1>4 DEF Sorted
    <3>2. Increasing(Append(Ms, dispatched + 1))
      BY <1>2, <3>1, IncreasingAppend
    <3>3. Range(Append(Ms, dispatched + 1)) = Range(Ms) \cup {dispatched + 1}
      BY <1>2, RangeOfAppend
    <3> QED BY <2>2, <3>2, <3>3
  <2>4. Staged(E, HandledMessages, T, L, Range(Ms'), Range(Cs'), dispatched')
    BY <1>1, <1>4, <2>1, <2>2, <2>3, NoMessages
  <2>5. ExecutedMessages' = ExecutedMessages
    BY <2>1 DEF ExecutedMessages
  <2> QED BY <1>1, <2>1, <2>2, <2>3, <2>4, <2>5 DEF Sorted
<1>6. CASE DispatchNow
  <2>1. /\ mq = {} /\ subscription \in Entities /\ UNCHANGED broker
        /\ Invoked("wire", subscription, dispatched + 1, default_queue) /\ "wire" \in Threads
    BY <1>6 DEF DispatchNow, MayOvertake, IsEntity, Threads
  <2>2. Ms' = Ms /\ Cs' = Cs /\ Ms = <<>> /\ Cs = <<>>
    BY <2>1, SameMq DEF Ms, Cs
  <2>3. Staged(E, HandledMessages, T \cup {dispatched + 1}, L, M, C, dispatched')
    BY <1>1, <1>4, <2>2, NoMessages
  <2>4. wire_scheduler = "synchronous" => \A u \in Threads : Free(u)
    <3>1. wire_scheduler = "synchronous" => Free("main")
      BY <1>1, <2>1 DEF HandlersInv, CoreInv, ActionInv
    <3> QED BY <1>1, <3>1, OthersAreFree DEF Unlocked
  <2>5. /\ Staged(Range(ExecutedMessages'), HandledMessages', Range(MessagesOf(thread_queue')),
                  L, M, C, dispatched')
        /\ Increasing(ExecutedMessages') /\ Increasing(MessagesOf(thread_queue')) /\ OneBusy'
    BY <1>1, <1>2, <1>4, <2>1, <2>3, <2>4, InvokedSorted DEF Sorted
  <2> QED BY <1>1, <2>2, <2>5 DEF Sorted
<1>7. CASE DispatchToMq
  <2>1. Ms' = Ms /\ Cs' = Append(Cs, dispatched + 1)
    BY <1>1, <1>7, ToMqMq
  <2>2. Range(Cs') = C \cup {dispatched + 1} /\ Increasing(Cs')
    BY <1>1, <1>2, <1>4, <2>1, RangeOfAppend, IncreasingAppend DEF Sorted
  <2>3. /\ UNCHANGED <<thread_queue, executed>>
        /\ HandledMessages' = HandledMessages /\ OneBusy'
    BY <1>1, <1>7 DEF DispatchToMq, log, HandledMessages, Free, OneBusy
  <2>4. Staged(E, HandledMessages, T, L, M, Range(Cs'), dispatched')
    BY <1>1, <1>4, <2>2
  <2>5. ExecutedMessages' = ExecutedMessages
    BY <2>3 DEF ExecutedMessages
  <2> QED BY <1>1, <2>1, <2>2, <2>3, <2>4, <2>5 DEF Sorted
<1> QED BY <1>5, <1>6, <1>7 DEF Dispatch

\* ... when a deferred action takes one, ...
LEMMA PopSorted ==
    ASSUME CoreInv, KeptInv, PopMessage, wire_scheduler \in {"thread", "synchronous"}
    PROVE  Sorted'
<1>1. /\ BTypes /\ ActionInv /\ HandlersInv /\ QueueInv /\ Sorted /\ OneBusy
      /\ action.step = "read" /\ Free("main") /\ Unlocked /\ "main" \in Threads
      /\ action' \in {Idle, [action EXCEPT !.step = "handled"]}
      /\ UNCHANGED dispatched
  BY DEF CoreInv, KeptInv, PopMessage, Threads, Sorted, ActionInv
<1>2. Ms # <<>> /\ Head(Ms) \in Messages /\ Ms \in Seq(Nat)
  BY <1>1, MessageIsThere, CoreTypes
<1>3. Ms' = Tail(Ms) /\ Cs' = Cs /\ Handle(action.subscription, Head(Ms))
  BY <1>1, <1>2, PopMq
<1>4. action.left = <<>> /\ action'.left = <<>>
  BY <1>1 DEF Idle, ActionInv, BTypes
<1> DEFINE E == Range(ExecutedMessages)
           T == Range(MessagesOf(thread_queue))
           L == Range(action.left)
           M == Range(Ms)
           R == Range(Tail(Ms))
           C == Range(Cs)
           h == Head(Ms)
<1>5. /\ Staged(E, HandledMessages, T, L, M, C, dispatched) /\ L = {}
      /\ M = {h} \cup R /\ Increasing(Tail(Ms)) /\ \A m \in R : h < m
  BY <1>1, <1>2, <1>4, NoMessages, IncreasingTail DEF Sorted
<1>6. /\ Staged(E, HandledMessages, T \cup {h}, L, R, C, dispatched)
      /\ Staged(E, HandledMessages, T, L, R, C, dispatched)
      /\ \A m \in T : m < h
  <2> HIDE DEF E, T, L, M, R, C, h
  <2>1. \A m \in T : m < h
    BY <1>5 DEF Staged, Before
  <2> QED BY <1>5, <2>1, MovesOn
<1>7. CASE IsEntity(action.subscription)
  <2>1. /\ Invoked("main", action.subscription, h, Tail(default_queue))
        /\ action.subscription \in Entities
    BY <1>3, <1>7 DEF Handle, IsEntity, Throws
  <2>2. /\ Staged(Range(ExecutedMessages'), HandledMessages', Range(MessagesOf(thread_queue')),
                  L, R, C, dispatched)
        /\ Increasing(ExecutedMessages') /\ Increasing(MessagesOf(thread_queue')) /\ OneBusy'
    BY <1>1, <1>2, <1>6, <2>1, OthersAreFree, InvokedSorted DEF Sorted
  <2> QED BY <1>1, <1>3, <1>4, <1>5, <2>2 DEF Sorted
<1>8. CASE ~IsEntity(action.subscription)
  <2>1. /\ UNCHANGED <<thread_queue, executed>>
        /\ HandledMessages' = HandledMessages /\ OneBusy'
    BY <1>1, <1>3, <1>8 DEF Handle, Drop, HandledMessages, Free, OneBusy
  <2>2. ExecutedMessages' = ExecutedMessages
    BY <2>1 DEF ExecutedMessages
  <2> QED BY <1>1, <1>3, <1>4, <1>5, <1>6, <2>1, <2>2 DEF Sorted
<1> QED BY <1>7, <1>8

\* ... when the Mq is erased, ...
LEMMA EraseSorted ==
    ASSUME CoreInv, KeptInv, EraseMq, Ms = <<>>, wire_scheduler \in {"thread", "synchronous"}
    PROVE  Sorted'
<1>1. /\ BTypes /\ Sorted /\ action.step = "empty" /\ mq # {} /\ action.left = <<>>
      /\ UNCHANGED <<thread_queue, handling, dispatched, executed>>
  BY DEF CoreInv, ActionInv, KeptInv, EraseMq, log
<1>2. /\ Ms' = <<>> /\ Cs' = <<>> /\ action' = [action EXCEPT !.step = "flush", !.left = Cs]
  BY <1>1, EraseMqMq
<1>3. action'.left = Cs
  BY <1>1, <1>2 DEF BTypes
<1>4. ExecutedMessages' = ExecutedMessages /\ HandledMessages' = HandledMessages /\ OneBusy'
  BY <1>1 DEF ExecutedMessages, HandledMessages, Free, OneBusy, Sorted
<1> DEFINE E == Range(ExecutedMessages)
           T == Range(MessagesOf(thread_queue))
           C == Range(Cs)
<1>5. Staged(E, HandledMessages, T, C, {}, {}, dispatched)
  <2>1. Staged(E, HandledMessages, T, {}, {}, C, dispatched)
    BY <1>1, NoMessages DEF Sorted
  <2> HIDE DEF E, T, C
  <2> QED BY <2>1, MoveOn
<1> QED BY <1>1, <1>2, <1>3, <1>4, <1>5, NoMessages DEF Sorted

\* ... when it is flushed, ...
LEMMA FlushSorted ==
    ASSUME CoreInv, KeptInv, Flush, wire_scheduler \in {"thread", "synchronous"}
    PROVE  Sorted'
<1>1. /\ BTypes /\ HandlersInv /\ Sorted /\ OneBusy /\ action.left \in Seq(Messages)
      /\ action.left # <<>> /\ action.subscription \in Entities
      /\ Free("main") /\ Unlocked /\ "main" \in Threads
      /\ Invoked("main", action.subscription, Head(action.left), default_queue)
      /\ action' = [action EXCEPT !.left = Tail(@)]
      /\ UNCHANGED <<broker, dispatched>>
  BY DEF CoreInv, KeptInv, BTypes, Flush, IsEntity, Sorted, Threads
<1>2. action'.left = Tail(action.left)
  BY <1>1 DEF BTypes
<1>3. Ms' = Ms /\ Cs' = Cs
  BY <1>1, SameMq
<1>4. Head(action.left) \in Messages /\ action.left \in Seq(Nat)
  BY <1>1, HeadTailProperties, SeqMonotonic, CoreTypes
<1> DEFINE E == Range(ExecutedMessages)
           T == Range(MessagesOf(thread_queue))
           L == Range(action.left)
           R == Range(Tail(action.left))
           M == Range(Ms)
           C == Range(Cs)
           h == Head(action.left)
<1>5. /\ Staged(E, HandledMessages, T, L, M, C, dispatched)
      /\ L = {h} \cup R /\ Increasing(Tail(action.left)) /\ \A m \in R : h < m
  BY <1>1, <1>4, IncreasingTail DEF Sorted
<1>6. Staged(E, HandledMessages, T \cup {h}, R, M, C, dispatched) /\ \A m \in T : m < h
  <2> HIDE DEF E, T, L, M, R, C, h
  <2>1. \A m \in T : m < h
    BY <1>5 DEF Staged, Before
  <2> QED BY <1>5, <2>1, MovesOn
<1>7. /\ Staged(Range(ExecutedMessages'), HandledMessages', Range(MessagesOf(thread_queue')),
                R, M, C, dispatched)
      /\ Increasing(ExecutedMessages') /\ Increasing(MessagesOf(thread_queue')) /\ OneBusy'
  BY <1>1, <1>4, <1>6, OthersAreFree, InvokedSorted DEF Sorted
<1> QED BY <1>1, <1>2, <1>3, <1>5, <1>7 DEF Sorted

\* ... when the other scheduler takes one, ...
LEMMA ThreadSorted ==
    ASSUME CoreInv, KeptInv, ThreadCheck, wire_scheduler \in {"thread", "synchronous"}
    PROVE  Sorted'
<1> DEFINE E == Range(ExecutedMessages)
           T == Range(MessagesOf(thread_queue))
           L == Range(action.left)
           M == Range(Ms)
           C == Range(Cs)
           R == Range(MessagesOf(Tail(thread_queue)))
           h == Head(thread_queue).message
<1>1. /\ BTypes /\ Sorted /\ UNCHANGED <<broker, action, dispatched>>
      /\ thread_queue \in Seq(Task) /\ thread_queue # <<>> /\ thread_queue' = Tail(thread_queue)
      /\ Recheck("worker", Head(thread_queue).entity, h) /\ "worker" \in Threads
      /\ Head(thread_queue).entity \in Entities /\ h \in Messages
  <2>1. Head(thread_queue) \in Task
    BY HeadTailProperties DEF CoreInv, BTypes, ThreadCheck
  <2> QED BY <2>1 DEF CoreInv, KeptInv, BTypes, ThreadCheck, Threads, Task
<1>2. Ms' = Ms /\ Cs' = Cs
  BY <1>1, SameMq
<1>3. Staged(E, HandledMessages, T, L, M, C, dispatched)
  BY <1>1 DEF Sorted
<1>4. \A u \in Threads : Free(u)
  BY <1>1 DEF CoreInv, HandlersInv, ThreadCheck, Threads
<1>5. Increasing(MessagesOf(thread_queue')) /\ T = {h} \cup R /\ \A m \in R : h < m
  BY <1>1, MessagesTail DEF Sorted
<1>6. /\ HandledMessages = {} /\ ExecutedMessages' = ExecutedMessages
      /\ HandledMessages' = {} \/ HandledMessages' = {h}
      /\ \A u \in Threads \ {"worker"} : Free(u)' <=> Free(u)
  BY <1>1, <1>4, NothingHandled, RecheckHandles DEF Free
<1>7. OneBusy'
  BY <1>4, <1>6 DEF OneBusy
<1>8. Staged(E, {}, R, L, M, C, dispatched) /\ Staged(E, {h}, R, L, M, C, dispatched)
  <2>1. Staged(E, {}, T, L, M, C, dispatched)
    BY <1>3, <1>6
  <2> HIDE DEF E, T, L, M, C, R, h
  <2> QED BY <1>5, <2>1, MovesOn
<1> QED BY <1>1, <1>2, <1>5, <1>6, <1>7, <1>8 DEF Sorted

\* ... and when a thread executes what it has taken.
LEMMA ExecuteSorted ==
    ASSUME CoreInv, KeptInv, NEW t \in Threads, Execute(t), UNCHANGED wire_scheduler,
           wire_scheduler \in {"thread", "synchronous"}
    PROVE  Sorted'
<1> DEFINE E == Range(ExecutedMessages)
           T == Range(MessagesOf(thread_queue))
           L == Range(action.left)
           M == Range(Ms)
           C == Range(Cs)
           H == HandledMessages
           m == handling[t].message
<1>1. /\ BTypes /\ Sorted /\ OneBusy /\ ~Free(t)
      /\ UNCHANGED <<broker, thread_queue, action, dispatched>>
  BY DEF CoreInv, KeptInv, Sorted, Execute
<1>2. Ms' = Ms /\ Cs' = Cs
  BY <1>1, SameMq
<1>3. Staged(E, H, T, L, M, C, dispatched)
  BY <1>1 DEF Sorted
<1>4. /\ m \in Nat /\ m \in H
      /\ ExecutedMessages' = Append(ExecutedMessages, m)
      /\ Range(ExecutedMessages') = E \cup {m}
      /\ Free(t)' /\ \A u \in Threads \ {t} : Free(u)' <=> Free(u)
  BY <1>1, ExecuteAdds
<1>5. \A u \in Threads : Free(u)'
  BY <1>1, <1>4 DEF OneBusy
<1>6. H = {m}
  BY <1>1 DEF OneBusy, HandledMessages
<1>7. HandledMessages' = {} /\ OneBusy'
  <2>1. HandledMessages' = {handling'[u].message : u \in {v \in Threads : ~Free(v)'}}
    BY DEF HandledMessages
  <2> QED BY <1>5, <2>1 DEF OneBusy
<1>8. Increasing(ExecutedMessages')
  <2>1. \A x \in E : x < m
    BY <1>3, <1>4 DEF Staged, Before
  <2> HIDE DEF m
  <2> QED BY <1>1, <1>4, <2>1, CoreTypes, IncreasingAppend DEF Sorted
<1>9. Staged(E \cup {m}, {}, T, L, M, C, dispatched)
  <2>1. Staged(E, {m}, T, L, M, C, dispatched)
    BY <1>3, <1>6
  <2> HIDE DEF E, T, L, M, C, H, m
  <2> QED BY <2>1, MoveOn
<1> QED BY <1>1, <1>2, <1>4, <1>7, <1>8, <1>9 DEF Sorted

\* All other steps leave the messages where they are.
LEMMA OtherSorted ==
    ASSUME CoreInv, Sorted,
           \/ ReadSubscription \/ DanglingIterator \/ NullDereference \/ FlushEnd \/ EmptyCheck
           \/ \E e \in Entities : AdviseOn(e) \/ Terminate(e) \/ Unbind(e)
           \/ UNCHANGED vars
    PROVE  Sorted'
<1>1. /\ UNCHANGED <<broker, thread_queue, handling, dispatched, executed>>
      /\ action'.left = action.left
  <2>1. CASE EmptyCheck
    <3>1. action.left = <<>> /\ action' \in {Idle, [action EXCEPT !.step = "empty"]}
      BY <2>1 DEF EmptyCheck, CoreInv, ActionInv
    <3> QED BY <2>1, <3>1 DEF EmptyCheck, CoreInv, BTypes, Idle, log
  <2>2. CASE FlushEnd \/ ReadSubscription
    BY <2>2 DEF FlushEnd, ReadSubscription, Idle, log
  <2> QED BY <2>1, <2>2 DEF DanglingIterator, NullDereference, AdviseOn, Terminate, Unbind, vars,
                           tasks, log
<1>2. Ms' = Ms /\ Cs' = Cs
  BY <1>1, SameMq
<1>3. ExecutedMessages' = ExecutedMessages /\ HandledMessages' = HandledMessages /\ OneBusy'
  BY <1>1 DEF ExecutedMessages, HandledMessages, Free, OneBusy, Sorted
<1> QED BY <1>1, <1>2, <1>3 DEF Sorted

\* A deferred action in execution has its Mq until it erases that.
LEMMA MqWhileActive ==
    ASSUME CoreInv, UndisturbedInv, action.step \in {"read", "handled", "empty"}
    PROVE  mq # {}
<1>1. CASE action.step = "read"
  <2>1. /\ default_queue \in Seq(AnyTask) /\ default_queue # <<>>
        /\ Head(default_queue).type = "deferred"
    BY <1>1 DEF CoreInv, BTypes, ActionInv, NextTask
  <2>2. 1 \in 1 .. Len(default_queue) /\ Head(default_queue) = default_queue[1]
    BY <2>1, TailIndices
  <2> QED BY <2>1, <2>2, NoneCurrent DEF UndisturbedInv, Ms
<1>2. CASE action.step # "read"
  BY <1>2 DEF CoreInv, ActionInv
<1> QED BY <1>1, <1>2

\* While kept, there is a subscription for what waits.
LEMMA KeptSubscriber ==
    ASSUME CoreInv, UndisturbedInv, KeptInv, [Next]_vars, BoundWhileWaiting
    PROVE  /\ Cs' # <<>> => IsEntity(subscription')
           /\ action'.left # <<>> => IsEntity(action'.subscription)
           /\ action'.step \in {"read", "handled", "empty"} =>
                 action'.subscription = subscription' /\ subscription' # Missing
<1> DEFINE Reads(a) == a.step \in {"read", "handled", "empty"}
<1>1. /\ BTypes /\ ActionInv /\ OneSubscriber /\ (mq = {} => Cs = <<>>)
      /\ Cs # <<>> => subscription \in Entities
      /\ action.left # <<>> => action.subscription \in Entities
      /\ Reads(action) => action.subscription = subscription /\ subscription # Missing
  BY MqTypes DEF CoreInv, BTypes, KeptInv, IsEntity
<1>2. CASE Dispatch
  <2>1. action' = action /\ dispatched < MaxMessages
    BY <1>2 DEF Dispatch
  <2>2. CASE DispatchLater
    <3>1. ~IsEntity(subscription) /\ subscription' = Null /\ Cs' = Cs
      BY <1>1, <2>1, <2>2, LaterMq DEF DispatchLater
    <3>2. Reads(action) => subscription = Null
      BY <1>1, <3>1 DEF BTypes, Handlers, IsEntity
    <3> QED BY <1>1, <2>1, <3>1, <3>2, MessageBrokerAssumption DEF IsEntity
  <2>3. CASE DispatchNow
    BY <1>1, <2>1, <2>3, SameMq DEF DispatchNow, IsEntity
  <2>4. CASE DispatchToMq
    BY <1>1, <2>1, <2>4 DEF DispatchToMq, IsEntity
  <2> QED BY <1>2, <2>2, <2>3, <2>4 DEF Dispatch
<1>3. CASE ReadSubscription
  <2>1. /\ Cs' = Cs /\ action'.left = <<>> /\ action'.subscription = subscription'
        /\ subscription' = IF subscription = Missing THEN Null ELSE subscription
    BY <1>3, SameMq DEF ReadSubscription
  <2> QED BY <1>1, <2>1, MessageBrokerAssumption DEF IsEntity
<1>4. CASE PopMessage
  <2>1. /\ Cs' = Cs /\ UNCHANGED subscription /\ action.step = "read"
        /\ action' \in {Idle, [action EXCEPT !.step = "handled"]}
    BY <1>1, <1>4, MessageIsThere, PopMq DEF CoreInv, PopMessage
  <2>2. /\ action'.left = <<>>
        /\ Reads(action') => action'.subscription = action.subscription
    BY <1>1, <2>1 DEF ActionInv, BTypes, Idle
  <2> QED BY <1>1, <2>1, <2>2 DEF IsEntity
<1>5. CASE EraseMq
  <2>1. /\ Cs' = <<>> /\ action' = [action EXCEPT !.step = "flush", !.left = Cs]
        /\ Reads(action) /\ UNCHANGED subscription
    BY <1>1, <1>5, EraseMqMq DEF ActionInv, EraseMq
  <2>2. action'.left = Cs /\ action'.subscription = subscription /\ ~Reads(action')
    BY <1>1, <2>1 DEF BTypes
  <2> QED BY <1>1, <2>1, <2>2 DEF IsEntity
<1>6. CASE EmptyCheck \/ FlushEnd \/ Flush
  <2>1. Cs' = Cs /\ UNCHANGED subscription
    BY <1>6, SameMq DEF EmptyCheck, FlushEnd, Flush
  <2>2. CASE Flush
    <3>1. ~Reads(action') /\ action'.subscription \in Entities
      BY <1>1, <2>2 DEF Flush, BTypes, IsEntity
    <3> QED BY <1>1, <2>1, <3>1 DEF IsEntity
  <2>3. CASE EmptyCheck \/ FlushEnd
    <3>1. /\ action'.left = <<>>
          /\ Reads(action') => Reads(action) /\ action'.subscription = action.subscription
      BY <1>1, <2>3 DEF EmptyCheck, FlushEnd, Idle, ActionInv, BTypes
    <3> QED BY <1>1, <2>1, <3>1 DEF IsEntity
  <2> QED BY <1>6, <2>2, <2>3
<1>7. CASE \E e \in Entities : AdviseOn(e)
  <2>1. subscription' \in Entities /\ action' = Idle /\ action = Idle
    BY <1>7 DEF AdviseOn, tasks
  <2> QED BY <1>1, <2>1 DEF IsEntity, Idle
<1>8. CASE \E e \in Entities : Terminate(e)
  <2>1. PICK e \in Entities : Terminate(e)
    BY <1>8
  <2>2. /\ lifetime[e] = "alive" /\ lifetime'[e] = "ending" /\ action' = action
        /\ UNCHANGED broker
    BY <1>1, <2>1 DEF Terminate, BTypes, tasks
  <2>3. subscription = e /\ lifetime' # lifetime
    BY <1>1, <2>2 DEF OneSubscriber
  <2>4. mq = {} /\ Cs' = <<>>
    BY <1>1, <2>2, <2>3, SameMq DEF BoundWhileWaiting, IsEntity
  <2>5. ~Reads(action)
    BY <2>4, MqWhileActive
  <2> QED BY <1>1, <2>2, <2>4, <2>5 DEF IsEntity
<1>9. CASE \/ InvokeOnDefault \/ DanglingIterator \/ NullDereference \/ ThreadCheck
           \/ \E t \in Threads : Execute(t)
           \/ \E e \in Entities : Unbind(e)
           \/ UNCHANGED vars
  <2>1. UNCHANGED <<broker, action, subscription>>
    BY <1>9 DEF InvokeOnDefault, DanglingIterator, NullDereference, ThreadCheck, Execute, Unbind,
       vars, tasks
  <2> QED BY <1>1, <2>1, SameMq DEF IsEntity
<1> QED BY <1>2, <1>3, <1>4, <1>5, <1>6, <1>7, <1>8, <1>9 DEF Next, DefaultStep, ThreadStep, Threads

\* While undisturbed and kept, messages stay in order.
LEMMA KeptStep ==
    ASSUME CoreInv, UndisturbedInv, KeptInv, [Next]_vars, FlushUndisturbed, BoundWhileWaiting
    PROVE  KeptInv'
<1> SUFFICES ASSUME wire_scheduler' \in {"thread", "synchronous"} PROVE Sorted'
  BY KeptSubscriber DEF KeptInv
<1>1. wire_scheduler \in {"thread", "synchronous"}
  BY DEF Next, vars
<1>2. CASE Dispatch
  <2>1. action.step \notin {"empty", "flush"}
    <3>1. dispatched' = dispatched + 1 /\ dispatched \in Nat
      BY <1>2 DEF Dispatch, CoreInv, BTypes
    <3>2. dispatched' # dispatched
      BY <3>1, SMT
    <3> QED BY <3>2 DEF FlushUndisturbed
  <2> QED BY <1>1, <1>2, <2>1, DispatchSorted
<1>3. CASE PopMessage
  BY <1>1, <1>3, PopSorted
<1>4. CASE EraseMq
  BY <1>1, <1>4, EraseSorted DEF UndisturbedInv, EraseMq
<1>5. CASE Flush
  BY <1>1, <1>5, FlushSorted
<1>6. CASE ThreadCheck
  BY <1>1, <1>6, ThreadSorted
<1>7. ~InvokeOnDefault
  <2> SUFFICES ASSUME InvokeOnDefault PROVE FALSE
    OBVIOUS
  <2>1. /\ default_queue \in Seq(AnyTask) /\ default_queue # <<>>
        /\ Head(default_queue).type = "invoke"
        /\ OnlyDeferred(default_queue, Ms, CurrentMq)
    BY <1>1 DEF InvokeOnDefault, NextTask, CoreInv, BTypes, QueueInv
  <2>2. 1 \in 1 .. Len(default_queue) /\ Head(default_queue) = default_queue[1]
    BY <2>1, TailIndices
  <2> QED BY <2>1, <2>2 DEF OnlyDeferred
<1>8. Sorted
  BY <1>1 DEF KeptInv
<1>9. ASSUME NEW t \in Threads, Execute(t), UNCHANGED wire_scheduler PROVE Sorted'
  BY <1>1, <1>9, ExecuteSorted
<1> QED BY <1>2, <1>3, <1>4, <1>5, <1>6, <1>7, <1>8, <1>9, OtherSorted
        DEF Next, DefaultStep, ThreadStep, Threads

-----------------------------------------------------------------------------
(* Nothing is executed after the end of a lifetime *)

\* As long as lifetimes end on the thread that executes their entity, what a thread
\* is about to execute, or a deferred action has read, is for an entity that is alive.
ConfinedInv ==
    /\ \A t \in Threads : ~Free(t) => lifetime[handling[t].entity] = "alive"
    /\ action # Idle /\ IsEntity(action.subscription) =>
          lifetime[action.subscription] = "alive"
    /\ \A e \in Entities :
          lifetime[e] = "ending" => action = Idle /\ \A t \in Threads : Free(t)

\* What an execution appends is for the entity that the thread had taken.
LEMMA LastExecuted ==
    ASSUME BTypes, NEW t \in Threads, Execute(t), UNCHANGED wire_scheduler
    PROVE  Last(executed')[1] = handling[t].entity
<1> DEFINE S == Entities \X Messages
           p == <<handling[t].entity, handling[t].message>>
<1>1. executed \in Seq(S) /\ p \in S /\ executed' = Append(executed, p)
  BY ExecuteTypes DEF BTypes
<1>2. p[1] = handling[t].entity
  OBVIOUS
<1> HIDE DEF S, p
<1>3. Last(executed') = p
  BY <1>1, AppendIndices DEF Last
<1> QED BY <1>2, <1>3

\* While no lifetime is ending, only entities that are alive have the id, ...
LEMMA PassAlive ==
    ASSUME BTypes, NEW t \in Threads, NEW e \in Entities, NEW m \in Messages,
           \/ Recheck(t, e, m) /\ \A f \in Entities : lifetime[f] # "ending"
           \/ Pass(t, e, m) /\ lifetime[e] = "alive"
    PROVE  \A u \in Threads :
              handling'[u] = handling[u] \/ lifetime[handling'[u].entity] = "alive"
<1>1. CASE Pass(t, e, m) /\ lifetime[e] = "alive"
  <2>1. handling' = [handling EXCEPT ![t] = Invoke(e, m)] /\ Invoke(e, m).entity = e
    BY <1>1 DEF Pass, Invoke
  <2>2. \A u \in Threads : handling'[u] = IF u = t THEN Invoke(e, m) ELSE handling[u]
    BY <2>1 DEF BTypes
  <2> QED BY <1>1, <2>1, <2>2
<1>2. CASE Recheck(t, e, m) /\ \A f \in Entities : lifetime[f] # "ending"
  <2>1. CASE Exists(e)
    BY <1>1, <1>2, <2>1 DEF Recheck, Exists, HasId
  <2>2. CASE ~Exists(e)
    BY <1>2, <2>2 DEF Recheck
  <2> QED BY <2>1, <2>2
<1> QED BY <1>1, <1>2

\* ... and only such are taken for execution.
LEMMA TakesAlive ==
    ASSUME CoreInv, ConfinedInv, Next, \A f \in Entities : lifetime[f] # "ending",
           NEW t \in Threads, ~Free(t)'
    PROVE  lifetime[handling'[t].entity] = "alive"
<1>1. /\ BTypes /\ ActionInv /\ UNCHANGED wire_scheduler /\ {"main", "wire", "worker"} \subseteq Threads
      /\ handling'[t] = handling[t] => lifetime[handling'[t].entity] = "alive"
  BY DEF CoreInv, Next, Threads, ConfinedInv, Free
<1> SUFFICES ASSUME handling'[t] # handling[t]
             PROVE  lifetime[handling'[t].entity] = "alive"
  BY <1>1
<1>2. ASSUME NEW u \in Threads, NEW e \in Entities, NEW m \in Messages, NEW q, Invoked(u, e, m, q)
      PROVE  lifetime[handling'[t].entity] = "alive"
  <2>1. Recheck(u, e, m)
    BY <1>2 DEF Invoked
  <2> QED BY <1>1, <2>1, PassAlive
<1>3. CASE Dispatch
  <2>1. DispatchNow /\ dispatched < MaxMessages
    BY <1>3 DEF Dispatch, DispatchLater, DispatchToMq
  <2>2. /\ subscription \in Entities /\ dispatched + 1 \in Messages
        /\ Invoked("wire", subscription, dispatched + 1, default_queue)
    BY <1>1, <2>1, CoreTypes, MessageBrokerAssumption, SMT DEF DispatchNow, IsEntity, Messages
  <2> QED BY <1>1, <1>2, <2>2
<1>4. CASE InvokeOnDefault
  <2>1. /\ NextTask.entity \in Entities /\ NextTask.message \in Messages
        /\ Recheck("main", NextTask.entity, NextTask.message)
    BY <1>1, <1>4, TakenTask DEF InvokeOnDefault
  <2> QED BY <1>1, <2>1, PassAlive
<1>5. CASE PopMessage
  <2>1. Head(Ms) \in Messages /\ Ms # <<>>
    BY <1>1, <1>5, MessageIsThere DEF CoreInv
  <2>2. Handle(action.subscription, Head(Ms)) /\ action # Idle
    BY <1>1, <1>5, <2>1, PopMq DEF PopMessage, Idle
  <2>3. IsEntity(action.subscription) /\ ~Throws(action.subscription)
    BY <2>2 DEF Handle
  <2>4. action.subscription \in Entities /\ lifetime[action.subscription] = "alive"
    BY <2>2, <2>3 DEF ConfinedInv, IsEntity
  <2>5. CASE wire_scheduler = "default"
    <3>1. Pass("main", action.subscription, Head(Ms))
      BY <2>2, <2>3, <2>5 DEF Handle
    <3> QED BY <1>1, <2>1, <2>4, <3>1, PassAlive
  <2>6. CASE wire_scheduler # "default"
    <3>1. Invoked("main", action.subscription, Head(Ms), Tail(default_queue))
      BY <2>2, <2>3, <2>6 DEF Handle
    <3> QED BY <1>1, <1>2, <2>1, <2>4, <3>1
  <2> QED BY <2>5, <2>6
<1>6. CASE Flush
  <2>1. /\ action.subscription \in Entities /\ Head(action.left) \in Messages
        /\ Invoked("main", action.subscription, Head(action.left), default_queue)
    BY <1>1, <1>6, HeadTailProperties DEF Flush, BTypes, IsEntity
  <2> QED BY <1>1, <1>2, <2>1
<1>7. CASE ThreadCheck
  <2>1. Head(thread_queue) \in Task
    BY <1>1, <1>7, HeadTailProperties DEF BTypes, ThreadCheck
  <2>2. /\ Head(thread_queue).entity \in Entities /\ Head(thread_queue).message \in Messages
        /\ Recheck("worker", Head(thread_queue).entity, Head(thread_queue).message)
    BY <1>7, <2>1 DEF Task, ThreadCheck
  <2> QED BY <1>1, <2>2, PassAlive
<1>8. ~ \E u \in Threads : Execute(u)
  <2> SUFFICES ASSUME NEW u \in Threads, Execute(u) PROVE FALSE
    OBVIOUS
  <2>1. Free(u)' /\ \A v \in Threads \ {u} : handling'[v] = handling[v]
    <3>1. Free(u)'
      BY <1>1, ExecuteAdds
    <3> QED BY <1>1, <3>1 DEF Execute, BTypes
  <2> QED BY <2>1
<1>9. CASE \/ ReadSubscription \/ EmptyCheck \/ EraseMq \/ FlushEnd \/ DanglingIterator
           \/ NullDereference \/ \E e \in Entities : AdviseOn(e) \/ Terminate(e) \/ Unbind(e)
  BY <1>9 DEF ReadSubscription, EmptyCheck, EraseMq, FlushEnd, DanglingIterator, NullDereference,
     AdviseOn, Terminate, Unbind, tasks
<1> QED BY <1>1, <1>3, <1>4, <1>5, <1>6, <1>7, <1>8, <1>9 DEF Next, DefaultStep, ThreadStep

\* A deferred action has the subscription of an entity that was alive when it was read.
LEMMA ReadsAlive ==
    ASSUME CoreInv, ConfinedInv, Next, action' # action, action' # Idle,
           IsEntity(action'.subscription)
    PROVE  lifetime[action'.subscription] = "alive"
<1>1. BTypes /\ ActionInv /\ OneSubscriber
  BY DEF CoreInv
<1>2. CASE ReadSubscription
  <2>1. action'.subscription = subscription
    BY <1>2, MessageBrokerAssumption DEF ReadSubscription, IsEntity
  <2> QED BY <1>1, <2>1 DEF OneSubscriber, IsEntity
<1>3. CASE PopMessage \/ EmptyCheck \/ EraseMq \/ Flush
  <2>1. action # Idle
    BY <1>3 DEF PopMessage, EmptyCheck, EraseMq, Flush, Idle
  <2>2. CASE PopMessage \/ EmptyCheck
    <3>1. PICK f : action' = [action EXCEPT !.step = f]
      BY <2>2 DEF PopMessage, EmptyCheck
    <3> QED BY <1>1, <2>1, <3>1 DEF BTypes, ConfinedInv
  <2>3. CASE EraseMq \/ Flush
    <3>1. \/ \E q : action' = [action EXCEPT !.step = "flush", !.left = q]
          \/ \E q : action' = [action EXCEPT !.left = q]
      BY <2>3 DEF EraseMq, Flush
    <3>2. action'.subscription = action.subscription
      BY <1>1, <3>1 DEF BTypes
    <3> QED BY <2>1, <3>2 DEF ConfinedInv
  <2> QED BY <1>3, <2>2, <2>3
<1> QED BY <1>2, <1>3 DEF Next, DefaultStep, ThreadStep, Dispatch, InvokeOnDefault, DanglingIterator,
           NullDereference, FlushEnd, Execute, ThreadCheck, AdviseOn, Terminate, Unbind, tasks

\* While confined, nothing is executed for an entity whose lifetime has ended.
LEMMA ConfinedStep ==
    ASSUME CoreInv, ConfinedInv, Next, EndsOnItsThread
    PROVE  ConfinedInv' /\ (executed' # executed => lifetime[Last(executed')[1]] = "alive")
<1>1. BTypes /\ UNCHANGED wire_scheduler
  BY DEF CoreInv, Next
<1>2. ConfinedInv'
  <2>1. CASE lifetime' # lifetime
    <3>1. action = Idle /\ \A t \in Threads : Free(t)
      BY <2>1 DEF EndsOnItsThread
    <3>2. \E e \in Entities : AdviseOn(e) \/ Terminate(e) \/ Unbind(e)
      BY <2>1 DEF Next, DefaultStep, ThreadStep, Dispatch, InvokeOnDefault, ReadSubscription,
         PopMessage, DanglingIterator, EmptyCheck, EraseMq, Flush, NullDereference, FlushEnd, Execute,
         ThreadCheck
    <3>3. UNCHANGED <<action, handling>>
      BY <3>2 DEF AdviseOn, Terminate, Unbind, tasks
    <3> QED BY <3>1, <3>3 DEF ConfinedInv, Free
  <2>2. CASE lifetime' = lifetime /\ \E e \in Entities : lifetime[e] = "ending"
    <3>1. UNCHANGED <<action, handling>>
      BY <2>2 DEF EndsOnItsThread
    <3> QED BY <2>2, <3>1 DEF ConfinedInv, Free
  <2>3. CASE lifetime' = lifetime /\ \A e \in Entities : lifetime[e] # "ending"
    <3>1. \A t \in Threads : ~Free(t)' => lifetime'[handling'[t].entity] = "alive"
      BY <2>3, TakesAlive
    <3>2. action' # Idle /\ IsEntity(action'.subscription) => lifetime'[action'.subscription] = "alive"
      BY <2>3, ReadsAlive DEF ConfinedInv
    <3> QED BY <2>3, <3>1, <3>2 DEF ConfinedInv, IsEntity
  <2> QED BY <2>1, <2>2, <2>3
<1>3. ASSUME executed' # executed PROVE lifetime[Last(executed')[1]] = "alive"
  <2>1. PICK t \in Threads : Execute(t)
    BY <1>3 DEF Next, DefaultStep, ThreadStep, Dispatch, DispatchLater, DispatchNow, DispatchToMq,
       InvokeOnDefault, ReadSubscription, PopMessage, Handle, DanglingIterator, EmptyCheck, EraseMq,
       Flush, NullDereference, FlushEnd, ThreadCheck, Invoked, Recheck, Pass, Drop, AdviseOn,
       Terminate, Unbind, log, Threads
  <2>2. ~Free(t)
    BY <2>1 DEF Execute
  <2> QED BY <1>1, <2>1, <2>2, LastExecuted DEF ConfinedInv
<1> QED BY <1>2, <1>3

-----------------------------------------------------------------------------
(* Theorems *)

MCInv ==
    /\ CoreInv
    /\ undisturbed => UndisturbedInv
    /\ undisturbed /\ kept => KeptInv
    /\ confined => ConfinedInv

\* The invariant holds in the beginning, ...
LEMMA MCInit_MCInv == MCInit => MCInv
<1> SUFFICES ASSUME MCInit PROVE MCInv
  OBVIOUS
<1>1. CoreInv /\ BTypes
  BY InitCore DEF MCInit, CoreInv
<1>2. /\ mq = {} /\ dispatched = 0 /\ subscription = Missing /\ action = Idle
      /\ default_queue = <<>> /\ thread_queue = <<>> /\ executed = <<>> /\ dropped = {}
      /\ handling = [t \in Threads |-> NoTask] /\ lifetime = [e \in Entities |-> "new"]
  BY DEF MCInit, Init
<1>3. /\ Ms = <<>> /\ Cs = <<>> /\ action.left = <<>> /\ action.step = "idle"
      /\ HandledMessages = {} /\ ExecutedMessages = <<>> /\ \A t \in Threads : Free(t)
  <2>1. Len(ExecutedMessages) = 0
    <3>1. Len(<<>>) = 0
      BY EmptySeq, SMT
    <3> QED BY <1>1, <1>2, <3>1, CoreTypes
  <2>2. \A t \in Threads : Free(t)
    BY <1>2 DEF Free
  <2> QED BY <1>1, <1>2, <2>1, <2>2, CoreTypes, EmptySeq, NothingHandled DEF Ms, Cs, Idle
<1>4. Len(<<>>) = 0 /\ 1 .. 0 = {}
  BY EmptySeq, SMT
<1>5. UndisturbedInv
  <2>1. InvokedIn(<<>>) = {} /\ AllCurrent(<<>>, CurrentMq)
    BY <1>4 DEF InvokedIn, AllCurrent
  <2> QED BY <1>2, <1>3, <1>4, <2>1, NoMessages DEF UndisturbedInv, Taken, Queued, Waiting
<1>6. KeptInv
  <2>1. Staged({}, {}, {}, {}, {}, {}, 0)
    BY DEF Staged, Before
  <2>2. Increasing(MessagesOf(<<>>))
    BY <1>4 DEF MessagesOf, Increasing
  <2> QED BY <1>2, <1>3, <2>1, <2>2, NoMessages DEF KeptInv, Sorted, OneBusy
<1>7. ConfinedInv
  BY <1>2, <1>3 DEF ConfinedInv
<1> QED BY <1>1, <1>5, <1>6, <1>7 DEF MCInv

\* ... and every step keeps each part of it under its condition.
LEMMA MCNext_MCInv == MCInv /\ [MCNext]_mcvars => MCInv'
<1> SUFFICES ASSUME MCInv, [MCNext]_mcvars PROVE MCInv'
  OBVIOUS
<1>1. [Next]_vars
  BY DEF MCNext, mcvars
<1>2. CoreInv /\ CoreInv'
  BY <1>1, NextCore DEF MCInv
<1>3. undisturbed' => UndisturbedInv'
  <2>1. CASE MCNext
    <3>1. undisturbed' => undisturbed /\ FlushUndisturbed
      BY <2>1 DEF MCNext
    <3> QED BY <1>1, <1>2, <3>1, UndisturbedStep DEF MCInv
  <2>2. CASE UNCHANGED mcvars
    <3>1. (undisturbed' => undisturbed) /\ UNCHANGED vars
      BY <2>2 DEF mcvars
    <3> QED BY <1>2, <3>1, OtherUndisturbed DEF MCInv
  <2> QED BY <2>1, <2>2
<1>4. undisturbed' /\ kept' => KeptInv'
  <2>1. CASE MCNext
    <3>1. /\ undisturbed' => undisturbed /\ FlushUndisturbed
          /\ kept' => kept /\ BoundWhileWaiting
      BY <2>1 DEF MCNext
    <3> QED BY <1>1, <1>2, <3>1, KeptStep DEF MCInv
  <2>2. CASE UNCHANGED mcvars
    <3>1. (undisturbed' => undisturbed) /\ (kept' => kept) /\ UNCHANGED vars
      BY <2>2 DEF mcvars
    <3>2. FlushUndisturbed /\ BoundWhileWaiting
      BY <3>1 DEF FlushUndisturbed, BoundWhileWaiting, vars
    <3> QED BY <1>1, <1>2, <3>1, <3>2, KeptStep DEF MCInv
  <2> QED BY <2>1, <2>2
<1>5. confined' => ConfinedInv'
  <2>1. CASE MCNext
    <3>1. (confined' => confined /\ EndsOnItsThread) /\ Next
      BY <2>1 DEF MCNext
    <3> QED BY <1>2, <3>1, ConfinedStep DEF MCInv
  <2>2. CASE UNCHANGED mcvars
    <3>1. (confined' => confined) /\ UNCHANGED vars
      BY <2>2 DEF mcvars
    <3>2. ConfinedInv => ConfinedInv'
      BY <3>1 DEF ConfinedInv, Free, IsEntity, vars, tasks
    <3> QED BY <3>1, <3>2 DEF MCInv
  <2> QED BY <2>1, <2>2
<1> QED BY <1>2, <1>3, <1>4, <1>5 DEF MCInv

\* Where each message is, what is ahead of it and for whom it is, in every state of the
\* broker (MessageBroker.cpp) and under the conditions that the observers state.
THEOREM BrokerInvariance == MCSpec => []MCInv
BY MCInit_MCInv, MCNext_MCInv, PTL DEF MCSpec

\* Unless a message comes between the unlocked empty() of a deferred action and the
\* end of its flush, every message that arrived was executed, was dropped, or waits
\* where it will be taken.
THEOREM NothingIsForgotten == MCSpec => []ForgetsNothing
<1>1. MCInv => ForgetsNothing
  <2> SUFFICES ASSUME BTypes, UndisturbedInv PROVE NothingForgotten
    BY DEF MCInv, CoreInv, ForgetsNothing
  <2> QED BY Places DEF UndisturbedInv, NothingForgotten, Taken
<1> QED BY <1>1, BrokerInvariance, PTL

\* There are as many messages in the Mq as deferred actions for it.
LEMMA OneEach ==
    ASSUME CoreInv, UndisturbedInv, mq # {},
           NEW D, D = {i \in 1 .. Len(default_queue) : default_queue[i].type = "deferred"}
    PROVE  Cardinality(D) = Len(Ms)
<1>1. /\ Ms \in Seq(Nat) /\ Len(Ms) \in Nat /\ Len(default_queue) \in Nat /\ dispatched \in Nat
      /\ \A i \in D : default_queue[i].mq = CurrentMq
      /\ Cardinality(1 .. Len(Ms)) = Len(Ms)
  <2>1. Ms \in Seq(Nat) /\ Len(Ms) \in Nat /\ Len(default_queue) \in Nat /\ dispatched \in Nat
    BY CoreTypes, QueueLengths, LenProperties DEF CoreInv
  <2>2. Cardinality(1 .. Len(Ms)) = Len(Ms)
    <3>1. 1 \in Int /\ Len(Ms) \in Int /\ (Len(Ms) - 1 + 1 = Len(Ms)) /\ (1 > Len(Ms) => Len(Ms) = 0)
      BY <2>1, SMT
    <3> QED BY <3>1, FS_Interval
  <2> QED BY <2>1, <2>2 DEF UndisturbedInv, AllCurrent
<1>2. CASE wire_scheduler = "default"
  <2>1. InArrivalOrder(default_queue, Ms, CurrentMq, dispatched) /\ Increasing(Ms)
    BY <1>2 DEF CoreInv, QueueInv, DefaultInv, InArrivalOrder
  <2> DEFINE o == dispatched - Len(default_queue)
             f == [j \in 1 .. Len(Ms) |-> Ms[j] - o]
  <2>2. o \in Nat /\ \A j \in 1 .. Len(Ms) : Ms[j] \in Nat /\ Ms[j] \in Range(Ms)
    <3>1. \A j \in 1 .. Len(Ms) : Ms[j] \in Nat /\ Ms[j] \in Range(Ms)
      BY <1>1, ElementOfSeq, RangeEquality
    <3>2. o \in Nat
      BY <1>1, <2>1, SMT DEF InArrivalOrder
    <3> QED BY <3>1, <3>2
  <2>3. ASSUME NEW j \in 1 .. Len(Ms) PROVE Ms[j] - o \in D /\ o + (Ms[j] - o) = Ms[j]
    <3>1. o < Ms[j] /\ Ms[j] <= dispatched
      BY <2>1, <2>2 DEF InArrivalOrder
    <3>2. Ms[j] - o \in 1 .. Len(default_queue) /\ o + (Ms[j] - o) = Ms[j]
      <4>1. Ms[j] \in Nat /\ o \in Nat /\ dispatched = o + Len(default_queue)
        BY <1>1, <2>2, SMT
      <4> HIDE DEF o
      <4> QED BY <1>1, <3>1, <4>1, SMT
    <3>3. default_queue[Ms[j] - o].type = "deferred"
      BY <2>1, <2>2, <3>2 DEF InArrivalOrder
    <3> QED BY <3>2, <3>3
  <2>4. ASSUME NEW i \in D PROVE \E j \in 1 .. Len(Ms) : Ms[j] - o = i
    <3>1. o + i \in Range(Ms)
      BY <1>1, <2>1 DEF InArrivalOrder
    <3>2. PICK j \in 1 .. Len(Ms) : Ms[j] = o + i
      BY <1>1, <3>1, RangeEquality
    <3>3. Ms[j] \in Nat /\ o \in Nat /\ i \in Nat
      BY <2>2, SMT
    <3> HIDE DEF o
    <3>4. Ms[j] - o = i
      BY <3>2, <3>3, SMT
    <3> QED BY <3>4
  <2>5. ASSUME NEW j \in 1 .. Len(Ms), NEW k \in 1 .. Len(Ms), Ms[j] - o = Ms[k] - o
        PROVE  j = k
    <3>1. Ms[j] = Ms[k]
      BY <2>2, <2>5, SMT
    <3>2. ~(j < k) /\ ~(k < j)
      <4>1. CASE j < k
        <5>1. Ms[j] < Ms[k]
          BY <2>1, <4>1 DEF Increasing
        <5> QED BY <2>2, <3>1, <5>1, SMT
      <4>2. CASE k < j
        <5>1. Ms[k] < Ms[j]
          BY <2>1, <4>2 DEF Increasing
        <5> QED BY <2>2, <3>1, <5>1, SMT
      <4> QED BY <4>1, <4>2
    <3> QED BY <1>1, <3>2, SMT
  <2> HIDE DEF o
  <2>6. f \in Bijection(1 .. Len(Ms), D)
    <3>1. f \in [1 .. Len(Ms) -> D]
      BY <2>3
    <3>2. \A j, k \in 1 .. Len(Ms) : f[j] = f[k] => j = k
      BY <2>5
    <3>3. \A i \in D : \E j \in 1 .. Len(Ms) : f[j] = i
      BY <2>4
    <3> HIDE DEF f
    <3> QED BY <3>1, <3>2, <3>3 DEF Bijection, Injection, Surjection, IsInjective
  <2> HIDE DEF f
  <2> QED BY <1>1, <2>6, FS_CountingElements DEF ExistsBijection
<1>3. CASE wire_scheduler # "default"
  <2>1. OnlyDeferred(default_queue, Ms, CurrentMq)
    BY <1>3 DEF CoreInv, QueueInv
  <2>2. Len(Ms) = Len(default_queue)
    <3>1. CASE Len(default_queue) = 0
      BY <1>1, <2>1, <3>1, SMT DEF OnlyDeferred
    <3>2. CASE Len(default_queue) # 0
      <4>1. 1 \in 1 .. Len(default_queue)
        BY <1>1, <3>2, SMT
      <4>2. 1 \in D
        BY <2>1, <4>1 DEF OnlyDeferred
      <4>3. 1 > Len(default_queue) - Len(Ms)
        BY <1>1, <2>1, <4>1, <4>2 DEF OnlyDeferred
      <4>4. Len(Ms) <= Len(default_queue)
        BY <2>1 DEF OnlyDeferred
      <4> QED BY <1>1, <4>3, <4>4, SMT
    <3> QED BY <3>1, <3>2
  <2>3. D = 1 .. Len(default_queue)
    BY <2>1 DEF OnlyDeferred
  <2> QED BY <1>1, <2>2, <2>3
<1> QED BY <1>2, <1>3

\* Under the same condition a deferred action never meets an erased Mq nor an empty
\* one, and, if entities outlive them, their flushes have a subscription.
THEOREM DeferredActionsFindTheirMq == MCSpec => []DeferredActionsAreSafe
<1>1. MCInv => DeferredActionsAreSafe
  <2> SUFFICES ASSUME CoreInv, UndisturbedInv
               PROVE  OneMessagePerAction /\ (KeptInv => FlushHasSubscription)
    BY DEF MCInv, DeferredActionsAreSafe
  <2>1. OneMq
    BY DEF CoreInv, BTypes
  <2> DEFINE D == {i \in 1 .. Len(default_queue) : default_queue[i].type = "deferred"}
  <2>2. CASE mq = {}
    <3>1. D = {}
      BY <2>2, NoneCurrent DEF UndisturbedInv, Ms
    <3> QED BY <2>2, <3>1 DEF OneMessagePerAction, KeptInv, FlushHasSubscription
  <2>3. CASE mq # {}
    <3>1. PICK q \in MqRecord : mq = {q} /\ q.number = mqs
      BY <2>1, <2>3 DEF OneMq
    <3>2. Ms = q.default_scheduler_messages
      BY <3>1, OnlyMq
    <3>3. \A i \in D : default_queue[i].mq = q.number
      BY <2>3, <3>1 DEF UndisturbedInv, AllCurrent, CurrentMq
    <3>4. Cardinality(D) = Len(Ms)
      BY <2>3, OneEach
    <3> HIDE DEF D
    <3>5. /\ \A i \in D : \E r \in mq : r.number = default_queue[i].mq
          /\ \A r \in mq : Len(r.default_scheduler_messages) = Cardinality(D)
      BY <3>1, <3>2, <3>3, <3>4
    <3> QED BY <3>5 DEF D, OneMessagePerAction, KeptInv, FlushHasSubscription
  <2> QED BY <2>2, <2>3
<1> QED BY <1>1, BrokerInvariance, PTL

\* Entities get their messages in the order of arrival and none twice: with the
\* protocol's own scheduler in any case, with another one that keeps the order under
\* these two conditions.
THEOREM MessagesStayInOrder == MCSpec => []KeepsOrder
<1>1. MCInv => KeepsOrder
  <2> SUFFICES ASSUME MCInv, wire_scheduler = "default" \/ (undisturbed /\ kept),
                      wire_scheduler # "outOfOrder"
               PROVE  Increasing(ExecutedMessages)
    BY DEF KeepsOrder, InOrder
  <2>1. CASE wire_scheduler = "default"
    BY <2>1 DEF MCInv, CoreInv, QueueInv, DefaultInv
  <2>2. CASE wire_scheduler # "default"
    <3>1. undisturbed /\ kept /\ wire_scheduler \in {"thread", "synchronous"}
      BY <2>2 DEF MCInv, CoreInv, BTypes, SchedulerKinds
    <3> QED BY <3>1 DEF MCInv, KeptInv, Sorted
  <2> QED BY <2>1, <2>2
<1> QED BY <1>1, BrokerInvariance, PTL

\* As long as lifetimes end on the thread that executes their entity (and not, as they
\* may, on another one between the test of MessageBroker.cpp:28-31 and the execution),
\* no message is executed for an entity after the end of its lifetime.
THEOREM SilentAfterLifetime == MCSpec => StopsWithLifetime
<1>1. MCInv /\ [MCNext]_mcvars =>
         [confined' /\ executed' # executed => lifetime[Last(executed')[1]] = "alive"]_mcvars
  <2> SUFFICES ASSUME MCInv, MCNext, confined', executed' # executed
               PROVE  lifetime[Last(executed')[1]] = "alive"
    OBVIOUS
  <2>1. confined /\ EndsOnItsThread /\ Next
    BY DEF MCNext
  <2> QED BY <2>1, ConfinedStep DEF MCInv
<1> QED BY <1>1, BrokerInvariance, PTL DEF MCSpec, StopsWithLifetime
=============================================================================
