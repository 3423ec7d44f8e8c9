--------------------------- MODULE RdCallMC_proofs ---------------------------
(***************************************************************************)
(* Proofs about calls, for any number of them and of bindings: requests    *)
(* are executed once and in order, results are final, and what is wrong    *)
(* with sync calls starts with one that did not wait, or that returned     *)
(* before the wire thread had fired the change of its result.              *)
(*                                                                         *)
(* The inductive invariant follows the number of a call: from the queue of *)
(* its sender over the wire to the scheduler of its receiver, and back     *)
(* with the response.  On the way there and on the way back the numbers    *)
(* grow, a number that is on its way there was not executed, and none      *)
(* beyond it was; one that is on its way back was.                         *)
(*                                                                         *)
(* For the agreement of the ends, a second invariant follows the states.   *)
(* The last one that an end has still to execute decides whether it will   *)
(* be connected; if there is none, it stays as it is.  That has to fit the *)
(* binding of its counterpart, or the counterpart has a Ready to answer.   *)
(***************************************************************************)
EXTENDS RdCallMC, SequenceLemmas, FiniteSetTheorems

Threads == {"main", "wire"}
Calls == {"request", "Success", "Fault"}
Kinds == Calls \cup States \cup {"Cancelled", "deferred", "idle", "wait"}
Messages == [op : Kinds, task : Nat]
Gives == {"give", "fire"}
WireOps == StateOps \cup Gives \cup {"idle", "end", "unbind"}
MainOps == StateOps \cup {"idle", "bind", "close", "send", "wait", "give"}
Frames == [op : WireOps \cup MainOps, msg : Messages, rest : Seq(Messages)]

\* What the members of an end send.
Said(e) == IF e = Client THEN {"request"} ELSE {"Success", "Fault"}

\* A queue has nothing but messages of kind K.
Has(s, K) == \A i \in 1 .. Len(s) : s[i].op \in K

Types ==
    /\ ext \in [Ends -> {"unbound", "advised", "bound", "dying", "ending"}]
    /\ connected \in [Ends -> BOOLEAN]
    /\ sendQ \in [Ends -> Seq(Messages)] /\ inbox \in [Ends -> Seq(Messages)]
    /\ queue \in [Ends -> Seq(Messages)] /\ mq \in [Ends -> Seq(Messages)]
    /\ custom \in [Ends -> Seq(Messages)]
    /\ at \in [Ends -> [Threads -> Frames]]

\* What the queues of an end hold.
KInv ==
    \A e \in Ends :
        /\ Has(sendQ[e], Said(e))
        /\ Has(inbox[e], Said(Other(e)) \cup States)
        /\ Has(queue[e], Said(Other(e)) \cup {"deferred"})
        /\ Has(mq[e], States) /\ Has(custom[e], States)

\* What the threads of an end are about.
FrameInv(e, m, w) ==
    /\ w.op \in WireOps /\ w.rest = <<>>
    /\ w.op \in Gives => e = Client
    /\ m.op \in MainOps
    /\ m.op \in StateOps => Has(m.rest, States)
    /\ m.op \in {"wait", "give"} => e = Client
    /\ m.op = "send" =>
          /\ sendQ[e] = <<>>
          /\ m.msg.op \in Said(e)
          /\ m.rest = <<State("idle")>> \/ (e = Client /\ m.rest = <<State("wait")>>)

FInv == \A e \in Ends : FrameInv(e, at[e]["main"], at[e]["wire"])

Deferrals(s) == {i \in 1 .. Len(s) : s[i].op = "deferred"}
DInv == \A e \in Ends : Len(mq[e]) = Cardinality(Deferrals(queue[e]))

\* The calls and responses on their way from an end, in the order in which they
\* will arrive.
InOrder(s) ==
    \A i, j \in 1 .. Len(s) :
        i < j /\ s[i].op \in Calls /\ s[j].op \in Calls => s[i].task < s[j].task
CallsIn(s) == {s[i].task : i \in {j \in 1 .. Len(s) : s[j].op \in Calls}}
Before(s, t) == \A a \in CallsIn(s), b \in CallsIn(t) : a < b
Line(q, i, o) ==
    /\ InOrder(q) /\ InOrder(i) /\ InOrder(o)
    /\ Before(q, i) /\ Before(q, o) /\ Before(i, o)
Tokens(q, i, o) == CallsIn(q) \cup CallsIn(i) \cup CallsIn(o)

\* What an end has taken from its members, but not yet given to the wire.
Out(e) == IF Does(e, "main", "send") THEN <<at[e]["main"].msg>> ELSE sendQ[e]

\* The numbers of the calls, or of the responses, that an end has sent.
OnWay(e) == Tokens(queue[Other(e)], inbox[Other(e)], Out(e))
Asked == OnWay(Client)
Told == OnWay(Server)

LInv == \A e \in Ends : Line(queue[Other(e)], inbox[Other(e)], Out(e))

\* The extension at its two ends.
EInv == Types /\ KInv /\ FInv /\ DInv /\ LInv

\* The types of the tasks.
TInv ==
    /\ calls \in 0 .. MaxCalls /\ sync_task_id \in 0 .. calls
    /\ result \in [Tasks -> {"none"} \cup Results]
    /\ executed \in [Tasks -> {0, 1}]
    /\ subscribed \cup destroyed \cup sync_tasks \cup cancelling \cup undefined \subseteq 1 .. calls

\* The result that the wire thread is giving, or has given.
Given == at[Client]["wire"].msg

\* What is known of a task by what is on its way.
OInv ==
    /\ \A n \in Asked : n \in 1 .. calls /\ \A k \in Tasks : k >= n => executed[k] = 0
    /\ \A n \in Told : n \in Tasks /\ executed[n] = 1
    /\ \A n \in Tasks : n > calls => executed[n] = 0 /\ result[n] = "none"
    /\ Does(Client, "main", "give") =>
          /\ InProgress \in Tasks /\ executed[InProgress] = 1
          /\ InProgress \notin sync_tasks
          /\ at[Client]["main"].msg.op \in {"Success", "Fault"}
    /\ at[Client]["wire"].op \in Gives =>
          /\ Given.task \in 1 .. calls /\ Given.op \in Results
          /\ Given.op # "Cancelled" => executed[Given.task] = 1
    /\ CallsIn(queue[Client]) \cap sync_tasks = {}

\* The caller waits for its task, or is about to.
Waits ==
    \/ Does(Client, "main", "wait")
    \/ Does(Client, "main", "send") /\ at[Client]["main"].rest = <<State("wait")>>
SInv ==
    /\ Waits => InProgress \in sync_tasks \ destroyed
    /\ sync_task_id # 0 =>
          /\ sync_task_id \in sync_tasks
          /\ \/ Waits /\ InProgress = sync_task_id
             \/ /\ sync_task_id \in destroyed
                /\ \/ result[sync_task_id] \notin {"none", "Success"}
                   \/ sync_task_id \in gave_up

\* The task is not used any more.
Unused(n) ==
    /\ n \notin cancelling
    /\ ~(at[Client]["wire"].op \in Gives /\ Given.task = n)
    /\ n \in subscribed => n \notin Asked \cup Told

GInv ==
    /\ \A n \in sync_tasks \cap subscribed :
          /\ result[n] \notin {"none", "Cancelled"} => n \notin Asked \cup Told
          /\ result[n] = "Cancelled" => n \in cancelling \cup destroyed
    /\ at[Client]["wire"].op \in Gives =>
          IF Given.op = "Cancelled" THEN Given.task \in cancelling
          ELSE Given.task \in sync_tasks \ (Asked \cup Told)
    /\ Does(Client, "wire", "give") /\ Given.task \in sync_tasks => result[Given.task] = "none"
    /\ \A n \in Tasks \ (gave_up \cup hasty) :
          n \notin undefined /\ (n \in destroyed => Unused(n))

\* Only a task that both threads were about to give a result has one when it is
\* given another.
RInv ==
    /\ \A t \in Threads : \A n \in Giving(t) : result[n] = "none" \/ n \in raced
    /\ Giving("main") \cap Giving("wire") \subseteq raced

CInv == EInv /\ TInv /\ OInv /\ SInv /\ GInv /\ RInv

-----------------------------------------------------------------------------
(* Numbers in a queue                                                      *)

\* What a message is.
LEMMA MessageTypes ==
    ASSUME NEW m \in Messages
    PROVE  m.op \in Kinds /\ m.task \in Nat
BY DEF Messages

\* The calls in a sequence, ...
LEMMA CallsAre ==
    ASSUME NEW s
    PROVE  \A n : n \in CallsIn(s) <=> \E i \in 1 .. Len(s) : s[i].op \in Calls /\ s[i].task = n
BY DEF CallsIn

\* ... which are numbers, ...
LEMMA CallsAreNumbers ==
    ASSUME NEW s \in Seq(Messages)
    PROVE  \A n \in CallsIn(s) : n \in Nat
<1>1. \A i \in 1 .. Len(s) : s[i] \in Messages
  BY ElementOfSeq
<1> QED BY <1>1, CallsAre, MessageTypes

\* ... when it is empty, ...
LEMMA CallsOfEmpty == CallsIn(<<>>) = {} /\ InOrder(<<>>)
<1> DEFINE s == <<>>
<1>1. Len(s) = 0
  OBVIOUS
<1> HIDE DEF s
<1>2. 1 .. Len(s) = {}
  BY <1>1, SMT
<1>3. CallsIn(s) = {} /\ InOrder(s)
  BY <1>2 DEF CallsIn, InOrder
<1> QED BY <1>3 DEF s

\* ... with one more message, ...
LEMMA CallsOfAppend ==
    ASSUME NEW s \in Seq(Messages), NEW m \in Messages
    PROVE  /\ m.op \in Calls =>
                /\ CallsIn(Append(s, m)) = CallsIn(s) \cup {m.task}
                /\ InOrder(s) /\ (\A n \in CallsIn(s) : n < m.task) => InOrder(Append(s, m))
           /\ m.op \notin Calls =>
                /\ CallsIn(Append(s, m)) = CallsIn(s)
                /\ InOrder(s) => InOrder(Append(s, m))
<1> DEFINE r == Append(s, m)
<1>1. /\ Len(s) \in Nat /\ Len(r) = Len(s) + 1
      /\ \A i \in 1 .. Len(s) : r[i] = s[i]
      /\ r[Len(s) + 1] = m
      /\ \A i \in 1 .. Len(r) : i \in 1 .. Len(s) \/ i = Len(s) + 1
  BY AppendIndices
<1> HIDE DEF r
<1>2. /\ Len(s) + 1 \in 1 .. Len(r)
      /\ \A i \in 1 .. Len(s) : i \in 1 .. Len(r)
      /\ \A i \in 1 .. Len(s) : ~(Len(s) + 1 < i)
      /\ ~(Len(s) + 1 < Len(s) + 1)
  BY <1>1, SMT
<1>3. ASSUME m.op \in Calls PROVE CallsIn(r) = CallsIn(s) \cup {m.task}
  <2>1. ASSUME NEW n \in CallsIn(r) PROVE n \in CallsIn(s) \cup {m.task}
    <3>1. PICK i \in 1 .. Len(r) : r[i].op \in Calls /\ r[i].task = n
      BY <2>1, CallsAre
    <3> QED BY <1>1, <3>1, CallsAre
  <2>2. ASSUME NEW n \in CallsIn(s) PROVE n \in CallsIn(r)
    <3>1. PICK i \in 1 .. Len(s) : s[i].op \in Calls /\ s[i].task = n
      BY <2>2, CallsAre
    <3> QED BY <1>1, <1>2, <3>1, CallsAre
  <2>3. m.task \in CallsIn(r)
    BY <1>1, <1>2, <1>3, CallsAre
  <2> QED BY <2>1, <2>2, <2>3
<1>4. ASSUME m.op \notin Calls PROVE CallsIn(r) = CallsIn(s)
  <2>1. ASSUME NEW n \in CallsIn(r) PROVE n \in CallsIn(s)
    <3>1. PICK i \in 1 .. Len(r) : r[i].op \in Calls /\ r[i].task = n
      BY <2>1, CallsAre
    <3> QED BY <1>1, <1>4, <3>1, CallsAre
  <2>2. ASSUME NEW n \in CallsIn(s) PROVE n \in CallsIn(r)
    <3>1. PICK i \in 1 .. Len(s) : s[i].op \in Calls /\ s[i].task = n
      BY <2>2, CallsAre
    <3> QED BY <1>1, <1>2, <3>1, CallsAre
  <2> QED BY <2>1, <2>2
<1>5. ASSUME InOrder(s), m.op \in Calls => \A n \in CallsIn(s) : n < m.task
      PROVE  InOrder(r)
  <2> SUFFICES ASSUME NEW i \in 1 .. Len(r), NEW j \in 1 .. Len(r), i < j,
                      r[i].op \in Calls, r[j].op \in Calls
               PROVE  r[i].task < r[j].task
    BY DEF InOrder
  <2>1. CASE j \in 1 .. Len(s)
    <3>1. i \in 1 .. Len(s)
      BY <1>1, <1>2, <2>1
    <3> QED BY <1>1, <1>5, <2>1, <3>1 DEF InOrder
  <2>2. CASE j = Len(s) + 1
    <3>1. i \in 1 .. Len(s)
      BY <1>1, <1>2, <2>2
    <3>2. s[i].task \in CallsIn(s)
      BY <1>1, <3>1, CallsAre
    <3> QED BY <1>1, <1>5, <2>2, <3>1, <3>2
  <2> QED BY <1>1, <2>1, <2>2
<1> QED BY <1>3, <1>4, <1>5 DEF r

\* ... with one less, ...
LEMMA CallsOfTail ==
    ASSUME NEW s \in Seq(Messages), s # <<>>
    PROVE  /\ InOrder(s) => InOrder(Tail(s))
           /\ Head(s).op \in Calls =>
                /\ CallsIn(s) = CallsIn(Tail(s)) \cup {Head(s).task}
                /\ InOrder(s) => \A n \in CallsIn(Tail(s)) : Head(s).task < n
           /\ Head(s).op \notin Calls => CallsIn(s) = CallsIn(Tail(s))
<1> DEFINE r == Tail(s)
<1>1. /\ Len(s) \in Nat /\ 1 \in 1 .. Len(s) /\ Head(s) = s[1] /\ Len(r) = Len(s) - 1
      /\ \A i \in 1 .. Len(r) : i + 1 \in 1 .. Len(s) /\ r[i] = s[i + 1]
  BY TailIndices
<1> HIDE DEF r
<1>2. \A i \in 1 .. Len(s) : i = 1 \/ (i - 1 \in 1 .. Len(r) /\ (i - 1) + 1 = i)
  BY <1>1, SMT
<1>3. \A i, j \in 1 .. Len(r) : i < j => i + 1 < j + 1
  BY <1>1, SMT
<1>4. \A i \in 1 .. Len(r) : 1 < i + 1
  BY <1>1, SMT
<1>5. InOrder(s) => InOrder(r)
  BY <1>1, <1>3 DEF InOrder
<1>6. CallsIn(r) \subseteq CallsIn(s)
  <2> SUFFICES ASSUME NEW n \in CallsIn(r) PROVE n \in CallsIn(s)
    OBVIOUS
  <2>1. PICK i \in 1 .. Len(r) : r[i].op \in Calls /\ r[i].task = n
    BY CallsAre
  <2> QED BY <1>1, <2>1, CallsAre
<1>7. ASSUME NEW n \in CallsIn(s) PROVE n \in CallsIn(r) \/ (s[1].op \in Calls /\ n = s[1].task)
  <2>1. PICK i \in 1 .. Len(s) : s[i].op \in Calls /\ s[i].task = n
    BY <1>7, CallsAre
  <2>2. CASE i = 1
    BY <2>1, <2>2
  <2>3. CASE i - 1 \in 1 .. Len(r) /\ (i - 1) + 1 = i
    <3>1. r[i - 1] = s[i]
      BY <1>1, <2>3
    <3> QED BY <2>1, <2>3, <3>1, CallsAre
  <2> QED BY <1>2, <2>2, <2>3
<1>8. s[1].op \in Calls => s[1].task \in CallsIn(s)
  BY <1>1, CallsAre
<1>9. ASSUME InOrder(s), s[1].op \in Calls, NEW n \in CallsIn(r) PROVE s[1].task < n
  <2>1. PICK i \in 1 .. Len(r) : r[i].op \in Calls /\ r[i].task = n
    BY <1>9, CallsAre
  <2> QED BY <1>1, <1>4, <1>9, <2>1 DEF InOrder
<1>10. /\ s[1].op \in Calls => CallsIn(s) = CallsIn(r) \cup {s[1].task}
       /\ s[1].op \notin Calls => CallsIn(s) = CallsIn(r)
  BY <1>6, <1>7, <1>8
<1> QED BY <1>1, <1>5, <1>9, <1>10 DEF r

\* ... joined with another, ...
LEMMA CallsOfJoin ==
    ASSUME NEW s \in Seq(Messages), NEW t \in Seq(Messages)
    PROVE  /\ CallsIn(s \o t) = CallsIn(s) \cup CallsIn(t)
           /\ InOrder(s) /\ InOrder(t) /\ Before(s, t) => InOrder(s \o t)
<1> DEFINE r == s \o t
<1>1. Joined(s, t, r)
  BY Joining
<1> HIDE DEF r
<1>2. /\ Len(s) \in Nat /\ Len(t) \in Nat
      /\ \A i \in 1 .. Len(s) : i \in 1 .. Len(r) /\ r[i] = s[i]
      /\ \A j \in 1 .. Len(t) : Len(s) + j \in 1 .. Len(r) /\ r[Len(s) + j] = t[j]
      /\ \A i \in 1 .. Len(r) : i \in 1 .. Len(s) \/ \E j \in 1 .. Len(t) : i = Len(s) + j
  BY <1>1 DEF Joined
<1>3. ASSUME NEW n PROVE n \in CallsIn(r) <=> n \in CallsIn(s) \cup CallsIn(t)
  <2>1. ASSUME n \in CallsIn(r) PROVE n \in CallsIn(s) \cup CallsIn(t)
    <3>1. PICK i \in 1 .. Len(r) : r[i].op \in Calls /\ r[i].task = n
      BY <2>1, CallsAre
    <3>2. CASE i \in 1 .. Len(s)
      BY <1>2, <3>1, <3>2, CallsAre
    <3>3. ASSUME NEW j \in 1 .. Len(t), i = Len(s) + j PROVE n \in CallsIn(t)
      BY <1>2, <3>1, <3>3, CallsAre
    <3> QED BY <1>2, <3>2, <3>3
  <2>2. ASSUME n \in CallsIn(s) PROVE n \in CallsIn(r)
    <3>1. PICK i \in 1 .. Len(s) : s[i].op \in Calls /\ s[i].task = n
      BY <2>2, CallsAre
    <3> QED BY <1>2, <3>1, CallsAre
  <2>3. ASSUME n \in CallsIn(t) PROVE n \in CallsIn(r)
    <3>1. PICK j \in 1 .. Len(t) : t[j].op \in Calls /\ t[j].task = n
      BY <2>3, CallsAre
    <3> QED BY <1>2, <3>1, CallsAre
  <2> QED BY <2>1, <2>2, <2>3
<1>4. ASSUME InOrder(s), InOrder(t), Before(s, t) PROVE InOrder(r)
  <2> SUFFICES ASSUME NEW i \in 1 .. Len(r), NEW j \in 1 .. Len(r), i < j,
                      r[i].op \in Calls, r[j].op \in Calls
               PROVE  r[i].task < r[j].task
    BY DEF InOrder
  <2>1. CASE i \in 1 .. Len(s) /\ j \in 1 .. Len(s)
    BY <1>2, <1>4, <2>1 DEF InOrder
  <2>2. ASSUME i \in 1 .. Len(s), NEW l \in 1 .. Len(t), j = Len(s) + l
        PROVE  r[i].task < r[j].task
    <3>1. s[i].task \in CallsIn(s) /\ t[l].task \in CallsIn(t)
      BY <1>2, <2>2, CallsAre
    <3> QED BY <1>2, <1>4, <2>2, <3>1 DEF Before
  <2>3. ASSUME NEW h \in 1 .. Len(t), i = Len(s) + h, NEW l \in 1 .. Len(t), j = Len(s) + l
        PROVE  r[i].task < r[j].task
    <3>1. h < l
      BY <1>2, <2>3, SMT
    <3> QED BY <1>2, <1>4, <2>3, <3>1 DEF InOrder
  <2>4. ASSUME NEW h \in 1 .. Len(t), i = Len(s) + h, j \in 1 .. Len(s) PROVE FALSE
    BY <1>2, <2>4, SMT
  <2> QED BY <1>2, <2>1, <2>2, <2>3, <2>4
<1> QED BY <1>3, <1>4 DEF r

\* ... and of one message.
LEMMA CallsOfOne ==
    ASSUME NEW m \in Messages
    PROVE  /\ <<m>> \in Seq(Messages) /\ InOrder(<<m>>)
           /\ m.op \notin Calls => CallsIn(<<m>>) = {}
<1> DEFINE s == <<m>>
<1>1. s \in Seq(Messages) /\ Len(s) = 1 /\ s[1] = m
  OBVIOUS
<1> HIDE DEF s
<1>2. \A i \in 1 .. Len(s) : i = 1
  BY <1>1, SMT
<1>3. ~(1 < 1)
  BY SMT
<1>4. InOrder(s)
  <2> SUFFICES ASSUME NEW i \in 1 .. Len(s), NEW j \in 1 .. Len(s), i < j PROVE FALSE
    BY DEF InOrder
  <2> QED BY <1>2, <1>3
<1>5. m.op \notin Calls => CallsIn(s) = {}
  BY <1>1, <1>2, CallsAre
<1> QED BY <1>1, <1>4, <1>5 DEF s

-----------------------------------------------------------------------------
(* Numbers on their way                                                    *)

\* What was kept back is sent.
LEMMA LineFlush ==
    ASSUME NEW q \in Seq(Messages), NEW i \in Seq(Messages), NEW o \in Seq(Messages),
           Line(q, i, o)
    PROVE  Line(q, i \o o, <<>>) /\ Tokens(q, i \o o, <<>>) = Tokens(q, i, o)
<1>1. /\ CallsIn(i \o o) = CallsIn(i) \cup CallsIn(o)
      /\ InOrder(i \o o)
  BY CallsOfJoin DEF Line
<1> QED BY <1>1, CallsOfEmpty DEF Line, Before, Tokens

\* A state is sent.
LEMMA LineState ==
    ASSUME NEW q \in Seq(Messages), NEW i \in Seq(Messages), NEW o \in Seq(Messages),
           Line(q, i, o), NEW m \in Messages, m.op \notin Calls
    PROVE  Line(q, i \o <<m>>, o) /\ Tokens(q, i \o <<m>>, o) = Tokens(q, i, o)
<1>1. <<m>> \in Seq(Messages) /\ InOrder(<<m>>) /\ CallsIn(<<m>>) = {}
  BY CallsOfOne
<1>2. CallsIn(i \o <<m>>) = CallsIn(i) /\ InOrder(i \o <<m>>)
  <2> DEFINE s == <<m>>
  <2>1. s \in Seq(Messages) /\ InOrder(s) /\ CallsIn(s) = {} /\ Before(i, s)
    BY <1>1 DEF Before
  <2> HIDE DEF s
  <2>2. InOrder(i)
    BY DEF Line
  <2>3. CallsIn(i \o s) = CallsIn(i) \cup CallsIn(s) /\ InOrder(i \o s)
    BY <2>1, <2>2, CallsOfJoin
  <2> QED BY <2>1, <2>3 DEF s
<1> QED BY <1>2 DEF Line, Before, Tokens

\* What was kept back is forgotten.
LEMMA LineDrop ==
    ASSUME NEW q, NEW i, NEW o, Line(q, i, o)
    PROVE  Line(q, i, <<>>) /\ Tokens(q, i, <<>>) \subseteq Tokens(q, i, o)
BY CallsOfEmpty DEF Line, Before, Tokens

\* A call or a response is given to the extension.
LEMMA LineSend ==
    ASSUME NEW q \in Seq(Messages), NEW i \in Seq(Messages), NEW o \in Seq(Messages),
           Line(q, i, o), NEW m \in Messages, m.op \in Calls,
           \A n \in Tokens(q, i, o) : n < m.task
    PROVE  /\ Line(q, i, Append(o, m))
           /\ Tokens(q, i, Append(o, m)) = Tokens(q, i, o) \cup {m.task}
<1>1. CallsIn(Append(o, m)) = CallsIn(o) \cup {m.task} /\ InOrder(Append(o, m))
  BY CallsOfAppend DEF Line, Tokens
<1> QED BY <1>1 DEF Line, Before, Tokens

\* A call or a response is received.
LEMMA LineReceive ==
    ASSUME NEW q \in Seq(Messages), NEW i \in Seq(Messages), NEW o \in Seq(Messages),
           Line(q, i, o), i # <<>>, Head(i).op \in Calls
    PROVE  /\ Line(Append(q, Head(i)), Tail(i), o)
           /\ Tokens(Append(q, Head(i)), Tail(i), o) = Tokens(q, i, o)
<1> DEFINE m == Head(i)
<1>1. m \in Messages
  BY TailIndices
<1>2. /\ InOrder(Tail(i)) /\ CallsIn(i) = CallsIn(Tail(i)) \cup {m.task}
      /\ \A n \in CallsIn(Tail(i)) : m.task < n
  BY CallsOfTail DEF Line
<1> HIDE DEF m
<1>3. m.op \in Calls
  BY DEF m
<1>4. CallsIn(Append(q, m)) = CallsIn(q) \cup {m.task} /\ InOrder(Append(q, m))
  <2>1. \A n \in CallsIn(q) : n < m.task
    BY <1>2 DEF Line, Before
  <2> QED BY <1>1, <1>3, <2>1, CallsOfAppend DEF Line
<1>5. /\ Line(Append(q, m), Tail(i), o)
      /\ Tokens(Append(q, m), Tail(i), o) = Tokens(q, i, o)
  BY <1>2, <1>4 DEF Line, Before, Tokens
<1> QED BY <1>5 DEF m

\* A state, or a response that nobody wants, is received.
LEMMA LineSkip ==
    ASSUME NEW q \in Seq(Messages), NEW i \in Seq(Messages), NEW o \in Seq(Messages),
           Line(q, i, o), i # <<>>
    PROVE  /\ Line(q, Tail(i), o)
           /\ Tokens(q, Tail(i), o) \subseteq Tokens(q, i, o)
           /\ Head(i).op \in Calls =>
                 /\ Head(i).task \in Tokens(q, i, o)
                 /\ Head(i).task \notin Tokens(q, Tail(i), o)
<1>1. /\ InOrder(Tail(i)) /\ CallsIn(Tail(i)) \subseteq CallsIn(i)
      /\ Head(i).op \in Calls =>
           /\ Head(i).task \in CallsIn(i)
           /\ \A n \in CallsIn(Tail(i)) : Head(i).task < n
  BY CallsOfTail DEF Line
<1>2. Line(q, Tail(i), o) /\ Tokens(q, Tail(i), o) \subseteq Tokens(q, i, o)
  BY <1>1 DEF Line, Before, Tokens
<1>3. ASSUME Head(i).op \in Calls, Head(i).task \in Tokens(q, Tail(i), o) PROVE FALSE
  <2>1. Head(i).task \in Nat
    BY <1>1, <1>3, CallsAreNumbers
  <2>2. ~(Head(i).task < Head(i).task)
    BY <2>1, SMT
  <2> QED BY <1>1, <1>3, <2>2 DEF Line, Before, Tokens
<1> QED BY <1>1, <1>2, <1>3 DEF Tokens

\* The scheduler takes what is first.
LEMMA LineTake ==
    ASSUME NEW q \in Seq(Messages), NEW i \in Seq(Messages), NEW o \in Seq(Messages),
           Line(q, i, o), q # <<>>
    PROVE  /\ Line(Tail(q), i, o)
           /\ Tokens(Tail(q), i, o) \subseteq Tokens(q, i, o)
           /\ CallsIn(Tail(q)) \subseteq CallsIn(q)
           /\ Head(q).op \in Calls =>
                 /\ Head(q).task \in CallsIn(q)
                 /\ \A n \in Tokens(Tail(q), i, o) : Head(q).task < n
<1>1. /\ InOrder(Tail(q)) /\ CallsIn(Tail(q)) \subseteq CallsIn(q)
      /\ Head(q).op \in Calls =>
           /\ Head(q).task \in CallsIn(q)
           /\ \A n \in CallsIn(Tail(q)) : Head(q).task < n
  BY CallsOfTail DEF Line
<1> QED BY <1>1 DEF Line, Before, Tokens

\* A deferred action is queued.
LEMMA LineDefer ==
    ASSUME NEW q \in Seq(Messages), NEW i, NEW o, Line(q, i, o),
           NEW m \in Messages, m.op \notin Calls
    PROVE  /\ Line(Append(q, m), i, o)
           /\ Tokens(Append(q, m), i, o) = Tokens(q, i, o)
           /\ CallsIn(Append(q, m)) = CallsIn(q)
<1>1. CallsIn(Append(q, m)) = CallsIn(q) /\ InOrder(Append(q, m))
  BY CallsOfAppend DEF Line
<1> QED BY <1>1 DEF Line, Before, Tokens

-----------------------------------------------------------------------------
(* Deferred actions                                                        *)

\* The deferred actions in a queue can be counted, ...
LEMMA DeferralsAreFinite ==
    ASSUME NEW s \in Seq(Messages)
    PROVE  IsFiniteSet(Deferrals(s)) /\ Cardinality(Deferrals(s)) \in Nat
<1>1. Len(s) \in Nat /\ 1 \in Int
  BY LenProperties
<1>2. Len(s) \in Int
  BY <1>1, SMT
<1>3. IsFiniteSet(1 .. Len(s))
  BY <1>1, <1>2, FS_Interval
<1>4. Deferrals(s) \in SUBSET (1 .. Len(s))
  BY DEF Deferrals
<1>5. IsFiniteSet(Deferrals(s))
  BY <1>3, <1>4, FS_Subset
<1> QED BY <1>5, FS_CardinalityType

\* ... with one more task ...
LEMMA DeferralsOfAppend ==
    ASSUME NEW s \in Seq(Messages), NEW m \in Messages
    PROVE  /\ m.op = "deferred" =>
                Cardinality(Deferrals(Append(s, m))) = Cardinality(Deferrals(s)) + 1
           /\ m.op # "deferred" => Deferrals(Append(s, m)) = Deferrals(s)
<1> DEFINE r == Append(s, m)
<1>1. /\ Len(s) \in Nat /\ Len(r) = Len(s) + 1
      /\ \A i \in 1 .. Len(s) : r[i] = s[i]
      /\ r[Len(s) + 1] = m
      /\ \A i \in 1 .. Len(r) : i \in 1 .. Len(s) \/ i = Len(s) + 1
  BY AppendIndices
<1> HIDE DEF r
<1>2. /\ Len(s) + 1 \in 1 .. Len(r) /\ Len(s) + 1 \notin 1 .. Len(s)
      /\ \A i \in 1 .. Len(s) : i \in 1 .. Len(r)
  BY <1>1, SMT
<1>3. ASSUME m.op = "deferred" PROVE Cardinality(Deferrals(r)) = Cardinality(Deferrals(s)) + 1
  <2>1. Deferrals(r) = Deferrals(s) \cup {Len(s) + 1}
    BY <1>1, <1>2, <1>3 DEF Deferrals
  <2>2. Len(s) + 1 \notin Deferrals(s)
    BY <1>2 DEF Deferrals
  <2> QED BY <2>1, <2>2, DeferralsAreFinite, FS_AddElement
<1>4. m.op # "deferred" => Deferrals(r) = Deferrals(s)
  BY <1>1, <1>2 DEF Deferrals
<1> QED BY <1>3, <1>4 DEF r

\* ... and with one less.
LEMMA DeferralsOfTail ==
    ASSUME NEW s \in Seq(Messages), s # <<>>
    PROVE  /\ Head(s).op = "deferred" =>
                /\ Cardinality(Deferrals(s)) # 0
                /\ Cardinality(Deferrals(Tail(s))) = Cardinality(Deferrals(s)) - 1
           /\ Head(s).op # "deferred" =>
                Cardinality(Deferrals(Tail(s))) = Cardinality(Deferrals(s))
<1> DEFINE r == Tail(s)
           D == Deferrals(s) \ {1}
           f == [i \in Deferrals(r) |-> i + 1]
<1>1. /\ Len(s) \in Nat /\ 1 \in 1 .. Len(s) /\ Head(s) = s[1]
      /\ r \in Seq(Messages) /\ Len(r) = Len(s) - 1
      /\ \A i \in 1 .. Len(r) : i + 1 \in 1 .. Len(s) /\ r[i] = s[i + 1]
  BY TailIndices
<1> HIDE DEF r
<1>2. /\ \A i \in 1 .. Len(s) : i = 1 \/ (i - 1 \in 1 .. Len(r) /\ (i - 1) + 1 = i)
      /\ \A i \in 1 .. Len(r) : i + 1 # 1
      /\ \A i, j \in 1 .. Len(r) : i + 1 = j + 1 => i = j
  BY <1>1, SMT
<1>3. \A i : i \in Deferrals(r) <=> i \in 1 .. Len(r) /\ r[i].op = "deferred"
  BY DEF Deferrals
<1>4. \A i : i \in D <=> i \in 1 .. Len(s) /\ s[i].op = "deferred" /\ i # 1
  BY DEF Deferrals
<1>5. IsFiniteSet(Deferrals(s)) /\ Cardinality(Deferrals(s)) \in Nat /\ IsFiniteSet(D)
  BY DeferralsAreFinite, FS_RemoveElement
<1>6. IsFiniteSet(Deferrals(r))
  BY <1>1, DeferralsAreFinite
<1> HIDE DEF D
<1>7. f \in Bijection(Deferrals(r), D)
  <2>1. f \in [Deferrals(r) -> D]
    <3>1. ASSUME NEW i \in Deferrals(r) PROVE i + 1 \in D
      <4>1. i \in 1 .. Len(r) /\ r[i].op = "deferred"
        BY <1>3
      <4>2. i + 1 \in 1 .. Len(s) /\ s[i + 1] = r[i] /\ i + 1 # 1
        BY <1>1, <1>2, <4>1
      <4> QED BY <1>4, <4>1, <4>2
    <3> QED BY <3>1
  <2>2. \A i, j \in Deferrals(r) : f[i] = f[j] => i = j
    BY <1>2, <1>3
  <2>3. ASSUME NEW i \in D PROVE \E j \in Deferrals(r) : f[j] = i
    <3>1. i - 1 \in 1 .. Len(r) /\ (i - 1) + 1 = i
      BY <1>2, <1>4
    <3>2. r[i - 1] = s[i]
      BY <1>1, <3>1
    <3>3. i - 1 \in Deferrals(r)
      BY <1>3, <1>4, <3>1, <3>2
    <3> QED BY <3>1, <3>3
  <2> HIDE DEF f
  <2> QED BY <2>1, <2>2, <2>3 DEF Bijection, Injection, Surjection, IsInjective
<1>8. Cardinality(D) = Cardinality(Deferrals(r))
  BY <1>6, <1>7, FS_Bijection DEF ExistsBijection
<1>9. CASE s[1].op = "deferred"
  <2>1. 1 \in Deferrals(s)
    BY <1>1, <1>9 DEF Deferrals
  <2>2. Cardinality(D) = Cardinality(Deferrals(s)) - 1
    BY <1>5, <2>1, FS_RemoveElement DEF D
  <2>3. Cardinality(Deferrals(s)) # 0
    BY <1>5, <2>1, FS_EmptySet
  <2> QED BY <1>1, <1>8, <1>9, <2>2, <2>3 DEF r
<1>10. CASE s[1].op # "deferred"
  <2>1. 1 \notin Deferrals(s)
    BY <1>1, <1>10 DEF Deferrals
  <2>2. D = Deferrals(s)
    BY <2>1 DEF D
  <2> QED BY <1>1, <1>8, <1>10, <2>2 DEF r
<1> QED BY <1>9, <1>10

-----------------------------------------------------------------------------
(* Kinds in a queue                                                        *)

\* A sequence has messages of the given kinds only, with one more, ...
LEMMA HasAppend ==
    ASSUME NEW s \in Seq(Messages), NEW m \in Messages, NEW K, Has(s, K), m.op \in K
    PROVE  Has(Append(s, m), K)
<1> DEFINE r == Append(s, m)
<1>1. /\ \A i \in 1 .. Len(s) : r[i] = s[i]
      /\ r[Len(s) + 1] = m
      /\ \A i \in 1 .. Len(r) : i \in 1 .. Len(s) \/ i = Len(s) + 1
  BY AppendIndices
<1> HIDE DEF r
<1>2. Has(r, K)
  BY <1>1 DEF Has
<1> QED BY <1>2 DEF r

\* ... with one less, ...
LEMMA HasTail ==
    ASSUME NEW s \in Seq(Messages), s # <<>>, NEW K, Has(s, K)
    PROVE  Has(Tail(s), K) /\ Head(s).op \in K /\ Head(s) \in Messages /\ Tail(s) \in Seq(Messages)
<1> DEFINE r == Tail(s)
<1>1. /\ 1 \in 1 .. Len(s) /\ Head(s) = s[1] /\ Head(s) \in Messages
      /\ r \in Seq(Messages)
      /\ \A i \in 1 .. Len(r) : i + 1 \in 1 .. Len(s) /\ r[i] = s[i + 1]
  BY TailIndices
<1> HIDE DEF r
<1>2. Has(r, K) /\ s[1].op \in K
  BY <1>1 DEF Has
<1> QED BY <1>1, <1>2 DEF r

\* ... joined with another, ...
LEMMA HasJoin ==
    ASSUME NEW s \in Seq(Messages), NEW t \in Seq(Messages), NEW K, Has(s, K), Has(t, K)
    PROVE  Has(s \o t, K) /\ s \o t \in Seq(Messages)
<1> DEFINE r == s \o t
<1>1. r \in Seq(Messages) /\ Joined(s, t, r)
  BY Joining
<1> HIDE DEF r
<1>2. ASSUME NEW i \in 1 .. Len(r) PROVE r[i].op \in K
  <2>1. CASE i \in 1 .. Len(s)
    BY <1>1, <2>1 DEF Joined, Has
  <2>2. ASSUME NEW j \in 1 .. Len(t), i = Len(s) + j PROVE r[i].op \in K
    BY <1>1, <2>2 DEF Joined, Has
  <2> QED BY <1>1, <2>1, <2>2 DEF Joined
<1>3. Has(r, K)
  BY <1>2 DEF Has
<1> QED BY <1>1, <1>3 DEF r

\* ... when it is empty, ...
LEMMA HasNothing == ASSUME NEW K PROVE Has(<<>>, K)
<1> DEFINE s == <<>>
<1>1. Len(s) = 0
  OBVIOUS
<1> HIDE DEF s
<1>2. 1 .. Len(s) = {}
  BY <1>1, SMT
<1>3. Has(s, K)
  BY <1>2 DEF Has
<1> QED BY <1>3 DEF s

\* ... and of one message.
LEMMA HasOne ==
    ASSUME NEW m \in Messages, NEW K, m.op \in K
    PROVE  Has(<<m>>, K) /\ <<m>> \in Seq(Messages)
<1> DEFINE s == <<m>>
<1>1. s \in Seq(Messages) /\ Len(s) = 1 /\ s[1] = m
  OBVIOUS
<1> HIDE DEF s
<1>2. \A i \in 1 .. Len(s) : i = 1
  BY <1>1, SMT
<1>3. Has(s, K)
  BY <1>1, <1>2 DEF Has
<1> QED BY <1>1, <1>3 DEF s

-----------------------------------------------------------------------------
(* Ends, threads and what they are about                                   *)

\* There are two ends.
LEMMA TwoEnds ==
    /\ Client \in Ends /\ Server \in Ends /\ Client # Server
    /\ Other(Client) = Server /\ Other(Server) = Client
    /\ \A e \in Ends : /\ e = Client \/ e = Server
                       /\ Other(e) \in Ends /\ Other(e) # e /\ Other(Other(e)) = e
<1>1. Ends = {Client, Server} /\ Client # Server
  BY RdCallAssumption DEF RdCallAssumption
<1>2. Other(Client) = Server
  <2>1. Other(Client) \in Ends /\ Other(Client) # Client
    BY <1>1 DEF Other
  <2> QED BY <1>1, <2>1
<1>3. Other(Server) = Client
  <2>1. Other(Server) \in Ends /\ Other(Server) # Server
    BY <1>1 DEF Other
  <2> QED BY <1>1, <2>1
<1> QED BY <1>1, <1>2, <1>3

\* What they say to each other.
LEMMA Words ==
    /\ \A s \in Kinds : State(s) \in Messages /\ State(s).op = s
    /\ Nothing \in Messages
    /\ \A n \in Nat : /\ Request(n) \in Messages /\ Request(n).op = "request"
                      /\ Request(n).task = n
                      /\ \A r \in Calls \cup Results : /\ Response(n, r) \in Messages
                                                       /\ Response(n, r).op = r
                                                       /\ Response(n, r).task = n
BY DEF Messages, Kinds, Calls, Results, State, Nothing, Request, Response

\* What a thread does, ...
LEMMA FrameFields ==
    ASSUME NEW x \in Frames
    PROVE  x.op \in WireOps \cup MainOps /\ x.msg \in Messages /\ x.rest \in Seq(Messages)
BY DEF Frames

\* ... as it is given ...
LEMMA DoingFields ==
    ASSUME NEW op \in WireOps \cup MainOps, NEW m \in Messages, NEW r \in Seq(Messages)
    PROVE  /\ Doing(op, m, r) \in Frames /\ Doing(op, m, r).op = op
           /\ Doing(op, m, r).msg = m /\ Doing(op, m, r).rest = r
BY DEF Doing, Frames

\* ... or as nothing.
LEMMA IdleFields == Idle \in Frames /\ Idle.op = "idle" /\ Idle.rest = <<>>
<1> DEFINE none == <<>>
<1>1. none \in Seq(Messages)
  OBVIOUS
<1>2. "idle" \in WireOps \cup MainOps /\ Nothing \in Messages
  BY Words DEF WireOps
<1> HIDE DEF none
<1>3. /\ Doing("idle", Nothing, none) \in Frames /\ Doing("idle", Nothing, none).op = "idle"
      /\ Doing("idle", Nothing, none).rest = none
  BY <1>1, <1>2, DoingFields
<1> QED BY <1>3 DEF Idle, none

\* A thread of an end goes over to x.
Becomes(e, t, x) ==
    /\ at' \in [Ends -> [Threads -> Frames]]
    /\ at'[e][t] = x
    /\ \A f \in Ends, u \in Threads : f # e \/ u # t => at'[f][u] = at[f][u]

\* A thread goes on to something else ...
LEMMA Going ==
    ASSUME Types, NEW e \in Ends, NEW t \in Threads, NEW x \in Frames, Goes(e, t, x)
    PROVE  Becomes(e, t, x)
<1> DEFINE F == Frames
<1>1. at \in [Ends -> [Threads -> F]] /\ at' = [at EXCEPT ![e] = [at[e] EXCEPT ![t] = x]]
  BY DEF Types, Goes
<1> HIDE DEF F
<1>2. x \in F
  BY DEF F
<1>3. [at[e] EXCEPT ![t] = x] \in [Threads -> F] /\ [at[e] EXCEPT ![t] = x][t] = x
  BY <1>1, <1>2
<1>4. \A u \in Threads : u # t => [at[e] EXCEPT ![t] = x][u] = at[e][u]
  BY <1>1
<1>5. /\ at' \in [Ends -> [Threads -> F]] /\ at'[e] = [at[e] EXCEPT ![t] = x]
      /\ \A f \in Ends : f # e => at'[f] = at[f]
  BY <1>1, <1>3
<1>6. \A f \in Ends, u \in Threads : f # e \/ u # t => at'[f][u] = at[f][u]
  BY <1>4, <1>5
<1> QED BY <1>3, <1>5, <1>6 DEF Becomes, F

\* ... or with the same message.
LEMMA GoingOn ==
    ASSUME Types, NEW e \in Ends, NEW t \in Threads, NEW op \in WireOps \cup MainOps,
           GoesOn(e, t, op)
    PROVE  /\ Becomes(e, t, [at[e][t] EXCEPT !.op = op])
           /\ at'[e][t].op = op /\ at'[e][t].msg = at[e][t].msg
           /\ at'[e][t].rest = at[e][t].rest
<1> DEFINE x == [at[e][t] EXCEPT !.op = op]
<1>1. at[e][t] \in Frames
  BY DEF Types
<1>2. /\ x \in Frames /\ x.op = op /\ x.msg = at[e][t].msg /\ x.rest = at[e][t].rest
  BY <1>1 DEF Frames
<1>3. Goes(e, t, x)
  BY DEF Goes, GoesOn
<1> HIDE DEF x
<1>4. Becomes(e, t, x)
  BY <1>2, <1>3, Going
<1>5. at'[e][t] = x
  BY <1>4 DEF Becomes
<1> QED BY <1>2, <1>4, <1>5 DEF x

\* The frames of the threads are as they should be.
LEMMA Framing ==
    ASSUME Types, FInv, NEW e \in Ends, NEW t \in Threads, NEW x, Becomes(e, t, x),
           t = "wire" => x.op \in WireOps /\ x.rest = <<>> /\ (x.op \in Gives => e = Client),
           t = "main" => /\ x.op \in MainOps /\ x.op # "send"
                         /\ x.op \in StateOps => Has(x.rest, States)
                         /\ x.op \in {"wait", "give"} => e = Client,
           \A f \in Ends : sendQ[f] = <<>> => sendQ'[f] = <<>>
    PROVE  FInv'
<1> SUFFICES ASSUME NEW f \in Ends PROVE FrameInv(f, at[f]["main"], at[f]["wire"])'
  BY DEF FInv
<1>1. FrameInv(f, at[f]["main"], at[f]["wire"])
  BY DEF FInv
<1>2. "main" \in Threads /\ "wire" \in Threads /\ "main" # "wire" /\ t \in {"main", "wire"}
  BY DEF Threads
<1>3. CASE f # e
  <2>1. at'[f]["main"] = at[f]["main"] /\ at'[f]["wire"] = at[f]["wire"]
    BY <1>2, <1>3 DEF Becomes
  <2> QED BY <1>1, <2>1 DEF FrameInv
<1>4. CASE f = e /\ t = "wire"
  <2>1. at'[f]["main"] = at[f]["main"] /\ at'[f]["wire"] = x
    BY <1>2, <1>4 DEF Becomes
  <2> QED BY <1>1, <1>4, <2>1 DEF FrameInv
<1>5. CASE f = e /\ t = "main"
  <2>1. at'[f]["main"] = x /\ at'[f]["wire"] = at[f]["wire"]
    BY <1>2, <1>5 DEF Becomes
  <2> QED BY <1>1, <1>5, <2>1 DEF FrameInv
<1> QED BY <1>2, <1>3, <1>4, <1>5

\* What an end is about to send stays.
LEMMA OutStays ==
    ASSUME NEW e \in Ends, NEW t \in Threads, NEW x, Becomes(e, t, x),
           t = "main" => x.op # "send" /\ ~Does(e, "main", "send"),
           sendQ' = sendQ
    PROVE  \A d \in Ends : Out(d)' = Out(d)
<1> SUFFICES ASSUME NEW d \in Ends PROVE Out(d)' = Out(d)
  OBVIOUS
<1>1. "main" \in Threads
  BY DEF Threads
<1>2. CASE d = e /\ t = "main"
  <2>1. at'[d]["main"] = x
    BY <1>2 DEF Becomes
  <2> QED BY <1>2, <2>1 DEF Out, Does
<1>3. CASE ~(d = e /\ t = "main")
  <2>1. at'[d]["main"] = at[d]["main"]
    BY <1>1, <1>3 DEF Becomes
  <2> QED BY <2>1 DEF Out, Does
<1> QED BY <1>2, <1>3

-----------------------------------------------------------------------------
(* What the steps of the extension keep                                    *)

\* No number is new on its way, nor in the queue of a scheduler.
Calm == \A d \in Ends : /\ OnWay(d)' \subseteq OnWay(d)
                        /\ CallsIn(queue'[d]) \subseteq CallsIn(queue[d])

\* The caller goes on to wait, or to give a result, as before, ...
Speaker ==
    /\ Waits' <=> Waits
    /\ Waits => InProgress' = InProgress
    /\ Does(Client, "main", "give")' =>
          /\ Does(Client, "main", "give")
          /\ at'[Client]["main"].msg = at[Client]["main"].msg

\* ... and so does its wire thread.
Giver ==
    at[Client]["wire"].op \in Gives \/ at'[Client]["wire"].op \in Gives =>
        at'[Client]["wire"] = at[Client]["wire"]

Caller == Speaker /\ Giver

Engaged == {"send", "wait", "give"}

\* The caller does not get engaged in a call.
LEMMA CallerStays ==
    ASSUME NEW e \in Ends, NEW t \in Threads, NEW x, Becomes(e, t, x),
           e = Client /\ t = "main" =>
              x.op \notin Engaged /\ at[Client]["main"].op \notin Engaged,
           e = Client /\ t = "wire" =>
              x.op \notin Gives /\ at[Client]["wire"].op \notin Gives
    PROVE  Caller
<1>1. "main" \in Threads /\ "wire" \in Threads /\ "main" # "wire" /\ Client \in Ends
  BY TwoEnds DEF Threads
<1>2. Speaker
  <2>1. CASE e = Client /\ t = "main"
    <3>1. at'[Client]["main"] = x
      BY <2>1 DEF Becomes
    <3> QED BY <2>1, <3>1 DEF Speaker, Waits, Does, Engaged
  <2>2. CASE ~(e = Client /\ t = "main")
    <3>1. at'[Client]["main"] = at[Client]["main"]
      BY <1>1, <2>2 DEF Becomes
    <3> QED BY <3>1 DEF Speaker, Waits, Does, InProgress
  <2> QED BY <2>1, <2>2
<1>3. Giver
  <2>1. CASE e = Client /\ t = "wire"
    <3>1. at'[Client]["wire"] = x
      BY <2>1 DEF Becomes
    <3> QED BY <2>1, <3>1 DEF Giver
  <2>2. CASE ~(e = Client /\ t = "wire")
    BY <1>1, <2>2 DEF Giver, Becomes
  <2> QED BY <2>1, <2>2
<1> QED BY <1>2, <1>3 DEF Caller

\* The lines of messages do not change.
LEMMA LinesStay ==
    ASSUME LInv, UNCHANGED <<inbox, queue>>, \A d \in Ends : Out(d)' = Out(d)
    PROVE  LInv' /\ Calm
<1>1. LInv'
  BY TwoEnds DEF LInv
<1>2. \A d \in Ends : OnWay(d)' = OnWay(d)
  BY DEF OnWay
<1> QED BY <1>1, <1>2 DEF Calm

\* Changing what one end has.
LEMMA Updates ==
    ASSUME NEW S, NEW f \in [Ends -> S], NEW e \in Ends, NEW x \in S
    PROVE  /\ [f EXCEPT ![e] = x] \in [Ends -> S] /\ [f EXCEPT ![e] = x][e] = x
           /\ \A d \in Ends : d # e => [f EXCEPT ![e] = x][d] = f[d]
OBVIOUS

\* Where the messages are.
LEMMA Queues ==
    ASSUME Types
    PROVE  \A e \in Ends : /\ sendQ[e] \in Seq(Messages) /\ inbox[e] \in Seq(Messages)
                           /\ queue[e] \in Seq(Messages) /\ mq[e] \in Seq(Messages)
                           /\ custom[e] \in Seq(Messages)
                           /\ at[e]["main"] \in Frames /\ at[e]["wire"] \in Frames
                           /\ Out(e) \in Seq(Messages)
<1> SUFFICES ASSUME NEW e \in Ends
             PROVE  /\ sendQ[e] \in Seq(Messages) /\ inbox[e] \in Seq(Messages)
                    /\ queue[e] \in Seq(Messages) /\ mq[e] \in Seq(Messages)
                    /\ custom[e] \in Seq(Messages)
                    /\ at[e]["main"] \in Frames /\ at[e]["wire"] \in Frames
                    /\ Out(e) \in Seq(Messages)
  OBVIOUS
<1>1. /\ sendQ[e] \in Seq(Messages) /\ inbox[e] \in Seq(Messages)
      /\ queue[e] \in Seq(Messages) /\ mq[e] \in Seq(Messages)
      /\ custom[e] \in Seq(Messages)
      /\ at[e]["main"] \in Frames /\ at[e]["wire"] \in Frames
  BY DEF Types, Threads
<1>2. <<at[e]["main"].msg>> \in Seq(Messages)
  BY <1>1, FrameFields, CallsOfOne
<1> QED BY <1>1, <1>2 DEF Out

\* What is sent arrives at the other end.
LEMMA Transmits ==
    ASSUME Types, NEW e \in Ends, NEW ms \in Seq(Messages), Transmit(e, ms)
    PROVE  /\ inbox' \in [Ends -> Seq(Messages)]
           /\ inbox'[Other(e)] = inbox[Other(e)] \o ms
           /\ inbox'[e] = inbox[e]
<1>1. Other(e) \in Ends /\ Other(e) # e
  BY TwoEnds
<1>2. inbox[Other(e)] \o ms \in Seq(Messages)
  BY <1>1, Queues, Joining
<1>3. inbox \in [Ends -> Seq(Messages)]
  BY DEF Types
<1> QED BY <1>1, <1>2, <1>3, Updates DEF Transmit

\* A state is sent.
LEMMA StateSent ==
    ASSUME Types, KInv, LInv, NEW e \in Ends, NEW s \in States, Transmit(e, <<State(s)>>),
           queue' = queue, \A d \in Ends : Out(d)' = Out(d)
    PROVE  /\ inbox' \in [Ends -> Seq(Messages)]
           /\ \A f \in Ends : Has(inbox'[f], Said(Other(f)) \cup States)
           /\ LInv' /\ Calm
<1>1. State(s) \in Messages /\ State(s).op = s /\ s \notin Calls
  BY Words DEF Kinds, States, Calls
<1>2. <<State(s)>> \in Seq(Messages) /\ Has(<<State(s)>>, Said(e) \cup States)
  BY <1>1, HasOne
<1>3. /\ inbox' \in [Ends -> Seq(Messages)]
      /\ inbox'[Other(e)] = inbox[Other(e)] \o <<State(s)>>
      /\ inbox'[e] = inbox[e]
  BY <1>2, Transmits
<1>4. ASSUME NEW f \in Ends PROVE Has(inbox'[f], Said(Other(f)) \cup States)
  <2>1. Has(inbox[f], Said(Other(f)) \cup States) /\ inbox[f] \in Seq(Messages)
    BY Queues DEF KInv
  <2>2. CASE f = e
    BY <1>3, <2>1, <2>2
  <2>3. CASE f = Other(e)
    <3> DEFINE ms == <<State(s)>>
    <3>1. ms \in Seq(Messages) /\ Has(ms, Said(Other(f)) \cup States)
      BY <1>2, <2>3, TwoEnds
    <3>2. inbox'[f] = inbox[f] \o ms
      BY <1>3, <2>3
    <3> HIDE DEF ms
    <3>3. Has(inbox[f] \o ms, Said(Other(f)) \cup States)
      BY <2>1, <3>1, HasJoin
    <3> QED BY <3>2, <3>3
  <2> QED BY <2>2, <2>3, TwoEnds
<1>5. ASSUME NEW d \in Ends
      PROVE  /\ Line(queue[Other(d)], inbox'[Other(d)], Out(d))
             /\ Tokens(queue[Other(d)], inbox'[Other(d)], Out(d)) = OnWay(d)
  <2>1. /\ queue[Other(d)] \in Seq(Messages) /\ inbox[Other(d)] \in Seq(Messages)
        /\ Out(d) \in Seq(Messages)
        /\ Line(queue[Other(d)], inbox[Other(d)], Out(d))
    BY Queues, TwoEnds DEF LInv
  <2>2. CASE d = e
    <3>1. PICK m \in Messages : m = State(s)
      BY <1>1
    <3>2. /\ Line(queue[Other(d)], inbox[Other(d)] \o <<m>>, Out(d))
          /\ Tokens(queue[Other(d)], inbox[Other(d)] \o <<m>>, Out(d)) = OnWay(d)
      BY <1>1, <2>1, <3>1, LineState DEF OnWay
    <3> QED BY <1>3, <2>2, <3>1, <3>2
  <2>3. CASE d # e
    BY <1>3, <2>1, <2>3, TwoEnds DEF OnWay
  <2> QED BY <2>2, <2>3
<1>6. LInv'
  BY <1>5, TwoEnds DEF LInv
<1>7. \A d \in Ends : OnWay(d)' = OnWay(d)
  BY <1>5 DEF OnWay
<1> QED BY <1>3, <1>4, <1>6, <1>7 DEF Calm

\* The steps of an extension keep the lines of messages; first, it is bound.
LEMMA AdviseKeeps == ASSUME EInv, NEW e \in Ends, Advise(e) PROVE EInv' /\ Calm /\ Caller
<1>1. Types /\ KInv /\ FInv /\ DInv /\ LInv
  BY DEF EInv
<1> DEFINE x == [at[e]["main"] EXCEPT !.op = "bind"]
<1>2. "main" \in Threads /\ "bind" \in WireOps \cup MainOps /\ "bind" \in MainOps
      /\ "bind" \notin StateOps \cup Engaged
  BY DEF Threads, MainOps, StateOps, Engaged
<1>3. Becomes(e, "main", x) /\ x.op = "bind"
  <2>1. Becomes(e, "main", x) /\ at'[e]["main"].op = "bind"
    BY <1>1, <1>2, GoingOn DEF Advise
  <2> QED BY <2>1 DEF Becomes
<1> HIDE DEF x
<1>4. /\ sendQ' \in [Ends -> Seq(Messages)] /\ sendQ'[e] = <<>>
      /\ \A d \in Ends : d # e => sendQ'[d] = sendQ[d]
  <2>1. <<>> \in Seq(Messages) /\ sendQ \in [Ends -> Seq(Messages)]
    BY <1>1 DEF Types
  <2> QED BY <2>1, Updates DEF Advise
<1>5. /\ ext' \in [Ends -> {"unbound", "advised", "bound", "dying", "ending"}]
      /\ connected' \in [Ends -> BOOLEAN]
      /\ UNCHANGED <<inbox, queue, mq, custom>>
  BY <1>1 DEF Types, Advise, wirevars
<1>6. Types'
  BY <1>1, <1>3, <1>4, <1>5 DEF Types, Becomes
<1>7. KInv'
  BY <1>1, <1>4, <1>5, HasNothing DEF KInv
<1>8. FInv'
  BY <1>1, <1>2, <1>3, <1>4, Framing DEF Engaged
<1>9. DInv'
  BY <1>1, <1>5 DEF DInv
<1>10. Out(e)' = <<>> /\ \A d \in Ends : d # e => Out(d)' = Out(d)
  <2>1. at'[e]["main"].op = "bind" /\ \A d \in Ends : d # e => at'[d]["main"] = at[d]["main"]
    BY <1>2, <1>3 DEF Becomes
  <2> QED BY <1>4, <2>1 DEF Out, Does
<1>11. ASSUME NEW d \in Ends
       PROVE  /\ Line(queue[Other(d)], inbox[Other(d)], Out(d)')
              /\ Tokens(queue[Other(d)], inbox[Other(d)], Out(d)') \subseteq OnWay(d)
  <2>1. Line(queue[Other(d)], inbox[Other(d)], Out(d))
    BY <1>1 DEF LInv
  <2>2. CASE d = e
    BY <1>10, <2>1, <2>2, LineDrop DEF OnWay
  <2>3. CASE d # e
    BY <1>10, <2>1, <2>3 DEF OnWay
  <2> QED BY <2>2, <2>3
<1>12. LInv' /\ Calm
  BY <1>5, <1>11 DEF LInv, Calm, OnWay
<1>13. Caller
  <2>1. at[Client]["main"].op \notin Engaged \/ e # Client
    BY DEF Advise, IsIdle, Engaged
  <2> QED BY <1>2, <1>3, <2>1, CallerStays
<1> QED BY <1>6, <1>7, <1>8, <1>9, <1>12, <1>13 DEF EInv

\* A thread of an end may go over to x without touching what its members send.
Proper(e, t, x) ==
    /\ x \in Frames
    /\ t = "wire" => /\ x.op \in WireOps \ Gives /\ x.rest = <<>>
                     /\ at[e]["wire"].op \notin Gives
    /\ t = "main" => /\ x.op \in MainOps \ Engaged
                     /\ x.op \in StateOps => Has(x.rest, States)
                     /\ at[e]["main"].op \notin Engaged

\* A step of a thread within an end.
LEMMA ProperFrames ==
    ASSUME EInv, NEW e \in Ends, NEW t \in Threads, NEW x, Becomes(e, t, x), Proper(e, t, x),
           sendQ' = sendQ
    PROVE  FInv' /\ (\A d \in Ends : Out(d)' = Out(d)) /\ Caller
<1>1. Types /\ FInv
  BY DEF EInv
<1>2. t = "main" => /\ x.op \in MainOps /\ x.op \notin Engaged /\ at[e]["main"].op \notin Engaged
                    /\ x.op \in StateOps => Has(x.rest, States)
  BY DEF Proper
<1>3. t = "wire" => /\ x.op \in WireOps /\ x.op \notin Gives /\ x.rest = <<>>
                    /\ at[e]["wire"].op \notin Gives
  BY DEF Proper
<1>4. FInv'
  BY <1>1, <1>2, <1>3, Framing DEF Engaged
<1>5. \A d \in Ends : Out(d)' = Out(d)
  BY <1>2, OutStays DEF Engaged, Does
<1>6. Caller
  BY <1>2, <1>3, CallerStays
<1> QED BY <1>4, <1>5, <1>6

\* A step of a thread that sends nothing.
LEMMA ThreadKeeps ==
    ASSUME EInv, NEW e \in Ends, NEW t \in Threads, NEW x, Becomes(e, t, x), Proper(e, t, x),
           ext' \in [Ends -> {"unbound", "advised", "bound", "dying", "ending"}],
           connected' \in [Ends -> BOOLEAN],
           UNCHANGED <<sendQ, inbox, queue, mq, custom>>
    PROVE  EInv' /\ Calm /\ Caller
<1>1. Types /\ KInv /\ DInv /\ LInv
  BY DEF EInv
<1>2. FInv' /\ (\A d \in Ends : Out(d)' = Out(d)) /\ Caller
  BY ProperFrames
<1>3. LInv' /\ Calm
  BY <1>1, <1>2, LinesStay
<1>4. Types'
  BY <1>1 DEF Types, Becomes
<1>5. KInv' /\ DInv'
  BY <1>1 DEF KInv, DInv
<1> QED BY <1>2, <1>3, <1>4, <1>5 DEF EInv

\* A step of a thread that sends a state.
LEMMA StateKeeps ==
    ASSUME EInv, NEW e \in Ends, NEW t \in Threads, NEW x, Becomes(e, t, x), Proper(e, t, x),
           ext' \in [Ends -> {"unbound", "advised", "bound", "dying", "ending"}],
           connected' \in [Ends -> BOOLEAN],
           NEW s \in States, Transmit(e, <<State(s)>>),
           UNCHANGED <<sendQ, queue, mq, custom>>
    PROVE  EInv' /\ Calm /\ Caller
<1>1. Types /\ KInv /\ DInv /\ LInv
  BY DEF EInv
<1>2. FInv' /\ (\A d \in Ends : Out(d)' = Out(d)) /\ Caller
  BY ProperFrames
<1>3. /\ inbox' \in [Ends -> Seq(Messages)]
      /\ \A f \in Ends : Has(inbox'[f], Said(Other(f)) \cup States)
      /\ LInv' /\ Calm
  BY <1>1, <1>2, StateSent
<1>4. Types'
  BY <1>1, <1>3 DEF Types, Becomes
<1>5. KInv' /\ DInv'
  BY <1>1, <1>3 DEF KInv, DInv
<1> QED BY <1>2, <1>3, <1>4, <1>5 DEF EInv

\* Ready is sent, unless the lifetime has ended.
LEMMA SendReadyKeeps == ASSUME EInv, NEW e \in Ends, SendReady(e) PROVE EInv' /\ Calm /\ Caller
<1>1. Types
  BY DEF EInv
<1>2. /\ "main" \in Threads /\ "Ready" \in States
      /\ \A op \in {"idle", "close"} : op \in MainOps /\ op \notin StateOps \cup Engaged
      /\ at[e]["main"].op \notin Engaged
  BY DEF Threads, MainOps, StateOps, Engaged, States, SendReady, Does
<1>3. /\ ext' \in [Ends -> {"unbound", "advised", "bound", "dying", "ending"}]
      /\ connected' \in [Ends -> BOOLEAN]
      /\ UNCHANGED <<sendQ, queue, mq, custom>>
  BY <1>1 DEF Types, SendReady, extvars
<1>4. CASE ext[e] = "advised"
  <2> DEFINE x == [at[e]["main"] EXCEPT !.op = "close"]
  <2>1. GoesOn(e, "main", "close") /\ Transmit(e, <<State("Ready")>>)
    BY <1>4 DEF SendReady
  <2>2. Becomes(e, "main", x) /\ at'[e]["main"].op = "close"
    BY <1>1, <1>2, <2>1, GoingOn
  <2> HIDE DEF x
  <2>3. at'[e]["main"] = x /\ x \in Frames
    BY <1>2, <2>2 DEF Becomes
  <2>4. Proper(e, "main", x)
    BY <1>2, <2>2, <2>3 DEF Proper
  <2> QED BY <1>2, <1>3, <2>1, <2>2, <2>4, StateKeeps
<1>5. CASE ext[e] # "advised"
  <2>1. Halts(e, "main") /\ inbox' = inbox
    BY <1>5 DEF SendReady
  <2>2. Becomes(e, "main", Idle)
    BY <1>1, <1>2, <2>1, Going, IdleFields DEF Halts
  <2>3. Proper(e, "main", Idle)
    BY <1>2, IdleFields DEF Proper
  <2> QED BY <1>2, <1>3, <2>1, <2>2, <2>3, ThreadKeeps
<1> QED BY <1>4, <1>5

\* The end is bound.
LEMMA AddClosingKeeps == ASSUME EInv, NEW e \in Ends, AddClosing(e) PROVE EInv' /\ Calm /\ Caller
<1>1. Types
  BY DEF EInv
<1>2. /\ "main" \in Threads /\ "idle" \in MainOps /\ "idle" \notin StateOps \cup Engaged
      /\ at[e]["main"].op \notin Engaged
  BY DEF Threads, MainOps, StateOps, Engaged, AddClosing, Does
<1>3. Becomes(e, "main", Idle)
  BY <1>1, <1>2, Going, IdleFields DEF AddClosing, Halts
<1>4. Proper(e, "main", Idle)
  BY <1>2, IdleFields DEF Proper
<1>5. /\ ext' \in [Ends -> {"unbound", "advised", "bound", "dying", "ending"}]
      /\ connected' \in [Ends -> BOOLEAN]
      /\ UNCHANGED <<sendQ, inbox, queue, mq, custom>>
  BY <1>1 DEF Types, AddClosing, wirevars
<1> QED BY <1>2, <1>3, <1>4, <1>5, ThreadKeeps

\* The wire thread goes on from op to something that is none of its own.
LEMMA WireProperly ==
    ASSUME EInv, NEW e \in Ends, NEW op \in {"end", "unbind"}, GoesOn(e, "wire", op),
           at[e]["wire"].op \notin Gives
    PROVE  \E x : Becomes(e, "wire", x) /\ Proper(e, "wire", x)
<1>1. Types /\ FrameInv(e, at[e]["main"], at[e]["wire"])
  BY DEF EInv, FInv
<1> DEFINE x == [at[e]["wire"] EXCEPT !.op = op]
<1>2. "wire" \in Threads /\ op \in WireOps \ Gives /\ "wire" # "main"
  BY DEF Threads, WireOps, Gives
<1>3. /\ Becomes(e, "wire", x) /\ at'[e]["wire"].op = op
      /\ at'[e]["wire"].rest = at[e]["wire"].rest
  BY <1>1, <1>2, GoingOn
<1>4. at'[e]["wire"] = x /\ at'[e]["wire"] \in Frames
  BY <1>2, <1>3 DEF Becomes
<1>5. at[e]["wire"].rest = <<>>
  BY <1>1 DEF FrameInv
<1> HIDE DEF x
<1>6. Proper(e, "wire", x)
  BY <1>2, <1>3, <1>4, <1>5 DEF Proper
<1> QED BY <1>3, <1>6

\* It ends during init(), ...
LEMMA EndEarlyKeeps == ASSUME EInv, NEW e \in Ends, EndEarly(e) PROVE EInv' /\ Calm /\ Caller
<1>1. Types
  BY DEF EInv
<1>2. "wire" \in Threads /\ at[e]["wire"].op \notin Gives
  BY DEF Threads, Gives, EndEarly, IsIdle
<1>3. PICK x : Becomes(e, "wire", x) /\ Proper(e, "wire", x)
  BY <1>2, WireProperly DEF EndEarly
<1>4. /\ ext' \in [Ends -> {"unbound", "advised", "bound", "dying", "ending"}]
      /\ connected' \in [Ends -> BOOLEAN]
      /\ UNCHANGED <<sendQ, inbox, queue, mq, custom>>
  BY <1>1 DEF Types, EndEarly, wirevars
<1> QED BY <1>2, <1>3, <1>4, ThreadKeeps

\* ... or later, ...
LEMMA EndLifetimeKeeps == ASSUME EInv, NEW e \in Ends, EndLifetime(e) PROVE EInv' /\ Calm /\ Caller
<1>1. Types
  BY DEF EInv
<1>2. "wire" \in Threads /\ at[e]["wire"].op \notin Gives
  BY DEF Threads, Gives, EndLifetime, IsIdle
<1>3. PICK x : Becomes(e, "wire", x) /\ Proper(e, "wire", x)
  BY <1>2, WireProperly DEF EndLifetime
<1>4. /\ ext' \in [Ends -> {"unbound", "advised", "bound", "dying", "ending"}]
      /\ connected' \in [Ends -> BOOLEAN]
      /\ UNCHANGED <<sendQ, inbox, queue, mq, custom>>
  BY <1>1 DEF Types, EndLifetime, wirevars
<1> QED BY <1>2, <1>3, <1>4, ThreadKeeps

\* ... Disconnected is sent ...
LEMMA SendDisconnectedKeeps ==
    ASSUME EInv, NEW e \in Ends, SendDisconnected(e) PROVE EInv' /\ Calm /\ Caller
<1>1. Types
  BY DEF EInv
<1>2. "wire" \in Threads /\ at[e]["wire"].op \notin Gives /\ "Disconnected" \in States
  BY DEF Threads, Gives, States, SendDisconnected, Does
<1>3. PICK x : Becomes(e, "wire", x) /\ Proper(e, "wire", x)
  BY <1>2, WireProperly DEF SendDisconnected
<1>4. /\ ext' \in [Ends -> {"unbound", "advised", "bound", "dying", "ending"}]
      /\ connected' \in [Ends -> BOOLEAN]
      /\ UNCHANGED <<sendQ, queue, mq, custom>>
      /\ Transmit(e, <<State("Disconnected")>>)
  BY <1>1 DEF Types, SendDisconnected
<1> QED BY <1>2, <1>3, <1>4, StateKeeps

\* ... and the subscription ends.
LEMMA UnsubscribeKeeps == ASSUME EInv, NEW e \in Ends, Unsubscribe(e) PROVE EInv' /\ Calm /\ Caller
<1>1. Types
  BY DEF EInv
<1>2. /\ "wire" \in Threads /\ "idle" \in WireOps \ Gives /\ "wire" # "main"
      /\ at[e]["wire"].op \notin Gives
  BY DEF Threads, WireOps, Gives, Unsubscribe, Does
<1>3. Becomes(e, "wire", Idle)
  BY <1>1, <1>2, Going, IdleFields DEF Unsubscribe, Halts
<1>4. Proper(e, "wire", Idle)
  BY <1>2, IdleFields DEF Proper
<1>5. /\ ext' \in [Ends -> {"unbound", "advised", "bound", "dying", "ending"}]
      /\ connected' \in [Ends -> BOOLEAN]
      /\ UNCHANGED <<sendQ, inbox, queue, mq, custom>>
  BY <1>1 DEF Types, Unsubscribe, wirevars
<1> QED BY <1>2, <1>3, <1>4, <1>5, ThreadKeeps

\* The states that are sent at a start.
LEMMA StartFields ==
    ASSUME NEW m \in Messages, m.op \in States, NEW r \in Seq(Messages)
    PROVE  Start(m, r) \in Frames /\ Start(m, r).op \in StateOps /\ Start(m, r).rest = r
<1> DEFINE op == CASE m.op = "Ready" -> "answer"
                   [] m.op = "ReceivedCounterpart" -> "set"
                   [] OTHER -> "unset"
<1>1. op \in StateOps
  BY DEF StateOps
<1>2. Start(m, r) = Doing(op, m, r)
  BY DEF Start
<1> HIDE DEF op
<1>3. op \in WireOps \cup MainOps
  BY <1>1 DEF WireOps
<1> QED BY <1>1, <1>2, <1>3, DoingFields

\* A thread returns as the invariant of the frames says, ...
LEMMA ReturnsProperly ==
    ASSUME EInv, NEW e \in Ends, NEW t \in Threads, at[e][t].op \in StateOps, Returns(e, t)
    PROVE  \E x : Becomes(e, t, x) /\ Proper(e, t, x)
<1>1. Types /\ FrameInv(e, at[e]["main"], at[e]["wire"])
  BY DEF EInv, FInv
<1>2. /\ t \in {"main", "wire"} /\ at[e][t].rest \in Seq(Messages)
      /\ at[e]["wire"].rest = <<>>
      /\ t = "main" => Has(at[e][t].rest, States) /\ at[e]["main"].op \notin Engaged
      /\ t = "wire" => at[e]["wire"].op \notin Gives
  <2>1. at[e][t] \in Frames
    BY <1>1 DEF Types
  <2> QED BY <1>1, <2>1, FrameFields DEF FrameInv, Threads, Engaged, StateOps, Gives
<1>3. CASE at[e][t].rest = <<>>
  <2>1. Becomes(e, t, Idle)
    BY <1>1, <1>3, Going, IdleFields DEF Returns
  <2>2. Proper(e, t, Idle)
    BY <1>2, IdleFields DEF Proper, WireOps, MainOps, StateOps, Engaged, Gives
  <2> QED BY <2>1, <2>2
<1>4. CASE at[e][t].rest # <<>>
  <2> DEFINE r == at[e][t].rest
             x == Start(Head(r), Tail(r))
  <2>1. t = "main" /\ Has(r, States) /\ r \in Seq(Messages)
    BY <1>2, <1>4
  <2>2. /\ Has(Tail(r), States) /\ Head(r).op \in States
        /\ Head(r) \in Messages /\ Tail(r) \in Seq(Messages)
    BY <1>4, <2>1, HasTail
  <2>3. x \in Frames /\ x.op \in StateOps /\ x.rest = Tail(r)
    BY <2>2, StartFields
  <2>4. Goes(e, t, x)
    BY <1>4 DEF Returns
  <2>5. Has(x.rest, States)
    BY <2>2, <2>3
  <2> HIDE DEF r, x
  <2>6. Becomes(e, t, x)
    BY <1>1, <2>3, <2>4, Going
  <2>7. Proper(e, t, x)
    BY <1>2, <2>1, <2>3, <2>5 DEF Proper, MainOps, StateOps, Engaged
  <2> QED BY <2>6, <2>7
<1> QED BY <1>3, <1>4

\* ... or goes on so.
LEMMA GoesOnProperly ==
    ASSUME EInv, NEW e \in Ends, NEW t \in Threads, at[e][t].op \in StateOps,
           NEW op \in StateOps, GoesOn(e, t, op)
    PROVE  \E x : Becomes(e, t, x) /\ Proper(e, t, x)
<1>1. Types /\ FrameInv(e, at[e]["main"], at[e]["wire"])
  BY DEF EInv, FInv
<1>2. /\ op \in WireOps /\ op \in MainOps /\ op \notin Engaged /\ at[e][t].op \notin Engaged
      /\ op \notin Gives /\ at[e][t].op \notin Gives
  BY DEF WireOps, MainOps, StateOps, Engaged, Gives
<1> DEFINE x == [at[e][t] EXCEPT !.op = op]
<1>3. /\ Becomes(e, t, x) /\ at'[e][t].op = op /\ at'[e][t].rest = at[e][t].rest
  BY <1>1, <1>2, GoingOn
<1> HIDE DEF x
<1>4. at'[e][t] = x /\ at'[e][t] \in Frames
  BY <1>3 DEF Becomes
<1>5. /\ t = "wire" => at[e][t].rest = <<>>
      /\ t = "main" => Has(at[e][t].rest, States)
  BY <1>1 DEF FrameInv
<1>6. Proper(e, t, x)
  BY <1>2, <1>3, <1>4, <1>5 DEF Proper
<1> QED BY <1>3, <1>6

\* A state is answered.
LEMMA AnswerKeeps ==
    ASSUME EInv, NEW e \in Ends, NEW t \in Threads, Answer(e, t) PROVE EInv' /\ Calm /\ Caller
<1>1. Types
  BY DEF EInv
<1>2. "set" \in StateOps /\ at[e][t].op \in StateOps /\ "ReceivedCounterpart" \in States
  BY DEF Answer, Does, StateOps, States
<1>3. PICK x : Becomes(e, t, x) /\ Proper(e, t, x)
  BY <1>2, GoesOnProperly DEF Answer
<1>4. /\ ext' \in [Ends -> {"unbound", "advised", "bound", "dying", "ending"}]
      /\ connected' \in [Ends -> BOOLEAN]
      /\ UNCHANGED <<sendQ, queue, mq, custom>>
  BY <1>1 DEF Types, Answer, extvars
<1>5. CASE Subscribed(e)
  <2>1. Transmit(e, <<State("ReceivedCounterpart")>>)
    BY <1>5 DEF Answer
  <2> QED BY <1>2, <1>3, <1>4, <2>1, StateKeeps
<1>6. CASE ~Subscribed(e)
  <2>1. UNCHANGED <<sendQ, inbox, queue, mq, custom>>
    BY <1>4, <1>6 DEF Answer
  <2> QED BY <1>3, <1>4, <2>1, ThreadKeeps
<1> QED BY <1>5, <1>6

\* The end is connected: what was kept back is to be sent.
LEMMA SetConnectedKeeps ==
    ASSUME EInv, NEW e \in Ends, NEW t \in Threads, SetConnected(e, t)
    PROVE  EInv' /\ Calm /\ Caller
<1>1. Types
  BY DEF EInv
<1>2. "flush" \in StateOps /\ at[e][t].op \in StateOps
  BY DEF SetConnected, Does, StateOps
<1>3. PICK x : Becomes(e, t, x) /\ Proper(e, t, x)
  BY <1>2, GoesOnProperly, ReturnsProperly DEF SetConnected
<1>4. /\ ext' \in [Ends -> {"unbound", "advised", "bound", "dying", "ending"}]
      /\ connected' \in [Ends -> BOOLEAN]
      /\ UNCHANGED <<sendQ, inbox, queue, mq, custom>>
  BY <1>1 DEF Types, SetConnected, wirevars
<1> QED BY <1>3, <1>4, ThreadKeeps

\* The end is not connected any more.
LEMMA SetDisconnectedKeeps ==
    ASSUME EInv, NEW e \in Ends, NEW t \in Threads, SetDisconnected(e, t)
    PROVE  EInv' /\ Calm /\ Caller
<1>1. Types
  BY DEF EInv
<1>2. at[e][t].op \in StateOps
  BY DEF SetDisconnected, Does, StateOps
<1>3. PICK x : Becomes(e, t, x) /\ Proper(e, t, x)
  BY <1>2, ReturnsProperly DEF SetDisconnected
<1>4. /\ ext' \in [Ends -> {"unbound", "advised", "bound", "dying", "ending"}]
      /\ connected' \in [Ends -> BOOLEAN]
      /\ UNCHANGED <<sendQ, inbox, queue, mq, custom>>
  BY <1>1 DEF Types, SetDisconnected, wirevars
<1> QED BY <1>3, <1>4, ThreadKeeps

\* The wire has what an end was about to send.
LEMMA OutIsSent ==
    ASSUME Types, KInv, LInv, NEW e \in Ends, NEW ms \in Seq(Messages), ms = Out(e),
           Transmit(e, ms), Has(ms, Said(e)), queue' = queue, Out(e)' = <<>>,
           \A d \in Ends : d # e => Out(d)' = Out(d)
    PROVE  /\ inbox' \in [Ends -> Seq(Messages)]
           /\ \A f \in Ends : Has(inbox'[f], Said(Other(f)) \cup States)
           /\ LInv' /\ Calm
<1>1. /\ inbox' \in [Ends -> Seq(Messages)]
      /\ inbox'[Other(e)] = inbox[Other(e)] \o ms
      /\ inbox'[e] = inbox[e]
  BY Transmits
<1>2. ASSUME NEW f \in Ends PROVE Has(inbox'[f], Said(Other(f)) \cup States)
  <2>1. Has(inbox[f], Said(Other(f)) \cup States) /\ inbox[f] \in Seq(Messages)
    BY Queues DEF KInv
  <2>2. CASE f = e
    BY <1>1, <2>1, <2>2
  <2>3. CASE f = Other(e)
    <3>1. Has(ms, Said(Other(f)) \cup States)
      BY <2>3, TwoEnds DEF Has
    <3>2. Has(inbox[f] \o ms, Said(Other(f)) \cup States)
      BY <2>1, <3>1, HasJoin
    <3>3. inbox'[f] = inbox[f] \o ms
      BY <1>1, <2>3
    <3> QED BY <3>2, <3>3
  <2> QED BY <2>2, <2>3, TwoEnds
<1>3. ASSUME NEW d \in Ends
      PROVE  /\ Line(queue[Other(d)], inbox'[Other(d)], Out(d)')
             /\ Tokens(queue[Other(d)], inbox'[Other(d)], Out(d)') = OnWay(d)
  <2>1. /\ queue[Other(d)] \in Seq(Messages) /\ inbox[Other(d)] \in Seq(Messages)
        /\ Out(d) \in Seq(Messages)
        /\ Line(queue[Other(d)], inbox[Other(d)], Out(d))
    BY Queues, TwoEnds DEF LInv
  <2>2. CASE d = e
    <3>1. /\ Line(queue[Other(d)], inbox[Other(d)] \o ms, <<>>)
          /\ Tokens(queue[Other(d)], inbox[Other(d)] \o ms, <<>>) = OnWay(d)
      BY <2>1, <2>2, LineFlush DEF OnWay
    <3> QED BY <1>1, <2>2, <3>1
  <2>3. CASE d # e
    BY <1>1, <2>1, <2>3, TwoEnds DEF OnWay
  <2> QED BY <2>2, <2>3
<1>4. LInv'
  BY <1>3, TwoEnds DEF LInv
<1>5. \A d \in Ends : OnWay(d)' = OnWay(d)
  BY <1>3 DEF OnWay
<1> QED BY <1>1, <1>2, <1>4, <1>5 DEF Calm

\* What was kept back is sent in its order.
LEMMA FlushKeeps ==
    ASSUME EInv, NEW e \in Ends, NEW t \in Threads, Flush(e, t)
    PROVE  EInv' /\ Calm /\ Caller
<1>1. Types /\ KInv /\ FInv /\ DInv /\ LInv
  BY DEF EInv
<1>2. at[e][t].op \in StateOps /\ at[e][t].op = "flush" /\ "main" \in Threads
  BY DEF Flush, Does, StateOps, Threads
<1>3. PICK x : Becomes(e, t, x) /\ Proper(e, t, x)
  BY <1>2, ReturnsProperly DEF Flush
<1>4. /\ sendQ' \in [Ends -> Seq(Messages)] /\ sendQ'[e] = <<>>
      /\ \A d \in Ends : d # e => sendQ'[d] = sendQ[d]
  <2>1. <<>> \in Seq(Messages) /\ sendQ \in [Ends -> Seq(Messages)]
    BY <1>1 DEF Types
  <2> QED BY <2>1, Updates DEF Flush
<1>5. /\ ext' \in [Ends -> {"unbound", "advised", "bound", "dying", "ending"}]
      /\ connected' \in [Ends -> BOOLEAN]
      /\ UNCHANGED <<queue, mq, custom>>
      /\ Transmit(e, sendQ[e]) /\ sendQ[e] \in Seq(Messages) /\ Has(sendQ[e], Said(e))
  BY <1>1, Queues DEF Types, Flush, KInv
<1>6. \A d \in Ends : d # e => Out(d)' = Out(d)
  <2>1. \A d \in Ends : d # e => at'[d]["main"] = at[d]["main"]
    BY <1>2, <1>3 DEF Becomes
  <2> QED BY <1>4, <2>1 DEF Out, Does
<1>7. FInv'
  <2>1. t = "main" => /\ x.op \in MainOps /\ x.op \notin Engaged
                      /\ x.op \in StateOps => Has(x.rest, States)
    BY <1>3 DEF Proper
  <2>2. t = "wire" => x.op \in WireOps /\ x.op \notin Gives /\ x.rest = <<>>
    BY <1>3 DEF Proper
  <2> QED BY <1>1, <1>3, <1>4, <2>1, <2>2, Framing DEF Engaged
<1>8. Caller
  BY <1>3, CallerStays DEF Proper
<1>9. /\ inbox' \in [Ends -> Seq(Messages)]
      /\ \A f \in Ends : Has(inbox'[f], Said(Other(f)) \cup States)
      /\ LInv' /\ Calm
  <2>1. CASE Does(e, "main", "send")
    <3>1. t # "main"
      BY <1>2, <2>1 DEF Does
    <3>2. at'[e]["main"] = at[e]["main"]
      BY <1>2, <1>3, <3>1 DEF Becomes
    <3>3. \A d \in Ends : Out(d)' = Out(d)
      <4>1. Out(e)' = Out(e)
        BY <2>1, <3>2 DEF Out, Does
      <4> QED BY <1>6, <4>1
    <3>4. sendQ[e] = <<>>
      BY <1>1, <2>1 DEF FInv, FrameInv, Does
    <3>5. inbox' = inbox
      <4>1. /\ inbox' \in [Ends -> Seq(Messages)]
            /\ inbox'[Other(e)] = inbox[Other(e)] \o sendQ[e]
            /\ inbox'[e] = inbox[e]
        BY <1>1, <1>5, Transmits
      <4>2. inbox[Other(e)] \o <<>> = inbox[Other(e)]
        BY <1>1, Queues, TwoEnds, ConcatEmptySeq
      <4>3. \A f \in Ends : inbox'[f] = inbox[f]
        BY <3>4, <4>1, <4>2, TwoEnds
      <4> QED BY <1>1, <4>1, <4>3 DEF Types
    <3>6. LInv' /\ Calm
      BY <1>1, <1>5, <3>3, <3>5, LinesStay
    <3> QED BY <1>1, <3>5, <3>6 DEF Types, KInv
  <2>2. CASE ~Does(e, "main", "send")
    <3>1. ~Does(e, "main", "send")'
      <4>1. CASE t = "main"
        BY <1>3, <4>1 DEF Becomes, Proper, Does, Engaged
      <4>2. CASE t # "main"
        BY <1>2, <1>3, <2>2, <4>2 DEF Becomes, Does
      <4> QED BY <4>1, <4>2
    <3>2. Out(e) = sendQ[e] /\ Out(e)' = <<>>
      BY <1>4, <2>2, <3>1 DEF Out
    <3> QED BY <1>1, <1>5, <1>6, <3>2, OutIsSent
  <2> QED BY <2>1, <2>2
<1>10. Types'
  BY <1>1, <1>3, <1>4, <1>5, <1>9 DEF Types, Becomes
<1>11. KInv'
  BY <1>1, <1>4, <1>5, <1>9, HasNothing DEF KInv
<1>12. DInv'
  BY <1>1, <1>5 DEF DInv
<1> QED BY <1>7, <1>8, <1>9, <1>10, <1>11, <1>12 DEF EInv

-----------------------------------------------------------------------------
(* Receiving                                                               *)

\* A message is taken from the wire, ...
LEMMA InboxTail ==
    ASSUME Types, KInv, NEW e \in Ends, inbox[e] # <<>>,
           inbox' = [inbox EXCEPT ![e] = Tail(@)]
    PROVE  /\ inbox' \in [Ends -> Seq(Messages)]
           /\ inbox'[e] = Tail(inbox[e]) /\ \A f \in Ends : f # e => inbox'[f] = inbox[f]
           /\ \A f \in Ends : Has(inbox'[f], Said(Other(f)) \cup States)
           /\ Head(inbox[e]) \in Messages /\ Head(inbox[e]).op \in Said(Other(e)) \cup States
<1>1. /\ inbox \in [Ends -> Seq(Messages)] /\ inbox[e] \in Seq(Messages)
      /\ \A f \in Ends : Has(inbox[f], Said(Other(f)) \cup States)
  BY DEF Types, KInv
<1>2. /\ Has(Tail(inbox[e]), Said(Other(e)) \cup States) /\ Tail(inbox[e]) \in Seq(Messages)
      /\ Head(inbox[e]) \in Messages /\ Head(inbox[e]).op \in Said(Other(e)) \cup States
  BY <1>1, HasTail
<1>3. /\ inbox' \in [Ends -> Seq(Messages)] /\ inbox'[e] = Tail(inbox[e])
      /\ \A f \in Ends : f # e => inbox'[f] = inbox[f]
  BY <1>1, <1>2, Updates
<1> QED BY <1>1, <1>2, <1>3

\* ... or from the queue of the scheduler, ...
LEMMA QueueTail ==
    ASSUME Types, KInv, NEW e \in Ends, queue[e] # <<>>,
           queue' = [queue EXCEPT ![e] = Tail(@)]
    PROVE  /\ queue' \in [Ends -> Seq(Messages)]
           /\ queue'[e] = Tail(queue[e]) /\ \A f \in Ends : f # e => queue'[f] = queue[f]
           /\ \A f \in Ends : Has(queue'[f], Said(Other(f)) \cup {"deferred"})
           /\ Head(queue[e]) \in Messages
           /\ Head(queue[e]).op \in Said(Other(e)) \cup {"deferred"}
<1>1. /\ queue \in [Ends -> Seq(Messages)] /\ queue[e] \in Seq(Messages)
      /\ \A f \in Ends : Has(queue[f], Said(Other(f)) \cup {"deferred"})
  BY DEF Types, KInv
<1>2. /\ Has(Tail(queue[e]), Said(Other(e)) \cup {"deferred"})
      /\ Tail(queue[e]) \in Seq(Messages)
      /\ Head(queue[e]) \in Messages /\ Head(queue[e]).op \in Said(Other(e)) \cup {"deferred"}
  BY <1>1, HasTail
<1>3. /\ queue' \in [Ends -> Seq(Messages)] /\ queue'[e] = Tail(queue[e])
      /\ \A f \in Ends : f # e => queue'[f] = queue[f]
  BY <1>1, <1>2, Updates
<1> QED BY <1>1, <1>2, <1>3

\* ... or put into it.
LEMMA QueueAppend ==
    ASSUME Types, KInv, NEW e \in Ends, NEW m \in Messages,
           m.op \in Said(Other(e)) \cup {"deferred"},
           queue' = [queue EXCEPT ![e] = Append(@, m)]
    PROVE  /\ queue' \in [Ends -> Seq(Messages)]
           /\ queue'[e] = Append(queue[e], m) /\ \A f \in Ends : f # e => queue'[f] = queue[f]
           /\ \A f \in Ends : Has(queue'[f], Said(Other(f)) \cup {"deferred"})
<1>1. /\ queue \in [Ends -> Seq(Messages)] /\ queue[e] \in Seq(Messages)
      /\ \A f \in Ends : Has(queue[f], Said(Other(f)) \cup {"deferred"})
  BY DEF Types, KInv
<1>2. Has(Append(queue[e], m), Said(Other(e)) \cup {"deferred"})
  BY <1>1, HasAppend
<1>3. Append(queue[e], m) \in Seq(Messages)
  BY <1>1, AppendIndices
<1>4. /\ queue' \in [Ends -> Seq(Messages)] /\ queue'[e] = Append(queue[e], m)
      /\ \A f \in Ends : f # e => queue'[f] = queue[f]
  BY <1>1, <1>3, Updates
<1> QED BY <1>1, <1>2, <1>4

\* One end has received something or taken something from its queue.
LEMMA OneLine ==
    ASSUME LInv, NEW e \in Ends, \A d \in Ends : Out(d)' = Out(d),
           \A f \in Ends : f # e => inbox'[f] = inbox[f] /\ queue'[f] = queue[f],
           Line(queue'[e], inbox'[e], Out(Other(e))),
           Tokens(queue'[e], inbox'[e], Out(Other(e))) \subseteq OnWay(Other(e)),
           CallsIn(queue'[e]) \subseteq CallsIn(queue[e])
    PROVE  LInv' /\ Calm
<1>1. ASSUME NEW d \in Ends
      PROVE  /\ Line(queue'[Other(d)], inbox'[Other(d)], Out(d))
             /\ Tokens(queue'[Other(d)], inbox'[Other(d)], Out(d)) \subseteq OnWay(d)
  <2>1. CASE Other(d) = e
    BY <2>1, TwoEnds
  <2>2. CASE Other(d) # e
    BY <2>2, TwoEnds DEF LInv, OnWay
  <2> QED BY <2>1, <2>2
<1>2. LInv'
  BY <1>1, TwoEnds DEF LInv
<1>3. \A d \in Ends : OnWay(d)' \subseteq OnWay(d)
  BY <1>1 DEF OnWay
<1> QED BY <1>2, <1>3 DEF Calm

\* The line of messages to one end.
LEMMA LineOf ==
    ASSUME Types, LInv, NEW e \in Ends
    PROVE  /\ Line(queue[e], inbox[e], Out(Other(e)))
           /\ OnWay(Other(e)) = Tokens(queue[e], inbox[e], Out(Other(e)))
           /\ queue[e] \in Seq(Messages) /\ inbox[e] \in Seq(Messages)
           /\ Out(Other(e)) \in Seq(Messages)
<1>1. Other(e) \in Ends /\ Other(Other(e)) = e
  BY TwoEnds
<1> QED BY <1>1, Queues DEF LInv, OnWay

\* A state arrives.
LEMMA ReceiveStateKeeps ==
    ASSUME EInv, NEW e \in Ends, ReceiveState(e) PROVE EInv' /\ Calm /\ Caller
<1>1. Types /\ KInv /\ FInv /\ DInv /\ LInv
  BY DEF EInv
<1> DEFINE m == Head(inbox[e])
<1>2. /\ inbox' \in [Ends -> Seq(Messages)]
      /\ inbox'[e] = Tail(inbox[e]) /\ \A f \in Ends : f # e => inbox'[f] = inbox[f]
      /\ \A f \in Ends : Has(inbox'[f], Said(Other(f)) \cup States)
      /\ m \in Messages
  BY <1>1, InboxTail DEF ReceiveState
<1>3. m.op \in States /\ inbox[e] # <<>> /\ UNCHANGED <<ext, connected, sendQ>>
  BY DEF ReceiveState, extvars
<1>4. /\ Line(queue[e], Tail(inbox[e]), Out(Other(e)))
      /\ Tokens(queue[e], Tail(inbox[e]), Out(Other(e))) \subseteq OnWay(Other(e))
      /\ queue[e] \in Seq(Messages)
  BY <1>1, <1>3, LineOf, LineSkip
<1> HIDE DEF m
<1>5. CASE /\ Goes(e, "wire", Start(m, <<>>))
           /\ UNCHANGED <<queue, mq, custom>>
  <2> DEFINE x == Start(m, <<>>)
  <2>1. "wire" \in Threads /\ <<>> \in Seq(Messages) /\ "wire" # "main"
    BY DEF Threads
  <2>2. x \in Frames /\ x.op \in StateOps /\ x.rest = <<>>
    BY <1>2, <1>3, <2>1, StartFields
  <2> HIDE DEF x
  <2>3. Becomes(e, "wire", x)
    BY <1>1, <1>5, <2>1, <2>2, Going DEF x
  <2>4. Proper(e, "wire", x)
    <3>1. at[e]["wire"].op \notin Gives /\ x.op \notin Gives
      BY <2>2 DEF ReceiveState, IsIdle, Gives, StateOps
    <3> QED BY <2>1, <2>2, <3>1 DEF Proper, WireOps
  <2>5. FInv' /\ (\A d \in Ends : Out(d)' = Out(d)) /\ Caller
    BY <1>3, <2>1, <2>3, <2>4, ProperFrames
  <2>6. LInv' /\ Calm
    BY <1>1, <1>2, <1>4, <1>5, <2>5, OneLine
  <2>7. Types'
    BY <1>1, <1>2, <1>3, <1>5, <2>3 DEF Types, Becomes
  <2>8. KInv' /\ DInv'
    BY <1>1, <1>2, <1>3, <1>5 DEF KInv, DInv
  <2> QED BY <2>5, <2>6, <2>7, <2>8 DEF EInv
<1>6. ASSUME at' = at
      PROVE  FInv' /\ (\A d \in Ends : Out(d)' = Out(d)) /\ Caller
  BY <1>1, <1>3, <1>6 DEF FInv, FrameInv, Out, Does, Caller, Speaker, Giver, Waits, InProgress
<1>7. CASE /\ custom' = [custom EXCEPT ![e] = Append(@, m)]
           /\ UNCHANGED <<queue, mq, at>>
  <2>1. LInv' /\ Calm
    BY <1>1, <1>2, <1>4, <1>6, <1>7, OneLine
  <2>2. /\ custom' \in [Ends -> Seq(Messages)]
        /\ custom'[e] = Append(custom[e], m) /\ \A f \in Ends : f # e => custom'[f] = custom[f]
    <3>1. Append(custom[e], m) \in Seq(Messages) /\ custom \in [Ends -> Seq(Messages)]
      BY <1>1, <1>2, AppendIndices DEF Types
    <3> QED BY <1>7, <3>1, Updates
  <2>3. \A f \in Ends : Has(custom'[f], States)
    <3>1. Has(Append(custom[e], m), States)
      BY <1>1, <1>2, <1>3, Queues, HasAppend DEF KInv
    <3> QED BY <1>1, <2>2, <3>1 DEF KInv
  <2>4. Types'
    BY <1>1, <1>2, <1>3, <1>7, <2>2 DEF Types
  <2>5. KInv' /\ DInv'
    BY <1>1, <1>2, <1>3, <1>7, <2>3 DEF KInv, DInv
  <2> QED BY <1>6, <1>7, <2>1, <2>4, <2>5 DEF EInv
<1>8. CASE Defer(e, m) /\ UNCHANGED <<custom, at>>
  <2> DEFINE s == State("deferred")
  <2>1. s \in Messages /\ s.op = "deferred" /\ s.op \notin Calls
    BY Words DEF Kinds, Calls
  <2>2. queue' = [queue EXCEPT ![e] = Append(@, s)] /\ mq' = [mq EXCEPT ![e] = Append(@, m)]
    BY <1>8 DEF Defer
  <2> HIDE DEF s
  <2>3. /\ queue' \in [Ends -> Seq(Messages)]
        /\ queue'[e] = Append(queue[e], s) /\ \A f \in Ends : f # e => queue'[f] = queue[f]
        /\ \A f \in Ends : Has(queue'[f], Said(Other(f)) \cup {"deferred"})
    BY <1>1, <2>1, <2>2, QueueAppend
  <2>4. /\ Line(queue'[e], inbox'[e], Out(Other(e)))
        /\ Tokens(queue'[e], inbox'[e], Out(Other(e))) \subseteq OnWay(Other(e))
        /\ CallsIn(queue'[e]) \subseteq CallsIn(queue[e])
    BY <1>2, <1>4, <2>1, <2>3, LineDefer
  <2>5. LInv' /\ Calm
    BY <1>1, <1>2, <1>6, <1>8, <2>3, <2>4, OneLine
  <2>6. /\ mq[e] \in Seq(Messages) /\ mq \in [Ends -> Seq(Messages)]
        /\ Append(mq[e], m) \in Seq(Messages) /\ Len(Append(mq[e], m)) = Len(mq[e]) + 1
    BY <1>1, <1>2, Queues, AppendIndices DEF Types
  <2>7. /\ mq' \in [Ends -> Seq(Messages)]
        /\ mq'[e] = Append(mq[e], m) /\ \A f \in Ends : f # e => mq'[f] = mq[f]
    BY <2>2, <2>6, Updates
  <2>8. \A f \in Ends : Has(mq'[f], States)
    <3>1. Has(Append(mq[e], m), States)
      BY <1>1, <1>2, <1>3, <2>6, HasAppend DEF KInv
    <3> QED BY <1>1, <2>7, <3>1 DEF KInv
  <2>9. DInv'
    <3>1. Cardinality(Deferrals(queue'[e])) = Cardinality(Deferrals(queue[e])) + 1
      BY <1>4, <2>1, <2>3, DeferralsOfAppend
    <3>2. Len(mq'[e]) = Cardinality(Deferrals(queue'[e]))
      BY <1>1, <2>6, <2>7, <3>1 DEF DInv
    <3> QED BY <1>1, <2>3, <2>7, <3>2 DEF DInv
  <2>10. Types'
    BY <1>1, <1>2, <1>3, <1>8, <2>3, <2>7 DEF Types
  <2>11. KInv'
    BY <1>1, <1>2, <1>3, <1>8, <2>3, <2>8 DEF KInv
  <2> QED BY <1>6, <1>8, <2>5, <2>9, <2>10, <2>11 DEF EInv
<1> QED BY <1>5, <1>7, <1>8 DEF ReceiveState, m

\* A deferred action finds the state that it is for.
LEMMA RunDeferredKeeps ==
    ASSUME EInv, NEW e \in Ends, RunDeferred(e) PROVE EInv' /\ Calm /\ Caller
<1>1. Types /\ KInv /\ FInv /\ DInv /\ LInv
  BY DEF EInv
<1> DEFINE rest == IF mq'[e] = <<>> THEN custom[e] ELSE <<>>
           x == Start(Head(mq[e]), rest)
<1>2. /\ queue' \in [Ends -> Seq(Messages)]
      /\ queue'[e] = Tail(queue[e]) /\ \A f \in Ends : f # e => queue'[f] = queue[f]
      /\ \A f \in Ends : Has(queue'[f], Said(Other(f)) \cup {"deferred"})
  BY <1>1, QueueTail DEF RunDeferred
<1>3. /\ queue[e] # <<>> /\ Head(queue[e]).op = "deferred" /\ IsIdle(e, "main")
      /\ UNCHANGED <<ext, connected, sendQ, inbox>>
      /\ queue[e] \in Seq(Messages) /\ mq[e] \in Seq(Messages) /\ custom[e] \in Seq(Messages)
      /\ mq' = [mq EXCEPT ![e] = Tail(@)]
  BY <1>1, Queues DEF RunDeferred, extvars
<1>4. /\ Cardinality(Deferrals(queue[e])) # 0
      /\ Cardinality(Deferrals(Tail(queue[e]))) = Cardinality(Deferrals(queue[e])) - 1
  BY <1>3, DeferralsOfTail
<1>5. mq[e] # <<>>
  <2>1. Len(mq[e]) # 0
    BY <1>1, <1>4 DEF DInv
  <2> QED BY <1>3, <2>1, EmptySeq
<1>6. /\ Has(Tail(mq[e]), States) /\ Tail(mq[e]) \in Seq(Messages)
      /\ Head(mq[e]) \in Messages /\ Head(mq[e]).op \in States
      /\ Len(Tail(mq[e])) = Len(mq[e]) - 1
  <2>1. Has(mq[e], States)
    BY <1>1 DEF KInv
  <2>2. /\ Has(Tail(mq[e]), States) /\ Tail(mq[e]) \in Seq(Messages)
        /\ Head(mq[e]) \in Messages /\ Head(mq[e]).op \in States
    BY <1>3, <1>5, <2>1, HasTail
  <2>3. Len(Tail(mq[e])) = Len(mq[e]) - 1
    BY <1>3, <1>5, TailIndices
  <2> QED BY <2>2, <2>3
<1>7. /\ mq' \in [Ends -> Seq(Messages)]
      /\ mq'[e] = Tail(mq[e]) /\ \A f \in Ends : f # e => mq'[f] = mq[f]
  <2>1. mq \in [Ends -> Seq(Messages)]
    BY <1>1 DEF Types
  <2> QED BY <1>3, <1>6, <2>1, Updates
<1>8. DInv'
  <2>1. Len(mq'[e]) = Cardinality(Deferrals(queue'[e]))
    BY <1>1, <1>2, <1>4, <1>6, <1>7 DEF DInv
  <2> QED BY <1>1, <1>2, <1>7, <2>1 DEF DInv
<1>9. /\ custom' \in [Ends -> Seq(Messages)] /\ \A f \in Ends : Has(custom'[f], States)
  <2>1. custom \in [Ends -> Seq(Messages)] /\ \A f \in Ends : Has(custom[f], States)
    BY <1>1 DEF Types, KInv
  <2>2. CASE custom' = custom
    BY <2>1, <2>2
  <2>3. CASE custom' = [custom EXCEPT ![e] = <<>>]
    <3>1. /\ custom' \in [Ends -> Seq(Messages)] /\ custom'[e] = <<>>
          /\ \A f \in Ends : f # e => custom'[f] = custom[f]
      <4>1. <<>> \in Seq(Messages)
        OBVIOUS
      <4> QED BY <2>1, <2>3, <4>1, Updates
    <3> QED BY <2>1, <3>1, HasNothing
  <2>4. custom' = custom \/ custom' = [custom EXCEPT ![e] = <<>>]
    BY DEF RunDeferred
  <2> QED BY <2>2, <2>3, <2>4
<1>10. rest \in Seq(Messages) /\ Has(rest, States)
  <2>1. Has(custom[e], States)
    BY <1>1 DEF KInv
  <2>2. <<>> \in Seq(Messages) /\ Has(<<>>, States)
    BY HasNothing
  <2> QED BY <1>3, <2>1, <2>2
<1> HIDE DEF rest
<1>11. x \in Frames /\ x.op \in StateOps /\ x.rest = rest
  BY <1>6, <1>10, StartFields
<1>12. IF Subscribed(e) THEN Goes(e, "main", x) ELSE at' = at
  BY DEF RunDeferred, rest
<1> HIDE DEF x
<1>13. /\ FInv' /\ (\A d \in Ends : Out(d)' = Out(d)) /\ Caller
       /\ at' \in [Ends -> [Threads -> Frames]]
  <2>1. CASE Goes(e, "main", x)
    <3>1. "main" \in Threads /\ "main" # "wire"
      BY DEF Threads
    <3>2. Becomes(e, "main", x)
      BY <1>1, <1>11, <2>1, <3>1, Going
    <3>3. at[e]["main"].op \notin Engaged /\ x.op \in MainOps \ Engaged
      BY <1>3, <1>11 DEF IsIdle, Engaged, MainOps, StateOps
    <3>4. Has(x.rest, States)
      BY <1>10, <1>11
    <3>5. Proper(e, "main", x)
      BY <1>11, <3>1, <3>3, <3>4 DEF Proper
    <3> QED BY <1>3, <3>1, <3>2, <3>5, ProperFrames DEF Becomes
  <2>2. CASE at' = at
    BY <1>1, <1>3, <2>2
       DEF FInv, FrameInv, Out, Does, Caller, Speaker, Giver, Waits, InProgress, Types
  <2> QED BY <1>12, <2>1, <2>2
<1>14. LInv' /\ Calm
  <2>1. /\ Line(queue'[e], inbox'[e], Out(Other(e)))
        /\ Tokens(queue'[e], inbox'[e], Out(Other(e))) \subseteq OnWay(Other(e))
        /\ CallsIn(queue'[e]) \subseteq CallsIn(queue[e])
    BY <1>1, <1>2, <1>3, LineOf, LineTake
  <2> QED BY <1>1, <1>2, <1>3, <1>13, <2>1, OneLine
<1>15. Types'
  BY <1>1, <1>2, <1>3, <1>7, <1>9, <1>13 DEF Types
<1>16. KInv'
  <2>1. \A f \in Ends : Has(mq'[f], States)
    BY <1>1, <1>6, <1>7 DEF KInv
  <2> QED BY <1>1, <1>2, <1>3, <1>9, <2>1 DEF KInv
<1> QED BY <1>8, <1>13, <1>14, <1>15, <1>16 DEF EInv

\* What the caller does after it sent a request.
LEMMA ContinueFields ==
    ASSUME NEW n \in {"idle", "wait"}, NEW m \in Messages
    PROVE  LET x == IF n = "idle" THEN Idle ELSE Doing(n, m, <<>>)
           IN  /\ x \in Frames /\ x.op = n
               /\ n = "wait" => x.msg = m
<1> DEFINE none == <<>>
<1>1. none \in Seq(Messages)
  OBVIOUS
<1>2. "wait" \in WireOps \cup MainOps
  BY DEF MainOps
<1> HIDE DEF none
<1>3. /\ Doing("wait", m, none) \in Frames /\ Doing("wait", m, none).op = "wait"
      /\ Doing("wait", m, none).msg = m
  BY <1>1, <1>2, DoingFields
<1> QED BY <1>3, IdleFields DEF none

\* A request that is sent at once follows those on the way.
LEMMA SendNowKeeps ==
    ASSUME EInv, NEW e \in Ends, SendNow(e) PROVE EInv' /\ Calm /\ Caller
<1>1. Types /\ KInv /\ FInv /\ DInv /\ LInv
  BY DEF EInv
<1> DEFINE m == at[e]["main"].msg
           n == at[e]["main"].rest[1].op
           x == IF n = "idle" THEN Idle ELSE Doing(n, m, <<>>)
<1>2. /\ sendQ[e] = <<>> /\ m.op \in Said(e) /\ m \in Messages
      /\ \/ at[e]["main"].rest = <<State("idle")>>
         \/ (e = Client /\ at[e]["main"].rest = <<State("wait")>>)
  <2>1. FrameInv(e, at[e]["main"], at[e]["wire"]) /\ at[e]["main"].op = "send"
    BY <1>1 DEF FInv, SendNow, Does
  <2>2. m \in Messages
    BY <1>1, Queues, FrameFields
  <2> QED BY <2>1, <2>2 DEF FrameInv
<1>3. /\ n \in {"idle", "wait"}
      /\ n = "wait" => e = Client
      /\ n = "wait" <=> at[e]["main"].rest = <<State("wait")>>
  BY <1>2, SMT DEF State
<1>4. Transmit(e, <<m>>) /\ Goes(e, "main", x)
  BY DEF SendNow, Continue
<1>5. x \in Frames /\ x.op = n /\ (n = "wait" => x.msg = m)
  BY <1>2, <1>3, ContinueFields
<1> HIDE DEF x, n
<1>6. "main" \in Threads /\ "main" # "wire"
  BY DEF Threads
<1>7. Becomes(e, "main", x)
  BY <1>1, <1>4, <1>5, <1>6, Going
<1>8. /\ ext' = ext /\ connected' = connected /\ UNCHANGED <<sendQ, queue, mq, custom>>
      /\ Does(e, "main", "send")
  BY DEF SendNow, extvars
<1>9. FInv'
  <2>1. /\ x.op \in MainOps /\ x.op # "send" /\ x.op \notin StateOps
        /\ x.op \in {"wait", "give"} => e = Client
    BY <1>3, <1>5 DEF MainOps, StateOps
  <2> QED BY <1>1, <1>6, <1>7, <1>8, <2>1, Framing
<1>10. /\ Out(e) = <<m>> /\ Out(e)' = <<>>
       /\ \A d \in Ends : d # e => Out(d)' = Out(d)
  <2>1. at'[e]["main"] = x /\ \A d \in Ends : d # e => at'[d]["main"] = at[d]["main"]
    BY <1>6, <1>7 DEF Becomes
  <2>2. ~Does(e, "main", "send")'
    BY <1>3, <1>5, <2>1 DEF Does
  <2> QED BY <1>2, <1>8, <2>1, <2>2 DEF Out, Does
<1>11. <<m>> \in Seq(Messages) /\ Has(<<m>>, Said(e))
  BY <1>2, HasOne
<1>12. /\ inbox' \in [Ends -> Seq(Messages)]
       /\ \A f \in Ends : Has(inbox'[f], Said(Other(f)) \cup States)
       /\ LInv' /\ Calm
  <2> DEFINE ms == <<m>>
  <2>1. ms \in Seq(Messages) /\ ms = Out(e) /\ Has(ms, Said(e)) /\ Transmit(e, ms)
    BY <1>4, <1>10, <1>11
  <2> HIDE DEF ms
  <2> QED BY <1>1, <1>8, <1>10, <2>1, OutIsSent
<1>13. Types'
  BY <1>1, <1>7, <1>8, <1>12 DEF Types, Becomes
<1>14. KInv'
  BY <1>1, <1>8, <1>12 DEF KInv
<1>15. DInv'
  BY <1>1, <1>8 DEF DInv
<1>16. Caller
  <2>1. CASE e = Client
    <3>1. at'[Client]["main"] = x
      BY <1>6, <1>7, <2>1 DEF Becomes
    <3>2. Waits' <=> n = "wait"
      BY <1>3, <1>5, <3>1 DEF Waits, Does
    <3>3. Waits <=> n = "wait"
      BY <1>3, <1>8, <2>1 DEF Waits, Does
    <3>4. n = "wait" => InProgress' = InProgress
      BY <1>5, <2>1, <3>1 DEF InProgress
    <3>5. ~Does(Client, "main", "give")'
      BY <1>3, <1>5, <3>1 DEF Does
    <3>6. at'[Client]["wire"] = at[Client]["wire"]
      BY <1>6, <1>7, TwoEnds DEF Becomes, Threads
    <3> QED BY <3>2, <3>3, <3>4, <3>5, <3>6 DEF Caller, Speaker, Giver
  <2>2. CASE e # Client
    BY <1>6, <1>7, <2>2, CallerStays
  <2> QED BY <2>1, <2>2
<1> QED BY <1>9, <1>12, <1>13, <1>14, <1>15, <1>16 DEF EInv

\* Whatever the extension does by itself.
LEMMA ExtStepKeeps ==
    ASSUME EInv, NEW e \in Ends, ExtStep(e) PROVE EInv' /\ Calm /\ Caller
BY SendReadyKeeps, AddClosingKeeps, UnsubscribeKeeps, ReceiveStateKeeps, RunDeferredKeeps,
   SendNowKeeps, AnswerKeeps, SetConnectedKeeps, FlushKeeps, SetDisconnectedKeeps
   DEF ExtStep, Threads

-----------------------------------------------------------------------------
(* Tasks while the extension moves on                                      *)

\* No number is new on its way.
Fewer == Asked' \subseteq Asked /\ Told' \subseteq Told

\* While nothing is said, no number gets on its way.
LEMMA CalmIsFewer == ASSUME Calm
                     PROVE  Fewer /\ CallsIn(queue'[Client]) \subseteq CallsIn(queue[Client])
BY TwoEnds DEF Calm, Fewer, Asked, Told

\* What the threads are giving belongs to executed requests.
MainGives ==
    Does(Client, "main", "give") =>
        /\ InProgress \in Tasks /\ executed[InProgress] = 1
        /\ InProgress \notin sync_tasks
        /\ at[Client]["main"].msg.op \in {"Success", "Fault"}
WireGives ==
    at[Client]["wire"].op \in Gives =>
        /\ Given.task \in 1 .. calls /\ Given.op \in Results
        /\ Given.op # "Cancelled" => executed[Given.task] = 1

\* What was executed is kept by steps that say nothing new.
LEMMA OInvKept ==
    ASSUME OInv, Fewer, CallsIn(queue'[Client]) \cap sync_tasks = {},
           UNCHANGED <<calls, executed, sync_tasks>>,
           \A n \in Tasks : n > calls => result'[n] = "none",
           MainGives', WireGives'
    PROVE  OInv'
<1>1. \A n \in Asked' : n \in 1 .. calls' /\ \A k \in Tasks : k >= n => executed'[k] = 0
  BY DEF OInv, Fewer
<1>2. \A n \in Told' : n \in Tasks /\ executed'[n] = 1
  BY DEF OInv, Fewer
<1>3. \A n \in Tasks : n > calls' => executed'[n] = 0 /\ result'[n] = "none"
  BY DEF OInv
<1> QED BY <1>1, <1>2, <1>3 DEF OInv, MainGives, WireGives

\* The threads give the results they had.
LEMMA GivesAsBefore ==
    ASSUME OInv, UNCHANGED <<calls, executed, sync_tasks>>
    PROVE  (Speaker => MainGives') /\ (Giver => WireGives')
<1>1. ASSUME Speaker PROVE MainGives'
  BY <1>1 DEF OInv, Speaker, InProgress, MainGives
<1>2. ASSUME Giver PROVE WireGives'
  BY <1>2 DEF OInv, Giver, Given, WireGives
<1> QED BY <1>1, <1>2

\* Who waits for a sync call, or how it ended, is kept by steps that do neither.
LEMMA SInvKept ==
    ASSUME SInv, TInv, Speaker, UNCHANGED <<sync_tasks, destroyed>>, gave_up \subseteq gave_up',
           sync_task_id' \in {0, sync_task_id},
           \A n \in Tasks : n \in sync_tasks /\ result[n] \notin {"none", "Success"} =>
                               result'[n] \notin {"none", "Success"}
    PROVE  SInv'
<1>1. Waits' => InProgress' \in sync_tasks' \ destroyed'
  BY DEF SInv, Speaker
<1>2. ASSUME sync_task_id' # 0
      PROVE  /\ sync_task_id' \in sync_tasks'
             /\ \/ Waits' /\ InProgress' = sync_task_id'
                \/ /\ sync_task_id' \in destroyed'
                   /\ \/ result'[sync_task_id'] \notin {"none", "Success"}
                      \/ sync_task_id' \in gave_up'
  <2>1. sync_task_id' = sync_task_id /\ sync_task_id # 0
    BY <1>2
  <2>2. sync_task_id \in sync_tasks /\ sync_task_id \in Tasks
    BY <2>1, RdCallAssumption, SMT DEF SInv, TInv, Tasks, RdCallAssumption
  <2>3. CASE Waits /\ InProgress = sync_task_id
    BY <2>1, <2>2, <2>3 DEF Speaker
  <2>4. CASE /\ sync_task_id \in destroyed
             /\ \/ result[sync_task_id] \notin {"none", "Success"}
                \/ sync_task_id \in gave_up
    BY <2>1, <2>2, <2>4
  <2> QED BY <2>1, <2>3, <2>4 DEF SInv
<1> QED BY <1>1, <1>2 DEF SInv

\* The observers forget nothing.
LEMMA GivingUp ==
    ASSUME MCNext
    PROVE  gave_up \subseteq gave_up' /\ hasty \subseteq hasty' /\ raced \subseteq raced'
BY DEF MCNext

\* A task that is not used will not be, if it is not about to be cancelled, nothing new
\* is said and the wire thread gives no other result.
LEMMA StaysUnused ==
    ASSUME Asked' \cup Told' \subseteq Asked \cup Told, subscribed' \subseteq subscribed,
           NEW n, Unused(n), n \notin cancelling',
           at'[Client]["wire"].op \in Gives =>
              (at[Client]["wire"].op \in Gives /\ Given' = Given) \/ Given'.task # n
    PROVE  Unused(n)'
<1>1. n \in subscribed' => n \notin Asked' \cup Told'
  BY DEF Unused
<1>2. ~(at'[Client]["wire"].op \in Gives /\ Given'.task = n)
  BY DEF Unused
<1> QED BY <1>1, <1>2 DEF Unused

\* What may be destroyed is kept by steps that destroy nothing and give no result to
\* a sync call.
LEMMA GInvKept ==
    ASSUME GInv, MCNext, Asked' \cup Told' \subseteq Asked \cup Told, Giver,
           UNCHANGED <<sync_tasks, destroyed>>,
           subscribed' \subseteq subscribed,
           \/ cancelling' = cancelling
           \/ cancelling' = Taken /\ at[Client]["wire"].op \notin Gives,
           undefined' \ undefined \subseteq gave_up \cup hasty,
           \A n \in sync_tasks : result'[n] = result[n]
    PROVE  GInv'
<1>1. ASSUME NEW n \in sync_tasks' \cap subscribed'
      PROVE  /\ result'[n] \notin {"none", "Cancelled"} => n \notin Asked' \cup Told'
             /\ result'[n] = "Cancelled" => n \in cancelling' \cup destroyed'
  <2>1. /\ n \in sync_tasks \cap subscribed /\ result'[n] = result[n]
        /\ result[n] \notin {"none", "Cancelled"} => n \notin Asked \cup Told
        /\ result[n] = "Cancelled" => n \in cancelling \cup destroyed
    BY <1>1 DEF GInv
  <2>2. result'[n] = "Cancelled" => n \in cancelling' \cup destroyed'
    BY <2>1 DEF Taken
  <2> QED BY <2>1, <2>2
<1>2. at'[Client]["wire"].op \in Gives =>
         at[Client]["wire"] = at'[Client]["wire"] /\ Given' = Given /\ cancelling' = cancelling
  BY DEF Giver, Given
<1>3. at'[Client]["wire"].op \in Gives =>
         IF Given'.op = "Cancelled" THEN Given'.task \in cancelling'
         ELSE Given'.task \in sync_tasks' \ (Asked' \cup Told')
  BY <1>2 DEF GInv
<1>4. Does(Client, "wire", "give")' /\ Given'.task \in sync_tasks' => result'[Given'.task] = "none"
  BY <1>2 DEF GInv, Does, Gives
<1>5. ASSUME NEW n \in Tasks \ (gave_up' \cup hasty')
      PROVE  n \notin undefined' /\ (n \in destroyed' => Unused(n)')
  <2>1. n \in Tasks \ (gave_up \cup hasty)
    BY <1>5, GivingUp
  <2>2. n \notin undefined /\ (n \in destroyed => Unused(n))
    BY <2>1 DEF GInv
  <2>3. n \notin undefined'
    BY <2>1, <2>2
  <2>4. ASSUME n \in destroyed PROVE Unused(n)'
    <3>1. Unused(n) /\ n \notin cancelling
      BY <2>2, <2>4 DEF Unused
    <3>2. n \notin cancelling'
      BY <2>4, <3>1 DEF Taken
    <3> QED BY <1>2, <3>1, <3>2, StaysUnused
  <2> QED BY <2>3, <2>4
<1> QED BY <1>1, <1>3, <1>4, <1>5 DEF GInv

\* Which results race is kept by steps that give none to a task that the other thread
\* is about to give one.
LEMMA RInvKept ==
    ASSUME RInv, MCNext,
           \A t \in Threads : \A n \in Giving(t)' :
              \/ result'[n] = "none" \/ n \in raced
              \/ n \in Giving(t) /\ result'[n] = result[n]
    PROVE  RInv'
<1>1. ASSUME NEW t \in Threads, NEW n \in Giving(t)'
      PROVE  result'[n] = "none" \/ n \in raced'
  BY <1>1, GivingUp DEF RInv
<1>2. Giving("main")' \cap Giving("wire")' \subseteq raced'
  BY DEF MCNext
<1> QED BY <1>1, <1>2 DEF RInv

\* The threads go on as before.
LEMMA GivingStays ==
    /\ Speaker => Giving("main")' \subseteq Giving("main")
    /\ Giver => Giving("wire")' \subseteq Giving("wire")
<1>1. ASSUME Speaker PROVE Giving("main")' \subseteq Giving("main")
  BY <1>1 DEF Speaker, Giving
<1>2. ASSUME Giver PROVE Giving("wire")' \subseteq Giving("wire")
  BY <1>2 DEF Giver, Giving, Gives, Does
<1> QED BY <1>1, <1>2

TaskInv == TInv /\ OInv /\ SInv /\ GInv /\ RInv

\* The tasks have no part in a step, but for those that are used, whose actions are taken,
\* or that are not subscribed any more.
LEMMA TasksRemain ==
    ASSUME TaskInv, MCNext, Caller, Fewer, CallsIn(queue'[Client]) \cap sync_tasks = {},
           UNCHANGED <<calls, sync_tasks, destroyed, result, executed>>,
           undefined' \subseteq undefined \cup (destroyed \cap (gave_up \cup hasty)),
           sync_task_id' \in {0, sync_task_id}, subscribed' \subseteq subscribed,
           \/ cancelling' = cancelling
           \/ cancelling' = Taken /\ at[Client]["wire"].op \notin Gives
    PROVE  TaskInv'
<1>1. Speaker /\ Giver
  BY DEF Caller
<1>2. TInv'
  <2>1. /\ subscribed' \cup destroyed' \cup sync_tasks' \cup cancelling' \cup undefined'
             \subseteq 1 .. calls
        /\ sync_task_id' \in 0 .. calls
    BY SMT DEF TaskInv, TInv, Taken
  <2> QED BY <2>1 DEF TaskInv, TInv
<1>3. OInv'
  <2>1. \A n \in Tasks : n > calls => result'[n] = "none"
    BY DEF TaskInv, OInv
  <2>2. MainGives' /\ WireGives'
    BY <1>1, GivesAsBefore DEF TaskInv
  <2> QED BY <2>1, <2>2, OInvKept DEF TaskInv
<1>4. SInv'
  BY <1>1, GivingUp, SInvKept DEF TaskInv
<1>5. GInv'
  BY <1>1, GInvKept DEF TaskInv, Fewer
<1>6. RInv'
  <2>1. \A t \in Threads : Giving(t)' \subseteq Giving(t)
    BY <1>1, GivingStays DEF Threads
  <2> QED BY <2>1, RInvKept DEF TaskInv
<1> QED BY <1>2, <1>3, <1>4, <1>5, <1>6 DEF TaskInv

\* The tasks have no part in a step.
LEMMA TasksStay ==
    ASSUME TaskInv, MCNext, Calm, Caller, UNCHANGED tvars
    PROVE  TaskInv'
<1>1. UNCHANGED <<calls, sync_tasks, destroyed, sync_task_id, result, subscribed, cancelling,
                  executed, undefined>>
  BY DEF tvars, taskvars, servervars
<1>2. Fewer /\ CallsIn(queue'[Client]) \cap sync_tasks = {}
  BY CalmIsFewer DEF TaskInv, OInv
<1> QED BY <1>1, <1>2, TasksRemain

\* Steps of the binding of an extension: advising, ...
LEMMA AdviseStepInv ==
    ASSUME EInv, TaskInv, MCNext, NEW e \in Ends, AdviseStep(e) PROVE EInv' /\ TaskInv'
<1>1. EInv' /\ Calm /\ Caller
  BY AdviseKeeps DEF AdviseStep
<1>2. /\ UNCHANGED <<calls, sync_tasks, destroyed>> /\ sync_task_id' \in {0, sync_task_id}
      /\ UNCHANGED <<result, subscribed, cancelling, executed, undefined>>
  BY DEF AdviseStep, servervars
<1>3. Fewer /\ CallsIn(queue'[Client]) \cap sync_tasks = {}
  BY <1>1, CalmIsFewer DEF TaskInv, OInv
<1> QED BY <1>1, <1>2, <1>3, TasksRemain

\* ... the end of its lifetime, ...
LEMMA EndLifetimeStepInv ==
    ASSUME EInv, TaskInv, MCNext, NEW e \in Ends, EndLifetimeStep(e) PROVE EInv' /\ TaskInv'
<1>1. CASE EndEarly(e) /\ UNCHANGED tvars
  BY <1>1, EndEarlyKeeps, TasksStay
<1>2. CASE /\ EndLifetime(e)
           /\ cancelling' = IF e = Client THEN Taken ELSE cancelling
           /\ UNCHANGED <<taskvars, result, subscribed, servervars, undefined>>
  <2>1. EInv' /\ Calm /\ Caller
    BY <1>2, EndLifetimeKeeps
  <2>2. UNCHANGED <<calls, sync_tasks, destroyed, sync_task_id, result, subscribed, executed,
                    undefined>>
    BY <1>2 DEF taskvars, servervars
  <2>3. cancelling' = cancelling \/ (cancelling' = Taken /\ at[Client]["wire"].op \notin Gives)
    BY <1>2 DEF EndLifetime, IsIdle, Gives
  <2>4. Fewer /\ CallsIn(queue'[Client]) \cap sync_tasks = {}
    BY <2>1, CalmIsFewer DEF TaskInv, OInv
  <2> QED BY <2>1, <2>2, <2>3, <2>4, TasksRemain
<1> QED BY <1>1, <1>2 DEF EndLifetimeStep

\* ... and unbinding.
LEMMA UnbindStepInv ==
    ASSUME EInv, TaskInv, MCNext, NEW e \in Ends, UnbindStep(e) PROVE EInv' /\ TaskInv'
<1>1. EInv' /\ Calm /\ Caller
  BY SendDisconnectedKeeps DEF UnbindStep
<1>2. /\ UNCHANGED <<calls, sync_tasks, destroyed, sync_task_id, result, cancelling, executed,
                     undefined>>
      /\ subscribed' \subseteq subscribed
  BY DEF UnbindStep, taskvars, servervars
<1>3. Fewer /\ CallsIn(queue'[Client]) \cap sync_tasks = {}
  BY <1>1, CalmIsFewer DEF TaskInv, OInv
<1> QED BY <1>1, <1>2, <1>3, TasksRemain

-----------------------------------------------------------------------------
(* Requests and responses arrive                                           *)

\* Which end says what.
LEMMA SaidBy ==
    /\ Said(Client) = {"request"} /\ Said(Server) = {"Success", "Fault"}
    /\ \A e \in Ends : Said(e) \subseteq Calls
    /\ {"Success", "Fault"} \subseteq Results /\ "deferred" \notin Calls
    /\ States \cap Calls = {}
BY TwoEnds DEF Said, Calls, Results, States

\* The threads stay what they were about.
LEMMA SameThreads ==
    ASSUME UNCHANGED <<at, sendQ>>
    PROVE  Caller /\ (\A d \in Ends : Out(d)' = Out(d)) /\ (FInv => FInv')
BY DEF FInv, FrameInv, Out, Does, Caller, Speaker, Giver, Waits, InProgress

\* A step of a wire thread.
LEMMA WireFrames ==
    ASSUME EInv, NEW e \in Ends, NEW x \in Frames, Goes(e, "wire", x), sendQ' = sendQ,
           x.op \in WireOps, x.rest = <<>>, x.op \in Gives => e = Client
    PROVE  /\ Becomes(e, "wire", x) /\ FInv' /\ Speaker
           /\ \A d \in Ends : Out(d)' = Out(d)
<1>1. Types /\ FInv /\ "main" \in Threads /\ "wire" \in Threads /\ "main" # "wire"
  BY DEF EInv, Threads
<1>2. Becomes(e, "wire", x)
  BY <1>1, Going
<1>3. FInv'
  BY <1>1, <1>2, Framing
<1>4. at'[Client]["main"] = at[Client]["main"]
  BY <1>1, <1>2, TwoEnds DEF Becomes
<1>5. \A d \in Ends : Out(d)' = Out(d)
  BY <1>1, <1>2, OutStays
<1> QED BY <1>2, <1>3, <1>4, <1>5 DEF Speaker, Waits, Does, InProgress

\* It takes no message and sends none.
LEMMA WireKeeps ==
    ASSUME EInv, NEW e \in Ends, NEW x \in Frames,
           Goes(e, "wire", x), UNCHANGED <<extvars, wirevars>>,
           x.op \in WireOps, x.rest = <<>>, x.op \in Gives => e = Client
    PROVE  EInv' /\ Becomes(e, "wire", x) /\ Calm /\ Speaker
<1>1. /\ Types /\ KInv /\ FInv /\ DInv /\ LInv
      /\ UNCHANGED <<ext, connected, sendQ, inbox, queue, mq, custom>>
  BY DEF EInv, extvars, wirevars
<1>2. /\ Becomes(e, "wire", x) /\ FInv' /\ Speaker
      /\ \A d \in Ends : Out(d)' = Out(d)
  BY <1>1, WireFrames
<1>3. LInv' /\ Calm
  BY <1>1, <1>2, LinesStay
<1>4. Types' /\ KInv' /\ DInv'
  BY <1>1, <1>2 DEF Types, KInv, DInv, Becomes
<1> QED BY <1>2, <1>3, <1>4 DEF EInv

\* Messages move between the wire and the queues of an end.
LEMMA QueuesMove ==
    ASSUME EInv, UNCHANGED <<ext, connected, sendQ, mq, custom>>, FInv',
           at' \in [Ends -> [Threads -> Frames]],
           inbox' \in [Ends -> Seq(Messages)], queue' \in [Ends -> Seq(Messages)],
           \A f \in Ends : /\ Has(inbox'[f], Said(Other(f)) \cup States)
                           /\ Has(queue'[f], Said(Other(f)) \cup {"deferred"})
                           /\ Cardinality(Deferrals(queue'[f])) = Cardinality(Deferrals(queue[f])),
           LInv'
    PROVE  EInv'
<1>1. Types /\ KInv /\ DInv
  BY DEF EInv
<1>2. Types' /\ KInv' /\ DInv'
  BY <1>1 DEF Types, KInv, DInv
<1> QED BY <1>2 DEF EInv

\* An end receives a request or a response, and queues it or not.
LEMMA ReceiveMoves ==
    ASSUME EInv, NEW e \in Ends, Receive(e),
           FInv', at' \in [Ends -> [Threads -> Frames]], \A d \in Ends : Out(d)' = Out(d),
           \/ queue' = queue
           \/ queue' = [queue EXCEPT ![e] = Append(@, Head(inbox[e]))]
    PROVE  /\ EInv' /\ Fewer
           /\ Head(inbox[e]).op \in Said(Other(e)) /\ Head(inbox[e]).task \in OnWay(Other(e))
           /\ queue' = queue => Head(inbox[e]).task \notin OnWay(Other(e))'
           /\ \A f \in Ends : f # e => queue'[f] = queue[f]
           /\ queue' # queue =>
                 CallsIn(queue'[e]) = CallsIn(queue[e]) \cup {Head(inbox[e]).task}
<1>1. Types /\ KInv /\ FInv /\ DInv /\ LInv
  BY DEF EInv
<1> DEFINE m == Head(inbox[e])
<1>2. /\ inbox[e] # <<>> /\ m.op \notin States
      /\ UNCHANGED <<ext, connected, sendQ, mq, custom>>
  BY DEF Receive, extvars
<1>3. /\ inbox' \in [Ends -> Seq(Messages)]
      /\ inbox'[e] = Tail(inbox[e]) /\ \A f \in Ends : f # e => inbox'[f] = inbox[f]
      /\ \A f \in Ends : Has(inbox'[f], Said(Other(f)) \cup States)
      /\ m \in Messages /\ m.op \in Said(Other(e)) \cup States
  BY <1>1, InboxTail DEF Receive
<1>4. m.op \in Said(Other(e)) /\ m.op \in Calls /\ m.op # "deferred"
  BY <1>2, <1>3, SaidBy, TwoEnds
<1>5. /\ Line(queue[e], inbox[e], Out(Other(e)))
      /\ OnWay(Other(e)) = Tokens(queue[e], inbox[e], Out(Other(e)))
      /\ queue[e] \in Seq(Messages) /\ inbox[e] \in Seq(Messages)
      /\ Out(Other(e)) \in Seq(Messages) /\ queue \in [Ends -> Seq(Messages)]
  BY <1>1, LineOf DEF Types
<1>6. /\ Line(queue[e], Tail(inbox[e]), Out(Other(e)))
      /\ Tokens(queue[e], Tail(inbox[e]), Out(Other(e))) \subseteq OnWay(Other(e))
      /\ m.task \in OnWay(Other(e))
      /\ m.task \notin Tokens(queue[e], Tail(inbox[e]), Out(Other(e)))
  <2>1. /\ Line(queue[e], Tail(inbox[e]), Out(Other(e)))
        /\ Tokens(queue[e], Tail(inbox[e]), Out(Other(e)))
             \subseteq Tokens(queue[e], inbox[e], Out(Other(e)))
        /\ m.op \in Calls =>
              /\ m.task \in Tokens(queue[e], inbox[e], Out(Other(e)))
              /\ m.task \notin Tokens(queue[e], Tail(inbox[e]), Out(Other(e)))
    BY <1>2, <1>5, LineSkip
  <2> QED BY <1>4, <1>5, <2>1
<1>7. /\ Line(Append(queue[e], m), Tail(inbox[e]), Out(Other(e)))
      /\ Tokens(Append(queue[e], m), Tail(inbox[e]), Out(Other(e))) = OnWay(Other(e))
  BY <1>2, <1>4, <1>5, LineReceive
<1> HIDE DEF m
<1>8. CASE queue' = queue
  <2>1. LInv' /\ Calm
    BY <1>1, <1>3, <1>6, <1>8, OneLine
  <2>2. EInv'
    BY <1>1, <1>2, <1>3, <1>5, <1>8, <2>1, QueuesMove DEF KInv
  <2>3. m.task \notin OnWay(Other(e))'
    BY <1>3, <1>6, <1>8, TwoEnds DEF OnWay
  <2> QED BY <1>4, <1>6, <1>8, <2>1, <2>2, <2>3, CalmIsFewer DEF m
<1>9. CASE queue' # queue
  <2>1. queue' = [queue EXCEPT ![e] = Append(@, m)]
    BY <1>9 DEF m
  <2>2. /\ queue' \in [Ends -> Seq(Messages)]
        /\ queue'[e] = Append(queue[e], m) /\ \A f \in Ends : f # e => queue'[f] = queue[f]
        /\ \A f \in Ends : Has(queue'[f], Said(Other(f)) \cup {"deferred"})
    BY <1>1, <1>3, <1>4, <2>1, QueueAppend
  <2>3. CallsIn(queue'[e]) = CallsIn(queue[e]) \cup {m.task}
    BY <1>3, <1>4, <1>5, <2>2, CallsOfAppend
  <2>4. Cardinality(Deferrals(queue'[e])) = Cardinality(Deferrals(queue[e]))
    BY <1>3, <1>4, <1>5, <2>2, DeferralsOfAppend
  <2>5. ASSUME NEW d \in Ends
        PROVE  /\ Line(queue'[Other(d)], inbox'[Other(d)], Out(d))
               /\ Tokens(queue'[Other(d)], inbox'[Other(d)], Out(d)) = OnWay(d)
    <3>1. CASE Other(d) = e
      BY <1>3, <1>7, <2>2, <3>1, TwoEnds
    <3>2. CASE Other(d) # e
      BY <1>1, <1>3, <2>2, <3>2, TwoEnds DEF LInv, OnWay
    <3> QED BY <3>1, <3>2
  <2>6. LInv'
    BY <2>5, TwoEnds DEF LInv
  <2>7. \A d \in Ends : OnWay(d)' = OnWay(d)
    BY <2>5 DEF OnWay
  <2>8. Fewer
    BY <2>7, TwoEnds DEF Fewer, Asked, Told
  <2>9. EInv'
    BY <1>2, <1>3, <2>2, <2>4, <2>6, QueuesMove
  <2> QED BY <1>4, <1>6, <1>9, <2>2, <2>3, <2>8, <2>9 DEF m
<1> QED BY <1>8, <1>9

\* A call that is on its way back was asked for once, and is one of the calls.
LEMMA ToldCalls ==
    ASSUME TaskInv, NEW n \in Told
    PROVE  n \in Tasks /\ n \in 1 .. calls /\ executed[n] = 1 /\ n \notin Asked
<1>1. n \in Tasks /\ executed[n] = 1
  BY DEF TaskInv, OInv
<1>2. n \in Nat /\ n >= 1 /\ calls \in Nat /\ 1 # 0
  BY <1>1, SMT DEF Tasks, TaskInv, TInv
<1>3. ~(n > calls)
  BY <1>1, <1>2 DEF TaskInv, OInv
<1>4. n \in 1 .. calls /\ n >= n
  BY <1>2, <1>3, SMT
<1>5. n \notin Asked
  BY <1>1, <1>2, <1>4 DEF TaskInv, OInv
<1> QED BY <1>1, <1>4, <1>5

\* A result is given to one task.
LEMMA ResultGiven ==
    ASSUME TInv, NEW m, m.task \in Tasks, m.op \in Results, Give(m)
    PROVE  /\ result' \in [Tasks -> {"none"} \cup Results]
           /\ result'[m.task] = m.op
           /\ \A n \in Tasks : n # m.task => result'[n] = result[n]
BY DEF TInv, Give

\* A task that the wire thread may use is there, or its sync call is one of the exceptions.
LEMMA UsedIsThere ==
    ASSUME GInv, NEW n \in Tasks, Uses(n), ~Unused(n)
    PROVE  undefined' \subseteq undefined \cup (destroyed \cap (gave_up \cup hasty))
BY DEF GInv, Uses

\* A request is queued for the endpoint.
LEMMA ReceiveRequestInv ==
    ASSUME EInv, TaskInv, MCNext, ReceiveRequest PROVE EInv' /\ TaskInv'
<1>1. /\ Receive(Server) /\ Server \in Ends /\ Client \in Ends /\ Client # Server
      /\ queue' = [queue EXCEPT ![Server] = Append(@, Head(inbox[Server]))]
      /\ UNCHANGED <<at, calls, sync_tasks, destroyed, sync_task_id>>
      /\ UNCHANGED <<result, subscribed, cancelling, executed, undefined>>
  BY TwoEnds DEF ReceiveRequest, taskvars
<1>2. /\ Caller /\ (\A d \in Ends : Out(d)' = Out(d)) /\ FInv'
      /\ at' \in [Ends -> [Threads -> Frames]]
  BY <1>1, SameThreads DEF Receive, extvars, EInv, Types
<1>3. EInv' /\ Fewer /\ queue'[Client] = queue[Client]
  BY <1>1, <1>2, ReceiveMoves
<1>4. CallsIn(queue'[Client]) \cap sync_tasks = {}
  BY <1>3 DEF TaskInv, OInv
<1> QED BY <1>1, <1>2, <1>3, <1>4, TasksRemain

\* The wire thread starts to give a result to a task that has none.
LEMMA GivesNext ==
    ASSUME TaskInv, MCNext, NEW m \in Messages, m.task \in 1 .. calls, m.op \in Results,
           Becomes(Client, "wire", Doing("give", m, <<>>)),
           Speaker, Fewer, CallsIn(queue'[Client]) \cap sync_tasks = {},
           UNCHANGED <<calls, sync_tasks, destroyed, sync_task_id>>,
           UNCHANGED <<result, subscribed, cancelling, executed>>,
           Uses(m.task), Lacks(m.task), ~Unused(m.task),
           IF m.op = "Cancelled" THEN m.task \in cancelling
           ELSE m.task \in sync_tasks \ (Asked' \cup Told') /\ executed[m.task] = 1
    PROVE  TaskInv'
<1>1. m.task \in Tasks /\ result[m.task] = "none"
  BY RdCallAssumption, SMT DEF TaskInv, TInv, Tasks, RdCallAssumption, Lacks
<1>2. at'[Client]["wire"].op = "give" /\ Given' = m
  <2> DEFINE none == <<>>
  <2>1. none \in Seq(Messages) /\ "give" \in WireOps \cup MainOps
    BY DEF MainOps
  <2> HIDE DEF none
  <2>2. Doing("give", m, none).op = "give" /\ Doing("give", m, none).msg = m
    BY <2>1, DoingFields
  <2> QED BY <2>2 DEF Becomes, Given, none
<1>3. undefined' \subseteq undefined \cup (destroyed \cap (gave_up \cup hasty))
  BY <1>1, UsedIsThere DEF TaskInv
<1>4. TInv'
  <2>1. subscribed' \cup destroyed' \cup sync_tasks' \cup cancelling' \cup undefined'
          \subseteq 1 .. calls
    BY <1>3 DEF TaskInv, TInv
  <2> QED BY <2>1 DEF TaskInv, TInv
<1>5. OInv'
  <2>1. \A n \in Tasks : n > calls => result'[n] = "none"
    BY DEF TaskInv, OInv
  <2>2. MainGives'
    BY GivesAsBefore DEF TaskInv
  <2>3. WireGives'
    BY <1>2 DEF WireGives
  <2> QED BY <2>1, <2>2, <2>3, OInvKept DEF TaskInv
<1>6. SInv'
  BY GivingUp, SInvKept DEF TaskInv
<1>7. GInv'
  <2>1. ASSUME NEW n \in sync_tasks' \cap subscribed'
        PROVE  /\ result'[n] \notin {"none", "Cancelled"} => n \notin Asked' \cup Told'
               /\ result'[n] = "Cancelled" => n \in cancelling' \cup destroyed'
    BY <2>1 DEF TaskInv, GInv, Fewer
  <2>2. ASSUME NEW n \in Tasks \ (gave_up' \cup hasty')
        PROVE  n \notin undefined' /\ (n \in destroyed' => Unused(n)')
    <3>1. n \in Tasks \ (gave_up \cup hasty)
      BY <2>2, GivingUp
    <3>2. n \notin undefined /\ (n \in destroyed => Unused(n))
      BY <3>1 DEF TaskInv, GInv
    <3>3. ASSUME n \in destroyed PROVE Unused(n)'
      <4>1. Unused(n) /\ n # m.task /\ n \notin cancelling
        BY <3>2, <3>3 DEF Unused
      <4> QED BY <1>2, <4>1, StaysUnused DEF Fewer
    <3> QED BY <1>3, <3>1, <3>2, <3>3
  <2>3. IF Given'.op = "Cancelled" THEN Given'.task \in cancelling'
        ELSE Given'.task \in sync_tasks' \ (Asked' \cup Told')
    BY <1>2
  <2>4. result'[Given'.task] = "none"
    BY <1>1, <1>2
  <2> QED BY <2>1, <2>2, <2>3, <2>4 DEF GInv
<1>8. RInv'
  <2>1. ASSUME NEW t \in Threads, NEW n \in Giving(t)'
        PROVE  result'[n] = "none" \/ (n \in Giving(t) /\ result'[n] = result[n])
    <3>1. CASE t = "main"
      BY <2>1, <3>1, GivingStays
    <3>2. CASE t = "wire"
      <4>1. n = m.task
        BY <1>2, <2>1, <3>2 DEF Giving, Given
      <4> QED BY <1>1, <4>1
    <3> QED BY <3>1, <3>2 DEF Threads
  <2> QED BY <2>1, RInvKept DEF TaskInv
<1> QED BY <1>4, <1>5, <1>6, <1>7, <1>8 DEF TaskInv

\* A response is that of a call which was executed; it is to be given, queued or dropped.
LEMMA ReceiveResponseInv ==
    ASSUME EInv, TaskInv, MCNext, ReceiveResponse PROVE EInv' /\ TaskInv'
<1> DEFINE m == Head(inbox[Client])
           x == Doing("give", m, <<>>)
<1>1. /\ Receive(Client) /\ Client \in Ends
      /\ UNCHANGED <<calls, sync_tasks, destroyed, sync_task_id>>
      /\ UNCHANGED <<result, subscribed, cancelling, executed>>
      /\ queue' = queue \/ queue' = [queue EXCEPT ![Client] = Append(@, m)]
      /\ at' = at \/ (Goes(Client, "wire", x) /\ queue' = queue)
  BY TwoEnds DEF ReceiveResponse, taskvars, servervars
<1>2. /\ m \in Messages /\ sendQ' = sendQ
      /\ inbox[Client] # <<>> /\ IsIdle(Client, "wire")
  BY <1>1, InboxTail DEF EInv, Receive, extvars
<1>3. /\ \/ m.task \in subscribed /\ Uses(m.task)
         \/ m.task \notin subscribed /\ UNCHANGED <<undefined, queue, at>>
      /\ at' # at => m.task \in sync_tasks /\ Lacks(m.task) /\ m.task \in subscribed
      /\ queue' # queue => m.task \notin sync_tasks
  BY DEF ReceiveResponse
<1> HIDE DEF m
<1>4. /\ FInv' /\ Speaker /\ (\A d \in Ends : Out(d)' = Out(d))
      /\ at' \in [Ends -> [Threads -> Frames]]
      /\ at' # at => Becomes(Client, "wire", x)
  <2>1. CASE at' = at
    BY <1>2, <2>1, SameThreads DEF EInv, Types, Caller
  <2>2. CASE Goes(Client, "wire", x)
    <3> DEFINE none == <<>>
    <3>1. none \in Seq(Messages) /\ "give" \in WireOps
      BY DEF WireOps, Gives
    <3> HIDE DEF none
    <3>2. Doing("give", m, none) \in Frames /\ Doing("give", m, none).op = "give"
          /\ Doing("give", m, none).rest = none
      BY <1>2, <3>1, DoingFields
    <3>3. x \in Frames /\ x.op \in WireOps /\ x.rest = <<>>
      BY <3>1, <3>2 DEF none
    <3> HIDE DEF x
    <3> QED BY <1>1, <1>2, <2>2, <3>3, WireFrames DEF Becomes
  <2> QED BY <1>1, <2>1, <2>2
<1> HIDE DEF x
<1>5. /\ EInv' /\ Fewer
      /\ m.op \in {"Success", "Fault"} /\ m.task \in Told
      /\ queue' = queue => m.task \notin Told'
      /\ queue' # queue => CallsIn(queue'[Client]) = CallsIn(queue[Client]) \cup {m.task}
  <2>1. Said(Other(Client)) = {"Success", "Fault"} /\ Told = OnWay(Other(Client))
    BY TwoEnds, SaidBy DEF Told
  <2>2. Told' = OnWay(Other(Client))'
    BY TwoEnds DEF Told
  <2> QED BY <1>1, <1>4, <2>1, <2>2, ReceiveMoves DEF m
<1>6. /\ m.task \in Tasks /\ m.task \in 1 .. calls /\ executed[m.task] = 1
      /\ m.task \notin Asked
  BY <1>5, ToldCalls
<1>7. m.task \in subscribed => ~Unused(m.task)
  BY <1>5 DEF Unused
<1>8. CallsIn(queue'[Client]) \cap sync_tasks = {}
  BY <1>3, <1>5 DEF TaskInv, OInv
<1>9. CASE at' = at
  <2>1. Caller
    BY <1>2, <1>9, SameThreads
  <2>2. undefined' \subseteq undefined \cup (destroyed \cap (gave_up \cup hasty))
    BY <1>3, <1>6, <1>7, UsedIsThere DEF TaskInv
  <2> QED BY <1>1, <1>5, <1>8, <2>1, <2>2, TasksRemain
<1>10. CASE at' # at
  <2>1. m.op \in Results /\ m.op # "Cancelled"
    BY <1>5, SaidBy
  <2>2. m.task \in sync_tasks \ (Asked' \cup Told')
    BY <1>1, <1>3, <1>5, <1>6, <1>10 DEF Fewer
  <2>3. Uses(m.task) /\ Lacks(m.task) /\ ~Unused(m.task)
    BY <1>3, <1>7, <1>10
  <2>4. Becomes(Client, "wire", Doing("give", m, <<>>))
    BY <1>4, <1>10 DEF x
  <2> QED BY <1>1, <1>2, <1>4, <1>5, <1>6, <1>8, <2>1, <2>2, <2>3, <2>4, GivesNext
<1> QED BY <1>5, <1>9, <1>10

-----------------------------------------------------------------------------
(* Members send                                                            *)

\* The scheduler of an end goes over to x, and its wire thread stays.
LEMMA MainFraming ==
    ASSUME FInv, NEW e \in Ends, NEW x, Becomes(e, "main", x),
           \A f \in Ends : f # e => sendQ'[f] = sendQ[f],
           x.op \in {"idle", "wait", "send"}, x.op = "wait" => e = Client,
           x.op = "send" =>
              /\ sendQ'[e] = <<>> /\ x.msg.op \in Said(e)
              /\ x.rest = <<State("idle")>> \/ (e = Client /\ x.rest = <<State("wait")>>)
    PROVE  FInv'
<1> SUFFICES ASSUME NEW f \in Ends PROVE FrameInv(f, at[f]["main"], at[f]["wire"])'
  BY DEF FInv
<1>1. FrameInv(f, at[f]["main"], at[f]["wire"])
  BY DEF FInv
<1>2. "main" \in Threads /\ "wire" \in Threads /\ "main" # "wire"
  BY DEF Threads
<1>3. CASE f # e
  <2>1. at'[f]["main"] = at[f]["main"] /\ at'[f]["wire"] = at[f]["wire"]
    BY <1>2, <1>3 DEF Becomes
  <2> QED BY <1>1, <1>3, <2>1 DEF FrameInv
<1>4. CASE f = e
  <2>1. at'[f]["main"] = x /\ at'[f]["wire"] = at[f]["wire"]
    BY <1>2, <1>4 DEF Becomes
  <2>2. x.op \in MainOps /\ x.op \notin StateOps /\ x.op # "give"
    BY DEF MainOps, StateOps
  <2> QED BY <1>1, <1>4, <2>1, <2>2 DEF FrameInv
<1> QED BY <1>3, <1>4

\* A thread on its way to the wire.
LEMMA SendingFields ==
    ASSUME NEW n \in {"idle", "wait"}, NEW m \in Messages
    PROVE  LET x == Doing("send", m, <<State(n)>>)
           IN  x \in Frames /\ x.op = "send" /\ x.msg = m /\ x.rest = <<State(n)>>
<1>1. n \in Kinds /\ "send" \in WireOps \cup MainOps
  BY DEF Kinds, MainOps
<1> DEFINE r == <<State(n)>>
<1>2. r \in Seq(Messages)
  BY <1>1, Words, CallsOfOne
<1> HIDE DEF r
<1>3. /\ Doing("send", m, r) \in Frames /\ Doing("send", m, r).op = "send"
      /\ Doing("send", m, r).msg = m /\ Doing("send", m, r).rest = r
  BY <1>1, <1>2, DoingFields
<1> QED BY <1>3 DEF r

\* What a member sends is kept back, or its end is about to send it.
LEMMA SendKeeps ==
    ASSUME Types, KInv, FInv, NEW e \in Ends, IsIdle(e, "main"),
           NEW m \in Messages, m.op \in Said(e),
           NEW next \in {"idle", "wait"}, next = "wait" => e = Client,
           Send(e, m, next)
    PROVE  /\ sendQ' \in [Ends -> Seq(Messages)] /\ \A f \in Ends : Has(sendQ'[f], Said(f))
           /\ at' \in [Ends -> [Threads -> Frames]] /\ FInv'
           /\ Out(e)' = Append(Out(e), m) /\ \A d \in Ends : d # e => Out(d)' = Out(d)
           /\ Giver /\ (e # Client => Caller)
           /\ e = Client => /\ ~Does(Client, "main", "give")' /\ (Waits' <=> next = "wait")
                            /\ next = "wait" => InProgress' = m.task
<1>1. /\ sendQ \in [Ends -> Seq(Messages)] /\ sendQ[e] \in Seq(Messages)
      /\ \A f \in Ends : Has(sendQ[f], Said(f))
      /\ "main" \in Threads /\ Out(e) = sendQ[e]
  BY DEF Types, KInv, Threads, Out, IsIdle, Does
<1>2. ASSUME NEW x, Becomes(e, "main", x)
      PROVE  /\ at' \in [Ends -> [Threads -> Frames]] /\ at'[e]["main"] = x
             /\ \A d \in Ends : d # e => at'[d]["main"] = at[d]["main"]
             /\ Giver /\ (e # Client => Caller)
  <2>1. "wire" \in Threads /\ "wire" # "main" /\ Client \in Ends
    BY TwoEnds DEF Threads
  <2>2. at'[Client]["wire"] = at[Client]["wire"]
    BY <1>2, <2>1 DEF Becomes
  <2> QED BY <1>1, <1>2, <2>1, <2>2, CallerStays DEF Becomes, Giver
<1>3. CASE MustWait(e)
  <2> DEFINE x == IF next = "idle" THEN Idle ELSE Doing(next, m, <<>>)
  <2>1. sendQ' = [sendQ EXCEPT ![e] = Append(@, m)] /\ Goes(e, "main", x)
    BY <1>3 DEF Send, Continue
  <2>2. x \in Frames /\ x.op = next /\ (next = "wait" => x.msg = m)
    BY ContinueFields
  <2> HIDE DEF x
  <2>3. Becomes(e, "main", x)
    BY <1>1, <2>1, <2>2, Going
  <2>4. Append(sendQ[e], m) \in Seq(Messages) /\ Has(Append(sendQ[e], m), Said(e))
    BY <1>1, AppendIndices, HasAppend
  <2>5. /\ sendQ' \in [Ends -> Seq(Messages)] /\ sendQ'[e] = Append(sendQ[e], m)
        /\ \A f \in Ends : f # e => sendQ'[f] = sendQ[f]
    BY <1>1, <2>1, <2>4, Updates
  <2>6. \A f \in Ends : Has(sendQ'[f], Said(f))
    BY <1>1, <2>4, <2>5
  <2>7. FInv'
    BY <2>2, <2>3, <2>5, MainFraming
  <2>8. Out(e)' = Append(Out(e), m) /\ \A d \in Ends : d # e => Out(d)' = Out(d)
    <3>1. ~Does(e, "main", "send")'
      BY <1>2, <2>2, <2>3 DEF Does
    <3> QED BY <1>1, <1>2, <2>3, <2>5, <3>1 DEF Out, Does
  <2>9. e = Client => /\ ~Does(Client, "main", "give")' /\ (Waits' <=> next = "wait")
                      /\ next = "wait" => InProgress' = m.task
    BY <1>2, <2>2, <2>3 DEF Does, Waits, InProgress
  <2> QED BY <1>2, <2>3, <2>5, <2>6, <2>7, <2>8, <2>9
<1>4. CASE ~MustWait(e)
  <2> DEFINE r == <<State(next)>>
             x == Doing("send", m, r)
  <2>1. sendQ' = sendQ /\ Goes(e, "main", x) /\ sendQ[e] = <<>>
    BY <1>4 DEF Send, MustWait
  <2>2. x \in Frames /\ x.op = "send" /\ x.msg = m /\ x.rest = r
    BY SendingFields
  <2>3. (next = "wait" <=> r = <<State("wait")>>) /\ (next = "idle" => r = <<State("idle")>>)
    BY SMT DEF State
  <2> HIDE DEF x, r
  <2>4. Becomes(e, "main", x)
    BY <1>1, <2>1, <2>2, Going
  <2>5. FInv'
    BY <2>1, <2>2, <2>3, <2>4, MainFraming
  <2>6. Out(e)' = Append(Out(e), m) /\ \A d \in Ends : d # e => Out(d)' = Out(d)
    <3>1. Out(e)' = <<m>>
      BY <1>2, <2>2, <2>4 DEF Out, Does
    <3>2. Append(Out(e), m) = <<m>>
      BY <1>1, <2>1, SMT
    <3> QED BY <1>2, <2>1, <2>4, <3>1, <3>2 DEF Out, Does
  <2>7. e = Client => /\ ~Does(Client, "main", "give")' /\ (Waits' <=> next = "wait")
                      /\ next = "wait" => InProgress' = m.task
    BY <1>2, <2>2, <2>3, <2>4 DEF Does, Waits, InProgress
  <2> QED BY <1>1, <1>2, <2>1, <2>4, <2>5, <2>6, <2>7
<1> QED BY <1>3, <1>4

-----------------------------------------------------------------------------
(* Calls                                                                   *)

\* A new call has a number of its own.
LEMMA NewTaskKeeps ==
    ASSUME TaskInv, NewTask
    PROVE  /\ calls \in Nat /\ MaxCalls \in Nat /\ calls' = calls + 1 /\ calls' \in Nat
           /\ calls' \in Tasks /\ calls' \in 1 .. calls' /\ calls' \notin 1 .. calls
           /\ 1 .. calls \subseteq 1 .. calls' /\ calls' \in 0 .. MaxCalls
           /\ calls' \notin Asked \cup Told /\ \A n \in Asked : n < calls'
           /\ \A k \in Tasks : k >= calls' => executed[k] = 0
           /\ result[calls'] = "none"
           /\ subscribed' = subscribed \cup {calls'}
           /\ IsIdle(Client, "main") /\ ~Waits
           /\ UNCHANGED <<ext, connected, inbox, queue, mq, custom>>
           /\ UNCHANGED <<result, cancelling, executed, undefined>>
<1>1. /\ calls \in Nat /\ MaxCalls \in Nat /\ calls' = calls + 1 /\ calls < MaxCalls
  BY RdCallAssumption, SMT DEF TaskInv, TInv, NewTask, RdCallAssumption
<1>2. /\ calls' \in Nat /\ calls' \in Tasks /\ calls' \in 1 .. calls' /\ calls' \notin 1 .. calls
      /\ 1 .. calls \subseteq 1 .. calls' /\ calls' \in 0 .. MaxCalls /\ calls' > calls
  BY <1>1, SMT DEF Tasks
<1>3. executed[calls'] = 0 /\ result[calls'] = "none"
  BY <1>2 DEF TaskInv, OInv
<1>4. calls' \notin Asked
  BY <1>2 DEF TaskInv, OInv
<1>5. calls' \notin Told
  BY <1>2, ToldCalls
<1>6. ASSUME NEW n \in Asked PROVE n < calls'
  <2>1. n \in 1 .. calls
    BY DEF TaskInv, OInv
  <2> QED BY <1>1, <2>1, SMT
<1>7. ASSUME NEW k \in Tasks, k >= calls' PROVE executed[k] = 0
  <2>1. k > calls
    BY <1>1, <1>7, SMT DEF Tasks
  <2> QED BY <2>1 DEF TaskInv, OInv
<1>8. ~Waits
  BY DEF NewTask, IsIdle, Waits, Does
<1>9. /\ subscribed' = subscribed \cup {calls'} /\ IsIdle(Client, "main")
      /\ UNCHANGED <<ext, connected, inbox, queue, mq, custom>>
      /\ UNCHANGED <<result, cancelling, executed, undefined>>
  BY DEF NewTask, wirevars, servervars
<1> QED BY <1>1, <1>2, <1>3, <1>4, <1>5, <1>6, <1>7, <1>8, <1>9

\* The request of a new call is the last one on its way.
LEMMA AskKeeps ==
    ASSUME EInv, TaskInv, NewTask, NEW next \in {"idle", "wait"},
           Send(Client, Request(calls'), next)
    PROVE  /\ EInv' /\ Asked' = Asked \cup {calls'} /\ Told' = Told /\ Giver
           /\ ~Does(Client, "main", "give")' /\ (Waits' <=> next = "wait")
           /\ next = "wait" => InProgress' = calls'
<1>1. Types /\ KInv /\ FInv /\ DInv /\ LInv
  BY DEF EInv
<1>2. /\ calls' \in Nat /\ IsIdle(Client, "main") /\ Client \in Ends /\ Server \in Ends
      /\ \A n \in Asked : n < calls'
      /\ UNCHANGED <<ext, connected, inbox, queue, mq, custom>>
  BY NewTaskKeeps, TwoEnds
<1> DEFINE m == Request(calls')
<1>3. m \in Messages /\ m.op \in Said(Client) /\ m.op \in Calls /\ m.task = calls'
  BY <1>2, Words, SaidBy DEF Calls
<1>4. Send(Client, m, next)
  OBVIOUS
<1> HIDE DEF m
<1>5. /\ sendQ' \in [Ends -> Seq(Messages)] /\ \A f \in Ends : Has(sendQ'[f], Said(f))
      /\ at' \in [Ends -> [Threads -> Frames]] /\ FInv'
      /\ Out(Client)' = Append(Out(Client), m)
      /\ \A d \in Ends : d # Client => Out(d)' = Out(d)
      /\ ~Does(Client, "main", "give")' /\ (Waits' <=> next = "wait")
      /\ next = "wait" => InProgress' = m.task
      /\ Giver
  BY <1>1, <1>2, <1>3, <1>4, SendKeeps
<1>6. /\ Line(queue[Server], inbox[Server], Append(Out(Client), m))
      /\ Tokens(queue[Server], inbox[Server], Append(Out(Client), m)) = Asked \cup {calls'}
  <2>1. /\ Line(queue[Server], inbox[Server], Out(Client))
        /\ Asked = Tokens(queue[Server], inbox[Server], Out(Client))
        /\ queue[Server] \in Seq(Messages) /\ inbox[Server] \in Seq(Messages)
        /\ Out(Client) \in Seq(Messages)
    BY <1>1, <1>2, LineOf, TwoEnds DEF Asked
  <2> QED BY <1>2, <1>3, <2>1, LineSend
<1>7. Asked' = Asked \cup {calls'} /\ Told' = Told
  BY <1>2, <1>5, <1>6, TwoEnds DEF Asked, Told, OnWay
<1>8. LInv'
  <2>1. ASSUME NEW d \in Ends PROVE Line(queue[Other(d)], inbox[Other(d)], Out(d)')
    <3>1. CASE d = Client
      BY <1>5, <1>6, <3>1, TwoEnds
    <3>2. CASE d # Client
      BY <1>1, <1>5, <3>2 DEF LInv
    <3> QED BY <3>1, <3>2
  <2> QED BY <1>2, <2>1, TwoEnds DEF LInv
<1>9. Types' /\ KInv' /\ DInv'
  BY <1>1, <1>2, <1>5 DEF Types, KInv, DInv
<1> QED BY <1>3, <1>5, <1>7, <1>8, <1>9 DEF EInv

\* What is known of tasks holds with a new one.
LEMMA NewTaskInv ==
    ASSUME TaskInv, MCNext, NewTask,
           Asked' \subseteq Asked \cup {calls'}, Told' = Told,
           ~Does(Client, "main", "give")',
           sync_tasks' \subseteq sync_tasks \cup {calls'}, sync_tasks \subseteq sync_tasks',
           destroyed' \subseteq destroyed \cup {calls'}, destroyed \subseteq destroyed',
           calls' \in destroyed' => Asked' = Asked, Giver,
           sync_task_id' \in {sync_task_id, calls'}
    PROVE  TInv' /\ OInv' /\ GInv' /\ RInv'
<1>1. /\ calls \in Nat /\ MaxCalls \in Nat /\ calls' = calls + 1
      /\ calls' \in Tasks /\ calls' \in 1 .. calls' /\ calls' \notin 1 .. calls
      /\ 1 .. calls \subseteq 1 .. calls' /\ calls' \in 0 .. MaxCalls
      /\ calls' \notin Asked \cup Told
      /\ \A k \in Tasks : k >= calls' => executed[k] = 0
      /\ result[calls'] = "none"
      /\ subscribed' = subscribed \cup {calls'}
      /\ UNCHANGED <<queue, result, cancelling, executed, undefined>>
  BY NewTaskKeeps
<1>2. TInv'
  <2>1. sync_task_id' \in 0 .. calls'
    BY <1>1, SMT DEF TaskInv, TInv
  <2>2. subscribed' \cup destroyed' \cup sync_tasks' \cup cancelling' \cup undefined'
          \subseteq 1 .. calls'
    BY <1>1 DEF TaskInv, TInv
  <2> QED BY <1>1, <2>1, <2>2 DEF TaskInv, TInv
<1>3. OInv'
  <2>1. ASSUME NEW n \in Asked'
        PROVE  n \in 1 .. calls' /\ \A k \in Tasks : k >= n => executed'[k] = 0
    <3>1. CASE n \in Asked
      BY <1>1, <3>1 DEF TaskInv, OInv
    <3>2. CASE n = calls'
      BY <1>1, <3>2
    <3> QED BY <3>1, <3>2
  <2>2. \A n \in Told' : n \in Tasks /\ executed'[n] = 1
    BY <1>1 DEF TaskInv, OInv
  <2>3. ASSUME NEW n \in Tasks, n > calls' PROVE executed'[n] = 0 /\ result'[n] = "none"
    <3>1. n > calls
      BY <1>1, <2>3, SMT DEF Tasks
    <3> QED BY <1>1, <3>1 DEF TaskInv, OInv
  <2>4. CallsIn(queue'[Client]) \cap sync_tasks' = {}
    <3>1. CallsIn(queue[Client]) \subseteq Told
      BY TwoEnds DEF Told, OnWay, Tokens
    <3> QED BY <1>1, <3>1 DEF TaskInv, OInv
  <2>5. WireGives'
    <3>1. at'[Client]["wire"].op \in Gives => at[Client]["wire"].op \in Gives /\ Given' = Given
      BY DEF Giver, Given
    <3> QED BY <1>1, <3>1 DEF WireGives, TaskInv, OInv
  <2> QED BY <2>1, <2>2, <2>3, <2>4, <2>5 DEF OInv, WireGives
<1>4. /\ at'[Client]["wire"].op \in Gives =>
            /\ at[Client]["wire"].op \in Gives /\ Given' = Given /\ Given.task # calls'
            /\ (Does(Client, "wire", "give")' <=> Does(Client, "wire", "give"))
      /\ calls' \notin cancelling /\ cancelling' = cancelling
  <2>1. at[Client]["wire"].op \in Gives => Given.task # calls'
    BY <1>1 DEF TaskInv, OInv
  <2>2. calls' \notin cancelling
    BY <1>1 DEF TaskInv, TInv
  <2> QED BY <1>1, <2>1, <2>2 DEF Giver, Given, Does
<1>5. GInv'
  <2>1. ASSUME NEW n \in sync_tasks' \cap subscribed'
        PROVE  /\ result'[n] \notin {"none", "Cancelled"} => n \notin Asked' \cup Told'
               /\ result'[n] = "Cancelled" => n \in cancelling' \cup destroyed'
    <3>1. CASE n = calls'
      BY <1>1, <3>1
    <3>2. CASE n # calls'
      <4>1. n \in sync_tasks \cap subscribed /\ result'[n] = result[n]
        BY <1>1, <2>1, <3>2
      <4> QED BY <1>4, <3>2, <4>1 DEF TaskInv, GInv
    <3> QED BY <3>1, <3>2
  <2>2. at'[Client]["wire"].op \in Gives =>
           IF Given'.op = "Cancelled" THEN Given'.task \in cancelling'
           ELSE Given'.task \in sync_tasks' \ (Asked' \cup Told')
    BY <1>4 DEF TaskInv, GInv
  <2>3. Does(Client, "wire", "give")' /\ Given'.task \in sync_tasks' =>
          result'[Given'.task] = "none"
    <3>1. Does(Client, "wire", "give")' => at'[Client]["wire"].op \in Gives
      BY DEF Does, Gives
    <3> QED BY <1>1, <1>4, <3>1 DEF TaskInv, GInv
  <2>4. ASSUME NEW n \in Tasks \ (gave_up' \cup hasty')
        PROVE  n \notin undefined' /\ (n \in destroyed' => Unused(n)')
    <3>1. n \notin undefined' /\ (n \in destroyed => Unused(n))
      BY <1>1, <2>4, GivingUp DEF TaskInv, GInv
    <3>2. ASSUME n = calls', n \in destroyed' PROVE Unused(n)'
      BY <1>1, <1>4, <3>2 DEF Unused
    <3>3. ASSUME n # calls', n \in destroyed' PROVE Unused(n)'
      <4>1. Unused(n) /\ (n \in subscribed' => n \in subscribed)
        BY <1>1, <3>1, <3>3
      <4>2. n \in subscribed' => n \notin Asked' \cup Told'
        BY <1>4, <3>3, <4>1 DEF Unused
      <4> QED BY <1>4, <4>1, <4>2 DEF Unused
    <3> QED BY <3>1, <3>2, <3>3
  <2> QED BY <2>1, <2>2, <2>3, <2>4 DEF GInv
<1>6. RInv'
  <2>1. Giving("main")' = {} /\ Giving("wire")' \subseteq Giving("wire")
    BY GivingStays DEF Giving
  <2> QED BY <1>1, <2>1, RInvKept DEF TaskInv, Threads
<1> QED BY <1>2, <1>3, <1>5, <1>6

\* The last sync call that is not over, but that nobody waits for, stays so.
LEMMA ThrownStays ==
    ASSUME SInv, MCNext, sync_task_id' = sync_task_id, sync_task_id # 0, ~Waits,
           sync_tasks \subseteq sync_tasks', destroyed \subseteq destroyed', result' = result
    PROVE  /\ sync_task_id' \in sync_tasks'
           /\ sync_task_id' \in destroyed'
           /\ \/ result'[sync_task_id'] \notin {"none", "Success"}
              \/ sync_task_id' \in gave_up'
BY GivingUp DEF SInv

\* A call has a new number, greater than all on their way.
LEMMA StartCallInv == ASSUME EInv, TaskInv, MCNext, StartCall PROVE EInv' /\ TaskInv'
<1>1. /\ NewTask /\ Send(Client, Request(calls'), "idle")
      /\ UNCHANGED <<sync_tasks, destroyed, sync_task_id>>
  BY DEF StartCall
<1>2. /\ EInv' /\ Asked' = Asked \cup {calls'} /\ Told' = Told /\ Giver
      /\ ~Does(Client, "main", "give")' /\ ~Waits'
  BY <1>1, AskKeeps
<1>3. calls' \notin destroyed' /\ ~Waits /\ result' = result
  BY <1>1, NewTaskKeeps DEF TaskInv, TInv
<1>4. TInv' /\ OInv' /\ GInv' /\ RInv'
  BY <1>1, <1>2, <1>3, NewTaskInv
<1>5. SInv'
  <2>1. sync_task_id' # 0 =>
          /\ sync_task_id' \in sync_tasks'
          /\ sync_task_id' \in destroyed'
          /\ \/ result'[sync_task_id'] \notin {"none", "Success"}
             \/ sync_task_id' \in gave_up'
    BY <1>1, <1>3, ThrownStays DEF TaskInv
  <2> QED BY <1>2, <2>1 DEF SInv
<1> QED BY <1>2, <1>4, <1>5 DEF TaskInv

\* So has a sync call, which makes its caller wait.
LEMMA SyncCallInv == ASSUME EInv, TaskInv, MCNext, SyncCall PROVE EInv' /\ TaskInv'
<1>1. /\ NewTask /\ Send(Client, Request(calls'), "wait") /\ destroyed' = destroyed
      /\ sync_tasks' = sync_tasks \cup {calls'} /\ sync_task_id' = calls'
  BY DEF SyncCall
<1>2. /\ EInv' /\ Asked' = Asked \cup {calls'} /\ Told' = Told /\ Giver
      /\ ~Does(Client, "main", "give")' /\ Waits' /\ InProgress' = calls'
  BY <1>1, AskKeeps
<1>3. calls' \notin destroyed'
  BY <1>1, NewTaskKeeps DEF TaskInv, TInv
<1>4. TInv' /\ OInv' /\ GInv' /\ RInv'
  BY <1>1, <1>2, <1>3, NewTaskInv
<1>5. SInv'
  BY <1>1, <1>2, <1>3 DEF SInv
<1> QED BY <1>2, <1>4, <1>5 DEF TaskInv

\* A sync call that is refused says nothing.
LEMMA SyncRefusedInv == ASSUME EInv, TaskInv, MCNext, SyncRefused PROVE EInv' /\ TaskInv'
<1>1. /\ NewTask /\ destroyed' = destroyed \cup {calls'} /\ sync_tasks' = sync_tasks \cup {calls'}
      /\ sync_task_id # 0 /\ UNCHANGED <<sendQ, at, sync_task_id>>
  BY DEF SyncRefused
<1>2. /\ UNCHANGED <<ext, connected, inbox, queue, mq, custom>> /\ result' = result
      /\ ~Waits /\ IsIdle(Client, "main")
  BY <1>1, NewTaskKeeps
<1>3. Caller /\ (\A d \in Ends : Out(d)' = Out(d)) /\ (FInv => FInv')
  BY <1>1, SameThreads
<1>4. EInv'
  BY <1>1, <1>2, <1>3, LinesStay DEF EInv, Types, KInv, DInv
<1>5. Asked' = Asked /\ Told' = Told /\ Giver
  <2>1. \A d \in Ends : OnWay(d)' = OnWay(d)
    <3>1. \A d \in Ends : Out(d)' = Out(d)
      BY <1>3
    <3>2. inbox' = inbox /\ queue' = queue
      BY <1>2
    <3> QED BY <3>1, <3>2 DEF OnWay
  <2>2. Client \in Ends /\ Server \in Ends
    BY TwoEnds
  <2>3. Giver
    BY <1>3 DEF Caller
  <2> QED BY <2>1, <2>2, <2>3 DEF Asked, Told
<1>6. ~Waits' /\ ~Does(Client, "main", "give")'
  BY <1>1, <1>2, <1>3 DEF Caller, Speaker, IsIdle, Does
<1>7. TInv' /\ OInv' /\ GInv' /\ RInv'
  BY <1>1, <1>3, <1>5, <1>6, NewTaskInv DEF Caller
<1>8. SInv'
  <2>1. /\ sync_task_id' \in sync_tasks'
        /\ sync_task_id' \in destroyed'
        /\ \/ result'[sync_task_id'] \notin {"none", "Success"}
           \/ sync_task_id' \in gave_up'
    BY <1>1, <1>2, ThrownStays DEF TaskInv
  <2> QED BY <1>6, <2>1 DEF SInv
<1> QED BY <1>4, <1>7, <1>8 DEF TaskInv

-----------------------------------------------------------------------------
(* Calls end                                                               *)

\* The caller is done and idle again.
LEMMA CallerHalts ==
    ASSUME EInv, Does(Client, "main", "wait") \/ Does(Client, "main", "give"),
           Halts(Client, "main"), UNCHANGED <<extvars, wirevars>>
    PROVE  EInv' /\ Fewer /\ UNCHANGED queue /\ ~Waits' /\ ~Does(Client, "main", "give")'
           /\ at'[Client]["wire"] = at[Client]["wire"] /\ Giver
<1>1. /\ Types /\ KInv /\ FInv /\ DInv /\ LInv
      /\ UNCHANGED <<ext, connected, sendQ, inbox, queue, mq, custom>>
  BY DEF EInv, extvars, wirevars
<1>2. "main" \in Threads /\ "main" # "wire" /\ Client \in Ends
  BY TwoEnds DEF Threads
<1>3. Becomes(Client, "main", Idle)
  BY <1>1, <1>2, Going, IdleFields DEF Halts
<1>4. Idle.op \in MainOps /\ Idle.op \notin StateOps \cup Engaged
  BY IdleFields DEF MainOps, StateOps, Engaged
<1>5. FInv'
  BY <1>1, <1>2, <1>3, <1>4, Framing DEF Engaged
<1>6. \A d \in Ends : Out(d)' = Out(d)
  BY <1>1, <1>2, <1>3, <1>4, OutStays DEF Engaged, Does
<1>7. LInv' /\ Calm
  BY <1>1, <1>6, LinesStay
<1>8. Types' /\ KInv' /\ DInv'
  BY <1>1, <1>3 DEF Types, KInv, DInv, Becomes
<1>9. at'[Client]["main"] = Idle
  BY <1>3 DEF Becomes
<1>10. ~Waits' /\ ~Does(Client, "main", "give")'
  BY <1>4, <1>9 DEF Waits, Does, Engaged
<1>11. at'[Client]["wire"] = at[Client]["wire"]
  BY <1>2, <1>3 DEF Becomes, Threads
<1> QED BY <1>1, <1>5, <1>7, <1>8, <1>10, <1>11, CalmIsFewer DEF EInv, Giver

\* A task is destroyed when nothing is to come for it, or when it gave up.
LEMMA SyncEndsInv ==
    ASSUME EInv, TaskInv, MCNext, SyncReturns \/ SyncThrows PROVE EInv' /\ TaskInv'
<1> DEFINE n == InProgress
<1>1. /\ Does(Client, "main", "wait") /\ Halts(Client, "main") /\ UNCHANGED <<extvars, wirevars>>
      /\ destroyed' = destroyed \cup {n}
      /\ UNCHANGED <<calls, sync_tasks, result, subscribed, cancelling, executed, undefined>>
      /\ \/ sync_task_id' = 0
         \/ result[n] # "Success" /\ sync_task_id' = sync_task_id
  BY DEF SyncReturns, SyncThrows, SyncEnds, servervars
<1>2. EInv' /\ Fewer /\ UNCHANGED queue /\ ~Waits' /\ ~Does(Client, "main", "give")'
      /\ at'[Client]["wire"] = at[Client]["wire"] /\ Giver
  BY <1>1, CallerHalts
<1>3. Waits /\ n \in sync_tasks /\ n \notin destroyed
  BY <1>1 DEF Waits, TaskInv, SInv
<1>4. /\ gave_up \subseteq gave_up'
      /\ n \in gave_up' \/ (result[n] # "none" /\ n \notin cancelling)
      /\ n \in hasty' \/ ~(Does(Client, "wire", "fire") /\ Given.task = n)
  <2>1. n \in Over
    BY <1>1, <1>3 DEF Over
  <2> QED BY <2>1 DEF MCNext, Given
<1> HIDE DEF n
<1>5. TInv'
  <2>1. sync_task_id' \in 0 .. calls'
    BY <1>1, SMT DEF TaskInv, TInv
  <2>2. destroyed' \subseteq 1 .. calls'
    BY <1>1, <1>3 DEF TaskInv, TInv
  <2> QED BY <1>1, <2>1, <2>2 DEF TaskInv, TInv
<1>6. OInv'
  <2>1. /\ CallsIn(queue'[Client]) \cap sync_tasks = {}
        /\ \A k \in Tasks : k > calls => result'[k] = "none"
    BY <1>1, <1>2 DEF TaskInv, OInv
  <2>2. MainGives' /\ WireGives'
    BY <1>1, <1>2, GivesAsBefore DEF TaskInv, MainGives
  <2> QED BY <1>1, <1>2, <2>1, <2>2, OInvKept DEF TaskInv
<1>7. SInv'
  <2>1. ASSUME sync_task_id' # 0
        PROVE  /\ sync_task_id' \in sync_tasks'
               /\ sync_task_id' \in destroyed'
               /\ \/ result'[sync_task_id'] \notin {"none", "Success"}
                  \/ sync_task_id' \in gave_up'
    <3>1. sync_task_id' = sync_task_id /\ result[n] # "Success" /\ sync_task_id # 0
      BY <1>1, <2>1
    <3>2. CASE sync_task_id = n
      BY <1>1, <1>3, <1>4, <3>1, <3>2
    <3>3. CASE /\ sync_task_id \in sync_tasks
               /\ sync_task_id \in destroyed
               /\ \/ result[sync_task_id] \notin {"none", "Success"}
                  \/ sync_task_id \in gave_up
      BY <1>1, <1>4, <3>1, <3>3
    <3> QED BY <3>1, <3>2, <3>3 DEF TaskInv, SInv, n
  <2> QED BY <1>2, <2>1 DEF SInv
<1>8. Given' = Given /\ at'[Client]["wire"].op = at[Client]["wire"].op
  BY <1>2 DEF Given
<1>9. GInv'
  <2>1. ASSUME NEW k \in sync_tasks' \cap subscribed'
        PROVE  /\ result'[k] \notin {"none", "Cancelled"} => k \notin Asked' \cup Told'
               /\ result'[k] = "Cancelled" => k \in cancelling' \cup destroyed'
    <3>1. k \in sync_tasks \cap subscribed /\ result'[k] = result[k]
      BY <1>1, <2>1
    <3> QED BY <1>1, <1>2, <3>1 DEF TaskInv, GInv, Fewer
  <2>2. at'[Client]["wire"].op \in Gives =>
           IF Given'.op = "Cancelled" THEN Given'.task \in cancelling'
           ELSE Given'.task \in sync_tasks' \ (Asked' \cup Told')
    BY <1>1, <1>2, <1>8 DEF TaskInv, GInv, Fewer
  <2>3. Does(Client, "wire", "give")' /\ Given'.task \in sync_tasks' =>
          result'[Given'.task] = "none"
    BY <1>1, <1>8 DEF TaskInv, GInv, Does
  <2>4. ASSUME NEW k \in Tasks \ (gave_up' \cup hasty')
        PROVE  k \notin undefined' /\ (k \in destroyed' => Unused(k)')
    <3>1. k \notin undefined' /\ (k \in destroyed => Unused(k))
      BY <1>1, <2>4, GivingUp DEF TaskInv, GInv
    <3>2. CASE k \in destroyed
      <4>1. Unused(k) /\ k \notin cancelling'
        BY <1>1, <3>1, <3>2 DEF Unused
      <4>2. subscribed' \subseteq subscribed /\ Asked' \cup Told' \subseteq Asked \cup Told
        BY <1>1, <1>2 DEF Fewer
      <4> QED BY <1>8, <3>1, <4>1, <4>2, StaysUnused
    <3>3. CASE k = n
      <4>1. /\ result[n] # "none" /\ n \notin cancelling
            /\ ~(Does(Client, "wire", "fire") /\ Given.task = n)
        BY <1>4, <2>4, <3>3
      <4>2. ~(at[Client]["wire"].op \in Gives /\ Given.task = n)
        BY <1>3, <4>1 DEF TaskInv, GInv, Does, Gives
      <4>3. n \in subscribed => n \notin Asked \cup Told
        BY <1>3, <4>1 DEF TaskInv, GInv
      <4> QED BY <1>1, <1>2, <1>8, <3>1, <3>3, <4>1, <4>2, <4>3 DEF Unused, Fewer
    <3> QED BY <1>1, <3>1, <3>2, <3>3
  <2> QED BY <2>1, <2>2, <2>3, <2>4 DEF GInv
<1>10. RInv'
  <2>1. Giving("main")' = {} /\ Giving("wire")' \subseteq Giving("wire")
    BY <1>2, GivingStays DEF Giving
  <2> QED BY <1>1, <2>1, RInvKept DEF TaskInv, Threads
<1> QED BY <1>2, <1>5, <1>6, <1>7, <1>9, <1>10 DEF TaskInv

\* The scheduler of the client takes a response from its queue, ...
LEMMA ApplyResponseInv ==
    ASSUME EInv, TaskInv, MCNext, ApplyResponse PROVE EInv' /\ TaskInv'
<1> DEFINE m == Head(queue[Client])
           x == Doing("give", m, <<>>)
<1>1. Types /\ KInv /\ FInv /\ DInv /\ LInv
  BY DEF EInv
<1>2. /\ IsIdle(Client, "main") /\ queue[Client] # <<>> /\ m.op \in {"Success", "Fault"}
      /\ UNCHANGED <<ext, connected, sendQ, inbox, mq, custom>>
      /\ UNCHANGED <<calls, sync_tasks, destroyed, sync_task_id>>
      /\ UNCHANGED <<result, subscribed, cancelling, executed, undefined>>
      /\ at' = at \/ (Goes(Client, "main", x) /\ Lacks(m.task))
  BY DEF ApplyResponse, IsResponse, extvars, tvars, taskvars, servervars
<1>3. /\ queue' \in [Ends -> Seq(Messages)]
      /\ queue'[Client] = Tail(queue[Client])
      /\ \A f \in Ends : f # Client => queue'[f] = queue[f]
      /\ \A f \in Ends : Has(queue'[f], Said(Other(f)) \cup {"deferred"})
      /\ m \in Messages
  BY <1>1, TwoEnds, QueueTail DEF ApplyResponse
<1>4. "main" \in Threads /\ "main" # "wire" /\ Client \in Ends /\ m.op \in Calls
      /\ m.op # "deferred"
  BY <1>2, TwoEnds DEF Threads, Calls
<1>5. /\ Line(queue'[Client], inbox'[Client], Out(Other(Client)))
      /\ Tokens(queue'[Client], inbox'[Client], Out(Other(Client))) \subseteq OnWay(Other(Client))
      /\ CallsIn(queue'[Client]) \subseteq CallsIn(queue[Client])
      /\ m.task \in CallsIn(queue[Client])
  <2> DEFINE q == queue[Client]
             i == inbox[Client]
             o == Out(Other(Client))
  <2>1. Line(q, i, o) /\ q # <<>> /\ Head(q).op \in Calls
        /\ q \in Seq(Messages) /\ i \in Seq(Messages) /\ o \in Seq(Messages)
    BY <1>1, <1>2, <1>4, LineOf
  <2>2. OnWay(Other(Client)) = Tokens(q, i, o)
    BY <1>1, <1>4, LineOf
  <2>3. queue'[Client] = Tail(q) /\ inbox'[Client] = i /\ m = Head(q)
    BY <1>2, <1>3
  <2> HIDE DEF q, i, o, m
  <2>4. /\ Line(Tail(q), i, o) /\ Tokens(Tail(q), i, o) \subseteq Tokens(q, i, o)
        /\ CallsIn(Tail(q)) \subseteq CallsIn(q) /\ Head(q).task \in CallsIn(q)
    BY <2>1, LineTake
  <2> QED BY <2>2, <2>3, <2>4 DEF q, i, o
<1>6. /\ m.task \in Tasks /\ executed[m.task] = 1 /\ m.task \notin sync_tasks
  <2>1. m.task \in Told
    BY <1>5, TwoEnds DEF Told, OnWay, Tokens
  <2> QED BY <1>5, <2>1 DEF TaskInv, OInv
<1>7. Cardinality(Deferrals(Tail(queue[Client]))) = Cardinality(Deferrals(queue[Client]))
  BY <1>1, <1>2, <1>4, Queues, DeferralsOfTail
<1>8. x \in Frames /\ x.op = "give" /\ x.msg = m
  <2> DEFINE none == <<>>
  <2>1. none \in Seq(Messages) /\ "give" \in WireOps \cup MainOps
    BY DEF MainOps
  <2> HIDE DEF none
  <2>2. /\ Doing("give", m, none) \in Frames /\ Doing("give", m, none).op = "give"
        /\ Doing("give", m, none).msg = m
    BY <1>3, <2>1, DoingFields
  <2> QED BY <2>2 DEF none
<1> HIDE DEF m, x
<1>9. /\ at' \in [Ends -> [Threads -> Frames]] /\ FInv' /\ (\A d \in Ends : Out(d)' = Out(d))
      /\ ~Waits /\ ~Waits'
      /\ Does(Client, "main", "give")' =>
            InProgress' = m.task /\ at'[Client]["main"].msg = m /\ Lacks(m.task)
      /\ Giver
  <2>1. ~Does(Client, "main", "send") /\ ~Waits /\ ~Does(Client, "main", "give")
    BY <1>2 DEF IsIdle, Does, Waits
  <2>2. CASE Goes(Client, "main", x)
    <3>1. Becomes(Client, "main", x)
      BY <1>1, <1>4, <1>8, <2>2, Going
    <3>2. at'[Client]["main"] = x
      BY <3>1 DEF Becomes
    <3>3. FInv'
      <4>1. x.op \in MainOps /\ x.op # "send" /\ x.op \notin StateOps
        BY <1>8 DEF MainOps, StateOps
      <4> QED BY <1>1, <1>2, <1>4, <3>1, <4>1, Framing
    <3>4. \A d \in Ends : Out(d)' = Out(d)
      BY <1>2, <1>4, <1>8, <2>1, <3>1, OutStays
    <3>5. ~Waits' /\ InProgress' = m.task
      BY <1>8, <3>2 DEF Waits, Does, InProgress
    <3>6. Giver
      BY <1>4, <3>1 DEF Becomes, Giver, Threads
    <3>7. CASE at' = at
      BY <2>1, <3>1, <3>3, <3>4, <3>5, <3>6, <3>7 DEF Becomes, Does
    <3>8. CASE Lacks(m.task)
      BY <1>8, <2>1, <3>1, <3>2, <3>3, <3>4, <3>5, <3>6, <3>8 DEF Becomes
    <3> QED BY <1>2, <3>7, <3>8
  <2>3. CASE at' = at
    <3>1. FInv' /\ (\A d \in Ends : Out(d)' = Out(d)) /\ Caller
      BY <1>1, <1>2, <2>3, SameThreads
    <3> QED BY <1>1, <2>1, <2>3, <3>1 DEF Caller, Speaker, Types
  <2> QED BY <1>2, <2>2, <2>3
<1>10. LInv' /\ Calm
  BY <1>1, <1>2, <1>3, <1>4, <1>5, <1>9, OneLine
<1>11. EInv'
  <2>1. Types' /\ KInv'
    BY <1>1, <1>2, <1>3, <1>9 DEF Types, KInv
  <2>2. DInv'
    BY <1>1, <1>2, <1>3, <1>7 DEF DInv
  <2> QED BY <1>9, <1>10, <2>1, <2>2 DEF EInv
<1>12. TInv'
  BY <1>2 DEF TaskInv, TInv
<1>13. Fewer /\ CallsIn(queue'[Client]) \cap sync_tasks = {}
  BY <1>10, CalmIsFewer DEF TaskInv, OInv
<1>14. OInv'
  <2>1. \A n \in Tasks : n > calls => result'[n] = "none"
    BY <1>2 DEF TaskInv, OInv
  <2>2. MainGives' /\ WireGives'
    BY <1>2, <1>6, <1>9, GivesAsBefore DEF TaskInv, MainGives
  <2> QED BY <1>2, <1>13, <2>1, <2>2, OInvKept DEF TaskInv
<1>15. SInv'
  <2>1. sync_task_id' # 0 =>
          /\ sync_task_id' \in sync_tasks'
          /\ sync_task_id' \in destroyed'
          /\ \/ result'[sync_task_id'] \notin {"none", "Success"}
             \/ sync_task_id' \in gave_up'
    BY <1>2, <1>9, ThrownStays DEF TaskInv
  <2> QED BY <1>9, <2>1 DEF SInv
<1>16. GInv'
  <2>1. Asked' \cup Told' \subseteq Asked \cup Told
    BY <1>13 DEF Fewer
  <2> QED BY <1>2, <1>9, <2>1, GInvKept DEF TaskInv
<1>17. RInv'
  <2>1. \A n \in Giving("main")' : result'[n] = "none"
    BY <1>2, <1>9 DEF Giving, Lacks
  <2>2. Giving("wire")' \subseteq Giving("wire")
    BY <1>9, GivingStays
  <2> QED BY <1>2, <2>1, <2>2, RInvKept DEF TaskInv, Threads
<1> QED BY <1>11, <1>12, <1>14, <1>15, <1>16, <1>17 DEF TaskInv

\* ... and gives the result.
LEMMA GiveResultInv ==
    ASSUME EInv, TaskInv, MCNext, GiveResult PROVE EInv' /\ TaskInv'
<1> DEFINE m == at[Client]["main"].msg
<1>1. /\ Does(Client, "main", "give") /\ Give(m) /\ Halts(Client, "main")
      /\ UNCHANGED <<extvars, wirevars>>
      /\ UNCHANGED <<calls, sync_tasks, destroyed, sync_task_id>>
      /\ UNCHANGED <<subscribed, cancelling, executed, undefined>>
  BY DEF GiveResult, taskvars, servervars
<1>2. EInv' /\ Fewer /\ UNCHANGED queue /\ ~Waits' /\ ~Does(Client, "main", "give")'
      /\ Giver
  BY <1>1, CallerHalts
<1>3. /\ m.task \in Tasks /\ executed[m.task] = 1 /\ m.task \notin sync_tasks
      /\ m.op \in Results
  BY <1>1, SaidBy DEF TaskInv, OInv, InProgress
<1> HIDE DEF m
<1>4. /\ result' \in [Tasks -> {"none"} \cup Results]
      /\ \A n \in Tasks : n # m.task => result'[n] = result[n]
  BY <1>1, <1>3, ResultGiven DEF TaskInv
<1>5. Speaker
  BY <1>1, <1>2 DEF Speaker, Waits, Does
<1>6. TInv'
  BY <1>1, <1>4 DEF TaskInv, TInv
<1>7. OInv'
  <2>1. ASSUME NEW n \in Tasks, n > calls PROVE result'[n] = "none"
    <3>1. executed[n] = 0 /\ result[n] = "none"
      BY <2>1 DEF TaskInv, OInv
    <3> QED BY <1>3, <1>4, <3>1
  <2>2. CallsIn(queue'[Client]) \cap sync_tasks = {}
    BY <1>2 DEF TaskInv, OInv
  <2>3. MainGives' /\ WireGives'
    BY <1>1, <1>2, GivesAsBefore DEF TaskInv, MainGives
  <2> QED BY <1>1, <1>2, <2>1, <2>2, <2>3, OInvKept DEF TaskInv
<1>8. SInv'
  <2>1. \A n \in Tasks : n \in sync_tasks /\ result[n] \notin {"none", "Success"} =>
                            result'[n] \notin {"none", "Success"}
    BY <1>3, <1>4
  <2> QED BY <1>1, <1>5, <2>1, GivingUp, SInvKept DEF TaskInv
<1>9. GInv'
  <2>1. \A n \in sync_tasks : result'[n] = result[n]
    <3>1. \A n \in sync_tasks : n \in Tasks /\ n # m.task
      BY <1>3, RdCallAssumption, SMT DEF TaskInv, TInv, Tasks, RdCallAssumption
    <3> QED BY <1>4, <3>1
  <2>2. Asked' \cup Told' \subseteq Asked \cup Told
    BY <1>2 DEF Fewer
  <2> QED BY <1>1, <1>2, <2>1, <2>2, GInvKept DEF TaskInv
<1>10. RInv'
  <2>1. Giving("main")' = {} /\ Giving("wire")' \subseteq Giving("wire")
    BY <1>2, GivingStays DEF Giving
  <2>2. ASSUME NEW n \in Giving("wire") PROVE n \in raced \/ result'[n] = result[n]
    <3>1. CASE n = m.task
      <4>1. n \in Giving("main")
        BY <1>1, <3>1 DEF Giving, m
      <4> QED BY <2>2, <4>1 DEF TaskInv, RInv
    <3>2. CASE n # m.task
      <4>1. n \in Tasks
        <5>1. n \in 1 .. calls
          BY <2>2 DEF TaskInv, OInv, Giving, Given, Gives, Does
        <5> QED BY <5>1, RdCallAssumption, SMT DEF TaskInv, TInv, Tasks, RdCallAssumption
      <4> QED BY <1>4, <3>2, <4>1
    <3> QED BY <3>1, <3>2
  <2> QED BY <2>1, <2>2, RInvKept DEF TaskInv, Threads
<1> QED BY <1>2, <1>6, <1>7, <1>8, <1>9, <1>10 DEF TaskInv

\* The wire thread goes on with the result it gives, or stops giving it.
LEMMA GivingGoesOn ==
    ASSUME EInv, NEW x \in Frames, Goes(Client, "wire", x), UNCHANGED <<extvars, wirevars>>,
           x.op \in WireOps, x.rest = <<>>
    PROVE  /\ EInv' /\ Becomes(Client, "wire", x) /\ Speaker /\ Fewer
           /\ CallsIn(queue'[Client]) \subseteq CallsIn(queue[Client])
           /\ at'[Client]["wire"] = x /\ Given' = x.msg
<1>1. EInv' /\ Becomes(Client, "wire", x) /\ Calm /\ Speaker
  BY WireKeeps, TwoEnds
<1>2. at'[Client]["wire"] = x
  BY <1>1 DEF Becomes
<1> QED BY <1>1, <1>2, CalmIsFewer DEF Given

\* The value is set: the task has no other one, or both threads give it one.
LEMMA SetValueInv ==
    ASSUME EInv, TaskInv, MCNext, SetValue PROVE EInv' /\ TaskInv'
<1> DEFINE m == Given
           n == m.task
           x == [at[Client]["wire"] EXCEPT !.op = "fire"]
<1>1. /\ Does(Client, "wire", "give") /\ at[Client]["wire"].op \in Gives
      /\ Uses(n) /\ Give(m) /\ GoesOn(Client, "wire", "fire") /\ UNCHANGED <<extvars, wirevars>>
      /\ UNCHANGED <<calls, sync_tasks, destroyed, sync_task_id>>
      /\ UNCHANGED <<subscribed, cancelling, executed>>
  BY DEF SetValue, taskvars, servervars, Given, Does, Gives
<1>2. at[Client]["wire"] \in Frames /\ at[Client]["wire"].rest = <<>>
  BY TwoEnds, Queues DEF EInv, FInv, FrameInv
<1>3. /\ x \in Frames /\ x.op = "fire" /\ x.msg = m /\ x.rest = <<>> /\ x.op \in WireOps
      /\ Goes(Client, "wire", x)
  <2>1. "fire" \in WireOps
    BY DEF WireOps, Gives
  <2> QED BY <1>1, <1>2, <2>1 DEF Frames, Goes, GoesOn, Given
<1>4. /\ n \in 1 .. calls /\ n \in Tasks /\ m.op \in Results
      /\ m.op # "Cancelled" => executed[n] = 1
  <2>1. /\ n \in 1 .. calls /\ m.op \in Results
        /\ m.op # "Cancelled" => executed[n] = 1
    BY <1>1 DEF TaskInv, OInv
  <2>2. n \in Tasks
    BY <2>1, RdCallAssumption, SMT DEF TaskInv, TInv, Tasks, RdCallAssumption
  <2> QED BY <2>1, <2>2
<1> HIDE DEF x
<1>5. /\ EInv' /\ Speaker /\ Fewer /\ CallsIn(queue'[Client]) \subseteq CallsIn(queue[Client])
      /\ at'[Client]["wire"].op = "fire" /\ Given' = m
  BY <1>1, <1>3, GivingGoesOn
<1>6. ~Unused(n)
  BY <1>1 DEF Unused
<1> HIDE DEF m
<1>7. undefined' \subseteq undefined \cup (destroyed \cap (gave_up \cup hasty))
  BY <1>1, <1>4, <1>6, UsedIsThere DEF TaskInv
<1>8. /\ result' \in [Tasks -> {"none"} \cup Results] /\ result'[n] = m.op
      /\ \A k \in Tasks : k # n => result'[k] = result[k]
  BY <1>1, <1>4, ResultGiven DEF TaskInv
<1>9. /\ IF m.op = "Cancelled" THEN n \in cancelling ELSE n \in sync_tasks \ (Asked \cup Told)
      /\ n \in sync_tasks => result[n] = "none"
  BY <1>1 DEF TaskInv, GInv, m
<1>10. \A k \in sync_tasks : k \in Tasks
  BY RdCallAssumption, SMT DEF TaskInv, TInv, Tasks, RdCallAssumption
<1>11. TInv'
  <2>1. subscribed' \cup destroyed' \cup sync_tasks' \cup cancelling' \cup undefined'
          \subseteq 1 .. calls
    BY <1>1, <1>7 DEF TaskInv, TInv
  <2> QED BY <1>1, <1>8, <2>1 DEF TaskInv, TInv
<1>12. OInv'
  <2>1. ASSUME NEW k \in Tasks, k > calls PROVE result'[k] = "none"
    <3>1. k # n /\ result[k] = "none"
      BY <1>4, <2>1, SMT DEF TaskInv, OInv, TInv
    <3> QED BY <1>8, <3>1
  <2>2. MainGives'
    BY <1>1, <1>5, GivesAsBefore DEF TaskInv
  <2>3. WireGives'
    BY <1>1, <1>4, <1>5 DEF WireGives
  <2>4. CallsIn(queue'[Client]) \cap sync_tasks = {}
    BY <1>5 DEF TaskInv, OInv
  <2> QED BY <1>1, <1>5, <2>1, <2>2, <2>3, <2>4, OInvKept DEF TaskInv
<1>13. SInv'
  <2>1. \A k \in Tasks : k \in sync_tasks /\ result[k] \notin {"none", "Success"} =>
                            result'[k] \notin {"none", "Success"}
    BY <1>8, <1>9
  <2> QED BY <1>1, <1>5, <2>1, GivingUp, SInvKept DEF TaskInv
<1>14. GInv'
  <2>1. ASSUME NEW k \in sync_tasks' \cap subscribed'
        PROVE  /\ result'[k] \notin {"none", "Cancelled"} => k \notin Asked' \cup Told'
               /\ result'[k] = "Cancelled" => k \in cancelling' \cup destroyed'
    <3>1. CASE k = n
      BY <1>1, <1>5, <1>8, <1>9, <3>1 DEF Fewer
    <3>2. CASE k # n
      <4>1. k \in sync_tasks \cap subscribed /\ result'[k] = result[k]
        BY <1>1, <1>8, <1>10, <2>1, <3>2
      <4> QED BY <1>1, <1>5, <4>1 DEF TaskInv, GInv, Fewer
    <3> QED BY <3>1, <3>2
  <2>2. IF Given'.op = "Cancelled" THEN Given'.task \in cancelling'
        ELSE Given'.task \in sync_tasks' \ (Asked' \cup Told')
    BY <1>1, <1>5, <1>9 DEF Fewer
  <2>3. ~Does(Client, "wire", "give")'
    BY <1>5 DEF Does
  <2>4. ASSUME NEW k \in Tasks \ (gave_up' \cup hasty')
        PROVE  k \notin undefined' /\ (k \in destroyed' => Unused(k)')
    <3>1. k \notin undefined /\ (k \in destroyed => Unused(k)) /\ k \notin gave_up \cup hasty
      BY <2>4, GivingUp DEF TaskInv, GInv
    <3>2. ASSUME k \in destroyed PROVE Unused(k)'
      <4>1. Unused(k) /\ k \notin cancelling
        BY <3>1, <3>2 DEF Unused
      <4>2. Given' = Given /\ Asked' \cup Told' \subseteq Asked \cup Told
        BY <1>5 DEF m, Fewer
      <4> QED BY <1>1, <4>1, <4>2, StaysUnused
    <3> QED BY <1>1, <1>7, <3>1, <3>2
  <2> QED BY <2>1, <2>2, <2>3, <2>4 DEF GInv
<1>15. RInv'
  <2>1. ASSUME NEW t \in Threads, NEW k \in Giving(t)'
        PROVE  \/ result'[k] = "none" \/ k \in raced
               \/ k \in Giving(t) /\ result'[k] = result[k]
    <3>1. t = "main" /\ k \in Giving("main")
      <4>1. Giving("wire")' = {}
        BY <1>5 DEF Giving, Does
      <4>2. Giving("main")' \subseteq Giving("main")
        BY <1>5, GivingStays
      <4> QED BY <2>1, <4>1, <4>2 DEF Threads
    <3>2. CASE k = n
      <4>1. n \in Giving("wire")
        BY <1>1 DEF Giving, Given, m
      <4> QED BY <3>1, <3>2, <4>1 DEF TaskInv, RInv
    <3>3. CASE k # n
      <4>1. k \in Tasks
        BY <3>1 DEF TaskInv, OInv, Giving, InProgress
      <4> QED BY <1>8, <3>1, <3>3, <4>1
    <3> QED BY <3>2, <3>3
  <2> QED BY <2>1, RInvKept DEF TaskInv
<1> QED BY <1>5, <1>11, <1>12, <1>13, <1>14, <1>15 DEF TaskInv

\* The wire thread is done with a task.
LEMMA DoneWith ==
    ASSUME TaskInv, MCNext, NEW n \in Tasks, Uses(n), ~Unused(n),
           at'[Client]["wire"].op \notin Gives, Speaker, Fewer,
           CallsIn(queue'[Client]) \subseteq CallsIn(queue[Client]),
           UNCHANGED <<calls, sync_tasks, destroyed, sync_task_id, result, executed>>,
           \/ UNCHANGED <<subscribed, cancelling>>
           \/ subscribed' = subscribed \ {n} /\ cancelling' = cancelling \ {n}
    PROVE  TaskInv'
<1>1. undefined' \subseteq undefined \cup (destroyed \cap (gave_up \cup hasty))
  BY UsedIsThere DEF TaskInv
<1>2. TInv'
  <2>1. subscribed' \cup destroyed' \cup sync_tasks' \cup cancelling' \cup undefined'
          \subseteq 1 .. calls
    BY <1>1 DEF TaskInv, TInv
  <2> QED BY <2>1 DEF TaskInv, TInv
<1>3. OInv'
  <2>1. \A k \in Tasks : k > calls => result'[k] = "none"
    BY DEF TaskInv, OInv
  <2>2. MainGives' /\ WireGives'
    BY GivesAsBefore DEF TaskInv, WireGives
  <2>3. CallsIn(queue'[Client]) \cap sync_tasks = {}
    BY DEF TaskInv, OInv
  <2> QED BY <2>1, <2>2, <2>3, OInvKept DEF TaskInv
<1>4. SInv'
  BY GivingUp, SInvKept DEF TaskInv
<1>5. GInv'
  <2>1. ASSUME NEW k \in sync_tasks' \cap subscribed'
        PROVE  /\ result'[k] \notin {"none", "Cancelled"} => k \notin Asked' \cup Told'
               /\ result'[k] = "Cancelled" => k \in cancelling' \cup destroyed'
    <3>1. k \in sync_tasks \cap subscribed /\ (k \in cancelling => k \in cancelling')
      BY <2>1
    <3> QED BY <3>1 DEF TaskInv, GInv, Fewer
  <2>2. ~Does(Client, "wire", "give")'
    BY DEF Does, Gives
  <2>3. ASSUME NEW k \in Tasks \ (gave_up' \cup hasty')
        PROVE  k \notin undefined' /\ (k \in destroyed' => Unused(k)')
    <3>1. k \notin undefined /\ (k \in destroyed => Unused(k)) /\ k \notin gave_up \cup hasty
      BY <2>3, GivingUp DEF TaskInv, GInv
    <3>2. ASSUME k \in destroyed PROVE Unused(k)'
      <4>1. Unused(k) /\ k \notin cancelling
        BY <3>1, <3>2 DEF Unused
      <4> QED BY <4>1, StaysUnused DEF Fewer
    <3> QED BY <1>1, <3>1, <3>2
  <2> QED BY <2>1, <2>2, <2>3 DEF GInv
<1>6. RInv'
  <2>1. Giving("wire")' = {} /\ Giving("main")' \subseteq Giving("main")
    BY GivingStays DEF Giving, Does, Gives
  <2> QED BY <2>1, RInvKept DEF TaskInv, Threads
<1> QED BY <1>2, <1>3, <1>4, <1>5, <1>6 DEF TaskInv

\* The change is fired.
LEMMA FireChangeInv ==
    ASSUME EInv, TaskInv, MCNext, FireChange PROVE EInv' /\ TaskInv'
<1> DEFINE n == Given.task
           end == Doing("end", Nothing, <<>>)
<1>1. /\ at[Client]["wire"].op \in Gives /\ Uses(n) /\ UNCHANGED <<extvars, wirevars>>
      /\ UNCHANGED <<calls, sync_tasks, destroyed, sync_task_id, result, executed>>
      /\ \/ UNCHANGED <<subscribed, cancelling>>
         \/ subscribed' = subscribed \ {n} /\ cancelling' = cancelling \ {n}
      /\ Goes(Client, "wire", Idle) \/ Goes(Client, "wire", end)
  BY DEF FireChange, Halts, taskvars, servervars, Given, Does, Gives
<1>2. n \in Tasks
  <2>1. n \in 1 .. calls
    BY <1>1 DEF TaskInv, OInv
  <2> QED BY <2>1, RdCallAssumption, SMT DEF TaskInv, TInv, Tasks, RdCallAssumption
<1>3. ~Unused(n)
  BY <1>1 DEF Unused
<1>4. PICK x \in Frames : /\ Goes(Client, "wire", x) /\ x.rest = <<>>
                          /\ x.op \in WireOps /\ x.op \notin Gives
  <2>1. /\ Idle \in Frames /\ Idle.rest = <<>> /\ Idle.op \in WireOps /\ Idle.op \notin Gives
    BY IdleFields DEF WireOps, Gives
  <2>2. /\ end \in Frames /\ end.rest = <<>> /\ end.op \in WireOps /\ end.op \notin Gives
    <3> DEFINE none == <<>>
    <3>1. none \in Seq(Messages) /\ "end" \in WireOps /\ "end" \notin Gives /\ Nothing \in Messages
      BY Words DEF WireOps, Gives
    <3> HIDE DEF none
    <3>2. /\ Doing("end", Nothing, none) \in Frames /\ Doing("end", Nothing, none).op = "end"
          /\ Doing("end", Nothing, none).rest = none
      BY <3>1, DoingFields
    <3> QED BY <3>1, <3>2 DEF none
  <2> QED BY <1>1, <2>1, <2>2
<1>5. /\ EInv' /\ Speaker /\ Fewer /\ CallsIn(queue'[Client]) \subseteq CallsIn(queue[Client])
      /\ at'[Client]["wire"] = x
  BY <1>1, <1>4, GivingGoesOn
<1> HIDE DEF n, end
<1> QED BY <1>1, <1>2, <1>3, <1>4, <1>5, DoneWith

\* A termination action finds a task that is to be cancelled, or one that needs not.
LEMMA TerminateInv ==
    ASSUME EInv, TaskInv, MCNext, Terminate PROVE EInv' /\ TaskInv'
<1>1. PICK n \in cancelling :
         /\ Uses(n)
         /\ IF Lacks(n)
            THEN /\ Goes(Client, "wire", Doing("give", Response(n, "Cancelled"), <<>>))
                 /\ UNCHANGED <<subscribed, cancelling>>
            ELSE /\ subscribed' = subscribed \ {n} /\ cancelling' = cancelling \ {n}
                 /\ UNCHANGED at
  BY DEF Terminate
<1>2. /\ at[Client]["wire"].op \notin Gives /\ UNCHANGED <<extvars, wirevars>>
      /\ UNCHANGED <<calls, sync_tasks, destroyed, sync_task_id, result, executed>>
  BY DEF Terminate, Does, Gives, taskvars, servervars
<1>3. n \in 1 .. calls /\ n \in Tasks /\ n \in Nat
  <2>1. n \in 1 .. calls
    BY DEF TaskInv, TInv
  <2> QED BY <2>1, RdCallAssumption, SMT DEF TaskInv, TInv, Tasks, RdCallAssumption
<1>4. ~Unused(n)
  BY DEF Unused
<1>5. CASE Lacks(n)
  <2> DEFINE m == Response(n, "Cancelled")
             none == <<>>
             x == Doing("give", m, none)
  <2>1. m \in Messages /\ m.op = "Cancelled" /\ m.task = n /\ m.op \in Results
    BY <1>3, Words DEF Results
  <2>2. none \in Seq(Messages) /\ "give" \in WireOps
    BY DEF WireOps, Gives
  <2>3. Goes(Client, "wire", x) /\ UNCHANGED <<subscribed, cancelling>>
    BY <1>1, <1>5
  <2> HIDE DEF m, none
  <2>4. x \in Frames /\ x.op \in WireOps /\ x.rest = none
    BY <2>1, <2>2, DoingFields
  <2>5. /\ EInv' /\ Becomes(Client, "wire", x) /\ Speaker /\ Fewer
        /\ CallsIn(queue'[Client]) \subseteq CallsIn(queue[Client])
    <3> HIDE DEF x
    <3>1. x.rest = <<>>
      BY <2>4 DEF none
    <3> QED BY <1>2, <2>3, <2>4, <3>1, GivingGoesOn
  <2>6. CallsIn(queue'[Client]) \cap sync_tasks = {}
    BY <2>5 DEF TaskInv, OInv
  <2>7. Becomes(Client, "wire", Doing("give", m, <<>>))
    BY <2>5 DEF none
  <2> QED BY <1>1, <1>2, <1>3, <1>4, <1>5, <2>1, <2>3, <2>5, <2>6, <2>7, GivesNext
<1>6. CASE ~Lacks(n)
  <2>1. UNCHANGED at /\ subscribed' = subscribed \ {n} /\ cancelling' = cancelling \ {n}
    BY <1>1, <1>6
  <2>2. UNCHANGED <<ext, connected, sendQ, inbox, queue, mq, custom>>
    BY <1>2 DEF extvars, wirevars
  <2>3. Caller /\ (\A d \in Ends : Out(d)' = Out(d)) /\ FInv'
    BY <2>1, <2>2, SameThreads DEF EInv
  <2>4. LInv' /\ Calm
    BY <2>2, <2>3, LinesStay DEF EInv
  <2>5. EInv'
    BY <2>1, <2>2, <2>3, <2>4 DEF EInv, Types, KInv, DInv
  <2>6. Fewer /\ CallsIn(queue'[Client]) \subseteq CallsIn(queue[Client])
    BY <2>4, CalmIsFewer
  <2> QED BY <1>1, <1>2, <1>3, <1>4, <2>1, <2>3, <2>5, <2>6, DoneWith DEF Caller
<1> QED BY <1>5, <1>6

-----------------------------------------------------------------------------
(* The endpoint executes a request and responds                            *)

\* The endpoint takes the oldest request: it is asked no more, and told only if the
\* endpoint wants it.
LEMMA ExecuteKeeps ==
    ASSUME EInv, TaskInv, Execute
    PROVE  LET n == Head(queue[Server]).task
           IN  /\ EInv' /\ Caller /\ queue'[Client] = queue[Client]
               /\ n \in Asked /\ Asked' \subseteq Asked /\ \A k \in Asked' : n < k
               /\ Told' = Told \/ (Told' = Told \cup {n} /\ Wanted(n))
<1> DEFINE q == queue[Server]
           m == Head(q)
           n == m.task
<1>1. Types /\ KInv /\ FInv /\ DInv /\ LInv /\ Server \in Ends /\ Client \in Ends
      /\ Other(Server) = Client /\ Other(Client) = Server /\ Client # Server
  BY TwoEnds DEF EInv
<1>2. /\ IsIdle(Server, "main") /\ q # <<>> /\ m.op = "request"
      /\ UNCHANGED <<ext, connected, inbox, mq, custom>>
      /\ \/ Wanted(n) /\ \E r \in {"Success", "Fault"} : Send(Server, Response(n, r), "idle")
         \/ UNCHANGED <<sendQ, at>>
  BY DEF Execute
<1>3. /\ queue' \in [Ends -> Seq(Messages)]
      /\ queue'[Server] = Tail(q)
      /\ \A f \in Ends : f # Server => queue'[f] = queue[f]
      /\ \A f \in Ends : Has(queue'[f], Said(Other(f)) \cup {"deferred"})
      /\ m \in Messages
  BY <1>1, QueueTail DEF Execute
<1>4. n \in Nat /\ m.op \in Calls /\ m.op # "deferred"
  BY <1>2, <1>3, MessageTypes DEF Calls
<1> DEFINE i == inbox[Server]
           o == Out(Client)
<1>5. /\ Line(q, i, o) /\ Asked = Tokens(q, i, o)
      /\ q \in Seq(Messages) /\ i \in Seq(Messages) /\ o \in Seq(Messages)
  BY <1>1, LineOf DEF Asked
<1>6. /\ Line(Tail(q), i, o) /\ Tokens(Tail(q), i, o) \subseteq Asked
      /\ n \in CallsIn(q) /\ \A k \in Tokens(Tail(q), i, o) : n < k
  <2> HIDE DEF q, i, o
  <2> QED BY <1>2, <1>4, <1>5, LineTake
<1>7. n \in Asked
  BY <1>5, <1>6 DEF Tokens
<1>8. Cardinality(Deferrals(Tail(q))) = Cardinality(Deferrals(q))
  <2> HIDE DEF q
  <2> QED BY <1>2, <1>4, <1>5, DeferralsOfTail
<1>9. DInv'
  BY <1>1, <1>2, <1>3, <1>8 DEF DInv
<1> DEFINE p == queue[Client]
           j == inbox[Client]
           s == Out(Server)
<1>10. /\ Line(p, j, s) /\ Told = Tokens(p, j, s)
       /\ p \in Seq(Messages) /\ j \in Seq(Messages) /\ s \in Seq(Messages)
  BY <1>1, LineOf DEF Told
<1>11. ASSUME Out(Client)' = o, Line(p, j, Out(Server)')
       PROVE  LInv' /\ Asked' = Tokens(Tail(q), i, o) /\ Told' = Tokens(p, j, Out(Server)')
  <2>1. queue'[Server] = Tail(q) /\ queue'[Client] = p /\ inbox'[Server] = i /\ inbox'[Client] = j
    BY <1>1, <1>2, <1>3
  <2>2. Line(queue'[Other(Client)], inbox'[Other(Client)], Out(Client)')
    BY <1>1, <1>6, <1>11, <2>1
  <2>3. Line(queue'[Other(Server)], inbox'[Other(Server)], Out(Server)')
    BY <1>1, <1>11, <2>1
  <2>4. LInv'
    BY <2>2, <2>3, TwoEnds DEF LInv
  <2> QED BY <1>1, <1>11, <2>1, <2>4 DEF Asked, Told, OnWay
<1> HIDE DEF q, m, n, i, o, p, j, s
<1>12. CASE UNCHANGED <<sendQ, at>>
  <2>1. Caller /\ (\A d \in Ends : Out(d)' = Out(d)) /\ FInv'
    BY <1>1, <1>12, SameThreads
  <2>2. LInv' /\ Asked' = Tokens(Tail(q), i, o) /\ Told' = Told
    BY <1>1, <1>10, <1>11, <2>1 DEF o, s
  <2>3. Types' /\ KInv'
    BY <1>1, <1>2, <1>3, <1>12 DEF Types, KInv
  <2> QED BY <1>1, <1>3, <1>6, <1>7, <1>9, <2>1, <2>2, <2>3 DEF EInv, n, m, q
<1>13. ASSUME NEW r \in {"Success", "Fault"}, Send(Server, Response(n, r), "idle")
       PROVE  /\ EInv' /\ Caller /\ queue'[Client] = queue[Client]
              /\ n \in Asked /\ Asked' \subseteq Asked /\ \A k \in Asked' : n < k
              /\ Told' = Told \cup {n}
  <2> DEFINE w == Response(n, r)
  <2>1. w \in Messages /\ w.op \in Said(Server) /\ w.op \in Calls /\ w.task = n
    BY <1>4, Words, SaidBy DEF Calls
  <2>2. Send(Server, w, "idle")
    BY <1>13
  <2> HIDE DEF w
  <2>3. /\ sendQ' \in [Ends -> Seq(Messages)] /\ \A f \in Ends : Has(sendQ'[f], Said(f))
        /\ at' \in [Ends -> [Threads -> Frames]] /\ FInv'
        /\ Out(Server)' = Append(s, w) /\ Out(Client)' = o /\ Caller
    BY <1>1, <1>2, <2>1, <2>2, SendKeeps DEF s, o
  <2>4. ASSUME NEW k \in Told PROVE k < n
    <3>1. k \in Tasks /\ executed[k] = 1
      BY DEF TaskInv, OInv
    <3>2. ~(k >= n)
      BY <1>7, <3>1 DEF TaskInv, OInv
    <3> QED BY <1>4, <3>1, <3>2, SMT DEF Tasks
  <2>5. Line(p, j, Append(s, w)) /\ Tokens(p, j, Append(s, w)) = Told \cup {n}
    BY <1>10, <2>1, <2>4, LineSend
  <2>6. LInv' /\ Asked' = Tokens(Tail(q), i, o) /\ Told' = Told \cup {n}
    BY <1>11, <2>3, <2>5
  <2>7. Types' /\ KInv'
    BY <1>1, <1>2, <1>3, <2>3 DEF Types, KInv
  <2> QED BY <1>1, <1>3, <1>6, <1>7, <1>9, <2>3, <2>6, <2>7 DEF EInv
<1> QED BY <1>2, <1>12, <1>13 DEF n, m, q

\* So each is executed once and in order.
LEMMA ExecuteInv == ASSUME EInv, TaskInv, MCNext, Execute PROVE EInv' /\ TaskInv'
<1> DEFINE n == Head(queue[Server]).task
<1>1. /\ EInv' /\ Caller /\ queue'[Client] = queue[Client]
      /\ n \in Asked /\ Asked' \subseteq Asked /\ \A k \in Asked' : n < k
      /\ Told' = Told \/ (Told' = Told \cup {n} /\ Wanted(n))
  BY ExecuteKeeps
<1>2. /\ UNCHANGED <<calls, sync_tasks, destroyed, sync_task_id>>
      /\ UNCHANGED <<result, subscribed, cancelling, undefined>>
      /\ executed' = executed \/ executed' = [executed EXCEPT ![n] = @ + 1]
      /\ Wanted(n) => executed' = [executed EXCEPT ![n] = @ + 1]
  BY DEF Execute, taskvars
<1>3. Speaker /\ Giver
  BY <1>1 DEF Caller
<1> HIDE DEF n
<1>4. n \in 1 .. calls /\ n \in Tasks /\ executed[n] = 0
  <2>1. n \in 1 .. calls /\ \A k \in Tasks : k >= n => executed[k] = 0
    BY <1>1 DEF TaskInv, OInv
  <2>2. n \in Tasks /\ n >= n
    BY <2>1, RdCallAssumption, SMT DEF TaskInv, TInv, Tasks, RdCallAssumption
  <2> QED BY <2>1, <2>2
<1>5. /\ executed' \in [Tasks -> {0, 1}]
      /\ \A k \in Tasks : k # n => executed'[k] = executed[k]
      /\ Wanted(n) => executed'[n] = 1
  <2>1. 0 + 1 = 1
    OBVIOUS
  <2>2. [executed EXCEPT ![n] = @ + 1] = [executed EXCEPT ![n] = 1]
    BY <1>4, <2>1
  <2> QED BY <1>2, <1>4, <2>2 DEF TaskInv, TInv
<1>6. TInv'
  BY <1>2, <1>5 DEF TaskInv, TInv
<1>7. \A k \in Tasks : executed[k] = 1 => executed'[k] = 1
  BY <1>4, <1>5
<1>8. MainGives' /\ WireGives'
  <2>1. MainGives'
    <3>1. Does(Client, "main", "give")' =>
             /\ Does(Client, "main", "give")
             /\ at'[Client]["main"].msg = at[Client]["main"].msg
      BY <1>3 DEF Speaker
    <3> QED BY <1>2, <1>7, <3>1 DEF TaskInv, OInv, MainGives, InProgress
  <2>2. WireGives'
    <3>1. at'[Client]["wire"].op \in Gives =>
             at[Client]["wire"].op \in Gives /\ Given' = Given
      BY <1>3 DEF Giver, Given
    <3>2. 1 .. calls \subseteq Tasks
      BY RdCallAssumption, SMT DEF TaskInv, TInv, Tasks, RdCallAssumption
    <3> QED BY <1>2, <1>7, <3>1, <3>2 DEF TaskInv, OInv, WireGives
  <2> QED BY <2>1, <2>2
<1>9. OInv'
  <2>1. ASSUME NEW a \in Asked'
        PROVE  a \in 1 .. calls' /\ \A k \in Tasks : k >= a => executed'[k] = 0
    <3>1. a \in 1 .. calls /\ (\A k \in Tasks : k >= a => executed[k] = 0) /\ n < a
      BY <1>1 DEF TaskInv, OInv
    <3>2. ASSUME NEW k \in Tasks, k >= a PROVE k # n
      BY <1>4, <3>1, <3>2, SMT DEF Tasks
    <3> QED BY <1>2, <1>5, <3>1, <3>2
  <2>2. ASSUME NEW a \in Told' PROVE a \in Tasks /\ executed'[a] = 1
    <3>1. CASE a \in Told
      BY <1>7, <3>1 DEF TaskInv, OInv
    <3>2. CASE a = n /\ Wanted(n)
      BY <1>4, <1>5, <3>2
    <3> QED BY <1>1, <3>1, <3>2
  <2>3. ASSUME NEW k \in Tasks, k > calls' PROVE executed'[k] = 0 /\ result'[k] = "none"
    <3>1. executed[k] = 0 /\ result[k] = "none"
      BY <1>2, <2>3 DEF TaskInv, OInv
    <3>2. k # n
      BY <1>2, <1>4, <2>3, SMT DEF TaskInv, TInv, Tasks
    <3> QED BY <1>2, <1>5, <3>1, <3>2
  <2>4. CallsIn(queue'[Client]) \cap sync_tasks' = {}
    BY <1>1, <1>2 DEF TaskInv, OInv
  <2> QED BY <1>8, <2>1, <2>2, <2>3, <2>4 DEF OInv, MainGives, WireGives
<1>10. SInv'
  BY <1>2, <1>3, GivingUp, SInvKept DEF TaskInv
<1>11. GInv'
  <2>1. Asked' \cup Told' \subseteq Asked \cup Told
    BY <1>1
  <2> QED BY <1>2, <1>3, <2>1, GInvKept DEF TaskInv
<1>12. RInv'
  <2>1. \A t \in Threads : Giving(t)' \subseteq Giving(t)
    BY <1>3, GivingStays DEF Threads
  <2> QED BY <1>2, <2>1, RInvKept DEF TaskInv
<1> QED BY <1>1, <1>6, <1>9, <1>10, <1>11, <1>12 DEF TaskInv

-----------------------------------------------------------------------------
(* The invariant                                                           *)

\* Nothing was called yet.
LEMMA InitCInv == MCInit => CInv
<1> SUFFICES ASSUME MCInit PROVE CInv
  OBVIOUS
<1> DEFINE none == <<>>
<1>1. /\ none \in Seq(Messages) /\ Len(none) = 0 /\ \A K : Has(none, K)
      /\ CallsIn(none) = {} /\ InOrder(none)
  BY HasNothing, CallsOfEmpty
<1> HIDE DEF none
<1>2. /\ ext = [e \in Ends |-> "unbound"] /\ connected = [e \in Ends |-> FALSE]
      /\ sendQ = [e \in Ends |-> none] /\ inbox = [e \in Ends |-> none]
      /\ queue = inbox /\ mq = inbox /\ custom = inbox
      /\ at = [e \in Ends |-> [t \in Threads |-> Idle]]
  BY DEF MCInit, Init, ExtInit, none, Threads
<1>3. Types
  <2>1. [t \in Threads |-> Idle] \in [Threads -> Frames]
    BY IdleFields
  <2>2. at \in [Ends -> [Threads -> Frames]]
    BY <1>2, <2>1
  <2> QED BY <1>1, <1>2, <2>2 DEF Types
<1>4. KInv
  BY <1>1, <1>2 DEF KInv
<1>5. \A e \in Ends : at[e]["main"] = Idle /\ at[e]["wire"] = Idle
  BY <1>2 DEF Threads
<1>6. Idle.op = "idle" /\ Idle.rest = <<>> /\ "idle" \in WireOps /\ "idle" \in MainOps
      /\ "idle" \notin StateOps \cup Gives
  BY IdleFields DEF WireOps, MainOps, StateOps, Gives
<1>7. FInv
  BY <1>5, <1>6 DEF FInv, FrameInv
<1>8. DInv
  <2>1. Deferrals(none) = {}
    <3>1. 1 .. Len(none) = {}
      BY <1>1, SMT
    <3> QED BY <3>1 DEF Deferrals
  <2>2. Cardinality(Deferrals(none)) = 0
    BY <2>1, FS_EmptySet
  <2> QED BY <1>1, <1>2, <2>2 DEF DInv
<1>9. \A e \in Ends : Out(e) = none /\ inbox[e] = none /\ queue[e] = none
  BY <1>2, <1>5, <1>6 DEF Out, Does
<1>10. Line(none, none, none) /\ Tokens(none, none, none) = {}
  BY <1>1 DEF Line, Before, Tokens
<1>11. LInv /\ Asked = {} /\ Told = {} /\ CallsIn(queue[Client]) = {}
  BY <1>1, <1>9, <1>10, TwoEnds DEF LInv, Asked, Told, OnWay
<1>12. /\ calls = 0 /\ result = [n \in Tasks |-> "none"] /\ executed = [n \in Tasks |-> 0]
       /\ subscribed = {} /\ destroyed = {} /\ sync_tasks = {} /\ cancelling = {}
       /\ sync_task_id = 0 /\ undefined = {}
  BY DEF MCInit, Init
<1>13. TInv
  <2>1. calls \in 0 .. MaxCalls /\ sync_task_id \in 0 .. calls
    BY <1>12, RdCallAssumption, SMT DEF RdCallAssumption
  <2> QED BY <1>12, <2>1 DEF TInv
<1>14. /\ ~Waits /\ ~Does(Client, "main", "give") /\ ~Does(Client, "wire", "give")
       /\ at[Client]["wire"].op \notin Gives
  BY <1>5, <1>6, TwoEnds DEF Waits, Does, Gives
<1>15. OInv
  BY <1>11, <1>12, <1>14 DEF OInv
<1>16. SInv /\ GInv
  BY <1>12, <1>14 DEF SInv, GInv
<1>17. RInv
  BY <1>14 DEF RInv, Giving, Threads
<1> QED BY <1>3, <1>4, <1>7, <1>8, <1>11, <1>13, <1>15, <1>16, <1>17 DEF CInv, EInv

\* Steps that change nothing, ...
LEMMA StutterCInv == CInv /\ UNCHANGED mcvars => CInv'
<1> SUFFICES ASSUME CInv, UNCHANGED mcvars PROVE CInv'
  OBVIOUS
<1>1. /\ UNCHANGED <<ext, connected, sendQ, inbox, queue, mq, custom, at>>
      /\ UNCHANGED <<calls, sync_tasks, destroyed, sync_task_id>>
      /\ UNCHANGED <<result, subscribed, cancelling, executed, undefined, gave_up, hasty, raced>>
  BY DEF mcvars, vars, evars, extvars, wirevars, tvars, taskvars, servervars
<1>2. Caller /\ (\A d \in Ends : Out(d)' = Out(d)) /\ FInv'
  BY <1>1, SameThreads DEF CInv, EInv
<1>3. LInv' /\ Calm
  BY <1>1, <1>2, LinesStay DEF CInv, EInv
<1>4. Types' /\ KInv' /\ DInv'
  BY <1>1 DEF CInv, EInv, Types, KInv, DInv
<1>5. TInv'
  BY <1>1 DEF CInv, TInv
<1>6. Fewer
  BY <1>3, CalmIsFewer
<1>7. OInv'
  BY <1>1, <1>6 DEF CInv, OInv, Fewer, Does, InProgress, Given
<1>8. SInv'
  BY <1>1 DEF CInv, SInv, Waits, Does, InProgress
<1>9. GInv'
  <2>1. \A n : Unused(n) => Unused(n)'
    BY <1>1, <1>6 DEF Unused, Fewer, Given
  <2> QED BY <1>1, <1>6, <2>1 DEF CInv, GInv, Fewer, Given, Does
<1>10. RInv'
  BY <1>1 DEF CInv, RInv, Giving, Does
<1> QED BY <1>2, <1>3, <1>4, <1>5, <1>7, <1>8, <1>9, <1>10 DEF CInv, EInv

\* ... and all others keep the invariant.
LEMMA NextCInv == CInv /\ MCNext => CInv'
<1> SUFFICES ASSUME EInv, TaskInv, MCNext PROVE EInv' /\ TaskInv'
  BY DEF CInv, TaskInv
<1>1. CASE \E e \in Ends : AdviseStep(e) \/ EndLifetimeStep(e)
  BY <1>1, AdviseStepInv, EndLifetimeStepInv
<1>2. CASE \E e \in Ends : Progress(e)
  <2> SUFFICES ASSUME NEW e \in Ends, Progress(e) PROVE EInv' /\ TaskInv'
    BY <1>2
  <2>1. CASE ExtStep(e)
    <3>1. EInv' /\ Calm /\ Caller /\ UNCHANGED tvars
      BY <2>1, ExtStepKeeps DEF ExtStep
    <3> QED BY <3>1, TasksStay
  <2>2. CASE UnbindStep(e)
    BY <2>2, UnbindStepInv
  <2>3. CASE SyncReturns \/ SyncThrows
    BY <2>3, SyncEndsInv
  <2>4. CASE ApplyResponse \/ GiveResult
    BY <2>4, ApplyResponseInv, GiveResultInv
  <2>5. CASE ReceiveRequest \/ Execute
    BY <2>5, ReceiveRequestInv, ExecuteInv
  <2>6. CASE ReceiveResponse \/ SetValue \/ FireChange \/ Terminate
    BY <2>6, ReceiveResponseInv, SetValueInv, FireChangeInv, TerminateInv
  <2> QED BY <2>1, <2>2, <2>3, <2>4, <2>5, <2>6 DEF Progress
<1>3. CASE StartCall \/ SyncCall \/ SyncRefused
  BY <1>3, StartCallInv, SyncCallInv, SyncRefusedInv
<1> QED BY <1>1, <1>2, <1>3 DEF MCNext, Next

\* CInv holds in every state: a call that an end keeps back, that is on the wire or
\* in the scheduler's queue was not executed, a response belongs to an executed
\* call, both come in order, and a sync call that is over has none to come.
THEOREM CallInvariance == MCSpec => []CInv
<1>1. CInv /\ [MCNext]_mcvars => CInv'
  BY NextCInv, StutterCInv
<1> QED BY <1>1, InitCInv, PTL DEF MCSpec

-----------------------------------------------------------------------------
(* Theorems                                                                *)

\* The types follow from it.
LEMMA CInvTypes == CInv => CallTypeOK
<1> SUFFICES ASSUME CInv PROVE CallTypeOK
  OBVIOUS
<1>1. ASSUME NEW e \in Ends
      PROVE  /\ ext[e] \in {"unbound", "advised", "bound", "dying", "ending"}
             /\ connected[e] \in BOOLEAN
             /\ \A i \in DOMAIN mq[e] : mq[e][i].op \in States
             /\ Len(mq[e]) = Cardinality({i \in DOMAIN queue[e] : queue[e][i].op = "deferred"})
  <2>1. /\ ext[e] \in {"unbound", "advised", "bound", "dying", "ending"}
        /\ connected[e] \in BOOLEAN
    BY DEF CInv, EInv, Types
  <2>2. /\ mq[e] \in Seq(Messages) /\ queue[e] \in Seq(Messages)
    BY Queues DEF CInv, EInv
  <2>3. DOMAIN mq[e] = 1 .. Len(mq[e]) /\ DOMAIN queue[e] = 1 .. Len(queue[e])
    BY <2>2, LenProperties
  <2>4. \A i \in DOMAIN mq[e] : mq[e][i].op \in States
    BY <2>3 DEF CInv, EInv, KInv, Has
  <2>5. Len(mq[e]) = Cardinality({i \in DOMAIN queue[e] : queue[e][i].op = "deferred"})
    BY <2>3 DEF CInv, EInv, DInv, Deferrals
  <2> QED BY <2>1, <2>4, <2>5
<1>2. \A n \in Tasks : result[n] \in {"none"} \cup Results
  BY DEF CInv, TInv
<1>3. subscribed \cup destroyed \cup sync_tasks \cup cancelling \cup undefined \subseteq 1 .. calls
      /\ sync_task_id \in 0 .. calls
  BY DEF CInv, TInv
<1> QED BY <1>1, <1>2, <1>3 DEF CallTypeOK

\* The variables have the values that the code gives them, and for each state of
\* the counterpart that was kept back because the extension was not there
\* (MessageBroker::invoke) the scheduler still has the action that takes it.
THEOREM TypeCorrect == MCSpec => []CallTypeOK
BY CallInvariance, CInvTypes, PTL

\* RdCall::sync refuses a call, "Already exists sync task", only while it waits for
\* another one or after one that threw: with a result that is no success, or
\* without one.
THEOREM SyncStaysPossible == MCSpec => []SyncIsPossible
<1>1. CInv => SyncIsPossible
  <2> SUFFICES ASSUME CInv, sync_task_id # 0
               PROVE  \/ InProgress = sync_task_id
                      \/ /\ sync_task_id \in destroyed
                         /\ (result[sync_task_id] # "Success" \/ sync_task_id \in gave_up)
    BY DEF SyncIsPossible
  <2> QED BY DEF CInv, SInv
<1> QED BY <1>1, CallInvariance, PTL

\* The wire thread uses a WiredRdTaskImpl that is gone, for a response or as the
\* lifetime ends, only if its sync call threw before it had its result, or ended
\* while the lifetime did, or returned with the value that the wire thread had set
\* and whose change it was still to fire.
THEOREM NothingDangles == MCSpec => []NoDangling
<1>1. CInv => NoDangling
  <2> SUFFICES ASSUME CInv, NEW n \in undefined PROVE n \in gave_up \cup hasty
    BY DEF NoDangling
  <2>1. n \in Tasks
    BY RdCallAssumption, SMT DEF CInv, TInv, Tasks, RdCallAssumption
  <2> QED BY <2>1 DEF CInv, GInv
<1> QED BY <1>1, CallInvariance, PTL

\* The endpoint executes each request once, and in the order in which they were
\* made, over any number of bindings of the extension at either end.
THEOREM RequestsInOrder == MCSpec => ExecutedInOrder
<1>1. CInv /\ [MCNext]_mcvars =>
         [\A n \in Tasks : executed'[n] # executed[n] =>
             executed[n] = 0 /\ \A m \in Tasks : m > n => executed[m] = 0]_mcvars
  <2> SUFFICES ASSUME CInv, MCNext, NEW n \in Tasks, executed'[n] # executed[n]
               PROVE  executed[n] = 0 /\ \A m \in Tasks : m > n => executed[m] = 0
    OBVIOUS
  <2>1. EInv /\ TaskInv
    BY DEF CInv, TaskInv
  <2>2. Execute
    BY DEF MCNext, Next, tvars, servervars, Progress, AdviseStep, EndLifetimeStep, ExtStep,
           UnbindStep, StartCall, SyncCall, SyncRefused, NewTask, SyncReturns, SyncThrows,
           SyncEnds, ApplyResponse, GiveResult, ReceiveResponse, SetValue, FireChange,
           Terminate, ReceiveRequest
  <2> DEFINE k == Head(queue[Server]).task
  <2>3. k \in Asked
    BY <2>1, <2>2, ExecuteKeeps
  <2>4. executed' = executed \/ executed' = [executed EXCEPT ![k] = @ + 1]
    BY <2>2 DEF Execute
  <2> HIDE DEF k
  <2>5. n = k
    BY <2>4 DEF CInv, TInv
  <2>6. \A m \in Tasks : m >= n => executed[m] = 0
    BY <2>3, <2>5 DEF CInv, OInv
  <2>7. n >= n /\ \A m \in Tasks : m > n => m >= n
    BY RdCallAssumption, SMT DEF Tasks, RdCallAssumption
  <2> QED BY <2>6, <2>7
<1> QED BY <1>1, CallInvariance, PTL DEF MCSpec, ExecutedInOrder

\* The result of a task is given once, by the scheduler that applies a response or
\* by the wire thread, unless both had found that there is none before the first of
\* them gave one; and one that is not Cancelled is that of a request that was
\* executed.
THEOREM ResultsAreFinal == MCSpec => ResultIsFinal
<1>1. CInv /\ [MCNext]_mcvars =>
         [\A n \in Tasks : result'[n] # result[n] =>
             /\ result[n] = "none" \/ n \in raced'
             /\ result'[n] # "Cancelled" => executed[n] = 1]_mcvars
  <2> SUFFICES ASSUME CInv, MCNext, NEW n \in Tasks, result'[n] # result[n]
               PROVE  /\ result[n] = "none" \/ n \in raced'
                      /\ result'[n] # "Cancelled" => executed[n] = 1
    OBVIOUS
  <2>1. TInv /\ OInv /\ RInv /\ raced \subseteq raced'
    BY GivingUp DEF CInv
  <2>2. GiveResult \/ SetValue
    BY DEF MCNext, Next, Progress, tvars, servervars, AdviseStep, EndLifetimeStep, ExtStep,
           UnbindStep, StartCall, SyncCall, SyncRefused, NewTask, SyncReturns, SyncThrows,
           SyncEnds, ApplyResponse, ReceiveResponse, FireChange, Terminate, ReceiveRequest,
           Execute
  <2>3. \E t \in Threads :
           LET m == at[Client][t].msg
           IN  /\ Does(Client, t, "give") /\ Give(m)
               /\ m.task \in Tasks /\ m.op \in Results
               /\ m.op # "Cancelled" => executed[m.task] = 1
    <3>1. CASE GiveResult
      <4>1. Does(Client, "main", "give") /\ Give(at[Client]["main"].msg)
        BY <3>1 DEF GiveResult
      <4> QED BY <2>1, <4>1 DEF OInv, InProgress, Results, Threads
    <3>2. CASE SetValue
      <4>1. Does(Client, "wire", "give") /\ Give(at[Client]["wire"].msg)
        BY <3>2 DEF SetValue
      <4>2. at[Client]["wire"].op \in Gives
        BY <4>1 DEF Does, Gives
      <4>3. 1 .. calls \subseteq Tasks
        BY <2>1, RdCallAssumption, SMT DEF TInv, Tasks, RdCallAssumption
      <4> QED BY <2>1, <4>1, <4>2, <4>3 DEF OInv, Given, Threads
    <3> QED BY <2>2, <3>1, <3>2
  <2>4. PICK t \in Threads :
           LET m == at[Client][t].msg
           IN  /\ Does(Client, t, "give") /\ Give(m)
               /\ m.task \in Tasks /\ m.op \in Results
               /\ m.op # "Cancelled" => executed[m.task] = 1
    BY <2>3
  <2> DEFINE m == at[Client][t].msg
  <2>5. m.task \in Giving(t)
    BY <2>4 DEF Giving
  <2>6. /\ Give(m) /\ m.task \in Tasks /\ m.op \in Results
        /\ m.op # "Cancelled" => executed[m.task] = 1
    BY <2>4
  <2>7. result[m.task] = "none" \/ m.task \in raced
    BY <2>1, <2>5 DEF RInv
  <2> HIDE DEF m
  <2>8. n = m.task /\ result'[n] = m.op
    BY <2>1, <2>6, ResultGiven
  <2> QED BY <2>1, <2>6, <2>7, <2>8
<1> QED BY <1>1, CallInvariance, PTL DEF MCSpec, ResultIsFinal

-----------------------------------------------------------------------------
(* What the ends are about to know of each other                           *)

\* A queue without states, one whose last state is in K, and one with a Ready.
Free(s) == \A i \in 1 .. Len(s) : s[i].op \notin States
Final(s, K) ==
    \E i \in 1 .. Len(s) :
        s[i].op \in K /\ \A j \in 1 .. Len(s) : j > i => s[j].op \notin States
Awaits(s) == \E i \in 1 .. Len(s) : s[i].op = "Ready"

\* The state that an end executes, and those that it will execute at once after it.
Means(op) ==
    CASE op = "answer" -> "Ready"
      [] op \in {"set", "flush"} -> "ReceivedCounterpart"
      [] op = "unset" -> "Disconnected"
      [] OTHER -> "none"
Now(e) == Means(IF at[e]["main"].op \in StateOps THEN at[e]["main"].op ELSE at[e]["wire"].op)
Rest(e) == IF at[e]["main"].op \in StateOps THEN at[e]["main"].rest ELSE <<>>

\* The last state that an end will execute is in K; there is none; there is a Ready
\* that it has not answered.
Coming(e, K) ==
    \/ Final(inbox[e], K)
    \/ /\ Free(inbox[e])
       /\ \/ Final(custom[e], K)
          \/ /\ Free(custom[e])
             /\ \/ Final(mq[e], K)
                \/ /\ Free(mq[e])
                   /\ Final(Rest(e), K) \/ (Free(Rest(e)) /\ Now(e) \in K)
Clear(e) ==
    Free(inbox[e]) /\ Free(custom[e]) /\ Free(mq[e]) /\ Free(Rest(e)) /\ Now(e) = "none"
Unanswered(e) ==
    Awaits(inbox[e]) \/ Awaits(custom[e]) \/ Awaits(mq[e]) \/ Awaits(Rest(e)) \/ Now(e) = "Ready"

\* So an end will be connected, or will not be.
Up == {"Ready", "ReceivedCounterpart"}
Down == {"Disconnected"}
WillBe(e) == Coming(e, Up) \/ (Clear(e) /\ connected[e])
WillNot(e) == Coming(e, Down) \/ (Clear(e) /\ (ext[e] = "unbound" \/ ~connected[e]))

\* An end has said Ready and may still say Disconnected, or has said it.
Present(e) == ext[e] = "bound" \/ (ext[e] = "advised" /\ Does(e, "main", "close"))
Gone(e) == ext[e] \in {"unbound", "ending"} /\ e \notin silent
Knows(e) ==
    /\ Gone(Other(e)) => WillNot(e)
    /\ Present(e) /\ Present(Other(e)) => WillBe(e) \/ Unanswered(Other(e))

\* While no state is put out of its order, the scheduler executes one only while
\* its end is bound and the wire thread executes none.
InTurn(e) ==
    /\ at[e]["main"].op \in StateOps =>
          /\ ext[e] = "bound" /\ at[e]["wire"].op \notin StateOps
          /\ at[e]["main"].rest # <<>> => mq[e] = <<>>
    /\ \A t \in Threads : Does(e, t, "flush") => connected[e]

\* What the scheduler executes for the extension itself, and what the wire thread
\* executes at the end of its lifetime.
Own == StateOps \cup {"bind", "close"}
Closing(w) == w.op = "end" \/ (w.op \in Gives /\ w.msg.op = "Cancelled")

\* What the threads do to the binding of an end.
Binding(e) ==
    /\ mq[e] = <<>> => custom[e] = <<>>
    /\ ext[e] = "advised" => at[e]["main"].op \in {"bind", "close"}
    /\ at[e]["main"].op \in {"bind", "close"} => ext[e] \in {"advised", "ending", "unbound"}
    /\ ext[e] = "dying" <=> Closing(at[e]["wire"])
    /\ ext[e] = "ending" <=> Does(e, "wire", "unbind")
    /\ at[e]["wire"].op \in StateOps => mq[e] = <<>> /\ ext[e] # "unbound"

BInv == \A e \in Ends : Binding(e)
NInv == \A e \in Ends : InTurn(e) /\ Knows(e)
AInv == disordered \in BOOLEAN /\ BInv /\ (~disordered => NInv)

\* No states, ...
LEMMA StatesOfNone ==
    Free(<<>>) /\ ~Awaits(<<>>) /\ \A K : ~Final(<<>>, K)
<1> DEFINE s == <<>>
<1>1. Len(s) = 0
  OBVIOUS
<1> HIDE DEF s
<1>2. 1 .. Len(s) = {}
  BY <1>1, SMT
<1>3. Free(s) /\ ~Awaits(s) /\ \A K : ~Final(s, K)
  BY <1>2 DEF Free, Awaits, Final
<1> QED BY <1>3 DEF s

\* ... those of one message, ...
LEMMA StatesOfOne ==
    ASSUME NEW m \in Messages
    PROVE  /\ <<m>> \in Seq(Messages)
           /\ Free(<<m>>) <=> m.op \notin States
           /\ Awaits(<<m>>) <=> m.op = "Ready"
           /\ \A K : Final(<<m>>, K) <=> m.op \in K
<1> DEFINE s == <<m>>
<1>1. s \in Seq(Messages) /\ Len(s) = 1 /\ s[1] = m
  OBVIOUS
<1> HIDE DEF s
<1>2. 1 \in 1 .. Len(s) /\ \A i \in 1 .. Len(s) : i = 1 /\ ~(i > 1)
  BY <1>1, SMT
<1>3. Free(s) <=> m.op \notin States
  BY <1>1, <1>2 DEF Free
<1>4. Awaits(s) <=> m.op = "Ready"
  BY <1>1, <1>2 DEF Awaits
<1>5. \A K : Final(s, K) <=> m.op \in K
  BY <1>1, <1>2 DEF Final
<1> QED BY <1>1, <1>3, <1>4, <1>5 DEF s

\* ... of two sequences, ...
LEMMA StatesOfJoin ==
    ASSUME NEW s \in Seq(Messages), NEW t \in Seq(Messages)
    PROVE  /\ Free(s \o t) <=> Free(s) /\ Free(t)
           /\ Awaits(s \o t) <=> Awaits(s) \/ Awaits(t)
           /\ \A K \in SUBSET States :
                 Final(s \o t, K) <=> Final(t, K) \/ (Free(t) /\ Final(s, K))
<1> DEFINE r == s \o t
<1>1. Joined(s, t, r)
  BY Joining
<1> HIDE DEF r
<1>2. /\ Len(s) \in Nat /\ Len(t) \in Nat
      /\ \A i \in 1 .. Len(s) : i \in 1 .. Len(r) /\ r[i] = s[i]
      /\ \A j \in 1 .. Len(t) : Len(s) + j \in 1 .. Len(r) /\ r[Len(s) + j] = t[j]
      /\ \A i \in 1 .. Len(r) : i \in 1 .. Len(s) \/ \E j \in 1 .. Len(t) : i = Len(s) + j
  BY <1>1 DEF Joined
<1>3. Free(r) <=> Free(s) /\ Free(t)
  BY <1>2 DEF Free
<1>4. Awaits(r) <=> Awaits(s) \/ Awaits(t)
  <2>1. ASSUME NEW i \in 1 .. Len(r), r[i].op = "Ready" PROVE Awaits(s) \/ Awaits(t)
    <3>1. CASE i \in 1 .. Len(s)
      BY <1>2, <2>1, <3>1 DEF Awaits
    <3>2. ASSUME NEW j \in 1 .. Len(t), i = Len(s) + j PROVE Awaits(t)
      BY <1>2, <2>1, <3>2 DEF Awaits
    <3> QED BY <1>2, <3>1, <3>2
  <2>2. Awaits(s) => Awaits(r)
    BY <1>2 DEF Awaits
  <2>3. Awaits(t) => Awaits(r)
    BY <1>2 DEF Awaits
  <2> QED BY <2>1, <2>2, <2>3 DEF Awaits
<1>5. /\ \A i \in 1 .. Len(s), j \in 1 .. Len(t) : Len(s) + j > i /\ ~(i > Len(s) + j)
      /\ \A i, j \in 1 .. Len(t) : Len(s) + j > Len(s) + i <=> j > i
  BY <1>2, SMT
<1>6. ASSUME NEW K \in SUBSET States, Final(r, K)
      PROVE  Final(t, K) \/ (Free(t) /\ Final(s, K))
  <2>1. PICK i \in 1 .. Len(r) :
            r[i].op \in K /\ \A j \in 1 .. Len(r) : j > i => r[j].op \notin States
    BY <1>6 DEF Final
  <2>2. CASE i \in 1 .. Len(s)
    <3>1. Free(t)
      BY <1>2, <1>5, <2>1, <2>2 DEF Free
    <3>2. Final(s, K)
      BY <1>2, <2>1, <2>2 DEF Final
    <3> QED BY <3>1, <3>2
  <2>3. ASSUME NEW l \in 1 .. Len(t), i = Len(s) + l PROVE Final(t, K)
    <3>1. t[l].op \in K /\ \A j \in 1 .. Len(t) : j > l => t[j].op \notin States
      BY <1>2, <1>5, <2>1, <2>3
    <3> QED BY <3>1 DEF Final
  <2> QED BY <1>2, <2>2, <2>3
<1>7. ASSUME NEW K \in SUBSET States, Final(t, K) PROVE Final(r, K)
  <2>1. PICK l \in 1 .. Len(t) :
            t[l].op \in K /\ \A j \in 1 .. Len(t) : j > l => t[j].op \notin States
    BY <1>7 DEF Final
  <2>2. Len(s) + l \in 1 .. Len(r) /\ r[Len(s) + l].op \in K
    BY <1>2, <2>1
  <2>3. ASSUME NEW j \in 1 .. Len(r), j > Len(s) + l PROVE r[j].op \notin States
    <3>1. PICK k \in 1 .. Len(t) : j = Len(s) + k
      BY <1>2, <1>5, <2>3
    <3>2. k > l
      BY <1>5, <2>3, <3>1
    <3>3. t[k].op \notin States
      BY <2>1, <3>2
    <3> QED BY <1>2, <3>1, <3>3
  <2> QED BY <2>2, <2>3 DEF Final
<1>8. ASSUME NEW K \in SUBSET States, Free(t), Final(s, K) PROVE Final(r, K)
  <2>1. PICK i \in 1 .. Len(s) :
            s[i].op \in K /\ \A j \in 1 .. Len(s) : j > i => s[j].op \notin States
    BY <1>8 DEF Final
  <2>2. i \in 1 .. Len(r) /\ r[i].op \in K
    BY <1>2, <2>1
  <2>3. ASSUME NEW j \in 1 .. Len(r), j > i PROVE r[j].op \notin States
    <3>1. CASE j \in 1 .. Len(s)
      <4>1. s[j].op \notin States
        BY <2>1, <2>3, <3>1
      <4> QED BY <1>2, <3>1, <4>1
    <3>2. ASSUME NEW l \in 1 .. Len(t), j = Len(s) + l PROVE r[j].op \notin States
      <4>1. t[l].op \notin States
        BY <1>8 DEF Free
      <4> QED BY <1>2, <3>2, <4>1
    <3> QED BY <1>2, <3>1, <3>2
  <2> QED BY <2>2, <2>3 DEF Final
<1> QED BY <1>3, <1>4, <1>6, <1>7, <1>8 DEF r

\* ... with one more message, ...
LEMMA StatesOfAppend ==
    ASSUME NEW s \in Seq(Messages), NEW m \in Messages, m.op \in States
    PROVE  /\ Append(s, m) \in Seq(Messages)
           /\ ~Free(Append(s, m))
           /\ Awaits(Append(s, m)) <=> Awaits(s) \/ m.op = "Ready"
           /\ \A K \in SUBSET States : Final(Append(s, m), K) <=> m.op \in K
<1> DEFINE t == <<m>>
<1>1. /\ t \in Seq(Messages) /\ ~Free(t) /\ (Awaits(t) <=> m.op = "Ready")
      /\ \A K : Final(t, K) <=> m.op \in K
  BY StatesOfOne
<1>2. Append(s, m) = s \o t
  BY AppendIsConcat
<1>3. s \o t \in Seq(Messages)
  BY <1>1, Joining
<1> HIDE DEF t
<1> QED BY <1>1, <1>2, <1>3, StatesOfJoin

\* ... and with one less.
LEMMA StatesOfTail ==
    ASSUME NEW s \in Seq(Messages), s # <<>>
    PROVE  /\ Head(s) \in Messages /\ Tail(s) \in Seq(Messages)
           /\ Free(s) <=> Head(s).op \notin States /\ Free(Tail(s))
           /\ Awaits(s) <=> Head(s).op = "Ready" \/ Awaits(Tail(s))
           /\ \A K \in SUBSET States :
                 Final(s, K) <=> Final(Tail(s), K) \/ (Free(Tail(s)) /\ Head(s).op \in K)
<1> DEFINE h == <<Head(s)>>
           t == Tail(s)
<1>1. Head(s) \in Messages /\ t \in Seq(Messages) /\ s = h \o t
  BY HeadTailProperties
<1>2. /\ h \in Seq(Messages) /\ (Free(h) <=> Head(s).op \notin States)
      /\ Awaits(h) <=> Head(s).op = "Ready"
      /\ \A K : Final(h, K) <=> Head(s).op \in K
  BY <1>1, StatesOfOne
<1> HIDE DEF h, t
<1>3. /\ Free(h \o t) <=> Free(h) /\ Free(t)
      /\ Awaits(h \o t) <=> Awaits(h) \/ Awaits(t)
      /\ \A K \in SUBSET States :
            Final(h \o t, K) <=> Final(t, K) \/ (Free(t) /\ Final(h, K))
  BY <1>1, <1>2, StatesOfJoin
<1>4. /\ Free(s) <=> Head(s).op \notin States /\ Free(t)
      /\ Awaits(s) <=> Head(s).op = "Ready" \/ Awaits(t)
      /\ \A K \in SUBSET States :
            Final(s, K) <=> Final(t, K) \/ (Free(t) /\ Head(s).op \in K)
  BY <1>1, <1>2, <1>3
<1> QED BY <1>1, <1>4 DEF t

\* Queues alike in their states.
Alike(s, t) ==
    /\ Free(s) <=> Free(t)
    /\ Awaits(s) <=> Awaits(t)
    /\ \A K \in SUBSET States : Final(s, K) <=> Final(t, K)

\* An end has the same states to execute as before, ...
Same(e) ==
    /\ \A K \in {Up, Down} : Coming(e, K)' <=> Coming(e, K)
    /\ Clear(e)' <=> Clear(e)
    /\ Unanswered(e)' <=> Unanswered(e)

\* ... has one more, ...
Hears(e, s) ==
    /\ \A K \in {Up, Down} : Coming(e, K)' <=> s \in K
    /\ Unanswered(e)' <=> Unanswered(e) \/ s = "Ready"

\* ... or is done with the one that it executed.
Executes(e, s) ==
    /\ \A K \in {Up, Down} : Coming(e, K) => Coming(e, K)' \/ (Clear(e)' /\ s \in K)
    /\ ~Clear(e)
    /\ Unanswered(e)' <=> Unanswered(e)

\* The states that count.
LEMMA UpAndDown ==
    /\ Up \in SUBSET States /\ Down \in SUBSET States
    /\ {} \in SUBSET States /\ "none" \notin States
BY DEF Up, Down, States

\* The queues of an end are as before, or alike.
LEMMA LineStays ==
    ASSUME NEW e \in Ends, Now(e)' = Now(e), Rest(e)' = Rest(e), mq'[e] = mq[e],
           custom'[e] = custom[e], Alike(inbox[e], inbox'[e])
    PROVE  Same(e)
<1>1. \A K \in {Up, Down} : Final(inbox[e], K) <=> Final(inbox'[e], K)
  BY UpAndDown DEF Alike
<1>2. /\ Free(inbox[e]) <=> Free(inbox'[e])
      /\ Awaits(inbox[e]) <=> Awaits(inbox'[e])
  BY DEF Alike
<1>3. /\ Final(mq'[e], Up) <=> Final(mq[e], Up)
      /\ Final(mq'[e], Down) <=> Final(mq[e], Down)
      /\ Free(mq'[e]) <=> Free(mq[e])
      /\ Awaits(mq'[e]) <=> Awaits(mq[e])
  OBVIOUS
<1>4. \A K \in {Up, Down} : Coming(e, K)' <=> Coming(e, K)
  BY <1>1, <1>2 DEF Coming
<1>5. Clear(e)' <=> Clear(e)
  BY <1>2 DEF Clear
<1>6. Unanswered(e)' <=> Unanswered(e)
  BY <1>2 DEF Unanswered
<1> QED BY <1>4, <1>5, <1>6 DEF Same

\* What a thread that stays does.
LEMMA NowStays ==
    ASSUME NEW e \in Ends, at'[e]["main"] = at[e]["main"], at'[e]["wire"] = at[e]["wire"]
    PROVE  Now(e)' = Now(e) /\ Rest(e)' = Rest(e)
BY DEF Now, Rest

\* A state is put to those of an end.
LEMMA LineHears ==
    ASSUME NEW e \in Ends, Now(e)' = Now(e), Rest(e)' = Rest(e), mq'[e] = mq[e],
           custom'[e] = custom[e], inbox[e] \in Seq(Messages), NEW s \in States,
           inbox'[e] = inbox[e] \o <<State(s)>>
    PROVE  Hears(e, s)
<1> DEFINE t == <<State(s)>>
<1>1. State(s) \in Messages /\ State(s).op = s
  BY Words DEF Kinds
<1>2. /\ t \in Seq(Messages) /\ ~Free(t) /\ (Awaits(t) <=> s = "Ready")
      /\ \A K : Final(t, K) <=> s \in K
  BY <1>1, StatesOfOne
<1>3. inbox'[e] = inbox[e] \o t
  OBVIOUS
<1> HIDE DEF t
<1>4. /\ ~Free(inbox'[e])
      /\ Awaits(inbox'[e]) <=> Awaits(inbox[e]) \/ s = "Ready"
      /\ \A K \in {Up, Down} : Final(inbox'[e], K) <=> s \in K
  BY <1>2, <1>3, StatesOfJoin, UpAndDown
<1>5. \A K \in {Up, Down} : Coming(e, K)' <=> s \in K
  BY <1>4 DEF Coming
<1>6. Unanswered(e)' <=> Unanswered(e) \/ s = "Ready"
  BY <1>4 DEF Unanswered
<1> QED BY <1>5, <1>6 DEF Hears

\* Without states a queue stays alike ...
LEMMA AlikeJoin ==
    ASSUME NEW s \in Seq(Messages), NEW t \in Seq(Messages), Free(t), ~Awaits(t),
           \A K \in SUBSET States : ~Final(t, K)
    PROVE  Alike(s, s \o t)
BY StatesOfJoin DEF Alike

\* ... whatever members have said.
LEMMA SaidIsFree ==
    ASSUME NEW e \in Ends, NEW t \in Seq(Messages), Has(t, Said(e))
    PROVE  Free(t) /\ ~Awaits(t) /\ \A K \in SUBSET States : ~Final(t, K)
<1>1. \A o \in Said(e) : o \notin States /\ o # "Ready"
  BY DEF Said, States
<1>2. \A i \in 1 .. Len(t) : t[i].op \in Said(e)
  BY DEF Has
<1> QED BY <1>1, <1>2 DEF Free, Awaits, Final

\* A queue is like itself, ...
LEMMA AlikeSelf == ASSUME NEW s PROVE Alike(s, s)
BY DEF Alike

\* ... and like what is left when a message of a member is taken from it.
LEMMA AlikeTail ==
    ASSUME NEW s \in Seq(Messages), s # <<>>, Head(s).op \notin States
    PROVE  Alike(s, Tail(s))
<1>1. Head(s).op # "Ready"
  BY DEF States
<1>2. /\ Free(s) <=> Free(Tail(s))
      /\ Awaits(s) <=> Awaits(Tail(s))
  BY <1>1, StatesOfTail
<1>3. \A K \in SUBSET States : Final(s, K) <=> Final(Tail(s), K)
  BY StatesOfTail
<1> QED BY <1>2, <1>3 DEF Alike

\* Where a thread goes.
Moved(e, t, x) ==
    /\ at'[e][t] = x
    /\ \A f \in Ends, u \in Threads : f # e \/ u # t => at'[f][u] = at[f][u]

\* ... and it goes nowhere else.
LEMMA Moves ==
    ASSUME Types, NEW e \in Ends, NEW t \in Threads, NEW x, Goes(e, t, x)
    PROVE  Moved(e, t, x)
<1>1. /\ at \in [Ends -> [Threads -> Frames]]
      /\ at' = [at EXCEPT ![e] = [at[e] EXCEPT ![t] = x]]
  BY DEF Types, Goes
<1>2. DOMAIN at = Ends /\ \A f \in Ends : DOMAIN at[f] = Threads
  BY <1>1
<1>3. /\ [at[e] EXCEPT ![t] = x][t] = x
      /\ \A u \in Threads : u # t => [at[e] EXCEPT ![t] = x][u] = at[e][u]
  BY <1>2
<1>4. /\ at'[e] = [at[e] EXCEPT ![t] = x]
      /\ \A f \in Ends : f # e => at'[f] = at[f]
  BY <1>1, <1>2
<1> QED BY <1>3, <1>4 DEF Moved

\* A thread that goes on keeps what it has still to execute.
LEMMA MovesOn ==
    ASSUME Types, NEW e \in Ends, NEW t \in Threads, NEW op \in WireOps \cup MainOps,
           GoesOn(e, t, op)
    PROVE  /\ at'[e][t].op = op /\ at'[e][t].rest = at[e][t].rest
           /\ \A f \in Ends, u \in Threads : f # e \/ u # t => at'[f][u] = at[f][u]
<1>1. /\ Becomes(e, t, [at[e][t] EXCEPT !.op = op])
      /\ at'[e][t].op = op /\ at'[e][t].rest = at[e][t].rest
  BY GoingOn
<1> QED BY <1>1 DEF Becomes

\* Nothing was put out of its order.
LEMMA InOrderSoFar ==
    ASSUME AInv, MCNext, ~disordered'
    PROVE  ~disordered /\ NInv /\ \A e \in Ends : ~Disorder(e)
<1>1. disordered' = (disordered \/ \E e \in Ends : Disorder(e))
  BY DEF MCNext
<1> QED BY <1>1, Zenon DEF AInv

\* The observer of disorder is a truth value.
LEMMA DisorderedIsBoolean ==
    ASSUME AInv, MCNext PROVE disordered' \in BOOLEAN
<1>1. disordered' = (disordered \/ \E e \in Ends : Disorder(e))
  BY DEF MCNext
<1> QED BY <1>1

\* The steps keep the invariant if they do so end by end.
LEMMA AInvKept ==
    ASSUME AInv, MCNext, \A e \in Ends : Binding(e)',
           ~disordered' => \A e \in Ends : InTurn(e)' /\ Knows(e)'
    PROVE  AInv'
<1>1. BInv' /\ (~disordered' => NInv')
  BY Zenon DEF BInv, NInv
<1> QED BY <1>1, DisorderedIsBoolean DEF AInv

-----------------------------------------------------------------------------
(* What the steps do to it                                                 *)

\* An end to which nothing happens, ...
LEMMA EndStays ==
    ASSUME NEW d \in Ends, at'[d]["main"] = at[d]["main"], at'[d]["wire"] = at[d]["wire"],
           ext'[d] = ext[d], connected'[d] = connected[d], mq'[d] = mq[d],
           custom'[d] = custom[d]
    PROVE  /\ Binding(d) => Binding(d)'
           /\ InTurn(d) => InTurn(d)'
<1>1. Binding(d) => Binding(d)'
  BY DEF Binding, Does
<1>2. \A t \in Threads : at'[d][t] = at[d][t]
  BY DEF Threads
<1>3. InTurn(d) => InTurn(d)'
  BY <1>2 DEF InTurn, Does
<1> QED BY <1>1, <1>3

\* An end that is gone, or present, was so before, ...
LEMMA StaysGone ==
    ASSUME MCNext, NEW d \in Ends, Gone(d)', ext[d] \in {"unbound", "ending"},
           ~(at[d]["main"].op = "bind" /\ at'[d]["main"].op = "close")
    PROVE  Gone(d)
<1>1. d \notin silent' /\ silent' =
         {e \in Ends : \/ e \in silent /\ ~(Does(e, "main", "bind") /\ at'[e]["main"].op = "close")
                       \/ ext[e] = "advised" /\ ext'[e] = "ending"}
  BY DEF MCNext, Gone
<1>2. d \notin silent
  BY <1>1 DEF Does
<1> QED BY <1>2 DEF Gone

\* ... unless its place changes, ...
LEMMA PlaceStays ==
    ASSUME MCNext, NEW d \in Ends, ext'[d] = ext[d],
           at'[d]["main"].op = "close" => at[d]["main"].op = "close"
    PROVE  (Gone(d)' => Gone(d)) /\ (Present(d)' => Present(d))
<1>1. ASSUME Gone(d)' PROVE Gone(d)
  <2>1. ext[d] \in {"unbound", "ending"}
    BY <1>1 DEF Gone
  <2>2. ~(at[d]["main"].op = "bind" /\ at'[d]["main"].op = "close")
    OBVIOUS
  <2> QED BY <1>1, <2>1, <2>2, StaysGone
<1>2. Present(d)' => Present(d)
  BY DEF Present, Does
<1> QED BY <1>1, <1>2

\* ... and what it knows.
LEMMA KnowsOn ==
    ASSUME NEW e \in Ends, Knows(e), Same(e), Same(Other(e)),
           Gone(Other(e))' => Gone(Other(e)),
           Present(Other(e))' => Present(Other(e)),
           Present(e)' => Present(e),
           ext[e] = "unbound" => ext'[e] = "unbound" \/ ~connected'[e],
           connected'[e] = connected[e] \/ (~Present(e)' /\ ~connected'[e])
    PROVE  Knows(e)'
<1>1. /\ Coming(e, Up)' <=> Coming(e, Up)
      /\ Coming(e, Down)' <=> Coming(e, Down)
      /\ Clear(e)' <=> Clear(e)
      /\ Unanswered(Other(e))' <=> Unanswered(Other(e))
  BY DEF Same
<1>2. ASSUME Gone(Other(e))' PROVE WillNot(e)'
  <2>1. WillNot(e)
    BY <1>2 DEF Knows
  <2> QED BY <1>1, <2>1 DEF WillNot
<1>3. ASSUME Present(e)', Present(Other(e))'
      PROVE  WillBe(e)' \/ Unanswered(Other(e))'
  <2>1. WillBe(e) \/ Unanswered(Other(e))
    BY <1>3 DEF Knows
  <2> QED BY <1>1, <1>3, <2>1 DEF WillBe
<1> QED BY <1>2, <1>3 DEF Knows

\* The binding of an end has no part in what its threads do.
Aside(d) ==
    /\ \/ at'[d]["main"] = at[d]["main"]
       \/ at[d]["main"].op \notin Own /\ at'[d]["main"].op \notin Own
    /\ \/ at'[d]["wire"] = at[d]["wire"]
       \/ /\ at[d]["wire"].op \notin StateOps \cup {"unbind"}
          /\ at'[d]["wire"].op \notin StateOps \cup {"unbind"}
          /\ Closing(at'[d]["wire"]) <=> Closing(at[d]["wire"])

\* What members and their schedulers do is of no account.
LEMMA MembersKeep ==
    ASSUME AInv, MCNext, UNCHANGED <<ext, connected, mq, custom>>,
           \A d \in Ends : Aside(d) /\ Alike(inbox[d], inbox'[d])
    PROVE  AInv'
<1>1. ASSUME NEW d \in Ends
      PROVE  /\ Binding(d)' /\ Same(d)
             /\ InTurn(d) => InTurn(d)'
             /\ (Gone(d)' => Gone(d)) /\ (Present(d)' => Present(d))
  <2>1. Binding(d)
    BY DEF AInv, BInv
  <2>2. /\ at'[d]["main"] = at[d]["main"] \/
              (at[d]["main"].op \notin Own /\ at'[d]["main"].op \notin Own)
        /\ at'[d]["wire"] = at[d]["wire"] \/
              (at[d]["wire"].op \notin StateOps /\ at'[d]["wire"].op \notin StateOps)
        /\ Does(d, "wire", "unbind")' <=> Does(d, "wire", "unbind")
        /\ Closing(at'[d]["wire"]) <=> Closing(at[d]["wire"])
    BY DEF Aside, Does
  <2>3. Now(d)' = Now(d) /\ Rest(d)' = Rest(d)
    BY <2>2 DEF Now, Rest, Means, Own, StateOps
  <2>4. Same(d)
    BY <2>3, LineStays
  <2>5. Binding(d)'
    BY <2>1, <2>2 DEF Binding, Does, Own
  <2>6. InTurn(d) => InTurn(d)'
    BY <2>2 DEF InTurn, Does, Threads, Own, StateOps
  <2>7. (Gone(d)' => Gone(d)) /\ (Present(d)' => Present(d))
    BY <2>2, PlaceStays DEF Own
  <2> QED BY <2>4, <2>5, <2>6, <2>7
<1>2. ASSUME ~disordered', NEW d \in Ends PROVE InTurn(d)' /\ Knows(d)'
  <2>1. InTurn(d) /\ Knows(d)
    BY <1>2, InOrderSoFar DEF NInv
  <2>2. Same(d) /\ Same(Other(d)) /\ Other(d) \in Ends
    BY <1>1, TwoEnds
  <2> QED BY <1>1, <2>1, <2>2, KnowsOn
<1> QED BY <1>1, <1>2, AInvKept

\* An extension is advised, ...
LEMMA AdviseAgrees ==
    ASSUME Types, AInv, MCNext, NEW e \in Ends, Advise(e) PROVE AInv'
<1>1. /\ ext[e] = "unbound" /\ at[e]["main"].op = "idle"
      /\ ext' = [ext EXCEPT ![e] = "advised"]
      /\ connected' = [connected EXCEPT ![e] = FALSE]
      /\ UNCHANGED <<inbox, mq, custom>>
      /\ GoesOn(e, "main", "bind")
  BY DEF Advise, IsIdle, wirevars
<1>2. /\ at'[e]["main"].op = "bind"
      /\ \A f \in Ends, u \in Threads : f # e \/ u # "main" => at'[f][u] = at[f][u]
  BY <1>1, MovesOn DEF Threads, MainOps
<1>3. /\ at'[e]["wire"] = at[e]["wire"]
      /\ \A d \in Ends : d # e => at'[d]["main"] = at[d]["main"] /\ at'[d]["wire"] = at[d]["wire"]
  BY <1>2 DEF Threads
<1>4. /\ ext'[e] = "advised" /\ connected'[e] = FALSE
      /\ \A d \in Ends : d # e => ext'[d] = ext[d] /\ connected'[d] = connected[d]
  BY <1>1 DEF Types
<1>5. Now(e)' = Now(e) /\ Rest(e)' = Rest(e)
  BY <1>1, <1>2, <1>3 DEF Now, Rest, StateOps
<1>6. ASSUME NEW d \in Ends PROVE Same(d)
  BY <1>1, <1>3, <1>5, NowStays, LineStays, AlikeSelf
<1>7. \A d \in Ends : Binding(d)
  BY DEF AInv, BInv
<1>8. Binding(e)'
  BY <1>1, <1>2, <1>3, <1>4, <1>7 DEF Binding, Does
<1>9. \A d \in Ends : d # e => Binding(d)' /\ (InTurn(d) => InTurn(d)')
  BY <1>1, <1>3, <1>4, <1>7, EndStays
<1>10. ASSUME ~disordered', NEW d \in Ends PROVE InTurn(d)' /\ Knows(d)'
  <2>1. InTurn(d) /\ Knows(d)
    BY <1>10, InOrderSoFar DEF NInv
  <2>2. InTurn(e)'
    <3>1. at[e]["wire"].op \notin StateOps
      BY <1>1, <1>7 DEF Binding
    <3> QED BY <1>2, <1>3, <3>1 DEF InTurn, Does, Threads, StateOps
  <2>3. Knows(d)'
    <3>1. Same(d) /\ Same(Other(d)) /\ Other(d) \in Ends
      BY <1>6, TwoEnds
    <3>2. ~Gone(e)' /\ ~Present(e)'
      BY <1>2, <1>4 DEF Gone, Present, Does
    <3>3. \A c \in Ends : (Gone(c)' => Gone(c)) /\ (Present(c)' => Present(c))
      BY <1>3, <1>4, <3>2, PlaceStays
    <3> QED BY <1>4, <2>1, <3>1, <3>2, <3>3, KnowsOn
  <2> QED BY <1>9, <2>1, <2>2, <2>3
<1> QED BY <1>8, <1>9, <1>10, AInvKept

\* ... it comes to the end of init(), bound or too late, ...
LEMMA InitAgrees ==
    ASSUME Types, AInv, MCNext, NEW e \in Ends, at[e]["main"].op \in {"bind", "close"},
           ext[e] = "advised" => at[e]["main"].op = "close",
           Goes(e, "main", Idle), UNCHANGED <<connected, inbox, mq, custom>>,
           ext' = IF ext[e] = "advised" THEN [ext EXCEPT ![e] = "bound"] ELSE ext
    PROVE  AInv'
<1>1. /\ at'[e]["main"].op = "idle" /\ at'[e]["wire"] = at[e]["wire"]
      /\ \A d \in Ends : d # e => at'[d]["main"] = at[d]["main"] /\ at'[d]["wire"] = at[d]["wire"]
  <2>1. Moved(e, "main", Idle)
    BY Moves DEF Threads
  <2> QED BY <2>1, IdleFields DEF Moved, Threads
<1>2. /\ ext'[e] = IF ext[e] = "advised" THEN "bound" ELSE ext[e]
      /\ \A d \in Ends : d # e => ext'[d] = ext[d]
  BY DEF Types
<1>3. Now(e)' = Now(e) /\ Rest(e)' = Rest(e)
  BY <1>1 DEF Now, Rest, StateOps
<1>4. ASSUME NEW d \in Ends PROVE Same(d)
  BY <1>1, <1>3, NowStays, LineStays, AlikeSelf
<1>5. \A d \in Ends : Binding(d)
  BY DEF AInv, BInv
<1>6. ext[e] \in {"advised", "ending", "unbound"}
  BY <1>5 DEF Binding
<1>7. Binding(e)'
  BY <1>1, <1>2, <1>5, <1>6 DEF Binding, Does
<1>8. \A d \in Ends : d # e => Binding(d)' /\ (InTurn(d) => InTurn(d)')
  BY <1>1, <1>2, <1>5, EndStays
<1>9. ASSUME NEW d \in Ends PROVE (Gone(d)' => Gone(d)) /\ (Present(d)' => Present(d))
  <2>1. CASE d # e
    BY <1>1, <1>2, <2>1, PlaceStays
  <2>2. CASE d = e
    <3>1. Present(e)' => Present(e)
      BY <1>1, <1>2, <1>6 DEF Present, Does
    <3>2. ASSUME Gone(e)' PROVE Gone(e)
      <4>1. ext[e] \in {"unbound", "ending"}
        BY <1>2, <1>6, <3>2 DEF Gone
      <4> QED BY <1>1, <3>2, <4>1, StaysGone
    <3> QED BY <2>2, <3>1, <3>2
  <2> QED BY <2>1, <2>2
<1>10. ASSUME ~disordered', NEW d \in Ends PROVE InTurn(d)' /\ Knows(d)'
  <2>1. InTurn(d) /\ InTurn(e) /\ Knows(d)
    BY <1>10, InOrderSoFar DEF NInv
  <2>2. InTurn(e)'
    BY <1>1, <2>1 DEF InTurn, Does, Threads, StateOps
  <2>3. Knows(d)'
    <3>1. Same(d) /\ Same(Other(d)) /\ Other(d) \in Ends
      BY <1>4, TwoEnds
    <3> QED BY <1>2, <1>9, <2>1, <3>1, KnowsOn
  <2> QED BY <1>8, <2>1, <2>2, <2>3
<1> QED BY <1>7, <1>8, <1>10, AInvKept

\* ... after Ready was sent: the counterpart will be connected, and answer it; ...
LEMMA SendReadyAgrees ==
    ASSUME Types, AInv, MCNext, NEW e \in Ends, SendReady(e) PROVE AInv'
<1> DEFINE f == Other(e)
<1>1. /\ at[e]["main"].op = "bind"
      /\ UNCHANGED <<ext, connected, mq, custom>>
  BY DEF SendReady, Does, extvars
<1>2. CASE ext[e] # "advised"
  BY <1>1, <1>2, InitAgrees DEF SendReady, Halts
<1>3. CASE /\ ext[e] = "advised"
           /\ Transmit(e, <<State("Ready")>>) /\ GoesOn(e, "main", "close")
  <2>1. f \in Ends /\ f # e /\ Other(f) = e /\ \A d \in Ends : d = e \/ d = f
    BY TwoEnds
  <2>2. /\ at'[e]["main"].op = "close" /\ at'[e]["wire"] = at[e]["wire"]
        /\ at'[f]["main"] = at[f]["main"] /\ at'[f]["wire"] = at[f]["wire"]
    BY <1>3, <2>1, MovesOn DEF Threads, MainOps
  <2>3. inbox'[e] = inbox[e] /\ inbox'[f] = inbox[f] \o <<State("Ready")>>
    <3>1. State("Ready") \in Messages
      BY Words DEF Kinds, States
    <3>2. <<State("Ready")>> \in Seq(Messages)
      BY <3>1, StatesOfOne
    <3> QED BY <1>3, <3>2, Transmits
  <2> HIDE DEF f
  <2>4. Same(e)
    <3>1. Now(e)' = Now(e) /\ Rest(e)' = Rest(e)
      BY <1>1, <2>2 DEF Now, Rest, StateOps
    <3> QED BY <1>1, <2>3, <3>1, LineStays, AlikeSelf
  <2>5. Hears(f, "Ready")
    <3>1. Now(f)' = Now(f) /\ Rest(f)' = Rest(f)
      BY <2>1, <2>2, NowStays
    <3>2. inbox[f] \in Seq(Messages) /\ "Ready" \in States
      BY <2>1, Queues DEF States
    <3> QED BY <1>1, <2>1, <2>3, <3>1, <3>2, LineHears
  <2>6. Binding(e) /\ Binding(f)
    BY <2>1 DEF AInv, BInv
  <2>7. Binding(e)'
    BY <1>1, <1>3, <2>2, <2>6 DEF Binding, Does
  <2>8. Binding(f)' /\ (InTurn(f) => InTurn(f)')
    BY <1>1, <2>1, <2>2, <2>6, EndStays
  <2>9. ~Gone(e)' /\ (Gone(f)' => Gone(f))
    BY <1>1, <1>3, <2>1, <2>2, PlaceStays DEF Gone
  <2>10. ASSUME ~disordered'
         PROVE  InTurn(e)' /\ InTurn(f)' /\ Knows(e)' /\ Knows(f)'
    <3>1. InTurn(e) /\ InTurn(f) /\ Knows(e)
      BY <2>1, <2>10, InOrderSoFar DEF NInv
    <3>2. InTurn(e)'
      BY <1>1, <2>2, <3>1 DEF InTurn, Does, Threads, StateOps
    <3>3. Knows(e)'
      <4>1. Unanswered(f)'
        BY <2>5 DEF Hears
      <4>2. Gone(f) => WillNot(e)
        BY <3>1 DEF Knows, f
      <4>3. Gone(f)' => WillNot(e)'
        BY <1>1, <2>4, <2>9, <4>2 DEF WillNot, Same
      <4> QED BY <4>1, <4>3 DEF Knows, f
    <3>4. Knows(f)'
      <4>1. WillBe(f)'
        BY <2>5 DEF Hears, WillBe, Up
      <4> QED BY <2>1, <2>9, <4>1 DEF Knows
    <3> QED BY <2>8, <3>1, <3>2, <3>3, <3>4
  <2> QED BY <2>1, <2>7, <2>8, <2>10, AInvKept
<1> QED BY <1>2, <1>3 DEF SendReady

LEMMA AddClosingAgrees ==
    ASSUME Types, AInv, MCNext, NEW e \in Ends, AddClosing(e) PROVE AInv'
<1>1. /\ at[e]["main"].op = "close" /\ Goes(e, "main", Idle)
      /\ UNCHANGED <<connected, inbox, mq, custom>>
      /\ ext' = IF ext[e] = "advised" THEN [ext EXCEPT ![e] = "bound"] ELSE ext
  BY DEF AddClosing, Does, Halts, wirevars
<1> QED BY <1>1, InitAgrees

\* ... its lifetime ends during init(), of which the counterpart hears nothing, ...
LEMMA EndEarlyAgrees ==
    ASSUME Types, AInv, MCNext, NEW e \in Ends, EndEarly(e) PROVE AInv'
<1>1. /\ ext[e] = "advised" /\ at[e]["wire"].op = "idle"
      /\ ext' = [ext EXCEPT ![e] = "ending"]
      /\ UNCHANGED <<connected, inbox, mq, custom>>
      /\ GoesOn(e, "wire", "unbind")
  BY DEF EndEarly, IsIdle, wirevars
<1>2. /\ at'[e]["wire"].op = "unbind"
      /\ \A f \in Ends, u \in Threads : f # e \/ u # "wire" => at'[f][u] = at[f][u]
  BY <1>1, MovesOn DEF Threads, WireOps
<1>3. /\ at'[e]["main"] = at[e]["main"]
      /\ \A d \in Ends : d # e => at'[d]["main"] = at[d]["main"] /\ at'[d]["wire"] = at[d]["wire"]
  BY <1>2 DEF Threads
<1>4. ext'[e] = "ending" /\ \A d \in Ends : d # e => ext'[d] = ext[d]
  BY <1>1 DEF Types
<1>5. Now(e)' = Now(e) /\ Rest(e)' = Rest(e)
  BY <1>1, <1>2, <1>3 DEF Now, Rest, Means
<1>6. ASSUME NEW d \in Ends PROVE Same(d)
  BY <1>1, <1>3, <1>5, NowStays, LineStays, AlikeSelf
<1>7. \A d \in Ends : Binding(d)
  BY DEF AInv, BInv
<1>8. Binding(e)' /\ at[e]["main"].op \in {"bind", "close"}
  BY <1>1, <1>2, <1>3, <1>4, <1>7 DEF Binding, Does, StateOps, Closing, Gives
<1>9. \A d \in Ends : d # e => Binding(d)' /\ (InTurn(d) => InTurn(d)')
  BY <1>1, <1>3, <1>4, <1>7, EndStays
<1>10. ~Gone(e)' /\ ~Present(e)'
  <2>1. e \in silent'
    BY <1>1, <1>4 DEF MCNext
  <2> QED BY <1>4, <2>1 DEF Gone, Present
<1>11. \A d \in Ends : (Gone(d)' => Gone(d)) /\ (Present(d)' => Present(d))
  BY <1>3, <1>4, <1>10, PlaceStays
<1>12. ASSUME ~disordered', NEW d \in Ends PROVE InTurn(d)' /\ Knows(d)'
  <2>1. InTurn(d) /\ Knows(d)
    BY <1>12, InOrderSoFar DEF NInv
  <2>2. InTurn(e)'
    BY <1>2, <1>3, <1>8 DEF InTurn, Does, Threads, StateOps
  <2>3. Knows(d)'
    <3>1. Same(d) /\ Same(Other(d)) /\ Other(d) \in Ends
      BY <1>6, TwoEnds
    <3> QED BY <1>1, <1>4, <1>11, <2>1, <3>1, KnowsOn
  <2> QED BY <1>9, <2>1, <2>2, <2>3
<1> QED BY <1>8, <1>9, <1>12, AInvKept

\* ... or it ends later, ...
LEMMA EndLifetimeAgrees ==
    ASSUME Types, AInv, MCNext, NEW e \in Ends, EndLifetime(e) PROVE AInv'
<1>1. /\ ext[e] = "bound" /\ at[e]["wire"].op = "idle"
      /\ ext' = [ext EXCEPT ![e] = "dying"]
      /\ UNCHANGED <<connected, inbox, mq, custom>>
      /\ GoesOn(e, "wire", "end")
  BY DEF EndLifetime, IsIdle, wirevars
<1>2. /\ at'[e]["wire"].op = "end"
      /\ \A f \in Ends, u \in Threads : f # e \/ u # "wire" => at'[f][u] = at[f][u]
  BY <1>1, MovesOn DEF Threads, WireOps
<1>3. /\ at'[e]["main"] = at[e]["main"]
      /\ \A d \in Ends : d # e => at'[d]["main"] = at[d]["main"] /\ at'[d]["wire"] = at[d]["wire"]
  BY <1>2 DEF Threads
<1>4. ext'[e] = "dying" /\ \A d \in Ends : d # e => ext'[d] = ext[d]
  BY <1>1 DEF Types
<1>5. Now(e)' = Now(e) /\ Rest(e)' = Rest(e)
  BY <1>1, <1>2, <1>3 DEF Now, Rest, Means
<1>6. ASSUME NEW d \in Ends PROVE Same(d)
  BY <1>1, <1>3, <1>5, NowStays, LineStays, AlikeSelf
<1>7. \A d \in Ends : Binding(d)
  BY DEF AInv, BInv
<1>8. Binding(e)'
  BY <1>1, <1>2, <1>3, <1>4, <1>7 DEF Binding, Does, StateOps, Closing, Gives
<1>9. \A d \in Ends : d # e => Binding(d)' /\ (InTurn(d) => InTurn(d)')
  BY <1>1, <1>3, <1>4, <1>7, EndStays
<1>10. ASSUME ~disordered', NEW d \in Ends PROVE InTurn(d)' /\ Knows(d)'
  <2>1. InTurn(d) /\ Knows(d) /\ ~Disorder(e)
    BY <1>10, InOrderSoFar DEF NInv
  <2>2. InTurn(e)'
    <3>1. at'[e]["main"].op \notin StateOps
      BY <1>4, <2>1 DEF Disorder, Overlap
    <3> QED BY <1>2, <3>1 DEF InTurn, Does, Threads, StateOps
  <2>3. Knows(d)'
    <3>1. Same(d) /\ Same(Other(d)) /\ Other(d) \in Ends
      BY <1>6, TwoEnds
    <3>2. ~Gone(e)' /\ ~Present(e)'
      BY <1>4 DEF Gone, Present
    <3>3. \A c \in Ends : (Gone(c)' => Gone(c)) /\ (Present(c)' => Present(c))
      BY <1>3, <1>4, <3>2, PlaceStays
    <3> QED BY <1>1, <1>4, <2>1, <3>1, <3>3, KnowsOn
  <2> QED BY <1>9, <2>1, <2>2, <2>3
<1> QED BY <1>8, <1>9, <1>10, AInvKept

\* ... it says Disconnected: the counterpart will not be connected; ...
LEMMA SendDisconnectedAgrees ==
    ASSUME Types, AInv, MCNext, NEW e \in Ends, SendDisconnected(e) PROVE AInv'
<1> DEFINE f == Other(e)
<1>1. /\ at[e]["wire"].op = "end"
      /\ ext' = [ext EXCEPT ![e] = "ending"]
      /\ UNCHANGED <<connected, mq, custom>>
      /\ GoesOn(e, "wire", "unbind") /\ Transmit(e, <<State("Disconnected")>>)
  BY DEF SendDisconnected, Does
<1>2. f \in Ends /\ f # e /\ Other(f) = e /\ \A d \in Ends : d = e \/ d = f
  BY TwoEnds
<1>3. /\ at'[e]["wire"].op = "unbind" /\ at'[e]["main"] = at[e]["main"]
      /\ at'[f]["main"] = at[f]["main"] /\ at'[f]["wire"] = at[f]["wire"]
  BY <1>1, <1>2, MovesOn DEF Threads, WireOps
<1>4. ext'[e] = "ending" /\ ext'[f] = ext[f]
  BY <1>1, <1>2 DEF Types
<1>5. inbox'[e] = inbox[e] /\ inbox'[f] = inbox[f] \o <<State("Disconnected")>>
  <2>1. State("Disconnected") \in Messages
    BY Words DEF Kinds, States
  <2>2. <<State("Disconnected")>> \in Seq(Messages)
    BY <2>1, StatesOfOne
  <2> QED BY <1>1, <2>2, Transmits
<1> HIDE DEF f
<1>6. Same(e)
  <2>1. Now(e)' = Now(e) /\ Rest(e)' = Rest(e)
    BY <1>1, <1>3 DEF Now, Rest, Means
  <2> QED BY <1>1, <1>5, <2>1, LineStays, AlikeSelf
<1>7. Hears(f, "Disconnected")
  <2>1. Now(f)' = Now(f) /\ Rest(f)' = Rest(f)
    BY <1>2, <1>3, NowStays
  <2>2. inbox[f] \in Seq(Messages) /\ "Disconnected" \in States
    BY <1>2, Queues DEF States
  <2> QED BY <1>1, <1>2, <1>5, <2>1, <2>2, LineHears
<1>8. Binding(e) /\ Binding(f)
  BY <1>2 DEF AInv, BInv
<1>9. Binding(e)'
  BY <1>1, <1>3, <1>4, <1>8 DEF Binding, Does, StateOps, Closing, Gives
<1>10. Binding(f)' /\ (InTurn(f) => InTurn(f)')
  BY <1>1, <1>2, <1>3, <1>4, <1>8, EndStays
<1>11. ASSUME ~disordered'
       PROVE  InTurn(e)' /\ InTurn(f)' /\ Knows(e)' /\ Knows(f)'
  <2>1. InTurn(e) /\ InTurn(f) /\ Knows(e) /\ ~Disorder(e)
    BY <1>2, <1>11, InOrderSoFar DEF NInv
  <2>2. InTurn(e)'
    <3>1. at'[e]["main"].op \notin StateOps
      BY <1>4, <2>1 DEF Disorder, Overlap
    <3> QED BY <1>3, <3>1 DEF InTurn, Does, Threads, StateOps
  <2>3. Knows(e)'
    <3>1. ext[e] # "unbound"
      BY <1>1, <1>8 DEF Binding, Closing
    <3>2. (Gone(f)' => Gone(f)) /\ (Gone(f) => WillNot(e))
      BY <1>2, <1>3, <1>4, <2>1, PlaceStays DEF Knows, f
    <3>3. Gone(f)' => WillNot(e)'
      BY <1>1, <1>6, <3>1, <3>2 DEF WillNot, Same
    <3>4. ~Present(e)'
      BY <1>4 DEF Present
    <3> QED BY <3>3, <3>4 DEF Knows, f
  <2>4. Knows(f)'
    <3>1. WillNot(f)'
      BY <1>7 DEF Hears, WillNot, Down
    <3>2. ~Present(e)'
      BY <1>4 DEF Present
    <3> QED BY <1>2, <3>1, <3>2 DEF Knows
  <2> QED BY <1>10, <2>1, <2>2, <2>3, <2>4
<1> QED BY <1>2, <1>9, <1>10, <1>11, AInvKept

\* ... and it is unsubscribed.
LEMMA UnsubscribeAgrees ==
    ASSUME Types, AInv, MCNext, NEW e \in Ends, Unsubscribe(e) PROVE AInv'
<1>1. /\ at[e]["wire"].op = "unbind"
      /\ ext' = [ext EXCEPT ![e] = "unbound"]
      /\ UNCHANGED <<connected, inbox, mq, custom>>
      /\ Goes(e, "wire", Idle)
  BY DEF Unsubscribe, Does, Halts, wirevars
<1>2. /\ at'[e]["wire"].op = "idle" /\ at'[e]["main"] = at[e]["main"]
      /\ \A d \in Ends : d # e => at'[d]["main"] = at[d]["main"] /\ at'[d]["wire"] = at[d]["wire"]
  <2>1. Moved(e, "wire", Idle)
    BY <1>1, Moves DEF Threads
  <2> QED BY <2>1, IdleFields DEF Moved, Threads
<1>3. ext'[e] = "unbound" /\ \A d \in Ends : d # e => ext'[d] = ext[d]
  BY <1>1 DEF Types
<1>4. Now(e)' = Now(e) /\ Rest(e)' = Rest(e)
  BY <1>1, <1>2 DEF Now, Rest, Means
<1>5. ASSUME NEW d \in Ends PROVE Same(d)
  BY <1>1, <1>2, <1>4, NowStays, LineStays, AlikeSelf
<1>6. \A d \in Ends : Binding(d)
  BY DEF AInv, BInv
<1>7. ext[e] = "ending" /\ Binding(e)'
  BY <1>1, <1>2, <1>3, <1>6 DEF Binding, Does, StateOps, Closing, Gives
<1>8. \A d \in Ends : d # e => Binding(d)' /\ (InTurn(d) => InTurn(d)')
  BY <1>1, <1>2, <1>3, <1>6, EndStays
<1>9. ASSUME ~disordered', NEW d \in Ends PROVE InTurn(d)' /\ Knows(d)'
  <2>1. InTurn(d) /\ InTurn(e) /\ Knows(d)
    BY <1>9, InOrderSoFar DEF NInv
  <2>2. InTurn(e)'
    BY <1>2, <1>7, <2>1 DEF InTurn, Does, Threads, StateOps
  <2>3. Knows(d)'
    <3>1. Same(d) /\ Same(Other(d)) /\ Other(d) \in Ends
      BY <1>5, TwoEnds
    <3>2. ASSUME NEW c \in Ends PROVE (Gone(c)' => Gone(c)) /\ (Present(c)' => Present(c))
      <4>1. CASE c # e
        BY <1>2, <1>3, <4>1, PlaceStays
      <4>2. CASE c = e
        BY <1>2, <1>3, <1>7, <4>2, StaysGone DEF Present
      <4> QED BY <4>1, <4>2
    <3> QED BY <1>1, <1>3, <1>7, <2>1, <3>1, <3>2, KnowsOn
  <2> QED BY <1>8, <2>1, <2>2, <2>3
<1> QED BY <1>7, <1>8, <1>9, AInvKept

\* The states as they are executed.
LEMMA StartMeans ==
    ASSUME NEW m \in Messages, m.op \in States, NEW r \in Seq(Messages)
    PROVE  /\ Start(m, r).op \in StateOps \ {"flush"} /\ Start(m, r).rest = r
           /\ Means(Start(m, r).op) = m.op
<1> DEFINE op == CASE m.op = "Ready" -> "answer"
                   [] m.op = "ReceivedCounterpart" -> "set"
                   [] OTHER -> "unset"
<1>1. op \in StateOps \ {"flush"} /\ Means(op) = m.op
  BY DEF StateOps, Means, States
<1>2. Start(m, r) = Doing(op, m, r)
  BY DEF Start
<1> HIDE DEF op
<1>3. Doing(op, m, r).op = op /\ Doing(op, m, r).rest = r
  BY <1>1, DoingFields DEF WireOps
<1> QED BY <1>1, <1>2, <1>3

\* A state arrives: it is executed, or waits after those that came before it.
LEMMA ReceiveStateAgrees ==
    ASSUME EInv, AInv, MCNext, NEW e \in Ends, ReceiveState(e) PROVE AInv'
<1> DEFINE m == Head(inbox[e])
           r == Tail(inbox[e])
<1>1. /\ Types /\ KInv
      /\ at[e]["wire"].op = "idle" /\ inbox[e] # <<>> /\ m.op \in States
      /\ inbox' = [inbox EXCEPT ![e] = Tail(@)]
      /\ UNCHANGED <<ext, connected>>
  BY DEF EInv, ReceiveState, IsIdle, extvars
<1>2. /\ m \in Messages /\ inbox'[e] = r
      /\ \A d \in Ends : d # e => inbox'[d] = inbox[d]
      /\ ~Free(inbox[e])
      /\ Awaits(inbox[e]) <=> m.op = "Ready" \/ Awaits(r)
      /\ \A K \in {Up, Down} : Final(inbox[e], K) <=> Final(r, K) \/ (Free(r) /\ m.op \in K)
  <2>1. /\ m \in Messages /\ inbox'[e] = r
        /\ \A d \in Ends : d # e => inbox'[d] = inbox[d]
    BY <1>1, InboxTail
  <2>2. inbox[e] \in Seq(Messages)
    BY <1>1, Queues
  <2>3. /\ Free(inbox[e]) <=> m.op \notin States /\ Free(r)
        /\ Awaits(inbox[e]) <=> m.op = "Ready" \/ Awaits(r)
        /\ \A K \in SUBSET States :
              Final(inbox[e], K) <=> Final(r, K) \/ (Free(r) /\ m.op \in K)
    BY <1>1, <2>2, StatesOfTail
  <2> HIDE DEF m, r
  <2> QED BY <1>1, <2>1, <2>3, UpAndDown
<1> HIDE DEF m, r
<1>3. /\ mq[e] \in Seq(Messages) /\ custom[e] \in Seq(Messages)
      /\ mq \in [Ends -> Seq(Messages)] /\ custom \in [Ends -> Seq(Messages)]
      /\ \A d \in Ends : Binding(d)
  BY <1>1, Queues DEF Types, AInv, BInv
<1>4. ASSUME \A d \in Ends : d # e =>
                /\ at'[d]["main"] = at[d]["main"] /\ at'[d]["wire"] = at[d]["wire"]
                /\ mq'[d] = mq[d] /\ custom'[d] = custom[d],
             at'[e]["main"] = at[e]["main"],
             Binding(e)',
             ~disordered' => InTurn(e)' /\ Same(e)
      PROVE  AInv'
  <2>1. ASSUME NEW d \in Ends, d # e
        PROVE  Binding(d)' /\ (InTurn(d) => InTurn(d)') /\ Same(d)
    <3>1. Same(d)
      BY <1>2, <1>4, <2>1, NowStays, LineStays, AlikeSelf
    <3> QED BY <1>1, <1>3, <1>4, <2>1, <3>1, EndStays
  <2>2. ASSUME ~disordered', NEW d \in Ends PROVE InTurn(d)' /\ Knows(d)'
    <3>1. InTurn(d) /\ Knows(d)
      BY <2>2, InOrderSoFar DEF NInv
    <3>2. Same(d) /\ Same(Other(d)) /\ Other(d) \in Ends
      BY <1>4, <2>1, <2>2, TwoEnds
    <3>3. \A c \in Ends : (Gone(c)' => Gone(c)) /\ (Present(c)' => Present(c))
      BY <1>1, <1>4, PlaceStays
    <3>4. Knows(d)'
      BY <1>1, <3>1, <3>2, <3>3, KnowsOn
    <3> QED BY <1>4, <2>1, <2>2, <3>1, <3>4
  <2> QED BY <1>4, <2>1, <2>2, AInvKept
<1>5. CASE /\ Subscribed(e) /\ mq[e] = <<>>
           /\ Goes(e, "wire", Start(m, <<>>))
           /\ UNCHANGED <<mq, custom>>
  <2>1. /\ at'[e]["wire"] = Start(m, <<>>) /\ at'[e]["main"] = at[e]["main"]
        /\ \A d \in Ends :
              d # e => at'[d]["main"] = at[d]["main"] /\ at'[d]["wire"] = at[d]["wire"]
    <3>1. Moved(e, "wire", Start(m, <<>>))
      BY <1>1, <1>5, Moves DEF Threads
    <3> QED BY <3>1 DEF Moved, Threads
  <2>2. at'[e]["wire"].op \in StateOps \ {"flush"} /\ Means(at'[e]["wire"].op) = m.op
    <3>1. <<>> \in Seq(Messages)
      OBVIOUS
    <3>2. m \in Messages /\ m.op \in States
      BY <1>1, <1>2
    <3>3. Start(m, <<>>).op \in StateOps \ {"flush"} /\ Means(Start(m, <<>>).op) = m.op
      BY <3>1, <3>2, StartMeans
    <3> QED BY <2>1, <3>3
  <2>3. Binding(e)'
    BY <1>1, <1>3, <1>5, <2>1, <2>2 DEF Binding, Does, StateOps, Subscribed, Closing, Gives
  <2>4. ASSUME ~disordered' PROVE InTurn(e)' /\ Same(e)
    <3>1. InTurn(e) /\ at'[e]["main"].op \notin StateOps
      BY <2>2, <2>4, InOrderSoFar DEF NInv, Disorder, Overlap
    <3>2. InTurn(e)'
      BY <1>1, <2>1, <2>2, <3>1 DEF InTurn, Does, Threads, StateOps
    <3>3. Now(e) = "none" /\ Now(e)' = m.op /\ Rest(e) = <<>> /\ Rest(e)' = <<>>
      BY <1>1, <2>1, <2>2, <3>1 DEF Now, Rest, Means
    <3>4. mq[e] = <<>> /\ custom[e] = <<>> /\ mq'[e] = <<>> /\ custom'[e] = <<>>
      BY <1>3, <1>5 DEF Binding
    <3>5. \A K \in {Up, Down} : Coming(e, K)' <=> Coming(e, K)
      BY <1>2, <3>3, <3>4, StatesOfNone DEF Coming
    <3>6. Clear(e)' <=> Clear(e)
      BY <1>1, <1>2, <3>3, UpAndDown DEF Clear
    <3>7. Unanswered(e)' <=> Unanswered(e)
      BY <1>2, <3>3, <3>4, StatesOfNone DEF Unanswered
    <3> QED BY <3>2, <3>5, <3>6, <3>7 DEF Same
  <2> QED BY <1>4, <1>5, <2>1, <2>3, <2>4
<1>6. ASSUME at' = at, ~disordered', mq'[e] = mq[e] \/ ext[e] = "unbound"
      PROVE  InTurn(e)' /\ Now(e)' = Now(e) /\ Rest(e)' = Rest(e)
  <2>1. InTurn(e)
    BY <1>6, InOrderSoFar DEF NInv
  <2>2. Now(e)' = Now(e) /\ Rest(e)' = Rest(e)
    BY <1>6, NowStays
  <2>3. \A t \in Threads : Does(e, t, "flush")' => connected'[e]
    BY <1>1, <1>6, <2>1 DEF InTurn, Does
  <2> QED BY <1>1, <1>6, <2>1, <2>2, <2>3 DEF InTurn
<1>7. CASE /\ Subscribed(e) /\ mq[e] # <<>>
           /\ custom' = [custom EXCEPT ![e] = Append(@, m)]
           /\ UNCHANGED <<mq, at>>
  <2>1. /\ custom'[e] = Append(custom[e], m)
        /\ \A d \in Ends : d # e => custom'[d] = custom[d]
    BY <1>3, <1>7
  <2>2. /\ ~Free(custom'[e])
        /\ Awaits(custom'[e]) <=> Awaits(custom[e]) \/ m.op = "Ready"
        /\ \A K \in {Up, Down} : Final(custom'[e], K) <=> m.op \in K
    BY <1>1, <1>2, <1>3, <2>1, StatesOfAppend, UpAndDown
  <2>3. Binding(e)'
    BY <1>1, <1>3, <1>7 DEF Binding, Does
  <2>4. ASSUME ~disordered' PROVE InTurn(e)' /\ Same(e)
    <3>1. InTurn(e)' /\ Now(e)' = Now(e) /\ Rest(e)' = Rest(e)
      BY <1>6, <1>7, <2>4
    <3>2. \A K \in {Up, Down} : Coming(e, K)' <=> Coming(e, K)
      BY <1>2, <2>2 DEF Coming
    <3>3. Clear(e)' <=> Clear(e)
      BY <1>2, <2>2 DEF Clear
    <3>4. Unanswered(e)' <=> Unanswered(e)
      BY <1>2, <1>7, <2>2, <3>1 DEF Unanswered
    <3> QED BY <3>1, <3>2, <3>3, <3>4 DEF Same
  <2> QED BY <1>4, <1>7, <2>1, <2>3, <2>4
<1>8. CASE ~Subscribed(e) /\ Defer(e, m) /\ UNCHANGED <<custom, at>>
  <2>1. /\ mq'[e] = Append(mq[e], m)
        /\ \A d \in Ends : d # e => mq'[d] = mq[d]
    BY <1>3, <1>8 DEF Defer
  <2>2. /\ ~Free(mq'[e])
        /\ Awaits(mq'[e]) <=> Awaits(mq[e]) \/ m.op = "Ready"
        /\ \A K \in {Up, Down} : Final(mq'[e], K) <=> m.op \in K
    BY <1>1, <1>2, <1>3, <2>1, StatesOfAppend, UpAndDown
  <2>3. Len(mq'[e]) > Len(mq[e]) /\ mq'[e] # <<>>
    <3>1. /\ Len(mq[e]) \in Nat /\ Len(mq'[e]) = Len(mq[e]) + 1
      BY <1>2, <1>3, <2>1, AppendIndices
    <3>2. mq'[e] # <<>>
      BY <2>2, StatesOfNone
    <3> QED BY <3>1, <3>2
  <2>4. Binding(e)'
    BY <1>1, <1>3, <1>8, <2>3 DEF Binding, Does, StateOps
  <2>5. ASSUME ~disordered' PROVE InTurn(e)' /\ Same(e)
    <3>1. InTurn(e)' /\ Now(e)' = Now(e) /\ Rest(e)' = Rest(e)
      BY <1>6, <1>8, <2>5 DEF Subscribed
    <3>2. custom[e] = <<>> /\ custom'[e] = <<>>
      BY <1>8, <2>3, <2>5, InOrderSoFar DEF Disorder
    <3>3. \A K \in {Up, Down} : Coming(e, K)' <=> Coming(e, K)
      BY <1>2, <2>2, <3>2, StatesOfNone DEF Coming
    <3>4. Clear(e)' <=> Clear(e)
      BY <1>2, <2>2 DEF Clear
    <3>5. Unanswered(e)' <=> Unanswered(e)
      BY <1>2, <1>8, <2>2, <3>1 DEF Unanswered
    <3> QED BY <3>1, <3>3, <3>4, <3>5 DEF Same
  <2> QED BY <1>4, <1>8, <2>1, <2>4, <2>5
<1> QED BY <1>5, <1>7, <1>8 DEF ReceiveState, m

\* For a deferred action there is a state.
LEMMA DeferredFindsOne ==
    ASSUME Types, DInv, NEW e \in Ends, queue[e] # <<>>, Head(queue[e]).op = "deferred"
    PROVE  mq[e] # <<>>
<1>1. queue[e] \in Seq(Messages) /\ mq[e] \in Seq(Messages)
  BY Queues
<1>2. Cardinality(Deferrals(queue[e])) # 0
  BY <1>1, DeferralsOfTail
<1>3. Len(mq[e]) # 0
  BY <1>2 DEF DInv
<1> QED BY <1>1, <1>3, EmptySeq

\* A state that waited is executed, or nobody wants it any more.
LEMMA RunDeferredAgrees ==
    ASSUME EInv, AInv, MCNext, NEW e \in Ends, RunDeferred(e) PROVE AInv'
<1> DEFINE h == Head(mq[e])
           r == Tail(mq[e])
           rest == IF mq'[e] = <<>> THEN custom[e] ELSE <<>>
<1>1. /\ Types /\ KInv /\ DInv
      /\ at[e]["main"].op = "idle"
      /\ queue[e] # <<>> /\ Head(queue[e]).op = "deferred"
      /\ mq' = [mq EXCEPT ![e] = Tail(@)]
      /\ custom' = IF mq'[e] = <<>> THEN [custom EXCEPT ![e] = <<>>] ELSE custom
      /\ UNCHANGED <<ext, connected, inbox>>
      /\ IF Subscribed(e) THEN Goes(e, "main", Start(h, rest)) ELSE at' = at
  BY DEF EInv, RunDeferred, IsIdle, extvars
<1>2. /\ mq[e] \in Seq(Messages) /\ custom[e] \in Seq(Messages) /\ mq[e] # <<>>
      /\ mq \in [Ends -> Seq(Messages)] /\ custom \in [Ends -> Seq(Messages)]
      /\ Has(mq[e], States)
      /\ \A d \in Ends : Binding(d)
  BY <1>1, Queues, DeferredFindsOne DEF Types, KInv, AInv, BInv
<1>3. h \in Messages /\ h.op \in States /\ r \in Seq(Messages)
  BY <1>2, HasTail
<1>4. /\ ~Free(mq[e])
      /\ Awaits(mq[e]) <=> h.op = "Ready" \/ Awaits(r)
      /\ \A K \in {Up, Down} : Final(mq[e], K) <=> Final(r, K) \/ (Free(r) /\ h.op \in K)
  <2>1. /\ Free(mq[e]) <=> h.op \notin States /\ Free(r)
        /\ Awaits(mq[e]) <=> h.op = "Ready" \/ Awaits(r)
        /\ \A K \in SUBSET States :
              Final(mq[e], K) <=> Final(r, K) \/ (Free(r) /\ h.op \in K)
    BY <1>2, StatesOfTail
  <2> HIDE DEF h, r
  <2> QED BY <1>3, <2>1, UpAndDown
<1>5. mq'[e] = r /\ \A d \in Ends : d # e => mq'[d] = mq[d]
  BY <1>1, <1>2
<1>6. /\ custom'[e] = IF r = <<>> THEN <<>> ELSE custom[e]
      /\ rest = IF r = <<>> THEN custom[e] ELSE <<>>
      /\ rest \in Seq(Messages)
      /\ \A d \in Ends : d # e => custom'[d] = custom[d]
  <2>1. <<>> \in Seq(Messages)
    OBVIOUS
  <2> HIDE DEF r
  <2> QED BY <1>1, <1>2, <1>5, <2>1
<1> HIDE DEF h, r, rest
<1>7. at[e]["wire"].op \notin StateOps
  BY <1>2 DEF Binding
<1>8. Now(e) = "none" /\ Rest(e) = <<>>
  BY <1>1, <1>7 DEF Now, Rest, Means, StateOps
<1>9. CASE Subscribed(e) /\ Goes(e, "main", Start(h, rest))
  <2>1. /\ at'[e]["main"] = Start(h, rest) /\ at'[e]["wire"] = at[e]["wire"]
        /\ \A d \in Ends :
              d # e => at'[d]["main"] = at[d]["main"] /\ at'[d]["wire"] = at[d]["wire"]
    <3>1. Moved(e, "main", Start(h, rest))
      BY <1>1, <1>9, Moves DEF Threads
    <3> QED BY <3>1 DEF Moved, Threads
  <2>2. /\ at'[e]["main"].op \in StateOps \ {"flush"} /\ at'[e]["main"].rest = rest
        /\ Means(at'[e]["main"].op) = h.op
    <3>1. rest \in Seq(Messages)
      BY <1>6
    <3>2. /\ Start(h, rest).op \in StateOps \ {"flush"} /\ Start(h, rest).rest = rest
          /\ Means(Start(h, rest).op) = h.op
      BY <1>3, <3>1, StartMeans
    <3> QED BY <2>1, <3>2
  <2>3. Binding(e)'
    <3>1. mq'[e] = <<>> => custom'[e] = <<>>
      BY <1>5, <1>6
    <3>2. /\ ext'[e] = ext[e] /\ ext[e] # "advised"
          /\ at'[e]["main"].op \notin {"bind", "close"} /\ at'[e]["wire"] = at[e]["wire"]
      BY <1>1, <1>2, <2>1, <2>2 DEF Binding, StateOps
    <3> QED BY <1>2, <1>7, <3>1, <3>2 DEF Binding, Does, Closing
  <2>4. Same(e)
    <3>1. Now(e)' = h.op /\ Rest(e)' = rest
      BY <2>2 DEF Now, Rest
    <3>2. \A K \in {Up, Down} : Coming(e, K)' <=> Coming(e, K)
      <4>1. ASSUME r = <<>>, NEW K \in {Up, Down} PROVE Coming(e, K)' <=> Coming(e, K)
        <5>1. /\ inbox'[e] = inbox[e] /\ custom'[e] = <<>> /\ mq'[e] = <<>>
              /\ Rest(e)' = custom[e] /\ Now(e)' = h.op
          BY <1>1, <1>5, <1>6, <3>1, <4>1
        <5>2. ~Free(mq[e]) /\ (Final(mq[e], K) <=> h.op \in K)
          BY <1>4, <4>1, StatesOfNone
        <5>3. Free(<<>>) /\ ~Final(<<>>, K)
          BY StatesOfNone
        <5> QED BY <5>1, <5>2, <5>3 DEF Coming
      <4>2. ASSUME r # <<>>, NEW K \in {Up, Down} PROVE Coming(e, K)' <=> Coming(e, K)
        <5>1. /\ inbox'[e] = inbox[e] /\ custom'[e] = custom[e] /\ mq'[e] = r
              /\ Rest(e) = <<>> /\ Rest(e)' = <<>> /\ Now(e)' = h.op
          BY <1>1, <1>5, <1>6, <1>8, <3>1, <4>2
        <5>2. ~Free(mq[e]) /\ (Final(mq[e], K) <=> Final(r, K) \/ (Free(r) /\ h.op \in K))
          BY <1>4
        <5>3. Free(<<>>) /\ ~Final(<<>>, K)
          BY StatesOfNone
        <5> QED BY <5>1, <5>2, <5>3 DEF Coming
      <4> QED BY <4>1, <4>2
    <3>3. Clear(e)' <=> Clear(e)
      BY <1>3, <1>4, <3>1, UpAndDown DEF Clear
    <3>4. Unanswered(e)' <=> Unanswered(e)
      <4>1. CASE r = <<>>
        BY <1>1, <1>4, <1>5, <1>6, <1>8, <3>1, <4>1, StatesOfNone DEF Unanswered
      <4>2. CASE r # <<>>
        BY <1>1, <1>4, <1>5, <1>6, <1>8, <3>1, <4>2, StatesOfNone DEF Unanswered
      <4> QED BY <4>1, <4>2
    <3> QED BY <3>2, <3>3, <3>4 DEF Same
  <2>5. ASSUME NEW d \in Ends, d # e
        PROVE  Binding(d)' /\ (InTurn(d) => InTurn(d)') /\ Same(d)
    BY <1>1, <1>2, <1>5, <1>6, <2>1, <2>5, EndStays, NowStays, LineStays, AlikeSelf
  <2>6. ASSUME ~disordered', NEW d \in Ends PROVE InTurn(d)' /\ Knows(d)'
    <3>1. InTurn(d) /\ Knows(d) /\ ~Disorder(e)
      BY <2>6, InOrderSoFar DEF NInv
    <3>2. InTurn(e)'
      <4>1. ext[e] \notin {"unbound", "advised", "dying", "ending"}
        BY <1>1, <1>2, <1>9, <2>2, <3>1
           DEF Disorder, Overlap, Subscribed, Binding, Does
      <4>2. ext[e] = "bound"
        BY <1>1, <4>1 DEF Types
      <4>3. rest # <<>> => mq'[e] = <<>>
        BY <1>5, <1>6
      <4> QED BY <1>1, <1>7, <2>1, <2>2, <4>2, <4>3 DEF InTurn, Does, Threads, StateOps
    <3>3. Knows(d)'
      <4>1. Same(d) /\ Same(Other(d)) /\ Other(d) \in Ends
        BY <2>4, <2>5, TwoEnds
      <4>2. at'[e]["main"].op # "close"
        BY <2>2 DEF StateOps
      <4>3. \A c \in Ends : (Gone(c)' => Gone(c)) /\ (Present(c)' => Present(c))
        BY <1>1, <2>1, <4>2, PlaceStays
      <4> QED BY <1>1, <3>1, <4>1, <4>3, KnowsOn
    <3> QED BY <2>5, <3>1, <3>2, <3>3
  <2> QED BY <2>3, <2>5, <2>6, AInvKept
<1>10. CASE ~Subscribed(e) /\ at' = at
  <2> DEFINE f == Other(e)
  <2>1. f \in Ends /\ f # e /\ Other(f) = e /\ \A d \in Ends : d = e \/ d = f
    BY TwoEnds
  <2>2. ext[e] = "unbound"
    BY <1>10 DEF Subscribed
  <2> HIDE DEF f
  <2>3. Binding(e)'
    BY <1>1, <1>2, <1>5, <1>6, <1>7, <1>10 DEF Binding, Does
  <2>4. Binding(f)' /\ (InTurn(f) => InTurn(f)') /\ Same(f)
    BY <1>1, <1>2, <1>5, <1>6, <1>10, <2>1, EndStays, NowStays, LineStays, AlikeSelf
  <2>5. Coming(e, Down) => Coming(e, Down)' \/ Clear(e)'
    <3>1. Now(e)' = "none" /\ Rest(e)' = <<>>
      BY <1>8, <1>10, NowStays
    <3>2. CASE r = <<>>
      BY <1>1, <1>4, <1>5, <1>6, <1>8, <3>1, <3>2, StatesOfNone DEF Coming, Clear
    <3>3. CASE r # <<>>
      BY <1>1, <1>4, <1>5, <1>6, <1>8, <3>1, <3>3, StatesOfNone DEF Coming, Clear
    <3> QED BY <3>2, <3>3
  <2>6. ~Present(e)' /\ (Gone(e)' => Gone(e)) /\ (Gone(f)' => Gone(f))
    BY <1>1, <1>10, <2>1, <2>2, PlaceStays DEF Present
  <2>7. ASSUME ~disordered'
        PROVE  InTurn(e)' /\ InTurn(f)' /\ Knows(e)' /\ Knows(f)'
    <3>1. InTurn(e) /\ InTurn(f) /\ Knows(e) /\ Knows(f)
      BY <2>1, <2>7, InOrderSoFar DEF NInv
    <3>2. InTurn(e)'
      BY <1>1, <1>10, <2>2, <3>1 DEF InTurn, Does, StateOps
    <3>3. Knows(e)'
      <4>1. ~Clear(e)
        BY <1>4 DEF Clear
      <4>2. WillNot(e) => WillNot(e)'
        BY <1>1, <2>2, <2>5, <4>1 DEF WillNot
      <4> QED BY <2>6, <3>1, <4>2 DEF Knows, f
    <3>4. Knows(f)'
      <4>1. Gone(e) => WillNot(f)
        BY <2>1, <3>1 DEF Knows
      <4>2. WillNot(f) => WillNot(f)'
        BY <1>1, <2>4 DEF WillNot, Same
      <4> QED BY <2>1, <2>6, <4>1, <4>2 DEF Knows
    <3> QED BY <2>4, <3>1, <3>2, <3>3, <3>4
  <2> QED BY <2>1, <2>3, <2>4, <2>7, AInvKept
<1> QED BY <1>1, <1>9, <1>10

\* A Ready is answered: the counterpart will be connected.
LEMMA AnswerAgrees ==
    ASSUME EInv, AInv, MCNext, NEW e \in Ends, NEW t \in Threads, Answer(e, t) PROVE AInv'
<1> DEFINE f == Other(e)
<1>1. /\ Types
      /\ at[e][t].op = "answer"
      /\ UNCHANGED <<ext, connected, mq, custom>>
      /\ GoesOn(e, t, "set")
      /\ IF Subscribed(e) THEN Transmit(e, <<State("ReceivedCounterpart")>>)
                          ELSE inbox' = inbox
  BY DEF EInv, Answer, Does, extvars
<1>2. f \in Ends /\ f # e /\ Other(f) = e /\ \A d \in Ends : d = e \/ d = f
  BY TwoEnds
<1>3. /\ at'[e][t].op = "set" /\ at'[e][t].rest = at[e][t].rest
      /\ \A u \in Threads : u # t => at'[e][u] = at[e][u]
      /\ at'[f]["main"] = at[f]["main"] /\ at'[f]["wire"] = at[f]["wire"]
  BY <1>1, <1>2, MovesOn DEF Threads, WireOps, StateOps
<1>4. Subscribed(e) => inbox'[e] = inbox[e]
                       /\ inbox'[f] = inbox[f] \o <<State("ReceivedCounterpart")>>
  <2>1. State("ReceivedCounterpart") \in Messages
    BY Words DEF Kinds, States
  <2>2. <<State("ReceivedCounterpart")>> \in Seq(Messages)
    BY <2>1, StatesOfOne
  <2> QED BY <1>1, <2>2, Transmits
<1> HIDE DEF f
<1>5. Binding(e) /\ Binding(f)
  BY <1>2 DEF AInv, BInv
<1>6. Binding(e)'
  <2>1. CASE t = "main"
    <3>1. at'[e]["main"].op = "set" /\ at'[e]["wire"] = at[e]["wire"] /\ at[e]["main"].op = "answer"
      BY <1>1, <1>3, <2>1 DEF Threads
    <3> QED BY <1>1, <1>5, <3>1 DEF Binding, Does, Closing
  <2>2. CASE t = "wire"
    <3>1. at'[e]["wire"].op = "set" /\ at'[e]["main"] = at[e]["main"] /\ at[e]["wire"].op = "answer"
      BY <1>1, <1>3, <2>2 DEF Threads
    <3> QED BY <1>1, <1>5, <3>1 DEF Binding, Does, StateOps, Closing, Gives
  <2> QED BY <2>1, <2>2 DEF Threads
<1>7. Binding(f)' /\ (InTurn(f) => InTurn(f)')
  BY <1>1, <1>2, <1>3, <1>5, EndStays
<1>8. ASSUME ~disordered'
      PROVE  InTurn(e)' /\ InTurn(f)' /\ Knows(e)' /\ Knows(f)'
  <2>1. InTurn(e) /\ InTurn(f) /\ Knows(e) /\ Knows(f)
    BY <1>2, <1>8, InOrderSoFar DEF NInv
  <2>2. /\ ext[e] \notin {"unbound", "ending"}
        /\ Now(e) = "Ready" /\ Now(e)' = "ReceivedCounterpart" /\ Rest(e)' = Rest(e)
        /\ InTurn(e)'
    <3>1. CASE t = "main"
      <4>1. /\ at'[e]["main"].op = "set" /\ at'[e]["wire"] = at[e]["wire"]
            /\ at[e]["main"].op = "answer" /\ at'[e]["main"].rest = at[e]["main"].rest
        BY <1>1, <1>3, <3>1 DEF Threads
      <4>2. Now(e) = "Ready" /\ Now(e)' = "ReceivedCounterpart" /\ Rest(e)' = Rest(e)
        BY <4>1 DEF Now, Rest, Means, StateOps
      <4>3. ext[e] = "bound" /\ InTurn(e)'
        BY <1>1, <2>1, <4>1 DEF InTurn, Does, Threads, StateOps
      <4> QED BY <4>2, <4>3
    <3>2. CASE t = "wire"
      <4>1. /\ at'[e]["wire"].op = "set" /\ at'[e]["main"] = at[e]["main"]
            /\ at[e]["wire"].op = "answer"
        BY <1>1, <1>3, <3>2 DEF Threads
      <4>2. at[e]["main"].op \notin StateOps
        BY <2>1, <4>1 DEF InTurn, StateOps
      <4>3. Now(e) = "Ready" /\ Now(e)' = "ReceivedCounterpart" /\ Rest(e)' = Rest(e)
        BY <4>1, <4>2 DEF Now, Rest, Means
      <4>4. InTurn(e)'
        BY <1>1, <2>1, <4>1, <4>2 DEF InTurn, Does, Threads, StateOps
      <4>5. ext[e] \notin {"unbound", "ending"}
        BY <1>5, <4>1 DEF Binding, Does, StateOps
      <4> QED BY <4>3, <4>4, <4>5
    <3> QED BY <3>1, <3>2 DEF Threads
  <2>3. inbox'[e] = inbox[e] /\ inbox'[f] = inbox[f] \o <<State("ReceivedCounterpart")>>
    BY <1>4, <2>2 DEF Subscribed
  <2>4. Hears(f, "ReceivedCounterpart")
    <3>1. Now(f)' = Now(f) /\ Rest(f)' = Rest(f)
      BY <1>2, <1>3, NowStays
    <3>2. inbox[f] \in Seq(Messages) /\ "ReceivedCounterpart" \in States
      BY <1>1, <1>2, Queues DEF States
    <3> QED BY <1>1, <1>2, <2>3, <3>1, <3>2, LineHears
  <2>5. Knows(e)'
    <3>1. \A K \in {Up, Down} : Coming(e, K)' <=> Coming(e, K)
      <4>1. \A K \in {Up, Down} : Now(e)' \in K <=> Now(e) \in K
        BY <2>2 DEF Up, Down
      <4> QED BY <1>1, <2>2, <2>3, <4>1 DEF Coming
    <3>2. ~Clear(e) /\ ~Clear(e)'
      BY <2>2 DEF Clear
    <3>3. Unanswered(f) => Unanswered(f)'
      BY <2>4 DEF Hears
    <3>4. Gone(f) => WillNot(e)'
      <4>1. Gone(f) => WillNot(e)
        BY <2>1 DEF Knows, f
      <4> QED BY <3>1, <3>2, <4>1 DEF WillNot
    <3>5. Present(e) /\ Present(f) => WillBe(e)' \/ Unanswered(f)'
      <4>1. Present(e) /\ Present(f) => WillBe(e) \/ Unanswered(f)
        BY <2>1 DEF Knows, f
      <4> QED BY <3>1, <3>2, <3>3, <4>1 DEF WillBe
    <3>6. /\ (Gone(f)' => Gone(f)) /\ (Present(f)' => Present(f)) /\ (Present(e)' => Present(e))
      <4>1. at'[e]["main"].op = "close" => at[e]["main"].op = "close"
        BY <1>3 DEF Threads
      <4> QED BY <1>1, <1>2, <1>3, <4>1, PlaceStays
    <3> QED BY <3>4, <3>5, <3>6 DEF Knows, f
  <2>6. Knows(f)'
    <3>1. WillBe(f)'
      BY <2>4 DEF Hears, WillBe, Up
    <3>2. ~Gone(e)'
      BY <1>1, <2>2 DEF Gone
    <3> QED BY <1>2, <3>1, <3>2 DEF Knows
  <2> QED BY <1>7, <2>1, <2>2, <2>5, <2>6
<1> QED BY <1>2, <1>6, <1>7, <1>8, AInvKept

\* The states that come after the one that a thread is done with.
LEMMA ReturnsAgree ==
    ASSUME EInv, NEW e \in Ends, NEW t \in Threads, Returns(e, t), Binding(e),
           at[e][t].op \in StateOps \ {"answer"},
           ext' = ext, mq' = mq, custom' = custom, Alike(inbox[e], inbox'[e])
    PROVE  /\ \A d \in Ends :
                 d # e => at'[d]["main"] = at[d]["main"] /\ at'[d]["wire"] = at[d]["wire"]
           /\ Binding(e)'
           /\ at'[e]["main"].op = "close" => at[e]["main"].op = "close"
           /\ InTurn(e) => InTurn(e)' /\ Executes(e, Means(at[e][t].op))
<1>1. /\ Types /\ KInv
      /\ FrameInv(e, at[e]["main"], at[e]["wire"])
      /\ "main" \in Threads /\ "wire" \in Threads /\ t \in {"main", "wire"}
  BY DEF EInv, FInv, Threads
<1>2. /\ Means(at[e][t].op) \in States \ {"Ready"}
      /\ Means("idle") = "none"
      /\ \A o : o \notin StateOps => Means(o) = "none"
  BY DEF Means, States, StateOps
<1>3. ASSUME NEW n, InTurn(e), Now(e) = Means(at[e][t].op), Now(e)' = n,
             \/ n = "none" /\ Rest(e) = <<>> /\ Rest(e)' = <<>>
             \/ /\ Rest(e) \in Seq(Messages) /\ Rest(e) # <<>>
                /\ n = Head(Rest(e)).op /\ n \in States /\ Rest(e)' = Tail(Rest(e))
      PROVE  Executes(e, Means(at[e][t].op))
  <2> DEFINE s == Means(at[e][t].op)
  <2>1. /\ Free(inbox[e]) <=> Free(inbox'[e])
        /\ Awaits(inbox[e]) <=> Awaits(inbox'[e])
        /\ \A K \in {Up, Down} : Final(inbox[e], K) <=> Final(inbox'[e], K)
    BY UpAndDown DEF Alike
  <2>2. s # "Ready" /\ s # "none" /\ Now(e) = s
    BY <1>2, <1>3, UpAndDown
  <2>3. ~Clear(e)
    BY <2>2 DEF Clear
  <2> HIDE DEF s
  <2>4. CASE n = "none" /\ Rest(e) = <<>> /\ Rest(e)' = <<>>
    <3>1. \A K \in {Up, Down} : Coming(e, K) => Coming(e, K)' \/ (Clear(e)' /\ s \in K)
      BY <1>3, <2>1, <2>2, <2>4, StatesOfNone DEF Coming, Clear
    <3>2. Unanswered(e)' <=> Unanswered(e)
      BY <1>3, <2>1, <2>2, <2>4 DEF Unanswered
    <3> QED BY <2>3, <3>1, <3>2 DEF Executes, s
  <2>5. CASE /\ Rest(e) \in Seq(Messages) /\ Rest(e) # <<>>
             /\ n = Head(Rest(e)).op /\ n \in States /\ Rest(e)' = Tail(Rest(e))
    <3>1. /\ ~Free(Rest(e))
          /\ Awaits(Rest(e)) <=> n = "Ready" \/ Awaits(Rest(e)')
          /\ \A K \in {Up, Down} :
                Final(Rest(e), K) <=> Final(Rest(e)', K) \/ (Free(Rest(e)') /\ n \in K)
      BY <2>5, StatesOfTail, UpAndDown
    <3>2. \A K \in {Up, Down} : Coming(e, K) => Coming(e, K)'
      BY <1>3, <2>1, <3>1 DEF Coming
    <3>3. Unanswered(e)' <=> Unanswered(e)
      BY <1>3, <2>1, <2>2, <3>1 DEF Unanswered
    <3> QED BY <2>3, <3>2, <3>3 DEF Executes, s
  <2> QED BY <1>3, <2>4, <2>5
<1>4. CASE t = "wire"
  <2>1. Goes(e, "wire", Idle)
    BY <1>1, <1>4 DEF Returns, FrameInv
  <2>2. /\ at'[e]["wire"].op = "idle" /\ at'[e]["main"] = at[e]["main"]
        /\ \A d \in Ends :
              d # e => at'[d]["main"] = at[d]["main"] /\ at'[d]["wire"] = at[d]["wire"]
    BY <1>1, <2>1, Moves, IdleFields DEF Moved
  <2>3. Binding(e)'
    BY <1>4, <2>2 DEF Binding, Does, StateOps, Closing, Gives
  <2>4. ASSUME InTurn(e) PROVE InTurn(e)' /\ Executes(e, Means(at[e][t].op))
    <3>1. at[e]["main"].op \notin StateOps
      BY <1>4, <2>4 DEF InTurn
    <3>2. InTurn(e)'
      BY <2>2, <3>1 DEF InTurn, Does, Threads, StateOps
    <3>3. Now(e) = Means(at[e][t].op) /\ Now(e)' = "none" /\ Rest(e) = <<>> /\ Rest(e)' = <<>>
      BY <1>2, <1>4, <2>2, <3>1 DEF Now, Rest
    <3> QED BY <1>3, <2>4, <3>2, <3>3
  <2> QED BY <2>2, <2>3, <2>4
<1>5. CASE t = "main" /\ at[e]["main"].rest = <<>>
  <2>1. Goes(e, "main", Idle)
    BY <1>5 DEF Returns
  <2>2. /\ at'[e]["main"].op = "idle" /\ at'[e]["wire"] = at[e]["wire"]
        /\ \A d \in Ends :
              d # e => at'[d]["main"] = at[d]["main"] /\ at'[d]["wire"] = at[d]["wire"]
    BY <1>1, <2>1, Moves, IdleFields DEF Moved
  <2>3. Binding(e)'
    BY <1>5, <2>2 DEF Binding, Does, StateOps, Closing, Gives
  <2>4. ASSUME InTurn(e) PROVE InTurn(e)' /\ Executes(e, Means(at[e][t].op))
    <3>1. at[e]["wire"].op \notin StateOps
      BY <1>5, <2>4 DEF InTurn
    <3>2. InTurn(e)'
      BY <2>2, <3>1 DEF InTurn, Does, Threads, StateOps
    <3>3. Now(e) = Means(at[e][t].op) /\ Now(e)' = "none" /\ Rest(e) = <<>> /\ Rest(e)' = <<>>
      BY <1>2, <1>5, <2>2, <3>1 DEF Now, Rest, StateOps
    <3> QED BY <1>3, <2>4, <3>2, <3>3
  <2> QED BY <2>2, <2>3, <2>4
<1>6. CASE t = "main" /\ at[e]["main"].rest # <<>>
  <2> DEFINE r == at[e]["main"].rest
             x == Start(Head(r), Tail(r))
  <2>1. r \in Seq(Messages) /\ Has(r, States) /\ r # <<>>
    BY <1>1, <1>6, Queues, FrameFields DEF FrameInv
  <2>2. /\ Head(r) \in Messages /\ Head(r).op \in States
        /\ Tail(r) \in Seq(Messages)
    BY <2>1, HasTail
  <2>3. x.op \in StateOps \ {"flush"} /\ x.rest = Tail(r) /\ Means(x.op) = Head(r).op
    BY <2>2, StartMeans
  <2>4. Goes(e, "main", x)
    BY <1>6 DEF Returns
  <2> HIDE DEF x
  <2>5. /\ at'[e]["main"] = x /\ at'[e]["wire"] = at[e]["wire"]
        /\ \A d \in Ends :
              d # e => at'[d]["main"] = at[d]["main"] /\ at'[d]["wire"] = at[d]["wire"]
    BY <1>1, <2>4, Moves DEF Moved
  <2>6. Binding(e)'
    BY <1>6, <2>3, <2>5 DEF Binding, Does, StateOps, Closing, Gives
  <2>7. ASSUME InTurn(e) PROVE InTurn(e)' /\ Executes(e, Means(at[e][t].op))
    <3>1. /\ at[e]["wire"].op \notin StateOps
          /\ ext[e] = "bound" /\ mq[e] = <<>>
      BY <1>6, <2>7 DEF InTurn
    <3>2. InTurn(e)'
      BY <2>3, <2>5, <3>1 DEF InTurn, Does, Threads, StateOps
    <3>3. /\ Now(e) = Means(at[e][t].op) /\ Now(e)' = Head(r).op
          /\ Rest(e) = r /\ Rest(e)' = Tail(r)
      BY <1>6, <2>3, <2>5 DEF Now, Rest
    <3> HIDE DEF r
    <3> QED BY <1>3, <2>1, <2>2, <2>7, <3>2, <3>3
  <2>8. at'[e]["main"].op # "close"
    BY <2>3, <2>5 DEF StateOps
  <2> QED BY <2>5, <2>6, <2>7, <2>8
<1> QED BY <1>1, <1>4, <1>5, <1>6

\* When a state was executed the end is connected as it says.
LEMMA ExecutedAgrees ==
    ASSUME EInv, AInv, MCNext, NEW e \in Ends, NEW t \in Threads, Returns(e, t),
           at[e][t].op \in StateOps \ {"answer"}, ext' = ext, mq' = mq, custom' = custom,
           \A d \in Ends : Alike(inbox[d], inbox'[d]),
           \A d \in Ends : d # e => connected'[d] = connected[d],
           InTurn(e) => (connected'[e] <=> Means(at[e][t].op) \in Up)
    PROVE  AInv'
<1> DEFINE f == Other(e)
           s == Means(at[e][t].op)
<1>1. f \in Ends /\ f # e /\ Other(f) = e /\ \A d \in Ends : d = e \/ d = f
  BY TwoEnds
<1>2. Binding(e) /\ Binding(f)
  BY <1>1 DEF AInv, BInv
<1>3. /\ \A d \in Ends :
            d # e => at'[d]["main"] = at[d]["main"] /\ at'[d]["wire"] = at[d]["wire"]
      /\ Binding(e)'
      /\ at'[e]["main"].op = "close" => at[e]["main"].op = "close"
      /\ InTurn(e) => InTurn(e)' /\ Executes(e, s)
  BY <1>2, ReturnsAgree
<1>4. s \in Up <=> s \notin Down
  BY DEF Means, StateOps, Up, Down
<1> HIDE DEF f, s
<1>5. Binding(f)' /\ (InTurn(f) => InTurn(f)') /\ Same(f)
  BY <1>1, <1>2, <1>3, EndStays, NowStays, LineStays
<1>6. \A d \in Ends : (Gone(d)' => Gone(d)) /\ (Present(d)' => Present(d))
  <2>1. \A d \in Ends : at'[d]["main"].op = "close" => at[d]["main"].op = "close"
    BY <1>3
  <2> QED BY <2>1, PlaceStays
<1>7. ASSUME ~disordered'
      PROVE  InTurn(e)' /\ InTurn(f)' /\ Knows(e)' /\ Knows(f)'
  <2>1. InTurn(e) /\ InTurn(f) /\ Knows(e) /\ Knows(f)
    BY <1>1, <1>7, InOrderSoFar DEF NInv
  <2>2. connected'[e] <=> s \in Up
    BY <2>1 DEF s
  <2>3. /\ Coming(e, Up) => Coming(e, Up)' \/ (Clear(e)' /\ s \in Up)
        /\ Coming(e, Down) => Coming(e, Down)' \/ (Clear(e)' /\ s \in Down)
        /\ ~Clear(e)
        /\ Unanswered(e)' <=> Unanswered(e)
    BY <1>3, <2>1 DEF Executes
  <2>4. Knows(e)'
    <3>1. WillNot(e) => WillNot(e)'
      BY <1>4, <2>2, <2>3 DEF WillNot
    <3>2. WillBe(e) => WillBe(e)'
      BY <2>2, <2>3 DEF WillBe
    <3>3. Unanswered(f) => Unanswered(f)'
      BY <1>5 DEF Same
    <3> QED BY <1>1, <1>6, <2>1, <3>1, <3>2, <3>3 DEF Knows, f
  <2>5. Knows(f)'
    <3>1. (WillNot(f) => WillNot(f)') /\ (WillBe(f) => WillBe(f)')
      BY <1>1, <1>5 DEF WillNot, WillBe, Same
    <3> QED BY <1>1, <1>6, <2>1, <2>3, <3>1 DEF Knows
  <2> QED BY <1>3, <1>5, <2>1, <2>4, <2>5
<1> QED BY <1>1, <1>3, <1>5, <1>7, AInvKept

\* The end is connected, ...
LEMMA SetConnectedAgrees ==
    ASSUME EInv, AInv, MCNext, NEW e \in Ends, NEW t \in Threads, SetConnected(e, t)
    PROVE  AInv'
<1>1. /\ Types
      /\ at[e][t].op = "set"
      /\ UNCHANGED <<ext, inbox, mq, custom>>
      /\ connected' = [connected EXCEPT ![e] = TRUE]
      /\ IF connected[e] THEN Returns(e, t) ELSE GoesOn(e, t, "flush")
  BY DEF EInv, SetConnected, Does, wirevars
<1>2. connected'[e] = TRUE /\ \A d \in Ends : d # e => connected'[d] = connected[d]
  BY <1>1 DEF Types
<1>3. at[e][t].op \in StateOps \ {"answer"} /\ Means(at[e][t].op) \in Up
  BY <1>1 DEF StateOps, Means, Up
<1>4. CASE Returns(e, t)
  BY <1>1, <1>2, <1>3, <1>4, ExecutedAgrees, AlikeSelf
<1>5. CASE GoesOn(e, t, "flush")
  <2>1. /\ at'[e][t].op = "flush" /\ at'[e][t].rest = at[e][t].rest
        /\ \A d \in Ends, u \in Threads : d # e \/ u # t => at'[d][u] = at[d][u]
    BY <1>1, <1>5, MovesOn DEF WireOps, StateOps
  <2>2. \A d \in Ends :
            d # e => at'[d]["main"] = at[d]["main"] /\ at'[d]["wire"] = at[d]["wire"]
    BY <2>1 DEF Threads
  <2>3. \A d \in Ends : Binding(d)
    BY DEF AInv, BInv
  <2>4. /\ Now(e)' = Now(e) /\ Rest(e)' = Rest(e)
        /\ Binding(e)'
        /\ InTurn(e) => InTurn(e)'
        /\ Now(e) = "ReceivedCounterpart" \/ at[e]["main"].op \in StateOps
    <3>1. CASE t = "main"
      <4>1. /\ at'[e]["main"].op = "flush" /\ at'[e]["wire"] = at[e]["wire"]
            /\ at[e]["main"].op = "set" /\ at'[e]["main"].rest = at[e]["main"].rest
        BY <1>1, <2>1, <3>1 DEF Threads
      <4>2. Now(e)' = Now(e) /\ Rest(e)' = Rest(e) /\ at[e]["main"].op \in StateOps
        BY <4>1 DEF Now, Rest, Means, StateOps
      <4>3. Binding(e)'
        BY <1>1, <2>3, <4>1 DEF Binding, Does, Closing
      <4>4. InTurn(e) => InTurn(e)'
        BY <1>1, <1>2, <4>1, <4>2 DEF InTurn
      <4> QED BY <4>2, <4>3, <4>4
    <3>2. CASE t = "wire"
      <4>1. /\ at'[e]["wire"].op = "flush" /\ at'[e]["main"] = at[e]["main"]
            /\ at[e]["wire"].op = "set"
        BY <1>1, <2>1, <3>2 DEF Threads
      <4>2. Now(e)' = Now(e) /\ Rest(e)' = Rest(e)
        BY <4>1 DEF Now, Rest, Means
      <4>3. Now(e) = "ReceivedCounterpart" \/ at[e]["main"].op \in StateOps
        BY <4>1 DEF Now, Means
      <4>4. Binding(e)'
        BY <1>1, <2>3, <4>1 DEF Binding, Does, StateOps, Closing, Gives
      <4>5. InTurn(e) => InTurn(e)'
        BY <1>1, <1>2, <4>1 DEF InTurn, StateOps
      <4> QED BY <4>2, <4>3, <4>4, <4>5
    <3> QED BY <3>1, <3>2 DEF Threads
  <2>5. Same(e) /\ \A d \in Ends : d # e => Same(d) /\ Binding(d)' /\ (InTurn(d) => InTurn(d)')
    BY <1>1, <1>2, <2>2, <2>3, <2>4, EndStays, NowStays, LineStays, AlikeSelf
  <2>6. ASSUME ~disordered', NEW d \in Ends PROVE InTurn(d)' /\ Knows(d)'
    <3>1. InTurn(d) /\ InTurn(e) /\ Knows(d)
      BY <2>6, InOrderSoFar DEF NInv
    <3>2. ~Clear(e)
      <4>1. CASE t = "main"
        BY <1>1, <4>1 DEF Clear, Now, Means, StateOps
      <4>2. CASE t = "wire"
        <5>1. at[e]["main"].op \notin StateOps
          BY <1>1, <3>1, <4>2 DEF InTurn, StateOps
        <5> QED BY <2>4, <5>1 DEF Clear
      <4> QED BY <4>1, <4>2 DEF Threads
    <3>3. Same(d) /\ Same(Other(d))
      BY <2>5, TwoEnds
    <3>4. \A c \in Ends : (Gone(c)' => Gone(c)) /\ (Present(c)' => Present(c))
      <4>1. at'[e]["main"].op = "close" => at[e]["main"].op = "close"
        BY <2>1 DEF Threads
      <4> QED BY <1>1, <2>2, <4>1, PlaceStays
    <3>5. Knows(d)'
      <4> USE TwoEnds
      <4>1. CASE d # e
        BY <1>1, <1>2, <3>1, <3>3, <3>4, <4>1, KnowsOn
      <4>2. CASE d = e
        BY <1>1, <3>1, <3>2, <3>3, <3>4, <4>2 DEF Knows, WillBe, WillNot, Same
      <4> QED BY <4>1, <4>2
    <3> QED BY <2>4, <2>5, <3>1, <3>5
  <2> QED BY <2>4, <2>5, <2>6, AInvKept
<1> QED BY <1>1, <1>4, <1>5

\* ... has sent what it kept back, ...
LEMMA FlushAgrees ==
    ASSUME EInv, AInv, MCNext, NEW e \in Ends, NEW t \in Threads, Flush(e, t) PROVE AInv'
<1>1. /\ Types /\ KInv
      /\ at[e][t].op = "flush" /\ Does(e, t, "flush")
      /\ UNCHANGED <<ext, connected, mq, custom>>
      /\ Transmit(e, sendQ[e]) /\ Returns(e, t)
  BY DEF EInv, Flush, Does
<1>2. /\ Other(e) \in Ends /\ \A d \in Ends : d = e \/ d = Other(e)
  BY TwoEnds
<1>3. \A d \in Ends : Alike(inbox[d], inbox'[d])
  <2>1. sendQ[e] \in Seq(Messages) /\ inbox[Other(e)] \in Seq(Messages)
    BY <1>1, <1>2, Queues
  <2>2. /\ Free(sendQ[e]) /\ ~Awaits(sendQ[e])
        /\ \A K \in SUBSET States : ~Final(sendQ[e], K)
    BY <1>1, <2>1, SaidIsFree DEF KInv
  <2>3. inbox'[e] = inbox[e] /\ inbox'[Other(e)] = inbox[Other(e)] \o sendQ[e]
    BY <1>1, <2>1, Transmits
  <2>4. Alike(inbox[Other(e)], inbox[Other(e)] \o sendQ[e])
    BY <2>1, <2>2, AlikeJoin
  <2> QED BY <1>2, <2>3, <2>4, AlikeSelf
<1>4. /\ at[e][t].op \in StateOps \ {"answer"} /\ Means(at[e][t].op) \in Up
      /\ InTurn(e) => connected[e]
  BY <1>1 DEF StateOps, Means, Up, InTurn
<1> QED BY <1>1, <1>3, <1>4, ExecutedAgrees

\* ... or is not connected any more.
LEMMA SetDisconnectedAgrees ==
    ASSUME EInv, AInv, MCNext, NEW e \in Ends, NEW t \in Threads, SetDisconnected(e, t)
    PROVE  AInv'
<1>1. /\ Types
      /\ at[e][t].op = "unset"
      /\ UNCHANGED <<ext, inbox, mq, custom>>
      /\ connected' = [connected EXCEPT ![e] = FALSE]
      /\ Returns(e, t)
  BY DEF EInv, SetDisconnected, Does, wirevars
<1>2. connected'[e] = FALSE /\ \A d \in Ends : d # e => connected'[d] = connected[d]
  BY <1>1 DEF Types
<1>3. at[e][t].op \in StateOps \ {"answer"} /\ Means(at[e][t].op) \notin Up
  BY <1>1 DEF StateOps, Means, Up
<1> QED BY <1>1, <1>2, <1>3, ExecutedAgrees, AlikeSelf

\* The scheduler of an end goes over from one thing that is no state to another, ...
LEMMA MainAgrees ==
    ASSUME Types, AInv, MCNext, UNCHANGED <<ext, connected, mq, custom>>,
           NEW e \in Ends, NEW x, Goes(e, "main", x), x.op \notin Own,
           at[e]["main"].op \notin Own,
           \A d \in Ends : Alike(inbox[d], inbox'[d])
    PROVE  AInv'
<1>1. Moved(e, "main", x)
  BY Moves DEF Threads
<1>2. \A d \in Ends : Aside(d)
  BY <1>1 DEF Moved, Threads, Aside
<1> QED BY <1>2, MembersKeep

\* ... or so does its wire thread, ...
LEMMA WireAgrees ==
    ASSUME Types, AInv, MCNext, UNCHANGED <<ext, connected, mq, custom>>,
           NEW e \in Ends, \A d \in Ends : at'[d]["main"] = at[d]["main"],
           \A d \in Ends : d # e => at'[d]["wire"] = at[d]["wire"],
           at[e]["wire"].op \in {"idle", "end"} \cup Gives,
           at'[e]["wire"].op \in {"idle", "end"} \cup Gives,
           Closing(at'[e]["wire"]) <=> Closing(at[e]["wire"]),
           \A d \in Ends : Alike(inbox[d], inbox'[d])
    PROVE  AInv'
<1>1. \A o \in {"idle", "end"} \cup Gives : o \notin StateOps \cup {"unbind"}
  BY DEF StateOps, Gives
<1>2. \A d \in Ends : Aside(d)
  BY <1>1 DEF Aside
<1> QED BY <1>2, MembersKeep

\* ... or no thread goes over to anything.
LEMMA IdlyAgrees ==
    ASSUME AInv, MCNext, UNCHANGED <<ext, connected, mq, custom, at>>,
           \A d \in Ends : Alike(inbox[d], inbox'[d])
    PROVE  AInv'
BY MembersKeep DEF Aside

\* What a member sends is no state, ...
LEMMA SendAgrees ==
    ASSUME Types, AInv, MCNext, UNCHANGED <<ext, connected, inbox, mq, custom>>,
           NEW e \in Ends, IsIdle(e, "main"), NEW m, NEW next \in {"idle", "wait"},
           Send(e, m, next)
    PROVE  AInv'
<1>1. at[e]["main"].op = "idle" /\ at[e]["main"].op \notin Own
  BY DEF IsIdle, Own, StateOps
<1>2. PICK x : Goes(e, "main", x) /\ x.op \in {"idle", "wait", "send"}
  <2>1. CASE MustWait(e)
    <3> DEFINE y == IF next = "idle" THEN Idle ELSE Doing(next, m, <<>>)
    <3>1. Goes(e, "main", y)
      BY <2>1 DEF Send, Continue
    <3>2. y.op = next
      BY IdleFields DEF Doing
    <3> HIDE DEF y
    <3> QED BY <3>1, <3>2
  <2>2. CASE ~MustWait(e)
    <3> DEFINE y == Doing("send", m, <<State(next)>>)
    <3>1. Goes(e, "main", y)
      BY <2>2 DEF Send
    <3>2. y.op = "send"
      BY DEF Doing
    <3> HIDE DEF y
    <3> QED BY <3>1, <3>2
  <2> QED BY <2>1, <2>2
<1>3. x.op \notin Own
  BY <1>2 DEF Own, StateOps
<1> QED BY <1>1, <1>2, <1>3, MainAgrees, AlikeSelf

\* ... on the wire too, ...
LEMMA SendNowAgrees ==
    ASSUME EInv, AInv, MCNext, NEW e \in Ends, SendNow(e) PROVE AInv'
<1> DEFINE m == at[e]["main"].msg
           n == at[e]["main"].rest[1].op
           x == IF n = "idle" THEN Idle ELSE Doing(n, m, <<>>)
<1>1. /\ Types /\ FrameInv(e, at[e]["main"], at[e]["wire"])
      /\ at[e]["main"].op = "send"
      /\ UNCHANGED <<ext, connected, mq, custom>>
      /\ Transmit(e, <<m>>) /\ Goes(e, "main", x)
  BY DEF EInv, FInv, SendNow, Does, Continue, extvars
<1>2. n \in {"idle", "wait"}
  <2>1. \/ at[e]["main"].rest = <<State("idle")>>
        \/ at[e]["main"].rest = <<State("wait")>>
    BY <1>1 DEF FrameInv
  <2> QED BY <2>1, SMT DEF State
<1>3. x.op \notin Own /\ at[e]["main"].op \notin Own
  <2>1. x.op = n
    BY IdleFields DEF Doing
  <2> HIDE DEF x, n
  <2> QED BY <1>1, <1>2, <2>1 DEF Own, StateOps
<1>4. m \in Messages /\ m.op \in Said(e)
  BY <1>1, Queues, FrameFields DEF FrameInv
<1>5. Other(e) \in Ends /\ \A d \in Ends : d = e \/ d = Other(e)
  BY TwoEnds
<1>6. \A d \in Ends : Alike(inbox[d], inbox'[d])
  <2> DEFINE t == <<m>>
  <2>1. t \in Seq(Messages) /\ Has(t, Said(e)) /\ Transmit(e, t)
    BY <1>1, <1>4, HasOne
  <2> HIDE DEF t
  <2>2. Free(t) /\ ~Awaits(t) /\ \A K \in SUBSET States : ~Final(t, K)
    BY <2>1, SaidIsFree
  <2>3. inbox'[e] = inbox[e] /\ inbox'[Other(e)] = inbox[Other(e)] \o t
    BY <1>1, <2>1, Transmits
  <2>4. Alike(inbox[Other(e)], inbox[Other(e)] \o t)
    BY <1>1, <1>5, <2>1, <2>2, Queues, AlikeJoin
  <2> QED BY <1>5, <2>3, <2>4, AlikeSelf
<1> HIDE DEF x
<1> QED BY <1>1, <1>3, <1>6, MainAgrees

\* ... and when it arrives.
LEMMA ReceiveAgrees ==
    ASSUME EInv, AInv, MCNext, NEW e \in Ends, Receive(e),
           \/ at' = at
           \/ /\ Goes(e, "wire", Doing("give", Head(inbox[e]), <<>>))
              /\ Head(inbox[e]).op \in Calls
    PROVE  AInv'
<1>1. /\ Types /\ KInv
      /\ inbox[e] # <<>> /\ Head(inbox[e]).op \notin States
      /\ inbox' = [inbox EXCEPT ![e] = Tail(@)]
      /\ at[e]["wire"].op = "idle"
      /\ UNCHANGED <<ext, connected, mq, custom>>
  BY DEF EInv, Receive, IsIdle, extvars
<1>2. inbox'[e] = Tail(inbox[e]) /\ \A f \in Ends : f # e => inbox'[f] = inbox[f]
  BY <1>1, InboxTail
<1>3. Alike(inbox[e], Tail(inbox[e]))
  BY <1>1, Queues, AlikeTail
<1>4. \A d \in Ends : Alike(inbox[d], inbox'[d])
  BY <1>2, <1>3, AlikeSelf
<1>5. CASE at' = at
  BY <1>1, <1>4, <1>5, IdlyAgrees
<1>6. ASSUME NEW m, Goes(e, "wire", Doing("give", m, <<>>)), m.op \in Calls PROVE AInv'
  <2>1. Moved(e, "wire", Doing("give", m, <<>>))
    BY <1>1, <1>6, Moves DEF Threads
  <2>2. Doing("give", m, <<>>).op = "give" /\ Doing("give", m, <<>>).msg = m
    BY DEF Doing
  <2>3. /\ \A d \in Ends : at'[d]["main"] = at[d]["main"]
        /\ \A d \in Ends : d # e => at'[d]["wire"] = at[d]["wire"]
        /\ at'[e]["wire"].op = "give" /\ at'[e]["wire"].msg.op \in Calls
    BY <1>6, <2>1, <2>2 DEF Moved, Threads
  <2>4. ~Closing(at[e]["wire"]) /\ ~Closing(at'[e]["wire"])
    BY <1>1, <2>3 DEF Closing, Gives, Calls
  <2> QED BY <1>1, <1>4, <2>3, <2>4, WireAgrees DEF Gives
<1> QED BY <1>5, <1>6

\* A response is not Cancelled.
LEMMA ResponseAgrees ==
    ASSUME EInv, AInv, MCNext, ReceiveResponse PROVE AInv'
<1> DEFINE m == Head(inbox[Client])
<1>1. Receive(Client) /\ (at' = at \/ Goes(Client, "wire", Doing("give", m, <<>>)))
  BY DEF ReceiveResponse
<1>2. Client \in Ends /\ m.op \in Calls
  <2>1. Client \in Ends /\ inbox[Client] # <<>> /\ m.op \notin States
    BY <1>1, TwoEnds DEF Receive
  <2>2. Has(inbox[Client], Said(Other(Client)) \cup States) /\ inbox[Client] \in Seq(Messages)
    BY <2>1, Queues DEF EInv, KInv
  <2>3. m.op \in Said(Other(Client)) \cup States
    BY <2>1, <2>2, HasTail
  <2> HIDE DEF m
  <2> QED BY <2>1, <2>3 DEF Said, Calls
<1> QED BY <1>1, <1>2, ReceiveAgrees

\* The wire thread gives a result, ...
LEMMA SetValueAgrees ==
    ASSUME EInv, AInv, MCNext, SetValue PROVE AInv'
<1>1. /\ Types /\ Client \in Ends /\ at[Client]["wire"].op = "give"
      /\ GoesOn(Client, "wire", "fire")
      /\ UNCHANGED <<ext, connected, inbox, mq, custom>>
  BY TwoEnds DEF EInv, SetValue, Does, extvars, wirevars
<1>2. /\ at'[Client]["wire"].op = "fire"
      /\ at'[Client]["wire"].msg = at[Client]["wire"].msg
      /\ \A f \in Ends, u \in Threads : f # Client \/ u # "wire" => at'[f][u] = at[f][u]
  <2>1. "wire" \in Threads /\ "fire" \in WireOps \cup MainOps
    BY DEF Threads, WireOps, Gives
  <2>2. /\ Becomes(Client, "wire", [at[Client]["wire"] EXCEPT !.op = "fire"])
        /\ at'[Client]["wire"].op = "fire"
        /\ at'[Client]["wire"].msg = at[Client]["wire"].msg
    BY <1>1, <2>1, GoingOn
  <2> QED BY <2>2 DEF Becomes
<1>3. /\ \A d \in Ends : at'[d]["main"] = at[d]["main"]
      /\ \A d \in Ends : d # Client => at'[d]["wire"] = at[d]["wire"]
  BY <1>2 DEF Threads
<1>4. Closing(at'[Client]["wire"]) <=> Closing(at[Client]["wire"])
  BY <1>1, <1>2 DEF Closing, Gives
<1> QED BY <1>1, <1>2, <1>3, <1>4, WireAgrees, AlikeSelf DEF Gives

\* ... fires its change, and returns to the end of the lifetime if it cancelled the
\* task, ...
LEMMA FireChangeAgrees ==
    ASSUME EInv, AInv, MCNext, FireChange PROVE AInv'
<1> DEFINE m == at[Client]["wire"].msg
           x == IF m.op = "Cancelled" THEN Doing("end", Nothing, <<>>) ELSE Idle
<1>1. /\ Types /\ Client \in Ends /\ at[Client]["wire"].op = "fire"
      /\ Goes(Client, "wire", x)
      /\ UNCHANGED <<ext, connected, inbox, mq, custom>>
  BY TwoEnds DEF EInv, FireChange, Does, Halts, extvars, wirevars
<1>2. x.op = IF m.op = "Cancelled" THEN "end" ELSE "idle"
  BY IdleFields DEF Doing
<1> HIDE DEF x
<1>3. Moved(Client, "wire", x)
  BY <1>1, Moves DEF Threads
<1>4. /\ \A d \in Ends : at'[d]["main"] = at[d]["main"]
      /\ \A d \in Ends : d # Client => at'[d]["wire"] = at[d]["wire"]
      /\ at'[Client]["wire"] = x
  BY <1>3 DEF Moved, Threads
<1>5. Closing(x) <=> Closing(at[Client]["wire"])
  BY <1>1, <1>2 DEF Closing, Gives
<1> QED BY <1>1, <1>2, <1>4, <1>5, WireAgrees, AlikeSelf DEF Gives

\* ... where it looks for the next one.
LEMMA TerminateAgrees ==
    ASSUME EInv, AInv, MCNext, Terminate PROVE AInv'
<1>1. /\ Types /\ Client \in Ends /\ at[Client]["wire"].op = "end"
      /\ UNCHANGED <<ext, connected, inbox, mq, custom>>
      /\ \/ \E n \in cancelling :
               Goes(Client, "wire", Doing("give", Response(n, "Cancelled"), <<>>))
         \/ at' = at
  BY TwoEnds DEF EInv, Terminate, Does, extvars, wirevars
<1>2. CASE at' = at
  BY <1>1, <1>2, IdlyAgrees, AlikeSelf
<1>3. ASSUME NEW n, Goes(Client, "wire", Doing("give", Response(n, "Cancelled"), <<>>))
      PROVE  AInv'
  <2> DEFINE x == Doing("give", Response(n, "Cancelled"), <<>>)
  <2>1. x.op = "give" /\ x.msg.op = "Cancelled"
    BY DEF Doing, Response
  <2>2. Moved(Client, "wire", x)
    BY <1>1, <1>3, Moves DEF Threads
  <2> HIDE DEF x
  <2>3. /\ \A d \in Ends : at'[d]["main"] = at[d]["main"]
        /\ \A d \in Ends : d # Client => at'[d]["wire"] = at[d]["wire"]
        /\ at'[Client]["wire"] = x
    BY <2>2 DEF Moved, Threads
  <2>4. Closing(x) /\ Closing(at[Client]["wire"])
    BY <1>1, <2>1 DEF Closing, Gives
  <2> QED BY <1>1, <2>1, <2>3, <2>4, WireAgrees, AlikeSelf DEF Gives
<1> QED BY <1>1, <1>2, <1>3

\* Calls do nothing to the binding of their extension.
LEMMA CallAgrees ==
    ASSUME EInv, AInv, MCNext, StartCall \/ SyncCall \/ SyncRefused PROVE AInv'
<1>1. /\ Types /\ Client \in Ends
      /\ IsIdle(Client, "main") /\ UNCHANGED <<ext, connected, inbox, mq, custom>>
  BY TwoEnds DEF EInv, StartCall, SyncCall, SyncRefused, NewTask, wirevars
<1>2. CASE SyncRefused
  <2>1. at' = at
    BY <1>2 DEF SyncRefused
  <2> QED BY <1>1, <2>1, IdlyAgrees, AlikeSelf
<1>3. CASE StartCall
  <2>1. Send(Client, Request(calls'), "idle")
    BY <1>3 DEF StartCall
  <2> QED BY <1>1, <2>1, SendAgrees
<1>4. CASE SyncCall
  <2>1. Send(Client, Request(calls'), "wait")
    BY <1>4 DEF SyncCall
  <2> QED BY <1>1, <2>1, SendAgrees
<1> QED BY <1>2, <1>3, <1>4

\* Nor do their ends ...
LEMMA EndOfCallAgrees ==
    ASSUME EInv, AInv, MCNext, SyncReturns \/ SyncThrows \/ GiveResult PROVE AInv'
<1>1. /\ Types /\ Client \in Ends
      /\ at[Client]["main"].op \in {"wait", "give"} /\ Goes(Client, "main", Idle)
      /\ UNCHANGED <<ext, connected, inbox, mq, custom>>
  BY TwoEnds
     DEF EInv, SyncReturns, SyncThrows, SyncEnds, GiveResult, Does, Halts, extvars, wirevars
<1>2. /\ at[Client]["main"].op \notin Own
      /\ Idle.op \notin Own
  BY <1>1, IdleFields DEF Own, StateOps
<1> QED BY <1>1, <1>2, MainAgrees, AlikeSelf

\* ... and responses, ...
LEMMA ApplyResponseAgrees ==
    ASSUME EInv, AInv, MCNext, ApplyResponse PROVE AInv'
<1> DEFINE x == Doing("give", Head(queue[Client]), <<>>)
<1>1. /\ Types /\ Client \in Ends
      /\ at[Client]["main"].op = "idle"
      /\ UNCHANGED <<ext, connected, inbox, mq, custom>>
      /\ Goes(Client, "main", x) \/ at' = at
  BY TwoEnds DEF EInv, ApplyResponse, IsIdle, extvars
<1>2. /\ at[Client]["main"].op \notin Own
      /\ x.op \notin Own
  BY <1>1 DEF Own, StateOps, Doing
<1> HIDE DEF x
<1>3. CASE Goes(Client, "main", x)
  BY <1>1, <1>2, <1>3, MainAgrees, AlikeSelf
<1>4. CASE at' = at
  BY <1>1, <1>4, IdlyAgrees, AlikeSelf
<1> QED BY <1>1, <1>3, <1>4

\* ... nor what the endpoint does.
LEMMA ExecuteAgrees ==
    ASSUME EInv, AInv, MCNext, Execute PROVE AInv'
<1>1. /\ Types /\ Server \in Ends /\ IsIdle(Server, "main")
      /\ UNCHANGED <<ext, connected, inbox, mq, custom>>
      /\ \/ \E m : Send(Server, m, "idle")
         \/ at' = at
  BY TwoEnds DEF EInv, Execute
<1>2. CASE \E m : Send(Server, m, "idle")
  BY <1>1, <1>2, SendAgrees
<1>3. CASE at' = at
  BY <1>1, <1>3, IdlyAgrees, AlikeSelf
<1> QED BY <1>1, <1>2, <1>3

\* No state was sent yet.
LEMMA InitAInv == MCInit => AInv
<1> SUFFICES ASSUME MCInit PROVE AInv
  OBVIOUS
<1>1. /\ disordered = FALSE
      /\ \A e \in Ends :
            /\ ext[e] = "unbound" /\ connected[e] = FALSE
            /\ inbox[e] = <<>> /\ mq[e] = <<>> /\ custom[e] = <<>>
            /\ at[e]["main"] = Idle /\ at[e]["wire"] = Idle
  BY DEF MCInit, Init, ExtInit
<1> SUFFICES ASSUME NEW e \in Ends PROVE Binding(e) /\ InTurn(e) /\ Knows(e)
  BY <1>1 DEF AInv, BInv, NInv
<1>2. "idle" \notin StateOps
  BY DEF StateOps
<1>3. Binding(e)
  BY <1>1, <1>2, IdleFields DEF Binding, Does, Closing, Gives
<1>4. InTurn(e)
  BY <1>1, <1>2, IdleFields DEF InTurn, Does, Threads
<1>5. Clear(e)
  <2>1. Now(e) = "none" /\ Rest(e) = <<>>
    BY <1>1, <1>2, IdleFields DEF Now, Rest, Means
  <2> QED BY <1>1, <2>1, StatesOfNone DEF Clear
<1>6. Knows(e)
  BY <1>1, <1>5 DEF Knows, WillNot, Present
<1> QED BY <1>3, <1>4, <1>6

\* A step that changes nothing.
LEMMA StutterAInv == AInv /\ UNCHANGED mcvars => AInv'
<1> SUFFICES ASSUME AInv, UNCHANGED mcvars PROVE AInv'
  OBVIOUS
<1>1. UNCHANGED <<ext, connected, inbox, mq, custom, at, disordered, silent>>
  BY DEF mcvars, vars, evars, extvars, wirevars
<1>2. ASSUME NEW e \in Ends
      PROVE  (Binding(e) => Binding(e)') /\ (InTurn(e) => InTurn(e)') /\ Same(e)
  BY <1>1, EndStays, NowStays, LineStays, AlikeSelf
<1>3. BInv'
  BY <1>2 DEF AInv, BInv
<1>4. ASSUME ~disordered, NEW e \in Ends PROVE InTurn(e)' /\ Knows(e)'
  <2>1. InTurn(e) /\ Knows(e)
    BY <1>4 DEF AInv, NInv
  <2>2. Same(e) /\ Same(Other(e))
    BY <1>2, TwoEnds
  <2>3. \A c \in Ends : (Gone(c)' => Gone(c)) /\ (Present(c)' => Present(c))
    BY <1>1 DEF Gone, Present, Does
  <2> QED BY <1>1, <1>2, <2>1, <2>2, <2>3, KnowsOn, TwoEnds
<1>5. ~disordered => NInv'
  BY <1>4 DEF NInv
<1> QED BY <1>1, <1>3, <1>5 DEF AInv

\* Whatever the extension does by itself.
LEMMA ExtStepAgrees ==
    ASSUME EInv, AInv, MCNext, NEW e \in Ends, ExtStep(e) PROVE AInv'
<1>1. Types
  BY DEF EInv
<1> QED BY <1>1, SendReadyAgrees, AddClosingAgrees, UnsubscribeAgrees, ReceiveStateAgrees,
           RunDeferredAgrees, SendNowAgrees, AnswerAgrees, SetConnectedAgrees, FlushAgrees,
           SetDisconnectedAgrees DEF ExtStep, Threads

\* All steps keep what the ends know.
LEMMA NextAInv == EInv /\ AInv /\ MCNext => AInv'
<1> SUFFICES ASSUME EInv, AInv, MCNext PROVE AInv'
  OBVIOUS
<1>1. Types
  BY DEF EInv
<1>2. CASE \E e \in Ends : AdviseStep(e) \/ EndLifetimeStep(e)
  BY <1>1, <1>2, AdviseAgrees, EndLifetimeAgrees, EndEarlyAgrees DEF AdviseStep, EndLifetimeStep
<1>3. CASE \E e \in Ends : Progress(e)
  <2> SUFFICES ASSUME NEW e \in Ends, Progress(e) PROVE AInv'
    BY <1>3
  <2>1. CASE ExtStep(e)
    BY <2>1, ExtStepAgrees
  <2>2. CASE UnbindStep(e)
    BY <1>1, <2>2, SendDisconnectedAgrees DEF UnbindStep
  <2>3. CASE SyncReturns \/ SyncThrows \/ GiveResult
    BY <2>3, EndOfCallAgrees
  <2>4. CASE ApplyResponse
    BY <2>4, ApplyResponseAgrees
  <2>5. CASE ReceiveRequest
    BY <2>5, ReceiveAgrees, TwoEnds DEF ReceiveRequest
  <2>6. CASE Execute
    BY <2>6, ExecuteAgrees
  <2>7. CASE ReceiveResponse \/ SetValue \/ FireChange \/ Terminate
    BY <2>7, ResponseAgrees, SetValueAgrees, FireChangeAgrees, TerminateAgrees
  <2> QED BY <2>1, <2>2, <2>3, <2>4, <2>5, <2>6, <2>7 DEF Progress
<1>4. CASE StartCall \/ SyncCall \/ SyncRefused
  BY <1>4, CallAgrees
<1> QED BY <1>2, <1>3, <1>4 DEF MCNext, Next

\* AInv holds in every state.
THEOREM AgreementInvariance == MCSpec => []AInv
<1>1. CInv /\ AInv /\ [MCNext]_mcvars => AInv'
  BY NextAInv, StutterAInv DEF CInv
<1> QED BY <1>1, InitAInv, CallInvariance, PTL DEF MCSpec

\* When the states Ready, ReceivedCounterpart and Disconnected that both ends have
\* sent are executed, and none was put out of its order on the way, an end that is
\* bound is connected just if its counterpart is bound, unless the lifetime of the
\* counterpart ended during its init(), where it does not say Disconnected: after
\* any number of bindings of either end, in any interleaving of their threads.
THEOREM EndsAgree == MCSpec => []Agreement
<1>1. CInv /\ AInv => Agreement
  <2> SUFFICES ASSUME CInv, AInv, \A e \in Ends : Quiet(e), ~disordered,
                      NEW e \in Ends, ext[e] = "bound", Other(e) \notin silent
               PROVE  connected[e] <=> ext[Other(e)] = "bound"
    BY DEF Agreement
  <2>1. Types /\ FInv /\ Other(e) \in Ends
    BY TwoEnds DEF CInv, EInv
  <2>2. ASSUME NEW d \in Ends
        PROVE  /\ Clear(d) /\ ~Unanswered(d) /\ \A K \in {Up, Down} : ~Coming(d, K)
               /\ ext[d] \notin {"advised", "dying"}
    <3>1. /\ inbox[d] = <<>> /\ mq[d] = <<>> /\ at[d]["wire"].op = "idle"
          /\ at[d]["main"].op \notin {"bind", "close"} /\ at[d]["main"].op \notin StateOps
      BY DEF Quiet, IsIdle, Does
    <3>2. Binding(d)
      BY DEF AInv, BInv
    <3>3. custom[d] = <<>> /\ ext[d] \notin {"advised", "dying"}
      BY <3>1, <3>2 DEF Binding, Closing, Gives
    <3>4. Now(d) = "none" /\ Rest(d) = <<>>
      BY <3>1 DEF Now, Rest, Means
    <3>5. "none" \notin Up /\ "none" \notin Down
      BY DEF Up, Down
    <3> QED BY <3>1, <3>3, <3>4, <3>5, StatesOfNone DEF Clear, Unanswered, Coming
  <2>3. Knows(e)
    BY DEF AInv, NInv
  <2>4. ext[Other(e)] = "bound" => connected[e]
    BY <2>1, <2>2, <2>3 DEF Knows, WillBe, Present
  <2>5. ext[Other(e)] \in {"unbound", "ending"} => ~connected[e]
    BY <2>2, <2>3 DEF Knows, WillNot, Gone
  <2>6. ext[Other(e)] \in {"unbound", "ending", "bound"}
    BY <2>1, <2>2 DEF Types
  <2> QED BY <2>1, <2>4, <2>5, <2>6 DEF Types
<1> QED BY <1>1, CallInvariance, AgreementInvariance, PTL
=============================================================================
