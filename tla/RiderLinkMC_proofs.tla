-------------------------- MODULE RiderLinkMC_proofs --------------------------
(***************************************************************************)
(* The link is safe for every number of connections and of engine events:  *)
(* a model is replaced only when it is dead and nothing of it is pending,  *)
(* who holds the lock is not disturbed, the loss of a connection unbinds   *)
(* its model, and the client is there when its actions run.                *)
(*                                                                         *)
(* The inductive invariant says who may hold which actions of lifetimes,   *)
(* and what has already ended, and been cleaned up, when the task for a    *)
(* new connection is queued.                                               *)
(***************************************************************************)
EXTENDS RiderLinkMC, SequenceLemmas

\* The actions of the lifetime l, and those that thread t still has to execute.
Acts(l) == Range(actions[l])
Todo(t) == Range(todo[t])

Connections == {Connection(n) : n \in Models}
ModelLifetimes == {ModelLifetime(n) : n \in Models}

\* What a connection does to the model when it ends, and a model to the client.
ModelActs == {Do("unbind"), Do("unsubscribe"), Do("dead")}
ClientActs == {Do("reset"), Do("removeDelegates"), Do("uninitialize")}

\* The work of a thread that ends connections, or lifetimes of models.
ConnectionWork ==
    {End(l) : l \in Connections} \cup {Take(l) : l \in Connections}
        \cup {Detach(View, l) : l \in Connections} \cup ModelActs
ModelWork ==
    {End(l) : l \in ModelLifetimes} \cup {Take(l) : l \in ModelLifetimes}
        \cup {Detach(Client, l) : l \in ModelLifetimes} \cup ClientActs
ViewWork == {Take(View), Detach(Wire, View), Do("endConnection")} \cup ConnectionWork
ClientWork == {Take(Client), Detach(Module, Client), Do("endModel")} \cup ModelWork
ModuleWork ==
    {End(Client), End(View), End(Wire), Take(Wire), End(Module), Take(Module),
     Detach(Module, Wire), Do("join"), Do("stopPool")}

Work == ViewWork \cup ClientWork \cup ModuleWork \cup {End(Eternal)}

\* The operations of a connect task, and of the calls of the client.
Connecting == {"bind", "bound", "init", "advised", "initialized", "alive"}
Serving == {"view", "reset", "delegates", "removal", "use"}

Tasks(ops) ==
    [op : ops, model : 0 .. MaxConnections, lifetime : Connections \cup ModelLifetimes \cup {Eternal},
     locked : BOOLEAN]

Names == {"init", "view", "connect", "dead", "use"}
Waiting ==
    [op : Names, model : 0 .. MaxConnections,
     lifetime : Connections \cup ModelLifetimes \cup {Eternal}, locked : {FALSE}]

LTypes ==
    /\ terminated \subseteq Lifetimes
    /\ actions \in [Lifetimes -> Seq(Work)]
    /\ todo \in [Threads -> Seq(Work)]
    /\ current \in Connections \cup {Eternal} /\ client_current \in ModelLifetimes \cup {Eternal}
    /\ connections \in 0 .. MaxConnections
    /\ wire \in {"none", "down", "next", "set", "handler", "up", "ending", "exit"}
    /\ queue \in Seq(Waiting)
    /\ main \in Tasks({"idle", "dying"} \cup Connecting \cup Serving)
    /\ main.op = "idle" => main = Idle
    /\ {model, subscription, client, delegates} \subseteq 0 .. MaxConnections
    /\ {bound, alive, viewing, closing, raced, orderly} \subseteq BOOLEAN
    /\ events \in 0 .. MaxEvents
    /\ logger \in {"idle", "locked", "firing"}
    /\ game \in {"running", "client", "shutdown", "done"}

\* Which actions a lifetime can hold.
Holders ==
    /\ \A l \in Connections : Acts(l) \subseteq {Detach(View, l)} \cup ModelActs
    /\ \A l \in ModelLifetimes : Acts(l) \subseteq {Detach(Client, l)} \cup ClientActs
    /\ Acts(View) \subseteq {Detach(Wire, View), Do("endConnection")} \cup {End(l) : l \in Connections}
    /\ Acts(Client) \subseteq {Detach(Module, Client), Do("endModel")} \cup {End(l) : l \in ModelLifetimes}
    /\ Acts(Wire) \subseteq {Detach(Module, Wire), Do("join"), End(View)}
    /\ Acts(Module) \subseteq {Do("stopPool"), End(Client), End(Wire)}

\* Which thread executes them: until a view ends, the shutdown does not reach
\* what is below it.
Workers ==
    /\ Todo("wire") \subseteq ConnectionWork \cup {End(Eternal)}
    /\ Todo("main") \subseteq ModelWork \cup {End(Eternal)}
    /\ todo["wire"] # <<>> => wire = "ending"
    /\ todo["main"] # <<>> => main.op = "dying"
    /\ View \notin terminated => Todo("game") \cap ViewWork = {}
    /\ Client \notin terminated => Todo("game") \cap ClientWork = {}
    /\ \A t \in Threads, l \in Lifetimes : Take(l) \in Todo(t) => l \in terminated
    /\ game = "running" => todo["game"] = <<>> /\ View \notin terminated /\ Client \notin terminated

\* The lock is with the scheduler or with the logging thread.
Exclusion ==
    /\ main.op \in Connecting \cup {"dying"} => main.locked
    /\ main.locked => logger = "idle"

\* The modules are initialized and the client's view is called once.
Once ==
    /\ \A i \in 1 .. Len(queue) :
          /\ queue[i].op = "init" => wire = "none"
          /\ queue[i].op = "view" => ~viewing
    /\ \A i, j \in 1 .. Len(queue) :
          queue[i].op = queue[j].op /\ queue[i].op \in {"init", "view"} => i = j

\* What is known of connection n.
IsOver(n) == Connection(n) \in terminated
Cleaned(n) == Acts(Connection(n)) \cap ModelActs = {}

\* Nothing is left to do for any model.
Quiet ==
    /\ \A t \in Threads : Todo(t) \cap ModelActs = {}
    /\ \A n \in Models : Cleaned(n)

\* A task for a new connection is queued, or will be.
Queued == \E i \in 1 .. Len(queue) : queue[i].op = "connect"
Coming == wire \in {"set", "handler"} \/ Queued

\* The connections while the view of `connected' lasts: those before the current
\* one are over and cleaned up.
Sequential ==
    /\ wire = "none" => connections = 0
    /\ wire \in {"next", "set", "handler", "up", "ending"} => connections >= 1
    /\ wire = "handler" => current \in {Connection(connections), Eternal}
    /\ View \notin terminated =>
          /\ \A n \in Models :
                n < connections \/ (n = connections /\ wire \in {"down", "exit"})
                   => IsOver(n) /\ Cleaned(n)
          /\ wire \in {"handler", "up"} => current = Connection(connections)
          /\ wire = "ending" =>
                \/ End(Connection(connections)) \in Todo("wire")
                \/ /\ IsOver(connections)
                   /\ Take(Connection(connections)) \in Todo("wire") \/ Cleaned(connections)

\* Connect tasks come in the order of the connections.
Numbers ==
    /\ model <= connections
    /\ wire \in {"next", "set", "handler"} => model < connections
    /\ main.op \in Connecting => /\ main.model = model /\ model >= 1
                                 /\ main.lifetime \in {Connection(model), Eternal}
    /\ alive \/ bound \/ subscription # 0 => model >= 1
    /\ \A i \in 1 .. Len(queue) : queue[i].op = "connect" =>
          /\ queue[i].model > model /\ queue[i].model <= connections
          /\ wire \in {"next", "set", "handler"} => queue[i].model < connections
          /\ queue[i].lifetime \in {Connection(queue[i].model), Eternal}
          /\ View \notin terminated => queue[i].lifetime # Eternal
    /\ main.op \in Connecting /\ View \notin terminated => main.lifetime # Eternal
    /\ \A i, j \in 1 .. Len(queue) :
          queue[i].op = "connect" /\ queue[j].op = "connect" /\ i < j =>
             queue[i].model < queue[j].model

\* Whatever comes before a connect task belongs to a connection that is over.
Superseded ==
    /\ Coming => /\ Quiet
                 /\ model >= 1 => IsOver(model)
                 /\ main.op \in Connecting => main.lifetime # Eternal
    /\ \A i \in 1 .. Len(queue) :
          queue[i].op = "connect"
             /\ (wire \in {"set", "handler"} \/ \E j \in i + 1 .. Len(queue) : queue[j].op = "connect")
          => IsOver(queue[i].model) /\ queue[i].lifetime # Eternal
    /\ \A i \in 1 .. Len(queue) :
          queue[i].op = "connect" /\ queue[i].lifetime = Eternal => View \in terminated
    /\ \A i, j \in 1 .. Len(queue) : queue[i].op = "dead" /\ queue[j].op = "connect" => i < j
    /\ \A n \in Models : ~Cleaned(n) => n = model
    /\ (\E t \in Threads : Todo(t) \cap ModelActs # {}) => model >= 1 /\ IsOver(model)
    /\ (\E i \in 1 .. Len(queue) : queue[i].op = "dead") => model >= 1 /\ IsOver(model)

\* A model that is alive will die before the next one is made.
Dies ==
    (alive \/ main.op = "alive") /\ main.op # "dying"
        /\ (\A i \in 1 .. Len(queue) : queue[i].op # "dead")
    => /\ ~Queued
       /\ \/ \E t \in Threads : Do("dead") \in Todo(t)
          \/ Do("dead") \in Acts(Connection(model))
          \/ View \in terminated /\ wire \notin {"set", "handler"}

\* What is bound and subscribed will be unbound and erased.
Unbinds ==
    View \notin terminated /\ ~raced =>
        /\ bound => \/ main.op = "bound" \/ Do("unbind") \in Acts(Connection(model))
                    \/ Do("unbind") \in Todo("wire")
        /\ subscription # 0 => \/ main.op = "advised" \/ Do("unsubscribe") \in Acts(Connection(model))
                               \/ Do("unsubscribe") \in Todo("wire")
        /\ main.op \in {"bound", "advised"} => main.lifetime \notin terminated

\* The action a of the lifetime of the client's model will be executed: when the
\* model dies, or while it dies.
Due(a) ==
    IF main.op = "dying"
    THEN \/ a \in Todo("main")
         \/ \E l \in ModelLifetimes :
               a \in Acts(l) /\ (End(l) \in Todo("main") \/ Take(l) \in Todo("main"))
    ELSE client_current # Eternal /\ a \in Acts(client_current)

\* The client exists only while its model is alive.
Serves ==
    /\ main.op \in {"delegates", "removal", "use"} => main.lifetime \in ModelLifetimes \cup {Eternal}
    /\ Client \notin terminated =>
          /\ client # 0 \/ delegates # 0 => alive /\ viewing
          /\ {client, delegates} \subseteq {0, model}
          /\ main.op \in Serving => alive /\ viewing /\ client = 0
          /\ main.op \in {"view", "reset", "delegates"} => delegates = 0
          /\ main.op = "reset" => client_current = ModelLifetime(model)
          /\ main.op \in {"delegates", "removal", "use"} =>
                /\ client_current = ModelLifetime(model) /\ main.lifetime = client_current
                /\ client_current \notin terminated
                /\ Do("reset") \in Acts(client_current)
          /\ client # 0 => Due(Do("reset"))
          /\ delegates # 0 /\ main.op # "removal" => Due(Do("removeDelegates"))
          /\ main.op = "dying" => model >= 1 /\ IsOver(model)

\* Actions of the client are executed before its model dies.
Uses ==
    orderly =>
        /\ Client \notin terminated
        /\ \A i \in 1 .. Len(queue) : queue[i].op = "use" =>
              /\ queue[i].model = delegates /\ delegates # 0
              /\ main.op # "dying"
              /\ \A j \in 1 .. i : queue[j].op # "dead"
        /\ delegates # 0 /\ main.op \notin {"dying", "removal", "use"} => client = delegates

IInv ==
    /\ LTypes /\ Holders /\ Workers /\ Exclusion /\ Once
    /\ Sequential /\ Numbers /\ Superseded
    /\ Dies /\ Unbinds /\ Serves /\ Uses

-----------------------------------------------------------------------------
(* Sequences of actions                                                    *)

\* Actions are executed in reverse order.
LEMMA RangeOfReverse ==
    ASSUME NEW S, NEW s \in Seq(S)
    PROVE  Reverse(s) \in Seq(S) /\ Range(Reverse(s)) = Range(s)
<1> DEFINE n == Len(s)
<1>1. n \in Nat /\ \A i \in 1 .. n : s[i] \in S
  BY LenProperties, ElementOfSeq
<1> DEFINE r == [i \in 1 .. n |-> s[(n - i) + 1]]
<1> HIDE DEF n
<1>2. \A i \in 1 .. n : (n - i) + 1 \in 1 .. n /\ (n - ((n - i) + 1)) + 1 = i
  BY <1>1, SMT
<1>3. r \in [1 .. n -> S]
  BY <1>1, <1>2
<1>4. r \in Seq(S) /\ Len(r) = n
  BY <1>1, <1>3, SeqDef, LenProperties, IsASeq
<1>5. Range(s) = {s[i] : i \in 1 .. n} /\ Range(r) = {r[i] : i \in 1 .. n}
  BY <1>4, RangeEquality DEF n
<1>6. \A i \in 1 .. n : r[i] = s[(n - i) + 1]
  OBVIOUS
<1>7. \A i \in 1 .. n : s[i] = r[(n - i) + 1]
  BY <1>2, <1>6
<1> HIDE DEF r
<1>8. Range(r) = Range(s)
  BY <1>2, <1>5, <1>6, <1>7
<1> QED BY <1>4, <1>8 DEF r, n, Reverse

\* The action of a nested lifetime is erased; the others stay.
LEMMA RangeOfRemoveAt ==
    ASSUME NEW S, NEW s \in Seq(S), NEW i \in 1 .. Len(s)
    PROVE  /\ RemoveAt(s, i) \in Seq(S)
           /\ Range(RemoveAt(s, i)) \subseteq Range(s)
           /\ Range(s) \subseteq Range(RemoveAt(s, i)) \cup {s[i]}
<1> DEFINE n == Len(s)
           a == SubSeq(s, 1, i - 1)
           b == SubSeq(s, i + 1, n)
<1>1. n \in Nat /\ i \in Int /\ i - 1 \in Int /\ i + 1 \in Int /\ n \in Int
  BY LenProperties, SMT
<1>2. \A j \in 1 .. n : s[j] \in S
  BY ElementOfSeq
<1>3. (\A j \in 1 .. i - 1 : j \in 1 .. n) /\ (\A j \in i + 1 .. n : j \in 1 .. n)
  BY <1>1, SMT
<1>4. /\ a \in Seq(S) /\ Len(a) = (IF 1 <= i - 1 THEN (i - 1) - 1 + 1 ELSE 0)
      /\ \A j \in 1 .. (i - 1) - 1 + 1 : a[j] = s[1 + j - 1]
  BY <1>1, <1>2, <1>3, SubSeqProperties DEF n
<1>5. /\ b \in Seq(S) /\ Len(b) = (IF i + 1 <= n THEN n - (i + 1) + 1 ELSE 0)
      /\ \A j \in 1 .. n - (i + 1) + 1 : b[j] = s[(i + 1) + j - 1]
  BY <1>1, <1>2, <1>3, SubSeqProperties DEF n
<1>6. Range(s) = {s[j] : j \in 1 .. n}
  BY RangeEquality
<1> HIDE DEF n, a, b
<1>7. a \o b \in Seq(S) /\ Range(a \o b) = Range(a) \cup Range(b)
  BY <1>4, <1>5, RangeOfConcat
<1>8. /\ Range(a) = {a[j] : j \in 1 .. Len(a)}
       /\ Range(b) = {b[j] : j \in 1 .. Len(b)}
  BY <1>4, <1>5, RangeEquality
<1>9. Len(a) = i - 1 /\ \A j \in 1 .. Len(a) : a[j] = s[j] /\ j \in 1 .. n
  BY <1>1, <1>3, <1>4, SMT DEF n
<1>10. Len(b) = n - i /\ \A j \in 1 .. Len(b) : b[j] = s[i + j] /\ i + j \in 1 .. n
  BY <1>1, <1>5, SMT DEF n
<1>11. ASSUME NEW j \in 1 .. n PROVE s[j] \in Range(a) \cup Range(b) \cup {s[i]}
  <2>1. CASE j < i
    <3>1. j \in 1 .. Len(a)
      BY <1>1, <1>9, <2>1, SMT
    <3> QED BY <1>8, <1>9, <3>1
  <2>2. CASE j > i
    <3>1. j - i \in 1 .. Len(b) /\ i + (j - i) = j
      BY <1>1, <1>10, <2>2, SMT
    <3>2. b[j - i] = s[j]
      BY <1>10, <3>1
    <3> QED BY <1>8, <3>1, <3>2
  <2>3. CASE j = i
    BY <2>3
  <2> QED BY <1>1, <2>1, <2>2, <2>3, SMT
<1>12. Range(a) \subseteq Range(s) /\ Range(b) \subseteq Range(s)
  BY <1>6, <1>9, <1>10, <1>8
<1> QED BY <1>6, <1>7, <1>11, <1>12 DEF RemoveAt, a, b, n

-----------------------------------------------------------------------------
(* Lifetimes and actions                                                   *)

\* The lifetimes of the link, and that those of connections and of models are none of
\* the others.
LEMMA LifetimesAre ==
    /\ Lifetimes = {Module, Wire, View, Client} \cup Connections \cup ModelLifetimes
    /\ Threads = {"wire", "main", "game"}
    /\ Eternal \notin Lifetimes
    /\ MaxConnections \in Nat
    /\ \A l \in Connections : l \in Lifetimes /\ l \notin {Module, Wire, View, Client, Eternal} \cup ModelLifetimes
    /\ \A l \in ModelLifetimes : l \in Lifetimes /\ l \notin {Module, Wire, View, Client, Eternal}
    /\ Module \notin {Wire, View, Client} /\ Wire \notin {View, Client} /\ View # Client
    /\ \A m, n : Connection(m) = Connection(n) => m = n
    /\ \A n \in Models : Connection(n) \in Connections /\ ModelLifetime(n) \in ModelLifetimes
<1>1. /\ Lifetimes = {Module, Wire, View, Client} \cup Connections \cup ModelLifetimes
      /\ Threads = {"wire", "main", "game"}
      /\ Eternal \notin Lifetimes /\ MaxConnections \in Nat
  BY LinkLifetimes, RiderLinkAssumption, LifetimeAssumption DEF Connections, ModelLifetimes
<1>2. /\ \A l \in Connections : l \notin {Module, Wire, View, Client, Eternal} \cup ModelLifetimes
      /\ \A l \in ModelLifetimes : l \notin {Module, Wire, View, Client, Eternal}
  BY DEF Connections, ModelLifetimes, Module, Wire, View, Client, Eternal, Connection, ModelLifetime
<1>3. /\ Module \notin {Wire, View, Client} /\ Wire \notin {View, Client} /\ View # Client
      /\ \A m, n : Connection(m) = Connection(n) => m = n
  BY DEF Module, Wire, View, Client, Connection
<1> QED BY <1>1, <1>2, <1>3 DEF Connections, ModelLifetimes

\* Actions differ by what they do and by the lifetime they do it to.
LEMMA ActionFields ==
    /\ \A x : Do(x).op = x
    /\ \A l : /\ End(l).op = "terminate" /\ End(l).of = l
              /\ Take(l).op = "take" /\ Take(l).of = l
    /\ \A p, l : /\ Detach(p, l).op = "erase"
                 /\ Detach(p, l).of = p /\ Detach(p, l).what = l
BY DEF Do, End, Take, Detach

Ops == {"stopPool", "join", "endConnection", "endModel", "unbind", "unsubscribe",
        "dead", "uninitialize", "removeDelegates", "reset"}

\* What an action is, by its operation.
LEMMA WorkOps ==
    ASSUME NEW a \in Work
    PROVE  /\ a.op \in Ops \cup {"terminate", "take", "erase"}
           /\ a.op \in Ops => a = Do(a.op)
           /\ a.op = "terminate" => a.of \in Lifetimes \cup {Eternal} /\ a = End(a.of)
           /\ a.op = "take" => a.of \in Lifetimes /\ a = Take(a.of)
           /\ a.op = "erase" => /\ a.of \in {Module, Wire, View, Client}
                                /\ a.what \in Lifetimes /\ a = Detach(a.of, a.what)
<1>1. CASE a \in {Do(x) : x \in Ops}
  BY <1>1, ActionFields DEF Ops
<1>2. CASE a \in {End(l) : l \in Lifetimes \cup {Eternal}}
  BY <1>2, ActionFields DEF Ops
<1>3. CASE a \in {Take(l) : l \in Lifetimes}
  BY <1>3, ActionFields DEF Ops
<1>4. CASE a \in {Detach(p, l) : p \in {Module, Wire, View, Client}, l \in Lifetimes}
  BY <1>4, ActionFields DEF Ops
<1>5. a \in {Do(x) : x \in Ops} \cup {End(l) : l \in Lifetimes \cup {Eternal}}
            \cup {Take(l) : l \in Lifetimes}
            \cup {Detach(p, l) : p \in {Module, Wire, View, Client}, l \in Lifetimes}
  BY LifetimesAre DEF Work, ViewWork, ClientWork, ModuleWork, ConnectionWork, ModelWork,
                      ModelActs, ClientActs, Ops
<1> QED BY <1>1, <1>2, <1>3, <1>4, <1>5

\* Who has which work.
LEMMA WorkSets ==
    /\ \A a \in ConnectionWork : a.op \in {"terminate", "take", "erase", "unbind", "unsubscribe", "dead"}
    /\ \A a \in ModelWork :
          a.op \in {"terminate", "take", "erase", "uninitialize", "removeDelegates", "reset"}
    /\ \A a \in ModelActs : a.op \in {"unbind", "unsubscribe", "dead"}
    /\ \A a \in ClientActs : a.op \in {"uninitialize", "removeDelegates", "reset"}
    /\ \A l : End(l) \in ConnectionWork => l \in Connections
    /\ \A l : Take(l) \in ConnectionWork => l \in Connections
    /\ \A l : End(l) \in ModelWork => l \in ModelLifetimes
    /\ \A l : Take(l) \in ModelWork => l \in ModelLifetimes
    /\ \A p, l : Detach(p, l) \in ConnectionWork => p = View
    /\ \A p, l : Detach(p, l) \in ModelWork => p = Client
    /\ {Do("unbind"), Do("unsubscribe"), Do("dead")} = ModelActs
    /\ {Do("reset"), Do("removeDelegates"), Do("uninitialize")} = ClientActs
    /\ ModelActs \subseteq ConnectionWork /\ ConnectionWork \subseteq ViewWork
    /\ ClientActs \subseteq ModelWork /\ ModelWork \subseteq ClientWork
    /\ ViewWork \cup ClientWork \cup ModuleWork \cup {End(Eternal)} = Work
    /\ \A l \in Connections : {End(l), Take(l), Detach(View, l)} \subseteq ConnectionWork
    /\ \A l \in ModelLifetimes : {End(l), Take(l), Detach(Client, l)} \subseteq ModelWork
    /\ {Take(View), Do("endConnection")} \subseteq ViewWork
    /\ {Take(Client), Do("endModel")} \subseteq ClientWork
<1>1. /\ \A a \in ModelActs : a.op \in {"unbind", "unsubscribe", "dead"}
      /\ \A a \in ClientActs : a.op \in {"uninitialize", "removeDelegates", "reset"}
  BY ActionFields DEF ModelActs, ClientActs
<1>2. /\ \A a \in ConnectionWork :
            a.op \in {"terminate", "take", "erase", "unbind", "unsubscribe", "dead"}
      /\ \A l : End(l) \in ConnectionWork => l \in Connections
      /\ \A l : Take(l) \in ConnectionWork => l \in Connections
      /\ \A p, l : Detach(p, l) \in ConnectionWork => p = View
  BY <1>1, ActionFields DEF ConnectionWork
<1>3. /\ \A a \in ModelWork :
            a.op \in {"terminate", "take", "erase", "uninitialize", "removeDelegates", "reset"}
      /\ \A l : End(l) \in ModelWork => l \in ModelLifetimes
      /\ \A l : Take(l) \in ModelWork => l \in ModelLifetimes
      /\ \A p, l : Detach(p, l) \in ModelWork => p = Client
  BY <1>1, ActionFields DEF ModelWork
<1>4. /\ {Do("unbind"), Do("unsubscribe"), Do("dead")} = ModelActs
      /\ {Do("reset"), Do("removeDelegates"), Do("uninitialize")} = ClientActs
      /\ ModelActs \subseteq ConnectionWork /\ ConnectionWork \subseteq ViewWork
      /\ ClientActs \subseteq ModelWork /\ ModelWork \subseteq ClientWork
      /\ ViewWork \cup ClientWork \cup ModuleWork \cup {End(Eternal)} = Work
      /\ \A l \in Connections : {End(l), Take(l), Detach(View, l)} \subseteq ConnectionWork
      /\ \A l \in ModelLifetimes : {End(l), Take(l), Detach(Client, l)} \subseteq ModelWork
      /\ {Take(View), Do("endConnection")} \subseteq ViewWork
      /\ {Take(Client), Do("endModel")} \subseteq ClientWork
  BY DEF ModelActs, ClientActs, ConnectionWork, ModelWork, ViewWork, ClientWork, Work
<1> QED BY <1>1, <1>2, <1>3, <1>4

-----------------------------------------------------------------------------
(* What a thread does to the actions it has to execute                     *)

\* Thread t executes a, which gives it the actions S to execute.
Does(t, a, S) ==
    /\ a \in Work /\ a \in Todo(t) /\ todo[t] # <<>>
    /\ todo' \in [Threads -> Seq(Work)]
    /\ \A u \in Threads : u # t => todo'[u] = todo[u]
    /\ S \subseteq Range(todo'[t]) /\ Range(todo'[t]) \subseteq S \cup Todo(t)
    /\ Todo(t) \subseteq {a} \cup Range(todo'[t])

\* What a thread has left to do after it replaced its first action by those of s, ...
LEMMA Doings ==
    ASSUME LTypes, NEW t \in Threads, Busy(t), NEW s \in Seq(Work),
           todo' = [todo EXCEPT ![t] = s \o Tail(@)]
    PROVE  Does(t, Head(todo[t]), Range(s))
<1>1. todo[t] \in Seq(Work) /\ todo[t] # <<>>
  BY DEF LTypes, Busy
<1>2. /\ Head(todo[t]) \in Work /\ Tail(todo[t]) \in Seq(Work)
      /\ Range(todo[t]) = {Head(todo[t])} \cup Range(Tail(todo[t]))
  BY <1>1, TailIndices, RangeOfTail
<1>3. /\ s \o Tail(todo[t]) \in Seq(Work)
      /\ Range(s \o Tail(todo[t])) = Range(s) \cup Range(Tail(todo[t]))
  <2> DEFINE r == Tail(todo[t])
  <2>1. r \in Seq(Work)
    BY <1>2
  <2> HIDE DEF r
  <2>2. s \o r \in Seq(Work) /\ Range(s \o r) = Range(s) \cup Range(r)
    BY <2>1, RangeOfConcat
  <2> QED BY <2>2 DEF r
<1>4. /\ todo' \in [Threads -> Seq(Work)]
      /\ todo'[t] = s \o Tail(todo[t])
      /\ \A u \in Threads : u # t => todo'[u] = todo[u]
  BY <1>3 DEF LTypes
<1> QED BY <1>1, <1>2, <1>3, <1>4 DEF Does, Todo

\* ... after it is done with its first action, ...
LEMMA Popping ==
    ASSUME LTypes, NEW t \in Threads, Busy(t), Done(t)
    PROVE  Does(t, Head(todo[t]), {})
<1>1. todo[t] \in Seq(Work) /\ todo[t] # <<>>
  BY DEF LTypes, Busy
<1>2. /\ Head(todo[t]) \in Work /\ Tail(todo[t]) \in Seq(Work)
      /\ Range(todo[t]) = {Head(todo[t])} \cup Range(Tail(todo[t]))
  BY <1>1, TailIndices, RangeOfTail
<1>3. /\ todo' \in [Threads -> Seq(Work)]
      /\ todo'[t] = Tail(todo[t])
      /\ \A u \in Threads : u # t => todo'[u] = todo[u]
  BY <1>2 DEF LTypes, Done
<1> QED BY <1>1, <1>2, <1>3 DEF Does, Todo

\* ... and that it has a first action, which is one of its work.
LEMMA FirstAction ==
    ASSUME LTypes, NEW t \in Threads, NEW x, Doing(t, x)
    PROVE  Busy(t) /\ Head(todo[t]) \in Work /\ Head(todo[t]).op = x
<1>1. todo[t] \in Seq(Work) /\ todo[t] # <<>> /\ Head(todo[t]).op = x
  BY DEF LTypes, Busy, Doing
<1> QED BY <1>1, TailIndices DEF Busy

\* An action that concerns no lifetime.
LEMMA DoEffect ==
    ASSUME LTypes, NEW t \in Threads, NEW x \in Ops, Doing(t, x), Done(t)
    PROVE  Does(t, Do(x), {})
BY FirstAction, WorkOps, Popping

\* The actions of the sequential lifetimes.
LEMMA PushEffect ==
    ASSUME LTypes, NEW t \in Threads, NEW x \in Ops, Doing(t, x),
           NEW l \in Lifetimes \cup {Eternal},
           todo' = [todo EXCEPT ![t] = <<End(l)>> \o Tail(@)]
    PROVE  Does(t, Do(x), {End(l)})
<1>1. Busy(t) /\ Head(todo[t]) = Do(x)
  BY FirstAction, WorkOps
<1>2. End(l) \in Work
  BY LifetimesAre DEF Work, ViewWork, ClientWork, ModuleWork, ConnectionWork, ModelWork
<1>3. <<End(l)>> \in Seq(Work) /\ Range(<<End(l)>>) = {End(l)}
  BY <1>2, RangeOfSingle
<1> QED BY <1>1, <1>3, Doings

\* terminate() sets the flag of a lifetime and goes on to take its actions; of the
\* eternal one it does nothing.
LEMMA TerminateEffect ==
    ASSUME LTypes, NEW t \in Threads, Terminate(t)
    PROVE  \/ Does(t, End(Eternal), {}) /\ UNCHANGED terminated
           \/ \E l \in Lifetimes :
                 Does(t, End(l), {Take(l)}) /\ terminated' = terminated \cup {l}
<1> DEFINE l == Head(todo[t]).of
<1>1. /\ Busy(t) /\ Head(todo[t]) \in Work /\ Head(todo[t]) = End(l)
      /\ l \in Lifetimes \cup {Eternal}
  BY FirstAction, WorkOps DEF Terminate
<1>2. CASE l = Eternal
  <2>1. Done(t) /\ UNCHANGED terminated
    BY <1>2 DEF Terminate
  <2> QED BY <1>1, <1>2, <2>1, Popping
<1>3. CASE l # Eternal
  <2>1. /\ terminated' = terminated \cup {l}
        /\ todo' = [todo EXCEPT ![t] = <<Take(l)>> \o Tail(@)]
    BY <1>3 DEF Terminate
  <2>2. Take(l) \in Work /\ l \in Lifetimes
    BY <1>1, <1>3, LifetimesAre
       DEF Work, ViewWork, ClientWork, ModuleWork, ConnectionWork, ModelWork
  <2>3. <<Take(l)>> \in Seq(Work) /\ Range(<<Take(l)>>) = {Take(l)}
    BY <2>2, RangeOfSingle
  <2>4. Does(t, Head(todo[t]), {Take(l)})
    BY <1>1, <2>1, <2>3, Doings
  <2> QED BY <1>1, <2>1, <2>2, <2>4
<1> QED BY <1>2, <1>3

\* The actions of a lifetime go to the thread that terminates it, and the lifetime holds
\* no more.
LEMMA TakeEffect ==
    ASSUME LTypes, NEW t \in Threads, TakeActions(t)
    PROVE  \E l \in Lifetimes :
              /\ Does(t, Take(l), Acts(l))
              /\ actions' = [actions EXCEPT ![l] = <<>>]
              /\ actions' \in [Lifetimes -> Seq(Work)] /\ Range(actions'[l]) = {}
              /\ \A m \in Lifetimes : m # l => actions'[m] = actions[m]
<1> DEFINE l == Head(todo[t]).of
<1>1. /\ Busy(t) /\ Head(todo[t]) \in Work /\ Head(todo[t]) = Take(l)
      /\ l \in Lifetimes
  BY FirstAction, WorkOps DEF TakeActions
<1>2. /\ todo' = [todo EXCEPT ![t] = Reverse(actions[l]) \o Tail(@)]
      /\ actions' = [actions EXCEPT ![l] = <<>>]
  BY DEF TakeActions
<1>3. Reverse(actions[l]) \in Seq(Work) /\ Range(Reverse(actions[l])) = Acts(l)
  <2>1. actions[l] \in Seq(Work)
    BY <1>1 DEF LTypes
  <2> QED BY <2>1, RangeOfReverse DEF Acts
<1>4. Does(t, Head(todo[t]), Acts(l))
  BY <1>1, <1>2, <1>3, Doings
<1> HIDE DEF l
<1>5. /\ actions' \in [Lifetimes -> Seq(Work)] /\ actions'[l] = <<>>
      /\ \A m \in Lifetimes : m # l => actions'[m] = actions[m]
  BY <1>1, <1>2 DEF LTypes
<1> QED BY <1>1, <1>2, <1>4, <1>5, RangeOfNone

\* Erasing takes nothing but the termination of one nested lifetime from its parent.
LEMMA EraseEffect ==
    ASSUME LTypes, NEW t \in Threads, EraseNested(t)
    PROVE  \E p \in {Module, Wire, View, Client}, n \in Lifetimes :
              /\ Does(t, Detach(p, n), {})
              /\ actions' \in [Lifetimes -> Seq(Work)]
              /\ \A m \in Lifetimes : m # p => actions'[m] = actions[m]
              /\ Range(actions'[p]) \subseteq Acts(p)
              /\ Acts(p) \subseteq Range(actions'[p]) \cup {End(n)}
<1> DEFINE d == Head(todo[t])
           p == d.of
           n == d.what
<1>1. /\ Busy(t) /\ d = Detach(p, n)
      /\ p \in {Module, Wire, View, Client} /\ n \in Lifetimes
  BY FirstAction, WorkOps DEF EraseNested
<1>2. /\ Done(t)
      /\ \/ \E i \in DOMAIN actions[p] :
               actions[p][i] = End(n) /\ actions' = [actions EXCEPT ![p] = RemoveAt(@, i)]
         \/ UNCHANGED actions
  BY DEF EraseNested
<1>3. Does(t, Detach(p, n), {})
  BY <1>1, <1>2, Popping
<1> HIDE DEF p, n
<1>4. p \in Lifetimes /\ actions[p] \in Seq(Work)
  BY <1>1, LifetimesAre DEF LTypes
<1>5. ASSUME NEW i \in DOMAIN actions[p], actions[p][i] = End(n),
             actions' = [actions EXCEPT ![p] = RemoveAt(@, i)]
      PROVE  /\ actions' \in [Lifetimes -> Seq(Work)]
             /\ \A m \in Lifetimes : m # p => actions'[m] = actions[m]
             /\ Range(actions'[p]) \subseteq Acts(p)
             /\ Acts(p) \subseteq Range(actions'[p]) \cup {End(n)}
  <2>1. i \in 1 .. Len(actions[p])
    BY <1>4, <1>5, LenProperties
  <2>2. /\ RemoveAt(actions[p], i) \in Seq(Work)
        /\ Range(RemoveAt(actions[p], i)) \subseteq Range(actions[p])
        /\ Range(actions[p]) \subseteq Range(RemoveAt(actions[p], i)) \cup {actions[p][i]}
    BY <1>4, <2>1, RangeOfRemoveAt
  <2>3. /\ actions' \in [Lifetimes -> Seq(Work)]
        /\ actions'[p] = RemoveAt(actions[p], i)
        /\ \A m \in Lifetimes : m # p => actions'[m] = actions[m]
    BY <1>4, <1>5, <2>2 DEF LTypes
  <2> QED BY <1>5, <2>2, <2>3 DEF Acts
<1>6. ASSUME UNCHANGED actions
      PROVE  /\ actions' \in [Lifetimes -> Seq(Work)]
             /\ \A m \in Lifetimes : m # p => actions'[m] = actions[m]
             /\ Range(actions'[p]) \subseteq Acts(p)
             /\ Acts(p) \subseteq Range(actions'[p]) \cup {End(n)}
  BY <1>6 DEF Acts, LTypes
<1>7. /\ actions' \in [Lifetimes -> Seq(Work)]
      /\ \A m \in Lifetimes : m # p => actions'[m] = actions[m]
      /\ Range(actions'[p]) \subseteq Acts(p)
      /\ Acts(p) \subseteq Range(actions'[p]) \cup {End(n)}
  BY <1>2, <1>5, <1>6
<1> QED BY <1>1, <1>3, <1>7

-----------------------------------------------------------------------------
(* The observers                                                           *)

Observed ==
    /\ raced' = (raced \/ LostDuringBind)
    /\ orderly' = (orderly /\ ~LateEvent /\ ~ConstructorThrew /\ Client \notin terminated')

\* raced stays true and orderly false; without a termination no connection is lost to a
\* race.
LEMMA MCFacts ==
    ASSUME LTypes, Observed
    PROVE  /\ raced' \in BOOLEAN /\ orderly' \in BOOLEAN
           /\ raced => raced'
           /\ orderly' => orderly /\ ~LateEvent /\ ~ConstructorThrew /\ Client \notin terminated'
           /\ ~raced' => ~LostDuringBind
           /\ terminated' = terminated => raced' = raced
<1>1. terminated' = terminated => ~LostDuringBind
  BY DEF LostDuringBind
<1>2. raced \in BOOLEAN /\ orderly \in BOOLEAN
  BY DEF LTypes
<1> QED BY <1>1, <1>2 DEF Observed

\* The bound is a number.
LEMMA MaxIsNat == MaxConnections \in Nat
BY RiderLinkAssumption

-----------------------------------------------------------------------------
(* What is added to the actions of lifetimes                               *)

\* add_action adds to one lifetime only, ...
LEMMA AddEffect ==
    ASSUME LTypes, NEW l \in Lifetimes \cup {Eternal}, NEW x \in Ops,
           actions' = Added(l, Do(x))
    PROVE  /\ actions' \in [Lifetimes -> Seq(Work)]
           /\ l # Eternal => Range(actions'[l]) = Acts(l) \cup {Do(x)}
           /\ \A m \in Lifetimes : m # l => actions'[m] = actions[m]
<1>1. Do(x) \in Work
  BY DEF Ops, Work, ViewWork, ClientWork, ModuleWork, ConnectionWork, ModelWork, ModelActs, ClientActs
<1>2. CASE l = Eternal
  BY <1>2 DEF Added, LTypes
<1>3. CASE l # Eternal
  <2>1. l \in Lifetimes /\ actions[l] \in Seq(Work)
    BY <1>3 DEF LTypes
  <2>2. /\ Append(actions[l], Do(x)) \in Seq(Work)
        /\ Range(Append(actions[l], Do(x))) = Range(actions[l]) \cup {Do(x)}
    BY <1>1, <2>1, RangeOfAppend, AppendProperties
  <2>3. actions' = [actions EXCEPT ![l] = Append(@, Do(x))]
    BY <1>3 DEF Added
  <2>4. /\ actions' \in [Lifetimes -> Seq(Work)]
        /\ actions'[l] = Append(actions[l], Do(x))
        /\ \A m \in Lifetimes : m # l => actions'[m] = actions[m]
    BY <2>1, <2>2, <2>3 DEF LTypes
  <2> QED BY <1>3, <2>2, <2>4 DEF Acts
<1> QED BY <1>2, <1>3

\* ... and attach_nested to the parent and to what is nested.
LEMMA AttachEffect ==
    ASSUME LTypes, NEW p \in {View, Client}, NEW l \in Lifetimes, p # l,
           Detach(p, l) \in Work, actions' = Attached(p, l)
    PROVE  /\ actions' \in [Lifetimes -> Seq(Work)]
           /\ Range(actions'[p]) = Acts(p) \cup {End(l)}
           /\ Range(actions'[l]) = {Detach(p, l)}
           /\ \A m \in Lifetimes : m \notin {p, l} => actions'[m] = actions[m]
<1>1. End(l) \in Work
  BY LifetimesAre DEF Work, ViewWork, ClientWork, ModuleWork, ConnectionWork, ModelWork
<1>2. p \in Lifetimes /\ actions[p] \in Seq(Work)
  BY LifetimesAre DEF LTypes
<1>3. /\ Append(actions[p], End(l)) \in Seq(Work)
      /\ Range(Append(actions[p], End(l))) = Range(actions[p]) \cup {End(l)}
  BY <1>1, <1>2, RangeOfAppend, AppendProperties
<1>4. <<Detach(p, l)>> \in Seq(Work) /\ Range(<<Detach(p, l)>>) = {Detach(p, l)}
  BY RangeOfSingle
<1>5. actions' = [actions EXCEPT ![p] = Append(@, End(l)), ![l] = <<Detach(p, l)>>]
  BY DEF Attached
<1>6. /\ actions' \in [Lifetimes -> Seq(Work)]
      /\ actions'[p] = Append(actions[p], End(l)) /\ actions'[l] = <<Detach(p, l)>>
      /\ \A m \in Lifetimes : m \notin {p, l} => actions'[m] = actions[m]
  BY <1>2, <1>3, <1>4, <1>5 DEF LTypes
<1> QED BY <1>3, <1>4, <1>6 DEF Acts

-----------------------------------------------------------------------------
(* The queue and the task of the scheduler                                 *)

\* The queue after its first task was taken, ...
LEMMA QueueTail ==
    ASSUME LTypes, NEW op, Run(op)
    PROVE  /\ main = Idle /\ queue # <<>>
           /\ queue' \in Seq(Waiting) /\ Len(queue) \in Nat /\ Len(queue') = Len(queue) - 1
           /\ 1 \in 1 .. Len(queue) /\ Head(queue) = queue[1] /\ queue[1].op = op
           /\ queue[1] \in Waiting
           /\ \A i \in 1 .. Len(queue') : i + 1 \in 1 .. Len(queue) /\ queue'[i] = queue[i + 1]
<1>1. queue \in Seq(Waiting) /\ queue # <<>> /\ queue' = Tail(queue) /\ main = Idle
      /\ Head(queue).op = op
  BY DEF LTypes, Names, Run
<1> QED BY <1>1, TailIndices

\* ... and after one was put into it.
LEMMA QueueAppend ==
    ASSUME LTypes, NEW e \in Waiting, queue' = Append(queue, e)
    PROVE  /\ queue' \in Seq(Waiting) /\ Len(queue) \in Nat /\ Len(queue') = Len(queue) + 1
           /\ \A i \in 1 .. Len(queue) : queue'[i] = queue[i]
           /\ queue'[Len(queue) + 1] = e
           /\ \A i \in 1 .. Len(queue') : i \in 1 .. Len(queue) \/ i = Len(queue) + 1
<1>1. queue \in Seq(Waiting)
  BY DEF LTypes, Names
<1> QED BY <1>1, AppendIndices

\* A task that waits, ...
LEMMA NewTask ==
    ASSUME NEW op \in Names, NEW n \in 0 .. MaxConnections,
           NEW l \in Connections \cup ModelLifetimes \cup {Eternal}
    PROVE  /\ Task(op, n, l) \in Waiting
           /\ Task(op, n, l).op = op /\ Task(op, n, l).model = n /\ Task(op, n, l).lifetime = l
BY DEF Task, Waiting

\* ... and the scheduler without a task.
LEMMA IdleTask ==
    /\ Idle.op = "idle" /\ Idle.model = 0 /\ Idle.lifetime = Eternal /\ ~Idle.locked
    /\ Idle \in Tasks({"idle", "dying"} \cup Connecting \cup Serving)
<1>1. 0 \in 0 .. MaxConnections
  BY MaxIsNat, SMT
<1> QED BY <1>1 DEF Idle, Task, Tasks

\* A step of a task.
LEMMA Going ==
    ASSUME LTypes, NEW step \in {"dying"} \cup Connecting \cup Serving, Go(step)
    PROVE  /\ main' \in Tasks({"idle", "dying"} \cup Connecting \cup Serving)
           /\ main'.op = step /\ main'.model = main.model /\ main'.lifetime = main.lifetime
           /\ main'.locked = main.locked /\ main'.op # "idle"
BY DEF LTypes, Tasks, Go, Connecting, Serving

-----------------------------------------------------------------------------
(* Who is at work                                                          *)

\* The actions of models are executed by the thread that ends the connection, and
\* those of the client by the scheduler; else a view has ended.
LEMMA AtWork ==
    ASSUME IInv
    PROVE  /\ \A t \in Threads : Todo(t) \cap ModelActs # {} =>
                 (t = "wire" /\ wire = "ending") \/ (t = "game" /\ View \in terminated)
           /\ \A t \in Threads : Todo(t) \cap ClientActs # {} =>
                 (t = "main" /\ main.op = "dying") \/ (t = "game" /\ Client \in terminated)
           /\ wire # "ending" => Todo("wire") = {}
           /\ main.op # "dying" => Todo("main") = {}
<1>1. Workers /\ Threads = {"wire", "main", "game"}
  BY LifetimesAre DEF IInv
<1>2. (wire # "ending" => Todo("wire") = {}) /\ (main.op # "dying" => Todo("main") = {})
  BY <1>1, RangeOfNone DEF Workers, Todo
<1>3. /\ \A a \in ModelActs : a.op \in {"unbind", "unsubscribe", "dead"}
      /\ \A a \in ClientActs : a.op \in {"uninitialize", "removeDelegates", "reset"}
      /\ \A a \in ConnectionWork : a.op \in {"terminate", "take", "erase", "unbind", "unsubscribe", "dead"}
      /\ \A a \in ModelWork :
            a.op \in {"terminate", "take", "erase", "uninitialize", "removeDelegates", "reset"}
      /\ ModelActs \subseteq ViewWork /\ ClientActs \subseteq ClientWork
      /\ End(Eternal).op = "terminate"
  BY WorkSets, ActionFields
<1>4. Todo("main") \cap ModelActs = {} /\ Todo("wire") \cap ClientActs = {}
  BY <1>1, <1>3 DEF Workers
<1> QED BY <1>1, <1>2, <1>3, <1>4 DEF Workers

\* Between two connections nothing is left to do for a model.
LEMMA QuietNow ==
    ASSUME IInv, View \notin terminated, wire \in {"none", "down", "next", "exit"}
    PROVE  Quiet
<1>1. \A t \in Threads : Todo(t) \cap ModelActs = {}
  BY AtWork
<1>2. ASSUME NEW n \in Models PROVE Cleaned(n)
  <2>1. /\ n \in Nat /\ n >= 1 /\ model \in Nat /\ connections \in Nat /\ model <= connections
        /\ wire = "none" => connections = 0
        /\ wire = "next" => model < connections
        /\ n < connections \/ (n = connections /\ wire \in {"down", "exit"}) => Cleaned(n)
        /\ ~Cleaned(n) => n = model
    BY MaxIsNat, SMT DEF IInv, LTypes, Models, Sequential, Numbers, Superseded
  <2> HIDE DEF Cleaned
  <2> QED BY <2>1, SMT
<1> QED BY <1>1, <1>2 DEF Quiet

\* The tasks in the queue.
LEMMA QueueTypes ==
    ASSUME LTypes
    PROVE  /\ Len(queue) \in Nat
           /\ \A i \in 1 .. Len(queue) : queue[i].model \in Nat /\ queue[i] \in Waiting
<1>1. queue \in Seq(Waiting)
  BY DEF LTypes, Names
<1>2. Len(queue) \in Nat /\ \A i \in 1 .. Len(queue) : queue[i] \in Waiting
  BY <1>1, LenProperties, ElementOfSeq
<1>3. \A w \in Waiting : w.model \in 0 .. MaxConnections
  BY DEF Waiting
<1>4. \A n \in 0 .. MaxConnections : n \in Nat
  BY MaxIsNat, SMT
<1> QED BY <1>2, <1>3, <1>4

\* What is due stays due while nothing of the client and of its lifetimes changes.
LEMMA DueStays ==
    ASSUME LTypes, UNCHANGED <<main, client_current>>, todo'["main"] = todo["main"],
           \A l \in ModelLifetimes : actions'[l] = actions[l], NEW a
    PROVE  Due(a) => Due(a)'
<1>1. client_current # Eternal => actions'[client_current] = actions[client_current]
  BY DEF LTypes
<1>2. \A l \in ModelLifetimes : Range(actions'[l]) = Range(actions[l])
  OBVIOUS
<1> QED BY <1>1, <1>2 DEF Due, Acts, Todo

\* No lifetime of a connection or of a model is the eternal one.
LEMMA NeverEternal == \A n : ModelLifetime(n) # Eternal /\ Connection(n) # Eternal
BY DEF ModelLifetime, Connection, Eternal

\* What has nothing to do with the client.
LEMMA ServesStays ==
    ASSUME IInv, UNCHANGED <<client, delegates, alive, viewing, model, main, client_current>>,
           todo'["main"] = todo["main"],
           \A l \in ModelLifetimes : actions'[l] = actions[l],
           terminated \subseteq terminated',
           client_current \in terminated' => client_current \in terminated \/ Client \in terminated'
    PROVE  Serves'
<1>1. \A a : Due(a) => Due(a)'
  BY DueStays DEF IInv
<1>2. client_current # Eternal => actions'[client_current] = actions[client_current]
  BY DEF IInv, LTypes
<1> QED BY <1>1, <1>2, NeverEternal DEF IInv, Serves, IsOver, Acts

\* What brings no work for a model, and no connect task.
LEMMA SupersededStays ==
    ASSUME IInv, UNCHANGED <<queue, model>>,
           main'.op \in Connecting => main.op \in Connecting /\ main'.lifetime = main.lifetime,
           wire' \in {"set", "handler"} => wire \in {"set", "handler"},
           terminated \subseteq terminated',
           \A t \in Threads : Todo(t)' \cap ModelActs \subseteq Todo(t),
           \A n \in Models : Acts(Connection(n))' \cap ModelActs \subseteq Acts(Connection(n))
    PROVE  Superseded'
<1>1. Coming' => Coming
  BY DEF Coming, Queued
<1>2. (Quiet => Quiet') /\ \A n \in Models : Cleaned(n) => Cleaned(n)'
  BY DEF Quiet, Cleaned
<1>3. (\E t \in Threads : Todo(t)' \cap ModelActs # {}) => \E t \in Threads : Todo(t) \cap ModelActs # {}
  OBVIOUS
<1> QED BY <1>1, <1>2, <1>3 DEF IInv, Superseded, IsOver

-----------------------------------------------------------------------------
(* The wire thread                                                         *)

\* A connection is made only when the last one is over and cleaned up.
LEMMA ConnectKeeps ==
    ASSUME IInv, Connect, Observed PROVE IInv'
<1>1. LTypes' /\ Holders' /\ Exclusion' /\ Once'
  BY MCFacts, MaxIsNat, SMT DEF IInv, LTypes, CanAdd, Holders, Acts, Exclusion, Once, Connect,
     ltvars, linkvars, modelvars, clientvars, others
<1>2. Workers'
  BY MCFacts, MaxIsNat, SMT DEF IInv, LTypes, Workers, Acts, Todo, Connect, CanAdd, ltvars,
     linkvars, modelvars, clientvars, others
<1>3. Sequential'
  BY MCFacts, MaxIsNat, SMT DEF IInv, LTypes, Sequential, Acts, Todo, Cleaned, IsOver, Models,
     Connect, CanAdd, ltvars, linkvars, modelvars, clientvars, others
<1>4. Numbers'
  BY MCFacts, MaxIsNat, QueueTypes, SMT DEF IInv, LTypes, Numbers, Connect, CanAdd, ltvars,
     linkvars, modelvars, clientvars, others
<1>5. Superseded'
  BY MCFacts, MaxIsNat, SMT DEF IInv, LTypes, Superseded, Acts, Todo, Coming, Queued, Quiet,
     Cleaned, IsOver, Connect, CanAdd, ltvars, linkvars, modelvars, clientvars, others
<1>6. Dies' /\ Unbinds' /\ Serves' /\ Uses'
  BY MCFacts, MaxIsNat, SMT DEF IInv, LTypes, Dies, Acts, Todo, Queued, Unbinds, Serves, Due,
     IsOver, Uses, Connect, CanAdd, ltvars, linkvars, modelvars, clientvars, others
<1> QED BY <1>1, <1>2, <1>3, <1>4, <1>5, <1>6 DEF IInv

\* The lifetime of a connection is new: nothing was added to it before.
LEMMA NextLifetimeKeeps ==
    ASSUME IInv, NextLifetime, Observed PROVE IInv'
<1> DEFINE c == Connection(connections)
<1>1. connections \in Models /\ c \in Connections /\ c \in Lifetimes /\ Detach(View, c) \in Work
  BY LifetimesAre, WorkSets, MaxIsNat, SMT DEF IInv, LTypes, Sequential, NextLifetime, Models
<1>2. /\ UNCHANGED <<terminated, todo, current, connections, closing, queue, main, modelvars,
                     clientvars, others>>
      /\ wire = "next" /\ raced' = raced /\ raced' \in BOOLEAN
      /\ orderly' \in BOOLEAN
      /\ orderly' => orderly /\ Client \notin terminated
  BY MCFacts DEF IInv, NextLifetime
<1>3. CASE View \in terminated
  <2>1. UNCHANGED actions /\ wire' \in {"up", "down"}
    BY <1>3 DEF NextLifetime, CanAdd
  <2>2. LTypes' /\ Holders' /\ Exclusion' /\ Once' /\ Workers'
    BY <1>2, <1>3, <2>1, SMT DEF IInv, LTypes, Holders, Acts, Exclusion, Once, Workers, Todo, modelvars, clientvars, others
  <2>3. Sequential' /\ Numbers'
    BY <1>2, <1>3, <2>1, SMT DEF IInv, LTypes, Sequential, Numbers, Acts, Todo, IsOver, Cleaned, modelvars, clientvars, others
  <2>4. Superseded'
    BY <1>2, <1>3, <2>1, SMT DEF IInv, LTypes, Superseded, Acts, Todo, Coming, Queued, Quiet, Cleaned, IsOver, modelvars, clientvars, others
  <2>5. Dies' /\ Unbinds' /\ Serves' /\ Uses'
    BY <1>2, <1>3, <2>1, SMT DEF IInv, LTypes, Dies, Acts, Todo, Queued, Unbinds, Serves, Due, IsOver, Uses, modelvars, clientvars, others
  <2> QED BY <2>2, <2>3, <2>4, <2>5 DEF IInv
<1>4. CASE View \notin terminated
  <2>1. actions' = Attached(View, c) /\ wire' = "set"
    BY <1>4 DEF NextLifetime, CanAdd
  <2>2. /\ actions' \in [Lifetimes -> Seq(Work)]
        /\ Range(actions'[View]) = Acts(View) \cup {End(c)}
        /\ Range(actions'[c]) = {Detach(View, c)}
        /\ \A m \in Lifetimes : m \notin {View, c} => actions'[m] = actions[m]
    BY <1>1, <2>1, LifetimesAre, AttachEffect DEF IInv
  <2>3. Quiet
    BY <1>2, <1>4, QuietNow
  <2>4. Detach(View, c) \notin ModelActs
    BY WorkSets, ActionFields
  <2> HIDE DEF c
  <2>5. LTypes' /\ Exclusion' /\ Once'
    BY <1>2, <2>1, <2>2, SMT DEF IInv, LTypes, Exclusion, Once, modelvars, clientvars, others
  <2>6. Holders'
    <3>1. \A l \in Connections : l # c => actions'[l] = actions[l]
      BY <2>2, LifetimesAre
    <3>2. \A l \in ModelLifetimes \cup {Client, Wire, Module} : actions'[l] = actions[l]
      BY <1>1, <2>2, LifetimesAre
    <3> QED BY <1>1, <2>2, <3>1, <3>2 DEF IInv, Holders, Acts
  <2>7. Workers'
    BY <1>2, <2>1, SMT DEF IInv, Workers, Todo, clientvars, others
  <2>8. \A n \in Models : /\ n # connections => actions'[Connection(n)] = actions[Connection(n)]
                         /\ Cleaned(n) /\ Cleaned(n)'
    <3>1. ASSUME NEW n \in Models, n # connections
          PROVE  actions'[Connection(n)] = actions[Connection(n)]
      BY <1>1, <2>2, <3>1, LifetimesAre DEF c
    <3>2. Range(actions'[Connection(connections)]) \cap ModelActs = {}
      BY <2>2, <2>4 DEF c
    <3> QED BY <1>2, <2>3, <3>1, <3>2 DEF Quiet, Cleaned, Acts
  <2>9. Sequential'
    BY <1>1, <1>2, <1>4, <2>1, <2>8, SMT DEF IInv, LTypes, Sequential, Todo, IsOver
  <2>10. Numbers'
    BY <1>2, <2>1, SMT DEF IInv, Numbers, modelvars
  <2>11. \A n \in Models : n < connections => IsOver(n)
    BY <1>4, SMT DEF IInv, Sequential
  <2>12. Superseded'
    <3>1. /\ model \in Nat /\ model < connections /\ (model >= 1 => model \in Models)
          /\ main.op \in Connecting => main.lifetime # Eternal
      BY <1>1, <1>2, <1>4, MaxIsNat, SMT DEF IInv, LTypes, Numbers, Models
    <3>2. \A i \in 1 .. Len(queue) : queue[i].op = "connect" =>
             queue[i].model \in Models /\ queue[i].model < connections /\ queue[i].lifetime # Eternal
      BY <1>1, <1>2, <1>4, <3>1, QueueTypes, MaxIsNat, SMT DEF IInv, LTypes, Numbers, Models
    <3>3. Quiet'
      BY <1>2, <2>3, <2>8 DEF Quiet, Todo
    <3> QED BY <1>2, <2>1, <2>3, <2>8, <2>11, <3>1, <3>2, <3>3, SMT
            DEF IInv, Superseded, Coming, Queued, IsOver, Todo, Quiet, modelvars
  <2>13. Dies' /\ Unbinds'
    <3>1. \A n \in Models : n # connections => Range(actions'[Connection(n)]) = Acts(Connection(n))
      BY <2>8 DEF Acts
    <3>2. model < connections /\ (alive \/ main.op = "alive" \/ bound \/ subscription # 0 => model \in Models)
      BY <1>2, MaxIsNat, SMT DEF IInv, LTypes, Numbers, Models, Connecting
    <3>3. alive \/ main.op = "alive" \/ bound \/ subscription # 0 =>
             Range(actions'[Connection(model)]) = Acts(Connection(model))
      BY <1>1, <3>1, <3>2, SMT DEF IInv, LTypes, Models
    <3> QED BY <1>2, <1>4, <2>1, <3>3, SMT DEF IInv, Dies, Unbinds, Todo, Acts, Queued, modelvars
  <2>14. Serves' /\ Uses'
    <3>1. \A l \in ModelLifetimes : actions'[l] = actions[l]
      BY <1>1, <2>2, LifetimesAre
    <3>2. Serves'
      BY <1>2, <3>1, ServesStays DEF modelvars, clientvars
    <3> QED BY <1>2, <3>2 DEF IInv, Uses, clientvars
  <2> QED BY <2>5, <2>6, <2>7, <2>9, <2>10, <2>12, <2>13, <2>14 DEF IInv
<1> QED BY <1>3, <1>4

\* From here on the task for the connection will come: all before it has been cleaned
\* up.
LEMMA SetCurrentKeeps ==
    ASSUME IInv, SetCurrent, Observed PROVE IInv'
<1>1. LTypes'
  BY MCFacts, MaxIsNat, LifetimesAre, SMT DEF IInv, LTypes, Models, Sequential, SetCurrent,
     ltvars, linkvars, modelvars, clientvars, others
<1>2. Holders' /\ Exclusion' /\ Once'
  BY MCFacts, MaxIsNat, SMT DEF IInv, LTypes, Holders, Acts, Exclusion, Once, SetCurrent, ltvars,
     linkvars, modelvars, clientvars, others
<1>3. Workers' /\ Sequential'
  BY MCFacts, MaxIsNat, SMT DEF IInv, LTypes, Workers, Acts, Todo, Sequential, Cleaned, IsOver,
     SetCurrent, ltvars, linkvars, modelvars, clientvars, others
<1>4. Numbers'
  BY MCFacts, MaxIsNat, SMT DEF IInv, LTypes, Numbers, SetCurrent, ltvars, linkvars, modelvars,
     clientvars, others
<1>5. Superseded'
  BY MCFacts, MaxIsNat, SMT DEF IInv, LTypes, Superseded, Acts, Todo, Coming, Queued, Quiet,
     Cleaned, IsOver, SetCurrent, ltvars, linkvars, modelvars, clientvars, others
<1>6. Dies' /\ Unbinds' /\ Serves' /\ Uses'
  BY MCFacts, MaxIsNat, SMT DEF IInv, LTypes, Dies, Acts, Todo, Queued, Unbinds, Serves, Due,
     IsOver, Uses, SetCurrent, ltvars, linkvars, modelvars, clientvars, others
<1> QED BY <1>1, <1>2, <1>3, <1>4, <1>5, <1>6 DEF IInv

\* The task is the newest one, so each task for a connection before it belongs to one
\* that is over.
LEMMA ConnectedHandlerKeeps ==
    ASSUME IInv, ConnectedHandler, Observed PROVE IInv'
<1> DEFINE e == Task("connect", connections, current)
           n == Len(queue) + 1
<1>1. /\ wire = "handler" /\ wire' = "up" /\ queue' = Append(queue, e)
      /\ UNCHANGED <<ltvars, current, connections, closing, main, modelvars, clientvars, others>>
      /\ raced' = raced /\ raced' \in BOOLEAN /\ orderly' \in BOOLEAN
      /\ orderly' => orderly /\ Client \notin terminated
  BY MCFacts DEF IInv, ConnectedHandler, ltvars
<1>2. /\ connections \in 1 .. MaxConnections /\ connections \in Models
      /\ current \in {Connection(connections), Eternal}
      /\ View \notin terminated => current = Connection(connections)
      /\ current \in Connections \cup {Eternal}
  BY <1>1, MaxIsNat, SMT DEF IInv, LTypes, Sequential, Models
<1>3. /\ e \in Waiting /\ e.op = "connect" /\ e.model = connections /\ e.lifetime = current
  BY <1>2, MaxIsNat, NewTask, SMT DEF Names
<1> HIDE DEF e
<1>4. /\ queue' \in Seq(Waiting) /\ Len(queue) \in Nat /\ Len(queue') = n
      /\ \A i \in 1 .. Len(queue) : queue'[i] = queue[i]
      /\ queue'[n] = e
      /\ \A i \in 1 .. Len(queue') : i \in 1 .. Len(queue) \/ i = n
  BY <1>1, <1>3, QueueAppend DEF IInv
<1>5. n \in 1 .. Len(queue') /\ \A i \in 1 .. Len(queue) : i \in 1 .. Len(queue') /\ i < n
  BY <1>4, SMT
<1> HIDE DEF n
<1>6. LTypes' /\ Holders' /\ Exclusion' /\ Workers'
  <2>1. LTypes'
    BY <1>1, <1>2, <1>4, SMT DEF IInv, LTypes, Names, ltvars, modelvars, clientvars, others
  <2>2. Holders' /\ Exclusion'
    BY <1>1, SMT DEF IInv, Holders, Acts, Exclusion, ltvars, others
  <2>3. Workers'
    BY <1>1, SMT DEF IInv, Workers, Todo, ltvars, others
  <2> QED BY <2>1, <2>2, <2>3
<1>7. Once'
  BY <1>1, <1>3, <1>4, SMT DEF IInv, Once, clientvars
<1>8. Sequential'
  BY <1>1, <1>2, SMT DEF IInv, Sequential, Acts, Todo, Cleaned, IsOver, ltvars
<1>9. Numbers'
  <2>1. connections > model /\ connections \in Nat
    BY <1>1, <1>2, MaxIsNat, SMT DEF IInv, LTypes, Numbers
  <2>2. \A i \in 1 .. Len(queue') : queue'[i].op = "connect" =>
          /\ queue'[i].model > model /\ queue'[i].model <= connections
          /\ queue'[i].lifetime \in {Connection(queue'[i].model), Eternal}
          /\ View \notin terminated => queue'[i].lifetime # Eternal
    BY <1>2, <1>3, <1>4, <2>1, NeverEternal, SMT DEF IInv, Numbers
  <2>3. \A i \in 1 .. Len(queue) : queue[i].op = "connect" => queue[i].model < connections
    BY <1>1 DEF IInv, Numbers
  <2>4. \A i, j \in 1 .. Len(queue') :
          queue'[i].op = "connect" /\ queue'[j].op = "connect" /\ i < j =>
             queue'[i].model < queue'[j].model
    BY <1>3, <1>4, <1>5, <2>3, SMT DEF IInv, Numbers
  <2> QED BY <1>1, <2>2, <2>4 DEF IInv, Numbers, ltvars, modelvars
<1>10. Superseded'
  <2>1. /\ Quiet /\ (model >= 1 => IsOver(model))
        /\ main.op \in Connecting => main.lifetime # Eternal
    BY <1>1 DEF IInv, Superseded, Coming
  <2>2. Quiet' /\ (model >= 1 => IsOver(model)) /\ (model >= 1 => IsOver(model))'
    BY <1>1, <2>1 DEF Quiet, Todo, Cleaned, Acts, IsOver, ltvars, modelvars
  <2>3. \A i \in 1 .. Len(queue) : queue[i].op = "connect" =>
           IsOver(queue[i].model) /\ queue[i].lifetime # Eternal
    BY <1>1 DEF IInv, Superseded
  <2>4. current = Eternal => View \in terminated
    BY <1>2, NeverEternal
  <2>5. \A i \in 1 .. Len(queue') : i + 1 \in Int /\ ~(\E j \in n + 1 .. Len(queue') : TRUE)
    BY <1>4, SMT DEF n
  <2>6. \A i \in 1 .. Len(queue') :
           queue'[i].op = "connect"
              /\ (wire' \in {"set", "handler"} \/ \E j \in i + 1 .. Len(queue') : queue'[j].op = "connect")
           => Connection(queue'[i].model) \in terminated /\ queue'[i].lifetime # Eternal
    BY <1>1, <1>4, <2>3, <2>5, SMT DEF IsOver
  <2>7. \A i \in 1 .. Len(queue') :
          queue'[i].op = "connect" /\ queue'[i].lifetime = Eternal => View \in terminated
    BY <1>3, <1>4, <2>4 DEF IInv, Superseded
  <2>8. \A i, j \in 1 .. Len(queue') : queue'[i].op = "dead" /\ queue'[j].op = "connect" => i < j
    BY <1>3, <1>4, <1>5, SMT DEF IInv, Superseded
  <2>9. (\E i \in 1 .. Len(queue') : queue'[i].op = "dead") => \E i \in 1 .. Len(queue) : queue[i].op = "dead"
    BY <1>3, <1>4
  <2> QED BY <1>1, <2>1, <2>2, <2>6, <2>7, <2>8, <2>9, SMT
          DEF IInv, Superseded, IsOver, Todo, Cleaned, Acts, ltvars, modelvars
<1>11. Dies'
  <2>1. alive \/ main.op = "alive" => Quiet /\ model >= 1 /\ model \in Models
    BY <1>1, MaxIsNat, SMT DEF IInv, LTypes, Superseded, Coming, Numbers, Models, Connecting
  <2>2. Do("dead") \in ModelActs
    BY WorkSets
  <2>3. ASSUME alive \/ main.op = "alive", main.op # "dying"
        PROVE  \E i \in 1 .. Len(queue) : queue[i].op = "dead"
    BY <1>1, <2>1, <2>2, <2>3 DEF IInv, Dies, Quiet, Cleaned
  <2> QED BY <1>1, <1>4, <1>5, <2>3, SMT DEF Dies, modelvars
<1>12. Unbinds' /\ Serves'
  BY <1>1, ServesStays, SMT DEF IInv, Unbinds, Acts, Todo, ltvars, modelvars, clientvars
<1>13. Uses'
  <2>1. ASSUME NEW i \in 1 .. Len(queue'), queue'[i].op = "use"
        PROVE  i \in 1 .. Len(queue) /\ queue[i] = queue'[i] /\ \A j \in 1 .. i : queue'[j] = queue[j]
    BY <1>3, <1>4, <2>1, SMT
  <2> QED BY <1>1, <2>1 DEF IInv, Uses, ltvars, clientvars
<1> QED BY <1>6, <1>7, <1>8, <1>9, <1>10, <1>11, <1>12, <1>13 DEF IInv

\* The thread of the wire has the lifetime of the connection to end, unless the view is
\* ending it.
LEMMA DisconnectKeeps ==
    ASSUME IInv, Disconnect, Observed PROVE IInv'
<1>1. /\ wire = "up"
      /\ UNCHANGED <<terminated, actions, connections, closing, queue, main, modelvars, clientvars,
                     others>>
      /\ raced' = raced /\ raced' \in BOOLEAN /\ orderly' \in BOOLEAN
      /\ orderly' => orderly /\ Client \notin terminated
  BY MCFacts DEF IInv, Disconnect
<1>2. CASE View \in terminated
  <2>1. wire' = "down" /\ UNCHANGED <<current, todo>>
    BY <1>2 DEF Disconnect, CanAdd
  <2>2. LTypes' /\ Holders' /\ Exclusion' /\ Once' /\ Workers'
    BY <1>1, <1>2, <2>1, SMT DEF IInv, LTypes, Holders, Acts, Exclusion, Once, Workers, Todo, modelvars, clientvars, others
  <2>3. Sequential' /\ Numbers'
    BY <1>1, <1>2, <2>1, SMT DEF IInv, LTypes, Sequential, Numbers, Acts, Todo, IsOver, Cleaned, modelvars, clientvars, others
  <2>4. Superseded'
    BY <1>1, <2>1, SupersededStays DEF Acts, Todo, modelvars
  <2>5. Dies' /\ Unbinds' /\ Serves' /\ Uses'
    BY <1>1, <1>2, <2>1, SMT DEF IInv, LTypes, Dies, Acts, Todo, Queued, Unbinds, Serves, Due, IsOver, Uses, modelvars, clientvars, others
  <2> QED BY <2>2, <2>3, <2>4, <2>5 DEF IInv
<1>3. CASE View \notin terminated
  <2> DEFINE c == Connection(connections)
  <2>1. /\ current = c /\ c \in Connections /\ current' = Eternal /\ wire' = "ending"
        /\ todo' = [todo EXCEPT !["wire"] = <<End(c)>>]
    BY <1>1, <1>3, NeverEternal, SMT DEF IInv, LTypes, Sequential, Disconnect, CanAdd
  <2>2. /\ End(c) \in Work /\ End(c) \in ConnectionWork /\ End(c) \notin ModelActs
        /\ \A l : Take(l) # End(c)
    BY <2>1, WorkSets, ActionFields
  <2> HIDE DEF c
  <2>3. <<End(c)>> \in Seq(Work) /\ Range(<<End(c)>>) = {End(c)}
    BY <2>2, RangeOfSingle
  <2>4. /\ todo' \in [Threads -> Seq(Work)] /\ Range(todo'["wire"]) = {End(c)}
        /\ todo'["main"] = todo["main"] /\ todo'["game"] = todo["game"]
    BY <2>1, <2>3, LifetimesAre DEF IInv, LTypes
  <2>5. Todo("wire") = {}
    BY <1>1, AtWork
  <2>6. Threads = {"wire", "main", "game"}
    BY LifetimesAre
  <2>7. LTypes' /\ Holders' /\ Exclusion' /\ Once'
    BY <1>1, <2>1, <2>4, SMT DEF IInv, LTypes, Holders, Acts, Exclusion, Once, modelvars, clientvars, others
  <2>8. Workers'
    BY <1>1, <2>1, <2>2, <2>4, <2>6, SMT DEF IInv, Workers, Todo, others
  <2>9. Sequential' /\ Numbers'
    BY <1>1, <1>3, <2>1, <2>4, SMT DEF IInv, Sequential, Numbers, Acts, Todo, Cleaned, IsOver, modelvars, c
  <2>10. \A t \in Threads : Todo(t)' \cap ModelActs \subseteq Todo(t) \cap ModelActs
    BY <2>2, <2>4, <2>6 DEF Todo
  <2>11. Superseded'
    BY <1>1, <2>1, <2>10, SupersededStays DEF Acts, modelvars
  <2>12. Dies' /\ Unbinds'
    BY <1>1, <1>3, <2>1, <2>4, <2>5, <2>6, SMT DEF IInv, Dies, Queued, Unbinds, Acts, Todo, modelvars
  <2>13. Serves' /\ Uses'
    <3>1. Serves'
      BY <1>1, <2>4, ServesStays DEF modelvars, clientvars
    <3> QED BY <1>1, <3>1 DEF IInv, Uses, clientvars
  <2> QED BY <2>7, <2>8, <2>9, <2>11, <2>12, <2>13 DEF IInv
<1> QED BY <1>2, <1>3

\* The wire is down only when the lifetime has ended and its actions were executed.
LEMMA DisconnectedKeeps ==
    ASSUME IInv, Disconnected, Observed PROVE IInv'
<1>1. /\ wire = "ending" /\ wire' = "down" /\ todo["wire"] = <<>> /\ Todo("wire") = {}
      /\ UNCHANGED <<ltvars, current, connections, closing, queue, main, modelvars, clientvars, others>>
      /\ raced' = raced /\ raced' \in BOOLEAN /\ orderly' \in BOOLEAN
      /\ orderly' => orderly /\ Client \notin terminated
  BY MCFacts, RangeOfNone DEF IInv, Disconnected, ltvars, Busy, Todo
<1>2. LTypes' /\ Holders' /\ Exclusion' /\ Once' /\ Workers'
  BY <1>1, SMT DEF IInv, LTypes, Holders, Acts, Exclusion, Once, Workers, Todo, ltvars, modelvars, clientvars, others
<1>3. Sequential' /\ Numbers'
  BY <1>1, SMT DEF IInv, Sequential, Numbers, Acts, Todo, Cleaned, IsOver, ltvars, modelvars
<1>4. Superseded'
  BY <1>1, SupersededStays DEF Acts, Todo, ltvars, modelvars
<1>5. Dies' /\ Unbinds' /\ Uses'
  BY <1>1, SMT DEF IInv, Dies, Queued, Unbinds, Acts, Todo, Uses, ltvars, modelvars, clientvars
<1>6. Serves'
  BY <1>1, ServesStays DEF ltvars, modelvars, clientvars
<1> QED BY <1>2, <1>3, <1>4, <1>5, <1>6 DEF IInv

\* The end of the thread of the wire changes nothing for the model.
LEMMA WireThreadEndsKeeps ==
    ASSUME IInv, WireThreadEnds, Observed PROVE IInv'
<1>1. LTypes' /\ Holders' /\ Exclusion' /\ Once'
  BY MCFacts, MaxIsNat, SMT DEF IInv, LTypes, Holders, Acts, Exclusion, Once, WireThreadEnds,
     ltvars, linkvars, modelvars, clientvars, others
<1>2. Workers' /\ Sequential'
  BY MCFacts, MaxIsNat, SMT DEF IInv, LTypes, Workers, Acts, Todo, Sequential, Cleaned, IsOver,
     WireThreadEnds, ltvars, linkvars, modelvars, clientvars, others
<1>3. Numbers'
  BY MCFacts, MaxIsNat, SMT DEF IInv, LTypes, Numbers, WireThreadEnds, ltvars, linkvars,
     modelvars, clientvars, others
<1>4. Superseded'
  BY MCFacts, MaxIsNat, SMT DEF IInv, LTypes, Superseded, Acts, Todo, Coming, Queued, Quiet,
     Cleaned, IsOver, WireThreadEnds, ltvars, linkvars, modelvars, clientvars, others
<1>5. Dies' /\ Unbinds' /\ Serves' /\ Uses'
  BY MCFacts, MaxIsNat, SMT DEF IInv, LTypes, Dies, Acts, Todo, Queued, Unbinds, Serves, Due,
     IsOver, Uses, WireThreadEnds, ltvars, linkvars, modelvars, clientvars, others
<1> QED BY <1>1, <1>2, <1>3, <1>4, <1>5 DEF IInv

-----------------------------------------------------------------------------
(* The tasks of the scheduler                                              *)

\* What a step of the scheduler leaves as it is.
LEMMA Calm ==
    ASSUME IInv, Observed, UNCHANGED terminated
    PROVE  /\ raced' = raced /\ raced' \in BOOLEAN /\ orderly' \in BOOLEAN
           /\ orderly' => orderly /\ Client \notin terminated
BY MCFacts DEF IInv

\* The end of a task.
LEMMA Ends ==
    ASSUME TaskEnds
    PROVE  /\ main' = Idle /\ main'.op = "idle" /\ ~main'.locked
           /\ main' \in Tasks({"idle", "dying"} \cup Connecting \cup Serving)
BY IdleTask DEF TaskEnds

\* A task ends with an exception.
LEMMA FailsKeeps ==
    ASSUME IInv, Observed, main.op \in Connecting \cup Serving, TaskEnds,
           UNCHANGED <<ltvars, linkvars, queue, modelvars, clientvars, others>>,
           main.op \in {"bound", "advised"} => main.lifetime \in terminated,
           main.op \in {"removal", "use"} => Client \in terminated
    PROVE  IInv'
<1>1. /\ main' = Idle /\ main'.op = "idle" /\ ~main'.locked
      /\ main' \in Tasks({"idle", "dying"} \cup Connecting \cup Serving)
      /\ main.op # "idle" /\ main.op # "dying"
      /\ "idle" \notin Connecting \cup Serving
  BY Ends DEF Connecting, Serving
<1>2. /\ raced' = raced /\ raced' \in BOOLEAN /\ orderly' \in BOOLEAN
      /\ orderly' => orderly /\ Client \notin terminated
  BY Calm DEF ltvars
<1>3. LTypes' /\ Holders' /\ Exclusion' /\ Once'
  BY <1>1, <1>2, SMT DEF IInv, LTypes, Holders, Acts, Exclusion, Once, ltvars, linkvars, modelvars, clientvars, others
<1>4. Workers' /\ Sequential'
  BY <1>1, SMT DEF IInv, Workers, Sequential, Acts, Todo, Cleaned, IsOver, ltvars, linkvars, others
<1>5. Numbers'
  BY <1>1, SMT DEF IInv, Numbers, ltvars, linkvars, modelvars
<1>6. Superseded'
  BY <1>1, SupersededStays DEF Acts, Todo, ltvars, linkvars, modelvars
<1>7. Dies' /\ Unbinds'
  BY <1>1, <1>2, SMT DEF IInv, Dies, Queued, Unbinds, Acts, Todo, ltvars, linkvars, modelvars
<1>8. Serves' /\ Uses'
  BY <1>1, <1>2, SMT DEF IInv, Serves, Due, Uses, Acts, Todo, IsOver, Serving, ltvars, modelvars, clientvars
<1> QED BY <1>3, <1>4, <1>5, <1>6, <1>7, <1>8 DEF IInv

\* The connection lasts, and what is to be done at its end is added.
LEMMA AddsWork ==
    ASSUME IInv, Observed, main.op \in {"bound", "advised", "initialized"}, ~Ended,
           NEW x \in {"unbind", "unsubscribe", "dead"}, AddToLifetime(x),
           NEW step \in {"init", "initialized", "alive"}, Go(step),
           UNCHANGED <<terminated, todo, linkvars, queue, modelvars, clientvars, others>>
    PROVE  /\ LTypes' /\ Holders' /\ Workers' /\ Exclusion' /\ Once'
           /\ Sequential' /\ Numbers' /\ Superseded' /\ Serves' /\ Uses'
           /\ raced' = raced
           /\ ~Coming
           /\ \/ main.lifetime = Eternal /\ UNCHANGED actions /\ View \in terminated
              \/ /\ main.lifetime = Connection(model) /\ Connection(model) \notin terminated
                 /\ Acts(Connection(model))' = Acts(Connection(model)) \cup {Do(x)}
<1>1. /\ main' \in Tasks({"idle", "dying"} \cup Connecting \cup Serving)
      /\ main'.op = step /\ main'.model = main.model /\ main'.lifetime = main.lifetime
      /\ main'.locked = main.locked /\ main'.op # "idle"
      /\ step \in Connecting /\ main.op \in Connecting
      /\ step \notin Serving \cup {"dying"} /\ main.op \notin Serving \cup {"dying"}
  BY Going DEF IInv, Connecting, Serving
<1>2. /\ raced' = raced /\ raced' \in BOOLEAN /\ orderly' \in BOOLEAN
      /\ orderly' => orderly /\ Client \notin terminated
  BY Calm
<1>3. /\ main.model = model /\ model >= 1 /\ model \in Models /\ model <= connections
      /\ main.lifetime \in {Connection(model), Eternal} /\ main.lifetime \notin terminated
      /\ View \notin terminated => main.lifetime # Eternal
      /\ Connection(model) \in Connections /\ Connection(model) \in Lifetimes
      /\ connections \in Nat
  BY <1>1, MaxIsNat, LifetimesAre, SMT DEF IInv, LTypes, Numbers, Models, Ended, CanAdd
<1>4. x \in Ops /\ Do(x) \in ModelActs /\ Do(x) \notin ClientActs
  BY WorkSets, ActionFields DEF Ops, ModelActs
<1>5. /\ actions' \in [Lifetimes -> Seq(Work)]
      /\ main.lifetime # Eternal => Range(actions'[main.lifetime]) = Acts(main.lifetime) \cup {Do(x)}
      /\ \A m \in Lifetimes : m # main.lifetime => actions'[m] = actions[m]
  <2>1. actions' = Added(main.lifetime, Do(x)) /\ main.lifetime \in Lifetimes \cup {Eternal}
    BY <1>3 DEF AddToLifetime
  <2> QED BY <1>4, <2>1, AddEffect DEF IInv
<1>6. main.lifetime = Eternal => UNCHANGED actions
  BY DEF AddToLifetime, Added
<1>7. ~Coming
  BY <1>1, <1>3 DEF IInv, Superseded, IsOver
<1>8. /\ \A l \in Connections : l # Connection(model) => actions'[l] = actions[l]
      /\ \A l \in ModelLifetimes \cup {View, Client, Wire, Module} : actions'[l] = actions[l]
      /\ Range(actions'[Connection(model)]) \subseteq Acts(Connection(model)) \cup {Do(x)}
  <2>1. CASE main.lifetime = Eternal
    BY <1>6, <2>1 DEF Acts
  <2>2. CASE main.lifetime = Connection(model)
    BY <1>3, <1>5, <2>2, LifetimesAre, NeverEternal
  <2> QED BY <1>3, <2>1, <2>2
<1>9. LTypes' /\ Exclusion' /\ Once'
  BY <1>1, <1>2, <1>5, SMT DEF IInv, LTypes, Exclusion, Once, linkvars, modelvars, clientvars, others
<1>10. Holders'
  <2>1. \A l \in Connections : Range(actions'[l]) \subseteq Acts(l) \cup ModelActs
    BY <1>4, <1>8 DEF Acts
  <2> QED BY <1>8, <2>1 DEF IInv, Holders, Acts
<1>11. Workers'
  BY <1>1, SMT DEF IInv, Workers, Todo, linkvars, others
<1>12. \A n \in Models : n # model => actions'[Connection(n)] = actions[Connection(n)]
  BY <1>8, LifetimesAre
<1>13. Sequential'
  <2>1. wire = "ending" /\ connections # model =>
           actions'[Connection(connections)] = actions[Connection(connections)]
    BY <1>12, MaxIsNat, SMT DEF IInv, LTypes, Sequential, Models
  <2> QED BY <1>3, <1>12, <2>1, SMT DEF IInv, Sequential, Cleaned, IsOver, Acts, Todo, linkvars
<1>14. Numbers'
  BY <1>1, SMT DEF IInv, Numbers, linkvars, modelvars
<1>15. Superseded'
  <2>1. ~Coming'
    BY <1>7 DEF Coming, Queued, linkvars
  <2>2. ~Queued /\ wire \notin {"set", "handler"}
    BY <1>7 DEF Coming
  <2>3. \A n \in Models : ~Cleaned(n)' => n = model
    BY <1>12 DEF IInv, Superseded, Cleaned, Acts
  <2> QED BY <2>1, <2>2, <2>3 DEF IInv, Superseded, Queued, IsOver, Todo, linkvars, modelvars
<1>16. Serves' /\ Uses'
  <2>1. \A l \in ModelLifetimes : Acts(l)' = Acts(l)
    BY <1>8 DEF Acts
  <2>2. client_current # Eternal => Acts(client_current)' = Acts(client_current)
    BY <1>8 DEF IInv, LTypes, Acts, clientvars
  <2> QED BY <1>1, <1>2, <2>1, <2>2, SMT
          DEF IInv, Serves, Due, Uses, Serving, Todo, IsOver, modelvars, clientvars
<1>17. \/ main.lifetime = Eternal /\ UNCHANGED actions /\ View \in terminated
       \/ /\ main.lifetime = Connection(model) /\ Connection(model) \notin terminated
          /\ Acts(Connection(model))' = Acts(Connection(model)) \cup {Do(x)}
  BY <1>3, <1>5, <1>6, NeverEternal DEF Acts, modelvars
<1> QED BY <1>2, <1>7, <1>9, <1>10, <1>11, <1>13, <1>14, <1>15, <1>16, <1>17

\* What was bound gets the action that unbinds it, or a connection was lost to a race.
LEMMA BindClosingKeeps == ASSUME IInv, Observed, BindClosing PROVE IInv'
<1>1. /\ main.op = "bound" /\ main.op \in Connecting
      /\ UNCHANGED <<terminated, todo, linkvars, queue, modelvars, clientvars, others>>
  BY DEF BindClosing, At, Connecting
<1>2. CASE Ended
  <2>1. TaskEnds /\ UNCHANGED actions /\ main.lifetime \in terminated
    BY <1>2 DEF BindClosing, Ended, CanAdd
  <2> QED BY <1>1, <2>1, FailsKeeps DEF ltvars
<1>3. CASE ~Ended
  <2> DEFINE c == Connection(model)
  <2>1. Go("init") /\ AddToLifetime("unbind")
    BY <1>3 DEF BindClosing
  <2>2. /\ LTypes' /\ Holders' /\ Workers' /\ Exclusion' /\ Once'
        /\ Sequential' /\ Numbers' /\ Superseded' /\ Serves' /\ Uses'
        /\ raced' = raced
        /\ \/ main.lifetime = Eternal /\ UNCHANGED actions /\ View \in terminated
           \/ Acts(c)' = Acts(c) \cup {Do("unbind")}
    BY <1>1, <1>3, <2>1, AddsWork
  <2>3. main'.op = "init"
    BY <2>1, Going DEF IInv, Connecting
  <2>4. Acts(c) \subseteq Acts(c)'
    BY <1>1, <2>2 DEF Acts, modelvars
  <2> HIDE DEF c
  <2>5. Dies'
    BY <1>1, <2>3, <2>4, SMT DEF IInv, Dies, Queued, Todo, c, linkvars, modelvars
  <2>6. Unbinds'
    BY <1>1, <2>2, <2>3, <2>4, SMT DEF IInv, Unbinds, Todo, c, modelvars
  <2> QED BY <2>2, <2>5, <2>6 DEF IInv
<1> QED BY <1>2, <1>3

\* What was subscribed gets the action that erases it, or a connection was lost to a
\* race.
LEMMA AdviseClosingKeeps == ASSUME IInv, Observed, AdviseClosing PROVE IInv'
<1>1. /\ main.op = "advised" /\ main.op \in Connecting
      /\ UNCHANGED <<terminated, todo, linkvars, queue, modelvars, clientvars, others>>
  BY DEF AdviseClosing, At, Connecting
<1>2. CASE Ended
  <2>1. TaskEnds /\ UNCHANGED actions /\ main.lifetime \in terminated
    BY <1>2 DEF AdviseClosing, Ended, CanAdd
  <2> QED BY <1>1, <2>1, FailsKeeps DEF ltvars
<1>3. CASE ~Ended
  <2> DEFINE c == Connection(model)
  <2>1. Go("initialized") /\ AddToLifetime("unsubscribe")
    BY <1>3 DEF AdviseClosing
  <2>2. /\ LTypes' /\ Holders' /\ Workers' /\ Exclusion' /\ Once'
        /\ Sequential' /\ Numbers' /\ Superseded' /\ Serves' /\ Uses'
        /\ raced' = raced
        /\ \/ main.lifetime = Eternal /\ UNCHANGED actions /\ View \in terminated
           \/ Acts(c)' = Acts(c) \cup {Do("unsubscribe")}
    BY <1>1, <1>3, <2>1, AddsWork
  <2>3. main'.op = "initialized"
    BY <2>1, Going DEF IInv, Connecting
  <2>4. Acts(c) \subseteq Acts(c)'
    BY <1>1, <2>2 DEF Acts, modelvars
  <2> HIDE DEF c
  <2>5. Dies'
    BY <1>1, <2>3, <2>4, SMT DEF IInv, Dies, Queued, Todo, c, linkvars, modelvars
  <2>6. Unbinds'
    BY <1>1, <2>2, <2>3, <2>4, SMT DEF IInv, Unbinds, Todo, c, modelvars
  <2> QED BY <2>2, <2>5, <2>6 DEF IInv
<1> QED BY <1>2, <1>3

\* The action that will kill the model is added before the model lives.
LEMMA AddDeadKeeps == ASSUME IInv, Observed, AddDead PROVE IInv'
<1>1. /\ main.op = "initialized" /\ main.op \in Connecting
      /\ UNCHANGED <<terminated, todo, linkvars, queue, modelvars, clientvars, others>>
  BY DEF AddDead, At, Connecting
<1>2. CASE ~bound \/ Ended
  <2>1. TaskEnds /\ UNCHANGED actions
    BY <1>2 DEF AddDead
  <2> QED BY <1>1, <2>1, FailsKeeps DEF ltvars
<1>3. CASE ~(~bound \/ Ended)
  <2> DEFINE c == Connection(model)
  <2>1. ~Ended /\ Go("alive") /\ AddToLifetime("dead")
    BY <1>3 DEF AddDead
  <2>2. /\ LTypes' /\ Holders' /\ Workers' /\ Exclusion' /\ Once'
        /\ Sequential' /\ Numbers' /\ Superseded' /\ Serves' /\ Uses'
        /\ raced' = raced /\ ~Coming
        /\ \/ main.lifetime = Eternal /\ UNCHANGED actions /\ View \in terminated
           \/ Acts(c)' = Acts(c) \cup {Do("dead")}
    BY <1>1, <2>1, AddsWork
  <2>3. main'.op = "alive"
    BY <2>1, Going DEF IInv, Connecting
  <2>4. Acts(c) \subseteq Acts(c)'
    BY <1>1, <2>2 DEF Acts, modelvars
  <2>5. ~Queued /\ wire \notin {"set", "handler"}
    BY <2>2 DEF Coming
  <2> HIDE DEF c
  <2>6. Dies'
    BY <1>1, <2>2, <2>3, <2>5, SMT DEF Dies, Queued, Todo, c, linkvars, modelvars
  <2>7. Unbinds'
    BY <1>1, <2>2, <2>3, <2>4, SMT DEF IInv, Unbinds, Todo, c, modelvars
  <2> QED BY <2>2, <2>6, <2>7 DEF IInv
<1> QED BY <1>2, <1>3

\* Only the model and the task move on.
LEMMA GoesKeeps ==
    ASSUME IInv, Observed, main.op \in Connecting,
           NEW step \in {"bound", "advised", "initialized"}, Go(step),
           UNCHANGED <<ltvars, linkvars, queue, model, alive, clientvars, others>>,
           bound' \in BOOLEAN, subscription' \in {subscription, model},
           step \in {"bound", "advised"} => main.lifetime \notin terminated,
           bound' # bound => step = "bound",
           subscription' # subscription => step = "advised",
           main.op = "bound" => step = "bound" \/ ~bound',
           main.op \notin {"advised", "alive"}
    PROVE  IInv'
<1>1. /\ main' \in Tasks({"idle", "dying"} \cup Connecting \cup Serving)
      /\ main'.op = step /\ main'.model = main.model /\ main'.lifetime = main.lifetime
      /\ main'.locked = main.locked /\ main'.op # "idle"
      /\ step \in Connecting /\ step \notin Serving \cup {"dying"}
      /\ main.op \notin Serving \cup {"dying"}
  BY Going DEF IInv, Connecting, Serving
<1>2. /\ raced' = raced /\ raced' \in BOOLEAN /\ orderly' \in BOOLEAN
      /\ orderly' => orderly /\ Client \notin terminated
  BY Calm DEF ltvars
<1>3. LTypes' /\ Holders' /\ Exclusion' /\ Once'
  BY <1>1, <1>2, SMT DEF IInv, LTypes, Holders, Acts, Exclusion, Once, ltvars, linkvars, clientvars, others
<1>4. Workers' /\ Sequential'
  BY <1>1, SMT DEF IInv, Workers, Sequential, Acts, Todo, Cleaned, IsOver, ltvars, linkvars, others
<1>5. Numbers'
  BY <1>1, SMT DEF IInv, Numbers, ltvars, linkvars
<1>6. Superseded'
  BY <1>1, SupersededStays DEF Acts, Todo, ltvars, linkvars
<1>7. Dies'
  BY <1>1, SMT DEF IInv, Dies, Queued, Acts, Todo, ltvars, linkvars
<1>8. Unbinds'
  BY <1>1, <1>2, SMT DEF IInv, Unbinds, Acts, Todo, ltvars, linkvars
<1>9. Serves' /\ Uses'
  BY <1>1, <1>2, SMT DEF IInv, Serves, Due, Uses, Acts, Todo, IsOver, Serving, ltvars, clientvars
<1> QED BY <1>3, <1>4, <1>5, <1>6, <1>7, <1>8, <1>9 DEF IInv

\* The closing is still to be added.
LEMMA BindKeeps == ASSUME IInv, Observed, Bind PROVE IInv'
<1>1. /\ main.op = "bind" /\ main.op \in Connecting
      /\ UNCHANGED <<ltvars, linkvars, queue, model, subscription, alive, clientvars, others>>
  BY DEF Bind, At, Connecting
<1>2. CASE Ended
  <2>1. TaskEnds /\ UNCHANGED bound
    BY <1>2 DEF Bind
  <2> QED BY <1>1, <2>1, FailsKeeps DEF modelvars
<1>3. CASE ~Ended
  <2>1. Go("bound") /\ bound' = TRUE /\ main.lifetime \notin terminated
    BY <1>3 DEF Bind, Ended, CanAdd
  <2> QED BY <1>1, <2>1, GoesKeeps
<1> QED BY <1>2, <1>3

\* Here too.
LEMMA AdviseKeeps == ASSUME IInv, Observed, Advise PROVE IInv'
<1>1. /\ main.op = "init" /\ main.op \in Connecting
      /\ UNCHANGED <<ltvars, linkvars, queue, model, bound, alive, clientvars, others>>
      /\ bound \in BOOLEAN
  BY DEF IInv, LTypes, Advise, At, Connecting
<1>2. CASE ~bound /\ TaskEnds /\ UNCHANGED subscription
  BY <1>1, <1>2, FailsKeeps DEF modelvars
<1>3. CASE bound /\ Ended /\ Go("initialized") /\ UNCHANGED subscription
  BY <1>1, <1>3, GoesKeeps
<1>4. CASE bound /\ ~Ended /\ Go("advised") /\ subscription' = model
  <2>1. main.lifetime \notin terminated
    BY <1>4 DEF Ended, CanAdd
  <2> QED BY <1>1, <1>4, <2>1, GoesKeeps
<1> QED BY <1>2, <1>3, <1>4 DEF Advise

\* A model that is made alive will die: its "dead" action is in its lifetime or being
\* executed.
LEMMA SetAliveKeeps == ASSUME IInv, Observed, SetAlive PROVE IInv'
<1>1. /\ main.op = "alive" /\ main.op \in Connecting /\ main.op \notin Serving /\ alive' = TRUE
      /\ UNCHANGED <<ltvars, linkvars, queue, model, bound, subscription, clientvars, others>>
  BY DEF SetAlive, At, Connecting, Serving
<1>2. /\ raced' = raced /\ raced' \in BOOLEAN /\ orderly' \in BOOLEAN
      /\ orderly' => orderly /\ Client \notin terminated
  BY <1>1, Calm DEF ltvars
<1>3. /\ main' \in Tasks({"idle", "dying"} \cup Connecting \cup Serving)
      /\ main'.op \in {"idle", "view"} /\ (main'.op = "idle" => main' = Idle)
      /\ main'.op = "view" => ~alive /\ viewing
      /\ main'.op = "view" => main'.locked = main.locked
      /\ main'.op = "idle" => ~main'.locked
      /\ main'.op \notin Connecting
  <2>1. CASE ~alive /\ viewing /\ CanAdd(Client)
    <3>1. Go("view")
      BY <2>1 DEF SetAlive
    <3> QED BY <2>1, <3>1, Going DEF IInv, Serving, Connecting
  <2>2. CASE ~(~alive /\ viewing /\ CanAdd(Client))
    <3>1. TaskEnds
      BY <2>2 DEF SetAlive
    <3> QED BY <3>1, Ends DEF Connecting
  <2> QED BY <2>1, <2>2
<1>4. LTypes' /\ Holders' /\ Exclusion' /\ Once'
  BY <1>1, <1>2, <1>3, SMT DEF IInv, LTypes, Holders, Acts, Exclusion, Once, ltvars, linkvars, clientvars, others
<1>5. Workers' /\ Sequential'
  BY <1>1, <1>3, SMT DEF IInv, Workers, Sequential, Acts, Todo, Cleaned, IsOver, ltvars, linkvars, others
<1>6. Numbers'
  BY <1>1, <1>3, SMT DEF IInv, Numbers, ltvars, linkvars
<1>7. Superseded'
  BY <1>1, <1>3, SupersededStays DEF Acts, Todo, ltvars, linkvars
<1>8. Dies' /\ Unbinds'
  BY <1>1, <1>2, <1>3, SMT DEF IInv, Dies, Queued, Unbinds, Acts, Todo, ltvars, linkvars
<1>9. Serves' /\ Uses'
  BY <1>1, <1>2, <1>3, SMT DEF IInv, Serves, Due, Uses, Acts, Todo, IsOver, Serving, ltvars, clientvars
<1> QED BY <1>4, <1>5, <1>6, <1>7, <1>8, <1>9 DEF IInv

\* A task that makes no model is taken from the queue.
LEMMA RunKeeps ==
    ASSUME IInv, NEW op \in {"init", "view", "dead", "use"}, Run(op), main'.op \notin Connecting,
           UNCHANGED <<terminated, connections, modelvars>>,
           wire' = wire \/ (op = "init" /\ wire' = "down"),
           viewing' = viewing \/ op = "view",
           \A t \in Threads : Todo(t)' \cap ModelActs \subseteq Todo(t),
           \A n \in Models : Acts(Connection(n))' \cap ModelActs \subseteq Acts(Connection(n))
    PROVE  Once' /\ Numbers' /\ Superseded'
<1> DEFINE m == Len(queue')
<1>1. /\ queue' \in Seq(Waiting) /\ Len(queue) \in Nat /\ m = Len(queue) - 1
      /\ 1 \in 1 .. Len(queue) /\ queue[1].op = op /\ main.op \notin Connecting
      /\ \A i \in 1 .. m : i + 1 \in 1 .. Len(queue) /\ queue'[i] = queue[i + 1]
  BY QueueTail, IdleTask DEF IInv, Connecting
<1>2. \A i, j \in 1 .. m : /\ i < j <=> i + 1 < j + 1
                           /\ i + 1 = j + 1 => i = j
                           /\ i + 1 # 1
  BY <1>1, SMT
<1>3. \A i \in 1 .. m : \A j \in i + 1 .. m : j \in 1 .. m /\ j + 1 \in (i + 1) + 1 .. Len(queue)
  BY <1>1, SMT
<1> HIDE DEF m
<1>4. Once'
  <2>1. ASSUME NEW i \in 1 .. m, queue'[i].op = op PROVE op \notin {"init", "view"}
    BY <1>1, <1>2, <2>1 DEF IInv, Once
  <2>2. ASSUME NEW i \in 1 .. m
        PROVE  /\ queue'[i].op = "init" => wire' = "none"
               /\ queue'[i].op = "view" => ~viewing'
    BY <1>1, <2>1 DEF IInv, Once
  <2>3. \A i, j \in 1 .. m :
          queue'[i].op = queue'[j].op /\ queue'[i].op \in {"init", "view"} => i = j
    <3>1. \A i, j \in 1 .. Len(queue) :
             queue[i].op = queue[j].op /\ queue[i].op \in {"init", "view"} => i = j
      BY DEF IInv, Once
    <3>2. ASSUME NEW i \in 1 .. m, NEW j \in 1 .. m,
                 queue'[i].op = queue'[j].op, queue'[i].op \in {"init", "view"}
          PROVE  i = j
      <4>1. /\ i + 1 \in 1 .. Len(queue) /\ queue'[i] = queue[i + 1]
            /\ j + 1 \in 1 .. Len(queue) /\ queue'[j] = queue[j + 1]
        BY <1>1
      <4>2. i + 1 = j + 1
        BY <3>1, <3>2, <4>1
      <4> QED BY <1>2, <4>2
    <3> QED BY <3>2
  <2> QED BY <2>2, <2>3 DEF Once, m
<1>5. wire' \in {"next", "set", "handler"} => wire \in {"next", "set", "handler"}
  OBVIOUS
<1>6. Numbers'
  <2>1. \A i \in 1 .. m : queue'[i].op = "connect" =>
          /\ queue'[i].model > model /\ queue'[i].model <= connections
          /\ wire' \in {"next", "set", "handler"} => queue'[i].model < connections
          /\ queue'[i].lifetime \in {Connection(queue'[i].model), Eternal}
          /\ View \notin terminated => queue'[i].lifetime # Eternal
    BY <1>1, <1>5 DEF IInv, Numbers
  <2>2. \A i, j \in 1 .. m :
          queue'[i].op = "connect" /\ queue'[j].op = "connect" /\ i < j =>
             queue'[i].model < queue'[j].model
    <3>1. \A i, j \in 1 .. Len(queue) :
             queue[i].op = "connect" /\ queue[j].op = "connect" /\ i < j =>
                queue[i].model < queue[j].model
      BY DEF IInv, Numbers
    <3>2. ASSUME NEW i \in 1 .. m, NEW j \in 1 .. m,
                 queue'[i].op = "connect", queue'[j].op = "connect", i < j
          PROVE  queue'[i].model < queue'[j].model
      <4>1. /\ i + 1 \in 1 .. Len(queue) /\ queue'[i] = queue[i + 1]
            /\ j + 1 \in 1 .. Len(queue) /\ queue'[j] = queue[j + 1]
        BY <1>1
      <4>2. i + 1 < j + 1
        BY <1>2, <3>2
      <4> QED BY <3>1, <3>2, <4>1, <4>2
    <3> QED BY <3>2
  <2> QED BY <1>5, <2>1, <2>2 DEF IInv, Numbers, modelvars, m
<1>7. (Queued' => Queued) /\ (wire' \in {"set", "handler"} => wire \in {"set", "handler"})
  BY <1>1 DEF Queued, m
<1>8. (Quiet => Quiet') /\ \A n \in Models : Cleaned(n) => Cleaned(n)'
  BY DEF Quiet, Cleaned
<1>9. Superseded'
  <2>1. \A i \in 1 .. m :
          queue'[i].op = "connect"
             /\ (wire' \in {"set", "handler"} \/ \E j \in i + 1 .. m : queue'[j].op = "connect")
          => IsOver(queue'[i].model) /\ queue'[i].lifetime # Eternal
    <3> SUFFICES ASSUME NEW i \in 1 .. m, queue'[i].op = "connect",
                        wire' \in {"set", "handler"} \/ \E j \in i + 1 .. m : queue'[j].op = "connect"
                 PROVE  IsOver(queue'[i].model) /\ queue'[i].lifetime # Eternal
      OBVIOUS
    <3>1. i + 1 \in 1 .. Len(queue) /\ queue'[i] = queue[i + 1]
      BY <1>1
    <3>2. wire \in {"set", "handler"} \/ \E j \in (i + 1) + 1 .. Len(queue) : queue[j].op = "connect"
      BY <1>1, <1>3, <1>7
    <3> QED BY <3>1, <3>2 DEF IInv, Superseded
  <2>2. \A i \in 1 .. m :
          queue'[i].op = "connect" /\ queue'[i].lifetime = Eternal => View \in terminated
    BY <1>1 DEF IInv, Superseded
  <2>3. \A i, j \in 1 .. m : queue'[i].op = "dead" /\ queue'[j].op = "connect" => i < j
    BY <1>1, <1>2 DEF IInv, Superseded
  <2>4. (\E i \in 1 .. m : queue'[i].op = "dead") => \E i \in 1 .. Len(queue) : queue[i].op = "dead"
    BY <1>1
  <2>5. (\E t \in Threads : Todo(t)' \cap ModelActs # {}) => \E t \in Threads : Todo(t) \cap ModelActs # {}
    OBVIOUS
  <2> QED BY <1>7, <1>8, <2>1, <2>2, <2>3, <2>4, <2>5 DEF IInv, Superseded, Coming, IsOver, modelvars, m
<1> QED BY <1>4, <1>6, <1>9

\* Actions of the client in the queue move forward.
LEMMA UsesMove ==
    ASSUME IInv, NEW op \in Names, Run(op), UNCHANGED <<delegates, client>>,
           orderly' => orderly /\ Client \notin terminated',
           main'.op # "dying" \/ op = "dead"
    PROVE  Uses'
<1> DEFINE m == Len(queue')
<1>1. /\ Len(queue) \in Nat /\ m = Len(queue) - 1
      /\ 1 \in 1 .. Len(queue) /\ queue[1].op = op /\ main.op = "idle"
      /\ \A i \in 1 .. m : i + 1 \in 1 .. Len(queue) /\ queue'[i] = queue[i + 1]
  BY QueueTail, IdleTask DEF IInv
<1>2. \A i \in 1 .. m : /\ \A j \in 1 .. i : j \in 1 .. m /\ j + 1 \in 1 .. i + 1
                        /\ 1 \in 1 .. i + 1
  BY <1>1, SMT
<1> HIDE DEF m
<1>3. ASSUME orderly', NEW i \in 1 .. m, queue'[i].op = "use"
      PROVE  /\ queue'[i].model = delegates /\ delegates # 0
             /\ op # "dead"
             /\ \A j \in 1 .. i : queue'[j].op # "dead"
  BY <1>1, <1>2, <1>3 DEF IInv, Uses
<1>4. orderly' => Client \notin terminated'
      /\ (delegates # 0 => client = delegates)
  BY <1>1 DEF IInv, Uses
<1> QED BY <1>3, <1>4 DEF Uses, m

\* The modules are initialized while no connection was made.
LEMMA InitProtocolKeeps == ASSUME IInv, Observed, InitProtocol PROVE IInv'
<1>1. /\ Run("init")
      /\ UNCHANGED <<terminated, todo, current, connections, closing, main, modelvars, clientvars, others>>
  BY DEF InitProtocol
<1>2. /\ raced' = raced /\ raced' \in BOOLEAN /\ orderly' \in BOOLEAN
      /\ orderly' => orderly /\ Client \notin terminated
  BY <1>1, Calm
<1>3. /\ main = Idle /\ main' = Idle /\ main.op = "idle" /\ wire = "none"
      /\ main'.op \notin Connecting \cup Serving \cup {"dying"}
      /\ queue' \in Seq(Waiting) /\ connections = 0
      /\ \A i \in 1 .. Len(queue') : i + 1 \in 1 .. Len(queue) /\ queue'[i] = queue[i + 1]
  BY <1>1, QueueTail, IdleTask DEF IInv, Connecting, Serving, Once, Sequential
<1>4. /\ wire' = "none" /\ UNCHANGED actions
      \/ /\ wire' = "down"
         /\ actions' = [actions EXCEPT
               ![Module] = Append(@, End(Wire)),
               ![Wire] = <<Detach(Module, Wire), Do("join"), End(View)>>,
               ![View] = <<Detach(Wire, View), Do("endConnection")>>]
  BY <1>3 DEF InitProtocol
<1>5. /\ actions' \in [Lifetimes -> Seq(Work)]
      /\ \A l \in Lifetimes : l \notin {Module, Wire, View} => actions'[l] = actions[l]
      /\ Range(actions'[Module]) \subseteq Acts(Module) \cup {End(Wire)}
      /\ Range(actions'[Wire]) \subseteq {Detach(Module, Wire), Do("join"), End(View)} \cup Acts(Wire)
      /\ Range(actions'[View]) \subseteq {Detach(Wire, View), Do("endConnection")} \cup Acts(View)
  <2> DEFINE a == Append(actions[Module], End(Wire))
             b == <<Detach(Module, Wire), Do("join"), End(View)>>
             c == <<Detach(Wire, View), Do("endConnection")>>
  <2>1. CASE UNCHANGED actions
    BY <2>1 DEF IInv, LTypes, Acts
  <2>2. CASE actions' = [actions EXCEPT ![Module] = a, ![Wire] = b, ![View] = c]
    <3>1. /\ actions[Module] \in Seq(Work) /\ End(Wire) \in Work
          /\ {Detach(Module, Wire), Do("join"), End(View), Detach(Wire, View), Do("endConnection")}
                \subseteq Work
      BY LifetimesAre DEF IInv, LTypes, Work, ModuleWork, ViewWork
    <3>2. a \in Seq(Work) /\ Range(a) = Acts(Module) \cup {End(Wire)}
      BY <3>1, RangeOfAppend, AppendProperties DEF Acts
    <3>3. /\ b \in Seq(Work) /\ Len(b) = 3
          /\ b[1] = Detach(Module, Wire) /\ b[2] = Do("join") /\ b[3] = End(View)
      BY <3>1
    <3>4. c \in Seq(Work) /\ Len(c) = 2 /\ c[1] = Detach(Wire, View) /\ c[2] = Do("endConnection")
      BY <3>1
    <3> HIDE DEF a, b, c
    <3>5. 1 .. Len(b) = {1, 2, 3} /\ 1 .. Len(c) = {1, 2}
      BY <3>3, <3>4, SMT
    <3>6. Range(b) = {b[i] : i \in 1 .. Len(b)} /\ Range(c) = {c[i] : i \in 1 .. Len(c)}
      BY <3>3, <3>4, RangeEquality
    <3>7. /\ Range(b) \subseteq {Detach(Module, Wire), Do("join"), End(View)}
          /\ Range(c) \subseteq {Detach(Wire, View), Do("endConnection")}
      BY <3>3, <3>4, <3>5, <3>6
    <3>8. /\ actions' \in [Lifetimes -> Seq(Work)]
          /\ actions'[Module] = a /\ actions'[Wire] = b /\ actions'[View] = c
          /\ \A l \in Lifetimes : l \notin {Module, Wire, View} => actions'[l] = actions[l]
      BY <2>2, <3>2, <3>3, <3>4, LifetimesAre DEF IInv, LTypes
    <3> QED BY <3>2, <3>7, <3>8
  <2> QED BY <1>4, <2>1, <2>2
<1>6. /\ wire' \in {"none", "down"} /\ (wire' = "none" => UNCHANGED actions)
      /\ \A l \in Connections \cup ModelLifetimes \cup {Client} : actions'[l] = actions[l]
      /\ \A n \in Models : actions'[Connection(n)] = actions[Connection(n)]
  BY <1>4, <1>5, LifetimesAre
<1>7. LTypes' /\ Exclusion'
  BY <1>1, <1>2, <1>3, <1>5, <1>6, SMT DEF IInv, LTypes, Exclusion, Names, modelvars, clientvars, others
<1>8. Holders'
  BY <1>5, <1>6 DEF IInv, Holders, Acts
<1>9. Workers'
  BY <1>1, <1>3, SMT DEF IInv, Workers, Todo, others
<1>10. Sequential'
  <2>1. \A n \in Models : n \in Nat /\ n >= 1
    BY MaxIsNat, SMT DEF Models
  <2> QED BY <1>1, <1>3, <1>6, <2>1, SMT DEF IInv, Sequential
<1>11. Once' /\ Numbers' /\ Superseded'
  BY <1>1, <1>3, <1>6, RunKeeps DEF Acts, Todo, clientvars
<1>12. Uses'
  BY <1>1, <1>2, <1>3, UsesMove DEF Names, clientvars
<1>13. Serves'
  BY <1>1, <1>6, ServesStays DEF modelvars, clientvars
<1>14. Dies' /\ Unbinds'
  <2>1. model = 0 /\ ~alive /\ ~bound /\ subscription = 0
    BY <1>3, MaxIsNat, SMT DEF IInv, LTypes, Numbers
  <2> QED BY <1>1, <1>3, <2>1 DEF Dies, Unbinds, Connecting, modelvars
<1> QED BY <1>7, <1>8, <1>9, <1>10, <1>11, <1>12, <1>13, <1>14 DEF IInv

\* Taking a task from the queue adds none.
LEMMA MovesOn ==
    ASSUME LTypes, NEW op, Run(op)
    PROVE  /\ Queued' => Queued
           /\ \A x : x # op /\ (\A i \in 1 .. Len(queue') : queue'[i].op # x)
                     => \A i \in 1 .. Len(queue) : queue[i].op # x
<1>1. /\ Len(queue) \in Nat /\ Len(queue') = Len(queue) - 1 /\ queue[1].op = op
      /\ \A i \in 1 .. Len(queue') : i + 1 \in 1 .. Len(queue) /\ queue'[i] = queue[i + 1]
  BY QueueTail
<1>2. \A i \in 1 .. Len(queue) : i = 1 \/ \E k \in 1 .. Len(queue') : k + 1 = i
  <2> SUFFICES ASSUME NEW i \in 1 .. Len(queue), i # 1 PROVE \E k \in 1 .. Len(queue') : k + 1 = i
    OBVIOUS
  <2>1. i - 1 \in 1 .. Len(queue') /\ (i - 1) + 1 = i
    BY <1>1, SMT
  <2> QED BY <2>1
<1>3. \A i \in 1 .. Len(queue) : i = 1 \/ \E k \in 1 .. Len(queue') : queue'[k] = queue[i]
  BY <1>1, <1>2
<1> QED BY <1>1, <1>3 DEF Queued

\* Executing an action of the client changes nothing.
LEMMA UseClientKeeps == ASSUME IInv, Observed, UseClient PROVE IInv'
<1>1. /\ Run("use") /\ UNCHANGED <<ltvars, linkvars, main, modelvars, clientvars, others>>
  BY DEF UseClient
<1>2. /\ raced' = raced /\ raced' \in BOOLEAN /\ orderly' \in BOOLEAN
      /\ orderly' => orderly /\ Client \notin terminated
  BY <1>1, Calm DEF ltvars
<1>3. /\ main.op = "idle" /\ main'.op \notin Connecting \cup Serving \cup {"dying"}
      /\ queue' \in Seq(Waiting)
      /\ \A i \in 1 .. Len(queue') : i + 1 \in 1 .. Len(queue) /\ queue'[i] = queue[i + 1]
      /\ 1 \in 1 .. Len(queue) /\ queue[1].op = "use"
  <2>1. /\ main = Idle /\ main' = Idle
        /\ queue' \in Seq(Waiting) /\ Len(queue) \in Nat /\ Len(queue') = Len(queue) - 1
        /\ 1 \in 1 .. Len(queue) /\ queue[1].op = "use"
        /\ \A i \in 1 .. Len(queue') : i + 1 \in 1 .. Len(queue) /\ queue'[i] = queue[i + 1]
    BY <1>1, QueueTail DEF IInv, Names
  <2> QED BY <2>1, IdleTask DEF Connecting, Serving
<1>4. LTypes' /\ Holders' /\ Exclusion'
  BY <1>1, <1>2, <1>3, SMT DEF IInv, LTypes, Holders, Acts, Exclusion, ltvars, linkvars, modelvars, clientvars, others
<1>5. Workers' /\ Sequential'
  BY <1>1, SMT DEF IInv, Workers, Sequential, Acts, Todo, Cleaned, IsOver, ltvars, linkvars, others
<1>6. Once' /\ Numbers' /\ Superseded'
  BY <1>1, <1>3, RunKeeps DEF Acts, Todo, ltvars, linkvars, clientvars
<1>7. Dies'
  <2>1. Queued' => Queued
    BY <1>1, MovesOn DEF IInv
  <2>2. (\A i \in 1 .. Len(queue') : queue'[i].op # "dead") => \A i \in 1 .. Len(queue) : queue[i].op # "dead"
    BY <1>1, MovesOn DEF IInv
  <2> QED BY <1>1, <2>1, <2>2 DEF IInv, Dies, Acts, Todo, ltvars, linkvars, modelvars
<1>8. Uses'
  BY <1>1, <1>2, <1>3, UsesMove DEF Names, ltvars, clientvars
<1>9. Serves' /\ Unbinds'
  BY <1>1, <1>2, ServesStays, SMT DEF IInv, Unbinds, Acts, Todo, ltvars, modelvars, clientvars
<1> QED BY <1>4, <1>5, <1>6, <1>7, <1>8, <1>9 DEF IInv

\* The client's view may find the model alive already.
LEMMA ViewModelKeeps == ASSUME IInv, Observed, ViewModel PROVE IInv'
<1>1. /\ Run("view")
      /\ UNCHANGED <<terminated, todo, linkvars, modelvars, client_current, client, delegates, others>>
  BY DEF ViewModel
<1>2. /\ raced' = raced /\ raced' \in BOOLEAN /\ orderly' \in BOOLEAN
      /\ orderly' => orderly /\ Client \notin terminated
  BY <1>1, Calm
<1>3. /\ main = Idle /\ main.op = "idle" /\ queue' \in Seq(Waiting)
      /\ \A i \in 1 .. Len(queue') : i + 1 \in 1 .. Len(queue) /\ queue'[i] = queue[i + 1]
      /\ 1 \in 1 .. Len(queue) /\ Head(queue) = queue[1] /\ queue[1].op = "view"
      /\ queue[1] \in Waiting
  <2>1. /\ main = Idle
        /\ queue' \in Seq(Waiting) /\ Len(queue) \in Nat /\ Len(queue') = Len(queue) - 1
        /\ 1 \in 1 .. Len(queue) /\ Head(queue) = queue[1] /\ queue[1].op = "view"
        /\ queue[1] \in Waiting
        /\ \A i \in 1 .. Len(queue') : i + 1 \in 1 .. Len(queue) /\ queue'[i] = queue[i + 1]
    BY <1>1, QueueTail DEF IInv, Names
  <2> QED BY <2>1, IdleTask
<1>4. viewing = FALSE
  BY <1>3 DEF IInv, LTypes, Once
<1>5. /\ main' \in Tasks({"idle", "dying"} \cup Connecting \cup Serving)
      /\ main'.op \in {"idle", "view"} /\ (main'.op = "idle" => main' = Idle)
      /\ main'.op = "view" => alive /\ viewing' = TRUE
      /\ ~main'.locked /\ main'.op \notin Connecting /\ main'.op # "dying"
      /\ viewing' \in BOOLEAN
  <2>1. CASE CanAdd(Client) /\ alive
    <3>1. main' = queue[1] /\ viewing' = TRUE
      BY <1>3, <2>1 DEF ViewModel
    <3>2. queue[1] \in Tasks(Serving) /\ queue[1].locked = FALSE
      BY <1>3 DEF Waiting, Tasks, Serving
    <3> QED BY <1>3, <2>1, <3>1, <3>2 DEF Tasks, Connecting, Serving
  <2>2. CASE ~(CanAdd(Client) /\ alive)
    <3>1. main' = Idle /\ viewing' \in BOOLEAN
      BY <1>3, <1>4, <2>2 DEF ViewModel
    <3> QED BY <3>1, IdleTask DEF Connecting
  <2> QED BY <2>1, <2>2
<1>6. /\ actions' \in [Lifetimes -> Seq(Work)]
      /\ Range(actions'[Client]) \subseteq Acts(Client) \cup {Do("endModel")}
      /\ \A m \in Lifetimes : m # Client => actions'[m] = actions[m]
  <2>1. CASE CanAdd(Client)
    <3>1. actions' = Added(Client, Do("endModel"))
      BY <2>1 DEF ViewModel
    <3>2. "endModel" \in Ops /\ Client \in Lifetimes /\ Client # Eternal
      BY LifetimesAre DEF Ops
    <3> QED BY <3>1, <3>2, AddEffect DEF IInv
  <2>2. CASE ~CanAdd(Client)
    BY <2>2 DEF IInv, LTypes, ViewModel, Acts
  <2> QED BY <2>1, <2>2
<1>7. /\ \A l \in Connections \cup ModelLifetimes : actions'[l] = actions[l]
      /\ \A n \in Models : actions'[Connection(n)] = actions[Connection(n)]
      /\ \A l \in {View, Wire, Module} : actions'[l] = actions[l]
  BY <1>6, LifetimesAre
<1>8. LTypes' /\ Exclusion'
  BY <1>1, <1>2, <1>3, <1>5, <1>6, SMT DEF IInv, LTypes, Exclusion, linkvars, modelvars, others
<1>9. Holders'
  BY <1>6, <1>7 DEF IInv, Holders, Acts
<1>10. Workers' /\ Sequential'
  <2>1. Workers'
    BY <1>1, <1>3, SMT DEF IInv, Workers, Todo, linkvars, others
  <2>2. wire = "ending" => connections \in Models
    BY MaxIsNat, SMT DEF IInv, LTypes, Sequential, Models
  <2>3. Sequential'
    BY <1>1, <1>7, <2>2, SMT DEF IInv, Sequential, Acts, Todo, Cleaned, IsOver, linkvars
  <2> QED BY <2>1, <2>3
<1>11. Once' /\ Numbers' /\ Superseded'
  BY <1>1, <1>5, <1>7, RunKeeps DEF Acts, Todo, linkvars
<1>12. Dies'
  <2>1. Queued' => Queued
    BY <1>1, MovesOn DEF IInv
  <2>2. (\A i \in 1 .. Len(queue') : queue'[i].op # "dead") => \A i \in 1 .. Len(queue) : queue[i].op # "dead"
    BY <1>1, MovesOn DEF IInv
  <2>3. alive => model \in Models
    BY MaxIsNat, SMT DEF IInv, LTypes, Numbers, Models
  <2> QED BY <1>1, <1>3, <1>5, <1>7, <2>1, <2>2, <2>3
          DEF IInv, Dies, Acts, Todo, linkvars, modelvars
<1>13. Uses'
  BY <1>1, <1>2, <1>5, UsesMove DEF Names
<1>14. Unbinds'
  <2>1. bound \/ subscription # 0 => model \in Models
    BY MaxIsNat, SMT DEF IInv, LTypes, Numbers, Models
  <2> QED BY <1>1, <1>2, <1>3, <1>5, <1>7, <2>1, SMT
          DEF IInv, Unbinds, Acts, Todo, Connecting, modelvars
<1>15. Serves'
  <2>1. Client \notin terminated => client = 0 /\ delegates = 0
    BY <1>4 DEF IInv, Serves
  <2> QED BY <1>1, <1>5, <2>1, SMT DEF IInv, LTypes, Serves, Serving, modelvars
<1> QED BY <1>8, <1>9, <1>10, <1>11, <1>12, <1>13, <1>14, <1>15 DEF IInv

\* When the task for a new connection is next, nothing of the last one is left.
LEMMA NothingIsLeft ==
    ASSUME IInv, main = Idle, 1 \in 1 .. Len(queue), queue[1].op = "connect"
    PROVE  /\ Quiet /\ ~alive
           /\ \A i \in 1 .. Len(queue) : queue[i].op # "dead"
           /\ Client \notin terminated => client = 0 /\ delegates = 0
           /\ View \notin terminated /\ ~raced => ~bound /\ subscription = 0
<1>1. Queued /\ main.op = "idle"
  BY IdleTask DEF Queued
<1>2. Quiet
  BY <1>1 DEF IInv, Superseded, Coming
<1>3. ASSUME NEW i \in 1 .. Len(queue), queue[i].op = "dead" PROVE FALSE
  <2>1. i < 1 /\ i >= 1
    BY <1>3, SMT DEF IInv, Superseded
  <2> QED BY <2>1, SMT
<1>4. ~alive
  BY <1>1, <1>3 DEF IInv, Dies
<1>5. Client \notin terminated => client = 0 /\ delegates = 0
  BY <1>4 DEF IInv, Serves
<1>6. bound \/ subscription # 0 => model \in Models
  BY MaxIsNat, SMT DEF IInv, LTypes, Numbers, Models
<1>7. {Do("unbind"), Do("unsubscribe")} \subseteq ModelActs /\ "wire" \in Threads
  BY WorkSets, LifetimesAre
<1>8. /\ Todo("wire") \cap ModelActs = {}
      /\ model \in Models => Acts(Connection(model)) \cap ModelActs = {}
  BY <1>2, <1>7 DEF Quiet, Cleaned
<1>9. View \notin terminated /\ ~raced => ~bound /\ subscription = 0
  BY <1>1, <1>6, <1>7, <1>8 DEF IInv, Unbinds
<1> QED BY <1>2, <1>3, <1>4, <1>5, <1>9

\* The new model finds nothing of the last one: it is dead, unbound, and no task or
\* action for it is left.
LEMMA NewModelKeeps == ASSUME IInv, Observed, NewModel PROVE IInv'
<1> DEFINE h == queue[1]
           m == Len(queue')
<1>1. /\ Run("connect") /\ logger = "idle" /\ model' = Head(queue).model /\ bound' = FALSE
      /\ main' = [Head(queue) EXCEPT !.op = "bind", !.locked = TRUE]
      /\ UNCHANGED <<ltvars, linkvars, subscription, alive, clientvars, others>>
  BY DEF NewModel
<1>2. /\ raced' = raced /\ raced' \in BOOLEAN /\ orderly' \in BOOLEAN
      /\ orderly' => orderly /\ Client \notin terminated
  BY <1>1, Calm DEF ltvars
<1>3. /\ main = Idle /\ main.op = "idle" /\ queue' \in Seq(Waiting) /\ Len(queue) \in Nat
      /\ m = Len(queue) - 1
      /\ 1 \in 1 .. Len(queue) /\ Head(queue) = h /\ h.op = "connect" /\ h \in Waiting
      /\ \A i \in 1 .. m : i + 1 \in 1 .. Len(queue) /\ queue'[i] = queue[i + 1]
  BY <1>1, QueueTail, IdleTask DEF IInv
<1>4. \A i, j \in 1 .. m : /\ i < j <=> i + 1 < j + 1
                           /\ i + 1 = j + 1 => i = j
                           /\ 1 < i + 1
                           /\ i + 1 \in 1 + 1 .. Len(queue)
  BY <1>3, SMT
<1>5. \A i \in 1 .. m : \A j \in i + 1 .. m : j \in 1 .. m /\ j + 1 \in (i + 1) + 1 .. Len(queue)
  BY <1>3, SMT
<1>6. /\ Quiet /\ ~alive
      /\ \A i \in 1 .. Len(queue) : queue[i].op # "dead"
      /\ Client \notin terminated => client = 0 /\ delegates = 0
      /\ View \notin terminated /\ ~raced => ~bound /\ subscription = 0
  BY <1>3, NothingIsLeft
<1> HIDE DEF m
<1>7. /\ h.model \in 0 .. MaxConnections /\ h.model > model /\ h.model <= connections
      /\ wire \in {"next", "set", "handler"} => h.model < connections
      /\ h.lifetime \in {Connection(h.model), Eternal}
      /\ View \notin terminated => h.lifetime # Eternal
      /\ h.model >= 1
  <2>1. /\ h.model \in 0 .. MaxConnections /\ h.model > model /\ h.model <= connections
        /\ wire \in {"next", "set", "handler"} => h.model < connections
        /\ h.lifetime \in {Connection(h.model), Eternal}
        /\ View \notin terminated => h.lifetime # Eternal
    BY <1>3 DEF IInv, Numbers, Waiting
  <2> QED BY <2>1, MaxIsNat, SMT DEF IInv, LTypes
<1>8. /\ main' \in Tasks({"idle", "dying"} \cup Connecting \cup Serving)
      /\ main'.op = "bind" /\ main'.locked /\ main'.model = h.model /\ main'.lifetime = h.lifetime
      /\ main'.op \in Connecting /\ main'.op \notin Serving \cup {"idle", "dying"}
  BY <1>1, <1>3 DEF Waiting, Tasks, Connecting, Serving
<1>9. LTypes' /\ Holders' /\ Exclusion'
  <2>1. model' \in 0 .. MaxConnections
    BY <1>1, <1>3, <1>7
  <2>2. LTypes'
    BY <1>1, <1>2, <1>3, <1>8, <2>1, ZenonT(40) DEF IInv, LTypes, ltvars, linkvars, clientvars, others
  <2>3. Holders' /\ Exclusion'
    BY <1>1, <1>8 DEF IInv, Holders, Acts, Exclusion, ltvars, others
  <2> QED BY <2>2, <2>3
<1>10. Workers' /\ Sequential'
  BY <1>1, <1>3, SMT DEF IInv, Workers, Sequential, Acts, Todo, Cleaned, IsOver, ltvars, linkvars, others
<1>11. Once'
  <2>1. Once /\ wire' = wire /\ viewing' = viewing /\ 1 .. Len(queue') = 1 .. m
    BY <1>1 DEF IInv, linkvars, clientvars, m
  <2>2. /\ \A i \in 1 .. m : /\ queue'[i].op = "init" => wire' = "none"
                             /\ queue'[i].op = "view" => ~viewing'
    BY <1>3, <2>1 DEF Once
  <2>3. ASSUME NEW i \in 1 .. m, NEW j \in 1 .. m,
               queue'[i].op = queue'[j].op, queue'[i].op \in {"init", "view"}
        PROVE  i = j
    <3>1. i + 1 = j + 1
      BY <1>3, <2>1, <2>3 DEF Once
    <3> QED BY <1>4, <3>1
  <2> QED BY <2>1, <2>2, <2>3 DEF Once
<1>12. Numbers'
  <2>1. \A i \in 1 .. m : queue'[i].op = "connect" =>
          /\ queue'[i].model > h.model /\ queue'[i].model <= connections
          /\ wire \in {"next", "set", "handler"} => queue'[i].model < connections
          /\ queue'[i].lifetime \in {Connection(queue'[i].model), Eternal}
          /\ View \notin terminated => queue'[i].lifetime # Eternal
    <3> SUFFICES ASSUME NEW i \in 1 .. m, queue'[i].op = "connect"
                 PROVE  /\ queue'[i].model > h.model /\ queue'[i].model <= connections
                        /\ wire \in {"next", "set", "handler"} => queue'[i].model < connections
                        /\ queue'[i].lifetime \in {Connection(queue'[i].model), Eternal}
                        /\ View \notin terminated => queue'[i].lifetime # Eternal
      OBVIOUS
    <3>1. i + 1 \in 1 .. Len(queue) /\ queue[i + 1].op = "connect" /\ queue'[i] = queue[i + 1]
          /\ 1 < i + 1
      BY <1>3, <1>4
    <3>2. h.model < queue[i + 1].model
      BY <1>3, <3>1 DEF IInv, Numbers
    <3>3. h.model \in Nat /\ queue[i + 1].model \in Nat
      BY <1>3, <3>1, QueueTypes DEF IInv
    <3>4. queue[i + 1].model > h.model
      BY <3>2, <3>3, SMT
    <3> QED BY <3>1, <3>4 DEF IInv, Numbers
  <2>2. \A i, j \in 1 .. m :
          queue'[i].op = "connect" /\ queue'[j].op = "connect" /\ i < j =>
             queue'[i].model < queue'[j].model
    <3>1. \A i, j \in 1 .. Len(queue) :
             queue[i].op = "connect" /\ queue[j].op = "connect" /\ i < j =>
                queue[i].model < queue[j].model
      BY DEF IInv, Numbers
    <3> QED BY <1>3, <1>4, <3>1
  <2> QED BY <1>1, <1>3, <1>7, <1>8, <2>1, <2>2 DEF Numbers, ltvars, linkvars, m
<1>13. Superseded'
  <2>1. Quiet' /\ \A n \in Models : Cleaned(n)'
    BY <1>1, <1>6 DEF Quiet, Cleaned, Acts, Todo, ltvars
  <2>2. \A i \in 1 .. m : queue'[i].op # "dead"
    BY <1>3, <1>6
  <2>3. Coming' => IsOver(h.model) /\ h.lifetime # Eternal
    <3>1. ASSUME NEW i \in 1 .. m, queue'[i].op = "connect"
          PROVE  \E j \in 1 + 1 .. Len(queue) : queue[j].op = "connect"
      BY <1>3, <1>4, <3>1
    <3>2. Coming' => wire \in {"set", "handler"} \/ \E j \in 1 + 1 .. Len(queue) : queue[j].op = "connect"
      BY <1>1, <3>1 DEF Coming, Queued, linkvars, m
    <3> QED BY <1>3, <3>2 DEF IInv, Superseded
  <2>4. \A i \in 1 .. m :
          queue'[i].op = "connect"
             /\ (wire' \in {"set", "handler"} \/ \E j \in i + 1 .. m : queue'[j].op = "connect")
          => IsOver(queue'[i].model) /\ queue'[i].lifetime # Eternal
    <3>1. wire' = wire
      BY <1>1 DEF linkvars
    <3> QED BY <1>3, <1>5, <3>1 DEF IInv, Superseded
  <2>5. \A i \in 1 .. m :
          queue'[i].op = "connect" /\ queue'[i].lifetime = Eternal => View \in terminated
    BY <1>3 DEF IInv, Superseded
  <2> QED BY <1>1, <1>3, <1>8, <2>1, <2>2, <2>3, <2>4, <2>5 DEF Superseded, Quiet, IsOver, ltvars, m
<1>14. Dies' /\ Unbinds'
  BY <1>1, <1>2, <1>6, <1>8 DEF Dies, Unbinds, ltvars
<1>15. Serves'
  BY <1>1, <1>6, <1>8 DEF Serves, ltvars, clientvars
<1>16. Uses'
  <2>1. orderly' => orderly /\ Client \notin terminated /\ delegates = 0
    BY <1>2, <1>6
  <2>2. orderly' => \A i \in 1 .. Len(queue) : queue[i].op # "use"
    BY <2>1 DEF IInv, Uses
  <2>3. orderly' => \A i \in 1 .. m : queue'[i].op # "use"
    BY <1>3, <2>2
  <2> QED BY <1>1, <2>1, <2>3 DEF Uses, ltvars, clientvars, m
<1> QED BY <1>9, <1>10, <1>11, <1>12, <1>13, <1>14, <1>15, <1>16 DEF IInv

\* The model that dies is one whose connection is over; what the client has will be
\* undone by the time it is dead.
LEMMA SetDeadKeeps == ASSUME IInv, Observed, SetDead PROVE IInv'
<1>1. /\ Run("dead") /\ logger = "idle"
      /\ main' = [Task("dying", 0, Eternal) EXCEPT !.locked = TRUE]
      /\ UNCHANGED <<terminated, actions, linkvars, modelvars, viewing, client, delegates, others>>
  BY DEF SetDead
<1>2. /\ raced' = raced /\ raced' \in BOOLEAN /\ orderly' \in BOOLEAN
      /\ orderly' => orderly /\ Client \notin terminated
  BY <1>1, Calm
<1>3. /\ main.op = "idle" /\ queue' \in Seq(Waiting)
      /\ 1 \in 1 .. Len(queue) /\ queue[1].op = "dead"
  BY <1>1, QueueTail, IdleTask DEF IInv
<1>4. /\ main' \in Tasks({"idle", "dying"} \cup Connecting \cup Serving)
      /\ main'.op = "dying" /\ main'.locked /\ main'.op \notin Connecting \cup Serving
  <2>1. 0 \in 0 .. MaxConnections
    BY MaxIsNat, SMT
  <2> QED BY <1>1, <2>1 DEF Task, Tasks, Connecting, Serving
<1>5. model >= 1 /\ IsOver(model)
  BY <1>3 DEF IInv, Superseded
<1>6. /\ todo' \in [Threads -> Seq(Work)]
      /\ todo'["wire"] = todo["wire"] /\ todo'["game"] = todo["game"]
      /\ Todo("main")' \subseteq ModelWork \cup {End(Eternal)}
      /\ \A l : Take(l) \notin Todo("main")'
      /\ Todo("main")' \cap ModelActs = {}
      /\ client_current' \in ModelLifetimes \cup {Eternal}
      /\ alive /\ viewing /\ Client \notin terminated => End(client_current) \in Todo("main")'
  <2>1. Todo("main") = {} /\ client_current \in ModelLifetimes \cup {Eternal}
    BY <1>3, AtWork DEF IInv, LTypes
  <2>2. CASE alive /\ viewing /\ CanAdd(Client)
    <3>1. todo' = [todo EXCEPT !["main"] = <<End(client_current)>>] /\ client_current' = Eternal
      BY <2>2 DEF SetDead
    <3>2. /\ End(client_current) \in ModelWork \cup {End(Eternal)}
          /\ End(client_current) \in Work /\ End(client_current) \notin ModelActs
          /\ \A l : Take(l) # End(client_current)
      BY <2>1, WorkSets, ActionFields DEF Work
    <3>3. <<End(client_current)>> \in Seq(Work) /\ Range(<<End(client_current)>>) = {End(client_current)}
      BY <3>2, RangeOfSingle
    <3>4. /\ todo' \in [Threads -> Seq(Work)] /\ todo'["main"] = <<End(client_current)>>
          /\ todo'["wire"] = todo["wire"] /\ todo'["game"] = todo["game"]
      BY <3>1, <3>3, LifetimesAre DEF IInv, LTypes
    <3> QED BY <3>1, <3>2, <3>3, <3>4 DEF Todo
  <2>3. CASE ~(alive /\ viewing /\ CanAdd(Client))
    <3>1. UNCHANGED <<todo, client_current>>
      BY <2>3 DEF SetDead
    <3> QED BY <2>1, <2>3, <3>1 DEF IInv, LTypes, Todo, CanAdd
  <2> QED BY <2>2, <2>3
<1>7. Threads = {"wire", "main", "game"}
  BY LifetimesAre
<1>8. \A t \in Threads : Todo(t)' \cap ModelActs \subseteq Todo(t)
  BY <1>6, <1>7 DEF Todo
<1>9. LTypes' /\ Holders' /\ Exclusion'
  <2>1. LTypes'
    BY <1>1, <1>2, <1>3, <1>4, <1>6, SMTT(20) DEF IInv, LTypes, linkvars, modelvars, others
  <2>2. Holders' /\ Exclusion'
    BY <1>1, <1>4, SMT DEF IInv, Holders, Acts, Exclusion, others
  <2> QED BY <2>1, <2>2
<1>10. Workers'
  BY <1>1, <1>4, <1>6, <1>7 DEF IInv, Workers, Todo, linkvars, others
<1>11. Sequential'
  BY <1>1, <1>6, SMT DEF IInv, Sequential, Acts, Todo, Cleaned, IsOver, linkvars
<1>12. Once' /\ Numbers' /\ Superseded'
  BY <1>1, <1>4, <1>8, RunKeeps DEF Acts, linkvars
<1>13. Dies' /\ Unbinds'
  BY <1>1, <1>2, <1>3, <1>4, <1>6, SMT DEF IInv, Dies, Unbinds, Connecting, Acts, Todo, modelvars
<1>14. Serves'
  <2>1. Client \notin terminated /\ (client # 0 \/ delegates # 0) => alive /\ viewing
    BY DEF IInv, Serves
  <2>2. ASSUME Client \notin terminated, NEW a, Due(a), alive, viewing PROVE Due(a)'
    <3>1. client_current \in ModelLifetimes /\ a \in Acts(client_current)
      BY <1>3, <2>2 DEF IInv, LTypes, Due
    <3>2. End(client_current) \in Todo("main")' /\ a \in Range(actions'[client_current])
      BY <1>1, <1>6, <2>2, <3>1 DEF Acts
    <3> QED BY <1>4, <3>1, <3>2 DEF Due, Acts
  <2>3. /\ Client \notin terminated =>
              /\ client # 0 => Due(Do("reset"))
              /\ delegates # 0 => Due(Do("removeDelegates"))
              /\ {client, delegates} \subseteq {0, model}
    BY <1>3 DEF IInv, Serves
  <2> QED BY <1>1, <1>4, <1>5, <2>1, <2>2, <2>3 DEF Serves, IsOver, Serving, modelvars
<1>15. Uses'
  BY <1>1, <1>2, UsesMove DEF Names
<1> QED BY <1>9, <1>10, <1>11, <1>12, <1>13, <1>14, <1>15 DEF IInv

\* When the thread of the scheduler is done, the client and its delegates are gone.
LEMMA DiedKeeps == ASSUME IInv, Observed, Died PROVE IInv'
<1>1. /\ main.op = "dying" /\ todo["main"] = <<>> /\ alive' = FALSE /\ TaskEnds
      /\ UNCHANGED <<ltvars, linkvars, queue, model, bound, subscription, clientvars, others>>
  BY DEF Died, At, Busy
<1>2. /\ raced' = raced /\ raced' \in BOOLEAN /\ orderly' \in BOOLEAN
      /\ orderly' => orderly /\ Client \notin terminated
  BY <1>1, Calm DEF ltvars
<1>3. /\ main' = Idle /\ main'.op = "idle" /\ ~main'.locked
      /\ main' \in Tasks({"idle", "dying"} \cup Connecting \cup Serving)
      /\ "idle" \notin Connecting \cup Serving
  BY <1>1, Ends DEF Connecting, Serving
<1>4. Client \notin terminated => client = 0 /\ delegates = 0
  <2>1. Todo("main") = {}
    BY <1>1, RangeOfNone DEF Todo
  <2>2. \A a : ~Due(a)
    BY <1>1, <2>1 DEF Due
  <2> QED BY <1>1, <2>2 DEF IInv, Serves
<1>5. LTypes' /\ Holders' /\ Exclusion' /\ Once'
  <2>1. LTypes'
    BY <1>1, <1>2, <1>3, ZenonT(40) DEF IInv, LTypes, ltvars, linkvars, clientvars, others
  <2> QED BY <1>1, <1>3, <2>1 DEF IInv, Holders, Acts, Exclusion, Once, ltvars, linkvars, clientvars, others
<1>6. Workers' /\ Sequential'
  BY <1>1, <1>3, SMT DEF IInv, Workers, Sequential, Acts, Todo, Cleaned, IsOver, ltvars, linkvars, others
<1>7. Numbers'
  BY <1>1, <1>3, SMT DEF IInv, Numbers, ltvars, linkvars
<1>8. Superseded'
  BY <1>1, <1>3, SupersededStays DEF Acts, Todo, ltvars, linkvars
<1>9. Dies' /\ Unbinds'
  BY <1>1, <1>2, <1>3, SMT DEF IInv, Dies, Unbinds, Acts, Todo, Connecting, ltvars
<1>10. Serves'
  BY <1>1, <1>3, <1>4 DEF Serves, ltvars, clientvars
<1>11. Uses'
  <2>1. orderly' => \A i \in 1 .. Len(queue) : queue[i].op # "use"
    BY <1>1, <1>2 DEF IInv, Uses
  <2> QED BY <1>1, <1>2, <1>4, <2>1 DEF Uses, ltvars, clientvars
<1> QED BY <1>5, <1>6, <1>7, <1>8, <1>9, <1>10, <1>11 DEF IInv

-----------------------------------------------------------------------------
(* The client                                                              *)

\* A step of the client in the constructor, which changes its own lifetimes.
LEMMA ClientStep ==
    ASSUME IInv, Observed, main.op \in Serving,
           main' \in Tasks({"idle", "dying"} \cup Connecting \cup Serving),
           main'.op \in Serving \cup {"idle"}, main'.op = "idle" => main' = Idle,
           main'.locked => main.locked,
           UNCHANGED <<terminated, todo, linkvars, queue, modelvars, viewing, others>>,
           client_current' \in ModelLifetimes \cup {Eternal},
           {client', delegates'} \subseteq 0 .. MaxConnections,
           actions' \in [Lifetimes -> Seq(Work)],
           \A l \in Lifetimes : l \notin ModelLifetimes \cup {Client} => actions'[l] = actions[l],
           Range(actions'[Client]) \subseteq Acts(Client) \cup {End(l) : l \in ModelLifetimes},
           \A l \in ModelLifetimes :
              Range(actions'[l]) \subseteq Acts(l) \cup {Detach(Client, l)} \cup ClientActs
    PROVE  /\ LTypes' /\ Holders' /\ Workers' /\ Exclusion' /\ Once'
           /\ Sequential' /\ Numbers' /\ Superseded' /\ Dies' /\ Unbinds'
           /\ raced' = raced
           /\ orderly' => orderly /\ Client \notin terminated
<1>1. /\ raced' = raced /\ raced' \in BOOLEAN /\ orderly' \in BOOLEAN
      /\ orderly' => orderly /\ Client \notin terminated
  BY Calm
<1>2. /\ main.op \notin Connecting \cup {"idle", "dying"}
      /\ main'.op \notin Connecting \cup {"dying"}
  BY DEF Connecting, Serving
<1>3. /\ \A l \in Connections : actions'[l] = actions[l]
      /\ \A n \in Models : actions'[Connection(n)] = actions[Connection(n)]
      /\ \A l \in {View, Wire, Module} : actions'[l] = actions[l]
  BY LifetimesAre
<1>4. LTypes'
  BY <1>1 DEF IInv, LTypes, linkvars, modelvars, others
<1>5. Holders'
  BY <1>3 DEF IInv, Holders, Acts
<1>6. Exclusion' /\ Once' /\ Workers'
  BY <1>2 DEF IInv, Exclusion, Once, Workers, Todo, linkvars, others
<1>7. Sequential'
  <2>1. wire = "ending" => connections \in Models
    BY MaxIsNat, SMT DEF IInv, LTypes, Sequential, Models
  <2> QED BY <1>3, <2>1, SMT DEF IInv, Sequential, Acts, Todo, Cleaned, IsOver, linkvars
<1>8. Numbers'
  BY <1>2 DEF IInv, Numbers, linkvars, modelvars
<1>9. Superseded'
  BY <1>2, <1>3, SupersededStays DEF Acts, Todo, linkvars, modelvars
<1>10. alive \/ bound \/ subscription # 0 => model \in Models
  BY MaxIsNat, SMT DEF IInv, LTypes, Numbers, Models
<1>11. Dies'
  <2>1. main'.op # "alive" /\ main.op # "dying"
    BY <1>2 DEF Connecting
  <2> QED BY <1>3, <1>10, <2>1 DEF IInv, Dies, Queued, Acts, Todo, linkvars, modelvars
<1>12. Unbinds'
  <2>1. main'.op \notin {"bound", "advised"} /\ main.op \notin {"bound", "advised"}
    BY <1>2 DEF Connecting
  <2> QED BY <1>1, <1>3, <1>10, <2>1 DEF IInv, Unbinds, Acts, Todo, linkvars, modelvars
<1> QED BY <1>1, <1>4, <1>5, <1>6, <1>7, <1>8, <1>9, <1>11, <1>12

\* What the client adds to its lifetime, which may be the eternal one.
LEMMA ClientAdds ==
    ASSUME IInv, NEW l \in ModelLifetimes \cup {Eternal},
           NEW x \in {"reset", "removeDelegates", "uninitialize"}, actions' = Added(l, Do(x))
    PROVE  /\ actions' \in [Lifetimes -> Seq(Work)]
           /\ \A m \in Lifetimes : m # l => actions'[m] = actions[m]
           /\ \A m \in Lifetimes : m \notin ModelLifetimes \cup {Client} => actions'[m] = actions[m]
           /\ Range(actions'[Client]) = Acts(Client)
           /\ \A m \in ModelLifetimes : /\ Range(actions'[m]) \subseteq Acts(m) \cup ClientActs
                                        /\ Acts(m) \subseteq Range(actions'[m])
           /\ l \in ModelLifetimes => Do(x) \in Range(actions'[l])
<1>1. x \in Ops /\ Do(x) \in ClientActs
  BY WorkSets DEF Ops
<1>2. l \in Lifetimes \cup {Eternal}
  BY LifetimesAre
<1>3. /\ actions' \in [Lifetimes -> Seq(Work)]
      /\ l # Eternal => Range(actions'[l]) = Acts(l) \cup {Do(x)}
      /\ \A m \in Lifetimes : m # l => actions'[m] = actions[m]
  BY <1>1, <1>2, AddEffect DEF IInv
<1>4. /\ Client \in Lifetimes /\ l # Client /\ Eternal \notin Lifetimes
      /\ \A m \in ModelLifetimes : m \in Lifetimes /\ m # Eternal
  BY LifetimesAre
<1>5. \A m \in Lifetimes : m # l => Range(actions'[m]) = Acts(m)
  BY <1>3 DEF Acts
<1>6. \A m \in Lifetimes : m # l \/ Range(actions'[m]) = Acts(m) \cup {Do(x)}
  BY <1>3, <1>4
<1> QED BY <1>1, <1>3, <1>4, <1>5, <1>6

\* The lifetime of the client's model is new.
LEMMA ClientLifetimeKeeps == ASSUME IInv, Observed, ClientLifetime PROVE IInv'
<1>1. /\ main.op = "view" /\ main.op \in Serving
      /\ UNCHANGED <<terminated, todo, linkvars, queue, modelvars, viewing, client, delegates, others>>
  BY DEF ClientLifetime, At, Serving
<1>2. CASE Client \in terminated
  <2>1. TaskEnds /\ UNCHANGED <<actions, client_current>>
    BY <1>2 DEF ClientLifetime, CanAdd
  <2> QED BY <1>1, <2>1, FailsKeeps DEF ltvars, clientvars
<1>3. CASE Client \notin terminated
  <2> DEFINE l == ModelLifetime(model)
  <2>1. actions' = Attached(Client, l) /\ client_current' = l /\ Go("reset")
    BY <1>3 DEF ClientLifetime, CanAdd
  <2>2. alive /\ viewing /\ client = 0 /\ delegates = 0
    BY <1>1, <1>3 DEF IInv, Serves
  <2>3. model \in Models
    BY <2>2, MaxIsNat, SMT DEF IInv, LTypes, Numbers, Models
  <2>4. l \in ModelLifetimes /\ l \in Lifetimes /\ l # Client /\ Client \in Lifetimes
    BY <2>3, LifetimesAre
  <2> HIDE DEF l
  <2>5. Detach(Client, l) \in Work
    BY <2>4, WorkSets DEF Work
  <2>6. /\ actions' \in [Lifetimes -> Seq(Work)]
        /\ Range(actions'[Client]) = Acts(Client) \cup {End(l)}
        /\ Range(actions'[l]) = {Detach(Client, l)}
        /\ \A m \in Lifetimes : m \notin {Client, l} => actions'[m] = actions[m]
    BY <2>1, <2>4, <2>5, AttachEffect DEF IInv
  <2>7. /\ main' \in Tasks({"idle", "dying"} \cup Connecting \cup Serving)
        /\ main'.op = "reset" /\ main'.op \in Serving /\ main'.locked = main.locked
        /\ main'.op # "idle"
    BY <2>1, Going DEF IInv, Serving
  <2>8. \A m \in ModelLifetimes :
           Range(actions'[m]) \subseteq Acts(m) \cup {Detach(Client, m)} \cup ClientActs
    BY <2>4, <2>6, LifetimesAre DEF Acts
  <2>9. /\ LTypes' /\ Holders' /\ Workers' /\ Exclusion' /\ Once'
        /\ Sequential' /\ Numbers' /\ Superseded' /\ Dies' /\ Unbinds'
        /\ orderly' => orderly /\ Client \notin terminated
    <3>1. /\ client_current' \in ModelLifetimes \cup {Eternal}
          /\ {client', delegates'} \subseteq 0 .. MaxConnections
          /\ \A m \in Lifetimes : m \notin ModelLifetimes \cup {Client} => actions'[m] = actions[m]
          /\ Range(actions'[Client]) \subseteq Acts(Client) \cup {End(m) : m \in ModelLifetimes}
      BY <1>1, <2>1, <2>4, <2>6 DEF IInv, LTypes
    <3> QED BY <1>1, <2>6, <2>7, <2>8, <3>1, ClientStep
  <2>10. Serves'
    BY <1>1, <2>1, <2>2, <2>7 DEF Serves, l, modelvars
  <2>11. Uses'
    BY <1>1, <2>2, <2>7, <2>9 DEF IInv, Uses
  <2> QED BY <2>9, <2>10, <2>11 DEF IInv
<1> QED BY <1>2, <1>3

\* The client will be reset before it exists.
LEMMA AddResetKeeps == ASSUME IInv, Observed, AddReset PROVE IInv'
<1>1. /\ main.op = "reset" /\ main.op \in Serving
      /\ UNCHANGED <<terminated, todo, linkvars, queue, modelvars, clientvars, others>>
  BY DEF AddReset, At, Serving
<1>2. CASE ~CanAdd(client_current)
  <2>1. TaskEnds /\ UNCHANGED actions
    BY <1>2 DEF AddReset
  <2> QED BY <1>1, <2>1, FailsKeeps DEF ltvars
<1>3. CASE CanAdd(client_current)
  <2> DEFINE l == client_current
  <2>1. /\ actions' = Added(l, Do("reset")) /\ l \notin terminated
        /\ main' = [main EXCEPT !.op = "delegates", !.model = model, !.lifetime = client_current]
    BY <1>3 DEF AddReset, CanAdd
  <2>2. /\ Client \notin terminated => /\ alive /\ viewing /\ client = 0 /\ delegates = 0
                                       /\ l = ModelLifetime(model)
        /\ l \in ModelLifetimes \cup {Eternal} /\ model \in 0 .. MaxConnections
    BY <1>1 DEF IInv, LTypes, Serves
  <2>3. Client \notin terminated => l \in ModelLifetimes
    BY <2>2, NeverEternal
  <2>4. /\ actions' \in [Lifetimes -> Seq(Work)]
        /\ \A m \in Lifetimes : m \notin ModelLifetimes \cup {Client} => actions'[m] = actions[m]
        /\ Range(actions'[Client]) = Acts(Client)
        /\ \A m \in ModelLifetimes : Range(actions'[m]) \subseteq Acts(m) \cup ClientActs
        /\ l \in ModelLifetimes => Do("reset") \in Range(actions'[l])
    BY <2>1, <2>2, ClientAdds
  <2>5. /\ main' \in Tasks({"idle", "dying"} \cup Connecting \cup Serving)
        /\ main'.op = "delegates" /\ main'.op \in Serving /\ main'.locked = main.locked
        /\ main'.op # "idle" /\ main'.lifetime = l
    BY <2>1, <2>2 DEF IInv, LTypes, Tasks, Serving
  <2>6. /\ LTypes' /\ Holders' /\ Workers' /\ Exclusion' /\ Once'
        /\ Sequential' /\ Numbers' /\ Superseded' /\ Dies' /\ Unbinds'
        /\ orderly' => orderly /\ Client \notin terminated
    <3>1. /\ client_current' \in ModelLifetimes \cup {Eternal}
          /\ {client', delegates'} \subseteq 0 .. MaxConnections
          /\ viewing' = viewing
      BY <1>1 DEF IInv, LTypes, clientvars
    <3> QED BY <1>1, <2>4, <2>5, <3>1, ClientStep
  <2>7. Serves'
    BY <1>1, <2>1, <2>2, <2>3, <2>4, <2>5 DEF Serves, Acts, modelvars, clientvars
  <2>8. Uses'
    BY <1>1, <2>2, <2>5, <2>6 DEF IInv, Uses, clientvars
  <2> QED BY <2>6, <2>7, <2>8 DEF IInv
<1> QED BY <1>2, <1>3

\* The delegates are added while the lifetime lasts, ...
LEMMA AddDelegatesKeeps == ASSUME IInv, Observed, AddDelegates PROVE IInv'
<1>1. /\ main.op = "delegates" /\ main.op \in Serving
      /\ UNCHANGED <<ltvars, linkvars, queue, modelvars, viewing, client_current, client, others>>
  BY DEF AddDelegates, At, Serving
<1>2. /\ Client \notin terminated =>
            /\ alive /\ viewing /\ client = 0 /\ delegates = 0
            /\ client_current = ModelLifetime(model) /\ main.lifetime = client_current
            /\ client_current \notin terminated
            /\ Do("reset") \in Acts(client_current)
      /\ main.lifetime \in ModelLifetimes \cup {Eternal}
  BY <1>1 DEF IInv, Serves
<1>3. /\ \/ main'.op = "use" /\ delegates' = delegates /\ Client \in terminated
         \/ main'.op = "removal" /\ delegates' = model
      /\ main' \in Tasks({"idle", "dying"} \cup Connecting \cup Serving)
      /\ main'.op \in Serving /\ main'.op # "idle"
      /\ main'.lifetime = main.lifetime /\ main'.locked = main.locked
  <2>1. CASE Ended
    <3>1. Go("use") /\ UNCHANGED delegates /\ Client \in terminated
      BY <1>2, <2>1 DEF AddDelegates, Ended, CanAdd
    <3> QED BY <3>1, Going DEF IInv, Serving
  <2>2. CASE ~Ended
    <3>1. Go("removal") /\ delegates' = model
      BY <2>2 DEF AddDelegates
    <3> QED BY <3>1, Going DEF IInv, Serving
  <2> QED BY <2>1, <2>2
<1>4. /\ LTypes' /\ Holders' /\ Workers' /\ Exclusion' /\ Once'
      /\ Sequential' /\ Numbers' /\ Superseded' /\ Dies' /\ Unbinds'
      /\ orderly' => orderly /\ Client \notin terminated
  <2>1. /\ client_current' \in ModelLifetimes \cup {Eternal}
        /\ {client', delegates'} \subseteq 0 .. MaxConnections
        /\ actions' \in [Lifetimes -> Seq(Work)]
        /\ UNCHANGED <<terminated, todo, actions>>
    BY <1>1, <1>3 DEF IInv, LTypes, ltvars
  <2>2. /\ \A l \in Lifetimes : actions'[l] = actions[l]
        /\ Range(actions'[Client]) \subseteq Acts(Client)
        /\ \A l \in ModelLifetimes : Range(actions'[l]) \subseteq Acts(l)
    BY <2>1 DEF Acts
  <2>3. /\ Range(actions'[Client]) \subseteq Acts(Client) \cup {End(l) : l \in ModelLifetimes}
        /\ \A l \in ModelLifetimes :
              Range(actions'[l]) \subseteq Acts(l) \cup {Detach(Client, l)} \cup ClientActs
    BY <2>2
  <2> QED BY <1>1, <1>3, <2>1, <2>2, <2>3, ClientStep
<1>5. Serves'
  BY <1>1, <1>2, <1>3 DEF Serves, Acts, ltvars, modelvars
<1>6. Uses'
  BY <1>1, <1>2, <1>3, <1>4 DEF IInv, Uses, ltvars
<1> QED BY <1>4, <1>5, <1>6 DEF IInv

\* ... and so is their removal.
LEMMA AddRemovalKeeps == ASSUME IInv, Observed, AddRemoval PROVE IInv'
<1>1. /\ main.op = "removal" /\ main.op \in Serving
      /\ UNCHANGED <<terminated, todo, linkvars, queue, modelvars, clientvars, others>>
  BY DEF AddRemoval, At, Serving
<1>2. /\ Client \notin terminated =>
            /\ alive /\ viewing /\ client = 0 /\ {client, delegates} \subseteq {0, model}
            /\ client_current = ModelLifetime(model) /\ main.lifetime = client_current
            /\ client_current \notin terminated
            /\ Do("reset") \in Acts(client_current)
      /\ client_current \in ModelLifetimes \cup {Eternal}
  BY <1>1 DEF IInv, LTypes, Serves
<1>3. CASE Ended
  <2>1. TaskEnds /\ UNCHANGED actions /\ Client \in terminated
    BY <1>2, <1>3 DEF AddRemoval, Ended, CanAdd
  <2> QED BY <1>1, <2>1, FailsKeeps DEF ltvars
<1>4. CASE ~Ended
  <2> DEFINE l == main.lifetime
  <2>1. Go("use") /\ actions' = Added(l, Do("removeDelegates"))
    BY <1>4 DEF AddRemoval, AddToLifetime
  <2>2. l \in ModelLifetimes \cup {Eternal}
    BY <1>1 DEF IInv, Serves
  <2>3. Client \notin terminated => l \in ModelLifetimes
    BY <1>2, NeverEternal
  <2>4. /\ actions' \in [Lifetimes -> Seq(Work)]
        /\ \A m \in Lifetimes : m \notin ModelLifetimes \cup {Client} => actions'[m] = actions[m]
        /\ Range(actions'[Client]) = Acts(Client)
        /\ \A m \in ModelLifetimes : /\ Range(actions'[m]) \subseteq Acts(m) \cup ClientActs
                                     /\ Acts(m) \subseteq Range(actions'[m])
        /\ l \in ModelLifetimes => Do("removeDelegates") \in Range(actions'[l])
    BY <2>1, <2>2, ClientAdds
  <2>5. /\ main' \in Tasks({"idle", "dying"} \cup Connecting \cup Serving)
        /\ main'.op = "use" /\ main'.op \in Serving /\ main'.locked = main.locked
        /\ main'.op # "idle" /\ main'.lifetime = l
    BY <2>1, Going DEF IInv, Serving
  <2>6. /\ LTypes' /\ Holders' /\ Workers' /\ Exclusion' /\ Once'
        /\ Sequential' /\ Numbers' /\ Superseded' /\ Dies' /\ Unbinds'
        /\ orderly' => orderly /\ Client \notin terminated
    <3>1. /\ client_current' \in ModelLifetimes \cup {Eternal}
          /\ {client', delegates'} \subseteq 0 .. MaxConnections
          /\ viewing' = viewing
      BY <1>1 DEF IInv, LTypes, clientvars
    <3> QED BY <1>1, <2>4, <2>5, <3>1, ClientStep
  <2>7. Serves'
    <3>1. Client \notin terminated =>
             /\ Do("reset") \in Range(actions'[client_current])
             /\ Do("removeDelegates") \in Range(actions'[client_current])
             /\ client_current # Eternal
      BY <1>2, <2>3, <2>4, NeverEternal
    <3> QED BY <1>1, <1>2, <2>2, <2>5, <3>1 DEF Serves, Due, Acts, modelvars, clientvars
  <2>8. Uses'
    BY <1>1, <2>5, <2>6 DEF IInv, Uses, clientvars
  <2> QED BY <2>6, <2>7, <2>8 DEF IInv
<1> QED BY <1>3, <1>4

\* The client is assigned when all that will undo it is in place.
LEMMA ConstructKeeps == ASSUME IInv, Observed, Construct PROVE IInv'
<1> DEFINE l == main.lifetime
<1>1. /\ main.op = "use" /\ main.op \in Serving /\ TaskEnds
      /\ client' = IF bound THEN model ELSE client
      /\ IF bound /\ ~Ended THEN actions' = Added(l, Do("uninitialize")) ELSE UNCHANGED actions
      /\ UNCHANGED <<terminated, todo, linkvars, queue, modelvars, viewing, client_current, delegates, others>>
  BY DEF Construct, At, Serving, AddToLifetime
<1>2. /\ Client \notin terminated =>
            /\ alive /\ viewing /\ client = 0 /\ {client, delegates} \subseteq {0, model}
            /\ client_current = ModelLifetime(model)
            /\ Do("reset") \in Acts(client_current)
            /\ delegates # 0 => Do("removeDelegates") \in Acts(client_current)
      /\ l \in ModelLifetimes \cup {Eternal}
      /\ {client, model, delegates} \subseteq 0 .. MaxConnections
      /\ client_current \in ModelLifetimes \cup {Eternal}
  BY <1>1 DEF IInv, LTypes, Serves, Due
<1>3. /\ main' = Idle /\ main'.op = "idle" /\ ~main'.locked
      /\ main' \in Tasks({"idle", "dying"} \cup Connecting \cup Serving)
      /\ "idle" \notin Serving
  BY <1>1, Ends DEF Serving
<1>4. /\ actions' \in [Lifetimes -> Seq(Work)]
      /\ \A m \in Lifetimes : m \notin ModelLifetimes \cup {Client} => actions'[m] = actions[m]
      /\ Range(actions'[Client]) = Acts(Client)
      /\ \A m \in ModelLifetimes : /\ Range(actions'[m]) \subseteq Acts(m) \cup ClientActs
                                   /\ Acts(m) \subseteq Range(actions'[m])
  <2>1. CASE bound /\ ~Ended
    <3>1. actions' = Added(l, Do("uninitialize"))
      BY <1>1, <2>1
    <3> HIDE DEF l
    <3> QED BY <1>2, <3>1, ClientAdds
  <2>2. CASE ~(bound /\ ~Ended)
    <3>1. UNCHANGED actions
      BY <1>1, <2>2
    <3> QED BY <3>1 DEF IInv, LTypes, Acts
  <2> QED BY <2>1, <2>2
<1>5. /\ LTypes' /\ Holders' /\ Workers' /\ Exclusion' /\ Once'
      /\ Sequential' /\ Numbers' /\ Superseded' /\ Dies' /\ Unbinds'
      /\ orderly' => orderly /\ Client \notin terminated
  <2>1. {client', delegates'} \subseteq 0 .. MaxConnections
    BY <1>1, <1>2
  <2>2. client_current' \in ModelLifetimes \cup {Eternal}
    BY <1>1, <1>2
  <2> QED BY <1>1, <1>3, <1>4, <2>1, <2>2, ClientStep
<1>6. Serves'
  <2>1. Client \notin terminated =>
           /\ client_current # Eternal
           /\ Do("reset") \in Range(actions'[client_current])
           /\ delegates # 0 => Do("removeDelegates") \in Range(actions'[client_current])
    BY <1>2, <1>4, NeverEternal
  <2>2. Client \notin terminated => {client', delegates} \subseteq {0, model}
    BY <1>1, <1>2
  <2> QED BY <1>1, <1>2, <1>3, <2>1, <2>2 DEF Serves, Due, Acts, modelvars
<1>7. Uses'
  <2>1. orderly' => client' = model
    BY <1>1, <1>3, MCFacts DEF IInv, ConstructorThrew
  <2> QED BY <1>1, <1>2, <1>3, <1>5, <2>1 DEF IInv, Uses
<1> QED BY <1>5, <1>6, <1>7 DEF IInv

-----------------------------------------------------------------------------
(* What is queued without a new connection, and the other threads          *)

\* What is queued for the scheduler by an engine event, or by an action of a lifetime.
LEMMA Queues ==
    ASSUME IInv, NEW e \in Waiting, queue' = Append(queue, e), e.op \in {"dead", "use"},
           e.op = "dead" => ~Queued /\ model >= 1 /\ IsOver(model),
           UNCHANGED <<terminated, linkvars, main, viewing, model>>,
           alive' \/ bound' \/ subscription' # 0 => alive \/ bound \/ subscription # 0,
           \A t \in Threads : Todo(t)' \cap ModelActs \subseteq Todo(t),
           \A n \in Models : Acts(Connection(n))' \cap ModelActs \subseteq Acts(Connection(n))
    PROVE  /\ queue' \in Seq(Waiting) /\ Once' /\ Numbers' /\ Superseded'
           /\ Queued' => Queued
           /\ \A i \in 1 .. Len(queue) : i \in 1 .. Len(queue') /\ queue'[i] = queue[i]
           /\ \A i \in 1 .. Len(queue') :
                 \/ i \in 1 .. Len(queue) /\ \A j \in 1 .. i : j \in 1 .. Len(queue)
                 \/ queue'[i] = e /\ \A j \in 1 .. i : j = i \/ j \in 1 .. Len(queue)
           /\ \E i \in 1 .. Len(queue') : queue'[i] = e
<1> DEFINE n == Len(queue) + 1
<1>1. /\ queue' \in Seq(Waiting) /\ Len(queue) \in Nat /\ Len(queue') = n
      /\ \A i \in 1 .. Len(queue) : queue'[i] = queue[i]
      /\ queue'[n] = e
      /\ \A i \in 1 .. Len(queue') : i \in 1 .. Len(queue) \/ i = n
  BY QueueAppend DEF IInv
<1>2. /\ n \in 1 .. Len(queue') /\ n \in Nat
      /\ \A i \in 1 .. Len(queue) : i \in 1 .. Len(queue') /\ i < n
      /\ \A i \in 1 .. Len(queue) : \A j \in 1 .. i : j \in 1 .. Len(queue)
      /\ \A j \in 1 .. n : j = n \/ j \in 1 .. Len(queue)
      /\ \A i \in 1 .. Len(queue) : \A j \in i + 1 .. n : j = n \/ j \in i + 1 .. Len(queue)
  BY <1>1, SMT
<1> HIDE DEF n
<1>3. \A i \in 1 .. Len(queue') : queue'[i].op = "connect" => i \in 1 .. Len(queue) /\ queue'[i] = queue[i]
  BY <1>1
<1>4. Queued' => Queued
  BY <1>3 DEF Queued
<1>5. Once'
  <2>1. ASSUME NEW i \in 1 .. Len(queue'), queue'[i].op \in {"init", "view"}
        PROVE  i \in 1 .. Len(queue) /\ queue'[i] = queue[i]
    BY <1>1, <2>1
  <2> QED BY <2>1 DEF IInv, Once, linkvars
<1>6. Numbers'
  BY <1>3 DEF IInv, Numbers, linkvars
<1>7. Superseded'
  <2>1. Coming' => Coming
    BY <1>4 DEF Coming, linkvars
  <2>2. (Quiet => Quiet') /\ \A m \in Models : Cleaned(m) => Cleaned(m)'
    BY DEF Quiet, Cleaned
  <2>3. (\E t \in Threads : Todo(t)' \cap ModelActs # {}) => \E t \in Threads : Todo(t) \cap ModelActs # {}
    OBVIOUS
  <2>4. \A i \in 1 .. Len(queue') :
          queue'[i].op = "connect"
             /\ (wire \in {"set", "handler"} \/ \E j \in i + 1 .. Len(queue') : queue'[j].op = "connect")
          => IsOver(queue'[i].model) /\ queue'[i].lifetime # Eternal
    <3> SUFFICES ASSUME NEW i \in 1 .. Len(queue'), queue'[i].op = "connect",
                        wire \in {"set", "handler"} \/ \E j \in i + 1 .. Len(queue') : queue'[j].op = "connect"
                 PROVE  IsOver(queue'[i].model) /\ queue'[i].lifetime # Eternal
      OBVIOUS
    <3>1. i \in 1 .. Len(queue) /\ queue'[i] = queue[i]
      BY <1>3
    <3>2. wire \in {"set", "handler"} \/ \E j \in i + 1 .. Len(queue) : queue[j].op = "connect"
      <4>1. ASSUME NEW j \in i + 1 .. Len(queue'), queue'[j].op = "connect"
            PROVE  j \in i + 1 .. Len(queue) /\ queue[j].op = "connect"
        <5>1. j = n \/ j \in i + 1 .. Len(queue)
          BY <1>1, <1>2, <3>1
        <5>2. j # n
          BY <1>1, <4>1
        <5>3. j \in 1 .. Len(queue')
          BY <1>1, <3>1, SMT
        <5> QED BY <1>3, <4>1, <5>1, <5>2, <5>3
      <4> QED BY <4>1
    <3> QED BY <3>1, <3>2 DEF IInv, Superseded
  <2>5. \A i, j \in 1 .. Len(queue') : queue'[i].op = "dead" /\ queue'[j].op = "connect" => i < j
    <3>1. e.op = "dead" => \A j \in 1 .. Len(queue') : queue'[j].op # "connect"
      BY <1>3 DEF Queued
    <3> QED BY <1>1, <1>3, <3>1 DEF IInv, Superseded
  <2>6. (\E i \in 1 .. Len(queue') : queue'[i].op = "dead") => model >= 1 /\ IsOver(model)
    BY <1>1 DEF IInv, Superseded
  <2>7. \A i \in 1 .. Len(queue') :
          queue'[i].op = "connect" /\ queue'[i].lifetime = Eternal => View \in terminated
    BY <1>3 DEF IInv, Superseded
  <2> QED BY <2>1, <2>2, <2>3, <2>4, <2>5, <2>6, <2>7 DEF IInv, Superseded, IsOver, linkvars
<1>8. \A i \in 1 .. Len(queue') :
         \/ i \in 1 .. Len(queue) /\ \A j \in 1 .. i : j \in 1 .. Len(queue)
         \/ queue'[i] = e /\ \A j \in 1 .. i : j = i \/ j \in 1 .. Len(queue)
  BY <1>1, <1>2
<1> QED BY <1>1, <1>2, <1>4, <1>5, <1>6, <1>7, <1>8

\* An engine event before the connection is lost comes before the model dies.
LEMMA EngineEventKeeps == ASSUME IInv, Observed, EngineEvent PROVE IInv'
<1> DEFINE e == Task("use", delegates, Eternal)
<1>1. /\ delegates # 0 /\ events < MaxEvents /\ events' = events + 1 /\ queue' = Append(queue, e)
      /\ UNCHANGED <<ltvars, linkvars, main, modelvars, clientvars, logger, game>>
  BY DEF EngineEvent
<1>2. /\ raced' = raced /\ raced' \in BOOLEAN /\ orderly' \in BOOLEAN
      /\ orderly' => orderly /\ ~LateEvent /\ Client \notin terminated
  BY <1>1, MCFacts DEF IInv, ltvars
<1>3. events' \in 0 .. MaxEvents /\ events' # events
  <2>1. MaxEvents \in Nat /\ events \in 0 .. MaxEvents
    BY RiderLinkAssumption DEF IInv, LTypes
  <2> QED BY <1>1, <2>1, SMT
<1>4. e \in Waiting /\ e.op = "use" /\ e.model = delegates
  <2>1. "use" \in Names /\ delegates \in 0 .. MaxConnections
    BY DEF Names, IInv, LTypes
  <2> QED BY <2>1, NewTask
<1> HIDE DEF e
<1>5. /\ queue' \in Seq(Waiting) /\ Once' /\ Numbers' /\ Superseded'
      /\ Queued' => Queued
      /\ \A i \in 1 .. Len(queue) : i \in 1 .. Len(queue') /\ queue'[i] = queue[i]
      /\ \A i \in 1 .. Len(queue') :
            \/ i \in 1 .. Len(queue) /\ \A j \in 1 .. i : j \in 1 .. Len(queue)
            \/ queue'[i] = e /\ \A j \in 1 .. i : j = i \/ j \in 1 .. Len(queue)
  BY <1>1, <1>4, Queues DEF Acts, Todo, ltvars, modelvars, clientvars
<1>6. LTypes' /\ Holders' /\ Exclusion'
  BY <1>1, <1>2, <1>3, <1>5 DEF IInv, LTypes, Holders, Acts, Exclusion, ltvars, linkvars, modelvars, clientvars
<1>7. Workers' /\ Sequential'
  BY <1>1, SMT DEF IInv, Workers, Sequential, Acts, Todo, Cleaned, IsOver, ltvars, linkvars
<1>8. Dies' /\ Unbinds'
  BY <1>1, <1>2, <1>5 DEF IInv, Dies, Unbinds, Acts, Todo, ltvars, linkvars, modelvars
<1>9. Serves'
  BY <1>1, ServesStays DEF ltvars, modelvars, clientvars
<1>10. Uses'
  <2>1. ASSUME orderly' PROVE model = delegates /\ ~IsOver(model)
    <3>1. Connection(delegates) \notin terminated
      BY <1>2, <1>3, <2>1 DEF LateEvent
    <3>2. delegates \in {0, model}
      BY <1>2, <2>1 DEF IInv, Serves
    <3> QED BY <1>1, <3>1, <3>2 DEF IsOver
  <2>2. orderly' => main.op # "dying"
    BY <1>2, <2>1 DEF IInv, Serves
  <2>3. orderly' => \A i \in 1 .. Len(queue) : queue[i].op # "dead"
    BY <2>1 DEF IInv, Superseded
  <2>4. orderly' => \A i \in 1 .. Len(queue') : queue'[i].op # "dead"
    BY <1>4, <1>5, <2>3
  <2>5. \A i \in 1 .. Len(queue') : \A j \in 1 .. i : j \in 1 .. Len(queue')
    BY <1>5
  <2>6. orderly' => \A i \in 1 .. Len(queue') : queue'[i].op = "use" => queue'[i].model = delegates
    BY <1>2, <1>4, <1>5 DEF IInv, Uses
  <2> QED BY <1>1, <1>2, <2>2, <2>4, <2>5, <2>6 DEF IInv, Uses, ltvars, clientvars
<1> QED BY <1>5, <1>6, <1>7, <1>8, <1>9, <1>10 DEF IInv

\* The logging thread works only while the lock is free.
LEMMA FireAsyncActionKeeps == ASSUME IInv, Observed, FireAsyncAction \/ FireAsyncReturns PROVE IInv'
<1>1. /\ logger' \in {"idle", "locked", "firing"} /\ (logger' # "idle" => ~main.locked)
      /\ UNCHANGED <<ltvars, linkvars, queue, main, modelvars, clientvars, events, game>>
  BY DEF FireAsyncAction, FireAsyncReturns
<1>2. /\ raced' = raced /\ raced' \in BOOLEAN /\ orderly' \in BOOLEAN
      /\ orderly' => orderly /\ Client \notin terminated
  BY <1>1, Calm DEF ltvars
<1>3. LTypes' /\ Holders' /\ Exclusion' /\ Once'
  BY <1>1, <1>2 DEF IInv, LTypes, Holders, Acts, Exclusion, Once, ltvars, linkvars, modelvars, clientvars
<1>4. Workers' /\ Sequential'
  BY <1>1, SMT DEF IInv, Workers, Sequential, Acts, Todo, Cleaned, IsOver, ltvars, linkvars
<1>5. Numbers'
  BY <1>1 DEF IInv, Numbers, ltvars, linkvars, modelvars
<1>6. Superseded'
  BY <1>1, SupersededStays DEF Acts, Todo, ltvars, linkvars, modelvars
<1>7. Dies' /\ Unbinds'
  BY <1>1, <1>2 DEF IInv, Dies, Queued, Unbinds, Acts, Todo, ltvars, linkvars, modelvars
<1>8. Serves'
  BY <1>1, ServesStays DEF ltvars, modelvars, clientvars
<1>9. Uses'
  BY <1>1, <1>2 DEF IInv, Uses, ltvars, clientvars
<1> QED BY <1>3, <1>4, <1>5, <1>6, <1>7, <1>8, <1>9 DEF IInv

\* Steps that change nothing.
LEMMA StutterKeeps ==
    ASSUME IInv, UNCHANGED <<vars, raced>>, orderly' \in BOOLEAN, orderly' => orderly PROVE IInv'
<1>1. UNCHANGED <<ltvars, linkvars, queue, main, modelvars, clientvars, others, raced>>
  BY DEF vars
<1>2. LTypes' /\ Holders' /\ Exclusion' /\ Once'
  BY <1>1 DEF IInv, LTypes, Holders, Acts, Exclusion, Once, ltvars, linkvars, modelvars, clientvars, others
<1>3. Workers' /\ Sequential'
  BY <1>1, SMT DEF IInv, Workers, Sequential, Acts, Todo, Cleaned, IsOver, ltvars, linkvars, others
<1>4. Numbers'
  BY <1>1 DEF IInv, Numbers, ltvars, linkvars, modelvars
<1>5. Superseded'
  BY <1>1, SupersededStays DEF Acts, Todo, ltvars, linkvars, modelvars
<1>6. Dies' /\ Unbinds'
  BY <1>1 DEF IInv, Dies, Queued, Unbinds, Acts, Todo, ltvars, linkvars, modelvars
<1>7. Serves'
  BY <1>1, ServesStays DEF ltvars, modelvars, clientvars
<1>8. Uses'
  BY <1>1 DEF IInv, Uses, ltvars, clientvars
<1> QED BY <1>2, <1>3, <1>4, <1>5, <1>6, <1>7, <1>8 DEF IInv

\* What the end of the client, of the view and of the module do concerns no model.
LEMMA GameWork ==
    /\ \A l \in {Client, Module} : /\ End(l) \in Work /\ End(l) \notin ViewWork \cup ClientWork
                                   /\ End(l) \notin ModelActs
                                   /\ \A m : Take(m) # End(l)
    /\ \A a \in ModelActs : a.op \in {"unbind", "unsubscribe", "dead"}
<1>1. /\ \A l : End(l) \in ConnectionWork => l \in Connections
      /\ \A l : End(l) \in ModelWork => l \in ModelLifetimes
      /\ \A l : End(l).op = "terminate" /\ Take(l).op = "take"
      /\ \A l, m : End(l) # Detach(m, l)
      /\ \A p, l : Detach(p, l).op = "erase"
      /\ \A x : Do(x).op = x
      /\ \A a \in ModelActs : a.op \in {"unbind", "unsubscribe", "dead"}
      /\ {End(Client), End(Module)} \subseteq ModuleWork /\ ModuleWork \subseteq Work
  BY WorkSets, ActionFields DEF ModuleWork, Work
<1>2. \A l \in {Client, Module} : l \notin Connections \cup ModelLifetimes
  BY LifetimesAre
<1> QED BY <1>1, <1>2 DEF ViewWork, ClientWork

\* The shutdown begins with a lifetime, and the game thread is not yet at what is below
\* it.
LEMMA ShutdownKeeps ==
    ASSUME IInv, Observed, NEW from, NEW to \in {"client", "shutdown"}, NEW l \in {Client, Module},
           Shutdown(from, to, l)
    PROVE  IInv'
<1>1. /\ todo["game"] = <<>> /\ game' = to
      /\ todo' = [todo EXCEPT !["game"] = <<End(l)>>]
      /\ UNCHANGED <<terminated, actions, linkvars, queue, main, modelvars, clientvars, logger, events>>
  BY DEF Shutdown, Busy
<1>2. /\ raced' = raced /\ raced' \in BOOLEAN /\ orderly' \in BOOLEAN
      /\ orderly' => orderly /\ Client \notin terminated
  BY <1>1, Calm
<1>3. /\ End(l) \in Work /\ End(l) \notin ViewWork \cup ClientWork
      /\ End(l) \notin ModelActs
      /\ \A m : Take(m) # End(l)
  BY GameWork
<1>4. /\ todo' \in [Threads -> Seq(Work)] /\ Todo("game")' = {End(l)} /\ Todo("game") = {}
      /\ todo'["wire"] = todo["wire"] /\ todo'["main"] = todo["main"]
  <2>1. <<End(l)>> \in Seq(Work) /\ Range(<<End(l)>>) = {End(l)}
    BY <1>3, RangeOfSingle
  <2> QED BY <1>1, <2>1, RangeOfNone, LifetimesAre DEF IInv, LTypes, Todo
<1>5. Threads = {"wire", "main", "game"}
  BY LifetimesAre
<1>6. LTypes' /\ Holders' /\ Exclusion' /\ Once'
  BY <1>1, <1>2, <1>4 DEF IInv, LTypes, Holders, Acts, Exclusion, Once, linkvars, modelvars, clientvars
<1>7. Workers'
  BY <1>1, <1>3, <1>4, <1>5 DEF IInv, Workers, Todo, linkvars
<1>8. Sequential'
  BY <1>1, <1>4, SMT DEF IInv, Sequential, Acts, Todo, Cleaned, IsOver, linkvars
<1>9. Numbers'
  BY <1>1 DEF IInv, Numbers, linkvars, modelvars
<1>10. Superseded'
  <2>1. \A t \in Threads : Todo(t)' \cap ModelActs \subseteq Todo(t)
    BY <1>3, <1>4, <1>5 DEF Todo
  <2> QED BY <1>1, <2>1, SupersededStays DEF Acts, linkvars, modelvars
<1>11. Dies' /\ Unbinds'
  <2>1. (\E t \in Threads : Do("dead") \in Todo(t)) => \E t \in Threads : Do("dead") \in Todo(t)'
    BY <1>4, <1>5 DEF Todo
  <2> QED BY <1>1, <1>2, <1>4, <2>1 DEF IInv, Dies, Queued, Unbinds, Acts, Todo, linkvars, modelvars
<1>12. Serves'
  BY <1>1, <1>4, ServesStays DEF modelvars, clientvars
<1>13. Uses'
  BY <1>1, <1>2 DEF IInv, Uses, clientvars
<1> QED BY <1>6, <1>7, <1>8, <1>9, <1>10, <1>11, <1>12, <1>13 DEF IInv

\* The end of the shutdown changes nothing for the model.
LEMMA ShutdownReturnsKeeps == ASSUME IInv, Observed, ShutdownReturns PROVE IInv'
<1>1. /\ game' = "done"
      /\ UNCHANGED <<ltvars, linkvars, queue, main, modelvars, clientvars, logger, events>>
  BY DEF ShutdownReturns, ltvars, Busy
<1>2. /\ raced' = raced /\ raced' \in BOOLEAN /\ orderly' \in BOOLEAN
      /\ orderly' => orderly /\ Client \notin terminated
  BY <1>1, Calm DEF ltvars
<1>3. LTypes' /\ Holders' /\ Exclusion' /\ Once'
  BY <1>1, <1>2 DEF IInv, LTypes, Holders, Acts, Exclusion, Once, ltvars, linkvars, modelvars, clientvars
<1>4. Workers' /\ Sequential'
  BY <1>1, SMT DEF IInv, Workers, Sequential, Acts, Todo, Cleaned, IsOver, ltvars, linkvars
<1>5. Numbers'
  BY <1>1 DEF IInv, Numbers, ltvars, linkvars, modelvars
<1>6. Superseded'
  BY <1>1, SupersededStays DEF Acts, Todo, ltvars, linkvars, modelvars
<1>7. Dies' /\ Unbinds'
  BY <1>1, <1>2 DEF IInv, Dies, Queued, Unbinds, Acts, Todo, ltvars, linkvars, modelvars
<1>8. Serves'
  BY <1>1, ServesStays DEF ltvars, modelvars, clientvars
<1>9. Uses'
  BY <1>1, <1>2 DEF IInv, Uses, ltvars, clientvars
<1> QED BY <1>3, <1>4, <1>5, <1>6, <1>7, <1>8, <1>9 DEF IInv

-----------------------------------------------------------------------------
(* The actions of lifetimes                                                *)

\* Who may execute what: until a view ends, the game thread does not touch what is
\* below it.
LEMMA WorkersStay ==
    ASSUME IInv, NEW t \in Threads, NEW a, NEW S, Does(t, a, S),
           terminated \subseteq terminated', UNCHANGED <<wire, main, game>>,
           t = "wire" => S \subseteq ConnectionWork \cup {End(Eternal)},
           t = "main" => S \subseteq ModelWork \cup {End(Eternal)},
           t = "game" => /\ View \notin terminated' => S \cap ViewWork = {}
                         /\ Client \notin terminated' => S \cap ClientWork = {},
           \A l \in Lifetimes : Take(l) \in S => l \in terminated',
           t # "game" => {View, Client} \cap terminated' \subseteq terminated
    PROVE  Workers'
<1>1. Threads = {"wire", "main", "game"}
  BY LifetimesAre
<1>2. /\ todo[t] # <<>> /\ \A u \in Threads : u # t => todo'[u] = todo[u]
      /\ Range(todo'[t]) \subseteq S \cup Todo(t)
  BY DEF Does
<1>3. \A u \in Threads : u # t => Todo(u)' = Todo(u)
  BY <1>2 DEF Todo
<1>4. Range(todo'[t]) = Todo(t)'
  BY DEF Todo
<1>5. game = "running" => t # "game"
  BY <1>2 DEF IInv, Workers
<1>6. Todo("wire")' \subseteq ConnectionWork \cup {End(Eternal)}
  BY <1>1, <1>2, <1>3, <1>4 DEF IInv, Workers
<1>7. Todo("main")' \subseteq ModelWork \cup {End(Eternal)}
  BY <1>1, <1>2, <1>3, <1>4 DEF IInv, Workers
<1>8. /\ View \notin terminated' => Todo("game")' \cap ViewWork = {}
      /\ Client \notin terminated' => Todo("game")' \cap ClientWork = {}
  BY <1>1, <1>2, <1>3, <1>4 DEF IInv, Workers
<1>9. \A u \in Threads, l \in Lifetimes : Take(l) \in Todo(u)' => l \in terminated'
  BY <1>1, <1>2, <1>3, <1>4 DEF IInv, Workers
<1>10. /\ todo'["wire"] # <<>> => wire = "ending"
       /\ todo'["main"] # <<>> => main.op = "dying"
       /\ game = "running" => todo'["game"] = <<>> /\ View \notin terminated' /\ Client \notin terminated'
  BY <1>1, <1>2, <1>5 DEF IInv, Workers
<1> QED BY <1>6, <1>7, <1>8, <1>9, <1>10 DEF Workers

\* An action that concerns no lifetime.
LEMMA Executes ==
    ASSUME IInv, Observed, NEW t \in Threads, NEW x \in Ops, Doing(t, x), Done(t),
           UNCHANGED <<terminated, actions, linkvars, main, model, alive, viewing, client_current, others>>,
           queue' \in Seq(Waiting), bound' \in BOOLEAN,
           {subscription', client', delegates'} \subseteq 0 .. MaxConnections
    PROVE  /\ LTypes' /\ Holders' /\ Workers' /\ Exclusion' /\ Sequential'
           /\ raced' = raced
           /\ orderly' => orderly /\ Client \notin terminated
           /\ Do(x) \in Todo(t)
           /\ \A u \in Threads : /\ Todo(u)' \subseteq Todo(u)
                                 /\ Todo(u) \subseteq Todo(u)' \cup {Do(x)}
                                 /\ u # t => todo'[u] = todo[u]
           /\ \A a : a # Do(x) /\ Due(a) => Due(a)'
<1>1. Does(t, Do(x), {})
  BY DoEffect DEF IInv
<1>2. /\ raced' = raced /\ raced' \in BOOLEAN /\ orderly' \in BOOLEAN
      /\ orderly' => orderly /\ Client \notin terminated
  BY Calm
<1>3. /\ Do(x) \in Todo(t) /\ todo' \in [Threads -> Seq(Work)]
      /\ \A u \in Threads : /\ Todo(u)' \subseteq Todo(u)
                            /\ Todo(u) \subseteq Todo(u)' \cup {Do(x)}
                            /\ u # t => todo'[u] = todo[u]
  BY <1>1 DEF Does, Todo
<1>4. {"wire", "main", "game"} = Threads
  BY LifetimesAre
<1>5. \A l : Do(x) # End(l) /\ Do(x) # Take(l)
  BY ActionFields DEF Ops
<1>6. LTypes' /\ Holders' /\ Exclusion'
  BY <1>2, <1>3 DEF IInv, LTypes, Holders, Acts, Exclusion, linkvars, others
<1>7. Workers'
  BY <1>1, WorkersStay DEF linkvars, others
<1>8. Sequential'
  <2>1. \A l : /\ End(l) \in Todo("wire") => End(l) \in Todo("wire")'
               /\ Take(l) \in Todo("wire") => Take(l) \in Todo("wire")'
    BY <1>3, <1>4, <1>5
  <2> QED BY <2>1, SMT DEF IInv, Sequential, Acts, Cleaned, IsOver, linkvars
<1>9. ASSUME NEW a, a # Do(x), Due(a) PROVE Due(a)'
  <2>1. \A b : b # Do(x) /\ b \in Todo("main") => b \in Todo("main")'
    BY <1>3, <1>4
  <2> QED BY <1>5, <1>9, <2>1 DEF Due, Acts
<1> QED BY <1>2, <1>3, <1>6, <1>7, <1>8, <1>9

\* Executing what does not make the model dead.
LEMMA DiesStays ==
    ASSUME IInv, UNCHANGED <<alive, main, model, terminated, wire>>,
           \A u \in Threads : Do("dead") \in Todo(u) => Do("dead") \in Todo(u)',
           \A n \in Models : Do("dead") \in Acts(Connection(n)) => Do("dead") \in Acts(Connection(n))',
           Queued' => Queued,
           \A i \in 1 .. Len(queue) : \E j \in 1 .. Len(queue') : queue'[j] = queue[i]
    PROVE  Dies'
<1>1. alive \/ main.op = "alive" => model \in Models
  BY MaxIsNat, SMT DEF IInv, LTypes, Numbers, Models, Connecting
<1> QED BY <1>1 DEF IInv, Dies

\* A model is unbound by the action it was bound with.
LEMMA UnbindActionKeeps == ASSUME IInv, Observed, NEW t \in Threads, UnbindAction(t) PROVE IInv'
<1>1. /\ Doing(t, "unbind") /\ Done(t) /\ bound' = FALSE /\ "unbind" \in Ops
      /\ UNCHANGED <<terminated, actions, linkvars, queue, main, model, subscription, alive, clientvars, others>>
  BY DEF UnbindAction, Ops
<1>2. /\ LTypes' /\ Holders' /\ Workers' /\ Exclusion' /\ Sequential'
      /\ raced' = raced
      /\ orderly' => orderly /\ Client \notin terminated
      /\ \A u \in Threads : /\ Todo(u)' \subseteq Todo(u)
                            /\ Todo(u) \subseteq Todo(u)' \cup {Do("unbind")}
      /\ \A a : a # Do("unbind") /\ Due(a) => Due(a)'
  <2>1. queue' \in Seq(Waiting) /\ {subscription', client', delegates'} \subseteq 0 .. MaxConnections
        /\ bound' \in BOOLEAN /\ UNCHANGED <<viewing, client_current>>
    BY <1>1 DEF IInv, LTypes, clientvars
  <2> QED BY <1>1, <2>1, Executes
<1>3. \A x : x # "unbind" => Do(x) # Do("unbind")
  BY ActionFields
<1>4. Once' /\ Numbers'
  BY <1>1 DEF IInv, Once, Numbers, linkvars, clientvars
<1>5. Superseded'
  BY <1>1, <1>2, SupersededStays DEF Acts, linkvars
<1>6. Dies'
  BY <1>1, <1>2, <1>3, DiesStays DEF Acts, Queued, linkvars
<1>7. Unbinds'
  <2>1. Do("unsubscribe") \in Todo("wire") => Do("unsubscribe") \in Todo("wire")'
    BY <1>2, <1>3, LifetimesAre
  <2> QED BY <1>1, <1>2, <2>1 DEF IInv, Unbinds, Acts
<1>8. Serves'
  BY <1>1, <1>2, <1>3 DEF IInv, Serves, Acts, IsOver, clientvars
<1>9. Uses'
  BY <1>1, <1>2 DEF IInv, Uses, clientvars
<1> QED BY <1>2, <1>4, <1>5, <1>6, <1>7, <1>8, <1>9 DEF IInv

\* A subscription is erased by the action it was made with.
LEMMA UnsubscribeActionKeeps ==
    ASSUME IInv, Observed, NEW t \in Threads, UnsubscribeAction(t) PROVE IInv'
<1>1. /\ Doing(t, "unsubscribe") /\ Done(t) /\ subscription' = 0 /\ "unsubscribe" \in Ops
      /\ UNCHANGED <<terminated, actions, linkvars, queue, main, model, bound, alive, clientvars, others>>
  BY DEF UnsubscribeAction, Ops
<1>2. /\ LTypes' /\ Holders' /\ Workers' /\ Exclusion' /\ Sequential'
      /\ raced' = raced
      /\ orderly' => orderly /\ Client \notin terminated
      /\ \A u \in Threads : /\ Todo(u)' \subseteq Todo(u)
                            /\ Todo(u) \subseteq Todo(u)' \cup {Do("unsubscribe")}
      /\ \A a : a # Do("unsubscribe") /\ Due(a) => Due(a)'
  <2>1. 0 \in 0 .. MaxConnections
    BY MaxIsNat, SMT
  <2>2. queue' \in Seq(Waiting) /\ {subscription', client', delegates'} \subseteq 0 .. MaxConnections
        /\ bound' \in BOOLEAN /\ UNCHANGED <<viewing, client_current>>
    BY <1>1, <2>1 DEF IInv, LTypes, clientvars
  <2> QED BY <1>1, <2>2, Executes
<1>3. \A x : x # "unsubscribe" => Do(x) # Do("unsubscribe")
  BY ActionFields
<1>4. Once' /\ Numbers'
  BY <1>1 DEF IInv, Once, Numbers, linkvars, clientvars
<1>5. Superseded'
  BY <1>1, <1>2, SupersededStays DEF Acts, linkvars
<1>6. Dies'
  BY <1>1, <1>2, <1>3, DiesStays DEF Acts, Queued, linkvars
<1>7. Unbinds'
  <2>1. Do("unbind") \in Todo("wire") => Do("unbind") \in Todo("wire")'
    BY <1>2, <1>3, LifetimesAre
  <2> QED BY <1>1, <1>2, <2>1 DEF IInv, Unbinds, Acts
<1>8. Serves'
  BY <1>1, <1>2, <1>3 DEF IInv, Serves, Acts, IsOver, clientvars
<1>9. Uses'
  BY <1>1, <1>2 DEF IInv, Uses, clientvars
<1> QED BY <1>2, <1>4, <1>5, <1>6, <1>7, <1>8, <1>9 DEF IInv

\* The task that kills the model is queued before the one for the next connection.
LEMMA DeadActionKeeps == ASSUME IInv, Observed, NEW t \in Threads, DeadAction(t) PROVE IInv'
<1> DEFINE e == Task("dead", 0, Eternal)
<1>1. /\ Doing(t, "dead") /\ Done(t) /\ queue' = Append(queue, e) /\ "dead" \in Ops
      /\ UNCHANGED <<terminated, actions, linkvars, main, modelvars, clientvars, others>>
  BY DEF DeadAction, Ops
<1>2. e \in Waiting /\ e.op = "dead"
  <2>1. "dead" \in Names /\ 0 \in 0 .. MaxConnections
    BY MaxIsNat, SMT DEF Names
  <2> QED BY <2>1, NewTask
<1> HIDE DEF e
<1>3. queue' \in Seq(Waiting)
  BY <1>1, <1>2, QueueAppend DEF IInv
<1>4. /\ LTypes' /\ Holders' /\ Workers' /\ Exclusion' /\ Sequential'
      /\ raced' = raced
      /\ orderly' => orderly /\ Client \notin terminated
      /\ Do("dead") \in Todo(t)
      /\ \A u \in Threads : /\ Todo(u)' \subseteq Todo(u)
                            /\ Todo(u) \subseteq Todo(u)' \cup {Do("dead")}
      /\ \A a : a # Do("dead") /\ Due(a) => Due(a)'
  <2>1. /\ {subscription', client', delegates'} \subseteq 0 .. MaxConnections
        /\ bound' \in BOOLEAN /\ UNCHANGED <<model, alive, viewing, client_current>>
    BY <1>1 DEF IInv, LTypes, modelvars, clientvars
  <2> QED BY <1>1, <1>3, <2>1, Executes
<1>5. \A x : x # "dead" => Do(x) # Do("dead")
  BY ActionFields
<1>6. Todo(t) \cap ModelActs # {}
  BY <1>4, WorkSets
<1>7. ~Queued /\ model >= 1 /\ IsOver(model)
  BY <1>6 DEF IInv, Superseded, Coming, Quiet
<1>8. /\ Once' /\ Numbers' /\ Superseded'
      /\ Queued' => Queued
      /\ \A i \in 1 .. Len(queue') :
            \/ i \in 1 .. Len(queue) /\ \A j \in 1 .. i : j \in 1 .. Len(queue)
            \/ queue'[i] = e /\ \A j \in 1 .. i : j = i \/ j \in 1 .. Len(queue)
      /\ \A i \in 1 .. Len(queue) : i \in 1 .. Len(queue') /\ queue'[i] = queue[i]
      /\ \E i \in 1 .. Len(queue') : queue'[i] = e
  <2>1. /\ UNCHANGED <<terminated, linkvars, main, viewing, model>>
        /\ alive' \/ bound' \/ subscription' # 0 => alive \/ bound \/ subscription # 0
        /\ \A u \in Threads : Todo(u)' \cap ModelActs \subseteq Todo(u)
        /\ \A n \in Models : Acts(Connection(n))' \cap ModelActs \subseteq Acts(Connection(n))
    BY <1>1, <1>4 DEF Acts, modelvars, clientvars
  <2> QED BY <1>1, <1>2, <1>7, <2>1, Queues
<1>9. Dies'
  BY <1>2, <1>8 DEF Dies
<1>10. Unbinds'
  <2>1. /\ Do("unbind") \in Todo("wire") => Do("unbind") \in Todo("wire")'
        /\ Do("unsubscribe") \in Todo("wire") => Do("unsubscribe") \in Todo("wire")'
    BY <1>4, <1>5, LifetimesAre
  <2> QED BY <1>1, <1>4, <2>1 DEF IInv, Unbinds, Acts, modelvars
<1>11. Serves'
  BY <1>1, <1>4, <1>5 DEF IInv, Serves, Acts, IsOver, modelvars, clientvars
<1>12. Uses'
  <2>1. ASSUME orderly', NEW i \in 1 .. Len(queue'), queue'[i].op = "use"
        PROVE  /\ queue'[i].model = delegates /\ delegates # 0 /\ main.op # "dying"
               /\ \A j \in 1 .. i : queue'[j].op # "dead"
    <3>1. i \in 1 .. Len(queue) /\ \A j \in 1 .. i : j \in 1 .. Len(queue)
      BY <1>2, <1>8, <2>1
    <3>2. queue'[i] = queue[i] /\ \A j \in 1 .. i : queue'[j] = queue[j]
      BY <1>8, <3>1
    <3> QED BY <1>4, <2>1, <3>1, <3>2 DEF IInv, Uses
  <2> QED BY <1>1, <1>4, <2>1 DEF IInv, Uses, clientvars
<1> QED BY <1>4, <1>8, <1>9, <1>10, <1>11, <1>12 DEF IInv

\* On the scheduler the last use of the client comes at once.
LEMMA UninitializeActionKeeps ==
    ASSUME IInv, Observed, NEW t \in Threads, UninitializeAction(t) PROVE IInv'
<1> DEFINE e == Task("use", client, Eternal)
<1>1. /\ Doing(t, "uninitialize") /\ Done(t) /\ "uninitialize" \in Ops
      /\ queue' = (IF t = "main" THEN queue ELSE Append(queue, e))
      /\ UNCHANGED <<terminated, actions, linkvars, main, modelvars, clientvars, others>>
  BY DEF UninitializeAction, Ops
<1>2. e \in Waiting /\ e.op = "use"
  <2>1. "use" \in Names /\ client \in 0 .. MaxConnections
    BY DEF Names, IInv, LTypes
  <2> QED BY <2>1, NewTask
<1> HIDE DEF e
<1>3. queue' \in Seq(Waiting)
  <2>1. CASE t = "main"
    BY <1>1, <2>1 DEF IInv, LTypes
  <2>2. CASE t # "main"
    BY <1>1, <1>2, <2>2, QueueAppend DEF IInv
  <2> QED BY <2>1, <2>2
<1>4. /\ LTypes' /\ Holders' /\ Workers' /\ Exclusion' /\ Sequential'
      /\ raced' = raced
      /\ orderly' => orderly /\ Client \notin terminated
      /\ Do("uninitialize") \in Todo(t)
      /\ \A u \in Threads : /\ Todo(u)' \subseteq Todo(u)
                            /\ Todo(u) \subseteq Todo(u)' \cup {Do("uninitialize")}
      /\ \A a : a # Do("uninitialize") /\ Due(a) => Due(a)'
  <2>1. /\ {subscription', client', delegates'} \subseteq 0 .. MaxConnections
        /\ bound' \in BOOLEAN /\ UNCHANGED <<model, alive, viewing, client_current>>
    BY <1>1 DEF IInv, LTypes, modelvars, clientvars
  <2> QED BY <1>1, <1>3, <2>1, Executes
<1>5. \A x : x # "uninitialize" => Do(x) # Do("uninitialize")
  BY ActionFields
<1>6. t # "main" => Client \in terminated
  <2>1. Todo(t) \cap ClientActs # {}
    BY <1>4, WorkSets
  <2> QED BY <2>1, AtWork
<1>7. /\ UNCHANGED <<terminated, linkvars, main, viewing, model>>
      /\ alive' \/ bound' \/ subscription' # 0 => alive \/ bound \/ subscription # 0
      /\ \A u \in Threads : Todo(u)' \cap ModelActs \subseteq Todo(u)
      /\ \A n \in Models : Acts(Connection(n))' \cap ModelActs \subseteq Acts(Connection(n))
  BY <1>1, <1>4 DEF Acts, modelvars, clientvars
<1>8. /\ Once' /\ Numbers' /\ Superseded'
      /\ Queued' => Queued
      /\ \A i \in 1 .. Len(queue) : i \in 1 .. Len(queue') /\ queue'[i] = queue[i]
  <2>1. CASE t = "main"
    <3>1. UNCHANGED queue
      BY <1>1, <2>1
    <3>2. Once' /\ Numbers' /\ (Queued' => Queued)
      BY <1>1, <3>1 DEF IInv, Once, Numbers, Queued, linkvars, modelvars, clientvars
    <3> QED BY <1>7, <3>1, <3>2, SupersededStays DEF linkvars
  <2>2. CASE t # "main"
    BY <1>1, <1>2, <1>7, <2>2, Queues
  <2> QED BY <2>1, <2>2
<1>9. Dies'
  BY <1>1, <1>4, <1>5, <1>8, DiesStays DEF Acts, linkvars, modelvars
<1>10. Unbinds'
  <2>1. /\ Do("unbind") \in Todo("wire") => Do("unbind") \in Todo("wire")'
        /\ Do("unsubscribe") \in Todo("wire") => Do("unsubscribe") \in Todo("wire")'
    BY <1>4, <1>5, LifetimesAre
  <2> QED BY <1>1, <1>4, <2>1 DEF IInv, Unbinds, Acts, modelvars
<1>11. Serves'
  BY <1>1, <1>4, <1>5 DEF IInv, Serves, Acts, IsOver, modelvars, clientvars
<1>12. Uses'
  BY <1>1, <1>4, <1>6 DEF IInv, Uses, clientvars
<1> QED BY <1>4, <1>8, <1>9, <1>10, <1>11, <1>12 DEF IInv

\* The client goes, and nothing of it is queued any more.
LEMMA ClientGoes ==
    ASSUME IInv, Observed, NEW t \in Threads, NEW x \in {"reset", "removeDelegates"},
           Doing(t, x), Done(t),
           UNCHANGED <<terminated, actions, linkvars, queue, main, modelvars, viewing,
                       client_current, others>>,
           client' \in {0, client}, delegates' \in {0, delegates},
           x = "reset" => client' = 0, x = "removeDelegates" => delegates' = 0
    PROVE  IInv'
<1>1. x \in Ops /\ \A y : y # x => Do(y) # Do(x)
  BY ActionFields DEF Ops
<1>2. /\ LTypes' /\ Holders' /\ Workers' /\ Exclusion' /\ Sequential'
      /\ raced' = raced
      /\ orderly' => orderly /\ Client \notin terminated
      /\ Do(x) \in Todo(t)
      /\ \A u \in Threads : /\ Todo(u)' \subseteq Todo(u)
                            /\ Todo(u) \subseteq Todo(u)' \cup {Do(x)}
      /\ \A a : a # Do(x) /\ Due(a) => Due(a)'
  <2>1. 0 \in 0 .. MaxConnections
    BY MaxIsNat, SMT
  <2>2. queue' \in Seq(Waiting) /\ {subscription', client', delegates'} \subseteq 0 .. MaxConnections
        /\ bound' \in BOOLEAN /\ UNCHANGED <<model, alive>>
    BY <2>1 DEF IInv, LTypes, modelvars
  <2> QED BY <1>1, <2>2, Executes
<1>3. Client \in terminated \/ main.op = "dying"
  <2>1. Todo(t) \cap ClientActs # {}
    BY <1>2, WorkSets
  <2> QED BY <2>1, AtWork
<1>4. Once' /\ Numbers'
  BY DEF IInv, Once, Numbers, linkvars, modelvars
<1>5. Superseded'
  BY <1>2, SupersededStays DEF Acts, linkvars, modelvars
<1>6. Dies'
  BY <1>1, <1>2, DiesStays DEF Acts, Queued, linkvars, modelvars
<1>7. Unbinds'
  <2>1. /\ Do("unbind") \in Todo("wire") => Do("unbind") \in Todo("wire")'
        /\ Do("unsubscribe") \in Todo("wire") => Do("unsubscribe") \in Todo("wire")'
    BY <1>1, <1>2, LifetimesAre
  <2> QED BY <1>2, <2>1 DEF IInv, Unbinds, Acts, modelvars
<1>8. Serves'
  <2>1. /\ client' # 0 => client # 0 /\ x # "reset"
        /\ delegates' # 0 => delegates # 0 /\ x # "removeDelegates"
        /\ {client, delegates} \subseteq {0, model} => {client', delegates'} \subseteq {0, model}
        /\ client = 0 => client' = 0
        /\ delegates = 0 => delegates' = 0
    OBVIOUS
  <2> QED BY <1>1, <1>2, <2>1 DEF IInv, Serves, Acts, IsOver, modelvars
<1>9. Uses'
  BY <1>2, <1>3 DEF IInv, Uses
<1> QED BY <1>2, <1>4, <1>5, <1>6, <1>7, <1>8, <1>9 DEF IInv

\* No event comes after the delegates are gone.
LEMMA RemoveDelegatesActionKeeps ==
    ASSUME IInv, Observed, NEW t \in Threads, RemoveDelegatesAction(t) PROVE IInv'
BY ClientGoes DEF RemoveDelegatesAction

\* The client goes with the model it was made for.
LEMMA ResetActionKeeps == ASSUME IInv, Observed, NEW t \in Threads, ResetAction(t) PROVE IInv'
BY ClientGoes DEF ResetAction

\* A step that leaves the model and its client alone: at most one action is executed
\* that concerns neither.
LEMMA Elsewhere ==
    ASSUME IInv, Observed, NEW t \in Threads, NEW x \in {"join", "stopPool"}, Doing(t, x),
           todo' = todo \/ Done(t), closing' \in BOOLEAN,
           UNCHANGED <<terminated, actions, current, connections, wire, queue, main, modelvars,
                       clientvars, others>>
    PROVE  IInv'
<1>1. /\ x \in Ops /\ Do(x) \notin ModelActs /\ Do(x) \notin ClientActs
      /\ \A y : y # x => Do(y) # Do(x)
  BY WorkSets, ActionFields DEF Ops
<1>2. /\ raced' = raced /\ raced' \in BOOLEAN /\ orderly' \in BOOLEAN
      /\ orderly' => orderly /\ Client \notin terminated
  BY Calm
<1>3. Does(t, Do(x), {})
         \/ todo' = todo
  BY <1>1, DoEffect DEF IInv
<1>4. /\ todo' \in [Threads -> Seq(Work)]
      /\ \A u \in Threads : /\ Todo(u)' \subseteq Todo(u)
                            /\ Todo(u) \subseteq Todo(u)' \cup {Do(x)}
  BY <1>3 DEF IInv, LTypes, Does, Todo
<1>5. \A l : Do(x) # End(l) /\ Do(x) # Take(l)
  BY ActionFields
<1>6. "wire" \in Threads /\ "main" \in Threads
  BY LifetimesAre
<1>7. \A a \in Todo("wire") : a # Do(x) => a \in Todo("wire")'
  BY <1>4, <1>6
<1>8. \A a \in Todo("main") : a # Do(x) => a \in Todo("main")'
  BY <1>4, <1>6
<1>9. LTypes' /\ Holders' /\ Exclusion' /\ Once'
  BY <1>2, <1>4 DEF IInv, LTypes, Holders, Acts, Exclusion, Once, modelvars, clientvars, others
<1>10. Workers'
  <2>1. CASE Does(t, Do(x), {})
    BY <2>1, WorkersStay DEF others
  <2>2. CASE todo' = todo
    BY <2>2 DEF IInv, Workers, Todo, others
  <2> QED BY <1>3, <2>1, <2>2
<1>11. Sequential'
  <2>1. \A l : /\ End(l) \in Todo("wire") => End(l) \in Todo("wire")'
               /\ Take(l) \in Todo("wire") => Take(l) \in Todo("wire")'
    BY <1>5, <1>7
  <2> QED BY <2>1, SMT DEF IInv, Sequential, Acts, Cleaned, IsOver
<1>12. Numbers'
  BY DEF IInv, Numbers, modelvars
<1>13. Superseded'
  BY <1>4, SupersededStays DEF Acts, modelvars
<1>14. Dies'
  BY <1>1, <1>4, DiesStays DEF Acts, Queued, modelvars
<1>15. Unbinds'
  BY <1>1, <1>2, <1>7 DEF IInv, Unbinds, Acts, modelvars
<1>16. Serves'
  <2>1. \A y \in {"reset", "removeDelegates"} : Due(Do(y)) => Due(Do(y))'
    BY <1>1, <1>5, <1>8 DEF Due, Acts, clientvars
  <2> QED BY <2>1 DEF IInv, Serves, Acts, IsOver, modelvars, clientvars
<1>17. Uses'
  BY <1>2 DEF IInv, Uses, clientvars
<1> QED BY <1>9, <1>10, <1>11, <1>12, <1>13, <1>14, <1>15, <1>16, <1>17 DEF IInv

\* The sockets are none of the model's business, ...
LEMMA CloseSocketsKeeps == ASSUME IInv, Observed, NEW t \in Threads, CloseSockets(t) PROVE IInv'
BY Elsewhere DEF CloseSockets, ltvars

\* ... nor is the thread of the wire ...
LEMMA JoinActionKeeps == ASSUME IInv, Observed, NEW t \in Threads, JoinAction(t) PROVE IInv'
<1>1. closing' \in BOOLEAN
  BY DEF JoinAction, linkvars, IInv, LTypes
<1> QED BY <1>1, Elsewhere DEF JoinAction, linkvars

\* ... nor that of the scheduler.
LEMMA StopPoolActionKeeps == ASSUME IInv, Observed, NEW t \in Threads, StopPoolAction(t) PROVE IInv'
<1>1. closing' \in BOOLEAN
  BY DEF StopPoolAction, linkvars, IInv, LTypes
<1> QED BY <1>1, Elsewhere DEF StopPoolAction, linkvars

\* The views end the lifetime they gave out: only the game thread does that, in the
\* shutdown.
LEMMA EndConnectionActionKeeps ==
    ASSUME IInv, Observed, NEW t \in Threads, EndConnectionAction(t) PROVE IInv'
<1> DEFINE S == {End(current)}
<1>1. /\ current' = Eternal
      /\ UNCHANGED <<terminated, actions, connections, wire, closing, queue, main, modelvars,
                     clientvars, others>>
      /\ current \in Connections \cup {Eternal}
  BY DEF EndConnectionAction, IInv, LTypes
<1>2. Does(t, Do("endConnection"), S)
  <2>1. current \in Lifetimes \cup {Eternal} /\ "endConnection" \in Ops
    BY <1>1, LifetimesAre DEF Ops
  <2> QED BY <2>1, PushEffect DEF IInv, EndConnectionAction
<1>3. t = "game" /\ View \in terminated
  <2>1. /\ Do("endConnection") \in ViewWork
        /\ Do("endConnection") \notin ConnectionWork \cup ModelWork \cup {End(Eternal)}
    BY WorkSets, ActionFields
  <2> QED BY <1>2, <2>1, LifetimesAre DEF IInv, Workers, Does
<1>4. /\ \A l : Take(l) \notin S
      /\ S \cap ModelActs = {} /\ S \cap ClientWork = {}
      /\ Do("dead") # Do("endConnection")
  <2>1. /\ \A l : Take(l) # End(current)
        /\ End(current) \notin ModelActs
        /\ Do("dead") # Do("endConnection")
    BY WorkSets, ActionFields
  <2>2. End(current) \notin ClientWork
    <3>1. End(current) \notin ModelWork
      <4>1. current \notin ModelLifetimes
        BY <1>1, LifetimesAre
      <4> QED BY <4>1, WorkSets
    <3>2. End(current) \notin {Take(Client), Detach(Module, Client), Do("endModel")}
      BY ActionFields
    <3> QED BY <3>1, <3>2 DEF ClientWork
  <2> QED BY <2>1, <2>2
<1> HIDE DEF S
<1>5. /\ todo' \in [Threads -> Seq(Work)]
      /\ todo'["wire"] = todo["wire"] /\ todo'["main"] = todo["main"]
      /\ Todo(t)' \subseteq S \cup Todo(t) /\ Todo(t) \subseteq {Do("endConnection")} \cup Todo(t)'
      /\ \A u \in Threads : u # t => todo'[u] = todo[u]
  BY <1>2, <1>3, LifetimesAre DEF Does, Todo
<1>6. /\ raced' = raced /\ raced' \in BOOLEAN /\ orderly' \in BOOLEAN
      /\ orderly' => orderly /\ Client \notin terminated
  BY <1>1, Calm
<1>7. LTypes' /\ Holders' /\ Exclusion' /\ Once'
  BY <1>1, <1>5, <1>6 DEF IInv, LTypes, Holders, Acts, Exclusion, Once, modelvars, clientvars, others
<1>8. Workers'
  BY <1>1, <1>2, <1>3, <1>4, WorkersStay DEF others
<1>9. Sequential'
  BY <1>1, <1>3 DEF IInv, Sequential
<1>10. Numbers'
  BY <1>1 DEF IInv, Numbers, modelvars
<1>11. Superseded'
  <2>1. \A u \in Threads : Todo(u)' \cap ModelActs \subseteq Todo(u)
    BY <1>4, <1>5 DEF Todo
  <2> QED BY <1>1, <2>1, SupersededStays DEF Acts, modelvars
<1>12. Dies'
  <2>1. \A u \in Threads : Do("dead") \in Todo(u) => Do("dead") \in Todo(u)'
    BY <1>4, <1>5 DEF Todo
  <2> QED BY <1>1, <2>1, DiesStays DEF Acts, Queued, modelvars
<1>13. Unbinds'
  BY <1>1, <1>3 DEF Unbinds
<1>14. Serves'
  BY <1>1, <1>5, ServesStays DEF modelvars, clientvars
<1>15. Uses'
  BY <1>1, <1>6 DEF IInv, Uses, clientvars
<1> QED BY <1>7, <1>8, <1>9, <1>10, <1>11, <1>12, <1>13, <1>14, <1>15 DEF IInv

\* The view of the client's model ends its lifetime with it, on the game thread.
LEMMA EndModelActionKeeps == ASSUME IInv, Observed, NEW t \in Threads, EndModelAction(t) PROVE IInv'
<1> DEFINE S == {End(client_current)}
<1>1. /\ client_current' = Eternal
      /\ UNCHANGED <<terminated, actions, linkvars, queue, main, modelvars, viewing, client, delegates, others>>
      /\ client_current \in ModelLifetimes \cup {Eternal}
  BY DEF EndModelAction, IInv, LTypes
<1>2. Does(t, Do("endModel"), S)
  <2>1. client_current \in Lifetimes \cup {Eternal} /\ "endModel" \in Ops
    BY <1>1, LifetimesAre DEF Ops
  <2> QED BY <2>1, PushEffect DEF IInv, EndModelAction
<1>3. t = "game" /\ Client \in terminated
  <2>1. /\ Do("endModel") \in ClientWork
        /\ Do("endModel") \notin ConnectionWork \cup ModelWork \cup {End(Eternal)}
    BY WorkSets, ActionFields
  <2> QED BY <1>2, <2>1, LifetimesAre DEF IInv, Workers, Does
<1>4. /\ \A l : Take(l) \notin S
      /\ S \cap ModelActs = {} /\ S \cap ViewWork = {}
      /\ Do("dead") # Do("endModel")
  <2>1. /\ \A l : Take(l) # End(client_current)
        /\ End(client_current) \notin ModelActs
        /\ Do("dead") # Do("endModel")
    BY WorkSets, ActionFields
  <2>2. End(client_current) \notin ViewWork
    <3>1. End(client_current) \notin ConnectionWork
      <4>1. client_current \notin Connections
        BY <1>1, LifetimesAre
      <4> QED BY <4>1, WorkSets
    <3>2. End(client_current) \notin {Take(View), Detach(Wire, View), Do("endConnection")}
      BY ActionFields
    <3> QED BY <3>1, <3>2 DEF ViewWork
  <2> QED BY <2>1, <2>2
<1> HIDE DEF S
<1>5. /\ todo' \in [Threads -> Seq(Work)]
      /\ todo'["wire"] = todo["wire"] /\ todo'["main"] = todo["main"]
      /\ Todo(t)' \subseteq S \cup Todo(t) /\ Todo(t) \subseteq {Do("endModel")} \cup Todo(t)'
      /\ \A u \in Threads : u # t => todo'[u] = todo[u]
  BY <1>2, <1>3, LifetimesAre DEF Does, Todo
<1>6. /\ raced' = raced /\ raced' \in BOOLEAN /\ orderly' \in BOOLEAN
      /\ orderly' => orderly /\ Client \notin terminated
  BY <1>1, Calm
<1>7. LTypes' /\ Holders' /\ Exclusion' /\ Once'
  BY <1>1, <1>5, <1>6 DEF IInv, LTypes, Holders, Acts, Exclusion, Once, linkvars, modelvars, others
<1>8. Workers'
  BY <1>1, <1>2, <1>3, <1>4, WorkersStay DEF linkvars, others
<1>9. Sequential'
  BY <1>1, <1>5, SMT DEF IInv, Sequential, Acts, Todo, Cleaned, IsOver, linkvars
<1>10. Numbers'
  BY <1>1 DEF IInv, Numbers, linkvars, modelvars
<1>11. Superseded'
  <2>1. \A u \in Threads : Todo(u)' \cap ModelActs \subseteq Todo(u)
    BY <1>4, <1>5 DEF Todo
  <2> QED BY <1>1, <2>1, SupersededStays DEF Acts, linkvars, modelvars
<1>12. Dies'
  <2>1. \A u \in Threads : Do("dead") \in Todo(u) => Do("dead") \in Todo(u)'
    BY <1>4, <1>5 DEF Todo
  <2> QED BY <1>1, <2>1, DiesStays DEF Acts, Queued, linkvars, modelvars
<1>13. Unbinds'
  BY <1>1, <1>5, <1>6 DEF IInv, Unbinds, Acts, Todo, modelvars
<1>14. Serves'
  BY <1>1, <1>3 DEF IInv, Serves
<1>15. Uses'
  BY <1>3, <1>6 DEF Uses
<1> QED BY <1>7, <1>8, <1>9, <1>10, <1>11, <1>12, <1>13, <1>14, <1>15 DEF IInv

-----------------------------------------------------------------------------
(* The steps of the termination of a lifetime                              *)

\* Which lifetimes a thread ends.
LEMMA WhoEnds ==
    ASSUME IInv, NEW t \in Threads, NEW l \in Lifetimes,
           End(l) \in Todo(t) \/ Take(l) \in Todo(t)
    PROVE  /\ t = "wire" => l \in Connections
           /\ t = "main" => l \in ModelLifetimes /\ main.op = "dying"
           /\ t = "game" => /\ l \in Connections => View \in terminated
                            /\ l \in ModelLifetimes => Client \in terminated
<1>1. l # Eternal /\ \A m : Take(l) # End(m) /\ (End(l) = End(m) => l = m)
  BY LifetimesAre, ActionFields
<1>2. t = "wire" => l \in Connections
  <2>1. t = "wire" => End(l) \in ConnectionWork \/ Take(l) \in ConnectionWork
    BY <1>1 DEF IInv, Workers
  <2> QED BY <2>1, WorkSets
<1>3. t = "main" => l \in ModelLifetimes
  <2>1. t = "main" => End(l) \in ModelWork \/ Take(l) \in ModelWork
    BY <1>1 DEF IInv, Workers
  <2> QED BY <2>1, WorkSets
<1>4. t = "main" => main.op = "dying"
  BY AtWork
<1>5. /\ l \in Connections => {End(l), Take(l)} \subseteq ViewWork
      /\ l \in ModelLifetimes => {End(l), Take(l)} \subseteq ClientWork
  BY WorkSets
<1>6. /\ t = "game" /\ l \in Connections => View \in terminated
      /\ t = "game" /\ l \in ModelLifetimes => Client \in terminated
  BY <1>5 DEF IInv, Workers
<1> QED BY <1>2, <1>3, <1>4, <1>6

\* What a lifetime is given to do.
LEMMA WhatIsHeld ==
    ASSUME IInv, NEW l \in Lifetimes
    PROVE  /\ \A m : Take(m) \notin Acts(l)
           /\ l \in Connections => Acts(l) \subseteq ConnectionWork
           /\ l \in ModelLifetimes => Acts(l) \subseteq ModelWork
           /\ l \notin Connections \cup ModelLifetimes => Acts(l) \cap ModelActs = {}
           /\ l \notin Connections \cup {View} => Acts(l) \cap ViewWork = {}
           /\ l \notin ModelLifetimes \cup {Client} => Acts(l) \cap ClientWork = {}
<1>1. /\ l \in Connections => Acts(l) \subseteq {Detach(View, l)} \cup ModelActs
      /\ l \in ModelLifetimes => Acts(l) \subseteq {Detach(Client, l)} \cup ClientActs
      /\ l = View => Acts(l) \subseteq {Detach(Wire, View), Do("endConnection")} \cup {End(m) : m \in Connections}
      /\ l = Client => Acts(l) \subseteq {Detach(Module, Client), Do("endModel")} \cup {End(m) : m \in ModelLifetimes}
      /\ l = Wire => Acts(l) \subseteq {Detach(Module, Wire), Do("join"), End(View)}
      /\ l = Module => Acts(l) \subseteq {Do("stopPool"), End(Client), End(Wire)}
      /\ l \in {Module, Wire, View, Client} \cup Connections \cup ModelLifetimes
  BY LifetimesAre DEF IInv, Holders
<1>2. /\ \A a \in ModelActs : a.op \in {"unbind", "unsubscribe", "dead"}
      /\ \A a \in ClientActs : a.op \in {"uninitialize", "removeDelegates", "reset"}
      /\ \A m : End(m).op = "terminate" /\ Take(m).op = "take" /\ End(m).of = m
      /\ \A p, m : Detach(p, m).op = "erase" /\ Detach(p, m).of = p /\ Detach(p, m).what = m
      /\ \A x : Do(x).op = x
  BY WorkSets, ActionFields
<1>3. \A m : Take(m) \notin Acts(l)
  <2>1. \A a \in Acts(l) : a.op # "take"
    BY <1>1, <1>2
  <2> QED BY <1>2, <2>1
<1>4. /\ l \in Connections => Acts(l) \subseteq ConnectionWork
      /\ l \in ModelLifetimes => Acts(l) \subseteq ModelWork
  BY <1>1, WorkSets
<1>5. l \notin Connections \cup ModelLifetimes => \A a \in Acts(l) : a.op \notin {"unbind", "unsubscribe", "dead"}
  BY <1>1, <1>2
<1>6. \A a \in ViewWork :
         /\ a.op \in {"terminate", "take", "erase", "unbind", "unsubscribe", "dead", "endConnection"}
         /\ a.op = "terminate" => a.of \in Connections
         /\ a.op = "erase" => a.of = View \/ a.what = View
  BY <1>2 DEF ViewWork, ConnectionWork
<1>7. \A a \in ClientWork :
         /\ a.op \in {"terminate", "take", "erase", "uninitialize", "removeDelegates", "reset", "endModel"}
         /\ a.op = "terminate" => a.of \in ModelLifetimes
         /\ a.op = "erase" => a.of = Client \/ a.what = Client
  BY <1>2 DEF ClientWork, ModelWork
<1>8. /\ Module \notin {Wire, View, Client} /\ Wire \notin {View, Client} /\ View # Client
      /\ \A m \in Connections : m \notin {Module, Wire, View, Client} \cup ModelLifetimes
      /\ \A m \in ModelLifetimes : m \notin {Module, Wire, View, Client}
  BY LifetimesAre
<1>9. l \notin Connections \cup {View} => Acts(l) \cap ViewWork = {}
  <2>1. ASSUME l \notin Connections \cup {View}, NEW a \in Acts(l), a \in ViewWork PROVE FALSE
    <3>1. CASE l \in ModelLifetimes
      BY <1>1, <1>2, <1>6, <1>8, <2>1, <3>1
    <3>2. CASE l = Client
      BY <1>1, <1>2, <1>6, <1>8, <2>1, <3>2
    <3>3. CASE l = Wire
      BY <1>1, <1>2, <1>6, <1>8, <2>1, <3>3
    <3>4. CASE l = Module
      BY <1>1, <1>2, <1>6, <1>8, <2>1, <3>4
    <3> QED BY <1>1, <2>1, <3>1, <3>2, <3>3, <3>4
  <2> QED BY <2>1
<1>10. l \notin ModelLifetimes \cup {Client} => Acts(l) \cap ClientWork = {}
  <2>1. ASSUME l \notin ModelLifetimes \cup {Client}, NEW a \in Acts(l), a \in ClientWork PROVE FALSE
    <3>1. CASE l \in Connections
      BY <1>1, <1>2, <1>7, <1>8, <2>1, <3>1
    <3>2. CASE l = View
      BY <1>1, <1>2, <1>7, <1>8, <2>1, <3>2
    <3>3. CASE l = Wire
      BY <1>1, <1>2, <1>7, <1>8, <2>1, <3>3
    <3>4. CASE l = Module
      BY <1>1, <1>2, <1>7, <1>8, <2>1, <3>4
    <3> QED BY <1>1, <2>1, <3>1, <3>2, <3>3, <3>4
  <2> QED BY <2>1
<1>11. l \notin Connections \cup ModelLifetimes => Acts(l) \cap ModelActs = {}
  BY <1>2, <1>5
<1> QED BY <1>3, <1>4, <1>9, <1>10, <1>11

\* Actions of different kinds are different.
LEMMA OtherFields ==
    /\ \A x, l : Do(x) # End(l) /\ Do(x) # Take(l)
    /\ \A x, p, l : Do(x) # Detach(p, l)
<1>1. /\ \A x : DOMAIN Do(x) = {"op"}
      /\ \A l : DOMAIN End(l) = {"op", "of"} /\ DOMAIN Take(l) = {"op", "of"}
      /\ \A p, l : DOMAIN Detach(p, l) = {"op", "of", "what"}
  BY DEF Do, End, Take, Detach
<1>2. {"op"} # {"op", "of"} /\ {"op"} # {"op", "of", "what"}
  OBVIOUS
<1> QED BY <1>1, <1>2

\* The flag of a lifetime is set: what was promised by it is with the thread that
\* terminates it.
LEMMA TerminateKeeps ==
    ASSUME IInv, Observed, NEW t \in Threads, Terminate(t),
           UNCHANGED <<linkvars, queue, main, modelvars, clientvars, others>>
    PROVE  IInv'
<1>1. UNCHANGED actions
  BY DEF Terminate
<1>2. PICK l \in Lifetimes \cup {Eternal} :
         \/ l = Eternal /\ Does(t, End(l), {}) /\ UNCHANGED terminated
         \/ l # Eternal /\ Does(t, End(l), {Take(l)}) /\ terminated' = terminated \cup {l}
  BY TerminateEffect, LifetimesAre DEF IInv
<1> DEFINE S == IF l = Eternal THEN {} ELSE {Take(l)}
<1>3. Does(t, End(l), S) /\ terminated \subseteq terminated' /\ terminated' \subseteq Lifetimes
      /\ terminated' \subseteq terminated \cup {l}
      /\ S \subseteq {Take(l)} /\ (l # Eternal => Take(l) \in S /\ l \in terminated')
  BY <1>2 DEF IInv, LTypes
<1> HIDE DEF S
<1>4. /\ todo' \in [Threads -> Seq(Work)] /\ End(l) \in Todo(t)
      /\ \A u \in Threads : u # t => todo'[u] = todo[u] /\ Todo(u)' = Todo(u)
      /\ S \subseteq Todo(t)' /\ Todo(t)' \subseteq S \cup Todo(t) /\ Todo(t) \subseteq {End(l)} \cup Todo(t)'
  BY <1>3 DEF Does, Todo
<1>5. l # Eternal =>
         /\ t = "wire" => l \in Connections
         /\ t = "main" => l \in ModelLifetimes /\ main.op = "dying"
         /\ t = "game" => /\ l \in Connections => View \in terminated
                          /\ l \in ModelLifetimes => Client \in terminated
  BY <1>4, WhoEnds
<1>6. /\ Take(l) \notin ModelActs
      /\ \A x : Do(x) # End(l) /\ Do(x) # Take(l)
      /\ \A m : Take(m) # End(l) /\ (Take(m) = Take(l) => m = l) /\ (End(m) = End(l) => m = l)
      /\ \A m : Take(m) \in ConnectionWork => m \in Connections
      /\ \A m : Take(m) \in ModelWork => m \in ModelLifetimes
      /\ \A m \in Connections : Take(m) \in ConnectionWork
      /\ \A m \in ModelLifetimes : Take(m) \in ModelWork
  <2>1. \A x : Do(x) # End(l) /\ Do(x) # Take(l)
    BY OtherFields
  <2>2. Take(l) \notin ModelActs
    BY WorkSets, ActionFields
  <2>3. \A m : Take(m) # End(l) /\ (Take(m) = Take(l) => m = l) /\ (End(m) = End(l) => m = l)
    BY ActionFields
  <2>4. /\ \A m : Take(m) \in ConnectionWork => m \in Connections
        /\ \A m : Take(m) \in ModelWork => m \in ModelLifetimes
        /\ \A m \in Connections : Take(m) \in ConnectionWork
        /\ \A m \in ModelLifetimes : Take(m) \in ModelWork
    BY WorkSets
  <2> QED BY <2>1, <2>2, <2>3, <2>4
<1>7. /\ Threads = {"wire", "main", "game"} /\ Eternal \notin Lifetimes
      /\ View \notin Connections \cup ModelLifetimes /\ Client \notin Connections \cup ModelLifetimes
      /\ \A m \in Connections : m \notin ModelLifetimes
  BY LifetimesAre
<1>8. /\ raced' \in BOOLEAN /\ orderly' \in BOOLEAN /\ (raced => raced')
      /\ orderly' => orderly /\ Client \notin terminated'
      /\ ~raced' => ~LostDuringBind
  BY MCFacts DEF IInv
<1>9. LTypes' /\ Holders' /\ Exclusion' /\ Once'
  BY <1>1, <1>3, <1>4, <1>8
     DEF IInv, LTypes, Holders, Acts, Exclusion, Once, linkvars, modelvars, clientvars, others
<1>10. Workers'
  <2>1. t = "wire" => S \subseteq ConnectionWork
    BY <1>5, <1>6 DEF S
  <2>2. t = "main" => S \subseteq ModelWork
    BY <1>5, <1>6 DEF S
  <2>3. \A m : Take(m) \in S => m = l /\ l # Eternal
    BY <1>2, <1>3, <1>6 DEF S
  <2>4. Take(l) \in ViewWork => l \in Connections \cup {View}
    BY <1>6, ActionFields DEF ViewWork
  <2>5. Take(l) \in ClientWork => l \in ModelLifetimes \cup {Client}
    BY <1>6, ActionFields DEF ClientWork
  <2>6. t = "game" => /\ View \notin terminated' => S \cap ViewWork = {}
                      /\ Client \notin terminated' => S \cap ClientWork = {}
    BY <1>3, <1>5, <2>3, <2>4, <2>5
  <2>7. t # "game" => {View, Client} \cap terminated' \subseteq terminated
    BY <1>2, <1>3, <1>5, <1>7
  <2>8. \A m \in Lifetimes : Take(m) \in S => m \in terminated'
    BY <1>3, <2>3
  <2> QED BY <1>3, <2>1, <2>2, <2>6, <2>7, <2>8, WorkersStay DEF linkvars, others
<1>11. Sequential'
  <2> DEFINE c == Connection(connections)
  <2>1. wire = "ending" => c # Eternal
    BY NeverEternal
  <2>2. End(c) \in Todo("wire") => \/ End(c) \in Todo("wire")'
                                   \/ c = l /\ t = "wire"
    BY <1>4, <1>6, <1>7
  <2>3. c = l /\ t = "wire" /\ l # Eternal => c \in terminated' /\ Take(c) \in Todo("wire")'
    BY <1>3, <1>4
  <2>4. Take(c) \in Todo("wire") => Take(c) \in Todo("wire")'
    BY <1>4, <1>6, <1>7
  <2>5. /\ \A n \in Models : (IsOver(n) => IsOver(n)') /\ (Cleaned(n) => Cleaned(n)')
        /\ IsOver(connections) => c \in terminated'
        /\ Cleaned(connections) => Cleaned(connections)'
        /\ View \notin terminated' => View \notin terminated
    BY <1>1, <1>3 DEF IsOver, Cleaned, Acts, linkvars
  <2>6. UNCHANGED <<wire, connections, current>>
    BY DEF linkvars
  <2>7. View \notin terminated' /\ wire = "ending" =>
                \/ End(c) \in Todo("wire")'
                \/ /\ c \in terminated'
                   /\ Take(c) \in Todo("wire")' \/ Cleaned(connections)'
    BY <2>1, <2>2, <2>3, <2>4, <2>5 DEF IInv, Sequential
  <2>8. c' = c
    BY <2>6
  <2> QED BY <2>5, <2>6, <2>7 DEF IInv, Sequential, IsOver
<1>12. Numbers'
  BY <1>3 DEF IInv, Numbers, linkvars, modelvars
<1>13. Superseded'
  <2>1. \A u \in Threads : Todo(u)' \cap ModelActs \subseteq Todo(u)
    BY <1>3, <1>4, <1>6
  <2> QED BY <1>1, <1>3, <2>1, SupersededStays DEF Acts, linkvars, modelvars
<1>14. Dies'
  <2>1. \A u \in Threads : Do("dead") \in Todo(u) => Do("dead") \in Todo(u)'
    BY <1>4, <1>6
  <2> QED BY <1>1, <1>3, <2>1 DEF IInv, Dies, Acts, Queued, linkvars, modelvars
<1>15. Unbinds'
  <2>1. \A x : Do(x) \in Todo("wire") => Do(x) \in Todo("wire")'
    BY <1>4, <1>6, <1>7
  <2>2. ~raced' /\ main.op \in {"bound", "advised"} => main.lifetime \notin terminated' \ terminated
    BY <1>8 DEF LostDuringBind
  <2>3. View \notin terminated' /\ ~raced' => View \notin terminated /\ ~raced
    BY <1>3, <1>8 DEF IInv, LTypes
  <2> QED BY <1>1, <2>1, <2>2, <2>3 DEF IInv, Unbinds, Acts, modelvars
<1>16. Serves'
  <2>1. CASE t # "main"
    <3>1. todo'["main"] = todo["main"]
      BY <1>4, <1>7, <2>1
    <3>2. client_current \in terminated' => client_current \in terminated \/ Client \in terminated'
      BY <1>3, <1>5, <1>7, <2>1 DEF IInv, LTypes
    <3> QED BY <1>1, <1>3, <3>1, <3>2, ServesStays DEF modelvars, clientvars
  <2>2. CASE t = "main"
    <3>1. main.op = "dying"
      BY <1>4, <2>2, AtWork
    <3>2. \A x : Do(x) \in Todo("main") => Do(x) \in Todo("main")'
      BY <1>4, <1>6, <1>7
    <3>3. \A m \in ModelLifetimes : End(m) \in Todo("main") \/ Take(m) \in Todo("main")
                                    => End(m) \in Todo("main")' \/ Take(m) \in Todo("main")'
      <4>1. \A m \in ModelLifetimes : m # Eternal
        BY LifetimesAre
      <4> QED BY <1>3, <1>4, <1>6, <2>2, <4>1
    <3>4. \A x : Due(Do(x)) => Due(Do(x))'
      BY <1>1, <3>1, <3>2, <3>3 DEF Due, Acts
    <3> QED BY <1>3, <3>1, <3>4 DEF IInv, Serves, Serving, IsOver, modelvars, clientvars
  <2> QED BY <2>1, <2>2
<1>17. Uses'
  BY <1>8 DEF IInv, Uses, clientvars
<1> QED BY <1>9, <1>10, <1>11, <1>12, <1>13, <1>14, <1>15, <1>16, <1>17 DEF IInv

\* The actions move from the lifetime to the thread, so that none of them is lost.
LEMMA TakeActionsKeeps ==
    ASSUME IInv, Observed, NEW t \in Threads, TakeActions(t),
           UNCHANGED <<linkvars, queue, main, modelvars, clientvars, others>>
    PROVE  IInv'
<1>1. UNCHANGED terminated
  BY DEF TakeActions
<1>2. PICK l \in Lifetimes :
         /\ Does(t, Take(l), Acts(l))
         /\ actions' \in [Lifetimes -> Seq(Work)] /\ Range(actions'[l]) = {}
         /\ \A m \in Lifetimes : m # l => actions'[m] = actions[m]
  BY TakeEffect DEF IInv
<1>3. /\ todo' \in [Threads -> Seq(Work)] /\ Take(l) \in Todo(t)
      /\ \A u \in Threads : u # t => todo'[u] = todo[u] /\ Todo(u)' = Todo(u)
      /\ Acts(l) \subseteq Todo(t)' /\ Todo(t)' \subseteq Acts(l) \cup Todo(t)
      /\ Todo(t) \subseteq {Take(l)} \cup Todo(t)'
  BY <1>2 DEF Does, Todo
<1>4. /\ t = "wire" => l \in Connections
      /\ t = "main" => l \in ModelLifetimes /\ main.op = "dying"
      /\ t = "game" => /\ l \in Connections => View \in terminated
                       /\ l \in ModelLifetimes => Client \in terminated
      /\ l \in terminated
  <2>1. l \in terminated
    BY <1>3 DEF IInv, Workers
  <2> QED BY <1>3, <2>1, WhoEnds
<1>5. /\ \A m : Take(m) \notin Acts(l)
      /\ l \in Connections => Acts(l) \subseteq ConnectionWork
      /\ l \in ModelLifetimes => Acts(l) \subseteq ModelWork
      /\ l \notin Connections \cup ModelLifetimes => Acts(l) \cap ModelActs = {}
      /\ l \notin Connections \cup {View} => Acts(l) \cap ViewWork = {}
      /\ l \notin ModelLifetimes \cup {Client} => Acts(l) \cap ClientWork = {}
  BY WhatIsHeld
<1>6. /\ \A x : Do(x) # Take(l)
      /\ \A m : End(m) # Take(l) /\ (Take(m) = Take(l) => m = l)
      /\ ModelWork \cap ModelActs = {}
      /\ {Do("dead"), Do("unbind"), Do("unsubscribe")} = ModelActs
  <2>1. ModelWork \cap ModelActs = {}
    BY WorkSets
  <2>2. \A x : Do(x) # Take(l)
    BY OtherFields
  <2>3. \A m : End(m) # Take(l) /\ (Take(m) = Take(l) => m = l)
    BY ActionFields
  <2>4. {Do("dead"), Do("unbind"), Do("unsubscribe")} = ModelActs
    BY WorkSets
  <2> QED BY <2>1, <2>2, <2>3, <2>4
<1>7. /\ Threads = {"wire", "main", "game"}
      /\ \A n \in Models : Connection(n) \in Connections /\ Connection(n) \in Lifetimes
      /\ \A m \in Connections : m \notin ModelLifetimes
      /\ \A m \in ModelLifetimes : m \in Lifetimes
  BY LifetimesAre
<1>8. /\ raced' = raced /\ raced' \in BOOLEAN /\ orderly' \in BOOLEAN
      /\ orderly' => orderly /\ Client \notin terminated
  BY <1>1, Calm
<1>9. \A m \in Lifetimes : Range(actions'[m]) \subseteq Acts(m) /\ (m # l => Range(actions'[m]) = Acts(m))
  BY <1>2 DEF Acts
<1>10. LTypes' /\ Exclusion' /\ Once'
  BY <1>1, <1>2, <1>3, <1>8 DEF IInv, LTypes, Exclusion, Once, linkvars, modelvars, clientvars, others
<1>11. Holders'
  BY <1>9, LifetimesAre DEF IInv, Holders, Acts
<1>12. Workers'
  <2>1. t = "game" => /\ View \notin terminated' => Acts(l) \cap ViewWork = {}
                      /\ Client \notin terminated' => Acts(l) \cap ClientWork = {}
    BY <1>1, <1>4, <1>5
  <2>2. /\ t = "wire" => Acts(l) \subseteq ConnectionWork
        /\ t = "main" => Acts(l) \subseteq ModelWork
    BY <1>4, <1>5
  <2> QED BY <1>1, <1>2, <1>5, <2>1, <2>2, WorkersStay DEF linkvars, others
<1>13. \A n \in Models : Cleaned(n) => Cleaned(n)'
  BY <1>7, <1>9 DEF Cleaned, Acts
<1>14. Sequential'
  <2> DEFINE c == Connection(connections)
  <2>1. wire = "ending" => connections \in Models
    BY MaxIsNat, SMT DEF IInv, LTypes, Sequential, Models
  <2>2. wire = "ending" /\ Take(c) \in Todo("wire") => Take(c) \in Todo("wire")' \/ c = l
    BY <1>3, <1>6, <1>7
  <2>3. wire = "ending" /\ c = l => Cleaned(connections)'
    BY <1>2 DEF Cleaned, Acts, linkvars
  <2>4. End(c) \in Todo("wire") => End(c) \in Todo("wire")'
    BY <1>3, <1>6, <1>7
  <2>5. UNCHANGED <<wire, connections, current>>
    BY DEF linkvars
  <2>6. View \notin terminated /\ wire = "ending" =>
                \/ End(c) \in Todo("wire")'
                \/ /\ IsOver(connections)
                   /\ Take(c) \in Todo("wire")' \/ Cleaned(connections)'
    BY <1>13, <2>1, <2>2, <2>3, <2>4, <2>5 DEF IInv, Sequential
  <2> QED BY <1>1, <1>13, <2>5, <2>6 DEF IInv, Sequential, IsOver
<1>15. Numbers'
  BY <1>1 DEF IInv, Numbers, linkvars, modelvars
<1>16. Superseded'
  <2>1. CASE Acts(l) \cap ModelActs = {}
    <3>1. \A u \in Threads : Todo(u)' \cap ModelActs \subseteq Todo(u)
      BY <1>3, <2>1
    <3>2. \A n \in Models : Acts(Connection(n))' \cap ModelActs \subseteq Acts(Connection(n))
      BY <1>7, <1>9 DEF Acts
    <3> QED BY <1>1, <3>1, <3>2, SupersededStays DEF linkvars, modelvars
  <2>2. CASE Acts(l) \cap ModelActs # {}
    <3>1. l \in Connections
      BY <1>5, <1>6, <2>2
    <3>2. PICK n \in Models : l = Connection(n)
      BY <3>1 DEF Connections
    <3>3. n = model /\ ~Coming
      BY <2>2, <3>2 DEF IInv, Superseded, Cleaned, Quiet
    <3>4. model >= 1 /\ IsOver(model)
      BY <1>4, <3>2, <3>3, MaxIsNat, SMT DEF IsOver, Models
    <3>5. ~Coming' /\ ~Queued /\ wire \notin {"set", "handler"}
      BY <3>3 DEF Coming, Queued, linkvars
    <3> QED BY <1>1, <1>13, <3>4, <3>5 DEF IInv, Superseded, Queued, IsOver, linkvars, modelvars
  <2> QED BY <2>1, <2>2
<1>17. Dies'
  <2>1. \A u \in Threads : Do("dead") \in Todo(u) => Do("dead") \in Todo(u)'
    BY <1>3, <1>6
  <2>2. alive \/ main.op = "alive" => model \in Models
    BY MaxIsNat, SMT DEF IInv, LTypes, Numbers, Models, Connecting
  <2>3. model \in Models /\ Do("dead") \in Acts(Connection(model)) =>
           Do("dead") \in Range(actions'[Connection(model)]) \/ Do("dead") \in Todo(t)'
    BY <1>3, <1>7, <1>9
  <2> QED BY <1>1, <2>1, <2>2, <2>3 DEF IInv, Dies, Acts, Queued, linkvars, modelvars
<1>18. Unbinds'
  <2>1. \A x : Do(x) \in Todo("wire") => Do(x) \in Todo("wire")'
    BY <1>3, <1>6, <1>7
  <2>2. bound \/ subscription # 0 => model \in Models
    BY MaxIsNat, SMT DEF IInv, LTypes, Numbers, Models
  <2>3. View \notin terminated /\ l \in Connections => t = "wire"
    BY <1>4, <1>7
  <2>4. View \notin terminated /\ model \in Models =>
           \A a \in Acts(Connection(model)) : a \in Range(actions'[Connection(model)]) \/ a \in Todo("wire")'
    BY <1>3, <1>7, <1>9, <2>3
  <2> QED BY <1>1, <1>8, <2>1, <2>2, <2>4 DEF IInv, Unbinds, Acts, modelvars
<1>19. Serves'
  <2>1. CASE t # "main"
    <3>1. todo'["main"] = todo["main"]
      BY <1>3, <1>7, <2>1
    <3>2. CASE l \notin ModelLifetimes
      <4>1. \A m \in ModelLifetimes : actions'[m] = actions[m]
        BY <1>2, <1>7, <3>2
      <4> QED BY <1>1, <3>1, <4>1, ServesStays DEF modelvars, clientvars
    <3>3. CASE l \in ModelLifetimes
      <4>1. Client \in terminated
        BY <1>4, <1>7, <2>1, <3>3
      <4> QED BY <1>1, <4>1 DEF IInv, Serves
    <3> QED BY <3>2, <3>3
  <2>2. CASE t = "main"
    <3>1. main.op = "dying"
      BY <1>4, <2>2
    <3>2. \A x : Do(x) \in Todo("main") => Do(x) \in Todo("main")'
      BY <1>3, <1>6, <1>7
    <3>3. \A m \in ModelLifetimes : End(m) \in Todo("main") \/ Take(m) \in Todo("main")
                                    => m = l \/ End(m) \in Todo("main")' \/ Take(m) \in Todo("main")'
      BY <1>3, <1>6, <2>2
    <3>4. \A m \in ModelLifetimes : m = l \/ Range(actions'[m]) = Acts(m)
      BY <1>7, <1>9
    <3>5. \A a \in Acts(l) : a \in Todo("main")'
      BY <1>3, <2>2
    <3>6. \A x : Due(Do(x)) => Due(Do(x))'
      BY <3>1, <3>2, <3>3, <3>4, <3>5 DEF Due, Acts
    <3> QED BY <1>1, <3>1, <3>6 DEF IInv, Serves, Serving, IsOver, modelvars, clientvars
  <2> QED BY <2>1, <2>2
<1>20. Uses'
  BY <1>1, <1>8 DEF IInv, Uses, clientvars
<1> QED BY <1>10, <1>11, <1>12, <1>14, <1>15, <1>16, <1>17, <1>18, <1>19, <1>20 DEF IInv

\* What is erased from a parent has ended already, or is being ended.
LEMMA EraseNestedKeeps ==
    ASSUME IInv, Observed, NEW t \in Threads, EraseNested(t),
           UNCHANGED <<linkvars, queue, main, modelvars, clientvars, others>>
    PROVE  IInv'
<1>1. UNCHANGED terminated
  BY DEF EraseNested
<1>2. PICK p \in {Module, Wire, View, Client}, n \in Lifetimes :
         /\ Does(t, Detach(p, n), {})
         /\ actions' \in [Lifetimes -> Seq(Work)]
         /\ \A m \in Lifetimes : m # p => actions'[m] = actions[m]
         /\ Range(actions'[p]) \subseteq Acts(p)
  BY EraseEffect DEF IInv
<1>3. /\ todo' \in [Threads -> Seq(Work)]
      /\ \A u \in Threads : u # t => todo'[u] = todo[u] /\ Todo(u)' = Todo(u)
      /\ Todo(t)' \subseteq Todo(t) /\ Todo(t) \subseteq {Detach(p, n)} \cup Todo(t)'
  BY <1>2 DEF Does, Todo
<1>4. /\ Threads = {"wire", "main", "game"}
      /\ \A l \in Connections \cup ModelLifetimes : l \in Lifetimes /\ l # p
      /\ \A m \in Models : Connection(m) \in Connections
  BY LifetimesAre
<1>5. /\ \A x : Do(x) # Detach(p, n)
      /\ \A m : End(m) # Detach(p, n) /\ Take(m) # Detach(p, n)
  BY ActionFields, OtherFields
<1>6. \A u \in Threads : /\ Todo(u)' \subseteq Todo(u)
                         /\ Todo(u) \subseteq {Detach(p, n)} \cup Todo(u)'
  BY <1>3
<1>7. /\ \A l \in Connections \cup ModelLifetimes : actions'[l] = actions[l]
      /\ \A m \in Models : actions'[Connection(m)] = actions[Connection(m)]
      /\ \A l \in Lifetimes : Range(actions'[l]) \subseteq Acts(l)
  BY <1>2, <1>4 DEF Acts
<1>8. /\ raced' = raced /\ raced' \in BOOLEAN /\ orderly' \in BOOLEAN
      /\ orderly' => orderly /\ Client \notin terminated
  BY <1>1, Calm
<1>9. LTypes' /\ Exclusion' /\ Once'
  BY <1>1, <1>2, <1>3, <1>8 DEF IInv, LTypes, Exclusion, Once, linkvars, modelvars, clientvars, others
<1>10. Holders'
  BY <1>7, LifetimesAre DEF IInv, Holders, Acts
<1>11. Workers'
  BY <1>1, <1>2, WorkersStay DEF linkvars, others
<1>12. \A x : /\ Do(x) \in Todo("wire") => Do(x) \in Todo("wire")'
              /\ End(x) \in Todo("wire") => End(x) \in Todo("wire")'
              /\ Take(x) \in Todo("wire") => Take(x) \in Todo("wire")'
  BY <1>4, <1>5, <1>6
<1>13. Sequential'
  <2>1. wire = "ending" => connections \in Models
    BY MaxIsNat, SMT DEF IInv, LTypes, Sequential, Models
  <2> QED BY <1>1, <1>7, <1>12, <2>1 DEF IInv, Sequential, Acts, Cleaned, IsOver, linkvars
<1>14. Numbers'
  BY <1>1 DEF IInv, Numbers, linkvars, modelvars
<1>15. Superseded'
  BY <1>1, <1>6, <1>7, SupersededStays DEF Acts, linkvars, modelvars
<1>16. Dies'
  <2>1. \A u \in Threads : Do("dead") \in Todo(u) => Do("dead") \in Todo(u)'
    BY <1>5, <1>6
  <2> QED BY <1>1, <1>7, <2>1, DiesStays DEF Acts, Queued, linkvars, modelvars
<1>17. Unbinds'
  <2>1. bound \/ subscription # 0 => model \in Models
    BY MaxIsNat, SMT DEF IInv, LTypes, Numbers, Models
  <2> QED BY <1>1, <1>7, <1>8, <1>12, <2>1 DEF IInv, Unbinds, Acts, modelvars
<1>18. Serves'
  <2>1. CASE t # "main"
    <3>1. todo'["main"] = todo["main"]
      BY <1>3, <1>4, <2>1
    <3> QED BY <1>1, <1>7, <3>1, ServesStays DEF modelvars, clientvars
  <2>2. CASE t = "main"
    <3>1. Todo("main") # {} /\ main.op = "dying"
      <4>1. Todo("main") # {}
        BY <1>2, <2>2 DEF Does
      <4> QED BY <4>1, AtWork
    <3>2. \A x : /\ Do(x) \in Todo("main") => Do(x) \in Todo("main")'
                 /\ End(x) \in Todo("main") => End(x) \in Todo("main")'
                 /\ Take(x) \in Todo("main") => Take(x) \in Todo("main")'
      BY <1>4, <1>5, <1>6
    <3>3. \A x : Due(Do(x)) => Due(Do(x))'
      BY <1>7, <3>1, <3>2 DEF Due, Acts
    <3> QED BY <1>1, <3>1, <3>3 DEF IInv, Serves, Serving, IsOver, modelvars, clientvars
  <2> QED BY <2>1, <2>2
<1>19. Uses'
  BY <1>1, <1>8 DEF IInv, Uses, clientvars
<1> QED BY <1>9, <1>10, <1>11, <1>13, <1>14, <1>15, <1>16, <1>17, <1>18, <1>19 DEF IInv

-----------------------------------------------------------------------------
(* The invariant                                                           *)

\* The modules are loaded, and nothing has happened yet.
LEMMA InitHolds == MCInit => IInv
<1> SUFFICES ASSUME MCInit PROVE IInv
  OBVIOUS
<1>1. /\ Init /\ raced = FALSE /\ orderly = TRUE
      /\ terminated = {} /\ current = Eternal /\ connections = 0 /\ wire = "none"
      /\ closing = FALSE /\ main = Idle
      /\ model = 0 /\ bound = FALSE /\ subscription = 0 /\ alive = FALSE /\ logger = "idle"
      /\ viewing = FALSE /\ client_current = Eternal /\ client = 0 /\ delegates = 0
      /\ events = 0 /\ game = "running"
  BY DEF MCInit, Init
<1>2. /\ \A l \in Lifetimes : actions[l] \in Seq(Work)
      /\ Acts(Module) = {Do("stopPool"), End(Client)} /\ Acts(Client) = {Detach(Module, Client)}
      /\ \A l \in Lifetimes \ {Module, Client} : Acts(l) = {}
      /\ actions \in [Lifetimes -> Seq(Work)]
  <2>1. /\ Module \in Lifetimes /\ Client \in Lifetimes /\ Module # Client
        /\ actions[Module] = <<Do("stopPool"), End(Client)>>
        /\ actions[Client] = <<Detach(Module, Client)>>
        /\ \A l \in Lifetimes \ {Module, Client} : actions[l] = <<>>
        /\ actions = [l \in Lifetimes |-> actions[l]]
    BY LifetimesAre DEF MCInit, Init, Module, Client
  <2>2. {Do("stopPool"), End(Client), Detach(Module, Client)} \subseteq Work
    BY DEF Work, ModuleWork, ClientWork
  <2>3. \A l \in Lifetimes : actions[l] \in Seq(Work)
    <3>1. actions[Module] \in Seq(Work) /\ actions[Client] \in Seq(Work)
      BY <2>1, <2>2, RangeOfPair, RangeOfSingle
    <3> QED BY <2>1, <3>1, EmptySeq
  <2>4. /\ Acts(Module) = {Do("stopPool"), End(Client)}
        /\ Acts(Client) = {Detach(Module, Client)}
    BY <2>1, <2>2, RangeOfPair, RangeOfSingle DEF Acts
  <2>5. \A l \in Lifetimes \ {Module, Client} : Acts(l) = {}
    BY <2>1, RangeOfNone DEF Acts
  <2> QED BY <2>1, <2>3, <2>4, <2>5
<1>3. /\ \A t \in Threads : todo[t] = <<>> /\ Todo(t) = {}
      /\ todo \in [Threads -> Seq(Work)]
  <2>1. /\ \A t \in Threads : todo[t] = <<>>
        /\ todo = [t \in Threads |-> <<>>]
    BY DEF MCInit, Init
  <2> QED BY <2>1, RangeOfNone, EmptySeq DEF Todo
<1>4. /\ queue \in Seq(Waiting) /\ Len(queue) = 2
      /\ queue[1].op = "init" /\ queue[2].op = "view"
      /\ \A i \in 1 .. Len(queue) : i = 1 \/ i = 2
  <2>1. 0 \in 0 .. MaxConnections
    BY MaxIsNat, SMT
  <2>2. /\ Task("init", 0, Eternal) \in Waiting /\ Task("view", 0, Eternal) \in Waiting
        /\ Task("init", 0, Eternal).op = "init" /\ Task("view", 0, Eternal).op = "view"
    BY <2>1, NewTask DEF Names
  <2>3. queue = <<Task("init", 0, Eternal), Task("view", 0, Eternal)>>
    BY DEF MCInit, Init
  <2>4. queue \in Seq(Waiting) /\ Len(queue) = 2
    BY <2>2, <2>3, RangeOfPair
  <2>5. \A i \in 1 .. Len(queue) : i = 1 \/ i = 2
    BY <2>4, SMT
  <2> QED BY <2>2, <2>3, <2>4, <2>5
<1>5. \A i \in 1 .. Len(queue) : queue[i].op \in {"init", "view"}
  BY <1>4
<1>6. /\ \A l \in Connections \cup ModelLifetimes : Acts(l) = {}
      /\ Acts(View) = {} /\ Acts(Wire) = {}
      /\ \A n \in Models : Cleaned(n)
  <2>1. /\ \A l \in Connections \cup ModelLifetimes : l \in Lifetimes \ {Module, Client}
        /\ {View, Wire} \subseteq Lifetimes \ {Module, Client}
        /\ \A n \in Models : Connection(n) \in Connections
    BY LifetimesAre DEF Module, Client, View, Wire
  <2> QED BY <1>2, <2>1 DEF Cleaned
<1>7. /\ Threads = {"wire", "main", "game"} /\ Idle.op = "idle"
      /\ Idle \in Tasks({"idle", "dying"} \cup Connecting \cup Serving)
      /\ "idle" \notin Connecting \cup Serving \cup {"dying"}
  BY LifetimesAre, IdleTask DEF Connecting, Serving
<1>8. {0} \subseteq 0 .. MaxConnections /\ 0 \in 0 .. MaxEvents
  BY RiderLinkAssumption, SMT
<1>9. LTypes
  BY <1>1, <1>2, <1>3, <1>4, <1>7, <1>8 DEF LTypes
<1>10. Holders
  BY <1>2, <1>6 DEF Holders
<1>11. Workers
  BY <1>1, <1>3, <1>7 DEF Workers
<1>12. Exclusion
  BY <1>1, <1>7 DEF Exclusion
<1>13. Once
  BY <1>1, <1>4 DEF Once
<1>14. Sequential
  <2>1. \A n \in Models : ~(n < 0)
    BY MaxIsNat, SMT DEF Models
  <2> QED BY <1>1, <2>1 DEF Sequential
<1>15. Numbers
  BY <1>1, <1>5, <1>7, SMT DEF Numbers
<1>16. Superseded
  BY <1>1, <1>3, <1>5, <1>6, <1>7 DEF Superseded, Coming, Queued
<1>17. Dies /\ Unbinds /\ Serves /\ Uses
  BY <1>1, <1>5, <1>7 DEF Dies, Unbinds, Serves, Uses, Serving
<1> QED BY <1>9, <1>10, <1>11, <1>12, <1>13, <1>14, <1>15, <1>16, <1>17 DEF IInv

\* What a thread executes for a lifetime.
LEMMA ActionStepKeeps == ASSUME IInv, Observed, NEW t \in Threads, ActionStep(t) PROVE IInv'
<1>1. CASE UnbindAction(t)
  BY <1>1, UnbindActionKeeps
<1>2. CASE UnsubscribeAction(t)
  BY <1>2, UnsubscribeActionKeeps
<1>3. CASE DeadAction(t)
  BY <1>3, DeadActionKeeps
<1>4. CASE UninitializeAction(t)
  BY <1>4, UninitializeActionKeeps
<1>5. CASE RemoveDelegatesAction(t)
  BY <1>5, RemoveDelegatesActionKeeps
<1>6. CASE ResetAction(t)
  BY <1>6, ResetActionKeeps
<1>7. CASE EndConnectionAction(t)
  BY <1>7, EndConnectionActionKeeps
<1>8. CASE EndModelAction(t)
  BY <1>8, EndModelActionKeeps
<1>9. CASE CloseSockets(t)
  BY <1>9, CloseSocketsKeeps
<1>10. CASE JoinAction(t)
  BY <1>10, JoinActionKeeps
<1>11. CASE StopPoolAction(t)
  BY <1>11, StopPoolActionKeeps
<1>12. CASE Terminate(t) /\ UNCHANGED <<linkvars, queue, main, modelvars, clientvars, others>>
  BY <1>12, TerminateKeeps
<1>13. CASE TakeActions(t) /\ UNCHANGED <<linkvars, queue, main, modelvars, clientvars, others>>
  BY <1>13, TakeActionsKeeps
<1>14. CASE EraseNested(t) /\ UNCHANGED <<linkvars, queue, main, modelvars, clientvars, others>>
  BY <1>14, EraseNestedKeeps
<1> QED BY <1>1, <1>2, <1>3, <1>4, <1>5, <1>6, <1>7, <1>8, <1>9, <1>10, <1>11, <1>12, <1>13, <1>14
        DEF ActionStep, LifetimeStep

\* Every step keeps the invariant.
LEMMA StepKeeps == IInv /\ [MCNext]_mcvars => IInv'
<1>1. ASSUME IInv, UNCHANGED mcvars PROVE IInv'
  <2>1. UNCHANGED <<vars, raced>> /\ orderly' = orderly /\ orderly \in BOOLEAN
    BY <1>1 DEF mcvars, IInv, LTypes
  <2> QED BY <1>1, <2>1, StutterKeeps
<1>2. ASSUME IInv, MCNext PROVE IInv'
  <2>1. Next /\ Observed
    BY <1>2 DEF MCNext, Observed
  <2>2. Threads = {"wire", "main", "game"}
    BY LifetimesAre
  <2>3. CASE Connect \/ Disconnect \/ WireStep
    <3>1. CASE Connect
      BY <1>2, <2>1, <3>1, ConnectKeeps
    <3>2. CASE Disconnect
      BY <1>2, <2>1, <3>2, DisconnectKeeps
    <3>3. CASE NextLifetime
      BY <1>2, <2>1, <3>3, NextLifetimeKeeps
    <3>4. CASE SetCurrent
      BY <1>2, <2>1, <3>4, SetCurrentKeeps
    <3>5. CASE ConnectedHandler
      BY <1>2, <2>1, <3>5, ConnectedHandlerKeeps
    <3>6. CASE Disconnected
      BY <1>2, <2>1, <3>6, DisconnectedKeeps
    <3>7. CASE WireThreadEnds
      BY <1>2, <2>1, <3>7, WireThreadEndsKeeps
    <3>8. CASE ActionStep("wire")
      BY <1>2, <2>1, <2>2, <3>8, ActionStepKeeps
    <3> QED BY <2>3, <3>1, <3>2, <3>3, <3>4, <3>5, <3>6, <3>7, <3>8 DEF WireStep
  <2>4. CASE MainStep
    <3>1. CASE InitProtocol
      BY <1>2, <2>1, <3>1, InitProtocolKeeps
    <3>2. CASE NewModel
      BY <1>2, <2>1, <3>2, NewModelKeeps
    <3>3. CASE Bind
      BY <1>2, <2>1, <3>3, BindKeeps
    <3>4. CASE BindClosing
      BY <1>2, <2>1, <3>4, BindClosingKeeps
    <3>5. CASE Advise
      BY <1>2, <2>1, <3>5, AdviseKeeps
    <3>6. CASE AdviseClosing
      BY <1>2, <2>1, <3>6, AdviseClosingKeeps
    <3>7. CASE AddDead
      BY <1>2, <2>1, <3>7, AddDeadKeeps
    <3>8. CASE SetAlive
      BY <1>2, <2>1, <3>8, SetAliveKeeps
    <3>9. CASE SetDead
      BY <1>2, <2>1, <3>9, SetDeadKeeps
    <3>10. CASE Died
      BY <1>2, <2>1, <3>10, DiedKeeps
    <3>11. CASE ViewModel
      BY <1>2, <2>1, <3>11, ViewModelKeeps
    <3>12. CASE ClientLifetime
      BY <1>2, <2>1, <3>12, ClientLifetimeKeeps
    <3>13. CASE AddReset
      BY <1>2, <2>1, <3>13, AddResetKeeps
    <3>14. CASE AddDelegates
      BY <1>2, <2>1, <3>14, AddDelegatesKeeps
    <3>15. CASE AddRemoval
      BY <1>2, <2>1, <3>15, AddRemovalKeeps
    <3>16. CASE Construct
      BY <1>2, <2>1, <3>16, ConstructKeeps
    <3>17. CASE UseClient
      BY <1>2, <2>1, <3>17, UseClientKeeps
    <3>18. CASE ActionStep("main")
      BY <1>2, <2>1, <2>2, <3>18, ActionStepKeeps
    <3> QED BY <2>4, <3>1, <3>2, <3>3, <3>4, <3>5, <3>6, <3>7, <3>8, <3>9, <3>10, <3>11, <3>12,
               <3>13, <3>14, <3>15, <3>16, <3>17, <3>18 DEF MainStep
  <2>5. CASE GameStep \/ Shutdown("running", "client", Client)
    <3>1. CASE ActionStep("game")
      BY <1>2, <2>1, <2>2, <3>1, ActionStepKeeps
    <3>2. CASE Shutdown("client", "shutdown", Module)
      BY <1>2, <2>1, <3>2, ShutdownKeeps
    <3>3. CASE Shutdown("running", "client", Client)
      BY <1>2, <2>1, <3>3, ShutdownKeeps
    <3>4. CASE ShutdownReturns
      BY <1>2, <2>1, <3>4, ShutdownReturnsKeeps
    <3> QED BY <2>5, <3>1, <3>2, <3>3, <3>4 DEF GameStep
  <2>6. CASE EngineEvent
    BY <1>2, <2>1, <2>6, EngineEventKeeps
  <2>7. CASE FireAsyncAction \/ FireAsyncReturns
    BY <1>2, <2>1, <2>7, FireAsyncActionKeeps
  <2>8. CASE UNCHANGED vars
    <3>1. terminated' = terminated
      BY <2>8 DEF vars, ltvars
    <3>2. raced' = raced /\ orderly' \in BOOLEAN /\ (orderly' => orderly)
      BY <1>2, <2>1, <3>1, MCFacts DEF IInv
    <3> QED BY <1>2, <2>8, <3>2, StutterKeeps
  <2> QED BY <2>1, <2>3, <2>4, <2>5, <2>6, <2>7, <2>8 DEF Next, Finished
<1> QED BY <1>1, <1>2

\* IInv holds in every state.
THEOREM LinkInvariance == MCSpec => []IInv
<1> QED BY InitHolds, StepKeeps, PTL DEF MCSpec

\* Every state of the link is of its type; what refers to a model or to a lifetime
\* refers to one that was or can be made (RiderLink.cpp and RiderGameControl.cpp).
THEOREM LinkTypes == MCSpec => []LinkTypeOK
<1>1. ASSUME IInv PROVE LinkTypeOK
  <2>1. /\ LTypes /\ OtherActions = Ops
        /\ Connections \subseteq Lifetimes /\ ModelLifetimes \subseteq Lifetimes
    BY <1>1, RiderLinkAssumption, LifetimesAre DEF IInv, Ops
  <2>2. ASSUME NEW l \in Lifetimes, NEW i \in DOMAIN actions[l]
        PROVE  actions[l][i].op \in {"terminate", "erase"} \cup OtherActions
    <3>1. actions[l] \in Seq(Work) /\ actions[l][i] \in Acts(l)
      BY <2>1, <2>2 DEF LTypes, Acts, Range
    <3>2. actions[l][i] \in Work /\ \A m : Take(m) \notin Acts(l)
      BY <1>1, <3>1, WhatIsHeld, RangeEquality, ElementOfSeq DEF LTypes, Acts
    <3> QED BY <2>1, <3>1, <3>2, WorkOps
  <2>3. ASSUME NEW t \in Threads, NEW i \in DOMAIN todo[t]
        PROVE  todo[t][i].op \in {"terminate", "erase", "take"} \cup OtherActions
    <3>1. todo[t] \in Seq(Work)
      BY <2>1 DEF LTypes
    <3>2. todo[t][i] \in Work
      BY <2>3, <3>1, LenProperties, ElementOfSeq
    <3> QED BY <2>1, <3>2, WorkOps
  <2>4. LifetimeTypeOK
    BY <2>1, <2>2, <2>3 DEF LifetimeTypeOK, LTypes
  <2>5. main.lifetime \in Lifetimes \cup {Eternal}
    BY <2>1 DEF LTypes, Tasks
  <2> QED BY <2>1, <2>4, <2>5 DEF LinkTypeOK, LTypes
<1> QED BY <1>1, LinkInvariance, PTL

-----------------------------------------------------------------------------
(* The properties                                                          *)

\* An action that the client scheduled finds the client it captured, and engine
\* events go to a client that exists or is being constructed, while the connection
\* lasts (RiderGameControl.cpp, ScheduleModelAction and the delegates).
THEOREM ClientIsLive == MCSpec => []UsesLiveClient
<1>1. ASSUME IInv PROVE UsesLiveClient
  <2>1. ASSUME orderly, main = Idle, queue # <<>>, Head(queue).op = "use"
        PROVE  Head(queue).model = client
    <3>1. main.op = "idle"
      BY <2>1, IdleTask
    <3>2. queue \in Seq(Waiting)
      BY <1>1 DEF IInv, LTypes
    <3>3. 1 \in 1 .. Len(queue) /\ queue[1].op = "use" /\ Head(queue) = queue[1]
      BY <2>1, <3>2, TailIndices
    <3> QED BY <1>1, <2>1, <3>1, <3>3 DEF IInv, Uses
  <2>2. ASSUME orderly, main.op \notin {"removal", "use"}, delegates \notin {0, client}
        PROVE  Connection(delegates) \in terminated
    BY <1>1, <2>2 DEF IInv, Uses, Serves, IsOver
  <2> QED BY <2>1, <2>2 DEF UsesLiveClient
<1> QED BY <1>1, LinkInvariance, PTL

\* After a connection was lost and the tasks for it are done, nothing is bound or
\* subscribed any more (InitProtocol and RdBindableBase::bind).
THEOREM LostIsUnbound == MCSpec => []LostMeansUnbound
<1>1. ASSUME IInv PROVE LostMeansUnbound
  <2> SUFFICES ASSUME wire = "down", main = Idle, game = "running", ~raced
               PROVE  ~bound /\ subscription = 0
    BY DEF LostMeansUnbound
  <2>1. View \notin terminated /\ main.op = "idle"
    BY <1>1, IdleTask DEF IInv, Workers
  <2>2. Quiet
    BY <1>1, <2>1, QuietNow
  <2>3. bound \/ subscription # 0 => model \in Models
    BY <1>1, MaxIsNat, SMT DEF IInv, LTypes, Numbers, Models
  <2>4. {Do("unbind"), Do("unsubscribe")} \subseteq ModelActs /\ "wire" \in Threads
    BY WorkSets, LifetimesAre
  <2>5. /\ Todo("wire") \cap ModelActs = {}
        /\ model \in Models => Acts(Connection(model)) \cap ModelActs = {}
    BY <2>2, <2>4 DEF Quiet, Cleaned
  <2> QED BY <1>1, <2>1, <2>3, <2>4, <2>5 DEF IInv, Unbinds
<1> QED BY <1>1, LinkInvariance, PTL

\* Which steps change the model, and whether it is alive or bound.
LEMMA WhoChanges ==
    ASSUME [MCNext]_mcvars
    PROVE  /\ model' # model => NewModel
           /\ alive' # alive => SetAlive \/ Died
           /\ bound' # bound => NewModel \/ Bind \/ \E t \in Threads : UnbindAction(t)
<1> DEFINE Same == UNCHANGED modelvars
           Goal == /\ model' # model => NewModel
                   /\ alive' # alive => SetAlive \/ Died
                   /\ bound' # bound => NewModel \/ Bind \/ \E t \in Threads : UnbindAction(t)
<1>1. Same => Goal
  BY DEF modelvars
<1>2. ASSUME NEW t \in Threads, ActionStep(t) PROVE Goal
  <2>1. UnbindAction(t) \/ (UNCHANGED <<model, bound, alive>>)
    BY <1>2 DEF ActionStep, modelvars, UnsubscribeAction, DeadAction, UninitializeAction,
                RemoveDelegatesAction, ResetAction, EndConnectionAction, EndModelAction,
                CloseSockets, JoinAction, StopPoolAction
  <2>2. UnbindAction(t) => Goal
    BY DEF UnbindAction
  <2> QED BY <2>1, <2>2
<1>3. Threads = {"wire", "main", "game"}
  BY LifetimesAre
<1>4. CASE Connect \/ Disconnect \/ WireStep
  <2>1. Same \/ ActionStep("wire")
    BY <1>4 DEF WireStep, Connect, Disconnect, NextLifetime, SetCurrent, ConnectedHandler,
                Disconnected, WireThreadEnds
  <2> QED BY <1>1, <1>2, <1>3, <2>1
<1>5. CASE MainStep
  <2>1. \/ Same \/ ActionStep("main")
        \/ NewModel \/ Bind \/ Advise \/ SetAlive \/ Died
    BY <1>5 DEF MainStep, InitProtocol, BindClosing, AdviseClosing, AddDead, SetDead, ViewModel,
                ClientLifetime, AddReset, AddDelegates, AddRemoval, Construct, UseClient
  <2>2. NewModel \/ Bind \/ Advise \/ SetAlive \/ Died => Goal
    BY DEF NewModel, Bind, Advise, SetAlive, Died
  <2> QED BY <1>1, <1>2, <1>3, <2>1, <2>2
<1>6. CASE GameStep \/ Shutdown("running", "client", Client)
  <2>1. Same \/ ActionStep("game")
    BY <1>6 DEF GameStep, Shutdown, ShutdownReturns
  <2> QED BY <1>1, <1>2, <1>3, <2>1
<1>7. CASE EngineEvent \/ FireAsyncAction \/ FireAsyncReturns \/ UNCHANGED vars
  <2>1. Same
    BY <1>7 DEF EngineEvent, FireAsyncAction, FireAsyncReturns, vars
  <2> QED BY <1>1, <2>1
<1> QED BY <1>4, <1>5, <1>6, <1>7 DEF MCNext, mcvars, Next, Finished

\* EditorModel is replaced only after RdIsModelAlive was set to false for it, and
\* until the shutdown no client holds on to it (RiderLink.cpp:102).
THEOREM ReplacedWhenDead == MCSpec => ReplacedOnlyWhenDead
<1>1. ASSUME IInv, [MCNext]_mcvars, model' # model
      PROVE  ~alive /\ (game = "running" => client = 0 /\ delegates = 0)
  <2>1. NewModel
    BY <1>1, WhoChanges
  <2>2. Run("connect") /\ LTypes
    BY <1>1, <2>1 DEF NewModel, IInv
  <2>3. main = Idle /\ 1 \in 1 .. Len(queue) /\ queue[1].op = "connect"
    BY <2>2, QueueTail
  <2>4. ~alive /\ (Client \notin terminated => client = 0 /\ delegates = 0)
    BY <1>1, <2>3, NothingIsLeft
  <2> QED BY <1>1, <2>4 DEF IInv, Workers
<1>2. IInv /\ [MCNext]_mcvars =>
         [model' # model => ~alive /\ (game = "running" => client = 0 /\ delegates = 0)]_mcvars
  BY <1>1
<1> QED BY <1>2, LinkInvariance, PTL DEF MCSpec, ReplacedOnlyWhenDead

\* While the logging thread holds ModelLock, the model stays and stays alive; only
\* the loss of its connection unbinds it (FireAsyncAction and InitProtocol).
THEOREM ReadersStay == MCSpec => ReadersAreUndisturbed
<1>1. ASSUME IInv, [MCNext]_mcvars, logger # "idle"
      PROVE  UNCHANGED <<model, alive>> /\ (bound' # bound => Connection(model) \in terminated)
  <2>1. main.op \notin Connecting \cup {"dying"}
    BY <1>1 DEF IInv, Exclusion
  <2>2. ~NewModel /\ ~Bind /\ ~SetAlive /\ ~Died
    BY <1>1, <2>1 DEF NewModel, Bind, SetAlive, Died, At, Connecting
  <2>3. ASSUME NEW t \in Threads, UnbindAction(t) PROVE Connection(model) \in terminated
    <3>1. Doing(t, "unbind") /\ Done(t) /\ "unbind" \in Ops
      BY <2>3 DEF UnbindAction, Ops
    <3>2. Do("unbind") \in Todo(t)
      BY <1>1, <3>1, DoEffect DEF IInv, Does
    <3>3. Do("unbind") \in ModelActs
      BY WorkSets
    <3> QED BY <1>1, <3>2, <3>3 DEF IInv, Superseded, IsOver
  <2> QED BY <1>1, <2>2, <2>3, WhoChanges
<1>2. IInv /\ [MCNext]_mcvars =>
         [logger # "idle" /\ logger' # "idle" =>
             /\ UNCHANGED <<model, alive>>
             /\ bound' # bound => Connection(model) \in terminated]_mcvars
  BY <1>1
<1> QED BY <1>2, LinkInvariance, PTL DEF MCSpec, ReadersAreUndisturbed
=============================================================================
