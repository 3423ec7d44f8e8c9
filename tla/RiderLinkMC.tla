---------------------------- MODULE RiderLinkMC ----------------------------
(***************************************************************************)
(* The RiderLink module with observers of the races that the code does not *)
(* cope with.                                                              *)
(***************************************************************************)
EXTENDS RiderLink

VARIABLES
    raced,   \* a connection was lost between a test of its lifetime and the add_action for it
    orderly  \* engine events came while the connection lasted, no constructor of the client
             \* threw, and the client was not shut down

mcvars == <<vars, raced, orderly>>

MCThreads == {"wire", "main", "game"}
MCOtherActions == {"stopPool", "join", "endConnection", "endModel", "unbind", "unsubscribe",
                   "dead", "uninitialize", "removeDelegates", "reset"}
MCLifetimes == {<<"module", 0>>, <<"wire", 0>>, <<"view", 0>>, <<"client", 0>>}
                   \cup ({"connection", "model"} \X (1 .. MaxConnections))

LostDuringBind == main.op \in {"bound", "advised"} /\ main.lifetime \in terminated' \ terminated
LateEvent == events' # events /\ Connection(delegates) \in terminated
ConstructorThrew == main.op = "use" /\ main' = Idle /\ client' # model

MCInit == Init /\ raced = FALSE /\ orderly = TRUE

MCNext ==
    /\ Next
    /\ raced' = (raced \/ LostDuringBind)
    /\ orderly' = (orderly /\ ~LateEvent /\ ~ConstructorThrew /\ Client \notin terminated')

MCSpec == MCInit /\ [][MCNext]_mcvars /\ Fairness

-----------------------------------------------------------------------------
\* The types of the link; what refers to a model or a lifetime refers to one that
\* was or can be made.
LinkTypeOK ==
    /\ LifetimeTypeOK
    /\ current \in Lifetimes \cup {Eternal} /\ client_current \in Lifetimes \cup {Eternal}
    /\ wire \in {"none", "down", "next", "set", "handler", "up", "ending", "exit"}
    /\ {model, subscription, client, delegates} \subseteq 0 .. MaxConnections
    /\ main.lifetime \in Lifetimes \cup {Eternal}
    /\ logger \in {"idle", "locked", "firing"}
    /\ game \in {"running", "client", "shutdown", "done"}

\* EditorModel is replaced, which destroys the old one, only after RdIsModelAlive
\* was set to false for it ("change it before creating new RdEditorModel",
\* RiderLink.cpp:102), so that until the shutdown no client holds on to it.
ReplacedOnlyWhenDead ==
    [][model' # model => /\ ~alive
                         /\ game = "running" => client = 0 /\ delegates = 0]_mcvars

\* While the logging thread is at it, the model stays and stays alive; only the
\* loss of the connection unbinds it under its hands.
ReadersAreUndisturbed ==
    [][logger # "idle" /\ logger' # "idle" =>
          /\ UNCHANGED <<model, alive>>
          /\ bound' # bound => Connection(model) \in terminated]_mcvars

\* An action scheduled by the client finds the client it captured, and events go
\* to a client that exists or is being constructed.
UsesLiveClient ==
    orderly =>
        /\ main = Idle /\ queue # <<>> /\ Head(queue).op = "use" => Head(queue).model = client
        /\ \/ delegates \in {0, client} \/ main.op \in {"removal", "use"}
           \/ Connection(delegates) \in terminated

\* After a connection was lost and the tasks for it are done, nothing is bound or
\* subscribed any more: the broker keeps no pointer to a model that the next
\* connection destroys.
LostMeansUnbound ==
    wire = "down" /\ main = Idle /\ (\A i \in DOMAIN queue : queue[i].op # "connect")
        /\ game = "running" /\ ~raced
    => ~bound /\ subscription = 0

\* With a connection that lasts, the model ends up alive, bound and shown to the
\* client; without one, dead, unbound and hidden.
FollowsTheWire ==
    /\ <>[](wire = "up" /\ game = "running" /\ ~raced) =>
          <>[](alive /\ bound /\ model = connections /\ subscription = model /\ client = model)
    /\ <>[](wire = "down" /\ game = "running" /\ ~raced) =>
          <>[](~alive /\ ~bound /\ client = 0 /\ delegates = 0)

\* The modules can be shut down at any time: all threads end, the scheduler only
\* when nothing can be queued any more.
ShutdownEnds ==
    game = "client" ~> game = "done" /\ wire \in {"none", "exit"} /\ queue = <<>> /\ main = Idle
=============================================================================
