------------------------------ MODULE RdCallMC ------------------------------
(***************************************************************************)
(* Calls over an extension that both ends bind and unbind, with observers  *)
(* of what the properties cannot ask for.                                  *)
(***************************************************************************)
EXTENDS RdCall

VARIABLES
    disordered, \* an end was unbound or its wire thread executed another state while
                \* its scheduler executed one, or a later state was put before one
    silent,     \* ends whose last lifetime ended during init(), without Disconnected
    gave_up,    \* sync calls that threw without a result, or ended while the lifetime did
    hasty,      \* sync calls that were over before the wire thread was done with the task
    raced       \* calls that both threads were about to give a result

mcvars == <<vars, disordered, silent, gave_up, hasty, raced>>

MCEnds == {Client, Server}
OnceEach == [e \in MCEnds |-> 1]
ServerTwice == [e \in MCEnds |-> IF e = Server THEN 2 ELSE 1]

StateOps == {"answer", "set", "flush", "unset"}
Overlap(e) ==
    /\ at'[e]["main"].op \in StateOps
    /\ ext'[e] \in {"dying", "ending"} \/ at'[e]["wire"].op \in StateOps

Disorder(e) ==
    \/ custom[e] # <<>> /\ Len(mq'[e]) > Len(mq[e])
    \/ Overlap(e)

\* The sync call that is over with this step.
Over == (destroyed' \ destroyed) \cap {InProgress}

\* The task that a thread of the client is about to give a result.
Giving(t) == IF Does(Client, t, "give") THEN {at[Client][t].msg.task} ELSE {}

MCInit ==
    /\ Init
    /\ disordered = FALSE
    /\ silent = {} /\ gave_up = {} /\ hasty = {} /\ raced = {}

MCNext ==
    /\ Next
    /\ disordered' = (disordered \/ \E e \in Ends : Disorder(e))
    /\ silent' = {e \in Ends :
                    \/ e \in silent /\ ~(Does(e, "main", "bind") /\ at'[e]["main"].op = "close")
                    \/ ext[e] = "advised" /\ ext'[e] = "ending"}
    /\ gave_up' = gave_up \cup {n \in Over : result[n] = "none" \/ n \in cancelling}
    /\ hasty' = hasty \cup {n \in Over :
                    Does(Client, "wire", "fire") /\ at[Client]["wire"].msg.task = n}
    /\ raced' = raced \cup (Giving("main")' \cap Giving("wire")')

MCSpec == MCInit /\ [][MCNext]_mcvars /\ Fairness

-----------------------------------------------------------------------------
\* Types; for each state kept back in the Mq of the extension there is a deferred
\* action that will take it.
CallTypeOK ==
    /\ \A e \in Ends :
          /\ ext[e] \in {"unbound", "advised", "bound", "dying", "ending"}
          /\ connected[e] \in BOOLEAN
          /\ \A i \in DOMAIN mq[e] : mq[e][i].op \in States
          /\ Len(mq[e]) = Cardinality({i \in DOMAIN queue[e] : queue[e][i].op = "deferred"})
    /\ \A n \in Tasks : result[n] \in {"none"} \cup Results
    /\ subscribed \cup destroyed \cup sync_tasks \cup cancelling \cup undefined \subseteq 1 .. calls
    /\ sync_task_id \in 0 .. calls

Quiet(e) ==
    /\ inbox[e] = <<>> /\ mq[e] = <<>> /\ IsIdle(e, "wire")
    /\ at[e]["main"].op \notin StateOps \cup {"bind", "close"}

\* When all states have arrived and were executed, an end that is bound is
\* connected just if the other one is bound, unless that one could not say
\* Disconnected.
Agreement ==
    (\A e \in Ends : Quiet(e)) /\ ~disordered =>
        \A e \in Ends : ext[e] = "bound" =>
            Other(e) \in silent \/ (connected[e] <=> ext[Other(e)] = "bound")

\* Requests are executed once and in the order of the calls, those included that
\* were kept back until the counterpart was there.
ExecutedInOrder ==
    [][\A n \in Tasks : executed'[n] # executed[n] =>
          executed[n] = 0 /\ \A m \in Tasks : m > n => executed[m] = 0]_mcvars

\* A result is final, whichever of the two threads gives it, and a response is
\* that of an executed request.
ResultIsFinal ==
    [][\A n \in Tasks : result'[n] # result[n] =>
          /\ result[n] = "none" \/ n \in raced'
          /\ result'[n] # "Cancelled" => executed[n] = 1]_mcvars

\* A task that is gone is used only if its sync call did not wait for what was to
\* come, its response or its termination action, or returned while the wire thread
\* still had to fire the change of its result.
NoDangling == undefined \subseteq gave_up \cup hasty

\* "Already exists sync task" is said only while there is one, or after a sync
\* call that threw.
SyncIsPossible ==
    sync_task_id # 0 =>
        \/ InProgress = sync_task_id
        \/ /\ sync_task_id \in destroyed
           /\ result[sync_task_id] # "Success" \/ sync_task_id \in gave_up

Ended(n) == result[n] # "none" \/ n \in destroyed

\* A call ends, with a result or because the caller gave up, when its extension
\* comes to its end, or its endpoint is there or comes to stay.  (A second endpoint
\* may not answer what was sent to the first.)
CallEnds ==
    <>[](\/ ext[Client] = "unbound"
         \/ ext[Server] = "bound" /\ binds[Server] = 1 /\ ~disordered) =>
        <>[](\A n \in 1 .. calls : Ended(n))
=============================================================================
