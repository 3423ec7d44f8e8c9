-------------------------- MODULE MessageBrokerMC ---------------------------
(***************************************************************************)
(* The broker with observers of its environment.  Some properties hold     *)
(* only as long as these have not seen what the code does not cope with.   *)
(***************************************************************************)
EXTENDS MessageBroker

VARIABLES
    undisturbed,  \* FlushUndisturbed so far
    kept,         \* BoundWhileWaiting so far
    confined      \* EndsOnItsThread so far

mcvars == <<vars, undisturbed, kept, confined>>

\* No message arrives between the unlocked empty() of a deferred action and the
\* end of its flush: what holding `lock' over that part would ensure.
FlushUndisturbed == dispatched' # dispatched => action.step \notin {"empty", "flush"}

\* The entity outlives the deferred actions of its id.
BoundWhileWaiting == lifetime' # lifetime => mq = {} \/ ~IsEntity(subscription)

\* A lifetime ends on the thread that executes its entity: between its tasks, and
\* not beside the next one.
EndsOnItsThread ==
    /\ lifetime' # lifetime => action = Idle /\ \A t \in Threads : Free(t)
    /\ (\E e \in Entities : lifetime[e] = "ending") => UNCHANGED <<action, handling>>

MCInit == Init /\ undisturbed = TRUE /\ kept = TRUE /\ confined = TRUE

MCNext ==
    /\ Next
    /\ undisturbed' = (undisturbed /\ FlushUndisturbed)
    /\ kept' = (kept /\ BoundWhileWaiting)
    /\ confined' = (confined /\ EndsOnItsThread)

MCSpec == MCInit /\ [][MCNext]_mcvars /\ Fairness

-----------------------------------------------------------------------------
\* No message is lost, ...
ForgetsNothing == undisturbed => NothingForgotten

\* ... every message is handled in the end, ...
HandlesEverything ==
    \A m \in Messages :
        dispatched >= m ~> \/ m \in Range(ExecutedMessages) \cup dropped
                           \/ undefined \/ ~undisturbed

\* ... a deferred action meets neither an erased Mq nor, in its flush, a missing
\* subscription, ...
DeferredActionsAreSafe ==
    undisturbed => OneMessagePerAction /\ (kept => FlushHasSubscription)

\* ... and entities get their messages in the order in which they arrived, those
\* that arrived before the entity was bound included, and none twice.  With the
\* default scheduler that holds in any case.
KeepsOrder == wire_scheduler = "default" \/ (undisturbed /\ kept) => InOrder

\* An entity whose lifetime ends on the thread that executes it is not executed
\* after that: whatever was queued for it, and whatever the broker has under its
\* id by then.
StopsWithLifetime ==
    [][confined' /\ executed' # executed => lifetime[Last(executed')[1]] = "alive"]_mcvars
=============================================================================
