------------------------------ MODULE RdMapMC ------------------------------
(***************************************************************************)
(* The map with observers of how the master's owner uses it.               *)
(***************************************************************************)
EXTENDS RdMap

VARIABLES
    removed,  \* keys the master's owner has removed
    hurried   \* keys it has changed again before the change was acknowledged

mcvars == <<vars, removed, hurried>>

\* A change of k by the master is on its way to the other end, or acknowledged
\* but the acknowledgement is on its way back.
InFlight(k) == \E i \in DOMAIN inbox["slave"] : inbox["slave"][i].key = k
Unsettled(k) ==
    \/ InFlight(k)
    \/ \E i \in DOMAIN inbox["master"] :
          inbox["master"][i].op = "ACK" /\ inbox["master"][i].key = k

ChangedByMaster ==
    {k \in Keys : next_version' > next_version /\ map'["master"][k] # map["master"][k]}

MCInit == Init /\ removed = {} /\ hurried = {}

MCNext ==
    /\ Next
    /\ removed' = removed \cup {k \in ChangedByMaster : map'["master"][k] = NoValue}
    /\ hurried' = hurried \cup {k \in ChangedByMaster : Unsettled(k)}

MCSpec == MCInit /\ [][MCNext]_mcvars

Patient == Keys \ (removed \cup hurried)

-----------------------------------------------------------------------------
\* Whenever nothing is on its way, the ends agree on every key that the master
\* changes patiently, whatever the other end did to it meanwhile.
Convergence ==
    inbox = [e \in Ends |-> <<>>] =>
        \A k \in Patient : map["master"][k] = map["slave"][k]

\* The master takes over a change of such a key only when the other end has seen
\* all of its own changes of it.
MasterIsNotOverruled ==
    [][ReceiveChange("master") =>
          \A k \in Patient : map'["master"][k] # map["master"][k] => ~InFlight(k)]_mcvars

\* A key that waits, and that was not removed, waits for an acknowledgement that
\* will come: the other end is not locked out of it for good.
AcknowledgementComes ==
    \A p \in pendingForAck : p.key \notin removed =>
        \/ \E i \in DOMAIN inbox["slave"] :
              inbox["slave"][i].key = p.key /\ inbox["slave"][i].version = p.version
        \/ Ack(p.version, p.key) \in ToSet(inbox["master"])

\* An acknowledgement finds the key waiting ("No pending for ACK" is logged as
\* an error), removed keys aside.
AckIsExpected ==
    [][ReceiveAck("master") =>
          LET k == Head(inbox["master"]).key IN k \in removed \/ Found(k) # {}]_mcvars
=============================================================================
