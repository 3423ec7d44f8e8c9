---------------------------- MODULE SocketWireMC ----------------------------
(***************************************************************************)
(* The wire with two observers of its environment.  Some properties hold   *)
(* only as long as these have not seen what the code does not cope with;   *)
(* the others do not mention them.                                         *)
(***************************************************************************)
EXTENDS SocketWire

VARIABLES
    prompt,  \* SenderIsPrompt so far
    calm     \* FirstMessageAcked so far

mcvars == <<vars, prompt, calm>>

\* The sender thread is done with what it took before a pause when the next
\* connection is stored: what pause is meant to wait for.
SenderIsPrompt ==
    sock = "down" /\ sock' = "up" => thread \notin {"taken", "process", "sent"}

\* No connection is lost while message 1 has been sent but its acknowledgement
\* is outstanding.
FirstMessageAcked == sock = "up" /\ sock' = "down" =>
                        acknowledged_seqn >= 1 \/ (packages = <<>> /\ max_received_seqn = 0)

MCInit == WireInit /\ prompt = TRUE /\ calm = TRUE

MCNext ==
    /\ WireNext
    /\ prompt' = (prompt /\ SenderIsPrompt)
    /\ calm' = (calm /\ FirstMessageAcked)

MCSpec == MCInit /\ [][MCNext]_mcvars /\ Fairness

-----------------------------------------------------------------------------
\* Over lost connections too, what the counterpart has acknowledged it has, and
\* it has everything that was put before what it has.
NothingAckedIsLost ==
    prompt => /\ 1 .. acknowledged_seqn \subseteq Delivered
              /\ \A m \in Delivered : 1 .. m \subseteq Delivered

\* The wire implements the reliable channel: messages are delivered once and in
\* order, leaked bytes aside, over lost connections too.
ImplementsChannel ==
    /\ Channel!Init
    /\ [][prompt' /\ calm' => [Channel!Next]_(Channel!cvars)]_mcvars

\* A message left in `queue' by a failed send waits for the next put.
Stranded == queue # <<>> /\ data = <<>> /\ thread = "wait"

\* Every accepted message is delivered, or is left behind by stop or because
\* the send of it, or of one before it, failed and nothing was put since.
DeliveredOrStranded ==
    \A m \in 1 .. MaxPut :
        accepted >= m ~> m \in Delivered \/ stopper # "idle" \/ Stranded \/ ~prompt

\* pause and resume come to their end whatever the sender thread does, although
\* they wait for it while they hold `lock'.
PauseAndResumeEnd ==
    /\ conn = "pause" ~> conn = "paused"
    /\ conn = "resume" ~> conn = "running"

\* stop ends ThreadProc, even if the call itself timed out.
StopEndsThread == stopper # "idle" ~> thread = "done"
=============================================================================
