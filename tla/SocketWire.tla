----------------------------- MODULE SocketWire -----------------------------
(***************************************************************************)
(* One direction of a SocketWire (rd_framework wire/SocketWire.{h,cpp}):   *)
(* the sending end with its ByteBufferAsyncProcessor and its connection    *)
(* thread, the packages and acknowledgements in flight on the current TCP  *)
(* connection, and the receiving end (read_package, PkgInputStream) of     *)
(* the counterpart, which runs the same code.  Connections break, taking   *)
(* acknowledgements and any suffix of the packages in flight with them,    *)
(* and are made anew.                                                      *)
(***************************************************************************)
EXTENDS ByteBufferAsyncProcessor, SequencesExt

CONSTANT MaxBreaks   \* bound: how many connections are lost

ASSUME MaxBreaksAssumption == MaxBreaks \in Nat

VARIABLES
    sock,              \* socket_provider: none yet, connected, broken
    provided,          \* a new socket_provider is set, resume() is yet to come
    packages, acks,    \* in flight on the current connection
    max_received_seqn, \* of the counterpart
    stream,            \* the messages that the counterpart's receive_pkg has yielded
    leaked,            \* and so it has bytes that belong to no message
    breaks

net  == <<sock, provided, packages, acks, max_received_seqn, stream, leaked, breaks>>
vars == <<pvars, net>>

Package(item, seqn) == [item |-> item, seqn |-> seqn]

WireInit ==
    /\ Init
    /\ sock = "none" /\ provided = FALSE
    /\ packages = <<>> /\ acks = <<>>
    /\ max_received_seqn = 0 /\ stream = <<>> /\ leaked = FALSE
    /\ breaks = 0

-----------------------------------------------------------------------------
\* send0(): on a live connection a package leaves; on a dead one the socket
\* may report the failure or may swallow the package.
Send0(item, seqn, ok) ==
    /\ ok \/ sock # "up"
    /\ packages' = IF sock = "up" THEN Append(packages, Package(item, seqn))
                                  ELSE packages
    /\ UNCHANGED <<sock, provided, acks, max_received_seqn, stream, leaked, breaks>>

\* Mutant of SendNew: the number is counted twice.
SendNewAhead ==
    \E ok \in BOOLEAN :
        /\ ProcessSend(ok)
        /\ Send0(Head(queue), max_sent_seqn + 2, ok)

SendNew ==
    \E ok \in BOOLEAN :
        /\ ProcessSend(ok)
        /\ Send0(Head(queue), max_sent_seqn + 1, ok)

\* Mutant of Resend: a message sent again gets a new number.
ResendRenumbered ==
    \E ok \in BOOLEAN :
        /\ ReprocessSend(ok)
        /\ Send0(pending_queue[resent + 1], max_sent_seqn, ok)

Resend ==
    \E ok \in BOOLEAN :
        /\ ReprocessSend(ok)
        /\ Send0(pending_queue[resent + 1], current_seqn + resent, ok)

-----------------------------------------------------------------------------
(* The receiving end *)

\* Mutant of IsDuplicate: none is recognised.
IsNoDuplicate(seqn) == FALSE

\* A package numbered at most max_received_seqn is a duplicate, unless its number
\* is 1, which is taken for the start of a new counterpart.
IsDuplicate(seqn) == seqn <= max_received_seqn /\ seqn # 1

\* read_package(): its `return true' for a duplicate, which was meant to be
\* skipped, is a length of one.
ReadPackage(p) ==
    \/ IsDuplicate(p.seqn) /\ leaked' = TRUE /\ UNCHANGED <<max_received_seqn, stream>>
    \/ /\ ~IsDuplicate(p.seqn)
       /\ max_received_seqn' = p.seqn /\ stream' = Append(stream, p.item)
       /\ UNCHANGED leaked

Acknowledged(seqn) == acks' = IF sock = "up" THEN Append(acks, seqn) ELSE acks

\* Mutant of CounterpartReads: it acknowledges the number it expects next.
CounterpartReadsAcksNext ==
    /\ packages # <<>>
    /\ packages' = Tail(packages)
    /\ ReadPackage(Head(packages))
    /\ Acknowledged(Head(packages).seqn + 1)
    /\ UNCHANGED <<pvars, sock, provided, breaks>>

\* read_package acknowledges whatever it has read, duplicates included; what a
\* dead connection still holds is read, but the acknowledgements are lost.
CounterpartReads ==
    /\ packages # <<>>
    /\ packages' = Tail(packages)
    /\ ReadPackage(Head(packages))
    /\ Acknowledged(Head(packages).seqn)
    /\ UNCHANGED <<pvars, sock, provided, breaks>>

\* read_header() of the sending end meets an ACK.
AckArrives ==
    /\ sock = "up"
    /\ acks # <<>>
    /\ Acknowledge(Head(acks))
    /\ acks' = Tail(acks)
    /\ UNCHANGED <<sock, provided, packages, max_received_seqn, stream, leaked, breaks>>

-----------------------------------------------------------------------------
(* Connections *)

\* The counterpart has yet to read the first k packages.
ConnectionDies ==
    /\ sock = "up" /\ sock' = "down"
    /\ \E k \in 0 .. Len(packages) : packages' = SubSeq(packages, 1, k)
    /\ acks' = <<>>
    /\ UNCHANGED <<pvars, provided, max_received_seqn, stream, leaked>>

Break ==
    /\ ConnectionDies
    /\ breaks < MaxBreaks
    /\ breaks' = breaks + 1

\* The connection thread has connected or accepted, the wire's lifetime being
\* alive, and set_socket_provider stores the socket.  The counterpart takes part
\* in a new connection only when its receiverProc is done with the last one.
SetSocketProvider ==
    /\ conn = "paused" /\ ~provided
    /\ sock # "up" /\ packages = <<>>
    /\ stopper = "idle"
    /\ sock' = "up" /\ provided' = TRUE
    /\ UNCHANGED <<pvars, packages, acks, max_received_seqn, stream, leaked, breaks>>

\* Mutant of ResumeConnection: resume() without a connection.
ResumeUnprovided ==
    /\ ResumeBegin
    /\ provided' = FALSE
    /\ UNCHANGED <<sock, packages, acks, max_received_seqn, stream, leaked, breaks>>

ResumeConnection ==
    /\ provided
    /\ ResumeBegin
    /\ provided' = FALSE
    /\ UNCHANGED <<sock, packages, acks, max_received_seqn, stream, leaked, breaks>>

\* receiverProc has returned, then pause("Disconnected").
Disconnected ==
    /\ sock = "down"
    /\ PauseBegin
    /\ UNCHANGED net

\* The termination action of the wire closes the socket once stop has returned.
CloseSocket ==
    /\ stopper \in {"ok", "timeout"}
    /\ ConnectionDies
    /\ UNCHANGED breaks

-----------------------------------------------------------------------------
ThreadStep == SendNew \/ (QuietThreadStep /\ UNCHANGED net)

ConnStep ==
    \/ SetSocketProvider \/ ResumeConnection \/ Resend \/ AckArrives \/ Disconnected
    \/ (ReprocessBegin \/ ResumeEnd \/ PauseEnd) /\ UNCHANGED net

StopStep == (Stop \/ \E r \in {"ok", "timeout"} : StopReturn(r)) /\ UNCHANGED net

\* The wire is shut down: nothing is left to happen.
Finished ==
    /\ thread = "done" /\ stopper \in {"ok", "timeout"}
    /\ conn = "paused" /\ ~provided /\ sock # "up" /\ packages = <<>>
    /\ UNCHANGED vars

WireNext ==
    \/ Put /\ UNCHANGED net
    \/ ThreadStep
    \/ ConnStep
    \/ CounterpartReads
    \/ Break
    \/ StopStep
    \/ CloseSocket
    \/ Finished

WireSpec == WireInit /\ [][WireNext]_vars

\* The threads of both ends are scheduled; producers, failures and the call of
\* stop are up to the environment.
Fairness ==
    /\ WF_vars(ThreadStep)
    /\ WF_vars(ConnStep)
    /\ WF_vars(CounterpartReads)
    /\ WF_vars(StopStep /\ stopper = "waiting")
    /\ WF_vars(CloseSocket)

-----------------------------------------------------------------------------
(* Properties *)

\* Packages and acknowledgements carry numbers, and what is kept of them are
\* numbers of messages.
WireTypeOK ==
    /\ TypeOK
    /\ sock \in {"none", "up", "down"} /\ provided \in BOOLEAN
    /\ packages \in Seq([item : 1 .. MaxPut, seqn : 1 .. MaxPut])
    /\ acks \in Seq(1 .. MaxPut)
    /\ max_received_seqn \in 0 .. MaxPut
    /\ stream \in Seq(1 .. MaxPut) /\ leaked \in BOOLEAN
    /\ breaks \in 0 .. MaxBreaks

\* The wire uses its queue as ByteBufferAsyncProcessor expects: it pauses and
\* resumes it alternately and acknowledges only what has been sent, although
\* the counterpart may answer before process() has counted the message.
UsesProcessorCorrectly == Spec

\* The m-th accepted message travels under number m, whichever connection and
\* whichever of process and reprocess sends it.
PackagesKeepNumbers ==
    \A i \in 1 .. Len(packages) : packages[i].item = packages[i].seqn

\* send0 dereferences socket_provider: the sender thread is never in process()
\* before the first connection has stored one.
NoSendWithoutSocket == sock = "none" => ~in_processing /\ conn # "reprocess"

-----------------------------------------------------------------------------
Delivered == Range(stream)

\* An acknowledgement is always news to acknowledge(), whose error message says
\* "next seqn MUST BE greater".
AcknowledgeIncreases ==
    [][AckArrives => Head(acks) > acknowledged_seqn]_vars

Channel == INSTANCE ReliableChannel WITH delivered <- stream

\* No byte but those of messages ever enters the stream.
NoJunk == ~leaked
=============================================================================
