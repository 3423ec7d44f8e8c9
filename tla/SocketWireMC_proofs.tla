------------------------- MODULE SocketWireMC_proofs -------------------------
(***************************************************************************)
(* What the wire promises its users, for every number of messages and of   *)
(* lost connections.  It uses its sender queue as ByteBufferAsyncProcessor *)
(* specifies it, so that what is proved of the queue holds in the wire,    *)
(* and never renumbers a message.  As long as the environment is prompt    *)
(* nothing acknowledged is lost, and if it is also calm the wire           *)
(* implements a reliable channel.                                          *)
(*                                                                         *)
(* The inductive invariant follows one connection: the packages on their   *)
(* way are numbered without a gap, from one after a prefix of the messages *)
(* that the counterpart has up to one before the package that will be sent *)
(* next.                                                                   *)
(***************************************************************************)
EXTENDS SocketWireMC, ByteBufferAsyncProcessor_proofs, SequenceLemmas

\* What is on its way was sent: nothing carries a number beyond LastSent.
AcksWereSent ==
    /\ acks \in Seq(Nat)
    /\ \A i \in 1 .. Len(acks) : acks[i] \in 1 .. LastSent

PackagesWereSent ==
    /\ packages \in Seq([item : Nat, seqn : Nat])
    /\ \A i \in 1 .. Len(packages) : packages[i].seqn \in 1 .. LastSent

\* Before the first connection nothing has left the state of the constructor
\* but the puts and the sender thread's wait.
IdleWithoutSocket ==
    sock = "none" => /\ conn = "paused" /\ ~provided
                     /\ thread \in {"loop", "wait", "woken", "done"}

\* What was received was sent, and the connection is in one of its states.
ReceivedWasSent ==
    /\ max_received_seqn \in 0 .. LastSent
    /\ stream \in Seq(Nat)
    /\ \A i \in 1 .. Len(stream) : stream[i] \in 1 .. LastSent
    /\ sock \in {"none", "up", "down"}
    /\ provided \in BOOLEAN /\ leaked \in BOOLEAN
    /\ breaks \in 0 .. MaxBreaks

WInv ==
    /\ IInv
    /\ AcksWereSent
    /\ PackagesWereSent
    /\ PackagesKeepNumbers
    /\ IdleWithoutSocket
    /\ ReceivedWasSent

-----------------------------------------------------------------------------
\* The number of the last message that was sent.
LEMMA LastSentType == IInv => LastSent \in Nat /\ max_sent_seqn \in Nat /\ max_sent_seqn <= LastSent
BY SMT DEF IInv, TypeOK, LastSent

\* Only accepted messages are sent.
LEMMA LastSentWasAccepted == ASSUME WInv PROVE accepted \in Nat /\ LastSent <= accepted
<1>1. /\ max_sent_seqn \in Nat /\ accepted \in Nat /\ queue \in Seq(Nat) /\ data \in Seq(Nat)
  BY MaxPutAssumption, SMT DEF WInv, IInv, TypeOK
<1>2. Len(queue) \in Nat /\ Len(data) \in Nat /\ (queue # <<>> => Len(queue) # 0)
  BY <1>1, EmptySeq, LenProperties
<1>3. max_sent_seqn + Len(queue) + Len(data) = accepted
  BY DEF WInv, IInv, SeqnContinuity
<1>4. thread = "sent" => queue # <<>>
  BY DEF WInv, IInv, AckAtMostSent
<1> QED BY <1>1, <1>2, <1>3, <1>4, SMT DEF LastSent

\* The number of messages sent never decreases.
LEMMA LastSentGrows == ASSUME IInv, [Next]_pvars PROVE LastSent' \in Nat /\ LastSent <= LastSent'
<1>1. LastSent \in Nat /\ LastSent' \in Nat
  BY LastSentType, NextIInv, SMTT(30) DEF IInv, TypeOK, LastSent
<1>2. CASE thread = "sent"
  BY <1>1, <1>2, SMT DEF Next, pvars, pcs, seqns, IInv, TypeOK, LastSent, Put, QuietThreadStep,
     ThreadReturn, ThreadWait, ThreadTake, AtLoopHead, ProcessBegin, ProcessSent,
     ProcessEnd, ProcessSend, ReprocessSend, PauseBegin, PauseEnd, ResumeBegin,
     ReprocessBegin, ResumeEnd, ResumeDone, Acknowledge, Stop, StopReturn, Notified
<1>3. CASE thread # "sent"
  <2>1. max_sent_seqn' = max_sent_seqn
    BY <1>3, SMT DEF Next, pvars, pcs, seqns, Put, QuietThreadStep,
       ThreadReturn, ThreadWait, ThreadTake, ProcessBegin, ProcessSent, ProcessEnd,
       ProcessSend, ReprocessSend, PauseBegin, PauseEnd, ResumeBegin, ReprocessBegin,
       ResumeEnd, ResumeDone, Acknowledge, Stop, StopReturn
  <2> QED BY <1>1, <1>3, <2>1, SMT DEF LastSent, IInv, TypeOK
<1> QED BY <1>2, <1>3

\* Messages on their way stay covered while nothing is added to them.
LEMMA SameTraffic ==
    ASSUME WInv, [Next]_pvars, UNCHANGED <<packages, acks>>
    PROVE  AcksWereSent' /\ PackagesWereSent' /\ PackagesKeepNumbers'
<1>1. LastSent \in Nat /\ LastSent' \in Nat /\ LastSent <= LastSent'
  BY LastSentType, LastSentGrows DEF WInv
<1>2. AcksWereSent'
  BY <1>1, SMT DEF WInv, AcksWereSent
<1>3. PackagesWereSent' /\ PackagesKeepNumbers'
  BY <1>1, SMT DEF WInv, PackagesWereSent, PackagesKeepNumbers
<1> QED BY <1>2, <1>3

\* A package that is appended must be numbered by its message, at most LastSent.
LEMMA OneMorePackage ==
    ASSUME WInv, [Next]_pvars, UNCHANGED acks,
           NEW item \in Nat, NEW seqn \in Nat, item = seqn, 1 <= seqn,
           \/ packages' = packages
           \/ packages' = Append(packages, Package(item, seqn)) /\ seqn <= LastSent'
    PROVE  AcksWereSent' /\ PackagesWereSent' /\ PackagesKeepNumbers'
<1>1. CASE packages' = packages
  BY <1>1, SameTraffic
<1>2. CASE packages' = Append(packages, Package(item, seqn)) /\ seqn <= LastSent'
  <2>1. LastSent \in Nat /\ LastSent' \in Nat /\ LastSent <= LastSent'
    BY LastSentType, LastSentGrows DEF WInv
  <2>2. AcksWereSent'
    BY <2>1, SMT DEF WInv, AcksWereSent
  <2>3. packages \in Seq([item : Nat, seqn : Nat])
    BY DEF WInv, PackagesWereSent
  <2>4. /\ Package(item, seqn) \in [item : Nat, seqn : Nat]
        /\ Package(item, seqn).item = item
        /\ Package(item, seqn).seqn = seqn
    BY DEF Package
  <2>5. /\ packages' \in Seq([item : Nat, seqn : Nat])
        /\ Len(packages') = Len(packages) + 1
        /\ \A i \in 1 .. Len(packages) : packages'[i] = packages[i]
        /\ packages'[Len(packages) + 1] = Package(item, seqn)
    BY <1>2, <2>3, <2>4, AppendProperties
  <2>6. ASSUME NEW i \in 1 .. Len(packages')
        PROVE  packages'[i].seqn \in 1 .. LastSent' /\ packages'[i].item = packages'[i].seqn
    <3>1. Len(packages) \in Nat
      BY <2>3, LenProperties
    <3>2. CASE i \in 1 .. Len(packages)
      <4>1. packages[i].seqn \in 1 .. LastSent /\ packages[i].item = packages[i].seqn
        BY <3>2 DEF WInv, PackagesWereSent, PackagesKeepNumbers
      <4>2. packages'[i] = packages[i]
        BY <2>5, <3>2
      <4>3. packages[i].seqn \in 1 .. LastSent'
        BY <2>1, <4>1, SMT
      <4> QED BY <4>1, <4>2, <4>3
    <3>3. CASE i = Len(packages) + 1
      BY <1>2, <2>1, <2>4, <2>5, <3>3, SMT
    <3> QED BY <2>5, <3>1, <3>2, <3>3, SMT
  <2> QED BY <2>2, <2>5, <2>6 DEF PackagesWereSent, PackagesKeepNumbers
<1> QED BY <1>1, <1>2

-----------------------------------------------------------------------------
\* Nothing is on its way.
LEMMA InitWInv == WireInit => WInv
<1> SUFFICES ASSUME WireInit PROVE WInv
  OBVIOUS
<1>1. IInv
  BY InitIInv DEF WireInit
<1>2. AcksWereSent /\ PackagesWereSent /\ PackagesKeepNumbers /\ IdleWithoutSocket
  BY EmptySeq, SMT DEF WireInit, Init, AcksWereSent, PackagesWereSent, PackagesKeepNumbers,
     IdleWithoutSocket
<1>3. LastSent = 0
  BY DEF WireInit, Init, LastSent
<1>4. ReceivedWasSent
  <2>1. max_received_seqn \in 0 .. LastSent /\ breaks \in 0 .. MaxBreaks
    BY <1>3, MaxBreaksAssumption, SMT DEF WireInit
  <2>2. stream \in Seq(Nat) /\ Len(stream) = 0 /\ 1 .. 0 = {}
    BY EmptySeq, SMT DEF WireInit
  <2> QED BY <2>1, <2>2 DEF WireInit, ReceivedWasSent
<1> QED BY <1>1, <1>2, <1>4 DEF WInv

\* Every step of the wire is a step of its queue or leaves the queue alone.
LEMMA WireStepIsQueueStep == ASSUME WInv, [WireNext]_vars PROVE [Next]_pvars
<1>1. CASE AckArrives
  <2>1. Head(acks) \in 1 .. LastSent
    BY <1>1, HeadTailProperties, SMT DEF AckArrives, WInv, AcksWereSent
  <2> QED BY <1>1, <2>1 DEF AckArrives, Next
<1>2. CASE ThreadStep
  BY <1>2 DEF ThreadStep, SendNew, Next
<1>3. CASE Resend
  BY <1>3 DEF Resend, Next
<1>4. CASE ConnStep /\ ~AckArrives /\ ~Resend
  BY <1>4 DEF ConnStep, SetSocketProvider, ResumeConnection, Disconnected, Next
<1>5. CASE StopStep
  BY <1>5 DEF StopStep, Next
<1>6. CASE Put \/ CounterpartReads \/ Break \/ CloseSocket \/ Finished \/ UNCHANGED vars
  BY <1>6 DEF Next, CounterpartReads, Break, CloseSocket, ConnectionDies, Finished, vars
<1> QED BY <1>1, <1>2, <1>3, <1>4, <1>5, <1>6 DEF WireNext, ConnStep

\* A message is sent under its number, ...
LEMMA SendNewTraffic ==
    ASSUME WInv, SendNew, [Next]_pvars
    PROVE  AcksWereSent' /\ PackagesWereSent' /\ PackagesKeepNumbers'
<1> PICK ok \in BOOLEAN : ProcessSend(ok) /\ Send0(Head(queue), max_sent_seqn + 1, ok)
  BY DEF SendNew
<1>1. UNCHANGED acks
  BY DEF Send0
<1>2. max_sent_seqn \in Nat /\ queue \in Seq(Nat) /\ queue # <<>>
  BY DEF WInv, IInv, TypeOK, ProcessSend
<1>3. Head(queue) = max_sent_seqn + 1
  BY <1>2, SMT DEF WInv, IInv, SeqnContinuity
<1>4. \/ packages' = packages
      \/ /\ packages' = Append(packages, Package(Head(queue), max_sent_seqn + 1))
         /\ max_sent_seqn + 1 <= LastSent'
  <2>1. CASE sock # "up"
    BY <2>1 DEF Send0
  <2>2. CASE sock = "up"
    <3>1. ok /\ thread' = "sent" /\ max_sent_seqn' = max_sent_seqn
      BY <2>2 DEF Send0, ProcessSend, seqns
    <3>2. max_sent_seqn + 1 <= LastSent'
      BY <1>2, <3>1, SMT DEF LastSent
    <3> QED BY <2>2, <3>2 DEF Send0
  <2> QED BY <2>1, <2>2
<1>5. max_sent_seqn + 1 \in Nat /\ 1 <= max_sent_seqn + 1
  BY <1>2, SMT
<1> QED BY <1>1, <1>3, <1>4, <1>5, OneMorePackage

\* ... again under the same one, ...
LEMMA ResendTraffic ==
    ASSUME WInv, Resend, [Next]_pvars
    PROVE  AcksWereSent' /\ PackagesWereSent' /\ PackagesKeepNumbers'
<1> DEFINE item == pending_queue[resent + 1]
           seqn == current_seqn + resent
<1> PICK ok \in BOOLEAN : ReprocessSend(ok) /\ Send0(item, seqn, ok)
  BY DEF Resend
<1>1. UNCHANGED acks
  BY DEF Send0
<1>2. /\ pending_queue \in Seq(Nat) /\ resent \in Nat /\ resent < Len(pending_queue)
      /\ max_sent_seqn \in Nat /\ current_seqn \in Nat
  BY DEF WInv, IInv, TypeOK, ReprocessSend
<1>3. resent + 1 \in 1 .. Len(pending_queue)
  BY <1>2, LenProperties, SMT
<1>4. item = seqn /\ seqn \in Nat
  BY <1>2, <1>3, SMT DEF WInv, IInv, SeqnContinuity
<1>5. item \in Nat /\ seqn <= max_sent_seqn
  <2>1. current_seqn + Len(pending_queue) = max_sent_seqn + 1
    BY DEF WInv, IInv, SeqnContinuity
  <2> QED BY <1>2, <1>4, <2>1, LenProperties, SMT
<1>6. 1 <= seqn
  <2>1. current_seqn \in Nat /\ 1 <= current_seqn
    BY SMT DEF WInv, IInv, TypeOK
  <2> QED BY <1>2, <2>1, SMT
<1>7. seqn <= LastSent'
  <2>1. LastSent \in Nat /\ LastSent' \in Nat /\ LastSent <= LastSent' /\ max_sent_seqn <= LastSent
    BY LastSentType, LastSentGrows DEF WInv
  <2> QED BY <1>2, <1>4, <1>5, <2>1, SMT
<1>8. packages' = packages \/ packages' = Append(packages, Package(item, seqn))
  BY DEF Send0
<1> HIDE DEF item, seqn
<1> QED BY <1>1, <1>4, <1>5, <1>6, <1>7, <1>8, OneMorePackage

\* ... and nothing else is on its way.
LEMMA TrafficInv == ASSUME WInv, [WireNext]_vars
                    PROVE  AcksWereSent' /\ PackagesWereSent' /\ PackagesKeepNumbers'
<1>1. [Next]_pvars
  BY WireStepIsQueueStep
<1>2. LastSent \in Nat /\ LastSent' \in Nat /\ LastSent <= LastSent'
  BY <1>1, LastSentType, LastSentGrows DEF WInv
<1>3. CASE SendNew
  BY <1>1, <1>3, SendNewTraffic
<1>4. CASE Resend
  BY <1>1, <1>4, ResendTraffic
<1>5. CASE CounterpartReads
  <2>1. /\ packages \in Seq([item : Nat, seqn : Nat]) /\ packages # <<>>
        /\ packages' = Tail(packages)
        /\ acks' = acks \/ acks' = Append(acks, Head(packages).seqn)
    BY <1>5 DEF CounterpartReads, Acknowledged, WInv, PackagesWereSent
  <2>2. /\ Head(packages) = packages[1] /\ 1 \in 1 .. Len(packages)
        /\ packages' \in Seq([item : Nat, seqn : Nat])
        /\ \A i \in 1 .. Len(packages') : /\ packages'[i] = packages[i + 1]
                                          /\ i + 1 \in 1 .. Len(packages)
    <3>1. Len(packages) \in Nat /\ Len(packages) # 0 /\ Len(packages') = Len(packages) - 1
      BY <2>1, LenProperties, HeadTailProperties, EmptySeq
    <3> QED BY <2>1, <3>1, HeadTailProperties, SMT
  <2>3. packages[1].seqn \in 1 .. LastSent
    BY <2>2 DEF WInv, PackagesWereSent
  <2>4. AcksWereSent'
    <3>1. acks \in Seq(Nat) /\ packages[1].seqn \in Nat /\ packages[1].seqn \in 1 .. LastSent'
      BY <1>2, <2>3, SMT DEF WInv, AcksWereSent
    <3>2. CASE acks' = acks
      BY <1>2, <3>2, SMT DEF WInv, AcksWereSent
    <3>3. CASE acks' = Append(acks, packages[1].seqn)
      <4>1. /\ acks' \in Seq(Nat) /\ Len(acks) \in Nat
            /\ Len(acks') = Len(acks) + 1
            /\ \A i \in 1 .. Len(acks) : acks'[i] = acks[i]
            /\ acks'[Len(acks) + 1] = packages[1].seqn
        BY <3>1, <3>3, AppendProperties, LenProperties
      <4>2. ASSUME NEW i \in 1 .. Len(acks') PROVE acks'[i] \in 1 .. LastSent'
        <5>1. CASE i \in 1 .. Len(acks)
          <6>1. acks[i] \in 1 .. LastSent
            BY <5>1 DEF WInv, AcksWereSent
          <6> QED BY <1>2, <4>1, <5>1, <6>1, SMT
        <5>2. CASE i = Len(acks) + 1
          BY <3>1, <4>1, <5>2
        <5> QED BY <4>1, <5>1, <5>2, SMT
      <4> QED BY <4>1, <4>2 DEF AcksWereSent
    <3> QED BY <2>1, <2>2, <3>2, <3>3
  <2>5. ASSUME NEW i \in 1 .. Len(packages')
        PROVE  packages'[i].seqn \in 1 .. LastSent' /\ packages'[i].item = packages'[i].seqn
    <3>1. /\ packages[i + 1].seqn \in 1 .. LastSent
          /\ packages[i + 1].item = packages[i + 1].seqn
      BY <2>2 DEF WInv, PackagesWereSent, PackagesKeepNumbers
    <3>2. packages[i + 1].seqn \in 1 .. LastSent'
      BY <1>2, <3>1, SMT
    <3> QED BY <2>2, <3>1, <3>2
  <2> QED BY <2>2, <2>4, <2>5 DEF PackagesWereSent, PackagesKeepNumbers
<1>6. CASE AckArrives
  <2>1. /\ acks \in Seq(Nat) /\ acks # <<>> /\ acks' = Tail(acks)
        /\ UNCHANGED packages
    BY <1>6 DEF AckArrives, WInv, AcksWereSent
  <2>2. PackagesWereSent' /\ PackagesKeepNumbers'
    <3>1. /\ packages \in Seq([item : Nat, seqn : Nat])
          /\ \A i \in 1 .. Len(packages) : packages[i].seqn \in 1 .. LastSent
          /\ PackagesKeepNumbers
      BY DEF WInv, PackagesWereSent
    <3>2. \A n \in 1 .. LastSent : n \in 1 .. LastSent'
      BY <1>2, SMT
    <3> QED BY <2>1, <3>1, <3>2 DEF PackagesWereSent, PackagesKeepNumbers
  <2>3. /\ acks' \in Seq(Nat)
        /\ \A i \in 1 .. Len(acks') : acks'[i] = acks[i + 1] /\ i + 1 \in 1 .. Len(acks)
    <3>1. Len(acks) \in Nat /\ Len(acks) # 0 /\ Len(acks') = Len(acks) - 1
      BY <2>1, LenProperties, HeadTailProperties, EmptySeq
    <3> QED BY <2>1, <3>1, HeadTailProperties, SMT
  <2>4. ASSUME NEW i \in 1 .. Len(acks') PROVE acks'[i] \in 1 .. LastSent'
    <3>1. acks[i + 1] \in 1 .. LastSent
      BY <2>3 DEF WInv, AcksWereSent
    <3> QED BY <1>2, <2>3, <3>1, SMT
  <2> QED BY <2>2, <2>3, <2>4 DEF AcksWereSent
<1>7. CASE ConnectionDies
  <2>1. PICK k \in 0 .. Len(packages) : packages' = SubSeq(packages, 1, k)
    BY <1>7 DEF ConnectionDies
  <2> DEFINE S == [item : Nat, seqn : Nat]
  <2>2. packages \in Seq(S) /\ Len(packages) \in Nat
    BY LenProperties DEF WInv, PackagesWereSent
  <2>3. /\ packages' \in Seq(S) /\ Len(packages') = k
        /\ \A i \in 1 .. k : packages'[i] = packages[i] /\ i \in 1 .. Len(packages)
    <3> HIDE DEF S
    <3>1. /\ SubSeq(packages, 1, k) \in Seq(S)
          /\ Len(SubSeq(packages, 1, k)) = k
          /\ \A i \in 1 .. k : i \in 1 .. Len(packages) /\ SubSeq(packages, 1, k)[i] = packages[i]
      BY <2>2, PrefixProperties
    <3> QED BY <2>1, <3>1
  <2>4. AcksWereSent'
    BY <1>7, SMT DEF ConnectionDies, AcksWereSent
  <2>5. ASSUME NEW i \in 1 .. Len(packages')
        PROVE  packages'[i].seqn \in 1 .. LastSent' /\ packages'[i].item = packages'[i].seqn
    <3>1. packages[i].seqn \in 1 .. LastSent /\ packages[i].item = packages[i].seqn
      BY <2>3 DEF WInv, PackagesWereSent, PackagesKeepNumbers
    <3>2. packages[i].seqn \in 1 .. LastSent'
      BY <1>2, <3>1, SMT
    <3> QED BY <2>3, <3>1, <3>2
  <2> QED BY <2>3, <2>4, <2>5 DEF PackagesWereSent, PackagesKeepNumbers
<1>8. CASE UNCHANGED <<packages, acks>>
  BY <1>1, <1>8, SameTraffic
<1> QED
  BY <1>3, <1>4, <1>5, <1>6, <1>7, <1>8 DEF WireNext, ThreadStep, ConnStep, StopStep,
     SetSocketProvider, ResumeConnection, Disconnected, Break, CloseSocket, Finished, net, vars

\* Nothing is sent before there is a socket.
LEMMA IdleInv == ASSUME WInv, [WireNext]_vars PROVE IdleWithoutSocket'
<1> SUFFICES ASSUME sock' = "none"
             PROVE  conn' = "paused" /\ ~provided' /\ thread' \in {"loop", "wait", "woken", "done"}
  BY DEF IdleWithoutSocket
<1>1. CASE sock # "none"
  BY <1>1 DEF WireNext, ThreadStep, SendNew, Send0, ConnStep, Resend, SetSocketProvider,
     ResumeConnection, AckArrives, Disconnected, CounterpartReads, Break, ConnectionDies,
     StopStep, CloseSocket, Finished, net, vars
<1>2. CASE sock = "none"
  <2>1. /\ conn = "paused" /\ provided = FALSE /\ interrupt_balance = 1
        /\ thread \in {"loop", "wait", "woken", "done"}
    <3>1. provided = FALSE
      BY <1>2 DEF WInv, IdleWithoutSocket
    <3> QED BY <1>2, <3>1 DEF WInv, IdleWithoutSocket, IInv, PausedUnlessRunning
  <2> QED
    BY <1>2, <2>1 DEF WireNext, Put, ThreadStep, SendNew, ConnStep, Resend,
       SetSocketProvider, ResumeConnection, AckArrives, Acknowledge, Disconnected,
       CounterpartReads, Break, StopStep, Stop, StopReturn, CloseSocket, ConnectionDies, Finished,
       QuietThreadStep, ThreadReturn, ThreadWait, ThreadTake, NothingToDo, ProcessBegin,
       ProcessSent, ProcessEnd, ProcessSend, ReprocessSend, ReprocessBegin, ResumeEnd,
       PauseBegin, PauseEnd, Notified, net, vars, pvars, pcs
<1> QED BY <1>1, <1>2

\* The counterpart receives what was sent.
LEMMA ReceivedInv == ASSUME WInv, [WireNext]_vars PROVE ReceivedWasSent'
<1>1. [Next]_pvars
  BY WireStepIsQueueStep
<1>2. LastSent \in Nat /\ LastSent' \in Nat /\ LastSent <= LastSent'
  BY <1>1, LastSentType, LastSentGrows DEF WInv
<1>a. breaks' = breaks \/ (breaks < MaxBreaks /\ breaks' = breaks + 1)
  BY DEF WInv, ReceivedWasSent, WireNext, ThreadStep, SendNew, Send0,
     ConnStep, Resend, SetSocketProvider, ResumeConnection, AckArrives, Disconnected,
     CounterpartReads, Break, ConnectionDies, StopStep, CloseSocket, Finished, net, vars
<1>b. breaks' \in 0 .. MaxBreaks
  BY <1>a, MaxBreaksAssumption, SMT DEF WInv, ReceivedWasSent
<1>3. sock' \in {"none", "up", "down"} /\ provided' \in BOOLEAN /\ breaks' \in 0 .. MaxBreaks
  BY <1>b DEF WInv, ReceivedWasSent, WireNext, ThreadStep, SendNew, Send0,
     ConnStep, Resend, SetSocketProvider, ResumeConnection, AckArrives, Disconnected,
     CounterpartReads, Break, ConnectionDies, StopStep, CloseSocket, Finished, net, vars
<1>4. CASE CounterpartReads
  <2>1. /\ packages \in Seq([item : Nat, seqn : Nat]) /\ packages # <<>>
        /\ stream \in Seq(Nat) /\ max_received_seqn \in Nat /\ max_received_seqn <= LastSent
        /\ leaked \in BOOLEAN
        /\ ReadPackage(Head(packages))
    BY <1>2, <1>4, SMT DEF CounterpartReads, WInv, PackagesWereSent, ReceivedWasSent
  <2>2. 1 \in 1 .. Len(packages) /\ Head(packages) = packages[1]
    BY <2>1, TailIndices
  <2>3. /\ Head(packages).seqn \in 1 .. LastSent
        /\ Head(packages).item = Head(packages).seqn
    BY <2>2 DEF WInv, PackagesWereSent, PackagesKeepNumbers
  <2>4. Head(packages).item \in Nat /\ Head(packages).item \in 1 .. LastSent'
    BY <1>2, <2>3, SMT
  <2>5. CASE UNCHANGED <<max_received_seqn, stream>> /\ leaked' = TRUE
    BY <1>2, <1>3, <2>5, SMT DEF WInv, ReceivedWasSent
  <2>6. CASE /\ max_received_seqn' = Head(packages).seqn
             /\ stream' = Append(stream, Head(packages).item)
             /\ UNCHANGED leaked
    <3>1. /\ stream' \in Seq(Nat) /\ Len(stream') = Len(stream) + 1 /\ Len(stream) \in Nat
          /\ \A i \in 1 .. Len(stream) : stream'[i] = stream[i]
          /\ stream'[Len(stream) + 1] = Head(packages).item
      BY <2>1, <2>4, <2>6, AppendProperties, LenProperties
    <3>2. ASSUME NEW i \in 1 .. Len(stream') PROVE stream'[i] \in 1 .. LastSent'
      <4>1. CASE i \in 1 .. Len(stream)
        <5>1. stream[i] \in 1 .. LastSent
          BY <4>1 DEF WInv, ReceivedWasSent
        <5> QED BY <1>2, <3>1, <4>1, <5>1, SMT
      <4>2. CASE i = Len(stream) + 1
        BY <2>4, <3>1, <4>2
      <4> QED BY <3>1, <4>1, <4>2, SMT
    <3>3. max_received_seqn' \in 0 .. LastSent'
      BY <1>2, <2>3, <2>6, SMT
    <3> QED BY <1>3, <2>1, <2>6, <3>1, <3>2, <3>3 DEF ReceivedWasSent
  <2> QED BY <2>1, <2>5, <2>6 DEF ReadPackage
<1>5. CASE ~CounterpartReads
  <2>1. UNCHANGED <<max_received_seqn, stream, leaked>>
    BY <1>5 DEF WireNext, ThreadStep, SendNew, Send0, ConnStep, Resend, SetSocketProvider,
       ResumeConnection, AckArrives, Disconnected, Break, ConnectionDies, StopStep,
       CloseSocket, Finished, net, vars
  <2> QED BY <1>2, <1>3, <2>1, SMT DEF WInv, ReceivedWasSent
<1> QED BY <1>4, <1>5

\* Every step keeps the invariant.
LEMMA NextWInv == WInv /\ [WireNext]_vars => WInv'
BY WireStepIsQueueStep, NextIInv, TrafficInv, IdleInv, ReceivedInv DEF WInv

\* The inductive invariant of the wire holds.
THEOREM WireInvariance == WireSpec => []WInv
BY InitWInv, NextWInv, PTL DEF WireSpec

-----------------------------------------------------------------------------
\* The wire drives its queue as ByteBufferAsyncProcessor expects: what is proved
\* of the queue on its own holds in the wire.
THEOREM WireUsesProcessor == WireSpec => UsesProcessorCorrectly
<1>1. WireInit => Init
  BY DEF WireInit
<1>2. WInv /\ [WireNext]_vars => [Next]_pvars
  BY WireStepIsQueueStep
<1> QED BY <1>1, <1>2, WireInvariance, PTL DEF WireSpec, Spec, UsesProcessorCorrectly

\* A message has the same number on every connection.
THEOREM NumbersAreKept == WireSpec => []PackagesKeepNumbers
<1>1. WInv => PackagesKeepNumbers
  BY DEF WInv
<1> QED BY <1>1, WireInvariance, PTL

\* socket_provider is set whenever one of the two sending threads may use it.
THEOREM NoNullSocket == WireSpec => []NoSendWithoutSocket
<1>1. WInv => NoSendWithoutSocket
  BY DEF WInv, IdleWithoutSocket, NoSendWithoutSocket, in_processing
<1> QED BY <1>1, WireInvariance, PTL

\* Every number that is sent, acknowledged or kept is that of an accepted message.
THEOREM WireTypeCorrect == WireSpec => []WireTypeOK
<1>1. WInv => WireTypeOK
  <2> SUFFICES ASSUME WInv PROVE WireTypeOK
    OBVIOUS
  <2>1. LastSent \in Nat /\ LastSent <= MaxPut
    <3>1. accepted <= MaxPut
      BY MaxPutAssumption, SMT DEF WInv, IInv, TypeOK
    <3> QED BY <3>1, LastSentWasAccepted, LastSentType, MaxPutAssumption, SMT DEF WInv
  <2>2. 1 .. LastSent \subseteq 1 .. MaxPut /\ 0 .. LastSent \subseteq 0 .. MaxPut
    BY <2>1, MaxPutAssumption, SMT
  <2>3. acks \in Seq(1 .. MaxPut)
    BY <2>2, SeqOfElements DEF WInv, AcksWereSent
  <2>4. stream \in Seq(1 .. MaxPut)
    BY <2>2, SeqOfElements DEF WInv, ReceivedWasSent
  <2>5. packages \in Seq([item : 1 .. MaxPut, seqn : 1 .. MaxPut])
    <3>1. packages \in Seq([item : Nat, seqn : Nat])
      BY DEF WInv, PackagesWereSent
    <3>2. ASSUME NEW i \in 1 .. Len(packages)
          PROVE  packages[i] \in [item : 1 .. MaxPut, seqn : 1 .. MaxPut]
      <4>1. /\ packages[i].seqn \in 1 .. MaxPut
            /\ packages[i].item = packages[i].seqn
        BY <2>2 DEF WInv, PackagesWereSent, PackagesKeepNumbers
      <4>2. packages[i] \in [item : Nat, seqn : Nat]
        BY <3>1, ElementOfSeq
      <4> QED BY <4>1, <4>2
    <3> QED BY <3>1, <3>2, SeqOfElements
  <2> QED BY <2>2, <2>3, <2>4, <2>5 DEF WInv, IInv, ReceivedWasSent, WireTypeOK
<1> QED BY <1>1, WireInvariance, PTL

-----------------------------------------------------------------------------
(* Prompt and calm environments                                            *)

\* The counterpart has the first n messages.
Got(n) == 1 .. n \subseteq Delivered

\* The number of the package that is sent next, on a connection that lasts.
NextSeqn ==
    CASE conn \in {"paused", "resume"} -> acknowledged_seqn + 1
      [] conn = "reprocess"            -> current_seqn + resent
      [] OTHER                         -> LastSent + 1

\* reprocess forgets no more than what was acknowledged when it began.
CurrentIsBehind == current_seqn <= acknowledged_seqn + 1

\* ThreadProc sends nothing between the start of a connection and resume().
QuietBeforeResume ==
    sock = "up" => /\ conn # "pause"
                   /\ conn # "running" => thread \notin {"taken", "process", "sent"}

\* The packages follow message b without a gap, and the next one follows them.
Follow(b) ==
    /\ Got(b)
    /\ \A i \in 1 .. Len(packages) : packages[i].seqn = b + i
    /\ sock = "up" => NextSeqn = b + Len(packages) + 1

NoGaps ==
    /\ \A m \in Delivered : Got(m)
    /\ Got(acknowledged_seqn) /\ Got(max_received_seqn)
    /\ \A i \in 1 .. Len(acks) : Got(acks[i])

\* Messages were delivered once and in order; message 1 does not come again.
OnceInOrder ==
    /\ Len(stream) = max_received_seqn
    /\ \A i \in 1 .. Len(stream) : stream[i] = i
    /\ packages # <<>> /\ packages[1].seqn = 1 => max_received_seqn = 0
    /\ sock = "up" /\ packages = <<>> /\ NextSeqn = 1 => max_received_seqn = 0
    /\ sock # "up" => acknowledged_seqn >= 1 \/ (packages = <<>> /\ max_received_seqn = 0)

PromptInv == QuietBeforeResume /\ NoGaps /\ \E b \in Nat : Follow(b)

MCInv ==
    /\ WInv
    /\ CurrentIsBehind
    /\ prompt => PromptInv
    /\ prompt /\ calm => OnceInOrder

-----------------------------------------------------------------------------
\* The state as the proofs below see it.
LEMMA WireTypes ==
    ASSUME WInv
    PROVE  /\ max_sent_seqn \in Nat /\ current_seqn \in Nat /\ acknowledged_seqn \in Nat
           /\ LastSent \in Nat /\ resent \in Nat /\ Len(pending_queue) \in Nat
           /\ max_received_seqn \in Nat /\ NextSeqn \in Nat
           /\ packages \in Seq([item : Nat, seqn : Nat]) /\ Len(packages) \in Nat
           /\ stream \in Seq(Nat) /\ Len(stream) \in Nat
           /\ Delivered = {stream[i] : i \in 1 .. Len(stream)}
           /\ acks \in Seq(Nat) /\ Len(acks) \in Nat
<1>1. /\ max_sent_seqn \in Nat /\ current_seqn \in Nat /\ acknowledged_seqn \in Nat
      /\ LastSent \in Nat /\ resent \in Nat /\ pending_queue \in Seq(Nat)
  BY LastSentType DEF WInv, IInv, TypeOK
<1>2. max_received_seqn \in Nat
  BY <1>1, SMT DEF WInv, ReceivedWasSent
<1>3. NextSeqn \in Nat
  BY <1>1, SMT DEF NextSeqn
<1>4. stream \in Seq(Nat) /\ acks \in Seq(Nat) /\ packages \in Seq([item : Nat, seqn : Nat])
  BY DEF WInv, ReceivedWasSent, AcksWereSent, PackagesWereSent
<1>5. Delivered = {stream[i] : i \in 1 .. Len(stream)}
  BY <1>4, RangeEquality DEF Delivered
<1> QED BY <1>1, <1>2, <1>3, <1>4, <1>5, LenProperties

\* The observers have seen nothing yet.
LEMMA InitMCInv == MCInit => MCInv
<1> SUFFICES ASSUME MCInit PROVE MCInv
  OBVIOUS
<1>1. WInv
  BY InitWInv DEF MCInit
<1>2. /\ acknowledged_seqn = 0 /\ current_seqn = 1 /\ max_received_seqn = 0
      /\ sock = "none" /\ packages = <<>> /\ acks = <<>> /\ stream = <<>>
  BY DEF MCInit, WireInit, Init
<1>3. Len(packages) = 0 /\ Len(acks) = 0 /\ Len(stream) = 0 /\ 1 .. 0 = {}
  BY <1>2, EmptySeq, SMT
<1>4. Delivered = {} /\ Got(0)
  BY <1>1, <1>3, WireTypes DEF Got
<1>5. Follow(0)
  BY <1>2, <1>3, <1>4 DEF Follow
<1>6. PromptInv
  BY <1>2, <1>3, <1>4, <1>5 DEF PromptInv, QuietBeforeResume, NoGaps
<1>7. OnceInOrder
  BY <1>2, <1>3 DEF OnceInOrder
<1>8. CurrentIsBehind
  BY <1>2, SMT DEF CurrentIsBehind
<1> QED BY <1>1, <1>6, <1>7, <1>8 DEF MCInv

\* Acknowledgements only grow, and reprocess forgets just what they cover.
LEMMA StaysBehind == ASSUME MCInv, [WireNext]_vars PROVE CurrentIsBehind'
<1>1. [Next]_pvars
  BY WireStepIsQueueStep DEF MCInv
<1>2. /\ current_seqn \in Nat /\ acknowledged_seqn \in Nat /\ LastSent \in Nat
      /\ current_seqn <= acknowledged_seqn + 1
  BY WireTypes DEF MCInv, CurrentIsBehind
<1>3. CASE ReprocessBegin
  <2>1. /\ acknowledged_seqn' = acknowledged_seqn
        /\ current_seqn' \in {current_seqn, acknowledged_seqn + 1}
    BY <1>3 DEF ReprocessBegin, Forget
  <2> QED BY <1>2, <2>1, SMT DEF CurrentIsBehind
<1>4. CASE \E seqn \in 1 .. LastSent : Acknowledge(seqn)
  <2>1. PICK seqn \in 1 .. LastSent : Acknowledge(seqn)
    BY <1>4
  <2>2. current_seqn' = current_seqn
    BY <2>1 DEF Acknowledge
  <2>3. acknowledged_seqn' \in Nat /\ acknowledged_seqn <= acknowledged_seqn'
    <3>1. seqn \in Nat
      BY <1>2, SMT
    <3> QED BY <1>2, <2>1, <3>1, SMT DEF Acknowledge
  <2>4. ASSUME NEW a \in Nat, acknowledged_seqn <= a PROVE current_seqn <= a + 1
    BY <1>2, <2>4, SMT
  <2>5. current_seqn <= acknowledged_seqn' + 1
    BY <2>3, <2>4
  <2> QED BY <2>2, <2>5 DEF CurrentIsBehind
<1>5. CASE ~ReprocessBegin /\ ~(\E seqn \in 1 .. LastSent : Acknowledge(seqn))
  <2>1. current_seqn' = current_seqn /\ acknowledged_seqn' = acknowledged_seqn
    BY <1>1, <1>5 DEF Next, pvars, seqns, Put, QuietThreadStep, ThreadReturn, ThreadWait,
       ThreadTake, ProcessBegin, ProcessSent, ProcessEnd, ProcessSend, ReprocessSend,
       PauseBegin, PauseEnd, ResumeBegin, ResumeEnd, Stop, StopReturn
  <2> QED BY <1>2, <2>1 DEF CurrentIsBehind
<1> QED BY <1>3, <1>4, <1>5

-----------------------------------------------------------------------------
(* Steps that move nothing between the ends *)

\* They have to keep the number of the next package.
LEMMA StillStep ==
    ASSUME MCInv,
           UNCHANGED <<sock, packages, acks, max_received_seqn, stream, acknowledged_seqn>>,
           prompt => QuietBeforeResume',
           prompt /\ sock = "up" => NextSeqn' = NextSeqn
    PROVE  /\ prompt => PromptInv'
           /\ prompt /\ calm => OnceInOrder'
<1>1. Delivered' = Delivered /\ \A n : Got(n)' <=> Got(n)
  BY DEF Delivered, Got
<1>2. ASSUME prompt PROVE PromptInv'
  <2>1. PICK b \in Nat : Follow(b)
    BY <1>2 DEF MCInv, PromptInv
  <2>2. Follow(b)'
    BY <1>1, <1>2, <2>1 DEF Follow
  <2>3. NoGaps'
    BY <1>1, <1>2 DEF MCInv, PromptInv, NoGaps, Got
  <2> QED BY <1>2, <2>2, <2>3 DEF PromptInv
<1>3. ASSUME prompt, calm PROVE OnceInOrder'
  BY <1>3 DEF MCInv, OnceInOrder
<1> QED BY <1>2, <1>3

\* On a connection, what the sender thread and the connection thread do besides
\* sending leaves the number of the next package as it is.
LEMMA ThreadKeepsNext ==
    ASSUME WInv, QuietBeforeResume, sock = "up", sock' = sock,
           Put \/ QuietThreadStep \/ Stop \/ \E r \in {"ok", "timeout"} : StopReturn(r)
    PROVE  QuietBeforeResume' /\ NextSeqn' = NextSeqn /\ acknowledged_seqn' = acknowledged_seqn
<1>1. /\ conn' = conn /\ conn # "pause" /\ acknowledged_seqn' = acknowledged_seqn
      /\ current_seqn' = current_seqn /\ resent' = resent
  BY DEF QuietBeforeResume, Put, QuietThreadStep, ThreadReturn, ThreadWait, ThreadTake,
     ProcessBegin, ProcessSent, ProcessEnd, Stop, StopReturn, pcs, seqns
<1>2. LastSent' = LastSent
  BY WireTypes, SMT DEF LastSent, Put, QuietThreadStep, ThreadReturn, ThreadWait, ThreadTake,
     AtLoopHead, ProcessBegin, ProcessSent, ProcessEnd, Stop, StopReturn, Notified, seqns
<1>3. conn # "running" => thread' \notin {"taken", "process", "sent"}
  <2>1. conn # "running" => interrupt_balance # 0
    BY SMT DEF WInv, IInv, PausedUnlessRunning
  <2> QED BY <2>1 DEF QuietBeforeResume, Put, QuietThreadStep, ThreadReturn, ThreadWait,
     ThreadTake, NothingToDo, ProcessBegin, ProcessSent, ProcessEnd, Stop, StopReturn, Notified
<1> QED BY <1>1, <1>2, <1>3 DEF QuietBeforeResume, NextSeqn

\* Resuming and pausing do not change which package comes next.
LEMMA ConnKeepsNext ==
    ASSUME WInv, CurrentIsBehind, QuietBeforeResume, sock = "up", sock' = sock,
           ResumeBegin \/ ReprocessBegin \/ ResumeEnd \/ PauseEnd
    PROVE  QuietBeforeResume' /\ NextSeqn' = NextSeqn /\ acknowledged_seqn' = acknowledged_seqn
<1>1. conn # "pause"
  BY DEF QuietBeforeResume
<1>2. CASE ResumeBegin
  BY <1>2 DEF ResumeBegin, NextSeqn, QuietBeforeResume, seqns
<1>3. CASE ReprocessBegin
  <2>1. /\ conn = "resume" /\ conn' = "reprocess" /\ resent' = 0 /\ thread' = thread
        /\ acknowledged_seqn' = acknowledged_seqn
        /\ current_seqn' = IF current_seqn <= acknowledged_seqn THEN acknowledged_seqn + 1
                                                               ELSE current_seqn
    BY <1>3 DEF ReprocessBegin, Forget
  <2>2. current_seqn' + resent' = acknowledged_seqn + 1
    BY <2>1, WireTypes, SMT DEF CurrentIsBehind
  <2> QED BY <2>1, <2>2 DEF NextSeqn, QuietBeforeResume
<1>4. CASE ResumeEnd
  <2>1. /\ conn = "reprocess" /\ conn' = "running" /\ thread' = Notified(thread)
        /\ acknowledged_seqn' = acknowledged_seqn /\ max_sent_seqn' = max_sent_seqn
        /\ resent = Len(pending_queue)
    BY <1>4 DEF ResumeEnd, ResumeDone, seqns
  <2>2. thread' # "sent"
    BY <2>1 DEF QuietBeforeResume, Notified
  <2>3. current_seqn + resent = max_sent_seqn + 1
    BY <2>1 DEF WInv, IInv, SeqnContinuity
  <2> QED BY <2>1, <2>2, <2>3 DEF NextSeqn, LastSent, QuietBeforeResume
<1> QED BY <1>1, <1>2, <1>3, <1>4 DEF PauseEnd

\* The steps in which nothing is sent, received, made or lost.
StillWireStep ==
    \/ Put /\ UNCHANGED net
    \/ QuietThreadStep /\ UNCHANGED net
    \/ ResumeConnection
    \/ Disconnected
    \/ (ReprocessBegin \/ ResumeEnd \/ PauseEnd) /\ UNCHANGED net
    \/ StopStep
    \/ Finished
    \/ UNCHANGED vars

\* Steps that neither send nor receive.
LEMMA StillInv ==
    ASSUME MCInv, StillWireStep
    PROVE  /\ prompt => PromptInv'
           /\ prompt /\ calm => OnceInOrder'
<1>1. UNCHANGED <<sock, packages, acks, max_received_seqn, stream>>
  BY DEF StillWireStep, ResumeConnection, Disconnected, StopStep, Finished, net, vars
<1>2. acknowledged_seqn' = acknowledged_seqn
  BY DEF StillWireStep, ResumeConnection, Disconnected, StopStep, Finished, net, vars, pvars,
     seqns, Put, QuietThreadStep, ThreadReturn, ThreadWait, ThreadTake, ProcessBegin,
     ProcessSent, ProcessEnd, ResumeBegin, ReprocessBegin, ResumeEnd, PauseBegin, PauseEnd,
     Stop, StopReturn
<1>3. ASSUME prompt, sock = "up" PROVE QuietBeforeResume' /\ NextSeqn' = NextSeqn
  <2>1. QuietBeforeResume /\ WInv /\ CurrentIsBehind
    BY <1>3 DEF MCInv, PromptInv
  <2>2. CASE Put \/ QuietThreadStep \/ StopStep
    BY <1>1, <1>3, <2>1, <2>2, ThreadKeepsNext DEF StopStep
  <2>3. CASE ResumeConnection \/ ReprocessBegin \/ ResumeEnd \/ PauseEnd
    BY <1>1, <1>3, <2>1, <2>3, ConnKeepsNext DEF ResumeConnection
  <2>4. CASE Finished \/ UNCHANGED vars
    BY <2>1, <2>4 DEF Finished, vars, pvars, seqns, pcs, QuietBeforeResume, NextSeqn, LastSent, net
  <2> QED BY <1>3, <2>2, <2>3, <2>4 DEF StillWireStep, Disconnected
<1>4. ASSUME sock # "up" PROVE QuietBeforeResume'
  BY <1>1, <1>4 DEF QuietBeforeResume
<1> QED BY <1>1, <1>2, <1>3, <1>4, StillStep

-----------------------------------------------------------------------------
(* Sending *)

\* On a connection that lasts, the package that is sent is the next one.
LEMMA SendsNext ==
    ASSUME WInv, QuietBeforeResume, SendNew \/ Resend, sock = "up"
    PROVE  /\ \E item \in Nat : packages' = Append(packages, Package(item, NextSeqn))
           /\ NextSeqn' = NextSeqn + 1 /\ QuietBeforeResume'
           /\ UNCHANGED <<sock, acks, max_received_seqn, stream, acknowledged_seqn>>
<1>1. CASE SendNew
  <2> PICK ok \in BOOLEAN : ProcessSend(ok) /\ Send0(Head(queue), max_sent_seqn + 1, ok)
    BY <1>1 DEF SendNew
  <2>1. /\ thread = "process" /\ thread' = "sent" /\ conn = "running" /\ conn' = "running"
        /\ max_sent_seqn' = max_sent_seqn /\ acknowledged_seqn' = acknowledged_seqn
        /\ packages' = Append(packages, Package(Head(queue), max_sent_seqn + 1))
        /\ UNCHANGED <<sock, acks, max_received_seqn, stream>>
    BY DEF ProcessSend, Send0, seqns, QuietBeforeResume
  <2>2. NextSeqn = max_sent_seqn + 1 /\ NextSeqn' = max_sent_seqn + 1 + 1
    BY <2>1 DEF NextSeqn, LastSent
  <2>3. queue \in Seq(Nat) /\ queue # <<>>
    BY DEF WInv, IInv, TypeOK, ProcessSend
  <2>4. Head(queue) \in Nat
    BY <2>3, HeadTailProperties
  <2> QED BY <2>1, <2>2, <2>4 DEF QuietBeforeResume
<1>2. CASE Resend
  <2> PICK ok \in BOOLEAN : /\ ReprocessSend(ok)
                            /\ Send0(pending_queue[resent + 1], current_seqn + resent, ok)
    BY <1>2 DEF Resend
  <2>1. /\ conn = "reprocess" /\ conn' = "reprocess" /\ thread' = thread
        /\ current_seqn' = current_seqn /\ resent' = resent + 1
        /\ acknowledged_seqn' = acknowledged_seqn /\ resent < Len(pending_queue)
        /\ packages' = Append(packages, Package(pending_queue[resent + 1], current_seqn + resent))
        /\ UNCHANGED <<sock, acks, max_received_seqn, stream>>
    BY DEF ReprocessSend, Send0, seqns
  <2>2. NextSeqn = current_seqn + resent /\ NextSeqn' = current_seqn + (resent + 1)
    BY <2>1 DEF NextSeqn
  <2>3. current_seqn + (resent + 1) = current_seqn + resent + 1
    BY WireTypes, SMT
  <2>4. pending_queue \in Seq(Nat) /\ resent + 1 \in 1 .. Len(pending_queue)
    BY <2>1, WireTypes, SMT DEF WInv, IInv, TypeOK
  <2>5. pending_queue[resent + 1] \in Nat
    BY <2>4, ElementOfSeq
  <2> QED BY <2>1, <2>2, <2>3, <2>5 DEF QuietBeforeResume
<1> QED BY <1>1, <1>2

\* A package that is sent follows those on their way.
LEMMA SendInv ==
    ASSUME MCInv, SendNew \/ Resend
    PROVE  /\ prompt => PromptInv'
           /\ prompt /\ calm => OnceInOrder'
<1>1. CASE sock # "up"
  <2>1. UNCHANGED <<sock, packages, acks, max_received_seqn, stream, acknowledged_seqn>>
    BY <1>1 DEF SendNew, Resend, Send0, ProcessSend, ReprocessSend, seqns
  <2> QED BY <1>1, <2>1, StillStep DEF QuietBeforeResume
<1>2. CASE sock = "up"
  <2> SUFFICES ASSUME prompt PROVE PromptInv' /\ (calm => OnceInOrder')
    OBVIOUS
  <2>1. WInv /\ QuietBeforeResume /\ NoGaps
    BY DEF MCInv, PromptInv
  <2>2. /\ NextSeqn' = NextSeqn + 1 /\ QuietBeforeResume'
        /\ UNCHANGED <<sock, acks, max_received_seqn, stream, acknowledged_seqn>>
    BY <1>2, <2>1, SendsNext
  <2>3. PICK item \in Nat : packages' = Append(packages, Package(item, NextSeqn))
    BY <1>2, <2>1, SendsNext
  <2>4. PICK b \in Nat : Follow(b)
    BY DEF MCInv, PromptInv
  <2>5. NextSeqn = b + Len(packages) + 1 /\ NextSeqn \in Nat /\ Len(packages) \in Nat
    BY <1>2, <2>1, <2>4, WireTypes DEF Follow
  <2>6. Package(item, NextSeqn) \in [item : Nat, seqn : Nat] /\ Package(item, NextSeqn).seqn = NextSeqn
    BY <2>5 DEF Package
  <2>7. /\ Len(packages') = Len(packages) + 1 /\ packages' # <<>>
        /\ \A i \in 1 .. Len(packages) : packages'[i] = packages[i]
        /\ packages'[Len(packages) + 1].seqn = NextSeqn
    <3> DEFINE S == [item : Nat, seqn : Nat]
               p == Package(item, NextSeqn)
    <3>1. packages \in Seq(S) /\ p \in S /\ p.seqn = NextSeqn /\ packages' = Append(packages, p)
      BY <2>1, <2>3, <2>6, WireTypes
    <3> HIDE DEF S, p
    <3> QED BY <3>1, AppendProperties
  <2>8. Delivered' = Delivered /\ \A n : Got(n)' <=> Got(n)
    BY <2>2 DEF Delivered, Got
  <2>9. ASSUME NEW i \in 1 .. Len(packages') PROVE packages'[i].seqn = b + i
    <3>1. CASE i \in 1 .. Len(packages)
      BY <2>4, <2>7, <3>1 DEF Follow
    <3>2. CASE i = Len(packages) + 1
      BY <2>5, <2>7, <3>2, SMT
    <3> QED BY <2>5, <2>7, <3>1, <3>2, SMT
  <2>10. Follow(b)'
    <3>1. NextSeqn' = b + Len(packages') + 1
      BY <2>2, <2>5, <2>7, SMT
    <3> QED BY <2>4, <2>8, <2>9, <3>1 DEF Follow
  <2>11. PromptInv'
    BY <2>1, <2>2, <2>8, <2>10 DEF PromptInv, NoGaps, Got
  <2>12. ASSUME calm PROVE OnceInOrder'
    <3>1. OnceInOrder
      BY <2>12 DEF MCInv
    <3>2. ASSUME packages'[1].seqn = 1 PROVE max_received_seqn = 0
      <4>1. CASE packages = <<>>
        <5>1. NextSeqn = 1
          BY <2>7, <3>2, <4>1, EmptySeq
        <5> QED BY <1>2, <3>1, <4>1, <5>1 DEF OnceInOrder
      <4>2. CASE packages # <<>>
        <5>1. 1 \in 1 .. Len(packages)
          BY <2>1, <4>2, WireTypes, TailIndices
        <5> QED BY <2>7, <3>1, <3>2, <4>2, <5>1 DEF OnceInOrder
      <4> QED BY <4>1, <4>2
    <3> QED BY <1>2, <2>2, <2>7, <3>1, <3>2 DEF OnceInOrder
  <2> QED BY <2>11, <2>12
<1> QED BY <1>1, <1>2

-----------------------------------------------------------------------------
(* Receiving *)

\* The package that is read is the one that follows b, numbered by its message.
LEMMA ReadsFollowing ==
    ASSUME WInv, CounterpartReads, NEW b \in Nat, Follow(b)
    PROVE  /\ packages # <<>> /\ Len(packages) \in Nat
           /\ packages[1].seqn = b + 1
           /\ Len(packages') = Len(packages) - 1
           /\ \A i \in 1 .. Len(packages') : packages'[i].seqn = (b + 1) + i
           /\ acks' = acks \/ acks' = Append(acks, b + 1)
           /\ \/ /\ b + 1 <= max_received_seqn /\ b + 1 # 1
                 /\ UNCHANGED <<max_received_seqn, stream>>
              \/ /\ ~(b + 1 <= max_received_seqn /\ b + 1 # 1)
                 /\ max_received_seqn' = b + 1 /\ stream' = Append(stream, b + 1)
           /\ UNCHANGED <<pvars, sock>>
<1>1. /\ packages # <<>> /\ packages' = Tail(packages) /\ UNCHANGED <<pvars, sock>>
      /\ ReadPackage(Head(packages))
      /\ acks' = acks \/ acks' = Append(acks, Head(packages).seqn)
  BY DEF CounterpartReads, Acknowledged
<1>2. /\ Len(packages) \in Nat /\ 1 \in 1 .. Len(packages) /\ Head(packages) = packages[1]
      /\ Len(packages') = Len(packages) - 1
      /\ \A i \in 1 .. Len(packages') : i + 1 \in 1 .. Len(packages) /\ packages'[i] = packages[i + 1]
  BY <1>1, WireTypes, TailIndices
<1>3. packages[1].seqn = b + 1 /\ packages[1].item = b + 1
  BY <1>2 DEF Follow, WInv, PackagesKeepNumbers
<1>4. ASSUME NEW i \in 1 .. Len(packages') PROVE packages'[i].seqn = (b + 1) + i
  <2>1. packages[i + 1].seqn = b + (i + 1)
    BY <1>2 DEF Follow
  <2>2. i \in Nat
    BY <1>2, SMT
  <2> QED BY <1>2, <2>1, <2>2, SMT
<1> QED BY <1>1, <1>2, <1>3, <1>4 DEF ReadPackage, IsDuplicate

\* After a package was read the counterpart has its message, and what it had.
LEMMA ReadingAdds ==
    ASSUME WInv, NoGaps, NEW b \in Nat, Got(b),
           \/ b + 1 <= max_received_seqn /\ stream' = stream
           \/ stream' = Append(stream, b + 1)
    PROVE  /\ Delivered' = Delivered \cup {b + 1}
           /\ \A n : Got(n) => Got(n)'
           /\ Got(b + 1)'
           /\ \A m \in Delivered' : Got(m)'
<1>1. Delivered' = Delivered \cup {b + 1}
  <2>1. CASE b + 1 <= max_received_seqn /\ stream' = stream
    <3>1. b + 1 \in 1 .. max_received_seqn
      BY <2>1, WireTypes, SMT
    <3> QED BY <2>1, <3>1 DEF NoGaps, Got, Delivered
  <2>2. CASE stream' = Append(stream, b + 1)
    <3>1. stream \in Seq(Nat) /\ b + 1 \in Nat
      BY WireTypes, SMT
    <3> QED BY <2>2, <3>1, RangeOfAppend DEF Delivered
  <2> QED BY <2>1, <2>2
<1>2. \A n : Got(n) => Got(n)'
  BY <1>1 DEF Got
<1>3. Got(b + 1)'
  <2>1. 1 .. b + 1 = (1 .. b) \cup {b + 1}
    BY SMT
  <2> QED BY <1>1, <2>1 DEF Got
<1> QED BY <1>1, <1>2, <1>3 DEF NoGaps

\* The counterpart reads the next message or one that it has.
LEMMA ReadInv ==
    ASSUME MCInv, CounterpartReads
    PROVE  /\ prompt => PromptInv'
           /\ prompt /\ calm => OnceInOrder'
<1> SUFFICES ASSUME prompt PROVE PromptInv' /\ (calm => OnceInOrder')
  OBVIOUS
<1>1. WInv /\ QuietBeforeResume /\ NoGaps
  BY DEF MCInv, PromptInv
<1>2. PICK b \in Nat : Follow(b)
  BY DEF MCInv, PromptInv
<1>3. /\ packages # <<>> /\ Len(packages) \in Nat
      /\ packages[1].seqn = b + 1
      /\ Len(packages') = Len(packages) - 1
      /\ \A i \in 1 .. Len(packages') : packages'[i].seqn = (b + 1) + i
      /\ acks' = acks \/ acks' = Append(acks, b + 1)
      /\ UNCHANGED <<pvars, sock>>
  BY <1>1, <1>2, ReadsFollowing
<1>4. \/ /\ b + 1 <= max_received_seqn /\ b + 1 # 1
         /\ UNCHANGED <<max_received_seqn, stream>>
      \/ /\ ~(b + 1 <= max_received_seqn /\ b + 1 # 1)
         /\ max_received_seqn' = b + 1 /\ stream' = Append(stream, b + 1)
  BY <1>1, <1>2, ReadsFollowing
<1>5. /\ \A n : Got(n) => Got(n)'
      /\ Got(b + 1)'
      /\ \A m \in Delivered' : Got(m)'
  BY <1>1, <1>2, <1>4, ReadingAdds DEF Follow
<1>6. /\ NextSeqn' = NextSeqn /\ QuietBeforeResume'
      /\ acknowledged_seqn' = acknowledged_seqn /\ sock' = sock
  BY <1>1, <1>3 DEF QuietBeforeResume, NextSeqn, LastSent, pvars, seqns, pcs
<1>7. Follow(b + 1)'
  <2>1. sock = "up" => NextSeqn' = (b + 1) + Len(packages') + 1
    BY <1>2, <1>3, <1>6, SMT DEF Follow
  <2> QED BY <1>3, <1>5, <1>6, <2>1 DEF Follow
<1>8. NoGaps'
  <2> DEFINE D == Delivered
  <2>3. \A n : 1 .. n \subseteq D => 1 .. n \subseteq D'
    BY <1>5 DEF Got
  <2>4. (\A i \in 1 .. Len(acks) : 1 .. acks[i] \subseteq D) /\ 1 .. b + 1 \subseteq D'
    BY <1>1, <1>5 DEF NoGaps, Got
  <2> HIDE DEF D
  <2>1. ASSUME NEW i \in 1 .. Len(acks') PROVE 1 .. acks'[i] \subseteq D'
    <3>1. CASE acks' = acks
      BY <2>3, <2>4, <3>1
    <3>2. CASE acks' = Append(acks, b + 1)
      <4>1. acks \in Seq(Nat) /\ b + 1 \in Nat
        BY <1>1, WireTypes, SMT
      <4>2. /\ Len(acks') = Len(acks) + 1 /\ Len(acks) \in Nat
            /\ \A j \in 1 .. Len(acks) : acks'[j] = acks[j]
            /\ acks'[Len(acks) + 1] = b + 1
        BY <3>2, <4>1, AppendProperties, LenProperties
      <4>3. CASE i \in 1 .. Len(acks)
        BY <2>3, <2>4, <4>2, <4>3
      <4>4. CASE i = Len(acks) + 1
        BY <2>4, <4>2, <4>4
      <4> QED BY <4>2, <4>3, <4>4, SMT
    <3> QED BY <1>3, <3>1, <3>2
  <2>2. Got(acknowledged_seqn)' /\ Got(max_received_seqn)'
    BY <1>1, <1>4, <1>5, <1>6 DEF NoGaps, Got
  <2> QED BY <1>5, <2>1, <2>2 DEF NoGaps, Got, D
<1>9. PromptInv'
  <2>1. b + 1 \in Nat
    BY SMT
  <2> QED BY <1>6, <1>7, <1>8, <2>1 DEF PromptInv
<1>10. ASSUME calm PROVE OnceInOrder'
  <2>1. OnceInOrder
    BY <1>10 DEF MCInv
  <2>2. /\ max_received_seqn \in Nat /\ stream \in Seq(Nat)
        /\ Len(stream) = max_received_seqn
        /\ Delivered = {stream[i] : i \in 1 .. Len(stream)}
        /\ \A i \in 1 .. Len(stream) : stream[i] = i
    BY <1>1, <2>1, WireTypes DEF OnceInOrder
  <2>3. b <= max_received_seqn
    <3>1. CASE b = 0
      BY <2>2, <3>1, SMT
    <3>2. CASE b # 0
      <4>1. b \in 1 .. b
        BY <3>2, SMT
      <4>2. b \in Delivered
        BY <1>2, <4>1 DEF Follow, Got
      <4>3. PICK i \in 1 .. Len(stream) : b = stream[i]
        BY <2>2, <4>2
      <4> QED BY <2>2, <4>3, SMT
    <3> QED BY <3>1, <3>2
  <2>4. /\ Len(stream') = max_received_seqn'
        /\ \A i \in 1 .. Len(stream') : stream'[i] = i
    <3>1. CASE UNCHANGED <<max_received_seqn, stream>>
      BY <2>2, <3>1
    <3>2. CASE /\ ~(b + 1 <= max_received_seqn /\ b + 1 # 1)
               /\ max_received_seqn' = b + 1 /\ stream' = Append(stream, b + 1)
      <4>1. max_received_seqn = b
        <5>1. CASE b + 1 # 1
          BY <2>2, <2>3, <3>2, <5>1, SMT
        <5>2. CASE b + 1 = 1
          <6>1. packages[1].seqn = 1 /\ b = 0
            BY <1>3, <5>2, SMT
          <6> QED BY <1>3, <2>1, <6>1 DEF OnceInOrder
        <5> QED BY <5>1, <5>2
      <4>2. b + 1 \in Nat
        BY SMT
      <4>3. /\ Len(stream') = Len(stream) + 1 /\ Len(stream) = b
            /\ \A i \in 1 .. Len(stream) : stream'[i] = stream[i]
            /\ stream'[Len(stream) + 1] = b + 1
        BY <2>2, <3>2, <4>1, <4>2, AppendProperties
      <4>4. \A i \in 1 .. b + 1 : i \in 1 .. b \/ i = b + 1
        BY SMT
      <4> QED BY <2>2, <3>2, <4>3, <4>4
    <3> QED BY <1>4, <3>1, <3>2
  <2>5. ~(packages' # <<>> /\ packages'[1].seqn = 1)
    <3> SUFFICES ASSUME packages' # <<>> PROVE packages'[1].seqn # 1
      OBVIOUS
    <3>1. packages' \in Seq([item : Nat, seqn : Nat])
      BY <1>1, WireTypes, HeadTailProperties DEF CounterpartReads
    <3>2. 1 \in 1 .. Len(packages')
      BY <3>1, TailIndices
    <3>3. packages'[1].seqn = (b + 1) + 1
      BY <1>3, <3>2
    <3> QED BY <3>3, SMT
  <2>6. ~(sock' = "up" /\ NextSeqn' = 1)
    <3>1. sock' = "up" => NextSeqn' = (b + 1) + Len(packages') + 1
      BY <1>7 DEF Follow
    <3> QED BY <1>3, <3>1, EmptySeq, WireTypes, SMT
  <2>7. sock' # "up" => acknowledged_seqn' >= 1
    BY <1>3, <1>6, <2>1 DEF OnceInOrder
  <2> QED BY <2>4, <2>5, <2>6, <2>7 DEF OnceInOrder
<1> QED BY <1>9, <1>10

-----------------------------------------------------------------------------
(* Acknowledgements and connections *)

\* An acknowledgement is of what the counterpart has.
LEMMA AckInv ==
    ASSUME MCInv, AckArrives
    PROVE  /\ prompt => PromptInv'
           /\ prompt /\ calm => OnceInOrder'
<1>1. /\ sock = "up" /\ conn = "running" /\ acks # <<>> /\ acks' = Tail(acks)
      /\ acknowledged_seqn' \in {acknowledged_seqn, Head(acks)}
      /\ UNCHANGED <<sock, conn, thread, max_sent_seqn, packages, max_received_seqn, stream>>
  BY DEF AckArrives, Acknowledge, pcs
<1>2. NextSeqn' = NextSeqn
  BY <1>1 DEF NextSeqn, LastSent
<1>3. Delivered' = Delivered /\ \A n : Got(n)' <=> Got(n)
  BY <1>1 DEF Delivered, Got
<1>4. ASSUME prompt PROVE PromptInv'
  <2>1. WInv /\ QuietBeforeResume /\ NoGaps
    BY <1>4 DEF MCInv, PromptInv
  <2>2. PICK b \in Nat : Follow(b)
    BY <1>4 DEF MCInv, PromptInv
  <2>3. Follow(b)'
    BY <1>1, <1>2, <1>3, <2>2 DEF Follow
  <2>4. /\ Head(acks) = acks[1] /\ 1 \in 1 .. Len(acks)
        /\ \A i \in 1 .. Len(acks') : i + 1 \in 1 .. Len(acks) /\ acks'[i] = acks[i + 1]
    BY <1>1, <2>1, WireTypes, TailIndices
  <2>5. \A i \in 1 .. Len(acks') : 1 .. acks'[i] \subseteq Delivered'
    <3>1. \A i \in 1 .. Len(acks) : 1 .. acks[i] \subseteq Delivered
      BY <2>1 DEF NoGaps, Got
    <3> QED BY <1>3, <2>4, <3>1
  <2>6. 1 .. acknowledged_seqn' \subseteq Delivered'
    BY <1>1, <1>3, <2>1, <2>4 DEF NoGaps, Got
  <2>7. NoGaps'
    BY <1>1, <1>3, <2>1, <2>5, <2>6 DEF NoGaps, Got
  <2>8. QuietBeforeResume'
    BY <1>1, <2>1 DEF QuietBeforeResume
  <2> QED BY <2>3, <2>7, <2>8 DEF PromptInv
<1>5. ASSUME prompt, calm PROVE OnceInOrder'
  BY <1>1, <1>2, <1>5 DEF MCInv, OnceInOrder
<1> QED BY <1>4, <1>5

\* A new connection begins after what was acknowledged.
LEMMA ProviderInv ==
    ASSUME MCInv, SetSocketProvider
    PROVE  /\ prompt /\ SenderIsPrompt => PromptInv'
           /\ prompt /\ calm => OnceInOrder'
<1>1. /\ sock \in {"none", "down"} /\ sock' = "up" /\ conn = "paused" /\ packages = <<>>
      /\ UNCHANGED <<conn, thread, acknowledged_seqn, packages, acks, max_received_seqn, stream>>
  BY DEF SetSocketProvider, pvars, pcs, seqns, MCInv, WInv, ReceivedWasSent
<1>2. Len(packages) = 0 /\ 1 .. 0 = {} /\ acknowledged_seqn \in Nat
  BY <1>1, EmptySeq, WireTypes, SMT DEF MCInv
<1>3. NextSeqn' = acknowledged_seqn + 1
  BY <1>1 DEF NextSeqn
<1>4. ASSUME prompt, SenderIsPrompt PROVE PromptInv'
  <2>1. Delivered' = Delivered /\ \A n : Got(n)' <=> Got(n)
    BY <1>1 DEF Delivered, Got
  <2>2. NoGaps
    BY <1>4 DEF MCInv, PromptInv
  <2>3. NoGaps'
    BY <1>1, <2>1, <2>2 DEF NoGaps, Got
  <2>4. NextSeqn' = acknowledged_seqn + Len(packages') + 1
    BY <1>1, <1>2, <1>3, SMT
  <2>5. 1 .. acknowledged_seqn \subseteq Delivered' /\ Len(packages') = 0
    BY <1>1, <1>2, <2>1, <2>2 DEF NoGaps, Got
  <2>6. PICK a \in Nat : a = acknowledged_seqn
    BY <1>2
  <2>7. Follow(a)'
    BY <1>2, <2>4, <2>5, <2>6 DEF Follow, Got
  <2>8. QuietBeforeResume'
    BY <1>1, <1>4 DEF QuietBeforeResume, SenderIsPrompt, MCInv, WInv, IdleWithoutSocket
  <2> QED BY <2>3, <2>7, <2>8 DEF PromptInv
<1>5. ASSUME prompt, calm PROVE OnceInOrder'
  <2>1. OnceInOrder
    BY <1>5 DEF MCInv
  <2>2. acknowledged_seqn + 1 = 1 => max_received_seqn = 0
    BY <1>1, <1>2, <2>1, SMT DEF OnceInOrder
  <2> QED BY <1>1, <1>3, <2>1, <2>2 DEF OnceInOrder
<1> QED BY <1>4, <1>5

\* A connection that dies leaves the front of the packages.
LEMMA DiesInv ==
    ASSUME MCInv, ConnectionDies
    PROVE  /\ prompt => PromptInv'
           /\ prompt /\ calm /\ FirstMessageAcked => OnceInOrder'
<1>1. /\ sock = "up" /\ sock' = "down" /\ acks' = <<>>
      /\ UNCHANGED <<acknowledged_seqn, max_received_seqn, stream>>
  BY DEF ConnectionDies, pvars, seqns
<1>2. PICK k \in 0 .. Len(packages) : packages' = SubSeq(packages, 1, k)
  BY DEF ConnectionDies
<1>3. /\ Len(packages') = k
      /\ packages' \in Seq([item : Nat, seqn : Nat])
      /\ \A i \in 1 .. k : i \in 1 .. Len(packages) /\ packages'[i] = packages[i]
  <2> DEFINE S == [item : Nat, seqn : Nat]
  <2>1. packages \in Seq(S)
    BY WireTypes DEF MCInv
  <2>2. \A i \in 1 .. k : i \in 1 .. Len(packages) /\ packages'[i] = packages[i]
    <3> HIDE DEF S
    <3> QED BY <1>2, <2>1, PrefixProperties
  <2>3. Len(packages') = k /\ packages' \in Seq(S)
    <3> HIDE DEF S
    <3> QED BY <1>2, <2>1, PrefixProperties
  <2> QED BY <2>2, <2>3
<1>4. Delivered' = Delivered /\ \A n : Got(n)' <=> Got(n)
  BY <1>1 DEF Delivered, Got
<1>5. ASSUME prompt PROVE PromptInv'
  <2>1. PICK b \in Nat : Follow(b)
    BY <1>5 DEF MCInv, PromptInv
  <2>2. Follow(b)'
    BY <1>1, <1>3, <1>4, <2>1 DEF Follow
  <2>3. NoGaps'
    <3>1. NoGaps
      BY <1>5 DEF MCInv, PromptInv
    <3>2. Len(acks') = 0 /\ 1 .. 0 = {}
      BY <1>1, EmptySeq, SMT
    <3> QED BY <1>1, <1>4, <3>1, <3>2 DEF NoGaps, Got
  <2>4. QuietBeforeResume'
    BY <1>1 DEF QuietBeforeResume
  <2> QED BY <2>2, <2>3, <2>4 DEF PromptInv
<1>6. ASSUME prompt, calm, FirstMessageAcked PROVE OnceInOrder'
  <2>1. OnceInOrder
    BY <1>6 DEF MCInv
  <2>3. ASSUME packages' # <<>>
        PROVE  packages # <<>> /\ packages'[1].seqn = packages[1].seqn
    <3>1. 1 \in 1 .. k
      BY <1>3, <2>3, TailIndices
    <3>2. Len(packages) # 0 /\ packages'[1] = packages[1]
      BY <1>3, <3>1, SMT
    <3> QED BY <3>2, EmptySeq
  <2>4. acknowledged_seqn >= 1 \/ (packages' = <<>> /\ max_received_seqn = 0)
    BY <1>1, <1>6, <2>3 DEF FirstMessageAcked
  <2> QED BY <1>1, <2>1, <2>3, <2>4 DEF OnceInOrder
<1> QED BY <1>5, <1>6

-----------------------------------------------------------------------------
(* The theorems *)

\* Every step keeps the invariant.
LEMMA NextMCInv == MCInv /\ [MCNext]_mcvars => MCInv'
<1> SUFFICES ASSUME MCInv, [MCNext]_mcvars PROVE MCInv'
  OBVIOUS
<1>1. [WireNext]_vars /\ WInv
  BY DEF MCNext, mcvars, MCInv
<1>2. WInv' /\ CurrentIsBehind'
  BY <1>1, NextWInv, StaysBehind
<1>3. /\ prompt' => prompt /\ (SenderIsPrompt \/ UNCHANGED vars)
      /\ calm' => calm /\ (FirstMessageAcked \/ UNCHANGED vars)
  <2>1. CASE MCNext
    <3>1. prompt' = (prompt /\ SenderIsPrompt) /\ calm' = (calm /\ FirstMessageAcked)
      BY <2>1 DEF MCNext
    <3> QED BY <3>1, Zenon
  <2>2. CASE UNCHANGED mcvars
    <3>1. UNCHANGED vars /\ prompt' = prompt /\ calm' = calm
      BY <2>2 DEF mcvars
    <3> QED BY <3>1, Zenon
  <2> QED BY <2>1, <2>2
<1>4. /\ prompt' => PromptInv'
      /\ prompt' /\ calm' => OnceInOrder'
  <2>1. CASE StillWireStep
    BY <1>3, <2>1, StillInv
  <2>2. CASE SendNew \/ Resend
    BY <1>3, <2>2, SendInv
  <2>3. CASE CounterpartReads
    BY <1>3, <2>3, ReadInv
  <2>4. CASE AckArrives
    BY <1>3, <2>4, AckInv
  <2>5. CASE SetSocketProvider
    BY <1>3, <2>5, ProviderInv DEF SetSocketProvider, vars, net
  <2>6. CASE ConnectionDies
    BY <1>3, <2>6, DiesInv DEF ConnectionDies, vars, net
  <2> QED
    BY <1>1, <2>1, <2>2, <2>3, <2>4, <2>5, <2>6 DEF WireNext, ThreadStep, ConnStep, Break,
       CloseSocket, StillWireStep
<1> QED BY <1>2, <1>4 DEF MCInv

\* The inductive invariant of the wire and its observers holds.
THEOREM MCInvariance == MCSpec => []MCInv
BY InitMCInv, NextMCInv, PTL DEF MCSpec

\* Over lost connections too, the counterpart has what it acknowledged and
\* everything before what it has: acknowledge() and reprocess() forget no message
\* that did not arrive.
THEOREM NoAckedLoss == MCSpec => []NothingAckedIsLost
<1>1. MCInv => NothingAckedIsLost
  BY DEF MCInv, PromptInv, NoGaps, Got, NothingAckedIsLost
<1> QED BY <1>1, MCInvariance, PTL

\* A step of the wire is one of the channel: put() accepts a message, and the
\* counterpart's receive_pkg yields the next one.
LEMMA StepOfChannel ==
    ASSUME MCInv, [MCNext]_mcvars, prompt', calm'
    PROVE  [Channel!Next]_(Channel!cvars)
<1>1. WInv /\ [WireNext]_vars /\ prompt /\ calm /\ OnceInOrder /\ OnceInOrder'
  BY NextMCInv DEF MCNext, mcvars, MCInv
<1>2. CASE Put /\ UNCHANGED net
  BY <1>2 DEF Put, net, Channel!Next, Channel!Accept
<1>3. CASE CounterpartReads
  <2>1. PICK b \in Nat : Follow(b)
    BY <1>1 DEF MCInv, PromptInv
  <2>2. /\ packages # <<>> /\ packages[1].seqn = b + 1 /\ accepted' = accepted
        /\ stream' = stream \/ stream' = Append(stream, b + 1)
    BY <1>1, <1>3, <2>1, ReadsFollowing DEF pvars, queues
  <2>3. CASE stream' = stream
    BY <2>2, <2>3 DEF Channel!cvars
  <2>4. CASE stream' = Append(stream, b + 1)
    <3>1. /\ stream \in Seq(Nat) /\ Len(stream) \in Nat /\ b + 1 \in Nat
          /\ packages \in Seq([item : Nat, seqn : Nat]) /\ LastSent \in Nat
      BY <1>1, WireTypes, SMT
    <3>2. /\ Len(stream') = Len(stream) + 1 /\ stream'[Len(stream) + 1] = b + 1
      BY <2>4, <3>1, AppendProperties
    <3>3. b + 1 = Len(stream) + 1
      BY <1>1, <3>1, <3>2, SMT DEF OnceInOrder
    <3>4. b + 1 <= LastSent
      <4>1. 1 \in 1 .. Len(packages)
        BY <2>2, <3>1, TailIndices
      <4> QED BY <1>1, <2>2, <3>1, <4>1, SMT DEF WInv, PackagesWereSent
    <3>5. accepted \in Nat /\ LastSent <= accepted
      BY <1>1, LastSentWasAccepted
    <3>6. Len(stream) < accepted
      BY <3>1, <3>3, <3>4, <3>5, SMT
    <3> QED BY <2>2, <2>4, <3>3, <3>6 DEF Channel!Next, Channel!Deliver
  <2> QED BY <2>2, <2>3, <2>4
<1>4. CASE ~(Put /\ UNCHANGED net) /\ ~CounterpartReads
  <2>1. stream' = stream /\ accepted' = accepted
    BY <1>1, <1>4 DEF WireNext, ThreadStep, SendNew, Resend, Send0, ConnStep, SetSocketProvider,
       ResumeConnection, AckArrives, Disconnected, Break, ConnectionDies, StopStep, CloseSocket,
       Finished, net, vars, pvars, queues, ProcessSend, ReprocessSend, QuietThreadStep,
       ThreadReturn, ThreadWait, ThreadTake, ProcessBegin, ProcessSent, ProcessEnd, PauseBegin,
       PauseEnd, ResumeBegin, ReprocessBegin, ResumeEnd, Acknowledge, Stop, StopReturn
  <2> QED BY <2>1 DEF Channel!cvars
<1> QED BY <1>2, <1>3, <1>4

\* The wire is a reliable channel, as long as its environment is prompt and calm.
THEOREM WireIsReliable == MCSpec => ImplementsChannel
<1>1. MCInit => Channel!Init
  BY DEF MCInit, WireInit, Init, Channel!Init
<1>2. MCInv /\ [MCNext]_mcvars => [prompt' /\ calm' => [Channel!Next]_(Channel!cvars)]_mcvars
  BY StepOfChannel
<1> QED BY <1>1, <1>2, MCInvariance, PTL DEF MCSpec, ImplementsChannel
=============================================================================
