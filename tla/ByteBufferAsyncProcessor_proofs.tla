------------------- MODULE ByteBufferAsyncProcessor_proofs -------------------
(***************************************************************************)
(* ByteBufferAsyncProcessor keeps its messages in place for every number   *)
(* of messages: proofs of its properties from one inductive invariant.     *)
(***************************************************************************)
EXTENDS ByteBufferAsyncProcessor, SequenceTheorems, TLAPS

\* process and reprocess, who share queue_lock, exclude each other.
Exclusion == conn = "reprocess" => ~in_processing

\* The queue is paused except while the connection thread is in receiverProc.
PausedUnlessRunning == interrupt_balance = IF conn = "running" THEN 0 ELSE 1

\* An acknowledgement is ahead of max_sent_seqn only while process() is between
\* the return of the processor and the increment, and then there is a message
\* whose number it can be.
AckAtMostSent ==
    /\ acknowledged_seqn <= LastSent
    /\ thread = "sent" => queue # <<>>

IInv ==
    /\ TypeOK
    /\ SeqnContinuity
    /\ Exclusion
    /\ PausedUnlessRunning
    /\ AckAtMostSent
    /\ resent <= Len(pending_queue)

-----------------------------------------------------------------------------
USE DEF StateKind, Initialized, AsyncProcessing, Stopping, Terminating, Terminated

\* The queue is empty.
LEMMA InitIInv == Init => IInv
BY MaxPutAssumption, SMT
   DEF Init, IInv, TypeOK, SeqnContinuity, Exclusion, PausedUnlessRunning,
       AckAtMostSent, LastSent, in_processing, ThreadPC, ConnPC, StopPC

\* The steps that leave messages and numbers alone.
LEMMA QuietStep ==
    ASSUME IInv,
           UNCHANGED <<queues, seqns>>,
           state' \in StateKind, thread' \in ThreadPC, conn' \in ConnPC,
           stopper' \in StopPC, resent' \in Nat, interrupt_balance' \in {0, 1},
           PausedUnlessRunning', Exclusion',
           thread' = "sent" => queue # <<>>,
           thread = "sent" => thread' = "sent",
           resent' <= Len(pending_queue)
    PROVE  IInv'
BY SMT DEF IInv, TypeOK, SeqnContinuity, AckAtMostSent, LastSent, queues, seqns

\* A put adds at the end.
LEMMA PutIInv == IInv /\ Put => IInv'
<1> SUFFICES ASSUME IInv, Put PROVE IInv'
  OBVIOUS
<1>1. TypeOK'
  BY MaxPutAssumption, SMT DEF IInv, TypeOK, Put, seqns, Notified, ThreadPC
<1>2. SeqnContinuity'
  <2>1. /\ data \in Seq(Nat) /\ queue \in Seq(Nat) /\ pending_queue \in Seq(Nat)
        /\ accepted \in Nat /\ max_sent_seqn \in Nat
    BY SMT DEF IInv, TypeOK
  <2>2. /\ Len(data') = Len(data) + 1
        /\ \A i \in 1 .. Len(data) : data'[i] = data[i]
        /\ data'[Len(data) + 1] = accepted + 1
    BY <2>1, AppendProperties DEF Put
  <2>3. /\ queue' = queue /\ pending_queue' = pending_queue
        /\ max_sent_seqn' = max_sent_seqn /\ current_seqn' = current_seqn
    BY DEF Put, seqns
  <2>4. accepted' = accepted + 1 /\ max_sent_seqn + Len(queue) + Len(data) = accepted
    BY DEF Put, IInv, SeqnContinuity
  <2>5. /\ Len(data) \in Nat /\ Len(queue) \in Nat
        /\ Len(data') = Len(data) + 1 /\ Len(queue') = Len(queue)
        /\ max_sent_seqn \in Nat /\ max_sent_seqn' = max_sent_seqn
    BY <2>1, <2>2, <2>3, LenProperties
  <2>6. max_sent_seqn' + Len(queue') + Len(data') = accepted'
    BY <2>4, <2>5, SMT
  <2>7. ASSUME NEW i \in 1 .. Len(data')
        PROVE  data'[i] = max_sent_seqn' + Len(queue') + i
    <3>1. CASE i \in 1 .. Len(data)
      BY <2>2, <2>3, <3>1 DEF IInv, SeqnContinuity
    <3>2. CASE i = Len(data) + 1
      <4>1. data'[i] = accepted + 1
        BY <2>2, <3>2
      <4> QED BY <2>4, <2>5, <3>2, <4>1, SMT
    <3> QED BY <2>5, <3>1, <3>2, SMT
  <2> QED BY <2>3, <2>6, <2>7 DEF IInv, SeqnContinuity
<1>3. Exclusion' /\ PausedUnlessRunning' /\ AckAtMostSent' /\ resent' <= Len(pending_queue')
  BY SMT DEF IInv, TypeOK, Put, seqns, Exclusion, PausedUnlessRunning, AckAtMostSent,
             LastSent, in_processing, Notified
<1> QED BY <1>1, <1>2, <1>3 DEF IInv

\* The thread takes, sends and keeps messages where they are in the order.
LEMMA QuietThreadStepIInv == IInv /\ QuietThreadStep => IInv'
<1> SUFFICES ASSUME IInv, QuietThreadStep PROVE IInv'
  OBVIOUS
<1>1. CASE ThreadReturn
  BY <1>1, QuietStep, SMT DEF ThreadReturn, AtLoopHead, IInv, TypeOK, Exclusion,
     PausedUnlessRunning, in_processing, ThreadPC
<1>2. CASE ThreadWait
  BY <1>2, QuietStep, SMT DEF ThreadWait, AtLoopHead, IInv, TypeOK, Exclusion,
     PausedUnlessRunning, in_processing, ThreadPC
<1>3. CASE ThreadTake
  <2>1. TypeOK'
    BY <1>3, SMT DEF IInv, TypeOK, ThreadTake, seqns, ThreadPC
  <2>2. SeqnContinuity'
    BY <1>3, SMT DEF IInv, TypeOK, SeqnContinuity, ThreadTake, seqns
  <2>3. Exclusion' /\ PausedUnlessRunning' /\ AckAtMostSent' /\ resent' <= Len(pending_queue')
    BY <1>3, SMT DEF IInv, TypeOK, ThreadTake, AtLoopHead, seqns, Exclusion,
       PausedUnlessRunning, AckAtMostSent, LastSent, in_processing
  <2> QED BY <2>1, <2>2, <2>3 DEF IInv
<1>4. CASE ProcessBegin
  BY <1>4, QuietStep, SMT DEF ProcessBegin, IInv, TypeOK, Exclusion,
     PausedUnlessRunning, in_processing, ThreadPC
<1>5. CASE ProcessSent
  <2>1. queue # <<>> /\ thread = "sent"
    BY <1>5 DEF IInv, AckAtMostSent, ProcessSent
  <2>2. TypeOK'
    BY <1>5, <2>1, SMT DEF IInv, TypeOK, ProcessSent, ThreadPC
  <2>3. SeqnContinuity'
    <3>1. /\ queue \in Seq(Nat) /\ pending_queue \in Seq(Nat) /\ data \in Seq(Nat)
          /\ max_sent_seqn \in Nat /\ current_seqn \in Nat
      BY DEF IInv, TypeOK
    <3>2. /\ Len(queue') = Len(queue) - 1
          /\ \A i \in 1 .. Len(queue') : queue'[i] = queue[i + 1]
      BY <1>5, <2>1, <3>1, HeadTailProperties, SMT DEF ProcessSent
    <3>3. /\ Len(pending_queue') = Len(pending_queue) + 1
          /\ \A i \in 1 .. Len(pending_queue) : pending_queue'[i] = pending_queue[i]
          /\ pending_queue'[Len(pending_queue) + 1] = queue[1]
      BY <1>5, <2>1, <3>1, AppendProperties, HeadTailProperties, SMT DEF ProcessSent
    <3>4. Len(queue) >= 1 /\ queue[1] = max_sent_seqn + 1
      BY <2>1, <3>1, SMT DEF IInv, SeqnContinuity
    <3>5. /\ max_sent_seqn' = max_sent_seqn + 1
          /\ UNCHANGED <<data, accepted, current_seqn>>
      BY <1>5 DEF ProcessSent
    <3>6. /\ current_seqn' + Len(pending_queue') = max_sent_seqn' + 1
          /\ max_sent_seqn' + Len(queue') + Len(data') = accepted'
      BY <3>1, <3>2, <3>3, <3>5, SMT DEF IInv, SeqnContinuity
    <3>7. \A i \in 1 .. Len(pending_queue') : pending_queue'[i] = current_seqn' + i - 1
      <4> SUFFICES ASSUME NEW i \in 1 .. Len(pending_queue')
                   PROVE  pending_queue'[i] = current_seqn + i - 1
        BY <3>5
      <4>1. Len(pending_queue) \in Nat /\ i \in 1 .. Len(pending_queue) + 1
        BY <3>1, <3>3, LenProperties, SMT
      <4>2. CASE i \in 1 .. Len(pending_queue)
        BY <3>3, <4>2 DEF IInv, SeqnContinuity
      <4>3. CASE i = Len(pending_queue) + 1
        BY <3>1, <3>3, <3>4, <4>1, <4>3, SMT DEF IInv, SeqnContinuity
      <4> QED BY <4>1, <4>2, <4>3, SMT
    <3>8. \A i \in 1 .. Len(queue') : queue'[i] = max_sent_seqn' + i
      BY <3>1, <3>2, <3>4, <3>5, SMTT(30) DEF IInv, SeqnContinuity
    <3>9. \A i \in 1 .. Len(data') : data'[i] = max_sent_seqn' + Len(queue') + i
      BY <3>1, <3>2, <3>4, <3>5, SMT DEF IInv, SeqnContinuity
    <3> QED BY <3>6, <3>7, <3>8, <3>9 DEF SeqnContinuity
  <2>4. Exclusion' /\ PausedUnlessRunning' /\ AckAtMostSent' /\ resent' <= Len(pending_queue')
    BY <1>5, <2>1, SMT DEF IInv, TypeOK, ProcessSent, Exclusion,
       PausedUnlessRunning, AckAtMostSent, LastSent, in_processing
  <2> QED BY <2>2, <2>3, <2>4 DEF IInv
<1>6. CASE ProcessEnd
  BY <1>6, QuietStep, SMTT(30) DEF ProcessEnd, IInv, TypeOK, Exclusion,
     PausedUnlessRunning, in_processing, ThreadPC
<1> QED BY <1>1, <1>2, <1>3, <1>4, <1>5, <1>6 DEF QuietThreadStep

\* The processor is called, by either thread.
LEMMA SendIInv == ASSUME NEW ok \in BOOLEAN, IInv, ProcessSend(ok) \/ ReprocessSend(ok)
                  PROVE  IInv'
<1>1. CASE ProcessSend(ok)
  BY <1>1, QuietStep, SMT DEF ProcessSend, IInv, TypeOK, Exclusion,
     PausedUnlessRunning, in_processing, ThreadPC
<1>2. CASE ReprocessSend(ok)
  BY <1>2, QuietStep, SMT DEF ReprocessSend, ResumeDone, Notified, IInv, TypeOK,
     Exclusion, PausedUnlessRunning, in_processing, ThreadPC, ConnPC, queues
<1> QED BY <1>1, <1>2

\* The connection thread pauses and resumes.
LEMMA ConnIInv ==
    ASSUME IInv, PauseBegin \/ PauseEnd \/ ResumeBegin \/ ReprocessBegin \/ ResumeEnd
    PROVE  IInv'
<1>1. CASE PauseBegin
  BY <1>1, QuietStep, SMT DEF PauseBegin, IInv, TypeOK, Exclusion,
     PausedUnlessRunning, in_processing, ConnPC, AckAtMostSent
<1>2. CASE PauseEnd
  BY <1>2, QuietStep, SMT DEF PauseEnd, IInv, TypeOK, Exclusion,
     PausedUnlessRunning, in_processing, ConnPC, AckAtMostSent
<1>3. CASE ResumeBegin
  BY <1>3, QuietStep, SMT DEF ResumeBegin, IInv, TypeOK, Exclusion,
     PausedUnlessRunning, in_processing, ConnPC, AckAtMostSent
<1>4. CASE ReprocessBegin
  <2>1. acknowledged_seqn <= max_sent_seqn
    BY <1>4, SMT DEF ReprocessBegin, IInv, AckAtMostSent, LastSent, in_processing
  <2> DEFINE k == acknowledged_seqn - current_seqn + 1   \* forgotten messages
  <2>2. pending_queue \in Seq(Nat) /\ current_seqn \in Nat /\ acknowledged_seqn \in Nat
    BY DEF IInv, TypeOK
  <2>3. TypeOK' /\ SeqnContinuity'
    <3>1. CASE current_seqn <= acknowledged_seqn
      <4>1. k \in 1 .. Len(pending_queue)
        BY <2>1, <2>2, <3>1, SMT DEF IInv, TypeOK, SeqnContinuity
      <4>2. /\ pending_queue' = SubSeq(pending_queue, k + 1, Len(pending_queue))
            /\ current_seqn' = current_seqn + k
            /\ UNCHANGED <<data, queue, accepted, max_sent_seqn>>
        BY <1>4, <2>2, <3>1, SMT DEF ReprocessBegin, Forget
      <4>3. /\ pending_queue' \in Seq(Nat)
            /\ Len(pending_queue') = Len(pending_queue) - k
            /\ \A i \in 1 .. Len(pending_queue') : pending_queue'[i] = pending_queue[i + k]
        BY <2>2, <4>1, <4>2, SubSeqProperties, SMT
      <4>4. TypeOK'
        BY <1>4, <2>2, <4>1, <4>2, <4>3, SMT DEF IInv, TypeOK, ReprocessBegin, ConnPC
      <4>5. /\ current_seqn' + Len(pending_queue') = max_sent_seqn' + 1
            /\ \A i \in 1 .. Len(pending_queue') : pending_queue'[i] = current_seqn' + i - 1
        <5>1. k \in Nat /\ max_sent_seqn \in Nat /\ Len(pending_queue) \in Nat
          BY <2>2, <4>1, LenProperties, SMT DEF IInv, TypeOK
        <5> HIDE DEF k
        <5>2. current_seqn' + Len(pending_queue') = max_sent_seqn' + 1
          <6>1. current_seqn + Len(pending_queue) = max_sent_seqn + 1
            BY DEF IInv, SeqnContinuity
          <6>2. max_sent_seqn' = max_sent_seqn /\ current_seqn' = current_seqn + k
            BY <4>2
          <6>3. Len(pending_queue') = Len(pending_queue) - k
            BY <4>3
          <6> QED BY <2>2, <5>1, <6>1, <6>2, <6>3, SMT
        <5>3. ASSUME NEW i \in 1 .. Len(pending_queue')
              PROVE  pending_queue'[i] = current_seqn' + i - 1
          <6>1. i + k \in 1 .. Len(pending_queue) /\ i \in Nat
            BY <4>1, <4>3, <5>1, SMT
          <6>2. pending_queue[i + k] = current_seqn + (i + k) - 1
            BY <6>1 DEF IInv, SeqnContinuity
          <6> QED BY <2>2, <4>2, <4>3, <5>1, <6>1, <6>2, SMT
        <5> QED BY <5>2, <5>3
      <4>6. SeqnContinuity'
        BY <4>2, <4>5 DEF IInv, SeqnContinuity
      <4> QED BY <4>4, <4>6
    <3>2. CASE ~(current_seqn <= acknowledged_seqn)
      <4>1. UNCHANGED <<pending_queue, current_seqn>>
        BY <1>4, <3>2 DEF ReprocessBegin, Forget
      <4> QED BY <1>4, <4>1, SMT DEF IInv, TypeOK, SeqnContinuity, ReprocessBegin, ConnPC
    <3> QED BY <3>1, <3>2
  <2>4. Exclusion' /\ PausedUnlessRunning' /\ AckAtMostSent' /\ resent' <= Len(pending_queue')
    BY <1>4, <2>3, SMT DEF IInv, TypeOK, ReprocessBegin, Exclusion,
       PausedUnlessRunning, AckAtMostSent, LastSent, in_processing
  <2> QED BY <2>3, <2>4 DEF IInv
<1>5. CASE ResumeEnd
  BY <1>5, QuietStep, SMT DEF ResumeEnd, ResumeDone, Notified, IInv, TypeOK,
     Exclusion, PausedUnlessRunning, in_processing, ThreadPC, ConnPC, queues
<1> QED BY <1>1, <1>2, <1>3, <1>4, <1>5

\* An acknowledgement is of a message that was sent.
LEMMA AcknowledgeIInv ==
    ASSUME NEW seqn \in 1 .. LastSent, IInv, Acknowledge(seqn)
    PROVE  IInv'
<1>1. seqn \in Nat /\ seqn <= LastSent
  BY SMT DEF IInv, TypeOK, LastSent
<1>2. TypeOK'
  BY <1>1, SMT DEF IInv, TypeOK, Acknowledge, queues, pcs
<1>3. SeqnContinuity'
  BY SMT DEF IInv, SeqnContinuity, Acknowledge, queues
<1>4. Exclusion' /\ PausedUnlessRunning' /\ AckAtMostSent' /\ resent' <= Len(pending_queue')
  BY <1>1, SMT DEF IInv, TypeOK, Acknowledge, Exclusion, PausedUnlessRunning,
     AckAtMostSent, LastSent, in_processing, queues, pcs
<1> QED BY <1>2, <1>3, <1>4 DEF IInv

\* stop() moves no message.
LEMMA StopIInv ==
    ASSUME NEW result \in {"ok", "timeout"}, IInv, Stop \/ StopReturn(result)
    PROVE  IInv'
BY QuietStep, SMTT(30) DEF Stop, StopReturn, Notified, IInv, TypeOK, Exclusion,
   PausedUnlessRunning, in_processing, ThreadPC, StopPC, AckAtMostSent

\* Every step keeps the invariant.
LEMMA NextIInv == IInv /\ [Next]_pvars => IInv'
<1> SUFFICES ASSUME IInv, [Next]_pvars PROVE IInv'
  OBVIOUS
<1>1. CASE UNCHANGED pvars
  BY <1>1 DEF pvars, queues, seqns, pcs, IInv, TypeOK, SeqnContinuity, Exclusion,
     PausedUnlessRunning, AckAtMostSent, LastSent, in_processing
<1>2. CASE Next
  BY <1>2, PutIInv, QuietThreadStepIInv, SendIInv, ConnIInv, AcknowledgeIInv, StopIInv
     DEF Next
<1> QED BY <1>1, <1>2

\* The inductive invariant holds.
THEOREM Invariance == Spec => []IInv
BY InitIInv, NextIInv, PTL DEF Spec

-----------------------------------------------------------------------------
\* Every variable keeps its type; in particular pauses and resumes alternate, so
\* that interrupt_balance never counts two pauses.
THEOREM TypeCorrect == Spec => []TypeOK
<1>1. IInv => TypeOK
  BY DEF IInv
<1> QED BY <1>1, Invariance, PTL

\* No message is lost, reordered or renumbered inside the queue, whatever the
\* order of puts, pauses, failed sends, resends and acknowledgements.
THEOREM MessagesKeepTheirPlace == Spec => []SeqnContinuity
<1>1. IInv => SeqnContinuity
  BY DEF IInv
<1> QED BY <1>1, Invariance, PTL

\* reprocess never pops from an empty pending_queue.
THEOREM PoppingIsSafe == Spec => PopIsSafe
<1>1. IInv /\ [Next]_pvars =>
        [conn = "resume" /\ conn' = "reprocess"
           => acknowledged_seqn - current_seqn + 1 <= Len(pending_queue)]_pvars
  <2> SUFFICES ASSUME IInv, Next, conn = "resume", conn' = "reprocess"
               PROVE  acknowledged_seqn - current_seqn + 1 <= Len(pending_queue)
    OBVIOUS
  <2>1. ReprocessBegin
    BY DEF Next, Put, QuietThreadStep, ThreadReturn, ThreadWait, ThreadTake, ProcessBegin,
       ProcessSent, ProcessEnd, ProcessSend, ReprocessSend, PauseBegin, PauseEnd,
       ResumeBegin, ResumeEnd, ResumeDone, Acknowledge, Stop, StopReturn, pcs
  <2>2. acknowledged_seqn <= max_sent_seqn
    BY <2>1, SMT DEF ReprocessBegin, IInv, AckAtMostSent, LastSent, in_processing
  <2> QED BY <2>2, SMT DEF IInv, TypeOK, SeqnContinuity
<1> QED BY <1>1, Invariance, PTL DEF Spec, PopIsSafe

\* A message is forgotten only when the peer has acknowledged it.
THEOREM ForgettingIsSafe == Spec => ForgetsOnlyAcknowledged
<1>1. IInv /\ [Next]_pvars =>
        [\A i \in 1 .. Len(pending_queue) :
           pending_queue[i] < current_seqn' => pending_queue[i] <= acknowledged_seqn]_pvars
  <2> SUFFICES ASSUME IInv, Next, NEW i \in 1 .. Len(pending_queue),
                      pending_queue[i] < current_seqn'
               PROVE  pending_queue[i] <= acknowledged_seqn
    OBVIOUS
  <2>1. pending_queue[i] >= current_seqn /\ pending_queue[i] \in Int
    BY SMTT(30) DEF IInv, TypeOK, SeqnContinuity
  <2>2. CASE ReprocessBegin
    BY <2>1, <2>2, SMT DEF ReprocessBegin, Forget, IInv, TypeOK
  <2>3. CASE ~ReprocessBegin
    <3>1. current_seqn' = current_seqn
      BY <2>3 DEF Next, Put, QuietThreadStep, ThreadReturn, ThreadWait, ThreadTake,
         ProcessBegin, ProcessSent, ProcessEnd, ProcessSend, ReprocessSend, PauseBegin,
         PauseEnd, ResumeBegin, ResumeEnd, Acknowledge, Stop, StopReturn, seqns
    <3> QED BY <2>1, <3>1, SMT DEF IInv, TypeOK
  <2> QED BY <2>2, <2>3
<1> QED BY <1>1, Invariance, PTL DEF Spec, ForgetsOnlyAcknowledged
=============================================================================
