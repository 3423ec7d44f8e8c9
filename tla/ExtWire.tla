------------------------------ MODULE ExtWire ------------------------------
(***************************************************************************)
(* An extension of the protocol at its two ends (rd_framework ext/RdExtBase*)
(* and ext/ExtWire): the ends bind and unbind it each at its own time, tell*)
(* each other with the states Ready, ReceivedCounterpart and Disconnected, *)
(* and keep back what its members send until the counterpart is there.     *)
(*                                                                         *)
(* Between the ends is a wire that delivers in order, over lost connections*)
(* too.  At each end the wire thread receives, executing the states itself,*)
(* and unbinds; the scheduler ("main") binds, executes what the members    *)
(* receive, and the states that came before the binding.                   *)
(***************************************************************************)
EXTENDS Naturals, SequencesExt

CONSTANTS Ends,     \* two
          MaxBinds  \* bound: how often each of them binds

ASSUME ExtWireAssumption ==
    /\ Cardinality(Ends) = 2
    /\ MaxBinds \in [Ends -> Nat]

States == {"Ready", "ReceivedCounterpart", "Disconnected"}
State(s) == [op |-> s, task |-> 0]

VARIABLES
    ext,       \* "unbound", "advised" but not yet to say Disconnected, "bound", and, when
               \* its lifetime has ended, "dying", and "ending" once its members are unbound
    binds,     \* how often it was bound
    connected, \* of the ExtWire
    sendQ,
    inbox,     \* what the real wire has for an end
    queue,     \* of the scheduler: what members received, and "deferred" states
    mq,        \* the broker's Mq of the id of the extension,
    custom,    \* and its custom_scheduler_messages
    at         \* of each end and thread: what it executes, and what comes after it

extvars == <<ext, binds, connected, sendQ>>
wirevars == <<inbox, queue, mq, custom>>
evars == <<extvars, wirevars, at>>

Other(e) == CHOOSE f \in Ends : f # e

Nothing == [op |-> "idle", task |-> 0]
Doing(op, msg, rest) == [op |-> op, msg |-> msg, rest |-> rest]
Idle == Doing("idle", Nothing, <<>>)
IsIdle(e, t) == at[e][t].op = "idle"
Does(e, t, op) == at[e][t].op = op
Goes(e, t, what) == at' = [at EXCEPT ![e][t] = what]
GoesOn(e, t, op) == at' = [at EXCEPT ![e][t].op = op]
Halts(e, t) == Goes(e, t, Idle)

Transmit(e, ms) == inbox' = [inbox EXCEPT ![Other(e)] = @ \o ms]

Subscribed(e) == ext[e] # "unbound"

ExtInit ==
    /\ ext = [e \in Ends |-> "unbound"]
    /\ binds = [e \in Ends |-> 0]
    /\ connected = [e \in Ends |-> FALSE]
    /\ sendQ = [e \in Ends |-> <<>>]
    /\ inbox = [e \in Ends |-> <<>>] /\ queue = inbox /\ mq = inbox /\ custom = inbox
    /\ at = [e \in Ends |-> [t \in {"main", "wire"} |-> Idle]]

-----------------------------------------------------------------------------
(* RdExtBase::init and its reversal                                        *)

\* A new object, with a new ExtWire, is advised first, ...
Advise(e) ==
    /\ ext[e] = "unbound" /\ IsIdle(e, "main")
    /\ binds[e] < MaxBinds[e]
    /\ ext' = [ext EXCEPT ![e] = "advised"]
    /\ binds' = [binds EXCEPT ![e] = @ + 1]
    /\ connected' = [connected EXCEPT ![e] = FALSE]
    /\ sendQ' = [sendQ EXCEPT ![e] = <<>>]
    /\ GoesOn(e, "main", "bind")
    /\ UNCHANGED wirevars

\* Mutant of SendReady: Ready is not sent.
SendNothing(e) ==
    /\ Does(e, "main", "bind")
    /\ GoesOn(e, "main", "close")
    /\ UNCHANGED <<extvars, wirevars>>

\* ... then bracket() sends Ready, unless the lifetime has ended, ...
SendReady(e) ==
    /\ Does(e, "main", "bind")
    /\ IF ext[e] = "advised"
       THEN Transmit(e, <<State("Ready")>>) /\ GoesOn(e, "main", "close")
       ELSE Halts(e, "main") /\ UNCHANGED inbox
    /\ UNCHANGED <<extvars, queue, mq, custom>>

\* ... and adds the action that will send Disconnected, which throws if it has.
\* The members are bound after it: what comes for them meanwhile waits for the
\* scheduler, and so for the end of init().
AddClosing(e) ==
    /\ Does(e, "main", "close")
    /\ ext' = IF ext[e] = "advised" THEN [ext EXCEPT ![e] = "bound"] ELSE ext
    /\ Halts(e, "main")
    /\ UNCHANGED <<binds, connected, sendQ, wirevars>>

\* The wire thread ends the lifetime: its flag is set, the members are unbound,
\* Disconnected is sent, ...
EndLifetime(e) ==
    /\ ext[e] = "bound" /\ IsIdle(e, "wire")
    /\ ext' = [ext EXCEPT ![e] = "dying"]
    /\ GoesOn(e, "wire", "end")
    /\ UNCHANGED <<binds, connected, sendQ, wirevars>>

\* It ends during init(): there is nothing yet to unbind or to send.
EndEarly(e) ==
    /\ ext[e] = "advised" /\ IsIdle(e, "wire")
    /\ ext' = [ext EXCEPT ![e] = "ending"]
    /\ GoesOn(e, "wire", "unbind")
    /\ UNCHANGED <<binds, connected, sendQ, wirevars>>

SendDisconnected(e) ==
    /\ Does(e, "wire", "end")
    /\ ext' = [ext EXCEPT ![e] = "ending"]
    /\ Transmit(e, <<State("Disconnected")>>)
    /\ GoesOn(e, "wire", "unbind")
    /\ UNCHANGED <<binds, connected, sendQ, queue, mq, custom>>

\* ... and the extension is not subscribed any more.
Unsubscribe(e) ==
    /\ Does(e, "wire", "unbind")
    /\ ext' = [ext EXCEPT ![e] = "unbound"]
    /\ Halts(e, "wire")
    /\ UNCHANGED <<binds, connected, sendQ, wirevars>>

-----------------------------------------------------------------------------
(* Receiving                                                               *)

Start(m, rest) ==
    Doing(CASE m.op = "Ready" -> "answer"
            [] m.op = "ReceivedCounterpart" -> "set"
            [] OTHER -> "unset", m, rest)

\* Mutant of Defer: one action for all that wait.
DeferOnce(e, m) ==
    /\ mq' = [mq EXCEPT ![e] = Append(@, m)]
    /\ queue' = IF mq[e] = <<>> THEN [queue EXCEPT ![e] = Append(@, State("deferred"))] ELSE queue

Defer(e, m) ==
    /\ mq' = [mq EXCEPT ![e] = Append(@, m)]
    /\ queue' = [queue EXCEPT ![e] = Append(@, State("deferred"))]

\* The wire thread receives a state: it executes it if the extension is
\* subscribed and no earlier one waits, for which there is a deferred action.
ReceiveState(e) ==
    /\ IsIdle(e, "wire")
    /\ inbox[e] # <<>> /\ Head(inbox[e]).op \in States
    /\ inbox' = [inbox EXCEPT ![e] = Tail(@)]
    /\ LET m == Head(inbox[e])
       IN  \/ /\ Subscribed(e) /\ mq[e] = <<>>
              /\ Goes(e, "wire", Start(m, <<>>))
              /\ UNCHANGED <<queue, mq, custom>>
           \/ /\ Subscribed(e) /\ mq[e] # <<>>
              /\ custom' = [custom EXCEPT ![e] = Append(@, m)]
              /\ UNCHANGED <<queue, mq, at>>
           \/ /\ ~Subscribed(e) /\ Defer(e, m)
              /\ UNCHANGED <<custom, at>>
    /\ UNCHANGED extvars

\* The deferred action: the state is executed now, or nobody wants it; the last
\* one takes those that came meanwhile.  If there are any, but no extension any
\* more, it calls a null pointer: nothing is modelled beyond that.
RunDeferred(e) ==
    /\ IsIdle(e, "main")
    /\ queue[e] # <<>> /\ Head(queue[e]).op = "deferred"
    /\ queue' = [queue EXCEPT ![e] = Tail(@)]
    /\ mq' = [mq EXCEPT ![e] = Tail(@)]
    /\ LET rest == IF mq'[e] = <<>> THEN custom[e] ELSE <<>>
       IN  /\ Subscribed(e) \/ rest = <<>>
           /\ custom' = IF mq'[e] = <<>> THEN [custom EXCEPT ![e] = <<>>] ELSE custom
           /\ IF Subscribed(e) THEN Goes(e, "main", Start(Head(mq[e]), rest)) ELSE UNCHANGED at
    /\ UNCHANGED <<inbox, extvars>>

\* on_wire_received returns to the flush of the Mq, if there was more.
Returns(e, t) ==
    Goes(e, t, IF at[e][t].rest = <<>> THEN Idle
               ELSE Start(Head(at[e][t].rest), Tail(at[e][t].rest)))

\* Ready is answered; an unbound object has no id left to send under.
Answer(e, t) ==
    /\ Does(e, t, "answer")
    /\ IF Subscribed(e) THEN Transmit(e, <<State("ReceivedCounterpart")>>) ELSE UNCHANGED inbox
    /\ GoesOn(e, t, "set")
    /\ UNCHANGED <<queue, mq, custom, extvars>>

\* connected.set(true) calls the listener only if it was false, ...
SetConnected(e, t) ==
    /\ Does(e, t, "set")
    /\ connected' = [connected EXCEPT ![e] = TRUE]
    /\ IF connected[e] THEN Returns(e, t) ELSE GoesOn(e, t, "flush")
    /\ UNCHANGED <<ext, binds, sendQ, wirevars>>

\* ... which sends what was kept back, under `lock'.
Flush(e, t) ==
    /\ Does(e, t, "flush")
    /\ Transmit(e, sendQ[e])
    /\ sendQ' = [sendQ EXCEPT ![e] = <<>>]
    /\ Returns(e, t)
    /\ UNCHANGED <<ext, binds, connected, queue, mq, custom>>

SetDisconnected(e, t) ==
    /\ Does(e, t, "unset")
    /\ connected' = [connected EXCEPT ![e] = FALSE]
    /\ Returns(e, t)
    /\ UNCHANGED <<ext, binds, sendQ, wirevars>>

-----------------------------------------------------------------------------
(* ExtWire::send, by the scheduler                                         *)

\* What the sender does after it.
Continue(e, next, m) == Goes(e, "main", IF next = "idle" THEN Idle ELSE Doing(next, m, <<>>))

\* Mutant of MustWait: only the counterpart counts, not what is still kept back.
MustWaitForConnected(e) == ~connected[e]

MustWait(e) == sendQ[e] # <<>> \/ ~connected[e]

\* Under `lock': the message is kept back, or may be sent.
Send(e, m, next) ==
    IF MustWait(e)
    THEN sendQ' = [sendQ EXCEPT ![e] = Append(@, m)] /\ Continue(e, next, m)
    ELSE UNCHANGED sendQ /\ Goes(e, "main", Doing("send", m, <<State(next)>>))

\* Without it: realWire->send.
SendNow(e) ==
    /\ Does(e, "main", "send")
    /\ Transmit(e, <<at[e]["main"].msg>>)
    /\ Continue(e, at[e]["main"].rest[1].op, at[e]["main"].msg)
    /\ UNCHANGED <<queue, mq, custom, extvars>>
=============================================================================
