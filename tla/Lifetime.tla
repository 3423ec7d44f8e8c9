------------------------------ MODULE Lifetime ------------------------------
(***************************************************************************)
(* Lifetimes (rd_core lifetime/LifetimeImpl, LifetimeDefinition,           *)
(* SequentialLifetimes): ordered lists of actions that the thread which    *)
(* terminates the lifetime executes in reverse order, while other threads  *)
(* add actions, attach nested lifetimes or terminate it as well.           *)
(*                                                                         *)
(* todo[t] is what the calls of terminate() on the stack of thread t still *)
(* have to execute, innermost first.  This module steps through the actions*)
(* that concern lifetimes; what other actions do is up to the modules that *)
(* extend it.                                                              *)
(***************************************************************************)
EXTENDS Naturals, SequencesExt

CONSTANTS Lifetimes, Threads, OtherActions

Eternal == <<"eternal", 0>>

ASSUME LifetimeAssumption == Eternal \notin Lifetimes

VARIABLES
    terminated,  \* the lifetimes whose flag is set
    actions,     \* of each lifetime, guarded by its actions_lock
    todo

ltvars == <<terminated, actions, todo>>

\* The action that attach_nested adds to the parent, and the one it adds to the
\* nested lifetime, which erases the first one again.
End(l) == [op |-> "terminate", of |-> l]
Detach(parent, nested) == [op |-> "erase", of |-> parent, what |-> nested]

\* The second half of terminate(), from the lock on.
Take(l) == [op |-> "take", of |-> l]

LifetimeInit ==
    /\ terminated = {}
    /\ actions = [l \in Lifetimes |-> <<>>]
    /\ todo = [t \in Threads |-> <<>>]

-----------------------------------------------------------------------------
\* What add_action tests under the lock: with a terminated lifetime it throws.
CanAdd(l) == l \notin terminated

\* add_action(), if it does not throw.
Added(l, a) == IF l = Eternal THEN actions ELSE [actions EXCEPT ![l] = Append(@, a)]

\* attach_nested(): nested is not known to anyone else yet.
Attached(parent, nested) ==
    [actions EXCEPT ![parent] = Append(@, End(nested)),
                    ![nested] = <<Detach(parent, nested)>>]

Busy(t) == todo[t] # <<>>
Doing(t, op) == Busy(t) /\ Head(todo[t]).op = op
Done(t) == todo' = [todo EXCEPT ![t] = Tail(@)]

\* terminate(): the flag is set without the lock ...
Terminate(t) ==
    /\ Doing(t, "terminate")
    /\ LET l == Head(todo[t]).of
       IN  IF l = Eternal THEN Done(t) /\ UNCHANGED terminated
           ELSE /\ terminated' = terminated \cup {l}
                /\ todo' = [todo EXCEPT ![t] = <<Take(l)>> \o Tail(@)]
    /\ UNCHANGED actions

\* ... and the actions are moved out under it, to be executed in reverse order.
TakeActions(t) ==
    /\ Doing(t, "take")
    /\ LET l == Head(todo[t]).of
       IN  /\ todo' = [todo EXCEPT ![t] = Reverse(actions[l]) \o Tail(@)]
           /\ actions' = [actions EXCEPT ![l] = <<>>]
    /\ UNCHANGED terminated

\* The action of a nested lifetime: actions.erase(id) of the parent, without
\* its lock.
EraseNested(t) ==
    /\ Doing(t, "erase")
    /\ LET d == Head(todo[t])
           at == {i \in DOMAIN actions[d.of] : actions[d.of][i] = End(d.what)}
       IN  \/ \E i \in at : actions' = [actions EXCEPT ![d.of] = RemoveAt(@, i)]
           \/ at = {} /\ UNCHANGED actions
    /\ Done(t)
    /\ UNCHANGED terminated

LifetimeStep(t) == Terminate(t) \/ TakeActions(t) \/ EraseNested(t)

-----------------------------------------------------------------------------
\* Lifetimes hold actions, and threads execute them.
LifetimeTypeOK ==
    /\ terminated \subseteq Lifetimes
    /\ \A l \in Lifetimes : \A i \in DOMAIN actions[l] :
          actions[l][i].op \in {"terminate", "erase"} \cup OtherActions
    /\ \A t \in Threads : \A i \in DOMAIN todo[t] :
          todo[t][i].op \in {"terminate", "erase", "take"} \cup OtherActions
=============================================================================
