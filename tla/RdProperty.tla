----------------------------- MODULE RdProperty -----------------------------
(***************************************************************************)
(* An RdProperty (rd_framework base/RdPropertyBase.h, impl/RdProperty.h,   *)
(* rd_core reactive/Property.h) with its counterpart at the other end of a *)
(* wire that delivers in order.  Either end may set it at any time; the    *)
(* one with is_master numbers its changes and rejects changes that were    *)
(* made in ignorance of them.                                              *)
(***************************************************************************)
EXTENDS Integers, Sequences

CONSTANTS Values,
          NoValue,  \* a property that has not been set
          MaxSets   \* bound: how many changes are made

ASSUME RdPropertyAssumption == NoValue \notin Values /\ MaxSets \in Nat

VARIABLES
    value,           \* of each end
    master_version,  \* of each end
    inbox,           \* of each end: changes on the wire and in the broker
    sets

vars == <<value, master_version, inbox, sets>>

Ends == {"master", "slave"}
Other(e) == IF e = "master" THEN "slave" ELSE "master"
is_master(e) == e = "master"

\* Mutant of Change: written in the order value, version; read as below.
ChangeSwapped(version, v) == [version |-> v, value |-> version]

\* What travels.
Change(version, v) == [version |-> version, value |-> v]

-----------------------------------------------------------------------------
\* init(): both ends start from the same value, if any: advise() reports it
\* without local_change, so that it is not sent.
Init ==
    /\ \E v \in Values \cup {NoValue} : value = [e \in Ends |-> v]
    /\ master_version = [e \in Ends |-> 0]
    /\ inbox = [e \in Ends |-> <<>>]
    /\ sets = 0

\* Mutant of Set: the version does not grow.
SetUnversioned(e, v) ==
    /\ v # value[e]
    /\ sets < MaxSets
    /\ sets' = sets + 1
    /\ value' = [value EXCEPT ![e] = v]
    /\ UNCHANGED master_version
    /\ inbox' = [inbox EXCEPT ![Other(e)] = Append(@, Change(master_version[e], v))]

\* set(): Property::set ignores a value that is there already; otherwise the
\* listener of init sends the change.
Set(e, v) ==
    /\ v # value[e]
    /\ sets < MaxSets
    /\ sets' = sets + 1
    /\ value' = [value EXCEPT ![e] = v]
    /\ master_version' = [master_version EXCEPT ![e] = IF is_master(e) THEN @ + 1 ELSE @]
    /\ inbox' = [inbox EXCEPT ![Other(e)] = Append(@, Change(master_version'[e], v))]

\* Mutant of Rejected: a change made in full knowledge is rejected.
RejectedIfEqual(e, version) == is_master(e) /\ version <= master_version[e]

Rejected(e, version) == is_master(e) /\ version < master_version[e]

\* Mutant of Receive: the version is not taken over.
ReceiveValue(e) ==
    /\ inbox[e] # <<>>
    /\ inbox' = [inbox EXCEPT ![e] = Tail(@)]
    /\ LET c == Head(inbox[e])
       IN  value' = [value EXCEPT ![e] = IF Rejected(e, c.version) THEN @ ELSE c.value]
    /\ UNCHANGED <<master_version, sets>>

\* on_wire_received()
Receive(e) ==
    /\ inbox[e] # <<>>
    /\ inbox' = [inbox EXCEPT ![e] = Tail(@)]
    /\ LET c == Head(inbox[e])
       IN  IF Rejected(e, c.version)
           THEN UNCHANGED <<value, master_version>>
           ELSE /\ master_version' = [master_version EXCEPT ![e] = c.version]
                /\ value' = [value EXCEPT ![e] = c.value]
    /\ UNCHANGED sets

Next == \E e \in Ends : Receive(e) \/ \E v \in Values : Set(e, v)

Spec == Init /\ [][Next]_vars

\* The wire delivers; nobody has to set anything.
FairSpec == Spec /\ \A e \in Ends : WF_vars(Receive(e))

-----------------------------------------------------------------------------
(* Properties *)

Changes == [version : Nat, value : Values]

\* Versions are numbers, and changes carry a version and a value.
TypeOK ==
    /\ value \in [Ends -> Values \cup {NoValue}]
    /\ master_version \in [Ends -> Nat]
    /\ inbox \in [Ends -> Seq(Changes)]
    /\ sets \in 0 .. MaxSets

\* Whenever nothing is on its way, the ends agree, whatever was set concurrently.
Convergence ==
    inbox["master"] = <<>> /\ inbox["slave"] = <<>> => value["master"] = value["slave"]

\* A change made by the master is never undone by one that the slave made before
\* it had seen it.
MasterIsNotOverruled ==
    [][Receive("master") /\ value'["master"] # value["master"]
          => inbox["slave"] = <<>>]_vars

\* Versions never go back, although every accepted change overwrites them.
VersionsGrow == [][\A e \in Ends : master_version'[e] >= master_version[e]]_vars

\* When no more changes are made the ends come to agree for good.
EventuallyAgree == <>[](value["master"] = value["slave"])
=============================================================================
