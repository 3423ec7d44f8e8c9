------------------------------- MODULE RdMap -------------------------------
(***************************************************************************)
(* An RdMap (rd_framework impl/RdMap.h, rd_core reactive/ViewableMap.h)    *)
(* with its counterpart at the other end of a wire that delivers in order. *)
(* The end with is_master numbers its changes, remembers in pendingForAck  *)
(* which keys wait for the acknowledgement of one, and meanwhile rejects   *)
(* changes of these keys by the other end.                                 *)
(*                                                                         *)
(* pendingForAck is keyed by pointers to keys.  The pointer of a removal   *)
(* is to the argument of the call, other pointers are to the key kept in   *)
(* the map: once a removal has returned, the entries of its key are dead,  *)
(* and whether a lookup that compares with a dead one finds it is open.    *)
(***************************************************************************)
EXTENDS Integers, SequencesExt

CONSTANTS Keys,        \* those in use, finitely many
          Values,
          NoValue,     \* of a key that is not in the map
          MaxChanges   \* bound: how many changes are made

ASSUME RdMapAssumption ==
    NoValue \notin Values /\ MaxChanges \in Nat /\ IsFiniteSet(Keys)

VARIABLES
    map,            \* of each end
    next_version,   \* of the master: the other end does not use its own
    pendingForAck,  \* of the master
    inbox,          \* of each end: messages on the wire and in the broker
    changes

vars == <<map, next_version, pendingForAck, inbox, changes>>

Ends == {"master", "slave"}
Other(e) == IF e = "master" THEN "slave" ELSE "master"
is_master(e) == e = "master"

\* What travels.  ADD and UPDATE are treated alike; REMOVE carries no value.
Change(version, k, v) == [op |-> "change", version |-> version, key |-> k, value |-> v]
Ack(version, k)       == [op |-> "ACK", version |-> version, key |-> k, value |-> NoValue]

-----------------------------------------------------------------------------
(* Lookups in pendingForAck *)

Entry(k, version) == [key |-> k, version |-> version, dead |-> FALSE]

\* What a lookup of k may find.
Found(k) == {p \in pendingForAck : p.key = k}

\* It may find nothing unless an entry of k is alive.
MayMiss(k) == \A p \in Found(k) : p.dead

-----------------------------------------------------------------------------
\* init(), for a map that is empty: one that is not is sent entry by entry, numbered
\* and expected, just as if it were filled with set() after it.
Init ==
    /\ map = [e \in Ends |-> [k \in Keys |-> NoValue]]
    /\ next_version = 0
    /\ pendingForAck = {}
    /\ inbox = [e \in Ends |-> <<>>]
    /\ changes = 0

\* Mutant of Expect: no key waits.
ExpectNothing(ks, v) == UNCHANGED pendingForAck

\* pendingForAck.emplace for each change: an entry that it finds stays as it is.
Expect(ks, v) ==
    \E fresh \in SUBSET {k \in ToSet(ks) : MayMiss(k)} :
        /\ {k \in ToSet(ks) : Found(k) = {}} \subseteq fresh
        /\ LET new == {Entry(ks[i], next_version + i) : i \in {j \in DOMAIN ks : ks[j] \in fresh}}
           IN  pendingForAck' = {[p EXCEPT !.dead = @ \/ (v = NoValue /\ p.key \in ToSet(ks))] :
                                     p \in pendingForAck \cup new}

\* Mutant of Numbering: the first change has number 0.
NumberingFromZero(e, i) == IF is_master(e) THEN next_version + i - 1 ELSE 0

\* ++next_version, at the master.
Numbering(e, i) == IF is_master(e) THEN next_version + i ELSE 0

\* The keys of ks, one after the other, get the value v (none: are removed); the
\* listener of init sends each change.
Fire(e, ks, v) ==
    /\ changes + Len(ks) <= MaxChanges
    /\ changes' = changes + Len(ks)
    /\ map' = [map EXCEPT ![e] = [k \in Keys |-> IF k \in ToSet(ks) THEN v ELSE @[k]]]
    /\ inbox' = [inbox EXCEPT ![Other(e)] =
                    @ \o [i \in DOMAIN ks |-> Change(Numbering(e, i), ks[i], v)]]
    /\ IF is_master(e)
       THEN next_version' = next_version + Len(ks) /\ Expect(ks, v)
       ELSE UNCHANGED <<next_version, pendingForAck>>

\* set(): ViewableMap::set ignores a value that is there already.
Set(e, k, v) == map[e][k] # v /\ Fire(e, <<k>>, v)

\* remove(): nothing happens if the key is not there.
RemoveKey(e, k) == map[e][k] # NoValue /\ Fire(e, <<k>>, NoValue)

\* clear() removes the keys in the order in which they were added, which plays
\* no part elsewhere: any order.
Clear(e) ==
    LET present == {k \in Keys : map[e][k] # NoValue}
    IN  /\ present # {}
        /\ \E ks \in SetToSeqs(present) : Fire(e, ks, NoValue)

-----------------------------------------------------------------------------
(* on_wire_received() *)

\* Mutant of Accepts: nothing is rejected.
AcceptsAll(e, c) == TRUE

\* Accepts and Rejects are both possible when a lookup meets a dead entry.
Accepts(e, c) == c.version # 0 \/ ~is_master(e) \/ MayMiss(c.key)
Rejects(e, c) == c.version = 0 /\ is_master(e) /\ Found(c.key) # {}

\* Mutant of Reply: a change that makes no difference is not acknowledged.
ReplyIfChanged(e, c) == IF c.version # 0 /\ map[e][c.key] # c.value
                        THEN <<Ack(c.version, c.key)>> ELSE <<>>

Reply(e, c) == IF c.version # 0 THEN <<Ack(c.version, c.key)>> ELSE <<>>

ReceiveChange(e) ==
    /\ inbox[e] # <<>>
    /\ LET c == Head(inbox[e])
       IN  /\ c.op = "change"
           /\ \/ Accepts(e, c) /\ map' = [map EXCEPT ![e][c.key] = c.value]
              \/ Rejects(e, c) /\ UNCHANGED map
           /\ inbox' = [inbox EXCEPT ![e] = Tail(@), ![Other(e)] = @ \o Reply(e, c)]
    /\ UNCHANGED <<next_version, pendingForAck, changes>>

\* An acknowledgement of an older version than the pending one is dropped; one
\* of a newer version, or for a key that is not pending, is logged as an error.
ReceiveAck(e) ==
    /\ is_master(e)
    /\ inbox[e] # <<>>
    /\ LET a == Head(inbox[e])
       IN  /\ a.op = "ACK"
           /\ \/ MayMiss(a.key) /\ UNCHANGED pendingForAck
              \/ \E p \in Found(a.key) :
                    pendingForAck' = IF p.version = a.version THEN pendingForAck \ {p}
                                                              ELSE pendingForAck
    /\ inbox' = [inbox EXCEPT ![e] = Tail(@)]
    /\ UNCHANGED <<map, next_version, changes>>

Next == \E e \in Ends :
    \/ \E k \in Keys : RemoveKey(e, k) \/ \E v \in Values : Set(e, k, v)
    \/ Clear(e)
    \/ ReceiveChange(e)
    \/ ReceiveAck(e)

Spec == Init /\ [][Next]_vars

-----------------------------------------------------------------------------
Contents == Values \cup {NoValue}

Messages == [op : {"change", "ACK"}, version : Nat, key : Keys, value : Contents]

\* The master gets changes without a number and acknowledgements with one; the
\* other end gets numbered changes only.
TypeOK ==
    /\ map \in [Ends -> [Keys -> Contents]]
    /\ next_version \in Nat
    /\ pendingForAck \subseteq [key : Keys, version : Nat \ {0}, dead : BOOLEAN]
    /\ inbox \in [Ends -> Seq(Messages)]
    /\ \A i \in DOMAIN inbox["master"] :
          (inbox["master"][i].op = "ACK") <=> (inbox["master"][i].version # 0)
    /\ \A i \in DOMAIN inbox["slave"] :
          inbox["slave"][i].op = "change" /\ inbox["slave"][i].version # 0
    /\ changes \in 0 .. MaxChanges
=============================================================================
