-------------------------- MODULE RdProperty_proofs --------------------------
(***************************************************************************)
(* Proofs about RdProperty, for all values and any number of changes: the  *)
(* ends agree whenever nothing is on its way, versions never go back, and  *)
(* the master is not overruled.                                            *)
(*                                                                         *)
(* The inductive invariant follows what is on its way.  To the slave come  *)
(* exactly the changes of the master that it has not seen, the newest one  *)
(* carrying the master's value.  To the master come changes that know at   *)
(* most what the slave has seen, in the order of that knowledge; only when *)
(* the slave has seen all can the newest of them be accepted, and then it  *)
(* carries the slave's value.                                              *)
(***************************************************************************)
EXTENDS RdProperty, SequenceTheorems, TLAPS

ToMaster == inbox["master"]
ToSlave  == inbox["slave"]
Newest(s) == s[Len(s)]

Lag ==
    /\ master_version["slave"] + Len(ToSlave) = master_version["master"]
    /\ \A i \in 1 .. Len(ToSlave) : ToSlave[i].version = master_version["slave"] + i

Knowledge ==
    /\ \A i \in 1 .. Len(ToMaster) : ToMaster[i].version <= master_version["slave"]
    /\ \A i, j \in 1 .. Len(ToMaster) :
          i <= j => ToMaster[i].version <= ToMaster[j].version

Unseen == ToSlave # <<>> => Newest(ToSlave).value = value["master"]

Accepted == ToMaster # <<>> /\ Newest(ToMaster).version = master_version["master"]

Agreement ==
    ToSlave = <<>> =>
        /\ Accepted => Newest(ToMaster).value = value["slave"]
        /\ ~Accepted => value["slave"] = value["master"]

IInv == TypeOK /\ Lag /\ Knowledge /\ Unseen /\ Agreement

-----------------------------------------------------------------------------
\* Nothing is on its way, and the ends agree.
LEMMA InitIInv == Init => IInv
<1> SUFFICES ASSUME Init PROVE IInv
  OBVIOUS
<1>1. PICK v \in Values \cup {NoValue} : value = [e \in Ends |-> v]
  BY DEF Init
<1>2. /\ value["master"] = v /\ value["slave"] = v
      /\ ToMaster = <<>> /\ ToSlave = <<>>
      /\ master_version["master"] = 0 /\ master_version["slave"] = 0
  BY <1>1 DEF Init, Ends, ToMaster, ToSlave
<1>3. TypeOK
  BY <1>1, RdPropertyAssumption, EmptySeq, SMT DEF Init, TypeOK
<1>4. Lag /\ Knowledge
  BY <1>2, EmptySeq, SMT DEF Lag, Knowledge
<1> QED BY <1>2, <1>3, <1>4 DEF IInv, Unseen, Agreement, Accepted

\* The state as the invariant sees it.
LEMMA Types ==
    ASSUME TypeOK
    PROVE  /\ ToMaster \in Seq(Changes) /\ ToSlave \in Seq(Changes)
           /\ Len(ToMaster) \in Nat /\ Len(ToSlave) \in Nat
           /\ master_version["master"] \in Nat /\ master_version["slave"] \in Nat
           /\ value["master"] \in Values \cup {NoValue}
           /\ value["slave"] \in Values \cup {NoValue}
<1>1. ToMaster \in Seq(Changes) /\ ToSlave \in Seq(Changes)
  BY DEF TypeOK, Ends, ToMaster, ToSlave
<1> QED BY <1>1, LenProperties DEF TypeOK, Ends

\* What a step does to the two directions: the master sends, ...
LEMMA SetMaster ==
    ASSUME TypeOK, NEW v \in Values, Set("master", v)
    PROVE  /\ ToSlave' = Append(ToSlave, Change(master_version["master"] + 1, v))
           /\ ToMaster' = ToMaster
           /\ master_version'["master"] = master_version["master"] + 1
           /\ master_version'["slave"] = master_version["slave"]
           /\ value'["master"] = v /\ value'["slave"] = value["slave"]
           /\ TypeOK'
<1>1. Other("master") = "slave" /\ is_master("master")
  BY DEF Other, is_master
<1>2. /\ master_version' = [master_version EXCEPT !["master"] = @ + 1]
      /\ value' = [value EXCEPT !["master"] = v]
      /\ inbox' = [inbox EXCEPT !["slave"] = Append(@, Change(master_version'["master"], v))]
  BY <1>1 DEF Set
<1>3. /\ master_version'["master"] = master_version["master"] + 1
      /\ master_version'["slave"] = master_version["slave"]
      /\ value'["master"] = v /\ value'["slave"] = value["slave"]
      /\ master_version' \in [Ends -> Nat] /\ value' \in [Ends -> Values \cup {NoValue}]
  BY <1>2 DEF TypeOK, Ends
<1>4. ToSlave' = Append(ToSlave, Change(master_version["master"] + 1, v))
      /\ ToMaster' = ToMaster
  BY <1>2, <1>3 DEF TypeOK, Ends, ToMaster, ToSlave
<1>5. Change(master_version["master"] + 1, v) \in Changes
  BY Types DEF Change, Changes
<1>6. ToSlave' \in Seq(Changes)
  BY <1>4, <1>5, Types, AppendProperties
<1>7. inbox' \in [Ends -> Seq(Changes)]
  BY <1>2, <1>6 DEF TypeOK, Ends, ToSlave
<1>8. sets' \in 0 .. MaxSets
  BY RdPropertyAssumption, SMT DEF TypeOK, Set
<1> QED BY <1>3, <1>4, <1>7, <1>8 DEF TypeOK

\* ... the slave sends, ...
LEMMA SetSlave ==
    ASSUME TypeOK, NEW v \in Values, Set("slave", v)
    PROVE  /\ ToMaster' = Append(ToMaster, Change(master_version["slave"], v))
           /\ ToSlave' = ToSlave
           /\ master_version' = master_version
           /\ value'["slave"] = v /\ value'["master"] = value["master"]
           /\ TypeOK'
<1>1. Other("slave") = "master" /\ ~is_master("slave")
  BY DEF Other, is_master
<1>2. /\ master_version' = [master_version EXCEPT !["slave"] = @]
      /\ value' = [value EXCEPT !["slave"] = v]
      /\ inbox' = [inbox EXCEPT !["master"] = Append(@, Change(master_version'["slave"], v))]
  BY <1>1 DEF Set
<1>3. /\ master_version' = master_version
      /\ value'["slave"] = v /\ value'["master"] = value["master"]
      /\ value' \in [Ends -> Values \cup {NoValue}]
  BY <1>2 DEF TypeOK, Ends
<1>4. ToMaster' = Append(ToMaster, Change(master_version["slave"], v))
      /\ ToSlave' = ToSlave
  BY <1>2, <1>3 DEF TypeOK, Ends, ToMaster, ToSlave
<1>5. Change(master_version["slave"], v) \in Changes
  BY Types DEF Change, Changes
<1>6. ToMaster' \in Seq(Changes)
  BY <1>4, <1>5, Types, AppendProperties
<1>7. inbox' \in [Ends -> Seq(Changes)]
  BY <1>2, <1>6 DEF TypeOK, Ends, ToMaster
<1>8. sets' \in 0 .. MaxSets
  BY RdPropertyAssumption, SMT DEF TypeOK, Set
<1> QED BY <1>3, <1>4, <1>7, <1>8 DEF TypeOK

\* ... the slave takes over what comes, ...
LEMMA ReceiveSlave ==
    ASSUME TypeOK, Receive("slave")
    PROVE  /\ ToSlave # <<>> /\ ToSlave' = Tail(ToSlave)
           /\ ToMaster' = ToMaster
           /\ master_version'["slave"] = Head(ToSlave).version
           /\ master_version'["master"] = master_version["master"]
           /\ value'["slave"] = Head(ToSlave).value
           /\ value'["master"] = value["master"]
           /\ TypeOK'
<1>1. ~Rejected("slave", Head(inbox["slave"]).version)
  BY DEF Rejected, is_master
<1>2. /\ inbox["slave"] # <<>>
      /\ inbox' = [inbox EXCEPT !["slave"] = Tail(@)]
      /\ master_version' = [master_version EXCEPT !["slave"] = Head(ToSlave).version]
      /\ value' = [value EXCEPT !["slave"] = Head(ToSlave).value]
      /\ sets' = sets
  BY <1>1 DEF Receive, ToSlave
<1>3. ToSlave # <<>> /\ ToSlave' = Tail(ToSlave) /\ ToMaster' = ToMaster
  BY <1>2 DEF TypeOK, Ends, ToMaster, ToSlave
<1>4. Head(ToSlave) \in Changes /\ Tail(ToSlave) \in Seq(Changes)
  BY <1>3, Types, HeadTailProperties
<1>5. Head(ToSlave).version \in Nat /\ Head(ToSlave).value \in Values
  BY <1>4 DEF Changes
<1>6. TypeOK'
  BY <1>2, <1>4, <1>5 DEF TypeOK, Ends, ToSlave
<1> QED BY <1>2, <1>3, <1>6 DEF TypeOK, Ends

\* ... and the master does so if the slave has seen all of its changes.
LEMMA ReceiveMaster ==
    ASSUME TypeOK, Receive("master")
    PROVE  /\ ToMaster # <<>> /\ ToMaster' = Tail(ToMaster)
           /\ ToSlave' = ToSlave
           /\ master_version'["slave"] = master_version["slave"]
           /\ value'["slave"] = value["slave"]
           /\ \/ /\ Head(ToMaster).version < master_version["master"]
                 /\ master_version'["master"] = master_version["master"]
                 /\ value'["master"] = value["master"]
              \/ /\ ~(Head(ToMaster).version < master_version["master"])
                 /\ master_version'["master"] = Head(ToMaster).version
                 /\ value'["master"] = Head(ToMaster).value
           /\ TypeOK'
<1>1. Rejected("master", Head(inbox["master"]).version)
         <=> Head(ToMaster).version < master_version["master"]
  BY DEF Rejected, is_master, ToMaster
<1>2. /\ inbox["master"] # <<>>
      /\ inbox' = [inbox EXCEPT !["master"] = Tail(@)]
      /\ sets' = sets
      /\ \/ /\ Head(ToMaster).version < master_version["master"]
            /\ master_version' = master_version /\ value' = value
         \/ /\ ~(Head(ToMaster).version < master_version["master"])
            /\ master_version' = [master_version EXCEPT !["master"] = Head(ToMaster).version]
            /\ value' = [value EXCEPT !["master"] = Head(ToMaster).value]
  BY <1>1 DEF Receive, ToMaster
<1>3. ToMaster # <<>> /\ ToMaster' = Tail(ToMaster) /\ ToSlave' = ToSlave
  BY <1>2 DEF TypeOK, Ends, ToMaster, ToSlave
<1>4. Head(ToMaster) \in Changes /\ Tail(ToMaster) \in Seq(Changes)
  BY <1>3, Types, HeadTailProperties
<1>5. Head(ToMaster).version \in Nat /\ Head(ToMaster).value \in Values
  BY <1>4 DEF Changes
<1>6. TypeOK'
  BY <1>2, <1>4, <1>5 DEF TypeOK, Ends, ToMaster
<1> QED BY <1>2, <1>3, <1>6 DEF TypeOK, Ends

-----------------------------------------------------------------------------
\* The newest change to the slave has the value of the master.
LEMMA SetMasterInv == ASSUME IInv, NEW v \in Values, Set("master", v) PROVE IInv'
<1> DEFINE c == Change(master_version["master"] + 1, v)
<1>1. TypeOK
  BY DEF IInv
<1>2. /\ ToSlave' = Append(ToSlave, c)
      /\ ToMaster' = ToMaster
      /\ master_version'["master"] = master_version["master"] + 1
      /\ master_version'["slave"] = master_version["slave"]
      /\ value'["master"] = v /\ value'["slave"] = value["slave"]
      /\ TypeOK'
  BY <1>1, SetMaster
<1>3. /\ Len(ToSlave) \in Nat /\ ToSlave \in Seq(Changes)
      /\ master_version["master"] \in Nat /\ master_version["slave"] \in Nat
  BY <1>1, Types
<1>4. c \in Changes /\ c.version = master_version["master"] + 1 /\ c.value = v
  BY <1>3 DEF Change, Changes
<1> HIDE DEF c
<1>5. /\ Len(ToSlave') = Len(ToSlave) + 1
      /\ ToSlave'[Len(ToSlave) + 1] = c
      /\ \A i \in 1 .. Len(ToSlave) : ToSlave'[i] = ToSlave[i]
  BY <1>2, <1>3, <1>4, AppendProperties
<1>2s. /\ master_version'["master"] = master_version["master"] + 1
       /\ master_version'["slave"] = master_version["slave"]
  BY <1>2
<1>5s. Len(ToSlave') = Len(ToSlave) + 1
  BY <1>5
<1>6. Lag'
  <2>0. master_version["slave"] + Len(ToSlave) = master_version["master"]
    BY DEF IInv, Lag
  <2>1. \A i \in 1 .. Len(ToSlave) : ToSlave[i].version = master_version["slave"] + i
    BY DEF IInv, Lag
  <2>2. ASSUME NEW i \in 1 .. Len(ToSlave')
        PROVE  ToSlave'[i].version = master_version'["slave"] + i
    <3>1. CASE i \in 1 .. Len(ToSlave)
      BY <1>2, <1>5, <2>1, <3>1
    <3>2. CASE i = Len(ToSlave) + 1
      <4>1. ToSlave'[i].version = master_version["master"] + 1
        BY <1>4, <1>5, <3>2
      <4>2. i + master_version["slave"] = master_version["master"] + 1
        BY <1>3, <2>0, <3>2, SMT
      <4>3. master_version'["slave"] + i = i + master_version["slave"]
        BY <1>3, <1>2s, <3>2, SMT
      <4> QED BY <4>1, <4>2, <4>3
    <3> QED BY <1>3, <1>5, <3>1, <3>2, SMT
  <2>3. master_version'["slave"] + Len(ToSlave') = master_version'["master"]
    BY <1>2s, <1>3, <1>5s, <2>0, SMT
  <2> QED BY <2>2, <2>3 DEF Lag
<1>7. Knowledge'
  BY <1>2 DEF IInv, Knowledge
<1>8. Unseen' /\ Agreement'
  <2>1. ToSlave' # <<>> /\ Newest(ToSlave)' = c
    BY <1>2, <1>3, <1>5, EmptySeq, SMT DEF Newest
  <2> QED BY <1>2, <1>4, <2>1 DEF Unseen, Agreement
<1> QED BY <1>2, <1>6, <1>7, <1>8 DEF IInv

\* What reading the head leaves on its way.
LEMMA Rest ==
    ASSUME NEW s \in Seq(Changes), s # <<>>
    PROVE  /\ Len(s) \in Nat /\ Len(s) >= 1
           /\ Len(Tail(s)) = Len(s) - 1
           /\ \A i \in 1 .. Len(Tail(s)) : Tail(s)[i] = s[i + 1]
           /\ Head(s) = s[1]
           /\ Tail(s) # <<>> => Newest(Tail(s)) = Newest(s)
           /\ Tail(s) = <<>> => Newest(s) = Head(s)
<1>1. /\ Len(s) \in Nat /\ Len(s) # 0
      /\ Len(Tail(s)) = Len(s) - 1
      /\ \A i \in 1 .. Len(Tail(s)) : Tail(s)[i] = s[i + 1]
      /\ Tail(s) \in Seq(Changes) /\ Head(s) = s[1]
  BY HeadTailProperties, LenProperties, EmptySeq
<1>2. ASSUME Tail(s) # <<>> PROVE Newest(Tail(s)) = Newest(s)
  <2>1. Len(Tail(s)) \in 1 .. Len(Tail(s))
    BY <1>1, <1>2, EmptySeq, LenProperties, SMT
  <2>2. Tail(s)[Len(Tail(s))] = s[Len(Tail(s)) + 1]
    BY <1>1, <2>1
  <2>3. Len(Tail(s)) + 1 = Len(s)
    BY <1>1, SMT
  <2> QED BY <2>2, <2>3 DEF Newest
<1>3. ASSUME Tail(s) = <<>> PROVE Newest(s) = Head(s)
  <2>1. Len(s) = 1
    BY <1>1, <1>3, EmptySeq, SMT
  <2> QED BY <1>1, <2>1 DEF Newest
<1> QED BY <1>1, <1>2, <1>3

\* Changes on their way to the master know at most what the slave has seen.
LEMMA VersionsToMaster ==
    ASSUME IInv
    PROVE  \A i \in 1 .. Len(ToMaster) :
              /\ ToMaster[i].version \in Nat
              /\ ToMaster[i].version <= master_version["slave"]
<1>1. ToMaster \in Seq(Changes)
  BY Types DEF IInv
<1>2. ASSUME NEW i \in 1 .. Len(ToMaster) PROVE ToMaster[i].version \in Nat
  <2>1. ToMaster[i] \in Changes
    BY <1>1, ElementOfSeq
  <2> QED BY <2>1 DEF Changes
<1> QED BY <1>2 DEF IInv, Knowledge

\* The newest change to the master has the value of the slave, and knows what the slave
\* has seen.
LEMMA SetSlaveInv == ASSUME IInv, NEW v \in Values, Set("slave", v) PROVE IInv'
<1> DEFINE c == Change(master_version["slave"], v)
<1>1. TypeOK
  BY DEF IInv
<1>2. /\ ToMaster' = Append(ToMaster, c)
      /\ ToSlave' = ToSlave /\ master_version' = master_version
      /\ value'["slave"] = v /\ value'["master"] = value["master"]
      /\ TypeOK'
  BY <1>1, SetSlave
<1>3. /\ Len(ToMaster) \in Nat /\ ToMaster \in Seq(Changes)
      /\ master_version["master"] \in Nat /\ master_version["slave"] \in Nat
  BY <1>1, Types
<1>4. c \in Changes /\ c.version = master_version["slave"] /\ c.value = v
  BY <1>3 DEF Change, Changes
<1> HIDE DEF c
<1>5. /\ Len(ToMaster') = Len(ToMaster) + 1
      /\ ToMaster'[Len(ToMaster) + 1] = c
      /\ \A i \in 1 .. Len(ToMaster) : ToMaster'[i] = ToMaster[i]
  BY <1>2, <1>3, <1>4, AppendProperties
<1>6. Lag' /\ Unseen'
  BY <1>2 DEF IInv, Lag, Unseen
<1>7. Newest(ToMaster)' = c /\ ToMaster' # <<>>
  <2>1. Newest(ToMaster)' = c
    BY <1>5 DEF Newest
  <2>2. ToMaster' # <<>>
    BY <1>3, <1>5, EmptySeq, SMT
  <2> QED BY <2>1, <2>2
<1>8. Knowledge'
  <2>1. \A i \in 1 .. Len(ToMaster) :
           /\ ToMaster[i].version \in Nat
           /\ ToMaster[i].version <= master_version["slave"]
    BY VersionsToMaster
  <2>2. \A i, j \in 1 .. Len(ToMaster) :
           i <= j => ToMaster[i].version <= ToMaster[j].version
    BY DEF IInv, Knowledge
  <2>3. ASSUME NEW i \in 1 .. Len(ToMaster')
        PROVE  \/ i \in 1 .. Len(ToMaster) /\ ToMaster'[i] = ToMaster[i]
               \/ i = Len(ToMaster) + 1 /\ ToMaster'[i].version = master_version["slave"]
    <3>1. CASE i \in 1 .. Len(ToMaster)
      BY <1>5, <3>1
    <3>2. CASE i = Len(ToMaster) + 1
      BY <1>4, <1>5, <3>2
    <3> QED BY <1>3, <1>5, <3>1, <3>2, SMT
  <2>4. ASSUME NEW i \in 1 .. Len(ToMaster')
        PROVE  ToMaster'[i].version <= master_version["slave"]
    BY <1>3, <2>1, <2>3
  <2>5. ASSUME NEW i \in 1 .. Len(ToMaster'), NEW j \in 1 .. Len(ToMaster'), i <= j
        PROVE  ToMaster'[i].version <= ToMaster'[j].version
    <3>1. CASE j = Len(ToMaster) + 1 /\ ToMaster'[j].version = master_version["slave"]
      BY <2>4, <3>1
    <3>2. CASE j \in 1 .. Len(ToMaster) /\ ToMaster'[j] = ToMaster[j]
      <4>1. i \in 1 .. Len(ToMaster) /\ i # Len(ToMaster) + 1
        BY <1>3, <1>5, <2>5, <3>2, SMT
      <4>2. ToMaster'[i] = ToMaster[i]
        BY <2>3, <4>1
      <4> QED BY <2>2, <2>5, <3>2, <4>1, <4>2
    <3> QED BY <2>3, <3>1, <3>2
  <2> QED BY <1>2, <2>4, <2>5 DEF Knowledge
<1>9. Agreement'
  <2>1. ToSlave = <<>> => master_version["slave"] = master_version["master"]
    BY <1>3, EmptySeq, SMT DEF IInv, Lag
  <2> QED BY <1>2, <1>4, <1>7, <2>1 DEF Agreement, Accepted
<1> QED BY <1>2, <1>6, <1>8, <1>9 DEF IInv

\* What the slave sees is the next of the master's changes.
LEMMA ReceiveSlaveInv == ASSUME IInv, Receive("slave") PROVE IInv'
<1>1. TypeOK
  BY DEF IInv
<1>2. /\ ToSlave # <<>> /\ ToSlave' = Tail(ToSlave) /\ ToMaster' = ToMaster
      /\ master_version'["slave"] = Head(ToSlave).version
      /\ master_version'["master"] = master_version["master"]
      /\ value'["slave"] = Head(ToSlave).value
      /\ value'["master"] = value["master"]
      /\ TypeOK'
  BY <1>1, ReceiveSlave
<1>3. /\ Len(ToSlave) \in Nat /\ ToSlave \in Seq(Changes) /\ ToMaster \in Seq(Changes)
      /\ master_version["master"] \in Nat /\ master_version["slave"] \in Nat
  BY <1>1, Types
<1>4. /\ Len(ToSlave) >= 1
      /\ Len(Tail(ToSlave)) = Len(ToSlave) - 1
      /\ \A i \in 1 .. Len(Tail(ToSlave)) : Tail(ToSlave)[i] = ToSlave[i + 1]
      /\ Head(ToSlave) = ToSlave[1]
      /\ Tail(ToSlave) # <<>> => Newest(Tail(ToSlave)) = Newest(ToSlave)
      /\ Tail(ToSlave) = <<>> => Newest(ToSlave) = Head(ToSlave)
  BY <1>2, <1>3, Rest
<1>5. master_version["slave"] + Len(ToSlave) = master_version["master"]
  BY DEF IInv, Lag
<1>6. \A i \in 1 .. Len(ToSlave) : ToSlave[i].version = master_version["slave"] + i
  BY DEF IInv, Lag
<1>7. master_version'["slave"] = master_version["slave"] + 1
  <2>1. 1 \in 1 .. Len(ToSlave)
    BY <1>3, <1>4, SMT
  <2> QED BY <1>2, <1>4, <1>6, <2>1
<1>8. Lag'
  <2>1. ASSUME NEW i \in 1 .. Len(Tail(ToSlave))
        PROVE  Tail(ToSlave)[i].version = master_version'["slave"] + i
    <3>1. i + 1 \in 1 .. Len(ToSlave)
      BY <1>3, <1>4, SMT
    <3>2. Tail(ToSlave)[i].version = master_version["slave"] + (i + 1)
      BY <1>4, <1>6, <3>1
    <3>3. master_version["slave"] + (i + 1) = (master_version["slave"] + 1) + i
      BY <1>3, SMT
    <3> QED BY <1>7, <3>2, <3>3
  <2>2. master_version'["slave"] + Len(Tail(ToSlave)) = master_version["master"]
    BY <1>3, <1>4, <1>5, <1>7, SMT
  <2> QED BY <1>2, <2>1, <2>2 DEF Lag
<1>9. \A i \in 1 .. Len(ToMaster) :
         /\ ToMaster[i].version \in Nat
         /\ ToMaster[i].version <= master_version["slave"]
  BY VersionsToMaster
<1>10. Knowledge'
  <2>1. ASSUME NEW i \in 1 .. Len(ToMaster)
        PROVE  ToMaster[i].version <= master_version'["slave"]
    BY <1>3, <1>7, <1>9, SMT
  <2>2. \A i, j \in 1 .. Len(ToMaster) :
           i <= j => ToMaster[i].version <= ToMaster[j].version
    BY DEF IInv, Knowledge
  <2> QED BY <1>2, <2>1, <2>2 DEF Knowledge
<1>11. Newest(ToSlave).value = value["master"]
  BY <1>2 DEF IInv, Unseen
<1>12. Unseen'
  BY <1>2, <1>4, <1>11 DEF Unseen
<1>13. Agreement'
  <2>1. ToMaster # <<>> => Newest(ToMaster).version # master_version["master"]
    <3> SUFFICES ASSUME ToMaster # <<>>
                 PROVE  Newest(ToMaster).version # master_version["master"]
      OBVIOUS
    <3>1. Len(ToMaster) \in 1 .. Len(ToMaster)
      BY <1>3, EmptySeq, LenProperties, SMT
    <3>2. /\ Newest(ToMaster).version \in Nat
          /\ Newest(ToMaster).version <= master_version["slave"]
      BY <1>9, <3>1 DEF Newest
    <3> QED BY <1>3, <1>4, <1>5, <3>2, SMT
  <2>2. ~Accepted'
    BY <1>2, <2>1 DEF Accepted
  <2>3. ToSlave' = <<>> => value'["slave"] = value'["master"]
    BY <1>2, <1>4, <1>11
  <2> QED BY <2>2, <2>3 DEF Agreement
<1> QED BY <1>2, <1>8, <1>10, <1>12, <1>13 DEF IInv


\* What the master accepts is decided by what the slave had seen.
LEMMA ReceiveMasterInv == ASSUME IInv, Receive("master") PROVE IInv'
<1>1. TypeOK
  BY DEF IInv
<1>2. /\ ToMaster # <<>> /\ ToMaster' = Tail(ToMaster) /\ ToSlave' = ToSlave
      /\ master_version'["slave"] = master_version["slave"]
      /\ value'["slave"] = value["slave"]
      /\ TypeOK'
  BY <1>1, ReceiveMaster
<1>3. /\ Len(ToMaster) \in Nat /\ ToMaster \in Seq(Changes)
      /\ Len(ToSlave) \in Nat /\ ToSlave \in Seq(Changes)
      /\ master_version["master"] \in Nat /\ master_version["slave"] \in Nat
  BY <1>1, Types
<1>4. /\ Len(ToMaster) >= 1
      /\ Len(Tail(ToMaster)) = Len(ToMaster) - 1
      /\ \A i \in 1 .. Len(Tail(ToMaster)) : Tail(ToMaster)[i] = ToMaster[i + 1]
      /\ Head(ToMaster) = ToMaster[1]
      /\ Tail(ToMaster) # <<>> => Newest(Tail(ToMaster)) = Newest(ToMaster)
      /\ Tail(ToMaster) = <<>> => Newest(ToMaster) = Head(ToMaster)
  BY <1>2, <1>3, Rest
<1>5. master_version["slave"] + Len(ToSlave) = master_version["master"]
  BY DEF IInv, Lag
<1>6. \A i \in 1 .. Len(ToMaster) :
         /\ ToMaster[i].version \in Nat
         /\ ToMaster[i].version <= master_version["slave"]
  BY VersionsToMaster
<1>7. \A i, j \in 1 .. Len(ToMaster) :
         i <= j => ToMaster[i].version <= ToMaster[j].version
  BY DEF IInv, Knowledge
<1>8. 1 \in 1 .. Len(ToMaster) /\ Len(ToMaster) \in 1 .. Len(ToMaster)
  BY <1>3, <1>4, SMT
<1>9. /\ Head(ToMaster).version \in Nat /\ Newest(ToMaster).version \in Nat
      /\ Head(ToMaster).version <= Newest(ToMaster).version
      /\ Newest(ToMaster).version <= master_version["slave"]
  <2>1. 1 <= Len(ToMaster)
    BY <1>3, <1>4, SMT
  <2> QED BY <1>4, <1>6, <1>7, <1>8, <2>1 DEF Newest
<1>10. Knowledge'
  <2>1. ASSUME NEW i \in 1 .. Len(Tail(ToMaster))
        PROVE  i + 1 \in 1 .. Len(ToMaster) /\ Tail(ToMaster)[i] = ToMaster[i + 1]
    BY <1>3, <1>4, SMT
  <2>2. \A i \in 1 .. Len(Tail(ToMaster)) :
           Tail(ToMaster)[i].version <= master_version["slave"]
    BY <1>6, <2>1
  <2>3. ASSUME NEW i \in 1 .. Len(Tail(ToMaster)), NEW j \in 1 .. Len(Tail(ToMaster)),
               i <= j
        PROVE  Tail(ToMaster)[i].version <= Tail(ToMaster)[j].version
    <3>1. i + 1 <= j + 1
      BY <2>3, SMT
    <3> QED BY <1>7, <2>1, <3>1
  <2> QED BY <1>2, <2>2, <2>3 DEF Knowledge
<1>11. CASE Head(ToMaster).version < master_version["master"]
  <2>1. master_version'["master"] = master_version["master"] /\ value'["master"] = value["master"]
    BY <1>1, <1>11, ReceiveMaster
  <2>2. Lag' /\ Unseen'
    BY <1>2, <2>1 DEF IInv, Lag, Unseen
  <2>3. Agreement'
    <3>1. Tail(ToMaster) # <<>> => (Accepted' <=> Accepted)
      BY <1>2, <1>4, <2>1 DEF Accepted
    <3>2. Tail(ToMaster) = <<>> => ~Accepted' /\ ~Accepted
      <4>1. Head(ToMaster).version # master_version["master"]
        BY <1>3, <1>9, <1>11, SMT
      <4> QED BY <1>2, <1>4, <4>1 DEF Accepted
    <3> QED BY <1>2, <1>4, <2>1, <3>1, <3>2 DEF IInv, Agreement
  <2> QED BY <1>2, <1>10, <2>2, <2>3 DEF IInv
<1>12. CASE ~(Head(ToMaster).version < master_version["master"])
  <2>1. /\ master_version'["master"] = Head(ToMaster).version
        /\ value'["master"] = Head(ToMaster).value
    BY <1>1, <1>12, ReceiveMaster
  <2>2. /\ Head(ToMaster).version = master_version["master"]
        /\ Newest(ToMaster).version = master_version["master"]
        /\ Len(ToSlave) = 0
    BY <1>3, <1>5, <1>9, <1>12, SMT
  <2>3. ToSlave = <<>>
    BY <1>3, <2>2, EmptySeq
  <2>4. Lag' /\ Unseen'
    BY <1>2, <2>1, <2>2, <2>3 DEF IInv, Lag, Unseen
  <2>5. Newest(ToMaster).value = value["slave"]
    BY <1>2, <2>2, <2>3 DEF IInv, Agreement, Accepted
  <2>6. Agreement'
    <3>1. CASE Tail(ToMaster) # <<>>
      BY <1>2, <1>4, <2>1, <2>2, <2>5, <3>1 DEF Agreement, Accepted
    <3>2. CASE Tail(ToMaster) = <<>>
      BY <1>2, <1>4, <2>1, <2>5, <3>2 DEF Agreement, Accepted
    <3> QED BY <3>1, <3>2
  <2> QED BY <1>2, <1>10, <2>4, <2>6 DEF IInv
<1> QED BY <1>11, <1>12

\* Every step keeps the invariant.
LEMMA StepIInv == IInv /\ [Next]_vars => IInv'
<1> SUFFICES ASSUME IInv, [Next]_vars PROVE IInv'
  OBVIOUS
<1>1. ASSUME NEW e \in Ends, Receive(e) PROVE IInv'
  BY <1>1, ReceiveSlaveInv, ReceiveMasterInv DEF Ends
<1>2. ASSUME NEW e \in Ends, NEW v \in Values, Set(e, v) PROVE IInv'
  BY <1>2, SetMasterInv, SetSlaveInv DEF Ends
<1>3. CASE UNCHANGED vars
  BY <1>3 DEF vars, IInv, TypeOK, Lag, Knowledge, Unseen, Agreement, Accepted,
              ToMaster, ToSlave, Newest
<1> QED BY <1>1, <1>2, <1>3 DEF Next

-----------------------------------------------------------------------------
\* What is on its way and what the ends hold fit together in every state.
THEOREM PropertyInvariance == Spec => []IInv
<1> QED BY InitIInv, StepIInv, PTL DEF Spec

\* Every variable keeps its type.
THEOREM PropertyTypes == Spec => []TypeOK
<1>1. IInv => TypeOK
  BY DEF IInv
<1> QED BY PropertyInvariance, <1>1, PTL

\* The ends agree whenever no change is on its way, whatever was set at both
\* ends at the same time (RdPropertyBase.h, init and on_wire_received).
THEOREM EndsConverge == Spec => []Convergence
<1>1. IInv => Convergence
  BY DEF IInv, Agreement, Accepted, Convergence, ToMaster, ToSlave
<1> QED BY PropertyInvariance, <1>1, PTL

\* The version check of on_wire_received protects the changes of the master: it
\* gives way to a change of the slave only when the slave has seen all of its own.
THEOREM MasterPrevails == Spec => MasterIsNotOverruled
<1> DEFINE A == Receive("master") /\ value'["master"] # value["master"]
                   => inbox["slave"] = <<>>
<1>1. IInv => A
  <2> SUFFICES ASSUME IInv, Receive("master"), value'["master"] # value["master"]
               PROVE  inbox["slave"] = <<>>
    OBVIOUS
  <2>1. TypeOK
    BY DEF IInv
  <2>2. /\ ToMaster # <<>>
        /\ ~(Head(ToMaster).version < master_version["master"])
    BY <2>1, ReceiveMaster
  <2>3. /\ Len(ToMaster) \in Nat /\ ToMaster \in Seq(Changes)
        /\ Len(ToSlave) \in Nat /\ ToSlave \in Seq(Changes)
        /\ master_version["master"] \in Nat /\ master_version["slave"] \in Nat
    BY <2>1, Types
  <2>4. Len(ToMaster) >= 1 /\ Head(ToMaster) = ToMaster[1]
    BY <2>2, <2>3, Rest
  <2>5. 1 \in 1 .. Len(ToMaster)
    BY <2>3, <2>4, SMT
  <2>6. Head(ToMaster).version \in Nat /\ Head(ToMaster).version <= master_version["slave"]
    BY <2>4, <2>5, VersionsToMaster
  <2>7. master_version["slave"] + Len(ToSlave) = master_version["master"]
    BY DEF IInv, Lag
  <2>8. Len(ToSlave) = 0
    BY <2>2, <2>3, <2>6, <2>7, SMT
  <2> QED BY <2>3, <2>8, EmptySeq DEF ToSlave
<1>2. [A]_vars => [Receive("master") /\ value'["master"] # value["master"]
                     => inbox["slave"] = <<>>]_vars
  OBVIOUS
<1>3. IInv /\ [Next]_vars => [A]_vars
  BY <1>1
<1> HIDE DEF A
<1> QED BY PropertyInvariance, <1>2, <1>3, PTL DEF Spec, MasterIsNotOverruled

\* No end goes back to a version it has left (on_wire_received stores the
\* version of every change it accepts).
THEOREM VersionsNeverShrink == Spec => VersionsGrow
<1> DEFINE A == \A e \in Ends : master_version'[e] >= master_version[e]
<1>1. IInv /\ [Next]_vars => [A]_vars
  <2> SUFFICES ASSUME IInv, Next PROVE A
    OBVIOUS
  <2>1. TypeOK
    BY DEF IInv
  <2>2. master_version["master"] \in Nat /\ master_version["slave"] \in Nat
    BY <2>1, Types
  <2>3. SUFFICES /\ master_version'["master"] >= master_version["master"]
                 /\ master_version'["slave"] >= master_version["slave"]
    BY DEF Ends
  <2>4. ASSUME NEW v \in Values, Set("master", v)
        PROVE  /\ master_version'["master"] >= master_version["master"]
               /\ master_version'["slave"] >= master_version["slave"]
    <3>1. /\ master_version'["master"] = master_version["master"] + 1
          /\ master_version'["slave"] = master_version["slave"]
      BY <2>1, <2>4, SetMaster
    <3> QED BY <2>2, <3>1, SMT
  <2>5. ASSUME NEW v \in Values, Set("slave", v)
        PROVE  /\ master_version'["master"] >= master_version["master"]
               /\ master_version'["slave"] >= master_version["slave"]
    <3>1. master_version' = master_version
      BY <2>1, <2>5, SetSlave
    <3> QED BY <2>2, <3>1, SMT
  <2>6. ASSUME Receive("slave")
        PROVE  /\ master_version'["master"] >= master_version["master"]
               /\ master_version'["slave"] >= master_version["slave"]
    <3>1. /\ ToSlave # <<>>
          /\ master_version'["slave"] = Head(ToSlave).version
          /\ master_version'["master"] = master_version["master"]
      BY <2>1, <2>6, ReceiveSlave
    <3>2. Len(ToSlave) \in Nat /\ Len(ToSlave) >= 1 /\ Head(ToSlave) = ToSlave[1]
      BY <2>1, <3>1, Types, Rest
    <3>3. 1 \in 1 .. Len(ToSlave)
      BY <3>2, SMT
    <3>4. Head(ToSlave).version = master_version["slave"] + 1
      BY <3>2, <3>3 DEF IInv, Lag
    <3> QED BY <2>2, <3>1, <3>4, SMT
  <2>7. ASSUME Receive("master")
        PROVE  /\ master_version'["master"] >= master_version["master"]
               /\ master_version'["slave"] >= master_version["slave"]
    <3>1. /\ ToMaster # <<>>
          /\ master_version'["slave"] = master_version["slave"]
          /\ \/ master_version'["master"] = master_version["master"]
             \/ /\ ~(Head(ToMaster).version < master_version["master"])
                /\ master_version'["master"] = Head(ToMaster).version
      BY <2>1, <2>7, ReceiveMaster
    <3>2. Len(ToMaster) \in Nat /\ Len(ToMaster) >= 1 /\ Head(ToMaster) = ToMaster[1]
      BY <2>1, <3>1, Types, Rest
    <3>3. 1 \in 1 .. Len(ToMaster)
      BY <3>2, SMT
    <3>4. Head(ToMaster).version \in Nat
      BY <3>2, <3>3, VersionsToMaster
    <3> QED BY <2>2, <3>1, <3>4, SMT
  <2> QED BY <2>4, <2>5, <2>6, <2>7 DEF Next, Ends
<1> HIDE DEF A
<1>2. [A]_vars => [\A e \in Ends : master_version'[e] >= master_version[e]]_vars
  BY DEF A
<1> QED BY PropertyInvariance, <1>1, <1>2, PTL DEF Spec, VersionsGrow
=============================================================================
