--------------------------- MODULE RdMapMC_proofs ---------------------------
(***************************************************************************)
(* Proofs about RdMap, for all keys, values and any number of changes: the *)
(* ends agree on what the master changes patiently whenever nothing is on  *)
(* its way, the master is not overruled, and no key waits in vain.         *)
(*                                                                         *)
(* The inductive invariant follows the numbers.  A number is on its way to *)
(* the slave or back as an acknowledgement, in order; every key that waits *)
(* waits for one of them, and for a key that is changed patiently there is *)
(* at most one, the one it waits for.  Of the slave's changes those behind *)
(* the acknowledgement will be taken, and the last of them decides.        *)
(***************************************************************************)
EXTENDS RdMapMC, SequenceLemmas, FiniteSetTheorems

ToSlave  == inbox["slave"]
ToMaster == inbox["master"]

\* Numbers are given in order, come back in order, and none is on its way twice.
Numbered(S, M, n) ==
    /\ \A i \in 1 .. Len(S) : S[i].version <= n
    /\ \A i, j \in 1 .. Len(S) : i < j => S[i].version < S[j].version
    /\ \A i \in 1 .. Len(M) : M[i].version <= n
    /\ \A i, j \in 1 .. Len(M) :
          i < j /\ M[i].op = "ACK" /\ M[j].op = "ACK" => M[i].version < M[j].version
    /\ \A i \in 1 .. Len(M), j \in 1 .. Len(S) : M[i].op = "ACK" => M[i].version < S[j].version

\* The number that p waits for is on its way, there or back.
Comes(p, S, M) ==
    \/ \E i \in 1 .. Len(S) : S[i].key = p.key /\ S[i].version = p.version
    \/ \E i \in 1 .. Len(M) : M[i] = Ack(p.version, p.key)

WaitInv ==
    \A p \in pendingForAck : p.key \notin removed =>
        /\ ~p.dead
        /\ \A q \in pendingForAck : q.key = p.key => q = p
        /\ Comes(p, ToSlave, ToMaster)

\* The numbers of k that are on their way are what k waits for.
Awaited(k, P, S, M) ==
    /\ \A i \in 1 .. Len(S) : S[i].key = k => Entry(k, S[i].version) \in P
    /\ \A i \in 1 .. Len(M) : M[i].op = "ACK" /\ M[i].key = k => Entry(k, M[i].version) \in P

\* The i-th message is a change of k that the master will take over: the
\* acknowledgement of its own is not behind it.
Takes(k, M, i) ==
    /\ M[i].op = "change" /\ M[i].key = k
    /\ \A j \in 1 .. Len(M) : M[j].op = "ACK" /\ M[j].key = k => j < i

\* The master's x will be the slave's y, unless the master's own change decides,
\* which carries x.
Leads(k, S, M, x, y) ==
    /\ \A i \in 1 .. Len(S) : S[i].key = k => S[i].value = x
    /\ (\A i \in 1 .. Len(S) : S[i].key # k) =>
          \/ (\A i \in 1 .. Len(M) : ~Takes(k, M, i)) /\ x = y
          \/ \E i \in 1 .. Len(M) :
                /\ Takes(k, M, i) /\ M[i].value = y
                /\ \A j \in 1 .. Len(M) : Takes(k, M, j) => j <= i

PatientInv ==
    \A k \in Patient :
        /\ Awaited(k, pendingForAck, ToSlave, ToMaster)
        /\ Leads(k, ToSlave, ToMaster, map["master"][k], map["slave"][k])

RInv == TypeOK /\ Numbered(ToSlave, ToMaster, next_version) /\ WaitInv /\ PatientInv

-----------------------------------------------------------------------------
(* The state as the invariant sees it *)

AcksAreNumbered(M) == \A i \in 1 .. Len(M) : M[i].op = "ACK" <=> M[i].version # 0
ChangesAreNumbered(S) == \A i \in 1 .. Len(S) : S[i].op = "change" /\ S[i].version # 0
Pending == [key : Keys, version : Nat \ {0}, dead : BOOLEAN]

\* What is on its way.
LEMMA Types ==
    ASSUME TypeOK
    PROVE  /\ ToMaster \in Seq(Messages) /\ ToSlave \in Seq(Messages)
           /\ Len(ToMaster) \in Nat /\ Len(ToSlave) \in Nat
           /\ DOMAIN ToMaster = 1 .. Len(ToMaster) /\ DOMAIN ToSlave = 1 .. Len(ToSlave)
           /\ \A i \in 1 .. Len(ToMaster) : ToMaster[i] \in Messages
           /\ \A i \in 1 .. Len(ToSlave) : ToSlave[i] \in Messages
           /\ AcksAreNumbered(ToMaster) /\ ChangesAreNumbered(ToSlave)
           /\ next_version \in Nat
           /\ map["master"] \in [Keys -> Contents] /\ map["slave"] \in [Keys -> Contents]
           /\ pendingForAck \subseteq Pending
           /\ inbox = [e \in Ends |-> IF e = "master" THEN ToMaster ELSE ToSlave]
           /\ map = [e \in Ends |-> IF e = "master" THEN map["master"] ELSE map["slave"]]
<1>1. ToMaster \in Seq(Messages) /\ ToSlave \in Seq(Messages)
  BY DEF TypeOK, Ends, ToMaster, ToSlave
<1>2. /\ Len(ToMaster) \in Nat /\ Len(ToSlave) \in Nat
      /\ DOMAIN ToMaster = 1 .. Len(ToMaster) /\ DOMAIN ToSlave = 1 .. Len(ToSlave)
      /\ \A i \in 1 .. Len(ToMaster) : ToMaster[i] \in Messages
      /\ \A i \in 1 .. Len(ToSlave) : ToSlave[i] \in Messages
  BY <1>1, LenProperties, ElementOfSeq
<1>3. AcksAreNumbered(ToMaster) /\ ChangesAreNumbered(ToSlave)
  BY <1>2 DEF TypeOK, AcksAreNumbered, ChangesAreNumbered, ToMaster, ToSlave
<1>4. /\ map["master"] \in [Keys -> Contents] /\ map["slave"] \in [Keys -> Contents]
      /\ inbox = [e \in Ends |-> IF e = "master" THEN ToMaster ELSE ToSlave]
      /\ map = [e \in Ends |-> IF e = "master" THEN map["master"] ELSE map["slave"]]
  BY DEF TypeOK, Ends, ToMaster, ToSlave
<1> QED BY <1>1, <1>2, <1>3, <1>4 DEF TypeOK, Pending

\* What the types of the next state amount to.
LEMMA TypesNext ==
    ASSUME ToMaster' \in Seq(Messages), ToSlave' \in Seq(Messages),
           AcksAreNumbered(ToMaster'), ChangesAreNumbered(ToSlave'),
           inbox' = [e \in Ends |-> IF e = "master" THEN ToMaster' ELSE ToSlave'],
           next_version' \in Nat, map' \in [Ends -> [Keys -> Contents]],
           pendingForAck' \subseteq Pending, changes' \in 0 .. MaxChanges
    PROVE  TypeOK'
<1>1. inbox' \in [Ends -> Seq(Messages)]
  BY DEF Ends
<1>2. /\ \A i \in DOMAIN ToMaster' : (ToMaster'[i].op = "ACK") <=> (ToMaster'[i].version # 0)
      /\ \A i \in DOMAIN ToSlave' : ToSlave'[i].op = "change" /\ ToSlave'[i].version # 0
  BY LenProperties DEF AcksAreNumbered, ChangesAreNumbered
<1>3. inbox'["master"] = ToMaster' /\ inbox'["slave"] = ToSlave'
  BY DEF Ends
<1> QED BY <1>1, <1>2, <1>3 DEF TypeOK, Pending

-----------------------------------------------------------------------------
(* What the queues look like after each kind of step *)

\* What a message is.
LEMMA MessageTypes ==
    ASSUME NEW q \in Seq(Messages)
    PROVE  \A i \in 1 .. Len(q) : /\ q[i] \in Messages /\ q[i].op \in {"change", "ACK"}
                                  /\ q[i].version \in Nat /\ q[i].key \in Keys
                                  /\ q[i].value \in Contents
<1>1. \A i \in 1 .. Len(q) : q[i] \in Messages
  BY ElementOfSeq
<1> QED BY <1>1 DEF Messages

\* The master has numbered changes.
LEMMA NumberedFire ==
    ASSUME NEW S \in Seq(Messages), NEW M \in Seq(Messages), NEW n \in Nat, Numbered(S, M, n),
           NEW cs \in Seq(Messages), \A i \in 1 .. Len(cs) : cs[i].version = n + i
    PROVE  Numbered(S \o cs, M, n + Len(cs))
<1> DEFINE r == S \o cs
           k == n + Len(cs)
<1>0. r \in Seq(Messages) /\ Joined(S, cs, r)
  BY Joining
<1> HIDE DEF r
<1>1. /\ Len(S) \in Nat /\ Len(cs) \in Nat
      /\ \A i \in 1 .. Len(S) : r[i] = S[i]
      /\ \A j \in 1 .. Len(cs) : r[Len(S) + j] = cs[j]
      /\ \A i \in 1 .. Len(r) : i \in 1 .. Len(S) \/ \E j \in 1 .. Len(cs) : i = Len(S) + j
  BY <1>0 DEF Joined
<1>2. /\ \A i \in 1 .. Len(S) : S[i].version \in Nat
      /\ \A i \in 1 .. Len(M) : M[i].version \in Nat
  BY MessageTypes
<1>3. /\ \A i \in 1 .. Len(S) : S[i].version <= k /\ \A j \in 1 .. Len(cs) : S[i].version < n + j
      /\ \A i \in 1 .. Len(M) : M[i].version <= k /\ \A j \in 1 .. Len(cs) : M[i].version < n + j
      /\ \A j \in 1 .. Len(cs) : n + j <= k
  BY <1>1, <1>2, SMT DEF Numbered
<1> HIDE DEF k
<1>4. ASSUME NEW i \in 1 .. Len(r) PROVE r[i].version <= k
  <2>1. CASE i \in 1 .. Len(S)
    BY <1>1, <1>3, <2>1
  <2>2. ASSUME NEW j \in 1 .. Len(cs), i = Len(S) + j PROVE r[i].version <= k
    <3>1. r[i] = cs[j] /\ cs[j].version = n + j /\ n + j <= k
      BY <1>1, <1>3, <2>2
    <3> QED BY <3>1
  <2> QED BY <1>1, <2>1, <2>2
<1>5. ASSUME NEW i \in 1 .. Len(r), NEW j \in 1 .. Len(r), i < j
      PROVE  r[i].version < r[j].version
  <2>1. CASE j \in 1 .. Len(S)
    <3>1. i \in 1 .. Len(S)
      BY <1>1, <1>5, <2>1, SMT
    <3> QED BY <1>1, <1>5, <2>1, <3>1 DEF Numbered
  <2>2. ASSUME NEW l \in 1 .. Len(cs), j = Len(S) + l PROVE r[i].version < r[j].version
    <3>1. CASE i \in 1 .. Len(S)
      BY <1>1, <1>3, <2>2, <3>1
    <3>2. ASSUME NEW h \in 1 .. Len(cs), i = Len(S) + h PROVE r[i].version < r[j].version
      <4>1. n + h < n + l
        BY <1>1, <1>5, <2>2, <3>2, SMT
      <4> QED BY <1>1, <2>2, <3>2, <4>1
    <3> QED BY <1>1, <3>1, <3>2
  <2> QED BY <1>1, <2>1, <2>2
<1>6. ASSUME NEW i \in 1 .. Len(M), NEW j \in 1 .. Len(r), M[i].op = "ACK"
      PROVE  M[i].version < r[j].version
  <2>1. CASE j \in 1 .. Len(S)
    BY <1>1, <1>6, <2>1 DEF Numbered
  <2>2. ASSUME NEW l \in 1 .. Len(cs), j = Len(S) + l PROVE M[i].version < r[j].version
    <3>1. r[j] = cs[l] /\ cs[l].version = n + l /\ M[i].version < n + l
      BY <1>1, <1>3, <2>2
    <3> QED BY <3>1
  <2> QED BY <1>1, <2>1, <2>2
<1>7. Numbered(r, M, k)
  BY <1>3, <1>4, <1>5, <1>6 DEF Numbered
<1> QED BY <1>7 DEF r, k

\* The slave has sent changes.
LEMMA NumberedSend ==
    ASSUME NEW S \in Seq(Messages), NEW M \in Seq(Messages), NEW n \in Nat, Numbered(S, M, n),
           NEW cs \in Seq(Messages), \A i \in 1 .. Len(cs) : cs[i].version = 0 /\ cs[i].op = "change"
    PROVE  Numbered(S, M \o cs, n)
<1> DEFINE r == M \o cs
<1>0. r \in Seq(Messages) /\ Joined(M, cs, r)
  BY Joining
<1> HIDE DEF r
<1>1. /\ Len(M) \in Nat /\ Len(cs) \in Nat
      /\ \A i \in 1 .. Len(M) : r[i] = M[i]
      /\ \A j \in 1 .. Len(cs) : r[Len(M) + j] = cs[j]
      /\ \A i \in 1 .. Len(r) : i \in 1 .. Len(M) \/ \E j \in 1 .. Len(cs) : i = Len(M) + j
  BY <1>0 DEF Joined
<1>2. ASSUME NEW i \in 1 .. Len(r)
      PROVE  r[i].version <= n /\ (r[i].op = "ACK" => i \in 1 .. Len(M))
  <2>1. CASE i \in 1 .. Len(M)
    BY <1>1, <2>1 DEF Numbered
  <2>2. ASSUME NEW j \in 1 .. Len(cs), i = Len(M) + j
        PROVE  r[i].version <= n /\ r[i].op # "ACK"
    <3>1. r[i] = cs[j] /\ cs[j].version = 0 /\ cs[j].op = "change" /\ 0 <= n
      BY <1>1, <2>2, SMT
    <3> QED BY <3>1
  <2> QED BY <1>1, <2>1, <2>2
<1>3. Numbered(S, r, n)
  BY <1>1, <1>2 DEF Numbered
<1> QED BY <1>3 DEF r

\* The slave has acknowledged a change.
LEMMA NumberedReply ==
    ASSUME NEW S \in Seq(Messages), S # <<>>, NEW M \in Seq(Messages), NEW n \in Nat,
           Numbered(S, M, n),
           NEW a \in Messages, a.op = "ACK", a.version = Head(S).version
    PROVE  Numbered(Tail(S), Append(M, a), n)
<1> DEFINE r == Append(M, a)
           t == Tail(S)
<1>1. /\ Len(M) \in Nat /\ Len(r) = Len(M) + 1
      /\ \A i \in 1 .. Len(M) : r[i] = M[i]
      /\ r[Len(M) + 1] = a
      /\ \A i \in 1 .. Len(r) : i \in 1 .. Len(M) \/ i = Len(M) + 1
  BY AppendIndices
<1>2. /\ Len(S) \in Nat /\ 1 \in 1 .. Len(S) /\ Head(S) = S[1] /\ Len(t) = Len(S) - 1
      /\ \A i \in 1 .. Len(t) : i + 1 \in 1 .. Len(S) /\ t[i] = S[i + 1]
  BY TailIndices
<1>3. \A i \in 1 .. Len(t) : 1 < i + 1 /\ \A j \in 1 .. Len(t) : i < j => i + 1 < j + 1
  BY <1>2, SMT
<1> HIDE DEF r, t
<1>4. \A i \in 1 .. Len(r), j \in 1 .. Len(r) : i < j => i \in 1 .. Len(M)
  BY <1>1, SMT
<1>5. /\ \A i \in 1 .. Len(t) : t[i].version <= n /\ a.version < t[i].version
      /\ \A i, j \in 1 .. Len(t) : i < j => t[i].version < t[j].version
      /\ \A i \in 1 .. Len(r) : r[i].version <= n
  BY <1>1, <1>2, <1>3 DEF Numbered
<1>6. \A i, j \in 1 .. Len(r) :
         i < j /\ r[i].op = "ACK" /\ r[j].op = "ACK" => r[i].version < r[j].version
  BY <1>1, <1>2, <1>4 DEF Numbered
<1>7. \A i \in 1 .. Len(r), j \in 1 .. Len(t) : r[i].op = "ACK" => r[i].version < t[j].version
  BY <1>1, <1>2, <1>5 DEF Numbered
<1>8. Numbered(t, r, n)
  BY <1>5, <1>6, <1>7 DEF Numbered
<1> QED BY <1>8 DEF r, t

\* The master has received something.
LEMMA NumberedTail ==
    ASSUME NEW S \in Seq(Messages), NEW M \in Seq(Messages), M # <<>>, NEW n \in Nat,
           Numbered(S, M, n)
    PROVE  Numbered(S, Tail(M), n)
<1>1. /\ Len(M) \in Nat /\ Len(Tail(M)) = Len(M) - 1
      /\ \A i \in 1 .. Len(Tail(M)) : i + 1 \in 1 .. Len(M) /\ Tail(M)[i] = M[i + 1]
  BY TailIndices
<1>2. \A i, j \in 1 .. Len(Tail(M)) : i < j => i + 1 < j + 1
  BY <1>1, SMT
<1> QED BY <1>1, <1>2 DEF Numbered

\* Which of the slave's changes the master will take over.
LEMMA TakesTail ==
    ASSUME NEW M \in Seq(Messages), M # <<>>, NEW k
    PROVE  \A i \in 1 .. Len(Tail(M)) : Takes(k, Tail(M), i) <=> Takes(k, M, i + 1)
<1> DEFINE t == Tail(M)
<1>1. /\ Len(M) \in Nat /\ Len(t) = Len(M) - 1
      /\ \A i \in 1 .. Len(t) : i + 1 \in 1 .. Len(M) /\ t[i] = M[i + 1]
  BY TailIndices
<1> HIDE DEF t
<1> SUFFICES ASSUME NEW i \in 1 .. Len(t) PROVE Takes(k, t, i) <=> Takes(k, M, i + 1)
  BY DEF t
<1>2. \A j \in 1 .. Len(t) : j < i <=> j + 1 < i + 1
  BY <1>1, SMT
<1>3. ASSUME Takes(k, M, i + 1) PROVE Takes(k, t, i)
  BY <1>1, <1>2, <1>3 DEF Takes
<1>4. ASSUME Takes(k, t, i) PROVE Takes(k, M, i + 1)
  <2>1. ASSUME NEW j \in 1 .. Len(M), M[j].op = "ACK", M[j].key = k PROVE j < i + 1
    <3>1. CASE j = 1
      BY <1>1, <3>1, SMT
    <3>2. CASE j # 1
      <4>1. j - 1 \in 1 .. Len(t) /\ (j - 1) + 1 = j
        BY <1>1, <3>2, SMT
      <4>2. j - 1 < i
        BY <1>1, <1>4, <2>1, <4>1 DEF Takes
      <4> QED BY <1>2, <4>1, <4>2
    <3> QED BY <3>1, <3>2
  <2> QED BY <1>1, <1>4, <2>1 DEF Takes
<1> QED BY <1>3, <1>4

\* Which changes the master will take over, when more are sent ...
LEMMA TakesSent ==
    ASSUME NEW M \in Seq(Messages), NEW cs \in Seq(Messages), NEW k,
           \A j \in 1 .. Len(cs) : cs[j].op = "change"
    PROVE  /\ \A i \in 1 .. Len(M) : Takes(k, M \o cs, i) <=> Takes(k, M, i)
           /\ \A i \in 1 .. Len(M \o cs) :
                 i \notin 1 .. Len(M) => (Takes(k, M \o cs, i) <=> (M \o cs)[i].key = k)
<1> DEFINE r == M \o cs
<1>0. r \in Seq(Messages) /\ Joined(M, cs, r)
  BY Joining
<1> HIDE DEF r
<1>1. Len(M) \in Nat /\ Len(cs) \in Nat
  BY LenProperties
<1>2. /\ \A i \in 1 .. Len(M) : i \in 1 .. Len(r) /\ r[i] = M[i]
      /\ \A j \in 1 .. Len(cs) : Len(M) + j \in 1 .. Len(r) /\ r[Len(M) + j] = cs[j]
  BY <1>0 DEF Joined
<1>3. \A i \in 1 .. Len(r) : i \in 1 .. Len(M) \/ \E j \in 1 .. Len(cs) : i = Len(M) + j
  BY <1>0 DEF Joined
<1>4. \A i \in 1 .. Len(M), j \in 1 .. Len(cs) : i < Len(M) + j
  BY <1>1, SMT
<1>5. ASSUME NEW i \in 1 .. Len(r), r[i].op = "ACK" PROVE i \in 1 .. Len(M)
  <2>1. ASSUME NEW j \in 1 .. Len(cs), i = Len(M) + j PROVE FALSE
    BY <1>2, <1>5, <2>1
  <2> QED BY <1>3, <2>1
<1>6. \A i \in 1 .. Len(M) : Takes(k, r, i) <=> Takes(k, M, i)
  BY <1>2, <1>5 DEF Takes
<1>7. ASSUME NEW i \in 1 .. Len(r), i \notin 1 .. Len(M)
      PROVE  Takes(k, r, i) <=> r[i].key = k
  <2>1. PICK j \in 1 .. Len(cs) : i = Len(M) + j
    BY <1>3, <1>7
  <2>2. r[i].op = "change" /\ \A h \in 1 .. Len(M) : h < i
    BY <1>2, <1>4, <2>1
  <2> QED BY <1>5, <2>2 DEF Takes
<1> QED BY <1>6, <1>7 DEF r

\* ... or an acknowledgement is.
LEMMA TakesReply ==
    ASSUME NEW M \in Seq(Messages), NEW a \in Messages, a.op = "ACK", NEW k
    PROVE  /\ a.key = k => \A i \in 1 .. Len(Append(M, a)) : ~Takes(k, Append(M, a), i)
           /\ a.key # k => /\ \A i \in 1 .. Len(M) : Takes(k, Append(M, a), i) <=> Takes(k, M, i)
                           /\ ~Takes(k, Append(M, a), Len(M) + 1)
<1> DEFINE r == Append(M, a)
<1>1. /\ Len(M) \in Nat /\ Len(r) = Len(M) + 1
      /\ \A i \in 1 .. Len(M) : r[i] = M[i]
      /\ r[Len(M) + 1] = a
      /\ \A i \in 1 .. Len(r) : i \in 1 .. Len(M) \/ i = Len(M) + 1
  BY AppendIndices
<1>2. /\ Len(M) + 1 \in 1 .. Len(r) /\ ~(Len(M) + 1 < Len(M) + 1)
      /\ \A i \in 1 .. Len(M) : i \in 1 .. Len(r) /\ ~(Len(M) + 1 < i)
  BY <1>1, SMT
<1> HIDE DEF r
<1>3. ASSUME a.key = k PROVE \A i \in 1 .. Len(r) : ~Takes(k, r, i)
  BY <1>1, <1>2, <1>3 DEF Takes
<1>4. ASSUME a.key # k
      PROVE  /\ \A i \in 1 .. Len(M) : Takes(k, r, i) <=> Takes(k, M, i)
             /\ ~Takes(k, r, Len(M) + 1)
  BY <1>1, <1>2, <1>4 DEF Takes
<1> QED BY <1>3, <1>4 DEF r

-----------------------------------------------------------------------------
(* Leads after each kind of step *)

\* The master has changed other keys.
LEMMA LeadsOther ==
    ASSUME NEW S \in Seq(Messages), NEW cs \in Seq(Messages), NEW M, NEW k, NEW x, NEW y,
           \A j \in 1 .. Len(cs) : cs[j].key # k,
           Leads(k, S, M, x, y)
    PROVE  Leads(k, S \o cs, M, x, y)
<1> DEFINE r == S \o cs
<1>0. r \in Seq(Messages) /\ Joined(S, cs, r)
  BY Joining
<1> HIDE DEF r
<1>1. /\ \A i \in 1 .. Len(S) : i \in 1 .. Len(r) /\ r[i] = S[i]
      /\ \A j \in 1 .. Len(cs) : r[Len(S) + j] = cs[j]
  BY <1>0 DEF Joined
<1>2. \A i \in 1 .. Len(r) : i \in 1 .. Len(S) \/ \E j \in 1 .. Len(cs) : i = Len(S) + j
  BY <1>0 DEF Joined
<1>3. ASSUME NEW i \in 1 .. Len(r), r[i].key = k PROVE i \in 1 .. Len(S)
  <2>1. ASSUME NEW j \in 1 .. Len(cs), i = Len(S) + j PROVE FALSE
    BY <1>1, <1>3, <2>1
  <2> QED BY <1>2, <2>1
<1>4. \A i \in 1 .. Len(r) : r[i].key = k => r[i].value = x
  BY <1>1, <1>3 DEF Leads
<1>5. (\A i \in 1 .. Len(r) : r[i].key # k) => \A i \in 1 .. Len(S) : S[i].key # k
  BY <1>1
<1>6. Leads(k, r, M, x, y)
  BY <1>4, <1>5 DEF Leads
<1> QED BY <1>6 DEF r

\* The master has changed k, and no earlier change of it is on its way.
LEMMA LeadsOwn ==
    ASSUME NEW S \in Seq(Messages), NEW cs \in Seq(Messages), NEW M, NEW k, NEW x, NEW y,
           \A i \in 1 .. Len(S) : S[i].key # k,
           NEW l \in 1 .. Len(cs), cs[l].key = k,
           \A j \in 1 .. Len(cs) : cs[j].key = k => cs[j].value = x
    PROVE  Leads(k, S \o cs, M, x, y)
<1> DEFINE r == S \o cs
<1>0. r \in Seq(Messages) /\ Joined(S, cs, r)
  BY Joining
<1> HIDE DEF r
<1>1. /\ \A i \in 1 .. Len(S) : i \in 1 .. Len(r) /\ r[i] = S[i]
      /\ \A j \in 1 .. Len(cs) : Len(S) + j \in 1 .. Len(r) /\ r[Len(S) + j] = cs[j]
  BY <1>0 DEF Joined
<1>2. \A i \in 1 .. Len(r) : i \in 1 .. Len(S) \/ \E j \in 1 .. Len(cs) : i = Len(S) + j
  BY <1>0 DEF Joined
<1>3. ASSUME NEW i \in 1 .. Len(r), r[i].key = k PROVE r[i].value = x
  <2>1. i \notin 1 .. Len(S)
    BY <1>1, <1>3
  <2>2. ASSUME NEW j \in 1 .. Len(cs), i = Len(S) + j PROVE r[i].value = x
    BY <1>1, <1>3, <2>2
  <2> QED BY <1>2, <2>1, <2>2
<1>4. Len(S) + l \in 1 .. Len(r) /\ r[Len(S) + l].key = k
  BY <1>1
<1>5. Leads(k, r, M, x, y)
  BY <1>3, <1>4 DEF Leads
<1> QED BY <1>5 DEF r

\* By sending cs the slave has changed its value of k from y to z.
Sends(k, cs, y, z) ==
    \/ (\A j \in 1 .. Len(cs) : cs[j].key # k) /\ z = y
    \/ \E l \in 1 .. Len(cs) :
          /\ cs[l].key = k /\ cs[l].value = z
          /\ \A j \in 1 .. Len(cs) : cs[j].key = k => j = l

\* The slave has sent changes.
LEMMA LeadsSent ==
    ASSUME NEW S, NEW M \in Seq(Messages), NEW cs \in Seq(Messages),
           NEW k, NEW x, NEW y, NEW z,
           \A j \in 1 .. Len(cs) : cs[j].op = "change",
           Sends(k, cs, y, z),
           Leads(k, S, M, x, y)
    PROVE  Leads(k, S, M \o cs, x, z)
<1> DEFINE r == M \o cs
           None == \A i \in 1 .. Len(S) : S[i].key # k
           Settled == (\A i \in 1 .. Len(r) : ~Takes(k, r, i)) /\ x = z
           Decides(i) == /\ Takes(k, r, i) /\ r[i].value = z
                      /\ \A j \in 1 .. Len(r) : Takes(k, r, j) => j <= i
<1>0. r \in Seq(Messages) /\ Joined(M, cs, r)
  BY Joining
<1> HIDE DEF r
<1>1. /\ Len(M) \in Nat /\ Len(cs) \in Nat
      /\ \A i \in 1 .. Len(M) : i \in 1 .. Len(r) /\ r[i] = M[i]
      /\ \A j \in 1 .. Len(cs) : Len(M) + j \in 1 .. Len(r) /\ r[Len(M) + j] = cs[j]
  BY <1>0 DEF Joined
<1>2. \A i \in 1 .. Len(r) : i \in 1 .. Len(M) \/ \E j \in 1 .. Len(cs) : i = Len(M) + j
  BY <1>0 DEF Joined
<1>3. /\ \A i \in 1 .. Len(M) : Takes(k, r, i) <=> Takes(k, M, i)
      /\ \A i \in 1 .. Len(r) : i \notin 1 .. Len(M) => (Takes(k, r, i) <=> r[i].key = k)
  BY TakesSent DEF r
<1>5. \A j \in 1 .. Len(cs) : Len(M) + j \notin 1 .. Len(M)
  BY <1>1, SMT
<1>4. ASSUME None PROVE Settled \/ \E i \in 1 .. Len(r) : Decides(i)
  <2>1. CASE (\A j \in 1 .. Len(cs) : cs[j].key # k) /\ z = y
    <3>1. ASSUME NEW i \in 1 .. Len(r), Takes(k, r, i) PROVE i \in 1 .. Len(M) /\ Takes(k, M, i)
      <4>1. ASSUME NEW j \in 1 .. Len(cs), i = Len(M) + j PROVE FALSE
        BY <1>1, <1>3, <1>5, <2>1, <3>1, <4>1
      <4> QED BY <1>2, <1>3, <3>1, <4>1
    <3>2. CASE (\A i \in 1 .. Len(M) : ~Takes(k, M, i)) /\ x = y
      BY <2>1, <3>1, <3>2
    <3>3. ASSUME NEW i \in 1 .. Len(M), Takes(k, M, i), M[i].value = y,
                 \A j \in 1 .. Len(M) : Takes(k, M, j) => j <= i
          PROVE  i \in 1 .. Len(r) /\ Decides(i)
      BY <1>1, <1>3, <2>1, <3>1, <3>3
    <3> QED BY <1>4, <3>2, <3>3 DEF Leads
  <2>2. ASSUME NEW l \in 1 .. Len(cs), cs[l].key = k, cs[l].value = z,
               \A j \in 1 .. Len(cs) : cs[j].key = k => j = l
        PROVE  Len(M) + l \in 1 .. Len(r) /\ Decides(Len(M) + l)
    <3>1. ASSUME NEW i \in 1 .. Len(r), Takes(k, r, i) PROVE i <= Len(M) + l
      <4>1. CASE i \in 1 .. Len(M)
        BY <1>1, <4>1, SMT
      <4>2. ASSUME NEW j \in 1 .. Len(cs), i = Len(M) + j PROVE i <= Len(M) + l
        <5>1. j = l
          BY <1>1, <1>3, <1>5, <2>2, <3>1, <4>2
        <5> QED BY <1>1, <4>2, <5>1, SMT
      <4> QED BY <1>2, <4>1, <4>2
    <3> QED BY <1>1, <1>3, <1>5, <2>2, <3>1
  <2> QED BY <2>1, <2>2 DEF Sends
<1>6. Leads(k, S, r, x, z)
  BY <1>4 DEF Leads
<1> QED BY <1>6 DEF r

\* The slave has taken over the first change on its way and acknowledged it.
LEMMA LeadsReply ==
    ASSUME NEW S \in Seq(Messages), S # <<>>, NEW M \in Seq(Messages),
           NEW a \in Messages, a.op = "ACK", a.key = Head(S).key,
           NEW k, NEW x, NEW y, NEW z,
           z = IF Head(S).key = k THEN Head(S).value ELSE y,
           Leads(k, S, M, x, y)
    PROVE  Leads(k, Tail(S), Append(M, a), x, z)
<1> DEFINE t == Tail(S)
           r == Append(M, a)
<1>1. /\ Len(S) \in Nat /\ 1 \in 1 .. Len(S) /\ Head(S) = S[1] /\ Len(t) = Len(S) - 1
      /\ \A i \in 1 .. Len(t) : i + 1 \in 1 .. Len(S) /\ t[i] = S[i + 1]
  BY TailIndices
<1>2. /\ Len(M) \in Nat /\ Len(r) = Len(M) + 1
      /\ \A i \in 1 .. Len(M) : r[i] = M[i]
      /\ \A i \in 1 .. Len(r) : i \in 1 .. Len(M) \/ i = Len(M) + 1
  BY AppendIndices
<1>3. /\ a.key = k => \A i \in 1 .. Len(r) : ~Takes(k, r, i)
      /\ a.key # k => /\ \A i \in 1 .. Len(M) : Takes(k, r, i) <=> Takes(k, M, i)
                      /\ ~Takes(k, r, Len(M) + 1)
  BY TakesReply
<1>4. \A i \in 1 .. Len(M) : i \in 1 .. Len(r)
  BY <1>2, SMT
<1> HIDE DEF t, r
<1>5. \A i \in 1 .. Len(t) : t[i].key = k => t[i].value = x
  BY <1>1 DEF Leads
<1>6. CASE a.key = k
  <2>1. x = z
    BY <1>1, <1>6 DEF Leads
  <2>2. Leads(k, t, r, x, z)
    BY <1>3, <1>5, <1>6, <2>1 DEF Leads
  <2> QED BY <2>2 DEF t, r
<1>7. CASE a.key # k
  <2>1. ASSUME \A i \in 1 .. Len(t) : t[i].key # k
        PROVE  \A i \in 1 .. Len(S) : S[i].key # k
    <3> SUFFICES ASSUME NEW i \in 1 .. Len(S) PROVE S[i].key # k
      OBVIOUS
    <3>1. CASE i = 1
      BY <1>1, <1>7, <3>1
    <3>2. CASE i # 1
      <4>1. i - 1 \in 1 .. Len(t) /\ (i - 1) + 1 = i
        BY <1>1, <3>2, SMT
      <4>2. t[i - 1] = S[i]
        BY <1>1, <4>1
      <4> QED BY <2>1, <4>1, <4>2
    <3> QED BY <3>1, <3>2
  <2>2. \A i \in 1 .. Len(r) : Takes(k, r, i) => i \in 1 .. Len(M) /\ Takes(k, M, i)
    BY <1>2, <1>3, <1>7
  <2>3. z = y
    BY <1>7
  <2>4. CASE (\A i \in 1 .. Len(M) : ~Takes(k, M, i)) /\ x = y
    <3>1. Leads(k, t, r, x, z)
      BY <1>5, <2>2, <2>3, <2>4 DEF Leads
    <3> QED BY <3>1 DEF t, r
  <2>5. ASSUME NEW i \in 1 .. Len(M), Takes(k, M, i), M[i].value = y,
               \A j \in 1 .. Len(M) : Takes(k, M, j) => j <= i
        PROVE  Leads(k, t, r, x, z)
    <3>1. i \in 1 .. Len(r) /\ Takes(k, r, i) /\ r[i].value = z
      BY <1>2, <1>3, <1>4, <1>7, <2>3, <2>5
    <3>2. \A j \in 1 .. Len(r) : Takes(k, r, j) => j <= i
      BY <2>2, <2>5
    <3> QED BY <1>5, <3>1, <3>2 DEF Leads
  <2>6. CASE ~\A i \in 1 .. Len(S) : S[i].key # k
    <3>1. Leads(k, t, r, x, z)
      BY <1>5, <2>1, <2>6 DEF Leads
    <3> QED BY <3>1 DEF t, r
  <2>7. CASE \A i \in 1 .. Len(S) : S[i].key # k
    BY <2>4, <2>5, <2>7 DEF Leads, t, r
  <2> QED BY <2>6, <2>7
<1> QED BY <1>6, <1>7

\* The master has received something that does not count for k.
LEMMA LeadsTail ==
    ASSUME NEW S, NEW M \in Seq(Messages), M # <<>>, NEW k, NEW x, NEW y,
           ~Takes(k, M, 1), Leads(k, S, M, x, y)
    PROVE  Leads(k, S, Tail(M), x, y)
<1> DEFINE t == Tail(M)
<1>1. /\ Len(M) \in Nat /\ Len(t) = Len(M) - 1
      /\ \A i \in 1 .. Len(t) : i + 1 \in 1 .. Len(M) /\ t[i] = M[i + 1]
  BY TailIndices
<1>2. \A i \in 1 .. Len(t) : Takes(k, t, i) <=> Takes(k, M, i + 1)
  BY TakesTail
<1> HIDE DEF t
<1>3. CASE (\A i \in 1 .. Len(M) : ~Takes(k, M, i)) /\ x = y
  <2>1. Leads(k, S, t, x, y)
    BY <1>1, <1>2, <1>3 DEF Leads
  <2> QED BY <2>1 DEF t
<1>4. ASSUME NEW i \in 1 .. Len(M), Takes(k, M, i), M[i].value = y,
             \A j \in 1 .. Len(M) : Takes(k, M, j) => j <= i
      PROVE  Leads(k, S, t, x, y)
  <2>1. i # 1
    BY <1>4
  <2>2. i - 1 \in 1 .. Len(t) /\ (i - 1) + 1 = i
    BY <1>1, <2>1, SMT
  <2>3. Takes(k, t, i - 1) /\ t[i - 1].value = y
    BY <1>1, <1>2, <1>4, <2>2
  <2>4. ASSUME NEW j \in 1 .. Len(t), Takes(k, t, j) PROVE j <= i - 1
    <3>1. j + 1 <= i
      BY <1>1, <1>2, <1>4, <2>4
    <3> QED BY <1>1, <3>1, SMT
  <2> QED BY <2>2, <2>3, <2>4 DEF Leads
<1>5. CASE ~\A i \in 1 .. Len(S) : S[i].key # k
  BY <1>5 DEF Leads
<1> QED BY <1>3, <1>4, <1>5 DEF Leads, t

\* The master has taken over a change of k.
LEMMA LeadsTaken ==
    ASSUME NEW S, NEW M \in Seq(Messages), M # <<>>, NEW k, NEW x, NEW y,
           \A i \in 1 .. Len(S) : S[i].key # k,
           Takes(k, M, 1), Leads(k, S, M, x, y)
    PROVE  Leads(k, S, Tail(M), M[1].value, y)
<1> DEFINE t == Tail(M)
<1>1. /\ Len(M) \in Nat /\ 1 \in 1 .. Len(M) /\ Len(t) = Len(M) - 1
      /\ \A i \in 1 .. Len(t) : i + 1 \in 1 .. Len(M) /\ t[i] = M[i + 1]
  BY TailIndices
<1>2. \A i \in 1 .. Len(t) : Takes(k, t, i) <=> Takes(k, M, i + 1)
  BY TakesTail
<1> HIDE DEF t
<1>3. PICK i \in 1 .. Len(M) : /\ Takes(k, M, i) /\ M[i].value = y
                               /\ \A j \in 1 .. Len(M) : Takes(k, M, j) => j <= i
  BY <1>1 DEF Leads
<1>4. CASE i = 1
  <2>1. ASSUME NEW j \in 1 .. Len(t), Takes(k, t, j) PROVE FALSE
    <3>1. j + 1 <= 1
      BY <1>1, <1>2, <1>3, <1>4, <2>1
    <3> QED BY <3>1, SMT
  <2>2. Leads(k, S, t, M[1].value, y)
    BY <1>3, <1>4, <2>1 DEF Leads
  <2> QED BY <2>2 DEF t
<1>5. CASE i # 1
  <2>2. i - 1 \in 1 .. Len(t) /\ (i - 1) + 1 = i
    BY <1>1, <1>5, SMT
  <2>3. Takes(k, t, i - 1) /\ t[i - 1].value = y
    BY <1>1, <1>2, <1>3, <2>2
  <2>4. ASSUME NEW j \in 1 .. Len(t), Takes(k, t, j) PROVE j <= i - 1
    <3>1. j + 1 <= i
      BY <1>1, <1>2, <1>3, <2>4
    <3> QED BY <1>1, <3>1, SMT
  <2>5. Leads(k, S, t, M[1].value, y)
    BY <2>2, <2>3, <2>4 DEF Leads
  <2> QED BY <2>5 DEF t
<1> QED BY <1>4, <1>5

-----------------------------------------------------------------------------
(* Comes after each kind of step *)

\* A number still comes back when more is sent, ...
LEMMA ComesMore ==
    ASSUME NEW S \in Seq(Messages), NEW M \in Seq(Messages), NEW cs \in Seq(Messages),
           NEW p, Comes(p, S, M)
    PROVE  Comes(p, S \o cs, M) /\ Comes(p, S, M \o cs)
<1>0. Joined(S, cs, S \o cs) /\ Joined(M, cs, M \o cs)
  BY Joining
<1>1. \A i \in 1 .. Len(S) : i \in 1 .. Len(S \o cs) /\ (S \o cs)[i] = S[i]
  BY <1>0 DEF Joined
<1>2. \A i \in 1 .. Len(M) : i \in 1 .. Len(M \o cs) /\ (M \o cs)[i] = M[i]
  BY <1>0 DEF Joined
<1> DEFINE r == S \o cs
           q == M \o cs
<1> HIDE DEF r, q
<1>3. Comes(p, r, M) /\ Comes(p, S, q)
  BY <1>1, <1>2 DEF Comes, r, q
<1> QED BY <1>3 DEF r, q

\* ... when the slave replies ...
LEMMA ComesReply ==
    ASSUME NEW S \in Seq(Messages), S # <<>>, NEW M \in Seq(Messages),
           NEW a \in Messages, a = Ack(Head(S).version, Head(S).key),
           NEW p, Comes(p, S, M)
    PROVE  Comes(p, Tail(S), Append(M, a))
<1> DEFINE t == Tail(S)
           r == Append(M, a)
<1>1. /\ Len(S) \in Nat /\ 1 \in 1 .. Len(S) /\ Head(S) = S[1] /\ Len(t) = Len(S) - 1
      /\ \A i \in 1 .. Len(t) : i + 1 \in 1 .. Len(S) /\ t[i] = S[i + 1]
  BY TailIndices
<1>2. /\ Len(M) \in Nat /\ Len(r) = Len(M) + 1
      /\ \A i \in 1 .. Len(M) : r[i] = M[i]
      /\ r[Len(M) + 1] = a
  BY AppendIndices
<1>3. Len(M) + 1 \in 1 .. Len(r) /\ \A i \in 1 .. Len(M) : i \in 1 .. Len(r)
  BY <1>2, SMT
<1> HIDE DEF t, r
<1>4. ASSUME NEW i \in 1 .. Len(S), S[i].key = p.key, S[i].version = p.version
      PROVE  Comes(p, t, r)
  <2>1. CASE i = 1
    <3>1. r[Len(M) + 1] = Ack(p.version, p.key)
      BY <1>1, <1>2, <1>4, <2>1
    <3> QED BY <1>3, <3>1 DEF Comes
  <2>2. CASE i # 1
    <3>1. i - 1 \in 1 .. Len(t) /\ (i - 1) + 1 = i
      BY <1>1, <2>2, SMT
    <3>2. t[i - 1] = S[i]
      BY <1>1, <3>1
    <3> QED BY <1>4, <3>1, <3>2 DEF Comes
  <2> QED BY <2>1, <2>2
<1>5. ASSUME NEW i \in 1 .. Len(M), M[i] = Ack(p.version, p.key) PROVE Comes(p, t, r)
  BY <1>2, <1>3, <1>5 DEF Comes
<1>6. Comes(p, t, r)
  BY <1>4, <1>5 DEF Comes
<1> QED BY <1>6 DEF t, r

\* ... and when something else is received.
LEMMA ComesTail ==
    ASSUME NEW S, NEW M \in Seq(Messages), M # <<>>, NEW p, Comes(p, S, M),
           Head(M) # Ack(p.version, p.key)
    PROVE  Comes(p, S, Tail(M))
<1> DEFINE t == Tail(M)
<1>1. /\ Len(M) \in Nat /\ Head(M) = M[1] /\ Len(t) = Len(M) - 1
      /\ \A i \in 1 .. Len(t) : i + 1 \in 1 .. Len(M) /\ t[i] = M[i + 1]
  BY TailIndices
<1> HIDE DEF t
<1>2. ASSUME NEW i \in 1 .. Len(M), M[i] = Ack(p.version, p.key) PROVE Comes(p, S, t)
  <2>1. i # 1
    BY <1>1, <1>2
  <2>2. i - 1 \in 1 .. Len(t) /\ (i - 1) + 1 = i
    BY <1>1, <2>1, SMT
  <2>3. t[i - 1] = M[i]
    BY <1>1, <2>2
  <2> QED BY <1>2, <2>2, <2>3 DEF Comes
<1>3. Comes(p, S, t)
  BY <1>2 DEF Comes
<1> QED BY <1>3 DEF t

-----------------------------------------------------------------------------
(* Changes by an owner *)

\* What RemoveKey, Set and Clear ask of the keys that get a value.
Proper(e, ks, v) ==
    /\ ks \in Seq(Keys) /\ v \in Contents
    /\ \A i \in 1 .. Len(ks) : map[e][ks[i]] # v
    /\ \A i, j \in 1 .. Len(ks) : ks[i] = ks[j] => i = j

\* A change of one key.
LEMMA OneKey ==
    ASSUME NEW e, NEW k \in Keys, NEW v \in Contents, map[e][k] # v
    PROVE  Proper(e, <<k>>, v)
<1>1. <<k>> \in Seq(Keys) /\ Len(<<k>>) = 1 /\ <<k>>[1] = k
  BY SMT
<1> DEFINE ks == <<k>>
<1> HIDE DEF ks
<1>2. /\ \A i \in 1 .. Len(ks) : i = 1
      /\ ks \in Seq(Keys) /\ ks[1] = k
  BY <1>1, SMT DEF ks
<1>3. Proper(e, ks, v)
  BY <1>2 DEF Proper
<1> QED BY <1>3 DEF ks

\* Each operation of an end fires its keys one after the other.
LEMMA Firings ==
    ASSUME NEW e,
           \/ \E k \in Keys : RemoveKey(e, k) \/ \E v \in Values : Set(e, k, v)
           \/ Clear(e)
    PROVE  \E ks, v : Proper(e, ks, v) /\ Fire(e, ks, v)
<1>1. ASSUME NEW k \in Keys, RemoveKey(e, k) PROVE \E ks, v : Proper(e, ks, v) /\ Fire(e, ks, v)
  <2>1. Proper(e, <<k>>, NoValue) /\ Fire(e, <<k>>, NoValue)
    BY <1>1, OneKey DEF RemoveKey, Contents
  <2> QED BY <2>1
<1>2. ASSUME NEW k \in Keys, NEW v \in Values, Set(e, k, v)
      PROVE  \E ks, w : Proper(e, ks, w) /\ Fire(e, ks, w)
  <2>1. Proper(e, <<k>>, v) /\ Fire(e, <<k>>, v)
    BY <1>2, OneKey DEF Set, Contents
  <2> QED BY <2>1
<1>3. ASSUME Clear(e) PROVE \E ks, v : Proper(e, ks, v) /\ Fire(e, ks, v)
  <2> DEFINE present == {k \in Keys : map[e][k] # NoValue}
  <2>1. PICK ks \in SetToSeqs(present) : Fire(e, ks, NoValue)
    BY <1>3 DEF Clear
  <2>2. /\ ks \in [1 .. Cardinality(present) -> present]
        /\ \A i, j \in 1 .. Cardinality(present) : ks[i] = ks[j] => i = j
    BY <2>1 DEF SetToSeqs
  <2>3. present \subseteq Keys /\ \A k \in present : map[e][k] # NoValue
    OBVIOUS
  <2> HIDE DEF present
  <2>4. Cardinality(present) \in Nat
    BY <2>3, RdMapAssumption, FS_Subset, FS_CardinalityType DEF RdMapAssumption
  <2>5. ks \in Seq(present)
    BY <2>2, <2>4, SeqDef
  <2>6. DOMAIN ks = 1 .. Len(ks) /\ DOMAIN ks = 1 .. Cardinality(present)
        /\ \A i \in 1 .. Len(ks) : ks[i] \in present
    BY <2>2, <2>5, LenProperties, ElementOfSeq
  <2>7. ks \in Seq(Keys)
    BY <2>3, <2>5, <2>6, SeqOfElements
  <2> QED BY <2>1, <2>2, <2>3, <2>6, <2>7 DEF Proper, Contents
<1> QED BY <1>1, <1>2, <1>3

\* What is sent.
Sent(e, ks, v) == [i \in DOMAIN ks |-> Change(Numbering(e, i), ks[i], v)]

\* What is sent for them.
LEMMA SentMessages ==
    ASSUME NEW e, NEW ks, NEW v, Proper(e, ks, v), next_version \in Nat
    PROVE  /\ Sent(e, ks, v) \in Seq(Messages) /\ Len(Sent(e, ks, v)) = Len(ks)
           /\ \A i \in 1 .. Len(ks) :
                 Sent(e, ks, v)[i] = Change(Numbering(e, i), ks[i], v)
<1> DEFINE cs == Sent(e, ks, v)
<1>1. ks \in Seq(Keys) /\ v \in Contents
  BY DEF Proper
<1>2. /\ Len(ks) \in Nat /\ DOMAIN ks = 1 .. Len(ks)
      /\ \A i \in 1 .. Len(ks) : ks[i] \in Keys
  BY <1>1, LenProperties, ElementOfSeq
<1>3. ASSUME NEW i \in 1 .. Len(ks) PROVE Change(Numbering(e, i), ks[i], v) \in Messages
  <2>1. Numbering(e, i) \in Nat
    BY <1>2, SMT DEF Numbering
  <2> QED BY <1>1, <1>2, <2>1 DEF Change, Messages
<1>4. /\ cs \in [1 .. Len(ks) -> Messages]
      /\ \A i \in 1 .. Len(ks) : cs[i] = Change(Numbering(e, i), ks[i], v)
  BY <1>2, <1>3 DEF Sent
<1> HIDE DEF cs
<1>5. cs \in Seq(Messages)
  BY <1>2, <1>4, SeqDef
<1>6. 1 .. Len(ks) = 1 .. Len(cs) /\ Len(cs) \in Nat
  BY <1>4, <1>5, LenProperties
<1>7. Len(cs) = Len(ks)
  BY <1>2, <1>6, SMT
<1> QED BY <1>4, <1>5, <1>7 DEF cs

\* Marking an entry as dead, or not.
LEMMA Marked ==
    ASSUME NEW p \in Pending, NEW b \in BOOLEAN
    PROVE  LET q == [p EXCEPT !.dead = @ \/ b]
           IN  q \in Pending /\ q.key = p.key /\ q.version = p.version /\ (~b => q = p)
<1>1. p = [key |-> p.key, version |-> p.version, dead |-> p.dead]
      /\ p.key \in Keys /\ p.version \in Nat \ {0} /\ p.dead \in BOOLEAN
  BY DEF Pending
<1>2. [p EXCEPT !.dead = @ \/ b] = [key |-> p.key, version |-> p.version, dead |-> p.dead \/ b]
  BY <1>1
<1>3. (p.dead \/ b) \in BOOLEAN /\ (~b => (p.dead \/ b) = p.dead)
  BY <1>1
<1> QED BY <1>1, <1>2, <1>3 DEF Pending

\* What waits after the master's changes, keys removed by them aside.
LEMMA Expected ==
    ASSUME TypeOK, NEW ks, NEW v, Proper("master", ks, v), Expect(ks, v)
    PROVE  /\ pendingForAck' \subseteq Pending
           /\ \A p \in pendingForAck :
                 v # NoValue \/ p.key \notin ToSet(ks) => p \in pendingForAck'
           /\ \A i \in 1 .. Len(ks) :
                 v # NoValue /\ Found(ks[i]) = {}
                    => Entry(ks[i], next_version + i) \in pendingForAck'
           /\ \A q \in pendingForAck' : v # NoValue \/ q.key \notin ToSet(ks) =>
                 \/ q \in pendingForAck
                 \/ \E i \in 1 .. Len(ks) :
                       q = Entry(ks[i], next_version + i) /\ MayMiss(ks[i])
<1>1. ks \in Seq(Keys) /\ next_version \in Nat /\ pendingForAck \subseteq Pending
  BY Types DEF Proper
<1>2. /\ Len(ks) \in Nat /\ DOMAIN ks = 1 .. Len(ks)
      /\ \A i \in 1 .. Len(ks) : ks[i] \in Keys
      /\ ToSet(ks) = {ks[i] : i \in 1 .. Len(ks)}
  BY <1>1, LenProperties, ElementOfSeq DEF ToSet
<1>3. PICK fresh \in SUBSET {k \in ToSet(ks) : MayMiss(k)} :
        /\ {k \in ToSet(ks) : Found(k) = {}} \subseteq fresh
        /\ LET new == {Entry(ks[i], next_version + i) : i \in {j \in DOMAIN ks : ks[j] \in fresh}}
           IN  pendingForAck' = {[p EXCEPT !.dead = @ \/ (v = NoValue /\ p.key \in ToSet(ks))] :
                                     p \in pendingForAck \cup new}
  BY DEF Expect
<1> DEFINE new == {Entry(ks[i], next_version + i) : i \in {j \in 1 .. Len(ks) : ks[j] \in fresh}}
           mark(p) == v = NoValue /\ p.key \in ToSet(ks)
           after(p) == [p EXCEPT !.dead = @ \/ mark(p)]
<1>4. pendingForAck' = {after(p) : p \in pendingForAck \cup new}
  BY <1>2, <1>3
<1>5. \A i \in 1 .. Len(ks) : Entry(ks[i], next_version + i) \in Pending
  <2> SUFFICES ASSUME NEW i \in 1 .. Len(ks) PROVE Entry(ks[i], next_version + i) \in Pending
    OBVIOUS
  <2>1. next_version + i \in Nat \ {0}
    BY <1>1, <1>2, SMT
  <2> QED BY <1>2, <2>1 DEF Entry, Pending
<1>6. pendingForAck \cup new \subseteq Pending
  BY <1>1, <1>5
<1>7. /\ \A i \in 1 .. Len(ks) : Found(ks[i]) = {} => Entry(ks[i], next_version + i) \in new
      /\ \A p \in new : \E i \in 1 .. Len(ks) :
            p = Entry(ks[i], next_version + i) /\ MayMiss(ks[i])
  BY <1>2, <1>3
<1>8. \A p \in Pending : /\ after(p) \in Pending /\ after(p).key = p.key
                         /\ (~mark(p) => after(p) = p)
  BY Marked
<1>9. \A p : (v # NoValue \/ p.key \notin ToSet(ks)) <=> ~mark(p)
  OBVIOUS
<1>10. \A i \in 1 .. Len(ks) : v # NoValue => ~mark(Entry(ks[i], next_version + i))
  OBVIOUS
<1>11. \A p, q \in Pending : p.key = q.key => (mark(p) <=> mark(q))
  OBVIOUS
<1> HIDE DEF new, mark, after
<1>12. pendingForAck' \subseteq Pending
  BY <1>4, <1>6, <1>8
<1>13. \A p \in pendingForAck : ~mark(p) => p \in pendingForAck'
  BY <1>4, <1>6, <1>8
<1>14. \A i \in 1 .. Len(ks) :
          v # NoValue /\ Found(ks[i]) = {} => Entry(ks[i], next_version + i) \in pendingForAck'
  <2> SUFFICES ASSUME NEW i \in 1 .. Len(ks), v # NoValue, Found(ks[i]) = {}
               PROVE  Entry(ks[i], next_version + i) \in pendingForAck'
    OBVIOUS
  <2>1. Entry(ks[i], next_version + i) \in new
    BY <1>7
  <2>2. after(Entry(ks[i], next_version + i)) = Entry(ks[i], next_version + i)
    BY <1>6, <1>8, <1>10, <2>1
  <2> QED BY <1>4, <2>1, <2>2
<1>15. ASSUME NEW q \in pendingForAck', ~mark(q)
       PROVE  q \in pendingForAck \/ q \in new
  <2>1. PICK p \in pendingForAck \cup new : q = after(p)
    BY <1>4
  <2>2. p \in Pending /\ q \in Pending /\ q.key = p.key
    BY <1>6, <1>8, <2>1
  <2>3. ~mark(p)
    BY <1>11, <1>15, <2>2
  <2> QED BY <1>8, <2>1, <2>2, <2>3
<1> QED BY <1>7, <1>9, <1>12, <1>13, <1>14, <1>15

-----------------------------------------------------------------------------
(* The types, Comes and Awaited when changes are sent *)

\* The changes of the master stay numbered, ...
LEMMA MasterSends ==
    ASSUME NEW S \in Seq(Messages), NEW cs \in Seq(Messages), ChangesAreNumbered(S),
           ChangesAreNumbered(cs)
    PROVE  S \o cs \in Seq(Messages) /\ ChangesAreNumbered(S \o cs)
<1> DEFINE r == S \o cs
<1>0. r \in Seq(Messages) /\ Joined(S, cs, r)
  BY Joining
<1> HIDE DEF r
<1>1. /\ r \in Seq(Messages)
      /\ \A i \in 1 .. Len(S) : r[i] = S[i]
      /\ \A j \in 1 .. Len(cs) : r[Len(S) + j] = cs[j]
  BY <1>0 DEF Joined
<1>2. \A i \in 1 .. Len(r) : i \in 1 .. Len(S) \/ \E j \in 1 .. Len(cs) : i = Len(S) + j
  BY <1>0 DEF Joined
<1>3. ASSUME NEW i \in 1 .. Len(r) PROVE r[i].op = "change" /\ r[i].version # 0
  <2>1. CASE i \in 1 .. Len(S)
    BY <1>1, <2>1 DEF ChangesAreNumbered
  <2>2. ASSUME NEW j \in 1 .. Len(cs), i = Len(S) + j
        PROVE  r[i].op = "change" /\ r[i].version # 0
    BY <1>1, <2>2 DEF ChangesAreNumbered
  <2> QED BY <1>2, <2>1, <2>2
<1> QED BY <1>1, <1>3 DEF ChangesAreNumbered, r

\* ... those of the slave are not.
LEMMA SlaveSends ==
    ASSUME NEW M \in Seq(Messages), NEW cs \in Seq(Messages), AcksAreNumbered(M),
           \A j \in 1 .. Len(cs) : cs[j].op = "change" /\ cs[j].version = 0
    PROVE  M \o cs \in Seq(Messages) /\ AcksAreNumbered(M \o cs)
<1> DEFINE r == M \o cs
<1>0. r \in Seq(Messages) /\ Joined(M, cs, r)
  BY Joining
<1> HIDE DEF r
<1>1. /\ r \in Seq(Messages)
      /\ \A i \in 1 .. Len(M) : r[i] = M[i]
      /\ \A j \in 1 .. Len(cs) : r[Len(M) + j] = cs[j]
  BY <1>0 DEF Joined
<1>2. \A i \in 1 .. Len(r) : i \in 1 .. Len(M) \/ \E j \in 1 .. Len(cs) : i = Len(M) + j
  BY <1>0 DEF Joined
<1>3. ASSUME NEW i \in 1 .. Len(r) PROVE r[i].op = "ACK" <=> r[i].version # 0
  <2>1. CASE i \in 1 .. Len(M)
    BY <1>1, <2>1 DEF AcksAreNumbered
  <2>2. ASSUME NEW j \in 1 .. Len(cs), i = Len(M) + j
        PROVE  r[i].op # "ACK" /\ r[i].version = 0
    BY <1>1, <2>2
  <2> QED BY <1>2, <2>1, <2>2
<1> QED BY <1>1, <1>3 DEF AcksAreNumbered, r

\* What the master sends will come back.
LEMMA ComesNew ==
    ASSUME NEW S \in Seq(Messages), NEW cs \in Seq(Messages), NEW M, NEW p,
           NEW l \in 1 .. Len(cs), cs[l].key = p.key, cs[l].version = p.version
    PROVE  Comes(p, S \o cs, M)
<1> DEFINE r == S \o cs
<1>0. r \in Seq(Messages) /\ Joined(S, cs, r)
  BY Joining
<1> HIDE DEF r
<1>1. \A j \in 1 .. Len(cs) : Len(S) + j \in 1 .. Len(r) /\ r[Len(S) + j] = cs[j]
  BY <1>0 DEF Joined
<1>2. Comes(p, r, M)
  BY <1>1 DEF Comes
<1> QED BY <1>2 DEF r

\* A number that is awaited, after the master sent, ...
LEMMA AwaitedFire ==
    ASSUME NEW S \in Seq(Messages), NEW cs \in Seq(Messages), NEW M, NEW k, NEW P, NEW Q,
           Awaited(k, P, S, M),
           \A n : Entry(k, n) \in P => Entry(k, n) \in Q,
           \A j \in 1 .. Len(cs) : cs[j].key = k => Entry(k, cs[j].version) \in Q
    PROVE  Awaited(k, Q, S \o cs, M)
<1> DEFINE r == S \o cs
<1>0. r \in Seq(Messages) /\ Joined(S, cs, r)
  BY Joining
<1> HIDE DEF r
<1>1. /\ \A i \in 1 .. Len(S) : r[i] = S[i]
      /\ \A j \in 1 .. Len(cs) : r[Len(S) + j] = cs[j]
  BY <1>0 DEF Joined
<1>2. \A i \in 1 .. Len(r) : i \in 1 .. Len(S) \/ \E j \in 1 .. Len(cs) : i = Len(S) + j
  BY <1>0 DEF Joined
<1>3. ASSUME NEW i \in 1 .. Len(r), r[i].key = k PROVE Entry(k, r[i].version) \in Q
  <2>1. CASE i \in 1 .. Len(S)
    BY <1>1, <1>3, <2>1 DEF Awaited
  <2>2. ASSUME NEW j \in 1 .. Len(cs), i = Len(S) + j PROVE Entry(k, r[i].version) \in Q
    BY <1>1, <1>3, <2>2
  <2> QED BY <1>2, <2>1, <2>2
<1>4. Awaited(k, Q, r, M)
  BY <1>3 DEF Awaited
<1> QED BY <1>4 DEF r

\* ... and after the slave did.
LEMMA AwaitedSend ==
    ASSUME NEW S, NEW M \in Seq(Messages), NEW cs \in Seq(Messages), NEW k, NEW P,
           Awaited(k, P, S, M),
           \A j \in 1 .. Len(cs) : cs[j].op = "change"
    PROVE  Awaited(k, P, S, M \o cs)
<1> DEFINE r == M \o cs
<1>0. r \in Seq(Messages) /\ Joined(M, cs, r)
  BY Joining
<1> HIDE DEF r
<1>1. /\ \A i \in 1 .. Len(M) : r[i] = M[i]
      /\ \A j \in 1 .. Len(cs) : r[Len(M) + j] = cs[j]
  BY <1>0 DEF Joined
<1>2. \A i \in 1 .. Len(r) : i \in 1 .. Len(M) \/ \E j \in 1 .. Len(cs) : i = Len(M) + j
  BY <1>0 DEF Joined
<1>3. ASSUME NEW i \in 1 .. Len(r), r[i].op = "ACK", r[i].key = k
      PROVE  Entry(k, r[i].version) \in P
  <2>1. CASE i \in 1 .. Len(M)
    BY <1>1, <1>3, <2>1 DEF Awaited
  <2>2. ASSUME NEW j \in 1 .. Len(cs), i = Len(M) + j PROVE FALSE
    BY <1>1, <1>3, <2>2
  <2> QED BY <1>2, <2>1, <2>2
<1>4. Awaited(k, P, S, r)
  BY <1>3 DEF Awaited
<1> QED BY <1>4 DEF r

-----------------------------------------------------------------------------
(* RInv after each kind of step *)

\* What the observers record.
Recorded ==
    /\ removed \subseteq removed' /\ hurried \subseteq hurried'
    /\ \A k \in Keys : next_version' > next_version /\ map'["master"][k] # map["master"][k] =>
          /\ map'["master"][k] = NoValue => k \in removed'
          /\ Unsettled(k) => k \in hurried'

\* What the observers record.
LEMMA Recording ==
    ASSUME MCNext
    PROVE  Recorded
BY DEF MCNext, Recorded, ChangedByMaster

\* A key that was not removed and does not wait has nothing on its way.
LEMMA NothingAwaited ==
    ASSUME NEW k \in Patient, RInv, Found(k) = {}
    PROVE  /\ \A i \in 1 .. Len(ToSlave) : ToSlave[i].key # k
           /\ \A i \in 1 .. Len(ToMaster) : ~(ToMaster[i].op = "ACK" /\ ToMaster[i].key = k)
<1>1. Awaited(k, pendingForAck, ToSlave, ToMaster)
  BY DEF RInv, PatientInv
<1>2. \A n : Entry(k, n) \notin pendingForAck
  BY DEF Found, Entry
<1> QED BY <1>1, <1>2 DEF Awaited

\* The other way round.
LEMMA NothingUnsettled ==
    ASSUME NEW k \in Keys \ removed, RInv, ~Unsettled(k)
    PROVE  /\ Found(k) = {}
           /\ \A i \in 1 .. Len(ToSlave) : ToSlave[i].key # k
           /\ \A i \in 1 .. Len(ToMaster) : ~(ToMaster[i].op = "ACK" /\ ToMaster[i].key = k)
<1>1. DOMAIN ToMaster = 1 .. Len(ToMaster) /\ DOMAIN ToSlave = 1 .. Len(ToSlave)
  BY Types DEF RInv
<1>2. /\ \A i \in 1 .. Len(ToSlave) : ToSlave[i].key # k
      /\ \A i \in 1 .. Len(ToMaster) : ~(ToMaster[i].op = "ACK" /\ ToMaster[i].key = k)
  BY <1>1 DEF Unsettled, InFlight, ToSlave, ToMaster
<1>3. ASSUME NEW p \in pendingForAck, p.key = k PROVE FALSE
  <2>1. Comes(p, ToSlave, ToMaster)
    BY <1>3 DEF RInv, WaitInv
  <2>2. \A n : Ack(n, k).op = "ACK" /\ Ack(n, k).key = k
    BY DEF Ack
  <2> QED BY <1>2, <1>3, <2>1, <2>2 DEF Comes
<1> QED BY <1>2, <1>3 DEF Found

\* The parts of a change.
LEMMA FieldsOfChange ==
    \A n, k, v : /\ Change(n, k, v).op = "change" /\ Change(n, k, v).version = n
                 /\ Change(n, k, v).key = k /\ Change(n, k, v).value = v
BY DEF Change

\* The newest number of each key is the one that is waited for.
LEMMA MasterFires ==
    ASSUME RInv, NEW ks, NEW v, Proper("master", ks, v), Fire("master", ks, v), Recorded
    PROVE  RInv'
<1> DEFINE cs == Sent("master", ks, v)
           n == next_version
<1> USE DEF RInv
<1>1. /\ ToMaster \in Seq(Messages) /\ ToSlave \in Seq(Messages) /\ n \in Nat
      /\ AcksAreNumbered(ToMaster) /\ ChangesAreNumbered(ToSlave)
      /\ map["master"] \in [Keys -> Contents] /\ map["slave"] \in [Keys -> Contents]
      /\ inbox = [e \in Ends |-> IF e = "master" THEN ToMaster ELSE ToSlave]
      /\ map = [e \in Ends |-> IF e = "master" THEN map["master"] ELSE map["slave"]]
  BY Types
<1>2. /\ ks \in Seq(Keys) /\ v \in Contents /\ Len(ks) \in Nat /\ DOMAIN ks = 1 .. Len(ks)
      /\ \A i \in 1 .. Len(ks) : ks[i] \in Keys
      /\ ToSet(ks) = {ks[i] : i \in 1 .. Len(ks)}
  BY LenProperties, ElementOfSeq DEF Proper, ToSet
<1>3. /\ cs \in Seq(Messages) /\ Len(cs) = Len(ks)
      /\ \A i \in 1 .. Len(ks) : cs[i] = Change(n + i, ks[i], v)
  <2>1. \A i : Numbering("master", i) = n + i
    BY DEF Numbering, is_master
  <2> QED BY <1>1, <2>1, SentMessages
<1>4. /\ \A i \in 1 .. Len(cs) : /\ cs[i].op = "change" /\ cs[i].version = n + i
                                 /\ cs[i].key = ks[i] /\ cs[i].value = v
      /\ ChangesAreNumbered(cs)
  <2>1. \A i \in 1 .. Len(ks) : n + i # 0
    BY <1>1, <1>2, SMT
  <2> HIDE DEF cs, n
  <2>2. \A i \in 1 .. Len(cs) : /\ cs[i].op = "change" /\ cs[i].version = n + i
                                 /\ cs[i].key = ks[i] /\ cs[i].value = v
    BY <1>3, FieldsOfChange
  <2> QED BY <1>3, <2>1, <2>2 DEF ChangesAreNumbered
<1>5. /\ inbox' = [e \in Ends |-> IF e = "master" THEN ToMaster ELSE ToSlave \o cs]
      /\ ToMaster' = ToMaster /\ ToSlave' = ToSlave \o cs
  <2>1. inbox' = [inbox EXCEPT !["slave"] = @ \o cs]
    BY DEF Fire, Other, Sent
  <2> QED BY <1>1, <2>1 DEF Ends, ToMaster, ToSlave
<1>6. /\ map' = [e \in Ends |-> IF e = "master"
                     THEN [k \in Keys |-> IF k \in ToSet(ks) THEN v ELSE map["master"][k]]
                     ELSE map["slave"]]
      /\ map'["slave"] = map["slave"]
      /\ \A k \in Keys : map'["master"][k] = IF k \in ToSet(ks) THEN v ELSE map["master"][k]
      /\ map' \in [Ends -> [Keys -> Contents]]
  BY <1>1, <1>2 DEF Fire, Ends
<1>7. next_version' = n + Len(cs) /\ Expect(ks, v)
  BY <1>3 DEF Fire, is_master
<1>8. /\ pendingForAck' \subseteq Pending
      /\ \A p \in pendingForAck :
            v # NoValue \/ p.key \notin ToSet(ks) => p \in pendingForAck'
      /\ \A i \in 1 .. Len(ks) :
            v # NoValue /\ Found(ks[i]) = {} => Entry(ks[i], n + i) \in pendingForAck'
      /\ \A q \in pendingForAck' : v # NoValue \/ q.key \notin ToSet(ks) =>
            \/ q \in pendingForAck
            \/ \E i \in 1 .. Len(ks) : q = Entry(ks[i], n + i) /\ MayMiss(ks[i])
  BY <1>7, Expected
<1>9. \A i \in 1 .. Len(ks) : /\ next_version' > n /\ map'["master"][ks[i]] = v
                              /\ map["master"][ks[i]] # v
  <2>1. \A i \in 1 .. Len(ks) : n + Len(cs) > n
    BY <1>1, <1>2, <1>3, SMT
  <2> QED BY <1>2, <1>6, <1>7, <2>1 DEF Proper
<1>10. \A k \in ToSet(ks) : /\ v = NoValue => k \in removed'
                            /\ k \notin hurried' => ~Unsettled(k)
  BY <1>2, <1>9 DEF Recorded
<1> HIDE DEF cs
<1>11. Numbered(ToSlave, ToMaster, next_version)'
  <2>1. Numbered(ToSlave \o cs, ToMaster, n + Len(cs))
    BY <1>1, <1>3, <1>4, NumberedFire
  <2> QED BY <1>5, <1>7, <2>1
<1>12. TypeOK'
  <2>1. ToSlave \o cs \in Seq(Messages) /\ ChangesAreNumbered(ToSlave \o cs)
    BY <1>1, <1>3, <1>4, MasterSends
  <2>2. next_version' \in Nat
    BY <1>1, <1>2, <1>3, <1>7, SMT
  <2>3. changes' \in 0 .. MaxChanges
    BY <1>2, RdMapAssumption, SMT DEF TypeOK, Fire, RdMapAssumption
  <2> QED BY <1>1, <1>5, <1>6, <1>8, <2>1, <2>2, <2>3, TypesNext
<1>13. WaitInv'
  <2> SUFFICES ASSUME NEW p \in pendingForAck', p.key \notin removed'
               PROVE  /\ ~p.dead
                      /\ \A q \in pendingForAck' : q.key = p.key => q = p
                      /\ Comes(p, ToSlave', ToMaster')
    BY DEF WaitInv
  <2>1. p.key \notin removed /\ (v # NoValue \/ p.key \notin ToSet(ks))
    BY <1>10 DEF Recorded
  <2>2. \A q \in pendingForAck' : q.key = p.key =>
            \/ q \in pendingForAck
            \/ \E i \in 1 .. Len(ks) : q = Entry(ks[i], n + i) /\ MayMiss(ks[i])
    BY <1>8, <2>1
  <2>3. CASE p \in pendingForAck
    <3>1. /\ ~p.dead /\ \A q \in pendingForAck : q.key = p.key => q = p
          /\ Comes(p, ToSlave, ToMaster)
      BY <2>1, <2>3 DEF WaitInv
    <3>2. ~MayMiss(p.key)
      BY <2>3, <3>1 DEF MayMiss, Found
    <3>3. \A i \in 1 .. Len(ks) : Entry(ks[i], n + i).key = ks[i]
      BY DEF Entry
    <3>4. \A q \in pendingForAck' : q.key = p.key => q = p
      BY <2>2, <3>1, <3>2, <3>3
    <3>5. Comes(p, ToSlave \o cs, ToMaster)
      BY <1>1, <1>3, <3>1, ComesMore
    <3> QED BY <1>5, <3>1, <3>4, <3>5
  <2>4. ASSUME NEW i \in 1 .. Len(ks), p = Entry(ks[i], n + i), MayMiss(ks[i])
        PROVE  /\ ~p.dead
               /\ \A q \in pendingForAck' : q.key = p.key => q = p
               /\ Comes(p, ToSlave', ToMaster')
    <3>1. p.key = ks[i] /\ p.version = n + i /\ ~p.dead
      BY <2>4 DEF Entry
    <3>2. \A q \in pendingForAck : q.key = ks[i] => q.dead
      BY <2>4 DEF MayMiss, Found
    <3>3. \A q \in pendingForAck : q.key # ks[i]
      BY <2>1, <3>1, <3>2 DEF WaitInv
    <3>4. ASSUME NEW q \in pendingForAck', q.key = p.key PROVE q = p
      <4>1. PICK j \in 1 .. Len(ks) : q = Entry(ks[j], n + j)
        BY <2>2, <3>1, <3>3, <3>4
      <4>2. ks[j] = ks[i]
        BY <3>1, <3>4, <4>1 DEF Entry
      <4>3. j = i
        BY <4>2 DEF Proper
      <4> QED BY <2>4, <4>1, <4>3
    <3>5. Comes(p, ToSlave \o cs, ToMaster)
      BY <1>1, <1>3, <1>4, <3>1, ComesNew
    <3> QED BY <1>5, <3>1, <3>4, <3>5
  <2> QED BY <2>2, <2>3, <2>4
<1>14. PatientInv'
  <2> SUFFICES ASSUME NEW k \in Patient'
               PROVE  /\ Awaited(k, pendingForAck', ToSlave', ToMaster')
                      /\ Leads(k, ToSlave', ToMaster', map'["master"][k], map'["slave"][k])
    BY DEF PatientInv
  <2>1. k \in Keys /\ k \in Patient /\ k \notin removed' /\ k \notin hurried' /\ k \notin removed
    BY DEF Patient, Recorded
  <2>2. /\ Awaited(k, pendingForAck, ToSlave, ToMaster)
        /\ Leads(k, ToSlave, ToMaster, map["master"][k], map["slave"][k])
    BY <2>1 DEF PatientInv
  <2>3. CASE k \notin ToSet(ks)
    <3>1. \A j \in 1 .. Len(cs) : cs[j].key # k
      BY <1>2, <1>3, <1>4, <2>3
    <3>2. Leads(k, ToSlave \o cs, ToMaster, map["master"][k], map["slave"][k])
      BY <1>1, <1>3, <2>2, <3>1, LeadsOther
    <3>3. \A q : Entry(k, q) \in pendingForAck => Entry(k, q) \in pendingForAck'
      <4>1. \A q : Entry(k, q).key = k
        BY DEF Entry
      <4> QED BY <1>8, <2>3, <4>1
    <3>4. Awaited(k, pendingForAck', ToSlave \o cs, ToMaster)
      BY <1>1, <1>3, <2>2, <3>1, <3>3, AwaitedFire
    <3> QED BY <1>5, <1>6, <2>1, <2>3, <3>2, <3>4
  <2>4. CASE k \in ToSet(ks)
    <3>1. v # NoValue /\ ~Unsettled(k)
      BY <1>10, <2>1, <2>4
    <3>2. /\ Found(k) = {}
          /\ \A i \in 1 .. Len(ToSlave) : ToSlave[i].key # k
          /\ \A i \in 1 .. Len(ToMaster) : ~(ToMaster[i].op = "ACK" /\ ToMaster[i].key = k)
      BY <2>1, <3>1, NothingUnsettled
    <3>3. PICK l \in 1 .. Len(cs) : ks[l] = k
      BY <1>2, <1>3, <2>4
    <3>4. Leads(k, ToSlave \o cs, ToMaster, v, map["slave"][k])
      <4>1. /\ cs[l].key = k
            /\ \A j \in 1 .. Len(cs) : cs[j].key = k => cs[j].value = v
        BY <1>3, <1>4, <3>3
      <4> QED BY <1>1, <1>3, <3>2, <3>3, <4>1, LeadsOwn
    <3>5. \A j \in 1 .. Len(cs) : cs[j].key = k => Entry(k, cs[j].version) \in pendingForAck'
      BY <1>3, <1>4, <1>8, <3>1, <3>2
    <3>6. Awaited(k, {}, ToSlave, ToMaster)
      BY <3>2 DEF Awaited
    <3>7. Awaited(k, pendingForAck', ToSlave \o cs, ToMaster)
      <4> DEFINE None == {}
      <4>1. Awaited(k, None, ToSlave, ToMaster) /\ \A q : Entry(k, q) \notin None
        BY <3>6
      <4> HIDE DEF None
      <4> QED BY <1>1, <1>3, <3>5, <4>1, AwaitedFire
    <3> QED BY <1>5, <1>6, <2>1, <2>4, <3>4, <3>7
  <2> QED BY <2>3, <2>4
<1> QED BY <1>11, <1>12, <1>13, <1>14

\* The slave's newest change has its value.
LEMMA SlaveFires ==
    ASSUME RInv, NEW ks, NEW v, Proper("slave", ks, v), Fire("slave", ks, v), Recorded
    PROVE  RInv'
<1> DEFINE cs == Sent("slave", ks, v)
<1> USE DEF RInv
<1>1. /\ ToMaster \in Seq(Messages) /\ ToSlave \in Seq(Messages) /\ next_version \in Nat
      /\ AcksAreNumbered(ToMaster) /\ ChangesAreNumbered(ToSlave)
      /\ map["master"] \in [Keys -> Contents] /\ map["slave"] \in [Keys -> Contents]
      /\ inbox = [e \in Ends |-> IF e = "master" THEN ToMaster ELSE ToSlave]
      /\ map = [e \in Ends |-> IF e = "master" THEN map["master"] ELSE map["slave"]]
      /\ pendingForAck \subseteq Pending
  BY Types
<1>2. /\ ks \in Seq(Keys) /\ v \in Contents /\ Len(ks) \in Nat /\ DOMAIN ks = 1 .. Len(ks)
      /\ \A i \in 1 .. Len(ks) : ks[i] \in Keys
      /\ ToSet(ks) = {ks[i] : i \in 1 .. Len(ks)}
  BY LenProperties, ElementOfSeq DEF Proper, ToSet
<1>3. /\ cs \in Seq(Messages) /\ Len(cs) = Len(ks)
      /\ \A i \in 1 .. Len(ks) : cs[i] = Change(0, ks[i], v)
  <2>1. \A i : Numbering("slave", i) = 0
    BY DEF Numbering, is_master
  <2> QED BY <1>1, <2>1, SentMessages
<1>4. /\ inbox' = [e \in Ends |-> IF e = "master" THEN ToMaster \o cs ELSE ToSlave]
      /\ ToMaster' = ToMaster \o cs /\ ToSlave' = ToSlave
  <2>1. inbox' = [inbox EXCEPT !["master"] = @ \o cs]
    BY DEF Fire, Other, Sent
  <2> QED BY <1>1, <2>1 DEF Ends, ToMaster, ToSlave
<1> HIDE DEF cs
<1>5. \A i \in 1 .. Len(cs) : /\ cs[i].op = "change" /\ cs[i].version = 0
                              /\ cs[i].key = ks[i] /\ cs[i].value = v
  BY <1>3, FieldsOfChange
<1>6. /\ map' = [e \in Ends |-> IF e = "master" THEN map["master"] ELSE
                     [k \in Keys |-> IF k \in ToSet(ks) THEN v ELSE map["slave"][k]]]
      /\ map'["master"] = map["master"]
      /\ \A k \in Keys : map'["slave"][k] = IF k \in ToSet(ks) THEN v ELSE map["slave"][k]
      /\ map' \in [Ends -> [Keys -> Contents]]
  BY <1>1, <1>2 DEF Fire, Ends
<1>7. next_version' = next_version /\ pendingForAck' = pendingForAck
  BY DEF Fire, is_master
<1>8. Numbered(ToSlave, ToMaster, next_version)'
  <2>1. Numbered(ToSlave, ToMaster \o cs, next_version)
    BY <1>1, <1>3, <1>5, NumberedSend
  <2> QED BY <1>4, <1>7, <2>1
<1>9. TypeOK'
  <2>1. ToMaster \o cs \in Seq(Messages) /\ AcksAreNumbered(ToMaster \o cs)
    BY <1>1, <1>3, <1>5, SlaveSends
  <2>2. changes' \in 0 .. MaxChanges
    BY <1>2, RdMapAssumption, SMT DEF TypeOK, Fire, RdMapAssumption
  <2> QED BY <1>1, <1>4, <1>6, <1>7, <2>1, <2>2, TypesNext
<1>10. WaitInv'
  <2> SUFFICES ASSUME NEW p \in pendingForAck, p.key \notin removed'
               PROVE  /\ ~p.dead
                      /\ \A q \in pendingForAck : q.key = p.key => q = p
                      /\ Comes(p, ToSlave, ToMaster \o cs)
    BY <1>4, <1>7 DEF WaitInv
  <2>1. /\ ~p.dead /\ \A q \in pendingForAck : q.key = p.key => q = p
        /\ Comes(p, ToSlave, ToMaster)
    BY DEF WaitInv, Recorded
  <2> QED BY <1>1, <1>3, <2>1, ComesMore
<1>11. PatientInv'
  <2> SUFFICES ASSUME NEW k \in Patient'
               PROVE  /\ Awaited(k, pendingForAck', ToSlave', ToMaster')
                      /\ Leads(k, ToSlave', ToMaster', map'["master"][k], map'["slave"][k])
    BY DEF PatientInv
  <2>1. k \in Keys /\ k \in Patient
    BY DEF Patient, Recorded
  <2>2. /\ Awaited(k, pendingForAck, ToSlave, ToMaster)
        /\ Leads(k, ToSlave, ToMaster, map["master"][k], map["slave"][k])
    BY <2>1 DEF PatientInv
  <2>3. Awaited(k, pendingForAck, ToSlave, ToMaster \o cs)
    BY <1>1, <1>3, <1>5, <2>2, AwaitedSend
  <2>4. Sends(k, cs, map["slave"][k], map'["slave"][k])
    <3>1. CASE k \notin ToSet(ks)
      <4>1. \A j \in 1 .. Len(cs) : cs[j].key # k
        BY <1>2, <1>3, <1>5, <3>1
      <4>2. map'["slave"][k] = map["slave"][k]
        BY <1>6, <2>1, <3>1
      <4> QED BY <4>1, <4>2 DEF Sends
    <3>2. CASE k \in ToSet(ks)
      <4>1. PICK l \in 1 .. Len(cs) : ks[l] = k
        BY <1>2, <1>3, <3>2
      <4>2. \A j \in 1 .. Len(cs) : cs[j].key = k => j = l
        BY <1>3, <1>5, <4>1 DEF Proper
      <4> QED BY <1>5, <1>6, <2>1, <3>2, <4>1, <4>2 DEF Sends
    <3> QED BY <3>1, <3>2
  <2>5. Leads(k, ToSlave, ToMaster \o cs, map["master"][k], map'["slave"][k])
    BY <1>1, <1>3, <1>5, <2>2, <2>4, LeadsSent
  <2> QED BY <1>4, <1>6, <1>7, <2>3, <2>5
<1> QED BY <1>8, <1>9, <1>10, <1>11

-----------------------------------------------------------------------------
(* Messages that are received *)

\* A number is still awaited after a reply ...
LEMMA AwaitedReply ==
    ASSUME NEW S \in Seq(Messages), S # <<>>, NEW M \in Seq(Messages),
           NEW a \in Messages, a = Ack(Head(S).version, Head(S).key),
           NEW k, NEW P, Awaited(k, P, S, M)
    PROVE  Awaited(k, P, Tail(S), Append(M, a))
<1> DEFINE t == Tail(S)
           r == Append(M, a)
<1>1. /\ Len(S) \in Nat /\ 1 \in 1 .. Len(S) /\ Head(S) = S[1] /\ Len(t) = Len(S) - 1
      /\ \A i \in 1 .. Len(t) : i + 1 \in 1 .. Len(S) /\ t[i] = S[i + 1]
  BY TailIndices
<1>2. /\ \A i \in 1 .. Len(M) : r[i] = M[i]
      /\ r[Len(M) + 1] = a
      /\ \A i \in 1 .. Len(r) : i \in 1 .. Len(M) \/ i = Len(M) + 1
  BY AppendIndices
<1>3. a.version = S[1].version /\ a.key = S[1].key
  BY <1>1 DEF Ack
<1> HIDE DEF t, r
<1>4. \A i \in 1 .. Len(t) : t[i].key = k => Entry(k, t[i].version) \in P
  BY <1>1 DEF Awaited
<1>5. S[1].key = k => Entry(k, S[1].version) \in P
  BY <1>1 DEF Awaited
<1>6. \A i \in 1 .. Len(r) : r[i].op = "ACK" /\ r[i].key = k => Entry(k, r[i].version) \in P
  BY <1>2, <1>3, <1>5 DEF Awaited
<1>7. Awaited(k, P, t, r)
  BY <1>4, <1>6 DEF Awaited
<1> QED BY <1>7 DEF t, r

\* ... and after something was received.
LEMMA AwaitedTail ==
    ASSUME NEW S, NEW M \in Seq(Messages), M # <<>>, NEW k, NEW P, Awaited(k, P, S, M)
    PROVE  Awaited(k, P, S, Tail(M))
<1>1. \A i \in 1 .. Len(Tail(M)) : i + 1 \in 1 .. Len(M) /\ Tail(M)[i] = M[i + 1]
  BY TailIndices
<1> DEFINE t == Tail(M)
<1> HIDE DEF t
<1>2. Awaited(k, P, S, t)
  BY <1>1 DEF Awaited, t
<1> QED BY <1>2 DEF t

\* The slave takes over what comes, and sends its number back.
LEMMA SlaveReceives ==
    ASSUME RInv, ReceiveChange("slave"), Recorded
    PROVE  RInv'
<1> DEFINE c == Head(ToSlave)
           a == Ack(c.version, c.key)
           S == Tail(ToSlave)
           M == Append(ToMaster, a)
<1> USE DEF RInv
<1>1. /\ ToMaster \in Seq(Messages) /\ ToSlave \in Seq(Messages) /\ next_version \in Nat
      /\ AcksAreNumbered(ToMaster) /\ ChangesAreNumbered(ToSlave)
      /\ map["master"] \in [Keys -> Contents] /\ map["slave"] \in [Keys -> Contents]
      /\ inbox = [e \in Ends |-> IF e = "master" THEN ToMaster ELSE ToSlave]
      /\ map = [e \in Ends |-> IF e = "master" THEN map["master"] ELSE map["slave"]]
      /\ pendingForAck \subseteq Pending
  BY Types
<1>2. ToSlave # <<>>
  BY DEF ReceiveChange, ToSlave
<1>3. /\ Len(ToSlave) \in Nat /\ 1 \in 1 .. Len(ToSlave) /\ c = ToSlave[1] /\ c \in Messages
      /\ S \in Seq(Messages) /\ Len(S) = Len(ToSlave) - 1
      /\ \A i \in 1 .. Len(S) : i + 1 \in 1 .. Len(ToSlave) /\ S[i] = ToSlave[i + 1]
  BY <1>1, <1>2, TailIndices
<1>4. c.op = "change" /\ c.version # 0
  BY <1>1, <1>3 DEF ChangesAreNumbered
<1>5. a \in Messages /\ a.op = "ACK" /\ a.key = c.key /\ a.version = c.version
  <2>1. c.version \in Nat /\ c.key \in Keys /\ NoValue \in Contents
    BY <1>3 DEF Messages, Contents
  <2> HIDE DEF c
  <2> QED BY <2>1 DEF Ack, Messages
<1>6. /\ M \in Seq(Messages) /\ Len(ToMaster) \in Nat /\ Len(M) = Len(ToMaster) + 1
      /\ \A i \in 1 .. Len(ToMaster) : M[i] = ToMaster[i]
      /\ M[Len(ToMaster) + 1] = a
      /\ \A i \in 1 .. Len(M) : i \in 1 .. Len(ToMaster) \/ i = Len(ToMaster) + 1
  <2> HIDE DEF a
  <2> QED BY <1>1, <1>5, AppendIndices
<1>7. /\ inbox' = [e \in Ends |-> IF e = "master" THEN M ELSE S]
      /\ ToMaster' = M /\ ToSlave' = S
  <2>1. inbox' = [inbox EXCEPT !["slave"] = Tail(@), !["master"] = @ \o Reply("slave", c)]
    BY DEF ReceiveChange, Other, ToSlave
  <2>2. Reply("slave", c) = <<a>>
    BY <1>4 DEF Reply
  <2>3. inbox' = [e \in Ends |-> IF e = "master" THEN ToMaster \o <<a>> ELSE S]
    BY <1>1, <2>1, <2>2 DEF Ends
  <2>4. ToMaster \o <<a>> = M
    BY <1>1, <1>5, AppendIsConcat
  <2> QED BY <2>3, <2>4 DEF Ends, ToMaster, ToSlave
<1>8. /\ map' = [e \in Ends |-> IF e = "master" THEN map["master"]
                                ELSE [map["slave"] EXCEPT ![c.key] = c.value]]
      /\ next_version' = next_version /\ pendingForAck' = pendingForAck /\ changes' = changes
  <2>1. map' = [map EXCEPT !["slave"][c.key] = c.value]
    BY DEF ReceiveChange, Rejects, is_master, ToSlave
  <2>2. map' = [map EXCEPT !["slave"] = [map["slave"] EXCEPT ![c.key] = c.value]]
    BY <2>1
  <2> QED BY <1>1, <2>2 DEF ReceiveChange, Ends
<1>9. c.key \in Keys /\ c.value \in Contents
  BY <1>3 DEF Messages
<1> HIDE DEF c, a, S, M
<1>10. /\ map' \in [Ends -> [Keys -> Contents]] /\ map'["master"] = map["master"]
       /\ \A k \in Keys : map'["slave"][k] = IF c.key = k THEN c.value ELSE map["slave"][k]
  BY <1>1, <1>8, <1>9 DEF Ends
<1>11. Numbered(ToSlave, ToMaster, next_version)'
  <2>1. Numbered(Tail(ToSlave), Append(ToMaster, a), next_version)
    BY <1>1, <1>2, <1>5, NumberedReply DEF c
  <2> QED BY <1>7, <1>8, <2>1 DEF S, M
<1>12. TypeOK'
  <2>1. AcksAreNumbered(M)
    BY <1>1, <1>4, <1>5, <1>6 DEF AcksAreNumbered
  <2>2. ChangesAreNumbered(S)
    BY <1>1, <1>3 DEF ChangesAreNumbered
  <2>3. changes' \in 0 .. MaxChanges
    BY <1>8 DEF TypeOK
  <2> QED BY <1>1, <1>3, <1>6, <1>7, <1>8, <1>10, <2>1, <2>2, <2>3, TypesNext
<1>13. WaitInv'
  <2> SUFFICES ASSUME NEW p \in pendingForAck, p.key \notin removed'
               PROVE  /\ ~p.dead
                      /\ \A q \in pendingForAck : q.key = p.key => q = p
                      /\ Comes(p, S, M)
    BY <1>7, <1>8 DEF WaitInv
  <2>1. /\ ~p.dead /\ \A q \in pendingForAck : q.key = p.key => q = p
        /\ Comes(p, ToSlave, ToMaster)
    BY DEF WaitInv, Recorded
  <2>2. a = Ack(Head(ToSlave).version, Head(ToSlave).key)
    BY DEF a, c
  <2>3. Comes(p, Tail(ToSlave), Append(ToMaster, a))
    BY <1>1, <1>2, <1>5, <2>1, <2>2, ComesReply
  <2> QED BY <2>1, <2>3 DEF S, M
<1>14. PatientInv'
  <2> SUFFICES ASSUME NEW k \in Patient'
               PROVE  /\ Awaited(k, pendingForAck', ToSlave', ToMaster')
                      /\ Leads(k, ToSlave', ToMaster', map'["master"][k], map'["slave"][k])
    BY DEF PatientInv
  <2>1. k \in Keys /\ k \in Patient
    BY DEF Patient, Recorded
  <2>2. /\ Awaited(k, pendingForAck, ToSlave, ToMaster)
        /\ Leads(k, ToSlave, ToMaster, map["master"][k], map["slave"][k])
    BY <2>1 DEF PatientInv
  <2>3. a = Ack(Head(ToSlave).version, Head(ToSlave).key)
    BY DEF a, c
  <2>4. Awaited(k, pendingForAck, S, M)
    BY <1>1, <1>2, <1>5, <2>2, <2>3, AwaitedReply DEF S, M
  <2>5. Leads(k, S, M, map["master"][k], map'["slave"][k])
    BY <1>1, <1>2, <1>5, <1>10, <2>1, <2>2, LeadsReply DEF S, M, c
  <2> QED BY <1>7, <1>8, <1>10, <2>4, <2>5
<1> QED BY <1>11, <1>12, <1>13, <1>14

\* What the master's queue is after it has received its head.
LEMMA MasterTail ==
    ASSUME RInv, ToMaster # <<>>, inbox' = [inbox EXCEPT !["master"] = Tail(@)]
    PROVE  /\ ToMaster' = Tail(ToMaster) /\ ToSlave' = ToSlave
           /\ inbox' = [e \in Ends |-> IF e = "master" THEN ToMaster' ELSE ToSlave']
           /\ ToMaster' \in Seq(Messages) /\ AcksAreNumbered(ToMaster')
           /\ Numbered(ToSlave', ToMaster', next_version)
           /\ 1 \in 1 .. Len(ToMaster) /\ Head(ToMaster) = ToMaster[1]
           /\ Head(ToMaster) \in Messages
<1> DEFINE M == Tail(ToMaster)
<1> USE DEF RInv
<1>1. /\ ToMaster \in Seq(Messages) /\ ToSlave \in Seq(Messages) /\ next_version \in Nat
      /\ AcksAreNumbered(ToMaster)
      /\ inbox = [e \in Ends |-> IF e = "master" THEN ToMaster ELSE ToSlave]
  BY Types
<1>2. /\ 1 \in 1 .. Len(ToMaster) /\ Head(ToMaster) = ToMaster[1] /\ Head(ToMaster) \in Messages
      /\ M \in Seq(Messages)
      /\ \A i \in 1 .. Len(M) : i + 1 \in 1 .. Len(ToMaster) /\ M[i] = ToMaster[i + 1]
  BY <1>1, TailIndices
<1>3. /\ inbox' = [e \in Ends |-> IF e = "master" THEN M ELSE ToSlave]
      /\ ToMaster' = M /\ ToSlave' = ToSlave
  BY <1>1 DEF Ends, ToMaster, ToSlave
<1>4. Numbered(ToSlave, M, next_version)
  BY <1>1, NumberedTail
<1> HIDE DEF M
<1>5. AcksAreNumbered(M)
  BY <1>1, <1>2 DEF AcksAreNumbered
<1> QED BY <1>2, <1>3, <1>4, <1>5 DEF M

\* The master takes over a change of a key that does not wait.
LEMMA MasterReceivesChange ==
    ASSUME RInv, ReceiveChange("master"), Recorded
    PROVE  RInv'
<1> DEFINE c == Head(ToMaster)
<1> USE DEF RInv
<1>1. /\ ToMaster \in Seq(Messages) /\ ToSlave \in Seq(Messages) /\ next_version \in Nat
      /\ AcksAreNumbered(ToMaster) /\ ChangesAreNumbered(ToSlave)
      /\ map["master"] \in [Keys -> Contents] /\ map["slave"] \in [Keys -> Contents]
      /\ inbox = [e \in Ends |-> IF e = "master" THEN ToMaster ELSE ToSlave]
      /\ map = [e \in Ends |-> IF e = "master" THEN map["master"] ELSE map["slave"]]
      /\ pendingForAck \subseteq Pending
  BY Types
<1>2. ToMaster # <<>> /\ c.op = "change"
  BY DEF ReceiveChange, ToMaster
<1>3. 1 \in 1 .. Len(ToMaster) /\ c = ToMaster[1] /\ c \in Messages
  BY <1>1, <1>2, TailIndices
<1>4. c.version = 0
  BY <1>1, <1>2, <1>3 DEF AcksAreNumbered
<1>5. inbox' = [inbox EXCEPT !["master"] = Tail(@)]
  <2>1. Reply("master", c) = <<>>
    BY <1>4 DEF Reply
  <2>2. inbox' = [inbox EXCEPT !["master"] = Tail(@), !["slave"] = @ \o <<>>]
    BY <2>1 DEF ReceiveChange, Other, ToMaster
  <2>3. ToSlave \o <<>> = ToSlave
    BY <1>1, ConcatEmptySeq
  <2> QED BY <1>1, <2>2, <2>3 DEF Ends
<1>6. /\ ToMaster' = Tail(ToMaster) /\ ToSlave' = ToSlave
      /\ inbox' = [e \in Ends |-> IF e = "master" THEN ToMaster' ELSE ToSlave']
      /\ ToMaster' \in Seq(Messages) /\ AcksAreNumbered(ToMaster')
      /\ Numbered(ToSlave', ToMaster', next_version)
  BY <1>2, <1>5, MasterTail
<1>7. /\ next_version' = next_version /\ pendingForAck' = pendingForAck /\ changes' = changes
      /\ \/ MayMiss(c.key) /\ map' = [map EXCEPT !["master"][c.key] = c.value]
         \/ Found(c.key) # {} /\ map' = map
  BY <1>4 DEF ReceiveChange, Accepts, Rejects, is_master, ToMaster
<1>8. c.key \in Keys /\ c.value \in Contents
  BY <1>3 DEF Messages
<1> HIDE DEF c
<1>9. /\ map'["slave"] = map["slave"]
      /\ map' \in [Ends -> [Keys -> Contents]]
      /\ \A k \in Keys :
            \/ k # c.key /\ map'["master"][k] = map["master"][k]
            \/ k = c.key /\ MayMiss(k) /\ map'["master"][k] = c.value
            \/ k = c.key /\ Found(k) # {} /\ map'["master"][k] = map["master"][k]
  <2>1. CASE MayMiss(c.key) /\ map' = [map EXCEPT !["master"][c.key] = c.value]
    <3>1. map' = [map EXCEPT !["master"] = [map["master"] EXCEPT ![c.key] = c.value]]
      BY <2>1
    <3>2. map' = [e \in Ends |-> IF e = "master" THEN [map["master"] EXCEPT ![c.key] = c.value]
                                 ELSE map["slave"]]
      BY <1>1, <3>1 DEF Ends
    <3> QED BY <1>1, <1>8, <2>1, <3>2 DEF Ends
  <2>2. CASE Found(c.key) # {} /\ map' = map
    BY <1>1, <2>2 DEF TypeOK
  <2> QED BY <1>7, <2>1, <2>2
<1>10. TypeOK'
  <2>1. changes' \in 0 .. MaxChanges /\ ToSlave' \in Seq(Messages) /\ ChangesAreNumbered(ToSlave')
        /\ next_version' \in Nat /\ pendingForAck' \subseteq Pending
    BY <1>1, <1>6, <1>7 DEF TypeOK
  <2> QED BY <1>6, <1>9, <2>1, TypesNext
<1>11. WaitInv'
  <2> SUFFICES ASSUME NEW p \in pendingForAck, p.key \notin removed'
               PROVE  /\ ~p.dead
                      /\ \A q \in pendingForAck : q.key = p.key => q = p
                      /\ Comes(p, ToSlave, Tail(ToMaster))
    BY <1>6, <1>7 DEF WaitInv
  <2>1. /\ ~p.dead /\ \A q \in pendingForAck : q.key = p.key => q = p
        /\ Comes(p, ToSlave, ToMaster)
    BY DEF WaitInv, Recorded
  <2>2. Head(ToMaster) # Ack(p.version, p.key)
    <3>1. Ack(p.version, p.key).op = "ACK"
      BY DEF Ack
    <3> QED BY <1>2, <3>1 DEF c
  <2> QED BY <1>1, <1>2, <2>1, <2>2, ComesTail
<1>12. PatientInv'
  <2> SUFFICES ASSUME NEW k \in Patient'
               PROVE  /\ Awaited(k, pendingForAck', ToSlave', ToMaster')
                      /\ Leads(k, ToSlave', ToMaster', map'["master"][k], map'["slave"][k])
    BY DEF PatientInv
  <2>1. k \in Keys /\ k \in Patient /\ k \notin removed
    BY DEF Patient, Recorded
  <2>2. /\ Awaited(k, pendingForAck, ToSlave, ToMaster)
        /\ Leads(k, ToSlave, ToMaster, map["master"][k], map["slave"][k])
    BY <2>1 DEF PatientInv
  <2>3. Awaited(k, pendingForAck, ToSlave, Tail(ToMaster))
    BY <1>1, <1>2, <2>2, AwaitedTail
  <2>4. Leads(k, ToSlave, Tail(ToMaster), map'["master"][k], map["slave"][k])
    <3>1. CASE k # c.key /\ map'["master"][k] = map["master"][k]
      <4>1. ~Takes(k, ToMaster, 1)
        BY <1>3, <3>1 DEF Takes
      <4> QED BY <1>1, <1>2, <2>2, <3>1, <4>1, LeadsTail
    <3>2. CASE k = c.key /\ MayMiss(k) /\ map'["master"][k] = c.value
      <4>1. Found(k) = {}
        BY <2>1, <3>2 DEF MayMiss, Found, WaitInv
      <4>2. /\ \A i \in 1 .. Len(ToSlave) : ToSlave[i].key # k
            /\ \A i \in 1 .. Len(ToMaster) : ~(ToMaster[i].op = "ACK" /\ ToMaster[i].key = k)
        BY <2>1, <4>1, NothingAwaited
      <4>3. Takes(k, ToMaster, 1)
        BY <1>2, <1>3, <3>2, <4>2 DEF Takes
      <4>4. Leads(k, ToSlave, Tail(ToMaster), ToMaster[1].value, map["slave"][k])
        BY <1>1, <1>2, <2>2, <4>2, <4>3, LeadsTaken
      <4> QED BY <1>3, <3>2, <4>4
    <3>3. CASE k = c.key /\ Found(k) # {} /\ map'["master"][k] = map["master"][k]
      <4>1. PICK p \in pendingForAck : p.key = k
        BY <3>3 DEF Found
      <4>2. Comes(p, ToSlave, ToMaster)
        BY <2>1, <4>1 DEF WaitInv
      <4>3. ASSUME NEW i \in 1 .. Len(ToSlave), ToSlave[i].key = k
            PROVE  Leads(k, ToSlave, Tail(ToMaster), map["master"][k], map["slave"][k])
        BY <2>2, <4>3 DEF Leads
      <4>4. ASSUME NEW i \in 1 .. Len(ToMaster), ToMaster[i] = Ack(p.version, p.key)
            PROVE  Leads(k, ToSlave, Tail(ToMaster), map["master"][k], map["slave"][k])
        <5>1. ToMaster[i].op = "ACK" /\ ToMaster[i].key = k
          BY <4>1, <4>4 DEF Ack
        <5>2. ~(i < 1)
          BY <1>1, LenProperties, SMT
        <5>3. ~Takes(k, ToMaster, 1)
          BY <5>1, <5>2 DEF Takes
        <5> QED BY <1>1, <1>2, <2>2, <5>3, LeadsTail
      <4> QED BY <3>3, <4>1, <4>2, <4>3, <4>4 DEF Comes
    <3> QED BY <1>9, <2>1, <3>1, <3>2, <3>3
  <2> QED BY <1>6, <1>7, <1>9, <2>3, <2>4
<1> QED BY <1>6, <1>7, <1>10, <1>11, <1>12

\* A key waits no more when its newest number is back.
LEMMA MasterReceivesAck ==
    ASSUME RInv, ReceiveAck("master"), Recorded
    PROVE  RInv'
<1> DEFINE a == Head(ToMaster)
<1> USE DEF RInv
<1>1. /\ ToMaster \in Seq(Messages) /\ ToSlave \in Seq(Messages) /\ next_version \in Nat
      /\ AcksAreNumbered(ToMaster) /\ ChangesAreNumbered(ToSlave)
      /\ pendingForAck \subseteq Pending
  BY Types
<1>2. ToMaster # <<>> /\ a.op = "ACK" /\ inbox' = [inbox EXCEPT !["master"] = Tail(@)]
  BY DEF ReceiveAck, ToMaster
<1>3. /\ Len(ToMaster) \in Nat /\ 1 \in 1 .. Len(ToMaster) /\ a = ToMaster[1] /\ a \in Messages
      /\ Len(Tail(ToMaster)) = Len(ToMaster) - 1
      /\ \A i \in 1 .. Len(Tail(ToMaster)) :
            i + 1 \in 1 .. Len(ToMaster) /\ Tail(ToMaster)[i] = ToMaster[i + 1]
  BY <1>1, <1>2, TailIndices
<1>4. /\ ToMaster' = Tail(ToMaster) /\ ToSlave' = ToSlave
      /\ inbox' = [e \in Ends |-> IF e = "master" THEN ToMaster' ELSE ToSlave']
      /\ ToMaster' \in Seq(Messages) /\ AcksAreNumbered(ToMaster')
      /\ Numbered(ToSlave', ToMaster', next_version)
  BY <1>2, MasterTail
<1>5. /\ next_version' = next_version /\ map' = map /\ changes' = changes
      /\ \/ MayMiss(a.key) /\ pendingForAck' = pendingForAck
         \/ \E p \in Found(a.key) : \/ p.version = a.version /\ pendingForAck' = pendingForAck \ {p}
                                    \/ p.version # a.version /\ pendingForAck' = pendingForAck
  BY DEF ReceiveAck, ToMaster
<1> HIDE DEF a
<1>6. /\ pendingForAck' \subseteq pendingForAck
      /\ \A p \in pendingForAck : p \notin pendingForAck' => p.key = a.key /\ p.version = a.version
  BY <1>5 DEF Found
<1>7. TypeOK'
  <2>1. /\ changes' \in 0 .. MaxChanges /\ map' \in [Ends -> [Keys -> Contents]]
        /\ ToSlave' \in Seq(Messages) /\ ChangesAreNumbered(ToSlave')
        /\ next_version' \in Nat /\ pendingForAck' \subseteq Pending
    BY <1>1, <1>4, <1>5, <1>6 DEF TypeOK
  <2> QED BY <1>4, <2>1, TypesNext
<1>8. WaitInv'
  <2> SUFFICES ASSUME NEW p \in pendingForAck', p.key \notin removed'
               PROVE  /\ ~p.dead
                      /\ \A q \in pendingForAck' : q.key = p.key => q = p
                      /\ Comes(p, ToSlave', ToMaster')
    BY DEF WaitInv
  <2>1. /\ p \in pendingForAck /\ ~p.dead
        /\ \A q \in pendingForAck : q.key = p.key => q = p
        /\ Comes(p, ToSlave, ToMaster)
    BY <1>6 DEF WaitInv, Recorded
  <2>2. Head(ToMaster) # Ack(p.version, p.key)
    <3> SUFFICES ASSUME a = Ack(p.version, p.key) PROVE FALSE
      BY DEF a
    <3>1. a.key = p.key /\ a.version = p.version
      BY DEF Ack
    <3>2. ~MayMiss(a.key)
      BY <2>1, <3>1 DEF MayMiss, Found
    <3>3. \A q \in Found(a.key) : q = p
      BY <2>1, <3>1 DEF Found
    <3> QED BY <1>5, <3>1, <3>2, <3>3
  <2>3. Comes(p, ToSlave, Tail(ToMaster))
    BY <1>1, <1>2, <2>1, <2>2, ComesTail
  <2> QED BY <1>4, <1>6, <2>1, <2>3
<1>9. PatientInv'
  <2> SUFFICES ASSUME NEW k \in Patient'
               PROVE  /\ Awaited(k, pendingForAck', ToSlave', ToMaster')
                      /\ Leads(k, ToSlave', ToMaster', map'["master"][k], map'["slave"][k])
    BY DEF PatientInv
  <2>1. k \in Keys /\ k \in Patient /\ k \notin removed
    BY DEF Patient, Recorded
  <2>2. /\ Awaited(k, pendingForAck, ToSlave, ToMaster)
        /\ Leads(k, ToSlave, ToMaster, map["master"][k], map["slave"][k])
    BY <2>1 DEF PatientInv
  <2>3. Awaited(k, pendingForAck, ToSlave, Tail(ToMaster))
    BY <1>1, <1>2, <2>2, AwaitedTail
  <2>4. \A n : n # a.version /\ Entry(k, n) \in pendingForAck => Entry(k, n) \in pendingForAck'
    <3>1. \A n : Entry(k, n).version = n
      BY DEF Entry
    <3> QED BY <1>6, <3>1
  <2>5. a.version \in Nat
    BY <1>3 DEF Messages
  <2>6. ASSUME NEW i \in 1 .. Len(ToSlave) PROVE ToSlave[i].version # a.version
    <3>1. a.version < ToSlave[i].version
      BY <1>2, <1>3 DEF Numbered, a
    <3> QED BY <2>5, <3>1, SMT
  <2>7. ASSUME NEW i \in 1 .. Len(Tail(ToMaster)), Tail(ToMaster)[i].op = "ACK"
        PROVE  Tail(ToMaster)[i].version # a.version
    <3>1. 1 < i + 1
      BY <1>3, SMT
    <3>2. a.version < Tail(ToMaster)[i].version
      BY <1>2, <1>3, <2>7, <3>1 DEF Numbered, a
    <3> QED BY <2>5, <3>2, SMT
  <2>8. Awaited(k, pendingForAck', ToSlave, Tail(ToMaster))
    <3> DEFINE M == Tail(ToMaster)
    <3> HIDE DEF M
    <3>1. Awaited(k, pendingForAck', ToSlave, M)
      BY <2>3, <2>4, <2>6, <2>7 DEF Awaited, M
    <3> QED BY <3>1 DEF M
  <2>9. ~Takes(k, ToMaster, 1)
    BY <1>2, <1>3 DEF Takes, a
  <2>10. Leads(k, ToSlave, Tail(ToMaster), map["master"][k], map["slave"][k])
    BY <1>1, <1>2, <2>2, <2>9, LeadsTail
  <2> QED BY <1>4, <1>5, <2>8, <2>10
<1> QED BY <1>4, <1>5, <1>7, <1>8, <1>9

-----------------------------------------------------------------------------

\* Steps that change nothing.
LEMMA Stuttering ==
    ASSUME RInv, UNCHANGED mcvars
    PROVE  RInv'
<1>1. UNCHANGED <<map, next_version, pendingForAck, inbox, changes, removed, hurried>>
  BY DEF mcvars, vars
<1>2. ToMaster' = ToMaster /\ ToSlave' = ToSlave
  BY <1>1 DEF ToMaster, ToSlave
<1>3. TypeOK'
  BY <1>1 DEF RInv, TypeOK
<1>4. WaitInv' /\ PatientInv'
  BY <1>1, <1>2 DEF RInv, WaitInv, PatientInv, Patient
<1> QED BY <1>1, <1>2, <1>3, <1>4 DEF RInv

\* Nothing is on its way, and the ends agree.
LEMMA InitRInv ==
    ASSUME MCInit
    PROVE  RInv
<1> USE DEF MCInit, Init
<1>1. ToMaster = <<>> /\ ToSlave = <<>>
  BY DEF ToMaster, ToSlave, Ends
<1>2. pendingForAck = {} /\ next_version = 0 /\ removed = {} /\ hurried = {} /\ changes = 0
  OBVIOUS
<1>3. map = [e \in Ends |-> [k \in Keys |-> NoValue]]
  OBVIOUS
<1>4. map["master"] = map["slave"] /\ map \in [Ends -> [Keys -> Contents]]
  BY <1>3 DEF Ends, Contents
<1> HIDE DEF MCInit, Init
<1>5. Len(ToMaster) = 0 /\ Len(ToSlave) = 0
  BY <1>1, EmptySeq
<1>6. 1 .. Len(ToMaster) = {} /\ 1 .. Len(ToSlave) = {}
  BY <1>5, SMT
<1>7. TypeOK
  <2>1. inbox = [e \in Ends |-> <<>>] /\ DOMAIN <<>> = {} /\ <<>> \in Seq(Messages)
    BY DEF MCInit, Init
  <2>2. DOMAIN inbox["master"] = {} /\ DOMAIN inbox["slave"] = {}
    BY <2>1 DEF Ends
  <2>3. changes \in 0 .. MaxChanges /\ next_version \in Nat
    BY <1>2, RdMapAssumption, SMT DEF RdMapAssumption
  <2> QED BY <1>2, <1>4, <2>1, <2>2, <2>3 DEF TypeOK
<1>8. Numbered(ToSlave, ToMaster, next_version)
  BY <1>6 DEF Numbered
<1>9. WaitInv
  BY <1>2 DEF WaitInv
<1>10. PatientInv
  BY <1>4, <1>6 DEF PatientInv, Awaited, Leads
<1> QED BY <1>7, <1>8, <1>9, <1>10 DEF RInv

\* Every step keeps the invariant.
LEMMA NextRInv ==
    ASSUME RInv, [MCNext]_mcvars
    PROVE  RInv'
<1>1. ASSUME MCNext PROVE RInv'
  <2>1. Recorded /\ Next
    BY <1>1, Recording DEF MCNext
  <2>2. PICK e \in Ends :
            \/ \E k \in Keys : RemoveKey(e, k) \/ \E v \in Values : Set(e, k, v)
            \/ Clear(e)
            \/ ReceiveChange(e)
            \/ ReceiveAck(e)
    BY <2>1 DEF Next
  <2>3. e = "master" \/ e = "slave"
    BY DEF Ends
  <2>4. CASE \/ \E k \in Keys : RemoveKey(e, k) \/ \E v \in Values : Set(e, k, v)
             \/ Clear(e)
    <3>1. PICK ks, v : Proper(e, ks, v) /\ Fire(e, ks, v)
      BY <2>4, Firings
    <3> QED BY <2>1, <2>3, <3>1, MasterFires, SlaveFires
  <2>5. CASE ReceiveChange(e)
    BY <2>1, <2>3, <2>5, MasterReceivesChange, SlaveReceives
  <2>6. CASE ReceiveAck(e)
    <3>1. e = "master"
      BY <2>3, <2>6 DEF ReceiveAck, is_master
    <3> QED BY <2>1, <2>6, <3>1, MasterReceivesAck
  <2> QED BY <2>2, <2>4, <2>5, <2>6
<1> QED BY <1>1, Stuttering

\* RInv holds in every state: the numbers on their way are in order, each key
\* that waits waits for one of them, and the ends' values of a key that is
\* changed patiently are as far apart as what is on its way.
THEOREM RInvariance == MCSpec => []RInv
<1>1. MCInit => RInv
  BY InitRInv
<1>2. RInv /\ [MCNext]_mcvars => RInv'
  BY NextRInv
<1> QED BY <1>1, <1>2, PTL DEF MCSpec

\* Every variable of RdMap.h keeps to its type; only numbered changes go to the
\* slave, and the master gets its own numbers back.
THEOREM TypeCorrect == MCSpec => []TypeOK
<1>1. RInv => TypeOK
  BY DEF RInv
<1> QED BY <1>1, RInvariance, PTL

\* When nothing is on its way, both ends have the same value of every key that
\* the master changes patiently.
THEOREM EndsConverge == MCSpec => []Convergence
<1>1. RInv => Convergence
  <2> SUFFICES ASSUME RInv, inbox = [e \in Ends |-> <<>>], NEW k \in Patient
               PROVE  map["master"][k] = map["slave"][k]
    BY DEF Convergence
  <2>1. ToMaster = <<>> /\ ToSlave = <<>>
    BY DEF ToMaster, ToSlave, Ends
  <2>2. Len(ToMaster) = 0 /\ Len(ToSlave) = 0
    BY <2>1, EmptySeq
  <2>3. 1 .. Len(ToMaster) = {} /\ 1 .. Len(ToSlave) = {}
    BY <2>2, SMT
  <2>4. Leads(k, ToSlave, ToMaster, map["master"][k], map["slave"][k])
    BY DEF RInv, PatientInv
  <2> QED BY <2>3, <2>4 DEF Leads
<1> QED BY <1>1, RInvariance, PTL

\* A key in pendingForAck that was not removed waits for a change that is on its
\* way to the slave, or for an acknowledgement that is on its way back.
THEOREM NoKeyWaitsInVain == MCSpec => []AcknowledgementComes
<1>1. RInv => AcknowledgementComes
  <2> SUFFICES ASSUME RInv, NEW p \in pendingForAck, p.key \notin removed
               PROVE  \/ \E i \in DOMAIN inbox["slave"] :
                            inbox["slave"][i].key = p.key /\ inbox["slave"][i].version = p.version
                      \/ Ack(p.version, p.key) \in ToSet(inbox["master"])
    BY DEF AcknowledgementComes
  <2>1. Comes(p, ToSlave, ToMaster)
    BY DEF RInv, WaitInv
  <2>2. DOMAIN ToMaster = 1 .. Len(ToMaster) /\ DOMAIN ToSlave = 1 .. Len(ToSlave)
    BY Types DEF RInv
  <2> QED BY <2>1, <2>2 DEF Comes, ToSet, ToMaster, ToSlave
<1> QED BY <1>1, RInvariance, PTL

\* on_wire_received of the master changes a key that it changes patiently only
\* when the slave has seen all of the master's own changes of it.
THEOREM MasterDecides == MCSpec => MasterIsNotOverruled
<1>1. ASSUME RInv
      PROVE  ReceiveChange("master") =>
                \A k \in Patient : map'["master"][k] # map["master"][k] => ~InFlight(k)
  <2> SUFFICES ASSUME ReceiveChange("master"), NEW k \in Patient,
                      map'["master"][k] # map["master"][k], InFlight(k)
               PROVE  FALSE
    OBVIOUS
  <2> DEFINE c == Head(ToMaster)
  <2>1. /\ ToMaster \in Seq(Messages) /\ AcksAreNumbered(ToMaster)
        /\ map["master"] \in [Keys -> Contents]
        /\ DOMAIN ToSlave = 1 .. Len(ToSlave)
        /\ map = [e \in Ends |-> IF e = "master" THEN map["master"] ELSE map["slave"]]
    BY <1>1, Types DEF RInv
  <2>2. ToMaster # <<>> /\ c.op = "change"
    BY DEF ReceiveChange, ToMaster
  <2>3. 1 \in 1 .. Len(ToMaster) /\ c = ToMaster[1] /\ c \in Messages
    BY <2>1, <2>2, TailIndices
  <2>4. c.version = 0
    BY <2>1, <2>2, <2>3 DEF AcksAreNumbered
  <2>5. \/ MayMiss(c.key) /\ map' = [map EXCEPT !["master"][c.key] = c.value]
        \/ map' = map
    BY <2>4 DEF ReceiveChange, Accepts, Rejects, is_master, ToMaster
  <2>6. k \in Keys /\ k \notin removed /\ c.key \in Keys
    BY <2>3 DEF Patient, Messages
  <2> HIDE DEF c
  <2>7. MayMiss(c.key) /\ map' = [map EXCEPT !["master"] = [map["master"] EXCEPT ![c.key] = c.value]]
    BY <2>5
  <2>8. map'["master"] = [map["master"] EXCEPT ![c.key] = c.value]
    BY <2>1, <2>7 DEF Ends
  <2>9. c.key = k /\ MayMiss(k)
    BY <2>1, <2>6, <2>7, <2>8
  <2>10. Found(k) = {}
    BY <1>1, <2>6, <2>9 DEF RInv, WaitInv, MayMiss, Found
  <2>11. \A i \in 1 .. Len(ToSlave) : ToSlave[i].key # k
    BY <1>1, <2>10, NothingAwaited
  <2> QED BY <2>1, <2>11 DEF InFlight, ToSlave
<1>2. RInv => [ReceiveChange("master") =>
          \A k \in Patient : map'["master"][k] # map["master"][k] => ~InFlight(k)]_mcvars
  BY <1>1
<1>3. []RInv => MasterIsNotOverruled
  BY <1>2, PTL DEF MasterIsNotOverruled
<1> QED BY <1>3, RInvariance, PTL
=============================================================================
