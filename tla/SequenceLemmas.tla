---------------------------- MODULE SequenceLemmas ----------------------------
(***************************************************************************)
(* What the proofs of this project need to know about queues, beyond the   *)
(* theorems of the library.                                                *)
(***************************************************************************)
EXTENDS Integers, Sequences, Functions, SequenceTheorems, TLAPS

\* The front of a queue and what remains.
LEMMA TailIndices ==
    ASSUME NEW S, NEW s \in Seq(S), s # <<>>
    PROVE  /\ Len(s) \in Nat /\ 1 \in 1 .. Len(s) /\ Head(s) = s[1] /\ Head(s) \in S
           /\ Tail(s) \in Seq(S) /\ Len(Tail(s)) = Len(s) - 1
           /\ \A i \in 1 .. Len(Tail(s)) : i + 1 \in 1 .. Len(s) /\ Tail(s)[i] = s[i + 1]
<1>1. Len(s) \in Nat /\ Len(s) # 0
  BY EmptySeq, LenProperties
<1>2. /\ Head(s) \in S /\ Tail(s) \in Seq(S) /\ Len(Tail(s)) = Len(s) - 1
      /\ \A i \in 1 .. Len(Tail(s)) : Tail(s)[i] = s[i + 1]
  BY HeadTailProperties
<1> QED BY <1>1, <1>2, SMT

\* The back of a queue after something was put into it.
LEMMA AppendIndices ==
    ASSUME NEW S, NEW s \in Seq(S), NEW e \in S
    PROVE  /\ Append(s, e) \in Seq(S) /\ Len(s) \in Nat /\ Len(Append(s, e)) = Len(s) + 1
           /\ \A i \in 1 .. Len(s) : Append(s, e)[i] = s[i]
           /\ Append(s, e)[Len(s) + 1] = e
           /\ \A i \in 1 .. Len(Append(s, e)) : i \in 1 .. Len(s) \/ i = Len(s) + 1
<1>1. /\ Append(s, e) \in Seq(S) /\ Len(s) \in Nat /\ Len(Append(s, e)) = Len(s) + 1
      /\ \A i \in 1 .. Len(s) : Append(s, e)[i] = s[i]
      /\ Append(s, e)[Len(s) + 1] = e
  BY AppendProperties, LenProperties
<1> QED BY <1>1, SMT

\* Two queues, one put behind the other.
LEMMA ConcatIndices ==
    ASSUME NEW S, NEW s \in Seq(S), NEW t \in Seq(S)
    PROVE  /\ s \o t \in Seq(S) /\ Len(s) \in Nat /\ Len(t) \in Nat
           /\ Len(s \o t) = Len(s) + Len(t)
           /\ \A i \in 1 .. Len(s) : i \in 1 .. Len(s \o t) /\ (s \o t)[i] = s[i]
           /\ \A j \in 1 .. Len(t) :
                 Len(s) + j \in 1 .. Len(s \o t) /\ (s \o t)[Len(s) + j] = t[j]
           /\ \A i \in 1 .. Len(s \o t) :
                 i \in 1 .. Len(s) \/ \E j \in 1 .. Len(t) : i = Len(s) + j
<1> DEFINE r == s \o t
<1>1. /\ r \in Seq(S) /\ Len(s) \in Nat /\ Len(t) \in Nat /\ Len(r) = Len(s) + Len(t)
      /\ \A i \in 1 .. Len(s) + Len(t) : r[i] = IF i <= Len(s) THEN s[i] ELSE t[i - Len(s)]
  BY ConcatProperties, LenProperties
<1> HIDE DEF r
<1>2. \A i \in 1 .. Len(s) : i \in 1 .. Len(r) /\ r[i] = s[i]
  BY <1>1, SMT
<1>3. ASSUME NEW j \in 1 .. Len(t) PROVE Len(s) + j \in 1 .. Len(r) /\ r[Len(s) + j] = t[j]
  <2>1. /\ Len(s) + j \in 1 .. Len(s) + Len(t) /\ ~(Len(s) + j <= Len(s))
        /\ Len(s) + j - Len(s) = j
    BY <1>1, SMT
  <2> QED BY <1>1, <2>1
<1>4. ASSUME NEW i \in 1 .. Len(r), i \notin 1 .. Len(s)
      PROVE  \E j \in 1 .. Len(t) : i = Len(s) + j
  <2>1. i - Len(s) \in 1 .. Len(t) /\ i = Len(s) + (i - Len(s))
    BY <1>1, <1>4, SMT
  <2> QED BY <2>1
<1> QED BY <1>1, <1>2, <1>3, <1>4 DEF r

\* r is s with t behind it.
Joined(s, t, r) ==
    /\ Len(s) \in Nat /\ Len(t) \in Nat /\ Len(r) = Len(s) + Len(t)
    /\ \A i \in 1 .. Len(s) : i \in 1 .. Len(r) /\ r[i] = s[i]
    /\ \A j \in 1 .. Len(t) : Len(s) + j \in 1 .. Len(r) /\ r[Len(s) + j] = t[j]
    /\ \A i \in 1 .. Len(r) : i \in 1 .. Len(s) \/ \E j \in 1 .. Len(t) : i = Len(s) + j

\* A concatenation is such a sequence.
LEMMA Joining ==
    ASSUME NEW S, NEW s \in Seq(S), NEW t \in Seq(S)
    PROVE  s \o t \in Seq(S) /\ Joined(s, t, s \o t)
<1> DEFINE r == s \o t
<1>1. /\ r \in Seq(S) /\ Len(s) \in Nat /\ Len(t) \in Nat /\ Len(r) = Len(s) + Len(t)
      /\ \A i \in 1 .. Len(s) : i \in 1 .. Len(r) /\ r[i] = s[i]
      /\ \A j \in 1 .. Len(t) : Len(s) + j \in 1 .. Len(r) /\ r[Len(s) + j] = t[j]
      /\ \A i \in 1 .. Len(r) : i \in 1 .. Len(s) \/ \E j \in 1 .. Len(t) : i = Len(s) + j
  BY ConcatIndices
<1> HIDE DEF r
<1>2. r \in Seq(S) /\ Joined(s, t, r)
  BY <1>1 DEF Joined
<1> QED BY <1>2 DEF r

\* What a connection that dies leaves to be read.
LEMMA PrefixProperties ==
    ASSUME NEW S, NEW s \in Seq(S), NEW k \in 0 .. Len(s)
    PROVE  /\ SubSeq(s, 1, k) \in Seq(S) /\ Len(SubSeq(s, 1, k)) = k
           /\ \A i \in 1 .. k : i \in 1 .. Len(s) /\ SubSeq(s, 1, k)[i] = s[i]
<1>1. Len(s) \in Nat /\ 1 \in Int /\ k \in Int
  BY LenProperties, SMT
<1>2. \A i \in 1 .. k : i \in 1 .. Len(s) /\ s[i] \in S
  BY <1>1, ElementOfSeq, SMT
<1>3. /\ SubSeq(s, 1, k) \in Seq(S)
      /\ Len(SubSeq(s, 1, k)) = IF 1 <= k THEN k - 1 + 1 ELSE 0
      /\ \A i \in 1 .. k - 1 + 1 : SubSeq(s, 1, k)[i] = s[1 + i - 1]
  BY <1>1, <1>2, SubSeqProperties
<1> QED BY <1>1, <1>2, <1>3, SMT

\* A queue whose elements are all of a kind is a queue of that kind.
LEMMA SeqOfElements ==
    ASSUME NEW S, NEW T, NEW s \in Seq(S), \A i \in 1 .. Len(s) : s[i] \in T
    PROVE  s \in Seq(T)
<1>1. Len(s) \in Nat /\ s \in [1 .. Len(s) -> S]
  BY LenProperties
<1>2. s \in [1 .. Len(s) -> T]
  BY <1>1
<1> QED BY <1>1, <1>2, SeqDef

\* What is in a queue after something was put into it.
LEMMA RangeOfAppend ==
    ASSUME NEW S, NEW s \in Seq(S), NEW e \in S
    PROVE  Range(Append(s, e)) = Range(s) \cup {e}
<1>1. /\ Append(s, e) \in Seq(S) /\ Len(Append(s, e)) = Len(s) + 1 /\ Len(s) \in Nat
      /\ \A i \in 1 .. Len(s) : Append(s, e)[i] = s[i]
      /\ Append(s, e)[Len(s) + 1] = e
  BY AppendProperties, LenProperties
<1>2. /\ Range(s) = {s[i] : i \in 1 .. Len(s)}
      /\ Range(Append(s, e)) = {Append(s, e)[i] : i \in 1 .. Len(s) + 1}
  BY <1>1, RangeEquality
<1>3. 1 .. Len(s) + 1 = (1 .. Len(s)) \cup {Len(s) + 1}
  BY <1>1, SMT
<1> QED BY <1>1, <1>2, <1>3

\* What is in a queue, seen from its front.
LEMMA RangeOfTail ==
    ASSUME NEW S, NEW s \in Seq(S), s # <<>>
    PROVE  Range(s) = {Head(s)} \cup Range(Tail(s))
<1>1. /\ Len(s) \in Nat /\ 1 \in 1 .. Len(s) /\ Head(s) = s[1]
      /\ Tail(s) \in Seq(S) /\ Len(Tail(s)) = Len(s) - 1
      /\ \A i \in 1 .. Len(Tail(s)) : i + 1 \in 1 .. Len(s) /\ Tail(s)[i] = s[i + 1]
  BY TailIndices
<1>2. /\ Range(s) = {s[i] : i \in 1 .. Len(s)}
      /\ Range(Tail(s)) = {Tail(s)[i] : i \in 1 .. Len(Tail(s))}
  <2> DEFINE t == Tail(s)
  <2>1. t \in Seq(S)
    BY <1>1
  <2> HIDE DEF t
  <2>2. Range(s) = {s[i] : i \in 1 .. Len(s)} /\ Range(t) = {t[i] : i \in 1 .. Len(t)}
    BY <2>1, RangeEquality
  <2> QED BY <2>2 DEF t
<1>3. ASSUME NEW i \in 1 .. Len(s)
      PROVE  s[i] \in {Head(s)} \cup Range(Tail(s))
  <2>1. CASE i = 1
    BY <1>1, <2>1
  <2>2. CASE i # 1
    <3>1. i - 1 \in 1 .. Len(Tail(s)) /\ (i - 1) + 1 = i
      BY <1>1, <2>2, SMT
    <3>2. Tail(s)[i - 1] = s[i]
      BY <1>1, <3>1
    <3> QED BY <1>2, <3>1, <3>2
  <2> QED BY <2>1, <2>2
<1> QED BY <1>1, <1>2, <1>3

\* Where the elements of a concatenation come from.
LEMMA RangeOfConcat ==
    ASSUME NEW S, NEW s \in Seq(S), NEW t \in Seq(S)
    PROVE  s \o t \in Seq(S) /\ Range(s \o t) = Range(s) \cup Range(t)
<1> DEFINE r == s \o t
<1>1. r \in Seq(S) /\ Joined(s, t, r)
  BY Joining
<1> HIDE DEF r
<1>2. /\ Range(s) = {s[i] : i \in 1 .. Len(s)} /\ Range(t) = {t[i] : i \in 1 .. Len(t)}
      /\ Range(r) = {r[i] : i \in 1 .. Len(r)}
  BY <1>1, RangeEquality
<1>3. \A i \in 1 .. Len(r) : r[i] \in Range(s) \cup Range(t)
  BY <1>1, <1>2 DEF Joined
<1>4. /\ \A i \in 1 .. Len(s) : s[i] \in Range(r)
      /\ \A i \in 1 .. Len(t) : t[i] \in Range(r)
  BY <1>1, <1>2 DEF Joined
<1>5. Range(r) = Range(s) \cup Range(t)
  BY <1>2, <1>3, <1>4
<1> QED BY <1>1, <1>5 DEF r

\* Sequences of no, one and two elements.
LEMMA RangeOfNone == Range(<<>>) = {}
<1> DEFINE s == <<>>
<1>1. s \in Seq({}) /\ Len(s) = 0
  BY EmptySeq, LenProperties, SMT
<1> HIDE DEF s
<1>2. Range(s) = {s[i] : i \in 1 .. Len(s)}
  BY <1>1, RangeEquality
<1>3. 1 .. Len(s) = {}
  BY <1>1, SMT
<1>4. Range(s) = {}
  BY <1>2, <1>3
<1> QED BY <1>4 DEF s

\* One element, ...
LEMMA RangeOfSingle ==
    ASSUME NEW S, NEW e \in S
    PROVE  <<e>> \in Seq(S) /\ Range(<<e>>) = {e}
<1> DEFINE s == <<e>>
<1>1. s \in Seq(S) /\ Len(s) = 1 /\ s[1] = e
  OBVIOUS
<1> HIDE DEF s
<1>2. Range(s) = {s[i] : i \in 1 .. Len(s)}
  BY <1>1, RangeEquality
<1>3. 1 .. Len(s) = {1}
  BY <1>1, SMT
<1>4. Range(s) = {e}
  BY <1>1, <1>2, <1>3
<1> QED BY <1>1, <1>4 DEF s

\* ... and two.
LEMMA RangeOfPair ==
    ASSUME NEW S, NEW d \in S, NEW e \in S
    PROVE  <<d, e>> \in Seq(S) /\ Len(<<d, e>>) = 2 /\ Range(<<d, e>>) = {d, e}
<1> DEFINE s == <<d, e>>
<1>1. s \in Seq(S) /\ Len(s) = 2 /\ s[1] = d /\ s[2] = e
  OBVIOUS
<1> HIDE DEF s
<1>2. Range(s) = {s[i] : i \in 1 .. Len(s)}
  BY <1>1, RangeEquality
<1>3. 1 .. Len(s) = {1, 2}
  BY <1>1, SMT
<1>4. Range(s) = {d, e}
  BY <1>1, <1>2, <1>3
<1> QED BY <1>1, <1>4 DEF s
=============================================================================
