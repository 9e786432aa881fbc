----------------------------- MODULE ListProofs -----------------------------
(***************************************************************************)
(* The std::deque and std::list operations that the V4L2 components use,   *)
(* as they act on what a list contains and on its order.                   *)
(***************************************************************************)
EXTENDS Sequences, SequencesExt, Functions, FiniteSets, FiniteSetTheorems, SequenceTheorems, TLAPS

(* Lists without duplicates *)

\* Taking the front away leaves the others, in their order (pop_front()).
LEMMA ListTail ==
    ASSUME NEW S, NEW s \in Seq(S), s # <<>>
    PROVE  /\ Tail(s) \in Seq(S) /\ Head(s) \in S
           /\ Range(s) = {Head(s)} \cup Range(Tail(s))
           /\ IsInjective(s) => IsInjective(Tail(s)) /\ Head(s) \notin Range(Tail(s))
<1>1. Len(s) \in Nat /\ Len(s) > 0 /\ s[1] = Head(s) /\ DOMAIN s = 1..Len(s)
    BY LenProperties, EmptySeq, HeadTailProperties
<1>2. /\ Tail(s) \in Seq(S) /\ Head(s) \in S /\ Len(Tail(s)) = Len(s) - 1
      /\ \A i \in 1..Len(Tail(s)) : Tail(s)[i] = s[i + 1]
    BY HeadTailProperties
<1>3. DOMAIN Tail(s) = 1..(Len(s) - 1)
    BY <1>2, LenProperties
<1>4. \A i \in 1..(Len(s) - 1) : Tail(s)[i] = s[i + 1] /\ i + 1 \in 1..Len(s)
    BY <1>1, <1>2
<1>5. \A j \in 1..Len(s) : j = 1 \/ (j - 1 \in 1..(Len(s) - 1) /\ Tail(s)[j - 1] = s[j])
    BY <1>1, <1>2
<1>6. Range(s) = {Head(s)} \cup Range(Tail(s))
    <2>1. ASSUME NEW x \in Range(s) PROVE x \in {Head(s)} \cup Range(Tail(s))
        <3>1. PICK j \in 1..Len(s) : x = s[j]
            BY <1>1 DEF Range
        <3>2. QED
            BY <1>1, <1>3, <1>5, <3>1 DEF Range
    <2>2. ASSUME NEW x \in Range(Tail(s)) PROVE x \in Range(s)
        BY <1>1, <1>3, <1>4 DEF Range
    <2>3. Head(s) \in Range(s)
        BY <1>1 DEF Range
    <2>4. QED
        BY <2>1, <2>2, <2>3
<1>7. ASSUME IsInjective(s) PROVE IsInjective(Tail(s)) /\ Head(s) \notin Range(Tail(s))
    BY <1>1, <1>3, <1>4, <1>7 DEF IsInjective, Range
<1>8. QED
    BY <1>2, <1>6, <1>7

\* Putting a new element at the end (push_back()).
LEMMA ListAppend ==
    ASSUME NEW S, NEW s \in Seq(S), NEW e \in S
    PROVE  /\ Append(s, e) \in Seq(S)
           /\ Range(Append(s, e)) = Range(s) \cup {e}
           /\ IsInjective(s) /\ e \notin Range(s) => IsInjective(Append(s, e))
<1>1. Len(s) \in Nat /\ DOMAIN s = 1..Len(s)
    BY LenProperties
<1>2. /\ Append(s, e) \in Seq(S) /\ Len(Append(s, e)) = Len(s) + 1
      /\ \A i \in 1..Len(s) : Append(s, e)[i] = s[i]
      /\ Append(s, e)[Len(s) + 1] = e
    BY AppendProperties
<1>3. DOMAIN Append(s, e) = 1..(Len(s) + 1)
    BY <1>2, LenProperties
<1>4. \A i : i \in 1..(Len(s) + 1) <=> i \in 1..Len(s) \/ i = Len(s) + 1
    BY <1>1
<1>5. Range(Append(s, e)) = Range(s) \cup {e}
    BY <1>1, <1>2, <1>3, <1>4 DEF Range
<1>6. ASSUME IsInjective(s), e \notin Range(s) PROVE IsInjective(Append(s, e))
    BY <1>1, <1>2, <1>3, <1>4, <1>6 DEF IsInjective, Range
<1>7. QED
    BY <1>2, <1>5, <1>6

\* One list after the other (several push_back() calls).
LEMMA ListConcat ==
    ASSUME NEW S, NEW s \in Seq(S), NEW t \in Seq(S)
    PROVE  /\ s \o t \in Seq(S)
           /\ Range(s \o t) = Range(s) \cup Range(t)
           /\ IsInjective(s) /\ IsInjective(t) /\ Range(s) \cap Range(t) = {} => IsInjective(s \o t)
<1>1. /\ Len(s) \in Nat /\ DOMAIN s = 1..Len(s) /\ Len(t) \in Nat /\ DOMAIN t = 1..Len(t)
      /\ s \o t \in Seq(S) /\ Len(s \o t) = Len(s) + Len(t)
    BY LenProperties, ConcatProperties
<1>2. DOMAIN (s \o t) = 1..(Len(s) + Len(t))
    BY <1>1, LenProperties
<1>3. /\ \A i \in 1..Len(s) : (s \o t)[i] = s[i] /\ i \in 1..(Len(s) + Len(t))
      /\ \A i \in 1..Len(t) : (s \o t)[i + Len(s)] = t[i] /\ i + Len(s) \in 1..(Len(s) + Len(t))
    BY <1>1, ConcatProperties
<1>4. \A i \in 1..(Len(s) + Len(t)) :
         \/ i \in 1..Len(s) /\ (s \o t)[i] = s[i]
         \/ i - Len(s) \in 1..Len(t) /\ (s \o t)[i] = t[i - Len(s)]
    BY <1>1, ConcatProperties
<1>5. Range(s \o t) = Range(s) \cup Range(t)
    <2>1. Range(s) \cup Range(t) \subseteq Range(s \o t)
        BY <1>1, <1>2, <1>3 DEF Range
    <2>2. Range(s \o t) \subseteq Range(s) \cup Range(t)
        BY <1>1, <1>2, <1>4 DEF Range
    <2>3. QED
        BY <2>1, <2>2
<1>6. ASSUME IsInjective(s), IsInjective(t), Range(s) \cap Range(t) = {}
      PROVE  IsInjective(s \o t)
    <2> SUFFICES ASSUME NEW a \in 1..(Len(s) + Len(t)), NEW b \in 1..(Len(s) + Len(t)),
                        (s \o t)[a] = (s \o t)[b]
                 PROVE  a = b
        BY <1>2 DEF IsInjective
    <2>1. CASE a \in 1..Len(s) /\ b \in 1..Len(s)
        BY <1>1, <1>3, <1>6, <2>1 DEF IsInjective
    <2>2. CASE a \notin 1..Len(s) /\ b \notin 1..Len(s)
        <3>1. a - Len(s) \in 1..Len(t) /\ b - Len(s) \in 1..Len(t)
            BY <1>4, <2>2
        <3>2. t[a - Len(s)] = t[b - Len(s)]
            BY <1>4, <2>2
        <3>3. a - Len(s) = b - Len(s)
            BY <1>1, <1>6, <3>1, <3>2 DEF IsInjective
        <3>4. QED
            BY <1>1, <3>3
    <2>3. CASE a \in 1..Len(s) /\ b \notin 1..Len(s)
        BY <1>1, <1>3, <1>4, <1>6, <2>3 DEF Range
    <2>4. CASE a \notin 1..Len(s) /\ b \in 1..Len(s)
        BY <1>1, <1>3, <1>4, <1>6, <2>4 DEF Range
    <2>5. QED
        BY <2>1, <2>2, <2>3, <2>4
<1>7. QED
    BY <1>1, <1>5, <1>6

\* A new value at one position.
LEMMA ListExcept ==
    ASSUME NEW S, NEW s \in Seq(S), NEW i, NEW e \in S, NEW t, t = [s EXCEPT ![i] = e]
    PROVE  /\ t \in Seq(S) /\ DOMAIN t = DOMAIN s /\ Len(t) = Len(s)
           /\ \A j \in DOMAIN s : t[j] = IF j = i THEN e ELSE s[j]
<1>1. Len(s) \in Nat /\ s \in [1..Len(s) -> S]
    BY LenProperties
<1>2. t \in [1..Len(s) -> S] /\ \A j \in DOMAIN s : t[j] = IF j = i THEN e ELSE s[j]
    BY <1>1
<1>3. t \in Seq(S) /\ DOMAIN t = 1..Len(s)
    BY <1>1, <1>2, SeqDef
<1>4. Len(t) = Len(s)
    BY <1>1, <1>3, LenProperties
<1>5. QED
    BY <1>1, <1>2, <1>3, <1>4

\* Other values at the same positions.
LEMMA ListSameLength ==
    ASSUME NEW S, NEW s \in Seq(S), NEW T, NEW t \in [DOMAIN s -> T]
    PROVE  t \in Seq(T) /\ Len(t) = Len(s) /\ DOMAIN t = DOMAIN s
<1>1. Len(s) \in Nat /\ DOMAIN s = 1..Len(s)
    BY LenProperties
<1>2. t \in Seq(T) /\ DOMAIN t = 1..Len(s)
    BY <1>1, SeqDef
<1>3. QED
    BY <1>1, <1>2, LenProperties

\* A list of n elements (vector::resize()).
LEMMA ListOfLength ==
    ASSUME NEW S, NEW n \in Nat, NEW s \in [1..n -> S]
    PROVE  s \in Seq(S) /\ Len(s) = n
<1>1. s \in Seq(S) /\ DOMAIN s = 1..n
    BY SeqDef
<1>2. QED
    BY <1>1, LenProperties

\* The empty list (clear()).
LEMMA ListEmpty == IsInjective(<<>>) /\ Range(<<>>) = {}
    BY DEF IsInjective, Range

\* An element of a list without duplicates is at one position, any other at none.
LEMMA PositionsOf ==
    ASSUME NEW S, NEW s \in Seq(S), IsInjective(s), NEW e
    PROVE  Cardinality({n \in DOMAIN s : s[n] = e}) = IF e \in Range(s) THEN 1 ELSE 0
<1>1. CASE e \in Range(s)
    <2>1. PICK m \in DOMAIN s : s[m] = e
        BY <1>1 DEF Range
    <2>2. {n \in DOMAIN s : s[n] = e} = {m}
        BY <2>1 DEF IsInjective
    <2>3. QED
        BY <1>1, <2>2, FS_Singleton
<1>2. CASE e \notin Range(s)
    <2>1. {n \in DOMAIN s : s[n] = e} = {}
        BY <1>2 DEF Range
    <2>2. QED
        BY <1>2, <2>1, FS_EmptySet
<1>3. QED
    BY <1>1, <1>2

-----------------------------------------------------------------------------
(* Lists in order *)

\* The values that v gives the elements of s grow along s.
Rising(s, v) == \A m, n \in DOMAIN s : m < n => v[s[m]] < v[s[n]]
Self == [f \in Nat |-> f]

\* The front has the least value (front(), pop_front()).
LEMMA RisingTail ==
    ASSUME NEW S, NEW s \in Seq(S), s # <<>>, NEW v, Rising(s, v)
    PROVE  /\ Rising(Tail(s), v)
           /\ \A x \in Range(Tail(s)) : v[Head(s)] < v[x]
<1>1. Len(s) \in Nat /\ Len(s) > 0 /\ s[1] = Head(s) /\ DOMAIN s = 1..Len(s)
    BY LenProperties, EmptySeq, HeadTailProperties
<1>2. /\ Tail(s) \in Seq(S) /\ Len(Tail(s)) = Len(s) - 1
      /\ \A i \in 1..Len(Tail(s)) : Tail(s)[i] = s[i + 1]
    BY HeadTailProperties
<1>3. DOMAIN Tail(s) = 1..(Len(s) - 1)
    BY <1>2, LenProperties
<1>4. \A i \in 1..(Len(s) - 1) : Tail(s)[i] = s[i + 1] /\ i + 1 \in 1..Len(s)
    BY <1>1, <1>2
<1>5. Rising(Tail(s), v)
    BY <1>1, <1>3, <1>4 DEF Rising
<1>6. ASSUME NEW x \in Range(Tail(s)) PROVE v[Head(s)] < v[x]
    <2>1. PICK i \in 1..(Len(s) - 1) : x = Tail(s)[i]
        BY <1>3, <1>6 DEF Range
    <2>2. 1 \in DOMAIN s /\ i + 1 \in DOMAIN s /\ 1 < i + 1 /\ x = s[i + 1]
        BY <1>1, <1>4, <2>1
    <2>3. QED
        BY <1>1, <2>2 DEF Rising
<1>7. QED
    BY <1>5, <1>6

\* A larger value goes to the end (push_back()).
LEMMA RisingAppend ==
    ASSUME NEW S, NEW s \in Seq(S), NEW e \in S, NEW v, Rising(s, v),
           \A x \in Range(s) : v[x] < v[e]
    PROVE  Rising(Append(s, e), v)
<1>1. Len(s) \in Nat /\ DOMAIN s = 1..Len(s)
    BY LenProperties
<1>2. /\ Append(s, e) \in Seq(S) /\ Len(Append(s, e)) = Len(s) + 1
      /\ \A i \in 1..Len(s) : Append(s, e)[i] = s[i]
      /\ Append(s, e)[Len(s) + 1] = e
    BY AppendProperties
<1>3. DOMAIN Append(s, e) = 1..(Len(s) + 1)
    BY <1>2, LenProperties
<1>4. SUFFICES ASSUME NEW m \in 1..(Len(s) + 1), NEW n \in 1..(Len(s) + 1), m < n
               PROVE  v[Append(s, e)[m]] < v[Append(s, e)[n]]
    BY <1>3 DEF Rising
<1>5. m \in DOMAIN s /\ Append(s, e)[m] = s[m] /\ s[m] \in Range(s)
    BY <1>1, <1>2, <1>4 DEF Range
<1>6. CASE n = Len(s) + 1
    BY <1>2, <1>5, <1>6
<1>7. CASE n # Len(s) + 1
    BY <1>1, <1>2, <1>4, <1>5, <1>7 DEF Rising
<1>8. QED
    BY <1>6, <1>7

\* The empty list is in order.
LEMMA RisingEmpty == \A v : Rising(<<>>, v)
    BY DEF Rising

\* Only the values of the elements count.
LEMMA RisingSame ==
    ASSUME NEW s, NEW v, NEW w, Rising(s, v), \A x \in Range(s) : w[x] = v[x]
    PROVE  Rising(s, w)
    BY DEF Rising, Range

\* A rising list has no duplicates.
LEMMA RisingInjective ==
    ASSUME NEW s \in Seq(Nat), Rising(s, Self)
    PROVE  IsInjective(s)
<1>1. DOMAIN s = 1..Len(s) /\ Len(s) \in Nat /\ \A n \in DOMAIN s : s[n] \in Nat
    BY LenProperties
<1>2. SUFFICES ASSUME NEW m \in DOMAIN s, NEW n \in DOMAIN s, s[m] = s[n] PROVE m = n
    BY DEF IsInjective
<1>3. ASSUME NEW i \in DOMAIN s, NEW j \in DOMAIN s, i < j PROVE s[i] # s[j]
    <2>1. Self[s[i]] < Self[s[j]]
        BY <1>3 DEF Rising
    <2>2. Self[s[i]] = s[i] /\ Self[s[j]] = s[j] /\ s[i] \in Nat /\ s[j] \in Nat
        BY <1>1, <1>3 DEF Self
    <2>3. QED
        BY <2>1, <2>2
<1>4. QED
    BY <1>1, <1>2, <1>3
=============================================================================
