-------------------------- MODULE MediaPathProofs ---------------------------
(***************************************************************************)
(* The invariants of MediaPath for any queues, channels and threads, any   *)
(* calls and any number of them, and the round trip of the audio codec.    *)
(***************************************************************************)
EXTENDS MediaPath, FiniteSetTheorems, SequenceTheorems, TLAPS

-----------------------------------------------------------------------------
(* Sequences of frame numbers.  A relation is a set of pairs of numbers.    *)

Sorted(ids, rel) == \A i, j \in DOMAIN ids : i < j => <<ids[i], ids[j]>> \in rel
Ahead(ids, others, rel) == \A i \in DOMAIN ids, j \in DOMAIN others : <<ids[i], others[j]>> \in rel
Members(ids) == {ids[i] : i \in DOMAIN ids}

LEMMA FunctionIsSeq ==
    ASSUME NEW T, NEW n \in Nat, NEW s \in [1..n -> T]
    PROVE  s \in Seq(T) /\ Len(s) = n
OBVIOUS

\* The frame numbers of a queue are a sequence, and taking from the queue or adding
\* to it takes or adds the frame's number.
LEMMA IdsFacts ==
    ASSUME NEW S, \A e \in S : e.id \in Nat, NEW s \in Seq(S)
    PROVE  /\ Ids(s) \in Seq(Nat) /\ Len(Ids(s)) = Len(s) /\ Members(Ids(s)) = IdSet(s)
           /\ Ids(s) = <<>> <=> s = <<>>
           /\ s # <<>> => /\ Head(s) \in S /\ Tail(s) \in Seq(S)
                          /\ Ids(Tail(s)) = Tail(Ids(s)) /\ Head(Ids(s)) = Head(s).id
<1>1. Len(s) \in Nat /\ DOMAIN s = 1..Len(s) /\ \A i \in 1..Len(s) : s[i] \in S /\ s[i].id \in Nat
  OBVIOUS
<1>2. Ids(s) = [i \in 1..Len(s) |-> s[i].id]
  BY <1>1 DEF Ids
<1>3. Ids(s) \in Seq(Nat) /\ Len(Ids(s)) = Len(s) /\ \A i \in 1..Len(s) : Ids(s)[i] = s[i].id
  BY <1>1, <1>2
<1>4. Members(Ids(s)) = IdSet(s)
  BY <1>1, <1>2 DEF Members, IdSet
<1>5. Ids(s) = <<>> <=> s = <<>>
  BY <1>3, EmptySeq
<1>6. ASSUME s # <<>>
      PROVE  /\ Head(s) \in S /\ Tail(s) \in Seq(S)
             /\ Ids(Tail(s)) = Tail(Ids(s)) /\ Head(Ids(s)) = Head(s).id
  <2>1. Head(s) \in S /\ Tail(s) \in Seq(S) /\ Len(Tail(s)) = Len(s) - 1 /\ Len(s) \in Nat \ {0}
        /\ \A i \in 1..Len(Tail(s)) : Tail(s)[i] = s[i + 1]
    BY <1>6, HeadTailProperties, EmptySeq
  <2>2. Ids(Tail(s)) \in Seq(Nat) /\ Len(Ids(Tail(s))) = Len(s) - 1
        /\ \A i \in 1..(Len(s) - 1) : Ids(Tail(s))[i] = Tail(s)[i].id
    <3>1. DOMAIN Tail(s) = 1..(Len(s) - 1) /\ \A i \in 1..(Len(s) - 1) : Tail(s)[i].id \in Nat
      BY <2>1, LenProperties
    <3>2. Ids(Tail(s)) = [i \in 1..(Len(s) - 1) |-> Tail(s)[i].id]
      BY <3>1 DEF Ids
    <3>3. Ids(Tail(s)) \in [1..(Len(s) - 1) -> Nat]
      BY <3>1, <3>2
    <3>4. Ids(Tail(s)) \in Seq(Nat) /\ Len(Ids(Tail(s))) = Len(s) - 1
      <4>1. Len(s) - 1 \in Nat
        BY <2>1
      <4> QED  BY <3>3, <4>1, FunctionIsSeq
    <3> QED  BY <3>2, <3>4
  <2>3. Tail(Ids(s)) \in Seq(Nat) /\ Len(Tail(Ids(s))) = Len(s) - 1
        /\ \A i \in 1..(Len(s) - 1) : Tail(Ids(s))[i] = Ids(s)[i + 1]
    BY <1>3, <1>5, <1>6, HeadTailProperties
  <2>4. \A i \in 1..(Len(s) - 1) : Tail(Ids(s))[i] = Ids(Tail(s))[i]
    BY <1>3, <2>1, <2>2, <2>3
  <2>5. Ids(Tail(s)) = Tail(Ids(s))
    BY <2>2, <2>3, <2>4, SeqEqual
  <2>6. Head(Ids(s)) = Head(s).id
    BY <1>3, <2>1
  <2> QED  BY <2>1, <2>5, <2>6
<1> QED  BY <1>3, <1>4, <1>5, <1>6

LEMMA IdsAppend ==
    ASSUME NEW S, \A e \in S : e.id \in Nat, NEW s \in Seq(S), NEW x \in S
    PROVE  Append(s, x) \in Seq(S) /\ Ids(Append(s, x)) = Append(Ids(s), x.id)
<1>1. Ids(s) \in Seq(Nat) /\ Len(Ids(s)) = Len(s) /\ Len(s) \in Nat
  BY IdsFacts
<1>2. Append(s, x) \in Seq(S) /\ Len(Append(s, x)) = Len(s) + 1
  OBVIOUS
<1>3. Ids(Append(s, x)) \in Seq(Nat) /\ Len(Ids(Append(s, x))) = Len(s) + 1
  BY <1>2, IdsFacts
<1>4. Append(Ids(s), x.id) \in Seq(Nat) /\ Len(Append(Ids(s), x.id)) = Len(s) + 1
  BY <1>1
<1>5. \A i \in 1..(Len(s) + 1) : Ids(Append(s, x))[i] = Append(Ids(s), x.id)[i]
  <2>1. \A i \in 1..(Len(s) + 1) : Ids(Append(s, x))[i] = Append(s, x)[i].id
    BY <1>2 DEF Ids
  <2>2. \A i \in 1..Len(s) : Ids(s)[i] = s[i].id
    BY DEF Ids
  <2> QED  BY <1>1, <2>1, <2>2
<1> QED  BY <1>2, <1>3, <1>4, <1>5, SeqEqual

\* Every sequence of numbers has its members in Nat.
LEMMA MembersFacts ==
    ASSUME NEW ids \in Seq(Nat)
    PROVE  /\ Members(ids) \subseteq Nat
           /\ \A x \in Nat : Members(Append(ids, x)) = Members(ids) \cup {x}
           /\ ids # <<>> => /\ Head(ids) \in Members(ids) /\ Tail(ids) \in Seq(Nat)
                            /\ Members(Tail(ids)) \subseteq Members(ids)
                            /\ Members(ids) = Members(Tail(ids)) \cup {Head(ids)}
<1>1. Len(ids) \in Nat /\ DOMAIN ids = 1..Len(ids) /\ \A i \in 1..Len(ids) : ids[i] \in Nat
  OBVIOUS
<1>2. ASSUME NEW x \in Nat PROVE Members(Append(ids, x)) = Members(ids) \cup {x}
  <2>1. /\ DOMAIN Append(ids, x) = 1..(Len(ids) + 1) /\ Append(ids, x)[Len(ids) + 1] = x
        /\ \A i \in 1..Len(ids) : Append(ids, x)[i] = ids[i]
    BY <1>1
  <2>2. \A y \in Members(Append(ids, x)) : y \in Members(ids) \cup {x}
    BY <1>1, <2>1 DEF Members
  <2>3. \A y \in Members(ids) \cup {x} : y \in Members(Append(ids, x))
    BY <1>1, <2>1 DEF Members
  <2> QED  BY <2>2, <2>3
<1>3. ASSUME ids # <<>>
      PROVE  /\ Head(ids) \in Members(ids) /\ Tail(ids) \in Seq(Nat)
             /\ Members(Tail(ids)) \subseteq Members(ids)
             /\ Members(ids) = Members(Tail(ids)) \cup {Head(ids)}
  <2>1. /\ Tail(ids) \in Seq(Nat) /\ Len(Tail(ids)) = Len(ids) - 1 /\ Len(ids) \in Nat \ {0}
        /\ Head(ids) = ids[1]
        /\ \A i \in 1..Len(Tail(ids)) : Tail(ids)[i] = ids[i + 1]
    BY <1>3, HeadTailProperties, EmptySeq
  <2>2. DOMAIN Tail(ids) = 1..(Len(ids) - 1)
    BY <2>1
  <2>3. Head(ids) \in Members(ids)
    BY <1>1, <2>1 DEF Members
  <2>4. \A y \in Members(Tail(ids)) : y \in Members(ids)
    BY <1>1, <2>1, <2>2 DEF Members
  <2>5. \A y \in Members(ids) : y \in Members(Tail(ids)) \cup {Head(ids)}
    <3> TAKE y \in Members(ids)
    <3>1. PICK i \in 1..Len(ids) : y = ids[i]
      BY <1>1 DEF Members
    <3>2. CASE i = 1
      BY <2>1, <3>1, <3>2
    <3>3. CASE i # 1
      <4>1. i - 1 \in 1..(Len(ids) - 1) /\ (i - 1) + 1 = i
        BY <2>1, <3>3
      <4>2. y = Tail(ids)[i - 1]
        BY <2>1, <3>1, <4>1
      <4> QED  BY <2>2, <4>1, <4>2 DEF Members
    <3> QED  BY <3>2, <3>3
  <2>6. \A y \in Members(Tail(ids)) \cup {Head(ids)} : y \in Members(ids)
    BY <2>3, <2>4
  <2>7. Members(ids) = Members(Tail(ids)) \cup {Head(ids)}
    BY <2>5, <2>6
  <2> QED  BY <2>1, <2>3, <2>4, <2>7
<1>4. Members(ids) \subseteq Nat
  BY <1>1 DEF Members
<1> QED  BY <1>2, <1>3, <1>4
\* Ahead in terms of members.
LEMMA AheadMembers ==
    ASSUME NEW s, NEW t, NEW rel
    PROVE  Ahead(s, t, rel) <=> \A x \in Members(s), y \in Members(t) : <<x, y>> \in rel
BY DEF Ahead, Members

\* A frame leaves a queue, and what was said about the queue stays true; the frames that
\* stay are behind the one that leaves.
LEMMA TailSorted ==
    ASSUME NEW s \in Seq(Nat), s # <<>>, NEW rel, Sorted(s, rel)
    PROVE  Sorted(Tail(s), rel) /\ \A y \in Members(Tail(s)) : <<Head(s), y>> \in rel
<1>1. /\ Tail(s) \in Seq(Nat) /\ Len(Tail(s)) = Len(s) - 1 /\ Len(s) \in Nat \ {0}
      /\ Head(s) = s[1] /\ DOMAIN s = 1..Len(s)
      /\ \A i \in 1..Len(Tail(s)) : Tail(s)[i] = s[i + 1]
  BY HeadTailProperties, EmptySeq
<1>2. DOMAIN Tail(s) = 1..(Len(s) - 1) /\ \A i \in 1..(Len(s) - 1) : i + 1 \in 1..Len(s)
  BY <1>1
<1>3. Sorted(Tail(s), rel)
  BY <1>1, <1>2 DEF Sorted
<1>4. \A y \in Members(Tail(s)) : <<Head(s), y>> \in rel
  <2> TAKE y \in Members(Tail(s))
  <2>1. PICK i \in 1..(Len(s) - 1) : y = Tail(s)[i]
    BY <1>2 DEF Members
  <2>2. y = s[i + 1] /\ 1 \in DOMAIN s /\ i + 1 \in DOMAIN s /\ 1 < i + 1
    BY <1>1, <1>2, <2>1
  <2> QED  BY <1>1, <2>2 DEF Sorted
<1> QED  BY <1>3, <1>4

\* A frame joins a queue behind all that are in it.
LEMMA AppendSorted ==
    ASSUME NEW s \in Seq(Nat), NEW x \in Nat, NEW rel, Sorted(s, rel),
           \A y \in Members(s) : <<y, x>> \in rel
    PROVE  Sorted(Append(s, x), rel)
<1>1. /\ Len(s) \in Nat /\ DOMAIN s = 1..Len(s)
      /\ DOMAIN Append(s, x) = 1..(Len(s) + 1) /\ Append(s, x)[Len(s) + 1] = x
      /\ \A i \in 1..Len(s) : Append(s, x)[i] = s[i]
  OBVIOUS
<1>2. \A i \in 1..Len(s) : <<s[i], x>> \in rel
  BY <1>1 DEF Members
<1> SUFFICES ASSUME NEW i \in 1..(Len(s) + 1), NEW j \in 1..(Len(s) + 1), i < j
             PROVE  <<Append(s, x)[i], Append(s, x)[j]>> \in rel
  BY <1>1 DEF Sorted
<1>3. i \in 1..Len(s)
  BY <1>1
<1>4. CASE j = Len(s) + 1
  BY <1>1, <1>2, <1>3, <1>4
<1>5. CASE j \in 1..Len(s)
  <2>1. Append(s, x)[i] = s[i] /\ Append(s, x)[j] = s[j] /\ i \in DOMAIN s /\ j \in DOMAIN s
    BY <1>1, <1>3, <1>5
  <2> QED  BY <2>1 DEF Sorted
<1>6. j = Len(s) + 1 \/ j \in 1..Len(s)
  OBVIOUS
<1> QED  BY <1>4, <1>5, <1>6

\* What holds for the pairs of one relation holds for those of a relation that
\* has them all.
LEMMA SortedMonotone ==
    ASSUME NEW s, NEW rel, NEW rel2, Sorted(s, rel),
           \A x \in Members(s), y \in Members(s) : <<x, y>> \in rel => <<x, y>> \in rel2
    PROVE  Sorted(s, rel2)
BY DEF Sorted, Members

LEMMA EmptySorted == ASSUME NEW rel PROVE Sorted(<<>>, rel) /\ Members(<<>>) = {} /\ <<>> \in Seq(Nat)
BY DEF Sorted, Members

\* Two queues of which one is ahead of the other make one trail.
LEMMA ConcatSorted ==
    ASSUME NEW s \in Seq(Nat), NEW t \in Seq(Nat), NEW rel,
           Sorted(s, rel), Sorted(t, rel), Ahead(s, t, rel)
    PROVE  Sorted(s \o t, rel)
<1>1. /\ Len(s) \in Nat /\ DOMAIN s = 1..Len(s) /\ Len(t) \in Nat /\ DOMAIN t = 1..Len(t)
      /\ DOMAIN (s \o t) = 1..(Len(s) + Len(t))
      /\ \A i \in 1..(Len(s) + Len(t)) :
            (s \o t)[i] = IF i <= Len(s) THEN s[i] ELSE t[i - Len(s)]
  BY ConcatProperties, LenProperties
<1> SUFFICES ASSUME NEW i \in 1..(Len(s) + Len(t)), NEW j \in 1..(Len(s) + Len(t)), i < j
             PROVE  <<(s \o t)[i], (s \o t)[j]>> \in rel
  BY <1>1 DEF Sorted
<1>2. CASE j <= Len(s)
  <2>1. i \in 1..Len(s) /\ j \in 1..Len(s) /\ i <= Len(s)
    BY <1>1, <1>2
  <2> QED  BY <1>1, <1>2, <2>1 DEF Sorted
<1>3. CASE ~(j <= Len(s)) /\ i <= Len(s)
  <2>1. i \in 1..Len(s) /\ j - Len(s) \in 1..Len(t)
    BY <1>1, <1>3
  <2> QED  BY <1>1, <1>3, <2>1 DEF Ahead
<1>4. CASE ~(i <= Len(s))
  <2>1. ~(j <= Len(s)) /\ i - Len(s) \in 1..Len(t) /\ j - Len(s) \in 1..Len(t)
        /\ i - Len(s) < j - Len(s)
    BY <1>1, <1>4
  <2> QED  BY <1>1, <1>4, <2>1 DEF Sorted
<1> QED  BY <1>2, <1>3, <1>4

LEMMA ConcatMembers ==
    ASSUME NEW s \in Seq(Nat), NEW t \in Seq(Nat)
    PROVE  s \o t \in Seq(Nat) /\ Members(s \o t) = Members(s) \cup Members(t)
<1>1. s \o t \in Seq(Nat) /\ Range(s \o t) = Range(s) \cup Range(t)
  BY ConcatProperties, RangeConcatenation
<1> QED  BY <1>1 DEF Members, Range

-----------------------------------------------------------------------------
(* The audio codec: what encode_planar leaves out, decode_planar_into puts back. *)

\* The planes before an active channel are fewer than all planes of the payload.
LEMMA RankBound ==
    ASSUME NEW active \in SUBSET Nat, IsFiniteSet(active), NEW i \in active
    PROVE  Rank(active, i) \in 0..(Cardinality(active) - 1)
<1> DEFINE below == {j \in active : j < i}
<1>1. below \in SUBSET (active \ {i})
  OBVIOUS
<1>2. IsFiniteSet(active \ {i}) /\ Cardinality(active \ {i}) = Cardinality(active) - 1
  BY FS_RemoveElement
<1>3. IsFiniteSet(below) /\ Cardinality(below) <= Cardinality(active \ {i})
  BY <1>1, <1>2, FS_Subset
<1>4. Cardinality(below) \in Nat /\ Cardinality(active) \in Nat
  BY <1>3, FS_CardinalityType
<1> QED
  BY <1>2, <1>3, <1>4 DEF Rank

\* Of two active channels the later one has the larger rank.
LEMMA RankMonotone ==
    ASSUME NEW active \in SUBSET Nat, IsFiniteSet(active),
           NEW i \in active, NEW j \in active, i < j
    PROVE  Rank(active, i) < Rank(active, j)
<1> DEFINE belowI == {k \in active : k < i}
           belowJ == {k \in active : k < j}
<1>1. belowI \in SUBSET belowJ
  <2>1. \A k \in active : k \in Nat /\ (k < i => k < j)
    OBVIOUS
  <2> QED
    BY <2>1
<1>2. belowJ \in SUBSET active
  OBVIOUS
<1>3. IsFiniteSet(belowJ)
  BY <1>2, FS_Subset
<1>4. i \in belowJ /\ i \notin belowI
  OBVIOUS
<1>5. IsFiniteSet(belowI) /\ Cardinality(belowI) <= Cardinality(belowJ)
      /\ Cardinality(belowI) # Cardinality(belowJ)
  BY <1>1, <1>3, <1>4, FS_Subset
<1>6. Cardinality(belowI) \in Nat /\ Cardinality(belowJ) \in Nat
  BY <1>3, <1>5, FS_CardinalityType
<1> QED
  BY <1>5, <1>6 DEF Rank

LEMMA RankInjective ==
    ASSUME NEW active \in SUBSET Nat, IsFiniteSet(active),
           NEW i \in active, NEW j \in active, Rank(active, i) = Rank(active, j)
    PROVE  i = j
<1>1. i \in Nat /\ j \in Nat
  OBVIOUS
<1>2. Rank(active, i) \in Nat /\ Rank(active, j) \in Nat
  <2>1. Cardinality(active) \in Nat
    BY FS_CardinalityType
  <2> QED
    BY <2>1, RankBound
<1>3. CASE i < j
  BY <1>2, <1>3, RankMonotone
<1>4. CASE j < i
  BY <1>2, <1>4, RankMonotone
<1> QED
  BY <1>1, <1>3, <1>4

\* For every number of channels the codec allows and every planes, a payload made by
\* encode_planar is accepted by decode_planar_into, which returns the same planes,
\* also when other data follows the payload in the frame (as happens when the length
\* of the metadata behind it does not fit its 16 bits).
THEOREM RoundTrip ==
    ASSUME NEW S, NEW planes \in Seq(S), LegalCount(Len(planes)), NEW rest \in Seq(S)
    PROVE  LET e == EncodePlanar(planes)
               data == e.payload \o rest
           IN  /\ Decodable(data, Len(planes), e.active)
               /\ DecodePlanar(data, Len(planes), e.active) = planes
<1> DEFINE n == Len(planes)
           active == {i \in DOMAIN planes : planes[i] # Silent}
           size == Cardinality(active)
           payload == [k \in 1..size |-> planes[CHOOSE i \in active : Rank(active, i) = k - 1]]
           data == payload \o rest
<1>1. n \in Nat /\ DOMAIN planes = 1..n /\ planes \in [1..n -> S]
  BY LenProperties
<1>2. active \in SUBSET (1..n) /\ active \in SUBSET Nat
  BY <1>1
<1>3. IsFiniteSet(active)
  <2>1. IsFiniteSet(1..n)
    BY <1>1, FS_Interval
  <2> QED
    BY <1>2, <2>1, FS_Subset
<1>4. size \in Nat
  BY <1>3, FS_CardinalityType
<1>5. \A i \in active : /\ Rank(active, i) + 1 \in 1..size
                        /\ payload[Rank(active, i) + 1] = planes[i]
  <2> TAKE i \in active
  <2>1. Rank(active, i) \in 0..(size - 1)
    BY <1>2, <1>3, RankBound
  <2>2. Rank(active, i) + 1 \in 1..size /\ (Rank(active, i) + 1) - 1 = Rank(active, i)
    BY <1>4, <2>1
  <2> DEFINE c == CHOOSE j \in active : Rank(active, j) = Rank(active, i)
  <2>3. c \in active /\ Rank(active, c) = Rank(active, i)
    OBVIOUS
  <2>4. c = i
    <3> HIDE DEF c, active
    <3> QED
      BY <1>2, <1>3, <2>3, RankInjective
  <2>5. payload[Rank(active, i) + 1] = planes[c]
    BY <2>2
  <2> QED
    BY <2>2, <2>4, <2>5
\* Which units the payload is made of does not matter, only that it is a sequence.
<1> DEFINE T == S \cup {payload[k] : k \in 1..size}
<1>6. payload \in Seq(T) /\ Len(payload) = size
  <2>1. payload \in [1..size -> T]
    OBVIOUS
  <2> HIDE DEF payload, T, size
  <2>2. payload \in Seq(T)
    BY <1>4, <2>1, SMT
  <2> QED
    BY <1>4, <2>1, <2>2, LenProperties
<1>7. rest \in Seq(T) /\ Len(rest) \in Nat
  <2>1. Len(rest) \in Nat /\ rest \in [1..Len(rest) -> S]
    BY LenProperties
  <2>2. rest \in [1..Len(rest) -> T]
    <3> S \subseteq T
      OBVIOUS
    <3> HIDE DEF T
    <3> QED
      BY <2>1
  <2> HIDE DEF T
  <2> QED
    BY <2>1, <2>2
<1>8. /\ Len(data) = size + Len(rest)
      /\ \A k \in 1..size : data[k] = payload[k]
  <2> HIDE DEF payload, T, size
  <2>1. /\ Len(data) = Len(payload) + Len(rest)
        /\ \A k \in 1..(Len(payload) + Len(rest)) :
              data[k] = IF k <= Len(payload) THEN payload[k] ELSE rest[k - Len(payload)]
    BY <1>6, <1>7, ConcatProperties
  <2> QED
    BY <1>4, <1>6, <1>7, <2>1
<1>9. EncodePlanar(planes) = [payload |-> payload, active |-> active]
  BY DEF EncodePlanar
<1>10. Decodable(data, n, active)
  <2> HIDE DEF data, active
  <2> QED
    BY <1>4, <1>7, <1>8 DEF Decodable
<1>11. DecodePlanar(data, n, active) = planes
  <2>1. \A i \in 1..n : DecodePlanar(data, n, active)[i] = planes[i]
    <3> TAKE i \in 1..n
    <3>1. CASE i \in active
      <4>1. DecodePlanar(data, n, active)[i] = data[Rank(active, i) + 1]
        <5> HIDE DEF data, active
        <5> QED
          BY <3>1 DEF DecodePlanar
      <4> QED
        BY <1>5, <1>8, <3>1, <4>1
    <3>2. CASE i \notin active
      <4>1. planes[i] = Silent
        BY <1>1, <3>2
      <4>2. DecodePlanar(data, n, active)[i] = Silent
        <5> HIDE DEF data, active
        <5> QED
          BY <3>2 DEF DecodePlanar
      <4> QED
        BY <4>1, <4>2
    <3> QED
      BY <3>1, <3>2
  <2>2. DecodePlanar(data, n, active) = [i \in 1..n |-> DecodePlanar(data, n, active)[i]]
    <3> HIDE DEF data, active
    <3> QED
      BY DEF DecodePlanar
  <2>3. planes = [i \in 1..n |-> planes[i]]
    BY <1>1
  <2> QED
    BY <2>1, <2>2, <2>3
<1> QED
  BY <1>9, <1>10, <1>11

-----------------------------------------------------------------------------
(* What frames carry. *)

\* The units payloads and metadata are made of.
Units == {<<x, f>> : x \in {"dc", "ac"}, f \in Nat}
            \cup {<<x, f, k>> : x \in {"xml", "pcm"}, f \in Nat, k \in Nat} \cup {Silent}

IsCall(a) == a \in Calls

LEMMA CallFacts ==
    ASSUME NEW a, IsCall(a)
    PROVE  /\ a.xml \in Nat /\ a.kind \in {"video", "texture", "audio", "metadata"}
           /\ a.kind = "audio" => /\ a.channels \in Nat /\ a.loud \in Seq(BOOLEAN)
                                  /\ a.coded \in SUBSET (1..MaxChannels)
BY DEF IsCall, Calls, VideoCalls, TextureCalls, AudioCalls, TextCalls

LEMMA XmlFacts ==
    ASSUME NEW f \in Nat, NEW a, IsCall(a)
    PROVE  Xml(f, a) \in Seq(Units) /\ Len(Xml(f, a)) = a.xml /\ a.xml \in Nat
<1>1. a.xml \in Nat
  BY CallFacts
<1>2. Xml(f, a) \in [1..a.xml -> Units]
  BY <1>1 DEF Xml, Units
<1> QED  BY <1>1, <1>2, FunctionIsSeq

LEMMA PictureFacts ==
    ASSUME NEW f \in Nat
    PROVE  /\ Picture(f) \in Seq(Units) /\ Len(Picture(f)) = 2
           /\ SubSeq(Picture(f), 1, 1) \in Seq(Units) /\ Len(SubSeq(Picture(f), 1, 1)) = 1
<1>1. <<"dc", f>> \in Units /\ <<"ac", f>> \in Units
  BY DEF Units
<1>2. Picture(f) \in Seq(Units) /\ Len(Picture(f)) = 2
  BY <1>1 DEF Picture
<1>3. \A i \in 1..1 : Picture(f)[i] \in Units
  BY <1>2, ElementOfSeq
<1>4. /\ SubSeq(Picture(f), 1, 1) \in Seq(Units)
      /\ Len(SubSeq(Picture(f), 1, 1)) = IF 1 <= 1 THEN 1 - 1 + 1 ELSE 0
  BY <1>3, SubSeqProperties
<1> QED  BY <1>2, <1>4

LEMMA PlanesFacts ==
    ASSUME NEW f \in Nat, NEW a, IsCall(a), a.kind = "audio"
    PROVE  /\ Planes(f, a) \in Seq(Units) /\ Len(Planes(f, a)) = Len(a.loud) /\ Len(a.loud) \in Nat
           /\ DOMAIN Planes(f, a) = 1..Len(a.loud)
<1>1. a.loud \in Seq(BOOLEAN) /\ Len(a.loud) \in Nat /\ DOMAIN a.loud = 1..Len(a.loud)
  BY CallFacts
<1>2. Planes(f, a) \in [1..Len(a.loud) -> Units]
  BY <1>1 DEF Planes, Units
<1>3. Planes(f, a) \in Seq(Units) /\ Len(Planes(f, a)) = Len(a.loud)
  BY <1>1, <1>2, FunctionIsSeq
<1> QED  BY <1>1, <1>2, <1>3

\* The length of metadata as metadata_length can express it.
LEMMA WidthFacts ==
    ASSUME NEW n \in Nat
    PROVE  n % MetaWidth \in 0..n /\ (n < MetaWidth => n % MetaWidth = n)
<1>1. MetaWidth \in Nat /\ MetaWidth > 0
  BY MediaPathAssumption
<1>2. n % MetaWidth \in 0..(MetaWidth - 1)
  BY <1>1
<1>3. CASE n < MetaWidth
  BY <1>1, <1>3
<1>4. CASE n >= MetaWidth
  BY <1>1, <1>2, <1>4
<1> QED  BY <1>1, <1>3, <1>4

Front(body, m) == SubSeq(body, 1, Len(body) - m)
Back(body, m) == SubSeq(body, Len(body) - m + 1, Len(body))

\* from_bytes on data with metadata behind it: the payload begins with all of the data, and
\* the metadata is the end of the metadata, of the length the header gives.
SplitContent(U, data, text, m) ==
    /\ Front(data \o text, m) = data \o SubSeq(text, 1, Len(text) - m)
    /\ Back(data \o text, m) = SubSeq(text, Len(text) - m + 1, Len(text))
    /\ SubSeq(text, 1, Len(text) - m) \in Seq(U)
    /\ Front(data \o text, m) \in Seq(U) /\ Back(data \o text, m) \in Seq(U)
SplitLengths(data, text, m) ==
    /\ Len(Back(data \o text, m)) = m
    /\ Len(Front(data \o text, m)) = Len(data) + (Len(text) - m)

LEMMA SplitFacts ==
    ASSUME NEW U, NEW data \in Seq(U), NEW text \in Seq(U), NEW m \in 0..Len(text)
    PROVE  SplitContent(U, data, text, m) /\ SplitLengths(data, text, m)
<1> DEFINE body == data \o text
           L == Len(data)
           n == Len(text)
           front == SubSeq(text, 1, n - m)
<1>1. L \in Nat /\ n \in Nat /\ m \in Nat /\ m <= n
  OBVIOUS
<1>2. /\ body \in Seq(U) /\ Len(body) = L + n
      /\ \A i \in 1..(L + n) : body[i] = IF i <= L THEN data[i] ELSE text[i - L]
  BY ConcatProperties
<1>3. /\ front \in Seq(U) /\ Len(front) = n - m
      /\ \A i \in 1..(n - m) : front[i] = text[i]
  <2>1. \A i \in 1..(n - m) : text[i] \in U
    BY <1>1, ElementOfSeq
  <2>2. /\ front \in Seq(U) /\ Len(front) = IF 1 <= n - m THEN (n - m) - 1 + 1 ELSE 0
        /\ \A i \in 1..((n - m) - 1 + 1) : front[i] = text[1 + i - 1]
    <3> HIDE DEF n
    <3> QED  BY <1>1, <2>1, SubSeqProperties
  <2> HIDE DEF n, front
  <2> QED  BY <1>1, <2>2
<1>4. /\ data \o front \in Seq(U) /\ Len(data \o front) = L + (n - m)
      /\ \A i \in 1..(L + (n - m)) : (data \o front)[i] = IF i <= L THEN data[i] ELSE front[i - L]
  <2> HIDE DEF front
  <2>1. front \in Seq(U) /\ Len(front) = n - m
    BY <1>3
  <2>2. /\ data \o front \in Seq(U) /\ Len(data \o front) = Len(data) + Len(front)
        /\ \A i \in 1..(Len(data) + Len(front)) :
              (data \o front)[i] = IF i <= Len(data) THEN data[i] ELSE front[i - Len(data)]
    BY <2>1, ConcatProperties
  <2> QED  BY <2>1, <2>2
<1>5. /\ Front(data \o text, m) \in Seq(U) /\ Len(Front(data \o text, m)) = L + (n - m)
      /\ \A i \in 1..(L + (n - m)) : Front(data \o text, m)[i] = body[i]
  <2>1. Front(data \o text, m) = SubSeq(body, 1, L + n - m)
    BY <1>2 DEF Front
  <2>2. \A i \in 1..(L + n - m) : body[i] \in U
    <3> HIDE DEF body, L, n
    <3> QED  BY <1>1, <1>2, ElementOfSeq
  <2>3. /\ SubSeq(body, 1, L + n - m) \in Seq(U)
        /\ Len(SubSeq(body, 1, L + n - m)) = IF 1 <= L + n - m THEN (L + n - m) - 1 + 1 ELSE 0
        /\ \A i \in 1..((L + n - m) - 1 + 1) : SubSeq(body, 1, L + n - m)[i] = body[1 + i - 1]
    <3> HIDE DEF body, L, n
    <3> QED  BY <1>1, <2>2, SubSeqProperties
  <2> HIDE DEF body, L, n
  <2> QED  BY <1>1, <2>1, <2>3
<1>6. Front(data \o text, m) = data \o front
  <2>1. \A i \in 1..(L + (n - m)) : Front(data \o text, m)[i] = (data \o front)[i]
    <3> TAKE i \in 1..(L + (n - m))
    <3> HIDE DEF body, L, n, front
    <3>1. CASE i <= L
      BY <1>1, <1>2, <1>4, <1>5, <3>1
    <3>2. CASE ~(i <= L)
      <4>1. i - L \in 1..(n - m) /\ i \in 1..(L + n)
        BY <1>1, <3>2
      <4> QED  BY <1>2, <1>3, <1>4, <1>5, <3>2, <4>1
    <3> QED  BY <3>1, <3>2
  <2> HIDE DEF body, L, n, front
  <2> QED  BY <1>4, <1>5, <2>1, SeqEqual
<1>7. /\ Back(data \o text, m) \in Seq(U) /\ Len(Back(data \o text, m)) = m
      /\ \A i \in 1..m : Back(data \o text, m)[i] = body[L + n - m + i]
  <2>1. Back(data \o text, m) = SubSeq(body, L + n - m + 1, L + n)
    BY <1>2 DEF Back
  <2>2. \A i \in (L + n - m + 1)..(L + n) : body[i] \in U
    <3> HIDE DEF body, L, n
    <3> QED  BY <1>1, <1>2, ElementOfSeq
  <2> DEFINE p == L + n - m + 1
             q == L + n
  <2>3. p \in Int /\ q \in Int /\ q - p + 1 = m /\ (p <= q <=> m > 0)
    <3> HIDE DEF L, n
    <3> QED  BY <1>1
  <2>4. /\ SubSeq(body, p, q) \in Seq(U)
        /\ Len(SubSeq(body, p, q)) = IF p <= q THEN q - p + 1 ELSE 0
        /\ \A i \in 1..(q - p + 1) : SubSeq(body, p, q)[i] = body[p + i - 1]
    <3> HIDE DEF body, p, q
    <3> QED  BY <2>2, <2>3, SubSeqProperties DEF p, q
  <2>5. \A i \in 1..m : p + i - 1 = L + n - m + i
    <3> HIDE DEF L, n
    <3> QED  BY <1>1
  <2> HIDE DEF body, p, q, L, n
  <2>6. Back(data \o text, m) = SubSeq(body, p, q)
    BY <2>1 DEF p, q
  <2>7. Len(SubSeq(body, p, q)) = m
    BY <1>1, <2>3, <2>4
  <2>8. \A i \in 1..m : SubSeq(body, p, q)[i] = body[L + n - m + i]
    BY <2>3, <2>4, <2>5
  <2> QED  BY <2>4, <2>6, <2>7, <2>8
<1>8. Back(data \o text, m) = SubSeq(text, n - m + 1, n)
  <2> DEFINE p == n - m + 1
  <2>1. p \in Int /\ n \in Int /\ n - p + 1 = m /\ (p <= n <=> m > 0) /\ p >= 1
    <3> HIDE DEF n
    <3> QED  BY <1>1
  <2>2. \A i \in p..n : text[i] \in U
    <3> HIDE DEF p
    <3> QED  BY <2>1, ElementOfSeq
  <2>3. /\ SubSeq(text, p, n) \in Seq(U)
        /\ Len(SubSeq(text, p, n)) = IF p <= n THEN n - p + 1 ELSE 0
        /\ \A i \in 1..(n - p + 1) : SubSeq(text, p, n)[i] = text[p + i - 1]
    <3> HIDE DEF p, n
    <3> QED  BY <2>1, <2>2, SubSeqProperties
  <2>4. \A i \in 1..m : Back(data \o text, m)[i] = text[p + i - 1]
    <3> TAKE i \in 1..m
    <3> HIDE DEF body, L, n
    <3>1. L + n - m + i \in 1..(L + n) /\ ~(L + n - m + i <= L)
          /\ (L + n - m + i) - L = p + i - 1
      BY <1>1
    <3> QED  BY <1>2, <1>7, <3>1
  <2> HIDE DEF body, L, n, p
  <2>5. Len(SubSeq(text, p, n)) = m /\ \A i \in 1..m : SubSeq(text, p, n)[i] = Back(data \o text, m)[i]
    BY <1>1, <2>1, <2>3, <2>4
  <2>6. Back(data \o text, m) = SubSeq(text, p, n)
    BY <1>7, <2>3, <2>5, SeqEqual
  <2> QED  BY <2>6 DEF p
<1> QED  BY <1>3, <1>5, <1>6, <1>7, <1>8 DEF SplitContent, SplitLengths

\* The picture as it is sent, whole or for a preview.
Whole(f, short) == IF short THEN SubSeq(Picture(f), 1, 1) ELSE Picture(f)

\* The body of PicturesMatch, for one frame the pipeline got and the call it came from.
Matches(v, a) ==
    LET text == Xml(v.id, a)
        whole == Whole(v.id, v.preview)
    IN  /\ SubSeq(v.payload, 1, Len(whole)) = whole
        /\ Len(text) < MetaWidth => v.payload = whole /\ v.metadata = text
        /\ v.metadata = SubSeq(text, Len(text) - Len(v.metadata) + 1, Len(text))

\* A video frame as it is written, whole or as a preview.
Sent(f, a) == {OnWire(BuildFrame(f, a, Picture(f))), PreviewBytes(BuildFrame(f, a, Picture(f)))}

LEMMA VideoWireFacts ==
    ASSUME NEW f \in Nat, NEW a, NEW w \in Sent(f, a)
    PROVE  /\ w.kind = "video" /\ w.id = f /\ w.ext.preview \in BOOLEAN
           /\ w.metaLen = Len(Xml(f, a)) % MetaWidth
           /\ w.body = Whole(f, w.ext.preview) \o Xml(f, a)
<1>1. CASE w = OnWire(BuildFrame(f, a, Picture(f)))
  BY <1>1 DEF Whole, OnWire, BuildFrame, Assembled, NoExt
<1>2. CASE w = PreviewBytes(BuildFrame(f, a, Picture(f)))
  BY <1>2 DEF Whole, OnWire, PreviewBytes, BuildFrame, Assembled, NoExt
<1> QED  BY <1>1, <1>2 DEF Sent

\* XmlOf, when the call gave the text.
Legible(w, text) == IF Metadata(w) = text THEN {Metadata(w)} ELSE {Metadata(w), <<>>}

\* What dispatch_av_frame makes of it carries the picture and the metadata of the call.
LEMMA PictureIntact ==
    ASSUME NEW f \in Nat, NEW a, IsCall(a), NEW w \in Sent(f, a),
           NEW m \in Legible(w, Xml(f, a))
    PROVE  Matches([id |-> w.id, preview |-> w.ext.preview, payload |-> Payload(w), metadata |-> m], a)
<1> DEFINE text == Xml(f, a)
           whole == Whole(f, w.ext.preview)
           n == Len(text)
           ml == n % MetaWidth
           rest == SubSeq(text, 1, n - ml)
<1>1. text \in Seq(Units) /\ n \in Nat /\ MetaWidth \in Nat
  BY XmlFacts, MediaPathAssumption
<1>2. whole \in Seq(Units) /\ Len(whole) \in 1..2
  BY PictureFacts DEF Whole
<1>3. ml \in 0..n /\ (n < MetaWidth => ml = n)
  <2> HIDE DEF n
  <2> QED  BY <1>1, WidthFacts
<1>4. w.body = whole \o text /\ w.metaLen = ml /\ w.id = f
  BY VideoWireFacts
<1> HIDE DEF whole, text, ml
<1>5. /\ Payload(w) = whole \o rest /\ Metadata(w) = SubSeq(text, n - ml + 1, n)
      /\ rest \in Seq(Units) /\ Metadata(w) \in Seq(Units) /\ Len(Metadata(w)) = ml
  <2>1. ml \in 0..Len(text)
    BY <1>3
  <2> HIDE DEF n
  <2>2. /\ Payload(w) = whole \o SubSeq(text, 1, Len(text) - ml)
        /\ Metadata(w) = SubSeq(text, Len(text) - ml + 1, Len(text))
        /\ SubSeq(text, 1, Len(text) - ml) \in Seq(Units)
        /\ Metadata(w) \in Seq(Units) /\ Len(Metadata(w)) = ml
    <3>1. Payload(w) = Front(whole \o text, ml) /\ Metadata(w) = Back(whole \o text, ml)
      BY <1>4 DEF Payload, Metadata, Front, Back
    <3>2. SplitContent(Units, whole, text, ml) /\ SplitLengths(whole, text, ml)
      BY <1>1, <1>2, <2>1, SplitFacts
    <3> QED  BY <3>1, <3>2 DEF SplitContent, SplitLengths
  <2> QED  BY <2>2 DEF n
<1>6. SubSeq(Payload(w), 1, Len(whole)) = whole
  <2>1. 1 \in 1..Len(whole) /\ Len(whole) \in 1..Len(whole)
    BY <1>2
  <2> HIDE DEF rest
  <2>2. SubSeq(whole \o rest, 1, Len(whole)) = SubSeq(whole, 1, Len(whole))
    BY <1>2, <1>5, <2>1, SubSeqOfConcat1
  <2> QED  BY <1>2, <1>5, <2>2, SubSeqFull
<1>7. ASSUME n < MetaWidth PROVE Payload(w) = whole /\ m = text
  <2>1. rest = <<>>
    <3>1. n - ml = 0
      BY <1>1, <1>3, <1>7
    <3> QED  BY <3>1, SubSeqEmpty
  <2>2. Payload(w) = whole
    <3> HIDE DEF rest
    <3> QED  BY <1>2, <1>5, <2>1, ConcatEmptySeq
  <2>3. Metadata(w) = text
    <3>1. n - ml + 1 = 1
      BY <1>1, <1>3, <1>7
    <3> QED  BY <1>1, <1>5, <3>1, SubSeqFull
  <2>4. m = text
    BY <2>3 DEF text, Legible
  <2> QED  BY <2>2, <2>4
<1>8. m = SubSeq(text, n - Len(m) + 1, n)
  <2>1. CASE m = Metadata(w)
    BY <1>5, <2>1
  <2>2. CASE m = <<>>
    <3>1. Len(m) = 0 /\ n - Len(m) + 1 \in Int /\ n < n - Len(m) + 1
      <4> HIDE DEF n
      <4> QED  BY <1>1, <2>2, EmptySeq
    <3> HIDE DEF n
    <3> QED  BY <1>1, <2>2, <3>1, SubSeqEmpty
  <2> QED  BY <2>1, <2>2 DEF Legible
<1> DEFINE v == [id |-> w.id, preview |-> w.ext.preview, payload |-> Payload(w), metadata |-> m]
<1>9. /\ v.id = f /\ v.payload = Payload(w) /\ v.metadata = m
      /\ text = Xml(v.id, a)
      /\ whole = Whole(v.id, v.preview)
  BY <1>4 DEF whole, text
<1> HIDE DEF v
<1> QED  BY <1>6, <1>7, <1>8, <1>9 DEF Matches, v

\* A metadata frame.
LEMMA TextIntact ==
    ASSUME NEW f \in Nat, NEW a, IsCall(a), NEW w,
           w = OnWire(Assembled("metadata", f, NoExt, Xml(f, a), <<>>))
    PROVE  w.kind = "metadata" /\ w.id = f /\ Payload(w) = Xml(f, a)
<1> DEFINE text == Xml(f, a)
<1>1. text \in Seq(Units) /\ <<>> \in Seq(Units) /\ Len(<<>>) = 0
  BY XmlFacts
<1>2. w.kind = "metadata" /\ w.id = f /\ w.body = text \o <<>> /\ w.metaLen = Len(<<>>) % MetaWidth
  BY DEF OnWire, Assembled
<1>3. w.metaLen = 0
  <2>1. Len(<<>>) % MetaWidth \in 0..Len(<<>>)
    BY <1>1, WidthFacts
  <2> QED  BY <1>1, <1>2, <2>1
<1> HIDE DEF text
<1>4. w.body = text
  BY <1>1, <1>2, ConcatEmptySeq
<1>5. Payload(w) = SubSeq(text, 1, Len(text))
  <2>1. Len(text) - 0 = Len(text)
    BY <1>1
  <2> QED  BY <1>3, <1>4, <2>1 DEF Payload
<1>6. Payload(w) = text
  BY <1>1, <1>5, SubSeqFull
<1> QED  BY <1>2, <1>6 DEF text

\* The second half of ContentIntact, for one frame and the call it came from.
Intact(d, a) ==
    LET planes == Planes(d.id, a)
    IN  IF a.coded = {} THEN d.pcm = SubSeq(planes, 1, a.channels)
        ELSE \A c \in 1..a.channels :
                LET k == Cardinality(a.coded \cap (1..c))
                IN  IF c \notin a.coded THEN d.pcm[c] = Silent
                    ELSE /\ k \in DOMAIN planes => d.pcm[c] = planes[k]
                         /\ a.xml < MetaWidth => k \in DOMAIN planes

\* What assemble_audio puts into the frame of a call.
PayloadOf(f, a) ==
    IF a.coded # {} THEN Planes(f, a) ELSE EncodePlanar(SubSeq(Planes(f, a), 1, a.channels)).payload
ActiveOf(f, a) ==
    IF a.coded # {} THEN a.coded ELSE EncodePlanar(SubSeq(Planes(f, a), 1, a.channels)).active

LEMMA AudioWireFacts ==
    ASSUME NEW f, NEW a, NEW w, w = OnWire(AssembleAudio(f, a))
    PROVE  /\ w.kind = "audio" /\ w.id = f
           /\ w.ext.channels = a.channels /\ w.ext.active = ActiveOf(f, a)
           /\ w.metaLen = Len(Xml(f, a)) % MetaWidth /\ w.body = PayloadOf(f, a) \o Xml(f, a)
BY DEF OnWire, AssembleAudio, Assembled, NoExt, PayloadOf, ActiveOf

\* The payload of a frame on the wire, and how much of its metadata is taken for it.
MetaLength(f, a) == Len(Xml(f, a)) % MetaWidth
Overhang(f, a) == SubSeq(Xml(f, a), 1, Len(Xml(f, a)) - MetaLength(f, a))

LEMMA AudioPayload ==
    ASSUME NEW f \in Nat, NEW a, IsCall(a), NEW w, w = OnWire(AssembleAudio(f, a)),
           NEW U, PayloadOf(f, a) \in Seq(U), Units \subseteq U
    PROVE  /\ Payload(w) = PayloadOf(f, a) \o Overhang(f, a) /\ Overhang(f, a) \in Seq(U)
           /\ a.xml < MetaWidth => Overhang(f, a) = <<>>
<1> DEFINE text == Xml(f, a)
           ml == MetaLength(f, a)
           data == PayloadOf(f, a)
<1>1. text \in Seq(U) /\ Len(text) = a.xml /\ a.xml \in Nat
  BY XmlFacts, SeqMonotonic
<1>2. ml \in 0..Len(text) /\ (a.xml < MetaWidth => ml = Len(text))
  BY <1>1, WidthFacts DEF MetaLength
<1>3. w.body = data \o text /\ w.metaLen = ml
  BY AudioWireFacts DEF MetaLength
<1>6. Overhang(f, a) = SubSeq(text, 1, Len(text) - ml)
  BY DEF Overhang
<1> HIDE DEF text, ml, data
<1>4. SplitContent(U, data, text, ml)
  BY <1>1, <1>2, SplitFacts DEF data
<1>5. Payload(w) = Front(data \o text, ml)
  BY <1>3 DEF Payload, Front
<1>7. ASSUME a.xml < MetaWidth PROVE Overhang(f, a) = <<>>
  <2>1. Len(text) - ml = 0
    BY <1>1, <1>2, <1>7
  <2> QED  BY <1>6, <2>1, SubSeqEmpty
<1> QED  BY <1>4, <1>5, <1>6, <1>7 DEF SplitContent, data

\* Planes that were left out are put back.
LEMMA PlanarIntact ==
    ASSUME NEW f \in Nat, NEW a, IsCall(a), a.kind = "audio", a.coded = {}, AudioLegal(a),
           NEW w, w = OnWire(AssembleAudio(f, a))
    PROVE  Decoded(w).pcm = SubSeq(Planes(f, a), 1, a.channels)
<1> DEFINE planes == SubSeq(Planes(f, a), 1, a.channels)
           e == EncodePlanar(planes)
           U == Units \cup {e.payload[k] : k \in DOMAIN e.payload}
<1>1. LegalCount(a.channels) /\ Len(a.loud) >= a.channels /\ a.channels \in Nat
  BY CallFacts DEF AudioLegal
<1>2. planes \in Seq(Units) /\ Len(planes) = a.channels
  <2>1. Planes(f, a) \in Seq(Units) /\ Len(Planes(f, a)) = Len(a.loud) /\ Len(a.loud) \in Nat
    BY PlanesFacts
  <2>2. \A i \in 1..a.channels : Planes(f, a)[i] \in Units
    BY <1>1, <2>1, ElementOfSeq
  <2>3. /\ planes \in Seq(Units)
        /\ Len(planes) = IF 1 <= a.channels THEN a.channels - 1 + 1 ELSE 0
    BY <1>1, <2>2, SubSeqProperties
  <2> HIDE DEF planes
  <2> QED  BY <1>1, <2>3 DEF LegalCount
<1> HIDE DEF planes
<1>3. e.payload \in Seq(U)
  <2> DEFINE active == {i \in DOMAIN planes : planes[i] # Silent}
  <2>1. DOMAIN planes = 1..a.channels
    BY <1>2, LenProperties
  <2>2. IsFiniteSet(active)
    <3>1. IsFiniteSet(1..a.channels)
      BY <1>1, FS_Interval
    <3> QED  BY <2>1, <3>1, FS_Subset
  <2>3. Cardinality(active) \in Nat
    BY <2>2, FS_CardinalityType
  <2>4. e.payload = [k \in 1..Cardinality(active) |->
                        planes[CHOOSE i \in active : Rank(active, i) = k - 1]]
    BY DEF EncodePlanar
  <2>5. e.payload \in [1..Cardinality(active) -> U]
    <3>1. DOMAIN e.payload = 1..Cardinality(active)
          /\ e.payload = [k \in 1..Cardinality(active) |-> e.payload[k]]
      BY <2>4
    <3> HIDE DEF e, active
    <3> QED  BY <3>1
  <2> HIDE DEF e, active, U
  <2> QED  BY <2>3, <2>5, FunctionIsSeq
<1>4. PayloadOf(f, a) = e.payload /\ ActiveOf(f, a) = e.active
  BY DEF PayloadOf, ActiveOf, planes
<1>5. Units \subseteq U
  OBVIOUS
<1> HIDE DEF U
<1>6. Payload(w) = e.payload \o Overhang(f, a) /\ Overhang(f, a) \in Seq(U)
  <2> HIDE DEF e
  <2> QED  BY <1>3, <1>4, <1>5, AudioPayload
<1>7. planes \in Seq(U) /\ LegalCount(Len(planes))
  BY <1>1, <1>2, <1>5, SeqMonotonic
<1>8. DecodePlanar(e.payload \o Overhang(f, a), Len(planes), e.active) = planes
  BY <1>6, <1>7, RoundTrip
<1> HIDE DEF e
<1>9. Decoded(w).pcm = DecodePlanar(Payload(w), w.ext.channels, w.ext.active)
  BY DEF Decoded
<1>10. w.ext.channels = a.channels /\ w.ext.active = ActiveOf(f, a)
  BY AudioWireFacts
<1> QED  BY <1>2, <1>4, <1>6, <1>8, <1>9, <1>10 DEF planes

\* The plane of an active channel is its number among the active channels.
LEMMA RankCount ==
    ASSUME NEW active \in SUBSET (1..MaxChannels), NEW c \in active
    PROVE  /\ Rank(active, c) + 1 = Cardinality(active \cap (1..c))
           /\ Rank(active, c) + 1 \in 1..Cardinality(active) /\ Cardinality(active) \in Nat
<1> USE MaxChannelsAssumption
<1>1. IsFiniteSet(active) /\ active \in SUBSET Nat /\ c \in Nat /\ c >= 1
  <2>1. IsFiniteSet(1..MaxChannels)
    BY FS_Interval
  <2>2. IsFiniteSet(active)
    BY <2>1, FS_Subset
  <2>3. \A j \in active : j \in Nat /\ j >= 1
    OBVIOUS
  <2> QED  BY <2>2, <2>3
<1> DEFINE below == {j \in active : j < c}
<1>2. active \cap (1..c) = below \cup {c} /\ c \notin below
  <2>1. \A j \in active : j \in Nat /\ j >= 1
    OBVIOUS
  <2>2. \A x \in active \cap (1..c) : x \in below \cup {c}
    BY <1>1, <2>1
  <2>3. \A x \in below \cup {c} : x \in active \cap (1..c)
    BY <1>1, <2>1
  <2>4. c \notin below
    BY <1>1
  <2> QED  BY <2>2, <2>3, <2>4
<1>3. IsFiniteSet(below)
  BY <1>1, FS_Subset
<1>4. Cardinality(below \cup {c}) = Cardinality(below) + 1
  <2> HIDE DEF below
  <2> QED  BY <1>2, <1>3, FS_AddElement
<1>5. Rank(active, c) = Cardinality(below)
  BY DEF Rank
<1>6. Rank(active, c) \in 0..(Cardinality(active) - 1) /\ Cardinality(active) \in Nat
  BY <1>1, RankBound, FS_CardinalityType
<1>7. Rank(active, c) + 1 \in 1..Cardinality(active)
  BY <1>6
<1> QED  BY <1>2, <1>4, <1>5, <1>6, <1>7

\* Data that was FPA1 already.
LEMMA CodedIntact ==
    ASSUME NEW f \in Nat, NEW a, IsCall(a), a.kind = "audio", a.coded # {},
           NEW w, w = OnWire(AssembleAudio(f, a)),
           Decodable(Payload(w), w.ext.channels, w.ext.active),
           NEW c \in 1..a.channels, NEW k, k = Cardinality(a.coded \cap (1..c))
    PROVE  IF c \notin a.coded THEN Decoded(w).pcm[c] = Silent
           ELSE /\ k \in DOMAIN Planes(f, a) => Decoded(w).pcm[c] = Planes(f, a)[k]
                /\ a.xml < MetaWidth => k \in DOMAIN Planes(f, a)
<1> DEFINE planes == Planes(f, a)
           rest == Overhang(f, a)
<1>1. /\ planes \in Seq(Units) /\ Len(planes) = Len(a.loud) /\ Len(a.loud) \in Nat
      /\ DOMAIN planes = 1..Len(a.loud) /\ a.coded \in SUBSET (1..MaxChannels)
  BY PlanesFacts, CallFacts
<1>2. PayloadOf(f, a) = planes /\ ActiveOf(f, a) = a.coded
  BY DEF PayloadOf, ActiveOf
<1> HIDE DEF planes, rest
<1>3. /\ Payload(w) = planes \o rest /\ rest \in Seq(Units)
      /\ a.xml < MetaWidth => rest = <<>>
  BY <1>1, <1>2, AudioPayload DEF rest
<1>4. w.ext.channels = a.channels /\ w.ext.active = a.coded
  BY <1>2, AudioWireFacts
<1> DEFINE data == planes \o rest
<1>5. Len(data) = Len(planes) + Len(rest) /\ Len(rest) \in Nat
      /\ \A i \in 1..(Len(planes) + Len(rest)) :
            data[i] = IF i <= Len(planes) THEN planes[i] ELSE rest[i - Len(planes)]
  BY <1>1, <1>3, ConcatProperties, LenProperties
<1> HIDE DEF data
<1>6. Decoded(w).pcm[c] = IF c \in a.coded THEN data[Rank(a.coded, c) + 1] ELSE Silent
  <2>1. Decoded(w).pcm = DecodePlanar(Payload(w), w.ext.channels, w.ext.active)
    BY DEF Decoded
  <2>2. Decoded(w).pcm = DecodePlanar(data, a.channels, a.coded)
    BY <1>3, <1>4, <2>1 DEF data
  <2> QED  BY <2>2 DEF DecodePlanar
<1>7. CASE c \notin a.coded
  BY <1>6, <1>7
<1>8. CASE c \in a.coded
  <2>1. Rank(a.coded, c) + 1 = k /\ k \in 1..Cardinality(a.coded) /\ Cardinality(a.coded) \in Nat
    BY <1>1, <1>8, RankCount
  <2>2. Decoded(w).pcm[c] = data[k]
    BY <1>6, <1>8, <2>1
  <2>3. ASSUME k \in DOMAIN planes PROVE data[k] = planes[k]
    BY <1>1, <1>5, <2>3
  <2>4. ASSUME a.xml < MetaWidth PROVE k \in DOMAIN planes
    <3>1. Cardinality(a.coded) <= Len(data)
      BY <1>3, <1>4 DEF Decodable, data
    <3>2. Len(rest) = 0
      BY <1>3, <2>4, EmptySeq
    <3> QED  BY <1>1, <1>5, <2>1, <3>1, <3>2
  <2> QED  BY <1>8, <2>2, <2>3, <2>4 DEF planes
<1> QED  BY <1>7, <1>8

LEMMA AudioIntact ==
    ASSUME NEW f \in Nat, NEW a, IsCall(a), a.kind = "audio", AudioLegal(a),
           NEW w, w = OnWire(AssembleAudio(f, a)),
           Decodable(Payload(w), w.ext.channels, w.ext.active)
    PROVE  Decoded(w).id = f /\ Intact(Decoded(w), a)
<1>1. Decoded(w).id = f
  BY AudioWireFacts DEF Decoded
<1>2. CASE a.coded = {}
  BY <1>1, <1>2, PlanarIntact DEF Intact
<1>3. CASE a.coded # {}
  <2> DEFINE Plane(c, k) ==
               IF c \notin a.coded THEN Decoded(w).pcm[c] = Silent
               ELSE /\ k \in DOMAIN Planes(f, a) => Decoded(w).pcm[c] = Planes(f, a)[k]
                    /\ a.xml < MetaWidth => k \in DOMAIN Planes(f, a)
  <2>1. ASSUME NEW c \in 1..a.channels PROVE Plane(c, Cardinality(a.coded \cap (1..c)))
    BY <1>3, CodedIntact
  <2> QED  BY <1>1, <1>3, <2>1 DEF Intact
<1> QED  BY <1>1, <1>2, <1>3

-----------------------------------------------------------------------------
(* What the state is made of.  Every queue, socket and channel holds frames as the call   *)
(* they come from makes them, so that their types say what they carry.                    *)

Video == {f \in Frames : given[f].kind \in {"video", "texture"}}
Audio == {f \in Frames : given[f].kind = "audio" /\ AudioLegal(given[f])}
Texts == {f \in Frames : given[f].kind = "metadata"}

VideoFrames == {BuildFrame(f, given[f], Picture(f)) : f \in Video}
AudioFrames == {AssembleAudio(f, given[f]) : f \in Audio}
VideoWire == UNION {Sent(f, given[f]) : f \in Video}
AudioWire == {OnWire(AssembleAudio(f, given[f])) : f \in Audio}
TextWire == {OnWire(Assembled("metadata", f, NoExt, Xml(f, given[f]), <<>>)) : f \in Texts}
Views(f, a) ==
    UNION {{[id |-> w.id, preview |-> w.ext.preview, payload |-> Payload(w), metadata |-> m] :
              m \in Legible(w, Xml(f, a))} : w \in Sent(f, a)}
Shown == UNION {Views(f, given[f]) : f \in Video}
Sounds == {Decoded(w) : w \in {x \in AudioWire : Decodable(Payload(x), x.ext.channels, x.ext.active)}}
Readings == {[id |-> f, xml |-> Xml(f, given[f])] : f \in Texts}

WorkloadType ==
    workload \in [frames : SUBSET Calls, calls : Nat, changes : Nat, preview : BOOLEAN]
CallInv ==
    /\ given \in Seq(Calls) /\ by \in Seq(Threads \cup {None}) /\ Len(by) = Len(given)
    /\ WorkloadType

\* A texture that is pending is the youngest that was submitted, and the encoder has no
\* other; while one is about to be submitted none is pending.
EncoderInv ==
    /\ {pending, stage} \subseteq Video \cup {None} /\ job \in Frames \cup {None}
    /\ pipelined \subseteq Video
    /\ pending # None => /\ job \in {pending, None} /\ pending \in pipelined
                         /\ \A x \in pipelined : x <= pending
    /\ stage # None => pending = None /\ \A x \in pipelined : x < stage

OutInv ==
    /\ out \in [Sockets -> Seq(VideoFrames \cup AudioFrames)]
    /\ out["video"] \in Seq(VideoFrames) /\ out["audio"] \in Seq(AudioFrames)
    /\ \A k \in Sockets : Len(out[k]) <= QueueDepth
    /\ ingress \in [Threads -> Seq(AudioFrames)] /\ \A t \in Threads : Len(ingress[t]) <= 1

StreamInv ==
    /\ stream \in [Sockets -> Seq(VideoWire \cup AudioWire \cup TextWire)]
    /\ stream["video"] \in Seq(VideoWire \cup TextWire)
    /\ stream["audio"] \in Seq(AudioWire \cup TextWire)

RxInv ==
    /\ seen \in Seq(Shown) /\ heard \in Seq(Sounds) /\ read \in Seq(Readings)
    /\ audioQ \in Seq(Sounds) /\ Len(audioQ) <= AudioQ
    /\ metaQ \in Seq(Readings) /\ Len(metaQ) <= MetadataQ

LossInv == failed \subseteq Frames /\ drops \in [Counters -> SUBSET Frames]

TypeInv == CallInv /\ EncoderInv /\ OutInv /\ StreamInv /\ RxInv /\ LossInv

\* The calls that were made.
LEMMA GivenFacts ==
    ASSUME CallInv
    PROVE  /\ Len(given) \in Nat /\ Frames = 1..Len(given) /\ Frames \subseteq Nat
           /\ None \notin Frames /\ \A f \in Frames : IsCall(given[f])
           /\ Video \subseteq Frames /\ Audio \subseteq Frames /\ Texts \subseteq Frames
           /\ DOMAIN by = Frames
<1>1. Len(given) \in Nat /\ Frames = 1..Len(given) /\ DOMAIN by = Frames
  BY DEF CallInv, WorkloadType, Frames
<1>2. \A f \in Frames : IsCall(given[f])
  BY <1>1 DEF CallInv, WorkloadType, IsCall
<1>3. Frames \subseteq Nat /\ None \notin Frames
  BY <1>1, MediaPathAssumption
<1> QED  BY <1>1, <1>2, <1>3 DEF Video, Audio, Texts

\* What the elements of those sets are.
LEMMA FrameFacts ==
    ASSUME CallInv
    PROVE  /\ \A x \in VideoFrames : x.id \in Video /\ x = BuildFrame(x.id, given[x.id], Picture(x.id))
           /\ \A x \in AudioFrames : x.id \in Audio /\ x = AssembleAudio(x.id, given[x.id])
<1>1. \A f, a, d : BuildFrame(f, a, d).id = f
  BY DEF BuildFrame, Assembled
<1>2. \A f, a : AssembleAudio(f, a).id = f
  BY DEF AssembleAudio, Assembled
<1> QED  BY <1>1, <1>2 DEF VideoFrames, AudioFrames

LEMMA VideoWireElement ==
    ASSUME CallInv, NEW w \in VideoWire
    PROVE  w.kind = "video" /\ w.id \in Video /\ w \in Sent(w.id, given[w.id])
<1>1. PICK f \in Video : w \in Sent(f, given[f])
  BY DEF VideoWire
<1>2. f \in Nat
  BY GivenFacts
<1>3. w.kind = "video" /\ w.id = f
  BY <1>1, <1>2, VideoWireFacts
<1> QED  BY <1>1, <1>3

LEMMA AudioWireElement ==
    ASSUME CallInv, NEW w \in AudioWire
    PROVE  w.kind = "audio" /\ w.id \in Audio /\ w = OnWire(AssembleAudio(w.id, given[w.id]))
<1>1. PICK f \in Audio : w = OnWire(AssembleAudio(f, given[f]))
  BY DEF AudioWire
<1>2. w.kind = "audio" /\ w.id = f
  BY <1>1, AudioWireFacts
<1> QED  BY <1>1, <1>2

LEMMA TextWireElement ==
    ASSUME CallInv, NEW w \in TextWire
    PROVE  w.kind = "metadata" /\ w.id \in Texts /\ [id |-> w.id, xml |-> Payload(w)] \in Readings
<1>1. PICK f \in Texts : w = OnWire(Assembled("metadata", f, NoExt, Xml(f, given[f]), <<>>))
  BY DEF TextWire
<1>2. f \in Nat /\ IsCall(given[f])
  BY GivenFacts
<1>3. w.kind = "metadata" /\ w.id = f /\ Payload(w) = Xml(f, given[f])
  BY <1>1, <1>2, TextIntact
<1> QED  BY <1>3 DEF Readings

LEMMA RxElements ==
    ASSUME CallInv
    PROVE  /\ \A v \in Shown : v.id \in Video /\ Matches(v, given[v.id])
           /\ \A d \in Sounds : d.id \in Audio /\ Intact(d, given[d.id])
           /\ \A r \in Readings : r.id \in Texts /\ r.xml = Xml(r.id, given[r.id])
<1>1. ASSUME NEW v \in Shown PROVE v.id \in Video /\ Matches(v, given[v.id])
  <2>1. PICK f \in Video : v \in Views(f, given[f])
    BY <1>1 DEF Shown
  <2>2. PICK w \in Sent(f, given[f]) :
          v \in {[id |-> w.id, preview |-> w.ext.preview, payload |-> Payload(w), metadata |-> m] :
                   m \in Legible(w, Xml(f, given[f]))}
    BY <2>1 DEF Views
  <2>3. PICK m \in Legible(w, Xml(f, given[f])) :
          v = [id |-> w.id, preview |-> w.ext.preview, payload |-> Payload(w), metadata |-> m]
    BY <2>2
  <2>4. f \in Nat /\ IsCall(given[f])
    BY GivenFacts
  <2>5. v.id = w.id /\ w.id = f
    BY <2>3, <2>4, VideoWireFacts
  <2>6. Matches(v, given[f])
    BY <2>3, <2>4, PictureIntact
  <2> QED  BY <2>5, <2>6
<1>2. ASSUME NEW d \in Sounds PROVE d.id \in Audio /\ Intact(d, given[d.id])
  <2>1. PICK w \in AudioWire : /\ d = Decoded(w)
                               /\ Decodable(Payload(w), w.ext.channels, w.ext.active)
    BY <1>2 DEF Sounds
  <2>2. w.id \in Audio /\ w = OnWire(AssembleAudio(w.id, given[w.id]))
    BY AudioWireElement
  <2>3. w.id \in Nat /\ IsCall(given[w.id]) /\ given[w.id].kind = "audio" /\ AudioLegal(given[w.id])
    BY <2>2, GivenFacts DEF Audio
  <2>4. d.id = w.id /\ Intact(d, given[w.id])
    BY <2>1, <2>2, <2>3, AudioIntact
  <2> QED  BY <2>2, <2>4
<1>3. \A r \in Readings : r.id \in Texts /\ r.xml = Xml(r.id, given[r.id])
  BY DEF Readings
<1> QED  BY <1>1, <1>2, <1>3

\* All of them have frame numbers.
LEMMA NumberFacts ==
    ASSUME CallInv
    PROVE  /\ \A x \in VideoFrames \cup AudioFrames : x.id \in Nat
           /\ \A w \in VideoWire \cup AudioWire \cup TextWire : w.id \in Nat
           /\ \A v \in Shown \cup Sounds \cup Readings : v.id \in Nat
<1>1. Video \subseteq Nat /\ Audio \subseteq Nat /\ Texts \subseteq Nat
  BY GivenFacts
<1> QED  BY <1>1, FrameFacts, VideoWireElement, AudioWireElement, TextWireElement, RxElements

LEMMA KnownFrames ==
    ASSUME CallInv
    PROVE  \A x \in VideoFrames \cup AudioFrames : x.id \in Frames
BY FrameFacts DEF Video, Audio

LEMMA KnownWires ==
    ASSUME CallInv
    PROVE  \A w \in VideoWire \cup AudioWire \cup TextWire : w.id \in Frames
BY VideoWireElement, AudioWireElement, TextWireElement DEF Video, Audio, Texts

-----------------------------------------------------------------------------
(* No step takes a call back. *)

Grows ==
    /\ Frames \subseteq Frames'
    /\ \A f \in Frames : given'[f] = given[f] /\ by'[f] = by[f]
GrowsKinds ==
    /\ Video \subseteq Video' /\ Audio \subseteq Audio' /\ Texts \subseteq Texts'
    /\ \A f \in Frames : f \in Media' <=> f \in Media
GrowsSets ==
    /\ VideoFrames \subseteq VideoFrames' /\ AudioFrames \subseteq AudioFrames'
    /\ VideoWire \subseteq VideoWire' /\ AudioWire \subseteq AudioWire' /\ TextWire \subseteq TextWire'
    /\ Shown \subseteq Shown' /\ Sounds \subseteq Sounds' /\ Readings \subseteq Readings'

LEMMA Growth ==
    ASSUME Grows
    PROVE  GrowsKinds /\ GrowsSets
<1>1. GrowsKinds
  BY DEF Grows, GrowsKinds, Video, Audio, Texts, Media
<1>2. VideoFrames \subseteq VideoFrames'
  BY <1>1 DEF Grows, GrowsKinds, VideoFrames, Video
<1>3. AudioFrames \subseteq AudioFrames'
  BY <1>1 DEF Grows, GrowsKinds, AudioFrames, Audio
<1>4. VideoWire \subseteq VideoWire'
  BY <1>1 DEF Grows, GrowsKinds, VideoWire, Video
<1>5. AudioWire \subseteq AudioWire'
  BY <1>1 DEF Grows, GrowsKinds, AudioWire, Audio
<1>6. TextWire \subseteq TextWire'
  BY <1>1 DEF Grows, GrowsKinds, TextWire, Texts
<1>7. Shown \subseteq Shown'
  BY <1>1 DEF Grows, GrowsKinds, Shown, Video
<1>8. Sounds \subseteq Sounds'
  BY <1>5 DEF Sounds
<1>9. Readings \subseteq Readings'
  BY <1>1 DEF Grows, GrowsKinds, Readings, Texts
<1> QED  BY <1>1, <1>2, <1>3, <1>4, <1>5, <1>6, <1>7, <1>8, <1>9 DEF GrowsSets

\* The frame a call is given.
LEMMA NewFrame ==
    ASSUME CallInv, NEW a \in workload.frames, NEW t \in Threads \cup {None},
           given' = Append(given, a), by' = Append(by, t), WorkloadType'
    PROVE  /\ CallInv' /\ Grows /\ IsCall(a)
           /\ Len(given) + 1 \in Nat /\ Len(given) + 1 \notin Frames
           /\ Frames' = Frames \cup {Len(given) + 1}
           /\ given'[Len(given) + 1] = a /\ by'[Len(given) + 1] = t
           /\ \A f \in Frames : f \in Nat /\ f < Len(given) + 1
<1>1. /\ given \in Seq(Calls) /\ by \in Seq(Threads \cup {None}) /\ Len(by) = Len(given)
      /\ Len(given) \in Nat /\ Frames = 1..Len(given)
  BY GivenFacts DEF CallInv, WorkloadType
<1>2. a \in Calls
  BY DEF CallInv, WorkloadType
<1>3. /\ given' \in Seq(Calls) /\ Len(given') = Len(given) + 1 /\ given'[Len(given) + 1] = a
      /\ \A f \in 1..Len(given) : given'[f] = given[f]
  <2>1. given' = Append(given, a)
    OBVIOUS
  <2> QED  BY <1>1, <1>2, <2>1, AppendProperties
<1>4. /\ by' \in Seq(Threads \cup {None}) /\ Len(by') = Len(by) + 1 /\ by'[Len(by) + 1] = t
      /\ \A f \in 1..Len(by) : by'[f] = by[f]
  <2>1. by' = Append(by, t)
    OBVIOUS
  <2> QED  BY <1>1, <2>1, AppendProperties
<1>5. CallInv'
  BY <1>1, <1>3, <1>4 DEF CallInv, WorkloadType
<1>6. Frames' = 1..(Len(given) + 1)
  BY <1>3, LenProperties DEF Frames
<1>7. Frames' = Frames \cup {Len(given) + 1}
  BY <1>1, <1>6
<1>8. Grows
  BY <1>1, <1>3, <1>4, <1>7 DEF Grows
<1> QED  BY <1>1, <1>2, <1>3, <1>4, <1>5, <1>7, <1>8 DEF IsCall

LEMMA SameCalls ==
    ASSUME UNCHANGED <<given, by>>
    PROVE  Grows
BY DEF Grows, Frames

\* What was of its type stays so.
LEMMA KeepOut ==
    ASSUME OutInv, Grows, UNCHANGED <<out, ingress>>
    PROVE  OutInv'
<1>1. VideoFrames \subseteq VideoFrames' /\ AudioFrames \subseteq AudioFrames'
  BY Growth DEF GrowsSets
<1>2. Seq(VideoFrames) \subseteq Seq(VideoFrames') /\ Seq(AudioFrames) \subseteq Seq(AudioFrames')
      /\ Seq(VideoFrames \cup AudioFrames) \subseteq Seq(VideoFrames' \cup AudioFrames')
  BY <1>1, SeqMonotonic
<1> QED  BY <1>2 DEF OutInv

LEMMA KeepStream ==
    ASSUME StreamInv, Grows, UNCHANGED stream
    PROVE  StreamInv'
<1>1. VideoWire \subseteq VideoWire' /\ AudioWire \subseteq AudioWire' /\ TextWire \subseteq TextWire'
  BY Growth DEF GrowsSets
<1>2. /\ Seq(VideoWire \cup TextWire) \subseteq Seq(VideoWire' \cup TextWire')
      /\ Seq(AudioWire \cup TextWire) \subseteq Seq(AudioWire' \cup TextWire')
      /\ Seq(VideoWire \cup AudioWire \cup TextWire) \subseteq Seq(VideoWire' \cup AudioWire' \cup TextWire')
  BY <1>1, SeqMonotonic
<1> QED  BY <1>2 DEF StreamInv

LEMMA KeepRx ==
    ASSUME RxInv, Grows, UNCHANGED rxVars
    PROVE  RxInv'
<1>1. Shown \subseteq Shown' /\ Sounds \subseteq Sounds' /\ Readings \subseteq Readings'
  BY Growth DEF GrowsSets
<1>2. /\ Seq(Shown) \subseteq Seq(Shown') /\ Seq(Sounds) \subseteq Seq(Sounds')
      /\ Seq(Readings) \subseteq Seq(Readings')
  BY <1>1, SeqMonotonic
<1> QED  BY <1>2 DEF RxInv, rxVars

LEMMA KeepLoss ==
    ASSUME LossInv, Grows, UNCHANGED lossVars
    PROVE  LossInv'
<1>1. SUBSET Frames \subseteq SUBSET (Frames')
  BY DEF Grows
<1> QED  BY <1>1 DEF LossInv, lossVars, Grows

LEMMA KeepEncoder ==
    ASSUME EncoderInv, Grows, UNCHANGED <<pending, stage, job, pipelined>>
    PROVE  EncoderInv'
<1>1. Video \subseteq Video' /\ Frames \subseteq Frames'
  BY Growth DEF GrowsKinds, Grows
<1> QED  BY <1>1 DEF EncoderInv

-----------------------------------------------------------------------------
(* Queueing. *)

KindOf(k) == IF k = "video" THEN VideoFrames ELSE AudioFrames
CounterOf(k) == IF k = "video" THEN "sender" ELSE "quiet"

\* What Ship does to the frame numbers: frame f joins the queue, or it is lost.
Queued(k, f) ==
    /\ out' = [out EXCEPT ![k] = out'[k]] /\ Ids(out'[k]) = Append(Ids(out[k]), f) /\ drops' = drops
Lost(k, f) ==
    /\ out' = out /\ drops' = [drops EXCEPT ![CounterOf(k)] = @ \cup {f}]
Shipped(k, f) == Queued(k, f) \/ Lost(k, f)

\* ingress is left to the caller: an audio thread gives its frame away.
HandsInv == ingress \in [Threads -> Seq(AudioFrames)] /\ \A t \in Threads : Len(ingress[t]) <= 1

LEMMA ShipFacts ==
    ASSUME CallInv', OutInv, LossInv, Grows, NEW k \in Sockets, NEW frame \in KindOf(k)',
           Ship(k, frame), HandsInv'
    PROVE  /\ OutInv' /\ Shipped(k, frame.id)
           /\ drops' \in [Counters -> SUBSET (Frames')]
<1>1. /\ VideoFrames \subseteq VideoFrames' /\ AudioFrames \subseteq AudioFrames'
      /\ Frames \subseteq Frames'
  BY Growth DEF GrowsSets, Grows
<1>2. /\ \A x \in VideoFrames' \cup AudioFrames' : x.id \in Nat
      /\ \A x \in VideoFrames' : x.id \in Frames'
      /\ \A x \in AudioFrames' : x.id \in Frames'
  <2>1. (\A x \in VideoFrames \cup AudioFrames : x.id \in Nat)'
    BY NumberFacts, PTL
  <2>2. (\A x \in VideoFrames \cup AudioFrames : x.id \in Frames)'
    BY KnownFrames, PTL
  <2> QED  BY <2>1, <2>2
<1> DEFINE F == VideoFrames' \cup AudioFrames'
<1>3. /\ out \in [Sockets -> Seq(F)] /\ out["video"] \in Seq(VideoFrames')
      /\ out["audio"] \in Seq(AudioFrames')
  <2>1. /\ Seq(VideoFrames) \subseteq Seq(VideoFrames') /\ Seq(AudioFrames) \subseteq Seq(AudioFrames')
        /\ Seq(VideoFrames \cup AudioFrames) \subseteq Seq(F)
    BY <1>1, SeqMonotonic
  <2> HIDE DEF F
  <2> QED  BY <2>1 DEF OutInv
<1>4. frame \in F /\ frame.id \in Frames' /\ out[k] \in Seq(KindOf(k)') /\ KindOf(k)' \subseteq F
  <2>1. CASE k = "video"
    BY <1>2, <1>3, <2>1 DEF KindOf
  <2>2. CASE k = "audio"
    BY <1>2, <1>3, <2>2 DEF KindOf
  <2> QED  BY <2>1, <2>2 DEF Sockets
<1> HIDE DEF F
<1>5. CASE Len(out[k]) < QueueDepth
  <2>1. out' = [out EXCEPT ![k] = Append(out[k], frame)] /\ drops' = drops
    BY <1>5 DEF Ship
  <2>2. out'[k] = Append(out[k], frame) /\ out' = [out EXCEPT ![k] = out'[k]]
        /\ \A j \in Sockets \ {k} : out'[j] = out[j]
    BY <1>3, <2>1
  <2>3. /\ Append(out[k], frame) \in Seq(KindOf(k)') /\ Append(out[k], frame) \in Seq(F)
        /\ Len(Append(out[k], frame)) = Len(out[k]) + 1 /\ Len(out[k]) \in Nat
    BY <1>3, <1>4, AppendProperties
  <2>4. Ids(out'[k]) = Append(Ids(out[k]), frame.id)
    BY <1>2, <1>3, <1>4, <2>2, IdsAppend DEF F
  <2>5. out' \in [Sockets -> Seq(F)] /\ \A j \in Sockets : Len(out'[j]) <= QueueDepth
    <3>1. Len(out[k]) + 1 <= QueueDepth
      BY <1>5, <2>3, MediaPathAssumption
    <3>2. \A j \in Sockets \ {k} : Len(out'[j]) <= QueueDepth
      BY <2>2 DEF OutInv
    <3>3. Len(out'[k]) <= QueueDepth
      BY <2>2, <2>3, <3>1
    <3>4. out' \in [Sockets -> Seq(F)]
      BY <1>3, <2>1, <2>3
    <3> QED  BY <3>2, <3>3, <3>4
  <2>6. out'["video"] \in Seq(VideoFrames') /\ out'["audio"] \in Seq(AudioFrames')
    <3>1. CASE k = "video"
      BY <1>3, <2>2, <2>3, <3>1 DEF KindOf, Sockets
    <3>2. CASE k = "audio"
      BY <1>3, <2>2, <2>3, <3>2 DEF KindOf, Sockets
    <3> QED  BY <3>1, <3>2 DEF Sockets
  <2>7. OutInv'
    BY <2>5, <2>6 DEF OutInv, HandsInv, F
  <2>8. drops' \in [Counters -> SUBSET (Frames')]
    BY <1>1, <2>1 DEF LossInv
  <2> QED  BY <2>1, <2>2, <2>4, <2>7, <2>8 DEF Shipped, Queued
<1>6. CASE ~(Len(out[k]) < QueueDepth)
  <2>1. out' = out /\ drops' = [drops EXCEPT ![CounterOf(k)] = @ \cup {frame.id}]
    BY <1>6 DEF Ship, CounterOf
  <2>2. OutInv'
    <3>1. out' \in [Sockets -> Seq(F)] /\ out'["video"] \in Seq(VideoFrames')
          /\ out'["audio"] \in Seq(AudioFrames')
      BY <1>3, <2>1
    <3>2. \A j \in Sockets : Len(out'[j]) <= QueueDepth
      BY <2>1 DEF OutInv
    <3> QED  BY <3>1, <3>2 DEF OutInv, HandsInv, F
  <2>3. drops' \in [Counters -> SUBSET (Frames')]
    <3>1. drops \in [Counters -> SUBSET (Frames')]
      BY <1>1 DEF LossInv
    <3>2. CounterOf(k) \in Counters
      BY DEF CounterOf, Counters
    <3> QED  BY <1>4, <2>1, <3>1, <3>2
  <2> QED  BY <2>1, <2>2, <2>3 DEF Shipped, Lost
<1> QED  BY <1>5, <1>6

-----------------------------------------------------------------------------
(* What each action does to the frames, by number.  The actions themselves are not needed  *)
(* after this.                                                                              *)

NextFrame == Len(given) + 1
IsNew(f) == /\ f = NextFrame /\ f \in Nat /\ f \notin Frames /\ Frames' = Frames \cup {f}
            /\ \A x \in Frames : x \in Nat /\ x < f

VideoCalled ==
    /\ IsNew(NextFrame) /\ NextFrame \in Video'
    /\ \/ Shipped("video", NextFrame) /\ failed' = failed
       \/ failed' = failed \cup {NextFrame} /\ UNCHANGED <<out, drops>>
    /\ UNCHANGED <<pending, stage, pipelined, ingress, stream, rxVars>>

TextureCalled ==
    /\ IsNew(NextFrame) /\ NextFrame \in Video' /\ stage = None /\ pending' = None
    /\ \/ /\ stage' = NextFrame /\ failed' = failed
          /\ \/ pending = None /\ UNCHANGED <<out, drops>>
             \/ pending # None /\ Shipped("video", pending)
       \/ /\ pending # None /\ stage' = None /\ failed' = failed \cup {pending, NextFrame}
          /\ UNCHANGED <<out, drops>>
    /\ UNCHANGED <<pipelined, ingress, stream, rxVars>>

Submitted ==
    /\ stage # None /\ stage' = None
    /\ \/ pending' = stage /\ pipelined' = pipelined \cup {stage} /\ failed' = failed
       \/ UNCHANGED <<pending, pipelined>> /\ failed' = failed \cup {stage}
    /\ UNCHANGED <<given, by, ingress, out, stream, rxVars, drops>>

Flushed ==
    /\ stage = None /\ pending # None /\ pending' = None
    /\ \/ Shipped("video", pending) /\ failed' = failed
       \/ failed' = failed \cup {pending} /\ UNCHANGED <<out, drops>>
    /\ UNCHANGED <<given, by, stage, pipelined, ingress, stream, rxVars>>

\* The parts of the invariant a video call leaves alone.
LEMMA VideoRest ==
    ASSUME TypeInv, Grows, UNCHANGED <<ingress, stream, rxVars>>
    PROVE  StreamInv' /\ RxInv' /\ HandsInv'
<1>1. StreamInv' /\ RxInv'
  BY KeepStream, KeepRx DEF TypeInv
<1>2. Seq(AudioFrames) \subseteq Seq(AudioFrames')
  BY Growth, SeqMonotonic DEF GrowsSets
<1>3. HandsInv'
  BY <1>2 DEF HandsInv, TypeInv, OutInv
<1> QED  BY <1>1, <1>3

LEMMA AddedIsNew ==
    ASSUME CallInv, NEW a \in workload.frames, NEW t \in Threads \cup {None},
           given' = Append(given, a), by' = Append(by, t), WorkloadType'
    PROVE  /\ IsNew(NextFrame) /\ CallInv' /\ Grows /\ IsCall(a)
           /\ given'[NextFrame] = a /\ by'[NextFrame] = t /\ NextFrame \in Frames'
BY NewFrame DEF IsNew, NextFrame

LEMMA NewIsNew ==
    ASSUME CallInv, NEW a \in workload.frames, NEW t \in Threads \cup {None}, Call(a, t)
    PROVE  /\ IsNew(NextFrame) /\ CallInv' /\ Grows /\ IsCall(a)
           /\ given'[NextFrame] = a /\ by'[NextFrame] = t /\ NextFrame \in Frames'
<1>1. given' = Append(given, a) /\ by' = Append(by, t) /\ workload' = workload
  BY DEF Call
<1>2. WorkloadType'
  BY <1>1 DEF CallInv, WorkloadType
<1> QED  BY <1>1, <1>2, AddedIsNew

\* A step that takes one of the workload's changes leaves a workload.
LEMMA ChangeTaken ==
    ASSUME WorkloadType, TimeOut
    PROVE  WorkloadType'
<1>1. workload.changes > 0 /\ workload' = [workload EXCEPT !.changes = workload.changes - 1]
  BY DEF TimeOut
<1> QED  BY <1>1 DEF WorkloadType

LEMMA ShipNew ==
    ASSUME TypeInv, NEW a \in workload.frames, a.kind \in {"video", "texture"}, Call(a, None),
           NEW ok \in BOOLEAN,
           ShipOrFail(ok, Len(given) + 1, BuildFrame(Len(given) + 1, a, Picture(Len(given) + 1))),
           job' \in {job, None}, UNCHANGED <<pending, stage, pipelined, ingress, stream, rxVars>>
    PROVE  TypeInv' /\ Grows /\ VideoCalled
<1> DEFINE n == NextFrame
           frame == BuildFrame(n, a, Picture(n))
<1>1. /\ IsNew(n) /\ CallInv' /\ Grows /\ given'[n] = a /\ n \in Frames'
  BY NewIsNew DEF TypeInv
<1>2. n \in Video'
  BY <1>1 DEF Video
<1>3. frame \in VideoFrames' /\ frame.id = n
  BY <1>1, <1>2 DEF VideoFrames, BuildFrame, Assembled
<1>4. StreamInv' /\ RxInv' /\ HandsInv'
  BY <1>1, VideoRest
<1>5. EncoderInv'
  <2>1. Video \subseteq Video' /\ Frames \subseteq Frames'
    BY <1>1, Growth DEF GrowsKinds, Grows
  <2> QED  BY <2>1 DEF TypeInv, EncoderInv
<1>6. ShipOrFail(ok, n, frame)
  BY DEF NextFrame
<1> HIDE DEF frame, n
<1>7. CASE ok
  <2>1. Ship("video", frame) /\ failed' = failed
    BY <1>6, <1>7 DEF ShipOrFail
  <2>2. frame \in KindOf("video")' /\ "video" \in Sockets
    BY <1>3 DEF KindOf, Sockets
  <2>3. OutInv' /\ Shipped("video", n) /\ drops' \in [Counters -> SUBSET (Frames')]
    BY <1>1, <1>3, <1>4, <2>1, <2>2, ShipFacts DEF TypeInv
  <2>4. LossInv'
    BY <1>1, <2>1, <2>3 DEF LossInv, TypeInv, Grows
  <2> QED  BY <1>1, <1>2, <1>4, <1>5, <2>1, <2>3, <2>4 DEF TypeInv, VideoCalled, n
<1>8. CASE ~ok
  <2>1. failed' = failed \cup {n} /\ UNCHANGED <<out, drops>>
    BY <1>6, <1>8 DEF ShipOrFail
  <2>2. OutInv'
    BY <1>1, <2>1, KeepOut DEF TypeInv
  <2>3. LossInv'
    BY <1>1, <2>1 DEF LossInv, TypeInv, Grows
  <2> QED  BY <1>1, <1>2, <1>4, <1>5, <2>1, <2>2, <2>3 DEF TypeInv, VideoCalled, n
<1> QED  BY <1>7, <1>8

LEMMA SendVideoStep ==
    ASSUME TypeInv, NEW a \in workload.frames, SendVideo(a) \/ SendTextureNow(a)
    PROVE  TypeInv' /\ Grows /\ VideoCalled
<1>1. /\ a.kind \in {"video", "texture"} /\ Call(a, None)
      /\ UNCHANGED <<pending, stage, pipelined, ingress, stream, rxVars>>
  BY DEF SendVideo, SendTextureNow, audioVars
<1>2. \E ok \in BOOLEAN :
        /\ job' \in {job, None}
        /\ ShipOrFail(ok, Len(given) + 1, BuildFrame(Len(given) + 1, a, Picture(Len(given) + 1)))
  BY DEF SendVideo, SendTextureNow, EncodeRaw, EncodeFromTexture, EnsureFails, Kept, encoderVars
<1> QED  BY <1>1, <1>2, ShipNew

\* finish_pending_gpu sends the pending texture or loses it.
LEMMA FinishFacts ==
    ASSUME TypeInv, CallInv', Grows, HandsInv', ingress' = ingress, NEW ok \in BOOLEAN,
           FinishPending(ok)
    PROVE  /\ pending' = None /\ job' \in {job, None}
           /\ OutInv' /\ drops' \in [Counters -> SUBSET (Frames')]
           /\ pending = None => ok /\ UNCHANGED <<out, drops>>
           /\ pending # None /\ ok => Shipped("video", pending)
           /\ ~ok => pending # None /\ UNCHANGED <<out, drops>>
<1>1. ASSUME UNCHANGED <<out, drops>>
      PROVE  OutInv' /\ drops' \in [Counters -> SUBSET (Frames')]
  BY <1>1, KeepOut DEF TypeInv, LossInv, Grows
<1>2. CASE pending = None
  <2>1. ok /\ pending' = None /\ job' = job /\ UNCHANGED <<out, drops>>
    BY <1>2 DEF FinishPending, encoderVars
  <2> QED  BY <1>1, <1>2, <2>1
<1>3. CASE pending # None
  <2>1. pending' = None /\ job' \in {job, None}
    BY <1>3 DEF FinishPending, FinishSubmittedTexture
  <2>2. CASE ~ok
    <3>1. UNCHANGED <<out, drops>>
      BY <1>3, <2>2 DEF FinishPending
    <3> QED  BY <1>1, <1>3, <2>1, <2>2, <3>1
  <2>3. CASE ok
    <3> DEFINE frame == BuildFrame(pending, given[pending], Picture(pending))
    <3>1. job = pending
      BY <1>3, <2>3 DEF FinishPending, FinishSubmittedTexture, TypeInv, EncoderInv
    <3>2. Ship("video", frame)
      BY <1>3, <2>3, <3>1 DEF FinishPending
    <3>3. pending \in Video
      BY <1>3 DEF TypeInv, EncoderInv
    <3>4. frame \in VideoFrames /\ frame.id = pending
      BY <3>3 DEF VideoFrames, BuildFrame, Assembled
    <3> HIDE DEF frame
    <3>5. frame \in KindOf("video")' /\ "video" \in Sockets
      BY <3>4, Growth DEF GrowsSets, KindOf, Sockets
    <3>6. OutInv' /\ Shipped("video", pending) /\ drops' \in [Counters -> SUBSET (Frames')]
      BY <3>2, <3>4, <3>5, ShipFacts DEF TypeInv
    <3> QED  BY <1>3, <2>1, <2>3, <3>6
  <2> QED  BY <2>2, <2>3
<1> QED  BY <1>2, <1>3

LEMMA SendTextureStep ==
    ASSUME TypeInv, NEW a \in workload.frames, SendTexture(a)
    PROVE  TypeInv' /\ Grows /\ TextureCalled
<1> DEFINE n == NextFrame
<1>1. /\ a.kind = "texture" /\ Call(a, None) /\ stage = None
      /\ UNCHANGED <<pipelined, ingress, stream, rxVars>>
  BY DEF SendTexture, audioVars
<1>2. PICK ok \in BOOLEAN :
        /\ FinishPending(ok) /\ stage' = (IF ok THEN n ELSE None)
        /\ failed' = IF ok THEN failed ELSE failed \cup {pending, n}
  BY DEF SendTexture, NextFrame
<1>3. IsNew(n) /\ CallInv' /\ Grows /\ given'[n] = a /\ n \in Frames'
  BY <1>1, NewIsNew DEF TypeInv
<1>4. n \in Video'
  BY <1>1, <1>3 DEF Video
<1> HIDE DEF n
<1>5. StreamInv' /\ RxInv' /\ HandsInv'
  BY <1>1, <1>3, VideoRest
<1>6. /\ pending' = None /\ job' \in {job, None}
      /\ OutInv' /\ drops' \in [Counters -> SUBSET (Frames')]
      /\ pending = None => ok /\ UNCHANGED <<out, drops>>
      /\ pending # None /\ ok => Shipped("video", pending)
      /\ ~ok => pending # None /\ UNCHANGED <<out, drops>>
  BY <1>1, <1>2, <1>3, <1>5, FinishFacts
<1>7. /\ Video \subseteq Video' /\ Frames \subseteq Frames' /\ Video \subseteq Frames
      /\ \A x \in Frames : x \in Nat /\ x < n
  BY <1>3, Growth DEF GrowsKinds, Grows, Video, IsNew
<1>8. EncoderInv'
  BY <1>1, <1>2, <1>4, <1>6, <1>7 DEF TypeInv, EncoderInv
<1>9. LossInv'
  <2>1. failed \subseteq Frames /\ (pending # None => pending \in Frames)
    BY <1>7 DEF TypeInv, LossInv, EncoderInv
  <2> QED  BY <1>2, <1>3, <1>6, <1>7, <2>1 DEF LossInv
<1>10. TextureCalled
  BY <1>1, <1>2, <1>3, <1>4, <1>6 DEF TextureCalled, n
<1> QED  BY <1>3, <1>5, <1>6, <1>8, <1>9, <1>10 DEF TypeInv

LEMMA SubmitStep ==
    ASSUME TypeInv, SubmitTexture
    PROVE  TypeInv' /\ Grows /\ Submitted
<1>1. /\ stage # None /\ stage' = None
      /\ UNCHANGED <<workload, given, by, ingress, out, stream, rxVars, drops>>
  BY DEF SubmitTexture, callVars, audioVars, linkVars
<1>2. PICK ok \in BOOLEAN :
        /\ ok => job' = stage /\ pending' = stage /\ pipelined' = pipelined \cup {stage} /\ failed' = failed
        /\ ~ok => job' \in {job, None} /\ failed' = failed \cup {stage} /\ UNCHANGED <<pending, pipelined>>
  BY DEF SubmitTexture, SubmitFromTexture, EnsureFails, Kept, encoderVars
<1>3. Grows /\ CallInv'
  BY <1>1, SameCalls DEF TypeInv, CallInv, WorkloadType
<1>4. OutInv' /\ StreamInv' /\ RxInv'
  BY <1>1, <1>3, KeepOut, KeepStream, KeepRx DEF TypeInv
<1>5. Frames' = Frames /\ Video' = Video
  BY <1>1 DEF Frames, Video
<1>6. stage \in Video /\ Video \subseteq Frames /\ Frames \subseteq Nat
  BY <1>1, GivenFacts DEF TypeInv, EncoderInv
<1>7. LossInv'
  BY <1>1, <1>2, <1>5, <1>6 DEF TypeInv, LossInv
<1>8. EncoderInv'
  <2>1. stage <= stage
    BY <1>6
  <2>2. \A x \in pipelined : x <= stage
    <3>1. \A x \in pipelined : x < stage /\ x \in Nat /\ stage \in Nat
      BY <1>1, <1>6 DEF TypeInv, EncoderInv
    <3> QED  BY <3>1
  <2> QED  BY <1>1, <1>2, <1>5, <1>6, <2>1, <2>2 DEF TypeInv, EncoderInv
<1>9. Submitted
  BY <1>1, <1>2 DEF Submitted
<1> QED  BY <1>3, <1>4, <1>7, <1>8, <1>9 DEF TypeInv

LEMMA FlushStep ==
    ASSUME TypeInv, Flush
    PROVE  TypeInv' /\ Grows /\ Flushed
<1>1. /\ stage = None /\ pending # None
      /\ UNCHANGED <<workload, given, by, stage, pipelined, ingress, stream, rxVars>>
  BY DEF Flush, callVars, audioVars
<1>2. PICK ok \in BOOLEAN :
        FinishPending(ok) /\ failed' = IF ok THEN failed ELSE failed \cup {pending}
  BY DEF Flush
<1>3. Grows /\ CallInv'
  BY <1>1, SameCalls DEF TypeInv, CallInv, WorkloadType
<1>4. StreamInv' /\ RxInv' /\ HandsInv'
  BY <1>1, <1>3, VideoRest
<1>5. /\ pending' = None /\ job' \in {job, None}
      /\ OutInv' /\ drops' \in [Counters -> SUBSET (Frames')]
      /\ pending # None /\ ok => Shipped("video", pending)
      /\ ~ok => pending # None /\ UNCHANGED <<out, drops>>
  BY <1>1, <1>2, <1>3, <1>4, FinishFacts
<1>6. Frames' = Frames /\ Video' = Video /\ Video \subseteq Frames
  BY <1>1 DEF Frames, Video
<1>7. EncoderInv'
  BY <1>1, <1>5, <1>6 DEF TypeInv, EncoderInv
<1>8. LossInv'
  <2>1. failed \subseteq Frames /\ pending \in Frames
    BY <1>1, <1>6 DEF TypeInv, LossInv, EncoderInv
  <2> QED  BY <1>2, <1>5, <1>6, <2>1 DEF LossInv
<1>9. Flushed
  BY <1>1, <1>2, <1>5 DEF Flushed
<1> QED  BY <1>3, <1>4, <1>5, <1>7, <1>8, <1>9 DEF TypeInv

Texted ==
    /\ IsNew(NextFrame) /\ NextFrame \in Texts'
    /\ \A k \in Sockets : \/ stream'[k] = stream[k]
                          \/ Ids(stream'[k]) = Append(Ids(stream[k]), NextFrame)
    /\ UNCHANGED <<pending, stage, pipelined, ingress, out, rxVars, drops, failed>>

Stamped(t) ==
    /\ IsNew(NextFrame) /\ NextFrame \in Media' /\ by'[NextFrame] = t /\ IdSet(ingress[t]) = {}
    /\ \/ /\ ingress' = [ingress EXCEPT ![t] = ingress'[t]] /\ IdSet(ingress'[t]) = {NextFrame}
          /\ failed' = failed
       \/ ingress' = ingress /\ failed' = failed \cup {NextFrame}
    /\ UNCHANGED <<pending, stage, pipelined, out, stream, rxVars, drops>>

AudioQueued(t, f) ==
    /\ IdSet(ingress[t]) = {f} /\ f \in Audio
    /\ ingress' = [ingress EXCEPT ![t] = ingress'[t]] /\ IdSet(ingress'[t]) = {}
    /\ Shipped("audio", f)
    /\ UNCHANGED <<given, by, pending, stage, pipelined, stream, rxVars, failed>>

Idle == UNCHANGED <<given, by, pending, stage, pipelined, ingress, out, stream, rxVars, drops, failed>>

LEMMA SendMetadataStep ==
    ASSUME TypeInv, NEW a \in workload.frames, SendMetadata(a)
    PROVE  TypeInv' /\ Grows /\ Texted
<1> DEFINE n == NextFrame
           item == OnWire(Assembled("metadata", n, NoExt, Xml(n, a), <<>>))
<1>0. PICK late \in SUBSET {k \in Sockets : peer[k] # "gone"} :
         /\ IF late = {} THEN UNCHANGED workload ELSE TimeOut
         /\ stream' = [k \in Sockets |-> IF peer[k] = "good" /\ k \notin late
                                         THEN Append(stream[k], item) ELSE stream[k]]
  BY DEF SendMetadata, NextFrame
<1>1. /\ a.kind = "metadata" /\ given' = Append(given, a) /\ by' = Append(by, None)
      /\ \A k \in Sockets : stream'[k] = stream[k] \/ stream'[k] = Append(stream[k], item)
      /\ stream' = [k \in Sockets |-> stream'[k]]
      /\ UNCHANGED <<pending, stage, job, pipelined, ingress, out, rxVars, drops, failed>>
  <2>1. /\ a.kind = "metadata" /\ given' = Append(given, a) /\ by' = Append(by, None)
        /\ UNCHANGED <<pending, stage, job, pipelined, ingress, out, rxVars, drops, failed>>
    BY DEF SendMetadata, senderVars, encoderVars, audioVars, lossVars
  <2> HIDE DEF item
  <2>2. /\ \A k \in Sockets : stream'[k] = stream[k] \/ stream'[k] = Append(stream[k], item)
        /\ stream' = [k \in Sockets |-> stream'[k]]
    BY <1>0
  <2> QED  BY <2>1, <2>2
<1>2. IsNew(n) /\ CallInv' /\ Grows /\ given'[n] = a /\ n \in Frames'
  <2>1. CallInv /\ WorkloadType
    BY DEF TypeInv, CallInv
  <2>2. WorkloadType'
    BY <1>0, <2>1, ChangeTaken DEF WorkloadType
  <2> QED  BY <1>1, <2>1, <2>2, AddedIsNew
<1>3. n \in Texts' /\ item \in TextWire' /\ item.id = n
  <2>1. n \in Texts'
    BY <1>1, <1>2 DEF Texts
  <2> QED  BY <1>2, <2>1 DEF TextWire, OnWire, Assembled
<1> HIDE DEF n, item
<1>4. EncoderInv' /\ OutInv' /\ RxInv' /\ LossInv'
  BY <1>1, <1>2, KeepEncoder, KeepOut, KeepRx, KeepLoss DEF TypeInv, lossVars
<1> DEFINE V == VideoWire' \cup TextWire'
           A == AudioWire' \cup TextWire'
           W == VideoWire' \cup AudioWire' \cup TextWire'
<1>5. /\ stream \in [Sockets -> Seq(W)] /\ stream["video"] \in Seq(V) /\ stream["audio"] \in Seq(A)
  <2>1. VideoWire \subseteq VideoWire' /\ AudioWire \subseteq AudioWire' /\ TextWire \subseteq TextWire'
    BY <1>2, Growth DEF GrowsSets
  <2>2. /\ Seq(VideoWire \cup TextWire) \subseteq Seq(V) /\ Seq(AudioWire \cup TextWire) \subseteq Seq(A)
        /\ Seq(VideoWire \cup AudioWire \cup TextWire) \subseteq Seq(W)
    BY <2>1, SeqMonotonic
  <2> HIDE DEF V, A, W
  <2> QED  BY <2>2 DEF TypeInv, StreamInv
<1>6. item \in V /\ item \in A /\ item \in W
  BY <1>3
<1>7. \A x \in W : x.id \in Nat
  <2>1. (\A w \in VideoWire \cup AudioWire \cup TextWire : w.id \in Nat)'
    <3>1. CallInv'
      BY <1>2
    <3> QED  BY <3>1, NumberFacts, PTL
  <2> QED  BY <2>1
<1> HIDE DEF V, A, W
<1>8. StreamInv'
  <2>1. Append(stream["video"], item) \in Seq(V) /\ Append(stream["audio"], item) \in Seq(A)
        /\ \A k \in Sockets : Append(stream[k], item) \in Seq(W)
    BY <1>5, <1>6, AppendProperties
  <2>2. stream' \in [Sockets -> Seq(W)]
    BY <1>1, <1>5, <2>1
  <2>3. "video" \in Sockets /\ "audio" \in Sockets
    BY DEF Sockets
  <2>4. stream'["video"] \in Seq(V) /\ stream'["audio"] \in Seq(A)
    BY <1>1, <1>5, <2>1, <2>3
  <2> QED  BY <2>2, <2>4 DEF StreamInv, V, A, W
<1>9. ASSUME NEW k \in Sockets
      PROVE  stream'[k] = stream[k] \/ Ids(stream'[k]) = Append(Ids(stream[k]), n)
  <2>1. Ids(Append(stream[k], item)) = Append(Ids(stream[k]), n)
    <3>1. stream[k] \in Seq(W) /\ item.id = n
      BY <1>3, <1>5
    <3> QED  BY <1>6, <1>7, <3>1, IdsAppend
  <2> QED  BY <1>1, <2>1
<1>10. Texted
  BY <1>1, <1>2, <1>3, <1>9 DEF Texted, n
<1> QED  BY <1>2, <1>4, <1>8, <1>10 DEF TypeInv

\* A sequence of one frame, or of none.
LEMMA OneFrame ==
    ASSUME NEW x, NEW S, x \in S
    PROVE  /\ <<x>> \in Seq(S) /\ Len(<<x>>) = 1 /\ Head(<<x>>) = x /\ IdSet(<<x>>) = {x.id}
           /\ <<>> \in Seq(S) /\ IdSet(<<>>) = {} /\ Len(<<>>) = 0
BY DEF IdSet

LEMMA AudioStampStep ==
    ASSUME TypeInv, NEW t \in Threads, NEW a \in workload.frames, AudioStamp(t, a)
    PROVE  TypeInv' /\ Grows /\ Stamped(t)
<1> DEFINE n == NextFrame
           x == AssembleAudio(n, a)
<1>1. /\ a.kind = "audio" /\ Call(a, t) /\ ingress[t] = <<>>
      /\ IF AudioLegal(a) THEN ingress' = [ingress EXCEPT ![t] = <<x>>] /\ failed' = failed
                          ELSE failed' = failed \cup {n} /\ ingress' = ingress
      /\ UNCHANGED <<pending, stage, job, pipelined, out, stream, rxVars, drops>>
  BY DEF AudioStamp, NextFrame, senderVars, encoderVars, linkVars
<1>2. IsNew(n) /\ CallInv' /\ Grows /\ given'[n] = a /\ by'[n] = t /\ n \in Frames'
  BY <1>1, NewIsNew DEF TypeInv
<1>3. n \in Media' /\ (AudioLegal(a) => x \in AudioFrames' /\ x.id = n)
  <2>1. n \in Media' /\ (AudioLegal(a) => n \in Audio')
    BY <1>1, <1>2 DEF Audio, Media
  <2> QED  BY <1>2, <2>1 DEF AudioFrames, AssembleAudio, Assembled
<1>4. EncoderInv' /\ StreamInv' /\ RxInv'
  BY <1>1, <1>2, KeepEncoder, KeepStream, KeepRx DEF TypeInv
<1>5. LossInv'
  BY <1>1, <1>2 DEF TypeInv, LossInv, Grows
<1>6. Seq(AudioFrames) \subseteq Seq(AudioFrames')
  BY <1>2, Growth, SeqMonotonic DEF GrowsSets
<1> HIDE DEF n, x
<1>7. ingress \in [Threads -> Seq(AudioFrames')] /\ \A u \in Threads : Len(ingress[u]) <= 1
  BY <1>6 DEF TypeInv, OutInv
<1>8. HandsInv'
  <2>1. CASE AudioLegal(a)
    <3>1. <<x>> \in Seq(AudioFrames') /\ Len(<<x>>) = 1
      BY <1>3, <2>1, OneFrame
    <3>2. ingress' = [ingress EXCEPT ![t] = <<x>>]
      BY <1>1, <2>1
    <3> DEFINE one == <<x>>
    <3> HIDE DEF one
    <3>3. ingress' \in [Threads -> Seq(AudioFrames')] /\ \A u \in Threads : Len(ingress'[u]) <= 1
      <4>1. one \in Seq(AudioFrames') /\ Len(one) = 1 /\ ingress' = [ingress EXCEPT ![t] = one]
        BY <3>1, <3>2 DEF one
      <4>2. ingress'[t] = one /\ \A u \in Threads \ {t} : ingress'[u] = ingress[u]
        BY <1>7, <4>1
      <4>3. \A u \in Threads : Len(ingress'[u]) <= 1
        <5>1. Len(ingress'[t]) <= 1
          <6>1. Len(ingress'[t]) = 1
            BY <4>1, <4>2
          <6> QED  BY <6>1
        <5>2. \A u \in Threads \ {t} : Len(ingress'[u]) <= 1
          BY <1>7, <4>2
        <5> QED  BY <5>1, <5>2
      <4>4. ingress' \in [Threads -> Seq(AudioFrames')]
        BY <1>7, <4>1
      <4> QED  BY <4>3, <4>4
    <3> QED  BY <3>3 DEF HandsInv
  <2>2. CASE ~AudioLegal(a)
    BY <1>1, <1>7, <2>2 DEF HandsInv
  <2> QED  BY <2>1, <2>2
<1>9. OutInv'
  <2>1. VideoFrames \subseteq VideoFrames' /\ AudioFrames \subseteq AudioFrames'
    BY <1>2, Growth DEF GrowsSets
  <2>2. Seq(VideoFrames) \subseteq Seq(VideoFrames')
        /\ Seq(VideoFrames \cup AudioFrames) \subseteq Seq(VideoFrames' \cup AudioFrames')
    BY <2>1, SeqMonotonic
  <2> QED  BY <1>1, <1>6, <1>8, <2>2 DEF TypeInv, OutInv, HandsInv
<1>10. Stamped(t)
  <2>1. IdSet(ingress[t]) = {}
    BY <1>1, OneFrame
  <2>2. CASE AudioLegal(a)
    <3>1. ingress'[t] = <<x>> /\ ingress' = [ingress EXCEPT ![t] = ingress'[t]]
      BY <1>1, <1>7, <2>2
    <3>2. IdSet(<<x>>) = {n}
      BY <1>3, <2>2, OneFrame
    <3> QED  BY <1>1, <1>2, <1>3, <2>1, <2>2, <3>1, <3>2 DEF Stamped, n
  <2>3. CASE ~AudioLegal(a)
    BY <1>1, <1>2, <1>3, <2>1, <2>3 DEF Stamped, n
  <2> QED  BY <2>2, <2>3
<1> QED  BY <1>2, <1>4, <1>5, <1>9, <1>10 DEF TypeInv

LEMMA AudioQueueStep ==
    ASSUME TypeInv, NEW t \in Threads, AudioQueue(t)
    PROVE  TypeInv' /\ Grows /\ AudioQueued(t, Head(ingress[t]).id)
<1> DEFINE x == Head(ingress[t])
<1>1. /\ ingress[t] # <<>> /\ Ship("audio", x) /\ ingress' = [ingress EXCEPT ![t] = <<>>]
      /\ UNCHANGED <<workload, given, by, pending, stage, job, pipelined, stream, rxVars, failed>>
  BY DEF AudioQueue, callVars, senderVars, encoderVars
<1>2. Grows /\ CallInv'
  BY <1>1, SameCalls DEF TypeInv, CallInv, WorkloadType
<1>3. ingress \in [Threads -> Seq(AudioFrames)] /\ \A u \in Threads : Len(ingress[u]) <= 1
  BY DEF TypeInv, OutInv
<1>4. Frames' = Frames /\ AudioFrames' = AudioFrames
  BY <1>1 DEF AudioFrames, Audio, Frames
<1>5. x \in AudioFrames /\ x.id \in Audio /\ IdSet(ingress[t]) = {x.id}
  <2>1. ingress[t] \in Seq(AudioFrames) /\ Len(ingress[t]) = 1
    <3>1. ingress[t] \in Seq(AudioFrames) /\ Len(ingress[t]) <= 1 /\ Len(ingress[t]) \in Nat
      BY <1>3
    <3>2. Len(ingress[t]) # 0
      <4> DEFINE s == ingress[t]
      <4>1. s \in Seq(AudioFrames) /\ s # <<>>
        BY <1>1, <3>1
      <4> HIDE DEF s
      <4>2. Len(s) # 0
        BY <4>1, EmptySeq
      <4> QED  BY <4>2 DEF s
    <3>3. \A i \in Nat : i <= 1 /\ i # 0 => i = 1
      OBVIOUS
    <3> QED  BY <3>1, <3>2, <3>3
  <2>2. x \in AudioFrames /\ ingress[t][1] = x /\ DOMAIN ingress[t] = {1}
    BY <2>1
  <2> QED  BY <2>2, FrameFacts DEF IdSet, TypeInv
<1>6. HandsInv'
  <2>1. <<>> \in Seq(AudioFrames) /\ Len(<<>>) = 0
    OBVIOUS
  <2> QED  BY <1>1, <1>3, <1>4, <2>1 DEF HandsInv
<1>7. EncoderInv' /\ StreamInv' /\ RxInv'
  BY <1>1, <1>2, KeepEncoder, KeepStream, KeepRx DEF TypeInv
<1>8. x \in KindOf("audio")' /\ "audio" \in Sockets
  BY <1>4, <1>5 DEF KindOf, Sockets
<1> HIDE DEF x
<1>9. OutInv' /\ Shipped("audio", x.id) /\ drops' \in [Counters -> SUBSET (Frames')]
  BY <1>1, <1>2, <1>6, <1>8, ShipFacts DEF TypeInv
<1>10. LossInv'
  BY <1>1, <1>4, <1>9 DEF TypeInv, LossInv
<1>11. ingress'[t] = <<>> /\ ingress' = [ingress EXCEPT ![t] = ingress'[t]] /\ IdSet(ingress'[t]) = {}
  <2>1. IdSet(<<>>) = {}
    BY DEF IdSet
  <2> QED  BY <1>1, <1>3, <2>1
<1>12. AudioQueued(t, x.id)
  BY <1>1, <1>5, <1>9, <1>11 DEF AudioQueued
<1> QED  BY <1>2, <1>7, <1>9, <1>10, <1>12 DEF TypeInv, x

LEMMA IdleStep ==
    ASSUME TypeInv, Poll \/ (\E on \in BOOLEAN : SetPipeline(on)) \/ (\E k \in Sockets : Return(k))
                    \/ UNCHANGED vars
    PROVE  TypeInv' /\ Grows /\ Idle
<1>1. Idle /\ UNCHANGED job
  BY DEF Poll, SetPipeline, Return, vars, callVars, senderVars, encoderVars, audioVars, linkVars,
         lossVars, Idle
<1>2. workload' \in [frames : SUBSET Calls, calls : Nat, changes : Nat, preview : BOOLEAN]
  <2>1. workload \in [frames : SUBSET Calls, calls : Nat, changes : Nat, preview : BOOLEAN]
    BY DEF TypeInv, CallInv, WorkloadType
  <2>2. \/ workload' = workload
        \/ workload.changes > 0 /\ workload' = [workload EXCEPT !.changes = workload.changes - 1]
    <3>1. CASE Poll
      BY <3>1 DEF Poll
    <3>2. CASE \E on \in BOOLEAN : SetPipeline(on)
      BY <3>2 DEF SetPipeline, callVars
    <3>3. CASE \E k \in Sockets : Return(k)
      BY <3>3 DEF Return, callVars
    <3>4. CASE UNCHANGED vars
      BY <3>4 DEF vars, callVars
    <3> QED  BY <3>1, <3>2, <3>3, <3>4
  <2> QED  BY <2>1, <2>2
<1>3. Grows /\ CallInv'
  BY <1>1, <1>2, SameCalls DEF TypeInv, CallInv, WorkloadType, Idle
<1>4. EncoderInv' /\ OutInv' /\ StreamInv' /\ RxInv' /\ LossInv'
  BY <1>1, <1>3, KeepEncoder, KeepOut, KeepStream, KeepRx, KeepLoss DEF TypeInv, Idle, lossVars
<1> QED  BY <1>1, <1>3, <1>4 DEF TypeInv

\* The frame numbers in a queue, a socket or a channel are a sequence of numbers.
Lines ==
    /\ Ids(seen) \in Seq(Nat) /\ Ids(heard) \in Seq(Nat) /\ Ids(read) \in Seq(Nat)
    /\ Ids(audioQ) \in Seq(Nat) /\ Ids(metaQ) \in Seq(Nat)
    /\ \A k \in Sockets : Ids(stream[k]) \in Seq(Nat) /\ Ids(out[k]) \in Seq(Nat)
Contents ==
    /\ Members(Ids(seen)) = IdSet(seen) /\ Members(Ids(heard)) = IdSet(heard)
    /\ Members(Ids(read)) = IdSet(read)
    /\ Members(Ids(audioQ)) = IdSet(audioQ) /\ Members(Ids(metaQ)) = IdSet(metaQ)
    /\ \A k \in Sockets : /\ Members(Ids(stream[k])) = IdSet(stream[k])
                          /\ Members(Ids(out[k])) = IdSet(out[k])

LEMMA LineFacts ==
    ASSUME TypeInv
    PROVE  Lines /\ Contents
<1>1. /\ \A x \in VideoFrames \cup AudioFrames : x.id \in Nat
      /\ \A w \in VideoWire \cup AudioWire \cup TextWire : w.id \in Nat
      /\ \A v \in Shown : v.id \in Nat
      /\ \A v \in Sounds : v.id \in Nat
      /\ \A v \in Readings : v.id \in Nat
  BY NumberFacts DEF TypeInv
<1>2. Ids(seen) \in Seq(Nat) /\ Members(Ids(seen)) = IdSet(seen)
  BY <1>1, IdsFacts DEF TypeInv, RxInv
<1>3. Ids(heard) \in Seq(Nat) /\ Members(Ids(heard)) = IdSet(heard)
  BY <1>1, IdsFacts DEF TypeInv, RxInv
<1>4. Ids(read) \in Seq(Nat) /\ Members(Ids(read)) = IdSet(read)
  BY <1>1, IdsFacts DEF TypeInv, RxInv
<1>5. Ids(audioQ) \in Seq(Nat) /\ Members(Ids(audioQ)) = IdSet(audioQ)
  BY <1>1, IdsFacts DEF TypeInv, RxInv
<1>6. Ids(metaQ) \in Seq(Nat) /\ Members(Ids(metaQ)) = IdSet(metaQ)
  BY <1>1, IdsFacts DEF TypeInv, RxInv
<1>7. \A k \in Sockets : Ids(stream[k]) \in Seq(Nat) /\ Members(Ids(stream[k])) = IdSet(stream[k])
  <2>1. \A k \in Sockets : stream[k] \in Seq(VideoWire \cup AudioWire \cup TextWire)
    BY DEF TypeInv, StreamInv
  <2> QED  BY <1>1, <2>1, IdsFacts
<1>8. \A k \in Sockets : Ids(out[k]) \in Seq(Nat) /\ Members(Ids(out[k])) = IdSet(out[k])
  <2>1. \A k \in Sockets : out[k] \in Seq(VideoFrames \cup AudioFrames)
    BY DEF TypeInv, OutInv
  <2> QED  BY <1>1, <2>1, IdsFacts
<1>9. Lines
  BY <1>2, <1>3, <1>4, <1>5, <1>6, <1>7, <1>8 DEF Lines
<1>10. Contents
  BY <1>2, <1>3, <1>4, <1>5, <1>6, <1>7, <1>8 DEF Contents
<1> QED  BY <1>9, <1>10

Written(k) ==
    /\ Ids(out[k]) # <<>>
    /\ out' = [out EXCEPT ![k] = out'[k]] /\ Ids(out'[k]) = Tail(Ids(out[k]))
    /\ \/ /\ stream' = [stream EXCEPT ![k] = stream'[k]]
          /\ Ids(stream'[k]) = Append(Ids(stream[k]), Head(Ids(out[k]))) /\ drops' = drops
       \/ /\ stream' = stream
          /\ \E c \in {"link", "late", "torn"} : drops' = [drops EXCEPT ![c] = @ \cup {Head(Ids(out[k]))}]
    /\ UNCHANGED <<given, by, pending, stage, pipelined, ingress, rxVars, failed>>

Gone(k) ==
    /\ stream' = [stream EXCEPT ![k] = <<>>]
    /\ drops' = [drops EXCEPT !["link"] = @ \cup IdSet(stream[k])]
    /\ UNCHANGED <<given, by, pending, stage, pipelined, ingress, out, rxVars, failed>>

\* The frames of a writer's queue, and what it writes.
WireOf(k) == IF k = "video" THEN VideoWire ELSE AudioWire

LEMMA VariantFacts ==
    ASSUME CallInv, NEW k \in Sockets, NEW x \in KindOf(k), NEW w \in Variants(x)
    PROVE  w \in WireOf(k) /\ w.id = x.id
<1>1. CASE k = "video"
  <2>1. x.id \in Video /\ x = BuildFrame(x.id, given[x.id], Picture(x.id))
    BY <1>1, FrameFacts DEF KindOf
  <2>2. w \in Sent(x.id, given[x.id])
    BY <2>1 DEF Variants, Sent
  <2>3. w.id = x.id
    BY <2>1, <2>2, VideoWireFacts, GivenFacts
  <2> QED  BY <1>1, <2>1, <2>2, <2>3 DEF WireOf, VideoWire
<1>2. CASE k = "audio"
  <2>1. x.id \in Audio /\ x = AssembleAudio(x.id, given[x.id])
    BY <1>2, FrameFacts DEF KindOf
  <2>2. x.kind = "audio"
    BY <2>1 DEF AssembleAudio, Assembled
  <2>3. w = OnWire(AssembleAudio(x.id, given[x.id]))
    BY <2>1, <2>2 DEF Variants
  <2>4. w.id = x.id
    BY <2>3 DEF OnWire, AssembleAudio, Assembled
  <2> QED  BY <1>2, <2>1, <2>3, <2>4 DEF WireOf, AudioWire
<1> QED  BY <1>1, <1>2 DEF Sockets

\* A frame more on a socket.
LEMMA StreamAppend ==
    ASSUME CallInv, StreamInv, NEW k \in Sockets, NEW w \in WireOf(k),
           stream' = [stream EXCEPT ![k] = Append(@, w)], UNCHANGED <<given, by>>
    PROVE  /\ StreamInv' /\ stream' = [stream EXCEPT ![k] = stream'[k]]
           /\ Ids(stream'[k]) = Append(Ids(stream[k]), w.id)
<1> DEFINE V == VideoWire \cup TextWire
           A == AudioWire \cup TextWire
           W == VideoWire \cup AudioWire \cup TextWire
<1>1. V' = V /\ A' = A /\ W' = W
  BY DEF VideoWire, AudioWire, TextWire, Video, Audio, Texts, Frames
<1>2. /\ stream \in [Sockets -> Seq(W)] /\ stream["video"] \in Seq(V) /\ stream["audio"] \in Seq(A)
  BY DEF StreamInv
<1>3. w \in W /\ (k = "video" => w \in V) /\ (k = "audio" => w \in A)
  BY DEF WireOf, Sockets
<1>4. \A x \in W : x.id \in Nat
  BY NumberFacts
<1>5. StreamInv' <=> /\ stream' \in [Sockets -> Seq(W)] /\ stream'["video"] \in Seq(V)
                     /\ stream'["audio"] \in Seq(A)
  BY <1>1 DEF StreamInv
<1> HIDE DEF V, A, W
<1>6. /\ stream'[k] = Append(stream[k], w) /\ stream' = [stream EXCEPT ![k] = stream'[k]]
      /\ \A j \in Sockets \ {k} : stream'[j] = stream[j]
  BY <1>2
<1>7. Append(stream[k], w) \in Seq(W) /\ Ids(Append(stream[k], w)) = Append(Ids(stream[k]), w.id)
  BY <1>2, <1>3, <1>4, IdsAppend
<1>8. stream' \in [Sockets -> Seq(W)]
  BY <1>2, <1>7
<1>9. stream'["video"] \in Seq(V) /\ stream'["audio"] \in Seq(A)
  <2>1. CASE k = "video"
    <3>1. Append(stream["video"], w) \in Seq(V)
      BY <1>2, <1>3, <2>1, AppendProperties
    <3> QED  BY <1>2, <1>6, <2>1, <3>1 DEF Sockets
  <2>2. CASE k = "audio"
    <3>1. Append(stream["audio"], w) \in Seq(A)
      BY <1>2, <1>3, <2>2, AppendProperties
    <3> QED  BY <1>2, <1>6, <2>2, <3>1 DEF Sockets
  <2> QED  BY <2>1, <2>2 DEF Sockets
<1> QED  BY <1>5, <1>6, <1>7, <1>8, <1>9

\* One frame less on a socket, or none left.
LEMMA StreamLess ==
    ASSUME StreamInv, NEW k \in Sockets, NEW s,
           \A T : stream[k] \in Seq(T) => s \in Seq(T),
           stream' = [stream EXCEPT ![k] = s], UNCHANGED <<given, by>>
    PROVE  StreamInv' /\ stream'[k] = s /\ stream' = [stream EXCEPT ![k] = stream'[k]]
<1> DEFINE V == VideoWire \cup TextWire
           A == AudioWire \cup TextWire
           W == VideoWire \cup AudioWire \cup TextWire
<1>1. V' = V /\ A' = A /\ W' = W
  BY DEF VideoWire, AudioWire, TextWire, Video, Audio, Texts, Frames
<1>2. /\ stream \in [Sockets -> Seq(W)] /\ stream["video"] \in Seq(V) /\ stream["audio"] \in Seq(A)
  BY DEF StreamInv
<1>3. StreamInv' <=> /\ stream' \in [Sockets -> Seq(W)] /\ stream'["video"] \in Seq(V)
                     /\ stream'["audio"] \in Seq(A)
  BY <1>1 DEF StreamInv
<1> HIDE DEF V, A, W
<1>4. /\ stream'[k] = s /\ stream' = [stream EXCEPT ![k] = stream'[k]]
      /\ \A j \in Sockets \ {k} : stream'[j] = stream[j]
  BY <1>2
<1>5. stream[k] \in Seq(W)
  BY <1>2
<1>6. s \in Seq(W) /\ (k = "video" => s \in Seq(V)) /\ (k = "audio" => s \in Seq(A))
  BY <1>2, <1>5
<1>7. stream' \in [Sockets -> Seq(W)]
  BY <1>2, <1>6
<1>8. stream'["video"] \in Seq(V) /\ stream'["audio"] \in Seq(A)
  BY <1>2, <1>4, <1>6 DEF Sockets
<1> QED  BY <1>3, <1>4, <1>7, <1>8

\* One frame less in a writer's queue.
LEMMA OutTail ==
    ASSUME CallInv, OutInv, NEW k \in Sockets, out[k] # <<>>, out' = [out EXCEPT ![k] = Tail(@)],
           UNCHANGED <<given, by, ingress>>
    PROVE  /\ OutInv' /\ out' = [out EXCEPT ![k] = out'[k]] /\ Ids(out[k]) # <<>>
           /\ Ids(out'[k]) = Tail(Ids(out[k])) /\ Head(Ids(out[k])) = Head(out[k]).id
           /\ Head(out[k]) \in KindOf(k)
<1> DEFINE F == VideoFrames \cup AudioFrames
<1>1. F' = F /\ VideoFrames' = VideoFrames /\ AudioFrames' = AudioFrames
  BY DEF VideoFrames, AudioFrames, Video, Audio, Frames
<1>2. /\ out \in [Sockets -> Seq(F)] /\ out["video"] \in Seq(VideoFrames)
      /\ out["audio"] \in Seq(AudioFrames) /\ \A j \in Sockets : Len(out[j]) <= QueueDepth
      /\ HandsInv
  BY DEF OutInv, HandsInv
<1>3. \A x \in F : x.id \in Nat
  BY NumberFacts
<1>4. OutInv' <=> /\ out' \in [Sockets -> Seq(F)] /\ out'["video"] \in Seq(VideoFrames)
                  /\ out'["audio"] \in Seq(AudioFrames) /\ \A j \in Sockets : Len(out'[j]) <= QueueDepth
  BY <1>1, <1>2 DEF OutInv, HandsInv
<1>5. out[k] \in Seq(KindOf(k)) /\ KindOf(k) \subseteq F
  BY <1>2 DEF KindOf, Sockets
<1> HIDE DEF F
<1>6. /\ out'[k] = Tail(out[k]) /\ out' = [out EXCEPT ![k] = out'[k]]
      /\ \A j \in Sockets \ {k} : out'[j] = out[j]
  BY <1>2
<1>7. out[k] \in Seq(F)
  BY <1>2
<1>8. /\ Tail(out[k]) \in Seq(F) /\ Ids(Tail(out[k])) = Tail(Ids(out[k]))
      /\ Head(Ids(out[k])) = Head(out[k]).id /\ Ids(out[k]) # <<>>
  BY <1>3, <1>7, IdsFacts
<1>9. Tail(out[k]) \in Seq(KindOf(k)) /\ Head(out[k]) \in KindOf(k)
      /\ Len(Tail(out[k])) = Len(out[k]) - 1 /\ Len(out[k]) \in Nat
  BY <1>5, HeadTailProperties
<1>10. out' \in [Sockets -> Seq(F)]
  BY <1>2, <1>8
<1>11. out'["video"] \in Seq(VideoFrames) /\ out'["audio"] \in Seq(AudioFrames)
  BY <1>2, <1>6, <1>9 DEF KindOf, Sockets
<1>12. \A j \in Sockets : Len(out'[j]) <= QueueDepth
  <2>1. Len(Tail(out[k])) <= QueueDepth
    <3>1. Len(out[k]) <= QueueDepth
      BY <1>2
    <3> QED  BY <1>9, <3>1, MediaPathAssumption
  <2> QED  BY <1>2, <1>6, <2>1
<1> QED  BY <1>4, <1>6, <1>8, <1>9, <1>10, <1>11, <1>12

\* A frame more behind a counter.
LEMMA LossMore ==
    ASSUME LossInv, NEW c \in Counters, NEW S \in SUBSET Frames,
           drops' = [drops EXCEPT ![c] = @ \cup S], UNCHANGED <<given, by, failed>>
    PROVE  LossInv'
<1>1. Frames' = Frames
  BY DEF Frames
<1> QED  BY <1>1 DEF LossInv

LEMMA WriteStep ==
    ASSUME TypeInv, NEW k \in Sockets, Write(k) \/ WriteTimesOut(k)
    PROVE  TypeInv' /\ Grows /\ Written(k)
<1> DEFINE x == Head(out[k])
<1>1. /\ out[k] # <<>> /\ out' = [out EXCEPT ![k] = Tail(@)]
      /\ \/ /\ \E w \in Variants(x) : stream' = [stream EXCEPT ![k] = Append(@, w)]
            /\ drops' = drops
         \/ /\ \E c \in {"link", "late", "torn"} : drops' = [drops EXCEPT ![c] = @ \cup {x.id}]
            /\ stream' = stream
      /\ workload' = workload \/ TimeOut
      /\ UNCHANGED <<given, by, pending, stage, job, pipelined, ingress, rxVars, failed>>
  <2>1. CASE Write(k)
    <3>1. CASE peer[k] = "good"
      BY <2>1, <3>1 DEF Write, callVars, senderVars, encoderVars, audioVars
    <3>2. CASE peer[k] # "good"
      <4>1. PICK c : c = IF peer[k] = "gone" THEN "link" ELSE "torn"
        OBVIOUS
      <4>2. c \in {"link", "late", "torn"} /\ drops' = [drops EXCEPT ![c] = @ \cup {x.id}] /\ stream' = stream
        BY <2>1, <3>2, <4>1 DEF Write
      <4> QED  BY <2>1, <4>2 DEF Write, callVars, senderVars, encoderVars, audioVars
    <3> QED  BY <3>1, <3>2
  <2>2. CASE WriteTimesOut(k)
    <3>1. drops' = [drops EXCEPT !["late"] = @ \cup {x.id}] /\ stream' = stream /\ TimeOut
      BY <2>2 DEF WriteTimesOut
    <3> QED  BY <2>2, <3>1 DEF WriteTimesOut, senderVars, encoderVars, audioVars
  <2> QED  BY <2>1, <2>2
<1>2. Grows /\ CallInv'
  <2>1. CallInv /\ WorkloadType
    BY DEF TypeInv, CallInv
  <2>2. WorkloadType'
    BY <1>1, <2>1, ChangeTaken DEF WorkloadType
  <2>3. UNCHANGED <<given, by>>
    BY <1>1
  <2> QED  BY <2>1, <2>2, <2>3, SameCalls DEF CallInv
<1>3. EncoderInv' /\ RxInv'
  BY <1>1, <1>2, KeepEncoder, KeepRx DEF TypeInv
<1>4. /\ OutInv' /\ out' = [out EXCEPT ![k] = out'[k]] /\ Ids(out[k]) # <<>>
      /\ Ids(out'[k]) = Tail(Ids(out[k])) /\ Head(Ids(out[k])) = x.id /\ x \in KindOf(k)
  BY <1>1, OutTail DEF TypeInv
<1> HIDE DEF x
<1>5. CASE (\E w \in Variants(x) : stream' = [stream EXCEPT ![k] = Append(@, w)]) /\ drops' = drops
  <2>1. PICK w \in Variants(x) : stream' = [stream EXCEPT ![k] = Append(@, w)]
    BY <1>5
  <2>2. w \in WireOf(k) /\ w.id = x.id
    BY <1>4, VariantFacts DEF TypeInv
  <2>3. /\ StreamInv' /\ stream' = [stream EXCEPT ![k] = stream'[k]]
        /\ Ids(stream'[k]) = Append(Ids(stream[k]), x.id)
    <3>1. UNCHANGED <<given, by>> /\ CallInv /\ StreamInv
      BY <1>1 DEF TypeInv
    <3> QED  BY <2>1, <2>2, <3>1, StreamAppend
  <2>4. LossInv' /\ drops' = drops
    BY <1>1, <1>2, <1>5, KeepLoss DEF TypeInv, lossVars
  <2>5. Written(k)
    BY <1>1, <1>4, <2>3, <2>4 DEF Written
  <2> QED  BY <1>2, <1>3, <1>4, <2>3, <2>4, <2>5 DEF TypeInv
<1>6. CASE /\ \E c \in {"link", "late", "torn"} : drops' = [drops EXCEPT ![c] = @ \cup {x.id}]
           /\ stream' = stream
  <2>1. PICK c \in {"link", "late", "torn"} : drops' = [drops EXCEPT ![c] = @ \cup {x.id}]
    BY <1>6
  <2>2. {x.id} \in SUBSET Frames /\ c \in Counters
    BY <1>4, KnownFrames DEF KindOf, TypeInv, Counters
  <2>3. LossInv'
    BY <1>1, <2>1, <2>2, LossMore DEF TypeInv
  <2>4. StreamInv'
    BY <1>2, <1>6, KeepStream DEF TypeInv
  <2>5. Written(k)
    BY <1>1, <1>4, <1>6, <2>1 DEF Written
  <2> QED  BY <1>2, <1>3, <1>4, <2>3, <2>4, <2>5 DEF TypeInv
<1> QED  BY <1>1, <1>5, <1>6

LEMMA LeaveStep ==
    ASSUME TypeInv, NEW k \in Sockets, Leave(k)
    PROVE  TypeInv' /\ Grows /\ Gone(k)
<1>1. /\ workload.changes > 0 /\ workload' = [workload EXCEPT !.changes = workload.changes - 1]
      /\ stream' = [stream EXCEPT ![k] = <<>>]
      /\ drops' = [drops EXCEPT !["link"] = @ \cup IdSet(stream[k])]
      /\ UNCHANGED <<given, by, pending, stage, job, pipelined, ingress, out, rxVars, failed>>
  BY DEF Leave, IdSet, senderVars, encoderVars, audioVars
<1>2. workload' \in [frames : SUBSET Calls, calls : Nat, changes : Nat, preview : BOOLEAN]
  <2>1. workload \in [frames : SUBSET Calls, calls : Nat, changes : Nat, preview : BOOLEAN]
    BY DEF TypeInv, CallInv, WorkloadType
  <2> QED  BY <1>1, <2>1
<1>3. Grows /\ CallInv'
  BY <1>1, <1>2, SameCalls DEF TypeInv, CallInv, WorkloadType
<1>4. EncoderInv' /\ RxInv' /\ OutInv'
  BY <1>1, <1>3, KeepEncoder, KeepRx, KeepOut DEF TypeInv
<1>5. StreamInv'
  <2>1. \A T : stream[k] \in Seq(T) => <<>> \in Seq(T)
    OBVIOUS
  <2> QED  BY <1>1, <2>1, StreamLess DEF TypeInv
<1>6. IdSet(stream[k]) \subseteq Frames
  <2>1. stream[k] \in Seq(VideoWire \cup AudioWire \cup TextWire)
    BY DEF TypeInv, StreamInv
  <2>2. \A i \in DOMAIN stream[k] : stream[k][i] \in VideoWire \cup AudioWire \cup TextWire
    BY <2>1, ElementOfSeq, LenProperties
  <2> QED  BY <2>2, KnownWires DEF IdSet, TypeInv
<1>7. LossInv'
  BY <1>1, <1>6, LossMore DEF TypeInv, Counters
<1>8. Gone(k)
  BY <1>1 DEF Gone
<1> QED  BY <1>3, <1>4, <1>5, <1>7, <1>8 DEF TypeInv

VideoRead ==
    LET f == Head(Ids(stream["video"]))
    IN  /\ Ids(stream["video"]) # <<>>
        /\ stream' = [stream EXCEPT !["video"] = stream'["video"]]
        /\ Ids(stream'["video"]) = Tail(Ids(stream["video"]))
        /\ \/ f \in Video /\ Ids(seen') = Append(Ids(seen), f) /\ UNCHANGED <<metaQ, drops>>
           \/ f \in Video /\ drops' = [drops EXCEPT !["wire"] = @ \cup {f}] /\ UNCHANGED <<seen, metaQ>>
           \/ f \in Texts /\ Ids(metaQ') = Append(Ids(metaQ), f) /\ UNCHANGED <<seen, drops>>
           \/ f \in Texts /\ drops' = [drops EXCEPT !["quiet"] = @ \cup {f}] /\ UNCHANGED <<seen, metaQ>>
        /\ UNCHANGED <<given, by, pending, stage, pipelined, ingress, out, audioQ, heard, read, failed>>

AudioRead ==
    LET f == Head(Ids(stream["audio"]))
    IN  /\ Ids(stream["audio"]) # <<>>
        /\ stream' = [stream EXCEPT !["audio"] = stream'["audio"]]
        /\ Ids(stream'["audio"]) = Tail(Ids(stream["audio"])) /\ f \in Audio \cup Texts
        /\ \/ f \in Audio /\ Ids(audioQ') = Append(Ids(audioQ), f) /\ drops' = drops
           \/ drops' = [drops EXCEPT !["audio"] = @ \cup {f}] /\ audioQ' = audioQ
        /\ UNCHANGED <<given, by, pending, stage, pipelined, ingress, out, seen, metaQ, heard, read,
                       failed>>

Heard ==
    /\ Ids(audioQ) # <<>> /\ Ids(audioQ') = Tail(Ids(audioQ))
    /\ Ids(heard') = Append(Ids(heard), Head(Ids(audioQ)))
    /\ UNCHANGED <<given, by, pending, stage, pipelined, ingress, out, stream, seen, metaQ, read,
                   drops, failed>>

MetaRead ==
    /\ Ids(metaQ) # <<>> /\ Ids(metaQ') = Tail(Ids(metaQ))
    /\ Ids(read') = Append(Ids(read), Head(Ids(metaQ)))
    /\ UNCHANGED <<given, by, pending, stage, pipelined, ingress, out, stream, seen, audioQ, heard,
                   drops, failed>>

\* The reader takes the first frame of its socket.
LEMMA StreamTail ==
    ASSUME CallInv, StreamInv, NEW k \in Sockets, stream[k] # <<>>,
           stream' = [stream EXCEPT ![k] = Tail(@)], UNCHANGED <<given, by>>
    PROVE  /\ StreamInv' /\ stream' = [stream EXCEPT ![k] = stream'[k]] /\ Ids(stream[k]) # <<>>
           /\ Ids(stream'[k]) = Tail(Ids(stream[k])) /\ Head(Ids(stream[k])) = Head(stream[k]).id
           /\ Head(stream[k]) \in WireOf(k) \cup TextWire
<1> DEFINE s == stream[k]
           W == VideoWire \cup AudioWire \cup TextWire
<1>1. stream[k] \in Seq(W) /\ stream[k] \in Seq(WireOf(k) \cup TextWire) /\ \A x \in W : x.id \in Nat
  BY NumberFacts DEF StreamInv, WireOf, Sockets
<1>2. \A T : s \in Seq(T) => Tail(s) \in Seq(T)
  <2>1. s # <<>>
    OBVIOUS
  <2> HIDE DEF s
  <2> QED  BY <2>1, HeadTailProperties
<1>3. StreamInv' /\ stream'[k] = Tail(s) /\ stream' = [stream EXCEPT ![k] = stream'[k]]
  BY <1>2, StreamLess
<1> HIDE DEF W
<1>4. /\ Ids(Tail(s)) = Tail(Ids(s)) /\ Head(Ids(s)) = Head(s).id /\ Ids(s) # <<>>
  BY <1>1, IdsFacts
<1>5. Head(stream[k]) \in WireOf(k) \cup TextWire
  BY <1>1, HeadTailProperties
<1> QED  BY <1>3, <1>4, <1>5

LEMMA ReadVideoStep ==
    ASSUME TypeInv, ReadVideoSocket
    PROVE  TypeInv' /\ Grows /\ VideoRead
<1> DEFINE w == Head(stream["video"])
<1>1. /\ stream["video"] # <<>> /\ stream' = [stream EXCEPT !["video"] = Tail(@)]
      /\ \/ w.kind = "video" /\ DispatchVideo(w) /\ metaQ' = metaQ
         \/ w.kind = "metadata" /\ DispatchMetadata(w) /\ seen' = seen
      /\ UNCHANGED <<workload, given, by, pending, stage, job, pipelined, ingress, out, audioQ, heard,
                     read, failed>>
  BY DEF ReadVideoSocket, callVars, senderVars, encoderVars, audioVars
<1>2. Grows /\ CallInv' /\ CallInv
  BY <1>1, SameCalls DEF TypeInv, CallInv, WorkloadType
<1>3. EncoderInv' /\ OutInv'
  BY <1>1, <1>2, KeepEncoder, KeepOut DEF TypeInv
<1>4. /\ StreamInv' /\ stream' = [stream EXCEPT !["video"] = stream'["video"]]
      /\ Ids(stream["video"]) # <<>> /\ Ids(stream'["video"]) = Tail(Ids(stream["video"]))
      /\ Head(Ids(stream["video"])) = w.id /\ w \in VideoWire \cup TextWire
  <2>1. "video" \in Sockets /\ WireOf("video") = VideoWire
    BY DEF Sockets, WireOf
  <2> QED  BY <1>1, <1>2, <2>1, StreamTail DEF TypeInv
<1>5. Shown' = Shown /\ Sounds' = Sounds /\ Readings' = Readings
  BY <1>1 DEF Shown, Sounds, Readings, AudioWire, Video, Audio, Texts, Frames
<1>6. /\ seen \in Seq(Shown) /\ heard \in Seq(Sounds) /\ read \in Seq(Readings)
      /\ audioQ \in Seq(Sounds) /\ Len(audioQ) <= AudioQ
      /\ metaQ \in Seq(Readings) /\ Len(metaQ) <= MetadataQ
  BY DEF TypeInv, RxInv
<1>7. RxInv' <=> seen' \in Seq(Shown) /\ metaQ' \in Seq(Readings) /\ Len(metaQ') <= MetadataQ
  BY <1>1, <1>5, <1>6 DEF RxInv
<1>8. (\A v \in Shown : v.id \in Nat) /\ (\A r \in Readings : r.id \in Nat)
      /\ (\A x \in VideoWire \cup TextWire : x.id \in Frames)
  BY <1>2, NumberFacts, KnownWires
<1> HIDE DEF w
<1>9. {w.id} \in SUBSET Frames /\ "wire" \in Counters /\ "quiet" \in Counters
  BY <1>4, <1>8 DEF Counters
<1>10. CASE w.kind = "video" /\ DispatchVideo(w) /\ metaQ' = metaQ
  <2>1. w \in VideoWire /\ w.id \in Video /\ w \in Sent(w.id, given[w.id])
    BY <1>2, <1>4, <1>10, VideoWireElement, TextWireElement
  <2>2. CASE Count("wire", w) /\ UNCHANGED seen
    <3>1. drops' = [drops EXCEPT !["wire"] = @ \cup {w.id}]
      BY <2>2 DEF Count
    <3>2. LossInv'
      BY <1>1, <1>9, <3>1, LossMore DEF TypeInv
    <3>3. RxInv'
      BY <1>6, <1>7, <1>10, <2>2
    <3>4. VideoRead
      BY <1>1, <1>4, <1>10, <2>1, <2>2, <3>1 DEF VideoRead
    <3> QED  BY <1>2, <1>3, <1>4, <3>2, <3>3, <3>4 DEF TypeInv
  <2>3. CASE ~(Count("wire", w) /\ UNCHANGED seen)
    <3>1. drops' = drops /\ \E m \in XmlOf(w) :
             seen' = Append(seen, [id |-> w.id, preview |-> w.ext.preview, payload |-> Payload(w),
                                   metadata |-> m])
      BY <1>10, <2>3 DEF DispatchVideo
    <3>2. XmlOf(w) = Legible(w, Xml(w.id, given[w.id]))
      BY DEF XmlOf, Legible
    <3>3. PICK m \in Legible(w, Xml(w.id, given[w.id])) :
             seen' = Append(seen, [id |-> w.id, preview |-> w.ext.preview, payload |-> Payload(w),
                                   metadata |-> m])
      BY <3>1, <3>2
    <3> DEFINE v == [id |-> w.id, preview |-> w.ext.preview, payload |-> Payload(w), metadata |-> m]
    <3>4. v \in Views(w.id, given[w.id])
      BY <2>1, <3>3 DEF Views
    <3>5. v \in Shown /\ v.id = w.id
      BY <2>1, <3>4 DEF Shown
    <3> HIDE DEF v
    <3>6. seen' = Append(seen, v)
      BY <3>3 DEF v
    <3>7. seen' \in Seq(Shown) /\ Ids(seen') = Append(Ids(seen), w.id)
      BY <1>6, <1>8, <3>5, <3>6, IdsAppend
    <3>8. RxInv'
      BY <1>6, <1>7, <1>10, <3>7
    <3>9. LossInv'
      BY <1>1, <1>2, <3>1, KeepLoss DEF TypeInv, lossVars
    <3>10. VideoRead
      BY <1>1, <1>4, <1>10, <2>1, <3>1, <3>7 DEF VideoRead
    <3> QED  BY <1>2, <1>3, <1>4, <3>8, <3>9, <3>10 DEF TypeInv
  <2> QED  BY <2>2, <2>3
<1>11. CASE w.kind = "metadata" /\ DispatchMetadata(w) /\ seen' = seen
  <2> DEFINE r == [id |-> w.id, xml |-> Payload(w)]
  <2>1. w.id \in Texts /\ r \in Readings
    BY <1>2, <1>4, <1>11, VideoWireElement, TextWireElement
  <2>2. CASE Len(metaQ) < MetadataQ
    <3>1. metaQ' = Append(metaQ, r) /\ drops' = drops
      BY <1>11, <2>2 DEF DispatchMetadata
    <3>2. r.id = w.id
      OBVIOUS
    <3> HIDE DEF r
    <3>3. metaQ' \in Seq(Readings) /\ Ids(metaQ') = Append(Ids(metaQ), w.id)
      BY <1>6, <1>8, <2>1, <3>1, <3>2, IdsAppend
    <3>4. Len(metaQ') = Len(metaQ) + 1 /\ Len(metaQ) \in Nat
      BY <1>6, <2>1, <3>1, AppendProperties
    <3>5. Len(metaQ') <= MetadataQ
      BY <2>2, <3>4, MediaPathAssumption
    <3>6. RxInv'
      BY <1>6, <1>7, <1>11, <3>3, <3>5
    <3>7. LossInv'
      BY <1>1, <1>2, <3>1, KeepLoss DEF TypeInv, lossVars
    <3>8. VideoRead
      BY <1>1, <1>4, <1>11, <2>1, <3>1, <3>3 DEF VideoRead
    <3> QED  BY <1>2, <1>3, <1>4, <3>6, <3>7, <3>8 DEF TypeInv
  <2>3. CASE ~(Len(metaQ) < MetadataQ)
    <3>1. drops' = [drops EXCEPT !["quiet"] = @ \cup {w.id}] /\ metaQ' = metaQ
      BY <1>11, <2>3 DEF DispatchMetadata, Count
    <3>2. LossInv'
      BY <1>1, <1>9, <3>1, LossMore DEF TypeInv
    <3>3. RxInv'
      BY <1>6, <1>7, <1>11, <3>1
    <3>4. VideoRead
      BY <1>1, <1>4, <1>11, <2>1, <3>1 DEF VideoRead
    <3> QED  BY <1>2, <1>3, <1>4, <3>2, <3>3, <3>4 DEF TypeInv
  <2> QED  BY <2>2, <2>3
<1> QED  BY <1>1, <1>10, <1>11

LEMMA ReadAudioStep ==
    ASSUME TypeInv, ReadAudioSocket
    PROVE  TypeInv' /\ Grows /\ AudioRead
<1> DEFINE w == Head(stream["audio"])
<1>1. /\ stream["audio"] # <<>> /\ stream' = [stream EXCEPT !["audio"] = Tail(@)]
      /\ IF Acceptable(w) THEN audioQ' = Append(audioQ, Decoded(w)) /\ drops' = drops
                          ELSE Count("audio", w) /\ audioQ' = audioQ
      /\ UNCHANGED <<workload, given, by, pending, stage, job, pipelined, ingress, out, seen, metaQ,
                     heard, read, failed>>
  BY DEF ReadAudioSocket, callVars, senderVars, encoderVars, audioVars
<1>2. Grows /\ CallInv' /\ CallInv
  BY <1>1, SameCalls DEF TypeInv, CallInv, WorkloadType
<1>3. EncoderInv' /\ OutInv'
  BY <1>1, <1>2, KeepEncoder, KeepOut DEF TypeInv
<1>4. /\ StreamInv' /\ stream' = [stream EXCEPT !["audio"] = stream'["audio"]]
      /\ Ids(stream["audio"]) # <<>> /\ Ids(stream'["audio"]) = Tail(Ids(stream["audio"]))
      /\ Head(Ids(stream["audio"])) = w.id /\ w \in AudioWire \cup TextWire
  <2>1. "audio" \in Sockets /\ WireOf("audio") = AudioWire
    BY DEF Sockets, WireOf
  <2> QED  BY <1>1, <1>2, <2>1, StreamTail DEF TypeInv
<1>5. Shown' = Shown /\ Sounds' = Sounds /\ Readings' = Readings
  BY <1>1 DEF Shown, Sounds, Readings, AudioWire, Video, Audio, Texts, Frames
<1>6. /\ seen \in Seq(Shown) /\ heard \in Seq(Sounds) /\ read \in Seq(Readings)
      /\ audioQ \in Seq(Sounds) /\ Len(audioQ) <= AudioQ
      /\ metaQ \in Seq(Readings) /\ Len(metaQ) <= MetadataQ
  BY DEF TypeInv, RxInv
<1>7. RxInv' <=> audioQ' \in Seq(Sounds) /\ Len(audioQ') <= AudioQ
  BY <1>1, <1>5, <1>6 DEF RxInv
<1>8. (\A d \in Sounds : d.id \in Nat) /\ (\A x \in AudioWire \cup TextWire : x.id \in Frames)
  BY <1>2, NumberFacts, KnownWires
<1> HIDE DEF w
<1>9. {w.id} \in SUBSET Frames /\ "audio" \in Counters
  BY <1>4, <1>8 DEF Counters
<1>10. w.id \in Audio \cup Texts /\ (w.kind = "audio" => w \in AudioWire /\ w.id \in Audio)
  BY <1>2, <1>4, AudioWireElement, TextWireElement
<1>11. CASE Acceptable(w)
  <2>1. /\ w \in AudioWire /\ w.id \in Audio /\ Len(audioQ) < AudioQ
        /\ Decodable(Payload(w), w.ext.channels, w.ext.active)
    BY <1>10, <1>11 DEF Acceptable
  <2>2. Decoded(w) \in Sounds /\ Decoded(w).id = w.id
    BY <2>1 DEF Sounds, Decoded
  <2>3. audioQ' = Append(audioQ, Decoded(w)) /\ drops' = drops
    BY <1>1, <1>11
  <2>4. audioQ' \in Seq(Sounds) /\ Ids(audioQ') = Append(Ids(audioQ), w.id)
    BY <1>6, <1>8, <2>2, <2>3, IdsAppend
  <2>5. Len(audioQ') = Len(audioQ) + 1 /\ Len(audioQ) \in Nat
    BY <1>6, <2>2, <2>3, AppendProperties
  <2>6. Len(audioQ') <= AudioQ
    BY <2>1, <2>5, MediaPathAssumption
  <2>7. RxInv'
    BY <1>7, <2>4, <2>6
  <2>8. LossInv'
    BY <1>1, <1>2, <2>3, KeepLoss DEF TypeInv, lossVars
  <2>9. AudioRead
    BY <1>1, <1>4, <1>10, <2>1, <2>3, <2>4 DEF AudioRead
  <2> QED  BY <1>2, <1>3, <1>4, <2>7, <2>8, <2>9 DEF TypeInv
<1>12. CASE ~Acceptable(w)
  <2>1. drops' = [drops EXCEPT !["audio"] = @ \cup {w.id}] /\ audioQ' = audioQ
    BY <1>1, <1>12 DEF Count
  <2>2. LossInv'
    BY <1>1, <1>9, <2>1, LossMore DEF TypeInv
  <2>3. RxInv'
    BY <1>6, <1>7, <2>1
  <2>4. AudioRead
    BY <1>1, <1>4, <1>10, <2>1 DEF AudioRead
  <2> QED  BY <1>2, <1>3, <1>4, <2>2, <2>3, <2>4 DEF TypeInv
<1> QED  BY <1>11, <1>12

\* A frame goes from a channel to the application.
LEMMA Delivered ==
    ASSUME NEW S, \A e \in S : e.id \in Nat, NEW q \in Seq(S), NEW h \in Seq(S), q # <<>>,
           NEW cap \in Nat, Len(q) <= cap
    PROVE  /\ Tail(q) \in Seq(S) /\ Len(Tail(q)) <= cap /\ Ids(Tail(q)) = Tail(Ids(q))
           /\ Append(h, Head(q)) \in Seq(S) /\ Ids(q) # <<>>
           /\ Ids(Append(h, Head(q))) = Append(Ids(h), Head(Ids(q)))
<1>1. /\ Head(q) \in S /\ Tail(q) \in Seq(S) /\ Ids(q) # <<>>
      /\ Ids(Tail(q)) = Tail(Ids(q)) /\ Head(Ids(q)) = Head(q).id
  BY IdsFacts
<1>2. Append(h, Head(q)) \in Seq(S) /\ Ids(Append(h, Head(q))) = Append(Ids(h), Head(q).id)
  BY <1>1, IdsAppend
<1>3. Len(Tail(q)) = Len(q) - 1 /\ Len(q) \in Nat
  BY HeadTailProperties
<1>4. Len(Tail(q)) <= cap
  BY <1>3
<1> QED  BY <1>1, <1>2, <1>4

LEMMA TryRecvAudioStep ==
    ASSUME TypeInv, TryRecvAudio
    PROVE  TypeInv' /\ Grows /\ Heard
<1>1. /\ audioQ # <<>> /\ audioQ' = Tail(audioQ) /\ heard' = Append(heard, Head(audioQ))
      /\ UNCHANGED <<workload, given, by, pending, stage, job, pipelined, ingress, out, stream, seen,
                     metaQ, read, drops, failed>>
  BY DEF TryRecvAudio, callVars, senderVars, encoderVars, audioVars, linkVars, lossVars
<1>2. Grows /\ CallInv' /\ CallInv
  BY <1>1, SameCalls DEF TypeInv, CallInv, WorkloadType
<1>3. EncoderInv' /\ OutInv' /\ StreamInv' /\ LossInv'
  BY <1>1, <1>2, KeepEncoder, KeepOut, KeepStream, KeepLoss DEF TypeInv, lossVars
<1>4. Shown' = Shown /\ Sounds' = Sounds /\ Readings' = Readings
  BY <1>1 DEF Shown, Sounds, Readings, AudioWire, Video, Audio, Texts, Frames
<1>5. heard \in Seq(Sounds) /\ audioQ \in Seq(Sounds) /\ Len(audioQ) <= AudioQ
      /\ (\A d \in Sounds : d.id \in Nat) /\ AudioQ \in Nat
  BY <1>2, NumberFacts, MediaPathAssumption DEF TypeInv, RxInv
<1>6. /\ audioQ' \in Seq(Sounds) /\ Len(audioQ') <= AudioQ /\ Ids(audioQ') = Tail(Ids(audioQ))
      /\ heard' \in Seq(Sounds) /\ Ids(audioQ) # <<>>
      /\ Ids(heard') = Append(Ids(heard), Head(Ids(audioQ)))
  BY <1>1, <1>5, Delivered
<1>7. RxInv'
  BY <1>1, <1>4, <1>6 DEF TypeInv, RxInv
<1>8. Heard
  BY <1>1, <1>6 DEF Heard
<1> QED  BY <1>2, <1>3, <1>7, <1>8 DEF TypeInv

LEMMA TryRecvMetadataStep ==
    ASSUME TypeInv, TryRecvMetadata
    PROVE  TypeInv' /\ Grows /\ MetaRead
<1>1. /\ metaQ # <<>> /\ metaQ' = Tail(metaQ) /\ read' = Append(read, Head(metaQ))
      /\ UNCHANGED <<workload, given, by, pending, stage, job, pipelined, ingress, out, stream, seen,
                     audioQ, heard, drops, failed>>
  BY DEF TryRecvMetadata, callVars, senderVars, encoderVars, audioVars, linkVars, lossVars
<1>2. Grows /\ CallInv' /\ CallInv
  BY <1>1, SameCalls DEF TypeInv, CallInv, WorkloadType
<1>3. EncoderInv' /\ OutInv' /\ StreamInv' /\ LossInv'
  BY <1>1, <1>2, KeepEncoder, KeepOut, KeepStream, KeepLoss DEF TypeInv, lossVars
<1>4. Shown' = Shown /\ Sounds' = Sounds /\ Readings' = Readings
  BY <1>1 DEF Shown, Sounds, Readings, AudioWire, Video, Audio, Texts, Frames
<1>5. read \in Seq(Readings) /\ metaQ \in Seq(Readings) /\ Len(metaQ) <= MetadataQ
      /\ (\A r \in Readings : r.id \in Nat) /\ MetadataQ \in Nat
  BY <1>2, NumberFacts, MediaPathAssumption DEF TypeInv, RxInv
<1>6. /\ metaQ' \in Seq(Readings) /\ Len(metaQ') <= MetadataQ /\ Ids(metaQ') = Tail(Ids(metaQ))
      /\ read' \in Seq(Readings) /\ Ids(metaQ) # <<>>
      /\ Ids(read') = Append(Ids(read), Head(Ids(metaQ)))
  BY <1>1, <1>5, Delivered
<1>7. RxInv'
  BY <1>1, <1>4, <1>6 DEF TypeInv, RxInv
<1>8. MetaRead
  BY <1>1, <1>6 DEF MetaRead
<1> QED  BY <1>2, <1>3, <1>7, <1>8 DEF TypeInv

\* Every step is one of these.
Effect ==
    \/ VideoCalled \/ TextureCalled \/ Submitted \/ Flushed \/ Texted
    \/ (\E t \in Threads : Stamped(t) \/ \E f \in Audio : AudioQueued(t, f))
    \/ (\E k \in Sockets : Written(k) \/ Gone(k))
    \/ VideoRead \/ AudioRead \/ Heard \/ MetaRead \/ Idle

LEMMA StepEffect ==
    ASSUME TypeInv, [Next]_vars
    PROVE  TypeInv' /\ Grows /\ Effect
<1>1. CASE Sending
  <2>1. ASSUME NEW a \in workload.frames, SendVideo(a) \/ SendTextureNow(a)
        PROVE  TypeInv' /\ Grows /\ VideoCalled
    BY <2>1, SendVideoStep
  <2>2. ASSUME NEW a \in workload.frames, SendTexture(a)
        PROVE  TypeInv' /\ Grows /\ TextureCalled
    BY <2>2, SendTextureStep
  <2>3. ASSUME NEW a \in workload.frames, SendMetadata(a)
        PROVE  TypeInv' /\ Grows /\ Texted
    BY <2>3, SendMetadataStep
  <2>4. SubmitTexture => TypeInv' /\ Grows /\ Submitted
    BY SubmitStep
  <2>5. Flush => TypeInv' /\ Grows /\ Flushed
    BY FlushStep
  <2>6. ASSUME NEW t \in Threads, AudioQueue(t)
        PROVE  TypeInv' /\ Grows /\ \E f \in Audio : AudioQueued(t, f)
    <3>1. TypeInv' /\ Grows /\ AudioQueued(t, Head(ingress[t]).id)
      BY <2>6, AudioQueueStep
    <3>2. Head(ingress[t]).id \in Audio
      BY <3>1 DEF AudioQueued
    <3> QED  BY <3>1, <3>2
  <2>7. ASSUME NEW t \in Threads, NEW a \in workload.frames, AudioStamp(t, a)
        PROVE  TypeInv' /\ Grows /\ Stamped(t)
    BY <2>7, AudioStampStep
  <2>8. Poll \/ (\E on \in BOOLEAN : SetPipeline(on)) => TypeInv' /\ Grows /\ Idle
    BY IdleStep
  <2> QED  BY <1>1, <2>1, <2>2, <2>3, <2>4, <2>5, <2>6, <2>7, <2>8 DEF Sending, Effect
<1>2. CASE Carrying
  <2>1. ASSUME NEW k \in Sockets, Write(k) \/ WriteTimesOut(k) PROVE TypeInv' /\ Grows /\ Written(k)
    BY <2>1, WriteStep
  <2>2. ASSUME NEW k \in Sockets, Leave(k) PROVE TypeInv' /\ Grows /\ Gone(k)
    BY <2>2, LeaveStep
  <2>3. (\E k \in Sockets : Return(k)) => TypeInv' /\ Grows /\ Idle
    BY IdleStep
  <2> QED  BY <1>2, <2>1, <2>2, <2>3 DEF Carrying, Effect
<1>3. CASE Receiving
  BY <1>3, ReadVideoStep, ReadAudioStep, TryRecvAudioStep, TryRecvMetadataStep DEF Receiving, Effect
<1>4. CASE UNCHANGED vars
  BY <1>4, IdleStep DEF Effect
<1> QED  BY <1>1, <1>2, <1>3, <1>4 DEF Next

-----------------------------------------------------------------------------
(* The order of frames.  Queues, sockets and channels stand in lines, the one that is nearer *)
(* to the application first.                                                                *)

VideoLine == <<Ids(seen), Ids(stream["video"]), Ids(out["video"])>>
TextLine  == <<Ids(read), Ids(metaQ), Ids(stream["video"])>>
AudioLine == <<Ids(heard), Ids(audioQ), Ids(stream["audio"]), Ids(out["audio"])>>

\* Which frame may be ahead of which.
VideoOrder(x, y) ==
    /\ x # y
    /\ x \in Media /\ y \in Media /\ x > y => y \in pipelined /\ x \notin pipelined
    /\ x \in Texts /\ y \in Texts => x < y
VideoRel == {p \in Nat \X Nat : VideoOrder(p[1], p[2])}
AudioOrder(x, y) == x # y /\ (x \in Media /\ y \in Media /\ by[x] = by[y] => x < y)
AudioRel == {p \in Nat \X Nat : AudioOrder(p[1], p[2])}

InLine(c, n, rel) ==
    /\ \A i \in 1..n : Sorted(c[i], rel)
    /\ \A i, j \in 1..n : i < j => Ahead(c[i], c[j], rel)

OrderInv ==
    /\ InLine(VideoLine, 3, VideoRel) /\ InLine(TextLine, 3, VideoRel)
    /\ InLine(AudioLine, 4, AudioRel)

\* A frame in the hands of a thread is that thread's, and none of its later frames is ahead
\* of it.
AudioOn == IdSet(heard) \cup IdSet(audioQ) \cup IdSet(stream["audio"]) \cup IdSet(out["audio"])
ThreadInv ==
    \A t \in Threads : \A f \in IdSet(ingress[t]) :
        /\ f \in Media /\ by[f] = t
        /\ \A y \in AudioOn : y \in Media /\ by[y] = t => y < f

\* Every frame is in one place.
FateInv == \A f \in Media : \E p \in Places : \A q \in Places : f \in Held(q) <=> q = p

KindInv ==
    /\ drops["sender"] \cup drops["wire"] \subseteq Video
    /\ \A f \in drops["audio"] \cup drops["quiet"] : given[f].kind \in {"audio", "metadata"}

IInv == TypeInv /\ OrderInv /\ ThreadInv /\ FateInv /\ KindInv

\* A frame joins a queue of a line.
LEMMA LineJoin ==
    ASSUME NEW n \in Nat, NEW c, NEW d, NEW rel, InLine(c, n, rel),
           \A j \in 1..n : c[j] \in Seq(Nat),
           NEW i \in 1..n, NEW f \in Nat,
           d[i] = Append(c[i], f), \A j \in 1..n : j # i => d[j] = c[j],
           \A j \in 1..n : j <= i => \A x \in Members(c[j]) : <<x, f>> \in rel,
           \A j \in 1..n : j > i => \A y \in Members(c[j]) : <<f, y>> \in rel
    PROVE  InLine(d, n, rel)
<1>1. Members(d[i]) = Members(c[i]) \cup {f} /\ \A j \in 1..n : j # i => Members(d[j]) = Members(c[j])
  BY MembersFacts
<1>2. Sorted(d[i], rel)
  <2>1. \A y \in Members(c[i]) : <<y, f>> \in rel
    OBVIOUS
  <2>2. Sorted(c[i], rel)
    BY DEF InLine
  <2> QED  BY <2>1, <2>2, AppendSorted
<1>3. \A j \in 1..n : Sorted(d[j], rel)
  BY <1>2 DEF InLine
<1>4. ASSUME NEW j \in 1..n, NEW k \in 1..n, j < k PROVE Ahead(d[j], d[k], rel)
  <2>1. \A x \in Members(c[j]), y \in Members(c[k]) : <<x, y>> \in rel
    BY <1>4, AheadMembers DEF InLine
  <2>2. CASE j = i
    <3>1. k # i /\ k > i
      BY <1>4, <2>2
    <3>2. \A x \in Members(d[j]), y \in Members(d[k]) : <<x, y>> \in rel
      BY <1>1, <2>1, <2>2, <3>1
    <3> QED  BY <3>2, AheadMembers
  <2>3. CASE k = i
    <3>1. j # i /\ j <= i
      BY <1>4, <2>3
    <3>2. \A x \in Members(d[j]), y \in Members(d[k]) : <<x, y>> \in rel
      BY <1>1, <2>1, <2>3, <3>1
    <3> QED  BY <3>2, AheadMembers
  <2>4. CASE j # i /\ k # i
    <3>1. \A x \in Members(d[j]), y \in Members(d[k]) : <<x, y>> \in rel
      BY <1>1, <2>1, <2>4
    <3> QED  BY <3>1, AheadMembers
  <2> QED  BY <2>2, <2>3, <2>4
<1> QED  BY <1>3, <1>4 DEF InLine

\* A queue of a line loses frames.
LEMMA LineLess ==
    ASSUME NEW n \in Nat, NEW c, NEW d, NEW rel, InLine(c, n, rel),
           NEW i \in 1..n, Sorted(d[i], rel), Members(d[i]) \subseteq Members(c[i]),
           \A j \in 1..n : j # i => d[j] = c[j]
    PROVE  InLine(d, n, rel)
<1>1. \A j \in 1..n : Sorted(d[j], rel)
  BY DEF InLine
<1>2. \A j \in 1..n : Members(d[j]) \subseteq Members(c[j])
  OBVIOUS
<1>3. ASSUME NEW j \in 1..n, NEW k \in 1..n, j < k PROVE Ahead(d[j], d[k], rel)
  <2>1. \A x \in Members(c[j]), y \in Members(c[k]) : <<x, y>> \in rel
    BY <1>3, AheadMembers DEF InLine
  <2>2. \A x \in Members(d[j]), y \in Members(d[k]) : <<x, y>> \in rel
    BY <1>2, <2>1
  <2> QED  BY <2>2, AheadMembers
<1> QED  BY <1>1, <1>3 DEF InLine

\* The first frame of a queue is taken, by someone outside the line.
LEMMA LineTail ==
    ASSUME NEW n \in Nat, NEW c, NEW d, NEW rel, InLine(c, n, rel),
           NEW i \in 1..n, c[i] \in Seq(Nat), c[i] # <<>>,
           d[i] = Tail(c[i]), \A j \in 1..n : j # i => d[j] = c[j]
    PROVE  InLine(d, n, rel)
<1>1. Sorted(c[i], rel)
  BY DEF InLine
<1>2. Sorted(d[i], rel)
  BY <1>1, TailSorted
<1>3. Members(d[i]) \subseteq Members(c[i])
  BY MembersFacts
<1> QED  BY <1>2, <1>3, LineLess

\* The first frame of a queue goes to the end of the one ahead of it.
LEMMA LinePass ==
    ASSUME NEW n \in Nat, NEW c, NEW d, NEW rel, InLine(c, n, rel),
           \A j \in 1..n : c[j] \in Seq(Nat),
           NEW i \in 1..n, NEW k \in 1..n, k = i + 1, c[k] # <<>>,
           d[i] = Append(c[i], Head(c[k])), d[k] = Tail(c[k]),
           \A j \in 1..n : j # i /\ j # k => d[j] = c[j]
    PROVE  InLine(d, n, rel)
<1> DEFINE f == Head(c[k])
           e == [j \in 1..n |-> IF j = k THEN Tail(c[k]) ELSE c[j]]
<1>1. /\ f \in Members(c[k]) /\ Tail(c[k]) \in Seq(Nat) /\ f \in Nat
      /\ Members(Tail(c[k])) \subseteq Members(c[k])
  BY MembersFacts
<1>2. i # k /\ i < k
  OBVIOUS
<1>3. e[k] = Tail(c[k]) /\ \A j \in 1..n : j # k => e[j] = c[j]
  OBVIOUS
<1> HIDE DEF e
<1>4. InLine(e, n, rel)
  BY <1>3, LineTail
<1>5. \A j \in 1..n : e[j] \in Seq(Nat)
  BY <1>1, <1>3
<1>6. \A y \in Members(Tail(c[k])) : <<f, y>> \in rel
  BY TailSorted DEF InLine
<1>7. \A j \in 1..n : j <= i => \A x \in Members(e[j]) : <<x, f>> \in rel
  <2> TAKE j \in 1..n
  <2> HAVE j <= i
  <2>1. e[j] = c[j] /\ j < k
    BY <1>2, <1>3
  <2>2. \A x \in Members(c[j]), y \in Members(c[k]) : <<x, y>> \in rel
    BY <2>1, AheadMembers DEF InLine
  <2> QED  BY <1>1, <2>1, <2>2
<1>8. \A j \in 1..n : j > i => \A y \in Members(e[j]) : <<f, y>> \in rel
  <2> TAKE j \in 1..n
  <2> HAVE j > i
  <2>1. CASE j = k
    BY <1>3, <1>6, <2>1
  <2>2. CASE j # k
    <3>1. e[j] = c[j] /\ k < j
      BY <1>3, <2>2
    <3>2. \A x \in Members(c[k]), y \in Members(c[j]) : <<x, y>> \in rel
      BY <3>1, AheadMembers DEF InLine
    <3> QED  BY <1>1, <3>1, <3>2
  <2> QED  BY <2>1, <2>2
<1>9. d[i] = Append(e[i], f) /\ \A j \in 1..n : j # i => d[j] = e[j]
  BY <1>2, <1>3
<1> HIDE DEF f
<1> QED  BY <1>1, <1>4, <1>5, <1>7, <1>8, <1>9, LineJoin

\* A line keeps its order under a relation that has its pairs.
LEMMA LineRel ==
    ASSUME NEW n \in Nat, NEW c, NEW rel, NEW rel2, InLine(c, n, rel), NEW F,
           \A j \in 1..n : Members(c[j]) \subseteq F,
           \A x \in F, y \in F : <<x, y>> \in rel => <<x, y>> \in rel2
    PROVE  InLine(c, n, rel2)
<1>1. \A j \in 1..n : Sorted(c[j], rel2)
  <2> TAKE j \in 1..n
  <2>1. Sorted(c[j], rel) /\ \A x \in Members(c[j]), y \in Members(c[j]) :
                                <<x, y>> \in rel => <<x, y>> \in rel2
    BY DEF InLine
  <2> QED  BY <2>1, SortedMonotone
<1>2. ASSUME NEW j \in 1..n, NEW k \in 1..n, j < k PROVE Ahead(c[j], c[k], rel2)
  <2>1. \A x \in Members(c[j]), y \in Members(c[k]) : <<x, y>> \in rel
    BY <1>2, AheadMembers DEF InLine
  <2>2. \A x \in Members(c[j]), y \in Members(c[k]) : <<x, y>> \in rel2
    BY <2>1
  <2> QED  BY <2>2, AheadMembers
<1> QED  BY <1>1, <1>2 DEF InLine

\* A line of three or four queues is one trail.
LEMMA LineTrail ==
    ASSUME NEW rel, NEW s \in Seq(Nat), NEW t \in Seq(Nat), NEW u \in Seq(Nat),
           InLine(<<s, t, u>>, 3, rel)
    PROVE  Sorted(s \o t \o u, rel) /\ s \o t \o u \in Seq(Nat)
<1>1. /\ Sorted(s, rel) /\ Sorted(t, rel) /\ Sorted(u, rel)
      /\ Ahead(s, t, rel) /\ Ahead(s, u, rel) /\ Ahead(t, u, rel)
  <2> DEFINE c == <<s, t, u>>
  <2>1. c[1] = s /\ c[2] = t /\ c[3] = u /\ 1..3 = {1, 2, 3}
    OBVIOUS
  <2> HIDE DEF c
  <2>2. InLine(c, 3, rel)
    BY DEF c
  <2>3. Sorted(c[1], rel) /\ Sorted(c[2], rel) /\ Sorted(c[3], rel)
    BY <2>1, <2>2 DEF InLine
  <2>4. Ahead(c[1], c[2], rel) /\ Ahead(c[1], c[3], rel) /\ Ahead(c[2], c[3], rel)
    BY <2>2 DEF InLine
  <2> QED  BY <2>1, <2>3, <2>4
<1>2. Sorted(s \o t, rel) /\ s \o t \in Seq(Nat) /\ Members(s \o t) = Members(s) \cup Members(t)
  BY <1>1, ConcatSorted, ConcatMembers
<1>3. Ahead(s \o t, u, rel)
  <2>1. \A x \in Members(s), y \in Members(u) : <<x, y>> \in rel
    BY <1>1, AheadMembers
  <2>2. \A x \in Members(t), y \in Members(u) : <<x, y>> \in rel
    BY <1>1, AheadMembers
  <2>3. \A x \in Members(s \o t), y \in Members(u) : <<x, y>> \in rel
    BY <1>2, <2>1, <2>2
  <2> QED  BY <2>3, AheadMembers
<1> DEFINE st == s \o t
<1> HIDE DEF st
<1>4. Sorted(st \o u, rel) /\ st \o u \in Seq(Nat)
  BY <1>1, <1>2, <1>3, ConcatSorted, ConcatMembers DEF st
<1> QED  BY <1>4 DEF st

\* The queues of the lines, by number.
LineTable ==
    /\ VideoLine[1] = Ids(seen) /\ VideoLine[2] = Ids(stream["video"]) /\ VideoLine[3] = Ids(out["video"])
    /\ TextLine[1] = Ids(read) /\ TextLine[2] = Ids(metaQ) /\ TextLine[3] = Ids(stream["video"])
    /\ AudioLine[1] = Ids(heard) /\ AudioLine[2] = Ids(audioQ) /\ AudioLine[3] = Ids(stream["audio"])
    /\ AudioLine[4] = Ids(out["audio"])
AllSeqs ==
    /\ \A i \in 1..3 : VideoLine[i] \in Seq(Nat) /\ Members(VideoLine[i]) \subseteq Frames
    /\ \A i \in 1..3 : TextLine[i] \in Seq(Nat) /\ Members(TextLine[i]) \subseteq Frames
    /\ \A i \in 1..4 : AudioLine[i] \in Seq(Nat) /\ Members(AudioLine[i]) \subseteq Frames

LEMMA LineTables == LineTable /\ LineTable'
<1>1. LineTable
  BY DEF LineTable, VideoLine, TextLine, AudioLine
<1>2. LineTable'
  BY <1>1, PTL
<1> QED  BY <1>1, <1>2

LEMMA IdSetOf ==
    ASSUME NEW S, NEW s \in Seq(S), NEW F, \A e \in S : e.id \in F
    PROVE  IdSet(s) \subseteq F
<1>1. \A i \in DOMAIN s : s[i] \in S
  BY ElementOfSeq, LenProperties
<1> QED  BY <1>1 DEF IdSet

\* Which frames are where.
Residents ==
    /\ IdSet(seen) \subseteq Video /\ IdSet(heard) \subseteq Audio /\ IdSet(read) \subseteq Texts
    /\ IdSet(audioQ) \subseteq Audio /\ IdSet(metaQ) \subseteq Texts
    /\ IdSet(out["video"]) \subseteq Video /\ IdSet(out["audio"]) \subseteq Audio
    /\ IdSet(stream["video"]) \subseteq Video \cup Texts
    /\ IdSet(stream["audio"]) \subseteq Audio \cup Texts
    /\ \A t \in Threads : IdSet(ingress[t]) \subseteq Audio

LEMMA ResidentFacts ==
    ASSUME TypeInv
    PROVE  Residents
<1>1. /\ \A v \in Shown : v.id \in Video
      /\ \A d \in Sounds : d.id \in Audio
      /\ \A r \in Readings : r.id \in Texts
      /\ \A x \in VideoFrames : x.id \in Video
      /\ \A x \in AudioFrames : x.id \in Audio
      /\ \A w \in VideoWire \cup TextWire : w.id \in Video \cup Texts
      /\ \A w \in AudioWire \cup TextWire : w.id \in Audio \cup Texts
  BY RxElements, FrameFacts, VideoWireElement, AudioWireElement, TextWireElement DEF TypeInv
<1>2. IdSet(seen) \subseteq Video
  BY <1>1, IdSetOf DEF TypeInv, RxInv
<1>3. IdSet(heard) \subseteq Audio
  BY <1>1, IdSetOf DEF TypeInv, RxInv
<1>4. IdSet(read) \subseteq Texts
  BY <1>1, IdSetOf DEF TypeInv, RxInv
<1>5. IdSet(audioQ) \subseteq Audio
  BY <1>1, IdSetOf DEF TypeInv, RxInv
<1>6. IdSet(metaQ) \subseteq Texts
  BY <1>1, IdSetOf DEF TypeInv, RxInv
<1>7. IdSet(out["video"]) \subseteq Video
  BY <1>1, IdSetOf DEF TypeInv, OutInv
<1>8. IdSet(out["audio"]) \subseteq Audio
  BY <1>1, IdSetOf DEF TypeInv, OutInv
<1>9. IdSet(stream["video"]) \subseteq Video \cup Texts
  <2>1. stream["video"] \in Seq(VideoWire \cup TextWire)
    BY DEF TypeInv, StreamInv
  <2> QED  BY <1>1, <2>1, IdSetOf
<1>10. IdSet(stream["audio"]) \subseteq Audio \cup Texts
  <2>1. stream["audio"] \in Seq(AudioWire \cup TextWire)
    BY DEF TypeInv, StreamInv
  <2> QED  BY <1>1, <2>1, IdSetOf
<1>11. \A t \in Threads : IdSet(ingress[t]) \subseteq Audio
  <2>1. \A t \in Threads : ingress[t] \in Seq(AudioFrames)
    BY DEF TypeInv, OutInv
  <2> QED  BY <1>1, <2>1, IdSetOf
<1> QED  BY <1>2, <1>3, <1>4, <1>5, <1>6, <1>7, <1>8, <1>9, <1>10, <1>11 DEF Residents

LEMMA SeqFacts ==
    ASSUME TypeInv
    PROVE  AllSeqs
<1>1. Lines /\ Contents /\ Residents
  BY LineFacts, ResidentFacts
<1>2. Video \subseteq Frames /\ Audio \subseteq Frames /\ Texts \subseteq Frames
  BY DEF Video, Audio, Texts
<1>3. "video" \in Sockets /\ "audio" \in Sockets /\ 1..3 = {1, 2, 3} /\ 1..4 = {1, 2, 3, 4}
  BY DEF Sockets
<1>4. LineTable
  BY LineTables
<1>5. \A i \in 1..3 : VideoLine[i] \in Seq(Nat) /\ Members(VideoLine[i]) \subseteq Frames
  BY <1>1, <1>2, <1>3, <1>4 DEF LineTable, Lines, Contents, Residents
<1>6. \A i \in 1..3 : TextLine[i] \in Seq(Nat) /\ Members(TextLine[i]) \subseteq Frames
  BY <1>1, <1>2, <1>3, <1>4 DEF LineTable, Lines, Contents, Residents
<1>7. \A i \in 1..4 : AudioLine[i] \in Seq(Nat) /\ Members(AudioLine[i]) \subseteq Frames
  BY <1>1, <1>2, <1>3, <1>4 DEF LineTable, Lines, Contents, Residents
<1> QED  BY <1>5, <1>6, <1>7 DEF AllSeqs

LEMMA RelFacts ==
    /\ \A x, y : <<x, y>> \in VideoRel <=> x \in Nat /\ y \in Nat /\ VideoOrder(x, y)
    /\ \A x, y : <<x, y>> \in VideoRel' <=> x \in Nat /\ y \in Nat /\ VideoOrder(x, y)'
    /\ \A x, y : <<x, y>> \in AudioRel <=> x \in Nat /\ y \in Nat /\ AudioOrder(x, y)
    /\ \A x, y : <<x, y>> \in AudioRel' <=> x \in Nat /\ y \in Nat /\ AudioOrder(x, y)'
<1>1. \A x, y : <<x, y>> \in VideoRel <=> x \in Nat /\ y \in Nat /\ VideoOrder(x, y)
  BY DEF VideoRel
<1>2. \A x, y : <<x, y>> \in VideoRel' <=> x \in Nat /\ y \in Nat /\ VideoOrder(x, y)'
  BY DEF VideoRel
<1>3. \A x, y : <<x, y>> \in AudioRel <=> x \in Nat /\ y \in Nat /\ AudioOrder(x, y)
  BY DEF AudioRel
<1>4. \A x, y : <<x, y>> \in AudioRel' <=> x \in Nat /\ y \in Nat /\ AudioOrder(x, y)'
  BY DEF AudioRel
<1> QED  BY <1>1, <1>2, <1>3, <1>4

\* The frames audio threads have in their hands.
Hands == UNION {IdSet(ingress[t]) : t \in Threads}

LEMMA HandsFacts ==
    /\ \A x : x \in Hands <=> \E t \in Threads : x \in IdSet(ingress[t])
    /\ \A x : x \in Hands' <=> \E t \in Threads : x \in IdSet(ingress'[t])
    /\ ingress' = ingress => Hands' = Hands
<1>1. \A x : x \in Hands <=> \E t \in Threads : x \in IdSet(ingress[t])
  BY DEF Hands
<1>2. \A x : x \in Hands' <=> \E t \in Threads : x \in IdSet(ingress'[t])
  BY DEF Hands
<1> QED  BY <1>1, <1>2

\* The places, one by one.
HeldTable ==
    /\ Held("seen") = IdSet(seen) /\ Held("videoStream") = IdSet(stream["video"])
    /\ Held("videoOut") = IdSet(out["video"]) /\ Held("heard") = IdSet(heard)
    /\ Held("audioQ") = IdSet(audioQ) /\ Held("audioStream") = IdSet(stream["audio"])
    /\ Held("audioOut") = IdSet(out["audio"])
    /\ Held("ingress") = Hands
    /\ Held("failed") = failed /\ Held("pending") = {pending} /\ Held("stage") = {stage}
    /\ Held("sender") = drops["sender"] /\ Held("link") = drops["link"] /\ Held("wire") = drops["wire"]
    /\ Held("audio") = drops["audio"] /\ Held("quiet") = drops["quiet"]
    /\ Held("late") = drops["late"] /\ Held("torn") = drops["torn"]

LEMMA HeldTables == HeldTable /\ HeldTable'
<1>1. HeldTable
  BY DEF HeldTable, Held, Hands
<1>2. HeldTable'
  BY <1>1, PTL
<1> QED  BY <1>1, <1>2

\* A frame that is in one place is in no other.
LEMMA Apart ==
    ASSUME FateInv, NEW f \in Media, NEW p \in Places, f \in Held(p), NEW q \in Places, q # p
    PROVE  f \notin Held(q)
BY DEF FateInv

\* The frame of this call may be behind every other.
LEMMA NewRel ==
    ASSUME CallInv, CallInv', Grows, NEW n, IsNew(n)
    PROVE  /\ \A x \in Frames : <<x, n>> \in VideoRel' /\ <<x, n>> \in AudioRel'
           /\ n \in Texts' => \A y \in Frames : y \in Media =>
                                 <<n, y>> \in VideoRel' /\ <<n, y>> \in AudioRel'
<1>1. n \in Nat /\ n \notin Frames /\ \A x \in Frames : x \in Nat /\ x < n /\ ~(x > n) /\ x # n
  BY DEF IsNew
<1>2. \A f \in Frames : f \in Media' <=> f \in Media
  BY Growth DEF GrowsKinds
<1>3. \A x : ~(x \in Texts' /\ x \in Media')
  BY DEF Texts, Media
<1>4. \A x \in Frames : VideoOrder(x, n)' /\ AudioOrder(x, n)'
  BY <1>1 DEF VideoOrder, AudioOrder
<1>5. ASSUME n \in Texts', NEW y \in Frames, y \in Media
      PROVE  VideoOrder(n, y)' /\ AudioOrder(n, y)'
  BY <1>1, <1>2, <1>3, <1>5 DEF VideoOrder, AudioOrder
<1> QED  BY <1>1, <1>4, <1>5, RelFacts

\* Calls that are added do not change who may be ahead of whom among the frames before.
OrderKept ==
    /\ InLine(VideoLine, 3, VideoRel') /\ InLine(TextLine, 3, VideoRel')
    /\ InLine(AudioLine, 4, AudioRel')

LEMMA AudioRelKept ==
    ASSUME CallInv, Grows
    PROVE  \A x \in Frames, y \in Frames : <<x, y>> \in AudioRel => <<x, y>> \in AudioRel'
<1>1. \A f \in Frames : (f \in Media' <=> f \in Media) /\ by'[f] = by[f]
  BY Growth DEF GrowsKinds, Grows
<1>2. \A x \in Frames, y \in Frames : AudioOrder(x, y) => AudioOrder(x, y)'
  BY <1>1 DEF AudioOrder
<1> QED  BY <1>2, RelFacts

LEMMA OrderStays ==
    ASSUME TypeInv, OrderInv, Grows, pipelined' = pipelined
    PROVE  OrderKept
<1>1. \A f \in Frames : (f \in Media' <=> f \in Media) /\ (f \in Texts' <=> f \in Texts)
  <2>1. \A f \in Frames : f \in Media' <=> f \in Media
    BY Growth DEF GrowsKinds
  <2>2. \A f \in Frames : f \in Texts' <=> f \in Texts
    BY DEF Grows, Texts
  <2> QED  BY <2>1, <2>2
<1>2. \A x \in Frames, y \in Frames : VideoOrder(x, y) => VideoOrder(x, y)'
  BY <1>1 DEF VideoOrder
<1>3. \A x \in Frames, y \in Frames : <<x, y>> \in VideoRel => <<x, y>> \in VideoRel'
  BY <1>2, RelFacts
<1>4. \A x \in Frames, y \in Frames : <<x, y>> \in AudioRel => <<x, y>> \in AudioRel'
  BY AudioRelKept DEF TypeInv
<1>5. AllSeqs
  BY SeqFacts
<1>6. InLine(VideoLine, 3, VideoRel')
  BY <1>3, <1>5, LineRel DEF OrderInv, AllSeqs
<1>7. InLine(TextLine, 3, VideoRel')
  BY <1>3, <1>5, LineRel DEF OrderInv, AllSeqs
<1>8. InLine(AudioLine, 4, AudioRel')
  BY <1>4, <1>5, LineRel DEF OrderInv, AllSeqs
<1> QED  BY <1>6, <1>7, <1>8 DEF OrderKept

\* A texture that is submitted is in no line yet.
LEMMA OrderStaysSubmitted ==
    ASSUME TypeInv, OrderInv, FateInv, Grows, Submitted
    PROVE  OrderKept
<1>1. stage \in Video /\ stage \in Media /\ stage \notin Texts
  BY DEF Submitted, TypeInv, EncoderInv, Video, Media, Texts
<1>2. stage \in Held("stage")
  BY HeldTables DEF HeldTable
<1>3. stage \notin IdSet(seen) /\ stage \notin IdSet(stream["video"]) /\ stage \notin IdSet(out["video"])
  <2>1. stage \notin Held("seen") /\ stage \notin Held("videoStream") /\ stage \notin Held("videoOut")
    BY <1>1, <1>2, Apart DEF Places
  <2> QED  BY <2>1, HeldTables DEF HeldTable
<1>4. stage \notin IdSet(read) /\ stage \notin IdSet(metaQ)
  BY <1>1, ResidentFacts DEF Residents
<1>5. Contents /\ AllSeqs /\ LineTable
  BY LineFacts, SeqFacts, LineTables
<1> DEFINE F == Frames \ {stage}
<1>6. \A j \in 1..3 : Members(VideoLine[j]) \subseteq F /\ Members(TextLine[j]) \subseteq F
  <2>1. 1..3 = {1, 2, 3} /\ "video" \in Sockets
    BY DEF Sockets
  <2>2. \A j \in 1..3 : stage \notin Members(VideoLine[j]) /\ stage \notin Members(TextLine[j])
    BY <1>3, <1>4, <1>5, <2>1 DEF Contents, LineTable
  <2> QED  BY <1>5, <2>2 DEF AllSeqs
<1>7. \A f \in Frames : (f \in Media' <=> f \in Media) /\ (f \in Texts' <=> f \in Texts)
  BY DEF Submitted, Media, Texts, Frames
<1>8. \A x \in F : (x \in pipelined' <=> x \in pipelined)
  BY DEF Submitted
<1>9. \A x \in F, y \in F : VideoOrder(x, y) => VideoOrder(x, y)'
  BY <1>7, <1>8 DEF VideoOrder
<1> HIDE DEF F
<1>10. \A x \in F, y \in F : <<x, y>> \in VideoRel => <<x, y>> \in VideoRel'
  BY <1>9, RelFacts
<1>11. \A x \in Frames, y \in Frames : <<x, y>> \in AudioRel => <<x, y>> \in AudioRel'
  BY AudioRelKept DEF TypeInv
<1>12. InLine(VideoLine, 3, VideoRel')
  BY <1>6, <1>10, LineRel DEF OrderInv
<1>13. InLine(TextLine, 3, VideoRel')
  BY <1>6, <1>10, LineRel DEF OrderInv
<1>14. InLine(AudioLine, 4, AudioRel')
  BY <1>5, <1>11, LineRel DEF OrderInv, AllSeqs
<1> QED  BY <1>12, <1>13, <1>14 DEF OrderKept

\* A video frame is queued behind all that are on the way, or it is lost.
LEMMA ShippedVideo ==
    ASSUME TypeInv, OrderKept, NEW f \in Nat, Shipped("video", f), UNCHANGED <<stream, rxVars>>,
           \A j \in 1..3 : \A x \in Members(VideoLine[j]) : <<x, f>> \in VideoRel'
    PROVE  OrderInv'
<1>1. OutInv /\ AllSeqs /\ LineTable /\ LineTable'
  BY SeqFacts, LineTables DEF TypeInv
<1>2. UNCHANGED <<seen, heard, read, audioQ, metaQ>>
  BY DEF rxVars
<1>3. out'["audio"] = out["audio"] /\ (Ids(out'["video"]) = Append(Ids(out["video"]), f) \/ out' = out)
  BY <1>1 DEF Shipped, Queued, Lost, OutInv, Sockets
<1>4. TextLine' = TextLine /\ AudioLine' = AudioLine
  BY <1>2, <1>3 DEF TextLine, AudioLine
<1>5. InLine(VideoLine', 3, VideoRel')
  <2>1. CASE out' = out
    <3>1. VideoLine' = VideoLine
      BY <1>2, <2>1 DEF VideoLine
    <3> QED  BY <3>1 DEF OrderKept
  <2>2. CASE Ids(out'["video"]) = Append(Ids(out["video"]), f)
    <3> DEFINE c == VideoLine
               d == VideoLine'
               R == VideoRel'
               n == 3
    <3>1. d[3] = Append(c[3], f) /\ d[1] = c[1] /\ d[2] = c[2]
      BY <1>1, <1>2, <2>2 DEF LineTable
    <3>2. \A j \in 1..3 : j # 3 => d[j] = c[j]
      BY <3>1
    <3>3. \A j \in 1..3 : c[j] \in Seq(Nat)
      BY <1>1 DEF AllSeqs
    <3>4. InLine(c, 3, VideoRel')
      BY DEF OrderKept
    <3>5. (\A j \in 1..3 : j <= 3 => \A x \in Members(c[j]) : <<x, f>> \in VideoRel')
          /\ \A j \in 1..3 : j > 3 => \A y \in Members(c[j]) : <<f, y>> \in VideoRel'
      OBVIOUS
    <3>6. /\ n \in Nat /\ n \in 1..n /\ InLine(c, n, R)
          /\ d[n] = Append(c[n], f) /\ \A j \in 1..n : j # n => d[j] = c[j]
          /\ \A j \in 1..n : c[j] \in Seq(Nat)
          /\ \A j \in 1..n : j <= n => \A x \in Members(c[j]) : <<x, f>> \in R
          /\ \A j \in 1..n : j > n => \A y \in Members(c[j]) : <<f, y>> \in R
      BY <3>1, <3>2, <3>3, <3>4, <3>5
    <3> HIDE DEF c, d, n, R
    <3>7. InLine(d, n, R)
      BY <3>6, LineJoin
    <3> QED  BY <3>7 DEF d, n, R
  <2> QED  BY <1>3, <2>1, <2>2
<1> QED  BY <1>4, <1>5 DEF OrderInv, OrderKept

\* So is an audio frame.
LEMMA ShippedAudio ==
    ASSUME TypeInv, OrderKept, NEW f \in Nat, Shipped("audio", f), UNCHANGED <<stream, rxVars>>,
           \A j \in 1..4 : \A x \in Members(AudioLine[j]) : <<x, f>> \in AudioRel'
    PROVE  OrderInv'
<1>1. OutInv /\ AllSeqs /\ LineTable /\ LineTable'
  BY SeqFacts, LineTables DEF TypeInv
<1>2. UNCHANGED <<seen, heard, read, audioQ, metaQ>>
  BY DEF rxVars
<1>3. out'["video"] = out["video"] /\ (Ids(out'["audio"]) = Append(Ids(out["audio"]), f) \/ out' = out)
  BY <1>1 DEF Shipped, Queued, Lost, OutInv, Sockets
<1>4. TextLine' = TextLine /\ VideoLine' = VideoLine
  BY <1>2, <1>3 DEF TextLine, VideoLine
<1>5. InLine(AudioLine', 4, AudioRel')
  <2>1. CASE out' = out
    <3>1. AudioLine' = AudioLine
      BY <1>2, <2>1 DEF AudioLine
    <3> QED  BY <3>1 DEF OrderKept
  <2>2. CASE Ids(out'["audio"]) = Append(Ids(out["audio"]), f)
    <3> DEFINE c == AudioLine
               d == AudioLine'
               R == AudioRel'
               n == 4
    <3>1. d[4] = Append(c[4], f) /\ d[1] = c[1] /\ d[2] = c[2] /\ d[3] = c[3]
      BY <1>1, <1>2, <2>2 DEF LineTable
    <3>2. \A j \in 1..4 : j # 4 => d[j] = c[j]
      BY <3>1
    <3>3. \A j \in 1..4 : c[j] \in Seq(Nat)
      BY <1>1 DEF AllSeqs
    <3>4. InLine(c, 4, AudioRel')
      BY DEF OrderKept
    <3>5. (\A j \in 1..4 : j <= 4 => \A x \in Members(c[j]) : <<x, f>> \in AudioRel')
          /\ \A j \in 1..4 : j > 4 => \A y \in Members(c[j]) : <<f, y>> \in AudioRel'
      OBVIOUS
    <3>6. /\ n \in Nat /\ n \in 1..n /\ InLine(c, n, R)
          /\ d[n] = Append(c[n], f) /\ \A j \in 1..n : j # n => d[j] = c[j]
          /\ \A j \in 1..n : c[j] \in Seq(Nat)
          /\ \A j \in 1..n : j <= n => \A x \in Members(c[j]) : <<x, f>> \in R
          /\ \A j \in 1..n : j > n => \A y \in Members(c[j]) : <<f, y>> \in R
      BY <3>1, <3>2, <3>3, <3>4, <3>5
    <3> HIDE DEF c, d, n, R
    <3>7. InLine(d, n, R)
      BY <3>6, LineJoin
    <3> QED  BY <3>7 DEF d, n, R
  <2> QED  BY <1>3, <2>1, <2>2
<1> QED  BY <1>4, <1>5 DEF OrderInv, OrderKept

\* Nothing in the lines changes.
LEMMA SameLines ==
    ASSUME OrderKept, UNCHANGED <<out, stream, rxVars>>
    PROVE  OrderInv'
<1>1. VideoLine' = VideoLine /\ TextLine' = TextLine /\ AudioLine' = AudioLine
  BY DEF VideoLine, TextLine, AudioLine, rxVars
<1> QED  BY <1>1 DEF OrderInv, OrderKept

\* A texture that was pending may go behind all that are on the way: those submitted after it
\* do not exist, and those before it have smaller numbers.
LEMMA PendingLast ==
    ASSUME TypeInv, FateInv, Grows, CallInv', pipelined' = pipelined, pending # None, NEW p, p = pending
    PROVE  /\ p \in Nat
           /\ \A j \in 1..3 : \A x \in Members(VideoLine[j]) : <<x, p>> \in VideoRel'
<1>1. p \in Video /\ p \in Media /\ p \in Frames /\ p \in Nat
      /\ p \in pipelined /\ \A x \in pipelined : x <= p
  BY GivenFacts DEF TypeInv, EncoderInv, Video, Media
<1>2. p \in Held("pending")
  BY HeldTables DEF HeldTable
<1>3. /\ p \notin IdSet(seen) /\ p \notin IdSet(stream["video"])
      /\ p \notin IdSet(out["video"])
  <2>1. p \notin Held("seen") /\ p \notin Held("videoStream") /\ p \notin Held("videoOut")
    BY <1>1, <1>2, Apart DEF Places
  <2> QED  BY <2>1, HeldTables DEF HeldTable
<1>4. Contents /\ AllSeqs /\ LineTable
  BY LineFacts, SeqFacts, LineTables
<1>5. \A j \in 1..3 : p \notin Members(VideoLine[j])
  <2>1. 1..3 = {1, 2, 3} /\ "video" \in Sockets
    BY DEF Sockets
  <2> QED  BY <1>3, <1>4, <2>1 DEF Contents, LineTable
<1>6. p \notin Texts'
  <2>1. p \in Media'
    BY <1>1, Growth DEF GrowsKinds
  <2> QED  BY <2>1 DEF Texts, Media
<1>7. ASSUME NEW x \in Frames, x # p PROVE <<x, p>> \in VideoRel'
  <2>1. x \in Nat
    BY GivenFacts DEF TypeInv
  <2>2. x > p => x \notin pipelined
    BY <1>1, <2>1
  <2>3. VideoOrder(x, p)'
    BY <1>1, <1>6, <1>7, <2>2 DEF VideoOrder
  <2> QED  BY <1>1, <2>1, <2>3, RelFacts
<1> QED  BY <1>1, <1>4, <1>5, <1>7 DEF AllSeqs

\* The calls of the video side keep the order.
LEMMA VideoCallOrder ==
    ASSUME TypeInv, OrderInv, FateInv, TypeInv', Grows, VideoCalled \/ TextureCalled \/ Flushed
    PROVE  OrderInv'
<1>1. pipelined' = pipelined /\ UNCHANGED <<stream, rxVars>>
  BY DEF VideoCalled, TextureCalled, Flushed
<1>2. OrderKept
  BY <1>1, OrderStays
<1>3. AllSeqs
  BY SeqFacts
<1>4. CallInv /\ CallInv'
  BY DEF TypeInv
<1>5. CASE UNCHANGED out
  BY <1>1, <1>2, <1>5, SameLines
<1>6. CASE VideoCalled /\ Shipped("video", NextFrame)
  <2>1. IsNew(NextFrame) /\ NextFrame \in Nat
    BY <1>6 DEF VideoCalled, IsNew
  <2>2. \A j \in 1..3 : \A x \in Members(VideoLine[j]) : <<x, NextFrame>> \in VideoRel'
    BY <1>3, <1>4, <2>1, NewRel DEF AllSeqs
  <2> QED  BY <1>1, <1>2, <1>6, <2>1, <2>2, ShippedVideo
<1>7. CASE pending # None /\ Shipped("video", pending)
  <2>1. /\ pending \in Nat
        /\ \A j \in 1..3 : \A x \in Members(VideoLine[j]) : <<x, pending>> \in VideoRel'
    BY <1>1, <1>4, <1>7, PendingLast
  <2> QED  BY <1>1, <1>2, <1>7, <2>1, ShippedVideo
<1> QED  BY <1>5, <1>6, <1>7 DEF VideoCalled, TextureCalled, Flushed

\* The four ways in which a line moves.
Elsewhere(c, d, n, I) == \A j \in 1..n : j \notin I => d[j] = c[j]
Passes(c, d, n, i, k) ==
    /\ k = i + 1 /\ c[k] # <<>> /\ d[i] = Append(c[i], Head(c[k])) /\ d[k] = Tail(c[k])
    /\ Elsewhere(c, d, n, {i, k})
Skips(c, d, n, i) == c[i] # <<>> /\ d[i] = Tail(c[i]) /\ Elsewhere(c, d, n, {i})
Empties(c, d, n, i) == d[i] = <<>> /\ Elsewhere(c, d, n, {i})
Joins(c, d, n, i, f) == d[i] = Append(c[i], f) /\ Elsewhere(c, d, n, {i})
LineOf(c, n) == n \in Nat /\ \A j \in 1..n : c[j] \in Seq(Nat)

LEMMA LineMoves ==
    ASSUME NEW n, NEW c, NEW d, NEW rel, LineOf(c, n), InLine(c, n, rel), NEW i \in 1..n,
           \/ \E k \in 1..n : Passes(c, d, n, i, k)
           \/ Skips(c, d, n, i) \/ Empties(c, d, n, i)
    PROVE  InLine(d, n, rel)
<1>1. n \in Nat /\ \A j \in 1..n : c[j] \in Seq(Nat)
  BY DEF LineOf
<1>2. ASSUME NEW k \in 1..n, Passes(c, d, n, i, k) PROVE InLine(d, n, rel)
  <2>1. /\ k = i + 1 /\ c[k] # <<>> /\ d[i] = Append(c[i], Head(c[k])) /\ d[k] = Tail(c[k])
        /\ \A j \in 1..n : j # i /\ j # k => d[j] = c[j]
    BY <1>2 DEF Passes, Elsewhere
  <2> QED  BY <1>1, <2>1, LinePass
<1>3. ASSUME Skips(c, d, n, i) PROVE InLine(d, n, rel)
  <2>1. c[i] # <<>> /\ d[i] = Tail(c[i]) /\ \A j \in 1..n : j # i => d[j] = c[j]
    BY <1>3 DEF Skips, Elsewhere
  <2> QED  BY <1>1, <2>1, LineTail
<1>4. ASSUME Empties(c, d, n, i) PROVE InLine(d, n, rel)
  <2>1. d[i] = <<>> /\ \A j \in 1..n : j # i => d[j] = c[j]
    BY <1>4 DEF Empties, Elsewhere
  <2>2. Sorted(d[i], rel) /\ Members(d[i]) \subseteq Members(c[i])
    BY <2>1, EmptySorted
  <2> QED  BY <1>1, <2>1, <2>2, LineLess
<1> QED  BY <1>2, <1>3, <1>4

LEMMA LineJoins ==
    ASSUME NEW n, NEW c, NEW d, NEW rel, LineOf(c, n), InLine(c, n, rel), NEW i \in 1..n,
           NEW f \in Nat, Joins(c, d, n, i, f),
           \A j \in 1..n : j <= i => \A x \in Members(c[j]) : <<x, f>> \in rel,
           \A j \in 1..n : j > i => \A y \in Members(c[j]) : <<f, y>> \in rel
    PROVE  InLine(d, n, rel)
<1>1. n \in Nat /\ \A j \in 1..n : c[j] \in Seq(Nat)
  BY DEF LineOf
<1>2. d[i] = Append(c[i], f) /\ \A j \in 1..n : j # i => d[j] = c[j]
  BY DEF Joins, Elsewhere
<1> QED  BY <1>1, <1>2, LineJoin

LEMMA LinesAre ==
    ASSUME TypeInv
    PROVE  LineOf(VideoLine, 3) /\ LineOf(TextLine, 3) /\ LineOf(AudioLine, 4)
BY SeqFacts DEF AllSeqs, LineOf

\* A metadata frame is written to the sockets, past the queues.
LEMMA TextedOrder ==
    ASSUME TypeInv, OrderInv, TypeInv', Grows, Texted
    PROVE  OrderInv'
<1> DEFINE n == NextFrame
<1>1. /\ IsNew(n) /\ n \in Texts' /\ n \in Nat /\ pipelined' = pipelined
      /\ UNCHANGED <<out, seen, heard, read, audioQ, metaQ>>
  BY DEF Texted, IsNew, rxVars
<1>2. /\ stream'["video"] = stream["video"] \/ Ids(stream'["video"]) = Append(Ids(stream["video"]), n)
      /\ stream'["audio"] = stream["audio"] \/ Ids(stream'["audio"]) = Append(Ids(stream["audio"]), n)
  BY DEF Texted, Sockets
<1>3. OrderKept
  BY <1>1, OrderStays
<1>4. AllSeqs /\ LineTable /\ LineTable' /\ Contents /\ Residents
  BY SeqFacts, LineTables, LineFacts, ResidentFacts
<1>5. LineOf(VideoLine, 3) /\ LineOf(TextLine, 3) /\ LineOf(AudioLine, 4)
  BY LinesAre
<1>6. /\ \A x \in Frames : <<x, n>> \in VideoRel' /\ <<x, n>> \in AudioRel'
      /\ \A y \in Frames : y \in Media => <<n, y>> \in VideoRel' /\ <<n, y>> \in AudioRel'
  BY <1>1, NewRel DEF TypeInv
<1>7. Video \subseteq Media /\ Audio \subseteq Media /\ Media \subseteq Frames
  BY DEF Video, Audio, Media
<1>8. (\A y \in Members(VideoLine[3]) : <<n, y>> \in VideoRel')
      /\ (\A y \in Members(AudioLine[4]) : <<n, y>> \in AudioRel')
  BY <1>4, <1>6, <1>7 DEF LineTable, Contents, Residents, Sockets
<1>9. 1..3 = {1, 2, 3} /\ 1..4 = {1, 2, 3, 4}
  OBVIOUS
<1> HIDE DEF n
<1>10. InLine(VideoLine', 3, VideoRel') /\ InLine(TextLine', 3, VideoRel')
  <2>1. CASE stream'["video"] = stream["video"]
    <3>1. VideoLine' = VideoLine /\ TextLine' = TextLine
      BY <1>1, <2>1 DEF VideoLine, TextLine
    <3> QED  BY <1>3, <3>1 DEF OrderKept
  <2>2. CASE Ids(stream'["video"]) = Append(Ids(stream["video"]), n)
    <3>1. Joins(VideoLine, VideoLine', 3, 2, n)
      BY <1>1, <1>4, <1>9, <2>2 DEF Joins, Elsewhere, LineTable
    <3>2. Joins(TextLine, TextLine', 3, 3, n)
      BY <1>1, <1>4, <1>9, <2>2 DEF Joins, Elsewhere, LineTable
    <3>3. \A j \in 1..3 : j <= 2 => \A x \in Members(VideoLine[j]) : <<x, n>> \in VideoRel'
      BY <1>4, <1>6 DEF AllSeqs
    <3>4. \A j \in 1..3 : j > 2 => \A y \in Members(VideoLine[j]) : <<n, y>> \in VideoRel'
      BY <1>8, <1>9
    <3>5. InLine(VideoLine', 3, VideoRel')
      <4>1. 2 \in 1..3
        OBVIOUS
      <4>2. InLine(VideoLine, 3, VideoRel')
        BY <1>3 DEF OrderKept
      <4> QED  BY <1>1, <1>5, <3>1, <3>3, <3>4, <4>1, <4>2, LineJoins
    <3>6. \A j \in 1..3 : j <= 3 => \A x \in Members(TextLine[j]) : <<x, n>> \in VideoRel'
      BY <1>4, <1>6 DEF AllSeqs
    <3>7. \A j \in 1..3 : j > 3 => \A y \in Members(TextLine[j]) : <<n, y>> \in VideoRel'
      OBVIOUS
    <3>8. InLine(TextLine', 3, VideoRel')
      <4>1. 3 \in 1..3
        OBVIOUS
      <4>2. InLine(TextLine, 3, VideoRel')
        BY <1>3 DEF OrderKept
      <4> QED  BY <1>1, <1>5, <3>2, <3>6, <3>7, <4>1, <4>2, LineJoins
    <3> QED  BY <3>5, <3>8
  <2> QED  BY <1>2, <2>1, <2>2
<1>11. InLine(AudioLine', 4, AudioRel')
  <2>1. CASE stream'["audio"] = stream["audio"]
    <3>1. AudioLine' = AudioLine
      BY <1>1, <2>1 DEF AudioLine
    <3> QED  BY <1>3, <3>1 DEF OrderKept
  <2>2. CASE Ids(stream'["audio"]) = Append(Ids(stream["audio"]), n)
    <3>1. Joins(AudioLine, AudioLine', 4, 3, n)
      BY <1>1, <1>4, <1>9, <2>2 DEF Joins, Elsewhere, LineTable
    <3>2. \A j \in 1..4 : j <= 3 => \A x \in Members(AudioLine[j]) : <<x, n>> \in AudioRel'
      BY <1>4, <1>6 DEF AllSeqs
    <3>3. \A j \in 1..4 : j > 3 => \A y \in Members(AudioLine[j]) : <<n, y>> \in AudioRel'
      BY <1>8, <1>9
    <3>4. 3 \in 1..4
      OBVIOUS
    <3>5. InLine(AudioLine, 4, AudioRel')
      BY <1>3 DEF OrderKept
    <3> QED  BY <1>1, <1>5, <3>1, <3>2, <3>3, <3>4, <3>5, LineJoins
  <2> QED  BY <1>2, <2>1, <2>2
<1> QED  BY <1>10, <1>11 DEF OrderInv

\* A writer takes the first frame of its queue to its socket, or loses it.
LEMMA WrittenVideoOrder ==
    ASSUME TypeInv, OrderKept, UNCHANGED <<given, by, pipelined>>, Written("video")
    PROVE  OrderInv'
<1> DEFINE f == Head(Ids(out["video"]))
<1>1. /\ Ids(out["video"]) # <<>> /\ Ids(out'["video"]) = Tail(Ids(out["video"]))
      /\ \/ /\ Ids(stream'["video"]) = Append(Ids(stream["video"]), f)
         \/ stream' = stream
      /\ UNCHANGED <<seen, heard, read, audioQ, metaQ>>
  BY DEF Written, rxVars
<1>2. out'["audio"] = out["audio"] /\ stream'["audio"] = stream["audio"]
  BY DEF Written, TypeInv, OutInv, StreamInv, Sockets
<1>3. AllSeqs /\ LineTable /\ LineTable' /\ Contents /\ Residents /\ Lines
  BY SeqFacts, LineTables, LineFacts, ResidentFacts
<1>4. LineOf(VideoLine, 3) /\ LineOf(TextLine, 3)
  BY LinesAre
<1>5. 1..3 = {1, 2, 3} /\ 1 \in 1..3 /\ 2 \in 1..3 /\ 3 \in 1..3
  OBVIOUS
<1>6. AudioLine' = AudioLine
  BY <1>1, <1>2 DEF AudioLine
<1>7. InLine(VideoLine, 3, VideoRel') /\ InLine(TextLine, 3, VideoRel') /\ InLine(AudioLine, 4, AudioRel')
  BY DEF OrderKept
<1>8. CASE stream' = stream
  <2>1. Skips(VideoLine, VideoLine', 3, 3)
    BY <1>1, <1>3, <1>5, <1>8 DEF Skips, Elsewhere, LineTable
  <2>2. InLine(VideoLine', 3, VideoRel')
    BY <1>4, <1>5, <1>7, <2>1, LineMoves
  <2>3. TextLine' = TextLine
    BY <1>1, <1>8 DEF TextLine
  <2> QED  BY <1>6, <1>7, <2>2, <2>3 DEF OrderInv
<1>9. CASE Ids(stream'["video"]) = Append(Ids(stream["video"]), f)
  <2>1. Passes(VideoLine, VideoLine', 3, 2, 3)
    BY <1>1, <1>3, <1>5, <1>9 DEF Passes, Elsewhere, LineTable
  <2>2. InLine(VideoLine', 3, VideoRel')
    BY <1>4, <1>5, <1>7, <2>1, LineMoves
  <2>3. Joins(TextLine, TextLine', 3, 3, f)
    BY <1>1, <1>3, <1>5, <1>9 DEF Joins, Elsewhere, LineTable
  <2>4. f \in Members(Ids(out["video"])) /\ f \in Video /\ f \in Frames /\ f \in Nat
    <3>1. f \in Members(Ids(out["video"]))
      BY <1>1, <1>3, MembersFacts DEF Lines, Sockets
    <3>2. f \in Video
      BY <1>3, <3>1 DEF Contents, Residents, Sockets
    <3> QED  BY <3>1, <3>2, GivenFacts DEF TypeInv
  <2>5. \A x \in Members(Ids(stream["video"])) : <<x, f>> \in VideoRel'
    <3>1. Ahead(VideoLine[2], VideoLine[3], VideoRel')
      BY <1>5, <1>7 DEF InLine
    <3>2. \A x \in Members(VideoLine[2]), y \in Members(VideoLine[3]) : <<x, y>> \in VideoRel'
      BY <3>1, AheadMembers
    <3> QED  BY <1>3, <2>4, <3>2 DEF LineTable
  <2>6. ASSUME NEW x \in Texts PROVE <<x, f>> \in VideoRel'
    <3>1. Texts' = Texts /\ Media' = Media /\ Video \cap Texts = {} /\ Texts \cap Media = {}
      BY DEF Texts, Media, Video, Frames
    <3>2. <<x, f>> \in VideoRel'
      <4> HIDE DEF f
      <4>1. PICK g : g = f
        OBVIOUS
      <4>2. VideoOrder(x, g)'
        BY <2>4, <2>6, <3>1, <4>1 DEF VideoOrder
      <4>3. x \in Nat /\ g \in Nat
        BY <2>4, <2>6, <4>1, GivenFacts DEF TypeInv
      <4> QED  BY <4>1, <4>2, <4>3, RelFacts
    <3> QED  BY <3>2
  <2>7. \A j \in 1..3 : j <= 3 => \A x \in Members(TextLine[j]) : <<x, f>> \in VideoRel'
    BY <1>3, <1>5, <2>5, <2>6 DEF LineTable, Contents, Residents
  <2>8. \A j \in 1..3 : j > 3 => \A y \in Members(TextLine[j]) : <<f, y>> \in VideoRel'
    OBVIOUS
  <2> HIDE DEF f
  <2>9. InLine(TextLine', 3, VideoRel')
    BY <1>4, <1>5, <1>7, <2>3, <2>4, <2>7, <2>8, LineJoins
  <2> QED  BY <1>6, <1>7, <2>2, <2>9 DEF OrderInv
<1> QED  BY <1>1, <1>8, <1>9

LEMMA WrittenAudioOrder ==
    ASSUME TypeInv, OrderKept, Written("audio")
    PROVE  OrderInv'
<1> DEFINE f == Head(Ids(out["audio"]))
<1>1. /\ Ids(out["audio"]) # <<>> /\ Ids(out'["audio"]) = Tail(Ids(out["audio"]))
      /\ \/ /\ Ids(stream'["audio"]) = Append(Ids(stream["audio"]), f)
         \/ stream' = stream
      /\ UNCHANGED <<seen, heard, read, audioQ, metaQ>>
  BY DEF Written, rxVars
<1>2. out'["video"] = out["video"] /\ stream'["video"] = stream["video"]
  BY DEF Written, TypeInv, OutInv, StreamInv, Sockets
<1>3. AllSeqs /\ LineTable /\ LineTable'
  BY SeqFacts, LineTables
<1>4. LineOf(AudioLine, 4)
  BY LinesAre
<1>5. 1..4 = {1, 2, 3, 4} /\ 3 \in 1..4 /\ 4 \in 1..4
  OBVIOUS
<1>6. VideoLine' = VideoLine /\ TextLine' = TextLine
  BY <1>1, <1>2 DEF VideoLine, TextLine
<1>7. InLine(VideoLine, 3, VideoRel') /\ InLine(TextLine, 3, VideoRel') /\ InLine(AudioLine, 4, AudioRel')
  BY DEF OrderKept
<1>8. CASE stream' = stream
  <2>1. Skips(AudioLine, AudioLine', 4, 4)
    BY <1>1, <1>3, <1>5, <1>8 DEF Skips, Elsewhere, LineTable
  <2>2. InLine(AudioLine', 4, AudioRel')
    BY <1>4, <1>5, <1>7, <2>1, LineMoves
  <2> QED  BY <1>6, <1>7, <2>2 DEF OrderInv
<1>9. CASE Ids(stream'["audio"]) = Append(Ids(stream["audio"]), f)
  <2>1. Passes(AudioLine, AudioLine', 4, 3, 4)
    BY <1>1, <1>3, <1>5, <1>9 DEF Passes, Elsewhere, LineTable
  <2>2. InLine(AudioLine', 4, AudioRel')
    BY <1>4, <1>5, <1>7, <2>1, LineMoves
  <2> QED  BY <1>6, <1>7, <2>2 DEF OrderInv
<1> QED  BY <1>1, <1>8, <1>9

LEMMA GoneOrder ==
    ASSUME TypeInv, OrderKept, NEW k \in Sockets, Gone(k)
    PROVE  OrderInv'
<1>1. UNCHANGED <<out, seen, heard, read, audioQ, metaQ>>
  BY DEF Gone, rxVars
<1>2. LineTable /\ LineTable' /\ LineOf(VideoLine, 3) /\ LineOf(TextLine, 3) /\ LineOf(AudioLine, 4)
  BY LineTables, LinesAre
<1>3. /\ 1..3 = {1, 2, 3} /\ 1..4 = {1, 2, 3, 4} /\ 2 \in 1..3 /\ 3 \in 1..3 /\ 3 \in 1..4
  OBVIOUS
<1>4. InLine(VideoLine, 3, VideoRel') /\ InLine(TextLine, 3, VideoRel') /\ InLine(AudioLine, 4, AudioRel')
  BY DEF OrderKept
<1>5. Ids(<<>>) = <<>>
  BY DEF Ids
<1>6. CASE k = "video"
  <2>1. stream'["video"] = <<>> /\ stream'["audio"] = stream["audio"]
    BY <1>6 DEF Gone, TypeInv, StreamInv, Sockets
  <2>2. Empties(VideoLine, VideoLine', 3, 2) /\ Empties(TextLine, TextLine', 3, 3)
    BY <1>1, <1>2, <1>3, <1>5, <2>1 DEF Empties, Elsewhere, LineTable
  <2>3. AudioLine' = AudioLine
    BY <1>1, <2>1 DEF AudioLine
  <2>4. InLine(VideoLine', 3, VideoRel') /\ InLine(TextLine', 3, VideoRel')
    BY <1>2, <1>3, <1>4, <2>2, LineMoves
  <2> QED  BY <1>4, <2>3, <2>4 DEF OrderInv
<1>7. CASE k = "audio"
  <2>1. stream'["audio"] = <<>> /\ stream'["video"] = stream["video"]
    BY <1>7 DEF Gone, TypeInv, StreamInv, Sockets
  <2>2. Empties(AudioLine, AudioLine', 4, 3)
    BY <1>1, <1>2, <1>3, <1>5, <2>1 DEF Empties, Elsewhere, LineTable
  <2>3. VideoLine' = VideoLine /\ TextLine' = TextLine
    BY <1>1, <2>1 DEF VideoLine, TextLine
  <2>4. InLine(AudioLine', 4, AudioRel')
    BY <1>2, <1>3, <1>4, <2>2, LineMoves
  <2> QED  BY <1>4, <2>3, <2>4 DEF OrderInv
<1> QED  BY <1>6, <1>7 DEF Sockets

LEMMA ReadOrder ==
    ASSUME TypeInv, OrderKept, VideoRead \/ AudioRead \/ Heard \/ MetaRead
    PROVE  OrderInv'
<1>1. LineTable /\ LineTable' /\ LineOf(VideoLine, 3) /\ LineOf(TextLine, 3) /\ LineOf(AudioLine, 4)
  BY LineTables, LinesAre
<1>2. /\ 1..3 = {1, 2, 3} /\ 1..4 = {1, 2, 3, 4} /\ 1 \in 1..3 /\ 2 \in 1..3 /\ 3 \in 1..3
      /\ 1 \in 1..4 /\ 2 \in 1..4 /\ 3 \in 1..4
  OBVIOUS
<1>3. InLine(VideoLine, 3, VideoRel') /\ InLine(TextLine, 3, VideoRel') /\ InLine(AudioLine, 4, AudioRel')
  BY DEF OrderKept
<1>4. CASE VideoRead
  <2> DEFINE f == Head(Ids(stream["video"]))
  <2>1. /\ Ids(stream["video"]) # <<>> /\ Ids(stream'["video"]) = Tail(Ids(stream["video"]))
        /\ \/ Ids(seen') = Append(Ids(seen), f) /\ metaQ' = metaQ
           \/ Ids(metaQ') = Append(Ids(metaQ), f) /\ seen' = seen
           \/ seen' = seen /\ metaQ' = metaQ
        /\ UNCHANGED <<out, audioQ, heard, read>>
    BY <1>4 DEF VideoRead
  <2>2. stream'["audio"] = stream["audio"]
    BY <1>4 DEF VideoRead, TypeInv, StreamInv, Sockets
  <2>3. AudioLine' = AudioLine
    BY <2>1, <2>2 DEF AudioLine
  <2>4. Passes(VideoLine, VideoLine', 3, 1, 2) \/ Skips(VideoLine, VideoLine', 3, 2)
    BY <1>1, <1>2, <2>1 DEF Passes, Skips, Elsewhere, LineTable
  <2>5. Passes(TextLine, TextLine', 3, 2, 3) \/ Skips(TextLine, TextLine', 3, 3)
    BY <1>1, <1>2, <2>1 DEF Passes, Skips, Elsewhere, LineTable
  <2>6. InLine(VideoLine', 3, VideoRel')
    BY <1>1, <1>2, <1>3, <2>4, LineMoves
  <2>7. InLine(TextLine', 3, VideoRel')
    BY <1>1, <1>2, <1>3, <2>5, LineMoves
  <2> QED  BY <1>3, <2>3, <2>6, <2>7 DEF OrderInv
<1>5. CASE AudioRead
  <2> DEFINE f == Head(Ids(stream["audio"]))
  <2>1. /\ Ids(stream["audio"]) # <<>> /\ Ids(stream'["audio"]) = Tail(Ids(stream["audio"]))
        /\ Ids(audioQ') = Append(Ids(audioQ), f) \/ audioQ' = audioQ
        /\ UNCHANGED <<out, seen, metaQ, heard, read>>
    BY <1>5 DEF AudioRead
  <2>2. stream'["video"] = stream["video"]
    BY <1>5 DEF AudioRead, TypeInv, StreamInv, Sockets
  <2>3. VideoLine' = VideoLine /\ TextLine' = TextLine
    BY <2>1, <2>2 DEF VideoLine, TextLine
  <2>4. Passes(AudioLine, AudioLine', 4, 2, 3) \/ Skips(AudioLine, AudioLine', 4, 3)
    BY <1>1, <1>2, <2>1 DEF Passes, Skips, Elsewhere, LineTable
  <2>5. InLine(AudioLine', 4, AudioRel')
    BY <1>1, <1>2, <1>3, <2>4, LineMoves
  <2> QED  BY <1>3, <2>3, <2>5 DEF OrderInv
<1>6. CASE Heard
  <2>1. Passes(AudioLine, AudioLine', 4, 1, 2)
    BY <1>1, <1>2, <1>6 DEF Passes, Elsewhere, LineTable, Heard
  <2>2. InLine(AudioLine', 4, AudioRel')
    BY <1>1, <1>2, <1>3, <2>1, LineMoves
  <2>3. VideoLine' = VideoLine /\ TextLine' = TextLine
    BY <1>6 DEF VideoLine, TextLine, Heard
  <2> QED  BY <1>3, <2>2, <2>3 DEF OrderInv
<1>7. CASE MetaRead
  <2>1. Passes(TextLine, TextLine', 3, 1, 2)
    BY <1>1, <1>2, <1>7 DEF Passes, Elsewhere, LineTable, MetaRead
  <2>2. InLine(TextLine', 3, VideoRel')
    BY <1>1, <1>2, <1>3, <2>1, LineMoves
  <2>3. VideoLine' = VideoLine /\ AudioLine' = AudioLine
    BY <1>7 DEF VideoLine, AudioLine, MetaRead
  <2> QED  BY <1>3, <2>2, <2>3 DEF OrderInv
<1> QED  BY <1>4, <1>5, <1>6, <1>7

\* The frame a thread queues may be behind all that are on the way.
LEMMA AudioQueuedOrder ==
    ASSUME TypeInv, OrderKept, FateInv, ThreadInv, Grows, TypeInv',
           NEW t \in Threads, NEW f \in Audio, AudioQueued(t, f)
    PROVE  OrderInv'
<1>1. /\ f \in IdSet(ingress[t]) /\ Shipped("audio", f) /\ UNCHANGED <<given, by, stream, rxVars>>
  BY DEF AudioQueued
<1>2. f \in Media /\ f \in Frames /\ f \in Nat /\ by[f] = t
      /\ \A y \in AudioOn : y \in Media /\ by[y] = t => y < f
  BY <1>1, GivenFacts DEF ThreadInv, TypeInv
<1>3. f \in Held("ingress")
  BY <1>1, HeldTables, HandsFacts DEF HeldTable
<1>4. f \notin AudioOn
  <2>1. /\ f \notin Held("heard") /\ f \notin Held("audioQ") /\ f \notin Held("audioStream")
        /\ f \notin Held("audioOut")
    BY <1>2, <1>3, Apart DEF Places
  <2> QED  BY <2>1, HeldTables DEF HeldTable, AudioOn
<1>5. Contents /\ AllSeqs /\ LineTable /\ 1..4 = {1, 2, 3, 4} /\ "audio" \in Sockets
  BY LineFacts, SeqFacts, LineTables DEF Sockets
<1>6. \A j \in 1..4 : Members(AudioLine[j]) \subseteq AudioOn
  BY <1>5 DEF Contents, LineTable, AudioOn
<1>7. ASSUME NEW x \in AudioOn, x \in Frames PROVE <<x, f>> \in AudioRel'
  <2>1. Media' = Media /\ x \in Nat
    BY <1>1, <1>7, GivenFacts DEF Media, Frames, TypeInv
  <2>2. AudioOrder(x, f)'
    BY <1>1, <1>2, <1>4, <1>7, <2>1 DEF AudioOrder
  <2> QED  BY <1>2, <2>1, <2>2, RelFacts
<1>8. \A j \in 1..4 : \A x \in Members(AudioLine[j]) : <<x, f>> \in AudioRel'
  BY <1>5, <1>6, <1>7 DEF AllSeqs
<1> QED  BY <1>1, <1>2, <1>8, ShippedAudio

LEMMA OrderStep ==
    ASSUME TypeInv, OrderInv, FateInv, ThreadInv, TypeInv', Grows, Effect
    PROVE  OrderInv'
<1>1. CASE VideoCalled \/ TextureCalled \/ Flushed
  BY <1>1, VideoCallOrder
<1>2. CASE Submitted
  <2>1. OrderKept
    BY <1>2, OrderStaysSubmitted
  <2>2. UNCHANGED <<out, stream, rxVars>>
    BY <1>2 DEF Submitted
  <2> QED  BY <2>1, <2>2, SameLines
<1>3. CASE Texted
  BY <1>3, TextedOrder
<1>4. ASSUME pipelined' = pipelined PROVE OrderKept
  BY <1>4, OrderStays
<1>5. ASSUME NEW t \in Threads, Stamped(t) PROVE OrderInv'
  <2>1. pipelined' = pipelined /\ UNCHANGED <<out, stream, rxVars>>
    BY <1>5 DEF Stamped
  <2> QED  BY <1>4, <2>1, SameLines
<1>6. ASSUME NEW t \in Threads, NEW f \in Audio, AudioQueued(t, f) PROVE OrderInv'
  <2>1. pipelined' = pipelined
    BY <1>6 DEF AudioQueued
  <2> QED  BY <1>4, <1>6, <2>1, AudioQueuedOrder
<1>7. ASSUME NEW k \in Sockets, Written(k) PROVE OrderInv'
  <2>1. UNCHANGED <<given, by, pipelined>>
    BY <1>7 DEF Written
  <2>2. OrderKept
    BY <1>4, <2>1
  <2>3. CASE k = "video"
    BY <1>7, <2>1, <2>2, <2>3, WrittenVideoOrder
  <2>4. CASE k = "audio"
    BY <1>7, <2>2, <2>4, WrittenAudioOrder
  <2> QED  BY <2>3, <2>4 DEF Sockets
<1>8. ASSUME NEW k \in Sockets, Gone(k) PROVE OrderInv'
  <2>1. pipelined' = pipelined
    BY <1>8 DEF Gone
  <2> QED  BY <1>4, <1>8, <2>1, GoneOrder
<1>9. CASE VideoRead \/ AudioRead \/ Heard \/ MetaRead
  <2>1. pipelined' = pipelined
    BY <1>9 DEF VideoRead, AudioRead, Heard, MetaRead
  <2> QED  BY <1>4, <1>9, <2>1, ReadOrder
<1>10. CASE Idle
  <2>1. pipelined' = pipelined /\ UNCHANGED <<out, stream, rxVars>>
    BY <1>10 DEF Idle
  <2> QED  BY <1>4, <2>1, SameLines
<1> QED  BY <1>1, <1>2, <1>3, <1>5, <1>6, <1>7, <1>8, <1>9, <1>10 DEF Effect

-----------------------------------------------------------------------------
(* The same effects, as sets of frames. *)

\* The first frame of a queue is in it once.
LEMMA TakeFirst ==
    ASSUME NEW s \in Seq(Nat), s # <<>>, NEW rel, Sorted(s, rel), \A x : <<x, x>> \notin rel
    PROVE  Head(s) \in Members(s) /\ Members(Tail(s)) = Members(s) \ {Head(s)}
<1>1. /\ Head(s) \in Members(s) /\ Members(s) = Members(Tail(s)) \cup {Head(s)}
  BY MembersFacts
<1>2. Head(s) \notin Members(Tail(s))
  BY TailSorted
<1> QED  BY <1>1, <1>2

LEMMA NoFrameTwice ==
    ASSUME OrderInv
    PROVE  /\ \A x : <<x, x>> \notin VideoRel /\ <<x, x>> \notin AudioRel
           /\ Sorted(Ids(stream["video"]), VideoRel) /\ Sorted(Ids(out["video"]), VideoRel)
           /\ Sorted(Ids(stream["audio"]), AudioRel) /\ Sorted(Ids(out["audio"]), AudioRel)
           /\ Sorted(Ids(audioQ), AudioRel)
<1>1. \A x : <<x, x>> \notin VideoRel /\ <<x, x>> \notin AudioRel
  BY RelFacts DEF VideoOrder, AudioOrder
<1>2. /\ Sorted(VideoLine[2], VideoRel) /\ Sorted(VideoLine[3], VideoRel)
      /\ Sorted(AudioLine[2], AudioRel) /\ Sorted(AudioLine[3], AudioRel) /\ Sorted(AudioLine[4], AudioRel)
  BY DEF OrderInv, InLine
<1> QED  BY <1>1, <1>2, LineTables DEF LineTable

\* What a queue holds after a frame joined it, and after its first frame left.
LEMMA JoinSets ==
    ASSUME NEW s, NEW s2, Ids(s) \in Seq(Nat), NEW f \in Nat, Ids(s2) = Append(Ids(s), f),
           Members(Ids(s)) = IdSet(s), Members(Ids(s2)) = IdSet(s2)
    PROVE  IdSet(s2) = IdSet(s) \cup {f}
BY MembersFacts

LEMMA TakeSets ==
    ASSUME NEW s, NEW s2, Ids(s) \in Seq(Nat), Ids(s) # <<>>, Ids(s2) = Tail(Ids(s)),
           Members(Ids(s)) = IdSet(s), Members(Ids(s2)) = IdSet(s2),
           NEW rel, Sorted(Ids(s), rel), \A x : <<x, x>> \notin rel
    PROVE  Head(Ids(s)) \in IdSet(s) /\ IdSet(s2) = IdSet(s) \ {Head(Ids(s))} /\ Head(Ids(s)) \in Nat
<1>1. Head(Ids(s)) \in IdSet(s) /\ IdSet(s2) = IdSet(s) \ {Head(Ids(s))}
  BY TakeFirst
<1> QED  BY <1>1, MembersFacts

-----------------------------------------------------------------------------
(* Every frame is in one place. *)

\* The frames of F go from place p to place q, all others stay where they are.
Relocates(F, p, q) ==
    /\ p \in Places /\ q \in Places /\ p # q
    /\ \A x \in Media :
          /\ x \in F => x \in Held(p)
          /\ x \in Held(p)' <=> x \in Held(p) /\ x \notin F
          /\ x \in Held(q)' <=> x \in Held(q) \/ x \in F
    /\ \A x \in Media, r \in Places : r # p /\ r # q => (x \in Held(r)' <=> x \in Held(r))
Stays == \A x \in Media, r \in Places : x \in Held(r)' <=> x \in Held(r)
Settles(n, q) == q \in Places /\ \A r \in Places : n \in Held(r)' <=> r = q

LEMMA Settled ==
    ASSUME FateInv, Stays \/ \E F, p, q : Relocates(F, p, q)
    PROVE  \A f \in Media : \E p \in Places : Settles(f, p)
<1>1. ASSUME NEW f \in Media PROVE \E p \in Places : Settles(f, p)
  <2>1. PICK o \in Places : \A q \in Places : f \in Held(q) <=> q = o
    BY <1>1 DEF FateInv
  <2>2. CASE Stays
    BY <1>1, <2>1, <2>2 DEF Stays, Settles
  <2>3. ASSUME NEW F, NEW p, NEW q, Relocates(F, p, q) PROVE \E r \in Places : Settles(f, r)
    <3>1. /\ p \in Places /\ q \in Places /\ p # q
          /\ f \in F => f \in Held(p)
          /\ f \in Held(p)' <=> f \in Held(p) /\ f \notin F
          /\ f \in Held(q)' <=> f \in Held(q) \/ f \in F
          /\ \A r \in Places : r # p /\ r # q => (f \in Held(r)' <=> f \in Held(r))
      BY <1>1, <2>3 DEF Relocates
    <3>2. CASE f \in F
      <4>1. Settles(f, q)
        BY <2>1, <3>1, <3>2 DEF Settles
      <4> QED  BY <3>1, <4>1
    <3>3. CASE f \notin F
      <4>1. Settles(f, o)
        BY <2>1, <3>1, <3>3 DEF Settles
      <4> QED  BY <4>1
    <3> QED  BY <3>2, <3>3
  <2> QED  BY <2>2, <2>3
<1> QED  BY <1>1

LEMMA FateFrom ==
    ASSUME Grows, \A f \in Media : \E p \in Places : Settles(f, p),
           \A f \in Media' : f \notin Frames => \E p \in Places : Settles(f, p)
    PROVE  FateInv'
<1>1. \A f \in Frames : f \in Media' <=> f \in Media
  BY Growth DEF GrowsKinds
<1>2. \A f \in Media' : \E p \in Places : Settles(f, p)
  BY <1>1 DEF Media
<1> QED  BY <1>2 DEF FateInv, Settles

\* No new frame is anywhere yet.
LEMMA HeldKnown ==
    ASSUME TypeInv, NEW r \in Places
    PROVE  Held(r) \subseteq Frames \cup {None}
<1>1. Residents /\ Video \subseteq Frames /\ Audio \subseteq Frames /\ Texts \subseteq Frames
  BY ResidentFacts, GivenFacts DEF TypeInv
<1>2. /\ pending \in Frames \cup {None} /\ stage \in Frames \cup {None} /\ failed \subseteq Frames
      /\ \A c \in Counters : drops[c] \subseteq Frames
  BY <1>1 DEF TypeInv, EncoderInv, LossInv
<1>3. Hands \subseteq Frames
  BY <1>1, HandsFacts DEF Residents
<1> QED  BY <1>1, <1>2, <1>3, HeldTables DEF HeldTable, Residents, Places, Counters

\* Queueing, by sets.
LEMMA ShippedSets ==
    ASSUME TypeInv, TypeInv', NEW k \in Sockets, NEW f \in Nat, Shipped(k, f)
    PROVE  /\ \A j \in Sockets : j # k => out'[j] = out[j]
           /\ \/ IdSet(out'[k]) = IdSet(out[k]) \cup {f} /\ drops' = drops
              \/ out' = out /\ drops' = [drops EXCEPT ![CounterOf(k)] = @ \cup {f}]
<1>1. CASE Queued(k, f)
  <2>1. Lines /\ Contents
    BY LineFacts
  <2>2. Contents'
    BY LineFacts, PTL
  <2>3. /\ Ids(out[k]) \in Seq(Nat) /\ Members(Ids(out[k])) = IdSet(out[k])
        /\ Members(Ids(out'[k])) = IdSet(out'[k])
    BY <2>1, <2>2 DEF Lines, Contents
  <2>4. Ids(out'[k]) = Append(Ids(out[k]), f) /\ drops' = drops
    BY <1>1 DEF Queued
  <2>5. IdSet(out'[k]) = IdSet(out[k]) \cup {f}
    BY <2>3, <2>4, JoinSets
  <2>6. \A j \in Sockets : j # k => out'[j] = out[j]
    BY <1>1 DEF Queued, TypeInv, OutInv
  <2> QED  BY <2>4, <2>5, <2>6
<1>2. CASE Lost(k, f)
  BY <1>2 DEF Lost
<1> QED  BY <1>1, <1>2 DEF Shipped

LEMMA DropsFacts ==
    ASSUME TypeInv, NEW c \in Counters, NEW S, drops' = [drops EXCEPT ![c] = @ \cup S]
    PROVE  drops'[c] = drops[c] \cup S /\ \A b \in Counters : b # c => drops'[b] = drops[b]
BY DEF TypeInv, LossInv

\* Where a frame of the video side goes when it is shipped.
LEMMA VideoShipped ==
    ASSUME TypeInv, TypeInv', NEW f \in Nat, Shipped("video", f),
           UNCHANGED <<ingress, stream, rxVars, failed>>
    PROVE  \E q \in {"videoOut", "sender"} :
              /\ \A x : x \in Held(q)' <=> x \in Held(q) \/ x = f
              /\ \A r \in Places : r \notin {q, "pending", "stage"} => Held(r)' = Held(r)
<1>1. /\ out'["audio"] = out["audio"]
      /\ \/ IdSet(out'["video"]) = IdSet(out["video"]) \cup {f} /\ drops' = drops
         \/ out' = out /\ drops' = [drops EXCEPT !["sender"] = @ \cup {f}]
  <2>1. "video" \in Sockets /\ "audio" \in Sockets /\ CounterOf("video") = "sender"
    BY DEF Sockets, CounterOf
  <2> QED  BY <2>1, ShippedSets
<1>2. /\ UNCHANGED <<seen, heard, audioQ, ingress, stream, failed>> /\ HeldTable /\ HeldTable'
      /\ Held("ingress")' = Held("ingress")
  <2>1. UNCHANGED <<seen, heard, audioQ, ingress, stream, failed>> /\ HeldTable /\ HeldTable'
    BY HeldTables DEF rxVars
  <2>2. Held("ingress")' = Held("ingress")
    BY <2>1, HandsFacts DEF HeldTable
  <2> QED  BY <2>1, <2>2
<1>3. CASE IdSet(out'["video"]) = IdSet(out["video"]) \cup {f} /\ drops' = drops
  <2>1. \A x : x \in Held("videoOut")' <=> x \in Held("videoOut") \/ x = f
    BY <1>2, <1>3 DEF HeldTable
  <2>2. /\ Held("seen")' = Held("seen") /\ Held("videoStream")' = Held("videoStream")
        /\ Held("heard")' = Held("heard") /\ Held("audioQ")' = Held("audioQ")
        /\ Held("audioStream")' = Held("audioStream") /\ Held("audioOut")' = Held("audioOut")
        /\ Held("ingress")' = Held("ingress") /\ Held("failed")' = Held("failed")
        /\ Held("sender")' = Held("sender") /\ Held("link")' = Held("link")
        /\ Held("wire")' = Held("wire") /\ Held("audio")' = Held("audio")
        /\ Held("quiet")' = Held("quiet") /\ Held("late")' = Held("late") /\ Held("torn")' = Held("torn")
    BY <1>1, <1>2, <1>3 DEF HeldTable
  <2>3. \A r \in Places : r \notin {"videoOut", "pending", "stage"} => Held(r)' = Held(r)
    BY <2>2 DEF Places, Counters
  <2> QED  BY <2>1, <2>3
<1>4. CASE out' = out /\ drops' = [drops EXCEPT !["sender"] = @ \cup {f}]
  <2>1. /\ drops'["sender"] = drops["sender"] \cup {f}
        /\ drops'["link"] = drops["link"] /\ drops'["wire"] = drops["wire"]
        /\ drops'["audio"] = drops["audio"] /\ drops'["quiet"] = drops["quiet"]
        /\ drops'["late"] = drops["late"] /\ drops'["torn"] = drops["torn"]
    BY <1>4 DEF TypeInv, LossInv, Counters
  <2>2. \A x : x \in Held("sender")' <=> x \in Held("sender") \/ x = f
    BY <1>2, <2>1 DEF HeldTable
  <2>3. /\ Held("seen")' = Held("seen") /\ Held("videoStream")' = Held("videoStream")
        /\ Held("videoOut")' = Held("videoOut") /\ Held("heard")' = Held("heard")
        /\ Held("audioQ")' = Held("audioQ") /\ Held("audioStream")' = Held("audioStream")
        /\ Held("audioOut")' = Held("audioOut") /\ Held("ingress")' = Held("ingress")
        /\ Held("failed")' = Held("failed") /\ Held("link")' = Held("link")
        /\ Held("wire")' = Held("wire") /\ Held("audio")' = Held("audio")
        /\ Held("quiet")' = Held("quiet") /\ Held("late")' = Held("late") /\ Held("torn")' = Held("torn")
    BY <1>2, <1>4, <2>1 DEF HeldTable
  <2>4. \A r \in Places : r \notin {"sender", "pending", "stage"} => Held(r)' = Held(r)
    BY <2>3 DEF Places, Counters
  <2> QED  BY <2>2, <2>4
<1> QED  BY <1>1, <1>3, <1>4

\* Nothing but the named variables moves frames.
LEMMA QuietHeld ==
    ASSUME UNCHANGED <<ingress, out, stream, rxVars, drops>>
    PROVE  \A r \in Places : r \notin {"failed", "pending", "stage"} => Held(r)' = Held(r)
<1>1. /\ UNCHANGED <<seen, heard, audioQ, ingress, out, stream, drops>> /\ HeldTable /\ HeldTable'
      /\ Hands' = Hands
  BY HeldTables, HandsFacts DEF rxVars
<1>2. /\ Held("seen")' = Held("seen") /\ Held("videoStream")' = Held("videoStream")
      /\ Held("videoOut")' = Held("videoOut") /\ Held("heard")' = Held("heard")
      /\ Held("audioQ")' = Held("audioQ") /\ Held("audioStream")' = Held("audioStream")
      /\ Held("audioOut")' = Held("audioOut") /\ Held("ingress")' = Held("ingress")
      /\ Held("sender")' = Held("sender") /\ Held("link")' = Held("link")
      /\ Held("wire")' = Held("wire") /\ Held("audio")' = Held("audio")
      /\ Held("quiet")' = Held("quiet") /\ Held("late")' = Held("late") /\ Held("torn")' = Held("torn")
  BY <1>1 DEF HeldTable
<1> QED  BY <1>2 DEF Places, Counters

\* The frame of this call goes to one place, and no other frame moves.
LEMMA NewSettles ==
    ASSUME TypeInv, NEW n, IsNew(n), NEW q \in Places,
           \A x \in Nat : x \in Held(q)' <=> x \in Held(q) \/ x = n,
           \A r \in Places : r # q => \A x \in Nat : x \in Held(r)' <=> x \in Held(r)
    PROVE  Stays /\ Settles(n, q)
<1>1. n \in Nat /\ n \notin Frames /\ n # None /\ Media \subseteq Frames /\ Frames \subseteq Nat
  BY MediaPathAssumption, GivenFacts DEF IsNew, Media, TypeInv
<1>2. \A r \in Places : n \notin Held(r)
  BY <1>1, HeldKnown
<1>3. Settles(n, q)
  BY <1>1, <1>2 DEF Settles
<1>4. ASSUME NEW x \in Media, NEW r \in Places PROVE x \in Held(r)' <=> x \in Held(r)
  <2>1. x \in Nat /\ x # n
    BY <1>1
  <2> QED  BY <2>1
<1> QED  BY <1>3, <1>4 DEF Stays

\* Of the frames of a step with one new frame, that one is the only one to be settled anew.
LEMMA NewFate ==
    ASSUME FateInv, Grows, NEW n, IsNew(n),
           Stays \/ (\E F, p, q : Relocates(F, p, q)),
           n \in Media' => \E q \in Places : Settles(n, q)
    PROVE  FateInv'
<1>1. \A f \in Media : \E p \in Places : Settles(f, p)
  BY Settled
<1>2. \A f \in Media' : f \notin Frames => f = n
  BY DEF IsNew, Media
<1> QED  BY <1>1, <1>2, FateFrom

LEMMA OldFate ==
    ASSUME FateInv, Grows, UNCHANGED <<given, by>>, Stays \/ (\E F, p, q : Relocates(F, p, q))
    PROVE  FateInv'
<1>1. \A f \in Media : \E p \in Places : Settles(f, p)
  BY Settled
<1>2. \A f \in Media' : f \in Frames
  BY DEF Media, Frames
<1> QED  BY <1>1, <1>2, FateFrom

LEMMA VideoCalledFate ==
    ASSUME TypeInv, FateInv, TypeInv', Grows, VideoCalled
    PROVE  FateInv'
<1> DEFINE n == NextFrame
<1>1. IsNew(n) /\ n \in Nat /\ UNCHANGED <<pending, stage, ingress, stream, rxVars>>
  BY DEF VideoCalled, IsNew
<1>2. HeldTable /\ HeldTable'
  BY HeldTables
<1>3. Held("pending")' = Held("pending") /\ Held("stage")' = Held("stage")
  BY <1>1, <1>2 DEF HeldTable
<1>4. CASE Shipped("video", n) /\ failed' = failed
  <2> HIDE DEF n
  <2>1. PICK q \in {"videoOut", "sender"} :
           /\ \A x : x \in Held(q)' <=> x \in Held(q) \/ x = n
           /\ \A r \in Places : r \notin {q, "pending", "stage"} => Held(r)' = Held(r)
    BY <1>1, <1>4, VideoShipped
  <2>2. q \in Places /\ \A r \in Places : r # q => Held(r)' = Held(r)
    BY <1>3, <2>1 DEF Places, Counters
  <2>3. Stays /\ Settles(n, q)
    BY <1>1, <2>1, <2>2, NewSettles
  <2> QED  BY <1>1, <2>2, <2>3, NewFate
<1>5. CASE failed' = failed \cup {n} /\ UNCHANGED <<out, drops>>
  <2> HIDE DEF n
  <2>1. \A x : x \in Held("failed")' <=> x \in Held("failed") \/ x = n
    BY <1>2, <1>5 DEF HeldTable
  <2>2. "failed" \in Places /\ \A r \in Places : r # "failed" => Held(r)' = Held(r)
    BY <1>1, <1>3, <1>5, QuietHeld DEF Places
  <2>3. Stays /\ Settles(n, "failed")
    BY <1>1, <2>1, <2>2, NewSettles
  <2> QED  BY <1>1, <2>2, <2>3, NewFate
<1> QED  BY <1>4, <1>5 DEF VideoCalled

\* The texture that was pending is shipped or fails.
LEMMA PendingFate ==
    ASSUME TypeInv, TypeInv', NEW n \in Nat, n \notin Frames, pending # None, pending' = None,
           UNCHANGED <<ingress, stream, rxVars>>, stage = None, stage' \in {None, n},
           NEW N \in SUBSET {n},
           \/ Shipped("video", pending) /\ failed' = failed /\ N = {}
           \/ failed' = failed \cup {pending} \cup N /\ UNCHANGED <<out, drops>>
    PROVE  \E q \in {"videoOut", "sender", "failed"} :
              /\ Relocates({pending}, "pending", q)
              /\ \A r \in Places : r # "stage" => (n \in Held(r)' <=> n \in N /\ r = "failed")
<1>1. /\ pending \in Media /\ pending \in Frames /\ pending \in Nat /\ Media \subseteq Frames
      /\ Frames \subseteq Nat /\ None \notin Nat
  BY GivenFacts, MediaPathAssumption DEF TypeInv, EncoderInv, Video, Media
<1>2. HeldTable /\ HeldTable'
  BY HeldTables
<1>3. /\ Held("pending") = {pending} /\ Held("pending")' = {None}
      /\ Held("stage") = {None} /\ Held("stage")' \in {{None}, {n}}
  BY <1>2 DEF HeldTable
<1>4. \A r \in Places : n \notin Held(r)
  BY <1>1, HeldKnown
<1>5. \A x \in Media : x # n /\ x # None
  BY <1>1
<1>6. CASE Shipped("video", pending) /\ failed' = failed /\ N = {}
  <2>1. PICK q \in {"videoOut", "sender"} :
           /\ \A x : x \in Held(q)' <=> x \in Held(q) \/ x = pending
           /\ \A r \in Places : r \notin {q, "pending", "stage"} => Held(r)' = Held(r)
    BY <1>1, <1>6, VideoShipped
  <2>2. q \in Places /\ q # "pending" /\ q # "stage" /\ "pending" \in Places
    BY <2>1 DEF Places, Counters
  <2>3. Relocates({pending}, "pending", q)
    BY <1>3, <1>5, <2>1, <2>2 DEF Relocates
  <2>4. \A r \in Places : r # "stage" => n \notin Held(r)'
    BY <1>1, <1>3, <1>4, <2>1, <2>2
  <2> QED  BY <1>6, <2>1, <2>3, <2>4
<1>7. CASE failed' = failed \cup {pending} \cup N /\ UNCHANGED <<out, drops>>
  <2>1. \A r \in Places : r \notin {"failed", "pending", "stage"} => Held(r)' = Held(r)
    BY <1>7, QuietHeld
  <2>2. Held("failed")' = Held("failed") \cup {pending} \cup N
    BY <1>2, <1>7 DEF HeldTable
  <2>3. "failed" \in Places /\ "pending" \in Places
    BY DEF Places
  <2>4. Relocates({pending}, "pending", "failed")
    BY <1>3, <1>5, <2>1, <2>2, <2>3 DEF Relocates
  <2>5. \A r \in Places : r # "stage" => (n \in Held(r)' <=> n \in N /\ r = "failed")
    BY <1>1, <1>3, <1>4, <2>1, <2>2, <2>3
  <2> QED  BY <2>4, <2>5
<1> QED  BY <1>6, <1>7

LEMMA TextureCalledFate ==
    ASSUME TypeInv, FateInv, TypeInv', Grows, TextureCalled
    PROVE  FateInv'
<1>1. PICK n : n = NextFrame
  OBVIOUS
<1>2. /\ IsNew(n) /\ n \in Nat /\ n \notin Frames /\ stage = None /\ pending' = None
      /\ UNCHANGED <<ingress, stream, rxVars>> /\ n # None
  BY <1>1, MediaPathAssumption DEF TextureCalled, IsNew
<1>3. HeldTable /\ HeldTable' /\ "stage" \in Places /\ "failed" \in Places
  BY HeldTables DEF Places
<1>4. CASE stage' = n /\ failed' = failed /\ pending = None /\ UNCHANGED <<out, drops>>
  <2>1. \A r \in Places : r # "stage" => Held(r)' = Held(r)
    <3>1. \A r \in Places : r \notin {"failed", "pending", "stage"} => Held(r)' = Held(r)
      BY <1>2, <1>4, QuietHeld
    <3>2. Held("failed")' = Held("failed") /\ Held("pending")' = Held("pending")
      BY <1>2, <1>3, <1>4 DEF HeldTable
    <3> QED  BY <3>1, <3>2
  <2>2. \A x \in Nat : x \in Held("stage")' <=> x \in Held("stage") \/ x = n
    BY <1>2, <1>3, <1>4, MediaPathAssumption DEF HeldTable
  <2>3. Stays /\ Settles(n, "stage")
    BY <1>2, <1>3, <2>1, <2>2, NewSettles
  <2> QED  BY <1>2, <1>3, <2>3, NewFate
<1>5. CASE stage' = n /\ failed' = failed /\ pending # None /\ Shipped("video", pending)
  <2>1. PICK q \in {"videoOut", "sender", "failed"} :
           /\ Relocates({pending}, "pending", q)
           /\ \A r \in Places : r # "stage" => (n \in Held(r)' <=> n \in {} /\ r = "failed")
    <3>1. PICK N : N = {}
      OBVIOUS
    <3>2. N \in SUBSET {n} /\ (Shipped("video", pending) /\ failed' = failed /\ N = {})
          /\ stage' \in {None, n}
      BY <1>5, <3>1
    <3>3. \E q \in {"videoOut", "sender", "failed"} :
             /\ Relocates({pending}, "pending", q)
             /\ \A r \in Places : r # "stage" => (n \in Held(r)' <=> n \in N /\ r = "failed")
      BY <1>2, <1>5, <3>2, PendingFate
    <3> QED  BY <3>1, <3>3
  <2>2. n \in Held("stage")'
    BY <1>3, <1>5 DEF HeldTable
  <2>3. Settles(n, "stage")
    BY <1>3, <2>1, <2>2 DEF Settles
  <2> QED  BY <1>2, <1>3, <2>1, <2>3, NewFate
<1>6. CASE pending # None /\ stage' = None /\ failed' = failed \cup {pending, n} /\ UNCHANGED <<out, drops>>
  <2>1. failed' = failed \cup {pending} \cup {n}
    BY <1>6
  <2>2. PICK q \in {"videoOut", "sender", "failed"} :
           /\ Relocates({pending}, "pending", q)
           /\ \A r \in Places : r # "stage" => (n \in Held(r)' <=> n \in {n} /\ r = "failed")
    BY <1>2, <1>6, <2>1, PendingFate
  <2>3. n \notin Held("stage")'
    BY <1>2, <1>3, <1>6 DEF HeldTable
  <2>4. Settles(n, "failed")
    BY <1>3, <2>2, <2>3 DEF Settles
  <2> QED  BY <1>2, <1>3, <2>2, <2>4, NewFate
<1> QED  BY <1>1, <1>4, <1>5, <1>6 DEF TextureCalled

LEMMA SubmittedFate ==
    ASSUME TypeInv, FateInv, Grows, Submitted
    PROVE  FateInv'
<1>1. /\ stage # None /\ stage' = None /\ pending = None
      /\ UNCHANGED <<given, by, ingress, out, stream, rxVars, drops>>
  BY DEF Submitted, TypeInv, EncoderInv
<1>2. HeldTable /\ HeldTable' /\ {"stage", "failed", "pending"} \subseteq Places
  BY HeldTables DEF Places
<1>3. \A r \in Places : r \notin {"failed", "pending", "stage"} => Held(r)' = Held(r)
  BY <1>1, QuietHeld
<1>4. None \notin Media
  BY GivenFacts DEF Media, TypeInv
<1>5. Held("stage") = {stage} /\ Held("stage")' = {None} /\ Held("pending") = {None}
  BY <1>1, <1>2 DEF HeldTable
<1>6. CASE pending' = stage /\ failed' = failed
  <2>1. Held("pending")' = {stage} /\ Held("failed")' = Held("failed")
    BY <1>2, <1>6 DEF HeldTable
  <2>2. Relocates({stage}, "stage", "pending")
    BY <1>2, <1>3, <1>4, <1>5, <2>1 DEF Relocates
  <2> QED  BY <1>1, <2>2, OldFate
<1>7. CASE pending' = pending /\ failed' = failed \cup {stage}
  <2>1. Held("pending")' = {None} /\ Held("failed")' = Held("failed") \cup {stage}
    BY <1>1, <1>2, <1>7 DEF HeldTable
  <2>2. Relocates({stage}, "stage", "failed")
    BY <1>2, <1>3, <1>4, <1>5, <2>1 DEF Relocates
  <2> QED  BY <1>1, <2>2, OldFate
<1> QED  BY <1>6, <1>7 DEF Submitted

LEMMA FlushedFate ==
    ASSUME TypeInv, FateInv, TypeInv', Grows, Flushed
    PROVE  FateInv'
<1>1. /\ stage = None /\ pending # None /\ pending' = None /\ stage' = stage
      /\ UNCHANGED <<given, by, ingress, stream, rxVars>>
      /\ \/ Shipped("video", pending) /\ failed' = failed
         \/ failed' = failed \cup {pending} /\ UNCHANGED <<out, drops>>
  BY DEF Flushed
<1>2. PICK n \in Nat : n \notin Frames
  <2>1. Len(given) + 1 \in Nat /\ Len(given) + 1 \notin Frames
    BY GivenFacts DEF TypeInv
  <2> QED  BY <2>1
<1>3. PICK N : N = {}
  OBVIOUS
<1>4. /\ N \in SUBSET {n} /\ stage' \in {None, n}
      /\ \/ Shipped("video", pending) /\ failed' = failed /\ N = {}
         \/ failed' = failed \cup {pending} \cup N /\ UNCHANGED <<out, drops>>
  BY <1>1, <1>3
<1>5. \E q \in {"videoOut", "sender", "failed"} :
             /\ Relocates({pending}, "pending", q)
             /\ \A r \in Places : r # "stage" => (n \in Held(r)' <=> n \in N /\ r = "failed")
  BY <1>1, <1>2, <1>4, PendingFate
<1> QED  BY <1>1, <1>5, OldFate

LEMMA TextedFate ==
    ASSUME TypeInv, FateInv, TypeInv', Grows, Texted
    PROVE  FateInv'
<1>1. PICK n : n = NextFrame
  OBVIOUS
<1>2. /\ IsNew(n) /\ n \in Nat /\ n \notin Frames /\ n \in Texts'
      /\ UNCHANGED <<pending, stage, ingress, out, rxVars, drops, failed>>
      /\ \A k \in Sockets : stream'[k] = stream[k] \/ Ids(stream'[k]) = Append(Ids(stream[k]), n)
  BY <1>1 DEF Texted, IsNew
<1>3. Lines /\ Contents /\ Contents'
  BY LineFacts, PTL
<1>4. \A k \in Sockets : stream'[k] = stream[k] \/ IdSet(stream'[k]) = IdSet(stream[k]) \cup {n}
  <2> TAKE k \in Sockets
  <2>1. CASE Ids(stream'[k]) = Append(Ids(stream[k]), n)
    <3>1. /\ Ids(stream[k]) \in Seq(Nat) /\ Members(Ids(stream[k])) = IdSet(stream[k])
          /\ Members(Ids(stream'[k])) = IdSet(stream'[k])
      BY <1>3 DEF Lines, Contents
    <3> QED  BY <1>2, <2>1, <3>1, JoinSets
  <2> QED  BY <1>2, <2>1
<1>5. HeldTable /\ HeldTable' /\ Hands' = Hands /\ UNCHANGED <<seen, heard, audioQ>>
  BY <1>2, HeldTables, HandsFacts DEF rxVars
<1>6. /\ Held("seen")' = Held("seen")
      /\ Held("videoOut")' = Held("videoOut") /\ Held("heard")' = Held("heard")
      /\ Held("audioQ")' = Held("audioQ") /\ Held("failed")' = Held("failed")
      /\ Held("audioOut")' = Held("audioOut") /\ Held("ingress")' = Held("ingress")
      /\ Held("sender")' = Held("sender") /\ Held("link")' = Held("link")
      /\ Held("wire")' = Held("wire") /\ Held("audio")' = Held("audio")
      /\ Held("quiet")' = Held("quiet") /\ Held("late")' = Held("late") /\ Held("torn")' = Held("torn")
      /\ Held("pending")' = Held("pending")
      /\ Held("stage")' = Held("stage")
  BY <1>2, <1>5 DEF HeldTable
<1>7. \A x \in Media : /\ x \in Held("videoStream")' <=> x \in Held("videoStream")
                       /\ x \in Held("audioStream")' <=> x \in Held("audioStream")
  <2>1. \A x \in Media : x # n
    BY <1>2 DEF Media
  <2> QED  BY <1>4, <1>5, <2>1 DEF HeldTable, Sockets
<1>8. Stays
  BY <1>6, <1>7 DEF Stays, Places, Counters
<1>9. n \notin Media'
  BY <1>2 DEF Texts, Media
<1> QED  BY <1>2, <1>8, <1>9, NewFate

LEMMA StampedFate ==
    ASSUME TypeInv, FateInv, Grows, NEW t \in Threads, Stamped(t)
    PROVE  FateInv'
<1>1. PICK n : n = NextFrame
  OBVIOUS
<1>2. /\ IsNew(n) /\ IdSet(ingress[t]) = {}
      /\ UNCHANGED <<pending, stage, out, stream, rxVars, drops>>
      /\ \/ /\ ingress' = [ingress EXCEPT ![t] = ingress'[t]] /\ IdSet(ingress'[t]) = {n}
            /\ failed' = failed
         \/ ingress' = ingress /\ failed' = failed \cup {n}
  BY <1>1 DEF Stamped
<1>3. HeldTable /\ HeldTable' /\ UNCHANGED <<seen, heard, audioQ>> /\ {"ingress", "failed"} \subseteq Places
  BY <1>2, HeldTables DEF rxVars, Places
<1>4. /\ Held("seen")' = Held("seen") /\ Held("videoStream")' = Held("videoStream")
      /\ Held("videoOut")' = Held("videoOut") /\ Held("heard")' = Held("heard")
      /\ Held("audioQ")' = Held("audioQ") /\ Held("audioStream")' = Held("audioStream")
      /\ Held("audioOut")' = Held("audioOut")
      /\ Held("sender")' = Held("sender") /\ Held("link")' = Held("link")
      /\ Held("wire")' = Held("wire") /\ Held("audio")' = Held("audio")
      /\ Held("quiet")' = Held("quiet") /\ Held("late")' = Held("late") /\ Held("torn")' = Held("torn")
      /\ Held("pending")' = Held("pending")
      /\ Held("stage")' = Held("stage")
  BY <1>2, <1>3 DEF HeldTable
<1>5. \A r \in Places : r \notin {"ingress", "failed"} => Held(r)' = Held(r)
  BY <1>4 DEF Places, Counters
<1>6. CASE /\ ingress' = [ingress EXCEPT ![t] = ingress'[t]] /\ IdSet(ingress'[t]) = {n}
           /\ failed' = failed
  <2>1. \A u \in Threads : u # t => ingress'[u] = ingress[u]
    BY <1>6 DEF TypeInv, OutInv
  <2>2. \A x : x \in Hands' <=> x \in Hands \/ x = n
    BY <1>2, <1>6, <2>1, HandsFacts
  <2>3. \A x : x \in Held("ingress")' <=> x \in Held("ingress") \/ x = n
    BY <1>3, <2>2 DEF HeldTable
  <2>4. Held("failed")' = Held("failed")
    BY <1>3, <1>6 DEF HeldTable
  <2>5. \A r \in Places : r # "ingress" => Held(r)' = Held(r)
    BY <1>5, <2>4
  <2>6. Stays /\ Settles(n, "ingress")
    BY <1>2, <1>3, <2>3, <2>5, NewSettles
  <2> QED  BY <1>2, <1>3, <2>6, NewFate
<1>7. CASE ingress' = ingress /\ failed' = failed \cup {n}
  <2>1. Held("ingress")' = Held("ingress")
    BY <1>3, <1>7, HandsFacts DEF HeldTable
  <2>2. \A x : x \in Held("failed")' <=> x \in Held("failed") \/ x = n
    BY <1>3, <1>7 DEF HeldTable
  <2>3. \A r \in Places : r # "failed" => Held(r)' = Held(r)
    BY <1>5, <2>1
  <2>4. Stays /\ Settles(n, "failed")
    BY <1>2, <1>3, <2>2, <2>3, NewSettles
  <2> QED  BY <1>2, <1>3, <2>4, NewFate
<1> QED  BY <1>2, <1>6, <1>7

\* A place whose variable does not change holds what it held.
HeldKept ==
    /\ seen' = seen => Held("seen")' = Held("seen")
    /\ heard' = heard => Held("heard")' = Held("heard")
    /\ audioQ' = audioQ => Held("audioQ")' = Held("audioQ")
    /\ stream'["video"] = stream["video"] => Held("videoStream")' = Held("videoStream")
    /\ stream'["audio"] = stream["audio"] => Held("audioStream")' = Held("audioStream")
    /\ out'["video"] = out["video"] => Held("videoOut")' = Held("videoOut")
    /\ out'["audio"] = out["audio"] => Held("audioOut")' = Held("audioOut")
    /\ ingress' = ingress => Held("ingress")' = Held("ingress")
    /\ failed' = failed => Held("failed")' = Held("failed")
    /\ pending' = pending => Held("pending")' = Held("pending")
    /\ stage' = stage => Held("stage")' = Held("stage")
    /\ drops'["sender"] = drops["sender"] => Held("sender")' = Held("sender")
    /\ drops'["link"] = drops["link"] => Held("link")' = Held("link")
    /\ drops'["wire"] = drops["wire"] => Held("wire")' = Held("wire")
    /\ drops'["audio"] = drops["audio"] => Held("audio")' = Held("audio")
    /\ drops'["quiet"] = drops["quiet"] => Held("quiet")' = Held("quiet")
    /\ drops'["late"] = drops["late"] => Held("late")' = Held("late")
    /\ drops'["torn"] = drops["torn"] => Held("torn")' = Held("torn")

LEMMA WhatIsKept == HeldKept
<1>1. HeldTable /\ HeldTable'
  BY HeldTables
<1>2. ingress' = ingress => Held("ingress")' = Held("ingress")
  BY <1>1, HandsFacts DEF HeldTable
<1> QED  BY <1>1, <1>2 DEF HeldTable, HeldKept

\* One counter takes frames, the others keep what they have.
LEMMA CounterTakes ==
    ASSUME TypeInv, NEW S, NEW c \in Counters, drops' = [drops EXCEPT ![c] = @ \cup S]
    PROVE  /\ \A x : x \in Held(c)' <=> x \in Held(c) \/ x \in S
           /\ \A b \in Counters : b # c => Held(b)' = Held(b)
<1>1. drops'[c] = drops[c] \cup S /\ \A b \in Counters : b # c => drops'[b] = drops[b]
  BY DropsFacts
<1>2. \A b \in Counters : Held(b) = drops[b] /\ Held(b)' = drops'[b]
  BY HeldTables DEF HeldTable, Counters
<1> QED  BY <1>1, <1>2

\* A frame leaves one place for another.
LEMMA OneMoves ==
    ASSUME TypeInv, NEW f, NEW p \in Places, NEW q \in Places, p # q, f \in Held(p),
           \A x : x \in Held(p)' <=> x \in Held(p) /\ x # f,
           \A x : x \in Held(q)' <=> x \in Held(q) \/ x = f,
           \A r \in Places : r # p /\ r # q => Held(r)' = Held(r)
    PROVE  Relocates({f}, p, q)
BY DEF Relocates

\* A text leaves a socket: no frame of the others moves.
LEMMA TextMoves ==
    ASSUME TypeInv, NEW f \in Texts, NEW p \in Places,
           \A x : x \in Held(p)' <=> x \in Held(p) /\ x # f,
           \A r \in Places : r # p => \A x : x # f => (x \in Held(r)' <=> x \in Held(r))
    PROVE  Stays
<1>1. f \notin Media
  BY DEF Texts, Media
<1> QED  BY <1>1 DEF Stays

LEMMA AudioQueuedFate ==
    ASSUME TypeInv, FateInv, ThreadInv, TypeInv', Grows,
           NEW t \in Threads, NEW f \in Audio, AudioQueued(t, f)
    PROVE  FateInv'
<1>1. /\ IdSet(ingress[t]) = {f} /\ IdSet(ingress'[t]) = {} /\ Shipped("audio", f)
      /\ UNCHANGED <<given, by, pending, stage, stream, seen, heard, audioQ, failed>>
  BY DEF AudioQueued, rxVars
<1>2. f \in Nat /\ "audio" \in Sockets /\ CounterOf("audio") = "quiet" /\ "quiet" \in Counters
      /\ {"ingress", "audioOut", "quiet"} \subseteq Places
  BY GivenFacts DEF TypeInv, Sockets, CounterOf, Counters, Places
<1>3. /\ out'["video"] = out["video"]
      /\ \/ IdSet(out'["audio"]) = IdSet(out["audio"]) \cup {f} /\ drops' = drops
         \/ out' = out /\ drops' = [drops EXCEPT !["quiet"] = @ \cup {f}]
  <2>1. "video" \in Sockets /\ "video" # "audio"
    BY DEF Sockets
  <2> QED  BY <1>1, <1>2, <2>1, ShippedSets
<1>4. \A u \in Threads : u # t => ingress'[u] = ingress[u] /\ f \notin IdSet(ingress[u])
  <2>1. \A u \in Threads : u # t => ingress'[u] = ingress[u]
    BY DEF AudioQueued, TypeInv, OutInv
  <2>2. by[f] = t
    BY <1>1 DEF ThreadInv
  <2>3. \A u \in Threads : u # t => f \notin IdSet(ingress[u])
    BY <2>2 DEF ThreadInv
  <2> QED  BY <2>1, <2>3
<1>5. HeldTable /\ HeldTable' /\ HeldKept
  BY HeldTables, WhatIsKept
<1>6. f \in Held("ingress") /\ \A x : x \in Held("ingress")' <=> x \in Held("ingress") /\ x # f
  <2>1. f \in Hands /\ \A x : x \in Hands' <=> x \in Hands /\ x # f
    BY <1>1, <1>4, HandsFacts
  <2> QED  BY <1>5, <2>1 DEF HeldTable
<1>7. CASE IdSet(out'["audio"]) = IdSet(out["audio"]) \cup {f} /\ drops' = drops
  <2>1. \A x : x \in Held("audioOut")' <=> x \in Held("audioOut") \/ x = f
    BY <1>5, <1>7 DEF HeldTable
  <2>2. \A r \in Places : r # "ingress" /\ r # "audioOut" => Held(r)' = Held(r)
    BY <1>1, <1>3, <1>5, <1>7 DEF HeldKept, Places, Counters
  <2>3. Relocates({f}, "ingress", "audioOut")
    BY <1>2, <1>6, <2>1, <2>2, OneMoves
  <2> QED  BY <1>1, <2>3, OldFate
<1>8. CASE out' = out /\ drops' = [drops EXCEPT !["quiet"] = @ \cup {f}]
  <2>1. /\ \A x : x \in Held("quiet")' <=> x \in Held("quiet") \/ x = f
        /\ \A b \in Counters : b # "quiet" => Held(b)' = Held(b)
    <3>1. PICK S : S = {f}
      OBVIOUS
    <3>2. drops' = [drops EXCEPT !["quiet"] = @ \cup S] /\ "quiet" \in Counters
      BY <1>2, <1>8, <3>1
    <3>3. /\ \A x : x \in Held("quiet")' <=> x \in Held("quiet") \/ x \in S
          /\ \A b \in Counters : b # "quiet" => Held(b)' = Held(b)
      BY <3>2, CounterTakes
    <3> QED  BY <3>1, <3>3
  <2>2. \A r \in Places : r # "ingress" /\ r # "quiet" => Held(r)' = Held(r)
    BY <1>1, <1>5, <1>8, <2>1 DEF HeldKept, Places, Counters
  <2>3. Relocates({f}, "ingress", "quiet")
    BY <1>2, <1>6, <2>1, <2>2, OneMoves
  <2> QED  BY <1>1, <2>3, OldFate
<1> QED  BY <1>3, <1>7, <1>8

\* The places of a socket's queue and of its stream.
OutPlace(k) == IF k = "video" THEN "videoOut" ELSE "audioOut"
StreamPlace(k) == IF k = "video" THEN "videoStream" ELSE "audioStream"

LEMMA SocketPlaces ==
    /\ \A k \in Sockets : /\ Held(OutPlace(k)) = IdSet(out[k]) /\ Held(OutPlace(k))' = IdSet(out'[k])
                          /\ Held(StreamPlace(k)) = IdSet(stream[k])
                          /\ Held(StreamPlace(k))' = IdSet(stream'[k])
                          /\ OutPlace(k) \in Places /\ StreamPlace(k) \in Places
                          /\ OutPlace(k) # StreamPlace(k)
                          /\ OutPlace(k) \notin Counters /\ StreamPlace(k) \notin Counters
<1>1. HeldTable /\ HeldTable'
  BY HeldTables
<1>2. /\ OutPlace("video") = "videoOut" /\ OutPlace("audio") = "audioOut"
      /\ StreamPlace("video") = "videoStream" /\ StreamPlace("audio") = "audioStream"
  BY DEF OutPlace, StreamPlace
<1>3. \A k \in Sockets : k = "video" \/ k = "audio"
  BY DEF Sockets
<1> QED  BY <1>1, <1>2, <1>3 DEF HeldTable, Places, Counters

LEMMA WrittenFate ==
    ASSUME TypeInv, OrderInv, FateInv, TypeInv', Grows, NEW k \in Sockets, Written(k)
    PROVE  FateInv'
<1>1. PICK f : f = Head(Ids(out[k]))
  OBVIOUS
<1>2. /\ Ids(out[k]) # <<>> /\ Ids(out'[k]) = Tail(Ids(out[k]))
      /\ \/ /\ Ids(stream'[k]) = Append(Ids(stream[k]), f) /\ drops' = drops
         \/ /\ stream' = stream
            /\ \E c \in {"link", "late", "torn"} : drops' = [drops EXCEPT ![c] = @ \cup {f}]
      /\ UNCHANGED <<given, by, pending, stage, ingress, seen, heard, audioQ, failed>>
  BY <1>1 DEF Written, rxVars
<1>3. \A j \in Sockets : j # k => out'[j] = out[j] /\ stream'[j] = stream[j]
  BY DEF Written, TypeInv, OutInv, StreamInv
<1>4. Lines /\ Contents
  BY LineFacts
<1>5. Contents'
  BY LineFacts, PTL
<1>6. f \in IdSet(out[k]) /\ IdSet(out'[k]) = IdSet(out[k]) \ {f} /\ f \in Nat
  <2>1. /\ Ids(out[k]) \in Seq(Nat) /\ Members(Ids(out[k])) = IdSet(out[k])
        /\ Members(Ids(out'[k])) = IdSet(out'[k])
    BY <1>4, <1>5 DEF Lines, Contents
  <2>2. /\ \A x : <<x, x>> \notin VideoRel /\ <<x, x>> \notin AudioRel
        /\ Sorted(Ids(out[k]), VideoRel) \/ Sorted(Ids(out[k]), AudioRel)
    BY NoFrameTwice DEF Sockets
  <2> QED  BY <1>1, <1>2, <2>1, <2>2, TakeSets
<1>7. HeldKept
  BY WhatIsKept
<1>8. /\ Held(OutPlace(k)) = IdSet(out[k]) /\ Held(OutPlace(k))' = IdSet(out'[k])
      /\ Held(StreamPlace(k)) = IdSet(stream[k]) /\ Held(StreamPlace(k))' = IdSet(stream'[k])
      /\ OutPlace(k) \in Places /\ StreamPlace(k) \in Places
      /\ OutPlace(k) # StreamPlace(k) /\ OutPlace(k) \notin Counters
  BY SocketPlaces
<1>9. f \in Held(OutPlace(k)) /\ \A x : x \in Held(OutPlace(k))' <=> x \in Held(OutPlace(k)) /\ x # f
  BY <1>6, <1>8
<1>10. CASE Ids(stream'[k]) = Append(Ids(stream[k]), f) /\ drops' = drops
  <2>1. IdSet(stream'[k]) = IdSet(stream[k]) \cup {f}
    <3>1. /\ Ids(stream[k]) \in Seq(Nat) /\ Members(Ids(stream[k])) = IdSet(stream[k])
          /\ Members(Ids(stream'[k])) = IdSet(stream'[k])
      BY <1>4, <1>5 DEF Lines, Contents
    <3> QED  BY <1>6, <1>10, <3>1, JoinSets
  <2>2. \A x : x \in Held(StreamPlace(k))' <=> x \in Held(StreamPlace(k)) \/ x = f
    BY <1>8, <2>1
  <2>3. \A r \in Places : r # OutPlace(k) /\ r # StreamPlace(k) => Held(r)' = Held(r)
    BY <1>2, <1>3, <1>7, <1>10 DEF HeldKept, Places, Counters, OutPlace, StreamPlace, Sockets
  <2>4. Relocates({f}, OutPlace(k), StreamPlace(k))
    BY <1>8, <1>9, <2>2, <2>3, OneMoves
  <2> QED  BY <1>2, <2>4, OldFate
<1>11. ASSUME stream' = stream, NEW c \in {"link", "late", "torn"},
              drops' = [drops EXCEPT ![c] = @ \cup {f}]
       PROVE  FateInv'
  <2>1. c \in Counters /\ c \in Places
    BY DEF Counters, Places
  <2>2. /\ \A x : x \in Held(c)' <=> x \in Held(c) \/ x = f
        /\ \A b \in Counters : b # c => Held(b)' = Held(b)
    BY <1>11, <2>1, CounterTakes
  <2>3. \A r \in Places : r # OutPlace(k) /\ r # c => Held(r)' = Held(r)
    BY <1>2, <1>3, <1>7, <1>11, <2>2 DEF HeldKept, Places, OutPlace, Sockets
  <2>4. c # OutPlace(k)
    BY <1>8, <2>1
  <2>5. Relocates({f}, OutPlace(k), c)
    BY <1>8, <1>9, <2>1, <2>2, <2>3, <2>4, OneMoves
  <2> QED  BY <1>2, <2>5, OldFate
<1> QED  BY <1>2, <1>10, <1>11

LEMMA GoneFate ==
    ASSUME TypeInv, FateInv, Grows, NEW k \in Sockets, Gone(k)
    PROVE  FateInv'
<1>1. PICK F : F = IdSet(stream[k])
  OBVIOUS
<1>2. /\ drops' = [drops EXCEPT !["link"] = @ \cup F]
      /\ UNCHANGED <<given, by, pending, stage, ingress, out, seen, heard, audioQ, failed>>
  BY <1>1 DEF Gone, rxVars
<1>3. stream'[k] = <<>> /\ \A j \in Sockets : j # k => stream'[j] = stream[j]
  BY DEF Gone, TypeInv, StreamInv
<1>4. IdSet(<<>>) = {}
  BY DEF IdSet
<1>5. /\ Held(StreamPlace(k)) = F /\ Held(StreamPlace(k))' = {}
      /\ StreamPlace(k) \in Places /\ StreamPlace(k) \notin Counters
  BY <1>1, <1>3, <1>4, SocketPlaces
<1>6. "link" \in Counters /\ "link" \in Places
  BY DEF Counters, Places
<1>7. /\ \A x : x \in Held("link")' <=> x \in Held("link") \/ x \in F
      /\ \A b \in Counters : b # "link" => Held(b)' = Held(b)
  BY <1>2, <1>6, CounterTakes
<1>8. HeldKept
  BY WhatIsKept
<1>9. \A r \in Places : r # StreamPlace(k) /\ r # "link" => Held(r)' = Held(r)
  BY <1>2, <1>3, <1>7, <1>8 DEF HeldKept, Places, StreamPlace, Sockets
<1>10. Relocates(F, StreamPlace(k), "link")
  BY <1>5, <1>6, <1>7, <1>9 DEF Relocates
<1> QED  BY <1>2, <1>10, OldFate

LEMMA VideoReadFate ==
    ASSUME TypeInv, OrderInv, FateInv, TypeInv', Grows, VideoRead
    PROVE  FateInv'
<1>1. PICK f : f = Head(Ids(stream["video"]))
  OBVIOUS
<1>2. /\ Ids(stream["video"]) # <<>> /\ Ids(stream'["video"]) = Tail(Ids(stream["video"]))
      /\ \/ f \in Video /\ Ids(seen') = Append(Ids(seen), f) /\ UNCHANGED <<metaQ, drops>>
         \/ f \in Video /\ drops' = [drops EXCEPT !["wire"] = @ \cup {f}] /\ UNCHANGED <<seen, metaQ>>
         \/ f \in Texts /\ UNCHANGED <<seen, drops>>
         \/ f \in Texts /\ drops' = [drops EXCEPT !["quiet"] = @ \cup {f}] /\ UNCHANGED seen
      /\ UNCHANGED <<given, by, pending, stage, ingress, out, audioQ, heard, failed>>
  BY <1>1 DEF VideoRead
<1>3. stream'["audio"] = stream["audio"]
  BY DEF VideoRead, TypeInv, StreamInv, Sockets
<1>4. Lines /\ Contents /\ "video" \in Sockets
  BY LineFacts DEF Sockets
<1>5. Contents'
  BY LineFacts, PTL
<1>6. HeldTable /\ HeldTable' /\ HeldKept
  BY HeldTables, WhatIsKept
<1>7. /\ f \in IdSet(stream["video"]) /\ IdSet(stream'["video"]) = IdSet(stream["video"]) \ {f}
      /\ f \in Nat
  <2>1. /\ Ids(stream["video"]) \in Seq(Nat)
        /\ Members(Ids(stream["video"])) = IdSet(stream["video"])
        /\ Members(Ids(stream'["video"])) = IdSet(stream'["video"])
    BY <1>4, <1>5 DEF Lines, Contents
  <2>2. (\A x : <<x, x>> \notin VideoRel) /\ Sorted(Ids(stream["video"]), VideoRel)
    BY NoFrameTwice
  <2> QED  BY <1>1, <1>2, <2>1, <2>2, TakeSets
<1>8. /\ f \in Held("videoStream")
      /\ \A x : x \in Held("videoStream")' <=> x \in Held("videoStream") /\ x # f
  BY <1>6, <1>7 DEF HeldTable
<1>9. /\ {"videoStream", "seen", "wire", "quiet"} \subseteq Places
      /\ "wire" \in Counters /\ "quiet" \in Counters
  BY DEF Places, Counters
<1>10. PICK S : S = {f}
  OBVIOUS
<1>11. CASE Ids(seen') = Append(Ids(seen), f) /\ UNCHANGED drops
  <2>1. IdSet(seen') = IdSet(seen) \cup {f}
    <3>1. /\ Ids(seen) \in Seq(Nat) /\ Members(Ids(seen)) = IdSet(seen)
          /\ Members(Ids(seen')) = IdSet(seen')
      BY <1>4, <1>5 DEF Lines, Contents
    <3> QED  BY <1>7, <1>11, <3>1, JoinSets
  <2>2. \A x : x \in Held("seen")' <=> x \in Held("seen") \/ x = f
    BY <1>6, <2>1 DEF HeldTable
  <2>3. \A r \in Places : r # "videoStream" /\ r # "seen" => Held(r)' = Held(r)
    BY <1>2, <1>3, <1>6, <1>11 DEF HeldKept, Places, Counters
  <2>4. Relocates({f}, "videoStream", "seen")
    BY <1>8, <1>9, <2>2, <2>3, OneMoves
  <2> QED  BY <1>2, <2>4, OldFate
<1>12. CASE drops' = [drops EXCEPT !["wire"] = @ \cup {f}] /\ UNCHANGED seen
  <2>1. drops' = [drops EXCEPT !["wire"] = @ \cup S]
    BY <1>10, <1>12
  <2>2. /\ \A x : x \in Held("wire")' <=> x \in Held("wire") \/ x \in S
        /\ \A b \in Counters : b # "wire" => Held(b)' = Held(b)
    BY <1>9, <2>1, CounterTakes
  <2>3. \A x : x \in Held("wire")' <=> x \in Held("wire") \/ x = f
    BY <1>10, <2>2
  <2>4. \A r \in Places : r # "videoStream" /\ r # "wire" => Held(r)' = Held(r)
    BY <1>2, <1>3, <1>6, <1>12, <2>2 DEF HeldKept, Places
  <2>5. Relocates({f}, "videoStream", "wire")
    BY <1>8, <1>9, <2>3, <2>4, OneMoves
  <2> QED  BY <1>2, <2>5, OldFate
<1>13. CASE f \in Texts /\ UNCHANGED <<seen, drops>>
  <2>1. \A r \in Places : r # "videoStream" => Held(r)' = Held(r)
    BY <1>2, <1>3, <1>6, <1>13 DEF HeldKept, Places, Counters
  <2>2. \A r \in Places : r # "videoStream" => \A x : x # f => (x \in Held(r)' <=> x \in Held(r))
    BY <2>1
  <2>3. Stays
    BY <1>8, <1>9, <1>13, <2>2, TextMoves
  <2> QED  BY <1>2, <2>3, OldFate
<1>14. CASE f \in Texts /\ drops' = [drops EXCEPT !["quiet"] = @ \cup {f}] /\ UNCHANGED seen
  <2>1. drops' = [drops EXCEPT !["quiet"] = @ \cup S]
    BY <1>10, <1>14
  <2>2. /\ \A x : x \in Held("quiet")' <=> x \in Held("quiet") \/ x \in S
        /\ \A b \in Counters : b # "quiet" => Held(b)' = Held(b)
    BY <1>9, <2>1, CounterTakes
  <2>3. \A r \in Places : r # "videoStream" /\ r # "quiet" => Held(r)' = Held(r)
    BY <1>2, <1>3, <1>6, <1>14, <2>2 DEF HeldKept, Places
  <2>4. \A r \in Places : r # "videoStream" => \A x : x # f => (x \in Held(r)' <=> x \in Held(r))
    BY <1>10, <2>2, <2>3
  <2>5. Stays
    BY <1>8, <1>9, <1>14, <2>4, TextMoves
  <2> QED  BY <1>2, <2>5, OldFate
<1> QED  BY <1>2, <1>11, <1>12, <1>13, <1>14

LEMMA AudioReadFate ==
    ASSUME TypeInv, OrderInv, FateInv, TypeInv', Grows, AudioRead
    PROVE  FateInv'
<1>1. PICK f : f = Head(Ids(stream["audio"]))
  OBVIOUS
<1>2. /\ Ids(stream["audio"]) # <<>> /\ Ids(stream'["audio"]) = Tail(Ids(stream["audio"]))
      /\ \/ Ids(audioQ') = Append(Ids(audioQ), f) /\ drops' = drops
         \/ drops' = [drops EXCEPT !["audio"] = @ \cup {f}] /\ audioQ' = audioQ
      /\ UNCHANGED <<given, by, pending, stage, ingress, out, seen, heard, failed>>
  BY <1>1 DEF AudioRead
<1>3. stream'["video"] = stream["video"]
  BY DEF AudioRead, TypeInv, StreamInv, Sockets
<1>4. Lines /\ Contents /\ "audio" \in Sockets
  BY LineFacts DEF Sockets
<1>5. Contents'
  BY LineFacts, PTL
<1>6. HeldTable /\ HeldTable' /\ HeldKept
  BY HeldTables, WhatIsKept
<1>7. /\ f \in IdSet(stream["audio"]) /\ IdSet(stream'["audio"]) = IdSet(stream["audio"]) \ {f}
      /\ f \in Nat
  <2>1. /\ Ids(stream["audio"]) \in Seq(Nat)
        /\ Members(Ids(stream["audio"])) = IdSet(stream["audio"])
        /\ Members(Ids(stream'["audio"])) = IdSet(stream'["audio"])
    BY <1>4, <1>5 DEF Lines, Contents
  <2>2. (\A x : <<x, x>> \notin AudioRel) /\ Sorted(Ids(stream["audio"]), AudioRel)
    BY NoFrameTwice
  <2> QED  BY <1>1, <1>2, <2>1, <2>2, TakeSets
<1>8. /\ f \in Held("audioStream")
      /\ \A x : x \in Held("audioStream")' <=> x \in Held("audioStream") /\ x # f
  BY <1>6, <1>7 DEF HeldTable
<1>9. {"audioStream", "audioQ", "audio"} \subseteq Places /\ "audio" \in Counters
  BY DEF Places, Counters
<1>10. PICK S : S = {f}
  OBVIOUS
<1>11. CASE Ids(audioQ') = Append(Ids(audioQ), f) /\ drops' = drops
  <2>1. IdSet(audioQ') = IdSet(audioQ) \cup {f}
    <3>1. /\ Ids(audioQ) \in Seq(Nat) /\ Members(Ids(audioQ)) = IdSet(audioQ)
          /\ Members(Ids(audioQ')) = IdSet(audioQ')
      BY <1>4, <1>5 DEF Lines, Contents
    <3> QED  BY <1>7, <1>11, <3>1, JoinSets
  <2>2. \A x : x \in Held("audioQ")' <=> x \in Held("audioQ") \/ x = f
    BY <1>6, <2>1 DEF HeldTable
  <2>3. \A r \in Places : r # "audioStream" /\ r # "audioQ" => Held(r)' = Held(r)
    BY <1>2, <1>3, <1>6, <1>11 DEF HeldKept, Places, Counters
  <2>4. Relocates({f}, "audioStream", "audioQ")
    BY <1>8, <1>9, <2>2, <2>3, OneMoves
  <2> QED  BY <1>2, <2>4, OldFate
<1>12. CASE drops' = [drops EXCEPT !["audio"] = @ \cup {f}] /\ audioQ' = audioQ
  <2>1. drops' = [drops EXCEPT !["audio"] = @ \cup S]
    BY <1>10, <1>12
  <2>2. /\ \A x : x \in Held("audio")' <=> x \in Held("audio") \/ x \in S
        /\ \A b \in Counters : b # "audio" => Held(b)' = Held(b)
    BY <1>9, <2>1, CounterTakes
  <2>3. \A x : x \in Held("audio")' <=> x \in Held("audio") \/ x = f
    BY <1>10, <2>2
  <2>4. \A r \in Places : r # "audioStream" /\ r # "audio" => Held(r)' = Held(r)
    BY <1>2, <1>3, <1>6, <1>12, <2>2 DEF HeldKept, Places
  <2>5. Relocates({f}, "audioStream", "audio")
    BY <1>8, <1>9, <2>3, <2>4, OneMoves
  <2> QED  BY <1>2, <2>5, OldFate
<1> QED  BY <1>2, <1>11, <1>12

LEMMA HeardFate ==
    ASSUME TypeInv, OrderInv, FateInv, TypeInv', Grows, Heard
    PROVE  FateInv'
<1>1. PICK f : f = Head(Ids(audioQ))
  OBVIOUS
<1>2. /\ Ids(audioQ) # <<>> /\ Ids(audioQ') = Tail(Ids(audioQ)) /\ Ids(heard') = Append(Ids(heard), f)
      /\ UNCHANGED <<given, by, pending, stage, ingress, out, stream, seen, drops, failed>>
  BY <1>1 DEF Heard
<1>3. Lines /\ Contents
  BY LineFacts
<1>4. Contents'
  BY LineFacts, PTL
<1>5. HeldTable /\ HeldTable' /\ HeldKept
  BY HeldTables, WhatIsKept
<1>6. /\ Ids(audioQ) \in Seq(Nat) /\ Members(Ids(audioQ)) = IdSet(audioQ)
      /\ Members(Ids(audioQ')) = IdSet(audioQ') /\ Ids(heard) \in Seq(Nat)
      /\ Members(Ids(heard)) = IdSet(heard) /\ Members(Ids(heard')) = IdSet(heard')
  BY <1>3, <1>4 DEF Lines, Contents
<1>7. f \in IdSet(audioQ) /\ IdSet(audioQ') = IdSet(audioQ) \ {f} /\ f \in Nat
  <2>1. (\A x : <<x, x>> \notin AudioRel) /\ Sorted(Ids(audioQ), AudioRel)
    BY NoFrameTwice
  <2> QED  BY <1>1, <1>2, <1>6, <2>1, TakeSets
<1>8. IdSet(heard') = IdSet(heard) \cup {f}
  BY <1>2, <1>6, <1>7, JoinSets
<1>9. /\ f \in Held("audioQ") /\ \A x : x \in Held("audioQ")' <=> x \in Held("audioQ") /\ x # f
      /\ \A x : x \in Held("heard")' <=> x \in Held("heard") \/ x = f
  BY <1>5, <1>7, <1>8 DEF HeldTable
<1>10. \A r \in Places : r # "audioQ" /\ r # "heard" => Held(r)' = Held(r)
  BY <1>2, <1>5 DEF HeldKept, Places, Counters
<1>11. "audioQ" \in Places /\ "heard" \in Places
  BY DEF Places
<1>12. Relocates({f}, "audioQ", "heard")
  BY <1>9, <1>10, <1>11, OneMoves
<1> QED  BY <1>2, <1>12, OldFate

LEMMA FateStep ==
    ASSUME TypeInv, OrderInv, FateInv, ThreadInv, TypeInv', Grows, Effect
    PROVE  FateInv'
<1>1. CASE VideoCalled \/ TextureCalled \/ Submitted \/ Flushed
  BY <1>1, VideoCalledFate, TextureCalledFate, SubmittedFate, FlushedFate
<1>2. CASE Texted
  BY <1>2, TextedFate
<1>3. ASSUME NEW t \in Threads, Stamped(t) PROVE FateInv'
  BY <1>3, StampedFate
<1>4. ASSUME NEW t \in Threads, NEW f \in Audio, AudioQueued(t, f) PROVE FateInv'
  BY <1>4, AudioQueuedFate
<1>5. ASSUME NEW k \in Sockets, Written(k) \/ Gone(k) PROVE FateInv'
  BY <1>5, WrittenFate, GoneFate
<1>6. CASE VideoRead \/ AudioRead \/ Heard
  BY <1>6, VideoReadFate, AudioReadFate, HeardFate
<1>7. CASE MetaRead \/ Idle
  <2>1. UNCHANGED <<given, by, pending, stage, ingress, out, stream, seen, audioQ, heard, drops, failed>>
    BY <1>7 DEF MetaRead, Idle, rxVars
  <2>2. HeldKept
    BY WhatIsKept
  <2>3. \A r \in Places : Held(r)' = Held(r)
    BY <2>1, <2>2 DEF HeldKept, Places, Counters
  <2>4. Stays
    BY <2>3 DEF Stays
  <2> QED  BY <2>1, <2>4, OldFate
<1> QED  BY <1>1, <1>2, <1>3, <1>4, <1>5, <1>6, <1>7 DEF Effect

-----------------------------------------------------------------------------
(* Audio threads keep the order of their own frames. *)

\* No audio frame gets on its way, and no thread gets one.
Passive ==
    /\ \A t \in Threads : IdSet(ingress'[t]) \subseteq IdSet(ingress[t])
    /\ \A y \in AudioOn' : y \in AudioOn \/ y \notin Media'

LEMMA OnItsWay ==
    /\ \A x : x \in AudioOn <=> \/ x \in IdSet(heard) \/ x \in IdSet(audioQ)
                                \/ x \in IdSet(stream["audio"]) \/ x \in IdSet(out["audio"])
    /\ \A x : x \in AudioOn' <=> \/ x \in IdSet(heard') \/ x \in IdSet(audioQ')
                                 \/ x \in IdSet(stream'["audio"]) \/ x \in IdSet(out'["audio"])
<1>1. \A x : x \in AudioOn <=> \/ x \in IdSet(heard) \/ x \in IdSet(audioQ)
                               \/ x \in IdSet(stream["audio"]) \/ x \in IdSet(out["audio"])
  BY DEF AudioOn
<1>2. \A x : x \in AudioOn' <=> \/ x \in IdSet(heard') \/ x \in IdSet(audioQ')
                                \/ x \in IdSet(stream'["audio"]) \/ x \in IdSet(out'["audio"])
  BY DEF AudioOn
<1> QED  BY <1>1, <1>2

\* A frame that is somewhere was given before, and is of the kind and the thread it was.
LEMMA OldFrames ==
    ASSUME TypeInv, Grows
    PROVE  /\ AudioOn \subseteq Frames /\ Frames \subseteq Nat
           /\ \A t \in Threads : IdSet(ingress[t]) \subseteq Frames
           /\ \A f \in Frames : (f \in Media' <=> f \in Media) /\ by'[f] = by[f]
<1>1. Residents /\ Audio \subseteq Frames /\ Texts \subseteq Frames /\ Frames \subseteq Nat
  BY ResidentFacts, GivenFacts DEF TypeInv
<1>2. AudioOn \subseteq Frames
  BY <1>1, OnItsWay DEF Residents
<1>3. \A t \in Threads : IdSet(ingress[t]) \subseteq Frames
  BY <1>1 DEF Residents
<1>4. \A f \in Frames : (f \in Media' <=> f \in Media) /\ by'[f] = by[f]
  BY Growth DEF GrowsKinds, Grows
<1> QED  BY <1>1, <1>2, <1>3, <1>4

LEMMA ThreadKept ==
    ASSUME TypeInv, ThreadInv, Grows, Passive
    PROVE  ThreadInv'
<1>1. ASSUME NEW t \in Threads, NEW f \in IdSet(ingress'[t])
      PROVE  f \in Media' /\ by'[f] = t /\ \A y \in AudioOn' : y \in Media' /\ by'[y] = t => y < f
  <2>1. f \in IdSet(ingress[t]) /\ f \in Frames
    BY <1>1, OldFrames DEF Passive
  <2>2. f \in Media /\ by[f] = t /\ \A y \in AudioOn : y \in Media /\ by[y] = t => y < f
    BY <2>1 DEF ThreadInv
  <2>3. f \in Media' /\ by'[f] = t
    BY <2>1, <2>2, OldFrames
  <2>4. ASSUME NEW y \in AudioOn', y \in Media', by'[y] = t PROVE y < f
    <3>1. y \in AudioOn /\ y \in Frames
      BY <2>4, OldFrames DEF Passive
    <3>2. y \in Media /\ by[y] = t
      BY <2>4, <3>1, OldFrames
    <3> QED  BY <2>2, <3>1, <3>2
  <2> QED  BY <2>3, <2>4
<1> QED  BY <1>1 DEF ThreadInv

\* The first frame of a queue leaves it.
LEMMA TakeSubset ==
    ASSUME NEW s, NEW s2, Ids(s) \in Seq(Nat), Ids(s) # <<>>, Ids(s2) = Tail(Ids(s)),
           Members(Ids(s)) = IdSet(s), Members(Ids(s2)) = IdSet(s2)
    PROVE  Head(Ids(s)) \in IdSet(s) /\ IdSet(s2) \subseteq IdSet(s) /\ Head(Ids(s)) \in Nat
<1>1. /\ Head(Ids(s)) \in Members(Ids(s))
      /\ Members(Ids(s)) = Members(Tail(Ids(s))) \cup {Head(Ids(s))} /\ Head(Ids(s)) \in Nat
  BY MembersFacts
<1> QED  BY <1>1

LEMMA PassiveSteps ==
    ASSUME TypeInv, TypeInv', Grows,
           \/ VideoCalled \/ TextureCalled \/ Submitted \/ Flushed \/ Texted
           \/ \E k \in Sockets : Written(k) \/ Gone(k)
           \/ VideoRead \/ AudioRead \/ Heard \/ MetaRead \/ Idle
    PROVE  Passive
<1>1. Lines /\ Contents /\ "audio" \in Sockets /\ "video" \in Sockets
  BY LineFacts DEF Sockets
<1>2. Contents'
  BY LineFacts, PTL
<1>3. ingress' = ingress
  BY DEF VideoCalled, TextureCalled, Submitted, Flushed, Texted, Written, Gone, VideoRead, AudioRead,
         Heard, MetaRead, Idle
<1>4. ASSUME \A y : y \in AudioOn' => y \in AudioOn \/ y \notin Media' PROVE Passive
  BY <1>3, <1>4 DEF Passive
<1>5. ASSUME NEW f, Shipped("video", f) PROVE out'["audio"] = out["audio"]
  BY <1>5 DEF Shipped, Queued, Lost, TypeInv, OutInv, Sockets
<1>6. CASE VideoCalled \/ TextureCalled \/ Submitted \/ Flushed \/ MetaRead \/ Idle
  <2>1. out'["audio"] = out["audio"] /\ UNCHANGED <<heard, audioQ, stream>>
    BY <1>5, <1>6 DEF VideoCalled, TextureCalled, Submitted, Flushed, MetaRead, Idle, rxVars
  <2> QED  BY <1>4, <2>1, OnItsWay
<1>7. CASE Texted
  <2>1. PICK n : n = NextFrame
    OBVIOUS
  <2>2. /\ n \in Texts' /\ n \in Nat /\ UNCHANGED <<heard, audioQ, out>>
        /\ \/ stream'["audio"] = stream["audio"]
           \/ Ids(stream'["audio"]) = Append(Ids(stream["audio"]), n)
    BY <1>1, <1>7, <2>1 DEF Texted, IsNew, rxVars
  <2>3. n \notin Media'
    BY <2>2 DEF Texts, Media
  <2>4. \A y \in IdSet(stream'["audio"]) : y \in IdSet(stream["audio"]) \/ y = n
    <3>1. /\ Ids(stream["audio"]) \in Seq(Nat)
          /\ Members(Ids(stream["audio"])) = IdSet(stream["audio"])
          /\ Members(Ids(stream'["audio"])) = IdSet(stream'["audio"])
      BY <1>1, <1>2 DEF Lines, Contents
    <3>2. CASE Ids(stream'["audio"]) = Append(Ids(stream["audio"]), n)
      <4>1. IdSet(stream'["audio"]) = IdSet(stream["audio"]) \cup {n}
        BY <2>2, <3>1, <3>2, JoinSets
      <4> QED  BY <4>1
    <3> QED  BY <2>2, <3>2
  <2> QED  BY <1>4, <2>2, <2>3, <2>4, OnItsWay
<1>8. ASSUME NEW k \in Sockets, Written(k) PROVE Passive
  <2>1. PICK f : f = Head(Ids(out[k]))
    OBVIOUS
  <2>2. /\ Ids(out[k]) # <<>> /\ Ids(out'[k]) = Tail(Ids(out[k]))
        /\ Ids(stream'[k]) = Append(Ids(stream[k]), f) \/ stream' = stream
        /\ UNCHANGED <<heard, audioQ>>
    BY <1>8, <2>1 DEF Written, rxVars
  <2>3. \A j \in Sockets : j # k => out'[j] = out[j] /\ stream'[j] = stream[j]
    BY <1>8 DEF Written, TypeInv, OutInv, StreamInv
  <2>4. f \in IdSet(out[k]) /\ IdSet(out'[k]) \subseteq IdSet(out[k]) /\ f \in Nat
    <3>1. /\ Ids(out[k]) \in Seq(Nat) /\ Members(Ids(out[k])) = IdSet(out[k])
          /\ Members(Ids(out'[k])) = IdSet(out'[k])
      BY <1>1, <1>2 DEF Lines, Contents
    <3> QED  BY <2>1, <2>2, <3>1, TakeSubset
  <2>5. \A y \in IdSet(stream'[k]) : y \in IdSet(stream[k]) \/ y = f
    <3>1. /\ Ids(stream[k]) \in Seq(Nat) /\ Members(Ids(stream[k])) = IdSet(stream[k])
          /\ Members(Ids(stream'[k])) = IdSet(stream'[k])
      BY <1>1, <1>2 DEF Lines, Contents
    <3>2. CASE Ids(stream'[k]) = Append(Ids(stream[k]), f)
      <4>1. IdSet(stream'[k]) = IdSet(stream[k]) \cup {f}
        BY <2>4, <3>1, <3>2, JoinSets
      <4> QED  BY <4>1
    <3> QED  BY <2>2, <3>2
  <2>6. /\ IdSet(out'["audio"]) \subseteq IdSet(out["audio"])
        /\ \A y \in IdSet(stream'["audio"]) : y \in IdSet(stream["audio"]) \/ y \in IdSet(out["audio"])
    BY <1>1, <2>3, <2>4, <2>5
  <2> QED  BY <1>4, <2>2, <2>6, OnItsWay
<1>9. ASSUME NEW k \in Sockets, Gone(k) PROVE Passive
  <2>1. /\ UNCHANGED <<out, heard, audioQ>>
        /\ stream'["audio"] = stream["audio"] \/ stream'["audio"] = <<>>
    BY <1>1, <1>9 DEF Gone, rxVars, TypeInv, StreamInv
  <2>2. IdSet(<<>>) = {}
    BY DEF IdSet
  <2> QED  BY <1>4, <2>1, <2>2, OnItsWay
<1>10. CASE VideoRead
  <2>1. stream'["audio"] = stream["audio"] /\ UNCHANGED <<out, heard, audioQ>>
    BY <1>10 DEF VideoRead, TypeInv, StreamInv, Sockets
  <2> QED  BY <1>4, <2>1, OnItsWay
<1>11. CASE AudioRead
  <2>1. PICK f : f = Head(Ids(stream["audio"]))
    OBVIOUS
  <2>2. /\ Ids(stream["audio"]) # <<>> /\ Ids(stream'["audio"]) = Tail(Ids(stream["audio"]))
        /\ Ids(audioQ') = Append(Ids(audioQ), f) \/ audioQ' = audioQ
        /\ UNCHANGED <<out, heard>>
    BY <1>11, <2>1 DEF AudioRead
  <2>3. /\ Ids(stream["audio"]) \in Seq(Nat) /\ Ids(audioQ) \in Seq(Nat)
        /\ Members(Ids(stream["audio"])) = IdSet(stream["audio"])
        /\ Members(Ids(stream'["audio"])) = IdSet(stream'["audio"])
        /\ Members(Ids(audioQ)) = IdSet(audioQ) /\ Members(Ids(audioQ')) = IdSet(audioQ')
    BY <1>1, <1>2 DEF Lines, Contents
  <2>4. /\ f \in IdSet(stream["audio"]) /\ f \in Nat
        /\ IdSet(stream'["audio"]) \subseteq IdSet(stream["audio"])
    BY <2>1, <2>2, <2>3, TakeSubset
  <2>5. \A y \in IdSet(audioQ') : y \in IdSet(audioQ) \/ y = f
    <3>1. CASE Ids(audioQ') = Append(Ids(audioQ), f)
      <4>1. IdSet(audioQ') = IdSet(audioQ) \cup {f}
        BY <2>3, <2>4, <3>1, JoinSets
      <4> QED  BY <4>1
    <3> QED  BY <2>2, <3>1
  <2> QED  BY <1>4, <2>2, <2>4, <2>5, OnItsWay
<1>12. CASE Heard
  <2>1. PICK f : f = Head(Ids(audioQ))
    OBVIOUS
  <2>2. /\ Ids(audioQ) # <<>> /\ Ids(audioQ') = Tail(Ids(audioQ))
        /\ Ids(heard') = Append(Ids(heard), f) /\ UNCHANGED <<out, stream>>
    BY <1>12, <2>1 DEF Heard
  <2>3. /\ Ids(audioQ) \in Seq(Nat) /\ Ids(heard) \in Seq(Nat)
        /\ Members(Ids(audioQ)) = IdSet(audioQ) /\ Members(Ids(audioQ')) = IdSet(audioQ')
        /\ Members(Ids(heard)) = IdSet(heard) /\ Members(Ids(heard')) = IdSet(heard')
    BY <1>1, <1>2 DEF Lines, Contents
  <2>4. f \in IdSet(audioQ) /\ f \in Nat /\ IdSet(audioQ') \subseteq IdSet(audioQ)
    BY <2>1, <2>2, <2>3, TakeSubset
  <2>5. IdSet(heard') = IdSet(heard) \cup {f}
    BY <2>2, <2>3, <2>4, JoinSets
  <2> QED  BY <1>4, <2>2, <2>4, <2>5, OnItsWay
<1> QED  BY <1>6, <1>7, <1>8, <1>9, <1>10, <1>11, <1>12

LEMMA ThreadStep ==
    ASSUME TypeInv, ThreadInv, TypeInv', Grows, Effect
    PROVE  ThreadInv'
<1>1. CASE \/ VideoCalled \/ TextureCalled \/ Submitted \/ Flushed \/ Texted
           \/ (\E k \in Sockets : Written(k) \/ Gone(k))
           \/ VideoRead \/ AudioRead \/ Heard \/ MetaRead \/ Idle
  BY <1>1, PassiveSteps, ThreadKept
<1>2. ASSUME NEW t \in Threads, Stamped(t) PROVE ThreadInv'
  <2>1. PICK n : n = NextFrame
    OBVIOUS
  <2>2. /\ n \in Media' /\ by'[n] = t /\ \A x \in Frames : x < n
        /\ \/ ingress' = [ingress EXCEPT ![t] = ingress'[t]] /\ IdSet(ingress'[t]) = {n}
           \/ ingress' = ingress
        /\ UNCHANGED <<heard, audioQ, stream, out>>
    BY <1>2, <2>1 DEF Stamped, IsNew, rxVars
  <2>3. \A x : x \in AudioOn' <=> x \in AudioOn
    BY <2>2, OnItsWay
  <2>4. CASE ingress' = ingress
    <3>1. Passive
      BY <2>3, <2>4 DEF Passive
    <3> QED  BY <3>1, ThreadKept
  <2>5. CASE ingress' = [ingress EXCEPT ![t] = ingress'[t]] /\ IdSet(ingress'[t]) = {n}
    <3>1. \A u \in Threads : u # t => ingress'[u] = ingress[u]
      BY <2>5 DEF TypeInv, OutInv
    <3>2. ASSUME NEW u \in Threads, NEW f \in IdSet(ingress'[u])
          PROVE  f \in Media' /\ by'[f] = u /\ \A y \in AudioOn' : y \in Media' /\ by'[y] = u => y < f
      <4>1. CASE u = t
        <5>1. f = n
          BY <2>5, <3>2, <4>1
        <5>2. \A y \in AudioOn' : y < f
          BY <2>2, <2>3, <5>1, OldFrames
        <5> QED  BY <2>2, <4>1, <5>1, <5>2
      <4>2. CASE u # t
        <5>1. f \in IdSet(ingress[u])
          BY <3>1, <3>2, <4>2
        <5>2. f \in Media /\ by[f] = u /\ \A y \in AudioOn : y \in Media /\ by[y] = u => y < f
          BY <5>1 DEF ThreadInv
        <5>3. f \in Media' /\ by'[f] = u
          BY <5>1, <5>2, OldFrames
        <5>4. \A y \in AudioOn' : y \in Media' /\ by'[y] = u => y < f
          BY <2>3, <5>2, OldFrames
        <5> QED  BY <5>3, <5>4
      <4> QED  BY <4>1, <4>2
    <3> QED  BY <3>2 DEF ThreadInv
  <2> QED  BY <2>2, <2>4, <2>5
<1>3. ASSUME NEW t \in Threads, NEW f \in Audio, AudioQueued(t, f) PROVE ThreadInv'
  <2>1. /\ IdSet(ingress[t]) = {f} /\ IdSet(ingress'[t]) = {} /\ Shipped("audio", f) /\ f \in Nat
        /\ UNCHANGED <<given, by, stream, heard, audioQ>>
    BY <1>3, GivenFacts DEF AudioQueued, rxVars, TypeInv
  <2>2. \A u \in Threads : u # t => ingress'[u] = ingress[u]
    BY <1>3 DEF AudioQueued, TypeInv, OutInv
  <2>3. by[f] = t
    BY <2>1 DEF ThreadInv
  <2>4. \A y \in IdSet(out'["audio"]) : y \in IdSet(out["audio"]) \/ y = f
    <3>1. "audio" \in Sockets
      BY DEF Sockets
    <3> QED  BY <2>1, <3>1, ShippedSets
  <2>5. \A y \in AudioOn' : y \in AudioOn \/ y = f
    BY <2>1, <2>4, OnItsWay
  <2>6. Media' = Media
    BY <2>1 DEF Media, Frames
  <2>7. ASSUME NEW u \in Threads, NEW g \in IdSet(ingress'[u])
        PROVE  g \in Media' /\ by'[g] = u /\ \A y \in AudioOn' : y \in Media' /\ by'[y] = u => y < g
    <3>1. u # t /\ g \in IdSet(ingress[u])
      BY <2>1, <2>2, <2>7
    <3>2. g \in Media /\ by[g] = u /\ \A y \in AudioOn : y \in Media /\ by[y] = u => y < g
      BY <3>1 DEF ThreadInv
    <3> QED  BY <2>1, <2>3, <2>5, <2>6, <3>1, <3>2
  <2> QED  BY <2>7 DEF ThreadInv
<1> QED  BY <1>1, <1>2, <1>3 DEF Effect

-----------------------------------------------------------------------------
(* Counters count frames of their own kinds. *)

\* The frames audio counters may count.
Sonic == {f \in Frames : given[f].kind \in {"audio", "metadata"}}

LEMMA KindKept ==
    ASSUME TypeInv, KindInv, Grows,
           \A x : x \in drops'["sender"] => x \in drops["sender"] \/ x \in Video',
           \A x : x \in drops'["wire"] => x \in drops["wire"] \/ x \in Video',
           \A x : x \in drops'["audio"] => x \in drops["audio"] \/ x \in Sonic',
           \A x : x \in drops'["quiet"] => x \in drops["quiet"] \/ x \in Sonic'
    PROVE  KindInv'
<1>1. /\ drops["sender"] \subseteq Video /\ drops["wire"] \subseteq Video
      /\ \A f \in drops["audio"] \cup drops["quiet"] : given[f].kind \in {"audio", "metadata"}
      /\ \A c \in Counters : drops[c] \subseteq Frames
  BY DEF KindInv, TypeInv, LossInv
<1>2. drops["audio"] \subseteq Sonic /\ drops["quiet"] \subseteq Sonic
  BY <1>1 DEF Sonic, Counters
<1>3. Video \subseteq Video' /\ Sonic \subseteq Sonic'
  BY Growth DEF GrowsKinds, Grows, Sonic
<1>4. drops'["sender"] \subseteq Video' /\ drops'["wire"] \subseteq Video'
  BY <1>1, <1>3
<1>5. drops'["audio"] \subseteq Sonic' /\ drops'["quiet"] \subseteq Sonic'
  BY <1>2, <1>3
<1>6. \A x \in Sonic' : given'[x].kind \in {"audio", "metadata"}
  BY DEF Sonic
<1> QED  BY <1>4, <1>5, <1>6 DEF KindInv

\* What one step adds to a counter.
LEMMA CountKept ==
    ASSUME TypeInv, KindInv, Grows, NEW c \in Counters, NEW f, drops' = [drops EXCEPT ![c] = @ \cup {f}],
           c \in {"sender", "wire"} => f \in Video', c \in {"audio", "quiet"} => f \in Sonic'
    PROVE  KindInv'
<1>1. \A b \in Counters : \A x : x \in drops'[b] => x \in drops[b] \/ (b = c /\ x = f)
  BY DEF TypeInv, LossInv
<1>2. "sender" \in Counters /\ "wire" \in Counters /\ "audio" \in Counters /\ "quiet" \in Counters
  BY DEF Counters
<1>3. /\ \A x : x \in drops'["sender"] => x \in drops["sender"] \/ x \in Video'
      /\ \A x : x \in drops'["wire"] => x \in drops["wire"] \/ x \in Video'
      /\ \A x : x \in drops'["audio"] => x \in drops["audio"] \/ x \in Sonic'
      /\ \A x : x \in drops'["quiet"] => x \in drops["quiet"] \/ x \in Sonic'
  BY <1>1, <1>2
<1> QED  BY <1>3, KindKept

LEMMA KindStep ==
    ASSUME TypeInv, KindInv, TypeInv', Grows, Effect
    PROVE  KindInv'
<1>1. CASE drops' = drops
  BY <1>1, KindKept
<1>2. /\ "sender" \in Counters /\ "wire" \in Counters /\ "audio" \in Counters /\ "quiet" \in Counters
      /\ CounterOf("video") = "sender" /\ CounterOf("audio") = "quiet"
  BY DEF Counters, CounterOf
<1>3. Video \subseteq Video' /\ Audio \subseteq Sonic' /\ Texts \subseteq Sonic'
  <2>1. Audio \subseteq Sonic /\ Texts \subseteq Sonic
    BY DEF Audio, Texts, Sonic
  <2>2. Video \subseteq Video' /\ Sonic \subseteq Sonic'
    BY Growth DEF GrowsKinds, Grows, Sonic
  <2> QED  BY <2>1, <2>2
<1>4. ASSUME NEW f \in Video', Shipped("video", f) PROVE KindInv'
  <2>1. drops' = drops \/ drops' = [drops EXCEPT !["sender"] = @ \cup {f}]
    BY <1>2, <1>4 DEF Shipped, Queued, Lost
  <2> QED  BY <1>1, <1>2, <1>4, <2>1, CountKept
<1>5. CASE VideoCalled
  BY <1>1, <1>4, <1>5 DEF VideoCalled
<1>6. CASE TextureCalled \/ Flushed
  <2>1. PICK p : p = pending
    OBVIOUS
  <2>2. drops' = drops \/ (p # None /\ Shipped("video", p))
    BY <1>6, <2>1 DEF TextureCalled, Flushed
  <2>3. p # None => p \in Video'
    BY <1>3, <2>1 DEF TypeInv, EncoderInv
  <2> QED  BY <1>1, <1>4, <2>2, <2>3
<1>7. CASE Submitted \/ Texted \/ Heard \/ MetaRead \/ Idle \/ \E t \in Threads : Stamped(t)
  <2>1. drops' = drops
    BY <1>7 DEF Submitted, Texted, Heard, MetaRead, Idle, Stamped
  <2> QED  BY <1>1, <2>1
<1>8. ASSUME NEW t \in Threads, NEW f \in Audio, AudioQueued(t, f) PROVE KindInv'
  <2>1. drops' = drops \/ drops' = [drops EXCEPT !["quiet"] = @ \cup {f}]
    BY <1>2, <1>8 DEF AudioQueued, Shipped, Queued, Lost
  <2>2. f \in Sonic'
    BY <1>3, <1>8
  <2> QED  BY <1>1, <1>2, <2>1, <2>2, CountKept
<1>9. ASSUME NEW k \in Sockets, Written(k) \/ Gone(k) PROVE KindInv'
  <2>1. \A c \in Counters : c \notin {"link", "late", "torn"} => drops'[c] = drops[c]
    BY <1>9 DEF Written, Gone, TypeInv, LossInv
  <2>2. /\ drops'["sender"] = drops["sender"] /\ drops'["wire"] = drops["wire"]
        /\ drops'["audio"] = drops["audio"] /\ drops'["quiet"] = drops["quiet"]
    BY <1>2, <2>1
  <2> QED  BY <2>2, KindKept
<1>10. CASE VideoRead
  <2>1. PICK f : f = Head(Ids(stream["video"]))
    OBVIOUS
  <2>2. \/ drops' = drops
        \/ f \in Video /\ drops' = [drops EXCEPT !["wire"] = @ \cup {f}]
        \/ f \in Texts /\ drops' = [drops EXCEPT !["quiet"] = @ \cup {f}]
    BY <1>10, <2>1 DEF VideoRead
  <2>3. CASE f \in Video /\ drops' = [drops EXCEPT !["wire"] = @ \cup {f}]
    BY <1>2, <1>3, <2>3, CountKept
  <2>4. CASE f \in Texts /\ drops' = [drops EXCEPT !["quiet"] = @ \cup {f}]
    BY <1>2, <1>3, <2>4, CountKept
  <2> QED  BY <1>1, <2>2, <2>3, <2>4
<1>11. CASE AudioRead
  <2>1. PICK f : f = Head(Ids(stream["audio"]))
    OBVIOUS
  <2>2. f \in Audio \cup Texts /\ (drops' = drops \/ drops' = [drops EXCEPT !["audio"] = @ \cup {f}])
    BY <1>11, <2>1 DEF AudioRead
  <2>3. f \in Sonic'
    BY <1>3, <2>2
  <2>4. CASE drops' = [drops EXCEPT !["audio"] = @ \cup {f}]
    BY <1>2, <2>3, <2>4, CountKept
  <2> QED  BY <1>1, <2>2, <2>4
<1> QED  BY <1>5, <1>6, <1>7, <1>8, <1>9, <1>10, <1>11 DEF Effect

-----------------------------------------------------------------------------
(* The invariant. *)

LEMMA InitInvariant == Init => IInv
<1> SUFFICES ASSUME Init PROVE IInv
  OBVIOUS
<1>1. /\ workload \in Workloads /\ given = <<>> /\ by = <<>> /\ pending = None /\ stage = None
      /\ job = None /\ pipelined = {} /\ failed = {} /\ drops = [c \in Counters |-> {}]
      /\ ingress = [t \in Threads |-> <<>>] /\ out = [k \in Sockets |-> <<>>] /\ stream = out
      /\ seen = <<>> /\ audioQ = <<>> /\ metaQ = <<>> /\ heard = <<>> /\ read = <<>>
  BY DEF Init, EncoderInit
<1>2. \A S : <<>> \in Seq(S) /\ Len(<<>>) = 0 /\ DOMAIN <<>> = {}
  OBVIOUS
<1>3. Frames = {} /\ Media = {} /\ Video = {} /\ Texts = {}
  BY <1>1, <1>2 DEF Frames, Media, Video, Texts
<1>4. TypeInv
  <2>1. CallInv
    BY <1>1, <1>2, MediaPathAssumption DEF CallInv, WorkloadType
  <2>2. EncoderInv
    BY <1>1 DEF EncoderInv
  <2>3. /\ "video" \in Sockets /\ "audio" \in Sockets
        /\ QueueDepth \in Nat /\ AudioQ \in Nat /\ MetadataQ \in Nat
    BY MediaPathAssumption DEF Sockets
  <2>4. OutInv
    BY <1>1, <1>2, <2>3 DEF OutInv
  <2>5. StreamInv
    BY <1>1, <1>2, <2>3 DEF StreamInv
  <2>6. RxInv
    BY <1>1, <1>2, <2>3 DEF RxInv
  <2>7. LossInv
    BY <1>1 DEF LossInv
  <2> QED  BY <2>1, <2>2, <2>4, <2>5, <2>6, <2>7 DEF TypeInv
<1>5. OrderInv
  <2>1. Ids(<<>>) = <<>>
    BY DEF Ids
  <2>2. "video" \in Sockets /\ "audio" \in Sockets
    BY DEF Sockets
  <2>3. /\ \A i \in 1..3 : VideoLine[i] = <<>> /\ TextLine[i] = <<>>
        /\ \A i \in 1..4 : AudioLine[i] = <<>>
    BY <1>1, <2>1, <2>2, LineTables DEF LineTable
  <2>4. \A rel : Sorted(<<>>, rel) /\ Ahead(<<>>, <<>>, rel)
    BY <1>2 DEF Sorted, Ahead
  <2> QED  BY <2>3, <2>4 DEF OrderInv, InLine
<1>6. ThreadInv
  <2>1. IdSet(<<>>) = {}
    BY DEF IdSet
  <2> QED  BY <1>1, <2>1 DEF ThreadInv
<1>7. FateInv /\ KindInv
  BY <1>1, <1>3 DEF FateInv, KindInv, Counters
<1> QED  BY <1>4, <1>5, <1>6, <1>7 DEF IInv

LEMMA StepInvariant == IInv /\ [Next]_vars => IInv'
<1> SUFFICES ASSUME IInv, [Next]_vars PROVE IInv'
  OBVIOUS
<1>1. TypeInv /\ OrderInv /\ ThreadInv /\ FateInv /\ KindInv
  BY DEF IInv
<1>2. TypeInv' /\ Grows /\ Effect
  BY <1>1, StepEffect
<1>3. OrderInv'
  BY <1>1, <1>2, OrderStep
<1>4. FateInv'
  BY <1>1, <1>2, FateStep
<1>5. ThreadInv'
  BY <1>1, <1>2, ThreadStep
<1>6. KindInv'
  BY <1>1, <1>2, KindStep
<1> QED  BY <1>2, <1>3, <1>4, <1>5, <1>6 DEF IInv

\* Of every behaviour of sender, network and receiver: what is queued, sent and received is
\* what the calls were given, lines are in order, and every frame is in one place.
THEOREM PathInvariant == Spec => []IInv
BY InitInvariant, StepInvariant, PTL DEF Spec

-----------------------------------------------------------------------------
(* What follows from the invariant. *)

\* The line of audio is one trail.
LEMMA AudioLineTrail ==
    ASSUME NEW rel, NEW s \in Seq(Nat), NEW t \in Seq(Nat), NEW u \in Seq(Nat), NEW v \in Seq(Nat),
           InLine(<<s, t, u, v>>, 4, rel)
    PROVE  Sorted(s \o t \o u \o v, rel)
<1> DEFINE c == <<s, t, u, v>>
           b == <<s, t, u>>
<1>1. /\ c[1] = s /\ c[2] = t /\ c[3] = u /\ c[4] = v /\ 1..4 = {1, 2, 3, 4}
      /\ b[1] = s /\ b[2] = t /\ b[3] = u /\ 1..3 = {1, 2, 3}
  OBVIOUS
<1> HIDE DEF c, b
<1>2. InLine(c, 4, rel)
  BY DEF c
<1>3. /\ \A i \in 1..4 : Sorted(c[i], rel)
      /\ \A i, j \in 1..4 : i < j => Ahead(c[i], c[j], rel)
  BY <1>2 DEF InLine
<1>4. \A i \in 1..3 : i \in 1..4 /\ b[i] = c[i]
  BY <1>1
<1>5. InLine(b, 3, rel)
  BY <1>3, <1>4 DEF InLine
<1>6. Sorted(s \o t \o u, rel) /\ s \o t \o u \in Seq(Nat)
  BY <1>5, LineTrail DEF b
<1>7. Sorted(v, rel) /\ Ahead(s, v, rel) /\ Ahead(t, v, rel) /\ Ahead(u, v, rel)
  BY <1>1, <1>3
<1>8. Members(s \o t \o u) = Members(s) \cup Members(t) \cup Members(u)
  <2>1. s \o t \in Seq(Nat) /\ Members(s \o t) = Members(s) \cup Members(t)
    BY ConcatMembers
  <2> DEFINE st == s \o t
  <2> HIDE DEF st
  <2>2. Members(st \o u) = Members(st) \cup Members(u)
    BY <2>1, ConcatMembers DEF st
  <2> QED  BY <2>1, <2>2 DEF st
<1>9. Ahead(s \o t \o u, v, rel)
  <2>1. \A y \in Members(v) : /\ \A x \in Members(s) : <<x, y>> \in rel
                              /\ \A x \in Members(t) : <<x, y>> \in rel
                              /\ \A x \in Members(u) : <<x, y>> \in rel
    BY <1>7, AheadMembers
  <2>2. \A x \in Members(s \o t \o u), y \in Members(v) : <<x, y>> \in rel
    BY <1>8, <2>1
  <2> QED  BY <2>2, AheadMembers
<1> DEFINE stu == s \o t \o u
<1> HIDE DEF stu
<1>10. Sorted(stu \o v, rel)
  BY <1>6, <1>7, <1>9, ConcatSorted DEF stu
<1> QED  BY <1>10 DEF stu

\* The trails of the properties are sorted by the orders of the invariant.
LEMMA Trails ==
    ASSUME TypeInv, OrderInv
    PROVE  /\ Sorted(VideoTrail, VideoRel) /\ VideoTrail \in Seq(Nat)
           /\ Sorted(AudioTrail, AudioRel)
           /\ Sorted(Ids(read) \o Ids(metaQ), VideoRel)
<1>1. Lines /\ "video" \in Sockets /\ "audio" \in Sockets
  BY LineFacts DEF Sockets
<1>2. /\ InLine(<<Ids(seen), Ids(stream["video"]), Ids(out["video"])>>, 3, VideoRel)
      /\ InLine(<<Ids(heard), Ids(audioQ), Ids(stream["audio"]), Ids(out["audio"])>>, 4, AudioRel)
  BY DEF OrderInv, VideoLine, AudioLine
<1>3. Sorted(VideoTrail, VideoRel) /\ VideoTrail \in Seq(Nat)
  BY <1>1, <1>2, LineTrail DEF VideoTrail, Lines
<1>4. Sorted(AudioTrail, AudioRel)
  BY <1>1, <1>2, AudioLineTrail DEF AudioTrail, Lines
<1>5. Sorted(TextLine[1], VideoRel) /\ Sorted(TextLine[2], VideoRel) /\ Ahead(TextLine[1], TextLine[2], VideoRel)
  BY DEF OrderInv, InLine
<1>6. Sorted(Ids(read), VideoRel) /\ Sorted(Ids(metaQ), VideoRel) /\ Ahead(Ids(read), Ids(metaQ), VideoRel)
  BY <1>5, LineTables DEF LineTable
<1>7. Sorted(Ids(read) \o Ids(metaQ), VideoRel)
  BY <1>1, <1>6, ConcatSorted DEF Lines
<1> QED  BY <1>3, <1>4, <1>7

\* Joining queues joins their numbers.
LEMMA IdsConcat ==
    ASSUME NEW S, \A e \in S : e.id \in Nat, NEW s \in Seq(S), NEW t \in Seq(S)
    PROVE  Ids(s \o t) = Ids(s) \o Ids(t)
<1>1. /\ Len(s) \in Nat /\ Len(t) \in Nat /\ s \o t \in Seq(S) /\ Len(s \o t) = Len(s) + Len(t)
      /\ \A i \in 1..(Len(s) + Len(t)) : (s \o t)[i] = IF i <= Len(s) THEN s[i] ELSE t[i - Len(s)]
      /\ DOMAIN s = 1..Len(s) /\ DOMAIN t = 1..Len(t) /\ DOMAIN (s \o t) = 1..(Len(s) + Len(t))
  BY ConcatProperties, LenProperties
<1>2. /\ Ids(s) \in Seq(Nat) /\ Ids(t) \in Seq(Nat) /\ Len(Ids(s)) = Len(s) /\ Len(Ids(t)) = Len(t)
      /\ Ids(s \o t) \in Seq(Nat) /\ Len(Ids(s \o t)) = Len(s) + Len(t)
  <2>1. Ids(s) \in Seq(Nat) /\ Len(Ids(s)) = Len(s)
    BY IdsFacts
  <2>2. Ids(t) \in Seq(Nat) /\ Len(Ids(t)) = Len(t)
    BY IdsFacts
  <2>3. Ids(s \o t) \in Seq(Nat) /\ Len(Ids(s \o t)) = Len(s) + Len(t)
    BY <1>1, IdsFacts
  <2> QED  BY <2>1, <2>2, <2>3
<1>3. /\ \A i \in 1..Len(s) : Ids(s)[i] = s[i].id
      /\ \A i \in 1..Len(t) : Ids(t)[i] = t[i].id
      /\ \A i \in 1..(Len(s) + Len(t)) : Ids(s \o t)[i] = (s \o t)[i].id
  BY <1>1 DEF Ids
<1> DEFINE a == Ids(s)
           b == Ids(t)
           c == Ids(s \o t)
           d == a \o b
<1> HIDE DEF a, b, c
<1>4. /\ d \in Seq(Nat) /\ Len(d) = Len(s) + Len(t)
      /\ \A i \in 1..(Len(s) + Len(t)) : d[i] = IF i <= Len(s) THEN a[i] ELSE b[i - Len(s)]
  BY <1>2, ConcatProperties DEF a, b
<1> HIDE DEF d
<1>5. \A i \in 1..(Len(s) + Len(t)) : d[i] = c[i]
  <2> TAKE i \in 1..(Len(s) + Len(t))
  <2>1. CASE i <= Len(s)
    <3>1. i \in 1..Len(s)
      BY <1>1, <2>1
    <3> QED  BY <1>1, <1>3, <1>4, <2>1, <3>1 DEF a, c
  <2>2. CASE ~(i <= Len(s))
    <3>1. i - Len(s) \in 1..Len(t)
      BY <1>1, <2>2
    <3> QED  BY <1>1, <1>3, <1>4, <2>2, <3>1 DEF b, c
  <2> QED  BY <2>1, <2>2
<1>6. c \in Seq(Nat) /\ Len(c) = Len(d)
  BY <1>2, <1>4 DEF c
<1>7. d = c
  BY <1>4, <1>5, <1>6, SeqEqual
<1> QED  BY <1>7 DEF a, b, c, d

LEMMA InvariantInCallOrder == IInv => InCallOrder
<1> SUFFICES ASSUME IInv PROVE InCallOrder
  OBVIOUS
<1>1. TypeInv /\ OrderInv
  BY DEF IInv
<1>2. /\ Sorted(VideoTrail, VideoRel) /\ Sorted(AudioTrail, AudioRel)
      /\ Sorted(Ids(read) \o Ids(metaQ), VideoRel)
  BY <1>1, Trails
<1>3. ASSUME NEW i \in DOMAIN VideoTrail, NEW j \in DOMAIN VideoTrail, i < j,
             VideoTrail[i] \in Media, VideoTrail[j] \in Media, VideoTrail[i] > VideoTrail[j]
      PROVE  VideoTrail[j] \in pipelined /\ VideoTrail[i] \notin pipelined
  <2>1. <<VideoTrail[i], VideoTrail[j]>> \in VideoRel
    BY <1>2, <1>3 DEF Sorted
  <2>2. VideoOrder(VideoTrail[i], VideoTrail[j])
    BY <2>1, RelFacts
  <2> QED  BY <1>3, <2>2 DEF VideoOrder
<1>4. ASSUME NEW i \in DOMAIN AudioTrail, NEW j \in DOMAIN AudioTrail, i < j,
             AudioTrail[i] \in Media, AudioTrail[j] \in Media, by[AudioTrail[i]] = by[AudioTrail[j]]
      PROVE  AudioTrail[i] < AudioTrail[j]
  <2>1. <<AudioTrail[i], AudioTrail[j]>> \in AudioRel
    BY <1>2, <1>4 DEF Sorted
  <2>2. AudioOrder(AudioTrail[i], AudioTrail[j])
    BY <2>1, RelFacts
  <2> QED  BY <1>4, <2>2 DEF AudioOrder
<1> DEFINE got == Ids(read \o metaQ)
<1>5. ASSUME NEW i \in DOMAIN got, NEW j \in DOMAIN got, i < j
      PROVE  got[i] < got[j]
  <2>1. got = Ids(read) \o Ids(metaQ)
    <3>1. read \in Seq(Readings) /\ metaQ \in Seq(Readings) /\ \A e \in Readings : e.id \in Nat
      BY <1>1, NumberFacts DEF TypeInv, RxInv
    <3> QED  BY <3>1, IdsConcat
  <2>2. Members(got) = Members(Ids(read)) \cup Members(Ids(metaQ))
    <3>1. Lines
      BY <1>1, LineFacts
    <3> QED  BY <2>1, <3>1, ConcatMembers DEF Lines
  <2>3. Members(got) \subseteq Texts
    BY <1>1, <2>2, LineFacts, ResidentFacts DEF Contents, Residents
  <2> HIDE DEF got
  <2>4. got[i] \in Texts /\ got[j] \in Texts
    BY <1>5, <2>3 DEF Members
  <2>5. <<got[i], got[j]>> \in VideoRel
    BY <1>2, <1>5, <2>1 DEF Sorted
  <2>6. VideoOrder(got[i], got[j])
    BY <2>5, RelFacts
  <2> QED  BY <2>4, <2>6 DEF VideoOrder
<1> HIDE DEF got
<1>6. \A i, j \in DOMAIN VideoTrail :
          LET f == VideoTrail[i]  g == VideoTrail[j]
          IN  i < j /\ {f, g} \subseteq Media /\ f > g => g \in pipelined /\ f \notin pipelined
  BY <1>3
<1>7. \A i, j \in DOMAIN AudioTrail :
          LET f == AudioTrail[i]  g == AudioTrail[j]
          IN  i < j /\ {f, g} \subseteq Media /\ by[f] = by[g] => f < g
  BY <1>4
<1>8. \A i, j \in DOMAIN got : i < j => got[i] < got[j]
  BY <1>5
<1> QED  BY <1>6, <1>7, <1>8 DEF InCallOrder, got

LEMMA InvariantContent == IInv => ContentIntact /\ PicturesMatch
<1> SUFFICES ASSUME IInv PROVE ContentIntact /\ PicturesMatch
  OBVIOUS
<1>1. CallInv /\ RxInv
  BY DEF IInv, TypeInv
<1>2. /\ \A v \in Shown : v.id \in Video /\ Matches(v, given[v.id])
      /\ \A d \in Sounds : d.id \in Audio /\ Intact(d, given[d.id])
      /\ \A r \in Readings : r.id \in Texts /\ r.xml = Xml(r.id, given[r.id])
  BY <1>1, RxElements
<1>3. /\ \A i \in DOMAIN seen : seen[i] \in Shown
      /\ \A i \in DOMAIN read : read[i] \in Readings
      /\ \A i \in DOMAIN audioQ : audioQ[i] \in Sounds
      /\ \A i \in DOMAIN heard : heard[i] \in Sounds
  <2>1. seen \in Seq(Shown) /\ read \in Seq(Readings) /\ audioQ \in Seq(Sounds) /\ heard \in Seq(Sounds)
    BY <1>1 DEF RxInv
  <2> QED  BY <2>1, ElementOfSeq, LenProperties
<1>4. \A i \in DOMAIN seen : Matches(seen[i], given[seen[i].id])
  BY <1>2, <1>3
<1>5. PicturesMatch
  BY <1>4 DEF PicturesMatch, Matches, Whole
<1>6. \A i \in DOMAIN read : read[i].xml = Xml(read[i].id, given[read[i].id])
  BY <1>2, <1>3
<1>7. \A d \in {audioQ[i] : i \in DOMAIN audioQ} \cup {heard[i] : i \in DOMAIN heard} : Intact(d, given[d.id])
  BY <1>2, <1>3
<1>8. ContentIntact
  BY <1>6, <1>7 DEF ContentIntact, Intact
<1> QED  BY <1>5, <1>8

LEMMA InvariantType == IInv => TypeOK
<1> SUFFICES ASSUME IInv PROVE TypeOK
  OBVIOUS
<1>1. TypeInv /\ CallInv
  BY DEF IInv, TypeInv
<1>2. /\ \A k \in Sockets : Len(out[k]) <= QueueDepth
      /\ Len(audioQ) <= AudioQ /\ Len(metaQ) <= MetadataQ
  BY <1>1 DEF TypeInv, OutInv, RxInv
<1>3. {pending, stage, job} \subseteq Frames \cup {None} /\ pipelined \cup failed \subseteq Frames
  BY <1>1, GivenFacts DEF TypeInv, EncoderInv, LossInv
<1>4. ASSUME NEW t \in Threads, ingress[t] # <<>>
      PROVE  Len(ingress[t]) = 1 /\ Head(ingress[t]).id \in Frames
  <2>1. ingress[t] \in Seq(AudioFrames) /\ Len(ingress[t]) <= 1
    BY <1>1 DEF TypeInv, OutInv
  <2>2. Head(ingress[t]) \in AudioFrames /\ Len(ingress[t]) \in Nat \ {0}
    BY <1>4, <2>1, HeadTailProperties, LenProperties, EmptySeq
  <2>3. \A i \in Nat \ {0} : i <= 1 => i = 1
    OBVIOUS
  <2>4. Len(ingress[t]) = 1
    BY ONLY <2>1, <2>2, <2>3
  <2> QED  BY <1>1, <2>2, <2>3, <2>4, FrameFacts, GivenFacts
<1>5. DOMAIN drops = Counters /\ \A c \in Counters : drops[c] \subseteq Frames
  BY <1>1 DEF TypeInv, LossInv
<1>6. UNION {drops[c] : c \in Counters} \subseteq Frames
  BY <1>5
<1> QED  BY <1>2, <1>3, <1>4, <1>5, <1>6 DEF TypeOK

\* A queue sorted by an order that no frame has to itself holds every frame once.
LEMMA SortedOnce ==
    ASSUME NEW s, NEW rel, Sorted(s, rel), \A x : <<x, x>> \notin rel, DOMAIN s \subseteq Nat
    PROVE  Once(s)
<1> SUFFICES ASSUME NEW i \in DOMAIN s, NEW j \in DOMAIN s, s[i] = s[j] PROVE i = j
  BY DEF Once
<1>1. ~(i < j) /\ ~(j < i)
  BY DEF Sorted
<1>2. i \in Nat /\ j \in Nat
  OBVIOUS
<1> QED  BY <1>1, <1>2

LEMMA InvariantOneFate == IInv => OneFate
<1> SUFFICES ASSUME IInv PROVE OneFate
  OBVIOUS
<1>1. TypeInv /\ OrderInv /\ ThreadInv /\ FateInv /\ KindInv
  BY DEF IInv
<1>2. ASSUME NEW f \in Media PROVE Cardinality({p \in Places : f \in Held(p)}) = 1
  <2>1. PICK p \in Places : \A q \in Places : f \in Held(q) <=> q = p
    BY <1>1 DEF FateInv
  <2>2. {q \in Places : f \in Held(q)} = {p}
    BY <2>1
  <2> QED  BY <2>2, FS_Singleton
<1>3. Once(VideoTrail) /\ Once(AudioTrail)
  <2>1. \A x : <<x, x>> \notin VideoRel /\ <<x, x>> \notin AudioRel
    BY <1>1, NoFrameTwice
  <2>2. Sorted(VideoTrail, VideoRel) /\ Sorted(AudioTrail, AudioRel)
    BY <1>1, Trails
  <2>3. Lines /\ "video" \in Sockets /\ "audio" \in Sockets
    BY <1>1, LineFacts DEF Sockets
  <2>4. DOMAIN VideoTrail \subseteq Nat
    BY <1>1, Trails, LenProperties
  <2>5. DOMAIN AudioTrail \subseteq Nat
    <3>1. /\ Ids(heard) \in Seq(Nat) /\ Ids(audioQ) \in Seq(Nat) /\ Ids(stream["audio"]) \in Seq(Nat)
          /\ Ids(out["audio"]) \in Seq(Nat)
      BY <2>3 DEF Lines
    <3>2. AudioTrail \in Seq(Nat)
      BY <3>1, ConcatProperties DEF AudioTrail
    <3> QED  BY <3>2, LenProperties
  <2> QED  BY <2>1, <2>2, <2>4, <2>5, SortedOnce
<1>4. \A t, u \in Threads : t # u => IdSet(ingress[t]) \cap IdSet(ingress[u]) = {}
  BY <1>1 DEF ThreadInv
<1>5. \A f \in drops["sender"] \cup drops["wire"] : given[f].kind \in {"video", "texture"}
  BY <1>1 DEF KindInv, Video
<1>6. \A f \in drops["audio"] \cup drops["quiet"] : given[f].kind \in {"audio", "metadata"}
  BY <1>1 DEF KindInv
<1> QED  BY <1>2, <1>3, <1>4, <1>5, <1>6 DEF OneFate

\* The queues of the sender, the receiver's channels and what encoder and sender remember stay
\* within their bounds, whatever the capacities and however many threads send audio.
THEOREM TypeCorrect == Spec => []TypeOK
BY PathInvariant, InvariantType, PTL

\* finish_pending_gpu and ensure_codec never give a header the picture of another call, and
\* from_bytes never cuts into a picture, whatever the length of the metadata behind it.
THEOREM PicturesAreIntact == Spec => []PicturesMatch
<1>1. IInv => PicturesMatch
  BY InvariantContent
<1> QED  BY <1>1, PathInvariant, PTL

\* The queues, sockets and channels between the two applications keep the order of the calls:
\* for metadata, for the audio of one thread, and for video up to pending textures.
THEOREM DeliveredInCallOrder == Spec => []InCallOrder
BY PathInvariant, InvariantInCallOrder, PTL

\* try_recv_audio and try_recv_metadata return what the calls were given, through assemble_audio,
\* the split by metadata_length and decode_audio_frame.
THEOREM ContentIsIntact == Spec => []ContentIntact
<1>1. IInv => ContentIntact
  BY InvariantContent
<1> QED  BY <1>1, PathInvariant, PTL

\* No frame of send_video, send_video_texture or send_audio is lost without being counted, lost
\* with a connection or reported to its caller, and none is delivered or counted twice.
THEOREM EveryFrameHasOneFate == Spec => []OneFate
BY PathInvariant, InvariantOneFate, PTL
=============================================================================
