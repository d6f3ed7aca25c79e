--------------------------- MODULE DiscoveryProofs ---------------------------
(***************************************************************************)
(* The invariants of Discovery and of the settings file, for any instances, *)
(* names and keys, any number of connections and any budget of calls,       *)
(* events and crashes.                                                      *)
(***************************************************************************)
EXTENDS Discovery, FiniteSetTheorems, SequenceTheorems, TLAPS

-----------------------------------------------------------------------------
(* The inductive invariant. *)

\* What is on disk, once parsed, is what the last save wrote; a save under way has left
\* nothing.
FileInv ==
    /\ SettingsTypeOK
    /\ ParseSettings(file) = Trimmed(saved)
    /\ saving # NotSaving => saved = EmptyMap

\* The calls of an instance and its lists.  What it has to withdraw it no longer has
\* registered, so that a withdrawal never takes a source that register() has accepted since.
CallOK(i) ==
    /\ call[i] \notin {"withdraw", "drop"} => todo[i] = <<>>
    /\ call[i] = "drop" => registered[i] = <<>>
    /\ mode[i] = "none" => call[i] = "none" /\ registered[i] = <<>>
    /\ arg[i] # None => /\ mode[i] = "dns" /\ call[i] \in {"create", "use"}
                        /\ arg[i] \in Registers[i]
    /\ call[i] = "use" => handle[i] # None
    /\ mode[i] = "dns" /\ todo[i] # <<>> => installed # None
    /\ Range(registered[i]) \subseteq Registers[i] /\ Range(todo[i]) \subseteq Registers[i]
    /\ \A n \in Range(registered[i]) : n \notin Range(todo[i])
    /\ conn[i] # 0 => mode[i] = "server"

CallsInv == \A i \in Instances : CallOK(i)

\* Before a daemon is installed no thread has one, and nothing is advertised.
DaemonInv ==
    /\ installed = None => \A d \in Instances : handle[d] = None /\ adv[d] = Nothing
    /\ \A i \in Instances : mode[i] = "dns" /\ registered[i] # <<>> => installed # None
    /\ installed # None => \A n \in Names, i \in Instances :
          adv[installed][n] = i => mode[i] = "dns" /\ Accountable(i, n)
    /\ \A i \in Instances : \A n \in Range(registered[i]) :
          mode[i] = "dns" /\ Exclusive(i, n) => \E d \in Instances : adv[d][n] = i

\* Request r is on its way behind the request at p.
Behind(s, p, r) == \E q \in DOMAIN s : q > p /\ s[q] = r
InQueue(s, r) == \E q \in DOMAIN s : s[q] = r

\* Every registration on its way is of a source the instance accounts for, or is followed by
\* its removal; every removal of a source that is registered again is followed by the
\* registration.
Answered(s, i) ==
    \A n \in Names, p \in DOMAIN s :
        /\ s[p] = <<"add", n, i>> => Accountable(i, n) \/ Behind(s, p, <<"remove", n, i>>)
        /\ s[p] = <<"remove", n, i>> /\ n \in Range(registered[i]) => Behind(s, p, <<"add", n, i>>)

\* What the server has, and what is on its way to it, for the connection of instance i.
LinkOK(i) ==
    conn[i] # 0 =>
        /\ Answered(sent[conn[i]], i)
        /\ \A n \in Names : owner[<<n, i>>] = conn[i] =>
              Accountable(i, n) \/ InQueue(sent[conn[i]], <<"remove", n, i>>)
        /\ conn[i] \in members => \A n \in Range(registered[i]) :
              \/ owner[<<n, i>>] = conn[i]
              \/ InQueue(sent[conn[i]], <<"add", n, i>>)
              \/ <<n, i>> \in contested

ServerInv ==
    /\ \A k \in Sources : owner[k] # 0 => owner[k] \in members
    /\ \A c \in Conns : sent[c] # <<>> => c \in members
    /\ \A i \in Instances : LinkOK(i)

IInv == TypeOK /\ FileInv /\ CallsInv /\ DaemonInv /\ ServerInv

\* TypeOK in parts.
InstType ==
    /\ mode \in [Instances -> {"none", "dns", "server"}]
    /\ registered \in [Instances -> Seq(Names)] /\ todo \in [Instances -> Seq(Names)]
    /\ call \in [Instances -> {"none", "create", "use", "withdraw", "drop"}]
    /\ arg \in [Instances -> Names \cup {None}] /\ handle \in [Instances -> Instances \cup {None}]

MdnsType ==
    /\ installed \in Instances \cup {None}
    /\ adv \in [Instances -> [Names -> Instances \cup {None}]]
    /\ found \in [Instances -> [Names -> AllPorts \cup {None}]]

LinkType ==
    /\ conn \in [Instances -> 0..conns] /\ conns \in 0..MaxConns
    /\ sent \in [Conns -> Seq({"add", "remove"} \X Names \X Instances)]
    /\ view \in [Instances -> SUBSET (Names \X AllPorts)] /\ up \in BOOLEAN
    /\ members \subseteq 1..conns /\ owner \in [Sources -> 0..conns]

Parts == FileInv /\ InstType /\ MdnsType /\ LinkType /\ CallsInv /\ DaemonInv /\ ServerInv

-----------------------------------------------------------------------------
(* Only: what a filter keeps. *)

Place(at, k) == Cardinality(at \cap (1..k))

LEMMA PlaceFacts ==
    ASSUME NEW at \in SUBSET (Nat \ {0}), IsFiniteSet(at)
    PROVE  /\ Cardinality(at) \in Nat
           /\ \A k \in at : Place(at, k) \in 1..Cardinality(at)
           /\ \A k, m \in at : Place(at, k) = Place(at, m) => k = m
           /\ \A j \in 1..Cardinality(at) : \E k \in at : Place(at, k) = j
<1>1. Cardinality(at) \in Nat
  BY FS_CardinalityType
<1>2. \A k \in at : /\ at \cap (1..k) \in SUBSET at /\ IsFiniteSet(at \cap (1..k))
                    /\ Place(at, k) \in Nat /\ Place(at, k) <= Cardinality(at)
  BY FS_Subset, FS_CardinalityType DEF Place
<1>3. ASSUME NEW k \in at PROVE Place(at, k) # 0
  <2>1. k \in at \cap (1..k)
    OBVIOUS
  <2> QED  BY <1>2, <2>1, FS_EmptySet DEF Place
<1>4. ASSUME NEW k \in at PROVE Place(at, k) \in 1..Cardinality(at)
  <2>1. Place(at, k) \in Nat /\ Place(at, k) <= Cardinality(at) /\ Place(at, k) # 0
    BY <1>2, <1>3
  <2> QED  BY <1>1, <2>1
<1>5. ASSUME NEW k \in at, NEW m \in at, k < m PROVE Place(at, k) < Place(at, m)
  <2>1. at \cap (1..k) \in SUBSET (at \cap (1..m))
    BY <1>5
  <2>2. m \in at \cap (1..m) /\ m \notin at \cap (1..k)
    BY <1>5
  <2>3. Cardinality(at \cap (1..k)) <= Cardinality(at \cap (1..m))
        /\ Cardinality(at \cap (1..k)) # Cardinality(at \cap (1..m))
    BY <1>2, <2>1, <2>2, FS_Subset
  <2> QED  BY <1>2, <2>3 DEF Place
<1>6. ASSUME NEW k \in at, NEW m \in at, Place(at, k) = Place(at, m) PROVE k = m
  <2>1. k \in Nat /\ m \in Nat /\ Place(at, k) \in Nat /\ Place(at, m) \in Nat
    BY <1>2
  <2>2. ~(k < m)
    BY <1>5, <1>6, <2>1
  <2>3. ~(m < k)
    BY <1>5, <1>6, <2>1
  <2> QED  BY <2>1, <2>2, <2>3
<1>7. \A j \in 1..Cardinality(at) : \E k \in at : Place(at, k) = j
  <2> DEFINE n == Cardinality(at)
             f == [k \in at |-> Place(at, k)]
  <2>1. f \in Injection(at, 1..n)
    BY <1>4, <1>6 DEF Injection, IsInjective
  <2>2. IsFiniteSet(1..n) /\ Cardinality(1..n) = n
    <3> HIDE DEF n
    <3>1. n \in Nat
      BY <1>1 DEF n
    <3>2. IsFiniteSet(1..n) /\ Cardinality(1..n) = IF 1 > n THEN 0 ELSE n - 1 + 1
      BY <3>1, FS_Interval
    <3> QED  BY <3>1, <3>2
  <2>3. f \in Surjection(at, 1..n)
    <3> HIDE DEF f
    <3> QED  BY <2>1, <2>2, FS_Injection
  <2>4. \A j \in 1..n : \E k \in at : f[k] = j
    <3> HIDE DEF f, n
    <3> QED  BY <2>3 DEF Surjection
  <2> QED  BY <2>4
<1> QED  BY <1>1, <1>4, <1>6, <1>7

LEMMA OnlyFacts ==
    ASSUME NEW T, NEW s \in Seq(T), NEW S
    PROVE  /\ Only(s, S) \in Seq(T)
           /\ \A x : x \in Range(Only(s, S)) <=> x \in Range(s) /\ x \in S
<1> DEFINE at == {k \in DOMAIN s : s[k] \in S}
           n == Cardinality(at)
           pick(j) == CHOOSE k \in at : Place(at, k) = j
<1>1. Len(s) \in Nat /\ DOMAIN s = 1..Len(s) /\ \A k \in DOMAIN s : s[k] \in T
  BY LenProperties, ElementOfSeq
<1>2. at \in SUBSET (Nat \ {0}) /\ IsFiniteSet(at)
  <2>1. at \in SUBSET (1..Len(s)) /\ IsFiniteSet(1..Len(s))
    BY <1>1, FS_Interval
  <2>2. IsFiniteSet(at)
    BY <2>1, FS_Subset
  <2> QED  BY <2>1, <2>2
<1>3. Only(s, S) = [j \in 1..n |-> s[pick(j)]]
  BY DEF Only, Place
<1>4. \A k : k \in at <=> k \in DOMAIN s /\ s[k] \in S
  OBVIOUS
<1> HIDE DEF at
<1>5. /\ n \in Nat /\ \A k \in at : Place(at, k) \in 1..n
      /\ \A k, m \in at : Place(at, k) = Place(at, m) => k = m
      /\ \A j \in 1..n : \E k \in at : Place(at, k) = j
  BY <1>2, PlaceFacts
<1> HIDE DEF n
<1>6. \A j \in 1..n : pick(j) \in at
  BY <1>5
<1>7. \A k \in at : pick(Place(at, k)) = k
  BY <1>5
<1> HIDE DEF pick
<1>8. \A j \in 1..n : s[pick(j)] \in T /\ s[pick(j)] \in S /\ pick(j) \in DOMAIN s
  BY <1>1, <1>4, <1>6
<1>9. Only(s, S) \in Seq(T)
  BY <1>3, <1>5, <1>8
<1>10. DOMAIN Only(s, S) = 1..n /\ \A j \in 1..n : Only(s, S)[j] = s[pick(j)]
  BY <1>3
<1>11. ASSUME NEW x PROVE x \in Range(Only(s, S)) <=> x \in Range(s) /\ x \in S
  <2>1. ASSUME x \in Range(Only(s, S)) PROVE x \in Range(s) /\ x \in S
    BY <1>8, <1>10, <2>1 DEF Range
  <2>2. ASSUME x \in Range(s), x \in S PROVE x \in Range(Only(s, S))
    <3>1. PICK k \in DOMAIN s : s[k] = x
      BY <2>2 DEF Range
    <3>2. k \in at /\ Place(at, k) \in 1..n /\ pick(Place(at, k)) = k
      BY <1>4, <1>5, <1>7, <2>2, <3>1
    <3>3. Only(s, S)[Place(at, k)] = x
      BY <1>10, <3>1, <3>2
    <3> QED  BY <1>10, <3>2, <3>3 DEF Range
  <2> QED  BY <2>1, <2>2
<1> QED  BY <1>9, <1>11

\* A list and one element more, or the first less.
LEMMA RangeFacts ==
    ASSUME NEW T, NEW s \in Seq(T)
    PROVE  /\ Range(s) \subseteq T /\ Range(<<>>) = {}
           /\ s # <<>> <=> \E x : x \in Range(s)
           /\ \A x \in T : Append(s, x) \in Seq(T) /\ Range(Append(s, x)) = Range(s) \cup {x}
           /\ s # <<>> => /\ Head(s) \in T /\ Head(s) \in Range(s) /\ Tail(s) \in Seq(T)
                          /\ Range(s) = Range(Tail(s)) \cup {Head(s)}
<1>1. Len(s) \in Nat /\ DOMAIN s = 1..Len(s) /\ \A k \in DOMAIN s : s[k] \in T
  BY LenProperties, ElementOfSeq
<1>2. Range(s) \subseteq T /\ Range(<<>>) = {}
  BY <1>1 DEF Range
<1>3. s # <<>> <=> \E x : x \in Range(s)
  <2>1. s # <<>> => Len(s) # 0
    BY EmptySeq
  <2>2. Len(s) # 0 => 1 \in DOMAIN s
    BY <1>1
  <2> QED  BY <1>2, <2>1, <2>2 DEF Range
<1>4. ASSUME NEW x \in T PROVE Append(s, x) \in Seq(T) /\ Range(Append(s, x)) = Range(s) \cup {x}
  <2>1. Append(s, x) \in Seq(T) /\ Len(Append(s, x)) = Len(s) + 1
        /\ (\A i \in 1..Len(s) : Append(s, x)[i] = s[i]) /\ Append(s, x)[Len(s) + 1] = x
    BY AppendProperties
  <2>2. DOMAIN Append(s, x) = 1..(Len(s) + 1)
    BY <2>1, LenProperties
  <2>3. \A i \in 1..(Len(s) + 1) : i \in 1..Len(s) \/ i = Len(s) + 1
    BY <1>1
  <2>4. \A i \in 1..Len(s) : i \in 1..(Len(s) + 1)
    BY <1>1
  <2>5. Len(s) + 1 \in 1..(Len(s) + 1)
    BY <1>1
  <2>6. \A y : y \in Range(Append(s, x)) <=> y \in Range(s) \/ y = x
    BY <1>1, <2>1, <2>2, <2>3, <2>4, <2>5 DEF Range
  <2> QED  BY <2>1, <2>6
<1>5. ASSUME s # <<>>
      PROVE  /\ Head(s) \in T /\ Head(s) \in Range(s) /\ Tail(s) \in Seq(T)
             /\ Range(s) = Range(Tail(s)) \cup {Head(s)}
  <2>1. Head(s) \in T /\ Tail(s) \in Seq(T) /\ Len(Tail(s)) = Len(s) - 1 /\ Len(s) \in Nat \ {0}
        /\ (\A i \in 1..Len(Tail(s)) : Tail(s)[i] = s[i + 1]) /\ Head(s) = s[1]
    BY <1>5, HeadTailProperties, EmptySeq
  <2>2. DOMAIN Tail(s) = 1..(Len(s) - 1)
    BY <2>1, LenProperties
  <2>3. 1 \in 1..Len(s) /\ \A i \in 1..(Len(s) - 1) : i + 1 \in 1..Len(s)
    BY <2>1
  <2>4. \A i \in 1..Len(s) : i = 1 \/ (i - 1 \in 1..(Len(s) - 1) /\ (i - 1) + 1 = i)
    BY <2>1
  <2>5. \A i \in 1..(Len(s) - 1) : Tail(s)[i] = s[i + 1]
    BY <2>1
  <2>6. ASSUME NEW y \in Range(s) PROVE y \in Range(Tail(s)) \/ y = Head(s)
    <3>1. PICK i \in 1..Len(s) : s[i] = y
      BY <1>1, <2>6 DEF Range
    <3>2. CASE i = 1
      BY <2>1, <3>1, <3>2
    <3>3. CASE i # 1
      <4>1. i - 1 \in 1..(Len(s) - 1) /\ Tail(s)[i - 1] = s[i]
        BY <2>4, <2>5, <3>3
      <4> QED  BY <2>2, <3>1, <4>1 DEF Range
    <3> QED  BY <3>2, <3>3
  <2>7. ASSUME NEW y \in Range(Tail(s)) PROVE y \in Range(s)
    <3>1. PICK i \in 1..(Len(s) - 1) : Tail(s)[i] = y
      BY <2>2, <2>7 DEF Range
    <3>2. i + 1 \in 1..Len(s) /\ s[i + 1] = y
      BY <2>3, <2>5, <3>1
    <3> QED  BY <1>1, <3>2 DEF Range
  <2>8. Head(s) \in Range(s)
    BY <1>1, <2>1, <2>3 DEF Range
  <2> QED  BY <2>1, <2>6, <2>7, <2>8
<1> QED  BY <1>2, <1>3, <1>4, <1>5

-----------------------------------------------------------------------------
(* The settings file. *)

LEMMA MapFacts ==
    /\ EmptyMap \in Maps /\ Trimmed(EmptyMap) = EmptyMap
    /\ \A m \in Maps : DOMAIN m \subseteq Keys /\ \A k \in DOMAIN m : m[k] \in Value
    /\ \A m : (DOMAIN m \subseteq Keys /\ m = [k \in DOMAIN m |-> m[k]] /\ \A k \in DOMAIN m : m[k] \in Value)
                 => m \in Maps
    /\ \A m \in Maps : Trimmed(m) \in Maps
<1>1. \A m : (DOMAIN m \subseteq Keys /\ m = [k \in DOMAIN m |-> m[k]] /\ \A k \in DOMAIN m : m[k] \in Value)
                 => m \in Maps
  <2> SUFFICES ASSUME NEW m, DOMAIN m \subseteq Keys, m = [k \in DOMAIN m |-> m[k]],
                      \A k \in DOMAIN m : m[k] \in Value
               PROVE  m \in Maps
    OBVIOUS
  <2>1. m \in [DOMAIN m -> Value]
    OBVIOUS
  <2> QED  BY <2>1 DEF Maps
<1>2. \A m \in Maps : DOMAIN m \subseteq Keys /\ \A k \in DOMAIN m : m[k] \in Value
  BY DEF Maps
<1>3. EmptyMap \in Maps
  <2>1. EmptyMap \in [{} -> Value]
    BY DEF EmptyMap
  <2> QED  BY <2>1 DEF Maps
<1>4. Trimmed(EmptyMap) = EmptyMap
  BY DEF Trimmed, EmptyMap
<1>5. ASSUME NEW m \in Maps PROVE Trimmed(m) \in Maps
  <2>1. \A v \in Value : Trim(v) \in Value
    BY DEF Trim, Value
  <2>2. Trimmed(m) \in [DOMAIN m -> Value]
    BY <1>2, <2>1 DEF Trimmed
  <2> QED  BY <1>2, <2>2 DEF Maps
<1> QED  BY <1>1, <1>2, <1>3, <1>4, <1>5

\* What to_xml writes, parse_children reads: all keys, with their values trimmed.
LEMMA FileRoundTrip ==
    ASSUME NEW m \in Maps
    PROVE  /\ ToXml(m) \in Seq(Keys \X Value)
           /\ ParseChildren(ToXml(m)) = Trimmed(m)
<1> DEFINE p == Only(KeyOrder, DOMAIN m)
           e == ToXml(m)
<1>1. DOMAIN m \subseteq Keys /\ \A k \in DOMAIN m : m[k] \in Value
  BY MapFacts
<1>2. KeyOrder \in Seq(Keys)
  BY SettingsAssumption
<1>3. p \in Seq(Keys) /\ \A x : x \in Range(p) <=> x \in Keys /\ x \in DOMAIN m
  BY <1>2, OnlyFacts DEF Keys
<1> HIDE DEF p
<1>4. e = [i \in DOMAIN p |-> <<p[i], m[p[i]]>>]
  BY DEF ToXml, p
<1> HIDE DEF e
<1>5. \A i \in DOMAIN p : p[i] \in Keys /\ p[i] \in DOMAIN m
  BY <1>3 DEF Range
<1>6. DOMAIN p = 1..Len(p) /\ Len(p) \in Nat
  BY <1>3, LenProperties
<1>7. e \in Seq(Keys \X Value)
  <2>1. \A i \in 1..Len(p) : <<p[i], m[p[i]]>> \in Keys \X Value
    BY <1>1, <1>5, <1>6
  <2> QED  BY <1>4, <1>6, <2>1
<1>8. DOMAIN e = DOMAIN p /\ \A i \in DOMAIN p : e[i] = <<p[i], m[p[i]]>>
  BY <1>4
<1>9. {e[i][1] : i \in DOMAIN e} = DOMAIN m
  <2>1. ASSUME NEW i \in DOMAIN e PROVE e[i][1] \in DOMAIN m
    BY <1>5, <1>8
  <2>2. ASSUME NEW k \in DOMAIN m PROVE \E i \in DOMAIN e : e[i][1] = k
    <3>1. k \in Range(p)
      BY <1>1, <1>3
    <3>2. PICK i \in DOMAIN p : p[i] = k
      BY <3>1 DEF Range
    <3> QED  BY <1>8, <3>2
  <2> QED  BY <2>1, <2>2
<1>10. ASSUME NEW k \in DOMAIN m PROVE (CHOOSE x \in Range(e) : x[1] = k) = <<k, m[k]>>
  <2>1. \A x \in Range(e) : x[1] = k => x = <<k, m[k]>>
    <3> TAKE x \in Range(e)
    <3>1. PICK i \in DOMAIN e : x = e[i]
      BY DEF Range
    <3> QED  BY <1>8, <3>1
  <2>2. \E x \in Range(e) : x[1] = k
    <3>1. PICK i \in DOMAIN e : e[i][1] = k
      BY <1>9
    <3>2. e[i] \in Range(e)
      BY DEF Range
    <3> QED  BY <3>1, <3>2
  <2> QED  BY <2>1, <2>2
<1>11. ParseChildren(e) = [k \in DOMAIN m |-> Trim(m[k])]
  <2> DEFINE got(k) == (CHOOSE x \in Range(e) : x[1] = k)[2]
  <2>1. ParseChildren(e) = [k \in DOMAIN m |-> Trim(got(k))]
    BY <1>9 DEF ParseChildren
  <2>2. ASSUME NEW k \in DOMAIN m PROVE got(k) = m[k]
    <3>1. got(k) = <<k, m[k]>>[2]
      BY <1>10, Zenon
    <3> QED  BY <3>1
  <2> HIDE DEF got
  <2> QED  BY <2>1, <2>2
<1>12. ParseChildren(e) = Trimmed(m)
  BY <1>11 DEF Trimmed
<1> QED  BY <1>7, <1>12 DEF e

\* Spending a unit of the budget.
LEMMA SpendKeeps ==
    ASSUME left \in [StepKinds -> Nat], NEW kind \in StepKinds, Spend(kind)
    PROVE  left' \in [StepKinds -> Nat]
<1>1. left[kind] \in Nat /\ left[kind] > 0
  BY DEF Spend
<1>2. left[kind] - 1 \in Nat
  BY <1>1
<1> QED  BY <1>2 DEF Spend

LEMMA FileKept ==
    ASSUME FileInv, UNCHANGED settingsVars, left' \in [StepKinds -> Nat]
    PROVE  FileInv'
BY DEF FileInv, SettingsTypeOK, settingsVars

LEMMA ParsedIsAMap ==
    ASSUME FileInv
    PROVE  ParseSettings(file) \in Maps
BY MapFacts DEF FileInv, SettingsTypeOK

LEMMA NoFileFacts ==
    /\ NoFile \in [entries : Seq(Keys \X Value), closed : BOOLEAN]
    /\ ParseSettings(NoFile) = EmptyMap
BY DEF NoFile, ParseSettings

\* A file without its end is no file.
LEMMA CutFacts ==
    ASSUME saving \in Maps, NEW n \in 0..Len(ToXml(saving))
    PROVE  /\ Cut(n) \in [entries : Seq(Keys \X Value), closed : BOOLEAN]
           /\ ParseSettings(Cut(n)) = EmptyMap
<1>1. ToXml(saving) \in Seq(Keys \X Value)
  BY FileRoundTrip
<1>2. Len(ToXml(saving)) \in Nat /\ DOMAIN ToXml(saving) = 1..Len(ToXml(saving))
  BY <1>1, LenProperties
<1>3. \A i \in 1..n : i \in 1..Len(ToXml(saving))
  BY <1>2
<1>4. \A i \in 1..n : ToXml(saving)[i] \in Keys \X Value
  BY <1>1, <1>2, <1>3, ElementOfSeq
<1>5. SubSeq(ToXml(saving), 1, n) \in Seq(Keys \X Value)
  <2>1. n \in Nat
    BY <1>2
  <2> QED  BY <1>1, <1>4, <2>1, SubSeqProperties
<1> QED  BY <1>5 DEF Cut, ParseSettings

\* A save, to its end or not, leaves a file that loads what the history says.
LEMMA StopFacts ==
    ASSUME FileInv, saving # NotSaving, SaveStops
    PROVE  /\ file' \in [entries : Seq(Keys \X Value), closed : BOOLEAN]
           /\ saved' \in Maps /\ ParseSettings(file') = Trimmed(saved')
<1>1. saving \in Maps /\ saved = EmptyMap /\ saved \in Maps
  BY DEF FileInv, SettingsTypeOK
<1>2. CASE \E n \in 0..Len(ToXml(saving)) : file' = Cut(n) /\ UNCHANGED saved
  <2>1. PICK n \in 0..Len(ToXml(saving)) : file' = Cut(n) /\ UNCHANGED saved
    BY <1>2
  <2> QED  BY <1>1, <2>1, CutFacts, MapFacts
<1>3. CASE file' = Whole /\ saved' = saving
  <2>1. ToXml(saving) \in Seq(Keys \X Value) /\ ParseChildren(ToXml(saving)) = Trimmed(saving)
    BY <1>1, FileRoundTrip
  <2>2. file' = [entries |-> ToXml(saving), closed |-> TRUE]
    BY <1>3 DEF Whole
  <2>3. ParseSettings(file') = Trimmed(saving)
    BY <2>1, <2>2 DEF ParseSettings
  <2> QED  BY <1>1, <1>3, <2>1, <2>2, <2>3
<1> QED  BY <1>2, <1>3 DEF SaveStops

LEMMA SettingsStep ==
    ASSUME FileInv,
           \/ Load \/ Reload \/ SaveBegin \/ SaveEnd \/ SaveFail \/ SettingsCrash
           \/ \E k \in Keys : RemoveKey(k)
           \/ \E e \in Edits : SetString(e[1], e[2])
    PROVE  FileInv'
<1>1. /\ values \in Maps \cup {NotLoaded} /\ saving \in Maps \cup {NotSaving} /\ saved \in Maps
      /\ file \in [entries : Seq(Keys \X Value), closed : BOOLEAN]
      /\ left \in [StepKinds -> Nat]
      /\ ParseSettings(file) = Trimmed(saved)
      /\ saving # NotSaving => saved = EmptyMap
  BY DEF FileInv, SettingsTypeOK
<1>2. CASE Load
  BY <1>1, <1>2, ParsedIsAMap DEF Load, FileInv, SettingsTypeOK
<1>3. CASE Reload
  BY <1>1, <1>3, ParsedIsAMap DEF Reload, FileInv, SettingsTypeOK
<1>4. CASE SaveBegin
  <2>1. left' \in [StepKinds -> Nat]
    BY <1>1, <1>4, SpendKeeps DEF SaveBegin, StepKinds
  <2> QED  BY <1>1, <1>4, <2>1, MapFacts, NoFileFacts DEF SaveBegin, FileInv, SettingsTypeOK
<1>5. CASE SaveEnd \/ SaveFail
  <2>1. saving # NotSaving /\ SaveStops /\ values' = values /\ left' = left /\ saving' = NotSaving
    BY <1>5 DEF SaveEnd, SaveFail, SaveStops
  <2>2. /\ file' \in [entries : Seq(Keys \X Value), closed : BOOLEAN] /\ saved' \in Maps
        /\ ParseSettings(file') = Trimmed(saved')
    BY <2>1, StopFacts
  <2>3. ParseSettings(file)' = Trimmed(saved)'
    BY <2>2
  <2> QED  BY <1>1, <2>1, <2>2, <2>3 DEF FileInv, SettingsTypeOK
<1>7. CASE SettingsCrash
  <2>1. left' \in [StepKinds -> Nat]
    BY <1>1, <1>7, SpendKeeps DEF SettingsCrash, StepKinds
  <2>2. values' = NotLoaded /\ saving' = NotSaving
    BY <1>7 DEF SettingsCrash
  <2>3. /\ file' \in [entries : Seq(Keys \X Value), closed : BOOLEAN] /\ saved' \in Maps
        /\ ParseSettings(file') = Trimmed(saved')
    <3>1. CASE saving = NotSaving /\ UNCHANGED <<file, saved>>
      BY <1>1, <3>1
    <3>2. CASE saving # NotSaving /\ SaveStops
      BY <3>2, StopFacts
    <3> QED  BY <1>7, <3>1, <3>2 DEF SettingsCrash
  <2>4. ParseSettings(file)' = Trimmed(saved)'
    BY <2>3
  <2> QED  BY <1>1, <2>1, <2>2, <2>3, <2>4 DEF FileInv, SettingsTypeOK
<1>8. ASSUME NEW k \in Keys, RemoveKey(k) PROVE FileInv'
  <2>1. left' \in [StepKinds -> Nat]
    BY <1>1, <1>8, SpendKeeps DEF RemoveKey, StepKinds
  <2>2. values \in Maps /\ values' = [x \in DOMAIN values \ {k} |-> values[x]]
    BY <1>1, <1>8 DEF RemoveKey
  <2>3. values' \in Maps
    BY <2>2, MapFacts
  <2>4. UNCHANGED <<file, saving, saved>>
    BY <1>8 DEF RemoveKey
  <2> QED  BY <1>1, <2>1, <2>3, <2>4 DEF FileInv, SettingsTypeOK
<1>9. ASSUME NEW e \in Edits, SetString(e[1], e[2]) PROVE FileInv'
  <2>1. left' \in [StepKinds -> Nat]
    BY <1>1, <1>9, SpendKeeps DEF SetString, StepKinds
  <2>2. e[1] \in Keys /\ e[2] \in Value
    BY SettingsAssumption
  <2>3. /\ values \in Maps
        /\ values' = [x \in DOMAIN values \cup {e[1]} |-> IF x = e[1] THEN e[2] ELSE values[x]]
    BY <1>1, <1>9 DEF SetString
  <2>4. values' \in Maps
    BY <2>2, <2>3, MapFacts
  <2>5. UNCHANGED <<file, saving, saved>>
    BY <1>9 DEF SetString
  <2> QED  BY <1>1, <2>1, <2>4, <2>5 DEF FileInv, SettingsTypeOK
<1> QED  BY <1>2, <1>3, <1>4, <1>5, <1>7, <1>8, <1>9

-----------------------------------------------------------------------------
(* What carries each part of the invariant over a step that leaves most of the state alone. *)

LEMMA IInvIsParts == IInv <=> Parts
BY DEF IInv, Parts, TypeOK, FileInv, InstType, MdnsType, LinkType, CallsInv, CallOK

LEMMA CallsStep ==
    ASSUME CallsInv, NEW i, CallOK(i)',
           installed # None => installed' # None,
           \A j \in Instances : j # i =>
              /\ call'[j] = call[j] /\ todo'[j] = todo[j] /\ registered'[j] = registered[j]
              /\ mode'[j] = mode[j] /\ arg'[j] = arg[j] /\ handle'[j] = handle[j]
              /\ conn'[j] = conn[j]
    PROVE  CallsInv'
BY DEF CallsInv, CallOK

LEMMA CallsFrame ==
    ASSUME CallsInv, UNCHANGED <<call, todo, registered, mode, arg, handle, conn, installed>>
    PROVE  CallsInv'
BY DEF CallsInv, CallOK

LEMMA DaemonFrame ==
    ASSUME DaemonInv, InstType, InstType', UNCHANGED <<installed, adv>>,
           installed = None => \A d \in Instances : handle'[d] = None,
           \A j \in Instances : \A n \in Names :
              mode[j] = "dns" /\ Accountable(j, n) => mode'[j] = "dns" /\ Accountable(j, n)',
           \A j \in Instances : mode'[j] = "dns" /\ registered'[j] # <<>> =>
              mode[j] = "dns" /\ Range(registered'[j]) \subseteq Range(registered[j])
    PROVE  DaemonInv'
<1>1. installed' = None => \A d \in Instances : handle'[d] = None /\ adv'[d] = Nothing
  BY DEF DaemonInv
<1>2. \A j \in Instances : \A s \in Seq(Names) : s # <<>> <=> \E x : x \in Range(s)
  BY RangeFacts
<1>3. \A j \in Instances : registered[j] \in Seq(Names) /\ registered'[j] \in Seq(Names)
  BY DEF InstType
<1>4. \A j \in Instances : mode'[j] = "dns" /\ registered'[j] # <<>> => installed' # None
  <2> SUFFICES ASSUME NEW j \in Instances, mode'[j] = "dns", registered'[j] # <<>>
               PROVE  installed' # None
    OBVIOUS
  <2>1. mode[j] = "dns" /\ registered[j] # <<>>
    BY <1>2, <1>3
  <2> QED  BY <2>1 DEF DaemonInv
<1>5. installed' # None => \A n \in Names, j \in Instances :
          adv'[installed'][n] = j => mode'[j] = "dns" /\ Accountable(j, n)'
  BY DEF DaemonInv
<1>6. ASSUME NEW j \in Instances, NEW n \in Range(registered'[j]), mode'[j] = "dns", Exclusive(j, n)
      PROVE  \E d \in Instances : adv'[d][n] = j
  <2>1. registered'[j] # <<>>
    BY <1>2, <1>3, <1>6
  <2>2. n \in Range(registered[j]) /\ mode[j] = "dns"
    BY <1>6, <2>1
  <2> QED  BY <1>6, <2>2 DEF DaemonInv
<1> QED  BY <1>1, <1>4, <1>5, <1>6 DEF DaemonInv, Exclusive

LEMMA ServerFrame ==
    ASSUME ServerInv, UNCHANGED <<owner, members, sent, contested>>,
           \A j \in Instances : conn'[j] # 0 =>
              /\ conn'[j] = conn[j]
              /\ \A n \in Names : Accountable(j, n) => Accountable(j, n)'
              /\ Range(registered'[j]) \subseteq Range(registered[j])
    PROVE  ServerInv'
<1>1. ASSUME NEW j \in Instances, conn'[j] # 0 PROVE LinkOK(j)'
  <2>1. LinkOK(j) /\ conn'[j] = conn[j]
    BY <1>1 DEF ServerInv
  <2>2. \A n \in Names : Accountable(j, n) => Accountable(j, n)'
    BY <1>1
  <2>3. Range(registered'[j]) \subseteq Range(registered[j])
    BY <1>1
  <2>4. sent'[conn'[j]] = sent[conn[j]]
    BY <2>1
  <2>5. Answered(sent[conn[j]], j)'
    BY <1>1, <2>1, <2>2, <2>3, <2>4 DEF LinkOK, Answered
  <2> QED  BY <1>1, <2>1, <2>2, <2>3, <2>4, <2>5 DEF LinkOK
<1>2. \A j \in Instances : LinkOK(j)'
  BY <1>1 DEF LinkOK
<1> QED  BY <1>2 DEF ServerInv

LEMMA FileUnspent ==
    ASSUME FileInv, UNCHANGED <<settingsVars, left>>
    PROVE  FileInv'
BY DEF FileInv, SettingsTypeOK, settingsVars

LEMMA FileSpent ==
    ASSUME FileInv, UNCHANGED settingsVars, NEW kind \in StepKinds, Spend(kind)
    PROVE  FileInv'
<1>1. left \in [StepKinds -> Nat]
  BY DEF FileInv, SettingsTypeOK
<1> QED  BY <1>1, SpendKeeps, FileKept

-----------------------------------------------------------------------------
(* The steps of an instance that leave the daemons and the server alone. *)

LEMMA NewOnDnsKeeps ==
    ASSUME Parts, NEW i \in Instances, NewOnDns(i)
    PROVE  Parts'
<1>1. FileInv /\ InstType /\ MdnsType /\ LinkType /\ CallsInv /\ DaemonInv /\ ServerInv
  BY DEF Parts
<1>2. FileInv'
  BY <1>1, FileUnspent DEF NewOnDns
<1>3. InstType'
  BY <1>1 DEF NewOnDns, InstType
<1>4. MdnsType' /\ LinkType'
  BY <1>1 DEF NewOnDns, MdnsType, LinkType, mdnsVars, serverVars, linkVars
<1>5. CallOK(i) /\ mode[i] = "none"
  BY <1>1 DEF NewOnDns, CallsInv
<1>6. CallOK(i)'
  BY <1>1, <1>5 DEF NewOnDns, CallOK, InstType, linkVars, mdnsVars
<1>7. CallsInv'
  BY <1>1, <1>6, CallsStep DEF NewOnDns, InstType, linkVars, mdnsVars
<1>8. DaemonInv'
  <2>1. \A j \in Instances : mode'[j] = IF j = i THEN "dns" ELSE mode[j]
    BY <1>1 DEF NewOnDns, InstType
  <2>2. UNCHANGED <<registered, todo, installed, adv, handle>>
    BY DEF NewOnDns, mdnsVars
  <2>3. registered[i] = <<>>
    BY <1>5 DEF CallOK
  <2>4. \A j \in Instances : \A n \in Names : Accountable(j, n) => Accountable(j, n)'
    BY <2>2 DEF Accountable
  <2>5. installed = None => \A d \in Instances : handle'[d] = None
    BY <1>1, <2>2 DEF DaemonInv
  <2> QED  BY <1>1, <1>3, <1>5, <2>1, <2>2, <2>3, <2>4, <2>5, DaemonFrame
<1>9. ServerInv'
  BY <1>1, ServerFrame DEF NewOnDns, serverVars, linkVars, Accountable
<1> QED  BY <1>2, <1>3, <1>4, <1>7, <1>8, <1>9 DEF Parts

\* A step that changes none of the lists, modes or connections, and hands out no daemon
\* before one is installed.
LEMMA SameLists ==
    ASSUME Parts, InstType', UNCHANGED <<mode, registered, todo, installed, adv, conn, owner, members,
                                         sent, contested>>,
           installed = None => \A d \in Instances : handle'[d] = None
    PROVE  DaemonInv' /\ ServerInv'
<1>1. InstType /\ DaemonInv /\ ServerInv
  BY DEF Parts
<1>2. \A j \in Instances : \A n \in Names : Accountable(j, n) => Accountable(j, n)'
  BY DEF Accountable
<1>3. DaemonInv'
  BY <1>1, <1>2, DaemonFrame
<1>4. ServerInv'
  BY <1>1, <1>2, ServerFrame
<1> QED  BY <1>3, <1>4

LEMMA CreateFailsKeeps ==
    ASSUME Parts, NEW i \in Instances, CreateFails(i)
    PROVE  Parts'
<1>1. FileInv /\ InstType /\ MdnsType /\ LinkType /\ CallsInv /\ DaemonInv /\ ServerInv
  BY DEF Parts
<1>2. FileInv'
  BY <1>1, FileUnspent DEF CreateFails
<1>3. InstType'
  BY <1>1 DEF CreateFails, InstType
<1>4. MdnsType' /\ LinkType'
  BY <1>1 DEF CreateFails, MdnsType, LinkType, mdnsVars, serverVars, linkVars
<1>5. CallOK(i)
  BY <1>1 DEF CallsInv
<1>6. CallOK(i)'
  BY <1>1, <1>5 DEF CreateFails, CallOK, InstType, linkVars, mdnsVars
<1>7. CallsInv'
  BY <1>1, <1>6, CallsStep DEF CreateFails, InstType, linkVars, mdnsVars
<1>8. DaemonInv' /\ ServerInv'
  BY <1>1, <1>3, SameLists DEF CreateFails, linkVars, mdnsVars, serverVars, DaemonInv
<1> QED  BY <1>2, <1>3, <1>4, <1>7, <1>8 DEF Parts

LEMMA GetStateFacts ==
    ASSUME InstType, MdnsType, DaemonInv, NEW i \in Instances, GetState(i)
    PROVE  /\ call' \in [Instances -> {"none", "create", "use", "withdraw", "drop"}]
           /\ handle' \in [Instances -> Instances \cup {None}]
           /\ call'[i] \in {"create", "use"} /\ (call'[i] = "use" => handle'[i] # None)
           /\ \A j \in Instances : j # i => call'[j] = call[j] /\ handle'[j] = handle[j]
           /\ installed = None => \A d \in Instances : handle'[d] = None
BY DEF InstType, MdnsType, DaemonInv, GetState

LEMMA RegisterDnsKeeps ==
    ASSUME Parts, NEW i \in Instances, NEW n \in Registers[i], RegisterDns(i, n)
    PROVE  Parts'
<1>1. FileInv /\ InstType /\ MdnsType /\ LinkType /\ CallsInv /\ DaemonInv /\ ServerInv
  BY DEF Parts
<1>2. FileInv'
  BY <1>1, FileSpent DEF RegisterDns, StepKinds
<1>g. /\ call' \in [Instances -> {"none", "create", "use", "withdraw", "drop"}]
      /\ handle' \in [Instances -> Instances \cup {None}]
      /\ call'[i] \in {"create", "use"} /\ (call'[i] = "use" => handle'[i] # None)
      /\ \A j \in Instances : j # i => call'[j] = call[j] /\ handle'[j] = handle[j]
      /\ installed = None => \A d \in Instances : handle'[d] = None
  BY <1>1, GetStateFacts DEF RegisterDns
<1>n. n \in Names
  BY DiscoveryAssumption
<1>3. InstType'
  BY <1>1, <1>g, <1>n DEF RegisterDns, InstType
<1>4. MdnsType' /\ LinkType'
  BY <1>1 DEF RegisterDns, MdnsType, LinkType, mdnsVars, serverVars, linkVars
<1>5. CallOK(i) /\ mode[i] = "dns" /\ call[i] = "none"
  BY <1>1 DEF CallsInv, RegisterDns, Idle
<1>6. CallOK(i)'
  BY <1>1, <1>5, <1>g DEF RegisterDns, CallOK, InstType, linkVars, mdnsVars
<1>7. CallsInv'
  BY <1>1, <1>6, <1>g, CallsStep DEF RegisterDns, InstType, linkVars, mdnsVars
<1>8. DaemonInv' /\ ServerInv'
  BY <1>3, <1>g, SameLists DEF RegisterDns, linkVars, mdnsVars, serverVars
<1> QED  BY <1>2, <1>3, <1>4, <1>7, <1>8 DEF Parts

LEMMA RefreshBeginKeeps ==
    ASSUME Parts, NEW i \in Instances, RefreshBegin(i)
    PROVE  Parts'
<1>1. FileInv /\ InstType /\ MdnsType /\ LinkType /\ CallsInv /\ DaemonInv /\ ServerInv
  BY DEF Parts
<1>2. FileInv'
  BY <1>1, FileSpent DEF RefreshBegin, StepKinds
<1>g. /\ call' \in [Instances -> {"none", "create", "use", "withdraw", "drop"}]
      /\ handle' \in [Instances -> Instances \cup {None}]
      /\ call'[i] \in {"create", "use"} /\ (call'[i] = "use" => handle'[i] # None)
      /\ \A j \in Instances : j # i => call'[j] = call[j] /\ handle'[j] = handle[j]
      /\ installed = None => \A d \in Instances : handle'[d] = None
  BY <1>1, GetStateFacts DEF RefreshBegin
<1>3. InstType'
  BY <1>1, <1>g DEF RefreshBegin, InstType
<1>4. MdnsType' /\ LinkType'
  BY <1>1 DEF RefreshBegin, MdnsType, LinkType, mdnsVars, serverVars, linkVars
<1>5. CallOK(i) /\ mode[i] # "none" /\ call[i] = "none"
  BY <1>1 DEF CallsInv, RefreshBegin, Idle
<1>6. CallOK(i)'
  BY <1>1, <1>5, <1>g DEF RefreshBegin, CallOK, InstType, linkVars, mdnsVars
<1>7. CallsInv'
  BY <1>1, <1>6, <1>g, CallsStep DEF RefreshBegin, InstType, linkVars, mdnsVars
<1>8. DaemonInv' /\ ServerInv'
  BY <1>3, <1>g, SameLists DEF RefreshBegin, linkVars, mdnsVars, serverVars
<1> QED  BY <1>2, <1>3, <1>4, <1>7, <1>8 DEF Parts

LEMMA RefreshEndKeeps ==
    ASSUME Parts, NEW i \in Instances, RefreshEnd(i)
    PROVE  Parts'
<1>1. FileInv /\ InstType /\ MdnsType /\ LinkType /\ CallsInv /\ DaemonInv /\ ServerInv
  BY DEF Parts
<1>2. /\ call' = [call EXCEPT ![i] = "none"] /\ handle' = [handle EXCEPT ![i] = None]
      /\ UNCHANGED <<settingsVars, mode, registered, arg, todo, mdnsVars, serverVars, linkVars, left>>
      /\ call[i] = "use" /\ arg[i] = None
  BY DEF RefreshEnd
<1>3. InstType' /\ FileInv'
  BY <1>1, <1>2, FileUnspent DEF InstType
<1>4. MdnsType' /\ LinkType'
  BY <1>1, <1>2 DEF MdnsType, LinkType, mdnsVars, serverVars, linkVars
<1>5. CallOK(i)
  BY <1>1 DEF CallsInv
<1>6. CallOK(i)'
  BY <1>1, <1>2, <1>5 DEF CallOK, InstType, linkVars, mdnsVars
<1>7. CallsInv'
  BY <1>1, <1>2, <1>6, CallsStep DEF InstType, linkVars, mdnsVars
<1>8. installed = None => \A d \in Instances : handle'[d] = None
  BY <1>1, <1>2 DEF DaemonInv, InstType
<1>9. DaemonInv' /\ ServerInv'
  BY <1>2, <1>3, <1>8, SameLists DEF linkVars, mdnsVars, serverVars
<1> QED  BY <1>3, <1>4, <1>7, <1>9 DEF Parts

\* Facts about the lists of an instance.
LEMMA ListFacts ==
    ASSUME InstType, NEW j \in Instances
    PROVE  /\ registered[j] \in Seq(Names) /\ todo[j] \in Seq(Names)
           /\ registered[j] # <<>> <=> \E x : x \in Range(registered[j])
           /\ todo[j] # <<>> <=> \E x : x \in Range(todo[j])
           /\ Range(<<>>) = {}
<1>1. registered[j] \in Seq(Names) /\ todo[j] \in Seq(Names)
  BY DEF InstType
<1> QED  BY <1>1, RangeFacts

\* What changes hands between the lists of an instance stays accounted for.
LEMMA ListsMoved ==
    ASSUME Parts, InstType', NEW i \in Instances,
           UNCHANGED <<mode, handle, installed, adv, conn, owner, members, sent, contested>>,
           \A j \in Instances : j # i => registered'[j] = registered[j] /\ todo'[j] = todo[j],
           Range(registered'[i]) \subseteq Range(registered[i]),
           \A n \in Names : Accountable(i, n) => Accountable(i, n)'
    PROVE  DaemonInv' /\ ServerInv'
<1>1. InstType /\ DaemonInv /\ ServerInv
  BY DEF Parts
<1>2. ASSUME NEW j \in Instances
      PROVE  /\ \A n \in Names : Accountable(j, n) => Accountable(j, n)'
             /\ Range(registered'[j]) \subseteq Range(registered[j])
  BY DEF Accountable
<1>3. ServerInv'
  BY <1>1, <1>2, ServerFrame
<1>4. installed = None => \A d \in Instances : handle'[d] = None
  BY <1>1 DEF DaemonInv
<1>5. DaemonInv'
  BY <1>1, <1>2, <1>4, DaemonFrame
<1> QED  BY <1>3, <1>5

LEMMA DeregisterKeeps ==
    ASSUME Parts, NEW i \in Instances, NEW q \in Names, Deregister(i, q)
    PROVE  Parts'
<1>1. FileInv /\ InstType /\ MdnsType /\ LinkType /\ CallsInv /\ DaemonInv /\ ServerInv
  BY DEF Parts
<1>2. PICK S : S = {n \in Names : <<n, q>> \in PartOf}
  OBVIOUS
<1>3. PICK T : T = Names \ S
  OBVIOUS
<1>4. PICK gone, kept : gone = Only(registered[i], S) /\ kept = Only(registered[i], T)
  OBVIOUS
<1>5. /\ todo' = [todo EXCEPT ![i] = gone] /\ registered' = [registered EXCEPT ![i] = kept]
      /\ call' = [call EXCEPT ![i] = "withdraw"]
      /\ UNCHANGED <<settingsVars, mode, sources, arg, handle, mdnsVars, serverVars, linkVars>>
      /\ Spend("calls") /\ mode[i] # "none" /\ call[i] = "none" /\ registered[i] # <<>>
  BY <1>2, <1>3, <1>4 DEF Deregister, Idle
<1>6. registered[i] \in Seq(Names)
  BY <1>1 DEF InstType
<1>7. /\ gone \in Seq(Names) /\ \A x : x \in Range(gone) <=> x \in Range(registered[i]) /\ x \in S
      /\ kept \in Seq(Names) /\ \A x : x \in Range(kept) <=> x \in Range(registered[i]) /\ x \in T
  BY <1>4, <1>6, OnlyFacts
<1>8. FileInv' /\ InstType'
  BY <1>1, <1>5, <1>7, FileSpent DEF InstType, StepKinds
<1>9. MdnsType' /\ LinkType'
  BY <1>1, <1>5 DEF MdnsType, LinkType, mdnsVars, serverVars, linkVars
<1>10. CallOK(i) /\ todo[i] = <<>> /\ arg[i] = None
  BY <1>1, <1>5 DEF CallsInv, CallOK
<1>11. /\ registered'[i] = kept /\ todo'[i] = gone /\ call'[i] = "withdraw"
       /\ mode'[i] = mode[i] /\ arg'[i] = arg[i] /\ conn'[i] = conn[i] /\ installed' = installed
  BY <1>1, <1>5 DEF InstType, linkVars, mdnsVars
<1>12. mode[i] = "dns" => installed # None
  BY <1>1, <1>5 DEF DaemonInv
<1>13. CallOK(i)'
  BY <1>3, <1>5, <1>7, <1>10, <1>11, <1>12 DEF CallOK
<1>14. CallsInv'
  BY <1>1, <1>5, <1>13, CallsStep DEF InstType, linkVars, mdnsVars
<1>15. \A x : x \in Range(registered[i]) => x \in Names
  BY <1>6, RangeFacts
<1>16. Range(<<>>) = {}
  BY <1>1, ListFacts
<1>17. \A n \in Names : Accountable(i, n) => Accountable(i, n)'
  BY <1>3, <1>7, <1>10, <1>11, <1>16 DEF Accountable
<1>18. Range(registered'[i]) \subseteq Range(registered[i])
  BY <1>7, <1>11
<1>19. DaemonInv' /\ ServerInv'
  BY <1>1, <1>5, <1>8, <1>17, <1>18, ListsMoved DEF InstType, linkVars, mdnsVars, serverVars
<1> QED  BY <1>8, <1>9, <1>14, <1>19 DEF Parts

LEMMA DeregisterAllKeeps ==
    ASSUME Parts, NEW i \in Instances, DeregisterAll(i)
    PROVE  Parts'
<1>1. FileInv /\ InstType /\ MdnsType /\ LinkType /\ CallsInv /\ DaemonInv /\ ServerInv
  BY DEF Parts
<1>2. PICK next \in {"withdraw", "drop"} : call' = [call EXCEPT ![i] = next]
  BY DEF DeregisterAll
<1>5. /\ todo' = [todo EXCEPT ![i] = registered[i]] /\ registered' = [registered EXCEPT ![i] = <<>>]
      /\ UNCHANGED <<settingsVars, mode, sources, arg, handle, mdnsVars, serverVars, linkVars, left>>
      /\ mode[i] # "none" /\ call[i] = "none"
  BY DEF DeregisterAll, Idle
<1>6. registered[i] \in Seq(Names)
  BY <1>1 DEF InstType
<1>8. FileInv' /\ InstType'
  BY <1>1, <1>2, <1>5, <1>6, FileUnspent DEF InstType
<1>9. MdnsType' /\ LinkType'
  BY <1>1, <1>5 DEF MdnsType, LinkType, mdnsVars, serverVars, linkVars
<1>10. CallOK(i) /\ todo[i] = <<>> /\ arg[i] = None
  BY <1>1, <1>5 DEF CallsInv, CallOK
<1>11. /\ registered'[i] = <<>> /\ todo'[i] = registered[i] /\ call'[i] \in {"withdraw", "drop"}
       /\ mode'[i] = mode[i] /\ arg'[i] = arg[i] /\ conn'[i] = conn[i] /\ installed' = installed
  BY <1>1, <1>2, <1>5 DEF InstType, linkVars, mdnsVars
<1>12. mode[i] = "dns" /\ registered[i] # <<>> => installed # None
  BY <1>1, <1>5 DEF DaemonInv
<1>16. Range(<<>>) = {}
  BY <1>1, ListFacts
<1>13. CallOK(i)'
  BY <1>5, <1>10, <1>11, <1>12, <1>16 DEF CallOK
<1>14. CallsInv'
  BY <1>1, <1>2, <1>5, <1>13, CallsStep DEF InstType, linkVars, mdnsVars
<1>17. \A n \in Names : Accountable(i, n) => Accountable(i, n)'
  BY <1>10, <1>11, <1>16 DEF Accountable
<1>18. Range(registered'[i]) \subseteq Range(registered[i])
  BY <1>11, <1>16
<1>19. DaemonInv' /\ ServerInv'
  BY <1>1, <1>5, <1>8, <1>17, <1>18, ListsMoved DEF InstType, linkVars, mdnsVars, serverVars
<1> QED  BY <1>8, <1>9, <1>14, <1>19 DEF Parts

LEMMA WithdrawnKeeps ==
    ASSUME Parts, NEW i \in Instances, Withdrawn(i)
    PROVE  Parts'
<1>1. FileInv /\ InstType /\ MdnsType /\ LinkType /\ CallsInv /\ DaemonInv /\ ServerInv
  BY DEF Parts
<1>2. /\ call[i] \in {"withdraw", "drop"} /\ todo[i] = <<>> /\ call' = [call EXCEPT ![i] = "none"]
      /\ UNCHANGED <<settingsVars, registered, arg, handle, todo, mdnsVars, serverVars, sent, conns, left>>
      /\ \A j \in Instances : j # i => mode'[j] = mode[j] /\ conn'[j] = conn[j]
  BY <1>1 DEF Withdrawn, InstType, LinkType
<1>3. /\ mode' \in [Instances -> {"none", "dns", "server"}]
      /\ conn' \in [Instances -> 0..conns] /\ view' \in [Instances -> SUBSET (Names \X AllPorts)]
  <2>1. 0 \in 0..conns
    BY <1>1, DiscoveryAssumption DEF LinkType
  <2> QED  BY <1>1, <2>1 DEF Withdrawn, InstType, LinkType
<1>4. \/ call[i] = "drop" /\ mode'[i] = "none" /\ conn'[i] = 0
      \/ call[i] # "drop" /\ mode'[i] = mode[i] /\ conn'[i] = conn[i]
  BY <1>1 DEF Withdrawn, InstType, LinkType
<1>5. FileInv' /\ InstType'
  BY <1>1, <1>2, <1>3, FileUnspent DEF InstType
<1>6. MdnsType' /\ LinkType'
  BY <1>1, <1>2, <1>3 DEF MdnsType, LinkType, mdnsVars, serverVars
<1>7. CallOK(i)
  BY <1>1 DEF CallsInv
<1>8. CallOK(i)'
  BY <1>1, <1>2, <1>4, <1>7 DEF CallOK, InstType, mdnsVars
<1>9. CallsInv'
  BY <1>1, <1>2, <1>8, CallsStep DEF InstType, mdnsVars
<1>10. \A j \in Instances : \A n \in Names : Accountable(j, n) <=> Accountable(j, n)'
  BY <1>2 DEF Accountable
<1>11. call[i] = "drop" => registered[i] = <<>> /\ \A n \in Names : ~Accountable(i, n)
  BY <1>1, <1>2, <1>7, ListFacts DEF CallOK, Accountable
<1>12. DaemonInv'
  <2>1. \A j \in Instances : \A n \in Names :
           mode[j] = "dns" /\ Accountable(j, n) => mode'[j] = "dns" /\ Accountable(j, n)'
    BY <1>2, <1>4, <1>10, <1>11
  <2>2. \A j \in Instances : mode'[j] = "dns" /\ registered'[j] # <<>> =>
           mode[j] = "dns" /\ Range(registered'[j]) \subseteq Range(registered[j])
    BY <1>2, <1>4
  <2>3. installed = None => \A d \in Instances : handle'[d] = None
    BY <1>1, <1>2 DEF DaemonInv
  <2> QED  BY <1>1, <1>2, <1>5, <2>1, <2>2, <2>3, DaemonFrame DEF mdnsVars
<1>13. ServerInv'
  BY <1>1, <1>2, <1>4, <1>10, ServerFrame DEF serverVars
<1> QED  BY <1>5, <1>6, <1>9, <1>12, <1>13 DEF Parts

-----------------------------------------------------------------------------
(* The daemon. *)

LEMMA InstallStateKeeps ==
    ASSUME Parts, NEW i \in Instances, InstallState(i)
    PROVE  Parts'
<1>1. FileInv /\ InstType /\ MdnsType /\ LinkType /\ CallsInv /\ DaemonInv /\ ServerInv
  BY DEF Parts
<1>2. /\ call[i] = "create" /\ installed' = IF installed = None THEN i ELSE installed
      /\ handle' = [handle EXCEPT ![i] = i] /\ call' = [call EXCEPT ![i] = "use"]
      /\ UNCHANGED <<settingsVars, mode, registered, sources, arg, todo, adv, found, serverVars,
                     linkVars, left>>
  BY DEF InstallState
<1>3. i # None /\ \A j \in Instances : j # None
  BY DiscoveryAssumption DEF AllPorts
<1>4. FileInv' /\ InstType'
  BY <1>1, <1>2, FileUnspent DEF InstType
<1>5. MdnsType' /\ LinkType'
  BY <1>1, <1>2 DEF MdnsType, LinkType, serverVars, linkVars
<1>6. CallOK(i)
  BY <1>1 DEF CallsInv
<1>7. CallOK(i)'
  BY <1>1, <1>2, <1>3, <1>6 DEF CallOK, InstType, linkVars
<1>8. CallsInv'
  BY <1>1, <1>2, <1>3, <1>7, CallsStep DEF InstType, linkVars
<1>9. \A j \in Instances : \A n \in Names : Accountable(j, n) <=> Accountable(j, n)'
  BY <1>2 DEF Accountable
<1>10. ServerInv'
  BY <1>1, <1>2, <1>9, ServerFrame DEF serverVars, linkVars
<1>11. installed' # None
  BY <1>2, <1>3
<1>12. \A n \in Names, j \in Instances :
          adv'[installed'][n] = j => mode'[j] = "dns" /\ Accountable(j, n)'
  <2>1. CASE installed = None
    <3>1. installed' = i /\ adv'[i] = Nothing
      BY <1>1, <1>2, <2>1 DEF DaemonInv
    <3> QED  BY <1>3, <3>1 DEF Nothing
  <2>2. CASE installed # None
    BY <1>1, <1>2, <1>9, <2>2 DEF DaemonInv
  <2> QED  BY <2>1, <2>2
<1>13. DaemonInv'
  BY <1>1, <1>2, <1>11, <1>12 DEF DaemonInv, Exclusive
<1> QED  BY <1>4, <1>5, <1>8, <1>10, <1>13 DEF Parts

LEMMA AdvertiseKeeps ==
    ASSUME Parts, NEW i \in Instances, Advertise(i)
    PROVE  Parts'
<1>1. FileInv /\ InstType /\ MdnsType /\ LinkType /\ CallsInv /\ DaemonInv /\ ServerInv
  BY DEF Parts
<1>2. /\ call[i] = "use" /\ arg[i] # None
      /\ call' = [call EXCEPT ![i] = "none"] /\ arg' = [arg EXCEPT ![i] = None]
      /\ handle' = [handle EXCEPT ![i] = None]
      /\ UNCHANGED <<settingsVars, mode, sources, todo, installed, found, serverVars, linkVars, left>>
  BY DEF Advertise
<1>3. PICK a, d : a = arg[i] /\ d = handle[i]
  OBVIOUS
<1>4. CallOK(i)
  BY <1>1 DEF CallsInv
<1>5. a \in Names /\ a \in Registers[i] /\ d \in Instances /\ mode[i] = "dns" /\ conn[i] = 0 /\ todo[i] = <<>>
  BY <1>1, <1>2, <1>3, <1>4, DiscoveryAssumption DEF CallOK, InstType
<1>6. installed # None
  BY <1>1, <1>2, <1>3, <1>4 DEF CallOK, DaemonInv
<1>7. FileInv' /\ LinkType'
  BY <1>1, <1>2, FileUnspent DEF LinkType, serverVars, linkVars
<1>8. CASE UNCHANGED <<adv, registered>>
  <2>1. InstType'
    BY <1>1, <1>2, <1>8 DEF InstType
  <2>2. MdnsType'
    BY <1>1, <1>2, <1>8 DEF MdnsType
  <2>3. CallOK(i)'
    BY <1>1, <1>2, <1>4, <1>5, <1>8 DEF CallOK, InstType, linkVars
  <2>4. CallsInv'
    BY <1>1, <1>2, <1>8, <2>3, CallsStep DEF InstType, linkVars
  <2>5. DaemonInv' /\ ServerInv'
    BY <1>2, <1>6, <1>8, <2>1, SameLists DEF linkVars, serverVars
  <2> QED  BY <1>7, <2>1, <2>2, <2>4, <2>5 DEF Parts
<1>9. CASE /\ adv' = [adv EXCEPT ![handle[i]][arg[i]] = i]
           /\ registered' = [registered EXCEPT ![i] = Append(@, arg[i])]
  <2>1. registered[i] \in Seq(Names)
    BY <1>1 DEF InstType
  <2>2. /\ registered' = [registered EXCEPT ![i] = Append(registered[i], a)]
        /\ adv' = [adv EXCEPT ![d] = [adv[d] EXCEPT ![a] = i]]
    BY <1>3, <1>9
  <2>3. Append(registered[i], a) \in Seq(Names) /\ Range(Append(registered[i], a)) = Range(registered[i]) \cup {a}
    BY <1>5, <2>1, RangeFacts
  <2>4. /\ registered' \in [Instances -> Seq(Names)]
        /\ Range(registered'[i]) = Range(registered[i]) \cup {a}
        /\ \A j \in Instances : j # i => registered'[j] = registered[j]
    BY <1>1, <2>2, <2>3 DEF InstType
  <2>5. /\ adv' \in [Instances -> [Names -> Instances \cup {None}]]
        /\ \A x \in Instances, n \in Names : adv'[x][n] = IF x = d /\ n = a THEN i ELSE adv[x][n]
    BY <1>1, <1>5, <2>2 DEF MdnsType
  <2>6. InstType' /\ MdnsType'
    BY <1>1, <1>2, <2>4, <2>5 DEF InstType, MdnsType
  <2>7. Range(<<>>) = {}
    BY <1>1, ListFacts
  <2>8. CallOK(i)'
    BY <1>1, <1>2, <1>4, <1>5, <2>4, <2>7 DEF CallOK, InstType, linkVars
  <2>9. CallsInv'
    BY <1>1, <1>2, <2>4, <2>8, CallsStep DEF InstType, linkVars
  <2>10. \A j \in Instances : \A n \in Names : Accountable(j, n) => Accountable(j, n)'
    BY <1>2, <2>4 DEF Accountable
  <2>11. Accountable(i, a)'
    BY <2>4 DEF Accountable
  <2>12. ServerInv'
    <3>1. \A j \in Instances : conn'[j] # 0 => j # i /\ conn'[j] = conn[j]
      BY <1>2, <1>5 DEF linkVars
    <3> QED  BY <1>1, <1>2, <2>4, <2>10, <3>1, ServerFrame DEF serverVars, linkVars
  <2>13. installed \in Instances
    BY <1>1, <1>6 DEF MdnsType
  <2>14. \A n \in Names, j \in Instances :
            adv'[installed'][n] = j => mode'[j] = "dns" /\ Accountable(j, n)'
    BY <1>1, <1>2, <1>5, <1>6, <2>5, <2>10, <2>11, <2>13 DEF DaemonInv
  <2>15. ASSUME NEW j \in Instances, NEW n \in Range(registered'[j]), mode'[j] = "dns", Exclusive(j, n)
         PROVE  \E x \in Instances : adv'[x][n] = j
    <3>1. CASE j = i /\ n = a
      BY <1>5, <2>5, <3>1
    <3>2. CASE ~(j = i /\ n = a)
      <4>1. n \in Range(registered[j])
        BY <2>4, <2>15, <3>2
      <4>2. PICK x \in Instances : adv[x][n] = j
        BY <1>1, <1>2, <2>15, <4>1 DEF DaemonInv
      <4>3. n \in Names
        BY <1>1, <4>1, ListFacts, RangeFacts
      <4>4. n = a => j = i
        BY <1>5, <2>15 DEF Exclusive
      <4> QED  BY <2>5, <3>2, <4>2, <4>3, <4>4
    <3> QED  BY <3>1, <3>2
  <2>16. DaemonInv'
    BY <1>2, <1>6, <2>14, <2>15 DEF DaemonInv, Exclusive
  <2> QED  BY <1>7, <2>6, <2>9, <2>12, <2>16 DEF Parts
<1> QED  BY <1>8, <1>9 DEF Advertise

\* The next of the names to withdraw.
LEMMA TodoFacts ==
    ASSUME InstType, CallsInv, NEW i \in Instances, todo[i] # <<>>, todo' = [todo EXCEPT ![i] = Tail(@)],
           UNCHANGED registered, NEW h, h = Head(todo[i])
    PROVE  /\ h \in Names /\ h \in Registers[i] /\ h \notin Range(registered[i])
           /\ todo' \in [Instances -> Seq(Names)]
           /\ Range(todo'[i]) \subseteq Range(todo[i])
           /\ \A j \in Instances : j # i => todo'[j] = todo[j]
           /\ \A j \in Instances : \A n \in Names :
                 Accountable(j, n) => Accountable(j, n)' \/ (j = i /\ n = h)
<1>1. todo[i] \in Seq(Names)
  BY DEF InstType
<1>2. /\ h \in Names /\ h \in Range(todo[i]) /\ Tail(todo[i]) \in Seq(Names)
      /\ Range(todo[i]) = Range(Tail(todo[i])) \cup {h}
  BY <1>1, RangeFacts
<1>3. CallOK(i)
  BY DEF CallsInv
<1>4. todo'[i] = Tail(todo[i]) /\ \A j \in Instances : j # i => todo'[j] = todo[j]
  BY DEF InstType
<1>5. todo' \in [Instances -> Seq(Names)]
  BY <1>2 DEF InstType
<1>6. h \in Registers[i] /\ h \notin Range(registered[i])
  BY <1>2, <1>3 DEF CallOK
<1>7. \A j \in Instances : \A n \in Names :
         Accountable(j, n) => Accountable(j, n)' \/ (j = i /\ n = h)
  BY <1>2, <1>4 DEF Accountable
<1> QED  BY <1>2, <1>4, <1>5, <1>6, <1>7

-----------------------------------------------------------------------------
(* The requests on their way to the server. *)

Request == {"add", "remove"} \X Names \X Instances

\* t is s with r at its end.
Longer(s, r, t) ==
    /\ \A x : InQueue(t, x) <=> InQueue(s, x) \/ x = r
    /\ \A p \in DOMAIN s : Behind(t, p, r) /\ \A x : Behind(s, p, x) => Behind(t, p, x)
    /\ \A p \in DOMAIN t : (p \in DOMAIN s /\ t[p] = s[p]) \/ t[p] = r

LEMMA AppendQueue ==
    ASSUME NEW s \in Seq(Request), NEW r \in Request
    PROVE  Longer(s, r, Append(s, r))
<1> DEFINE t == Append(s, r)
<1>1. Len(s) \in Nat /\ DOMAIN s = 1..Len(s)
  BY LenProperties
<1>2. /\ t \in Seq(Request) /\ Len(t) = Len(s) + 1
      /\ (\A i \in 1..Len(s) : t[i] = s[i]) /\ t[Len(s) + 1] = r
  BY AppendProperties
<1> HIDE DEF t
<1>3. DOMAIN t = 1..(Len(s) + 1)
  BY <1>2, LenProperties
<1>4. \A p \in DOMAIN t : p \in DOMAIN s \/ p = Len(s) + 1
  BY <1>1, <1>3
<1>5. Len(s) + 1 \in DOMAIN t /\ \A p \in DOMAIN s : p \in DOMAIN t /\ Len(s) + 1 > p
  BY <1>1, <1>3
<1>6. \A p \in DOMAIN s : t[p] = s[p]
  BY <1>1, <1>2
<1>7. \A x : InQueue(t, x) <=> InQueue(s, x) \/ x = r
  BY <1>2, <1>4, <1>5, <1>6 DEF InQueue
<1>8. \A p \in DOMAIN s : \A x : Behind(s, p, x) => Behind(t, p, x)
  BY <1>5, <1>6 DEF Behind
<1>9. \A p \in DOMAIN s : Behind(t, p, r)
  BY <1>2, <1>5 DEF Behind
<1> QED  BY <1>2, <1>4, <1>6, <1>7, <1>8, <1>9 DEF Longer, t

\* t is s without its first request, r.
Shorter(s, r, t) ==
    /\ \A x : InQueue(s, x) => InQueue(t, x) \/ x = r
    /\ \A p \in DOMAIN t : \E q \in DOMAIN s :
          t[p] = s[q] /\ \A x : Behind(s, q, x) => Behind(t, p, x)
    /\ \E q \in DOMAIN s : s[q] = r /\ \A x : Behind(s, q, x) => InQueue(t, x)

LEMMA TailQueue ==
    ASSUME NEW s \in Seq(Request), s # <<>>
    PROVE  Shorter(s, Head(s), Tail(s)) /\ Tail(s) \in Seq(Request) /\ Head(s) \in Request
<1> DEFINE t == Tail(s)
<1>1. Len(s) \in Nat /\ DOMAIN s = 1..Len(s)
  BY LenProperties
<1>2. Head(s) \in Request /\ t \in Seq(Request) /\ Len(t) = Len(s) - 1 /\ Len(s) \in Nat \ {0}
      /\ (\A i \in 1..Len(t) : t[i] = s[i + 1]) /\ Head(s) = s[1]
  BY HeadTailProperties, EmptySeq
<1> HIDE DEF t
<1>3. DOMAIN t = 1..(Len(s) - 1)
  BY <1>2, LenProperties
<1>4. \A p \in DOMAIN t : p \in Nat /\ p + 1 \in DOMAIN s /\ t[p] = s[p + 1]
  BY <1>1, <1>2, <1>3
<1>5. ASSUME NEW q \in DOMAIN s, q # 1 PROVE q - 1 \in DOMAIN t /\ t[q - 1] = s[q]
  <2>1. q - 1 \in 1..(Len(s) - 1) /\ (q - 1) + 1 = q
    BY <1>1, <1>2, <1>5
  <2> QED  BY <1>3, <1>4, <2>1
<1>6. 1 \in DOMAIN s
  BY <1>1, <1>2
<1>7. \A x : InQueue(s, x) => InQueue(t, x) \/ x = Head(s)
  BY <1>2, <1>5 DEF InQueue
<1>9. ASSUME NEW p \in DOMAIN t, NEW x, Behind(s, p + 1, x) PROVE Behind(t, p, x)
  <2>1. PICK q \in DOMAIN s : q > p + 1 /\ s[q] = x
    BY <1>9 DEF Behind
  <2>2. q - 1 > p /\ q # 1
    BY <1>1, <1>4, <2>1
  <2> QED  BY <1>5, <2>1, <2>2 DEF Behind
<1>10. ASSUME NEW x, Behind(s, 1, x) PROVE InQueue(t, x)
  <2>1. PICK q \in DOMAIN s : q > 1 /\ s[q] = x
    BY <1>10 DEF Behind
  <2>2. q # 1
    BY <1>1, <2>1
  <2> QED  BY <1>5, <2>1, <2>2 DEF InQueue
<1>11. Shorter(s, Head(s), t)
  BY <1>2, <1>4, <1>6, <1>7, <1>9, <1>10 DEF Shorter
<1> QED  BY <1>2, <1>11 DEF t

LEMMA EmptyQueue ==
    ASSUME NEW i PROVE Answered(<<>>, i) /\ Answered(<<>>, i)'
<1>1. DOMAIN <<>> = {}
  OBVIOUS
<1> QED  BY <1>1 DEF Answered

\* A request of instance i is written to the connection of instance i; the removal of a source
\* it has no longer registered, or the registration of one.
LEMMA WriteKeeps ==
    ASSUME Parts, NEW i \in Instances, NEW n \in Names, NEW kind \in {"add", "remove"},
           Write(conn[i], <<kind, n, i>>), UNCHANGED <<conn, owner, members, contested>>,
           \A j \in Instances : j # i => registered'[j] = registered[j] /\ todo'[j] = todo[j],
           \A m \in Names : Accountable(i, m) => Accountable(i, m)' \/ (kind = "remove" /\ m = n),
           \A m \in Range(registered'[i]) : m \in Range(registered[i]) \/ (kind = "add" /\ m = n),
           kind = "add" => Accountable(i, n)',
           kind = "remove" => n \notin Range(registered'[i]),
           conn'[i] # 0 => Range(registered'[i]) \subseteq Names
    PROVE  ServerInv' /\ sent' \in [Conns -> Seq(Request)]
<1>1. FileInv /\ InstType /\ MdnsType /\ LinkType /\ CallsInv /\ DaemonInv /\ ServerInv
  BY DEF Parts
<1>2. PICK r : r = <<kind, n, i>>
  OBVIOUS
<1>3. r \in Request
  BY <1>2 DEF Request
<1>4. /\ sent \in [Conns -> Seq(Request)] /\ members \subseteq 1..conns /\ conns \in 0..MaxConns
      /\ conn \in [Instances -> 0..conns] /\ MaxConns \in Nat
  BY <1>1, DiscoveryAssumption DEF LinkType, Request
<1>5. members \subseteq Conns /\ \A j \in Instances : conn[j] # 0 => conn[j] \in Conns
  BY <1>4 DEF Conns
<1>6. ASSUME NEW c \in Conns
      PROVE  sent'[c] = (IF c = conn[i] /\ c \in members THEN Append(sent[c], r) ELSE sent[c])
  BY <1>2, <1>4, <1>5 DEF Write
<1>7. sent' \in [Conns -> Seq(Request)]
  <2>1. \A s \in Seq(Request) : Append(s, r) \in Seq(Request)
    BY <1>3, AppendProperties
  <2> QED  BY <1>2, <1>4, <1>5, <2>1 DEF Write
<1>8. \A c \in Conns : sent'[c] # <<>> => c \in members'
  BY <1>1, <1>6 DEF ServerInv
<1>9. ASSUME NEW j \in Instances, conn'[j] # 0 PROVE LinkOK(j)'
  <2>1. PICK c, s, t : c = conn[j] /\ s = sent[c] /\ t = sent'[c]
    OBVIOUS
  <2>2. c \in Conns /\ c # 0 /\ conn'[j] = c /\ s \in Seq(Request)
    BY <1>4, <1>5, <1>9, <2>1
  <2>3. LinkOK(j)
    BY <1>1 DEF ServerInv
  <2>4. /\ Answered(s, j)
        /\ \A m \in Names : owner[<<m, j>>] = c => Accountable(j, m) \/ InQueue(s, <<"remove", m, j>>)
        /\ c \in members => \A m \in Range(registered[j]) :
              owner[<<m, j>>] = c \/ InQueue(s, <<"add", m, j>>) \/ <<m, j>> \in contested
    BY <2>1, <2>2, <2>3 DEF LinkOK
  <2>5. t = IF c = conn[i] /\ c \in members THEN Append(s, r) ELSE s
    BY <1>6, <2>1, <2>2
  <2>6. j # i => /\ registered'[j] = registered[j]
                 /\ \A m \in Names : Accountable(j, m) <=> Accountable(j, m)'
    BY DEF Accountable
  <2>7. Range(registered[j]) \subseteq Names /\ Range(registered'[j]) \subseteq Names
    BY <1>1, <1>9, <2>6, ListFacts, RangeFacts
  \* The server is gone: nothing is on its way.
  <2>8. CASE c \notin members
    <3>1. s = <<>> /\ t = <<>>
      BY <1>1, <2>1, <2>2, <2>5, <2>8 DEF ServerInv
    <3>2. Answered(t, j)'
      BY <3>1, EmptyQueue
    <3>3. \A m \in Names : owner'[<<m, j>>] # c
      BY <1>1, <2>2, <2>8 DEF ServerInv, Sources
    <3> QED  BY <2>1, <2>2, <2>8, <3>1, <3>2, <3>3, EmptyQueue DEF LinkOK
  \* The connection is another instance's.
  <2>9. CASE c \in members /\ j # i
    <3>1. t = s \/ t = Append(s, r)
      BY <2>5
    <3>2. \A m : r # <<"add", m, j>> /\ r # <<"remove", m, j>>
      BY <1>2, <2>9
    <3>3. /\ \A x : InQueue(s, x) => InQueue(t, x)
          /\ \A p \in DOMAIN s : \A x : Behind(s, p, x) => Behind(t, p, x)
          /\ \A p \in DOMAIN t : (p \in DOMAIN s /\ t[p] = s[p]) \/ t[p] = r
      <4>1. CASE t = s
        BY <4>1
      <4>2. CASE t = Append(s, r)
        <5>1. Longer(s, r, t)
          BY <1>3, <2>2, <4>2, AppendQueue
        <5> QED  BY <5>1 DEF Longer
      <4> QED  BY <3>1, <4>1, <4>2
    <3>4. \A m \in Names, p \in DOMAIN t :
             /\ t[p] = <<"add", m, j>> => Accountable(j, m)' \/ Behind(t, p, <<"remove", m, j>>)
             /\ t[p] = <<"remove", m, j>> /\ m \in Range(registered'[j]) => Behind(t, p, <<"add", m, j>>)
      BY <2>4, <2>6, <2>9, <3>2, <3>3 DEF Answered
    <3>5. Answered(t, j)'
      BY <3>4 DEF Answered
    <3>6. \A m \in Names : owner'[<<m, j>>] = c => Accountable(j, m)' \/ InQueue(t, <<"remove", m, j>>)
      BY <2>4, <2>6, <2>9, <3>3
    <3>7. \A m \in Range(registered'[j]) :
              owner'[<<m, j>>] = c \/ InQueue(t, <<"add", m, j>>) \/ <<m, j>> \in contested'
      BY <2>4, <2>6, <2>9, <3>3
    <3> QED  BY <2>1, <2>2, <3>5, <3>6, <3>7 DEF LinkOK
  <2>10. CASE c \in members /\ j = i
    <3>1. t = Append(s, r)
      BY <2>1, <2>5, <2>10
    <3>a. Longer(s, r, t)
      BY <1>3, <2>2, <3>1, AppendQueue
    <3>2. /\ \A x : InQueue(t, x) <=> InQueue(s, x) \/ x = r
          /\ \A p \in DOMAIN s : \A x : Behind(s, p, x) => Behind(t, p, x)
          /\ \A p \in DOMAIN s : Behind(t, p, r)
          /\ \A p \in DOMAIN t : (p \in DOMAIN s /\ t[p] = s[p]) \/ t[p] = r
      BY <3>a DEF Longer
    <3>3. ASSUME NEW m \in Names, NEW p \in DOMAIN t, t[p] = <<"add", m, i>>
          PROVE  Accountable(i, m)' \/ Behind(t, p, <<"remove", m, i>>)
      <4>1. CASE p \in DOMAIN s /\ t[p] = s[p]
        <5>1. Accountable(i, m) \/ Behind(s, p, <<"remove", m, i>>)
          BY <2>4, <2>10, <3>3, <4>1 DEF Answered
        <5> QED  BY <1>2, <3>2, <4>1, <5>1
      <4>2. CASE t[p] = r
        BY <1>2, <3>3, <4>2
      <4> QED  BY <3>2, <4>1, <4>2
    <3>4. ASSUME NEW m \in Names, NEW p \in DOMAIN t, t[p] = <<"remove", m, i>>, m \in Range(registered'[i])
          PROVE  Behind(t, p, <<"add", m, i>>)
      <4>1. CASE p \in DOMAIN s /\ t[p] = s[p]
        <5>1. m \in Range(registered[i]) => Behind(s, p, <<"add", m, i>>)
          BY <2>4, <2>10, <3>4, <4>1 DEF Answered
        <5> QED  BY <1>2, <3>2, <3>4, <4>1, <5>1
      <4>2. CASE t[p] = r
        BY <1>2, <3>4, <4>2
      <4> QED  BY <3>2, <4>1, <4>2
    <3>5. Answered(t, i)'
      BY <3>3, <3>4 DEF Answered
    <3>6. \A m \in Names : owner'[<<m, i>>] = c => Accountable(i, m)' \/ InQueue(t, <<"remove", m, i>>)
      BY <1>2, <2>4, <2>10, <3>2
    <3>7. \A m \in Range(registered'[i]) :
              owner'[<<m, i>>] = c \/ InQueue(t, <<"add", m, i>>) \/ <<m, i>> \in contested'
      BY <1>2, <2>4, <2>10, <3>2
    <3> QED  BY <2>1, <2>2, <2>10, <3>5, <3>6, <3>7 DEF LinkOK
  <2> QED  BY <2>8, <2>9, <2>10
<1>10. \A j \in Instances : LinkOK(j)'
  BY <1>9 DEF LinkOK
<1>11. ServerInv'
  BY <1>1, <1>8, <1>10 DEF ServerInv
<1> QED  BY <1>7, <1>11

LEMMA RegisterServerKeeps ==
    ASSUME Parts, NEW i \in Instances, NEW n \in Registers[i], RegisterServer(i, n)
    PROVE  Parts'
<1>1. FileInv /\ InstType /\ MdnsType /\ LinkType /\ CallsInv /\ DaemonInv /\ ServerInv
  BY DEF Parts
<1>2. /\ mode[i] = "server" /\ call[i] = "none" /\ Spend("calls")
      /\ UNCHANGED <<settingsVars, mode, sources, call, arg, handle, todo, mdnsVars, serverVars,
                     conn, view, conns>>
  BY DEF RegisterServer, Idle
<1>3. n \in Names
  BY DiscoveryAssumption
<1>4. FileInv' /\ MdnsType'
  BY <1>1, <1>2, FileSpent DEF StepKinds, MdnsType, mdnsVars
<1>5. CallOK(i) /\ todo[i] = <<>>
  BY <1>1, <1>2 DEF CallsInv, CallOK
<1>6. Range(<<>>) = {}
  BY <1>1, ListFacts
<1>7. CASE UNCHANGED <<sent, registered>>
  <2>1. InstType' /\ LinkType'
    BY <1>1, <1>2, <1>7 DEF InstType, LinkType, serverVars
  <2>2. CallsInv'
    BY <1>1, <1>2, <1>7, CallsFrame DEF mdnsVars
  <2>3. DaemonInv' /\ ServerInv'
    BY <1>1, <1>2, <1>7, <2>1, SameLists DEF DaemonInv, mdnsVars, serverVars
  <2> QED  BY <1>4, <2>1, <2>2, <2>3 DEF Parts
<1>8. CASE /\ Write(conn[i], <<"add", n, i>>)
           /\ registered' = [registered EXCEPT ![i] = Append(@, n)]
  <2>1. registered[i] \in Seq(Names)
    BY <1>1 DEF InstType
  <2>2. Append(registered[i], n) \in Seq(Names) /\ Range(Append(registered[i], n)) = Range(registered[i]) \cup {n}
    BY <1>3, <2>1, RangeFacts
  <2>3. /\ registered' \in [Instances -> Seq(Names)]
        /\ Range(registered'[i]) = Range(registered[i]) \cup {n}
        /\ \A j \in Instances : j # i => registered'[j] = registered[j]
    BY <1>1, <1>8, <2>2 DEF InstType
  <2>4. InstType'
    BY <1>1, <1>2, <2>3 DEF InstType
  <2>5. CallOK(i)'
    BY <1>2, <1>5, <1>6, <2>3 DEF CallOK, mdnsVars
  <2>6. CallsInv'
    BY <1>1, <1>2, <2>3, <2>5, CallsStep DEF mdnsVars
  <2>7. \A j \in Instances : \A m \in Names : Accountable(j, m) => Accountable(j, m)'
    BY <1>2, <2>3 DEF Accountable
  <2>8. Accountable(i, n)' /\ Range(registered'[i]) \subseteq Names
    BY <1>3, <2>1, <2>3, RangeFacts DEF Accountable
  <2>9. ServerInv' /\ sent' \in [Conns -> Seq(Request)]
    BY <1>2, <1>3, <1>8, <2>3, <2>7, <2>8, WriteKeeps DEF serverVars
  <2>10. LinkType'
    BY <1>1, <1>2, <2>9 DEF LinkType, serverVars, Request
  <2>11. DaemonInv'
    <3>1. installed = None => \A d \in Instances : handle'[d] = None
      BY <1>1, <1>2 DEF DaemonInv
    <3>2. \A j \in Instances : mode'[j] = "dns" => j # i /\ mode[j] = "dns"
      BY <1>2
    <3> QED  BY <1>1, <1>2, <2>3, <2>4, <2>7, <3>1, <3>2, DaemonFrame DEF mdnsVars
  <2> QED  BY <1>4, <2>4, <2>6, <2>9, <2>10, <2>11 DEF Parts
<1> QED  BY <1>7, <1>8 DEF RegisterServer

LEMMA WithdrawKeeps ==
    ASSUME Parts, NEW i \in Instances, Withdraw(i)
    PROVE  Parts'
<1>1. FileInv /\ InstType /\ MdnsType /\ LinkType /\ CallsInv /\ DaemonInv /\ ServerInv
  BY DEF Parts
<1>2. /\ call[i] \in {"withdraw", "drop"} /\ todo[i] # <<>> /\ todo' = [todo EXCEPT ![i] = Tail(@)]
      /\ UNCHANGED <<settingsVars, mode, registered, sources, call, arg, handle, installed, found,
                     serverVars, conn, view, conns, left>>
  BY DEF Withdraw
<1>3. PICK h : h = Head(todo[i])
  OBVIOUS
<1>4. /\ h \in Names /\ h \in Registers[i] /\ h \notin Range(registered[i])
      /\ todo' \in [Instances -> Seq(Names)]
      /\ Range(todo'[i]) \subseteq Range(todo[i])
      /\ \A j \in Instances : j # i => todo'[j] = todo[j]
      /\ \A j \in Instances : \A n \in Names :
            Accountable(j, n) => Accountable(j, n)' \/ (j = i /\ n = h)
  BY <1>1, <1>2, <1>3, TodoFacts
<1>5. FileInv' /\ InstType'
  BY <1>1, <1>2, <1>4, FileUnspent DEF InstType
<1>6. CallOK(i)
  BY <1>1 DEF CallsInv
<1>7. CallOK(i)'
  BY <1>2, <1>4, <1>6 DEF CallOK
<1>8. CallsInv'
  BY <1>1, <1>2, <1>4, <1>7, CallsStep
<1>9. CASE /\ mode[i] = "dns" /\ adv' = [adv EXCEPT ![installed][Head(todo[i])] = None]
           /\ UNCHANGED sent
  <2>1. installed # None /\ installed \in Instances /\ conn[i] = 0
    BY <1>1, <1>2, <1>6, <1>9 DEF CallOK, MdnsType
  <2>2. None \notin Instances
    BY DiscoveryAssumption DEF AllPorts
  <2>3. adv' = [adv EXCEPT ![installed] = [adv[installed] EXCEPT ![h] = None]]
    BY <1>3, <1>9
  <2>4. /\ adv' \in [Instances -> [Names -> Instances \cup {None}]]
        /\ \A d \in Instances, n \in Names :
              adv'[d][n] = IF d = installed /\ n = h THEN None ELSE adv[d][n]
    BY <1>1, <1>4, <2>1, <2>3 DEF MdnsType
  <2>5. MdnsType' /\ LinkType'
    BY <1>1, <1>2, <1>9, <2>4 DEF MdnsType, LinkType, serverVars
  <2>6. ServerInv'
    <3>1. \A j \in Instances : conn'[j] # 0 => j # i /\ conn'[j] = conn[j]
      BY <1>2, <2>1
    <3> QED  BY <1>1, <1>2, <1>4, <1>9, <3>1, ServerFrame DEF serverVars
  <2>7. \A n \in Names, j \in Instances :
            adv'[installed'][n] = j => mode'[j] = "dns" /\ Accountable(j, n)'
    BY <1>1, <1>2, <1>4, <2>1, <2>2, <2>4 DEF DaemonInv
  <2>8. ASSUME NEW j \in Instances, NEW n \in Range(registered[j]), mode[j] = "dns", Exclusive(j, n)
        PROVE  \E d \in Instances : adv'[d][n] = j
    <3>1. PICK d \in Instances : adv[d][n] = j
      BY <1>1, <2>8 DEF DaemonInv
    <3>2. n \in Names
      BY <1>1, <2>8, ListFacts, RangeFacts
    <3>3. n # h
      BY <1>4, <2>8 DEF Exclusive
    <3> QED  BY <2>4, <3>1, <3>2, <3>3
  <2>9. DaemonInv'
    BY <1>2, <2>1, <2>7, <2>8 DEF DaemonInv, Exclusive
  <2> QED  BY <1>5, <1>8, <2>5, <2>6, <2>9 DEF Parts
<1>10. CASE mode[i] = "server" /\ Write(conn[i], <<"remove", Head(todo[i]), i>>) /\ UNCHANGED adv
  <2>1. Write(conn[i], <<"remove", h, i>>)
    BY <1>3, <1>10
  <2>2. Range(registered'[i]) \subseteq Names
    BY <1>1, <1>2, ListFacts, RangeFacts
  <2>3. ServerInv' /\ sent' \in [Conns -> Seq(Request)]
    BY <1>2, <1>4, <2>1, <2>2, WriteKeeps DEF serverVars
  <2>4. MdnsType' /\ LinkType'
    BY <1>1, <1>2, <1>10, <2>3 DEF MdnsType, LinkType, serverVars, Request
  <2>5. DaemonInv'
    <3>1. installed = None => \A d \in Instances : handle'[d] = None
      BY <1>1, <1>2 DEF DaemonInv
    <3>2. \A j \in Instances : \A n \in Names :
              mode[j] = "dns" /\ Accountable(j, n) => mode'[j] = "dns" /\ Accountable(j, n)'
      BY <1>2, <1>4, <1>10
    <3> QED  BY <1>1, <1>2, <1>5, <1>10, <3>1, <3>2, DaemonFrame
  <2> QED  BY <1>5, <1>8, <2>3, <2>4, <2>5 DEF Parts
<1> QED  BY <1>9, <1>10 DEF Withdraw

\* A new connection has a number of its own: nothing is on its way there, and it owns nothing.
LEMMA NewOnServerKeeps ==
    ASSUME Parts, NEW i \in Instances, NewOnServer(i)
    PROVE  Parts'
<1>1. FileInv /\ InstType /\ MdnsType /\ LinkType /\ CallsInv /\ DaemonInv /\ ServerInv
  BY DEF Parts
<1>2. PICK c : c = conns + 1
  OBVIOUS
<1>3. /\ mode[i] = "none" /\ conns < MaxConns /\ mode' = [mode EXCEPT ![i] = "server"]
      /\ conns' = c /\ conn' = [conn EXCEPT ![i] = c] /\ view' = [view EXCEPT ![i] = {}]
      /\ members' = members \cup {c} /\ owner' = owner
      /\ UNCHANGED <<settingsVars, registered, sources, call, arg, handle, todo, mdnsVars, up,
                     contested, sent, left>>
  BY <1>2 DEF NewOnServer, Server!Join
<1>4. /\ conns \in 0..MaxConns /\ MaxConns \in Nat /\ members \subseteq 1..conns
      /\ conn \in [Instances -> 0..conns] /\ owner \in [Sources -> 0..conns]
  BY <1>1, DiscoveryAssumption DEF LinkType
<1>5. conns \in Nat /\ c \in Nat /\ c # 0 /\ c \in Conns /\ c \in 0..MaxConns
  BY <1>2, <1>3, <1>4 DEF Conns
<1>6. \A x : x \in 0..conns => x \in 0..c /\ x # c
  BY <1>2, <1>4
<1>7. \A x : x \in 1..conns => x \in 1..c /\ x # c
  BY <1>2, <1>4
<1>8. c \in 0..c /\ c \in 1..c
  BY <1>5
<1>9. FileInv' /\ InstType' /\ MdnsType'
  BY <1>1, <1>3, FileUnspent DEF InstType, MdnsType, mdnsVars
<1>10. LinkType'
  <2>1. conn' \in [Instances -> 0..c]
    BY <1>3, <1>4, <1>6, <1>8
  <2>2. owner' \in [Sources -> 0..c] /\ members' \subseteq 1..c
    BY <1>3, <1>4, <1>6, <1>7, <1>8
  <2> QED  BY <1>1, <1>3, <1>5, <2>1, <2>2 DEF LinkType
<1>11. CallOK(i)
  BY <1>1 DEF CallsInv
<1>12. CallOK(i)'
  BY <1>1, <1>3, <1>11 DEF CallOK, InstType, mdnsVars
<1>13. \A j \in Instances : j # i => mode'[j] = mode[j] /\ conn'[j] = conn[j]
  BY <1>1, <1>3, <1>4 DEF InstType
<1>14. CallsInv'
  BY <1>1, <1>3, <1>12, <1>13, CallsStep DEF mdnsVars
<1>15. \A j \in Instances : \A n \in Names : Accountable(j, n) <=> Accountable(j, n)'
  BY <1>3 DEF Accountable
<1>16. mode'[i] = "server" /\ conn'[i] = c
  BY <1>1, <1>3, <1>4 DEF InstType
<1>17. DaemonInv'
  <2>1. installed = None => \A d \in Instances : handle'[d] = None
    BY <1>1, <1>3 DEF DaemonInv
  <2>2. \A j \in Instances : \A n \in Names :
            mode[j] = "dns" /\ Accountable(j, n) => mode'[j] = "dns" /\ Accountable(j, n)'
    BY <1>3, <1>13, <1>15
  <2>3. \A j \in Instances : mode'[j] = "dns" => mode[j] = "dns"
    BY <1>13, <1>16
  <2> QED  BY <1>1, <1>3, <1>9, <2>1, <2>2, <2>3, DaemonFrame DEF mdnsVars
<1>18. c \notin members /\ sent[c] = <<>> /\ registered[i] = <<>>
  <2>1. c \notin members
    BY <1>4, <1>7
  <2> QED  BY <1>1, <1>3, <1>5, <1>11, <2>1 DEF ServerInv, CallOK
<1>19. LinkOK(i)'
  <2>1. Answered(<<>>, i)'
    BY EmptyQueue
  <2>2. \A n \in Names : owner'[<<n, i>>] # c
    BY <1>3, <1>4, <1>6 DEF Sources
  <2>3. sent'[c] = <<>> /\ registered'[i] = <<>>
    BY <1>3, <1>18
  <2>4. Range(<<>>) = {}
    BY <1>1, ListFacts
  <2>5. Range(registered'[i]) = {}
    BY <2>3, <2>4
  <2>6. Answered(sent[conn[i]], i)'
    BY <1>16, <2>1, <2>3
  <2> QED  BY <1>16, <2>2, <2>5, <2>6 DEF LinkOK
<1>20. ASSUME NEW j \in Instances, j # i PROVE LinkOK(j)'
  <2>1. LinkOK(j) /\ conn'[j] = conn[j] /\ conn[j] # c
    BY <1>1, <1>4, <1>6, <1>13, <1>20 DEF ServerInv
  <2>2. Answered(sent[conn[j]], j) => Answered(sent[conn[j]], j)'
    BY <1>3, <1>15, <2>1 DEF Answered
  <2> QED  BY <1>3, <1>15, <2>1, <2>2 DEF LinkOK
<1>21. ServerInv'
  BY <1>1, <1>3, <1>19, <1>20 DEF ServerInv
<1> QED  BY <1>9, <1>10, <1>14, <1>17, <1>21 DEF Parts

-----------------------------------------------------------------------------
(* The network, the server and the process. *)

LEMMA ServiceKeeps ==
    ASSUME Parts, NEW d \in Instances, NEW n \in Names, ServiceResolved(d, n) \/ ServiceRemoved(d, n)
    PROVE  Parts'
<1>1. FileInv /\ InstType /\ MdnsType /\ LinkType /\ CallsInv /\ DaemonInv /\ ServerInv
  BY DEF Parts
<1>2. UNCHANGED <<settingsVars, instVars, installed, adv, serverVars, linkVars>> /\ Spend("events")
  BY DEF ServiceResolved, ServiceRemoved
<1>3. PICK p \in AllPorts \cup {None} : found' = [found EXCEPT ![d][n] = p]
  <2>1. CASE ServiceResolved(d, n)
    <3>1. PICK p \in Ports(n) : found' = [found EXCEPT ![d][n] = p]
      BY <2>1 DEF ServiceResolved
    <3>2. p \in AllPorts
      BY <1>1 DEF Ports, MdnsType, AllPorts
    <3> QED  BY <3>1, <3>2
  <2>2. CASE ServiceRemoved(d, n)
    BY <2>2 DEF ServiceRemoved
  <2> QED  BY <2>1, <2>2
<1>4. MdnsType'
  <2>1. found' = [found EXCEPT ![d] = [found[d] EXCEPT ![n] = p]]
    BY <1>3
  <2> QED  BY <1>1, <1>2, <2>1 DEF MdnsType
<1>5. FileInv' /\ InstType' /\ LinkType'
  BY <1>1, <1>2, FileSpent DEF InstType, LinkType, StepKinds, instVars, serverVars, linkVars
<1>6. CallsInv'
  BY <1>1, <1>2, CallsFrame DEF instVars, linkVars
<1>7. DaemonInv' /\ ServerInv'
  BY <1>1, <1>2, <1>5, SameLists DEF instVars, serverVars, linkVars, DaemonInv
<1> QED  BY <1>4, <1>5, <1>6, <1>7 DEF Parts

LEMMA ClientLearnsKeeps ==
    ASSUME Parts, NEW i \in Instances, ClientLearns(i)
    PROVE  Parts'
<1>1. FileInv /\ InstType /\ MdnsType /\ LinkType /\ CallsInv /\ DaemonInv /\ ServerInv
  BY DEF Parts
<1>2. /\ UNCHANGED <<settingsVars, instVars, mdnsVars, serverVars, conn, sent, conns>> /\ Spend("events")
      /\ view' = [view EXCEPT ![i] = {k \in Sources : owner[k] # 0} \cup (Elsewhere \X {Remote})]
  BY DEF ClientLearns
<1>3. {k \in Sources : owner[k] # 0} \cup (Elsewhere \X {Remote}) \in SUBSET (Names \X AllPorts)
  BY DiscoveryAssumption DEF Sources, AllPorts
<1>4. FileInv' /\ InstType' /\ MdnsType' /\ LinkType'
  BY <1>1, <1>2, <1>3, FileSpent DEF InstType, LinkType, MdnsType, StepKinds, instVars, serverVars, mdnsVars
<1>5. CallsInv'
  BY <1>1, <1>2, CallsFrame DEF instVars, mdnsVars
<1>6. DaemonInv' /\ ServerInv'
  BY <1>1, <1>2, <1>4, SameLists DEF instVars, serverVars, mdnsVars, DaemonInv
<1> QED  BY <1>4, <1>5, <1>6 DEF Parts

LEMMA ServerStopsKeeps ==
    ASSUME Parts, ServerStops
    PROVE  Parts'
<1>1. FileInv /\ InstType /\ MdnsType /\ LinkType /\ CallsInv /\ DaemonInv /\ ServerInv
  BY DEF Parts
<1>2. /\ UNCHANGED <<settingsVars, instVars, mdnsVars, contested, conn, view, conns>> /\ Spend("events")
      /\ up' = FALSE /\ members' = {} /\ owner' = [k \in Sources |-> 0] /\ sent' = [c \in Conns |-> <<>>]
  BY DEF ServerStops
<1>3. conns \in 0..MaxConns /\ 0 \in 0..conns /\ conn \in [Instances -> 0..conns]
  BY <1>1, DiscoveryAssumption DEF LinkType
<1>4. FileInv' /\ InstType' /\ MdnsType' /\ LinkType'
  <2>1. FileInv' /\ InstType' /\ MdnsType'
    BY <1>1, <1>2, FileSpent DEF InstType, MdnsType, StepKinds, instVars, mdnsVars
  <2>2. /\ sent' \in [Conns -> Seq({"add", "remove"} \X Names \X Instances)]
        /\ owner' \in [Sources -> 0..conns]
    BY <1>2, <1>3
  <2> QED  BY <1>1, <1>2, <2>1, <2>2 DEF LinkType
<1>5. CallsInv'
  BY <1>1, <1>2, CallsFrame DEF instVars, mdnsVars
<1>6. DaemonInv'
  BY <1>1, <1>2, <1>4, DaemonFrame DEF instVars, mdnsVars, DaemonInv, Accountable
<1>7. ASSUME NEW j \in Instances, conn'[j] # 0 PROVE LinkOK(j)'
  <2>1. conn'[j] \in Conns
    BY <1>2, <1>3, <1>7, DiscoveryAssumption DEF Conns
  <2>2. sent'[conn'[j]] = <<>> /\ \A n \in Names : owner'[<<n, j>>] = 0
    BY <1>2, <2>1 DEF Sources
  <2>3. Answered(<<>>, j)'
    BY EmptyQueue
  <2>4. Answered(sent[conn[j]], j)'
    BY <2>2, <2>3
  <2> QED  BY <1>2, <1>7, <2>2, <2>4 DEF LinkOK
<1>8. \A j \in Instances : LinkOK(j)'
  BY <1>7 DEF LinkOK
<1>9. ServerInv'
  BY <1>2, <1>8 DEF ServerInv
<1> QED  BY <1>4, <1>5, <1>6, <1>9 DEF Parts

LEMMA ServerLeaveKeeps ==
    ASSUME Parts, NEW c \in Conns, ServerLeave(c)
    PROVE  Parts'
<1>1. FileInv /\ InstType /\ MdnsType /\ LinkType /\ CallsInv /\ DaemonInv /\ ServerInv
  BY DEF Parts
<1>2. /\ UNCHANGED <<settingsVars, instVars, mdnsVars, up, contested, conn, view, conns, left>>
      /\ \A j \in Instances : conn[j] # c
      /\ members' = members \ {c} /\ owner' = [k \in Sources |-> IF owner[k] = c THEN 0 ELSE owner[k]]
      /\ sent' = [sent EXCEPT ![c] = <<>>]
  BY DEF ServerLeave, Server!Leave
<1>3. /\ conns \in 0..MaxConns /\ 0 \in 0..conns /\ conn \in [Instances -> 0..conns]
      /\ owner \in [Sources -> 0..conns]
      /\ sent \in [Conns -> Seq({"add", "remove"} \X Names \X Instances)]
  BY <1>1, DiscoveryAssumption DEF LinkType
<1>4. FileInv' /\ InstType' /\ MdnsType' /\ LinkType'
  <2>1. FileInv' /\ InstType' /\ MdnsType'
    BY <1>1, <1>2, FileUnspent DEF InstType, MdnsType, instVars, mdnsVars
  <2>2. /\ sent' \in [Conns -> Seq({"add", "remove"} \X Names \X Instances)]
        /\ owner' \in [Sources -> 0..conns] /\ members' \subseteq members
    BY <1>2, <1>3
  <2> QED  BY <1>1, <1>2, <2>1, <2>2 DEF LinkType
<1>5. CallsInv'
  BY <1>1, <1>2, CallsFrame DEF instVars, mdnsVars
<1>6. DaemonInv'
  BY <1>1, <1>2, <1>4, DaemonFrame DEF instVars, mdnsVars, DaemonInv, Accountable
<1>7. ASSUME NEW j \in Instances, conn'[j] # 0 PROVE LinkOK(j)'
  <2>1. conn[j] \in Conns /\ conn'[j] = conn[j] /\ conn[j] # c /\ conn[j] # 0
    BY <1>2, <1>3, <1>7, DiscoveryAssumption DEF Conns
  <2>2. /\ sent'[conn[j]] = sent[conn[j]] /\ (conn[j] \in members' => conn[j] \in members)
        /\ \A n \in Names : owner'[<<n, j>>] = conn[j] <=> owner[<<n, j>>] = conn[j]
    BY <1>2, <1>3, <2>1 DEF Sources
  <2>3. LinkOK(j)
    BY <1>1 DEF ServerInv
  <2>4. registered' = registered /\ todo' = todo /\ contested' = contested
    BY <1>2 DEF instVars
  <2>5. \A n \in Names : Accountable(j, n) <=> Accountable(j, n)'
    BY <2>4 DEF Accountable
  <2>6. Answered(sent[conn[j]], j)'
    BY <2>1, <2>2, <2>3, <2>4, <2>5 DEF Answered, LinkOK
  <2>7. Range(registered[j]) \subseteq Names
    BY <1>1, ListFacts, RangeFacts
  <2> QED  BY <2>1, <2>2, <2>3, <2>4, <2>5, <2>6, <2>7 DEF LinkOK
<1>8. \A j \in Instances : LinkOK(j)'
  BY <1>7 DEF LinkOK
<1>9. \A k \in Sources : owner'[k] # 0 => owner'[k] \in members'
  BY <1>1, <1>2 DEF ServerInv
<1>10. \A x \in Conns : sent'[x] # <<>> => x \in members'
  BY <1>1, <1>2, <1>3 DEF ServerInv
<1>11. ServerInv'
  BY <1>8, <1>9, <1>10 DEF ServerInv
<1> QED  BY <1>4, <1>5, <1>6, <1>11 DEF Parts

\* The server handles the first request of a connection.
LEMMA ServeKeeps ==
    ASSUME Parts, NEW c \in Conns, Serve(c)
    PROVE  Parts'
<1>1. FileInv /\ InstType /\ MdnsType /\ LinkType /\ CallsInv /\ DaemonInv /\ ServerInv
  BY DEF Parts
<1>2. PICK r, k, t : r = Head(sent[c]) /\ k = <<r[2], r[3]>> /\ t = Tail(sent[c])
  OBVIOUS
<1>3. /\ UNCHANGED <<settingsVars, instVars, mdnsVars, up, conn, view, conns, left>>
      /\ sent[c] # <<>> /\ c \in members /\ sent' = [sent EXCEPT ![c] = t] /\ members' = members
      /\ contested' = IF owner[k] \notin {0, c} THEN contested \cup {k} ELSE contested
      /\ \/ r[1] = "add" /\ owner[k] = 0 /\ owner' = [owner EXCEPT ![k] = c]
         \/ r[1] = "add" /\ owner[k] # 0 /\ owner' = owner
         \/ r[1] # "add" /\ owner[k] # 0 /\ owner' = [owner EXCEPT ![k] = 0]
         \/ r[1] # "add" /\ owner[k] = 0 /\ owner' = owner
  BY <1>2 DEF Serve, Server!Register, Server!Withdraw
<1>4. /\ conns \in 0..MaxConns /\ 0 \in 0..conns /\ conn \in [Instances -> 0..conns]
      /\ owner \in [Sources -> 0..conns] /\ members \subseteq 1..conns
      /\ sent \in [Conns -> Seq(Request)] /\ MaxConns \in Nat
  BY <1>1, DiscoveryAssumption DEF LinkType, Request
<1>5. Shorter(sent[c], r, t) /\ t \in Seq(Request) /\ r \in Request
  BY <1>2, <1>3, <1>4, TailQueue
<1>6. k \in Sources /\ r[1] \in {"add", "remove"} /\ r = <<r[1], k[1], k[2]>>
  BY <1>2, <1>5 DEF Request, Sources
<1>7. c \in 0..conns /\ c # 0
  BY <1>3, <1>4
<1>8. /\ owner' \in [Sources -> 0..conns] /\ sent' \in [Conns -> Seq(Request)]
      /\ \A x \in Conns : sent'[x] = IF x = c THEN t ELSE sent[x]
  BY <1>3, <1>4, <1>5, <1>6, <1>7
<1>9. FileInv' /\ InstType' /\ MdnsType' /\ LinkType'
  BY <1>1, <1>3, <1>8, FileUnspent DEF InstType, LinkType, MdnsType, instVars, mdnsVars, Request
<1>10. CallsInv'
  BY <1>1, <1>3, CallsFrame DEF instVars, mdnsVars
<1>11. DaemonInv'
  BY <1>1, <1>3, <1>9, DaemonFrame DEF instVars, mdnsVars, DaemonInv, Accountable
<1>12. registered' = registered /\ todo' = todo /\ conn' = conn
  BY <1>3 DEF instVars
<1>13. \A j \in Instances : \A n \in Names : Accountable(j, n) <=> Accountable(j, n)'
  BY <1>12 DEF Accountable
<1>14. \A x \in Sources : x # k => owner'[x] = owner[x]
  BY <1>3, <1>4
<1>15. /\ owner'[k] \in {0, c, owner[k]}
       /\ r[1] = "add" => owner'[k] = c \/ (owner'[k] = owner[k] /\ owner[k] # 0)
       /\ r[1] # "add" => owner'[k] = 0
       /\ owner[k] \notin {0, c} => k \in contested'
       /\ contested \subseteq contested'
  BY <1>3, <1>4, <1>6
<1>16. ASSUME NEW j \in Instances, conn[j] # 0 PROVE LinkOK(j)'
  <2>1. conn[j] \in Conns
    BY <1>4, <1>16 DEF Conns
  <2>2. LinkOK(j)
    BY <1>1 DEF ServerInv
  <2>3. \A n \in Names : <<n, j>> \in Sources /\ (<<n, j>> = k => r = <<r[1], n, j>>)
    BY <1>6 DEF Sources
  <2>4. Range(registered[j]) \subseteq Names
    BY <1>1, ListFacts, RangeFacts
  <2>5. CASE conn[j] # c
    <3>1. sent'[conn[j]] = sent[conn[j]]
      BY <1>8, <2>1, <2>5
    <3>2. Answered(sent[conn[j]], j)'
      BY <1>12, <1>13, <1>16, <2>2, <3>1 DEF Answered, LinkOK
    <3>3. \A n \in Names : owner'[<<n, j>>] = conn[j] => owner[<<n, j>>] = conn[j]
      BY <1>14, <1>15, <1>16, <2>3, <2>5
    <3>4. \A n \in Names : owner[<<n, j>>] = conn[j] =>
              owner'[<<n, j>>] = conn[j] \/ <<n, j>> \in contested'
      BY <1>14, <1>15, <1>16, <2>3, <2>5
    <3>5. \A n \in Names : owner'[<<n, j>>] = conn[j] =>
              Accountable(j, n)' \/ InQueue(sent'[conn[j]], <<"remove", n, j>>)
      BY <1>13, <1>16, <2>2, <3>1, <3>3 DEF LinkOK
    <3>6. conn[j] \in members => \A n \in Range(registered[j]) :
              owner'[<<n, j>>] = conn[j] \/ InQueue(sent'[conn[j]], <<"add", n, j>>) \/ <<n, j>> \in contested'
      BY <1>15, <1>16, <2>2, <2>4, <3>1, <3>4 DEF LinkOK
    <3> QED  BY <1>3, <1>12, <3>2, <3>5, <3>6 DEF LinkOK
  <2>6. CASE conn[j] = c
    <3>1. PICK s : s = sent[c]
      OBVIOUS
    <3>2. /\ Answered(s, j)
          /\ \A n \in Names : owner[<<n, j>>] = c => Accountable(j, n) \/ InQueue(s, <<"remove", n, j>>)
          /\ \A n \in Range(registered[j]) :
                owner[<<n, j>>] = c \/ InQueue(s, <<"add", n, j>>) \/ <<n, j>> \in contested
      BY <1>3, <1>16, <2>2, <2>6, <3>1 DEF LinkOK
    <3>3. sent'[c] = t
      BY <1>8
    <3>4. /\ \A x : InQueue(s, x) => InQueue(t, x) \/ x = r
          /\ \A p \in DOMAIN t : \E q \in DOMAIN s :
                t[p] = s[q] /\ \A x : Behind(s, q, x) => Behind(t, p, x)
          /\ \E q \in DOMAIN s : s[q] = r /\ \A x : Behind(s, q, x) => InQueue(t, x)
      BY <1>5, <3>1 DEF Shorter
    <3>5. ASSUME NEW n \in Names, NEW p \in DOMAIN t
          PROVE  /\ t[p] = <<"add", n, j>> => Accountable(j, n)' \/ Behind(t, p, <<"remove", n, j>>)
                 /\ t[p] = <<"remove", n, j>> /\ n \in Range(registered'[j]) => Behind(t, p, <<"add", n, j>>)
      <4>1. PICK q \in DOMAIN s : t[p] = s[q] /\ \A x : Behind(s, q, x) => Behind(t, p, x)
        BY <3>4
      <4> QED  BY <1>12, <1>13, <3>2, <4>1 DEF Answered
    <3>6. Answered(t, j)'
      BY <3>5 DEF Answered
    <3>7. ASSUME NEW n \in Names, r = <<"add", n, j>>
          PROVE  Accountable(j, n) \/ InQueue(t, <<"remove", n, j>>)
      BY <3>2, <3>4, <3>7 DEF Answered
    <3>8. ASSUME NEW n \in Names, r = <<"remove", n, j>>, n \in Range(registered[j])
          PROVE  InQueue(t, <<"add", n, j>>)
      BY <3>2, <3>4, <3>8 DEF Answered
    <3>9. ASSUME NEW n \in Names, owner'[<<n, j>>] = c
          PROVE  Accountable(j, n)' \/ InQueue(t, <<"remove", n, j>>)
      <4>1. CASE <<n, j>> # k
        <5>1. r # <<"remove", n, j>>
          BY <1>2, <4>1
        <5>2. owner[<<n, j>>] = c
          BY <1>14, <2>3, <3>9, <4>1
        <5> QED  BY <1>13, <3>2, <3>4, <5>1, <5>2
      <4>2. CASE <<n, j>> = k
        <5>1. r[1] = "add"
          BY <1>7, <1>15, <3>9, <4>2
        <5>2. r = <<"add", n, j>>
          BY <2>3, <4>2, <5>1
        <5> QED  BY <1>13, <3>7, <5>2
      <4> QED  BY <4>1, <4>2
    <3>10. ASSUME NEW n \in Range(registered[j])
           PROVE  owner'[<<n, j>>] = c \/ InQueue(t, <<"add", n, j>>) \/ <<n, j>> \in contested'
      <4>1. n \in Names
        BY <2>4, <3>10
      <4>2. CASE <<n, j>> # k
        <5>1. r # <<"add", n, j>>
          BY <1>2, <4>2
        <5>2. owner'[<<n, j>>] = owner[<<n, j>>]
          BY <1>14, <2>3, <4>1, <4>2
        <5> QED  BY <1>15, <3>2, <3>4, <3>10, <5>1, <5>2
      <4>3. CASE <<n, j>> = k /\ r[1] = "add"
        BY <1>15, <4>3
      <4>4. CASE <<n, j>> = k /\ r[1] # "add"
        <5>1. r = <<"remove", n, j>>
          BY <1>6, <2>3, <4>1, <4>4
        <5> QED  BY <3>8, <3>10, <4>1, <5>1
      <4> QED  BY <4>2, <4>3, <4>4
    <3>11. conn'[j] = c /\ registered'[j] = registered[j]
      BY <1>12, <2>6
    <3> QED  BY <3>3, <3>6, <3>9, <3>10, <3>11 DEF LinkOK
  <2> QED  BY <2>5, <2>6
<1>17. \A j \in Instances : LinkOK(j)'
  <2>1. \A j \in Instances : conn'[j] = 0 => LinkOK(j)'
    BY DEF LinkOK
  <2> QED  BY <1>12, <1>16, <2>1
<1>18. \A x \in Sources : owner'[x] # 0 => owner'[x] \in members'
  BY <1>1, <1>3, <1>14, <1>15 DEF ServerInv
<1>19. \A x \in Conns : sent'[x] # <<>> => x \in members'
  BY <1>1, <1>3, <1>8 DEF ServerInv
<1>20. ServerInv'
  BY <1>17, <1>18, <1>19 DEF ServerInv
<1> QED  BY <1>9, <1>10, <1>11, <1>20 DEF Parts

LEMMA CrashKeeps ==
    ASSUME Parts, Crash
    PROVE  Parts'
<1>1. FileInv /\ InstType /\ MdnsType /\ LinkType /\ CallsInv /\ DaemonInv /\ ServerInv
  BY DEF Parts
<1>2. /\ SettingsCrash
      /\ mode' = [i \in Instances |-> "none"] /\ registered' = [i \in Instances |-> <<>>]
      /\ call' = [i \in Instances |-> "none"]
      /\ arg' = [i \in Instances |-> None] /\ handle' = [i \in Instances |-> None]
      /\ todo' = [i \in Instances |-> <<>>]
      /\ installed' = None /\ adv' = [d \in Instances |-> Nothing]
      /\ found' = [d \in Instances |-> Nothing]
      /\ conn' = [i \in Instances |-> 0] /\ view' = [i \in Instances |-> {}]
      /\ UNCHANGED <<serverVars, sent, conns>>
  BY DEF Crash
<1>3. FileInv'
  BY <1>1, <1>2, SettingsStep
<1>4. InstType'
  BY <1>2 DEF InstType
<1>5. MdnsType'
  <2>1. Nothing \in [Names -> Instances \cup {None}] /\ Nothing \in [Names -> AllPorts \cup {None}]
    BY DEF Nothing
  <2> QED  BY <1>2, <2>1 DEF MdnsType
<1>6. LinkType'
  <2>1. 0 \in 0..conns
    BY <1>1, DiscoveryAssumption DEF LinkType
  <2> QED  BY <1>1, <1>2, <2>1 DEF LinkType, serverVars
<1>7. Range(<<>>) = {}
  BY DEF Range
<1>8. CallsInv'
  BY <1>2, <1>7 DEF CallsInv, CallOK
<1>9. DaemonInv'
  BY <1>2, <1>7 DEF DaemonInv
<1>10. ServerInv'
  BY <1>1, <1>2 DEF ServerInv, LinkOK, serverVars
<1> QED  BY <1>3, <1>4, <1>5, <1>6, <1>8, <1>9, <1>10 DEF Parts

LEMMA ConfigureKeeps ==
    ASSUME Parts, Configure
    PROVE  Parts'
<1>1. FileInv /\ InstType /\ MdnsType /\ LinkType /\ CallsInv /\ DaemonInv /\ ServerInv
  BY DEF Parts
<1>2. UNCHANGED <<instVars, mdnsVars, serverVars, linkVars>>
  BY DEF Configure
<1>3. FileInv'
  BY <1>1, SettingsStep DEF Configure
<1>4. InstType' /\ MdnsType' /\ LinkType'
  BY <1>1, <1>2 DEF InstType, MdnsType, LinkType, instVars, mdnsVars, serverVars, linkVars
<1>5. CallsInv'
  BY <1>1, <1>2, CallsFrame DEF instVars, mdnsVars, linkVars
<1>6. DaemonInv' /\ ServerInv'
  BY <1>1, <1>2, <1>4, SameLists DEF instVars, serverVars, mdnsVars, linkVars, DaemonInv
<1> QED  BY <1>3, <1>4, <1>5, <1>6 DEF Parts

LEMMA StutterKeeps ==
    ASSUME Parts, UNCHANGED vars
    PROVE  Parts'
<1>1. FileInv /\ InstType /\ MdnsType /\ LinkType /\ CallsInv /\ DaemonInv /\ ServerInv
  BY DEF Parts
<1>2. UNCHANGED <<settingsVars, instVars, mdnsVars, serverVars, linkVars, left>>
  BY DEF vars
<1>3. FileInv'
  BY <1>1, <1>2, FileUnspent
<1>4. InstType' /\ MdnsType' /\ LinkType'
  BY <1>1, <1>2 DEF InstType, MdnsType, LinkType, instVars, mdnsVars, serverVars, linkVars
<1>5. CallsInv'
  BY <1>1, <1>2, CallsFrame DEF instVars, mdnsVars, linkVars
<1>6. DaemonInv' /\ ServerInv'
  BY <1>1, <1>2, <1>4, SameLists DEF instVars, serverVars, mdnsVars, linkVars, DaemonInv
<1> QED  BY <1>3, <1>4, <1>5, <1>6 DEF Parts

LEMMA InitParts == Init => Parts
<1> SUFFICES ASSUME Init PROVE Parts
  OBVIOUS
<1>1. Range(<<>>) = {}
  BY DEF Range
<1>2. FileInv
  BY MapFacts, NoFileFacts, SettingsAssumption DEF Init, SettingsInit, FileInv, SettingsTypeOK
<1>3. InstType
  BY DEF Init, InstType
<1>4. MdnsType
  <2>1. Nothing \in [Names -> Instances \cup {None}] /\ Nothing \in [Names -> AllPorts \cup {None}]
    BY DEF Nothing
  <2> QED  BY <2>1 DEF Init, MdnsType
<1>5. LinkType
  BY DiscoveryAssumption DEF Init, LinkType, Server!Init
<1>6. CallsInv
  BY <1>1 DEF Init, CallsInv, CallOK
<1>7. DaemonInv
  BY <1>1 DEF Init, DaemonInv
<1>8. ServerInv
  BY DEF Init, ServerInv, LinkOK, Server!Init
<1> QED  BY <1>2, <1>3, <1>4, <1>5, <1>6, <1>7, <1>8 DEF Parts

LEMMA NextParts ==
    ASSUME Parts, [Next]_vars
    PROVE  Parts'
<1>1. ASSUME NEW i \in Instances, InstanceStep(i) PROVE Parts'
  BY <1>1, NewOnServerKeeps, NewOnDnsKeeps, InstallStateKeeps, CreateFailsKeeps, AdvertiseKeeps,
     RegisterDnsKeeps, RegisterServerKeeps, DeregisterKeeps, DeregisterAllKeeps, WithdrawKeeps,
     WithdrawnKeeps, RefreshBeginKeeps, RefreshEndKeeps
     DEF InstanceStep
<1> QED
  BY <1>1, ConfigureKeeps, CrashKeeps, ServerStopsKeeps, ClientLearnsKeeps, ServiceKeeps, ServeKeeps,
     ServerLeaveKeeps, StutterKeeps
     DEF Next

-----------------------------------------------------------------------------
(* The theorems. *)

\* The invariant holds in every reachable state, whatever the instances, names, keys, number of
\* connections and budgets.
THEOREM DiscoveryInvariant == Spec => []IInv
<1>1. Init => IInv
  BY InitParts, IInvIsParts
<1>2. IInv /\ [Next]_vars => IInv'
  <2> SUFFICES ASSUME IInv, [Next]_vars PROVE IInv'
    OBVIOUS
  <2>1. Parts
    BY IInvIsParts
  <2>2. Parts'
    BY <2>1, NextParts
  <2>3. IInv' <=> Parts'
    BY IInvIsParts, PTL
  <2> QED  BY <2>2, <2>3
<1> QED  BY <1>1, <1>2, PTL DEF Spec

\* Types, and: a call that has passed mdns::state() holds a daemon, and a withdrawal over DNS-SD
\* finds one installed.
THEOREM TypeCorrect == Spec => []TypeOK
<1>1. IInv => TypeOK
  BY DEF IInv
<1> QED  BY <1>1, DiscoveryInvariant, PTL

\* deregister, deregister_all and drop leave nothing behind: what the installed daemon
\* advertises and what the server lists for a live connection is still registered, still to be
\* withdrawn, or has its removal on the way.
THEOREM NothingIsLeftBehind == Spec => []NothingLeftBehind
<1>1. IInv => NothingLeftBehind
  <2> SUFFICES ASSUME IInv PROVE NothingLeftBehind
    OBVIOUS
  <2>1. DaemonInv /\ ServerInv
    BY DEF IInv
  <2>2. ASSUME NEW n \in Names, NEW i \in Instances, owner[<<n, i>>] # 0, owner[<<n, i>>] = conn[i]
        PROVE  Accountable(i, n) \/ <<"remove", n, i>> \in Range(sent[conn[i]])
    <3>1. LinkOK(i)
      BY <2>1 DEF ServerInv
    <3>2. Accountable(i, n) \/ InQueue(sent[conn[i]], <<"remove", n, i>>)
      BY <2>2, <3>1 DEF LinkOK
    <3> QED  BY <3>2 DEF InQueue, Range
  <2> QED  BY <2>1, <2>2 DEF DaemonInv, NothingLeftBehind
<1> QED  BY <1>1, DiscoveryInvariant, PTL

\* What register() has accepted is offered: by a daemon, or in the server's registry or on its
\* way there, unless an older connection of the same port interfered.
THEOREM RegisteredStaysOffered == Spec => []RegisteredIsOffered
<1>1. IInv => RegisteredIsOffered
  <2> SUFFICES ASSUME IInv, NEW i \in Instances, NEW n \in Range(registered[i])
               PROVE  \/ mode[i] = "dns" /\ (Exclusive(i, n) => \E d \in Instances : adv[d][n] = i)
                      \/ /\ mode[i] = "server"
                         /\ conn[i] \in members =>
                               \/ owner[<<n, i>>] = conn[i]
                               \/ <<"add", n, i>> \in Range(sent[conn[i]])
                               \/ <<n, i>> \in contested
    BY DEF RegisteredIsOffered
  <2>1. DaemonInv /\ ServerInv /\ CallsInv /\ InstType /\ LinkType
    BY IInvIsParts DEF Parts
  <2>2. LinkOK(i) /\ CallOK(i) /\ mode[i] \in {"none", "dns", "server"}
    BY <2>1 DEF ServerInv, CallsInv, InstType
  <2>3. mode[i] # "none"
    BY <2>1, <2>2, ListFacts DEF CallOK
  <2>4. CASE mode[i] = "dns"
    BY <2>1, <2>4 DEF DaemonInv
  <2>5. CASE mode[i] = "server"
    <3>1. conn[i] \in members => conn[i] # 0
      BY <2>1 DEF LinkType
    <3>2. conn[i] \in members => \/ owner[<<n, i>>] = conn[i]
                                 \/ InQueue(sent[conn[i]], <<"add", n, i>>)
                                 \/ <<n, i>> \in contested
      BY <2>2, <3>1 DEF LinkOK
    <3> QED  BY <2>5, <3>2 DEF InQueue, Range
  <2> QED  BY <2>2, <2>3, <2>4, <2>5
<1> QED  BY <1>1, DiscoveryInvariant, PTL

\* Settings::from_path and reload give what the last save wrote if it ran to its end, and
\* nothing if an error or a crash cut it short.
THEOREM LoadGivesLastSave == Spec => LoadsLastSave
<1>1. IInv /\ [Next]_vars => [(Load \/ Reload) => values' = Trimmed(saved)]_settingsVars
  BY DEF IInv, FileInv, Load, Reload
<1>2. Spec => []IInv
  BY DiscoveryInvariant
<1> QED  BY <1>1, <1>2, PTL DEF Spec, LoadsLastSave
=============================================================================
