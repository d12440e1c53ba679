--------------------------- MODULE SequenceFacts ---------------------------
(***************************************************************************)
(* Facts about queues that the proofs of several modules need: what becomes  *)
(* of two sequences, one behind the other, when an element is moved, added or *)
(* removed, and of the set of their elements.                               *)
(***************************************************************************)
EXTENDS Integers, SequencesExt, SequenceTheorems, TLAPS

LEMMA ConcatTail ==
    ASSUME NEW T, NEW a \in Seq(T), NEW b \in Seq(T), a # <<>>
    PROVE  /\ Tail(a) \o b = Tail(a \o b)
           /\ Head(a \o b) = Head(a)
           /\ a \o b # <<>>
           /\ Tail(a) \in Seq(T)
           /\ Head(a) \in T
  OBVIOUS

LEMMA ConcatAppend ==
    ASSUME NEW T, NEW a \in Seq(T), NEW b \in Seq(T), NEW x \in T
    PROVE  a \o Append(b, x) = Append(a \o b, x)
  OBVIOUS

LEMMA MoveHead ==
    ASSUME NEW T, NEW a \in Seq(T), NEW b \in Seq(T), b # <<>>
    PROVE  Append(a, Head(b)) \o Tail(b) = a \o b
  OBVIOUS

LEMMA Assoc ==
    ASSUME NEW T, NEW a \in Seq(T), NEW b \in Seq(T), NEW c \in Seq(T)
    PROVE  (a \o b) \o c = a \o (b \o c)
  OBVIOUS

LEMMA ConcatEmpty ==
    ASSUME NEW T, NEW a \in Seq(T)
    PROVE  a \o <<>> = a
  OBVIOUS

\* What is left of a sequence when the element behind its first part is removed.
LEMMA RemoveElement ==
    ASSUME NEW T, NEW a \in Seq(T), NEW b \in Seq(T), b # <<>>
    PROVE  /\ a \o Tail(b) \in Seq(T)
           /\ \A i \in DOMAIN (a \o Tail(b)) :
                 /\ i <= Len(a) => i \in DOMAIN (a \o b) /\ (a \o Tail(b))[i] = (a \o b)[i]
                 /\ i > Len(a) =>
                       i + 1 \in DOMAIN (a \o b) /\ (a \o Tail(b))[i] = (a \o b)[i + 1]
  OBVIOUS

LEMMA AppendedIsLonger ==
    ASSUME NEW S, NEW q \in Seq(S), NEW x \in S
    PROVE  Append(q, x) # q
  <1>1. Len(Append(q, x)) = Len(q) + 1 /\ Len(q) \in Nat
    OBVIOUS
  <1> QED
    BY <1>1

LEMMA ToSetAppend ==
    ASSUME NEW T, NEW a \in Seq(T), NEW x \in T
    PROVE  ToSet(Append(a, x)) = ToSet(a) \cup {x}
  <1> DEFINE b == Append(a, x)
  <1>1. /\ DOMAIN b = 1 .. Len(a) + 1 /\ DOMAIN a = 1 .. Len(a) /\ Len(a) \in Nat
        /\ b[Len(a) + 1] = x
        /\ \A i \in 1 .. Len(a) : b[i] = a[i]
    OBVIOUS
  <1> HIDE DEF b
  <1>2. \A y \in ToSet(b) : y \in ToSet(a) \cup {x}
    BY <1>1 DEF ToSet
  <1>3. \A y \in ToSet(a) \cup {x} : y \in ToSet(b)
    BY <1>1 DEF ToSet
  <1>4. ToSet(b) = ToSet(a) \cup {x}
    BY <1>2, <1>3
  <1> QED
    BY <1>4 DEF b

LEMMA ToSetConcat ==
    ASSUME NEW T, NEW a \in Seq(T), NEW b \in Seq(T)
    PROVE  ToSet(a \o b) = ToSet(a) \cup ToSet(b)
  <1> DEFINE c == a \o b
  <1>1. /\ DOMAIN c = 1 .. Len(a) + Len(b)
        /\ DOMAIN a = 1 .. Len(a) /\ DOMAIN b = 1 .. Len(b)
        /\ Len(a) \in Nat /\ Len(b) \in Nat
        /\ \A i \in 1 .. Len(a) : c[i] = a[i]
        /\ \A i \in 1 .. Len(b) : c[Len(a) + i] = b[i]
    OBVIOUS
  <1> HIDE DEF c
  <1>2. ASSUME NEW i \in DOMAIN c PROVE c[i] \in ToSet(a) \cup ToSet(b)
    <2>1. CASE i <= Len(a)
      BY <2>1, <1>1 DEF ToSet
    <2>2. CASE i > Len(a)
      <3>1. i - Len(a) \in 1 .. Len(b) /\ c[Len(a) + (i - Len(a))] = b[i - Len(a)]
        BY <2>2, <1>1
      <3>2. Len(a) + (i - Len(a)) = i
        BY <1>1
      <3> QED
        BY <3>1, <3>2, <1>1 DEF ToSet
    <2> QED
      BY <2>1, <2>2, <1>1
  <1>3. \A y \in ToSet(a) \cup ToSet(b) : y \in ToSet(c)
    <2>1. \A i \in 1 .. Len(a) : i \in DOMAIN c
      BY <1>1
    <2>2. \A i \in 1 .. Len(b) : Len(a) + i \in DOMAIN c
      BY <1>1
    <2> QED
      BY <2>1, <2>2, <1>1 DEF ToSet
  <1>4. \A y \in ToSet(c) : y \in ToSet(a) \cup ToSet(b)
    BY <1>2 DEF ToSet
  <1>5. ToSet(c) = ToSet(a) \cup ToSet(b)
    BY <1>3, <1>4
  <1> QED
    BY <1>5 DEF c

LEMMA ToSetHead ==
    ASSUME NEW T, NEW a \in Seq(T), a # <<>>
    PROVE  ToSet(a) = {Head(a)} \cup ToSet(Tail(a))
  <1> DEFINE b == Tail(a)
  <1>1. /\ DOMAIN a = 1 .. Len(a) /\ DOMAIN b = 1 .. Len(a) - 1
        /\ Len(a) \in Nat /\ Len(a) >= 1
        /\ a[1] = Head(a)
        /\ \A i \in 1 .. Len(a) - 1 : b[i] = a[i + 1]
    OBVIOUS
  <1> HIDE DEF b
  <1>2. ASSUME NEW i \in DOMAIN a PROVE a[i] \in {Head(a)} \cup ToSet(b)
    <2>1. CASE i = 1
      BY <2>1, <1>1
    <2>2. CASE i # 1
      <3>1. i - 1 \in 1 .. Len(a) - 1 /\ b[i - 1] = a[(i - 1) + 1]
        BY <2>2, <1>1
      <3>2. (i - 1) + 1 = i
        BY <1>1
      <3> QED
        BY <3>1, <3>2, <1>1 DEF ToSet
    <2> QED
      BY <2>1, <2>2
  <1>3. \A y \in {Head(a)} \cup ToSet(b) : y \in ToSet(a)
    <2>1. \A i \in 1 .. Len(a) - 1 : i + 1 \in DOMAIN a
      BY <1>1
    <2>2. 1 \in DOMAIN a
      BY <1>1
    <2> QED
      BY <2>1, <2>2, <1>1 DEF ToSet
  <1>4. \A y \in ToSet(a) : y \in {Head(a)} \cup ToSet(b)
    BY <1>2 DEF ToSet
  <1>5. ToSet(a) = {Head(a)} \cup ToSet(b)
    BY <1>3, <1>4
  <1> QED
    BY <1>5 DEF b

\* Element y comes behind x in sequence s.
Follows(s, x, y) == \E i, j \in DOMAIN s : i < j /\ s[i] = x /\ s[j] = y

LEMMA FollowsConcat ==
    ASSUME NEW T, NEW a \in Seq(T), NEW b \in Seq(T), NEW x, NEW y, Follows(a \o b, x, y)
    PROVE  \/ Follows(a, x, y)
           \/ y \in ToSet(b) /\ (x \in ToSet(a) \/ Follows(b, x, y))
  <1> DEFINE c == a \o b
  <1>1. /\ DOMAIN c = 1 .. Len(a) + Len(b)
        /\ DOMAIN a = 1 .. Len(a) /\ DOMAIN b = 1 .. Len(b)
        /\ Len(a) \in Nat /\ Len(b) \in Nat
        /\ \A i \in 1 .. Len(a) : c[i] = a[i]
        /\ \A i \in DOMAIN c : i > Len(a) => c[i] = b[i - Len(a)]
    OBVIOUS
  <1>2. Follows(c, x, y)
    OBVIOUS
  <1> HIDE DEF c
  <1>3. PICK i \in DOMAIN c, j \in DOMAIN c : i < j /\ c[i] = x /\ c[j] = y
    BY <1>2 DEF Follows
  <1>4. CASE j <= Len(a)
    <2>1. i \in DOMAIN a /\ j \in DOMAIN a /\ a[i] = x /\ a[j] = y
      BY <1>1, <1>3, <1>4
    <2> QED
      BY <1>3, <2>1 DEF Follows
  <1>5. CASE j > Len(a)
    <2>1. j - Len(a) \in DOMAIN b /\ b[j - Len(a)] = y
      BY <1>1, <1>3, <1>5
    <2>2. y \in ToSet(b)
      BY <2>1 DEF ToSet
    <2>3. CASE i <= Len(a)
      <3>1. i \in DOMAIN a /\ a[i] = x
        BY <1>1, <1>3, <2>3
      <3> QED
        BY <2>2, <3>1 DEF ToSet
    <2>4. CASE i > Len(a)
      <3>1. i - Len(a) \in DOMAIN b /\ b[i - Len(a)] = x /\ i - Len(a) < j - Len(a)
        BY <1>1, <1>3, <2>4
      <3> QED
        BY <2>1, <2>2, <3>1 DEF Follows
    <2> QED
      BY <1>1, <2>3, <2>4
  <1> QED
    BY <1>1, <1>4, <1>5

LEMMA FollowsTail ==
    ASSUME NEW T, NEW a \in Seq(T), a # <<>>, NEW y
    PROVE  /\ \A x : Follows(Tail(a), x, y) => Follows(a, x, y)
           /\ y \in ToSet(Tail(a)) => Follows(a, Head(a), y)
           /\ ToSet(Tail(a)) \subseteq ToSet(a)
           /\ Head(a) \in ToSet(a)
  <1> DEFINE b == Tail(a)
             h == Head(a)
  <1>1. /\ DOMAIN a = 1 .. Len(a) /\ DOMAIN b = 1 .. Len(a) - 1
        /\ Len(a) \in Nat /\ Len(a) >= 1
        /\ a[1] = h
        /\ \A i \in DOMAIN b : i + 1 \in DOMAIN a /\ b[i] = a[i + 1]
    OBVIOUS
  <1> HIDE DEF b, h
  <1>2. ASSUME NEW x, Follows(b, x, y) PROVE Follows(a, x, y)
    <2>1. PICK i \in DOMAIN b, j \in DOMAIN b : i < j /\ b[i] = x /\ b[j] = y
      BY <1>2 DEF Follows
    <2>2. i + 1 < j + 1 /\ i + 1 \in DOMAIN a /\ j + 1 \in DOMAIN a
      BY <1>1, <2>1
    <2> QED
      BY <1>1, <2>1, <2>2 DEF Follows
  <1>3. ASSUME y \in ToSet(b) PROVE Follows(a, h, y)
    <2>1. PICK j \in DOMAIN b : b[j] = y
      BY <1>3 DEF ToSet
    <2>2. 1 < j + 1 /\ 1 \in DOMAIN a
      BY <1>1, <2>1
    <2> QED
      BY <1>1, <2>1, <2>2 DEF Follows
  <1>4. ToSet(b) \subseteq ToSet(a)
    BY <1>1 DEF ToSet
  <1>5. h \in ToSet(a)
    BY <1>1 DEF ToSet
  <1> QED
    BY <1>2, <1>3, <1>4, <1>5 DEF b, h

LEMMA FollowsRemoved ==
    ASSUME NEW T, NEW a \in Seq(T), NEW b \in Seq(T), b # <<>>, NEW y
    PROVE  /\ \A x : Follows(a \o Tail(b), x, y) => Follows(a \o b, x, y)
           /\ ToSet(a \o Tail(b)) \subseteq ToSet(a \o b)
  <1> DEFINE c == a \o b
             d == a \o Tail(b)
             up(i) == IF i <= Len(a) THEN i ELSE i + 1
  <1>1. \A i \in DOMAIN d :
            /\ i <= Len(a) => i \in DOMAIN c /\ d[i] = c[i]
            /\ i > Len(a) => i + 1 \in DOMAIN c /\ d[i] = c[i + 1]
    BY RemoveElement
  <1>2. Len(a) \in Nat /\ DOMAIN d = 1 .. Len(d) /\ Len(d) \in Nat
    OBVIOUS
  <1> HIDE DEF c, d
  <1>3. \A i \in DOMAIN d : up(i) \in DOMAIN c /\ d[i] = c[up(i)]
    BY <1>1, <1>2
  <1>4. \A i, j \in DOMAIN d : i < j => up(i) < up(j)
    BY <1>2
  <1> HIDE DEF up
  <1>5. ASSUME NEW x, Follows(d, x, y) PROVE Follows(c, x, y)
    <2>1. PICK i \in DOMAIN d, j \in DOMAIN d : i < j /\ d[i] = x /\ d[j] = y
      BY <1>5 DEF Follows
    <2> QED
      BY <1>3, <1>4, <2>1 DEF Follows
  <1>6. ToSet(d) \subseteq ToSet(c)
    BY <1>3 DEF ToSet
  <1> QED
    BY <1>5, <1>6 DEF c, d

LEMMA FollowsBehind ==
    ASSUME NEW T, NEW a \in Seq(T), NEW b \in Seq(T), NEW y
    PROVE  /\ \A x : Follows(b, x, y) => Follows(a \o b, x, y)
           /\ ToSet(b) \subseteq ToSet(a \o b)
  <1> DEFINE c == a \o b
  <1>1. /\ Len(a) \in Nat /\ Len(b) \in Nat /\ DOMAIN b = 1 .. Len(b)
        /\ \A i \in DOMAIN b : Len(a) + i \in DOMAIN c /\ c[Len(a) + i] = b[i]
    OBVIOUS
  <1> HIDE DEF c
  <1>2. ASSUME NEW x, Follows(b, x, y) PROVE Follows(c, x, y)
    <2>1. PICK i \in DOMAIN b, j \in DOMAIN b : i < j /\ b[i] = x /\ b[j] = y
      BY <1>2 DEF Follows
    <2>2. Len(a) + i < Len(a) + j
      BY <1>1, <2>1
    <2> QED
      BY <1>1, <2>1, <2>2 DEF Follows
  <1>3. ToSet(b) \subseteq ToSet(c)
    BY <1>1 DEF ToSet
  <1> QED
    BY <1>2, <1>3 DEF c

LEMMA FollowsAppend ==
    ASSUME NEW T, NEW a \in Seq(T), NEW z \in T, NEW x, NEW y
    PROVE  /\ Follows(a, x, y) => Follows(Append(a, z), x, y)
           /\ x \in ToSet(a) => Follows(Append(a, z), x, z)
           /\ Follows(Append(a, z), x, y) => Follows(a, x, y) \/ (y = z /\ x \in ToSet(a))
  <1> DEFINE b == Append(a, z)
  <1>1. /\ Len(a) \in Nat /\ DOMAIN a = 1 .. Len(a) /\ DOMAIN b = 1 .. Len(a) + 1
        /\ b[Len(a) + 1] = z
        /\ \A i \in 1 .. Len(a) : b[i] = a[i]
    OBVIOUS
  <1> HIDE DEF b
  <1>2. ASSUME Follows(a, x, y) PROVE Follows(b, x, y)
    BY <1>1, <1>2 DEF Follows
  <1>3. ASSUME x \in ToSet(a) PROVE Follows(b, x, z)
    <2>1. PICK i \in DOMAIN a : a[i] = x
      BY <1>3 DEF ToSet
    <2>2. i \in DOMAIN b /\ Len(a) + 1 \in DOMAIN b /\ i < Len(a) + 1 /\ b[i] = x
      BY <1>1, <2>1
    <2> QED
      BY <1>1, <2>2 DEF Follows
  <1>4. ASSUME Follows(b, x, y) PROVE Follows(a, x, y) \/ (y = z /\ x \in ToSet(a))
    <2>1. PICK i \in DOMAIN b, j \in DOMAIN b : i < j /\ b[i] = x /\ b[j] = y
      BY <1>4 DEF Follows
    <2>2. i \in DOMAIN a /\ a[i] = x
      BY <1>1, <2>1
    <2>3. CASE j = Len(a) + 1
      BY <1>1, <2>1, <2>2, <2>3 DEF ToSet
    <2>4. CASE j # Len(a) + 1
      <3>1. j \in DOMAIN a /\ a[j] = y
        BY <1>1, <2>1, <2>4
      <3> QED
        BY <2>1, <2>2, <3>1 DEF Follows
    <2> QED
      BY <2>3, <2>4
  <1> QED
    BY <1>2, <1>3, <1>4 DEF b
=============================================================================
