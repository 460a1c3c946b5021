--------------------------- MODULE RtSystemProofs ---------------------------
(***************************************************************************)
(* The lists and timers of RtSystem, its mutexes, semaphores, mailboxes,   *)
(* message queues and events, for any finite set of threads, any objects,  *)
(* priorities, flags and events, any size of the mailboxes and any finite  *)
(* set of blocks.                                                          *)
(***************************************************************************)
EXTENDS RtSystem, SequenceTheorems, FiniteSetTheorems, WellFoundedInduction, TLAPS

-----------------------------------------------------------------------------
(* Lists: sequences in which nothing is twice *)

Lists(S) == {s \in Seq(S) : IsInjective(s)}

LEMMA ListType ==
  ASSUME NEW S, NEW s \in Lists(S)
  PROVE  /\ s \in Seq(S) /\ Len(s) \in Nat /\ DOMAIN s = 1 .. Len(s)
         /\ \A i \in 1 .. Len(s) : s[i] \in S
         /\ \A i, j \in 1 .. Len(s) : s[i] = s[j] => i = j
         /\ ToSet(s) = {s[i] : i \in 1 .. Len(s)}
BY LenProperties, ElementOfSeq DEF Lists, IsInjective, ToSet

LEMMA IsList ==
  ASSUME NEW S, NEW s \in Seq(S),
         \A i, j \in 1 .. Len(s) : s[i] = s[j] => i = j
  PROVE  s \in Lists(S)
BY LenProperties DEF Lists, IsInjective

LEMMA Element ==
  ASSUME NEW S, NEW s \in Lists(S), NEW y
  PROVE  y \in ToSet(s) <=> \E i \in 1 .. Len(s) : s[i] = y
BY ListType

LEMMA EmptyList == ASSUME NEW S PROVE <<>> \in Lists(S) /\ ToSet(<<>>) = {}
BY EmptySeq DEF Lists, IsInjective, ToSet

LEMMA NoElements ==
  ASSUME NEW S, NEW s \in Lists(S) PROVE s = <<>> <=> ToSet(s) = {}
<1>1. s # <<>> => Len(s) \in Nat \ {0}
  BY EmptySeq, ListType
<1>2. s # <<>> => s[1] \in ToSet(s)
  BY <1>1, ListType
<1> QED
  BY <1>2, EmptyList

\* r is put together from s and x, at position at
Gains(r, s, x, at) ==
    /\ Len(r) = Len(s) + 1
    /\ \A i \in 1 .. Len(r) :
          r[i] = IF i < at THEN s[i] ELSE IF i = at THEN x ELSE s[i - 1]

LEMMA ListWith ==
  ASSUME NEW S, NEW s \in Lists(S), NEW x \in S, x \notin ToSet(s),
         NEW at \in 1 .. Len(s) + 1, NEW r \in Seq(S), Gains(r, s, x, at)
  PROVE  r \in Lists(S) /\ ToSet(r) = ToSet(s) \cup {x}
<1> USE ListType DEF Gains
<1>1. ASSUME NEW i \in 1 .. Len(r), NEW j \in 1 .. Len(r), r[i] = r[j]
      PROVE  i = j
  <2>1. \A k \in 1 .. Len(s) : s[k] # x
    OBVIOUS
  <2> DEFINE Old(k) == IF k < at THEN k ELSE k - 1
  <2>2. \A k \in 1 .. Len(r) : k # at => Old(k) \in 1 .. Len(s) /\ r[k] = s[Old(k)]
    OBVIOUS
  <2>3. CASE i # at /\ j # at
    <3>1. Old(i) = Old(j)
      BY <1>1, <2>2, <2>3
    <3> QED
      BY <3>1, <2>3
  <2>4. CASE i = at /\ j # at
    <3>1. r[i] = x /\ r[j] # x
      BY <2>1, <2>2, <2>4
    <3> QED
      BY <3>1, <1>1
  <2>5. CASE j = at /\ i # at
    <3>1. r[j] = x /\ r[i] # x
      BY <2>1, <2>2, <2>5
    <3> QED
      BY <3>1, <1>1
  <2> QED
    BY <2>3, <2>4, <2>5
<1>2. r \in Lists(S)
  BY <1>1, IsList
<1>3. ASSUME NEW y \in ToSet(r) PROVE y \in ToSet(s) \cup {x}
  <2>1. PICK i \in 1 .. Len(r) : r[i] = y
    BY <1>2, Element
  <2>2. CASE i < at
    <3>1. i \in 1 .. Len(s) /\ s[i] = y
      BY <2>1, <2>2
    <3> QED
      BY <3>1, Element
  <2>3. CASE i > at
    <3>1. i - 1 \in 1 .. Len(s) /\ s[i - 1] = y
      BY <2>1, <2>3
    <3> QED
      BY <3>1, Element
  <2>4. CASE i = at
    BY <2>1, <2>4
  <2> QED
    BY <2>2, <2>3, <2>4
<1>4. x \in ToSet(r)
  <2>1. at \in 1 .. Len(r) /\ r[at] = x
    OBVIOUS
  <2> QED
    BY <2>1, <1>2, Element
<1>5. ASSUME NEW i \in 1 .. Len(s) PROVE s[i] \in ToSet(r)
  <2>1. CASE i < at
    <3>1. i \in 1 .. Len(r) /\ r[i] = s[i]
      BY <2>1
    <3> QED
      BY <3>1, <1>2, Element
  <2>2. CASE i >= at
    <3>1. i + 1 \in 1 .. Len(r) /\ r[i + 1] = s[i]
      BY <2>2
    <3> QED
      BY <3>1, <1>2, Element
  <2> QED
    BY <2>1, <2>2
<1>6. ToSet(s) \subseteq ToSet(r)
  <2>1. ASSUME NEW y \in ToSet(s) PROVE y \in ToSet(r)
    <3>1. PICK i \in 1 .. Len(s) : s[i] = y
      BY Element
    <3> QED
      BY <3>1, <1>5
  <2> QED
    BY <2>1
<1> QED
  BY <1>2, <1>3, <1>4, <1>6

LEMMA Appended ==
  ASSUME NEW S, NEW s \in Lists(S), NEW x \in S, x \notin ToSet(s)
  PROVE  Append(s, x) \in Lists(S) /\ ToSet(Append(s, x)) = ToSet(s) \cup {x}
<1> DEFINE r == Append(s, x)  at == Len(s) + 1
<1>1. /\ r \in Seq(S) /\ Len(r) = Len(s) + 1
      /\ \A i \in 1 .. Len(s) : r[i] = s[i]
      /\ r[Len(s) + 1] = x
  BY ListType, AppendProperties
<1>2. at \in 1 .. Len(s) + 1
  BY ListType
<1> HIDE DEF r
<1>3. Gains(r, s, x, at)
  BY <1>1, ListType DEF Gains
<1> HIDE DEF at
<1>4. r \in Lists(S) /\ ToSet(r) = ToSet(s) \cup {x}
  BY <1>1, <1>2, <1>3, ListWith
<1> QED
  BY <1>4 DEF r

LEMMA InsertedAt ==
  ASSUME NEW S, NEW s \in Lists(S), NEW x \in S, x \notin ToSet(s),
         NEW at \in 1 .. Len(s) + 1
  PROVE  /\ InsertAt(s, at, x) \in Lists(S) /\ ToSet(InsertAt(s, at, x)) = ToSet(s) \cup {x}
         /\ Gains(InsertAt(s, at, x), s, x, at)
<1> DEFINE a == SubSeq(s, 1, at - 1)  b == SubSeq(s, at, Len(s))
           r == InsertAt(s, at, x)
<1> USE ListType
<1>1. a \in Seq(S) /\ Len(a) = at - 1 /\ \A i \in 1 .. at - 1 : a[i] = s[i]
  <2>1. 1 \in Int /\ at - 1 \in Int /\ \A i \in 1 .. at - 1 : s[i] \in S
    OBVIOUS
  <2> QED
    BY <2>1, SubSeqProperties
<1>2. /\ b \in Seq(S) /\ Len(b) = Len(s) + 1 - at
      /\ \A i \in 1 .. Len(s) + 1 - at : b[i] = s[at + i - 1]
  <2>1. Len(s) \in Int /\ at \in Int /\ \A i \in at .. Len(s) : s[i] \in S
    OBVIOUS
  <2> QED
    BY <2>1, SubSeqProperties
<1>3. <<x>> \in Seq(S) /\ Len(<<x>>) = 1 /\ <<x>>[1] = x
  OBVIOUS
<1>4. /\ a \o <<x>> \in Seq(S) /\ Len(a \o <<x>>) = at
      /\ \A i \in 1 .. at : (a \o <<x>>)[i] = IF i < at THEN s[i] ELSE x
  BY <1>1, <1>3, ConcatProperties
<1>5. /\ r \in Seq(S) /\ Len(r) = Len(s) + 1
      /\ \A i \in 1 .. Len(r) : r[i] = IF i <= at THEN (a \o <<x>>)[i] ELSE b[i - at]
  <2> DEFINE c == a \o <<x>>
  <2>1. c \in Seq(S) /\ Len(c) = at
    BY <1>4
  <2>2. r = c \o b
    BY DEF InsertAt
  <2> HIDE DEF b, c, r
  <2>3. /\ r \in Seq(S) /\ Len(r) = Len(c) + Len(b)
        /\ \A i \in 1 .. Len(c) + Len(b) :
              r[i] = IF i <= Len(c) THEN c[i] ELSE b[i - Len(c)]
    <3>1. b \in Seq(S) /\ c \in Seq(S)
      BY <1>2, <2>1
    <3> QED
      BY <3>1, <2>2, ConcatProperties
  <2>4. at + (Len(s) + 1 - at) = Len(s) + 1
    OBVIOUS
  <2> QED
    BY <1>2, <2>1, <2>3, <2>4 DEF c
<1>6. ASSUME NEW i \in 1 .. Len(r)
      PROVE  r[i] = IF i < at THEN s[i] ELSE IF i = at THEN x ELSE s[i - 1]
  <2>1. CASE i <= at
    BY <2>1, <1>4, <1>5
  <2>2. CASE i > at
    <3>1. i - at \in 1 .. Len(s) + 1 - at /\ at + (i - at) - 1 = i - 1
      BY <2>2, <1>5
    <3> QED
      BY <2>2, <3>1, <1>2, <1>5
  <2> QED
    BY <2>1, <2>2
<1>7. r \in Seq(S) /\ Len(r) = Len(s) + 1
  BY <1>5
<1>9. Gains(r, s, x, at)
  BY <1>6, <1>7 DEF Gains
<1> HIDE ListType DEF r, a, b
<1>8. r \in Lists(S) /\ ToSet(r) = ToSet(s) \cup {x}
  BY <1>7, <1>9, ListWith
<1> QED
  BY <1>8, <1>9 DEF r

\* r is what is left of s without position at
Loses(r, s, at) ==
    /\ Len(r) = Len(s) - 1
    /\ \A i \in 1 .. Len(r) : r[i] = IF i < at THEN s[i] ELSE s[i + 1]

LEMMA RemovedAt ==
  ASSUME NEW S, NEW s \in Lists(S), NEW at \in 1 .. Len(s)
  PROVE  /\ RemoveAt(s, at) \in Lists(S) /\ ToSet(RemoveAt(s, at)) = ToSet(s) \ {s[at]}
         /\ Loses(RemoveAt(s, at), s, at)
<1> DEFINE a == SubSeq(s, 1, at - 1)  b == SubSeq(s, at + 1, Len(s))
           r == RemoveAt(s, at)
<1> USE ListType
<1>1. a \in Seq(S) /\ Len(a) = at - 1 /\ \A i \in 1 .. at - 1 : a[i] = s[i]
  <2>1. 1 \in Int /\ at - 1 \in Int /\ \A i \in 1 .. at - 1 : s[i] \in S
    OBVIOUS
  <2> QED
    BY <2>1, SubSeqProperties
<1>2. /\ b \in Seq(S) /\ Len(b) = Len(s) - at
      /\ \A i \in 1 .. Len(s) - at : b[i] = s[at + i]
  <2>1. Len(s) \in Int /\ at + 1 \in Int /\ \A i \in at + 1 .. Len(s) : s[i] \in S
    OBVIOUS
  <2>2. /\ b \in Seq(S)
        /\ Len(b) = IF at + 1 <= Len(s) THEN Len(s) - (at + 1) + 1 ELSE 0
        /\ \A i \in 1 .. Len(s) - (at + 1) + 1 : b[i] = s[(at + 1) + i - 1]
    BY <2>1, SubSeqProperties
  <2> QED
    BY <2>2
<1>3. /\ r \in Seq(S) /\ Len(r) = Len(s) - 1
      /\ \A i \in 1 .. Len(r) : r[i] = IF i <= at - 1 THEN a[i] ELSE b[i - (at - 1)]
  <2>1. r = a \o b
    BY DEF RemoveAt
  <2> HIDE DEF a, b, r
  <2>2. /\ r \in Seq(S) /\ Len(r) = Len(a) + Len(b)
        /\ \A i \in 1 .. Len(a) + Len(b) :
              r[i] = IF i <= Len(a) THEN a[i] ELSE b[i - Len(a)]
    <3>1. a \in Seq(S) /\ b \in Seq(S)
      BY <1>1, <1>2
    <3> QED
      BY <3>1, <2>1, ConcatProperties
  <2>3. (at - 1) + (Len(s) - at) = Len(s) - 1
    OBVIOUS
  <2> QED
    BY <1>1, <1>2, <2>2, <2>3
<1> DEFINE Old(k) == IF k < at THEN k ELSE k + 1
<1>4. ASSUME NEW i \in 1 .. Len(r)
      PROVE  Old(i) \in 1 .. Len(s) /\ Old(i) # at /\ r[i] = s[Old(i)]
  <2>1. CASE i < at
    BY <2>1, <1>1, <1>3
  <2>2. CASE i >= at
    <3>1. i - (at - 1) \in 1 .. Len(s) - at /\ at + (i - (at - 1)) = i + 1
      BY <2>2, <1>3
    <3> QED
      BY <2>2, <3>1, <1>2, <1>3
  <2> QED
    BY <2>1, <2>2
<1>5. ASSUME NEW i \in 1 .. Len(s), i # at
      PROVE  \E k \in 1 .. Len(r) : Old(k) = i
  <2>1. CASE i < at
    BY <2>1, <1>3
  <2>2. CASE i > at
    <3>1. i - 1 \in 1 .. Len(r) /\ Old(i - 1) = i
      BY <2>2, <1>3
    <3> QED
      BY <3>1
  <2> QED
    BY <1>5, <2>1, <2>2
<1> HIDE DEF r
<1>6. r \in Lists(S)
  <2>1. ASSUME NEW i \in 1 .. Len(r), NEW j \in 1 .. Len(r), r[i] = r[j] PROVE i = j
    <3>1. Old(i) = Old(j)
      BY <2>1, <1>4
    <3> QED
      BY <3>1, <1>3
  <2> QED
    BY <2>1, <1>3, IsList DEF r
<1>7. ASSUME NEW y \in ToSet(r) PROVE y \in ToSet(s) \ {s[at]}
  <2>1. PICK i \in 1 .. Len(r) : r[i] = y
    BY <1>6, Element
  <2>2. Old(i) \in 1 .. Len(s) /\ Old(i) # at /\ y = s[Old(i)]
    BY <2>1, <1>4
  <2> HIDE DEF Old
  <2> QED
    BY <2>2, Element
<1>8. ToSet(s) \ {s[at]} \subseteq ToSet(r)
  <2>1. ASSUME NEW i \in 1 .. Len(s), i # at PROVE s[i] \in ToSet(r)
    <3>1. PICK k \in 1 .. Len(r) : Old(k) = i
      BY <2>1, <1>5
    <3>2. r[k] = s[i]
      BY <3>1, <1>4
    <3> QED
      BY <3>2, <1>6, Element
  <2> QED
    BY <2>1, Element
<1>9. Loses(r, s, at)
  BY <1>3, <1>4 DEF Loses
<1> QED
  BY <1>6, <1>7, <1>8, <1>9 DEF r

LEMMA UnlinkedIs ==
  ASSUME NEW S, NEW s \in Lists(S), NEW x
  PROVE  Unlinked(s, x) \in Lists(S) /\ ToSet(Unlinked(s, x)) = ToSet(s) \ {x}
<1>1. CASE x \notin ToSet(s)
  BY <1>1 DEF Unlinked
<1>2. CASE x \in ToSet(s)
  <2> DEFINE at == CHOOSE i \in DOMAIN s : s[i] = x
  <2>1. at \in 1 .. Len(s) /\ s[at] = x
    BY <1>2, ListType DEF ToSet
  <2>2. Unlinked(s, x) = RemoveAt(s, at)
    BY <1>2 DEF Unlinked
  <2> HIDE DEF at
  <2> QED
    BY <2>1, <2>2, RemovedAt
<1> QED
  BY <1>1, <1>2

LEMMA HeadAndTail ==
  ASSUME NEW S, NEW s \in Lists(S), s # <<>>
  PROVE  /\ Head(s) \in ToSet(s)
         /\ Tail(s) \in Lists(S) /\ ToSet(Tail(s)) = ToSet(s) \ {Head(s)}
<1> USE ListType
<1>1. Len(s) \in Nat \ {0}
  BY EmptySeq
<1>2. Head(s) = s[1] /\ 1 \in 1 .. Len(s)
  BY <1>1
<1>3. /\ Tail(s) \in Seq(S) /\ Len(Tail(s)) = Len(s) - 1
      /\ \A i \in 1 .. Len(Tail(s)) : Tail(s)[i] = s[i + 1]
  BY HeadTailProperties
<1>4. Tail(s) \in Lists(S)
  <2>1. ASSUME NEW i \in 1 .. Len(Tail(s)), NEW j \in 1 .. Len(Tail(s)),
               Tail(s)[i] = Tail(s)[j]
        PROVE  i = j
    <3>1. i + 1 \in 1 .. Len(s) /\ j + 1 \in 1 .. Len(s) /\ s[i + 1] = s[j + 1]
      BY <2>1, <1>3
    <3> QED
      BY <3>1
  <2> QED
    BY <2>1, <1>3, IsList
<1>5. ToSet(Tail(s)) \subseteq ToSet(s) \ {Head(s)}
  <2>1. ASSUME NEW i \in 1 .. Len(Tail(s))
        PROVE  Tail(s)[i] \in ToSet(s) /\ Tail(s)[i] # Head(s)
    <3>1. i + 1 \in 1 .. Len(s) /\ i + 1 # 1 /\ Tail(s)[i] = s[i + 1]
      BY <1>3
    <3> QED
      BY <3>1, <1>2, Element
  <2>2. ASSUME NEW y \in ToSet(Tail(s)) PROVE y \in ToSet(s) \ {Head(s)}
    <3>1. PICK i \in 1 .. Len(Tail(s)) : Tail(s)[i] = y
      BY <1>4, Element
    <3> QED
      BY <3>1, <2>1
  <2> QED
    BY <2>2
<1>6. ToSet(s) \ {Head(s)} \subseteq ToSet(Tail(s))
  <2>1. ASSUME NEW i \in 1 .. Len(s), i # 1 PROVE s[i] \in ToSet(Tail(s))
    <3>1. i - 1 \in 1 .. Len(Tail(s)) /\ Tail(s)[i - 1] = s[i]
      BY <2>1, <1>3
    <3> QED
      BY <3>1, <1>4, Element
  <2> QED
    BY <2>1, <1>2, Element
<1> QED
  BY <1>2, <1>4, <1>5, <1>6, Element

LEMMA Concatenated ==
  ASSUME NEW S, NEW a \in Lists(S), NEW b \in Lists(S), ToSet(a) \cap ToSet(b) = {}
  PROVE  a \o b \in Lists(S) /\ ToSet(a \o b) = ToSet(a) \cup ToSet(b)
<1> DEFINE r == a \o b
<1> USE ListType
<1>1. /\ r \in Seq(S) /\ Len(r) = Len(a) + Len(b)
      /\ \A i \in 1 .. Len(r) : r[i] = IF i <= Len(a) THEN a[i] ELSE b[i - Len(a)]
  BY ConcatProperties
<1> HIDE DEF r
<1>2. \A i \in 1 .. Len(r) : i > Len(a) => i - Len(a) \in 1 .. Len(b)
  BY <1>1
<1>3. \A i \in 1 .. Len(a), j \in 1 .. Len(b) : a[i] # b[j]
  BY Element
<1>4. ASSUME NEW i \in 1 .. Len(r), NEW j \in 1 .. Len(r), r[i] = r[j] PROVE i = j
  <2>1. CASE i <= Len(a) /\ j <= Len(a)
    BY <1>1, <1>4, <2>1
  <2>2. CASE i > Len(a) /\ j > Len(a)
    <3> DEFINE k == i - Len(a)  l == j - Len(a)
    <3>1. k \in 1 .. Len(b) /\ l \in 1 .. Len(b)
      BY <1>2, <2>2
    <3>2. b[k] = b[l]
      BY <1>1, <1>4, <2>2
    <3> HIDE DEF k, l
    <3>3. k = l
      BY <3>1, <3>2
    <3> QED
      BY <3>3 DEF k, l
  <2>3. CASE i <= Len(a) /\ j > Len(a)
    BY <1>1, <1>2, <1>3, <1>4, <2>3
  <2>4. CASE i > Len(a) /\ j <= Len(a)
    BY <1>1, <1>2, <1>3, <1>4, <2>4
  <2> QED
    BY <2>1, <2>2, <2>3, <2>4
<1>5. r \in Lists(S)
  BY <1>1, <1>4, IsList
<1>6. ASSUME NEW y \in ToSet(r) PROVE y \in ToSet(a) \cup ToSet(b)
  <2>1. PICK i \in 1 .. Len(r) : r[i] = y
    BY <1>5, Element
  <2>2. CASE i <= Len(a)
    BY <1>1, <2>1, <2>2, Element
  <2>3. CASE i > Len(a)
    BY <1>1, <1>2, <2>1, <2>3, Element
  <2> QED
    BY <2>2, <2>3
<1>7. ASSUME NEW i \in 1 .. Len(a) PROVE a[i] \in ToSet(r)
  <2>1. i \in 1 .. Len(r) /\ r[i] = a[i]
    BY <1>1
  <2> QED
    BY <2>1, <1>5, Element
<1>8. ASSUME NEW i \in 1 .. Len(b) PROVE b[i] \in ToSet(r)
  <2>1. i + Len(a) \in 1 .. Len(r) /\ r[i + Len(a)] = b[i]
    BY <1>1
  <2> QED
    BY <2>1, <1>5, Element
<1>9. ToSet(a) \cup ToSet(b) \subseteq ToSet(r)
  BY <1>7, <1>8, Element
<1> QED
  BY <1>5, <1>6, <1>9 DEF r

LEMMA Single ==
  ASSUME NEW S, NEW x \in S PROVE <<x>> \in Lists(S) /\ ToSet(<<x>>) = {x}
<1> DEFINE s == <<x>>
<1>1. s \in Seq(S) /\ Len(s) = 1 /\ s[1] = x
  OBVIOUS
<1> HIDE DEF s
<1>2. s \in Lists(S)
  BY <1>1, IsList
<1>3. \A y : y \in ToSet(s) <=> y = x
  BY <1>1, <1>2, Element
<1>4. ToSet(s) = {x}
  BY <1>3
<1> QED
  BY <1>2, <1>4 DEF s

LEMMA Reversed ==
  ASSUME NEW S, NEW s \in Lists(S)
  PROVE  Reverse(s) \in Lists(S) /\ ToSet(Reverse(s)) = ToSet(s)
<1> DEFINE r == Reverse(s)
<1> USE ListType
<1>1. r = [i \in 1 .. Len(s) |-> s[(Len(s) - i) + 1]]
  BY DEF Reverse
<1>2. \A i \in 1 .. Len(s) : (Len(s) - i) + 1 \in 1 .. Len(s) /\ r[i] = s[(Len(s) - i) + 1]
  BY <1>1
<1>3. r \in [1 .. Len(s) -> S]
  BY <1>1, <1>2
<1> HIDE DEF r
<1>4. r \in Seq(S) /\ Len(r) = Len(s)
  BY <1>3, SeqDef, LenProperties
<1>5. ASSUME NEW i \in 1 .. Len(r), NEW j \in 1 .. Len(r), r[i] = r[j] PROVE i = j
  <2> DEFINE p == (Len(s) - i) + 1  q == (Len(s) - j) + 1
  <2>1. p \in 1 .. Len(s) /\ r[i] = s[p] /\ q \in 1 .. Len(s) /\ r[j] = s[q]
    BY <1>2, <1>4
  <2>2. p = q
    <3> HIDE DEF p, q, r
    <3> QED
      BY <1>5, <2>1, ListType
  <2> QED
    BY <2>2, <1>4
<1>6. r \in Lists(S)
  BY <1>4, <1>5, IsList
<1>7. ASSUME NEW i \in 1 .. Len(r) PROVE r[i] \in ToSet(s)
  BY <1>2, <1>4, Element
<1>8. ASSUME NEW i \in 1 .. Len(s) PROVE s[i] \in ToSet(r)
  <2>1. (Len(s) - i) + 1 \in 1 .. Len(r) /\ r[(Len(s) - i) + 1] = s[i]
    BY <1>2, <1>4
  <2> QED
    BY <2>1, <1>6, Element
<1>9. ToSet(r) \subseteq ToSet(s) /\ ToSet(s) \subseteq ToSet(r)
  BY <1>6, <1>7, <1>8, Element
<1> QED
  BY <1>6, <1>9 DEF r

\* A set of numbers has a least one.
LEMMA LeastOf ==
  ASSUME NEW N, N \subseteq Nat, N # {} PROVE Min(N) \in N /\ \A n \in N : Min(N) <= n
<1> DEFINE R == OpToRel(<, Nat)
<1>0. \A x, y \in Nat : y < x => <<y, x>> \in R
  BY DEF OpToRel
<1>a. IsWellFoundedOn(R, Nat)
  BY NatLessThanWellFounded
<1> HIDE DEF R
<1>1. PICK x \in N : \A y \in N : ~ (<<y, x>> \in R)
  BY <1>a, WFMin
<1>2. \A y \in N : x <= y
  <2>1. ASSUME NEW y \in N PROVE x <= y
    <3>1. x \in Nat /\ y \in Nat
      OBVIOUS
    <3>2. y < x => <<y, x>> \in R
      BY <3>1, <1>0
    <3> QED
      BY <3>1, <3>2, <1>1
  <2> QED
    BY <2>1
<1> QED
  BY <1>2 DEF Min

-----------------------------------------------------------------------------
(* The ready table and the lists of waiting threads *)

Stats == [All -> {"ready", "suspend"}]
PrioMaps == [All -> Prios]

\* Table table is that of the states st and the priorities pr.
TableOK(table, st, pr) ==
    /\ table \in [Prios -> Lists(All)]
    /\ \A p \in Prios, t \in All :
          t \in ToSet(table[p]) <=> st[t] = "ready" /\ pr[t] = p

\* Lists l are those of the states st and the objects w waited for.
WaitOK(l, st, w) ==
    /\ l \in [Objects -> Lists(Threads)]
    /\ \A o \in Objects, t \in Threads :
          t \in ToSet(l[o]) <=> st[t] = "suspend" /\ w[t] = o

LEMMA InsertKeeps ==
  ASSUME NEW table, NEW st \in Stats, NEW pr \in PrioMaps, TableOK(table, st, pr),
         NEW t \in All, NEW p \in Prios, st[t] # "ready"
  PROVE  TableOK(Inserted(table, t, p), [st EXCEPT ![t] = "ready"], [pr EXCEPT ![t] = p])
<1> DEFINE new == Inserted(table, t, p)
<1>1. \A q \in Prios : table[q] \in Lists(All) /\ t \notin ToSet(table[q])
  BY DEF TableOK
<1>2. /\ Append(table[p], t) \in Lists(All)
      /\ ToSet(Append(table[p], t)) = ToSet(table[p]) \cup {t}
  BY <1>1, Appended
<1>3. new \in [Prios -> Lists(All)]
  BY <1>2 DEF TableOK, Inserted
<1>4. \A q \in Prios, u \in All :
        u \in ToSet(new[q]) <=> u \in ToSet(table[q]) \/ (q = p /\ u = t)
  <2>1. new[p] = Append(table[p], t) /\ \A q \in Prios : q # p => new[q] = table[q]
    BY DEF TableOK, Inserted
  <2> HIDE DEF new
  <2> QED
    BY <1>2, <2>1
<1> HIDE DEF new
<1>5. \A q \in Prios, u \in All : u \in ToSet(new[q]) <=>
        [st EXCEPT ![t] = "ready"][u] = "ready" /\ [pr EXCEPT ![t] = p][u] = q
  <2> DEFINE s == [st EXCEPT ![t] = "ready"]  w == [pr EXCEPT ![t] = p]
  <2>1. /\ s[t] = "ready" /\ w[t] = p
        /\ \A u \in All : u # t => s[u] = st[u] /\ w[u] = pr[u]
    BY DEF Stats, PrioMaps
  <2> HIDE DEF s, w
  <2>2. ASSUME NEW q \in Prios, NEW u \in All
        PROVE  u \in ToSet(new[q]) <=> s[u] = "ready" /\ w[u] = q
    <3>1. u \in ToSet(table[q]) <=> st[u] = "ready" /\ pr[u] = q
      BY DEF TableOK
    <3>2. CASE u = t
      BY <3>2, <1>1, <1>4, <2>1
    <3>3. CASE u # t
      BY <3>1, <3>3, <1>4, <2>1
    <3> QED
      BY <3>2, <3>3
  <2> QED
    BY <2>2 DEF s, w
<1> QED
  BY <1>3, <1>5 DEF TableOK, new

LEMMA RemoveKeeps ==
  ASSUME NEW table, NEW st \in Stats, NEW pr \in PrioMaps, TableOK(table, st, pr),
         NEW t \in All
  PROVE  TableOK(Removed(table, t, pr[t]), [st EXCEPT ![t] = "suspend"], pr)
<1> DEFINE p == pr[t]  new == Removed(table, t, p)
<1>1. p \in Prios /\ table[p] \in Lists(All)
  BY DEF TableOK, PrioMaps
<1>2. /\ Unlinked(table[p], t) \in Lists(All)
      /\ ToSet(Unlinked(table[p], t)) = ToSet(table[p]) \ {t}
  BY <1>1, UnlinkedIs
<1>3. new \in [Prios -> Lists(All)]
  BY <1>2 DEF TableOK, Removed
<1>4. \A q \in Prios, u \in All :
        u \in ToSet(new[q]) <=> u \in ToSet(table[q]) /\ ~(q = p /\ u = t)
  <2>1. new[p] = Unlinked(table[p], t) /\ \A q \in Prios : q # p => new[q] = table[q]
    BY <1>1 DEF TableOK, Removed
  <2> HIDE DEF new
  <2> QED
    BY <1>2, <2>1
<1> HIDE DEF new
<1>5. \A q \in Prios, u \in All : u \in ToSet(new[q]) <=>
        [st EXCEPT ![t] = "suspend"][u] = "ready" /\ pr[u] = q
  <2> DEFINE s == [st EXCEPT ![t] = "suspend"]
  <2>1. s[t] = "suspend" /\ \A u \in All : u # t => s[u] = st[u]
    BY DEF Stats
  <2> HIDE DEF s
  <2>3. ASSUME NEW q \in Prios, NEW u \in All
        PROVE  u \in ToSet(new[q]) <=> s[u] = "ready" /\ pr[u] = q
    <3>1. u \in ToSet(table[q]) <=> st[u] = "ready" /\ pr[u] = q
      BY DEF TableOK
    <3>2. CASE u = t
      BY <3>1, <3>2, <1>4, <2>1
    <3>3. CASE u # t
      BY <3>1, <3>3, <1>4, <2>1
    <3> QED
      BY <3>2, <3>3
  <2> QED
    BY <2>3 DEF s
<1> QED
  BY <1>3, <1>5 DEF TableOK, new

LEMMA ReprioritiseKeeps ==
  ASSUME stat \in Stats, prio \in PrioMaps, TableOK(ready, stat, prio),
         NEW t \in All, NEW p \in Prios
  PROVE  TableOK(Reprioritised(ready, t, p), stat, [prio EXCEPT ![t] = p])
<1>1. CASE stat[t] = "ready"
  <2> DEFINE st == [stat EXCEPT ![t] = "suspend"]  old == Removed(ready, t, prio[t])
  <2>1. TableOK(old, st, prio)
    BY RemoveKeeps
  <2>2. st \in Stats /\ st[t] # "ready" /\ [st EXCEPT ![t] = "ready"] = stat
    BY <1>1 DEF Stats
  <2> HIDE DEF st, old
  <2>3. TableOK(Inserted(old, t, p), [st EXCEPT ![t] = "ready"], [prio EXCEPT ![t] = p])
    BY <2>1, <2>2, InsertKeeps
  <2> QED
    BY <2>2, <2>3, <1>1 DEF Reprioritised, old
<1>2. CASE stat[t] # "ready"
  BY <1>2 DEF Reprioritised, TableOK, Stats, PrioMaps
<1> QED
  BY <1>1, <1>2

LEMMA ToTheEndKeeps ==
  ASSUME stat \in Stats, prio \in PrioMaps, TableOK(ready, stat, prio),
         NEW t \in All, stat[t] = "ready"
  PROVE  TableOK(ToTheEnd(t), stat, prio)
<1>1. prio[t] \in Prios /\ [prio EXCEPT ![t] = prio[t]] = prio
  BY DEF PrioMaps
<1>2. TableOK(Reprioritised(ready, t, prio[t]), stat, prio)
  BY <1>1, ReprioritiseKeeps
<1> QED
  BY <1>2 DEF Reprioritised, ToTheEnd

\* rt_schedule always finds a thread, and a ready one.
LEMMA ElectedReady ==
  ASSUME NEW table, NEW st \in Stats, NEW pr \in PrioMaps, TableOK(table, st, pr),
         st[Idle] = "ready", pr[Idle] = Lowest
  PROVE  Elected(table) \in All /\ st[Elected(table)] = "ready"
<1> DEFINE ps == {p \in Prios : table[p] # <<>>}
<1>1. Lowest \in Prios /\ Idle \in All
  BY KernelAssumption DEF Prios, All
<1>2. Idle \in ToSet(table[Lowest])
  BY <1>1 DEF TableOK
<1>3. table[Lowest] # <<>>
  BY <1>2, EmptyList
<1>4. ps \subseteq Nat /\ ps # {}
  BY <1>1, <1>3 DEF Prios
<1>5. Min(ps) \in ps
  BY <1>4, LeastOf
<1> DEFINE s == table[Min(ps)]
<1>6. s \in Lists(All) /\ s # <<>> /\ Min(ps) \in Prios
  BY <1>5 DEF TableOK
<1>7. Head(s) \in ToSet(s)
  BY <1>6, HeadAndTail
<1>8. Head(s) \in All
  BY <1>6, <1>7, ListType
<1> QED
  BY <1>6, <1>7, <1>8 DEF Elected, TableOK

\* rt_ipc_list_suspend puts the newcomer somewhere into the list.
LEMMA QueuedAt ==
  ASSUME NEW o, list[o] \in Lists(Threads), NEW t, NEW pr
  PROVE  \E at \in 1 .. Len(list[o]) + 1 : Queued(o, t, pr) = InsertAt(list[o], at, t)
<1> DEFINE later == {i \in DOMAIN list[o] : flag[o] = "prio" /\ pr[t] < pr[list[o][i]]}
           at == IF later = {} THEN Len(list[o]) + 1 ELSE Min(later)
<1>1. Len(list[o]) \in Nat /\ DOMAIN list[o] = 1 .. Len(list[o])
  BY ListType
<1>2. Queued(o, t, pr) = InsertAt(list[o], at, t)
  BY DEF Queued
<1>3. later \subseteq 1 .. Len(list[o])
  BY <1>1
<1> HIDE DEF later
<1>4. at \in 1 .. Len(list[o]) + 1
  <2>1. CASE later = {}
    BY <1>1, <2>1
  <2>2. CASE later # {}
    <3>1. later \subseteq Nat
      BY <1>3
    <3>2. Min(later) \in later
      BY <2>2, <3>1, LeastOf
    <3>3. Min(later) \in 1 .. Len(list[o])
      BY <1>3, <3>2
    <3> QED
      BY <1>1, <2>2, <3>3
  <2> QED
    BY <2>1, <2>2
<1> QED
  BY <1>2, <1>4

LEMMA QueueKeeps ==
  ASSUME WaitOK(list, stat, want), stat \in Stats, want \in [All -> Objects \cup {NoObject}],
         NEW t \in Threads, NEW o \in Objects, stat[t] = "ready", NEW pr
  PROVE  WaitOK([list EXCEPT ![o] = Queued(o, t, pr)], [stat EXCEPT ![t] = "suspend"],
                [want EXCEPT ![t] = o])
<1>1. list[o] \in Lists(Threads) /\ t \notin ToSet(list[o])
  BY DEF WaitOK
<1>2. PICK at \in 1 .. Len(list[o]) + 1 : Queued(o, t, pr) = InsertAt(list[o], at, t)
  BY <1>1, QueuedAt
<1>5. /\ Queued(o, t, pr) \in Lists(Threads)
      /\ ToSet(Queued(o, t, pr)) = ToSet(list[o]) \cup {t}
  BY <1>1, <1>2, InsertedAt
<1> DEFINE new == [list EXCEPT ![o] = Queued(o, t, pr)]
<1>6. new \in [Objects -> Lists(Threads)]
  BY <1>5 DEF WaitOK
<1>7. \A q \in Objects, u \in Threads :
        u \in ToSet(new[q]) <=> u \in ToSet(list[q]) \/ (q = o /\ u = t)
  <2>1. new[o] = Queued(o, t, pr) /\ \A q \in Objects : q # o => new[q] = list[q]
    BY DEF WaitOK
  <2> HIDE DEF new
  <2> QED
    BY <1>5, <2>1
<1> HIDE DEF new
<1>8. \A q \in Objects, u \in Threads : u \in ToSet(new[q]) <=>
        [stat EXCEPT ![t] = "suspend"][u] = "suspend" /\ [want EXCEPT ![t] = o][u] = q
  <2> DEFINE st == [stat EXCEPT ![t] = "suspend"]  w == [want EXCEPT ![t] = o]
  <2>1. /\ st[t] = "suspend" /\ w[t] = o
        /\ \A u \in Threads : u # t => st[u] = stat[u] /\ w[u] = want[u]
    BY DEF Stats, All
  <2> HIDE DEF st, w
  <2>2. \A q \in Objects : t \notin ToSet(list[q])
    BY DEF WaitOK
  <2>3. ASSUME NEW q \in Objects, NEW u \in Threads
        PROVE  u \in ToSet(new[q]) <=> st[u] = "suspend" /\ w[u] = q
    <3>1. u \in ToSet(list[q]) <=> stat[u] = "suspend" /\ want[u] = q
      BY DEF WaitOK
    <3>2. CASE u = t
      BY <3>2, <1>7, <2>1, <2>2
    <3>3. CASE u # t
      BY <3>1, <3>3, <1>7, <2>1
    <3> QED
      BY <3>2, <3>3
  <2> QED
    BY <2>3 DEF st, w
<1> QED
  BY <1>6, <1>8 DEF WaitOK, new

LEMMA DequeueKeeps ==
  ASSUME WaitOK(list, stat, want), stat \in Stats,
         NEW o \in Objects, list[o] # <<>>, NEW u, u = Head(list[o])
  PROVE  /\ u \in Threads /\ stat[u] = "suspend" /\ want[u] = o
         /\ WaitOK([list EXCEPT ![o] = Tail(@)], [stat EXCEPT ![u] = "ready"], want)
<1>1. list[o] \in Lists(Threads)
  BY DEF WaitOK
<1>2. /\ u \in ToSet(list[o]) /\ Tail(list[o]) \in Lists(Threads)
      /\ ToSet(Tail(list[o])) = ToSet(list[o]) \ {u}
  BY <1>1, HeadAndTail
<1>3. u \in Threads
  BY <1>1, <1>2, ListType
<1>4. stat[u] = "suspend" /\ want[u] = o
  BY <1>2, <1>3 DEF WaitOK
<1> DEFINE new == [list EXCEPT ![o] = Tail(@)]
<1>6. new \in [Objects -> Lists(Threads)]
  BY <1>2 DEF WaitOK
<1>7. \A q \in Objects, t \in Threads :
        t \in ToSet(new[q]) <=> t \in ToSet(list[q]) /\ ~(q = o /\ t = u)
  <2>1. new[o] = Tail(list[o]) /\ \A q \in Objects : q # o => new[q] = list[q]
    BY DEF WaitOK
  <2> HIDE DEF new
  <2> QED
    BY <1>2, <2>1
<1> HIDE DEF new
<1>8. \A q \in Objects, t \in Threads : t \in ToSet(new[q]) <=>
        [stat EXCEPT ![u] = "ready"][t] = "suspend" /\ want[t] = q
  <2> DEFINE st == [stat EXCEPT ![u] = "ready"]
  <2>1. st[u] = "ready" /\ \A t \in Threads : t # u => st[t] = stat[t]
    BY <1>3 DEF Stats, All
  <2> HIDE DEF st
  <2>2. ASSUME NEW q \in Objects, NEW t \in Threads
        PROVE  t \in ToSet(new[q]) <=> st[t] = "suspend" /\ want[t] = q
    <3>1. t \in ToSet(list[q]) <=> stat[t] = "suspend" /\ want[t] = q
      BY DEF WaitOK
    <3>2. CASE t = u
      BY <3>1, <3>2, <1>4, <1>7, <2>1
    <3>3. CASE t # u
      BY <3>1, <3>3, <1>7, <2>1
    <3> QED
      BY <3>2, <3>3
  <2> QED
    BY <2>2 DEF st
<1> QED
  BY <1>3, <1>4, <1>6, <1>8 DEF WaitOK, new

LEMMA UnlinkKeeps ==
  ASSUME WaitOK(list, stat, want), stat \in Stats, NEW t \in Threads
  PROVE  WaitOK([o \in Objects |-> Unlinked(list[o], t)], [stat EXCEPT ![t] = "ready"], want)
<1> DEFINE new == [o \in Objects |-> Unlinked(list[o], t)]
<1>1. \A o \in Objects : new[o] \in Lists(Threads) /\ ToSet(new[o]) = ToSet(list[o]) \ {t}
  BY UnlinkedIs DEF WaitOK
<1>2. new \in [Objects -> Lists(Threads)]
  BY <1>1
<1> HIDE DEF new
<1>3. \A q \in Objects, u \in Threads : u \in ToSet(new[q]) <=>
        [stat EXCEPT ![t] = "ready"][u] = "suspend" /\ want[u] = q
  <2> DEFINE st == [stat EXCEPT ![t] = "ready"]
  <2>1. st[t] = "ready" /\ \A u \in Threads : u # t => st[u] = stat[u]
    BY DEF Stats, All
  <2> HIDE DEF st
  <2>2. ASSUME NEW q \in Objects, NEW u \in Threads
        PROVE  u \in ToSet(new[q]) <=> st[u] = "suspend" /\ want[u] = q
    <3>1. u \in ToSet(list[q]) <=> stat[u] = "suspend" /\ want[u] = q
      BY DEF WaitOK
    <3>2. CASE u = t
      BY <3>2, <1>1, <2>1
    <3>3. CASE u # t
      BY <3>1, <3>3, <1>1, <2>1
    <3> QED
      BY <3>2, <3>3
  <2> QED
    BY <2>2 DEF st
<1> QED
  BY <1>2, <1>3 DEF WaitOK, new

\* What a ready thread wants does not matter to the lists.
LEMMA WantKeeps ==
  ASSUME NEW l, NEW st \in Stats, NEW w \in [All -> Objects \cup {NoObject}],
         WaitOK(l, st, w), NEW t \in All, st[t] = "ready", NEW x
  PROVE  WaitOK(l, st, [w EXCEPT ![t] = x])
BY DEF WaitOK, Stats, All

LEMMA SleepKeeps ==
  ASSUME WaitOK(list, stat, want), stat \in Stats, NEW t \in Threads, want[t] = NoObject
  PROVE  WaitOK(list, [stat EXCEPT ![t] = "suspend"], want)
BY KernelAssumption DEF WaitOK, Stats, All

-----------------------------------------------------------------------------
(* What every call keeps of the kernel's state *)

Errors == {"ok", "timeout", "error"}
Taking == {"take_sched", "take_check", "reset"}
Waiting == {"take_sched", "take_check", "sleep_sched", "sleep_check"}

KernelTypes ==
    /\ stat \in Stats /\ prio \in PrioMaps
    /\ error \in [All -> Errors] /\ pc \in [All -> Points]
    /\ want \in [All -> Objects \cup {NoObject}]
    /\ timer \subseteq Threads

Tables == TableOK(ready, stat, prio) /\ WaitOK(list, stat, want)

IdleInv == stat[Idle] = "ready" /\ prio[Idle] = Lowest

\* A thread is suspended only in a wait or a sleep, wants an object just while
\* it takes or resets it, waits with thread->error at RT_EOK, and its timer
\* runs only meanwhile.
Place(t) ==
    /\ want[t] # NoObject <=> pc[t] \in Taking
    /\ stat[t] = "suspend" => pc[t] \in Waiting
    /\ stat[t] = "suspend" /\ want[t] # NoObject => error[t] = "ok"
    /\ t \in timer => stat[t] = "suspend"

Places == \A t \in Threads : Place(t)

KernelInv == KernelTypes /\ Tables /\ IdleInv /\ Places

\* The running thread is ready, or about to call rt_schedule.
OnProcessor ==
    /\ cur \in All
    /\ stat[cur] = "ready" \/ pc[cur] \in {"take_sched", "sleep_sched"}

\* The threads that are taking from o and have not returned
Takers(o) == {t \in Threads : Takes(t, o)}

LEMMA Same ==
  ASSUME NEW S, NEW T, NEW f \in [S -> T], NEW x \in S
  PROVE  f = [f EXCEPT ![x] = f[x]] /\ f[x] \in T
OBVIOUS

LEMMA ThreadsAreAll ==
  ASSUME NEW t \in Threads PROVE t \in All /\ t # Idle
BY KernelAssumption DEF All

LEMMA Running ==
  ASSUME KernelInv, OnProcessor, NEW t \in Threads, cur = t,
         pc[t] \notin {"take_sched", "sleep_sched"}
  PROVE  stat[t] = "ready"
BY DEF OnProcessor

\* A call that suspends and resumes nobody
LEMMA QuietKeeps ==
  ASSUME KernelInv, NEW t \in Threads, stat[t] = "ready",
         NEW x \in Points \ {"take_sched", "take_check"},
         NEW y \in Objects \cup {NoObject}, y # NoObject <=> x \in Taking,
         NEW e \in Errors,
         pc' = [pc EXCEPT ![t] = x], want' = [want EXCEPT ![t] = y],
         error' = [error EXCEPT ![t] = e],
         UNCHANGED <<ready, stat, prio, timer, list>>
  PROVE  /\ KernelInv'
         /\ \A q : Handed(q)' = Handed(q) \ {t} /\ Takers(q)' = Takers(q) \ {t}
<1> USE ThreadsAreAll
<1>1. /\ pc'[t] = x /\ want'[t] = y /\ error'[t] = e
      /\ \A v \in All : v # t => pc'[v] = pc[v] /\ want'[v] = want[v] /\ error'[v] = error[v]
  BY DEF KernelInv, KernelTypes
<1>2. KernelTypes'
  BY DEF KernelInv, KernelTypes
<1>3. Tables'
  <2>1. WaitOK(list, stat, [want EXCEPT ![t] = y])
    BY WantKeeps DEF KernelInv, KernelTypes, Tables
  <2>2. TableOK(ready, stat, prio)' /\ WaitOK(list, stat, want)'
    BY <2>1 DEF KernelInv, Tables, TableOK, WaitOK
  <2> QED
    BY <2>2 DEF Tables
<1>4. IdleInv'
  BY DEF KernelInv, IdleInv
<1>5. Places'
  <2>1. ASSUME NEW v \in Threads PROVE Place(v)'
    <3>1. Place(v)
      BY DEF KernelInv, Places
    <3>2. CASE v = t
      BY <1>1, <3>1, <3>2 DEF Place
    <3>3. CASE v # t
      BY <1>1, <3>1, <3>3 DEF Place
    <3> QED
      BY <3>2, <3>3
  <2> QED
    BY <2>1 DEF Places
<1>6. ASSUME NEW o PROVE Handed(o)' = Handed(o) \ {t} /\ Takers(o)' = Takers(o) \ {t}
  <2>1. ASSUME NEW v \in Threads
        PROVE  /\ v \in Handed(o)' <=> v \in Handed(o) \ {t}
               /\ v \in Takers(o)' <=> v \in Takers(o) \ {t}
    <3>1. CASE v = t
      BY <1>1, <3>1 DEF Handed, Takers, Takes
    <3>2. CASE v # t
      BY <1>1, <3>2 DEF Handed, Takers, Takes
    <3> QED
      BY <3>1, <3>2
  <2>2. /\ Handed(o)' \subseteq Threads /\ Handed(o) \subseteq Threads
        /\ Takers(o)' \subseteq Threads /\ Takers(o) \subseteq Threads
    BY DEF Handed, Takers
  <2> QED
    BY <2>1, <2>2
<1> QED
  BY <1>2, <1>3, <1>4, <1>5, <1>6 DEF KernelInv

LEMMA SuspendOnKeeps ==
  ASSUME KernelInv, NEW t \in Threads, stat[t] = "ready",
         NEW o \in Objects, NEW time \in BOOLEAN, NEW table,
         NEW pr \in PrioMaps, pr[Idle] = Lowest, TableOK(table, stat, pr),
         SuspendOn(t, o, time, table, pr)
  PROVE  /\ KernelInv'
         /\ \A q : /\ Handed(q)' = Handed(q) \ {t}
                  /\ Takers(q)' = (Takers(q) \ {t}) \cup (IF q = o THEN {t} ELSE {})
<1> USE ThreadsAreAll
<1>1. /\ pc'[t] = "take_sched" /\ want'[t] = o /\ error'[t] = "ok" /\ stat'[t] = "suspend"
      /\ \A v \in All : v # t => /\ pc'[v] = pc[v] /\ want'[v] = want[v]
                                 /\ error'[v] = error[v] /\ stat'[v] = stat[v]
                                 /\ v \in timer' <=> v \in timer
  BY DEF KernelInv, KernelTypes, SuspendOn, GoTo, Stats
<1>0. o # NoObject
  BY KernelAssumption
<1>2. KernelTypes'
  BY DEF KernelInv, KernelTypes, SuspendOn, GoTo, Stats, Points, SchedPoints, Errors
<1>3. Tables'
  <2>1. TableOK(Removed(table, t, pr[t]), [stat EXCEPT ![t] = "suspend"], pr)
    BY RemoveKeeps DEF KernelInv, KernelTypes
  <2>2. WaitOK([list EXCEPT ![o] = Queued(o, t, pr)], [stat EXCEPT ![t] = "suspend"],
               [want EXCEPT ![t] = o])
    BY QueueKeeps DEF KernelInv, KernelTypes, Tables
  <2>3. TableOK(ready', stat', prio') /\ WaitOK(list', stat', want')
    BY <2>1, <2>2 DEF SuspendOn
  <2> QED
    BY <2>3 DEF Tables, TableOK, WaitOK
<1>4. IdleInv'
  BY DEF KernelInv, KernelTypes, IdleInv, SuspendOn, Stats, All
<1>5. Places'
  <2>1. ASSUME NEW v \in Threads PROVE Place(v)'
    <3>1. Place(v)
      BY DEF KernelInv, Places
    <3>2. CASE v = t
      BY <1>0, <1>1, <3>1, <3>2 DEF Place, Taking, Waiting
    <3>3. CASE v # t
      BY <1>1, <3>1, <3>3 DEF Place
    <3> QED
      BY <3>2, <3>3
  <2> QED
    BY <2>1 DEF Places
<1>6. ASSUME NEW q
      PROVE  /\ Handed(q)' = Handed(q) \ {t}
             /\ Takers(q)' = (Takers(q) \ {t}) \cup (IF q = o THEN {t} ELSE {})
  <2>1. ASSUME NEW v \in Threads
        PROVE  /\ v \in Handed(q)' <=> v \in Handed(q) \ {t}
               /\ v \in Takers(q)' <=> \/ v \in Takers(q) /\ v # t
                                       \/ v = t /\ q = o
    <3>1. CASE v = t
      BY <1>1, <3>1 DEF Handed, Takers, Takes
    <3>2. CASE v # t
      BY <1>1, <3>2 DEF Handed, Takers, Takes
    <3> QED
      BY <3>1, <3>2
  <2>2. /\ Handed(q)' \subseteq Threads /\ Handed(q) \subseteq Threads
        /\ Takers(q)' \subseteq Threads /\ Takers(q) \subseteq Threads
    BY DEF Handed, Takers
  <2> QED
    BY <2>1, <2>2
<1> QED
  BY <1>2, <1>3, <1>4, <1>5, <1>6 DEF KernelInv

\* A call, or an interrupt, that resumes the first thread of the list of o:
\* pc, want and error change for the caller t at most, error for the resumed
\* thread, and the caller may get its own priority back.
LEMMA ResumeKeeps ==
  ASSUME KernelInv, NEW t \in All, stat[t] = "ready",
         NEW x \in Points, NEW y \in Objects \cup {NoObject},
         t \in Threads => x \notin {"take_sched", "take_check"} /\ (y # NoObject <=> x \in Taking),
         t = Idle => pc' = pc /\ want' = want,
         pc' = [pc EXCEPT ![t] = x], want' = [want EXCEPT ![t] = y],
         NEW o \in Objects, list[o] # <<>>,
         NEW e \in Errors, error' = [error EXCEPT ![Head(list[o])] = e],
         NEW table, prio' \in PrioMaps, prio'[Idle] = Lowest,
         prio'[Head(list[o])] = prio[Head(list[o])],
         TableOK(table, stat, prio'), ResumeFirst(o, table)
  PROVE  /\ KernelInv'
         /\ Head(list[o]) \in Threads
         /\ stat[Head(list[o])] = "suspend" /\ want[Head(list[o])] = o
         /\ stat' = [stat EXCEPT ![Head(list[o])] = "ready"]
         /\ \A q : /\ Handed(q)' = (Handed(q) \ {t}) \cup
                                  (IF q = o /\ e = "ok" THEN {Head(list[o])} ELSE {})
                  /\ Takers(q)' = Takers(q) \ {t}
<1> DEFINE u == Head(list[o])
<1> USE ThreadsAreAll
<1>0. Tables /\ stat \in Stats
  BY DEF KernelInv, KernelTypes
<1>1. /\ u \in Threads /\ stat[u] = "suspend" /\ want[u] = o
      /\ WaitOK([list EXCEPT ![o] = Tail(@)], [stat EXCEPT ![u] = "ready"], want)
  BY <1>0, DequeueKeeps DEF Tables
<1>2. /\ list' = [list EXCEPT ![o] = Tail(@)] /\ timer' = timer \ {u}
      /\ stat' = [stat EXCEPT ![u] = "ready"] /\ ready' = Inserted(table, u, prio[u])
  BY DEF ResumeFirst
<1>3. prio'[u] = prio[u] /\ prio[u] \in Prios
  BY <1>1 DEF PrioMaps, KernelInv, KernelTypes
<1>4. error' = [error EXCEPT ![u] = e]
  OBVIOUS
<1> HIDE DEF u
<1>5. u # t /\ o # NoObject
  BY <1>1, KernelAssumption
<1>6. /\ pc'[t] = x /\ want'[t] = y /\ error'[u] = e /\ stat'[u] = "ready"
      /\ \A v \in All : v # t => pc'[v] = pc[v] /\ want'[v] = want[v]
      /\ \A v \in All : v # u => /\ error'[v] = error[v] /\ stat'[v] = stat[v]
                                 /\ v \in timer' <=> v \in timer
  BY <1>1, <1>2, <1>4 DEF KernelInv, KernelTypes, Stats
<1>7. KernelTypes'
  <2>1. stat' \in Stats /\ timer' \subseteq Threads
    BY <1>1, <1>2 DEF KernelInv, KernelTypes, Stats
  <2>2. error' \in [All -> Errors]
    BY <1>4 DEF KernelInv, KernelTypes
  <2>3. pc' \in [All -> Points] /\ want' \in [All -> Objects \cup {NoObject}]
    BY DEF KernelInv, KernelTypes
  <2> QED
    BY <2>1, <2>2, <2>3 DEF KernelTypes
<1>8. Tables'
  <2>1. /\ [stat EXCEPT ![u] = "ready"] \in Stats
        /\ [stat EXCEPT ![u] = "ready"][t] = "ready"
        /\ want \in [All -> Objects \cup {NoObject}]
    BY <1>1, <1>5 DEF KernelInv, KernelTypes, Stats
  <2>2. WaitOK([list EXCEPT ![o] = Tail(@)], [stat EXCEPT ![u] = "ready"],
               [want EXCEPT ![t] = y])
    BY <2>1, <1>1, WantKeeps
  <2>3. TableOK(Inserted(table, u, prio[u]), [stat EXCEPT ![u] = "ready"],
                [prio' EXCEPT ![u] = prio[u]])
    BY <1>0, <1>1, <1>3, InsertKeeps
  <2>4. [prio' EXCEPT ![u] = prio[u]] = prio'
    BY <1>1, <1>3 DEF PrioMaps
  <2>5. TableOK(ready', stat', prio') /\ WaitOK(list', stat', want')
    BY <1>2, <2>2, <2>3, <2>4
  <2> QED
    BY <2>5 DEF Tables, TableOK, WaitOK
<1>9. IdleInv'
  BY <1>1, <1>6 DEF KernelInv, IdleInv, All
<1>10. Places'
  <2>1. ASSUME NEW v \in Threads PROVE Place(v)'
    <3>1. Place(v)
      BY DEF KernelInv, Places
    <3>2. CASE v = t
      BY <1>5, <1>6, <3>1, <3>2 DEF Place
    <3>3. CASE v = u
      BY <1>2, <1>5, <1>6, <3>1, <3>3 DEF Place
    <3>4. CASE v # t /\ v # u
      BY <1>6, <3>1, <3>4 DEF Place
    <3> QED
      BY <3>2, <3>3, <3>4
  <2> QED
    BY <2>1 DEF Places
<1>11. Place(u) /\ u \in Threads
  BY <1>1 DEF KernelInv, Places
<1>12. ASSUME NEW q
       PROVE  /\ Handed(q)' = (Handed(q) \ {t}) \cup (IF q = o /\ e = "ok" THEN {u} ELSE {})
              /\ Takers(q)' = Takers(q) \ {t}
  <2>1. ASSUME NEW v \in Threads
        PROVE  /\ v \in Handed(q)' <=> \/ v \in Handed(q) /\ v # t
                                       \/ v = u /\ q = o /\ e = "ok"
               /\ v \in Takers(q)' <=> v \in Takers(q) /\ v # t
    <3>1. CASE v = t
      BY <1>5, <1>6, <3>1 DEF Handed, Takers, Takes
    <3>2. CASE v = u
      <4>1. pc[u] \in {"take_sched", "take_check"}
        BY <1>1, <1>5, <1>11 DEF Place, Taking, Waiting
      <4> QED
        BY <1>1, <1>5, <1>6, <3>2, <4>1 DEF Handed, Takers, Takes
    <3>3. CASE v # t /\ v # u
      BY <1>6, <3>3 DEF Handed, Takers, Takes
    <3> QED
      BY <3>1, <3>2, <3>3
  <2>2. /\ Handed(q)' \subseteq Threads /\ Handed(q) \subseteq Threads
        /\ Takers(q)' \subseteq Threads /\ Takers(q) \subseteq Threads
    BY DEF Handed, Takers
  <2> QED
    BY <1>1, <2>1, <2>2
<1> QED
  BY <1>1, <1>2, <1>7, <1>8, <1>9, <1>10, <1>12 DEF KernelInv, u

LEMMA SleepKeepsKernel ==
  ASSUME KernelInv, OnProcessor, NEW t \in Threads, Sleep(t)
  PROVE  /\ KernelInv' /\ OnProcessor'
         /\ \A q : Handed(q)' = Handed(q) /\ Takers(q)' = Takers(q)
<1> USE ThreadsAreAll
<1>0. cur = t /\ pc[t] = "run"
  BY DEF Sleep, Calls
<1>1. stat[t] = "ready"
  BY <1>0, Running
<1>2. /\ pc'[t] = "sleep_sched" /\ stat'[t] = "suspend"
      /\ \A v \in All : v # t => /\ pc'[v] = pc[v] /\ stat'[v] = stat[v]
                                 /\ v \in timer' <=> v \in timer
      /\ UNCHANGED <<cur, prio, error, list, flag, want>>
  BY DEF KernelInv, KernelTypes, Sleep, GoTo, Stats
<1>3. KernelTypes'
  BY DEF KernelInv, KernelTypes, Sleep, GoTo, Stats, Points, SchedPoints
<1>4. want[t] = NoObject
  BY <1>0 DEF KernelInv, Places, Place, Taking
<1>5. Tables'
  <2>1. TableOK(Removed(ready, t, prio[t]), [stat EXCEPT ![t] = "suspend"], prio)
    BY RemoveKeeps DEF KernelInv, KernelTypes, Tables
  <2>2. WaitOK(list, [stat EXCEPT ![t] = "suspend"], want)
    BY <1>4, SleepKeeps DEF KernelInv, KernelTypes, Tables
  <2>3. TableOK(ready', stat', prio') /\ WaitOK(list', stat', want')
    BY <2>1, <2>2 DEF Sleep
  <2> QED
    BY <2>3 DEF Tables, TableOK, WaitOK
<1>6. IdleInv'
  BY <1>2 DEF KernelInv, IdleInv, All
<1>7. Places'
  <2>1. ASSUME NEW v \in Threads PROVE Place(v)'
    <3>1. Place(v)
      BY DEF KernelInv, Places
    <3>2. CASE v = t
      BY <1>2, <1>4, <3>1, <3>2 DEF Place, Taking, Waiting
    <3>3. CASE v # t
      BY <1>2, <3>1, <3>3 DEF Place
    <3> QED
      BY <3>2, <3>3
  <2> QED
    BY <2>1 DEF Places
<1>8. ASSUME NEW q PROVE Handed(q)' = Handed(q) /\ Takers(q)' = Takers(q)
  <2>1. ASSUME NEW v \in Threads
        PROVE  /\ v \in Handed(q)' <=> v \in Handed(q)
               /\ v \in Takers(q)' <=> v \in Takers(q)
    <3>1. CASE v = t
      BY <1>0, <1>2, <3>1 DEF Handed, Takers, Takes
    <3>2. CASE v # t
      BY <1>2, <3>2 DEF Handed, Takers, Takes
    <3> QED
      BY <3>1, <3>2
  <2>2. /\ Handed(q)' \subseteq Threads /\ Handed(q) \subseteq Threads
        /\ Takers(q)' \subseteq Threads /\ Takers(q) \subseteq Threads
    BY DEF Handed, Takers
  <2> QED
    BY <2>1, <2>2
<1>9. OnProcessor'
  BY <1>0, <1>2 DEF OnProcessor
<1> QED
  BY <1>3, <1>5, <1>6, <1>7, <1>8, <1>9 DEF KernelInv

LEMMA ScheduleKeeps ==
  ASSUME KernelInv, OnProcessor, NEW t \in Threads, Schedule(t)
  PROVE  /\ KernelInv' /\ OnProcessor'
         /\ \A q : Handed(q)' = Handed(q) /\ Takers(q)' = Takers(q)
<1> USE ThreadsAreAll
<1>0. pc[t] \in SchedPoints /\ UNCHANGED <<ready, stat, prio, error, timer, list, want>>
  BY DEF Schedule
<1>1. /\ pc[t] = "take_sched" => pc'[t] = "take_check"
      /\ pc[t] = "sleep_sched" => pc'[t] = "sleep_check"
      /\ pc[t] = "last_sched" => pc'[t] = "run"
      /\ \A v \in All : v # t => pc'[v] = pc[v]
      /\ pc' \in [All -> Points]
  <2>1. /\ AfterSchedule["take_sched"] = "take_check"
        /\ AfterSchedule["sleep_sched"] = "sleep_check"
        /\ AfterSchedule["last_sched"] = "run"
    BY DEF AfterSchedule
  <2>2. AfterSchedule[pc[t]] \in Points
    BY <1>0, <2>1 DEF SchedPoints, Points
  <2>3. pc' = [pc EXCEPT ![t] = AfterSchedule[pc[t]]] /\ pc \in [All -> Points]
    BY DEF Schedule, GoTo, KernelInv, KernelTypes
  <2> QED
    BY <2>1, <2>2, <2>3
<1>3. KernelTypes'
  BY <1>0, <1>1 DEF KernelInv, KernelTypes
<1>5. Tables'
  BY <1>0 DEF KernelInv, Tables, TableOK, WaitOK
<1>6. IdleInv'
  BY <1>0 DEF KernelInv, IdleInv
<1>7. Places'
  <2>1. ASSUME NEW v \in Threads PROVE Place(v)'
    <3>1. Place(v)
      BY DEF KernelInv, Places
    <3>2. CASE v = t
      BY <1>0, <1>1, <3>1, <3>2 DEF Place, Taking, Waiting, SchedPoints
    <3>3. CASE v # t
      BY <1>0, <1>1, <3>1, <3>3 DEF Place
    <3> QED
      BY <3>2, <3>3
  <2> QED
    BY <2>1 DEF Places
<1>8. ASSUME NEW q PROVE Handed(q)' = Handed(q) /\ Takers(q)' = Takers(q)
  <2>1. ASSUME NEW v \in Threads
        PROVE  /\ v \in Handed(q)' <=> v \in Handed(q)
               /\ v \in Takers(q)' <=> v \in Takers(q)
    <3>1. CASE v = t
      BY <1>0, <1>1, <3>1 DEF Handed, Takers, Takes, SchedPoints
    <3>2. CASE v # t
      BY <1>0, <1>1, <3>2 DEF Handed, Takers, Takes
    <3> QED
      BY <3>1, <3>2
  <2>2. /\ Handed(q)' \subseteq Threads /\ Handed(q) \subseteq Threads
        /\ Takers(q)' \subseteq Threads /\ Takers(q) \subseteq Threads
    BY DEF Handed, Takers
  <2> QED
    BY <2>1, <2>2
<1>9. OnProcessor'
  <2>1. Elected(ready) \in All /\ stat[Elected(ready)] = "ready"
    BY ElectedReady DEF KernelInv, KernelTypes, Tables, IdleInv
  <2> QED
    BY <1>0, <2>1 DEF OnProcessor, Schedule
<1> QED
  BY <1>3, <1>5, <1>6, <1>7, <1>8, <1>9 DEF KernelInv

LEMMA YieldKeeps ==
  ASSUME KernelInv, OnProcessor, NEW t \in Threads, Yield(t)
  PROVE  /\ KernelInv' /\ OnProcessor'
         /\ \A q : Handed(q)' = Handed(q) /\ Takers(q)' = Takers(q)
<1> USE ThreadsAreAll
<1>0. /\ cur = t /\ pc[t] = "run" /\ stat[t] = "ready" /\ ready' = ToTheEnd(t)
      /\ UNCHANGED <<cur, stat, prio, error, timer, list, want>>
  BY DEF Yield, Calls, CanYield
<1>1. /\ pc'[t] = "last_sched" /\ pc' \in [All -> Points]
      /\ \A v \in All : v # t => pc'[v] = pc[v]
  BY DEF Yield, GoTo, KernelInv, KernelTypes, Points, SchedPoints
<1>2. KernelTypes'
  BY <1>0, <1>1 DEF KernelInv, KernelTypes
<1>3. Tables'
  <2>1. TableOK(ready', stat, prio)
    BY <1>0, ToTheEndKeeps DEF KernelInv, KernelTypes, Tables
  <2>2. TableOK(ready', stat', prio') /\ WaitOK(list', stat', want')
    BY <1>0, <2>1 DEF KernelInv, Tables
  <2> QED
    BY <2>2 DEF Tables, TableOK, WaitOK
<1>4. IdleInv'
  BY <1>0 DEF KernelInv, IdleInv
<1>5. Places'
  <2>1. ASSUME NEW v \in Threads PROVE Place(v)'
    <3>1. Place(v)
      BY DEF KernelInv, Places
    <3>2. CASE v = t
      BY <1>0, <1>1, <3>1, <3>2 DEF Place, Taking
    <3>3. CASE v # t
      BY <1>0, <1>1, <3>1, <3>3 DEF Place
    <3> QED
      BY <3>2, <3>3
  <2> QED
    BY <2>1 DEF Places
<1>6. ASSUME NEW q PROVE Handed(q)' = Handed(q) /\ Takers(q)' = Takers(q)
  <2>1. ASSUME NEW v \in Threads
        PROVE  /\ v \in Handed(q)' <=> v \in Handed(q)
               /\ v \in Takers(q)' <=> v \in Takers(q)
    <3>1. CASE v = t
      BY <1>0, <1>1, <3>1 DEF Handed, Takers, Takes
    <3>2. CASE v # t
      BY <1>0, <1>1, <3>2 DEF Handed, Takers, Takes
    <3> QED
      BY <3>1, <3>2
  <2>2. /\ Handed(q)' \subseteq Threads /\ Handed(q) \subseteq Threads
        /\ Takers(q)' \subseteq Threads /\ Takers(q) \subseteq Threads
    BY DEF Handed, Takers
  <2> QED
    BY <2>1, <2>2
<1>7. OnProcessor'
  BY <1>0 DEF OnProcessor
<1> QED
  BY <1>2, <1>3, <1>4, <1>5, <1>6, <1>7 DEF KernelInv

\* After an interrupt that calls rt_schedule
LEMMA ElectedRuns ==
  ASSUME KernelInv', cur' = Elected(ready')
  PROVE  OnProcessor'
<1>1. /\ stat' \in Stats /\ prio' \in PrioMaps /\ TableOK(ready', stat', prio')
      /\ stat'[Idle] = "ready" /\ prio'[Idle] = Lowest
  BY DEF KernelInv, KernelTypes, Tables, IdleInv, TableOK
<1>2. Elected(ready') \in All /\ stat'[Elected(ready')] = "ready"
  BY <1>1, ElectedReady
<1> QED
  BY <1>2 DEF OnProcessor

LEMMA SliceKeeps ==
  ASSUME KernelInv, OnProcessor, Slice
  PROVE  /\ KernelInv' /\ OnProcessor'
         /\ \A q : Handed(q)' = Handed(q) /\ Takers(q)' = Takers(q)
<1>0. /\ cur \in All /\ stat[cur] = "ready" /\ ready' = ToTheEnd(cur)
      /\ cur' = Elected(ready')
      /\ UNCHANGED <<stat, prio, error, timer, list, pc, want>>
  BY DEF Slice, CanYield, OnProcessor
<1>1. TableOK(ready', stat, prio)
  BY <1>0, ToTheEndKeeps DEF KernelInv, KernelTypes, Tables
<1>2. Tables'
  <2>1. TableOK(ready', stat', prio') /\ WaitOK(list', stat', want')
    BY <1>0, <1>1 DEF KernelInv, Tables
  <2> QED
    BY <2>1 DEF Tables, TableOK, WaitOK
<1>3. KernelInv'
  BY <1>0, <1>2 DEF KernelInv, KernelTypes, IdleInv, Places, Place
<1>4. \A q : Handed(q)' = Handed(q) /\ Takers(q)' = Takers(q)
  BY <1>0 DEF Handed, Takers, Takes
<1> QED
  BY <1>0, <1>3, <1>4, ElectedRuns

\* A thread is resumed, wherever it waits or sleeps, with the error e.
LEMMA ResumedKeeps ==
  ASSUME KernelInv, NEW t \in Threads, stat[t] = "suspend", Resume(t),
         NEW e \in Errors, error' = [error EXCEPT ![t] = e], UNCHANGED <<prio, pc, want>>
  PROVE  /\ KernelInv'
         /\ \A q : /\ Takers(q)' = Takers(q)
                   /\ (e # "ok" \/ want[t] # q) => Handed(q)' = Handed(q)
<1> USE ThreadsAreAll
<1>0. Place(t)
  BY DEF KernelInv, Places
<1>1. /\ stat'[t] = "ready" /\ error'[t] = e /\ t \notin timer'
      /\ \A v \in All : v # t => /\ stat'[v] = stat[v] /\ error'[v] = error[v]
                                 /\ v \in timer' <=> v \in timer
      /\ UNCHANGED <<prio, pc, want>>
  BY DEF Resume, KernelInv, KernelTypes, Stats
<1>2. KernelTypes'
  BY DEF Resume, KernelInv, KernelTypes, Stats
<1>3. Tables'
  <2>1. WaitOK([o \in Objects |-> Unlinked(list[o], t)], [stat EXCEPT ![t] = "ready"], want)
    BY UnlinkKeeps DEF KernelInv, KernelTypes, Tables
  <2>2. prio[t] \in Prios /\ [prio EXCEPT ![t] = prio[t]] = prio
    BY DEF KernelInv, KernelTypes, PrioMaps
  <2>3. TableOK(Inserted(ready, t, prio[t]), [stat EXCEPT ![t] = "ready"], prio)
    BY <2>2, InsertKeeps DEF KernelInv, KernelTypes, Tables
  <2>4. TableOK(ready', stat', prio') /\ WaitOK(list', stat', want')
    BY <2>1, <2>3 DEF Resume
  <2> QED
    BY <2>4 DEF Tables, TableOK, WaitOK
<1>4. IdleInv'
  BY <1>1 DEF KernelInv, IdleInv, All
<1>5. Places'
  <2>1. ASSUME NEW v \in Threads PROVE Place(v)'
    <3>1. Place(v)
      BY DEF KernelInv, Places
    <3>2. CASE v = t
      BY <1>1, <3>1, <3>2 DEF Place
    <3>3. CASE v # t
      BY <1>1, <3>1, <3>3 DEF Place
    <3> QED
      BY <3>2, <3>3
  <2> QED
    BY <2>1 DEF Places
<1>6. ASSUME NEW q
      PROVE  Takers(q)' = Takers(q) /\ ((e # "ok" \/ want[t] # q) => Handed(q)' = Handed(q))
  <2>1. ASSUME NEW v \in Threads
        PROVE  /\ v \in Takers(q)' <=> v \in Takers(q)
               /\ (e # "ok" \/ want[t] # q) => (v \in Handed(q)' <=> v \in Handed(q))
    <3>1. CASE v = t
      BY <1>0, <1>1, <3>1 DEF Handed, Takers, Takes
    <3>2. CASE v # t
      BY <1>1, <3>2 DEF Handed, Takers, Takes
    <3> QED
      BY <3>1, <3>2
  <2>2. /\ Handed(q)' \subseteq Threads /\ Handed(q) \subseteq Threads
        /\ Takers(q)' \subseteq Threads /\ Takers(q) \subseteq Threads
    BY DEF Handed, Takers
  <2> QED
    BY <2>1, <2>2
<1> QED
  BY <1>2, <1>3, <1>4, <1>5, <1>6 DEF KernelInv

LEMMA TimeoutKeeps ==
  ASSUME KernelInv, NEW t \in Threads, Timeout(t)
  PROVE  /\ KernelInv' /\ OnProcessor'
         /\ \A q : Handed(q)' = Handed(q) /\ Takers(q)' = Takers(q)
<1>1. stat[t] = "suspend"
  BY DEF Timeout, KernelInv, Places, Place
<1>2. "timeout" \in Errors /\ "timeout" # "ok"
  BY DEF Errors
<1>3. Resume(t) /\ error' = [error EXCEPT ![t] = "timeout"] /\ UNCHANGED <<prio, pc, want>>
  BY DEF Timeout
<1>4. /\ KernelInv'
      /\ \A q : Handed(q)' = Handed(q) /\ Takers(q)' = Takers(q)
  BY <1>1, <1>2, <1>3, ResumedKeeps
<1>5. OnProcessor'
  BY <1>4, ElectedRuns DEF Timeout
<1> QED
  BY <1>4, <1>5

-----------------------------------------------------------------------------
(* The mutexes, the semaphores and the mailboxes *)

MutexTypes ==
    /\ mutex \in [Mutexes -> [value : {0, 1}, owner : Threads \cup {NoThread},
                              original_priority : Prios \cup {NoPrio}, hold : Nat]]
    /\ holds \in [Threads -> [Mutexes -> Nat]]

\* hold counts what its owner has been told and will be told; only a thread
\* that a release has resumed owns what it is taking.
MutexOK(m) ==
    /\ mutex[m].value = 1 <=> mutex[m].owner = NoThread
    /\ mutex[m].owner = NoThread => mutex[m].hold = 0 /\ list[m] = <<>>
    /\ mutex[m].owner # NoThread =>
          mutex[m].hold # 0 /\ mutex[m].original_priority \in Prios
    /\ \A t \in Threads :
          IF Owns(t, m)
          THEN /\ mutex[m].hold = holds[t][m] + (IF t \in Handed(m) THEN 1 ELSE 0)
               /\ t \in Takers(m) => t \in Handed(m)
          ELSE holds[t][m] = 0 /\ t \notin Handed(m)

MutexInv == MutexTypes /\ \A m \in Mutexes : MutexOK(m)

SemOK(s) ==
    /\ credit[s] = count[s] + Cardinality(Handed(s))
    /\ list[s] # <<>> => count[s] = 0

SemInv ==
    /\ count \in [Sems -> Nat] /\ credit \in [Sems -> Nat]
    /\ \A s \in Sems : SemOK(s)

\* The place after offset, i places on
On(offset, i) == IF offset + i < BoxSize THEN offset + i ELSE offset + i - BoxSize

Offsets == 0 .. BoxSize - 1

BoxTypes ==
    /\ box \in [Boxes -> [msg_pool : [Offsets -> Mails \cup {NoMail}],
                          in_offset : Offsets, out_offset : Offsets,
                          entry : 0 .. BoxSize]]
    /\ sent \in [Boxes -> Seq(Mails)]

RingOK(b) ==
    /\ Len(sent[b]) = box[b].entry
    /\ box[b].in_offset = On(box[b].out_offset, box[b].entry)
    /\ \A i \in 1 .. Len(sent[b]) :
          box[b].msg_pool[On(box[b].out_offset, i - 1)] = sent[b][i]

RingInv == BoxTypes /\ \A b \in Boxes : RingOK(b)

BoxWaitOK(b) ==
    /\ list[b] # <<>> => box[b].entry <= Cardinality(Handed(b))
    /\ list[Senders(b)] # <<>> =>
          BoxSize - box[b].entry <= Cardinality(Handed(Senders(b)))

BoxWaitInv == \A b \in Boxes : BoxWaitOK(b)

\* Somebody waits in the list of o only for more than n, beyond what those who
\* have been resumed from it will take.
Served(o, n) == list[o] # <<>> => n <= Cardinality(Handed(o))

QueueWaitOK(q) ==
    Served(q, mq[q].entry) /\ Served(Senders(q), Len(mq[q].free))

QueueWaitInv == \A q \in Queues : QueueWaitOK(q)

\* Nobody comes to wait for o, is resumed for it or returns with it.
Untouched(o) ==
    /\ list[o] = <<>> => list'[o] = <<>>
    /\ Handed(o)' = Handed(o)
    /\ Takers(o)' \subseteq Takers(o)

LEMMA MutexFrame ==
  ASSUME MutexInv, UNCHANGED <<mutex, holds>>, \A m \in Mutexes : Untouched(m)
  PROVE  MutexInv'
<1>1. ASSUME NEW m \in Mutexes PROVE MutexOK(m)'
  <2>1. MutexOK(m) /\ Untouched(m)
    BY <1>1 DEF MutexInv
  <2> QED
    BY <2>1 DEF MutexOK, Untouched, Owns
<1> QED
  BY <1>1 DEF MutexInv, MutexTypes

LEMMA SemFrame ==
  ASSUME SemInv, UNCHANGED <<count, credit>>, \A s \in Sems : Untouched(s)
  PROVE  SemInv'
<1>1. ASSUME NEW s \in Sems PROVE SemOK(s)'
  <2>1. SemOK(s) /\ Untouched(s)
    BY <1>1 DEF SemInv
  <2> QED
    BY <2>1 DEF SemOK, Untouched
<1> QED
  BY <1>1 DEF SemInv

LEMMA BoxFrame ==
  ASSUME RingInv, BoxWaitInv, UNCHANGED <<box, sent>>,
         \A b \in Boxes : Untouched(b) /\ Untouched(Senders(b))
  PROVE  RingInv' /\ BoxWaitInv'
<1>1. ASSUME NEW b \in Boxes PROVE BoxWaitOK(b)'
  <2>1. BoxWaitOK(b) /\ Untouched(b) /\ Untouched(Senders(b))
    BY <1>1 DEF BoxWaitInv
  <2> QED
    BY <2>1 DEF BoxWaitOK, Untouched, Senders
<1>2. RingInv'
  BY DEF RingInv, BoxTypes, RingOK
<1> QED
  BY <1>1, <1>2 DEF BoxWaitInv

LEMMA QueueFrame ==
  ASSUME QueueWaitInv, UNCHANGED mq,
         \A q \in Queues : Untouched(q) /\ Untouched(Senders(q))
  PROVE  QueueWaitInv'
<1>1. ASSUME NEW q \in Queues PROVE QueueWaitOK(q)'
  <2>1. QueueWaitOK(q) /\ Untouched(q) /\ Untouched(Senders(q))
    BY <1>1 DEF QueueWaitInv
  <2> QED
    BY <2>1 DEF QueueWaitOK, Served, Untouched, Senders
<1> QED
  BY <1>1 DEF QueueWaitInv

LEMMA HandedIsFinite ==
  ASSUME NEW o
  PROVE  /\ IsFiniteSet(Handed(o)) /\ Cardinality(Handed(o)) \in Nat
         /\ \A t \in Handed(o) : t \in Takers(o)
<1>1. Handed(o) \subseteq Threads
  BY DEF Handed
<1>2. IsFiniteSet(Handed(o))
  BY <1>1, KernelAssumption, FS_Subset
<1> QED
  BY <1>2, FS_CardinalityType DEF Handed, Takers

-----------------------------------------------------------------------------
(* What the steps of the kernel leave alone *)

\* A thread in its own code takes nothing, a thread takes from one object, and
\* only a suspended thread is in a list.
LEMMA TakesOne ==
  ASSUME NEW t \in Threads, NEW o
  PROVE  /\ t \in Takers(o) => want[t] = o /\ pc[t] \in {"take_sched", "take_check"}
         /\ t \in Handed(o) => t \in Takers(o)
BY DEF Takers, Takes, Handed

LEMMA KernelStepKeeps ==
  ASSUME KernelInv, OnProcessor,
         (\E t \in Threads : Schedule(t) \/ Sleep(t) \/ Yield(t)) \/ Tick
  PROVE  KernelInv' /\ OnProcessor' /\ \A o \in Objects : Untouched(o)
<1>1. ASSUME NEW t \in Threads, Schedule(t)
      PROVE  KernelInv' /\ OnProcessor' /\ \A o \in Objects : Untouched(o)
  BY <1>1, ScheduleKeeps DEF Untouched, Schedule
<1>2. ASSUME NEW t \in Threads, Sleep(t)
      PROVE  KernelInv' /\ OnProcessor' /\ \A o \in Objects : Untouched(o)
  BY <1>2, SleepKeepsKernel DEF Untouched, Sleep
<1>3. ASSUME NEW t \in Threads, Yield(t)
      PROVE  KernelInv' /\ OnProcessor' /\ \A o \in Objects : Untouched(o)
  BY <1>3, YieldKeeps DEF Untouched, Yield
<1>4. CASE Slice
  BY <1>4, SliceKeeps DEF Untouched, Slice
<1>5. ASSUME NEW t \in Threads, Timeout(t)
      PROVE  KernelInv' /\ OnProcessor' /\ \A o \in Objects : Untouched(o)
  <2>1. ASSUME NEW o \in Objects PROVE list[o] = <<>> => list'[o] = <<>>
    BY <1>5, EmptyList DEF Timeout, Resume, Unlinked
  <2> QED
    BY <1>5, <2>1, TimeoutKeeps DEF Untouched
<1> QED
  BY <1>1, <1>2, <1>3, <1>4, <1>5 DEF Tick

\* A call that returns at once
LEMMA CallKeeps ==
  ASSUME KernelInv, OnProcessor, NEW t \in Threads, Calls(t),
         NEW e \in Errors, error' = [error EXCEPT ![t] = e],
         UNCHANGED <<ready, cur, stat, prio, timer, list, pc, want>>
  PROVE  KernelInv' /\ OnProcessor' /\ \A o : Untouched(o)
<1>1. cur = t /\ pc[t] = "run"
  BY DEF Calls
<1>2. stat[t] = "ready" /\ Place(t)
  BY <1>1, Running DEF KernelInv, Places
<1>3. want[t] = NoObject /\ NoObject \in Objects \cup {NoObject}
  BY <1>1, <1>2 DEF Place, Taking
<1>4. pc' = [pc EXCEPT ![t] = "run"] /\ want' = [want EXCEPT ![t] = NoObject]
  BY <1>1, <1>3, ThreadsAreAll DEF KernelInv, KernelTypes
<1>5. "run" \in Points \ {"take_sched", "take_check"} /\ "run" \notin Taking
  BY DEF Points, Taking
<1>6. /\ KernelInv'
      /\ \A o : Handed(o)' = Handed(o) \ {t} /\ Takers(o)' = Takers(o) \ {t}
  BY <1>2, <1>3, <1>4, <1>5, QuietKeeps
<1>7. \A o : t \notin Takers(o) /\ t \notin Handed(o)
  BY <1>1 DEF Takers, Takes, Handed
<1>8. OnProcessor'
  BY <1>1, <1>2 DEF OnProcessor
<1> QED
  BY <1>6, <1>7, <1>8 DEF Untouched

\* The running thread goes to x, which is not a wait.
LEMMA ReturnKeeps ==
  ASSUME KernelInv, OnProcessor, NEW t \in Threads, cur = t,
         pc[t] \notin {"take_sched", "sleep_sched"},
         NEW x \in {"run", "last_sched", "reset", "copy"},
         NEW y \in Objects \cup {NoObject}, y # NoObject <=> x = "reset",
         NEW e \in Errors,
         pc' = [pc EXCEPT ![t] = x], want' = [want EXCEPT ![t] = y],
         error' = [error EXCEPT ![t] = e],
         UNCHANGED <<ready, cur, stat, prio, timer, list>>
  PROVE  /\ KernelInv' /\ OnProcessor'
         /\ \A q : Handed(q)' = Handed(q) \ {t} /\ Takers(q)' = Takers(q) \ {t}
         /\ \A q : q # want[t] => Untouched(q)
<1>1. stat[t] = "ready"
  BY Running
<1>2. x \in Points \ {"take_sched", "take_check"} /\ (y # NoObject <=> x \in Taking)
  BY DEF Points, SchedPoints, Taking
<1>3. /\ KernelInv'
      /\ \A q : Handed(q)' = Handed(q) \ {t} /\ Takers(q)' = Takers(q) \ {t}
  BY <1>1, <1>2, QuietKeeps
<1>4. \A q : q # want[t] => t \notin Takers(q) /\ t \notin Handed(q)
  BY TakesOne
<1>5. OnProcessor'
  BY <1>1 DEF OnProcessor
<1> QED
  BY <1>3, <1>4, <1>5 DEF Untouched

\* The running thread waits for o, for the first time or again.
LEMMA WaitKeeps ==
  ASSUME KernelInv, OnProcessor, NEW t \in Threads, cur = t,
         NEW o \in Objects,
         pc[t] = "run" \/ (pc[t] = "take_check" /\ want[t] = o),
         NEW time \in BOOLEAN, NEW table,
         NEW pr \in PrioMaps, pr[Idle] = Lowest, TableOK(table, stat, pr),
         SuspendOn(t, o, time, table, pr), UNCHANGED cur
  PROVE  /\ KernelInv' /\ OnProcessor'
         /\ Handed(o)' = Handed(o) \ {t} /\ Takers(o)' = Takers(o) \cup {t}
         /\ \A q \in Objects : q # o => Untouched(q) /\ list'[q] = list[q]
<1>1. stat[t] = "ready"
  BY Running
<1>2. /\ KernelInv'
      /\ \A q : /\ Handed(q)' = Handed(q) \ {t}
                /\ Takers(q)' = (Takers(q) \ {t}) \cup (IF q = o THEN {t} ELSE {})
  BY <1>1, SuspendOnKeeps
<1>3. \A q \in Objects : q # o => t \notin Takers(q) /\ t \notin Handed(q)
  BY TakesOne
<1>4. \A q \in Objects : q # o => list'[q] = list[q]
  BY DEF SuspendOn, KernelInv, Tables, WaitOK
<1>5. OnProcessor'
  <2>1. pc'[t] = "take_sched" /\ cur' = t
    BY ThreadsAreAll DEF SuspendOn, GoTo, KernelInv, KernelTypes
  <2> QED
    BY <2>1, ThreadsAreAll DEF OnProcessor
<1>6. \A q \in Objects : q # o => Untouched(q)
  BY <1>2, <1>3, <1>4 DEF Untouched
<1>7. Handed(o)' = Handed(o) \ {t} /\ Takers(o)' = Takers(o) \cup {t}
  BY <1>2
<1> QED
  BY <1>2, <1>4, <1>5, <1>6, <1>7

\* The running thread t resumes the first one that waits for o, with the error
\* e, goes to x and wants y.
Hands(t, x, y, o, e, table) ==
    /\ cur = t /\ pc[t] \notin {"take_sched", "sleep_sched"} /\ UNCHANGED cur
    /\ x \in {"run", "last_sched", "reset", "copy"} /\ pc' = [pc EXCEPT ![t] = x]
    /\ y \in Objects \cup {NoObject} /\ want' = [want EXCEPT ![t] = y]
    /\ y # NoObject <=> x = "reset"
    /\ list[o] # <<>>
    /\ e \in Errors /\ error' = [error EXCEPT ![Head(list[o])] = e]
    /\ prio' \in PrioMaps /\ prio'[Idle] = Lowest
    /\ prio'[Head(list[o])] = prio[Head(list[o])]
    /\ TableOK(table, stat, prio') /\ ResumeFirst(o, table)

\* What comes of it
Handing(t, o, e) ==
    /\ KernelInv' /\ OnProcessor'
    /\ Head(list[o]) \in Threads \ {t} /\ Head(list[o]) \notin Handed(o)
    /\ Handed(o)' = (Handed(o) \ {t}) \cup (IF e = "ok" THEN {Head(list[o])} ELSE {})
    /\ \A q \in Objects : Takers(q)' = Takers(q) \ {t}
    /\ \A q \in Objects : q # o => list'[q] = list[q] /\ Handed(q)' = Handed(q) \ {t}
    /\ \A q \in Objects : q # o /\ q # want[t] => Untouched(q)

LEMMA HandKeeps ==
  ASSUME KernelInv, OnProcessor, NEW t \in Threads, NEW x, NEW y, NEW o \in Objects,
         NEW e, NEW table, Hands(t, x, y, o, e, table)
  PROVE  Handing(t, o, e)
<1> DEFINE u == Head(list[o])
<1> USE DEF Hands
<1>1. stat[t] = "ready"
  BY Running
<1>2. x \in Points \ {"take_sched", "take_check"} /\ (y # NoObject <=> x \in Taking)
  BY DEF Points, SchedPoints, Taking
<1>3. t \in All /\ t # Idle
  BY ThreadsAreAll
<1>4. /\ KernelInv'
      /\ u \in Threads /\ stat[u] = "suspend" /\ want[u] = o
      /\ stat' = [stat EXCEPT ![u] = "ready"]
      /\ \A q : /\ Handed(q)' = (Handed(q) \ {t}) \cup (IF q = o /\ e = "ok" THEN {u} ELSE {})
                /\ Takers(q)' = Takers(q) \ {t}
  BY <1>1, <1>2, <1>3, ResumeKeeps
<1>5. \A q \in Objects : q # o => list'[q] = list[q]
  BY DEF ResumeFirst, KernelInv, Tables, WaitOK
<1> HIDE DEF u
<1>6. \A q : q # want[t] => t \notin Takers(q) /\ t \notin Handed(q)
  BY TakesOne
<1>7. ASSUME NEW q \in Objects, q # o, q # want[t] PROVE Untouched(q)
  <2>1. Handed(q)' = Handed(q) \ {t} /\ Takers(q)' = Takers(q) \ {t}
    BY <1>4, <1>7
  <2> QED
    BY <1>5, <1>6, <1>7, <2>1 DEF Untouched
<1>8. u # t /\ u \notin Handed(o)
  BY <1>1, <1>4 DEF Handed
<1>9. OnProcessor'
  <2>1. stat'[t] = "ready" /\ cur' = t
    BY <1>1, <1>3, <1>4, <1>8 DEF KernelInv, KernelTypes, Stats
  <2> QED
    BY <1>3, <2>1 DEF OnProcessor
<1> QED
  <2>1. Handed(o)' = (Handed(o) \ {t}) \cup (IF e = "ok" THEN {u} ELSE {})
    BY <1>4
  <2>2. \A q \in Objects : q # o => Handed(q)' = Handed(q) \ {t}
    BY <1>4
  <2> QED
    BY <2>1, <2>2, <1>4, <1>5, <1>7, <1>8, <1>9 DEF u, Handing

\* The same where nobody may wait: in rt_sem_release and in the mailboxes.
LEMMA WakeKeeps ==
  ASSUME KernelInv, OnProcessor, NEW t \in Threads, cur = t,
         pc[t] \notin {"take_sched", "sleep_sched"},
         NEW x \in {"run", "last_sched"},
         pc' = [pc EXCEPT ![t] = x], want' = [want EXCEPT ![t] = NoObject],
         NEW o \in Objects, WakeOne(o), UNCHANGED <<cur, prio, error>>
  PROVE  /\ KernelInv' /\ OnProcessor'
         /\ list[o] = <<>> => UNCHANGED list /\ Handed(o)' = Handed(o) \ {t}
         /\ list[o] # <<>> =>
               \E u \in Threads \ (Handed(o) \cup {t}) : Handed(o)' = (Handed(o) \ {t}) \cup {u}
         /\ \A q \in Objects : q # o => list'[q] = list[q] /\ Handed(q)' = Handed(q) \ {t}
         /\ \A q \in Objects : q # o /\ q # want[t] => Untouched(q)
<1> USE ThreadsAreAll
<1>1. stat[t] = "ready"
  BY Running
<1>2. CASE list[o] = <<>>
  <2>1. UNCHANGED <<ready, cur, stat, prio, timer, list>>
    BY <1>2 DEF WakeOne
  <2>2. error' = [error EXCEPT ![t] = error[t]] /\ error[t] \in Errors
    BY DEF KernelInv, KernelTypes
  <2>3. /\ KernelInv' /\ OnProcessor'
        /\ \A q : Handed(q)' = Handed(q) \ {t} /\ Takers(q)' = Takers(q) \ {t}
        /\ \A q : q # want[t] => Untouched(q)
    BY <2>1, <2>2, ReturnKeeps
  <2> QED
    BY <1>2, <2>1, <2>3
<1>3. CASE list[o] # <<>>
  <2> DEFINE u == Head(list[o])
  <2>1. ResumeFirst(o, ready)
    BY <1>3 DEF WakeOne
  <2>2. u \in Threads /\ stat[u] = "suspend" /\ want[u] = o
    BY <1>3, DequeueKeeps DEF KernelInv, KernelTypes, Tables
  <2>3. error[u] = "ok"
    <3> HIDE DEF u
    <3> QED
      BY <2>2, KernelAssumption DEF KernelInv, Places, Place
  <2>4. error' = [error EXCEPT ![u] = "ok"] /\ "ok" \in Errors
    <3> HIDE DEF u
    <3> QED
      BY <2>2, <2>3 DEF KernelInv, KernelTypes, Errors
  <2>5. prio' \in PrioMaps /\ prio'[Idle] = Lowest /\ prio'[u] = prio[u]
    BY DEF KernelInv, KernelTypes, IdleInv
  <2>6. TableOK(ready, stat, prio')
    BY DEF KernelInv, Tables
  <2>0. Hands(t, x, NoObject, o, "ok", ready)
    BY <1>3, <2>1, <2>4, <2>5, <2>6 DEF Hands
  <2>7. Handing(t, o, "ok")
    BY <2>0, HandKeeps
  <2> HIDE DEF u
  <2>8. Handed(o)' = (Handed(o) \ {t}) \cup {u} /\ u \in Threads \ (Handed(o) \cup {t})
    BY <2>7 DEF Handing, u
  <2> QED
    BY <1>3, <2>7, <2>8 DEF Handing
<1> QED
  BY <1>2, <1>3

\* The same in an interrupt
LEMMA WakeIsrKeeps ==
  ASSUME KernelInv, OnProcessor, NEW o \in Objects, WakeOne(o),
         cur' = IF list[o] = <<>> THEN cur ELSE Elected(ready'),
         UNCHANGED <<prio, error, pc, want>>
  PROVE  /\ KernelInv' /\ OnProcessor'
         /\ list[o] = <<>> => UNCHANGED list /\ Handed(o)' = Handed(o)
         /\ list[o] # <<>> =>
               \E u \in Threads \ Handed(o) : Handed(o)' = Handed(o) \cup {u}
         /\ \A q \in Objects : q # o => list'[q] = list[q] /\ Untouched(q)
<1>2. CASE list[o] = <<>>
  <2>1. UNCHANGED <<ready, cur, stat, prio, timer, list, error, pc, want>>
    BY <1>2 DEF WakeOne
  <2>2. KernelInv' /\ OnProcessor'
    BY <2>1 DEF KernelInv, OnProcessor, KernelTypes, Tables, TableOK, WaitOK, IdleInv,
                Places, Place
  <2>3. \A q : Handed(q)' = Handed(q) /\ Takers(q)' = Takers(q)
    BY <2>1 DEF Handed, Takers, Takes
  <2> QED
    BY <1>2, <2>1, <2>2, <2>3 DEF Untouched
<1>3. CASE list[o] # <<>>
  <2> DEFINE u == Head(list[o])
  <2>1. ResumeFirst(o, ready) /\ cur' = Elected(ready')
    BY <1>3 DEF WakeOne
  <2>2. u \in Threads /\ stat[u] = "suspend" /\ want[u] = o
    BY <1>3, DequeueKeeps DEF KernelInv, KernelTypes, Tables
  <2>3. error[u] = "ok"
    <3> HIDE DEF u
    <3> QED
      BY <2>2, KernelAssumption DEF KernelInv, Places, Place
  <2>4. error' = [error EXCEPT ![u] = "ok"] /\ "ok" \in Errors
    <3> HIDE DEF u
    <3> QED
      BY <2>2, <2>3, ThreadsAreAll DEF KernelInv, KernelTypes, Errors
  <2>5. prio' \in PrioMaps /\ prio'[Idle] = Lowest /\ prio'[u] = prio[u]
    BY DEF KernelInv, KernelTypes, IdleInv
  <2>6. TableOK(ready, stat, prio')
    BY DEF KernelInv, Tables
  <2>x. PICK x \in Points : x = pc[Idle]
    BY DEF All, KernelInv, KernelTypes
  <2>y. PICK y \in Objects \cup {NoObject} : y = want[Idle]
    BY DEF All, KernelInv, KernelTypes
  <2>7. /\ Idle \in All /\ Idle \notin Threads /\ stat[Idle] = "ready"
        /\ Idle \in Threads =>
              x \notin {"take_sched", "take_check"} /\ (y # NoObject <=> x \in Taking)
        /\ Idle = Idle => pc' = pc /\ want' = want
        /\ pc' = [pc EXCEPT ![Idle] = x] /\ want' = [want EXCEPT ![Idle] = y]
    BY <2>x, <2>y, KernelAssumption DEF All, KernelInv, KernelTypes, IdleInv
  <2>8. /\ KernelInv'
        /\ \A q : /\ Handed(q)' = (Handed(q) \ {Idle}) \cup
                                  (IF q = o /\ "ok" = "ok" THEN {u} ELSE {})
                  /\ Takers(q)' = Takers(q) \ {Idle}
    BY <1>3, <2>1, <2>4, <2>5, <2>6, <2>7, ResumeKeeps
  <2>9. \A q \in Objects : q # o => list'[q] = list[q]
    BY <2>1 DEF ResumeFirst, KernelInv, Tables, WaitOK
  <2> HIDE DEF u
  <2>10. \A q : Idle \notin Handed(q) /\ Idle \notin Takers(q)
    BY <2>7 DEF Handed, Takers
  <2>11. Handed(o)' = Handed(o) \cup {u} /\ u \in Threads \ Handed(o)
    BY <2>2, <2>8, <2>10 DEF Handed
  <2>12. \A q \in Objects : q # o => Handed(q)' = Handed(q) /\ Takers(q)' = Takers(q)
    BY <2>8, <2>10
  <2>13. OnProcessor'
    BY <2>1, <2>8, ElectedRuns
  <2> QED
    BY <1>3, <2>8, <2>9, <2>11, <2>12, <2>13 DEF Untouched
<1> QED
  BY <1>2, <1>3

-----------------------------------------------------------------------------
(* The invariant, and what the calls on one kind of object leave alone *)

RtInv ==
    /\ KernelInv /\ OnProcessor /\ MutexInv /\ SemInv /\ RingInv /\ BoxWaitInv
    /\ QueueWaitInv

\* The lists of the mailboxes, and of the message queues
BoxLists == Boxes \cup {Senders(b) : b \in Boxes}
QueueLists == Queues \cup {Senders(q) : q \in Queues}

LEMMA ObjectsApart ==
  /\ Mutexes \subseteq Objects /\ Sems \subseteq Objects /\ Mutexes \cap Sems = {}
  /\ \A b \in Boxes : /\ b \in Objects /\ Senders(b) \in Objects
                      /\ b \notin Mutexes \cup Sems
                      /\ Senders(b) \notin Mutexes \cup Sems \cup Boxes
  /\ \A b, c \in Boxes : Senders(b) = Senders(c) => b = c
  /\ NoObject \notin Objects /\ NoThread \notin Threads /\ NoPrio \notin Prios
BY KernelAssumption, IpcAssumption, BoxAssumption, SystemAssumption DEF Senders, All

LEMMA QueuesApart ==
  /\ \A q \in Queues : /\ q \in Objects /\ Senders(q) \in Objects /\ q # Senders(q)
                       /\ \A o \in {q, Senders(q)} : o \notin Mutexes \cup Sems \cup BoxLists
  /\ \A q, c \in Queues : /\ Senders(q) = Senders(c) => q = c
                          /\ c # Senders(q)
  /\ BoxLists \subseteq Objects /\ QueueLists \subseteq Objects
  /\ BoxLists \cap QueueLists = {}
<1>1. \A o, p : Senders(o) = Senders(p) => o = p
  BY DEF Senders
<1>2. \A q \in Queues : /\ q \in Objects /\ Senders(q) \in Objects
                        /\ q \notin Mutexes \cup Sems \cup Boxes
                        /\ Senders(q) \notin Mutexes \cup Sems \cup Boxes \cup Queues
  BY QueueAssumption, SystemAssumption
<1>3. \A b \in Boxes : /\ b \in Objects /\ Senders(b) \in Objects
                       /\ Senders(b) \notin Mutexes \cup Sems \cup Boxes \cup Queues
  BY BoxAssumption, SystemAssumption
<1>4. \A q \in Queues : q \notin BoxLists /\ Senders(q) \notin BoxLists
  BY <1>1, <1>2, <1>3 DEF BoxLists
<1> QED
  BY <1>1, <1>2, <1>3, <1>4 DEF BoxLists, QueueLists

LEMMA EventsApart ==
  /\ Events \subseteq Objects
  /\ \A e \in Events : e \notin Mutexes \cup Sems \cup BoxLists \cup QueueLists
BY EventAssumption, SystemAssumption DEF BoxLists, QueueLists

LEMMA OnlyMutex ==
  ASSUME RtInv, UNCHANGED <<count, credit, box, sent, mq>>,
         \A q \in Objects : q \notin Mutexes => Untouched(q)
  PROVE  SemInv' /\ RingInv' /\ BoxWaitInv' /\ QueueWaitInv'
BY SemFrame, BoxFrame, QueueFrame, ObjectsApart, QueuesApart DEF RtInv

LEMMA OnlySem ==
  ASSUME RtInv, UNCHANGED <<mutex, holds, box, sent, mq>>,
         \A q \in Objects : q \notin Sems => Untouched(q)
  PROVE  MutexInv' /\ RingInv' /\ BoxWaitInv' /\ QueueWaitInv'
BY MutexFrame, BoxFrame, QueueFrame, ObjectsApart, QueuesApart DEF RtInv

LEMMA OnlyBox ==
  ASSUME RtInv, UNCHANGED <<mutex, holds, count, credit, mq>>,
         \A o \in Objects : o \notin BoxLists => Untouched(o)
  PROVE  MutexInv' /\ SemInv' /\ QueueWaitInv'
<1>1. \A o \in Mutexes \cup Sems : Untouched(o)
  BY ObjectsApart DEF BoxLists
<1>2. \A q \in Queues : Untouched(q) /\ Untouched(Senders(q))
  BY QueuesApart
<1> QED
  BY <1>1, <1>2, MutexFrame, SemFrame, QueueFrame DEF RtInv

LEMMA OnlyQueue ==
  ASSUME RtInv, UNCHANGED <<mutex, holds, count, credit, box, sent>>,
         \A o \in Objects : o \notin QueueLists => Untouched(o)
  PROVE  MutexInv' /\ SemInv' /\ RingInv' /\ BoxWaitInv'
<1>1. \A o \in Mutexes \cup Sems \cup BoxLists : Untouched(o)
  BY ObjectsApart, QueuesApart DEF QueueLists
<1>2. \A b \in Boxes : Untouched(b) /\ Untouched(Senders(b))
  BY <1>1 DEF BoxLists
<1> QED
  BY <1>1, <1>2, MutexFrame, SemFrame, BoxFrame DEF RtInv

\* The events are no part of this.
LEMMA NothingElse ==
  ASSUME RtInv, UNCHANGED <<mutex, holds, count, credit, box, sent, mq>>,
         \A q \in Objects \ Events : Untouched(q), KernelInv', OnProcessor'
  PROVE  RtInv'
<1>1. \A o \in Mutexes \cup Sems \cup BoxLists \cup QueueLists : Untouched(o)
  BY ObjectsApart, QueuesApart, EventsApart
<1>2. \A b \in Boxes : Untouched(b) /\ Untouched(Senders(b))
  BY <1>1 DEF BoxLists
<1>3. \A q \in Queues : Untouched(q) /\ Untouched(Senders(q))
  BY <1>1 DEF QueueLists
<1>4. MutexInv' /\ SemInv'
  BY <1>1, MutexFrame, SemFrame DEF RtInv
<1> QED
  BY <1>2, <1>3, <1>4, BoxFrame, QueueFrame DEF RtInv

-----------------------------------------------------------------------------
(* The resets *)

Others == <<mutex, holds, count, credit, box, sent, mq>>

\* The types that a step of thread t needs
LEMMA KernelFacts ==
  ASSUME RtInv, NEW t \in Threads
  PROVE  /\ t \in All /\ error[t] \in Errors /\ error \in [All -> Errors]
         /\ pc \in [All -> Points] /\ want \in [All -> Objects \cup {NoObject}]
         /\ prio \in PrioMaps /\ prio[Idle] = Lowest /\ TableOK(ready, stat, prio)
         /\ NoObject \notin Objects
BY ThreadsAreAll, KernelAssumption DEF RtInv, KernelInv, KernelTypes, Tables, IdleInv

LEMMA CallFacts ==
  ASSUME RtInv, NEW t \in Threads, Calls(t)
  PROVE  /\ cur = t /\ pc[t] = "run" /\ want[t] = NoObject /\ stat[t] = "ready"
         /\ \A o : t \notin Takers(o) /\ t \notin Handed(o)
<1>1. cur = t /\ pc[t] = "run"
  BY DEF Calls
<1>2. want[t] = NoObject
  BY <1>1 DEF RtInv, KernelInv, Places, Place, Taking
<1> QED
  BY <1>1, <1>2, Running, TakesOne DEF RtInv

LEMMA ResetBeginKeeps ==
  ASSUME RtInv, NEW t \in Threads, NEW b \in Objects, ResetBegin(t, b), UNCHANGED Others
  PROVE  RtInv'
<1>1. /\ Calls(t) /\ pc' = [pc EXCEPT ![t] = "reset"] /\ want' = [want EXCEPT ![t] = b]
      /\ error' = [error EXCEPT ![t] = error[t]] /\ error[t] \in Errors
      /\ UNCHANGED <<ready, cur, stat, prio, timer, list>>
  BY KernelFacts DEF ResetBegin, GoTo
<1>2. /\ cur = t /\ pc[t] = "run" /\ b \in Objects \cup {NoObject} /\ b # NoObject
      /\ \A o : t \notin Handed(o)
  BY <1>1, CallFacts, KernelFacts
<1>3. /\ KernelInv' /\ OnProcessor'
      /\ \A q : Handed(q)' = Handed(q) \ {t} /\ Takers(q)' = Takers(q) \ {t}
  BY <1>1, <1>2, ReturnKeeps DEF RtInv
<1>4. \A q \in Objects : Untouched(q)
  BY <1>1, <1>2, <1>3 DEF Untouched
<1> QED
  BY <1>3, <1>4, NothingElse DEF Others

LEMMA ResetNextKeeps ==
  ASSUME RtInv, NEW t \in Threads, NEW b \in Objects, NEW o \in Objects,
         ResetNext(t, b, o), UNCHANGED Others
  PROVE  RtInv'
<1>2. /\ Resets(t, b) /\ list[o] # <<>>
      /\ error' = [error EXCEPT ![Head(list[o])] = "error"] /\ ResumeFirst(o, ready)
      /\ UNCHANGED <<cur, prio, pc, want>>
  BY DEF ResetNext
<1>3. cur = t /\ pc[t] = "reset" /\ want[t] = b /\ b # NoObject
  BY <1>2, KernelFacts DEF Resets
<1>4. pc' = [pc EXCEPT ![t] = "reset"] /\ want' = [want EXCEPT ![t] = b]
  BY <1>2, <1>3, KernelFacts
<1>5. prio' \in PrioMaps /\ prio'[Idle] = Lowest /\ prio'[Head(list[o])] = prio[Head(list[o])]
  BY <1>2, KernelFacts
<1>6. TableOK(ready, stat, prio')
  BY <1>2, KernelFacts
<1>7. Hands(t, "reset", b, o, "error", ready)
  BY <1>2, <1>3, <1>4, <1>5, <1>6 DEF Hands, Errors
<1>8. Handing(t, o, "error")
  BY <1>7, HandKeeps DEF RtInv
<1>9. \A q : t \notin Handed(q)
  BY <1>3, TakesOne
<1>10. \A q \in Objects : Handed(q)' = Handed(q) /\ Takers(q)' \subseteq Takers(q)
  BY <1>8, <1>9 DEF Handing
<1>11. \A q \in Objects : list[q] = <<>> => list'[q] = <<>>
  BY <1>2, <1>8 DEF Handing
<1>12. \A q \in Objects : Untouched(q)
  BY <1>10, <1>11 DEF Untouched
<1> QED
  BY <1>8, <1>12, NothingElse DEF Others, Handing

\* The end of a reset, whatever becomes of the object
LEMMA ResetEndKeeps ==
  ASSUME RtInv, NEW t \in Threads, NEW b \in Objects, ResetEnd(t, b)
  PROVE  /\ KernelInv' /\ OnProcessor' /\ UNCHANGED list /\ list[b] = <<>>
         /\ \A q \in Objects : Untouched(q)
<1>1. /\ cur = t /\ pc[t] = "reset" /\ list[b] = <<>>
      /\ pc' = [pc EXCEPT ![t] = "last_sched"] /\ want' = [want EXCEPT ![t] = NoObject]
      /\ error' = [error EXCEPT ![t] = error[t]] /\ error[t] \in Errors
      /\ UNCHANGED <<ready, cur, stat, prio, timer, list>>
  BY KernelFacts DEF ResetEnd, Resets, GoTo
<1>2. /\ "last_sched" \in {"run", "last_sched", "reset", "copy"}
      /\ NoObject \in Objects \cup {NoObject}
      /\ NoObject # NoObject <=> "last_sched" = "reset"
  OBVIOUS
<1>3. /\ KernelInv' /\ OnProcessor'
      /\ \A q : Handed(q)' = Handed(q) \ {t} /\ Takers(q)' = Takers(q) \ {t}
  BY <1>1, <1>2, ReturnKeeps DEF RtInv
<1>4. \A q : t \notin Handed(q)
  BY <1>1, TakesOne
<1> QED
  BY <1>1, <1>3, <1>4 DEF Untouched

-----------------------------------------------------------------------------
(* The mutexes *)

LEMMA MutexStep ==
  ASSUME MutexInv, NEW m \in Mutexes, MutexTypes', MutexOK(m)',
         \A n \in Mutexes \ {m} : /\ mutex'[n] = mutex[n] /\ Untouched(n)
                                  /\ \A t \in Threads : holds'[t][n] = holds[t][n]
  PROVE  MutexInv'
<1>1. ASSUME NEW n \in Mutexes, n # m PROVE MutexOK(n)'
  <2>1. MutexOK(n) /\ Untouched(n) /\ mutex'[n] = mutex[n]
    BY <1>1 DEF MutexInv
  <2>2. \A t \in Threads : holds'[t][n] = holds[t][n]
    BY <1>1
  <2> QED
    BY <2>1, <2>2 DEF MutexOK, Untouched, Owns
<1> QED
  BY <1>1 DEF MutexInv

\* The record of a mutex and what a thread holds, in a call of that thread
LEMMA MutexFacts ==
  ASSUME RtInv, NEW t \in Threads, NEW m \in Mutexes, Calls(t)
  PROVE  /\ mutex[m].value \in {0, 1} /\ mutex[m].owner \in Threads \cup {NoThread}
         /\ mutex[m].original_priority \in Prios \cup {NoPrio}
         /\ mutex[m].hold \in Nat /\ holds[t][m] \in Nat
         /\ MutexOK(m) /\ t \notin Takers(m) /\ t \notin Handed(m)
         /\ t # NoThread /\ m \in Objects /\ stat[t] = "ready"
         /\ cur = t /\ pc[t] = "run" /\ want[t] = NoObject
<1>1. cur = t /\ pc[t] = "run"
  BY DEF Calls
<1>2. want[t] = NoObject
  BY <1>1 DEF RtInv, KernelInv, Places, Place, Taking
<1>3. mutex[m] \in [value : {0, 1}, owner : Threads \cup {NoThread},
                    original_priority : Prios \cup {NoPrio}, hold : Nat]
  BY DEF RtInv, MutexInv, MutexTypes
<1>4. stat[t] = "ready"
  BY <1>1, Running DEF RtInv
<1> QED
  BY <1>1, <1>2, <1>3, <1>4, TakesOne, ObjectsApart DEF RtInv, MutexInv, MutexTypes

LEMMA TakeOwnKeeps ==
  ASSUME RtInv, NEW t \in Threads, NEW m \in Mutexes, TakeOwn(t, m), UNCHANGED boxVars, UNCHANGED mq
  PROVE  RtInv'
<1>0. Calls(t) /\ Owns(t, m)
  BY DEF TakeOwn
<1> USE <1>0, MutexFacts
<1>1. "ok" \in Errors
  BY DEF Errors
<1>2. KernelInv' /\ OnProcessor' /\ \A o : Untouched(o)
  BY <1>1, CallKeeps DEF TakeOwn, RtInv
<1>3. /\ mutex' = [mutex EXCEPT ![m].hold = @ + 1]
      /\ holds' = [holds EXCEPT ![t][m] = @ + 1]
  BY DEF TakeOwn
<1>4. MutexTypes'
  BY <1>3 DEF RtInv, MutexInv, MutexTypes
<1>5. /\ mutex'[m].value = mutex[m].value /\ mutex'[m].owner = mutex[m].owner
      /\ mutex'[m].original_priority = mutex[m].original_priority
      /\ mutex'[m].hold = mutex[m].hold + 1
      /\ holds'[t][m] = holds[t][m] + 1
      /\ \A v \in Threads \ {t} : holds'[v][m] = holds[v][m]
      /\ \A n \in Mutexes \ {m} : /\ mutex'[n] = mutex[n]
                                  /\ \A v \in Threads : holds'[v][n] = holds[v][n]
  BY <1>3 DEF RtInv, MutexInv, MutexTypes
<1>6. MutexOK(m)'
  BY <1>2, <1>5 DEF MutexOK, Owns, Untouched
<1>7. MutexInv'
  BY <1>2, <1>4, <1>5, <1>6, MutexStep DEF RtInv
<1>8. UNCHANGED <<count, credit, box, sent>>
  BY DEF TakeOwn, boxVars
<1> QED
  BY <1>2, <1>7, <1>8, OnlyMutex DEF RtInv

LEMMA TakeFreeKeeps ==
  ASSUME RtInv, NEW t \in Threads, NEW m \in Mutexes, TakeFree(t, m), UNCHANGED boxVars, UNCHANGED mq
  PROVE  RtInv'
<1>0. Calls(t) /\ ~Owns(t, m) /\ mutex[m].value > 0
  BY DEF TakeFree
<1> USE <1>0, MutexFacts
<1>1. "ok" \in Errors
  BY DEF Errors
<1>2. KernelInv' /\ OnProcessor' /\ \A o : Untouched(o)
  BY <1>1, CallKeeps DEF TakeFree, RtInv
<1>3. /\ mutex' = [mutex EXCEPT ![m].value = @ - 1,
                                ![m].owner = t,
                                ![m].original_priority = prio[t],
                                ![m].hold = @ + 1]
      /\ holds' = [holds EXCEPT ![t][m] = @ + 1]
  BY DEF TakeFree
<1>a. prio[t] \in Prios
  BY ThreadsAreAll DEF RtInv, KernelInv, KernelTypes, PrioMaps
<1>b. mutex[m].value = 1 /\ mutex[m].owner = NoThread /\ mutex[m].hold = 0
  BY DEF MutexOK
<1>4. MutexTypes'
  BY <1>3, <1>a, <1>b DEF RtInv, MutexInv, MutexTypes
<1>5. /\ mutex'[m].value = 0 /\ mutex'[m].owner = t
      /\ mutex'[m].original_priority = prio[t]
      /\ mutex'[m].hold = 1
      /\ holds'[t][m] = holds[t][m] + 1
      /\ \A v \in Threads \ {t} : holds'[v][m] = holds[v][m]
      /\ \A n \in Mutexes \ {m} : /\ mutex'[n] = mutex[n]
                                  /\ \A v \in Threads : holds'[v][n] = holds[v][n]
  BY <1>3, <1>b DEF RtInv, MutexInv, MutexTypes
<1>6. MutexOK(m)'
  <2>1. \A v \in Threads : holds[v][m] = 0 /\ v \notin Handed(m) /\ v # NoThread
    BY <1>b, ObjectsApart DEF MutexOK, Owns
  <2>2. Handed(m)' = Handed(m) /\ Takers(m)' \subseteq Takers(m)
    BY <1>2 DEF Untouched
  <2> QED
    BY <1>5, <1>a, <2>1, <2>2 DEF MutexOK, Owns
<1>7. MutexInv'
  BY <1>2, <1>4, <1>5, <1>6, MutexStep DEF RtInv
<1>8. UNCHANGED <<count, credit, box, sent>>
  BY DEF TakeFree, boxVars
<1> QED
  BY <1>2, <1>7, <1>8, OnlyMutex DEF RtInv

\* A take that does not wait, and a release by another than the owner
LEMMA FailKeeps ==
  ASSUME RtInv, NEW t \in Threads, NEW m \in Mutexes,
         TakeBusy(t, m) \/ ReleaseForeign(t, m), UNCHANGED boxVars, UNCHANGED mq
  PROVE  RtInv'
<1>1. \E e \in Errors : error' = [error EXCEPT ![t] = e]
  BY DEF TakeBusy, ReleaseForeign, Errors
<1>2. /\ Calls(t)
      /\ UNCHANGED <<ready, cur, stat, prio, timer, list, pc, want>>
      /\ UNCHANGED <<mutex, holds, count, credit, box, sent>>
  BY DEF TakeBusy, ReleaseForeign, boxVars, ipcVars
<1>3. KernelInv' /\ OnProcessor' /\ \A o : Untouched(o)
  BY <1>1, <1>2, CallKeeps DEF RtInv
<1> QED
  BY <1>2, <1>3, NothingElse

LEMMA TakeWaitKeeps ==
  ASSUME RtInv, NEW t \in Threads, NEW m \in Mutexes, NEW time \in BOOLEAN,
         TakeWait(t, m, time), UNCHANGED boxVars, UNCHANGED mq
  PROVE  RtInv'
<1>0. Calls(t) /\ ~Owns(t, m) /\ mutex[m].value = 0
  BY DEF TakeWait, Unavailable
<1> USE <1>0, MutexFacts
<1> DEFINE o == mutex[m].owner
<1>1. o \in Threads /\ o \in All /\ o # Idle
  BY ThreadsAreAll DEF MutexOK
<1>2. \E table : \E pr \in PrioMaps :
        /\ pr[Idle] = Lowest /\ TableOK(table, stat, pr)
        /\ SuspendOn(t, m, time, table, pr)
  <2>1. CASE prio[t] < prio[o] /\ SuspendOn(t, m, time, Reprioritised(ready, o, prio[t]),
                                            [prio EXCEPT ![o] = prio[t]])
    <3>1. prio[t] \in Prios
      BY ThreadsAreAll DEF RtInv, KernelInv, KernelTypes, PrioMaps
    <3> HIDE DEF o
    <3>2. [prio EXCEPT ![o] = prio[t]] \in PrioMaps
      BY <1>1, <3>1 DEF RtInv, KernelInv, KernelTypes, PrioMaps
    <3>3. [prio EXCEPT ![o] = prio[t]][Idle] = Lowest
      BY <1>1 DEF RtInv, KernelInv, KernelTypes, PrioMaps, IdleInv, All
    <3>4. TableOK(Reprioritised(ready, o, prio[t]), stat, [prio EXCEPT ![o] = prio[t]])
      BY <1>1, <3>1, ReprioritiseKeeps DEF RtInv, KernelInv, KernelTypes, Tables
    <3> QED
      BY <2>1, <3>2, <3>3, <3>4
  <2>2. CASE SuspendOn(t, m, time, ready, prio)
    BY <2>2 DEF RtInv, KernelInv, KernelTypes, Tables, IdleInv
  <2> QED
    BY <2>1, <2>2 DEF TakeWait
<1>3. /\ KernelInv' /\ OnProcessor'
      /\ Handed(m)' = Handed(m) \ {t} /\ Takers(m)' = Takers(m) \cup {t}
      /\ \A q \in Objects : q # m => Untouched(q)
  <2>1. UNCHANGED cur
    BY DEF TakeWait
  <2> QED
    BY <1>2, <2>1, WaitKeeps DEF RtInv
<1>4. UNCHANGED <<mutex, holds, count, credit, box, sent>>
  BY DEF TakeWait, ipcVars, boxVars
<1>5. MutexOK(m)'
  BY <1>1, <1>3, <1>4, ObjectsApart DEF MutexOK, Owns
<1>6. MutexInv'
  BY <1>3, <1>4, <1>5, MutexStep, ObjectsApart DEF RtInv, MutexInv, MutexTypes
<1> QED
  BY <1>3, <1>4, <1>6, OnlyMutex DEF RtInv

LEMMA ReleaseNestedKeeps ==
  ASSUME RtInv, NEW t \in Threads, NEW m \in Mutexes, ReleaseNested(t, m), UNCHANGED boxVars, UNCHANGED mq
  PROVE  RtInv'
<1>0. Calls(t) /\ Owns(t, m) /\ mutex[m].hold > 1
  BY DEF ReleaseNested
<1> USE <1>0, MutexFacts
<1>1. error[t] \in Errors /\ error' = [error EXCEPT ![t] = error[t]]
  BY ThreadsAreAll DEF ReleaseNested, kernelVars, RtInv, KernelInv, KernelTypes
<1>2. KernelInv' /\ OnProcessor' /\ \A o : Untouched(o)
  BY <1>1, CallKeeps DEF ReleaseNested, kernelVars, RtInv
<1>3. /\ mutex' = [mutex EXCEPT ![m].hold = @ - 1]
      /\ holds' = [holds EXCEPT ![t][m] = @ - 1]
  BY DEF ReleaseNested
<1>a. holds[t][m] = mutex[m].hold
  BY DEF MutexOK
<1>b. holds[t][m] - 1 \in Nat /\ mutex[m].hold - 1 \in Nat /\ mutex[m].hold - 1 # 0
  BY <1>a
<1>4. MutexTypes'
  BY <1>3, <1>b DEF RtInv, MutexInv, MutexTypes
<1>5. /\ mutex'[m].value = mutex[m].value /\ mutex'[m].owner = mutex[m].owner
      /\ mutex'[m].original_priority = mutex[m].original_priority
      /\ mutex'[m].hold = mutex[m].hold - 1
      /\ holds'[t][m] = holds[t][m] - 1
      /\ \A v \in Threads \ {t} : holds'[v][m] = holds[v][m]
      /\ \A n \in Mutexes \ {m} : /\ mutex'[n] = mutex[n]
                                  /\ \A v \in Threads : holds'[v][n] = holds[v][n]
  BY <1>3 DEF RtInv, MutexInv, MutexTypes
<1>6. MutexOK(m)'
  BY <1>2, <1>5, <1>b DEF MutexOK, Owns, Untouched
<1>7. MutexInv'
  BY <1>2, <1>4, <1>5, <1>6, MutexStep DEF RtInv
<1>8. UNCHANGED <<count, credit, box, sent>>
  BY DEF ReleaseNested, boxVars
<1> QED
  BY <1>2, <1>7, <1>8, OnlyMutex DEF RtInv

\* The owner gets its own priority back.
LEMMA RestoredKeeps ==
  ASSUME RtInv, NEW t \in Threads, NEW m \in Mutexes, LetsGo(t, m)
  PROVE  LET p == mutex[m].original_priority
             pr == [prio EXCEPT ![t] = p]
         IN  pr \in PrioMaps /\ pr[Idle] = Lowest /\ TableOK(Restored(t, m), stat, pr)
<1> DEFINE p == mutex[m].original_priority
           pr == [prio EXCEPT ![t] = p]
<1>1. p \in Prios /\ t \in All /\ t # Idle /\ t # NoThread /\ mutex[m].owner = t
  BY ThreadsAreAll, ObjectsApart DEF RtInv, MutexInv, MutexOK, LetsGo, Owns
<1> HIDE DEF p
<1>2. prio \in PrioMaps /\ stat \in Stats /\ TableOK(ready, stat, prio) /\ prio[Idle] = Lowest
  BY DEF RtInv, KernelInv, KernelTypes, Tables, IdleInv
<1>3. pr \in PrioMaps
  BY <1>1, <1>2 DEF PrioMaps
<1>4. pr[Idle] = Lowest
  BY <1>1, <1>2 DEF PrioMaps, All
<1>5. TableOK(Reprioritised(ready, t, p), stat, pr)
  BY <1>1, <1>2, ReprioritiseKeeps
<1>6. p = prio[t] => pr = prio
  BY <1>1, <1>2 DEF PrioMaps
<1>7. TableOK(Restored(t, m), stat, pr)
  <2>1. CASE p # prio[t]
    BY <2>1, <1>5 DEF Restored, p
  <2>2. CASE p = prio[t]
    <3>1. Restored(t, m) = ready
      BY <2>2 DEF Restored, p
    <3> QED
      BY <2>2, <3>1, <1>2, <1>6
  <2> QED
    BY <2>1, <2>2
<1> QED
  BY <1>3, <1>4, <1>7 DEF p

LEMMA ReleaseFreeKeeps ==
  ASSUME RtInv, NEW t \in Threads, NEW m \in Mutexes, ReleaseFree(t, m), UNCHANGED boxVars, UNCHANGED mq
  PROVE  RtInv'
<1>0. LetsGo(t, m) /\ Calls(t) /\ Owns(t, m) /\ mutex[m].hold = 1 /\ list[m] = <<>>
  BY DEF ReleaseFree, LetsGo
<1> USE <1>0, MutexFacts
<1>1. /\ UNCHANGED <<cur, stat, error, timer, list, pc, want, count, credit, box, sent>>
      /\ ready' = Restored(t, m)
      /\ prio' = [prio EXCEPT ![t] = mutex[m].original_priority]
  BY DEF ReleaseFree, boxVars
<1>2. prio' \in PrioMaps /\ prio'[Idle] = Lowest /\ TableOK(ready', stat, prio')
  BY <1>1, RestoredKeeps
<1>3. KernelInv' /\ OnProcessor'
  <2>1. Tables'
    <3>1. TableOK(ready', stat', prio') /\ WaitOK(list', stat', want')
      BY <1>1, <1>2 DEF RtInv, KernelInv, Tables
    <3> QED
      BY <3>1 DEF Tables, TableOK, WaitOK
  <2>2. KernelTypes' /\ IdleInv'
    BY <1>1, <1>2 DEF RtInv, KernelInv, KernelTypes, IdleInv
  <2>3. Places' /\ OnProcessor'
    BY <1>1 DEF RtInv, KernelInv, Places, Place, OnProcessor
  <2> QED
    BY <2>1, <2>2, <2>3 DEF KernelInv
<1>4. \A o : Untouched(o)
  BY <1>1 DEF Untouched, Handed, Takers, Takes
<1>5. /\ mutex' = [mutex EXCEPT ![m] = [value |-> @.value + 1, owner |-> NoThread,
                                        original_priority |-> NoPrio, hold |-> @.hold - 1]]
      /\ holds' = [holds EXCEPT ![t][m] = @ - 1]
  BY DEF ReleaseFree
<1>6. mutex[m].value = 0 /\ holds[t][m] = 1
  BY DEF MutexOK, Owns
<1>7. MutexTypes'
  BY <1>5, <1>6 DEF RtInv, MutexInv, MutexTypes
<1>8. /\ mutex'[m].value = 1 /\ mutex'[m].owner = NoThread /\ mutex'[m].hold = 0
      /\ holds'[t][m] = 0
      /\ \A v \in Threads \ {t} : holds'[v][m] = holds[v][m]
      /\ \A n \in Mutexes \ {m} : /\ mutex'[n] = mutex[n]
                                  /\ \A v \in Threads : holds'[v][n] = holds[v][n]
  BY <1>5, <1>6 DEF RtInv, MutexInv, MutexTypes
<1>9. MutexOK(m)'
  <2>1. \A v \in Threads \ {t} : holds[v][m] = 0 /\ v \notin Handed(m)
    BY DEF MutexOK, Owns
  <2>2. Handed(m)' = Handed(m) /\ \A v \in Threads : v # NoThread
    BY <1>4, ObjectsApart DEF Untouched
  <2> QED
    BY <1>1, <1>8, <2>1, <2>2 DEF MutexOK, Owns
<1>10. MutexInv'
  BY <1>4, <1>7, <1>8, <1>9, MutexStep DEF RtInv
<1> QED
  BY <1>1, <1>3, <1>4, <1>10, OnlyMutex DEF RtInv

LEMMA ReleaseHandOverKeeps ==
  ASSUME RtInv, NEW t \in Threads, NEW m \in Mutexes, ReleaseHandOver(t, m), UNCHANGED boxVars, UNCHANGED mq
  PROVE  RtInv'
<1>0. LetsGo(t, m) /\ Calls(t) /\ Owns(t, m) /\ mutex[m].hold = 1 /\ list[m] # <<>>
  BY DEF ReleaseHandOver, LetsGo
<1>a. /\ mutex[m].value \in {0, 1} /\ mutex[m].hold \in Nat /\ holds[t][m] \in Nat
      /\ MutexOK(m) /\ t \notin Takers(m) /\ t \notin Handed(m)
      /\ t # NoThread /\ m \in Objects /\ stat[t] = "ready"
      /\ cur = t /\ pc[t] = "run" /\ want[t] = NoObject
  BY <1>0, MutexFacts
<1> DEFINE u == Head(list[m])
<1>1. /\ UNCHANGED <<cur, error, want, count, credit, box, sent>>
      /\ prio' = [prio EXCEPT ![t] = mutex[m].original_priority]
      /\ ResumeFirst(m, Restored(t, m))
      /\ pc' = [pc EXCEPT ![t] = "last_sched"]
  BY DEF ReleaseHandOver, GoTo, boxVars
<1>2. prio' \in PrioMaps /\ prio'[Idle] = Lowest /\ TableOK(Restored(t, m), stat, prio')
  BY <1>0, <1>1, RestoredKeeps
<1>3. u \in Threads /\ stat[u] = "suspend" /\ want[u] = m
  BY <1>0, <1>a, DequeueKeeps DEF RtInv, KernelInv, KernelTypes, Tables
<1> HIDE DEF u
<1>4. u # t /\ u \in All /\ t \in All
  BY <1>3, <1>a, ThreadsAreAll
<1>5. error' = [error EXCEPT ![u] = "ok"] /\ "ok" \in Errors
  <2>1. error[u] = "ok"
    BY <1>3, <1>a, ObjectsApart DEF RtInv, KernelInv, Places, Place
  <2> QED
    BY <1>1, <1>4, <2>1 DEF RtInv, KernelInv, KernelTypes, Errors
<1>6. prio'[u] = prio[u] /\ prio[u] \in Prios
  BY <1>1, <1>4 DEF RtInv, KernelInv, KernelTypes, PrioMaps
<1>7. want' = [want EXCEPT ![t] = NoObject]
  BY <1>1, <1>4, <1>a DEF RtInv, KernelInv, KernelTypes
<1>8. /\ "last_sched" \in {"run", "last_sched", "reset", "copy"}
      /\ NoObject \in Objects \cup {NoObject}
      /\ (NoObject # NoObject <=> "last_sched" = "reset")
  OBVIOUS
<1>9. /\ KernelInv' /\ OnProcessor'
      /\ Handed(m)' = (Handed(m) \ {t}) \cup {u} /\ Takers(m)' = Takers(m) \ {t}
      /\ \A q \in Objects : q # m /\ q # want[t] => Untouched(q)
  <2>1. pc[t] \notin {"take_sched", "sleep_sched"} /\ list[m] # <<>>
    BY <1>0, <1>a
  <2>2. KernelInv /\ OnProcessor /\ m \in Objects
    BY <1>a DEF RtInv
  <2>5. PICK table : TableOK(table, stat, prio') /\ ResumeFirst(m, table)
    BY <1>1, <1>2
  <2>3. Hands(t, "last_sched", NoObject, m, "ok", table)
    BY <1>1, <1>2, <1>5, <1>6, <1>7, <1>a, <2>1, <2>5 DEF Hands, u
  <2>4. Handing(t, m, "ok")
    BY <2>2, <2>3, HandKeeps
  <2> QED
    BY <2>2, <2>4 DEF Handing, u
<1>10. Handed(m)' = Handed(m) \cup {u} /\ Takers(m)' = Takers(m)
  BY <1>9, <1>a
<1>11. \A q \in Objects : q # m => Untouched(q)
  BY <1>9, <1>a, ObjectsApart
<1>12. /\ mutex' = [mutex EXCEPT ![m].owner = u, ![m].original_priority = prio[u]]
       /\ holds' = [holds EXCEPT ![t][m] = @ - 1]
  BY DEF ReleaseHandOver, u
<1>13. holds[t][m] = 1 /\ mutex[m].value = 0
  BY <1>0, <1>a DEF MutexOK, Owns
<1>14. MutexTypes'
  <2> DEFINE R == [value : {0, 1}, owner : Threads \cup {NoThread},
                   original_priority : Prios \cup {NoPrio}, hold : Nat]
  <2>3. mutex \in [Mutexes -> R] /\ mutex[m] \in R
    BY DEF RtInv, MutexInv, MutexTypes
  <2>4. PICK r : r = [mutex[m] EXCEPT !.owner = u, !.original_priority = prio[u]]
    OBVIOUS
  <2>5. r \in R
    BY <1>3, <1>6, <2>3, <2>4
  <2>6. mutex' = [mutex EXCEPT ![m] = r]
    BY <1>12, <2>3, <2>4
  <2>1. mutex' \in [Mutexes -> R]
    <3> HIDE DEF R
    <3> QED
      BY <2>3, <2>5, <2>6
  <2>2. holds' \in [Threads -> [Mutexes -> Nat]]
    BY <1>12, <1>13 DEF RtInv, MutexInv, MutexTypes
  <2> QED
    BY <2>1, <2>2 DEF MutexTypes
<1>15. /\ mutex'[m].value = 0 /\ mutex'[m].owner = u /\ mutex'[m].hold = 1
       /\ mutex'[m].original_priority = prio[u]
       /\ holds'[t][m] = 0
       /\ \A v \in Threads \ {t} : holds'[v][m] = holds[v][m]
       /\ \A n \in Mutexes \ {m} : /\ mutex'[n] = mutex[n]
                                   /\ \A v \in Threads : holds'[v][n] = holds[v][n]
  BY <1>0, <1>12, <1>13 DEF RtInv, MutexInv, MutexTypes
<1>16. MutexOK(m)'
  <2>1. \A v \in Threads \ {t} : holds[v][m] = 0 /\ v \notin Handed(m)
    BY <1>0, <1>a DEF MutexOK, Owns
  <2>2. u # NoThread
    BY <1>3, ObjectsApart
  <2> QED
    BY <1>3, <1>4, <1>6, <1>10, <1>15, <1>a, <2>1, <2>2 DEF MutexOK, Owns
<1>17. MutexInv'
  BY <1>11, <1>14, <1>15, <1>16, MutexStep, ObjectsApart DEF RtInv
<1> QED
  BY <1>1, <1>9, <1>11, <1>17, OnlyMutex DEF RtInv

-----------------------------------------------------------------------------
(* The semaphores *)

LEMMA SemStep ==
  ASSUME SemInv, NEW s \in Sems, count' \in [Sems -> Nat], credit' \in [Sems -> Nat],
         SemOK(s)',
         \A n \in Sems \ {s} : count'[n] = count[n] /\ credit'[n] = credit[n] /\ Untouched(n)
  PROVE  SemInv'
<1>1. ASSUME NEW n \in Sems, n # s PROVE SemOK(n)'
  <2>1. SemOK(n) /\ Untouched(n) /\ count'[n] = count[n] /\ credit'[n] = credit[n]
    BY <1>1 DEF SemInv
  <2> QED
    BY <2>1 DEF SemOK, Untouched
<1> QED
  BY <1>1 DEF SemInv

LEMMA SemTakeFreeKeeps ==
  ASSUME RtInv, NEW t \in Threads, NEW s \in Sems, SemTakeFree(t, s), UNCHANGED boxVars, UNCHANGED mq
  PROVE  RtInv'
<1>0. Calls(t) /\ count[s] > 0
  BY DEF SemTakeFree
<1>1. error[t] \in Errors /\ error' = [error EXCEPT ![t] = error[t]]
  BY ThreadsAreAll DEF SemTakeFree, kernelVars, RtInv, KernelInv, KernelTypes
<1>2. KernelInv' /\ OnProcessor' /\ \A o : Untouched(o)
  BY <1>0, <1>1, CallKeeps DEF SemTakeFree, kernelVars, RtInv
<1>3. /\ count' = [count EXCEPT ![s] = @ - 1] /\ credit' = [credit EXCEPT ![s] = @ - 1]
      /\ UNCHANGED <<mutex, holds, box, sent, list>>
  BY DEF SemTakeFree, boxVars, kernelVars
<1>4. /\ count[s] \in Nat /\ credit[s] \in Nat /\ SemOK(s)
      /\ Cardinality(Handed(s)) \in Nat
  BY HandedIsFinite DEF RtInv, SemInv
<1>5. count[s] - 1 \in Nat /\ credit[s] - 1 \in Nat
  BY <1>0, <1>4 DEF SemOK
<1>6. SemOK(s)'
  <2>1. count'[s] = count[s] - 1 /\ credit'[s] = credit[s] - 1
    BY <1>3 DEF RtInv, SemInv
  <2> QED
    BY <1>0, <1>2, <1>3, <1>4, <2>1 DEF SemOK, Untouched
<1>7. SemInv'
  BY <1>2, <1>3, <1>5, <1>6, SemStep DEF RtInv, SemInv
<1> QED
  BY <1>2, <1>3, <1>7, OnlySem DEF RtInv

LEMMA SemTakeWaitKeeps ==
  ASSUME RtInv, NEW t \in Threads, NEW s \in Sems, NEW time \in BOOLEAN,
         SemTakeWait(t, s, time), UNCHANGED boxVars, UNCHANGED mq
  PROVE  RtInv'
<1>0. Calls(t) /\ count[s] = 0
  BY DEF SemTakeWait
<1>1. /\ SuspendOn(t, s, time, ready, prio)
      /\ UNCHANGED <<cur, mutex, holds, count, credit, box, sent>>
  BY DEF SemTakeWait, ipcVars, boxVars
<1>2. prio \in PrioMaps /\ prio[Idle] = Lowest /\ TableOK(ready, stat, prio) /\ s \in Objects
  BY ObjectsApart DEF RtInv, KernelInv, KernelTypes, Tables, IdleInv
<1>3. /\ KernelInv' /\ OnProcessor' /\ Handed(s)' = Handed(s) \ {t}
      /\ \A q \in Objects : q # s => Untouched(q)
  BY <1>0, <1>1, <1>2, CallFacts, WaitKeeps DEF RtInv
<1>4. SemOK(s)'
  <2>1. Handed(s)' = Handed(s)
    BY <1>0, <1>3, CallFacts
  <2> QED
    BY <1>0, <1>1, <2>1 DEF RtInv, SemInv, SemOK
<1>5. SemInv'
  BY <1>1, <1>3, <1>4, SemStep, ObjectsApart DEF RtInv, SemInv
<1> QED
  BY <1>1, <1>3, <1>5, OnlySem DEF RtInv

\* What a release does to its semaphore, H being the threads it was handed to
LEMMA PutCounts ==
  ASSUME RtInv, NEW s \in Sems, SemPut(s),
         list[s] = <<>> => UNCHANGED list /\ Handed(s)' = Handed(s),
         list[s] # <<>> => \E u \in Threads \ Handed(s) : Handed(s)' = Handed(s) \cup {u},
         \A q \in Objects : q # s => Untouched(q)
  PROVE  SemInv'
<1>1. /\ count[s] \in Nat /\ credit[s] \in Nat /\ SemOK(s)
      /\ Cardinality(Handed(s)) \in Nat /\ IsFiniteSet(Handed(s))
  BY HandedIsFinite DEF RtInv, SemInv
<1>2. credit' = [credit EXCEPT ![s] = @ + 1]
  BY DEF SemPut
<1>3. CASE list[s] = <<>>
  <2>1. count' = [count EXCEPT ![s] = @ + 1]
    BY <1>3 DEF SemPut
  <2>2. count'[s] = count[s] + 1 /\ credit'[s] = credit[s] + 1
    BY <2>1, <1>2 DEF RtInv, SemInv
  <2>3. SemOK(s)'
    BY <1>1, <1>3, <2>2 DEF SemOK
  <2> QED
    BY <1>2, <2>1, <2>3, SemStep, ObjectsApart DEF RtInv, SemInv
<1>4. CASE list[s] # <<>>
  <2>1. UNCHANGED count
    BY <1>4 DEF SemPut
  <2>2. Cardinality(Handed(s)') = Cardinality(Handed(s)) + 1
    BY <1>1, <1>4, FS_AddElement
  <2>3. credit'[s] = credit[s] + 1 /\ count'[s] = count[s] /\ count[s] = 0
    BY <1>1, <1>2, <1>4, <2>1 DEF RtInv, SemInv, SemOK
  <2>4. SemOK(s)'
    BY <1>1, <2>2, <2>3 DEF SemOK
  <2> QED
    BY <1>2, <2>1, <2>4, SemStep, ObjectsApart DEF RtInv, SemInv
<1> QED
  BY <1>3, <1>4

LEMMA SemReleaseKeeps ==
  ASSUME RtInv, NEW t \in Threads, NEW s \in Sems, SemRelease(t, s), UNCHANGED boxVars, UNCHANGED mq
  PROVE  RtInv'
<1>0. Calls(t) /\ SemPut(s) /\ UNCHANGED cur
  BY DEF SemRelease
<1>1. WakeOne(s) /\ UNCHANGED <<prio, error, want, mutex, holds, box, sent>>
  BY <1>0 DEF SemPut, WakeOne, boxVars
<1> DEFINE x == IF list[s] = <<>> THEN "run" ELSE "last_sched"
<1>2. x \in {"run", "last_sched"} /\ pc' = [pc EXCEPT ![t] = x] /\ s \in Objects
  BY ObjectsApart DEF SemRelease, GoTo
<1>3. want' = [want EXCEPT ![t] = NoObject]
  BY <1>0, <1>1, CallFacts, ThreadsAreAll DEF RtInv, KernelInv, KernelTypes
<1> HIDE DEF x
<1>4. /\ KernelInv' /\ OnProcessor'
      /\ list[s] = <<>> => UNCHANGED list /\ Handed(s)' = Handed(s) \ {t}
      /\ list[s] # <<>> =>
            \E u \in Threads \ (Handed(s) \cup {t}) : Handed(s)' = (Handed(s) \ {t}) \cup {u}
      /\ \A q \in Objects : q # s /\ q # want[t] => Untouched(q)
  BY <1>0, <1>1, <1>2, <1>3, CallFacts, WakeKeeps DEF RtInv
<1>5. /\ Handed(s) \ {t} = Handed(s)
      /\ \A q \in Objects : q # s => Untouched(q)
  BY <1>0, <1>4, CallFacts, ObjectsApart
<1>6. SemInv'
  BY <1>0, <1>4, <1>5, PutCounts
<1> QED
  BY <1>1, <1>4, <1>5, <1>6, OnlySem DEF RtInv

LEMMA SemReleaseIsrKeeps ==
  ASSUME RtInv, NEW s \in Sems, SemReleaseIsr(s), UNCHANGED boxVars, UNCHANGED mq
  PROVE  RtInv'
<1>0. SemPut(s) /\ s \in Objects
  BY ObjectsApart DEF SemReleaseIsr
<1>1. /\ WakeOne(s) /\ UNCHANGED <<prio, error, pc, want, mutex, holds, box, sent>>
      /\ cur' = IF list[s] = <<>> THEN cur ELSE Elected(ready')
  BY <1>0 DEF SemPut, WakeOne, SemReleaseIsr, boxVars
<1>2. /\ KernelInv' /\ OnProcessor'
      /\ list[s] = <<>> => UNCHANGED list /\ Handed(s)' = Handed(s)
      /\ list[s] # <<>> => \E u \in Threads \ Handed(s) : Handed(s)' = Handed(s) \cup {u}
      /\ \A q \in Objects : q # s => Untouched(q)
  BY <1>0, <1>1, WakeIsrKeeps DEF RtInv
<1>3. SemInv'
  BY <1>0, <1>2, PutCounts
<1> QED
  BY <1>1, <1>2, <1>3, OnlySem DEF RtInv

LEMMA SemResetEndKeeps ==
  ASSUME RtInv, NEW t \in Threads, NEW s \in Sems, NEW value \in 0 .. MaxCount,
         SemResetEnd(t, s, value), UNCHANGED boxVars, UNCHANGED mq
  PROVE  RtInv'
<1>1. ResetEnd(t, s) /\ s \in Objects /\ value \in Nat
  BY ObjectsApart, IpcAssumption DEF SemResetEnd
<1>2. /\ KernelInv' /\ OnProcessor' /\ UNCHANGED list /\ list[s] = <<>>
      /\ \A q \in Objects : Untouched(q)
  BY <1>1, ResetEndKeeps
<1>3. /\ count' = [count EXCEPT ![s] = value]
      /\ credit' = [credit EXCEPT ![s] = @ - count[s] + value]
      /\ UNCHANGED <<mutex, holds, box, sent>>
  BY DEF SemResetEnd, boxVars
<1>4. /\ count \in [Sems -> Nat] /\ credit \in [Sems -> Nat] /\ SemOK(s)
      /\ count[s] \in Nat /\ credit[s] \in Nat /\ Cardinality(Handed(s)) \in Nat
  BY HandedIsFinite DEF RtInv, SemInv
<1>5. credit[s] - count[s] + value = value + Cardinality(Handed(s))
  BY <1>1, <1>4 DEF SemOK
<1>6. count'[s] = value /\ credit'[s] = value + Cardinality(Handed(s))
  BY <1>3, <1>4, <1>5
<1>7. count' \in [Sems -> Nat] /\ credit' \in [Sems -> Nat]
  BY <1>1, <1>3, <1>4, <1>5
<1>8. SemOK(s)'
  BY <1>1, <1>2, <1>6 DEF SemOK, Untouched
<1>9. SemInv'
  BY <1>2, <1>3, <1>4, <1>7, <1>8, SemStep, ObjectsApart DEF RtInv
<1> QED
  BY <1>2, <1>3, <1>9, OnlySem DEF RtInv

\* Back from rt_schedule, a thread has what it took or has nothing of it.
LEMMA TakeReturnKeeps ==
  ASSUME RtInv, NEW t \in Threads, TakeReturn(t), UNCHANGED boxVars, UNCHANGED mq
  PROVE  RtInv'
<1>w. PICK w : w = want[t]
  OBVIOUS
<1>0. cur = t /\ pc[t] = "take_check" /\ want[t] = w /\ w \in Mutexes \cup Sems
  BY <1>w DEF TakeReturn
<1>1. stat[t] = "ready" /\ w \in Objects
  BY <1>0, Running, ObjectsApart DEF RtInv
<1>2. /\ pc' = [pc EXCEPT ![t] = "run"] /\ want' = [want EXCEPT ![t] = NoObject]
      /\ error' = [error EXCEPT ![t] = error[t]] /\ error[t] \in Errors
      /\ UNCHANGED <<ready, cur, stat, prio, timer, list, mutex, count, box, sent>>
  BY ThreadsAreAll DEF TakeReturn, GoTo, boxVars, RtInv, KernelInv, KernelTypes
<1>3. /\ "run" \in {"run", "last_sched", "reset", "copy"} /\ NoObject \in Objects \cup {NoObject}
      /\ NoObject # NoObject <=> "run" = "reset"
  OBVIOUS
<1>4. /\ KernelInv' /\ OnProcessor'
      /\ \A q : Handed(q)' = Handed(q) \ {t} /\ Takers(q)' = Takers(q) \ {t}
      /\ \A q : q # w => Untouched(q)
  BY <1>0, <1>2, <1>3, ReturnKeeps DEF RtInv
<1>5. t \in Takers(w) /\ (t \in Handed(w) <=> error[t] = "ok")
  BY <1>0, <1>1 DEF Takers, Takes, Handed
<1>6. CASE error[t] # "ok"
  <2>1. UNCHANGED <<holds, credit>>
    BY <1>6 DEF TakeReturn
  <2>2. Untouched(w)
    BY <1>2, <1>4, <1>5, <1>6 DEF Untouched
  <2> QED
    BY <1>2, <1>4, <2>1, <2>2, NothingElse
<1>7. CASE error[t] = "ok" /\ w \in Mutexes
  <2>1. holds' = [holds EXCEPT ![t][w] = @ + 1] /\ UNCHANGED credit
    BY <1>0, <1>7, ObjectsApart DEF TakeReturn
  <2>2. MutexOK(w) /\ MutexTypes
    BY <1>7 DEF RtInv, MutexInv
  <2>3. Owns(t, w) /\ t \in Handed(w)
    BY <1>5, <1>7, <2>2 DEF MutexOK
  <2>4. /\ holds'[t][w] = holds[t][w] + 1
        /\ \A v \in Threads \ {t} : holds'[v][w] = holds[v][w]
        /\ \A n \in Mutexes \ {w} : \A v \in Threads : holds'[v][n] = holds[v][n]
        /\ holds' \in [Threads -> [Mutexes -> Nat]]
    BY <1>7, <2>1, <2>2 DEF MutexTypes
  <2>5. MutexOK(w)'
    <3>1. holds[t][w] \in Nat /\ holds'[t][w] \in Nat
      BY <1>7, <2>2, <2>4 DEF MutexTypes
    <3>2. \A v \in Threads \ {t} : ~Owns(v, w)
      BY <2>3 DEF Owns
    <3>3. /\ Handed(w)' = Handed(w) \ {t} /\ Takers(w)' = Takers(w) \ {t}
          /\ mutex'[w] = mutex[w] /\ list'[w] = list[w]
      BY <1>2, <1>4
    <3>4. mutex[w].hold = holds[t][w] + 1
      BY <2>2, <2>3 DEF MutexOK
    <3>5. ASSUME NEW v \in Threads
          PROVE  IF Owns(v, w)
                 THEN /\ mutex'[w].hold = holds'[v][w] + (IF v \in Handed(w)' THEN 1 ELSE 0)
                      /\ v \in Takers(w)' => v \in Handed(w)'
                 ELSE holds'[v][w] = 0 /\ v \notin Handed(w)'
      <4>1. CASE v = t
        BY <2>3, <2>4, <3>1, <3>3, <3>4, <4>1
      <4>2. CASE v # t
        BY <2>2, <2>4, <3>2, <3>3, <4>2 DEF MutexOK
      <4> QED
        BY <4>1, <4>2
    <3> QED
      BY <2>2, <3>3, <3>5 DEF MutexOK, Owns
  <2>6. MutexInv'
    BY <1>2, <1>4, <1>7, <2>2, <2>4, <2>5, MutexStep DEF RtInv, MutexTypes
  <2> QED
    BY <1>2, <1>4, <1>7, <2>1, <2>6, OnlyMutex DEF RtInv
<1>8. CASE error[t] = "ok" /\ w \in Sems
  <2>1. credit' = [credit EXCEPT ![w] = @ - 1] /\ UNCHANGED holds
    BY <1>0, <1>8, ObjectsApart DEF TakeReturn
  <2>2. /\ count[w] \in Nat /\ credit[w] \in Nat /\ SemOK(w)
        /\ Cardinality(Handed(w)) \in Nat /\ IsFiniteSet(Handed(w))
    BY <1>8, HandedIsFinite DEF RtInv, SemInv
  <2>3. Cardinality(Handed(w)') = Cardinality(Handed(w)) - 1
    BY <1>4, <1>5, <1>8, <2>2, FS_RemoveElement
  <2>4. Cardinality(Handed(w)') \in Nat
    BY <1>4, <2>2, FS_RemoveElement, FS_CardinalityType
  <2>5. credit'[w] = credit[w] - 1 /\ credit[w] - 1 \in Nat
    BY <1>8, <2>1, <2>2, <2>3, <2>4 DEF RtInv, SemInv, SemOK
  <2>6. SemOK(w)'
    BY <1>2, <2>2, <2>3, <2>5 DEF SemOK
  <2>7. SemInv'
    BY <1>2, <1>4, <1>8, <2>1, <2>5, <2>6, SemStep DEF RtInv, SemInv
  <2> QED
    BY <1>2, <1>4, <1>8, <2>1, <2>7, OnlySem DEF RtInv
<1> QED
  BY <1>0, <1>6, <1>7, <1>8

-----------------------------------------------------------------------------
(* The rings of the mailboxes *)

LEMMA RingStep ==
  ASSUME RingInv, NEW b \in Boxes, BoxTypes', RingOK(b)',
         \A c \in Boxes \ {b} : box'[c] = box[c] /\ sent'[c] = sent[c]
  PROVE  RingInv'
BY DEF RingInv, RingOK

LEMMA BoxFacts ==
  ASSUME RingInv, NEW b \in Boxes
  PROVE  /\ box[b] \in [msg_pool : [Offsets -> Mails \cup {NoMail}],
                        in_offset : Offsets, out_offset : Offsets, entry : 0 .. BoxSize]
         /\ box[b].in_offset \in Offsets /\ box[b].out_offset \in Offsets
         /\ box[b].entry \in 0 .. BoxSize /\ box[b].entry \in Nat
         /\ box[b].msg_pool \in [Offsets -> Mails \cup {NoMail}]
         /\ sent[b] \in Seq(Mails) /\ BoxSize \in Nat \ {0} /\ RingOK(b)
<1>1. box[b] \in [msg_pool : [Offsets -> Mails \cup {NoMail}],
                  in_offset : Offsets, out_offset : Offsets, entry : 0 .. BoxSize]
  BY DEF RingInv, BoxTypes
<1> QED
  BY <1>1, BoxAssumption DEF RingInv, BoxTypes

LEMMA OnNext ==
  ASSUME NEW o \in Offsets, NEW i \in Nat, i < BoxSize
  PROVE  /\ On(o, i) \in Offsets /\ After(o) \in Offsets
         /\ On(o, i + 1) = After(On(o, i))
         /\ On(After(o), i) = On(o, i + 1)
         /\ On(o, 0) = o
BY BoxAssumption DEF On, After, Offsets

LEMMA OnApart ==
  ASSUME NEW o \in Offsets, NEW i \in Nat, NEW j \in Nat, i < BoxSize, j < BoxSize, i # j
  PROVE  On(o, i) # On(o, j)
BY BoxAssumption DEF On, After, Offsets

LEMMA PutRing ==
  ASSUME RingInv, NEW b \in Boxes, NEW v \in Mails, Put(b, v)
  PROVE  /\ RingInv'
         /\ box'[b].entry = box[b].entry + 1
         /\ \A c \in Boxes \ {b} : box'[c] = box[c]
<1> DEFINE x == box[b]  y == box'[b]
<1>0. /\ x.in_offset \in Offsets /\ x.out_offset \in Offsets
      /\ x.entry \in 0 .. BoxSize /\ x.entry \in Nat
      /\ x.msg_pool \in [Offsets -> Mails \cup {NoMail}]
      /\ sent[b] \in Seq(Mails) /\ BoxSize \in Nat \ {0} /\ RingOK(b)
  BY BoxFacts
<1>1. x.entry < BoxSize
  BY <1>0 DEF Put, Full
<1>2. After(x.in_offset) \in Offsets /\ x.entry + 1 \in 0 .. BoxSize
  BY <1>0, <1>1, OnNext
<1>3. /\ box' = [box EXCEPT ![b].msg_pool[box[b].in_offset] = v,
                            ![b].in_offset = After(@), ![b].entry = @ + 1]
      /\ sent' = [sent EXCEPT ![b] = Append(@, v)]
  BY DEF Put
<1>4. /\ y.entry = x.entry + 1 /\ y.in_offset = After(x.in_offset)
      /\ y.out_offset = x.out_offset
      /\ y.msg_pool = [x.msg_pool EXCEPT ![x.in_offset] = v]
      /\ \A c \in Boxes \ {b} : box'[c] = box[c] /\ sent'[c] = sent[c]
      /\ sent'[b] = Append(sent[b], v)
  BY <1>3 DEF RingInv, BoxTypes
<1>5. BoxTypes'
  <2>1. box' \in [Boxes -> [msg_pool : [Offsets -> Mails \cup {NoMail}],
                            in_offset : Offsets, out_offset : Offsets, entry : 0 .. BoxSize]]
    <3>1. y \in [msg_pool : [Offsets -> Mails \cup {NoMail}], in_offset : Offsets,
                 out_offset : Offsets, entry : 0 .. BoxSize]
      <4>1. /\ box \in [Boxes -> [msg_pool : [Offsets -> Mails \cup {NoMail}],
                                 in_offset : Offsets, out_offset : Offsets,
                                 entry : 0 .. BoxSize]]
            /\ y = [x EXCEPT !.msg_pool = [@ EXCEPT ![x.in_offset] = v],
                            !.in_offset = After(@), !.entry = @ + 1]
        BY <1>3 DEF RingInv, BoxTypes
      <4>2. [x.msg_pool EXCEPT ![x.in_offset] = v] \in [Offsets -> Mails \cup {NoMail}]
        BY <1>0
      <4> QED
        BY <1>2, <4>1, <4>2
    <3>2. box' = [box EXCEPT ![b] = y]
      BY <1>3 DEF RingInv, BoxTypes
    <3> QED
      BY <3>1, <3>2 DEF RingInv, BoxTypes
  <2>2. sent' \in [Boxes -> Seq(Mails)]
    BY <1>0, <1>3, AppendProperties DEF RingInv, BoxTypes
  <2> QED
    BY <2>1, <2>2 DEF BoxTypes
<1> HIDE DEF x, y
<1>6. /\ Len(sent'[b]) = Len(sent[b]) + 1 /\ Len(sent[b]) = x.entry
      /\ \A i \in 1 .. Len(sent[b]) : sent'[b][i] = sent[b][i]
      /\ sent'[b][Len(sent[b]) + 1] = v
  BY <1>0, <1>4, AppendProperties DEF RingOK, x
<1>7. x.in_offset = On(x.out_offset, x.entry)
  BY <1>0 DEF RingOK, x
<1>8. y.in_offset = On(y.out_offset, y.entry)
  <2>1. On(x.out_offset, x.entry + 1) = After(On(x.out_offset, x.entry))
    BY <1>0, <1>1, OnNext
  <2> QED
    BY <1>4, <1>7, <2>1
<1>9. ASSUME NEW i \in 1 .. Len(sent'[b])
      PROVE  y.msg_pool[On(y.out_offset, i - 1)] = sent'[b][i]
  <2>1. CASE i = Len(sent[b]) + 1
    <3>1. i - 1 = x.entry
      BY <1>0, <1>6, <2>1
    <3> QED
      BY <1>0, <1>4, <1>6, <1>7, <2>1, <3>1
  <2>2. CASE i # Len(sent[b]) + 1
    <3>1. /\ i \in 1 .. Len(sent[b]) /\ i - 1 \in Nat /\ i - 1 # x.entry
          /\ i - 1 < BoxSize
      BY <1>0, <1>1, <1>6, <2>2
    <3>2. On(x.out_offset, i - 1) # x.in_offset /\ On(x.out_offset, i - 1) \in Offsets
      BY <1>0, <1>1, <1>7, <3>1, OnNext, OnApart
    <3>3. x.msg_pool[On(x.out_offset, i - 1)] = sent[b][i]
      BY <1>0, <3>1 DEF RingOK, x
    <3> QED
      BY <1>0, <1>4, <1>6, <3>1, <3>2, <3>3
  <2> QED
    BY <2>1, <2>2
<1>10. RingOK(b)'
  BY <1>4, <1>6, <1>8, <1>9 DEF RingOK, y
<1> QED
  BY <1>4, <1>5, <1>10, RingStep DEF x, y

LEMMA GetRing ==
  ASSUME RingInv, NEW b \in Boxes, Get(b)
  PROVE  /\ RingInv'
         /\ box'[b].entry = box[b].entry - 1
         /\ \A c \in Boxes \ {b} : box'[c] = box[c]
<1> DEFINE x == box[b]  y == box'[b]
<1>0. /\ x.in_offset \in Offsets /\ x.out_offset \in Offsets
      /\ x.entry \in 0 .. BoxSize /\ x.entry \in Nat
      /\ x.msg_pool \in [Offsets -> Mails \cup {NoMail}]
      /\ sent[b] \in Seq(Mails) /\ BoxSize \in Nat \ {0} /\ RingOK(b)
  BY BoxFacts
<1>1. x.entry > 0
  BY <1>0 DEF Get, Empty
<1>2. /\ After(x.out_offset) \in Offsets /\ x.entry - 1 \in 0 .. BoxSize
      /\ x.entry - 1 \in Nat /\ x.entry - 1 < BoxSize
  BY <1>0, <1>1, OnNext
<1>3. /\ box' = [box EXCEPT ![b].msg_pool[box[b].out_offset] = NoMail,
                            ![b].out_offset = After(@), ![b].entry = @ - 1]
      /\ sent' = [sent EXCEPT ![b] = Tail(@)]
  BY DEF Get
<1>4. /\ y.entry = x.entry - 1 /\ y.out_offset = After(x.out_offset)
      /\ y.in_offset = x.in_offset
      /\ y.msg_pool = [x.msg_pool EXCEPT ![x.out_offset] = NoMail]
      /\ \A c \in Boxes \ {b} : box'[c] = box[c] /\ sent'[c] = sent[c]
      /\ sent'[b] = Tail(sent[b])
  BY <1>3 DEF RingInv, BoxTypes
<1>a. sent[b] # <<>> /\ Len(sent[b]) = x.entry
  BY <1>0, <1>1, EmptySeq DEF RingOK
<1>b. /\ Tail(sent[b]) \in Seq(Mails) /\ Len(Tail(sent[b])) = Len(sent[b]) - 1
      /\ \A i \in 1 .. Len(Tail(sent[b])) : Tail(sent[b])[i] = sent[b][i + 1]
  BY <1>0, <1>a, HeadTailProperties
<1>5. BoxTypes'
  <2>1. box' \in [Boxes -> [msg_pool : [Offsets -> Mails \cup {NoMail}],
                            in_offset : Offsets, out_offset : Offsets, entry : 0 .. BoxSize]]
    BY <1>2, <1>3 DEF RingInv, BoxTypes
  <2>2. sent' \in [Boxes -> Seq(Mails)]
    BY <1>b, <1>3 DEF RingInv, BoxTypes
  <2> QED
    BY <2>1, <2>2 DEF BoxTypes
<1> HIDE DEF x, y
<1>8. y.in_offset = On(y.out_offset, y.entry)
  <2>1. x.in_offset = On(x.out_offset, x.entry)
    BY <1>0 DEF RingOK, x
  <2>2. On(After(x.out_offset), x.entry - 1) = On(x.out_offset, (x.entry - 1) + 1)
    BY <1>0, <1>2, OnNext
  <2>3. (x.entry - 1) + 1 = x.entry
    BY <1>0
  <2> QED
    BY <1>4, <2>1, <2>2, <2>3
<1>9. ASSUME NEW i \in 1 .. Len(sent'[b])
      PROVE  y.msg_pool[On(y.out_offset, i - 1)] = sent'[b][i]
  <2>1. /\ i - 1 \in Nat /\ i \in Nat /\ i - 1 < BoxSize /\ i < BoxSize
        /\ (i - 1) + 1 = i /\ (i + 1) - 1 = i /\ i # 0 /\ i + 1 \in 1 .. Len(sent[b])
    BY <1>0, <1>4, <1>a, <1>b
  <2>2. On(y.out_offset, i - 1) = On(x.out_offset, i)
    BY <1>0, <1>4, <2>1, OnNext
  <2>3. On(x.out_offset, i) # On(x.out_offset, 0) /\ On(x.out_offset, 0) = x.out_offset
    <3>1. 0 \in Nat /\ 0 < BoxSize
      BY <1>0
    <3> QED
      BY <1>0, <2>1, <3>1, OnNext, OnApart
  <2>4. On(x.out_offset, i) \in Offsets
    BY <1>0, <2>1, OnNext
  <2>5. x.msg_pool[On(x.out_offset, i)] = sent[b][i + 1]
    BY <1>0, <2>1 DEF RingOK, x
  <2> QED
    BY <1>0, <1>4, <1>b, <2>2, <2>3, <2>4, <2>5
<1>10. RingOK(b)'
  BY <1>4, <1>8, <1>9, <1>a, <1>b DEF RingOK, y
<1> QED
  BY <1>4, <1>5, <1>10, RingStep DEF x, y

-----------------------------------------------------------------------------
(* The waiting lists of the mailboxes *)

LEMMA BoxStep ==
  ASSUME RtInv, NEW b \in Boxes, BoxWaitOK(b)',
         \A c \in Boxes \ {b} : box'[c] = box[c] /\ Untouched(c) /\ Untouched(Senders(c))
  PROVE  BoxWaitInv'
<1>1. ASSUME NEW c \in Boxes, c # b PROVE BoxWaitOK(c)'
  <2>1. BoxWaitOK(c) /\ box'[c] = box[c] /\ Untouched(c) /\ Untouched(Senders(c))
    BY <1>1 DEF RtInv, BoxWaitInv
  <2> QED
    BY <2>1 DEF BoxWaitOK, Untouched, Senders
<1> QED
  BY <1>1 DEF BoxWaitInv

\* More handed threads, or one less
LEMMA HandedCounts ==
  ASSUME NEW o, NEW t
  PROVE  /\ \A u : u \notin Handed(o) =>
                Cardinality(Handed(o) \cup {u}) = Cardinality(Handed(o)) + 1
         /\ Cardinality(Handed(o) \ {t}) >= Cardinality(Handed(o)) - 1
         /\ Cardinality(Handed(o)) \in Nat /\ Cardinality(Handed(o) \ {t}) \in Nat
<1>1. IsFiniteSet(Handed(o)) /\ Cardinality(Handed(o)) \in Nat
  BY HandedIsFinite
<1>2. Cardinality(Handed(o) \ {t}) =
        IF t \in Handed(o) THEN Cardinality(Handed(o)) - 1 ELSE Cardinality(Handed(o))
  BY <1>1, FS_RemoveElement
<1>3. IsFiniteSet(Handed(o) \ {t})
  BY <1>1, FS_RemoveElement
<1>4. Cardinality(Handed(o) \ {t}) \in Nat
  BY <1>3, FS_CardinalityType
<1> QED
  BY <1>1, <1>2, <1>4, FS_AddElement

\* A mail goes in: t, if anybody, no longer waits for room, and a receiver, if
\* one waits, is handed the mail.
LEMMA PutKeeps ==
  ASSUME RtInv, NEW b \in Boxes, NEW v \in Mails, Put(b, v), NEW t, t \notin Handed(b),
         list[b] = <<>> => UNCHANGED list,
         list[b] # <<>> => \E u : u \notin Handed(b) /\ Handed(b)' = Handed(b) \cup {u},
         \A q \in Objects : q # b => list'[q] = list[q] /\ Handed(q)' = Handed(q) \ {t},
         \A q \in Objects : q # b /\ q # Senders(b) => Untouched(q),
         UNCHANGED ipcVars, UNCHANGED mq, KernelInv', OnProcessor'
  PROVE  RtInv'
<1>1. /\ RingInv' /\ box'[b].entry = box[b].entry + 1
      /\ \A c \in Boxes \ {b} : box'[c] = box[c]
  BY PutRing DEF RtInv
<1>2. /\ b \in Objects /\ Senders(b) \in Objects /\ Senders(b) # b
      /\ box[b].entry \in Nat /\ BoxSize \in Nat
  BY ObjectsApart, BoxFacts DEF RtInv
<1>3. BoxWaitOK(b)
  BY DEF RtInv, BoxWaitInv
<1>4. list'[b] # <<>> => box'[b].entry <= Cardinality(Handed(b)')
  <2>1. CASE list[b] = <<>>
    BY <2>1
  <2>2. CASE list[b] # <<>>
    <3>1. Cardinality(Handed(b)') = Cardinality(Handed(b)) + 1
      BY <2>2, HandedCounts
    <3>2. Cardinality(Handed(b)) \in Nat
      BY HandedCounts
    <3> QED
      BY <1>1, <1>2, <1>3, <2>2, <3>1, <3>2 DEF BoxWaitOK
  <2> QED
    BY <2>1, <2>2
<1>5. list'[Senders(b)] # <<>> =>
         BoxSize - box'[b].entry <= Cardinality(Handed(Senders(b))')
  <2>1. Cardinality(Handed(Senders(b))') >= Cardinality(Handed(Senders(b))) - 1
    BY <1>2, HandedCounts DEF Senders
  <2>2. Cardinality(Handed(Senders(b))') \in Nat /\ Cardinality(Handed(Senders(b))) \in Nat
    BY <1>2, HandedCounts DEF Senders
  <2> QED
    BY <1>1, <1>2, <1>3, <2>1, <2>2 DEF BoxWaitOK
<1>6. BoxWaitOK(b)'
  BY <1>4, <1>5 DEF BoxWaitOK, Senders
<1>7. \A c \in Boxes \ {b} : Untouched(c) /\ Untouched(Senders(c))
  BY ObjectsApart
<1>8. BoxWaitInv'
  BY <1>1, <1>6, <1>7, BoxStep
<1>9. MutexInv' /\ SemInv' /\ QueueWaitInv'
  <2>1. \A q \in Objects : q \notin BoxLists => Untouched(q)
    BY ObjectsApart DEF BoxLists
  <2> QED
    BY <2>1, OnlyBox DEF ipcVars
<1> QED
  BY <1>1, <1>8, <1>9 DEF RtInv

\* A mail comes out: t, if anybody, no longer waits for a mail, and a sender,
\* if one waits, is handed the room.
LEMMA GetKeeps ==
  ASSUME RtInv, NEW b \in Boxes, Get(b), NEW t, t \notin Handed(Senders(b)),
         list[Senders(b)] = <<>> => UNCHANGED list,
         list[Senders(b)] # <<>> =>
            \E u : u \notin Handed(Senders(b)) /\ Handed(Senders(b))' = Handed(Senders(b)) \cup {u},
         \A q \in Objects : q # Senders(b) => list'[q] = list[q] /\ Handed(q)' = Handed(q) \ {t},
         \A q \in Objects : q # b /\ q # Senders(b) => Untouched(q),
         UNCHANGED ipcVars, UNCHANGED mq, KernelInv', OnProcessor'
  PROVE  RtInv'
<1>1. /\ RingInv' /\ box'[b].entry = box[b].entry - 1
      /\ \A c \in Boxes \ {b} : box'[c] = box[c]
  BY GetRing DEF RtInv
<1>2. /\ b \in Objects /\ Senders(b) \in Objects /\ Senders(b) # b
      /\ box[b].entry \in Nat /\ BoxSize \in Nat /\ box'[b].entry \in Nat
  BY <1>1, ObjectsApart, BoxFacts DEF RtInv, Get, Empty
<1>3. BoxWaitOK(b)
  BY DEF RtInv, BoxWaitInv
<1>4. list'[b] # <<>> => box'[b].entry <= Cardinality(Handed(b)')
  <2>1. Cardinality(Handed(b)') >= Cardinality(Handed(b)) - 1
    BY <1>2, HandedCounts
  <2>2. Cardinality(Handed(b)') \in Nat /\ Cardinality(Handed(b)) \in Nat
    BY <1>2, HandedCounts
  <2> QED
    BY <1>1, <1>2, <1>3, <2>1, <2>2 DEF BoxWaitOK
<1>5. list'[Senders(b)] # <<>> =>
         BoxSize - box'[b].entry <= Cardinality(Handed(Senders(b))')
  <2>1. CASE list[Senders(b)] = <<>>
    BY <2>1
  <2>2. CASE list[Senders(b)] # <<>>
    <3>1. Cardinality(Handed(Senders(b))') = Cardinality(Handed(Senders(b))) + 1
      BY <2>2, HandedCounts DEF Senders
    <3>2. Cardinality(Handed(Senders(b))) \in Nat
      BY HandedCounts
    <3> QED
      BY <1>1, <1>2, <1>3, <2>2, <3>1, <3>2 DEF BoxWaitOK
  <2> QED
    BY <2>1, <2>2
<1>6. BoxWaitOK(b)'
  BY <1>4, <1>5 DEF BoxWaitOK, Senders
<1>7. \A c \in Boxes \ {b} : Untouched(c) /\ Untouched(Senders(c))
  BY ObjectsApart
<1>8. BoxWaitInv'
  BY <1>1, <1>6, <1>7, BoxStep
<1>9. MutexInv' /\ SemInv' /\ QueueWaitInv'
  <2>1. \A q \in Objects : q \notin BoxLists => Untouched(q)
    BY ObjectsApart DEF BoxLists
  <2> QED
    BY <2>1, OnlyBox DEF ipcVars
<1> QED
  BY <1>1, <1>8, <1>9 DEF RtInv

\* A thread begins to wait for o, or gives up, while there is nothing to wait
\* for in the mailbox.
LEMMA NothingThereKeeps ==
  ASSUME RtInv, NEW b \in Boxes, NEW o,
         (o = b /\ Empty(b)) \/ (o = Senders(b) /\ Full(b)),
         \A q \in Objects : q # o => Untouched(q),
         UNCHANGED <<box, sent>>, UNCHANGED ipcVars, UNCHANGED mq, KernelInv', OnProcessor'
  PROVE  RtInv'
<1>2. /\ b \in Objects /\ Senders(b) \in Objects /\ Senders(b) # b
      /\ box[b].entry \in Nat /\ BoxSize \in Nat
  BY ObjectsApart, BoxFacts DEF RtInv
<1>3. BoxWaitOK(b)
  BY DEF RtInv, BoxWaitInv
<1>4. Cardinality(Handed(b)') \in Nat /\ Cardinality(Handed(Senders(b))') \in Nat
  <2>1. ASSUME NEW q PROVE Cardinality(Handed(q)') \in Nat
    <3>1. Handed(q)' \subseteq Threads
      BY DEF Handed
    <3> QED
      BY <3>1, KernelAssumption, FS_Subset, FS_CardinalityType
  <2> QED
    BY <2>1 DEF Senders
<1>5. BoxWaitOK(b)'
  <2>1. CASE o = b /\ Empty(b)
    <3>1. Untouched(Senders(b)) /\ box'[b].entry = 0 /\ box[b].entry = 0
      BY <1>2, <2>1 DEF Empty
    <3> QED
      BY <1>3, <1>4, <3>1 DEF BoxWaitOK, Untouched, Senders
  <2>2. CASE o = Senders(b) /\ Full(b)
    <3>1. Untouched(b) /\ box'[b].entry = BoxSize /\ box[b].entry = BoxSize
      BY <1>2, <2>2 DEF Full
    <3> QED
      BY <1>2, <1>3, <1>4, <3>1 DEF BoxWaitOK, Untouched, Senders
  <2> QED
    BY <2>1, <2>2
<1>6. \A c \in Boxes \ {b} : box'[c] = box[c] /\ Untouched(c) /\ Untouched(Senders(c))
  BY ObjectsApart
<1>7. BoxWaitInv'
  BY <1>5, <1>6, BoxStep
<1>8. RingInv'
  BY DEF RtInv, RingInv, BoxTypes, RingOK
<1>9. MutexInv' /\ SemInv' /\ QueueWaitInv'
  <2>1. \A q \in Objects : q \notin BoxLists => Untouched(q)
    BY ObjectsApart DEF BoxLists
  <2> QED
    BY <2>1, OnlyBox DEF ipcVars
<1> QED
  BY <1>7, <1>8, <1>9 DEF RtInv

-----------------------------------------------------------------------------
(* The steps of the mailboxes *)

LEMMA BoxCallFacts ==
  ASSUME RtInv, NEW b \in Boxes \cup Queues
  PROVE  /\ b \in Objects /\ Senders(b) \in Objects /\ Senders(b) # b
         /\ ThreadMail \in Mails /\ IsrMail \in Mails
         /\ prio \in PrioMaps /\ prio[Idle] = Lowest /\ TableOK(ready, stat, prio)
         /\ \A t \in Threads : /\ want \in [All -> Objects \cup {NoObject}] /\ t \in All
                               /\ error \in [All -> Errors] /\ pc \in [All -> Points]
BY ObjectsApart, QueuesApart, ThreadsAreAll
DEF Mails, RtInv, KernelInv, KernelTypes, Tables, IdleInv

\* A thread sends, at once or after it has waited for room.
LEMMA SendsKeeps ==
  ASSUME RtInv, NEW t \in Threads, NEW b \in Boxes, Put(b, ThreadMail), GoTo(t, LastPoint(b)),
         cur = t, pc[t] \notin {"take_sched", "sleep_sched"},
         want' = [want EXCEPT ![t] = NoObject],
         want[t] \in {NoObject, Senders(b)},
         UNCHANGED <<cur, prio, error>>, UNCHANGED ipcVars, UNCHANGED mq
  PROVE  RtInv'
<1> DEFINE x == LastPoint(b)
<1>1. x \in {"run", "last_sched"} /\ pc' = [pc EXCEPT ![t] = x] /\ WakeOne(b)
  BY DEF LastPoint, GoTo, Put
<1> HIDE DEF x
<1>2. b \in Objects /\ Senders(b) # b /\ b # NoObject /\ ThreadMail \in Mails
  BY BoxCallFacts, ObjectsApart
<1>3. /\ KernelInv' /\ OnProcessor'
      /\ list[b] = <<>> => UNCHANGED list /\ Handed(b)' = Handed(b) \ {t}
      /\ list[b] # <<>> =>
            \E u \in Threads \ (Handed(b) \cup {t}) : Handed(b)' = (Handed(b) \ {t}) \cup {u}
      /\ \A q \in Objects : q # b => list'[q] = list[q] /\ Handed(q)' = Handed(q) \ {t}
      /\ \A q \in Objects : q # b /\ q # want[t] => Untouched(q)
  BY <1>1, <1>2, WakeKeeps DEF RtInv
<1>4. t \notin Handed(b)
  BY <1>2, TakesOne
<1>5. \A q \in Objects : q # b /\ q # Senders(b) => Untouched(q)
  BY <1>3, ObjectsApart
<1>6. list[b] # <<>> => \E u : u \notin Handed(b) /\ Handed(b)' = Handed(b) \cup {u}
  <2>1. Handed(b) \ {t} = Handed(b)
    BY <1>4
  <2> QED
    BY <1>3, <2>1
<1> QED
  BY <1>2, <1>3, <1>4, <1>5, <1>6, PutKeeps

\* A thread receives, at once or after it has waited for a mail.
LEMMA ReceivesKeeps ==
  ASSUME RtInv, NEW t \in Threads, NEW b \in Boxes, Get(b), GoTo(t, LastPoint(Senders(b))),
         cur = t, pc[t] \notin {"take_sched", "sleep_sched"},
         want' = [want EXCEPT ![t] = NoObject],
         want[t] \in {NoObject, b},
         UNCHANGED <<cur, prio, error>>, UNCHANGED ipcVars, UNCHANGED mq
  PROVE  RtInv'
<1> DEFINE x == LastPoint(Senders(b))  o == Senders(b)
<1>1. x \in {"run", "last_sched"} /\ pc' = [pc EXCEPT ![t] = x] /\ WakeOne(o)
  BY DEF LastPoint, GoTo, Get
<1> HIDE DEF x
<1>2. o \in Objects /\ b # o /\ o # NoObject
  BY BoxCallFacts, ObjectsApart
<1>3. /\ KernelInv' /\ OnProcessor'
      /\ list[o] = <<>> => UNCHANGED list /\ Handed(o)' = Handed(o) \ {t}
      /\ list[o] # <<>> =>
            \E u \in Threads \ (Handed(o) \cup {t}) : Handed(o)' = (Handed(o) \ {t}) \cup {u}
      /\ \A q \in Objects : q # o => list'[q] = list[q] /\ Handed(q)' = Handed(q) \ {t}
      /\ \A q \in Objects : q # o /\ q # want[t] => Untouched(q)
  BY <1>1, <1>2, WakeKeeps DEF RtInv
<1>4. t \notin Handed(o)
  BY <1>2, TakesOne
<1>5. \A q \in Objects : q # b /\ q # o => Untouched(q)
  BY <1>3, ObjectsApart
<1>6. list[o] # <<>> => \E u : u \notin Handed(o) /\ Handed(o)' = Handed(o) \cup {u}
  <2>1. Handed(o) \ {t} = Handed(o)
    BY <1>4
  <2> QED
    BY <1>3, <2>1
<1> QED
  BY <1>3, <1>4, <1>5, <1>6, GetKeeps

LEMMA MbMovesKeeps ==
  ASSUME RtInv, NEW t \in Threads, NEW b \in Boxes,
         MbSend(t, b) \/ MbSendWoken(t, b) \/ MbRecv(t, b) \/ MbRecvWoken(t, b),
         UNCHANGED ipcVars, UNCHANGED mq
  PROVE  RtInv'
<1>1. CASE MbSend(t, b)
  <2>1. Calls(t) /\ UNCHANGED <<cur, prio, error, want>>
    BY <1>1 DEF MbSend
  <2>2. want[t] = NoObject /\ cur = t /\ pc[t] = "run"
    BY <2>1, CallFacts
  <2>3. want' = [want EXCEPT ![t] = NoObject]
    BY <2>1, <2>2, BoxCallFacts
  <2> QED
    BY <1>1, <2>1, <2>2, <2>3, SendsKeeps DEF MbSend
<1>2. CASE MbRecv(t, b)
  <2>1. Calls(t) /\ UNCHANGED <<cur, prio, error, want>>
    BY <1>2 DEF MbRecv
  <2>2. want[t] = NoObject /\ cur = t /\ pc[t] = "run"
    BY <2>1, CallFacts
  <2>3. want' = [want EXCEPT ![t] = NoObject]
    BY <2>1, <2>2, BoxCallFacts
  <2> QED
    BY <1>2, <2>1, <2>2, <2>3, ReceivesKeeps DEF MbRecv
<1>3. CASE MbSendWoken(t, b)
  BY <1>3, SendsKeeps DEF MbSendWoken, Leave, Back
<1>4. CASE MbRecvWoken(t, b)
  BY <1>4, ReceivesKeeps DEF MbRecvWoken, Leave, Back
<1> QED
  BY <1>1, <1>2, <1>3, <1>4

LEMMA MbSendIsrKeeps ==
  ASSUME RtInv, NEW b \in Boxes, MbSendIsr(b), UNCHANGED ipcVars, UNCHANGED mq
  PROVE  RtInv'
<1>1. /\ Put(b, IsrMail) /\ WakeOne(b) /\ UNCHANGED <<prio, error, pc, want>>
      /\ cur' = IF list[b] = <<>> THEN cur ELSE Elected(ready')
  BY DEF MbSendIsr, Put
<1>2. b \in Objects /\ IsrMail \in Mails
  BY BoxCallFacts
<1>3. /\ KernelInv' /\ OnProcessor'
      /\ list[b] = <<>> => UNCHANGED list /\ Handed(b)' = Handed(b)
      /\ list[b] # <<>> => \E u \in Threads \ Handed(b) : Handed(b)' = Handed(b) \cup {u}
      /\ \A q \in Objects : q # b => list'[q] = list[q] /\ Untouched(q)
  BY <1>1, <1>2, WakeIsrKeeps DEF RtInv
<1>4. \A q : Idle \notin Handed(q)
  BY KernelAssumption DEF Handed
<1>5. \A q \in Objects : q # b => list'[q] = list[q] /\ Handed(q)' = Handed(q) \ {Idle}
  BY <1>3, <1>4 DEF Untouched
<1> QED
  BY <1>1, <1>2, <1>3, <1>4, <1>5, PutKeeps

LEMMA MbWaitsKeeps ==
  ASSUME RtInv, NEW t \in Threads, NEW b \in Boxes, NEW o \in {b, Senders(b)},
         NEW time \in BOOLEAN, WaitOn(t, o, time), cur = t,
         pc[t] = "run" \/ (pc[t] = "take_check" /\ want[t] = o),
         (o = b /\ Empty(b)) \/ (o = Senders(b) /\ Full(b)), UNCHANGED ipcVars, UNCHANGED mq
  PROVE  RtInv'
<1>1. o \in Objects
  BY BoxCallFacts
<1>2. SuspendOn(t, o, time, ready, prio) /\ UNCHANGED <<cur, box, sent>>
  BY DEF WaitOn
<1>3. prio \in PrioMaps /\ prio[Idle] = Lowest /\ TableOK(ready, stat, prio)
  BY BoxCallFacts
<1>4. KernelInv' /\ OnProcessor' /\ \A q \in Objects : q # o => Untouched(q)
  BY <1>1, <1>2, <1>3, WaitKeeps DEF RtInv
<1> QED
  BY <1>2, <1>4, NothingThereKeeps

LEMMA MbWaitKeeps ==
  ASSUME RtInv, NEW t \in Threads, NEW b \in Boxes,
         \/ \E time \in BOOLEAN : MbSendWait(t, b, time) \/ MbRecvWait(t, b, time)
         \/ MbWaitAgain(t, b),
         UNCHANGED ipcVars, UNCHANGED mq
  PROVE  RtInv'
<1>1. ASSUME NEW time \in BOOLEAN, MbSendWait(t, b, time) PROVE RtInv'
  BY <1>1, MbWaitsKeeps DEF MbSendWait, Calls
<1>2. ASSUME NEW time \in BOOLEAN, MbRecvWait(t, b, time) PROVE RtInv'
  BY <1>2, MbWaitsKeeps DEF MbRecvWait, Calls
<1>3. CASE MbWaitAgain(t, b)
  <2>1. PICK time \in BOOLEAN : time <=> t \in timed
    OBVIOUS
  <2>2. PICK o \in {b, Senders(b)} : /\ o = want[t]
                                     /\ (o = b /\ Empty(b)) \/ (o = Senders(b) /\ Full(b))
    BY <1>3 DEF MbWaitAgain, Missed, Back
  <2>3. cur = t /\ pc[t] = "take_check" /\ WaitOn(t, want[t], t \in timed)
    BY <1>3 DEF MbWaitAgain, Missed, Back
  <2>4. WaitOn(t, o, time)
    BY <2>1, <2>2, <2>3 DEF WaitOn, SuspendOn, GoTo
  <2> QED
    BY <2>2, <2>3, <2>4, MbWaitsKeeps
<1> QED
  BY <1>1, <1>2, <1>3

\* A wait that failed ends.
LEMMA MbLateKeeps ==
  ASSUME RtInv, NEW t \in Threads, NEW b \in Boxes, MbLate(t, b), UNCHANGED ipcVars, UNCHANGED mq
  PROVE  RtInv'
<1>1. PICK o \in {b, Senders(b)} : /\ o = want[t]
                                   /\ (o = b /\ Empty(b)) \/ (o = Senders(b) /\ Full(b))
  BY DEF MbLate, Missed, Back
<1>2. PICK e : e = IF want[t] = b THEN "timeout" ELSE "ok"
  OBVIOUS
<1>3. /\ cur = t /\ pc[t] = "take_check"
      /\ error' = [error EXCEPT ![t] = e] /\ e \in Errors
      /\ pc' = [pc EXCEPT ![t] = "run"] /\ want' = [want EXCEPT ![t] = NoObject]
      /\ UNCHANGED <<ready, cur, stat, prio, timer, list, box, sent>>
  BY <1>2 DEF MbLate, GivesUp, Missed, Back, Leave, GoTo, Errors
<1>4. /\ "run" \in {"run", "last_sched", "reset", "copy"} /\ NoObject \in Objects \cup {NoObject}
      /\ NoObject # NoObject <=> "run" = "reset"
  OBVIOUS
<1>5. KernelInv' /\ OnProcessor' /\ \A q : q # o => Untouched(q)
  BY <1>1, <1>3, <1>4, ReturnKeeps DEF RtInv
<1> QED
  BY <1>1, <1>3, <1>5, NothingThereKeeps

LEMMA WaitFailsKeeps ==
  ASSUME RtInv, NEW t \in Threads, NEW b \in Boxes \cup Queues, WaitFails(t, b), UNCHANGED ipcVars, UNCHANGED mq
  PROVE  RtInv'
<1>1. /\ cur = t /\ pc[t] = "take_check" /\ error[t] # "ok"
      /\ pc' = [pc EXCEPT ![t] = "run"] /\ want' = [want EXCEPT ![t] = NoObject]
      /\ error' = [error EXCEPT ![t] = error[t]] /\ error[t] \in Errors
      /\ UNCHANGED <<ready, cur, stat, prio, timer, list, box, sent>>
  BY BoxCallFacts DEF WaitFails, Back, Leave, GoTo
<1>2. /\ "run" \in {"run", "last_sched", "reset", "copy"} /\ NoObject \in Objects \cup {NoObject}
      /\ NoObject # NoObject <=> "run" = "reset"
  OBVIOUS
<1>3. /\ KernelInv' /\ OnProcessor'
      /\ \A q : Handed(q)' = Handed(q) \ {t} /\ Takers(q)' = Takers(q) \ {t}
  BY <1>1, <1>2, ReturnKeeps DEF RtInv
<1>4. \A q : t \notin Handed(q)
  BY <1>1 DEF Handed
<1>5. \A q \in Objects : Untouched(q)
  BY <1>1, <1>3, <1>4 DEF Untouched
<1> QED
  BY <1>1, <1>3, <1>5, NothingElse DEF ipcVars

LEMMA ResetOneKeeps ==
  ASSUME RtInv, NEW t \in Threads, NEW b \in Boxes \cup Queues, ResetOne(t, b), UNCHANGED ipcVars, UNCHANGED mq
  PROVE  RtInv'
<1>1. b \in Objects /\ Senders(b) \in Objects
  BY BoxCallFacts
<1>2. PICK o \in Objects : ResetNext(t, b, o)
  BY <1>1 DEF ResetOne
<1> QED
  BY <1>1, <1>2, ResetNextKeeps DEF ResetOne, Others, ipcVars, boxVars

LEMMA MbResetEndKeeps ==
  ASSUME RtInv, NEW t \in Threads, NEW b \in Boxes, MbResetEnd(t, b), UNCHANGED ipcVars, UNCHANGED mq
  PROVE  RtInv'
<1>1. /\ ResetEnd(t, b) /\ list[Senders(b)] = <<>>
      /\ box' = [box EXCEPT ![b] = EmptyBox] /\ sent' = [sent EXCEPT ![b] = <<>>]
  BY DEF MbResetEnd
<1>2. /\ KernelInv' /\ OnProcessor' /\ UNCHANGED list /\ list[b] = <<>>
      /\ \A q \in Objects : Untouched(q)
  BY <1>1, BoxCallFacts, ResetEndKeeps
<1>6. BoxSize \in Nat \ {0} /\ 0 \in Offsets /\ 0 \in 0 .. BoxSize
  BY BoxAssumption DEF Offsets
<1>7. BoxTypes'
  <2>1. EmptyBox \in [msg_pool : [Offsets -> Mails \cup {NoMail}],
                      in_offset : Offsets, out_offset : Offsets, entry : 0 .. BoxSize]
    BY <1>6 DEF EmptyBox, Offsets
  <2>2. <<>> \in Seq(Mails)
    BY EmptySeq
  <2> QED
    BY <1>1, <2>1, <2>2 DEF RtInv, RingInv, BoxTypes
<1>8. box'[b] = EmptyBox /\ sent'[b] = <<>>
  BY <1>1 DEF RtInv, RingInv, BoxTypes
<1>9. RingOK(b)'
  <2>1. Len(<<>>) = 0 /\ 1 .. 0 = {}
    BY EmptySeq
  <2>2. On(0, 0) = 0
    BY <1>6 DEF On
  <2> QED
    BY <1>8, <2>1, <2>2 DEF RingOK, EmptyBox
<1>10. \A c \in Boxes \ {b} : box'[c] = box[c] /\ sent'[c] = sent[c]
  BY <1>1 DEF RtInv, RingInv, BoxTypes
<1>11. RingInv'
  BY <1>7, <1>9, <1>10, RingStep DEF RtInv
<1>12. BoxWaitOK(b)'
  BY <1>1, <1>2 DEF BoxWaitOK, Senders
<1>13. BoxWaitInv'
  BY <1>2, <1>10, <1>12, BoxStep, BoxCallFacts
<1>14. MutexInv' /\ SemInv' /\ QueueWaitInv'
  BY <1>2, OnlyBox, ObjectsApart DEF ipcVars
<1> QED
  BY <1>2, <1>11, <1>13, <1>14 DEF RtInv

-----------------------------------------------------------------------------
(* The waiting lists of the message queues *)

QueueTypes ==
    /\ mq \in [Queues -> [free : Seq(Blocks), queue : Seq(Blocks), entry : Nat,
                          text : [Blocks -> Mails \cup {NoMail}]]]
    /\ posted \in [Queues -> Seq(Mails)]

\* A thread copies a message exactly while it is in the middle of a call.
MsgOK(t) ==
    IF pc[t] = "copy"
    THEN msg[t] \in [queue : Queues, block : Blocks, for : {"put", "urge", "got"}, text : Mails]
    ELSE msg[t] = NoMsg

MsgInv ==
    /\ msg \in [Threads -> [queue : Queues \cup {NoObject}, block : Blocks \cup {NoObject},
                            for : {"put", "urge", "got", "none"}, text : Mails \cup {NoMail}]]
    /\ \A t \in Threads : MsgOK(t)

BlockOK(q) == BlocksInOnePlace(q) /\ TextsKept(q)

\* The messages of the queues and those that are copied
QueueInv == QueueTypes /\ MsgInv /\ \A q \in Queues : BlockOK(q)

LEMMA QueueFacts ==
  ASSUME QueueInv, NEW q \in Queues
  PROVE  /\ mq[q] \in [free : Seq(Blocks), queue : Seq(Blocks), entry : Nat,
                       text : [Blocks -> Mails \cup {NoMail}]]
         /\ mq[q].free \in Lists(Blocks) /\ mq[q].queue \in Lists(Blocks)
         /\ Len(mq[q].free) \in Nat /\ mq[q].entry \in Nat /\ Len(mq[q].queue) = mq[q].entry
         /\ mq[q].text \in [Blocks -> Mails \cup {NoMail}]
         /\ posted[q] \in Seq(Mails) /\ Len(posted[q]) = mq[q].entry
         /\ BlockOK(q)
<1>1. mq[q] \in [free : Seq(Blocks), queue : Seq(Blocks), entry : Nat,
                 text : [Blocks -> Mails \cup {NoMail}]]
  BY DEF QueueInv, QueueTypes
<1>2. BlockOK(q) /\ posted[q] \in Seq(Mails)
  BY DEF QueueInv, QueueTypes
<1>3. mq[q].free \in Seq(Blocks) /\ mq[q].queue \in Seq(Blocks)
  BY <1>1
<1>4. Len(mq[q].free) \in Nat
  BY <1>3, LenProperties
<1> QED
  BY <1>1, <1>2, <1>3, <1>4 DEF BlockOK, BlocksInOnePlace, TextsKept, Lists

\* The three ways the threads that wait for o are served: one more comes for
\* them and one is resumed, the running thread takes one and no longer waits,
\* or nothing changes.
LEMMA OneMoreServes ==
  ASSUME NEW o, NEW n \in Nat, Served(o, n),
         list[o] = <<>> => UNCHANGED list,
         list[o] # <<>> => \E u : u \notin Handed(o) /\ Handed(o)' = Handed(o) \cup {u}
  PROVE  list'[o] # <<>> => n + 1 <= Cardinality(Handed(o)')
<1>1. CASE list[o] = <<>>
  BY <1>1
<1>2. CASE list[o] # <<>>
  <2>1. Cardinality(Handed(o)') = Cardinality(Handed(o)) + 1 /\ Cardinality(Handed(o)) \in Nat
    BY <1>2, HandedCounts
  <2> QED
    BY <1>2, <2>1 DEF Served
<1> QED
  BY <1>1, <1>2

LEMMA OneLessServes ==
  ASSUME NEW o, NEW n \in Nat \ {0}, Served(o, n), NEW t,
         list'[o] = list[o], Handed(o)' = Handed(o) \ {t}
  PROVE  list'[o] # <<>> => n - 1 <= Cardinality(Handed(o)')
<1>1. /\ Cardinality(Handed(o)') >= Cardinality(Handed(o)) - 1
      /\ Cardinality(Handed(o)') \in Nat /\ Cardinality(Handed(o)) \in Nat
  BY HandedCounts
<1> QED
  BY <1>1 DEF Served

LEMMA SameServes ==
  ASSUME NEW o, NEW n, Served(o, n), Untouched(o)
  PROVE  list'[o] # <<>> => n <= Cardinality(Handed(o)')
BY DEF Served, Untouched

LEMMA NoneServes ==
  ASSUME NEW o PROVE 0 <= Cardinality(Handed(o)')
<1>1. Handed(o)' \subseteq Threads
  BY DEF Handed
<1> QED
  BY <1>1, KernelAssumption, FS_Subset, FS_CardinalityType

LEMMA QueueWaitStep ==
  ASSUME RtInv, NEW q \in Queues, KernelInv', OnProcessor',
         UNCHANGED <<mutex, holds, count, credit, box, sent>>,
         \A o \in Objects : o \notin {q, Senders(q)} => Untouched(o),
         \A c \in Queues \ {q} : mq'[c] = mq[c],
         NEW n, NEW k, n = mq'[q].entry, k = Len(mq'[q].free),
         list'[q] # <<>> => n <= Cardinality(Handed(q)'),
         list'[Senders(q)] # <<>> => k <= Cardinality(Handed(Senders(q))')
  PROVE  RtInv'
<1>1. \A o \in Objects : o \notin QueueLists => Untouched(o)
  BY DEF QueueLists
<1>2. MutexInv' /\ SemInv' /\ RingInv' /\ BoxWaitInv'
  BY <1>1, OnlyQueue
<1>3. ASSUME NEW c \in Queues, c # q PROVE QueueWaitOK(c)'
  <2>1. QueueWaitOK(c) /\ mq'[c] = mq[c]
    BY <1>3 DEF RtInv, QueueWaitInv
  <2>2. Untouched(c) /\ Untouched(Senders(c))
    BY <1>3, QueuesApart
  <2> QED
    BY <2>1, <2>2 DEF QueueWaitOK, Served, Untouched, Senders
<1>4. QueueWaitOK(q)'
  BY DEF QueueWaitOK, Served, Senders
<1>5. QueueWaitInv'
  BY <1>3, <1>4 DEF QueueWaitInv
<1> QED
  BY <1>2, <1>5 DEF RtInv

-----------------------------------------------------------------------------
(* The steps of the message queues *)

\* The running thread goes to copy, from its own code or from the wait for o.
LEMMA CopyKeeps ==
  ASSUME RtInv, NEW t \in Threads, NEW q \in Queues, NEW x, NEW for, NEW v,
         CopyOf(t, q, x, for, v), NEW o \in {q, Senders(q)},
         Calls(t) \/ Back(t, o)
  PROVE  /\ KernelInv' /\ OnProcessor'
         /\ \A p \in {q, Senders(q)} : list'[p] = list[p] /\ Handed(p)' = Handed(p) \ {t}
         /\ \A p \in Objects : p # o => Untouched(p)
<1>1. cur = t /\ pc[t] \in {"run", "take_check"} /\ want[t] \in {NoObject, o}
  BY CallFacts DEF Calls, Back
<1>2. /\ pc' = [pc EXCEPT ![t] = "copy"] /\ want' = [want EXCEPT ![t] = NoObject]
      /\ error' = [error EXCEPT ![t] = error[t]] /\ error[t] \in Errors
      /\ UNCHANGED <<ready, cur, stat, prio, timer, list>>
  BY BoxCallFacts DEF CopyOf, GoTo
<1>3. /\ "copy" \in {"run", "last_sched", "reset", "copy"} /\ NoObject \in Objects \cup {NoObject}
      /\ NoObject # NoObject <=> "copy" = "reset"
  OBVIOUS
<1>4. /\ KernelInv' /\ OnProcessor'
      /\ \A p : Handed(p)' = Handed(p) \ {t} /\ Takers(p)' = Takers(p) \ {t}
      /\ \A p : p # want[t] => Untouched(p)
  BY <1>1, <1>2, <1>3, ReturnKeeps DEF RtInv
<1> QED
  BY <1>1, <1>2, <1>4, ObjectsApart

LEMMA AllocKeeps ==
  ASSUME RtInv, QueueInv, NEW t \in Threads, NEW q \in Queues, NEW for, Alloc(t, q, for),
         Calls(t) \/ Back(t, Senders(q)), UNCHANGED ipcVars
  PROVE  RtInv'
<1>1. /\ mq[q].free # <<>> /\ CopyOf(t, q, Head(mq[q].free), for, ThreadMail)
      /\ mq' = [mq EXCEPT ![q].free = Tail(@), ![q].text[Head(mq[q].free)] = ThreadMail]
  BY DEF Alloc, NoFree
<1>2. /\ KernelInv' /\ OnProcessor'
      /\ list'[Senders(q)] = list[Senders(q)]
      /\ Handed(Senders(q))' = Handed(Senders(q)) \ {t}
      /\ \A p \in Objects : p # Senders(q) => Untouched(p)
  BY <1>1, CopyKeeps
<1>3. /\ mq'[q].free = Tail(mq[q].free) /\ mq'[q].entry = mq[q].entry
      /\ \A c \in Queues \ {q} : mq'[c] = mq[c]
  BY <1>1 DEF QueueInv, QueueTypes
<1>4. Len(mq[q].free) \in Nat \ {0} /\ Len(mq'[q].free) = Len(mq[q].free) - 1
  <2>1. mq[q].free \in Seq(Blocks)
    BY QueueFacts DEF Lists
  <2> QED
    BY <1>1, <1>3, <2>1, EmptySeq, LenProperties, HeadTailProperties
<1>5. QueueWaitOK(q) /\ q \in Objects /\ q # Senders(q)
  BY QueuesApart DEF RtInv, QueueWaitInv
<1>6. list'[q] # <<>> => mq[q].entry <= Cardinality(Handed(q)')
  BY <1>2, <1>5, SameServes DEF QueueWaitOK
<1>7. list'[Senders(q)] # <<>> => Len(mq[q].free) - 1 <= Cardinality(Handed(Senders(q))')
  <2>1. PICK o : o = Senders(q)
    OBVIOUS
  <2>2. Served(o, Len(mq[q].free)) /\ list'[o] = list[o] /\ Handed(o)' = Handed(o) \ {t}
    BY <1>2, <1>5, <2>1 DEF QueueWaitOK, Senders
  <2>3. list'[o] # <<>> => Len(mq[q].free) - 1 <= Cardinality(Handed(o)')
    BY <1>4, <2>2, OneLessServes
  <2> QED
    BY <2>1, <2>3 DEF Senders
<1>8. UNCHANGED <<mutex, holds, count, credit, box, sent>>
  BY <1>1 DEF ipcVars, CopyOf
<1> QED
  BY <1>2, <1>3, <1>4, <1>6, <1>7, <1>8, QueueWaitStep

LEMMA DequeueMqKeeps ==
  ASSUME RtInv, QueueInv, NEW t \in Threads, NEW q \in Queues, Dequeue(t, q),
         Calls(t) \/ Back(t, q), UNCHANGED ipcVars
  PROVE  RtInv'
<1>1. /\ mq[q].entry # 0 /\ CopyOf(t, q, Head(mq[q].queue), "got", Head(posted[q]))
      /\ mq' = [mq EXCEPT ![q].queue = Tail(@), ![q].entry = @ - 1]
  BY DEF Dequeue, NoPost
<1>2. /\ KernelInv' /\ OnProcessor'
      /\ list'[q] = list[q] /\ Handed(q)' = Handed(q) \ {t}
      /\ \A p \in Objects : p # q => Untouched(p)
  BY <1>1, CopyKeeps
<1>3. /\ mq'[q].free = mq[q].free /\ mq'[q].entry = mq[q].entry - 1
      /\ \A c \in Queues \ {q} : mq'[c] = mq[c]
  BY <1>1 DEF QueueInv, QueueTypes
<1>4. mq[q].entry \in Nat \ {0}
  BY <1>1, QueueFacts
<1>5. QueueWaitOK(q) /\ Senders(q) \in Objects /\ q # Senders(q)
  BY QueuesApart DEF RtInv, QueueWaitInv
<1>6. list'[q] # <<>> => mq[q].entry - 1 <= Cardinality(Handed(q)')
  BY <1>2, <1>4, <1>5, OneLessServes DEF QueueWaitOK
<1>7. list'[Senders(q)] # <<>> => Len(mq[q].free) <= Cardinality(Handed(Senders(q))')
  <2>1. PICK o : o = Senders(q)
    OBVIOUS
  <2>2. Served(o, Len(mq[q].free)) /\ Untouched(o)
    BY <1>2, <1>5, <2>1 DEF QueueWaitOK, Senders
  <2>3. list'[o] # <<>> => Len(mq[q].free) <= Cardinality(Handed(o)')
    BY <2>2, SameServes
  <2> QED
    BY <2>1, <2>3 DEF Senders
<1>8. UNCHANGED <<mutex, holds, count, credit, box, sent>>
  BY <1>1 DEF ipcVars, CopyOf
<1> QED
  BY <1>2, <1>3, <1>6, <1>7, <1>8, QueueWaitStep

\* The end of a copy resumes the first thread of o.
LEMMA CopyEndKeeps ==
  ASSUME RtInv, NEW t \in Threads, NEW q \in Queues, Copies(t, q),
         NEW o \in {q, Senders(q)}, WakeOne(o), GoTo(t, LastPoint(o)),
         UNCHANGED <<cur, prio, error, want>>
  PROVE  /\ KernelInv' /\ OnProcessor'
         /\ list[o] = <<>> => UNCHANGED list
         /\ list[o] # <<>> => \E u : u \notin Handed(o) /\ Handed(o)' = Handed(o) \cup {u}
         /\ \A p \in Objects : p # o => Untouched(p)
<1> DEFINE x == LastPoint(o)
<1>1. x \in {"run", "last_sched"} /\ pc' = [pc EXCEPT ![t] = x] /\ o \in Objects
  BY QueuesApart DEF LastPoint, GoTo
<1> HIDE DEF x
<1>2. cur = t /\ pc[t] = "copy"
  BY DEF Copies
<1>3. want[t] = NoObject /\ \A p : t \notin Handed(p)
  BY <1>2, TakesOne DEF RtInv, KernelInv, Places, Place, Taking
<1>4. want' = [want EXCEPT ![t] = NoObject]
  BY <1>3, BoxCallFacts
<1>5. /\ KernelInv' /\ OnProcessor'
      /\ list[o] = <<>> => UNCHANGED list /\ Handed(o)' = Handed(o) \ {t}
      /\ list[o] # <<>> =>
            \E u \in Threads \ (Handed(o) \cup {t}) : Handed(o)' = (Handed(o) \ {t}) \cup {u}
      /\ \A p \in Objects : p # o /\ p # want[t] => Untouched(p)
  BY <1>1, <1>2, <1>4, WakeKeeps DEF RtInv
<1>6. Handed(o) \ {t} = Handed(o)
  BY <1>3
<1> QED
  BY <1>3, <1>5, <1>6, ObjectsApart

LEMMA MqLinkKeeps ==
  ASSUME RtInv, QueueInv, NEW t \in Threads, NEW q \in Queues, MqLink(t, q), UNCHANGED ipcVars
  PROVE  RtInv'
<1> DEFINE new == Linked(mq[q].queue, msg[t].block, msg[t].for = "urge")
<1>1. /\ Copies(t, q) /\ WakeOne(q) /\ GoTo(t, LastPoint(q))
      /\ mq' = [mq EXCEPT ![q].queue = new, ![q].entry = @ + 1]
      /\ UNCHANGED <<cur, prio, error, want, mutex, holds, count, credit, box, sent>>
  BY DEF MqLink, ipcVars, boxVars
<1> HIDE DEF new
<1>2. /\ KernelInv' /\ OnProcessor'
      /\ list[q] = <<>> => UNCHANGED list
      /\ list[q] # <<>> => \E u : u \notin Handed(q) /\ Handed(q)' = Handed(q) \cup {u}
      /\ \A p \in Objects : p # q => Untouched(p)
  BY <1>1, CopyEndKeeps
<1>3. /\ mq'[q].free = mq[q].free /\ mq'[q].entry = mq[q].entry + 1 /\ mq[q].entry \in Nat
      /\ \A c \in Queues \ {q} : mq'[c] = mq[c]
  BY <1>1, QueueFacts DEF QueueInv, QueueTypes
<1>5. QueueWaitOK(q) /\ Senders(q) \in Objects /\ q # Senders(q)
  BY QueuesApart DEF RtInv, QueueWaitInv
<1>6. list'[q] # <<>> => mq[q].entry + 1 <= Cardinality(Handed(q)')
  BY <1>2, <1>3, <1>5, OneMoreServes DEF QueueWaitOK
<1>7. list'[Senders(q)] # <<>> => Len(mq[q].free) <= Cardinality(Handed(Senders(q))')
  <2>1. PICK o : o = Senders(q)
    OBVIOUS
  <2>2. Served(o, Len(mq[q].free)) /\ Untouched(o)
    BY <1>2, <1>5, <2>1 DEF QueueWaitOK, Senders
  <2>3. list'[o] # <<>> => Len(mq[q].free) <= Cardinality(Handed(o)')
    BY <2>2, SameServes
  <2> QED
    BY <2>1, <2>3 DEF Senders
<1> QED
  BY <1>1, <1>2, <1>3, <1>6, <1>7, QueueWaitStep

LEMMA MqFreeKeeps ==
  ASSUME RtInv, QueueInv, NEW t \in Threads, NEW q \in Queues, MqFree(t, q), UNCHANGED ipcVars
  PROVE  RtInv'
<1>0. PICK o \in {q, Senders(q)} : o = Senders(q)
  OBVIOUS
<1> DEFINE new == <<msg[t].block>> \o mq[q].free
<1>1. /\ Copies(t, q) /\ WakeOne(o) /\ GoTo(t, LastPoint(o))
      /\ mq' = [mq EXCEPT ![q].free = new, ![q].text[msg[t].block] = NoMail]
      /\ UNCHANGED <<cur, prio, error, want, mutex, holds, count, credit, box, sent>>
  BY <1>0 DEF MqFree, ipcVars, boxVars
<1>4. Len(new) = Len(mq[q].free) + 1 /\ Len(mq[q].free) \in Nat
  <2>1. mq[q].free \in Seq(Blocks) /\ msg[t].block \in Blocks
    BY <1>1, QueueFacts DEF Lists, Copies, QueueInv, MsgInv, MsgOK
  <2>2. <<msg[t].block>> \in Seq(Blocks) /\ Len(<<msg[t].block>>) = 1
    BY <2>1
  <2> QED
    BY <2>1, <2>2, ConcatProperties, LenProperties
<1> HIDE DEF new
<1>2. /\ KernelInv' /\ OnProcessor'
      /\ list[o] = <<>> => UNCHANGED list
      /\ list[o] # <<>> => \E u : u \notin Handed(o) /\ Handed(o)' = Handed(o) \cup {u}
      /\ \A p \in Objects : p # o => Untouched(p)
  BY <1>1, CopyEndKeeps
<1>3. /\ mq'[q].free = new /\ mq'[q].entry = mq[q].entry
      /\ \A c \in Queues \ {q} : mq'[c] = mq[c]
  BY <1>1 DEF QueueInv, QueueTypes
<1>5. QueueWaitOK(q) /\ q \in Objects /\ q # o
  BY <1>0, QueuesApart DEF RtInv, QueueWaitInv
<1>6. list'[q] # <<>> => mq[q].entry <= Cardinality(Handed(q)')
  BY <1>2, <1>5, SameServes DEF QueueWaitOK
<1>7. list'[Senders(q)] # <<>> => Len(mq[q].free) + 1 <= Cardinality(Handed(Senders(q))')
  <2>1. Served(o, Len(mq[q].free))
    BY <1>0, <1>5 DEF QueueWaitOK, Senders
  <2>2. list'[o] # <<>> => Len(mq[q].free) + 1 <= Cardinality(Handed(o)')
    BY <1>2, <1>4, <2>1, OneMoreServes
  <2> QED
    BY <1>0, <2>2 DEF Senders
<1>8. \A p \in Objects : p \notin {q, Senders(q)} => Untouched(p)
  BY <1>0, <1>2
<1> QED
  BY <1>1, <1>2, <1>3, <1>4, <1>6, <1>7, <1>8, QueueWaitStep

LEMMA MqSendIsrKeeps ==
  ASSUME RtInv, QueueInv, NEW q \in Queues, MqSendIsr(q), UNCHANGED ipcVars
  PROVE  RtInv'
<1>1. /\ mq[q].free # <<>> /\ WakeOne(q) /\ UNCHANGED <<prio, error, pc, want>>
      /\ cur' = IF list[q] = <<>> THEN cur ELSE Elected(ready')
      /\ mq' = [mq EXCEPT ![q].free = Tail(@), ![q].text[Head(mq[q].free)] = IsrMail,
                          ![q].queue = Append(@, Head(mq[q].free)), ![q].entry = @ + 1]
      /\ UNCHANGED <<mutex, holds, count, credit, box, sent>>
  BY DEF MqSendIsr, NoFree, ipcVars, boxVars
<1>5. QueueWaitOK(q) /\ q \in Objects /\ Senders(q) \in Objects /\ q # Senders(q)
  BY QueuesApart DEF RtInv, QueueWaitInv
<1>2. /\ KernelInv' /\ OnProcessor'
      /\ list[q] = <<>> => UNCHANGED list
      /\ list[q] # <<>> => \E u : u \notin Handed(q) /\ Handed(q)' = Handed(q) \cup {u}
      /\ \A p \in Objects : p # q => Untouched(p)
  BY <1>1, <1>5, WakeIsrKeeps DEF RtInv
<1>3. /\ mq'[q].free = Tail(mq[q].free) /\ mq'[q].entry = mq[q].entry + 1 /\ mq[q].entry \in Nat
      /\ \A c \in Queues \ {q} : mq'[c] = mq[c]
  BY <1>1, QueueFacts DEF QueueInv, QueueTypes
<1>4. Len(mq[q].free) \in Nat /\ Len(mq'[q].free) = Len(mq[q].free) - 1
  <2>1. mq[q].free \in Seq(Blocks)
    BY QueueFacts DEF Lists
  <2> QED
    BY <1>1, <1>3, <2>1, LenProperties, HeadTailProperties
<1>6. list'[q] # <<>> => mq[q].entry + 1 <= Cardinality(Handed(q)')
  BY <1>2, <1>3, <1>5, OneMoreServes DEF QueueWaitOK
<1>7. list'[Senders(q)] # <<>> => Len(mq[q].free) - 1 <= Cardinality(Handed(Senders(q))')
  <2>1. PICK o : o = Senders(q)
    OBVIOUS
  <2>2. Served(o, Len(mq[q].free)) /\ Untouched(o)
    BY <1>2, <1>5, <2>1 DEF QueueWaitOK, Senders
  <2>3. list'[o] # <<>> => Len(mq[q].free) <= Cardinality(Handed(o)')
    BY <2>2, SameServes
  <2>4. Cardinality(Handed(o)') \in Nat
    <3>1. Handed(o)' \subseteq Threads
      BY DEF Handed
    <3> QED
      BY <3>1, KernelAssumption, FS_Subset, FS_CardinalityType
  <2>5. list'[o] # <<>> => Len(mq[q].free) - 1 <= Cardinality(Handed(o)')
    BY <1>4, <2>3, <2>4
  <2> QED
    BY <2>1, <2>5 DEF Senders
<1> QED
  BY <1>1, <1>2, <1>3, <1>4, <1>6, <1>7, QueueWaitStep

\* A thread begins to wait for o, or gives up, while there is nothing to wait
\* for in the queue.
LEMMA NoneThereKeeps ==
  ASSUME RtInv, NEW q \in Queues, NEW o,
         (o = q /\ NoPost(q)) \/ (o = Senders(q) /\ NoFree(q)),
         \A p \in Objects : p # o => Untouched(p),
         UNCHANGED <<box, sent, mq>>, UNCHANGED ipcVars, KernelInv', OnProcessor'
  PROVE  RtInv'
<1>1. /\ QueueWaitOK(q) /\ q \in Objects /\ Senders(q) \in Objects /\ q # Senders(q)
      /\ Senders(q) = o \/ q = o
  BY QueuesApart DEF RtInv, QueueWaitInv
<1>2. list'[q] # <<>> => mq[q].entry <= Cardinality(Handed(q)')
  <2>1. CASE o = q /\ NoPost(q)
    <3>1. mq[q].entry = 0
      BY <2>1 DEF NoPost
    <3> QED
      BY <3>1, NoneServes
  <2>2. CASE o = Senders(q) /\ NoFree(q)
    <3>1. Untouched(q) /\ Served(q, mq[q].entry)
      BY <1>1, <2>2 DEF QueueWaitOK
    <3> QED
      BY <3>1, SameServes
  <2> QED
    BY <2>1, <2>2
<1>3. PICK p : p = Senders(q)
  OBVIOUS
<1>4. list'[p] # <<>> => Len(mq[q].free) <= Cardinality(Handed(p)')
  <2>1. CASE o = q /\ NoPost(q)
    <3>1. Untouched(p) /\ Served(p, Len(mq[q].free))
      BY <1>1, <1>3, <2>1 DEF QueueWaitOK, Senders
    <3> QED
      BY <3>1, SameServes
  <2>2. CASE o = Senders(q) /\ NoFree(q)
    <3>1. Len(mq[q].free) = 0
      BY <2>2 DEF NoFree
    <3> QED
      BY <3>1, NoneServes
  <2> QED
    BY <2>1, <2>2
<1>5. list'[Senders(q)] # <<>> => Len(mq[q].free) <= Cardinality(Handed(Senders(q))')
  BY <1>3, <1>4 DEF Senders
<1>6. /\ \A p_1 \in Objects : p_1 \notin {q, Senders(q)} => Untouched(p_1)
      /\ UNCHANGED <<mutex, holds, count, credit, box, sent>>
  BY <1>1 DEF ipcVars
<1> QED
  BY <1>2, <1>5, <1>6, QueueWaitStep

LEMMA MqWaitsKeeps ==
  ASSUME RtInv, NEW t \in Threads, NEW q \in Queues, NEW o \in {q, Senders(q)},
         NEW time \in BOOLEAN, WaitOn(t, o, time), cur = t,
         pc[t] = "run" \/ (pc[t] = "take_check" /\ want[t] = o),
         (o = q /\ NoPost(q)) \/ (o = Senders(q) /\ NoFree(q)), UNCHANGED ipcVars, UNCHANGED mq
  PROVE  RtInv'
<1>1. o \in Objects
  BY BoxCallFacts
<1>2. SuspendOn(t, o, time, ready, prio) /\ UNCHANGED <<cur, box, sent>>
  BY DEF WaitOn
<1>3. prio \in PrioMaps /\ prio[Idle] = Lowest /\ TableOK(ready, stat, prio)
  BY BoxCallFacts
<1>4. KernelInv' /\ OnProcessor' /\ \A p \in Objects : p # o => Untouched(p)
  BY <1>1, <1>2, <1>3, WaitKeeps DEF RtInv
<1> QED
  BY <1>2, <1>4, NoneThereKeeps

LEMMA MqWaitKeeps ==
  ASSUME RtInv, NEW t \in Threads, NEW q \in Queues,
         \/ \E time \in BOOLEAN : MqSendWait(t, q, time) \/ MqRecvWait(t, q, time)
         \/ MqWaitAgain(t, q),
         UNCHANGED ipcVars
  PROVE  RtInv'
<1>1. ASSUME NEW time \in BOOLEAN, MqSendWait(t, q, time) PROVE RtInv'
  BY <1>1, MqWaitsKeeps DEF MqSendWait, Calls, queueVars
<1>2. ASSUME NEW time \in BOOLEAN, MqRecvWait(t, q, time) PROVE RtInv'
  BY <1>2, MqWaitsKeeps DEF MqRecvWait, Calls, queueVars
<1>3. CASE MqWaitAgain(t, q)
  <2>1. PICK time \in BOOLEAN : time <=> t \in timed
    OBVIOUS
  <2>2. PICK o \in {q, Senders(q)} : /\ o = want[t]
                                     /\ (o = q /\ NoPost(q)) \/ (o = Senders(q) /\ NoFree(q))
    BY <1>3 DEF MqWaitAgain, MqMissed, Back
  <2>3. /\ cur = t /\ pc[t] = "take_check" /\ WaitOn(t, want[t], t \in timed)
        /\ UNCHANGED mq
    BY <1>3 DEF MqWaitAgain, MqMissed, Back, queueVars
  <2>4. WaitOn(t, o, time)
    BY <2>1, <2>2, <2>3 DEF WaitOn, SuspendOn, GoTo
  <2> QED
    BY <2>2, <2>3, <2>4, MqWaitsKeeps
<1> QED
  BY <1>1, <1>2, <1>3

LEMMA MqLateKeeps ==
  ASSUME RtInv, NEW t \in Threads, NEW q \in Queues, MqLate(t, q), UNCHANGED ipcVars
  PROVE  RtInv'
<1>1. PICK o \in {q, Senders(q)} : /\ o = want[t]
                                   /\ (o = q /\ NoPost(q)) \/ (o = Senders(q) /\ NoFree(q))
  BY DEF MqLate, MqMissed, Back
<1>2. PICK e : e = IF want[t] = q THEN "timeout" ELSE "ok"
  OBVIOUS
<1>3. /\ cur = t /\ pc[t] = "take_check"
      /\ error' = [error EXCEPT ![t] = e] /\ e \in Errors
      /\ pc' = [pc EXCEPT ![t] = "run"] /\ want' = [want EXCEPT ![t] = NoObject]
      /\ UNCHANGED <<ready, cur, stat, prio, timer, list, box, sent, mq>>
  BY <1>2 DEF MqLate, MqMissed, GivesUp, Back, Leave, GoTo, Errors, queueVars
<1>4. /\ "run" \in {"run", "last_sched", "reset", "copy"} /\ NoObject \in Objects \cup {NoObject}
      /\ NoObject # NoObject <=> "run" = "reset"
  OBVIOUS
<1>5. KernelInv' /\ OnProcessor' /\ \A p : p # o => Untouched(p)
  BY <1>1, <1>3, <1>4, ReturnKeeps DEF RtInv
<1> QED
  BY <1>1, <1>3, <1>5, NoneThereKeeps

LEMMA MqResetEndKeeps ==
  ASSUME RtInv, QueueInv, NEW t \in Threads, NEW q \in Queues, MqResetEnd(t, q),
         UNCHANGED ipcVars
  PROVE  RtInv'
<1>1. ResetEnd(t, q) /\ list[Senders(q)] = <<>>
  BY DEF MqResetEnd
<1>2. /\ KernelInv' /\ OnProcessor' /\ UNCHANGED list /\ list[q] = <<>>
      /\ \A p \in Objects : Untouched(p)
  BY <1>1, BoxCallFacts, ResetEndKeeps
<1>6. \A c \in Queues \ {q} : mq'[c] = mq[c]
  BY DEF MqResetEnd, QueueInv, QueueTypes
<1>7. /\ UNCHANGED <<mutex, holds, count, credit, box, sent>>
      /\ list'[q] = <<>> /\ list'[Senders(q)] = <<>>
  BY <1>1, <1>2 DEF MqResetEnd, ipcVars, boxVars
<1> QED
  BY <1>2, <1>6, <1>7, QueueWaitStep

LEMMA QueueStepKeeps ==
  ASSUME RtInv, QueueInv, NEW t \in Threads, NEW q \in Queues,
         QueueCall(t, q) \/ QueueReturn(t, q), UNCHANGED ipcVars
  PROVE  RtInv'
<1>1. CASE (\E for \in {"put", "urge"} : MqAlloc(t, q, for)) \/ MqSendWoken(t, q)
  BY <1>1, AllocKeeps DEF MqAlloc, MqSendWoken
<1>2. CASE MqRecv(t, q) \/ MqRecvWoken(t, q)
  BY <1>2, DequeueMqKeeps DEF MqRecv, MqRecvWoken
<1>3. CASE \/ \E time \in BOOLEAN : MqSendWait(t, q, time) \/ MqRecvWait(t, q, time)
           \/ MqWaitAgain(t, q)
  BY <1>3, MqWaitKeeps
<1>4. CASE ResetBegin(t, q) /\ UNCHANGED <<boxVars, queueVars>>
  BY <1>4, ResetBeginKeeps, BoxCallFacts DEF Others, ipcVars, boxVars, queueVars
<1>5. CASE WaitFails(t, q) /\ UNCHANGED queueVars
  BY <1>5, WaitFailsKeeps DEF queueVars
<1>6. CASE ResetOne(t, q) /\ UNCHANGED queueVars
  BY <1>6, ResetOneKeeps DEF queueVars
<1>7. CASE MqLate(t, q)
  BY <1>7, MqLateKeeps
<1>8. CASE MqLink(t, q) \/ MqFree(t, q)
  BY <1>8, MqLinkKeeps, MqFreeKeeps
<1>9. CASE MqResetEnd(t, q)
  BY <1>9, MqResetEndKeeps
<1> QED
  BY <1>1, <1>2, <1>3, <1>4, <1>5, <1>6, <1>7, <1>8, <1>9 DEF QueueCall, QueueReturn

LEMMA SleepReturnKeeps ==
  ASSUME RtInv, NEW t \in Threads, SleepReturn(t), UNCHANGED <<ipcVars, boxVars, mq>>
  PROVE  RtInv'
<1>1. PICK e : e = IF error[t] = "timeout" THEN "ok" ELSE error[t]
  OBVIOUS
<1>2. t \in All /\ error[t] \in Errors /\ pc \in [All -> Points]
      /\ error \in [All -> Errors] /\ want \in [All -> Objects \cup {NoObject}]
  BY ThreadsAreAll DEF RtInv, KernelInv, KernelTypes
<1>3. cur = t /\ pc[t] = "sleep_check"
  BY DEF SleepReturn
<1>4. want[t] = NoObject
  BY <1>3 DEF RtInv, KernelInv, Places, Place, Taking
<1>5. /\ pc' = [pc EXCEPT ![t] = "run"] /\ want' = [want EXCEPT ![t] = NoObject]
      /\ error' = [error EXCEPT ![t] = e] /\ e \in Errors
      /\ UNCHANGED <<ready, cur, stat, prio, timer, list>>
  BY <1>1, <1>2, <1>4 DEF SleepReturn, GoTo, Errors
<1>6. /\ "run" \in {"run", "last_sched", "reset", "copy"} /\ NoObject \in Objects \cup {NoObject}
      /\ NoObject # NoObject <=> "run" = "reset"
  OBVIOUS
<1>7. KernelInv' /\ OnProcessor' /\ \A q : q # NoObject => Untouched(q)
  BY <1>3, <1>4, <1>5, <1>6, ReturnKeeps DEF RtInv
<1> QED
  BY <1>7, NothingElse, ObjectsApart DEF ipcVars, boxVars

-----------------------------------------------------------------------------
(* The events, and what their steps keep of the rest *)

EventTypes ==
    /\ events \in [Events -> SUBSET Bits] /\ info \in [Threads -> Info]
    /\ sending \in [event : Events \cup {NoObject}, isr : BOOLEAN, woke : BOOLEAN]

\* Nobody in the list of e has what it asked for.
NobodyMeets(e) == \A t \in ToSet(list[e]) : ~Meets(events[e], info[t])

\* A thread that sends is in its call; when no send is going through the list
\* of an object, nobody in it has what it asked for.
EventInv ==
    /\ EventTypes
    /\ sending.event \in Events /\ ~sending.isr => cur \in Threads /\ pc[cur] = "run"
    /\ \A e \in Events : sending.event # e => NobodyMeets(e)

LEMMA HitsMeet ==
  ASSUME NEW e
  PROVE  Hits(e) = {} <=> NobodyMeets(e)
BY DEF Hits, NobodyMeets, ToSet

\* The thread that is resumed next
LEMMA FirstHit ==
  ASSUME RtInv, NEW e \in Events, Hits(e) # {}, NEW u, u = list[e][Min(Hits(e))]
  PROVE  /\ u \in Threads /\ stat[u] = "suspend" /\ want[u] = e /\ error[u] = "ok"
         /\ e \in Objects /\ e # NoObject
<1>1. e \in Objects /\ e # NoObject /\ list[e] \in Lists(Threads)
  BY EventsApart, ObjectsApart DEF RtInv, KernelInv, Tables, WaitOK
<1>2. Hits(e) \subseteq 1 .. Len(list[e])
  BY <1>1, ListType DEF Hits
<1>3. Hits(e) \subseteq Nat
  BY <1>2
<1>4. Min(Hits(e)) \in 1 .. Len(list[e])
  BY <1>2, <1>3, LeastOf
<1>5. u \in Threads /\ u \in ToSet(list[e])
  BY <1>1, <1>4, ListType
<1>6. stat[u] = "suspend" /\ want[u] = e
  BY <1>1, <1>5 DEF RtInv, KernelInv, Tables, WaitOK
<1>7. error[u] = "ok"
  BY <1>1, <1>5, <1>6 DEF RtInv, KernelInv, Places, Place
<1> QED
  BY <1>1, <1>5, <1>6, <1>7

LEMMA SameKeeps ==
  ASSUME RtInv, UNCHANGED kernelVars, UNCHANGED Others
  PROVE  RtInv'
<1>1. UNCHANGED <<ready, cur, stat, prio, error, timer, list, flag, pc, want>>
  BY DEF kernelVars
<1>2. KernelInv' /\ OnProcessor'
  BY <1>1 DEF RtInv, KernelInv, OnProcessor, KernelTypes, Tables, TableOK, WaitOK, IdleInv,
              Places, Place
<1>3. \A o \in Objects : Untouched(o)
  BY <1>1 DEF Untouched, Handed, Takers, Takes
<1> QED
  BY <1>2, <1>3, NothingElse DEF Others

LEMMA EvResumeKeeps ==
  ASSUME RtInv, NEW e \in Events, EvResume(e), UNCHANGED Others
  PROVE  RtInv'
<1>1. PICK u : u = list[e][Min(Hits(e))]
  OBVIOUS
<1>2. Hits(e) # {} /\ Resume(u) /\ UNCHANGED <<cur, prio, error, pc, want>>
  BY <1>1 DEF EvResume
<1>3. /\ u \in Threads /\ stat[u] = "suspend" /\ want[u] = e /\ error[u] = "ok"
      /\ e \in Objects
  BY <1>1, <1>2, FirstHit
<1>4. error' = [error EXCEPT ![u] = "ok"] /\ "ok" \in Errors
  BY <1>2, <1>3, KernelFacts DEF Errors
<1>5. /\ KernelInv'
      /\ \A q : Takers(q)' = Takers(q) /\ (e # q => Handed(q)' = Handed(q))
  BY <1>2, <1>3, <1>4, ResumedKeeps DEF RtInv
<1>6. OnProcessor'
  BY <1>2, <1>3, KernelFacts DEF Resume, RtInv, OnProcessor, KernelInv, KernelTypes, Stats
<1>7. \A q \in Objects : list[q] = <<>> => list'[q] = <<>>
  BY <1>2, EmptyList DEF Resume, Unlinked
<1>8. \A q \in Objects \ Events : Untouched(q)
  BY <1>5, <1>7 DEF Untouched
<1> QED
  BY <1>5, <1>6, <1>8, NothingElse DEF Others

LEMMA EvSendEndKeeps ==
  ASSUME RtInv, EventInv, NEW e \in Events, EvSendEnd(e), UNCHANGED Others
  PROVE  RtInv'
<1>1. sending.event = e /\ UNCHANGED <<ready, stat, prio, error, timer, list, want>>
  BY DEF EvSendEnd
<1>2. CASE sending.isr
  <2>1. UNCHANGED pc /\ (cur' = cur \/ cur' = Elected(ready'))
    BY <1>1, <1>2 DEF EvSendEnd
  <2>2. KernelInv'
    BY <1>1, <2>1 DEF RtInv, KernelInv, KernelTypes, Tables, TableOK, WaitOK, IdleInv,
                      Places, Place
  <2>3. OnProcessor'
    <3>1. CASE cur' = cur
      BY <1>1, <2>1, <3>1 DEF RtInv, OnProcessor
    <3>2. CASE cur' = Elected(ready')
      BY <2>2, <3>2, ElectedRuns
    <3> QED
      BY <2>1, <3>1, <3>2
  <2>4. \A o \in Objects : Untouched(o)
    BY <1>1, <2>1 DEF Untouched, Handed, Takers, Takes
  <2> QED
    BY <2>2, <2>3, <2>4, NothingElse DEF Others
<1>3. CASE ~sending.isr
  <2>1. PICK t \in Threads : t = cur /\ pc[t] = "run"
    BY <1>1, <1>3 DEF EventInv
  <2>2. PICK x \in {"run", "last_sched"} : pc' = [pc EXCEPT ![t] = x]
    BY <1>3, <2>1 DEF EvSendEnd, GoTo
  <2>3. want[t] = NoObject /\ t \in All /\ NoObject \in Objects \cup {NoObject}
    BY <2>1, KernelFacts DEF RtInv, KernelInv, Places, Place, Taking
  <2>4. /\ want' = [want EXCEPT ![t] = NoObject] /\ UNCHANGED cur
        /\ error' = [error EXCEPT ![t] = error[t]] /\ error[t] \in Errors
    BY <1>1, <1>3, <2>1, <2>3, KernelFacts DEF EvSendEnd
  <2>5. /\ x \in {"run", "last_sched", "reset", "copy"}
        /\ NoObject # NoObject <=> x = "reset"
    BY <2>2
  <2>6. pc[t] \notin {"take_sched", "sleep_sched"} /\ cur = t
    BY <2>1
  <2>7. KernelInv' /\ OnProcessor' /\ \A q : q # NoObject => Untouched(q)
    BY <1>1, <2>2, <2>3, <2>4, <2>5, <2>6, ReturnKeeps DEF RtInv
  <2> QED
    BY <2>7, NothingElse, ObjectsApart DEF Others
<1> QED
  BY <1>2, <1>3

LEMMA EventCallKeeps ==
  ASSUME RtInv, NEW t \in Threads, NEW e \in Events, EventCall(t, e), UNCHANGED Others
  PROVE  RtInv'
<1>0. e \in Objects
  BY EventsApart
<1>1. ASSUME NEW new, EvSend(t, e, new) PROVE RtInv'
  BY <1>1, SameKeeps DEF EvSend, Sends
<1>2. ASSUME NEW a, EvRecv(t, e, a) \/ EvRecvBusy(t, e, a) PROVE RtInv'
  <2>1. PICK x \in {"ok", "timeout"} : error' = [error EXCEPT ![t] = x]
    BY <1>2 DEF EvRecv, EvRecvBusy
  <2>2. Calls(t) /\ UNCHANGED <<ready, cur, stat, prio, timer, list, pc, want>>
    BY <1>2 DEF EvRecv, EvRecvBusy
  <2>3. KernelInv' /\ OnProcessor' /\ \A o : Untouched(o)
    BY <2>1, <2>2, CallKeeps DEF RtInv, Errors
  <2> QED
    BY <2>3, NothingElse DEF Others
<1>3. ASSUME NEW a, NEW time \in BOOLEAN, EvRecvWait(t, e, a, time) PROVE RtInv'
  <2>1. Calls(t) /\ SuspendOn(t, e, time, ready, prio) /\ UNCHANGED cur
    BY <1>3 DEF EvRecvWait
  <2>2. KernelInv' /\ OnProcessor' /\ \A q \in Objects : q # e => Untouched(q)
    BY <1>0, <2>1, KernelFacts, CallFacts, WaitKeeps DEF RtInv
  <2> QED
    BY <2>2, NothingElse DEF Others
<1>4. CASE EvReturn(t, e)
  <2>1. /\ cur = t /\ pc[t] = "take_check" /\ want[t] = e
        /\ pc' = [pc EXCEPT ![t] = "run"] /\ want' = [want EXCEPT ![t] = NoObject]
        /\ error' = [error EXCEPT ![t] = error[t]] /\ error[t] \in Errors
        /\ UNCHANGED <<ready, cur, stat, prio, timer, list>>
    BY <1>4, KernelFacts DEF EvReturn, Back, GoTo
  <2>2. /\ "run" \in {"run", "last_sched", "reset", "copy"}
        /\ NoObject \in Objects \cup {NoObject}
        /\ NoObject # NoObject <=> "run" = "reset"
    OBVIOUS
  <2>3. KernelInv' /\ OnProcessor' /\ \A q : q # e => Untouched(q)
    BY <2>1, <2>2, ReturnKeeps DEF RtInv
  <2> QED
    BY <2>3, NothingElse DEF Others
<1>5. CASE ResetBegin(t, e) \/ ResetNext(t, e, e)
  BY <1>0, <1>5, ResetBeginKeeps, ResetNextKeeps
<1>6. CASE EvResetEnd(t, e)
  BY <1>0, <1>6, ResetEndKeeps, NothingElse DEF EvResetEnd, Others
<1> QED
  BY <1>1, <1>2, <1>3, <1>4, <1>5, <1>6 DEF EventCall

-----------------------------------------------------------------------------
(* Every step *)

LEMMA ThreadStepKeeps ==
  ASSUME RtInv, QueueInv, NEW t \in Threads, ThreadStep(t)
  PROVE  RtInv'
<1>1. CASE (KernelCall(t) \/ Sleep(t)) /\ UNCHANGED <<ipcVars, boxVars, mq>>
  <2>1. CASE SleepReturn(t)
    BY <1>1, <2>1, SleepReturnKeeps
  <2>2. CASE Schedule(t) \/ Sleep(t) \/ Yield(t)
    <3>1. KernelInv' /\ OnProcessor' /\ \A o \in Objects : Untouched(o)
      BY <2>2, KernelStepKeeps DEF RtInv
    <3> QED
      BY <1>1, <3>1, NothingElse DEF ipcVars, boxVars
  <2> QED
    BY <1>1, <2>1, <2>2 DEF KernelCall
<1>2. ASSUME NEW m \in Mutexes, MutexCall(t, m), UNCHANGED boxVars, UNCHANGED mq PROVE RtInv'
  <2>1. CASE TakeOwn(t, m)
    BY <1>2, <2>1, TakeOwnKeeps
  <2>2. CASE TakeFree(t, m)
    BY <1>2, <2>2, TakeFreeKeeps
  <2>3. CASE TakeBusy(t, m) \/ ReleaseForeign(t, m)
    BY <1>2, <2>3, FailKeeps
  <2>4. CASE \E time \in BOOLEAN : TakeWait(t, m, time)
    BY <1>2, <2>4, TakeWaitKeeps
  <2>5. CASE ReleaseNested(t, m)
    BY <1>2, <2>5, ReleaseNestedKeeps
  <2>6. CASE ReleaseFree(t, m)
    BY <1>2, <2>6, ReleaseFreeKeeps
  <2>7. CASE ReleaseHandOver(t, m)
    BY <1>2, <2>7, ReleaseHandOverKeeps
  <2> QED
    BY <1>2, <2>1, <2>2, <2>3, <2>4, <2>5, <2>6, <2>7 DEF MutexCall
<1>3. ASSUME NEW s \in Sems, SemCall(t, s), UNCHANGED boxVars, UNCHANGED mq PROVE RtInv'
  <2>1. CASE SemTakeFree(t, s)
    BY <1>3, <2>1, SemTakeFreeKeeps
  <2>2. CASE SemRelease(t, s)
    BY <1>3, <2>2, SemReleaseKeeps
  <2>3. CASE \E time \in BOOLEAN : SemTakeWait(t, s, time)
    BY <1>3, <2>3, SemTakeWaitKeeps
  <2>4. CASE (ResetBegin(t, s) \/ ResetNext(t, s, s)) /\ UNCHANGED ipcVars
    BY <1>3, <2>4, ResetBeginKeeps, ResetNextKeeps, ObjectsApart DEF Others, ipcVars, boxVars
  <2>5. CASE \E value \in 0 .. MaxCount : SemResetEnd(t, s, value)
    BY <1>3, <2>5, SemResetEndKeeps
  <2> QED
    BY <1>3, <2>1, <2>2, <2>3, <2>4, <2>5 DEF SemCall
<1>4. CASE TakeReturn(t) /\ UNCHANGED boxVars /\ UNCHANGED mq
  BY <1>4, TakeReturnKeeps
<1>5. ASSUME NEW b \in Boxes, BoxCall(t, b), UNCHANGED ipcVars, UNCHANGED mq PROVE RtInv'
  <2>1. CASE MbSend(t, b) \/ MbRecv(t, b)
    BY <1>5, <2>1, MbMovesKeeps
  <2>2. CASE \E time \in BOOLEAN : MbSendWait(t, b, time) \/ MbRecvWait(t, b, time)
    BY <1>5, <2>2, MbWaitKeeps
  <2>3. CASE ResetBegin(t, b) /\ UNCHANGED boxVars
    BY <1>5, <2>3, ResetBeginKeeps, BoxCallFacts DEF Others, ipcVars, boxVars
  <2> QED
    BY <1>5, <2>1, <2>2, <2>3 DEF BoxCall
<1>6. ASSUME NEW b \in Boxes, BoxReturn(t, b), UNCHANGED ipcVars, UNCHANGED mq PROVE RtInv'
  <2>1. CASE WaitFails(t, b)
    BY <1>6, <2>1, WaitFailsKeeps
  <2>2. CASE MbSendWoken(t, b) \/ MbRecvWoken(t, b)
    BY <1>6, <2>2, MbMovesKeeps
  <2>3. CASE MbWaitAgain(t, b)
    BY <1>6, <2>3, MbWaitKeeps
  <2>4. CASE MbLate(t, b)
    BY <1>6, <2>4, MbLateKeeps
  <2>5. CASE ResetOne(t, b)
    BY <1>6, <2>5, ResetOneKeeps
  <2>6. CASE MbResetEnd(t, b)
    BY <1>6, <2>6, MbResetEndKeeps
  <2> QED
    BY <1>6, <2>1, <2>2, <2>3, <2>4, <2>5, <2>6 DEF BoxReturn
<1>7. ASSUME NEW q \in Queues, QueueCall(t, q) \/ QueueReturn(t, q), UNCHANGED ipcVars
      PROVE  RtInv'
  BY <1>7, QueueStepKeeps
<1>8. ASSUME NEW e \in Events, EventCall(t, e), UNCHANGED <<ipcVars, boxVars, queueVars>>
      PROVE  RtInv'
  BY <1>8, EventCallKeeps DEF Others, ipcVars, boxVars, queueVars
<1> QED
  BY <1>1, <1>2, <1>3, <1>4, <1>5, <1>6, <1>7, <1>8 DEF ThreadStep, queueVars

LEMMA InterruptKeeps ==
  ASSUME RtInv, QueueInv, Interrupt PROVE RtInv'
<1>1. CASE Tick /\ UNCHANGED <<ipcVars, boxVars, mq>>
  <2>1. KernelInv' /\ OnProcessor' /\ \A o \in Objects : Untouched(o)
    BY <1>1, KernelStepKeeps DEF RtInv
  <2> QED
    BY <1>1, <2>1, NothingElse DEF ipcVars, boxVars
<1>2. ASSUME NEW s \in Sems, SemReleaseIsr(s), UNCHANGED boxVars, UNCHANGED mq PROVE RtInv'
  BY <1>2, SemReleaseIsrKeeps
<1>3. ASSUME NEW b \in Boxes, MbSendIsr(b), UNCHANGED ipcVars, UNCHANGED mq PROVE RtInv'
  BY <1>3, MbSendIsrKeeps
<1>4. ASSUME NEW q \in Queues, MqSendIsr(q), UNCHANGED ipcVars PROVE RtInv'
  BY <1>4, MqSendIsrKeeps
<1>5. ASSUME NEW e \in Events, NEW new, EvSendIsr(e, new),
             UNCHANGED <<ipcVars, boxVars, queueVars>>
      PROVE  RtInv'
  BY <1>5, SameKeeps DEF EvSendIsr, Sends, Others, ipcVars, boxVars, queueVars
<1> QED
  BY <1>1, <1>2, <1>3, <1>4, <1>5 DEF Interrupt, queueVars

LEMMA SendStepKeeps ==
  ASSUME RtInv, EventInv, SendStep, UNCHANGED <<ipcVars, boxVars, queueVars>>
  PROVE  RtInv'
BY EvResumeKeeps, EvSendEndKeeps DEF SendStep, Others, ipcVars, boxVars, queueVars

LEMMA StutterKeeps ==
  ASSUME RtInv, UNCHANGED vars PROVE RtInv'
BY SameKeeps DEF vars, Others, ipcVars, boxVars, queueVars

-----------------------------------------------------------------------------
(* The blocks of the message queues *)

MsgOf == [queue : Queues, block : Blocks, for : {"put", "urge", "got"}, text : Mails]

\* Who copies a message goes on with it.
CopiersStay == \A u \in Threads : pc'[u] = "copy" <=> pc[u] = "copy"

LEMMA GoesElsewhere ==
  ASSUME RtInv, NEW t \in Threads, pc[t] # "copy", NEW x, x # "copy", GoTo(t, x)
  PROVE  CopiersStay
<1>1. pc \in [All -> Points] /\ t \in All /\ \A u \in Threads : u \in All
  BY ThreadsAreAll DEF RtInv, KernelInv, KernelTypes
<1> QED
  BY <1>1 DEF GoTo, CopiersStay

LEMMA Stays == ASSUME UNCHANGED pc PROVE CopiersStay
BY DEF CopiersStay

LEMMA QueuesStay ==
  ASSUME QueueInv, CopiersStay, UNCHANGED <<mq, msg, posted>>
  PROVE  QueueInv'
<1>1. MsgInv'
  BY DEF QueueInv, MsgInv, MsgOK, CopiersStay
<1>2. \A q \in Queues : BlockOK(q)'
  BY DEF QueueInv, BlockOK, BlocksInOnePlace, TextsKept, Copying, InHand
<1> QED
  BY <1>1, <1>2 DEF QueueInv, QueueTypes

LEMMA ResetStays ==
  ASSUME RtInv, NEW t \in Threads, NEW b, NEW o,
         ResetBegin(t, b) \/ ResetNext(t, b, o) \/ ResetEnd(t, b)
  PROVE  CopiersStay
<1>1. CASE ResetBegin(t, b)
  BY <1>1, GoesElsewhere DEF ResetBegin, Calls
<1>2. CASE ResetNext(t, b, o)
  BY <1>2, Stays DEF ResetNext
<1>3. CASE ResetEnd(t, b)
  BY <1>3, GoesElsewhere DEF ResetEnd, Resets
<1> QED
  BY <1>1, <1>2, <1>3

LEMMA KernelStays ==
  ASSUME RtInv, NEW t \in Threads, KernelCall(t) \/ Sleep(t) PROVE CopiersStay
<1>1. CASE Schedule(t)
  <2>1. /\ pc[t] # "copy" /\ AfterSchedule[pc[t]] # "copy"
        /\ GoTo(t, AfterSchedule[pc[t]])
    BY <1>1 DEF Schedule, SchedPoints, AfterSchedule
  <2> QED
    BY <2>1, GoesElsewhere
<1>2. CASE Sleep(t)
  BY <1>2, GoesElsewhere DEF Sleep, Calls
<1>3. CASE SleepReturn(t)
  BY <1>3, GoesElsewhere DEF SleepReturn
<1>4. CASE Yield(t)
  BY <1>4, GoesElsewhere DEF Yield, Calls
<1> QED
  BY <1>1, <1>2, <1>3, <1>4 DEF KernelCall

LEMMA MutexStays ==
  ASSUME RtInv, NEW t \in Threads, NEW m \in Mutexes, MutexCall(t, m) PROVE CopiersStay
<1>1. CASE TakeOwn(t, m) \/ TakeFree(t, m)
  BY <1>1, Stays DEF TakeOwn, TakeFree
<1>2. CASE TakeBusy(t, m) \/ ReleaseForeign(t, m) \/ ReleaseFree(t, m)
  BY <1>2, Stays DEF TakeBusy, ReleaseForeign, ReleaseFree
<1>3. CASE ReleaseNested(t, m)
  BY <1>3, Stays DEF ReleaseNested, kernelVars
<1>4. CASE \E time \in BOOLEAN : TakeWait(t, m, time)
  <2>1. pc[t] = "run" /\ GoTo(t, "take_sched")
    BY <1>4 DEF TakeWait, SuspendOn, Calls
  <2> QED
    BY <2>1, GoesElsewhere
<1>5. CASE ReleaseHandOver(t, m)
  BY <1>5, GoesElsewhere DEF ReleaseHandOver, LetsGo, Calls
<1> QED
  BY <1>1, <1>2, <1>3, <1>4, <1>5 DEF MutexCall

LEMMA SemStays ==
  ASSUME RtInv, NEW t \in Threads, NEW s \in Sems, SemCall(t, s) PROVE CopiersStay
<1>1. CASE SemTakeFree(t, s)
  BY <1>1, Stays DEF SemTakeFree, kernelVars
<1>2. CASE SemRelease(t, s)
  <2>1. PICK x : x = IF list[s] = <<>> THEN "run" ELSE "last_sched"
    OBVIOUS
  <2>2. x # "copy" /\ GoTo(t, x) /\ pc[t] = "run"
    BY <1>2, <2>1 DEF SemRelease, Calls
  <2> QED
    BY <2>2, GoesElsewhere
<1>3. CASE \E time \in BOOLEAN : SemTakeWait(t, s, time)
  <2>1. pc[t] = "run" /\ GoTo(t, "take_sched")
    BY <1>3 DEF SemTakeWait, SuspendOn, Calls
  <2> QED
    BY <2>1, GoesElsewhere
<1>4. CASE ResetBegin(t, s) \/ ResetNext(t, s, s) \/ \E value \in 0 .. MaxCount : SemResetEnd(t, s, value)
  BY <1>4, ResetStays DEF SemResetEnd
<1> QED
  BY <1>1, <1>2, <1>3, <1>4 DEF SemCall

\* A thread that waits, or goes where a resumed thread sends it
LEMMA WaitStays ==
  ASSUME RtInv, NEW t \in Threads, NEW o, NEW time, WaitOn(t, o, time), pc[t] # "copy"
  PROVE  CopiersStay
BY GoesElsewhere DEF WaitOn, SuspendOn

LEMMA LastStays ==
  ASSUME RtInv, NEW t \in Threads, NEW o, GoTo(t, LastPoint(o)), pc[t] # "copy"
  PROVE  CopiersStay
<1>1. PICK x : x = LastPoint(o)
  OBVIOUS
<1>2. x # "copy" /\ GoTo(t, x)
  BY <1>1 DEF LastPoint
<1> QED
  BY <1>2, GoesElsewhere

LEMMA SharedStays ==
  ASSUME RtInv, NEW t \in Threads, NEW b, ResetBegin(t, b) \/ ResetOne(t, b) \/ WaitFails(t, b)
  PROVE  CopiersStay
<1>1. CASE ResetBegin(t, b)
  BY <1>1, GoesElsewhere DEF ResetBegin, Calls
<1>2. CASE ResetOne(t, b)
  BY <1>2, Stays DEF ResetOne, ResetNext
<1>3. CASE WaitFails(t, b)
  BY <1>3, GoesElsewhere DEF WaitFails, Leave, Back
<1> QED
  BY <1>1, <1>2, <1>3

LEMMA BoxStays ==
  ASSUME RtInv, NEW t \in Threads, NEW b \in Boxes, BoxCall(t, b) \/ BoxReturn(t, b)
  PROVE  CopiersStay
<1>1. CASE MbSend(t, b)
  BY <1>1, LastStays DEF MbSend, Calls
<1>2. CASE MbRecv(t, b)
  <2>1. PICK o : o = Senders(b)
    OBVIOUS
  <2> QED
    BY <1>2, <2>1, LastStays DEF MbRecv, Calls
<1>3. CASE \E time \in BOOLEAN : MbSendWait(t, b, time) \/ MbRecvWait(t, b, time)
  BY <1>3, WaitStays DEF MbSendWait, MbRecvWait, Calls
<1>4. CASE MbSendWoken(t, b)
  BY <1>4, LastStays DEF MbSendWoken, Leave, Back
<1>5. CASE MbRecvWoken(t, b)
  <2>1. PICK o : o = Senders(b)
    OBVIOUS
  <2> QED
    BY <1>5, <2>1, LastStays DEF MbRecvWoken, Leave, Back
<1>6. CASE MbWaitAgain(t, b)
  BY <1>6, WaitStays DEF MbWaitAgain, Missed, Back
<1>7. CASE MbLate(t, b)
  BY <1>7, GoesElsewhere DEF MbLate, GivesUp, Missed, Back, Leave
<1>8. CASE MbResetEnd(t, b)
  BY <1>8, GoesElsewhere DEF MbResetEnd, ResetEnd, Resets
<1> QED
  BY <1>1, <1>2, <1>3, <1>4, <1>5, <1>6, <1>7, <1>8, SharedStays DEF BoxCall, BoxReturn

LEMMA EventStays ==
  ASSUME RtInv, NEW t \in Threads, NEW e \in Events, EventCall(t, e) PROVE CopiersStay
<1>1. CASE \E new \in SUBSET Bits \ {{}} : EvSend(t, e, new)
  BY <1>1, Stays DEF EvSend, Sends, kernelVars
<1>2. CASE \E a \in Asks[t] : EvRecv(t, e, a) \/ EvRecvBusy(t, e, a)
  BY <1>2, Stays DEF EvRecv, EvRecvBusy
<1>3. CASE \E a \in Asks[t], time \in BOOLEAN : EvRecvWait(t, e, a, time)
  <2>1. pc[t] = "run" /\ GoTo(t, "take_sched")
    BY <1>3 DEF EvRecvWait, SuspendOn, Calls
  <2> QED
    BY <2>1, GoesElsewhere
<1>4. CASE EvReturn(t, e)
  BY <1>4, GoesElsewhere DEF EvReturn, Back
<1>5. CASE ResetBegin(t, e) \/ ResetNext(t, e, e) \/ EvResetEnd(t, e)
  BY <1>5, ResetStays DEF EvResetEnd
<1> QED
  BY <1>1, <1>2, <1>3, <1>4, <1>5 DEF EventCall

LEMMA SendStays ==
  ASSUME RtInv, EventInv, SendStep PROVE CopiersStay
<1>1. PICK e \in Events : EvResume(e) \/ EvSendEnd(e)
  BY DEF SendStep
<1>2. CASE EvResume(e)
  BY <1>2, Stays DEF EvResume
<1>3. CASE EvSendEnd(e) /\ sending.isr
  BY <1>3, Stays DEF EvSendEnd
<1>4. CASE EvSendEnd(e) /\ ~sending.isr
  <2>1. PICK x \in {"run", "last_sched"} : GoTo(cur, x)
    BY <1>4 DEF EvSendEnd
  <2>2. cur \in Threads /\ pc[cur] = "run"
    BY <1>4 DEF EvSendEnd, EventInv
  <2> QED
    BY <2>1, <2>2, GoesElsewhere
<1> QED
  BY <1>1, <1>2, <1>3, <1>4

\* The steps of a queue that leave its blocks alone
LEMMA QueueStays ==
  ASSUME RtInv, QueueInv, NEW t \in Threads, NEW q \in Queues,
         \/ \E time \in BOOLEAN : MqSendWait(t, q, time) \/ MqRecvWait(t, q, time)
         \/ MqWaitAgain(t, q) \/ MqLate(t, q)
         \/ (ResetBegin(t, q) \/ ResetOne(t, q) \/ WaitFails(t, q)) /\ UNCHANGED queueVars
  PROVE  QueueInv'
<1>1. CASE \E time \in BOOLEAN : MqSendWait(t, q, time) \/ MqRecvWait(t, q, time)
  BY <1>1, WaitStays, QueuesStay DEF MqSendWait, MqRecvWait, Calls, queueVars
<1>2. CASE MqWaitAgain(t, q)
  BY <1>2, WaitStays, QueuesStay DEF MqWaitAgain, MqMissed, Back, queueVars
<1>3. CASE MqLate(t, q)
  BY <1>3, GoesElsewhere, QueuesStay DEF MqLate, GivesUp, MqMissed, Back, Leave, queueVars
<1>4. CASE (ResetBegin(t, q) \/ ResetOne(t, q) \/ WaitFails(t, q)) /\ UNCHANGED queueVars
  BY <1>4, SharedStays, QueuesStay DEF queueVars
<1> QED
  BY <1>1, <1>2, <1>3, <1>4

-----------------------------------------------------------------------------
(* The blocks that are moved *)

\* Each block is in one of the two lists or in a hand.
Apart(free, queue, hand) ==
    /\ free \in Lists(Blocks) /\ queue \in Lists(Blocks)
    /\ ToSet(free) \cup ToSet(queue) \cup hand = Blocks
    /\ ToSet(free) \cap ToSet(queue) = {}
    /\ (ToSet(free) \cup ToSet(queue)) \cap hand = {}

\* The queue holds what was posted.
Holds(queue, text, post) ==
    /\ Len(queue) = Len(post) /\ post \in Seq(Mails)
    /\ \A i \in 1 .. Len(post) : text[queue[i]] = post[i]

\* The blocks that are copied are different and hold what is copied.
InHands(q, text) ==
    \A t \in Copying(q) :
        /\ text[msg[t].block] = msg[t].text
        /\ \A u \in Copying(q) : msg[t].block = msg[u].block => t = u

\* No other queue is touched.
OthersStay(q) ==
    \A c \in Queues \ {q} :
        /\ mq'[c] = mq[c] /\ posted'[c] = posted[c]
        /\ Copying(c)' = Copying(c)
        /\ \A t \in Copying(c) : msg'[t] = msg[t]

Texts == [Blocks -> Mails \cup {NoMail}]

\* What becomes of q
Becomes(q, free, queue, text, post) ==
    /\ QueueTypes'
    /\ mq'[q].free = free /\ mq'[q].queue = queue /\ mq'[q].text = text
    /\ mq'[q].entry = Len(post) /\ posted'[q] = post

LEMMA QueueParts ==
  ASSUME QueueInv, NEW q \in Queues
  PROVE  /\ Apart(mq[q].free, mq[q].queue, InHand(q))
         /\ Holds(mq[q].queue, mq[q].text, posted[q])
         /\ InHands(q, mq[q].text)
         /\ mq[q].text \in Texts
BY QueueFacts DEF BlockOK, BlocksInOnePlace, TextsKept, Apart, Holds, InHands, Texts

LEMMA QueueMoves ==
  ASSUME QueueInv, NEW q \in Queues, MsgInv', OthersStay(q),
         NEW free, NEW queue, NEW text, NEW post, Becomes(q, free, queue, text, post),
         Apart(free, queue, InHand(q)'), Holds(queue, text, post), InHands(q, text)'
  PROVE  QueueInv'
<1>1. /\ free \in Lists(Blocks) /\ queue \in Lists(Blocks) /\ post \in Seq(Mails)
      /\ Len(queue) = Len(post)
  BY DEF Apart, Holds
<1>4. /\ mq'[q].free = free /\ mq'[q].queue = queue /\ mq'[q].entry = Len(post)
      /\ mq'[q].text = text /\ posted'[q] = post
  BY DEF Becomes
<1>5. BlockOK(q)'
  <2>1. BlocksInOnePlace(q)'
    BY <1>4 DEF BlocksInOnePlace, Apart, InHands, Lists
  <2>2. TextsKept(q)'
    BY <1>1, <1>4 DEF TextsKept, Holds, InHands
  <2> QED
    BY <2>1, <2>2 DEF BlockOK
<1>6. ASSUME NEW c \in Queues, c # q PROVE BlockOK(c)'
  <2>1. /\ mq'[c] = mq[c] /\ posted'[c] = posted[c] /\ Copying(c)' = Copying(c)
        /\ \A t \in Copying(c) : msg'[t] = msg[t]
    BY <1>6 DEF OthersStay
  <2>2. InHand(c)' = InHand(c)
    BY <2>1 DEF InHand
  <2>3. BlockOK(c)
    BY DEF QueueInv
  <2>4. BlocksInOnePlace(c)'
    BY <2>1, <2>2, <2>3 DEF BlockOK, BlocksInOnePlace
  <2>5. TextsKept(c)'
    BY <2>1, <2>3 DEF BlockOK, TextsKept
  <2> QED
    BY <2>4, <2>5 DEF BlockOK
<1> QED
  BY <1>5, <1>6 DEF QueueInv, Becomes

\* A queue is no object that is not there.
LEMMA NotCopying ==
  ASSUME QueueInv, NEW t \in Threads, msg[t] = NoMsg, NEW q \in Queues
  PROVE  t \notin Copying(q)
<1>1. q # NoObject
  BY QueueAssumption, KernelAssumption
<1> QED
  BY <1>1 DEF Copying, NoMsg

LEMMA CopyBegins ==
  ASSUME RtInv, QueueInv, NEW t \in Threads, pc[t] # "copy", NEW q \in Queues,
         NEW x \in Blocks, NEW for \in {"put", "urge", "got"}, NEW v \in Mails,
         CopyOf(t, q, x, for, v)
  PROVE  /\ MsgInv'
         /\ t \notin Copying(q) /\ Copying(q)' = Copying(q) \cup {t}
         /\ InHand(q)' = InHand(q) \cup {x}
         /\ msg'[t].block = x /\ msg'[t].text = v
         /\ \A u \in Copying(q) : msg'[u] = msg[u]
         /\ \A c \in Queues \ {q} : /\ Copying(c)' = Copying(c)
                                    /\ \A u \in Copying(c) : msg'[u] = msg[u]
<1> DEFINE new == [queue |-> q, block |-> x, for |-> for, text |-> v]
<1>1. msg' = [msg EXCEPT ![t] = new] /\ pc' = [pc EXCEPT ![t] = "copy"]
  BY DEF CopyOf, GoTo
<1>2. new \in MsgOf /\ new.queue = q /\ new.block = x /\ new.text = v
  BY DEF MsgOf
<1> HIDE DEF new
<1>3. /\ msg \in [Threads -> [queue : Queues \cup {NoObject}, block : Blocks \cup {NoObject},
                              for : {"put", "urge", "got", "none"}, text : Mails \cup {NoMail}]]
      /\ msg[t] = NoMsg /\ pc \in [All -> Points] /\ \A u \in Threads : u \in All
  BY ThreadsAreAll DEF QueueInv, MsgInv, MsgOK, RtInv, KernelInv, KernelTypes
<1>4. /\ msg'[t] = new /\ pc'[t] = "copy"
      /\ \A u \in Threads \ {t} : msg'[u] = msg[u] /\ pc'[u] = pc[u]
  BY <1>1, <1>3
<1>5. MsgInv'
  <2>1. \A u \in Threads : MsgOK(u)'
    BY <1>2, <1>4 DEF QueueInv, MsgInv, MsgOK, MsgOf
  <2>2. msg' \in [Threads -> [queue : Queues \cup {NoObject}, block : Blocks \cup {NoObject},
                              for : {"put", "urge", "got", "none"}, text : Mails \cup {NoMail}]]
    BY <1>1, <1>2, <1>3 DEF MsgOf
  <2> QED
    BY <2>1, <2>2 DEF MsgInv
<1>6. \A c \in Queues : t \notin Copying(c)
  BY <1>3, NotCopying
<1>7. Copying(q)' = Copying(q) \cup {t}
  BY <1>2, <1>4 DEF Copying
<1>8. \A c \in Queues \ {q} : Copying(c)' = Copying(c)
  BY <1>2, <1>4, <1>6 DEF Copying
<1>9. \A c \in Queues : \A u \in Copying(c) : msg'[u] = msg[u]
  BY <1>4, <1>6 DEF Copying
<1>10. InHand(q)' = InHand(q) \cup {x}
  BY <1>2, <1>4, <1>7, <1>9 DEF InHand
<1> QED
  BY <1>2, <1>4, <1>5, <1>6, <1>7, <1>8, <1>9, <1>10

LEMMA CopyEnds ==
  ASSUME RtInv, QueueInv, NEW t \in Threads, NEW q \in Queues, Copies(t, q),
         msg' = [msg EXCEPT ![t] = NoMsg], NEW o, GoTo(t, LastPoint(o))
  PROVE  /\ MsgInv'
         /\ msg[t] \in MsgOf
         /\ t \in Copying(q) /\ Copying(q)' = Copying(q) \ {t}
         /\ InHand(q)' = InHand(q) \ {msg[t].block} /\ msg[t].block \in InHand(q)
         /\ \A u \in Copying(q)' : msg'[u] = msg[u]
         /\ \A c \in Queues \ {q} : /\ Copying(c)' = Copying(c)
                                    /\ \A u \in Copying(c) : msg'[u] = msg[u]
<1>0. PICK y : y = LastPoint(o)
  OBVIOUS
<1>1. y # "copy" /\ pc' = [pc EXCEPT ![t] = y]
  BY <1>0 DEF LastPoint, GoTo
<1>2. pc[t] = "copy" /\ msg[t].queue = q /\ msg[t] \in MsgOf
  BY DEF Copies, QueueInv, MsgInv, MsgOK, MsgOf
<1>3. /\ msg \in [Threads -> [queue : Queues \cup {NoObject}, block : Blocks \cup {NoObject},
                              for : {"put", "urge", "got", "none"}, text : Mails \cup {NoMail}]]
      /\ pc \in [All -> Points] /\ \A u \in Threads : u \in All
  BY ThreadsAreAll DEF QueueInv, MsgInv, RtInv, KernelInv, KernelTypes
<1>4. /\ msg'[t] = NoMsg /\ pc'[t] = y
      /\ \A u \in Threads \ {t} : msg'[u] = msg[u] /\ pc'[u] = pc[u]
  BY <1>1, <1>3
<1>5. MsgInv'
  <2>1. \A u \in Threads : MsgOK(u)'
    BY <1>1, <1>4 DEF QueueInv, MsgInv, MsgOK
  <2>2. msg' \in [Threads -> [queue : Queues \cup {NoObject}, block : Blocks \cup {NoObject},
                              for : {"put", "urge", "got", "none"}, text : Mails \cup {NoMail}]]
    BY <1>3 DEF NoMsg
  <2> QED
    BY <2>1, <2>2 DEF MsgInv
<1>6. NoMsg.queue = NoObject /\ \A c \in Queues : c # NoObject
  BY QueueAssumption, KernelAssumption DEF NoMsg
<1>7. t \in Copying(q) /\ Copying(q)' = Copying(q) \ {t}
  BY <1>2, <1>4, <1>6 DEF Copying
<1>8. \A c \in Queues \ {q} : Copying(c)' = Copying(c) /\ t \notin Copying(c)
  BY <1>2, <1>4, <1>6 DEF Copying
<1>9. /\ \A u \in Copying(q)' : msg'[u] = msg[u]
      /\ \A c \in Queues \ {q} : \A u \in Copying(c) : msg'[u] = msg[u]
  BY <1>4, <1>7, <1>8 DEF Copying
<1>10. InHand(q)' = InHand(q) \ {msg[t].block} /\ msg[t].block \in InHand(q)
  <2>1. InHands(q, mq[q].text)
    BY QueueParts
  <2>2. \A u \in Copying(q) \ {t} : msg[u].block # msg[t].block
    BY <1>7, <2>1 DEF InHands
  <2> QED
    BY <1>7, <1>9, <2>2 DEF InHand
<1> QED
  BY <1>2, <1>5, <1>7, <1>8, <1>9, <1>10

LEMMA AllocMoves ==
  ASSUME RtInv, QueueInv, NEW t \in Threads, pc[t] # "copy", NEW q \in Queues,
         NEW for \in {"put", "urge"}, Alloc(t, q, for)
  PROVE  QueueInv'
<1> DEFINE free == mq[q].free  queue == mq[q].queue  x == Head(free)  hand == InHand(q)
           post == posted[q]
<1>0. PICK old, text : old = mq[q].text /\ text = [mq[q].text EXCEPT ![x] = ThreadMail]
  OBVIOUS
<1>1. /\ free # <<>> /\ CopyOf(t, q, x, for, ThreadMail)
      /\ mq' = [mq EXCEPT ![q].free = Tail(@), ![q].text[x] = ThreadMail]
      /\ UNCHANGED posted
  BY DEF Alloc, NoFree
<1>2. Apart(free, queue, hand) /\ Holds(queue, old, post) /\ InHands(q, old) /\ old \in Texts
  BY <1>0, QueueParts
<1>3. /\ x \in ToSet(free) /\ Tail(free) \in Lists(Blocks)
      /\ ToSet(Tail(free)) = ToSet(free) \ {x}
  BY <1>1, <1>2, HeadAndTail DEF Apart
<1>4. x \in Blocks /\ x \notin hand /\ x \notin ToSet(queue)
  BY <1>2, <1>3 DEF Apart
<1>5. ThreadMail \in Mails /\ mq[q].entry = Len(post)
  BY QueueFacts DEF Mails
<1>6. text \in Texts /\ text[x] = ThreadMail /\ \A y \in Blocks : y # x => text[y] = old[y]
  BY <1>0, <1>2, <1>4, <1>5 DEF Texts
<1>7. Becomes(q, Tail(free), queue, text, post)
  <2>1. Tail(free) \in Seq(Blocks)
    BY <1>3, ListType
  <2> QED
    BY <1>0, <1>1, <1>4, <1>5, <2>1, QueueFacts DEF Becomes, QueueInv, QueueTypes
<1> HIDE DEF free, x, queue, post, hand
<1>8. /\ MsgInv'
      /\ t \notin Copying(q) /\ Copying(q)' = Copying(q) \cup {t}
      /\ InHand(q)' = InHand(q) \cup {x}
      /\ msg'[t].block = x /\ msg'[t].text = ThreadMail
      /\ \A u \in Copying(q) : msg'[u] = msg[u]
      /\ \A c \in Queues \ {q} : /\ Copying(c)' = Copying(c)
                                 /\ \A u \in Copying(c) : msg'[u] = msg[u]
  BY <1>1, <1>4, <1>5, CopyBegins
<1>9. OthersStay(q)
  BY <1>1, <1>8 DEF OthersStay, QueueInv, QueueTypes
<1>10. Apart(Tail(free), queue, InHand(q)')
  BY <1>2, <1>3, <1>4, <1>8 DEF Apart, hand
<1>11. Holds(queue, text, post)
  <2>1. \A i \in 1 .. Len(post) : queue[i] \in ToSet(queue) /\ queue[i] \in Blocks
    BY <1>2, ListType, Element DEF Apart, Holds
  <2> QED
    BY <1>2, <1>4, <1>6, <2>1 DEF Holds
<1>12. InHands(q, text)'
  <2>1. \A u \in Copying(q) : msg[u].block \in hand /\ hand \subseteq Blocks
    BY <1>2 DEF InHand, hand, Apart
  <2> QED
    BY <1>2, <1>4, <1>6, <1>8, <2>1 DEF InHands
<1> QED
  BY <1>7, <1>8, <1>9, <1>10, <1>11, <1>12, QueueMoves

LEMMA TailHolds ==
  ASSUME NEW queue \in Lists(Blocks), NEW text, NEW post, Holds(queue, text, post), post # <<>>
  PROVE  /\ queue # <<>> /\ Holds(Tail(queue), text, Tail(post)) /\ Len(Tail(post)) = Len(post) - 1
         /\ Head(post) \in Mails /\ text[Head(queue)] = Head(post)
<1>1. queue \in Seq(Blocks) /\ post \in Seq(Mails) /\ Len(queue) = Len(post)
  BY DEF Holds, Lists
<1>2. Len(post) \in Nat \ {0} /\ queue # <<>>
  BY <1>1, EmptySeq, LenProperties
<1>3. /\ Tail(post) \in Seq(Mails) /\ Len(Tail(post)) = Len(post) - 1
      /\ \A i \in 1 .. Len(Tail(post)) : Tail(post)[i] = post[i + 1]
      /\ Head(post) = post[1]
  BY <1>1, <1>2, HeadTailProperties
<1>4. /\ Len(Tail(queue)) = Len(post) - 1
      /\ \A i \in 1 .. Len(Tail(queue)) : Tail(queue)[i] = queue[i + 1]
      /\ Head(queue) = queue[1]
  BY <1>1, <1>2, HeadTailProperties
<1>5. \A i \in 1 .. Len(Tail(post)) : text[Tail(queue)[i]] = Tail(post)[i]
  <2>1. ASSUME NEW i \in 1 .. Len(Tail(post)) PROVE text[Tail(queue)[i]] = Tail(post)[i]
    <3>1. i + 1 \in 1 .. Len(post) /\ i \in 1 .. Len(Tail(queue))
      BY <1>2, <1>3, <1>4
    <3>2. text[queue[i + 1]] = post[i + 1]
      BY <3>1 DEF Holds
    <3> QED
      BY <1>3, <1>4, <3>1, <3>2
  <2> QED
    BY <2>1
<1>6. 1 \in 1 .. Len(post)
  BY <1>2
<1>7. post[1] \in Mails /\ text[queue[1]] = post[1]
  BY <1>1, <1>6, ElementOfSeq DEF Holds
<1> QED
  BY <1>2, <1>3, <1>4, <1>5, <1>7 DEF Holds

LEMMA DequeueMoves ==
  ASSUME RtInv, QueueInv, NEW t \in Threads, pc[t] # "copy", NEW q \in Queues, Dequeue(t, q)
  PROVE  QueueInv'
<1> DEFINE free == mq[q].free  queue == mq[q].queue  x == Head(queue)  hand == InHand(q)
           post == posted[q]  v == Head(post)
<1>0. PICK text : text = mq[q].text
  OBVIOUS
<1>1. /\ mq[q].entry # 0 /\ CopyOf(t, q, x, "got", v)
      /\ mq' = [mq EXCEPT ![q].queue = Tail(@), ![q].entry = @ - 1]
      /\ posted' = [posted EXCEPT ![q] = Tail(@)]
  BY DEF Dequeue, NoPost
<1>2. Apart(free, queue, hand) /\ Holds(queue, text, post) /\ InHands(q, text) /\ text \in Texts
  BY <1>0, QueueParts
<1>3. mq[q].entry = Len(post) /\ post # <<>>
  BY <1>1, QueueFacts, EmptySeq
<1> HIDE DEF free, x, queue, post, hand, v
<1>6. queue # <<>> /\ queue \in Lists(Blocks)
  BY <1>2, <1>3, TailHolds DEF Apart
<1>7. /\ Holds(Tail(queue), text, Tail(post)) /\ Len(Tail(post)) = Len(post) - 1
      /\ v \in Mails /\ text[x] = v
  BY <1>2, <1>3, <1>6, TailHolds DEF x, v
<1>8. /\ x \in ToSet(queue) /\ Tail(queue) \in Lists(Blocks)
      /\ ToSet(Tail(queue)) = ToSet(queue) \ {x}
  BY <1>6, HeadAndTail DEF x
<1>4. Becomes(q, free, Tail(queue), text, Tail(post))
  <2>1. Tail(queue) \in Seq(Blocks) /\ Tail(post) \in Seq(Mails) /\ mq[q].entry - 1 \in Nat
    <3>1. mq[q].entry \in Nat /\ mq[q].entry # 0
      BY <1>1, QueueFacts
    <3>2. Tail(queue) \in Seq(Blocks)
      BY <1>8, ListType
    <3>3. Tail(post) \in Seq(Mails)
      BY <1>7 DEF Holds
    <3> QED
      BY <3>1, <3>2, <3>3
  <2> QED
    BY <1>0, <1>1, <1>3, <1>7, <2>1, QueueFacts
       DEF Becomes, QueueInv, QueueTypes, free, queue, post
<1>9. x \in Blocks /\ x \notin hand /\ x \notin ToSet(free)
  BY <1>2, <1>8 DEF Apart
<1>10. /\ MsgInv'
       /\ t \notin Copying(q) /\ Copying(q)' = Copying(q) \cup {t}
       /\ InHand(q)' = InHand(q) \cup {x}
       /\ msg'[t].block = x /\ msg'[t].text = v
       /\ \A u \in Copying(q) : msg'[u] = msg[u]
       /\ \A c \in Queues \ {q} : /\ Copying(c)' = Copying(c)
                                  /\ \A u \in Copying(c) : msg'[u] = msg[u]
  BY <1>1, <1>7, <1>9, CopyBegins
<1>11. OthersStay(q)
  BY <1>1, <1>10 DEF OthersStay, QueueInv, QueueTypes
<1>12. Apart(free, Tail(queue), InHand(q)')
  BY <1>2, <1>8, <1>9, <1>10 DEF Apart, hand
<1>13. InHands(q, text)'
  <2>1. \A u \in Copying(q) : msg[u].block \in hand
    BY DEF InHand, hand
  <2> QED
    BY <1>2, <1>7, <1>9, <1>10, <2>1 DEF InHands
<1> QED
  BY <1>4, <1>7, <1>10, <1>11, <1>12, <1>13, QueueMoves

LEMMA AppendHolds ==
  ASSUME NEW queue \in Lists(Blocks), NEW x \in Blocks, NEW text, NEW v \in Mails, text[x] = v,
         NEW post, Holds(queue, text, post)
  PROVE  Holds(Append(queue, x), text, Append(post, v)) /\ Len(Append(post, v)) = Len(post) + 1
<1>1. queue \in Seq(Blocks) /\ post \in Seq(Mails) /\ Len(queue) = Len(post)
  BY DEF Holds, Lists
<1>2. /\ Append(post, v) \in Seq(Mails) /\ Len(Append(post, v)) = Len(post) + 1
      /\ \A i \in 1 .. Len(post) : Append(post, v)[i] = post[i]
      /\ Append(post, v)[Len(post) + 1] = v
  BY <1>1, AppendProperties
<1>3. /\ Len(Append(queue, x)) = Len(post) + 1
      /\ \A i \in 1 .. Len(post) : Append(queue, x)[i] = queue[i]
      /\ Append(queue, x)[Len(post) + 1] = x
  BY <1>1, AppendProperties
<1>4. Len(post) \in Nat
  BY <1>1, LenProperties
<1>5. ASSUME NEW i \in 1 .. Len(post) + 1 PROVE text[Append(queue, x)[i]] = Append(post, v)[i]
  <2>1. i \in 1 .. Len(post) \/ i = Len(post) + 1
    BY <1>4
  <2> QED
    BY <1>2, <1>3, <2>1 DEF Holds
<1> QED
  BY <1>2, <1>3, <1>5 DEF Holds

LEMMA Prepended ==
  ASSUME NEW S, NEW e \in S, NEW s \in Seq(S)
  PROVE  /\ <<e>> \o s \in Seq(S) /\ Len(<<e>> \o s) = Len(s) + 1
         /\ \A i \in 1 .. Len(s) + 1 : (<<e>> \o s)[i] = IF i = 1 THEN e ELSE s[i - 1]
<1> DEFINE es == <<e>>
<1>1. es \in Seq(S) /\ Len(es) = 1 /\ es[1] = e
  OBVIOUS
<1>2. Len(s) \in Nat
  BY LenProperties
<1> HIDE DEF es
<1>3. /\ es \o s \in Seq(S) /\ Len(es \o s) = Len(es) + Len(s)
      /\ \A i \in 1 .. Len(es) + Len(s) :
            (es \o s)[i] = IF i <= Len(es) THEN es[i] ELSE s[i - Len(es)]
  BY <1>1, ConcatProperties
<1>4. es \o s \in Seq(S) /\ Len(es \o s) = Len(s) + 1
  BY <1>1, <1>2, <1>3
<1>5. ASSUME NEW i \in 1 .. Len(s) + 1
      PROVE  (es \o s)[i] = IF i = 1 THEN e ELSE s[i - 1]
  BY <1>1, <1>2, <1>3
<1> QED
  BY <1>4, <1>5 DEF es

LEMMA PrependHolds ==
  ASSUME NEW queue \in Lists(Blocks), NEW x \in Blocks, NEW text, NEW v \in Mails, text[x] = v,
         NEW post, Holds(queue, text, post)
  PROVE  Holds(<<x>> \o queue, text, <<v>> \o post) /\ Len(<<v>> \o post) = Len(post) + 1
<1> DEFINE xq == <<x>> \o queue  vp == <<v>> \o post
<1>1. queue \in Seq(Blocks) /\ post \in Seq(Mails) /\ Len(queue) = Len(post)
  BY DEF Holds, Lists
<1>2. Len(post) \in Nat
  BY <1>1, LenProperties
<1>3. /\ vp \in Seq(Mails) /\ Len(vp) = Len(post) + 1
      /\ \A i \in 1 .. Len(post) + 1 : vp[i] = IF i = 1 THEN v ELSE post[i - 1]
  BY <1>1, Prepended
<1>4. /\ Len(xq) = Len(post) + 1
      /\ \A i \in 1 .. Len(post) + 1 : xq[i] = IF i = 1 THEN x ELSE queue[i - 1]
  BY <1>1, Prepended
<1> HIDE DEF xq, vp
<1>5. ASSUME NEW i \in 1 .. Len(post) + 1 PROVE text[xq[i]] = vp[i]
  <2>1. i - 1 \in 1 .. Len(post) \/ i = 1
    BY <1>2
  <2> QED
    BY <1>3, <1>4, <2>1 DEF Holds
<1>6. Holds(xq, text, vp)
  BY <1>3, <1>4, <1>5 DEF Holds
<1> QED
  BY <1>3, <1>6 DEF xq, vp

\* What is written to other blocks does not matter.
LEMMA OtherTexts ==
  ASSUME NEW queue \in Lists(Blocks), NEW old, NEW text, NEW post, Holds(queue, old, post),
         \A y \in ToSet(queue) : text[y] = old[y]
  PROVE  Holds(queue, text, post)
<1>1. \A i \in 1 .. Len(post) : queue[i] \in ToSet(queue)
  BY Element DEF Holds
<1> QED
  BY <1>1 DEF Holds

LEMMA LinkMoves ==
  ASSUME RtInv, QueueInv, NEW t \in Threads, NEW q \in Queues, MqLink(t, q)
  PROVE  QueueInv'
<1> DEFINE free == mq[q].free  queue == mq[q].queue  x == msg[t].block  hand == InHand(q)
           post == posted[q]  v == msg[t].text
<1>0. PICK text : text = mq[q].text
  OBVIOUS
<1>1. PICK urgent \in BOOLEAN : urgent <=> msg[t].for = "urge"
  OBVIOUS
<1>2. /\ Copies(t, q) /\ GoTo(t, LastPoint(q)) /\ msg' = [msg EXCEPT ![t] = NoMsg]
      /\ mq' = [mq EXCEPT ![q].queue = Linked(@, x, urgent), ![q].entry = @ + 1]
      /\ posted' = [posted EXCEPT ![q] = Linked(@, v, urgent)]
  BY <1>1 DEF MqLink, Linked
<1>3. Apart(free, queue, hand) /\ Holds(queue, text, post) /\ InHands(q, text) /\ text \in Texts
  BY <1>0, QueueParts
<1>4. /\ MsgInv' /\ msg[t] \in MsgOf
      /\ t \in Copying(q) /\ Copying(q)' = Copying(q) \ {t}
      /\ InHand(q)' = InHand(q) \ {x} /\ x \in InHand(q)
      /\ \A u \in Copying(q)' : msg'[u] = msg[u]
      /\ \A c \in Queues \ {q} : /\ Copying(c)' = Copying(c)
                                 /\ \A u \in Copying(c) : msg'[u] = msg[u]
  BY <1>2, CopyEnds
<1>5. /\ x \in Blocks /\ v \in Mails /\ text[x] = v
      /\ x \notin ToSet(free) /\ x \notin ToSet(queue)
  BY <1>3, <1>4 DEF MsgOf, Apart, InHands
<1>6. mq[q].entry = Len(post) /\ mq[q].entry \in Nat
  BY QueueFacts
<1> DEFINE longer == Linked(queue, x, urgent)  posts == Linked(post, v, urgent)
<1>7. /\ longer \in Lists(Blocks) /\ ToSet(longer) = ToSet(queue) \cup {x}
      /\ Holds(longer, text, posts) /\ Len(posts) = Len(post) + 1
  <2> HIDE DEF queue, x, post, v
  <2>1. queue \in Lists(Blocks)
    BY <1>3 DEF Apart
  <2>2. CASE urgent
    <3>1. longer = <<x>> \o queue /\ posts = <<v>> \o post
      BY <2>2 DEF Linked
    <3>2. <<x>> \in Lists(Blocks) /\ ToSet(<<x>>) = {x}
      BY <1>5, Single
    <3>3. <<x>> \o queue \in Lists(Blocks) /\ ToSet(<<x>> \o queue) = {x} \cup ToSet(queue)
      BY <1>5, <2>1, <3>2, Concatenated
    <3>4. Holds(<<x>> \o queue, text, <<v>> \o post) /\ Len(<<v>> \o post) = Len(post) + 1
      BY <1>3, <1>5, <2>1, PrependHolds
    <3> QED
      BY <3>1, <3>3, <3>4
  <2>3. CASE ~urgent
    <3>1. longer = Append(queue, x) /\ posts = Append(post, v)
      BY <2>3 DEF Linked
    <3>2. Append(queue, x) \in Lists(Blocks) /\ ToSet(Append(queue, x)) = ToSet(queue) \cup {x}
      BY <1>5, <2>1, Appended
    <3>3. /\ Holds(Append(queue, x), text, Append(post, v))
          /\ Len(Append(post, v)) = Len(post) + 1
      BY <1>3, <1>5, <2>1, AppendHolds
    <3> QED
      BY <3>1, <3>2, <3>3
  <2> QED
    BY <2>2, <2>3
<1>8. Becomes(q, free, longer, text, posts)
  <2>1. longer \in Seq(Blocks) /\ posts \in Seq(Mails)
    BY <1>7, ListType DEF Holds
  <2>2. /\ mq' = [mq EXCEPT ![q].queue = longer, ![q].entry = Len(posts)]
        /\ posted' = [posted EXCEPT ![q] = posts]
        /\ Len(posts) \in Nat
    BY <1>2, <1>6, <1>7 DEF QueueInv, QueueTypes
  <2> HIDE DEF longer, posts
  <2> QED
    BY <1>0, <2>1, <2>2, QueueFacts DEF Becomes, QueueInv, QueueTypes
<1>9. OthersStay(q)
  BY <1>2, <1>4 DEF OthersStay, QueueInv, QueueTypes
<1> HIDE DEF free, queue, x, hand, post, v, longer, posts
<1>10. Apart(free, longer, InHand(q)')
  BY <1>3, <1>4, <1>5, <1>7 DEF Apart, hand
<1>11. InHands(q, text)'
  BY <1>3, <1>4 DEF InHands
<1> QED
  BY <1>4, <1>7, <1>8, <1>9, <1>10, <1>11, QueueMoves

LEMMA FreeMoves ==
  ASSUME RtInv, QueueInv, NEW t \in Threads, NEW q \in Queues, MqFree(t, q)
  PROVE  QueueInv'
<1> DEFINE free == mq[q].free  queue == mq[q].queue  x == msg[t].block  hand == InHand(q)
           post == posted[q]  more == <<x>> \o free
<1>0. PICK old, text : old = mq[q].text /\ text = [mq[q].text EXCEPT ![x] = NoMail]
  OBVIOUS
<1>1. PICK o : o = Senders(q)
  OBVIOUS
<1>2. /\ Copies(t, q) /\ GoTo(t, LastPoint(o)) /\ msg' = [msg EXCEPT ![t] = NoMsg]
      /\ mq' = [mq EXCEPT ![q].free = <<x>> \o @, ![q].text[x] = NoMail]
      /\ UNCHANGED posted
  BY <1>1 DEF MqFree
<1>3. Apart(free, queue, hand) /\ Holds(queue, old, post) /\ InHands(q, old) /\ old \in Texts
  BY <1>0, QueueParts
<1>4. /\ MsgInv' /\ msg[t] \in MsgOf
      /\ t \in Copying(q) /\ Copying(q)' = Copying(q) \ {t}
      /\ InHand(q)' = InHand(q) \ {x} /\ x \in InHand(q)
      /\ \A u \in Copying(q)' : msg'[u] = msg[u]
      /\ \A c \in Queues \ {q} : /\ Copying(c)' = Copying(c)
                                 /\ \A u \in Copying(c) : msg'[u] = msg[u]
  BY <1>2, CopyEnds
<1>5. x \in Blocks /\ x \notin ToSet(free) /\ x \notin ToSet(queue)
  BY <1>3, <1>4 DEF MsgOf, Apart
<1>6. text \in Texts /\ \A y \in Blocks : y # x => text[y] = old[y]
  BY <1>0, <1>3, <1>5 DEF Texts
<1>7. more \in Lists(Blocks) /\ ToSet(more) = {x} \cup ToSet(free)
  <2> HIDE DEF x, free
  <2>1. <<x>> \in Lists(Blocks) /\ ToSet(<<x>>) = {x} /\ free \in Lists(Blocks)
    BY <1>3, <1>5, Single DEF Apart
  <2> QED
    BY <1>5, <2>1, Concatenated
<1>8. Becomes(q, more, queue, text, post)
  <2>1. more \in Seq(Blocks) /\ mq[q].entry = Len(post)
    BY <1>7, ListType, QueueFacts
  <2>2. mq' = [mq EXCEPT ![q].free = more, ![q].text[x] = NoMail]
    BY <1>2 DEF QueueInv, QueueTypes
  <2> HIDE DEF more, x
  <2>3. QueueTypes'
    <3>1. /\ mq \in [Queues -> [free : Seq(Blocks), queue : Seq(Blocks), entry : Nat,
                                text : [Blocks -> Mails \cup {NoMail}]]]
          /\ posted \in [Queues -> Seq(Mails)]
      BY DEF QueueInv, QueueTypes
    <3>2. more \in Seq(Blocks) /\ x \in Blocks /\ NoMail \in Mails \cup {NoMail}
      BY <1>5, <2>1
    <3>3. mq' \in [Queues -> [free : Seq(Blocks), queue : Seq(Blocks), entry : Nat,
                              text : [Blocks -> Mails \cup {NoMail}]]]
      BY <2>2, <3>1, <3>2
    <3> QED
      BY <1>2, <3>1, <3>3 DEF QueueTypes
  <2>4. /\ mq'[q].free = more /\ mq'[q].queue = queue /\ mq'[q].text = text
        /\ mq'[q].entry = Len(post) /\ posted'[q] = post
    BY <1>0, <1>2, <2>1, <2>2 DEF QueueInv, QueueTypes
  <2> QED
    BY <2>3, <2>4 DEF Becomes
<1>9. OthersStay(q)
  BY <1>2, <1>4 DEF OthersStay, QueueInv, QueueTypes
<1> HIDE DEF free, queue, x, hand, post, more
<1>10. Apart(more, queue, InHand(q)')
  BY <1>3, <1>4, <1>5, <1>7 DEF Apart, hand
<1>11. Holds(queue, text, post)
  <2>1. queue \in Lists(Blocks) /\ \A y \in ToSet(queue) : y \in Blocks /\ y # x
    BY <1>3, <1>5 DEF Apart
  <2> QED
    BY <1>3, <1>6, <2>1, OtherTexts
<1>12. InHands(q, text)'
  <2>1. \A u \in Copying(q)' : msg[u].block \in Blocks /\ msg[u].block # x
    BY <1>3, <1>4 DEF InHand, InHands, Apart, hand, x
  <2> QED
    BY <1>3, <1>4, <1>6, <2>1 DEF InHands
<1> QED
  BY <1>4, <1>8, <1>9, <1>10, <1>11, <1>12, QueueMoves

\* A step that changes no thread's copying
LEMMA NobodyCopies ==
  ASSUME QueueInv, CopiersStay, UNCHANGED msg, NEW q \in Queues, NEW text,
         \A c \in Queues \ {q} : mq'[c] = mq[c] /\ posted'[c] = posted[c]
  PROVE  /\ MsgInv' /\ OthersStay(q) /\ InHand(q)' = InHand(q)
         /\ InHands(q, text) => InHands(q, text)'
<1>1. \A c : Copying(c)' = Copying(c) /\ InHand(c)' = InHand(c)
  BY DEF Copying, InHand
<1>2. MsgInv'
  BY DEF QueueInv, MsgInv, MsgOK, CopiersStay
<1> QED
  BY <1>1, <1>2 DEF OthersStay, InHands

LEMMA SendIsrMoves ==
  ASSUME RtInv, QueueInv, NEW q \in Queues, MqSendIsr(q)
  PROVE  QueueInv'
<1> DEFINE free == mq[q].free  queue == mq[q].queue  x == Head(free)  hand == InHand(q)
           post == posted[q]  longer == Append(queue, x)  posts == Append(post, IsrMail)
<1>0. PICK old, text : old = mq[q].text /\ text = [mq[q].text EXCEPT ![x] = IsrMail]
  OBVIOUS
<1>1. /\ free # <<>> /\ UNCHANGED <<pc, msg>>
      /\ mq' = [mq EXCEPT ![q].free = Tail(@), ![q].text[x] = IsrMail,
                          ![q].queue = Append(@, x), ![q].entry = @ + 1]
      /\ posted' = [posted EXCEPT ![q] = Append(@, IsrMail)]
  BY DEF MqSendIsr, NoFree
<1>2. Apart(free, queue, hand) /\ Holds(queue, old, post) /\ InHands(q, old) /\ old \in Texts
  BY <1>0, QueueParts
<1>3. /\ x \in ToSet(free) /\ Tail(free) \in Lists(Blocks)
      /\ ToSet(Tail(free)) = ToSet(free) \ {x}
  BY <1>1, <1>2, HeadAndTail DEF Apart
<1>4. x \in Blocks /\ x \notin hand /\ x \notin ToSet(queue) /\ queue \in Lists(Blocks)
  BY <1>2, <1>3 DEF Apart
<1>5. IsrMail \in Mails /\ mq[q].entry = Len(post) /\ mq[q].entry \in Nat
  BY QueueFacts DEF Mails
<1>6. text \in Texts /\ text[x] = IsrMail /\ \A y \in Blocks : y # x => text[y] = old[y]
  BY <1>0, <1>2, <1>4, <1>5 DEF Texts
<1>7. MsgInv' /\ OthersStay(q) /\ InHand(q)' = hand /\ (InHands(q, text) => InHands(q, text)')
  <2>1. \A c \in Queues \ {q} : mq'[c] = mq[c] /\ posted'[c] = posted[c]
    BY <1>1 DEF QueueInv, QueueTypes
  <2> QED
    BY <1>1, <2>1, Stays, NobodyCopies
<1>8. longer \in Lists(Blocks) /\ ToSet(longer) = ToSet(queue) \cup {x}
  <2> HIDE DEF queue, x
  <2> QED
    BY <1>4, Appended
<1>9. Holds(longer, text, posts) /\ Len(posts) = Len(post) + 1
  <2> HIDE DEF queue, x, post
  <2>1. \A y \in ToSet(queue) : text[y] = old[y]
    <3>1. ToSet(queue) \subseteq Blocks
      BY <1>2 DEF Apart
    <3> QED
      BY <1>4, <1>6, <3>1
  <2>2. Holds(queue, text, post)
    BY <1>2, <1>4, <2>1, OtherTexts
  <2> QED
    BY <1>4, <1>5, <1>6, <2>2, AppendHolds
<1>10. Becomes(q, Tail(free), longer, text, posts)
  <2>1. /\ longer \in Seq(Blocks) /\ Tail(free) \in Seq(Blocks) /\ posts \in Seq(Mails)
        /\ mq[q].entry + 1 \in Nat
    <3>1. longer \in Seq(Blocks) /\ Tail(free) \in Seq(Blocks)
      BY <1>3, <1>8, ListType
    <3> QED
      BY <1>5, <1>9, <3>1 DEF Holds
  <2> DEFINE shorter == Tail(free)
  <2>2. /\ mq' = [mq EXCEPT ![q].free = shorter, ![q].text[x] = IsrMail,
                            ![q].queue = longer, ![q].entry = mq[q].entry + 1]
        /\ posted' = [posted EXCEPT ![q] = posts]
    BY <1>1 DEF QueueInv, QueueTypes
  <2> HIDE DEF longer, posts, shorter, x
  <2>3. QueueTypes'
    <3>1. /\ mq \in [Queues -> [free : Seq(Blocks), queue : Seq(Blocks), entry : Nat,
                                text : [Blocks -> Mails \cup {NoMail}]]]
          /\ posted \in [Queues -> Seq(Mails)]
      BY DEF QueueInv, QueueTypes
    <3>2. /\ longer \in Seq(Blocks) /\ shorter \in Seq(Blocks) /\ posts \in Seq(Mails)
          /\ mq[q].entry + 1 \in Nat /\ x \in Blocks /\ IsrMail \in Mails \cup {NoMail}
      BY <1>4, <1>5, <2>1 DEF shorter
    <3>3. mq' \in [Queues -> [free : Seq(Blocks), queue : Seq(Blocks), entry : Nat,
                              text : [Blocks -> Mails \cup {NoMail}]]]
      BY <2>2, <3>1, <3>2
    <3> QED
      BY <2>2, <3>1, <3>2, <3>3 DEF QueueTypes
  <2>4. /\ mq'[q].free = shorter /\ mq'[q].queue = longer /\ mq'[q].text = text
        /\ mq'[q].entry = mq[q].entry + 1 /\ posted'[q] = posts
    BY <1>0, <2>1, <2>2 DEF QueueInv, QueueTypes
  <2> QED
    BY <1>5, <1>9, <2>3, <2>4 DEF Becomes, shorter
<1> HIDE DEF free, queue, x, hand, post, longer, posts
<1>11. Apart(Tail(free), longer, InHand(q)')
  BY <1>2, <1>3, <1>4, <1>7, <1>8 DEF Apart
<1>12. InHands(q, text)
  <2>1. \A u \in Copying(q) : msg[u].block \in hand /\ hand \subseteq Blocks
    BY <1>2 DEF InHand, hand, Apart
  <2> QED
    BY <1>2, <1>4, <1>6, <2>1 DEF InHands
<1> QED
  BY <1>7, <1>9, <1>10, <1>11, <1>12, QueueMoves

LEMMA ResetEndMoves ==
  ASSUME RtInv, QueueInv, NEW t \in Threads, NEW q \in Queues, MqResetEnd(t, q)
  PROVE  QueueInv'
<1> DEFINE free == mq[q].free  queue == mq[q].queue  hand == InHand(q)  post == posted[q]
           more == Reverse(queue) \o free
<1>0. PICK old, text : /\ old = mq[q].text
                       /\ text = [x \in Blocks |-> IF x \in ToSet(queue) THEN NoMail ELSE old[x]]
  OBVIOUS
<1>1. /\ pc[t] = "reset" /\ GoTo(t, "last_sched") /\ UNCHANGED msg
      /\ mq' = [mq EXCEPT ![q] = [free |-> more, queue |-> <<>>, entry |-> 0, text |-> text]]
      /\ posted' = [posted EXCEPT ![q] = <<>>]
  BY <1>0 DEF MqResetEnd, ResetEnd, Resets, QueueInv, QueueTypes
<1>2. Apart(free, queue, hand) /\ InHands(q, old) /\ old \in Texts
  BY <1>0, QueueParts
<1>3. more \in Lists(Blocks) /\ ToSet(more) = ToSet(queue) \cup ToSet(free)
  <2> DEFINE back == Reverse(queue)
  <2> HIDE DEF free, queue
  <2>1. back \in Lists(Blocks) /\ ToSet(back) = ToSet(queue)
    BY <1>2, Reversed DEF Apart
  <2>2. free \in Lists(Blocks) /\ ToSet(back) \cap ToSet(free) = {}
    BY <1>2, <2>1 DEF Apart
  <2> HIDE DEF back
  <2>3. back \o free \in Lists(Blocks) /\ ToSet(back \o free) = ToSet(back) \cup ToSet(free)
    BY <2>1, <2>2, Concatenated
  <2> QED
    BY <2>1, <2>3 DEF back
<1>4. text \in Texts /\ \A y \in Blocks : y \notin ToSet(queue) => text[y] = old[y]
  BY <1>0, <1>2 DEF Texts
<1>5. MsgInv' /\ OthersStay(q) /\ InHand(q)' = hand /\ (InHands(q, text) => InHands(q, text)')
  <2>1. \A c \in Queues \ {q} : mq'[c] = mq[c] /\ posted'[c] = posted[c]
    BY <1>1 DEF QueueInv, QueueTypes
  <2>2. CopiersStay
    BY <1>1, GoesElsewhere
  <2> QED
    BY <1>1, <2>1, <2>2, NobodyCopies
<1>6. Len(<<>>) = 0 /\ <<>> \in Seq(Mails) /\ <<>> \in Seq(Blocks) /\ 1 .. 0 = {}
  BY EmptySeq
<1>7. Becomes(q, more, <<>>, text, <<>>)
  <2>1. more \in Seq(Blocks)
    BY <1>3, ListType
  <2> HIDE DEF more
  <2> QED
    BY <1>1, <1>4, <1>6, <2>1 DEF Becomes, QueueInv, QueueTypes, Texts
<1> HIDE DEF free, queue, hand, post, more
<1>8. Apart(more, <<>>, InHand(q)')
  BY <1>2, <1>3, <1>5, EmptyList DEF Apart
<1>9. Holds(<<>>, text, <<>>)
  BY <1>6 DEF Holds
<1>10. InHands(q, text)
  <2>1. \A u \in Copying(q) : msg[u].block \in Blocks /\ msg[u].block \notin ToSet(queue)
    BY <1>2 DEF InHand, hand, Apart
  <2> QED
    BY <1>2, <1>4, <2>1 DEF InHands
<1> QED
  BY <1>5, <1>7, <1>8, <1>9, <1>10, QueueMoves

LEMMA ThreadStepKeepsQueues ==
  ASSUME RtInv, QueueInv, NEW t \in Threads, ThreadStep(t)
  PROVE  QueueInv'
<1>1. CASE (KernelCall(t) \/ Sleep(t)) /\ UNCHANGED queueVars
  BY <1>1, KernelStays, QueuesStay DEF queueVars
<1>2. CASE (\E m \in Mutexes : MutexCall(t, m)) /\ UNCHANGED queueVars
  BY <1>2, MutexStays, QueuesStay DEF queueVars
<1>3. CASE (\E s \in Sems : SemCall(t, s)) /\ UNCHANGED queueVars
  BY <1>3, SemStays, QueuesStay DEF queueVars
<1>4. CASE TakeReturn(t) /\ UNCHANGED queueVars
  <2>1. pc[t] # "copy" /\ GoTo(t, "run")
    BY <1>4 DEF TakeReturn
  <2> QED
    BY <1>4, <2>1, GoesElsewhere, QueuesStay DEF queueVars
<1>5. CASE (\E b \in Boxes : BoxCall(t, b) \/ BoxReturn(t, b)) /\ UNCHANGED queueVars
  BY <1>5, BoxStays, QueuesStay DEF queueVars
<1>6. ASSUME NEW q \in Queues, QueueCall(t, q) \/ QueueReturn(t, q) PROVE QueueInv'
  <2>1. CASE (\E for \in {"put", "urge"} : MqAlloc(t, q, for)) \/ MqSendWoken(t, q)
    BY <2>1, AllocMoves DEF MqAlloc, MqSendWoken, Calls, Back
  <2>2. CASE MqRecv(t, q) \/ MqRecvWoken(t, q)
    BY <2>2, DequeueMoves DEF MqRecv, MqRecvWoken, Calls, Back
  <2>3. CASE MqLink(t, q) \/ MqFree(t, q)
    BY <2>3, LinkMoves, FreeMoves
  <2>4. CASE MqResetEnd(t, q)
    BY <2>4, ResetEndMoves
  <2>5. CASE \/ \E time \in BOOLEAN : MqSendWait(t, q, time) \/ MqRecvWait(t, q, time)
             \/ MqWaitAgain(t, q) \/ MqLate(t, q)
             \/ (ResetBegin(t, q) \/ ResetOne(t, q) \/ WaitFails(t, q)) /\ UNCHANGED queueVars
    BY <2>5, QueueStays
  <2> QED
    BY <1>6, <2>1, <2>2, <2>3, <2>4, <2>5 DEF QueueCall, QueueReturn
<1>7. CASE (\E e \in Events : EventCall(t, e)) /\ UNCHANGED queueVars
  BY <1>7, EventStays, QueuesStay DEF queueVars
<1> QED
  BY <1>1, <1>2, <1>3, <1>4, <1>5, <1>6, <1>7 DEF ThreadStep

LEMMA InterruptKeepsQueues ==
  ASSUME RtInv, QueueInv, Interrupt PROVE QueueInv'
<1>1. CASE Tick /\ UNCHANGED queueVars
  BY <1>1, Stays, QueuesStay DEF Tick, Slice, Timeout, queueVars
<1>2. CASE (\E s \in Sems : SemReleaseIsr(s)) /\ UNCHANGED queueVars
  BY <1>2, Stays, QueuesStay DEF SemReleaseIsr, queueVars
<1>3. CASE (\E b \in Boxes : MbSendIsr(b)) /\ UNCHANGED queueVars
  BY <1>3, Stays, QueuesStay DEF MbSendIsr, queueVars
<1>4. ASSUME NEW q \in Queues, MqSendIsr(q) PROVE QueueInv'
  BY <1>4, SendIsrMoves
<1>5. CASE /\ \E e \in Events, new \in SUBSET Bits \ {{}} : EvSendIsr(e, new)
           /\ UNCHANGED queueVars
  BY <1>5, Stays, QueuesStay DEF EvSendIsr, Sends, kernelVars, queueVars
<1> QED
  BY <1>1, <1>2, <1>3, <1>4, <1>5 DEF Interrupt

-----------------------------------------------------------------------------
(* Who waits for events *)

\* The lists of the events are left alone.
EventListsStay == \A e \in Events : list'[e] = list[e]

LEMMA EventsStay ==
  ASSUME EventInv, sending = NotSending, UNCHANGED eventVars,
         \A e \in Events : ToSet(list'[e]) \subseteq ToSet(list[e])
  PROVE  EventInv'
<1>1. sending.event \notin Events
  BY KernelAssumption, EventAssumption DEF NotSending
<1>2. UNCHANGED <<events, info, sending>>
  BY DEF eventVars
<1> QED
  BY <1>1, <1>2 DEF EventInv, EventTypes, NobodyMeets

\* A list of something else changes.
LEMMA OtherList ==
  ASSUME RtInv, NEW o, o \notin Events, NEW x, list' = [list EXCEPT ![o] = x]
  PROVE  EventListsStay
BY EventsApart DEF RtInv, KernelInv, Tables, WaitOK, EventListsStay

LEMMA OtherWait ==
  ASSUME RtInv, NEW t, NEW o, o \notin Events, NEW time, NEW table, NEW pr,
         SuspendOn(t, o, time, table, pr)
  PROVE  EventListsStay
BY OtherList DEF SuspendOn

LEMMA OtherResumed ==
  ASSUME RtInv, NEW o, o \notin Events, NEW table,
         UNCHANGED list \/ ResumeFirst(o, table) \/ WakeOne(o)
  PROVE  EventListsStay
<1>1. CASE UNCHANGED list
  BY <1>1 DEF EventListsStay
<1>2. ASSUME NEW tab, ResumeFirst(o, tab) PROVE EventListsStay
  BY <1>2, OtherList DEF ResumeFirst
<1> QED
  BY <1>1, <1>2 DEF WakeOne

LEMMA ListStays == ASSUME UNCHANGED list PROVE EventListsStay
BY DEF EventListsStay

LEMMA OtherReset ==
  ASSUME RtInv, NEW t, NEW b, NEW o, o \notin Events,
         ResetBegin(t, b) \/ ResetNext(t, b, o) \/ ResetEnd(t, b)
  PROVE  EventListsStay
BY ListStays, OtherResumed DEF ResetBegin, ResetNext, ResetEnd

LEMMA KernelLists ==
  ASSUME NEW t, KernelCall(t) \/ Sleep(t) \/ TakeReturn(t) PROVE EventListsStay
BY ListStays DEF KernelCall, Schedule, Sleep, SleepReturn, Yield, TakeReturn

LEMMA MutexLists ==
  ASSUME RtInv, NEW t, NEW m \in Mutexes, MutexCall(t, m) PROVE EventListsStay
<1>1. m \notin Events
  BY EventsApart
<1>2. CASE TakeOwn(t, m) \/ TakeFree(t, m) \/ TakeBusy(t, m)
  BY <1>2, ListStays DEF TakeOwn, TakeFree, TakeBusy
<1>3. CASE \E time \in BOOLEAN : TakeWait(t, m, time)
  BY <1>1, <1>3, OtherWait DEF TakeWait
<1>4. CASE ReleaseForeign(t, m) \/ ReleaseNested(t, m) \/ ReleaseFree(t, m)
  BY <1>4, ListStays DEF ReleaseForeign, ReleaseNested, ReleaseFree, kernelVars
<1>5. CASE ReleaseHandOver(t, m)
  BY <1>1, <1>5, OtherResumed DEF ReleaseHandOver
<1> QED
  BY <1>2, <1>3, <1>4, <1>5 DEF MutexCall

LEMMA SemPutLists ==
  ASSUME RtInv, NEW s \in Sems, SemPut(s) PROVE EventListsStay
BY OtherResumed, EventsApart DEF SemPut

LEMMA SemLists ==
  ASSUME RtInv, NEW t, NEW s \in Sems, SemCall(t, s) PROVE EventListsStay
<1>1. s \notin Events
  BY EventsApart
<1>2. CASE SemTakeFree(t, s)
  BY <1>2, ListStays DEF SemTakeFree, kernelVars
<1>3. CASE SemRelease(t, s)
  BY <1>3, SemPutLists DEF SemRelease
<1>4. CASE \E time \in BOOLEAN : SemTakeWait(t, s, time)
  BY <1>1, <1>4, OtherWait DEF SemTakeWait
<1>5. CASE \/ ResetBegin(t, s) \/ ResetNext(t, s, s)
           \/ \E value \in 0 .. MaxCount : SemResetEnd(t, s, value)
  BY <1>1, <1>5, OtherReset DEF SemResetEnd
<1> QED
  BY <1>2, <1>3, <1>4, <1>5 DEF SemCall

\* The lists of a mailbox or a message queue
LEMMA BoxNoEvent ==
  ASSUME NEW b \in Boxes \cup Queues PROVE b \notin Events /\ Senders(b) \notin Events
BY SystemAssumption

LEMMA WaitLists ==
  ASSUME RtInv, NEW t, NEW b \in Boxes \cup Queues, NEW o \in {b, Senders(b)}, NEW time,
         WaitOn(t, o, time)
  PROVE  EventListsStay
BY BoxNoEvent, OtherWait DEF WaitOn

LEMMA SharedLists ==
  ASSUME RtInv, NEW t, NEW b \in Boxes \cup Queues,
         ResetBegin(t, b) \/ ResetOne(t, b) \/ ResetEnd(t, b) \/ WaitFails(t, b)
  PROVE  EventListsStay
<1>1. CASE ResetBegin(t, b) \/ ResetEnd(t, b) \/ WaitFails(t, b)
  BY <1>1, ListStays DEF ResetBegin, ResetEnd, WaitFails
<1>2. CASE ResetOne(t, b)
  <2>1. PICK o \in {b, Senders(b)} : ResetNext(t, b, o)
    BY <1>2 DEF ResetOne
  <2> QED
    BY <2>1, BoxNoEvent, OtherReset
<1> QED
  BY <1>1, <1>2

LEMMA BoxListsStay ==
  ASSUME RtInv, NEW t, NEW b \in Boxes, BoxCall(t, b) \/ BoxReturn(t, b)
  PROVE  EventListsStay
<1>0. b \in Boxes \cup Queues
  OBVIOUS
<1>1. ASSUME NEW v, Put(b, v) \/ Get(b) PROVE EventListsStay
  BY <1>0, <1>1, BoxNoEvent, OtherResumed DEF Put, Get
<1>2. CASE MbSend(t, b) \/ MbRecv(t, b) \/ MbSendWoken(t, b) \/ MbRecvWoken(t, b)
  BY <1>1, <1>2 DEF MbSend, MbRecv, MbSendWoken, MbRecvWoken
<1>3. CASE \E time \in BOOLEAN : MbSendWait(t, b, time) \/ MbRecvWait(t, b, time)
  BY <1>0, <1>3, WaitLists DEF MbSendWait, MbRecvWait
<1>4. CASE MbWaitAgain(t, b)
  BY <1>0, <1>4, WaitLists DEF MbWaitAgain, Missed, Back
<1>5. CASE MbLate(t, b)
  BY <1>5, ListStays DEF MbLate, GivesUp
<1>6. CASE ResetBegin(t, b) \/ ResetOne(t, b) \/ MbResetEnd(t, b) \/ WaitFails(t, b)
  BY <1>0, <1>6, SharedLists DEF MbResetEnd
<1> QED
  BY <1>2, <1>3, <1>4, <1>5, <1>6 DEF BoxCall, BoxReturn

LEMMA QueueListsStay ==
  ASSUME RtInv, NEW t, NEW q \in Queues, QueueCall(t, q) \/ QueueReturn(t, q)
  PROVE  EventListsStay
<1>0. q \in Boxes \cup Queues
  OBVIOUS
<1>1. ASSUME NEW x, NEW v, CopyOf(t, q, x, "put", v) \/ CopyOf(t, q, x, "got", v)
                          \/ CopyOf(t, q, x, "urge", v)
      PROVE  EventListsStay
  BY <1>1, ListStays DEF CopyOf
<1>2. CASE \/ \E for \in {"put", "urge"} : MqAlloc(t, q, for)
           \/ MqSendWoken(t, q) \/ MqRecv(t, q) \/ MqRecvWoken(t, q)
  BY <1>1, <1>2 DEF MqAlloc, MqSendWoken, MqRecv, MqRecvWoken, Alloc, Dequeue
<1>3. CASE \E time \in BOOLEAN : MqSendWait(t, q, time) \/ MqRecvWait(t, q, time)
  BY <1>0, <1>3, WaitLists DEF MqSendWait, MqRecvWait
<1>4. CASE MqWaitAgain(t, q)
  BY <1>0, <1>4, WaitLists DEF MqWaitAgain, MqMissed, Back
<1>5. CASE MqLate(t, q)
  BY <1>5, ListStays DEF MqLate, GivesUp
<1>6. CASE ResetBegin(t, q) \/ ResetOne(t, q) \/ MqResetEnd(t, q) \/ WaitFails(t, q)
  BY <1>0, <1>6, SharedLists DEF MqResetEnd
<1>7. CASE MqLink(t, q) \/ MqFree(t, q)
  BY <1>0, <1>7, BoxNoEvent, OtherResumed DEF MqLink, MqFree
<1> QED
  BY <1>2, <1>3, <1>4, <1>5, <1>6, <1>7 DEF QueueCall, QueueReturn

\* Nobody joins the list of c, whose events become no more.
LEMMA StillNobody ==
  ASSUME NEW c, NobodyMeets(c), ToSet(list'[c]) \subseteq ToSet(list[c]),
         events'[c] \subseteq events[c], \A u \in ToSet(list'[c]) : info'[u] = info[u]
  PROVE  NobodyMeets(c)'
<1>1. ASSUME NEW u \in ToSet(list'[c]) PROVE ~Meets(events'[c], info[u])
  <2>1. ~Meets(events[c], info[u])
    BY <1>1 DEF NobodyMeets
  <2> QED
    BY <2>1 DEF Meets
<1> QED
  BY <1>1 DEF NobodyMeets

LEMMA EventFacts ==
  ASSUME RtInv, EventInv, sending = NotSending
  PROVE  /\ sending.event \notin Events
         /\ \A c \in Events : NobodyMeets(c)
         /\ \A c \in Events, u \in Threads : stat[u] = "ready" => u \notin ToSet(list[c])
         /\ \A c \in Events : c \in Objects /\ list[c] \in Lists(Threads)
         /\ events \in [Events -> SUBSET Bits] /\ info \in [Threads -> Info]
         /\ sending \in [event : Events \cup {NoObject}, isr : BOOLEAN, woke : BOOLEAN]
         /\ list \in [Objects -> Lists(Threads)]
<1>1. sending.event \notin Events
  BY KernelAssumption, EventAssumption DEF NotSending
<1>2. EventTypes /\ \A c \in Events : NobodyMeets(c)
  BY <1>1 DEF EventInv
<1> QED
  BY <1>1, <1>2, EventsApart DEF EventTypes, RtInv, KernelInv, Tables, WaitOK

\* A send begins.
LEMMA SendsKeepsEvents ==
  ASSUME RtInv, EventInv, sending = NotSending, NEW e \in Events, NEW new \in SUBSET Bits,
         NEW isr \in BOOLEAN, isr \/ (cur \in Threads /\ pc[cur] = "run"), Sends(e, new, isr)
  PROVE  EventInv'
<1>1. /\ \A c \in Events : NobodyMeets(c)
      /\ events \in [Events -> SUBSET Bits] /\ info \in [Threads -> Info]
  BY EventFacts
<1>2. /\ events' = [events EXCEPT ![e] = @ \cup new]
      /\ sending' = [event |-> e, isr |-> isr, woke |-> FALSE]
      /\ UNCHANGED <<cur, list, pc, info>>
  BY DEF Sends, kernelVars
<1>3. EventTypes'
  BY <1>1, <1>2 DEF EventTypes
<1>4. \A c \in Events : c # e => NobodyMeets(c)'
  BY <1>1, <1>2 DEF NobodyMeets
<1> QED
  BY <1>2, <1>3, <1>4 DEF EventInv

LEMMA RecvKeepsEvents ==
  ASSUME RtInv, EventInv, sending = NotSending, NEW t \in Threads, NEW e \in Events, NEW a,
         EvRecv(t, e, a) \/ EvRecvBusy(t, e, a)
  PROVE  EventInv'
<1>1. CASE EvRecvBusy(t, e, a)
  BY <1>1, EventsStay DEF EvRecvBusy
<1>2. CASE EvRecv(t, e, a)
  <2>1. /\ events' = [events EXCEPT ![e] = Left(@, a)] /\ UNCHANGED <<list, info, sending>>
    BY <1>2 DEF EvRecv
  <2>2. /\ events \in [Events -> SUBSET Bits] /\ \A c \in Events : NobodyMeets(c)
        /\ sending.event \notin Events
    BY EventFacts
  <2>3. \A c \in Events : events'[c] \subseteq events[c]
    BY <2>1, <2>2 DEF Left
  <2>4. EventTypes'
    BY <2>1, <2>2, <2>3 DEF EventInv, EventTypes
  <2>5. \A c \in Events : NobodyMeets(c)'
    BY <2>1, <2>2, <2>3, StillNobody
  <2> QED
    BY <2>1, <2>2, <2>4, <2>5 DEF EventInv
<1> QED
  BY <1>1, <1>2

LEMMA RecvWaitKeepsEvents ==
  ASSUME RtInv, RtInv', EventInv, sending = NotSending, NEW t \in Threads, NEW e \in Events,
         NEW a \in Info, NEW time, EvRecvWait(t, e, a, time)
  PROVE  EventInv'
<1>1. /\ Calls(t) /\ ~Meets(events[e], a) /\ info' = [info EXCEPT ![t] = a]
      /\ SuspendOn(t, e, time, ready, prio) /\ UNCHANGED <<events, sending>>
  BY DEF EvRecvWait
<1>2. /\ sending.event \notin Events /\ \A c \in Events : NobodyMeets(c)
      /\ \A c \in Events, u \in Threads : stat[u] = "ready" => u \notin ToSet(list[c])
      /\ \A c \in Events : c \in Objects /\ list[c] \in Lists(Threads)
      /\ info \in [Threads -> Info] /\ list \in [Objects -> Lists(Threads)]
  BY EventFacts
<1>3. EventTypes'
  BY <1>1, <1>2 DEF EventInv, EventTypes
<1>4. ASSUME NEW c \in Events, c # e PROVE NobodyMeets(c)'
  <2>1. list'[c] = list[c]
    BY <1>1, <1>2, <1>4 DEF SuspendOn
  <2>2. t \notin ToSet(list[c]) /\ ToSet(list[c]) \subseteq Threads
    BY <1>1, <1>2, CallFacts, ListType
  <2>3. \A u \in ToSet(list'[c]) : info'[u] = info[u]
    BY <1>1, <1>2, <2>1, <2>2
  <2> QED
    BY <1>1, <1>2, <2>1, <2>3, StillNobody
<1>5. NobodyMeets(e)'
  <2>1. ASSUME NEW u \in ToSet(list'[e]) PROVE ~Meets(events[e], info'[u])
    <3>1. u \in Threads /\ stat'[u] = "suspend" /\ want'[u] = e
      BY <1>2, <2>1, ListType DEF RtInv, KernelInv, Tables, WaitOK
    <3>2. CASE u = t
      BY <1>1, <1>2, <3>2
    <3>3. CASE u # t
      <4>1. stat[u] = "suspend" /\ want[u] = e
        BY <1>1, <3>1, <3>3, ThreadsAreAll DEF SuspendOn, RtInv, KernelInv, KernelTypes, Stats
      <4>2. u \in ToSet(list[e])
        BY <1>2, <3>1, <4>1 DEF RtInv, KernelInv, Tables, WaitOK
      <4>3. info'[u] = info[u]
        BY <1>1, <1>2, <3>1, <3>3
      <4> QED
        BY <1>2, <4>2, <4>3 DEF NobodyMeets
    <3> QED
      BY <3>2, <3>3
  <2> QED
    BY <1>1, <2>1 DEF NobodyMeets
<1> QED
  BY <1>1, <1>2, <1>3, <1>4, <1>5 DEF EventInv

LEMMA ReturnKeepsEvents ==
  ASSUME RtInv, EventInv, sending = NotSending, NEW t \in Threads, NEW e \in Events,
         EvReturn(t, e)
  PROVE  EventInv'
<1>1. /\ cur = t /\ pc[t] = "take_check" /\ info' = [info EXCEPT ![t] = NoInfo]
      /\ UNCHANGED <<list, events, sending>>
  BY DEF EvReturn, Back
<1>2. stat[t] = "ready"
  BY <1>1, Running DEF RtInv
<1>3. /\ sending.event \notin Events /\ \A c \in Events : NobodyMeets(c)
      /\ info \in [Threads -> Info]
      /\ \A c \in Events : t \notin ToSet(list[c]) /\ list[c] \in Lists(Threads)
  BY <1>2, EventFacts
<1>4. NoInfo \in Info
  BY DEF NoInfo, Info
<1>5. EventTypes'
  BY <1>1, <1>3, <1>4 DEF EventInv, EventTypes
<1>6. ASSUME NEW c \in Events PROVE NobodyMeets(c)'
  <2>1. ToSet(list[c]) \subseteq Threads
    BY <1>3, ListType
  <2>2. \A u \in ToSet(list'[c]) : info'[u] = info[u]
    BY <1>1, <1>3, <2>1
  <2> QED
    BY <1>1, <1>3, <2>2, StillNobody
<1> QED
  BY <1>1, <1>3, <1>5, <1>6 DEF EventInv

LEMMA ResetKeepsEvents ==
  ASSUME RtInv, EventInv, sending = NotSending, NEW t \in Threads, NEW e \in Events,
         \/ (ResetBegin(t, e) \/ ResetNext(t, e, e)) /\ UNCHANGED eventVars
         \/ EvResetEnd(t, e)
  PROVE  EventInv'
<1>1. CASE ResetBegin(t, e) /\ UNCHANGED eventVars
  BY <1>1, EventsStay DEF ResetBegin
<1>2. CASE ResetNext(t, e, e) /\ UNCHANGED eventVars
  <2>1. list[e] # <<>> /\ list' = [list EXCEPT ![e] = Tail(@)]
    BY <1>2 DEF ResetNext, ResumeFirst
  <2>2. /\ e \in Objects /\ list[e] \in Lists(Threads) /\ list \in [Objects -> Lists(Threads)]
        /\ Events \subseteq Objects
    BY EventFacts
  <2>3. ToSet(Tail(list[e])) \subseteq ToSet(list[e])
    BY <2>1, <2>2, HeadAndTail
  <2>4. \A c \in Events : ToSet(list'[c]) \subseteq ToSet(list[c])
    BY <2>1, <2>2, <2>3
  <2> QED
    BY <1>2, <2>4, EventsStay
<1>3. CASE EvResetEnd(t, e)
  <2>1. events' = [events EXCEPT ![e] = {}] /\ UNCHANGED <<list, info, sending>>
    BY <1>3 DEF EvResetEnd, ResetEnd
  <2>2. /\ events \in [Events -> SUBSET Bits] /\ \A c \in Events : NobodyMeets(c)
        /\ sending.event \notin Events
    BY EventFacts
  <2>3. \A c \in Events : events'[c] \subseteq events[c]
    BY <2>1, <2>2
  <2>4. EventTypes'
    BY <2>1, <2>2, <2>3 DEF EventInv, EventTypes
  <2>5. \A c \in Events : NobodyMeets(c)'
    BY <2>1, <2>2, <2>3, StillNobody
  <2> QED
    BY <2>1, <2>2, <2>4, <2>5 DEF EventInv
<1> QED
  BY <1>1, <1>2, <1>3

LEMMA EventCallKeepsEvents ==
  ASSUME RtInv, RtInv', EventInv, sending = NotSending, NEW t \in Threads, NEW e \in Events,
         EventCall(t, e)
  PROVE  EventInv'
<1>1. CASE \E new \in SUBSET Bits \ {{}} : EvSend(t, e, new)
  BY <1>1, SendsKeepsEvents DEF EvSend, Calls
<1>2. CASE \E a \in Asks[t] : EvRecv(t, e, a) \/ EvRecvBusy(t, e, a)
  BY <1>2, RecvKeepsEvents
<1>3. CASE \E a \in Asks[t], time \in BOOLEAN : EvRecvWait(t, e, a, time)
  <2>1. Asks[t] \subseteq Info
    BY EventAssumption
  <2> QED
    BY <1>3, <2>1, RecvWaitKeepsEvents
<1>4. CASE EvReturn(t, e)
  BY <1>4, ReturnKeepsEvents
<1>5. CASE \/ (ResetBegin(t, e) \/ ResetNext(t, e, e)) /\ UNCHANGED eventVars
           \/ EvResetEnd(t, e)
  BY <1>5, ResetKeepsEvents
<1> QED
  BY <1>1, <1>2, <1>3, <1>4, <1>5 DEF EventCall

LEMMA ThreadStepKeepsEvents ==
  ASSUME RtInv, RtInv', EventInv, NEW t \in Threads, ThreadStep(t)
  PROVE  EventInv'
<1>0. sending = NotSending
  BY DEF ThreadStep
<1>1. ASSUME NEW e \in Events, EventCall(t, e) PROVE EventInv'
  BY <1>0, <1>1, EventCallKeepsEvents
<1>2. ASSUME EventListsStay, UNCHANGED eventVars PROVE EventInv'
  BY <1>0, <1>2, EventsStay DEF EventListsStay
<1>3. CASE (KernelCall(t) \/ Sleep(t) \/ TakeReturn(t)) /\ UNCHANGED eventVars
  BY <1>2, <1>3, KernelLists
<1>4. CASE (\E m \in Mutexes : MutexCall(t, m)) /\ UNCHANGED eventVars
  BY <1>2, <1>4, MutexLists
<1>5. CASE (\E s \in Sems : SemCall(t, s)) /\ UNCHANGED eventVars
  BY <1>2, <1>5, SemLists
<1>6. CASE (\E b \in Boxes : BoxCall(t, b) \/ BoxReturn(t, b)) /\ UNCHANGED eventVars
  BY <1>2, <1>6, BoxListsStay
<1>7. CASE (\E q \in Queues : QueueCall(t, q) \/ QueueReturn(t, q)) /\ UNCHANGED eventVars
  BY <1>2, <1>7, QueueListsStay
<1> QED
  BY <1>1, <1>3, <1>4, <1>5, <1>6, <1>7 DEF ThreadStep

LEMMA InterruptKeepsEvents ==
  ASSUME RtInv, EventInv, Interrupt PROVE EventInv'
<1>0. sending = NotSending
  BY DEF Interrupt, InterruptsOn
<1>1. ASSUME EventListsStay, UNCHANGED eventVars PROVE EventInv'
  BY <1>0, <1>1, EventsStay DEF EventListsStay
<1>2. CASE Slice /\ UNCHANGED eventVars
  BY <1>1, <1>2, ListStays DEF Slice
<1>3. ASSUME NEW t \in Threads, Timeout(t), UNCHANGED eventVars PROVE EventInv'
  <2>1. list' = [o \in Objects |-> Unlinked(list[o], t)]
    BY <1>3 DEF Timeout, Resume
  <2>2. \A c \in Events : ToSet(list'[c]) \subseteq ToSet(list[c])
    BY <1>0, <2>1, EventFacts, UnlinkedIs
  <2> QED
    BY <1>0, <1>3, <2>2, EventsStay
<1>4. ASSUME NEW s \in Sems, SemReleaseIsr(s), UNCHANGED eventVars PROVE EventInv'
  BY <1>1, <1>4, SemPutLists DEF SemReleaseIsr
<1>5. ASSUME NEW b \in Boxes, MbSendIsr(b), UNCHANGED eventVars PROVE EventInv'
  <2>1. EventListsStay
    BY <1>5, BoxNoEvent, OtherResumed DEF MbSendIsr, Put
  <2> QED
    BY <1>1, <1>5, <2>1
<1>6. ASSUME NEW q \in Queues, MqSendIsr(q), UNCHANGED eventVars PROVE EventInv'
  <2>1. EventListsStay
    BY <1>6, BoxNoEvent, OtherResumed DEF MqSendIsr
  <2> QED
    BY <1>1, <1>6, <2>1
<1>7. ASSUME NEW e \in Events, NEW new \in SUBSET Bits, EvSendIsr(e, new) PROVE EventInv'
  BY <1>0, <1>7, SendsKeepsEvents DEF EvSendIsr
<1> QED
  BY <1>2, <1>3, <1>4, <1>5, <1>6, <1>7 DEF Interrupt, Tick

\* rt_event_send goes on through the list.
LEMMA EvResumeKeepsEvents ==
  ASSUME RtInv, EventInv, NEW e \in Events, EvResume(e)
  PROVE  EventInv'
<1>1. PICK u, got : /\ u = list[e][Min(Hits(e))]
                    /\ got = [info[u] EXCEPT !.set = @ \cap events[e]]
  OBVIOUS
<1>2. /\ sending.event = e /\ Hits(e) # {} /\ Resume(u)
      /\ info' = [info EXCEPT ![u] = got] /\ events' = [events EXCEPT ![e] = Left(@, got)]
      /\ sending' = [sending EXCEPT !.woke = TRUE] /\ UNCHANGED <<cur, pc>>
  BY <1>1 DEF EvResume
<1>3. u \in Threads
  BY <1>1, <1>2, FirstHit
<1>4. EventTypes
  BY DEF EventInv
<1>5. info[u] \in Info /\ events[e] \subseteq Bits
  BY <1>3, <1>4 DEF EventTypes
<1>6. got \in Info /\ Left(events[e], got) \subseteq Bits
  BY <1>1, <1>5 DEF Info, Left
<1>7. EventTypes'
  BY <1>2, <1>3, <1>4, <1>6 DEF EventTypes
<1>8. sending'.event = e /\ sending'.isr = sending.isr
  BY <1>2, <1>4 DEF EventTypes
<1>9. ASSUME NEW c \in Events, c # e PROVE NobodyMeets(c)'
  <2>1. c \in Objects /\ list[c] \in Lists(Threads)
    BY EventsApart DEF RtInv, KernelInv, Tables, WaitOK
  <2>2. list'[c] = Unlinked(list[c], u)
    BY <1>2, <2>1 DEF Resume
  <2>3. ToSet(list'[c]) = ToSet(list[c]) \ {u} /\ ToSet(list[c]) \subseteq Threads
    BY <2>1, <2>2, UnlinkedIs, ListType
  <2>4. \A v \in ToSet(list'[c]) : info'[v] = info[v]
    BY <1>2, <1>4, <2>3 DEF EventTypes
  <2>5. events'[c] = events[c]
    BY <1>2, <1>4, <1>9 DEF EventTypes
  <2>6. NobodyMeets(c)
    BY <1>2, <1>9 DEF EventInv
  <2> QED
    BY <2>3, <2>4, <2>5, <2>6, StillNobody
<1> QED
  BY <1>2, <1>7, <1>8, <1>9 DEF EventInv

LEMMA EvSendEndKeepsEvents ==
  ASSUME EventInv, NEW e \in Events, EvSendEnd(e)
  PROVE  EventInv'
<1>1. /\ sending.event = e /\ Hits(e) = {} /\ sending' = NotSending
      /\ UNCHANGED <<list, events, info>>
  BY DEF EvSendEnd
<1>2. \A c \in Events : NobodyMeets(c)
  BY <1>1, HitsMeet DEF EventInv
<1>3. sending'.event \notin Events
  BY <1>1, KernelAssumption, EventAssumption DEF NotSending
<1>4. EventTypes'
  BY <1>1 DEF EventInv, EventTypes, NotSending
<1> QED
  BY <1>1, <1>2, <1>3, <1>4 DEF EventInv, NobodyMeets

LEMMA StutterKeepsEvents ==
  ASSUME EventInv, UNCHANGED vars PROVE EventInv'
BY DEF vars, kernelVars, eventVars, EventInv, EventTypes, NobodyMeets

LEMMA RtStep ==
  RtInv /\ QueueInv /\ EventInv /\ [RtNext]_vars => RtInv' /\ QueueInv' /\ EventInv'
<1> SUFFICES ASSUME RtInv, QueueInv, EventInv, [RtNext]_vars
             PROVE  RtInv' /\ QueueInv' /\ EventInv'
  OBVIOUS
<1>1. ASSUME NEW t \in Threads, ThreadStep(t) PROVE RtInv' /\ QueueInv' /\ EventInv'
  BY <1>1, ThreadStepKeeps, ThreadStepKeepsQueues, ThreadStepKeepsEvents
<1>2. CASE Interrupt
  BY <1>2, InterruptKeeps, InterruptKeepsQueues, InterruptKeepsEvents
<1>3. CASE SendStep /\ UNCHANGED <<ipcVars, boxVars, queueVars>>
  <2>1. EventInv'
    BY <1>3, EvResumeKeepsEvents, EvSendEndKeepsEvents DEF SendStep
  <2>2. QueueInv'
    BY <1>3, SendStays, QueuesStay DEF queueVars
  <2> QED
    BY <1>3, <2>1, <2>2, SendStepKeeps
<1>4. CASE UNCHANGED vars
  <2>1. QueueInv'
    BY <1>4, Stays, QueuesStay DEF vars, kernelVars, queueVars
  <2> QED
    BY <1>4, <2>1, StutterKeeps, StutterKeepsEvents
<1> QED
  BY <1>1, <1>2, <1>3, <1>4 DEF RtNext

-----------------------------------------------------------------------------
(* The initial states *)

\* The list that a set is put into
LEMMA ListOfSet ==
  ASSUME NEW S, IsFiniteSet(S)
  PROVE  SetToSeq(S) \in Lists(S) /\ ToSet(SetToSeq(S)) = S
<1> DEFINE n == Cardinality(S)  f == SetToSeq(S)
<1>1. n \in Nat /\ ExistsBijection(1 .. n, S)
  BY FS_CardinalityType
<1>2. \E g \in [1 .. n -> S] : IsInjective(g)
  BY <1>1 DEF ExistsBijection, Bijection, Injection
<1>3. f \in [1 .. n -> S] /\ IsInjective(f)
  BY <1>2 DEF SetToSeq
<1>4. f \in Injection(1 .. n, S)
  BY <1>3 DEF Injection
<1>5. IsFiniteSet(1 .. n) /\ Cardinality(1 .. n) = n
  BY <1>1, FS_Interval
<1> HIDE DEF f
<1>6. f \in Surjection(1 .. n, S)
  BY <1>4, <1>5, FS_Injection
<1>7. f \in Seq(S) /\ DOMAIN f = 1 .. n
  BY <1>1, <1>3, SeqDef
<1>8. f \in Lists(S)
  BY <1>3, <1>7 DEF Lists
<1>9. ToSet(f) = S
  BY <1>3, <1>6, <1>7 DEF ToSet, Surjection
<1> QED
  BY <1>8, <1>9 DEF f

LEMMA SmallerList ==
  ASSUME NEW S, NEW T, S \subseteq T, NEW s \in Lists(S) PROVE s \in Lists(T)
<1>1. s \in Seq(T)
  BY ListType, SeqDef
<1> QED
  BY <1>1 DEF Lists

LEMMA KernelInitInv == KernelInit => KernelInv /\ OnProcessor
<1> SUFFICES ASSUME KernelInit PROVE KernelInv /\ OnProcessor
  OBVIOUS
<1>1. Idle \in All /\ Lowest \in Prios /\ Lowest \in Nat
  BY KernelAssumption DEF All, Prios
<1>2. /\ KernelTypes /\ IdleInv /\ Places
  <2>1. stat \in Stats /\ prio \in PrioMaps
    BY <1>1, KernelAssumption DEF KernelInit, Stats, PrioMaps, All, Prios
  <2> QED
    BY <2>1, <1>1 DEF KernelInit, KernelTypes, IdleInv, Places, Place, Errors, Points,
                      Taking, Waiting, All
<1>3. IsFiniteSet(All)
  BY KernelAssumption, FS_AddElement DEF All
<1>4. TableOK(ready, stat, prio)
  <2>1. ASSUME NEW p \in Prios
        PROVE  /\ ready[p] \in Lists(All)
               /\ \A t \in All : t \in ToSet(ready[p]) <=> prio[t] = p
    <3> DEFINE S == {t \in All : prio[t] = p}
    <3>1. S \subseteq All /\ IsFiniteSet(S)
      BY <1>3, FS_Subset
    <3>2. ready[p] = SetToSeq(S)
      BY <2>1 DEF KernelInit
    <3>3. ready[p] \in Lists(S) /\ ToSet(ready[p]) = S
      BY <3>1, <3>2, ListOfSet
    <3>4. ready[p] \in Lists(All)
      BY <3>1, <3>3, SmallerList
    <3> QED
      BY <3>3, <3>4
  <2>2. \A t \in All : stat[t] = "ready"
    BY DEF KernelInit
  <2>3. ready = [p \in Prios |-> ready[p]]
    BY DEF KernelInit
  <2>4. ready \in [Prios -> Lists(All)]
    BY <2>1, <2>3
  <2> QED
    BY <2>1, <2>2, <2>4 DEF TableOK
<1>5. WaitOK(list, stat, want)
  BY EmptyList, KernelAssumption DEF KernelInit, WaitOK, All
<1>6. KernelInv
  BY <1>2, <1>4, <1>5 DEF KernelInv, Tables
<1>7. Elected(ready) \in All /\ stat[Elected(ready)] = "ready"
  BY <1>2, <1>4, ElectedReady DEF KernelTypes, IdleInv
<1> QED
  BY <1>6, <1>7 DEF KernelInit, OnProcessor

LEMMA RtInitInv == RtInit => RtInv
<1> SUFFICES ASSUME RtInit PROVE RtInv
  OBVIOUS
<1>1. KernelInit /\ IpcInit /\ BoxInit
  BY DEF RtInit
<1>2. KernelInv /\ OnProcessor
  BY <1>1, KernelInitInv
<1>3. \A o : Handed(o) = {} /\ Takers(o) = {}
  BY <1>1, ThreadsAreAll DEF KernelInit, Handed, Takers, Takes
<1>4. \A o \in Objects : list[o] = <<>>
  BY <1>1 DEF KernelInit
<1>5. MutexInv
  <2>1. MutexTypes
    BY <1>1 DEF IpcInit, MutexTypes, FreeMutex
  <2>2. ASSUME NEW m \in Mutexes PROVE MutexOK(m)
    <3>1. mutex[m] = FreeMutex /\ \A t \in Threads : holds[t][m] = 0 /\ t # NoThread
      BY <1>1, ObjectsApart DEF IpcInit
    <3>2. list[m] = <<>>
      BY <1>4, ObjectsApart
    <3> QED
      BY <1>3, <3>1, <3>2 DEF MutexOK, FreeMutex, Owns
  <2> QED
    BY <2>1, <2>2 DEF MutexInv
<1>6. SemInv
  <2>1. \A s \in Sems : count[s] = 0 /\ credit[s] = 0
    BY <1>1 DEF IpcInit
  <2>2. \A s \in Sems : Cardinality(Handed(s)) = 0
    BY <1>3, FS_EmptySet
  <2> QED
    BY <1>1, <2>1, <2>2 DEF IpcInit, SemInv, SemOK
<1>7. BoxSize \in Nat \ {0} /\ 0 \in Offsets /\ 0 \in 0 .. BoxSize
  BY BoxAssumption DEF Offsets
<1>8. RingInv
  <2>1. EmptyBox \in [msg_pool : [Offsets -> Mails \cup {NoMail}],
                      in_offset : Offsets, out_offset : Offsets, entry : 0 .. BoxSize]
    BY <1>7 DEF EmptyBox, Offsets
  <2>2. <<>> \in Seq(Mails) /\ Len(<<>>) = 0 /\ 1 .. 0 = {}
    BY EmptySeq
  <2>3. On(0, 0) = 0
    BY <1>7 DEF On
  <2>4. \A b \in Boxes : box[b] = EmptyBox /\ sent[b] = <<>>
    BY <1>1 DEF BoxInit
  <2>5. BoxTypes
    BY <1>1, <2>1, <2>2 DEF BoxInit, BoxTypes
  <2>6. \A b \in Boxes : RingOK(b)
    BY <2>2, <2>3, <2>4 DEF RingOK, EmptyBox
  <2> QED
    BY <2>5, <2>6 DEF RingInv
<1>9. BoxWaitInv
  BY <1>4, ObjectsApart DEF BoxWaitInv, BoxWaitOK
<1>10. QueueWaitInv
  BY <1>4, QueueAssumption DEF QueueWaitInv, QueueWaitOK, Served
<1> QED
  BY <1>2, <1>5, <1>6, <1>8, <1>9, <1>10 DEF RtInv

LEMMA QueueInitInv == RtInit => QueueInv
<1> SUFFICES ASSUME RtInit PROVE QueueInv
  OBVIOUS
<1>1. /\ mq = [q \in Queues |-> [free |-> SetToSeq(Blocks), queue |-> <<>>, entry |-> 0,
                                 text |-> [x \in Blocks |-> NoMail]]]
      /\ msg = [t \in Threads |-> NoMsg] /\ posted = [q \in Queues |-> <<>>]
      /\ pc = [t \in All |-> "run"]
  BY DEF RtInit, QueueInit, KernelInit
<1> DEFINE free == SetToSeq(Blocks)
<1>2. free \in Lists(Blocks) /\ ToSet(free) = Blocks
  BY QueueAssumption, ListOfSet
<1>3. free \in Seq(Blocks)
  BY <1>2, ListType
<1> HIDE DEF free
<1>4. Len(<<>>) = 0 /\ <<>> \in Seq(Blocks) /\ <<>> \in Seq(Mails) /\ 1 .. 0 = {}
  BY EmptySeq
<1>5. QueueTypes
  BY <1>1, <1>3, <1>4 DEF QueueTypes, free
<1>6. MsgInv
  BY <1>1, ThreadsAreAll DEF MsgInv, MsgOK, NoMsg
<1>7. ASSUME NEW q \in Queues PROVE BlockOK(q)
  <2>1. Copying(q) = {} /\ InHand(q) = {}
    <3>1. q # NoObject
      BY QueueAssumption, KernelAssumption
    <3> QED
      BY <1>1, <3>1 DEF Copying, InHand, NoMsg
  <2>2. mq[q].free = free /\ mq[q].queue = <<>> /\ mq[q].entry = 0 /\ posted[q] = <<>>
    BY <1>1 DEF free
  <2>3. BlocksInOnePlace(q)
    BY <1>2, <2>1, <2>2, EmptyList DEF BlocksInOnePlace, Lists
  <2>4. TextsKept(q)
    BY <1>4, <2>1, <2>2 DEF TextsKept
  <2> QED
    BY <2>3, <2>4 DEF BlockOK
<1> QED
  BY <1>5, <1>6, <1>7 DEF QueueInv

LEMMA EventInitInv == RtInit => EventInv
<1> SUFFICES ASSUME RtInit PROVE EventInv
  OBVIOUS
<1>1. /\ events = [e \in Events |-> {}] /\ info = [t \in Threads |-> NoInfo]
      /\ sending = NotSending /\ list = [o \in Objects |-> <<>>]
  BY DEF RtInit, EventInit, KernelInit
<1>2. sending.event \notin Events
  BY <1>1, KernelAssumption, EventAssumption DEF NotSending
<1>3. EventTypes
  BY <1>1 DEF EventTypes, NoInfo, Info, NotSending
<1>4. \A e \in Events : NobodyMeets(e)
  BY <1>1, EventsApart, EmptyList DEF NobodyMeets
<1> QED
  BY <1>2, <1>3, <1>4 DEF EventInv

\* The invariant of the system: kernel, mutexes, semaphores, mailboxes,
\* message queues and events keep one another's bookkeeping right through
\* every call and interrupt.
THEOREM RtInvariant == RtSpec => [](RtInv /\ QueueInv /\ EventInv)
<1>1. RtInit => RtInv /\ QueueInv /\ EventInv
  BY RtInitInv, QueueInitInv, EventInitInv
<1>2. (RtInv /\ QueueInv /\ EventInv) /\ [RtNext]_vars => (RtInv /\ QueueInv /\ EventInv)'
  BY RtStep
<1> QED
  BY <1>1, <1>2, PTL DEF RtSpec

-----------------------------------------------------------------------------
(* What the invariant says of each part *)

\* No two threads have a mutex, and its owner, value and hold say who has it
\* how often, whatever calls of rt_mutex_take and rt_mutex_release, timeouts
\* and interrupts come in between.
THEOREM MutexesExclude == RtSpec => []Exclusion
<1>1. RtInv => Exclusion
  <2> SUFFICES ASSUME RtInv, NEW m \in Mutexes
               PROVE  /\ mutex[m].value = 1 <=> mutex[m].owner = NoThread
                      /\ mutex[m].owner = NoThread => mutex[m].hold = 0
                      /\ \A t \in Threads : holds[t][m] > 0 => Owns(t, m)
                      /\ \A t \in Threads : Owns(t, m) =>
                            mutex[m].hold = holds[t][m] + (IF t \in Handed(m) THEN 1 ELSE 0)
    BY DEF Exclusion
  <2>1. MutexOK(m)
    BY DEF RtInv, MutexInv
  <2> QED
    BY <2>1 DEF MutexOK
<1> QED
  BY <1>1, RtInvariant, PTL

\* thread->error tells a thread that comes back into rt_mutex_take the truth:
\* the race of rt_thread_timeout with rt_mutex_release has one winner.
THEOREM TakesAreTold == RtSpec => []TakeResult
<1>1. RtInv => TakeResult
  <2> SUFFICES ASSUME RtInv, NEW t \in Threads,
                      cur = t, pc[t] = "take_check", want[t] \in Mutexes
               PROVE  /\ error[t] = "ok" <=> Owns(t, want[t])
                      /\ t \notin ToSet(list[want[t]])
    BY DEF TakeResult
  <2>1. PICK m \in Mutexes : m = want[t]
    OBVIOUS
  <2>2. stat[t] = "ready" /\ m \in Objects
    BY Running, ObjectsApart DEF RtInv
  <2>3. t \in Takers(m) /\ (t \in Handed(m) <=> error[t] = "ok")
    BY <2>1, <2>2 DEF Takers, Takes, Handed
  <2>4. MutexOK(m)
    BY DEF RtInv, MutexInv
  <2>5. error[t] = "ok" <=> Owns(t, m)
    BY <2>3, <2>4 DEF MutexOK
  <2>6. t \notin ToSet(list[m])
    BY <2>2 DEF RtInv, KernelInv, Tables, WaitOK
  <2> QED
    BY <2>1, <2>5, <2>6
<1> QED
  BY <1>1, RtInvariant, PTL

\* The one list node of a thread is where its state says: rt_schedule,
\* rt_thread_resume, rt_thread_control and rt_thread_timeout never leave it in
\* two lists or lose it.
THEOREM NodesInOneList == RtSpec => []NodeInOneList
<1>1. RtInv => NodeInOneList
  BY DEF RtInv, KernelInv, Tables, TableOK, WaitOK, Lists, NodeInOneList
<1> QED
  BY <1>1, RtInvariant, PTL

\* The assertion of rt_thread_timeout holds: a timer that runs is that of a
\* thread that is still suspended.
THEOREM TimersOfSuspended == RtSpec => []TimerMeansSuspended
<1>1. RtInv => TimerMeansSuspended
  BY DEF RtInv, KernelInv, KernelTypes, Places, Place, TimerMeansSuspended
<1> QED
  BY <1>1, RtInvariant, PTL

\* rt_sem_release, of threads and of interrupts, and rt_sem_take neither lose
\* a release nor give one to two threads.
THEOREM SemsConserve == RtSpec => []SemConserved
<1>1. RtInv => SemConserved
  BY DEF RtInv, SemInv, SemOK, SemConserved
<1> QED
  BY <1>1, RtInvariant, PTL

\* Nobody waits for a free mutex, a released semaphore, a mail, a message, a
\* place or a block that nobody else is on its way to, nor for events that
\* are set: no wakeup of ipc.c is lost.
THEOREM NobodyIsStranded == RtSpec => []NoStrandedWaiter
<1>1. RtInv /\ EventInv => NoStrandedWaiter
  BY HitsMeet DEF RtInv, EventInv, MutexInv, MutexOK, SemInv, SemOK, BoxWaitInv, BoxWaitOK, QueueWaitInv,
         QueueWaitOK, Served, NoStrandedWaiter
<1> QED
  BY <1>1, RtInvariant, PTL

LEMMA OnIsModulo ==
  ASSUME NEW o \in Offsets, NEW i \in Nat, i < BoxSize
  PROVE  On(o, i) = (o + i) % BoxSize
<1>1. BoxSize \in Nat \ {0}
  BY BoxAssumption
<1>2. CASE o + i < BoxSize
  BY <1>1, <1>2 DEF On, Offsets
<1>3. CASE o + i >= BoxSize
  BY <1>1, <1>3 DEF On, Offsets
<1> QED
  BY <1>1, <1>2, <1>3 DEF Offsets

\* A mailbox is a first-in first-out queue: the offsets of rt_mb_send_wait and
\* rt_mb_recv wrap together and never lose, repeat or reorder a mail.  So is a
\* message queue: a block that rt_mq_send_wait or rt_mq_recv copies with the
\* interrupts enabled is nobody else's, and none is lost.
THEOREM MailsAreInOrder == RtSpec => []MailsInOrder
<1>1. ASSUME RtInv, NEW b \in Boxes
      PROVE  /\ Len(sent[b]) = box[b].entry
             /\ \A i \in 1 .. Len(sent[b]) :
                   box[b].msg_pool[(box[b].out_offset + i - 1) % BoxSize] = sent[b][i]
  <2>1. /\ RingOK(b) /\ box[b].entry \in 0 .. BoxSize /\ box[b].out_offset \in Offsets
        /\ BoxSize \in Nat
    BY <1>1, BoxFacts DEF RtInv
  <2>2. ASSUME NEW i \in 1 .. Len(sent[b])
        PROVE  box[b].msg_pool[(box[b].out_offset + i - 1) % BoxSize] = sent[b][i]
    <3>1. i - 1 \in Nat /\ i - 1 < BoxSize
      BY <2>1 DEF RingOK
    <3>2. On(box[b].out_offset, i - 1) = (box[b].out_offset + (i - 1)) % BoxSize
      BY <2>1, <3>1, OnIsModulo
    <3>3. box[b].out_offset + (i - 1) = box[b].out_offset + i - 1
      BY <2>1 DEF Offsets
    <3> QED
      BY <2>1, <3>2, <3>3 DEF RingOK
  <2> QED
    BY <2>1, <2>2 DEF RingOK
<1>2. ASSUME QueueInv, NEW q \in Queues PROVE BlocksInOnePlace(q) /\ TextsKept(q)
  BY <1>2 DEF QueueInv, BlockOK
<1>3. RtInv /\ QueueInv => MailsInOrder
  BY <1>1, <1>2 DEF MailsInOrder
<1> QED
  BY <1>3, RtInvariant, PTL

-----------------------------------------------------------------------------
(* Who runs *)

\* No ready thread is more urgent than the one that rt_schedule finds.
LEMMA ElectedLeast ==
  ASSUME NEW table, NEW st \in Stats, NEW pr \in PrioMaps, TableOK(table, st, pr),
         NEW t \in All, st[t] = "ready"
  PROVE  pr[Elected(table)] <= pr[t]
<1> DEFINE ps == {p \in Prios : table[p] # <<>>}
<1>1. pr[t] \in Prios /\ t \in ToSet(table[pr[t]])
  BY DEF TableOK, PrioMaps
<1>2. pr[t] \in ps
  BY <1>1, EmptyList
<1>3. ps \subseteq Nat
  BY DEF Prios
<1>4. Min(ps) \in ps /\ Min(ps) <= pr[t]
  BY <1>2, <1>3, LeastOf
<1> DEFINE s == table[Min(ps)]
<1>5. s \in Lists(All) /\ s # <<>> /\ Min(ps) \in Prios
  BY <1>4 DEF TableOK
<1>6. Head(s) \in ToSet(s)
  BY <1>5, HeadAndTail
<1>7. Head(s) \in All
  BY <1>5, <1>6, ListType
<1>8. pr[Head(s)] = Min(ps)
  BY <1>5, <1>6, <1>7 DEF TableOK
<1> QED
  BY <1>4, <1>8 DEF Elected

\* After rt_schedule
LEMMA ElectedIsUrgent ==
  ASSUME KernelInv', cur' = Elected(ready')
  PROVE  Preemptive'
<1>1. stat' \in Stats /\ prio' \in PrioMaps /\ TableOK(ready', stat', prio')
  BY DEF KernelInv, KernelTypes, Tables, TableOK
<1>2. \A t \in All : stat'[t] = "ready" => prio'[Elected(ready')] <= prio'[t]
  BY <1>1, ElectedLeast
<1> QED
  BY <1>2 DEF Preemptive

\* The running thread t goes to its rt_schedule, or begins a reset.
Heads(t) == cur = t /\ UNCHANGED cur /\ \E x \in SchedPoints \cup {"reset"} : GoTo(t, x)

\* It does anything else that resumes nobody and lowers no priority.
Quiet(t) ==
    /\ cur = t /\ pc[t] \notin SchedPoints \cup {"reset"}
    /\ UNCHANGED <<cur, stat, prio>>

\* It goes on with a reset.
OnReset(t) == cur = t /\ pc[t] = "reset" /\ UNCHANGED <<cur, pc>>

Defers(t) == Heads(t) \/ Quiet(t) \/ OnReset(t)

LEMMA DefersKeeps ==
  ASSUME RtInv, Preemptive, NEW t \in Threads, Defers(t), sending'.woke = sending.woke
  PROVE  Preemptive'
<1>1. CASE Heads(t)
  <2>1. pc'[cur'] \in SchedPoints \cup {"reset"}
    BY <1>1, KernelFacts DEF Heads, GoTo
  <2> QED
    BY <2>1 DEF Preemptive
<1>2. CASE Quiet(t)
  BY <1>2 DEF Quiet, Preemptive
<1>3. CASE OnReset(t)
  BY <1>3 DEF OnReset, Preemptive
<1> QED
  BY <1>1, <1>2, <1>3 DEF Defers

\* An interrupt or an event that leaves the threads alone
LEMMA SameThreads ==
  ASSUME Preemptive, UNCHANGED <<cur, stat, prio, pc>>, sending'.woke = sending.woke
  PROVE  Preemptive'
BY DEF Preemptive

LEMMA InCall == ASSUME NEW t, Calls(t) PROVE cur = t /\ pc[t] \notin SchedPoints \cup {"reset"}
BY DEF Calls, SchedPoints

LEMMA InReturn ==
  ASSUME NEW t, NEW o, Back(t, o) PROVE cur = t /\ pc[t] \notin SchedPoints \cup {"reset"}
BY DEF Back, SchedPoints

LEMMA SuspendHeads ==
  ASSUME NEW t, NEW o, NEW time, NEW table, NEW pr, SuspendOn(t, o, time, table, pr),
         cur = t, UNCHANGED cur
  PROVE  Heads(t)
BY DEF SuspendOn, Heads, SchedPoints

LEMMA ResetDefers ==
  ASSUME NEW t, NEW b, NEW o, ResetBegin(t, b) \/ ResetNext(t, b, o) \/ ResetEnd(t, b)
  PROVE  Defers(t)
<1>1. CASE ResetBegin(t, b)
  BY <1>1 DEF ResetBegin, Calls, Defers, Heads, SchedPoints
<1>2. CASE ResetNext(t, b, o)
  BY <1>2 DEF ResetNext, Resets, Defers, OnReset
<1>3. CASE ResetEnd(t, b)
  BY <1>3 DEF ResetEnd, Resets, Defers, Heads, SchedPoints
<1> QED
  BY <1>1, <1>2, <1>3

\* A thread that hands something on goes to rt_schedule if it resumes another.
LEMMA WakeDefers ==
  ASSUME NEW t, NEW o, cur = t, pc[t] \notin SchedPoints \cup {"reset"},
         WakeOne(o), GoTo(t, LastPoint(o)), UNCHANGED <<cur, prio>>
  PROVE  Defers(t)
<1>1. CASE list[o] = <<>>
  BY <1>1 DEF WakeOne, Defers, Quiet
<1>2. CASE list[o] # <<>>
  BY <1>2 DEF LastPoint, Defers, Heads, SchedPoints
<1> QED
  BY <1>1, <1>2

LEMMA KernelDefers ==
  ASSUME RtInv', NEW t, KernelCall(t) \/ Sleep(t) \/ TakeReturn(t)
  PROVE  Defers(t) \/ Preemptive'
<1>1. CASE Schedule(t)
  BY <1>1, ElectedIsUrgent DEF Schedule, RtInv
<1>2. CASE SleepReturn(t)
  BY <1>2 DEF SleepReturn, SchedPoints, Defers, Quiet
<1>3. CASE Yield(t)
  BY <1>3 DEF Yield, Calls, Defers, Heads, SchedPoints
<1>4. CASE Sleep(t)
  BY <1>4 DEF Sleep, Calls, Defers, Heads, SchedPoints
<1>5. CASE TakeReturn(t)
  BY <1>5 DEF TakeReturn, SchedPoints, Defers, Quiet
<1> QED
  BY <1>1, <1>2, <1>3, <1>4, <1>5 DEF KernelCall

\* The owner of m gives up a lent priority, and nobody waits.
GivesBack(t, m) == ReleaseFree(t, m) /\ mutex[m].original_priority # prio[t]

LEMMA MutexDefers ==
  ASSUME RtInv, NEW t \in Threads, NEW m \in Mutexes, MutexCall(t, m), ~GivesBack(t, m)
  PROVE  Defers(t)
<1>1. CASE \/ TakeOwn(t, m) \/ TakeFree(t, m) \/ TakeBusy(t, m)
           \/ ReleaseForeign(t, m) \/ ReleaseNested(t, m)
  <2>1. Calls(t) /\ UNCHANGED <<cur, stat, prio>>
    BY <1>1 DEF TakeOwn, TakeFree, TakeBusy, ReleaseForeign, ReleaseNested, kernelVars
  <2> QED
    BY <2>1, InCall DEF Defers, Quiet
<1>2. ASSUME NEW time, TakeWait(t, m, time) PROVE Defers(t)
  <2>1. cur = t /\ UNCHANGED cur
    BY <1>2 DEF TakeWait, Calls
  <2> QED
    BY <1>2, <2>1, SuspendHeads DEF TakeWait, Defers
<1>3. CASE ReleaseFree(t, m)
  <2>1. Calls(t) /\ UNCHANGED <<cur, stat>> /\ prio' = [prio EXCEPT ![t] = prio[t]]
    BY <1>3 DEF ReleaseFree, LetsGo, GivesBack
  <2>2. UNCHANGED prio
    BY <2>1, KernelFacts DEF PrioMaps
  <2> QED
    BY <2>1, <2>2, InCall DEF Defers, Quiet
<1>4. CASE ReleaseHandOver(t, m)
  BY <1>4 DEF ReleaseHandOver, LetsGo, Calls, Defers, Heads, SchedPoints
<1> QED
  BY <1>1, <1>2, <1>3, <1>4 DEF MutexCall

LEMMA SemDefers ==
  ASSUME NEW t, NEW s, SemCall(t, s)
  PROVE  Defers(t)
<1>1. CASE SemTakeFree(t, s)
  BY <1>1, InCall DEF SemTakeFree, kernelVars, Defers, Quiet
<1>2. CASE SemRelease(t, s)
  <2>1. CASE list[s] = <<>>
    BY <1>2, <2>1, InCall DEF SemRelease, SemPut, Defers, Quiet
  <2>2. CASE list[s] # <<>>
    BY <1>2, <2>2 DEF SemRelease, Calls, Defers, Heads, SchedPoints
  <2> QED
    BY <2>1, <2>2
<1>3. ASSUME NEW time, SemTakeWait(t, s, time) PROVE Defers(t)
  <2>1. cur = t /\ UNCHANGED cur
    BY <1>3 DEF SemTakeWait, Calls
  <2> QED
    BY <1>3, <2>1, SuspendHeads DEF SemTakeWait, Defers
<1>4. CASE \/ ResetBegin(t, s) \/ ResetNext(t, s, s)
           \/ \E value \in 0 .. MaxCount : SemResetEnd(t, s, value)
  BY <1>4, ResetDefers DEF SemResetEnd
<1> QED
  BY <1>1, <1>2, <1>3, <1>4 DEF SemCall

LEMMA WaitDefers ==
  ASSUME NEW t, NEW o, NEW time, cur = t, WaitOn(t, o, time)
  PROVE  Defers(t)
BY SuspendHeads DEF WaitOn, Defers

LEMMA ResetOneDefers == ASSUME NEW t, NEW b, ResetOne(t, b) PROVE Defers(t)
<1>1. PICK o : ResetNext(t, b, o)
  BY DEF ResetOne
<1> QED
  BY <1>1, ResetDefers

LEMMA LeavesDefers ==
  ASSUME NEW t, NEW b, NEW o, Back(t, o), GivesUp(t, b) PROVE Defers(t)
BY InReturn DEF GivesUp, Defers, Quiet

LEMMA FailsDefers == ASSUME NEW t, NEW b, WaitFails(t, b) PROVE Defers(t)
BY InReturn DEF WaitFails, Defers, Quiet

LEMMA BoxDefers ==
  ASSUME NEW t, NEW b, BoxCall(t, b) \/ BoxReturn(t, b)
  PROVE  Defers(t)
<1>1. CASE MbSend(t, b) \/ MbRecv(t, b)
  BY <1>1, InCall, WakeDefers DEF MbSend, MbRecv, Put, Get
<1>2. CASE MbSendWoken(t, b) \/ MbRecvWoken(t, b)
  BY <1>2, InReturn, WakeDefers DEF MbSendWoken, MbRecvWoken, Put, Get, Leave
<1>3. CASE \E time \in BOOLEAN : MbSendWait(t, b, time) \/ MbRecvWait(t, b, time)
  BY <1>3, WaitDefers DEF MbSendWait, MbRecvWait, Calls
<1>4. CASE MbWaitAgain(t, b)
  BY <1>4, WaitDefers DEF MbWaitAgain, Missed, Back
<1>5. CASE MbLate(t, b)
  BY <1>5, LeavesDefers DEF MbLate, Missed
<1>6. CASE ResetBegin(t, b) \/ ResetOne(t, b) \/ MbResetEnd(t, b) \/ WaitFails(t, b)
  BY <1>6, ResetDefers, ResetOneDefers, FailsDefers DEF MbResetEnd
<1> QED
  BY <1>1, <1>2, <1>3, <1>4, <1>5, <1>6 DEF BoxCall, BoxReturn

LEMMA QueueDefers ==
  ASSUME NEW t, NEW q, QueueCall(t, q) \/ QueueReturn(t, q)
  PROVE  Defers(t)
<1>1. ASSUME NEW x, NEW for, NEW v, CopyOf(t, q, x, for, v),
             cur = t, pc[t] \notin SchedPoints \cup {"reset"}
      PROVE  Defers(t)
  BY <1>1 DEF CopyOf, Defers, Quiet
<1>2. CASE (\E for \in {"put", "urge"} : MqAlloc(t, q, for)) \/ MqRecv(t, q)
  BY <1>1, <1>2, InCall DEF MqAlloc, MqRecv, Alloc, Dequeue
<1>3. CASE MqSendWoken(t, q) \/ MqRecvWoken(t, q)
  BY <1>1, <1>3, InReturn DEF MqSendWoken, MqRecvWoken, Alloc, Dequeue
<1>4. CASE \E time \in BOOLEAN : MqSendWait(t, q, time) \/ MqRecvWait(t, q, time)
  BY <1>4, WaitDefers DEF MqSendWait, MqRecvWait, Calls
<1>5. CASE MqWaitAgain(t, q)
  BY <1>5, WaitDefers DEF MqWaitAgain, MqMissed, Back
<1>6. CASE MqLate(t, q)
  BY <1>6, LeavesDefers DEF MqLate, MqMissed
<1>7. CASE ResetBegin(t, q) \/ ResetOne(t, q) \/ MqResetEnd(t, q) \/ WaitFails(t, q)
  BY <1>7, ResetDefers, ResetOneDefers, FailsDefers DEF MqResetEnd
<1>8. CASE MqLink(t, q) \/ MqFree(t, q)
  <2>1. cur = t /\ pc[t] \notin SchedPoints \cup {"reset"}
    BY <1>8 DEF MqLink, MqFree, Copies, SchedPoints
  <2> QED
    BY <1>8, <2>1, WakeDefers DEF MqLink, MqFree
<1> QED
  BY <1>2, <1>3, <1>4, <1>5, <1>6, <1>7, <1>8 DEF QueueCall, QueueReturn

LEMMA EventDefers ==
  ASSUME NEW t, NEW e, EventCall(t, e), sending = NotSending
  PROVE  Defers(t) /\ sending'.woke = sending.woke
<1>1. ASSUME NEW new, EvSend(t, e, new) PROVE Defers(t) /\ sending'.woke = sending.woke
  BY <1>1, InCall DEF EvSend, Sends, kernelVars, Defers, Quiet, NotSending
<1>2. ASSUME NEW a, EvRecv(t, e, a) \/ EvRecvBusy(t, e, a) PROVE Defers(t) /\ UNCHANGED sending
  BY <1>2, InCall DEF EvRecv, EvRecvBusy, eventVars, Defers, Quiet
<1>3. ASSUME NEW a, NEW time, EvRecvWait(t, e, a, time) PROVE Defers(t) /\ UNCHANGED sending
  <2>1. cur = t /\ UNCHANGED cur
    BY <1>3 DEF EvRecvWait, Calls
  <2> QED
    BY <1>3, <2>1, SuspendHeads DEF EvRecvWait, Defers
<1>4. CASE EvReturn(t, e)
  BY <1>4, InReturn DEF EvReturn, Defers, Quiet
<1>5. CASE \/ (ResetBegin(t, e) \/ ResetNext(t, e, e)) /\ UNCHANGED eventVars
           \/ EvResetEnd(t, e)
  BY <1>5, ResetDefers DEF EvResetEnd, eventVars
<1> QED
  BY <1>1, <1>2, <1>3, <1>4, <1>5 DEF EventCall

LEMMA ThreadStepDefers ==
  ASSUME RtInv, RtInv', NEW t \in Threads, ThreadStep(t), Preemptive,
         \A m \in Mutexes : ~GivesBack(t, m)
  PROVE  Preemptive'
<1>0. sending = NotSending
  BY DEF ThreadStep
<1>1. ASSUME Defers(t) \/ Preemptive', UNCHANGED eventVars PROVE Preemptive'
  BY <1>1, DefersKeeps DEF eventVars
<1>2. CASE (KernelCall(t) \/ Sleep(t) \/ TakeReturn(t)) /\ UNCHANGED eventVars
  BY <1>1, <1>2, KernelDefers
<1>3. CASE (\E m \in Mutexes : MutexCall(t, m)) /\ UNCHANGED eventVars
  BY <1>1, <1>3, MutexDefers
<1>4. CASE (\E s \in Sems : SemCall(t, s)) /\ UNCHANGED eventVars
  BY <1>1, <1>4, SemDefers
<1>5. CASE (\E b \in Boxes : BoxCall(t, b) \/ BoxReturn(t, b)) /\ UNCHANGED eventVars
  BY <1>1, <1>5, BoxDefers
<1>6. CASE (\E q \in Queues : QueueCall(t, q) \/ QueueReturn(t, q)) /\ UNCHANGED eventVars
  BY <1>1, <1>6, QueueDefers
<1>7. CASE \E e \in Events : EventCall(t, e)
  BY <1>0, <1>7, EventDefers, DefersKeeps
<1> QED
  BY <1>2, <1>3, <1>4, <1>5, <1>6, <1>7 DEF ThreadStep

\* An interrupt that resumes a thread calls rt_schedule.
LEMMA WakeIsrDefers ==
  ASSUME RtInv', Preemptive, NEW o, UNCHANGED <<prio, pc, sending>>,
         list[o] = <<>> => UNCHANGED stat,
         cur' = IF list[o] = <<>> THEN cur ELSE Elected(ready')
  PROVE  Preemptive'
<1>1. CASE list[o] = <<>>
  BY <1>1, SameThreads
<1>2. CASE list[o] # <<>>
  BY <1>2, ElectedIsUrgent DEF RtInv
<1> QED
  BY <1>1, <1>2

LEMMA InterruptDefers ==
  ASSUME RtInv', Interrupt, Preemptive
  PROVE  Preemptive'
<1>0. sending = NotSending
  BY DEF Interrupt, InterruptsOn
<1>1. CASE Tick
  BY <1>1, ElectedIsUrgent DEF Tick, Slice, Timeout, RtInv
<1>2. ASSUME NEW s, SemReleaseIsr(s), UNCHANGED eventVars PROVE Preemptive'
  BY <1>2, WakeIsrDefers DEF SemReleaseIsr, SemPut, eventVars
<1>3. ASSUME NEW b, MbSendIsr(b), UNCHANGED eventVars PROVE Preemptive'
  BY <1>3, WakeIsrDefers DEF MbSendIsr, Put, WakeOne, eventVars
<1>4. ASSUME NEW q, MqSendIsr(q), UNCHANGED eventVars PROVE Preemptive'
  BY <1>4, WakeIsrDefers DEF MqSendIsr, WakeOne, eventVars
<1>5. ASSUME NEW e, NEW new, EvSendIsr(e, new) PROVE Preemptive'
  BY <1>0, <1>5, SameThreads DEF EvSendIsr, Sends, kernelVars, NotSending
<1> QED
  BY <1>1, <1>2, <1>3, <1>4, <1>5 DEF Interrupt

\* rt_event_send calls rt_schedule at its end if it has resumed a thread.
LEMMA SendDefers ==
  ASSUME RtInv, RtInv', EventInv, SendStep, Preemptive
  PROVE  Preemptive'
<1>0. sending \in [event : Events \cup {NoObject}, isr : BOOLEAN, woke : BOOLEAN]
  BY DEF EventInv, EventTypes
<1>1. ASSUME NEW e, EvResume(e) PROVE Preemptive'
  <2>1. sending' = [sending EXCEPT !.woke = TRUE]
    BY <1>1 DEF EvResume
  <2> QED
    BY <1>0, <2>1 DEF Preemptive
<1>2. ASSUME NEW e \in Events, EvSendEnd(e) PROVE Preemptive'
  <2>1. sending.event = e /\ UNCHANGED <<ready, stat, prio>> /\ sending'.woke = FALSE
    BY <1>2 DEF EvSendEnd, NotSending
  <2>2. CASE sending.isr /\ sending.woke
    BY <1>2, <2>1, <2>2, ElectedIsUrgent DEF EvSendEnd, RtInv
  <2>3. CASE sending.isr /\ ~sending.woke
    BY <1>2, <1>0, <2>1, <2>3, SameThreads DEF EvSendEnd
  <2>4. CASE ~sending.isr
    <3>1. cur \in Threads /\ pc[cur] = "run" /\ UNCHANGED cur
      BY <1>2, <2>1, <2>4 DEF EventInv, EvSendEnd
    <3>2. CASE sending.woke
      <4>1. pc' = [pc EXCEPT ![cur] = "last_sched"]
        BY <1>2, <2>4, <3>2 DEF EvSendEnd, GoTo
      <4>2. pc'[cur'] = "last_sched"
        BY <3>1, <4>1, KernelFacts
      <4> QED
        BY <4>2 DEF Preemptive, SchedPoints
    <3>3. CASE ~sending.woke
      BY <2>1, <3>1, <3>3 DEF Preemptive, SchedPoints
    <3> QED
      BY <3>2, <3>3
  <2> QED
    BY <2>2, <2>3, <2>4, <1>0
<1> QED
  BY <1>1, <1>2 DEF SendStep

\* The most urgent ready thread runs as soon as the calls let it: no release,
\* send, reset, sleep, event, timeout or interrupt leaves a more urgent thread
\* ready without rt_schedule, but the rt_mutex_release at ipc.c:861 that ends
\* a lent priority with nobody waiting.
THEOREM OneReleaseDefers == RtSpec => OnlyPlainReleaseDefers
<1> DEFINE Deferral == \E m \in Mutexes : /\ ReleaseFree(cur, m)
                                          /\ mutex[m].original_priority # prio[cur]
<1>1. ASSUME RtInv, RtInv', EventInv, [RtNext]_vars, Preemptive
      PROVE  Preemptive' \/ Deferral
  <2>1. ASSUME NEW t \in Threads, ThreadStep(t) PROVE Preemptive' \/ Deferral
    <3>1. \A m \in Mutexes : GivesBack(t, m) => Deferral
      BY DEF GivesBack, ReleaseFree, LetsGo, Calls
    <3> QED
      BY <1>1, <2>1, <3>1, ThreadStepDefers
  <2>2. CASE Interrupt
    BY <1>1, <2>2, InterruptDefers
  <2>3. CASE SendStep
    BY <1>1, <2>3, SendDefers
  <2>4. CASE UNCHANGED vars
    BY <1>1, <2>4, SameThreads DEF vars, kernelVars, eventVars
  <2> QED
    BY <1>1, <2>1, <2>2, <2>3, <2>4 DEF RtNext
<1>2. RtInv /\ RtInv' /\ EventInv /\ [RtNext]_vars => [Preemptive => Preemptive' \/ Deferral]_vars
  BY <1>1
<1> QED
  BY <1>2, RtInvariant, PTL DEF RtSpec, OnlyPlainReleaseDefers

-----------------------------------------------------------------------------
(* Priority inheritance, when no program uses two mutexes *)

OneMutexEach == \A p \in Programs : \A m, n \in Mutexes \cap p[1] : m = n

\* The more urgent come first.
Ordered(s) == \A i, j \in 1 .. Len(s) : i < j => Base[s[i]] <= Base[s[j]]

\* What m keeps for its owner is the owner's own priority; its list is in
\* order, and its owner at least as urgent as who waits there.
Lent(m) ==
    /\ \A t \in Threads : Owns(t, m) => mutex[m].original_priority = Base[t]
    /\ flag[m] = "prio" =>
          /\ Ordered(list[m])
          /\ \A t \in ToSet(list[m]) : prio[mutex[m].owner] <= Base[t]

LentInv ==
    /\ \A m, n \in Mutexes \cap uses : m = n
    /\ \A m \in Mutexes : m \notin uses => mutex[m].owner = NoThread
    /\ PriorityRestored
    /\ \A m \in Mutexes : Lent(m)

LEMMA OrderedEmpty == Ordered(<<>>)
BY EmptySeq DEF Ordered

LEMMA OrderedTail ==
  ASSUME NEW s \in Lists(Threads), Ordered(s), s # <<>>
  PROVE  Ordered(Tail(s)) /\ \A t \in ToSet(Tail(s)) : Base[Head(s)] <= Base[t]
<1> USE ListType
<1>1. Len(s) \in Nat \ {0}
  BY EmptySeq
<1>2. Head(s) = s[1]
  BY <1>1
<1>3. /\ Len(Tail(s)) = Len(s) - 1
      /\ \A i \in 1 .. Len(Tail(s)) : Tail(s)[i] = s[i + 1]
  BY HeadTailProperties
<1>4. Ordered(Tail(s))
  <2>1. ASSUME NEW i \in 1 .. Len(Tail(s)), NEW j \in 1 .. Len(Tail(s)), i < j
        PROVE  Base[Tail(s)[i]] <= Base[Tail(s)[j]]
    <3>1. i + 1 \in 1 .. Len(s) /\ j + 1 \in 1 .. Len(s) /\ i + 1 < j + 1
      BY <2>1, <1>3
    <3>2. Base[s[i + 1]] <= Base[s[j + 1]]
      BY <3>1 DEF Ordered
    <3> QED
      BY <3>2, <1>3
  <2> QED
    BY <2>1 DEF Ordered
<1>5. ASSUME NEW t \in ToSet(Tail(s)) PROVE Base[Head(s)] <= Base[t]
  <2>1. PICK i \in 1 .. Len(Tail(s)) : Tail(s)[i] = t
    BY HeadAndTail, Element
  <2>2. 1 \in 1 .. Len(s) /\ i + 1 \in 1 .. Len(s) /\ 1 < i + 1 /\ s[i + 1] = t
    BY <2>1, <1>1, <1>3
  <2> QED
    BY <2>2, <1>2 DEF Ordered
<1> QED
  BY <1>4, <1>5

LEMMA OrderedUnlinked ==
  ASSUME NEW s \in Lists(Threads), Ordered(s), NEW x
  PROVE  Ordered(Unlinked(s, x))
<1>1. CASE x \notin ToSet(s)
  BY <1>1 DEF Unlinked
<1>2. CASE x \in ToSet(s)
  <2> DEFINE at == CHOOSE i \in DOMAIN s : s[i] = x
  <2>1. at \in 1 .. Len(s) /\ s[at] = x
    BY <1>2, ListType DEF ToSet
  <2>2. Unlinked(s, x) = RemoveAt(s, at)
    BY <1>2 DEF Unlinked
  <2> HIDE DEF at
  <2> DEFINE r == RemoveAt(s, at)
  <2>3. Loses(r, s, at)
    BY <2>1, RemovedAt
  <2> HIDE DEF r
  <2>4. ASSUME NEW i \in 1 .. Len(r), NEW j \in 1 .. Len(r), i < j
        PROVE  Base[r[i]] <= Base[r[j]]
    <3>1. PICK k, l \in 1 .. Len(s) : k < l /\ r[i] = s[k] /\ r[j] = s[l]
      <4>1. Len(r) = Len(s) - 1 /\ Len(s) \in Nat
        BY <2>3, ListType DEF Loses
      <4>2. /\ r[i] = IF i < at THEN s[i] ELSE s[i + 1]
            /\ r[j] = IF j < at THEN s[j] ELSE s[j + 1]
        BY <2>3 DEF Loses
      <4>3. /\ i \in 1 .. Len(s) /\ i + 1 \in 1 .. Len(s)
            /\ j \in 1 .. Len(s) /\ j + 1 \in 1 .. Len(s)
            /\ i < j + 1 /\ i + 1 < j + 1
        BY <2>4, <4>1
      <4>4. CASE i < at /\ j < at
        BY <2>4, <4>2, <4>3, <4>4
      <4>5. CASE i < at /\ ~(j < at)
        BY <4>2, <4>3, <4>5
      <4>6. CASE ~(i < at)
        <5>1. ~(j < at)
          BY <2>1, <2>4, <4>1, <4>6
        <5> QED
          BY <4>2, <4>3, <4>6, <5>1
      <4> QED
        BY <4>4, <4>5, <4>6
    <3> QED
      BY <3>1 DEF Ordered
  <2> QED
    BY <2>2, <2>4 DEF Ordered, r
<1> QED
  BY <1>1, <1>2

\* rt_ipc_list_suspend keeps the order: the newcomer goes before the first
\* less urgent than it.
LEMMA OrderedWith ==
  ASSUME NEW s \in Lists(Threads), Ordered(s), NEW t \in Threads, NEW r,
         NEW at \in 1 .. Len(s) + 1, Gains(r, s, t, at),
         \A i \in 1 .. Len(s) : i < at => Base[s[i]] <= Base[t],
         at \in 1 .. Len(s) => Base[t] <= Base[s[at]]
  PROVE  Ordered(r)
<1>1. /\ Len(s) \in Nat /\ Len(r) = Len(s) + 1 /\ Base \in [Threads -> Nat]
      /\ \A i \in 1 .. Len(s) : s[i] \in Threads
  BY ListType, KernelAssumption DEF Gains
<1>2. ASSUME NEW i \in 1 .. Len(s), i >= at PROVE Base[t] <= Base[s[i]]
  <2>1. at \in 1 .. Len(s)
    BY <1>1, <1>2
  <2>2. CASE i = at
    BY <2>1, <2>2
  <2>3. CASE i # at
    <3>1. Base[s[at]] <= Base[s[i]] /\ Base[t] <= Base[s[at]]
      BY <1>1, <1>2, <2>1, <2>3 DEF Ordered
    <3>2. Base[s[at]] \in Nat /\ Base[s[i]] \in Nat /\ Base[t] \in Nat
      BY <1>1, <2>1
    <3> QED
      BY <3>1, <3>2
  <2> QED
    BY <2>2, <2>3
<1>3. ASSUME NEW i \in 1 .. Len(r), NEW j \in 1 .. Len(r), i < j
      PROVE  Base[r[i]] <= Base[r[j]]
  <2>1. /\ r[i] = IF i < at THEN s[i] ELSE IF i = at THEN t ELSE s[i - 1]
        /\ r[j] = IF j < at THEN s[j] ELSE IF j = at THEN t ELSE s[j - 1]
    BY DEF Gains
  <2>2. CASE j < at
    <3>1. i < at /\ i \in 1 .. Len(s) /\ j \in 1 .. Len(s)
      BY <1>1, <1>3, <2>2
    <3> QED
      BY <1>3, <2>1, <2>2, <3>1 DEF Ordered
  <2>3. CASE j = at
    <3>1. i < at /\ i \in 1 .. Len(s) /\ ~(j < at)
      BY <1>1, <1>3, <2>3
    <3> QED
      BY <2>1, <2>3, <3>1
  <2>4. CASE j > at
    <3>1. j - 1 \in 1 .. Len(s) /\ j - 1 >= at /\ r[j] = s[j - 1]
      BY <1>1, <2>1, <2>4
    <3>2. CASE i < at
      <4>1. i \in 1 .. Len(s) /\ i < j - 1 /\ r[i] = s[i]
        BY <1>1, <2>1, <2>4, <3>2
      <4> QED
        BY <3>1, <4>1 DEF Ordered
    <3>3. CASE i = at
      BY <1>2, <2>1, <3>1, <3>3
    <3>4. CASE i > at
      <4>1. i - 1 \in 1 .. Len(s) /\ i - 1 < j - 1 /\ r[i] = s[i - 1]
        BY <1>1, <1>3, <2>1, <3>4
      <4> QED
        BY <3>1, <4>1 DEF Ordered
    <3> QED
      BY <3>2, <3>3, <3>4
  <2> QED
    BY <2>2, <2>3, <2>4
<1> QED
  BY <1>3 DEF Ordered

LEMMA OrderedQueued ==
  ASSUME NEW o, list[o] \in Lists(Threads), Ordered(list[o]), flag[o] = "prio",
         NEW t \in Threads, t \notin ToSet(list[o]), NEW pr, pr[t] = Base[t],
         \A u \in ToSet(list[o]) : pr[u] = Base[u]
  PROVE  Ordered(Queued(o, t, pr))
<1> DEFINE s == list[o]
           later == {i \in DOMAIN list[o] : flag[o] = "prio" /\ pr[t] < pr[list[o][i]]}
           at == IF later = {} THEN Len(list[o]) + 1 ELSE Min(later)
<1>1. Queued(o, t, pr) = InsertAt(s, at, t)
  BY DEF Queued
<1>2. later = {i \in 1 .. Len(s) : Base[t] < Base[s[i]]}
  <2>1. \A i \in 1 .. Len(s) : s[i] \in ToSet(s)
    BY ListType
  <2>2. DOMAIN s = 1 .. Len(s)
    BY ListType
  <2>3. \A i \in 1 .. Len(s) : pr[t] < pr[s[i]] <=> Base[t] < Base[s[i]]
    BY <2>1
  <2> QED
    BY <2>2, <2>3
<1> HIDE DEF later
<1>3. /\ Len(s) \in Nat /\ Base[t] \in Nat
      /\ \A i \in 1 .. Len(s) : Base[s[i]] \in Nat
  BY ListType, KernelAssumption
<1>4. /\ at \in 1 .. Len(s) + 1
      /\ \A i \in 1 .. Len(s) : i < at => Base[s[i]] <= Base[t]
      /\ at \in 1 .. Len(s) => Base[t] <= Base[s[at]]
  <2>1. CASE later = {}
    <3>1. at = Len(s) + 1
      BY <2>1
    <3>2. \A i \in 1 .. Len(s) : Base[s[i]] <= Base[t]
      BY <1>2, <1>3, <2>1
    <3> QED
      BY <1>3, <3>1, <3>2
  <2>2. CASE later # {}
    <3>1. later \subseteq Nat
      BY <1>2
    <3>2. Min(later) \in later /\ \A n \in later : Min(later) <= n
      BY <2>2, <3>1, LeastOf
    <3>3. at = Min(later)
      BY <2>2
    <3> HIDE DEF at
    <3>4. at \in 1 .. Len(s) /\ Base[t] < Base[s[at]] /\ \A n \in later : at <= n
      BY <1>2, <3>2, <3>3
    <3>5. ASSUME NEW i \in 1 .. Len(s), i < at PROVE Base[s[i]] <= Base[t]
      <4>1. i \notin later
        BY <3>4, <3>5
      <4> QED
        BY <1>2, <1>3, <4>1
    <3>6. at \in 1 .. Len(s) + 1 /\ Base[t] <= Base[s[at]]
      BY <1>3, <3>4
    <3> QED
      BY <3>5, <3>6
  <2> QED
    BY <2>1, <2>2
<1> HIDE DEF at
<1>5. Gains(InsertAt(s, at, t), s, t, at)
  BY <1>4, InsertedAt
<1> QED
  BY <1>1, <1>4, <1>5, OrderedWith

\* Who waits for a mutex has its own priority, and a mutex apart from the one
\* the program uses is nobody's.
LEMMA LentFacts ==
  ASSUME RtInv, LentInv, NEW m \in Mutexes
  PROVE  /\ list[m] \in Lists(Threads) /\ m \in Objects
         /\ \A u \in ToSet(list[m]) : u \in Threads /\ ~Owns(u, m) /\ prio[u] = Base[u]
         /\ m \in uses => \A n \in Mutexes \ {m} : mutex[n].owner = NoThread
         /\ m \in uses => \A u \in Threads : ~Owns(u, m) => prio[u] = Base[u]
         /\ mutex[m].owner = NoThread => list[m] = <<>>
<1>1. list[m] \in Lists(Threads) /\ m \in Objects
  BY ObjectsApart DEF RtInv, KernelInv, Tables, WaitOK
<1>2. m \in uses => \A n \in Mutexes \ {m} : mutex[n].owner = NoThread
  BY DEF LentInv
<1>3. m \in uses => \A u \in Threads : ~Owns(u, m) => prio[u] = Base[u]
  BY <1>2, ObjectsApart DEF LentInv, PriorityRestored, Owns
<1>4. mutex[m].owner = NoThread => list[m] = <<>>
  BY DEF RtInv, MutexInv, MutexOK
<1>5. ASSUME NEW u \in ToSet(list[m]) PROVE u \in Threads /\ ~Owns(u, m) /\ prio[u] = Base[u]
  <2>1. u \in Threads
    BY <1>1, <1>5, ListType
  <2>2. stat[u] = "suspend" /\ want[u] = m
    BY <1>1, <1>5, <2>1 DEF RtInv, KernelInv, Tables, WaitOK
  <2>3. u \in Takers(m) /\ u \notin Handed(m)
    <3>1. Place(u) /\ m # NoObject
      BY <1>1, <2>1, ObjectsApart DEF RtInv, KernelInv, Places
    <3>2. pc[u] \in {"take_sched", "take_check"}
      BY <2>2, <3>1 DEF Place, Taking, Waiting
    <3> QED
      BY <2>1, <2>2, <3>2 DEF Takers, Takes, Handed
  <2>4. ~Owns(u, m)
    BY <2>1, <2>3 DEF RtInv, MutexInv, MutexOK
  <2>5. m \in uses
    BY <1>4, <1>5, EmptyList DEF LentInv
  <2> QED
    BY <1>3, <2>1, <2>4, <2>5
<1> QED
  BY <1>1, <1>2, <1>3, <1>4, <1>5

\* A step that leaves the mutexes and the priorities alone, but may take a
\* thread out of the lists
MutexesAlone ==
    /\ UNCHANGED <<prio, mutex, flag>>
    /\ \A m \in Mutexes : list'[m] = list[m] \/ \E u : list'[m] = Unlinked(list[m], u)

LEMMA AloneKeeps ==
  ASSUME RtInv, LentInv, MutexesAlone, UNCHANGED uses
  PROVE  LentInv'
<1>1. ASSUME NEW m \in Mutexes PROVE Lent(m)'
  <2>1. Lent(m) /\ list[m] \in Lists(Threads)
    BY LentFacts DEF LentInv
  <2>2. /\ ToSet(list'[m]) \subseteq ToSet(list[m])
        /\ Ordered(list[m]) => Ordered(list'[m])
    <3>1. CASE list'[m] = list[m]
      BY <3>1
    <3>2. ASSUME NEW u, list'[m] = Unlinked(list[m], u)
          PROVE  /\ ToSet(list'[m]) \subseteq ToSet(list[m])
                 /\ Ordered(list[m]) => Ordered(list'[m])
      BY <2>1, <3>2, UnlinkedIs, OrderedUnlinked
    <3> QED
      BY <3>1, <3>2 DEF MutexesAlone
  <2> QED
    BY <2>1, <2>2 DEF Lent, Owns, MutexesAlone
<1>2. PriorityRestored'
  BY DEF LentInv, PriorityRestored, Owns, MutexesAlone
<1> QED
  BY <1>1, <1>2 DEF LentInv, MutexesAlone

\* A call on the mutex of the program
LEMMA LentStep ==
  ASSUME RtInv, LentInv, UNCHANGED <<flag, uses>>, NEW m \in Mutexes \cap uses,
         \A n \in Mutexes \ {m} : mutex'[n] = mutex[n] /\ list'[n] = list[n],
         PriorityRestored', Lent(m)'
  PROVE  LentInv'
<1>1. ASSUME NEW n \in Mutexes \ {m}
      PROVE  Lent(n)' /\ mutex'[n].owner = NoThread
  <2>1. mutex[n].owner = NoThread /\ list[n] = <<>>
    BY LentFacts
  <2>2. mutex'[n].owner = NoThread /\ list'[n] = <<>>
    BY <2>1
  <2> QED
    BY <2>2, OrderedEmpty, EmptyList, ObjectsApart DEF Lent, Owns
<1> QED
  BY <1>1 DEF LentInv

LEMMA OwnKeepsLent ==
  ASSUME RtInv, LentInv, NEW t \in Threads, NEW m \in Mutexes \cap uses, UNCHANGED uses,
         TakeOwn(t, m) \/ ReleaseNested(t, m)
  PROVE  LentInv'
<1>1. /\ UNCHANGED <<prio, list, flag>>
      /\ \E x : mutex' = [mutex EXCEPT ![m].hold = x]
  BY DEF TakeOwn, ReleaseNested, kernelVars
<1>2. /\ mutex'[m].owner = mutex[m].owner
      /\ mutex'[m].original_priority = mutex[m].original_priority
      /\ \A n \in Mutexes \ {m} : mutex'[n] = mutex[n]
  BY <1>1 DEF RtInv, MutexInv, MutexTypes
<1>3. PriorityRestored'
  <2>1. \A n \in Mutexes : mutex'[n].owner = mutex[n].owner
    BY <1>2
  <2> QED
    BY <1>1, <2>1 DEF LentInv, PriorityRestored, Owns
<1>4. Lent(m)'
  BY <1>1, <1>2 DEF LentInv, Lent, Owns
<1> QED
  BY <1>1, <1>2, <1>3, <1>4, LentStep

LEMMA TakeFreeKeepsLent ==
  ASSUME RtInv, LentInv, NEW t \in Threads, NEW m \in Mutexes \cap uses, UNCHANGED uses,
         TakeFree(t, m)
  PROVE  LentInv'
<1>1. /\ Calls(t) /\ ~Owns(t, m) /\ mutex[m].value > 0
      /\ UNCHANGED <<prio, list, flag>>
      /\ mutex' = [mutex EXCEPT ![m].value = @ - 1, ![m].owner = t,
                                ![m].original_priority = prio[t], ![m].hold = @ + 1]
  BY DEF TakeFree
<1>2. mutex[m].owner = NoThread /\ list[m] = <<>> /\ prio[t] = Base[t]
  BY <1>1, MutexFacts, LentFacts DEF MutexOK
<1>3. /\ mutex'[m].owner = t /\ mutex'[m].original_priority = prio[t]
      /\ \A n \in Mutexes \ {m} : mutex'[n] = mutex[n]
  BY <1>1 DEF RtInv, MutexInv, MutexTypes
<1>4. PriorityRestored'
  <2>1. \A u \in Threads : ~Owns(u, m) => prio[u] = Base[u]
    BY LentFacts
  <2>2. \A u \in Threads : prio'[u] = Base[u]
    BY <1>1, <1>2, <2>1, ObjectsApart DEF Owns
  <2> QED
    BY <2>2 DEF PriorityRestored
<1>5. Lent(m)'
  BY <1>1, <1>2, <1>3, OrderedEmpty, EmptyList DEF Lent, Owns
<1> QED
  BY <1>1, <1>3, <1>4, <1>5, LentStep

LEMMA TakeWaitKeepsLent ==
  ASSUME RtInv, LentInv, NEW t \in Threads, NEW m \in Mutexes \cap uses, UNCHANGED uses,
         NEW time, TakeWait(t, m, time)
  PROVE  LentInv'
<1> DEFINE o == mutex[m].owner
<1>1. /\ Calls(t) /\ ~Owns(t, m) /\ mutex[m].value = 0
      /\ UNCHANGED <<flag, mutex>>
  BY DEF TakeWait, Unavailable, ipcVars
<1>2. /\ o \in Threads /\ o # t /\ o \in All /\ t \in All
      /\ prio[t] = Base[t] /\ stat[t] = "ready"
  BY <1>1, MutexFacts, LentFacts, ThreadsAreAll DEF MutexOK, Owns
<1>3. prio[t] \in Nat /\ prio[o] \in Nat /\ prio \in PrioMaps
  BY <1>2, KernelFacts DEF PrioMaps, Prios
<1>4. PICK pr, table :
        /\ SuspendOn(t, m, time, table, pr)
        /\ \/ prio[t] < prio[o] /\ pr = [prio EXCEPT ![o] = prio[t]]
           \/ prio[t] >= prio[o] /\ pr = prio
  BY DEF TakeWait
<1> HIDE DEF o
<1>5. /\ pr[o] <= prio[o] /\ pr[o] <= prio[t] /\ pr[o] \in Nat
      /\ \A u \in Threads \ {o} : pr[u] = prio[u]
  BY <1>2, <1>3, <1>4, ThreadsAreAll DEF PrioMaps
<1>6. prio' = pr /\ list' = [list EXCEPT ![m] = Queued(m, t, pr)]
  BY <1>4 DEF SuspendOn
<1>7. /\ list[m] \in Lists(Threads) /\ m \in Objects /\ t \notin ToSet(list[m])
      /\ \A u \in ToSet(list[m]) : u \in Threads /\ u # o /\ pr[u] = Base[u]
  <2>1. \A u \in ToSet(list[m]) : u \in Threads /\ ~Owns(u, m) /\ prio[u] = Base[u]
    BY LentFacts
  <2>2. list[m] \in Lists(Threads) /\ m \in Objects
    BY LentFacts
  <2>3. t \notin ToSet(list[m])
    BY <1>2, <2>2 DEF RtInv, KernelInv, Tables, WaitOK
  <2> QED
    BY <1>5, <2>1, <2>2, <2>3 DEF Owns, o
<1>8. list'[m] = Queued(m, t, pr) /\ \A n \in Mutexes \ {m} : list'[n] = list[n]
  BY <1>6, <1>7, ObjectsApart DEF RtInv, KernelInv, Tables, WaitOK
<1>9. PriorityRestored'
  <2>1. ASSUME NEW u \in Threads, u # o PROVE prio'[u] = Base[u]
    BY <1>5, <1>6, <2>1, LentFacts DEF Owns, o
  <2> QED
    BY <1>1, <2>1 DEF PriorityRestored, Owns, o
<1>10. Lent(m)'
  <2>1. \A u \in Threads : Owns(u, m) => mutex[m].original_priority = Base[u]
    BY DEF LentInv, Lent
  <2>2. ASSUME flag[m] = "prio"
        PROVE  Ordered(Queued(m, t, pr)) /\ \A u \in ToSet(Queued(m, t, pr)) : pr[o] <= Base[u]
    <3>1. Ordered(list[m]) /\ \A u \in ToSet(list[m]) : prio[o] <= Base[u]
      BY <2>2 DEF LentInv, Lent, o
    <3>2. pr[t] = Base[t]
      BY <1>2, <1>5
    <3>3. Ordered(Queued(m, t, pr))
      BY <1>7, <2>2, <3>1, <3>2, OrderedQueued
    <3>4. ToSet(Queued(m, t, pr)) = ToSet(list[m]) \cup {t}
      <4>1. PICK at \in 1 .. Len(list[m]) + 1 : Queued(m, t, pr) = InsertAt(list[m], at, t)
        BY <1>7, QueuedAt
      <4> QED
        BY <1>7, <4>1, InsertedAt
    <3>5. ASSUME NEW u \in ToSet(list[m]) PROVE pr[o] <= Base[u]
      <4>1. prio[o] <= Base[u] /\ Base[u] \in Nat
        BY <1>7, <3>1, <3>5, KernelAssumption
      <4> QED
        BY <1>3, <1>5, <4>1
    <3> QED
      BY <1>2, <1>5, <3>3, <3>4, <3>5
  <2> QED
    BY <1>1, <1>6, <1>8, <2>1, <2>2 DEF Lent, Owns, o
<1> QED
  BY <1>1, <1>8, <1>9, <1>10, LentStep

LEMMA ReleaseFreeKeepsLent ==
  ASSUME RtInv, LentInv, NEW t \in Threads, NEW m \in Mutexes \cap uses, UNCHANGED uses,
         ReleaseFree(t, m)
  PROVE  LentInv'
<1>1. /\ Owns(t, m) /\ list[m] = <<>> /\ UNCHANGED <<list, flag>>
      /\ prio' = [prio EXCEPT ![t] = mutex[m].original_priority]
      /\ \E v, h : mutex' = [mutex EXCEPT ![m] = [value |-> v, owner |-> NoThread,
                                 original_priority |-> NoPrio, hold |-> h]]
  BY DEF ReleaseFree, LetsGo
<1>2. /\ mutex'[m].owner = NoThread
      /\ \A n \in Mutexes \ {m} : mutex'[n] = mutex[n]
  BY <1>1 DEF RtInv, MutexInv, MutexTypes
<1>3. mutex[m].original_priority = Base[t]
  BY <1>1 DEF LentInv, Lent
<1>4. PriorityRestored'
  <2>1. ASSUME NEW u \in Threads PROVE prio'[u] = Base[u]
    <3>1. CASE u = t
      BY <1>1, <1>3, <3>1, KernelFacts DEF PrioMaps
    <3>2. CASE u # t
      BY <1>1, <3>2, LentFacts, KernelFacts DEF PrioMaps, Owns
    <3> QED
      BY <3>1, <3>2
  <2> QED
    BY <2>1 DEF PriorityRestored
<1>5. Lent(m)'
  BY <1>1, <1>2, OrderedEmpty, EmptyList, ObjectsApart DEF Lent, Owns
<1> QED
  BY <1>1, <1>2, <1>4, <1>5, LentStep

LEMMA HandOverKeepsLent ==
  ASSUME RtInv, LentInv, NEW t \in Threads, NEW m \in Mutexes \cap uses, UNCHANGED uses,
         ReleaseHandOver(t, m)
  PROVE  LentInv'
<1> DEFINE u == Head(list[m])
<1>1. /\ Owns(t, m) /\ list[m] # <<>> /\ UNCHANGED flag
      /\ list' = [list EXCEPT ![m] = Tail(@)]
      /\ prio' = [prio EXCEPT ![t] = mutex[m].original_priority]
      /\ mutex' = [mutex EXCEPT ![m].owner = u, ![m].original_priority = prio[u]]
  BY DEF ReleaseHandOver, LetsGo, ResumeFirst
<1>2. /\ u \in Threads /\ u # t /\ prio[u] = Base[u] /\ m \in Objects
      /\ list[m] \in Lists(Threads)
  BY <1>1, LentFacts, HeadAndTail
<1> HIDE DEF u
<1>3. /\ mutex'[m].owner = u /\ mutex'[m].original_priority = prio[u]
      /\ \A n \in Mutexes \ {m} : mutex'[n] = mutex[n]
  BY <1>1 DEF RtInv, MutexInv, MutexTypes
<1>4. list'[m] = Tail(list[m]) /\ \A n \in Mutexes \ {m} : list'[n] = list[n]
  BY <1>1, <1>2, ObjectsApart DEF RtInv, KernelInv, Tables, WaitOK
<1>5. mutex[m].original_priority = Base[t]
  BY <1>1 DEF LentInv, Lent
<1>6. ASSUME NEW v \in Threads PROVE prio'[v] = Base[v]
  <2>1. CASE v = t
    BY <1>1, <1>5, <2>1, KernelFacts DEF PrioMaps
  <2>2. CASE v # t
    BY <1>1, <2>2, LentFacts, KernelFacts DEF PrioMaps, Owns
  <2> QED
    BY <2>1, <2>2
<1>7. PriorityRestored'
  BY <1>6 DEF PriorityRestored
<1>8. Lent(m)'
  <2>1. ASSUME flag[m] = "prio"
        PROVE  Ordered(Tail(list[m])) /\ \A v \in ToSet(Tail(list[m])) : Base[u] <= Base[v]
    BY <1>1, <1>2, <2>1, OrderedTail DEF LentInv, Lent, u
  <2> QED
    BY <1>1, <1>2, <1>3, <1>4, <1>6, <2>1 DEF Lent, Owns
<1> QED
  BY <1>1, <1>3, <1>4, <1>7, <1>8, LentStep

-----------------------------------------------------------------------------
(* The steps that leave the mutexes alone *)

LEMMA ListsAlone ==
  ASSUME UNCHANGED <<prio, mutex, flag, list>> PROVE MutexesAlone
BY DEF MutexesAlone

LEMMA OtherAlone ==
  ASSUME RtInv, NEW o, o \notin Mutexes, NEW x, list' = [list EXCEPT ![o] = x],
         UNCHANGED <<prio, mutex, flag>>
  PROVE  MutexesAlone
BY ObjectsApart DEF RtInv, KernelInv, Tables, WaitOK, MutexesAlone

LEMMA SuspendAlone ==
  ASSUME RtInv, NEW t, NEW o, o \notin Mutexes, NEW time, NEW table,
         SuspendOn(t, o, time, table, prio), UNCHANGED <<flag, mutex>>
  PROVE  MutexesAlone
<1>1. UNCHANGED prio /\ list' = [list EXCEPT ![o] = Queued(o, t, prio)]
  BY DEF SuspendOn
<1> QED
  BY <1>1, OtherAlone

LEMMA FirstAlone ==
  ASSUME RtInv, NEW o, o \notin Mutexes, NEW table, ResumeFirst(o, table),
         UNCHANGED <<prio, mutex, flag>>
  PROVE  MutexesAlone
<1>1. list' = [list EXCEPT ![o] = Tail(list[o])]
  BY DEF ResumeFirst
<1> QED
  BY <1>1, OtherAlone

LEMMA WakeAlone ==
  ASSUME RtInv, NEW o, o \notin Mutexes, WakeOne(o), UNCHANGED <<prio, mutex, flag>>
  PROVE  MutexesAlone
BY FirstAlone, ListsAlone DEF WakeOne

LEMMA ResetAlone ==
  ASSUME RtInv, NEW t, NEW b, NEW o, o \notin Mutexes, UNCHANGED mutex,
         ResetBegin(t, b) \/ ResetNext(t, b, o) \/ ResetEnd(t, b)
  PROVE  MutexesAlone
BY FirstAlone, ListsAlone DEF ResetBegin, ResetNext, ResetEnd

LEMMA KernelAlone ==
  ASSUME NEW t, \/ (KernelCall(t) \/ Sleep(t)) /\ UNCHANGED ipcVars
                \/ TakeReturn(t)
  PROVE  MutexesAlone
<1>1. UNCHANGED <<prio, mutex, flag, list>>
  BY DEF KernelCall, Schedule, Sleep, SleepReturn, Yield, TakeReturn, ipcVars
<1> QED
  BY <1>1, ListsAlone

LEMMA PutAlone == ASSUME RtInv, NEW s \in Sems, SemPut(s) PROVE MutexesAlone
BY ObjectsApart, FirstAlone, ListsAlone DEF SemPut

LEMMA SemAlone ==
  ASSUME RtInv, NEW t, NEW s \in Sems, SemCall(t, s) PROVE MutexesAlone
<1>0. s \notin Mutexes
  BY ObjectsApart
<1>1. CASE SemTakeFree(t, s)
  BY <1>1, ListsAlone DEF SemTakeFree, kernelVars
<1>2. CASE SemRelease(t, s)
  BY <1>2, PutAlone DEF SemRelease
<1>3. CASE \E time \in BOOLEAN : SemTakeWait(t, s, time)
  BY <1>0, <1>3, SuspendAlone DEF SemTakeWait, ipcVars
<1>4. CASE \/ (ResetBegin(t, s) \/ ResetNext(t, s, s)) /\ UNCHANGED ipcVars
           \/ \E value \in 0 .. MaxCount : SemResetEnd(t, s, value)
  BY <1>0, <1>4, ResetAlone DEF SemResetEnd, ipcVars
<1> QED
  BY <1>1, <1>2, <1>3, <1>4 DEF SemCall

LEMMA BoxNoMutex ==
  ASSUME NEW b \in Boxes \cup Queues PROVE b \notin Mutexes /\ Senders(b) \notin Mutexes
BY SystemAssumption

LEMMA WaitAlone ==
  ASSUME RtInv, NEW t, NEW b \in Boxes \cup Queues, NEW o \in {b, Senders(b)}, NEW time,
         WaitOn(t, o, time), UNCHANGED mutex
  PROVE  MutexesAlone
BY BoxNoMutex, SuspendAlone DEF WaitOn

LEMMA SharedAlone ==
  ASSUME RtInv, NEW t, NEW b \in Boxes \cup Queues, UNCHANGED mutex,
         ResetBegin(t, b) \/ ResetOne(t, b) \/ ResetEnd(t, b) \/ WaitFails(t, b)
  PROVE  MutexesAlone
<1>1. CASE WaitFails(t, b)
  BY <1>1, ListsAlone DEF WaitFails
<1>2. CASE ResetBegin(t, b) \/ ResetEnd(t, b)
  BY <1>2, BoxNoMutex, ResetAlone
<1>3. CASE ResetOne(t, b)
  <2>1. PICK o \in {b, Senders(b)} : ResetNext(t, b, o)
    BY <1>3 DEF ResetOne
  <2> QED
    BY <2>1, BoxNoMutex, ResetAlone
<1> QED
  BY <1>1, <1>2, <1>3

LEMMA BoxAlone ==
  ASSUME RtInv, NEW t, NEW b \in Boxes, BoxCall(t, b) \/ BoxReturn(t, b), UNCHANGED mutex
  PROVE  MutexesAlone
<1>0. b \in Boxes \cup Queues
  OBVIOUS
<1>1. ASSUME NEW v, Put(b, v) \/ Get(b), UNCHANGED <<prio, flag>> PROVE MutexesAlone
  BY <1>0, <1>1, BoxNoMutex, WakeAlone DEF Put, Get
<1>2. CASE MbSend(t, b) \/ MbRecv(t, b) \/ MbSendWoken(t, b) \/ MbRecvWoken(t, b)
  BY <1>1, <1>2 DEF MbSend, MbRecv, MbSendWoken, MbRecvWoken
<1>3. CASE \E time \in BOOLEAN : MbSendWait(t, b, time) \/ MbRecvWait(t, b, time)
  BY <1>0, <1>3, WaitAlone DEF MbSendWait, MbRecvWait
<1>4. CASE MbWaitAgain(t, b)
  BY <1>0, <1>4, WaitAlone DEF MbWaitAgain, Missed, Back
<1>5. CASE MbLate(t, b)
  BY <1>5, ListsAlone DEF MbLate, GivesUp
<1>6. CASE ResetBegin(t, b) \/ ResetOne(t, b) \/ MbResetEnd(t, b) \/ WaitFails(t, b)
  BY <1>0, <1>6, SharedAlone DEF MbResetEnd
<1> QED
  BY <1>2, <1>3, <1>4, <1>5, <1>6 DEF BoxCall, BoxReturn

LEMMA QueueAlone ==
  ASSUME RtInv, NEW t, NEW q \in Queues, QueueCall(t, q) \/ QueueReturn(t, q),
         UNCHANGED mutex
  PROVE  MutexesAlone
<1>0. q \in Boxes \cup Queues
  OBVIOUS
<1>1. ASSUME NEW x, NEW for, NEW v, CopyOf(t, q, x, for, v) PROVE MutexesAlone
  BY <1>1, ListsAlone DEF CopyOf
<1>2. CASE \/ \E for \in {"put", "urge"} : MqAlloc(t, q, for)
           \/ MqSendWoken(t, q) \/ MqRecv(t, q) \/ MqRecvWoken(t, q)
  BY <1>1, <1>2 DEF MqAlloc, MqSendWoken, MqRecv, MqRecvWoken, Alloc, Dequeue
<1>3. CASE \E time \in BOOLEAN : MqSendWait(t, q, time) \/ MqRecvWait(t, q, time)
  BY <1>0, <1>3, WaitAlone DEF MqSendWait, MqRecvWait
<1>4. CASE MqWaitAgain(t, q)
  BY <1>0, <1>4, WaitAlone DEF MqWaitAgain, MqMissed, Back
<1>5. CASE MqLate(t, q)
  BY <1>5, ListsAlone DEF MqLate, GivesUp
<1>6. CASE ResetBegin(t, q) \/ ResetOne(t, q) \/ MqResetEnd(t, q) \/ WaitFails(t, q)
  BY <1>0, <1>6, SharedAlone DEF MqResetEnd
<1>7. CASE MqLink(t, q) \/ MqFree(t, q)
  BY <1>0, <1>7, BoxNoMutex, WakeAlone DEF MqLink, MqFree
<1> QED
  BY <1>2, <1>3, <1>4, <1>5, <1>6, <1>7 DEF QueueCall, QueueReturn

LEMMA EventAlone ==
  ASSUME RtInv, NEW t, NEW e \in Events, EventCall(t, e), UNCHANGED mutex
  PROVE  MutexesAlone
<1>0. e \notin Mutexes
  BY EventsApart
<1>1. ASSUME NEW new, EvSend(t, e, new) PROVE MutexesAlone
  BY <1>1, ListsAlone DEF EvSend, Sends, kernelVars
<1>2. ASSUME NEW a, EvRecv(t, e, a) \/ EvRecvBusy(t, e, a) PROVE MutexesAlone
  BY <1>2, ListsAlone DEF EvRecv, EvRecvBusy
<1>3. ASSUME NEW a, NEW time, EvRecvWait(t, e, a, time) PROVE MutexesAlone
  BY <1>0, <1>3, SuspendAlone DEF EvRecvWait
<1>4. CASE EvReturn(t, e)
  BY <1>4, ListsAlone DEF EvReturn
<1>5. CASE ResetBegin(t, e) \/ ResetNext(t, e, e) \/ EvResetEnd(t, e)
  BY <1>0, <1>5, ResetAlone DEF EvResetEnd
<1> QED
  BY <1>1, <1>2, <1>3, <1>4, <1>5 DEF EventCall

\* rt_thread_resume out of whatever list
LEMMA ResumeAlone ==
  ASSUME NEW u, Resume(u), UNCHANGED <<prio, mutex, flag>>
  PROVE  MutexesAlone
<1>1. \A m \in Mutexes : list'[m] = Unlinked(list[m], u)
  BY ObjectsApart DEF Resume
<1> QED
  BY <1>1 DEF MutexesAlone

LEMMA InterruptAlone == ASSUME RtInv, Interrupt PROVE MutexesAlone
<1>1. CASE Slice /\ UNCHANGED ipcVars
  BY <1>1, ListsAlone DEF Slice, ipcVars
<1>2. ASSUME NEW t, Timeout(t), UNCHANGED ipcVars PROVE MutexesAlone
  BY <1>2, ResumeAlone DEF Timeout, ipcVars
<1>3. ASSUME NEW s \in Sems, SemReleaseIsr(s) PROVE MutexesAlone
  BY <1>3, PutAlone DEF SemReleaseIsr
<1>4. ASSUME NEW b \in Boxes, MbSendIsr(b), UNCHANGED ipcVars PROVE MutexesAlone
  BY <1>4, BoxNoMutex, WakeAlone DEF MbSendIsr, Put, ipcVars
<1>5. ASSUME NEW q \in Queues, MqSendIsr(q), UNCHANGED ipcVars PROVE MutexesAlone
  BY <1>5, BoxNoMutex, WakeAlone DEF MqSendIsr, ipcVars
<1>6. ASSUME NEW e, NEW new, EvSendIsr(e, new), UNCHANGED ipcVars PROVE MutexesAlone
  BY <1>6, ListsAlone DEF EvSendIsr, Sends, kernelVars, ipcVars
<1> QED
  BY <1>1, <1>2, <1>3, <1>4, <1>5, <1>6 DEF Interrupt, Tick

LEMMA SendAlone == ASSUME SendStep, UNCHANGED ipcVars PROVE MutexesAlone
<1>1. ASSUME NEW e, EvResume(e) PROVE MutexesAlone
  BY <1>1, ResumeAlone DEF EvResume, ipcVars
<1>2. ASSUME NEW e, EvSendEnd(e) PROVE MutexesAlone
  BY <1>2, ListsAlone DEF EvSendEnd, ipcVars
<1> QED
  BY <1>1, <1>2 DEF SendStep

LEMMA ThreadStepKeepsLent ==
  ASSUME RtInv, LentInv, NEW t \in Threads, ThreadStep(t), UNCHANGED uses
  PROVE  LentInv'
<1>1. ASSUME NEW m \in Mutexes \cap uses, MutexCall(t, m) PROVE LentInv'
  <2>1. CASE TakeBusy(t, m) \/ ReleaseForeign(t, m)
    BY <2>1, ListsAlone, AloneKeeps DEF TakeBusy, ReleaseForeign, ipcVars
  <2>2. CASE TakeOwn(t, m) \/ ReleaseNested(t, m)
    BY <2>2, OwnKeepsLent
  <2>3. CASE TakeFree(t, m)
    BY <2>3, TakeFreeKeepsLent
  <2>4. CASE \E time \in BOOLEAN : TakeWait(t, m, time)
    BY <2>4, TakeWaitKeepsLent
  <2>5. CASE ReleaseFree(t, m)
    BY <2>5, ReleaseFreeKeepsLent
  <2>6. CASE ReleaseHandOver(t, m)
    BY <2>6, HandOverKeepsLent
  <2> QED
    BY <1>1, <2>1, <2>2, <2>3, <2>4, <2>5, <2>6 DEF MutexCall
<1>2. CASE \/ (KernelCall(t) \/ Sleep(t)) /\ UNCHANGED ipcVars
           \/ TakeReturn(t)
  BY <1>2, KernelAlone, AloneKeeps
<1>3. CASE \E s \in Sems : SemCall(t, s)
  BY <1>3, SemAlone, AloneKeeps
<1>4. CASE (\E b \in Boxes : BoxCall(t, b) \/ BoxReturn(t, b)) /\ UNCHANGED ipcVars
  BY <1>4, BoxAlone, AloneKeeps DEF ipcVars
<1>5. CASE (\E q \in Queues : QueueCall(t, q) \/ QueueReturn(t, q)) /\ UNCHANGED ipcVars
  BY <1>5, QueueAlone, AloneKeeps DEF ipcVars
<1>6. CASE (\E e \in Events : EventCall(t, e)) /\ UNCHANGED ipcVars
  BY <1>6, EventAlone, AloneKeeps DEF ipcVars
<1> QED
  BY <1>1, <1>2, <1>3, <1>4, <1>5, <1>6 DEF ThreadStep

\* A thread has its own priority back when it has given back its mutex, and
\* an owner is as urgent as all who wait for it, through nested takes, waits,
\* handovers, timeouts of those who lent it theirs and interrupts, if no
\* program uses two mutexes.
THEOREM PrioritiesAreLent ==
  ASSUME OneMutexEach PROVE RtSpec => []PriorityInheritance
<1>1. RtInit => LentInv
  <2> SUFFICES ASSUME RtInit PROVE LentInv
    OBVIOUS
  <2>1. /\ mutex = [m \in Mutexes |-> FreeMutex] /\ list = [o \in Objects |-> <<>>]
        /\ prio = [t \in All |-> IF t = Idle THEN Lowest ELSE Base[t]]
    BY DEF RtInit, KernelInit, IpcInit
  <2>2. \A m, n \in Mutexes \cap uses : m = n
    BY DEF RtInit, OneMutexEach
  <2>3. PriorityRestored
    BY <2>1, ThreadsAreAll DEF PriorityRestored
  <2>4. \A m \in Mutexes : mutex[m].owner = NoThread /\ list[m] = <<>>
    BY <2>1, ObjectsApart DEF FreeMutex
  <2>5. \A m \in Mutexes : Lent(m)
    BY <2>4, OrderedEmpty, EmptyList, ObjectsApart DEF Lent, Owns
  <2> QED
    BY <2>2, <2>3, <2>4, <2>5 DEF LentInv
<1>2. RtInv /\ LentInv /\ [RtNext]_vars => LentInv'
  <2> SUFFICES ASSUME RtInv, LentInv, [RtNext]_vars PROVE LentInv'
    OBVIOUS
  <2>1. ASSUME NEW t \in Threads, ThreadStep(t), UNCHANGED uses PROVE LentInv'
    BY <2>1, ThreadStepKeepsLent
  <2>2. CASE Interrupt /\ UNCHANGED uses
    BY <2>2, InterruptAlone, AloneKeeps
  <2>3. CASE SendStep /\ UNCHANGED <<ipcVars, uses>>
    BY <2>3, SendAlone, AloneKeeps
  <2>4. CASE UNCHANGED vars
    BY <2>4, ListsAlone, AloneKeeps DEF vars, kernelVars, ipcVars
  <2> QED
    BY <2>1, <2>2, <2>3, <2>4 DEF RtNext
<1>3. RtInv /\ LentInv => PriorityInheritance
  <2> SUFFICES ASSUME RtInv, LentInv PROVE PriorityInheritance
    OBVIOUS
  <2>1. ASSUME NEW m \in Mutexes, flag[m] = "prio", NEW t \in ToSet(list[m])
        PROVE  prio[mutex[m].owner] <= prio[t]
    <3>1. prio[mutex[m].owner] <= Base[t]
      BY <2>1 DEF LentInv, Lent
    <3>2. prio[t] = Base[t]
      BY LentFacts
    <3> QED
      BY <3>1, <3>2
  <2> QED
    BY <2>1 DEF PriorityInheritance, Inherits, LentInv
<1> QED
  BY <1>1, <1>2, <1>3, RtInvariant, PTL DEF RtSpec
=============================================================================
