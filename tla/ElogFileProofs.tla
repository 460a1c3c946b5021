--------------------------- MODULE ElogFileProofs ---------------------------
(***************************************************************************)
(* For any number of writers, names, configurations and files, the log on  *)
(* disk stays in order, and unbroken from the last gap that the removal of *)
(* a file left.                                                            *)
(*                                                                         *)
(* The invariant says which lines each file holds: file i those from       *)
(* lo[i] + 1 to hi[i], where hi[i] is at most lo of every newer file, and  *)
(* equal to that of the next newer one as long as there is no gap.  A      *)
(* rename moves such an interval, a removal empties one.  It needs to know *)
(* where the rotation is: which file it may rename over, that the stdio    *)
(* buffer is empty until the next write, and that there is room for the    *)
(* line wherever one is about to be written.                               *)
(***************************************************************************)
EXTENDS ElogFile, SequenceTheorems, WellFoundedInduction, TLAPS

Bounds == [0 .. MaxFiles -> Nat]

\* s holds the lines a + 1 to b.
Holds(s, a, b) ==
    s \in Seq(Nat) /\ a + Len(s) = b /\ \A j \in 1 .. Len(s) : s[j] = a + j

\* The files d of a name hold the lines up to w, the first k of the rotated
\* ones without a gap.
CutAt(d, k, w, lo, hi) ==
    /\ \A i \in 0 .. MaxFiles : Holds(d[i], lo[i], hi[i])
    /\ \A i, j \in 0 .. MaxFiles : i < j => hi[j] <= lo[i]
    /\ \A i \in 1 .. k : hi[i] = lo[i - 1]
    /\ hi[0] = w

InOrder(d, k, w) == \E lo, hi \in Bounds : CutAt(d, k, w, lo, hi)

\* What the stdio buffer holds of the log file of f.
Buffered(f) == IF f = name THEN cache ELSE <<>>

LogOK(f) == \E w \in Nat : InOrder(disk[f], whole[f], w) /\ Holds(Buffered(f), w, wrote[f])

Unbroken == \A f \in Names : LogOK(f)

FileTypeOK ==
    /\ build \in Builds
    /\ init_ok \in BOOLEAN /\ fp \in BOOLEAN
    /\ local_cfg \in ElogFileCfg
    /\ owner \in Contexts \cup {NoOne}
    /\ pc \in [Contexts -> Points]
    /\ n \in 0 .. MaxFiles
    /\ disk \in [Names -> [0 .. MaxFiles -> Seq(Nat)]]
    /\ cache \in Seq(Nat)
    /\ wrote \in [Names -> Nat]
    /\ whole \in [Names -> 0 .. MaxFiles]
    /\ mistaken \subseteq 0 .. MaxFiles

\* Whoever is past the port lock has it.
PortHeld == \A c \in Contexts : pc[c] \notin {"idle", "lock"} => owner = c

\* File n may be renamed over: nothing is lost but what may be.
Spare == n = local_cfg.max_rotate \/ disk[name][n] = <<>> \/ n \in mistaken

\* The log file has room for a line, or SizeBounded names the reason.
Room ==
    \/ Len(disk[name][0]) <= local_cfg.max_size
    \/ build.max_rotate > 0 /\ (local_cfg.max_rotate = 0 \/ 0 \in mistaken)

\* Where a context is, past the port lock.
At(p) ==
    /\ p \in {"remove", "rename"} => n >= 1 /\ build.max_rotate > 0 /\ Spare
    /\ p \in {"remove", "rename", "reopen", "reopen_failed", "write"} =>
          cache = <<>> /\ name \in Names
    /\ p \in {"reopen", "write"} => Room
    /\ p \in Purposes => cache = <<>>

Rotating == (fp => name \in Names) /\ \A c \in Contexts : At(pc[c])

FileIInv ==
    /\ FileTypeOK
    /\ PortHeld
    /\ Rotating
    /\ Len(cache) <= 1
    /\ Unbroken

-----------------------------------------------------------------------------
(* What a file holds. *)

\* A set of numbers has a least one.
LEMMA LeastNumber ==
  ASSUME NEW N, N \subseteq Nat, N # {} PROVE \E x \in N : \A y \in N : x <= y
<1> DEFINE R == OpToRel(<, Nat)
<1>1. \A x, y \in Nat : y < x => <<y, x>> \in R
  BY DEF OpToRel
<1>2. IsWellFoundedOn(R, Nat)
  BY NatLessThanWellFounded
<1> HIDE DEF R
<1>3. PICK x \in N : \A y \in N : ~ (<<y, x>> \in R)
  BY <1>2, WFMin
<1>4. ASSUME NEW y \in N PROVE x <= y
  <2>1. x \in Nat /\ y \in Nat
    OBVIOUS
  <2>2. y < x => <<y, x>> \in R
    BY <1>1, <2>1
  <2> QED
    BY <1>3, <2>1, <2>2
<1> QED
  BY <1>4

LEMMA HoldsNothing == ASSUME NEW a \in Nat PROVE Holds(<<>>, a, a)
BY EmptySeq DEF Holds

LEMMA HoldsNext ==
  ASSUME NEW a \in Nat PROVE Holds(<<a + 1>>, a, a + 1)
<1> DEFINE s == <<a + 1>>
<1>1. s \in Seq(Nat) /\ Len(s) = 1 /\ s[1] = a + 1
  OBVIOUS
<1> HIDE DEF s
<1>2. Holds(s, a, a + 1)
  BY <1>1 DEF Holds
<1> QED
  BY <1>2 DEF s

LEMMA HoldsJoined ==
  ASSUME NEW a \in Nat, NEW b \in Nat, NEW c \in Nat, NEW s, NEW t,
         Holds(s, a, b), Holds(t, b, c)
  PROVE  Holds(s \o t, a, c)
<1>1. s \in Seq(Nat) /\ t \in Seq(Nat) /\ Len(s) \in Nat /\ Len(t) \in Nat
  BY LenProperties DEF Holds
<1>2. /\ s \o t \in Seq(Nat) /\ Len(s \o t) = Len(s) + Len(t)
      /\ \A j \in 1 .. Len(s) + Len(t) :
            (s \o t)[j] = IF j <= Len(s) THEN s[j] ELSE t[j - Len(s)]
  BY <1>1, ConcatProperties
<1>3. a + Len(s) = b /\ b + Len(t) = c
  BY DEF Holds
<1>4. ASSUME NEW j \in 1 .. Len(s) + Len(t) PROVE (s \o t)[j] = a + j
  <2>1. CASE j <= Len(s)
    BY <1>1, <1>2, <2>1 DEF Holds
  <2>2. CASE ~ (j <= Len(s))
    <3>1. j - Len(s) \in 1 .. Len(t)
      BY <1>1, <2>2
    <3>2. t[j - Len(s)] = b + (j - Len(s))
      BY <3>1 DEF Holds
    <3> QED
      BY <1>1, <1>2, <1>3, <2>2, <3>2
  <2> QED
    BY <2>1, <2>2
<1>5. a + Len(s \o t) = c
  BY <1>1, <1>2, <1>3
<1> QED
  BY <1>2, <1>4, <1>5 DEF Holds

\* Which lines a file holds determines the file.
LEMMA HoldsSame ==
  ASSUME NEW a \in Nat, NEW b \in Nat, NEW s, NEW t, Holds(s, a, b), Holds(t, a, b)
  PROVE  s = t
<1>1. s \in Seq(Nat) /\ t \in Seq(Nat) /\ Len(s) \in Nat /\ Len(t) \in Nat
  BY LenProperties DEF Holds
<1>2. Len(s) = Len(t)
  BY <1>1 DEF Holds
<1>3. \A j \in 1 .. Len(s) : s[j] = t[j]
  BY <1>2 DEF Holds
<1> QED
  BY <1>1, <1>2, <1>3, SeqEqual

LEMMA HoldsOrdered ==
  ASSUME NEW a \in Nat, NEW b \in Nat, NEW s, Holds(s, a, b)
  PROVE  /\ s \in Seq(Nat) /\ Len(s) \in Nat /\ b = a + Len(s) /\ a <= b
         /\ ToSet(s) = a + 1 .. b
         /\ s = <<>> => a = b
<1>1. s \in Seq(Nat) /\ Len(s) \in Nat /\ b = a + Len(s) /\ DOMAIN s = 1 .. Len(s)
  BY LenProperties DEF Holds
<1>2. \A j \in 1 .. Len(s) : s[j] = a + j
  BY DEF Holds
<1>3. ToSet(s) = {a + j : j \in 1 .. Len(s)}
  BY <1>1, <1>2 DEF ToSet
<1>4. \A k \in a + 1 .. b : k - a \in 1 .. Len(s) /\ a + (k - a) = k
  BY <1>1
<1>5. ToSet(s) = a + 1 .. b
  BY <1>1, <1>3, <1>4
<1>6. s = <<>> => Len(s) = 0
  BY EmptySeq
<1> QED
  BY <1>1, <1>5, <1>6

-----------------------------------------------------------------------------
(* The files of a name. *)

\* The intervals of files and what they have to do with each other.
LEMMA CutFacts ==
  ASSUME NEW d, NEW k, NEW w, NEW lo \in Bounds, NEW hi \in Bounds, CutAt(d, k, w, lo, hi)
  PROVE  \A i \in 0 .. MaxFiles : lo[i] \in Nat /\ hi[i] \in Nat /\ lo[i] <= hi[i]
<1>1. \A i \in 0 .. MaxFiles : lo[i] \in Nat /\ hi[i] \in Nat
  BY DEF Bounds
<1> QED
  BY <1>1, HoldsOrdered DEF CutAt

LEMMA NoFiles == InOrder([i \in 0 .. MaxFiles |-> <<>>], MaxFiles, 0)
<1> DEFINE zero == [i \in 0 .. MaxFiles |-> 0]  d == [i \in 0 .. MaxFiles |-> <<>>]
<1>1. MaxFiles \in Nat /\ zero \in Bounds /\ \A i \in 0 .. MaxFiles : zero[i] = 0 /\ d[i] = <<>>
  BY FileAssumption DEF Bounds
<1> HIDE DEF zero, d
<1>2. Holds(<<>>, 0, 0)
  BY HoldsNothing
<1>3. \A i \in 1 .. MaxFiles : i \in 0 .. MaxFiles /\ i - 1 \in 0 .. MaxFiles
  BY <1>1
<1>4. CutAt(d, MaxFiles, 0, zero, zero)
  BY <1>1, <1>2, <1>3 DEF CutAt
<1> QED
  BY <1>1, <1>4 DEF InOrder, d

\* Lines are appended to the log file.
LEMMA AppendLog ==
  ASSUME NEW d \in [0 .. MaxFiles -> Seq(Nat)], NEW k \in 0 .. MaxFiles, NEW w \in Nat,
         NEW s, NEW v \in Nat, InOrder(d, k, w), Holds(s, w, v)
  PROVE  InOrder([d EXCEPT ![0] = @ \o s], k, v)
<1> DEFINE e == [d EXCEPT ![0] = @ \o s]
<1>1. PICK lo, hi \in Bounds : CutAt(d, k, w, lo, hi)
  BY DEF InOrder
<1>2. /\ MaxFiles \in Nat
      /\ \A i \in 0 .. MaxFiles : lo[i] \in Nat /\ hi[i] \in Nat /\ lo[i] <= hi[i]
      /\ \A i \in 0 .. MaxFiles : Holds(d[i], lo[i], hi[i])
      /\ \A i, j \in 0 .. MaxFiles : i < j => hi[j] <= lo[i]
      /\ \A i \in 1 .. k : hi[i] = lo[i - 1]
      /\ hi[0] = w
  <2>1. \A i \in 0 .. MaxFiles : lo[i] \in Nat /\ hi[i] \in Nat /\ lo[i] <= hi[i]
    BY <1>1, CutFacts
  <2> QED
    BY <1>1, <2>1, FileAssumption DEF CutAt
<1>3. 0 \in 0 .. MaxFiles /\ e[0] = d[0] \o s /\ \A i \in 0 .. MaxFiles : i # 0 => e[i] = d[i]
  BY <1>2
<1>4. PICK up \in Bounds : up[0] = v /\ \A i \in 0 .. MaxFiles : i # 0 => up[i] = hi[i]
  <2>1. /\ [hi EXCEPT ![0] = v] \in Bounds /\ [hi EXCEPT ![0] = v][0] = v
        /\ \A i \in 0 .. MaxFiles : i # 0 => [hi EXCEPT ![0] = v][i] = hi[i]
    BY <1>3 DEF Bounds
  <2> QED
    BY <2>1
<1> HIDE DEF e
<1>5. Holds(d[0] \o s, lo[0], v)
  BY <1>2, <1>3, HoldsJoined
<1>6. \A i \in 0 .. MaxFiles : Holds(e[i], lo[i], up[i])
  BY <1>2, <1>3, <1>4, <1>5
<1>7. \A i, j \in 0 .. MaxFiles : i < j => up[j] <= lo[i]
  BY <1>2, <1>4
<1>8. \A i \in 1 .. k : up[i] = lo[i - 1]
  BY <1>2, <1>4
<1>9. CutAt(e, k, v, lo, up)
  BY <1>4, <1>6, <1>7, <1>8 DEF CutAt
<1> QED
  BY <1>9 DEF InOrder, e

\* A rotated file is removed: a gap, unless those after it held nothing.
LEMMA RemoveFile ==
  ASSUME NEW d \in [0 .. MaxFiles -> Seq(Nat)], NEW k \in 0 .. MaxFiles, NEW w \in Nat,
         NEW m \in 1 .. MaxFiles, InOrder(d, k, w), NEW q \in 0 .. MaxFiles, q <= m, q <= k
  PROVE  InOrder([d EXCEPT ![m] = <<>>], q, w)
<1> DEFINE e == [d EXCEPT ![m] = <<>>]
<1>1. PICK lo, hi \in Bounds : CutAt(d, k, w, lo, hi)
  BY DEF InOrder
<1>2. /\ MaxFiles \in Nat
      /\ \A i \in 0 .. MaxFiles : lo[i] \in Nat /\ hi[i] \in Nat /\ lo[i] <= hi[i]
      /\ \A i \in 0 .. MaxFiles : Holds(d[i], lo[i], hi[i])
      /\ \A i, j \in 0 .. MaxFiles : i < j => hi[j] <= lo[i]
      /\ \A i \in 1 .. k : hi[i] = lo[i - 1]
      /\ hi[0] = w
  <2>1. \A i \in 0 .. MaxFiles : lo[i] \in Nat /\ hi[i] \in Nat /\ lo[i] <= hi[i]
    BY <1>1, CutFacts
  <2> QED
    BY <1>1, <2>1, FileAssumption DEF CutAt
<1>3. /\ m \in 0 .. MaxFiles /\ m - 1 \in 0 .. MaxFiles
      /\ e[m] = <<>> /\ \A i \in 0 .. MaxFiles : i # m => e[i] = d[i]
  BY <1>2
<1> DEFINE c == lo[m - 1]
<1>4. PICK down \in Bounds : down[m] = c /\ \A i \in 0 .. MaxFiles : i # m => down[i] = lo[i]
  <2>1. /\ [lo EXCEPT ![m] = c] \in Bounds /\ [lo EXCEPT ![m] = c][m] = c
        /\ \A i \in 0 .. MaxFiles : i # m => [lo EXCEPT ![m] = c][i] = lo[i]
    BY <1>2, <1>3 DEF Bounds
  <2> QED
    BY <2>1
<1>5. PICK up \in Bounds : up[m] = c /\ \A i \in 0 .. MaxFiles : i # m => up[i] = hi[i]
  <2>1. /\ [hi EXCEPT ![m] = c] \in Bounds /\ [hi EXCEPT ![m] = c][m] = c
        /\ \A i \in 0 .. MaxFiles : i # m => [hi EXCEPT ![m] = c][i] = hi[i]
    BY <1>2, <1>3 DEF Bounds
  <2> QED
    BY <2>1
<1> HIDE DEF e
<1>6. ASSUME NEW i \in 0 .. MaxFiles PROVE Holds(e[i], down[i], up[i])
  <2>1. CASE i = m
    <3>1. Holds(<<>>, c, c)
      BY <1>2, <1>3, HoldsNothing
    <3> QED
      BY <1>3, <1>4, <1>5, <2>1, <3>1
  <2>2. CASE i # m
    <3>1. e[i] = d[i] /\ down[i] = lo[i] /\ up[i] = hi[i]
      BY <1>3, <1>4, <1>5, <2>2
    <3> QED
      BY <1>2, <3>1
  <2> QED
    BY <2>1, <2>2
<1>7. ASSUME NEW i \in 0 .. MaxFiles, NEW j \in 0 .. MaxFiles, i < j PROVE up[j] <= down[i]
  <2>1. CASE j = m
    <3>1. i = m - 1 \/ i < m - 1
      BY <1>2, <1>7, <2>1
    <3>2. down[i] = lo[i] /\ up[j] = lo[m - 1]
      BY <1>4, <1>5, <1>7, <2>1
    <3>3. CASE i = m - 1
      <4>1. lo[m - 1] \in Nat
        BY <1>2, <1>3
      <4> QED
        BY <3>2, <3>3, <4>1
    <3>4. CASE i < m - 1
      <4>1. lo[m - 1] <= hi[m - 1] /\ hi[m - 1] <= lo[i]
        BY <1>2, <1>3, <3>4
      <4>2. lo[m - 1] \in Nat /\ hi[m - 1] \in Nat /\ lo[i] \in Nat
        BY <1>2, <1>3
      <4> QED
        BY <3>2, <4>1, <4>2
    <3> QED
      BY <3>1, <3>3, <3>4
  <2>2. CASE i = m
    <3>1. m - 1 < j /\ j # m
      BY <1>2, <1>7, <2>2
    <3>2. hi[j] <= lo[m - 1]
      BY <1>2, <1>3, <3>1
    <3> QED
      BY <1>4, <1>5, <2>2, <3>1, <3>2
  <2>3. CASE i # m /\ j # m
    BY <1>2, <1>4, <1>5, <1>7, <2>3
  <2> QED
    BY <2>1, <2>2, <2>3
<1>8. ASSUME NEW i \in 1 .. q PROVE up[i] = down[i - 1]
  <2>1. i \in 1 .. k /\ i \in 0 .. MaxFiles /\ i - 1 \in 0 .. MaxFiles /\ i - 1 # m
    BY <1>2
  <2> QED
    BY <1>2, <1>4, <1>5, <2>1
<1>9. up[0] = w
  BY <1>2, <1>5
<1>10. CutAt(e, q, w, down, up)
  BY <1>6, <1>7, <1>8, <1>9 DEF CutAt
<1> QED
  BY <1>10 DEF InOrder, e

\* A file is renamed to one that holds nothing.  A gap that was behind it is
\* now one file further off.
LEMMA RenameFile ==
  ASSUME NEW d \in [0 .. MaxFiles -> Seq(Nat)], NEW k \in 0 .. MaxFiles, NEW w \in Nat,
         NEW m \in 1 .. MaxFiles, InOrder(d, k, w), d[m] = <<>>,
         NEW q \in 0 .. MaxFiles, q <= k \/ (k = m - 1 /\ q = m)
  PROVE  InOrder([d EXCEPT ![m] = d[m - 1], ![m - 1] = <<>>], q, w)
<1> DEFINE e == [d EXCEPT ![m] = d[m - 1], ![m - 1] = <<>>]
<1>1. PICK lo, hi \in Bounds : CutAt(d, k, w, lo, hi)
  BY DEF InOrder
<1>2. /\ MaxFiles \in Nat
      /\ \A i \in 0 .. MaxFiles : lo[i] \in Nat /\ hi[i] \in Nat /\ lo[i] <= hi[i]
      /\ \A i \in 0 .. MaxFiles : Holds(d[i], lo[i], hi[i])
      /\ \A i, j \in 0 .. MaxFiles : i < j => hi[j] <= lo[i]
      /\ \A i \in 1 .. k : hi[i] = lo[i - 1]
      /\ hi[0] = w
  <2>1. \A i \in 0 .. MaxFiles : lo[i] \in Nat /\ hi[i] \in Nat /\ lo[i] <= hi[i]
    BY <1>1, CutFacts
  <2> QED
    BY <1>1, <2>1, FileAssumption DEF CutAt
<1>3. /\ m \in 0 .. MaxFiles /\ m - 1 \in 0 .. MaxFiles /\ m # m - 1
      /\ e[m] = d[m - 1] /\ e[m - 1] = <<>>
      /\ \A i \in 0 .. MaxFiles : i # m /\ i # m - 1 => e[i] = d[i]
  BY <1>2
<1> DEFINE a == lo[m - 1]  c == hi[m - 1]
<1>4. PICK down \in Bounds :
         /\ down[m] = a /\ down[m - 1] = c
         /\ \A i \in 0 .. MaxFiles : i # m /\ i # m - 1 => down[i] = lo[i]
  <2> DEFINE g == [lo EXCEPT ![m] = a, ![m - 1] = c]
  <2>1. /\ g \in Bounds /\ g[m] = a /\ g[m - 1] = c
        /\ \A i \in 0 .. MaxFiles : i # m /\ i # m - 1 => g[i] = lo[i]
    BY <1>2, <1>3 DEF Bounds
  <2> QED
    BY <2>1
<1>5. PICK up \in Bounds : up[m] = c /\ \A i \in 0 .. MaxFiles : i # m => up[i] = hi[i]
  <2>1. /\ [hi EXCEPT ![m] = c] \in Bounds /\ [hi EXCEPT ![m] = c][m] = c
        /\ \A i \in 0 .. MaxFiles : i # m => [hi EXCEPT ![m] = c][i] = hi[i]
    BY <1>2, <1>3 DEF Bounds
  <2> QED
    BY <2>1
<1> HIDE DEF e
<1>6. ASSUME NEW i \in 0 .. MaxFiles PROVE Holds(e[i], down[i], up[i])
  <2>1. CASE i = m
    BY <1>2, <1>3, <1>4, <1>5, <2>1
  <2>2. CASE i = m - 1
    <3>1. Holds(<<>>, c, c)
      BY <1>2, <1>3, HoldsNothing
    <3>2. up[m - 1] = c
      BY <1>3, <1>5
    <3> QED
      BY <1>3, <1>4, <2>2, <3>1, <3>2
  <2>3. CASE i # m /\ i # m - 1
    BY <1>2, <1>3, <1>4, <1>5, <2>3
  <2> QED
    BY <2>1, <2>2, <2>3
<1>7. lo[m] = hi[m]
  <2>1. Holds(<<>>, lo[m], hi[m]) /\ lo[m] \in Nat /\ hi[m] \in Nat
    BY <1>2, <1>3
  <2> QED
    BY <2>1, HoldsOrdered
<1>8. ASSUME NEW i \in 0 .. MaxFiles, NEW j \in 0 .. MaxFiles, i < j PROVE up[j] <= down[i]
  <2>0. hi[j] <= lo[i] /\ lo[i] <= hi[i]
    BY <1>2, <1>8
  <2>1. CASE j = m
    <3>1. CASE i = m - 1
      BY <1>2, <1>3, <1>4, <1>5, <2>1, <3>1
    <3>2. CASE i # m - 1
      <4>1. i < m - 1 /\ i # m
        BY <1>2, <1>8, <2>1, <3>2
      <4>2. hi[m - 1] <= lo[i]
        BY <1>2, <1>3, <4>1
      <4> QED
        BY <1>4, <1>5, <2>1, <3>2, <4>1, <4>2
    <3> QED
      BY <3>1, <3>2
  <2>2. CASE j # m /\ i = m
    <3>1. m - 1 < j
      BY <1>2, <1>8, <2>2
    <3>2. hi[j] <= lo[m - 1]
      BY <1>2, <1>3, <3>1
    <3> QED
      BY <1>4, <1>5, <2>2, <3>2
  <2>3. CASE j # m /\ i = m - 1
    <3>1. hi[j] \in Nat /\ lo[i] \in Nat /\ hi[i] \in Nat
      BY <1>2
    <3>2. up[j] = hi[j] /\ down[i] = hi[i]
      BY <1>4, <1>5, <2>3
    <3> QED
      BY <2>0, <3>1, <3>2
  <2>4. CASE j # m /\ i # m /\ i # m - 1
    BY <1>4, <1>5, <2>0, <2>4
  <2> QED
    BY <2>1, <2>2, <2>3, <2>4
<1>9. ASSUME NEW i \in 1 .. q PROVE up[i] = down[i - 1]
  <2>0. i \in 0 .. MaxFiles /\ i - 1 \in 0 .. MaxFiles /\ (i # m => i \in 1 .. k)
    <3>1. MaxFiles \in Nat
      BY <1>2
    <3>2. CASE q <= k
      BY <3>1, <3>2
    <3>3. CASE k = m - 1 /\ q = m
      BY <3>1, <3>3
    <3> QED
      BY <3>2, <3>3
  <2>1. CASE i = m
    BY <1>4, <1>5, <2>1
  <2>2. CASE i # m /\ i - 1 = m
    <3>1. hi[i] = lo[i - 1] /\ m \in 1 .. k
      BY <1>2, <2>0, <2>2
    <3>2. hi[m] = lo[m - 1]
      BY <1>2, <3>1
    <3> QED
      BY <1>4, <1>5, <1>7, <2>0, <2>2, <3>1, <3>2
  <2>3. CASE i # m /\ i - 1 # m
    <3>1. i - 1 # m - 1 /\ hi[i] = lo[i - 1]
      BY <1>2, <2>0, <2>3
    <3> QED
      BY <1>4, <1>5, <2>0, <2>3, <3>1
  <2> QED
    BY <2>1, <2>2, <2>3
<1>10. up[0] = w
  <2>1. 0 \in 0 .. MaxFiles /\ 0 # m /\ hi[0] = w
    BY <1>2
  <2> QED
    BY <1>5, <2>1
<1>11. CutAt(e, q, w, down, up)
  BY <1>6, <1>8, <1>9, <1>10 DEF CutAt
<1> QED
  BY <1>11 DEF InOrder, e

-----------------------------------------------------------------------------
(* The steps on the files. *)

\* A name whose files, stdio buffer and histories stay as they are.
LEMMA SameLog ==
  ASSUME NEW f, LogOK(f), disk'[f] = disk[f], whole'[f] = whole[f], wrote'[f] = wrote[f],
         Buffered(f)' = Buffered(f)
  PROVE  LogOK(f)'
BY DEF LogOK

\* Appending one after the other is appending both at once.
LEMMA JoinedInTurn ==
  ASSUME NEW a \in Seq(Nat), NEW b \in Seq(Nat), NEW c \in Seq(Nat)
  PROVE  a \o b \o c = a \o (b \o c)
BY ConcatAssociative

\* One file of a name changes.
LEMMA OneFile ==
  ASSUME NEW d \in [0 .. MaxFiles -> Seq(Nat)], NEW m \in 0 .. MaxFiles, NEW s \in Seq(Nat)
  PROVE  /\ [d EXCEPT ![m] = s] \in [0 .. MaxFiles -> Seq(Nat)]
         /\ [d EXCEPT ![m] = s][m] = s
         /\ \A i \in 0 .. MaxFiles : i # m => [d EXCEPT ![m] = s][i] = d[i]
OBVIOUS

LEMMA SameLogs ==
  ASSUME Unbroken, UNCHANGED <<disk, whole, wrote, cache>>, UNCHANGED local_cfg \/ cache = <<>>
  PROVE  Unbroken'
<1>1. \A f \in Names : Buffered(f)' = Buffered(f)
  BY DEF Buffered, name
<1> QED
  BY <1>1, SameLog DEF Unbroken

\* The stdio buffer goes to the log file, with the line written if any.
LEMMA AppendStep ==
  ASSUME FileTypeOK, name \in Names, LogOK(name), NEW s, Holds(s, wrote[name], wrote'[name]),
         wrote'[name] \in Nat, disk'[name] = [disk[name] EXCEPT ![0] = @ \o cache \o s],
         cache' = <<>>, whole'[name] = whole[name], UNCHANGED local_cfg
  PROVE  LogOK(name)'
<1>1. PICK w \in Nat : InOrder(disk[name], whole[name], w) /\ Holds(cache, w, wrote[name])
  BY DEF LogOK, Buffered
<1>2. /\ disk[name] \in [0 .. MaxFiles -> Seq(Nat)] /\ whole[name] \in 0 .. MaxFiles
      /\ wrote[name] \in Nat /\ 0 \in 0 .. MaxFiles
  BY FileAssumption DEF FileTypeOK
<1>3. Holds(cache \o s, w, wrote'[name])
  BY <1>1, <1>2, HoldsJoined
<1>4. InOrder([disk[name] EXCEPT ![0] = @ \o (cache \o s)], whole[name], wrote'[name])
  BY <1>1, <1>2, <1>3, AppendLog
<1>5. disk[name][0] \o cache \o s = disk[name][0] \o (cache \o s)
  <2>1. disk[name][0] \in Seq(Nat) /\ cache \in Seq(Nat) /\ s \in Seq(Nat)
    BY <1>1, <1>2 DEF Holds
  <2> QED
    BY <2>1, JoinedInTurn
<1>6. InOrder(disk'[name], whole'[name], wrote'[name])
  BY <1>2, <1>4, <1>5
<1>7. Buffered(name)' = <<>>
  BY DEF Buffered, name
<1>8. Holds(Buffered(name)', wrote'[name], wrote'[name])
  BY <1>7, HoldsNothing
<1> QED
  BY <1>6, <1>8 DEF LogOK, name

\* What a flush makes of the files.
LEMMA FlushedFiles ==
  ASSUME FileTypeOK
  PROVE  /\ Flushed \in [Names -> [0 .. MaxFiles -> Seq(Nat)]]
         /\ \A f \in Names \ {name} : Flushed[f] = disk[f]
         /\ name \in Names =>
               /\ Flushed[name] = [disk[name] EXCEPT ![0] = @ \o cache]
               /\ Flushed[name][0] = disk[name][0] \o cache
               /\ \A i \in 1 .. MaxFiles : Flushed[name][i] = disk[name][i]
<1>1. CASE name \in Names
  <2>1. disk[name] \in [0 .. MaxFiles -> Seq(Nat)] /\ 0 \in 0 .. MaxFiles /\ cache \in Seq(Nat)
        /\ disk \in [Names -> [0 .. MaxFiles -> Seq(Nat)]]
    BY <1>1, FileAssumption DEF FileTypeOK
  <2> DEFINE d == [disk[name] EXCEPT ![0] = @ \o cache]
  <2>2. disk[name][0] \o cache \in Seq(Nat)
    BY <2>1, ConcatProperties
  <2>3. /\ d \in [0 .. MaxFiles -> Seq(Nat)] /\ d[0] = disk[name][0] \o cache
        /\ \A i \in 1 .. MaxFiles : d[i] = disk[name][i]
    <3>1. d = [disk[name] EXCEPT ![0] = disk[name][0] \o cache]
      OBVIOUS
    <3>2. \A i \in 1 .. MaxFiles : i \in 0 .. MaxFiles /\ i # 0
      BY FileAssumption
    <3> HIDE DEF d
    <3> QED
      BY <2>1, <2>2, <3>1, <3>2, OneFile
  <2>4. Flushed = [disk EXCEPT ![name] = d]
    BY <1>1 DEF Flushed
  <2> HIDE DEF d
  <2>5. /\ Flushed \in [Names -> [0 .. MaxFiles -> Seq(Nat)]] /\ Flushed[name] = d
        /\ \A f \in Names \ {name} : Flushed[f] = disk[f]
    BY <1>1, <2>1, <2>3, <2>4
  <2> QED
    BY <2>3, <2>5 DEF d
<1>2. CASE name \notin Names
  BY <1>2 DEF Flushed, FileTypeOK
<1> QED
  BY <1>1, <1>2

LEMMA FlushStep ==
  ASSUME FileTypeOK, Unbroken, disk' = Flushed, cache' = <<>>, UNCHANGED <<wrote, whole, local_cfg>>
  PROVE  Unbroken'
<1>1. ASSUME NEW f \in Names, f # name PROVE LogOK(f)'
  <2>1. Buffered(f)' = Buffered(f)
    BY <1>1 DEF Buffered, name
  <2>2. disk'[f] = disk[f]
    BY <1>1, FlushedFiles
  <2> QED
    BY <1>1, <2>1, <2>2, SameLog DEF Unbroken
<1>2. ASSUME name \in Names PROVE LogOK(name)'
  <2>1. disk'[name] = [disk[name] EXCEPT ![0] = @ \o cache]
    BY <1>2, FlushedFiles
  <2>2. disk[name][0] \o cache \in Seq(Nat) /\ wrote[name] \in Nat
    <3>1. disk[name][0] \in Seq(Nat) /\ cache \in Seq(Nat)
      BY <1>2, FileAssumption DEF FileTypeOK
    <3> QED
      BY <1>2, <3>1, ConcatProperties DEF FileTypeOK
  <2>3. disk[name][0] \o cache \o <<>> = disk[name][0] \o cache
    BY <2>2, ConcatEmptySeq
  <2>4. disk'[name] = [disk[name] EXCEPT ![0] = @ \o cache \o <<>>]
    BY <2>1, <2>3
  <2>5. Holds(<<>>, wrote[name], wrote'[name])
    BY <2>2, HoldsNothing
  <2>6. LogOK(name)
    BY <1>2 DEF Unbroken
  <2> QED
    BY <1>2, <2>2, <2>4, <2>5, <2>6, AppendStep
<1> QED
  BY <1>1, <1>2 DEF Unbroken, name

\* What the history says of a file that is given up.
LEMMA WholeFacts ==
  ASSUME FileTypeOK, name \in Names, NEW i \in 1 .. MaxFiles
  PROVE  /\ WholeWithout(i) \in 0 .. MaxFiles /\ WholeWithout(i) <= whole[name]
         /\ disk[name][i] = <<>> \/ WholeWithout(i) <= i
BY FileAssumption DEF FileTypeOK, WholeWithout

\* The removal of file n of the current name, and the renaming to it.
LEMMA RemoveLog ==
  ASSUME FileTypeOK, name \in Names, n \in 1 .. MaxFiles, NEW w \in Nat,
         InOrder(disk[name], whole[name], w)
  PROVE  InOrder([disk[name] EXCEPT ![n] = <<>>], WholeWithout(n), w)
<1>1. disk[name] \in [0 .. MaxFiles -> Seq(Nat)] /\ whole[name] \in 0 .. MaxFiles
  BY DEF FileTypeOK
<1>2. CASE disk[name][n] = <<>>
  <2>1. [disk[name] EXCEPT ![n] = <<>>] = disk[name]
    BY <1>1, <1>2
  <2>2. WholeWithout(n) = whole[name]
    BY <1>2 DEF WholeWithout
  <2> QED
    BY <2>1, <2>2
<1>3. CASE disk[name][n] # <<>>
  BY <1>1, <1>3, WholeFacts, RemoveFile
<1> QED
  BY <1>2, <1>3

WholeRenamed == IF WholeWithout(n) = n - 1 THEN n ELSE WholeWithout(n)

LEMMA RenameLog ==
  ASSUME FileTypeOK, name \in Names, n \in 1 .. MaxFiles, NEW w \in Nat,
         InOrder(disk[name], whole[name], w)
  PROVE  InOrder([disk[name] EXCEPT ![n] = disk[name][n - 1], ![n - 1] = <<>>], WholeRenamed, w)
<1> DEFINE d == [disk[name] EXCEPT ![n] = <<>>]
<1>1. disk[name] \in [0 .. MaxFiles -> Seq(Nat)] /\ <<>> \in Seq(Nat) /\ MaxFiles \in Nat
  BY FileAssumption, EmptySeq DEF FileTypeOK
<1>2. /\ d \in [0 .. MaxFiles -> Seq(Nat)] /\ d[n] = <<>> /\ d[n - 1] = disk[name][n - 1]
      /\ [d EXCEPT ![n] = d[n - 1], ![n - 1] = <<>>]
           = [disk[name] EXCEPT ![n] = disk[name][n - 1], ![n - 1] = <<>>]
  <2>1. n \in 0 .. MaxFiles /\ n - 1 \in 0 .. MaxFiles /\ n # n - 1
    BY <1>1
  <2>2. /\ d \in [0 .. MaxFiles -> Seq(Nat)] /\ d[n] = <<>>
        /\ \A i \in 0 .. MaxFiles : i # n => d[i] = disk[name][i]
    BY <1>1, <2>1, OneFile
  <2> DEFINE e == [disk[name] EXCEPT ![n] = disk[name][n - 1], ![n - 1] = <<>>]
             g == [d EXCEPT ![n] = d[n - 1], ![n - 1] = <<>>]
  <2>3. e = [i \in 0 .. MaxFiles |-> IF i = n - 1 THEN <<>> ELSE IF i = n THEN disk[name][n - 1]
                                    ELSE disk[name][i]]
    BY <1>1, <2>1
  <2> HIDE DEF d
  <2>4. g = [i \in 0 .. MaxFiles |-> IF i = n - 1 THEN <<>> ELSE IF i = n THEN d[n - 1] ELSE d[i]]
    BY <2>1, <2>2
  <2> HIDE DEF e, g
  <2>5. e = g
    BY <2>1, <2>2, <2>3, <2>4
  <2> QED
    BY <2>1, <2>2, <2>5 DEF e, g
<1>3. InOrder(d, WholeWithout(n), w)
  BY RemoveLog
<1> HIDE DEF d
<1>4. /\ WholeWithout(n) \in 0 .. MaxFiles /\ WholeRenamed \in 0 .. MaxFiles
      /\ WholeRenamed <= WholeWithout(n) \/ (WholeWithout(n) = n - 1 /\ WholeRenamed = n)
  BY <1>1, WholeFacts DEF WholeRenamed
<1>5. InOrder([d EXCEPT ![n] = d[n - 1], ![n - 1] = <<>>], WholeRenamed, w)
  BY <1>2, <1>3, <1>4, RenameFile
<1> QED
  BY <1>2, <1>5

\* A step on the files of the current name that leaves them in order.
LEMMA ShiftStep ==
  ASSUME FileTypeOK, Unbroken, name \in Names, NEW d, NEW k,
         disk' = [disk EXCEPT ![name] = d], whole' = [whole EXCEPT ![name] = k],
         \A w \in Nat : InOrder(disk[name], whole[name], w) => InOrder(d, k, w),
         UNCHANGED <<cache, wrote, local_cfg>>
  PROVE  Unbroken'
<1>1. disk'[name] = d /\ whole'[name] = k
  BY DEF FileTypeOK
<1>2. \A f \in Names \ {name} : disk'[f] = disk[f] /\ whole'[f] = whole[f]
  BY DEF FileTypeOK
<1>3. \A f \in Names : Buffered(f)' = Buffered(f)
  BY DEF Buffered, name
<1>4. ASSUME NEW f \in Names, f = name PROVE LogOK(f)'
  <2>1. PICK w \in Nat : InOrder(disk[f], whole[f], w) /\ Holds(Buffered(f), w, wrote[f])
    BY DEF Unbroken, LogOK
  <2>2. InOrder(disk'[f], whole'[f], w)
    BY <1>1, <1>4, <2>1
  <2>3. Holds(Buffered(f)', w, wrote'[f])
    BY <1>3, <2>1
  <2> QED
    BY <2>2, <2>3 DEF LogOK
<1>5. \A f \in Names \ {name} : LogOK(f)'
  BY <1>2, <1>3, SameLog DEF Unbroken
<1> QED
  BY <1>4, <1>5 DEF Unbroken

\* A line is written: to the stdio buffer, or through it to the file.
LEMMA WriteStep ==
  ASSUME FileTypeOK, Unbroken, name \in Names, NEW w \in Writers, Write(w)
  PROVE  Unbroken'
<1>1. /\ wrote[name] \in Nat /\ disk[name] \in [0 .. MaxFiles -> Seq(Nat)] /\ cache \in Seq(Nat)
      /\ wrote \in [Names -> Nat] /\ disk \in [Names -> [0 .. MaxFiles -> Seq(Nat)]]
  BY DEF FileTypeOK
<1>2. /\ wrote' = [wrote EXCEPT ![name] = @ + 1] /\ UNCHANGED <<whole, local_cfg>>
  BY DEF Write
<1>3. wrote'[name] = wrote[name] + 1 /\ \A f \in Names \ {name} : wrote'[f] = wrote[f]
  BY <1>1, <1>2
<1> DEFINE new == wrote'[name]  line == <<wrote'[name]>>
<1>4. /\ cache' = Append(cache, new) /\ UNCHANGED disk
      \/ /\ disk' = [disk EXCEPT ![name][0] = @ \o cache \o line] /\ cache' = <<>>
  BY DEF Write
<1>5. new \in Nat /\ Holds(line, wrote[name], new)
  BY <1>1, <1>3, HoldsNext
<1> HIDE DEF new, line
<1>6. ASSUME NEW f \in Names, f # name PROVE LogOK(f)'
  <2>1. disk'[f] = disk[f]
    BY <1>1, <1>4, <1>6
  <2>2. Buffered(f)' = Buffered(f)
    BY <1>2, <1>6 DEF Buffered, name
  <2> QED
    BY <1>2, <1>3, <1>6, <2>1, <2>2, SameLog DEF Unbroken
<1>7. LogOK(name)
  BY DEF Unbroken
<1>8. CASE cache' = Append(cache, new) /\ UNCHANGED disk
  <2>1. PICK v \in Nat : InOrder(disk[name], whole[name], v) /\ Holds(cache, v, wrote[name])
    BY <1>7 DEF LogOK, Buffered
  <2>2. Append(cache, new) = cache \o line
    <3>1. line = <<new>>
      BY DEF line, new
    <3>2. Append(cache, new) = cache \o <<new>>
      BY <1>1, <1>5, AppendIsConcat
    <3> QED
      BY <3>1, <3>2
  <2>3. Holds(cache', v, new)
    BY <1>1, <1>5, <1>8, <2>1, <2>2, HoldsJoined
  <2>5. InOrder(disk'[name], whole'[name], v)
    BY <1>2, <1>8, <2>1
  <2>6. ASSUME NEW f \in Names, f = name PROVE LogOK(f)'
    <3>1. Buffered(f)' = cache'
      BY <1>2, <2>6 DEF Buffered, name
    <3>2. InOrder(disk'[f], whole'[f], v) /\ Holds(Buffered(f)', v, wrote'[f])
      BY <2>3, <2>5, <2>6, <3>1 DEF new
    <3> QED
      BY <3>2 DEF LogOK
  <2> QED
    BY <1>6, <2>6 DEF Unbroken
<1>9. CASE disk' = [disk EXCEPT ![name][0] = @ \o cache \o line] /\ cache' = <<>>
  <2>1. disk'[name] = [disk[name] EXCEPT ![0] = @ \o cache \o line]
    BY <1>1, <1>9
  <2>2. Holds(line, wrote[name], wrote'[name]) /\ wrote'[name] \in Nat
    BY <1>5 DEF new
  <2>3. whole'[name] = whole[name]
    BY <1>2
  <2> HIDE DEF line
  <2>4. LogOK(name)'
    BY <1>2, <1>7, <1>9, <2>1, <2>2, <2>3, AppendStep
  <2>5. \A f \in Names : f = name => LogOK(f)'
    BY <1>2, <2>4 DEF name
  <2> QED
    BY <1>6, <2>5 DEF Unbroken
<1> QED
  BY <1>4, <1>8, <1>9

\* A restart loses the line in the stdio buffer, the last that was written.
LEMMA RestartStep ==
  ASSUME FileTypeOK, Unbroken, Restart
  PROVE  Unbroken' /\ wrote' \in [Names -> Nat]
<1>1. ASSUME NEW f \in Names PROVE LogOK(f)' /\ wrote'[f] \in Nat
  <2>1. PICK w \in Nat : InOrder(disk[f], whole[f], w) /\ Holds(Buffered(f), w, wrote[f])
    BY DEF Unbroken, LogOK
  <2>2. wrote[f] \in Nat
    BY DEF FileTypeOK
  <2>3. wrote[f] = w + Len(Buffered(f)) /\ Len(Buffered(f)) \in Nat
    BY <2>1, <2>2, HoldsOrdered
  <2>4. wrote'[f] = wrote[f] - Len(Buffered(f))
    <3>1. wrote'[f] = wrote[f] - IF f = name THEN Len(cache) ELSE 0
      BY DEF Restart
    <3>2. Len(Buffered(f)) = IF f = name THEN Len(cache) ELSE 0
      BY EmptySeq DEF Buffered
    <3> QED
      BY <3>1, <3>2
  <2>5. wrote'[f] = w
    BY <2>3, <2>4
  <2>6. Buffered(f)' = <<>> /\ disk'[f] = disk[f] /\ whole'[f] = whole[f]
    BY DEF Restart, Buffered
  <2>7. Holds(Buffered(f)', w, wrote'[f])
    BY <2>5, <2>6, HoldsNothing
  <2> QED
    BY <2>1, <2>5, <2>6, <2>7 DEF LogOK
<1>2. wrote' \in [Names -> Nat]
  BY <1>1 DEF Restart
<1> QED
  BY <1>1, <1>2 DEF Unbroken

-----------------------------------------------------------------------------
(* The invariant. *)

LEMMA FileInitIInv == Init => FileIInv
<1> SUFFICES ASSUME Init PROVE FileIInv
  OBVIOUS
<1> USE FileAssumption
<1>1. <<>> \in Seq(Nat) /\ Len(<<>>) = 0
  BY EmptySeq
<1>2. FileTypeOK
  <2>1. /\ disk \in [Names -> [0 .. MaxFiles -> Seq(Nat)]] /\ cache \in Seq(Nat)
        /\ wrote \in [Names -> Nat] /\ whole \in [Names -> 0 .. MaxFiles]
    BY <1>1 DEF Init
  <2>2. pc \in [Contexts -> Points]
    BY DEF Init, Points
  <2>3. local_cfg \in ElogFileCfg
    BY DEF Init, NoConfig, ElogFileCfg
  <2>4. build \in Builds /\ owner \in Contexts \cup {NoOne} /\ init_ok \in BOOLEAN /\ fp \in BOOLEAN
    BY Zenon DEF Init
  <2>5. n \in 0 .. MaxFiles /\ mistaken \subseteq 0 .. MaxFiles
    BY SMT DEF Init
  <2> QED
    BY <2>1, <2>2, <2>3, <2>4, <2>5 DEF FileTypeOK
<1>3. PortHeld /\ Rotating /\ Len(cache) <= 1
  BY <1>1 DEF Init, PortHeld, Rotating, At, Purposes
<1>4. ASSUME NEW f \in Names PROVE LogOK(f)
  <2>1. disk[f] = [i \in 0 .. MaxFiles |-> <<>>] /\ whole[f] = MaxFiles /\ wrote[f] = 0
        /\ Buffered(f) = <<>>
    BY DEF Init, Buffered
  <2>2. InOrder(disk[f], whole[f], 0)
    BY <2>1, NoFiles
  <2>3. Holds(Buffered(f), 0, wrote[f])
    BY <2>1, HoldsNothing
  <2> QED
    BY <2>2, <2>3 DEF LogOK
<1> QED
  BY <1>2, <1>3, <1>4 DEF FileIInv, Unbroken

\* Whoever is past the port lock is there alone.
LEMMA OthersWait ==
  ASSUME PortHeld, NEW c \in Contexts, owner = c \/ owner = NoOne \/ pc[c] \notin {"idle", "lock"},
         NEW d \in Contexts \ {c}
  PROVE  pc[d] \in {"idle", "lock"}
BY FileAssumption DEF PortHeld, Contexts

\* What a writer in its rotation may count on.
LEMMA RotationFacts ==
  ASSUME FileTypeOK, Rotating, NEW w \in Writers
  PROVE  /\ pc[w] \in {"remove", "rename"} =>
               n \in 1 .. MaxFiles /\ n - 1 \in 0 .. MaxFiles /\ build.max_rotate > 0 /\ Spare
         /\ pc[w] \in {"remove", "rename", "reopen", "reopen_failed", "write"} =>
               cache = <<>> /\ name \in Names
         /\ pc[w] \in {"reopen", "write"} => Room
BY FileAssumption DEF Rotating, At, FileTypeOK, Contexts

\* The configurations there are.
LEMMA ConfigFacts ==
  ASSUME FileTypeOK
  PROVE  /\ MaxFiles \in Nat /\ local_cfg.max_rotate \in 0 .. MaxFiles /\ local_cfg.max_size \in Nat
         /\ build.max_rotate \in 0 .. MaxFiles
         /\ name \in Names \cup {NoName}
         /\ \A cfg \in Builds \cup Configs \cup {NoConfig} : cfg \in ElogFileCfg
BY FileAssumption DEF FileTypeOK, ElogFileCfg, NoConfig, name

\* One file of one name changes.
LEMMA OneFileOfAll ==
  ASSUME NEW d \in [Names -> [0 .. MaxFiles -> Seq(Nat)]], NEW f \in Names,
         NEW m \in 0 .. MaxFiles, NEW s \in Seq(Nat)
  PROVE  [d EXCEPT ![f][m] = s] \in [Names -> [0 .. MaxFiles -> Seq(Nat)]]
<1>1. [d[f] EXCEPT ![m] = s] \in [0 .. MaxFiles -> Seq(Nat)]
  BY OneFile
<1>2. [d EXCEPT ![f][m] = s] = [d EXCEPT ![f] = [d[f] EXCEPT ![m] = s]]
  OBVIOUS
<1> QED
  BY <1>1, <1>2

LEMMA FileTypeStep ==
  FileTypeOK /\ Rotating /\ Unbroken /\ [Next]_vars => FileTypeOK'
<1> SUFFICES ASSUME FileTypeOK, Rotating, Unbroken, [Next]_vars PROVE FileTypeOK'
  OBVIOUS
<1> DEFINE Disks == [Names -> [0 .. MaxFiles -> Seq(Nat)]]
<1>0. /\ build \in Builds /\ init_ok \in BOOLEAN /\ fp \in BOOLEAN /\ local_cfg \in ElogFileCfg
      /\ owner \in Contexts \cup {NoOne} /\ pc \in [Contexts -> Points] /\ n \in 0 .. MaxFiles
      /\ disk \in Disks /\ cache \in Seq(Nat) /\ wrote \in [Names -> Nat]
      /\ whole \in [Names -> 0 .. MaxFiles] /\ mistaken \subseteq 0 .. MaxFiles
  BY DEF FileTypeOK
<1>1. /\ Flushed \in Disks /\ <<>> \in Seq(Nat) /\ MaxFiles \in Nat /\ 0 \in 0 .. MaxFiles
      /\ local_cfg.max_rotate \in 0 .. MaxFiles
  BY FlushedFiles, ConfigFacts, EmptySeq
<1> HIDE DEF Disks
<1>2. ASSUME NEW c \in Contexts, NEW p \in Points, Goto(c, p) PROVE pc' \in [Contexts -> Points]
  BY <1>0, <1>2 DEF Goto
<1>3. ASSUME NEW w \in Writers,
             WriteCall(w) \/ WriteLock(w) \/ SeekNull(w) \/ RotateFails(w) \/ Reopen(w)
             \/ WriteUnlock(w)
      PROVE  FileTypeOK'
  <2>1. \E p \in Points : Goto(w, p)
    BY <1>3 DEF WriteCall, WriteLock, SeekNull, RotateFails, Reopen, WriteUnlock, Points, WritePoints
  <2>2. pc' \in [Contexts -> Points]
    BY <1>2, <2>1 DEF Contexts
  <2>3. /\ UNCHANGED <<build, init_ok, local_cfg, n, disk, cache, wrote, whole>>
        /\ fp' \in BOOLEAN /\ mistaken' \in {{}, mistaken} /\ owner' \in {owner, w, NoOne}
    BY <1>0, <1>3 DEF WriteCall, WriteLock, SeekNull, RotateFails, Reopen, WriteUnlock
  <2> QED
    BY <1>0, <2>2, <2>3 DEF FileTypeOK, Contexts, Disks
<1>4. ASSUME NEW w \in Writers, SeekRoom(w) \/ SeekDrop(w) \/ SeekFull(w) PROVE FileTypeOK'
  <2>1. /\ disk' = Flushed /\ cache' = <<>>
        /\ UNCHANGED <<build, init_ok, local_cfg, owner, wrote, whole, mistaken>>
    BY <1>4 DEF SeekRoom, SeekDrop, SeekFull, Seek
  <2>2. n' \in {n, local_cfg.max_rotate} /\ fp' \in {fp, FALSE}
    BY <1>4 DEF SeekRoom, SeekDrop, SeekFull
  <2>3. \E p \in Points : Goto(w, p)
    BY <1>4 DEF SeekRoom, SeekDrop, SeekFull, Points, WritePoints
  <2>4. pc' \in [Contexts -> Points]
    BY <1>2, <2>3 DEF Contexts
  <2> QED
    BY <1>0, <1>1, <2>1, <2>2, <2>4 DEF FileTypeOK, Disks
<1>5. ASSUME NEW w \in Writers, RotateRemove(w) PROVE FileTypeOK'
  <2>1. n \in 1 .. MaxFiles /\ name \in Names
    BY <1>5, RotationFacts DEF RotateRemove
  <2>2. disk' \in Disks /\ whole' \in [Names -> 0 .. MaxFiles]
    <3>1. WholeWithout(n) \in 0 .. MaxFiles
      BY <2>1, WholeFacts
    <3>2. whole' \in [Names -> 0 .. MaxFiles]
      BY <1>0, <1>5, <2>1, <3>1 DEF RotateRemove
    <3>3. disk' = disk \/ disk' = [disk EXCEPT ![name][n] = <<>>]
      BY <1>5 DEF RotateRemove
    <3>4. [disk EXCEPT ![name][n] = <<>>] \in Disks
      BY <1>0, <1>1, <2>1, OneFileOfAll, Zenon DEF Disks
    <3> QED
      BY <1>0, <3>2, <3>3, <3>4
  <2>3. pc' \in [Contexts -> Points]
    BY <1>2, <1>5 DEF RotateRemove, Points, WritePoints, Contexts
  <2> QED
    BY <1>0, <1>5, <2>2, <2>3 DEF FileTypeOK, RotateRemove, Disks
<1>6. ASSUME NEW w \in Writers, RotateMissing(w) \/ RotateRename(w) PROVE FileTypeOK'
  <2>1. n \in 1 .. MaxFiles /\ n - 1 \in 0 .. MaxFiles /\ name \in Names
    BY <1>6, RotationFacts DEF RotateMissing, RotateRename
  <2>2. disk' \in Disks /\ whole' \in [Names -> 0 .. MaxFiles] /\ mistaken' \subseteq 0 .. MaxFiles
    <3>1. CASE RotateMissing(w)
      BY <1>0, <2>1, <3>1 DEF RotateMissing
    <3>2. CASE RotateRename(w)
      <4>1. WholeWithout(n) \in 0 .. MaxFiles
        BY <2>1, WholeFacts
      <4>2. mistaken' = mistaken /\ whole' \in [Names -> 0 .. MaxFiles]
        BY <1>0, <2>1, <3>2, <4>1 DEF RotateRename
      <4>3. disk' = [disk EXCEPT ![name][n] = disk[name][n - 1], ![name][n - 1] = <<>>]
        BY <3>2 DEF RotateRename
      <4>4. disk' \in Disks
        BY <1>0, <1>1, <2>1, <4>3 DEF Disks
      <4> QED
        BY <1>0, <4>2, <4>4
    <3> QED
      BY <1>6, <3>1, <3>2
  <2>3. n' = n - 1 /\ UNCHANGED <<build, init_ok, fp, local_cfg, owner, cache, wrote>>
    BY <1>6 DEF RotateMissing, RotateRename, NextFile
  <2>4. Goto(w, IF n = 1 THEN "reopen" ELSE "remove")
    BY <1>6 DEF RotateMissing, RotateRename, NextFile
  <2>5. pc' \in [Contexts -> Points]
    BY <1>2, <2>4 DEF Points, WritePoints, Contexts
  <2> QED
    BY <1>0, <2>1, <2>2, <2>3, <2>5 DEF FileTypeOK, Disks
<1>7. ASSUME NEW w \in Writers, Write(w) PROVE FileTypeOK'
  <2>1. name \in Names
    BY <1>7, RotationFacts DEF Write
  <2>2. wrote' \in [Names -> Nat] /\ wrote'[name] \in Nat /\ <<wrote'[name]>> \in Seq(Nat)
    BY <1>0, <1>7, <2>1 DEF Write
  <2> DEFINE line == <<wrote'[name]>>  text == disk[name][0] \o cache \o line
  <2>3. disk[name][0] \in Seq(Nat)
    BY <1>0, <1>1, <2>1 DEF Disks
  <2>4. Append(cache, wrote'[name]) \in Seq(Nat) /\ text \in Seq(Nat)
    BY <1>0, <2>2, <2>3, AppendProperties, ConcatProperties
  <2> HIDE DEF line
  <2>5. cache' \in Seq(Nat)
    BY <1>1, <1>7, <2>4 DEF Write
  <2>6. disk' = disk \/ disk' = [disk EXCEPT ![name][0] = text]
    BY <1>7 DEF Write, line
  <2> HIDE DEF text
  <2>7. disk' \in Disks
    <3>1. [disk EXCEPT ![name][0] = text] \in Disks
      BY <1>0, <1>1, <2>1, <2>4, OneFileOfAll, Zenon DEF Disks
    <3> QED
      BY <1>0, <2>6, <3>1
  <2>8. pc' \in [Contexts -> Points]
    BY <1>2, <1>7 DEF Write, Points, Contexts
  <2> QED
    BY <1>0, <1>7, <2>2, <2>5, <2>7, <2>8 DEF FileTypeOK, Write, Disks
<1>8. ASSUME NEW purpose \in Purposes, ConfigClose(purpose) PROVE FileTypeOK'
  <2>1. pc' \in [Contexts -> Points]
    BY <1>2, <1>8 DEF ConfigClose, Points, Contexts
  <2> QED
    BY <1>0, <1>1, <1>8, <2>1 DEF ConfigClose, FileTypeOK, Contexts, Disks
<1>9. ASSUME NEW cfg \in Builds \cup Configs \cup {NoConfig}, ConfigOpen(cfg) PROVE FileTypeOK'
  <2>1. cfg \in ElogFileCfg /\ local_cfg' = cfg /\ fp' \in BOOLEAN
    BY <1>9, ConfigFacts DEF ConfigOpen
  <2>2. pc' \in [Contexts -> Points]
    BY <1>2, <1>9 DEF ConfigOpen, ConfigReturn, Points, Contexts
  <2>3. init_ok' \in BOOLEAN /\ UNCHANGED <<build, n, disk, cache, wrote, whole, mistaken>>
        /\ owner' = NoOne
    BY <1>0, <1>9 DEF ConfigOpen, ConfigReturn
  <2> QED
    BY <1>0, <2>1, <2>2, <2>3 DEF FileTypeOK, Disks
<1>10. CASE ConfigNull
  <2>1. pc' \in [Contexts -> Points]
    BY <1>2, <1>10 DEF ConfigNull, ConfigReturn, Points, Contexts
  <2>2. init_ok' \in BOOLEAN
        /\ UNCHANGED <<build, fp, local_cfg, n, disk, cache, wrote, whole, mistaken>>
        /\ owner' = NoOne
    BY <1>0, <1>10 DEF ConfigNull, ConfigReturn
  <2> QED
    BY <1>0, <2>1, <2>2 DEF FileTypeOK, Disks
<1>11. CASE Restart
  <2>1. wrote' \in [Names -> Nat]
    BY <1>11, RestartStep
  <2>2. /\ init_ok' = FALSE /\ fp' = FALSE /\ local_cfg' = NoConfig /\ owner' = NoOne
        /\ n' = 0 /\ cache' = <<>> /\ mistaken' = {} /\ UNCHANGED <<build, disk, whole>>
    BY <1>11 DEF Restart
  <2>3. pc' \in [Contexts -> Points]
    BY <1>11 DEF Restart, Points
  <2>4. NoConfig \in ElogFileCfg
    BY ConfigFacts
  <2> QED
    BY <1>0, <1>1, <2>1, <2>2, <2>3, <2>4 DEF FileTypeOK, Disks
<1>12. CASE UNCHANGED vars
  BY <1>0, <1>12 DEF vars, FileTypeOK, Disks
<1> QED
  BY <1>3, <1>4, <1>5, <1>6, <1>7, <1>8, <1>9, <1>10, <1>11, <1>12 DEF Next

LEMMA FileHeldStep == FileTypeOK /\ PortHeld /\ [Next]_vars => PortHeld'
<1> SUFFICES ASSUME FileTypeOK, PortHeld, [Next]_vars PROVE PortHeld'
  OBVIOUS
<1>0. pc \in [Contexts -> Points] /\ Controller \in Contexts /\ Writers \subseteq Contexts
  BY DEF FileTypeOK, Contexts
<1>1. ASSUME NEW w \in Writers, WriteCall(w) \/ WriteLock(w) PROVE PortHeld'
  BY <1>0, <1>1, FileAssumption DEF WriteCall, WriteLock, Goto, PortHeld, Contexts
<1>2. ASSUME NEW w \in Writers, pc[w] \in WritePoints, UNCHANGED owner,
             \E p \in Points : Goto(w, p)
      PROVE  PortHeld'
  BY <1>0, <1>2 DEF WritePoints, Goto, PortHeld
<1>3. ASSUME NEW w \in Writers,
             SeekNull(w) \/ SeekRoom(w) \/ SeekDrop(w) \/ SeekFull(w) \/ RotateRemove(w)
             \/ RotateMissing(w) \/ RotateRename(w) \/ RotateFails(w) \/ Reopen(w) \/ Write(w)
      PROVE  PortHeld'
  <2>1. pc[w] \in WritePoints /\ UNCHANGED owner
    BY <1>3 DEF SeekNull, SeekRoom, SeekDrop, SeekFull, Seek, RotateRemove, RotateMissing,
                RotateRename, RotateFails, Reopen, Write, WritePoints
  <2>2. \E p \in Points : Goto(w, p)
    BY <1>3 DEF SeekNull, SeekRoom, SeekDrop, SeekFull, RotateRemove, RotateMissing,
                RotateRename, NextFile, RotateFails, Reopen, Write, Points, WritePoints
  <2> QED
    BY <1>2, <2>1, <2>2
<1>4. ASSUME NEW c \in Contexts, pc[c] \notin {"idle", "lock"}, Goto(c, "idle") PROVE PortHeld'
  BY <1>0, <1>4, OthersWait DEF Goto, PortHeld
<1>5. ASSUME NEW w \in Writers, WriteUnlock(w) PROVE PortHeld'
  BY <1>0, <1>4, <1>5 DEF WriteUnlock
<1>6. ASSUME NEW purpose, ConfigClose(purpose) PROVE PortHeld'
  BY <1>0, <1>6, FileAssumption DEF ConfigClose, Goto, PortHeld, Contexts
<1>7. ASSUME NEW cfg, ConfigOpen(cfg) PROVE PortHeld'
  BY <1>0, <1>4, <1>7 DEF ConfigOpen, ConfigReturn
<1>8. CASE ConfigNull
  BY <1>0, <1>4, <1>8 DEF ConfigNull, ConfigReturn
<1>9. CASE Restart
  BY <1>9 DEF Restart, PortHeld
<1>10. CASE UNCHANGED vars
  BY <1>10 DEF vars, PortHeld
<1> QED
  BY <1>1, <1>3, <1>5, <1>6, <1>7, <1>8, <1>9, <1>10 DEF Next

\* A step of a context past the lock is judged at the point it reaches.
LEMMA RotatingAlone ==
  ASSUME FileTypeOK, PortHeld, NEW c \in Contexts, NEW p \in Points, Goto(c, p),
         pc[c] \notin {"idle", "lock"} \/ owner = NoOne, At(p)', fp' => name' \in Names
  PROVE  Rotating'
<1>1. \A d \in Contexts \ {c} : pc'[d] \in {"idle", "lock"}
  BY OthersWait DEF FileTypeOK, Goto
<1>2. pc'[c] = p
  BY DEF FileTypeOK, Goto
<1>3. At("idle")' /\ At("lock")'
  BY DEF At, Purposes
<1>4. ASSUME NEW d \in Contexts PROVE At(pc[d])'
  BY <1>1, <1>2, <1>3 DEF At
<1> QED
  BY <1>4 DEF Rotating

LEMMA FileRotatingStep == FileTypeOK /\ PortHeld /\ Rotating /\ [Next]_vars => Rotating'
<1> SUFFICES ASSUME FileTypeOK, PortHeld, Rotating, [Next]_vars PROVE Rotating'
  OBVIOUS
<1>0. /\ MaxFiles \in Nat /\ n \in 0 .. MaxFiles /\ disk \in [Names -> [0 .. MaxFiles -> Seq(Nat)]]
      /\ local_cfg.max_rotate \in 0 .. MaxFiles /\ local_cfg.max_size \in Nat
      /\ build.max_rotate \in 0 .. MaxFiles
      /\ Writers \subseteq Contexts /\ Controller \in Contexts
      /\ (fp => name \in Names)
  BY ConfigFacts DEF FileTypeOK, Rotating, Contexts
<1>1. ASSUME NEW w \in Writers, WriteCall(w) PROVE Rotating'
  <2>1. UNCHANGED <<build, fp, local_cfg, n, disk, cache, mistaken>>
    BY <1>1 DEF WriteCall
  <2>2. At("lock")
    BY DEF At, Purposes
  <2>3. \A c \in Contexts : pc'[c] = pc[c] \/ pc'[c] = "lock"
    BY <1>1 DEF WriteCall, Goto, FileTypeOK
  <2>4. \A c \in Contexts : At(pc'[c])
    BY <2>2, <2>3 DEF Rotating
  <2> QED
    BY <1>0, <2>1, <2>4 DEF Rotating, At, Spare, Room, name
<1>2. ASSUME NEW c \in Contexts, NEW p \in Points \ (WritePoints \cup Purposes), Goto(c, p),
             pc[c] \notin {"idle", "lock"} \/ owner = NoOne, fp' => name' \in Names
      PROVE  Rotating'
  <2>1. At(p)'
    BY <1>2 DEF At, WritePoints
  <2> QED
    BY <1>2, <2>1, RotatingAlone
<1>3. ASSUME NEW w \in Writers, WriteLock(w) PROVE Rotating'
  <2>1. At("seek")'
    BY DEF At, Purposes
  <2>2. fp' => name' \in Names
    BY <1>0, <1>3 DEF WriteLock, name
  <2> QED
    BY <1>0, <1>3, <2>1, <2>2, RotatingAlone DEF WriteLock, Points, WritePoints
<1>4. ASSUME NEW w \in Writers, SeekNull(w) \/ SeekDrop(w) \/ Write(w) \/ WriteUnlock(w)
      PROVE  Rotating'
  <2>1. pc[w] \notin {"idle", "lock"} /\ UNCHANGED <<fp, local_cfg>>
    BY <1>4 DEF SeekNull, SeekDrop, Seek, Write, WriteUnlock
  <2>2. \E p \in Points \ (WritePoints \cup Purposes) : Goto(w, p)
    BY <1>4 DEF SeekNull, SeekDrop, Write, WriteUnlock, Points, WritePoints, Purposes
  <2>3. fp' => name' \in Names
    BY <1>0, <2>1 DEF name
  <2> QED
    BY <1>0, <1>2, <2>1, <2>2, <2>3
<1>5. ASSUME NEW w \in Writers, SeekRoom(w) PROVE Rotating'
  <2>1. /\ pc[w] = "seek" /\ fp /\ disk' = Flushed /\ cache' = <<>> /\ ~TooLarge
        /\ Goto(w, "write") /\ UNCHANGED <<fp, build, local_cfg, mistaken>>
    BY <1>5 DEF SeekRoom, Seek
  <2>2. name \in Names /\ name' = name
    BY <1>0, <2>1 DEF name
  <2>3. File(name, 0) = Flushed[name][0]
    BY <2>2, FlushedFiles DEF File
  <2>4. Len(Flushed[name][0]) <= local_cfg.max_size
    <3>1. Flushed[name][0] \in Seq(Nat)
      BY <1>0, <2>2, FlushedFiles
    <3>2. Len(Flushed[name][0]) \in Nat
      BY <3>1, LenProperties
    <3> QED
      BY <1>0, <2>1, <2>3, <3>2 DEF TooLarge
  <2>5. Room'
    BY <2>1, <2>2, <2>4 DEF Room
  <2>6. At("write")'
    BY <2>1, <2>2, <2>5 DEF At, Purposes
  <2> QED
    BY <1>0, <2>1, <2>2, <2>6, RotatingAlone DEF Points, WritePoints
<1>6. ASSUME NEW w \in Writers, SeekFull(w) PROVE Rotating'
  <2>1. /\ pc[w] = "seek" /\ fp /\ cache' = <<>> /\ build.max_rotate > 0 /\ fp' = FALSE
        /\ n' = local_cfg.max_rotate /\ UNCHANGED <<build, local_cfg>>
        /\ Goto(w, IF local_cfg.max_rotate > 0 THEN "remove" ELSE "reopen")
    BY <1>6 DEF SeekFull, Seek
  <2>2. name \in Names /\ name' = name
    BY <1>0, <2>1 DEF name
  <2>3. CASE local_cfg.max_rotate > 0
    <3>1. n' >= 1 /\ Spare'
      BY <1>0, <2>1, <2>3 DEF Spare
    <3>2. At("remove")'
      BY <2>1, <2>2, <3>1 DEF At, Purposes
    <3> QED
      BY <1>0, <2>1, <2>3, <3>2, RotatingAlone DEF Points, WritePoints
  <2>4. CASE ~ (local_cfg.max_rotate > 0)
    <3>1. Room'
      BY <1>0, <2>1, <2>4 DEF Room
    <3>2. At("reopen")'
      BY <2>1, <2>2, <3>1 DEF At, Purposes
    <3> QED
      BY <1>0, <2>1, <2>4, <3>2, RotatingAlone DEF Points, WritePoints
  <2> QED
    BY <2>3, <2>4
<1>7. ASSUME NEW w \in Writers, RotateRemove(w) PROVE Rotating'
  <2>1. /\ n \in 1 .. MaxFiles /\ build.max_rotate > 0 /\ Spare /\ cache = <<>> /\ name \in Names
        /\ pc[w] = "remove"
    BY <1>7, RotationFacts DEF RotateRemove
  <2>2. UNCHANGED <<build, fp, local_cfg, n, cache, mistaken>> /\ Goto(w, "rename") /\ name' = name
    BY <1>7 DEF RotateRemove, name
  <2>3. disk'[name][n] \in {<<>>, disk[name][n]}
    BY <1>0, <1>7, <2>1 DEF RotateRemove
  <2>4. Spare'
    BY <2>1, <2>2, <2>3 DEF Spare
  <2>5. n' >= 1
    BY <1>0, <2>1, <2>2
  <2>6. At("rename")'
    BY <2>1, <2>2, <2>4, <2>5 DEF At, Purposes
  <2> QED
    BY <1>0, <2>1, <2>2, <2>6, RotatingAlone DEF Points, WritePoints
<1>8. ASSUME NEW w \in Writers, RotateMissing(w) \/ RotateRename(w) PROVE Rotating'
  <2>1. /\ n \in 1 .. MaxFiles /\ n - 1 \in 0 .. MaxFiles /\ build.max_rotate > 0
        /\ cache = <<>> /\ name \in Names /\ pc[w] = "rename"
    BY <1>8, RotationFacts DEF RotateMissing, RotateRename
  <2>2. /\ UNCHANGED <<build, fp, local_cfg, cache>> /\ n' = n - 1 /\ name' = name
        /\ Goto(w, IF n = 1 THEN "reopen" ELSE "remove")
    BY <1>8 DEF RotateMissing, RotateRename, NextFile, name
  <2>3. disk'[name][n - 1] = <<>> \/ n - 1 \in mistaken'
    <3>1. CASE RotateMissing(w)
      BY <3>1 DEF RotateMissing
    <3>2. CASE RotateRename(w)
      <4>1. disk' = [disk EXCEPT ![name][n] = disk[name][n - 1], ![name][n - 1] = <<>>]
        BY <3>2 DEF RotateRename
      <4>2. disk'[name][n - 1] = <<>>
        BY <1>0, <2>1, <4>1
      <4> QED
        BY <4>2
    <3> QED
      BY <1>8, <3>1, <3>2
  <2>4. CASE n = 1
    <3>1. disk'[name][0] = <<>> \/ 0 \in mistaken'
      BY <2>3, <2>4
    <3>2. Len(<<>>) <= local_cfg.max_size
      BY <1>0, EmptySeq
    <3>3. Room'
      BY <2>1, <2>2, <3>1, <3>2 DEF Room
    <3>4. At("reopen")'
      BY <2>1, <2>2, <3>3 DEF At, Purposes
    <3> QED
      BY <1>0, <2>1, <2>2, <2>4, <3>4, RotatingAlone DEF Points, WritePoints
  <2>5. CASE n # 1
    <3>1. n' >= 1
      BY <1>0, <2>1, <2>2, <2>5
    <3>2. Spare'
      BY <2>2, <2>3 DEF Spare
    <3>3. At("remove")'
      BY <2>1, <2>2, <3>1, <3>2 DEF At, Purposes
    <3> QED
      BY <1>0, <2>1, <2>2, <2>5, <3>3, RotatingAlone DEF Points, WritePoints
  <2> QED
    BY <2>4, <2>5
<1>9. ASSUME NEW w \in Writers, RotateFails(w) PROVE Rotating'
  <2>1. /\ cache = <<>> /\ name \in Names /\ pc[w] = "rename" /\ Goto(w, "reopen_failed")
        /\ UNCHANGED <<fp, local_cfg, cache>> /\ name' = name
    BY <1>9, RotationFacts DEF RotateFails, name
  <2>2. At("reopen_failed")'
    BY <2>1 DEF At, Purposes
  <2> QED
    BY <1>0, <2>1, <2>2, RotatingAlone DEF Points, WritePoints
<1>10. ASSUME NEW w \in Writers, Reopen(w) PROVE Rotating'
  <2>1. /\ cache = <<>> /\ name \in Names /\ (pc[w] = "reopen" => Room)
        /\ pc[w] \in {"reopen", "reopen_failed"}
    BY <1>10, RotationFacts DEF Reopen
  <2>2. UNCHANGED <<build, local_cfg, n, disk, cache, mistaken>> /\ name' = name
    BY <1>10 DEF Reopen, name
  <2>3. CASE pc[w] = "reopen" /\ fp'
    <3>1. At("write")'
      BY <2>1, <2>2, <2>3 DEF At, Room, Purposes
    <3>2. Goto(w, "write")
      BY <1>10, <2>3 DEF Reopen
    <3> QED
      BY <1>0, <2>1, <2>2, <3>1, <3>2, RotatingAlone DEF Points, WritePoints
  <2>4. CASE pc[w] = "reopen_failed" \/ ~fp'
    <3>1. \E p \in {"unlock", "fault"} : Goto(w, p)
      BY <1>10, <2>1, <2>4 DEF Reopen
    <3> QED
      BY <1>0, <1>2, <2>1, <2>2, <3>1 DEF Points, WritePoints, Purposes
  <2> QED
    BY <2>1, <2>3, <2>4
<1>11. ASSUME NEW purpose \in Purposes, ConfigClose(purpose) PROVE Rotating'
  <2>1. owner = NoOne /\ cache' = <<>> /\ fp' = FALSE /\ Goto(Controller, purpose)
    BY <1>11 DEF ConfigClose
  <2>2. At(purpose)'
    BY <2>1 DEF At, Purposes
  <2>3. purpose \in Points
    BY DEF Points
  <2> QED
    BY <1>0, <2>1, <2>2, <2>3, RotatingAlone
<1>12. ASSUME NEW cfg \in Builds \cup Configs \cup {NoConfig}, ConfigOpen(cfg) PROVE Rotating'
  <2>1. cfg \in ElogFileCfg /\ local_cfg' = cfg /\ (fp' => cfg.name # NoName)
    BY <1>12, ConfigFacts DEF ConfigOpen
  <2>2. fp' => name' \in Names
    BY <2>1 DEF ElogFileCfg, name
  <2>3. pc[Controller] \in Purposes /\ Goto(Controller, "idle")
    BY <1>12 DEF ConfigOpen, ConfigReturn, Purposes
  <2> QED
    BY <1>0, <1>2, <2>2, <2>3 DEF Points, WritePoints, Purposes
<1>13. CASE ConfigNull
  <2>1. (fp' => name' \in Names) /\ pc[Controller] \in Purposes /\ Goto(Controller, "idle")
    BY <1>0, <1>13 DEF ConfigNull, ConfigReturn, Purposes, name
  <2> QED
    BY <1>0, <1>2, <2>1 DEF Points, WritePoints, Purposes
<1>14. CASE Restart
  BY <1>14 DEF Restart, Rotating, At, Purposes
<1>15. CASE UNCHANGED vars
  BY <1>15 DEF vars, Rotating, At, Spare, Room, name
<1> QED
  BY <1>1, <1>3, <1>4, <1>5, <1>6, <1>7, <1>8, <1>9, <1>10, <1>11, <1>12, <1>13, <1>14, <1>15
  DEF Next

\* Only a write puts a line in the stdio buffer, and it finds it empty.
LEMMA FileCacheStep ==
  FileTypeOK /\ Rotating /\ Len(cache) <= 1 /\ [Next]_vars => Len(cache') <= 1
<1> SUFFICES ASSUME FileTypeOK, Rotating, Len(cache) <= 1, [Next]_vars PROVE Len(cache') <= 1
  OBVIOUS
<1>1. Len(<<>>) = 0
  BY EmptySeq
<1>2. ASSUME NEW w \in Writers, Write(w) PROVE Len(cache') <= 1
  <2>1. cache = <<>> /\ name \in Names
    BY <1>2, RotationFacts DEF Write
  <2>3. wrote'[name] \in Nat
    BY <1>2, <2>1 DEF Write, FileTypeOK
  <2>2. Len(Append(cache, wrote'[name])) = 1
    BY <1>1, <2>1, <2>3, EmptySeq, AppendProperties
  <2> QED
    BY <1>1, <1>2, <2>2 DEF Write
<1>3. ASSUME NEW w \in Writers,
             WriteCall(w) \/ WriteLock(w) \/ SeekNull(w) \/ RotateRemove(w) \/ RotateMissing(w)
             \/ RotateRename(w) \/ RotateFails(w) \/ Reopen(w) \/ WriteUnlock(w)
      PROVE  cache' = cache
  BY <1>3 DEF WriteCall, WriteLock, SeekNull, RotateRemove, RotateMissing, RotateRename,
              RotateFails, Reopen, WriteUnlock
<1>4. ASSUME NEW w \in Writers, SeekRoom(w) \/ SeekDrop(w) \/ SeekFull(w) PROVE cache' = <<>>
  BY <1>4 DEF SeekRoom, SeekDrop, SeekFull, Seek
<1>5. (\E purpose \in Purposes : ConfigClose(purpose)) \/ Restart => cache' = <<>>
  BY DEF ConfigClose, Restart
<1>6. (\E cfg \in Builds \cup Configs \cup {NoConfig} : ConfigOpen(cfg)) \/ ConfigNull
      \/ UNCHANGED vars => cache' = cache
  BY DEF ConfigOpen, ConfigNull, ConfigReturn, vars
<1> QED
  BY <1>1, <1>2, <1>3, <1>4, <1>5, <1>6 DEF Next

\* Every step leaves the files of every name in order.
LEMMA UnbrokenStep ==
  FileTypeOK /\ Rotating /\ Unbroken /\ [Next]_vars => Unbroken'
<1> SUFFICES ASSUME FileTypeOK, Rotating, Unbroken, [Next]_vars PROVE Unbroken'
  OBVIOUS
<1>1. ASSUME NEW w \in Writers,
             WriteCall(w) \/ WriteLock(w) \/ SeekNull(w) \/ RotateMissing(w) \/ RotateFails(w)
             \/ Reopen(w) \/ WriteUnlock(w)
      PROVE  Unbroken'
  <2>1. UNCHANGED <<disk, whole, wrote, cache, local_cfg>>
    BY <1>1 DEF WriteCall, WriteLock, SeekNull, RotateMissing, RotateFails, Reopen, WriteUnlock
  <2> QED
    BY <2>1, SameLogs
<1>2. ASSUME NEW w \in Writers, SeekRoom(w) \/ SeekDrop(w) \/ SeekFull(w) PROVE Unbroken'
  <2>1. disk' = Flushed /\ cache' = <<>> /\ UNCHANGED <<wrote, whole, local_cfg>>
    BY <1>2 DEF SeekRoom, SeekDrop, SeekFull, Seek
  <2> QED
    BY <2>1, FlushStep
<1>3. ASSUME NEW w \in Writers, RotateRemove(w) PROVE Unbroken'
  <2>1. n \in 1 .. MaxFiles /\ name \in Names
    BY <1>3, RotationFacts DEF RotateRemove
  <2>2. UNCHANGED <<cache, wrote, local_cfg>>
    BY <1>3 DEF RotateRemove
  <2>3. CASE UNCHANGED <<disk, whole>>
    BY <2>2, <2>3, SameLogs
  <2>4. CASE /\ disk' = [disk EXCEPT ![name][n] = <<>>]
             /\ whole' = [whole EXCEPT ![name] = WholeWithout(n)]
    <3> DEFINE d == [disk[name] EXCEPT ![n] = <<>>]
    <3>1. disk' = [disk EXCEPT ![name] = d]
      BY <2>4
    <3>2. \A v \in Nat : InOrder(disk[name], whole[name], v) => InOrder(d, WholeWithout(n), v)
      BY <2>1, RemoveLog
    <3> HIDE DEF d
    <3> QED
      BY <2>1, <2>2, <2>4, <3>1, <3>2, ShiftStep
  <2> QED
    BY <1>3, <2>3, <2>4 DEF RotateRemove
<1>4. ASSUME NEW w \in Writers, RotateRename(w) PROVE Unbroken'
  <2>1. n \in 1 .. MaxFiles /\ n - 1 \in 0 .. MaxFiles /\ name \in Names
    BY <1>4, RotationFacts DEF RotateRename
  <2>2. /\ UNCHANGED <<cache, wrote, local_cfg>>
        /\ disk' = [disk EXCEPT ![name][n] = disk[name][n - 1], ![name][n - 1] = <<>>]
        /\ whole' = [whole EXCEPT ![name] = WholeRenamed]
    BY <1>4 DEF RotateRename, WholeRenamed
  <2> DEFINE d == [disk[name] EXCEPT ![n] = disk[name][n - 1], ![n - 1] = <<>>]
  <2>3. disk' = [disk EXCEPT ![name] = d]
    BY <2>1, <2>2 DEF FileTypeOK
  <2>4. \A v \in Nat : InOrder(disk[name], whole[name], v) => InOrder(d, WholeRenamed, v)
    BY <2>1, RenameLog
  <2> HIDE DEF d
  <2> QED
    BY <2>1, <2>2, <2>3, <2>4, ShiftStep
<1>5. ASSUME NEW w \in Writers, Write(w) PROVE Unbroken'
  <2>1. name \in Names
    BY <1>5, RotationFacts DEF Write
  <2> QED
    BY <1>5, <2>1, WriteStep
<1>6. ASSUME NEW purpose \in Purposes, ConfigClose(purpose) PROVE Unbroken'
  BY <1>6, FlushStep DEF ConfigClose
<1>7. ASSUME NEW cfg, ConfigOpen(cfg) PROVE Unbroken'
  <2>1. pc[Controller] \in Purposes /\ UNCHANGED <<disk, whole, wrote, cache>>
    BY <1>7 DEF ConfigOpen, ConfigReturn, Purposes
  <2>2. cache = <<>>
    BY <2>1 DEF Rotating, At, Contexts
  <2> QED
    BY <2>1, <2>2, SameLogs
<1>8. CASE ConfigNull
  BY <1>8, SameLogs DEF ConfigNull, ConfigReturn
<1>9. CASE Restart
  BY <1>9, RestartStep
<1>10. CASE UNCHANGED vars
  BY <1>10, SameLogs DEF vars
<1> QED
  BY <1>1, <1>2, <1>3, <1>4, <1>5, <1>6, <1>7, <1>8, <1>9, <1>10 DEF Next

LEMMA FileStepIInv == FileIInv /\ [Next]_vars => FileIInv'
BY FileTypeStep, FileHeldStep, FileRotatingStep, FileCacheStep, UnbrokenStep DEF FileIInv

\* The invariant holds in every reachable state.
THEOREM FileInvariance == Spec => []FileIInv
BY FileInitIInv, FileStepIInv, PTL DEF Spec

\* Type correctness of the plugin's state.
THEOREM FileTypeCorrect == Spec => []FileTypeOK
<1>1. FileIInv => FileTypeOK
  BY DEF FileIInv
<1> QED
  BY <1>1, FileInvariance, PTL

\* A file with what the stdio buffer holds of it: the intervals of a name.
LEMMA FileSpans ==
  ASSUME FileIInv, NEW f \in Names
  PROVE  \E lo, hi \in Bounds :
            /\ \A i \in 0 .. MaxFiles : Holds(File(f, i), lo[i], hi[i])
            /\ \A i, j \in 0 .. MaxFiles : i < j => hi[j] <= lo[i]
            /\ \A i \in 1 .. whole[f] : hi[i] = lo[i - 1]
            /\ hi[0] = wrote[f]
<1>1. PICK w \in Nat : InOrder(disk[f], whole[f], w) /\ Holds(Buffered(f), w, wrote[f])
  BY DEF FileIInv, Unbroken, LogOK
<1>2. PICK lo, hi \in Bounds : CutAt(disk[f], whole[f], w, lo, hi)
  BY <1>1 DEF InOrder
<1>3. \A i \in 0 .. MaxFiles : lo[i] \in Nat /\ hi[i] \in Nat /\ lo[i] <= hi[i]
  BY <1>2, CutFacts
<1>4. /\ wrote[f] \in Nat /\ whole[f] \in 0 .. MaxFiles /\ 0 \in 0 .. MaxFiles
      /\ disk[f] \in [0 .. MaxFiles -> Seq(Nat)]
  BY FileAssumption DEF FileIInv, FileTypeOK
<1>5. PICK up \in Bounds : up[0] = wrote[f] /\ \A i \in 0 .. MaxFiles : i # 0 => up[i] = hi[i]
  <2>1. /\ [hi EXCEPT ![0] = wrote[f]] \in Bounds /\ [hi EXCEPT ![0] = wrote[f]][0] = wrote[f]
        /\ \A i \in 0 .. MaxFiles : i # 0 => [hi EXCEPT ![0] = wrote[f]][i] = hi[i]
    BY <1>4 DEF Bounds
  <2> QED
    BY <2>1
<1>6. ASSUME NEW i \in 0 .. MaxFiles PROVE Holds(File(f, i), lo[i], up[i])
  <2>1. Holds(disk[f][i], lo[i], hi[i]) /\ hi[0] = w
    BY <1>2 DEF CutAt
  <2>2. CASE i = 0
    <3>1. File(f, i) = disk[f][i] \o Buffered(f)
      BY <2>2 DEF File, Buffered
    <3>2. lo[i] \in Nat /\ w \in Nat /\ up[i] = wrote[f] /\ hi[i] = w
      BY <1>3, <1>5, <2>1, <2>2
    <3> QED
      BY <1>1, <1>4, <2>1, <3>1, <3>2, HoldsJoined
  <2>3. CASE i # 0
    <3>1. File(f, i) = disk[f][i]
      <4>1. disk[f][i] \in Seq(Nat)
        BY <1>4
      <4>2. disk[f][i] \o <<>> = disk[f][i]
        BY <4>1, ConcatEmptySeq
      <4> QED
        BY <2>3, <4>2 DEF File
    <3> QED
      BY <1>5, <2>1, <2>3, <3>1
  <2> QED
    BY <2>2, <2>3
<1>7. \A i, j \in 0 .. MaxFiles : i < j => up[j] <= lo[i]
  BY <1>2, <1>5 DEF CutAt
<1>8. \A i \in 1 .. whole[f] : up[i] = lo[i - 1]
  <2>1. \A i \in 1 .. whole[f] : hi[i] = lo[i - 1]
    BY <1>2 DEF CutAt
  <2>2. \A i \in 1 .. whole[f] : i \in 0 .. MaxFiles /\ i # 0
    BY <1>4, FileAssumption
  <2> QED
    BY <1>5, <2>1, <2>2
<1> QED
  BY <1>5, <1>6, <1>7, <1>8

\* Intervals without a gap put together are one interval.
LEMMA SpansJoined ==
  ASSUME NEW lo \in Bounds, NEW hi \in Bounds, NEW k \in 0 .. MaxFiles, NEW w \in Nat,
         \A i \in 0 .. MaxFiles : lo[i] <= hi[i],
         \A i, j \in 0 .. MaxFiles : i < j => hi[j] <= lo[i],
         \A i \in 1 .. k : hi[i] = lo[i - 1],
         hi[0] = w
  PROVE  UNION {lo[i] + 1 .. hi[i] : i \in 0 .. k} = lo[k] + 1 .. w
<1>1. /\ MaxFiles \in Nat /\ 0 .. k \subseteq 0 .. MaxFiles /\ 0 \in 0 .. k /\ k \in 0 .. k
      /\ \A i \in 0 .. MaxFiles : lo[i] \in Nat /\ hi[i] \in Nat
  BY FileAssumption DEF Bounds
<1>2. ASSUME NEW i \in 0 .. k, NEW x \in lo[i] + 1 .. hi[i] PROVE x \in lo[k] + 1 .. w
  <2>1. lo[i] \in Nat /\ hi[i] \in Nat /\ lo[k] \in Nat /\ hi[k] \in Nat
    BY <1>1
  <2>2. lo[k] <= lo[i]
    <3>1. CASE i = k
      BY <2>1, <3>1
    <3>2. CASE i # k
      <4>1. hi[k] <= lo[i] /\ lo[k] <= hi[k]
        BY <1>1, <3>2
      <4> QED
        BY <2>1, <4>1
    <3> QED
      BY <3>1, <3>2
  <2>3. hi[i] <= w
    <3>1. CASE i = 0
      BY <2>1, <3>1
    <3>2. CASE i # 0
      <4>1. hi[i] <= lo[0] /\ lo[0] <= hi[0] /\ lo[0] \in Nat
        BY <1>1, <3>2
      <4> QED
        BY <2>1, <4>1
    <3> QED
      BY <3>1, <3>2
  <2> QED
    BY <2>1, <2>2, <2>3
<1>3. ASSUME NEW x \in lo[k] + 1 .. w PROVE \E i \in 0 .. k : x \in lo[i] + 1 .. hi[i]
  <2> DEFINE Reached == {i \in 0 .. k : lo[i] < x}
  <2>1. lo[k] \in Nat /\ x \in Nat /\ lo[k] < x /\ x <= w
    BY <1>1
  <2>2. Reached \subseteq Nat /\ Reached # {}
    BY <1>1, <2>1
  <2>3. PICK i \in Reached : \A m \in Reached : i <= m
    BY <2>2, LeastNumber
  <2>4. i \in 0 .. k /\ lo[i] < x /\ i \in 0 .. MaxFiles
    BY <1>1
  <2>5. x <= hi[i]
    <3>1. CASE i = 0
      BY <2>1, <3>1
    <3>2. CASE i # 0
      <4>1. i \in 1 .. k /\ i - 1 \in 0 .. k /\ i - 1 \in 0 .. MaxFiles /\ ~ (i <= i - 1)
        BY <1>1, <2>4, <3>2
      <4>2. ~ (lo[i - 1] < x)
        BY <2>3, <4>1
      <4>3. hi[i] = lo[i - 1] /\ lo[i - 1] \in Nat
        BY <1>1, <4>1
      <4> QED
        BY <2>1, <4>2, <4>3
    <3> QED
      BY <3>1, <3>2
  <2>6. lo[i] \in Nat /\ hi[i] \in Nat
    BY <1>1, <2>4
  <2> QED
    BY <2>1, <2>4, <2>5, <2>6
<1> QED
  BY <1>2, <1>3

\* Whatever is rotated, fails to be opened, removed or renamed, is reconfigured
\* or restarted: each file holds an unbroken run of lines, older files earlier
\* ones, none twice; the newest files, up to the last gap that a removal left,
\* hold all the last lines written; and all lines but one are beyond the reach
\* of a restart (elog_file.c:69-145, 160-179).
THEOREM FilesHoldLastLines == Spec => []LastLinesInOrder
<1>1. FileIInv => LastLinesInOrder
  <2> SUFFICES ASSUME FileIInv, NEW f \in Names
               PROVE  /\ \A i \in 0 .. MaxFiles : \A j \in 1 .. Len(File(f, i)) :
                            File(f, i)[j] = File(f, i)[1] + (j - 1)
                      /\ \A i, k \in 0 .. MaxFiles :
                            i < k => \A old \in ToSet(File(f, k)), new \in ToSet(File(f, i)) :
                                        old < new
                      /\ \E first \in 0 .. wrote[f] :
                            UNION {ToSet(File(f, i)) : i \in 0 .. whole[f]} = first + 1 .. wrote[f]
                      /\ Len(cache) <= 1
    BY Zenon DEF LastLinesInOrder
  <2>1. PICK lo, hi \in Bounds :
            /\ \A i \in 0 .. MaxFiles : Holds(File(f, i), lo[i], hi[i])
            /\ \A i, j \in 0 .. MaxFiles : i < j => hi[j] <= lo[i]
            /\ \A i \in 1 .. whole[f] : hi[i] = lo[i - 1]
            /\ hi[0] = wrote[f]
    BY FileSpans
  <2>2. /\ wrote[f] \in Nat /\ whole[f] \in 0 .. MaxFiles /\ MaxFiles \in Nat
        /\ \A i \in 0 .. MaxFiles : lo[i] \in Nat /\ hi[i] \in Nat
    BY FileAssumption DEF FileIInv, FileTypeOK, Bounds
  <2>3. ASSUME NEW i \in 0 .. MaxFiles
        PROVE  ToSet(File(f, i)) = lo[i] + 1 .. hi[i] /\ lo[i] <= hi[i]
    BY <2>1, <2>2, HoldsOrdered
  <2>4. ASSUME NEW i \in 0 .. MaxFiles, NEW j \in 1 .. Len(File(f, i))
        PROVE  File(f, i)[j] = File(f, i)[1] + (j - 1)
    <3>1. Holds(File(f, i), lo[i], hi[i]) /\ lo[i] \in Nat
      BY <2>1, <2>2
    <3> DEFINE s == File(f, i)
    <3>2. Len(s) \in Nat /\ \A m \in 1 .. Len(s) : s[m] = lo[i] + m
      BY <3>1, LenProperties DEF Holds
    <3> HIDE DEF s
    <3>3. \A m \in 1 .. Len(s) : s[m] = s[1] + (m - 1)
      BY <3>1, <3>2
    <3> QED
      BY <3>3 DEF s
  <2>5. ASSUME NEW i \in 0 .. MaxFiles, NEW k \in 0 .. MaxFiles, i < k,
               NEW old \in ToSet(File(f, k)), NEW new \in ToSet(File(f, i))
        PROVE  old < new
    <3>1. old \in lo[k] + 1 .. hi[k] /\ new \in lo[i] + 1 .. hi[i] /\ hi[k] <= lo[i]
      BY <2>1, <2>3, <2>5
    <3>2. lo[i] \in Nat /\ lo[k] \in Nat /\ hi[i] \in Nat /\ hi[k] \in Nat
      BY <2>2
    <3> QED
      BY <3>1, <3>2
  <2>6. \E first \in 0 .. wrote[f] :
           UNION {ToSet(File(f, i)) : i \in 0 .. whole[f]} = first + 1 .. wrote[f]
    <3> DEFINE k == whole[f]
    <3>0. k \in 0 .. MaxFiles /\ 0 .. k \subseteq 0 .. MaxFiles
      BY <2>2
    <3> HIDE DEF k
    <3>1. {ToSet(File(f, i)) : i \in 0 .. k} = {lo[i] + 1 .. hi[i] : i \in 0 .. k}
      BY <2>3, <3>0
    <3>2. \A i \in 1 .. k : hi[i] = lo[i - 1]
      BY <2>1 DEF k
    <3>3. UNION {lo[i] + 1 .. hi[i] : i \in 0 .. k} = lo[k] + 1 .. wrote[f]
      <4>1. \A i \in 0 .. MaxFiles : lo[i] <= hi[i]
        BY <2>3
      <4>2. /\ \A i, j \in 0 .. MaxFiles : i < j => hi[j] <= lo[i]
            /\ hi[0] = wrote[f] /\ wrote[f] \in Nat
        BY <2>1, <2>2
      <4> QED
        BY <3>0, <3>2, <4>1, <4>2, SpansJoined
    <3>4. lo[k] \in 0 .. wrote[f]
      <4>1. CASE k = 0
        BY <2>1, <2>2, <2>3, <3>0, <4>1
      <4>2. CASE k # 0
        <5>0. 0 \in 0 .. MaxFiles /\ 0 < k
          BY <2>2, <3>0, <4>2
        <5>1. hi[k] <= lo[0] /\ lo[0] <= hi[0] /\ lo[k] <= hi[k]
          BY <2>1, <2>3, <3>0, <5>0
        <5>2. lo[k] \in Nat /\ hi[k] \in Nat /\ lo[0] \in Nat /\ hi[0] = wrote[f]
          BY <2>1, <2>2, <3>0, <5>0
        <5> QED
          BY <2>2, <5>1, <5>2
      <4> QED
        BY <4>1, <4>2
    <3> QED
      BY <3>1, <3>3, <3>4 DEF k
  <2>7. Len(cache) <= 1
    BY DEF FileIInv
  <2> QED
    BY <2>4, <2>5, <2>6, <2>7
<1> QED
  BY <1>1, FileInvariance, PTL

\* No line is appended to a file beyond the size that is configured when it is
\* written, whatever failed before, but in the cases SizeBounded names
\* (elog_file.c:124-135, 171-172).
THEOREM FilesAreBounded == Spec => SizeBounded
<1>1. FileIInv /\ [Next]_vars =>
         [\A f \in Names : wrote'[f] > wrote[f] =>
             \/ Len(File(f, 0)) <= local_cfg.max_size
             \/ build.max_rotate > 0 /\ (local_cfg.max_rotate = 0 \/ 0 \in mistaken)]_vars
  <2> SUFFICES ASSUME FileIInv, [Next]_vars, NEW f \in Names, wrote'[f] > wrote[f]
               PROVE  \/ Len(File(f, 0)) <= local_cfg.max_size
                      \/ build.max_rotate > 0 /\ (local_cfg.max_rotate = 0 \/ 0 \in mistaken)
    BY Zenon
  <2>0. FileTypeOK /\ Rotating /\ wrote \in [Names -> Nat] /\ cache \in Seq(Nat)
    BY DEF FileIInv, FileTypeOK
  <2>1. wrote[f] \in Nat /\ ~ (wrote[f] > wrote[f])
    BY <2>0
  <2>2. ~ UNCHANGED wrote
    BY <2>1
  <2>3. ~ Restart
    <3>1. ASSUME Restart PROVE FALSE
      <4>1. wrote'[f] = wrote[f] \/ wrote'[f] = wrote[f] - Len(cache)
        BY <2>1, <3>1 DEF Restart
      <4>2. Len(cache) \in Nat
        BY <2>0, LenProperties
      <4> QED
        BY <2>1, <4>1, <4>2
    <3> QED
      BY <3>1
  <2>4. PICK w \in Writers : Write(w)
    BY <2>2, <2>3 DEF Next, vars, WriteCall, WriteLock, SeekNull, SeekRoom, SeekDrop, SeekFull, Seek,
          RotateRemove, RotateMissing, RotateRename, RotateFails, Reopen, WriteUnlock,
          ConfigClose, ConfigOpen, ConfigNull, ConfigReturn
  <2>5. f = name
    BY <2>0, <2>1, <2>4 DEF Write
  <2>6. cache = <<>> /\ Room
    BY <2>0, <2>4, RotationFacts DEF Write
  <2>7. File(f, 0) = disk[name][0]
    <3>1. disk[name][0] \in Seq(Nat)
      BY <2>0, <2>5, FileAssumption DEF FileTypeOK
    <3>2. disk[name][0] \o <<>> = disk[name][0]
      BY <3>1, ConcatEmptySeq
    <3> QED
      BY <2>5, <2>6, <3>2 DEF File
  <2> QED
    BY <2>6, <2>7 DEF Room
<1> QED
  BY <1>1, FileInvariance, PTL DEF Spec, SizeBounded

\* The lines of two files put together.
LEMMA LinesJoined ==
  ASSUME NEW s \in Seq(Nat), NEW t \in Seq(Nat)
  PROVE  ToSet(s \o t) = ToSet(s) \cup ToSet(t)
<1>1. Len(s) \in Nat /\ Len(t) \in Nat /\ DOMAIN s = 1 .. Len(s) /\ DOMAIN t = 1 .. Len(t)
  BY LenProperties
<1>2. /\ Len(s \o t) = Len(s) + Len(t) /\ s \o t \in Seq(Nat)
      /\ \A j \in 1 .. Len(s) + Len(t) :
            (s \o t)[j] = IF j <= Len(s) THEN s[j] ELSE t[j - Len(s)]
  BY ConcatProperties
<1> DEFINE u == s \o t
<1>3. DOMAIN u = 1 .. Len(s) + Len(t)
  BY <1>2, LenProperties
<1> HIDE DEF u
<1>4. ASSUME NEW x \in ToSet(u) PROVE x \in ToSet(s) \cup ToSet(t)
  <2>1. PICK j \in 1 .. Len(s) + Len(t) : x = u[j]
    BY <1>3 DEF ToSet
  <2>2. CASE j <= Len(s)
    BY <1>1, <1>2, <2>1, <2>2 DEF ToSet, u
  <2>3. CASE ~ (j <= Len(s))
    <3>1. j - Len(s) \in 1 .. Len(t) /\ x = t[j - Len(s)]
      BY <1>1, <1>2, <2>1, <2>3 DEF u
    <3> QED
      BY <1>1, <3>1 DEF ToSet
  <2> QED
    BY <2>2, <2>3
<1>5. ASSUME NEW x \in ToSet(s) PROVE x \in ToSet(u)
  <2>1. PICK j \in 1 .. Len(s) : x = s[j]
    BY <1>1 DEF ToSet
  <2>2. j \in 1 .. Len(s) + Len(t) /\ u[j] = x
    BY <1>1, <1>2, <2>1 DEF u
  <2> QED
    BY <1>3, <2>2 DEF ToSet
<1>6. ASSUME NEW x \in ToSet(t) PROVE x \in ToSet(u)
  <2>1. PICK j \in 1 .. Len(t) : x = t[j]
    BY <1>1 DEF ToSet
  <2>2. /\ Len(s) + j \in 1 .. Len(s) + Len(t) /\ ~ (Len(s) + j <= Len(s))
        /\ (Len(s) + j) - Len(s) = j
    BY <1>1
  <2>3. u[Len(s) + j] = x
    BY <1>2, <2>1, <2>2 DEF u
  <2> QED
    BY <1>3, <2>2, <2>3 DEF ToSet
<1>7. ToSet(u) = ToSet(s) \cup ToSet(t)
  BY <1>4, <1>5, <1>6
<1> QED
  BY <1>7 DEF u

\* The lines of file i of f, with c in the stdio buffer, if on of that file.
LinesOf(d, i, on, c) == ToSet(d[i]) \cup (IF i = 0 /\ on THEN ToSet(c) ELSE {})

LEMMA FileLines ==
  ASSUME NEW d \in [0 .. MaxFiles -> Seq(Nat)], NEW i \in 0 .. MaxFiles, NEW on, NEW c \in Seq(Nat)
  PROVE  ToSet(d[i] \o (IF i = 0 /\ on THEN c ELSE <<>>)) = LinesOf(d, i, on, c)
<1>1. d[i] \in Seq(Nat) /\ <<>> \in Seq(Nat) /\ ToSet(<<>>) = {}
  BY EmptySeq DEF ToSet
<1>2. CASE i = 0 /\ on
  BY <1>1, <1>2, LinesJoined DEF LinesOf
<1>3. CASE ~ (i = 0 /\ on)
  <2>1. d[i] \o <<>> = d[i]
    BY <1>1, ConcatEmptySeq
  <2> QED
    BY <1>3, <2>1 DEF LinesOf
<1> QED
  BY <1>2, <1>3

\* Where a line can be found after a step.
Found(f, line) == \E k \in 0 .. MaxFiles : line \in ToSet(File(f, k)')

LEMMA FoundAt ==
  ASSUME FileTypeOK', NEW f \in Names, NEW k \in 0 .. MaxFiles, NEW line,
         line \in ToSet(disk'[f][k]) \/ (k = 0 /\ f = name' /\ line \in ToSet(cache'))
  PROVE  Found(f, line)
<1>1. disk'[f] \in [0 .. MaxFiles -> Seq(Nat)] /\ cache' \in Seq(Nat)
  BY DEF FileTypeOK
<1> DEFINE d == disk'[f]  c == cache'  on == (f = name')
<1>2. line \in LinesOf(d, k, on, c)
  BY DEF LinesOf
<1>3. ToSet(d[k] \o (IF k = 0 /\ on THEN c ELSE <<>>)) = LinesOf(d, k, on, c)
  <2> HIDE DEF d, c, on
  <2> QED
    BY <1>1, FileLines DEF d, c
<1>4. File(f, k)' = d[k] \o (IF k = 0 /\ on THEN c ELSE <<>>)
  BY DEF File, name
<1>5. line \in ToSet(File(f, k)')
  BY <1>2, <1>3, <1>4
<1> QED
  BY <1>5 DEF Found

LEMMA FoundBefore ==
  ASSUME FileTypeOK, NEW f \in Names, NEW i \in 0 .. MaxFiles, NEW line \in ToSet(File(f, i))
  PROVE  line \in ToSet(disk[f][i]) \/ (i = 0 /\ f = name /\ line \in ToSet(cache))
<1>1. disk[f] \in [0 .. MaxFiles -> Seq(Nat)] /\ cache \in Seq(Nat)
  BY DEF FileTypeOK
<1> DEFINE d == disk[f]  on == (f = name)
<1>2. ToSet(d[i] \o (IF i = 0 /\ on THEN cache ELSE <<>>)) = LinesOf(d, i, on, cache)
  <2> HIDE DEF d, on
  <2> QED
    BY <1>1, FileLines DEF d
<1>3. File(f, i) = d[i] \o (IF i = 0 /\ on THEN cache ELSE <<>>)
  BY DEF File
<1>4. line \in LinesOf(d, i, on, cache)
  BY <1>2, <1>3
<1> QED
  BY <1>4 DEF LinesOf

\* What a flush does to the lines: nothing.
LEMMA FlushFound ==
  ASSUME FileTypeOK, FileTypeOK', disk' = Flushed, NEW f \in Names, NEW i \in 0 .. MaxFiles,
         NEW line, line \in ToSet(disk[f][i]) \/ (i = 0 /\ f = name /\ line \in ToSet(cache))
  PROVE  Found(f, line)
<1>1. line \in ToSet(disk'[f][i])
  <2>1. CASE i = 0 /\ f = name
    <3>1. Flushed[f][0] = disk[f][0] \o cache
      BY <2>1, FlushedFiles
    <3>2. disk[f][0] \in Seq(Nat) /\ cache \in Seq(Nat)
      BY <2>1, FileAssumption DEF FileTypeOK
    <3>3. ToSet(disk[f][0] \o cache) = ToSet(disk[f][0]) \cup ToSet(cache)
      BY <3>2, LinesJoined
    <3> QED
      BY <2>1, <3>1, <3>3
  <2>2. CASE ~ (i = 0 /\ f = name)
    <3>1. Flushed[f][i] = disk[f][i]
      <4>1. i \in 1 .. MaxFiles \/ f # name
        BY <2>2, FileAssumption
      <4> QED
        BY <4>1, FlushedFiles
    <3> QED
      BY <2>2, <3>1
  <2> QED
    BY <2>1, <2>2
<1> QED
  BY <1>1, FoundAt

\* No step takes a line from the middle of the log: what is given up is in the
\* oldest file of the configuration, in a file that was taken for missing, or
\* in the stdio buffer when the system restarts (elog_file.c:83-102).
THEOREM OnlyOldestIsRemoved == Spec => OnlyOldestRemoved
<1>1. FileIInv /\ [Next]_vars =>
         [\A f \in Names : \A i \in 0 .. MaxFiles : \A line \in ToSet(File(f, i)) :
             \/ \E k \in 0 .. MaxFiles : line \in ToSet(File(f, k)')
             \/ f = name /\ i \in Expendable
             \/ f = name /\ Restart /\ line \in ToSet(cache)]_vars
  <2> SUFFICES ASSUME FileIInv, [Next]_vars, NEW f \in Names, NEW i \in 0 .. MaxFiles,
                      NEW line \in ToSet(File(f, i))
               PROVE  \/ Found(f, line)
                      \/ f = name /\ i \in Expendable
                      \/ f = name /\ Restart /\ line \in ToSet(cache)
    BY Zenon DEF Found
  <2>0. FileTypeOK /\ FileTypeOK' /\ Rotating
    BY FileStepIInv DEF FileIInv
  <2>1. line \in ToSet(disk[f][i]) \/ (i = 0 /\ f = name /\ line \in ToSet(cache))
    BY <2>0, FoundBefore
  <2>2. /\ disk \in [Names -> [0 .. MaxFiles -> Seq(Nat)]] /\ cache \in Seq(Nat)
        /\ 0 \in 0 .. MaxFiles /\ MaxFiles \in Nat
    BY <2>0, FileAssumption DEF FileTypeOK
  <2>3. ToSet(<<>>) = {}
    BY EmptySeq DEF ToSet
  <2>4. ASSUME UNCHANGED <<disk, cache>>, UNCHANGED local_cfg \/ cache = <<>> PROVE Found(f, line)
    BY <2>0, <2>1, <2>3, <2>4, FoundAt DEF name
  <2>5. ASSUME disk' = Flushed PROVE Found(f, line)
    BY <2>0, <2>1, <2>5, FlushFound
  <2>6. ASSUME NEW w \in Writers, RotateRemove(w)
        PROVE  Found(f, line) \/ (f = name /\ i \in Expendable)
    <3>1. n \in 1 .. MaxFiles /\ name \in Names /\ cache = <<>> /\ Spare
      BY <2>0, <2>6, RotationFacts DEF RotateRemove
    <3>2. disk' = disk \/ disk' = [disk EXCEPT ![name][n] = <<>>]
      BY <2>6 DEF RotateRemove
    <3>3. line \in ToSet(disk[f][i])
      BY <2>1, <2>3, <3>1
    <3>4. CASE f = name /\ i = n
      <4>1. n = local_cfg.max_rotate \/ n \in mistaken
        BY <2>3, <3>1, <3>3, <3>4 DEF Spare
      <4>2. n # 0
        BY <3>1
      <4> QED
        BY <3>4, <4>1, <4>2 DEF Expendable
    <3>5. CASE ~ (f = name /\ i = n)
      <4>1. disk'[f][i] = disk[f][i]
        BY <2>2, <3>1, <3>2, <3>5
      <4> QED
        BY <2>0, <3>3, <4>1, FoundAt
    <3> QED
      BY <3>4, <3>5
  <2>7. ASSUME NEW w \in Writers, RotateRename(w)
        PROVE  Found(f, line) \/ (f = name /\ i \in Expendable)
    <3>1. n \in 1 .. MaxFiles /\ n - 1 \in 0 .. MaxFiles /\ n # n - 1 /\ n \in 0 .. MaxFiles
          /\ name \in Names /\ cache = <<>>
      <4>1. n \in 1 .. MaxFiles /\ n - 1 \in 0 .. MaxFiles /\ name \in Names /\ cache = <<>>
        BY <2>0, <2>7, RotationFacts DEF RotateRename
      <4> QED
        BY <2>2, <4>1
    <3>2. Spare
      BY <2>0, <2>7, RotationFacts DEF RotateRename
    <3>3. disk' = [disk EXCEPT ![name][n] = disk[name][n - 1], ![name][n - 1] = <<>>]
      BY <2>7 DEF RotateRename
    <3>4. line \in ToSet(disk[f][i])
      BY <2>1, <2>3, <3>1
    <3>5. CASE f = name /\ i = n
      <4>1. n = local_cfg.max_rotate \/ n \in mistaken
        BY <2>3, <3>2, <3>4, <3>5 DEF Spare
      <4>2. n # 0
        BY <3>1
      <4> QED
        BY <3>5, <4>1, <4>2 DEF Expendable
    <3>6. CASE f = name /\ i = n - 1
      <4>1. disk'[name][n] = disk[name][n - 1]
        BY <2>2, <3>1, <3>3
      <4>2. line \in ToSet(disk'[f][n])
        BY <3>4, <3>6, <4>1
      <4> QED
        BY <2>0, <3>1, <4>2, FoundAt
    <3>7. CASE ~ (f = name /\ (i = n \/ i = n - 1))
      <4>1. disk'[f][i] = disk[f][i]
        BY <2>2, <3>1, <3>3, <3>7
      <4> QED
        BY <2>0, <3>4, <4>1, FoundAt
    <3> QED
      BY <3>5, <3>6, <3>7
  <2>8. ASSUME NEW w \in Writers, Write(w) PROVE Found(f, line)
    <3>1. name \in Names /\ cache = <<>> /\ disk[name][0] \in Seq(Nat)
      <4>1. name \in Names /\ cache = <<>>
        BY <2>0, <2>8, RotationFacts DEF Write
      <4> QED
        BY <2>2, <4>1
    <3>2. line \in ToSet(disk[f][i])
      BY <2>1, <2>3, <3>1
    <3> DEFINE new == <<wrote'[name]>>
    <3>3. disk' = disk \/ disk' = [disk EXCEPT ![name][0] = @ \o cache \o new]
      BY <2>8 DEF Write
    <3>4. new \in Seq(Nat)
      <4>1. wrote'[name] \in Nat
        <5>1. wrote' = [wrote EXCEPT ![name] = @ + 1]
          BY <2>8 DEF Write
        <5> QED
          BY <2>0, <3>1, <5>1 DEF FileTypeOK
      <4> QED
        BY <4>1
    <3> HIDE DEF new
    <3>5. ToSet(disk[name][0] \o cache \o new) = ToSet(disk[name][0]) \cup ToSet(new)
      <4>1. disk[name][0] \o cache = disk[name][0]
        BY <3>1, ConcatEmptySeq
      <4> QED
        BY <3>1, <3>4, <4>1, LinesJoined
    <3> DEFINE all == disk[name][0] \o cache \o new
    <3>6. disk' = disk \/ disk' = [disk EXCEPT ![name][0] = all]
      BY <3>3
    <3> HIDE DEF all
    <3>7. disk'[f][i] = disk[f][i] \/ (f = name /\ i = 0 /\ disk'[f][i] = all)
      BY <2>2, <3>1, <3>6
    <3>8. line \in ToSet(disk'[f][i])
      BY <3>2, <3>5, <3>7 DEF all
    <3> QED
      BY <2>0, <3>8, FoundAt
  <2>9. ASSUME Restart PROVE Found(f, line) \/ (f = name /\ line \in ToSet(cache))
    <3>1. disk' = disk
      BY <2>9 DEF Restart
    <3> QED
      BY <2>0, <2>1, <3>1, FoundAt
  <2>10. ASSUME NEW w \in Writers,
                WriteCall(w) \/ WriteLock(w) \/ SeekNull(w) \/ RotateMissing(w) \/ RotateFails(w)
                \/ Reopen(w) \/ WriteUnlock(w)
         PROVE  Found(f, line)
    BY <2>4, <2>10 DEF WriteCall, WriteLock, SeekNull, RotateMissing, RotateFails, Reopen, WriteUnlock
  <2>11. ASSUME NEW w \in Writers, SeekRoom(w) \/ SeekDrop(w) \/ SeekFull(w) PROVE Found(f, line)
    BY <2>5, <2>11 DEF SeekRoom, SeekDrop, SeekFull, Seek
  <2>12. ASSUME NEW purpose, ConfigClose(purpose) PROVE Found(f, line)
    BY <2>5, <2>12 DEF ConfigClose
  <2>13. ASSUME NEW cfg, ConfigOpen(cfg) PROVE Found(f, line)
    <3>1. pc[Controller] \in Purposes /\ UNCHANGED <<disk, cache>>
      BY <2>13 DEF ConfigOpen, ConfigReturn, Purposes
    <3>2. cache = <<>>
      BY <2>0, <3>1 DEF Rotating, At, Contexts
    <3> QED
      BY <2>4, <3>1, <3>2
  <2>14. ConfigNull \/ UNCHANGED vars => Found(f, line)
    BY <2>4 DEF ConfigNull, ConfigReturn, vars
  <2> QED
    BY <2>6, <2>7, <2>8, <2>9, <2>10, <2>11, <2>12, <2>13, <2>14 DEF Next
<1> QED
  BY <1>1, FileInvariance, PTL DEF Spec, OnlyOldestRemoved
=============================================================================
