--------------------------- MODULE FileTreeProofs ---------------------------
(***************************************************************************)
(* Lemmas about the operators of FileServer on directories and paths: what *)
(* each system call that changes the directory does to every path.  A path *)
(* is followed name by name, so that most of them go by induction on its   *)
(* length.                                                                 *)
(***************************************************************************)
EXTENDS FileServer, FiniteSetTheorems, WellFoundedInduction, TLAPS

Segment == Names \cup {Root}

-----------------------------------------------------------------------------
(* Induction, as a fact about sets *)

LEMMA NatSetInduction ==
  ASSUME NEW S, 0 \in S, \A n \in Nat : n \in S => n + 1 \in S
  PROVE  Nat \subseteq S
<1> DEFINE R == {ss \in Nat \X Nat : ss[1] < ss[2]}
           T == Nat \ S
<1>1. IsWellFoundedOn(R, Nat)
  <2>1. OpToRel(<, Nat) = R
    BY DEF OpToRel
  <2> QED
    BY <2>1, NatLessThanWellFounded
<1> SUFFICES ASSUME T # {}
             PROVE  FALSE
  OBVIOUS
<1>2. PICK x \in T : \A y \in T : <<y, x>> \notin R
  <2> HIDE DEF R, T
  <2>1. T \subseteq Nat
    BY DEF T
  <2> QED
    BY <1>1, <2>1, WFMin
<1>3. x \in Nat /\ x # 0 /\ x - 1 \in Nat
  OBVIOUS
<1>4. ASSUME NEW y \in T
      PROVE  ~(y < x)
  <2>1. <<y, x>> \notin R
    BY <1>2
  <2> QED
    BY <2>1
<1> HIDE DEF R
<1>5. x - 1 \in S
  BY <1>3, <1>4
<1> QED
  BY <1>3, <1>5

-----------------------------------------------------------------------------
(* Following a path *)

\* The nodes along the first n names of a path.
IsTrail(t, p, n, f) == f = [i \in 0 .. n |-> IF i = 0 THEN Top ELSE Child(t, f[i - 1], p[i])]

LEMMA TrailExists ==
  ASSUME NEW t, NEW p, NEW n \in Nat
  PROVE  \E f : IsTrail(t, p, n, f)
<1> DEFINE S == {k \in Nat : \E f : IsTrail(t, p, k, f)}
<1>1. 0 \in S
  <2> DEFINE f == [i \in 0 .. 0 |-> Top]
  <2>1. IsTrail(t, p, 0, f)
    BY DEF IsTrail
  <2> QED
    BY <2>1
<1>2. ASSUME NEW k \in Nat, k \in S
      PROVE  k + 1 \in S
  <2>1. PICK f : IsTrail(t, p, k, f)
    BY <1>2
  <2> DEFINE g == [i \in 0 .. k + 1 |-> IF i = k + 1 THEN Child(t, f[k], p[k + 1]) ELSE f[i]]
  <2>2. ASSUME NEW i \in 0 .. k + 1
        PROVE  g[i] = IF i = 0 THEN Top ELSE Child(t, g[i - 1], p[i])
    <3>1. CASE i = k + 1
      BY <3>1
    <3>2. CASE i # k + 1
      <4>1. i \in 0 .. k /\ (i # 0 => i - 1 \in 0 .. k)
        BY <3>2
      <4>2. f[i] = IF i = 0 THEN Top ELSE Child(t, f[i - 1], p[i])
        BY <2>1, <4>1 DEF IsTrail
      <4> QED
        BY <4>1, <4>2
    <3> QED
      BY <3>1, <3>2
  <2>3. IsTrail(t, p, k + 1, g)
    BY <2>2 DEF IsTrail
  <2> QED
    BY <2>3
<1> HIDE DEF S
<1>3. n \in S
  BY <1>1, <1>2, NatSetInduction
<1> QED
  BY <1>3 DEF S

LEMMA ResolveTrail ==
  ASSUME NEW t, NEW p, Len(p) \in Nat
  PROVE  \E f : IsTrail(t, p, Len(p), f) /\ Resolve(t, p) = f[Len(p)]
<1> DEFINE node == CHOOSE f : f = [i \in 0 .. Len(p) |-> IF i = 0 THEN Top ELSE Child(t, f[i - 1], p[i])]
<1>1. PICK g : IsTrail(t, p, Len(p), g)
  BY TrailExists
<1>2. g = [i \in 0 .. Len(p) |-> IF i = 0 THEN Top ELSE Child(t, g[i - 1], p[i])]
  BY <1>1 DEF IsTrail
<1>3. node = [i \in 0 .. Len(p) |-> IF i = 0 THEN Top ELSE Child(t, node[i - 1], p[i])]
  BY <1>2, Zenon
<1>4. Resolve(t, p) = node[Len(p)]
  BY DEF Resolve
<1> QED
  BY <1>3, <1>4, Zenon DEF IsTrail

LEMMA TrailUnique ==
  ASSUME NEW t, NEW p, NEW q, NEW m \in Nat, NEW n \in Nat, m <= n,
         \A i \in 1 .. m : p[i] = q[i],
         NEW f, NEW g, IsTrail(t, p, m, f), IsTrail(t, q, n, g)
  PROVE  f[m] = g[m]
<1> DEFINE S == {k \in Nat : k <= m => f[k] = g[k]}
<1>1. 0 \in S
  BY DEF IsTrail
<1>2. ASSUME NEW k \in Nat, k \in S
      PROVE  k + 1 \in S
  <2>1. CASE k + 1 <= m
    <3>1. f[k + 1] = Child(t, f[k], p[k + 1]) /\ g[k + 1] = Child(t, g[k], q[k + 1])
      BY <2>1 DEF IsTrail
    <3> QED
      BY <1>2, <2>1, <3>1
  <2> QED
    BY <2>1
<1> HIDE DEF S
<1>3. m \in S
  BY <1>1, <1>2, NatSetInduction
<1> QED
  BY <1>3 DEF S

\* A prefix of a path, and its last step.
LEMMA PrefixFacts ==
  ASSUME NEW S, NEW p \in Seq(S), NEW n \in 0 .. Len(p)
  PROVE  /\ Prefix(p, n) \in Seq(S) /\ Len(Prefix(p, n)) = n
         /\ \A i \in 1 .. n : Prefix(p, n)[i] = p[i]
         /\ \A m \in 0 .. n : Prefix(Prefix(p, n), m) = Prefix(p, m)
         /\ Prefix(p, Len(p)) = p /\ Prefix(p, 0) = <<>>
BY DEF Prefix

LEMMA ResolveSteps ==
  ASSUME NEW t, NEW S, NEW p \in Seq(S)
  PROVE  /\ Resolve(t, Prefix(p, 0)) = Top
         /\ \A n \in 1 .. Len(p) :
              Resolve(t, Prefix(p, n)) = Child(t, Resolve(t, Prefix(p, n - 1)), p[n])
<1>1. ASSUME NEW n \in 0 .. Len(p)
      PROVE  /\ n = 0 => Resolve(t, Prefix(p, n)) = Top
             /\ n # 0 => Resolve(t, Prefix(p, n)) = Child(t, Resolve(t, Prefix(p, n - 1)), p[n])
  <2>1. Len(Prefix(p, n)) = n /\ \A i \in 1 .. n : Prefix(p, n)[i] = p[i]
    BY PrefixFacts
  <2>2. PICK f : IsTrail(t, Prefix(p, n), n, f) /\ Resolve(t, Prefix(p, n)) = f[n]
    BY <2>1, ResolveTrail
  <2>3. CASE n = 0
    BY <2>2, <2>3 DEF IsTrail
  <2>4. CASE n # 0
    <3>1. n - 1 \in 0 .. Len(p)
      BY <2>4
    <3>2. Len(Prefix(p, n - 1)) = n - 1 /\ \A i \in 1 .. n - 1 : Prefix(p, n - 1)[i] = p[i]
      BY <3>1, PrefixFacts
    <3>3. PICK g : IsTrail(t, Prefix(p, n - 1), n - 1, g) /\ Resolve(t, Prefix(p, n - 1)) = g[n - 1]
      BY <3>1, <3>2, ResolveTrail
    <3>4. \A i \in 1 .. n - 1 : Prefix(p, n - 1)[i] = Prefix(p, n)[i]
      BY <2>1, <3>2
    <3>5. g[n - 1] = f[n - 1]
      BY <2>2, <2>4, <3>1, <3>3, <3>4, TrailUnique
    <3>6. f[n] = Child(t, f[n - 1], Prefix(p, n)[n])
      BY <2>2, <2>4 DEF IsTrail
    <3> QED
      BY <2>1, <2>2, <2>4, <3>3, <3>5, <3>6
  <2> QED
    BY <2>3, <2>4
<1> QED
  BY <1>1

-----------------------------------------------------------------------------
(* Links *)

\* What a directory is made of: nothing is below a file, and no link dangles.
WellLinked(t) ==
  \A l \in t : /\ l = <<l[1], l[2], l[3]>> /\ l[2] \in Segment
               /\ l[1] \notin File \cup {None} /\ l[3] # None

Along(t, p, i) == Resolve(t, Prefix(p, i))

LEMMA ChildLinked ==
  ASSUME NEW t, WellLinked(t), NEW d, NEW n
  PROVE  IF \E l \in t : l[1] = d /\ l[2] = n
         THEN \E l \in t : l[1] = d /\ l[2] = n /\ l[3] = Child(t, d, n) /\ Child(t, d, n) # None
         ELSE Child(t, d, n) = None
<1> DEFINE links == {l \in t : l[1] = d /\ l[2] = n}
<1>1. CASE links = {}
  <2>1. Child(t, d, n) = None
    BY <1>1 DEF Child
  <2> QED
    BY <1>1, <2>1
<1>2. CASE links # {}
  <2> DEFINE k == CHOOSE l \in links : TRUE
  <2>1. k \in links
    BY <1>2
  <2>2. Child(t, d, n) = k[3]
    BY <1>2 DEF Child
  <2> QED
    BY <2>1, <2>2 DEF WellLinked
<1> QED
  BY <1>1, <1>2

\* Looking up a name depends on the links of that name only.
LEMMA ChildSame ==
  ASSUME NEW t, NEW u, NEW d, NEW n, \A l : l[1] = d /\ l[2] = n => (l \in t <=> l \in u)
  PROVE  Child(u, d, n) = Child(t, d, n)
<1> DEFINE Found(links) == IF links = {} THEN None ELSE (CHOOSE l \in links : TRUE)[3]
<1>1. /\ Child(t, d, n) = Found({l \in t : l[1] = d /\ l[2] = n})
      /\ Child(u, d, n) = Found({l \in u : l[1] = d /\ l[2] = n})
  BY DEF Child
<1>2. {l \in t : l[1] = d /\ l[2] = n} = {l \in u : l[1] = d /\ l[2] = n}
  OBVIOUS
<1> HIDE DEF Found
<1> QED
  BY <1>1, <1>2

LEMMA ChildOfNothing ==
  ASSUME NEW t, WellLinked(t), NEW d \in File \cup {None}, NEW n
  PROVE  Child(t, d, n) = None
BY ChildLinked DEF WellLinked

LEMMA ChildrenNamed ==
  ASSUME NEW t, WellLinked(t), NEW d, NEW n
  PROVE  n \in Children(t, d) <=> Child(t, d, n) # None
<1>1. n \in Children(t, d) <=> \E l \in t : l[1] = d /\ l[2] = n
  BY DEF Children
<1> QED
  BY <1>1, ChildLinked

-----------------------------------------------------------------------------
(* Paths in a directory *)

LEMMA AlongSteps ==
  ASSUME NEW t, NEW S, NEW p \in Seq(S)
  PROVE  /\ Along(t, p, 0) = Top /\ Along(t, p, Len(p)) = Resolve(t, p)
         /\ p # <<>> => Along(t, p, Len(p) - 1) = Resolve(t, Front(p)) /\ Last(p) = p[Len(p)]
         /\ \A i \in 1 .. Len(p) : Along(t, p, i) = Child(t, Along(t, p, i - 1), p[i])
<1>1. Front(p) = Prefix(p, Len(p) - 1) /\ Last(p) = p[Len(p)]
  BY DEF Front, Last, Prefix
<1>2. Prefix(p, Len(p)) = p
  BY PrefixFacts
<1> QED
  BY <1>1, <1>2, ResolveSteps DEF Along

\* What can be followed further is a directory.
LEMMA AboveIsDir ==
  ASSUME NEW t, WellLinked(t), NEW S, NEW p \in Seq(S), NEW i \in 0 .. Len(p), NEW j \in 0 .. Len(p),
         i < j, Along(t, p, j) # None
  PROVE  Along(t, p, i) \notin File \cup {None}
<1> DEFINE T == {k \in Nat : i + k + 1 <= j /\ Along(t, p, i + k + 1) # None => Along(t, p, i) \notin File \cup {None}}
<1>1. ASSUME NEW m \in 0 .. Len(p) - 1, Along(t, p, m + 1) # None
      PROVE  Along(t, p, m) \notin File \cup {None}
  <2>1. m + 1 \in 1 .. Len(p) /\ (m + 1) - 1 = m
    OBVIOUS
  <2>2. Along(t, p, m + 1) = Child(t, Along(t, p, m), p[m + 1])
    BY <2>1, AlongSteps
  <2> QED
    BY <1>1, <2>2, ChildOfNothing
<1>2. 0 \in T
  BY <1>1
<1>3. ASSUME NEW k \in Nat, k \in T
      PROVE  k + 1 \in T
  <2> SUFFICES ASSUME i + k + 2 <= j, Along(t, p, i + k + 2) # None
               PROVE  Along(t, p, i) \notin File \cup {None}
    OBVIOUS
  <2>1. i + k + 1 \in 0 .. Len(p) - 1 /\ (i + k + 1) + 1 = i + k + 2
    OBVIOUS
  <2>2. Along(t, p, i + k + 1) # None
    BY <1>1, <2>1
  <2> QED
    BY <1>3, <2>2
<1> HIDE DEF T
<1>4. j - i - 1 \in T
  <2>1. j - i - 1 \in Nat
    OBVIOUS
  <2> QED
    BY <1>2, <1>3, <2>1, NatSetInduction
<1> QED
  BY <1>4 DEF T

\* What a path leads to.
LEMMA StatFacts ==
  ASSUME NEW t, NEW p
  PROVE  /\ Stat(t, p) \in {"file", "dir", "none", "notdir"}
         /\ Stat(t, p) = "file" <=> Resolve(t, p) \in File
         /\ Stat(t, p) = "dir" <=> Resolve(t, p) \notin File \cup {None}
         /\ Stat(t, p) \in {"none", "notdir"} <=> Resolve(t, p) = None
         /\ Stat(t, p) \in {"file", "dir"} <=> Resolve(t, p) # None
<1> DEFINE node == Resolve(t, p)
<1>1. None \notin File
  BY NodesAssumption
<1>2. Stat(t, p) = IF node \in File THEN "file"
                   ELSE IF node # None THEN "dir"
                   ELSE IF \E i \in 1 .. Len(p) - 1 : Resolve(t, Prefix(p, i)) \in File THEN "notdir" ELSE "none"
  BY DEF Stat
<1> HIDE DEF node
<1>3. \/ node \in File /\ Stat(t, p) = "file"
      \/ node \notin File /\ node # None /\ Stat(t, p) = "dir"
      \/ node = None /\ node \notin File /\ Stat(t, p) \in {"none", "notdir"}
  BY <1>1, <1>2
<1> QED
  BY <1>1, <1>3 DEF node

\* MkdirAll finds no file on its way.
LEMMA CanMakeDirsFacts ==
  ASSUME NEW t, WellLinked(t), NEW S, NEW p \in Seq(S), CanMakeDirs(t, p), NEW i \in 0 .. Len(p)
  PROVE  Along(t, p, i) \notin File
<1>1. None \notin File /\ Top \notin File
  BY NodesAssumption
<1>2. Along(t, p, Len(p)) = Resolve(t, p) /\ Along(t, p, 0) = Top
  BY AlongSteps
<1>3. CASE Resolve(t, p) # None
  <2>1. Resolve(t, p) \notin File
    BY StatFacts DEF CanMakeDirs
  <2> QED
    BY <1>2, <1>3, <2>1, AboveIsDir
<1>4. CASE Resolve(t, p) = None
  <2>1. Stat(t, p) = "none"
    BY <1>4, StatFacts DEF CanMakeDirs
  <2>2. ~ \E k \in 1 .. Len(p) - 1 : Resolve(t, Prefix(p, k)) \in File
    BY <1>1, <1>4, <2>1 DEF Stat
  <2> QED
    BY <1>1, <1>2, <1>4, <2>2 DEF Along
<1> QED
  BY <1>3, <1>4

-----------------------------------------------------------------------------
(* What the calls that change a directory do to paths *)

\* Every path as far as its last name leads where it did, or the path led or leads nowhere.
Keeps(t, u) ==
  \A p \in Seq(Segment) : p # <<>> =>
    Resolve(u, Front(p)) = Resolve(t, Front(p)) \/ Resolve(u, p) = None \/ Resolve(t, p) = None

\* Links are new only where there was none.
Grows(t, u) == t \subseteq u /\ \A l \in u \ t : Child(t, l[1], l[2]) = None

\* One entry of a directory is one link.
Distinct(t) == \A k, l \in t : k[1] = l[1] /\ k[2] = l[2] => k = l

LEMMA LinkIsChild ==
  ASSUME NEW t, WellLinked(t), Distinct(t), NEW l \in t
  PROVE  Child(t, l[1], l[2]) = l[3]
BY ChildLinked DEF Distinct

LEMMA GrowsDistinct ==
  ASSUME NEW t, NEW u, WellLinked(t), Grows(t, u), Distinct(t),
         \A k, l \in u \ t : k[1] = l[1] /\ k[2] = l[2] => k = l
  PROVE  Distinct(u)
<1>1. ASSUME NEW k \in t, NEW l \in u \ t
      PROVE  ~(k[1] = l[1] /\ k[2] = l[2])
  BY ChildLinked DEF Grows
<1> QED
  BY <1>1 DEF Distinct

LEMMA GrowsSame ==
  ASSUME NEW t, NEW u, WellLinked(t), Grows(t, u), NEW S, NEW p \in Seq(S), NEW i \in 0 .. Len(p),
         Along(t, p, i) # None
  PROVE  Along(u, p, i) = Along(t, p, i)
<1> DEFINE T == {k \in Nat : k <= Len(p) /\ Along(t, p, k) # None => Along(u, p, k) = Along(t, p, k)}
<1>1. 0 \in T
  BY AlongSteps
<1>2. ASSUME NEW k \in Nat, k \in T
      PROVE  k + 1 \in T
  <2> SUFFICES ASSUME k + 1 <= Len(p), Along(t, p, k + 1) # None
               PROVE  Along(u, p, k + 1) = Along(t, p, k + 1)
    OBVIOUS
  <2> DEFINE d == Along(t, p, k)
             n == p[k + 1]
  <2>1. k + 1 \in 1 .. Len(p) /\ (k + 1) - 1 = k
    OBVIOUS
  <2>2. Along(t, p, k + 1) = Child(t, d, n) /\ Along(u, p, k + 1) = Child(u, Along(u, p, k), n)
    <3>1. Along(t, p, k + 1) = Child(t, d, n)
      BY <2>1, AlongSteps
    <3>2. Along(u, p, k + 1) = Child(u, Along(u, p, k), n)
      BY <2>1, AlongSteps
    <3> QED
      BY <3>1, <3>2
  <2>3. d # None
    BY <2>1, AboveIsDir
  <2>4. Along(u, p, k) = d
    BY <1>2, <2>3
  <2>5. \A l : l[1] = d /\ l[2] = n => (l \in t <=> l \in u)
    BY <2>2 DEF Grows
  <2> HIDE DEF d, n
  <2>6. Child(u, d, n) = Child(t, d, n)
    BY <2>5, ChildSame
  <2> QED
    BY <2>2, <2>4, <2>6
<1> HIDE DEF T
<1>3. i \in T
  BY <1>1, <1>2, NatSetInduction
<1> QED
  BY <1>3 DEF T

LEMMA GrowsKeeps ==
  ASSUME NEW t, NEW u, WellLinked(t), Grows(t, u)
  PROVE  Keeps(t, u) /\ \A p \in Seq(Segment) : Resolve(t, p) # None => Resolve(u, p) = Resolve(t, p)
<1> SUFFICES ASSUME NEW p \in Seq(Segment), Resolve(t, p) # None
             PROVE  /\ Resolve(u, p) = Resolve(t, p)
                    /\ p # <<>> => Resolve(u, Front(p)) = Resolve(t, Front(p))
  BY DEF Keeps
<1>1. /\ Along(t, p, Len(p)) = Resolve(t, p) /\ Along(u, p, Len(p)) = Resolve(u, p)
      /\ p # <<>> => /\ Along(t, p, Len(p) - 1) = Resolve(t, Front(p))
                     /\ Along(u, p, Len(p) - 1) = Resolve(u, Front(p))
  BY AlongSteps
<1>2. Resolve(u, p) = Resolve(t, p)
  BY <1>1, GrowsSame
<1>3. ASSUME p # <<>>
      PROVE  Resolve(u, Front(p)) = Resolve(t, Front(p))
  <2>1. Len(p) - 1 \in 0 .. Len(p) /\ Len(p) - 1 < Len(p)
    BY <1>3
  <2>2. Along(t, p, Len(p) - 1) # None
    BY <1>1, <2>1, AboveIsDir
  <2> QED
    BY <1>1, <1>3, <2>1, <2>2, GrowsSame
<1> QED
  BY <1>2, <1>3

\* Where a path leads is linked, unless it is Top.
LEMMA AlongLinked ==
  ASSUME NEW t, WellLinked(t), NEW S, NEW p \in Seq(S), NEW i \in 0 .. Len(p)
  PROVE  Along(t, p, i) \in {None, Top} \/ \E l \in t : l[3] = Along(t, p, i)
<1>1. CASE i = 0
  BY <1>1, AlongSteps
<1>2. CASE i # 0
  <2>1. i \in 1 .. Len(p)
    BY <1>2
  <2>2. Along(t, p, i) = Child(t, Along(t, p, i - 1), p[i])
    BY <2>1, AlongSteps
  <2> QED
    BY <2>2, ChildLinked
<1> QED
  BY <1>1, <1>2

-----------------------------------------------------------------------------
(* MkdirAll *)

\* No directory of this maker is in the tree.
Fresh(t, m) == \A l \in t, x \in Seq(Segment) : l[1] # <<m, x>> /\ l[3] # <<m, x>>

MissingDirs(t, p) == {i \in 1 .. Len(p) : Along(t, p, i) = None}
DirNode(t, p, m, i) == IF i \in MissingDirs(t, p) THEN <<m, Prefix(p, i)>> ELSE Along(t, p, i)

LEMMA MakeDirsLinks ==
  ASSUME NEW t, NEW p, NEW m
  PROVE  MakeDirs(t, p, m) = t \cup {<<DirNode(t, p, m, i - 1), p[i], DirNode(t, p, m, i)>> : i \in MissingDirs(t, p)}
BY DEF MakeDirs, MissingDirs, DirNode, Along

LEMMA MadeNodes ==
  ASSUME NEW m \in File \cup Nat, NEW x \in Seq(Segment)
  PROVE  <<m, x>> \notin File \cup {None, Top}
BY NodesAssumption DEF Segment

\* A link that MkdirAll makes.
LEMMA MakeDirsLink ==
  ASSUME NEW t, WellLinked(t), NEW p \in Seq(Segment), NEW m \in File \cup Nat,
         \A i \in 0 .. Len(p) - 1 : Along(t, p, i) \notin File, NEW i \in MissingDirs(t, p)
  PROVE  /\ i \in 1 .. Len(p) /\ p[i] \in Segment
         /\ DirNode(t, p, m, i) = <<m, Prefix(p, i)>> /\ Prefix(p, i) \in Seq(Segment)
         /\ DirNode(t, p, m, i - 1) \notin File \cup {None}
         /\ \/ DirNode(t, p, m, i - 1) = Along(t, p, i - 1) /\ i - 1 \notin MissingDirs(t, p)
            \/ /\ DirNode(t, p, m, i - 1) = <<m, Prefix(p, i - 1)>> /\ Prefix(p, i - 1) \in Seq(Segment)
               /\ i - 1 \in MissingDirs(t, p)
<1>1. i \in 1 .. Len(p) /\ i - 1 \in 0 .. Len(p)
  BY DEF MissingDirs
<1>2. p[i] \in Segment
  BY <1>1
<1>3. Prefix(p, i) \in Seq(Segment) /\ Prefix(p, i - 1) \in Seq(Segment)
  BY <1>1, PrefixFacts
<1>4. DirNode(t, p, m, i) = <<m, Prefix(p, i)>>
  BY DEF DirNode
<1>5. CASE i - 1 \in MissingDirs(t, p)
  <2>1. DirNode(t, p, m, i - 1) = <<m, Prefix(p, i - 1)>>
    BY <1>5 DEF DirNode
  <2> QED
    BY <1>1, <1>2, <1>3, <1>4, <1>5, <2>1, MadeNodes
<1>6. CASE i - 1 \notin MissingDirs(t, p)
  <2>1. DirNode(t, p, m, i - 1) = Along(t, p, i - 1)
    BY <1>6 DEF DirNode
  <2>2. Along(t, p, 0) # None
    BY AlongSteps, NodesAssumption
  <2>3. Along(t, p, i - 1) # None
    BY <1>1, <1>6, <2>2 DEF MissingDirs
  <2>4. Along(t, p, i - 1) \notin File
    BY <1>1
  <2> QED
    BY <1>1, <1>2, <1>3, <1>4, <1>6, <2>1, <2>3, <2>4
<1> QED
  BY <1>5, <1>6

LEMMA MakeDirsGrows ==
  ASSUME NEW t, WellLinked(t), NEW p \in Seq(Segment), NEW m \in File \cup Nat,
         \A i \in 0 .. Len(p) - 1 : Along(t, p, i) \notin File,
         Fresh(t, m) \/ Len(p) = 1
  PROVE  LET u == MakeDirs(t, p, m) IN
         /\ WellLinked(u) /\ Grows(t, u) /\ \A q \in File \cup Nat : q # m /\ Fresh(t, q) => Fresh(u, q)
         /\ IsFiniteSet(t) => IsFiniteSet(u)
         /\ \A l \in u \ t : \E x \in Seq(Segment) : l[3] = <<m, x>>
<1> DEFINE link(i) == <<DirNode(t, p, m, i - 1), p[i], DirNode(t, p, m, i)>>
           u == t \cup {link(i) : i \in MissingDirs(t, p)}
<1>1. MakeDirs(t, p, m) = u
  BY MakeDirsLinks
<1>2. ASSUME NEW l \in u, l \notin t
      PROVE  \E i \in MissingDirs(t, p) : /\ l = link(i) /\ l[1] = DirNode(t, p, m, i - 1)
                                          /\ l[2] = p[i] /\ l[3] = DirNode(t, p, m, i)
  BY <1>2
<1> HIDE DEF u
<1>3. WellLinked(u)
  <2> SUFFICES ASSUME NEW l \in u
               PROVE  /\ l = <<l[1], l[2], l[3]>> /\ l[2] \in Segment
                      /\ l[1] \notin File \cup {None} /\ l[3] # None
    BY DEF WellLinked
  <2>1. CASE l \in t
    BY <2>1 DEF WellLinked
  <2>2. CASE l \notin t
    <3>1. PICK i \in MissingDirs(t, p) : /\ l = link(i) /\ l[1] = DirNode(t, p, m, i - 1)
                                         /\ l[2] = p[i] /\ l[3] = DirNode(t, p, m, i)
      BY <1>2, <2>2
    <3>2. l[2] \in Segment /\ l[1] \notin File \cup {None} /\ l[3] = <<m, Prefix(p, i)>> /\ Prefix(p, i) \in Seq(Segment)
      BY <3>1, MakeDirsLink
    <3> QED
      BY <3>1, <3>2, MadeNodes
  <2> QED
    BY <2>1, <2>2
<1>4. Grows(t, u)
  <2> SUFFICES ASSUME NEW l \in u, l \notin t
               PROVE  Child(t, l[1], l[2]) = None
    BY DEF Grows, u
  <2>1. PICK i \in MissingDirs(t, p) : l[1] = DirNode(t, p, m, i - 1) /\ l[2] = p[i]
    BY <1>2
  <2>2. i \in 1 .. Len(p) /\ Along(t, p, i) = None
    BY DEF MissingDirs
  <2>3. CASE l[1] = Along(t, p, i - 1)
    <3>1. Along(t, p, i) = Child(t, Along(t, p, i - 1), p[i])
      BY <2>2, AlongSteps
    <3> QED
      BY <2>1, <2>2, <2>3, <3>1
  <2>4. CASE l[1] = <<m, Prefix(p, i - 1)>> /\ Prefix(p, i - 1) \in Seq(Segment) /\ i - 1 \in MissingDirs(t, p)
    <3>1. Len(p) # 1
      <4> SUFFICES ASSUME Len(p) = 1
                   PROVE  FALSE
        OBVIOUS
      <4>1. i - 1 \in 1 .. 1 /\ i \in 1 .. 1
        BY <2>2, <2>4 DEF MissingDirs
      <4> QED
        BY <4>1
    <3>2. \A k \in t : k[1] # l[1]
      BY <2>4, <3>1 DEF Fresh
    <3> QED
      BY <3>2, ChildLinked
  <2> QED
    BY <2>1, <2>3, <2>4, MakeDirsLink
<1>5. ASSUME NEW q \in File \cup Nat, q # m, Fresh(t, q)
      PROVE  Fresh(u, q)
  <2> SUFFICES ASSUME NEW l \in u, NEW x \in Seq(Segment)
               PROVE  l[1] # <<q, x>> /\ l[3] # <<q, x>>
    BY DEF Fresh
  <2>1. CASE l \in t
    BY <1>5, <2>1 DEF Fresh
  <2>2. CASE l \notin t
    <3>1. PICK i \in MissingDirs(t, p) : l[1] = DirNode(t, p, m, i - 1) /\ l[3] = DirNode(t, p, m, i)
      BY <1>2, <2>2
    <3>2. l[3] # <<q, x>>
      BY <1>5, <3>1, MakeDirsLink
    <3>3. CASE l[1] = <<m, Prefix(p, i - 1)>>
      BY <1>5, <3>2, <3>3
    <3>4. CASE l[1] = Along(t, p, i - 1)
      <4>1. i - 1 \in 0 .. Len(p)
        BY DEF MissingDirs
      <4>2. l[1] \in {None, Top} \/ \E k \in t : k[3] = l[1]
        BY <3>4, <4>1, AlongLinked
      <4>3. CASE l[1] = Top
        BY <3>2, <4>3, MadeNodes
      <4> QED
        BY <1>5, <3>1, <3>2, <4>2, <4>3, MakeDirsLink DEF Fresh
    <3> QED
      BY <3>1, <3>3, <3>4, MakeDirsLink
  <2> QED
    BY <2>1, <2>2
<1>6. ASSUME IsFiniteSet(t)
      PROVE  IsFiniteSet(u)
  <2>1. IsFiniteSet(1 .. Len(p))
    BY FS_Interval
  <2>2. IsFiniteSet(MissingDirs(t, p))
    BY <2>1, FS_Subset DEF MissingDirs
  <2>3. IsFiniteSet({link(i) : i \in MissingDirs(t, p)})
    <3> DEFINE f == [i \in MissingDirs(t, p) |-> link(i)]
    <3> HIDE DEF link
    <3>1. f \in Surjection(MissingDirs(t, p), {link(i) : i \in MissingDirs(t, p)})
      BY DEF Surjection
    <3> QED
      BY <2>2, <3>1, FS_Surjection
  <2> QED
    BY <1>6, <2>3, FS_Union DEF u
<1>7. \A l \in u \ t : \E x \in Seq(Segment) : l[3] = <<m, x>>
  BY <1>2, MakeDirsLink
<1> QED
  BY <1>1, <1>3, <1>4, <1>5, <1>6, <1>7

\* Each directory MkdirAll makes has an entry in another directory.
LEMMA MissingOnce ==
  ASSUME NEW t, WellLinked(t), NEW p \in Seq(Segment), NEW m \in File \cup Nat,
         Fresh(t, m) \/ Len(p) = 1, NEW i \in MissingDirs(t, p), NEW j \in MissingDirs(t, p),
         DirNode(t, p, m, j - 1) = DirNode(t, p, m, i - 1)
  PROVE  j = i
<1>1. i \in 1 .. Len(p) /\ j \in 1 .. Len(p)
  BY DEF MissingDirs
<1>2. CASE Len(p) = 1
  BY <1>1, <1>2
<1>3. ASSUME Fresh(t, m), j - 1 \in MissingDirs(t, p), i - 1 \in MissingDirs(t, p)
      PROVE  j = i
  <2>1. Prefix(p, j - 1) = Prefix(p, i - 1)
    BY <1>3 DEF DirNode
  <2>2. j - 1 \in 0 .. Len(p) /\ i - 1 \in 0 .. Len(p)
    BY <1>1
  <2>3. Len(Prefix(p, j - 1)) = j - 1
    BY <2>2, PrefixFacts
  <2>4. Len(Prefix(p, i - 1)) = i - 1
    BY <2>2, PrefixFacts
  <2> QED
    BY <1>1, <2>1, <2>3, <2>4
<1>4. ASSUME NEW a \in MissingDirs(t, p), NEW b \in MissingDirs(t, p), Fresh(t, m),
             a - 1 \in MissingDirs(t, p), b - 1 \notin MissingDirs(t, p),
             DirNode(t, p, m, a - 1) = DirNode(t, p, m, b - 1)
      PROVE  FALSE
  <2>1. b - 1 \in 0 .. Len(p) /\ a - 1 \in 0 .. Len(p)
    BY DEF MissingDirs
  <2>2. Along(t, p, b - 1) = <<m, Prefix(p, a - 1)>> /\ Prefix(p, a - 1) \in Seq(Segment)
    BY <1>4, <2>1, PrefixFacts DEF DirNode
  <2>3. Along(t, p, b - 1) \in {None, Top} \/ \E h \in t : h[3] = Along(t, p, b - 1)
    BY <2>1, AlongLinked
  <2> QED
    BY <1>4, <2>2, <2>3, MadeNodes DEF Fresh
<1>5. ASSUME NEW a \in MissingDirs(t, p), NEW b \in MissingDirs(t, p), a < b,
             b - 1 \notin MissingDirs(t, p)
      PROVE  FALSE
  <2>1. /\ a \in 0 .. Len(p) /\ b - 1 \in 0 .. Len(p) /\ a <= b - 1 /\ Along(t, p, a) = None
        /\ b - 1 \in 1 .. Len(p)
    BY <1>5 DEF MissingDirs
  <2>2. Along(t, p, b - 1) # None
    BY <1>5, <2>1 DEF MissingDirs
  <2> QED
    BY <2>1, <2>2, AboveIsDir
<1> QED
  BY <1>1, <1>2, <1>3, <1>4, <1>5

LEMMA MakeDirsDistinct ==
  ASSUME NEW t, WellLinked(t), NEW p \in Seq(Segment), NEW m \in File \cup Nat,
         \A i \in 0 .. Len(p) - 1 : Along(t, p, i) \notin File,
         Fresh(t, m) \/ Len(p) = 1, Distinct(t)
  PROVE  Distinct(MakeDirs(t, p, m))
<1> DEFINE u == MakeDirs(t, p, m)
<1>1. Grows(t, u)
  BY MakeDirsGrows
<1>2. u = t \cup {<<DirNode(t, p, m, i - 1), p[i], DirNode(t, p, m, i)>> : i \in MissingDirs(t, p)}
  BY MakeDirsLinks
<1> HIDE DEF u
<1>3. ASSUME NEW k \in u \ t, NEW l \in u \ t, k[1] = l[1]
      PROVE  k = l
  <2>1. PICK i \in MissingDirs(t, p) : k = <<DirNode(t, p, m, i - 1), p[i], DirNode(t, p, m, i)>>
    BY <1>2
  <2>2. PICK j \in MissingDirs(t, p) : l = <<DirNode(t, p, m, j - 1), p[j], DirNode(t, p, m, j)>>
    BY <1>2
  <2>3. DirNode(t, p, m, j - 1) = DirNode(t, p, m, i - 1)
    BY <1>3, <2>1, <2>2
  <2>4. j = i
    BY <2>3, MissingOnce
  <2> QED
    BY <2>1, <2>2, <2>4
<1>4. Distinct(u)
  BY <1>1, <1>3, GrowsDistinct
<1> QED
  BY <1>4 DEF u

\* MkdirAll makes its path.
LEMMA MakeDirsMakes ==
  ASSUME NEW t, WellLinked(t), NEW p \in Seq(Segment), NEW m \in File \cup Nat,
         \A i \in 0 .. Len(p) - 1 : Along(t, p, i) \notin File, Fresh(t, m)
  PROVE  Resolve(MakeDirs(t, p, m), p) # None
<1> DEFINE u == MakeDirs(t, p, m)
           T == {k \in Nat : k <= Len(p) => Along(u, p, k) = DirNode(t, p, m, k)}
<1>1. WellLinked(u) /\ Grows(t, u)
  BY MakeDirsGrows
<1>2. 0 \in T
  <2>1. Along(u, p, 0) = Top /\ Along(t, p, 0) = Top
    BY AlongSteps
  <2> QED
    BY <2>1 DEF DirNode, MissingDirs
<1>3. ASSUME NEW k \in Nat, k \in T
      PROVE  k + 1 \in T
  <2> SUFFICES ASSUME k + 1 <= Len(p)
               PROVE  Along(u, p, k + 1) = DirNode(t, p, m, k + 1)
    OBVIOUS
  <2> HIDE DEF T
  <2> DEFINE i == k + 1
  <2>1. i \in 1 .. Len(p) /\ i - 1 = k /\ i \in 0 .. Len(p)
    OBVIOUS
  <2>2. CASE i \notin MissingDirs(t, p)
    <3>1. Along(t, p, i) # None
      BY <2>1, <2>2 DEF MissingDirs
    <3>2. Along(u, p, i) = Along(t, p, i)
      BY <1>1, <2>1, <3>1, GrowsSame
    <3> QED
      BY <2>2, <3>2 DEF DirNode
  <2>3. CASE i \in MissingDirs(t, p)
    <3> DEFINE d == DirNode(t, p, m, k)
               n == p[i]
    <3>1. Along(u, p, i) = Child(u, d, n)
      <4>1. Along(u, p, k) = d
        BY <1>3, <2>1 DEF T
      <4>2. Along(u, p, i) = Child(u, Along(u, p, i - 1), n)
        BY <2>1, AlongSteps
      <4> QED
        BY <2>1, <4>1, <4>2
    <3>2. u = t \cup {<<DirNode(t, p, m, j - 1), p[j], DirNode(t, p, m, j)>> : j \in MissingDirs(t, p)}
      BY MakeDirsLinks
    <3>3. <<d, n, DirNode(t, p, m, i)>> \in u
      BY <2>1, <2>3, <3>2
    <3>4. ASSUME NEW l \in u, l[1] = d, l[2] = n
          PROVE  l[3] = DirNode(t, p, m, i)
      <4>1. CASE l \in t
        <5>1. CASE d = Along(t, p, i - 1)
          <6>0. Along(t, p, i) = Child(t, Along(t, p, i - 1), p[i])
            BY <2>1, AlongSteps
          <6>1. Along(t, p, i) = Child(t, d, n)
            BY <5>1, <6>0
          <6>2. Child(t, d, n) = None
            BY <2>3, <6>1 DEF MissingDirs
          <6> QED
            BY <3>4, <4>1, <6>2, ChildLinked
        <5>2. CASE d = <<m, Prefix(p, i - 1)>> /\ Prefix(p, i - 1) \in Seq(Segment)
          BY <3>4, <4>1, <5>2 DEF Fresh
        <5> QED
          BY <2>1, <2>3, <5>1, <5>2, MakeDirsLink
      <4>2. CASE l \notin t
        <5>1. PICK j \in MissingDirs(t, p) : l = <<DirNode(t, p, m, j - 1), p[j], DirNode(t, p, m, j)>>
          BY <3>2, <4>2
        <5>2. DirNode(t, p, m, j - 1) = DirNode(t, p, m, i - 1)
          BY <2>1, <3>4, <5>1
        <5>3. j = i
          BY <2>3, <5>2, MissingOnce
        <5> QED
          BY <5>1, <5>3
      <4> QED
        BY <4>1, <4>2
    <3> HIDE DEF d, n, u, i
    <3>5. PICK l \in u : l[1] = d /\ l[2] = n /\ l[3] = Child(u, d, n)
      BY <1>1, <3>3, ChildLinked
    <3> QED
      BY <3>1, <3>4, <3>5 DEF i
  <2> QED
    BY <2>2, <2>3
<1>4. Along(u, p, Len(p)) = DirNode(t, p, m, Len(p))
  <2> HIDE DEF T
  <2>1. Len(p) \in T
    BY <1>2, <1>3, NatSetInduction
  <2> QED
    BY <2>1 DEF T
<1>5. DirNode(t, p, m, Len(p)) # None
  <2>1. Prefix(p, Len(p)) = p
    BY PrefixFacts
  <2>2. Along(t, p, 0) = Top
    BY AlongSteps
  <2>3. CASE Len(p) \in MissingDirs(t, p)
    BY <2>1, <2>3, MadeNodes DEF DirNode
  <2>4. CASE Len(p) \notin MissingDirs(t, p)
    <3>1. Along(t, p, Len(p)) # None
      BY <2>2, <2>4, NodesAssumption DEF MissingDirs
    <3> QED
      BY <2>4, <3>1 DEF DirNode
  <2> QED
    BY <2>3, <2>4
<1> QED
  BY <1>4, <1>5, AlongSteps

-----------------------------------------------------------------------------
(* Links taken out, linked and moved *)

\* Children and finiteness aside, a smaller set of links is as well formed.
LEMMA SubsetLinked ==
  ASSUME NEW t, WellLinked(t), NEW u, u \subseteq t
  PROVE  /\ WellLinked(u) /\ \A m : Fresh(t, m) => Fresh(u, m)
         /\ IsFiniteSet(t) => IsFiniteSet(u)
BY FS_Subset DEF WellLinked, Fresh

LEMMA UnlinkChild ==
  ASSUME NEW t, NEW d, NEW n, NEW x, NEW y
  PROVE  Child(Unlink(t, d, n), x, y) = IF x = d /\ y = n THEN None ELSE Child(t, x, y)
<1> DEFINE u == Unlink(t, d, n)
<1>1. CASE x = d /\ y = n
  <2>1. {l \in u : l[1] = x /\ l[2] = y} = {}
    BY <1>1 DEF Unlink
  <2> QED
    BY <1>1, <2>1 DEF Child
<1>2. CASE ~(x = d /\ y = n)
  <2>1. \A l : l[1] = x /\ l[2] = y => (l \in t <=> l \in u)
    BY <1>2 DEF Unlink
  <2> HIDE DEF u
  <2>2. Child(u, x, y) = Child(t, x, y)
    BY <2>1, ChildSame
  <2> QED
    BY <1>2, <2>2 DEF u
<1> QED
  BY <1>1, <1>2

\* Without a link a path leads where it did, or nowhere.
LEMMA UnlinkSame ==
  ASSUME NEW t, WellLinked(t), NEW d, NEW n, NEW S, NEW p \in Seq(S), NEW i \in 0 .. Len(p)
  PROVE  Along(Unlink(t, d, n), p, i) \in {Along(t, p, i), None}
<1> DEFINE u == Unlink(t, d, n)
           T == {k \in Nat : k <= Len(p) => Along(u, p, k) \in {Along(t, p, k), None}}
<1>1. 0 \in T
  BY AlongSteps
<1>2. WellLinked(u)
  BY SubsetLinked DEF Unlink
<1>3. ASSUME NEW k \in Nat, k \in T
      PROVE  k + 1 \in T
  <2> SUFFICES ASSUME k + 1 <= Len(p)
               PROVE  Along(u, p, k + 1) \in {Along(t, p, k + 1), None}
    OBVIOUS
  <2>1. k + 1 \in 1 .. Len(p) /\ (k + 1) - 1 = k
    OBVIOUS
  <2>2. /\ Along(t, p, k + 1) = Child(t, Along(t, p, k), p[k + 1])
        /\ Along(u, p, k + 1) = Child(u, Along(u, p, k), p[k + 1])
    <3>1. Along(t, p, k + 1) = Child(t, Along(t, p, k), p[k + 1])
      BY <2>1, AlongSteps
    <3>2. Along(u, p, k + 1) = Child(u, Along(u, p, k), p[k + 1])
      BY <2>1, AlongSteps
    <3> QED
      BY <3>1, <3>2
  <2>3. Along(u, p, k) \in {Along(t, p, k), None}
    BY <1>3, <2>1
  <2> HIDE DEF T
  <2>4. CASE Along(u, p, k) = None
    BY <1>2, <2>2, <2>4, ChildOfNothing
  <2>5. CASE Along(u, p, k) = Along(t, p, k)
    BY <2>2, <2>5, UnlinkChild
  <2> QED
    BY <2>3, <2>4, <2>5
<1> HIDE DEF T
<1>4. i \in T
  BY <1>1, <1>3, NatSetInduction
<1> QED
  BY <1>4 DEF T

LEMMA UnlinkKeeps ==
  ASSUME NEW t, WellLinked(t), NEW d, NEW n
  PROVE  /\ Keeps(t, Unlink(t, d, n))
         /\ \A p \in Seq(Segment) :
              p # <<>> /\ Resolve(t, Front(p)) = d /\ Last(p) = n => Resolve(Unlink(t, d, n), p) = None
<1> DEFINE u == Unlink(t, d, n)
<1> SUFFICES ASSUME NEW p \in Seq(Segment), p # <<>>
             PROVE  /\ Resolve(u, Front(p)) = Resolve(t, Front(p)) \/ Resolve(u, p) = None
                    /\ Resolve(t, Front(p)) = d /\ Last(p) = n => Resolve(u, p) = None
  BY DEF Keeps
<1>1. WellLinked(u)
  BY SubsetLinked DEF Unlink
<1>2. Len(p) \in 1 .. Len(p) /\ Len(p) - 1 \in 0 .. Len(p)
  OBVIOUS
<1>3. /\ Along(t, p, Len(p) - 1) = Resolve(t, Front(p))
      /\ Along(u, p, Len(p) - 1) = Resolve(u, Front(p))
      /\ Along(u, p, Len(p)) = Resolve(u, p) /\ Last(p) = p[Len(p)]
  BY AlongSteps
<1>4. Resolve(u, p) = Child(u, Resolve(u, Front(p)), Last(p))
  BY <1>2, <1>3, AlongSteps
<1>5. Resolve(u, Front(p)) \in {Resolve(t, Front(p)), None}
  BY <1>2, <1>3, UnlinkSame
<1>6. CASE Resolve(u, Front(p)) = None
  BY <1>1, <1>4, <1>6, ChildOfNothing
<1>7. CASE Resolve(u, Front(p)) = Resolve(t, Front(p))
  BY <1>4, <1>7, UnlinkChild
<1> QED
  BY <1>5, <1>6, <1>7

\* A directory's entry for a file is one more link.
LEMMA LinkWell ==
  ASSUME NEW t, WellLinked(t), NEW p \in Seq(Segment), p # <<>>, NEW f \in File,
         Resolve(t, Front(p)) \notin File \cup {None}
  PROVE  LET u == t \cup {<<Resolve(t, Front(p)), Last(p), f>>} IN
         /\ WellLinked(u) /\ \A m \in File \cup Nat : Fresh(t, m) => Fresh(u, m)
         /\ IsFiniteSet(t) => IsFiniteSet(u)
<1> DEFINE d == Resolve(t, Front(p))
           n == Last(p)
           l == <<d, n, f>>
           u == t \cup {l}
<1>1. Len(p) \in 1 .. Len(p) /\ Len(p) - 1 \in 0 .. Len(p)
  OBVIOUS
<1>2. Along(t, p, Len(p) - 1) = d /\ n = p[Len(p)] /\ n \in Segment
  BY <1>1, AlongSteps
<1>3. l[1] = d /\ l[2] = n /\ l[3] = f
  OBVIOUS
<1> HIDE DEF d, n, l
<1>4. WellLinked(u)
  <2>1. f # None
    BY NodesAssumption
  <2>2. l = <<l[1], l[2], l[3]>>
    BY <1>3 DEF l
  <2>3. d \notin File \cup {None}
    BY DEF d
  <2> QED
    BY <1>2, <1>3, <2>1, <2>2, <2>3 DEF WellLinked
<1>5. ASSUME NEW m \in File \cup Nat, Fresh(t, m)
      PROVE  Fresh(u, m)
  <2> SUFFICES ASSUME NEW x \in Seq(Segment)
               PROVE  l[1] # <<m, x>> /\ l[3] # <<m, x>>
    BY <1>5 DEF Fresh
  <2>1. d \in {None, Top} \/ \E k \in t : k[3] = d
    BY <1>1, <1>2, AlongLinked
  <2> QED
    BY <1>3, <1>5, <2>1, MadeNodes DEF Fresh
<1>6. IsFiniteSet(t) => IsFiniteSet(u)
  BY FS_AddElement
<1> QED
  BY <1>4, <1>5, <1>6 DEF d, n, l

\* O_CREATE: a file that is not there is linked.
LEMMA LinkFile ==
  ASSUME NEW t, WellLinked(t), NEW p \in Seq(Segment), p # <<>>, NEW f \in File,
         Stat(t, Front(p)) = "dir", f = Resolve(t, p) \/ Resolve(t, p) = None
  PROVE  LET u == t \cup {<<Resolve(t, Front(p)), Last(p), f>>} IN
         /\ WellLinked(u) /\ Grows(t, u) /\ Resolve(u, p) = f
         /\ \A m \in File \cup Nat : Fresh(t, m) => Fresh(u, m)
         /\ IsFiniteSet(t) => IsFiniteSet(u)
<1> DEFINE d == Resolve(t, Front(p))
           n == Last(p)
           l == <<d, n, f>>
           u == t \cup {l}
<1>1. Len(p) \in 1 .. Len(p) /\ Len(p) - 1 \in 0 .. Len(p)
  OBVIOUS
<1>2. Along(t, p, Len(p) - 1) = d /\ Along(t, p, Len(p)) = Resolve(t, p) /\ n = p[Len(p)]
  BY AlongSteps
<1>3. Resolve(t, p) = Child(t, d, n)
  BY <1>1, <1>2, AlongSteps
<1>4. d \notin File \cup {None}
  BY StatFacts
<1>5. l[1] = d /\ l[2] = n /\ l[3] = f
  OBVIOUS
<1>6. /\ WellLinked(u) /\ \A m \in File \cup Nat : Fresh(t, m) => Fresh(u, m)
      /\ IsFiniteSet(t) => IsFiniteSet(u)
  BY <1>4, LinkWell
<1> HIDE DEF d, n, l
<1>7. Grows(t, u)
  <2>1. CASE Resolve(t, p) = None
    BY <1>3, <1>5, <2>1 DEF Grows
  <2>2. CASE Resolve(t, p) # None
    <3>1. PICK k \in t : k[1] = d /\ k[2] = n /\ k[3] = f
      BY <1>3, <2>2, ChildLinked
    <3>2. k = <<k[1], k[2], k[3]>>
      BY DEF WellLinked
    <3>3. l \in t
      BY <3>1, <3>2 DEF l
    <3> QED
      BY <3>3 DEF Grows
  <2> QED
    BY <2>1, <2>2
<1>8. Resolve(u, p) = f
  <2>1. CASE Resolve(t, p) # None
    BY <1>7, <2>1, GrowsKeeps
  <2>2. CASE Resolve(t, p) = None
    <3>1. Along(u, p, Len(p) - 1) = d
      BY <1>1, <1>2, <1>4, <1>7, GrowsSame
    <3>2. Resolve(u, p) = Child(u, d, n)
      <4>1. Along(u, p, Len(p)) = Resolve(u, p)
        BY AlongSteps
      <4> QED
        BY <1>1, <1>2, <3>1, <4>1, AlongSteps
    <3>3. PICK k \in u : k[1] = d /\ k[2] = n /\ k[3] = Child(u, d, n)
      BY <1>5, <1>6, ChildLinked
    <3>4. k \notin t
      BY <1>3, <2>2, <3>3, ChildLinked
    <3>5. k = l
      BY <3>4
    <3> QED
      BY <1>5, <3>2, <3>3, <3>5
  <2> QED
    BY <2>1, <2>2
<1> QED
  BY <1>6, <1>7, <1>8 DEF d, n, l

\* What rename(2) asks for, name by name: it puts what was at one entry at another.
LEMMA RenameEntries ==
  ASSUME NEW t, WellLinked(t), NEW p \in Seq(Segment), p # <<>>, NEW q \in Seq(Segment), q # <<>>,
         CanRename(t, p, q), Resolve(t, q) # Resolve(t, p)
  PROVE  LET u  == Rename(t, p, q)
             pf == Resolve(t, Front(p))
             pt == Resolve(t, Front(q))
         IN  /\ Child(u, pt, Last(q)) = Resolve(t, p)
             /\ ~(pf = pt /\ Last(p) = Last(q)) /\ Child(u, pf, Last(p)) = None
             /\ \A x, y : ~(x = pf /\ y = Last(p)) /\ ~(x = pt /\ y = Last(q)) => Child(u, x, y) = Child(t, x, y)
             /\ Child(t, pt, Last(q)) = Resolve(t, q) /\ Child(t, pf, Last(p)) = Resolve(t, p)
             /\ WellLinked(u) /\ \A m \in File \cup Nat : Fresh(t, m) => Fresh(u, m)
             /\ IsFiniteSet(t) => IsFiniteSet(u)
<1> DEFINE u    == Rename(t, p, q)
           node == Resolve(t, p)
           pf   == Resolve(t, Front(p))
           pt   == Resolve(t, Front(q))
           nf   == Last(p)
           nt   == Last(q)
           rest == Unlink(Unlink(t, pf, nf), pt, nt)
           l    == <<pt, nt, node>>
<1>1. /\ Along(t, p, Len(p) - 1) = pf /\ Along(t, p, Len(p)) = node /\ nf = p[Len(p)]
      /\ Along(t, q, Len(q) - 1) = pt /\ Along(t, q, Len(q)) = Resolve(t, q) /\ nt = q[Len(q)]
  BY AlongSteps
<1>2. Len(p) \in 1 .. Len(p) /\ Len(q) \in 1 .. Len(q)
  OBVIOUS
<1>3. node = Child(t, pf, nf) /\ Resolve(t, q) = Child(t, pt, nt) /\ nt \in Segment
  BY <1>1, <1>2, AlongSteps
<1>4. node # None /\ pt \notin File \cup {None}
  BY StatFacts DEF CanRename
<1>5. u = rest \cup {l}
  BY DEF Rename, Link
<1>6. \A x, y : Child(rest, x, y) = IF (x = pf /\ y = nf) \/ (x = pt /\ y = nt) THEN None ELSE Child(t, x, y)
  BY UnlinkChild
<1>7. rest \subseteq t
  BY DEF Unlink
<1>8. l[1] = pt /\ l[2] = nt /\ l[3] = node /\ l = <<l[1], l[2], l[3]>>
  OBVIOUS
<1>9. ~(pf = pt /\ nf = nt)
  BY <1>3
<1>10. \A k \in rest : ~(k[1] = pt /\ k[2] = nt)
  BY DEF Unlink
<1> HIDE DEF u, node, pf, pt, nf, nt, rest, l
<1>11. WellLinked(u)
  BY <1>3, <1>4, <1>5, <1>7, <1>8 DEF WellLinked
<1>12. Child(u, pt, nt) = node
  <2>1. PICK k \in u : k[1] = pt /\ k[2] = nt /\ k[3] = Child(u, pt, nt)
    BY <1>5, <1>8, <1>11, ChildLinked
  <2> QED
    BY <1>5, <1>8, <1>10, <2>1
<1>13. ASSUME NEW x, NEW y, ~(x = pt /\ y = nt)
       PROVE  Child(u, x, y) = Child(rest, x, y)
  <2>1. \A k : k[1] = x /\ k[2] = y => (k \in rest <=> k \in u)
    BY <1>5, <1>8, <1>13
  <2> QED
    BY <2>1, ChildSame
<1>14. ASSUME NEW m \in File \cup Nat, Fresh(t, m)
       PROVE  Fresh(u, m)
  <2> SUFFICES ASSUME NEW x \in Seq(Segment)
               PROVE  l[1] # <<m, x>> /\ l[3] # <<m, x>>
    BY <1>5, <1>7, <1>14 DEF Fresh
  <2>1. Len(p) \in 0 .. Len(p) /\ Len(q) - 1 \in 0 .. Len(q)
    BY <1>2
  <2>2. node \in {None, Top} \/ \E k \in t : k[3] = node
    BY <1>1, <2>1, AlongLinked
  <2>3. pt \in {None, Top} \/ \E k \in t : k[3] = pt
    BY <1>1, <2>1, AlongLinked
  <2>4. <<m, x>> \notin {None, Top}
    BY MadeNodes
  <2> QED
    BY <1>8, <1>14, <2>2, <2>3, <2>4 DEF Fresh
<1>15. IsFiniteSet(t) => IsFiniteSet(u)
  BY <1>5, <1>7, FS_AddElement, FS_Subset
<1>16. Child(u, pf, nf) = None /\ \A x, y : ~(x = pf /\ y = nf) /\ ~(x = pt /\ y = nt) => Child(u, x, y) = Child(t, x, y)
  BY <1>6, <1>9, <1>13
<1> QED
  BY <1>3, <1>9, <1>11, <1>12, <1>14, <1>15, <1>16 DEF u, node, pf, pt, nf, nt

\* Rename takes out its source's entry and its target's.
LEMMA RenameLinks ==
  ASSUME NEW t, WellLinked(t), Distinct(t), NEW p \in Seq(Segment), p # <<>>,
         NEW q \in Seq(Segment), q # <<>>, CanRename(t, p, q)
  PROVE  /\ Distinct(Rename(t, p, q))
         /\ \A l \in t \ Rename(t, p, q) : l \in {Entry(t, p), Entry(t, q)}
<1> DEFINE node == Resolve(t, p)
           pf   == Resolve(t, Front(p))
           pt   == Resolve(t, Front(q))
           nf   == Last(p)
           nt   == Last(q)
           rest == Unlink(Unlink(t, pf, nf), pt, nt)
           link == <<pt, nt, node>>
<1>1. CASE Resolve(t, q) = node
  BY <1>1 DEF Rename
<1>2. CASE Resolve(t, q) # node
  <2>1. Rename(t, p, q) = rest \cup {link}
    BY <1>2 DEF Rename, Link
  <2>2. /\ rest \subseteq t /\ link[1] = pt /\ link[2] = nt
        /\ \A k \in rest : ~(k[1] = pt /\ k[2] = nt)
    BY DEF Unlink
  <2>3. \A l \in t \ rest : (l[1] = pf /\ l[2] = nf) \/ (l[1] = pt /\ l[2] = nt)
    BY DEF Unlink
  <2>4. Child(t, pt, nt) = Resolve(t, q) /\ Child(t, pf, nf) = node
    BY <1>2, RenameEntries
  <2> HIDE DEF node, pf, pt, nf, nt, rest, link
  <2>5. Distinct(rest \cup {link})
    BY <2>2 DEF Distinct
  <2>6. ASSUME NEW l \in t \ rest
        PROVE  l \in {<<pf, nf, node>>, <<pt, nt, Resolve(t, q)>>}
    <3>1. l = <<l[1], l[2], l[3]>> /\ l[3] = Child(t, l[1], l[2])
      BY LinkIsChild DEF WellLinked
    <3> QED
      BY <2>3, <2>4, <3>1
  <2>7. \A l \in t \ rest : l \in {Entry(t, p), Entry(t, q)}
    BY <2>6 DEF Entry, node, pf, nf, pt, nt
  <2> QED
    BY <2>1, <2>5, <2>7
<1> QED
  BY <1>1, <1>2

\* What was moved is at its target, and every other path leads where it did or nowhere.
LEMMA RenameMoves ==
  ASSUME NEW t, WellLinked(t), NEW p \in Seq(Segment), p # <<>>, NEW q \in Seq(Segment), q # <<>>,
         CanRename(t, p, q)
  PROVE  LET u == Rename(t, p, q) IN
         /\ Resolve(u, q) = Resolve(t, p) /\ Resolve(t, p) # None /\ Keeps(t, u)
         /\ WellLinked(u) /\ \A m \in File \cup Nat : Fresh(t, m) => Fresh(u, m)
         /\ IsFiniteSet(t) => IsFiniteSet(u)
<1> DEFINE u    == Rename(t, p, q)
           node == Resolve(t, p)
           old  == Resolve(t, q)
           pf   == Resolve(t, Front(p))
           pt   == Resolve(t, Front(q))
           nf   == Last(p)
           nt   == Last(q)
<1>0. node # None
  BY DEF CanRename
<1>1. CASE old = node
  BY <1>0, <1>1 DEF Rename, Keeps
<1>2. CASE old # node
  <2>1. /\ Child(u, pt, nt) = node
        /\ ~(pf = pt /\ nf = nt) /\ Child(u, pf, nf) = None
        /\ \A x, y : ~(x = pf /\ y = nf) /\ ~(x = pt /\ y = nt) => Child(u, x, y) = Child(t, x, y)
        /\ Child(t, pt, nt) = old /\ Child(t, pf, nf) = node
        /\ WellLinked(u) /\ \A m \in File \cup Nat : Fresh(t, m) => Fresh(u, m)
        /\ IsFiniteSet(t) => IsFiniteSet(u)
    BY <1>2, RenameEntries
  <2>2. \A i \in 0 .. Len(q) - 1 : Along(t, q, i) # node
    BY DEF CanRename, Along
  <2>3. \A n : Child(t, old, n) = None
    <3>1. CASE old \in File \cup {None}
      BY <3>1, ChildOfNothing
    <3>2. CASE old \notin File \cup {None}
      <4>1. Children(t, old) = {}
        BY <1>2, <3>2 DEF CanRename
      <4> QED
        BY <4>1, ChildrenNamed
    <3> QED
      BY <3>1, <3>2
  <2>4. /\ Along(t, q, Len(q) - 1) = pt /\ Along(u, q, Len(q)) = Resolve(u, q) /\ nt = q[Len(q)]
        /\ Along(t, q, Len(q)) = old
    BY AlongSteps
  <2>5. Len(q) \in 1 .. Len(q)
    OBVIOUS
  <2>6. pt # None
    BY StatFacts DEF CanRename
  <2> HIDE DEF u, node, old, pf, pt, nf, nt
  \* A path that goes on through the target's entry was broken before, one through the source's is now.
  <2>7. ASSUME NEW S, NEW c \in Seq(S), NEW m \in 0 .. Len(c),
               \A i \in 1 .. m : /\ Along(u, c, i) # None \/ Along(t, c, i) # node
                                 /\ Along(t, c, i) # old \/ \E n : Child(t, Along(t, c, i), n) # None
        PROVE  Along(u, c, m) = Along(t, c, m)
    <3> DEFINE T == {k \in Nat : k <= m => Along(u, c, k) = Along(t, c, k)}
    <3>1. 0 \in T
      BY AlongSteps
    <3>2. ASSUME NEW k \in Nat, k \in T
          PROVE  k + 1 \in T
      <4> SUFFICES ASSUME k + 1 <= m
                   PROVE  Along(u, c, k + 1) = Along(t, c, k + 1)
        OBVIOUS
      <4>1. k + 1 \in 1 .. Len(c) /\ (k + 1) - 1 = k /\ k + 1 \in 1 .. m
        OBVIOUS
      <4> DEFINE d == Along(t, c, k)
                 n == c[k + 1]
      <4>2. Along(u, c, k) = d
        BY <3>2, <4>1
      <4>3. Along(t, c, k + 1) = Child(t, d, n) /\ Along(u, c, k + 1) = Child(u, d, n)
        <5>1. Along(t, c, k + 1) = Child(t, Along(t, c, k), c[k + 1])
          BY <4>1, AlongSteps
        <5>2. Along(u, c, k + 1) = Child(u, Along(u, c, k), c[k + 1])
          BY <4>1, AlongSteps
        <5> QED
          BY <4>2, <5>1, <5>2
      <4>4. ~(d = pt /\ n = nt)
        <5>1. Along(t, c, k + 1) # old \/ \E x : Child(t, Along(t, c, k + 1), x) # None
          BY <2>7, <4>1
        <5> HIDE DEF d, n
        <5> QED
          BY <2>1, <2>3, <4>3, <5>1
      <4>5. ~(d = pf /\ n = nf)
        <5>1. Along(u, c, k + 1) # None \/ Along(t, c, k + 1) # node
          BY <2>7, <4>1
        <5> HIDE DEF d, n
        <5> QED
          BY <2>1, <4>3, <5>1
      <4> HIDE DEF d, n
      <4> QED
        BY <2>1, <4>3, <4>4, <4>5
    <3> HIDE DEF T
    <3>3. m \in T
      BY <3>1, <3>2, NatSetInduction
    <3> QED
      BY <3>3 DEF T
  <2>8. ASSUME NEW c \in Seq(Segment), NEW i \in 1 .. Len(c) - 1, Along(t, c, Len(c) - 1) # None
        PROVE  Along(t, c, i) # old \/ \E n : Child(t, Along(t, c, i), n) # None \/ i = Len(c) - 1
    <3>1. CASE i # Len(c) - 1
      <4>1. i + 1 \in 1 .. Len(c) /\ i + 1 \in 0 .. Len(c) /\ (i + 1) - 1 = i /\ Len(c) - 1 \in 0 .. Len(c)
        BY <3>1
      <4>2. Along(t, c, i + 1) = Child(t, Along(t, c, i), c[i + 1])
        BY <4>1, AlongSteps
      <4>3. Along(t, c, i + 1) # None
        BY <2>8, <3>1, <4>1, AboveIsDir
      <4> QED
        BY <4>2, <4>3
    <3> QED
      BY <3>1
  <2>9. Resolve(u, q) = node
    <3>1. ASSUME NEW i \in 1 .. Len(q) - 1
          PROVE  /\ Along(t, q, i) # node
                 /\ Along(t, q, i) # old \/ \E n : Child(t, Along(t, q, i), n) # None
      <4>1. i \in 0 .. Len(q) - 1
        OBVIOUS
      <4>2. CASE i = Len(q) - 1
        BY <2>1, <2>2, <2>4, <2>6, <4>1, <4>2
      <4>3. CASE i # Len(q) - 1
        BY <2>2, <2>4, <2>6, <2>8, <4>1, <4>3
      <4> QED
        BY <4>2, <4>3
    <3>2. Len(q) - 1 \in 0 .. Len(q)
      BY <2>5
    <3>3. Along(u, q, Len(q) - 1) = pt
      BY <2>4, <2>7, <3>1, <3>2
    <3>4. Along(u, q, Len(q)) = Child(u, Along(u, q, Len(q) - 1), q[Len(q)])
      BY <2>5, AlongSteps
    <3> QED
      BY <2>1, <2>4, <3>3, <3>4
  <2>10. ASSUME NEW c \in Seq(Segment), c # <<>>, Resolve(u, c) # None, Resolve(t, c) # None
         PROVE  Resolve(u, Front(c)) = Resolve(t, Front(c))
    <3>1. /\ Along(t, c, Len(c) - 1) = Resolve(t, Front(c)) /\ Along(u, c, Len(c) - 1) = Resolve(u, Front(c))
          /\ Along(t, c, Len(c)) = Resolve(t, c) /\ Along(u, c, Len(c)) = Resolve(u, c)
      BY <2>10, AlongSteps
    <3>2. Len(c) \in 1 .. Len(c) /\ Len(c) - 1 \in 0 .. Len(c)
      BY <2>10
    <3>3. ASSUME NEW i \in 1 .. Len(c) - 1
          PROVE  Along(u, c, i) # None /\ \E n : Child(t, Along(t, c, i), n) # None
      <4>1. i \in 0 .. Len(c) /\ i + 1 \in 0 .. Len(c) /\ i + 1 \in 1 .. Len(c) /\ (i + 1) - 1 = i /\ i < Len(c)
        OBVIOUS
      <4>2. Along(u, c, i) # None
        BY <2>1, <2>10, <3>1, <4>1, AboveIsDir
      <4>3. Along(t, c, i + 1) # None
        BY <2>10, <3>1, <4>1, AboveIsDir
      <4>4. Along(t, c, i + 1) = Child(t, Along(t, c, i), c[i + 1])
        BY <4>1, AlongSteps
      <4> QED
        BY <4>2, <4>3, <4>4
    <3> QED
      BY <2>7, <3>1, <3>2, <3>3
  <2>11. Keeps(t, u)
    BY <2>10 DEF Keeps
  <2> QED
    BY <1>0, <2>1, <2>9, <2>11 DEF u, node
<1> QED
  BY <1>1, <1>2

-----------------------------------------------------------------------------
(* Paths a client sends *)

\* What is kept of the first n segments.
IsKept(p, n, f) ==
  f = [i \in 0 .. n |-> IF i = 0 THEN <<>> ELSE f[i - 1] \o (IF p[i] = Dot THEN <<>> ELSE <<p[i]>>)]

LEMMA KeptExists ==
  ASSUME NEW p, NEW n \in Nat
  PROVE  \E f : IsKept(p, n, f)
<1> DEFINE S == {k \in Nat : \E f : IsKept(p, k, f)}
           More(i) == IF p[i] = Dot THEN <<>> ELSE <<p[i]>>
<1>1. 0 \in S
  <2> DEFINE f == [i \in 0 .. 0 |-> <<>>]
  <2>1. IsKept(p, 0, f)
    BY DEF IsKept
  <2> QED
    BY <2>1
<1>2. ASSUME NEW k \in Nat, k \in S
      PROVE  k + 1 \in S
  <2>1. PICK f : IsKept(p, k, f)
    BY <1>2
  <2> DEFINE g == [i \in 0 .. k + 1 |-> IF i = k + 1 THEN f[k] \o More(k + 1) ELSE f[i]]
  <2>2. ASSUME NEW i \in 0 .. k + 1
        PROVE  g[i] = IF i = 0 THEN <<>> ELSE g[i - 1] \o More(i)
    <3> HIDE DEF More
    <3>1. CASE i = k + 1
      <4>1. i \in 0 .. k + 1 /\ i # 0 /\ i - 1 = k /\ k \in 0 .. k + 1 /\ k # k + 1
        BY <3>1
      <4>2. g[i] = f[k] \o More(i) /\ g[i - 1] = f[k]
        BY <3>1, <4>1
      <4> QED
        BY <4>1, <4>2
    <3>2. CASE i # k + 1
      <4>1. i \in 0 .. k /\ (i # 0 => i - 1 \in 0 .. k)
        BY <3>2
      <4>2. f[i] = IF i = 0 THEN <<>> ELSE f[i - 1] \o More(i)
        BY <2>1, <4>1 DEF IsKept, More
      <4> QED
        BY <4>1, <4>2
    <3> QED
      BY <3>1, <3>2
  <2>3. IsKept(p, k + 1, g)
    <3>1. g = [i \in 0 .. k + 1 |-> IF i = 0 THEN <<>> ELSE g[i - 1] \o More(i)]
      <4> HIDE DEF More
      <4> QED
        BY <2>2
    <3> QED
      BY <3>1 DEF IsKept
  <2> QED
    BY <2>3
<1> HIDE DEF S
<1>3. n \in S
  BY <1>1, <1>2, NatSetInduction
<1> QED
  BY <1>3 DEF S

\* cleanRel leaves the names.
LEMMA CleanNames ==
  ASSUME NEW p \in RawPath, Accepted(p)
  PROVE  Clean(p) \in Seq(Names)
<1> DEFINE kept == CHOOSE f : f = [i \in 0 .. Len(p) |->
                     IF i = 0 THEN <<>> ELSE f[i - 1] \o (IF p[i] = Dot THEN <<>> ELSE <<p[i]>>)]
           T == {k \in Nat : k <= Len(p) => kept[k] \in Seq(Names)}
<1>1. p \in Seq(Names \cup {Dot, Slash, Up}) /\ \A i \in 1 .. Len(p) : p[i] \in Names \cup {Dot}
  BY DEF RawPath, Accepted
<1>2. PICK g : IsKept(p, Len(p), g)
  <2>1. Len(p) \in Nat
    BY <1>1
  <2> QED
    BY <2>1, KeptExists
<1>3. g = [i \in 0 .. Len(p) |->
            IF i = 0 THEN <<>> ELSE g[i - 1] \o (IF p[i] = Dot THEN <<>> ELSE <<p[i]>>)]
  BY <1>2 DEF IsKept
<1>4. kept = [i \in 0 .. Len(p) |->
                IF i = 0 THEN <<>> ELSE kept[i - 1] \o (IF p[i] = Dot THEN <<>> ELSE <<p[i]>>)]
  BY <1>3, Zenon
<1>5. Clean(p) = kept[Len(p)]
  BY DEF Clean
<1> HIDE DEF kept
<1>6. 0 \in T
  BY <1>1, <1>4
<1>7. ASSUME NEW k \in Nat, k \in T
      PROVE  k + 1 \in T
  <2> SUFFICES ASSUME k + 1 <= Len(p)
               PROVE  kept[k + 1] \in Seq(Names)
    OBVIOUS
  <2>1. k + 1 \in 1 .. Len(p) /\ (k + 1) - 1 = k /\ kept[k] \in Seq(Names)
    BY <1>1, <1>7
  <2>2. kept[k + 1] = kept[k] \o (IF p[k + 1] = Dot THEN <<>> ELSE <<p[k + 1]>>)
    <3>1. k + 1 \in 0 .. Len(p) /\ k + 1 # 0
      BY <1>1
    <3> QED
      BY ONLY <1>4, <2>1, <3>1
  <2> QED
    BY <1>1, <2>1, <2>2
<1> HIDE DEF T
<1>8. Len(p) \in T
  BY <1>1, <1>6, <1>7, NatSetInduction
<1> QED
  BY <1>1, <1>5, <1>8 DEF T

LEMMA AbsFacts ==
  ASSUME NEW p \in RawPath, Accepted(p)
  PROVE  /\ Abs(p) \in Seq(Segment) /\ Abs(p) # <<>> /\ Front(Abs(p)) \in Seq(Segment)
         /\ Creatable(p) => Front(Abs(p)) # <<>>
         /\ Last(Abs(p)) \in Segment
<1>1. Clean(p) \in Seq(Names)
  BY CleanNames
<1>2. Clean(p) \in Seq(Segment) /\ <<Root>> \in Seq(Segment)
  BY <1>1 DEF Segment
<1>3. Abs(p) \in Seq(Segment) /\ Len(Abs(p)) = 1 + Len(Clean(p))
  BY <1>2 DEF Abs
<1>4. Front(Abs(p)) \in Seq(Segment) /\ Len(Front(Abs(p))) = Len(Clean(p))
  BY <1>2, <1>3 DEF Front
<1>5. Creatable(p) => Len(Clean(p)) # 0
  BY <1>1 DEF Creatable
<1> QED
  BY <1>2, <1>3, <1>4, <1>5 DEF Last

-----------------------------------------------------------------------------
(* Walking *)

\* The names that Readdirnames returns are all of them.
LEMMA NamesListed ==
  ASSUME NEW S, IsFiniteSet(S)
  PROVE  /\ SetToSeq(S) \in Seq(S) /\ \A x \in S : \E i \in DOMAIN SetToSeq(S) : SetToSeq(S)[i] = x
<1> DEFINE n == Cardinality(S)
           f == SetToSeq(S)
<1>1. n \in Nat /\ ExistsBijection(1 .. n, S)
  BY FS_CardinalityType
<1>2. \E g \in [1 .. n -> S] : IsInjective(g)
  BY <1>1 DEF ExistsBijection, Bijection, Injection
<1>3. f \in [1 .. n -> S] /\ IsInjective(f)
  BY <1>2 DEF SetToSeq
<1>4. f \in Injection(1 .. n, S)
  BY <1>3 DEF Injection
<1>5. IsFiniteSet(1 .. n) /\ Cardinality(1 .. n) = n
  BY <1>1, FS_Interval
<1>6. f \in Surjection(1 .. n, S)
  BY <1>4, <1>5, FS_Injection
<1> QED
  BY <1>1, <1>3, <1>6 DEF Surjection

LEMMA PrefixNames ==
  ASSUME NEW S, NEW p \in Seq(S), NEW q \in Seq(S)
  PROVE  /\ IsPrefix(p, q) <=> Len(p) <= Len(q) /\ \A i \in 1 .. Len(p) : p[i] = q[i]
         /\ IsPrefix(p, q) => Prefix(q, Len(p)) = p
         /\ IsPrefix(p, q) /\ Len(p) = Len(q) => p = q
<1>1. SubSeq(p, 1, Len(p)) = p
  OBVIOUS
<1>2. ASSUME Len(p) <= Len(q)
      PROVE  /\ SubSeq(q, 1, Len(p)) \in Seq(S) /\ Len(SubSeq(q, 1, Len(p))) = Len(p)
             /\ \A i \in 1 .. Len(p) : SubSeq(q, 1, Len(p))[i] = q[i]
  BY <1>2
<1>3. Len(p) <= Len(q) => (SubSeq(q, 1, Len(p)) = p <=> \A i \in 1 .. Len(p) : p[i] = q[i])
  BY <1>2
<1>4. IsPrefix(p, q) <=> Len(p) <= Len(q) /\ SubSeq(q, 1, Len(p)) = p
  BY <1>1 DEF IsPrefix
<1>5. Len(p) = Len(q) /\ (\A i \in 1 .. Len(p) : p[i] = q[i]) => p = q
  OBVIOUS
<1> QED
  BY <1>3, <1>4, <1>5 DEF Prefix

LEMMA PrefixAppend ==
  ASSUME NEW S, NEW p \in Seq(S), NEW q \in Seq(S), NEW n \in S, IsPrefix(p, q)
  PROVE  /\ IsPrefix(p, Append(q, n)) /\ p # Append(q, n)
         /\ Len(p) # Len(q) => /\ Len(p) + 1 \in 1 .. Len(q) /\ q[Len(p) + 1] \in S
                               /\ IsPrefix(Append(p, q[Len(p) + 1]), q)
<1>1. Len(p) <= Len(q) /\ \A i \in 1 .. Len(p) : p[i] = q[i]
  BY PrefixNames
<1> DEFINE b == Append(q, n)
<1>2. b \in Seq(S) /\ Len(b) = Len(q) + 1 /\ \A i \in 1 .. Len(q) : b[i] = q[i]
  OBVIOUS
<1> HIDE DEF b
<1>3. IsPrefix(p, b) /\ p # b
  <2>1. Len(p) \in Nat /\ Len(q) \in Nat /\ Len(p) < Len(b)
    BY <1>1, <1>2
  <2>2. \A i \in 1 .. Len(p) : p[i] = b[i]
    BY <1>1, <1>2, <2>1
  <2>3. IsPrefix(p, b)
    BY <1>2, <2>1, <2>2, PrefixNames
  <2> QED
    BY <2>1, <2>3
<1>4. ASSUME Len(p) # Len(q)
      PROVE  /\ Len(p) + 1 \in 1 .. Len(q) /\ q[Len(p) + 1] \in S
             /\ IsPrefix(Append(p, q[Len(p) + 1]), q)
  <2> DEFINE m == q[Len(p) + 1]
             a == Append(p, m)
  <2>1. Len(p) + 1 \in 1 .. Len(q)
    BY <1>1, <1>4
  <2>2. m \in S
    BY <2>1
  <2> HIDE DEF m
  <2>3. a \in Seq(S) /\ Len(a) = Len(p) + 1 /\ a[Len(p) + 1] = m /\ \A i \in 1 .. Len(p) : a[i] = p[i]
    BY <2>2
  <2> HIDE DEF a
  <2>4. \A i \in 1 .. Len(a) : a[i] = q[i]
    BY <1>1, <2>3 DEF m
  <2>5. IsPrefix(a, q)
    BY <2>1, <2>3, <2>4, PrefixNames
  <2> QED
    BY <2>1, <2>2, <2>5 DEF a, m
<1> QED
  BY <1>3, <1>4 DEF b

Joined(c, a, b) ==
  /\ \A i \in DOMAIN a : i \in DOMAIN c /\ c[i] = a[i]
  /\ \A i \in DOMAIN b : \E j \in DOMAIN c : c[j] = b[i]
  /\ \A j \in DOMAIN c : (\E i \in DOMAIN a : c[j] = a[i]) \/ (\E i \in DOMAIN b : c[j] = b[i])

LEMMA ConcatFacts ==
  ASSUME NEW S, NEW a \in Seq(S), NEW b \in Seq(S)
  PROVE  a \o b \in Seq(S) /\ Joined(a \o b, a, b)
<1> DEFINE c == a \o b
<1>1. /\ c \in Seq(S) /\ Len(c) = Len(a) + Len(b) /\ Len(a) \in Nat /\ Len(b) \in Nat
      /\ DOMAIN a = 1 .. Len(a) /\ DOMAIN b = 1 .. Len(b) /\ DOMAIN c = 1 .. Len(a) + Len(b)
      /\ \A i \in 1 .. Len(a) : c[i] = a[i]
      /\ \A i \in 1 .. Len(b) : c[Len(a) + i] = b[i]
  OBVIOUS
<1> HIDE DEF c
<1>2. \A i \in DOMAIN a : i \in DOMAIN c /\ c[i] = a[i]
  BY <1>1
<1>3. ASSUME NEW i \in DOMAIN b
      PROVE  \E j \in DOMAIN c : c[j] = b[i]
  <2>1. Len(a) + i \in DOMAIN c /\ c[Len(a) + i] = b[i]
    BY <1>1
  <2> QED
    BY <2>1
<1>4. ASSUME NEW j \in DOMAIN c
      PROVE  (\E i \in DOMAIN a : c[j] = a[i]) \/ (\E i \in DOMAIN b : c[j] = b[i])
  <2>1. CASE j <= Len(a)
    BY <1>1, <2>1
  <2>2. CASE ~(j <= Len(a))
    <3>1. j - Len(a) \in 1 .. Len(b) /\ Len(a) + (j - Len(a)) = j
      BY <1>1, <2>2
    <3> QED
      BY <1>1, <3>1
  <2> QED
    BY <2>1, <2>2
<1> QED
  BY <1>1, <1>2, <1>3, <1>4 DEF c, Joined

LEMMA HeadAndTail ==
  ASSUME NEW S, NEW w \in Seq(S), w # <<>>
  PROVE  /\ Head(w) \in S /\ Head(w) = w[1] /\ 1 \in DOMAIN w /\ Tail(w) \in Seq(S)
         /\ \A i \in DOMAIN Tail(w) : i + 1 \in DOMAIN w /\ Tail(w)[i] = w[i + 1]
         /\ \A i \in DOMAIN w : i # 1 => i - 1 \in DOMAIN Tail(w) /\ Tail(w)[i - 1] = w[i]
<1>1. /\ Len(w) \in Nat \ {0} /\ DOMAIN w = 1 .. Len(w) /\ Head(w) = w[1] /\ w[1] \in S
      /\ Tail(w) \in Seq(S) /\ Len(Tail(w)) = Len(w) - 1
      /\ \A i \in 1 .. Len(w) - 1 : Tail(w)[i] = w[i + 1]
  OBVIOUS
<1>2. DOMAIN Tail(w) = 1 .. Len(w) - 1
  BY <1>1
<1>3. \A i \in DOMAIN Tail(w) : i + 1 \in DOMAIN w /\ Tail(w)[i] = w[i + 1]
  BY <1>1, <1>2
<1>4. ASSUME NEW i \in DOMAIN w, i # 1
      PROVE  i - 1 \in DOMAIN Tail(w) /\ Tail(w)[i - 1] = w[i]
  <2>1. i - 1 \in 1 .. Len(w) - 1 /\ (i - 1) + 1 = i
    BY <1>1, <1>4
  <2> QED
    BY <1>1, <1>2, <2>1
<1> QED
  BY <1>1, <1>3, <1>4

\* An entry of a directory.
LEMMA EntryPath ==
  ASSUME NEW t, NEW p \in Seq(Segment), NEW n \in Segment
  PROVE  Resolve(t, Append(p, n)) = Child(t, Resolve(t, p), n)
<1> DEFINE q == Append(p, n)
<1>1. q \in Seq(Segment) /\ q # <<>> /\ Len(q) = Len(p) + 1 /\ q[Len(q)] = n /\ Len(q) \in 1 .. Len(q)
  OBVIOUS
<1>2. Front(q) = p
  BY DEF Front
<1> HIDE DEF q
<1>3. Along(t, q, Len(q)) = Resolve(t, q) /\ Along(t, q, Len(q) - 1) = Resolve(t, p)
  BY <1>1, <1>2, AlongSteps
<1>4. Along(t, q, Len(q)) = Child(t, Along(t, q, Len(q) - 1), q[Len(q)])
  BY <1>1, AlongSteps
<1> QED
  BY <1>1, <1>3, <1>4 DEF q

\* What leads to a path that is there.
LEMMA AbovePath ==
  ASSUME NEW t, WellLinked(t), NEW p \in Seq(Segment), NEW q \in Seq(Segment), IsPrefix(p, q), Len(p) # Len(q),
         Resolve(t, q) # None
  PROVE  /\ Resolve(t, p) \notin File \cup {None}
         /\ Len(p) + 1 \in 1 .. Len(q) /\ q[Len(p) + 1] \in Children(t, Resolve(t, p))
<1>1. Len(p) < Len(q) /\ Prefix(q, Len(p)) = p
  BY PrefixNames
<1>2. Len(p) \in 0 .. Len(q) /\ Len(p) + 1 \in 1 .. Len(q) /\ (Len(p) + 1) - 1 = Len(p) /\ Len(q) \in 0 .. Len(q)
  BY <1>1
<1>3. Along(t, q, Len(p)) = Resolve(t, p)
  BY <1>1 DEF Along
<1>4. Along(t, q, Len(q)) # None
  BY AlongSteps
<1>5. Along(t, q, Len(p)) \notin File \cup {None}
  BY <1>1, <1>2, <1>4, AboveIsDir
<1>6. Along(t, q, Len(p) + 1) # None
  <2>1. CASE Len(p) + 1 = Len(q)
    BY <1>4, <2>1
  <2>2. CASE Len(p) + 1 # Len(q)
    <3>1. Len(p) + 1 \in 0 .. Len(q) /\ Len(p) + 1 < Len(q)
      BY <1>2, <2>2
    <3> QED
      BY <1>2, <1>4, <3>1, AboveIsDir
  <2> QED
    BY <2>1, <2>2
<1>7. Along(t, q, Len(p) + 1) = Child(t, Along(t, q, Len(p)), q[Len(p) + 1])
  BY <1>2, AlongSteps
<1> QED
  BY <1>2, <1>3, <1>5, <1>6, <1>7, ChildrenNamed

LEMMA ChildrenFinite ==
  ASSUME NEW t, WellLinked(t), IsFiniteSet(t), NEW d
  PROVE  IsFiniteSet(Children(t, d)) /\ Children(t, d) \subseteq Segment
<1> DEFINE links == {k \in t : k[1] = d}
           f == [l \in links |-> l[2]]
<1>1. IsFiniteSet(links)
  BY FS_Subset
<1>2. f \in Surjection(links, Children(t, d))
  BY DEF Surjection, Children
<1>3. IsFiniteSet(Children(t, d))
  <2> HIDE DEF links, f
  <2> QED
    BY <1>1, <1>2, FS_Surjection
<1> QED
  BY <1>3 DEF Children, WellLinked

LEMMA UniversePaths == Universe \subseteq Seq(Segment)
<1> SUFFICES ASSUME NEW n \in 0 .. Depth, NEW s \in [1 .. n -> Names]
             PROVE  <<Root>> \o s \in Seq(Segment)
  BY DEF Universe
<1>1. n \in Nat
  BY BoundsAssumption
<1>2. s \in Seq(Segment) /\ <<Root>> \in Seq(Segment)
  BY <1>1 DEF Segment
<1> QED
  BY <1>2

\* What a walk visits after a directory.
Entries(t, d, p) == LET names == SetToSeq(Children(t, d)) IN [i \in DOMAIN names |-> Append(p, names[i])]

Lists(e, t, d, p) ==
  /\ e \in Seq(Seq(Segment))
  /\ \A i \in DOMAIN e : \E n \in Segment : e[i] = Append(p, n)
  /\ \A n \in Children(t, d) : \E i \in DOMAIN e : e[i] = Append(p, n)

LEMMA EntriesListed ==
  ASSUME NEW t, WellLinked(t), IsFiniteSet(t), NEW d, NEW p \in Seq(Segment)
  PROVE  Lists(Entries(t, d, p), t, d, p)
<1> DEFINE c == Children(t, d)
           names == SetToSeq(c)
           e == [i \in DOMAIN names |-> Append(p, names[i])]
<1>1. IsFiniteSet(c) /\ c \subseteq Segment
  BY ChildrenFinite
<1> HIDE DEF c
<1>2. names \in Seq(c) /\ \A x \in c : \E i \in DOMAIN names : names[i] = x
  BY <1>1, NamesListed
<1> HIDE DEF names
<1>3. DOMAIN names = 1 .. Len(names) /\ Len(names) \in Nat /\ \A i \in DOMAIN names : names[i] \in Segment
  BY <1>1, <1>2
<1>4. \A i \in 1 .. Len(names) : Append(p, names[i]) \in Seq(Segment)
  BY <1>3
<1>5. e \in Seq(Seq(Segment)) /\ DOMAIN e = DOMAIN names /\ \A i \in DOMAIN names : e[i] = Append(p, names[i])
  <2> DEFINE f(i) == Append(p, names[i])
  <2> HIDE DEF f
  <2>1. \A i \in 1 .. Len(names) : f(i) \in Seq(Segment)
    BY <1>4 DEF f
  <2>2. [i \in DOMAIN names |-> f(i)] \in Seq(Seq(Segment))
    BY <1>3, <2>1
  <2> QED
    BY <2>2 DEF f
<1>6. Entries(t, d, p) = e
  BY DEF Entries, names, c
<1> HIDE DEF e
<1> QED
  BY <1>2, <1>3, <1>5, <1>6 DEF c, Lists

=============================================================================
