---------------------------- MODULE WebServerProof ----------------------------
(***************************************************************************)
(* What is loaded is what the file says: parseIni keeps of each key its    *)
(* last entry, and findConfigPath takes the nearest file there is.         *)
(*                                                                         *)
(* A static file that is served lies under the document root, for any      *)
(* root, files, directories, requests and configuration.  Three facts make *)
(* it so: the paths that are compared are paths, pathEscapesRoot tells an  *)
(* escape from the root by the lexically relative path alone, and no file  *)
(* is answered that was not put to it.                                     *)
(*                                                                         *)
(* A request that was read in full is answered by the router, and only     *)
(* behind such a one is a connection kept: the two places that check a     *)
(* body's length and media type agree.                                     *)
(***************************************************************************)
EXTENDS WebServer, NaturalsInduction, WellFoundedInduction, SequenceTheorems, TLAPS

\* A set of naturals has a least element.
LEMMA LeastNatural ==
  ASSUME NEW T, T \subseteq Nat, T # {}
  PROVE  \E x \in T : \A y \in T : ~(y < x)
<1>1. PICK x \in T : \A y \in T : ~(<<y, x>> \in OpToRel(<, Nat))
  BY NatLessThanWellFounded, WFMin
<1>2. ASSUME NEW m \in Nat, NEW n \in Nat, m < n
      PROVE  <<m, n>> \in OpToRel(<, Nat)
  BY <1>2, Zenon DEF OpToRel
<1>3. \A y \in T : ~(y < x)
  <2> SUFFICES ASSUME NEW y \in T, y < x  PROVE FALSE
    OBVIOUS
  <2>1. x \in Nat /\ y \in Nat
    OBVIOUS
  <2> QED  BY <1>1, <1>2, <2>1
<1> QED  BY <1>3

\* Induction: a set that has 0 and with each number the next one has them all.
LEMMA NatInductionOnSets ==
  ASSUME NEW T, 0 \in T, \A n \in Nat : n \in T => n + 1 \in T
  PROVE  Nat \subseteq T
<1> DEFINE S == Nat \ T
<1> SUFFICES ASSUME S # {}  PROVE FALSE
  OBVIOUS
<1>1. PICK x \in S : \A y \in S : ~(y < x)
  <2>1. S \subseteq Nat
    OBVIOUS
  <2> HIDE DEF S
  <2> QED  BY <2>1, LeastNatural
<1>2. x # 0 /\ x - 1 \in Nat /\ (x - 1) + 1 = x
  OBVIOUS
<1>3. x - 1 \in S /\ x - 1 < x
  BY <1>2
<1> QED  BY <1>1, <1>3

\* Two paths have a first element in which they differ, or one ends first.
LEMMA MismatchIsFirst ==
  ASSUME NEW path \in Paths, NEW base \in Paths
  PROVE  /\ Mismatch(path, base) \in 0 .. Len(base)
         /\ Mismatch(path, base) <= Len(path)
         /\ \A k \in 1 .. Mismatch(path, base) : path[k] = base[k]
<1> DEFINE Agree(n) == n <= Len(base) /\ n <= Len(path) /\ path[n] = base[n]
           Differ == {n \in Nat : ~Agree(n + 1)}
<1>1. Len(base) \in Nat /\ Len(path) \in Nat
  BY DEF Paths
<1>2. Len(base) \in Differ
  BY <1>1
<1>3. PICK n \in Differ : \A m \in Differ : ~(m < n)
  <2>1. Differ \subseteq Nat /\ Differ # {}
    BY <1>2
  <2> HIDE DEF Differ
  <2> QED  BY <2>1, LeastNatural
<1>4. \A m \in 0 .. n - 1 : m \notin Differ
  BY <1>3
<1>5. \A k \in 1 .. n : Agree(k)
  <2> TAKE k \in 1 .. n
  <2>1. k - 1 \in 0 .. n - 1 /\ (k - 1) + 1 = k /\ k - 1 \in Nat
    OBVIOUS
  <2> QED  BY <1>4, <2>1
<1>6. n \in 0 .. Len(base)
  BY <1>1, <1>2, <1>4
<1>7. PICK m \in 0 .. Len(base) : m = Mismatch(path, base) /\ \A k \in 1 .. m : Agree(k)
  BY <1>3, <1>5, <1>6 DEF Mismatch
<1>8. m <= Len(path)
  <2>1. CASE m = 0
    BY <1>1, <2>1
  <2>2. CASE m # 0
    <3>1. m \in 1 .. m
      BY <1>1, <2>2
    <3> QED  BY <1>7, <3>1
  <2> QED  BY <2>1, <2>2
<1>9. \A k \in 1 .. m : path[k] = base[k]
  BY <1>7
<1> QED  BY <1>7, <1>8, <1>9, Zenon

\* The part of a path from its m-th to its n-th name.
LEMMA PartOfPath ==
  ASSUME NEW path \in Paths, NEW m \in Nat \ {0}, NEW n \in 0 .. Len(path), m <= n + 1
  PROVE  /\ SubSeq(path, m, n) \in Paths
         /\ Len(SubSeq(path, m, n)) = n - m + 1
         /\ \A i \in 1 .. n - m + 1 : SubSeq(path, m, n)[i] = path[m + i - 1]
<1>1. Len(path) \in Nat /\ m \in Int /\ n \in Int
  BY LenProperties DEF Paths
<1>2. \A i \in m .. n : path[i] \in Name
  BY <1>1, ElementOfSeq DEF Paths
<1> QED  BY <1>1, <1>2, SubSeqProperties DEF Paths

\* Walking along a path one always is at a path.
LEMMA WalkStays ==
  ASSUME NEW normal \in Paths, NEW name \in Name
  PROVE  Walk(normal, name) \in Paths
<1>1. Append(normal, name) \in Paths
  BY DEF Paths
<1>2. ParentPath(normal) \in Paths
  <2>1. Front(normal) \in Paths
    <3>1. Len(normal) \in Nat
      BY DEF Paths
    <3>2. CASE Len(normal) = 0
      <4>1. SubSeq(normal, 1, Len(normal) - 1) = <<>>
        BY <3>2 DEF Paths
      <4> QED  BY <4>1 DEF Front, Paths
    <3>3. CASE Len(normal) > 0
      <4>1. Len(normal) - 1 \in 0 .. Len(normal) /\ 1 \in Nat \ {0} /\ 1 <= (Len(normal) - 1) + 1
        BY <3>1, <3>3
      <4> QED  BY <4>1, PartOfPath, Zenon DEF Front
    <3> QED  BY <3>1, <3>2, <3>3
  <2> QED  BY <2>1 DEF ParentPath
<1> QED  BY <1>1, <1>2 DEF Walk

\* The walk along a path solves its recursion.
LEMMA WalkedFacts ==
  ASSUME NEW path \in Paths
  PROVE  /\ Walked(path)[0] = Root
         /\ \A n \in 1 .. Len(path) : Walked(path)[n] = Walk(Walked(path)[n - 1], path[n])
<1> DEFINE N == Len(path)
           First == Root
           Step(c, n) == Walk(c, path[n])
           Table(n, f) == f = [i \in 0 .. n |-> f[i]]
           Steps(n, f) == Table(n, f) /\ f[0] = First /\ \A i \in 1 .. n : f[i] = Step(f[i - 1], i)
           Exist(n) == \E f : Steps(n, f)
           T == {n \in Nat : n <= N => Exist(n)}
<1>1. N \in Nat
  BY LenProperties DEF Paths
<1> HIDE DEF N, First, Step
<1>2. Exist(0)
  <2> DEFINE f == [i \in 0 .. 0 |-> First]
  <2>1. Table(0, f) /\ f[0] = First
    OBVIOUS
  <2>2. Steps(0, f)
    <3> HIDE DEF f, Table
    <3> QED  BY <2>1
  <2> HIDE DEF f, Steps
  <2> QED  BY <2>2
<1>3. ASSUME NEW n \in Nat, Exist(n), n + 1 <= N  PROVE Exist(n + 1)
  <2>1. PICK f : Steps(n, f)
    BY <1>3
  <2>2. f[0] = First /\ \A i \in 1 .. n : f[i] = Step(f[i - 1], i)
    BY <2>1
  <2> DEFINE g == [i \in 0 .. n + 1 |-> IF i <= n THEN f[i] ELSE Step(f[n], n + 1)]
  <2>3. /\ Table(n + 1, g)
        /\ \A i \in 0 .. n + 1 : g[i] = IF i <= n THEN f[i] ELSE Step(f[n], n + 1)
    OBVIOUS
  <2> HIDE DEF g, Table
  <2>4. g[0] = First
    BY <2>2, <2>3
  <2>5. ASSUME NEW i \in 1 .. n + 1  PROVE g[i] = Step(g[i - 1], i)
    <3>1. g[i - 1] = f[i - 1] /\ i \in 0 .. n + 1
      BY <2>3
    <3>2. CASE i <= n  BY <2>2, <2>3, <3>1, <3>2
    <3>3. CASE i = n + 1  BY <2>3, <3>1, <3>3
    <3> QED  BY <3>2, <3>3
  <2>6. Steps(n + 1, g)
    BY <2>3, <2>4, <2>5
  <2> HIDE DEF Steps
  <2> QED  BY <2>6
<1> HIDE DEF Exist
<1>4. Nat \subseteq T
  <2>1. 0 \in T /\ \A n \in Nat : n \in T => n + 1 \in T
    BY <1>1, <1>2, <1>3
  <2> HIDE DEF T
  <2> QED  BY <2>1, NatInductionOnSets
<1>5. Exist(N)
  BY <1>1, <1>4
<1>6. PICK f : Steps(N, f)
  BY <1>5 DEF Exist
<1>7. f = [n \in 0 .. N |-> IF n = 0 THEN First ELSE Step(f[n - 1], n)]
  <2>1. Table(N, f) /\ f[0] = First /\ \A n \in 1 .. N : f[n] = Step(f[n - 1], n)
    BY <1>6
  <2>2. \A n \in 0 .. N : f[n] = IF n = 0 THEN First ELSE Step(f[n - 1], n)
    <3> HIDE DEF Table
    <3> QED  BY <1>1, <2>1
  <2>3. f = [n \in 0 .. N |-> f[n]]
    BY <2>1
  <2> QED  BY <2>2, <2>3
<1> DEFINE a == Walked(path)
<1>8. a = [n \in 0 .. N |-> IF n = 0 THEN First ELSE Step(a[n - 1], n)]
  BY <1>7 DEF Walked, N, First, Step
<1> HIDE DEF a
<1>9. a[0] = First /\ \A n \in 1 .. N : a[n] = Step(a[n - 1], n)
  BY <1>1, <1>8
<1> QED  BY <1>9 DEF a, N, First, Step

\* So does the choice of the names that are not empty.
LEMMA NonEmptyFacts ==
  ASSUME NEW names \in Paths
  PROVE  /\ NonEmpty(names)[0] = <<>>
         /\ \A n \in 1 .. Len(names) : NonEmpty(names)[n] = 
              IF names[n] = "" THEN NonEmpty(names)[n - 1] ELSE Append(NonEmpty(names)[n - 1], names[n])
<1> DEFINE N == Len(names)
           First == <<>>
           Step(c, n) == IF names[n] = "" THEN c ELSE Append(c, names[n])
           Table(n, f) == f = [i \in 0 .. n |-> f[i]]
           Steps(n, f) == Table(n, f) /\ f[0] = First /\ \A i \in 1 .. n : f[i] = Step(f[i - 1], i)
           Exist(n) == \E f : Steps(n, f)
           T == {n \in Nat : n <= N => Exist(n)}
<1>1. N \in Nat
  BY LenProperties DEF Paths
<1> HIDE DEF N, First, Step
<1>2. Exist(0)
  <2> DEFINE f == [i \in 0 .. 0 |-> First]
  <2>1. Table(0, f) /\ f[0] = First
    OBVIOUS
  <2>2. Steps(0, f)
    <3> HIDE DEF f, Table
    <3> QED  BY <2>1
  <2> HIDE DEF f, Steps
  <2> QED  BY <2>2
<1>3. ASSUME NEW n \in Nat, Exist(n), n + 1 <= N  PROVE Exist(n + 1)
  <2>1. PICK f : Steps(n, f)
    BY <1>3
  <2>2. f[0] = First /\ \A i \in 1 .. n : f[i] = Step(f[i - 1], i)
    BY <2>1
  <2> DEFINE g == [i \in 0 .. n + 1 |-> IF i <= n THEN f[i] ELSE Step(f[n], n + 1)]
  <2>3. /\ Table(n + 1, g)
        /\ \A i \in 0 .. n + 1 : g[i] = IF i <= n THEN f[i] ELSE Step(f[n], n + 1)
    OBVIOUS
  <2> HIDE DEF g, Table
  <2>4. g[0] = First
    BY <2>2, <2>3
  <2>5. ASSUME NEW i \in 1 .. n + 1  PROVE g[i] = Step(g[i - 1], i)
    <3>1. g[i - 1] = f[i - 1] /\ i \in 0 .. n + 1
      BY <2>3
    <3>2. CASE i <= n  BY <2>2, <2>3, <3>1, <3>2
    <3>3. CASE i = n + 1  BY <2>3, <3>1, <3>3
    <3> QED  BY <3>2, <3>3
  <2>6. Steps(n + 1, g)
    BY <2>3, <2>4, <2>5
  <2> HIDE DEF Steps
  <2> QED  BY <2>6
<1> HIDE DEF Exist
<1>4. Nat \subseteq T
  <2>1. 0 \in T /\ \A n \in Nat : n \in T => n + 1 \in T
    BY <1>1, <1>2, <1>3
  <2> HIDE DEF T
  <2> QED  BY <2>1, NatInductionOnSets
<1>5. Exist(N)
  BY <1>1, <1>4
<1>6. PICK f : Steps(N, f)
  BY <1>5 DEF Exist
<1>7. f = [n \in 0 .. N |-> IF n = 0 THEN First ELSE Step(f[n - 1], n)]
  <2>1. Table(N, f) /\ f[0] = First /\ \A n \in 1 .. N : f[n] = Step(f[n - 1], n)
    BY <1>6
  <2>2. \A n \in 0 .. N : f[n] = IF n = 0 THEN First ELSE Step(f[n - 1], n)
    <3> HIDE DEF Table
    <3> QED  BY <1>1, <2>1
  <2>3. f = [n \in 0 .. N |-> f[n]]
    BY <2>1
  <2> QED  BY <2>2, <2>3
<1> DEFINE a == NonEmpty(names)
<1>8. a = [n \in 0 .. N |-> IF n = 0 THEN First ELSE Step(a[n - 1], n)]
  BY <1>7, Zenon DEF NonEmpty, N, First, Step
<1> HIDE DEF a
<1>9. a[0] = First /\ \A n \in 1 .. N : a[n] = Step(a[n - 1], n)
  BY <1>1, <1>8
<1> QED  BY <1>9 DEF a, N, First, Step

\* Reading a file line by line solves its recursion.
LEMMA InisFacts ==
  ASSUME NEW lines, IsList(lines)
  PROVE  /\ Inis(lines)[0] = {Unread}
         /\ \A n \in 1 .. Len(lines) : Inis(lines)[n] = 
              {WithLine(ini, lines[n]) : ini \in {i \in Inis(lines)[n - 1] : ~IsBad(lines[n], i)}}
<1> DEFINE N == Len(lines)
           First == {Unread}
           Step(c, n) == {WithLine(ini, lines[n]) : ini \in {i \in c : ~IsBad(lines[n], i)}}
           Table(n, f) == f = [i \in 0 .. n |-> f[i]]
           Steps(n, f) == Table(n, f) /\ f[0] = First /\ \A i \in 1 .. n : f[i] = Step(f[i - 1], i)
           Exist(n) == \E f : Steps(n, f)
           T == {n \in Nat : n <= N => Exist(n)}
<1>1. N \in Nat
  BY DEF IsList
<1> HIDE DEF N, First, Step
<1>2. Exist(0)
  <2> DEFINE f == [i \in 0 .. 0 |-> First]
  <2>1. Table(0, f) /\ f[0] = First
    OBVIOUS
  <2>2. Steps(0, f)
    <3> HIDE DEF f, Table
    <3> QED  BY <2>1
  <2> HIDE DEF f, Steps
  <2> QED  BY <2>2
<1>3. ASSUME NEW n \in Nat, Exist(n), n + 1 <= N  PROVE Exist(n + 1)
  <2>1. PICK f : Steps(n, f)
    BY <1>3
  <2>2. f[0] = First /\ \A i \in 1 .. n : f[i] = Step(f[i - 1], i)
    BY <2>1
  <2> DEFINE g == [i \in 0 .. n + 1 |-> IF i <= n THEN f[i] ELSE Step(f[n], n + 1)]
  <2>3. /\ Table(n + 1, g)
        /\ \A i \in 0 .. n + 1 : g[i] = IF i <= n THEN f[i] ELSE Step(f[n], n + 1)
    OBVIOUS
  <2> HIDE DEF g, Table
  <2>4. g[0] = First
    BY <2>2, <2>3
  <2>5. ASSUME NEW i \in 1 .. n + 1  PROVE g[i] = Step(g[i - 1], i)
    <3>1. g[i - 1] = f[i - 1] /\ i \in 0 .. n + 1
      BY <2>3
    <3>2. CASE i <= n  BY <2>2, <2>3, <3>1, <3>2
    <3>3. CASE i = n + 1  BY <2>3, <3>1, <3>3
    <3> QED  BY <3>2, <3>3
  <2>6. Steps(n + 1, g)
    BY <2>3, <2>4, <2>5
  <2> HIDE DEF Steps
  <2> QED  BY <2>6
<1> HIDE DEF Exist
<1>4. Nat \subseteq T
  <2>1. 0 \in T /\ \A n \in Nat : n \in T => n + 1 \in T
    BY <1>1, <1>2, <1>3
  <2> HIDE DEF T
  <2> QED  BY <2>1, NatInductionOnSets
<1>5. Exist(N)
  BY <1>1, <1>4
<1>6. PICK f : Steps(N, f)
  BY <1>5 DEF Exist
<1>7. f = [n \in 0 .. N |-> IF n = 0 THEN First ELSE Step(f[n - 1], n)]
  <2>1. Table(N, f) /\ f[0] = First /\ \A n \in 1 .. N : f[n] = Step(f[n - 1], n)
    BY <1>6
  <2>2. \A n \in 0 .. N : f[n] = IF n = 0 THEN First ELSE Step(f[n - 1], n)
    <3> HIDE DEF Table
    <3> QED  BY <1>1, <2>1
  <2>3. f = [n \in 0 .. N |-> f[n]]
    BY <2>1
  <2> QED  BY <2>2, <2>3
<1> DEFINE a == Inis(lines)
<1>8. a = [n \in 0 .. N |-> IF n = 0 THEN First ELSE Step(a[n - 1], n)]
  BY <1>7 DEF Inis, N, First, Step
<1> HIDE DEF a
<1>9. a[0] = First /\ \A n \in 1 .. N : a[n] = Step(a[n - 1], n)
  BY <1>1, <1>8
<1> QED  BY <1>9 DEF a, N, First, Step

\* A path that ends with a separator.
EndsInSlash(path) == path # <<>> /\ Last(path) = ""

\* Only a trailing separator is dropped.
LEMMA WithoutSlashKeepsNames ==
  ASSUME NEW path \in Paths
  PROVE  /\ WithoutSlash(path) \in Paths
         /\ EndsInSlash(path) => Len(path) > 0 /\ Len(WithoutSlash(path)) = Len(path) - 1
         /\ ~EndsInSlash(path) => Len(WithoutSlash(path)) = Len(path)
         /\ \A i \in 1 .. Len(WithoutSlash(path)) : WithoutSlash(path)[i] = path[i]
<1>1. CASE EndsInSlash(path)
  <2>1. path # <<>>
    BY <1>1, Zenon DEF EndsInSlash
  <2>2. Len(path) \in Nat /\ Len(path) > 0
    BY <2>1, EmptySeq DEF Paths
  <2>3. Len(path) - 1 \in 0 .. Len(path) /\ 1 \in Nat \ {0} /\ 1 <= (Len(path) - 1) + 1
    BY <2>2
  <2>4. /\ Front(path) \in Paths
        /\ Len(Front(path)) = (Len(path) - 1) - 1 + 1
        /\ \A i \in 1 .. (Len(path) - 1) - 1 + 1 : Front(path)[i] = path[1 + i - 1]
    BY <2>3, PartOfPath, Zenon DEF Front
  <2>5. Len(Front(path)) = Len(path) - 1
    BY <2>2, <2>4
  <2>6. \A i \in 1 .. Len(Front(path)) : Front(path)[i] = path[i]
    BY <2>2, <2>4
  <2>7. WithoutSlash(path) = Front(path)
    BY <1>1, Zenon DEF WithoutSlash, EndsInSlash
  <2> QED  BY <1>1, <2>2, <2>4, <2>5, <2>6, <2>7, Zenon
<1>2. CASE ~EndsInSlash(path)
  <2>1. WithoutSlash(path) = path
    BY <1>2, Zenon DEF WithoutSlash, EndsInSlash
  <2> QED  BY <1>2, <2>1, Zenon
<1> QED  BY <1>1, <1>2

-----------------------------------------------------------------------------
\* What the library makes of paths are paths.

\* The names the code writes are names.
LEMMA NamesAreNames ==
  /\ "/" \in Name /\ "" \in Name /\ ".." \in Name
  /\ "config" \in Name /\ "server.ini" \in Name
  BY Zenon DEF Name

LEMMA OneName ==
  ASSUME NEW name \in Name
  PROVE  <<name>> \in Paths
  BY DEF Paths

LEMMA AppendName ==
  ASSUME NEW path \in Paths, NEW name \in Name
  PROVE  Append(path, name) \in Paths
  BY DEF Paths

LEMMA RootIsAPath == Root \in Paths
  BY NamesAreNames, OneName, Zenon DEF Root

LEMMA PathsAreWalked ==
  ASSUME NEW path \in Paths
  PROVE  \A n \in 0 .. Len(path) : Walked(path)[n] \in Paths
<1> DEFINE N == Len(path)
           w == Walked(path)
           T == {n \in Nat : n <= N => w[n] \in Paths}
<1>1. N \in Nat /\ Root \in Paths /\ \A n \in 1 .. N : path[n] \in Name
  BY RootIsAPath DEF Paths
<1>2. w[0] = Root /\ \A n \in 1 .. N : w[n] = Walk(w[n - 1], path[n])
  BY WalkedFacts
<1> HIDE DEF N, w
<1>3. ASSUME NEW n \in Nat, w[n] \in Paths, n + 1 <= N  PROVE w[n + 1] \in Paths
  <2>1. n + 1 \in 1 .. N /\ (n + 1) - 1 = n
    BY <1>1, <1>3
  <2>2. w[n + 1] = Walk(w[n], path[n + 1])
    BY <1>2, <2>1
  <2> QED  BY <1>1, <1>3, <2>1, <2>2, WalkStays
<1>4. Nat \subseteq T
  <2>1. 0 \in T /\ \A n \in Nat : n \in T => n + 1 \in T
    BY <1>1, <1>2, <1>3
  <2> HIDE DEF T
  <2> QED  BY <2>1, NatInductionOnSets
<1>5. \A n \in 0 .. N : w[n] \in Paths
  BY <1>1, <1>4
<1> QED  BY <1>5 DEF N, w

LEMMA NormalIsAPath ==
  ASSUME NEW path \in Paths
  PROVE  LexicallyNormal(path) \in Paths
<1> DEFINE normal == Walked(path)[Len(path)]
<1>1. normal \in Paths
  <2>1. Len(path) \in 0 .. Len(path)
    BY LenProperties DEF Paths
  <2> QED  BY <2>1, PathsAreWalked
<1> HIDE DEF normal
<1>2. Append(normal, "") \in Paths
  BY <1>1, NamesAreNames, AppendName, Zenon
<1> QED  BY <1>1, <1>2, Zenon DEF LexicallyNormal, normal

LEMMA JoinIsAPath ==
  ASSUME NEW base \in Paths, NEW path \in Paths
  PROVE  Join(base, path) \in Paths
<1>1. WithoutSlash(base) \in Paths
  BY WithoutSlashKeepsNames
<1>2. <<"">> \in Paths
  BY NamesAreNames, OneName, Zenon
<1>3. ASSUME NEW p \in Paths, NEW q \in Paths  PROVE p \o q \in Paths
  BY <1>3 DEF Paths
<1> QED  BY <1>1, <1>2, <1>3, Zenon DEF Join

LEMMA FilePathIsAPath ==
  ASSUME NEW names \in Paths
  PROVE  FilePath(names) \in Paths
<1> DEFINE N == Len(names)
           k == NonEmpty(names)
           Keep(kept, n) == IF names[n] = "" THEN kept ELSE Append(kept, names[n])
           T == {n \in Nat : n <= N => k[n] \in Paths}
<1>1. N \in Nat /\ <<>> \in Paths /\ \A n \in 1 .. N : names[n] \in Name
  BY DEF Paths
<1>2. k[0] = <<>> /\ \A n \in 1 .. N : k[n] = Keep(k[n - 1], n)
  BY NonEmptyFacts, Zenon
<1> HIDE DEF N, k
<1>3. ASSUME NEW n \in Nat, k[n] \in Paths, n + 1 <= N  PROVE k[n + 1] \in Paths
  <2>1. n + 1 \in 1 .. N /\ (n + 1) - 1 = n
    BY <1>1, <1>3
  <2>2. k[n + 1] = Keep(k[n], n + 1)
    <3> HIDE DEF Keep
    <3> QED  BY <1>2, <2>1
  <2>3. Append(k[n], names[n + 1]) \in Paths
    BY <1>1, <1>3, <2>1 DEF Paths
  <2> QED  BY <1>3, <2>2, <2>3, Zenon
<1> HIDE DEF Keep
<1>4. Nat \subseteq T
  <2>1. 0 \in T /\ \A n \in Nat : n \in T => n + 1 \in T
    BY <1>1, <1>2, <1>3
  <2> HIDE DEF T
  <2> QED  BY <2>1, NatInductionOnSets
<1> DEFINE rest == k[N]
           slash == IF rest # <<>> /\ Last(names) = "" THEN <<"">> ELSE <<>>
           first == IF Len(names) > 1 /\ Head(names) = "" THEN Root ELSE <<>>
<1>5. rest \in Paths
  BY <1>1, <1>4
<1>6. slash \in Paths /\ first \in Paths
  BY <1>1, RootIsAPath, NamesAreNames, OneName, Zenon
<1>7. FilePath(names) = first \o rest \o slash
  BY Zenon DEF FilePath, N, k
<1> HIDE DEF rest, slash, first
<1> QED  BY <1>5, <1>6, <1>7 DEF Paths

\* A request's path: pieces with names in them.
IsRequestPath(path) == IsList(path) /\ \A i \in DOMAIN path : path[i].name \in Name

LEMMA ResolvedIsAPath ==
  ASSUME NEW path, IsRequestPath(path), NEW root \in Paths, NEW index \in Paths, NEW existing
  PROVE  ResolveStaticPath(path, root, index, existing) \subseteq Paths
<1>1. UrlDecodePath(path) \subseteq Paths
  <2>1. [i \in DOMAIN path |-> path[i].name] \in Paths
    BY DEF IsRequestPath, IsList, Paths
  <2> QED  BY <2>1 DEF UrlDecodePath
<1>2. Candidates(path, root, index) \subseteq Paths
  <2> DEFINE Relative(names) == IF FilePath(names) = <<>> THEN index ELSE FilePath(names)
  <2>1. ASSUME NEW names \in UrlDecodePath(path)
        PROVE  LexicallyNormal(Join(root, Relative(names))) \in Paths
    <3>1. names \in Paths
      BY <1>1
    <3>2. Relative(names) \in Paths
      BY <3>1, FilePathIsAPath
    <3> HIDE DEF Relative
    <3> QED  BY <3>2, JoinIsAPath, NormalIsAPath
  <2> QED  BY <2>1 DEF Candidates
<1>3. ASSUME NEW candidate \in Candidates(path, root, index)
      PROVE  LexicallyNormal(Join(candidate, index)) \in Paths
  <2>1. candidate \in Paths
    BY <1>2
  <2> QED  BY <2>1, JoinIsAPath, NormalIsAPath
<1> QED  BY <1>2, <1>3 DEF ResolveStaticPath

-----------------------------------------------------------------------------
\* What is left when all but one name of a path are taken.
LEMMA AllButOne ==
  ASSUME NEW n \in Nat, NEW m \in 0 .. n, n - m = 1
  PROVE  m = n - 1 /\ n > 0 /\ m + 1 = n
  OBVIOUS

\* A path with a name in it is not the empty one.
LEMMA NonEmptyPath ==
  ASSUME NEW path \in Paths, Len(path) > 0
  PROVE  path # <<>>
  OBVIOUS

\* A path of one name over and over.
LEMMA RepeatedName ==
  ASSUME NEW name \in Name, NEW n \in Nat, n > 0
  PROVE  /\ [i \in 1 .. n |-> name] \in Paths
         /\ [i \in 1 .. n |-> name][1] = name
         /\ Len([i \in 1 .. n |-> name]) = n
  BY DEF Paths

\* A path whose names are the first names of another is a prefix of it.
LEMMA SameNamesArePrefix ==
  ASSUME NEW s \in Paths, NEW t \in Paths, Len(s) <= Len(t),
         \A i \in 1 .. Len(s) : s[i] = t[i]
  PROVE  IsPrefix(s, t)
  BY DEF IsPrefix, Paths

\* A path that pathEscapesRoot lets pass begins with the root's names.
THEOREM NoEscapeIsInside ==
  ASSUME NEW root \in Paths, NEW path \in Paths, ~PathEscapesRoot(root, path)
  PROVE  IsPrefix(WithoutSlash(root), path)
<1> DEFINE common == Mismatch(path, root)
           left == SubSeq(root, common + 1, Len(root))
           up == WithoutSlash(left)
           down == SubSeq(path, common + 1, Len(path))
<1>1. /\ common \in 0 .. Len(root) /\ common <= Len(path)
      /\ \A k \in 1 .. common : path[k] = root[k]
  BY MismatchIsFirst
<1>2. /\ Len(root) \in Nat /\ Len(path) \in Nat
      /\ left \in Paths /\ down \in Paths /\ Len(left) = Len(root) - common
      /\ \A i \in 1 .. Len(left) : left[i] = root[common + i]
  <2>1. Len(root) \in Nat /\ Len(path) \in Nat
    BY LenProperties DEF Paths
  <2>2. /\ left \in Paths /\ Len(left) = Len(root) - (common + 1) + 1
        /\ \A i \in 1 .. Len(root) - (common + 1) + 1 : left[i] = root[common + 1 + i - 1]
    <3> HIDE DEF common
    <3> QED  BY <1>1, <2>1, PartOfPath
  <2>3. down \in Paths
    <3> HIDE DEF common
    <3> QED  BY <1>1, <2>1, PartOfPath
  <2> HIDE DEF common, left, down
  <2> QED  BY <1>1, <2>1, <2>2, <2>3
<1>3. up \in Paths /\ Len(up) \in Nat
  <2> HIDE DEF left
  <2>1. up \in Paths
    BY <1>2, WithoutSlashKeepsNames
  <2> QED  BY <2>1, LenProperties DEF Paths
<1>4. Len(up) = 0
  <2> SUFFICES ASSUME Len(up) > 0  PROVE FALSE
    BY <1>3
  <2> DEFINE dots == [i \in 1 .. Len(up) |-> ".."]
  <2>1. DOMAIN up = 1 .. Len(up) /\ up # <<>>
    <3> HIDE DEF up
    <3> QED  BY <1>3, LenProperties, EmptySeq DEF Paths
  <2>2. LexicallyRelative(path, root) = dots \o down
    <3>1. LexicallyRelative(path, root) = [i \in DOMAIN up |-> ".."] \o down
      BY <2>1 DEF LexicallyRelative
    <3> QED  BY <2>1, <3>1
  <2>3. dots \in Paths /\ Len(dots) = Len(up) /\ dots[1] = ".."
    <3> HIDE DEF up
    <3> QED  BY <1>3, NamesAreNames, RepeatedName, Zenon
  <2>4. Head(dots \o down) = ".."
    <3> HIDE DEF dots, up, down
    <3> QED  BY <1>2, <1>3, <2>3, ConcatProperties DEF Paths
  <2> QED  BY <2>2, <2>4 DEF PathEscapesRoot
<1>5. Len(left) = 0 \/ (Len(left) = 1 /\ EndsInSlash(left))
  <2> HIDE DEF left
  <2>1. Len(left) \in Nat
    BY <1>2, LenProperties DEF Paths
  <2> QED  BY <1>2, <1>4, <2>1, WithoutSlashKeepsNames
<1>6. common = Len(root) \/ (common = Len(root) - 1 /\ EndsInSlash(root))
  <2>1. CASE Len(left) = 0
    <3> HIDE DEF common, left
    <3> QED  BY <1>1, <1>2, <2>1
  <2>2. CASE Len(left) = 1 /\ EndsInSlash(left)
    <3>1. common = Len(root) - 1 /\ Len(root) > 0 /\ left[1] = root[Len(root)]
      <4> HIDE DEF common, left
      <4>1. /\ Len(left) = 1 /\ Len(left) = Len(root) - common
            /\ Len(root) \in Nat /\ common \in 0 .. Len(root)
        BY <1>1, <1>2, <2>2, Zenon
      <4>2. Len(root) - common = 1
        BY <4>1, Zenon
      <4>3. common = Len(root) - 1 /\ Len(root) > 0 /\ common + 1 = Len(root)
        BY <4>1, <4>2, AllButOne, Zenon
      <4>4. 1 \in 1 .. Len(left)
        BY <4>1
      <4>5. left[1] = root[common + 1]
        BY <1>2, <4>4, Zenon
      <4> QED  BY <4>3, <4>5, Zenon
    <3>2. root # <<>>
      BY <3>1, NonEmptyPath
    <3>3. Last(left) = "" /\ Len(left) = 1
      BY <2>2, Zenon DEF EndsInSlash
    <3> QED  BY <3>1, <3>2, <3>3, Zenon DEF EndsInSlash, Last
  <2> QED  BY <1>5, <2>1, <2>2
<1>7. Len(WithoutSlash(root)) <= common
  <2> HIDE DEF common
  <2> QED  BY <1>2, <1>6, WithoutSlashKeepsNames
<1>8. /\ WithoutSlash(root) \in Paths /\ Len(WithoutSlash(root)) \in Nat
      /\ \A i \in 1 .. Len(WithoutSlash(root)) : WithoutSlash(root)[i] = root[i]
  BY WithoutSlashKeepsNames, LenProperties DEF Paths
<1>9. \A i \in 1 .. Len(WithoutSlash(root)) : WithoutSlash(root)[i] = path[i]
  <2> HIDE DEF common
  <2> QED  BY <1>1, <1>2, <1>7, <1>8
<1>10. Len(WithoutSlash(root)) <= Len(path)
  <2> HIDE DEF common
  <2> QED  BY <1>1, <1>2, <1>7, <1>8
<1> QED  BY <1>8, <1>9, <1>10, SameNamesArePrefix

-----------------------------------------------------------------------------
\* What parseIni reads.

\* A set of positions has a first and a last one.
LEMMA FirstPosition ==
  ASSUME NEW n \in Nat, NEW S, S \subseteq 1 .. n, S # {}
  PROVE  Min(S) \in S
<1>1. S \subseteq Nat
  OBVIOUS
<1>2. PICK x \in S : \A y \in S : ~(y < x)
  BY <1>1, LeastNatural
<1>3. \A y \in S : x <= y
  BY <1>1, <1>2
<1> QED  BY <1>3 DEF Min

LEMMA LastPosition ==
  ASSUME NEW n \in Nat, NEW S, S \subseteq 1 .. n, S # {}
  PROVE  Max(S) \in S /\ \A y \in S : y <= Max(S)
<1> DEFINE T == {n - x : x \in S}
<1>1. T \subseteq Nat /\ T # {}
  <2>1. \A x \in S : n - x \in Nat
    OBVIOUS
  <2> QED  BY <2>1
<1>2. PICK t \in T : \A u \in T : ~(u < t)
  <2> HIDE DEF T
  <2> QED  BY <1>1, LeastNatural
<1>3. PICK x \in S : t = n - x
  OBVIOUS
<1>4. ASSUME NEW y \in S  PROVE x >= y
  <2>1. ~(n - y < n - x)
    BY <1>2, <1>3
  <2>2. x \in 1 .. n /\ y \in 1 .. n
    OBVIOUS
  <2> QED  BY <2>1, <2>2
<1>5. Max(S) \in S /\ \A y \in S : Max(S) >= y
  BY <1>4 DEF Max
<1> QED  BY <1>5

\* The last section line above the i-th line names this section.
InSection(lines, i, section) ==
  \E j \in 1 .. i - 1 : /\ lines[j].kind = "section" /\ lines[j].name = section
                        /\ \A k \in j + 1 .. i - 1 : lines[k].kind # "section"

LEMMA EntriesInSection ==
  ASSUME NEW lines, IsList(lines), NEW section, NEW key
  PROVE  EntriesOf(lines, section, key) =
           {i \in 1 .. Len(lines) : /\ lines[i].kind = "entry" /\ lines[i].key = key
                                    /\ InSection(lines, i, section)}
  BY Zenon DEF EntriesOf, InSection, IsList

\* What was read of a key in the first n lines.
Seen(lines, n, section, key) == {i \in EntriesOf(lines, section, key) : i <= n}

\* The section is one that a line can name.
IsNamed(section) == section # ""

HasRead(ini, lines, n, section, key) ==
  LET at == <<section, key>>
      seen == Seen(lines, n, section, key)
  IN  /\ ini.section = section <=> InSection(lines, n + 1, section)
      /\ seen = {} => at \notin DOMAIN ini.data
      /\ \A i \in seen : (\A j \in seen : j <= i) =>
           at \in DOMAIN ini.data /\ ini.data[at] = lines[i].value

LEMMA SectionGoesOn ==
  ASSUME NEW lines, NEW n \in Nat, NEW section
  PROVE  InSection(lines, n + 2, section) <=>
           IF lines[n + 1].kind = "section" THEN lines[n + 1].name = section
           ELSE InSection(lines, n + 1, section)
<1>1. CASE lines[n + 1].kind = "section"
  <2>1. ASSUME lines[n + 1].name = section  PROVE InSection(lines, n + 2, section)
    <3>1. n + 1 \in 1 .. (n + 2) - 1 /\ \A k \in (n + 1) + 1 .. (n + 2) - 1 : FALSE
      OBVIOUS
    <3> QED  BY <1>1, <2>1, <3>1 DEF InSection
  <2>2. ASSUME InSection(lines, n + 2, section)  PROVE lines[n + 1].name = section
    <3>1. PICK j \in 1 .. n + 1 : /\ lines[j].name = section
                                  /\ \A k \in j + 1 .. n + 1 : lines[k].kind # "section"
      BY <2>2 DEF InSection
    <3>2. j = n + 1
      BY <1>1, <3>1
    <3> QED  BY <3>1, <3>2
  <2> QED  BY <1>1, <2>1, <2>2
<1>2. CASE lines[n + 1].kind # "section"
  <2>1. ASSUME InSection(lines, n + 1, section)  PROVE InSection(lines, n + 2, section)
    <3>1. PICK j \in 1 .. n : /\ lines[j].kind = "section" /\ lines[j].name = section
                              /\ \A k \in j + 1 .. n : lines[k].kind # "section"
      BY <2>1 DEF InSection
    <3>2. j \in 1 .. (n + 2) - 1 /\ \A k \in j + 1 .. (n + 2) - 1 : lines[k].kind # "section"
      BY <1>2, <3>1
    <3> QED  BY <3>1, <3>2 DEF InSection
  <2>2. ASSUME InSection(lines, n + 2, section)  PROVE InSection(lines, n + 1, section)
    <3>1. PICK j \in 1 .. n + 1 : /\ lines[j].kind = "section" /\ lines[j].name = section
                                  /\ \A k \in j + 1 .. n + 1 : lines[k].kind # "section"
      BY <2>2 DEF InSection
    <3>2. j \in 1 .. (n + 1) - 1 /\ \A k \in j + 1 .. (n + 1) - 1 : lines[k].kind # "section"
      BY <1>2, <3>1
    <3> QED  BY <3>1, <3>2 DEF InSection
  <2> QED  BY <1>2, <2>1, <2>2
<1> QED  BY <1>1, <1>2

\* One more line.
LEMMA LineIsRead ==
  ASSUME NEW lines, IsList(lines), NEW n \in Nat, n + 1 <= Len(lines), NEW section, NEW key,
         NEW ini, HasRead(ini, lines, n, section, key)
  PROVE  HasRead(WithLine(ini, lines[n + 1]), lines, n + 1, section, key)
<1> DEFINE line == lines[n + 1]
           new == WithLine(ini, line)
           at == <<section, key>>
           here == n + 1 \in EntriesOf(lines, section, key)
           old == Seen(lines, n, section, key)
           seen == Seen(lines, n + 1, section, key)
<1>1. /\ ini.section = section <=> InSection(lines, n + 1, section)
      /\ old = {} => at \notin DOMAIN ini.data
      /\ \A i \in old : (\A j \in old : j <= i) => at \in DOMAIN ini.data /\ ini.data[at] = lines[i].value
  BY Zenon DEF HasRead
<1>2. /\ new.section = IF line.kind = "section" THEN line.name ELSE ini.section
      /\ new.data = IF line.kind = "entry" THEN WithEntry(ini.data, <<ini.section, line.key>>, line.value)
                    ELSE ini.data
  BY DEF WithLine
<1>3. here <=> line.kind = "entry" /\ line.key = key /\ InSection(lines, n + 1, section)
  <2>1. \A i \in 1 .. Len(lines) :
          i \in EntriesOf(lines, section, key) <=>
            lines[i].kind = "entry" /\ lines[i].key = key /\ InSection(lines, i, section)
    BY EntriesInSection
  <2>2. n + 1 \in 1 .. Len(lines)
    BY DEF IsList
  <2> QED  BY <2>1, <2>2
<1>4. EntriesOf(lines, section, key) \subseteq Nat
  BY EntriesInSection DEF IsList
<1>5. new.section = section <=> InSection(lines, (n + 1) + 1, section)
  <2>1. (n + 1) + 1 = n + 2
    OBVIOUS
  <2> QED  BY <1>1, <1>2, <2>1, SectionGoesOn, Zenon
<1> HIDE DEF line, new
<1>6. CASE here
  <2>1. line.kind = "entry" /\ <<ini.section, line.key>> = at
    BY <1>1, <1>3, <1>6
  <2>2. at \in DOMAIN new.data /\ new.data[at] = line.value
    BY <1>2, <2>1 DEF WithEntry
  <2>3. n + 1 \in seen /\ \A i \in seen : i <= n + 1
    BY <1>4, <1>6 DEF Seen
  <2>4. ASSUME NEW i \in seen, \A j \in seen : j <= i  PROVE i = n + 1
    BY <1>4, <2>3, <2>4 DEF Seen
  <2>5. \A i \in seen : (\A j \in seen : j <= i) => at \in DOMAIN new.data /\ new.data[at] = lines[i].value
    BY <2>2, <2>4, Zenon DEF line
  <2>6. seen # {}
    BY <2>3
  <2> QED  BY <1>5, <2>5, <2>6, Zenon DEF HasRead, new, line
<1>7. CASE ~here
  <2>1. seen = old
    BY <1>4, <1>7 DEF Seen
  <2>2. /\ at \in DOMAIN new.data <=> at \in DOMAIN ini.data
        /\ at \in DOMAIN ini.data => new.data[at] = ini.data[at]
    <3>1. CASE line.kind = "entry"
      <4>1. <<ini.section, line.key>> # at
        BY <1>1, <1>3, <1>7, <3>1
      <4> QED  BY <1>2, <3>1, <4>1 DEF WithEntry
    <3>2. CASE line.kind # "entry"
      BY <1>2, <3>2
    <3> QED  BY <3>1, <3>2
  <2>3. \A i \in seen : (\A j \in seen : j <= i) => at \in DOMAIN new.data /\ new.data[at] = lines[i].value
    BY <1>1, <2>1, <2>2, Zenon
  <2>4. seen = {} => at \notin DOMAIN new.data
    BY <1>1, <2>1, <2>2, Zenon
  <2> QED  BY <1>5, <2>3, <2>4, Zenon DEF HasRead, new, line
<1> QED  BY <1>6, <1>7

\* And so the whole file.
LEMMA FileIsRead ==
  ASSUME NEW lines, IsList(lines), NEW section, IsNamed(section), NEW key,
         NEW ini \in Inis(lines)[Len(lines)]
  PROVE  HasRead(ini, lines, Len(lines), section, key)
<1> DEFINE N == Len(lines)
           AllRead(n) == \A i \in Inis(lines)[n] : HasRead(i, lines, n, section, key)
           T == {n \in Nat : n <= N => AllRead(n)}
<1>1. N \in Nat
  BY DEF IsList
<1>2. AllRead(0)
  <2> SUFFICES ASSUME NEW i \in Inis(lines)[0]  PROVE HasRead(i, lines, 0, section, key)
    OBVIOUS
  <2>1. i = Unread
    BY InisFacts
  <2>2. i.section # section /\ i.data = <<>>
    BY <2>1, Zenon DEF Unread, IsNamed
  <2>3. ~InSection(lines, 0 + 1, section)
    BY DEF InSection
  <2>4. Seen(lines, 0, section, key) = {}
    <3>1. \A j \in EntriesOf(lines, section, key) : ~(j <= 0)
      BY EntriesInSection DEF IsList
    <3> QED  BY <3>1 DEF Seen
  <2>5. <<section, key>> \notin DOMAIN i.data
    BY <2>2
  <2> QED  BY <2>2, <2>3, <2>4, <2>5, Zenon DEF HasRead
<1>3. ASSUME NEW n \in Nat, AllRead(n), n + 1 <= N  PROVE AllRead(n + 1)
  <2> SUFFICES ASSUME NEW new \in Inis(lines)[n + 1]  PROVE HasRead(new, lines, n + 1, section, key)
    OBVIOUS
  <2>1. n + 1 \in 1 .. Len(lines) /\ (n + 1) - 1 = n
    BY <1>1, <1>3
  <2>2. Inis(lines)[n + 1] = {WithLine(i, lines[n + 1]) : i \in {i \in Inis(lines)[n] : ~IsBad(lines[n + 1], i)}}
    BY <2>1, InisFacts
  <2>3. PICK i \in Inis(lines)[n] : new = WithLine(i, lines[n + 1])
    BY <2>2
  <2>4. HasRead(i, lines, n, section, key)
    BY <1>3
  <2> QED  BY <1>3, <2>3, <2>4, LineIsRead
<1> HIDE DEF AllRead
<1>4. Nat \subseteq T
  <2>1. 0 \in T /\ \A n \in Nat : n \in T => n + 1 \in T
    BY <1>1, <1>2, <1>3
  <2> HIDE DEF T
  <2> QED  BY <2>1, NatInductionOnSets
<1>5. AllRead(N)
  BY <1>1, <1>4
<1> QED  BY <1>5 DEF AllRead

\* parseIni gives each key what ValueOf says: the value of its last entry.
LEMMA ValueIsRead ==
  ASSUME NEW lines, IsList(lines), NEW section, IsNamed(section), NEW key, NEW data \in ParseIni(lines)
  PROVE  /\ ParseString(data, section, key, Defaults[key]) = ValueOf(lines, section, key)
         /\ EntriesOf(lines, section, key) # {} =>
              <<section, key>> \in DOMAIN data /\ data[<<section, key>>] = ValueOf(lines, section, key)
<1> DEFINE entries == EntriesOf(lines, section, key)
           last == CHOOSE i \in entries : \A j \in entries : j <= i
           at == <<section, key>>
<1>1. PICK ini \in Inis(lines)[Len(lines)] : data = ini.data
  BY DEF ParseIni
<1>2. HasRead(ini, lines, Len(lines), section, key)
  BY FileIsRead
<1>3. Len(lines) \in Nat /\ entries \subseteq 1 .. Len(lines)
  BY EntriesInSection DEF IsList
<1>4. Seen(lines, Len(lines), section, key) = entries
  BY <1>3 DEF Seen
<1>5. CASE entries = {}
  <2>1. at \notin DOMAIN data
    BY <1>1, <1>2, <1>4, <1>5, Zenon DEF HasRead
  <2> QED  BY <1>5, <2>1, Zenon DEF ParseString, ValueOf
<1>6. CASE entries # {}
  <2>1. Max(entries) \in entries /\ \A j \in entries : j <= Max(entries)
    <3> HIDE DEF entries
    <3> QED  BY <1>3, <1>6, LastPosition
  <2>2. last \in entries /\ \A j \in entries : j <= last
    <3> HIDE DEF entries
    <3> QED  BY <2>1
  <2>3. ValueOf(lines, section, key) = lines[last].value
    BY <1>6, Zenon DEF ValueOf
  <2>4. at \in DOMAIN data /\ data[at] = lines[last].value
    <3> HIDE DEF last
    <3> QED  BY <1>1, <1>2, <1>4, <2>2, Zenon DEF HasRead
  <2> QED  BY <1>6, <2>3, <2>4, Zenon DEF ParseString
<1> QED  BY <1>5, <1>6

-----------------------------------------------------------------------------
\* Where findConfigPath finds the file.

LEMMA WalkOnce ==
  ASSUME NEW normal, NEW name
  PROVE  /\ name = "/" => Walk(normal, name) = normal
         /\ name = ".." => Walk(normal, name) = ParentPath(normal)
         /\ name \notin Special => Walk(normal, name) = Append(normal, name)
  BY Zenon DEF Walk, Special

LEMMA SamePaths ==
  ASSUME NEW s \in Paths, NEW t \in Paths, Len(s) = Len(t), \A i \in 1 .. Len(s) : s[i] = t[i]
  PROVE  s = t
  BY DEF Paths

LEMMA AppendFacts ==
  ASSUME NEW s \in Paths, NEW name \in Name
  PROVE  /\ Append(s, name) \in Paths /\ Len(Append(s, name)) = Len(s) + 1
         /\ Append(s, name)[Len(s) + 1] = name
         /\ \A i \in 1 .. Len(s) : Append(s, name)[i] = s[i]
  BY DEF Paths

LEMMA FrontFacts ==
  ASSUME NEW s \in Paths, Len(s) > 0
  PROVE  /\ Front(s) \in Paths /\ Len(Front(s)) = Len(s) - 1
         /\ \A i \in 1 .. Len(s) - 1 : Front(s)[i] = s[i]
<1>1. Len(s) \in Nat
  BY LenProperties DEF Paths
<1>2. Len(s) - 1 \in 0 .. Len(s) /\ 1 \in Nat \ {0} /\ 1 <= (Len(s) - 1) + 1
  BY <1>1
<1>3. /\ Front(s) \in Paths /\ Len(Front(s)) = (Len(s) - 1) - 1 + 1
      /\ \A i \in 1 .. (Len(s) - 1) - 1 + 1 : Front(s)[i] = s[1 + i - 1]
  BY <1>2, PartOfPath, Zenon DEF Front
<1> QED  BY <1>1, <1>3

\* Dropping a name that was just added.
LEMMA FrontOfAppend ==
  ASSUME NEW s \in Paths, NEW name \in Name
  PROVE  Front(Append(s, name)) = s
<1> DEFINE a == Append(s, name)
<1>1. Len(s) \in Nat /\ a \in Paths /\ Len(a) = Len(s) + 1 /\ \A i \in 1 .. Len(s) : a[i] = s[i]
  BY AppendFacts, LenProperties DEF Paths
<1> HIDE DEF a
<1>2. /\ Front(a) \in Paths /\ Len(Front(a)) = Len(s)
      /\ \A i \in 1 .. Len(s) : Front(a)[i] = s[i]
  BY <1>1, FrontFacts
<1> QED  BY <1>2, SamePaths DEF a

\* A normal path is an absolute path whose other names are ordinary.
LEMMA NormalPath ==
  ASSUME NEW d, IsNormal(d)
  PROVE  /\ d \in Paths /\ Len(d) \in Nat \ {0} /\ d[1] = "/"
         /\ \A i \in 2 .. Len(d) : d[i] \notin Special
<1>1. d \in Paths /\ d # <<>> /\ d[1] = "/" /\ \A i \in 2 .. Len(d) : d[i] \notin Special
  BY Zenon DEF IsNormal
<1> QED  BY <1>1, EmptySeq, LenProperties DEF Paths

\* The first m names of a path.
Upper(d, m) == SubSeq(d, 1, m)

LEMMA UpperFacts ==
  ASSUME NEW d \in Paths, NEW m \in 1 .. Len(d)
  PROVE  /\ Upper(d, m) \in Paths /\ Len(Upper(d, m)) = m
         /\ \A i \in 1 .. m : Upper(d, m)[i] = d[i]
<1>1. Len(d) \in Nat
  BY LenProperties DEF Paths
<1>2. m \in 0 .. Len(d) /\ 1 \in Nat \ {0} /\ 1 <= m + 1
  BY <1>1
<1>3. /\ Upper(d, m) \in Paths /\ Len(Upper(d, m)) = m - 1 + 1
      /\ \A i \in 1 .. m - 1 + 1 : Upper(d, m)[i] = d[1 + i - 1]
  BY <1>2, PartOfPath, Zenon DEF Upper
<1> QED  BY <1>1, <1>3

LEMMA UpperOfAll ==
  ASSUME NEW d \in Paths, Len(d) > 0
  PROVE  Upper(d, Len(d)) = d
<1>1. Len(d) \in 1 .. Len(d)
  BY LenProperties DEF Paths
<1> QED  BY <1>1, UpperFacts, SamePaths

\* One name more, one name less.
LEMMA UpperGrows ==
  ASSUME NEW d \in Paths, NEW m \in 1 .. Len(d), m + 1 <= Len(d)
  PROVE  /\ Append(Upper(d, m), d[m + 1]) = Upper(d, m + 1)
         /\ Front(Upper(d, m + 1)) = Upper(d, m)
<1> DEFINE u == Upper(d, m)
           v == Upper(d, m + 1)
<1>1. Len(d) \in Nat /\ m \in Nat /\ m + 1 \in 1 .. Len(d)
  BY LenProperties DEF Paths
<1>2. d[m + 1] \in Name
  BY <1>1 DEF Paths
<1>3. u \in Paths /\ Len(u) = m /\ \A i \in 1 .. m : u[i] = d[i]
  BY UpperFacts
<1>4. v \in Paths /\ Len(v) = m + 1 /\ \A i \in 1 .. m + 1 : v[i] = d[i]
  BY <1>1, UpperFacts
<1> HIDE DEF u, v
<1> DEFINE a == Append(u, d[m + 1])
<1>5. a \in Paths /\ Len(a) = m + 1 /\ a[m + 1] = d[m + 1] /\ \A i \in 1 .. m : a[i] = d[i]
  BY <1>2, <1>3, AppendFacts
<1> HIDE DEF a
<1>6. a = v
  <2>1. \A i \in 1 .. m + 1 : a[i] = v[i]
    BY <1>1, <1>4, <1>5
  <2> QED  BY <1>4, <1>5, <2>1, SamePaths
<1>7. Front(a) = u
  BY <1>2, <1>3, FrontOfAppend DEF a
<1> QED  BY <1>6, <1>7 DEF a, u, v

LEMMA NumberBefore ==
  ASSUME NEW m \in Nat \ {0}
  PROVE  \E n \in Nat : n + 1 = m
<1>1. m - 1 \in Nat /\ (m - 1) + 1 = m
  OBVIOUS
<1> QED  BY <1>1

\* The walk along a normal path changes nothing.
LEMMA NormalWalk ==
  ASSUME NEW path \in Paths, NEW d, IsNormal(d), Len(d) <= Len(path),
         \A i \in 1 .. Len(d) : path[i] = d[i]
  PROVE  Walked(path)[Len(d)] = d
<1> DEFINE w == Walked(path)
           Same(n) == n + 1 <= Len(d) => w[n + 1] = Upper(d, n + 1)
           T == {n \in Nat : Same(n)}
<1>1. /\ d \in Paths /\ Len(d) \in Nat \ {0} /\ d[1] = "/" /\ Len(path) \in Nat
      /\ \A i \in 2 .. Len(d) : d[i] \notin Special
  BY NormalPath, LenProperties DEF Paths
<1>2. w[0] = Root /\ \A n \in 1 .. Len(path) : w[n] = Walk(w[n - 1], path[n])
  BY WalkedFacts
<1> HIDE DEF w
<1>3. w[1] = Upper(d, 1)
  <2>1. 1 \in 1 .. Len(path) /\ 1 \in 1 .. Len(d) /\ 1 - 1 = 0
    BY <1>1
  <2>2. path[1] = "/" /\ w[1] = Walk(Root, path[1])
    BY <1>1, <1>2, <2>1
  <2>3. w[1] = Root
    BY <2>2, WalkOnce, Zenon
  <2>4. Upper(d, 1) \in Paths /\ Len(Upper(d, 1)) = 1 /\ \A i \in 1 .. 1 : Upper(d, 1)[i] = d[i]
    BY <1>1, <2>1, UpperFacts
  <2>5. Root \in Paths /\ Len(Root) = 1 /\ Root[1] = "/"
    BY RootIsAPath DEF Root
  <2>6. \A i \in 1 .. 1 : Upper(d, 1)[i] = Root[i]
    BY <1>1, <2>4, <2>5
  <2> QED  BY <2>3, <2>4, <2>5, <2>6, SamePaths
<1>4. ASSUME NEW n \in Nat, Same(n), (n + 1) + 1 <= Len(d)
      PROVE  w[(n + 1) + 1] = Upper(d, (n + 1) + 1)
  <2> DEFINE m == n + 1
  <2>1. m \in 1 .. Len(d) /\ m + 1 <= Len(d) /\ m + 1 \in 2 .. Len(d) /\ m + 1 \in 1 .. Len(path)
        /\ (m + 1) - 1 = m /\ m + 1 \in 1 .. Len(d)
    BY <1>1, <1>4
  <2>2. w[m] = Upper(d, m)
    BY <1>1, <1>4
  <2> HIDE DEF m
  <2>3. w[m + 1] = Walk(w[m], d[m + 1])
    BY <1>2, <2>1
  <2>4. w[m + 1] = Append(Upper(d, m), d[m + 1])
    <3>1. d[m + 1] \notin Special
      BY <1>1, <2>1
    <3>2. Walk(Upper(d, m), d[m + 1]) = Append(Upper(d, m), d[m + 1])
      BY <3>1, WalkOnce, Zenon
    <3> QED  BY <2>2, <2>3, <3>2
  <2> QED  BY <1>1, <2>1, <2>4, UpperGrows DEF m
<1>5. Nat \subseteq T
  <2>1. Same(0)
    BY <1>3
  <2>2. ASSUME NEW n \in Nat, Same(n)  PROVE Same(n + 1)
    BY <1>4, <2>2
  <2> HIDE DEF Same
  <2>3. 0 \in T /\ \A n \in Nat : n \in T => n + 1 \in T
    BY <2>1, <2>2
  <2> HIDE DEF T
  <2> QED  BY <2>3, NatInductionOnSets
<1>6. PICK n \in Nat : n + 1 = Len(d)
  BY <1>1, NumberBefore
<1>7. w[Len(d)] = Upper(d, Len(d))
  <2>1. n \in T
    BY <1>5
  <2> QED  BY <1>1, <1>6, <2>1
<1> QED  BY <1>1, <1>7, UpperOfAll DEF w

\* How many names are left of a path of so many when n are dropped: the first one
\* stays.
Left(length, n) == IF length - n >= 1 THEN length - n ELSE 1

LEMMA LeftFacts ==
  ASSUME NEW length \in Nat \ {0}, NEW n \in Nat
  PROVE  /\ Left(length, n) \in 1 .. length
         /\ Left(length, 0) = length
         /\ Left(length, n) = 1 => Left(length, n + 1) = 1
         /\ Left(length, n) # 1 => Left(length, n + 1) + 1 = Left(length, n)
  BY DEF Left

\* The directory n levels up.
Up(d, n) == Upper(d, Left(Len(d), n))

LEMMA UpFacts ==
  ASSUME NEW d, IsNormal(d), NEW n \in Nat
  PROVE  /\ Up(d, n) \in Paths /\ Len(Up(d, n)) = Left(Len(d), n)
         /\ Len(Up(d, n)) \in 1 .. Len(d)
         /\ Up(d, 0) = d
<1>1. d \in Paths /\ Len(d) \in Nat \ {0}
  BY NormalPath
<1>2. Left(Len(d), n) \in 1 .. Len(d) /\ Left(Len(d), 0) = Len(d)
  BY <1>1, LeftFacts
<1>3. Up(d, n) \in Paths /\ Len(Up(d, n)) = Left(Len(d), n)
  BY <1>1, <1>2, UpperFacts DEF Up
<1>4. Up(d, 0) = d
  BY <1>1, <1>2, UpperOfAll DEF Up
<1> QED  BY <1>2, <1>3, <1>4

LEMMA UpOnce ==
  ASSUME NEW d, IsNormal(d), NEW n \in Nat
  PROVE  ParentPath(Up(d, n)) = Up(d, n + 1)
<1> DEFINE m == Left(Len(d), n)
           k == Left(Len(d), n + 1)
<1>1. d \in Paths /\ Len(d) \in Nat \ {0} /\ d[1] = "/"
  BY NormalPath
<1>2. /\ m \in 1 .. Len(d) /\ k \in 1 .. Len(d)
      /\ m = 1 => k = 1
      /\ m # 1 => k + 1 = m
  <2>1. n + 1 \in Nat
    OBVIOUS
  <2>2. k \in 1 .. Len(d)
    BY <1>1, <2>1, LeftFacts, Zenon
  <2> QED  BY <1>1, <2>2, LeftFacts, Zenon
<1>3. Up(d, n) = Upper(d, m) /\ Up(d, n + 1) = Upper(d, k)
  BY DEF Up
<1> HIDE DEF m, k
<1>4. Root \in Paths /\ Len(Root) = 1 /\ Root[1] = "/"
  BY RootIsAPath DEF Root
<1>5. Upper(d, m) \in Paths /\ Len(Upper(d, m)) = m /\ \A i \in 1 .. m : Upper(d, m)[i] = d[i]
  BY <1>1, <1>2, UpperFacts
<1>6. CASE m = 1
  <2>1. \A i \in 1 .. 1 : Upper(d, m)[i] = Root[i]
    BY <1>1, <1>4, <1>5, <1>6
  <2>2. Upper(d, m) = Root
    BY <1>4, <1>5, <1>6, <2>1, SamePaths
  <2> QED  BY <1>2, <1>3, <1>6, <2>2 DEF ParentPath
<1>7. CASE m # 1
  <2>1. Upper(d, m) # Root
    BY <1>4, <1>5, <1>7
  <2>2. k + 1 = m /\ k + 1 <= Len(d)
    BY <1>1, <1>2, <1>7
  <2>3. Front(Upper(d, k + 1)) = Upper(d, k)
    BY <1>1, <1>2, <2>2, UpperGrows
  <2> QED  BY <1>3, <2>1, <2>2, <2>3 DEF ParentPath
<1> QED  BY <1>6, <1>7

LEMMA ConcatFacts ==
  ASSUME NEW s \in Paths, NEW t \in Paths
  PROVE  /\ s \o t \in Paths /\ Len(s \o t) = Len(s) + Len(t)
         /\ \A i \in 1 .. Len(s) : (s \o t)[i] = s[i]
         /\ \A i \in 1 .. Len(t) : (s \o t)[Len(s) + i] = t[i]
  BY DEF Paths

LEMMA RequestedFacts ==
  /\ Requested \in Paths /\ Len(Requested) = 2
  /\ Requested[1] = "config" /\ Requested[2] = "server.ini"
  /\ ~IsAbsolute(Requested) /\ Requested # <<>>
<1>1. "config" \in Name /\ "server.ini" \in Name
  BY NamesAreNames, Zenon
<1> QED  BY <1>1 DEF Requested, Paths, IsAbsolute

LEMMA RequestedBehind ==
  ASSUME NEW s \in Paths
  PROVE  /\ s \o Requested \in Paths /\ Len(s \o Requested) = Len(s) + 2
         /\ \A i \in 1 .. Len(s) : (s \o Requested)[i] = s[i]
         /\ (s \o Requested)[Len(s) + 1] = "config" /\ (s \o Requested)[Len(s) + 2] = "server.ini"
<1> DEFINE c == s \o Requested
<1>1. /\ c \in Paths /\ Len(c) = Len(s) + Len(Requested)
      /\ \A i \in 1 .. Len(s) : c[i] = s[i]
      /\ \A i \in 1 .. Len(Requested) : c[Len(s) + i] = Requested[i]
  BY RequestedFacts, ConcatFacts, Zenon
<1> HIDE DEF c
<1>2. 1 \in 1 .. Len(Requested) /\ 2 \in 1 .. Len(Requested)
  BY RequestedFacts
<1>3. c[Len(s) + 1] = "config" /\ c[Len(s) + 2] = "server.ini"
  BY <1>1, <1>2, RequestedFacts, Zenon
<1>4. Len(c) = Len(s) + 2
  BY <1>1, RequestedFacts, Zenon
<1> QED  BY <1>1, <1>3, <1>4, Zenon DEF c

\* The file of a directory.
LEMMA FileOfDirectory ==
  ASSUME NEW s \in Paths
  PROVE  /\ s \o Requested = Append(Append(s, "config"), "server.ini")
         /\ Append(s, "config") \in Paths
<1> DEFINE a == Append(s, "config")
           b == Append(a, "server.ini")
           c == s \o Requested
<1>1. "config" \in Name /\ "server.ini" \in Name
  BY NamesAreNames, Zenon
<1>2. Len(s) \in Nat /\ a \in Paths /\ Len(a) = Len(s) + 1 /\ a[Len(s) + 1] = "config"
      /\ \A i \in 1 .. Len(s) : a[i] = s[i]
  BY <1>1, AppendFacts, LenProperties DEF Paths
<1> HIDE DEF a
<1>3. b \in Paths /\ Len(b) = Len(s) + 2 /\ b[Len(s) + 2] = "server.ini"
      /\ \A i \in 1 .. Len(s) + 1 : b[i] = a[i]
  BY <1>1, <1>2, AppendFacts
<1> HIDE DEF b
<1>4. /\ c \in Paths /\ Len(c) = Len(s) + 2
      /\ \A i \in 1 .. Len(s) : c[i] = s[i]
      /\ c[Len(s) + 1] = "config" /\ c[Len(s) + 2] = "server.ini"
  BY RequestedBehind, Zenon
<1> HIDE DEF c
<1>5. \A i \in 1 .. Len(b) : b[i] = c[i]
  <2> SUFFICES ASSUME NEW i \in 1 .. Len(s) + 2  PROVE b[i] = c[i]
    BY <1>3
  <2>1. i \in 1 .. Len(s) \/ i = Len(s) + 1 \/ i = Len(s) + 2
    BY <1>2
  <2> QED  BY <1>2, <1>3, <1>4, <2>1
<1>6. b = c
  <2>1. b \in Paths /\ c \in Paths /\ Len(b) = Len(c)
    BY <1>3, <1>4
  <2> QED  BY <1>5, <2>1, SamePaths
<1> QED  BY <1>2, <1>6 DEF b, a, c

\* configBaseDirectory leads back to the directory.
LEMMA BaseOfFile ==
  ASSUME NEW s \in Paths, Len(s) > 0
  PROVE  ConfigBaseDirectory(s \o Requested) = s
<1> DEFINE a == Append(s, "config")
           b == Append(a, "server.ini")
<1>1. "config" \in Name /\ "server.ini" \in Name
  BY NamesAreNames, Zenon
<1>2. Len(s) \in Nat /\ a \in Paths /\ Len(a) = Len(s) + 1 /\ a[Len(s) + 1] = "config"
  BY <1>1, AppendFacts, LenProperties DEF Paths
<1>3. Front(a) = s
  BY <1>1, FrontOfAppend
<1>4. s \o Requested = b
  BY FileOfDirectory
<1> HIDE DEF a
<1>5. Front(b) = a /\ Len(b) = Len(a) + 1
  BY <1>1, <1>2, FrontOfAppend, AppendFacts
<1> HIDE DEF b
<1>6. Len(Root) = 1
  BY DEF Root
<1>7. ParentPath(b) = a
  <2>0. Len(b) # Len(Root)
    BY <1>2, <1>5, <1>6
  <2>1. b # Root
    BY <2>0, Zenon
  <2> QED  BY <1>5, <2>1, Zenon DEF ParentPath
<1>8. Last(a) = "config"
  BY <1>2 DEF Last
<1>9. ParentPath(a) = s
  <2>1. a # Root
    BY <1>2, <1>6
  <2> QED  BY <1>3, <2>1, Zenon DEF ParentPath
<1> QED  BY <1>4, <1>7, <1>8, <1>9 DEF ConfigBaseDirectory

\* Each of the paths that findConfigPath tries.
LEMMA TriedPath ==
  ASSUME NEW cwd, IsNormal(cwd), NEW n \in 0 .. 2
  PROVE  LexicallyNormal(Join(cwd \o [i \in 1 .. n |-> ".."], Requested)) = Up(cwd, n) \o Requested
<1> DEFINE ups == [i \in 1 .. n |-> ".."]
           base == cwd \o ups
           path == base \o Requested
           L == Len(cwd)
           w == Walked(path)
<1>1. cwd \in Paths /\ L \in Nat \ {0} /\ cwd[1] = "/" /\ \A i \in 2 .. L : cwd[i] \notin Special
  BY NormalPath
<1>2. ups \in Paths /\ Len(ups) = n /\ \A i \in 1 .. n : ups[i] = ".."
  <2>1. ".." \in Name
    BY NamesAreNames, Zenon
  <2> QED  BY <2>1 DEF Paths
<1> HIDE DEF ups
<1>3. /\ base \in Paths /\ Len(base) = L + n
      /\ \A i \in 1 .. L : base[i] = cwd[i]
      /\ \A i \in 1 .. n : base[L + i] = ".."
  BY <1>1, <1>2, ConcatFacts
<1> HIDE DEF base, L
<1>4. Join(base, Requested) = path
  <2>1. base[L + n] \in {"/", ".."} \/ base[L + n] \notin Special
    <3>1. CASE n = 0
      <4>1. L \in 1 .. L /\ (L = 1 \/ L \in 2 .. L) /\ L + n = L
        BY <1>1, <3>1
      <4> QED  BY <1>1, <1>3, <4>1
    <3>2. CASE n # 0
      <4>1. n \in 1 .. n
        BY <3>2
      <4> QED  BY <1>3, <4>1
    <3> QED  BY <3>1, <3>2
  <2>2. Last(base) = base[L + n]
    BY <1>3, Zenon DEF Last
  <2>3. Last(base) # ""
    BY <2>1, <2>2, Zenon DEF Special
  <2>4. WithoutSlash(base) = base
    BY <2>3, Zenon DEF WithoutSlash
  <2> QED  BY <2>4, RequestedFacts, Zenon DEF Join
<1>5. /\ path \in Paths /\ Len(path) = L + n + 2
      /\ \A i \in 1 .. L : path[i] = cwd[i]
      /\ \A i \in 1 .. n : path[L + i] = ".."
      /\ path[L + n + 1] = "config" /\ path[L + n + 2] = "server.ini"
  <2>1. /\ path \in Paths /\ Len(path) = L + n + 2
        /\ \A i \in 1 .. L + n : path[i] = base[i]
        /\ path[(L + n) + 1] = "config" /\ path[(L + n) + 2] = "server.ini"
    <3>1. /\ path \in Paths /\ Len(path) = Len(base) + 2
          /\ \A i \in 1 .. Len(base) : path[i] = base[i]
          /\ path[Len(base) + 1] = "config" /\ path[Len(base) + 2] = "server.ini"
      BY <1>3, RequestedBehind, Zenon
    <3> HIDE DEF path
    <3> QED  BY <1>1, <1>3, <3>1
  <2> HIDE DEF path
  <2> QED  BY <1>1, <1>3, <2>1
<1> HIDE DEF path
<1>6. w[L] = cwd
  BY <1>1, <1>5, NormalWalk DEF L
<1>7. \A k \in 1 .. L + n + 2 : w[k] = Walk(w[k - 1], path[k])
  BY <1>5, WalkedFacts
<1> HIDE DEF w
<1>8. \A i \in 0 .. 1 : i < n /\ w[L + i] = Up(cwd, i) => w[L + i + 1] = Up(cwd, i + 1)
  <2> SUFFICES ASSUME NEW i \in 0 .. 1, i < n, w[L + i] = Up(cwd, i)
               PROVE  w[L + i + 1] = Up(cwd, i + 1)
    OBVIOUS
  <2>1. L + i + 1 \in 1 .. L + n + 2 /\ (L + i + 1) - 1 = L + i /\ i + 1 \in 1 .. n /\ i \in Nat
    BY <1>1
  <2>2. w[L + i + 1] = Walk(Up(cwd, i), path[L + i + 1])
    BY <1>7, <2>1
  <2>3. path[L + i + 1] = ".."
    BY <1>1, <1>5, <2>1
  <2>4. Walk(Up(cwd, i), path[L + i + 1]) = ParentPath(Up(cwd, i))
    BY <2>3, WalkOnce, Zenon
  <2> QED  BY <2>1, <2>2, <2>4, UpOnce, Zenon
<1>9. w[L + n] = Up(cwd, n)
  <2>1. w[L + 0] = Up(cwd, 0)
    BY <1>1, <1>6, UpFacts DEF L
  <2>2. n >= 1 => w[L + 1] = Up(cwd, 1)
    BY <1>1, <1>8, <2>1
  <2>3. n = 2 => w[L + 2] = Up(cwd, 2)
    BY <1>1, <1>8, <2>2
  <2> QED  BY <2>1, <2>2, <2>3
<1>10. w[L + n + 1] = Append(Up(cwd, n), "config")
  <2>1. L + n + 1 \in 1 .. L + n + 2 /\ (L + n + 1) - 1 = L + n
    BY <1>1
  <2>2. w[L + n + 1] = Walk(Up(cwd, n), "config")
    BY <1>5, <1>7, <1>9, <2>1
  <2>3. "config" \notin Special
    BY Zenon DEF Special
  <2> QED  BY <2>2, <2>3, WalkOnce, Zenon
<1>11. w[L + n + 2] = Append(Append(Up(cwd, n), "config"), "server.ini")
  <2>1. L + n + 2 \in 1 .. L + n + 2 /\ (L + n + 2) - 1 = L + n + 1
    BY <1>1
  <2>2. w[L + n + 2] = Walk(w[L + n + 1], "server.ini")
    BY <1>5, <1>7, <2>1
  <2>3. "server.ini" \notin Special
    BY Zenon DEF Special
  <2> QED  BY <1>10, <2>2, <2>3, WalkOnce, Zenon
<1>12. w[Len(path)] = Up(cwd, n) \o Requested
  <2>1. Up(cwd, n) \in Paths
    BY UpFacts
  <2> QED  BY <1>5, <1>11, <2>1, FileOfDirectory, Zenon
<1>13. LexicallyNormal(path) = w[Len(path)]
  <2>1. Last(path) = "server.ini"
    BY <1>5, Zenon DEF Last
  <2> QED  BY <2>1, Zenon DEF LexicallyNormal, w
<1> QED  BY <1>4, <1>12, <1>13 DEF base, ups

\* The directories that LoadedConfigIsSound looks at: the current one and the two
\* above it, so far as they have the file.
DirsWith(cwd, exists) ==
  {dir \in Ancestors(cwd) : Len(cwd) - Len(dir) \in 0 .. 2 /\ dir \o Requested \in exists}

LevelsWith(cwd, exists) == {n \in 0 .. 2 : Up(cwd, n) \o Requested \in exists}

LEMMA LeftIsEnough ==
  ASSUME NEW length \in Nat \ {0}, NEW n \in 0 .. 2
  PROVE  /\ length - Left(length, n) \in 0 .. 2
         /\ \A m \in 1 .. length : length - m = n => Left(length, n) = m
         /\ \A k \in 0 .. 2 : n <= k => Left(length, k) <= Left(length, n)
  BY DEF Left

LEMMA DirsAreUp ==
  ASSUME NEW cwd, IsNormal(cwd), NEW exists
  PROVE  DirsWith(cwd, exists) = {Up(cwd, n) : n \in LevelsWith(cwd, exists)}
<1> DEFINE L == Len(cwd)
<1>1. cwd \in Paths /\ L \in Nat \ {0}
  BY NormalPath
<1>2. ASSUME NEW dir \in DirsWith(cwd, exists)
      PROVE  \E n \in LevelsWith(cwd, exists) : dir = Up(cwd, n)
  <2>1. PICK m \in 1 .. L : dir = Upper(cwd, m)
    BY DEF DirsWith, Ancestors, Upper
  <2>2. Len(dir) = m
    BY <1>1, <2>1, UpperFacts
  <2>3. L - m \in 0 .. 2 /\ dir \o Requested \in exists
    BY <2>2 DEF DirsWith
  <2>4. PICK n \in 0 .. 2 : L - m = n
    BY <2>3
  <2> HIDE DEF L
  <2>5. Left(L, n) = m
    BY <1>1, <2>1, <2>4, LeftIsEnough
  <2>6. dir = Up(cwd, n)
    BY <2>1, <2>5, Zenon DEF Up, L
  <2> QED  BY <2>3, <2>6 DEF LevelsWith
<1>3. ASSUME NEW n \in LevelsWith(cwd, exists)
      PROVE  Up(cwd, n) \in DirsWith(cwd, exists)
  <2>1. n \in 0 .. 2 /\ n \in Nat /\ Up(cwd, n) \o Requested \in exists
    BY DEF LevelsWith
  <2>2. Left(L, n) \in 1 .. L /\ Len(Up(cwd, n)) = Left(L, n)
    BY <1>1, <2>1, LeftFacts, UpFacts, Zenon
  <2>3. L - Left(L, n) \in 0 .. 2
    BY <1>1, <2>1, LeftIsEnough, Zenon
  <2>4. Up(cwd, n) \in Ancestors(cwd)
    BY <2>2 DEF Up, Upper, Ancestors
  <2> QED  BY <2>1, <2>2, <2>3, <2>4, Zenon DEF DirsWith
<1> QED  BY <1>2, <1>3

\* The nearest of them.
Nearest(nearby) == CHOOSE dir \in nearby : \A other \in nearby : Len(other) <= Len(dir)

\* findConfigPath finds the file in the nearest of them, or nothing.
LEMMA FoundIsNearest ==
  ASSUME NEW cwd, IsNormal(cwd), NEW exists
  PROVE  /\ DirsWith(cwd, exists) = {} => FindConfigPath(cwd, Requested, exists) = {}
         /\ DirsWith(cwd, exists) # {} =>
              /\ Nearest(DirsWith(cwd, exists)) \in DirsWith(cwd, exists)
              /\ Nearest(DirsWith(cwd, exists)) \in Paths
              /\ Len(Nearest(DirsWith(cwd, exists))) > 0
              /\ FindConfigPath(cwd, Requested, exists) =
                   {Nearest(DirsWith(cwd, exists)) \o Requested}
<1> DEFINE nearby == DirsWith(cwd, exists)
           levels == LevelsWith(cwd, exists)
           At(n) == LexicallyNormal(Join(cwd \o [i \in 1 .. n |-> ".."], Requested))
           tried == {n \in 0 .. 2 : At(n) \in exists}
           found == FindConfigPath(cwd, Requested, exists)
<1>1. cwd \in Paths /\ Len(cwd) \in Nat \ {0}
  BY NormalPath
<1>2. nearby = {Up(cwd, n) : n \in levels}
  BY DirsAreUp
<1>3. \A n \in 0 .. 2 : At(n) = Up(cwd, n) \o Requested
  BY TriedPath
<1>4. found = {At(n) : n \in {k \in tried : \A l \in tried : k <= l}}
  BY RequestedFacts DEF FindConfigPath
<1> HIDE DEF At
<1>5. tried = levels /\ levels \subseteq 0 .. 2
  BY <1>3 DEF LevelsWith
<1> HIDE DEF tried, levels, found, nearby
<1>6. CASE nearby = {}
  <2>1. levels = {}
    BY <1>2, <1>6
  <2> QED  BY <1>4, <1>5, <1>6, <2>1 DEF nearby, found
<1>7. CASE nearby # {}
  <2>1. PICK first \in levels : \A k \in levels : first <= k
    <3>1. levels # {} /\ levels \subseteq Nat
      BY <1>2, <1>5, <1>7
    <3>2. PICK x \in levels : \A y \in levels : ~(y < x)
      BY <3>1, LeastNatural
    <3> QED  BY <3>1, <3>2
  <2>2. found = {Up(cwd, first) \o Requested}
    <3>1. {k \in tried : \A l \in tried : k <= l} = {first}
      <4>1. ASSUME NEW k \in levels, \A l \in levels : k <= l  PROVE k = first
        BY <1>5, <2>1, <4>1
      <4> QED  BY <1>5, <2>1, <4>1
    <3>2. found = {At(first)}
      BY <1>4, <3>1
    <3> QED  BY <1>3, <1>5, <2>1, <3>2
  <2>3. ASSUME NEW k \in levels  PROVE Len(Up(cwd, k)) <= Len(Up(cwd, first))
    <3>1. k \in 0 .. 2 /\ first \in 0 .. 2 /\ k \in Nat /\ first \in Nat /\ first <= k
      BY <1>5, <2>1
    <3>2. Len(Up(cwd, k)) = Left(Len(cwd), k) /\ Len(Up(cwd, first)) = Left(Len(cwd), first)
      BY <3>1, UpFacts
    <3>3. Left(Len(cwd), k) <= Left(Len(cwd), first)
      BY <1>1, <3>1, LeftIsEnough, Zenon
    <3> QED  BY <3>2, <3>3, Zenon
  <2>4. Up(cwd, first) \in nearby /\ \A other \in nearby : Len(other) <= Len(Up(cwd, first))
    BY <1>2, <2>1, <2>3
  <2> DEFINE near == Nearest(nearby)
  <2>5. near \in nearby /\ \A other \in nearby : Len(other) <= Len(near)
    BY <2>4, Zenon DEF Nearest
  <2> HIDE DEF near
  <2>6. PICK k \in levels : near = Up(cwd, k)
    BY <1>2, <2>5
  <2>7. k \in Nat /\ first \in Nat
    BY <1>5, <2>1
  <2>8. /\ Len(Up(cwd, k)) \in 1 .. Len(cwd) /\ Len(Up(cwd, first)) \in 1 .. Len(cwd)
        /\ Len(Up(cwd, k)) = Left(Len(cwd), k) /\ Len(Up(cwd, first)) = Left(Len(cwd), first)
        /\ Up(cwd, k) \in Paths
    BY <2>7, UpFacts, Zenon
  <2>9. Len(Up(cwd, k)) <= Len(Up(cwd, first)) /\ Len(Up(cwd, first)) <= Len(Up(cwd, k))
    BY <2>3, <2>4, <2>5, <2>6, Zenon
  <2>10. Len(Up(cwd, k)) = Len(Up(cwd, first)) /\ Len(Up(cwd, k)) > 0
    BY <2>8, <2>9
  <2>11. Up(cwd, k) = Up(cwd, first)
    BY <2>8, <2>10, Zenon DEF Up
  <2> QED  BY <1>7, <2>2, <2>5, <2>6, <2>8, <2>10, <2>11, Zenon DEF near, nearby, found
<1> QED  BY <1>6, <1>7

-----------------------------------------------------------------------------
\* The conversion to unsigned short keeps a port that is small enough.
LEMMA SmallRemainder ==
  ASSUME NEW max \in Nat, NEW port \in 1 .. max
  PROVE  port % (max + 1) = port
  OBVIOUS

\* A configuration is the default one or made of a file that was found.
LEMMA ConfigHasAFile ==
  ASSUME NEW cwd, NEW requested, NEW files, NEW c \in LoadServerConfig(cwd, requested, files)
  PROVE  LET found == FindConfigPath(cwd, requested, DOMAIN files)
         IN  IF found = {} THEN c = Defaults
             ELSE \E path \in found : \E data \in ParseIni(files[path]) : c \in ConfigOf(path, data)
<1> DEFINE found == FindConfigPath(cwd, requested, DOMAIN files)
           Configs(path) == UNION {ConfigOf(path, data) : data \in ParseIni(files[path])}
<1>1. c \in IF found = {} THEN {Defaults} ELSE UNION {Configs(path) : path \in found}
  BY Zenon DEF LoadServerConfig
<1>2. ASSUME NEW path, c \in Configs(path)
      PROVE  \E data \in ParseIni(files[path]) : c \in ConfigOf(path, data)
  BY <1>2
<1> HIDE DEF found, Configs
<1>3. CASE found = {}
  BY <1>1, <1>3 DEF found
<1>4. CASE found # {}
  <2>1. \E path \in found : c \in Configs(path)
    BY <1>1, <1>4
  <2> QED  BY <1>2, <1>4, <2>1 DEF found
<1> QED  BY <1>3, <1>4

\* What the file of a directory says: a port it names, not truncated, and the paths.
IsOfFile(c, dir, lines) ==
  /\ c.port \in 1 .. MaxPort
  /\ EntriesOf(lines, "server", "port") # {} => c.port \in Stoull(ValueOf(lines, "server", "port"))
  /\ c.document_root = LexicallyNormal(Join(dir, ValueOf(lines, "server", "document_root")))
  /\ c.index = ValueOf(lines, "server", "index")

\* loadServerConfig gives that for the file of one directory.
LEMMA ConfigOfFile ==
  ASSUME NEW cwd, NEW files, NEW dir \in Paths, Len(dir) > 0,
         FindConfigPath(cwd, Requested, DOMAIN files) = {dir \o Requested},
         IsList(files[dir \o Requested]),
         NEW c \in LoadServerConfig(cwd, Requested, files)
  PROVE  IsOfFile(c, dir, files[dir \o Requested])
<1> DEFINE path == dir \o Requested
           lines == files[path]
<1>1. ConfigBaseDirectory(path) = dir
  BY BaseOfFile
<1>2. IsList(lines) /\ FindConfigPath(cwd, Requested, DOMAIN files) = {path}
  OBVIOUS
<1> HIDE DEF path
<1>3. PICK data \in ParseIni(lines) : c \in ConfigOf(path, data)
  <2>1. \E p \in {path} : \E data \in ParseIni(files[p]) : c \in ConfigOf(p, data)
    BY <1>2, ConfigHasAFile
  <2> QED  BY <2>1
<1>4. PICK port \in ParseSize(data, "port", Defaults["port"]) :
        /\ PortIsValid(port) /\ c.port = ToUnsignedShort(port)
        /\ c.document_root = ResolveRelativePath(ConfigBaseDirectory(path),
             ParseString(data, "server", "document_root", Defaults["document_root"]))
        /\ c.index = ParseString(data, "server", "index", Defaults["index"])
  BY <1>3 DEF ConfigOf
<1>5. port \in 1 .. MaxPort /\ c.port = port
  BY <1>4, MaxPortAssumption, SmallRemainder DEF PortIsValid, ToUnsignedShort
<1>6. IsNamed("server")
  BY Zenon DEF IsNamed
<1>7. EntriesOf(lines, "server", "port") # {} => port \in Stoull(ValueOf(lines, "server", "port"))
  <2>1. ASSUME EntriesOf(lines, "server", "port") # {}
        PROVE  /\ <<"server", "port">> \in DOMAIN data
               /\ data[<<"server", "port">>] = ValueOf(lines, "server", "port")
    BY <1>2, <1>6, <2>1, ValueIsRead, Zenon
  <2> QED  BY <1>4, <2>1, Zenon DEF ParseSize
<1>8. ParseString(data, "server", "document_root", Defaults["document_root"])
        = ValueOf(lines, "server", "document_root")
  BY <1>2, <1>6, ValueIsRead, Zenon
<1>9. ParseString(data, "server", "index", Defaults["index"]) = ValueOf(lines, "server", "index")
  BY <1>2, <1>6, ValueIsRead, Zenon
<1>10. c.document_root = LexicallyNormal(Join(dir, ValueOf(lines, "server", "document_root")))
  BY <1>1, <1>4, <1>8 DEF ResolveRelativePath
<1>11. c.index = ValueOf(lines, "server", "index")
  BY <1>4, <1>9
<1> QED  BY <1>5, <1>7, <1>10, <1>11, Zenon DEF path, IsOfFile

\* The configuration is loaded once, from where the program was started.
LoadInv ==
  /\ stage \in {"start", "loaded"} => setup \in Setups
  /\ stage = "loaded" => config \in LoadServerConfig(setup.cwd, Requested, setup.files)

\* A configuration that was loaded is the file's own, wherever the program is
\* started: loadServerConfig takes the nearest file of the three that findConfigPath
\* looks for, the port it names, not truncated, and the document root it names, seen
\* from the project's directory; without a file it takes the defaults.
THEOREM LoadedConfigIsTheFiles == Spec => []LoadedConfigIsSound
<1>1. Init => LoadInv
  BY DEF Init, LoadInv
<1>2. LoadInv /\ [Next]_vars => LoadInv'
  <2> SUFFICES ASSUME LoadInv, [Next]_vars  PROVE LoadInv'
    OBVIOUS
  <2>1. CASE Load
    BY <2>1 DEF LoadInv, Load
  <2>2. CASE Start
    BY <2>2 DEF LoadInv, Start
  <2>3. CASE StartFails
    BY <2>3 DEF LoadInv, StartFails
  <2>4. ASSUME NEW head \in Heads, HeadFillsBuffer(head)  PROVE LoadInv'
    BY <2>4 DEF LoadInv, HeadFillsBuffer
  <2>5. ASSUME NEW head \in Heads, LongHead(head)  PROVE LoadInv'
    BY <2>5 DEF LoadInv, LongHead, RespondError, Respond
  <2>6. ASSUME NEW head \in Heads, HandleHead(head)  PROVE LoadInv'
    <3>1. stage' \in {"write", "body"}
      BY <2>6 DEF HandleHead, RespondError, Respond
    <3> QED  BY <3>1 DEF LoadInv
  <2>7. ASSUME NEW already \in 0 .. request.length, HandleRequest(already)  PROVE LoadInv'
    <3>1. stage' = "write"
      BY <2>7 DEF HandleRequest, RespondError, Respond
    <3> QED  BY <3>1 DEF LoadInv
  <2>8. CASE Written
    BY <2>8 DEF LoadInv, Written
  <2>9. CASE UNCHANGED vars
    BY <2>9 DEF LoadInv, vars
  <2> QED  BY <2>1, <2>2, <2>3, <2>4, <2>5, <2>6, <2>7, <2>8, <2>9 DEF Next
<1>3. LoadInv => LoadedConfigIsSound
  <2> SUFFICES ASSUME LoadInv, stage = "loaded"  PROVE LoadedConfigIsSound
    BY DEF LoadedConfigIsSound
  <2> DEFINE nearby == DirsWith(setup.cwd, DOMAIN setup.files)
             found == FindConfigPath(setup.cwd, Requested, DOMAIN setup.files)
  <2>1. setup \in Setups /\ config \in LoadServerConfig(setup.cwd, Requested, setup.files)
    BY DEF LoadInv
  <2>2. /\ IsNormal(setup.cwd)
        /\ \A file \in DOMAIN setup.files : IsList(setup.files[file])
    BY <2>1, SetupsAssumption
  <2>3. ProjectDirs = nearby /\ ProjectDir = Nearest(nearby)
    BY DEF ProjectDirs, ProjectDir, DirsWith, Nearest
  <2>4. CASE nearby = {}
    <3>1. found = {}
      BY <2>2, <2>4, FoundIsNearest
    <3>2. config = Defaults
      BY <2>1, <3>1, ConfigHasAFile
    <3> QED  BY <2>3, <2>4, <3>2 DEF LoadedConfigIsSound
  <2>5. CASE nearby # {}
    <3> DEFINE dir == Nearest(nearby)
    <3>1. dir \in nearby /\ dir \in Paths /\ Len(dir) > 0 /\ found = {dir \o Requested}
      BY <2>2, <2>5, FoundIsNearest, Zenon
    <3>2. IsList(setup.files[dir \o Requested])
      BY <2>2, <3>1 DEF DirsWith
    <3> HIDE DEF dir, nearby
    <3>3. IsOfFile(config, dir, setup.files[dir \o Requested])
      BY <2>1, <3>1, <3>2, ConfigOfFile
    <3> QED  BY <2>3, <2>5, <3>3, Zenon DEF LoadedConfigIsSound, IsOfFile, dir
  <2> QED  BY <2>4, <2>5
<1> QED  BY <1>1, <1>2, <1>3, PTL DEF Spec

-----------------------------------------------------------------------------
\* The paths of a state are paths.

\* The values that are read as paths are, so the file's value of such a key is.
LEMMA ValueIsAPath ==
  ASSUME NEW lines, IsList(lines), NEW section, NEW key,
         \A i \in DOMAIN lines : lines[i].kind = "entry" /\ lines[i].key = key => lines[i].value \in Paths,
         Defaults[key] \in Paths
  PROVE  ValueOf(lines, section, key) \in Paths
<1> DEFINE entries == EntriesOf(lines, section, key)
           last == CHOOSE i \in entries : \A j \in entries : j <= i
<1>1. \A i \in entries : i \in DOMAIN lines /\ i \in 1 .. Len(lines) /\ lines[i].value \in Paths
  BY EntriesInSection DEF IsList
<1> HIDE DEF entries
<1>2. CASE entries = {}
  BY <1>2, Zenon DEF ValueOf, entries
<1>3. CASE entries # {}
  <2>1. Max(entries) \in entries /\ \A j \in entries : j <= Max(entries)
    <3>1. entries \subseteq 1 .. Len(lines) /\ Len(lines) \in Nat
      BY <1>1 DEF IsList
    <3> QED  BY <1>3, <3>1, LastPosition
  <2>2. last \in entries
    BY <2>1
  <2>3. ValueOf(lines, section, key) = lines[last].value
    BY <1>3, Zenon DEF ValueOf, entries
  <2> HIDE DEF last
  <2> QED  BY <1>1, <2>2, <2>3, Zenon
<1> QED  BY <1>2, <1>3

LEMMA ConfigHasPaths ==
  ASSUME NEW s \in Setups, NEW c \in LoadServerConfig(s.cwd, Requested, s.files)
  PROVE  c.document_root \in Paths /\ c.index \in Paths
<1> DEFINE nearby == DirsWith(s.cwd, DOMAIN s.files)
           found == FindConfigPath(s.cwd, Requested, DOMAIN s.files)
<1>1. /\ IsNormal(s.cwd)
      /\ \A file \in DOMAIN s.files :
           /\ IsList(s.files[file])
           /\ \A i \in DOMAIN s.files[file] :
                s.files[file][i].kind = "entry" /\ s.files[file][i].key \in {"document_root", "index"}
                  => s.files[file][i].value \in Paths
  BY SetupsAssumption, Zenon
<1>2. CASE nearby = {}
  <2>1. found = {}
    BY <1>1, <1>2, FoundIsNearest
  <2>2. c = Defaults
    BY <2>1, ConfigHasAFile
  <2> QED  BY <2>2, DefaultsAssumption
<1>3. CASE nearby # {}
  <2> DEFINE dir == Nearest(nearby)
             lines == s.files[dir \o Requested]
  <2>1. dir \in nearby /\ dir \in Paths /\ Len(dir) > 0 /\ found = {dir \o Requested}
    BY <1>1, <1>3, FoundIsNearest, Zenon
  <2>2. dir \o Requested \in DOMAIN s.files
    BY <2>1 DEF DirsWith
  <2> HIDE DEF dir, nearby
  <2>3. /\ IsList(lines)
        /\ \A i \in DOMAIN lines :
             lines[i].kind = "entry" /\ lines[i].key \in {"document_root", "index"} => lines[i].value \in Paths
    BY <1>1, <2>2, Zenon
  <2>4. IsOfFile(c, dir, lines)
    BY <2>1, <2>3, ConfigOfFile
  <2> HIDE DEF lines
  <2>5. ValueOf(lines, "server", "document_root") \in Paths
    <3>1. Defaults["document_root"] \in Paths
      BY DefaultsAssumption
    <3> QED  BY <2>3, <3>1, ValueIsAPath
  <2>6. ValueOf(lines, "server", "index") \in Paths
    <3>1. Defaults["index"] \in Paths
      BY DefaultsAssumption
    <3> QED  BY <2>3, <3>1, ValueIsAPath
  <2> QED  BY <2>1, <2>4, <2>5, <2>6, JoinIsAPath, NormalIsAPath DEF IsOfFile
<1> QED  BY <1>2, <1>3

\* The router's answers name paths.
LEMMA AnswersHavePaths ==
  ASSUME NEW req, IsRequestPath(req.path), NEW root \in Paths, NEW index \in Paths, NEW existing
  PROVE  Handle(req, root, index, existing).body.of \in Paths
<1> DEFINE resolved == ResolveStaticPath(req.path, root, index, existing)
           file == CHOOSE path \in resolved : TRUE
<1>1. resolved \subseteq Paths
  BY ResolvedIsAPath
<1> HIDE DEF resolved
<1>2. HandleStaticFile(req, root, index, existing).body.of \in Paths
  <2>1. resolved # {} => file \in Paths
    BY <1>1
  <2> HIDE DEF file
  <2> QED  BY <2>1, RootIsAPath DEF HandleStaticFile, ErrorAnswer, Answer, ErrorBody, resolved, file
<1> QED  BY <1>2, RootIsAPath DEF Handle, HandleStatus, HandleEcho, ErrorAnswer, Answer, ErrorBody

\* The inductive invariant.
PathsInv ==
  /\ LoadInv
  /\ config.document_root \in Paths /\ config.index \in Paths
  /\ documentRoot \in Paths
  /\ stage = "body" => IsRequestPath(request.path)
  /\ response.body.of \in Paths

LEMMA RespondKeepsPaths ==
  ASSUME PathsInv, NEW req, NEW answer, NEW close, Respond(req, answer, close),
         UNCHANGED <<config, documentRoot>>, answer.body.of \in Paths
  PROVE  PathsInv'
  BY RootIsAPath DEF PathsInv, LoadInv, Respond, NoBody

LEMMA RespondErrorKeepsPaths ==
  ASSUME PathsInv, NEW req, NEW status, RespondError(req, status), UNCHANGED <<config, documentRoot>>
  PROVE  PathsInv'
<1>1. ErrorAnswer(StatusCodeForParseError(status)).body.of \in Paths
  BY RootIsAPath DEF ErrorAnswer, Answer, ErrorBody
<1> QED  BY <1>1, RespondKeepsPaths DEF RespondError

\* The document root and what is served are paths: what std::filesystem makes of
\* the configuration's, the current directory's and the request's names.
THEOREM PathsStayPaths == Spec => []PathsInv
<1>1. Init => PathsInv
  BY RootIsAPath, DefaultsAssumption DEF Init, PathsInv, LoadInv, NoResponse, NoBody
<1>2. PathsInv /\ [Next]_vars => PathsInv'
  <2> SUFFICES ASSUME PathsInv, [Next]_vars  PROVE PathsInv'
    OBVIOUS
  <2>1. CASE Load
    <3>1. CASE UNCHANGED config /\ stage' = "failed"
      BY <2>1, <3>1 DEF PathsInv, LoadInv, Load
    <3>2. CASE config' \in LoadServerConfig(setup.cwd, Requested, setup.files) /\ stage' = "loaded"
      <4>1. setup \in Setups
        BY <2>1 DEF PathsInv, LoadInv, Load
      <4>2. config'.document_root \in Paths /\ config'.index \in Paths
        BY <3>2, <4>1, ConfigHasPaths
      <4> QED  BY <2>1, <3>2, <4>1, <4>2 DEF PathsInv, LoadInv, Load
    <3> QED  BY <2>1, <3>1, <3>2 DEF Load
  <2>2. CASE Start
    <3>1. setup.cwd \in Paths
      <4>1. IsNormal(setup.cwd)
        BY <2>2, SetupsAssumption DEF PathsInv, LoadInv, Start
      <4> QED  BY <4>1, NormalPath
    <3>2. LexicallyNormal(Absolute(setup.cwd, config.document_root)) \in Paths
      BY <3>1, JoinIsAPath, NormalIsAPath DEF PathsInv, Absolute
    <3> QED  BY <2>2, <3>2 DEF PathsInv, LoadInv, Start
  <2>3. CASE StartFails
    BY <2>3 DEF PathsInv, LoadInv, StartFails
  <2>4. ASSUME NEW head \in Heads, HeadFillsBuffer(head)  PROVE PathsInv'
    BY <2>4 DEF PathsInv, LoadInv, HeadFillsBuffer
  <2>5. ASSUME NEW head \in Heads, LongHead(head)  PROVE PathsInv'
    BY <2>5, RespondErrorKeepsPaths DEF LongHead
  <2>6. ASSUME NEW head \in Heads, HandleHead(head)  PROVE PathsInv'
    <3> DEFINE parsed == ParseHttpRequestHead(head, config)
    <3>1. UNCHANGED <<config, documentRoot>>
      BY <2>6 DEF HandleHead
    <3>2. CASE RespondError(parsed.request, parsed.status)
      BY <3>1, <3>2, RespondErrorKeepsPaths
    <3>3. CASE parsed.status = "Ok" /\ request' = parsed.request /\ stage' = "body" /\ UNCHANGED response
      <4>1. parsed.request.path = head.path
        BY <3>3 DEF ParseHttpRequestHead, Result, NoRequest
      <4>2. IsRequestPath(head.path)
        BY HeadsAssumption, Zenon DEF IsRequestPath
      <4> HIDE DEF parsed
      <4> QED  BY <3>1, <3>3, <4>1, <4>2 DEF PathsInv, LoadInv
    <3> QED  BY <2>6, <3>2, <3>3 DEF HandleHead
  <2>7. ASSUME NEW already \in 0 .. request.length, HandleRequest(already)  PROVE PathsInv'
    <3> DEFINE status == AssignRequestBody(request, BodySize(already), config)
               answer == Handle(request, documentRoot, config.index, dirs)
    <3>1. UNCHANGED <<config, documentRoot>>
      BY <2>7 DEF HandleRequest
    <3>2. CASE RespondError(request, status)
      BY <3>1, <3>2, RespondErrorKeepsPaths
    <3>3. CASE Respond(request, ErrorAnswer(500), TRUE)
      <4>1. ErrorAnswer(500).body.of \in Paths
        BY RootIsAPath DEF ErrorAnswer, Answer, ErrorBody
      <4> QED  BY <3>1, <3>3, <4>1, RespondKeepsPaths
    <3>4. CASE Respond(request, answer, ~request.keepAlive)
      <4>1. answer.body.of \in Paths
        BY <2>7, AnswersHavePaths DEF HandleRequest, PathsInv
      <4> QED  BY <3>1, <3>4, <4>1, RespondKeepsPaths
    <3> QED  BY <2>7, <3>2, <3>3, <3>4 DEF HandleRequest
  <2>8. CASE Written
    BY <2>8, RootIsAPath DEF PathsInv, LoadInv, Written, NoResponse, NoBody
  <2>9. CASE UNCHANGED vars
    BY <2>9 DEF PathsInv, LoadInv, vars
  <2> QED  BY <2>1, <2>2, <2>3, <2>4, <2>5, <2>6, <2>7, <2>8, <2>9 DEF Next
<1> QED  BY <1>1, <1>2, PTL DEF Spec

-----------------------------------------------------------------------------
\* Every path that resolveStaticPath gives was put to pathEscapesRoot.
LEMMA ResolvedIsTested ==
  ASSUME NEW path, NEW root, NEW index, NEW existing,
         NEW file \in ResolveStaticPath(path, root, index, existing)
  PROVE  ~PathEscapesRoot(root, file)
  BY DEF ResolveStaticPath

\* The router answers with no other file.
LEMMA OnlyTestedFilesAreServed ==
  ASSUME NEW req, NEW root, NEW index, NEW existing,
         Handle(req, root, index, existing).body.kind = "file"
  PROVE  ~PathEscapesRoot(root, Handle(req, root, index, existing).body.of)
<1> DEFINE answer == Handle(req, root, index, existing)
           resolved == ResolveStaticPath(req.path, root, index, existing)
           file == CHOOSE path \in resolved : TRUE
<1>1. answer = HandleStaticFile(req, root, index, existing)
  BY DEF Handle, HandleStatus, HandleEcho, ErrorAnswer, Answer, ErrorBody
<1>2. resolved # {} /\ answer.body.of = file
  BY <1>1 DEF HandleStaticFile, ErrorAnswer, Answer, ErrorBody
<1>3. file \in resolved
  <2> HIDE DEF resolved
  <2> QED  BY <1>2
<1>4. ~PathEscapesRoot(root, file)
  <2> HIDE DEF file
  <2> QED  BY <1>3, ResolvedIsTested
<1> QED  BY <1>2, <1>4

\* A file in an answer was tested against the document root, and there is no
\* answer before the document root is known.
ServedInv ==
  /\ response.body.kind = "file" => ~PathEscapesRoot(documentRoot, response.body.of)
  /\ stage \in {"start", "loaded"} => response = NoResponse

\* An answer that is made of an error or of the router's answer keeps it.
LEMMA RespondKeepsServed ==
  ASSUME ServedInv, NEW req, NEW answer, NEW close, Respond(req, answer, close),
         UNCHANGED documentRoot,
         answer.body.kind = "file" => ~PathEscapesRoot(documentRoot, answer.body.of)
  PROVE  ServedInv'
  BY DEF ServedInv, Respond, NoBody

LEMMA RespondErrorKeepsServed ==
  ASSUME ServedInv, NEW req, NEW status, RespondError(req, status), UNCHANGED documentRoot
  PROVE  ServedInv'
<1>1. ErrorAnswer(StatusCodeForParseError(status)).body.kind # "file"
  BY DEF ErrorAnswer, Answer, ErrorBody
<1> QED  BY <1>1, RespondKeepsServed DEF RespondError

\* Whatever a request's path spells, a static file that is served lies under
\* the document root: Router::resolveStaticPath tests every file it gives.
THEOREM ServedFilesStayInRoot == Spec => []StaticFilesStayInRoot
<1>1. Init => ServedInv
  BY DEF Init, ServedInv, NoResponse, NoBody
<1>2. ServedInv /\ [Next]_vars => ServedInv'
  <2> SUFFICES ASSUME ServedInv, [Next]_vars  PROVE ServedInv'
    OBVIOUS
  <2>1. CASE Load
    BY <2>1 DEF ServedInv, Load
  <2>2. CASE Start
    BY <2>2 DEF ServedInv, Start, NoResponse, NoBody
  <2>3. CASE StartFails
    BY <2>3 DEF ServedInv, StartFails
  <2>4. ASSUME NEW head \in Heads, HeadFillsBuffer(head)  PROVE ServedInv'
    BY <2>4 DEF ServedInv, HeadFillsBuffer
  <2>5. ASSUME NEW head \in Heads, LongHead(head)  PROVE ServedInv'
    BY <2>5, RespondErrorKeepsServed DEF LongHead
  <2>6. ASSUME NEW head \in Heads, HandleHead(head)  PROVE ServedInv'
    <3> DEFINE parsed == ParseHttpRequestHead(head, config)
    <3>1. CASE RespondError(parsed.request, parsed.status)
      BY <2>6, <3>1, RespondErrorKeepsServed DEF HandleHead
    <3>2. CASE stage' = "body" /\ UNCHANGED response
      BY <2>6, <3>2 DEF HandleHead, ServedInv
    <3> QED  BY <2>6, <3>1, <3>2 DEF HandleHead
  <2>7. ASSUME NEW already \in 0 .. request.length, HandleRequest(already)  PROVE ServedInv'
    <3> DEFINE status == AssignRequestBody(request, BodySize(already), config)
               answer == Handle(request, documentRoot, config.index, dirs)
    <3>1. CASE RespondError(request, status)
      BY <2>7, <3>1, RespondErrorKeepsServed DEF HandleRequest
    <3>2. CASE Respond(request, ErrorAnswer(500), TRUE)
      <4>1. ErrorAnswer(500).body.kind # "file"
        BY DEF ErrorAnswer, Answer, ErrorBody
      <4>2. UNCHANGED documentRoot
        BY <2>7 DEF HandleRequest
      <4> QED  BY <3>2, <4>1, <4>2, RespondKeepsServed
    <3>3. CASE Respond(request, answer, ~request.keepAlive)
      BY <2>7, <3>3, OnlyTestedFilesAreServed, RespondKeepsServed DEF HandleRequest
    <3> QED  BY <2>7, <3>1, <3>2, <3>3 DEF HandleRequest
  <2>8. CASE Written
    BY <2>8 DEF ServedInv, Written, NoResponse, NoBody
  <2>9. CASE UNCHANGED vars
    BY <2>9 DEF ServedInv, vars
  <2> QED  BY <2>1, <2>2, <2>3, <2>4, <2>5, <2>6, <2>7, <2>8, <2>9 DEF Next
<1>3. ServedInv /\ PathsInv => StaticFilesStayInRoot
  BY NoEscapeIsInside DEF ServedInv, PathsInv, StaticFilesStayInRoot
<1> QED  BY <1>1, <1>2, <1>3, PathsStayPaths, PTL DEF Spec
-----------------------------------------------------------------------------
\* The numbers that bound a body are numbers.
LEMMA StoullIsNatural ==
  ASSUME NEW text
  PROVE  Stoull(text) \subseteq Nat
<1>1. ASSUME text.digits \in 0 .. Word - 1  PROVE text.digits \in Nat
  BY <1>1, WordAssumption
<1>2. ASSUME text.digits \in 0 .. Word - 1  PROVE (Word - text.digits) % Word \in Nat
  BY <1>2, WordAssumption
<1> QED  BY <1>1, <1>2 DEF Stoull

LEMMA LimitIsNatural ==
  ASSUME NEW cwd, NEW requested, NEW files, NEW c \in LoadServerConfig(cwd, requested, files)
  PROVE  c.max_body_bytes \in Nat
<1>1. ASSUME NEW data  PROVE ParseSize(data, "max_body_bytes", Defaults.max_body_bytes) \subseteq Nat
  BY StoullIsNatural, DefaultsAssumption DEF ParseSize
<1>2. ASSUME NEW path, NEW data, c \in ConfigOf(path, data)  PROVE c.max_body_bytes \in Nat
  BY <1>1, <1>2 DEF ConfigOf
<1> QED  BY <1>2, ConfigHasAFile, DefaultsAssumption

\* When no line of a head ends the loop over them, none is bad.
LEMMA OkHeadersAreGood ==
  ASSUME NEW lines, Len(lines) \in Nat, DOMAIN lines = 1 .. Len(lines),
         NEW maxBody, HeadersStatus(lines, maxBody) = "Ok"
  PROVE  \A i \in 1 .. Len(lines) : LineStatus(lines[i], maxBody) = "Ok"
<1> DEFINE bad == {i \in DOMAIN lines : LineStatus(lines[i], maxBody) # "Ok"}
<1>1. ASSUME bad # {}  PROVE FALSE
  <2>1. Min(bad) \in bad
    <3>1. bad \subseteq 1 .. Len(lines)
      OBVIOUS
    <3> HIDE DEF bad
    <3> QED  BY <1>1, <3>1, FirstPosition
  <2> QED  BY <1>1, <2>1 DEF HeadersStatus
<1> QED  BY <1>1

\* A text that passed the checks on Content-Length is a number within the limit.
LEMMA OkLengthIsBounded ==
  ASSUME NEW text, NEW maxBody \in Nat, LengthStatus(text, maxBody) = "Ok"
  PROVE  /\ (CHOOSE length \in Stoull(text) : TRUE) \in Nat
         /\ (CHOOSE length \in Stoull(text) : TRUE) <= maxBody
<1>1. PICK length \in Stoull(text) : ~(length > maxBody)
  BY DEF LengthStatus
<1>2. Stoull(text) = {length}
  BY <1>1 DEF Stoull
<1>3. (CHOOSE l \in Stoull(text) : TRUE) = length
  BY <1>2
<1>4. length \in Nat
  BY StoullIsNatural
<1>5. length <= maxBody
  BY <1>1, <1>4
<1> QED  BY <1>3, <1>4, <1>5, Zenon

\* So the length of a head that was let pass is: the last line that gives one is
\* good, and without such a line it is 0.
LEMMA OkContentLength ==
  ASSUME NEW lines, Len(lines) \in Nat, DOMAIN lines = 1 .. Len(lines),
         NEW maxBody \in Nat, HeadersStatus(lines, maxBody) = "Ok"
  PROVE  ContentLength(lines) \in Nat /\ ContentLength(lines) <= maxBody
<1> DEFINE named == {i \in DOMAIN lines : lines[i].key = "content-length"}
           text == HeaderValue(lines, "content-length", Numeral("", 0))
<1>1. LengthStatus(text, maxBody) = "Ok"
  <2>1. CASE named = {}
    <3>1. text = Numeral("", 0)
      BY <2>1 DEF HeaderValue
    <3>2. Stoull(Numeral("", 0)) = {0}
      BY WordAssumption DEF Stoull, Numeral
    <3> HIDE DEF text
    <3>3. Stoull(text) = {0}
      BY <3>1, <3>2, Zenon
    <3>4. ~(0 > maxBody)
      OBVIOUS
    <3> QED  BY <3>3, <3>4, Zenon DEF LengthStatus
  <2>2. CASE named # {}
    <3>1. Max(named) \in named
      <4>1. named \subseteq 1 .. Len(lines)
        OBVIOUS
      <4> HIDE DEF named
      <4> QED  BY <2>2, <4>1, LastPosition
    <3>2. text = lines[Max(named)].value
      BY <2>2 DEF HeaderValue
    <3>3. PICK i \in 1 .. Len(lines) : i = Max(named) /\ lines[i].key = "content-length"
      BY <3>1
    <3>4. LineStatus(lines[i], maxBody) = "Ok"
      BY OkHeadersAreGood
    <3>5. LineStatus(lines[i], maxBody) = LengthStatus(lines[i].value, maxBody)
      BY <3>3 DEF LineStatus
    <3> QED  BY <3>2, <3>3, <3>4, <3>5
  <2> QED  BY <2>1, <2>2
<1> HIDE DEF text
<1>2. ContentLength(lines) = CHOOSE length \in Stoull(text) : TRUE
  BY DEF ContentLength, text
<1> QED  BY <1>1, <1>2, OkLengthIsBounded

\* What is known of a request whose body is still to come.
BodyIsAllowed(req, c) ==
  /\ req.length \in Nat /\ req.length <= c.max_body_bytes
  /\ TypeStatus(req.method, req.length, req.type) = "Ok"

\* parseHttpRequestHead lets no other request pass.
LEMMA OkHeadIsAllowed ==
  ASSUME NEW head \in Heads, NEW c, c.max_body_bytes \in Nat,
         ParseHttpRequestHead(head, c).status = "Ok"
  PROVE  BodyIsAllowed(ParseHttpRequestHead(head, c).request, c)
<1> DEFINE length == ContentLength(head.lines)
           type == HeaderValue(head.lines, "content-type", "")
           req == ParseHttpRequestHead(head, c).request
<1>1. /\ HeadersStatus(head.lines, c.max_body_bytes) = "Ok"
      /\ TypeStatus(head.method, length, type) = "Ok"
      /\ req.method = head.method /\ req.length = length /\ req.type = type
  <2> HIDE DEF length, type
  <2> QED  BY DEF ParseHttpRequestHead, Result, NoRequest, length, type
<1>2. length \in Nat /\ length <= c.max_body_bytes
  BY <1>1, HeadsAssumption, OkContentLength DEF IsList
<1> HIDE DEF length, type, req
<1> QED  BY <1>1, <1>2 DEF BodyIsAllowed, req

\* The statuses of a request that is refused for how it was read.
Refusals == {400, 413, 415, 431}

\* Router::handle answers with none of them.
LEMMA RouterRefusesNoBody ==
  ASSUME NEW req, NEW root, NEW index, NEW existing
  PROVE  Handle(req, root, index, existing).status \notin Refusals
<1>1. HandleStaticFile(req, root, index, existing).status \notin Refusals
  BY DEF HandleStaticFile, ErrorAnswer, Answer, Refusals
<1> QED  BY <1>1 DEF Handle, HandleStatus, HandleEcho, ErrorAnswer, Answer, Refusals

\* A request whose body came in full passes assignRequestBody, one whose body
\* came short does not: the limit and the media type were tested on the head.
LEMMA FullBodyIsOk ==
  ASSUME NEW req, NEW c, c.max_body_bytes \in Nat, BodyIsAllowed(req, c), NEW size
  PROVE  AssignRequestBody(req, size, c) = "Ok" <=> size = req.length
<1>1. size = req.length => TypeStatus(req.method, size, req.type) = "Ok" /\ ~(size > c.max_body_bytes)
  BY DEF BodyIsAllowed
<1> QED  BY <1>1 DEF AssignRequestBody

\* The inductive invariant: before a head is taken nothing was, and what is known
\* of a request between its head and its body.
FramedInv ==
  /\ config.max_body_bytes \in Nat
  /\ stage \in {"start", "loaded", "head"} => taken = "none"
  /\ stage = "body" => BodyIsAllowed(request, config)
  /\ RequestsAreFramed

\* An error closes the connection, and is right where the request was not read.
LEMMA ErrorKeepsFrames ==
  ASSUME FramedInv, NEW req, NEW status, RespondError(req, status),
         UNCHANGED config, taken' # "all"
  PROVE  FramedInv'
  BY DEF FramedInv, RespondError, Respond, RequestsAreFramed

\* A connection is kept only when the head and the whole body of the request
\* were taken off its stream, and a request that was read in full is not refused
\* for its body any more: what handleHead's parser let pass, assignRequestBody
\* lets pass.
THEOREM RequestsKeepTheirFrames == Spec => []RequestsAreFramed
<1>1. Init => FramedInv
  BY DefaultsAssumption DEF Init, FramedInv, RequestsAreFramed
<1>2. FramedInv /\ [Next]_vars => FramedInv'
  <2> SUFFICES ASSUME FramedInv, [Next]_vars  PROVE FramedInv'
    OBVIOUS
  <2>1. CASE Load
    <3>1. config'.max_body_bytes \in Nat /\ stage' \in {"failed", "loaded"} /\ UNCHANGED taken
      BY <2>1, LimitIsNatural DEF Load, FramedInv
    <3> QED  BY <2>1, <3>1 DEF Load, FramedInv, RequestsAreFramed
  <2>2. CASE Start
    BY <2>2 DEF FramedInv, RequestsAreFramed, Start
  <2>3. CASE StartFails
    BY <2>3 DEF FramedInv, RequestsAreFramed, StartFails
  <2>4. ASSUME NEW head \in Heads, HeadFillsBuffer(head)  PROVE FramedInv'
    BY <2>4 DEF FramedInv, RequestsAreFramed, HeadFillsBuffer
  <2>5. ASSUME NEW head \in Heads, LongHead(head)  PROVE FramedInv'
    <3>1. taken' # "all" /\ UNCHANGED config
      BY <2>5 DEF LongHead, FramedInv
    <3> QED  BY <2>5, <3>1, ErrorKeepsFrames DEF LongHead
  <2>6. ASSUME NEW head \in Heads, HandleHead(head)  PROVE FramedInv'
    <3> DEFINE parsed == ParseHttpRequestHead(head, config)
    <3>1. taken' = "head" /\ UNCHANGED config
      BY <2>6 DEF HandleHead
    <3>2. CASE RespondError(parsed.request, parsed.status)
      BY <3>1, <3>2, ErrorKeepsFrames
    <3>3. CASE parsed.status = "Ok" /\ request' = parsed.request /\ stage' = "body"
      <4>1. BodyIsAllowed(parsed.request, config)
        BY <3>3, OkHeadIsAllowed DEF FramedInv
      <4> HIDE DEF parsed
      <4> QED  BY <3>1, <3>3, <4>1 DEF FramedInv, RequestsAreFramed, BodyIsAllowed
    <3> QED  BY <2>6, <3>2, <3>3 DEF HandleHead
  <2>7. ASSUME NEW already \in 0 .. request.length, HandleRequest(already)  PROVE FramedInv'
    <3> DEFINE size == BodySize(already)
               status == AssignRequestBody(request, size, config)
               answer == Handle(request, documentRoot, config.index, dirs)
    <3>1. /\ BodyIsAllowed(request, config) /\ UNCHANGED config
          /\ taken' = IF size = request.length THEN "all" ELSE "part"
      BY <2>7 DEF HandleRequest, FramedInv
    <3>2. status = "Ok" <=> size = request.length
      <4> HIDE DEF size
      <4> QED  BY <3>1, FullBodyIsOk DEF FramedInv
    <3>3. CASE status # "Ok" /\ RespondError(request, status)
      BY <3>1, <3>2, <3>3, ErrorKeepsFrames
    <3>4. CASE status = "Ok" /\ Respond(request, ErrorAnswer(500), TRUE)
      <4>1. ErrorAnswer(500).status \notin {400, 413, 415, 431}
        BY DEF ErrorAnswer, Answer
      <4> HIDE DEF size, status
      <4> QED  BY <3>1, <3>2, <3>4, <4>1 DEF Respond, FramedInv, RequestsAreFramed
    <3>5. CASE status = "Ok" /\ Respond(request, answer, ~request.keepAlive)
      <4>1. answer.status \notin {400, 413, 415, 431}
        BY RouterRefusesNoBody DEF Refusals
      <4> HIDE DEF size, status, answer
      <4> QED  BY <3>1, <3>2, <3>5, <4>1 DEF Respond, FramedInv, RequestsAreFramed
    <3> QED  BY <2>7, <3>3, <3>4, <3>5 DEF HandleRequest
  <2>8. CASE Written
    BY <2>8 DEF FramedInv, RequestsAreFramed, Written
  <2>9. CASE UNCHANGED vars
    BY <2>9 DEF FramedInv, RequestsAreFramed, vars
  <2> QED  BY <2>1, <2>2, <2>3, <2>4, <2>5, <2>6, <2>7, <2>8, <2>9 DEF Next
<1>3. FramedInv => RequestsAreFramed
  BY DEF FramedInv
<1> QED  BY <1>1, <1>2, <1>3, PTL DEF Spec
=============================================================================
