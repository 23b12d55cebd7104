--------------------------- MODULE OpenFiles_proofs --------------------------
(***************************************************************************)
(* Proofs about OpenFiles, for any number of FCBs, files, rings and any    *)
(* length of the forks.                                                    *)
(***************************************************************************)
EXTENDS OpenFiles, FiniteSetTheorems, NaturalsInduction, WellFoundedInduction, TLAPS

N == Cardinality(Refs)

LEMMA SizeOfTable == N \in Nat
  BY OpenFilesAssumption, FS_CardinalityType DEF N

LEMMA LeastNumber ==
  ASSUME NEW S \in SUBSET Nat, S # {}
  PROVE  \E m \in S : \A k \in S : m <= k
<1>1. PICK m \in S : \A k \in S : ~ (<<k, m>> \in OpToRel(<, Nat))
  BY NatLessThanWellFounded, WFMin
<1>2. \A k \in S : ~ (k < m)
  BY <1>1 DEF OpToRel
<1> QED
  BY <1>2

-----------------------------------------------------------------------------
(***************************************************************************)
(* Paths.                                                                  *)
(***************************************************************************)
\* The values that the path from r takes in the table t up to its m-th step.
IsPath(t, r, m, q) == q = [n \in 0 .. m |-> IF n = 0 THEN r ELSE t[q[n - 1]].right]

LEMMA PathExists ==
  ASSUME NEW t, NEW r, NEW m \in Nat
  PROVE  \E q : IsPath(t, r, m, q)
<1> DEFINE Bad == {k \in Nat : ~ \E q : IsPath(t, r, k, q)}
<1>1. SUFFICES ASSUME Bad # {} PROVE FALSE
  OBVIOUS
<1>2. PICK k \in Bad : \A j \in Bad : k <= j
  BY <1>1, LeastNumber
<1>3. CASE k = 0
  <2>1. IsPath(t, r, 0, [n \in 0 .. 0 |-> r])
    BY DEF IsPath
  <2> QED
    BY <1>2, <1>3, <2>1
<1>4. CASE k # 0
  <2>1. k - 1 \in Nat /\ k - 1 \notin Bad
    BY <1>2, <1>4
  <2>2. PICK q : IsPath(t, r, k - 1, q)
    BY <2>1
  <2> DEFINE longer == [n \in 0 .. k |-> IF n < k THEN q[n] ELSE t[q[k - 1]].right]
  <2>3. \A n \in 0 .. k - 1 : q[n] = IF n = 0 THEN r ELSE t[q[n - 1]].right
    BY <2>2 DEF IsPath
  <2>4. \A n \in 0 .. k : longer[n] = IF n = 0 THEN r ELSE t[longer[n - 1]].right
    BY <2>1, <2>3, <1>4
  <2>5. IsPath(t, r, k, longer)
    BY <2>4 DEF IsPath
  <2> QED
    BY <1>2, <2>5
<1> QED
  BY <1>3, <1>4

LEMMA PathFacts ==
  ASSUME NEW t, NEW r
  PROVE  /\ Path(t, r)[0] = r
         /\ \A n \in 1 .. N : Path(t, r)[n] = t[Path(t, r)[n - 1]].right
<1>1. PICK q : IsPath(t, r, N, q)
  BY SizeOfTable, PathExists
<1>2. Path(t, r) = CHOOSE p : p = [n \in 0 .. N |-> IF n = 0 THEN r ELSE t[p[n - 1]].right]
  BY DEF Path, N
<1>3. Path(t, r) = [n \in 0 .. N |-> IF n = 0 THEN r ELSE t[Path(t, r)[n - 1]].right]
  BY <1>1, <1>2 DEF IsPath
<1> HIDE DEF N
<1>4. \A n \in 0 .. N : Path(t, r)[n] = IF n = 0 THEN r ELSE t[Path(t, r)[n - 1]].right
  BY <1>3
<1> QED
  BY <1>4, SizeOfTable

-----------------------------------------------------------------------------
(***************************************************************************)
(* Rings.                                                                  *)
(***************************************************************************)
\* The FCBs of S form one ring of the table t, and h is one of them: going right
\* and going left are each other's inverse, and no part of S is closed to the
\* right but the whole.
Ring(t, h, S) ==
  /\ h \in S /\ S \in SUBSET Refs
  /\ \A s \in S : /\ t[s].right \in S /\ t[s].left \in S
                  /\ t[t[s].right].left = s /\ t[t[s].left].right = s
  /\ \A X \in SUBSET S : X # {} /\ (\A x \in X : t[x].right \in X) => X = S

\* A path from h stays in the ring, comes back to h, and has met all of the ring
\* by then.
LEMMA PathReturns ==
  ASSUME NEW t, NEW h, NEW S, Ring(t, h, S)
  PROVE  /\ \A n \in 0 .. N : Path(t, h)[n] \in S
         /\ \E j \in 1 .. N : /\ Path(t, h)[j] = h
                              /\ \A m \in 1 .. j - 1 : Path(t, h)[m] # h
                              /\ \A s \in S : \E m \in 0 .. j - 1 : Path(t, h)[m] = s
<1> DEFINE p == Path(t, h)
<1>1. p[0] = h /\ \A n \in 1 .. N : p[n] = t[p[n - 1]].right
  BY PathFacts
<1>2. N \in Nat
  BY SizeOfTable
<1> HIDE DEF p
<1>3. \A n \in 0 .. N : p[n] \in S
  <2> DEFINE Bad == {n \in 0 .. N : p[n] \notin S}
  <2>1. SUFFICES ASSUME Bad # {} PROVE FALSE
    OBVIOUS
  <2>2. PICK n \in Bad : \A k \in Bad : n <= k
    <3>1. Bad \in SUBSET Nat
      BY <1>2
    <3> HIDE DEF Bad
    <3> QED
      BY <2>1, <3>1, LeastNumber
  <2>3. n # 0 /\ n \in 1 .. N
    BY <1>1, <1>2, <2>2 DEF Ring
  <2>4. p[n - 1] \in S
    BY <1>2, <2>2, <2>3
  <2> QED
    BY <1>1, <2>2, <2>3, <2>4 DEF Ring
<1>4. \E j \in 1 .. N : p[j] = h
  <2>1. SUFFICES ASSUME \A j \in 1 .. N : p[j] # h PROVE FALSE
    OBVIOUS
  <2> DEFINE Twice == {i \in 0 .. N : \E j \in i + 1 .. N : p[i] = p[j]}
             f == [i \in 0 .. N |-> p[i]]
  <2>2. Twice # {}
    <3>1. f \in [0 .. N -> Refs]
      BY <1>3 DEF Ring
    <3>2. IsFiniteSet(Refs) /\ Cardinality(Refs) = N
      BY OpenFilesAssumption DEF N
    <3>3. IsFiniteSet(0 .. N) /\ Cardinality(0 .. N) = N + 1
      BY <1>2, FS_Interval
    <3>4. Cardinality(Refs) < Cardinality(0 .. N)
      BY <1>2, <3>2, <3>3
    <3> HIDE DEF f
    <3>5. PICK x, y \in 0 .. N : x # y /\ f[x] = f[y]
      BY <3>1, <3>2, <3>3, <3>4, FS_PigeonHole
    <3>6. p[x] = p[y]
      BY <3>5 DEF f
    <3>7. x \in Twice \/ y \in Twice
      BY <1>2, <3>5, <3>6
    <3> QED
      BY <3>7
  <2>3. PICK i \in Twice : \A k \in Twice : i <= k
    <3>1. Twice \in SUBSET Nat
      BY <1>2
    <3> HIDE DEF Twice
    <3> QED
      BY <2>2, <3>1, LeastNumber
  <2>4. PICK j \in i + 1 .. N : p[i] = p[j]
    BY <2>3
  <2>5. i # 0
    BY <1>1, <1>2, <2>1, <2>3, <2>4
  <2>6. i \in 1 .. N /\ j \in 1 .. N /\ i - 1 \in 0 .. N /\ j - 1 \in 0 .. N /\ j - 1 \in (i - 1) + 1 .. N
    BY <1>2, <2>3, <2>4, <2>5
  <2>7. t[p[i - 1]].right = t[p[j - 1]].right
    BY <1>1, <2>4, <2>6
  <2>8. p[i - 1] = p[j - 1]
    BY <1>3, <2>6, <2>7 DEF Ring
  <2>9. i - 1 \in Twice
    BY <2>6, <2>8
  <2> QED
    BY <1>2, <2>3, <2>9
<1>5. PICK j \in 1 .. N : p[j] = h /\ \A k \in 1 .. N : p[k] = h => j <= k
  <2> DEFINE Back == {k \in 1 .. N : p[k] = h}
  <2>1. Back # {} /\ Back \in SUBSET Nat
    BY <1>2, <1>4
  <2> QED
    BY <2>1, LeastNumber
<1>6. \A m \in 1 .. j - 1 : p[m] # h
  BY <1>2, <1>5
<1>7. \A s \in S : \E m \in 0 .. j - 1 : p[m] = s
  <2> DEFINE X == {p[m] : m \in 0 .. j - 1}
  <2>1. X \in SUBSET S
    BY <1>2, <1>3
  <2>2. X # {}
    <3>1. 0 \in 0 .. j - 1
      BY <1>2
    <3>2. p[0] \in X
      BY <3>1
    <3> HIDE DEF X
    <3> QED
      BY <3>2
  <2>3. ASSUME NEW x \in X PROVE t[x].right \in X
    <3>1. PICK m \in 0 .. j - 1 : x = p[m]
      OBVIOUS
    <3>2. m + 1 \in 1 .. N /\ (m + 1) - 1 = m
      BY <1>2
    <3>3. p[m + 1] = t[x].right
      BY <1>1, <3>1, <3>2
    <3>4. CASE m + 1 = j
      BY <1>1, <1>2, <1>5, <3>3, <3>4
    <3>5. CASE m + 1 # j
      BY <1>2, <3>3, <3>5
    <3> QED
      BY <3>4, <3>5
  <2>4. \A x \in X : t[x].right \in X
    BY <2>3
  <2> HIDE DEF X
  <2>5. X = S
    BY <2>1, <2>2, <2>4 DEF Ring
  <2> QED
    BY <2>5 DEF X
<1> QED
  BY <1>3, <1>5, <1>6, <1>7 DEF p

-----------------------------------------------------------------------------
(***************************************************************************)
(* The FCBs of a hash.                                                     *)
(***************************************************************************)
Linked(t, k)  == {r \in Refs : t[r].fork # NoFork /\ Key(t[r].fork) = k}
HaveOpen(t, f) == {r \in Refs : t[r].fork = f}

\* In the table t the open FCBs of each hash form a ring which its list starts in.
Rings(t, l) ==
  \A k \in Keys : IF Linked(t, k) = {} THEN l[k] = NoRef ELSE Ring(t, l[k], Linked(t, k))

LEMMA ForkFacts ==
  /\ NoFork \notin Forks
  /\ \A f \in Forks : Key(f) \in Keys
<1>1. NoFork \notin Forks
  BY OpenFilesAssumption DEF NoFork, Forks
<1>2. ASSUME NEW f \in Forks PROVE Key(f) \in Keys
  <2>1. f.cnid \in Nat \ {0} /\ Lists \in Nat \ {0}
    BY OpenFilesAssumption DEF Forks
  <2> DEFINE hash == IF ~f.res THEN f.cnid ELSE IF f.cnid % 2 = 0 THEN f.cnid + 1 ELSE f.cnid - 1
  <2>2. hash \in Nat
    BY <2>1
  <2>3. Key(f) = hash % Lists
    BY DEF Key
  <2> HIDE DEF hash
  <2> QED
    BY <2>1, <2>2, <2>3 DEF Keys
<1> QED
  BY <1>1, <1>2

\* The loops over the FCBs of a fork find all of them and no others.
LEMMA SiblingsFound ==
  ASSUME NEW t, NEW l, Rings(t, l), NEW f \in Forks
  PROVE  /\ Siblings(t, l, f) = HaveOpen(t, f)
         /\ HaveOpen(t, f) = {} => UnivFirst(t, l, f) = NoRef
         /\ HaveOpen(t, f) # {} => UnivFirst(t, l, f) \in HaveOpen(t, f)
<1> DEFINE k == Key(f)
           p == Path(t, l[k])
<1>1. k \in Keys /\ f # NoFork /\ N \in Nat
  BY ForkFacts, SizeOfTable
<1>2. HaveOpen(t, f) \in SUBSET Linked(t, k)
  BY <1>1 DEF HaveOpen, Linked
<1>3. Hits(t, l, f) = {n \in 0 .. N - 1 : t[p[n]].fork = f /\ \A m \in 1 .. n : p[m] # p[0]}
  BY DEF Hits, N
<1> HIDE DEF k, p
<1>4. CASE Linked(t, k) = {}
  <2>1. l[k] = NoRef
    BY <1>1, <1>4 DEF Rings
  <2> QED
    BY <1>2, <1>4, <2>1 DEF Siblings, UnivFirst, k
<1>5. CASE Linked(t, k) # {}
  <2>1. Ring(t, l[k], Linked(t, k))
    BY <1>1, <1>5 DEF Rings
  <2>2. l[k] # NoRef
    BY <2>1, OpenFilesAssumption DEF Ring
  <2>3. \A n \in 0 .. N : p[n] \in Linked(t, k)
    BY <2>1, PathReturns DEF p
  <2>4. p[0] = l[k]
    BY PathFacts DEF p
  <2>5. PICK j \in 1 .. N : /\ \A m \in 1 .. j - 1 : p[m] # l[k]
                            /\ \A s \in Linked(t, k) : \E m \in 0 .. j - 1 : p[m] = s
    BY <2>1, PathReturns DEF p
  <2>6. ASSUME NEW n \in Hits(t, l, f) PROVE p[n] \in HaveOpen(t, f)
    BY <1>1, <1>3, <2>3 DEF HaveOpen, Linked
  <2>7. ASSUME NEW s \in HaveOpen(t, f) PROVE \E n \in Hits(t, l, f) : p[n] = s
    <3>1. PICK m \in 0 .. j - 1 : p[m] = s
      BY <1>2, <2>5
    <3>2. m \in 0 .. N - 1 /\ \A i \in 1 .. m : p[i] # p[0]
      BY <1>1, <2>4, <2>5, <3>1
    <3>3. t[p[m]].fork = f
      BY <3>1 DEF HaveOpen
    <3> QED
      BY <1>3, <3>1, <3>2, <3>3
  <2>8. Siblings(t, l, f) = {p[n] : n \in Hits(t, l, f)}
    BY <2>2 DEF Siblings, k, p
  <2>9. Siblings(t, l, f) = HaveOpen(t, f)
    BY <2>6, <2>7, <2>8
  <2>10. HaveOpen(t, f) = {} => UnivFirst(t, l, f) = NoRef
    BY <2>6 DEF UnivFirst
  <2>11. ASSUME HaveOpen(t, f) # {} PROVE UnivFirst(t, l, f) \in HaveOpen(t, f)
    <3>1. Hits(t, l, f) # {} /\ Hits(t, l, f) \in SUBSET Nat
      BY <1>1, <1>3, <2>7, <2>11
    <3>2. Earliest(Hits(t, l, f)) \in Hits(t, l, f)
      BY <3>1, LeastNumber DEF Earliest
    <3>3. UnivFirst(t, l, f) = p[Earliest(Hits(t, l, f))]
      BY <2>2, <3>1 DEF UnivFirst, k, p
    <3> QED
      BY <2>6, <3>2, <3>3
  <2> QED
    BY <2>9, <2>10, <2>11
<1> QED
  BY <1>4, <1>5

\* Rings do not depend on anything else in the FCBs.
LEMMA RingsSame ==
  ASSUME NEW t, NEW u, NEW l, Rings(t, l),
         \A s \in Refs : /\ u[s].fork = t[s].fork
                         /\ u[s].left = t[s].left /\ u[s].right = t[s].right
  PROVE  Rings(u, l)
<1>1. \A k \in Keys : Linked(u, k) = Linked(t, k)
  BY DEF Linked
<1>2. ASSUME NEW h, NEW S, Ring(t, h, S) PROVE Ring(u, h, S)
  BY <1>2 DEF Ring
<1> QED
  BY <1>1, <1>2 DEF Rings

\* Nor do those of a hash depend on the FCBs of another.
LEMMA RingApart ==
  ASSUME NEW t, NEW u, NEW h, NEW S, Ring(t, h, S), \A s \in S : u[s] = t[s]
  PROVE  Ring(u, h, S)
  BY DEF Ring

\* What UnivEnlistFile does to the FCBs.
LEMMA EnlistedFacts ==
  ASSUME NEW t \in [Refs -> FCBs], NEW r \in Refs, NEW h \in Refs \ {r},
         t[h].right \in Refs \ {r}
  PROVE  LET u == Enlisted(t, h, r)
         IN  /\ u \in [Refs -> FCBs]
             /\ \A s \in Refs : /\ u[s].fork = t[s].fork /\ u[s].write = t[s].write
                                /\ u[s].shared = t[s].shared /\ u[s].dirty = t[s].dirty
                                /\ u[s].eof = t[s].eof
             /\ \A s \in Refs \ {r, h, t[h].right} : u[s] = t[s]
             /\ u[r].right = t[h].right /\ u[h].right = r
             /\ u[r].left = t[t[h].right].left /\ u[t[h].right].left = r
             /\ \A s \in Refs \ {r, h} : u[s].right = t[s].right
             /\ \A s \in Refs \ {r, t[h].right} : u[s].left = t[s].left
<1> DEFINE g == t[h].right
           first == [t EXCEPT ![r].right = t[h].right, ![r].left = t[t[h].right].left]
           second == [first EXCEPT ![h].right = r]
           u == [second EXCEPT ![g].left = r]
<1>1. Enlisted(t, h, r) = u
  BY OpenFilesAssumption DEF Enlisted
<1>2. g \in Refs /\ t[g].left \in Refs \cup {NoRef} /\ g # r
  BY DEF FCBs
<1>3. /\ first \in [Refs -> FCBs] /\ first[r] = [t[r] EXCEPT !.right = g, !.left = t[g].left]
      /\ \A s \in Refs \ {r} : first[s] = t[s]
  BY <1>2 DEF FCBs
<1> HIDE DEF first
<1>4. /\ second \in [Refs -> FCBs] /\ second[h] = [first[h] EXCEPT !.right = r]
      /\ \A s \in Refs \ {h} : second[s] = first[s]
  BY <1>3 DEF FCBs
<1> HIDE DEF second
<1>5. /\ u \in [Refs -> FCBs] /\ u[g] = [second[g] EXCEPT !.left = r]
      /\ \A s \in Refs \ {g} : u[s] = second[s]
  BY <1>2, <1>4 DEF FCBs
<1> HIDE DEF u
<1>6. /\ t[r] \in FCBs /\ t[h] \in FCBs /\ t[g] \in FCBs
      /\ first[r] \in FCBs /\ first[h] \in FCBs /\ second[g] \in FCBs
  BY <1>2, <1>3, <1>4
<1> HIDE DEF g
<1>7. /\ first[r].right = g /\ first[r].left = t[g].left
      /\ first[r].fork = t[r].fork /\ first[r].write = t[r].write /\ first[r].shared = t[r].shared
      /\ first[r].dirty = t[r].dirty /\ first[r].eof = t[r].eof
  BY <1>3, <1>6 DEF FCBs
<1>8. /\ second[h].right = r /\ second[h].left = first[h].left
      /\ second[h].fork = first[h].fork /\ second[h].write = first[h].write
      /\ second[h].shared = first[h].shared
      /\ second[h].dirty = first[h].dirty /\ second[h].eof = first[h].eof
  BY <1>4, <1>6 DEF FCBs
<1>9. /\ u[g].left = r /\ u[g].right = second[g].right
      /\ u[g].fork = second[g].fork /\ u[g].write = second[g].write
      /\ u[g].shared = second[g].shared
      /\ u[g].dirty = second[g].dirty /\ u[g].eof = second[g].eof
  BY <1>5, <1>6 DEF FCBs
<1>10. /\ \A s \in Refs \ {r} : first[s] = t[s]
       /\ \A s \in Refs \ {h} : second[s] = first[s]
       /\ \A s \in Refs \ {g} : u[s] = second[s]
  BY <1>3, <1>4, <1>5
<1>11. ASSUME NEW s \in Refs
       PROVE  /\ u[s].fork = t[s].fork /\ u[s].write = t[s].write
              /\ u[s].shared = t[s].shared /\ u[s].dirty = t[s].dirty
              /\ u[s].eof = t[s].eof
  <2>1. /\ first[s].fork = t[s].fork /\ first[s].write = t[s].write
        /\ first[s].shared = t[s].shared /\ first[s].dirty = t[s].dirty /\ first[s].eof = t[s].eof
    BY <1>7, <1>10
  <2>2. /\ second[s].fork = first[s].fork /\ second[s].write = first[s].write
        /\ second[s].shared = first[s].shared /\ second[s].dirty = first[s].dirty
        /\ second[s].eof = first[s].eof
    BY <1>8, <1>10
  <2>3. /\ u[s].fork = second[s].fork /\ u[s].write = second[s].write
        /\ u[s].shared = second[s].shared /\ u[s].dirty = second[s].dirty
        /\ u[s].eof = second[s].eof
    BY <1>9, <1>10
  <2> QED
    BY <2>1, <2>2, <2>3
<1>12. \A s \in Refs \ {r, h, g} : u[s] = t[s]
  BY <1>10
<1>13. /\ u[r].right = g /\ u[r].left = t[g].left
       /\ u[h].right = r /\ u[g].left = r
  BY <1>2, <1>7, <1>8, <1>9, <1>10
<1>14. /\ \A s \in Refs \ {r, h} : u[s].right = t[s].right
       /\ \A s \in Refs \ {r, g} : u[s].left = t[s].left
  BY <1>2, <1>8, <1>9, <1>10
<1> QED
  BY <1>1, <1>5, <1>11, <1>12, <1>13, <1>14 DEF g

\* UnivEnlistFile on a free FCB, which then is r, open on f: the ring of its hash
\* has one FCB more, and the others are as they were.
LEMMA EnlistKeeps ==
  ASSUME NEW t \in [Refs -> FCBs], NEW l \in [Keys -> Refs \cup {NoRef}], Rings(t, l),
         NEW r \in Refs, t[r].fork = NoFork, NEW f \in Forks,
         NEW t1 \in [Refs -> FCBs], t1[r].fork = f, \A s \in Refs \ {r} : t1[s] = t[s],
         NEW m \in [Keys -> Refs \cup {NoRef}],
         m[Key(f)] = (IF l[Key(f)] = NoRef THEN r ELSE l[Key(f)]),
         \A i \in Keys \ {Key(f)} : m[i] = l[i]
  PROVE  LET u == Enlisted(t1, l[Key(f)], r)
         IN  /\ u \in [Refs -> FCBs] /\ Rings(u, m)
             /\ \A s \in Refs : /\ u[s].fork = t1[s].fork /\ u[s].write = t1[s].write
                                /\ u[s].shared = t1[s].shared /\ u[s].dirty = t1[s].dirty
                                /\ u[s].eof = t1[s].eof
<1> DEFINE k == Key(f)
           h == l[k]
           S == Linked(t, k)
           u == Enlisted(t1, h, r)
<1>1. k \in Keys /\ f # NoFork /\ h \in Refs \cup {NoRef} /\ NoRef \notin Refs
  BY ForkFacts, OpenFilesAssumption
<1>3. m[k] = (IF h = NoRef THEN r ELSE h) /\ \A i \in Keys \ {k} : m[i] = l[i]
  OBVIOUS
<1>4. \A i \in Keys : r \notin Linked(t, i) /\ Linked(t, i) \in SUBSET Refs
  BY DEF Linked
<1> HIDE DEF k, h, u
<1>5. ASSUME u \in [Refs -> FCBs], u[r].fork = f, \A s \in Refs \ {r} : u[s].fork = t[s].fork
      PROVE  Linked(u, k) = S \cup {r} /\ \A i \in Keys \ {k} : Linked(u, i) = Linked(t, i)
  BY <1>1, <1>4, <1>5 DEF Linked, k
<1>6. CASE S = {}
  <2>1. h = NoRef
    BY <1>1, <1>6 DEF Rings, h
  <2>2. u = [t1 EXCEPT ![r].left = r, ![r].right = r]
    BY <2>1 DEF Enlisted, u
  <2>3. t1[r] \in FCBs
    OBVIOUS
  <2>4. u[r] = [[t1[r] EXCEPT !.left = r] EXCEPT !.right = r] /\ \A s \in Refs \ {r} : u[s] = t1[s]
    BY <2>2
  <2>5. /\ u[r].left = r /\ u[r].right = r
        /\ u[r].fork = t1[r].fork /\ u[r].write = t1[r].write /\ u[r].shared = t1[r].shared
        /\ u[r].dirty = t1[r].dirty /\ u[r].eof = t1[r].eof
    BY <2>3, <2>4 DEF FCBs
  <2>6. u \in [Refs -> FCBs]
    <3>1. [[t1[r] EXCEPT !.left = r] EXCEPT !.right = r] \in FCBs
      BY <2>3 DEF FCBs
    <3>2. DOMAIN u = Refs /\ u = [s \in Refs |-> u[s]]
      BY <2>2
    <3> QED
      BY <2>4, <3>1, <3>2
  <2>7. Linked(u, k) = {r} /\ \A i \in Keys \ {k} : Linked(u, i) = Linked(t, i)
    BY <1>5, <1>6, <2>4, <2>5, <2>6
  <2>8. Ring(u, r, {r})
    BY <2>5 DEF Ring
  <2>9. ASSUME NEW i \in Keys \ {k}, Linked(t, i) # {} PROVE Ring(u, l[i], Linked(t, i))
    <3>1. \A s \in Linked(t, i) : u[s] = t[s]
      BY <1>4, <2>4
    <3>2. Ring(t, l[i], Linked(t, i))
      BY <2>9 DEF Rings
    <3> QED
      BY <3>1, <3>2, RingApart
  <2>10. Rings(u, m)
    BY <1>3, <2>1, <2>7, <2>8, <2>9 DEF Rings
  <2> QED
    BY <2>4, <2>5, <2>6, <2>10 DEF k, h, u
<1>7. CASE S # {}
  <2>1. Ring(t, h, S)
    BY <1>1, <1>7 DEF Rings, h
  <2> DEFINE g == t1[h].right
  <2>2. h \in S /\ h \in Refs \ {r} /\ g = t[h].right /\ g \in S /\ g \in Refs \ {r}
        /\ t[g].left = h /\ t1[g].left = h
    BY <1>1, <1>4, <2>1 DEF Ring
  <2> HIDE DEF g
  <2>3. /\ u \in [Refs -> FCBs]
        /\ \A s \in Refs : /\ u[s].fork = t1[s].fork /\ u[s].write = t1[s].write
                           /\ u[s].shared = t1[s].shared /\ u[s].dirty = t1[s].dirty
                           /\ u[s].eof = t1[s].eof
        /\ \A s \in Refs \ {r, h, g} : u[s] = t1[s]
        /\ u[r].right = g /\ u[h].right = r /\ u[r].left = h /\ u[g].left = r
        /\ \A s \in Refs \ {r, h} : u[s].right = t1[s].right
        /\ \A s \in Refs \ {r, g} : u[s].left = t1[s].left
    BY <2>2, EnlistedFacts DEF u, g
  <2>5. Linked(u, k) = S \cup {r} /\ \A i \in Keys \ {k} : Linked(u, i) = Linked(t, i)
    BY <1>5, <2>3
  <2>6. \A s \in S : t[s].right \in S /\ t[s].left \in S
                     /\ t[t[s].right].left = s /\ t[t[s].left].right = s
    BY <2>1 DEF Ring
  <2>7. S \in SUBSET Refs /\ r \notin S
    BY <1>1, <1>4
  <2>8. /\ \A s \in S \ {h} : u[s].right = t[s].right
        /\ \A s \in S \ {g} : u[s].left = t[s].left
    BY <2>3, <2>7
  <2> HIDE DEF S
  <2>9. ASSUME NEW s \in S \cup {r}
        PROVE  /\ u[s].right \in S \cup {r} /\ u[s].left \in S \cup {r}
               /\ u[u[s].right].left = s /\ u[u[s].left].right = s
    <3>1. CASE s = r
      BY <2>2, <2>3, <3>1
    <3>2. CASE s \in S
      <4>1. u[s].right \in S \cup {r} /\ u[u[s].right].left = s
        BY <2>2, <2>3, <2>6, <2>8, <3>2
      <4>2. u[s].left \in S \cup {r} /\ u[u[s].left].right = s
        BY <2>2, <2>3, <2>6, <2>8, <3>2
      <4> QED
        BY <4>1, <4>2
    <3> QED
      BY <3>1, <3>2
  <2>10. ASSUME NEW X \in SUBSET (S \cup {r}), X # {}, \A x \in X : u[x].right \in X
         PROVE  X = S \cup {r}
    <3> DEFINE Y == X \ {r}
    <3>1. Y \in SUBSET S
      OBVIOUS
    <3>2. Y # {}
      BY <2>2, <2>3, <2>10
    <3>3. ASSUME NEW y \in Y PROVE t[y].right \in Y
      <4>1. CASE y = h
        BY <2>2, <2>3, <2>10, <4>1
      <4>2. CASE y # h
        BY <2>6, <2>7, <2>8, <2>10, <4>2
      <4> QED
        BY <4>1, <4>2
    <3>4. Y = S
      BY <2>1, <3>1, <3>2, <3>3 DEF Ring
    <3>5. r \in X
      BY <2>2, <2>3, <2>10, <3>4
    <3> QED
      BY <3>4, <3>5
  <2>11. Ring(u, h, S \cup {r})
    BY <2>2, <2>7, <2>9, <2>10 DEF Ring
  <2>12. ASSUME NEW i \in Keys \ {k}, Linked(t, i) # {} PROVE Ring(u, l[i], Linked(t, i))
    <3>1. S \cap Linked(t, i) = {}
      BY DEF Linked, S
    <3>2. \A s \in Linked(t, i) : u[s] = t[s]
      BY <1>4, <2>2, <2>3, <3>1
    <3>3. Ring(t, l[i], Linked(t, i))
      BY <2>12 DEF Rings
    <3> QED
      BY <3>2, <3>3, RingApart
  <2>13. Rings(u, m)
    BY <1>1, <1>3, <2>2, <2>5, <2>11, <2>12 DEF Rings
  <2> QED
    BY <2>3, <2>13 DEF k, h, u
<1> QED
  BY <1>6, <1>7

\* What UnivDelistFile does to the FCBs of r's ring.
LEMMA DelistedFacts ==
  ASSUME NEW t \in [Refs -> FCBs], NEW r \in Refs, t[r].left \in Refs, t[r].right \in Refs
  PROVE  LET u == Delisted(t, r)
         IN  /\ u \in [Refs -> FCBs]
             /\ \A s \in Refs : /\ u[s].fork = t[s].fork /\ u[s].write = t[s].write
                                /\ u[s].shared = t[s].shared /\ u[s].dirty = t[s].dirty
                                /\ u[s].eof = t[s].eof
             /\ \A s \in Refs \ {t[r].left, t[r].right} : u[s] = t[s]
             /\ u[t[r].left].right = t[r].right /\ u[t[r].right].left = t[r].left
             /\ \A s \in Refs \ {t[r].left} : u[s].right = t[s].right
             /\ \A s \in Refs \ {t[r].right} : u[s].left = t[s].left
<1> DEFINE a == t[r].left
           b == t[r].right
           first == [t EXCEPT ![a].right = b]
           u == [first EXCEPT ![b].left = a]
<1>1. Delisted(t, r) = u
  BY DEF Delisted
<1>2. a \in Refs /\ b \in Refs /\ t[a] \in FCBs
  OBVIOUS
<1> HIDE DEF a, b
<1>3. /\ first \in [Refs -> FCBs] /\ first[a] = [t[a] EXCEPT !.right = b]
      /\ \A s \in Refs \ {a} : first[s] = t[s]
  BY <1>2 DEF FCBs
<1> HIDE DEF first
<1>4. /\ u \in [Refs -> FCBs] /\ u[b] = [first[b] EXCEPT !.left = a]
      /\ \A s \in Refs \ {b} : u[s] = first[s]
  BY <1>2, <1>3 DEF FCBs
<1> HIDE DEF u
<1>5. first[b] \in FCBs
  BY <1>2, <1>3
<1>6. /\ first[a].right = b /\ first[a].left = t[a].left
      /\ first[a].fork = t[a].fork /\ first[a].write = t[a].write /\ first[a].shared = t[a].shared
      /\ first[a].dirty = t[a].dirty /\ first[a].eof = t[a].eof
  BY <1>2, <1>3 DEF FCBs
<1>7. /\ u[b].left = a /\ u[b].right = first[b].right
      /\ u[b].fork = first[b].fork /\ u[b].write = first[b].write /\ u[b].shared = first[b].shared
      /\ u[b].dirty = first[b].dirty /\ u[b].eof = first[b].eof
  BY <1>4, <1>5 DEF FCBs
<1>8. ASSUME NEW s \in Refs
      PROVE  /\ u[s].fork = t[s].fork /\ u[s].write = t[s].write
             /\ u[s].shared = t[s].shared /\ u[s].dirty = t[s].dirty /\ u[s].eof = t[s].eof
  <2>1. /\ first[s].fork = t[s].fork /\ first[s].write = t[s].write
        /\ first[s].shared = t[s].shared /\ first[s].dirty = t[s].dirty /\ first[s].eof = t[s].eof
    BY <1>3, <1>6
  <2>2. /\ u[s].fork = first[s].fork /\ u[s].write = first[s].write
        /\ u[s].shared = first[s].shared /\ u[s].dirty = first[s].dirty /\ u[s].eof = first[s].eof
    BY <1>4, <1>7
  <2> QED
    BY <2>1, <2>2
<1>9. \A s \in Refs \ {a, b} : u[s] = t[s]
  BY <1>3, <1>4
<1>10. /\ u[a].right = b /\ u[b].left = a
       /\ \A s \in Refs \ {a} : u[s].right = t[s].right
       /\ \A s \in Refs \ {b} : u[s].left = t[s].left
  <2>1. \A s \in Refs : u[s].right = first[s].right
    BY <1>4, <1>7
  <2>2. \A s \in Refs : first[s].left = t[s].left
    BY <1>3, <1>6
  <2>3. \A s \in Refs \ {b} : u[s].left = first[s].left
    BY <1>4
  <2>4. \A s \in Refs \ {a} : first[s].right = t[s].right
    BY <1>3
  <2>5. u[a].right = b
    BY <1>2, <1>6, <2>1
  <2>6. \A s \in Refs \ {a} : u[s].right = t[s].right
    BY <2>1, <2>4
  <2>7. \A s \in Refs \ {b} : u[s].left = t[s].left
    BY <2>2, <2>3
  <2> QED
    BY <1>7, <2>5, <2>6, <2>7
<1> QED
  BY <1>1, <1>4, <1>8, <1>9, <1>10 DEF a, b

\* UnivDelistFile, and the FCB freed: u is the table after both.
LEMMA DelistKeeps ==
  ASSUME fcb \in [Refs -> FCBs], lists \in [Keys -> Refs \cup {NoRef}], Rings(fcb, lists),
         NEW r \in Refs, fcb[r].fork \in Forks, NEW u,
         \A s \in Refs : u[s].left = Delisted(fcb, r)[s].left /\ u[s].right = Delisted(fcb, r)[s].right,
         u[r].fork = NoFork, \A s \in Refs \ {r} : u[s].fork = fcb[s].fork
  PROVE  /\ Rings(u, ListWithout(r)) /\ ListWithout(r) \in [Keys -> Refs \cup {NoRef}]
         /\ fcb[r].left \in Refs /\ fcb[r].right \in Refs
<1> DEFINE k == Key(fcb[r].fork)
           h == lists[k]
           S == Linked(fcb, k)
           a == fcb[r].left
           b == fcb[r].right
           m == ListWithout(r)
<1>1. k \in Keys /\ fcb[r].fork # NoFork /\ r \in S /\ NoRef \notin Refs /\ S \in SUBSET Refs
  BY ForkFacts, OpenFilesAssumption DEF Linked
<1>2. Ring(fcb, h, S)
  BY <1>1 DEF Rings
<1>3. \A s \in S : /\ fcb[s].right \in S /\ fcb[s].left \in S
                   /\ fcb[fcb[s].right].left = s /\ fcb[fcb[s].left].right = s
  BY <1>2 DEF Ring
<1>4. a \in S /\ b \in S /\ fcb[b].left = r /\ fcb[a].right = r /\ h \in S
  BY <1>1, <1>2, <1>3 DEF Ring
<1>5. /\ \A s \in Refs \ {a} : u[s].right = fcb[s].right
      /\ \A s \in Refs \ {b} : u[s].left = fcb[s].left
      /\ u[a].right = b /\ u[b].left = a
  BY <1>1, <1>4, DelistedFacts
<1>6. Linked(u, k) = S \ {r} /\ \A i \in Keys \ {k} : Linked(u, i) = Linked(fcb, i)
  <2>1. \A i \in Keys : Linked(u, i) = Linked(fcb, i) \ {r}
    BY DEF Linked
  <2>2. \A i \in Keys \ {k} : r \notin Linked(fcb, i)
    BY DEF Linked
  <2>3. Linked(u, k) = S \ {r}
    BY <1>1, <2>1
  <2>4. ASSUME NEW i \in Keys \ {k} PROVE Linked(u, i) = Linked(fcb, i)
    <3>1. Linked(u, i) = Linked(fcb, i) \ {r} /\ r \notin Linked(fcb, i)
      BY <2>1, <2>2
    <3> QED
      BY <3>1
  <2> QED
    BY <2>3, <2>4
<1>7. m = IF h # r THEN lists ELSE [lists EXCEPT ![k] = IF a = r THEN NoRef ELSE a]
  BY DEF ListWithout
<1>8. /\ m[k] = (IF h # r THEN h ELSE IF a = r THEN NoRef ELSE a)
      /\ m \in [Keys -> Refs \cup {NoRef}] /\ \A i \in Keys \ {k} : m[i] = lists[i]
  BY <1>1, <1>4, <1>7
<1> HIDE DEF k, h, S, a, b, m
<1>9. ASSUME a = r PROVE S = {r}
  <2>1. {r} \in SUBSET S /\ {r} # {} /\ \A x \in {r} : fcb[x].right \in {r}
    BY <1>1, <1>4, <1>9
  <2> QED
    BY <1>2, <2>1 DEF Ring
<1>10. ASSUME a = r PROVE m[k] = NoRef /\ Linked(u, k) = {}
  BY <1>4, <1>6, <1>8, <1>9, <1>10
<1>11. ASSUME a # r PROVE m[k] \in S \ {r} /\ b # r
  BY <1>1, <1>4, <1>8, <1>11 DEF a, b
<1>12. ASSUME a # r PROVE Ring(u, m[k], S \ {r})
  <2>1. ASSUME NEW s \in S \ {r}
        PROVE  /\ u[s].right \in S \ {r} /\ u[s].left \in S \ {r}
               /\ u[u[s].right].left = s /\ u[u[s].left].right = s
    <3>1. u[s].right \in S \ {r} /\ u[u[s].right].left = s
      BY <1>1, <1>3, <1>4, <1>5, <1>11, <1>12
    <3>2. u[s].left \in S \ {r} /\ u[u[s].left].right = s
      BY <1>1, <1>3, <1>4, <1>5, <1>11, <1>12
    <3> QED
      BY <3>1, <3>2
  <2>2. ASSUME NEW X \in SUBSET (S \ {r}), X # {}, \A x \in X : u[x].right \in X
        PROVE  X = S \ {r}
    <3>1. CASE a \in X
      <4> DEFINE Y == X \cup {r}
      <4>1. Y \in SUBSET S /\ Y # {}
        BY <1>1
      <4>2. ASSUME NEW y \in Y PROVE fcb[y].right \in Y
        <5>1. CASE y = r
          BY <1>5, <2>2, <3>1, <5>1 DEF b
        <5>2. CASE y = a
          BY <1>4, <5>2
        <5>3. CASE y # r /\ y # a
          BY <1>1, <1>5, <2>2, <5>3
        <5> QED
          BY <5>1, <5>2, <5>3
      <4>3. Y = S
        BY <1>2, <4>1, <4>2 DEF Ring
      <4> QED
        BY <4>3
    <3>2. CASE a \notin X
      <4>1. \A x \in X : fcb[x].right \in X
        BY <1>1, <1>5, <2>2, <3>2
      <4>2. X = S
        BY <1>2, <2>2, <4>1 DEF Ring
      <4> QED
        BY <1>1, <4>2
    <3> QED
      BY <3>1, <3>2
  <2> QED
    BY <1>1, <1>11, <1>12, <2>1, <2>2 DEF Ring
<1>13. ASSUME NEW i \in Keys \ {k}, Linked(fcb, i) # {} PROVE Ring(u, lists[i], Linked(fcb, i))
  <2>1. S \cap Linked(fcb, i) = {}
    BY DEF Linked, S
  <2>2. \A s \in Linked(fcb, i) : u[s].left = fcb[s].left /\ u[s].right = fcb[s].right
    BY <1>4, <1>5, <2>1 DEF Linked
  <2>3. Ring(fcb, lists[i], Linked(fcb, i))
    BY <1>13 DEF Rings
  <2> QED
    BY <2>2, <2>3 DEF Ring
<1>14. Rings(u, m)
  <2>1. IF Linked(u, k) = {} THEN m[k] = NoRef ELSE Ring(u, m[k], Linked(u, k))
    BY <1>6, <1>8, <1>9, <1>10, <1>11, <1>12
  <2>2. ASSUME NEW i \in Keys \ {k}
        PROVE  IF Linked(u, i) = {} THEN m[i] = NoRef ELSE Ring(u, m[i], Linked(u, i))
    BY <1>6, <1>8, <1>13, <2>2 DEF Rings
  <2> QED
    BY <2>1, <2>2 DEF Rings
<1> QED
  BY <1>1, <1>4, <1>8, <1>14 DEF a, b, m

-----------------------------------------------------------------------------
(***************************************************************************)
(* The loops over the FCBs of a fork.                                      *)
(***************************************************************************)
\* Where u differs from t in what the loops write only.
SameFCBs(t, u) ==
  \A s \in Refs : /\ u[s].fork = t[s].fork /\ u[s].write = t[s].write
                  /\ u[s].shared = t[s].shared
                  /\ u[s].left = t[s].left /\ u[s].right = t[s].right

LEMMA LengthNoted ==
  ASSUME NEW t \in [Refs -> FCBs], NEW l, Rings(t, l), NEW f \in Forks, NEW len \in Lengths
  PROVE  LET u == KnownLength(t, l, f, len)
         IN  /\ u \in [Refs -> FCBs] /\ SameFCBs(t, u) /\ Rings(u, l)
             /\ \A s \in Refs : /\ u[s].dirty = t[s].dirty
                                /\ u[s].eof = IF t[s].fork = f THEN len ELSE t[s].eof
<1> DEFINE u == KnownLength(t, l, f, len)
<1>1. u = [s \in Refs |-> IF t[s].fork = f THEN [t[s] EXCEPT !.eof = len] ELSE t[s]]
  BY SiblingsFound DEF KnownLength, HaveOpen
<1> HIDE DEF u
<1>2. u \in [Refs -> FCBs]
  BY <1>1 DEF FCBs
<1>3. ASSUME NEW s \in Refs
      PROVE  /\ u[s].fork = t[s].fork /\ u[s].write = t[s].write
             /\ u[s].shared = t[s].shared
             /\ u[s].left = t[s].left /\ u[s].right = t[s].right
             /\ u[s].dirty = t[s].dirty
             /\ u[s].eof = IF t[s].fork = f THEN len ELSE t[s].eof
  <2>1. t[s] \in FCBs
    OBVIOUS
  <2>2. u[s] = IF t[s].fork = f THEN [t[s] EXCEPT !.eof = len] ELSE t[s]
    BY <1>1
  <2> QED
    BY <2>1, <2>2 DEF FCBs
<1>4. Rings(u, l)
  BY <1>3, RingsSame
<1> QED
  BY <1>2, <1>3, <1>4 DEF u, SameFCBs

\* UnivFirst gives an FCB of the fork it was asked for, whatever the table.
LEMMA FirstIsOfFork ==
  ASSUME NEW t, NEW l, NEW f, UnivFirst(t, l, f) # NoRef
  PROVE  t[UnivFirst(t, l, f)].fork = f
<1> DEFINE p == Path(t, l[Key(f)])
<1>1. Hits(t, l, f) # {} /\ UnivFirst(t, l, f) = p[Earliest(Hits(t, l, f))]
  BY DEF UnivFirst
<1>2. Hits(t, l, f) \in SUBSET Nat /\ \A n \in Hits(t, l, f) : t[p[n]].fork = f
  BY SizeOfTable DEF Hits, N
<1>3. Earliest(Hits(t, l, f)) \in Hits(t, l, f)
  BY <1>1, <1>2, LeastNumber DEF Earliest
<1> QED
  BY <1>1, <1>2, <1>3

\* The two values of a mark.
Set   == TRUE
Clear == FALSE
IsMark(mark) == mark \in BOOLEAN

LEMMA MarkValues == IsMark(Set) /\ IsMark(Clear)
  BY DEF IsMark, Set, Clear

\* u is t with the FCBs marked that the loop comes to, and otherwise the same.
MarksOnly(t, l, r, mark, u) ==
  /\ u \in [Refs -> FCBs] /\ SameFCBs(t, u)
  /\ \A s \in Refs : u[s].eof = t[s].eof
  /\ \A s \in Refs : IF UnivFirst(t, l, t[r].fork) # NoRef /\ s \in Marked(t, l, r)
                       THEN u[s].dirty = mark ELSE u[s].dirty = t[s].dirty

LEMMA MarksSet ==
  ASSUME NEW t \in [Refs -> FCBs], NEW l, NEW r \in Refs, NEW mark, IsMark(mark)
  PROVE  MarksOnly(t, l, r, mark, WithMarks(t, l, r, mark))
<1> DEFINE first == UnivFirst(t, l, t[r].fork)
           u == WithMarks(t, l, r, mark)
<1>1. u = IF first = NoRef THEN t
          ELSE [s \in Refs |-> IF s \in Marked(t, l, r) THEN [t[s] EXCEPT !.dirty = mark] ELSE t[s]]
  BY DEF WithMarks
<1> HIDE DEF first, u
<1>2. u \in [Refs -> FCBs]
  BY <1>1 DEF FCBs, IsMark
<1>3. ASSUME NEW s \in Refs
      PROVE  /\ u[s].fork = t[s].fork /\ u[s].write = t[s].write
             /\ u[s].shared = t[s].shared
             /\ u[s].left = t[s].left /\ u[s].right = t[s].right
             /\ u[s].eof = t[s].eof
             /\ IF first # NoRef /\ s \in Marked(t, l, r)
                  THEN u[s].dirty = mark ELSE u[s].dirty = t[s].dirty
  <2>1. t[s] \in FCBs
    OBVIOUS
  <2>2. u[s] = IF first # NoRef /\ s \in Marked(t, l, r) THEN [t[s] EXCEPT !.dirty = mark] ELSE t[s]
    BY <1>1
  <2> QED
    BY <2>1, <2>2 DEF FCBs
<1> QED
  BY <1>2, <1>3 DEF SameFCBs, MarksOnly, first, u

\* Where the loop ends it has touched only FCBs of r's fork.
LEMMA MarksOfFork ==
  ASSUME NEW t, NEW l, NEW r \in Refs, NEW mark, NEW u, MarksOnly(t, l, r, mark, u),
         MarkingEnds(t, l, r), NEW s \in Refs, t[s].fork # t[r].fork
  PROVE  u[s].dirty = t[s].dirty
<1> DEFINE first == UnivFirst(t, l, t[r].fork)
<1>1. first # NoRef => Marked(t, l, r) = {first}
  BY DEF MarkingEnds, Marked
<1>2. first # NoRef => s # first
  BY FirstIsOfFork
<1>3. ~(first # NoRef /\ s \in Marked(t, l, r))
  BY <1>1, <1>2
<1> QED
  BY <1>3 DEF MarksOnly

\* The first FCB of the fork is among those it comes to.
LEMMA MarksFirst ==
  ASSUME NEW t, NEW l, NEW r \in Refs, NEW mark, NEW u, MarksOnly(t, l, r, mark, u),
         NEW first \in Refs, first = UnivFirst(t, l, t[r].fork)
  PROVE  u[first].dirty = mark
<1>1. first # NoRef /\ first \in Marked(t, l, r)
  BY OpenFilesAssumption DEF Marked
<1> QED
  BY <1>1 DEF MarksOnly

-----------------------------------------------------------------------------
(***************************************************************************)
(* The invariant.                                                          *)
(***************************************************************************)
OpenInv ==
  /\ OpenTypeOK
  /\ Running => Rings(fcb, lists) /\ \A f \in unpushed : f.res
  /\ ExclusiveWriter /\ LengthsKnown /\ NoWriteLost /\ OpenFilesExist

LEMMA OpenInvInit == OpenInit => OpenInv
<1> SUFFICES ASSUME OpenInit PROVE OpenInv
  OBVIOUS
<1>1. OpenTypeOK
  <2>1. 0 \in Lengths
    BY OpenFilesAssumption DEF Lengths
  <2>2. [fork |-> NoFork, write |-> FALSE, shared |-> FALSE,
         left |-> NoRef, right |-> NoRef, dirty |-> FALSE, eof |-> 0] \in FCBs
    BY <2>1 DEF FCBs
  <2> QED
    BY <2>1, <2>2 DEF OpenInit, OpenTypeOK
<1>2. \A r \in Refs : fcb[r].fork = NoFork
  BY DEF OpenInit
<1>3. Rings(fcb, lists)
  BY <1>2 DEF OpenInit, Rings, Linked
<1>4. ExclusiveWriter /\ LengthsKnown /\ NoWriteLost /\ OpenFilesExist
  BY <1>2, ForkFacts DEF OpenInit, ExclusiveWriter, LengthsKnown, NoWriteLost, OpenFilesExist
<1> QED
  BY <1>1, <1>3, <1>4 DEF OpenInv, OpenInit

\* A step that leaves the driver stuck has only types to keep.
LEMMA StuckKeeps ==
  ASSUME OpenTypeOK', stuck' # "none"
  PROVE  OpenInv'
  BY DEF OpenInv, Running, ExclusiveWriter, LengthsKnown, NoWriteLost, OpenFilesExist

LEMMA OpenKeeps ==
  ASSUME OpenInv, NEW r \in Refs, NEW f \in Forks, NEW perm \in Perms, Open(r, f, perm)
  PROVE  OpenInv'
<1> DEFINE rec(fork) == [fork |-> fork, write |-> perm # "read", shared |-> perm = "shared",
                         left |-> NoRef, right |-> NoRef, dirty |-> FALSE, eof |-> 0]
           l == [lists EXCEPT ![Key(f)] = IF @ = NoRef THEN r ELSE @]
           t == Enlisted([fcb EXCEPT ![r] = rec(f)], lists[Key(f)], r)
<1>1. /\ Running /\ fcb[r].fork = NoFork /\ f.cnid \in files /\ ~Conflict(f, perm)
      /\ UNCHANGED <<length, files, unpushed, strayed, stuck>>
  BY DEF Open
<1>2. /\ fcb \in [Refs -> FCBs] /\ lists \in [Keys -> Refs \cup {NoRef}]
      /\ Rings(fcb, lists) /\ length \in [Forks -> Lengths] /\ length[f] \in Lengths
  BY <1>1 DEF OpenInv, OpenTypeOK
<1>3. rec(f) \in FCBs /\ rec(NoFork) \in FCBs
  BY OpenFilesAssumption DEF FCBs, Lengths
<1>4. /\ rec(f).fork = f /\ rec(f).write = (perm # "read") /\ rec(f).shared = (perm = "shared")
      /\ rec(f).dirty = FALSE /\ rec(NoFork).fork = NoFork
  OBVIOUS
<1>5. \/ fcb' = KnownLength(t, l, f, length[f]) /\ lists' = l
      \/ fcb' = [fcb EXCEPT ![r] = rec(NoFork)] /\ UNCHANGED lists
  BY DEF Open
<1>6. ASSUME NEW s \in Siblings(fcb, lists, f), fcb[s].write
      PROVE  ~(perm = "write" \/ (perm = "shared" /\ ~fcb[s].shared))
  BY <1>1, <1>6 DEF Conflict
<1> HIDE DEF rec
<1>7. CASE fcb' = KnownLength(t, l, f, length[f]) /\ lists' = l
  <2>1. /\ t \in [Refs -> FCBs] /\ Rings(t, l)
        /\ \A s \in Refs \ {r} : /\ t[s].fork = fcb[s].fork /\ t[s].write = fcb[s].write
                                 /\ t[s].shared = fcb[s].shared /\ t[s].dirty = fcb[s].dirty
                                 /\ t[s].eof = fcb[s].eof
        /\ t[r].fork = f /\ t[r].write = (perm # "read") /\ t[r].shared = (perm = "shared")
    <3> DEFINE new == [fcb EXCEPT ![r] = rec(f)]
    <3>1. /\ new \in [Refs -> FCBs] /\ \A s \in Refs \ {r} : new[s] = fcb[s]
          /\ new[r].fork = f /\ new[r].write = (perm # "read") /\ new[r].shared = (perm = "shared")
      BY <1>2, <1>3, <1>4
    <3>2. /\ l \in [Keys -> Refs \cup {NoRef}]
          /\ l[Key(f)] = (IF lists[Key(f)] = NoRef THEN r ELSE lists[Key(f)])
          /\ \A i \in Keys \ {Key(f)} : l[i] = lists[i]
      BY <1>2, ForkFacts
    <3>3. t = Enlisted(new, lists[Key(f)], r)
      OBVIOUS
    <3> HIDE DEF new, l, t
    <3>4. /\ t \in [Refs -> FCBs] /\ Rings(t, l)
          /\ \A s \in Refs : /\ t[s].fork = new[s].fork /\ t[s].write = new[s].write
                             /\ t[s].shared = new[s].shared /\ t[s].dirty = new[s].dirty
                             /\ t[s].eof = new[s].eof
      BY <1>1, <1>2, <3>1, <3>2, <3>3, EnlistKeeps
    <3> QED
      BY <3>1, <3>4
  <2>2. l \in [Keys -> Refs \cup {NoRef}]
    BY <1>2
  <2> HIDE DEF t, l
  <2>3. /\ fcb' \in [Refs -> FCBs] /\ Rings(fcb', l) /\ SameFCBs(t, fcb')
        /\ \A s \in Refs : /\ fcb'[s].dirty = t[s].dirty
                           /\ fcb'[s].eof = IF t[s].fork = f THEN length[f] ELSE t[s].eof
    BY <1>2, <1>7, <2>1, LengthNoted
  <2>4. /\ \A s \in Refs \ {r} : /\ fcb'[s].fork = fcb[s].fork /\ fcb'[s].write = fcb[s].write
                                 /\ fcb'[s].shared = fcb[s].shared /\ fcb'[s].dirty = fcb[s].dirty
        /\ fcb'[r].fork = f /\ fcb'[r].write = (perm # "read") /\ fcb'[r].shared = (perm = "shared")
    BY <2>1, <2>3 DEF SameFCBs
  <2>5. OpenTypeOK'
    BY <1>1, <1>7, <2>2, <2>3 DEF OpenInv, OpenTypeOK
  <2>6. ExclusiveWriter'
    <3> SUFFICES ASSUME NEW x \in Refs, NEW y \in Refs, x # y,
                        fcb'[x].fork # NoFork, fcb'[x].write, ~fcb'[x].shared,
                        fcb'[y].fork = fcb'[x].fork, fcb'[y].write
                 PROVE  FALSE
      BY DEF ExclusiveWriter
    <3>1. \A s \in Refs \ {r} : fcb[s].fork = f /\ fcb[s].write => perm # "write" /\ (perm = "shared" => fcb[s].shared)
      BY <1>2, <1>6, SiblingsFound DEF HaveOpen
    <3>2. CASE x = r
      BY <2>4, <3>1, <3>2 DEF Perms
    <3>3. CASE y = r
      BY <2>4, <3>1, <3>3 DEF Perms
    <3>4. CASE x # r /\ y # r
      BY <1>1, <2>4, <3>4 DEF OpenInv, ExclusiveWriter
    <3> QED
      BY <3>2, <3>3, <3>4
  <2>7. LengthsKnown'
    BY <1>1, <2>1, <2>3, <2>4 DEF OpenInv, LengthsKnown
  <2>8. NoWriteLost'
    <3> SUFFICES ASSUME NEW g \in unpushed PROVE \E s \in Refs : fcb'[s].fork = g /\ fcb'[s].dirty
      BY <1>1 DEF NoWriteLost, Opened
    <3>1. PICK s \in Refs : fcb[s].fork = g /\ fcb[s].dirty
      BY <1>1 DEF OpenInv, NoWriteLost, Opened
    <3>2. s # r
      BY <1>1, <3>1, ForkFacts DEF OpenInv, OpenTypeOK
    <3> QED
      BY <2>4, <3>1, <3>2
  <2>9. OpenFilesExist'
    BY <1>1, <2>4 DEF OpenInv, OpenFilesExist
  <2> QED
    BY <1>1, <1>7, <2>3, <2>5, <2>6, <2>7, <2>8, <2>9 DEF OpenInv
<1>8. CASE fcb' = [fcb EXCEPT ![r] = rec(NoFork)] /\ UNCHANGED lists
  <2>1. /\ fcb' \in [Refs -> FCBs] /\ fcb'[r].fork = NoFork
        /\ \A s \in Refs \ {r} : fcb'[s] = fcb[s]
    BY <1>2, <1>3, <1>4, <1>8
  <2>2. \A k \in Keys : Linked(fcb', k) = Linked(fcb, k) /\ \A s \in Linked(fcb, k) : fcb'[s] = fcb[s]
    BY <1>1, <2>1 DEF Linked
  <2>3. Rings(fcb', lists')
    BY <1>2, <1>8, <2>2, RingApart DEF Rings
  <2>4. OpenTypeOK'
    BY <1>1, <1>2, <1>8, <2>1 DEF OpenInv, OpenTypeOK
  <2>5. ExclusiveWriter' /\ LengthsKnown' /\ OpenFilesExist'
    BY <1>1, <2>1, ForkFacts DEF OpenInv, ExclusiveWriter, LengthsKnown, OpenFilesExist
  <2>6. NoWriteLost'
    <3> SUFFICES ASSUME NEW g \in unpushed PROVE \E s \in Refs : fcb'[s].fork = g /\ fcb'[s].dirty
      BY <1>1 DEF NoWriteLost, Opened
    <3>1. PICK s \in Refs : fcb[s].fork = g /\ fcb[s].dirty
      BY <1>1 DEF OpenInv, NoWriteLost, Opened
    <3>2. s # r
      BY <1>1, <3>1, ForkFacts DEF OpenInv, OpenTypeOK
    <3> QED
      BY <2>1, <3>1, <3>2
  <2> QED
    BY <1>1, <2>3, <2>4, <2>5, <2>6 DEF OpenInv
<1> QED
  BY <1>5, <1>7, <1>8

LEMMA CloseKeeps ==
  ASSUME OpenInv, NEW r \in Refs, Close(r)
  PROVE  OpenInv'
<1> DEFINE f == fcb[r].fork
           t == Delisted(fcb, r)
           l == ListWithout(r)
           push == f.res /\ fcb[r].dirty
           v == IF push THEN WithMarks(t, l, r, FALSE) ELSE t
<1>1. /\ Running /\ f # NoFork /\ UNCHANGED <<length, files, strayed>> /\ lists' = l
  BY DEF Close, IsOpen
<1>2. /\ fcb \in [Refs -> FCBs] /\ lists \in [Keys -> Refs \cup {NoRef}]
      /\ Rings(fcb, lists) /\ f \in Forks
  BY <1>1 DEF OpenInv, OpenTypeOK, FCBs
<1>3. \/ /\ push /\ fcb' = v /\ stuck' = "loop" /\ UNCHANGED unpushed
      \/ /\ push => MarkingEnds(t, l, r)
         /\ fcb' = [v EXCEPT ![r].fork = NoFork]
         /\ unpushed' = (IF push THEN unpushed \ {f} ELSE unpushed)
         /\ UNCHANGED stuck
  BY DEF Close
<1>4. fcb[r].left \in Refs /\ fcb[r].right \in Refs
  <2>1. Key(f) \in Keys /\ r \in Linked(fcb, Key(f))
    BY <1>1, <1>2, ForkFacts DEF Linked
  <2>2. Ring(fcb, lists[Key(f)], Linked(fcb, Key(f)))
    BY <1>2, <2>1 DEF Rings
  <2> QED
    BY <2>1, <2>2 DEF Ring, Linked
<1>5. /\ t \in [Refs -> FCBs]
      /\ \A s \in Refs : /\ t[s].fork = fcb[s].fork /\ t[s].write = fcb[s].write
                         /\ t[s].shared = fcb[s].shared /\ t[s].dirty = fcb[s].dirty
                         /\ t[s].eof = fcb[s].eof
  BY <1>2, <1>4, DelistedFacts
<1> HIDE DEF f, t, l
<1>6. /\ v \in [Refs -> FCBs]
      /\ \A s \in Refs : /\ v[s].fork = fcb[s].fork /\ v[s].write = fcb[s].write
                         /\ v[s].shared = fcb[s].shared /\ v[s].eof = fcb[s].eof
                         /\ v[s].left = t[s].left /\ v[s].right = t[s].right
      /\ (push => MarkingEnds(t, l, r)) =>
           \A s \in Refs : fcb[s].fork # f \/ ~push => v[s].dirty = fcb[s].dirty
  <2>1. CASE push
    <3>1. v = WithMarks(t, l, r, Clear) /\ IsMark(Clear)
      BY <2>1, MarkValues DEF Clear
    <3> HIDE DEF v
    <3>2. MarksOnly(t, l, r, Clear, v)
      BY <1>5, <3>1, MarksSet
    <3>3. ASSUME MarkingEnds(t, l, r), NEW s \in Refs, t[s].fork # t[r].fork
          PROVE  v[s].dirty = t[s].dirty
      BY <3>2, <3>3, MarksOfFork
    <3> QED
      BY <1>5, <2>1, <3>2, <3>3 DEF MarksOnly, SameFCBs, f
  <2>2. CASE ~push
    BY <1>5, <2>2
  <2> QED
    BY <2>1, <2>2
<1> HIDE DEF v
<1>7. l \in [Keys -> Refs \cup {NoRef}]
  BY <1>2, <1>4, OpenFilesAssumption, ForkFacts DEF l, f, ListWithout
<1>8. CASE push /\ fcb' = v /\ stuck' = "loop" /\ UNCHANGED unpushed
  <2>1. OpenTypeOK'
    BY <1>1, <1>6, <1>7, <1>8 DEF OpenInv, OpenTypeOK
  <2> QED
    BY <1>8, <2>1, StuckKeeps
<1>9. CASE /\ push => MarkingEnds(t, l, r)
           /\ fcb' = [v EXCEPT ![r].fork = NoFork]
           /\ unpushed' = (IF push THEN unpushed \ {f} ELSE unpushed)
           /\ UNCHANGED stuck
  <2>1. /\ fcb' \in [Refs -> FCBs] /\ fcb'[r] = [v[r] EXCEPT !.fork = NoFork]
        /\ \A s \in Refs \ {r} : fcb'[s] = v[s]
    BY <1>6, <1>9 DEF FCBs
  <2>2. /\ fcb'[r].fork = NoFork
        /\ fcb'[r].left = v[r].left /\ fcb'[r].right = v[r].right
    <3>1. v[r] \in FCBs
      BY <1>6
    <3> QED
      BY <2>1, <3>1 DEF FCBs
  <2>3. /\ \A s \in Refs : fcb'[s].left = t[s].left /\ fcb'[s].right = t[s].right
        /\ \A s \in Refs \ {r} : /\ fcb'[s].fork = fcb[s].fork /\ fcb'[s].write = fcb[s].write
                                 /\ fcb'[s].shared = fcb[s].shared /\ fcb'[s].eof = fcb[s].eof
    <3>1. ASSUME NEW s \in Refs PROVE fcb'[s].left = t[s].left /\ fcb'[s].right = t[s].right
      <4>1. CASE s = r
        BY <1>6, <2>2, <4>1
      <4>2. CASE s # r
        BY <1>6, <2>1, <4>2
      <4> QED
        BY <4>1, <4>2
    <3>2. ASSUME NEW s \in Refs \ {r}
          PROVE  /\ fcb'[s].fork = fcb[s].fork /\ fcb'[s].write = fcb[s].write
                 /\ fcb'[s].shared = fcb[s].shared /\ fcb'[s].eof = fcb[s].eof
      BY <1>6, <2>1
    <3> QED
      BY <3>1, <3>2
  <2>4. Rings(fcb', lists')
    <3>1. \A s \in Refs \ {r} : fcb'[s].fork = fcb[s].fork
      BY <2>3
    <3>2. Rings(fcb', l)
      BY <1>2, <2>2, <2>3, <3>1, DelistKeeps DEF f, t, l
    <3> QED
      BY <1>1, <3>2
  <2>5. OpenTypeOK'
    BY <1>1, <1>7, <1>9, <2>1 DEF OpenInv, OpenTypeOK
  <2>6. ExclusiveWriter' /\ LengthsKnown' /\ OpenFilesExist'
    BY <1>1, <2>2, <2>3, ForkFacts DEF OpenInv, ExclusiveWriter, LengthsKnown, OpenFilesExist
  <2>7. NoWriteLost'
    <3> SUFFICES ASSUME NEW g \in unpushed' PROVE \E s \in Refs : fcb'[s].fork = g /\ fcb'[s].dirty
      BY DEF NoWriteLost, Opened
    <3>1. g \in unpushed /\ (push => g # f) /\ g \in Forks
      BY <1>9 DEF OpenInv, OpenTypeOK
    <3>2. PICK s \in Refs : fcb[s].fork = g /\ fcb[s].dirty
      BY <1>1, <3>1 DEF OpenInv, NoWriteLost, Opened
    <3>3. CASE push
      <4>1. s # r /\ v[s].dirty = fcb[s].dirty
        BY <1>6, <1>9, <3>1, <3>2, <3>3 DEF f
      <4> QED
        BY <2>1, <2>3, <3>2, <4>1
    <3>4. CASE ~push
      <4>1. g.res
        BY <1>1, <3>1 DEF OpenInv
      <4>2. s # r
        BY <3>2, <3>4, <4>1 DEF f
      <4>3. v[s].dirty = fcb[s].dirty
        BY <1>6, <3>4
      <4> QED
        BY <2>1, <2>3, <3>2, <4>2, <4>3
    <3> QED
      BY <3>3, <3>4
  <2> QED
    BY <1>1, <1>9, <2>4, <2>5, <2>6, <2>7 DEF OpenInv
<1> QED
  BY <1>3, <1>8, <1>9 DEF v

\* Reading, writing and setting lengths: what such a step need not touch.
LEMMA ContentKeeps ==
  ASSUME OpenInv, Running, UNCHANGED <<lists, files, stuck>>,
         fcb' \in [Refs -> FCBs], SameFCBs(fcb, fcb'),
         length' \in [Forks -> Lengths], strayed' \subseteq Forks,
         unpushed' \subseteq Forks, \A g \in unpushed' : g.res,
         LengthsKnown', NoWriteLost'
  PROVE  OpenInv'
<1>1. Rings(fcb', lists)
  BY RingsSame DEF OpenInv, SameFCBs
<1>2. ExclusiveWriter' /\ OpenFilesExist'
  BY DEF OpenInv, SameFCBs, ExclusiveWriter, OpenFilesExist, Running
<1>3. OpenTypeOK'
  BY DEF OpenInv, OpenTypeOK
<1> QED
  BY <1>1, <1>2, <1>3 DEF OpenInv, Running

LEMMA OpenForkFacts ==
  ASSUME OpenInv, NEW r \in Refs, IsOpen(r)
  PROVE  /\ Running /\ fcb \in [Refs -> FCBs] /\ Rings(fcb, lists)
         /\ fcb[r].fork \in Forks /\ length[fcb[r].fork] \in Lengths
         /\ length \in [Forks -> Lengths]
  BY DEF OpenInv, OpenTypeOK, IsOpen, FCBs

LEMMA WriteKeeps ==
  ASSUME OpenInv, NEW r \in Refs, NEW start \in Lengths, NEW end \in Lengths, Write(r, start, end)
  PROVE  OpenInv'
<1> DEFINE f == fcb[r].fork
           t == IF Marking(r) THEN WithMarks(fcb, lists, r, TRUE) ELSE fcb
<1>1. /\ Running /\ fcb \in [Refs -> FCBs] /\ Rings(fcb, lists) /\ f \in Forks
      /\ length[f] \in Lengths /\ length \in [Forks -> Lengths]
  BY OpenForkFacts DEF Write
<1>2. UNCHANGED <<lists, files, strayed>>
  BY DEF Write
<1>3. \/ /\ fcb' = t /\ stuck' \in {"loop", "panic"}
         /\ UNCHANGED <<length, unpushed>>
      \/ /\ length' = [length EXCEPT ![f] = IF end > @ THEN end ELSE @]
         /\ fcb' = (IF end > fcb[r].eof THEN KnownLength(t, lists, f, end) ELSE t)
         /\ unpushed' = (IF f.res THEN unpushed \cup {f} ELSE unpushed)
         /\ UNCHANGED stuck
  BY DEF Write
<1>4. Marking(r) <=> f.res /\ ~fcb[r].dirty
  BY DEF Marking
<1> HIDE DEF f
<1>5. /\ t \in [Refs -> FCBs] /\ SameFCBs(fcb, t) /\ \A s \in Refs : t[s].eof = fcb[s].eof
      /\ \A s \in Refs : fcb[s].dirty => t[s].dirty
      /\ f.res => \E s \in Refs : fcb[s].fork = f /\ t[s].dirty
  <2>1. CASE Marking(r)
    <3>1. t = WithMarks(fcb, lists, r, Set) /\ IsMark(Set)
      BY <2>1, MarkValues DEF Set
    <3> HIDE DEF t
    <3>2. MarksOnly(fcb, lists, r, Set, t)
      BY <1>1, <3>1, MarksSet
    <3> DEFINE first == UnivFirst(fcb, lists, fcb[r].fork)
    <3>3. first \in Refs /\ fcb[first].fork = f
      BY <1>1, SiblingsFound DEF HaveOpen, f
    <3>4. t[first].dirty = Set
      BY <3>2, <3>3, MarksFirst
    <3> HIDE DEF first
    <3>5. \A s \in Refs : t[s].dirty = fcb[s].dirty \/ t[s].dirty = Set
      BY <3>2 DEF MarksOnly
    <3>6. t \in [Refs -> FCBs] /\ SameFCBs(fcb, t) /\ \A s \in Refs : t[s].eof = fcb[s].eof
      BY <3>2 DEF MarksOnly
    <3>7. \A s \in Refs : fcb[s].dirty => t[s].dirty
      BY <3>5 DEF Set
    <3>8. \E s \in Refs : fcb[s].fork = f /\ t[s].dirty
      BY <3>3, <3>4 DEF Set
    <3> QED
      BY <3>6, <3>7, <3>8
  <2>2. CASE ~Marking(r)
    <3>1. t = fcb
      BY <2>2
    <3>2. f.res => fcb[r].dirty
      BY <1>4, <2>2
    <3> HIDE DEF t
    <3>3. f.res => \E s \in Refs : fcb[s].fork = f /\ fcb[s].dirty
      BY <3>2 DEF f
    <3>4. SameFCBs(fcb, fcb)
      BY DEF SameFCBs
    <3> QED
      BY <1>1, <3>1, <3>3, <3>4
  <2> QED
    BY <2>1, <2>2
<1> HIDE DEF t
<1>6. Rings(t, lists)
  BY <1>1, <1>5, RingsSame DEF SameFCBs
<1>7. CASE /\ fcb' = t /\ stuck' \in {"loop", "panic"}
           /\ UNCHANGED <<length, unpushed>>
  <2>1. OpenTypeOK'
    BY <1>2, <1>5, <1>7 DEF OpenInv, OpenTypeOK
  <2> QED
    BY <1>7, <2>1, StuckKeeps
<1>8. CASE /\ length' = [length EXCEPT ![f] = IF end > @ THEN end ELSE @]
           /\ fcb' = (IF end > fcb[r].eof THEN KnownLength(t, lists, f, end) ELSE t)
           /\ unpushed' = (IF f.res THEN unpushed \cup {f} ELSE unpushed)
           /\ UNCHANGED stuck
  <2>1. /\ fcb' \in [Refs -> FCBs] /\ SameFCBs(t, fcb')
        /\ \A s \in Refs : /\ fcb'[s].dirty = t[s].dirty
                           /\ fcb'[s].eof = IF t[s].fork = f /\ end > fcb[r].eof
                                              THEN end ELSE t[s].eof
    <3>1. CASE end > fcb[r].eof
      <4> DEFINE u == KnownLength(t, lists, f, end)
      <4>1. /\ u \in [Refs -> FCBs] /\ SameFCBs(t, u)
            /\ \A s \in Refs : /\ u[s].dirty = t[s].dirty
                               /\ u[s].eof = IF t[s].fork = f THEN end ELSE t[s].eof
        BY <1>1, <1>5, <1>6, LengthNoted
      <4>2. fcb' = u
        BY <1>8, <3>1
      <4> HIDE DEF u
      <4> QED
        BY <3>1, <4>1, <4>2
    <3>2. CASE ~(end > fcb[r].eof)
      <4>1. fcb' = t
        BY <1>8, <3>2
      <4> QED
        BY <1>5, <3>2, <4>1 DEF SameFCBs
    <3> QED
      BY <3>1, <3>2
  <2>2. SameFCBs(fcb, fcb')
    BY <1>5, <2>1 DEF SameFCBs
  <2>3. /\ length' \in [Forks -> Lengths] /\ length'[f] = (IF end > length[f] THEN end ELSE length[f])
        /\ \A g \in Forks \ {f} : length'[g] = length[g]
    BY <1>1, <1>8
  <2>4. unpushed' \subseteq Forks /\ \A g \in unpushed' : g.res
    BY <1>1, <1>8 DEF OpenInv, OpenTypeOK
  <2>5. LengthsKnown'
    <3> SUFFICES ASSUME NEW s \in Refs, fcb'[s].fork \in Forks \ strayed
                 PROVE  fcb'[s].eof = length'[fcb'[s].fork]
      BY <1>2 DEF LengthsKnown
    <3>1. fcb'[s].fork = fcb[s].fork /\ t[s].fork = fcb[s].fork /\ t[s].eof = fcb[s].eof
      BY <1>5, <2>2 DEF SameFCBs
    <3>2. fcb[s].eof = length[fcb[s].fork]
      BY <1>1, <3>1 DEF OpenInv, LengthsKnown
    <3>3. CASE fcb[s].fork = f
      <4>1. fcb[r].eof = length[f]
        BY <1>1, <3>1, <3>3 DEF OpenInv, LengthsKnown, f
      <4> QED
        BY <2>1, <2>3, <3>1, <3>2, <3>3, <4>1
    <3>4. CASE fcb[s].fork # f
      BY <2>1, <2>3, <3>1, <3>2, <3>4
    <3> QED
      BY <3>3, <3>4
  <2>6. NoWriteLost'
    <3> SUFFICES ASSUME NEW g \in unpushed' PROVE \E s \in Refs : fcb'[s].fork = g /\ fcb'[s].dirty
      BY DEF NoWriteLost, Opened
    <3>1. CASE g \in unpushed
      <4>1. PICK s \in Refs : fcb[s].fork = g /\ fcb[s].dirty
        BY <1>1, <3>1 DEF OpenInv, NoWriteLost, Opened
      <4> QED
        BY <1>5, <2>1, <2>2, <4>1 DEF SameFCBs
    <3>2. CASE g \notin unpushed
      <4>1. g = f /\ f.res
        BY <1>8, <3>2
      <4>2. PICK s \in Refs : fcb[s].fork = f /\ t[s].dirty
        BY <1>5, <4>1
      <4> QED
        BY <2>1, <2>2, <4>1, <4>2 DEF SameFCBs
    <3> QED
      BY <3>1, <3>2
  <2>7. strayed' \subseteq Forks
    BY <1>2 DEF OpenInv, OpenTypeOK
  <2> QED
    BY <1>1, <1>2, <1>8, <2>1, <2>2, <2>3, <2>4, <2>5, <2>6, <2>7, ContentKeeps
<1> QED
  BY <1>3, <1>7, <1>8

LEMMA SetEOFKeeps ==
  ASSUME OpenInv, NEW r \in Refs, NEW len \in Lengths, SetEOF(r, len)
  PROVE  OpenInv'
<1> DEFINE f == fcb[r].fork
           push == f.res /\ (fcb[r].dirty \/ len = 0)
           t == IF push THEN WithMarks(fcb, lists, r, FALSE) ELSE fcb
<1>1. /\ Running /\ fcb \in [Refs -> FCBs] /\ Rings(fcb, lists) /\ f \in Forks
      /\ length[f] \in Lengths /\ length \in [Forks -> Lengths]
  BY OpenForkFacts DEF SetEOF
<1>2. UNCHANGED <<lists, files, strayed>>
  BY DEF SetEOF
<1>3. \/ stuck' = "panic" /\ UNCHANGED <<fcb, length, unpushed>>
      \/ /\ length' = [length EXCEPT ![f] = len]
         /\ fcb' = t /\ stuck' = "loop" /\ UNCHANGED unpushed
      \/ /\ length' = [length EXCEPT ![f] = len] /\ (push => MarkingEnds(fcb, lists, r))
         /\ fcb' = KnownLength(t, lists, f, len)
         /\ unpushed' = (IF push THEN unpushed \ {f} ELSE unpushed)
         /\ UNCHANGED stuck
  BY DEF SetEOF
<1> HIDE DEF f
<1>4. /\ t \in [Refs -> FCBs] /\ SameFCBs(fcb, t) /\ \A s \in Refs : t[s].eof = fcb[s].eof
      /\ (push => MarkingEnds(fcb, lists, r)) =>
           \A s \in Refs : fcb[s].fork # f \/ ~push => t[s].dirty = fcb[s].dirty
  <2>1. CASE push
    <3>1. t = WithMarks(fcb, lists, r, Clear) /\ IsMark(Clear)
      BY <2>1, MarkValues DEF Clear
    <3> HIDE DEF t
    <3>2. MarksOnly(fcb, lists, r, Clear, t)
      BY <1>1, <3>1, MarksSet
    <3>3. ASSUME MarkingEnds(fcb, lists, r), NEW s \in Refs, fcb[s].fork # fcb[r].fork
          PROVE  t[s].dirty = fcb[s].dirty
      BY <3>2, <3>3, MarksOfFork
    <3> QED
      BY <2>1, <3>2, <3>3 DEF MarksOnly, f
  <2>2. CASE ~push
    BY <1>1, <2>2 DEF SameFCBs
  <2> QED
    BY <2>1, <2>2
<1> HIDE DEF t, push
<1>5. Rings(t, lists)
  BY <1>1, <1>4, RingsSame DEF SameFCBs
<1>6. CASE stuck' = "panic" /\ UNCHANGED <<fcb, length, unpushed>>
  <2>1. OpenTypeOK'
    BY <1>2, <1>6 DEF OpenInv, OpenTypeOK
  <2> QED
    BY <1>6, <2>1, StuckKeeps
<1>7. CASE /\ length' = [length EXCEPT ![f] = len]
           /\ fcb' = t /\ stuck' = "loop" /\ UNCHANGED unpushed
  <2>1. OpenTypeOK'
    BY <1>1, <1>2, <1>4, <1>7 DEF OpenInv, OpenTypeOK
  <2> QED
    BY <1>7, <2>1, StuckKeeps
<1>8. CASE /\ length' = [length EXCEPT ![f] = len] /\ (push => MarkingEnds(fcb, lists, r))
           /\ fcb' = KnownLength(t, lists, f, len)
           /\ unpushed' = (IF push THEN unpushed \ {f} ELSE unpushed)
           /\ UNCHANGED stuck
  <2>1. /\ fcb' \in [Refs -> FCBs] /\ SameFCBs(t, fcb')
        /\ \A s \in Refs : /\ fcb'[s].dirty = t[s].dirty
                           /\ fcb'[s].eof = IF t[s].fork = f THEN len ELSE t[s].eof
    <3> DEFINE u == KnownLength(t, lists, f, len)
    <3>1. /\ u \in [Refs -> FCBs] /\ SameFCBs(t, u)
          /\ \A s \in Refs : /\ u[s].dirty = t[s].dirty
                             /\ u[s].eof = IF t[s].fork = f THEN len ELSE t[s].eof
      BY <1>1, <1>4, <1>5, LengthNoted
    <3>2. fcb' = u
      BY <1>8
    <3> HIDE DEF u
    <3> QED
      BY <3>1, <3>2
  <2>2. SameFCBs(fcb, fcb')
    BY <1>4, <2>1 DEF SameFCBs
  <2>3. /\ length' \in [Forks -> Lengths] /\ length'[f] = len
        /\ \A g \in Forks \ {f} : length'[g] = length[g]
    BY <1>1, <1>8
  <2>4. unpushed' \subseteq Forks /\ \A g \in unpushed' : g.res
    BY <1>1, <1>8 DEF OpenInv, OpenTypeOK
  <2>5. LengthsKnown'
    <3> SUFFICES ASSUME NEW s \in Refs, fcb'[s].fork \in Forks \ strayed
                 PROVE  fcb'[s].eof = length'[fcb'[s].fork]
      BY <1>2 DEF LengthsKnown
    <3>1. fcb'[s].fork = fcb[s].fork /\ t[s].fork = fcb[s].fork /\ t[s].eof = fcb[s].eof
      BY <1>4, <2>2 DEF SameFCBs
    <3>2. fcb[s].eof = length[fcb[s].fork]
      BY <1>1, <3>1 DEF OpenInv, LengthsKnown
    <3> QED
      BY <2>1, <2>3, <3>1, <3>2
  <2>6. NoWriteLost'
    <3> SUFFICES ASSUME NEW g \in unpushed' PROVE \E s \in Refs : fcb'[s].fork = g /\ fcb'[s].dirty
      BY DEF NoWriteLost, Opened
    <3>1. g \in unpushed /\ (push => g # f)
      BY <1>8
    <3>2. PICK s \in Refs : fcb[s].fork = g /\ fcb[s].dirty
      BY <1>1, <3>1 DEF OpenInv, NoWriteLost, Opened
    <3>3. t[s].dirty = fcb[s].dirty
      BY <1>4, <1>8, <3>1, <3>2
    <3> QED
      BY <2>1, <2>2, <3>2, <3>3 DEF SameFCBs
  <2>7. strayed' \subseteq Forks
    BY <1>2 DEF OpenInv, OpenTypeOK
  <2> QED
    BY <1>1, <1>2, <1>8, <2>1, <2>2, <2>3, <2>4, <2>5, <2>6, <2>7, ContentKeeps
<1> QED
  BY <1>3, <1>6, <1>7, <1>8


LEMMA ReadKeeps ==
  ASSUME OpenInv, NEW r \in Refs, NEW start \in Lengths, NEW end \in Lengths, Read(r, start, end)
  PROVE  OpenInv'
<1> DEFINE f == fcb[r].fork
           pos == IF length[f] <= start THEN start
                  ELSE IF length[f] < end THEN length[f] ELSE end
<1>1. /\ Running /\ fcb \in [Refs -> FCBs] /\ Rings(fcb, lists) /\ f \in Forks
      /\ length[f] \in Lengths /\ length \in [Forks -> Lengths]
  BY OpenForkFacts DEF Read
<1>2. /\ UNCHANGED <<lists, length, files, unpushed, stuck>> /\ start < end
      /\ fcb' = (IF pos > fcb[r].eof \/ pos < end THEN KnownLength(fcb, lists, f, pos) ELSE fcb)
      /\ strayed' = (IF start > length[f] THEN strayed \cup {f} ELSE strayed)
  BY DEF Read
<1> HIDE DEF f
<1>3. pos \in Lengths /\ (start <= length[f] => pos <= length[f] /\ (pos < end => pos = length[f]))
  BY <1>1, <1>2, OpenFilesAssumption DEF Lengths
<1> HIDE DEF pos
<1> DEFINE noted == pos > fcb[r].eof \/ pos < end
<1>4. /\ fcb' \in [Refs -> FCBs] /\ SameFCBs(fcb, fcb')
      /\ \A s \in Refs : /\ fcb'[s].dirty = fcb[s].dirty
                         /\ fcb'[s].eof = IF fcb[s].fork = f /\ noted THEN pos ELSE fcb[s].eof
  <2>1. CASE noted
    <3> DEFINE u == KnownLength(fcb, lists, f, pos)
    <3>1. /\ u \in [Refs -> FCBs] /\ SameFCBs(fcb, u)
          /\ \A s \in Refs : /\ u[s].dirty = fcb[s].dirty
                             /\ u[s].eof = IF fcb[s].fork = f THEN pos ELSE fcb[s].eof
      BY <1>1, <1>3, LengthNoted
    <3>2. fcb' = u
      BY <1>2, <2>1
    <3> HIDE DEF u
    <3> QED
      BY <2>1, <3>1, <3>2
  <2>2. CASE ~noted
    BY <1>1, <1>2, <2>2 DEF SameFCBs
  <2> QED
    BY <2>1, <2>2
<1>5. LengthsKnown'
  <2> SUFFICES ASSUME NEW s \in Refs, fcb'[s].fork \in Forks \ strayed'
               PROVE  fcb'[s].eof = length[fcb'[s].fork]
    BY <1>2 DEF LengthsKnown
  <2>1. fcb'[s].fork = fcb[s].fork /\ fcb[s].fork \notin strayed
    BY <1>2, <1>4 DEF SameFCBs
  <2>2. fcb[s].eof = length[fcb[s].fork]
    BY <1>1, <2>1 DEF OpenInv, LengthsKnown
  <2>3. CASE fcb[s].fork = f /\ noted
    <3>1. fcb[r].eof = length[f]
      BY <1>1, <2>1, <2>3 DEF OpenInv, LengthsKnown, f
    <3>2. start <= length[f]
      BY <1>1, <1>2, <2>1, <2>3 DEF Lengths
    <3>3. pos = length[f]
      BY <1>1, <1>3, <2>3, <3>1, <3>2 DEF Lengths
    <3> QED
      BY <1>4, <2>1, <2>3, <3>3
  <2>4. CASE ~(fcb[s].fork = f /\ noted)
    BY <1>4, <2>1, <2>2, <2>4
  <2> QED
    BY <2>3, <2>4
<1>6. NoWriteLost'
  BY <1>1, <1>2, <1>4 DEF OpenInv, NoWriteLost, Opened, SameFCBs
<1>7. strayed' \subseteq Forks /\ unpushed' \subseteq Forks /\ \A g \in unpushed' : g.res
  BY <1>1, <1>2 DEF OpenInv, OpenTypeOK
<1> QED
  BY <1>1, <1>2, <1>4, <1>5, <1>6, <1>7, ContentKeeps

LEMMA SeekEndKeeps ==
  ASSUME OpenInv, NEW r \in Refs, SeekEnd(r)
  PROVE  OpenInv'
<1> DEFINE f == fcb[r].fork
           u == KnownLength(fcb, lists, f, length[f])
<1>1. /\ Running /\ fcb \in [Refs -> FCBs] /\ Rings(fcb, lists) /\ f \in Forks
      /\ length[f] \in Lengths /\ length \in [Forks -> Lengths]
  BY OpenForkFacts DEF SeekEnd
<1>2. fcb' = u /\ UNCHANGED <<lists, length, files, unpushed, strayed, stuck>>
  BY DEF SeekEnd
<1> HIDE DEF f
<1>3. /\ u \in [Refs -> FCBs] /\ SameFCBs(fcb, u)
      /\ \A s \in Refs : /\ u[s].dirty = fcb[s].dirty
                         /\ u[s].eof = IF fcb[s].fork = f THEN length[f] ELSE fcb[s].eof
  BY <1>1, LengthNoted
<1> HIDE DEF u
<1>4. LengthsKnown'
  BY <1>1, <1>2, <1>3 DEF OpenInv, LengthsKnown, SameFCBs
<1>5. NoWriteLost'
  BY <1>1, <1>2, <1>3 DEF OpenInv, NoWriteLost, Opened, SameFCBs
<1>6. strayed' \subseteq Forks /\ unpushed' \subseteq Forks /\ \A g \in unpushed' : g.res
  BY <1>1, <1>2 DEF OpenInv, OpenTypeOK
<1> QED
  BY <1>1, <1>2, <1>3, <1>4, <1>5, <1>6, ContentKeeps

LEMMA GetEOFKeeps ==
  ASSUME OpenInv, NEW r \in Refs, GetEOF(r)
  PROVE  OpenInv'
<1> DEFINE f == fcb[r].fork
<1>1. /\ Running /\ fcb \in [Refs -> FCBs] /\ f \in Forks
      /\ length[f] \in Lengths /\ length \in [Forks -> Lengths]
  BY OpenForkFacts DEF GetEOF
<1>2. /\ fcb' = [fcb EXCEPT ![r].eof = length[f]]
      /\ UNCHANGED <<lists, length, files, unpushed, strayed, stuck>>
  BY DEF GetEOF
<1> HIDE DEF f
<1>3. /\ fcb' \in [Refs -> FCBs] /\ fcb'[r] = [fcb[r] EXCEPT !.eof = length[f]]
      /\ \A s \in Refs \ {r} : fcb'[s] = fcb[s]
  BY <1>1, <1>2 DEF FCBs
<1>4. /\ fcb'[r].eof = length[f] /\ fcb'[r].dirty = fcb[r].dirty
      /\ fcb'[r].fork = fcb[r].fork /\ fcb'[r].write = fcb[r].write
      /\ fcb'[r].shared = fcb[r].shared
      /\ fcb'[r].left = fcb[r].left /\ fcb'[r].right = fcb[r].right
  <2>1. fcb[r] \in FCBs
    BY <1>1
  <2> QED
    BY <1>3, <2>1 DEF FCBs
<1>5. SameFCBs(fcb, fcb') /\ \A s \in Refs : fcb'[s].dirty = fcb[s].dirty
  BY <1>3, <1>4 DEF SameFCBs
<1>6. LengthsKnown'
  <2> SUFFICES ASSUME NEW s \in Refs, fcb'[s].fork \in Forks \ strayed
               PROVE  fcb'[s].eof = length[fcb'[s].fork]
    BY <1>2 DEF LengthsKnown
  <2>1. CASE s = r
    BY <1>4, <2>1 DEF f
  <2>2. CASE s # r
    BY <1>1, <1>3, <2>2 DEF OpenInv, LengthsKnown
  <2> QED
    BY <2>1, <2>2
<1>7. NoWriteLost'
  BY <1>1, <1>2, <1>5 DEF OpenInv, NoWriteLost, Opened, SameFCBs
<1>8. strayed' \subseteq Forks /\ unpushed' \subseteq Forks /\ \A g \in unpushed' : g.res
  BY <1>1, <1>2 DEF OpenInv, OpenTypeOK
<1> QED
  BY <1>1, <1>2, <1>3, <1>5, <1>6, <1>7, <1>8, ContentKeeps

LEMMA DeleteKeeps ==
  ASSUME OpenInv, NEW c \in CNIDs, Delete(c)
  PROVE  OpenInv'
<1>1. /\ Running /\ c \in files /\ files' = files \ {c}
      /\ \A res \in BOOLEAN : UnivFirst(fcb, lists, [cnid |-> c, res |-> res]) = NoRef
      /\ UNCHANGED <<fcb, lists, length, unpushed, strayed, stuck>>
  BY DEF Delete
<1>2. ASSUME NEW r \in Refs, fcb[r].fork # NoFork PROVE fcb[r].fork.cnid \in files'
  <2> DEFINE f == fcb[r].fork
  <2>1. f \in Forks /\ f.cnid \in files /\ Rings(fcb, lists)
    BY <1>1, <1>2 DEF OpenInv, OpenTypeOK, OpenFilesExist, FCBs
  <2>2. r \in HaveOpen(fcb, f)
    BY DEF HaveOpen
  <2> HIDE DEF f
  <2>3. UnivFirst(fcb, lists, f) \in Refs
    BY <2>1, <2>2, SiblingsFound DEF HaveOpen
  <2>4. UnivFirst(fcb, lists, f) # NoRef
    BY <2>3, OpenFilesAssumption
  <2>5. f = [cnid |-> f.cnid, res |-> f.res] /\ f.res \in BOOLEAN
    BY <2>1 DEF Forks
  <2>6. f.cnid # c
    BY <1>1, <2>4, <2>5
  <2> QED
    BY <1>1, <2>1, <2>6 DEF f
<1>3. OpenFilesExist'
  BY <1>1, <1>2 DEF OpenFilesExist
<1>4. OpenTypeOK'
  BY <1>1 DEF OpenInv, OpenTypeOK
<1>5. ExclusiveWriter' /\ LengthsKnown' /\ NoWriteLost'
  BY <1>1 DEF OpenInv, ExclusiveWriter, LengthsKnown, NoWriteLost, Opened, Running
<1> QED
  BY <1>1, <1>3, <1>4, <1>5 DEF OpenInv, Running

LEMMA CloseAllKeeps ==
  ASSUME OpenInv, CloseAll
  PROVE  OpenInv'
<1>1. /\ Running /\ UNCHANGED <<length, files, strayed, stuck>>
      /\ lists' = [k \in Keys |-> NoRef] /\ unpushed' = {}
      /\ fcb' = [r \in Refs |-> IF r \in UNION {Siblings(fcb, lists, f) : f \in Forks}
                                  THEN [fcb[r] EXCEPT !.fork = NoFork] ELSE fcb[r]]
  BY DEF CloseAll
<1>2. fcb \in [Refs -> FCBs] /\ Rings(fcb, lists)
  BY <1>1 DEF OpenInv, OpenTypeOK
<1>3. ASSUME NEW r \in Refs PROVE fcb'[r] \in FCBs /\ fcb'[r].fork = NoFork
  <2>1. fcb[r] \in FCBs
    BY <1>2
  <2>2. CASE fcb[r].fork = NoFork
    BY <1>1, <2>1, <2>2 DEF FCBs
  <2>3. CASE fcb[r].fork # NoFork
    <3>1. fcb[r].fork \in Forks
      BY <2>1, <2>3 DEF FCBs
    <3>2. r \in Siblings(fcb, lists, fcb[r].fork)
      BY <1>2, <3>1, SiblingsFound DEF HaveOpen
    <3>3. fcb'[r] = [fcb[r] EXCEPT !.fork = NoFork]
      BY <1>1, <3>1, <3>2
    <3> QED
      BY <2>1, <3>3 DEF FCBs
  <2> QED
    BY <2>2, <2>3
<1>4. fcb' \in [Refs -> FCBs]
  <2>1. DOMAIN fcb' = Refs /\ fcb' = [r \in Refs |-> fcb'[r]]
    BY <1>1
  <2> QED
    BY <1>3, <2>1
<1>5. OpenTypeOK'
  BY <1>1, <1>4 DEF OpenInv, OpenTypeOK
<1>6. Rings(fcb', lists')
  BY <1>1, <1>3 DEF Rings, Linked
<1>7. ExclusiveWriter' /\ LengthsKnown' /\ NoWriteLost' /\ OpenFilesExist'
  BY <1>1, <1>3, ForkFacts DEF ExclusiveWriter, LengthsKnown, NoWriteLost, OpenFilesExist
<1> QED
  BY <1>1, <1>5, <1>6, <1>7 DEF OpenInv

LEMMA OpenInvStep == OpenInv /\ [OpenNext]_openVars => OpenInv'
<1> SUFFICES ASSUME OpenInv, [OpenNext]_openVars PROVE OpenInv'
  OBVIOUS
<1>1. ASSUME NEW r \in Refs, NEW f \in Forks, NEW perm \in Perms, Open(r, f, perm) PROVE OpenInv'
  BY <1>1, OpenKeeps
<1>2. ASSUME NEW r \in Refs, Close(r) PROVE OpenInv'
  BY <1>2, CloseKeeps
<1>3. ASSUME NEW r \in Refs, NEW start \in Lengths, NEW end \in Lengths, Write(r, start, end)
      PROVE  OpenInv'
  BY <1>3, WriteKeeps
<1>4. ASSUME NEW r \in Refs, NEW start \in Lengths, NEW end \in Lengths, Read(r, start, end)
      PROVE  OpenInv'
  BY <1>4, ReadKeeps
<1>5. ASSUME NEW r \in Refs, NEW len \in Lengths, SetEOF(r, len) PROVE OpenInv'
  BY <1>5, SetEOFKeeps
<1>6. ASSUME NEW r \in Refs, SeekEnd(r) PROVE OpenInv'
  BY <1>6, SeekEndKeeps
<1>7. ASSUME NEW r \in Refs, GetEOF(r) PROVE OpenInv'
  BY <1>7, GetEOFKeeps
<1>8. ASSUME NEW c \in CNIDs, Delete(c) PROVE OpenInv'
  BY <1>8, DeleteKeeps
<1>9. CASE CloseAll
  BY <1>9, CloseAllKeeps
<1>10. CASE UNCHANGED openVars
  BY <1>10 DEF openVars, OpenInv, OpenTypeOK, Running, ExclusiveWriter, LengthsKnown, NoWriteLost,
               OpenFilesExist, Opened
<1> QED
  BY <1>1, <1>2, <1>3, <1>4, <1>5, <1>6, <1>7, <1>8, <1>9, <1>10 DEF OpenNext

LEMMA OpenInvAlways == OpenSpec => []OpenInv
<1>1. OpenInit => OpenInv
  BY OpenInvInit
<1>2. OpenInv /\ [OpenNext]_openVars => OpenInv'
  BY OpenInvStep
<1> QED
  BY <1>1, <1>2, PTL DEF OpenSpec

-----------------------------------------------------------------------------
(***************************************************************************)
(* The results.                                                            *)
(***************************************************************************)
LEMMA RingsAreIntact == ASSUME OpenInv PROVE RingsIntact
<1>1. OpenTypeOK
  BY DEF OpenInv
<1>2. ASSUME Running, NEW k \in Keys
      PROVE  /\ lists[k] = NoRef <=> InRing(k) = {}
             /\ lists[k] # NoRef =>
                  /\ {Path(fcb, lists[k])[n] : n \in 0 .. Cardinality(Refs) - 1} = InRing(k)
                  /\ \A r \in InRing(k) : fcb[fcb[r].right].left = r /\ fcb[fcb[r].left].right = r
  <2> DEFINE h == lists[k]
             p == Path(fcb, h)
             S == InRing(k)
  <2>1. S = Linked(fcb, k)
    BY DEF InRing, Linked
  <2>2. IF S = {} THEN h = NoRef ELSE Ring(fcb, h, S)
    BY <1>2, <2>1 DEF OpenInv, Rings
  <2>3. S # {} => h # NoRef
    BY <2>2, OpenFilesAssumption DEF Ring
  <2>4. ASSUME S # {}
        PROVE  /\ {p[n] : n \in 0 .. N - 1} = S
               /\ \A r \in S : fcb[fcb[r].right].left = r /\ fcb[fcb[r].left].right = r
    <3>1. Ring(fcb, h, S)
      BY <2>2, <2>4
    <3> HIDE DEF h, S
    <3>2. /\ \A n \in 0 .. N : p[n] \in S
          /\ \E j \in 1 .. N : \A s \in S : \E m \in 0 .. j - 1 : p[m] = s
      BY <3>1, PathReturns
    <3>3. N \in Nat
      BY SizeOfTable
    <3> HIDE DEF p
    <3>4. \A n \in 0 .. N - 1 : p[n] \in S
      BY <3>2, <3>3
    <3>5. \A s \in S : \E m \in 0 .. N - 1 : p[m] = s
      BY <3>2, <3>3
    <3>6. \A r \in S : fcb[fcb[r].right].left = r /\ fcb[fcb[r].left].right = r
      BY <3>1 DEF Ring
    <3> QED
      BY <3>4, <3>5, <3>6
  <2>5. N = Cardinality(Refs)
    BY DEF N
  <2> HIDE DEF h, p, S, N
  <2>6. h = NoRef <=> S = {}
    BY <2>2, <2>3
  <2>7. h # NoRef => /\ {p[n] : n \in 0 .. Cardinality(Refs) - 1} = S
                     /\ \A r \in S : fcb[fcb[r].right].left = r /\ fcb[fcb[r].left].right = r
    BY <2>4, <2>5, <2>6
  <2> QED
    BY <2>6, <2>7 DEF h, p, S
<1> QED
  BY <1>1, <1>2 DEF RingsIntact

\* After any number of opens, closes, deletions and unmounts the open FCBs of
\* each hash form one doubly linked ring which its list starts in
\* (UnivEnlistFile, UnivDelistFile, UnivCloseAll).
THEOREM RingsStayIntact == OpenSpec => []RingsIntact
<1>1. OpenInv => RingsIntact
  BY RingsAreIntact
<1> QED
  BY <1>1, OpenInvAlways, PTL

\* fsOpen's look at the fork's other FCBs leaves a writer that did not ask to
\* share the only one.
THEOREM WriterStaysExclusive == OpenSpec => []ExclusiveWriter
<1>1. OpenInv => ExclusiveWriter
  BY DEF OpenInv
<1> QED
  BY <1>1, OpenInvAlways, PTL

\* fsWrite, fsRead and fsSetEOF tell all FCBs of a fork its length
\* (updateKnownLength), unless a read strayed beyond its end.
THEOREM LengthsStayKnown == OpenSpec => []LengthsKnown
<1>1. OpenInv => LengthsKnown
  BY DEF OpenInv
<1> QED
  BY <1>1, OpenInvAlways, PTL

\* A resource fork written to has a marked FCB until it is brought to its
\* sidecar, although the loops of write3, seteof3 and close3 come to at most
\* two of the fork's FCBs.
THEOREM NoWriteIsLost == OpenSpec => []NoWriteLost
<1>1. OpenInv => NoWriteLost
  BY DEF OpenInv
<1> QED
  BY <1>1, OpenInvAlways, PTL

\* fsDelete finds every open fork of the file it is to delete.
THEOREM OpenFilesStay == OpenSpec => []OpenFilesExist
<1>1. OpenInv => OpenFilesExist
  BY DEF OpenInv
<1> QED
  BY <1>1, OpenInvAlways, PTL

=============================================================================
