------------------------------ MODULE TuiProofs ------------------------------
(***************************************************************************)
(* Proofs about the parts of the TUI, each for behaviours of any length:   *)
(* the table (TableSelection, for any scans, filters and numbers of        *)
(* fields), the schedule of its scans (ScanScheduler, for any number of    *)
(* events) and the cache of URL schemes that its links are made from       *)
(* (SchemeCache, for any readers, probers and time to live).               *)
(***************************************************************************)
EXTENDS TableSelection, ScanScheduler, SchemeCache,
        FiniteSetTheorems, SequenceTheorems, WellFoundedInduction, TLAPS

-----------------------------------------------------------------------------
(* Counting: a finite set in order *)

\* In a finite strict total order, given by the elements below each element,
\* every number from 0 on is that of the elements below exactly one.
LEMMA Ranks ==
  ASSUME NEW S, IsFiniteSet(S), NEW below \in [S -> SUBSET S],
         \A x \in S : x \notin below[x],
         \A x, y \in S : x \in below[y] => below[x] \subseteq below[y],
         \A x, y \in S : x # y => x \in below[y] \/ y \in below[x]
  PROVE  /\ Cardinality(S) \in Nat
         /\ \A i \in 1 .. Cardinality(S) : \E x \in S : Cardinality(below[x]) = i - 1
         /\ \A x \in S : Cardinality(below[x]) + 1 \in 1 .. Cardinality(S)
         /\ \A x, y \in S : Cardinality(below[x]) = Cardinality(below[y]) => x = y
<1> DEFINE n == Cardinality(S)
           rank == [x \in S |-> Cardinality(below[x]) + 1]
<1>1. n \in Nat
  BY FS_CardinalityType
<1>2. ASSUME NEW x \in S
      PROVE  IsFiniteSet(below[x]) /\ Cardinality(below[x]) \in Nat /\ Cardinality(below[x]) < n
  <2>1. below[x] \in SUBSET S /\ below[x] # S
    OBVIOUS
  <2>2. IsFiniteSet(below[x]) /\ Cardinality(below[x]) <= n /\ Cardinality(below[x]) # n
    BY <2>1, FS_Subset
  <2>3. Cardinality(below[x]) \in Nat
    BY <2>2, FS_CardinalityType
  <2>4. QED
    BY <1>1, <2>2, <2>3
<1>3. ASSUME NEW x \in S, NEW y \in S, x \in below[y]
      PROVE  Cardinality(below[x]) < Cardinality(below[y])
  <2>1. below[x] \in SUBSET below[y] /\ below[x] # below[y]
    BY <1>3
  <2>2. /\ Cardinality(below[x]) <= Cardinality(below[y])
        /\ Cardinality(below[x]) # Cardinality(below[y])
    BY <1>2, <2>1, FS_Subset
  <2>3. QED
    BY <1>2, <2>2
<1>4. ASSUME NEW x \in S, NEW y \in S, Cardinality(below[x]) = Cardinality(below[y])
      PROVE  x = y
  BY <1>2, <1>3, <1>4
<1>5. rank \in Injection(S, 1 .. n)
  <2>1. rank \in [S -> 1 .. n]
    BY <1>1, <1>2
  <2>2. ASSUME NEW x \in S, NEW y \in S, rank[x] = rank[y] PROVE x = y
    BY <1>2, <1>4, <2>2
  <2>3. QED
    BY <2>1, <2>2 DEF Injection, IsInjective
<1>6. IsFiniteSet(1 .. n) /\ Cardinality(1 .. n) = n
  BY <1>1, FS_Interval
<1>7. rank \in Surjection(S, 1 .. n)
  BY <1>5, <1>6, FS_Injection
<1>8. ASSUME NEW i \in 1 .. n PROVE \E x \in S : Cardinality(below[x]) = i - 1
  <2>1. PICK x \in S : rank[x] = i
    BY <1>7, <1>8 DEF Surjection
  <2>2. QED
    BY <1>2, <2>1
<1>9. QED
  BY <1>1, <1>2, <1>4, <1>8

\* A function on the first n numbers is a list of length n.
LEMMA FunctionsAreLists ==
  ASSUME NEW S, NEW n \in Nat, NEW f \in [1 .. n -> S]
  PROVE  f \in Seq(S) /\ Len(f) = n
  OBVIOUS

\* InOrder lists every element of such an order, and nothing else.
LEMMA Listed ==
  ASSUME NEW S, IsFiniteSet(S), NEW below \in [S -> SUBSET S],
         \A x \in S : x \notin below[x],
         \A x, y \in S : x \in below[y] => below[x] \subseteq below[y],
         \A x, y \in S : x # y => x \in below[y] \/ y \in below[x]
  PROVE  /\ InOrder(S, below) \in Seq(S)
         /\ \A x \in S : \E i \in 1 .. Len(InOrder(S, below)) : InOrder(S, below)[i] = x
<1> DEFINE n == Cardinality(S)
           pick(i) == CHOOSE x \in S : Cardinality(below[x]) = i - 1
           list == [i \in 1 .. n |-> pick(i)]
<1>1. /\ n \in Nat
      /\ \A i \in 1 .. n : \E x \in S : Cardinality(below[x]) = i - 1
      /\ \A x \in S : Cardinality(below[x]) + 1 \in 1 .. n
      /\ \A x, y \in S : Cardinality(below[x]) = Cardinality(below[y]) => x = y
  BY Ranks
<1>2. InOrder(S, below) = list
  BY DEF InOrder
<1>3. ASSUME NEW i \in 1 .. n PROVE pick(i) \in S /\ Cardinality(below[pick(i)]) = i - 1
  BY <1>1
<1>4. list \in [1 .. n -> S]
  BY <1>3
<1> HIDE DEF pick
<1>5. list \in Seq(S) /\ Len(list) = n
  <2>1. \A f \in [1 .. n -> S] : f \in Seq(S) /\ Len(f) = n
    BY <1>1, FunctionsAreLists
  <2> HIDE DEF list
  <2>2. QED
    BY <1>4, <2>1
<1>6. ASSUME NEW x \in S PROVE \E i \in 1 .. n : list[i] = x
  <2> DEFINE k == Cardinality(below[x]) + 1
  <2>1. k \in 1 .. n
    BY <1>1
  <2>2. IsFiniteSet(below[x]) /\ Cardinality(below[x]) \in Nat
    BY FS_Subset, FS_CardinalityType
  <2>3. Cardinality(below[pick(k)]) = Cardinality(below[x]) /\ pick(k) \in S
    BY <1>3, <2>1, <2>2
  <2>4. pick(k) = x
    BY <1>1, <2>3
  <2>5. QED
    BY <2>1, <2>4
<1>7. QED
  BY <1>2, <1>5, <1>6

-----------------------------------------------------------------------------
(* The order of the lines *)

\* Rows are in a strict total order, whatever is pinned.
LEMMA RowOrder ==
  ASSUME NEW inView \in SUBSET Listeners, \A r, s \in inView : r.pid = s.pid => r = s,
         NEW up, NEW pins, NEW a \in inView, NEW b \in inView, NEW c \in inView
  PROVE  /\ ~Before(a, a, up, pins)
         /\ Before(a, b, up, pins) /\ Before(b, c, up, pins) => Before(a, c, up, pins)
         /\ a # b => Before(a, b, up, pins) \/ Before(b, a, up, pins)
<1>1. a.pid \in Int /\ b.pid \in Int /\ c.pid \in Int /\ (a # b => a.pid # b.pid)
  BY SelectionAssumption
<1>2. QED
  BY <1>1 DEF Before

\* Every group has a row that comes before all others of it.
LEMMA GroupHasFirst ==
  ASSUME NEW inView \in SUBSET Listeners, \A r, s \in inView : r.pid = s.pid => r = s,
         IsFiniteSet(inView), NEW up, NEW pins, NEW G \in SUBSET inView, G # {}
  PROVE  \E r \in G : \A s \in G : s = r \/ Before(r, s, up, pins)
<1> DEFINE below == [x \in G |-> {y \in G : Before(y, x, up, pins)}]
<1>1. IsFiniteSet(G) /\ Cardinality(G) \in Nat /\ Cardinality(G) # 0
  BY FS_Subset, FS_EmptySet, FS_CardinalityType
<1>2. below \in [G -> SUBSET G]
  OBVIOUS
<1>3. /\ \A x \in G : x \notin below[x]
      /\ \A x, y \in G : x \in below[y] => below[x] \subseteq below[y]
      /\ \A x, y \in G : x # y => x \in below[y] \/ y \in below[x]
  BY RowOrder
<1>4. \E r \in G : Cardinality(below[r]) = 0
  <2> HIDE DEF below
  <2>1. \A i \in 1 .. Cardinality(G) : \E x \in G : Cardinality(below[x]) = i - 1
    BY <1>1, <1>2, <1>3, Ranks
  <2>2. QED
    BY <1>1, <2>1
<1>5. PICK r \in G : Cardinality(below[r]) = 0
  BY <1>4
<1>6. below[r] = {}
  <2>1. below[r] \in SUBSET G
    BY <1>2
  <2>2. QED
    BY <1>1, <1>5, <2>1, FS_Subset, FS_EmptySet
<1>7. QED
  BY <1>3, <1>6

\* Groups are in a strict total order too: that of their first rows.
LEMMA GroupOrder ==
  ASSUME NEW inView \in SUBSET Listeners, \A r, s \in inView : r.pid = s.pid => r = s,
         IsFiniteSet(inView), NEW up, NEW pins, NEW o, NEW p, NEW t,
         GroupOf(inView, o) # {}, GroupOf(inView, p) # {}, GroupOf(inView, t) # {}
  PROVE  /\ OwnerBefore(o, p, inView, up, pins) => ~OwnerBefore(p, o, inView, up, pins)
         /\ OwnerBefore(o, p, inView, up, pins) /\ OwnerBefore(p, t, inView, up, pins) =>
                OwnerBefore(o, t, inView, up, pins)
         /\ o # p => OwnerBefore(o, p, inView, up, pins) \/ OwnerBefore(p, o, inView, up, pins)
<1> DEFINE before(r, s) == Before(r, s, up, pins)
<1>1. \A r, s, u \in inView :
          /\ ~before(r, r)
          /\ before(r, s) /\ before(s, u) => before(r, u)
          /\ r # s => before(r, s) \/ before(s, r)
  BY RowOrder
<1>2. \A x : GroupOf(inView, x) \in SUBSET inView
  BY DEF GroupOf
<1>3. o # p => GroupOf(inView, o) \cap GroupOf(inView, p) = {}
  BY DEF GroupOf
<1>4. PICK r \in GroupOf(inView, o) : \A s \in GroupOf(inView, o) : s = r \/ before(r, s)
  BY <1>2, GroupHasFirst
<1>5. PICK u \in GroupOf(inView, p) : \A s \in GroupOf(inView, p) : s = u \/ before(u, s)
  BY <1>2, GroupHasFirst
<1> HIDE DEF before
<1>6. o # p => r # u
  BY <1>3
<1>7. \A x, y : OwnerBefore(x, y, inView, up, pins) <=>
          \E a \in GroupOf(inView, x) : \A b \in GroupOf(inView, y) : before(a, b)
  BY DEF OwnerBefore, before
<1>8. OwnerBefore(o, p, inView, up, pins) => ~OwnerBefore(p, o, inView, up, pins)
  BY <1>1, <1>2, <1>7
<1>9. OwnerBefore(o, p, inView, up, pins) /\ OwnerBefore(p, t, inView, up, pins) =>
          OwnerBefore(o, t, inView, up, pins)
  BY <1>1, <1>2, <1>7
<1>10. o # p => OwnerBefore(o, p, inView, up, pins) \/ OwnerBefore(p, o, inView, up, pins)
  <2> SUFFICES ASSUME o # p
               PROVE  OwnerBefore(o, p, inView, up, pins) \/ OwnerBefore(p, o, inView, up, pins)
    OBVIOUS
  <2>1. before(r, u) \/ before(u, r)
    BY <1>1, <1>2, <1>6
  <2>2. CASE before(r, u)
    BY <1>1, <1>2, <1>5, <1>7, <2>2
  <2>3. CASE before(u, r)
    BY <1>1, <1>2, <1>4, <1>7, <2>3
  <2>4. QED
    BY <2>1, <2>2, <2>3
<1>11. QED
  BY <1>8, <1>9, <1>10

\* What the lines are made of: listeners with PIDs of their own.
Sound(rows) == rows \in SUBSET Listeners /\ IsFiniteSet(rows)
                 /\ \A r, s \in rows : r.pid = s.pid => r = s
AllLines == {Line(r) : r \in Listeners} \cup {Header(o) : o \in Owners}

LEMMA ScansAreSound == \A S \in Scans \cup {{}} : Sound(S)
<1>1. \A S \in Scans : Sound(S)
  BY SelectionAssumption DEF Sound, Listeners
<1>2. Sound({})
  BY FS_EmptySet DEF Sound
<1>3. QED
  BY <1>1, <1>2

LEMMA MatchingIsSound ==
  ASSUME NEW rows, Sound(rows), NEW q
  PROVE  Sound(Matching(rows, q)) /\ Matching(rows, q) \subseteq rows
<1>1. Matching(rows, q) \in SUBSET rows
  BY DEF Matching
<1>2. QED
  BY <1>1, FS_Subset DEF Sound

\* Headers and rows are told apart.
LEMMA LineKinds ==
  /\ \A r : Line(r).header = FALSE /\ Line(r).row = r /\ OwnerOf(Line(r)) = r.owner
  /\ \A o : Header(o).header = TRUE /\ Header(o).row = NoRow /\ OwnerOf(Header(o)) = o
  BY DEF Line, Header, OwnerOf

\* There are finitely many lines, each for a row in view or a group of such.
LEMMA ShownLines ==
  ASSUME NEW inView, Sound(inView), NEW q, NEW pins, NEW group, NEW fold
  PROVE  /\ IsFiniteSet(Shown(inView, q, pins, group, fold))
         /\ \A x \in Shown(inView, q, pins, group, fold) :
                /\ GroupOf(inView, OwnerOf(x)) # {}
                /\ \/ x = Header(OwnerOf(x)) /\ x.header = TRUE /\ OwnerOf(x) \in Owners
                   \/ x = Line(x.row) /\ x.header = FALSE /\ x.row \in inView
         /\ Shown(inView, q, pins, group, fold) \subseteq AllLines
<1> DEFINE open == {s \in inView : ~group \/ ~Folded(GroupOf(inView, s.owner), q, pins, fold[s.owner])}
           heads == {s \in inView : group}
           ofRow == [r \in open |-> Line(r)]
           ofGroup == [r \in heads |-> Header(r.owner)]
           rowLines == {Line(r) : r \in open}
           headLines == {Header(r.owner) : r \in heads}
<1>1. IsFiniteSet(open) /\ IsFiniteSet(heads)
  <2>1. open \in SUBSET inView /\ heads \in SUBSET inView
    OBVIOUS
  <2>2. QED
    BY <2>1, FS_Subset DEF Sound
<1>2. Shown(inView, q, pins, group, fold) = rowLines \cup headLines
  BY DEF Shown
<1>3. open \subseteq inView /\ heads \subseteq inView
  OBVIOUS
<1> HIDE DEF open, heads
<1>4. ofRow \in Surjection(open, rowLines) /\ ofGroup \in Surjection(heads, headLines)
  BY DEF Surjection
<1>5. IsFiniteSet(rowLines) /\ IsFiniteSet(headLines)
  BY <1>1, <1>4, FS_Surjection
<1>6. IsFiniteSet(Shown(inView, q, pins, group, fold))
  BY <1>2, <1>5, FS_Union
<1>7. ASSUME NEW x \in rowLines
      PROVE  /\ x = Line(x.row) /\ x.header = FALSE /\ x.row \in inView
             /\ GroupOf(inView, OwnerOf(x)) # {} /\ x \in AllLines
  <2>1. PICK r \in inView : x = Line(r)
    BY <1>3
  <2>2. r \in GroupOf(inView, r.owner) /\ r \in Listeners
    BY DEF GroupOf, Sound
  <2>3. QED
    BY <2>1, <2>2, LineKinds DEF AllLines
<1>8. ASSUME NEW x \in headLines
      PROVE  /\ x = Header(OwnerOf(x)) /\ x.header = TRUE /\ OwnerOf(x) \in Owners
             /\ GroupOf(inView, OwnerOf(x)) # {} /\ x \in AllLines
  <2>1. PICK r \in inView : x = Header(r.owner)
    BY <1>3
  <2>2. r \in GroupOf(inView, r.owner) /\ r \in Listeners /\ r.owner \in Owners
    BY DEF GroupOf, Sound, Owners
  <2>3. QED
    BY <2>1, <2>2, LineKinds DEF AllLines
<1> HIDE DEF rowLines, headLines
<1>9. ASSUME NEW x \in Shown(inView, q, pins, group, fold)
      PROVE  /\ GroupOf(inView, OwnerOf(x)) # {} /\ x \in AllLines
             /\ \/ x = Header(OwnerOf(x)) /\ x.header = TRUE /\ OwnerOf(x) \in Owners
                \/ x = Line(x.row) /\ x.header = FALSE /\ x.row \in inView
  <2>1. x \in rowLines \/ x \in headLines
    BY <1>2
  <2>2. CASE x \in rowLines
    BY <1>7, <2>2
  <2>3. CASE x \in headLines
    BY <1>8, <2>3
  <2>4. QED
    BY <2>1, <2>2, <2>3
<1>10. QED
  BY <1>6, <1>9

\* The lines are in a strict total order: groups by their first rows, headers
\* before the rows of their groups.
LEMMA LineOrder ==
  ASSUME NEW inView, Sound(inView), NEW q, NEW up, NEW pins, NEW group, NEW fold,
         NEW a \in Shown(inView, q, pins, group, fold),
         NEW b \in Shown(inView, q, pins, group, fold),
         NEW c \in Shown(inView, q, pins, group, fold)
  PROVE  /\ ~LineBefore(a, a, inView, up, pins, group)
         /\ LineBefore(a, b, inView, up, pins, group) /\ LineBefore(b, c, inView, up, pins, group) =>
                LineBefore(a, c, inView, up, pins, group)
         /\ a # b => LineBefore(a, b, inView, up, pins, group) \/ LineBefore(b, a, inView, up, pins, group)
<1> DEFINE rowBefore(x, y) == Before(x.row, y.row, up, pins)
           groupBefore(x, y) == OwnerBefore(OwnerOf(x), OwnerOf(y), inView, up, pins)
           O(x) == OwnerOf(x)
<1>1. \A x \in {a, b, c} :
          /\ GroupOf(inView, O(x)) # {}
          /\ \/ x = Header(O(x)) /\ x.header = TRUE
             \/ x = Line(x.row) /\ x.header = FALSE /\ x.row \in inView
  <2>1. \A x \in Shown(inView, q, pins, group, fold) :
            /\ GroupOf(inView, OwnerOf(x)) # {}
            /\ \/ x = Header(OwnerOf(x)) /\ x.header = TRUE /\ OwnerOf(x) \in Owners
               \/ x = Line(x.row) /\ x.header = FALSE /\ x.row \in inView
    BY ShownLines
  <2>2. QED
    BY <2>1
<1>2. inView \in SUBSET Listeners /\ IsFiniteSet(inView) /\ \A r, s \in inView : r.pid = s.pid => r = s
  BY DEF Sound
<1>3. \A x, y, z \in {a, b, c} :
          /\ groupBefore(x, y) => ~groupBefore(y, x)
          /\ groupBefore(x, y) /\ groupBefore(y, z) => groupBefore(x, z)
          /\ O(x) # O(y) => groupBefore(x, y) \/ groupBefore(y, x)
  <2>1. ASSUME NEW x \in {a, b, c}, NEW y \in {a, b, c}, NEW z \in {a, b, c}
        PROVE  /\ groupBefore(x, y) => ~groupBefore(y, x)
               /\ groupBefore(x, y) /\ groupBefore(y, z) => groupBefore(x, z)
               /\ O(x) # O(y) => groupBefore(x, y) \/ groupBefore(y, x)
    BY <1>1, <1>2, GroupOrder
  <2>2. QED
    BY <2>1
<1>4. \A x, y, z \in {a, b, c} :
          x.header = FALSE /\ y.header = FALSE /\ z.header = FALSE =>
          /\ ~rowBefore(x, x)
          /\ rowBefore(x, y) /\ rowBefore(y, z) => rowBefore(x, z)
          /\ x.row # y.row => rowBefore(x, y) \/ rowBefore(y, x)
  <2>1. ASSUME NEW x \in {a, b, c}, NEW y \in {a, b, c}, NEW z \in {a, b, c},
               x.header = FALSE, y.header = FALSE, z.header = FALSE
        PROVE  /\ ~rowBefore(x, x)
               /\ rowBefore(x, y) /\ rowBefore(y, z) => rowBefore(x, z)
               /\ x.row # y.row => rowBefore(x, y) \/ rowBefore(y, x)
    <3>1. x.row \in inView /\ y.row \in inView /\ z.row \in inView
      BY <1>1, <2>1
    <3>2. QED
      BY <1>2, <3>1, RowOrder
  <2> HIDE DEF rowBefore
  <2>2. QED
    BY <2>1
<1>5. \A x, y \in {a, b, c} : LineBefore(x, y, inView, up, pins, group) <=>
          IF group /\ O(x) # O(y) THEN groupBefore(x, y)
          ELSE ~y.header /\ (x.header \/ rowBefore(x, y))
  BY DEF LineBefore
<1>6. ~group => \A x \in {a, b, c} : x.header = FALSE
  BY LineKinds DEF Shown
<1>7. \A x, y \in {a, b, c} : O(x) = O(y) /\ x.header /\ y.header => x = y
  BY <1>1
<1>8. \A x, y \in {a, b, c} : ~x.header /\ ~y.header /\ x.row = y.row => x = y
  BY <1>1
<1>9. \A x \in {a, b, c} : x.header \in BOOLEAN
  BY <1>1
<1> HIDE DEF rowBefore, groupBefore, O
<1>10. CASE group
  <2>1. ~LineBefore(a, a, inView, up, pins, group)
    BY <1>4, <1>5, <1>9, <1>10
  <2>2. LineBefore(a, b, inView, up, pins, group) /\ LineBefore(b, c, inView, up, pins, group) =>
            LineBefore(a, c, inView, up, pins, group)
    <3> SUFFICES ASSUME LineBefore(a, b, inView, up, pins, group),
                        LineBefore(b, c, inView, up, pins, group)
                 PROVE  LineBefore(a, c, inView, up, pins, group)
      OBVIOUS
    <3>1. CASE O(a) = O(b) /\ O(b) = O(c)
      BY <1>4, <1>5, <1>9, <3>1
    <3>2. CASE O(a) = O(b) /\ O(b) # O(c)
      <4>1. groupBefore(b, c) /\ O(a) # O(c)
        BY <1>5, <1>10, <3>2
      <4>2. groupBefore(a, c)
        BY <4>1, <3>2 DEF groupBefore, O
      <4>3. QED
        BY <1>5, <1>10, <4>1, <4>2
    <3>3. CASE O(a) # O(b) /\ O(b) = O(c)
      <4>1. groupBefore(a, b) /\ O(a) # O(c)
        BY <1>5, <1>10, <3>3
      <4>2. groupBefore(a, c)
        BY <4>1, <3>3 DEF groupBefore, O
      <4>3. QED
        BY <1>5, <1>10, <4>1, <4>2
    <3>4. CASE O(a) # O(b) /\ O(b) # O(c)
      <4>1. groupBefore(a, b) /\ groupBefore(b, c)
        BY <1>5, <1>10, <3>4
      <4>2. groupBefore(a, c) /\ ~groupBefore(c, b)
        BY <1>3, <4>1
      <4>3. O(a) # O(c)
        BY <4>1, <4>2 DEF groupBefore, O
      <4>4. QED
        BY <1>5, <1>10, <4>2, <4>3
    <3>5. QED
      BY <3>1, <3>2, <3>3, <3>4
  <2>3. a # b => LineBefore(a, b, inView, up, pins, group) \/ LineBefore(b, a, inView, up, pins, group)
    BY <1>3, <1>4, <1>5, <1>7, <1>8, <1>9, <1>10
  <2>4. QED
    BY <2>1, <2>2, <2>3
<1>11. CASE ~group
  BY <1>4, <1>5, <1>6, <1>8, <1>11
<1>12. QED
  BY <1>10, <1>11

\* LinesOf is a list of exactly the lines that are shown.
LEMMA LinesListed ==
  ASSUME NEW rows \in Scans \cup {{}}, NEW q, NEW up, NEW pins, NEW group, NEW fold
  PROVE  /\ LinesOf(rows, q, up, pins, group, fold) \in Seq(AllLines)
         /\ \A x \in Shown(Matching(rows, q), q, pins, group, fold) :
                \E i \in 1 .. Len(LinesOf(rows, q, up, pins, group, fold)) :
                    LinesOf(rows, q, up, pins, group, fold)[i] = x
<1> DEFINE inView == Matching(rows, q)
           shown == Shown(inView, q, pins, group, fold)
           below == [x \in shown |-> {y \in shown : LineBefore(y, x, inView, up, pins, group)}]
<1>1. Sound(inView)
  BY ScansAreSound, MatchingIsSound
<1>2. IsFiniteSet(shown) /\ shown \subseteq AllLines
  BY <1>1, ShownLines
<1>3. LinesOf(rows, q, up, pins, group, fold) = InOrder(shown, below)
  BY DEF LinesOf
<1>4. \A x, y, z \in shown :
          /\ ~LineBefore(x, x, inView, up, pins, group)
          /\ LineBefore(x, y, inView, up, pins, group) /\ LineBefore(y, z, inView, up, pins, group) =>
                 LineBefore(x, z, inView, up, pins, group)
          /\ x # y => LineBefore(x, y, inView, up, pins, group) \/ LineBefore(y, x, inView, up, pins, group)
  BY <1>1, LineOrder
<1> HIDE DEF inView, shown
<1>5. /\ below \in [shown -> SUBSET shown]
      /\ \A x \in shown : x \notin below[x]
      /\ \A x, y \in shown : x \in below[y] => below[x] \subseteq below[y]
      /\ \A x, y \in shown : x # y => x \in below[y] \/ y \in below[x]
  BY <1>4
<1> HIDE DEF below
<1>6. /\ InOrder(shown, below) \in Seq(shown)
      /\ \A x \in shown : \E i \in 1 .. Len(InOrder(shown, below)) : InOrder(shown, below)[i] = x
  BY <1>2, <1>5, Listed
<1>7. InOrder(shown, below) \in Seq(AllLines)
  BY <1>2, <1>6, SeqMonotonic
<1>8. QED
  BY <1>3, <1>6, <1>7 DEF shown, inView

-----------------------------------------------------------------------------
(* The invariant, by what an action can disturb *)

\* What the lines are made of, and the lines.
DataInv ==
    /\ all \in Scans \cup {{}} /\ query \in {"", "text"} /\ asc \in BOOLEAN
    /\ favs \subseteq Ports /\ grouped \in BOOLEAN
    /\ collapsed \in [Owners -> {"unset", "open", "folded"}]
    /\ LinesAreCurrent

\* The selection.
SelectionInv ==
    /\ cursor \in 1 .. Max2(1, Len(items)) /\ selectionLost \in BOOLEAN
    /\ paneFocus \in BOOLEAN /\ paneIdx \in Nat
    /\ paneFocus => IsRow(Highlight)

\* What captures the next key, and the rows that are pinned for it.
ModalInv ==
    /\ filtering \in BOOLEAN /\ confirm \in BOOLEAN
    /\ actionMenu \in BOOLEAN /\ copyMenu \in BOOLEAN
    /\ {confirmed, actionRow, copyRow, picked} \subseteq Listeners \cup {NoRow}
    /\ ~(confirm /\ actionMenu) /\ ~(confirm /\ copyMenu) /\ ~(confirm /\ filtering)
    /\ ~(actionMenu /\ copyMenu) /\ ~(actionMenu /\ filtering) /\ ~(copyMenu /\ filtering)
    /\ PinnedRowIsPicked

\* What is under the highlight is a listener, a header or nothing.
LEMMA LinesTyped == DataInv => items \in Seq(AllLines)
<1> SUFFICES ASSUME DataInv PROVE items \in Seq(AllLines)
  OBVIOUS
<1>1. all \in Scans \cup {{}} /\ items = LinesOf(all, query, asc, favs, grouped, collapsed)
  BY DEF DataInv, LinesAreCurrent
<1>2. QED
  BY <1>1, LinesListed

LEMMA NextLinesTyped == DataInv' => items' \in Seq(AllLines)
<1> SUFFICES ASSUME DataInv' PROVE items' \in Seq(AllLines)
  OBVIOUS
<1>1. /\ all' \in Scans \cup {{}}
      /\ items' = LinesOf(all', query', asc', favs', grouped', collapsed')
  BY DEF DataInv, LinesAreCurrent
<1>2. QED
  BY <1>1, LinesListed

LEMMA HighlightTyped ==
  ASSUME DataInv, SelectionInv
  PROVE  /\ Highlight = NoLine \/ Highlight \in AllLines
         /\ IsRow(Highlight) => Highlight.row \in Listeners
         /\ selectionLost => Highlight = NoLine
<1>1. items \in Seq(AllLines)
  BY LinesTyped
<1>2. Highlight = NoLine \/ Highlight \in AllLines
  BY <1>1, ElementOfSeq DEF Highlight, At
<1>3. ASSUME IsRow(Highlight) PROVE Highlight.row \in Listeners
  <2>1. Highlight \in AllLines
    <3>1. NoLine.row = NoRow
      BY DEF NoLine
    <3>2. QED
      BY <1>2, <1>3, <3>1 DEF IsRow
  <2>2. QED
    BY <1>3, <2>1, LineKinds DEF IsRow, AllLines
<1>4. selectionLost => Highlight = NoLine
  BY DEF Highlight, At
<1>5. QED
  BY <1>2, <1>3, <1>4

\* A number that is clamped lies within, and stays the same if it did.
LEMMA Within ==
  ASSUME NEW c \in Int, NEW n \in Nat
  PROVE  /\ Max2(1, Min2(c, n)) \in 1 .. Max2(1, n)
         /\ c \in 1 .. n => Max2(1, Min2(c, n)) = c
  BY DEF Max2, Min2

\* clamp: the cursor is on a line if there is one, and the pane keeps the focus
\* only on a row.
LEMMA Clamped ==
  ASSUME NEW lines \in Seq(AllLines), NEW c \in Int, NEW lost \in BOOLEAN, NEW pane \in BOOLEAN,
         Clamp(lines, c, lost, pane)
  PROVE  /\ cursor' \in 1 .. Max2(1, Len(items')) /\ selectionLost' = lost
         /\ paneFocus' \in BOOLEAN /\ (paneFocus' => IsRow(Highlight'))
         /\ c \in 1 .. Len(lines) => cursor' = c
<1>1. Len(lines) \in Nat /\ DOMAIN lines = 1 .. Len(lines)
  BY LenProperties
<1>2. /\ items' = lines /\ cursor' = Max2(1, Min2(c, Len(lines))) /\ selectionLost' = lost
      /\ paneFocus' = (pane /\ IsRow(At(lines, c, lost)))
  BY DEF Clamp
<1>3. cursor' \in 1 .. Max2(1, Len(lines)) /\ (c \in 1 .. Len(lines) => cursor' = c)
  BY <1>1, <1>2, Within
<1>4. IsRow(At(lines, c, lost)) => c \in 1 .. Len(lines)
  BY <1>1 DEF At, IsRow, NoLine
<1>5. c \in 1 .. Len(lines) => At(items', cursor', selectionLost') = At(lines, c, lost)
  BY <1>2, <1>3
<1>6. Highlight' = At(items', cursor', selectionLost')
  BY DEF Highlight
<1>7. paneFocus' \in BOOLEAN
  BY <1>2 DEF IsRow
<1>8. paneFocus' => IsRow(Highlight')
  BY <1>2, <1>4, <1>5, <1>6
<1>9. QED
  BY <1>2, <1>3, <1>7, <1>8

\* The least of a set of line numbers, which restoreSelection looks for.
LEMMA LeastLine ==
  ASSUME NEW T \in SUBSET Nat, T # {}
  PROVE  \E i \in T : \A j \in T : i <= j
<1>1. PICK i \in T : \A j \in T : ~(<<j, i>> \in OpToRel(<, Nat))
  BY NatLessThanWellFounded, WFMin
<1>2. \A j \in T : ~(j < i)
  BY <1>1 DEF OpToRel
<1>3. QED
  BY <1>2

\* restoreSelection: the highlight stays lost, stays on what was held, or is
\* lost now.
LEMMA Restored ==
  ASSUME NEW lines \in Seq(AllLines), NEW held, NEW wasLost \in BOOLEAN,
         cursor \in Int, paneFocus \in BOOLEAN, Restore(lines, held, wasLost)
  PROVE  /\ cursor' \in 1 .. Max2(1, Len(items')) /\ selectionLost' \in BOOLEAN
         /\ paneFocus' \in BOOLEAN /\ (paneFocus' => IsRow(Highlight'))
         /\ items' = lines
         /\ wasLost => Highlight' = NoLine
         /\ ~wasLost /\ held # NoLine => Highlight' = NoLine \/ SameLine(held, Highlight')
<1> DEFINE same == {i \in DOMAIN lines : SameLine(held, lines[i])}
           first == CHOOSE i \in same : \A j \in same : i <= j
<1>1. Len(lines) \in Nat /\ DOMAIN lines = 1 .. Len(lines)
  BY LenProperties
<1>2. selectionLost' => Highlight' = NoLine
  BY DEF Highlight, At
<1>3. \A c \in Int, lost \in BOOLEAN, pane \in BOOLEAN : Clamp(lines, c, lost, pane) =>
          /\ cursor' \in 1 .. Max2(1, Len(items')) /\ selectionLost' = lost
          /\ paneFocus' \in BOOLEAN /\ (paneFocus' => IsRow(Highlight'))
          /\ c \in 1 .. Len(lines) => cursor' = c
          /\ items' = lines
  BY Clamped DEF Clamp
<1>4. CASE wasLost
  BY <1>2, <1>3, <1>4 DEF Restore
<1>5. CASE ~wasLost /\ held = NoLine
  BY <1>3, <1>5 DEF Restore
<1>6. CASE ~wasLost /\ held # NoLine /\ same = {}
  <2>1. Clamp(lines, cursor, TRUE, FALSE)
    BY <1>6 DEF Restore
  <2>2. QED
    BY <1>2, <1>3, <1>6, <2>1
<1>7. CASE ~wasLost /\ held # NoLine /\ same # {}
  <2>1. same \in SUBSET Nat
    BY <1>1
  <2>2. first \in same
    BY <1>7, <2>1, LeastLine
  <2>3. Clamp(lines, first, FALSE, paneFocus)
    BY <1>7 DEF Restore
  <2> HIDE DEF first
  <2>4. first \in 1 .. Len(lines) /\ SameLine(held, lines[first])
    BY <1>1, <2>2
  <2>5. /\ cursor' = first /\ selectionLost' = FALSE /\ items' = lines
        /\ cursor' \in 1 .. Max2(1, Len(items'))
        /\ paneFocus' \in BOOLEAN /\ (paneFocus' => IsRow(Highlight'))
    <3>1. first \in Int
      BY <1>1, <2>4
    <3>2. QED
      BY <2>3, <2>4, <3>1, Clamped DEF Clamp
  <2>6. Highlight' = lines[first]
    BY <1>1, <2>4, <2>5 DEF Highlight, At
  <2>7. QED
    BY <1>7, <2>4, <2>5, <2>6
<1>8. QED
  BY <1>4, <1>5, <1>6, <1>7

-----------------------------------------------------------------------------
(* Every action, for each part of the invariant *)

LEMMA RestoredLines ==
  ASSUME NEW lines, NEW held, NEW wasLost, Restore(lines, held, wasLost)
  PROVE  items' = lines
  BY DEF Restore, Clamp

\* togglePin builds the lines again, with the pins as they are now.
LEMMA PinnedLines ==
  ASSUME DataInv, NEW r \in Listeners, TogglePin(r)
  PROVE  DataInv'
<1>1. r.port \in Ports
  BY DEF Ports
<1>2. PICK pins \in SUBSET Ports :
          /\ favs' = pins
          /\ Restore(LinesOf(all, query, asc, pins, grouped, collapsed), Line(r), FALSE)
  BY <1>1 DEF TogglePin, DataInv
<1>3. items' = LinesOf(all, query, asc, pins, grouped, collapsed)
  BY <1>2, RestoredLines
<1>4. UNCHANGED <<all, query, asc, grouped, collapsed>>
  BY DEF TogglePin
<1>5. QED
  BY <1>2, <1>3, <1>4 DEF DataInv, LinesAreCurrent

\* Whatever changes the data, the filter, the order, the pins or the folds also
\* builds the lines again.
LEMMA DataStep ==
  ASSUME DataInv, SelectionInv, ModalInv, [TableNext]_tableVars
  PROVE  DataInv'
<1> USE DEF DataInv, LinesAreCurrent, sourceVars, dataVars, selVars
<1>1. ASSUME NEW S \in Scans, ShowScan(S) PROVE DataInv'
  BY <1>1, RestoredLines DEF ShowScan
<1>2. CASE Sort
  BY <1>2, RestoredLines DEF Sort
<1>3. CASE ToggleGrouping
  BY <1>3 DEF ToggleGrouping, Clamp
<1>4. CASE FoldAll
  <2>1. PICK fold \in [Owners -> {"unset", "open", "folded"}] : Refold(fold)
    BY <1>4 DEF FoldAll
  <2>2. QED
    BY <2>1 DEF Refold, Clamp
<1>5. CASE FoldOne
  <2>1. PICK fold \in [Owners -> {"unset", "open", "folded"}] : Refold(fold)
    BY <1>5 DEF FoldOne
  <2>2. QED
    BY <2>1 DEF Refold, Clamp
<1>6. CASE EnterPane
  BY <1>6 DEF EnterPane
<1>7. CASE LeavePane
  BY <1>7 DEF LeavePane
<1>8. CASE RunStopField
  BY <1>8 DEF RunStopField
<1>9. ASSUME NEW d \in {-1, 1}, MovePane(d) PROVE DataInv'
  BY <1>9 DEF MovePane
<1>10. ASSUME NEW d \in {-1, 1}, MoveKey(d) PROVE DataInv'
  BY <1>10 DEF MoveKey, Step, Clamp
<1>11. ASSUME NEW d \in {-1, 1}, Wheel(d) PROVE DataInv'
  BY <1>11 DEF Wheel, Step, Clamp
<1>12. CASE Home
  BY <1>12 DEF Home, Clamp
<1>13. CASE End
  BY <1>13 DEF End, Clamp
<1>14. CASE StartFilter
  BY <1>14 DEF StartFilter
<1>15. ASSUME NEW q \in {"", "text"}, EditFilter(q) PROVE DataInv'
  BY <1>15 DEF EditFilter, SetQuery, Clamp
<1>16. ASSUME NEW clear \in BOOLEAN, LeaveFilter(clear) PROVE DataInv'
  BY <1>16 DEF LeaveFilter, SetQuery, Clamp
<1>17. CASE PinKey
  <2>1. Highlight.row \in Listeners /\ TogglePin(Highlight.row)
    BY <1>17, HighlightTyped DEF PinKey
  <2>2. QED
    BY <2>1, PinnedLines
<1>18. CASE StopKey
  BY <1>18 DEF StopKey
<1>19. CASE Answer
  BY <1>19 DEF Answer
<1>20. CASE CopyKey
  BY <1>20 DEF CopyKey
<1>21. CASE CopyDone
  BY <1>21 DEF CopyDone
<1>22. CASE MenuStop
  BY <1>22 DEF MenuStop
<1>23. CASE MenuCopy
  BY <1>23 DEF MenuCopy
<1>24. CASE MenuPin
  <2>1. actionRow \in Listeners /\ TogglePin(actionRow)
    BY <1>24 DEF MenuPin, InMenu, ModalInv, PinnedRowIsPicked
  <2>2. QED
    BY <2>1, PinnedLines
<1>25. CASE MenuDone
  BY <1>25 DEF MenuDone
<1>26. ASSUME NEW i \in 0 .. Len(items), LeftClick(i) PROVE DataInv'
  BY <1>26 DEF LeftClick, Point, Clamp
<1>27. ASSUME NEW i \in 0 .. Len(items), RightClick(i) PROVE DataInv'
  BY <1>27 DEF RightClick, Point, Clamp
<1>28. CASE UNCHANGED tableVars
  BY <1>28 DEF tableVars
<1>29. QED
  BY <1>1, <1>2, <1>3, <1>4, <1>5, <1>6, <1>7, <1>8, <1>9, <1>10, <1>11, <1>12, <1>13,
     <1>14, <1>15, <1>16, <1>17, <1>18, <1>19, <1>20, <1>21, <1>22, <1>23, <1>24, <1>25,
     <1>26, <1>27, <1>28 DEF TableNext

LEMMA ClampedSelection ==
  ASSUME SelectionInv, NEW lines, NEW c \in Int, NEW lost \in BOOLEAN, NEW pane \in BOOLEAN,
         Clamp(lines, c, lost, pane), items' \in Seq(AllLines), paneIdx' \in Nat
  PROVE  SelectionInv'
<1>1. items' = lines
  BY DEF Clamp
<1>2. QED
  BY <1>1, Clamped DEF SelectionInv

LEMMA MovedSelection ==
  ASSUME DataInv', SelectionInv, NEW c \in Int, Clamp(items, c, FALSE, paneFocus), paneIdx' \in Nat
  PROVE  SelectionInv'
<1>1. items' \in Seq(AllLines) /\ paneFocus \in BOOLEAN /\ FALSE \in BOOLEAN
  BY NextLinesTyped DEF SelectionInv
<1>2. QED
  BY <1>1, ClampedSelection

LEMMA RestoredSelection ==
  ASSUME SelectionInv, NEW lines, NEW held, NEW wasLost \in BOOLEAN,
         Restore(lines, held, wasLost), items' \in Seq(AllLines), paneIdx' \in Nat
  PROVE  SelectionInv'
<1>1. items' = lines
  BY RestoredLines
<1>2. cursor \in Int /\ paneFocus \in BOOLEAN
  BY DEF SelectionInv
<1>3. QED
  BY <1>1, <1>2, Restored DEF SelectionInv

\* Whatever moves the cursor or changes the lines also clamps.
LEMMA SelectionStep ==
  ASSUME DataInv, SelectionInv, DataInv', [TableNext]_tableVars
  PROVE  SelectionInv'
<1>0. /\ items \in Seq(AllLines) /\ items' \in Seq(AllLines)
      /\ cursor \in Int /\ selectionLost \in BOOLEAN /\ paneFocus \in BOOLEAN /\ paneIdx \in Nat
  <2>1. items' \in Seq(AllLines)
    BY NextLinesTyped
  <2>2. QED
    BY <2>1, LinesTyped DEF SelectionInv
<1> USE <1>0 DEF SelectionInv, Highlight, sourceVars, dataVars, selVars
<1>1. ASSUME NEW S \in Scans, ShowScan(S) PROVE SelectionInv'
  BY <1>1, RestoredSelection DEF ShowScan
<1>2. CASE Sort
  BY <1>2, RestoredSelection DEF Sort
<1>3. CASE ToggleGrouping
  BY <1>3, ClampedSelection DEF ToggleGrouping
<1>4. CASE FoldAll
  BY <1>4, ClampedSelection DEF FoldAll, Refold
<1>5. CASE FoldOne
  BY <1>5, ClampedSelection DEF FoldOne, Refold
<1>6. CASE EnterPane
  BY <1>6 DEF EnterPane
<1>7. CASE LeavePane
  BY <1>7 DEF LeavePane
<1>8. CASE RunStopField
  BY <1>8 DEF RunStopField
<1>9. ASSUME NEW d \in {-1, 1}, MovePane(d) PROVE SelectionInv'
  <2>1. Highlight.row \in Listeners
    BY <1>9, HighlightTyped DEF MovePane
  <2>2. (paneIdx + d) % Fields(Highlight.row) \in Nat
    BY <2>1, SelectionAssumption DEF SelectionInv
  <2>3. QED
    BY <1>9, <2>2 DEF MovePane
<1>10. ASSUME NEW d \in {-1, 1}, MoveKey(d) PROVE SelectionInv'
  <2>1. CASE Step(d)
    <3>1. cursor + d \in Int
      OBVIOUS
    <3>2. QED
      BY <1>10, <2>1, <3>1, MovedSelection DEF MoveKey, Step
  <2>2. CASE UNCHANGED <<items, cursor, selectionLost, paneFocus>>
    BY <1>10, <2>2 DEF MoveKey
  <2>3. QED
    BY <1>10, <2>1, <2>2 DEF MoveKey
<1>11. ASSUME NEW d \in {-1, 1}, Wheel(d) PROVE SelectionInv'
  <2>1. cursor + d \in Int
    OBVIOUS
  <2>2. QED
    BY <1>11, <2>1, MovedSelection DEF Wheel, Step
<1>12. CASE Home
  <2>1. 1 \in Int /\ 0 \in Nat
    OBVIOUS
  <2>2. QED
    BY <1>12, <2>1, MovedSelection DEF Home
<1>13. CASE End
  <2>1. Len(items) \in Int
    BY LenProperties
  <2>2. QED
    BY <1>13, <2>1, MovedSelection DEF End
<1>14. CASE StartFilter
  BY <1>14 DEF StartFilter
<1>15. ASSUME NEW q \in {"", "text"}, EditFilter(q) PROVE SelectionInv'
  BY <1>15, ClampedSelection DEF EditFilter, SetQuery
<1>16. ASSUME NEW clear \in BOOLEAN, LeaveFilter(clear) PROVE SelectionInv'
  <2>1. CASE clear
    BY <1>16, <2>1, ClampedSelection DEF LeaveFilter, SetQuery
  <2>2. CASE ~clear
    BY <1>16, <2>2 DEF LeaveFilter
  <2>3. QED
    BY <2>1, <2>2
<1>17. CASE PinKey
  BY <1>17, RestoredSelection DEF PinKey, TogglePin
<1>18. CASE StopKey
  BY <1>18 DEF StopKey
<1>19. CASE Answer
  BY <1>19 DEF Answer
<1>20. CASE CopyKey
  BY <1>20 DEF CopyKey
<1>21. CASE CopyDone
  BY <1>21 DEF CopyDone
<1>22. CASE MenuStop
  BY <1>22 DEF MenuStop
<1>23. CASE MenuCopy
  BY <1>23 DEF MenuCopy
<1>24. CASE MenuPin
  BY <1>24, RestoredSelection DEF MenuPin, TogglePin
<1>25. CASE MenuDone
  BY <1>25 DEF MenuDone
<1>26. ASSUME NEW i \in 0 .. Len(items), LeftClick(i) PROVE SelectionInv'
  <2>1. CASE i = 0
    BY <1>26, <2>1 DEF LeftClick, Point
  <2>2. CASE i # 0
    <3>1. i \in Int
      BY <1>26
    <3>2. QED
      BY <1>26, <2>2, <3>1, MovedSelection DEF LeftClick, Point
  <2>3. QED
    BY <2>1, <2>2
<1>27. ASSUME NEW i \in 0 .. Len(items), RightClick(i) PROVE SelectionInv'
  <2>1. CASE i = 0
    BY <1>27, <2>1 DEF RightClick, Point
  <2>2. CASE i # 0
    <3>1. i \in Int
      BY <1>27
    <3>2. QED
      BY <1>27, <2>2, <3>1, MovedSelection DEF RightClick, Point
  <2>3. QED
    BY <2>1, <2>2
<1>28. CASE UNCHANGED tableVars
  BY <1>28 DEF tableVars
<1>29. QED
  BY <1>1, <1>2, <1>3, <1>4, <1>5, <1>6, <1>7, <1>8, <1>9, <1>10, <1>11, <1>12, <1>13,
     <1>14, <1>15, <1>16, <1>17, <1>18, <1>19, <1>20, <1>21, <1>22, <1>23, <1>24, <1>25,
     <1>26, <1>27, <1>28 DEF TableNext

\* Every key and click leaves at most one of the dialog, the menus and the
\* filter input open, and its row is the one that was picked for it.
LEMMA ModalStep ==
  ASSUME DataInv, SelectionInv, ModalInv, [TableNext]_tableVars
  PROVE  ModalInv'
<1> USE DEF ModalInv, PinnedRowIsPicked, modalVars
<1>1. ASSUME NEW S \in Scans, ShowScan(S) PROVE ModalInv'
  BY <1>1 DEF ShowScan
<1>2. CASE Sort
  BY <1>2 DEF Sort
<1>3. CASE ToggleGrouping
  BY <1>3 DEF ToggleGrouping
<1>4. CASE FoldAll
  BY <1>4 DEF FoldAll, Refold
<1>5. CASE FoldOne
  BY <1>5 DEF FoldOne, Refold
<1>6. CASE EnterPane
  BY <1>6 DEF EnterPane
<1>7. CASE LeavePane
  BY <1>7 DEF LeavePane
<1>8. CASE RunStopField
  <2>1. Highlight.row \in Listeners
    BY <1>8, HighlightTyped DEF RunStopField
  <2>2. QED
    BY <1>8, <2>1 DEF RunStopField, Free, IsRow
<1>9. ASSUME NEW d \in {-1, 1}, MovePane(d) PROVE ModalInv'
  BY <1>9 DEF MovePane
<1>10. ASSUME NEW d \in {-1, 1}, MoveKey(d) PROVE ModalInv'
  BY <1>10 DEF MoveKey
<1>11. ASSUME NEW d \in {-1, 1}, Wheel(d) PROVE ModalInv'
  BY <1>11 DEF Wheel
<1>12. CASE Home
  BY <1>12 DEF Home
<1>13. CASE End
  BY <1>13 DEF End
<1>14. CASE StartFilter
  BY <1>14 DEF StartFilter, Free
<1>15. ASSUME NEW q \in {"", "text"}, EditFilter(q) PROVE ModalInv'
  BY <1>15 DEF EditFilter, SetQuery
<1>16. ASSUME NEW clear \in BOOLEAN, LeaveFilter(clear) PROVE ModalInv'
  BY <1>16 DEF LeaveFilter, SetQuery
<1>17. CASE PinKey
  BY <1>17 DEF PinKey
<1>18. CASE StopKey
  <2>1. Highlight.row \in Listeners
    BY <1>18, HighlightTyped DEF StopKey
  <2>2. QED
    BY <1>18, <2>1 DEF StopKey, Free, RequestStop, IsRow
<1>19. CASE Answer
  BY <1>19 DEF Answer
<1>20. CASE CopyKey
  <2>1. Highlight.row \in Listeners
    BY <1>20, HighlightTyped DEF CopyKey
  <2>2. QED
    BY <1>20, <2>1 DEF CopyKey, Free, IsRow
<1>21. CASE CopyDone
  BY <1>21 DEF CopyDone
<1>22. CASE MenuStop
  BY <1>22 DEF MenuStop, InMenu, CloseMenu, RequestStop
<1>23. CASE MenuCopy
  BY <1>23 DEF MenuCopy, InMenu, CloseMenu
<1>24. CASE MenuPin
  BY <1>24 DEF MenuPin, InMenu, CloseMenu, TogglePin
<1>25. CASE MenuDone
  BY <1>25 DEF MenuDone, InMenu, CloseMenu
<1>26. ASSUME NEW i \in 0 .. Len(items), LeftClick(i) PROVE ModalInv'
  BY <1>26 DEF LeftClick, CloseMenu
<1>27. ASSUME NEW i \in 0 .. Len(items), RightClick(i) PROVE ModalInv'
  <2>1. CASE i # 0 /\ IsRow(items[i])
    <3>1. items[i] \in AllLines
      BY <2>1, LinesTyped, ElementOfSeq
    <3>2. items[i].row \in Listeners
      BY <2>1, <3>1, LineKinds DEF IsRow, AllLines
    <3>3. items[i].row # NoRow
      BY <2>1 DEF IsRow
    <3>4. QED
      BY <1>27, <2>1, <3>2, <3>3 DEF RightClick
  <2>2. CASE ~(i # 0 /\ IsRow(items[i]))
    BY <1>27, <2>2 DEF RightClick, CloseMenu
  <2>3. QED
    BY <2>1, <2>2
<1>28. CASE UNCHANGED tableVars
  BY <1>28 DEF tableVars
<1>29. QED
  BY <1>1, <1>2, <1>3, <1>4, <1>5, <1>6, <1>7, <1>8, <1>9, <1>10, <1>11, <1>12, <1>13,
     <1>14, <1>15, <1>16, <1>17, <1>18, <1>19, <1>20, <1>21, <1>22, <1>23, <1>24, <1>25,
     <1>26, <1>27, <1>28 DEF TableNext

-----------------------------------------------------------------------------
(* The theorems *)

IndInv == DataInv /\ SelectionInv /\ ModalInv

LEMMA TableStarts == TableInit => IndInv
<1> SUFFICES ASSUME TableInit PROVE IndInv
  OBVIOUS
<1>1. LinesAreCurrent
  <2> DEFINE below == [x \in {} |-> {y \in {} : LineBefore(y, x, {}, TRUE, {}, grouped)}]
  <2>1. Matching({}, "") = {}
    BY DEF Matching
  <2>2. Shown({}, "", {}, grouped, collapsed) = {}
    BY DEF Shown
  <2>3. LinesOf({}, "", TRUE, {}, grouped, collapsed) = InOrder({}, below)
    BY <2>1, <2>2 DEF LinesOf
  <2>4. InOrder({}, below) = <<>>
    <3>1. Cardinality({}) = 0
      BY FS_EmptySet
    <3>2. QED
      BY <3>1 DEF InOrder
  <2>5. QED
    BY <2>3, <2>4 DEF LinesAreCurrent, TableInit
<1>2. DataInv
  BY <1>1 DEF DataInv, TableInit
<1>3. SelectionInv
  <2>1. Max2(1, Len(items)) \in Nat \ {0}
    <3>1. items \in Seq({})
      <4>1. items = <<>>
        BY DEF TableInit
      <4>2. QED
        BY <4>1, EmptySeq
    <3>2. QED
      BY <3>1, LenProperties DEF Max2
  <2>2. 1 \in 1 .. Max2(1, Len(items)) /\ 0 \in Nat
    BY <2>1
  <2>3. QED
    BY <2>2 DEF SelectionInv, TableInit
<1>4. ModalInv
  BY DEF ModalInv, PinnedRowIsPicked, TableInit
<1>5. QED
  BY <1>2, <1>3, <1>4 DEF IndInv

LEMMA TableKeeps == IndInv /\ [TableNext]_tableVars => IndInv'
<1> SUFFICES ASSUME IndInv, [TableNext]_tableVars PROVE IndInv'
  OBVIOUS
<1>1. DataInv /\ SelectionInv /\ ModalInv
  BY DEF IndInv
<1>2. DataInv'
  BY <1>1, DataStep
<1>3. SelectionInv'
  BY <1>1, <1>2, SelectionStep
<1>4. ModalInv'
  BY <1>1, ModalStep
<1>5. QED
  BY <1>2, <1>3, <1>4 DEF IndInv

\* What folding hides follows from what the lines are made of.
LEMMA FoldedRowsAreIdle == DataInv => FoldingHidesOnlyIdleRows
<1> SUFFICES ASSUME DataInv, NEW r \in Matching(all, query)
             PROVE  \/ \E i \in DOMAIN items : items[i].row = r
                    \/ query = "" /\ r.port \notin favs
                       /\ (r.stoppable => collapsed[r.owner] = "folded")
  BY DEF FoldingHidesOnlyIdleRows
<1> DEFINE inView == Matching(all, query)
           group == GroupOf(inView, r.owner)
<1>1. r \in group
  BY DEF GroupOf
<1>2. CASE Line(r) \in Shown(inView, query, favs, grouped, collapsed)
  <2>1. /\ all \in Scans \cup {{}}
        /\ items = LinesOf(all, query, asc, favs, grouped, collapsed)
    BY DEF DataInv, LinesAreCurrent
  <2>2. /\ items \in Seq(AllLines)
        /\ \E i \in 1 .. Len(items) : items[i] = Line(r)
    <3>1. /\ items \in Seq(AllLines)
          /\ \A x \in Shown(inView, query, favs, grouped, collapsed) :
                 \E i \in 1 .. Len(items) : items[i] = x
      BY <2>1, LinesListed
    <3>2. QED
      BY <1>2, <3>1
  <2>3. DOMAIN items = 1 .. Len(items)
    BY <2>2, LenProperties
  <2>4. QED
    BY <2>2, <2>3, LineKinds
<1>3. CASE Line(r) \notin Shown(inView, query, favs, grouped, collapsed)
  <2>1. Folded(group, query, favs, collapsed[r.owner])
    BY <1>3 DEF Shown
  <2>2. QED
    BY <1>1, <2>1 DEF Folded
<1>4. QED
  BY <1>2, <1>3

LEMMA IndInvImplies == IndInv => TableInv /\ PinnedRowIsPicked
<1> SUFFICES ASSUME IndInv PROVE TableInv /\ PinnedRowIsPicked
  OBVIOUS
<1>1. DataInv /\ SelectionInv /\ ModalInv
  BY DEF IndInv
<1>2. TableTypeOK
  BY <1>1 DEF DataInv, SelectionInv, ModalInv, TableTypeOK
<1>3. KeysHaveOneOwner
  <2> DEFINE open == <<confirm, actionMenu, copyMenu, filtering>>
  <2>1. /\ ~(confirm /\ actionMenu) /\ ~(confirm /\ copyMenu) /\ ~(confirm /\ filtering)
        /\ ~(actionMenu /\ copyMenu) /\ ~(actionMenu /\ filtering) /\ ~(copyMenu /\ filtering)
    BY <1>1 DEF ModalInv
  <2>2. \A i, j \in 1 .. 4 : open[i] /\ open[j] => i = j
    <3>1. 1 .. 4 = {1, 2, 3, 4}
      OBVIOUS
    <3>2. /\ open[1] = confirm /\ open[2] = actionMenu
          /\ open[3] = copyMenu /\ open[4] = filtering
      OBVIOUS
    <3> HIDE DEF open
    <3>3. QED
      BY <2>1, <3>1, <3>2
  <2>3. paneFocus => IsRow(Highlight)
    BY <1>1 DEF SelectionInv
  <2>4. QED
    BY <2>2, <2>3 DEF KeysHaveOneOwner
<1>4. LinesAreCurrent /\ FoldingHidesOnlyIdleRows
  BY <1>1, FoldedRowsAreIdle DEF DataInv
<1>5. QED
  BY <1>1, <1>2, <1>3, <1>4 DEF TableInv, ModalInv

\* A scan or a sort leaves the highlight on what it was on, or takes it away.
LEMMA SelectionHolds ==
  ASSUME IndInv, IndInv', [TableNext]_tableVars, all' # all \/ asc' # asc
  PROVE  /\ Highlight # NoLine => Highlight' = NoLine \/ SameLine(Highlight, Highlight')
         /\ selectionLost => Highlight' = NoLine
<1>1. /\ DataInv /\ SelectionInv /\ DataInv'
      /\ cursor \in Int /\ paneFocus \in BOOLEAN /\ selectionLost \in BOOLEAN
  BY DEF IndInv, SelectionInv
<1>2. ASSUME NEW lines, Restore(lines, Highlight, selectionLost)
      PROVE  /\ Highlight # NoLine => Highlight' = NoLine \/ SameLine(Highlight, Highlight')
             /\ selectionLost => Highlight' = NoLine
  <2>1. items' = lines /\ items' \in Seq(AllLines)
    BY <1>1, <1>2, RestoredLines, NextLinesTyped
  <2>2. selectionLost => Highlight = NoLine
    BY <1>1, HighlightTyped
  <2>3. QED
    BY <1>1, <1>2, <2>1, <2>2, Restored
<1>3. ASSUME NEW S \in Scans, ShowScan(S)
      PROVE  \E lines : Restore(lines, Highlight, selectionLost)
  BY <1>3 DEF ShowScan
<1>4. CASE Sort
  BY <1>4, <1>2 DEF Sort
<1>5. UNCHANGED <<all, asc>> \/ Sort \/ \E S \in Scans : ShowScan(S)
  <2> USE DEF sourceVars, dataVars
  <2>1. ToggleGrouping => UNCHANGED <<all, asc>>
    BY DEF ToggleGrouping
  <2>2. FoldAll => UNCHANGED <<all, asc>>
    BY DEF FoldAll, Refold
  <2>3. FoldOne => UNCHANGED <<all, asc>>
    BY DEF FoldOne, Refold
  <2>4. EnterPane => UNCHANGED <<all, asc>>
    BY DEF EnterPane
  <2>5. LeavePane => UNCHANGED <<all, asc>>
    BY DEF LeavePane
  <2>6. RunStopField => UNCHANGED <<all, asc>>
    BY DEF RunStopField
  <2>7. ASSUME NEW d \in {-1, 1}, MovePane(d) PROVE UNCHANGED <<all, asc>>
    BY <2>7 DEF MovePane
  <2>8. ASSUME NEW d \in {-1, 1}, MoveKey(d) PROVE UNCHANGED <<all, asc>>
    BY <2>8 DEF MoveKey
  <2>9. ASSUME NEW d \in {-1, 1}, Wheel(d) PROVE UNCHANGED <<all, asc>>
    BY <2>9 DEF Wheel
  <2>10. Home => UNCHANGED <<all, asc>>
    BY DEF Home
  <2>11. End => UNCHANGED <<all, asc>>
    BY DEF End
  <2>12. StartFilter => UNCHANGED <<all, asc>>
    BY DEF StartFilter
  <2>13. ASSUME NEW q \in {"", "text"}, EditFilter(q) PROVE UNCHANGED <<all, asc>>
    BY <2>13 DEF EditFilter, SetQuery
  <2>14. ASSUME NEW clear \in BOOLEAN, LeaveFilter(clear) PROVE UNCHANGED <<all, asc>>
    BY <2>14 DEF LeaveFilter, SetQuery
  <2>15. PinKey => UNCHANGED <<all, asc>>
    BY DEF PinKey, TogglePin
  <2>16. StopKey => UNCHANGED <<all, asc>>
    BY DEF StopKey
  <2>17. Answer => UNCHANGED <<all, asc>>
    BY DEF Answer
  <2>18. CopyKey => UNCHANGED <<all, asc>>
    BY DEF CopyKey
  <2>19. CopyDone => UNCHANGED <<all, asc>>
    BY DEF CopyDone
  <2>20. MenuStop => UNCHANGED <<all, asc>>
    BY DEF MenuStop
  <2>21. MenuCopy => UNCHANGED <<all, asc>>
    BY DEF MenuCopy
  <2>22. MenuPin => UNCHANGED <<all, asc>>
    BY DEF MenuPin, TogglePin
  <2>23. MenuDone => UNCHANGED <<all, asc>>
    BY DEF MenuDone
  <2>24. ASSUME NEW i \in 0 .. Len(items), LeftClick(i) PROVE UNCHANGED <<all, asc>>
    BY <2>24 DEF LeftClick
  <2>25. ASSUME NEW i \in 0 .. Len(items), RightClick(i) PROVE UNCHANGED <<all, asc>>
    BY <2>25 DEF RightClick
  <2>26. UNCHANGED tableVars => UNCHANGED <<all, asc>>
    BY DEF tableVars
  <2>27. QED
    BY <2>1, <2>2, <2>3, <2>4, <2>5, <2>6, <2>7, <2>8, <2>9, <2>10, <2>11, <2>12, <2>13,
       <2>14, <2>15, <2>16, <2>17, <2>18, <2>19, <2>20, <2>21, <2>22, <2>23, <2>24, <2>25,
       <2>26 DEF TableNext
<1>6. QED
  BY <1>2, <1>3, <1>4, <1>5

\* Whatever happens, the lines are those of the data of the moment, the next key
\* has one owner, the pane's keys act on a highlighted row, and folding hides
\* only rows that no search hits, no pin keeps and le would not stop.
THEOREM TableCorrect == TableSpec => []TableInv
<1>1. IndInv /\ [TableNext]_tableVars => IndInv'
  BY TableKeeps
<1>2. QED
  BY <1>1, TableStarts, IndInvImplies, PTL DEF TableSpec

\* LE-406: a dialog, a menu or the picker acts on the row that was under the key
\* or the pointer that opened it.
THEOREM PinsHold == TableSpec => []PinnedRowIsPicked
<1>1. IndInv /\ [TableNext]_tableVars => IndInv'
  BY TableKeeps
<1>2. QED
  BY <1>1, TableStarts, IndInvImplies, PTL DEF TableSpec

\* No scan and no sort moves the highlight to another process or group, or brings
\* back one that was lost.
THEOREM SelectionStays == TableSpec => SelectionNeverJumps
<1>1. IndInv /\ [TableNext]_tableVars => IndInv'
  BY TableKeeps
<1>2. IndInv /\ IndInv' /\ [TableNext]_tableVars =>
        [all' # all \/ asc' # asc =>
           /\ Highlight # NoLine => Highlight' = NoLine \/ SameLine(Highlight, Highlight')
           /\ selectionLost => Highlight' = NoLine]_tableVars
  BY SelectionHolds
<1>3. QED
  BY <1>1, <1>2, TableStarts, PTL DEF TableSpec, SelectionNeverJumps

-----------------------------------------------------------------------------
(* The schedule of the scans *)

\* The fields of a new model are well typed, and no scan has been asked for.
LEMMA SchedulerInit == Init => TypeOK /\ SchedulerInv
<1> SUFFICES ASSUME Init PROVE TypeOK /\ SchedulerInv
  OBVIOUS
<1>1. TypeOK
  <2>1. /\ nextScanID \in 0 .. MaxEvents + 1 /\ activeScanID \in 0 .. nextScanID
        /\ events \in 0 .. MaxEvents
    BY SchedulerAssumption DEF Init
  <2>2. running \subseteq Nat /\ results \subseteq [id : Nat, at : Nat, ok : BOOLEAN]
    BY DEF Init
  <2>3. QED
    BY <2>1, <2>2 DEF Init, TypeOK
<1>2. nextScanID + stops + One(pendingScan) + One(~booted) <= events + 1
  BY DEF Init, One
<1>3. OneScanAtATime /\ NoStrandedRequest
  BY DEF Init, OneScanAtATime, NoStrandedRequest
<1>4. QED
  BY <1>1, <1>2, <1>3 DEF Init, SchedulerInv

\* requestScan keeps its fields well typed, whether it starts a scan or not.
LEMMA RequestTypes ==
    ASSUME TypeOK, NEW isPaused, NEW manual \in BOOLEAN,
           RequestScan(isPaused, manual)
    PROVE  /\ scanInFlight' \in BOOLEAN /\ loading' \in BOOLEAN
           /\ applyActiveScan' \in BOOLEAN /\ activeManual' \in BOOLEAN
           /\ pendingScan' \in BOOLEAN /\ pendingManual' \in BOOLEAN
           /\ nextScanID' \in Nat /\ activeScanID' \in 0 .. nextScanID'
           /\ running' \subseteq Nat
<1>1. nextScanID \in Nat /\ activeScanID \in 0 .. nextScanID /\ running \subseteq Nat
  BY DEF TypeOK
<1>2. CASE UNCHANGED <<slotVars, running>>
  BY <1>1, <1>2 DEF TypeOK, slotVars
<1>3. CASE StartScan(manual) /\ UNCHANGED <<pendingScan, pendingManual>>
  BY <1>1, <1>3 DEF TypeOK, StartScan
<1>4. CASE /\ pendingScan' = TRUE /\ pendingManual' = (pendingManual \/ manual)
           /\ UNCHANGED <<scanInFlight, nextScanID, activeScanID, applyActiveScan,
                          activeManual, loading, running>>
  BY <1>1, <1>4 DEF TypeOK
<1>5. QED
  BY <1>2, <1>3, <1>4 DEF RequestScan

\* Taking up what waits, or freeing the slot, keeps them well typed too.
LEMMA SucceedTypes ==
    ASSUME TypeOK, Succeed
    PROVE  /\ scanInFlight' \in BOOLEAN /\ loading' \in BOOLEAN
           /\ applyActiveScan' \in BOOLEAN /\ activeManual' \in BOOLEAN
           /\ pendingScan' \in BOOLEAN /\ pendingManual' \in BOOLEAN
           /\ nextScanID' \in Nat /\ activeScanID' \in 0 .. nextScanID'
           /\ running' \subseteq Nat
<1>1. nextScanID \in Nat /\ activeScanID \in 0 .. nextScanID /\ running \subseteq Nat
  BY DEF TypeOK
<1>2. CASE StartScan(pendingManual)
  <2>1. nextScanID' \in Nat /\ activeScanID' \in 0 .. nextScanID' /\ running' \subseteq Nat
    BY <1>1, <1>2 DEF StartScan
  <2>2. activeManual' \in BOOLEAN
    BY <1>2 DEF TypeOK, StartScan
  <2>3. QED
    BY <1>2, <2>1, <2>2 DEF Succeed, StartScan
<1>3. CASE /\ scanInFlight' = FALSE /\ loading' = FALSE
           /\ UNCHANGED <<nextScanID, activeScanID, applyActiveScan, activeManual, running>>
  BY <1>1, <1>3 DEF TypeOK, Succeed
<1>4. QED
  BY <1>2, <1>3 DEF Succeed

\* Every message keeps the fields well typed; that scan numbers stay in range
\* is the counting part of the invariant, in the new state.
LEMMA TypeStep ==
    TypeOK /\ SchedulerInv /\ SchedulerInv' /\ [Next]_vars => TypeOK'
<1> SUFFICES ASSUME TypeOK, SchedulerInv', [Next]_vars PROVE TypeOK'
  OBVIOUS
<1> USE SchedulerAssumption DEF vars, viewVars, outVars, histVars
<1> DEFINE Weak == /\ nextScanID \in Nat
                   /\ scanInFlight \in BOOLEAN /\ loading \in BOOLEAN
                   /\ applyActiveScan \in BOOLEAN /\ activeManual \in BOOLEAN
                   /\ pendingScan \in BOOLEAN /\ pendingManual \in BOOLEAN
                   /\ activeScanID \in 0 .. nextScanID
                   /\ running \subseteq Nat
           Rest == /\ paused \in BOOLEAN /\ booted \in BOOLEAN
                   /\ lastScan \in Nat /\ view \in Nat /\ reported \in Nat
                   /\ completed \in Nat
                   /\ results \subseteq [id : Nat, at : Nat, ok : BOOLEAN]
                   /\ stops \in Nat /\ events \in 0 .. MaxEvents
                   /\ pausedAt \in Nat /\ owed \in Nat /\ due \in Nat
<1>a. Weak' /\ Rest' => TypeOK'
  <2>1. One(pendingScan)' \in {0, 1} /\ One(~booted)' \in {0, 1}
    BY DEF One
  <2>2. nextScanID' \in Nat /\ stops' \in Nat /\ events' \in 0 .. MaxEvents
           => nextScanID' <= MaxEvents + 1
    BY <2>1 DEF SchedulerInv
  <2>3. QED
    BY <2>2 DEF TypeOK
<1>b. Weak /\ Rest
  BY DEF TypeOK
<1>1. CASE Boot
  <2>1. Weak'
    BY <1>1, RequestTypes DEF Boot
  <2>2. events' \in 0 .. MaxEvents /\ stops' \in Nat /\ owed' \in Nat /\ due' \in Nat
    BY <1>1, <1>b DEF Boot
  <2>3. Rest'
    BY <1>1, <1>b, <2>2 DEF Boot
  <2>4. QED
    BY <1>a, <2>1, <2>3
<1>2. CASE Tick
  <2>1. Weak'
    BY <1>2, RequestTypes DEF Tick
  <2>2. events' \in 0 .. MaxEvents /\ stops' \in Nat /\ owed' \in Nat /\ due' \in Nat
    BY <1>2, <1>b DEF Tick, Count
  <2>3. Rest'
    BY <1>2, <1>b, <2>2 DEF Tick
  <2>4. QED
    BY <1>a, <2>1, <2>3
<1>3. CASE Refresh
  <2>1. Weak'
    BY <1>3, RequestTypes DEF Refresh
  <2>2. events' \in 0 .. MaxEvents /\ stops' \in Nat /\ owed' \in Nat /\ due' \in Nat
    BY <1>3, <1>b DEF Refresh, Count
  <2>3. Rest'
    BY <1>3, <1>b, <2>2 DEF Refresh
  <2>4. QED
    BY <1>a, <2>1, <2>3
<1>4. CASE Pause
  <2>1. Weak'
    BY <1>4, <1>b DEF Pause
  <2>2. events' \in 0 .. MaxEvents /\ stops' \in Nat /\ pausedAt' \in Nat
        /\ owed' \in Nat /\ due' \in Nat
    BY <1>4, <1>b DEF Pause, Count
  <2>3. Rest'
    BY <1>4, <1>b, <2>2 DEF Pause
  <2>4. QED
    BY <1>a, <2>1, <2>3
<1>5. CASE Resume
  <2>1. Weak'
    BY <1>5, RequestTypes DEF Resume
  <2>2. events' \in 0 .. MaxEvents /\ stops' \in Nat /\ owed' \in Nat /\ due' \in Nat
    BY <1>5, <1>b DEF Resume, Count
  <2>3. Rest'
    BY <1>5, <1>b, <2>2 DEF Resume
  <2>4. QED
    BY <1>a, <2>1, <2>3
<1>6. CASE Stop
  <2>1. Weak'
    BY <1>6, <1>b DEF Stop, slotVars
  <2>2. events' \in 0 .. MaxEvents /\ stops' \in Nat /\ pausedAt' \in Nat
        /\ owed' \in Nat /\ due' \in Nat
    BY <1>6, <1>b DEF Stop, Count
  <2>3. Rest'
    BY <1>6, <1>b, <2>2 DEF Stop
  <2>4. QED
    BY <1>a, <2>1, <2>3
<1>7. CASE StopResult
  <2>1. Weak'
    BY <1>7, RequestTypes DEF StopResult
  <2>2. events' \in 0 .. MaxEvents /\ stops' \in Nat /\ owed' \in Nat /\ due' \in Nat
    BY <1>7, <1>b DEF StopResult
  <2>3. Rest'
    BY <1>7, <1>b, <2>2 DEF StopResult
  <2>4. QED
    BY <1>a, <2>1, <2>3
<1>8. ASSUME NEW n \in ScanIDs, Complete(n)
      PROVE  TypeOK'
  BY <1>8, <1>a, <1>b DEF Complete, ScanIDs, slotVars
<1>9. ASSUME NEW msg \in results, Scanned(msg)
      PROVE  TypeOK'
  <2>1. Weak'
    <3>1. CASE Matches(msg)
      BY <1>9, <3>1, SucceedTypes DEF Scanned
    <3>2. CASE ~Matches(msg)
      BY <1>9, <3>2, <1>b DEF Scanned, slotVars
    <3>3. QED
      BY <3>1, <3>2
  <2>2. view' \in Nat /\ lastScan' \in Nat /\ reported' \in Nat
    BY <1>9, <1>b DEF Scanned, Show
  <2>3. QED
    BY <1>9, <1>a, <1>b, <2>1, <2>2 DEF Scanned
<1>10. CASE UNCHANGED vars
  BY <1>10, <1>a, <1>b DEF slotVars
<1>11. QED
  BY <1>1, <1>2, <1>3, <1>4, <1>5, <1>6, <1>7, <1>8, <1>9, <1>10 DEF Next, Deliver

\* One scan at a time: whoever asks, the slot and the command that runs agree.
LEMMA OneScanStep ==
    TypeOK /\ OneScanAtATime /\ [Next]_vars => OneScanAtATime'
<1> SUFFICES ASSUME TypeOK, OneScanAtATime, [Next]_vars PROVE OneScanAtATime'
  OBVIOUS
<1> USE DEF OneScanAtATime, vars, slotVars, viewVars, outVars, histVars
<1>1. CASE Boot
  BY <1>1 DEF Boot, RequestScan, StartScan
<1>2. CASE Tick
  BY <1>2 DEF Tick, RequestScan, StartScan, Count
<1>3. CASE Refresh
  BY <1>3 DEF Refresh, RequestScan, StartScan, Count
<1>4. CASE Pause
  BY <1>4 DEF Pause, Count
<1>5. CASE Resume
  BY <1>5 DEF Resume, RequestScan, StartScan, Count
<1>6. CASE Stop
  BY <1>6 DEF Stop, Count
<1>7. CASE StopResult
  BY <1>7 DEF StopResult, RequestScan, StartScan
<1>8. ASSUME NEW n \in ScanIDs, Complete(n)
      PROVE  OneScanAtATime'
  <2>1. n \in running /\ scanInFlight /\ n = activeScanID
    BY <1>8 DEF Complete
  <2>2. running = {n} /\ results = {}
    BY <2>1
  <2>3. PICK ok \in BOOLEAN :
            results' = results \cup {[id |-> n, at |-> completed + 1, ok |-> ok]}
    BY <1>8 DEF Complete
  <2>4. running' = {} /\ results' = {[id |-> n, at |-> completed + 1, ok |-> ok]}
    BY <1>8, <2>2, <2>3 DEF Complete
  <2>5. {m.id : m \in results'} = {n}
    BY <2>4
  <2>6. QED
    BY <1>8, <2>1, <2>4, <2>5 DEF Complete
<1>9. ASSUME NEW msg \in results, Scanned(msg)
      PROVE  OneScanAtATime'
  <2>1. scanInFlight /\ msg.id = activeScanID
    BY <1>9
  <2>2. results' = {} /\ running = {}
    <3>1. results = {msg}
      BY <1>9
    <3>2. results' = {}
      BY <1>9, <3>1 DEF Scanned
    <3>3. running = {}
      BY <2>1, <3>1
    <3>4. QED
      BY <3>2, <3>3
  <2>3. Succeed
    BY <1>9, <2>1 DEF Scanned, Matches
  <2>4. CASE StartScan(pendingManual)
    BY <2>2, <2>4 DEF StartScan
  <2>5. CASE scanInFlight' = FALSE /\ running' = running
    BY <2>2, <2>5
  <2>6. QED
    BY <2>3, <2>4, <2>5 DEF Succeed
<1>10. CASE UNCHANGED vars
  BY <1>10
<1>11. QED
  BY <1>1, <1>2, <1>3, <1>4, <1>5, <1>6, <1>7, <1>8, <1>9, <1>10 DEF Next, Deliver

\* The other parts of the invariant.
LEMMA SchedulerStep ==
    TypeOK /\ SchedulerInv /\ [Next]_vars => SchedulerInv'
<1> SUFFICES ASSUME TypeOK, SchedulerInv, [Next]_vars, OneScanAtATime' PROVE SchedulerInv'
  BY OneScanStep DEF SchedulerInv
<1> USE SchedulerAssumption DEF TypeOK, One,
      vars, slotVars, viewVars, outVars, histVars
<1> USE DEF SchedulerInv, NoStrandedRequest
<1>1. CASE Boot
  BY <1>1 DEF Boot, RequestScan, StartScan
<1>2. CASE Tick
  BY <1>2 DEF Tick, RequestScan, StartScan, Count
<1>3. CASE Refresh
  BY <1>3 DEF Refresh, RequestScan, StartScan, Count
<1>4. CASE Pause
  BY <1>4 DEF Pause, Count
<1>5. CASE Resume
  BY <1>5 DEF Resume, RequestScan, StartScan, Count
<1>6. CASE Stop
  BY <1>6 DEF Stop, Count
<1>7. CASE StopResult
  BY <1>7 DEF StopResult, RequestScan, StartScan
<1>8. ASSUME NEW n \in ScanIDs, Complete(n)
      PROVE  SchedulerInv'
  BY <1>8 DEF Complete
<1>9. ASSUME NEW msg \in results, Scanned(msg)
      PROVE  SchedulerInv'
  BY <1>9 DEF Scanned, Matches, Show, Succeed, StartScan
<1>10. CASE UNCHANGED vars
  BY <1>10
<1>11. QED
  BY <1>1, <1>2, <1>3, <1>4, <1>5, <1>6, <1>7, <1>8, <1>9, <1>10 DEF Next, Deliver

\* The inductive invariant with the types.
THEOREM SchedulerCorrect == Spec => [](TypeOK /\ SchedulerInv)
<1>1. TypeOK /\ SchedulerInv /\ [Next]_vars => (TypeOK /\ SchedulerInv)'
  BY TypeStep, SchedulerStep
<1>2. QED
  BY SchedulerInit, <1>1, PTL DEF Spec

\* requestScan and the handler of scannedMsg keep one scan under way at most,
\* and the slot names it, in behaviours of every length.
THEOREM ScansAreSerialized == Spec => []OneScanAtATime
<1>1. SchedulerInv => OneScanAtATime
  BY DEF SchedulerInv
<1>2. QED
  BY <1>1, SchedulerCorrect, PTL

\* The spinner tells the truth once the program has started.
THEOREM SpinnerIsHonest == Spec => []SpinnerHonest
<1>1. SchedulerInv => SpinnerHonest
  BY DEF SchedulerInv, SpinnerHonest
<1>2. QED
  BY <1>1, SchedulerCorrect, PTL

\* A request that waits has a scan to wait for.
THEOREM RequestsAreNotStranded == Spec => []NoStrandedRequest
<1>1. SchedulerInv => NoStrandedRequest
  BY DEF SchedulerInv
<1>2. QED
  BY <1>1, SchedulerCorrect, PTL

\* Pausing freezes the view against every scan that runs or waits, for any
\* number of pauses and refreshes.
THEOREM PausedViewIsFrozen == Spec => PausedViewFrozen
<1>1. TypeOK /\ SchedulerInv /\ [Next]_vars =>
        [paused /\ view' # view => view' > pausedAt /\ activeManual]_vars
  <2> SUFFICES ASSUME TypeOK, SchedulerInv, Next, paused, view' # view
               PROVE  view' > pausedAt /\ activeManual
    OBVIOUS
  <2>1. PICK msg \in results : Scanned(msg)
    BY DEF Next, Boot, Tick, Refresh, Pause, Resume, Stop, StopResult, Complete,
       Deliver, viewVars
  <2>2. Matches(msg) /\ Applies(msg) /\ view' = msg.id
    BY <2>1 DEF Scanned, Show, viewVars
  <2>3. QED
    BY <2>2 DEF Matches, Applies, SchedulerInv, TypeOK
<1>2. QED
  BY <1>1, SchedulerCorrect, PTL DEF Spec, PausedViewFrozen

-----------------------------------------------------------------------------
(* The cache of URL schemes *)

\* The cache is empty, and nobody probes.
LEMMA CacheStarts ==
  ASSUME CacheInit
  PROVE  CacheInv
<1> USE SchemeAssumption DEF CacheInit, NoEntry, Schemes, Bases, Threads
<1>1. CacheTypeOK
  BY DEF CacheTypeOK
<1>2. NoObsoleteEntry /\ ProbesDoNotStack /\ PlaceholdersOutlastProbes
  BY DEF NoObsoleteEntry, ProbesDoNotStack, PlaceholdersOutlastProbes
<1>3. QED
  BY <1>1, <1>2 DEF CacheInv

\* Every step of a reader, a probe or the clock.  That no second probe starts
\* needs the placeholder of the first to outlast it, in every state.
LEMMA CacheKeeps ==
  ASSUME CacheInv, [CacheNext]_cacheVars
  PROVE  CacheInv'
<1> USE SchemeAssumption DEF Schemes, Bases, Threads,
            CacheInv, CacheTypeOK, NoObsoleteEntry, ProbesDoNotStack,
            PlaceholdersOutlastProbes, Fresh, Entry
<1>1. ASSUME NEW c \in Callers, SchemeHit(c) PROVE CacheInv'
  BY <1>1 DEF SchemeHit
<1>2. ASSUME NEW c \in Callers, SchemeMiss(c) PROVE CacheInv'
  BY <1>2 DEF SchemeMiss
<1>3. ASSUME NEW b \in Probers, CachedSchemeMiss(b) PROVE CacheInv'
  BY <1>3 DEF CachedSchemeMiss
<1>4. ASSUME NEW t \in Threads, RefreshBegin(t) PROVE CacheInv'
  BY <1>4 DEF RefreshBegin
<1>5. ASSUME NEW t \in Threads, RefreshProbe(t) PROVE CacheInv'
  BY <1>5 DEF RefreshProbe
<1>6. ASSUME NEW t \in Threads, RefreshCommit(t) PROVE CacheInv'
  BY <1>6 DEF RefreshCommit
<1>7. CASE SetTLSProbeForTesting
  BY <1>7 DEF SetTLSProbeForTesting, NoEntry
<1>8. CASE Restart
  BY <1>8 DEF Restart
<1>9. CASE CacheTick
  BY <1>9 DEF CacheTick
<1>10. CASE UNCHANGED cacheVars
  BY <1>10 DEF cacheVars
<1>11. QED
  BY <1>1, <1>2, <1>3, <1>4, <1>5, <1>6, <1>7, <1>8, <1>9, <1>10
     DEF CacheNext, RefreshScheme

\* No stale answer of an older generation is kept or cached, and no two probes of
\* one port run at once.
THEOREM CacheCorrect == CacheSpec => []CacheInv
<1>1. CacheInv /\ [CacheNext]_cacheVars => CacheInv'
  BY CacheKeeps
<1>2. CacheInit => CacheInv
  BY CacheStarts
<1>3. QED
  BY <1>1, <1>2, PTL DEF CacheSpec

=============================================================================
