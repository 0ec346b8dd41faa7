--------------------------- MODULE DatacenterProofs ---------------------------
(***************************************************************************)
(* Proofs about MetricsJoin and Datacenter.  Whatever the two answers of   *)
(* Prometheus hold, what is published of a row is borne out by them; the   *)
(* devices that an inventory shows are those of one moment, as far as its  *)
(* pages can tell; and the exit code of a command tells what was shown.    *)
(***************************************************************************)
EXTENDS Datacenter, SequenceTheorems, FiniteSetTheorems, TLAPS

\* sourceFreshness has three answers, and they mean what they say.
LEMMA FreshStamps ==
  ASSUME NEW required, NEW recent, NEW old
  PROVE  /\ Freshness(required, recent, old) \in {"fresh", "stale", "unknown"}
         /\ Freshness(required, recent, old) = "stale" <=>
                required \subseteq recent \cup old /\ ~(required \subseteq recent)
         /\ Freshness(required, recent, old) = "fresh" <=> required \subseteq recent
<1>1. CASE ~(required \subseteq recent \cup old)
  BY <1>1 DEF Freshness
<1>2. CASE required \subseteq recent \cup old
  <2>1. CASE required \subseteq recent
    BY <1>2, <2>1 DEF Freshness
  <2>2. CASE ~(required \subseteq recent)
    BY <1>2, <2>2 DEF Freshness
  <2>3. QED
    BY <2>1, <2>2
<1>3. QED
  BY <1>1, <1>2

\* summarize gives the worst of what it is given.
LEMMA Worst ==
  ASSUME NEW ages \in SUBSET {"fresh", "stale", "unknown"},
         NEW ups \in SUBSET {"up", "down", "unknown"}
  PROVE  /\ WorstFreshness(ages) = "fresh" <=> \A f \in ages : f = "fresh"
         /\ WorstFreshness(ages) = "stale" <=> \E f \in ages : f = "stale"
         /\ WorstUp(ups) = "up" <=> \A o \in ups : o = "up"
         /\ WorstUp(ups) = "down" <=> \E o \in ups : o = "down"
  BY DEF WorstFreshness, WorstUp

\* What a row says of its age is what the stamps of all its sources say.
LEMMA RowFreshness ==
  ASSUME NEW gpu, NEW v, NEW recent, NEW old, NEW u
  PROVE  LET freshness == RowHealth(gpu, v, recent, old, u).freshness
             sources == RowSources(gpu, v, u)
         IN  /\ freshness = "fresh" <=>
                    \A s \in sources : Required(v, s, u) \subseteq recent
             /\ freshness = "stale" <=>
                    \E s \in sources : /\ Required(v, s, u) \subseteq recent \cup old
                                       /\ ~(Required(v, s, u) \subseteq recent)
<1> DEFINE sources == RowSources(gpu, v, u)
           age(s) == Freshness(Required(v, s, u), recent, old)
           ages == {age(s) : s \in sources}
<1>1. ages \in SUBSET {"fresh", "stale", "unknown"}
  BY FreshStamps
<1>2. RowHealth(gpu, v, recent, old, u).freshness = WorstFreshness(ages)
  BY DEF RowHealth
<1>3. /\ WorstFreshness(ages) = "fresh" <=> \A f \in ages : f = "fresh"
      /\ WorstFreshness(ages) = "stale" <=> \E f \in ages : f = "stale"
  <2>1. {} \in SUBSET {"up", "down", "unknown"}
    OBVIOUS
  <2> HIDE DEF ages
  <2>2. QED
    BY <1>1, <2>1, Worst
<1>4. /\ (\A f \in ages : f = "fresh") <=> \A s \in sources : age(s) = "fresh"
      /\ (\E f \in ages : f = "stale") <=> \E s \in sources : age(s) = "stale"
  <2> HIDE DEF sources, age
  <2>1. QED
    OBVIOUS
<1>5. \A s \in sources :
          /\ age(s) = "fresh" <=> Required(v, s, u) \subseteq recent
          /\ age(s) = "stale" <=> /\ Required(v, s, u) \subseteq recent \cup old
                                /\ ~(Required(v, s, u) \subseteq recent)
  BY FreshStamps
<1> HIDE DEF sources, age, ages
<1>6. QED
  BY <1>2, <1>3, <1>4, <1>5 DEF sources

\* What a row says of up is what its sources say.
LEMMA RowUp ==
  ASSUME NEW gpu, NEW v, NEW recent, NEW old, NEW u
  PROVE  LET up == RowHealth(gpu, v, recent, old, u).up
             sources == RowSources(gpu, v, u)
         IN  /\ up = "up" <=> \A s \in sources : v.up[s] = "up"
             /\ up = "down" <=> \E s \in sources : v.up[s] = "down"
<1> DEFINE sources == RowSources(gpu, v, u)
           ups == {UpOf(v, s) : s \in sources}
<1>1. ups \in SUBSET {"up", "down", "unknown"}
  BY DEF UpOf
<1>2. RowHealth(gpu, v, recent, old, u).up = WorstUp(ups)
  BY DEF RowHealth
<1>3. /\ WorstUp(ups) = "up" <=> \A o \in ups : o = "up"
      /\ WorstUp(ups) = "down" <=> \E o \in ups : o = "down"
  <2>1. {} \in SUBSET {"fresh", "stale", "unknown"}
    OBVIOUS
  <2> HIDE DEF ups
  <2>2. QED
    BY <1>1, <2>1, Worst
<1>4. /\ (\A o \in ups : o = "up") <=> \A s \in sources : UpOf(v, s) = "up"
      /\ (\E o \in ups : o = "down") <=> \E s \in sources : UpOf(v, s) = "down"
  <2> HIDE DEF sources
  <2>1. QED
    OBVIOUS
<1>5. \A s \in sources : /\ UpOf(v, s) = "up" <=> v.up[s] = "up"
                         /\ UpOf(v, s) = "down" <=> v.up[s] = "down"
  BY DEF UpOf
<1> HIDE DEF sources, ups
<1>6. QED
  BY <1>2, <1>3, <1>4, <1>5 DEF sources

\* The sources and the stamps that the join asks for are those that there are.
LEMMA FeedingRow ==
  ASSUME NEW u
  PROVE  /\ (\A x \in values.series : x.source \in Sources) =>
                RowSources(IsGPU, values, u) = Feeding(u)
         /\ \A s : Required(values, s, u) = Behind(s, u)
<1>1. (\A x \in values.series : x.source \in Sources) =>
          RowSources(IsGPU, values, u) = Feeding(u)
  BY DEF RowSources, Feeding
<1>2. ASSUME NEW s PROVE Required(values, s, u) = Behind(s, u)
  <2> DEFINE mine == {x \in values.series : x.source = s /\ x.unit = u}
             raws == UNION {RawFields(x.field) : x \in mine}
  <2>1. Behind(s, u) = {UpKey(s)} \cup {[source |-> s, unit |-> u, raw |-> r] : r \in raws}
    BY DEF Behind, RawFields
  <2>2. ASSUME NEW x \in mine
        PROVE  RawKeys(x) = {[source |-> s, unit |-> u, raw |-> r] : r \in RawFields(x.field)}
    <3>1. RawKeys(x) = [source : {s}, unit : {u}, raw : RawFields(x.field)]
      BY DEF RawKeys
    <3>2. \A k \in [source : {s}, unit : {u}, raw : RawFields(x.field)] :
              k = [source |-> s, unit |-> u, raw |-> k.raw] /\ k.raw \in RawFields(x.field)
      OBVIOUS
    <3>3. \A r \in RawFields(x.field) : [source |-> s, unit |-> u, raw |-> r]
              \in [source : {s}, unit : {u}, raw : RawFields(x.field)]
      OBVIOUS
    <3>4. QED
      BY <3>1, <3>2, <3>3
  <2>3. UNION {RawKeys(x) : x \in mine} = {[source |-> s, unit |-> u, raw |-> r] : r \in raws}
    <3> HIDE DEF mine
    <3>1. QED
      BY <2>2
  <2>4. QED
    BY <2>1, <2>3 DEF Required
<1>3. QED
  BY <1>1, <1>2

\* The views of a command are different ones, and none is collected yet.
LEMMA DatacenterInit == Init => QueueInv /\ JoinInv
<1> SUFFICES ASSUME Init PROVE QueueInv /\ JoinInv
  OBVIOUS
<1>1. /\ asked \in Seq(Views) /\ Head(asked) \in Views
      /\ \A i, j \in 1 .. Len(asked) : asked[i] = asked[j] => i = j
  <2>1. CASE \E v \in Views : asked = <<v>>
    BY <2>1
  <2>2. CASE asked = <<"fleet", "gpu">>
    BY <2>2 DEF Views
  <2>3. CASE asked = <<"fleet", "gpu", "inventory">>
    BY <2>3 DEF Views
  <2>4. QED
    BY <2>1, <2>2, <2>3 DEF Init, Commands
<1>2. /\ section \in [Views -> Errors \cup {"none", "data"}]
      /\ \A v \in Views : section[v] = "none"
  BY DEF Init
<1>3. view \in Views /\ left = asked /\ pc = "next"
  BY <1>1 DEF Init
<1>4. QueueInv
  BY <1>1, <1>2, <1>3 DEF QueueInv
<1>5. JoinInv
  BY <1>2, <1>3 DEF JoinInv, Init, NoValues
<1>6. QED
  BY <1>4, <1>5

\* Every step leaves the views that are still to come alone.
LEMMA QueueStep ==
  ASSUME QueueInv, [Next]_vars
  PROVE  QueueInv'
<1> USE DEF QueueInv, Views, Errors, vars, commandVars, metricsVars, sourceVars, fetchVars, endVars
<1>1. CASE Deadline
  BY <1>1 DEF Deadline
<1>2. CASE Begin
  BY <1>2 DEF Begin, Goto
<1>3. CASE Fails
  BY <1>3 DEF Fails, Settle, Goto, GetError
<1>4. CASE QueryValues
  BY <1>4 DEF QueryValues, Settle, Goto
<1>5. CASE QueryStamps
  BY <1>5 DEF QueryStamps, Settle, Goto
<1>6. CASE AddDevice
  BY <1>6 DEF AddDevice, Edit
<1>7. CASE RemoveDevice
  BY <1>7 DEF RemoveDevice, Edit
<1>8. CASE MoveDevice
  BY <1>8 DEF MoveDevice, Edit
<1>9. CASE FetchPage
  BY <1>9 DEF FetchPage, Settle, Goto
<1>10. CASE ReportView
  BY <1>10 DEF ReportView, Finish, Write, Goto
<1>11. CASE ReportSummary
  BY <1>11 DEF ReportSummary, Finish, Write, Goto
<1>12. CASE UNCHANGED vars
  BY <1>12
<1>13. QED
  BY <1>1, <1>2, <1>3, <1>4, <1>5, <1>6, <1>7, <1>8, <1>9, <1>10, <1>11, <1>12 DEF Next

\* The rows and the answers they were joined from change together.
LEMMA JoinStep ==
  ASSUME QueueInv, JoinInv, [Next]_vars
  PROVE  JoinInv'
<1> USE DEF QueueInv, JoinInv, Views, Errors, IsGPU, vars, commandVars, metricsVars, sourceVars, fetchVars, endVars
<1>1. CASE Deadline
  BY <1>1 DEF Deadline
<1>2. CASE Begin
  BY <1>2 DEF Begin, Goto, NoValues
<1>3. CASE Fails
  BY <1>3 DEF Fails, Settle, Goto, GetError
<1>4. CASE QueryValues
  BY <1>4 DEF QueryValues, Settle, Goto, Samples
<1>5. CASE QueryStamps
  BY <1>5 DEF QueryStamps, Settle, Goto
<1>6. CASE AddDevice
  BY <1>6 DEF AddDevice, Edit
<1>7. CASE RemoveDevice
  BY <1>7 DEF RemoveDevice, Edit
<1>8. CASE MoveDevice
  BY <1>8 DEF MoveDevice, Edit
<1>9. CASE FetchPage
  BY <1>9 DEF FetchPage, Settle, Goto
<1>10. CASE ReportView
  BY <1>10 DEF ReportView, Finish, Write, Goto
<1>11. CASE ReportSummary
  BY <1>11 DEF ReportSummary, Finish, Write, Goto
<1>12. CASE UNCHANGED vars
  BY <1>12
<1>13. QED
  BY <1>1, <1>2, <1>3, <1>4, <1>5, <1>6, <1>7, <1>8, <1>9, <1>10, <1>11, <1>12 DEF Next

\* What is published is the join of two answers that are still held.
THEOREM RowsAreJoined == Spec => [](QueueInv /\ JoinInv)
<1>1. QueueInv /\ JoinInv /\ [Next]_vars => (QueueInv /\ JoinInv)'
  BY QueueStep, JoinStep
<1>2. QED
  BY DatacenterInit, <1>1, PTL DEF Spec

\* What a row is called is borne out by every source that feeds it, those of
\* which only up is known included, and by every raw series behind its values;
\* for any sources, devices and answers.
THEOREM EvidenceBearsOut == Spec => []EvidenceIsExplicit
<1>1. QueueInv /\ JoinInv => EvidenceIsExplicit
  <2> SUFFICES ASSUME QueueInv, JoinInv, view # "inventory", section[view] = "data",
                      NEW u \in DOMAIN rows
               PROVE  /\ rows[u].freshness = "fresh" <=>
                            \A s \in Feeding(u) : Behind(s, u) \subseteq stamps.recent
                      /\ rows[u].freshness = "stale" <=>
                            \E s \in Feeding(u) :
                                /\ Behind(s, u) \subseteq stamps.recent \cup stamps.old
                                /\ ~(Behind(s, u) \subseteq stamps.recent)
                      /\ rows[u].up = "up" <=> \A s \in Feeding(u) : values.up[s] = "up"
                      /\ rows[u].up = "down" <=> \E s \in Feeding(u) : values.up[s] = "down"
    BY DEF EvidenceIsExplicit
  <2>1. rows[u] = RowHealth(IsGPU, values, stamps.recent, stamps.old, u)
    BY DEF JoinInv, Assemble
  <2>2. /\ RowSources(IsGPU, values, u) = Feeding(u)
        /\ \A s : Required(values, s, u) = Behind(s, u)
    BY FeedingRow DEF JoinInv
  <2>3. /\ rows[u].freshness = "fresh" <=>
              \A s \in Feeding(u) : Behind(s, u) \subseteq stamps.recent
        /\ rows[u].freshness = "stale" <=>
              \E s \in Feeding(u) :
                  /\ Behind(s, u) \subseteq stamps.recent \cup stamps.old
                  /\ ~(Behind(s, u) \subseteq stamps.recent)
    BY <2>1, <2>2, RowFreshness
  <2>4. /\ rows[u].up = "up" <=> \A s \in Feeding(u) : values.up[s] = "up"
        /\ rows[u].up = "down" <=> \E s \in Feeding(u) : values.up[s] = "down"
    BY <2>1, <2>2, RowUp
  <2>5. QED
    BY <2>3, <2>4
<1>2. QED
  BY <1>1, RowsAreJoined, PTL

-----------------------------------------------------------------------------
(* Lists without repetition *)

\* What a list holds.
LEMMA Held ==
  ASSUME NEW T, NEW s \in Seq(T)
  PROVE  /\ S!ToSet(s) \subseteq T
         /\ \A i \in 1 .. Len(s) : s[i] \in S!ToSet(s)
         /\ \A x \in S!ToSet(s) : \E i \in 1 .. Len(s) : x = s[i]
<1>1. Len(s) \in Nat /\ DOMAIN s = 1 .. Len(s)
  BY LenProperties
<1>2. \A i \in 1 .. Len(s) : s[i] \in T
  BY ElementOfSeq
<1>3. QED
  BY <1>1, <1>2 DEF S!ToSet

\* What the empty list and a list of one hold.
LEMMA EmptyHolds == S!ToSet(<<>>) = {} /\ S!IsInjective(<<>>)
<1>1. Len(<<>>) = 0 /\ <<>> \in Seq({}) /\ DOMAIN <<>> = {}
  BY EmptySeq, LenProperties
<1>2. QED
  BY <1>1 DEF S!ToSet, S!IsInjective

LEMMA SingleHolds ==
  ASSUME NEW e
  PROVE  S!ToSet(<<e>>) = {e}
<1>1. DOMAIN <<e>> = {1} /\ <<e>>[1] = e
  OBVIOUS
<1>2. QED
  BY <1>1 DEF S!ToSet

\* What Injective says of a list.
LEMMA Distinct ==
  ASSUME NEW T, NEW s \in Seq(T)
  PROVE  S!IsInjective(s) <=> \A i, j \in 1 .. Len(s) : s[i] = s[j] => i = j
<1>1. DOMAIN s = 1 .. Len(s)
  BY LenProperties
<1>2. QED
  BY <1>1 DEF S!IsInjective

\* A list without repetition holds as many as it is long.
LEMMA CountsOnce ==
  ASSUME NEW T, NEW s \in Seq(T), S!IsInjective(s)
  PROVE  IsFiniteSet(S!ToSet(s)) /\ Cardinality(S!ToSet(s)) = Len(s)
<1> DEFINE M == S!ToSet(s)
<1>1. Len(s) \in Nat /\ DOMAIN s = 1 .. Len(s)
  BY LenProperties
<1>2. IsFiniteSet(1 .. Len(s)) /\ Cardinality(1 .. Len(s)) = Len(s)
  BY <1>1, FS_Interval
<1>3. s \in [1 .. Len(s) -> M]
  <2>1. s \in [1 .. Len(s) -> T]
    BY LenProperties
  <2>2. QED
    BY <2>1, Held
<1>4. \A x \in M : \E i \in 1 .. Len(s) : s[i] = x
  BY Held
<1>5. \A i, j \in 1 .. Len(s) : s[i] = s[j] => i = j
  BY Distinct
<1>6. s \in Bijection(1 .. Len(s), M)
  BY <1>3, <1>4, <1>5 DEF Bijection, Injection, Surjection, IsInjective
<1>7. ExistsBijection(1 .. Len(s), M)
  BY <1>6 DEF ExistsBijection
<1>8. QED
  BY <1>2, <1>7, FS_Bijection

\* NetBox gets a device that it has not.
LEMMA Inserted ==
  ASSUME NEW T, NEW s \in Seq(T), S!IsInjective(s), NEW i \in 1 .. Len(s) + 1,
         NEW e \in T, e \notin S!ToSet(s)
  PROVE  /\ S!InsertAt(s, i, e) \in Seq(T) /\ S!IsInjective(S!InsertAt(s, i, e))
         /\ S!ToSet(S!InsertAt(s, i, e)) = S!ToSet(s) \cup {e}
<1> DEFINE n == Len(s)
           t == S!InsertAt(s, i, e)
           a == SubSeq(s, 1, i - 1)
           b == SubSeq(s, i, n)
<1>1. n \in Nat /\ i \in Int
  BY LenProperties
<1>2. \A k \in 1 .. n : s[k] \in T
  BY ElementOfSeq
<1>3. a \in Seq(T) /\ Len(a) = i - 1 /\ \A k \in 1 .. i - 1 : a[k] = s[k]
  BY <1>1, <1>2, SubSeqProperties
<1>4. b \in Seq(T) /\ Len(b) = n - i + 1 /\ \A k \in 1 .. n - i + 1 : b[k] = s[i + k - 1]
  BY <1>1, <1>2, SubSeqProperties
<1> HIDE DEF a, b
<1> DEFINE one == <<e>>
<1>5. one \in Seq(T) /\ Len(one) = 1 /\ one[1] = e
  OBVIOUS
<1>6. t = (a \o one) \o b
  BY DEF S!InsertAt, a, b
<1> HIDE DEF one
<1>7. /\ a \o one \in Seq(T) /\ Len(a \o one) = i
      /\ \A k \in 1 .. i : (a \o one)[k] = IF k < i THEN s[k] ELSE e
  <2>1. /\ a \o one \in Seq(T) /\ Len(a \o one) = (i - 1) + 1
        /\ \A k \in 1 .. (i - 1) + 1 :
              (a \o one)[k] = IF k <= i - 1 THEN a[k] ELSE one[k - (i - 1)]
    <3>1. /\ a \o one \in Seq(T) /\ Len(a \o one) = Len(a) + Len(one)
          /\ \A k \in 1 .. Len(a) + Len(one) :
                (a \o one)[k] = IF k <= Len(a) THEN a[k] ELSE one[k - Len(a)]
      BY <1>3, <1>5, ConcatProperties
    <3>2. QED
      BY <1>3, <1>5, <3>1
  <2>2. ASSUME NEW k \in 1 .. i
        PROVE  (a \o one)[k] = IF k < i THEN s[k] ELSE e
    <3>1. (a \o one)[k] = IF k <= i - 1 THEN a[k] ELSE one[k - (i - 1)]
      BY <1>1, <2>1
    <3>2. CASE k < i
      BY <1>1, <1>3, <3>1, <3>2
    <3>3. CASE k = i
      <4>1. k - (i - 1) = 1 /\ ~(k <= i - 1)
        BY <1>1, <3>3
      <4>2. QED
        BY <1>1, <1>5, <3>1, <3>3, <4>1
    <3>4. k < i \/ k = i
      BY <1>1
    <3>5. QED
      BY <3>2, <3>3, <3>4
  <2>3. QED
    BY <1>1, <2>1, <2>2
<1>8. /\ t \in Seq(T) /\ Len(t) = n + 1
      /\ \A k \in 1 .. n + 1 :
            t[k] = IF k < i THEN s[k] ELSE IF k = i THEN e ELSE s[k - 1]
  <2> DEFINE c == a \o one
  <2>1. c \in Seq(T) /\ Len(c) = i /\ \A k \in 1 .. i : c[k] = IF k < i THEN s[k] ELSE e
    BY <1>7
  <2>2. t = c \o b
    BY <1>6
  <2> HIDE DEF c, t
  <2>3. /\ c \o b \in Seq(T) /\ Len(c \o b) = i + (n - i + 1)
        /\ \A k \in 1 .. i + (n - i + 1) : (c \o b)[k] = IF k <= i THEN c[k] ELSE b[k - i]
    BY <1>4, <2>1, ConcatProperties
  <2>4. i + (n - i + 1) = n + 1
    BY <1>1
  <2>5. ASSUME NEW k \in 1 .. n + 1
        PROVE  t[k] = IF k < i THEN s[k] ELSE IF k = i THEN e ELSE s[k - 1]
    <3>1. t[k] = IF k <= i THEN c[k] ELSE b[k - i]
      BY <2>2, <2>3, <2>4
    <3>2. CASE k <= i
      BY <1>1, <2>1, <3>1, <3>2
    <3>3. CASE k > i
      <4>1. k - i \in 1 .. n - i + 1 /\ i + (k - i) - 1 = k - 1
        BY <1>1, <3>3
      <4>2. b[k - i] = s[k - 1]
        BY <1>4, <4>1
      <4>3. QED
        BY <1>1, <3>1, <3>3, <4>2
    <3>4. QED
      BY <1>1, <3>2, <3>3
  <2>6. QED
    BY <2>2, <2>3, <2>4, <2>5
<1> HIDE DEF t
<1>9. \A j, k \in 1 .. n : s[j] = s[k] => j = k
  BY Distinct
<1>10. \A k \in 1 .. n : s[k] # e
  BY Held
<1>11. S!IsInjective(t)
  <2>1. ASSUME NEW j \in 1 .. n + 1, NEW k \in 1 .. n + 1, t[j] = t[k]
        PROVE  j = k
    <3>1. \A m \in 1 .. n + 1 : m # i =>
              \E l \in 1 .. n : l = (IF m < i THEN m ELSE m - 1) /\ t[m] = s[l]
      BY <1>1, <1>8
    <3>2. t[i] = e
      BY <1>1, <1>8
    <3>3. CASE j = i \/ k = i
      BY <1>10, <2>1, <3>1, <3>2, <3>3
    <3>4. CASE j # i /\ k # i
      <4>1. PICK l \in 1 .. n : l = (IF j < i THEN j ELSE j - 1) /\ t[j] = s[l]
        BY <3>1, <3>4
      <4>2. PICK m \in 1 .. n : m = (IF k < i THEN k ELSE k - 1) /\ t[k] = s[m]
        BY <3>1, <3>4
      <4>3. l = m
        BY <1>9, <2>1, <4>1, <4>2
      <4>4. QED
        BY <1>1, <3>4, <4>1, <4>2, <4>3
    <3>5. QED
      BY <3>3, <3>4
  <2>2. QED
    BY <1>8, <2>1, Distinct
<1>12. S!ToSet(t) = S!ToSet(s) \cup {e}
  <2>1. ASSUME NEW x \in S!ToSet(t) PROVE x \in S!ToSet(s) \cup {e}
    <3>1. PICK k \in 1 .. n + 1 : x = t[k]
      BY <1>8, Held
    <3>2. x = e \/ \E j \in 1 .. n : x = s[j]
      BY <1>1, <1>8, <3>1
    <3>3. QED
      BY <3>2, Held
  <2>2. ASSUME NEW x \in S!ToSet(s) PROVE x \in S!ToSet(t)
    <3>1. PICK k \in 1 .. n : x = s[k]
      BY Held
    <3>2. IF k < i THEN t[k] = x ELSE t[k + 1] = x
      <4>1. k \in 1 .. n + 1 /\ k + 1 \in 1 .. n + 1 /\ (k + 1) - 1 = k
        BY <1>1
      <4>2. QED
        BY <1>1, <1>8, <3>1, <4>1
    <3>3. \E j \in 1 .. Len(t) : t[j] = x
      BY <1>1, <1>8, <3>2
    <3>4. QED
      BY <1>8, <3>3, Held
  <2>3. e \in S!ToSet(t)
    <3>1. i \in 1 .. Len(t) /\ t[i] = e
      BY <1>1, <1>8
    <3>2. QED
      BY <1>8, <3>1, Held
  <2>4. QED
    BY <2>1, <2>2, <2>3
<1>13. QED
  BY <1>8, <1>11, <1>12 DEF t

\* NetBox loses a device.
LEMMA Removed ==
  ASSUME NEW T, NEW s \in Seq(T), S!IsInjective(s), NEW i \in 1 .. Len(s)
  PROVE  /\ S!RemoveAt(s, i) \in Seq(T) /\ S!IsInjective(S!RemoveAt(s, i))
         /\ Len(S!RemoveAt(s, i)) = Len(s) - 1
         /\ S!ToSet(S!RemoveAt(s, i)) = S!ToSet(s) \ {s[i]}
<1> DEFINE n == Len(s)
           t == S!RemoveAt(s, i)
           a == SubSeq(s, 1, i - 1)
           b == SubSeq(s, i + 1, n)
<1>1. n \in Nat /\ i \in Int
  BY LenProperties
<1>2. \A k \in 1 .. n : s[k] \in T
  BY ElementOfSeq
<1>3. a \in Seq(T) /\ Len(a) = i - 1 /\ \A k \in 1 .. i - 1 : a[k] = s[k]
  BY <1>1, <1>2, SubSeqProperties
<1>4. b \in Seq(T) /\ Len(b) = n - i /\ \A k \in 1 .. n - i : b[k] = s[i + k]
  BY <1>1, <1>2, SubSeqProperties
<1> HIDE DEF a, b
<1>5. t = a \o b
  BY DEF S!RemoveAt, a, b
<1>6. /\ t \in Seq(T) /\ Len(t) = n - 1
      /\ \A k \in 1 .. n - 1 : t[k] = IF k < i THEN s[k] ELSE s[k + 1]
  <2> HIDE DEF t
  <2>1. /\ a \o b \in Seq(T) /\ Len(a \o b) = (i - 1) + (n - i)
        /\ \A k \in 1 .. (i - 1) + (n - i) :
              (a \o b)[k] = IF k <= i - 1 THEN a[k] ELSE b[k - (i - 1)]
    <3>1. /\ a \o b \in Seq(T) /\ Len(a \o b) = Len(a) + Len(b)
          /\ \A k \in 1 .. Len(a) + Len(b) :
                (a \o b)[k] = IF k <= Len(a) THEN a[k] ELSE b[k - Len(a)]
      BY <1>3, <1>4, ConcatProperties
    <3>2. QED
      BY <1>3, <1>4, <3>1
  <2>2. (i - 1) + (n - i) = n - 1
    BY <1>1
  <2>3. ASSUME NEW k \in 1 .. n - 1
        PROVE  t[k] = IF k < i THEN s[k] ELSE s[k + 1]
    <3>1. t[k] = IF k <= i - 1 THEN a[k] ELSE b[k - (i - 1)]
      BY <1>5, <2>1, <2>2
    <3>2. CASE k < i
      BY <1>1, <1>3, <3>1, <3>2
    <3>3. CASE k >= i
      <4>1. k - (i - 1) \in 1 .. n - i /\ i + (k - (i - 1)) = k + 1
        BY <1>1, <3>3
      <4>2. b[k - (i - 1)] = s[k + 1]
        BY <1>4, <4>1
      <4>3. QED
        BY <1>1, <3>1, <3>3, <4>2
    <3>4. QED
      BY <1>1, <3>2, <3>3
  <2>4. QED
    BY <1>5, <2>1, <2>2, <2>3
<1> HIDE DEF t
<1>7. \A j, k \in 1 .. n : s[j] = s[k] => j = k
  BY Distinct
<1>8. S!IsInjective(t)
  <2>1. \A j, k \in 1 .. n - 1 : t[j] = t[k] => j = k
    BY <1>1, <1>6, <1>7
  <2>2. QED
    BY <1>6, <2>1, Distinct
<1>9. S!ToSet(t) = S!ToSet(s) \ {s[i]}
  <2>1. ASSUME NEW x \in S!ToSet(t) PROVE x \in S!ToSet(s) \ {s[i]}
    <3>1. PICK k \in 1 .. n - 1 : x = t[k]
      BY <1>6, Held
    <3>2. \E j \in 1 .. n : x = s[j] /\ j # i
      BY <1>1, <1>6, <3>1
    <3>3. QED
      BY <1>7, <3>2, Held
  <2>2. ASSUME NEW x \in S!ToSet(s) \ {s[i]} PROVE x \in S!ToSet(t)
    <3>1. PICK k \in 1 .. n : x = s[k]
      BY Held
    <3>2. k # i
      BY <3>1
    <3>3. IF k < i THEN k \in 1 .. n - 1 /\ t[k] = x ELSE k - 1 \in 1 .. n - 1 /\ t[k - 1] = x
      <4>1. CASE k < i
        BY <1>1, <1>6, <3>1, <4>1
      <4>2. CASE k > i
        <5>1. k - 1 \in 1 .. n - 1 /\ ~(k - 1 < i) /\ (k - 1) + 1 = k
          BY <1>1, <4>2
        <5>2. t[k - 1] = s[k]
          BY <1>6, <5>1
        <5>3. QED
          BY <1>1, <3>1, <4>2, <5>1, <5>2
      <4>3. QED
        BY <1>1, <3>2, <4>1, <4>2
    <3>4. \E j \in 1 .. Len(t) : t[j] = x
      BY <1>6, <3>3
    <3>5. QED
      BY <1>6, <3>4, Held
  <2>3. QED
    BY <2>1, <2>2
<1>10. QED
  BY <1>6, <1>8, <1>9 DEF t

-----------------------------------------------------------------------------
(* The budget of a client *)

\* There are finitely many series that an answer may hold, and finitely many
\* stamps that a row may want.
LEMMA SamplesFinite ==
  ASSUME NEW gpu \in BOOLEAN
  PROVE  IsFiniteSet(Samples(gpu))
<1> DEFINE U == Units(gpu)
           f == [p \in (Sources \X U) \X Fields |->
                    [source |-> p[1][1], unit |-> p[1][2], field |-> p[2]]]
<1>1. IsFiniteSet(U)
  BY DatacenterAssumption, FS_Singleton DEF Units
<1>2. IsFiniteSet(Fields)
  <2>1. Fields = {"plain"} \cup {"ratio"}
    BY DEF Fields
  <2>2. QED
    BY <2>1, FS_Singleton, FS_Union
<1> HIDE DEF U
<1>3. IsFiniteSet((Sources \X U) \X Fields)
  BY <1>1, <1>2, DatacenterAssumption, FS_Product
<1>4. f \in Surjection((Sources \X U) \X Fields, [source : Sources, unit : U, field : Fields])
  <2> DEFINE R == [source : Sources, unit : U, field : Fields]
  <2>1. f \in [(Sources \X U) \X Fields -> R]
    OBVIOUS
  <2>2. ASSUME NEW x \in R PROVE \E p \in (Sources \X U) \X Fields : f[p] = x
    <3>1. <<<<x.source, x.unit>>, x.field>> \in (Sources \X U) \X Fields
      OBVIOUS
    <3>2. f[<<<<x.source, x.unit>>, x.field>>] = x
      BY <3>1
    <3>3. QED
      BY <3>1, <3>2
  <2>3. QED
    BY <2>1, <2>2 DEF Surjection
<1>5. Samples(gpu) = [source : Sources, unit : U, field : Fields]
  BY DEF Samples, U
<1>6. QED
  BY <1>3, <1>4, <1>5, FS_Surjection

Keys(gpu) ==
    [source : Sources, unit : Units(gpu) \cup {""}, raw : {"up", "plain", "part", "whole"}]

LEMMA KeysFinite ==
  ASSUME NEW gpu \in BOOLEAN
  PROVE  IsFiniteSet(Keys(gpu))
<1> DEFINE U == Units(gpu) \cup {""}
           K == {"up", "plain", "part", "whole"}
           f == [p \in (Sources \X U) \X K |->
                    [source |-> p[1][1], unit |-> p[1][2], raw |-> p[2]]]
<1>1. IsFiniteSet(U)
  <2>1. IsFiniteSet(Units(gpu))
    BY DatacenterAssumption, FS_Singleton DEF Units
  <2>2. QED
    BY <2>1, FS_AddElement
<1>2. IsFiniteSet(K)
  <2>1. IsFiniteSet({} \cup {"up"})
    BY FS_EmptySet, FS_AddElement
  <2>2. IsFiniteSet(({} \cup {"up"}) \cup {"plain"})
    BY <2>1, FS_AddElement
  <2>3. IsFiniteSet((({} \cup {"up"}) \cup {"plain"}) \cup {"part"})
    BY <2>2, FS_AddElement
  <2>4. IsFiniteSet(((({} \cup {"up"}) \cup {"plain"}) \cup {"part"}) \cup {"whole"})
    BY <2>3, FS_AddElement
  <2>5. K = ((({} \cup {"up"}) \cup {"plain"}) \cup {"part"}) \cup {"whole"}
    OBVIOUS
  <2>6. QED
    BY <2>4, <2>5
<1>5. Keys(gpu) = [source : Sources, unit : U, raw : K]
  BY DEF Keys
<1> HIDE DEF U, K
<1>3. IsFiniteSet((Sources \X U) \X K)
  BY <1>1, <1>2, DatacenterAssumption, FS_Product
<1>4. f \in Surjection((Sources \X U) \X K, [source : Sources, unit : U, raw : K])
  <2> DEFINE R == [source : Sources, unit : U, raw : K]
  <2>1. f \in [(Sources \X U) \X K -> R]
    OBVIOUS
  <2>2. ASSUME NEW x \in R PROVE \E p \in (Sources \X U) \X K : f[p] = x
    <3>1. <<<<x.source, x.unit>>, x.raw>> \in (Sources \X U) \X K
      OBVIOUS
    <3>2. f[<<<<x.source, x.unit>>, x.raw>>] = x
      BY <3>1
    <3>3. QED
      BY <3>1, <3>2
  <2>3. QED
    BY <2>1, <2>2 DEF Surjection
<1>6. QED
  BY <1>3, <1>4, <1>5, FS_Surjection

LEMMA WantedKeys ==
  ASSUME NEW v, v.series \in SUBSET Samples(IsGPU)
  PROVE  Wanted(v) \in SUBSET Keys(IsGPU)
<1> SUFFICES ASSUME NEW s \in Sources, NEW u \in Units(IsGPU), NEW k \in Required(v, s, u)
             PROVE  k \in Keys(IsGPU)
  BY DEF Wanted
<1>1. CASE k = UpKey(s)
  BY <1>1 DEF UpKey, Keys
<1>2. ASSUME NEW x \in v.series, k \in RawKeys(x)
      PROVE  k \in Keys(IsGPU)
  <2>1. x.source \in Sources /\ x.unit \in Units(IsGPU)
    BY DEF Samples
  <2>2. k \in [source : {x.source}, unit : {x.unit}, raw : {"part", "whole", x.field}]
        /\ x.field \in {"plain", "ratio"} /\ (x.field = "ratio" => k.raw \in {"part", "whole"})
    BY <1>2 DEF RawKeys, RawFields, Samples, Fields
  <2>3. QED
    BY <2>1, <2>2 DEF Keys
<1>3. k = UpKey(s) \/ \E x \in v.series : k \in RawKeys(x)
  BY DEF Required
<1>4. QED
  BY <1>1, <1>2, <1>3

Names == IDs \cup Nat

\* A page is a piece of the list, from the next offset on.
LEMMA PagesListed ==
  ASSUME list \in Seq(Names), records \in Seq(Names), NEW page \in Pages
  PROVE  /\ page \in Seq(Names)
         /\ Len(page) <= Len(list) - Len(records) \/ Len(page) = 0
         /\ \A k \in 1 .. Len(page) :
                Len(records) + k \in 1 .. Len(list) /\ page[k] = list[Len(records) + k]
<1> DEFINE l == Len(list)
           r == Len(records)
           rest == SubSeq(list, r + 1, l)
<1>1. l \in Nat /\ r \in Nat /\ \A k \in 1 .. l : list[k] \in Names
  BY LenProperties, ElementOfSeq
<1> HIDE DEF l, r
<1>2. /\ rest \in Seq(Names) /\ Len(rest) = IF r + 1 <= l THEN l - (r + 1) + 1 ELSE 0
      /\ \A k \in 1 .. l - (r + 1) + 1 : rest[k] = list[(r + 1) + k - 1]
  BY <1>1, SubSeqProperties
<1>3. rest = Rest
  BY DEF Rest, l, r
<1> HIDE DEF rest
<1>4. PICK n \in {k \in 0 .. Page : k <= Len(rest)} : page = SubSeq(rest, 1, n)
  BY <1>3 DEF Pages
<1>5. n \in Nat /\ n <= Len(rest) /\ Len(rest) \in Nat
  BY <1>1, <1>2, <1>4, DatacenterAssumption
<1>6. \A k \in 1 .. n : rest[k] \in Names
  BY <1>2, <1>5, ElementOfSeq
<1>7. page \in Seq(Names) /\ Len(page) = n /\ \A k \in 1 .. n : page[k] = rest[k]
  <2>1. /\ page \in Seq(Names) /\ Len(page) = IF 1 <= n THEN n - 1 + 1 ELSE 0
        /\ \A k \in 1 .. n - 1 + 1 : page[k] = rest[1 + k - 1]
    BY <1>4, <1>5, <1>6, SubSeqProperties
  <2>2. QED
    BY <1>5, <2>1
<1>8. \A k \in 1 .. n : r + k \in 1 .. l /\ page[k] = list[r + k]
  <2>1. ASSUME NEW k \in 1 .. n PROVE r + k \in 1 .. l /\ page[k] = list[r + k]
    <3>1. k \in 1 .. l - (r + 1) + 1 /\ (r + 1) + k - 1 = r + k
      BY <1>1, <1>2, <1>5
    <3>2. r + k \in 1 .. l
      BY <1>1, <3>1
    <3>3. page[k] = rest[k] /\ rest[k] = list[(r + 1) + k - 1]
      BY <1>2, <1>7, <3>1
    <3>4. QED
      BY <3>1, <3>2, <3>3
  <2>2. QED
    BY <2>1
<1>9. n <= l - r \/ n = 0
  BY <1>1, <1>2, <1>5
<1>10. QED
  BY <1>7, <1>8, <1>9 DEF l, r

\* What a client has left while a view is collected, and what its data took.
BudgetInv ==
    /\ pc = "values" => remaining = Budget
    /\ pc = "stamps" =>
           /\ values.series \in SUBSET Samples(IsGPU)
           /\ remaining = Budget - 1 - Cardinality(values.series)
    /\ pc = "page" => remaining \in Int /\ remaining + Len(records) <= Budget
    /\ section[view] = "data" => Taken <= Budget

LEMMA BudgetStep ==
  ASSUME QueueInv, BudgetInv, [Next]_vars,
         pc = "page" => list \in Seq(Names) /\ records \in Seq(Names)
  PROVE  BudgetInv'
<1> USE DEF BudgetInv, QueueInv, Views, Errors, IsGPU, Taken,
            vars, commandVars, metricsVars, sourceVars, fetchVars, endVars
<1>1. CASE Deadline
  BY <1>1 DEF Deadline
<1>2. CASE Begin
  <2>1. Head(left) = left[1] /\ 1 \in 1 .. Len(left) /\ Head(left) \in Views
    BY <1>2 DEF Begin
  <2>2. section'[view'] # "data"
    BY <1>2, <2>1 DEF Begin, Goto
  <2>3. remaining' = Budget /\ records' = <<>> /\ Len(records') = 0 /\ pc' # "stamps"
    BY <1>2 DEF Begin, Goto
  <2>4. QED
    BY <2>2, <2>3, DatacenterAssumption
<1>3. CASE Fails
  BY <1>3 DEF Fails, Settle, Goto, GetError
<1>4. CASE QueryValues
  <2>1. PICK up \in [Sources -> UpValues], series \in SUBSET Samples(IsGPU) :
            /\ Answered(1 + Cardinality(series))
            /\ values' = [up |-> up, series |-> series]
    BY <1>4 DEF QueryValues
  <2>2. Cardinality(series) \in Nat
    BY SamplesFinite, FS_Subset, FS_CardinalityType
  <2>3. pc = "values" /\ remaining = Budget /\ view' = view /\ section[view] = "none"
    BY <1>4 DEF QueryValues
  <2>4. remaining' = -1 \/ remaining' = Budget - 1 - Cardinality(series)
    BY <2>1, <2>2, <2>3, DatacenterAssumption DEF Answered, BudgetAfter
  <2>5. CASE remaining' < 0
    <3>1. pc' = "next" /\ section'[view'] = "failed"
      BY <1>4, <2>3, <2>5 DEF QueryValues, Settle, Goto
    <3>2. QED
      BY <3>1
  <2>6. CASE ~(remaining' < 0)
    <3>1. pc' = "stamps" /\ section' = section
      BY <1>4, <2>6 DEF QueryValues, Goto
    <3>2. QED
      BY <2>1, <2>3, <2>4, <2>6, <3>1
  <2>7. QED
    BY <2>5, <2>6
<1>5. CASE QueryStamps
  <2>1. PICK recent \in SUBSET Wanted(values), old \in SUBSET Wanted(values) :
            /\ Answered(1 + Cardinality(recent \cup old))
            /\ stamps' = [recent |-> recent, old |-> old]
    BY <1>5 DEF QueryStamps
  <2>2. /\ pc = "stamps" /\ view' = view /\ values' = values /\ view # "inventory"
        /\ values.series \in SUBSET Samples(IsGPU)
        /\ remaining = Budget - 1 - Cardinality(values.series)
    BY <1>5 DEF QueryStamps
  <2>3. Cardinality(values.series) \in Nat /\ Cardinality(recent \cup old) \in Nat
    <3>1. IsFiniteSet(values.series)
      BY <2>2, SamplesFinite, FS_Subset
    <3>2. recent \cup old \in SUBSET Keys(IsGPU)
      BY <2>2, WantedKeys
    <3>3. IsFiniteSet(recent \cup old)
      BY <3>2, KeysFinite, FS_Subset
    <3>4. QED
      BY <3>1, <3>3, FS_CardinalityType
  <2>4. remaining' = -1 \/ remaining' = remaining - (1 + Cardinality(recent \cup old))
    BY <2>1 DEF Answered, BudgetAfter
  <2>5. pc' = "next" /\ section'[view'] \in {"failed", "data"}
    BY <1>5, <2>2 DEF QueryStamps, Settle, Goto
  <2>6. section'[view'] = "data" => ~(remaining' < 0)
    BY <1>5, <2>2 DEF QueryStamps, Settle, Goto
  <2>7. Taken' = 2 + Cardinality(values.series) + Cardinality(recent \cup old)
    BY <2>1, <2>2
  <2>8. section'[view'] = "data" => Taken' <= Budget
    <3> HIDE DEF Taken
    <3>1. QED
      BY <2>2, <2>3, <2>4, <2>6, <2>7, DatacenterAssumption
  <2>9. QED
    BY <2>5, <2>8
<1>6. CASE AddDevice
  BY <1>6 DEF AddDevice, Edit
<1>7. CASE RemoveDevice
  BY <1>7 DEF RemoveDevice, Edit
<1>8. CASE MoveDevice
  BY <1>8 DEF MoveDevice, Edit
<1>9. CASE FetchPage
  <2>1. PICK page \in Pages :
            /\ Answered(1 + Len(page))
            /\ IF remaining' < 0 \/ ~Plausible(Len(list), page)
               THEN Settle("failed") /\ UNCHANGED fetchVars
               ELSE /\ records' = records \o page
                    /\ Settle("data") \/ (Goto("page") /\ UNCHANGED section) \/ Settle("failed")
    BY <1>9 DEF FetchPage
  <2>2. /\ pc = "page" /\ view' = view /\ view = "inventory" /\ section[view] = "none"
        /\ remaining \in Int /\ remaining + Len(records) <= Budget
        /\ list \in Seq(Names) /\ records \in Seq(Names)
    BY <1>9 DEF FetchPage
  <2>3. page \in Seq(Names) /\ Len(page) \in Nat /\ Len(records) \in Nat
    BY <2>2, PagesListed, LenProperties
  <2>4. remaining' \in Int /\ (remaining' < 0 \/ remaining' = remaining - (1 + Len(page)))
    BY <2>1, <2>2, <2>3 DEF Answered, BudgetAfter
  <2>5. CASE Settle("failed")
    BY <2>2, <2>5 DEF Settle, Goto
  <2>6. CASE ~(remaining' < 0) /\ records' = records \o page
    <3>1. Len(records') = Len(records) + Len(page)
      BY <2>2, <2>3, <2>6, ConcatProperties
    <3>2. remaining' + Len(records') <= Budget /\ 1 + Len(records') <= Budget
      BY <2>2, <2>3, <2>4, <2>6, <3>1, DatacenterAssumption
    <3>3. pc' \in {"next", "page"}
      BY <2>1, <2>2 DEF Settle, Goto
    <3>4. QED
      BY <2>2, <2>4, <3>2, <3>3
  <2>7. QED
    BY <2>1, <2>5, <2>6
<1>10. CASE ReportView
  BY <1>10 DEF ReportView, Finish, Write, Goto
<1>11. CASE ReportSummary
  BY <1>11 DEF ReportSummary, Finish, Write, Goto
<1>12. CASE UNCHANGED vars
  BY <1>12
<1>13. QED
  BY <1>1, <1>2, <1>3, <1>4, <1>5, <1>6, <1>7, <1>8, <1>9, <1>10, <1>11, <1>12 DEF Next

-----------------------------------------------------------------------------
(* The devices of one moment *)

\* A cohort M that the records read so far belong to, as large as was announced.
HeldBy(M) == IsFiniteSet(M) /\ Cardinality(M) = total /\ S!ToSet(records) \subseteq M

\* While devices are only removed, NetBox's list is a part of the cohort that the
\* fetch began with, and while they are only added it contains that cohort.
PageInv ==
    pc = "page" =>
        /\ list \in Seq(Names) /\ S!IsInjective(list) /\ S!ToSet(list) \in moments
        /\ records \in Seq(Names) /\ S!IsInjective(records)
        /\ S!ToSet(records) \subseteq UNION moments
        /\ churn \in [in : Nat, out : Nat, moved : Nat]
        /\ \/ total = -1 /\ records = <<>>
           \/ /\ total \in Nat
              /\ churn.in = 0 => \E M \in moments : HeldBy(M) /\ S!ToSet(list) \subseteq M
              /\ churn.out = 0 => \E M \in moments : HeldBy(M) /\ M \subseteq S!ToSet(list)

\* An edit keeps what has been read, and the moments there were.
LEMMA EditKeeps ==
  ASSUME PageInv, NEW kind \in {"in", "out", "moved"}, NEW devices, Edit(kind, devices),
         devices \in Seq(Names), S!IsInjective(devices),
         kind # "in" => S!ToSet(devices) \subseteq S!ToSet(list),
         kind # "out" => S!ToSet(list) \subseteq S!ToSet(devices)
  PROVE  PageInv'
<1>1. /\ pc = "page" /\ pc' = pc /\ list' = devices /\ records' = records /\ total' = total
      /\ moments' = moments \cup {S!ToSet(devices)}
      /\ churn' = [churn EXCEPT ![kind] = @ + 1]
  BY DEF Edit, fetchVars
<1>2. churn \in [in : Nat, out : Nat, moved : Nat]
  BY <1>1 DEF PageInv
<1>3. /\ churn' \in [in : Nat, out : Nat, moved : Nat]
      /\ kind = "in" => churn'.in # 0
      /\ kind # "in" => churn'.in = churn.in
      /\ kind = "out" => churn'.out # 0
      /\ kind # "out" => churn'.out = churn.out
  BY <1>1, <1>2
<1>4. S!ToSet(list') = S!ToSet(devices) /\ S!ToSet(records') = S!ToSet(records)
  BY <1>1
<1>5. \A M : HeldBy(M) => HeldBy(M)'
  BY <1>1 DEF HeldBy
<1>6. CASE total = -1 /\ records = <<>>
  BY <1>1, <1>3, <1>4, <1>6 DEF PageInv
<1>7. CASE ~(total = -1 /\ records = <<>>)
  <2>1. /\ total \in Nat
        /\ churn.in = 0 => \E M \in moments : HeldBy(M) /\ S!ToSet(list) \subseteq M
        /\ churn.out = 0 => \E M \in moments : HeldBy(M) /\ M \subseteq S!ToSet(list)
    BY <1>1, <1>7 DEF PageInv
  <2>2. churn'.in = 0 => \E M \in moments' : HeldBy(M)' /\ S!ToSet(list') \subseteq M
    BY <1>1, <1>3, <1>4, <1>5, <2>1
  <2>3. churn'.out = 0 => \E M \in moments' : HeldBy(M)' /\ M \subseteq S!ToSet(list')
    BY <1>1, <1>3, <1>4, <1>5, <2>1
  <2>4. S!ToSet(list') \in moments' /\ S!ToSet(records') \subseteq UNION moments'
    BY <1>1, <1>4 DEF PageInv
  <2>5. /\ list' \in Seq(Names) /\ S!IsInjective(list')
        /\ records' \in Seq(Names) /\ S!IsInjective(records')
    BY <1>1 DEF PageInv
  <2>6. QED
    BY <1>1, <1>3, <2>1, <2>2, <2>3, <2>4, <2>5 DEF PageInv
<1>8. QED
  BY <1>6, <1>7

\* A plausible page adds devices that were not read yet, and that the list has.
LEMMA PageKeeps ==
  ASSUME PageInv, pc = "page", NEW page \in Pages, Plausible(Len(list), page),
         records' = records \o page
  PROVE  /\ records' \in Seq(Names) /\ S!IsInjective(records') /\ Len(records') <= Len(list)
         /\ S!ToSet(records') = S!ToSet(records) \cup S!ToSet(page)
         /\ S!ToSet(page) \subseteq S!ToSet(list)
<1>1. /\ list \in Seq(Names) /\ S!IsInjective(list)
      /\ records \in Seq(Names) /\ S!IsInjective(records)
  BY DEF PageInv
<1> DEFINE l == Len(list)
           r == Len(records)
           n == Len(page)
           all == records \o page
<1>2. page \in Seq(Names) /\ \A k \in 1 .. n : r + k \in 1 .. l /\ page[k] = list[r + k]
  BY <1>1, PagesListed
<1>3. l \in Nat /\ r \in Nat /\ n \in Nat
  BY <1>1, <1>2, LenProperties
<1>4. all \in Seq(Names) /\ Len(all) = r + n
      /\ \A k \in 1 .. r + n : all[k] = IF k <= r THEN records[k] ELSE page[k - r]
  BY <1>1, <1>2, ConcatProperties
<1>5. S!ToSet(page) \cap S!ToSet(records) = {} /\ r + n <= l
  BY DEF Plausible
<1> HIDE DEF l, r, n, all
<1>6. S!ToSet(page) \subseteq S!ToSet(list)
  <2>1. ASSUME NEW x \in S!ToSet(page) PROVE x \in S!ToSet(list)
    <3>1. PICK k \in 1 .. n : x = page[k]
      BY <1>2, Held DEF n
    <3>2. r + k \in 1 .. Len(list) /\ x = list[r + k]
      BY <1>2, <3>1 DEF l
    <3>3. QED
      BY <1>1, <3>2, Held
  <2>2. QED
    BY <2>1
<1>7. \A j, k \in 1 .. n : page[j] = page[k] => j = k
  <2>1. \A i, j \in 1 .. l : list[i] = list[j] => i = j
    BY <1>1, Distinct DEF l
  <2>2. ASSUME NEW j \in 1 .. n, NEW k \in 1 .. n, page[j] = page[k] PROVE j = k
    <3>1. r + j \in 1 .. l /\ r + k \in 1 .. l /\ list[r + j] = list[r + k]
      BY <1>2, <2>2
    <3>2. r + j = r + k
      BY <2>1, <3>1
    <3>3. QED
      BY <1>3, <3>2
  <2>3. QED
    BY <2>2
<1>8. \A i, j \in 1 .. r : records[i] = records[j] => i = j
  BY <1>1, Distinct DEF r
<1>9. \A i \in 1 .. r, k \in 1 .. n : records[i] # page[k]
  <2>1. ASSUME NEW i \in 1 .. r, NEW k \in 1 .. n PROVE records[i] # page[k]
    <3>1. records[i] \in S!ToSet(records)
      BY <1>1, Held DEF r
    <3>2. page[k] \in S!ToSet(page)
      BY <1>2, Held DEF n
    <3>3. QED
      BY <1>5, <3>1, <3>2
  <2>2. QED
    BY <2>1
<1>10. S!IsInjective(all)
  <2>1. ASSUME NEW j \in 1 .. r + n, NEW k \in 1 .. r + n, all[j] = all[k] PROVE j = k
    <3>1. CASE j <= r /\ k <= r
      BY <1>3, <1>4, <1>8, <2>1, <3>1
    <3>2. CASE j <= r /\ k > r
      <4>1. j \in 1 .. r /\ k - r \in 1 .. n /\ ~(k <= r)
        BY <1>3, <3>2
      <4>2. all[j] = records[j] /\ all[k] = page[k - r]
        BY <1>4, <3>2, <4>1
      <4>3. QED
        BY <1>9, <2>1, <4>1, <4>2
    <3>3. CASE j > r /\ k <= r
      <4>1. k \in 1 .. r /\ j - r \in 1 .. n /\ ~(j <= r)
        BY <1>3, <3>3
      <4>2. all[k] = records[k] /\ all[j] = page[j - r]
        BY <1>4, <3>3, <4>1
      <4>3. QED
        BY <1>9, <2>1, <4>1, <4>2
    <3>4. CASE j > r /\ k > r
      <4>1. j - r \in 1 .. n /\ k - r \in 1 .. n /\ ~(j <= r) /\ ~(k <= r)
        BY <1>3, <3>4
      <4>2. all[j] = page[j - r] /\ all[k] = page[k - r]
        BY <1>4, <4>1
      <4>3. j - r = k - r
        BY <1>7, <2>1, <4>1, <4>2
      <4>4. QED
        BY <1>3, <4>3
    <3>5. (j <= r \/ j > r) /\ (k <= r \/ k > r)
      BY <1>3
    <3>6. QED
      BY <3>1, <3>2, <3>3, <3>4, <3>5
  <2>2. QED
    BY <1>4, <2>1, Distinct
<1>11. S!ToSet(all) = S!ToSet(records) \cup S!ToSet(page)
  <2>1. ASSUME NEW x \in S!ToSet(all) PROVE x \in S!ToSet(records) \cup S!ToSet(page)
    <3>1. PICK k \in 1 .. r + n : x = all[k]
      BY <1>4, Held
    <3>2. CASE k <= r
      <4>1. k \in 1 .. r /\ x = records[k]
        BY <1>3, <1>4, <3>1, <3>2
      <4>2. QED
        BY <1>1, <4>1, Held DEF r
    <3>3. CASE k > r
      <4>1. k - r \in 1 .. n /\ ~(k <= r)
        BY <1>3, <3>3
      <4>2. x = page[k - r]
        BY <1>4, <3>1, <4>1
      <4>3. QED
        BY <1>2, <4>1, <4>2, Held DEF n
    <3>4. k <= r \/ k > r
      BY <1>3
    <3>5. QED
      BY <3>2, <3>3, <3>4
  <2>2. ASSUME NEW x \in S!ToSet(records) PROVE x \in S!ToSet(all)
    <3>1. PICK k \in 1 .. r : x = records[k]
      BY <1>1, Held DEF r
    <3>2. k \in 1 .. Len(all) /\ all[k] = x
      BY <1>3, <1>4, <3>1
    <3>3. QED
      BY <1>4, <3>2, Held
  <2>3. ASSUME NEW x \in S!ToSet(page) PROVE x \in S!ToSet(all)
    <3>1. PICK k \in 1 .. n : x = page[k]
      BY <1>2, Held DEF n
    <3>2. r + k \in 1 .. r + n /\ ~(r + k <= r) /\ (r + k) - r = k
      BY <1>3
    <3>3. r + k \in 1 .. Len(all) /\ all[r + k] = x
      BY <1>4, <3>1, <3>2
    <3>4. QED
      BY <1>4, <3>3, Held
  <2>4. QED
    BY <2>1, <2>2, <2>3
<1>12. QED
  BY <1>4, <1>5, <1>6, <1>10, <1>11 DEF all, l, r, n

\* After a plausible page the cohort that the records belong to is that of the
\* moment, where devices are only added or only removed.
LEMMA PageOfMoment ==
  ASSUME PageInv, pc = "page", NEW page \in Pages, Plausible(Len(list), page),
         records' = records \o page, churn.in = 0 \/ churn.out = 0
  PROVE  S!ToSet(records') \subseteq S!ToSet(list)
<1> DEFINE M == S!ToSet(list)
<1>1. IsFiniteSet(M) /\ Cardinality(M) = Len(list)
  BY CountsOnce DEF PageInv
<1>2. S!ToSet(records') = S!ToSet(records) \cup S!ToSet(page) /\ S!ToSet(page) \subseteq M
  BY PageKeeps
<1>3. total \in {-1, Len(list)}
  BY DEF Plausible
<1>4. CASE total = -1 /\ records = <<>>
  <2>1. S!ToSet(records) = {}
    BY <1>4, EmptyHolds
  <2>2. QED
    BY <1>2, <2>1
<1>5. CASE ~(total = -1 /\ records = <<>>)
  <2>1. total \in Nat /\ total = Len(list)
    BY <1>3, <1>5 DEF PageInv
  <2>2. \E C \in moments : HeldBy(C) /\ (M \subseteq C \/ C \subseteq M)
    BY <1>5 DEF PageInv
  <2>3. PICK C \in moments : HeldBy(C) /\ (M \subseteq C \/ C \subseteq M)
    BY <2>2
  <2>4. IsFiniteSet(C) /\ Cardinality(C) = Cardinality(M) /\ S!ToSet(records) \subseteq C
    BY <1>1, <2>1, <2>3 DEF HeldBy
  <2>5. C = M
    <3> HIDE DEF M
    <3>1. CASE M \subseteq C
      BY <2>4, <3>1, FS_Subset
    <3>2. CASE C \subseteq M
      BY <1>1, <2>4, <3>2, FS_Subset
    <3>3. QED
      BY <2>3, <3>1, <3>2
  <2>6. QED
    BY <1>2, <2>4, <2>5
<1>6. QED
  BY <1>4, <1>5

\* The fetch and the edits that go on meanwhile keep the cohort.
LEMMA PageStep ==
  ASSUME QueueInv, PageInv, [Next]_vars
  PROVE  PageInv'
<1> USE DEF vars, commandVars, metricsVars, sourceVars, fetchVars, endVars
<1> DEFINE Away == pc' # "page"
<1>a. Away => PageInv'
  BY DEF PageInv
<1>b. UNCHANGED <<pc, sourceVars, fetchVars>> => PageInv'
  BY DEF PageInv, HeldBy
<1>1. CASE Deadline
  BY <1>1, <1>b DEF Deadline
<1>2. CASE Begin
  <2>1. CASE pc' = "next" \/ Head(left) # "inventory"
    BY <1>2, <1>a, <2>1 DEF Begin, Goto
  <2>2. CASE Head(left) = "inventory"
    <3>1. PICK n \in Nat : list' = [i \in 1 .. n |-> i]
      BY <1>2, <2>2, DatacenterAssumption DEF Begin, Cohorts
    <3>2. list' \in Seq(Nat) /\ Len(list') = n /\ \A i \in 1 .. n : list'[i] = i
      BY <3>1
    <3>3. list' \in Seq(Names)
      BY <3>2, SeqMonotonic DEF Names
    <3>4. S!IsInjective(list')
      BY <3>2, Distinct
    <3>5. moments' = {S!ToSet(list')} /\ records' = <<>> /\ total' = -1 /\ churn' = NoChurn
      BY <1>2 DEF Begin
    <3>6. records' \in Seq(Names) /\ Len(records') = 0
      BY <3>5, EmptySeq
    <3>7. S!ToSet(records') = {} /\ S!IsInjective(records')
      BY <3>5, EmptyHolds
    <3>8. churn' \in [in : Nat, out : Nat, moved : Nat]
      BY <3>5 DEF NoChurn
    <3>9. QED
      BY <3>3, <3>4, <3>5, <3>6, <3>7, <3>8 DEF PageInv
  <2>3. QED
    BY <2>1, <2>2
<1>3. CASE Fails
  BY <1>3, <1>a DEF Fails, Settle, Goto
<1>4. CASE QueryValues
  BY <1>4, <1>a DEF QueryValues, Settle, Goto
<1>5. CASE QueryStamps
  BY <1>5, <1>a DEF QueryStamps, Settle, Goto
<1>c. pc = "page" => list \in Seq(Names) /\ S!IsInjective(list)
  BY DEF PageInv
<1>6. CASE AddDevice
  <2>1. PICK d \in IDs \ S!ToSet(list), i \in 1 .. Len(list) + 1 :
            Edit("in", S!InsertAt(list, i, d))
    BY <1>6 DEF AddDevice
  <2>2. pc = "page"
    BY <2>1 DEF Edit
  <2>3. d \in Names /\ d \notin S!ToSet(list)
    BY DEF Names
  <2>4. /\ S!InsertAt(list, i, d) \in Seq(Names) /\ S!IsInjective(S!InsertAt(list, i, d))
        /\ S!ToSet(list) \subseteq S!ToSet(S!InsertAt(list, i, d))
    BY <1>c, <2>2, <2>3, Inserted
  <2>5. QED
    BY <2>1, <2>4, EditKeeps
<1>7. CASE RemoveDevice
  <2>1. PICK i \in 1 .. Len(list) : Edit("out", S!RemoveAt(list, i))
    BY <1>7 DEF RemoveDevice
  <2>2. pc = "page"
    BY <2>1 DEF Edit
  <2>3. /\ S!RemoveAt(list, i) \in Seq(Names) /\ S!IsInjective(S!RemoveAt(list, i))
        /\ S!ToSet(S!RemoveAt(list, i)) \subseteq S!ToSet(list)
    BY <1>c, <2>2, Removed
  <2>4. QED
    BY <2>1, <2>3, EditKeeps
<1>8. CASE MoveDevice
  <2>1. PICK i \in 1 .. Len(list), j \in 1 .. Len(list) :
            i # j /\ Edit("moved", S!InsertAt(S!RemoveAt(list, i), j, list[i]))
    BY <1>8 DEF MoveDevice
  <2>2. pc = "page"
    BY <2>1 DEF Edit
  <2> DEFINE others == S!RemoveAt(list, i)
             moved == S!InsertAt(others, j, list[i])
  <2>3. /\ others \in Seq(Names) /\ S!IsInjective(others) /\ Len(others) = Len(list) - 1
        /\ S!ToSet(others) = S!ToSet(list) \ {list[i]}
    BY <1>c, <2>2, Removed
  <2>4. list[i] \in Names /\ list[i] \in S!ToSet(list) /\ Len(list) \in Nat
    BY <1>c, <2>2, ElementOfSeq, Held, LenProperties
  <2> HIDE DEF others
  <2>5. j \in 1 .. Len(others) + 1 /\ list[i] \notin S!ToSet(others)
    BY <2>3, <2>4
  <2>6. /\ moved \in Seq(Names) /\ S!IsInjective(moved)
        /\ S!ToSet(moved) = S!ToSet(others) \cup {list[i]}
    BY <2>3, <2>4, <2>5, Inserted
  <2>7. S!ToSet(moved) = S!ToSet(list)
    BY <2>3, <2>4, <2>6
  <2>8. Edit("moved", moved)
    BY <2>1 DEF others
  <2> HIDE DEF moved
  <2>9. QED
    BY <2>6, <2>7, <2>8, EditKeeps
<1>9. CASE FetchPage
  <2>1. CASE Away
    BY <1>a, <2>1
  <2>2. CASE pc' = "page"
    <3>1. PICK page \in Pages :
              /\ pc = "page" /\ Plausible(Len(list), page) /\ UNCHANGED sourceVars
              /\ total' = Len(list) /\ records' = records \o page
      BY <1>9, <2>2 DEF FetchPage, Settle, Goto
    <3>2. /\ records' \in Seq(Names) /\ S!IsInjective(records')
          /\ S!ToSet(records') = S!ToSet(records) \cup S!ToSet(page)
          /\ S!ToSet(page) \subseteq S!ToSet(list)
      BY <3>1, PageKeeps
    <3>3. /\ IsFiniteSet(S!ToSet(list)) /\ Cardinality(S!ToSet(list)) = Len(list)
          /\ Len(list) \in Nat
      BY <1>c, <3>1, CountsOnce, LenProperties
    <3>4. churn.in = 0 \/ churn.out = 0 => HeldBy(S!ToSet(list))'
      BY <3>1, <3>3, PageOfMoment DEF HeldBy
    <3>5. S!ToSet(list) \in moments /\ S!ToSet(records') \subseteq UNION moments
      BY <3>1, <3>2 DEF PageInv
    <3>6. list' = list /\ moments' = moments /\ churn' = churn
      BY <3>1
    <3>7. total' \in Nat
      BY <3>1, <3>3
    <3>8. /\ churn'.in = 0 => \E M \in moments' : HeldBy(M)' /\ S!ToSet(list') \subseteq M
          /\ churn'.out = 0 => \E M \in moments' : HeldBy(M)' /\ M \subseteq S!ToSet(list')
      BY <3>4, <3>5, <3>6
    <3>9. churn' \in [in : Nat, out : Nat, moved : Nat] /\ S!IsInjective(list')
      BY <3>1, <3>6 DEF PageInv
    <3>10. QED
      BY <1>c, <3>1, <3>2, <3>5, <3>6, <3>7, <3>8, <3>9 DEF PageInv
  <2>3. QED
    BY <2>1, <2>2
<1>10. CASE ReportView
  BY <1>10, <1>a DEF ReportView, Finish, Write, Goto
<1>11. CASE ReportSummary
  BY <1>11, <1>a DEF ReportSummary, Finish, Write, Goto
<1>12. CASE UNCHANGED vars
  BY <1>12, <1>b
<1>13. QED
  BY <1>1, <1>2, <1>3, <1>4, <1>5, <1>6, <1>7, <1>8, <1>9, <1>10, <1>11, <1>12 DEF Next

\* A fetch that succeeds has read the devices of one moment, in the sense of
\* CohortIsOneMoment, and nothing changes what it has read.
LEMMA CohortStep ==
  ASSUME QueueInv, PageInv, CohortIsOneMoment, [Next]_vars
  PROVE  CohortIsOneMoment'
<1> USE DEF vars, commandVars, metricsVars, sourceVars, fetchVars, endVars
<1> DEFINE Empty == view' = "inventory" => section'["inventory"] # "data"
<1>a. Empty => CohortIsOneMoment'
  BY DEF CohortIsOneMoment
<1>b. UNCHANGED <<view, section, moments, churn, fetchVars>> => CohortIsOneMoment'
  BY DEF CohortIsOneMoment
<1>c. pc \in {"values", "stamps", "page"} => section[view] = "none"
  BY DEF QueueInv
<1>1. CASE Deadline
  BY <1>1, <1>b DEF Deadline
<1>2. CASE Begin
  <2>1. Head(left) = left[1] /\ 1 \in 1 .. Len(left) /\ Head(left) \in Views
    BY <1>2 DEF Begin, QueueInv
  <2>2. section'[view'] # "data"
    BY <1>2, <2>1 DEF Begin, Goto, QueueInv
  <2>3. QED
    BY <1>a, <2>2
<1>3. CASE Fails
  <2>1. section'[view'] # "data"
    BY <1>3, <1>c DEF Fails, Settle, Goto, GetError, QueueInv
  <2>2. QED
    BY <1>a, <2>1
<1>4. CASE QueryValues
  BY <1>4, <1>a DEF QueryValues, QueueInv
<1>5. CASE QueryStamps
  BY <1>5, <1>a DEF QueryStamps, QueueInv
<1>6. CASE AddDevice
  BY <1>6, <1>a, <1>c DEF AddDevice, Edit
<1>7. CASE RemoveDevice
  BY <1>7, <1>a, <1>c DEF RemoveDevice, Edit
<1>8. CASE MoveDevice
  BY <1>8, <1>a, <1>c DEF MoveDevice, Edit
<1>9. CASE FetchPage
  <2>1. /\ pc = "page" /\ view = "inventory" /\ view' = view /\ section[view] = "none"
        /\ section \in [Views -> Errors \cup {"none", "data"}]
        /\ moments' = moments /\ churn' = churn
    BY <1>9, <1>c DEF FetchPage, QueueInv
  <2>2. CASE section'["inventory"] # "data"
    BY <1>a, <2>2
  <2>3. CASE section'["inventory"] = "data"
    <3>1. PICK page \in Pages :
              /\ Plausible(Len(list), page)
              /\ total' = Len(list) /\ records' = records \o page
              /\ Len(records') = Len(list)
      BY <1>9, <2>1, <2>3 DEF FetchPage, Settle, Goto, Views
    <3>2. /\ records' \in Seq(Names) /\ S!IsInjective(records')
          /\ S!ToSet(records') = S!ToSet(records) \cup S!ToSet(page)
          /\ S!ToSet(page) \subseteq S!ToSet(list)
      BY <2>1, <3>1, PageKeeps
    <3>3. S!ToSet(list) \in moments /\ S!ToSet(records') \subseteq UNION moments
      BY <2>1, <3>2 DEF PageInv
    <3>4. IsFiniteSet(S!ToSet(list)) /\ Cardinality(S!ToSet(list)) = Len(list)
      BY <2>1, CountsOnce DEF PageInv
    <3>5. Cardinality(S!ToSet(records')) = Len(list)
      BY <3>1, <3>2, CountsOnce
    <3>6. churn.in = 0 \/ churn.out = 0 => S!ToSet(records') = S!ToSet(list)
      BY <2>1, <3>1, <3>4, <3>5, PageOfMoment, FS_Subset
    <3>7. QED
      BY <2>1, <3>1, <3>2, <3>3, <3>6 DEF CohortIsOneMoment
  <2>4. QED
    BY <2>2, <2>3
<1>10. CASE ReportView
  BY <1>10, <1>b DEF ReportView
<1>11. CASE ReportSummary
  BY <1>11, <1>b DEF ReportSummary
<1>12. CASE UNCHANGED vars
  BY <1>12, <1>b
<1>13. QED
  BY <1>1, <1>2, <1>3, <1>4, <1>5, <1>6, <1>7, <1>8, <1>9, <1>10, <1>11, <1>12 DEF Next

-----------------------------------------------------------------------------
(* The report *)

\* What the last step tells, and until then nothing.
Told ==
    pc = "done" =>
        /\ exit = "ok" => shown = WantedViews /\ shown = HasData
        /\ shown \subseteq HasData
        /\ exit = "usage" => shown = {} /\ "config" \in {section[v] : v \in WantedViews}
        /\ summary /\ Failed # {} => exit \in {"failed", "timeout"}

ReportInv ==
    /\ ~summary => asked = <<view>> /\ left \in {<<>>, <<view>>}
    /\ pc # "done" => shown = {}
    /\ Told

LEMMA ReportStep ==
  ASSUME QueueInv, ReportInv, [Next]_vars
  PROVE  ReportInv'
<1> USE DEF vars, commandVars, metricsVars, sourceVars, fetchVars, endVars
<1>a. ASSUME pc # "done", pc' # "done", UNCHANGED <<asked, summary, view, left, endVars>>
      PROVE  ReportInv'
  BY <1>a DEF ReportInv, Told
<1>1. CASE Deadline
  BY <1>1, <1>a DEF Deadline
<1>2. CASE Begin
  <2>1. /\ pc = "next" /\ left # <<>> /\ view' = Head(left) /\ left' = Tail(left)
        /\ pc' # "done" /\ UNCHANGED <<asked, summary, shown>>
    BY <1>2 DEF Begin, Goto
  <2>2. ~summary => view' = view /\ left' = <<>>
    BY <2>1 DEF ReportInv
  <2>3. QED
    BY <2>1, <2>2 DEF ReportInv, Told
<1>3. CASE Fails
  BY <1>3, <1>a DEF Fails, Settle, Goto
<1>4. CASE QueryValues
  BY <1>4, <1>a DEF QueryValues, Settle, Goto
<1>5. CASE QueryStamps
  BY <1>5, <1>a DEF QueryStamps, Settle, Goto
<1>6. CASE AddDevice
  BY <1>6, <1>a DEF AddDevice, Edit
<1>7. CASE RemoveDevice
  BY <1>7, <1>a DEF RemoveDevice, Edit
<1>8. CASE MoveDevice
  BY <1>8, <1>a DEF MoveDevice, Edit
<1>9. CASE FetchPage
  BY <1>9, <1>a DEF FetchPage, Settle, Goto
<1>10. CASE ReportView
  <2>1. /\ pc = "next" /\ ~summary /\ asked = <<view>> /\ shown = {}
        /\ UNCHANGED <<asked, summary, view, left, section>>
    BY <1>10 DEF ReportView, ReportInv
  <2>2. WantedViews = {view}
    BY <2>1, SingleHolds DEF WantedViews
  <2>3. WantedViews' = WantedViews /\ HasData' = HasData /\ Failed' = Failed
    BY <2>1 DEF WantedViews, HasData, Failed
  <2>4. CASE section[view] = "data"
    <3>1. (shown' = {view} /\ exit' = "ok") \/ (shown' = {} /\ exit' = "failed")
      BY <1>10, <2>4 DEF ReportView, Write, Finish
    <3>2. HasData = {view}
      BY <2>2, <2>4 DEF HasData
    <3>3. QED
      BY <2>1, <2>2, <2>3, <3>1, <3>2, <1>10 DEF ReportInv, Told, ReportView, Write, Finish, Goto
  <2>5. CASE section[view] # "data"
    <3>1. shown' = {} /\ exit' = ExitOf(section[view])
      BY <1>10, <2>1, <2>5 DEF ReportView, Finish
    <3>2. exit' # "ok" /\ (exit' = "usage" => section[view] = "config")
      BY <3>1 DEF ExitOf
    <3>3. exit' = "usage" => "config" \in {section[v] : v \in WantedViews}
      BY <2>2, <3>2
    <3>4. pc' = "done"
      BY <1>10, <2>5 DEF ReportView, Finish, Goto
    <3>5. QED
      BY <2>1, <2>3, <3>1, <3>2, <3>3, <3>4 DEF ReportInv, Told
  <2>6. QED
    BY <2>4, <2>5
<1>11. CASE ReportSummary
  <2>1. pc = "next" /\ summary /\ UNCHANGED <<asked, summary, view, left, section>>
    BY <1>11 DEF ReportSummary
  <2>2. WantedViews' = WantedViews /\ HasData' = HasData /\ Failed' = Failed
    BY <2>1 DEF WantedViews, HasData, Failed
  <2>3. shown' \in {{}, HasData} /\ exit' \in {"ok", "timeout", "failed"} /\ pc' = "done"
    BY <1>11 DEF ReportSummary, Write, Finish, Goto
  <2>4. exit' = "ok" => Failed = {} /\ shown' = HasData
    BY <1>11 DEF ReportSummary, Write, Finish
  <2>5. Failed = {} => HasData = WantedViews
    BY DEF Failed, HasData
  <2>6. QED
    BY <2>1, <2>2, <2>3, <2>4, <2>5 DEF ReportInv, Told
<1>12. CASE UNCHANGED vars
  BY <1>12 DEF ReportInv, Told, WantedViews, HasData, Failed
<1>13. QED
  BY <1>1, <1>2, <1>3, <1>4, <1>5, <1>6, <1>7, <1>8, <1>9, <1>10, <1>11, <1>12 DEF Next

-----------------------------------------------------------------------------
(* All of it together *)

FetchInv == QueueInv /\ BudgetInv /\ PageInv /\ CohortIsOneMoment /\ ReportInv

LEMMA FetchInit == Init => FetchInv
<1> SUFFICES ASSUME Init PROVE FetchInv
  OBVIOUS
<1>1. QueueInv
  BY DatacenterInit
<1>2. section[view] = "none" /\ pc = "next"
  BY <1>1 DEF Init, QueueInv
<1>3. BudgetInv /\ PageInv
  BY <1>2 DEF BudgetInv, PageInv
<1>4. CohortIsOneMoment
  BY <1>2 DEF CohortIsOneMoment
<1>5. ReportInv
  <2>1. ~summary => asked = <<view>>
    <3> SUFFICES ASSUME ~summary PROVE asked = <<view>>
      OBVIOUS
    <3>1. Len(asked) = 1 /\ asked \in Commands /\ view = Head(asked)
      BY DEF Init
    <3>2. CASE \E v \in Views : asked = <<v>>
      BY <3>1, <3>2
    <3>3. CASE asked \in {<<"fleet", "gpu">>, <<"fleet", "gpu", "inventory">>}
      BY <3>1, <3>3
    <3>4. QED
      BY <3>1, <3>2, <3>3 DEF Commands
  <2>2. QED
    BY <2>1 DEF ReportInv, Told, Init
<1>6. QED
  BY <1>1, <1>3, <1>4, <1>5 DEF FetchInv

LEMMA FetchStep == FetchInv /\ [Next]_vars => FetchInv'
<1> SUFFICES ASSUME FetchInv, [Next]_vars PROVE FetchInv'
  OBVIOUS
<1>1. QueueInv /\ BudgetInv /\ PageInv /\ CohortIsOneMoment /\ ReportInv
  BY DEF FetchInv
<1>2. pc = "page" => list \in Seq(Names) /\ records \in Seq(Names)
  BY <1>1 DEF PageInv
<1>3. QueueInv' /\ BudgetInv' /\ PageInv' /\ CohortIsOneMoment' /\ ReportInv'
  BY <1>1, <1>2, QueueStep, BudgetStep, PageStep, CohortStep, ReportStep
<1>4. QED
  BY <1>3 DEF FetchInv

\* An inventory that is shown is that of one moment, for any size of page, any
\* cohort and any number of edits, as far as the pages can tell.
THEOREM CohortsAreWhole == Spec => []CohortIsOneMoment
<1>1. FetchInv => CohortIsOneMoment
  BY DEF FetchInv
<1>2. QED
  BY <1>1, FetchInit, FetchStep, PTL DEF Spec

\* Exit code, output and budget agree, for any answers and any budget.
THEOREM ReportsAreTrue == Spec => []ReportIsTruthful
<1>1. FetchInv => ReportIsTruthful
  BY DEF FetchInv, BudgetInv, ReportInv, Told, ReportIsTruthful
<1>2. QED
  BY <1>1, FetchInit, FetchStep, PTL DEF Spec

=============================================================================
