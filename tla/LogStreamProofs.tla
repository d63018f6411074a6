---------------------------- MODULE LogStreamProofs ----------------------------
(***************************************************************************)
(* Theorems about the log of a deployment, for every size of the batch and *)
(* every bound: no line is lost between logging and storing, a page gets   *)
(* each number once and in order, and what it skips has a cause.           *)
(***************************************************************************)
EXTENDS LogStream, FiniteSetTheorems, SequenceTheorems, TLAPS

-------------------------------------------------------------------------------
(***************************************************************************)
(* The operators: the members of a set in order, and the largest.          *)
(***************************************************************************)

\* The place of n in S is the number of members up to n.
UpTo(S, n) == {m \in S : m <= n}

\* A place is one of the places there are.
LEMMA RankIsInRange ==
    ASSUME NEW S \in SUBSET Nat, IsFiniteSet(S), NEW n \in S
    PROVE  /\ IsFiniteSet(UpTo(S, n))
           /\ Cardinality(UpTo(S, n)) \in 1..Cardinality(S)
<1>1. UpTo(S, n) \in SUBSET S /\ n \in UpTo(S, n)
  BY DEF UpTo
<1>2. IsFiniteSet(UpTo(S, n)) /\ Cardinality(UpTo(S, n)) <= Cardinality(S)
  BY <1>1, FS_Subset
<1>3. Cardinality(UpTo(S, n)) \in Nat /\ Cardinality(S) \in Nat
  BY <1>2, FS_CardinalityType
<1>4. Cardinality(UpTo(S, n)) # 0
  BY <1>1, <1>2, FS_EmptySet
<1>5. QED
  BY <1>2, <1>3, <1>4

\* A larger member has a later place.
LEMMA RankGrows ==
    ASSUME NEW S \in SUBSET Nat, IsFiniteSet(S), NEW m \in S, NEW n \in S, m < n
    PROVE  Cardinality(UpTo(S, m)) < Cardinality(UpTo(S, n))
<1>1. UpTo(S, m) \in SUBSET UpTo(S, n)
  <2>1. ASSUME NEW x \in UpTo(S, m) PROVE x \in UpTo(S, n)
    <3>1. x \in S /\ x <= m
      BY <2>1 DEF UpTo
    <3>2. x \in Nat /\ m \in Nat /\ n \in Nat
      BY <3>1
    <3>3. x <= n
      BY <3>1, <3>2
    <3>4. QED
      BY <3>1, <3>3 DEF UpTo
  <2>2. QED
    BY <2>1
<1>2. n \in UpTo(S, n) /\ n \notin UpTo(S, m)
  <2>1. n \in Nat /\ m \in Nat
    OBVIOUS
  <2>2. n <= n /\ ~(n <= m)
    BY <2>1
  <2>3. QED
    BY <2>2 DEF UpTo
<1>3. /\ Cardinality(UpTo(S, m)) <= Cardinality(UpTo(S, n))
      /\ Cardinality(UpTo(S, n)) # Cardinality(UpTo(S, m))
  BY <1>1, <1>2, RankIsInRange, FS_Subset
<1>4. Cardinality(UpTo(S, m)) \in Nat /\ Cardinality(UpTo(S, n)) \in Nat
  BY RankIsInRange
<1>5. QED
  BY <1>3, <1>4

\* Each place has a member: places are as many as members, and no two share one.
LEMMA EveryRankIsTaken ==
    ASSUME NEW S \in SUBSET Nat, IsFiniteSet(S), NEW i \in 1..Cardinality(S)
    PROVE  \E n \in S : Cardinality(UpTo(S, n)) = i
<1> DEFINE rank == [n \in S |-> Cardinality(UpTo(S, n))]
<1>1. Cardinality(S) \in Nat
  BY FS_CardinalityType
<1>2. IsFiniteSet(1..Cardinality(S)) /\ Cardinality(1..Cardinality(S)) = Cardinality(S)
  BY <1>1, FS_Interval
<1>3. rank \in [S -> 1..Cardinality(S)]
  BY RankIsInRange
<1>4. ASSUME NEW m \in S, NEW n \in S, rank[m] = rank[n] PROVE m = n
  <2>1. m \in Nat /\ n \in Nat /\ (m < n \/ n < m \/ m = n)
    OBVIOUS
  <2>2. Cardinality(UpTo(S, m)) = Cardinality(UpTo(S, n))
    BY <1>4
  <2>3. Cardinality(UpTo(S, m)) \in Nat
    BY RankIsInRange
  <2>4. QED
    BY <2>1, <2>2, <2>3, RankGrows
<1>5. rank \in Injection(S, 1..Cardinality(S))
  BY <1>3, <1>4 DEF Injection, IsInjective
<1>6. rank \in Surjection(S, 1..Cardinality(S))
  BY <1>2, <1>5, FS_Injection
<1>7. PICK n \in S : rank[n] = i
  BY <1>6 DEF Surjection
<1>8. QED
  BY <1>7

\* Ascending(S) has the members of S, each once, in order.
LEMMA AscendingAscends ==
    ASSUME NEW S \in SUBSET Nat, IsFiniteSet(S)
    PROVE  /\ Ascending(S) \in Seq(S)
           /\ Len(Ascending(S)) = Cardinality(S)
           /\ Cardinality(S) \in Nat
           /\ Range(Ascending(S)) = S
           /\ \A i, j \in 1..Cardinality(S) : i < j => Ascending(S)[i] < Ascending(S)[j]
<1> DEFINE k == Cardinality(S)
           A == Ascending(S)
<1>1. k \in Nat
  BY FS_CardinalityType
<1>2. A = [i \in 1..k |-> CHOOSE n \in S : Cardinality(UpTo(S, n)) = i]
  BY DEF Ascending, UpTo
<1>3. ASSUME NEW i \in 1..k
      PROVE  A[i] \in S /\ Cardinality(UpTo(S, A[i])) = i
  <2>1. \E n \in S : Cardinality(UpTo(S, n)) = i
    BY EveryRankIsTaken
  <2>2. A[i] = CHOOSE n \in S : Cardinality(UpTo(S, n)) = i
    BY <1>2
  <2>3. QED
    BY <2>1, <2>2
<1> HIDE DEF A
<1>4. DOMAIN A = 1..k /\ A \in [1..k -> S]
  BY <1>2, <1>3
<1>5. A \in Seq(S) /\ Len(A) = k
  BY <1>1, <1>4
<1>6. Range(A) = S
  <2>1. ASSUME NEW n \in S PROVE n \in Range(A)
    <3>1. PICK i \in 1..k : i = Cardinality(UpTo(S, n))
      BY RankIsInRange
    <3>2. A[i] \in S /\ Cardinality(UpTo(S, A[i])) = Cardinality(UpTo(S, n))
      BY <1>3, <3>1
    <3>3. A[i] \in Nat /\ n \in Nat
      BY <3>2
    <3>4. Cardinality(UpTo(S, n)) \in Nat
      BY RankIsInRange
    <3>5. ~(A[i] < n) /\ ~(n < A[i])
      <4>1. A[i] < n => Cardinality(UpTo(S, A[i])) < Cardinality(UpTo(S, n))
        BY <3>2, RankGrows
      <4>2. n < A[i] => Cardinality(UpTo(S, n)) < Cardinality(UpTo(S, A[i]))
        BY <3>2, RankGrows
      <4>3. QED
        BY <3>2, <3>4, <4>1, <4>2
    <3>6. A[i] = n
      BY <3>3, <3>5
    <3>7. QED
      BY <1>4, <3>6 DEF Range
  <2>2. ASSUME NEW n \in Range(A) PROVE n \in S
    BY <1>3, <1>4 DEF Range
  <2>3. QED
    BY <2>1, <2>2
<1>7. ASSUME NEW i \in 1..k, NEW j \in 1..k, i < j PROVE A[i] < A[j]
  <2>1. A[i] \in S /\ A[j] \in S
    BY <1>3
  <2>2. A[i] \in Nat /\ A[j] \in Nat
    BY <2>1
  <2>3. i \in Nat /\ j \in Nat
    BY <1>1
  <2>4. A[i] # A[j]
    BY <1>3, <1>7, <2>3
  <2>5. ~(A[j] < A[i])
    <3>1. SUFFICES ASSUME A[j] < A[i] PROVE FALSE
      OBVIOUS
    <3>2. Cardinality(UpTo(S, A[j])) < Cardinality(UpTo(S, A[i]))
      BY <1>3, <3>1, RankGrows
    <3>3. j < i
      BY <1>3, <3>2
    <3>4. QED
      BY <1>7, <2>3, <3>3
  <2>6. QED
    BY <2>2, <2>4, <2>5
<1>8. QED
  BY <1>1, <1>5, <1>6, <1>7 DEF A

\* Largest(S) is the largest member of S, or 0 if there is none.
LEMMA LargestIsLargest ==
    ASSUME NEW S \in SUBSET Nat, IsFiniteSet(S)
    PROVE  /\ Largest(S) \in S \cup {0}
           /\ \A n \in S : n <= Largest(S)
<1> DEFINE T == S \cup {0}
           k == Cardinality(T)
           A == Ascending(T)
<1>1. T \in SUBSET Nat /\ IsFiniteSet(T)
  BY FS_AddElement
<1>2. /\ A \in Seq(T) /\ Len(A) = k /\ k \in Nat /\ Range(A) = T
      /\ \A i, j \in 1..k : i < j => A[i] < A[j]
  BY <1>1, AscendingAscends
<1>3. k # 0
  BY <1>1, FS_EmptySet
<1> HIDE DEF A, k
<1>4. k \in 1..k /\ A[k] \in T
  BY <1>2, <1>3
<1>5. ASSUME NEW n \in T PROVE A[k] >= n
  <2>1. PICK i \in 1..k : A[i] = n
    BY <1>2 DEF Range
  <2>2. A[i] \in Nat /\ A[k] \in Nat
    BY <1>1, <1>4, <2>1
  <2>3. i < k \/ i = k
    BY <1>2
  <2>4. QED
    BY <1>2, <1>4, <2>1, <2>2, <2>3
<1>6. \E x \in T : \A y \in T : x >= y
  BY <1>4, <1>5
<1>7. Max(T) \in T /\ \A y \in T : Max(T) >= y
  BY <1>6 DEF Max
<1>8. Largest(S) = Max(T)
  BY DEF Largest
<1>9. QED
  BY <1>1, <1>7, <1>8

\* Numbers and ids are labels; a set of labels is a finite set of naturals.
LEMMA LabelsAreFinite ==
    /\ Numbers \subseteq Labels /\ Ids \subseteq Labels
    /\ \A S \in SUBSET Labels : S \in SUBSET Nat /\ IsFiniteSet(S)
<1>1. MaxNumber \in Nat /\ RowIdOffset \in Nat
  BY LogAssumption
<1>2. Numbers \subseteq Labels /\ Ids \subseteq Labels /\ Labels \subseteq Nat
  BY <1>1 DEF Numbers, Ids, Labels
<1>3. IsFiniteSet(Labels)
  BY <1>1, FS_Interval DEF Labels
<1>4. ASSUME NEW S \in SUBSET Labels PROVE S \in SUBSET Nat /\ IsFiniteSet(S)
  BY <1>2, <1>3, FS_Subset
<1>5. QED
  BY <1>2, <1>4

\* The same for what the module applies these operators to.
LEMMA LargestIsALabel ==
    ASSUME NEW S \in SUBSET Labels
    PROVE  /\ Largest(S) \in S \cup {0} /\ Largest(S) \in Labels
           /\ \A n \in S : n <= Largest(S)
<1>1. 0 \in Labels
  BY LogAssumption DEF Labels
<1>2. QED
  BY <1>1, LabelsAreFinite, LargestIsLargest

LEMMA AscendingNumbers ==
    ASSUME NEW S \in SUBSET Numbers
    PROVE  /\ Ascending(S) \in Seq(Numbers)
           /\ Range(Ascending(S)) = S
           /\ \A i, j \in DOMAIN Ascending(S) : i < j => Ascending(S)[i] < Ascending(S)[j]
<1>1. S \in SUBSET Nat /\ IsFiniteSet(S)
  BY LabelsAreFinite
<1>2. /\ Ascending(S) \in Seq(S) /\ Len(Ascending(S)) = Cardinality(S) /\ Range(Ascending(S)) = S
      /\ \A i, j \in 1..Cardinality(S) : i < j => Ascending(S)[i] < Ascending(S)[j]
  BY <1>1, AscendingAscends
<1>3. DOMAIN Ascending(S) = 1..Cardinality(S)
  BY <1>2
<1>4. Ascending(S) \in Seq(Numbers)
  BY <1>2
<1>5. QED
  BY <1>2, <1>3, <1>4

\* New rows get ids of their own range, and rows that are stored keep theirs.
LEMMA RowsKeepTheirIds ==
    ASSUME Stored \subseteq Numbers, Range(rows) \subseteq Ids,
           NEW ns \in SUBSET Numbers, AddRows(ns)
    PROVE  /\ Stored' = Stored \cup ns /\ Range(rows') \subseteq Ids
           /\ \A n \in Stored : rows'[n] = rows[n]
<1> DEFINE new == ns \ Stored
           id(n) == RowIdOffset + Count + Cardinality({m \in new : m <= n})
<1>1. MaxNumber \in Nat /\ RowIdOffset \in Nat
  BY LogAssumption
<1>2. IsFiniteSet(Numbers) /\ Cardinality(Numbers) = MaxNumber
  BY <1>1, FS_Interval DEF Numbers
<1>3. IsFiniteSet(Stored) /\ IsFiniteSet(new) /\ IsFiniteSet(Stored \cup new)
  BY <1>2, FS_Subset
<1>4. Count + Cardinality(new) <= MaxNumber /\ Count \in Nat /\ Cardinality(new) \in Nat
  <2>1. Stored \cap new = {}
    OBVIOUS
  <2>2. Cardinality(Stored \cup new) = Cardinality(Stored) + Cardinality(new) - Cardinality({})
    BY <1>3, <2>1, FS_Union
  <2>3. Cardinality({}) = 0
    BY FS_EmptySet
  <2>4. Cardinality(Stored \cup new) <= MaxNumber
    BY <1>2, FS_Subset
  <2>5. Cardinality(Stored) \in Nat /\ Cardinality(new) \in Nat
    BY <1>3, FS_CardinalityType
  <2>6. QED
    BY <2>2, <2>3, <2>4, <2>5 DEF Count
<1>5. ASSUME NEW n \in new PROVE id(n) \in Ids
  <2>1. new \in SUBSET Nat
    BY <1>1 DEF Numbers
  <2>2. Cardinality({m \in new : m <= n}) \in 1..Cardinality(new)
    BY <1>3, <2>1, RankIsInRange DEF UpTo
  <2>3. PICK c \in 1..Cardinality(new) : c = Cardinality({m \in new : m <= n})
    BY <2>2
  <2>4. RowIdOffset + Count + c \in Ids
    BY <1>1, <1>4 DEF Ids
  <2>5. QED
    BY <2>3, <2>4
<1>6. rows' = [n \in Stored \cup new |-> IF n \in Stored THEN rows[n] ELSE id(n)]
  BY DEF AddRows
<1> HIDE DEF id
<1>7. \A n \in Stored : rows[n] \in Ids
  BY DEF Range, Stored
<1>8. /\ DOMAIN rows' = Stored \cup new
      /\ \A n \in Stored : rows'[n] = rows[n]
      /\ \A n \in new : rows'[n] = id(n)
  BY <1>6
<1>9. \A n \in DOMAIN rows' : rows'[n] \in Ids
  BY <1>5, <1>7, <1>8
<1>10. Range(rows') \subseteq Ids
  BY <1>9 DEF Range
<1>11. Stored' = Stored \cup ns
  BY <1>8 DEF Stored
<1>12. QED
  BY <1>8, <1>10, <1>11

\* Lines that are shown change what was streamed and the last number, nothing else.
LEMMA ShowShows ==
    ASSUME LogTypeOK, NEW ns \in SUBSET Numbers
    PROVE  /\ Show(ns) \in PageStates
           /\ Show(ns).pc = page.pc /\ Show(ns).loaded = page.loaded /\ Show(ns).floor = page.floor
           /\ Show(ns).last = Largest(ns \cup {page.last})
           /\ Show(ns).streamed = page.streamed \o
                Ascending(ns \ ({rows[m] : m \in page.loaded} \cup Range(page.streamed)))
<1> DEFINE fresh == ns \ ({rows[m] : m \in page.loaded} \cup Range(page.streamed))
<1>1. page \in PageStates
  BY DEF LogTypeOK
<1>2. PICK s \in Seq(Numbers) : s = page.streamed \o Ascending(fresh)
  <2>1. page.streamed \in Seq(Numbers)
    BY <1>1 DEF PageStates
  <2>2. Ascending(fresh) \in Seq(Numbers)
    BY AscendingNumbers
  <2>3. QED
    BY <2>1, <2>2, ConcatProperties
<1>3. PICK l \in Labels : l = Largest(ns \cup {page.last})
  <2>1. ns \cup {page.last} \in SUBSET Labels
    BY <1>1, LabelsAreFinite DEF PageStates
  <2>2. QED
    BY <2>1, LargestIsALabel
<1>4. Show(ns) = [page EXCEPT !.streamed = s, !.last = l]
  BY <1>2, <1>3 DEF Show
<1>5. QED
  BY <1>1, <1>2, <1>3, <1>4, Zenon DEF PageStates

-------------------------------------------------------------------------------
(***************************************************************************)
(* Lines are kept.                                                         *)
(***************************************************************************)

\* What the streamer and the rows need to be for the lines to be kept.
WorkerTypes == Stored \subseteq Numbers /\ streamer \in StreamerStates

\* The count of rows can be a streamer's counter.
LEMMA BoundsAreNumbers == MaxNumber \in Nat /\ MaxRuns \in Nat
BY LogAssumption

LEMMA CountIsBounded == WorkerTypes => Count \in 0..MaxNumber
<1> SUFFICES ASSUME WorkerTypes PROVE Count \in 0..MaxNumber
  OBVIOUS
<1>1. MaxNumber \in Nat
  BY LogAssumption
<1>2. IsFiniteSet(Numbers) /\ Cardinality(Numbers) = MaxNumber
  BY <1>1, FS_Interval DEF Numbers
<1>3. IsFiniteSet(Stored) /\ Cardinality(Stored) <= MaxNumber /\ Cardinality(Stored) \in Nat
  BY <1>2, FS_Subset, FS_CardinalityType DEF WorkerTypes
<1>4. QED
  BY <1>1, <1>3 DEF Count

\* Rows are only added.
LEMMA RowsGrow ==
    ASSUME NEW ns, AddRows(ns)
    PROVE  Stored' = Stored \cup ns
BY DEF AddRows, Stored

KeepInv == WorkerTypes /\ LinesAreKept

\* The first row is stored, and nothing was published.
LEMMA InitKeepInv == Init => KeepInv
BY LogAssumption DEF Init, KeepInv, WorkerTypes, LinesAreKept, Stored, Numbers, StreamerStates

\* A flush that begins takes the buffer along.
LEMMA FlushingKeeps ==
    ASSUME NEW s \in StreamerStates
    PROVE  /\ Flushing(s) \in StreamerStates
           /\ Flushing(s).buffer = {}
           /\ Flushing(s).flushes = s.flushes \cup {s.buffer}
BY DEF Flushing, StreamerStates

\* A streamer with other lines on their way, or with none.
LEMMA OtherFlushes ==
    ASSUME NEW s \in StreamerStates, NEW f \in SUBSET SUBSET Numbers, NEW t,
           t = [s EXCEPT !.flushes = f]
    PROVE  t \in StreamerStates /\ t.buffer = s.buffer /\ t.flushes = f
BY DEF StreamerStates

LEMMA NoLines ==
    ASSUME NEW s \in StreamerStates, NEW t,
           t = [s EXCEPT !.pc = "off", !.counter = 0, !.buffer = {}, !.flushes = {}]
    PROVE  t \in StreamerStates
<1>1. 0 \in 0..MaxNumber
  BY BoundsAreNumbers
<1>2. QED
  BY <1>1 DEF StreamerStates

\* Steps of the streamer that store nothing.
LEMMA StreamerSteps ==
    ASSUME KeepInv, InitDeployment \/ Log \/ Finish \/ LastFlush \/ Abort \/ OtherLines \/ Crash
    PROVE  KeepInv'
<1> USE DEF KeepInv
<1>1. /\ Stored \subseteq Numbers /\ streamer \in StreamerStates
      /\ published \subseteq Stored \cup streamer.buffer \cup (UNION streamer.flushes) \cup lost
  BY DEF WorkerTypes, LinesAreKept
<1>2. ASSUME streamer' \in StreamerStates, Stored' = Stored,
             published' \subseteq Stored \cup streamer'.buffer \cup (UNION streamer'.flushes) \cup lost'
      PROVE  KeepInv'
  BY <1>1, <1>2 DEF WorkerTypes, LinesAreKept
<1>3. CASE InitDeployment
  <2>1. PICK k \in 0..MaxRuns : k = streamer.runs + 1
    <3>1. streamer.runs \in 0..MaxRuns /\ streamer.runs < MaxRuns
      BY <1>1, <1>3, Zenon DEF InitDeployment, StreamerStates
    <3>2. QED
      BY <3>1, BoundsAreNumbers
  <2>2. PICK c \in 0..MaxNumber : streamer' = [streamer EXCEPT !.pc = "on", !.counter = c, !.runs = k]
    <3>1. 0 \in 0..MaxNumber /\ Count \in 0..MaxNumber
      BY CountIsBounded, BoundsAreNumbers
    <3>2. PICK c \in {0, Count} : streamer' = [streamer EXCEPT !.pc = "on", !.counter = c, !.runs = k]
      BY <1>3, <2>1, Zenon DEF InitDeployment
    <3>3. QED
      BY <3>1, <3>2, Zenon
  <2>3. /\ streamer' \in StreamerStates
        /\ streamer'.buffer = streamer.buffer /\ streamer'.flushes = streamer.flushes
    BY <1>1, <2>1, <2>2 DEF StreamerStates
  <2>4. UNCHANGED <<rows, published, lost>>
    BY <1>3, Zenon DEF InitDeployment
  <2>5. QED
    BY <1>1, <1>2, <2>3, <2>4 DEF Stored
<1>4. CASE Log
  <2>1. PICK n \in Numbers : n = streamer.counter + 1
    BY <1>4 DEF Log
  <2>2. PICK s : s = [streamer EXCEPT !.counter = n, !.buffer = @ \cup {n}]
    OBVIOUS
  <2>3. n \in 0..MaxNumber
    BY LogAssumption DEF Numbers
  <2>4. /\ s \in StreamerStates
        /\ s.buffer = streamer.buffer \cup {n} /\ s.flushes = streamer.flushes
    BY <1>1, <2>1, <2>2, <2>3 DEF StreamerStates
  <2>5. /\ streamer' = Flushing(s) \/ streamer' = s
        /\ published' = published \cup {n}
        /\ lost \subseteq lost'
        /\ rows' = rows
    BY <1>4, <2>1, <2>2 DEF Log
  <2>6. /\ streamer' \in StreamerStates
        /\ streamer.buffer \cup {n} \cup UNION streamer.flushes \subseteq
              streamer'.buffer \cup UNION streamer'.flushes
    BY <2>4, <2>5, FlushingKeeps
  <2>7. QED
    BY <1>1, <1>2, <2>5, <2>6 DEF Stored
<1>5. CASE Finish \/ Abort
  <2>1. \E pc \in {"off", "closing"} : streamer' = [streamer EXCEPT !.pc = pc]
    BY <1>5 DEF Finish, Abort
  <2>2. /\ streamer' \in StreamerStates
        /\ streamer'.buffer = streamer.buffer /\ streamer'.flushes = streamer.flushes
    BY <1>1, <2>1 DEF StreamerStates
  <2>3. UNCHANGED <<rows, published, lost>>
    BY <1>5 DEF Finish, Abort
  <2>4. QED
    BY <1>1, <1>2, <2>2, <2>3 DEF Stored
<1>6. CASE LastFlush
  <2>1. PICK s : s = [streamer EXCEPT !.pc = "off"]
    OBVIOUS
  <2>2. s \in StreamerStates /\ s.buffer = streamer.buffer /\ s.flushes = streamer.flushes
    BY <1>1, <2>1 DEF StreamerStates
  <2>3. (streamer' = s \/ streamer' = Flushing(s)) /\ UNCHANGED <<rows, published, lost>>
    BY <1>6, <2>1 DEF LastFlush
  <2>4. /\ streamer' \in StreamerStates
        /\ streamer.buffer \cup UNION streamer.flushes \subseteq streamer'.buffer \cup UNION streamer'.flushes
    BY <2>2, <2>3, FlushingKeeps
  <2>5. QED
    BY <1>1, <1>2, <2>3, <2>4 DEF Stored
<1>7. CASE OtherLines
  <2>1. streamer' = Flushing(streamer) /\ UNCHANGED <<rows, published, lost>>
    BY <1>7 DEF OtherLines
  <2>2. /\ streamer' \in StreamerStates
        /\ streamer.buffer \cup UNION streamer.flushes \subseteq streamer'.buffer \cup UNION streamer'.flushes
    BY <1>1, <2>1, FlushingKeeps
  <2>3. QED
    BY <1>1, <1>2, <2>1, <2>2 DEF Stored
<1>8. CASE Crash
  <2>1. /\ streamer' = [streamer EXCEPT !.pc = "off", !.counter = 0, !.buffer = {}, !.flushes = {}]
        /\ lost' = lost \cup streamer.buffer \cup UNION streamer.flushes
        /\ UNCHANGED <<rows, published>>
    BY <1>8 DEF Crash
  <2>2. streamer' \in StreamerStates
    BY <1>1, <2>1, NoLines, Zenon
  <2>3. QED
    BY <1>1, <1>2, <2>1, <2>2 DEF Stored
<1>9. QED
  BY <1>3, <1>4, <1>5, <1>6, <1>7, <1>8

\* A flush that ends stores its lines, or loses them by an error.
LEMMA StoreSteps ==
    ASSUME KeepInv, NEW batch, Store(batch) \/ StoreFails(batch)
    PROVE  KeepInv'
<1>1. /\ Stored \subseteq Numbers /\ streamer \in StreamerStates
      /\ published \subseteq Stored \cup streamer.buffer \cup (UNION streamer.flushes) \cup lost
  BY DEF KeepInv, WorkerTypes, LinesAreKept
<1>2. /\ batch \in streamer.flushes
      /\ streamer' = [streamer EXCEPT !.flushes = @ \ {batch}]
      /\ published' = published
  BY DEF Store, StoreFails
<1>3. PICK kept \in SUBSET batch : AddRows(kept) /\ lost \cup (batch \ kept) \subseteq lost'
  <2>1. CASE Store(batch)
    BY <2>1 DEF Store
  <2>2. CASE StoreFails(batch)
    BY <2>2 DEF StoreFails
  <2>3. QED
    BY <2>1, <2>2
<1>4. batch \subseteq Numbers
  BY <1>1, <1>2 DEF StreamerStates
<1>5. Stored' = Stored \cup kept
  BY <1>3, RowsGrow
<1>6. /\ streamer' \in StreamerStates /\ streamer'.buffer = streamer.buffer
      /\ streamer'.flushes = streamer.flushes \ {batch}
  <2>1. PICK left \in SUBSET SUBSET Numbers : left = streamer.flushes \ {batch}
    BY <1>1 DEF StreamerStates
  <2>2. streamer' = [streamer EXCEPT !.flushes = left]
    BY <1>2, <2>1
  <2>3. QED
    BY <1>1, <2>1, <2>2, OtherFlushes
<1>7. UNION streamer.flushes \subseteq batch \cup UNION streamer'.flushes
  BY <1>6
<1>8. Stored' \subseteq Numbers
  BY <1>1, <1>4, <1>5
<1>9. published' \subseteq Stored' \cup streamer'.buffer \cup (UNION streamer'.flushes) \cup lost'
  BY <1>1, <1>2, <1>3, <1>5, <1>6, <1>7
<1>10. QED
  BY <1>6, <1>8, <1>9 DEF KeepInv, WorkerTypes, LinesAreKept

\* Every step keeps the lines.
LEMMA NextKeepInv == KeepInv /\ [Next]_vars => KeepInv'
<1> SUFFICES ASSUME KeepInv, [Next]_vars PROVE KeepInv'
  OBVIOUS
<1>1. CASE UNCHANGED <<rows, streamer, published, lost>>
  BY <1>1 DEF KeepInv, WorkerTypes, LinesAreKept, Stored
<1>2. CASE Cancel
  <2>1. PICK n \in Numbers : AddRows({n})
    BY <1>2 DEF Cancel
  <2>2. Stored' = Stored \cup {n}
    BY <2>1, RowsGrow
  <2>3. UNCHANGED <<streamer, published>> /\ lost \subseteq lost'
    BY <1>2 DEF Cancel
  <2>4. QED
    BY <2>2, <2>3 DEF KeepInv, WorkerTypes, LinesAreKept
<1>3. CASE PageStep
  BY <1>1, <1>3 DEF PageStep, Load, LoadFails, Connect, Subscribe, SubscribeFails, Replay, Pass, Check,
                    History, Break
<1>4. CASE WorkerStep
  BY <1>4, StreamerSteps, StoreSteps DEF WorkerStep
<1>5. QED
  BY <1>1, <1>2, <1>3, <1>4 DEF Next, vars

-------------------------------------------------------------------------------
(***************************************************************************)
(* Types.                                                                  *)
(***************************************************************************)

\* A connection with another step, number or wire.
LEMMA ConnectionTypes ==
    ASSUME NEW c \in ConnectionStates
    PROVE  /\ \A p \in {"closed", "subscribe", "replay", "check", "live", "history"}, m \in Labels :
                 [c EXCEPT !.pc = p, !.max = m] \in ConnectionStates
           /\ \A p \in {"replay", "live"} : [c EXCEPT !.pc = p] \in ConnectionStates
           /\ [c EXCEPT !.pc = "replay", !.subscribed = TRUE] \in ConnectionStates
           /\ \A w \in Seq(Numbers) : [c EXCEPT !.wire = w] \in ConnectionStates
           /\ \A w \in Seq(Numbers), m \in Labels :
                 [c EXCEPT !.wire = w, !.max = m] \in ConnectionStates
BY Zenon DEF ConnectionStates

\* The closed connection, the page that has ended, and the history of a replay.
LEMMA ClosedType == Closed \in ConnectionStates
BY LogAssumption DEF Closed, ConnectionStates, Labels

LEMMA EndedType ==
    ASSUME Stored \subseteq Numbers, NEW p \in PageStates
    PROVE  Ended(p) \in PageStates
BY Zenon DEF Ended, PageStates

LEMMA MissedAreNumbers ==
    ASSUME published \subseteq Numbers, NEW top
    PROVE  Missed(top) \subseteq Numbers
BY DEF Missed

\* The types hold at the start.
LEMMA InitLogTypes == Init => LogTypeOK
<1> SUFFICES ASSUME Init PROVE LogTypeOK
  OBVIOUS
<1>1. MaxNumber \in Nat \ {0} /\ RowIdOffset \in Nat
  BY LogAssumption
<1>2. Stored = {1} /\ Range(rows) = {RowIdOffset + 1}
  BY DEF Init, Stored, Range
<1>3. Stored \subseteq Numbers /\ Range(rows) \subseteq Ids /\ 0 \in Labels
  BY <1>1, <1>2 DEF Numbers, Ids, Labels
<1>4. streamer \in StreamerStates
  BY InitKeepInv DEF KeepInv, WorkerTypes
<1>5. conn \in ConnectionStates
  BY ClosedType DEF Init
<1>6. page \in PageStates
  BY <1>3 DEF Init, PageStates
<1>7. QED
  BY <1>3, <1>4, <1>5, <1>6 DEF Init, LogTypeOK

\* Every step keeps the types.
LEMMA NextLogTypes ==
    ASSUME LogTypeOK, KeepInv, [Next]_vars
    PROVE  LogTypeOK'
<1>1. /\ Stored \subseteq Numbers /\ Range(rows) \subseteq Ids
      /\ over \in BOOLEAN
      /\ streamer \in StreamerStates
      /\ conn \in ConnectionStates
      /\ page \in PageStates
      /\ published \subseteq Numbers /\ lost \subseteq Numbers /\ raced \subseteq Numbers
  BY DEF LogTypeOK
<1>2. Stored' \subseteq Numbers /\ streamer' \in StreamerStates
  BY NextKeepInv DEF KeepInv, WorkerTypes
<1>3. ASSUME Range(rows') \subseteq Ids, over' \in BOOLEAN, conn' \in ConnectionStates,
             page' \in PageStates, published' \subseteq Numbers, lost' \subseteq Numbers,
             raced' \subseteq Numbers
      PROVE  LogTypeOK'
  BY <1>2, <1>3 DEF LogTypeOK
<1>4. CASE Cancel
  <2>1. PICK n \in Numbers : AddRows({n}) /\ lost' = lost \cup ({n} \cap published)
    BY <1>4 DEF Cancel
  <2>2. Range(rows') \subseteq Ids
    BY <1>1, <2>1, RowsKeepTheirIds
  <2>3. QED
    BY <1>1, <1>3, <1>4, <2>1, <2>2 DEF Cancel
<1>5. CASE Log
  <2>1. PICK n \in Numbers : n = streamer.counter + 1
    BY <1>5 DEF Log
  <2>2. Append(conn.wire, n) \in Seq(Numbers)
    BY <1>1 DEF ConnectionStates
  <2>3. conn' \in {conn, [conn EXCEPT !.wire = Append(conn.wire, n)]}
    BY <1>5, <2>1 DEF Log
  <2>4. conn' \in ConnectionStates
    <3>1. [conn EXCEPT !.wire = Append(conn.wire, n)] \in ConnectionStates
      BY <1>1, <2>2, ConnectionTypes, Zenon
    <3>2. QED
      BY <1>1, <2>3, <3>1
  <2>5. published' = published \cup {n} /\ lost' = lost \cup ({n} \cap (published \cup Stored))
    BY <1>5, <2>1 DEF Log
  <2>6. UNCHANGED <<rows, over, page, raced>>
    BY <1>5 DEF Log
  <2>7. QED
    BY <1>1, <1>3, <2>4, <2>5, <2>6
<1>6. ASSUME NEW batch \in SUBSET Numbers, Store(batch) \/ StoreFails(batch)
      PROVE  LogTypeOK'
  <2>1. PICK kept \in SUBSET batch : AddRows(kept) /\ lost' \subseteq lost \cup batch
    <3>1. CASE Store(batch)
      BY <3>1 DEF Store
    <3>2. CASE StoreFails(batch)
      BY <3>2 DEF StoreFails
    <3>3. QED
      BY <1>6, <3>1, <3>2
  <2>2. Range(rows') \subseteq Ids
    BY <1>1, <2>1, RowsKeepTheirIds
  <2>3. UNCHANGED <<over, conn, page, published, raced>>
    BY <1>6 DEF Store, StoreFails
  <2>4. QED
    BY <1>1, <1>3, <2>1, <2>2, <2>3
<1>7. CASE InitDeployment \/ Finish \/ LastFlush \/ Abort \/ OtherLines
  <2>1. over' \in BOOLEAN
    BY <1>1, <1>7, Zenon DEF InitDeployment, Finish, LastFlush, Abort, OtherLines
  <2>2. UNCHANGED <<rows, conn, page, published, lost, raced>>
    BY <1>7, Zenon DEF InitDeployment, Finish, LastFlush, Abort, OtherLines
  <2>3. QED
    BY <1>1, <1>3, <2>1, <2>2
<1>8. CASE Crash
  <2>1. streamer.buffer \cup (UNION streamer.flushes) \subseteq Numbers
    BY <1>1 DEF StreamerStates
  <2>2. QED
    BY <1>1, <1>3, <1>8, <2>1 DEF Crash
<1>9. CASE Load \/ LoadFails
  <2>1. UNCHANGED <<rows, over, conn, published, lost, raced>>
    BY <1>9 DEF Load, LoadFails
  <2>2. page' \in PageStates
    <3>1. CASE Load
      <4>1. PICK top \in Labels : top = Largest(Range(rows))
        BY <1>1, LabelsAreFinite, LargestIsALabel
      <4>2. PICK p \in {"ended", "open"} : p = IF over THEN "ended" ELSE "open"
        OBVIOUS
      <4>3. page' = [page EXCEPT !.pc = p, !.loaded = Stored, !.last = top, !.floor = top]
        BY <3>1, <4>1, <4>2 DEF Load
      <4>4. QED
        BY <1>1, <4>1, <4>2, <4>3 DEF PageStates
    <3>2. CASE LoadFails
      BY <1>1, <3>2 DEF LoadFails, PageStates
    <3>3. QED
      BY <1>9, <3>1, <3>2
  <2>3. QED
    BY <1>1, <1>3, <2>1, <2>2
<1>10. CASE Connect \/ Subscribe \/ SubscribeFails \/ Break
  <2>1. UNCHANGED <<rows, over, page, published, lost, raced>>
    BY <1>10 DEF Connect, Subscribe, SubscribeFails, Break
  <2>2. conn' \in ConnectionStates
    <3>1. CASE Connect
      <4>1. page.last \in Labels
        BY <1>1 DEF PageStates
      <4>2. PICK p \in {"history", "subscribe"} : conn' = [conn EXCEPT !.pc = p, !.max = page.last]
        BY <3>1, Zenon DEF Connect
      <4>3. QED
        BY <1>1, <4>1, <4>2, ConnectionTypes, Zenon
    <3>2. CASE Subscribe \/ SubscribeFails
      BY <1>1, <3>2, ConnectionTypes, Zenon DEF Subscribe, SubscribeFails
    <3>3. CASE Break
      BY <3>3, ClosedType DEF Break
    <3>4. QED
      BY <1>10, <3>1, <3>2, <3>3
  <2>3. QED
    BY <1>1, <1>3, <2>1, <2>2
<1>11. CASE Replay
  <2>1. PICK fresh \in SUBSET Numbers : fresh = {n \in Stored : n > conn.max}
    BY <1>1, Zenon
  <2>2. PICK top \in Labels : top = Largest(fresh \cup {conn.max})
    <3>1. fresh \cup {conn.max} \in SUBSET Labels
      BY <1>1, LabelsAreFinite DEF ConnectionStates
    <3>2. QED
      BY <3>1, LargestIsALabel
  <2>3. /\ page' = Show(fresh)
        /\ conn' = [conn EXCEPT !.pc = "check", !.max = top]
        /\ raced' = raced \cup Missed(top)
        /\ UNCHANGED <<rows, over, published, lost>>
    BY <1>11, <2>1, <2>2 DEF Replay
  <2>4. page' \in PageStates /\ conn' \in ConnectionStates /\ Missed(top) \subseteq Numbers
    BY <1>1, <2>2, <2>3, ShowShows, ConnectionTypes, MissedAreNumbers, Zenon
  <2>5. QED
    BY <1>1, <1>3, <2>3, <2>4
<1>12. CASE Pass
  <2>1. conn.wire \in Seq(Numbers) /\ conn.wire # <<>>
    BY <1>1, <1>12 DEF ConnectionStates, Pass
  <2>2. PICK n \in Numbers : n = Head(conn.wire)
    BY <2>1
  <2>3. PICK w \in Seq(Numbers) : w = Tail(conn.wire)
    BY <2>1, HeadTailProperties, Zenon
  <2>4. n \in Labels
    BY LabelsAreFinite
  <2>5. /\ conn' \in {[conn EXCEPT !.wire = w], [conn EXCEPT !.wire = w, !.max = n]}
        /\ page' \in {page, Show({n})}
        /\ UNCHANGED <<rows, over, published, lost, raced>>
    BY <1>12, <2>2, <2>3 DEF Pass
  <2>6. conn' \in ConnectionStates
    <3>1. [conn EXCEPT !.wire = w] \in ConnectionStates
      BY <1>1, ConnectionTypes, Zenon
    <3>2. [conn EXCEPT !.wire = w, !.max = n] \in ConnectionStates
      BY <1>1, <2>4, ConnectionTypes, Zenon
    <3>3. QED
      BY <2>5, <3>1, <3>2
  <2>7. page' \in PageStates
    <3>1. Show({n}) \in PageStates
      BY ShowShows, Zenon
    <3>2. QED
      BY <1>1, <2>5, <3>1
  <2>8. QED
    BY <1>1, <1>3, <2>5, <2>6, <2>7
<1>13. CASE Check
  <2>1. conn' \in {Closed, [conn EXCEPT !.pc = "live"]} /\ page' \in {page, Ended(page)}
    BY <1>13 DEF Check
  <2>2. conn' \in ConnectionStates /\ page' \in PageStates
    BY <1>1, <2>1, ClosedType, EndedType, ConnectionTypes, Zenon
  <2>3. QED
    BY <1>1, <1>3, <1>13, <2>2 DEF Check
<1>14. CASE History
  <2>1. PICK fresh \in SUBSET Numbers : fresh = {n \in Stored : n > conn.max}
    BY <1>1, Zenon
  <2>2. /\ page' = Ended(Show(fresh)) /\ conn' = Closed
        /\ raced' = raced \cup Missed(Largest(fresh))
        /\ UNCHANGED <<rows, over, published, lost>>
    BY <1>14, <2>1 DEF History
  <2>3. Show(fresh) \in PageStates /\ Missed(Largest(fresh)) \subseteq Numbers
    BY <1>1, ShowShows, MissedAreNumbers
  <2>4. page' \in PageStates
    BY <1>1, <2>2, <2>3, EndedType
  <2>5. QED
    BY <1>1, <1>3, <2>2, <2>3, <2>4, ClosedType
<1>15. CASE UNCHANGED vars
  BY <1>1, <1>3, <1>15 DEF vars
<1>16. QED
  BY <1>4, <1>5, <1>6, <1>7, <1>8, <1>9, <1>10, <1>11, <1>12, <1>13, <1>14, <1>15
     DEF Next, WorkerStep, PageStep

-------------------------------------------------------------------------------
(***************************************************************************)
(* The page's numbers ascend.  Whatever a connection shows is above the last *)
(* number of the page, which is the number the connection asked for, and ids *)
(* of the loaded rows stay below it.                                       *)
(***************************************************************************)

\* No number twice, and none after a larger one.
Ascends(s) == \A i, j \in DOMAIN s : i < j => s[i] < s[j]

\* A connection belongs to an open page, and has the page's last number.
LastIsCommon ==
    /\ conn.pc # "closed" => page.pc = "open" /\ conn.max = page.last
    /\ page.pc = "loading" => page.streamed = <<>>
    /\ page.floor <= page.last
    /\ \A n \in Range(page.streamed) : n <= page.last

\* The rows the page was loaded with carry ids, and none is above the floor.
LoadedAreBefore ==
    page.pc # "ended" => \A m \in page.loaded : m \in Stored /\ rows[m] <= page.floor

OrderInv == LastIsCommon /\ LoadedAreBefore /\ StreamInOrder

\* Numbers above the last one are all new to the page, and follow what it shows.
LEMMA ShowAdds ==
    ASSUME LogTypeOK, OrderInv, page.pc # "ended",
           NEW ns \in SUBSET Numbers, \A n \in ns : n > page.last
    PROVE  /\ Range(Show(ns).streamed) = Range(page.streamed) \cup ns
           /\ Ascends(Show(ns).streamed)
           /\ \A n \in Range(Show(ns).streamed) : n <= Show(ns).last
           /\ page.last <= Show(ns).last
           /\ Show(ns).last \in ns \cup {page.last}
<1> DEFINE s == page.streamed
           t == Ascending(ns)
           u == Show(ns).streamed
<1>1. s \in Seq(Numbers) /\ page.last \in Labels /\ page.floor \in Labels
  BY DEF LogTypeOK, PageStates
<1>2. /\ Numbers \subseteq Nat /\ Labels \subseteq Nat /\ Numbers \subseteq Labels
  BY LabelsAreFinite
<1>3. page.last \in Nat /\ page.floor \in Nat /\ page.floor <= page.last
  BY <1>1, <1>2 DEF OrderInv, LastIsCommon
<1>4. \A n \in Range(s) : n <= page.last
  BY DEF OrderInv, LastIsCommon
<1>5. \A m \in page.loaded : rows[m] <= page.floor /\ rows[m] \in Nat
  <2>1. ASSUME NEW m \in page.loaded PROVE rows[m] <= page.floor /\ rows[m] \in Nat
    <3>1. m \in Stored /\ rows[m] <= page.floor
      BY DEF OrderInv, LoadedAreBefore
    <3>2. rows[m] \in Ids
      BY <3>1 DEF LogTypeOK, Range, Stored
    <3>3. QED
      BY <1>2, <3>1, <3>2, LabelsAreFinite
  <2>2. QED
    BY <2>1
<1>6. ns \ ({rows[m] : m \in page.loaded} \cup Range(s)) = ns
  <2>1. ASSUME NEW n \in ns PROVE n \notin {rows[m] : m \in page.loaded} /\ n \notin Range(s)
    <3>1. n \in Nat /\ n > page.last
      BY <1>2
    <3>2. n \notin Range(s)
      BY <1>3, <1>4, <3>1
    <3>3. ASSUME NEW m \in page.loaded PROVE n # rows[m]
      BY <1>3, <1>5, <3>1
    <3>4. QED
      BY <3>2, <3>3
  <2>2. QED
    BY <2>1
<1>7. u = s \o t
  BY <1>6, ShowShows
<1>8. t \in Seq(Numbers) /\ Range(t) = ns /\ Ascends(t)
  BY AscendingNumbers DEF Ascends
<1>9. Range(u) = Range(s) \cup ns
  BY <1>1, <1>7, <1>8, RangeConcatenation
<1>10. /\ Show(ns).last \in ns \cup {page.last}
       /\ \A n \in ns \cup {page.last} : n <= Show(ns).last
       /\ Show(ns).last \in Nat
  <2>1. ns \cup {page.last} \in SUBSET Labels
    BY <1>1, <1>2
  <2>2. /\ Show(ns).last \in ns \cup {page.last, 0}
        /\ \A n \in ns \cup {page.last} : n <= Show(ns).last
        /\ Show(ns).last \in Labels
    BY <2>1, LargestIsALabel, ShowShows
  <2>3. Show(ns).last \in Nat /\ page.last <= Show(ns).last
    BY <1>2, <2>2
  <2>4. Show(ns).last = 0 => page.last = 0
    BY <1>3, <2>3
  <2>5. QED
    BY <2>2, <2>3, <2>4
<1> HIDE DEF t, u
<1>11. Ascends(u)
  <2>1. /\ Len(s) \in Nat /\ Len(t) \in Nat
        /\ DOMAIN s = 1..Len(s) /\ DOMAIN t = 1..Len(t) /\ DOMAIN u = 1..(Len(s) + Len(t))
        /\ \A i \in 1..Len(s) + Len(t) : u[i] = IF i <= Len(s) THEN s[i] ELSE t[i - Len(s)]
    BY <1>1, <1>7, <1>8, ConcatProperties
  <2>2. Ascends(s)
    BY DEF OrderInv, StreamInOrder, Ascends
  <2>3. ASSUME NEW i \in 1..(Len(s) + Len(t)), NEW j \in 1..(Len(s) + Len(t)), i < j
        PROVE  u[i] < u[j]
    <3>1. i \in Nat /\ j \in Nat
      BY <2>1
    <3>2. CASE j <= Len(s)
      <4>1. i \in DOMAIN s /\ j \in DOMAIN s /\ u[i] = s[i] /\ u[j] = s[j]
        BY <2>1, <2>3, <3>1, <3>2
      <4>2. QED
        BY <2>2, <2>3, <4>1 DEF Ascends
    <3>3. CASE ~(j <= Len(s))
      <4>1. j - Len(s) \in DOMAIN t /\ u[j] = t[j - Len(s)]
        BY <2>1, <3>1, <3>3
      <4>2. u[j] \in ns
        BY <1>8, <4>1 DEF Range
      <4>3. CASE i <= Len(s)
        <5>1. i \in DOMAIN s /\ u[i] = s[i]
          BY <2>1, <3>1, <4>3
        <5>2. u[i] \in Range(s)
          BY <5>1 DEF Range
        <5>3. u[i] \in Nat /\ u[i] <= page.last
          BY <1>1, <1>2, <1>4, <5>2, RangeOfSeq
        <5>4. u[j] \in Nat /\ u[j] > page.last
          BY <1>2, <4>2
        <5>5. QED
          BY <1>3, <5>3, <5>4
      <4>4. CASE ~(i <= Len(s))
        <5>1. i - Len(s) \in DOMAIN t /\ u[i] = t[i - Len(s)]
          BY <2>1, <3>1, <4>4
        <5>2. i - Len(s) < j - Len(s)
          BY <2>1, <2>3, <3>1
        <5>3. QED
          BY <1>8, <4>1, <5>1, <5>2 DEF Ascends
      <4>5. QED
        BY <4>3, <4>4
    <3>4. QED
      BY <3>2, <3>3
  <2>4. QED
    BY <2>1, <2>3 DEF Ascends
<1>12. ASSUME NEW n \in Range(u) PROVE n <= Show(ns).last
  <2>1. CASE n \in ns
    BY <1>10, <2>1
  <2>2. CASE n \in Range(s)
    <3>1. n \in Nat /\ n <= page.last
      BY <1>1, <1>2, <1>4, <2>2, RangeOfSeq
    <3>2. page.last <= Show(ns).last
      BY <1>10
    <3>3. QED
      BY <1>3, <1>10, <3>1, <3>2
  <2>3. QED
    BY <1>9, <2>1, <2>2
<1>13. QED
  BY <1>9, <1>10, <1>11, <1>12 DEF u

\* The end of a connection takes nothing from the page.
LEMMA EndedKeeps ==
    ASSUME NEW p \in PageStates
    PROVE  /\ Ended(p).pc = "ended" /\ Ended(p).streamed = p.streamed
           /\ Ended(p).last = p.last /\ Ended(p).floor = p.floor
           /\ p.loaded \subseteq Ended(p).loaded
BY DEF Ended, PageStates

\* A page that is loading shows nothing.
LEMMA InitOrder == Init => OrderInv
<1> SUFFICES ASSUME Init PROVE OrderInv
  OBVIOUS
<1>1. page.streamed = <<>> /\ page.loaded = {} /\ page.last = 0 /\ page.floor = 0 /\ conn.pc = "closed"
  BY DEF Init, Closed
<1>2. DOMAIN page.streamed = {}
  BY <1>1
<1>3. QED
  BY <1>1, <1>2 DEF OrderInv, LastIsCommon, LoadedAreBefore, StreamInOrder, Range

\* Rows keep their numbers and ids.
RowsStay == Stored \subseteq Stored' /\ \A n \in Stored : rows'[n] = rows[n]

\* No step takes a row or changes its id.
LEMMA RowsStayForever ==
    ASSUME LogTypeOK, [Next]_vars
    PROVE  RowsStay
<1>1. Stored \subseteq Numbers /\ Range(rows) \subseteq Ids
  BY DEF LogTypeOK
<1>2. CASE UNCHANGED rows
  BY <1>2 DEF RowsStay, Stored
<1>3. ASSUME NEW ns \in SUBSET Numbers, AddRows(ns) PROVE RowsStay
  BY <1>1, <1>3, RowsKeepTheirIds DEF RowsStay
<1>4. CASE Cancel
  BY <1>3, <1>4 DEF Cancel
<1>5. ASSUME NEW batch \in SUBSET Numbers, Store(batch) \/ StoreFails(batch)
      PROVE  RowsStay
  <2>1. CASE Store(batch)
    BY <1>3, <2>1 DEF Store
  <2>2. CASE StoreFails(batch)
    BY <1>3, <2>2 DEF StoreFails
  <2>3. QED
    BY <1>5, <2>1, <2>2
<1>6. CASE InitDeployment \/ Log \/ Finish \/ LastFlush \/ Abort \/ OtherLines \/ Crash
  BY <1>2, <1>6, Zenon DEF InitDeployment, Log, Finish, LastFlush, Abort, OtherLines, Crash
<1>7. CASE PageStep
  BY <1>2, <1>7 DEF PageStep, Load, LoadFails, Connect, Subscribe, SubscribeFails, Replay, Pass, Check,
                    History, Break
<1>8. QED
  BY <1>2, <1>4, <1>5, <1>6, <1>7 DEF Next, WorkerStep, vars

\* Steps that leave the page alone, and the connection but for its wire.
LEMMA OthersKeepOrder ==
    ASSUME OrderInv, RowsStay, page' = page, conn'.pc = conn.pc, conn'.max = conn.max
    PROVE  OrderInv'
BY DEF OrderInv, RowsStay, LastIsCommon, LoadedAreBefore, StreamInOrder

\* What a page that got new lines needs.
LEMMA PageOrder ==
    ASSUME OrderInv, RowsStay,
           page'.pc \in {page.pc, "ended"}, page.pc # "loading", page'.floor = page.floor,
           page'.pc # "ended" => page'.loaded = page.loaded,
           Ascends(page'.streamed), page'.floor <= page'.last,
           \A n \in Range(page'.streamed) : n <= page'.last,
           conn'.pc # "closed" => page'.pc = "open" /\ conn'.max = page'.last
    PROVE  OrderInv'
<1>1. StreamInOrder'
  BY DEF Ascends, StreamInOrder
<1>2. LastIsCommon'
  BY DEF LastIsCommon
<1>3. LoadedAreBefore'
  BY DEF OrderInv, RowsStay, LoadedAreBefore
<1>4. QED
  BY <1>1, <1>2, <1>3 DEF OrderInv

\* Every step keeps the order.
LEMMA NextOrder ==
    ASSUME LogTypeOK, OrderInv, [Next]_vars
    PROVE  OrderInv'
<1>1. RowsStay
  BY RowsStayForever
<1>2. /\ Stored \subseteq Numbers /\ Range(rows) \subseteq Ids
      /\ conn \in ConnectionStates /\ page \in PageStates
  BY DEF LogTypeOK
<1>3. /\ conn.pc # "closed" => page.pc = "open" /\ conn.max = page.last
      /\ page.pc = "loading" => page.streamed = <<>>
      /\ page.floor <= page.last
      /\ \A n \in Range(page.streamed) : n <= page.last
  BY DEF OrderInv, LastIsCommon
<1>4. page.last \in Nat /\ page.floor \in Nat /\ conn.max \in Nat
  BY <1>2, LabelsAreFinite DEF PageStates, ConnectionStates
<1>5. Ascends(page.streamed)
  BY DEF OrderInv, StreamInOrder, Ascends
<1>6. Closed.pc = "closed"
  BY DEF Closed
<1>7. CASE Cancel \/ InitDeployment \/ Log \/ Finish \/ LastFlush \/ Abort \/ OtherLines \/ Crash
  <2>1. page' = page /\ conn' \in {conn, [conn EXCEPT !.wire = Append(@, streamer.counter + 1)]}
    BY <1>7, Zenon DEF Cancel, InitDeployment, Log, Finish, LastFlush, Abort, OtherLines, Crash
  <2>2. conn'.pc = conn.pc /\ conn'.max = conn.max
    BY <1>2, <2>1 DEF ConnectionStates
  <2>3. QED
    BY <1>1, <2>1, <2>2, OthersKeepOrder
<1>8. ASSUME NEW batch, Store(batch) \/ StoreFails(batch)
      PROVE  OrderInv'
  BY <1>1, <1>8, OthersKeepOrder DEF Store, StoreFails
<1>9. CASE Load
  <2>1. PICK top \in Labels : top = Largest(Range(rows)) /\ \A n \in Range(rows) : n <= top
    <3>1. Range(rows) \in SUBSET Labels
      BY <1>2, LabelsAreFinite
    <3>2. QED
      BY <3>1, LargestIsALabel
  <2>2. PICK p \in {"ended", "open"} : p = IF over THEN "ended" ELSE "open"
    OBVIOUS
  <2>3. page' = [page EXCEPT !.pc = p, !.loaded = Stored, !.last = top, !.floor = top]
    BY <1>9, <2>1, <2>2 DEF Load
  <2>4. /\ page'.pc = p /\ page'.loaded = Stored /\ page'.last = top /\ page'.floor = top
        /\ page'.streamed = page.streamed
    BY <1>2, <2>3 DEF PageStates
  <2>5. page.pc = "loading" /\ UNCHANGED <<rows, conn>>
    BY <1>9 DEF Load
  <2>6. conn'.pc = "closed" /\ page'.streamed = <<>> /\ top <= top
    <3>1. conn.pc = "closed"
      BY <1>3, <2>5
    <3>2. page'.streamed = <<>>
      BY <1>3, <2>4, <2>5
    <3>3. top \in Nat
      BY <2>1, LabelsAreFinite
    <3>4. QED
      BY <2>5, <3>1, <3>2, <3>3
  <2>7. DOMAIN page'.streamed = {}
    BY <2>6
  <2>8. LastIsCommon' /\ StreamInOrder'
    BY <2>2, <2>4, <2>6, <2>7 DEF LastIsCommon, StreamInOrder, Range
  <2>9. LoadedAreBefore'
    BY <2>1, <2>4, <2>5 DEF LoadedAreBefore, Range, Stored
  <2>10. QED
    BY <2>8, <2>9 DEF OrderInv
<1>10. CASE LoadFails
  <2>1. /\ page' = [page EXCEPT !.pc = "open"] /\ page.pc = "loading"
        /\ UNCHANGED <<rows, conn>>
    BY <1>10 DEF LoadFails
  <2>2. /\ page'.pc = "open" /\ page'.loaded = page.loaded /\ page'.last = page.last
        /\ page'.floor = page.floor /\ page'.streamed = page.streamed
    BY <1>2, <2>1 DEF PageStates
  <2>3. LastIsCommon'
    BY <1>3, <2>1, <2>2 DEF LastIsCommon
  <2>4. StreamInOrder' /\ LoadedAreBefore'
    BY <1>1, <2>1, <2>2 DEF OrderInv, StreamInOrder, LoadedAreBefore, RowsStay
  <2>5. QED
    BY <2>3, <2>4 DEF OrderInv
<1>11. CASE Connect \/ Subscribe \/ SubscribeFails \/ Break
  <2>1. page' = page
    BY <1>11 DEF Connect, Subscribe, SubscribeFails, Break
  <2>2. conn'.pc # "closed" => page.pc = "open" /\ conn'.max = page.last
    <3>1. CASE Connect
      BY <1>2, <3>1 DEF Connect, ConnectionStates
    <3>2. CASE Subscribe \/ SubscribeFails
      BY <1>2, <1>3, <3>2 DEF Subscribe, SubscribeFails, ConnectionStates
    <3>3. CASE Break
      BY <1>6, <3>3 DEF Break
    <3>4. QED
      BY <1>11, <3>1, <3>2, <3>3
  <2>3. LastIsCommon'
    BY <1>3, <2>1, <2>2 DEF LastIsCommon
  <2>4. StreamInOrder' /\ LoadedAreBefore'
    BY <1>1, <2>1 DEF OrderInv, StreamInOrder, LoadedAreBefore, RowsStay
  <2>5. QED
    BY <2>3, <2>4 DEF OrderInv
<1>12. CASE Replay
  <2>1. PICK fresh \in SUBSET Numbers : fresh = {n \in Stored : n > conn.max}
    BY <1>2
  <2>2. conn.pc = "replay" /\ page.pc = "open" /\ conn.max = page.last
    BY <1>3, <1>12 DEF Replay
  <2>3. page' = Show(fresh) /\ conn' = [conn EXCEPT !.pc = "check", !.max = Largest(fresh \cup {conn.max})]
    BY <1>12, <2>1 DEF Replay
  <2>4. /\ page'.pc = page.pc /\ page'.loaded = page.loaded /\ page'.floor = page.floor
        /\ page'.last = Largest(fresh \cup {page.last})
    BY <2>3, ShowShows
  <2>5. conn'.pc = "check" /\ conn'.max = page'.last
    BY <1>2, <2>2, <2>3, <2>4 DEF ConnectionStates
  <2>6. \A n \in fresh : n > page.last
    BY <2>1, <2>2
  <2>7. /\ Ascends(page'.streamed)
        /\ \A n \in Range(page'.streamed) : n <= page'.last
        /\ page.last <= page'.last /\ page'.last \in fresh \cup {page.last}
    BY <2>2, <2>3, <2>6, ShowAdds
  <2>8. page'.floor <= page'.last
    <3>1. page'.last \in Nat
      BY <1>4, <2>7, LabelsAreFinite
    <3>2. QED
      BY <1>3, <1>4, <2>4, <2>7, <3>1
  <2>9. QED
    BY <1>1, <2>2, <2>4, <2>5, <2>7, <2>8, PageOrder
<1>13. CASE Pass
  <2>1. PICK n \in Numbers : n = Head(conn.wire)
    BY <1>2, <1>13, HeadTailProperties DEF Pass, ConnectionStates
  <2>2. conn.pc # "closed" /\ page.pc = "open" /\ conn.max = page.last
    BY <1>3, <1>13 DEF Pass
  <2>3. CASE n <= conn.max
    <3>1. page' = page /\ conn' = [conn EXCEPT !.wire = Tail(@)]
      BY <1>13, <2>1, <2>3 DEF Pass
    <3>2. conn'.pc = conn.pc /\ conn'.max = conn.max
      BY <1>2, <3>1 DEF ConnectionStates
    <3>3. QED
      BY <1>1, <3>1, <3>2, OthersKeepOrder
  <2>4. CASE ~(n <= conn.max)
    <3>1. page' = Show({n}) /\ conn' = [conn EXCEPT !.wire = Tail(@), !.max = n]
      BY <1>13, <2>1, <2>4 DEF Pass
    <3>2. conn'.pc = conn.pc /\ conn'.max = n
      BY <1>2, <3>1 DEF ConnectionStates
    <3>3. n \in Nat /\ n > page.last
      BY <1>4, <2>2, <2>4, LabelsAreFinite
    <3>4. page'.pc = page.pc /\ page'.loaded = page.loaded /\ page'.floor = page.floor
      BY <3>1, ShowShows
    <3>5. /\ Ascends(page'.streamed)
          /\ \A m \in Range(page'.streamed) : m <= page'.last
          /\ page.last <= page'.last /\ page'.last \in {n} \cup {page.last}
          /\ Range(page'.streamed) = Range(page.streamed) \cup {n}
      BY <2>2, <3>1, <3>3, ShowAdds
    <3>6. page'.last = n
      <4>1. n <= page'.last
        BY <3>5
      <4>2. QED
        BY <1>4, <3>3, <3>5, <4>1
    <3>7. page'.floor <= page'.last
      BY <1>3, <1>4, <3>3, <3>4, <3>6
    <3>8. QED
      BY <1>1, <2>2, <3>2, <3>4, <3>5, <3>6, <3>7, PageOrder
  <2>5. QED
    BY <2>3, <2>4
<1>14. CASE Check
  <2>1. conn.pc = "check" /\ page.pc = "open" /\ conn.max = page.last
    BY <1>3, <1>14 DEF Check
  <2>2. CASE over
    <3>1. conn' = Closed /\ page' = Ended(page)
      BY <1>14, <2>2 DEF Check
    <3>2. QED
      BY <1>1, <1>2, <1>3, <1>5, <1>6, <2>1, <3>1, EndedKeeps, PageOrder
  <2>3. CASE ~over
    <3>1. conn' = [conn EXCEPT !.pc = "live"] /\ page' = page
      BY <1>14, <2>3 DEF Check
    <3>2. conn'.max = conn.max
      BY <1>2, <3>1 DEF ConnectionStates
    <3>3. QED
      BY <1>1, <1>3, <1>5, <2>1, <3>1, <3>2, PageOrder
  <2>4. QED
    BY <2>2, <2>3
<1>15. CASE History
  <2>1. PICK fresh \in SUBSET Numbers : fresh = {n \in Stored : n > conn.max}
    BY <1>2
  <2>2. conn.pc = "history" /\ page.pc = "open" /\ conn.max = page.last
    BY <1>3, <1>15 DEF History
  <2>3. page' = Ended(Show(fresh)) /\ conn' = Closed
    BY <1>15, <2>1 DEF History
  <2>4. Show(fresh) \in PageStates /\ Show(fresh).floor = page.floor
    BY ShowShows
  <2>5. /\ page'.pc = "ended" /\ page'.floor = page.floor /\ page'.last = Show(fresh).last
        /\ page'.streamed = Show(fresh).streamed
    BY <2>3, <2>4, EndedKeeps
  <2>6. \A n \in fresh : n > page.last
    BY <2>1, <2>2
  <2>7. /\ Ascends(page'.streamed)
        /\ \A n \in Range(page'.streamed) : n <= page'.last
        /\ page.last <= page'.last /\ page'.last \in fresh \cup {page.last}
    BY <2>2, <2>5, <2>6, ShowAdds
  <2>8. page'.floor <= page'.last
    <3>1. page'.last \in Nat
      BY <1>4, <2>7, LabelsAreFinite
    <3>2. QED
      BY <1>3, <1>4, <2>5, <2>7, <3>1
  <2>9. QED
    BY <1>1, <1>6, <2>2, <2>3, <2>5, <2>7, <2>8, PageOrder
<1>16. CASE UNCHANGED vars
  BY <1>1, <1>16, OthersKeepOrder DEF vars
<1>17. QED
  BY <1>7, <1>8, <1>9, <1>10, <1>11, <1>12, <1>13, <1>14, <1>15, <1>16 DEF Next, WorkerStep, PageStep

-------------------------------------------------------------------------------
(***************************************************************************)
(* Numbers are given out in turn, so that a number that comes late was given *)
(* out before, and is accounted for as lost.                               *)
(***************************************************************************)

OnTheWay == streamer.buffer \cup UNION streamer.flushes

\* k is the largest number given out, the first row's included; only the row of a
\* cancellation may be one further.
GivenUpTo(k) ==
    /\ published \cup {1} = 1..k
    /\ streamer.counter <= k
    /\ Stored \subseteq 1..(k + 1)
    /\ ~over => Stored \subseteq 1..k

NumbersInTurn ==
    /\ 1 \in Stored
    /\ OnTheWay \subseteq published
    /\ \E k \in Numbers : GivenUpTo(k)

\* Number 1 is that of the first row.
LEMMA InitTurn == Init => NumbersInTurn
<1> SUFFICES ASSUME Init PROVE NumbersInTurn
  OBVIOUS
<1>1. Stored = {1} /\ published = {} /\ streamer.counter = 0 /\ OnTheWay = {}
  BY DEF Init, Stored, OnTheWay
<1>2. 1 \in Numbers
  BY LogAssumption DEF Numbers
<1>3. GivenUpTo(1)
  BY <1>1 DEF GivenUpTo
<1>4. QED
  BY <1>1, <1>2, <1>3 DEF NumbersInTurn

\* A deployment that is not over has no more rows than numbers that were given out.
LEMMA CountIsGiven ==
    ASSUME NEW k \in Nat, Stored \subseteq 1..k
    PROVE  Count \in 0..k
<1>1. IsFiniteSet(1..k) /\ Cardinality(1..k) = k
  BY FS_Interval
<1>2. Cardinality(Stored) <= k /\ Cardinality(Stored) \in Nat
  BY <1>1, FS_Subset, FS_CardinalityType
<1>3. QED
  BY <1>2 DEF Count

\* Every step keeps the turn of the numbers.
LEMMA NextTurn ==
    ASSUME LogTypeOK, NumbersInTurn, [Next]_vars
    PROVE  NumbersInTurn'
<1>1. PICK k \in Numbers : GivenUpTo(k)
  BY DEF NumbersInTurn
<1>2. /\ published \cup {1} = 1..k /\ streamer.counter <= k
      /\ Stored \subseteq 1..(k + 1) /\ (~over => Stored \subseteq 1..k)
      /\ 1 \in Stored /\ OnTheWay \subseteq published
  BY <1>1 DEF GivenUpTo, NumbersInTurn
<1>3. /\ streamer \in StreamerStates /\ streamer.counter \in Nat /\ k \in Nat /\ MaxNumber \in Nat
      /\ Stored \subseteq Numbers /\ Range(rows) \subseteq Ids
  BY LogAssumption DEF LogTypeOK, StreamerStates, Numbers
<1>4. /\ streamer.buffer \subseteq published /\ UNION streamer.flushes \subseteq published
  BY <1>2 DEF OnTheWay
<1>5. 1 \in Stored'
  BY <1>2, RowsStayForever DEF RowsStay
<1>6. ASSUME published' = published, streamer'.counter <= k, OnTheWay' \subseteq published,
             Stored' \subseteq 1..(k + 1), ~over' => Stored' \subseteq 1..k
      PROVE  NumbersInTurn'
  <2>1. GivenUpTo(k)'
    BY <1>2, <1>6 DEF GivenUpTo
  <2>2. k \in Numbers'
    BY DEF Numbers
  <2>3. QED
    BY <1>5, <1>6, <2>1, <2>2 DEF NumbersInTurn
<1>7. CASE UNCHANGED <<rows, over, streamer, published>>
  BY <1>2, <1>6, <1>7 DEF Stored, OnTheWay
<1>8. CASE Cancel
  <2>1. PICK n \in Numbers : n <= Count + 1 /\ AddRows({n})
    BY <1>8 DEF Cancel
  <2>2. ~over /\ over' = TRUE /\ UNCHANGED <<streamer, published>>
    BY <1>8 DEF Cancel
  <2>3. Count \in 0..k
    BY <1>2, <1>3, <2>2, CountIsGiven
  <2>4. n \in 1..(k + 1)
    BY <1>3, <2>1, <2>3 DEF Numbers
  <2>5. Stored' = Stored \cup {n}
    BY <2>1, RowsGrow
  <2>6. OnTheWay' = OnTheWay
    BY <2>2 DEF OnTheWay
  <2>7. QED
    BY <1>2, <1>6, <2>2, <2>4, <2>5, <2>6
<1>9. CASE InitDeployment
  <2>1. ~over /\ UNCHANGED <<rows, over, published>>
    BY <1>9 DEF InitDeployment
  <2>2. Count \in 0..k
    BY <1>2, <1>3, <2>1, CountIsGiven
  <2>3. PICK c \in {Count, 0} :
          streamer' = [streamer EXCEPT !.pc = "on", !.counter = c, !.runs = @ + 1]
    BY <1>9 DEF InitDeployment
  <2>4. /\ streamer'.counter = c /\ streamer'.buffer = streamer.buffer
        /\ streamer'.flushes = streamer.flushes
    BY <1>3, <2>3 DEF StreamerStates
  <2>5. c <= k
    BY <1>3, <2>2
  <2>6. OnTheWay' = OnTheWay /\ Stored' = Stored
    BY <2>1, <2>4 DEF OnTheWay, Stored
  <2>7. QED
    BY <1>2, <1>6, <2>1, <2>4, <2>5, <2>6
<1>10. CASE Log
  <2>1. PICK n \in Numbers : n = streamer.counter + 1
    BY <1>10 DEF Log
  <2>2. PICK s : s = [streamer EXCEPT !.counter = n, !.buffer = @ \cup {n}]
    OBVIOUS
  <2>3. /\ streamer' = Flushing(s) \/ streamer' = s
        /\ published' = published \cup {n}
        /\ UNCHANGED <<rows, over>>
    BY <1>10, <2>1, <2>2 DEF Log
  <2>4. n \in 0..MaxNumber
    BY <1>3 DEF Numbers
  <2>5. /\ s \in StreamerStates /\ s.counter = n
        /\ s.buffer = streamer.buffer \cup {n} /\ s.flushes = streamer.flushes
    BY <1>3, <2>1, <2>2, <2>4 DEF StreamerStates
  <2>6. Flushing(s).counter = n /\ Flushing(s).buffer = {} /\ Flushing(s).flushes = s.flushes \cup {s.buffer}
    BY <2>5 DEF Flushing, StreamerStates
  <2>7. streamer'.counter = n /\ OnTheWay' \subseteq OnTheWay \cup {n}
    BY <2>3, <2>5, <2>6 DEF OnTheWay
  <2>8. n <= k + 1 /\ n \in Nat /\ n >= 1
    BY <1>2, <1>3, <2>1
  <2>9. Stored' = Stored /\ OnTheWay' \subseteq published'
    BY <1>2, <2>3, <2>7 DEF Stored
  <2>10. PICK j \in Numbers : k <= j /\ n <= j /\ published' \cup {1} = 1..j
    <3>1. CASE n <= k
      <4>1. published' \cup {1} = (1..k) \cup {n}
        BY <1>2, <2>3
      <4>2. n \in 1..k /\ k <= k
        BY <1>3, <2>8, <3>1
      <4>3. QED
        BY <3>1, <4>1, <4>2
    <3>2. CASE ~(n <= k)
      <4>1. n = k + 1
        BY <1>3, <2>8, <3>2
      <4>2. (1..k) \cup {n} = 1..n
        BY <1>3, <4>1
      <4>3. published' \cup {1} = 1..n
        BY <1>2, <2>3, <4>2
      <4>4. k <= n /\ n <= n
        BY <1>3, <4>1
      <4>5. QED
        BY <4>3, <4>4
    <3>3. QED
      BY <3>1, <3>2
  <2>11. j \in Nat
    BY <1>3 DEF Numbers
  <2>12. 1..(k + 1) \subseteq 1..(j + 1) /\ 1..k \subseteq 1..j
    BY <1>3, <2>10, <2>11
  <2>13. GivenUpTo(j)'
    BY <1>2, <2>3, <2>7, <2>9, <2>10, <2>12 DEF GivenUpTo
  <2>14. j \in Numbers'
    BY DEF Numbers
  <2>15. QED
    BY <1>5, <2>9, <2>13, <2>14 DEF NumbersInTurn
<1>11. ASSUME NEW batch, Store(batch) \/ StoreFails(batch)
       PROVE  NumbersInTurn'
  <2>1. PICK kept \in SUBSET batch : AddRows(kept)
    <3>1. CASE Store(batch)
      BY <3>1 DEF Store
    <3>2. CASE StoreFails(batch)
      BY <3>2 DEF StoreFails
    <3>3. QED
      BY <1>11, <3>1, <3>2
  <2>2. /\ batch \in streamer.flushes
        /\ streamer' = [streamer EXCEPT !.flushes = @ \ {batch}]
        /\ UNCHANGED <<over, published>>
    BY <1>11 DEF Store, StoreFails
  <2>3. /\ streamer'.counter = streamer.counter /\ streamer'.buffer = streamer.buffer
        /\ streamer'.flushes = streamer.flushes \ {batch}
    BY <1>3, <2>2 DEF StreamerStates
  <2>4. OnTheWay' \subseteq published
    BY <1>4, <2>3 DEF OnTheWay
  <2>5. kept \subseteq 1..k /\ 1..k \subseteq 1..(k + 1)
    BY <1>2, <1>3, <1>4, <2>1, <2>2
  <2>6. Stored' = Stored \cup kept
    BY <2>1, RowsGrow
  <2>7. QED
    BY <1>2, <1>6, <2>2, <2>3, <2>4, <2>5, <2>6
<1>12. CASE Finish \/ Abort
  <2>1. PICK p \in {"off", "closing"} : streamer' = [streamer EXCEPT !.pc = p]
    BY <1>12 DEF Finish, Abort
  <2>2. UNCHANGED <<rows, published>> /\ over' \in {TRUE, over}
    BY <1>12 DEF Finish, Abort
  <2>3. /\ streamer'.counter = streamer.counter /\ streamer'.buffer = streamer.buffer
        /\ streamer'.flushes = streamer.flushes
    BY <1>3, <2>1 DEF StreamerStates
  <2>4. Stored' = Stored /\ OnTheWay' = OnTheWay
    BY <2>2, <2>3 DEF Stored, OnTheWay
  <2>5. ~over' => Stored' \subseteq 1..k
    BY <1>2, <2>2, <2>4
  <2>6. QED
    BY <1>2, <1>6, <2>2, <2>3, <2>4, <2>5
<1>13. CASE LastFlush \/ OtherLines
  <2>1. PICK s : s \in {streamer, [streamer EXCEPT !.pc = "off"]} /\ streamer' \in {s, Flushing(s)}
    BY <1>13 DEF LastFlush, OtherLines
  <2>2. s \in StreamerStates /\ s.counter = streamer.counter /\ s.buffer = streamer.buffer
        /\ s.flushes = streamer.flushes
    BY <1>3, <2>1 DEF StreamerStates
  <2>3. Flushing(s).counter = s.counter /\ Flushing(s).buffer = {}
        /\ Flushing(s).flushes = s.flushes \cup {s.buffer}
    BY <2>2 DEF Flushing, StreamerStates
  <2>4. streamer'.counter = streamer.counter /\ OnTheWay' \subseteq OnTheWay
    BY <2>1, <2>2, <2>3 DEF OnTheWay
  <2>5. UNCHANGED <<rows, over, published>>
    BY <1>13 DEF LastFlush, OtherLines
  <2>6. QED
    BY <1>2, <1>6, <2>4, <2>5 DEF Stored
<1>14. CASE Crash
  <2>1. UNCHANGED <<rows, over, published>>
    BY <1>14 DEF Crash
  <2>2. streamer' = [streamer EXCEPT !.pc = "off", !.counter = 0, !.buffer = {}, !.flushes = {}]
    BY <1>14 DEF Crash
  <2>3. streamer'.counter = 0 /\ streamer'.buffer = {} /\ streamer'.flushes = {}
    BY <1>3, <2>2 DEF StreamerStates
  <2>4. 0 <= k /\ OnTheWay' = {}
    BY <1>3, <2>3 DEF OnTheWay
  <2>5. QED
    BY <1>2, <1>6, <2>1, <2>3, <2>4 DEF Stored
<1>15. CASE PageStep
  BY <1>7, <1>15 DEF PageStep, Load, LoadFails, Connect, Subscribe, SubscribeFails, Replay, Pass, Check,
                     History, Break
<1>16. QED
  BY <1>7, <1>8, <1>9, <1>10, <1>11, <1>12, <1>13, <1>14, <1>15 DEF Next, WorkerStep, vars

-------------------------------------------------------------------------------
(***************************************************************************)
(* What the page skips.                                                    *)
(***************************************************************************)

\* The last number of the page is that of a row or of a published line, unless it
\* comes from the rows' ids.
LastWasSent == page.last = page.floor \/ page.last \in published \cup Stored

\* Lines come in the order in which they were published, which is that of their numbers.
WireInOrder ==
    /\ conn.wire # <<>> => conn.subscribed
    /\ Range(conn.wire) \subseteq published
    /\ \A i, j \in DOMAIN conn.wire :
          i < j => conn.wire[i] < conn.wire[j] \/ conn.wire[j] \in lost

\* After the replay, what the page has not seen comes on the wire.
StillComing ==
    conn.pc \in {"check", "live"} /\ conn.subscribed =>
        \A n \in published : n > conn.max => n \in Range(conn.wire) \cup lost \cup raced

GapInv == LastWasSent /\ WireInOrder /\ StillComing /\ GapsHaveACause

\* Nothing was published.
LEMMA InitGaps == Init => GapInv
<1> SUFFICES ASSUME Init PROVE GapInv
  OBVIOUS
<1>1. /\ published = {} /\ page.last = page.floor /\ conn.wire = <<>> /\ conn.pc = "closed"
  BY DEF Init, Closed
<1>2. DOMAIN conn.wire = {}
  BY <1>1
<1>3. QED
  BY <1>1, <1>2 DEF GapInv, LastWasSent, WireInOrder, StillComing, GapsHaveACause, Range

\* Steps that show nothing and publish nothing.
LEMMA OthersKeepGaps ==
    ASSUME GapInv, UNCHANGED <<conn, page, published, raced>>,
           Stored \subseteq Stored', lost \subseteq lost'
    PROVE  GapInv'
<1>1. LastWasSent'
  BY DEF GapInv, LastWasSent
<1>2. WireInOrder'
  BY DEF GapInv, WireInOrder
<1>3. StillComing'
  BY DEF GapInv, StillComing
<1>4. GapsHaveACause'
  BY DEF GapInv, GapsHaveACause, Shown
<1>5. QED
  BY <1>1, <1>2, <1>3, <1>4 DEF GapInv

\* A line that is logged: its number is the largest yet, or counts as lost.
LEMMA LogKeepsGaps ==
    ASSUME LogTypeOK, NumbersInTurn, GapInv, Log
    PROVE  GapInv'
<1>1. /\ conn \in ConnectionStates /\ page \in PageStates /\ published \subseteq Numbers
      /\ Stored \subseteq Numbers
  BY DEF LogTypeOK
<1>2. PICK n \in Numbers : n = streamer.counter + 1
  BY DEF Log
<1>3. /\ published' = published \cup {n}
      /\ lost' = lost \cup ({n} \cap (published \cup Stored))
      /\ conn' = IF conn.subscribed THEN [conn EXCEPT !.wire = Append(@, n)] ELSE conn
      /\ UNCHANGED <<rows, over, page, raced>>
  BY <1>2 DEF Log
<1>4. PICK k \in Numbers :
        /\ published \cup {1} = 1..k /\ streamer.counter <= k /\ Stored \subseteq 1..(k + 1)
  BY DEF NumbersInTurn, GivenUpTo
<1>5. Numbers \subseteq Nat /\ Labels \subseteq Nat /\ streamer.counter \in Nat /\ Stored' = Stored
  <2>1. Labels \subseteq Nat /\ Numbers \subseteq Labels
    BY LabelsAreFinite
  <2>2. streamer.counter \in Nat
    BY DEF LogTypeOK, StreamerStates
  <2>3. Stored' = Stored
    BY <1>3 DEF Stored
  <2>4. QED
    BY <2>1, <2>2, <2>3
<1>6. n <= k + 1 /\ n \in Nat /\ k \in Nat
  BY <1>2, <1>4, <1>5
<1>7. n \notin lost' => n = k + 1 /\ n \notin published \cup Stored
  <2>1. SUFFICES ASSUME n \notin lost' PROVE n = k + 1 /\ n \notin published \cup Stored
    OBVIOUS
  <2>2. n \notin published \cup Stored
    BY <1>3, <2>1
  <2>3. n # 1
    BY <2>2 DEF NumbersInTurn
  <2>4. n \notin 1..k
    BY <1>4, <2>2, <2>3
  <2>5. n >= 1
    BY <1>2, <1>5
  <2>6. QED
    BY <1>6, <2>2, <2>4, <2>5
<1>8. LastWasSent'
  BY <1>3, <1>5 DEF GapInv, LastWasSent
<1>9. WireInOrder'
  <2>1. CASE ~conn.subscribed
    BY <1>3, <2>1 DEF GapInv, WireInOrder
  <2>2. CASE conn.subscribed
    <3>1. /\ conn'.wire = Append(conn.wire, n) /\ conn'.subscribed = conn.subscribed
      BY <1>1, <1>3, <2>2 DEF ConnectionStates
    <3>2. PICK w \in Seq(Numbers) : w = conn.wire
      BY <1>1 DEF ConnectionStates
    <3>3. PICK v \in Seq(Numbers) : v = conn'.wire
      BY <3>1, <3>2, AppendProperties
    <3>4. /\ Len(w) \in Nat /\ DOMAIN w = 1..Len(w) /\ DOMAIN v = 1..(Len(w) + 1)
          /\ \A i \in 1..Len(w) : v[i] = w[i]
          /\ v[Len(w) + 1] = n
      BY <3>1, <3>2, <3>3, AppendProperties
    <3>5. /\ Range(w) \subseteq published
          /\ \A i, j \in DOMAIN w : i < j => w[i] < w[j] \/ w[j] \in lost
      BY <3>2 DEF GapInv, WireInOrder
    <3>6. ASSUME NEW i \in DOMAIN v
          PROVE  v[i] \in published'
      <4>1. i \in 1..Len(w) \/ i = Len(w) + 1
        BY <3>4
      <4>2. QED
        BY <1>3, <3>4, <3>5, <4>1 DEF Range
    <3>7. ASSUME NEW i \in DOMAIN v, NEW j \in DOMAIN v, i < j
          PROVE  v[i] < v[j] \/ v[j] \in lost'
      <4>1. i \in 1..Len(w) /\ (j \in 1..Len(w) \/ j = Len(w) + 1)
        BY <3>4, <3>7
      <4>2. CASE j \in 1..Len(w)
        BY <1>3, <3>4, <3>5, <3>7, <4>1, <4>2
      <4>3. CASE j = Len(w) + 1
        <5>1. v[j] = n /\ v[i] \in published
          BY <3>4, <3>5, <4>1, <4>3 DEF Range
        <5>2. v[i] \in 1..k
          BY <1>4, <5>1
        <5>3. QED
          BY <1>6, <1>7, <5>1, <5>2
      <4>4. QED
        BY <4>1, <4>2, <4>3
    <3>8. QED
      BY <2>2, <3>1, <3>3, <3>6, <3>7 DEF WireInOrder, Range
  <2>3. QED
    BY <2>1, <2>2
<1>10. StillComing'
  <2>1. SUFFICES ASSUME conn'.pc \in {"check", "live"}, conn'.subscribed
                 PROVE  \A m \in published' :
                           m > conn'.max => m \in Range(conn'.wire) \cup lost' \cup raced'
    BY DEF StillComing
  <2>2. CASE ~conn.subscribed
    BY <1>3, <2>1, <2>2
  <2>3. CASE conn.subscribed
    <3>1. /\ conn'.wire = Append(conn.wire, n) /\ conn'.pc = conn.pc /\ conn'.max = conn.max
      BY <1>1, <1>3, <2>3 DEF ConnectionStates
    <3>2. PICK w \in Seq(Numbers) : w = conn.wire
      BY <1>1 DEF ConnectionStates
    <3>3. /\ Len(w) \in Nat /\ DOMAIN w = 1..Len(w) /\ DOMAIN conn'.wire = 1..(Len(w) + 1)
          /\ \A i \in 1..Len(w) : conn'.wire[i] = w[i]
          /\ conn'.wire[Len(w) + 1] = n
      BY <3>1, <3>2, AppendProperties
    <3>4. Range(conn.wire) \cup {n} \subseteq Range(conn'.wire)
      <4>1. n \in Range(conn'.wire)
        <5>1. Len(w) + 1 \in DOMAIN conn'.wire
          BY <3>3
        <5>2. QED
          BY <3>3, <5>1 DEF Range
      <4>2. ASSUME NEW i \in DOMAIN w PROVE w[i] \in Range(conn'.wire)
        <5>1. i \in DOMAIN conn'.wire /\ conn'.wire[i] = w[i]
          BY <3>3
        <5>2. QED
          BY <5>1 DEF Range
      <4>3. QED
        BY <3>2, <4>1, <4>2 DEF Range
    <3>5. \A m \in published : m > conn.max => m \in Range(conn.wire) \cup lost \cup raced
      BY <2>1, <2>3, <3>1 DEF GapInv, StillComing
    <3>6. QED
      BY <1>3, <3>1, <3>4, <3>5
  <2>4. QED
    BY <2>2, <2>3
<1>11. GapsHaveACause'
  <2>4. \A m \in published' : ~(m <= page.floor) <=> page.floor < m
    BY <1>1, <1>3, <1>5 DEF PageStates
  <2>1. ASSUME NEW m \in published', page.floor < m, m <= page.last, m \notin Shown
        PROVE  m \in raced \cup lost'
    <3>1. CASE m \in published
      BY <1>3, <2>1, <2>4, <3>1 DEF GapInv, GapsHaveACause
    <3>2. CASE m = n /\ n \notin lost'
      <4>1. n = k + 1 /\ n \notin published \cup Stored
        BY <1>7, <3>2
      <4>2. page.last \in Nat /\ page.floor \in Nat
        BY <1>1, <1>5 DEF PageStates
      <4>3. page.last # page.floor
        BY <1>6, <2>1, <3>2, <4>2
      <4>4. page.last \in published \cup Stored
        BY <4>3 DEF GapInv, LastWasSent
      <4>5. page.last \in 1..(k + 1)
        <5>1. 1..k \subseteq 1..(k + 1)
          BY <1>6
        <5>2. QED
          BY <1>4, <4>4, <5>1
      <4>6. page.last = n
        BY <1>6, <2>1, <3>2, <4>1, <4>2, <4>5
      <4>7. QED
        BY <4>1, <4>4, <4>6
    <3>3. QED
      BY <1>3, <3>1, <3>2
  <2>2. Shown' = Shown
    BY <1>3 DEF Shown
  <2>3. QED
    BY <1>3, <2>1, <2>2, <2>4 DEF GapsHaveACause
<1>12. QED
  BY <1>8, <1>9, <1>10, <1>11 DEF GapInv

\* The rows after the page's last number, up to top, are shown: what was skipped was
\* published and not stored.
LEMMA RowsLeaveRacedGaps ==
    ASSUME LogTypeOK, GapInv, NEW fresh \in SUBSET Numbers, NEW top \in Nat,
           conn.max = page.last, fresh = {n \in Stored : n > page.last}, \A n \in fresh : n <= top,
           page'.floor = page.floor, page'.last \in fresh \cup {page.last},
           Range(page'.streamed) = Range(page.streamed) \cup fresh, page.loaded \subseteq page'.loaded,
           raced' = raced \cup Missed(top), UNCHANGED <<rows, published, lost>>
    PROVE  LastWasSent' /\ GapsHaveACause'
<1>1. Stored' = Stored /\ Shown \cup fresh \subseteq Shown'
  BY DEF Stored, Shown
<1>2. LastWasSent'
  BY <1>1 DEF GapInv, LastWasSent
<1>3. page.last \in Nat /\ fresh \subseteq Nat /\ published \subseteq Nat
  BY LabelsAreFinite DEF LogTypeOK, PageStates
<1>4. ASSUME NEW n \in published, n <= page'.last, n \notin Shown'
      PROVE  n \in raced' \/ n <= page.floor \/ n \in lost
  <2>1. CASE n <= page.last
    BY <1>1, <1>4, <2>1 DEF GapInv, GapsHaveACause
  <2>2. CASE ~(n <= page.last)
    <3>1. n \in Nat /\ n > page.last
      BY <1>3, <2>2
    <3>2. n \notin Stored
      BY <1>1, <1>4, <3>1
    <3>3. page'.last \in fresh
      BY <1>3, <1>4, <2>2
    <3>4. page'.last \in Stored /\ page'.last \in Nat /\ page'.last <= top
      BY <1>3, <3>3
    <3>5. n # page'.last
      BY <3>2, <3>4
    <3>6. n < top
      BY <1>4, <3>1, <3>4, <3>5
    <3>7. n \in Missed(top)
      BY <3>1, <3>2, <3>6 DEF Missed
    <3>8. QED
      BY <3>7
  <2>3. QED
    BY <2>1, <2>2
<1>5. GapsHaveACause'
  BY <1>4 DEF GapsHaveACause
<1>6. QED
  BY <1>2, <1>5

\* A replay: what it passes over, and what may still come on the wire.
LEMMA ReplayKeepsGaps ==
    ASSUME LogTypeOK, OrderInv, GapInv, Replay
    PROVE  GapInv'
<1>1. conn \in ConnectionStates /\ page \in PageStates /\ Stored \subseteq Numbers
  BY DEF LogTypeOK
<1>2. PICK fresh \in SUBSET Numbers : fresh = {n \in Stored : n > conn.max}
  BY <1>1
<1>3. page.pc = "open" /\ conn.max = page.last
  BY DEF OrderInv, LastIsCommon, Replay
<1>4. PICK top \in Labels : /\ top = Largest(fresh \cup {conn.max})
                            /\ \A n \in fresh \cup {conn.max} : n <= top
  <2>1. fresh \cup {conn.max} \in SUBSET Labels
    BY <1>1, LabelsAreFinite DEF ConnectionStates
  <2>2. QED
    BY <2>1, LargestIsALabel
<1>5. /\ page' = Show(fresh)
      /\ conn' = [conn EXCEPT !.pc = "check", !.max = top]
      /\ raced' = raced \cup Missed(top)
      /\ UNCHANGED <<rows, published, lost>>
  BY <1>2, <1>4 DEF Replay
<1>6. /\ conn'.pc = "check" /\ conn'.max = top /\ conn'.wire = conn.wire
      /\ conn'.subscribed = conn.subscribed
  BY <1>1, <1>5 DEF ConnectionStates
<1>7. /\ Range(page'.streamed) = Range(page.streamed) \cup fresh
      /\ page'.last \in fresh \cup {page.last}
      /\ page'.floor = page.floor /\ page'.loaded = page.loaded
  <2>1. \A n \in fresh : n > page.last
    BY <1>2, <1>3
  <2>2. QED
    BY <1>3, <1>5, <2>1, ShowAdds, ShowShows
<1>8. top \in Nat /\ conn.max \in Nat /\ published \subseteq Nat
  BY <1>1, LabelsAreFinite DEF ConnectionStates, LogTypeOK
<1>9. LastWasSent' /\ GapsHaveACause'
  <2>1. fresh = {n \in Stored : n > page.last}
    BY <1>2, <1>3
  <2>2. \A n \in fresh : n <= top
    BY <1>4
  <2>3. page.loaded \subseteq page'.loaded
    BY <1>7
  <2>4. QED
    BY <1>3, <1>5, <1>7, <1>8, <2>1, <2>2, <2>3, RowsLeaveRacedGaps
<1>10. WireInOrder'
  BY <1>5, <1>6 DEF GapInv, WireInOrder
<1>11. StillComing'
  <2>1. ASSUME NEW n \in published, n > top PROVE n \in Range(conn.wire) \cup raced'
    <3>1. n \notin Stored
      <4>1. SUFFICES ASSUME n \in Stored PROVE FALSE
        OBVIOUS
      <4>2. n \in Nat /\ conn.max <= top
        BY <1>4, <1>8
      <4>3. n > conn.max
        BY <1>8, <2>1, <4>2
      <4>4. n \in fresh
        BY <1>2, <4>1, <4>3
      <4>5. n <= top
        BY <1>4, <4>4
      <4>6. QED
        BY <1>8, <2>1, <4>2, <4>5
    <3>2. QED
      BY <1>4, <1>5, <1>8, <2>1, <3>1 DEF Missed
  <2>2. QED
    BY <1>5, <1>6, <2>1 DEF StillComing
<1>12. QED
  BY <1>9, <1>10, <1>11 DEF GapInv

\* A published line: what it passes over was given out again later, and is lost.
LEMMA PassKeepsGaps ==
    ASSUME LogTypeOK, OrderInv, GapInv, Pass
    PROVE  GapInv'
<1>1. /\ conn \in ConnectionStates /\ page \in PageStates /\ conn.wire \in Seq(Numbers)
      /\ conn.wire # <<>> /\ conn.pc \in {"check", "live"}
  BY DEF LogTypeOK, ConnectionStates, Pass
<1>2. page.pc = "open" /\ conn.max = page.last
  BY <1>1 DEF OrderInv, LastIsCommon
<1>3. PICK w \in Seq(Numbers) : w = conn.wire
  BY <1>1
<1>4. PICK v \in Seq(Numbers) : v = Tail(conn.wire)
  BY <1>1, HeadTailProperties
<1>5. PICK n \in Numbers : n = Head(conn.wire)
  BY <1>1, HeadTailProperties
<1>6. /\ Len(w) \in Nat \ {0} /\ DOMAIN w = 1..Len(w) /\ DOMAIN v = 1..(Len(w) - 1)
      /\ \A i \in 1..(Len(w) - 1) : v[i] = w[i + 1]
      /\ w[1] = n
  <2>1. Len(v) = Len(w) - 1 /\ \A i \in 1..Len(v) : v[i] = w[i + 1]
    BY <1>1, <1>3, <1>4, HeadTailProperties
  <2>2. Len(w) \in Nat /\ Len(w) # 0 /\ w[1] = n
    BY <1>1, <1>3, <1>5
  <2>3. DOMAIN w = 1..Len(w) /\ DOMAIN v = 1..Len(v)
    OBVIOUS
  <2>4. QED
    BY <2>1, <2>2, <2>3
<1>7. UNCHANGED <<rows, published, lost, raced>>
  BY DEF Pass
<1>8. /\ conn'.wire = v /\ conn'.pc = conn.pc /\ conn'.subscribed = conn.subscribed
      /\ n <= conn.max => conn'.max = conn.max /\ page' = page
      /\ ~(n <= conn.max) => conn'.max = n /\ page' = Show({n})
  <2>1. CASE n <= conn.max
    <3>1. conn' = [conn EXCEPT !.wire = v] /\ page' = page
      BY <1>4, <1>5, <2>1 DEF Pass
    <3>2. QED
      BY <1>1, <2>1, <3>1 DEF ConnectionStates
  <2>2. CASE ~(n <= conn.max)
    <3>1. conn' = [conn EXCEPT !.wire = v, !.max = n] /\ page' = Show({n})
      BY <1>4, <1>5, <2>2 DEF Pass
    <3>2. QED
      BY <1>1, <2>2, <3>1 DEF ConnectionStates
  <2>3. QED
    BY <2>1, <2>2
<1>9. /\ conn.subscribed /\ Range(w) \subseteq published
      /\ \A i, j \in DOMAIN w : i < j => w[i] < w[j] \/ w[j] \in lost
      /\ \A m \in published : m > conn.max => m \in Range(w) \cup lost \cup raced
  BY <1>1, <1>3 DEF GapInv, WireInOrder, StillComing
<1>10. Range(v) \subseteq Range(w) /\ Range(w) \subseteq Range(v) \cup {n} /\ n \in Range(w)
  <2>1. ASSUME NEW i \in DOMAIN v PROVE v[i] \in Range(w)
    <3>1. i + 1 \in DOMAIN w /\ v[i] = w[i + 1]
      BY <1>6
    <3>2. QED
      BY <3>1 DEF Range
  <2>2. ASSUME NEW i \in DOMAIN w, i # 1 PROVE w[i] \in Range(v)
    <3>1. i - 1 \in DOMAIN v /\ v[i - 1] = w[(i - 1) + 1] /\ (i - 1) + 1 = i
      BY <1>6, <2>2
    <3>2. QED
      BY <3>1 DEF Range
  <2>3. 1 \in DOMAIN w
    BY <1>6
  <2>4. QED
    BY <1>6, <2>1, <2>2, <2>3 DEF Range
<1>11. WireInOrder'
  <2>1. ASSUME NEW i \in DOMAIN v, NEW j \in DOMAIN v, i < j
        PROVE  v[i] < v[j] \/ v[j] \in lost
    <3>1. i + 1 \in DOMAIN w /\ j + 1 \in DOMAIN w /\ i + 1 < j + 1
      BY <1>6, <2>1
    <3>2. v[i] = w[i + 1] /\ v[j] = w[j + 1]
      BY <1>6
    <3>3. QED
      BY <1>9, <3>1, <3>2
  <2>2. QED
    BY <1>7, <1>8, <1>9, <1>10, <2>1 DEF WireInOrder
<1>12. /\ n \in Nat /\ conn.max \in Nat /\ published \subseteq Nat /\ page.last \in Nat
  BY <1>1, LabelsAreFinite DEF ConnectionStates, PageStates, LogTypeOK
<1>13. CASE n <= conn.max
  <2>1. LastWasSent' /\ GapsHaveACause'
    BY <1>7, <1>8, <1>13 DEF GapInv, LastWasSent, GapsHaveACause, Shown, Stored
  <2>2. ASSUME NEW m \in published, m > conn.max PROVE m \in Range(v) \cup lost \cup raced
    <3>1. m # n
      BY <1>12, <1>13, <2>2
    <3>2. QED
      BY <1>9, <1>10, <2>2, <3>1
  <2>3. StillComing'
    BY <1>7, <1>8, <1>13, <2>2 DEF StillComing
  <2>4. QED
    BY <1>11, <2>1, <2>3 DEF GapInv
<1>14. CASE ~(n <= conn.max)
  <2>1. n > page.last
    BY <1>2, <1>12, <1>14
  <2>2. /\ Range(page'.streamed) = Range(page.streamed) \cup {n}
        /\ page.last <= page'.last /\ page'.last \in {n} \cup {page.last}
        /\ page'.floor = page.floor /\ page'.loaded = page.loaded
        /\ n <= page'.last
    <3>1. Range(Show({n}).streamed) = Range(page.streamed) \cup {n}
          /\ page.last <= Show({n}).last /\ Show({n}).last \in {n} \cup {page.last}
          /\ \A m \in Range(Show({n}).streamed) : m <= Show({n}).last
      BY <1>2, <2>1, ShowAdds
    <3>2. QED
      BY <1>8, <1>14, <3>1, ShowShows, Zenon
  <2>3. page'.last = n
    BY <1>12, <2>1, <2>2
  <2>4. LastWasSent'
    BY <1>7, <1>9, <1>10, <2>3 DEF LastWasSent
  <2>5. ASSUME NEW m \in published, m > n PROVE m \in Range(v) \cup lost \cup raced
    <3>1. m # n /\ m > conn.max
      BY <1>12, <1>14, <2>5
    <3>2. QED
      BY <1>9, <1>10, <3>1
  <2>6. StillComing'
    BY <1>7, <1>8, <1>14, <2>5 DEF StillComing
  <2>7. Shown \cup {n} \subseteq Shown'
    BY <2>2 DEF Shown
  <2>11. \A m \in published : ~(m <= page.floor) <=> page.floor < m
    <3>1. page.floor \in Nat
      BY <1>1, LabelsAreFinite DEF PageStates
    <3>2. QED
      BY <1>12, <3>1
  <2>8. ASSUME NEW m \in published, page.floor < m, m <= n, m \notin Shown'
        PROVE  m \in raced \cup lost
    <3>1. m \notin Shown /\ m # n
      BY <2>7, <2>8
    <3>2. CASE m <= page.last
      BY <2>8, <2>11, <3>1, <3>2 DEF GapInv, GapsHaveACause
    <3>3. CASE ~(m <= page.last)
      <4>1. m > conn.max /\ m < n
        BY <1>2, <1>12, <2>8, <3>1, <3>3
      <4>2. CASE m \in Range(w)
        <5>1. PICK j \in DOMAIN w : m = w[j]
          BY <4>2 DEF Range
        <5>2. j # 1 /\ 1 \in DOMAIN w
          BY <1>6, <3>1, <5>1
        <5>3. 1 < j
          BY <1>6, <5>1, <5>2
        <5>4. n < m \/ m \in lost
          BY <1>6, <1>9, <5>1, <5>2, <5>3
        <5>5. QED
          BY <1>12, <4>1, <5>4
      <4>3. QED
        BY <1>9, <4>1, <4>2
    <3>4. QED
      BY <3>2, <3>3
  <2>9. GapsHaveACause'
    BY <1>7, <2>2, <2>3, <2>8, <2>11 DEF GapsHaveACause
  <2>10. QED
    BY <1>11, <2>4, <2>6, <2>9 DEF GapInv
<1>15. QED
  BY <1>13, <1>14

\* The last replay, of a deployment that is over.
LEMMA HistoryKeepsGaps ==
    ASSUME LogTypeOK, OrderInv, GapInv, History
    PROVE  GapInv'
<1>1. Stored \subseteq Numbers
  BY DEF LogTypeOK
<1>2. PICK fresh \in SUBSET Numbers : fresh = {n \in Stored : n > conn.max}
  BY <1>1
<1>3. page.pc = "open" /\ conn.max = page.last
  BY DEF OrderInv, LastIsCommon, History
<1>4. PICK top \in Nat : top = Largest(fresh) /\ \A n \in fresh : n <= top
  BY LabelsAreFinite, LargestIsALabel
<1>5. /\ page' = Ended(Show(fresh)) /\ conn' = Closed
      /\ raced' = raced \cup Missed(top)
      /\ UNCHANGED <<rows, published, lost>>
  BY <1>2, <1>4 DEF History
<1>6. fresh = {n \in Stored : n > page.last}
  BY <1>2, <1>3
<1>7. Show(fresh) \in PageStates
  BY ShowShows
<1>8. /\ Range(page'.streamed) = Range(page.streamed) \cup fresh
      /\ page'.last \in fresh \cup {page.last}
      /\ page'.floor = page.floor /\ page.loaded \subseteq page'.loaded
  BY <1>3, <1>5, <1>6, <1>7, EndedKeeps, ShowAdds, ShowShows
<1>9. LastWasSent' /\ GapsHaveACause'
  BY <1>3, <1>4, <1>5, <1>6, <1>8, RowsLeaveRacedGaps
<1>10. conn'.pc = "closed" /\ conn'.wire = <<>> /\ DOMAIN conn'.wire = {}
  BY <1>5 DEF Closed
<1>11. WireInOrder' /\ StillComing'
  BY <1>10 DEF WireInOrder, StillComing, Range
<1>12. QED
  BY <1>9, <1>11 DEF GapInv

\* Every step leaves gaps with a cause only.
LEMMA NextGaps ==
    ASSUME LogTypeOK, OrderInv, NumbersInTurn, GapInv, [Next]_vars
    PROVE  GapInv'
<1>1. Stored \subseteq Stored'
  BY RowsStayForever DEF RowsStay
<1>2. conn \in ConnectionStates /\ page \in PageStates
  BY DEF LogTypeOK
<1>3. /\ conn.wire # <<>> => conn.subscribed
      /\ Range(conn.wire) \subseteq published
      /\ \A i, j \in DOMAIN conn.wire : i < j => conn.wire[i] < conn.wire[j] \/ conn.wire[j] \in lost
  BY DEF GapInv, WireInOrder
<1>4. CASE Cancel \/ InitDeployment \/ Finish \/ LastFlush \/ Abort \/ OtherLines \/ Crash \/ UNCHANGED vars
  <2>1. UNCHANGED <<conn, page, published, raced>> /\ lost \subseteq lost'
    BY <1>4, Zenon DEF Cancel, InitDeployment, Finish, LastFlush, Abort, OtherLines, Crash, vars
  <2>2. QED
    BY <1>1, <2>1, OthersKeepGaps
<1>5. ASSUME NEW batch, Store(batch) \/ StoreFails(batch)
      PROVE  GapInv'
  <2>1. UNCHANGED <<conn, page, published, raced>> /\ lost \subseteq lost'
    BY <1>5 DEF Store, StoreFails
  <2>2. QED
    BY <1>1, <2>1, OthersKeepGaps
<1>6. CASE Load \/ LoadFails
  <2>1. page.pc = "loading" /\ UNCHANGED <<rows, conn, published, lost, raced>>
    BY <1>6 DEF Load, LoadFails
  <2>2. conn.pc = "closed"
    BY <2>1 DEF OrderInv, LastIsCommon
  <2>3. WireInOrder' /\ StillComing'
    BY <1>3, <2>1, <2>2 DEF WireInOrder, StillComing
  <2>4. LastWasSent' /\ GapsHaveACause'
    <3>1. CASE Load
      <4>1. PICK top \in Nat : top = Largest(Range(rows))
        <5>1. Range(rows) \in SUBSET Labels
          BY LabelsAreFinite DEF LogTypeOK
        <5>2. QED
          BY <5>1, LabelsAreFinite, LargestIsALabel
      <4>2. page'.last = top /\ page'.floor = top
        BY <1>2, <3>1, <4>1 DEF Load, PageStates
      <4>3. published' \subseteq Nat
        BY <2>1, LabelsAreFinite DEF LogTypeOK
      <4>4. \A n \in published' : n <= page'.last => n <= page'.floor
        BY <4>2
      <4>5. QED
        BY <4>2, <4>4 DEF LastWasSent, GapsHaveACause
    <3>2. CASE LoadFails
      <4>1. /\ page'.last = page.last /\ page'.floor = page.floor
            /\ page'.streamed = page.streamed /\ page'.loaded = page.loaded
        BY <1>2, <3>2 DEF LoadFails, PageStates
      <4>2. QED
        BY <2>1, <4>1 DEF GapInv, LastWasSent, GapsHaveACause, Shown, Stored
    <3>3. QED
      BY <1>6, <3>1, <3>2
  <2>5. QED
    BY <2>3, <2>4 DEF GapInv
<1>7. CASE Connect \/ Subscribe \/ SubscribeFails \/ Break
  <2>1. UNCHANGED <<rows, page, published, lost, raced>>
    BY <1>7 DEF Connect, Subscribe, SubscribeFails, Break
  <2>2. LastWasSent' /\ GapsHaveACause'
    BY <2>1 DEF GapInv, LastWasSent, GapsHaveACause, Shown, Stored
  <2>3. /\ conn'.pc \notin {"check", "live"}
        /\ conn'.wire = conn.wire \/ conn'.wire = <<>>
        /\ conn'.wire # <<>> => conn'.subscribed
    <3>1. CASE Connect
      <4>1. PICK p \in {"history", "subscribe"} : conn' = [conn EXCEPT !.pc = p, !.max = page.last]
        BY <3>1 DEF Connect
      <4>2. QED
        BY <1>2, <1>3, <4>1 DEF ConnectionStates
    <3>2. CASE Subscribe \/ SubscribeFails
      BY <1>2, <1>3, <3>2 DEF Subscribe, SubscribeFails, ConnectionStates
    <3>3. CASE Break
      BY <3>3 DEF Break, Closed
    <3>4. QED
      BY <1>7, <3>1, <3>2, <3>3
  <2>4. WireInOrder'
    <3>1. CASE conn'.wire = conn.wire
      BY <1>3, <2>1, <2>3, <3>1 DEF WireInOrder
    <3>2. CASE conn'.wire = <<>>
      <4>1. DOMAIN conn'.wire = {}
        BY <3>2
      <4>2. QED
        BY <3>2, <4>1 DEF WireInOrder, Range
    <3>3. QED
      BY <2>3, <3>1, <3>2
  <2>5. StillComing'
    BY <2>3 DEF StillComing
  <2>6. QED
    BY <2>2, <2>4, <2>5 DEF GapInv
<1>8. CASE Check
  <2>1. UNCHANGED <<rows, published, lost, raced>>
    BY <1>8 DEF Check
  <2>2. page' \in {page, Ended(page)}
    BY <1>8 DEF Check
  <2>3. /\ page'.last = page.last /\ page'.floor = page.floor
        /\ page'.streamed = page.streamed /\ page.loaded \subseteq page'.loaded
    BY <1>2, <2>2, EndedKeeps
  <2>4. LastWasSent' /\ GapsHaveACause'
    BY <2>1, <2>3 DEF GapInv, LastWasSent, GapsHaveACause, Shown, Stored
  <2>5. WireInOrder' /\ StillComing'
    <3>1. CASE over
      <4>1. conn'.pc = "closed" /\ conn'.wire = <<>> /\ DOMAIN conn'.wire = {}
        BY <1>8, <3>1 DEF Check, Closed
      <4>2. QED
        BY <4>1 DEF WireInOrder, StillComing, Range
    <3>2. CASE ~over
      <4>1. conn' = [conn EXCEPT !.pc = "live"] /\ conn.pc = "check"
        BY <1>8, <3>2 DEF Check
      <4>2. /\ conn'.wire = conn.wire /\ conn'.subscribed = conn.subscribed /\ conn'.max = conn.max
        BY <1>2, <4>1 DEF ConnectionStates
      <4>3. QED
        BY <1>3, <2>1, <4>1, <4>2 DEF GapInv, WireInOrder, StillComing
    <3>3. QED
      BY <3>1, <3>2
  <2>6. QED
    BY <2>4, <2>5 DEF GapInv
<1>9. QED
  BY <1>4, <1>5, <1>6, <1>7, <1>8, LogKeepsGaps, ReplayKeepsGaps, PassKeepsGaps, HistoryKeepsGaps
     DEF Next, WorkerStep, PageStep

-------------------------------------------------------------------------------
(***************************************************************************)
(* The theorems.                                                           *)
(***************************************************************************)

\* The parts of the invariant, each of which needs those before it.
LogInv == LogTypeOK /\ KeepInv /\ OrderInv /\ NumbersInTurn /\ GapInv

LEMMA LogInvariance == Spec => []LogInv
<1>1. Init => LogInv
  BY InitLogTypes, InitKeepInv, InitOrder, InitTurn, InitGaps DEF LogInv
<1>2. LogInv /\ [Next]_vars => LogInv'
  BY NextLogTypes, NextKeepInv, NextOrder, NextTurn, NextGaps DEF LogInv
<1>3. QED
  BY <1>1, <1>2, PTL DEF Spec

\* The variables have their types; the ids of the rows stay in their range, whoever
\* stores them and however often a number is stored.
THEOREM LogTypeCorrectness == Spec => []LogTypeOK
<1>1. LogInv => LogTypeOK
  BY DEF LogInv
<1>2. QED
  BY <1>1, LogInvariance, PTL

\* However flushes overlap with logging and with each other, and whatever size they
\* have, a number that was given out is stored, on its way, or accounted for.
THEOREM FlushesKeepLines == Spec => []LinesAreKept
<1>1. LogInv => LinesAreKept
  BY DEF LogInv, KeepInv
<1>2. QED
  BY <1>1, LogInvariance, PTL

\* Through any number of connections, and however the replayed rows and the published
\* lines overlap, the page gets each number once, and after all smaller ones.
THEOREM StreamKeepsOrder == Spec => []StreamInOrder
<1>1. LogInv => StreamInOrder
  BY DEF LogInv, OrderInv
<1>2. QED
  BY <1>1, LogInvariance, PTL

\* A number that was given out and that the page has passed is shown, unless the line
\* was published and not yet stored at a replay (before the subscription, or behind a
\* larger number), the page took a row id that large for a number, or a line of the
\* number was lost.  Breaks and failing subscriptions cost nothing else.
THEOREM PageSkipsForAReason == Spec => []GapsHaveACause
<1>1. LogInv => GapsHaveACause
  BY DEF LogInv, GapInv
<1>2. QED
  BY <1>1, LogInvariance, PTL

===============================================================================
