--------------------------- MODULE RequestsProofs ----------------------------
(***************************************************************************)
(* What every module of requests needs of Requests: how a step of one      *)
(* handler leaves the others alone, that requests which met have met for   *)
(* good, what the writes to a table leave of its rows, and what is on the  *)
(* pages of a list.                                                        *)
(***************************************************************************)
EXTENDS Requests, Pagination, FiniteSetTheorems, SequenceTheorems, TLAPS

\* The handler of r, and only that, makes a step or fails.
Moves(r) ==
  /\ plan' = plan
  /\ pc[r] \notin Ends /\ pc'[r] # "idle"
  /\ pc' = [pc EXCEPT ![r] = pc'[r]]
  /\ got' = [got EXCEPT ![r] = got'[r]]
  /\ past' = IF pc[r] = "idle"
               THEN [past EXCEPT ![r] = {q \in Req : Ended(q)}] ELSE past

\* What had ended when a request arrived has ended, and so has what that one
\* found ended; before it arrives there is nothing.
RequestInv ==
  /\ DOMAIN pc = Req /\ pc = [r \in Req |-> pc[r]]
  /\ DOMAIN got = Req /\ got = [r \in Req |-> got[r]]
  /\ past \in [Req -> SUBSET Req]
  /\ \A r \in Req : \A q \in past[r] : Ended(q) /\ past[q] \subseteq past[r]
  /\ \A r \in Req : pc[r] = "idle" => past[r] = {} /\ got[r] = None

-----------------------------------------------------------------------------

LEMMA RequestsStart == RequestsInit => RequestInv
BY DEF RequestsInit, RequestInv

LEMMA StepMoves ==
  ASSUME RequestInv, NEW r \in Req, NEW from, NEW to, NEW v,
         Step(r, from, to, v), from \notin Ends, to # "idle"
  PROVE  Moves(r) /\ pc[r] = from /\ pc'[r] = to /\ got'[r] = v
BY DEF RequestInv, Step, Moves

LEMMA AbortMoves ==
  ASSUME RequestInv, NEW r \in Req, Abort(r)
  PROVE  Moves(r) /\ pc[r] # "idle" /\ pc'[r] = "failed" /\ got'[r] = None
BY DEF RequestInv, Abort, Moves, Running, Ends

\* Another request is where it was ...
LEMMA OthersStay ==
  ASSUME RequestInv, NEW r \in Req, Moves(r), NEW q \in Req, q # r
  PROVE  pc'[q] = pc[q] /\ got'[q] = got[q] /\ past'[q] = past[q]
BY DEF RequestInv, Moves

\* ... and so is one that has ended.
LEMMA EndedStays ==
  ASSUME RequestInv, NEW r \in Req, Moves(r), NEW q \in Req, Ended(q)
  PROVE  /\ q # r
         /\ pc'[q] = pc[q] /\ got'[q] = got[q] /\ past'[q] = past[q]
<1>1. q # r
  BY DEF Moves, Ended
<1>2. QED
  BY <1>1, OthersStay

\* A request that has arrived keeps its past.
LEMMA PastStays ==
  ASSUME RequestInv, NEW r \in Req, Moves(r), NEW q \in Req, pc[q] # "idle"
  PROVE  past'[q] = past[q] /\ pc'[q] # "idle"
BY DEF RequestInv, Moves

LEMMA MovesKeeps ==
  ASSUME RequestInv, NEW r \in Req, Moves(r)
  PROVE  RequestInv'
<1>1. /\ Req' = Req
      /\ DOMAIN pc' = Req /\ pc' = [q \in Req |-> pc'[q]]
      /\ DOMAIN got' = Req /\ got' = [q \in Req |-> got'[q]]
      /\ past' \in [Req -> SUBSET Req]
  BY DEF RequestInv, Moves, Req
<1>2. ASSUME NEW q \in Req, NEW p \in past'[q]
      PROVE  Ended(p)' /\ past'[p] \subseteq past'[q]
  <2>1. p \in Req /\ Ended(p)
    BY <1>2 DEF RequestInv, Moves
  <2>2. Ended(p)' /\ past'[p] = past[p]
    BY <2>1, EndedStays DEF Ended
  <2>3. past[p] \subseteq past'[q]
    BY <1>2, <2>1 DEF RequestInv, Moves
  <2>4. QED
    BY <2>2, <2>3
<1>3. ASSUME NEW q \in Req, pc'[q] = "idle"
      PROVE  past'[q] = {} /\ got'[q] = None
  BY <1>3, OthersStay DEF RequestInv, Moves
<1>4. QED
  BY <1>1, <1>2, <1>3 DEF RequestInv

LEMMA MetStays ==
  ASSUME RequestInv, NEW r \in Req, Moves(r),
         NEW p \in Req, NEW q \in Req, Met(p, q)
  PROVE  Met(p, q)'
BY PastStays DEF Met

\* Two requests have met when both have arrived and one still runs that the
\* other's arrival did not follow.
LEMMA RunningMeet ==
  ASSUME RequestInv, NEW p \in Req, NEW q \in Req, p # q,
         pc[p] # "idle", pc[q] # "idle", ~Ended(p), q \notin past[p]
  PROVE  Met(p, q) /\ Met(q, p)
BY DEF RequestInv, Met

-----------------------------------------------------------------------------

LEMMA WriteRows ==
  ASSUME NEW R, NEW table \in Seq(R), NEW S, NEW f, NEW v
  PROVE  /\ DOMAIN Write(table, S, f, v) = DOMAIN table
         /\ \A i \in DOMAIN table :
              Write(table, S, f, v)[i] =
                IF i \in S THEN [table[i] EXCEPT ![f] = v] ELSE table[i]
         /\ Len(table) \in Nat /\ DOMAIN table = 1 .. Len(table)
BY DEF Write

LEMMA FunctionIsSeq ==
  ASSUME NEW R, NEW n \in Nat, NEW g, g = [i \in 1 .. n |-> g[i]],
         \A i \in 1 .. n : g[i] \in R
  PROVE  g \in Seq(R) /\ Len(g) = n
BY SMT

\* A write that leaves each row a row leaves a table.
LEMMA WriteType ==
  ASSUME NEW R, NEW table \in Seq(R), NEW S, NEW f, NEW v,
         \A i \in DOMAIN table : [table[i] EXCEPT ![f] = v] \in R
  PROVE  /\ Write(table, S, f, v) \in Seq(R)
         /\ Len(Write(table, S, f, v)) = Len(table)
<1>1. /\ Len(table) \in Nat /\ DOMAIN table = 1 .. Len(table)
      /\ \A i \in 1 .. Len(table) : table[i] \in R
  OBVIOUS
<1>2. Write(table, S, f, v)
        = [i \in 1 .. Len(table) |-> Write(table, S, f, v)[i]]
  BY <1>1 DEF Write
<1>3. \A i \in 1 .. Len(table) : Write(table, S, f, v)[i] \in R
  BY <1>1 DEF Write
<1>4. QED
  BY <1>1, <1>2, <1>3, FunctionIsSeq

-----------------------------------------------------------------------------

\* A set of numbers has a least one: of the intervals up to them, one holds no
\* other.
LEMMA Least ==
  ASSUME NEW T, T \subseteq Nat, T # {}
  PROVE  Min(T) \in T /\ \A k \in T : Min(T) <= k
<1> DEFINE Upto == {0 .. n : n \in T}
<1>1. IsWellFoundedOn(StrictSubsetOrdering(Nat), FiniteSubsetsOf(Nat))
  BY FS_StrictSubsetOrderingWellFounded
<1>2. Upto \subseteq FiniteSubsetsOf(Nat)
  <2>1. ASSUME NEW n \in T PROVE 0 .. n \in FiniteSubsetsOf(Nat)
    <3>1. IsFiniteSet(0 .. n) /\ 0 .. n \subseteq Nat
      BY FS_Interval
    <3>2. QED
      BY <3>1 DEF FiniteSubsetsOf
  <2>2. QED
    BY <2>1
<1>3. Upto # {}
  OBVIOUS
<1>4. PICK M \in Upto : \A K \in Upto : ~(<<K, M>> \in StrictSubsetOrdering(Nat))
  <2> HIDE DEF Upto
  <2>1. QED
    BY <1>1, <1>2, <1>3, WFMin
<1>5. PICK m \in T : M = 0 .. m
  OBVIOUS
<1>6. ASSUME NEW k \in T, k < m PROVE FALSE
  <2>1. /\ 0 .. k \subseteq 0 .. m /\ m \notin 0 .. k /\ m \in 0 .. m
        /\ 0 .. k \in Upto /\ 0 .. k \in SUBSET Nat /\ 0 .. m \in SUBSET Nat
    BY <1>6
  <2>2. <<0 .. k, 0 .. m>> \in StrictSubsetOrdering(Nat)
    BY <2>1 DEF StrictSubsetOrdering
  <2>3. QED
    BY <2>1, <2>2, <1>4, <1>5
<1>7. m \in T /\ \A k \in T : m <= k
  BY <1>6
<1>8. QED
  BY <1>7 DEF Min

-----------------------------------------------------------------------------
(* The pages of a list.                                                    *)

LEMMA MinOfTwo ==
  ASSUME NEW a \in Nat, NEW b \in Nat
  PROVE  Min({a, b}) = IF a <= b THEN a ELSE b
BY DEF Min

LEMMA PrefixRows ==
  ASSUME NEW R, NEW s \in Seq(R), NEW m \in Nat, m <= Len(s),
         NEW p, p = SubSeq(s, 1, m)
  PROVE  p \in Seq(R) /\ Len(p) = m /\ \A i \in 1 .. m : p[i] = s[i]
<1>1. \A i \in 1 .. m : s[i] \in R
  OBVIOUS
<1>2. QED
  BY <1>1, SubSeqProperties

LEMMA WindowRows ==
  ASSUME NEW R, NEW s \in Seq(R), NEW n \in Nat
  PROVE  /\ Window(s, 0, n) \in Seq(R)
         /\ Len(Window(s, 0, n)) = IF n <= Len(s) THEN n ELSE Len(s)
         /\ \A i \in 1 .. Len(Window(s, 0, n)) : Window(s, 0, n)[i] = s[i]
<1>1. PICK m : m = IF n <= Len(s) THEN n ELSE Len(s)
  OBVIOUS
<1>2. m \in Nat /\ m <= Len(s)
  BY <1>1
<1>3. PICK p : p = SubSeq(s, 1, m)
  OBVIOUS
<1>4. p \in Seq(R) /\ Len(p) = m /\ \A i \in 1 .. m : p[i] = s[i]
  BY <1>2, <1>3, PrefixRows
<1>5. Window(s, 0, n) = p
  BY <1>1, <1>3, MinOfTwo DEF Window
<1>6. QED
  BY <1>1, <1>4, <1>5

\* Each row below the one before it.
Falling(s) == \A i, k \in DOMAIN s : i < k => s[i] > s[k]

LEMMA DescendingRows ==
  ASSUME NEW ids, ids \subseteq Nat, IsFiniteSet(ids)
  PROVE  /\ Descending(ids) \in Seq(ids) /\ Falling(Descending(ids))
         /\ ToSet(Descending(ids)) = ids
         /\ Len(Descending(ids)) = Cardinality(ids)
<1> DEFINE above(i) == {j \in ids : j >= i}
           rank == [i \in ids |-> Cardinality(above(i))]
           row(k) == CHOOSE i \in ids : Cardinality(above(i)) = k
<1>1. PICK n \in Nat : n = Cardinality(ids)
  BY FS_CardinalityType
<1>2. ASSUME NEW i \in ids
      PROVE  IsFiniteSet(above(i)) /\ Cardinality(above(i)) \in 1 .. n
  <2>1. above(i) \in SUBSET ids /\ above(i) # {}
    OBVIOUS
  <2>2. PICK A : A = above(i)
    OBVIOUS
  <2>3. IsFiniteSet(A) /\ Cardinality(A) <= n /\ Cardinality(A) \in Nat
    BY <1>1, <2>1, <2>2, FS_Subset, FS_CardinalityType
  <2>4. Cardinality(A) # 0
    BY <2>1, <2>2, <2>3, FS_EmptySet
  <2>5. QED
    BY <2>2, <2>3, <2>4
<1>3. ASSUME NEW i \in ids, NEW k \in ids, i < k
      PROVE  Cardinality(above(k)) < Cardinality(above(i))
  <2>1. PICK A, B : A = above(i) /\ B = above(k)
    OBVIOUS
  <2>2. B \in SUBSET A /\ A # B
    <3>1. i \in A /\ i \notin B
      BY <1>3, <2>1
    <3>2. \A j \in ids : j >= k => j >= i
      BY <1>3
    <3>3. QED
      BY <2>1, <3>1, <3>2
  <2>3. IsFiniteSet(A) /\ Cardinality(A) \in Nat /\ Cardinality(B) \in Nat
    BY <1>2, <2>1
  <2>4. Cardinality(B) <= Cardinality(A) /\ Cardinality(A) # Cardinality(B)
    BY <2>2, <2>3, FS_Subset
  <2>5. QED
    BY <2>1, <2>3, <2>4
<1>4. rank \in Injection(ids, 1 .. n)
  <2>1. rank \in [ids -> 1 .. n]
    BY <1>2
  <2>2. ASSUME NEW i \in ids, NEW k \in ids, rank[i] = rank[k] PROVE i = k
    <3>1. i \in Nat /\ k \in Nat /\ rank[i] \in Nat
      BY <2>1
    <3>2. ~(i < k) /\ ~(k < i)
      BY <1>3, <2>1, <2>2
    <3>3. QED
      BY <3>1, <3>2
  <2>3. QED
    BY <2>1, <2>2 DEF Injection, IsInjective
<1>5. IsFiniteSet(1 .. n) /\ Cardinality(1 .. n) = n
  <2>1. 1 \in Int /\ n \in Int
    OBVIOUS
  <2>2. /\ IsFiniteSet(1 .. n)
        /\ Cardinality(1 .. n) = IF 1 > n THEN 0 ELSE n - 1 + 1
    BY <2>1, FS_Interval
  <2>3. QED
    BY <2>2
<1>6. rank \in Surjection(ids, 1 .. n)
  <2> HIDE DEF rank
  <2>1. QED
    BY <1>1, <1>4, <1>5, FS_Injection
<1>7. \A k \in 1 .. n : \E i \in ids : Cardinality(above(i)) = k
  BY <1>6 DEF Surjection
<1>8. PICK s : s = Descending(ids)
  OBVIOUS
<1>9. s = [k \in 1 .. n |-> row(k)]
  BY <1>1, <1>8 DEF Descending
<1>10. \A k \in 1 .. n : s[k] \in ids /\ Cardinality(above(s[k])) = k
  <2> HIDE DEF above
  <2>1. QED
    BY <1>7, <1>9
<1>11. s \in Seq(ids) /\ Len(s) = n
  <2> HIDE DEF row
  <2>1. s = [k \in 1 .. n |-> s[k]]
    BY <1>9
  <2>2. QED
    BY <1>10, <2>1, FunctionIsSeq
<1>12. Falling(s)
  <2>1. ASSUME NEW i \in 1 .. n, NEW k \in 1 .. n, i < k PROVE s[i] > s[k]
    <3>1. PICK a \in ids, b \in ids : a = s[i] /\ b = s[k]
      BY <1>10
    <3>2. Cardinality(above(a)) = i /\ Cardinality(above(b)) = k
      BY <1>10, <3>1
    <3>3. ~(a < b) /\ a # b /\ a \in Nat /\ b \in Nat
      BY <1>3, <2>1, <3>2
    <3>4. QED
      BY <3>1, <3>3
  <2>2. DOMAIN s = 1 .. n
    BY <1>9
  <2>3. QED
    BY <2>1, <2>2 DEF Falling
<1>13. ToSet(s) = ids
  <2>1. ASSUME NEW i \in ids PROVE \E k \in 1 .. n : s[k] = i
    <3>1. PICK k : k = Cardinality(above(i))
      OBVIOUS
    <3>2. k \in 1 .. n
      BY <1>2, <3>1
    <3>3. PICK a \in ids : a = s[k]
      BY <1>10, <3>2
    <3>4. Cardinality(above(a)) = k
      BY <1>10, <3>2, <3>3
    <3>5. ~(a < i) /\ ~(i < a) /\ a \in Nat /\ i \in Nat
      BY <1>3, <3>1, <3>2, <3>4
    <3>6. QED
      BY <3>2, <3>3, <3>5
  <2>2. DOMAIN s = 1 .. n
    BY <1>9
  <2>3. QED
    BY <1>10, <2>1, <2>2 DEF ToSet
<1>14. QED
  BY <1>1, <1>8, <1>11, <1>12, <1>13

\* A page holds the ids below the cursor from the highest down; what it does
\* not hold lies below the next cursor.
LEMMA CursorPageRows ==
  ASSUME NEW ids, ids \subseteq Nat \ {0}, IsFiniteSet(ids),
         NEW cursor \in Nat, NEW size \in Nat \ {0},
         NEW page, page = CursorPage(ids, cursor, size)
  PROVE  /\ page.contents \in Seq({i \in ids : cursor = 0 \/ i < cursor})
         /\ Falling(page.contents)
         /\ page.hasNext \in BOOLEAN
         /\ ~page.hasNext =>
              /\ page.nextCursor = 0
              /\ \A i \in ids : cursor = 0 \/ i < cursor => i \in ToSet(page.contents)
         /\ page.hasNext =>
              /\ page.nextCursor \in ToSet(page.contents)
              /\ \A k \in ToSet(page.contents) : page.nextCursor <= k
              /\ \A i \in ids : cursor = 0 \/ i < cursor
                   => i \in ToSet(page.contents) \/ i < page.nextCursor
<1> DEFINE below == {i \in ids : cursor = 0 \/ i < cursor}
<1>1. PICK B : B = below
  OBVIOUS
<1>2. B \subseteq Nat \ {0} /\ IsFiniteSet(B)
  <2>1. B \in SUBSET ids
    BY <1>1
  <2>2. QED
    BY <2>1, FS_Subset
<1>3. PICK rows : rows = Descending(B)
  OBVIOUS
<1>4. rows \in Seq(B) /\ Falling(rows) /\ ToSet(rows) = B
  BY <1>2, <1>3, DescendingRows
<1>5. PICK w : w = Window(rows, 0, size + 1)
  OBVIOUS
<1>6. /\ w \in Seq(B)
      /\ Len(w) = IF size + 1 <= Len(rows) THEN size + 1 ELSE Len(rows)
      /\ \A i \in 1 .. Len(w) : w[i] = rows[i]
  BY <1>4, <1>5, WindowRows
<1>7. page = FromData(w, size)
  BY <1>1, <1>3, <1>5 DEF CursorPage
<1>a. PICK z : z = IF size <= Len(w) THEN size ELSE Len(w)
  OBVIOUS
<1>b. z \in Nat /\ z <= Len(w) /\ z = Min({size, Len(w)})
  BY <1>6, <1>a, MinOfTwo
<1>8. PICK c : c = SubSeq(w, 1, z)
  OBVIOUS
<1>9. /\ c \in Seq(B) /\ Len(c) = IF size <= Len(w) THEN size ELSE Len(w)
      /\ \A i \in 1 .. Len(c) : c[i] = w[i]
  <2>1. c \in Seq(B) /\ Len(c) = z /\ \A i \in 1 .. z : c[i] = w[i]
    <3>1. w \in Seq(B) /\ z \in Nat /\ z <= Len(w)
      BY <1>6, <1>b
    <3>2. QED
      BY <1>8, <3>1, PrefixRows
  <2>2. QED
    BY <1>a, <2>1
<1>10. ASSUME NEW s \in Seq(B), Len(s) <= Len(rows),
              \A i \in 1 .. Len(s) : s[i] = rows[i]
       PROVE  Falling(s) /\ ToSet(s) \subseteq B
  <2>1. DOMAIN s = 1 .. Len(s) /\ DOMAIN rows = 1 .. Len(rows) /\ Len(s) \in Nat
        /\ Len(rows) \in Nat
    BY <1>4, <1>10
  <2>2. Falling(s)
    BY <1>4, <1>10, <2>1 DEF Falling
  <2>3. QED
    BY <1>10, <2>1, <2>2 DEF ToSet
<1>11. CASE Len(w) <= size
  <2>1. /\ page.contents = w /\ page.hasNext = FALSE /\ page.nextCursor = 0
    BY <1>7, <1>11 DEF FromData
  <2>2. Len(w) = Len(rows) /\ DOMAIN w = DOMAIN rows
    BY <1>4, <1>6, <1>11
  <2>3. /\ Len(w) <= Len(rows) /\ DOMAIN w = 1 .. Len(w)
        /\ \A i \in DOMAIN w : w[i] = rows[i]
    <3>1. Len(w) \in Nat /\ DOMAIN w = 1 .. Len(w)
      BY <1>6
    <3>2. QED
      <4>1. \A i \in DOMAIN w : w[i] = rows[i]
        BY <1>6, <3>1, Zenon
      <4>2. QED
        BY <2>2, <3>1, <4>1
  <2>4. Falling(w)
    BY <1>6, <1>10, <2>3
  <2>5. ToSet(w) = B
    BY <1>4, <2>2, <2>3 DEF ToSet
  <2>6. QED
    BY <1>1, <1>6, <2>1, <2>4, <2>5
<1>12. CASE Len(w) > size
  <2>1. /\ page.contents = c /\ page.hasNext = TRUE
        /\ page.nextCursor = c[Len(c)]
    <3>1. ~(Len(w) <= size)
      BY <1>6, <1>12
    <3>2. page = [contents |-> c, hasNext |-> TRUE, nextCursor |-> c[Len(c)]]
      BY <1>7, <1>b, <1>8, <3>1, Zenon DEF FromData
    <3>3. QED
      BY <3>2
  <2>2. /\ Len(c) = size /\ Len(c) <= Len(rows) /\ Len(w) \in Nat /\ Len(rows) \in Nat
        /\ \A i \in 1 .. Len(c) : c[i] = rows[i]
        /\ DOMAIN c = 1 .. Len(c) /\ DOMAIN rows = 1 .. Len(rows)
    BY <1>4, <1>6, <1>9, <1>12
  <2>3. Falling(c) /\ ToSet(c) \subseteq B
    BY <1>9, <1>10, <2>2
  <2>4. PICK last \in B : last = c[size]
    BY <1>9, <2>2
  <2>5. last \in ToSet(c)
    BY <2>2, <2>4 DEF ToSet
  <2>6. ASSUME NEW k \in ToSet(c) PROVE last <= k
    <3>1. PICK i \in 1 .. size : k = c[i]
      BY <2>2, <2>6 DEF ToSet
    <3>2. i < size => c[i] > c[size]
      BY <2>2, <2>3, <3>1 DEF Falling
    <3>3. k \in Nat /\ last \in Nat
      BY <1>2, <2>3, <2>4, <2>6
    <3>4. QED
      BY <2>4, <3>1, <3>2, <3>3
  <2>7. ASSUME NEW i \in B, i \notin ToSet(c) PROVE i < last
    <3>1. PICK k \in 1 .. Len(rows) : rows[k] = i
      BY <1>4, <2>2 DEF ToSet
    <3>2. k > size
      <4>1. SUFFICES ASSUME k <= size PROVE FALSE
        BY <3>1
      <4>2. k \in 1 .. Len(c) /\ c[k] = i
        BY <2>2, <3>1, <4>1
      <4>3. QED
        BY <2>2, <2>7, <4>2 DEF ToSet
    <3>3. rows[size] > rows[k] /\ rows[size] = last
      BY <1>4, <2>2, <2>4, <3>1, <3>2 DEF Falling
    <3>4. QED
      BY <1>2, <2>4, <3>1, <3>3
  <2>8. QED
    BY <1>1, <1>9, <2>1, <2>2, <2>3, <2>4, <2>5, <2>6, <2>7
<1>13. QED
  BY <1>6, <1>11, <1>12

\* Rows that fall repeat none.
LEMMA FallingOnce ==
  ASSUME NEW s \in Seq(Nat), Falling(s)
  PROVE  NoRepeats(s)
<1>1. PICK n \in Nat : n = Len(s)
  OBVIOUS
<1>2. DOMAIN s = 1 .. n /\ s = [i \in 1 .. n |-> s[i]]
  BY <1>1
<1>3. s \in Surjection(1 .. n, ToSet(s))
  BY <1>2 DEF Surjection, ToSet
<1>4. s \in Injection(1 .. n, ToSet(s))
  <2>1. ASSUME NEW i \in 1 .. n, NEW k \in 1 .. n, s[i] = s[k] PROVE i = k
    <3>1. s[i] \in Nat /\ s[k] \in Nat
      BY <1>1
    <3>2. QED
      <4>1. ~(i < k) /\ ~(k < i)
        BY <1>2, <2>1, <3>1 DEF Falling
      <4>2. QED
        BY <4>1
  <2>2. QED
    BY <1>3, <2>1 DEF Injection, IsInjective, Surjection
<1>5. IsFiniteSet(1 .. n) /\ Cardinality(1 .. n) = n
  <2>1. 1 \in Int /\ n \in Int
    OBVIOUS
  <2>2. /\ IsFiniteSet(1 .. n)
        /\ Cardinality(1 .. n) = IF 1 > n THEN 0 ELSE n - 1 + 1
    BY <2>1, FS_Interval
  <2>3. QED
    BY <2>2
<1>6. Cardinality(ToSet(s)) = n
  BY <1>3, <1>4, <1>5, FS_Surjection
<1>7. QED
  BY <1>1, <1>6 DEF NoRepeats

\* A page that lies below what a client has collected goes on with it.
LEMMA FallingOn ==
  ASSUME NEW s \in Seq(Nat), NEW t \in Seq(Nat), Falling(s), Falling(t),
         \A a \in ToSet(s), b \in ToSet(t) : a > b
  PROVE  /\ s \o t \in Seq(Nat) /\ Falling(s \o t)
         /\ ToSet(s \o t) = ToSet(s) \cup ToSet(t)
<1>1. PICK m \in Nat, n \in Nat : m = Len(s) /\ n = Len(t)
  OBVIOUS
<1>2. DOMAIN s = 1 .. m /\ DOMAIN t = 1 .. n
  BY <1>1
<1>3. PICK u \in Seq(Nat) : u = s \o t
  <2>1. s \o t \in Seq(Nat)
    BY ConcatProperties
  <2>2. QED
    BY <2>1
<1>4. /\ DOMAIN u = 1 .. m + n /\ \A i \in 1 .. m : u[i] = s[i]
      /\ \A i \in m + 1 .. m + n : u[i] = t[i - m]
  BY <1>1, <1>3
<1>5. ASSUME NEW i \in 1 .. m + n, NEW k \in 1 .. m + n, i < k PROVE u[i] > u[k]
  <2>1. CASE k <= m
    <3>1. i \in 1 .. m /\ k \in 1 .. m
      BY <1>5, <2>1
    <3>2. s[i] > s[k]
      BY <1>2, <1>5, <3>1 DEF Falling
    <3>3. u[i] = s[i] /\ u[k] = s[k]
      BY <1>4, <3>1, Zenon
    <3>4. QED
      BY <3>2, <3>3
  <2>2. CASE i > m
    <3>1. i - m \in 1 .. n /\ k - m \in 1 .. n /\ i - m < k - m
      BY <1>4, <1>5, <2>2
    <3>2. t[i - m] > t[k - m]
      BY <1>2, <3>1 DEF Falling
    <3>3. u[i] = t[i - m] /\ u[k] = t[k - m]
      <4>1. i \in m + 1 .. m + n /\ k \in m + 1 .. m + n
        BY <1>5, <2>2
      <4>2. QED
        BY <1>4, <4>1, Zenon
    <3>4. QED
      BY <3>2, <3>3
  <2>3. CASE i <= m /\ k > m
    <3>1. i \in 1 .. m /\ k - m \in 1 .. n
      BY <1>4, <1>5, <2>3
    <3>2. s[i] \in ToSet(s) /\ t[k - m] \in ToSet(t)
      BY <1>2, <3>1 DEF ToSet
    <3>3. u[i] = s[i] /\ u[k] = t[k - m]
      BY <1>4, <1>5, <2>3
    <3>4. QED
      BY <3>2, <3>3
  <2>4. QED
    BY <2>1, <2>2, <2>3
<1>6. ToSet(u) = ToSet(s) \cup ToSet(t)
  <2>1. ToSet(u) \subseteq ToSet(s) \cup ToSet(t)
    <3>1. ASSUME NEW i \in 1 .. m + n PROVE u[i] \in ToSet(s) \cup ToSet(t)
      <4>1. CASE i <= m
        BY <1>2, <1>4, <4>1 DEF ToSet
      <4>2. CASE i > m
        <5>1. i - m \in 1 .. n /\ u[i] = t[i - m]
          BY <1>4, <4>2
        <5>2. QED
          BY <1>2, <5>1 DEF ToSet
      <4>3. QED
        BY <4>1, <4>2
    <3>2. QED
      BY <1>4, <3>1 DEF ToSet
  <2>2. ASSUME NEW i \in 1 .. m PROVE s[i] \in ToSet(u)
    <3>1. i \in 1 .. m + n /\ u[i] = s[i]
      BY <1>4
    <3>2. QED
      BY <1>4, <3>1 DEF ToSet
  <2>3. ASSUME NEW i \in 1 .. n PROVE t[i] \in ToSet(u)
    <3>1. m + i \in 1 .. m + n /\ u[m + i] = t[i]
      BY <1>4
    <3>2. QED
      BY <1>4, <3>1 DEF ToSet
  <2>4. QED
    BY <1>2, <2>1, <2>2, <2>3 DEF ToSet
<1>7. QED
  BY <1>3, <1>4, <1>5, <1>6 DEF Falling
=============================================================================
