---------------------------- MODULE RawIndexProofs ----------------------------
(***************************************************************************)
(* The index of a RAW file is that of the recording, for recordings of any *)
(* length and any period of the bookmarks, and what seek() and             *)
(* get_seek_range() take from it is right.                                 *)
(*                                                                         *)
(* The index of a recording is defined with minima and maxima; that they   *)
(* exist comes from the strict subsets of a finite set being well founded. *)
(***************************************************************************)
EXTENDS RawIndex, TLAPS, SequenceTheorems, FiniteSetTheorems, WellFoundedInduction

-----------------------------------------------------------------------------
(* Minima, maxima and division.                                            *)

LEMMA HasMin ==
    ASSUME NEW S \in SUBSET Nat, S # {}, NEW n \in Nat, \A s \in S : s <= n
    PROVE  \E m \in S : \A s \in S : m <= s
<1>. DEFINE upTo(x) == {y \in S : y <= x}
            T == {upTo(x) : x \in S}
            R == StrictSubsetOrdering(S)
<1>1. IsFiniteSet(S)
  BY FS_BoundedSetOfNaturals
<1>2. T \subseteq SUBSET S /\ T # {}
  OBVIOUS
<1>3. IsWellFoundedOn(R, SUBSET S)
  BY <1>1, FS_StrictSubsetOrderingWellFounded, FS_FiniteSubsetsOfFinite
<1>4. PICK t \in T : \A u \in T : <<u, t>> \notin R
  <2>. HIDE DEF T, R
  <2>. QED BY <1>2, <1>3, WFMin
<1>5. PICK m \in S : t = upTo(m)
  OBVIOUS
<1>6. ASSUME NEW s \in S, s < m PROVE FALSE
  <2>1. m \in upTo(m) /\ m \notin upTo(s) /\ upTo(s) \subseteq upTo(m)
    <3>1. \A y \in S : y <= s => y <= m
      BY <1>6
    <3>2. m <= m /\ ~(m <= s)
      BY <1>6
    <3>. QED BY <3>1, <3>2
  <2>2. <<upTo(s), upTo(m)>> \in R
    BY <2>1 DEF StrictSubsetOrdering
  <2>. QED BY <1>4, <1>5, <2>2
<1>. QED BY <1>6

LEMMA HasMax ==
    ASSUME NEW S \in SUBSET Nat, S # {}, NEW n \in Nat, \A s \in S : s <= n
    PROVE  \E m \in S : \A s \in S : s <= m
<1>. DEFINE T == {n - s : s \in S}
<1>1. T \in SUBSET Nat /\ T # {} /\ \A t \in T : t <= n
  <2>1. \A s \in S : n - s \in Nat /\ n - s <= n
    OBVIOUS
  <2>2. T # {}
    OBVIOUS
  <2>. QED BY <2>1, <2>2
<1>2. PICK t \in T : \A u \in T : t <= u
  <2>. HIDE DEF T
  <2>. QED BY <1>1, HasMin
<1>3. PICK m \in S : t = n - m
  OBVIOUS
<1>4. ASSUME NEW s \in S PROVE s <= m
  <2>1. n - m <= n - s
    BY <1>2, <1>3
  <2>. QED BY <2>1
<1>. QED BY <1>4

LEMMA MinIs ==
    ASSUME NEW S \in SUBSET Int, NEW m \in S, \A s \in S : m <= s
    PROVE  Min(S) = m
<1>1. \A x \in S : (\A s \in S : x <= s) => x = m
  OBVIOUS
<1>. QED BY <1>1 DEF Min

LEMMA MaxIs ==
    ASSUME NEW S \in SUBSET Int, NEW m \in S, \A s \in S : s <= m
    PROVE  Max(S) = m
<1>1. \A x \in S : (\A s \in S : x >= s) => x = m
  OBVIOUS
<1>. QED BY <1>1 DEF Max

LEMMA Periods ==
    ASSUME NEW t \in Nat
    PROVE  /\ t \div Period \in Nat
           /\ (t \div Period) * Period <= t /\ t < (t \div Period) * Period + Period
BY IndexAssumption

LEMMA LaterPeriod ==
    ASSUME NEW t \in Nat, NEW u \in Nat
    PROVE  /\ t <= u => t \div Period <= u \div Period
           /\ t \div Period < u \div Period => t < u
<1>. DEFINE p == t \div Period
            q == u \div Period
<1>1. /\ p \in Nat /\ q \in Nat /\ Period \in Nat
      /\ p * Period <= t /\ t < p * Period + Period
      /\ q * Period <= u /\ u < q * Period + Period
  BY Periods, IndexAssumption
<1>. HIDE DEF p, q
<1>2. ASSUME p < q PROVE t < u
  <2>1. (p + 1) * Period <= q * Period
    BY <1>1, <1>2
  <2>2. (p + 1) * Period = p * Period + Period
    BY <1>1
  <2>. QED BY <1>1, <2>1, <2>2
<1>3. ASSUME q < p PROVE u < t
  <2>1. (q + 1) * Period <= p * Period
    BY <1>1, <1>3
  <2>2. (q + 1) * Period = q * Period + Period
    BY <1>1
  <2>. QED BY <1>1, <2>1, <2>2
<1>. QED BY <1>1, <1>2, <1>3 DEF p, q

LEMMA MinOf ==
    ASSUME NEW S \in SUBSET Nat, S # {}, NEW n \in Nat, \A s \in S : s <= n
    PROVE  Min(S) \in S /\ \A s \in S : Min(S) <= s
<1>1. PICK m \in S : \A s \in S : m <= s
  BY HasMin
<1>2. Min(S) = m
  BY <1>1, MinIs
<1>. QED BY <1>1, <1>2

-----------------------------------------------------------------------------
(* Recordings, and the bookmarks they should have.                         *)

Value == Times \cup {NoTime}

LEMMA RecordingFacts ==
    ASSUME NEW r \in Recordings
    PROVE  /\ r \in Seq(Value) /\ Len(r) \in 0..MaxEvents /\ DOMAIN r = 1..Len(r)
           /\ \A i, j \in 1..Len(r) : i <= j => r[i] <= r[j]
           /\ \A i \in 1..Len(r) : r[i] \in Int
           /\ Timed(r) \subseteq 1..Len(r)
           /\ \A i \in Timed(r) : /\ r[i] \in Nat /\ r[i] \in Times
                                  /\ \A j \in 1..Len(r) : i <= j => j \in Timed(r)
<1>1. PICK n \in 0..MaxEvents : r \in [1..n -> Value]
  BY DEF Recordings, Value
<1>2. n \in Nat
  BY IndexAssumption
<1>3. r \in Seq(Value)
  BY <1>1, <1>2, SeqDef
<1>4. DOMAIN r = 1..Len(r) /\ Len(r) = n
  BY <1>1, <1>2, <1>3, LenProperties
<1>5. Value \subseteq Int
  BY IndexAssumption DEF Value, NoTime
<1>6. \A i \in 1..Len(r) : r[i] \in Value
  BY <1>1, <1>4
<1>7. \A i, j \in 1..Len(r) : i < j => r[i] <= r[j]
  BY <1>4 DEF Recordings
<1>8. \A i, j \in 1..Len(r) : i <= j => r[i] <= r[j]
  <2>1. \A i, j \in 1..Len(r) : i <= j => i = j \/ i < j
    BY <1>2, <1>4
  <2>2. \A i \in 1..Len(r) : r[i] <= r[i]
    <3>1. \A v \in Int : v <= v
      OBVIOUS
    <3>. QED BY <1>5, <1>6, <3>1
  <2>. QED BY <1>7, <2>1, <2>2
<1>9. \A i \in Timed(r) : i \in 1..Len(r) /\ r[i] \in Times /\ r[i] \in Nat
  BY <1>4, <1>6, IndexAssumption DEF Timed, Value
<1>10. ASSUME NEW i \in Timed(r), NEW j \in 1..Len(r), i <= j
       PROVE  j \in Timed(r)
  <2>1. r[i] \in Nat /\ r[i] <= r[j] /\ r[j] \in Int
    BY <1>5, <1>6, <1>8, <1>9, <1>10
  <2>. QED BY <1>4, <2>1 DEF Timed, NoTime
<1>. QED BY <1>1, <1>3, <1>4, <1>5, <1>6, <1>8, <1>9, <1>10

\* The periods of the events of a recording do not decrease.
LEMMA PeriodFacts ==
    ASSUME NEW r \in Recordings
    PROVE  /\ \A i \in Timed(r) : PeriodOf(r, i) \in Nat
           /\ \A i, j \in Timed(r) : /\ i <= j => PeriodOf(r, i) <= PeriodOf(r, j)
                                     /\ PeriodOf(r, i) < PeriodOf(r, j) => r[i] < r[j] /\ i < j
<1>1. \A i \in Timed(r) : r[i] \in Nat /\ i \in 1..Len(r)
  BY RecordingFacts
<1>2. \A i \in Timed(r) : PeriodOf(r, i) \in Nat
  BY <1>1, Periods DEF PeriodOf
<1>3. ASSUME NEW i \in Timed(r), NEW j \in Timed(r)
      PROVE  /\ i <= j => PeriodOf(r, i) <= PeriodOf(r, j)
             /\ PeriodOf(r, i) < PeriodOf(r, j) => r[i] < r[j] /\ i < j
  <2>1. i <= j => PeriodOf(r, i) <= PeriodOf(r, j)
    BY <1>1, LaterPeriod, RecordingFacts DEF PeriodOf
  <2>2. PeriodOf(r, i) < PeriodOf(r, j) => r[i] < r[j]
    BY <1>1, LaterPeriod DEF PeriodOf
  <2>3. j <= i => r[j] <= r[i]
    BY <1>1, RecordingFacts
  <2>4. r[i] \in Nat /\ r[j] \in Nat /\ i \in Nat /\ j \in Nat
    BY <1>1, RecordingFacts
  <2>. QED BY <2>1, <2>2, <2>3, <2>4
<1>. QED BY <1>2, <1>3

\* No event lies in a period before k.
NoneBefore(r, k) == \A i \in Timed(r) : PeriodOf(r, i) >= k

\* e is the first event of the last period before k that has events.
IsLastBefore(r, k, e) ==
    /\ e \in Timed(r) /\ PeriodOf(r, e) < k
    /\ \A i \in Timed(r) : /\ PeriodOf(r, i) < k => PeriodOf(r, i) <= PeriodOf(r, e)
                           /\ PeriodOf(r, i) = PeriodOf(r, e) => e <= i

IsMark(r, k, m) ==
    \/ NoneBefore(r, k) /\ m = [ts |-> NoTime, off |-> 1]
    \/ \E e \in Timed(r) : IsLastBefore(r, k, e) /\ m = [ts |-> r[e], off |-> e]

LEMMA MarkIs ==
    ASSUME NEW r \in Recordings, NEW k \in Nat, NEW m, IsMark(r, k, m)
    PROVE  BookmarkFor(r, k) = m
<1>. DEFINE earlier == {j \in Timed(r) : PeriodOf(r, j) < k}
            before == {PeriodOf(r, i) : i \in earlier}
            firsts(p) == {i \in Timed(r) : PeriodOf(r, i) = p}
<1>1. BookmarkFor(r, k) = IF before = {} THEN [ts |-> NoTime, off |-> 1]
                          ELSE [ts |-> r[Min(firsts(Max(before)))], off |-> Min(firsts(Max(before)))]
  BY DEF BookmarkFor
<1>2. \A i \in Timed(r) : PeriodOf(r, i) \in Nat /\ i \in Int
  BY PeriodFacts, RecordingFacts
<1>3. CASE NoneBefore(r, k) /\ m = [ts |-> NoTime, off |-> 1]
  <2>1. earlier = {}
    BY <1>2, <1>3 DEF NoneBefore
  <2>2. before = {}
    BY <2>1
  <2>. QED BY <1>1, <1>3, <2>2
<1>4. ASSUME NEW e \in Timed(r), IsLastBefore(r, k, e), m = [ts |-> r[e], off |-> e]
      PROVE  BookmarkFor(r, k) = m
  <2>1. e \in earlier /\ \A i \in earlier : PeriodOf(r, i) <= PeriodOf(r, e)
    BY <1>4 DEF IsLastBefore
  <2>2. PeriodOf(r, e) \in before /\ \A p \in before : p <= PeriodOf(r, e) /\ p \in Int
    BY <1>2, <2>1
  <2>3. Max(before) = PeriodOf(r, e)
    <3>1. before \in SUBSET Int
      BY <2>2
    <3>. HIDE DEF before
    <3>. QED BY <2>2, <3>1, MaxIs
  <2>4. /\ firsts(PeriodOf(r, e)) \in SUBSET Int /\ e \in firsts(PeriodOf(r, e))
        /\ \A i \in firsts(PeriodOf(r, e)) : e <= i
    BY <1>2, <1>4 DEF IsLastBefore
  <2>5. Min(firsts(PeriodOf(r, e))) = e
    <3>. HIDE DEF firsts
    <3>. QED BY <2>4, MinIs
  <2>6. before # {}
    BY <2>2
  <2>. HIDE DEF before, firsts
  <2>. QED BY <1>1, <1>4, <2>3, <2>5, <2>6
<1>. QED BY <1>3, <1>4 DEF IsMark

LEMMA BookmarkIsMark ==
    ASSUME NEW r \in Recordings, NEW k \in Nat
    PROVE  IsMark(r, k, BookmarkFor(r, k))
<1>1. \A i \in Timed(r) : PeriodOf(r, i) \in Nat /\ i \in Nat /\ i <= Len(r) /\ Len(r) \in Nat
  BY PeriodFacts, RecordingFacts
<1>2. CASE NoneBefore(r, k)
  <2>1. IsMark(r, k, [ts |-> NoTime, off |-> 1])
    BY <1>2 DEF IsMark
  <2>. QED BY <2>1, MarkIs
<1>3. CASE ~NoneBefore(r, k)
  <2>. DEFINE earlier == {i \in Timed(r) : PeriodOf(r, i) < k}
  <2>1. earlier \in SUBSET Nat /\ earlier # {} /\ \A i \in earlier : i <= Len(r)
    BY <1>1, <1>3 DEF NoneBefore
  <2>2. PICK l \in earlier : \A i \in earlier : i <= l
    <3>1. Len(r) \in Nat
      BY <1>1, <2>1
    <3>. HIDE DEF earlier
    <3>. QED BY <2>1, <3>1, HasMax
  <2>. DEFINE firsts == {i \in Timed(r) : PeriodOf(r, i) = PeriodOf(r, l)}
  <2>3. firsts \in SUBSET Nat /\ firsts # {} /\ \A i \in firsts : i <= Len(r)
    BY <1>1, <2>2
  <2>4. PICK e \in firsts : \A i \in firsts : e <= i
    <3>1. Len(r) \in Nat
      BY <1>1, <2>1
    <3>. HIDE DEF firsts
    <3>. QED BY <2>3, <3>1, HasMin
  <2>5. e \in Timed(r) /\ PeriodOf(r, e) = PeriodOf(r, l) /\ PeriodOf(r, e) < k
    BY <2>2, <2>4
  <2>6. \A i \in Timed(r) : PeriodOf(r, i) < k => PeriodOf(r, i) <= PeriodOf(r, e)
    BY <2>2, <2>5, PeriodFacts
  <2>7. \A i \in Timed(r) : PeriodOf(r, i) = PeriodOf(r, e) => e <= i
    BY <2>4, <2>5
  <2>8. IsLastBefore(r, k, e)
    BY <2>5, <2>6, <2>7 DEF IsLastBefore
  <2>9. IsMark(r, k, [ts |-> r[e], off |-> e])
    BY <2>5, <2>8 DEF IsMark
  <2>. QED BY <2>9, MarkIs
<1>. QED BY <1>2, <1>3

\* The index has a bookmark for each period up to the one after the last.
LEMMA IndexIs ==
    ASSUME NEW r \in Recordings, NEW n \in Nat,
           IF Timed(r) = {} THEN n = 0
           ELSE \E e \in Timed(r) : /\ n = PeriodOf(r, e) + 1
                                    /\ \A i \in Timed(r) : PeriodOf(r, i) <= PeriodOf(r, e)
    PROVE  IndexOf(r) = [k \in 1..n + 1 |-> BookmarkFor(r, k - 1)]
<1>. DEFINE periods == {PeriodOf(r, i) : i \in Timed(r)} \cup {-1}
<1>1. \A i \in Timed(r) : PeriodOf(r, i) \in Nat
  BY PeriodFacts
<1>2. periods \in SUBSET Int /\ n - 1 \in periods /\ \A p \in periods : p <= n - 1
  BY <1>1
<1>3. Max(periods) = n - 1
  <2>. HIDE DEF periods
  <2>. QED BY <1>2, MaxIs
<1>4. IndexOf(r) = [k \in 1..Max(periods) + 2 |-> BookmarkFor(r, k - 1)]
  BY DEF IndexOf
<1>5. Max(periods) + 2 = n + 1
  BY <1>3
<1>. QED BY <1>4, <1>5

-----------------------------------------------------------------------------
(* What the lookups find in the index of a recording.                      *)

LEMMA IndexFacts ==
    ASSUME raw \in Recordings, index = IndexOf(raw)
    PROVE  \E n \in Nat :
              /\ Len(index) = n + 1 /\ DOMAIN index = 1..n + 1
              /\ \A k \in 1..n + 1 : /\ IsMark(raw, k - 1, index[k])
                                     /\ index[k].ts = NoTime <=> NoneBefore(raw, k - 1)
              /\ Timed(raw) # {} =>
                    \E l \in Timed(raw) :
                        /\ PeriodOf(raw, l) = n - 1
                        /\ \A i \in Timed(raw) : PeriodOf(raw, i) <= n - 1
<1>1. PICK n \in Nat : IF Timed(raw) = {} THEN n = 0
           ELSE \E e \in Timed(raw) : /\ n = PeriodOf(raw, e) + 1
                                      /\ \A i \in Timed(raw) : PeriodOf(raw, i) <= PeriodOf(raw, e)
  <2>1. CASE Timed(raw) = {}
    BY <2>1
  <2>2. CASE Timed(raw) # {}
    <3>1. Len(raw) \in Timed(raw) /\ \A i \in Timed(raw) : i <= Len(raw)
      BY <2>2, RecordingFacts, IndexAssumption
    <3>2. \A i \in Timed(raw) : PeriodOf(raw, i) <= PeriodOf(raw, Len(raw))
      BY <3>1, PeriodFacts
    <3>3. PeriodOf(raw, Len(raw)) + 1 \in Nat
      BY <3>1, PeriodFacts
    <3>. QED BY <2>2, <3>1, <3>2, <3>3
  <2>. QED BY <2>1, <2>2
<1>2. index = [k \in 1..n + 1 |-> BookmarkFor(raw, k - 1)]
  BY <1>1, IndexIs
<1>3. Len(index) = n + 1 /\ DOMAIN index = 1..n + 1
  <2>. DEFINE S == {BookmarkFor(raw, k - 1) : k \in 1..n + 1}
  <2>1. index \in [1..n + 1 -> S]
    BY <1>2
  <2>2. n + 1 \in Nat
    OBVIOUS
  <2>. HIDE DEF S
  <2>. QED BY <2>1, <2>2, SeqDef, LenProperties
<1>4. ASSUME NEW k \in 1..n + 1
      PROVE  /\ IsMark(raw, k - 1, index[k])
             /\ index[k].ts = NoTime <=> NoneBefore(raw, k - 1)
  <2>1. k - 1 \in Nat /\ index[k] = BookmarkFor(raw, k - 1)
    BY <1>2, <1>4
  <2>2. IsMark(raw, k - 1, index[k])
    BY <2>1, BookmarkIsMark
  <2>3. \A e \in Timed(raw) : raw[e] # NoTime
    BY DEF Timed
  <2>4. \A e \in Timed(raw) : IsLastBefore(raw, k - 1, e) => ~NoneBefore(raw, k - 1)
    BY <2>1, PeriodFacts DEF IsLastBefore, NoneBefore
  <2>5. CASE NoneBefore(raw, k - 1)
    <3>1. index[k] = [ts |-> NoTime, off |-> 1]
      BY <2>2, <2>4, <2>5 DEF IsMark
    <3>. QED BY <2>2, <2>5, <3>1
  <2>6. CASE ~NoneBefore(raw, k - 1)
    <3>1. PICK e \in Timed(raw) : index[k] = [ts |-> raw[e], off |-> e]
      BY <2>2, <2>6 DEF IsMark
    <3>. QED BY <2>2, <2>3, <2>6, <3>1
  <2>. QED BY <2>5, <2>6
<1>5. ASSUME NEW l \in Timed(raw), n = PeriodOf(raw, l) + 1
      PROVE  PeriodOf(raw, l) = n - 1
  BY <1>5, PeriodFacts
<1>. QED BY <1>1, <1>3, <1>4, <1>5

\* The first bookmark with a time is that of the first event with one.
LEMMA FirstFacts ==
    ASSUME raw \in Recordings, index = IndexOf(raw),
           NEW f \in DOMAIN index, index[f].ts # NoTime,
           f = 1 \/ index[f - 1].ts = NoTime
    PROVE  \E e \in Timed(raw) : /\ index[f] = [ts |-> raw[e], off |-> e]
                                 /\ \A i \in Timed(raw) : e <= i
                                 /\ FirstTime = raw[e]
<1>1. PICK n \in Nat :
         /\ DOMAIN index = 1..n + 1
         /\ \A k \in 1..n + 1 : /\ IsMark(raw, k - 1, index[k])
                                /\ index[k].ts = NoTime <=> NoneBefore(raw, k - 1)
  BY IndexFacts
<1>2. PICK e \in Timed(raw) : IsLastBefore(raw, f - 1, e) /\ index[f] = [ts |-> raw[e], off |-> e]
  BY <1>1 DEF IsMark
<1>3. \A i \in Timed(raw) : PeriodOf(raw, i) \in Nat /\ i \in Nat
  BY PeriodFacts, RecordingFacts
<1>4. f # 1
  BY <1>2, <1>3 DEF IsLastBefore
<1>5. NoneBefore(raw, f - 2)
  <2>1. f - 1 \in 1..n + 1 /\ f - 1 - 1 = f - 2
    BY <1>1, <1>4
  <2>. QED BY <1>1, <1>4, <2>1
<1>6. \A i \in Timed(raw) : e <= i
  <2>1. \A i \in Timed(raw) : PeriodOf(raw, i) = PeriodOf(raw, e) \/ PeriodOf(raw, e) < PeriodOf(raw, i)
    BY <1>1, <1>2, <1>3, <1>5 DEF IsLastBefore, NoneBefore
  <2>. QED BY <1>2, <1>3, <2>1, PeriodFacts DEF IsLastBefore
<1>7. FirstTime = raw[e]
  <2>. DEFINE valid == {i \in DOMAIN index : index[i].ts # NoTime}
  <2>1. f \in valid /\ valid \in SUBSET Int
    BY <1>1
  <2>2. ASSUME NEW i \in valid PROVE f <= i
    <3>1. i \in 1..n + 1 /\ ~NoneBefore(raw, i - 1)
      BY <1>1
    <3>2. ~(i - 1 <= f - 2)
      BY <1>1, <1>3, <1>5, <3>1 DEF NoneBefore
    <3>. QED BY <1>1, <3>1, <3>2
  <2>3. Min(valid) = f
    <3>. HIDE DEF valid
    <3>. QED BY <2>1, <2>2, MinIs
  <2>4. FirstTime = IF valid = {} THEN NoTime ELSE index[Min(valid)].ts
    BY DEF FirstTime
  <2>5. valid # {}
    BY <2>1
  <2>. HIDE DEF valid
  <2>. QED BY <1>2, <2>3, <2>4, <2>5
<1>. QED BY <1>2, <1>6, <1>7

\* The last bookmark of a recording that has a time, the first one that has one, and
\* what a lookup up to the last period takes.
LEMMA Ends ==
    ASSUME raw \in Recordings, index = IndexOf(raw), Timed(raw) # {}, NEW n \in Nat,
           Len(index) = n + 1, DOMAIN index = 1..n + 1
    PROVE  /\ index[n + 1].ts # NoTime
           /\ \E l \in Timed(raw) : /\ IsLastBefore(raw, n, l) /\ LastTime = raw[l]
                                    /\ \A i \in Timed(raw) : PeriodOf(raw, i) <= n - 1
<1>1. /\ IsMark(raw, n, index[n + 1])
      /\ index[n + 1].ts = NoTime <=> NoneBefore(raw, n)
      /\ \E l \in Timed(raw) : /\ PeriodOf(raw, l) = n - 1
                               /\ \A i \in Timed(raw) : PeriodOf(raw, i) <= n - 1
  <2>1. PICK m \in Nat :
           /\ Len(index) = m + 1
           /\ \A k \in 1..m + 1 : /\ IsMark(raw, k - 1, index[k])
                                  /\ index[k].ts = NoTime <=> NoneBefore(raw, k - 1)
           /\ \E l \in Timed(raw) : /\ PeriodOf(raw, l) = m - 1
                                    /\ \A i \in Timed(raw) : PeriodOf(raw, i) <= m - 1
    BY IndexFacts
  <2>2. m = n /\ n + 1 \in 1..n + 1 /\ n + 1 - 1 = n
    BY <2>1
  <2>. QED BY <2>1, <2>2
<1>2. ~NoneBefore(raw, n)
  BY <1>1 DEF NoneBefore
<1>3. PICK l \in Timed(raw) : IsLastBefore(raw, n, l) /\ index[n + 1] = [ts |-> raw[l], off |-> l]
  BY <1>1, <1>2 DEF IsMark
<1>4. LastTime = raw[l]
  BY <1>3 DEF LastTime
<1>. QED BY <1>1, <1>2, <1>3, <1>4

LEMMA BookmarkFound ==
    ASSUME raw \in Recordings, index = IndexOf(raw), Timed(raw) # {}, NEW n \in Nat,
           Len(index) = n + 1, DOMAIN index = 1..n + 1, NEW k \in Nat, k <= n
    PROVE  \E f \in k + 1..n + 1 : /\ BookmarkFrom(k) = {index[f]} /\ index[f].ts # NoTime
                                   /\ \A i \in k + 1..n + 1 : i < f => index[i].ts = NoTime
<1>. DEFINE valid == {i \in k + 1..Len(index) : index[i].ts # NoTime}
<1>1. valid \in SUBSET Nat /\ n + 1 \in valid /\ \A i \in valid : i <= n + 1
  BY Ends
<1>2. BookmarkFrom(k) = {IF valid = {} THEN Beyond ELSE index[Min(valid)]}
  BY DEF BookmarkFrom
<1>3. Min(valid) \in valid /\ \A i \in valid : Min(valid) <= i
  <2>1. n + 1 \in Nat /\ valid # {}
    BY <1>1
  <2>. HIDE DEF valid
  <2>. QED BY <1>1, <2>1, MinOf
<1>4. ASSUME NEW f, f = Min(valid)
      PROVE  /\ f \in k + 1..n + 1 /\ BookmarkFrom(k) = {index[f]} /\ index[f].ts # NoTime
             /\ \A i \in k + 1..n + 1 : i < f => index[i].ts = NoTime
  <2>1. f \in valid /\ \A i \in valid : f <= i
    BY <1>3, <1>4
  <2>2. BookmarkFrom(k) = {index[f]}
    <3>. HIDE DEF valid
    <3>. QED BY <1>1, <1>2, <1>4
  <2>. HIDE <1>4
  <2>3. f \in k + 1..n + 1 /\ index[f].ts # NoTime
    BY <2>1
  <2>4. ASSUME NEW i \in k + 1..n + 1, i < f PROVE index[i].ts = NoTime
    <3>1. ~(f <= i) /\ f \in Int /\ i \in Int
      BY <2>3, <2>4
    <3>2. i \notin valid
      BY <2>1, <3>1
    <3>. QED BY <3>2
  <2>. QED BY <2>2, <2>3, <2>4
<1>. QED BY <1>4

\* seek()
LEMMA LookupLands ==
    ASSUME raw \in Recordings, index = IndexOf(raw), Timed(raw) # {},
           NEW target \in Nat, NEW m \in Lookup(target)
    PROVE  /\ m.off \in Timed(raw) /\ raw[m.off] = m.ts
           /\ m.ts <= target \/ m.ts = FirstTime
           /\ \A i \in Timed(raw) :
                 /\ raw[i] >= target => m.off <= i
                 /\ PeriodOf(raw, i) < target \div Period
                       => PeriodOf(raw, i) <= PeriodOf(raw, m.off)
<1>. DEFINE k == target \div Period
<1>1. PICK n \in Nat :
         /\ Len(index) = n + 1 /\ DOMAIN index = 1..n + 1
         /\ \A j \in 1..n + 1 : /\ IsMark(raw, j - 1, index[j])
                                /\ index[j].ts = NoTime <=> NoneBefore(raw, j - 1)
  BY IndexFacts
<1>2. k \in Nat
  BY Periods
<1>3. k <= n
  <2>1. ~(k >= Len(index))
    BY DEF Lookup, BookmarkFrom
  <2>. QED BY <1>1, <1>2, <2>1
<1>. HIDE DEF k
<1>4. PICK f \in k + 1..n + 1 : /\ BookmarkFrom(k) = {index[f]} /\ index[f].ts # NoTime
                                /\ \A i \in k + 1..n + 1 : i < f => index[i].ts = NoTime
  BY <1>1, <1>2, <1>3, BookmarkFound
<1>5. f \in 1..n + 1 /\ k + 1 <= f /\ m = index[f]
  BY <1>1, <1>2, <1>4 DEF Lookup, k
<1>6. \A i \in Timed(raw) : raw[i] \in Nat /\ i \in Nat /\ PeriodOf(raw, i) \in Nat
  BY RecordingFacts, PeriodFacts
<1>7. CASE f = k + 1
  <2>1. f - 1 = k
    BY <1>2, <1>7
  <2>2. PICK e \in Timed(raw) : IsLastBefore(raw, k, e) /\ m = [ts |-> raw[e], off |-> e]
    BY <1>1, <1>4, <1>5, <2>1 DEF IsMark, NoTime
  <2>3. raw[e] \div Period < target \div Period
    BY <2>2 DEF IsLastBefore, PeriodOf, k
  <2>4. raw[e] < target
    BY <1>6, <2>3, LaterPeriod
  <2>5. ASSUME NEW i \in Timed(raw), raw[i] >= target PROVE e <= i
    <3>1. raw[e] < raw[i]
      BY <1>6, <2>4, <2>5
    <3>2. i <= e => raw[i] <= raw[e]
      BY RecordingFacts
    <3>. QED BY <1>6, <3>1, <3>2
  <2>6. \A i \in Timed(raw) : PeriodOf(raw, i) < k => PeriodOf(raw, i) <= PeriodOf(raw, e)
    BY <2>2 DEF IsLastBefore
  <2>. QED BY <1>6, <2>2, <2>4, <2>5, <2>6 DEF k
<1>8. CASE f # k + 1
  <2>1. f - 1 \in k + 1..n + 1 /\ k + 1 \in k + 1..n + 1 /\ k + 1 \in 1..n + 1 /\ k + 1 < f /\ f # 1
    BY <1>2, <1>3, <1>5, <1>8
  <2>2. index[f - 1].ts = NoTime /\ index[k + 1].ts = NoTime
    BY <1>4, <1>5, <2>1
  <2>3. PICK e \in Timed(raw) : /\ index[f] = [ts |-> raw[e], off |-> e]
                                /\ \A i \in Timed(raw) : e <= i
                                /\ FirstTime = raw[e]
    BY <1>1, <1>4, <1>5, <2>2, FirstFacts
  <2>4. NoneBefore(raw, k)
    <3>1. PICK j \in 1..n + 1 : j = k + 1 /\ j - 1 = k
      BY <1>2, <2>1
    <3>2. index[j].ts = NoTime
      BY <2>2, <3>1
    <3>3. NoneBefore(raw, j - 1)
      BY <1>1, <3>2
    <3>. QED BY <3>1, <3>3
  <2>5. \A i \in Timed(raw) : ~(PeriodOf(raw, i) < k)
    BY <1>2, <1>6, <2>4 DEF NoneBefore
  <2>. QED BY <1>5, <2>3, <2>5 DEF k
<1>. QED BY <1>7, <1>8

\* get_seek_range()
LEMMA RangeFacts ==
    ASSUME raw \in Recordings, index = IndexOf(raw), Timed(raw) # {}
    PROVE  /\ \E i \in Timed(raw) : FirstTime = raw[i] /\ \A j \in Timed(raw) : i <= j
           /\ \E i \in Timed(raw) :
                 /\ LastTime = raw[i]
                 /\ \A j \in Timed(raw) : /\ PeriodOf(raw, j) <= PeriodOf(raw, i)
                                          /\ PeriodOf(raw, j) = PeriodOf(raw, i) => i <= j
           /\ \A t \in (FirstTime..LastTime) \cup {raw[i] : i \in Timed(raw)} :
                 Lookup(t) # {} /\ Beyond \notin Lookup(t)
<1>1. PICK n \in Nat : Len(index) = n + 1 /\ DOMAIN index = 1..n + 1
  BY IndexFacts
<1>2. index[n + 1].ts # NoTime
  BY <1>1, Ends
<1>3. PICK last \in Timed(raw) : /\ IsLastBefore(raw, n, last) /\ LastTime = raw[last]
                                 /\ \A i \in Timed(raw) : PeriodOf(raw, i) <= n - 1
  BY <1>1, Ends
<1>4. \A i \in Timed(raw) : raw[i] \in Nat /\ PeriodOf(raw, i) \in Nat
  BY RecordingFacts, PeriodFacts
<1>5. \A j \in Timed(raw) : /\ PeriodOf(raw, j) <= PeriodOf(raw, last)
                            /\ PeriodOf(raw, j) = PeriodOf(raw, last) => last <= j
  <2>1. \A j \in Timed(raw) : PeriodOf(raw, j) < n
    BY <1>3, <1>4
  <2>. QED BY <1>3, <2>1 DEF IsLastBefore
<1>6. PICK f \in 1..n + 1 : /\ index[f].ts # NoTime
                            /\ \A i \in 1..n + 1 : i < f => index[i].ts = NoTime
  <2>1. 0 \in Nat /\ 0 <= n /\ 0 + 1 = 1
    OBVIOUS
  <2>. QED BY <1>1, <2>1, BookmarkFound
<1>7. f = 1 \/ index[f - 1].ts = NoTime
  <2>1. f # 1 => f - 1 \in 1..n + 1 /\ f - 1 < f
    OBVIOUS
  <2>. QED BY <1>6, <2>1
<1>8. PICK e \in Timed(raw) : FirstTime = raw[e] /\ \A i \in Timed(raw) : e <= i
  BY <1>1, <1>6, <1>7, FirstFacts
<1>9. ASSUME NEW t \in Nat, t \div Period <= n - 1
      PROVE  Lookup(t) # {} /\ Beyond \notin Lookup(t)
  <2>1. t \div Period \in Nat /\ t \div Period <= n
    BY <1>9, Periods
  <2>2. PICK g \in t \div Period + 1..n + 1 :
           BookmarkFrom(t \div Period) = {index[g]} /\ index[g].ts # NoTime
    BY <1>1, <2>1, BookmarkFound
  <2>3. Beyond # index[g]
    BY <2>2 DEF Beyond
  <2>. QED BY <2>2, <2>3 DEF Lookup
<1>10. ASSUME NEW t \in FirstTime..LastTime
       PROVE  t \in Nat /\ t \div Period <= n - 1
  <2>1. t \in Nat /\ t <= raw[last]
    BY <1>3, <1>4, <1>8
  <2>2. t \div Period <= raw[last] \div Period
    BY <1>4, <2>1, LaterPeriod
  <2>3. t \div Period \in Nat /\ raw[last] \div Period \in Nat
    BY <1>4, <2>1, Periods
  <2>4. raw[last] \div Period <= n - 1
    BY <1>3 DEF PeriodOf
  <2>. QED BY <2>1, <2>2, <2>3, <2>4
<1>11. \A i \in Timed(raw) : raw[i] \in Nat /\ raw[i] \div Period <= n - 1
  BY <1>3, <1>4 DEF PeriodOf
<1>. QED BY <1>3, <1>5, <1>8, <1>9, <1>10, <1>11

-----------------------------------------------------------------------------
(* The invariants.                                                         *)

DiskType == [exists : BOOLEAN, header : BOOLEAN, size : Nat, marks : Seq(Mark), magic : BOOLEAN]
BuildType == [next : 1..MaxEvents + 1, ts : Value, off : 1..MaxEvents + 1, shift : BOOLEAN,
              marks : Seq(Mark)]
Procs == {"closed", "begin", "check", "load", "create", "build", "magic", "return", "remove",
          "ready"}

\* The first bookmarks of a recording without timestamps are at its start, empty or not.
InRaw(m) == m.off = 1 \/ m.off <= Len(raw)
AllInRaw(marks) == \A i \in DOMAIN marks : InRaw(marks[i])

IndexTypes ==
    /\ raw \in Recordings /\ disk \in DiskType /\ index \in Seq(Mark) /\ b \in BuildType
    /\ proc \in Procs /\ status \in {"NotBuilt", "Building", "Good", "Bad"}
    /\ abort \in BOOLEAN /\ closing \in BOOLEAN /\ writing \in BOOLEAN
    /\ disk.magic => disk.exists
    /\ proc \in {"build", "magic"} /\ writing => disk.exists
    /\ AllInRaw(index) /\ AllInRaw(disk.marks) /\ AllInRaw(b.marks)
    /\ InRaw(b) /\ b.next <= Len(raw) + 1

\* What the build knows of the events before b.next.
Building ==
    /\ \A k \in 1..Len(b.marks) : b.marks[k] = BookmarkFor(raw, k - 1)
    /\ IF Len(b.marks) = 0
       THEN b.ts = NoTime /\ b.off = 1 /\ \A i \in Timed(raw) : i >= b.next
       ELSE /\ b.off \in Timed(raw) /\ b.off < b.next /\ b.ts = raw[b.off]
            /\ PeriodOf(raw, b.off) = Len(b.marks) - 1
            /\ \A i \in Timed(raw) : i < b.next => PeriodOf(raw, i) <= Len(b.marks) - 1
            /\ \A i \in Timed(raw) : PeriodOf(raw, i) = Len(b.marks) - 1 => b.off <= i

\* A file with the magic number is that of the recording, or of what it was
\* before it grew.
DiskRight ==
    disk.magic => /\ disk.size <= Len(raw)
                  /\ disk.size = Len(raw) => disk.marks = IndexOf(raw)

\* The exception is what an aborted build leaves until it removes the file.
IndexRight ==
    /\ abort => closing
    /\ status = "Good" => proc = "ready"
    /\ proc = "load" => LooksValid
    /\ proc = "build" => Building
    /\ proc \in {"magic", "return"} => abort \/ b.marks = IndexOf(raw)
    /\ proc \in {"build", "magic"} /\ writing =>
          disk.marks = b.marks /\ disk.size = Len(raw) /\ ~disk.magic
    /\ DiskRight \/ (abort /\ proc \in {"return", "remove"})
    /\ IndexIsRight

-----------------------------------------------------------------------------
(* The types, which hold whatever crashes.                                 *)

LEMMA Extended ==
    ASSUME NEW S, NEW s \in Seq(S), NEW m \in S, NEW n \in Nat,
           NEW t, t = s \o [i \in 1..n |-> m]
    PROVE  /\ t \in Seq(S) /\ Len(t) = Len(s) + n /\ Len(s) \in Nat
           /\ DOMAIN t = 1..Len(s) + n
           /\ \A i \in 1..Len(s) + n : t[i] = IF i <= Len(s) THEN s[i] ELSE m
<1>. DEFINE u == [i \in 1..n |-> m]
<1>1. u \in [1..n -> S]
  OBVIOUS
<1>2. u \in Seq(S) /\ Len(u) = n
  <2>. HIDE DEF u
  <2>. QED BY <1>1, SeqDef, LenProperties
<1>3. \A i \in 1..n : u[i] = m
  OBVIOUS
<1>4. t = s \o u
  OBVIOUS
<1>. HIDE DEF u
<1>5. Len(s) \in Nat
  BY LenProperties
<1>6. /\ t \in Seq(S) /\ Len(t) = Len(s) + n
      /\ \A i \in 1..Len(s) + n : t[i] = IF i <= Len(s) THEN s[i] ELSE u[i - Len(s)]
  <2>1. /\ s \o u \in Seq(S) /\ Len(s \o u) = Len(s) + Len(u)
        /\ \A i \in 1..Len(s) + Len(u) : (s \o u)[i] = IF i <= Len(s) THEN s[i] ELSE u[i - Len(s)]
    BY <1>2, ConcatProperties
  <2>2. Len(s) + Len(u) = Len(s) + n
    BY <1>2
  <2>. QED BY <1>4, <2>1, <2>2
<1>7. \A i \in 1..Len(s) + n : ~(i <= Len(s)) => i - Len(s) \in 1..n
  BY <1>5
<1>8. DOMAIN t = 1..Len(s) + n
  BY <1>6, LenProperties
<1>. QED BY <1>3, <1>5, <1>6, <1>7, <1>8

\* The bookmark that the build would add now.
LEMMA BookmarkType ==
    ASSUME IndexTypes
    PROVE  Bookmark \in Mark /\ InRaw(Bookmark) /\ Bookmark = [ts |-> b.ts, off |-> b.off]
<1>1. b.ts \in Value /\ b.off \in 1..MaxEvents + 1 /\ InRaw(b)
  BY DEF IndexTypes, BuildType
<1>. QED BY <1>1 DEF Bookmark, Mark, Value, InRaw

LEMMA MarksAdded ==
    ASSUME IndexTypes, NEW s \in Seq(Mark), AllInRaw(s), NEW n \in Nat
    PROVE  s \o Repeat(n) \in Seq(Mark) /\ AllInRaw(s \o Repeat(n))
<1>. DEFINE t == s \o Repeat(n)
<1>1. DOMAIN s = 1..Len(s)
  BY LenProperties
<1>2. /\ t \in Seq(Mark) /\ DOMAIN t = 1..Len(s) + n /\ Len(s) \in Nat
      /\ \A i \in 1..Len(s) + n : t[i] = IF i <= Len(s) THEN s[i] ELSE Bookmark
  BY Extended, BookmarkType DEF Repeat
<1>. HIDE DEF t
<1>3. ASSUME NEW i \in DOMAIN t PROVE InRaw(t[i])
  BY <1>1, <1>2, <1>3, BookmarkType DEF AllInRaw
<1>4. AllInRaw(t)
  BY <1>3 DEF AllInRaw
<1>. QED BY <1>2, <1>4 DEF t

\* What is read of an index file that an abort stops being read.
LEMMA MarksRead ==
    ASSUME NEW s \in Seq(Mark), AllInRaw(s), NEW n \in 0..Len(s)
    PROVE  SubSeq(s, 1, n) \in Seq(Mark) /\ AllInRaw(SubSeq(s, 1, n))
<1>. DEFINE t == SubSeq(s, 1, n)
<1>1. Len(s) \in Nat /\ DOMAIN s = 1..Len(s) /\ \A i \in 1..Len(s) : s[i] \in Mark
  BY LenProperties, ElementOfSeq
<1>2. \A i \in 1..n : i \in 1..Len(s)
  BY <1>1
<1>3. /\ t \in Seq(Mark) /\ Len(t) = n
      /\ \A i \in 1..n : t[i] = s[i]
  <2>1. \A i \in 1..n : s[i] \in Mark
    BY <1>1, <1>2
  <2>. QED BY <1>1, <2>1, SubSeqProperties
<1>4. DOMAIN t = 1..n
  BY <1>3, LenProperties
<1>. HIDE DEF t
<1>. QED BY <1>1, <1>2, <1>3, <1>4 DEF AllInRaw, t

LEMMA NoBuildType ==
    /\ NoBuild \in BuildType /\ NoBuild.marks = <<>> /\ NoBuild.off = 1 /\ NoBuild.next = 1
    /\ NoBuild.ts = NoTime
    /\ NoFile \in DiskType /\ NoFile.marks = <<>> /\ ~NoFile.magic /\ ~NoFile.exists
    /\ <<>> \in Seq(Mark) /\ AllInRaw(<<>>)
BY IndexAssumption DEF NoBuild, NoFile, BuildType, DiskType, Value, AllInRaw

LEMMA IndexTypesInit == Init => IndexTypes
<1>. SUFFICES ASSUME Init PROVE IndexTypes
  OBVIOUS
<1>1. raw \in Recordings /\ Len(raw) \in Nat
  BY RecordingFacts DEF Init
<1>2. /\ disk = NoFile /\ proc = "closed" /\ status = "NotBuilt" /\ index = <<>>
      /\ abort = FALSE /\ closing = FALSE /\ writing = FALSE /\ b = NoBuild
  BY DEF Init
<1>3. InRaw(b) /\ b.next <= Len(raw) + 1
  BY <1>1, <1>2, NoBuildType DEF InRaw
<1>. QED BY <1>1, <1>2, <1>3, NoBuildType DEF IndexTypes, Procs

LEMMA GrowTypes ==
    ASSUME IndexTypes, Grow
    PROVE  raw' \in Recordings /\ Len(raw') = Len(raw) + 1
<1>. PICK t \in Times : Append(raw, t) \in Recordings /\ raw' = Append(raw, t)
  BY DEF Grow
<1>1. raw \in Seq(Value)
  BY RecordingFacts DEF IndexTypes
<1>. QED BY <1>1, AppendProperties DEF Value

\* An event of the recording that is about to be decoded.
LEMMA NextEvent ==
    ASSUME IndexTypes, MoreEvents
    PROVE  /\ b.next \in 1..Len(raw) /\ Len(raw) <= MaxEvents /\ Len(raw) \in Nat
           /\ raw[b.next] \in Value
           /\ raw[b.next] # NoTime => /\ b.next \in Timed(raw) /\ raw[b.next] \in Nat
                                      /\ raw[b.next] \div Period = PeriodOf(raw, b.next)
                                      /\ PeriodOf(raw, b.next) \in Nat
<1>1. /\ raw \in Recordings /\ b.next \in 1..MaxEvents + 1 /\ b.next <= Len(raw)
      /\ MaxEvents \in Nat
  BY IndexAssumption DEF IndexTypes, BuildType, MoreEvents
<1>2. Len(raw) \in 0..MaxEvents /\ raw \in Seq(Value) /\ DOMAIN raw = 1..Len(raw)
  BY <1>1, RecordingFacts
<1>3. b.next \in 1..Len(raw) /\ Len(raw) <= MaxEvents /\ Len(raw) \in Nat
  BY <1>1, <1>2
<1>4. raw[b.next] \in Value
  BY <1>2, <1>3, ElementOfSeq
<1>5. ASSUME raw[b.next] # NoTime
      PROVE  b.next \in Timed(raw)
  BY <1>2, <1>3, <1>5 DEF Timed
<1>. QED BY <1>1, <1>3, <1>4, <1>5, RecordingFacts, PeriodFacts DEF PeriodOf

\* The two outcomes of the event that is decoded, with the fields of b'.
LEMMA EventEffect ==
    ASSUME IndexTypes, BuildEvent
    PROVE  /\ MoreEvents /\ proc = "build" /\ UNCHANGED <<raw, abort, closing, writing>>
           /\ \/ /\ raw[b.next] = NoTime \/ PeriodOf(raw, b.next) + 1 <= Len(b.marks)
                 /\ b' = [b EXCEPT !.next = @ + 1]
                 /\ UNCHANGED <<disk, proc, status, index>>
              \/ /\ raw[b.next] # NoTime /\ Len(b.marks) < PeriodOf(raw, b.next) + 1
                 /\ \E n \in Nat : /\ Len(b.marks) + n = PeriodOf(raw, b.next) + 1
                                   /\ b' = [b EXCEPT !.next = @ + 1, !.ts = raw[b.next], !.off = b.next,
                                                     !.marks = b.marks \o Repeat(n)]
                                   /\ disk' = IF writing THEN [disk EXCEPT !.marks = @ \o Repeat(n)]
                                              ELSE disk
                 /\ UNCHANGED <<proc, status, index>>
              \/ /\ writing /\ proc' = "ready" /\ status' = "Bad" /\ index' = <<>>
                 /\ UNCHANGED <<b, disk>>
<1>. DEFINE t == raw[b.next]
            k == t \div Period + 1
<1>1. MoreEvents /\ proc = "build" /\ UNCHANGED <<raw, abort, closing, writing>>
  BY DEF BuildEvent
<1>2. t # NoTime => k = PeriodOf(raw, b.next) + 1 /\ k \in Nat
  BY <1>1, NextEvent
<1>3. Len(b.marks) \in Nat /\ b.marks \in Seq(Mark) /\ b \in BuildType
  BY LenProperties DEF IndexTypes, BuildType
<1>4. CASE t = NoTime \/ k <= Len(b.marks)
  BY <1>1, <1>2, <1>4 DEF BuildEvent
<1>5. CASE ~(t = NoTime \/ k <= Len(b.marks))
  <2>. DEFINE n == k - Len(b.marks)
              then == [b EXCEPT !.next = @ + 1, !.ts = t, !.off = b.next]
  <2>1. n \in Nat /\ Len(b.marks) + n = PeriodOf(raw, b.next) + 1
        /\ t # NoTime /\ Len(b.marks) < PeriodOf(raw, b.next) + 1
    BY <1>2, <1>3, <1>5
  <2>2. AddBookmarks(n, then)
    BY <1>5 DEF BuildEvent
  <2>3. CASE /\ b' = [then EXCEPT !.marks = b.marks \o Repeat(n)]
             /\ disk' = IF writing THEN [disk EXCEPT !.marks = @ \o Repeat(n)] ELSE disk
             /\ UNCHANGED <<proc, status, index>>
    <3>1. b' = [b EXCEPT !.next = @ + 1, !.ts = t, !.off = b.next,
                         !.marks = b.marks \o Repeat(n)]
      BY <2>3
    <3>. HIDE DEF n
    <3>. QED BY <1>1, <2>1, <2>3, <3>1
  <2>. QED BY <1>1, <2>2, <2>3 DEF AddBookmarks, Finish
<1>. QED BY <1>4, <1>5

LEMMA IndexTypesStep == IndexTypes /\ [Next]_vars => IndexTypes'
<1>. SUFFICES ASSUME IndexTypes, [Next]_vars PROVE IndexTypes'
  OBVIOUS
<1>1. /\ raw \in Recordings /\ Len(raw) \in Nat /\ Len(raw) <= MaxEvents /\ MaxEvents \in Nat
      /\ disk \in DiskType /\ b \in BuildType /\ disk.marks \in Seq(Mark)
      /\ b.marks \in Seq(Mark) /\ b.next \in 1..MaxEvents + 1
  BY RecordingFacts, IndexAssumption DEF IndexTypes, DiskType, BuildType
<1>3. CASE Grow
  <2>1. /\ raw' \in Recordings /\ Len(raw') = Len(raw) + 1
        /\ UNCHANGED <<disk, proc, status, index, abort, closing, writing, b>>
    BY <1>3, GrowTypes DEF Grow
  <2>2. \A l \in Nat : l <= Len(raw) => l <= Len(raw')
    BY <1>1, <2>1
  <2>3. \A m \in Mark : InRaw(m) => InRaw(m)'
    BY <1>1, <2>1 DEF InRaw, Mark
  <2>4. \A s \in Seq(Mark) : AllInRaw(s) => AllInRaw(s)'
    <3>1. \A s \in Seq(Mark) : \A i \in DOMAIN s : s[i] \in Mark
      BY ElementOfSeq, LenProperties
    <3>. QED BY <2>3, <3>1 DEF AllInRaw
  <2>5. InRaw(b)' /\ b.next <= Len(raw') + 1
    BY <1>1, <2>1 DEF IndexTypes, InRaw, BuildType
  <2>6. AllInRaw(index)' /\ AllInRaw(disk.marks)' /\ AllInRaw(b.marks)'
    BY <1>1, <2>1, <2>4 DEF IndexTypes, AllInRaw
  <2>. QED BY <2>1, <2>5, <2>6 DEF IndexTypes
<1>4. ASSUME UNCHANGED raw,
             disk' \in DiskType /\ (disk'.magic => disk'.exists) /\ AllInRaw(disk'.marks),
             b' \in BuildType /\ AllInRaw(b'.marks) /\ InRaw(b') /\ b'.next <= Len(raw) + 1,
             index' \in Seq(Mark) /\ AllInRaw(index'),
             proc' \in Procs /\ status' \in {"NotBuilt", "Building", "Good", "Bad"},
             abort' \in BOOLEAN /\ closing' \in BOOLEAN /\ writing' \in BOOLEAN,
             proc' \in {"build", "magic"} /\ writing' => disk'.exists
      PROVE  IndexTypes'
  BY <1>1, <1>4 DEF IndexTypes, AllInRaw, InRaw
<1>5. CASE Open \/ Close \/ Closed \/ Crash \/ UNCHANGED vars
  <2>1. InRaw(NoBuild) /\ NoBuild.next <= Len(raw) + 1
    BY <1>1, NoBuildType DEF InRaw
  <2>2. CASE Closed \/ Crash
    <3>1. Forget
      BY <2>2 DEF Closed, Crash
    <3>. QED BY <1>4, <2>1, <3>1, NoBuildType DEF Forget, IndexTypes, Procs
  <2>3. CASE Open
    BY <1>4, <2>3 DEF Open, IndexTypes, Procs
  <2>4. CASE Close
    BY <1>4, <2>4 DEF Close, IndexTypes
  <2>5. CASE UNCHANGED vars
    BY <1>4, <2>5 DEF vars, IndexTypes
  <2>. QED BY <1>5, <2>2, <2>3, <2>4, <2>5
<1>6. CASE ThreadBegin
  BY <1>4, <1>6 DEF ThreadBegin, IndexTypes, Procs
<1>7. CASE Check
  BY <1>4, <1>7 DEF Check, IndexTypes, Procs
<1>8. CASE Load
  <2>1. PICK n \in 0..Len(disk.marks) :
           /\ index' = SubSeq(disk.marks, 1, n) /\ proc' = "ready" /\ status' \in {"Good", "Bad"}
    BY <1>8 DEF Load, Finish
  <2>2. index' \in Seq(Mark) /\ AllInRaw(index')
    BY <1>1, <2>1, MarksRead DEF IndexTypes
  <2>. QED BY <1>4, <1>8, <2>1, <2>2 DEF Load, IndexTypes, Procs
<1>9. CASE Create
  <2>1. InRaw(NoBuild) /\ NoBuild.next <= Len(raw) + 1
    BY <1>1, NoBuildType DEF InRaw
  <2>2. \/ writing' = TRUE /\ disk' = [NoFile EXCEPT !.exists = TRUE, !.size = Len(raw)]
        \/ writing' = FALSE /\ disk' = disk
    BY <1>9 DEF Create
  <2>3. /\ disk' \in DiskType /\ (disk'.magic => disk'.exists) /\ AllInRaw(disk'.marks)
        /\ writing' \in BOOLEAN /\ (writing' => disk'.exists)
    BY <1>1, <2>2, NoBuildType DEF IndexTypes, DiskType
  <2>4. UNCHANGED <<raw, status, index, abort, closing>> /\ proc' = "build" /\ b' = NoBuild
    BY <1>9 DEF Create
  <2>. QED BY <1>4, <2>1, <2>3, <2>4, NoBuildType DEF IndexTypes, Procs
<1>10. CASE BuildHeader
  <2>1. b' = [b EXCEPT !.shift = TRUE]
    BY <1>10 DEF BuildHeader
  <2>2. b' \in BuildType /\ AllInRaw(b'.marks) /\ InRaw(b') /\ b'.next <= Len(raw) + 1
    BY <1>1, <2>1 DEF BuildType, IndexTypes, InRaw
  <2>3. /\ disk' = disk \/ disk' = [disk EXCEPT !.header = TRUE]
        /\ writing' = writing \/ writing' = FALSE
        /\ UNCHANGED <<raw, proc, status, index, abort, closing>>
    BY <1>10 DEF BuildHeader
  <2>4. disk' \in DiskType /\ disk'.magic = disk.magic /\ disk'.exists = disk.exists
        /\ disk'.marks = disk.marks
    BY <1>1, <2>3 DEF DiskType
  <2>5. AllInRaw(disk'.marks)
    BY <2>4 DEF IndexTypes
  <2>6. proc' \in {"build", "magic"} /\ writing' => disk'.exists
    BY <2>3, <2>4 DEF IndexTypes
  <2>7. writing' \in BOOLEAN /\ (disk'.magic => disk'.exists)
    BY <2>3, <2>4 DEF IndexTypes
  <2>. QED BY <1>4, <2>2, <2>3, <2>4, <2>5, <2>6, <2>7 DEF IndexTypes
<1>11. CASE BuildEvent
  <2>1. b.next \in 1..Len(raw) /\ raw[b.next] \in Value
    BY <1>11, EventEffect, NextEvent
  <2>2. UNCHANGED <<raw, abort, closing, writing>> /\ proc = "build"
    BY <1>11, EventEffect
  <2>3. CASE b' = [b EXCEPT !.next = @ + 1] /\ UNCHANGED <<disk, proc, status, index>>
    <3>1. b.next + 1 \in 1..MaxEvents + 1 /\ b.next + 1 <= Len(raw) + 1
      BY <1>1, <2>1
    <3>2. b' \in BuildType /\ b'.next = b.next + 1 /\ b'.marks = b.marks /\ b'.off = b.off
      BY <1>1, <2>3, <3>1 DEF BuildType
    <3>3. AllInRaw(b'.marks) /\ InRaw(b') /\ b'.next <= Len(raw) + 1
      BY <3>1, <3>2 DEF IndexTypes, InRaw
    <3>. QED BY <1>4, <2>2, <2>3, <3>2, <3>3 DEF IndexTypes
  <2>4. ASSUME NEW n \in Nat,
               b' = [b EXCEPT !.next = @ + 1, !.ts = raw[b.next], !.off = b.next,
                              !.marks = b.marks \o Repeat(n)],
               disk' = IF writing THEN [disk EXCEPT !.marks = @ \o Repeat(n)] ELSE disk,
               UNCHANGED <<proc, status, index>>
        PROVE  IndexTypes'
    <3>. DEFINE s == b.marks \o Repeat(n)
                t == disk.marks \o Repeat(n)
    <3>1. s \in Seq(Mark) /\ AllInRaw(s) /\ t \in Seq(Mark) /\ AllInRaw(t)
      BY <1>1, MarksAdded DEF IndexTypes
    <3>2. /\ b' = [b EXCEPT !.next = @ + 1, !.ts = raw[b.next], !.off = b.next, !.marks = s]
          /\ disk' = IF writing THEN [disk EXCEPT !.marks = t] ELSE disk
      BY <2>4
    <3>. HIDE DEF s, t
    <3>3. b' \in BuildType /\ AllInRaw(b'.marks) /\ InRaw(b') /\ b'.next <= Len(raw) + 1
      <4>1. b.next + 1 \in 1..MaxEvents + 1 /\ b.next + 1 <= Len(raw) + 1 /\ b.next <= Len(raw)
        BY <1>1, <2>1
      <4>2. b.next \in 1..MaxEvents + 1
        BY <1>1
      <4>3. b' \in BuildType /\ b'.next = b.next + 1 /\ b'.marks = s /\ b'.off = b.next
        BY <1>1, <2>1, <3>1, <3>2, <4>1, <4>2 DEF BuildType
      <4>. QED BY <3>1, <4>1, <4>3 DEF InRaw
    <3>4. disk' \in DiskType /\ disk'.magic = disk.magic /\ disk'.exists = disk.exists
          /\ AllInRaw(disk'.marks)
      BY <1>1, <3>1, <3>2 DEF DiskType, IndexTypes
    <3>. QED BY <1>4, <2>2, <2>4, <3>3, <3>4 DEF IndexTypes
  <2>5. CASE /\ proc' = "ready" /\ status' = "Bad" /\ index' = <<>>
             /\ UNCHANGED <<b, disk>>
    BY <1>4, <2>2, <2>5, NoBuildType DEF IndexTypes, Procs
  <2>. QED BY <1>11, <2>3, <2>4, <2>5, EventEffect
<1>12. CASE BuildLast
  <2>1. UNCHANGED <<raw, abort, closing, writing>> /\ proc = "build"
    BY <1>12 DEF BuildLast
  <2>2. CASE /\ proc' = "magic"
             /\ b' = [b EXCEPT !.marks = @ \o Repeat(1)]
             /\ disk' = IF writing THEN [disk EXCEPT !.marks = @ \o Repeat(1)] ELSE disk
             /\ UNCHANGED <<status, index>>
    <3>. DEFINE s == b.marks \o Repeat(1)
                t == disk.marks \o Repeat(1)
    <3>1. s \in Seq(Mark) /\ AllInRaw(s) /\ t \in Seq(Mark) /\ AllInRaw(t)
      BY <1>1, MarksAdded DEF IndexTypes
    <3>2. /\ b' = [b EXCEPT !.marks = s]
          /\ disk' = IF writing THEN [disk EXCEPT !.marks = t] ELSE disk
      BY <2>2
    <3>. HIDE DEF s, t
    <3>3. b' \in BuildType /\ AllInRaw(b'.marks) /\ InRaw(b') /\ b'.next <= Len(raw) + 1
      BY <1>1, <3>1, <3>2 DEF BuildType, InRaw, IndexTypes
    <3>4. disk' \in DiskType /\ disk'.magic = disk.magic /\ disk'.exists = disk.exists
          /\ AllInRaw(disk'.marks)
      BY <1>1, <3>1, <3>2 DEF DiskType, IndexTypes
    <3>. QED BY <1>4, <2>1, <2>2, <3>3, <3>4 DEF IndexTypes, Procs
  <2>3. CASE /\ proc' = "ready" /\ status' = "Bad" /\ index' = <<>>
             /\ UNCHANGED <<b, disk>>
    BY <1>4, <2>1, <2>3, NoBuildType DEF IndexTypes, Procs
  <2>. QED BY <1>12, <2>2, <2>3 DEF BuildLast, Finish
<1>13. CASE BuildMagic
  <2>1. /\ UNCHANGED <<raw, abort, closing, writing, b>> /\ proc = "magic"
        /\ \/ /\ proc' = "return" /\ UNCHANGED <<status, index>>
              /\ disk' = IF writing THEN [disk EXCEPT !.magic = TRUE] ELSE disk
           \/ proc' = "ready" /\ status' = "Bad" /\ index' = <<>> /\ UNCHANGED disk
    BY <1>13 DEF BuildMagic, Finish
  <2>2. /\ disk' \in DiskType /\ disk'.exists = disk.exists /\ disk'.marks = disk.marks
        /\ disk'.magic => disk.magic \/ writing
    BY <1>1, <2>1 DEF DiskType
  <2>. QED BY <1>4, <2>1, <2>2, NoBuildType DEF IndexTypes, Procs
<1>14. CASE BuildReturn
  <2>1. /\ UNCHANGED <<raw, disk, abort, closing, writing, b>>
        /\ \/ proc' = "remove" /\ UNCHANGED <<status, index>>
           \/ proc' = "ready" /\ status' = "Good" /\ index' = b.marks
    BY <1>14 DEF BuildReturn, Finish
  <2>. QED BY <1>1, <1>4, <2>1 DEF IndexTypes, Procs
<1>15. CASE Remove
  <2>1. /\ UNCHANGED <<raw, abort, closing, writing, b>> /\ proc' = "ready"
        /\ \/ disk' = NoFile /\ status' = "Bad" /\ index' = <<>>
           \/ UNCHANGED <<disk, status, index>>
    BY <1>15 DEF Remove, Finish
  <2>. QED BY <1>1, <1>4, <2>1, NoBuildType DEF IndexTypes, Procs
<1>16. CASE BuildThrows
  <2>1. UNCHANGED <<raw, disk, status, index, abort, closing, writing, b>> /\ proc' = "ready"
    BY <1>16 DEF BuildThrows
  <2>. QED BY <1>1, <1>4, <2>1 DEF IndexTypes, Procs
<1>. QED BY <1>3, <1>5, <1>6, <1>7, <1>8, <1>9, <1>10, <1>11, <1>12, <1>13, <1>14, <1>15, <1>16
     DEF Next, ThreadStep

\* Whatever crashes, fails or is aborted, each bookmark, in memory or in the
\* file, lies in the recording: for recordings of any length.
THEOREM IndexTypeOK == Spec => []TypeOK
<1>1. IndexTypes => TypeOK
  <2>. SUFFICES ASSUME IndexTypes PROVE TypeOK
    OBVIOUS
  <2>1. raw = <<>> \/ Len(raw) >= 1
    BY RecordingFacts, EmptySeq, LenProperties DEF IndexTypes
  <2>2. \A i \in DOMAIN index : index[i].off <= Len(raw) \/ raw = <<>>
    BY <2>1 DEF IndexTypes, AllInRaw, InRaw
  <2>. QED BY <2>2 DEF IndexTypes, DiskType, BuildType, Procs, TypeOK
<1>. QED BY <1>1, IndexTypesInit, IndexTypesStep, PTL DEF Spec, Safety

-----------------------------------------------------------------------------
(* The build.                                                              *)

\* The bookmark that the build adds for period k: no event that is still to be
\* decoded lies before that period.
LEMMA BookmarkIsRight ==
    ASSUME IndexTypes, Building, NEW k \in Nat, k >= Len(b.marks),
           \A i \in Timed(raw) : i >= b.next => PeriodOf(raw, i) >= k
    PROVE  Bookmark = BookmarkFor(raw, k)
<1>1. raw \in Recordings /\ Len(b.marks) \in Nat /\ b.next \in Nat
  BY LenProperties DEF IndexTypes, BuildType
<1>2. \A i \in Timed(raw) : PeriodOf(raw, i) \in Nat /\ i \in Nat
  BY <1>1, PeriodFacts, RecordingFacts
<1>3. IsMark(raw, k, Bookmark)
  <2>1. CASE Len(b.marks) = 0
    <3>1. Bookmark = [ts |-> NoTime, off |-> 1] /\ \A i \in Timed(raw) : i >= b.next
      BY <2>1 DEF Building, Bookmark
    <3>2. NoneBefore(raw, k)
      BY <3>1 DEF NoneBefore
    <3>. QED BY <3>1, <3>2 DEF IsMark
  <2>2. CASE Len(b.marks) # 0
    <3>1. /\ b.off \in Timed(raw) /\ b.off < b.next /\ b.ts = raw[b.off]
          /\ PeriodOf(raw, b.off) = Len(b.marks) - 1
          /\ \A i \in Timed(raw) : i < b.next => PeriodOf(raw, i) <= Len(b.marks) - 1
          /\ \A i \in Timed(raw) : PeriodOf(raw, i) = Len(b.marks) - 1 => b.off <= i
      BY <2>2 DEF Building
    <3>2. \A i \in Timed(raw) : PeriodOf(raw, i) < k => i < b.next
      BY <1>1, <1>2
    <3>3. IsLastBefore(raw, k, b.off)
      BY <1>1, <3>1, <3>2 DEF IsLastBefore
    <3>. QED BY <3>1, <3>3 DEF IsMark, Bookmark
  <2>. QED BY <2>1, <2>2
<1>. QED BY <1>1, <1>3, MarkIs

\* The bookmarks that the build adds up to period p.
LEMMA MarksAreRight ==
    ASSUME IndexTypes, Building, NEW n \in Nat,
           \A i \in Timed(raw) : i >= b.next => PeriodOf(raw, i) >= Len(b.marks) + n - 1,
           NEW marks, marks = b.marks \o Repeat(n)
    PROVE  /\ Len(marks) = Len(b.marks) + n /\ DOMAIN marks = 1..Len(b.marks) + n
           /\ Len(b.marks) \in Nat
           /\ \A k \in 1..Len(b.marks) + n : marks[k] = BookmarkFor(raw, k - 1)
<1>1. b.marks \in Seq(Mark) /\ Len(b.marks) \in Nat
  BY LenProperties DEF IndexTypes, BuildType
<1>2. /\ Len(marks) = Len(b.marks) + n /\ DOMAIN marks = 1..Len(b.marks) + n
      /\ \A k \in 1..Len(b.marks) + n : marks[k] = IF k <= Len(b.marks) THEN b.marks[k] ELSE Bookmark
  <2>1. marks = b.marks \o [i \in 1..n |-> Bookmark]
    BY DEF Repeat
  <2>. QED BY <1>1, <2>1, Extended, BookmarkType
<1>3. ASSUME NEW k \in 1..Len(b.marks) + n, ~(k <= Len(b.marks))
      PROVE  Bookmark = BookmarkFor(raw, k - 1)
  <2>1. k - 1 \in Nat /\ k - 1 >= Len(b.marks) /\ k - 1 <= Len(b.marks) + n - 1
    BY <1>1, <1>3
  <2>2. \A i \in Timed(raw) : PeriodOf(raw, i) \in Nat
    BY PeriodFacts DEF IndexTypes
  <2>3. \A i \in Timed(raw) : i >= b.next => PeriodOf(raw, i) >= k - 1
    BY <1>1, <2>1, <2>2
  <2>. QED BY <2>1, <2>3, BookmarkIsRight
<1>4. \A k \in 1..Len(b.marks) + n : k <= Len(b.marks) => b.marks[k] = BookmarkFor(raw, k - 1)
  BY <1>1 DEF Building
<1>. QED BY <1>1, <1>2, <1>3, <1>4

LEMMA BuildingKept ==
    ASSUME IndexTypes, Building, BuildEvent, proc' = "build"
    PROVE  Building'
<1>1. /\ raw' = raw /\ raw \in Recordings /\ b \in BuildType
      /\ Len(b.marks) \in Nat /\ b.next \in Nat /\ b.marks \in Seq(Mark)
  <2>1. raw' = raw
    BY EventEffect
  <2>. QED BY <2>1, LenProperties DEF IndexTypes, BuildType
<1>2. \A i \in Timed(raw) : PeriodOf(raw, i) \in Nat /\ i \in Nat
  BY <1>1, PeriodFacts, RecordingFacts
<1>3. CASE /\ raw[b.next] = NoTime \/ PeriodOf(raw, b.next) + 1 <= Len(b.marks)
           /\ b' = [b EXCEPT !.next = @ + 1]
  <2>1. /\ b'.next = b.next + 1 /\ b'.marks = b.marks /\ b'.off = b.off /\ b'.ts = b.ts
    BY <1>1, <1>3 DEF BuildType
  <2>2. b.next \in Timed(raw) => PeriodOf(raw, b.next) <= Len(b.marks) - 1
    BY <1>1, <1>2, <1>3 DEF Timed
  <2>3. \A i \in Timed(raw) : i < b.next + 1 => i < b.next \/ i = b.next
    BY <1>1, <1>2
  <2>4. CASE Len(b.marks) = 0
    <3>1. b.ts = NoTime /\ b.off = 1 /\ \A i \in Timed(raw) : i >= b.next
      BY <2>4 DEF Building
    <3>2. b.next \notin Timed(raw)
      BY <1>2, <2>2, <2>4
    <3>3. \A i \in Timed(raw) : i >= b.next + 1
      BY <1>1, <1>2, <3>1, <3>2
    <3>. QED BY <1>1, <2>1, <2>4, <3>1, <3>3 DEF Building
  <2>5. CASE Len(b.marks) # 0
    <3>1. /\ b.off \in Timed(raw) /\ b.off < b.next /\ b.ts = raw[b.off]
          /\ PeriodOf(raw, b.off) = Len(b.marks) - 1
          /\ \A i \in Timed(raw) : i < b.next => PeriodOf(raw, i) <= Len(b.marks) - 1
          /\ \A i \in Timed(raw) : PeriodOf(raw, i) = Len(b.marks) - 1 => b.off <= i
      BY <2>5 DEF Building
    <3>2. b.off < b.next + 1
      BY <1>1, <1>2, <3>1
    <3>3. \A i \in Timed(raw) : i < b.next + 1 => PeriodOf(raw, i) <= Len(b.marks) - 1
      BY <2>2, <2>3, <3>1
    <3>. QED BY <1>1, <2>1, <2>5, <3>1, <3>2, <3>3 DEF Building
  <2>. QED BY <2>4, <2>5
<1>4. ASSUME raw[b.next] # NoTime, Len(b.marks) < PeriodOf(raw, b.next) + 1,
             NEW n \in Nat, Len(b.marks) + n = PeriodOf(raw, b.next) + 1,
             b' = [b EXCEPT !.next = @ + 1, !.ts = raw[b.next], !.off = b.next,
                            !.marks = b.marks \o Repeat(n)]
      PROVE  Building'
  <2>. DEFINE p == PeriodOf(raw, b.next)
  <2>1. b.next \in Timed(raw) /\ p \in Nat
    BY <1>4, NextEvent, EventEffect
  <2>2. /\ b'.next = b.next + 1 /\ b'.ts = raw[b.next] /\ b'.off = b.next
        /\ b'.marks = b.marks \o Repeat(n)
    BY <1>1, <1>4 DEF BuildType
  <2>3. \A i \in Timed(raw) : i >= b.next => PeriodOf(raw, i) >= p
    BY <1>1, <1>2, <2>1, PeriodFacts
  <2>4. \A i \in Timed(raw) : i < b.next + 1 => PeriodOf(raw, i) <= p
    BY <1>1, <1>2, <2>1, PeriodFacts
  <2>5. Len(b.marks) + n = p + 1 /\ p >= Len(b.marks) /\ Len(b.marks) + n - 1 = p
    BY <1>1, <1>4, <2>1
  <2>6. ASSUME NEW i \in Timed(raw), PeriodOf(raw, i) = p, i < b.next PROVE FALSE
    <3>1. CASE Len(b.marks) = 0
      BY <1>1, <1>2, <2>6, <3>1 DEF Building
    <3>2. CASE Len(b.marks) # 0
      <4>1. PeriodOf(raw, i) <= Len(b.marks) - 1
        BY <2>6, <3>2 DEF Building
      <4>. QED BY <1>1, <2>1, <2>5, <2>6, <4>1
    <3>. QED BY <3>1, <3>2
  <2>7. \A i \in Timed(raw) : PeriodOf(raw, i) = p => b.next <= i
    BY <1>1, <1>2, <2>6
  <2>8. /\ Len(b'.marks) = p + 1
        /\ \A k \in 1..p + 1 : b'.marks[k] = BookmarkFor(raw, k - 1)
    <3>1. \A i \in Timed(raw) : i >= b.next => PeriodOf(raw, i) >= Len(b.marks) + n - 1
      BY <2>3, <2>5
    <3>. HIDE DEF p
    <3>2. /\ Len(b'.marks) = Len(b.marks) + n
          /\ \A k \in 1..Len(b.marks) + n : b'.marks[k] = BookmarkFor(raw, k - 1)
      BY <2>2, <3>1, MarksAreRight
    <3>. QED BY <2>5, <3>2
  <2>9. p + 1 # 0 /\ p + 1 - 1 = p /\ b.next < b.next + 1
    BY <1>1, <2>1
  <2>10. PeriodOf(raw, b.next) = p
    OBVIOUS
  <2>. HIDE DEF p
  <2>. QED BY SMTT(30), <1>1, <2>1, <2>2, <2>4, <2>7, <2>8, <2>9, <2>10 DEF Building
<1>. QED BY <1>3, <1>4, EventEffect

\* At the end of the recording the last bookmark completes the index.
LEMMA LastBookmark ==
    ASSUME IndexTypes, Building, b.next > Len(raw)
    PROVE  b.marks \o Repeat(1) = IndexOf(raw)
<1>. DEFINE n == Len(b.marks)
            marks == b.marks \o Repeat(1)
<1>1. raw \in Recordings /\ n \in Nat /\ b.next \in Nat /\ Len(raw) \in Nat
  BY LenProperties, RecordingFacts DEF IndexTypes, BuildType
<1>2. \A i \in Timed(raw) : i \in Nat /\ i < b.next
  BY <1>1, RecordingFacts
<1>3. /\ DOMAIN marks = 1..n + 1 /\ \A k \in 1..n + 1 : marks[k] = BookmarkFor(raw, k - 1)
  <2>1. \A i \in Timed(raw) : ~(i >= b.next)
    BY <1>1, <1>2
  <2>. HIDE DEF marks
  <2>. QED BY <2>1, MarksAreRight DEF marks
<1>4. IF Timed(raw) = {} THEN n = 0
      ELSE \E e \in Timed(raw) : /\ n = PeriodOf(raw, e) + 1
                                 /\ \A i \in Timed(raw) : PeriodOf(raw, i) <= PeriodOf(raw, e)
  <2>1. CASE n = 0
    <3>1. Timed(raw) = {}
      BY <1>1, <1>2, <2>1 DEF Building
    <3>. QED BY <2>1, <3>1
  <2>2. CASE n # 0
    <3>1. /\ b.off \in Timed(raw) /\ PeriodOf(raw, b.off) = n - 1
          /\ \A i \in Timed(raw) : i < b.next => PeriodOf(raw, i) <= n - 1
      BY <2>2 DEF Building
    <3>. QED BY <1>1, <1>2, <3>1
  <2>. QED BY <2>1, <2>2
<1>5. IndexOf(raw) = [k \in 1..n + 1 |-> BookmarkFor(raw, k - 1)]
  BY <1>1, <1>4, IndexIs
<1>6. marks = [k \in DOMAIN marks |-> marks[k]]
  <2>1. b.marks \in Seq(Mark)
    BY DEF IndexTypes, BuildType
  <2>2. marks \in Seq(Mark)
    BY <2>1, Extended, BookmarkType DEF Repeat
  <2>. HIDE DEF marks
  <2>. QED BY <2>2, SeqDef
<1>. HIDE DEF n, marks
<1>. QED BY <1>3, <1>5, <1>6 DEF marks

-----------------------------------------------------------------------------
(* The index is right, unless a crash leaves the file of an aborted build. *)

LEMMA IndexRightInit == Init => IndexRight
BY NoBuildType DEF Init, IndexRight, DiskRight, IndexIsRight, InUse

LEMMA IndexRightStep ==
    ASSUME ~CrashAnyTime, IndexTypes, IndexRight, [Next]_vars
    PROVE  IndexRight'
<1>1. raw \in Recordings /\ Len(raw) \in Nat /\ disk \in DiskType /\ b \in BuildType
  BY RecordingFacts DEF IndexTypes
<1>2. /\ abort \in BOOLEAN /\ closing \in BOOLEAN /\ writing \in BOOLEAN
      /\ proc # "ready" => status # "Good"
      /\ proc \notin {"return", "remove"} => DiskRight
      /\ ~abort => DiskRight
      /\ abort => closing
  BY DEF IndexTypes, IndexRight
<1>3. ASSUME UNCHANGED <<raw, disk>> PROVE DiskRight' <=> DiskRight
  BY <1>3 DEF DiskRight
<1>4. ASSUME UNCHANGED <<raw, disk, abort, closing, writing>>, proc' = "ready", status' = "Bad",
             proc \notin {"return", "remove"}
      PROVE  IndexRight'
  BY <1>2, <1>3, <1>4 DEF IndexRight, IndexIsRight, InUse
<1>5. CASE Grow
  <2>1. Len(raw') = Len(raw) + 1
    BY <1>5, GrowTypes
  <2>2. UNCHANGED <<disk, proc, status, index, abort, closing, writing, b>> /\ proc = "closed"
    BY <1>5 DEF Grow
  <2>3. DiskRight'
    <3>1. disk.magic => disk.size <= Len(raw) /\ disk.size \in Nat
      BY <1>1, <1>2, <2>2 DEF DiskRight, DiskType
    <3>2. disk.magic => disk.size <= Len(raw') /\ disk.size # Len(raw')
      BY <1>1, <2>1, <3>1
    <3>. QED BY <2>2, <3>2 DEF DiskRight
  <2>. QED BY <1>2, <2>2, <2>3 DEF IndexRight, IndexIsRight, InUse
<1>6. CASE Open
  <2>1. DiskRight'
    BY <1>2, <1>3, <1>6 DEF Open
  <2>. QED BY <1>2, <1>6, <2>1 DEF Open, IndexRight, IndexIsRight, InUse
<1>7. CASE Close
  <2>1. UNCHANGED <<raw, disk, proc, status, index, writing, b>> /\ closing' = TRUE /\ abort' = TRUE
    BY <1>7 DEF Close
  <2>2. /\ DiskRight' <=> DiskRight
        /\ LooksValid' <=> LooksValid
        /\ Building' <=> Building
    BY <2>1 DEF DiskRight, LooksValid, Building
  <2>. QED BY <1>2, <2>1, <2>2 DEF IndexRight, IndexIsRight, InUse
<1>8. CASE Closed \/ Crash
  <2>1. Forget /\ DiskRight
    BY <1>2, <1>8 DEF Closed, Crash
  <2>2. DiskRight'
    BY <1>3, <2>1 DEF Forget
  <2>. QED BY <2>1, <2>2 DEF Forget, IndexRight, IndexIsRight, InUse
<1>9. CASE ThreadBegin
  <2>1. DiskRight'
    BY <1>2, <1>3, <1>9 DEF ThreadBegin
  <2>. QED BY <1>2, <1>9, <2>1 DEF ThreadBegin, IndexRight, IndexIsRight, InUse
<1>10. CASE Check
  <2>1. DiskRight' /\ (LooksValid' <=> LooksValid)
    BY <1>2, <1>3, <1>10 DEF Check, LooksValid
  <2>. QED BY <1>2, <1>10, <2>1 DEF Check, IndexRight, IndexIsRight, InUse
<1>11. CASE Load
  <2>1. DiskRight /\ DiskRight' /\ LooksValid
    BY <1>2, <1>3, <1>11 DEF Load, IndexRight
  <2>2. disk.marks = IndexOf(raw) /\ disk.marks \in Seq(Mark)
    BY <1>1, <2>1 DEF DiskRight, LooksValid, DiskType
  <2>3. PICK n \in 0..Len(disk.marks) :
           /\ n = Len(disk.marks) \/ abort
           /\ index' = SubSeq(disk.marks, 1, n) /\ proc' = "ready"
           /\ UNCHANGED <<raw, disk, abort, closing, writing, b>>
    BY <1>11 DEF Load, Finish
  <2>4. ~closing => index' = IndexOf(raw)
    <3>1. SubSeq(disk.marks, 1, Len(disk.marks)) = disk.marks
      BY <2>2, SubSeqFull
    <3>. QED BY <1>2, <2>2, <2>3, <3>1
  <2>. QED BY <1>2, <2>1, <2>3, <2>4 DEF IndexRight, IndexIsRight, InUse
<1>12. CASE Create
  <2>1. UNCHANGED <<raw, status, index, abort, closing>> /\ proc = "create" /\ proc' = "build" /\ b' = NoBuild
        /\ \/ writing' = TRUE /\ disk' = [NoFile EXCEPT !.exists = TRUE, !.size = Len(raw)]
           \/ writing' = FALSE /\ disk' = disk
    BY <1>12 DEF Create
  <2>2. Building'
    <3>1. Len(<<>>) = 0 /\ \A i \in Timed(raw) : i >= 1
      BY <1>1, RecordingFacts
    <3>. QED BY <2>1, <3>1, NoBuildType DEF Building
  <2>3. DiskRight'
    <3>1. CASE disk' = disk
      BY <1>2, <1>3, <2>1, <3>1
    <3>2. CASE disk' = [NoFile EXCEPT !.exists = TRUE, !.size = Len(raw)]
      BY <3>2 DEF NoFile, DiskRight
    <3>. QED BY <2>1, <3>1, <3>2
  <2>4. writing' => disk'.marks = b'.marks /\ disk'.size = Len(raw) /\ ~disk'.magic
    BY <2>1, NoBuildType DEF NoFile
  <2>. QED BY <1>2, <2>1, <2>2, <2>3, <2>4 DEF IndexRight, IndexIsRight, InUse
<1>13. CASE BuildHeader
  <2>1. /\ UNCHANGED <<raw, proc, status, index, abort, closing>> /\ proc = "build"
        /\ b' = [b EXCEPT !.shift = TRUE]
        /\ \/ disk' = disk
           \/ disk' = [disk EXCEPT !.header = TRUE]
        /\ writing' => writing
    BY <1>13 DEF BuildHeader
  <2>2. b'.next = b.next /\ b'.ts = b.ts /\ b'.off = b.off /\ b'.marks = b.marks
    BY <1>1, <2>1 DEF BuildType
  <2>3. Building'
    BY <2>1, <2>2 DEF IndexRight, Building
  <2>4. disk'.magic = disk.magic /\ disk'.marks = disk.marks /\ disk'.size = disk.size
    BY <1>1, <2>1 DEF DiskType
  <2>5. DiskRight'
    BY <1>2, <2>1, <2>4 DEF DiskRight
  <2>6. writing' => disk'.marks = b'.marks /\ disk'.size = Len(raw) /\ ~disk'.magic
    BY <2>1, <2>2, <2>4 DEF IndexRight
  <2>. QED BY <1>2, <2>1, <2>3, <2>5, <2>6 DEF IndexRight, IndexIsRight, InUse
<1>14. CASE BuildEvent
  <2>1. UNCHANGED <<raw, abort, closing, writing>> /\ proc = "build" /\ Building
        /\ (writing => disk.marks = b.marks /\ disk.size = Len(raw) /\ ~disk.magic)
    BY <1>14, EventEffect DEF IndexRight
  <2>2. ASSUME UNCHANGED <<proc, status, index>>,
               writing => disk'.marks = b'.marks /\ disk'.size = Len(raw) /\ ~disk'.magic,
               ~writing => disk' = disk
        PROVE  IndexRight'
    <3>1. Building'
      BY <1>14, <2>1, <2>2, BuildingKept
    <3>2. DiskRight'
      BY <1>2, <1>3, <2>1, <2>2 DEF DiskRight
    <3>. QED BY <1>2, <2>1, <2>2, <3>1, <3>2 DEF IndexRight, IndexIsRight, InUse
  <2>3. CASE b' = [b EXCEPT !.next = @ + 1] /\ UNCHANGED <<disk, proc, status, index>>
    <3>1. b'.marks = b.marks
      BY <1>1, <2>3 DEF BuildType
    <3>. QED BY <2>1, <2>2, <2>3, <3>1
  <2>4. ASSUME NEW n \in Nat,
               b' = [b EXCEPT !.next = @ + 1, !.ts = raw[b.next], !.off = b.next,
                              !.marks = b.marks \o Repeat(n)],
               disk' = IF writing THEN [disk EXCEPT !.marks = @ \o Repeat(n)] ELSE disk,
               UNCHANGED <<proc, status, index>>
        PROVE  IndexRight'
    <3>1. b'.marks = b.marks \o Repeat(n)
      BY <1>1, <2>4 DEF BuildType
    <3>2. writing => /\ disk'.marks = disk.marks \o Repeat(n) /\ disk'.size = disk.size
                     /\ disk'.magic = disk.magic
      BY <1>1, <2>4 DEF DiskType
    <3>. QED BY <2>1, <2>2, <2>4, <3>1, <3>2
  <2>5. CASE /\ proc' = "ready" /\ status' = "Bad" /\ index' = <<>>
             /\ UNCHANGED <<b, disk>>
    BY <1>4, <2>1, <2>5
  <2>. QED BY <1>14, <2>3, <2>4, <2>5, EventEffect
<1>15. CASE BuildLast
  <2>1. UNCHANGED <<raw, abort, closing, writing>> /\ proc = "build" /\ Building /\ ~MoreEvents
        /\ (writing => disk.marks = b.marks /\ disk.size = Len(raw) /\ ~disk.magic)
    BY <1>15 DEF BuildLast, IndexRight
  <2>2. CASE /\ proc' = "magic"
             /\ b' = [b EXCEPT !.marks = @ \o Repeat(1)]
             /\ disk' = IF writing THEN [disk EXCEPT !.marks = @ \o Repeat(1)] ELSE disk
             /\ UNCHANGED <<status, index>>
    <3>1. b'.marks = b.marks \o Repeat(1)
      BY <1>1, <2>2 DEF BuildType
    <3>2. writing => disk'.marks = b'.marks /\ disk'.size = Len(raw) /\ ~disk'.magic
      BY <1>1, <2>1, <2>2, <3>1 DEF DiskType
    <3>3. abort \/ b'.marks = IndexOf(raw)
      <4>1. ~abort => b.next > Len(raw)
        BY <1>1, <1>2, <2>1 DEF MoreEvents, BuildType
      <4>. QED BY <2>1, <3>1, <4>1, LastBookmark
    <3>4. DiskRight'
      BY <1>2, <1>3, <2>1, <2>2, <3>2 DEF DiskRight
    <3>. QED BY <1>2, <2>1, <2>2, <3>2, <3>3, <3>4 DEF IndexRight, IndexIsRight, InUse
  <2>3. CASE /\ proc' = "ready" /\ status' = "Bad" /\ index' = <<>>
             /\ UNCHANGED <<b, disk>>
    BY <1>4, <2>1, <2>3
  <2>. QED BY <1>15, <2>2, <2>3 DEF BuildLast, Finish
<1>16. CASE BuildMagic
  <2>1. UNCHANGED <<raw, abort, closing, writing, b>> /\ proc = "magic"
        /\ (writing => disk.marks = b.marks /\ disk.size = Len(raw))
        /\ (abort \/ b.marks = IndexOf(raw))
    BY <1>16 DEF BuildMagic, IndexRight
  <2>2. CASE /\ proc' = "return" /\ UNCHANGED <<status, index>>
             /\ disk' = IF writing THEN [disk EXCEPT !.magic = TRUE] ELSE disk
    <3>1. writing => disk'.marks = disk.marks /\ disk'.size = disk.size
      BY <1>1, <2>2 DEF DiskType
    <3>2. abort \/ DiskRight'
      <4>1. CASE writing
        BY <1>1, <2>1, <3>1, <4>1 DEF DiskRight
      <4>2. CASE ~writing
        BY <1>2, <1>3, <2>1, <2>2, <4>2
      <4>. QED BY <4>1, <4>2
    <3>. QED BY <1>2, <2>1, <2>2, <3>2 DEF IndexRight, IndexIsRight, InUse
  <2>3. CASE proc' = "ready" /\ status' = "Bad" /\ index' = <<>> /\ UNCHANGED disk
    BY <1>4, <2>1, <2>3
  <2>. QED BY <1>16, <2>2, <2>3 DEF BuildMagic, Finish
<1>17. CASE BuildReturn
  <2>1. UNCHANGED <<raw, disk, abort, closing, writing, b>> /\ proc = "return"
        /\ \/ abort /\ proc' = "remove" /\ UNCHANGED <<status, index>>
           \/ ~abort /\ proc' = "ready" /\ status' = "Good" /\ index' = b.marks
    BY <1>17 DEF BuildReturn, Finish
  <2>2. DiskRight' <=> DiskRight
    BY <1>3, <2>1
  <2>3. ~abort => b.marks = IndexOf(raw)
    BY <2>1 DEF IndexRight
  <2>. QED BY <1>2, <2>1, <2>2, <2>3 DEF IndexRight, IndexIsRight, InUse
<1>18. CASE Remove
  <2>1. UNCHANGED <<raw, abort, closing, writing, b>> /\ proc' = "ready" /\ disk' = NoFile /\ status' = "Bad"
    BY <1>18 DEF Remove, Finish
  <2>2. DiskRight'
    BY <2>1, NoBuildType DEF DiskRight
  <2>. QED BY <1>2, <2>1, <2>2 DEF IndexRight, IndexIsRight, InUse
<1>19. CASE UNCHANGED vars
  <2>1. /\ DiskRight' <=> DiskRight
        /\ LooksValid' <=> LooksValid
        /\ Building' <=> Building
    BY <1>19 DEF vars, DiskRight, LooksValid, Building
  <2>. QED BY <1>19, <2>1 DEF vars, IndexRight, IndexIsRight, InUse
<1>20. CASE BuildThrows
  <2>1. /\ UNCHANGED <<raw, disk, status, index, abort, closing, writing, b>>
        /\ proc = "build" /\ proc' = "ready"
    BY <1>20 DEF BuildThrows
  <2>2. DiskRight' /\ status # "Good"
    BY <1>2, <1>3, <2>1 DEF IndexRight
  <2>. QED BY <1>2, <2>1, <2>2 DEF IndexRight, IndexIsRight, InUse
<1>. QED BY <1>5, <1>6, <1>7, <1>8, <1>9, <1>10, <1>11, <1>12, <1>13, <1>14, <1>15, <1>16,
            <1>17, <1>18, <1>19, <1>20 DEF Next, ThreadStep

LEMMA IndexRightHolds == ASSUME ~CrashAnyTime PROVE Spec => [](IndexTypes /\ IndexRight)
<1>1. IndexTypes /\ IndexRight /\ [Next]_vars => IndexRight'
  BY IndexRightStep
<1>. QED BY <1>1, IndexTypesInit, IndexTypesStep, IndexRightInit, PTL DEF Spec, Safety

\* build_index() never takes the file of an incomplete build, or of a recording
\* that has grown since, for that of the recording: whatever fails, is aborted
\* or crashes, but for the crash that the hypothesis excludes, after an abort
\* and before the file is removed (the file then has the magic number and the
\* size of the recording).
THEOREM IndexAlwaysRight == ASSUME ~CrashAnyTime PROVE Spec => []IndexIsRight
<1>1. IndexTypes /\ IndexRight => IndexIsRight
  BY DEF IndexRight
<1>. QED BY <1>1, IndexRightHolds, PTL

\* A seek() in a recording that has a timestamp never steps over the end of the
\* bookmarks: it lands on an event with the bookmark's timestamp, at or before its
\* target and the first event that is not before its target, and skips no period with
\* events before the target's.  That the bookmark is the closest one, as
\* i_events_stream.h:147 has it, is not so: that of the target's own period is not taken.
THEOREM SeekAlwaysLandsBefore == ASSUME ~CrashAnyTime PROVE Spec => []SeekLandsBefore
<1>1. IndexTypes /\ IndexRight => SeekLandsBefore
  <2>. SUFFICES ASSUME IndexTypes, IndexRight, InUse, Timed(raw) # {},
                       NEW target \in Targets, NEW m \in Lookup(target)
                PROVE  /\ m.off \in Timed(raw) /\ raw[m.off] = m.ts
                       /\ m.ts <= target \/ m.ts = FirstTime
                       /\ \A i \in Timed(raw) :
                             /\ raw[i] >= target => m.off <= i
                             /\ PeriodOf(raw, i) < target \div Period
                                   => PeriodOf(raw, i) <= PeriodOf(raw, m.off)
    BY DEF SeekLandsBefore
  <2>1. raw \in Recordings /\ index = IndexOf(raw) /\ target \in Nat
    BY IndexAssumption DEF IndexTypes, IndexRight, IndexIsRight
  <2>. QED BY <2>1, LookupLands
<1>. QED BY <1>1, IndexRightHolds, PTL

\* get_seek_range() of a recording that has a timestamp: the range goes from the first
\* event to the first one of the last period, and a seek to any timestamp of it, or of
\* an event behind its end, finds a bookmark with a time before the end of the vector.
THEOREM RangeAlwaysReachable == ASSUME ~CrashAnyTime PROVE Spec => []RangeIsReachable
<1>1. IndexTypes /\ IndexRight => RangeIsReachable
  <2>. SUFFICES ASSUME IndexTypes, IndexRight, InUse, Timed(raw) # {}
                PROVE  /\ \E i \in Timed(raw) : FirstTime = raw[i] /\ \A j \in Timed(raw) : i <= j
                       /\ \E i \in Timed(raw) :
                             /\ LastTime = raw[i]
                             /\ \A j \in Timed(raw) :
                                   /\ PeriodOf(raw, j) <= PeriodOf(raw, i)
                                   /\ PeriodOf(raw, j) = PeriodOf(raw, i) => i <= j
                       /\ \A t \in (FirstTime..LastTime) \cup {raw[i] : i \in Timed(raw)} :
                             Lookup(t) # {} /\ Beyond \notin Lookup(t)
    BY DEF RangeIsReachable
  <2>1. raw \in Recordings /\ index = IndexOf(raw)
    BY DEF IndexTypes, IndexRight, IndexIsRight
  <2>. QED BY <2>1, RangeFacts
<1>. QED BY <1>1, IndexRightHolds, PTL
=============================================================================
