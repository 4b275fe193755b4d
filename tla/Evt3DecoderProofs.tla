-------------------------- MODULE Evt3DecoderProofs --------------------------
(***************************************************************************)
(* Theorems about the EVT3 decoder, for any width of the two parts of its  *)
(* time, any sensor, any recording and any cut of it into buffers: first   *)
(* the clock, then what the decoder knows of the recording after each call *)
(* of decode.                                                              *)
(***************************************************************************)
EXTENDS Evt3Decoder, SequenceTheorems, FiniteSetTheorems, WellFoundedInduction, TLAPS

-----------------------------------------------------------------------------
(* The clock.                                                              *)

\* The number of high parts that the clock has gone through.
Highs(c) == c.loop * HighN + c.high

\* A multiple of n that is within n of another one is the same, or the next.
LEMMA NearMultiples ==
    ASSUME NEW n \in Nat \ {0}, NEW a \in Nat, NEW b \in Nat,
           NEW r \in 0..(n - 1), NEW s \in 0..(n - 1), NEW g \in 0..(n - 1),
           b * n + s = a * n + r + g
    PROVE  IF r + g < n THEN b = a /\ s = r + g ELSE b = a + 1 /\ s = r + g - n
<1>1. b >= a
  <2>1. SUFFICES ASSUME b < a PROVE FALSE
    OBVIOUS
  <2>2. (b + 1) * n <= a * n
    BY <2>1
  <2>3. (b + 1) * n = b * n + n
    OBVIOUS
  <2> QED
    BY <2>2, <2>3
<1>2. b <= a + 1
  <2>1. SUFFICES ASSUME b >= a + 2 PROVE FALSE
    OBVIOUS
  <2>2. b * n >= (a + 2) * n
    BY <2>1
  <2>3. (a + 2) * n = a * n + n + n
    OBVIOUS
  <2> QED
    BY <2>2, <2>3
<1>3. CASE b = a
  BY <1>3
<1>4. CASE b = a + 1
  <2>1. b * n = a * n + n
    BY <1>4
  <2> QED
    BY <1>4, <2>1
<1> QED
  BY <1>1, <1>2, <1>3, <1>4

\* Division with a remainder.
LEMMA Division ==
    ASSUME NEW t \in Nat, NEW n \in Nat \ {0}
    PROVE  /\ t \div n \in Nat /\ t % n \in 0..(n - 1)
           /\ t = (t \div n) * n + (t % n)
  OBVIOUS

\* EVT_TIME_HIGH keeps the clock on the sensor's: if at most half the range
\* has passed since the last one, the loops come out right, exactly at half
\* the range too.
THEOREM TimeHighTracks ==
    ASSUME NEW c \in Clock, NEW g \in 0..(HighN \div 2)
    PROVE  /\ TimeHigh(c, (Highs(c) + g) % HighN) \in Clock
           /\ Highs(TimeHigh(c, (Highs(c) + g) % HighN)) = Highs(c) + g
<1> DEFINE t == Highs(c) + g
           h == t % HighN
           a == c.loop
           b == t \div HighN
<1>1. HighN \in Nat \ {0} /\ LowN \in Nat \ {0} /\ HighN = (HighN \div 2) + (HighN \div 2)
         /\ HighN \div 2 \in Nat /\ HighN \div 2 > 0
  <2>1. HighN \in Nat \ {0} /\ LowN \in Nat \ {0} /\ HighN % 2 = 0
    BY ClockAssumption
  <2>2. HighN = (HighN \div 2) * 2 + (HighN % 2) /\ HighN \div 2 \in Nat
    BY <2>1, Division
  <2> QED
    BY <2>1, <2>2
<1>2. a \in Nat /\ c.high \in 0..(HighN - 1) /\ c.low \in 0..(LowN - 1) /\ a * HighN \in Nat
  BY <1>1 DEF Clock
<1>3. t = a * HighN + c.high + g /\ t \in Nat /\ g \in 0..(HighN - 1)
  BY <1>1, <1>2 DEF Highs
<1>4. b \in Nat /\ h \in 0..(HighN - 1) /\ b * HighN + h = a * HighN + c.high + g
  BY <1>1, <1>3, Division
<1>5. IF c.high + g < HighN THEN b = a /\ h = c.high + g ELSE b = a + 1 /\ h = c.high + g - HighN
  <2> HIDE DEF a, b, h, t
  <2> QED
    BY <1>1, <1>2, <1>3, <1>4, NearMultiples
<1>6. TimeHigh(c, h).loop = b /\ TimeHigh(c, h).high = h
  <2>1. CASE c.high + g < HighN
    <3>1. ~Overflow(c, h)
      BY <2>1, <1>1, <1>2, <1>4, <1>5 DEF Overflow
    <3> QED
      BY <3>1, <2>1, <1>5 DEF TimeHigh
  <2>2. CASE c.high + g >= HighN
    <3>1. Overflow(c, h)
      BY <2>2, <1>1, <1>2, <1>4, <1>5 DEF Overflow
    <3> QED
      BY <3>1, <2>2, <1>1, <1>2, <1>3, <1>5 DEF TimeHigh
  <2> QED
    BY <2>1, <2>2, <1>1, <1>2, <1>3
<1>7. TimeHigh(c, h).low \in 0..(LowN - 1)
  BY <1>1, <1>2 DEF TimeHigh
<1>8. TimeHigh(c, h) \in Clock
  BY <1>4, <1>6, <1>7 DEF Clock, TimeHigh
<1>9. Highs(TimeHigh(c, h)) = t
  BY <1>3, <1>4, <1>6 DEF Highs
<1> QED
  BY <1>8, <1>9

\* reset_last_timestamp_impl sets the time it is given, and as many loops more
\* as its divisor is wrong by: get_last_timestamp returns t only if there are
\* none.
THEOREM ResetIsOff ==
    ASSUME NEW t \in Nat, Period > 1
    PROVE  Stamp(ClockAt(t)) = t + (t \div (Period - 1) - t \div Period) * Period
<1> DEFINE q == t \div LowN
           k == t \div Period
           m == q \div HighN
           u == t \div (Period - 1)
           h == q % HighN
           l == t % LowN
           v == t % Period
<1>1. LowN \in Nat \ {0} /\ HighN \in Nat \ {0} /\ Period = LowN * HighN
         /\ Period \in Nat \ {0} /\ Period - 1 \in Nat \ {0}
  BY ClockAssumption DEF Period
<1>2. q \in Nat /\ l \in 0..(LowN - 1) /\ t = q * LowN + l
  BY <1>1, Division
<1>3. m \in Nat /\ h \in 0..(HighN - 1) /\ q = m * HighN + h
  BY <1>1, <1>2, Division
<1>4. k \in Nat /\ v \in 0..(Period - 1) /\ t = k * Period + v
  BY <1>1, Division
<1> DEFINE r == h * LowN + l
<1>5. t = m * Period + r
  <2> HIDE DEF q, m, h, l
  <2>1. q * LowN = m * HighN * LowN + h * LowN
    BY <1>1, <1>2, <1>3
  <2>2. m * HighN * LowN = m * Period
    BY <1>1, <1>3
  <2> QED
    BY <2>1, <2>2, <1>1, <1>2, <1>3
<1>6. r \in 0..(Period - 1)
  <2> HIDE DEF q, m, h, l
  <2>1. h * LowN <= (HighN - 1) * LowN
    BY <1>1, <1>3
  <2>2. (HighN - 1) * LowN = Period - LowN
    BY <1>1
  <2>3. h * LowN \in Nat
    BY <1>1, <1>3
  <2> QED
    BY <2>1, <2>2, <2>3, <1>1, <1>2
<1>7. k = m
  <2> HIDE DEF k, m, r, q, u, h, l, v
  <2>1. k * Period + v = m * Period + r + 0
    BY <1>1, <1>3, <1>4, <1>5, <1>6
  <2>2. v \in 0..(Period - 1) /\ 0 \in 0..(Period - 1) /\ r + 0 < Period
    BY <1>1, <1>4, <1>6
  <2>3. IF r + 0 < Period THEN k = m /\ v = r + 0 ELSE k = m + 1 /\ v = r + 0 - Period
    BY <2>1, <2>2, <1>1, <1>3, <1>4, <1>6, NearMultiples
  <2> QED
    BY <2>2, <2>3
<1>8. u \in Nat
  BY <1>1, Division
<1>9. Stamp(ClockAt(t)) = u * Period + r
  <2>1. Stamp(ClockAt(t)) = (u * HighN + h) * LowN + l
    BY DEF Stamp, ClockAt
  <2> HIDE DEF q, u, h, l
  <2>2. (u * HighN + h) * LowN
          = u * HighN * LowN + h * LowN
    BY <1>1, <1>3, <1>8
  <2>3. u * HighN * LowN = u * Period
    BY <1>1, <1>8
  <2>4. h * LowN \in Nat /\ u * Period \in Nat /\ l \in Nat
    BY <1>1, <1>2, <1>3, <1>8
  <2> QED
    BY <2>1, <2>2, <2>3, <2>4
<1>10. QED
  <2> HIDE DEF k, m, r, q, u, h, l
  <2>1. (u - k) * Period = u * Period - k * Period
    BY <1>1, <1>4, <1>8
  <2>2. m * Period \in Nat /\ u * Period \in Nat
    BY <1>1, <1>3, <1>8
  <2>3. t + (u - k) * Period = Stamp(ClockAt(t))
    BY <2>1, <2>2, <1>1, <1>4, <1>5, <1>6, <1>7, <1>9
  <2> QED
    BY <2>3 DEF k, u

-----------------------------------------------------------------------------
(* Least elements, and the loop of decode_events_buffer.                   *)

LEMMA HasMin ==
    ASSUME NEW S \in SUBSET Nat, S # {}, NEW n \in Nat, \A s \in S : s <= n
    PROVE  \E m \in S : \A s \in S : m <= s
<1>. DEFINE upTo(x) == {y \in S : y <= x}
            T == {upTo(x) : x \in S}
            R == StrictSubsetOrdering(S)
<1>1. IsFiniteSet(S)
  BY FS_BoundedSetOfNaturals
<1>2. T \subseteq SUBSET S /\ T # {}
  OBVIOUS
<1>3. IsWellFoundedOn(R, SUBSET S)
  BY <1>1, FS_StrictSubsetOrderingWellFounded, FS_FiniteSubsetsOfFinite
<1>4. PICK t \in T : \A u \in T : <<u, t>> \notin R
  <2>. HIDE DEF T, R
  <2>. QED BY <1>2, <1>3, WFMin
<1>5. PICK m \in S : t = upTo(m)
  OBVIOUS
<1>6. ASSUME NEW s \in S, s < m PROVE FALSE
  <2>1. m \in upTo(m) /\ m \notin upTo(s) /\ upTo(s) \subseteq upTo(m)
    <3>1. \A y \in S : y <= s => y <= m
      BY <1>6
    <3>2. m <= m /\ ~(m <= s)
      BY <1>6
    <3>. QED BY <3>1, <3>2
  <2>2. <<upTo(s), upTo(m)>> \in R
    BY <2>1 DEF StrictSubsetOrdering
  <2>. QED BY <1>4, <1>5, <2>2
<1>. QED BY <1>6

\* The first EVT_TIME_HIGH.
LEMMA FirstOf ==
    ASSUME NEW S, NEW s \in Seq(S)
    PROVE  LET i == SelectInSeq(s, LAMBDA w : w.type = "time_high")
           IN /\ i \in 0..Len(s)
              /\ i > 0 => /\ s[i].type = "time_high"
                          /\ \A j \in 1..(i - 1) : s[j].type # "time_high"
              /\ i = 0 => \A j \in 1..Len(s) : s[j].type # "time_high"
<1>. DEFINE I == {j \in 1..Len(s) : s[j].type = "time_high"}
            i == SelectInSeq(s, LAMBDA w : w.type = "time_high")
<1>1. i = IF I # {} THEN Min(I) ELSE 0
  BY DEF SelectInSeq
<1>2. Len(s) \in Nat
  BY LenProperties
<1>3. CASE I = {}
  BY <1>1, <1>2, <1>3
<1>4. CASE I # {}
  <2>1. \E m \in I : \A j \in I : m <= j
    <3>1. I \in SUBSET Nat /\ \A j \in I : j <= Len(s)
      BY <1>2
    <3>. HIDE DEF I
    <3>. QED BY <1>2, <1>4, <3>1, HasMin
  <2>2. i = Min(I)
    BY <1>1, <1>4
  <2>3. i \in I /\ \A j \in I : i <= j
    <3>. HIDE DEF I
    <3>1. Min(I) \in I /\ \A j \in I : Min(I) <= j
      BY <2>1 DEF Min
    <3>. HIDE DEF i
    <3>. QED BY <2>2, <3>1
  <2>. HIDE DEF i
  <2>4. i \in 1..Len(s) /\ s[i].type = "time_high"
    BY <2>3
  <2>5. \A j \in 1..(i - 1) : s[j].type # "time_high"
    BY <1>2, <2>3, <2>4
  <2>. QED BY <1>2, <2>4, <2>5 DEF i
<1>. QED BY <1>3, <1>4

\* What every event keeps of the decoder and the words used.
Iterates(words, G) ==
    \A x : <<x.dec, x.used>> \in G =>
        /\ x.used \in 0..Len(words)
        /\ Decodable(SubSeq(words, x.used + 1, Len(words))) =>
              LET y == DecodeNext(x, words) IN <<y.dec, y.used>> \in G /\ y.used > x.used

\* The loop over a buffer has ended, at the first event that is not complete.
Ended(words, dec, events, G, end) ==
    LET rest == SubSeq(words, end.used + 1, Len(words))
    IN /\ <<end.dec, end.used>> \in G /\ ~Decodable(rest)
       /\ DecodeBuffer(dec, words, events)
            = [dec |-> end.dec, events |-> end.events, rest |-> rest,
               missing |-> IF rest = <<>> THEN 0 ELSE Size(rest[1]) - Len(rest)]

\* What holds before the loop, and is kept by every event, holds at its end.
LEMMA BufferDecoded ==
    ASSUME NEW S, NEW words \in Seq(S), NEW dec, NEW events, NEW G, <<dec, 0>> \in G,
           Iterates(words, G)
    PROVE  \E end : Ended(words, dec, events, G, end)
<1>. DEFINE N == Len(words)
            Start == Step(dec, events, 0)
            Next1(f, n) == IF n = 0 THEN Start ELSE DecodeNext(f[n - 1], words)
            IsLoop(f, m) == f = [n \in 0..m |-> Next1(f, n)]
            Stuck(x) == ~Decodable(SubSeq(words, x.used + 1, N))
            Good(x, n) == <<x.dec, x.used>> \in G /\ (x.used >= n \/ Stuck(x))
<1>1. N \in Nat
  BY LenProperties
<1>2. \A m \in 0..N : \E f : IsLoop(f, m)
  <2>. DEFINE Bad == {m \in 0..N : ~\E f : IsLoop(f, m)}
  <2>. SUFFICES ASSUME Bad # {} PROVE FALSE
    OBVIOUS
  <2>1. PICK m \in Bad : \A j \in Bad : m <= j
    <3>1. Bad \in SUBSET Nat /\ \A j \in Bad : j <= N
      BY <1>1
    <3>. HIDE DEF Bad
    <3>. QED BY <1>1, <3>1, HasMin
  <2>2. m # 0
    <3>1. IsLoop([n \in 0..0 |-> Start], 0)
      OBVIOUS
    <3>. QED BY <3>1
  <2>3. m - 1 \in 0..N /\ m \in 1..N
    BY <1>1, <2>2
  <2>4. m - 1 \notin Bad
    <3>. HIDE DEF Bad
    <3>. QED BY <2>1, <2>3
  <2>5. PICK f : IsLoop(f, m - 1)
    BY <2>3, <2>4
  <2>. DEFINE last == DecodeNext(f[m - 1], words)
              g == [n \in 0..m |-> IF n = m THEN last ELSE f[n]]
  <2>6. \A n \in 0..m - 1 : f[n] = Next1(f, n)
    BY <2>5
  <2>7. \A n \in 0..m : g[n] = Next1(g, n)
    <3>1. g[m] = last /\ \A n \in 0..m - 1 : g[n] = f[n]
      BY <2>3
    <3>. HIDE DEF g, Start
    <3>2. \A n \in 0..m - 1 : n = 0 \/ n - 1 \in 0..m - 1
      BY <2>3
    <3>3. ASSUME NEW n \in 0..m - 1 PROVE g[n] = Next1(g, n)
      BY <2>6, <3>1, <3>2
    <3>4. g[m] = Next1(g, m)
      BY <2>2, <2>3, <3>1
    <3>5. \A n \in 0..m : n = m \/ n \in 0..m - 1
      BY <2>3
    <3>. QED BY <3>3, <3>4, <3>5
  <2>8. IsLoop(g, m)
    <3>1. g = [n \in 0..m |-> g[n]]
      OBVIOUS
    <3>. HIDE DEF g, Next1
    <3>. QED BY <2>7, <3>1
  <2>. QED BY <2>1, <2>8
<1>. DEFINE loop[n \in 0..N] == IF n = 0 THEN Start ELSE DecodeNext(loop[n - 1], words)
            end == loop[N]
            rest == SubSeq(words, end.used + 1, N)
<1>3. IsLoop(loop, N)
  <2>1. PICK h : IsLoop(h, N)
    BY <1>1, <1>2
  <2>2. \E f : f = [n \in 0..N |-> IF n = 0 THEN Start ELSE DecodeNext(f[n - 1], words)]
    BY <2>1
  <2>. HIDE DEF Start, N
  <2>. QED BY <2>2
<1>4. DecodeBuffer(dec, words, events)
        = [dec |-> end.dec, events |-> end.events, rest |-> rest,
           missing |-> IF rest = <<>> THEN 0 ELSE Size(rest[1]) - Len(rest)]
  BY DEF DecodeBuffer
<1>. HIDE DEF loop
<1>5. \A n \in 0..N : loop[n] = Next1(loop, n)
  BY <1>3
<1>6. Good(loop[0], 0)
  <2>1. loop[0] = Start /\ Start.dec = dec /\ Start.used = 0
    BY <1>1, <1>5 DEF Step
  <2>. QED BY <2>1
<1>7. ASSUME NEW n \in 1..N, Good(loop[n - 1], n - 1) PROVE Good(loop[n], n)
  <2>. DEFINE x == loop[n - 1]
              y == DecodeNext(x, words)
  <2>1. loop[n] = y
    BY <1>1, <1>5
  <2>. HIDE DEF x
  <2>2. <<x.dec, x.used>> \in G /\ (x.used >= n - 1 \/ Stuck(x))
    BY <1>7 DEF x
  <2>3. CASE Stuck(x)
    <3>1. y = x
      BY <2>3 DEF DecodeNext
    <3>. QED BY <2>1, <2>2, <2>3, <3>1
  <2>4. CASE ~Stuck(x)
    <3>1. x.used \in 0..N /\ <<y.dec, y.used>> \in G /\ y.used > x.used
      BY <2>2, <2>4 DEF Iterates
    <3>2. y.used \in 0..N
      BY <3>1 DEF Iterates
    <3>3. y.used >= n
      <4>. HIDE DEF y
      <4>. QED BY <1>1, <2>2, <2>4, <3>1, <3>2
    <3>. QED BY <2>1, <3>1, <3>3
  <2>. QED BY <2>3, <2>4
<1>8. Good(end, N)
  <2>. DEFINE Bad == {n \in 0..N : ~Good(loop[n], n)}
  <2>. SUFFICES ASSUME Bad # {} PROVE FALSE
    <3>1. N \in 0..N /\ end = loop[N]
      BY <1>1
    <3>. HIDE DEF Good, end
    <3>. QED BY <3>1
  <2>1. PICK m \in Bad : \A j \in Bad : m <= j
    <3>1. Bad \in SUBSET Nat /\ \A j \in Bad : j <= N
      BY <1>1
    <3>. HIDE DEF Bad
    <3>. QED BY <1>1, <3>1, HasMin
  <2>2. m \in 0..N /\ ~Good(loop[m], m)
    OBVIOUS
  <2>. HIDE DEF Good
  <2>3. m \in 1..N /\ m - 1 \in 0..N
    BY <1>1, <1>6, <2>2
  <2>4. m - 1 \notin Bad
    <3>. HIDE DEF Bad
    <3>. QED BY <2>1, <2>3
  <2>. QED BY <1>7, <2>2, <2>3, <2>4
<1>9. end.used \in 0..N /\ ~Decodable(rest)
  <2>1. end.used \in 0..N
    BY <1>8 DEF Iterates
  <2>2. CASE end.used >= N
    <3>1. rest = <<>>
      BY <1>1, <2>1, <2>2
    <3>. HIDE DEF rest
    <3>. QED BY <2>1, <3>1 DEF Decodable
  <2>. QED BY <1>8, <2>1, <2>2
<1>. QED BY <1>4, <1>8, <1>9 DEF Ended
-----------------------------------------------------------------------------
(* The recording.                                                          *)

\* The two parts of the sensor's time at a word.
HighOf(i) == tape[i].clock \div LowN
LowOf(i) == tape[i].clock % LowN

Sensor == [now : Nat, row : {None, 0, Height}, column : {None} \cup Nat, items : Nat]

TapeTypes ==
    /\ tape \in Seq(Range(tape)) /\ sensor \in Sensor
    /\ \A i \in 1..Len(tape) :
          /\ tape[i].clock \in Nat
          /\ tape[i].type = "time_high" => tape[i].v = HighOf(i) % HighN
          /\ tape[i].type = "time_low" => tape[i].v = LowOf(i)
          /\ tape[i].type = "addr_y" => tape[i].v \in 0..Height
          /\ tape[i].type = "base_x" => tape[i].v \in Nat

\* The time goes on, its high part only where that is sent, by half its range
\* at most.
TapeTimes ==
    /\ Len(tape) > 0 => tape[Len(tape)].clock = sensor.now
    /\ \A i \in 1..(Len(tape) - 1) :
          /\ tape[i].clock <= tape[i + 1].clock
          /\ HighOf(i + 1) - HighOf(i) <= HighN \div 2
          /\ tape[i + 1].type # "time_high" => HighOf(i + 1) = HighOf(i)

\* Groups are complete, and can be told from their second words.
TapeGroups ==
    \A i \in 1..Len(tape) :
        /\ tape[i].type = "others" =>
              i + 3 <= Len(tape) /\ \A j \in (i + 1)..(i + 3) : tape[j].type \in {"cont_12", "cont_4"}
        /\ tape[i].type = "vect_8" => i > 2 /\ tape[i - 1].type = "vect_12"
        /\ tape[i].type = "vect_12" =>
              \/ i + 2 <= Len(tape) /\ tape[i + 1].type = "vect_12" /\ tape[i + 2].type = "vect_8"
              \/ i < Len(tape) /\ tape[i + 1].type = "vect_8"
                 /\ i > 1 /\ tape[i - 1].type = "vect_12"

\* The column that the next vector of a row begins at, where there is one.
ColumnAfter(w, column) ==
    CASE w.type = "addr_y" -> None
      [] w.type = "base_x" -> w.v
      [] w.type = "vect_8" -> column + 3
      [] OTHER -> column
TapeColumns(col) ==
    /\ col \in [0..Len(tape) -> {None} \cup Nat]
    /\ col[0] = None /\ col[Len(tape)] = sensor.column
    /\ \A i \in 1..Len(tape) :
          /\ col[i] = ColumnAfter(tape[i], col[i - 1])
          /\ tape[i].type \in {"vect_12", "vect_8"} =>
                col[i - 1] # None /\ col[i - 1] + 3 <= Width

Tape(col) == TapeTypes /\ TapeTimes /\ TapeGroups /\ TapeColumns(col)

-----------------------------------------------------------------------------
(* The decoder.                                                            *)

Decoder == [clock : Clock, base : BOOLEAN, set : BOOLEAN, shift : {None} \cup Nat,
            row : {None} \cup 0..Height, column : Nat, vect : BOOLEAN,
            incomplete : Seq(Range(tape)), missing : Nat, alarm : BOOLEAN]

\* The bookmarks used have times that reset_last_timestamp gets right.
Exact == \A t \in SeekTimes : t \div (Period - 1) = t \div Period

\* The loops that the recording begins with, which a decoder does not know.
Loops == tape[FirstHigh].clock \div Period

\* The clock after the word k.
Tracks(clock, k) ==
    /\ clock.high = HighOf(k) % HighN /\ clock.low <= LowOf(k)
    /\ Exact => Highs(clock) + Loops * HighN = HighOf(k)

\* The clock before the first word that is decoded: one EVT_TIME_HIGH less, or
\* that of the bookmark.
Poised(clock) ==
    /\ clock.low <= LowOf(Begin)
    /\ \/ /\ tape[Begin].type \in {"time_high", "time_low"}
          /\ clock.high = HighOf(Begin) % HighN
          /\ Exact => Highs(clock) + Loops * HighN = HighOf(Begin)
       \/ /\ tape[Begin].type = "time_high"
          /\ clock.low = 0 /\ clock.high + 1 = HighOf(Begin) % HighN
          /\ Highs(clock) + 1 + Loops * HighN = HighOf(Begin)

\* A group begins after the word k, unless it is one that is not decoded.
Aligned(k) ==
    k < Len(tape) => /\ tape[k + 1].type # "vect_8"
                     /\ tape[k + 1].type = "vect_12" => tape[k + 2].type = "vect_12"

Gap == \E i \in 2..Len(tape) : HighOf(i) - HighOf(i - 1) > Epsilon

\* A decoder that has decoded up to the word k.
Sound(dec, k, col) ==
    /\ dec \in Decoder /\ dec.base
    /\ FirstHigh > 0 /\ Begin - 1 <= k /\ k <= Len(tape)
    /\ Aligned(k)
    /\ IF k < Begin THEN Poised(dec.clock) ELSE Tracks(dec.clock, k)
    /\ IsValid(dec) /\ col[k] # None => dec.vect /\ dec.column = col[k]
    /\ dec.alarm => Gap

\* The words w are those of the recording after the word k.
Ahead(w, k) ==
    /\ w \in Seq(Range(tape)) /\ k + Len(w) <= Len(tape)
    /\ \A i \in 1..Len(w) : w[i] = tape[k + i]

\* The words kept for the next buffer, of those up to p, are the beginning of
\* one event.
Keeps(dec, p) ==
    /\ Ahead(dec.incomplete, Done(dec, p))
    /\ dec.missing = IF dec.incomplete = <<>> THEN 0
                     ELSE Size(dec.incomplete[1]) - Len(dec.incomplete)
    /\ dec.incomplete # <<>> => dec.missing > 0

\* A decoder that has been given the words up to p.
Fed(dec, p, col) ==
    /\ dec \in Decoder /\ p \in 0..Len(tape)
    /\ IF dec.base
       THEN /\ Sound(dec, Done(dec, p), col) /\ Keeps(dec, p)
            /\ from = 0 => Begin <= Done(dec, p)
       ELSE /\ from = 0 /\ (FirstHigh = 0 \/ p < FirstHigh)
            /\ dec.clock = [loop |-> 0, high |-> 0, low |-> 0]
            /\ ~dec.set /\ dec.row = None /\ ~dec.alarm
            /\ dec.incomplete = <<>> /\ dec.missing = 0

DecoderInv ==
    \E col \in [0..Len(tape) -> {None} \cup Nat] :
        /\ Tape(col) /\ Fed(d, pos, col)
        /\ shifting \in BOOLEAN /\ half \in BOOLEAN /\ (half => pos < Len(tape))
        /\ from \in 0..Len(tape)
        /\ from > 0 => d.base /\ 0 < FirstHigh /\ FirstHigh < from

-----------------------------------------------------------------------------
(* The clock along the recording.                                          *)

\* The numbers of values of the two parts of the time.
LEMMA Ranges ==
    /\ LowN \in Nat \ {0} /\ HighN \in Nat \ {0}
    /\ HighN \div 2 \in Nat /\ HighN \div 2 > 0 /\ HighN \div 2 < HighN
<1>1. LowN \in Nat \ {0} /\ HighN \in Nat \ {0} /\ HighN % 2 = 0
  BY ClockAssumption
<1>2. HighN = (HighN \div 2) * 2 + (HighN % 2) /\ HighN \div 2 \in Nat
  BY <1>1, Division
<1>. QED BY <1>1, <1>2

\* And that of the time without its loops.
LEMMA Widths ==
    /\ LowN \in Nat \ {0} /\ HighN \in Nat \ {0}
    /\ Period = LowN * HighN /\ Period \in Nat \ {0} /\ Period > 1
<1>1. LowN \in Nat \ {0} /\ HighN \in Nat \ {0} /\ HighN > 1
  BY Ranges
<1>2. LowN * HighN >= HighN
  BY <1>1
<1>. QED BY <1>1, <1>2 DEF Period

LEMMA Product ==
    ASSUME NEW a \in Nat, NEW b \in Nat
    PROVE  a * b \in Nat
  OBVIOUS

LEMMA Quotient ==
    ASSUME NEW n \in Nat \ {0}, NEW a \in Nat, NEW r \in 0..(n - 1), NEW t \in Nat, t = a * n + r
    PROVE  t \div n = a /\ t % n = r
<1>. DEFINE q == t \div n
            s == t % n
<1>1. q \in Nat /\ s \in 0..(n - 1) /\ t = q * n + s
  BY Division
<1>. HIDE DEF q, s
<1>2. q * n + s = a * n + r + 0 /\ r + 0 < n /\ 0 \in 0..(n - 1)
  BY <1>1
<1>3. q = a /\ s = r + 0
  BY <1>1, <1>2, NearMultiples
<1>. QED BY <1>3 DEF q, s

LEMMA ModShift ==
    ASSUME NEW n \in Nat \ {0}, NEW a \in Nat, NEW x \in Nat
    PROVE  (a * n + x) % n = x % n /\ (a * n + x) \div n = a + x \div n
<1>. DEFINE q == x \div n
            r == x % n
            t == a * n + x
<1>1. q \in Nat /\ r \in 0..(n - 1) /\ x = q * n + r
  BY Division
<1>. HIDE DEF q, r
<1>2. (a + q) * n = a * n + q * n /\ a * n \in Nat /\ q * n \in Nat /\ a + q \in Nat
  BY <1>1
<1>3. t \in Nat /\ t = (a + q) * n + r
  BY <1>1, <1>2
<1>. HIDE DEF t
<1>4. t \div n = a + q /\ t % n = r
  BY <1>1, <1>2, <1>3, Quotient
<1>. QED BY <1>4 DEF t, q, r

LEMMA DivMonotone ==
    ASSUME NEW n \in Nat \ {0}, NEW a \in Nat, NEW b \in Nat, a <= b
    PROVE  a \div n <= b \div n /\ (a \div n = b \div n => a % n <= b % n)
<1>. DEFINE q == a \div n
            r == a % n
            u == b \div n
            v == b % n
<1>1. /\ q \in Nat /\ r \in 0..(n - 1) /\ a = q * n + r
      /\ u \in Nat /\ v \in 0..(n - 1) /\ b = u * n + v
  BY Division
<1>. HIDE DEF q, r, u, v
<1>2. q <= u
  <2>1. SUFFICES ASSUME u + 1 <= q PROVE FALSE
    BY <1>1
  <2>2. (u + 1) * n <= q * n
    BY <1>1, <2>1
  <2>3. (u + 1) * n = u * n + n
    BY <1>1
  <2>4. u * n \in Nat /\ q * n \in Nat
    BY <1>1
  <2>. QED BY <1>1, <2>2, <2>3, <2>4
<1>3. q = u => r <= v
  <2>1. u * n \in Nat
    BY <1>1
  <2>. QED BY <1>1, <2>1
<1>. QED BY <1>2, <1>3 DEF q, r, u, v

LEMMA WordTimes ==
    ASSUME TapeTypes, TapeTimes, NEW i \in 1..Len(tape)
    PROVE  /\ Len(tape) \in Nat /\ tape[i].clock \in Nat
           /\ HighOf(i) \in Nat /\ LowOf(i) \in 0..(LowN - 1) /\ HighOf(i) % HighN \in 0..(HighN - 1)
           /\ i < Len(tape) =>
                /\ HighOf(i + 1) - HighOf(i) \in 0..(HighN \div 2)
                /\ HighOf(i + 1) = HighOf(i) => LowOf(i) <= LowOf(i + 1)
                /\ tape[i + 1].type # "time_high" => HighOf(i + 1) = HighOf(i)
<1>1. Len(tape) \in Nat /\ tape[i].clock \in Nat
  BY LenProperties DEF TapeTypes
<1>2. HighOf(i) \in Nat /\ LowOf(i) \in 0..(LowN - 1)
  BY <1>1, Ranges, Division DEF HighOf, LowOf
<1>3. HighOf(i) % HighN \in 0..(HighN - 1)
  BY <1>2, Ranges, Division
<1>4. ASSUME i < Len(tape)
      PROVE  /\ HighOf(i + 1) - HighOf(i) \in 0..(HighN \div 2)
             /\ HighOf(i + 1) = HighOf(i) => LowOf(i) <= LowOf(i + 1)
             /\ tape[i + 1].type # "time_high" => HighOf(i + 1) = HighOf(i)
  <2>1. i \in 1..(Len(tape) - 1) /\ i + 1 \in 1..Len(tape)
    BY <1>1, <1>4
  <2>2. tape[i + 1].clock \in Nat /\ tape[i].clock <= tape[i + 1].clock
        /\ HighOf(i + 1) - HighOf(i) <= HighN \div 2
        /\ (tape[i + 1].type # "time_high" => HighOf(i + 1) = HighOf(i))
    BY <2>1 DEF TapeTypes, TapeTimes
  <2>3. HighOf(i) <= HighOf(i + 1) /\ (HighOf(i + 1) = HighOf(i) => LowOf(i) <= LowOf(i + 1))
    BY <1>1, <2>2, Ranges, DivMonotone DEF HighOf, LowOf
  <2>4. HighOf(i + 1) \in Nat
    BY <2>2, Ranges, Division DEF HighOf
  <2>. QED BY <1>2, <2>2, <2>3, <2>4, Ranges
<1>. QED BY <1>1, <1>2, <1>3, <1>4

\* FirstHigh is the first EVT_TIME_HIGH of the recording.
LEMMA FirstHighIs ==
    ASSUME TapeTypes
    PROVE  /\ FirstHigh \in 0..Len(tape) /\ Len(tape) \in Nat
           /\ FirstHigh > 0 => /\ tape[FirstHigh].type = "time_high"
                               /\ \A j \in 1..(FirstHigh - 1) : tape[j].type # "time_high"
           /\ FirstHigh = 0 => \A j \in 1..Len(tape) : tape[j].type # "time_high"
<1>1. tape \in Seq(Range(tape)) /\ Len(tape) \in Nat
  BY LenProperties DEF TapeTypes
<1>. QED BY <1>1, FirstOf DEF FirstHigh

\* The time without its high part's loops.
LEMMA PeriodSplits ==
    ASSUME NEW t \in Nat
    PROVE  t \div Period = (t \div LowN) \div HighN
<1>. DEFINE q == t \div LowN
            l == t % LowN
            m == q \div HighN
            h == q % HighN
            r == h * LowN + l
<1>1. /\ q \in Nat /\ l \in 0..(LowN - 1) /\ t = q * LowN + l
      /\ m \in Nat /\ h \in 0..(HighN - 1) /\ q = m * HighN + h
  BY Ranges, Division
<1>. HIDE DEF q, l, m, h
<1>2. t = m * Period + r
  <2>1. q * LowN = m * HighN * LowN + h * LowN
    BY <1>1, Ranges
  <2>2. m * HighN * LowN = m * Period
    BY <1>1, Ranges, Widths
  <2>3. m * Period \in Nat /\ h * LowN \in Nat
    BY <1>1, Ranges, Widths, Product
  <2>. QED BY <1>1, <2>1, <2>2, <2>3
<1>3. r \in 0..(Period - 1)
  <2>1. h * LowN <= (HighN - 1) * LowN /\ h * LowN \in Nat
    BY <1>1, Ranges
  <2>2. (HighN - 1) * LowN = Period - LowN
    BY Ranges, Widths
  <2>. QED BY <1>1, <2>1, <2>2, Ranges, Widths
<1>. HIDE DEF r
<1>4. t \div Period = m
  BY <1>1, <1>2, <1>3, Quotient, Ranges, Widths
<1>. QED BY <1>4 DEF m, q

\* One step round the range.
LEMMA Wrap ==
    ASSUME NEW n \in Nat \ {0}, NEW r \in 0..(n - 1), NEW g \in 0..(n - 1)
    PROVE  (r + g) % n = IF r + g < n THEN r + g ELSE r + g - n
<1>. DEFINE t == r + g
<1>1. CASE t < n
  <2>1. t \in Nat /\ t \in 0..(n - 1) /\ t = 0 * n + t /\ 0 \in Nat
    BY <1>1
  <2>. HIDE DEF t
  <2>2. t % n = t
    BY <2>1, Quotient
  <2>. QED BY <1>1, <2>2 DEF t
<1>2. CASE ~(t < n)
  <2>. DEFINE s == t - n
  <2>1. t \in Nat /\ s \in 0..(n - 1) /\ t = 1 * n + s /\ 1 \in Nat
    BY <1>2
  <2>. HIDE DEF t, s
  <2>2. t % n = s
    BY <2>1, Quotient
  <2>. QED BY <1>2, <2>2 DEF t, s
<1>. QED BY <1>1, <1>2

\* The validator is right about a violation that is one of Epsilon.
LEMMA AlarmIsGap ==
    ASSUME NEW r \in 0..(HighN - 1), NEW v \in 0..(HighN - 1), NEW g \in Nat,
           v = IF r + g < HighN THEN r + g ELSE r + g - HighN, ~Monotonic(r, v)
    PROVE  g > Epsilon
<1>1. Epsilon \in 0..HighN /\ HighN \in Nat
  BY Ranges, DecoderAssumption
<1>2. v < r /\ ~(v - r + (HighN - 1) < Epsilon)
  BY <1>1 DEF Monotonic
<1>3. v = r + g - HighN
  BY <1>1, <1>2
<1>. QED BY <1>1, <1>2, <1>3

LEMMA LoopsType ==
    ASSUME TapeTypes, FirstHigh > 0
    PROVE  Loops \in Nat
<1>1. FirstHigh \in 1..Len(tape)
  BY FirstHighIs
<1>2. tape[FirstHigh].clock \in Nat
  BY <1>1 DEF TapeTypes
<1>. QED BY <1>2, Ranges, Widths, Division DEF Loops

\* The words that do not change the time.
LEMMA ClockStays ==
    ASSUME TapeTypes, TapeTimes, NEW clock \in Clock, NEW k \in 1..(Len(tape) - 1),
           Tracks(clock, k), tape[k + 1].type # "time_high"
    PROVE  Tracks(clock, k + 1)
<1>1. /\ k \in 1..Len(tape) /\ k < Len(tape) /\ Len(tape) \in Nat
  BY LenProperties DEF TapeTypes
<1>2. HighOf(k + 1) = HighOf(k) /\ LowOf(k) <= LowOf(k + 1) /\ LowOf(k) \in Nat
  <2>1. /\ LowOf(k) \in 0..(LowN - 1)
        /\ tape[k + 1].type # "time_high" => HighOf(k + 1) = HighOf(k)
        /\ HighOf(k + 1) = HighOf(k) => LowOf(k) <= LowOf(k + 1)
    BY <1>1, WordTimes
  <2>. QED BY <2>1
<1>3. k + 1 \in 1..Len(tape)
  BY <1>1
<1>4. LowOf(k + 1) \in Nat
  BY <1>3, WordTimes, Ranges
<1>5. clock.low \in Nat
  BY Ranges DEF Clock
<1>. QED BY <1>2, <1>4, <1>5 DEF Tracks

\* EVT_TIME_LOW
LEMMA ClockLow ==
    ASSUME TapeTypes, TapeTimes, NEW clock \in Clock, NEW k \in Nat, k < Len(tape), Begin - 1 <= k,
           Begin \in Nat \ {0}, IF k < Begin THEN Poised(clock) ELSE Tracks(clock, k),
           tape[k + 1].type = "time_low"
    PROVE  /\ TimeLow(clock, tape[k + 1].v) \in Clock
           /\ Tracks(TimeLow(clock, tape[k + 1].v), k + 1)
<1>. DEFINE c == TimeLow(clock, tape[k + 1].v)
<1>1. k + 1 \in 1..Len(tape) /\ Len(tape) \in Nat
  BY LenProperties DEF TapeTypes
<1>2. tape[k + 1].v = LowOf(k + 1) /\ LowOf(k + 1) \in 0..(LowN - 1)
  BY <1>1, WordTimes DEF TapeTypes
<1>3. c \in Clock /\ c.low = LowOf(k + 1) /\ c.high = clock.high /\ c.loop = clock.loop
  BY <1>2 DEF TimeLow, Clock
<1>4. Highs(c) = Highs(clock)
  BY <1>3 DEF Highs
<1>5. LowOf(k + 1) <= LowOf(k + 1)
  BY <1>2, Ranges
<1>6. CASE k < Begin
  <2>1. Begin = k + 1
    BY <1>6
  <2>. QED BY <1>3, <1>4, <1>5, <1>6, <2>1 DEF Poised, Tracks
<1>7. CASE ~(k < Begin)
  <2>1. k \in 1..Len(tape) /\ k < Len(tape)
    BY <1>1, <1>7
  <2>2. HighOf(k + 1) = HighOf(k)
    BY <2>1, WordTimes
  <2>. QED BY <1>3, <1>4, <1>5, <1>7, <2>2 DEF Tracks
<1>. QED BY <1>3, <1>6, <1>7

\* EVT_TIME_HIGH, and the validator
LEMMA ClockHigh ==
    ASSUME TapeTypes, TapeTimes, NEW clock \in Clock, NEW k \in Nat, k < Len(tape), Begin - 1 <= k,
           Begin \in Nat \ {0}, IF k < Begin THEN Poised(clock) ELSE Tracks(clock, k),
           FirstHigh > 0, tape[k + 1].type = "time_high"
    PROVE  /\ TimeHigh(clock, tape[k + 1].v) \in Clock
           /\ Tracks(TimeHigh(clock, tape[k + 1].v), k + 1)
           /\ ~Monotonic(clock.high, tape[k + 1].v) => Gap
<1>. DEFINE v == tape[k + 1].v
            c == TimeHigh(clock, v)
            r == clock.high
<1>1. k + 1 \in 1..Len(tape) /\ Len(tape) \in Nat
  BY LenProperties DEF TapeTypes
<1>2. /\ v = HighOf(k + 1) % HighN /\ v \in 0..(HighN - 1)
      /\ LowOf(k + 1) \in 0..(LowN - 1) /\ HighOf(k + 1) \in Nat
  BY <1>1, WordTimes DEF TapeTypes
<1>3. clock.loop \in Nat /\ r \in 0..(HighN - 1) /\ clock.low \in 0..(LowN - 1)
  BY DEF Clock
<1>4. /\ c.high = v
      /\ c.low = IF r = v THEN clock.low ELSE 0
      /\ c.loop = IF Overflow(clock, v) THEN clock.loop + 1 ELSE clock.loop
  BY DEF TimeHigh
<1>5. c \in Clock
  <2>1. c.low \in 0..(LowN - 1)
    <3>1. 0 \in 0..(LowN - 1)
      BY Ranges
    <3>. QED BY <1>3, <1>4, <3>1
  <2>2. c.loop \in Nat
    BY <1>3, <1>4
  <2>. QED BY <1>2, <1>4, <2>1, <2>2 DEF Clock, TimeHigh
<1>. HIDE DEF v, c, r
<1>50. clock.loop * HighN \in Nat
  BY <1>3, Ranges, Product
<1>51. Highs(clock) = clock.loop * HighN + r /\ Highs(clock) \in Nat
  BY <1>3, <1>50 DEF Highs, r
<1>6. CASE k < Begin
  <2>1. Begin = k + 1
    BY <1>6
  <2>2. r <= v /\ r \in Nat /\ v \in Nat
    <3>1. r \in Nat /\ v \in Nat /\ (r = v \/ r + 1 = v)
      BY <1>2, <1>3, <1>6, <2>1 DEF Poised, r
    <3>. QED BY <3>1
  <2>3. Monotonic(r, v)
    BY <2>2 DEF Monotonic
  <2>4. ~Overflow(clock, v)
    BY <2>2, Ranges DEF Overflow, r
  <2>5. Highs(c) = clock.loop * HighN + v /\ Highs(clock) = clock.loop * HighN + r
    BY <1>4, <2>4 DEF Highs, r
  <2>6. c.low <= LowOf(k + 1)
    BY <1>2, <1>3, <1>4, <1>6, <2>1, Ranges DEF Poised
  <2>7. Exact => Highs(c) + Loops * HighN = HighOf(k + 1)
    <3>1. CASE r = HighOf(k + 1) % HighN /\ (Exact => Highs(clock) + Loops * HighN = HighOf(k + 1))
      BY <1>2, <2>5, <3>1
    <3>2. CASE r + 1 = HighOf(k + 1) % HighN /\ Highs(clock) + 1 + Loops * HighN = HighOf(k + 1)
      <4>1. v = r + 1
        BY <1>2, <3>2
      <4>. DEFINE m == clock.loop * HighN
      <4>2. m \in Nat /\ Highs(c) = m + v /\ Highs(clock) = m + r
        BY <1>50, <2>5
      <4>. HIDE DEF m
      <4>3. Highs(c) = Highs(clock) + 1
        BY <2>2, <4>1, <4>2
      <4>. QED BY <3>2, <4>3
    <3>. QED BY <1>6, <2>1, <3>1, <3>2 DEF Poised, r
  <2>. QED BY <1>2, <1>4, <1>5, <2>3, <2>6, <2>7 DEF Tracks, v, c, r
<1>7. CASE ~(k < Begin)
  <2>. DEFINE g == HighOf(k + 1) - HighOf(k)
  <2>1. k \in 1..Len(tape) /\ k < Len(tape)
    BY <1>1, <1>7
  <2>2. /\ HighOf(k) \in Nat /\ LowOf(k) \in 0..(LowN - 1) /\ g \in 0..(HighN \div 2)
        /\ g = 0 => LowOf(k) <= LowOf(k + 1)
    BY <1>2, <2>1, WordTimes
  <2>3. r = HighOf(k) % HighN /\ clock.low <= LowOf(k)
        /\ (Exact => Highs(clock) + Loops * HighN = HighOf(k))
    BY <1>7 DEF Tracks, r
  <2>30. HighOf(k + 1) = HighOf(k) + g /\ g \in Nat /\ g < HighN
    <3>1. HighOf(k + 1) = HighOf(k) + g
      BY <1>2, <2>2
    <3>. HIDE DEF g
    <3>. QED BY <2>2, <3>1, Ranges
  <2>. HIDE DEF g
  <2>4. v = (r + g) % HighN /\ r + g \in Nat
    <3>. DEFINE a == HighOf(k) \div HighN
                m == a * HighN
                x == r + g
    <3>1. a \in Nat /\ HighOf(k) = m + r
      <4>1. a \in Nat /\ HighOf(k) = a * HighN + (HighOf(k) % HighN)
        BY <2>2, Division, Ranges
      <4>. QED BY <2>3, <4>1
    <3>2. m \in Nat
      BY <3>1, Ranges, Product
    <3>. HIDE DEF m
    <3>3. x \in Nat /\ HighOf(k + 1) = m + x
      BY <1>3, <2>30, <3>1, <3>2, Ranges
    <3>. HIDE DEF a, x
    <3>4. (m + x) % HighN = x % HighN
      BY <3>1, <3>3, ModShift, Ranges DEF m
    <3>. QED BY <1>2, <3>3, <3>4 DEF x
  <2>5. v = (Highs(clock) + g) % HighN
    <3>. DEFINE m == clock.loop * HighN
                x == r + g
    <3>1. m \in Nat
      BY <1>50
    <3>2. Highs(clock) = m + r
      BY DEF Highs, r
    <3>3. x \in Nat /\ v = x % HighN
      BY <2>4
    <3>. HIDE DEF m
    <3>4. Highs(clock) + g = m + x
      BY <1>3, <2>30, <3>1, <3>2, Ranges
    <3>. HIDE DEF x
    <3>5. (m + x) % HighN = x % HighN
      BY <1>3, <3>3, ModShift, Ranges DEF m
    <3>. QED BY <3>3, <3>4, <3>5
  <2>6. Highs(c) = Highs(clock) + g
    BY <2>2, <2>5, TimeHighTracks DEF c
  <2>7. IF r + g < HighN THEN v = r + g ELSE v = r + g - HighN
    <3>1. g \in 0..(HighN - 1)
      BY <2>30, Ranges
    <3>. QED BY <1>3, <2>4, <3>1, Wrap, Ranges
  <2>8. c.low <= LowOf(k + 1)
    <3>1. r = v => g = 0
      BY <1>3, <2>2, <2>7, Ranges
    <3>2. CASE r = v
      <4>1. c.low = clock.low /\ LowOf(k) <= LowOf(k + 1)
        BY <1>4, <2>2, <3>1, <3>2
      <4>2. clock.low \in Int /\ LowOf(k) \in Int /\ LowOf(k + 1) \in Int
        BY <1>2, <1>3, <2>2
      <4>. QED BY <2>3, <4>1, <4>2
    <3>3. CASE r # v
      BY <1>2, <1>4, <3>3
    <3>. QED BY <3>2, <3>3
  <2>9. Exact => Highs(c) + Loops * HighN = HighOf(k + 1)
    <3>1. Highs(clock) \in Nat
      BY <1>51
    <3>. SUFFICES ASSUME Exact PROVE Highs(c) + Loops * HighN = HighOf(k + 1)
      OBVIOUS
    <3>. DEFINE m == Loops * HighN
    <3>2. Highs(clock) + m = HighOf(k)
      BY <2>3
    <3>. HIDE DEF m
    <3>3. m \in Nat
      BY LoopsType, Ranges, Product DEF m
    <3>4. Highs(c) + m = HighOf(k + 1)
      BY <2>6, <2>30, <3>1, <3>2, <3>3
    <3>. QED BY <3>4 DEF m
  <2>10. ~Monotonic(r, v) => Gap
    <3>. SUFFICES ASSUME ~Monotonic(r, v) PROVE Gap
      OBVIOUS
    <3>3. g > Epsilon
      BY <1>2, <1>3, <2>7, <2>30, AlarmIsGap
    <3>4. k + 1 \in 2..Len(tape) /\ (k + 1) - 1 = k
      BY <1>1, <2>1
    <3>. QED BY <3>3, <3>4 DEF Gap, g
  <2>. QED BY <1>2, <1>4, <1>5, <2>8, <2>9, <2>10 DEF Tracks, v, c, r
<1>. QED BY <1>6, <1>7

-----------------------------------------------------------------------------
(* One event of decode_events_buffer.                                      *)

\* A word that does not begin a group leaves the next one at a beginning.
LEMMA AlignedAfter ==
    ASSUME TapeTypes, TapeGroups, NEW j \in 1..Len(tape), tape[j].type # "vect_12"
    PROVE  Aligned(j)
<1>1. Len(tape) \in Nat
  BY LenProperties DEF TapeTypes
<1>2. SUFFICES ASSUME j < Len(tape)
               PROVE  /\ tape[j + 1].type # "vect_8"
                      /\ tape[j + 1].type = "vect_12" => tape[j + 2].type = "vect_12"
  BY DEF Aligned
<1>3. j + 1 \in 1..Len(tape) /\ (j + 1) - 1 = j /\ (j + 1) + 1 = j + 2
  BY <1>1, <1>2
<1>. QED BY <1>3 DEF TapeGroups

\* The clock and the column over a few words that change neither.
Quiet(k, n) ==
    \A i \in 1..n : tape[k + i].type \notin {"time_high", "addr_y", "base_x", "vect_8"}

LEMMA QuietWords ==
    ASSUME TapeTypes, TapeTimes, NEW col, TapeColumns(col), NEW clock \in Clock,
           NEW k \in Nat, NEW n \in {1, 2, 3, 4}, k + n <= Len(tape), Quiet(k, n)
    PROVE  /\ col[k + n] = col[k]
           /\ k > 0 /\ Tracks(clock, k) => Tracks(clock, k + n)
<1>1. Len(tape) \in Nat
  BY LenProperties DEF TapeTypes
<1>2. ASSUME NEW i \in Nat, i < n PROVE col[k + i + 1] = col[k + i]
  <2>1. i + 1 \in 1..n /\ k + (i + 1) \in 1..Len(tape) /\ k + i + 1 = k + (i + 1)
        /\ (k + (i + 1)) - 1 = k + i
    BY <1>1, <1>2
  <2>. DEFINE j == k + (i + 1)
  <2>2. tape[j].type \notin {"addr_y", "base_x", "vect_8"}
    BY <2>1 DEF Quiet
  <2>3. col[j] = ColumnAfter(tape[j], col[j - 1])
    BY <2>1 DEF TapeColumns
  <2>. HIDE DEF j
  <2>4. col[j] = col[j - 1]
    BY <2>2, <2>3 DEF ColumnAfter
  <2>. QED BY <2>1, <2>4 DEF j
<1>3. ASSUME NEW j \in Nat, k <= j, j < k + n, k > 0, Tracks(clock, j) PROVE Tracks(clock, j + 1)
  <2>. DEFINE i == j + 1 - k
  <2>1. i \in 1..n /\ j \in 1..(Len(tape) - 1) /\ j + 1 = k + i
    BY <1>1, <1>3
  <2>. HIDE DEF i
  <2>2. tape[j + 1].type # "time_high"
    BY <2>1 DEF Quiet
  <2>. QED BY <1>3, <2>1, <2>2, ClockStays
<1>4. /\ n >= 1 /\ n \in Nat
      /\ k + 0 = k /\ k + 0 + 1 = k + 1 /\ k + 1 + 1 = k + 2
      /\ k + 2 + 1 = k + 3 /\ k + 3 + 1 = k + 4
  OBVIOUS
<1>5. n = 1 \/ n = 2 \/ n = 3 \/ n = 4
  OBVIOUS
<1>6. col[k + n] = col[k]
  <2>1. col[k + 0 + 1] = col[k + 0]
    BY <1>2, <1>4
  <2>2. n >= 2 => col[k + 1 + 1] = col[k + 1]
    BY <1>2, <1>4
  <2>3. n >= 3 => col[k + 2 + 1] = col[k + 2]
    BY <1>2, <1>4
  <2>4. n >= 4 => col[k + 3 + 1] = col[k + 3]
    BY <1>2, <1>4
  <2>. QED BY <1>4, <1>5, <2>1, <2>2, <2>3, <2>4
<1>7. ASSUME k > 0, Tracks(clock, k) PROVE Tracks(clock, k + n)
  <2>1. Tracks(clock, k + 1)
    BY <1>3, <1>4, <1>7
  <2>2. n >= 2 => Tracks(clock, k + 1 + 1)
    BY <1>3, <1>7, <2>1
  <2>3. n >= 3 => Tracks(clock, k + 2 + 1)
    BY <1>3, <1>4, <1>5, <1>7, <2>2
  <2>4. n >= 4 => Tracks(clock, k + 3 + 1)
    BY <1>3, <1>4, <1>5, <1>7, <2>3
  <2>. QED BY <1>4, <1>5, <2>1, <2>2, <2>3, <2>4
<1>. QED BY <1>6, <1>7


\* What an event leaves, where it has used a number of words.
After(dec, s, k, w, col) ==
    /\ s.used \in 1..Len(w) /\ Sound(s.dec, k + s.used, col)
    /\ s.dec.incomplete = dec.incomplete /\ s.dec.missing = dec.missing

LEMMA BeginIs ==
    ASSUME FirstHigh \in Nat, from \in Nat, FirstHigh > 0
    PROVE  Begin \in Nat \ {0}
  BY DEF Begin

\* Decoding begins with a word of the time.
LEMMA BeginsWithTime ==
    ASSUME NEW dec, NEW k \in Nat, NEW col, Sound(dec, k, col), Begin \in Nat,
           tape[k + 1].type \notin {"time_high", "time_low"}
    PROVE  Begin <= k /\ Tracks(dec.clock, k)
<1>1. Begin - 1 <= k /\ IF k < Begin THEN Poised(dec.clock) ELSE Tracks(dec.clock, k)
  BY DEF Sound
<1>2. ~(k < Begin)
  <2>1. SUFFICES ASSUME k < Begin PROVE FALSE
    OBVIOUS
  <2>2. Begin = k + 1 /\ Poised(dec.clock)
    BY <1>1, <2>1
  <2>. QED BY <2>2 DEF Poised
<1>. QED BY <1>1, <1>2

\* An event that leaves the decoder as it is.
LEMMA NothingChanged ==
    ASSUME NEW col, Tape(col), NEW dec, NEW k \in Nat, Sound(dec, k, col), Begin \in Nat \ {0},
           NEW n \in {1, 2, 3, 4}, k + n <= Len(tape), Quiet(k, n), tape[k + 1].type # "time_low",
           Aligned(k + n)
    PROVE  Sound(dec, k + n, col)
<1>1. Len(tape) \in Nat
  BY LenProperties DEF Tape, TapeTypes
<1>2. tape[k + 1].type # "time_high"
  BY DEF Quiet
<1>3. Begin <= k /\ Tracks(dec.clock, k)
  BY <1>2, BeginsWithTime
<1>4. dec.clock \in Clock
  BY DEF Sound, Decoder
<1>5. col[k + n] = col[k] /\ Tracks(dec.clock, k + n)
  BY <1>3, <1>4, QuietWords DEF Tape
<1>6. k + n \in Nat /\ Begin - 1 <= k + n /\ ~(k + n < Begin)
  BY <1>3
<1>. QED BY <1>5, <1>6 DEF Sound

LEMMA FirstAhead ==
    ASSUME NEW w, NEW k \in Nat, Ahead(w, k), Decodable(w), TapeTypes
    PROVE  /\ Len(w) \in Nat /\ Len(w) >= 1 /\ Size(w[1]) <= Len(w)
           /\ w[1] = tape[k + 1] /\ k + 1 \in 1..Len(tape) /\ Len(tape) \in Nat
<1>1. Len(w) \in Nat /\ Len(tape) \in Nat /\ Len(w) # 0
  BY LenProperties, EmptySeq DEF Ahead, Decodable, TapeTypes
<1>. QED BY <1>1 DEF Ahead, Decodable

LEMMA DecodesAddrX ==
    ASSUME NEW col, Tape(col), NEW dec, NEW k \in Nat, Sound(dec, k, col), Begin \in Nat \ {0},
           NEW w, Ahead(w, k), Decodable(w), w[1].type = "addr_x"
    PROVE  After(dec, AddrX(dec, w), k, w, col)
<1>1. /\ Len(w) \in Nat /\ Len(w) >= 1 /\ w[1] = tape[k + 1] /\ k + 1 \in 1..Len(tape)
      /\ Len(tape) \in Nat
  BY FirstAhead DEF Tape
<1>2. AddrX(dec, w).dec = dec /\ AddrX(dec, w).used = 1
  BY DEF AddrX, Step
<1>3. Quiet(k, 1) /\ Aligned(k + 1)
  BY <1>1, AlignedAfter DEF Quiet, Tape
<1>4. Sound(dec, k + 1, col)
  BY <1>1, <1>3, NothingChanged
<1>. QED BY <1>1, <1>2, <1>4 DEF After

LEMMA DecodesExtTrigger ==
    ASSUME NEW col, Tape(col), NEW dec, NEW k \in Nat, Sound(dec, k, col), Begin \in Nat \ {0},
           NEW w, Ahead(w, k), Decodable(w), w[1].type = "trigger"
    PROVE  After(dec, ExtTrigger(dec, w), k, w, col)
<1>1. /\ Len(w) \in Nat /\ Len(w) >= 1 /\ w[1] = tape[k + 1] /\ k + 1 \in 1..Len(tape)
      /\ Len(tape) \in Nat
  BY FirstAhead DEF Tape
<1>2. ExtTrigger(dec, w).dec = dec /\ ExtTrigger(dec, w).used = 1
  BY DEF ExtTrigger, Step
<1>3. Quiet(k, 1) /\ Aligned(k + 1)
  BY <1>1, AlignedAfter DEF Quiet, Tape
<1>4. Sound(dec, k + 1, col)
  BY <1>1, <1>3, NothingChanged
<1>. QED BY <1>1, <1>2, <1>4 DEF After

LEMMA DecodesOthers ==
    ASSUME NEW col, Tape(col), NEW dec, NEW k \in Nat, Sound(dec, k, col), Begin \in Nat \ {0},
           NEW w, Ahead(w, k), Decodable(w), w[1].type = "others"
    PROVE  After(dec, Others(dec, w), k, w, col)
<1>. DEFINE n == Others(dec, w).used
<1>1. /\ Len(w) \in Nat /\ Len(w) >= 1 /\ w[1] = tape[k + 1] /\ k + 1 \in 1..Len(tape)
      /\ Len(tape) \in Nat /\ Size(w[1]) <= Len(w)
  BY FirstAhead DEF Tape
<1>2. Others(dec, w).dec = dec
  BY DEF Others, Step
<1>3. n = 1 \/ (n = 4 /\ w[1].v \notin Blacklist)
  BY DEF Others, Step
<1>4. n \in 1..Len(w)
  <2>1. w[1].v \notin Blacklist => Size(w[1]) = 4
    BY DEF Size
  <2>. HIDE DEF n
  <2>. QED BY <1>1, <1>3, <2>1
<1>. HIDE DEF n
<1>5. k + 4 <= Len(tape) /\ tape[k + 2].type \in {"cont_12", "cont_4"}
      /\ tape[k + 3].type \in {"cont_12", "cont_4"} /\ tape[k + 4].type \in {"cont_12", "cont_4"}
  <2>1. (k + 1) + 3 <= Len(tape)
        /\ \A j \in (k + 1 + 1)..(k + 1 + 3) : tape[j].type \in {"cont_12", "cont_4"}
    BY <1>1 DEF Tape, TapeGroups
  <2>. QED BY <1>1, <2>1
<1>6. \A i \in 1..4 : tape[k + i].type \in {"others", "cont_12", "cont_4"}
  BY <1>1, <1>5
<1>7. Quiet(k, n) /\ k + n \in 1..Len(tape) /\ tape[k + n].type # "vect_12" /\ n \in {1, 2, 3, 4}
  <2>1. n \in 1..4 /\ n \in {1, 2, 3, 4} /\ k + n \in 1..Len(tape)
    <3>1. n = 1 \/ n = 4
      BY <1>3
    <3>2. k + 1 \in 1..Len(tape) /\ k + 4 \in 1..Len(tape)
      BY <1>1, <1>5
    <3>. QED BY <3>1, <3>2
  <2>2. \A i \in 1..n : tape[k + i].type \in {"others", "cont_12", "cont_4"}
    BY <1>6, <2>1
  <2>3. tape[k + n].type \in {"others", "cont_12", "cont_4"}
    BY <1>6, <2>1
  <2>. QED BY <2>1, <2>2, <2>3 DEF Quiet
<1>8. Aligned(k + n)
  BY <1>7, AlignedAfter DEF Tape
<1>9. Sound(dec, k + n, col)
  BY <1>1, <1>7, <1>8, NothingChanged
<1>. QED BY <1>2, <1>4, <1>9 DEF After, n

LEMMA DecodesHigh ==
    ASSUME NEW col, Tape(col), NEW dec, NEW k \in Nat, Sound(dec, k, col), Begin \in Nat \ {0},
           NEW w, Ahead(w, k), Decodable(w), w[1].type = "time_high"
    PROVE  After(dec, High(dec, w), k, w, col)
<1>. DEFINE v == w[1].v
            to == High(dec, w).dec
<1>1. /\ Len(w) \in Nat /\ Len(w) >= 1 /\ w[1] = tape[k + 1] /\ k + 1 \in 1..Len(tape)
      /\ Len(tape) \in Nat
  BY FirstAhead DEF Tape
<1>2. dec \in Decoder /\ dec.clock \in Clock
  BY DEF Sound, Decoder
<1>3. /\ FirstHigh > 0 /\ Begin - 1 <= k
      /\ IF k < Begin THEN Poised(dec.clock) ELSE Tracks(dec.clock, k)
  BY DEF Sound
<1>4. /\ TimeHigh(dec.clock, v) \in Clock /\ Tracks(TimeHigh(dec.clock, v), k + 1)
      /\ ~Monotonic(dec.clock.high, v) => Gap
  BY <1>1, <1>2, <1>3, ClockHigh DEF Tape
<1>5. High(dec, w).used = 1 /\ to = [dec EXCEPT !.clock = TimeHigh(@, v),
                                              !.alarm = @ \/ ~Monotonic(dec.clock.high, v)]
  BY DEF High, Step
<1>6. /\ to.clock = TimeHigh(dec.clock, v) /\ to.alarm = (dec.alarm \/ ~Monotonic(dec.clock.high, v))
      /\ to.base = dec.base /\ to.row = dec.row /\ to.column = dec.column /\ to.vect = dec.vect
      /\ to.incomplete = dec.incomplete /\ to.missing = dec.missing
  BY <1>2, <1>5 DEF Decoder
<1>7. to \in Decoder
  BY <1>2, <1>4, <1>5 DEF Decoder
<1>. HIDE DEF to
<1>8. col[k + 1] = col[k]
  <2>1. col[k + 1] = ColumnAfter(tape[k + 1], col[k + 1 - 1]) /\ k + 1 - 1 = k
    BY <1>1 DEF Tape, TapeColumns
  <2>. QED BY <1>1, <2>1 DEF ColumnAfter
<1>9. Aligned(k + 1)
  BY <1>1, AlignedAfter DEF Tape
<1>10. Sound(to, k + 1, col)
  <2>1. Begin - 1 <= k + 1 /\ ~(k + 1 < Begin) /\ k + 1 <= Len(tape)
    BY <1>1, <1>3
  <2>2. to.alarm => Gap
    BY <1>4, <1>6 DEF Sound
  <2>3. IsValid(to) /\ col[k + 1] # None => to.vect /\ to.column = col[k + 1]
    BY <1>6, <1>8 DEF Sound, IsValid
  <2>. QED BY <1>3, <1>4, <1>6, <1>7, <1>9, <2>1, <2>2, <2>3 DEF Sound
<1>. QED BY <1>1, <1>5, <1>6, <1>10 DEF After, to

LEMMA DecodesState ==
    ASSUME NEW col, Tape(col), NEW dec, NEW k \in Nat, Sound(dec, k, col), Begin \in Nat \ {0},
           NEW w, Ahead(w, k), Decodable(w), w[1].type \notin {"vect_12", "time_high"}
    PROVE  After(dec, State(dec, w), k, w, col)
<1>. DEFINE v == w[1].v
            type == w[1].type
            to == State(dec, w).dec
<1>1. /\ Len(w) \in Nat /\ Len(w) >= 1 /\ w[1] = tape[k + 1] /\ k + 1 \in 1..Len(tape)
      /\ Len(tape) \in Nat
  BY FirstAhead DEF Tape
<1>2. dec \in Decoder /\ dec.clock \in Clock
  BY DEF Sound, Decoder
<1>3. /\ FirstHigh > 0 /\ Begin - 1 <= k
      /\ IF k < Begin THEN Poised(dec.clock) ELSE Tracks(dec.clock, k)
  BY DEF Sound
<1>4. State(dec, w).used = 1
      /\ to = [dec EXCEPT !.row = IF type = "addr_y" THEN v ELSE @,
                           !.column = IF type = "base_x" THEN v ELSE @,
                           !.vect = @ \/ type = "base_x",
                           !.clock = IF type = "time_low" THEN TimeLow(@, v) ELSE @,
                           !.set = TRUE]
  BY DEF State, Step
<1>5. /\ to.clock = IF type = "time_low" THEN TimeLow(dec.clock, v) ELSE dec.clock
      /\ to.row = IF type = "addr_y" THEN v ELSE dec.row
      /\ to.column = IF type = "base_x" THEN v ELSE dec.column
      /\ to.vect = (dec.vect \/ type = "base_x")
      /\ to.base = dec.base /\ to.alarm = dec.alarm /\ to.set = TRUE /\ to.shift = dec.shift
      /\ to.incomplete = dec.incomplete /\ to.missing = dec.missing
  BY <1>2, <1>4 DEF Decoder
<1>6. to.clock \in Clock /\ Tracks(to.clock, k + 1)
  <2>1. CASE type = "time_low"
    BY <1>1, <1>2, <1>3, <1>5, <2>1, ClockLow DEF Tape
  <2>2. CASE type # "time_low"
    <3>1. Begin <= k /\ Tracks(dec.clock, k)
      BY <1>1, <2>2, BeginsWithTime
    <3>2. k \in 1..(Len(tape) - 1) /\ tape[k + 1].type # "time_high"
      BY <1>1, <3>1
    <3>. QED BY <1>2, <1>5, <2>2, <3>1, <3>2, ClockStays DEF Tape
  <2>. QED BY <2>1, <2>2
<1>7. /\ type = "addr_y" => v \in 0..Height
      /\ type = "base_x" => v \in Nat
  BY <1>1 DEF Tape, TapeTypes
<1>8. to \in Decoder
  <2>1. to.row \in {None} \cup 0..Height /\ to.column \in Nat /\ to.vect \in BOOLEAN
    BY <1>2, <1>5, <1>7 DEF Decoder
  <2>. QED BY <1>2, <1>4, <1>5, <1>6, <2>1 DEF Decoder
<1>. HIDE DEF to
<1>9. col[k + 1] = ColumnAfter(tape[k + 1], col[k])
  <2>1. col[k + 1] = ColumnAfter(tape[k + 1], col[k + 1 - 1]) /\ k + 1 - 1 = k
    BY <1>1 DEF Tape, TapeColumns
  <2>. QED BY <2>1
<1>10. Aligned(k + 1)
  BY <1>1, AlignedAfter DEF Tape
<1>11. IsValid(to) /\ col[k + 1] # None => to.vect /\ to.column = col[k + 1]
  <2>1. type # "vect_8"
    BY <1>1 DEF Sound, Aligned
  <2>2. CASE type = "addr_y"
    BY <1>1, <1>9, <2>2 DEF ColumnAfter
  <2>3. CASE type = "base_x"
    BY <1>1, <1>5, <1>9, <2>3 DEF ColumnAfter
  <2>4. CASE type \notin {"addr_y", "base_x"}
    <3>1. col[k + 1] = col[k]
      BY <1>1, <1>9, <2>1, <2>4 DEF ColumnAfter
    <3>. QED BY <1>5, <2>4, <3>1 DEF Sound, IsValid
  <2>. QED BY <2>2, <2>3, <2>4
<1>12. Sound(to, k + 1, col)
  <2>1. Begin - 1 <= k + 1 /\ ~(k + 1 < Begin) /\ k + 1 <= Len(tape)
    BY <1>1, <1>3
  <2>2. (to.alarm => Gap) /\ to.base
    BY <1>5 DEF Sound
  <2>. QED BY <1>3, <1>6, <1>8, <1>10, <1>11, <2>1, <2>2 DEF Sound
<1>. QED BY <1>1, <1>4, <1>5, <1>12 DEF After, to

\* The words of a vector group.
LEMMA GroupIs ==
    ASSUME TapeTypes, TapeGroups, NEW k \in Nat, k < Len(tape), Aligned(k),
           tape[k + 1].type = "vect_12"
    PROVE  /\ k + 3 <= Len(tape) /\ tape[k + 2].type = "vect_12" /\ tape[k + 3].type = "vect_8"
           /\ ~Aligned(k + 1) /\ ~Aligned(k + 2) /\ Aligned(k + 3)
<1>1. Len(tape) \in Nat /\ k + 1 \in 1..Len(tape)
  BY LenProperties DEF TapeTypes
<1>2. tape[k + 2].type = "vect_12"
  BY DEF Aligned
<1>3. /\ (k + 1) + 1 = k + 2 /\ (k + 1) + 2 = k + 3 /\ (k + 2) + 1 = k + 3 /\ (k + 3) - 1 = k + 2
      /\ (k + 3) + 1 = k + 4 /\ (k + 3) + 2 = k + 5 /\ (k + 4) - 1 = k + 3 /\ (k + 4) + 1 = k + 5
  OBVIOUS
<1>4. k + 3 <= Len(tape) /\ tape[k + 3].type = "vect_8"
  <2>1. \/ k + 1 + 2 <= Len(tape) /\ tape[(k + 1) + 2].type = "vect_8"
        \/ tape[(k + 1) + 1].type = "vect_8"
    BY <1>1 DEF TapeGroups
  <2>. QED BY <1>2, <1>3, <2>1
<1>5. ~Aligned(k + 1) /\ ~Aligned(k + 2)
  BY <1>1, <1>2, <1>3, <1>4 DEF Aligned
<1>6. Aligned(k + 3)
  <2>1. k + 3 \in 1..Len(tape) /\ tape[k + 3].type # "vect_12"
    BY <1>1, <1>4
  <2>. QED BY <2>1, AlignedAfter
<1>. QED BY <1>2, <1>4, <1>5, <1>6

LEMMA DecodesVect ==
    ASSUME NEW col, Tape(col), NEW dec, NEW k \in Nat, Sound(dec, k, col), Begin \in Nat \ {0},
           NEW w, Ahead(w, k), Decodable(w), w[1].type = "vect_12"
    PROVE  After(dec, Vect(dec, w), k, w, col)
<1>. DEFINE to == Vect(dec, w).dec
            x == dec.column
<1>1. /\ Len(w) \in Nat /\ Len(w) >= 1 /\ w[1] = tape[k + 1] /\ k + 1 \in 1..Len(tape)
      /\ Len(tape) \in Nat /\ Size(w[1]) <= Len(w)
  BY FirstAhead DEF Tape
<1>2. Len(w) >= 3
  BY <1>1 DEF Size
<1>3. dec \in Decoder /\ dec.clock \in Clock /\ Aligned(k) /\ k < Len(tape)
  BY <1>1 DEF Sound, Decoder
<1>4. /\ k + 3 <= Len(tape) /\ tape[k + 2].type = "vect_12" /\ tape[k + 3].type = "vect_8"
      /\ Aligned(k + 3) /\ tape[k + 1].type = "vect_12"
  BY <1>1, <1>3, GroupIs DEF Tape
<1>5. Begin <= k /\ Tracks(dec.clock, k)
  BY <1>1, <1>4, BeginsWithTime
<1>6. col[k + 2] = col[k] /\ Tracks(dec.clock, k + 2)
  <2>1. Quiet(k, 2)
    BY <1>4 DEF Quiet
  <2>2. k + 2 <= Len(tape) /\ k > 0
    BY <1>4, <1>5
  <2>. QED BY <1>3, <1>5, <2>1, <2>2, QuietWords DEF Tape
<1>7. Tracks(dec.clock, k + 3)
  <2>1. k + 2 \in 1..(Len(tape) - 1) /\ (k + 2) + 1 = k + 3 /\ tape[k + 3].type # "time_high"
    BY <1>1, <1>4
  <2>. QED BY <1>3, <1>6, <2>1, ClockStays DEF Tape
<1>8. col[k] # None /\ col[k + 3] = col[k] + 3 /\ col[k] + 3 <= Width
  <2>1. k + 3 \in 1..Len(tape) /\ (k + 3) - 1 = k + 2
    BY <1>1, <1>4
  <2>2. col[k + 3] = ColumnAfter(tape[k + 3], col[k + 2])
        /\ col[k + 2] # None /\ col[k + 2] + 3 <= Width
    BY <1>4, <2>1 DEF Tape, TapeColumns
  <2>. QED BY <1>4, <1>6, <2>2 DEF ColumnAfter
<1>9. Vect(dec, w).used = 3
  BY DEF Vect, Step
<1>10. IsValid(dec) => dec.vect /\ x = col[k] /\ x + 3 <= Width
  BY <1>8 DEF Sound
<1>11. to = IF IsValid(dec) THEN [dec EXCEPT !.column = x + 3] ELSE dec
  BY <1>10 DEF Vect, Step
<1>. HIDE DEF to
<1>12. /\ to.clock = dec.clock /\ to.alarm = dec.alarm /\ to.base = dec.base /\ to.row = dec.row
       /\ to.vect = dec.vect /\ to.incomplete = dec.incomplete /\ to.missing = dec.missing
       /\ IsValid(dec) => to.column = x + 3
       /\ to \in Decoder
  <2>1. CASE IsValid(dec)
    <3>1. to = [dec EXCEPT !.column = x + 3] /\ x + 3 \in Nat
      BY <1>3, <1>11, <2>1 DEF Decoder
    <3>. QED BY <1>3, <3>1 DEF Decoder
  <2>2. CASE ~IsValid(dec)
    BY <1>3, <1>11, <2>2
  <2>. QED BY <2>1, <2>2
<1>13. Sound(to, k + 3, col)
  <2>1. Begin - 1 <= k + 3 /\ ~(k + 3 < Begin)
    BY <1>5
  <2>2. (to.alarm => Gap) /\ to.base /\ FirstHigh > 0
    BY <1>12 DEF Sound
  <2>3. IsValid(to) /\ col[k + 3] # None => to.vect /\ to.column = col[k + 3]
    BY <1>8, <1>10, <1>12 DEF IsValid
  <2>. QED BY <1>4, <1>7, <1>12, <2>1, <2>2, <2>3 DEF Sound
<1>. QED BY <1>1, <1>2, <1>9, <1>12, <1>13 DEF After, to

LEMMA DecodesEvent ==
    ASSUME NEW col, Tape(col), NEW dec, NEW k \in Nat, Sound(dec, k, col), Begin \in Nat \ {0},
           NEW w, Ahead(w, k), Decodable(w)
    PROVE  After(dec, DecodeEvent(dec, w), k, w, col)
<1>1. CASE w[1].type = "addr_x"
  BY <1>1, DecodesAddrX DEF DecodeEvent
<1>2. CASE w[1].type = "vect_12"
  BY <1>2, DecodesVect DEF DecodeEvent
<1>3. CASE w[1].type = "time_high"
  BY <1>3, DecodesHigh DEF DecodeEvent
<1>4. CASE w[1].type = "trigger"
  BY <1>4, DecodesExtTrigger DEF DecodeEvent
<1>5. CASE w[1].type = "others"
  BY <1>5, DecodesOthers DEF DecodeEvent
<1>6. CASE w[1].type \notin {"addr_x", "vect_12", "time_high", "trigger", "others"}
  BY <1>6, DecodesState DEF DecodeEvent
<1>. QED BY <1>1, <1>2, <1>3, <1>4, <1>5, <1>6

-----------------------------------------------------------------------------
(* The loop, and decode_impl.                                              *)

\* What the loop leaves of the words that it is given.
Decoded(dec, g, words, k, u, col) ==
    /\ u \in 0..Len(words) /\ Sound(g.dec, k + u, col)
    /\ g.dec.incomplete = dec.incomplete /\ g.dec.missing = dec.missing
    /\ g.rest = SubSeq(words, u + 1, Len(words)) /\ ~Decodable(g.rest)
    /\ g.missing = IF g.rest = <<>> THEN 0 ELSE Size(g.rest[1]) - Len(g.rest)

LEMMA RestAhead ==
    ASSUME NEW words, NEW k \in Nat, Ahead(words, k), NEW u \in 0..Len(words)
    PROVE  /\ Ahead(SubSeq(words, u + 1, Len(words)), k + u)
           /\ Len(SubSeq(words, u + 1, Len(words))) = Len(words) - u
<1>. DEFINE rest == SubSeq(words, u + 1, Len(words))
<1>1. words \in Seq(Range(tape)) /\ Len(words) \in Nat
  BY LenProperties DEF Ahead
<1>2. rest \in Seq(Range(tape)) /\ Len(rest) = Len(words) - u
      /\ \A i \in 1..Len(rest) : rest[i] = words[u + i]
  BY <1>1, SubSeqProperties
<1>. HIDE DEF rest
<1>3. \A i \in 1..Len(rest) : rest[i] = tape[(k + u) + i]
  <2>1. ASSUME NEW i \in 1..Len(rest) PROVE rest[i] = tape[(k + u) + i]
    <3>1. u + i \in 1..Len(words) /\ k + (u + i) = (k + u) + i
      BY <1>1, <1>2
    <3>. QED BY <1>2, <3>1 DEF Ahead
  <2>. QED BY <2>1
<1>4. (k + u) + Len(rest) <= Len(tape)
  <2>1. (k + u) + Len(rest) = k + Len(words)
    BY <1>1, <1>2
  <2>. QED BY <2>1 DEF Ahead
<1>. QED BY <1>2, <1>3, <1>4 DEF Ahead, rest

LEMMA DecodesBuffer ==
    ASSUME NEW col, Tape(col), NEW dec, NEW k \in Nat, Sound(dec, k, col), Begin \in Nat \ {0},
           NEW words, Ahead(words, k), NEW events
    PROVE  \E u : Decoded(dec, DecodeBuffer(dec, words, events), words, k, u, col)
<1>. DEFINE G == {e \in Decoder \X (0..Len(words)) :
                    /\ Sound(e[1], k + e[2], col)
                    /\ e[1].incomplete = dec.incomplete /\ e[1].missing = dec.missing}
<1>1. words \in Seq(Range(tape)) /\ Len(words) \in Nat
  BY LenProperties DEF Ahead
<1>2. <<dec, 0>> \in G
  <2>1. dec \in Decoder /\ k + 0 = k
    BY DEF Sound
  <2>. QED BY <1>1, <2>1
<1>3. ASSUME NEW x, <<x.dec, x.used>> \in G
      PROVE  /\ x.used \in 0..Len(words)
             /\ Decodable(SubSeq(words, x.used + 1, Len(words))) =>
                   LET y == DecodeNext(x, words)
                   IN <<y.dec, y.used>> \in G /\ y.used > x.used
  <2>. DEFINE rest == SubSeq(words, x.used + 1, Len(words))
              s == DecodeEvent(x.dec, rest)
              y == DecodeNext(x, words)
  <2>1. /\ x.used \in 0..Len(words) /\ x.dec \in Decoder
        /\ Sound(x.dec, k + x.used, col) /\ k + x.used \in Nat
        /\ x.dec.incomplete = dec.incomplete /\ x.dec.missing = dec.missing
    BY <1>1, <1>3
  <2>2. SUFFICES ASSUME Decodable(rest) PROVE <<y.dec, y.used>> \in G /\ y.used > x.used
    BY <2>1
  <2>3. y = Step(s.dec, x.events \o s.events, x.used + s.used)
    BY <2>2 DEF DecodeNext
  <2>4. y.dec = s.dec /\ y.used = x.used + s.used
    BY <2>3 DEF Step
  <2>5. Ahead(rest, k + x.used) /\ Len(rest) = Len(words) - x.used
    BY <2>1, RestAhead
  <2>. HIDE DEF rest
  <2>6. After(x.dec, s, k + x.used, rest, col)
    BY <2>1, <2>2, <2>5, DecodesEvent
  <2>. HIDE DEF s, y
  <2>7. /\ s.used \in 1..(Len(words) - x.used) /\ Sound(s.dec, k + x.used + s.used, col)
        /\ s.dec.incomplete = dec.incomplete /\ s.dec.missing = dec.missing
    BY <2>1, <2>5, <2>6 DEF After
  <2>8. y.used \in 0..Len(words) /\ y.used > x.used /\ k + x.used + s.used = k + y.used
    BY <1>1, <2>1, <2>4, <2>7
  <2>9. y.dec \in Decoder
    BY <2>4, <2>7 DEF Sound
  <2>. QED BY <2>1, <2>4, <2>7, <2>8, <2>9
<1>. HIDE DEF G
<1>30. Iterates(words, G)
  BY <1>3 DEF Iterates
<1>4. PICK end : Ended(words, dec, events, G, end)
  BY <1>1, <1>2, <1>30, BufferDecoded
<1>5. /\ end.used \in 0..Len(words) /\ Sound(end.dec, k + end.used, col)
      /\ end.dec.incomplete = dec.incomplete /\ end.dec.missing = dec.missing
  BY <1>4 DEF G, Ended
<1>. DEFINE g == DecodeBuffer(dec, words, events)
            rest == SubSeq(words, end.used + 1, Len(words))
            missing == IF rest = <<>> THEN 0 ELSE Size(rest[1]) - Len(rest)
<1>6. ~Decodable(rest)
      /\ g = [dec |-> end.dec, events |-> end.events, rest |-> rest, missing |-> missing]
  BY <1>4 DEF Ended
<1>. HIDE DEF g, missing
<1>8. g.dec = end.dec /\ g.rest = rest /\ g.missing = missing
  BY <1>6
<1>9. Decoded(dec, g, words, k, end.used, col)
  BY <1>5, <1>6, <1>8 DEF Decoded, missing
<1>. QED BY <1>9 DEF g


\* A group that has been completed is decoded to its end.
LEMMA GroupCompleted ==
    ASSUME NEW col, Tape(col), NEW dec, NEW k \in Nat, Begin \in Nat \ {0},
           NEW group, Ahead(group, k), group # <<>>, Size(group[1]) = Len(group), Len(group) > 1,
           Aligned(k), NEW g, NEW u, Decoded(dec, g, group, k, u, col)
    PROVE  u = Len(group)
<1>1. group \in Seq(Range(tape)) /\ Len(group) \in Nat /\ u \in 0..Len(group)
      /\ tape \in Seq(Range(tape)) /\ Len(tape) \in Nat
  BY LenProperties DEF Ahead, Decoded, Tape, TapeTypes
<1>. DEFINE rest == SubSeq(group, u + 1, Len(group))
<1>2. Ahead(rest, k + u) /\ Len(rest) = Len(group) - u /\ ~Decodable(rest)
  BY <1>1, RestAhead DEF Decoded
<1>. HIDE DEF rest
<1>3. SUFFICES ASSUME u < Len(group) PROVE FALSE
  BY <1>1
<1>4. Len(rest) \in Nat /\ Len(rest) >= 1 /\ rest # <<>> /\ rest[1] = tape[k + u + 1]
  <2>1. Len(rest) \in Nat /\ Len(rest) >= 1
    BY <1>1, <1>2, <1>3
  <2>2. rest[1] = tape[k + u + 1]
    BY <2>1, <1>2 DEF Ahead
  <2>. QED BY <2>1, <2>2, EmptySeq
<1>5. ~(Size(rest[1]) <= Len(rest))
  BY <1>2, <1>4 DEF Decodable
<1>6. /\ group[1] = tape[k + 1] /\ k + Len(group) <= Len(tape) /\ k + 1 \in 1..Len(tape)
      /\ k < Len(tape)
  BY <1>1, <1>3 DEF Ahead
<1>7. u # 0
  <2>1. SUFFICES ASSUME u = 0 PROVE FALSE
    OBVIOUS
  <2>2. rest[1] = group[1] /\ Len(rest) = Len(group)
    BY <1>1, <1>2, <1>4, <1>6, <2>1
  <2>. QED BY <1>1, <1>5, <2>2
<1>8. CASE group[1].type = "vect_12"
  <2>1. Len(group) = 3
    BY <1>8 DEF Size
  <2>2. u = 1 \/ u = 2
    BY <1>1, <1>3, <1>7, <2>1
  <2>3. Aligned(k + u)
    BY DEF Decoded, Sound
  <2>. QED BY <1>6, <1>8, <2>2, <2>3, GroupIs DEF Tape
<1>9. CASE group[1].type = "others" /\ group[1].type # "vect_12"
  <2>1. Len(group) = 4
    <3>. DEFINE m == Size(group[1])
    <3>1. m = 1 \/ m = 4
      BY <1>9 DEF Size
    <3>2. Len(group) = m
      OBVIOUS
    <3>. HIDE DEF m
    <3>. QED BY <3>1, <3>2
  <2>2. u = 1 \/ u = 2 \/ u = 3
    BY <1>1, <1>3, <1>7, <2>1
  <2>3. \A j \in (k + 1 + 1)..(k + 1 + 3) : tape[j].type \in {"cont_12", "cont_4"}
    BY <1>6, <1>9 DEF Tape, TapeGroups
  <2>4. k + u + 1 \in (k + 1 + 1)..(k + 1 + 3)
    BY <2>2
  <2>5. rest[1].type \in {"cont_12", "cont_4"}
    BY <1>4, <2>3, <2>4
  <2>6. Size(rest[1]) = 1
    BY <2>5 DEF Size
  <2>. QED BY <1>4, <1>5, <2>6
<1>10. CASE group[1].type \notin {"vect_12", "others"}
  <2>1. Size(group[1]) = 1
    BY <1>10 DEF Size
  <2>. QED BY <2>1
<1>. QED BY <1>8, <1>9, <1>10

LEMMA FrontAhead ==
    ASSUME NEW words, NEW k \in Nat, Ahead(words, k), NEW n \in 0..Len(words)
    PROVE  Ahead(SubSeq(words, 1, n), k) /\ Len(SubSeq(words, 1, n)) = n
<1>. DEFINE front == SubSeq(words, 1, n)
<1>1. words \in Seq(Range(tape)) /\ Len(words) \in Nat
  BY LenProperties DEF Ahead
<1>2. front \in Seq(Range(tape)) /\ Len(front) = n /\ \A i \in 1..n : front[i] = words[i]
  BY <1>1, SubSeqProperties
<1>. HIDE DEF front
<1>3. k + n <= Len(tape)
  <2>1. k + Len(words) <= Len(tape) /\ Len(tape) \in Int
    BY <1>1, LenProperties DEF Ahead
  <2>. QED BY <1>1, <2>1
<1>. QED BY <1>1, <1>2, <1>3 DEF Ahead, front

LEMMA BothAhead ==
    ASSUME NEW v, NEW w, NEW k \in Nat, Ahead(v, k), Ahead(w, k + Len(v))
    PROVE  Ahead(v \o w, k) /\ Len(v \o w) = Len(v) + Len(w) /\ (v # <<>> => (v \o w)[1] = v[1])
<1>. DEFINE z == v \o w
<1>1. v \in Seq(Range(tape)) /\ w \in Seq(Range(tape)) /\ Len(v) \in Nat /\ Len(w) \in Nat
  BY LenProperties DEF Ahead
<1>2. /\ z \in Seq(Range(tape)) /\ Len(z) = Len(v) + Len(w)
      /\ \A i \in 1..Len(z) : z[i] = IF i <= Len(v) THEN v[i] ELSE w[i - Len(v)]
  BY <1>1, ConcatProperties
<1>. HIDE DEF z
<1>3. ASSUME NEW i \in 1..Len(z) PROVE z[i] = tape[k + i]
  <2>1. CASE i <= Len(v)
    <3>1. i \in 1..Len(v)
      BY <1>1, <1>2, <2>1
    <3>2. v[i] = tape[k + i]
      BY <3>1 DEF Ahead
    <3>. QED BY <1>2, <2>1, <3>2
  <2>2. CASE ~(i <= Len(v))
    <3>1. i - Len(v) \in 1..Len(w) /\ (k + Len(v)) + (i - Len(v)) = k + i
      BY <1>1, <1>2, <2>2
    <3>2. w[i - Len(v)] = tape[(k + Len(v)) + (i - Len(v))]
      BY <3>1 DEF Ahead
    <3>. QED BY <1>2, <2>2, <3>1, <3>2
  <2>. QED BY <2>1, <2>2
<1>4. k + Len(z) <= Len(tape)
  <2>1. (k + Len(v)) + Len(w) <= Len(tape)
    BY DEF Ahead
  <2>. QED BY <1>1, <1>2, <2>1
<1>5. v # <<>> => z[1] = v[1]
  <2>1. v # <<>> => Len(v) >= 1
    BY <1>1, EmptySeq
  <2>. QED BY <1>1, <1>2, <2>1
<1>. QED BY <1>2, <1>3, <1>4, <1>5 DEF Ahead, z

\* What the decoder knows of the words that have been decoded does not depend
\* on those that it keeps.
SameButKept(to, dec) ==
    /\ to \in Decoder /\ to.clock = dec.clock /\ to.base = dec.base /\ to.row = dec.row
    /\ to.column = dec.column /\ to.vect = dec.vect /\ to.alarm = dec.alarm

LEMMA SoundKeeping ==
    ASSUME NEW dec, NEW k, NEW col, Sound(dec, k, col), NEW to, SameButKept(to, dec)
    PROVE  Sound(to, k, col)
  BY DEF Sound, IsValid, SameButKept

\* A call that is given the words after the word p.
LEMMA DecodesWords ==
    ASSUME NEW col, Tape(col), NEW dec, NEW p \in 0..Len(tape), Begin \in Nat \ {0},
           Sound(dec, Done(dec, p), col), Keeps(dec, p), NEW words, Ahead(words, p)
    PROVE  LET to == DecodeWords(dec, words).dec
               q == p + Len(words)
           IN /\ Sound(to, Done(to, q), col) /\ Keeps(to, q)
              /\ Done(dec, p) <= Done(to, q)
              /\ Decodable(words) /\ dec.missing = 0 => Done(dec, p) < Done(to, q)
<1>. DEFINE inc == dec.incomplete
            a == Done(dec, p)
            q == p + Len(words)
            n == IF dec.missing < Len(words) THEN dec.missing ELSE Len(words)
            group == inc \o SubSeq(words, 1, n)
            first == IF n = dec.missing THEN group ELSE <<>>
            g == DecodeBuffer(dec, first, <<>>)
            rest == SubSeq(words, n + 1, Len(words))
            r == DecodeBuffer(g.dec, rest, g.events)
            to == DecodeWords(dec, words).dec
<1>1. /\ inc \in Seq(Range(tape)) /\ Len(inc) \in Nat /\ dec.missing \in Nat
      /\ words \in Seq(Range(tape)) /\ Len(words) \in Nat
      /\ tape \in Seq(Range(tape)) /\ Len(tape) \in Nat /\ dec \in Decoder
  <2>1. inc \in Seq(Range(tape)) /\ dec.missing \in Nat /\ dec \in Decoder
    BY DEF Sound, Decoder
  <2>. QED BY <2>1, LenProperties DEF Ahead, Tape, TapeTypes
<1>2. a = p - Len(inc) /\ a \in Nat /\ a + Len(inc) = p
  <2>1. a = p - Len(inc) /\ a >= Begin - 1
    BY DEF Done, Sound
  <2>. QED BY <1>1, <2>1
<1>3. /\ Ahead(inc, a) /\ dec.missing = (IF inc = <<>> THEN 0 ELSE Size(inc[1]) - Len(inc))
      /\ inc # <<>> => dec.missing > 0
  BY DEF Keeps
<1>4. n \in 0..Len(words) /\ n <= dec.missing
  BY <1>1
<1>0. Sound(dec, a, col) /\ p \in Nat
  BY <1>1
<1>. HIDE DEF a, n
<1>5. /\ Ahead(SubSeq(words, 1, n), p) /\ Len(SubSeq(words, 1, n)) = n
      /\ Ahead(rest, p + n) /\ Len(rest) = Len(words) - n
  BY <1>4, FrontAhead, RestAhead
<1>6. Ahead(group, a) /\ Len(group) = Len(inc) + n /\ (inc # <<>> => group[1] = inc[1])
  BY <1>2, <1>3, <1>5, BothAhead
<1>7. CASE n < dec.missing
  <2>1. n = Len(words) /\ inc # <<>>
    BY <1>1, <1>3, <1>7 DEF n
  <2>. DEFINE m == dec.missing - n
              x == [dec EXCEPT !.incomplete = group, !.missing = m]
  <2>2. to = x
    <3>1. to = [dec EXCEPT !.incomplete = group, !.missing = @ - n]
      BY <1>7 DEF DecodeWords, n
    <3>. HIDE DEF to, group
    <3>. QED BY <1>1, <3>1 DEF Decoder
  <2>3. group \in Seq(Range(tape)) /\ m \in Nat /\ m > 0
    BY <1>1, <1>4, <1>6, <1>7 DEF Ahead
  <2>. HIDE DEF group, m, to
  <2>4. Sound(to, a, col) /\ to.incomplete = group /\ to.missing = m
    <3>1. Sound(x, a, col) /\ x.incomplete = group /\ x.missing = m
      <4>1. SameButKept(x, dec) /\ x.incomplete = group /\ x.missing = m
        BY <1>1, <2>3 DEF SameButKept, Decoder
      <4>. HIDE DEF x
      <4>. QED BY <1>0, <4>1, SoundKeeping
    <3>. HIDE DEF x
    <3>. QED BY <2>2, <3>1
  <2>5. Done(to, q) = a
    <3>1. Done(to, q) = q - Len(group)
      BY <2>4 DEF Done
    <3>2. Len(group) = Len(inc) + Len(words) /\ Len(inc) \in Nat /\ Len(words) \in Nat
      BY <1>1, <1>6, <2>1
    <3>. HIDE DEF inc
    <3>. QED BY <1>0, <1>2, <3>1, <3>2
  <2>6. group # <<>> /\ to.missing = Size(group[1]) - Len(group)
    <3>1. Len(group) # 0
      BY <1>1, <1>6, <2>1, EmptySeq
    <3>2. group # <<>>
      BY <3>1
    <3>. DEFINE z == Size(inc[1])
    <3>3. dec.missing = z - Len(inc) /\ group[1] = inc[1]
      BY <1>3, <1>6, <2>1
    <3>4. z \in Nat
      BY DEF Size
    <3>. HIDE DEF z
    <3>5. m = z - Len(group)
      BY <1>1, <1>4, <1>6, <3>3, <3>4 DEF m
    <3>. QED BY <2>4, <3>2, <3>3, <3>5 DEF z
  <2>7. Keeps(to, q)
    BY <1>6, <2>3, <2>4, <2>5, <2>6 DEF Keeps
  <2>8. a <= Done(to, q) /\ dec.missing # 0
    BY <1>2, <1>4, <1>7, <2>5
  <2>. QED BY <2>4, <2>5, <2>7, <2>8 DEF to, a
<1>8. CASE ~(n < dec.missing)
  <2>1. n = dec.missing /\ first = group
    <3>1. n = dec.missing
      BY <1>1, <1>4, <1>8
    <3>. HIDE DEF group
    <3>. QED BY <3>1
  <2>2. to = [r.dec EXCEPT !.incomplete = r.rest, !.missing = r.missing]
    BY <1>8 DEF DecodeWords, n
  <2>. HIDE DEF group, first, rest, to, g
  <2>3. PICK u : Decoded(dec, g, group, a, u, col)
    <3>1. Sound(dec, a, col)
      BY DEF a
    <3>. QED BY <1>2, <1>6, <2>1, <3>1, DecodesBuffer DEF g
  <2>4. u = Len(group)
    <3>1. CASE inc = <<>>
      <4>1. Len(group) = 0
        BY <1>1, <1>3, <1>6, <2>1, <3>1
      <4>. QED BY <2>3, <4>1 DEF Decoded
    <3>2. CASE inc # <<>>
      <4>1. Len(inc) >= 1
        BY <1>1, <3>2, EmptySeq
      <4>2. Len(group) > 1 /\ Len(group) = Size(group[1])
        <5>. DEFINE z == Size(inc[1])
        <5>1. dec.missing = z - Len(inc) /\ group[1] = inc[1] /\ z \in Nat /\ dec.missing > 0
          BY <1>3, <1>6, <3>2 DEF Size
        <5>. HIDE DEF z
        <5>2. Len(group) = z /\ Len(group) > 1
          BY <1>1, <1>6, <2>1, <4>1, <5>1
        <5>. QED BY <5>1, <5>2 DEF z
      <4>3. group # <<>> /\ Aligned(a)
        BY <4>2, EmptySeq, <1>1, <1>6 DEF Sound, a
      <4>. QED BY <1>2, <1>6, <2>3, <4>2, <4>3, GroupCompleted
    <3>. QED BY <3>1, <3>2
  <2>5. a + Len(group) = p + n /\ p + n \in Nat
    <3>1. Len(group) = Len(inc) + n /\ Len(inc) \in Nat /\ n \in Nat
      BY <1>1, <1>4, <1>6
    <3>. HIDE DEF inc
    <3>. QED BY <1>0, <1>2, <3>1
  <2>6. Sound(g.dec, p + n, col)
    BY <2>3, <2>4, <2>5 DEF Decoded
  <2>. HIDE DEF r
  <2>7. PICK v : Decoded(g.dec, r, rest, p + n, v, col)
    BY <1>5, <2>5, <2>6, DecodesBuffer DEF r
  <2>. DEFINE left == SubSeq(rest, v + 1, Len(rest))
              k == p + n + v
  <2>8. /\ v \in 0..Len(rest) /\ Sound(r.dec, k, col) /\ r.rest = left /\ ~Decodable(left)
        /\ r.missing = IF left = <<>> THEN 0 ELSE Size(left[1]) - Len(left)
    BY <2>7 DEF Decoded
  <2>9. Ahead(left, k) /\ Len(left) = Len(rest) - v /\ k \in Nat
    <3>1. Ahead(rest, p + n) /\ Len(rest) \in Nat
      BY <1>1, <1>4, <1>5 DEF rest
    <3>2. Ahead(left, p + n + v) /\ Len(left) = Len(rest) - v
      BY <2>5, <2>8, <3>1, RestAhead
    <3>3. p + n + v \in Nat
      BY <2>5, <2>8, <3>1
    <3>. QED BY <3>2, <3>3
  <2>. HIDE DEF left, k
  <2>10. left \in Seq(Range(tape)) /\ Len(left) \in Nat
    BY <2>9, LenProperties DEF Ahead
  <2>11. r.missing \in Nat /\ (left # <<>> => r.missing > 0)
    <3>1. CASE left = <<>>
      BY <2>8, <3>1
    <3>2. CASE left # <<>>
      <4>. DEFINE z == Size(left[1])
      <4>1. z \in Nat /\ r.missing = z - Len(left)
        BY <2>8, <3>2 DEF Size
      <4>2. ~(z <= Len(left))
        BY <2>8, <3>2 DEF Decodable
      <4>. HIDE DEF z
      <4>. QED BY <2>10, <4>1, <4>2
    <3>. QED BY <3>1, <3>2
  <2>12. Sound(to, k, col) /\ to.incomplete = left /\ to.missing = r.missing
    <3>. DEFINE x == [r.dec EXCEPT !.incomplete = left, !.missing = r.missing]
    <3>1. to = x
      BY <2>2, <2>8
    <3>2. Sound(x, k, col) /\ x.incomplete = left /\ x.missing = r.missing
      <4>1. r.dec \in Decoder
        BY <2>8 DEF Sound
      <4>2. SameButKept(x, r.dec) /\ x.incomplete = left /\ x.missing = r.missing
        BY <4>1, <2>10, <2>11 DEF SameButKept, Decoder
      <4>. HIDE DEF x
      <4>. QED BY <2>8, <4>2, SoundKeeping
    <3>. HIDE DEF x
    <3>. QED BY <3>1, <3>2
  <2>13. Done(to, q) = k
    <3>1. Done(to, q) = q - Len(left)
      BY <2>12 DEF Done
    <3>2. Len(left) = Len(words) - n - v /\ Len(words) \in Nat /\ n \in Nat /\ v \in Nat
      BY <1>1, <1>4, <1>5, <2>8, <2>9 DEF rest
    <3>. QED BY <1>0, <3>1, <3>2 DEF k
  <2>14. Keeps(to, q)
    BY <2>8, <2>9, <2>11, <2>12, <2>13 DEF Keeps
  <2>15. a <= k
    <3>1. n \in Nat /\ v \in Nat /\ Len(inc) \in Nat
      BY <1>1, <1>4, <1>5, <2>8 DEF rest
    <3>. HIDE DEF inc
    <3>. QED BY <1>0, <1>2, <3>1 DEF k
  <2>16. Decodable(words) /\ dec.missing = 0 => a < k
    <3>1. SUFFICES ASSUME Decodable(words), dec.missing = 0 PROVE a < k
      OBVIOUS
    <3>2. n = 0 /\ a = p
      BY <1>1, <1>2, <1>3, <2>1, <3>1
    <3>3. rest = words
      BY <1>1, <3>2, SubSeqProperties DEF rest
    <3>4. v # 0
      <4>1. SUFFICES ASSUME v = 0 PROVE FALSE
        OBVIOUS
      <4>2. left = words
        BY <1>1, <3>3, <4>1 DEF left
      <4>. QED BY <2>8, <3>1, <4>2
    <3>. QED BY <1>0, <1>1, <1>5, <2>8, <3>2, <3>4 DEF k, rest
  <2>. QED BY <2>12, <2>13, <2>14, <2>15, <2>16 DEF to, a
<1>. QED BY <1>7, <1>8

\* Nothing is decoded of an empty buffer.
LEMMA EmptyBuffer ==
    ASSUME NEW dec, NEW events
    PROVE  LET g == DecodeBuffer(dec, <<>>, events)
           IN g.dec = dec /\ g.rest = <<>> /\ g.missing = 0
<1>. DEFINE G == {<<dec, 0>>}
            none == <<>>
            g == DecodeBuffer(dec, none, events)
<1>1. none \in Seq({}) /\ Len(none) = 0
  OBVIOUS
<1>2. \A x : ~Decodable(SubSeq(none, x.used + 1, Len(none))) \/ x.used # 0
  BY DEF Decodable
<1>3. ASSUME NEW x, <<x.dec, x.used>> \in G
      PROVE  /\ x.used \in 0..Len(none)
             /\ Decodable(SubSeq(none, x.used + 1, Len(none))) =>
                   LET y == DecodeNext(x, none) IN <<y.dec, y.used>> \in G /\ y.used > x.used
  BY <1>2, <1>3
<1>4. <<dec, 0>> \in G
  OBVIOUS
<1>. HIDE DEF G, none
<1>30. Iterates(none, G)
  BY <1>3 DEF Iterates
<1>5. PICK end : Ended(none, dec, events, G, end)
  BY <1>1, <1>4, <1>30, BufferDecoded
<1>6. end.dec = dec /\ end.used = 0
  BY <1>5 DEF G, Ended
<1>7. SubSeq(none, end.used + 1, Len(none)) = <<>>
  BY <1>6 DEF none
<1>8. g = [dec |-> dec, events |-> end.events, rest |-> <<>>, missing |-> 0]
  BY <1>5, <1>6, <1>7 DEF Ended
<1>. QED BY <1>8 DEF none

\* Without a base nothing is decoded.
LEMMA WaitsForBase ==
    ASSUME NEW dec \in Decoder, dec.incomplete = <<>>, dec.missing = 0
    PROVE  DecodeWords(dec, <<>>).dec = dec
<1>. DEFINE none == <<>>
            n == IF dec.missing < Len(none) THEN dec.missing ELSE Len(none)
            group == dec.incomplete \o SubSeq(none, 1, n)
            g == DecodeBuffer(dec, IF n = dec.missing THEN group ELSE <<>>, <<>>)
            rest == SubSeq(none, n + 1, Len(none))
            r == DecodeBuffer(g.dec, rest, g.events)
            to == [r.dec EXCEPT !.incomplete = r.rest, !.missing = r.missing]
<1>1. n = 0 /\ group = <<>> /\ rest = <<>>
  OBVIOUS
<1>2. g = DecodeBuffer(dec, <<>>, <<>>)
  BY <1>1
<1>3. g.dec = dec
  <2>. HIDE DEF g
  <2>. QED BY <1>2, EmptyBuffer
<1>4. r = DecodeBuffer(dec, <<>>, g.events)
  BY <1>1, <1>3
<1>5. r.dec = dec /\ r.rest = <<>> /\ r.missing = 0
  <2>. HIDE DEF r, g
  <2>. QED BY <1>4, EmptyBuffer
<1>6. to = dec
  <2>. HIDE DEF r
  <2>1. to = [dec EXCEPT !.incomplete = dec.incomplete, !.missing = dec.missing]
    BY <1>5
  <2>. QED BY <2>1 DEF Decoder
<1>7. DecodeWords(dec, none).dec = to
  <2>1. ~(n < dec.missing)
    BY <1>1
  <2>. QED BY <2>1 DEF DecodeWords
<1>. QED BY <1>6, <1>7

LEMMA DoneIs ==
    ASSUME NEW dec \in Decoder, NEW p \in Nat
    PROVE  Done(dec, p) \in Int /\ Len(dec.incomplete) \in Nat /\ Done(dec, p) = p - Len(dec.incomplete)
<1>1. dec.incomplete \in Seq(Range(tape))
  BY DEF Decoder
<1>2. Len(dec.incomplete) \in Nat
  BY <1>1, LenProperties
<1>. QED BY <1>2 DEF Done

LEMMA DecodesImpl ==
    ASSUME NEW col, Tape(col), from \in Nat, NEW dec, NEW p \in Nat, Fed(dec, p, col),
           NEW words, Ahead(words, p)
    PROVE  Fed(DecodeImpl(dec, words).dec, p + Len(words), col)
<1>. DEFINE b == FindBase(dec, words)
            to == DecodeImpl(dec, words).dec
            q == p + Len(words)
<1>1. /\ words \in Seq(Range(tape)) /\ Len(words) \in Nat /\ Len(tape) \in Nat
      /\ dec \in Decoder /\ p \in 0..Len(tape) /\ q \in 0..Len(tape)
  <2>1. words \in Seq(Range(tape)) /\ Len(words) \in Nat /\ Len(tape) \in Nat
    BY LenProperties DEF Ahead, Tape, TapeTypes
  <2>2. dec \in Decoder /\ p \in 0..Len(tape) /\ p + Len(words) <= Len(tape)
    BY DEF Fed, Ahead
  <2>. QED BY <2>1, <2>2
<1>2. to = DecodeWords(b.dec, b.rest).dec
  BY DEF DecodeImpl
<1>3. /\ FirstHigh \in 0..Len(tape)
      /\ FirstHigh > 0 => /\ tape[FirstHigh].type = "time_high"
                          /\ \A j \in 1..(FirstHigh - 1) : tape[j].type # "time_high"
      /\ FirstHigh = 0 => \A j \in 1..Len(tape) : tape[j].type # "time_high"
  BY FirstHighIs DEF Tape
<1>. HIDE DEF to
\* Where the base is known, from the words that follow those kept.
<1>4. ASSUME NEW x, NEW rest, NEW o \in 0..Len(tape), b.dec = x, b.rest = rest,
             FirstHigh > 0, Sound(x, Done(x, o), col), Keeps(x, o), Ahead(rest, o), o + Len(rest) = q,
             from = 0 => \/ Begin <= Done(x, o)
                         \/ Begin = Done(x, o) + 1 /\ Decodable(rest) /\ x.missing = 0
      PROVE  Fed(to, q, col)
  <2>1. Begin \in Nat \ {0}
    BY <1>1, <1>3, <1>4, BeginIs
  <2>2. to = DecodeWords(x, rest).dec
    BY <1>2, <1>4
  <2>3. /\ Sound(to, Done(to, q), col) /\ Keeps(to, q)
        /\ Done(x, o) <= Done(to, q)
        /\ Decodable(rest) /\ x.missing = 0 => Done(x, o) < Done(to, q)
    BY <1>4, <2>1, <2>2, DecodesWords
  <2>4. x \in Decoder /\ to \in Decoder /\ to.base
    BY <1>4, <2>3 DEF Sound
  <2>5. Done(x, o) \in Int /\ Done(to, q) \in Int
    BY <1>1, <1>4, <2>4, DoneIs
  <2>6. from = 0 => Begin <= Done(to, q)
    BY <1>4, <2>1, <2>3, <2>5
  <2>. QED BY <1>1, <2>3, <2>4, <2>6 DEF Fed
<1>5. CASE dec.base
  <2>1. b = [dec |-> dec, rest |-> words]
    BY <1>5 DEF FindBase
  <2>2. b.dec = dec /\ b.rest = words
    BY <2>1
  <2>3. /\ Sound(dec, Done(dec, p), col) /\ Keeps(dec, p) /\ FirstHigh > 0
        /\ from = 0 => Begin <= Done(dec, p)
    BY <1>5 DEF Fed, Sound
  <2>. HIDE DEF b
  <2>. QED BY <1>1, <1>4, <2>2, <2>3 DEF to
<1>6. CASE ~dec.base
  <2>. DEFINE i == SelectInSeq(words, LAMBDA w : w.type = "time_high")
              t == IF words[i].v > 0 THEN words[i].v - 1 ELSE 0
              x == [dec EXCEPT !.clock.high = t, !.base = TRUE,
                               !.shift = IF @ = None THEN t * LowN ELSE @]
  <2>1. /\ i \in 0..Len(words)
        /\ i > 0 => /\ words[i].type = "time_high"
                    /\ \A j \in 1..(i - 1) : words[j].type # "time_high"
        /\ i = 0 => \A j \in 1..Len(words) : words[j].type # "time_high"
    BY <1>1, FirstOf
  <2>2. /\ from = 0 /\ (FirstHigh = 0 \/ p < FirstHigh)
        /\ dec.clock = [loop |-> 0, high |-> 0, low |-> 0]
        /\ ~dec.set /\ dec.row = None /\ ~dec.alarm
        /\ dec.incomplete = <<>> /\ dec.missing = 0
    BY <1>6 DEF Fed
  <2>3. b = IF i = 0 THEN [dec |-> dec, rest |-> <<>>]
            ELSE [dec |-> x, rest |-> SubSeq(words, i, Len(words))]
    BY <1>6 DEF FindBase
  <2>. HIDE DEF i, b
  <2>4. CASE i = 0
    <3>1. b.dec = dec /\ b.rest = <<>>
      BY <2>3, <2>4
    <3>2. to = dec
      BY <1>1, <1>2, <2>2, <3>1, WaitsForBase
    <3>3. FirstHigh = 0 \/ q < FirstHigh
      <4>1. SUFFICES ASSUME FirstHigh > p, FirstHigh <= q PROVE FALSE
        BY <1>1, <1>3, <2>2
      <4>. DEFINE j == FirstHigh - p
      <4>2. j \in 1..Len(words) /\ p + j = FirstHigh
        BY <1>1, <1>3, <4>1
      <4>. HIDE DEF j
      <4>3. words[j] = tape[p + j]
        BY <4>2 DEF Ahead
      <4>. QED BY <1>3, <2>1, <2>4, <4>1, <4>2, <4>3
    <3>. QED BY <1>1, <1>6, <2>2, <3>2, <3>3 DEF Fed, to
  <2>5. CASE i # 0
    <3>. DEFINE rest == SubSeq(words, i, Len(words))
                o == p + i - 1
    <3>1. b.dec = x /\ b.rest = rest
      BY <2>3, <2>5
    <3>2. i \in 1..Len(words) /\ o \in 0..Len(tape) /\ o \in Nat
      BY <1>1, <2>1, <2>5
    <3>3. FirstHigh = p + i
      <4>1. words[i] = tape[p + i] /\ p + i \in 1..Len(tape)
        BY <1>1, <3>2 DEF Ahead
      <4>2. FirstHigh > 0 /\ FirstHigh <= p + i /\ FirstHigh > p
        BY <1>1, <1>3, <2>1, <2>2, <3>2, <4>1
      <4>3. ~(FirstHigh < p + i)
        <5>1. SUFFICES ASSUME FirstHigh < p + i PROVE FALSE
          OBVIOUS
        <5>. DEFINE j == FirstHigh - p
        <5>2. j \in 1..(i - 1) /\ j \in 1..Len(words) /\ p + j = FirstHigh
          BY <1>1, <1>3, <3>2, <4>2, <5>1
        <5>. HIDE DEF j
        <5>3. words[j] = tape[p + j]
          BY <5>2 DEF Ahead
        <5>4. words[j].type # "time_high"
          BY <2>1, <3>2, <5>2
        <5>5. tape[p + j].type = "time_high"
          BY <1>3, <4>2, <5>2
        <5>. QED BY <5>3, <5>4, <5>5
      <4>. QED BY <1>1, <1>3, <3>2, <4>2, <4>3
    <3>4. Begin = o + 1 /\ Begin = FirstHigh
      BY <1>1, <1>3, <2>2, <3>2, <3>3 DEF Begin
    <3>5. Ahead(rest, o) /\ Len(rest) = Len(words) - (i - 1) /\ o + Len(rest) = q
      <4>. DEFINE u == i - 1
      <4>1. u \in 0..Len(words) /\ u + 1 = i /\ p + u = o
        BY <1>1, <3>2
      <4>. HIDE DEF u
      <4>2. /\ Ahead(SubSeq(words, u + 1, Len(words)), p + u)
            /\ Len(SubSeq(words, u + 1, Len(words))) = Len(words) - u
        BY <4>1, RestAhead
      <4>3. Ahead(rest, o) /\ Len(rest) = Len(words) - u
        BY <4>1, <4>2
      <4>. HIDE DEF rest
      <4>. QED BY <1>1, <3>2, <4>1, <4>3 DEF u
    <3>. HIDE DEF rest
    <3>6. rest[1].type = "time_high" /\ Decodable(rest)
      <4>1. Len(rest) >= 1 /\ Len(rest) \in Nat /\ rest # <<>>
        BY <1>1, <3>2, <3>5
      <4>2. rest[1] = tape[o + 1]
        BY <3>5, <4>1 DEF Ahead
      <4>3. rest[1].type = "time_high"
        BY <1>1, <1>3, <3>2, <3>3, <3>4, <4>2
      <4>. QED BY <4>1, <4>3 DEF Decodable, Size
    <3>7. words[i].v = HighOf(Begin) % HighN /\ words[i].v \in 0..(HighN - 1)
      <4>1. words[i] = tape[p + i] /\ FirstHigh \in 1..Len(tape) /\ p + i \in 1..Len(tape)
        BY <1>1, <1>3, <3>2, <3>3 DEF Ahead
      <4>2. tape[FirstHigh].v = HighOf(FirstHigh) % HighN /\ HighOf(FirstHigh) % HighN \in 0..(HighN - 1)
        BY <1>3, <4>1, WordTimes DEF Tape, TapeTypes
      <4>. QED BY <3>3, <3>4, <4>1, <4>2
    <3>8. t \in 0..(HighN - 1) /\ (words[i].v > 0 => t + 1 = words[i].v)
          /\ (~(words[i].v > 0) => t = 0 /\ words[i].v = 0)
      BY <3>7, Ranges
    <3>. HIDE DEF t
    <3>9. /\ x \in Decoder /\ x.base /\ ~x.alarm /\ x.row = None
          /\ x.incomplete = <<>> /\ x.missing = 0
          /\ x.clock = [loop |-> 0, high |-> t, low |-> 0]
      <4>1. t * LowN \in Nat
        BY <3>8, Ranges, Product
      <4>2. [loop |-> 0, high |-> t, low |-> 0] \in Clock
        BY <3>8, Ranges DEF Clock
      <4>3. x.clock = [loop |-> 0, high |-> t, low |-> 0]
        BY <1>1, <2>2 DEF Decoder
      <4>4. x.shift \in {None} \cup Nat
        BY <1>1, <4>1 DEF Decoder
      <4>. QED BY <1>1, <2>2, <4>2, <4>3, <4>4 DEF Decoder
    <3>. HIDE DEF x
    <3>10. Poised(x.clock)
      <4>1. x.clock.loop = 0 /\ x.clock.high = t /\ x.clock.low = 0 /\ Highs(x.clock) = t
        <5>1. 0 * HighN = 0 /\ t \in Int
          BY <3>8, Ranges
        <5>. QED BY <3>9, <5>1 DEF Highs
      <4>2. tape[Begin].type = "time_high" /\ Begin \in 1..Len(tape)
        BY <1>1, <1>3, <3>2, <3>3, <3>4
      <4>3. LowOf(Begin) \in 0..(LowN - 1) /\ HighOf(Begin) \in Nat
        BY <4>2, WordTimes DEF Tape
      <4>4. HighOf(Begin) = Loops * HighN + words[i].v
        <5>1. Loops = HighOf(Begin) \div HighN
          BY <3>4, <4>2, PeriodSplits DEF Loops, HighOf, Tape, TapeTypes
        <5>. DEFINE h == HighOf(Begin)
        <5>2. h = (h \div HighN) * HighN + (h % HighN)
          BY <4>3, Division, Ranges
        <5>. HIDE DEF h
        <5>3. h = Loops * HighN + (h % HighN)
          BY <5>1, <5>2 DEF h
        <5>. QED BY <3>7, <5>3 DEF h
      <4>5. Loops * HighN \in Nat
        BY <1>1, <1>3, <3>2, <3>3, LoopsType, Ranges, Product DEF Tape
      <4>6. CASE words[i].v > 0
        <5>1. Highs(x.clock) + 1 + Loops * HighN = HighOf(Begin)
          <6>. DEFINE m == Loops * HighN
          <6>1. m \in Nat /\ HighOf(Begin) = m + words[i].v /\ Highs(x.clock) = t
            BY <4>1, <4>4, <4>5
          <6>. HIDE DEF m
          <6>2. Highs(x.clock) + 1 + m = HighOf(Begin)
            BY <3>7, <3>8, <4>6, <6>1
          <6>. QED BY <6>2 DEF m
        <5>2. 0 <= LowOf(Begin)
          BY <4>3, Ranges
        <5>. QED BY <3>7, <3>8, <4>1, <4>2, <4>6, <5>1, <5>2 DEF Poised
      <4>7. CASE ~(words[i].v > 0)
        <5>1. Highs(x.clock) + Loops * HighN = HighOf(Begin)
          <6>. DEFINE m == Loops * HighN
          <6>1. m \in Nat /\ HighOf(Begin) = m + words[i].v /\ Highs(x.clock) = 0 /\ words[i].v = 0
            BY <3>8, <4>1, <4>4, <4>5, <4>7
          <6>. HIDE DEF m
          <6>2. Highs(x.clock) + m = HighOf(Begin)
            BY <6>1
          <6>. QED BY <6>2 DEF m
        <5>2. 0 <= LowOf(Begin)
          BY <4>3, Ranges
        <5>. QED BY <3>7, <3>8, <4>1, <4>2, <4>7, <5>1, <5>2 DEF Poised
      <4>. QED BY <4>6, <4>7
    <3>11. Done(x, o) = o
      BY <3>2, <3>9 DEF Done
    <3>12. Sound(x, o, col)
      <4>1. Aligned(o)
        BY <1>1, <1>3, <3>2, <3>3, <3>4 DEF Aligned
      <4>2. ~IsValid(x)
        <5>1. None \notin 0..(Height - 1)
          BY DecoderAssumption DEF None
        <5>. QED BY <3>9, <5>1 DEF IsValid
      <4>3. FirstHigh > 0 /\ Begin - 1 <= o /\ o < Begin /\ o <= Len(tape)
        BY <1>1, <3>2, <3>3, <3>4
      <4>. QED BY <3>9, <3>10, <4>1, <4>2, <4>3 DEF Sound
    <3>13. Keeps(x, o)
      <4>1. Ahead(<<>>, o)
        BY <1>1, <3>2 DEF Ahead
      <4>. QED BY <3>9, <3>11, <4>1 DEF Keeps
    <3>. HIDE DEF o
    <3>14. FirstHigh > 0
      BY <3>3, <3>2
    <3>. QED BY <1>4, <3>1, <3>2, <3>4, <3>5, <3>6, <3>9, <3>11, <3>12, <3>13, <3>14 DEF to
  <2>. QED BY <2>4, <2>5
<1>. QED BY <1>5, <1>6

-----------------------------------------------------------------------------
(* The actions: first those that leave the recording as it is.             *)

LEMMA FirstHighStays ==
    ASSUME tape' = tape
    PROVE  FirstHigh' = FirstHigh
  BY DEF FirstHigh, SelectInSeq

LEMMA TapeStays ==
    ASSUME tape' = tape, sensor' = sensor, NEW col, Tape(col)
    PROVE  Tape(col)'
<1>1. TapeTypes'
  BY DEF Tape, TapeTypes, HighOf, LowOf
<1>2. TapeTimes'
  BY DEF Tape, TapeTimes, HighOf
<1>3. TapeGroups'
  BY DEF Tape, TapeGroups
<1>4. TapeColumns(col)'
  BY DEF Tape, TapeColumns, ColumnAfter
<1>. QED BY <1>1, <1>2, <1>3, <1>4 DEF Tape

LEMMA FedStays ==
    ASSUME tape' = tape, from' = from, NEW col, Fed(d', pos', col)
    PROVE  Fed(d, pos, col)'
<1>1. FirstHigh' = FirstHigh
  BY FirstHighStays
<1>2. Begin' = Begin
  BY <1>1 DEF Begin
<1>3. Done(d, pos)' = Done(d', pos')
  BY DEF Done
<1>4. d' \in Decoder => (d \in Decoder)'
  BY DEF Decoder
<1>5. Sound(d', Done(d', pos'), col) => Sound(d, Done(d, pos), col)'
  BY <1>1, <1>2, <1>3, <1>4
     DEF Sound, Aligned, Poised, Tracks, Gap, HighOf, LowOf, Loops, Highs, Exact, IsValid
<1>6. Keeps(d', pos') => Keeps(d, pos)'
  BY <1>3 DEF Keeps, Ahead, Size
<1>. QED BY <1>1, <1>2, <1>3, <1>4, <1>5, <1>6 DEF Fed

LEMMA DecodeKeepsInv ==
    ASSUME DecoderInv, NEW size \in Buffers, Decode(size)
    PROVE  DecoderInv'
<1>. DEFINE left == 2 * (Len(tape) - pos)
            bytes == size + (IF half THEN 1 ELSE 0)
            all == IF bytes < left THEN bytes ELSE left
            c == all \div 2
            words == SubSeq(tape, pos + 1, pos + c)
            one == DecodeImpl(d, IF half THEN SubSeq(words, 1, 1) ELSE <<>>)
            two == DecodeImpl(one.dec, IF half THEN Tail(words) ELSE words)
<1>1. PICK col \in [0..Len(tape) -> {None} \cup Nat] :
          /\ Tape(col) /\ Fed(d, pos, col)
          /\ shifting \in BOOLEAN /\ half \in BOOLEAN /\ (half => pos < Len(tape))
          /\ from \in 0..Len(tape)
          /\ from > 0 => d.base /\ 0 < FirstHigh /\ FirstHigh < from
  BY DEF DecoderInv
<1>2. /\ left > 0 /\ d' = two.dec /\ pos' = pos + Len(words) /\ half' = (all % 2 = 1)
      /\ sensor' = sensor /\ tape' = tape /\ shifting' = shifting /\ from' = from
  BY DEF Decode
<1>3. /\ tape \in Seq(Range(tape)) /\ Len(tape) \in Nat /\ pos \in 0..Len(tape)
      /\ size \in Nat \ {0} /\ from \in Nat
  BY <1>1, LenProperties, DecoderAssumption DEF Tape, TapeTypes, Fed
<1>4. /\ all \in Nat /\ all <= left /\ left \in Nat /\ (half => all >= 2)
  BY <1>1, <1>2, <1>3
<1>. HIDE DEF all
<1>5. c \in 0..(Len(tape) - pos) /\ (all % 2 = 1 => c < Len(tape) - pos) /\ (half => c >= 1)
  BY <1>3, <1>4
<1>. HIDE DEF c
<1>6. Ahead(words, pos) /\ Len(words) = c
  <2>1. words \in Seq(Range(tape)) /\ Len(words) = c /\ \A i \in 1..c : words[i] = tape[pos + i]
    <3>. DEFINE a == pos + 1
                b == pos + c
    <3>1. /\ a \in 1..(Len(tape) + 1) /\ b \in (a - 1)..Len(tape) /\ b - a + 1 = c
          /\ \A i \in 1..c : a + i - 1 = pos + i
      BY <1>3, <1>5
    <3>. HIDE DEF a, b
    <3>2. /\ SubSeq(tape, a, b) \in Seq(Range(tape)) /\ Len(SubSeq(tape, a, b)) = b - a + 1
          /\ \A i \in 1..(b - a + 1) : SubSeq(tape, a, b)[i] = tape[a + i - 1]
      <4>1. a \in Int /\ b \in Int /\ (a <= b \/ b - a + 1 = 0)
        BY <1>3, <1>5, <3>1
      <4>2. \A i \in a..b : tape[i] \in Range(tape)
        <5>1. \A i \in a..b : i \in 1..Len(tape)
          BY <1>3, <3>1
        <5>. QED BY <1>3, <5>1, ElementOfSeq
      <4>. QED BY <4>1, <4>2, SubSeqProperties
    <3>3. words = SubSeq(tape, a, b)
      BY DEF a, b
    <3>. HIDE DEF words
    <3>. QED BY <3>1, <3>2, <3>3
  <2>. HIDE DEF words
  <2>. QED BY <1>3, <1>5, <2>1 DEF Ahead
<1>. HIDE DEF words, one, two
<1>14. Tape(col) /\ Fed(d, pos, col) /\ pos \in Nat /\ from \in Nat /\ c \in Nat
  BY <1>1, <1>3, <1>5
<1>7. Fed(two.dec, pos + c, col)
  <2>1. CASE half
    <3>1. Ahead(SubSeq(words, 1, 1), pos) /\ Len(SubSeq(words, 1, 1)) = 1
      BY <1>3, <1>5, <1>6, <2>1, FrontAhead
    <3>2. one = DecodeImpl(d, SubSeq(words, 1, 1))
      BY <2>1 DEF one
    <3>3. Fed(one.dec, pos + 1, col)
      <4>1. Fed(DecodeImpl(d, SubSeq(words, 1, 1)).dec, pos + Len(SubSeq(words, 1, 1)), col)
        BY <1>14, <3>1, DecodesImpl
      <4>. QED BY <3>1, <3>2, <4>1
    <3>4. Ahead(Tail(words), pos + 1) /\ Len(Tail(words)) = c - 1
      <4>1. words \in Seq(Range(tape)) /\ words # <<>>
        BY <1>5, <1>6, <2>1 DEF Ahead
      <4>2. /\ Tail(words) \in Seq(Range(tape)) /\ Len(Tail(words)) = c - 1
            /\ \A i \in 1..(c - 1) : Tail(words)[i] = words[i + 1]
        BY <1>6, <4>1, HeadTailProperties
      <4>3. ASSUME NEW i \in 1..(c - 1) PROVE Tail(words)[i] = tape[(pos + 1) + i]
        <5>1. i + 1 \in 1..c /\ pos + (i + 1) = (pos + 1) + i
          BY <1>3, <1>5
        <5>2. words[i + 1] = tape[pos + (i + 1)]
          BY <1>6, <5>1 DEF Ahead
        <5>. QED BY <4>2, <5>1, <5>2
      <4>. QED BY <1>3, <1>5, <2>1, <4>2, <4>3 DEF Ahead
    <3>5. two = DecodeImpl(one.dec, Tail(words))
      BY <2>1 DEF two
    <3>6. Fed(two.dec, (pos + 1) + (c - 1), col)
      <4>1. pos + 1 \in Nat
        BY <1>14
      <4>2. Fed(DecodeImpl(one.dec, Tail(words)).dec, (pos + 1) + Len(Tail(words)), col)
        BY <1>14, <3>3, <3>4, <4>1, DecodesImpl
      <4>. QED BY <3>4, <3>5, <4>2
    <3>7. (pos + 1) + (c - 1) = pos + c
      BY <1>14
    <3>. QED BY <3>6, <3>7
  <2>2. CASE ~half
    <3>1. Ahead(<<>>, pos) /\ Len(<<>>) = 0
      BY <1>3 DEF Ahead
    <3>2. one = DecodeImpl(d, <<>>)
      BY <2>2 DEF one
    <3>3. Fed(DecodeImpl(d, <<>>).dec, pos + Len(<<>>), col)
      BY <1>14, <3>1, DecodesImpl
    <3>4. two = DecodeImpl(one.dec, words) /\ pos + Len(<<>>) = pos
      BY <1>14, <2>2, <3>1 DEF two
    <3>5. Fed(one.dec, pos, col)
      BY <3>2, <3>3, <3>4
    <3>6. Fed(DecodeImpl(one.dec, words).dec, pos + Len(words), col)
      BY <1>14, <1>6, <3>5, DecodesImpl
    <3>. QED BY <1>6, <3>4, <3>6
  <2>. QED BY <1>1, <2>1, <2>2
<1>8. Fed(d', pos', col)
  BY <1>2, <1>6, <1>7
<1>9. Tape(col)' /\ Fed(d, pos, col)'
  BY <1>1, <1>2, <1>8, TapeStays, FedStays
<1>10. half' \in BOOLEAN /\ (half' => pos' < Len(tape'))
  BY <1>2, <1>3, <1>5, <1>6
<1>11. FirstHigh' = FirstHigh
  BY <1>2, FirstHighStays
<1>12. from > 0 => two.dec.base
  BY <1>3, <1>7 DEF Fed
<1>. QED BY <1>1, <1>2, <1>9, <1>10, <1>11, <1>12 DEF DecoderInv

LEMMA ResetShiftKeepsInv ==
    ASSUME DecoderInv, ResetShift
    PROVE  DecoderInv'
<1>1. PICK col \in [0..Len(tape) -> {None} \cup Nat] :
          /\ Tape(col) /\ Fed(d, pos, col)
          /\ shifting \in BOOLEAN /\ half \in BOOLEAN /\ (half => pos < Len(tape))
          /\ from \in 0..Len(tape)
          /\ from > 0 => d.base /\ 0 < FirstHigh /\ FirstHigh < from
  BY DEF DecoderInv
<1>. DEFINE h == tape[FirstHigh].v
            s == (IF h > 0 THEN h - 1 ELSE 0) * LowN
<1>2. /\ FirstHigh # 0 /\ d' = [d EXCEPT !.shift = s]
      /\ sensor' = sensor /\ tape' = tape /\ shifting' = shifting /\ from' = from
      /\ pos' = pos /\ half' = half
  BY DEF ResetShift
<1>3. s \in Nat
  <2>1. FirstHigh \in 1..Len(tape) /\ tape[FirstHigh].type = "time_high"
    BY <1>1, <1>2, FirstHighIs DEF Tape
  <2>2. h \in Nat
    <3>1. h = HighOf(FirstHigh) % HighN
      BY <1>1, <2>1 DEF Tape, TapeTypes
    <3>2. HighOf(FirstHigh) % HighN \in 0..(HighN - 1)
      BY <1>1, <2>1, WordTimes DEF Tape
    <3>. QED BY <3>1, <3>2, Ranges
  <2>. HIDE DEF h
  <2>3. (IF h > 0 THEN h - 1 ELSE 0) \in Nat
    BY <2>2
  <2>. QED BY <2>3, Ranges, Product
<1>. HIDE DEF s
<1>4. d \in Decoder
  BY <1>1 DEF Fed
<1>5. /\ SameButKept(d', d) /\ d'.set = d.set
      /\ d'.incomplete = d.incomplete /\ d'.missing = d.missing
  BY <1>2, <1>3, <1>4 DEF Decoder, SameButKept
<1>6. Fed(d', pos', col)
  <2>1. Done(d', pos') = Done(d, pos)
    BY <1>2, <1>5 DEF Done
  <2>2. Sound(d, Done(d, pos), col) => Sound(d', Done(d', pos'), col)
    BY <1>5, <2>1, SoundKeeping
  <2>3. Keeps(d, pos) => Keeps(d', pos')
    BY <1>2, <1>5, <2>1 DEF Keeps
  <2>. QED BY <1>1, <1>2, <1>5, <2>1, <2>2, <2>3 DEF Fed, SameButKept
<1>7. Tape(col)' /\ Fed(d, pos, col)'
  BY <1>1, <1>2, <1>6, TapeStays, FedStays
<1>8. FirstHigh' = FirstHigh
  BY <1>2, FirstHighStays
<1>. QED BY <1>1, <1>2, <1>5, <1>7, <1>8 DEF DecoderInv, SameButKept


\* The clock that a seek sets.
LEMMA ClockSought ==
    ASSUME TapeTypes, TapeTimes, FirstHigh > 0, NEW i \in 1..Len(tape),
           tape[i].type \in {"time_low", "time_high"}, NEW t \in Nat,
           Loops * Period + t = IF tape[i].type = "time_low" THEN tape[i].clock
                                ELSE tape[i].clock - (tape[i].clock % LowN)
    PROVE  /\ ClockAt(t) \in Clock /\ ClockAt(t).low <= LowOf(i)
           /\ ClockAt(t).high = HighOf(i) % HighN
           /\ t \div (Period - 1) = t \div Period =>
                Highs(ClockAt(t)) + Loops * HighN = HighOf(i)
<1>. DEFINE a == Loops * HighN
            X == Loops * Period + t
            y == t \div LowN
            C == tape[i].clock
<1>1. /\ C \in Nat /\ HighOf(i) \in Nat /\ LowOf(i) \in 0..(LowN - 1)
      /\ Loops \in Nat /\ a \in Nat
  BY WordTimes, LoopsType, Ranges, Product
<1>2. C = HighOf(i) * LowN + LowOf(i) /\ HighOf(i) * LowN \in Nat
  <2>1. C = (C \div LowN) * LowN + (C % LowN)
    BY <1>1, Ranges, Division
  <2>. QED BY <1>1, <2>1, Ranges, Product DEF HighOf, LowOf
<1>. HIDE DEF C
<1>3. X \in Nat /\ X \div LowN = HighOf(i) /\ X % LowN <= LowOf(i)
  <2>1. CASE tape[i].type = "time_low"
    <3>1. X = C
      BY <2>1 DEF C
    <3>2. C \in Nat /\ C \div LowN = HighOf(i) /\ C % LowN = LowOf(i) /\ LowOf(i) \in Int
      BY <1>1 DEF HighOf, LowOf, C
    <3>. HIDE DEF X
    <3>. QED BY <3>1, <3>2
  <2>2. CASE tape[i].type # "time_low"
    <3>1. X = C - LowOf(i)
      BY <2>2 DEF C, LowOf
    <3>. HIDE DEF X
    <3>2. X \in Nat /\ X = HighOf(i) * LowN + 0 /\ 0 \in 0..(LowN - 1)
      <4>. DEFINE p == HighOf(i) * LowN
      <4>1. p \in Nat /\ C = p + LowOf(i) /\ LowOf(i) \in Int
        BY <1>1, <1>2
      <4>2. 0 \in 0..(LowN - 1)
        BY Ranges
      <4>. HIDE DEF p
      <4>3. X = p
        BY <3>1, <4>1
      <4>. QED BY <4>1, <4>2, <4>3 DEF p
    <3>3. X \div LowN = HighOf(i) /\ X % LowN = 0
      <4>. DEFINE h == HighOf(i)
      <4>1. h \in Nat /\ X \in Nat /\ X = h * LowN + 0 /\ 0 \in 0..(LowN - 1) /\ LowN \in Nat \ {0}
        BY <1>1, <3>2, Ranges
      <4>. HIDE DEF h
      <4>2. ASSUME NEW r \in 0..(LowN - 1), X = h * LowN + r
            PROVE  X \div LowN = h /\ X % LowN = r
        <5>1. LowN \in Nat \ {0} /\ h \in Nat /\ X \in Nat /\ X = h * LowN + r
          BY <4>1, <4>2
        <5>. QED BY <5>1, Quotient, Zenon
      <4>. QED BY <4>1, <4>2 DEF h
    <3>. QED BY <1>1, <3>2, <3>3, Ranges
  <2>. QED BY <2>1, <2>2
<1>4. X = a * LowN + t
  <2>1. Loops * Period = Loops * HighN * LowN
    BY <1>1, Ranges, Widths
  <2>. QED BY <2>1
<1>. HIDE DEF a, X
<1>5. y \in Nat /\ X \div LowN = a + y /\ X % LowN = t % LowN
  <2>1. t \div LowN \in Nat
    BY Ranges, Division
  <2>. QED BY <1>1, <1>4, <2>1, ModShift, Ranges
<1>. HIDE DEF y
<1>6. HighOf(i) = a + y /\ HighOf(i) % HighN = y % HighN
  <2>1. (Loops * HighN + y) % HighN = y % HighN
    BY <1>1, <1>5, ModShift, Ranges
  <2>. QED BY <1>3, <1>5, <2>1 DEF a
<1>7. /\ ClockAt(t).loop = t \div (Period - 1) /\ ClockAt(t).high = y % HighN
      /\ ClockAt(t).low = t % LowN
  BY DEF ClockAt, y
<1>8. t \div (Period - 1) \in Nat /\ y % HighN \in 0..(HighN - 1) /\ t % LowN \in 0..(LowN - 1)
  <2>1. Period - 1 \in Nat \ {0}
    BY Ranges, Widths
  <2>. QED BY <1>5, <2>1, Ranges, Division
<1>9. ClockAt(t) \in Clock
  BY <1>7, <1>8 DEF ClockAt, Clock, y
<1>10. ASSUME t \div (Period - 1) = t \div Period
       PROVE  Highs(ClockAt(t)) + Loops * HighN = HighOf(i)
  <2>1. t \div Period = y \div HighN
    BY PeriodSplits DEF y
  <2>2. y = (y \div HighN) * HighN + (y % HighN)
    BY <1>5, Ranges, Division
  <2>3. Highs(ClockAt(t)) = (t \div (Period - 1)) * HighN + (y % HighN)
    BY <1>7 DEF Highs
  <2>4. Highs(ClockAt(t)) = y
    BY <1>10, <2>1, <2>2, <2>3
  <2>. QED BY <1>1, <1>5, <1>6, <2>4 DEF a
<1>. QED BY <1>3, <1>5, <1>6, <1>7, <1>9, <1>10

LEMMA SeekKeepsInv ==
    ASSUME DecoderInv, NEW i \in Bookmarks, Seek(i)
    PROVE  DecoderInv'
<1>1. PICK col \in [0..Len(tape) -> {None} \cup Nat] :
          /\ Tape(col) /\ Fed(d, pos, col)
          /\ shifting \in BOOLEAN /\ half \in BOOLEAN /\ (half => pos < Len(tape))
          /\ from \in 0..Len(tape)
          /\ from > 0 => d.base /\ 0 < FirstHigh /\ FirstHigh < from
  BY DEF DecoderInv
<1>. DEFINE t == TimeAfter(i) + (IF shifting THEN d.shift ELSE 0)
            X == IF tape[i].type = "time_low" THEN tape[i].clock
                 ELSE tape[i].clock - (tape[i].clock % LowN)
<1>2. /\ shifting => d.shift # None
      /\ t \in SeekTimes /\ tape' = tape /\ sensor' = sensor /\ shifting' = shifting
      /\ pos' = i - 1 /\ half' = FALSE /\ from' = i
      /\ d' = [d EXCEPT !.clock = ClockAt(t), !.base = TRUE, !.set = TRUE, !.row = None,
                        !.column = 0, !.incomplete = <<>>, !.missing = 0]
  BY DEF Seek
<1>3. /\ i \in 1..Len(tape) /\ Len(tape) \in Nat /\ 0 # FirstHigh /\ FirstHigh < i
      /\ tape[i].type \in {"time_low", "time_high"} /\ FirstHigh \in 1..Len(tape)
  <2>1. FirstHigh \in 0..Len(tape) /\ Len(tape) \in Nat
    BY <1>1, FirstHighIs DEF Tape
  <2>. QED BY <2>1 DEF Bookmarks
<1>4. d \in Decoder /\ t \in Nat /\ tape[i].clock \in Nat
  BY <1>1, <1>2, <1>3, DecoderAssumption DEF Fed, Tape, TapeTypes
<1>5. Loops * Period + t = X
  <2>1. X \in Int
    <3>. DEFINE C == tape[i].clock
    <3>. HIDE DEF C
    <3>1. C \in Nat
      BY <1>4 DEF C
    <3>2. C % LowN \in Nat
      BY <3>1, Ranges, Division
    <3>. QED BY <3>1, <3>2 DEF C
  <2>. DEFINE m == Loops * Period
              s == IF shifting THEN d.shift ELSE 0
  <2>2. m \in Nat
    BY <1>1, <1>3, LoopsType, Ranges, Widths, Product DEF Tape
  <2>3. s \in Int
    <3>1. d.shift \in {None} \cup Nat
      BY <1>4 DEF Decoder
    <3>. QED BY <1>2, <3>1
  <2>4. t = (X - m - s) + s
    BY DEF TimeAfter, TimeOf, Loops
  <2>. HIDE DEF X, m, s, t
  <2>5. m + t = X
    BY <2>1, <2>2, <2>3, <2>4
  <2>. QED BY <2>5 DEF m
<1>. HIDE DEF t
<1>6. /\ ClockAt(t) \in Clock /\ ClockAt(t).low <= LowOf(i)
      /\ ClockAt(t).high = HighOf(i) % HighN
      /\ t \div (Period - 1) = t \div Period =>
                Highs(ClockAt(t)) + Loops * HighN = HighOf(i)
  BY <1>1, <1>3, <1>4, <1>5, ClockSought DEF Tape
<1>. HIDE DEF X
<1>7. /\ d'.clock = ClockAt(t) /\ d'.base = TRUE /\ d'.row = None /\ d'.alarm = d.alarm
      /\ d'.incomplete = <<>> /\ d'.missing = 0 /\ d' \in Decoder
  <2>1. /\ d'.clock = ClockAt(t) /\ d'.base = TRUE /\ d'.row = None /\ d'.alarm = d.alarm
        /\ d'.incomplete = <<>> /\ d'.missing = 0
    BY <1>2, <1>4 DEF Decoder
  <2>2. <<>> \in Seq(Range(tape))
    OBVIOUS
  <2>3. d' \in Decoder
    BY <1>2, <1>4, <1>6, <2>2 DEF Decoder
  <2>. QED BY <2>1, <2>3
<1>8. FirstHigh' = FirstHigh /\ Begin' = i /\ Done(d, pos)' = i - 1
  <2>1. FirstHigh' = FirstHigh
    BY <1>2, FirstHighStays
  <2>2. Begin' = i
    BY <1>2, <1>3 DEF Begin
  <2>3. Done(d, pos)' = i - 1
    BY <1>2, <1>3, <1>7 DEF Done
  <2>. QED BY <2>1, <2>2, <2>3
<1>9. Tape(col)'
  BY <1>1, <1>2, TapeStays
<1>10. Sound(d, Done(d, pos), col)'
  <2>1. (d \in Decoder)' /\ d'.base /\ (FirstHigh > 0)'
    BY <1>2, <1>3, <1>7, <1>8 DEF Decoder
  <2>2. (Begin - 1 <= Done(d, pos))' /\ (Done(d, pos) <= Len(tape))' /\ (Done(d, pos) < Begin)'
    BY <1>2, <1>3, <1>8
  <2>3. Aligned(Done(d, pos))'
    BY <1>2, <1>3, <1>8 DEF Aligned
  <2>4. Poised(d.clock)'
    <3>1. Exact => Highs(ClockAt(t)) + Loops * HighN = HighOf(i)
      BY <1>2, <1>6 DEF Exact
    <3>. QED BY <1>2, <1>3, <1>6, <1>7, <1>8, <3>1
             DEF Poised, LowOf, HighOf, Highs, Loops, Exact
  <2>5. ~IsValid(d)'
    <3>1. None \notin 0..(Height - 1)
      BY DecoderAssumption DEF None
    <3>. QED BY <1>7, <3>1 DEF IsValid
  <2>6. (d.alarm => Gap)'
    <3>1. d.alarm => Gap
      BY <1>1 DEF Fed, Sound
    <3>. QED BY <1>2, <1>7, <3>1 DEF Gap, HighOf
  <2>. QED BY <2>1, <2>2, <2>3, <2>4, <2>5, <2>6 DEF Sound
<1>11. Keeps(d, pos)'
  <2>1. (Ahead(d.incomplete, Done(d, pos)))'
    BY <1>2, <1>3, <1>7, <1>8 DEF Ahead
  <2>. QED BY <1>7, <2>1 DEF Keeps
<1>12. Fed(d, pos, col)'
  <2>1. (pos \in 0..Len(tape))' /\ ~(from = 0)'
    BY <1>2, <1>3
  <2>2. (d \in Decoder)' /\ d'.base
    BY <1>10 DEF Sound
  <2>. QED BY <1>10, <1>11, <2>1, <2>2 DEF Fed
<1>13. col \in [0..Len(tape') -> {None} \cup Nat]
  BY <1>1, <1>2
<1>14. /\ shifting' \in BOOLEAN /\ half' \in BOOLEAN /\ ~half'
       /\ from' \in 0..Len(tape') /\ d'.base /\ 0 < FirstHigh' /\ FirstHigh' < from'
  BY <1>1, <1>2, <1>3, <1>7, <1>8
<1>. QED BY <1>9, <1>12, <1>13, <1>14 DEF DecoderInv

-----------------------------------------------------------------------------
(* The sensor, before the recording is read.                               *)

\* A word of an item: its content, its column and its place in a group.
Fits(words, m, c, i) ==
    /\ words[i].type = "addr_y" => words[i].v \in 0..Height
    /\ words[i].type = "base_x" => words[i].v \in Nat
    /\ c[i] = ColumnAfter(words[i], c[i - 1])
    /\ words[i].type \in {"vect_12", "vect_8"} => c[i - 1] # None /\ c[i - 1] + 3 <= Width
    /\ words[i].type = "others" =>
          i + 3 <= m /\ \A j \in (i + 1)..(i + 3) : words[j].type \in {"cont_12", "cont_4"}
    /\ words[i].type = "vect_8" => i > 2 /\ words[i - 1].type = "vect_12"
    /\ words[i].type = "vect_12" =>
          \/ i + 2 <= m /\ words[i + 1].type = "vect_12" /\ words[i + 2].type = "vect_8"
          \/ i < m /\ words[i + 1].type = "vect_8" /\ i > 1 /\ words[i - 1].type = "vect_12"

\* The words of an item, and the columns that they go through.
Item(words, m, c, next) ==
    /\ m \in Nat \ {0} /\ DOMAIN words = 1..m /\ Len(words) = m
    /\ next \in Sensor /\ sensor.now <= next.now
    /\ next.now \div LowN - sensor.now \div LowN <= HighN \div 2
    /\ words[1].type # "time_high" => next.now \div LowN = sensor.now \div LowN
    /\ c \in [0..m -> {None} \cup Nat] /\ c[0] = sensor.column /\ c[m] = next.column
    /\ \A i \in 1..m :
          /\ words[i].type = "time_high" => words[i].v = (next.now \div LowN) % HighN
          /\ words[i].type = "time_low" => words[i].v = next.now % LowN
          /\ Fits(words, m, c, i)

\* The recording with an item more.
LEMMA SendAppends ==
    ASSUME tape \in Seq(Range(tape)), NEW words, NEW m \in Nat \ {0}, DOMAIN words = 1..m,
           Len(words) = m, NEW events, NEW update, Send(words, events, update)
    PROVE  /\ tape' \in Seq(Range(tape')) /\ Len(tape') = Len(tape) + m
           /\ \A i \in 1..Len(tape) : tape'[i] = tape[i]
           /\ \A i \in 1..m : /\ tape'[Len(tape) + i].type = words[i].type
                              /\ tape'[Len(tape) + i].v = words[i].v
                              /\ tape'[Len(tape) + i].clock = sensor'.now
<1>. DEFINE word(i) == [type |-> words[i].type, v |-> words[i].v, clock |-> sensor'.now,
                        events |-> IF i = Len(words) THEN events ELSE <<>>]
            S == Range(tape) \cup {word(i) : i \in 1..m}
            w == [i \in 1..m |-> word(i)]
<1>1. tape' = tape \o w
  BY DEF Send
<1>2. w \in Seq(S) /\ Len(w) = m
  <2>1. w \in [1..m -> S]
    OBVIOUS
  <2>. HIDE DEF S, word
  <2>2. w \in UNION {[1..n -> S] : n \in Nat}
    BY <2>1
  <2>3. w \in Seq(S)
    BY <2>2, SeqDef
  <2>4. DOMAIN w = 1..m /\ DOMAIN w = 1..Len(w) /\ Len(w) \in Nat
    BY <2>3, LenProperties
  <2>. HIDE DEF w
  <2>5. Len(w) = m
    BY <2>4
  <2>. QED BY <2>3, <2>5
<1>3. tape \in Seq(S)
  <2>1. Range(tape) \subseteq S
    OBVIOUS
  <2>. HIDE DEF S
  <2>. QED BY <2>1, SeqMonotonic
<1>4. Len(tape) \in Nat
  BY LenProperties
<1>. HIDE DEF S
<1>5. /\ tape' \in Seq(S) /\ Len(tape') = Len(tape) + m
      /\ \A i \in 1..Len(tape') : tape'[i] = IF i <= Len(tape) THEN tape[i] ELSE w[i - Len(tape)]
  <2>. HIDE DEF w
  <2>1. /\ tape \o w \in Seq(S) /\ Len(tape \o w) = Len(tape) + Len(w)
        /\ \A i \in 1..(Len(tape) + Len(w)) :
              (tape \o w)[i] = IF i <= Len(tape) THEN tape[i] ELSE w[i - Len(tape)]
    BY <1>2, <1>3, ConcatProperties
  <2>. QED BY <1>1, <1>2, <2>1
<1>6. ASSUME NEW i \in 1..Len(tape) PROVE tape'[i] = tape[i]
  <2>1. i \in 1..Len(tape') /\ i <= Len(tape)
    BY <1>4, <1>5
  <2>. HIDE DEF w
  <2>. QED BY <1>5, <2>1
<1>7. ASSUME NEW i \in 1..m
      PROVE  /\ tape'[Len(tape) + i].type = words[i].type
             /\ tape'[Len(tape) + i].v = words[i].v
             /\ tape'[Len(tape) + i].clock = sensor'.now
  <2>1. Len(tape) + i \in 1..Len(tape') /\ ~(Len(tape) + i <= Len(tape))
        /\ (Len(tape) + i) - Len(tape) = i
    BY <1>4, <1>5
  <2>2. tape'[Len(tape) + i] = w[i]
    <3>. HIDE DEF w
    <3>. QED BY <1>5, <2>1
  <2>3. tape'[Len(tape) + i] = word(i)
    BY <2>2
  <2>. QED BY <2>3
<1>. QED BY <1>5, <1>6, <1>7, SeqOfRange

LEMMA SendKeepsTape ==
    ASSUME NEW col \in [0..Len(tape) -> {None} \cup Nat], Tape(col), NEW words, NEW m, NEW c,
           NEW events, NEW update, Send(words, events, update), Item(words, m, c, sensor')
    PROVE  \E after \in [0..Len(tape') -> {None} \cup Nat] : Tape(after)'
<1>. DEFINE L == Len(tape)
            now == sensor'.now
            after == [k \in 0..(L + m) |-> IF k <= L THEN col[k] ELSE c[k - L]]
<1>1. tape \in Seq(Range(tape)) /\ L \in Nat /\ m \in Nat \ {0}
      /\ DOMAIN words = 1..m /\ Len(words) = m
  BY LenProperties DEF Tape, TapeTypes, Item
<1>2. /\ tape' \in Seq(Range(tape')) /\ Len(tape') = L + m
      /\ \A i \in 1..L : tape'[i] = tape[i]
      /\ \A i \in 1..m : /\ tape'[L + i].type = words[i].type
                         /\ tape'[L + i].v = words[i].v
                         /\ tape'[L + i].clock = now
  BY <1>1, SendAppends
<1>. HIDE DEF now
<1>3. ASSUME NEW i \in 1..(L + m), i > L
      PROVE  /\ i - L \in 1..m /\ L + (i - L) = i
             /\ tape'[i].type = words[i - L].type /\ tape'[i].v = words[i - L].v
             /\ tape'[i].clock = now
  <2>1. i - L \in 1..m /\ L + (i - L) = i
    BY <1>1, <1>3
  <2>. QED BY <1>2, <2>1
<1>4. ASSUME NEW i \in 1..(L + m), i <= L PROVE i \in 1..L /\ tape'[i] = tape[i]
  BY <1>1, <1>2, <1>4
<1>5. now \in Nat /\ sensor.now <= now /\ sensor.now \in Nat
  BY DEF Item, Fits, now, Tape, TapeTypes, Sensor
<1>6. TapeTypes'
  <2>1. sensor' \in Sensor
    BY DEF Item, Fits
  <2>2. ASSUME NEW i \in 1..(L + m)
        PROVE  /\ tape'[i].clock \in Nat
               /\ tape'[i].type = "time_high" => tape'[i].v = (tape'[i].clock \div LowN) % HighN
               /\ tape'[i].type = "time_low" => tape'[i].v = tape'[i].clock % LowN
               /\ tape'[i].type = "addr_y" => tape'[i].v \in 0..Height
               /\ tape'[i].type = "base_x" => tape'[i].v \in Nat
    <3>1. CASE i <= L
      BY <1>4, <3>1 DEF Tape, TapeTypes, HighOf, LowOf
    <3>2. CASE i > L
      <4>. DEFINE n == i - L
      <4>1. n \in 1..m /\ tape'[i].type = words[n].type /\ tape'[i].v = words[n].v
            /\ tape'[i].clock = now
        BY <1>3, <3>2
      <4>. HIDE DEF n
      <4>2. /\ words[n].type = "time_high" => words[n].v = (now \div LowN) % HighN
            /\ words[n].type = "time_low" => words[n].v = now % LowN
            /\ words[n].type = "addr_y" => words[n].v \in 0..Height
            /\ words[n].type = "base_x" => words[n].v \in Nat
        BY <4>1 DEF Item, Fits, now
      <4>. QED BY <1>5, <4>1, <4>2
    <3>. QED BY <1>1, <3>1, <3>2
  <2>. QED BY <1>2, <2>1, <2>2 DEF TapeTypes, HighOf, LowOf
<1>7. TapeTimes'
  <2>1. tape'[L + m].clock = now
    BY <1>1, <1>2
  <2>2. ASSUME NEW i \in 1..(L + m - 1)
        PROVE  /\ tape'[i].clock <= tape'[i + 1].clock
               /\ tape'[i + 1].clock \div LowN - tape'[i].clock \div LowN <= HighN \div 2
               /\ tape'[i + 1].type # "time_high" =>
                     tape'[i + 1].clock \div LowN = tape'[i].clock \div LowN
    <3>0. i \in 1..(L + m) /\ i + 1 \in 1..(L + m) /\ i \in Nat
      BY <1>1
    <3>1. CASE i < L
      <4>1. i <= L /\ i + 1 <= L /\ i \in 1..(L - 1)
        BY <1>1, <3>0, <3>1
      <4>2. tape'[i] = tape[i] /\ tape'[i + 1] = tape[i + 1]
        BY <1>4, <3>0, <4>1
      <4>. QED BY <4>1, <4>2 DEF Tape, TapeTimes, HighOf
    <3>2. CASE i = L
      <4>1. tape'[i] = tape[i] /\ tape[i].clock = sensor.now
        BY <1>1, <1>4, <3>0, <3>2 DEF Tape, TapeTimes
      <4>2. tape'[i + 1].clock = now /\ tape'[i + 1].type = words[1].type
        <5>1. i + 1 > L /\ (i + 1) - L = 1
          BY <1>1, <3>2
        <5>. QED BY <1>3, <3>0, <5>1
      <4>. QED BY <1>5, <4>1, <4>2 DEF Item, Fits, now
    <3>3. CASE i > L
      <4>1. tape'[i].clock = now /\ tape'[i + 1].clock = now
        BY <1>1, <1>3, <3>0, <3>3
      <4>2. now \div LowN \in Nat /\ HighN \div 2 \in Nat
        BY <1>5, Ranges, Division
      <4>. QED BY <1>5, <4>1, <4>2
    <3>. QED BY <1>1, <3>0, <3>1, <3>2, <3>3
  <2>. QED BY <1>1, <1>2, <2>1, <2>2 DEF TapeTimes, HighOf, now
<1>8. TapeGroups'
  <2>. SUFFICES ASSUME NEW i \in 1..(L + m)
                PROVE  /\ tape'[i].type = "others" =>
                            /\ i + 3 <= L + m
                            /\ \A j \in (i + 1)..(i + 3) : tape'[j].type \in {"cont_12", "cont_4"}
                       /\ tape'[i].type = "vect_8" => i > 2 /\ tape'[i - 1].type = "vect_12"
                       /\ tape'[i].type = "vect_12" =>
                            \/ /\ i + 2 <= L + m /\ tape'[i + 1].type = "vect_12"
                               /\ tape'[i + 2].type = "vect_8"
                            \/ i < L + m /\ tape'[i + 1].type = "vect_8"
                               /\ i > 1 /\ tape'[i - 1].type = "vect_12"
    BY <1>2 DEF TapeGroups
  <2>1. CASE i <= L
    <3>0. i \in 1..L /\ tape'[i] = tape[i]
      BY <1>4, <2>1
    <3>1. ASSUME tape'[i].type = "others"
          PROVE  /\ i + 3 <= L + m
                 /\ \A j \in (i + 1)..(i + 3) : tape'[j].type \in {"cont_12", "cont_4"}
      <4>1. i + 3 <= L /\ \A j \in (i + 1)..(i + 3) : tape[j].type \in {"cont_12", "cont_4"}
        BY <3>0, <3>1 DEF Tape, TapeGroups
      <4>2. ASSUME NEW j \in (i + 1)..(i + 3) PROVE tape'[j].type \in {"cont_12", "cont_4"}
        <5>1. j \in 1..L
          BY <1>1, <3>0, <4>1
        <5>2. tape'[j] = tape[j]
          BY <1>2, <5>1
        <5>. QED BY <4>1, <5>2
      <4>3. i + 3 <= L + m
        BY <1>1, <4>1
      <4>. QED BY <4>2, <4>3
    <3>2. ASSUME tape'[i].type = "vect_8" PROVE i > 2 /\ tape'[i - 1].type = "vect_12"
      <4>1. i > 2 /\ tape[i - 1].type = "vect_12"
        BY <3>0, <3>2 DEF Tape, TapeGroups
      <4>2. i - 1 \in 1..L
        BY <1>1, <3>0, <4>1
      <4>. QED BY <1>2, <4>1, <4>2
    <3>3. ASSUME tape'[i].type = "vect_12"
          PROVE  \/ /\ i + 2 <= L + m /\ tape'[i + 1].type = "vect_12"
                    /\ tape'[i + 2].type = "vect_8"
                 \/ i < L + m /\ tape'[i + 1].type = "vect_8"
                    /\ i > 1 /\ tape'[i - 1].type = "vect_12"
      <4>1. \/ i + 2 <= L /\ tape[i + 1].type = "vect_12" /\ tape[i + 2].type = "vect_8"
            \/ i < L /\ tape[i + 1].type = "vect_8" /\ i > 1 /\ tape[i - 1].type = "vect_12"
        BY <3>0, <3>3 DEF Tape, TapeGroups
      <4>2. CASE i + 2 <= L /\ tape[i + 1].type = "vect_12" /\ tape[i + 2].type = "vect_8"
        <5>1. i + 1 \in 1..L /\ i + 2 \in 1..L /\ i + 2 <= L + m
          BY <1>1, <3>0, <4>2
        <5>. QED BY <1>2, <4>2, <5>1
      <4>3. CASE i < L /\ tape[i + 1].type = "vect_8" /\ i > 1 /\ tape[i - 1].type = "vect_12"
        <5>1. i + 1 \in 1..L /\ i - 1 \in 1..L /\ i < L + m
          BY <1>1, <3>0, <4>3
        <5>. QED BY <1>2, <4>3, <5>1
      <4>. QED BY <4>1, <4>2, <4>3
    <3>. QED BY <3>1, <3>2, <3>3
  <2>2. CASE i > L
    <3>. DEFINE n == i - L
    <3>0. n \in 1..m /\ tape'[i].type = words[n].type /\ i = L + n
      BY <1>3, <2>2
    <3>. HIDE DEF n
    <3>1. ASSUME tape'[i].type = "others"
          PROVE  /\ i + 3 <= L + m
                 /\ \A j \in (i + 1)..(i + 3) : tape'[j].type \in {"cont_12", "cont_4"}
      <4>1. n + 3 <= m /\ \A j \in (n + 1)..(n + 3) : words[j].type \in {"cont_12", "cont_4"}
        BY <3>0, <3>1 DEF Item, Fits
      <4>2. ASSUME NEW j \in (i + 1)..(i + 3)
            PROVE  j \in 1..(L + m) /\ j > L /\ j - L \in (n + 1)..(n + 3)
        <5>1. n \in Nat /\ L \in Nat /\ m \in Nat /\ n + 3 <= m /\ i = L + n /\ n >= 1
          BY <1>1, <3>0, <4>1
        <5>. QED BY <5>1
      <4>3. ASSUME NEW j \in (i + 1)..(i + 3) PROVE tape'[j].type \in {"cont_12", "cont_4"}
        <5>1. j \in 1..(L + m) /\ j > L /\ j - L \in (n + 1)..(n + 3)
          BY <4>2
        <5>2. tape'[j].type = words[j - L].type
          BY <1>3, <5>1
        <5>. QED BY <4>1, <5>1, <5>2
      <4>. QED BY <1>1, <3>0, <4>1, <4>3
    <3>2. ASSUME tape'[i].type = "vect_8" PROVE i > 2 /\ tape'[i - 1].type = "vect_12"
      <4>1. n > 2 /\ words[n - 1].type = "vect_12"
        BY <3>0, <3>2 DEF Item, Fits
      <4>2. n - 1 \in 1..m /\ L + (n - 1) = i - 1 /\ i > 2
        <5>1. n \in Nat /\ L \in Nat /\ m \in Nat /\ n <= m /\ i = L + n /\ n > 2
          BY <1>1, <3>0, <4>1
        <5>. QED BY <5>1
      <4>3. tape'[L + (n - 1)].type = words[n - 1].type
        BY <1>2, <4>2
      <4>. QED BY <4>1, <4>2, <4>3
    <3>3. ASSUME tape'[i].type = "vect_12"
          PROVE  \/ /\ i + 2 <= L + m /\ tape'[i + 1].type = "vect_12"
                    /\ tape'[i + 2].type = "vect_8"
                 \/ i < L + m /\ tape'[i + 1].type = "vect_8"
                    /\ i > 1 /\ tape'[i - 1].type = "vect_12"
      <4>1. \/ n + 2 <= m /\ words[n + 1].type = "vect_12" /\ words[n + 2].type = "vect_8"
            \/ n < m /\ words[n + 1].type = "vect_8" /\ n > 1 /\ words[n - 1].type = "vect_12"
        BY <3>0, <3>3 DEF Item, Fits
      <4>2. CASE n + 2 <= m /\ words[n + 1].type = "vect_12" /\ words[n + 2].type = "vect_8"
        <5>1. n + 1 \in 1..m /\ n + 2 \in 1..m /\ L + (n + 1) = i + 1 /\ L + (n + 2) = i + 2
              /\ i + 2 <= L + m
          BY <1>1, <3>0, <4>2
        <5>2. tape'[L + (n + 1)].type = words[n + 1].type /\ tape'[L + (n + 2)].type = words[n + 2].type
          BY <1>2, <5>1
        <5>. QED BY <4>2, <5>1, <5>2
      <4>3. CASE n < m /\ words[n + 1].type = "vect_8" /\ n > 1 /\ words[n - 1].type = "vect_12"
        <5>1. n + 1 \in 1..m /\ n - 1 \in 1..m /\ L + (n + 1) = i + 1 /\ L + (n - 1) = i - 1
              /\ i < L + m /\ i > 1
          BY <1>1, <3>0, <4>3
        <5>2. tape'[L + (n + 1)].type = words[n + 1].type /\ tape'[L + (n - 1)].type = words[n - 1].type
          BY <1>2, <5>1
        <5>. QED BY <4>3, <5>1, <5>2
      <4>. QED BY <4>1, <4>2, <4>3
    <3>. QED BY <3>1, <3>2, <3>3
  <2>. QED BY <1>1, <2>1, <2>2
<1>9. after \in [0..Len(tape') -> {None} \cup Nat]
  <2>1. ASSUME NEW k \in 0..(L + m) PROVE after[k] \in {None} \cup Nat
    <3>1. CASE k <= L
      BY <1>1, <3>1
    <3>2. CASE ~(k <= L)
      <4>1. k - L \in 0..m
        BY <1>1, <3>2
      <4>. QED BY <3>2, <4>1 DEF Item, Fits
    <3>. QED BY <3>1, <3>2
  <2>. QED BY <1>2, <2>1
<1>10. /\ after[0] = None /\ after[L + m] = sensor'.column
       /\ \A i \in 1..(L + m) :
             /\ after[i] = ColumnAfter(tape'[i], after[i - 1])
             /\ tape'[i].type \in {"vect_12", "vect_8"} =>
                   after[i - 1] # None /\ after[i - 1] + 3 <= Width
  <2>1. after[0] = None
    BY <1>1 DEF Tape, TapeColumns
  <2>2. \A n \in 0..m : after[L + n] = c[n]
    <3>1. ASSUME NEW n \in 0..m PROVE after[L + n] = c[n]
      <4>1. L + n \in 0..(L + m) /\ (L + n) - L = n /\ (L + n <= L => n = 0 /\ L + n = L)
        BY <1>1
      <4>2. col[L] = c[0]
        BY DEF Tape, TapeColumns, Item, Fits
      <4>. QED BY <4>1, <4>2
    <3>. QED BY <3>1
  <2>3. after[L + m] = sensor'.column
    BY <1>1, <2>2 DEF Item, Fits
  <2>4. \A k \in 0..L : after[k] = col[k]
    BY <1>1
  <2>. HIDE DEF after
  <2>5. ASSUME NEW i \in 1..(L + m)
        PROVE  /\ after[i] = ColumnAfter(tape'[i], after[i - 1])
               /\ tape'[i].type \in {"vect_12", "vect_8"} =>
                     after[i - 1] # None /\ after[i - 1] + 3 <= Width
    <3>1. CASE i <= L
      <4>1. i \in 1..L /\ i - 1 \in 0..L /\ i \in 0..L /\ tape'[i] = tape[i]
        BY <1>1, <1>4, <3>1
      <4>2. after[i] = col[i] /\ after[i - 1] = col[i - 1]
        BY <2>4, <4>1
      <4>. QED BY <4>1, <4>2 DEF Tape, TapeColumns
    <3>2. CASE i > L
      <4>. DEFINE n == i - L
      <4>1. n \in 1..m /\ i = L + n /\ i - 1 = L + (n - 1) /\ n - 1 \in 0..m /\ n \in 0..m
            /\ tape'[i].type = words[n].type /\ tape'[i].v = words[n].v
        BY <1>1, <1>3, <3>2
      <4>. HIDE DEF n
      <4>2. after[i] = c[n] /\ after[i - 1] = c[n - 1]
        BY <2>2, <4>1
      <4>3. /\ c[n] = ColumnAfter(words[n], c[n - 1])
            /\ words[n].type \in {"vect_12", "vect_8"} => c[n - 1] # None /\ c[n - 1] + 3 <= Width
        BY <4>1 DEF Item, Fits
      <4>4. ColumnAfter(words[n], c[n - 1]) = ColumnAfter(tape'[i], c[n - 1])
        BY <4>1 DEF ColumnAfter
      <4>. QED BY <4>1, <4>2, <4>3, <4>4
    <3>. QED BY <1>1, <3>1, <3>2
  <2>. QED BY <2>1, <2>3, <2>5
<1>. HIDE DEF after
<1>11. PICK a : a = after
  OBVIOUS
<1>12. TapeColumns(a)'
  BY <1>2, <1>9, <1>10, <1>11 DEF TapeColumns, ColumnAfter
<1>13. Tape(a)'
  BY <1>6, <1>7, <1>8, <1>12 DEF Tape
<1>. QED BY <1>9, <1>11, <1>13


LEMMA SendKeepsInv ==
    ASSUME DecoderInv, NEW words, NEW m, NEW c, NEW events, NEW update,
           Send(words, events, update), Item(words, m, c, sensor')
    PROVE  DecoderInv'
<1>1. PICK col \in [0..Len(tape) -> {None} \cup Nat] :
          /\ Tape(col) /\ Fed(d, pos, col)
          /\ shifting \in BOOLEAN /\ half \in BOOLEAN /\ (half => pos < Len(tape))
          /\ from \in 0..Len(tape)
          /\ from > 0 => d.base /\ 0 < FirstHigh /\ FirstHigh < from
  BY DEF DecoderInv
<1>2. /\ pos = 0 /\ ~half /\ from = 0
      /\ shifting' = shifting /\ d' = d /\ pos' = pos /\ half' = half /\ from' = from
  BY DEF Send
<1>3. PICK after \in [0..Len(tape') -> {None} \cup Nat] : Tape(after)'
  BY <1>1, SendKeepsTape
<1>4. FirstHigh' \in Nat /\ Len(tape') \in Nat
  <2>1. tape' \in Seq(Range(tape')) /\ Len(tape') \in Nat
    BY <1>3, LenProperties DEF Tape, TapeTypes
  <2>. QED BY <2>1, FirstOf DEF FirstHigh, SelectInSeq
<1>5. ~d.base
  <2>1. SUFFICES ASSUME d.base PROVE FALSE
    OBVIOUS
  <2>2. d \in Decoder /\ FirstHigh > 0 /\ Begin <= Done(d, pos)
    BY <1>1, <1>2, <2>1 DEF Fed, Sound
  <2>3. Done(d, pos) = 0 - Len(d.incomplete) /\ Len(d.incomplete) \in Nat
    BY <1>2, <2>2, DoneIs
  <2>4. Begin \in Nat \ {0}
    BY <1>1, <1>2, <2>2, FirstHighIs, BeginIs DEF Tape
  <2>. QED BY <2>2, <2>3, <2>4
<1>6. Fed(d, pos, after)'
  <2>1. d.incomplete = <<>> /\ d \in Decoder
    BY <1>1, <1>5 DEF Fed
  <2>2. <<>> \in Seq(Range(tape'))
    OBVIOUS
  <2>3. (d \in Decoder)'
    BY <1>2, <2>1, <2>2 DEF Decoder
  <2>. QED BY <1>1, <1>2, <1>4, <1>5, <2>3 DEF Fed
<1>. QED BY <1>1, <1>2, <1>3, <1>4, <1>6 DEF DecoderInv

\* What the sensor keeps when it sends an item.
LEMMA SensorSends ==
    ASSUME DecoderInv, NEW words, NEW events, NEW update \in Sensor, Send(words, events, update)
    PROVE  /\ sensor \in Sensor
           /\ sensor' \in Sensor /\ sensor'.now = update.now /\ sensor'.column = update.column
<1>1. sensor \in Sensor
  BY DEF DecoderInv, Tape, TapeTypes
<1>2. sensor' = [update EXCEPT !.items = @ + 1]
  BY DEF Send
<1>. QED BY <1>1, <1>2 DEF Sensor

LEMMA TickKeepsInv ==
    ASSUME DecoderInv, NEW jump \in Jumps, NEW again \in BOOLEAN, Tick(jump, again)
    PROVE  DecoderInv'
<1>. DEFINE now == sensor.now + jump
            high == W("time_high", (now \div LowN) % HighN)
            low == W("time_low", now % LowN)
            both == again \/ now \div LowN # sensor.now \div LowN
            words == IF both THEN <<high, low>> ELSE <<low>>
            m == IF both THEN 2 ELSE 1
            c == [i \in 0..m |-> sensor.column]
            update == [sensor EXCEPT !.now = now]
<1>1. sensor \in Sensor /\ sensor.now \in Nat
  BY DEF DecoderInv, Tape, TapeTypes, Sensor
<1>2. jump \in Nat /\ jump <= (HighN \div 2) * LowN /\ now \in Nat /\ sensor.now <= now
  <2>1. jump \in 1..((HighN \div 2) * LowN)
    BY DecoderAssumption
  <2>2. (HighN \div 2) * LowN \in Nat
    BY Ranges, Product
  <2>. QED BY <1>1, <2>1, <2>2
<1>3. update \in Sensor /\ update.now = now /\ update.column = sensor.column
  BY <1>1, <1>2 DEF Sensor
<1>4. Send(words, <<>>, update)
  BY DEF Tick
<1>. HIDE DEF now, update
<1>5. sensor' \in Sensor /\ sensor'.now = now /\ sensor'.column = sensor.column
  <2>. HIDE DEF words
  <2>. QED BY <1>3, <1>4, SensorSends
<1>6. now \div LowN - sensor.now \div LowN <= HighN \div 2
  <2>. DEFINE t == sensor.now
              h == HighN \div 2
  <2>1. t \in Nat /\ h \in Nat /\ h * LowN \in Nat /\ t + h * LowN \in Nat /\ now <= h * LowN + t
    BY <1>1, <1>2, Ranges, Product DEF now
  <2>. HIDE DEF t, h
  <2>2. now \div LowN <= (h * LowN + t) \div LowN
    <3>. DEFINE s == h * LowN + t
    <3>1. s \in Nat /\ now <= s
      BY <2>1
    <3>. HIDE DEF s
    <3>2. now \div LowN <= s \div LowN
      BY <1>2, <3>1, Ranges, DivMonotone
    <3>. QED BY <3>2 DEF s
  <2>3. (h * LowN + t) \div LowN = h + t \div LowN
    BY <2>1, Ranges, ModShift
  <2>4. t \div LowN \in Nat /\ now \div LowN \in Nat
    BY <1>2, <2>1, Ranges, Division
  <2>5. now \div LowN - t \div LowN <= h
    BY <2>1, <2>2, <2>3, <2>4
  <2>. QED BY <2>5 DEF t, h
<1>7. /\ m \in Nat \ {0} /\ DOMAIN words = 1..m /\ Len(words) = m
      /\ words[1].type # "time_high" => now \div LowN = sensor.now \div LowN
  <2>1. CASE both
    <3>1. words = <<high, low>> /\ m = 2
      BY <2>1
    <3>2. words[1].type = "time_high"
      BY <3>1 DEF W
    <3>. HIDE DEF words, m, high, low
    <3>3. DOMAIN words = 1..2 /\ Len(words) = 2
      BY <3>1
    <3>. QED BY <3>1, <3>2, <3>3
  <2>2. CASE ~both
    <3>1. words = <<low>> /\ m = 1
      BY <2>2
    <3>. HIDE DEF words, m, low
    <3>2. DOMAIN words = 1..1 /\ Len(words) = 1
      BY <3>1
    <3>. QED BY <2>2, <3>1, <3>2
  <2>. QED BY <2>1, <2>2
<1>8. c \in [0..m -> {None} \cup Nat] /\ c[0] = sensor.column /\ c[m] = sensor'.column
  BY <1>1, <1>5 DEF Sensor
<1>9. ASSUME NEW i \in 1..m
      PROVE  /\ words[i].type \in {"time_high", "time_low"}
             /\ words[i].type = "time_high" => words[i].v = (now \div LowN) % HighN
             /\ words[i].type = "time_low" => words[i].v = now % LowN
             /\ Fits(words, m, c, i)
  <2>1. /\ words[i].type \in {"time_high", "time_low"}
        /\ words[i].type = "time_high" => words[i].v = (now \div LowN) % HighN
        /\ words[i].type = "time_low" => words[i].v = now % LowN
    <3>1. CASE both
      BY <3>1 DEF W
    <3>2. CASE ~both
      BY <3>2 DEF W
    <3>. QED BY <3>1, <3>2
  <2>2. c[i] = sensor.column /\ c[i - 1] = sensor.column
    OBVIOUS
  <2>. HIDE DEF words, c
  <2>. QED BY <2>1, <2>2 DEF ColumnAfter, Fits
<1>. HIDE DEF words, m, c
<1>10. Item(words, m, c, sensor')
  BY <1>2, <1>5, <1>6, <1>7, <1>8, <1>9 DEF Item
<1>. QED BY <1>4, <1>10, SendKeepsInv

\* An item that does not change the time.
LEMMA ItemNow ==
    ASSUME sensor \in Sensor, NEW words, NEW m \in Nat \ {0}, NEW c, NEW next \in Sensor,
           DOMAIN words = 1..m, Len(words) = m, next.now = sensor.now,
           c \in [0..m -> {None} \cup Nat], c[0] = sensor.column, c[m] = next.column,
           \A i \in 1..m : words[i].type \notin {"time_high", "time_low"} /\ Fits(words, m, c, i)
    PROVE  Item(words, m, c, next)
<1>1. sensor.now \in Nat /\ next.now \in Nat
  BY DEF Sensor
<1>2. sensor.now \div LowN \in Nat /\ HighN \div 2 \in Nat
  BY <1>1, Ranges, Division
<1>. QED BY <1>1, <1>2 DEF Item

\* An item of one word, whose column does not change but with a row.
LEMMA WordKeepsInv ==
    ASSUME DecoderInv, NEW w, w.type \in {"addr_x", "addr_y", "trigger"},
           w.type = "addr_y" => w.v \in 0..Height,
           NEW events, NEW update \in Sensor, update.now = sensor.now,
           update.column = IF w.type = "addr_y" THEN None ELSE sensor.column,
           Send(<<w>>, events, update)
    PROVE  DecoderInv'
<1>. DEFINE words == <<w>>
            c == [i \in 0..1 |-> IF i = 0 THEN sensor.column ELSE update.column]
<1>1. sensor \in Sensor /\ sensor' \in Sensor
      /\ sensor'.now = sensor.now /\ sensor'.column = update.column
  BY SensorSends
<1>2. DOMAIN words = 1..1 /\ Len(words) = 1 /\ words[1] = w
  OBVIOUS
<1>3. c \in [0..1 -> {None} \cup Nat] /\ c[0] = sensor.column /\ c[1] = update.column
  BY <1>1 DEF Sensor
<1>4. c[1] = ColumnAfter(w, c[0])
  <2>. HIDE DEF c
  <2>. QED BY <1>3 DEF ColumnAfter
<1>. HIDE DEF words, c
<1>5. Item(words, 1, c, sensor')
  <2>1. ASSUME NEW i \in 1..1
        PROVE  words[i] = w /\ Fits(words, 1, c, i)
    <3>1. i = 1 /\ i - 1 = 0
      OBVIOUS
    <3>. QED BY <1>2, <1>4, <3>1 DEF Fits
  <2>2. \A i \in 1..1 : words[i].type \in {"addr_x", "addr_y", "trigger"}
    BY <2>1
  <2>3. 1 \in Nat \ {0}
    OBVIOUS
  <2>. QED BY <1>1, <1>2, <1>3, <2>1, <2>2, <2>3, ItemNow
<1>6. Send(words, events, update)
  BY DEF words
<1>. QED BY <1>5, <1>6, SendKeepsInv


LEMMA RowKeepsInv ==
    ASSUME DecoderInv, NEW y \in {0, Height}, Row(y)
    PROVE  DecoderInv'
<1>. DEFINE w == W("addr_y", y)
            update == [sensor EXCEPT !.row = y, !.column = None]
<1>1. w.type = "addr_y" /\ w.v \in 0..Height
  BY DecoderAssumption DEF W
<1>2. update \in Sensor /\ update.now = sensor.now /\ update.column = None
  BY DEF DecoderInv, Tape, TapeTypes, Sensor
<1>3. Send(<<w>>, <<>>, update)
  BY DEF Row
<1>. HIDE DEF w, update
<1>. QED BY <1>1, <1>2, <1>3, WordKeepsInv

LEMMA PixelKeepsInv ==
    ASSUME DecoderInv, NEW x, Pixel(x)
    PROVE  DecoderInv'
<1>. DEFINE w == W("addr_x", x)
            events == Seen(<<x>>)
<1>1. w.type = "addr_x"
  BY DEF W
<1>2. sensor \in Sensor
  BY DEF DecoderInv, Tape, TapeTypes
<1>3. Send(<<w>>, events, sensor)
  BY DEF Pixel
<1>. HIDE DEF w, events
<1>. QED BY <1>1, <1>2, <1>3, WordKeepsInv

LEMMA TriggerKeepsInv ==
    ASSUME DecoderInv, Trigger
    PROVE  DecoderInv'
<1>. DEFINE w == W("trigger", 1)
            events == <<Event("trigger", <<1>>, sensor.now)>>
<1>1. w.type = "trigger"
  BY DEF W
<1>2. sensor \in Sensor
  BY DEF DecoderInv, Tape, TapeTypes
<1>3. Send(<<w>>, events, sensor)
  BY DEF Trigger
<1>. HIDE DEF w, events
<1>. QED BY <1>1, <1>2, <1>3, WordKeepsInv

LEMMA MonitorKeepsInv ==
    ASSUME DecoderInv, NEW master, Monitor(master)
    PROVE  DecoderInv'
<1>. DEFINE words == <<W("others", master), W("cont_12", 1), W("cont_12", 0), W("cont_4", 1)>>
            events == IF master \in Blacklist THEN <<>>
                      ELSE <<Event("monitor", <<master, <<1, 0, 1>> >>, sensor.now)>>
            c == [i \in 0..4 |-> sensor.column]
<1>1. sensor \in Sensor
  BY DEF DecoderInv, Tape, TapeTypes
<1>2. Send(words, events, sensor)
  BY DEF Monitor
<1>3. /\ DOMAIN words = 1..4 /\ Len(words) = 4
      /\ words[1].type = "others" /\ words[4].type = "cont_4"
      /\ words[2].type = "cont_12" /\ words[3].type = "cont_12"
  BY DEF W
<1>4. c \in [0..4 -> {None} \cup Nat] /\ \A i \in 0..4 : c[i] = sensor.column
  BY <1>1 DEF Sensor
<1>. HIDE DEF words, events, c
<1>5. sensor' \in Sensor /\ sensor'.now = sensor.now /\ sensor'.column = sensor.column
  BY <1>1, <1>2, SensorSends
<1>6. ASSUME NEW i \in 1..4
      PROVE  /\ words[i].type \in {"others", "cont_12", "cont_4"}
             /\ Fits(words, 4, c, i)
  <2>1. i = 1 \/ i = 2 \/ i = 3 \/ i = 4
    OBVIOUS
  <2>2. words[i].type \in {"others", "cont_12", "cont_4"} /\ (words[i].type = "others" => i = 1)
    BY <1>3, <2>1
  <2>3. c[i] = ColumnAfter(words[i], c[i - 1])
    <3>1. c[i] = sensor.column /\ c[i - 1] = sensor.column
      BY <1>4
    <3>. QED BY <2>2, <3>1 DEF ColumnAfter, Fits
  <2>4. \A j \in 2..4 : words[j].type \in {"cont_12", "cont_4"}
    <3>1. \A j \in 2..4 : j = 2 \/ j = 3 \/ j = 4
      OBVIOUS
    <3>. QED BY <1>3, <3>1
  <2>. QED BY <2>2, <2>3, <2>4 DEF Fits
<1>7. Item(words, 4, c, sensor')
  <2>1. 4 \in Nat \ {0} /\ 0 \in 0..4 /\ 4 \in 0..4
    OBVIOUS
  <2>. QED BY <1>1, <1>3, <1>4, <1>5, <1>6, <2>1, ItemNow
<1>. QED BY <1>2, <1>7, SendKeepsInv

\* A group of three vectors, and a base before it.
LEMMA GroupWords ==
    ASSUME NEW a, NEW b, NEW e, NEW x
    PROVE  LET group == <<W("vect_12", a), W("vect_12", b), W("vect_8", e)>>
               based == <<W("base_x", x)>> \o group
           IN /\ DOMAIN group = 1..3 /\ Len(group) = 3
              /\ group[1].type = "vect_12" /\ group[2].type = "vect_12" /\ group[3].type = "vect_8"
              /\ DOMAIN based = 1..4 /\ Len(based) = 4
              /\ based[1].type = "base_x" /\ based[1].v = x
              /\ based[2].type = "vect_12" /\ based[3].type = "vect_12" /\ based[4].type = "vect_8"
<1>. DEFINE group == <<W("vect_12", a), W("vect_12", b), W("vect_8", e)>>
            base == <<W("base_x", x)>>
            based == base \o group
            S == {W("vect_12", a), W("vect_12", b), W("vect_8", e), W("base_x", x)}
<1>1. /\ DOMAIN group = 1..3 /\ Len(group) = 3
      /\ group[1] = W("vect_12", a) /\ group[2] = W("vect_12", b) /\ group[3] = W("vect_8", e)
  OBVIOUS
<1>2. Len(base) = 1 /\ base[1] = W("base_x", x)
  OBVIOUS
<1>3. group \in Seq(S) /\ base \in Seq(S)
  OBVIOUS
<1>. HIDE DEF group, base, S
<1>4. /\ based \in Seq(S) /\ Len(based) = 4
      /\ \A i \in 1..4 : based[i] = IF i <= 1 THEN base[i] ELSE group[i - 1]
  <2>1. /\ based \in Seq(S) /\ Len(based) = Len(base) + Len(group)
        /\ \A i \in 1..(Len(base) + Len(group)) :
              based[i] = IF i <= Len(base) THEN base[i] ELSE group[i - Len(base)]
    BY <1>3, ConcatProperties
  <2>. HIDE DEF based
  <2>. QED BY <1>1, <1>2, <2>1
<1>. HIDE DEF based
<1>5. DOMAIN based = 1..4
  BY <1>4, LenProperties
<1>6. based[1] = base[1] /\ based[2] = group[1] /\ based[3] = group[2] /\ based[4] = group[3]
  <2>1. 1 \in 1..4 /\ 2 \in 1..4 /\ 3 \in 1..4 /\ 4 \in 1..4
    OBVIOUS
  <2>. QED BY <1>4, <2>1
<1>. QED BY <1>1, <1>2, <1>4, <1>5, <1>6 DEF W, group, base, based

LEMMA VectorKeepsInv ==
    ASSUME DecoderInv, NEW x \in Nat, NEW mask, Vector(x, mask)
    PROVE  DecoderInv'
<1>. DEFINE group == <<W("vect_12", mask[1]), W("vect_12", mask[2]), W("vect_8", mask[3])>>
            events == Seen(SelectSeq(<<x, x + 1, x + 2>>, LAMBDA c : mask[c - x + 1] = 1))
            based == <<W("base_x", x)>> \o group
            update == [sensor EXCEPT !.column = x + 3]
<1>1. x + 3 <= Width /\ Send(IF x = sensor.column THEN group ELSE based, events, update)
  BY DEF Vector
<1>2. /\ DOMAIN group = 1..3 /\ Len(group) = 3
      /\ group[1].type = "vect_12" /\ group[2].type = "vect_12" /\ group[3].type = "vect_8"
      /\ DOMAIN based = 1..4 /\ Len(based) = 4
      /\ based[1].type = "base_x" /\ based[1].v = x
      /\ based[2].type = "vect_12" /\ based[3].type = "vect_12" /\ based[4].type = "vect_8"
  BY GroupWords
<1>3. /\ sensor \in Sensor /\ update \in Sensor
      /\ update.now = sensor.now /\ update.column = x + 3
  <2>1. sensor \in Sensor /\ x + 3 \in Nat
    BY DEF DecoderInv, Tape, TapeTypes
  <2>. QED BY <2>1 DEF Sensor
<1>. HIDE DEF group, events, based, update
<1>4. sensor' \in Sensor /\ sensor'.now = sensor.now /\ sensor'.column = x + 3
  BY <1>1, <1>3, SensorSends
<1>5. sensor.column \in {None} \cup Nat /\ x # None
  BY <1>3 DEF Sensor, None
<1>6. CASE x = sensor.column
  <2>. DEFINE c == [i \in 0..3 |-> IF i < 3 THEN x ELSE x + 3]
  <2>1. c \in [0..3 -> {None} \cup Nat] /\ c[0] = x /\ c[1] = x /\ c[2] = x /\ c[3] = x + 3
    OBVIOUS
  <2>. HIDE DEF c
  <2>2. ASSUME NEW i \in 1..3
        PROVE  group[i].type \in {"vect_12", "vect_8"} /\ Fits(group, 3, c, i)
    <3>1. CASE i = 1
      BY <1>1, <1>2, <1>5, <2>1, <3>1 DEF ColumnAfter, Fits
    <3>2. CASE i = 2
      BY <1>1, <1>2, <1>5, <2>1, <3>2 DEF ColumnAfter, Fits
    <3>3. CASE i = 3
      BY <1>1, <1>2, <1>5, <2>1, <3>3 DEF ColumnAfter, Fits
    <3>. QED BY <3>1, <3>2, <3>3
  <2>3. Item(group, 3, c, sensor')
    <3>1. 3 \in Nat \ {0}
      OBVIOUS
    <3>. QED BY <1>2, <1>3, <1>4, <1>6, <2>1, <2>2, <3>1, ItemNow
  <2>. QED BY <1>1, <1>6, <2>3, SendKeepsInv
<1>7. CASE x # sensor.column
  <2>. DEFINE c == [i \in 0..4 |-> IF i = 0 THEN sensor.column ELSE IF i < 4 THEN x ELSE x + 3]
  <2>1. /\ c \in [0..4 -> {None} \cup Nat]
        /\ c[0] = sensor.column /\ c[1] = x /\ c[2] = x /\ c[3] = x /\ c[4] = x + 3
    BY <1>5
  <2>. HIDE DEF c
  <2>2. ASSUME NEW i \in 1..4
        PROVE  based[i].type \in {"base_x", "vect_12", "vect_8"} /\ Fits(based, 4, c, i)
    <3>1. CASE i = 1
      BY <1>1, <1>2, <1>5, <2>1, <3>1 DEF ColumnAfter, Fits
    <3>2. CASE i = 2
      BY <1>1, <1>2, <1>5, <2>1, <3>2 DEF ColumnAfter, Fits
    <3>3. CASE i = 3
      BY <1>1, <1>2, <1>5, <2>1, <3>3 DEF ColumnAfter, Fits
    <3>4. CASE i = 4
      BY <1>1, <1>2, <1>5, <2>1, <3>4 DEF ColumnAfter, Fits
    <3>. QED BY <3>1, <3>2, <3>3, <3>4
  <2>3. Item(based, 4, c, sensor')
    <3>1. 4 \in Nat \ {0}
      OBVIOUS
    <3>. QED BY <1>2, <1>3, <1>4, <2>1, <2>2, <3>1, ItemNow
  <2>. QED BY <1>1, <1>7, <2>3, SendKeepsInv
<1>. QED BY <1>6, <1>7

-----------------------------------------------------------------------------
(* The theorems.                                                           *)

LEMMA InitKeeps ==
    ASSUME Init
    PROVE  DecoderInv
<1>1. PICK t \in Starts : sensor = [now |-> t, row |-> None, column |-> None, items |-> 0]
  BY DEF Init
<1>2. /\ tape = <<>> /\ shifting \in BOOLEAN
      /\ d = [clock |-> [loop |-> 0, high |-> 0, low |-> 0], base |-> FALSE, set |-> FALSE,
              shift |-> None, row |-> None, column |-> 0, vect |-> FALSE,
              incomplete |-> <<>>, missing |-> 0, alarm |-> FALSE]
      /\ pos = 0 /\ half = FALSE /\ from = 0
  BY DEF Init
<1>. DEFINE col == [k \in 0..0 |-> None]
<1>3. Len(tape) = 0 /\ tape \in Seq(Range(tape))
  BY <1>2
<1>4. sensor \in Sensor /\ sensor.column = None
  BY <1>1, DecoderAssumption DEF Sensor
<1>5. col \in [0..Len(tape) -> {None} \cup Nat] /\ col[0] = None
  BY <1>3
<1>6. FirstHigh = 0
  <2>1. TapeTypes
    BY <1>3, <1>4 DEF TapeTypes
  <2>. QED BY <1>3, <2>1, FirstHighIs
<1>. HIDE DEF col
<1>7. Tape(col)
  BY <1>3, <1>4, <1>5 DEF Tape, TapeTypes, TapeTimes, TapeGroups, TapeColumns
<1>8. d \in Decoder
  <2>1. [loop |-> 0, high |-> 0, low |-> 0] \in Clock
    BY Ranges DEF Clock
  <2>2. <<>> \in Seq(Range(tape))
    OBVIOUS
  <2>. QED BY <1>2, <2>1, <2>2 DEF Decoder
<1>9. Fed(d, pos, col)
  <2>1. /\ d.clock = [loop |-> 0, high |-> 0, low |-> 0]
        /\ ~d.base /\ ~d.set /\ d.row = None /\ ~d.alarm
        /\ d.incomplete = <<>> /\ d.missing = 0
    BY <1>2
  <2>2. pos \in 0..Len(tape) /\ from = 0
    BY <1>2, <1>3
  <2>. QED BY <1>6, <1>8, <2>1, <2>2, Zenon DEF Fed
<1>. QED BY <1>2, <1>3, <1>5, <1>7, <1>9 DEF DecoderInv

LEMMA StutterKeepsInv ==
    ASSUME DecoderInv, UNCHANGED vars
    PROVE  DecoderInv'
<1>1. PICK col \in [0..Len(tape) -> {None} \cup Nat] :
          /\ Tape(col) /\ Fed(d, pos, col)
          /\ shifting \in BOOLEAN /\ half \in BOOLEAN /\ (half => pos < Len(tape))
          /\ from \in 0..Len(tape)
          /\ from > 0 => d.base /\ 0 < FirstHigh /\ FirstHigh < from
  BY DEF DecoderInv
<1>2. /\ sensor' = sensor /\ tape' = tape /\ shifting' = shifting /\ d' = d
      /\ pos' = pos /\ half' = half /\ from' = from
  BY DEF vars
<1>3. Tape(col)' /\ Fed(d, pos, col)'
  BY <1>1, <1>2, TapeStays, FedStays
<1>4. FirstHigh' = FirstHigh
  BY <1>2, FirstHighStays
<1>. QED BY <1>1, <1>2, <1>3, <1>4 DEF DecoderInv

\* Every step keeps what a decoder knows of the recording.
LEMMA NextKeeps ==
    ASSUME DecoderInv, [Next]_vars
    PROVE  DecoderInv'
<1>1. ASSUME NEW j \in Jumps, NEW again \in BOOLEAN, Tick(j, again) PROVE DecoderInv'
  BY <1>1, TickKeepsInv
<1>2. ASSUME NEW y \in {0, Height}, Row(y) PROVE DecoderInv'
  BY <1>2, RowKeepsInv
<1>3. ASSUME Pixel(1) PROVE DecoderInv'
  BY <1>3, PixelKeepsInv
<1>4. ASSUME NEW x \in {0, sensor.column} \ {None}, Vector(x, <<1, 0, 1>>) PROVE DecoderInv'
  <2>1. x \in Nat
    BY DEF DecoderInv, Tape, TapeTypes, Sensor
  <2>. QED BY <1>4, <2>1, VectorKeepsInv
<1>5. ASSUME Trigger PROVE DecoderInv'
  BY <1>5, TriggerKeepsInv
<1>6. ASSUME NEW m \in Masters, Monitor(m) PROVE DecoderInv'
  BY <1>6, MonitorKeepsInv
<1>7. ASSUME NEW n \in Buffers, Decode(n) PROVE DecoderInv'
  BY <1>7, DecodeKeepsInv
<1>8. ASSUME ResetShift PROVE DecoderInv'
  BY <1>8, ResetShiftKeepsInv
<1>9. ASSUME NEW i \in Bookmarks, Seek(i) PROVE DecoderInv'
  BY <1>9, SeekKeepsInv
<1>10. ASSUME UNCHANGED vars PROVE DecoderInv'
  BY <1>10, StutterKeepsInv
<1>. QED BY <1>1, <1>2, <1>3, <1>4, <1>5, <1>6, <1>7, <1>8, <1>9, <1>10 DEF Next

\* At any time the decoder has what the words that it has decoded say, and
\* keeps the beginning of the event that comes next.
THEOREM DecoderFollows ==
    Spec => []DecoderInv
<1>1. Init => DecoderInv
  BY InitKeeps
<1>2. DecoderInv /\ [Next]_vars => DecoderInv'
  BY NextKeeps
<1>. QED BY <1>1, <1>2, PTL DEF Spec

\* The variables keep their types, and what is kept of a group for the next
\* buffer and what it lacks add up to the group, whatever the buffers.
THEOREM DecoderTypeOK ==
    Spec => []TypeOK
<1>1. ASSUME DecoderInv PROVE TypeOK
  <2>1. PICK col \in [0..Len(tape) -> {None} \cup Nat] :
          /\ Tape(col) /\ Fed(d, pos, col)
          /\ shifting \in BOOLEAN /\ half \in BOOLEAN /\ (half => pos < Len(tape))
          /\ from \in 0..Len(tape)
    BY <1>1 DEF DecoderInv
  <2>2. d \in Decoder
    BY <2>1 DEF Fed
  <2>3. /\ d.missing > 0 <=> d.incomplete # <<>>
        /\ d.missing > 0 => Len(d.incomplete) + d.missing = Size(d.incomplete[1])
    <3>1. CASE d.base
      <4>1. Keeps(d, pos)
        BY <2>1, <3>1 DEF Fed
      <4>2. Len(d.incomplete) \in Nat /\ Size(d.incomplete[1]) \in Nat
        BY <2>1, <2>2, DoneIs DEF Fed, Size
      <4>. QED BY <4>1, <4>2 DEF Keeps
    <3>2. CASE ~d.base
      BY <2>1, <3>2 DEF Fed
    <3>. QED BY <3>1, <3>2, <2>2 DEF Decoder
  <2>. QED BY <2>1, <2>2, <2>3 DEF TypeOK, Fed, Decoder
<1>. QED BY <1>1, DecoderFollows, PTL

\* The default validator, over any recording of a sensor, cut and sought in any
\* way: what it reports has a gap of the time for a reason.  No vector is
\* reported, since every column is in the sensor and every group has a base.
THEOREM AlarmsAreGapsHolds ==
    Spec => []AlarmsAreGaps
<1>1. ASSUME DecoderInv PROVE AlarmsAreGaps
  <2>1. PICK col \in [0..Len(tape) -> {None} \cup Nat] : Fed(d, pos, col)
    BY <1>1 DEF DecoderInv
  <2>2. d.alarm => Gap
    BY <2>1 DEF Fed, Sound
  <2>. QED BY <2>2 DEF AlarmsAreGaps, Gap, HighOf
<1>. QED BY <1>1, DecoderFollows, PTL

\* The decoder's time is never ahead of the sensor's, between the two words of
\* a change either, and after any number of loops: as long as the readers seek
\* only to times that reset_last_timestamp gets right (see ResetIsOff).
THEOREM NeverAheadHolds ==
    ASSUME Exact
    PROVE  Spec => []NeverAhead
<1>1. ASSUME DecoderInv PROVE NeverAhead
  <2>. SUFFICES ASSUME d.set, Done(d, pos) >= Begin
                PROVE  LastTimestamp(d) <= TimeOf(d, tape[Done(d, pos)].clock)
    BY DEF NeverAhead
  <2>1. PICK col \in [0..Len(tape) -> {None} \cup Nat] :
          Tape(col) /\ Fed(d, pos, col) /\ from \in 0..Len(tape)
          /\ (from > 0 => d.base /\ 0 < FirstHigh /\ FirstHigh < from)
    BY <1>1 DEF DecoderInv
  <2>. DEFINE k == Done(d, pos)
              C == tape[k].clock
              s == IF shifting THEN d.shift ELSE 0
  <2>2. d.base
    BY <2>1 DEF Fed
  <2>3. d \in Decoder /\ FirstHigh > 0 /\ k <= Len(tape)
        /\ IF k < Begin THEN Poised(d.clock) ELSE Tracks(d.clock, k)
    BY <2>1, <2>2 DEF Fed, Sound
  <2>4. k \in Int /\ Begin \in Nat \ {0} /\ Len(tape) \in Nat
    BY <2>1, <2>3, DoneIs, FirstHighIs, BeginIs DEF Fed, Tape
  <2>5. k \in 1..Len(tape) /\ Tracks(d.clock, k)
    BY <2>3, <2>4
  <2>. HIDE DEF k
  <2>6. C \in Nat /\ HighOf(k) \in Nat /\ LowOf(k) \in 0..(LowN - 1) /\ Loops \in Nat
        /\ d.clock \in Clock
    BY <2>1, <2>3, <2>5, WordTimes, LoopsType DEF Tape, Decoder
  <2>7. C = HighOf(k) * LowN + LowOf(k) /\ HighOf(k) * LowN \in Nat
    <3>1. C = (C \div LowN) * LowN + (C % LowN)
      BY <2>6, Ranges, Division
    <3>. QED BY <2>6, <3>1, Ranges, Product DEF HighOf, LowOf
  <2>8. Highs(d.clock) + Loops * HighN = HighOf(k) /\ d.clock.low <= LowOf(k)
    BY <2>5 DEF Tracks
  <2>9. Stamp(d.clock) <= C - Loops * Period
    <3>. DEFINE H == Highs(d.clock)
                l == d.clock.low
                a == Loops * HighN
    <3>1. H \in Nat /\ l \in Nat /\ a \in Nat
      <4>1. d.clock.loop \in Nat /\ d.clock.high \in Nat /\ l \in Nat
        <5>1. d.clock \in Clock
          BY <2>6
        <5>2. d.clock.loop \in Nat /\ d.clock.high \in 0..(HighN - 1) /\ d.clock.low \in 0..(LowN - 1)
          BY <5>1 DEF Clock
        <5>. QED BY <5>2, Ranges
      <4>2. d.clock.loop * HighN \in Nat /\ a \in Nat
        BY <2>6, <4>1, Ranges, Product
      <4>. QED BY <4>1, <4>2 DEF Highs
    <3>2. Stamp(d.clock) = H * LowN + l
      BY DEF Stamp, Highs
    <3>3. Loops * Period = a * LowN
      BY <2>6, Ranges, Widths
    <3>. HIDE DEF H, l, a
    <3>4. (H + a) * LowN = H * LowN + a * LowN
      BY <3>1, Ranges
    <3>5. H * LowN \in Nat /\ a * LowN \in Nat
      BY <3>1, Ranges, Product
    <3>6. H + a = HighOf(k) /\ l <= LowOf(k)
      BY <2>8 DEF H, l, a
    <3>. DEFINE u == H * LowN
                v == a * LowN
                w == HighOf(k) * LowN
    <3>7. u + v = w /\ C = w + LowOf(k) /\ Stamp(d.clock) = u + l /\ Loops * Period = v
      BY <2>7, <3>2, <3>3, <3>4, <3>6
    <3>8. u \in Nat /\ v \in Nat /\ w \in Nat /\ LowOf(k) \in Nat
      BY <2>6, <2>7, <3>5, Ranges
    <3>. HIDE DEF u, v, w, C
    <3>. QED BY <3>1, <3>6, <3>7, <3>8
  <2>. QED BY <2>9 DEF LastTimestamp, EventTime, TimeOf, Loops, k
<1>. QED BY <1>1, DecoderFollows, PTL
=============================================================================
