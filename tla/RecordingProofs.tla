-------------------------- MODULE RecordingProofs ---------------------------
(***************************************************************************)
(* No buffer is lost between the callbacks of a camera and the file of a   *)
(* recording: for any number of recordings, of buffers, and of buffers     *)
(* that a writer keeps, wherever start_recording(), stop_recording() and   *)
(* the destruction of the camera fall among the steps of the run thread    *)
(* and of the threads of the writers.                                      *)
(***************************************************************************)
EXTENDS CameraProofs

Data == Seq(Nat)

RecordingTypes ==
    /\ cbs \subseteq Writers /\ vec \subseteq Writers /\ calls \subseteq Writers
    /\ dirty \in BOOLEAN /\ calling \in BOOLEAN /\ fed \in Nat
    /\ drops \in [user : SUBSET Writers, run : SUBSET Writers]
    /\ phase \in [Writers -> {"none", "open", "flush", "stop", "closed"}]
    /\ worker \in [Writers -> {"none", "active", "over"}]
    /\ buf \in [Writers -> Data]
    /\ tasks \in [Writers -> Seq(Data)] /\ batch \in [Writers -> Seq(Data)]
    /\ file \in [Writers -> Data] /\ owed \in [Writers -> Data]

-----------------------------------------------------------------------------
(* Whose the writers are.                                                  *)

\* The run thread calls the callbacks it has copied, inside process_impl; the
\* thread that destroys a camera has joined it.
Callers ==
    /\ mutex # None => Plays
    /\ calling => Records /\ \E t \in RunThreads : run[t] = "process"
    /\ calls \subseteq vec
    /\ ~calling => calls = {} /\ drops.run = {}

\* The copies are those of the registered callbacks unless they are marked as
\* out of date; a writer with a callback is open, and one that is destroyed
\* has none.
Holders ==
    /\ ~dirty => vec = cbs
    /\ \A w \in cbs \cup vec : phase[w] = "open"
    /\ \A w \in drops.user \cup drops.run :
          w \notin cbs \cup vec /\ phase[w] \in {"open", "flush", "stop"}
    /\ recUser = "start" => \E w \in Writers : phase[w] = "none"

\* A writer's thread is over when there is nothing that it could still get.
Workers == \A w \in Writers :
    /\ phase[w] = "none" =>
          buf[w] = <<>> /\ tasks[w] = <<>> /\ batch[w] = <<>> /\ file[w] = <<>> /\ owed[w] = <<>>
    /\ phase[w] \in {"stop", "closed"} => buf[w] = <<>>
    /\ worker[w] = "over" => tasks[w] = <<>> /\ batch[w] = <<>> /\ phase[w] \in {"stop", "closed"}
    /\ phase[w] = "closed" => worker[w] = "over"

-----------------------------------------------------------------------------
(* Where the data is.                                                      *)

\* s is what data has from position at on.
Piece(data, at, s) == \A j \in 1 .. Len(s) : s[j] = data[at + j]

\* The sequences of q, one after the other, are what data has between the
\* positions from and to; cut gives the place where each of them ends.
Pieces(data, from, to, q) ==
    \E cut \in [0 .. Len(q) -> 0 .. to] :
        /\ cut[0] = from /\ cut[Len(q)] = to
        /\ \A i \in 1 .. Len(q) :
              cut[i] = cut[i - 1] + Len(q[i]) /\ Piece(data, cut[i - 1], q[i])

\* What the writer keeps for itself, and has not given to its thread.
Kept(w) == IF phase[w] = "flush" THEN <<>> ELSE buf[w]

\* What a writer owes is, in this order, what it wrote, the tasks of its thread,
\* what it kept, and the last buffer delivered if its callback is still due.
Account(wrote, owes, todo, kept, due, last) ==
    /\ Len(wrote) <= Len(owes) /\ Piece(owes, 0, wrote)
    /\ \E to \in Len(wrote) .. Len(owes) :
          /\ Pieces(owes, Len(wrote), to, todo)
          /\ Piece(owes, to, kept)
          /\ to + Len(kept) + (IF due THEN 1 ELSE 0) = Len(owes)
    /\ due => owes[Len(owes)] = last

Accounted(w) ==
    Account(file[w], owed[w], batch[w] \o tasks[w], Kept(w), w \in calls, fed)

RecordingInv ==
    RecordingTypes /\ Callers /\ Holders /\ Workers /\ \A w \in Writers : Accounted(w)

-----------------------------------------------------------------------------
(* Sequences of sequences.                                                 *)

LEMMA PiecesOfNone ==
    ASSUME NEW data, NEW a \in Nat, NEW b \in Nat
    PROVE  Pieces(data, a, b, <<>>) <=> a = b
<1>1. ASSUME a = b PROVE Pieces(data, a, b, <<>>)
  <2>. DEFINE cut == [i \in 0 .. Len(<<>>) |-> a]
  <2>1. cut \in [0 .. Len(<<>>) -> 0 .. b] /\ cut[0] = a /\ cut[Len(<<>>)] = b
    BY <1>1
  <2>. HIDE DEF cut
  <2>. QED BY <2>1 DEF Pieces
<1>2. ASSUME Pieces(data, a, b, <<>>) PROVE a = b
  BY <1>2 DEF Pieces
<1>. QED BY <1>1, <1>2

LEMMA PiecesAppend ==
    ASSUME NEW data, NEW a \in Nat, NEW b \in Nat, NEW q \in Seq(Data), NEW s \in Data,
           Pieces(data, a, b, q), Piece(data, b, s)
    PROVE  Pieces(data, a, b + Len(s), Append(q, s))
<1>1. PICK cut \in [0 .. Len(q) -> 0 .. b] :
         /\ cut[0] = a /\ cut[Len(q)] = b
         /\ \A i \in 1 .. Len(q) :
               cut[i] = cut[i - 1] + Len(q[i]) /\ Piece(data, cut[i - 1], q[i])
  BY DEF Pieces
<1>. DEFINE next == [i \in 0 .. Len(q) + 1 |-> IF i <= Len(q) THEN cut[i] ELSE b + Len(s)]
<1>2. Len(q) \in Nat /\ Len(s) \in Nat
  BY DEF Data
<1>3. next \in [0 .. Len(q) + 1 -> 0 .. b + Len(s)]
  BY <1>2
<1>4. next[0] = a /\ next[Len(q) + 1] = b + Len(s)
  BY <1>1, <1>2
<1>5. /\ Len(Append(q, s)) = Len(q) + 1
      /\ \A i \in 1 .. Len(q) : Append(q, s)[i] = q[i]
      /\ Append(q, s)[Len(q) + 1] = s
  BY AppendProperties
<1>6. ASSUME NEW i \in 1 .. Len(q) + 1
      PROVE  /\ next[i] = next[i - 1] + Len(Append(q, s)[i])
             /\ Piece(data, next[i - 1], Append(q, s)[i])
  <2>1. CASE i <= Len(q)
    <3>1. i \in 1 .. Len(q) /\ next[i] = cut[i] /\ next[i - 1] = cut[i - 1]
      BY <2>1, <1>2
    <3>. QED BY <3>1, <1>1, <1>5
  <2>2. CASE i = Len(q) + 1
    <3>1. next[i] = b + Len(s) /\ next[i - 1] = b
      BY <2>2, <1>1, <1>2
    <3>. QED BY <3>1, <2>2, <1>5
  <2>. QED BY <2>1, <2>2, <1>2
<1>. HIDE DEF next
<1>. QED BY <1>3, <1>4, <1>5, <1>6 DEF Pieces

LEMMA PiecesTail ==
    ASSUME NEW data, NEW a \in Nat, NEW b \in Nat, NEW q \in Seq(Data), q # <<>>,
           Pieces(data, a, b, q)
    PROVE  /\ Piece(data, a, Head(q)) /\ a + Len(Head(q)) <= b
           /\ Pieces(data, a + Len(Head(q)), b, Tail(q))
<1>1. PICK cut \in [0 .. Len(q) -> 0 .. b] :
         /\ cut[0] = a /\ cut[Len(q)] = b
         /\ \A i \in 1 .. Len(q) :
               cut[i] = cut[i - 1] + Len(q[i]) /\ Piece(data, cut[i - 1], q[i])
  BY DEF Pieces
<1>2. Len(q) \in Nat \ {0} /\ Head(q) = q[1] /\ Len(q[1]) \in Nat
  BY DEF Data
<1>3. cut[1] = a + Len(Head(q)) /\ cut[1] \in 0 .. b /\ Piece(data, a, Head(q))
  BY <1>1, <1>2
<1>4. /\ Len(Tail(q)) = Len(q) - 1
      /\ \A i \in 1 .. Len(q) - 1 : Tail(q)[i] = q[i + 1]
  BY HeadTailProperties
<1>. DEFINE next == [i \in 0 .. Len(q) - 1 |-> cut[i + 1]]
<1>5. next \in [0 .. Len(q) - 1 -> 0 .. b] /\ next[0] = cut[1] /\ next[Len(q) - 1] = b
  BY <1>1, <1>2
<1>6. ASSUME NEW i \in 1 .. Len(q) - 1
      PROVE  next[i] = next[i - 1] + Len(Tail(q)[i]) /\ Piece(data, next[i - 1], Tail(q)[i])
  <2>1. i + 1 \in 1 .. Len(q) /\ next[i] = cut[i + 1] /\ next[i - 1] = cut[i]
    BY <1>2
  <2>2. /\ cut[i + 1] = cut[i] + Len(q[i + 1])
        /\ Piece(data, cut[i], q[i + 1])
    <3>1. (i + 1) - 1 = i
      OBVIOUS
    <3>. QED BY <2>1, <1>1, <3>1
  <2>. QED BY <2>1, <2>2, <1>4
<1>. HIDE DEF next
<1>7. Pieces(data, cut[1], b, Tail(q))
  BY <1>4, <1>5, <1>6 DEF Pieces
<1>. QED BY <1>3, <1>7

LEMMA PiecesExtend ==
    ASSUME NEW data \in Data, NEW x \in Nat, NEW a \in Nat, NEW b \in 0 .. Len(data),
           NEW q \in Seq(Data), Pieces(data, a, b, q)
    PROVE  Pieces(Append(data, x), a, b, q)
<1>1. PICK cut \in [0 .. Len(q) -> 0 .. b] :
         /\ cut[0] = a /\ cut[Len(q)] = b
         /\ \A i \in 1 .. Len(q) :
               cut[i] = cut[i - 1] + Len(q[i]) /\ Piece(data, cut[i - 1], q[i])
  BY DEF Pieces
<1>2. ASSUME NEW i \in 1 .. Len(q) PROVE Piece(Append(data, x), cut[i - 1], q[i])
  <2>1. cut[i - 1] \in Nat /\ Len(q[i]) \in Nat /\ cut[i - 1] + Len(q[i]) <= Len(data)
    <3>1. Len(q) \in Nat /\ q[i] \in Seq(Nat) /\ Len(data) \in Nat
      BY DEF Data
    <3>2. i - 1 \in 0 .. Len(q) /\ i \in 0 .. Len(q) /\ Len(q[i]) \in Nat
      BY <3>1
    <3>3. cut[i - 1] \in 0 .. b /\ cut[i] \in 0 .. b
      BY <1>1, <3>2
    <3>4. cut[i] = cut[i - 1] + Len(q[i])
      BY <1>1
    <3>. QED BY <3>1, <3>2, <3>3, <3>4
  <2>2. Piece(data, cut[i - 1], q[i])
    BY <1>1
  <2>3. \A k \in 1 .. Len(data) : Append(data, x)[k] = data[k]
    BY AppendProperties DEF Data
  <2>4. ASSUME NEW j \in 1 .. Len(q[i])
        PROVE  q[i][j] = Append(data, x)[cut[i - 1] + j]
    <3>1. Len(data) \in Nat /\ cut[i - 1] + j \in 1 .. Len(data)
      <4>1. Len(data) \in Nat
        BY LenProperties DEF Data
      <4>. DEFINE l == Len(q[i])
                  c == cut[i - 1]
      <4>2. j \in 1 .. l /\ c \in Nat /\ l \in Nat /\ c + l <= Len(data)
        BY <2>1
      <4>. HIDE DEF l, c
      <4>3. c + j \in 1 .. Len(data)
        BY <4>1, <4>2
      <4>. QED BY <4>1, <4>3 DEF c
    <3>2. q[i][j] = data[cut[i - 1] + j]
      BY <2>2 DEF Piece
    <3>. QED BY <2>3, <3>1, <3>2
  <2>. QED BY <2>4 DEF Piece
<1>. QED BY <1>1, <1>2 DEF Pieces

LEMMA ConcatAppend ==
    ASSUME NEW S, NEW s \in Seq(S), NEW t \in Seq(S), NEW x \in S
    PROVE  s \o Append(t, x) = Append(s \o t, x)
  BY AppendIsConcat, ConcatAssociative, ConcatProperties

LEMMA ConcatHeadTail ==
    ASSUME NEW S, NEW s \in Seq(S), NEW t \in Seq(S), s # <<>>
    PROVE  /\ s \o t \in Seq(S) /\ s \o t # <<>>
           /\ Head(s \o t) = Head(s) /\ Tail(s \o t) = Tail(s) \o t
  OBVIOUS

-----------------------------------------------------------------------------
(* The account of one writer.                                              *)

LEMMA AccountOfNone == ASSUME NEW x PROVE Account(<<>>, <<>>, <<>>, <<>>, FALSE, x)
<1>1. Pieces(<<>>, 0, 0, <<>>)
  BY PiecesOfNone
<1>. QED BY <1>1 DEF Account, Piece

\* The source delivers x while the callback is registered.
LEMMA AccountDelivered ==
    ASSUME NEW f \in Data, NEW o \in Data, NEW q \in Seq(Data), NEW k \in Data,
           NEW x \in Nat, NEW y, Account(f, o, q, k, FALSE, y)
    PROVE  Account(f, Append(o, x), q, k, TRUE, x)
<1>. DEFINE p == Append(o, x)
<1>1. /\ Len(f) \in Nat /\ Len(k) \in Nat /\ Len(o) \in Nat
      /\ Len(p) = Len(o) + 1 /\ p[Len(o) + 1] = x
      /\ \A i \in 1 .. Len(o) : p[i] = o[i]
  BY AppendProperties DEF Data
<1>2. PICK to \in Len(f) .. Len(o) :
         Pieces(o, Len(f), to, q) /\ Piece(o, to, k) /\ to + Len(k) = Len(o)
  BY DEF Account
<1>3. to \in Len(f) .. Len(p) /\ Pieces(p, Len(f), to, q)
  BY <1>1, <1>2, PiecesExtend
<1>. HIDE DEF p
<1>4. Piece(p, to, k) /\ to + Len(k) + 1 = Len(p)
  <2>1. \A i \in 1 .. Len(k) : to + i \in 1 .. Len(o)
    BY <1>1, <1>2
  <2>. QED BY <2>1, <1>1, <1>2 DEF Piece
<1>5. Len(f) <= Len(p) /\ Piece(p, 0, f) /\ p[Len(p)] = x
  BY <1>1 DEF Account, Piece
<1>. QED BY <1>3, <1>4, <1>5 DEF Account, p

\* The callback keeps it.
LEMMA AccountKept ==
    ASSUME NEW f \in Data, NEW o \in Data, NEW q \in Seq(Data), NEW k \in Data,
           NEW x \in Nat, Account(f, o, q, k, TRUE, x)
    PROVE  Account(f, o, q, Append(k, x), FALSE, x)
<1>. DEFINE l == Append(k, x)
<1>1. /\ Len(f) \in Nat /\ Len(k) \in Nat /\ Len(o) \in Nat
      /\ Len(l) = Len(k) + 1 /\ l[Len(k) + 1] = x
      /\ \A i \in 1 .. Len(k) : l[i] = k[i]
  BY AppendProperties DEF Data
<1>2. PICK to \in Len(f) .. Len(o) :
         Pieces(o, Len(f), to, q) /\ Piece(o, to, k) /\ to + Len(k) + 1 = Len(o)
  BY DEF Account
<1>. HIDE DEF l
<1>3. o[Len(o)] = x /\ Len(f) <= Len(o) /\ Piece(o, 0, f)
  BY DEF Account
<1>4. Piece(o, to, l) /\ to + Len(l) = Len(o)
  <2>1. ASSUME NEW i \in 1 .. Len(l) PROVE l[i] = o[to + i]
    <3>1. CASE i \in 1 .. Len(k)
      BY <3>1, <1>1, <1>2 DEF Piece
    <3>2. CASE i = Len(k) + 1
      BY <3>2, <1>1, <1>2, <1>3
    <3>. QED BY <3>1, <3>2, <1>1
  <2>. QED BY <2>1, <1>1, <1>2 DEF Piece
<1>. QED BY <1>2, <1>3, <1>4 DEF Account, l

\* What is kept is given to the thread.
LEMMA AccountQueued ==
    ASSUME NEW f \in Data, NEW o \in Data, NEW q \in Seq(Data), NEW k \in Data,
           NEW x, Account(f, o, q, k, FALSE, x)
    PROVE  Account(f, o, Append(q, k), <<>>, FALSE, x)
<1>1. Len(f) \in Nat /\ Len(k) \in Nat /\ Len(o) \in Nat
  BY DEF Data
<1>2. PICK to \in Len(f) .. Len(o) :
         Pieces(o, Len(f), to, q) /\ Piece(o, to, k) /\ to + Len(k) = Len(o)
  BY DEF Account
<1>3. Pieces(o, Len(f), Len(o), Append(q, k))
  <2>1. Pieces(o, Len(f), to + Len(k), Append(q, k))
    BY <1>1, <1>2, PiecesAppend
  <2>. QED BY <2>1, <1>2
<1>4. Piece(o, Len(o), <<>>) /\ Len(o) \in Len(f) .. Len(o)
  BY <1>1 DEF Account, Piece
<1>. QED BY <1>1, <1>3, <1>4 DEF Account

\* The thread writes the first of its tasks.
LEMMA AccountWritten ==
    ASSUME NEW f \in Data, NEW o \in Data, NEW q \in Seq(Data), NEW k \in Data,
           NEW due \in BOOLEAN, NEW x, q # <<>>, Account(f, o, q, k, due, x)
    PROVE  Account(f \o Head(q), o, Tail(q), k, due, x)
<1>. DEFINE g == f \o Head(q)
<1>1. Head(q) \in Data /\ Len(f) \in Nat /\ Len(Head(q)) \in Nat /\ Len(o) \in Nat
  BY DEF Data
<1>2. /\ Len(g) = Len(f) + Len(Head(q))
      /\ \A i \in 1 .. Len(f) + Len(Head(q)) :
            g[i] = IF i <= Len(f) THEN f[i] ELSE Head(q)[i - Len(f)]
  BY <1>1, ConcatProperties DEF Data
<1>3. PICK to \in Len(f) .. Len(o) :
         /\ Pieces(o, Len(f), to, q) /\ Piece(o, to, k)
         /\ to + Len(k) + (IF due THEN 1 ELSE 0) = Len(o)
  BY DEF Account
<1>4. /\ Piece(o, Len(f), Head(q)) /\ Len(f) + Len(Head(q)) <= to
      /\ Pieces(o, Len(f) + Len(Head(q)), to, Tail(q))
  BY <1>1, <1>3, PiecesTail
<1>. HIDE DEF g
<1>5. Piece(o, 0, g) /\ Len(g) <= Len(o)
  <2>1. ASSUME NEW i \in 1 .. Len(g) PROVE g[i] = o[i]
    <3>1. CASE i <= Len(f)
      BY <3>1, <1>1, <1>2 DEF Account, Piece
    <3>2. CASE i > Len(f)
      <4>1. PICK j \in 1 .. Len(Head(q)) : i - Len(f) = j /\ Len(f) + j = i
        <5>1. i - Len(f) \in 1 .. Len(Head(q)) /\ Len(f) + (i - Len(f)) = i
          BY <3>2, <1>1, <1>2
        <5>. QED BY <5>1
      <4>2. Head(q)[j] = o[Len(f) + j]
        BY <4>1, <1>4 DEF Piece
      <4>3. g[i] = Head(q)[i - Len(f)]
        BY <3>2, <1>1, <1>2
      <4>. QED BY <4>1, <4>2, <4>3
    <3>. QED BY <3>1, <3>2, <1>1
  <2>. QED BY <2>1, <1>1, <1>2, <1>3, <1>4 DEF Piece
<1>6. to \in Len(g) .. Len(o) /\ Pieces(o, Len(g), to, Tail(q))
  BY <1>1, <1>2, <1>3, <1>4
<1>. QED BY <1>3, <1>5, <1>6 DEF Account, g

LEMMA AccountComplete ==
    ASSUME NEW f \in Data, NEW o \in Data, NEW x, Account(f, o, <<>>, <<>>, FALSE, x)
    PROVE  f = o
<1>1. Len(f) \in Nat /\ Len(o) \in Nat
  BY DEF Data
<1>2. PICK to \in Len(f) .. Len(o) : Pieces(o, Len(f), to, <<>>) /\ to = Len(o)
  BY <1>1 DEF Account
<1>3. Len(f) = Len(o)
  BY <1>1, <1>2, PiecesOfNone
<1>4. \A i \in 1 .. Len(f) : f[i] = o[i]
  BY <1>1 DEF Account, Piece
<1>. QED BY <1>3, <1>4, SeqEqual DEF Data

-----------------------------------------------------------------------------
(* The invariant is inductive.                                             *)

LEMMA RecordingInit == ReadInit => RecordingInv
<1>. SUFFICES ASSUME ReadInit PROVE RecordingInv
  OBVIOUS
<1>. USE DEF ReadInit, RecInit
<1>1. RecordingTypes
  <2>1. <<>> \in Data /\ <<>> \in Seq(Data)
    BY DEF Data
  <2>. QED BY <2>1 DEF RecordingTypes
<1>2. Callers /\ Holders /\ Workers
  BY DEF Callers, Holders, Workers
<1>3. ASSUME NEW w \in Writers PROVE Accounted(w)
  <2>1. /\ file[w] = <<>> /\ owed[w] = <<>> /\ buf[w] = <<>> /\ Kept(w) = <<>>
        /\ batch[w] \o tasks[w] = <<>> /\ (w \in calls) = FALSE
    BY DEF Kept
  <2>2. Account(<<>>, <<>>, <<>>, <<>>, FALSE, fed)
    BY AccountOfNone
  <2>. QED BY <2>1, <2>2 DEF Accounted
<1>. QED BY <1>1, <1>2, <1>3 DEF RecordingInv

\* The reader and the rest of the camera do not touch a recording.
LEMMA RecordingMoves ==
    ASSUME [ReadNext]_<<allVars, readVars>>
    PROVE  \/ UNCHANGED recVars
           \/ CameraStep(Next)
           \/ StartRecording \/ AddCallback \/ StopRecording \/ DestroyCamera
           \/ AddRawData \/ \E t \in RunThreads : GetCbs(t) \/ Processed(t)
           \/ \E w \in Writers : WriterStep(w)
<1>1. CASE SeekCall \/ SeekLocked
  BY <1>1 DEF SeekCall, SeekLocked, allVars
<1>2. ASSUME NEW t \in RunThreads, Read(t) PROVE UNCHANGED recVars
  BY <1>2 DEF Read, ReadEnter, ReadBuffer, ReadNothing, ReadDecode, CameraUnchanged
<1>3. CASE RecNext
  BY <1>3 DEF RecNext, Destroyed, allVars
<1>4. CASE UNCHANGED <<allVars, readVars>>
  BY <1>4 DEF allVars
<1>. QED BY <1>1, <1>2, <1>3, <1>4 DEF ReadNext

LEMMA RecordingTypesKept ==
    RecordingTypes /\ Holders /\ [ReadNext]_<<allVars, readVars>> => RecordingTypes'
<1>. SUFFICES ASSUME RecordingTypes, Holders, [ReadNext]_<<allVars, readVars>>
     PROVE  RecordingTypes'
  OBVIOUS
<1>. USE DEF RecordingTypes, recVars, cbVars, callVars, writerVars
<1>0. <<>> \in Data /\ <<>> \in Seq(Data)
  BY DEF Data
<1>1. CASE UNCHANGED recVars
  BY <1>1
<1>2. CASE CameraStep(Next)
  BY <1>2 DEF CameraStep
<1>3. CASE StartRecording \/ StopRecording
  BY ZenonT(30), <1>3 DEF StartRecording, StopRecording, RemoveCallbacks
<1>4. CASE DestroyCamera
  BY <1>4 DEF DestroyCamera
<1>5. CASE AddCallback
  <2>1. (CHOOSE x \in Writers : phase[x] = "none") \in Writers
    BY <1>5 DEF AddCallback, Holders
  <2>. QED BY <1>5, <2>1 DEF AddCallback, OpenWriter, Register
<1>6. ASSUME NEW t \in RunThreads, GetCbs(t) PROVE RecordingTypes'
  <2>1. \A w \in Writers : Append(owed[w], fed + 1) \in Data
    BY AppendProperties DEF Data
  <2>2. owed' \in [Writers -> Data]
    BY <1>6, <2>1 DEF GetCbs
  <2>3. drops' \in [user : SUBSET Writers, run : SUBSET Writers]
    <3>1. \E dropped \in SUBSET Writers : drops' = [drops EXCEPT !.run = dropped]
      BY <1>6 DEF GetCbs
    <3>. QED BY <3>1
  <2>4. vec' \subseteq Writers /\ calls' \subseteq Writers
    BY <1>6 DEF GetCbs
  <2>5. fed' = fed + 1 /\ dirty' = FALSE /\ calling' = TRUE /\ UNCHANGED <<cbs, writerVars>>
    BY <1>6 DEF GetCbs
  <2>6. fed' \in Nat
    BY <2>5
  <2>7. UNCHANGED <<phase, worker, buf, tasks, batch, file, cbs>>
    BY <2>5
  <2>. QED BY <2>2, <2>3, <2>4, <2>5, <2>6, <2>7
<1>7. CASE AddRawData
  <2>1. PICK w \in calls :
           LET all == Append(buf[w], fed) IN
           /\ calls' = calls \ {w}
           /\ \/ tasks' = [tasks EXCEPT ![w] = Append(@, all)] /\ buf' = [buf EXCEPT ![w] = <<>>]
              \/ buf' = [buf EXCEPT ![w] = all] /\ UNCHANGED tasks
    BY <1>7 DEF AddRawData
  <2>2. Append(buf[w], fed) \in Data
    BY DEF Data
  <2>3. Append(tasks[w], Append(buf[w], fed)) \in Seq(Data)
    BY <2>2
  <2>4. buf' \in [Writers -> Data] /\ tasks' \in [Writers -> Seq(Data)]
    <3>1. CASE UNCHANGED tasks /\ buf' = [buf EXCEPT ![w] = Append(buf[w], fed)]
      BY <2>2, <3>1
    <3>2. CASE /\ tasks' = [tasks EXCEPT ![w] = Append(@, Append(buf[w], fed))]
               /\ buf' = [buf EXCEPT ![w] = <<>>]
      <4>1. buf' \in [Writers -> Data]
        BY <1>0, <3>2
      <4>2. tasks' \in [Writers -> Seq(Data)]
        BY <2>3, <3>2
      <4>. QED BY <4>1, <4>2
    <3>. QED BY <2>1, <3>1, <3>2
  <2>. QED BY <1>7, <2>1, <2>4 DEF AddRawData
<1>8. ASSUME NEW t \in RunThreads, Processed(t) PROVE RecordingTypes'
  BY <1>8 DEF Processed
<1>9. ASSUME NEW w \in Writers, WriterStep(w) PROVE RecordingTypes'
  <2>1. CASE CloseFlush(w)
    <3>1. Append(tasks[w], buf[w]) \in Seq(Data)
      OBVIOUS
    <3>2. tasks' \in [Writers -> Seq(Data)]
      BY ZenonT(30), <2>1, <3>1 DEF CloseFlush
    <3>3. phase' \in [Writers -> {"none", "open", "flush", "stop", "closed"}]
      BY ZenonT(30), <2>1 DEF CloseFlush
    <3>. QED BY <2>1, <3>2, <3>3 DEF CloseFlush
  <2>2. CASE CloseFlushed(w) \/ EndTasks(w)
    <3>1. /\ phase' \in [Writers -> {"none", "open", "flush", "stop", "closed"}]
          /\ worker' \in [Writers -> {"none", "active", "over"}]
      BY <2>2 DEF CloseFlushed, EndTasks
    <3>2. buf' \in [Writers -> Data]
      BY <1>0, <2>2 DEF CloseFlushed, EndTasks
    <3>. QED BY <2>2, <3>1, <3>2 DEF CloseFlushed, EndTasks
  <2>3. CASE CloseJoin(w)
    BY <2>3 DEF CloseJoin
  <2>4. CASE TakeTasks(w)
    BY <1>0, <2>4 DEF TakeTasks
  <2>5. CASE RunTask(w)
    BY <2>5 DEF RunTask, Data
  <2>. QED BY <1>9, <2>1, <2>2, <2>3, <2>4, <2>5 DEF WriterStep
<1>. QED BY <1>1, <1>2, <1>3, <1>4, <1>5, <1>6, <1>7, <1>8, <1>9, RecordingMoves

LEMMA CallersKept ==
    RecordingTypes /\ CameraInv /\ Callers /\ [ReadNext]_<<allVars, readVars>> => Callers'
<1>. SUFFICES ASSUME RecordingTypes, CameraInv, Callers, [ReadNext]_<<allVars, readVars>>
     PROVE  Callers'
  OBVIOUS
<1>. USE DEF Callers, RecordingTypes, recVars, cbVars, callVars, writerVars
<1>1. setting' = setting /\ (setting \in Recorded => ~setting.stopFails /\ ~setting.plays)
  BY SettingIsRigid, RecordingAssumption
<1>2. CASE UNCHANGED <<allVars, readVars>> \/ SeekCall \/ SeekLocked
  BY <1>2 DEF SeekCall, SeekLocked, allVars, vars, readVars, Plays, Records
<1>3. ASSUME NEW t \in RunThreads, Read(t) PROVE Callers'
  <2>. USE DEF CameraUnchanged
  <2>1. CASE ReadEnter(t) \/ ReadBuffer(t)
    BY <1>1, <2>1 DEF ReadEnter, ReadBuffer, Plays, Records
  <2>2. CASE ReadNothing(t) \/ ReadDecode(t)
    <3>1. mutex # None
      BY <2>2, CameraAssumption DEF ReadNothing, ReadDecode
    <3>2. ~calling
      BY <3>1, <1>1 DEF Plays, Records
    <3>. QED BY <2>2, <3>2 DEF ReadNothing, ReadDecode
  <2>. QED BY <1>3, <2>1, <2>2 DEF Read
<1>4. CASE RecNext /\ UNCHANGED readVars
  <2>. USE <1>4 DEF readVars, vars, Plays, Records
  <2>1. CASE CameraStep(Next)
    BY <1>1, <2>1 DEF CameraStep
  <2>2. CASE StartRecording \/ StopRecording
    <3>1. drops'.run = drops.run /\ UNCHANGED <<vars, vec, calling, calls>>
      BY <2>2 DEF StartRecording, StopRecording, RemoveCallbacks
    <3>. QED BY <3>1
  <2>3. CASE DestroyCamera
    <3>1. ~calling
      BY <1>1, <2>3, CameraAssumption DEF DestroyCamera, CameraInv, RunningIsTrue
    <3>. QED BY <2>3, <3>1 DEF DestroyCamera
  <2>4. ASSUME NEW t \in RunThreads, GetCbs(t) PROVE Callers'
    BY <2>4 DEF GetCbs
  <2>5. CASE AddRawData
    BY <2>5 DEF AddRawData
  <2>6. ASSUME NEW t \in RunThreads, Processed(t) PROVE Callers'
    BY <1>1, <2>6 DEF Processed
  <2>7. ASSUME NEW w \in Writers, WriterStep(w) PROVE Callers'
    BY <2>7 DEF WriterStep, CloseFlush, CloseFlushed, CloseJoin, TakeTasks, RunTask, EndTasks
  <2>8. CASE AddCallback \/ Destroyed
    BY <2>8 DEF AddCallback, Destroyed, allVars
  <2>. QED BY <2>1, <2>2, <2>3, <2>4, <2>5, <2>6, <2>7, <2>8 DEF RecNext
<1>. QED BY <1>2, <1>3, <1>4 DEF ReadNext

LEMMA HoldersKept ==
    RecordingTypes /\ Callers /\ Holders /\ Workers /\ [ReadNext]_<<allVars, readVars>>
        => Holders'
<1>. SUFFICES ASSUME RecordingTypes, Callers, Holders, Workers,
                     [ReadNext]_<<allVars, readVars>>
     PROVE  Holders'
  OBVIOUS
<1>. USE DEF Holders, RecordingTypes, recVars, cbVars, callVars, writerVars
<1>1. CASE UNCHANGED recVars
  BY <1>1
<1>2. CASE CameraStep(Next)
  BY <1>2 DEF CameraStep
<1>3. CASE StartRecording \/ StopRecording
  <2>1. /\ drops'.user = (cbs \cap known) \ vec /\ drops'.run = {}
        /\ cbs' = cbs \ known /\ (~dirty' => cbs' = cbs /\ ~dirty) /\ UNCHANGED <<vec, phase>>
    BY <1>3 DEF StartRecording, StopRecording, RemoveCallbacks, UserFree, CbsFree
  <2>2. recUser' = "start" => \E w \in Writers : phase[w] = "none"
    BY <1>3 DEF StartRecording, StopRecording
  <2>. QED BY <2>1, <2>2
<1>4. CASE DestroyCamera
  BY <1>4 DEF DestroyCamera, UserFree, CbsFree
<1>5. CASE AddCallback
  BY <1>5 DEF AddCallback, OpenWriter, Register, CbsFree
<1>6. ASSUME NEW t \in RunThreads, GetCbs(t) PROVE Holders'
  BY <1>6 DEF GetCbs, CbsFree, Callers
<1>7. CASE AddRawData
  BY <1>7 DEF AddRawData
<1>8. ASSUME NEW t \in RunThreads, Processed(t) PROVE Holders'
  BY <1>8 DEF Processed
<1>9. ASSUME NEW w \in Writers, WriterStep(w) PROVE Holders'
  <2>1. CASE CloseFlush(w)
    BY ZenonT(30), <2>1 DEF CloseFlush
  <2>2. CASE CloseFlushed(w)
    BY <2>2 DEF CloseFlushed
  <2>3. CASE CloseJoin(w)
    BY <2>3 DEF CloseJoin
  <2>4. CASE TakeTasks(w) \/ RunTask(w) \/ EndTasks(w)
    BY <2>4 DEF TakeTasks, RunTask, EndTasks
  <2>. QED BY <1>9, <2>1, <2>2, <2>3, <2>4 DEF WriterStep
<1>. QED BY <1>1, <1>2, <1>3, <1>4, <1>5, <1>6, <1>7, <1>8, <1>9, RecordingMoves

LEMMA WorkersKept ==
    RecordingTypes /\ Callers /\ Holders /\ Workers /\ [ReadNext]_<<allVars, readVars>>
        => Workers'
<1>. SUFFICES ASSUME RecordingTypes, Callers, Holders, Workers,
                     [ReadNext]_<<allVars, readVars>>
     PROVE  Workers'
  OBVIOUS
<1>. USE DEF Workers, RecordingTypes, recVars, cbVars, callVars, writerVars
<1>1. CASE \/ UNCHANGED recVars \/ CameraStep(Next)
           \/ StartRecording \/ StopRecording \/ DestroyCamera
           \/ \E t \in RunThreads : Processed(t)
  BY <1>1 DEF CameraStep, StartRecording, StopRecording, DestroyCamera, Processed
<1>2. CASE AddCallback
  <2>1. PICK w \in Writers :
           phase[w] = "none" /\ OpenWriter(w) /\ UNCHANGED <<buf, tasks, batch, file, owed>>
    BY <1>2 DEF AddCallback, Holders
  <2>. QED BY <2>1 DEF OpenWriter
<1>3. ASSUME NEW t \in RunThreads, GetCbs(t) PROVE Workers'
  BY <1>3 DEF GetCbs, Holders
<1>4. CASE AddRawData
  BY <1>4 DEF AddRawData, Callers, Holders
<1>5. ASSUME NEW w \in Writers, WriterStep(w) PROVE Workers'
  <2>1. CASE CloseFlush(w)
    BY <2>1 DEF CloseFlush
  <2>2. CASE CloseFlushed(w)
    BY <2>2 DEF CloseFlushed
  <2>3. CASE CloseJoin(w)
    BY <2>3 DEF CloseJoin
  <2>4. CASE TakeTasks(w)
    BY <2>4 DEF TakeTasks
  <2>5. CASE RunTask(w)
    BY <2>5 DEF RunTask
  <2>6. CASE EndTasks(w)
    BY <2>6 DEF EndTasks
  <2>. QED BY <1>5, <2>1, <2>2, <2>3, <2>4, <2>5, <2>6 DEF WriterStep
<1>. QED BY <1>1, <1>2, <1>3, <1>4, <1>5, RecordingMoves


LEMMA AccountedKept ==
    ASSUME RecordingTypes, Callers, Holders, Workers, [ReadNext]_<<allVars, readVars>>,
           NEW w \in Writers, Accounted(w)
    PROVE  Accounted(w)'
<1>. USE DEF RecordingTypes, recVars, cbVars, callVars, writerVars, Accounted
<1>. DEFINE queue == batch[w] \o tasks[w]
<1>1. CASE /\ UNCHANGED <<file, owed, phase, buf, batch, tasks>>
           /\ w \in calls' <=> w \in calls
           /\ fed' = fed
  BY <1>1 DEF Kept
<1>2. CASE UNCHANGED recVars \/ CameraStep(Next)
           \/ StartRecording \/ StopRecording \/ DestroyCamera
           \/ \E t \in RunThreads : Processed(t)
  BY <1>1, <1>2 DEF CameraStep, StartRecording, StopRecording, DestroyCamera, Processed
<1>3. CASE AddCallback
  <2>1. PICK v \in Writers : phase[v] = "none" /\ OpenWriter(v)
           /\ UNCHANGED <<file, owed, buf, batch, tasks, calls, fed>>
    BY <1>3 DEF AddCallback, Holders
  <2>2. Kept(w)' = Kept(w)
    BY <2>1 DEF OpenWriter, Kept
  <2>. QED BY <2>1, <2>2
<1>4. ASSUME NEW t \in RunThreads, GetCbs(t) PROVE Accounted(w)'
  <2>1. /\ UNCHANGED <<file, phase, buf, batch, tasks>> /\ fed' = fed + 1
        /\ calls = {} /\ (w \in calls' <=> w \in cbs)
        /\ owed'[w] = IF w \in cbs THEN Append(owed[w], fed + 1) ELSE owed[w]
    BY <1>4 DEF GetCbs, Callers, Holders
  <2>2. (w \in calls) = FALSE /\ queue \in Seq(Data) /\ Kept(w) \in Data /\ Kept(w)' = Kept(w)
    BY <2>1 DEF Kept, Data
  <2>3. CASE w \in cbs
    <3>1. Account(file[w], Append(owed[w], fed + 1), queue, Kept(w), TRUE, fed + 1)
      <4>1. Account(file[w], owed[w], queue, Kept(w), FALSE, fed)
        BY <2>2, Zenon
      <4>3. fed + 1 \in Nat
        OBVIOUS
      <4>2. file[w] \in Data /\ owed[w] \in Data
        OBVIOUS
      <4>. QED BY <2>2, <4>1, <4>2, <4>3, AccountDelivered, Zenon
    <3>2. (w \in calls') = TRUE /\ owed'[w] = Append(owed[w], fed + 1)
      BY <2>1, <2>3
    <3>. QED BY <2>1, <2>2, <3>1, <3>2
  <2>4. CASE w \notin cbs
    <3>1. (w \in calls') = FALSE /\ owed'[w] = owed[w]
      BY <2>1, <2>4
    <3>2. Account(file[w], owed[w], queue, Kept(w), FALSE, fed + 1)
      BY <2>2 DEF Account
    <3>. QED BY <2>1, <2>2, <3>1, <3>2
  <2>. QED BY <2>3, <2>4
<1>5. CASE AddRawData
  <2>1. PICK v \in calls :
           LET all == Append(buf[v], fed) IN
           /\ calls' = calls \ {v}
           /\ \/ tasks' = [tasks EXCEPT ![v] = Append(@, all)] /\ buf' = [buf EXCEPT ![v] = <<>>]
              \/ buf' = [buf EXCEPT ![v] = all] /\ UNCHANGED tasks
    BY <1>5 DEF AddRawData
  <2>2. UNCHANGED <<file, owed, phase, batch, fed>> /\ phase[v] = "open" /\ v \in Writers
    BY <1>5 DEF AddRawData, Callers, Holders
  <2>3. CASE v # w
    <3>1. buf'[w] = buf[w] /\ tasks'[w] = tasks[w] /\ (w \in calls' <=> w \in calls)
      BY <2>1, <2>3
    <3>. QED BY <2>2, <3>1 DEF Kept
  <2>4. CASE v = w
    <3>1. Account(file[w], owed[w], queue, Append(buf[w], fed), FALSE, fed)
      <4>1. Kept(w) = buf[w] /\ (w \in calls) = TRUE /\ queue \in Seq(Data)
        BY <2>2, <2>4 DEF Kept, Data
      <4>. QED BY <4>1, AccountKept
    <3>2. (w \in calls') = FALSE /\ Kept(w)' = buf'[w]
      BY <2>1, <2>2, <2>4 DEF Kept
    <3>3. CASE buf' = [buf EXCEPT ![v] = Append(buf[v], fed)] /\ UNCHANGED tasks
      BY <2>2, <2>4, <3>1, <3>2, <3>3
    <3>4. CASE /\ tasks' = [tasks EXCEPT ![v] = Append(@, Append(buf[v], fed))]
               /\ buf' = [buf EXCEPT ![v] = <<>>]
      <4>1. Append(buf[w], fed) \in Data /\ queue \in Seq(Data)
        BY DEF Data
      <4>2. Account(file[w], owed[w], Append(queue, Append(buf[w], fed)), <<>>, FALSE, fed)
        BY <3>1, <4>1, AccountQueued
      <4>3. (batch[w] \o tasks[w])' = Append(queue, Append(buf[w], fed))
        BY SMTT(30), <2>2, <2>4, <3>4, <4>1, ConcatAppend
      <4>4. buf'[w] = <<>>
        BY <2>4, <3>4
      <4>. QED BY <2>2, <3>2, <4>2, <4>3, <4>4
    <3>. QED BY <2>1, <3>3, <3>4
  <2>. QED BY <2>3, <2>4
<1>6. ASSUME NEW v \in Writers, v # w, WriterStep(v) PROVE Accounted(w)'
  BY <1>6 DEF WriterStep, CloseFlush, CloseFlushed, CloseJoin, TakeTasks, RunTask, EndTasks,
     Kept
<1>7. CASE WriterStep(w)
  <2>1. CASE CloseFlush(w)
    <3>1. /\ phase[w] = "open" /\ Kept(w) = buf[w] /\ (w \in calls) = FALSE
          /\ UNCHANGED <<file, owed, buf, batch, calls, fed>>
      BY <2>1 DEF CloseFlush, Kept, Callers, Holders
    <3>2. CASE buf[w] = <<>>
      <4>1. UNCHANGED tasks /\ Kept(w)' = Kept(w)
        BY <2>1, <3>1, <3>2 DEF CloseFlush, Kept
      <4>. QED BY <3>1, <4>1
    <3>3. CASE buf[w] # <<>>
      <4>1. tasks'[w] = Append(tasks[w], buf[w]) /\ Kept(w)' = <<>>
        BY <2>1, <3>3 DEF CloseFlush, Kept
      <4>2. queue \in Seq(Data) /\ (batch[w] \o tasks[w])' = Append(queue, buf[w])
        BY SMTT(30), <3>1, <4>1, ConcatAppend DEF Data
      <4>3. Account(file[w], owed[w], Append(queue, buf[w]), <<>>, FALSE, fed)
        <5>1. Account(file[w], owed[w], queue, buf[w], FALSE, fed)
          BY <3>1
        <5>2. file[w] \in Data /\ owed[w] \in Data /\ buf[w] \in Data
          OBVIOUS
        <5>. QED BY <4>2, <5>1, <5>2, AccountQueued
      <4>. QED BY <3>1, <4>1, <4>2, <4>3
    <3>. QED BY <3>2, <3>3
  <2>2. CASE CloseFlushed(w)
    <3>1. Kept(w)' = Kept(w)
      BY <2>2 DEF CloseFlushed, Kept
    <3>. QED BY <2>2, <3>1 DEF CloseFlushed
  <2>3. CASE CloseJoin(w) \/ EndTasks(w)
    <3>1. Kept(w)' = Kept(w)
      BY <2>3 DEF CloseJoin, EndTasks, Kept
    <3>. QED BY <2>3, <3>1 DEF CloseJoin, EndTasks
  <2>4. CASE TakeTasks(w)
    <3>1. (batch[w] \o tasks[w])' = queue
      BY <2>4, ConcatEmptySeq DEF TakeTasks
    <3>2. Kept(w)' = Kept(w)
      BY <2>4 DEF TakeTasks, Kept
    <3>. QED BY <2>4, <3>1, <3>2 DEF TakeTasks
  <2>5. CASE RunTask(w)
    <3>1. /\ batch[w] # <<>> /\ file'[w] = file[w] \o Head(batch[w])
          /\ batch'[w] = Tail(batch[w])
          /\ UNCHANGED <<owed, phase, buf, tasks, calls, fed>>
      BY <2>5 DEF RunTask
    <3>2. /\ queue \in Seq(Data) /\ queue # <<>> /\ Head(queue) = Head(batch[w])
          /\ Tail(queue) = Tail(batch[w]) \o tasks[w]
      BY <3>1, ConcatHeadTail
    <3>3. Kept(w)' = Kept(w) /\ Kept(w) \in Data
      BY <3>1 DEF Kept, Data
    <3>4. Account(file[w] \o Head(queue), owed[w], Tail(queue), Kept(w), w \in calls, fed)
      <4>. DEFINE due == w \in calls
      <4>1. file[w] \in Data /\ owed[w] \in Data /\ due \in BOOLEAN
        OBVIOUS
      <4>2. Account(file[w], owed[w], queue, Kept(w), due, fed)
        BY Zenon
      <4>. HIDE DEF due, queue, Accounted
      <4>3. Account(file[w] \o Head(queue), owed[w], Tail(queue), Kept(w), due, fed)
        BY <3>2, <3>3, <4>1, <4>2, AccountWritten
      <4>. QED BY <4>3 DEF due
    <3>. QED BY <3>1, <3>2, <3>3, <3>4
  <2>. QED BY <1>7, <2>1, <2>2, <2>3, <2>4, <2>5 DEF WriterStep
<1>. QED BY <1>2, <1>3, <1>4, <1>5, <1>6, <1>7, RecordingMoves

\* A recording that is closed holds every buffer delivered while it was
\* registered, once and in their order, for any number of recordings and any
\* timing of the run thread and of the threads of the writers: what the comment
\* on the stop_recording() of Camera::stop() asks for.
THEOREM ClosedIsComplete == ReadSpec => []RecordingIsComplete
<1>1. CameraInv /\ RecordingInv /\ [ReadNext]_<<allVars, readVars>> => RecordingInv'
  BY RecordingTypesKept, CallersKept, HoldersKept, WorkersKept, AccountedKept
     DEF RecordingInv
<1>2. RecordingInv => RecordingIsComplete
  <2>. SUFFICES ASSUME RecordingInv, NEW w \in Writers, phase[w] = "closed"
       PROVE  file[w] = owed[w]
    BY DEF RecordingIsComplete
  <2>1. /\ Kept(w) = <<>> /\ batch[w] = <<>> /\ tasks[w] = <<>> /\ (w \in calls) = FALSE
        /\ file[w] \in Data /\ owed[w] \in Data
    BY DEF RecordingInv, RecordingTypes, Callers, Holders, Workers, Kept
  <2>2. Account(file[w], owed[w], <<>>, <<>>, FALSE, fed)
    <3>1. batch[w] \o tasks[w] = <<>>
      BY <2>1
    <3>2. Accounted(w)
      BY DEF RecordingInv
    <3>. QED BY <2>1, <3>1, <3>2, Zenon DEF Accounted
  <2>. QED BY <2>1, <2>2, AccountComplete
<1>. QED BY CameraInvariant, RecordingInit, <1>1, <1>2, PTL DEF ReadSpec
=============================================================================
