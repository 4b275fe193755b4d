----------------------------- MODULE Evt3Decoder -----------------------------
(***************************************************************************)
(* The EVT3 decoder with its default validator (hal/cpp/include/           *)
(* metavision/hal/decoders/evt3/evt3_decoder.h and evt3_validator.h) behind*)
(* I_EventsStreamDecoder::decode (i_events_stream_decoder.cpp), which is   *)
(* given the bytes of a recording in buffers of any size, and is moved in  *)
(* it by the seeks of the reader.                                          *)
(*                                                                         *)
(* A word is a type and its content.  A vector word has one pixel, so that *)
(* a VECT_12, VECT_12, VECT_8 group has 3 in place of 32; polarities are   *)
(* part of a column.  The recording is what a sensor sends: every word     *)
(* carries the events that it completes, which the decoder does not see.   *)
(***************************************************************************)
EXTENDS Evt3Clock, Sequences, SequencesExt, FiniteSets

CONSTANTS Height, Width,  \* of the sensor, in pixels
          Epsilon,        \* LOOSE_TIME_HIGH_OVERFLOW_EPSILON
          Blacklist,      \* monitoring_id_blacklist_
          Starts, Jumps,  \* when a recording starts, and the steps of its time
          Masters,        \* the monitoring events of the sensor
          SeekTimes,      \* the times, without the shift, of the bookmarks used
          Buffers,        \* the sizes of buffers, in bytes; the last one is shorter
          MaxItems        \* bound on the number of items in a recording

ASSUME DecoderAssumption ==
    /\ Height \in Nat /\ Width \in Nat /\ Epsilon \in 0..HighN
    /\ Starts \subseteq Nat /\ SeekTimes \subseteq Nat
    /\ Buffers \subseteq Nat \ {0}
    /\ \A j \in Jumps : j \in 1..((HighN \div 2) * LowN)

VARIABLES
    sensor,   \* its time, row and next column of a vector, and what it has sent
    tape,     \* the recording
    shifting, \* is_time_shifting_enabled_
    d,        \* the decoder
    pos,      \* words of the recording that the decoder has been given
    half,     \* incomplete_raw_data_: the first byte of the next word
    from,     \* history: where the last seek went, 0 if there was none
    out       \* history: the events forwarded by the last call of decode

vars == <<sensor, tape, shifting, d, pos, half, from, out>>

None == -1

Init ==
    /\ \E t \in Starts :
          sensor = [now |-> t, row |-> None, column |-> None, items |-> 0]
    /\ tape = <<>> /\ shifting \in BOOLEAN
    /\ d = [clock |-> [loop |-> 0, high |-> 0, low |-> 0], base |-> FALSE, set |-> FALSE,
            shift |-> None, row |-> None, column |-> 0, vect |-> FALSE,
            incomplete |-> <<>>, missing |-> 0, alarm |-> FALSE]
    /\ pos = 0 /\ half = FALSE /\ from = 0 /\ out = <<>>

-----------------------------------------------------------------------------
(* The sensor, which sends its items before the recording is read.         *)

W(type, v) == [type |-> type, v |-> v]
Event(kind, at, t) == [kind |-> kind, at |-> at, t |-> t]

\* The events belong to the last word of the item.
Send(words, events, update) ==
    /\ pos = 0 /\ ~half /\ from = 0 /\ sensor.items < MaxItems
    /\ sensor' = [update EXCEPT !.items = @ + 1]
    /\ tape' = tape \o [i \in DOMAIN words |->
                          [type |-> words[i].type, v |-> words[i].v, clock |-> sensor'.now,
                           events |-> IF i = Len(words) THEN events ELSE <<>>]]
    /\ UNCHANGED <<shifting, d, pos, half, from, out>>

\* The high part of the time is sent when it changes, and may be at any time.
Tick(jump, again) ==
    LET now == sensor.now + jump
        high == W("time_high", (now \div LowN) % HighN)
        low == W("time_low", now % LowN)
    IN Send(IF again \/ now \div LowN # sensor.now \div LowN THEN <<high, low>> ELSE <<low>>,
            <<>>, [sensor EXCEPT !.now = now])

\* A row at Height is outside of the sensor: its events are to be dropped.
Row(y) == Send(<<W("addr_y", y)>>, <<>>, [sensor EXCEPT !.row = y, !.column = None])

Seen(columns) ==
    IF sensor.row < Height
    THEN [i \in DOMAIN columns |-> Event("cd", <<columns[i], sensor.row>>, sensor.now)]
    ELSE <<>>

Pixel(x) ==
    sensor.row # None /\ Send(<<W("addr_x", x)>>, Seen(<<x>>), sensor)

\* A vector goes on from the one before, or from a base of its own.
Vector(x, mask) ==
    /\ sensor.row # None /\ x + 3 <= Width
    /\ LET group == <<W("vect_12", mask[1]), W("vect_12", mask[2]), W("vect_8", mask[3])>>
           seen == Seen(SelectSeq(<<x, x + 1, x + 2>>, LAMBDA c : mask[c - x + 1] = 1))
       IN Send(IF x = sensor.column THEN group ELSE <<W("base_x", x)>> \o group,
               seen, [sensor EXCEPT !.column = x + 3])

Trigger == Send(<<W("trigger", 1)>>, <<Event("trigger", <<1>>, sensor.now)>>, sensor)

\* A monitoring event and its payload.
Monitor(master) ==
    Send(<<W("others", master), W("cont_12", 1), W("cont_12", 0), W("cont_4", 1)>>,
         IF master \in Blacklist THEN <<>>
         ELSE <<Event("monitor", <<master, <<1, 0, 1>> >>, sensor.now)>>, sensor)

-----------------------------------------------------------------------------
(* The decoder: decode_events_buffer one event at a time.  A step is the   *)
(* decoder after it, the events it forwards and the words it has used.     *)

Step(dec, events, used) == [dec |-> dec, events |-> events, used |-> used]

\* last_timestamp<DO_TIMESHIFT>, and get_last_timestamp
EventTime(dec) == Stamp(dec.clock) - (IF shifting THEN dec.shift ELSE 0)
LastTimestamp(dec) == IF dec.set THEN EventTime(dec) ELSE -1

\* is_valid
IsValid(dec) == dec.row \in 0..(Height - 1)

AddrX(dec, w) ==
    Step(dec, IF IsValid(dec) THEN <<Event("cd", <<w[1].v, dec.row>>, EventTime(dec))>>
              ELSE <<>>, 1)

\* validate_vect_12_12_8_pattern: a group without a base, or that ends outside
\* of the sensor, is dropped.
Vect(dec, w) ==
    LET x == dec.column
        bits == SelectSeq(<<1, 2, 3>>, LAMBDA i : w[i].v = 1)
        next == [dec EXCEPT !.column = x + 3]
    IN IF ~IsValid(dec) THEN Step(dec, <<>>, 3)
       ELSE IF dec.vect /\ x + 3 <= Width
       THEN Step(next, [i \in DOMAIN bits |->
                  Event("cd", <<x + bits[i] - 1, dec.row>>, EventTime(dec))], 3)
       ELSE Step([next EXCEPT !.vect = FALSE, !.alarm = TRUE], <<>>, 3)

\* Slip: a loop of the time is taken for a violation.
NeverBack(old, new) == new >= old

\* validate_time_high
Monotonic(old, new) ==
    \/ new >= old
    \/ old = HighN - 1 /\ new = 0
    \/ new - old + (HighN - 1) < Epsilon

High(dec, w) ==
    Step([dec EXCEPT !.clock = TimeHigh(@, w[1].v),
                     !.alarm = @ \/ ~Monotonic(dec.clock.high, w[1].v)], <<>>, 1)

ExtTrigger(dec, w) == Step(dec, <<Event("trigger", <<w[1].v>>, EventTime(dec))>>, 1)

Others(dec, w) ==
    LET continued == w[2].type = "cont_12"
        payload == IF continued THEN <<w[2].v, w[3].v, w[4].v>> ELSE <<>>
    IN IF w[1].v \in Blacklist THEN Step(dec, <<>>, 1)
       ELSE Step(dec, <<Event("monitor", <<w[1].v, payload>>, EventTime(dec))>>,
                 IF continued THEN 4 ELSE 1)

\* Every other word is content for the state.
State(dec, w) ==
    Step([dec EXCEPT !.row = IF w[1].type = "addr_y" THEN w[1].v ELSE @,
                     !.column = IF w[1].type = "base_x" THEN w[1].v ELSE @,
                     !.vect = @ \/ w[1].type = "base_x",
                     !.clock = IF w[1].type = "time_low" THEN TimeLow(@, w[1].v) ELSE @,
                     !.set = TRUE], <<>>, 1)

DecodeEvent(dec, w) ==
    CASE w[1].type = "addr_x" -> AddrX(dec, w)
      [] w[1].type = "vect_12" -> Vect(dec, w)
      [] w[1].type = "time_high" -> High(dec, w)
      [] w[1].type = "trigger" -> ExtTrigger(dec, w)
      [] w[1].type = "others" -> Others(dec, w)
      [] OTHER -> State(dec, w)

\* The number of words that have to be there for an event to be decoded.
Size(word) ==
    CASE word.type = "vect_12" -> 3
      [] word.type = "others" /\ word.v \notin Blacklist -> 4
      [] OTHER -> 1

\* An event can be decoded when all of its words are there.
Decodable(words) == words # <<>> /\ Size(words[1]) <= Len(words)

\* The loop of decode_events_buffer, with the words used so far, after an event
\* more; it stays where it is when no event can be decoded.
DecodeNext(loop, words) ==
    LET rest == SubSeq(words, loop.used + 1, Len(words))
        s == DecodeEvent(loop.dec, rest)
    IN IF Decodable(rest)
       THEN Step(s.dec, loop.events \o s.events, loop.used + s.used)
       ELSE loop

\* decode_events_buffer: what is left of the buffer lacks "missing" words.
DecodeBuffer(dec, words, events) ==
    LET loop[n \in 0..Len(words)] ==
            IF n = 0 THEN Step(dec, events, 0) ELSE DecodeNext(loop[n - 1], words)
        end == loop[Len(words)]
        rest == SubSeq(words, end.used + 1, Len(words))
    IN [dec |-> end.dec, events |-> end.events, rest |-> rest,
        missing |-> IF rest = <<>> THEN 0 ELSE Size(rest[1]) - Len(rest)]

\* The first EVT_TIME_HIGH, whatever is before it being dropped, gives the base
\* of the time and its shift.
FindBase(dec, words) ==
    LET i == SelectInSeq(words, LAMBDA w : w.type = "time_high")
        t == IF words[i].v > 0 THEN words[i].v - 1 ELSE 0
    IN IF dec.base THEN [dec |-> dec, rest |-> words]
       ELSE IF i = 0 THEN [dec |-> dec, rest |-> <<>>]
       ELSE [dec |-> [dec EXCEPT !.clock.high = t, !.base = TRUE,
                                 !.shift = IF @ = None THEN t * LowN ELSE @],
             rest |-> SubSeq(words, i, Len(words))]

\* Slip: the words of a group that has been completed are kept.
DecodeWordsKeeps(dec, words) ==
    LET n == IF dec.missing < Len(words) THEN dec.missing ELSE Len(words)
        group == dec.incomplete \o SubSeq(words, 1, n)
        g == DecodeBuffer(dec, IF n = dec.missing THEN group ELSE <<>>, <<>>)
        r == DecodeBuffer(g.dec, SubSeq(words, n + 1, Len(words)), g.events)
    IN IF n < dec.missing
       THEN [dec |-> [dec EXCEPT !.incomplete = group, !.missing = @ - n], events |-> <<>>]
       ELSE [dec |-> [r.dec EXCEPT !.incomplete = @ \o r.rest, !.missing = r.missing],
             events |-> r.events]

\* decode_impl, after the search for the base: a group that the last buffer
\* began is completed, and decoded, first.
DecodeWords(dec, words) ==
    LET n == IF dec.missing < Len(words) THEN dec.missing ELSE Len(words)
        group == dec.incomplete \o SubSeq(words, 1, n)
        g == DecodeBuffer(dec, IF n = dec.missing THEN group ELSE <<>>, <<>>)
        r == DecodeBuffer(g.dec, SubSeq(words, n + 1, Len(words)), g.events)
    IN IF n < dec.missing
       THEN [dec |-> [dec EXCEPT !.incomplete = group, !.missing = @ - n], events |-> <<>>]
       ELSE [dec |-> [r.dec EXCEPT !.incomplete = r.rest, !.missing = r.missing],
             events |-> r.events]

\* decode_impl
DecodeImpl(dec, words) ==
    LET b == FindBase(dec, words) IN DecodeWords(b.dec, b.rest)

\* I_EventsStreamDecoder::decode: a word in two buffers is decoded on its own.
Decode(size) ==
    LET left == 2 * (Len(tape) - pos)
        bytes == size + (IF half THEN 1 ELSE 0)
        all == IF bytes < left THEN bytes ELSE left
        words == SubSeq(tape, pos + 1, pos + (all \div 2))
        one == DecodeImpl(d, IF half THEN SubSeq(words, 1, 1) ELSE <<>>)
        two == DecodeImpl(one.dec, IF half THEN Tail(words) ELSE words)
    IN /\ left > 0
       /\ d' = two.dec /\ out' = one.events \o two.events
       /\ pos' = pos + Len(words) /\ half' = (all % 2 = 1)
       /\ UNCHANGED <<sensor, tape, shifting, from>>

-----------------------------------------------------------------------------
(* The seeks of the reader, to the bookmarks of an index (RawIndex).       *)

FirstHigh == SelectInSeq(tape, LAMBDA w : w.type = "time_high")

\* The sensor's time at a word, as a decoder counts it from the start.
TimeOf(dec, t) == t - (tape[FirstHigh].clock \div Period) * Period
                  - (IF shifting THEN dec.shift ELSE 0)

\* The time of a decoder that has just had the word i.
TimeAfter(i) ==
    TimeOf(d, IF tape[i].type = "time_low" THEN tape[i].clock
              ELSE tape[i].clock - (tape[i].clock % LowN))

\* A bookmark is put at a word that changes the time.
Bookmarks ==
    {i \in 1..Len(tape) :
        /\ 0 # FirstHigh /\ FirstHigh < i
        /\ \/ tape[i].type = "time_low"
           \/ /\ tape[i].type = "time_high"
              /\ tape[i].clock \div LowN # tape[i - 1].clock \div LowN}

\* reset_timestamp_shift_impl, called with the shift that the index has.
ResetShift ==
    /\ shifting /\ FirstHigh # 0
    /\ LET h == tape[FirstHigh].v IN d' = [d EXCEPT !.shift = (IF h > 0 THEN h - 1 ELSE 0) * LowN]
    /\ UNCHANGED <<sensor, tape, shifting, pos, half, from, out>>

\* reset_last_timestamp, with the time of the bookmark that has been reached.
Seek(i) ==
    /\ i \in Bookmarks /\ (shifting => d.shift # None)
    /\ LET t == TimeAfter(i) + (IF shifting THEN d.shift ELSE 0) IN
       /\ t \in SeekTimes
       /\ d' = [d EXCEPT !.clock = ClockAt(t),
                         !.base = TRUE, !.set = TRUE, !.row = None, !.column = 0,
                         !.incomplete = <<>>, !.missing = 0]
    /\ pos' = i - 1 /\ half' = FALSE /\ from' = i /\ out' = <<>>
    /\ UNCHANGED <<sensor, tape, shifting>>

Next ==
    \/ \E j \in Jumps, again \in BOOLEAN : Tick(j, again)
    \/ \E y \in {0, Height} : Row(y)
    \/ Pixel(1)
    \/ \E x \in {0, sensor.column} \ {None} : Vector(x, <<1, 0, 1>>)
    \/ Trigger
    \/ \E m \in Masters : Monitor(m)
    \/ \E n \in Buffers : Decode(n)
    \/ ResetShift
    \/ \E i \in Bookmarks : Seek(i)

Spec == Init /\ [][Next]_vars

-----------------------------------------------------------------------------
\* The values of the variables.  The words kept for the next buffer are the
\* beginning of one group, and what is missing of it is counted.
TypeOK ==
    /\ d.clock \in Clock
    /\ {d.base, d.set, d.vect, d.alarm, half} \subseteq BOOLEAN
    /\ d.shift \in {None} \cup Nat /\ d.row \in {None} \cup 0..Height /\ d.column \in Nat
    /\ pos \in 0..Len(tape) /\ from \in 0..Len(tape)
    /\ d.missing > 0 <=> d.incomplete # <<>>
    /\ d.missing > 0 => Len(d.incomplete) + d.missing = Size(d.incomplete[1])

\* Where decoding began, and the words that have been decoded from there.
Begin == IF from > 0 THEN from ELSE IF FirstHigh > 0 THEN FirstHigh ELSE Len(tape) + 1
Done(dec, at) == at - Len(dec.incomplete)

\* The events that the words from a to b stand for: those of the sensor from
\* where decoding began, the pixels among them only once a row is known.
Meant(dec, a, b) ==
    FlattenSeq([i \in 1..(b - a) |->
        LET w == tape[a + i]
            rowKnown == \E j \in Begin..(a + i) : tape[j].type = "addr_y"
        IN IF a + i < Begin THEN <<>>
           ELSE LET seen == SelectSeq(w.events, LAMBDA e : e.kind # "cd" \/ rowKnown)
                IN [k \in DOMAIN seen |-> Event(seen[k].kind, seen[k].at, TimeOf(dec, seen[k].t))]])

\* However the bytes are cut into buffers and wherever the reader has sought,
\* decode forwards the events that the sensor has sent, all of them, once and
\* with their time, whatever number of loops the time has gone through.
DecodedAsSent ==
    [][(pos' > pos /\ from' = from) => out' = Meant(d', Done(d, pos), Done(d', pos'))]_vars

\* The time never goes ahead of the sensor's, not between the two words of a
\* change either: "avoid momentary time discrepancies when decoding event per
\* events".
NeverAhead ==
    (d.set /\ Done(d, pos) >= Begin) => LastTimestamp(d) <= TimeOf(d, tape[Done(d, pos)].clock)

\* The default validator raises no violation against a sensor, unless more
\* of the time has passed between two words than Epsilon allows.
AlarmsAreGaps ==
    d.alarm => \E i \in 2..Len(tape) :
                  (tape[i].clock \div LowN) - (tape[i - 1].clock \div LowN) > Epsilon

\* "It is expected after this call has succeeded, that get_last_timestamp
\* returns timestamp".
ResetReturnsTimestamp ==
    (from > 0 /\ pos = from - 1 /\ ~half) => LastTimestamp(d) = TimeAfter(from)
=============================================================================
