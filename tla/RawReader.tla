----------------------------- MODULE RawReader ------------------------------
(***************************************************************************)
(* A camera that plays a RAW file: read() and seek() of the file's reader  *)
(* (sdk/modules/stream/cpp/src/event_file_reader.cpp and                   *)
(* raw_event_file_reader.cpp), called by the camera's run thread and by    *)
(* whoever has its OfflineStreamingControl, composed with module Camera,   *)
(* whose start_impl and stop_impl start and stop the reader.               *)
(*                                                                         *)
(* read() and seek() exclude each other by mutex_, and seek() announces    *)
(* itself so that read() lets it pass; start() and stop() take no mutex.   *)
(* Camera's variable source is "on" while started_ is set.                 *)
(*                                                                         *)
(* The events stream behind the reader is the cursor that module           *)
(* EventsStream implements.  The file is the pieces 1..FileSize, each      *)
(* decoded by one read(); a buffer of the stream holds BufferSize of them. *)
(***************************************************************************)
EXTENDS Recording

CONSTANTS FileSize, BufferSize, \* the sizes of the file and of a buffer
          Targets               \* where seek() may lead; nothing is to be read
                                \* beyond FileSize, and seek() then fails

ASSUME ReaderAssumption ==
    FileSize \in Nat /\ BufferSize \in Nat \ {0} /\ Targets \subseteq Nat \ {0}

VARIABLES
    mutex,    \* the run thread that holds mutex_ in read()
    seeking,  \* seeking_
    cursor,   \* the position of the events stream in the file
    rest,     \* the pieces of data_buffer_ that are not decoded
    seeker,   \* where the OfflineStreamingControl is in seek()
    target,   \* where it seeks to
    decoded   \* history: the piece last decoded

readVars == <<mutex, seeking, cursor, rest, seeker, target, decoded>>

ReadInit ==
    /\ RecInit
    /\ mutex = None /\ seeking = FALSE
    /\ cursor = 1 /\ rest = <<>>
    /\ seeker = "idle" /\ target = 1 /\ decoded = 0

Plays == setting.plays
CameraUnchanged == UNCHANGED <<recVars, flags, lock, user, reported>>

-----------------------------------------------------------------------------
(* read(), in process_impl.                                                *)

\* The reader waits until no seek is announced, and starts the stream if it
\* finds it stopped.
ReadEnter(t) ==
    /\ Plays /\ run[t] = "process" /\ mutex = None /\ ~seeking
    /\ mutex' = t /\ source' = "on"
    /\ CameraUnchanged /\ UNCHANGED run
    /\ UNCHANGED <<seeking, cursor, rest, seeker, target, decoded>>

\* wait_next_buffer and get_latest_raw_data.
ReadBuffer(t) ==
    /\ mutex = t /\ rest = <<>> /\ cursor <= FileSize
    /\ LET n == IF cursor + BufferSize <= FileSize + 1 THEN BufferSize
                ELSE FileSize + 1 - cursor IN
       /\ rest' = [i \in 1..n |-> cursor + i - 1]
       /\ cursor' = cursor + n
    /\ CameraUnchanged /\ UNCHANGED <<run, source>>
    /\ UNCHANGED <<mutex, seeking, seeker, target, decoded>>

\* wait_next_buffer returns -1 at the end of the file, or when the stream has
\* been stopped and has no buffer left; process_impl then returns false.
ReadNothing(t) ==
    /\ mutex = t /\ rest = <<>> /\ (cursor > FileSize \/ source = "off")
    /\ RunGoto(t, "process", "end.test") /\ mutex' = None
    /\ CameraUnchanged /\ UNCHANGED source
    /\ UNCHANGED <<seeking, cursor, rest, seeker, target, decoded>>

\* One piece is decoded, and the callbacks are called.
ReadDecode(t) ==
    /\ mutex = t /\ rest # <<>>
    /\ decoded' = Head(rest) /\ rest' = Tail(rest)
    /\ RunGoto(t, "process", "loop") /\ mutex' = None
    /\ CameraUnchanged /\ UNCHANGED source
    /\ UNCHANGED <<seeking, cursor, seeker, target>>

Read(t) == ReadEnter(t) \/ ReadBuffer(t) \/ ReadNothing(t) \/ ReadDecode(t)

-----------------------------------------------------------------------------
(* seek().                                                                 *)

\* Slip: seek() does not announce itself.
SeekCallSilent ==
    /\ Plays /\ seeker = "idle" /\ seeker' = "lock"
    /\ target' \in Targets
    /\ UNCHANGED <<allVars, mutex, seeking, cursor, rest, decoded>>

SeekCall ==
    /\ Plays /\ seeker = "idle" /\ seeker' = "lock"
    /\ target' \in Targets
    /\ seeking' = TRUE
    /\ UNCHANGED <<allVars, mutex, cursor, rest, decoded>>

\* Slip: the rest of the buffer is decoded after the seek.
SeekImplKeepsBuffer ==
    /\ target <= FileSize
    /\ cursor' = target /\ UNCHANGED rest

\* seek_impl: the stream is sought, and the rest of the buffer forgotten.
SeekImpl ==
    IF target <= FileSize THEN cursor' = target /\ rest' = <<>>
    ELSE UNCHANGED <<cursor, rest>>

\* Under mutex_; then who waits in read() is notified.
SeekLocked ==
    /\ seeker = "lock" /\ mutex = None
    /\ SeekImpl
    /\ seeking' = FALSE /\ seeker' = "idle"
    /\ UNCHANGED <<allVars, mutex, target, decoded>>

-----------------------------------------------------------------------------
ReadNext ==
    \/ RecNext /\ UNCHANGED readVars
    \/ SeekCall \/ SeekLocked
    \/ \E t \in RunThreads : Read(t)

\* As in the other cameras; read() returns, as a file always has data or an
\* end; and the seek goes on when it finds the mutex free.  A read() that waits
\* is notified by every seek, and gets in at last: this strong fairness is an
\* assumption on who seeks, for one who does it without a pause can keep read()
\* waiting, and stop() with it.
ReadFairness ==
    /\ RecFairness
    /\ \A t \in RunThreads : SF_<<allVars, readVars>>(ReadEnter(t))
    /\ \A t \in RunThreads : WF_<<allVars, readVars>>(Read(t))
    /\ WF_readVars(SeekLocked)

ReadSpec == ReadInit /\ [][ReadNext]_<<allVars, readVars>> /\ ReadFairness

-----------------------------------------------------------------------------
\* What is decoded is the file from a cursor that only a seek moves: through
\* stops, restarts, and seeks in the middle of a buffer or between the buffer
\* and its decoding, no piece is skipped or decoded twice.
Player == INSTANCE RecordingCursor WITH
    NChunks <- FileSize,
    Bookmarks <- {b \in Targets : b <= FileSize},
    cursor <- IF rest # <<>> THEN Head(rest) ELSE cursor,
    got <- decoded
PlayerIsCursor == Player!Spec

\* seek() returns though the run thread reads without a pause, and locks the
\* mutex again right after it has released it.
SeekPasses == (seeker = "lock") ~> (seeker = "idle")
=============================================================================
