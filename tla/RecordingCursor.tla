-------------------------- MODULE RecordingCursor --------------------------
(***************************************************************************)
(* What the events stream of a recording promises to its reader            *)
(* (I_EventsStream::seek and get_latest_raw_data in i_events_stream.h):    *)
(* buffers are handed out in file order from a cursor, none skipped and    *)
(* none repeated, and a successful seek moves the cursor to the bookmark.  *)
(***************************************************************************)
EXTENDS Naturals

CONSTANTS NChunks, Bookmarks

VARIABLES cursor,  \* the position of the next data to be read
          got      \* the position of the data last read, 0 before the first

cursorVars == <<cursor, got>>

Init == cursor = 1 /\ got = 0

ReadData ==
    /\ cursor <= NChunks
    /\ got' = cursor /\ cursor' = cursor + 1

SeekTo(b) == cursor' = b /\ got' = got

Next == ReadData \/ \E b \in Bookmarks : SeekTo(b)

Spec == Init /\ [][Next]_cursorVars
=============================================================================
