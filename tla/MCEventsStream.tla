--------------------------- MODULE MCEventsStream ---------------------------
(* A file of a few reads.  Its bookmarks are its last read, which is       *)
(* sought from both sides, the end, where there is nothing to read, and a  *)
(* position beyond it, as an index built from a longer file has.  To show  *)
(* that a seek can skip data, the first read is enough.                    *)
EXTENDS EventsStream
MCBookmarks == {NChunks, NChunks + 1, NChunks + 2}
MCFirst == {1}
=============================================================================
