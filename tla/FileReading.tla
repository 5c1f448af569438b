----------------------------- MODULE FileReading -----------------------------
(***************************************************************************)
(* File::ReadAll with a callback (file.cpp): the size is asked once, then  *)
(* the file is read chunk by chunk, each from an offset of its own, while  *)
(* another program may lengthen or shorten it.  A read that fails or that  *)
(* brings nothing leaves the loop as it was, and is a stuttering step.     *)
(***************************************************************************)
EXTENDS Naturals, Sequences

CONSTANTS
    kBlockSize,     \* buffer_size
    kMaxFile        \* bound: the length of the file

ASSUME FileAssumption == kBlockSize \in Nat \ {0} /\ kMaxFile \in Nat

VARIABLES
    length,         \* of the file now
    file_size,      \* file_size: its length when the call began
    offset,
    chunks,         \* what the callback got: offsets and sizes
    reading,        \* "no", "yes", or "stopped" by the callback
    shortened       \* the file was at some time shorter than file_size

fileVars == <<length, file_size, offset, chunks, reading, shortened>>

FileInit ==
    /\ length \in 0 .. kMaxFile
    /\ file_size = length /\ offset = 0 /\ chunks = <<>>
    /\ reading = "yes" /\ shortened = FALSE

\* fread at the offset: up to kBlockSize bytes, and fewer only at the end.
Got == IF length - offset < kBlockSize THEN length - offset ELSE kBlockSize

\* Mutant: one more read at the end.
MoreToTheEnd == offset <= file_size

More == offset < file_size

\* Mutant: the next chunk is a block further, however much was read.
AdvanceByBlock == offset + kBlockSize

Advance == offset + Got

Chunk ==
    /\ reading = "yes" /\ More
    /\ length > offset
    /\ chunks' = Append(chunks, [at |-> offset, size |-> Got])
    /\ \/ reading' = "stopped" /\ UNCHANGED offset
       \/ offset' = Advance /\ UNCHANGED reading
    /\ UNCHANGED <<length, file_size, shortened>>

EndReading ==
    /\ reading = "yes" /\ ~More
    /\ reading' = "no"
    /\ UNCHANGED <<length, file_size, offset, chunks, shortened>>

\* Another program writes to the file or cuts it.
Resize(n) ==
    /\ reading = "yes" /\ n # length
    /\ length' = n
    /\ shortened' = (shortened \/ n < file_size)
    /\ UNCHANGED <<file_size, offset, chunks, reading>>

FileNext == Chunk \/ EndReading \/ \E n \in 0 .. kMaxFile : Resize(n)

FileSpec == FileInit /\ [][FileNext]_fileVars

-----------------------------------------------------------------------------
\* The chunks join without a gap or an overlap, also when a read was short, and
\* make up the file of file_size bytes when the call ends (file.cpp:124-133).
ChunksJoin ==
    /\ \A i \in DOMAIN chunks :
        /\ chunks[i].size > 0
        /\ chunks[i].at = IF i = 1 THEN 0 ELSE chunks[i - 1].at + chunks[i - 1].size
    /\ reading = "no" /\ chunks # <<>> =>
        chunks[Len(chunks)].at + chunks[Len(chunks)].size >= file_size

\* The call ends, if the file is never cut below the size it had when the call
\* began and a read does not fail for ever (file.cpp:124).
ReadEnds == <>(reading # "yes" \/ shortened)
=============================================================================
