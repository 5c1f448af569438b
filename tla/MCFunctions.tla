----------------------------- MODULE MCFunctions -----------------------------
(***************************************************************************)
(* The parts of the library that are one call of one function, on small    *)
(* inputs.  A behaviour is one call of one of five kinds, its scene: a row *)
(* of system calls (OsFunctions), a conversion (Conversions), a frame from *)
(* its packets, a copy of a folder tree, or the reading of a file.         *)
(***************************************************************************)
EXTENDS OsFunctions, Conversions, PacketBytes, DirectoryCopy, FileReading

VARIABLE scene

functionsVars == <<scene, callVars, jobVars, copyVars, fileVars>>

\* The source of a copy: two folders, one in the other, and a file in each.
MCAbove == [d |-> {}, dd |-> {"d"}, f |-> {}, df |-> {"d"}, ddf |-> {"d", "dd"}]

-----------------------------------------------------------------------------
\* Arguments: two of up to two characters, or one of up to four.
Strings(C, n) == UNION {[1 .. k -> C] : k \in 0 .. n}
Characters == {Quote, Backslash, Space, "a"}

Exe == <<"a", Space>>

ArgumentJobs ==
    {[kind |-> "arguments", exe |-> Exe, args |-> args] :
        args \in (Strings(Characters, 2) \X Strings(Characters, 2))
                 \cup {<<arg>> : arg \in Strings(Characters, 4)}}

Base64Jobs ==
    {[kind |-> "base64", bytes |-> bytes] :
        bytes \in Strings({0, 77, 255}, 4) \cup {<<9, b>> : b \in 0 .. 255}}

\* Up to four calls of update, with sizes around those of a block, and digest.
Md5Jobs == {[kind |-> "md5", calls |-> calls] : calls \in Strings({DigestCall, 1, 3, 4, 9}, 4)}

\* Two bytes of the alphabet at most in a name, four in a frame: the bytes of the
\* frame are all different, so that none can stand for another.
Bytes8(n) == [k \in 1 .. n |-> (37 * k) % 256]
Meta == [idx |-> 70000, key |-> TRUE, width |-> 640, height |-> 360, name |-> <<5>>]
MCMtu == Base + 12

FrameJobs ==
    UNION {LET d == DataShards(Meta, size, MCMtu) IN
           {[kind |-> "frame", size |-> size, fec |-> fec, arrive |-> arrive] :
                arrive \in SUBSET (0 .. d + ParityShards(d, fec) - 1)} :
           size \in {1, 2, 3, 14, 15, 26, 27, 38}, fec \in {0, 40, 100}}

AudioJobs ==
    {[kind |-> "audio", seq |-> seq, timestamp |-> 70001, payload |-> payload] :
        seq \in {0, 255, 70000}, payload \in Strings({0, 255}, 2)}

CtrlJobs ==
    {[kind |-> "ctrl", subtype |-> subtype, a |-> a, b |-> b] :
        subtype \in OneString \cup TwoStrings,
        a \in Strings({3, 255}, 2), b \in Strings({3, 255}, 1)}

StatusJobs ==
    {[kind |-> "status", idx |-> idx, received |-> received, lost |-> n] :
        idx \in {0, 70000}, received \in {0, 300}, n \in {0, 300, 65535}}

MCJobs == ArgumentJobs \cup Base64Jobs \cup Md5Jobs
          \cup AudioJobs \cup CtrlJobs \cup StatusJobs

NoJob == [kind |-> "none"]

\* What comes of a frame of which some packets arrived.
FrameOf(j) ==
    LET packets == ShardVideoBytes(Meta, Bytes8(j.size), MCMtu, j.fec)
    IN  IF j.arrive = {} THEN Refused ELSE Reassemble({packets[i] : i \in j.arrive})

ConvertFrame ==
    /\ answer = <<>>
    /\ answer' = <<FrameOf(job)>>
    /\ UNCHANGED job

-----------------------------------------------------------------------------
\* A scene at rest.
NoCall == StartCall("none", <<>>)
NoCopy ==
    /\ target = [e \in Entry |-> "none"] /\ asked = [overwrite |-> FALSE, ignored |-> {}]
    /\ unreadable = {} /\ todo = {} /\ step = Idle /\ failed = {} /\ copied = "false" /\ had = {}
NoReading ==
    /\ length = 0 /\ file_size = 0 /\ offset = 0 /\ chunks = <<>>
    /\ reading = "no" /\ shortened = FALSE

Init ==
    \/ scene = "os" /\ OsInit /\ NoCopy /\ NoReading /\ job = NoJob /\ answer = <<>>
    \/ scene = "job" /\ job \in MCJobs /\ answer = <<>> /\ NoCall /\ NoCopy /\ NoReading
    \/ scene = "frame" /\ job \in FrameJobs /\ answer = <<>> /\ NoCall /\ NoCopy /\ NoReading
    \/ scene = "copy" /\ CopyInit /\ NoCall /\ NoReading /\ job = NoJob /\ answer = <<>>
    \/ scene = "file" /\ FileInit /\ NoCall /\ NoCopy /\ job = NoJob /\ answer = <<>>

Next ==
    \/ scene = "os" /\ CallNext /\ UNCHANGED <<scene, jobVars, copyVars, fileVars>>
    \/ scene = "job" /\ Convert /\ UNCHANGED <<scene, callVars, copyVars, fileVars>>
    \/ scene = "frame" /\ ConvertFrame /\ UNCHANGED <<scene, callVars, copyVars, fileVars>>
    \/ scene = "copy" /\ CopyNext /\ UNCHANGED <<scene, jobVars, callVars, fileVars>>
    \/ scene = "file" /\ FileNext /\ UNCHANGED <<scene, jobVars, callVars, copyVars>>

\* Only the reader of a file must go on: its loop runs, and a read that could
\* succeed does not fail for ever.
Spec == Init /\ [][Next]_functionsVars
        /\ WF_fileVars(scene = "file" /\ (Chunk \/ EndReading)
                       /\ UNCHANGED <<scene, jobVars, callVars, copyVars>>)

-----------------------------------------------------------------------------
\* A frame is put together byte for byte from any of its packets, if they are as
\* many as it has data packets, and from fewer not at all
\* (gr_udp_protocol.h:178-285, 624-787, gr_fec.h, rs.c).
FrameFromAnyShards ==
    scene = "frame" /\ answer # <<>> =>
        IF Cardinality(job.arrive) < DataShards(Meta, job.size, MCMtu)
        THEN Reply = Refused
        ELSE /\ Reply.ok
             /\ Reply.frame = Bytes8(job.size)
             /\ Reply.name = Meta.name
             /\ Reply.width = Meta.width /\ Reply.height = Meta.height
=============================================================================
