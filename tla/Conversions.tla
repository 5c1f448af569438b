----------------------------- MODULE Conversions -----------------------------
(***************************************************************************)
(* The functions of the library that write something in another form, each *)
(* with the one that reads it: a command line and the program that takes   *)
(* it apart, base64, audio and control packets, and an MD5 stream with the *)
(* digest of all its bytes.  A behaviour is one job and its answer.        *)
(***************************************************************************)
EXTENDS CommandLine, Base64, Md5Stream, ControlBytes

CONSTANT Character      \* of program names and arguments

ASSUME CharacterAssumption == {Quote, Backslash, Space} \subseteq Character

VARIABLES
    job,        \* what a conversion is given
    answer      \* what comes back, once it has

jobVars == <<job, answer>>

Byte == 0 .. 255
Word16 == {n \in Nat : n < 65536}
Word32 == {n \in Nat : n \div 65536 < 65536}

Jobs ==
    [kind : {"arguments"}, exe : Seq(Character), args : Seq(Seq(Character))]
    \cup [kind : {"base64"}, bytes : Seq(Byte)]
    \cup [kind : {"md5"}, calls : Seq(Nat)]
    \cup [kind : {"audio"}, seq : Word32, timestamp : Word32, payload : Seq(Byte)]
    \cup [kind : {"ctrl"}, subtype : OneString \cup TwoStrings, a : Seq(Byte), b : Seq(Byte)]
    \cup [kind : {"status"}, idx : Word32, received : Word16, lost : Word16]

ControlPacket(j) ==
    IF j.subtype \in OneString THEN BuildCtrlString1(j.subtype, j.a)
    ELSE BuildCtrlString2(j.subtype, j.a, j.b)

AnswerTo(j) ==
    CASE j.kind = "arguments" -> SplitCommandLine(BuildCommandLine(j.exe, j.args))
      [] j.kind = "base64" -> Base64Decode(Base64Encode(j.bytes))
      [] j.kind = "md5" -> RunCalls(j.calls).given
      [] j.kind = "audio" -> ParseAudioPacket(BuildAudioPacket(j.seq, j.timestamp, j.payload))
      [] j.kind = "ctrl" -> ParseCtrl(ControlPacket(j))
      [] j.kind = "status" -> ParseFrameStatus(BuildFrameStatus(j.idx, j.received, j.lost))

Convert ==
    /\ answer = <<>>
    /\ answer' = <<AnswerTo(job)>>
    /\ UNCHANGED job

ConvertInit == job \in Jobs /\ answer = <<>>

ConvertSpec == ConvertInit /\ [][Convert]_jobVars

-----------------------------------------------------------------------------
Answered(kind) == job.kind = kind /\ answer # <<>>
Reply == answer[1]

\* The started program gets the arguments it was meant to get, whatever quotes,
\* spaces and backslashes are in them, but for empty ones (process_util.cpp:24-59).
ArgumentsArrive == Answered("arguments") => Reply = Arriving(job.exe, job.args)

\* A digest is of all the bytes given so far, in whatever pieces, and however
\* often it was asked before, unless one was asked when the padding took a block
\* of its own (gd_md5.cpp:92-99, 152-219).
DigestOfAllBytes ==
    Answered("md5") => \A i \in DOMAIN Reply :
        Reply[i].cut \/ Reply[i].digest = Reference(Reply[i].of)

\* An audio, control or status packet is read as what it was made of, if it fits
\* the width of its length, and an empty or too long audio packet is not made;
\* bytes written in base64 are read as they were
\* (gr_udp_protocol.h:287-437, base64_impl.hpp).
WrittenIsRead ==
    /\ Answered("base64") => Reply = job.bytes
    /\ Answered("audio") =>
        IF job.payload = <<>> \/ Len(job.payload) > 65535 THEN Reply = Refused
        ELSE Reply = [ok |-> TRUE, seq |-> job.seq, timestamp |-> job.timestamp,
                      payload |-> job.payload]
    /\ Answered("ctrl") /\ Len(job.a) <= 255 /\ Len(job.b) <= 255 =>
        Reply = [ok |-> TRUE, subtype |-> job.subtype,
                  strings |-> IF job.subtype \in OneString THEN <<job.a>> ELSE <<job.a, job.b>>]
    /\ Answered("status") =>
        Reply = [ok |-> TRUE, idx |-> job.idx, received |-> job.received, lost |-> job.lost]
=============================================================================
