---------------------------- MODULE ControlBytes ----------------------------
(***************************************************************************)
(* What the packets of GrUdpProtocol (gr_udp_protocol.h) have in common,   *)
(* and its audio and control packets, byte by byte.  A byte is a number    *)
(* below 256, a packet a sequence of bytes.                                *)
(***************************************************************************)
EXTENDS Integers, Sequences

kMagic == 18261                 \* 0x4755
kVersion == 1
kPktVideo == 1
kPktAudio == 2
kPktCtrl == 3
kCommonHeaderSize == 4
kAudioHeaderSize == 10

W8(v) == <<v % 256>>
W16(v) == <<v % 256, (v \div 256) % 256>>
W32(v) == W16(v % 65536) \o W16((v \div 65536) % 65536)
R16(s, at) == s[at + 1] + 256 * s[at + 2]
R32(s, at) == R16(s, at) + 65536 * R16(s, at + 2)
From(s, at) == SubSeq(s, at + 1, Len(s))

WriteCommon(type) == W16(kMagic) \o <<kVersion, type>>

ParseCommon(s) ==
    IF \/ Len(s) < kCommonHeaderSize
       \/ R16(s, 0) # kMagic \/ s[3] # kVersion
       \/ s[4] \notin {kPktVideo, kPktAudio, kPktCtrl}
    THEN 0 ELSE s[4]

\* What a reader returns that does not take its input.
Refused == [ok |-> FALSE]

(***************************************************************************)
(* Audio packets.                                                          *)
(***************************************************************************)
BuildAudioPacket(seq, timestamp, payload) ==
    IF payload = <<>> \/ Len(payload) > 65535 THEN <<>>
    ELSE WriteCommon(kPktAudio) \o W32(seq) \o W32(timestamp) \o W16(Len(payload)) \o payload

ParseAudioPacket(s) ==
    IF \/ ParseCommon(s) # kPktAudio
       \/ Len(s) < kCommonHeaderSize + kAudioHeaderSize
       \/ Len(s) # kCommonHeaderSize + kAudioHeaderSize + R16(s, 12)
    THEN Refused
    ELSE [ok |-> TRUE, seq |-> R32(s, 4), timestamp |-> R32(s, 8), payload |-> From(s, 14)]

(***************************************************************************)
(* Control packets: strings with a length of one byte, or a frame status.  *)
(***************************************************************************)
kCtrlHello == 1
kCtrlHeartbeat == 2
kCtrlIdrRequest == 3
kCtrlFrameStatus == 4
kCtrlKick == 5
kCtrlIdrKeepalive == 6
kCtrlRfi == 7

TwoStrings == {kCtrlHello, kCtrlRfi}
OneString == {kCtrlHeartbeat, kCtrlIdrRequest, kCtrlIdrKeepalive, kCtrlKick}

WriteString(a) == W8(Len(a)) \o a
BuildCtrlString1(subtype, a) == WriteCommon(kPktCtrl) \o <<subtype>> \o WriteString(a)
BuildCtrlString2(subtype, a, b) == BuildCtrlString1(subtype, a) \o WriteString(b)

BuildFrameStatus(idx, received, lost) ==
    WriteCommon(kPktCtrl) \o <<kCtrlFrameStatus>> \o W32(idx) \o W16(received) \o W16(lost)

ParseFrameStatus(s) ==
    IF ParseCommon(s) # kPktCtrl \/ Len(s) # kCommonHeaderSize + 9 THEN Refused
    ELSE IF s[kCommonHeaderSize + 1] # kCtrlFrameStatus THEN Refused
    ELSE [ok |-> TRUE, idx |-> R32(s, 5), received |-> R16(s, 9), lost |-> R16(s, 11)]

\* Mutant: the next string begins at the last byte of this one.
ReadStringShort(s, at) ==
    IF Len(s) < at + 1 THEN Refused
    ELSE IF Len(s) < at + 1 + s[at + 1] THEN Refused
    ELSE [ok |-> TRUE, string |-> SubSeq(s, at + 2, at + 1 + s[at + 1]), at |-> at + s[at + 1]]

\* read_str: the string, and where it ends.
ReadString(s, at) ==
    IF Len(s) < at + 1 THEN Refused
    ELSE IF Len(s) < at + 1 + s[at + 1] THEN Refused
    ELSE [ok |-> TRUE, string |-> SubSeq(s, at + 2, at + 1 + s[at + 1]), at |-> at + 1 + s[at + 1]]

ParseCtrl(s) ==
    LET subtype == s[kCommonHeaderSize + 1]
        first == ReadString(s, kCommonHeaderSize + 1)
        second == ReadString(s, first.at)
    IN  IF ParseCommon(s) # kPktCtrl \/ Len(s) < kCommonHeaderSize + 1 THEN Refused
        ELSE IF subtype \notin OneString \cup TwoStrings \/ ~first.ok THEN Refused
        ELSE IF subtype \in OneString
        THEN [ok |-> TRUE, subtype |-> subtype, strings |-> <<first.string>>]
        ELSE IF ~second.ok THEN Refused
        ELSE [ok |-> TRUE, subtype |-> subtype, strings |-> <<first.string, second.string>>]
=============================================================================
