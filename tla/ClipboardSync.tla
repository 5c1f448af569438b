---------------------------- MODULE ClipboardSync ----------------------------
(***************************************************************************)
(* Two machines that keep their clipboards equal with tc::clipboard         *)
(* (clipboard_echo.cpp, clipboard_platform.cpp, clipboard_platform_win.cpp).*)
(* The code that carries the texts is not in this repository: as the        *)
(* interface of EchoFilter asks, it notes a text that comes in as the       *)
(* remote echo, writes it with outbound changes suppressed, and asks        *)
(* ShouldSkipOutbound of every change right after reading it.  Any read or  *)
(* write of a clipboard may fail because another program holds it open.     *)
(***************************************************************************)
EXTENDS Naturals, Sequences

CONSTANTS
    Side,           \* the two machines
    Text,
    Nothing,        \* an empty clipboard
    kMaxAttempts,   \* max_attempts of WriteTextWithRetry
    kMaxCopies      \* bound: how often the users copy a text

ASSUME ClipAssumption ==
    /\ \E a, b \in Side : a # b /\ Side = {a, b}
    /\ kMaxAttempts \in Nat

VARIABLES
    clip,       \* of each side: the text in the clipboard
    changed,    \* whether the system has yet to report a change
    remote_echo,\* EchoFilter::remote_echo_
    writing,    \* the WriteTextWithRetry under way; it suppresses outbound changes
    net,        \* the texts on their way to each side
    copies, sent, failed    \* how often a user copied, a text was sent, a write failed

clipVars == <<clip, changed, remote_echo, writing, net, copies, sent, failed>>

NotWriting == [pc |-> "idle", text |-> Nothing, tries |-> 0]
Other(s) == CHOOSE o \in Side : o # s

ClipInit ==
    /\ clip = [s \in Side |-> Nothing]
    /\ changed = [s \in Side |-> FALSE]
    /\ remote_echo = [s \in Side |-> Nothing]
    /\ writing = [s \in Side |-> NotWriting]
    /\ net = [s \in Side |-> <<>>]
    /\ copies = 0 /\ sent = 0 /\ failed = 0

SetClip(s, text) ==
    /\ clip' = [clip EXCEPT ![s] = text]
    /\ changed' = [changed EXCEPT ![s] = TRUE]

UserCopies(s, text) ==
    /\ copies < kMaxCopies
    /\ SetClip(s, text)
    /\ copies' = copies + 1
    /\ UNCHANGED <<remote_echo, writing, net, sent, failed>>

\* IPlatform::Clear.
ClearClip(s) ==
    /\ clip[s] # Nothing
    /\ SetClip(s, Nothing)
    /\ UNCHANGED <<remote_echo, writing, net, copies, sent, failed>>

IsOutboundSuppressed(s) == writing[s].pc # "idle"

\* Mutant: only the suppression is asked for, not the echo.
SkipSuppressedOnly(s, text) == IsOutboundSuppressed(s)

ShouldSkipOutbound(s, text) == IsOutboundSuppressed(s) \/ text = remote_echo[s]

\* A change is reported, and Read fails after twenty attempts, or gets the
\* text, which is sent unless it is to be skipped.
OnChange(s) ==
    /\ changed[s]
    /\ changed' = [changed EXCEPT ![s] = FALSE]
    /\ \/ UNCHANGED <<net, sent>>
       \/ /\ clip[s] # Nothing /\ ~ShouldSkipOutbound(s, clip[s])
          /\ net' = [net EXCEPT ![Other(s)] = Append(@, clip[s])]
          /\ sent' = sent + 1
    /\ UNCHANGED <<clip, remote_echo, writing, copies, failed>>

\* A text comes in: SetRemoteEcho, SuppressOutboundGuard, WriteTextWithRetry.
Receive(s) ==
    /\ net[s] # <<>> /\ writing[s].pc = "idle"
    /\ net' = [net EXCEPT ![s] = Tail(@)]
    /\ remote_echo' = [remote_echo EXCEPT ![s] = Head(net[s])]
    /\ writing' = [writing EXCEPT ![s] =
            [pc |-> "check", text |-> Head(net[s]), tries |-> kMaxAttempts]]
    /\ UNCHANGED <<clip, changed, copies, sent, failed>>

At(s, pc) == writing[s].pc = pc
Goto(s, pc) == writing' = [writing EXCEPT ![s].pc = pc]
Done(s) == writing' = [writing EXCEPT ![s] = NotWriting] /\ UNCHANGED failed

\* The next attempt, or the end of them.
TryAgain(s) ==
    IF writing[s].tries > 1
    THEN /\ writing' = [writing EXCEPT ![s].pc = "check", ![s].tries = @ - 1]
         /\ UNCHANGED failed
    ELSE writing' = [writing EXCEPT ![s] = NotWriting] /\ failed' = failed + 1

\* The text is there already; else, or if it cannot be read, it is written.
Check(s) ==
    /\ At(s, "check")
    /\ \/ clip[s] = writing[s].text /\ Done(s)
       \/ Goto(s, "write") /\ UNCHANGED failed
    /\ UNCHANGED <<clip, changed, remote_echo, net, copies, sent>>

\* WriteText: EmptyClipboard and SetClipboardData under one OpenClipboard.  It
\* fails with the clipboard as it was, or emptied.
WriteText(s) ==
    /\ At(s, "write")
    /\ \/ SetClip(s, writing[s].text) /\ Goto(s, "verify") /\ UNCHANGED failed
       \/ UNCHANGED <<clip, changed>> /\ TryAgain(s)
       \/ SetClip(s, Nothing) /\ TryAgain(s)
    /\ UNCHANGED <<remote_echo, net, copies, sent>>

Verify(s) ==
    /\ At(s, "verify")
    /\ \/ clip[s] = writing[s].text /\ Done(s)
       \/ TryAgain(s)
    /\ UNCHANGED <<clip, changed, remote_echo, net, copies, sent>>

ClipNext ==
    \/ \E s \in Side, text \in Text : UserCopies(s, text)
    \/ \E s \in Side : ClearClip(s) \/ OnChange(s)
    \/ \E s \in Side : Receive(s) \/ Check(s) \/ WriteText(s) \/ Verify(s)

ClipSpec == ClipInit /\ [][ClipNext]_clipVars

-----------------------------------------------------------------------------
(***************************************************************************)
(* The machines do not send a text back and forth: one that a user copied   *)
(* is sent once, and only a write that failed can bring an older one back   *)
(* (clipboard_echo.cpp:28-33).                                              *)
(***************************************************************************)
NoPingPong == sent <= copies + failed
=============================================================================
