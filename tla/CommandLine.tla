----------------------------- MODULE CommandLine -----------------------------
(***************************************************************************)
(* How process_util.cpp makes one command line of a program and its        *)
(* arguments, and how the started program takes it apart again.  A string  *)
(* is a sequence of characters; only the quote, the backslash and the      *)
(* space are told from the others.                                         *)
(***************************************************************************)
EXTENDS Integers, Sequences, SequencesExt

Quote == "q"
Backslash == "b"
Space == "s"

Repeat(c, n) == [i \in 1 .. n |-> c]

\* Mutant: the backslashes before a quote are not doubled.
EscapeCharOnce(st, c) ==
    IF c = Backslash THEN [st EXCEPT !.slashes = @ + 1]
    ELSE LET n == IF c = Quote THEN st.slashes + 1 ELSE st.slashes
         IN  [out |-> st.out \o Repeat(Backslash, n) \o <<c>>, slashes |-> 0]

(***************************************************************************)
(* EscapeArg.  slashes counts the backslashes read and not yet written.    *)
(***************************************************************************)
EscapeChar(st, c) ==
    IF c = Backslash THEN [st EXCEPT !.slashes = @ + 1]
    ELSE LET n == IF c = Quote THEN 2 * st.slashes + 1 ELSE st.slashes
         IN  [out |-> st.out \o Repeat(Backslash, n) \o <<c>>, slashes |-> 0]

EscapeArg(arg) ==
    IF ToSet(arg) \cap {Space, Quote} = {} THEN arg
    ELSE LET st == FoldLeft(EscapeChar, [out |-> <<Quote>>, slashes |-> 0], arg)
         IN  st.out \o Repeat(Backslash, 2 * st.slashes) \o <<Quote>>

BuildCommandLine(exe, args) ==
    FoldLeft(LAMBDA line, arg : line \o <<Space>> \o EscapeArg(arg), EscapeArg(exe), args)

(***************************************************************************)
(* The rules by which the C run time and CommandLineToArgvW split the      *)
(* command line of a process: 2n backslashes before a quote stand for n    *)
(* and leave the quote its meaning, 2n + 1 stand for n and a quote, and    *)
(* elsewhere a backslash stands for itself.  word is the argument being    *)
(* read, begun once it has a character or a quote.                         *)
(***************************************************************************)
EndWord(st) ==
    IF st.begun THEN [st EXCEPT !.words = Append(@, st.word), !.word = <<>>, !.begun = FALSE]
    ELSE st

SplitChar(st, c) ==
    LET half == [st EXCEPT !.word = @ \o Repeat(Backslash, st.slashes \div 2),
                           !.slashes = 0, !.begun = TRUE]
        plain == [st EXCEPT !.word = @ \o Repeat(Backslash, st.slashes),
                            !.slashes = 0, !.begun = IF st.slashes > 0 THEN TRUE ELSE @]
    IN  IF c = Backslash THEN [st EXCEPT !.slashes = @ + 1]
        ELSE IF c = Quote THEN
            IF st.slashes % 2 = 1 THEN [half EXCEPT !.word = Append(@, Quote)]
            ELSE [half EXCEPT !.quoted = ~@]
        ELSE IF c = Space /\ ~st.quoted THEN EndWord(plain)
        ELSE [plain EXCEPT !.word = Append(@, c), !.begun = TRUE]

SplitCommandLine(line) ==
    EndWord(SplitChar(
        FoldLeft(SplitChar, [words |-> <<>>, word |-> <<>>, begun |-> FALSE,
                             quoted |-> FALSE, slashes |-> 0], line), Space)).words

\* What comes out of the split: EscapeArg writes an empty argument as nothing.
Given(arrived, arg) == IF arg = <<>> THEN arrived ELSE Append(arrived, arg)

Arriving(exe, args) == FoldLeft(Given, <<>>, <<exe>> \o args)
=============================================================================
