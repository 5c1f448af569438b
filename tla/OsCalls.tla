------------------------------- MODULE OsCalls -------------------------------
(***************************************************************************)
(* The functions of this repository that are a row of system calls, one     *)
(* after the other, each of which may fail, with handles, tokens, COM       *)
(* objects and memory to give back on every way out.  A function is written *)
(* as the sequence of its steps; a run of it keeps the steps left to do.    *)
(* Tests meet one way through such a function: here every call may fail.    *)
(***************************************************************************)
EXTENDS Naturals, Sequences, FiniteSets

(***************************************************************************)
(* The steps.  A handle is named as the variable that holds it.             *)
(***************************************************************************)
Return(r) == [op |-> "return", r |-> r]
Free(h) == [op |-> "free", h |-> h]         \* given back, if it is set at all
Close(h) == [op |-> "close", h |-> h]       \* given back untested: h must be open

\* A call that yields the handles hs; if it fails, the other steps are taken.
TakeElse(hs, other) == [op |-> "take", hs |-> hs, other |-> other]

\* It fails for good: undo is given back, in order, and the function returns r.
Take(hs, undo, r) ==
    TakeElse(hs, [i \in 1 .. Len(undo) |-> Close(undo[i])] \o <<Return(r)>>)

\* A call that yields nothing and may fail in the same way.
Try(undo, r) == Take({}, undo, r)

\* A call that yields the handles or does not: the function goes on.
May(hs) == [op |-> "may", hs |-> hs]

Use(h) == [op |-> "use", h |-> h]           \* h is dereferenced
Keep(h) == [op |-> "keep", h |-> h]         \* handed to the caller or an object
Do(e) == [op |-> "do", e |-> e]             \* e takes place in the system
Drain(h, w) == [op |-> "drain", h |-> h, w |-> w]   \* read h until no w is open
Either(a, b) == [op |-> "either", a |-> a, b |-> b] \* a condition on data
If(h, a, b) == [op |-> "if", h |-> h, a |-> a, b |-> b]  \* h is set, or not
Loop(body) == [op |-> "loop", body |-> body]
Again(body) == [op |-> "again", body |-> body]      \* a loop that was entered
Once(body) == [op |-> "once", body |-> body]        \* do { ... } while (0)
End == [op |-> "end"]
Break == [op |-> "break"]
Continue == [op |-> "continue"]

When(a) == Either(a, <<>>)

VARIABLES
    call,       \* the name of the function that runs
    rest,       \* its steps from here on
    held,       \* the handles that are open
    freed,      \* the handles that were given back, their variables unchanged
    lost,       \* the handles overwritten while open
    misused,    \* the handles used or given back when not open
    did,        \* what took place
    result      \* what it returned, or "none"

callVars == <<call, rest, held, freed, lost, misused, did, result>>

StartCall(name, steps) ==
    /\ call = name /\ rest = steps
    /\ held = {} /\ freed = {} /\ lost = {} /\ misused = {} /\ did = {}
    /\ result = "none"

-----------------------------------------------------------------------------
Step == Head(rest)
GoOn(steps) == rest' = steps \o Tail(rest)
At(op) == result = "none" /\ rest # <<>> /\ Step.op = op

\* Where the loop or block that runs now turns around or ends.
Around == CHOOSE i \in 1 .. Len(rest) :
            /\ rest[i].op \in {"again", "end"}
            /\ \A j \in 1 .. i - 1 : rest[j].op \notin {"again", "end"}

Opened(hs) ==
    /\ held' = held \cup hs
    /\ freed' = freed \ hs
    /\ lost' = lost \cup (hs \cap held)

TakeWorks ==
    /\ At("take")
    /\ Opened(Step.hs)
    /\ GoOn(<<>>)
    /\ UNCHANGED <<call, misused, did, result>>

\* A variable whose call failed holds nothing, and nothing that was given back.
TakeFails ==
    /\ At("take")
    /\ GoOn(Step.other)
    /\ freed' = freed \ Step.hs
    /\ UNCHANGED <<call, held, lost, misused, did, result>>

MayWork ==
    /\ At("may")
    /\ GoOn(<<>>)
    /\ \/ Opened(Step.hs)
       \/ freed' = freed \ Step.hs /\ UNCHANGED <<held, lost>>
    /\ UNCHANGED <<call, misused, did, result>>

UseHandle ==
    /\ At("use")
    /\ misused' = IF Step.h \in held THEN misused ELSE misused \cup {Step.h}
    /\ GoOn(<<>>)
    /\ UNCHANGED <<call, held, freed, lost, did, result>>

GiveBack ==
    /\ At("free") \/ At("close")
    /\ held' = held \ {Step.h}
    /\ freed' = IF Step.h \in held THEN freed \cup {Step.h} ELSE freed
    /\ misused' = IF Step.h \in freed \/ (Step.op = "close" /\ Step.h \notin held)
                  THEN misused \cup {Step.h} ELSE misused
    /\ GoOn(<<>>)
    /\ UNCHANGED <<call, lost, did, result>>

HandOver ==
    /\ At("keep")
    /\ held' = held \ {Step.h}
    /\ GoOn(<<>>)
    /\ UNCHANGED <<call, freed, lost, misused, did, result>>

TakePlace ==
    /\ At("do")
    /\ did' = did \cup {Step.e}
    /\ GoOn(<<>>)
    /\ UNCHANGED <<call, held, freed, lost, misused, result>>

\* Reading to the end of a pipe whose other end this process holds open itself
\* never ends.
ReadToEnd ==
    /\ At("drain")
    /\ misused' = misused \cup ({Step.w} \cap held) \cup ({Step.h} \ held)
    /\ GoOn(<<>>)
    /\ UNCHANGED <<call, held, freed, lost, did, result>>

Choose ==
    /\ At("either")
    /\ GoOn(Step.a) \/ GoOn(Step.b)
    /\ UNCHANGED <<call, held, freed, lost, misused, did, result>>

Test ==
    /\ At("if")
    /\ GoOn(IF Step.h \in held THEN Step.a ELSE Step.b)
    /\ UNCHANGED <<call, held, freed, lost, misused, did, result>>

TurnAround ==
    /\ At("loop") \/ At("again")
    /\ \/ At("loop") /\ GoOn(<<Again(Step.body)>>)
       \/ At("again") /\ rest' = Step.body \o rest
       \/ At("again") /\ GoOn(<<>>)
    /\ UNCHANGED <<call, held, freed, lost, misused, did, result>>

Enter ==
    /\ At("once") \/ At("end")
    /\ IF Step = End THEN GoOn(<<>>) ELSE GoOn(Append(Step.body, End))
    /\ UNCHANGED <<call, held, freed, lost, misused, did, result>>

Jump ==
    /\ At("break") \/ At("continue")
    /\ LET from == IF Step = Break THEN Around + 1 ELSE Around
       IN  rest' = SubSeq(rest, from, Len(rest))
    /\ UNCHANGED <<call, held, freed, lost, misused, did, result>>

Finish ==
    /\ At("return")
    /\ result' = Step.r
    /\ rest' = <<>>
    /\ UNCHANGED <<call, held, freed, lost, misused, did>>

CallNext ==
    \/ TakeWorks \/ TakeFails \/ MayWork \/ UseHandle \/ GiveBack \/ HandOver
    \/ TakePlace \/ ReadToEnd \/ Choose \/ Test \/ TurnAround \/ Enter \/ Jump \/ Finish
=============================================================================
