------------------------------ MODULE Mailbox ------------------------------
(***************************************************************************)
(* What Thread and MessageLooper promise those who post: a mailbox of       *)
(* bounded size.  A task is put in once, behind all others; the oldest      *)
(* leaves to be begun, or for room when the box is full; any may be         *)
(* withdrawn.  Once the box is over nothing is begun, though a Post that    *)
(* was late may still put a task in.  There is no mutex, no condition       *)
(* variable and no sleep here.                                              *)
(***************************************************************************)
EXTENDS Naturals, Sequences

CONSTANTS Tasks, MaxTasks   \* MaxTasks = 0: a box without a limit

VARIABLES box,          \* the tasks to be begun, the oldest first
          begun,        \* those that were, in their order
          dropped,      \* those that left for room
          withdrawn,    \* those that were taken back
          over

mail == <<box, begun, dropped, withdrawn, over>>

In(seq) == {seq[n] : n \in DOMAIN seq}

Init ==
    /\ box = <<>> /\ begun = <<>>
    /\ dropped = {} /\ withdrawn = {}
    /\ over = FALSE

PutBehind(t) ==
    /\ ~(MaxTasks > 0 /\ Len(box) = MaxTasks)
    /\ box' = Append(box, t)
    /\ UNCHANGED dropped

PutForOldest(t) ==
    /\ MaxTasks > 0 /\ Len(box) = MaxTasks
    /\ box' = Append(Tail(box), t)
    /\ dropped' = dropped \cup {Head(box)}

Put(t) ==
    /\ t \notin In(box) \cup In(begun) \cup dropped \cup withdrawn
    /\ PutBehind(t) \/ PutForOldest(t)
    /\ UNCHANGED <<begun, withdrawn, over>>

Begin ==
    /\ ~over /\ box # <<>>
    /\ begun' = Append(begun, Head(box))
    /\ box' = Tail(box)
    /\ UNCHANGED <<dropped, withdrawn, over>>

Withdraw(n) ==
    /\ box' = SubSeq(box, 1, n - 1) \o SubSeq(box, n + 1, Len(box))
    /\ withdrawn' = withdrawn \cup {box[n]}
    /\ UNCHANGED <<begun, dropped, over>>

WithdrawAll ==
    /\ box' = <<>>
    /\ withdrawn' = withdrawn \cup In(box)
    /\ UNCHANGED <<begun, dropped, over>>

End ==
    /\ over' = TRUE
    /\ UNCHANGED <<box, begun, dropped, withdrawn>>

Next ==
    \/ \E t \in Tasks : Put(t)
    \/ Begin
    \/ \E n \in DOMAIN box : Withdraw(n)
    \/ WithdrawAll
    \/ End

Spec == Init /\ [][Next]_mail
=============================================================================
