--------------------------- MODULE WorkersProofs ---------------------------
(***************************************************************************)
(* What holds of a Thread and a MessageLooper for any number of tasks and   *)
(* any limit.  The order in which tasks were appended carries the argument: *)
(* what was begun is earlier than what is listed, and what was dropped for  *)
(* room is earlier than what is listed; since a task is appended once, no   *)
(* task is earlier than itself, so the places a task can be in are apart.   *)
(***************************************************************************)
EXTENDS Workers, FiniteSetTheorems, SequenceTheorems, TLAPS

Distinct(seq) == \A m, n \in DOMAIN seq : seq[m] = seq[n] => m = n

\* a was appended before b.
Earlier(a, b) ==
    \E m, n \in DOMAIN posted : m < n /\ posted[m] = a /\ posted[n] = b

\* The tasks of seq were appended in its order.
InOrder(seq) == \A m, n \in DOMAIN seq : m < n => Earlier(seq[m], seq[n])

LoopPlaces == {"off", "head", "wait", "tested", "asleep", "take", "run", "done"}

WorkersTypeOK ==
    /\ tasks \in Seq(Tasks) /\ posted \in Seq(Tasks) /\ ran \in Seq(Tasks)
    /\ posting \subseteq Tasks /\ evicted \subseteq Tasks /\ removed \subseteq Tasks
    /\ exit \in BOOLEAN
    /\ loop \in LoopPlaces
    /\ kind \in {"Thread", "MessageLooper"}
    /\ thread \in {"none", "started", "kept", "joined"}
    /\ owner \in {"idle", "notifying", "joining"}
    /\ over \in BOOLEAN

Order ==
    /\ Distinct(posted)
    /\ posting \cap Elements(posted) = {}
    /\ InOrder(ran) /\ InOrder(tasks)
    /\ \A a \in Elements(ran) \cup evicted, b \in Elements(tasks) : Earlier(a, b)

Kept ==
    /\ Elements(posted) = Elements(tasks) \cup Elements(ran) \cup evicted \cup removed
    /\ evicted \cap Elements(ran) = {}
    /\ removed \cap (Elements(tasks) \cup Elements(ran) \cup evicted) = {}

Limit ==
    /\ MaxTasks > 0 => Len(tasks) <= MaxTasks
    /\ MaxTasks = 0 => evicted = {}

\* What Exit has ended for good: at most a thread that a late Poll started is at
\* the head of the loop, where it finds exit_ set.
Ended ==
    /\ over => kind = "Thread" /\ exit /\ loop \in {"off", "head", "done"}
    /\ owner # "idle" => exit
    /\ owner = "joining" => kind = "Thread"
    /\ kind = "Thread" => /\ thread = "none" => loop = "off"
                          /\ thread = "joined" => loop = "done"
    /\ loop # "run" => current = NoTask

IInv ==
    /\ WorkersTypeOK /\ Order /\ Kept /\ Limit
    /\ NoTaskWhileAsleep /\ Ended

-----------------------------------------------------------------------------
\* What Append does to the tasks of a sequence.
LEMMA AppendElements ==
    ASSUME NEW seq \in Seq(Tasks), NEW t \in Tasks
    PROVE  /\ Append(seq, t) \in Seq(Tasks)
           /\ Elements(Append(seq, t)) = Elements(seq) \cup {t}
<1> DEFINE longer == Append(seq, t)
<1>1. /\ longer \in Seq(Tasks) /\ Len(longer) = Len(seq) + 1
      /\ DOMAIN longer = 1 .. Len(seq) + 1 /\ DOMAIN seq = 1 .. Len(seq)
      /\ \A n \in 1 .. Len(seq) : longer[n] = seq[n]
      /\ longer[Len(seq) + 1] = t
  OBVIOUS
<1>2. Len(seq) \in Nat
  OBVIOUS
<1>3. Elements(longer) \subseteq Elements(seq) \cup {t}
  BY <1>1, <1>2 DEF Elements
<1>4. Elements(seq) \cup {t} \subseteq Elements(longer)
  BY <1>1, <1>2 DEF Elements
<1> QED
  BY <1>1, <1>3, <1>4

\* What taking the first task away does.
LEMMA TailElements ==
    ASSUME NEW seq \in Seq(Tasks), seq # <<>>
    PROVE  /\ Head(seq) \in Tasks /\ Tail(seq) \in Seq(Tasks)
           /\ Elements(seq) = Elements(Tail(seq)) \cup {Head(seq)}
           /\ Len(Tail(seq)) = Len(seq) - 1
<1>1. /\ Len(seq) \in Nat \ {0} /\ DOMAIN seq = 1 .. Len(seq)
      /\ Head(seq) = seq[1] /\ seq[1] \in Tasks
  OBVIOUS
<1>2. /\ Tail(seq) \in Seq(Tasks) /\ Len(Tail(seq)) = Len(seq) - 1
      /\ DOMAIN Tail(seq) = 1 .. Len(seq) - 1
      /\ \A n \in 1 .. Len(seq) - 1 : Tail(seq)[n] = seq[n + 1]
  BY <1>1
<1>3. Elements(Tail(seq)) \cup {Head(seq)} \subseteq Elements(seq)
  BY <1>1, <1>2 DEF Elements
<1>4. ASSUME NEW n \in 1 .. Len(seq)
      PROVE  seq[n] \in Elements(Tail(seq)) \cup {Head(seq)}
  <2>1. CASE n = 1
    BY <1>1, <2>1
  <2>2. CASE n # 1
    <3>1. n - 1 \in 1 .. Len(seq) - 1 /\ (n - 1) + 1 = n
      BY <1>1, <2>2
    <3> QED BY <1>2, <3>1 DEF Elements
  <2> QED BY <2>1, <2>2
<1> QED
  BY <1>1, <1>2, <1>3, <1>4 DEF Elements

\* What taking the n-th task out does, when no task is listed twice.
LEMMA ErasedElements ==
    ASSUME NEW seq \in Seq(Tasks), NEW n \in DOMAIN seq
    PROVE  /\ Erased(seq, n) \in Seq(Tasks)
           /\ Len(Erased(seq, n)) = Len(seq) - 1
           /\ \A m \in 1 .. Len(seq) - 1 :
                Erased(seq, n)[m] = IF m < n THEN seq[m] ELSE seq[m + 1]
           /\ Elements(seq) = Elements(Erased(seq, n)) \cup {seq[n]}
           /\ Distinct(seq) => seq[n] \notin Elements(Erased(seq, n))
<1> DEFINE front == SubSeq(seq, 1, n - 1)
           back == SubSeq(seq, n + 1, Len(seq))
           short == Erased(seq, n)
<1>1. Len(seq) \in Nat /\ DOMAIN seq = 1 .. Len(seq) /\ n \in 1 .. Len(seq)
  OBVIOUS
<1>2. /\ front \in Seq(Tasks) /\ Len(front) = n - 1
      /\ \A m \in 1 .. n - 1 : front[m] = seq[m]
  BY <1>1
<1>3. /\ back \in Seq(Tasks) /\ Len(back) = Len(seq) - n
      /\ \A m \in 1 .. Len(seq) - n : back[m] = seq[m + n]
  BY <1>1
<1>4. /\ short \in Seq(Tasks) /\ Len(short) = Len(seq) - 1
      /\ \A m \in 1 .. Len(seq) - 1 :
           short[m] = IF m <= n - 1 THEN front[m] ELSE back[m - (n - 1)]
  <2>1. short = front \o back
    BY DEF Erased
  <2> HIDE DEF front, back, short
  <2>2. /\ front \o back \in Seq(Tasks) /\ Len(front \o back) = Len(front) + Len(back)
        /\ \A m \in 1 .. Len(front) + Len(back) :
             (front \o back)[m] = IF m <= Len(front) THEN front[m] ELSE back[m - Len(front)]
    BY <1>2, <1>3, ConcatProperties
  <2>3. Len(front) + Len(back) = Len(seq) - 1
    BY <1>1, <1>2, <1>3
  <2> QED BY <1>2, <2>1, <2>2, <2>3
<1>5. ASSUME NEW m \in 1 .. Len(seq) - 1
      PROVE  short[m] = IF m < n THEN seq[m] ELSE seq[m + 1]
  <2> HIDE DEF front, back, short
  <2>1. CASE m < n
    BY <1>1, <1>2, <1>4, <2>1
  <2>2. CASE ~(m < n)
    <3> DEFINE k == m - (n - 1)
    <3>1. k \in 1 .. Len(seq) - n /\ k + n = m + 1 /\ ~(m <= n - 1)
      BY <1>1, <2>2
    <3>2. short[m] = back[k]
      BY <1>4, <3>1
    <3> HIDE DEF k
    <3> QED BY <1>3, <2>2, <3>1, <3>2
  <2> QED BY <2>1, <2>2
<1> HIDE DEF short, front, back
<1>6. DOMAIN short = 1 .. Len(seq) - 1
  BY <1>4
<1>7. Elements(short) \subseteq Elements(seq)
  BY <1>1, <1>5, <1>6 DEF Elements
<1>8. ASSUME NEW m \in 1 .. Len(seq), m # n
      PROVE  seq[m] \in Elements(short)
  <2>1. CASE m < n
    BY <1>1, <1>5, <1>6, <2>1 DEF Elements
  <2>2. CASE m > n
    <3>1. m - 1 \in 1 .. Len(seq) - 1 /\ ~(m - 1 < n) /\ (m - 1) + 1 = m
      BY <1>1, <2>2
    <3> QED BY <1>5, <1>6, <3>1 DEF Elements
  <2> QED BY <1>1, <1>8, <2>1, <2>2
<1>9. ASSUME Distinct(seq) PROVE seq[n] \notin Elements(short)
  BY <1>1, <1>5, <1>6, <1>9 DEF Elements, Distinct
<1>10. Elements(seq) = Elements(short) \cup {seq[n]}
  BY <1>1, <1>7, <1>8 DEF Elements
<1> QED
  BY <1>4, <1>5, <1>9, <1>10 DEF short

-----------------------------------------------------------------------------
\* A task is appended once, so it is not earlier than itself.
LEMMA NotEarlierThanItself ==
    ASSUME posted \in Seq(Tasks), Distinct(posted), NEW a
    PROVE  ~Earlier(a, a)
<1> SUFFICES ASSUME Earlier(a, a) PROVE FALSE
  OBVIOUS
<1>1. PICK m \in DOMAIN posted, n \in DOMAIN posted : m < n /\ posted[m] = a /\ posted[n] = a
  BY DEF Earlier
<1>2. m = n
  BY <1>1 DEF Distinct
<1>3. m \in Nat
  OBVIOUS
<1> QED BY <1>1, <1>2, <1>3

\* A list whose first task is taken stays in order, and that task was the
\* earliest of it.
LEMMA TailInOrder ==
    ASSUME NEW seq \in Seq(Tasks), seq # <<>>, InOrder(seq)
    PROVE  /\ InOrder(Tail(seq))
           /\ \A b \in Elements(Tail(seq)) : Earlier(Head(seq), b)
<1>1. /\ Len(seq) \in Nat \ {0} /\ DOMAIN seq = 1 .. Len(seq)
      /\ DOMAIN Tail(seq) = 1 .. Len(seq) - 1
      /\ \A n \in 1 .. Len(seq) - 1 : Tail(seq)[n] = seq[n + 1]
      /\ Head(seq) = seq[1]
  OBVIOUS
<1>2. ASSUME NEW m \in DOMAIN Tail(seq), NEW n \in DOMAIN Tail(seq), m < n
      PROVE  Earlier(Tail(seq)[m], Tail(seq)[n])
  <2>1. m + 1 \in DOMAIN seq /\ n + 1 \in DOMAIN seq /\ m + 1 < n + 1
    BY <1>1, <1>2
  <2>2. Earlier(seq[m + 1], seq[n + 1])
    BY <2>1 DEF InOrder
  <2> QED BY <1>1, <2>2
<1>3. ASSUME NEW n \in DOMAIN Tail(seq)
      PROVE  Earlier(Head(seq), Tail(seq)[n])
  <2>1. 1 \in DOMAIN seq /\ n + 1 \in DOMAIN seq /\ 1 < n + 1
    BY <1>1
  <2>2. Earlier(seq[1], seq[n + 1])
    BY <2>1 DEF InOrder
  <2> QED BY <1>1, <2>2
<1> QED BY <1>2, <1>3 DEF InOrder, Elements

\* A sequence in order holds no task twice.
LEMMA InOrderDistinct ==
    ASSUME NEW seq \in Seq(Tasks), InOrder(seq), posted \in Seq(Tasks), Distinct(posted)
    PROVE  Distinct(seq)
<1> SUFFICES ASSUME NEW m \in DOMAIN seq, NEW n \in DOMAIN seq, seq[m] = seq[n]
             PROVE  m = n
  BY DEF Distinct
<1>1. ~(m < n) /\ ~(n < m)
  BY NotEarlierThanItself DEF InOrder
<1>2. m \in Nat /\ n \in Nat
  OBVIOUS
<1> QED BY <1>1, <1>2

\* A list another task is taken out of stays in order.
LEMMA ErasedInOrder ==
    ASSUME NEW seq \in Seq(Tasks), NEW n \in DOMAIN seq, InOrder(seq)
    PROVE  InOrder(Erased(seq, n))
<1> DEFINE from(m) == IF m < n THEN m ELSE m + 1
<1>1. /\ Len(seq) \in Nat /\ DOMAIN seq = 1 .. Len(seq) /\ n \in 1 .. Len(seq)
      /\ DOMAIN Erased(seq, n) = 1 .. Len(seq) - 1
      /\ \A m \in 1 .. Len(seq) - 1 : Erased(seq, n)[m] = seq[from(m)]
  BY ErasedElements
<1> SUFFICES ASSUME NEW m \in DOMAIN Erased(seq, n), NEW k \in DOMAIN Erased(seq, n), m < k
             PROVE  Earlier(Erased(seq, n)[m], Erased(seq, n)[k])
  BY DEF InOrder
<1>2. from(m) \in DOMAIN seq /\ from(k) \in DOMAIN seq /\ from(m) < from(k)
  BY <1>1
<1>3. Erased(seq, n)[m] = seq[from(m)] /\ Erased(seq, n)[k] = seq[from(k)]
  BY <1>1
<1> HIDE DEF from
<1> QED BY <1>2, <1>3 DEF InOrder

\* A task that is appended for the first time is later than all before it, and
\* leaves their order as it was.
LEMMA PostedGrows ==
    ASSUME posted \in Seq(Tasks), NEW t \in Tasks, t \notin Elements(posted),
           posted' = Append(posted, t), Distinct(posted)
    PROVE  /\ Distinct(posted)'
           /\ \A a, b : Earlier(a, b) => Earlier(a, b)'
           /\ \A a \in Elements(posted) : Earlier(a, t)'
<1>1. /\ Len(posted) \in Nat /\ DOMAIN posted = 1 .. Len(posted)
      /\ DOMAIN posted' = 1 .. Len(posted) + 1
      /\ \A n \in 1 .. Len(posted) : posted'[n] = posted[n]
      /\ posted'[Len(posted) + 1] = t
  OBVIOUS
<1>2. \A n \in 1 .. Len(posted) : posted'[n] # t
  BY <1>1 DEF Elements
<1>3. Distinct(posted)'
  <2> SUFFICES ASSUME NEW m \in DOMAIN posted', NEW n \in DOMAIN posted',
                      posted'[m] = posted'[n]
               PROVE  m = n
    BY DEF Distinct
  <2>1. CASE m \in 1 .. Len(posted) /\ n \in 1 .. Len(posted)
    BY <1>1, <2>1 DEF Distinct
  <2>2. CASE m = Len(posted) + 1 \/ n = Len(posted) + 1
    BY <1>1, <1>2, <2>2
  <2> QED BY <1>1, <2>1, <2>2
<1>4. ASSUME NEW a, NEW b, Earlier(a, b)
      PROVE  Earlier(a, b)'
  BY <1>1, <1>4 DEF Earlier
<1>5. ASSUME NEW n \in DOMAIN posted
      PROVE  Earlier(posted[n], t)'
  <2>1. n \in DOMAIN posted' /\ Len(posted) + 1 \in DOMAIN posted' /\ n < Len(posted) + 1
    BY <1>1
  <2>2. posted'[n] = posted[n] /\ posted'[Len(posted) + 1] = t
    BY <1>1
  <2> QED BY <2>1, <2>2 DEF Earlier
<1> QED BY <1>3, <1>4, <1>5 DEF Elements

-----------------------------------------------------------------------------
\* What a step leaves alone when it touches no list.
ListsSame == UNCHANGED <<tasks, posted, ran, evicted, removed>>

LEMMA ListsSameHolds ==
    ASSUME IInv, ListsSame, posting' \subseteq Tasks, posting' \cap Elements(posted) = {}
    PROVE  Order' /\ Kept' /\ Limit'
<1>1. Order'
  <2>1. InOrder(ran)' /\ InOrder(tasks)' /\ Distinct(posted)'
    BY DEF IInv, Order, ListsSame, InOrder, Earlier, Distinct
  <2>2. \A a \in (Elements(ran) \cup evicted)', b \in Elements(tasks)' : Earlier(a, b)'
    BY DEF IInv, Order, ListsSame, Elements, Earlier
  <2> QED BY <2>1, <2>2 DEF Order, ListsSame, Elements
<1>2. Kept' /\ Limit'
  BY DEF IInv, Kept, Limit, ListsSame, Elements
<1> QED BY <1>1, <1>2

\* The front task is taken off the list and begun.
LEMMA TakeHolds ==
    ASSUME IInv, Take, UNCHANGED ownerVars
    PROVE  IInv'
<1> USE DEF IInv
<1>1. CASE tasks = <<>>
  <2>1. ListsSame /\ UNCHANGED <<posting, exit, ownerVars>> /\ loop' = "head"
    BY <1>1 DEF Take, ListsSame
  <2>2. WorkersTypeOK'
    BY <2>1 DEF WorkersTypeOK, ListsSame, LoopPlaces, ownerVars
  <2>3. Order' /\ Kept' /\ Limit'
    BY <2>1, ListsSameHolds DEF WorkersTypeOK, Order
  <2>4. NoTaskWhileAsleep' /\ Ended'
    BY <2>1 DEF NoTaskWhileAsleep, Ended, Take, ownerVars
  <2> QED BY <2>2, <2>3, <2>4
<1>2. CASE tasks # <<>>
  <2> DEFINE t == Head(tasks)
  <2>1. /\ tasks' = Tail(tasks) /\ ran' = Append(ran, t) /\ loop' = "run" /\ loop = "take"
        /\ UNCHANGED <<exit, posting, posted, evicted, removed, ownerVars>>
    BY <1>2 DEF Take
  <2>2. /\ t \in Tasks /\ tasks' \in Seq(Tasks)
        /\ Elements(tasks) = Elements(tasks)' \cup {t} /\ Len(tasks') = Len(tasks) - 1
    <3>1. /\ t \in Tasks /\ Tail(tasks) \in Seq(Tasks) /\ Len(Tail(tasks)) = Len(tasks) - 1
          /\ Elements(tasks) = Elements(Tail(tasks)) \cup {t}
      BY <1>2, TailElements DEF WorkersTypeOK
    <3>2. Elements(tasks)' = Elements(Tail(tasks))
      BY <2>1 DEF Elements
    <3> QED BY <2>1, <3>1, <3>2
  <2>3. ran' \in Seq(Tasks) /\ Elements(ran)' = Elements(ran) \cup {t}
    <3>1. ran \in Seq(Tasks) /\ t \in Tasks
      BY <2>2 DEF WorkersTypeOK
    <3> HIDE DEF t
    <3>2. /\ Append(ran, t) \in Seq(Tasks)
          /\ Elements(Append(ran, t)) = Elements(ran) \cup {t}
      BY <3>1, AppendElements
    <3>3. Elements(ran)' = Elements(Append(ran, t))
      BY <2>1 DEF Elements
    <3> QED BY <2>1, <3>2, <3>3
  <2>4. \A a, b : Earlier(a, b)' <=> Earlier(a, b)
    BY <2>1 DEF Earlier
  <2>5. /\ InOrder(Tail(tasks))
        /\ \A b \in Elements(Tail(tasks)) : Earlier(t, b)
    BY <1>2, TailInOrder DEF WorkersTypeOK, Order
  <2>6. t \notin Elements(tasks)'
    BY <2>1, <2>5, NotEarlierThanItself DEF WorkersTypeOK, Order, Elements
  <2>7. \A a \in Elements(ran) \cup evicted : Earlier(a, t)
    BY <2>2 DEF Order
  <2>8. t \notin Elements(ran) \cup evicted
    BY <2>7, NotEarlierThanItself DEF WorkersTypeOK, Order
  <2> HIDE DEF t
  <2>9. WorkersTypeOK'
    BY <2>1, <2>2, <2>3 DEF WorkersTypeOK, LoopPlaces, ownerVars
  <2>10. InOrder(ran)'
    <3> SUFFICES ASSUME NEW m \in DOMAIN ran', NEW n \in DOMAIN ran', m < n
                 PROVE  Earlier(ran'[m], ran'[n])
      BY <2>4 DEF InOrder
    <3>1. /\ Len(ran) \in Nat /\ DOMAIN ran = 1 .. Len(ran) /\ DOMAIN ran' = 1 .. Len(ran) + 1
          /\ \A k \in 1 .. Len(ran) : ran'[k] = ran[k]
          /\ ran'[Len(ran) + 1] = t
      BY <2>1, <2>2 DEF WorkersTypeOK
    <3>2. m \in 1 .. Len(ran)
      BY <3>1
    <3>3. CASE n \in 1 .. Len(ran)
      BY <3>1, <3>2, <3>3 DEF Order, InOrder
    <3>4. CASE n = Len(ran) + 1
      <4>1. ran'[m] \in Elements(ran) /\ ran'[n] = t
        BY <3>1, <3>2, <3>4 DEF Elements
      <4> QED BY <2>7, <4>1
    <3> QED BY <3>1, <3>3, <3>4
  <2>11. InOrder(tasks)' /\ Distinct(posted)'
    BY <2>1, <2>4, <2>5 DEF InOrder, Order, Distinct
  <2>12. \A a \in (Elements(ran) \cup evicted)', b \in Elements(tasks)' : Earlier(a, b)'
    <3>1. (Elements(ran) \cup evicted)' = Elements(ran) \cup evicted \cup {t}
      BY <2>1, <2>3
    <3>2. Elements(tasks)' = Elements(Tail(tasks)) /\ Elements(tasks)' \subseteq Elements(tasks)
      BY <2>1, <2>2 DEF Elements
    <3> QED BY <2>4, <2>5, <3>1, <3>2 DEF Order
  <2>13. Order'
    BY <2>1, <2>10, <2>11, <2>12 DEF Order, Elements
  <2>14. Kept'
    <3>1. Elements(posted)' = Elements(posted)
      BY <2>1 DEF Elements
    <3> QED BY <2>1, <2>2, <2>3, <2>6, <2>8, <3>1 DEF Kept
  <2>15. Limit'
    BY <2>1, <2>2, LoopAssumption DEF Limit, WorkersTypeOK
  <2>16. NoTaskWhileAsleep' /\ Ended'
    BY <2>1 DEF NoTaskWhileAsleep, Ended, ownerVars
  <2> QED BY <2>9, <2>13, <2>14, <2>15, <2>16
<1> QED BY <1>1, <1>2

\* Post appends its task, and drops the oldest of a full list.
LEMMA EnqueueHolds ==
    ASSUME IInv, NEW t \in Tasks, FinishPost(t)
    PROVE  IInv'
<1> USE DEF IInv
<1> DEFINE kept == IF IsFull THEN Tail(tasks) ELSE tasks
           gone == Elements(tasks) \ Elements(kept)
<1>1. /\ tasks' = Append(kept, t) /\ evicted' = evicted \cup gone
      /\ posted' = Append(posted, t) /\ posting' = posting \ {t} /\ loop' = Notified
      /\ t \in posting /\ loop # "tested"
      /\ UNCHANGED <<exit, current, ran, removed, ownerVars>>
  BY DEF FinishPost, Enqueue, MutexFree
<1>2. tasks \in Seq(Tasks) /\ posted \in Seq(Tasks) /\ ran \in Seq(Tasks)
  BY DEF WorkersTypeOK
<1>3. /\ kept \in Seq(Tasks) /\ InOrder(kept)
      /\ Elements(tasks) = Elements(kept) \cup gone
      /\ \A a \in gone, b \in Elements(kept) : Earlier(a, b)
      /\ MaxTasks > 0 => Len(kept) + 1 <= MaxTasks
      /\ MaxTasks = 0 => gone = {}
  <2>1. CASE IsFull
    <3>1. tasks # <<>> /\ MaxTasks > 0 /\ kept = Tail(tasks)
      BY <1>2, <2>1, LoopAssumption DEF IsFull
    <3>2. /\ Tail(tasks) \in Seq(Tasks)
          /\ Elements(tasks) = Elements(Tail(tasks)) \cup {Head(tasks)}
          /\ Len(Tail(tasks)) = Len(tasks) - 1
      BY <1>2, <3>1, TailElements
    <3>3. /\ InOrder(Tail(tasks))
          /\ \A b \in Elements(Tail(tasks)) : Earlier(Head(tasks), b)
      BY <1>2, <3>1, TailInOrder DEF Order
    <3>4. gone \subseteq {Head(tasks)} /\ Elements(tasks) = Elements(kept) \cup gone
      BY <3>1, <3>2
    <3> HIDE DEF kept, gone
    <3>5. MaxTasks > 0 => Len(kept) + 1 <= MaxTasks
      BY <1>2, <3>1, <3>2, LoopAssumption DEF Limit
    <3> QED BY <3>1, <3>2, <3>3, <3>4, <3>5, LoopAssumption
  <2>2. CASE ~IsFull
    <3>1. kept = tasks /\ gone = {}
      BY <2>2
    <3>2. MaxTasks > 0 => Len(tasks) + 1 <= MaxTasks
      BY <1>2, <2>2, LoopAssumption DEF IsFull
    <3> QED BY <1>2, <3>1, <3>2 DEF Order
  <2> QED BY <2>1, <2>2
<1> HIDE DEF kept, gone
<1>4. tasks' \in Seq(Tasks) /\ Elements(tasks)' = Elements(kept) \cup {t}
  <2>1. /\ Append(kept, t) \in Seq(Tasks)
        /\ Elements(Append(kept, t)) = Elements(kept) \cup {t}
    BY <1>3, AppendElements
  <2> QED BY <1>1, <2>1 DEF Elements
<1>5. posted' \in Seq(Tasks) /\ Elements(posted)' = Elements(posted) \cup {t}
  <2>1. /\ Append(posted, t) \in Seq(Tasks)
        /\ Elements(Append(posted, t)) = Elements(posted) \cup {t}
    BY <1>2, AppendElements
  <2> QED BY <1>1, <2>1 DEF Elements
<1>6. t \notin Elements(posted)
  BY <1>1 DEF Order
<1>7. /\ Distinct(posted)'
      /\ \A a, b : Earlier(a, b) => Earlier(a, b)'
      /\ \A a \in Elements(posted) : Earlier(a, t)'
  BY <1>1, <1>2, <1>6, PostedGrows DEF Order
<1>8. gone \subseteq Elements(tasks) /\ Elements(kept) \subseteq Elements(tasks)
  BY <1>3
<1>9. WorkersTypeOK'
  <2>1. gone \subseteq Tasks
    BY <1>2, <1>8 DEF Elements
  <2>2. posting' \subseteq Tasks /\ evicted' \subseteq Tasks /\ removed' \subseteq Tasks
    BY <1>1, <2>1 DEF WorkersTypeOK
  <2>3. /\ exit' \in BOOLEAN /\ loop' \in LoopPlaces /\ ran' \in Seq(Tasks)
        /\ kind' \in {"Thread", "MessageLooper"}
        /\ thread' \in {"none", "started", "kept", "joined"}
        /\ owner' \in {"idle", "notifying", "joining"} /\ over' \in BOOLEAN
    BY <1>1 DEF WorkersTypeOK, Notified, LoopPlaces, ownerVars
  <2> QED BY <1>4, <1>5, <2>2, <2>3 DEF WorkersTypeOK
<1>10. InOrder(tasks)'
  <2> SUFFICES ASSUME NEW m \in DOMAIN tasks', NEW n \in DOMAIN tasks', m < n,
                      NEW a, a = tasks'[m], NEW b, b = tasks'[n]
               PROVE  Earlier(a, b)'
    BY DEF InOrder, Earlier
  <2>1. /\ Len(kept) \in Nat /\ DOMAIN kept = 1 .. Len(kept)
        /\ DOMAIN tasks' = 1 .. Len(kept) + 1
        /\ \A k \in 1 .. Len(kept) : tasks'[k] = kept[k]
        /\ tasks'[Len(kept) + 1] = t
    BY <1>1, <1>3
  <2>2. m \in 1 .. Len(kept) /\ a = kept[m]
    BY <2>1
  <2>3. CASE n \in 1 .. Len(kept)
    <3>1. Earlier(a, b)
      BY <1>3, <2>1, <2>2, <2>3 DEF InOrder
    <3> QED BY <1>7, <3>1
  <2>4. CASE n = Len(kept) + 1
    <3>1. a \in Elements(kept) /\ b = t
      BY <2>1, <2>2, <2>4 DEF Elements
    <3>2. a \in Elements(posted)
      BY <1>8, <3>1 DEF Kept
    <3> QED BY <1>7, <3>1, <3>2
  <2> QED BY <2>1, <2>3, <2>4
<1>11. InOrder(ran)'
  BY <1>1, <1>7 DEF Order, InOrder
<1>12. \A a \in (Elements(ran) \cup evicted)', b \in Elements(tasks)' : Earlier(a, b)'
  <2>4. Elements(ran)' = Elements(ran)
    BY <1>1 DEF Elements
  <2>5. (Elements(ran) \cup evicted)' = Elements(ran) \cup evicted \cup gone
    BY <1>1, <2>4
  <2> SUFFICES ASSUME NEW a \in Elements(ran) \cup evicted \cup gone,
                      NEW b \in Elements(kept) \cup {t}
               PROVE  Earlier(a, b)'
    BY <1>4, <2>5
  <2>1. a \in Elements(posted)
    BY <1>8 DEF Kept
  <2>2. CASE b = t
    BY <1>7, <2>1, <2>2
  <2>3. CASE b \in Elements(kept)
    <3>1. Earlier(a, b)
      BY <1>3, <1>8, <2>3 DEF Order
    <3> QED BY <1>7, <3>1
  <2> QED BY <2>2, <2>3
<1>13. Order'
  <2>1. (posting \cap Elements(posted))' = {}
    BY <1>1, <1>5 DEF Order
  <2> QED BY <1>7, <1>10, <1>11, <1>12, <2>1 DEF Order
<1>14. Kept'
  <2>1. gone \cap Elements(kept) = {}
    BY DEF gone
  <2>2. gone \cap Elements(ran) = {}
    <3> SUFFICES ASSUME NEW a \in gone, a \in Elements(ran) PROVE FALSE
      OBVIOUS
    <3>1. Earlier(a, a)
      BY <1>8 DEF Order
    <3> QED BY <1>2, <3>1, NotEarlierThanItself DEF Order
  <2>3. t \notin Elements(tasks) \cup Elements(ran) \cup evicted \cup removed
    BY <1>6 DEF Kept
  <2>4. Elements(ran)' = Elements(ran)
    BY <1>1 DEF Elements
  <2> QED BY <1>1, <1>3, <1>4, <1>5, <1>8, <2>1, <2>2, <2>3, <2>4 DEF Kept
<1>15. Limit'
  <2>1. Len(tasks') = Len(kept) + 1
    BY <1>1, <1>3
  <2> QED BY <1>1, <1>3, <2>1 DEF Limit
<1>16. NoTaskWhileAsleep' /\ Ended'
  BY <1>1 DEF NoTaskWhileAsleep, Ended, ownerVars, Notified, WorkersTypeOK, LoopPlaces
<1> QED BY <1>9, <1>13, <1>14, <1>15, <1>16

\* Some tasks are taken off the list on request; short is what stays of it.
LEMMA RemovalHolds ==
    ASSUME IInv, NEW short \in Seq(Tasks), NEW off \in SUBSET Tasks,
           tasks' = short, removed' = removed \cup off,
           InOrder(short), Len(short) <= Len(tasks),
           Elements(tasks) = Elements(short) \cup off, off \cap Elements(short) = {},
           UNCHANGED <<exit, loop, current, posting, posted, ran, evicted, ownerVars>>,
           loop # "tested"
    PROVE  IInv'
<1> USE DEF IInv
<1>1. Elements(tasks)' = Elements(short) /\ Elements(posted)' = Elements(posted)
      /\ Elements(ran)' = Elements(ran)
  BY DEF Elements
<1>2. \A a, b : Earlier(a, b)' <=> Earlier(a, b)
  BY DEF Earlier
<1>3. WorkersTypeOK'
  BY DEF WorkersTypeOK, ownerVars
<1>4. Order'
  <2>1. InOrder(ran)' /\ Distinct(posted)'
    BY DEF Order, InOrder, Distinct, Earlier
  <2>2. InOrder(tasks)'
    BY DEF InOrder, Earlier
  <2>3. \A a \in (Elements(ran) \cup evicted)', b \in Elements(tasks)' : Earlier(a, b)'
    BY <1>1, <1>2 DEF Order
  <2> QED BY <1>1, <2>1, <2>2, <2>3 DEF Order
<1>5. Kept'
  <2>1. off \cap (Elements(ran) \cup evicted) = {}
    <3> SUFFICES ASSUME NEW a \in off, a \in Elements(ran) \cup evicted PROVE FALSE
      OBVIOUS
    <3>1. Earlier(a, a)
      BY DEF Order
    <3> QED BY <3>1, NotEarlierThanItself DEF Order, WorkersTypeOK
  <2> QED BY <1>1, <2>1 DEF Kept
<1>6. Limit'
  BY LoopAssumption DEF Limit, WorkersTypeOK
<1>7. NoTaskWhileAsleep'
  <2>1. loop = "asleep" => tasks = <<>> /\ Len(tasks) = 0
    BY DEF NoTaskWhileAsleep
  <2>2. loop = "asleep" => short = <<>>
    BY <2>1
  <2> QED BY <2>2 DEF NoTaskWhileAsleep
<1>8. Ended'
  BY DEF Ended, ownerVars
<1> QED BY <1>3, <1>4, <1>5, <1>6, <1>7, <1>8

LEMMA RemoveTaskHolds ==
    ASSUME IInv, NEW t \in Tasks, RemoveTask(t)
    PROVE  IInv'
<1>1. PICK n \in DOMAIN tasks : tasks[n] = t /\ tasks' = Erased(tasks, n)
  BY DEF RemoveTask
<1>2. tasks \in Seq(Tasks) /\ InOrder(tasks) /\ Distinct(tasks)
  BY InOrderDistinct DEF IInv, WorkersTypeOK, Order
<1>3. /\ Erased(tasks, n) \in Seq(Tasks) /\ Len(Erased(tasks, n)) <= Len(tasks)
      /\ Elements(tasks) = Elements(Erased(tasks, n)) \cup {t}
      /\ t \notin Elements(Erased(tasks, n))
  <2>1. /\ Erased(tasks, n) \in Seq(Tasks) /\ Len(Erased(tasks, n)) = Len(tasks) - 1
        /\ Elements(tasks) = Elements(Erased(tasks, n)) \cup {tasks[n]}
        /\ tasks[n] \notin Elements(Erased(tasks, n))
    BY <1>2, ErasedElements
  <2> QED BY <1>1, <1>2, <2>1
<1>4. InOrder(Erased(tasks, n))
  BY <1>2, ErasedInOrder
<1>5. /\ removed' = removed \cup {t} /\ loop # "tested"
      /\ UNCHANGED <<exit, loop, current, posting, posted, ran, evicted, ownerVars>>
  BY DEF RemoveTask, MutexFree
<1> DEFINE short == Erased(tasks, n)
           off == {t}
<1>6. off \in SUBSET Tasks /\ off \cap Elements(short) = {}
  BY <1>3
<1>7. /\ tasks' = short /\ removed' = removed \cup off /\ InOrder(short)
      /\ short \in Seq(Tasks) /\ Len(short) <= Len(tasks)
      /\ Elements(tasks) = Elements(short) \cup off
  BY <1>1, <1>3, <1>4, <1>5
<1> HIDE DEF short, off
<1> QED BY <1>5, <1>6, <1>7, RemovalHolds

LEMMA ClearHolds ==
    ASSUME IInv, Clear
    PROVE  IInv'
<1>1. Elements(tasks) \in SUBSET Tasks /\ Len(<<>>) <= Len(tasks)
  BY DEF IInv, WorkersTypeOK, Elements
<1>2. Elements(<<>>) = {} /\ InOrder(<<>>) /\ <<>> \in Seq(Tasks)
  BY DEF Elements, InOrder
<1>3. /\ tasks' = <<>> /\ removed' = removed \cup Elements(tasks) /\ loop # "tested"
      /\ UNCHANGED <<exit, loop, current, posting, posted, ran, evicted, ownerVars>>
  BY DEF Clear, MutexFree
<1> QED BY <1>1, <1>2, <1>3, RemovalHolds

-----------------------------------------------------------------------------
LEMMA InitHolds == Init => IInv
<1> SUFFICES ASSUME Init PROVE IInv
  OBVIOUS
<1> USE DEF Init, LoopInit
<1>1. Elements(<<>>) = {} /\ <<>> \in Seq(Tasks) /\ Len(<<>>) = 0
  BY DEF Elements
<1>2. WorkersTypeOK
  BY <1>1, KindsAssumption DEF WorkersTypeOK, LoopPlaces
<1>3. Order
  BY <1>1 DEF Order, Distinct, InOrder
<1>4. Kept /\ Limit
  BY <1>1, LoopAssumption DEF Kept, Limit
<1>5. NoTaskWhileAsleep /\ Ended
  BY DEF NoTaskWhileAsleep, Ended
<1> QED BY <1>2, <1>3, <1>4, <1>5 DEF IInv

OwnerStep ==
    Poll \/ KeepThread \/ Loop \/ BeginExit \/ Notify \/ Join \/ ReturnUnjoined

\* The steps that touch no list: of the loop, of the owner, and the first half
\* of Post.
LEMMA OtherStepsHold ==
    ASSUME IInv,
           \/ CheckExit \/ TestPredicate \/ Sleep \/ FinishTask \/ WakeSpuriously
           \/ \E t \in Tasks : BeginPost(t)
           \/ OwnerStep,
           ~OwnerStep => UNCHANGED ownerVars
    PROVE  IInv'
<1> USE DEF IInv
<1>1. ListsSame /\ posting' \subseteq Tasks /\ posting' \cap Elements(posted) = {}
  BY DEF CheckExit, TestPredicate, Sleep, FinishTask, WakeSpuriously, BeginPost, Unposted,
         OwnerStep, Poll, KeepThread, Loop, BeginLoop, BeginExit, SetExit, Notify,
         NotifyExit, Join, ReturnUnjoined, loopVars,
         ListsSame, WorkersTypeOK, Order
<1>2. Order' /\ Kept' /\ Limit'
  BY <1>1, ListsSameHolds
<1>3. CASE OwnerStep
  <2>1. CASE Poll \/ Loop
    <3>1. WorkersTypeOK'
      BY <1>1, <2>1 DEF Poll, Loop, BeginLoop, ListsSame, ownerVars, WorkersTypeOK, LoopPlaces
    <3>2. NoTaskWhileAsleep' /\ Ended'
      BY <2>1 DEF Poll, Loop, BeginLoop, ownerVars, NoTaskWhileAsleep, Ended
    <3> QED BY <1>2, <3>1, <3>2
  <2>2. CASE KeepThread \/ Join \/ ReturnUnjoined
    <3>1. WorkersTypeOK'
      BY <1>1, <2>2 DEF KeepThread, Join, ReturnUnjoined, loopVars, ListsSame, WorkersTypeOK
    <3>2. NoTaskWhileAsleep'
      BY <2>2 DEF KeepThread, Join, ReturnUnjoined, loopVars, NoTaskWhileAsleep
    <3>3. Ended'
      BY <2>2 DEF KeepThread, Join, ReturnUnjoined, loopVars, WorkersTypeOK, Ended
    <3> QED BY <1>2, <3>1, <3>2, <3>3
  <2>3. CASE BeginExit
    <3>1. WorkersTypeOK'
      BY <1>1, <2>3 DEF BeginExit, SetExit, ListsSame, WorkersTypeOK
    <3>2. NoTaskWhileAsleep' /\ Ended'
      BY <2>3 DEF BeginExit, SetExit, NoTaskWhileAsleep, Ended
    <3> QED BY <1>2, <3>1, <3>2
  <2>4. CASE Notify
    <3>1. WorkersTypeOK'
      BY <1>1, <2>4 DEF Notify, NotifyExit, Notified, ListsSame, WorkersTypeOK, LoopPlaces
    <3>2. NoTaskWhileAsleep' /\ Ended'
      BY <2>4 DEF Notify, NotifyExit, Notified, NoTaskWhileAsleep, Ended
    <3> QED BY <1>2, <3>1, <3>2
  <2> QED BY <1>3, <2>1, <2>2, <2>3, <2>4 DEF OwnerStep
<1>4. CASE \/ CheckExit \/ TestPredicate \/ Sleep \/ FinishTask \/ WakeSpuriously
           \/ \E t \in Tasks : BeginPost(t)
  <2>1. CASE ~OwnerStep
    <3>1. WorkersTypeOK'
      BY <1>1, <1>4, <2>1 DEF CheckExit, TestPredicate, Sleep, FinishTask, WakeSpuriously,
           BeginPost, ListsSame, ownerVars, WorkersTypeOK, LoopPlaces
    <3>2. NoTaskWhileAsleep'
      BY <1>4, <2>1 DEF CheckExit, TestPredicate, Sleep, FinishTask, WakeSpuriously, BeginPost,
           NoTaskWhileAsleep
    <3>3. Ended'
      BY <1>4, <2>1 DEF CheckExit, TestPredicate, Sleep, FinishTask, WakeSpuriously, BeginPost,
           ownerVars, Ended
    <3> QED BY <1>2, <3>1, <3>2, <3>3
  <2> QED BY <1>3, <2>1
<1> QED BY <1>3, <1>4

LEMMA StepHolds == IInv /\ [Next]_vars => IInv'
<1> SUFFICES ASSUME IInv, [Next]_vars PROVE IInv'
  OBVIOUS
<1>1. CASE LoopTurn
  BY <1>1, TakeHolds, OtherStepsHold DEF LoopTurn, LoopStep
<1>2. CASE WakeSpuriously /\ UNCHANGED ownerVars
  BY <1>2, OtherStepsHold
<1>3. ASSUME NEW t \in Tasks, BeginPost(t) /\ UNCHANGED ownerVars
      PROVE  IInv'
  BY <1>3, OtherStepsHold
<1>4. ASSUME NEW t \in Tasks, FinishPost(t)
      PROVE  IInv'
  BY <1>4, EnqueueHolds
<1>5. ASSUME NEW t \in Tasks, RemoveTask(t)
      PROVE  IInv'
  BY <1>5, RemoveTaskHolds
<1>6. CASE Clear
  BY <1>6, ClearHolds
<1>7. CASE OwnerStep
  BY <1>7, OtherStepsHold
<1>8. CASE UNCHANGED vars
  <2>1. ListsSame /\ UNCHANGED <<exit, loop, current, posting, ownerVars>>
    BY <1>8 DEF vars, loopVars, ownerVars, ListsSame
  <2>2. Order' /\ Kept' /\ Limit'
    BY <2>1, ListsSameHolds DEF IInv, WorkersTypeOK, Order
  <2>3. WorkersTypeOK' /\ NoTaskWhileAsleep' /\ Ended'
    BY <2>1 DEF IInv, ListsSame, WorkersTypeOK, NoTaskWhileAsleep, Ended, ownerVars
  <2> QED BY <2>2, <2>3 DEF IInv
<1> QED BY <1>1, <1>2, <1>3, <1>4, <1>5, <1>6, <1>7, <1>8 DEF Next, OwnerStep

LEMMA AlwaysIInv == Spec => []IInv
BY InitHolds, StepHolds, PTL DEF Spec

-----------------------------------------------------------------------------
(***************************************************************************)
(* For any number of tasks the lists and the loop's place keep their types. *)
(***************************************************************************)
THEOREM WorkersTypeCorrect == Spec => []WorkersTypeOK
BY AlwaysIInv, PTL DEF IInv

(***************************************************************************)
(* For any number of tasks and any limit the loop never sleeps, nor is      *)
(* about to, while a task is on its list: Post tests nothing and notifies   *)
(* under the mutex the predicate is tested under (thread.cpp:80-83, 107-117).*)
(***************************************************************************)
THEOREM NoTaskIsSleptOn == Spec => []NoTaskWhileAsleep
BY AlwaysIInv, PTL DEF IInv

(* For any number of tasks and any limit: once an Exit of a Thread has      *)
(* returned that did not meet a Poll half way, no task is running and none  *)
(* is begun, whatever is posted, listed, or polled late.  The argument is   *)
(* the loop's: the thread it joined is done, and one that starts later      *)
(* finds exit_ set at the head (thread.cpp:51-102, 105-107, 176-184).       *)
(***************************************************************************)
THEOREM ExitIsFinal == Spec => NothingBegunAfterExit
<1>1. IInv /\ [Next]_vars
      => [over => current = NoTask /\ UNCHANGED <<current, ran>>]_vars
  <2> SUFFICES ASSUME IInv, Next, over
               PROVE  current = NoTask /\ UNCHANGED <<current, ran>>
    OBVIOUS
  <2>1. loop \in {"off", "head", "done"} /\ current = NoTask
    BY DEF IInv, Ended
  <2>2. UNCHANGED <<current, ran>>
    BY <2>1 DEF Next, LoopTurn, LoopStep, CheckExit, TestPredicate, Sleep, Take, FinishTask,
                WakeSpuriously, BeginPost, FinishPost, Enqueue, RemoveTask, Clear,
                Poll, KeepThread, Loop, BeginLoop, BeginExit, SetExit, Notify, NotifyExit,
                Join, ReturnUnjoined, loopVars
  <2> QED BY <2>1, <2>2
<1> QED BY <1>1, AlwaysIInv, PTL DEF Spec, NothingBegunAfterExit

(***************************************************************************)
(* For any limit only the oldest task of a full list is dropped, and        *)
(* nothing is when no limit is set (thread.cpp:108-115).                    *)
(***************************************************************************)
THEOREM OnlyTheOldestGoes == Spec => []DropsOldestOnly
<1>1. IInv => DropsOldestOnly
  <2> SUFFICES ASSUME IInv, NEW m \in DOMAIN posted, NEW n \in DOMAIN posted,
                      posted[m] \in evicted, posted[n] \in Elements(tasks)
               PROVE  m < n
    BY DEF IInv, Limit, DropsOldestOnly
  <2>1. Earlier(posted[m], posted[n]) /\ Distinct(posted)
    BY DEF IInv, Order
  <2>2. PICK a \in DOMAIN posted, b \in DOMAIN posted :
          a < b /\ posted[a] = posted[m] /\ posted[b] = posted[n]
    BY <2>1 DEF Earlier
  <2> QED BY <2>1, <2>2 DEF Distinct
<1> QED BY <1>1, AlwaysIInv, PTL

\* A sequence without repetition has as many tasks as places.
LEMMA DistinctLength ==
    ASSUME NEW seq \in Seq(Tasks), Distinct(seq)
    PROVE  Cardinality(Elements(seq)) = Len(seq)
<1>1. Len(seq) \in Nat /\ DOMAIN seq = 1 .. Len(seq)
  OBVIOUS
<1>2. seq \in Bijection(1 .. Len(seq), Elements(seq))
  <2>1. seq \in [1 .. Len(seq) -> Elements(seq)]
    BY <1>1 DEF Elements
  <2>2. \A m, n \in 1 .. Len(seq) : seq[m] = seq[n] => m = n
    BY <1>1 DEF Distinct
  <2>3. \A e \in Elements(seq) : \E n \in 1 .. Len(seq) : seq[n] = e
    BY <1>1 DEF Elements
  <2> QED BY <2>1, <2>2, <2>3 DEF Bijection, Injection, Surjection, IsInjective
<1>3. ExistsBijection(1 .. Len(seq), Elements(seq))
  BY <1>2 DEF ExistsBijection
<1> QED BY <1>1, <1>3, FS_CountingElements

(***************************************************************************)
(* For any number of tasks and any limit: a task that was appended is       *)
(* listed, begun, dropped for room or taken off on request, in exactly one  *)
(* of these places; none is lost and none is run twice.                     *)
(***************************************************************************)
THEOREM TasksAreInOnePlace == Spec => []EveryTaskInOnePlace
<1>1. IInv => EveryTaskInOnePlace
  <2> SUFFICES ASSUME IInv PROVE EveryTaskInOnePlace
    OBVIOUS
  <2> USE DEF IInv
  <2>1. Elements(tasks) \cap (Elements(ran) \cup evicted) = {}
    <3> SUFFICES ASSUME NEW a \in Elements(tasks), a \in Elements(ran) \cup evicted
                 PROVE  FALSE
      OBVIOUS
    <3>1. Earlier(a, a)
      BY DEF Order
    <3> QED BY <3>1, NotEarlierThanItself DEF Order, WorkersTypeOK
  <2> DEFINE P1 == Elements(tasks)
             P2 == Elements(ran)
  <2>2. /\ Places[1] = P1 /\ Places[2] = P2 /\ Places[3] = evicted /\ Places[4] = removed
    BY DEF Places
  <2>3. /\ P1 \cap P2 = {} /\ P1 \cap evicted = {} /\ P1 \cap removed = {}
        /\ P2 \cap evicted = {} /\ P2 \cap removed = {} /\ evicted \cap removed = {}
        /\ Elements(posted) = P1 \cup P2 \cup evicted \cup removed
    BY <2>1 DEF Kept
  <2> HIDE DEF P1, P2
  <2>4. UNION {Places[m] : m \in 1 .. 4} = Elements(posted)
    <3>1. 1 .. 4 = {1, 2, 3, 4}
      OBVIOUS
    <3>2. {Places[m] : m \in {1, 2, 3, 4}} = {P1, P2, evicted, removed}
      BY <2>2
    <3> QED BY <2>3, <3>1, <3>2
  <2>5. ASSUME NEW m \in 1 .. 4, NEW n \in 1 .. 4, m # n
        PROVE  Places[m] \cap Places[n] = {}
    <3>1. m \in {1, 2, 3, 4} /\ n \in {1, 2, 3, 4}
      OBVIOUS
    <3> HIDE DEF Places
    <3> QED BY <2>2, <2>3, <2>5, <3>1
  <2>6. Distinct(ran) /\ Distinct(tasks)
    BY InOrderDistinct DEF Order, WorkersTypeOK
  <2>7. /\ Cardinality(Elements(ran)) = Len(ran)
        /\ Cardinality(Elements(tasks)) = Len(tasks)
    BY <2>6, DistinctLength DEF WorkersTypeOK
  <2> QED BY <2>4, <2>5, <2>7 DEF EveryTaskInOnePlace
<1> QED BY <1>1, AlwaysIInv, PTL

(***************************************************************************)
(* For any number of tasks and any limit tasks are begun in the order they  *)
(* were appended, and the list continues that order.                        *)
(***************************************************************************)
THEOREM BegunAsPosted == Spec => []RunInOrder
<1>1. IInv => RunInOrder
  <2> SUFFICES ASSUME IInv PROVE RunInOrder
    OBVIOUS
  <2> USE DEF IInv
  <2> DEFINE line == ran \o tasks
             f == [n \in 1 .. Len(line) |-> CHOOSE m \in DOMAIN posted : posted[m] = line[n]]
  <2>1. tasks \in Seq(Tasks) /\ ran \in Seq(Tasks) /\ posted \in Seq(Tasks)
        /\ DOMAIN posted = 1 .. Len(posted) /\ Len(ran) \in Nat /\ Len(tasks) \in Nat
        /\ DOMAIN ran = 1 .. Len(ran) /\ DOMAIN tasks = 1 .. Len(tasks)
    BY DEF WorkersTypeOK
  <2>2. /\ Len(line) = Len(ran) + Len(tasks)
        /\ \A n \in 1 .. Len(ran) + Len(tasks) :
             line[n] = IF n <= Len(ran) THEN ran[n] ELSE tasks[n - Len(ran)]
    BY <2>1, ConcatProperties
  <2> HIDE DEF line
  <2>3. ASSUME NEW n \in 1 .. Len(line)
        PROVE  line[n] \in Elements(posted)
    <3>1. CASE n <= Len(ran)
      <4>1. n \in DOMAIN ran /\ line[n] = ran[n]
        BY <2>1, <2>2, <3>1
      <4> QED BY <4>1 DEF Kept, Elements
    <3>2. CASE ~(n <= Len(ran))
      <4> DEFINE k == n - Len(ran)
      <4>1. k \in DOMAIN tasks /\ line[n] = tasks[k]
        BY <2>1, <2>2, <3>2
      <4> HIDE DEF k
      <4> QED BY <4>1 DEF Kept, Elements
    <3> QED BY <3>1, <3>2
  <2>4. ASSUME NEW m \in 1 .. Len(line), NEW n \in 1 .. Len(line), m < n
        PROVE  Earlier(line[m], line[n])
    <3>1. CASE n <= Len(ran)
      <4>1. m \in DOMAIN ran /\ n \in DOMAIN ran /\ line[m] = ran[m] /\ line[n] = ran[n]
        BY <2>1, <2>2, <2>4, <3>1
      <4> QED BY <2>4, <4>1 DEF Order, InOrder
    <3>2. CASE m <= Len(ran) /\ ~(n <= Len(ran))
      <4> DEFINE k == n - Len(ran)
      <4>1. /\ m \in DOMAIN ran /\ line[m] = ran[m]
            /\ k \in DOMAIN tasks /\ line[n] = tasks[k]
        BY <2>1, <2>2, <3>2
      <4> HIDE DEF k
      <4> QED BY <4>1 DEF Order, Elements
    <3>3. CASE ~(m <= Len(ran))
      <4> DEFINE j == m - Len(ran)
                 k == n - Len(ran)
      <4>1. /\ j \in DOMAIN tasks /\ line[m] = tasks[j]
            /\ k \in DOMAIN tasks /\ line[n] = tasks[k] /\ j < k
        BY <2>1, <2>2, <2>4, <3>3
      <4> HIDE DEF j, k
      <4> QED BY <4>1 DEF Order, InOrder
    <3> QED BY <2>1, <2>2, <2>4, <3>1, <3>2, <3>3
  <2>5. ASSUME NEW n \in 1 .. Len(line)
        PROVE  f[n] \in DOMAIN posted /\ posted[f[n]] = line[n]
    <3>1. \E m \in DOMAIN posted : posted[m] = line[n]
      BY <2>3 DEF Elements
    <3> QED BY <3>1
  <2>6. f \in [1 .. Len(line) -> 1 .. Len(posted)] /\ DOMAIN f = 1 .. Len(line)
    BY <2>1, <2>5
  <2> HIDE DEF f
  <2>7. ASSUME NEW m \in 1 .. Len(line), NEW n \in 1 .. Len(line), m < n
        PROVE  f[m] < f[n]
    <3>1. PICK a \in DOMAIN posted, b \in DOMAIN posted :
            a < b /\ posted[a] = line[m] /\ posted[b] = line[n]
      BY <2>4, <2>7 DEF Earlier
    <3>2. a = f[m] /\ b = f[n]
      BY <2>5, <3>1 DEF Order, Distinct
    <3> QED BY <3>1, <3>2
  <2> QED BY <2>5, <2>6, <2>7 DEF RunInOrder, line
<1> QED BY <1>1, AlwaysIInv, PTL

-----------------------------------------------------------------------------
(***************************************************************************)
(* The refinement.  Appending, taking, removing and clearing are steps of   *)
(* the mailbox, the return of a Thread's Exit is its end (one that met a    *)
(* Poll half way is not), and every other step leaves the lists as they are.*)
(***************************************************************************)
LEMMA InIsElements == \A seq : Mail!In(seq) = Elements(seq)
BY DEF Mail!In, Elements

\* What is no step on the lists and does not end the box is a stutter of it.
LEMMA StuttersWhenSame ==
    ASSUME ListsSame, over' = over
    PROVE  UNCHANGED Mail!mail
BY DEF ListsSame, Mail!mail

LEMMA TakeIsBegin ==
    ASSUME IInv, Take, UNCHANGED ownerVars
    PROVE  [Mail!Next]_(Mail!mail)
<1>1. CASE tasks = <<>>
  BY <1>1, StuttersWhenSame DEF Take, ListsSame, ownerVars
<1>2. CASE tasks # <<>>
  <2>1. loop = "take" /\ ~over
    BY DEF Take, IInv, Ended
  <2>2. Mail!Begin
    BY <1>2, <2>1 DEF Take, ownerVars, Mail!Begin
  <2> QED BY <2>2 DEF Mail!Next
<1> QED BY <1>1, <1>2

LEMMA EnqueueIsPut ==
    ASSUME IInv, NEW t \in Tasks, FinishPost(t)
    PROVE  Mail!Put(t)
<1> DEFINE kept == IF IsFull THEN Tail(tasks) ELSE tasks
<1>1. /\ t \in posting /\ tasks' = Append(kept, t)
      /\ evicted' = evicted \cup (Elements(tasks) \ Elements(kept))
      /\ UNCHANGED <<ran, removed, over>>
  BY DEF FinishPost, Enqueue, ownerVars
<1>2. t \notin Elements(tasks) \cup Elements(ran) \cup evicted \cup removed
  BY <1>1 DEF IInv, Order, Kept
<1>3. /\ tasks \in Seq(Tasks) /\ Len(tasks) \in Nat /\ InOrder(tasks) /\ Distinct(posted)
      /\ posted \in Seq(Tasks) /\ MaxTasks \in Nat /\ (MaxTasks > 0 => Len(tasks) <= MaxTasks)
  BY LoopAssumption DEF IInv, WorkersTypeOK, Order, Limit
<1>4. CASE IsFull
  <2>1. MaxTasks > 0 /\ Len(tasks) = MaxTasks
    BY <1>3, <1>4 DEF IsFull
  <2>2. tasks # <<>>
    BY <1>3, <2>1
  <2>3. /\ Elements(tasks) = Elements(Tail(tasks)) \cup {Head(tasks)}
        /\ \A b \in Elements(Tail(tasks)) : Earlier(Head(tasks), b)
    BY <1>3, <2>2, TailElements, TailInOrder
  <2>4. Head(tasks) \notin Elements(Tail(tasks))
    BY <1>3, <2>3, NotEarlierThanItself
  <2>5. evicted' = evicted \cup {Head(tasks)} /\ tasks' = Append(Tail(tasks), t)
    BY <1>1, <1>4, <2>3, <2>4
  <2>6. Mail!PutForOldest(t)
    BY <2>1, <2>5 DEF Mail!PutForOldest
  <2> QED BY <1>1, <1>2, <2>6, InIsElements DEF Mail!Put
<1>5. CASE ~IsFull
  <2>1. ~(MaxTasks > 0 /\ Len(tasks) = MaxTasks)
    BY <1>3, <1>5 DEF IsFull
  <2>2. evicted' = evicted /\ tasks' = Append(tasks, t)
    BY <1>1, <1>5
  <2>3. Mail!PutBehind(t)
    BY <2>1, <2>2 DEF Mail!PutBehind
  <2> QED BY <1>1, <1>2, <2>3, InIsElements DEF Mail!Put
<1> QED BY <1>4, <1>5

LEMMA StepIsMail == IInv /\ [Next]_vars => [Mail!Next]_(Mail!mail)
<1> SUFFICES ASSUME IInv, [Next]_vars PROVE [Mail!Next]_(Mail!mail)
  OBVIOUS
<1>1. CASE LoopTurn
  <2>1. CASE Take
    BY <1>1, <2>1, TakeIsBegin DEF LoopTurn
  <2>2. CASE CheckExit \/ TestPredicate \/ Sleep \/ FinishTask
    BY <1>1, <2>2, StuttersWhenSame
       DEF LoopTurn, ListsSame, ownerVars, CheckExit, TestPredicate, Sleep, FinishTask
  <2> QED BY <1>1, <2>1, <2>2 DEF LoopTurn, LoopStep
<1>2. CASE WakeSpuriously /\ UNCHANGED ownerVars
  BY <1>2, StuttersWhenSame DEF ListsSame, ownerVars, WakeSpuriously
<1>3. ASSUME NEW t \in Tasks, BeginPost(t) /\ UNCHANGED ownerVars
      PROVE  UNCHANGED Mail!mail
  BY <1>3, StuttersWhenSame DEF ListsSame, ownerVars, BeginPost
<1>4. ASSUME NEW t \in Tasks, FinishPost(t)
      PROVE  Mail!Next
  BY <1>4, EnqueueIsPut DEF Mail!Next
<1>5. ASSUME NEW t \in Tasks, RemoveTask(t)
      PROVE  Mail!Next
  <2>1. PICK n \in DOMAIN tasks : tasks[n] = t /\ tasks' = Erased(tasks, n)
    BY <1>5 DEF RemoveTask
  <2>2. Mail!Withdraw(n)
    BY <1>5, <2>1 DEF RemoveTask, Erased, ownerVars, Mail!Withdraw
  <2> QED BY <2>2 DEF Mail!Next
<1>6. CASE Clear
  <2>1. Mail!WithdrawAll
    BY <1>6, InIsElements DEF Clear, ownerVars, Mail!WithdrawAll
  <2> QED BY <2>1 DEF Mail!Next
<1>7. CASE Poll \/ KeepThread \/ Loop \/ BeginExit
  BY <1>7, StuttersWhenSame
     DEF ListsSame, ownerVars, Poll, KeepThread, Loop, BeginLoop, BeginExit, SetExit, loopVars
<1>8. CASE Notify
  BY <1>8, StuttersWhenSame DEF ListsSame, Notify, NotifyExit
<1>9. CASE Join \/ ReturnUnjoined
  <2>1. ListsSame /\ (over' = over \/ over' = TRUE)
    BY <1>9 DEF Join, ReturnUnjoined, loopVars, ListsSame, IInv, WorkersTypeOK
  <2>2. CASE over' = TRUE
    <3>1. Mail!End
      BY <2>1, <2>2 DEF ListsSame, Mail!End
    <3> QED BY <3>1 DEF Mail!Next
  <2>3. CASE over' = over
    BY <2>1, <2>3, StuttersWhenSame
  <2> QED BY <2>1, <2>2, <2>3
<1>10. CASE UNCHANGED vars
  BY <1>10, StuttersWhenSame DEF ListsSame, vars, loopVars, ownerVars
<1> QED
  BY <1>1, <1>2, <1>3, <1>4, <1>5, <1>6, <1>7, <1>8, <1>9, <1>10 DEF Next

(***************************************************************************)
(* For any tasks, any limit and both classes: to those who post, the        *)
(* critical sections of Post and of the loop, with Exit, removals and the   *)
(* sleep in between, are a mailbox in which each is one step                *)
(* (thread.cpp:51-117, 137-151, 176-184, message_looper.cpp:14-60).         *)
(***************************************************************************)
THEOREM Refinement == Spec => ImplementsMailbox
<1>1. Init => Mail!Init
  BY DEF Init, LoopInit, Mail!Init
<1>2. IInv /\ [Next]_vars => [Mail!Next]_(Mail!mail)
  BY StepIsMail
<1> QED BY <1>1, <1>2, AlwaysIInv, PTL DEF Spec, ImplementsMailbox, Mail!Spec
=============================================================================
