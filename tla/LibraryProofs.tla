---------------------------- MODULE LibraryProofs ----------------------------
(***************************************************************************)
(* What holds of the small parts of the library, which share no state, for  *)
(* every value of their constants: WsServer, SharedPreference, TaskRuntime, *)
(* ClipboardSync and SnowflakeId, one after the other.                      *)
(***************************************************************************)
EXTENDS WsServer, SharedPreference, TaskRuntime, ClipboardSync, SnowflakeId, TLAPS

-----------------------------------------------------------------------------
(***************************************************************************)
(* What holds of WsServer for any number of connections and descriptors.    *)
(* Connections that are there have descriptors of their own, so what is     *)
(* registered under the descriptor of a connection is that connection, and  *)
(* it was welcomed and not yet told of its end.                             *)
(***************************************************************************)

Stage == {"none", "accepted", "opening", "inserting", "open", "message", "closing", "closed"}

WsTypeOK ==
    /\ exiting \in BOOLEAN
    /\ server \in {"up", "exiting", "stopping", "down"}
    /\ conn \in [Conn -> [at : Stage, fd : Fd \cup {0}]]
    /\ sessions \in [Fd -> Conn \cup {NoSession}]
    /\ holding \in [Conn -> Conn \cup {NoSession}]
    /\ hello \in [Conn -> BOOLEAN]
    /\ bye \in [Conn -> Nat]

There(c) == conn[c].at \notin Gone

FdsApart ==
    /\ \A c \in Conn : There(c) => conn[c].fd \in Fd
    /\ \A c, d \in Conn : There(c) /\ There(d) /\ conn[c].fd = conn[d].fd => c = d

\* A registered session belongs to the connection that has the descriptor.
Registered ==
    \A f \in Fd : sessions[f] \in Conn =>
        /\ conn[sessions[f]].fd = f
        /\ conn[sessions[f]].at \in {"open", "message", "closing"}
        /\ hello[sessions[f]] /\ bye[sessions[f]] = 0

\* How far the session of a connection is.
Told(c) ==
    /\ conn[c].at \in {"none", "accepted", "opening"} => ~hello[c] /\ bye[c] = 0
    /\ conn[c].at = "inserting" => hello[c] /\ bye[c] = 0
    /\ conn[c].at \in {"open", "message"} =>
         hello[c] /\ bye[c] = 0 /\ sessions[conn[c].fd] = c
    /\ conn[c].at = "closing" =>
         IF hello[c] /\ bye[c] = 0 THEN sessions[conn[c].fd] = c
         ELSE bye[c] = IF hello[c] THEN 1 ELSE 0
    /\ conn[c].at = "closed" => bye[c] = IF hello[c] THEN 1 ELSE 0
    /\ conn[c].at = "message" => holding[c] = c

WsInv ==
    /\ WsTypeOK /\ FdsApart /\ Registered
    /\ \A c \in Conn : Told(c)

-----------------------------------------------------------------------------
LEMMA WsInitHolds == WsInit => WsInv
<1> SUFFICES ASSUME WsInit PROVE WsInv
  OBVIOUS
<1>1. WsTypeOK
  BY DEF WsInit, WsTypeOK, Stage
<1>2. \A c \in Conn : conn[c].at = "none" /\ ~hello[c] /\ bye[c] = 0
  BY DEF WsInit
<1>3. FdsApart
  BY <1>2 DEF FdsApart, There, Gone
<1>4. Registered
  BY WsAssumption DEF WsInit, Registered
<1>5. ASSUME NEW c \in Conn PROVE Told(c)
  BY <1>2 DEF Told
<1> QED BY <1>1, <1>3, <1>4, <1>5 DEF WsInv

\* A connection that goes from one stage to another, neither of them an end,
\* keeps its descriptor, and so does every other one.
LEMMA GoesHolds ==
    ASSUME WsInv, NEW c \in Conn, NEW from \in Stage, NEW to \in Stage, Goes(c, from, to)
    PROVE  /\ conn' \in [Conn -> [at : Stage, fd : Fd \cup {0}]]
           /\ conn'[c].at = to /\ conn[c].at = from
           /\ \A d \in Conn : conn'[d].fd = conn[d].fd
           /\ \A d \in Conn \ {c} : conn'[d] = conn[d]
           /\ from # "none" /\ from # "closed" => FdsApart'
BY DEF WsInv, WsTypeOK, Goes, FdsApart, There, Gone

\* Unregister tells the session of the connection itself, and no other.
LEMMA UnregisterHolds ==
    ASSUME WsInv, NEW c \in Conn, There(c), Unregister(c)
    PROVE  /\ sessions' = [sessions EXCEPT ![conn[c].fd] = NoSession]
           /\ sessions[conn[c].fd] \in {c, NoSession}
           /\ bye'[c] = IF sessions[conn[c].fd] = c THEN bye[c] + 1 ELSE bye[c]
           /\ \A d \in Conn \ {c} : bye'[d] = bye[d]
           /\ bye' \in [Conn -> Nat]
<1> DEFINE s == sessions[conn[c].fd]
<1>1. conn[c].fd \in Fd
  BY DEF WsInv, FdsApart
<1>2. s \in Conn \cup {NoSession}
  BY <1>1 DEF WsInv, WsTypeOK
<1>3. s \in Conn => s = c
  <2> SUFFICES ASSUME s \in Conn PROVE s = c
    OBVIOUS
  <2>1. conn[s].fd = conn[c].fd /\ There(s)
    BY <1>1 DEF WsInv, Registered, There, Gone
  <2> QED BY <2>1 DEF WsInv, FdsApart
<1>4. /\ sessions' = [sessions EXCEPT ![conn[c].fd] = NoSession]
      /\ bye' = [d \in Conn |-> IF d = s THEN bye[d] + 1 ELSE bye[d]]
  BY DEF Unregister
<1> HIDE DEF s
<1>5. bye \in [Conn -> Nat]
  BY DEF WsInv, WsTypeOK
<1> QED BY <1>2, <1>3, <1>4, <1>5, WsAssumption DEF s

LEMMA AcceptHolds ==
    ASSUME WsInv, NEW c \in Conn, NEW f \in Fd, Accept(c, f)
    PROVE  WsInv'
<1> USE DEF WsInv
<1>1. /\ conn[c].at = "none" /\ conn' \in [Conn -> [at : Stage, fd : Fd \cup {0}]]
      /\ conn'[c] = [at |-> "accepted", fd |-> f]
      /\ \A d \in Conn \ {c} : conn'[d] = conn[d]
      /\ \A d \in Conn : There(d) => conn[d].fd # f
      /\ UNCHANGED <<exiting, server, sessions, holding, hello, bye>>
  BY DEF Accept, WsTypeOK, Stage, There
<1>2. WsTypeOK'
  BY <1>1 DEF WsTypeOK
<1>3. FdsApart'
  BY <1>1 DEF FdsApart, There, Gone
<1>4. Registered'
  BY <1>1 DEF Registered, WsTypeOK
<1>5. ASSUME NEW d \in Conn PROVE Told(d)'
  BY <1>1 DEF Told
<1> QED BY <1>2, <1>3, <1>4, <1>5

\* The steps of a connection that leave the table of sessions alone.
LEMMA QuietStepHolds ==
    ASSUME WsInv, NEW c \in Conn,
           Open(c) \/ OnConnected(c) \/ Message(c) \/ OnBinMessage(c) \/ Break(c)
    PROVE  WsInv'
<1> USE DEF WsInv
<1>1. /\ UNCHANGED <<exiting, server, sessions, bye>>
      /\ hello' \in [Conn -> BOOLEAN] /\ holding' \in [Conn -> Conn \cup {NoSession}]
      /\ \A d \in Conn \ {c} : hello'[d] = hello[d] /\ holding'[d] = holding[d]
  BY DEF Open, OnConnected, Message, OnBinMessage, Break, WsTypeOK, Goes, FdsApart, There, Gone
<1>2. PICK from \in {"accepted", "opening", "open", "message"},
           to \in {"opening", "inserting", "open", "message", "closing"} : Goes(c, from, to)
  BY DEF Open, OnConnected, Message, OnBinMessage, Break
<1>3. /\ conn' \in [Conn -> [at : Stage, fd : Fd \cup {0}]]
      /\ conn'[c].at = to /\ conn[c].at = from
      /\ \A d \in Conn : conn'[d].fd = conn[d].fd
      /\ \A d \in Conn \ {c} : conn'[d] = conn[d]
      /\ FdsApart'
  BY <1>2, GoesHolds DEF Stage
<1>4. WsTypeOK'
  BY <1>1, <1>3 DEF WsTypeOK
<1>5. ASSUME NEW d \in Conn, d # c PROVE Told(d)'
  BY <1>1, <1>3, <1>5 DEF Told
<1>6. Told(c)'
  <2>1. Told(c) /\ conn[c] \in [at : Stage, fd : Fd \cup {0}] /\ hello[c] \in BOOLEAN
    BY DEF WsTypeOK
  <2>2. CASE Open(c)
    BY <1>1, <1>3, <2>1, <2>2 DEF Open, Told, Goes
  <2>3. CASE OnConnected(c)
    BY <1>1, <1>3, <2>1, <2>3 DEF OnConnected, Told, Goes, WsTypeOK
  <2>4. CASE Message(c)
    BY <1>1, <1>3, <2>1, <2>4 DEF Message, Told, Goes, WsTypeOK
  <2>5. CASE OnBinMessage(c)
    BY <1>1, <1>3, <2>1, <2>5 DEF OnBinMessage, Told, Goes
  <2>6. CASE Break(c)
    BY <1>1, <1>3, <2>1, <2>6 DEF Break, Told, Goes
  <2> QED BY <2>2, <2>3, <2>4, <2>5, <2>6
<1>7. Registered'
  <2> SUFFICES ASSUME NEW f \in Fd, sessions[f] \in Conn
               PROVE  /\ conn'[sessions[f]].fd = f
                      /\ conn'[sessions[f]].at \in {"open", "message", "closing"}
                      /\ hello'[sessions[f]] /\ bye[sessions[f]] = 0
    BY <1>1 DEF Registered
  <2>1. CASE sessions[f] # c
    BY <1>1, <1>3, <2>1 DEF Registered
  <2>2. CASE sessions[f] = c
    <3>1. from \in {"open", "message"}
      BY <1>3, <2>2 DEF Registered
    <3>2. Message(c) \/ OnBinMessage(c) \/ Break(c)
      BY <1>3, <3>1 DEF Open, OnConnected, Goes
    <3>3. hello' = hello /\ to \in {"open", "message", "closing"}
      BY <1>3, <3>1, <3>2 DEF Message, OnBinMessage, Break, Goes
    <3> QED BY <1>3, <2>2, <3>3 DEF Registered
  <2> QED BY <2>1, <2>2
<1> QED BY <1>3, <1>4, <1>5, <1>6, <1>7

LEMMA RegisterHolds ==
    ASSUME WsInv, NEW c \in Conn, Register(c)
    PROVE  WsInv'
<1> USE DEF WsInv
<1>1. /\ conn' \in [Conn -> [at : Stage, fd : Fd \cup {0}]]
      /\ conn'[c].at = "open" /\ conn[c].at = "inserting"
      /\ \A d \in Conn : conn'[d].fd = conn[d].fd
      /\ \A d \in Conn \ {c} : conn'[d] = conn[d]
      /\ FdsApart'
  BY GoesHolds DEF Register, Stage
<1>2. /\ sessions' = [sessions EXCEPT ![conn[c].fd] = c]
      /\ UNCHANGED <<exiting, server, holding, hello, bye>>
  BY DEF Register
<1>3. conn[c].fd \in Fd /\ There(c)
  BY <1>1 DEF FdsApart, There, Gone
<1>4. WsTypeOK'
  BY <1>1, <1>2, <1>3 DEF WsTypeOK
<1>5. hello[c] /\ bye[c] = 0
  BY <1>1 DEF Told
<1>6. Registered'
  BY <1>1, <1>2, <1>3, <1>5 DEF Registered, WsTypeOK
<1>7. ASSUME NEW d \in Conn PROVE Told(d)'
  <2>1. CASE d = c
    BY <1>1, <1>2, <1>3, <1>5, <2>1 DEF Told, WsTypeOK
  <2>2. CASE d # c /\ There(d)
    <3>1. conn[d].fd # conn[c].fd
      BY <1>3, <2>2 DEF FdsApart
    <3>2. sessions'[conn[d].fd] = sessions[conn[d].fd]
      BY <1>2, <1>3, <2>2, <3>1 DEF WsTypeOK, FdsApart
    <3> QED BY <1>1, <1>2, <2>2, <3>2 DEF Told
  <2>3. CASE d # c /\ ~There(d)
    BY <1>1, <1>2, <2>3 DEF Told, There, Gone
  <2> QED BY <2>1, <2>2, <2>3
<1> QED BY <1>1, <1>4, <1>6, <1>7

\* The two ways a session is taken from the table.
LEMMA EndHolds ==
    ASSUME WsInv, NEW c \in Conn, Close(c) \/ Disconnect(c)
    PROVE  WsInv'
<1> USE DEF WsInv
<1>1. PICK from \in {"open", "closing"}, to \in {"closing", "closed"} :
        /\ Goes(c, from, to)
        /\ from = "open" <=> to = "closing"
  BY DEF Close, Disconnect
<1>2. /\ conn' \in [Conn -> [at : Stage, fd : Fd \cup {0}]]
      /\ conn'[c].at = to /\ conn[c].at = from
      /\ \A d \in Conn : conn'[d].fd = conn[d].fd
      /\ \A d \in Conn \ {c} : conn'[d] = conn[d]
      /\ FdsApart'
  BY <1>1, GoesHolds DEF Stage
<1>3. There(c) /\ conn[c].fd \in Fd
  BY <1>2 DEF There, Gone, FdsApart
<1>4. /\ sessions' = [sessions EXCEPT ![conn[c].fd] = NoSession]
      /\ sessions[conn[c].fd] \in {c, NoSession}
      /\ bye'[c] = IF sessions[conn[c].fd] = c THEN bye[c] + 1 ELSE bye[c]
      /\ \A d \in Conn \ {c} : bye'[d] = bye[d]
      /\ bye' \in [Conn -> Nat]
  BY <1>3, UnregisterHolds DEF Close, Disconnect
<1>5. UNCHANGED <<exiting, server, holding, hello>>
  BY DEF Close, Disconnect
<1>6. WsTypeOK'
  BY <1>2, <1>3, <1>4, <1>5 DEF WsTypeOK
<1>7. Registered'
  <2> SUFFICES ASSUME NEW f \in Fd, sessions'[f] \in Conn
               PROVE  /\ conn'[sessions'[f]].fd = f
                      /\ conn'[sessions'[f]].at \in {"open", "message", "closing"}
                      /\ hello'[sessions'[f]] /\ bye'[sessions'[f]] = 0
    BY DEF Registered
  <2>1. f # conn[c].fd /\ sessions'[f] = sessions[f]
    BY <1>3, <1>4, WsAssumption DEF WsTypeOK
  <2>2. sessions[f] \in Conn \ {c}
    BY <2>1 DEF Registered
  <2> QED BY <1>2, <1>4, <1>5, <2>1, <2>2 DEF Registered
<1>8. ASSUME NEW d \in Conn PROVE Told(d)'
  <2>1. CASE d = c
    <3>1. Told(c) /\ hello[c] \in BOOLEAN /\ bye[c] \in Nat
      BY DEF WsTypeOK
    <3>2. sessions[conn[c].fd] = c => hello[c] /\ bye[c] = 0
      BY <1>3 DEF Registered
    <3>3. c # NoSession /\ sessions'[conn'[c].fd] = NoSession
      BY <1>2, <1>3, <1>4, WsAssumption DEF WsTypeOK
    <3>4. hello'[c] = hello[c]
      BY <1>5
    <3>5. bye'[c] = IF hello[c] THEN 1 ELSE 0
      BY <1>1, <1>2, <1>4, <3>1, <3>2, <3>3 DEF Told
    <3> QED BY <1>1, <1>2, <2>1, <3>4, <3>5 DEF Told
  <2>2. CASE d # c /\ There(d)
    <3>1. conn[d].fd # conn[c].fd
      BY <1>3, <2>2 DEF FdsApart
    <3>2. sessions'[conn[d].fd] = sessions[conn[d].fd]
      BY <1>3, <1>4, <2>2, <3>1 DEF WsTypeOK, FdsApart
    <3> QED BY <1>2, <1>4, <1>5, <2>2, <3>2 DEF Told
  <2>3. CASE d # c /\ ~There(d)
    BY <1>2, <1>4, <1>5, <2>3 DEF Told, There, Gone
  <2> QED BY <2>1, <2>2, <2>3
<1> QED BY <1>2, <1>6, <1>7, <1>8

LEMMA ServerStepHolds ==
    ASSUME WsInv, BeginExit \/ Stop \/ ClearSessions \/ Prepare \/ UNCHANGED wsVars
    PROVE  WsInv'
<1> USE DEF WsInv
<1>1. CASE ClearSessions
  <2>1. \A f \in Fd : sessions[f] \notin Conn
    BY <1>1 DEF ClearSessions, Registered, Gone
  <2>2. /\ UNCHANGED <<conn, holding, hello, bye, exiting>> /\ server' = "down"
        /\ sessions' = [f \in Fd |-> NoSession]
        /\ \A c \in Conn : ~There(c)
    BY <1>1 DEF ClearSessions, There
  <2>3. WsTypeOK' /\ FdsApart'
    BY <2>2 DEF WsTypeOK, FdsApart, There
  <2>4. Registered'
    BY <2>2, WsAssumption DEF Registered
  <2>5. ASSUME NEW c \in Conn PROVE Told(c)'
    BY <2>2 DEF Told, There, Gone
  <2> QED BY <2>3, <2>4, <2>5
<1>2. CASE BeginExit \/ Stop \/ Prepare \/ UNCHANGED wsVars
  <2>1. UNCHANGED <<conn, sessions, holding, hello, bye>>
    BY <1>2 DEF BeginExit, Stop, Prepare, wsVars
  <2>2. WsTypeOK'
    BY <1>2, <2>1 DEF BeginExit, Stop, Prepare, wsVars, WsTypeOK
  <2>3. FdsApart' /\ Registered' /\ \A c \in Conn : Told(c)'
    BY <2>1 DEF FdsApart, There, Registered, Told
  <2> QED BY <2>2, <2>3
<1> QED BY <1>1, <1>2

LEMMA AlwaysWsInv == WsSpec => []WsInv
<1>1. ASSUME WsInv, [WsNext]_wsVars PROVE WsInv'
  <2>1. ASSUME NEW c \in Conn, NEW f \in Fd, Accept(c, f) PROVE WsInv'
    BY <1>1, <2>1, AcceptHolds
  <2>2. ASSUME NEW c \in Conn,
               Open(c) \/ OnConnected(c) \/ Message(c) \/ OnBinMessage(c) \/ Break(c)
        PROVE  WsInv'
    BY <1>1, <2>2, QuietStepHolds
  <2>3. ASSUME NEW c \in Conn, Register(c) PROVE WsInv'
    BY <1>1, <2>3, RegisterHolds
  <2>4. ASSUME NEW c \in Conn, Close(c) \/ Disconnect(c) PROVE WsInv'
    BY <1>1, <2>4, EndHolds
  <2>5. CASE BeginExit \/ Stop \/ ClearSessions \/ Prepare \/ UNCHANGED wsVars
    BY <1>1, <2>5, ServerStepHolds
  <2> QED BY <1>1, <2>1, <2>2, <2>3, <2>4, <2>5 DEF WsNext
<1> QED BY <1>1, WsInitHolds, PTL DEF WsSpec

-----------------------------------------------------------------------------
(***************************************************************************)
(* For any number of connections and descriptors the server keeps its       *)
(* types.                                                                   *)
(***************************************************************************)
THEOREM WsTypeCorrect == WsSpec => []WsTypeOK
BY AlwaysWsInv, PTL DEF WsInv

(***************************************************************************)
(* For any number of connections, however often descriptors are reused and  *)
(* the server exits and is started again, a welcomed session is told of its *)
(* end exactly once and a refused one never (ws_server.cpp:28-57,           *)
(* ws_server.h:130-153).                                                    *)
(***************************************************************************)
THEOREM EachGoodbyeOnce == WsSpec => []OneGoodbye
<1>1. WsInv => OneGoodbye
  <2> SUFFICES ASSUME WsInv, NEW c \in Conn
               PROVE  /\ bye[c] <= 1
                      /\ bye[c] = 1 => hello[c]
                      /\ conn[c].at = "closed" => (bye[c] = 1 <=> hello[c])
    BY DEF OneGoodbye
  <2>1. Told(c) /\ conn[c].at \in Stage /\ hello[c] \in BOOLEAN
    BY DEF WsInv, WsTypeOK
  <2>2. bye[c] = 0 \/ bye[c] = IF hello[c] THEN 1 ELSE 0
    BY <2>1 DEF Told, Stage
  <2>3. conn[c].at = "closed" => bye[c] = IF hello[c] THEN 1 ELSE 0
    BY <2>1 DEF Told
  <2> QED BY <2>1, <2>2, <2>3
<1> QED BY <1>1, AlwaysWsInv, PTL

(***************************************************************************)
(* For any number of connections a message is handled by the session of the *)
(* connection it came in on, while that is neither new nor gone             *)
(* (ws_server.h:103-113).                                                   *)
(***************************************************************************)
THEOREM MessagesFindTheirSession == WsSpec => []MessageToItsSession
<1>1. WsInv => MessageToItsSession
  BY DEF WsInv, Told, MessageToItsSession
<1> QED BY <1>1, AlwaysWsInv, PTL

-----------------------------------------------------------------------------
(***************************************************************************)
(* What holds of SharedPreference for any number of processes and           *)
(* databases.  Both properties are kept step by step once it is known that  *)
(* only the two right pairs of flags occur.                                 *)
(***************************************************************************)

PrefTypeOK ==
    /\ db_ \in [Process -> Name \cup {NoDb}]
    /\ flags \in [Process -> [initialized : BOOLEAN, read_only : BOOLEAN]]
    /\ open_in \in [Name -> SUBSET Process]
    /\ disk \in [Name -> [Pref -> Setting \cup {NoDb}]]

\* Ready with a database, not ready without, and read-only only without.
FlagsPaired ==
    \A p \in Process : /\ flags[p].initialized <=> db_[p] # NoDb
                       /\ flags[p].read_only => db_[p] = NoDb

PrefInv == PrefTypeOK /\ OpenWhereUsed /\ FlagsPaired

-----------------------------------------------------------------------------
LEMMA PrefInitHolds == PrefInit => PrefInv
BY PrefAssumption DEF PrefInit, PrefInv, PrefTypeOK, OpenWhereUsed, FlagsPaired, Neither

\* Closing what p has open leaves every database with the others who use it.
LEMMA ClosedIsUsed ==
    ASSUME PrefInv, NEW p \in Process, NEW n \in Name
    PROVE  Closed(p)[n] = {q \in Process \ {p} : db_[q] = n}
BY DEF PrefInv, PrefTypeOK, OpenWhereUsed, Closed

LEMMA InitDbHolds ==
    ASSUME PrefInv, NEW p \in Process, NEW n \in Name, InitDb(p, n)
    PROVE  PrefInv'
<1> USE DEF PrefInv
<1>1. UNCHANGED disk
  BY DEF InitDb
<1>2. CASE /\ Closed(p)[n] = {}
           /\ open_in' = [Closed(p) EXCEPT ![n] = {p}]
           /\ db_' = [db_ EXCEPT ![p] = n]
           /\ flags' = [flags EXCEPT ![p] = [initialized |-> TRUE, read_only |-> FALSE]]
  <2>1. PrefTypeOK'
    BY <1>1, <1>2 DEF PrefTypeOK, Closed
  <2>2. ASSUME NEW m \in Name PROVE open_in'[m] = {q \in Process : db_'[q] = m}
    <3>1. db_' = [q \in Process |-> IF q = p THEN n ELSE db_[q]]
      BY <1>2 DEF PrefTypeOK
    <3>2. CASE m = n
      <4>1. {q \in Process \ {p} : db_[q] = n} = {}
        BY <1>2, ClosedIsUsed
      <4>2. open_in'[n] = {p}
        BY <1>2 DEF Closed
      <4> QED BY <3>1, <3>2, <4>1, <4>2
    <3>3. CASE m # n
      <4>1. open_in'[m] = {q \in Process \ {p} : db_[q] = m}
        BY <1>2, <3>3, ClosedIsUsed DEF Closed
      <4> QED BY <3>1, <3>3, <4>1
    <3> QED BY <3>2, <3>3
  <2>3. FlagsPaired'
    BY <1>2, PrefAssumption DEF FlagsPaired, PrefTypeOK
  <2> QED BY <2>1, <2>2, <2>3 DEF OpenWhereUsed
<1>3. CASE /\ open_in' = Closed(p)
           /\ db_' = [db_ EXCEPT ![p] = NoDb]
           /\ flags' = [flags EXCEPT ![p] = [initialized |-> FALSE, read_only |-> TRUE]]
  <2>1. PrefTypeOK'
    BY <1>1, <1>3 DEF PrefTypeOK, Closed
  <2>2. ASSUME NEW m \in Name PROVE open_in'[m] = {q \in Process : db_'[q] = m}
    <3>1. open_in'[m] = {q \in Process \ {p} : db_[q] = m} /\ m # NoDb
      BY <1>3, ClosedIsUsed, PrefAssumption
    <3>2. db_' = [q \in Process |-> IF q = p THEN NoDb ELSE db_[q]]
      BY <1>3 DEF PrefTypeOK
    <3> QED BY <3>1, <3>2
  <2>3. FlagsPaired'
    BY <1>3 DEF FlagsPaired, PrefTypeOK
  <2> QED BY <2>1, <2>2, <2>3 DEF OpenWhereUsed
<1> QED BY <1>2, <1>3 DEF InitDb

LEMMA ReleaseHolds ==
    ASSUME PrefInv, NEW p \in Process, Release(p)
    PROVE  PrefInv'
<1> USE DEF PrefInv
<1>1. /\ open_in' = Closed(p) /\ db_' = [db_ EXCEPT ![p] = NoDb]
      /\ flags' = [flags EXCEPT ![p] = Neither] /\ UNCHANGED disk
  BY DEF Release
<1>2. PrefTypeOK'
  BY <1>1 DEF PrefTypeOK, Closed, Neither
<1>3. ASSUME NEW m \in Name PROVE open_in'[m] = {q \in Process : db_'[q] = m}
  <2>1. open_in'[m] = {q \in Process \ {p} : db_[q] = m} /\ m # NoDb
    BY <1>1, ClosedIsUsed, PrefAssumption
  <2>2. db_' = [q \in Process |-> IF q = p THEN NoDb ELSE db_[q]]
    BY <1>1 DEF PrefTypeOK
  <2> QED BY <2>1, <2>2
<1>4. FlagsPaired'
  BY <1>1 DEF FlagsPaired, PrefTypeOK, Neither
<1> QED BY <1>2, <1>3, <1>4 DEF OpenWhereUsed

LEMMA PutHolds ==
    ASSUME PrefInv, NEW p \in Process, NEW k \in Pref, NEW v \in Setting \cup {NoDb}, Put(p, k, v)
    PROVE  PrefInv'
<1>1. PrefTypeOK'
  BY DEF PrefInv, PrefTypeOK, Put
<1>2. OpenWhereUsed' /\ FlagsPaired'
  BY DEF PrefInv, OpenWhereUsed, FlagsPaired, Put
<1> QED BY <1>1, <1>2 DEF PrefInv

LEMMA AlwaysPrefInv == PrefSpec => []PrefInv
<1>1. ASSUME PrefInv, [PrefNext]_prefVars PROVE PrefInv'
  <2>1. CASE UNCHANGED prefVars
    BY <1>1, <2>1 DEF prefVars, PrefInv, PrefTypeOK, OpenWhereUsed, FlagsPaired
  <2> QED BY <1>1, <2>1, InitDbHolds, ReleaseHolds, PutHolds DEF PrefNext
<1> QED BY <1>1, PrefInitHolds, PTL DEF PrefSpec

-----------------------------------------------------------------------------
(***************************************************************************)
(* For any number of processes and databases a database is held open by     *)
(* exactly the process that uses it, through failed and repeated Inits      *)
(* (shared_preference.cpp:12-49, 51-60).                                    *)
(***************************************************************************)
THEOREM NoDatabaseStaysLocked == PrefSpec => []OpenWhereUsed
BY AlwaysPrefInv, PTL DEF PrefInv

(***************************************************************************)
(* For any number of processes and databases IsReady and IsReadOnly say     *)
(* what Get and Put do (shared_preference.cpp:39-48, 104-154).              *)
(***************************************************************************)
THEOREM FlagsAreTrue == PrefSpec => []FlagsFit
<1>1. PrefInv => FlagsFit
  BY DEF PrefInv, FlagsPaired, FlagsFit, Get
<1> QED BY <1>1, AlwaysPrefInv, PTL

-----------------------------------------------------------------------------
(***************************************************************************)
(* What holds of TaskRuntime's choice of a thread for any number of threads *)
(* and callers, whatever the threads do while they are asked.  Until a      *)
(* target is found the size to beat is the limit, so a thread that was      *)
(* asked and passed over was full then; and of a scan nothing disturbed,    *)
(* the size to beat is that of the target, and no thread asked is below it. *)
(***************************************************************************)

Scan == [pc : {"idle", "scan", "null"}, left : SUBSET Runner, better : Runner \cup {NoRunner},
         task_size : Nat, target : Runner \cup {NoRunner}, quiet : BOOLEAN,
         roomy : SUBSET Runner]

RuntimeTypeOK ==
    /\ tasks \in [Runner -> Nat]
    /\ scan \in [Poster -> Scan]

\* A thread that has room all the time is still to be asked, or was found.
RoomFound(s) ==
    /\ \A r \in s.roomy : tasks[r] < kMaxTasks
    /\ s.target = NoRunner => s.task_size = kMaxTasks
    /\ s.target = NoRunner /\ s.better = NoRunner => s.roomy \subseteq s.left

\* As long as no list changes, no thread that was asked has a shorter list
\* than the target, but the one that is to be asked again.
LeastSoFar(s) ==
    s.quiet =>
        /\ s.target # NoRunner => tasks[s.target] = s.task_size
        /\ s.better # NoRunner => tasks[s.better] < s.task_size
        /\ \A r \in Runner \ (s.left \cup {s.better}) : s.task_size <= tasks[r]

ScanInv(s) ==
    /\ s.pc # "scan" => s.better = NoRunner
    /\ s.pc = "scan" => RoomFound(s) /\ LeastSoFar(s)

RuntimeInv ==
    /\ RuntimeTypeOK
    /\ \A p \in Poster : ScanInv(scan[p])

-----------------------------------------------------------------------------
LEMMA RuntimeInitHolds == RuntimeInit => RuntimeInv
BY DEF RuntimeInit, RuntimeInv, RuntimeTypeOK, Scan, ScanInv, AtHome

\* A caller that is not in a scan needs nothing.
LEMMA HomeHolds == AtHome \in Scan /\ AtHome.pc = "idle" /\ AtHome.better = NoRunner
BY DEF AtHome, Scan

\* A step of one scan, which leaves the lists alone.
LEMMA OneScanHolds ==
    ASSUME RuntimeInv, NEW p \in Poster, NEW s \in Scan,
           scan' = [scan EXCEPT ![p] = s], UNCHANGED tasks, ScanInv(s)
    PROVE  RuntimeInv'
<1>1. RuntimeTypeOK'
  BY DEF RuntimeInv, RuntimeTypeOK
<1>2. ASSUME NEW q \in Poster PROVE ScanInv(scan[q])'
  <2>1. ScanInv(scan'[q])
    BY DEF RuntimeInv, RuntimeTypeOK
  <2> QED BY <2>1 DEF ScanInv, RoomFound, LeastSoFar
<1> QED BY <1>1, <1>2 DEF RuntimeInv

LEMMA BeginScanHolds ==
    ASSUME RuntimeInv, NEW p \in Poster, BeginScan(p)
    PROVE  RuntimeInv'
<1> DEFINE s == [AtHome EXCEPT !.pc = "scan", !.left = Runner, !.task_size = kMaxTasks,
                               !.roomy = {r \in Runner : tasks[r] < kMaxTasks}]
<1>1. s \in Scan
  BY RuntimeAssumption DEF AtHome, Scan
<1>2. ScanInv(s)
  BY RuntimeAssumption DEF AtHome, ScanInv, RoomFound, LeastSoFar
<1>3. scan' = [scan EXCEPT ![p] = s] /\ UNCHANGED tasks
  BY DEF BeginScan
<1> HIDE DEF s
<1> QED BY <1>1, <1>2, <1>3, OneScanHolds

LEMMA AskHolds ==
    ASSUME RuntimeInv, NEW p \in Poster, NEW r \in Runner, Ask(p, r)
    PROVE  RuntimeInv'
<1> DEFINE o == scan[p]
           s == [o EXCEPT !.left = @ \ {r},
                          !.better = IF tasks[r] < o.task_size THEN r ELSE NoRunner]
<1>1. /\ o \in Scan /\ ScanInv(o) /\ tasks \in [Runner -> Nat] /\ r # NoRunner
      /\ o.pc = "scan" /\ o.better = NoRunner /\ r \in o.left
  BY RuntimeAssumption DEF RuntimeInv, RuntimeTypeOK, Ask
<1>2. scan' = [scan EXCEPT ![p] = s] /\ UNCHANGED tasks
  BY DEF Ask, RuntimeInv, RuntimeTypeOK, Scan
<1> HIDE DEF o
<1>3. /\ s \in Scan /\ s.pc = "scan" /\ s.left = o.left \ {r}
      /\ s.better = (IF tasks[r] < o.task_size THEN r ELSE NoRunner)
      /\ s.task_size = o.task_size /\ s.target = o.target
      /\ s.quiet = o.quiet /\ s.roomy = o.roomy
  BY <1>1 DEF Scan
<1> HIDE DEF s
<1>4. RoomFound(s)
  BY <1>1, <1>3 DEF ScanInv, RoomFound
<1>5. LeastSoFar(s)
  <2>1. tasks[r] \in Nat /\ o.task_size \in Nat
    BY <1>1 DEF Scan
  <2> QED BY <1>1, <1>3, <2>1, RuntimeAssumption DEF ScanInv, LeastSoFar
<1> QED BY <1>2, <1>3, <1>4, <1>5, OneScanHolds DEF ScanInv

LEMMA AskAgainHolds ==
    ASSUME RuntimeInv, NEW p \in Poster, AskAgain(p)
    PROVE  RuntimeInv'
<1> DEFINE o == scan[p]
           s == [o EXCEPT !.better = NoRunner, !.target = o.better,
                          !.task_size = tasks[o.better]]
<1>1. /\ o \in Scan /\ ScanInv(o) /\ tasks \in [Runner -> Nat]
      /\ o.better # NoRunner /\ o.pc = "scan"
  BY DEF RuntimeInv, RuntimeTypeOK, AskAgain, ScanInv
<1>2. o.better \in Runner /\ tasks[o.better] \in Nat
  BY <1>1 DEF Scan
<1>3. scan' = [scan EXCEPT ![p] = s] /\ UNCHANGED tasks
  BY DEF AskAgain, RuntimeInv, RuntimeTypeOK, Scan
<1> HIDE DEF o
<1>4. /\ s \in Scan /\ s.pc = "scan" /\ s.left = o.left /\ s.better = NoRunner
      /\ s.task_size = tasks[o.better] /\ s.target = o.better
      /\ s.quiet = o.quiet /\ s.roomy = o.roomy
  BY <1>1, <1>2 DEF Scan
<1> HIDE DEF s
<1>5. RoomFound(s)
  BY <1>1, <1>4 DEF ScanInv, RoomFound
<1>6. LeastSoFar(s)
  <2>1. \A r \in Runner : tasks[r] \in Nat
    BY <1>1
  <2>2. o.task_size \in Nat
    BY <1>1 DEF Scan
  <2> QED BY <1>1, <1>2, <1>4, <2>1, <2>2 DEF ScanInv, LeastSoFar
<1> QED BY <1>3, <1>4, <1>5, <1>6, OneScanHolds DEF ScanInv

\* A list changes its length: scans under way are no longer quiet, and a list
\* at the limit is no longer roomy.
LEMMA ResizeHolds ==
    ASSUME RuntimeInv, NEW r \in Runner, NEW n \in Nat, NEW posting \in SUBSET Poster,
           Resize(r, n, posting)
    PROVE  RuntimeInv'
<1>1. tasks' = [tasks EXCEPT ![r] = n] /\ tasks \in [Runner -> Nat] /\ scan \in [Poster -> Scan]
  BY DEF RuntimeInv, RuntimeTypeOK, Resize
<1>2. ASSUME NEW q \in Poster PROVE scan'[q] \in Scan /\ ScanInv(scan[q])'
  <2> DEFINE o == scan[q]
             s == [o EXCEPT !.quiet = FALSE, !.roomy = IF n < kMaxTasks THEN @ ELSE @ \ {r}]
  <2>1. o \in Scan /\ ScanInv(o)
    BY DEF RuntimeInv, RuntimeTypeOK
  <2>2. scan'[q] = IF q \in posting THEN AtHome ELSE s
    BY DEF Resize
  <2>3. CASE q \in posting
    BY <2>2, <2>3, HomeHolds DEF ScanInv
  <2>4. CASE q \notin posting
    <3> HIDE DEF o
    <3>1. /\ s \in Scan /\ s.pc = o.pc /\ s.left = o.left /\ s.better = o.better
          /\ s.task_size = o.task_size /\ s.target = o.target /\ ~s.quiet
          /\ s.roomy = IF n < kMaxTasks THEN o.roomy ELSE o.roomy \ {r}
      BY <2>1 DEF Scan
    <3> HIDE DEF s
    <3>2. scan'[q] = s
      BY <2>2, <2>4
    <3>3. \A x \in s.roomy : x \in o.roomy /\ x \in Runner
      BY <2>1, <3>1 DEF Scan
    <3>4. o.pc = "scan" => \A x \in s.roomy : tasks'[x] < kMaxTasks
      BY <1>1, <2>1, <3>1, <3>3 DEF ScanInv, RoomFound
    <3>5. s.roomy \subseteq o.roomy
      BY <3>3
    <3>6. ScanInv(scan[q])'
      BY <2>1, <3>1, <3>2, <3>4, <3>5 DEF ScanInv, RoomFound, LeastSoFar
    <3> QED BY <3>1, <3>2, <3>6
  <2> QED BY <2>3, <2>4
<1>3. scan' \in [Poster -> Scan]
  BY <1>2 DEF Resize
<1> QED BY <1>1, <1>2, <1>3 DEF RuntimeInv, RuntimeTypeOK

LEMMA PostNullHolds ==
    ASSUME RuntimeInv, NEW p \in Poster, PostNull(p)
    PROVE  RuntimeInv'
<1> DEFINE s == [AtHome EXCEPT !.pc = "null"]
<1>1. s \in Scan /\ ScanInv(s)
  BY DEF AtHome, Scan, ScanInv
<1>2. scan' = [scan EXCEPT ![p] = s] /\ UNCHANGED tasks
  BY DEF PostNull
<1> HIDE DEF s
<1> QED BY <1>1, <1>2, OneScanHolds

LEMMA AlwaysRuntimeInv == RuntimeSpec => []RuntimeInv
<1>1. ASSUME RuntimeInv, [RuntimeNext]_runtimeVars PROVE RuntimeInv'
  <2>1. ASSUME NEW p \in Poster, PostTo(p) PROVE RuntimeInv'
    <3> DEFINE r == scan[p].target
               n == IF tasks[r] >= kMaxTasks THEN tasks[r] ELSE tasks[r] + 1
    <3>1. r \in Runner
      BY <1>1, <2>1 DEF RuntimeInv, RuntimeTypeOK, Scan, PostTo
    <3>2. n \in Nat
      BY <1>1, <3>1 DEF RuntimeInv, RuntimeTypeOK
    <3>3. Resize(r, n, {p})
      BY <2>1 DEF PostTo
    <3> HIDE DEF r, n
    <3> QED BY <1>1, <3>1, <3>2, <3>3, ResizeHolds
  <2>2. ASSUME NEW r \in Runner, TakeTask(r) \/ PostPast(r) PROVE RuntimeInv'
    <3>1. PICK n \in Nat : Resize(r, n, {})
      <4>1. tasks[r] \in Nat
        BY <1>1 DEF RuntimeInv, RuntimeTypeOK
      <4> QED BY <2>2, <4>1 DEF TakeTask, PostPast
    <3> QED BY <1>1, <3>1, ResizeHolds
  <2>3. CASE UNCHANGED runtimeVars
    BY <1>1, <2>3 DEF runtimeVars, RuntimeInv, RuntimeTypeOK, ScanInv, RoomFound, LeastSoFar
  <2> QED BY <1>1, <2>1, <2>2, <2>3, BeginScanHolds, AskHolds, AskAgainHolds, PostNullHolds
             DEF RuntimeNext
<1> QED BY <1>1, RuntimeInitHolds, PTL DEF RuntimeSpec

-----------------------------------------------------------------------------
(***************************************************************************)
(* For any number of threads and callers: Post meets no null pointer as     *)
(* long as one thread has room from the beginning to the end of its scan    *)
(* (task_runtime.cpp:59-63, 34).                                            *)
(***************************************************************************)
THEOREM RoomIsFound == RuntimeSpec => []PicksOneWithRoom
<1>1. RuntimeInv => PicksOneWithRoom
  BY DEF RuntimeInv, RuntimeTypeOK, ScanInv, RoomFound, PicksOneWithRoom, Chosen
<1> QED BY <1>1, AlwaysRuntimeInv, PTL

(***************************************************************************)
(* For any number of threads and callers: a scan that nothing disturbs ends *)
(* with a thread whose list is the shortest (task_runtime.cpp:56-66).       *)
(***************************************************************************)
THEOREM ShortestIsPicked == RuntimeSpec => []PicksMostIdle
<1>1. RuntimeInv => PicksMostIdle
  <2> SUFFICES ASSUME RuntimeInv, NEW p \in Poster, Chosen(p), scan[p].quiet,
                      scan[p].target # NoRunner, NEW r \in Runner
               PROVE  tasks[scan[p].target] <= tasks[r]
    BY DEF PicksMostIdle
  <2>1. /\ scan[p].left = {} /\ scan[p].better = NoRunner /\ scan[p].pc = "scan"
        /\ LeastSoFar(scan[p])
    BY DEF Chosen, RuntimeInv, ScanInv
  <2>2. r \in Runner \ (scan[p].left \cup {scan[p].better})
    BY <2>1, RuntimeAssumption
  <2> QED BY <2>1, <2>2 DEF LeastSoFar
<1> QED BY <1>1, AlwaysRuntimeInv, PTL

-----------------------------------------------------------------------------
(***************************************************************************)
(* What holds of ClipboardSync, for any texts.  A change that would be sent *)
(* is owed: while a text is written nothing is, and a write that ends well  *)
(* leaves the echo, which is not sent.  So a user's copy or a write that    *)
(* failed is needed for every change owed and every text sent.              *)
(***************************************************************************)
Pc == {"idle", "check", "write", "verify"}

ClipTypeOK ==
    /\ clip \in [Side -> Text \cup {Nothing}]
    /\ changed \in [Side -> BOOLEAN]
    /\ remote_echo \in [Side -> Text \cup {Nothing}]
    /\ writing \in [Side -> [pc : Pc, text : Text \cup {Nothing}, tries : Nat]]
    /\ net \in [Side -> Seq(Text \cup {Nothing})]
    /\ copies \in Nat /\ sent \in Nat /\ failed \in Nat

Owed(s) ==
    IF /\ ~IsOutboundSuppressed(s)
       /\ changed[s] /\ clip[s] # Nothing /\ clip[s] # remote_echo[s]
    THEN 1 ELSE 0

WritesTheEcho == \A s \in Side : IsOutboundSuppressed(s) => writing[s].text = remote_echo[s]

AllOwed == \A s \in Side : sent + Owed(s) + Owed(Other(s)) <= copies + failed

ClipInv == ClipTypeOK /\ WritesTheEcho /\ AllOwed
-----------------------------------------------------------------------------
LEMMA TwoSides ==
    ASSUME NEW s \in Side
    PROVE  Other(s) \in Side /\ Other(s) # s /\ \A o \in Side \ {s} : o = Other(s)
BY ClipAssumption DEF Other

\* A step of side s keeps the account if it does on its own side.
LEMMA Charged ==
    ASSUME ClipInv, ClipTypeOK', NEW s \in Side,
           \A o \in Side \ {s} : /\ clip'[o] = clip[o] /\ changed'[o] = changed[o]
                                /\ remote_echo'[o] = remote_echo[o]
                                /\ writing'[o] = writing[o],
           sent' + Owed(s)' + copies + failed <= sent + Owed(s) + copies' + failed'
    PROVE  AllOwed'
<1>1. Other(s) \in Side \ {s} /\ \A o \in Side \ {s} : o = Other(s)
  BY TwoSides
<1>2. Owed(Other(s))' = Owed(Other(s))
  BY <1>1 DEF Owed, IsOutboundSuppressed
<1>3. Other(Other(s)) = s
  BY <1>1, TwoSides
<1>4. sent + Owed(s) + Owed(Other(s)) <= copies + failed
  BY DEF ClipInv, AllOwed
<1>5. \A o \in Side : Owed(o) \in Nat /\ Owed(o)' \in Nat
  BY DEF Owed
<1> /\ sent \in Nat /\ copies \in Nat /\ failed \in Nat
    /\ sent' \in Nat /\ copies' \in Nat /\ failed' \in Nat
  BY DEF ClipInv, ClipTypeOK
<1>6. sent' + Owed(s)' + Owed(Other(s))' <= copies' + failed'
  BY <1>1, <1>2, <1>4, <1>5
<1> SUFFICES ASSUME NEW o \in Side
             PROVE  sent' + Owed(o)' + Owed(Other(o))' <= copies' + failed'
  BY DEF AllOwed
<1>7. CASE o = s
  BY <1>6, <1>7
<1>8. CASE o = Other(s)
  <2>1. Owed(Other(o))' = Owed(s)' /\ Owed(o)' = Owed(Other(s))'
    BY <1>3, <1>8
  <2>2. Owed(s)' \in Nat /\ Owed(Other(s))' \in Nat
    BY <1>1, <1>5
  <2> QED BY <1>6, <2>1, <2>2
<1> QED BY <1>1, <1>7, <1>8

LEMMA ClipInitHolds == ClipInit => ClipInv
BY ClipAssumption, TwoSides
   DEF ClipInit, ClipInv, ClipTypeOK, WritesTheEcho, AllOwed, Owed, NotWriting, Pc,
       IsOutboundSuppressed

LEMMA CopyHolds ==
    ASSUME ClipInv, NEW s \in Side, NEW text \in Text, UserCopies(s, text)
    PROVE  ClipInv'
<1>1. ClipTypeOK' /\ sent \in Nat /\ copies \in Nat /\ failed \in Nat
  BY DEF ClipInv, ClipTypeOK, UserCopies, SetClip
<1>2. WritesTheEcho'
  BY DEF ClipInv, WritesTheEcho, UserCopies, IsOutboundSuppressed
<1>3. Owed(s) \in 0..1 /\ Owed(s)' \in 0..1
  BY DEF Owed
<1>4. sent' + Owed(s)' + copies + failed <= sent + Owed(s) + copies' + failed'
  BY <1>1, <1>3 DEF UserCopies
<1>5. \A o \in Side \ {s} : /\ clip'[o] = clip[o] /\ changed'[o] = changed[o]
                            /\ remote_echo'[o] = remote_echo[o] /\ writing'[o] = writing[o]
  BY DEF ClipInv, ClipTypeOK, UserCopies, SetClip
<1> QED BY <1>1, <1>2, <1>4, <1>5, Charged DEF ClipInv

LEMMA ClearHolds ==
    ASSUME ClipInv, NEW s \in Side, ClearClip(s)
    PROVE  ClipInv'
<1>1. ClipTypeOK' /\ sent \in Nat /\ copies \in Nat /\ failed \in Nat
  BY DEF ClipInv, ClipTypeOK, ClearClip, SetClip
<1>2. WritesTheEcho'
  BY DEF ClipInv, WritesTheEcho, ClearClip, IsOutboundSuppressed
<1>3. Owed(s) \in 0..1 /\ Owed(s)' = 0
  BY DEF ClipInv, ClipTypeOK, ClearClip, SetClip, Owed
<1>4. sent' + Owed(s)' + copies + failed <= sent + Owed(s) + copies' + failed'
  BY <1>1, <1>3 DEF ClearClip
<1>5. \A o \in Side \ {s} : /\ clip'[o] = clip[o] /\ changed'[o] = changed[o]
                            /\ remote_echo'[o] = remote_echo[o] /\ writing'[o] = writing[o]
  BY DEF ClipInv, ClipTypeOK, ClearClip, SetClip
<1> QED BY <1>1, <1>2, <1>4, <1>5, Charged DEF ClipInv

\* A text that is sent was owed, and its change is over.
LEMMA OnChangeHolds ==
    ASSUME ClipInv, NEW s \in Side, OnChange(s)
    PROVE  ClipInv'
<1>7. /\ sent \in Nat /\ copies \in Nat /\ failed \in Nat
      /\ copies' = copies /\ failed' = failed
  BY DEF ClipInv, ClipTypeOK, OnChange
<1>0. \A o \in Side \ {s} : /\ clip'[o] = clip[o] /\ changed'[o] = changed[o]
                            /\ remote_echo'[o] = remote_echo[o]
                            /\ writing'[o] = writing[o]
  BY DEF ClipInv, ClipTypeOK, OnChange
<1>1. ClipTypeOK'
  <2>1. net' \in [Side -> Seq(Text \cup {Nothing})]
    <3>1. CASE net' = [net EXCEPT ![Other(s)] = Append(@, clip[s])]
      <4>1. Append(net[Other(s)], clip[s]) \in Seq(Text \cup {Nothing})
        BY TwoSides DEF ClipInv, ClipTypeOK
      <4> QED BY <3>1, <4>1 DEF ClipInv, ClipTypeOK
    <3> QED BY <3>1 DEF ClipInv, ClipTypeOK, OnChange
  <2>2. sent' \in Nat
    BY <1>7 DEF OnChange
  <2> QED BY <1>7, <2>1, <2>2 DEF ClipInv, ClipTypeOK, OnChange
<1>2. WritesTheEcho'
  BY DEF ClipInv, WritesTheEcho, OnChange, IsOutboundSuppressed
<1>3. Owed(s)' = 0 /\ Owed(s) \in 0..1
  BY DEF ClipInv, ClipTypeOK, OnChange, Owed
<1>4. ASSUME UNCHANGED sent PROVE AllOwed'
  <2>1. sent' + Owed(s)' + copies + failed <= sent + Owed(s) + copies' + failed'
    BY <1>3, <1>4, <1>7
  <2> QED BY <1>0, <1>1, <2>1, Charged
<1>5. ASSUME clip[s] # Nothing, ~ShouldSkipOutbound(s, clip[s]), sent' = sent + 1
      PROVE  AllOwed'
  <2>1. Owed(s) = 1
    BY <1>5 DEF OnChange, Owed, ShouldSkipOutbound
  <2>2. sent' + Owed(s)' + copies + failed <= sent + Owed(s) + copies' + failed'
    BY <1>3, <1>5, <1>7, <2>1
  <2> QED BY <1>0, <1>1, <2>2, Charged
<1>6. AllOwed'
  BY <1>4, <1>5 DEF OnChange
<1> QED BY <1>1, <1>2, <1>6 DEF ClipInv

LEMMA ReceiveHolds ==
    ASSUME ClipInv, NEW s \in Side, Receive(s)
    PROVE  ClipInv'
<1>1. Head(net[s]) \in Text \cup {Nothing} /\ Tail(net[s]) \in Seq(Text \cup {Nothing})
  BY DEF ClipInv, ClipTypeOK, Receive
<1>2. ClipTypeOK' /\ WritesTheEcho'
  BY <1>1, ClipAssumption
     DEF ClipInv, ClipTypeOK, WritesTheEcho, Receive, IsOutboundSuppressed, Pc
<1>3. Owed(s)' = 0 /\ Owed(s) \in 0..1
  BY DEF ClipInv, ClipTypeOK, Receive, Owed, IsOutboundSuppressed
<1>4. AllOwed'
  BY <1>2, <1>3, Charged DEF ClipInv, ClipTypeOK, Receive
<1> QED BY <1>2, <1>4 DEF ClipInv

\* While a text is written nothing is owed; when it is there, it is the echo;
\* and a write given up is counted.
LEMMA WriteHolds ==
    ASSUME ClipInv, NEW s \in Side, Check(s) \/ WriteText(s) \/ Verify(s)
    PROVE  ClipInv'
<1> DEFINE GoesOn == /\ \E pc \in Pc \ {"idle"}, tries \in Nat :
                            writing' = [writing EXCEPT ![s] =
                                            [pc |-> pc, text |-> @.text, tries |-> tries]]
                     /\ failed' = failed
           Ends == writing' = [writing EXCEPT ![s] = NotWriting]
           EndsWell == clip[s] = writing[s].text /\ clip' = clip /\ Ends /\ failed' = failed
           GivesUp == Ends /\ failed' = failed + 1
<1>0. /\ writing[s].tries \in Nat /\ writing[s].text \in Text \cup {Nothing}
      /\ writing[s] = [pc |-> writing[s].pc, text |-> writing[s].text,
                       tries |-> writing[s].tries]
      /\ writing \in [Side -> [pc : Pc, text : Text \cup {Nothing}, tries : Nat]]
      /\ sent \in Nat /\ copies \in Nat /\ failed \in Nat
  BY DEF ClipInv, ClipTypeOK
<1>1. /\ Owed(s) = 0 /\ writing[s].text = remote_echo[s]
      /\ remote_echo' = remote_echo /\ net' = net /\ copies' = copies /\ sent' = sent
  BY DEF ClipInv, WritesTheEcho, Check, WriteText, Verify, At, Owed, IsOutboundSuppressed
<1>2. /\ clip' \in [Side -> Text \cup {Nothing}] /\ changed' \in [Side -> BOOLEAN]
      /\ \A o \in Side \ {s} : clip'[o] = clip[o] /\ changed'[o] = changed[o]
  <2>1. ASSUME NEW text \in Text \cup {Nothing}, SetClip(s, text)
        PROVE  /\ clip' \in [Side -> Text \cup {Nothing}] /\ changed' \in [Side -> BOOLEAN]
               /\ \A o \in Side \ {s} : clip'[o] = clip[o] /\ changed'[o] = changed[o]
    BY <2>1 DEF ClipInv, ClipTypeOK, SetClip
  <2>2. CASE UNCHANGED <<clip, changed>>
    BY <2>2 DEF ClipInv, ClipTypeOK
  <2> QED BY <1>0, <2>1, <2>2 DEF Check, WriteText, Verify
<1>3. ASSUME TryAgain(s) PROVE GoesOn \/ GivesUp
  <2>1. CASE writing[s].tries > 1
    <3>1. writing[s].tries - 1 \in Nat
      BY <1>0, <2>1
    <3>2. writing' = [writing EXCEPT ![s] = [pc |-> "check", text |-> @.text,
                                            tries |-> writing[s].tries - 1]]
      BY <1>0, <1>3, <2>1 DEF TryAgain
    <3> QED BY <1>3, <2>1, <3>1, <3>2 DEF TryAgain, Pc
  <2> QED BY <1>3, <2>1 DEF TryAgain
<1>4. ASSUME NEW pc \in Pc \ {"idle"}, Goto(s, pc), failed' = failed PROVE GoesOn
  <2>1. [writing[s] EXCEPT !.pc = pc] = [pc |-> pc, text |-> writing[s].text,
                                         tries |-> writing[s].tries]
    BY <1>0
  <2>2. writing' = [writing EXCEPT ![s] = [pc |-> pc, text |-> @.text,
                                          tries |-> writing[s].tries]]
    BY <1>4, <2>1 DEF Goto
  <2> QED BY <1>0, <1>4, <2>2
<1>5. GoesOn \/ EndsWell \/ GivesUp
  <2> "write" \in Pc \ {"idle"} /\ "verify" \in Pc \ {"idle"}
    BY DEF Pc
  <2> HIDE DEF GoesOn, GivesUp
  <2>1. CASE Check(s)
    BY <1>4, <2>1 DEF Check, Done
  <2>2. CASE WriteText(s)
    BY <1>3, <1>4, <2>2 DEF WriteText
  <2>3. CASE Verify(s)
    BY <1>3, <2>3 DEF Verify, Done
  <2> QED BY <2>1, <2>2, <2>3
<1>6. /\ writing' \in [Side -> [pc : Pc, text : Text \cup {Nothing}, tries : Nat]]
      /\ failed' \in Nat
      /\ \A o \in Side \ {s} : writing'[o] = writing[o]
  <2>1. NotWriting \in [pc : Pc, text : Text \cup {Nothing}, tries : Nat]
    BY DEF NotWriting, Pc
  <2> HIDE DEF NotWriting
  <2> QED BY <1>0, <1>5, <2>1
<1>7. ClipTypeOK'
  BY <1>0, <1>1, <1>2, <1>6 DEF ClipInv, ClipTypeOK
<1>8. WritesTheEcho'
  BY <1>0, <1>1, <1>5, <1>6 DEF ClipInv, WritesTheEcho, IsOutboundSuppressed, NotWriting
<1>9. AllOwed'
  <2>1. CASE GoesOn
    <3>1. Owed(s)' = 0
      BY <1>0, <2>1 DEF Owed, IsOutboundSuppressed
    <3>2. sent' + Owed(s)' + copies + failed <= sent + Owed(s) + copies' + failed'
      BY <1>0, <1>1, <2>1, <3>1
    <3> QED BY <1>1, <1>2, <1>6, <1>7, <3>2, Charged
  <2>2. CASE EndsWell
    <3>1. Owed(s)' = 0
      BY <1>1, <2>2 DEF Owed
    <3>2. sent' + Owed(s)' + copies + failed <= sent + Owed(s) + copies' + failed'
      BY <1>0, <1>1, <2>2, <3>1
    <3> QED BY <1>1, <1>2, <1>6, <1>7, <3>2, Charged
  <2>3. CASE GivesUp
    <3>1. Owed(s)' \in 0..1
      BY DEF Owed
    <3>2. sent' + Owed(s)' + copies + failed <= sent + Owed(s) + copies' + failed'
      BY <1>0, <1>1, <2>3, <3>1
    <3> QED BY <1>1, <1>2, <1>6, <1>7, <3>2, Charged
  <2> QED BY <1>5, <2>1, <2>2, <2>3
<1> QED BY <1>7, <1>8, <1>9 DEF ClipInv

LEMMA AlwaysClipInv == ClipSpec => []ClipInv
<1>1. ASSUME ClipInv, [ClipNext]_clipVars PROVE ClipInv'
  <2>1. CASE UNCHANGED clipVars
    BY <1>1, <2>1 DEF clipVars, ClipInv, ClipTypeOK, WritesTheEcho, AllOwed, Owed,
                      IsOutboundSuppressed
  <2>2. ASSUME NEW s \in Side, ClearClip(s) PROVE ClipInv'
    BY <1>1, <2>2, ClearHolds
  <2> QED BY <1>1, <2>1, <2>2, CopyHolds, OnChangeHolds, ReceiveHolds, WriteHolds
             DEF ClipNext
<1> QED BY <1>1, ClipInitHolds, PTL DEF ClipSpec

(***************************************************************************)
(* For any texts, delays, failures of the clipboard and users' copies: no   *)
(* text goes back and forth between the two machines                        *)
(* (clipboard_echo.cpp:28-33).                                              *)
(***************************************************************************)
THEOREM TextsDoNotBounce == ClipSpec => []NoPingPong
<1>1. ClipInv => NoPingPong
  <2> SUFFICES ASSUME ClipInv PROVE sent <= copies + failed
    BY DEF NoPingPong
  <2>1. PICK s \in Side : TRUE
    BY ClipAssumption
  <2>2. Owed(s) \in Nat /\ Owed(Other(s)) \in Nat
    BY DEF Owed
  <2> QED BY <2>2 DEF ClipInv, ClipTypeOK, AllOwed
<1> QED BY <1>1, AlwaysClipInv, PTL

-----------------------------------------------------------------------------
(***************************************************************************)
(* What holds of SnowflakeId for every size of an id, every clock and every *)
(* number of calls: ids increase and do not run ahead of the clock,         *)
(* provided that initialize is not called again and that the clock stays    *)
(* below what the timestamp of an id can hold.                              *)
(***************************************************************************)
\* The two provisos.
Once == Reinitialize = FALSE
Fits == Horizon < TimestampSize

-----------------------------------------------------------------------------
\* Nothing has happened before the generator is initialized.
Started == ~config.initialized => issued = <<>> /\ last = 0 /\ sequence = 0 /\ at = "idle"

\* The timestamp a call is about to use is not behind the last one and was
\* shown by the clock; so was the next millisecond once it was waited for.
Timely ==
    /\ at = "stamp" => timestamp >= last
    /\ at = "stamp" /\ timestamp > 0 => timestamp + config.epoch <= peak
    /\ at = "overflow" => last + 1 + config.epoch <= peak
    /\ at \in {"next", "overflow"} => sequence = 0

\* An id is under a mark: a machine, a timestamp and a sequence number, the
\* last of which does not count while the sequence overflows.
Under(id, machine, ts, seq, overflows) ==
    /\ id.machineId = machine
    /\ id.timestamp <= ts
    /\ id.timestamp = ts => id.sequence <= seq \/ overflows

Overflows == at \in {"next", "overflow"}

\* last and sequence are a mark that no id is above.
Marked == \A n \in DOMAIN issued : Under(issued[n], config.machine, last, sequence, Overflows)

Clocked == TypeOK /\ Started /\ Timely /\ NeverAhead

-----------------------------------------------------------------------------
\* What the mask leaves of a sequence number and of a timestamp.
LEMMA Mask ==
  ASSUME NEW k \in 0 .. SequenceSize - 1
  PROVE  /\ (k + 1) % SequenceSize \in 0 .. SequenceSize - 1
         /\ (k + 1) % SequenceSize # 0 => (k + 1) % SequenceSize = k + 1
  <1>1. CASE k + 1 = SequenceSize BY <1>1, SnowflakeAssumption
  <1>2. CASE k + 1 # SequenceSize BY <1>2, SnowflakeAssumption
  <1> QED BY <1>1, <1>2

\* A time on the clock fits the timestamp.
LEMMA FitsId ==
  ASSUME Fits, NEW ts \in 0 .. Horizon
  PROVE  ts % TimestampSize = ts
  BY SnowflakeAssumption DEF Fits

\* A reading is a number, and not above the highest one.
LEMMA Reading ==
  ASSUME TypeOK
  PROVE  /\ config.epoch \in Nat /\ now \in Nat /\ peak \in Nat
         /\ CurrentTimestampMs \in Nat
         /\ CurrentTimestampMs + config.epoch <= peak
  <1>1. config.epoch \in 0 .. Floor BY SnowflakeAssumption DEF TypeOK
  <1>2. now \in Floor .. Horizon /\ peak \in now .. Horizon BY DEF TypeOK
  <1> QED BY <1>1, <1>2, SnowflakeAssumption DEF CurrentTimestampMs

\* What is returned is an id.
LEMMA IdType ==
  ASSUME TypeOK, NEW ts \in Nat, NEW seq \in Nat
  PROVE  Id(ts, seq) \in Ids
  <1>1. ts % TimestampSize \in Nat BY SnowflakeAssumption
  <1>2. config.machine \in Nat BY SnowflakeAssumption DEF TypeOK
  <1> QED BY <1>1, <1>2 DEF Id, Ids

\* The readings, the timestamps and the types hold at the start.
LEMMA ClockedInit == Init => Clocked
  <1> SUFFICES ASSUME Init PROVE Clocked OBVIOUS
  <1> USE SnowflakeAssumption
  <1>1. TypeOK BY DEF Init, TypeOK, Steps
  <1>2. Started /\ Timely /\ NeverAhead BY DEF Init, Started, Timely, NeverAhead
  <1> QED BY <1>1, <1>2 DEF Clocked

\* Every step keeps the types and the bounds by the clock.
LEMMA ClockedStep == Once /\ Clocked /\ [Next]_vars => Clocked'
  <1> SUFFICES ASSUME Once, Clocked, [Next]_vars PROVE Clocked' OBVIOUS
  <1> USE SnowflakeAssumption, Reading DEF Once, Clocked, Started, Timely, NeverAhead, Later
  <1>1. CASE Tick BY <1>1 DEF Tick, TypeOK
  <1>2. CASE SetBack BY <1>2 DEF SetBack, TypeOK
  <1>3. ASSUME NEW e \in Epochs, NEW m \in Machines, Initialize(e, m) PROVE Clocked'
    BY <1>3 DEF Initialize, Initialized, TypeOK
  <1>4. CASE Enter
    <2>1. CASE config.initialized BY <1>4, <2>1 DEF Enter, TypeOK, Steps
    <2>2. CASE ~config.initialized
      <3>1. config' \in [epoch : Epochs, machine : Machines, initialized : BOOLEAN]
        <4>1. config' = [epoch |-> 0, machine |-> 0, initialized |-> TRUE]
          BY <1>4, <2>2 DEF Enter, Initialized
        <4>2. 0 \in Epochs /\ 0 \in Machines BY SnowflakeAssumption
        <4> QED BY ONLY <4>1, <4>2
      <3>2. last' = 0 /\ sequence' = 0 /\ at' = "enter" /\ config'.initialized
        BY <1>4, <2>2 DEF Enter, Initialized
      <3> QED BY <1>4, <3>1, <3>2 DEF Enter, TypeOK, Steps
    <2> QED BY <2>1, <2>2
  <1>5. CASE ReadClock
    <2>1. TypeOK' BY <1>5 DEF ReadClock, TypeOK, Steps
    <2>2. (Started /\ NeverAhead)' BY <1>5 DEF ReadClock
    <2>3. Timely' BY <1>5 DEF ReadClock, TypeOK, CurrentTimestampMs
    <2> QED BY <2>1, <2>2, <2>3
  <1>6. CASE WaitBack BY <1>6 DEF WaitBack, TypeOK, Steps
  <1>7. CASE Reread
    <2>1. TypeOK' BY <1>7 DEF Reread, TypeOK, Steps
    <2>2. (Started /\ NeverAhead)' BY <1>7 DEF Reread
    <2>3. Timely' BY <1>7 DEF Reread, TypeOK, CurrentTimestampMs
    <2> QED BY <2>1, <2>2, <2>3
  <1>8. CASE Stamp
    <2>1. CASE timestamp = last
      <3>1. sequence' = (sequence + 1) % SequenceSize /\ sequence' \in 0 .. SequenceSize - 1
        BY <1>8, <2>1, Mask DEF Stamp, TypeOK
      <3>2. Id(last, sequence') \in Ids BY <3>1, IdType DEF TypeOK
      <3>3. CASE sequence' = 0
        BY <1>8, <2>1, <3>1, <3>3 DEF Stamp, TypeOK, Steps
      <3>4. CASE sequence' # 0
        <4>1. UNCHANGED <<now, peak, setBacks, config, last, timestamp>> /\ at' = "idle"
          BY <1>8, <2>1, <3>4 DEF Stamp, Return
        <4>2. issued' = Append(issued, Id(last, sequence')) BY <1>8, <2>1, <3>4 DEF Stamp, Return
        <4>3. issued' \in Seq(Ids) BY <3>2, <4>2 DEF TypeOK
        <4>4. config.initialized BY <1>8 DEF Stamp
        <4>5. TypeOK' BY <3>1, <4>1, <4>3 DEF TypeOK, Steps
        <4> QED BY <4>1, <4>4, <4>5
      <3> QED BY <3>3, <3>4
    <2>2. CASE timestamp # last
      <3>1. Id(timestamp, 0) \in Ids BY IdType DEF TypeOK
      <3> QED BY <1>8, <2>2, <3>1 DEF Stamp, TypeOK, Steps, Return
    <2> QED BY <2>1, <2>2
  <1>9. CASE WaitNext BY <1>9 DEF WaitNext, TypeOK, Steps, CurrentTimestampMs
  <1>10. CASE Overflow
    <2>1. last + 1 \in Nat /\ sequence \in Nat BY DEF TypeOK
    <2>2. timestamp' \in Nat BY <1>10, <2>1 DEF Overflow
    <2>3. Id(timestamp', sequence) \in Ids BY <2>1, <2>2, IdType
    <2>4. timestamp' + config.epoch <= peak BY <1>10, <2>1 DEF Overflow, TypeOK
    <2> QED BY <1>10, <2>1, <2>2, <2>3, <2>4 DEF Overflow, TypeOK, Steps, Return
  <1>11. CASE UNCHANGED vars BY <1>11 DEF vars, TypeOK
  <1> QED BY <1>1, <1>2, <1>3, <1>4, <1>5, <1>6, <1>7, <1>8, <1>9, <1>10, <1>11 DEF Next, Generate

\* TypeOK: numbers stay within the widths of an id.
THEOREM TypeCorrect == Once /\ Spec => []TypeOK
  <1> SUFFICES ASSUME Once PROVE Spec => []TypeOK OBVIOUS
  <1>1. Clocked /\ [Next]_vars => Clocked' BY ClockedStep
  <1>2. Clocked => TypeOK BY DEF Clocked
  <1> QED BY ClockedInit, <1>1, <1>2, PTL DEF Spec

\* NeverAhead: no id carries a time that the clock has not shown.
THEOREM NotAheadOfClock == Once /\ Spec => []NeverAhead
  <1> SUFFICES ASSUME Once PROVE Spec => []NeverAhead OBVIOUS
  <1>1. Clocked /\ [Next]_vars => Clocked' BY ClockedStep
  <1>2. Clocked => NeverAhead BY DEF Clocked
  <1> QED BY ClockedInit, <1>1, <1>2, PTL DEF Spec

-----------------------------------------------------------------------------
Sorted(ids) == \A m, n \in DOMAIN ids : m < n => Before(ids[m], ids[n])

\* The mark and the order of ids, which is what makes them increase.
Ordered == Marked /\ Sorted(issued)

\* What appending does to a sequence.
LEMMA Appended ==
  ASSUME NEW ids \in Seq(Ids), NEW id \in Ids
  PROVE  /\ Len(ids) \in Nat /\ DOMAIN ids = 1 .. Len(ids)
         /\ DOMAIN Append(ids, id) = 1 .. Len(ids) + 1
         /\ \A n \in 1 .. Len(ids) : Append(ids, id)[n] = ids[n]
         /\ Append(ids, id)[Len(ids) + 1] = id
  OBVIOUS

\* An id above all others may follow them.
LEMMA AppendAbove ==
  ASSUME NEW ids \in Seq(Ids), NEW id \in Ids, Sorted(ids),
         \A n \in DOMAIN ids : Before(ids[n], id)
  PROVE  Sorted(Append(ids, id))
  <1> SUFFICES ASSUME NEW m \in 1 .. Len(ids) + 1, NEW n \in 1 .. Len(ids) + 1, m < n
               PROVE  Before(Append(ids, id)[m], Append(ids, id)[n])
    BY Appended DEF Sorted
  <1>1. m \in 1 .. Len(ids) BY Appended
  <1>2. CASE n \in 1 .. Len(ids) BY <1>1, <1>2, Appended DEF Sorted
  <1>3. CASE n = Len(ids) + 1 BY <1>1, <1>3, Appended
  <1> QED BY <1>2, <1>3

\* A later mark is a mark too; an id at a mark that stands above the issued
\* ones can be returned.
LEMMA IssueNext ==
  ASSUME Fits, Clocked, Ordered, NEW ts \in 0 .. Horizon, NEW seq \in Nat,
         ts > last \/ (ts = last /\ seq > sequence /\ ~Overflows),
         issued' = Append(issued, Id(ts, seq)), config' = config,
         last' = ts, sequence' = seq, ~Overflows'
  PROVE  Ordered'
  <1> DEFINE id == Id(ts, seq)
  <1>1. issued \in Seq(Ids) /\ last \in Nat /\ sequence \in Nat BY DEF Clocked, TypeOK
  <1>2. id \in Ids BY IdType DEF Clocked
  <1>3. id.timestamp = ts /\ id.sequence = seq /\ id.machineId = config.machine
    BY FitsId DEF Id
  <1> HIDE DEF id
  <1>4. ASSUME NEW n \in DOMAIN issued
        PROVE  Before(issued[n], id) /\ Under(issued[n], config.machine, ts, seq, FALSE)
    <2>1. issued[n] \in Ids BY <1>1
    <2>2. Under(issued[n], config.machine, last, sequence, Overflows) BY DEF Ordered, Marked
    <2> QED BY <1>1, <1>3, <2>1, <2>2 DEF Under, Before, Ids
  <1>5. Sorted(Append(issued, id)) BY <1>1, <1>2, <1>4, AppendAbove DEF Ordered
  <1>6. Under(id, config.machine, ts, seq, FALSE) BY <1>3 DEF Under
  <1>7. \A n \in DOMAIN Append(issued, id) :
           Under(Append(issued, id)[n], config.machine, ts, seq, FALSE)
    <2>0. DOMAIN Append(issued, id) = 1 .. Len(issued) + 1 /\ Len(issued) \in Nat
      BY <1>1, <1>2, Appended
    <2> SUFFICES ASSUME NEW n \in 1 .. Len(issued) + 1
                 PROVE  Under(Append(issued, id)[n], config.machine, ts, seq, FALSE)
      BY <2>0
    <2>1. CASE n \in 1 .. Len(issued) BY <1>1, <1>2, <1>4, <2>1, Appended
    <2>2. CASE n = Len(issued) + 1 BY <1>1, <1>2, <1>6, <2>2, Appended
    <2>3. n \in 1 .. Len(issued) \/ n = Len(issued) + 1 BY <2>0
    <2> QED BY <2>1, <2>2, <2>3
  <1>8. issued' = Append(issued, id) BY DEF id
  <1>9. Marked' BY <1>7, <1>8 DEF Marked, Under
  <1> QED BY <1>5, <1>8, <1>9 DEF Ordered

\* Ids are in order at the start, and every step keeps them so.
LEMMA OrderedInit == Init => Ordered
  BY DEF Init, Ordered, Marked, Sorted

\* A step keeps the ids in order.
LEMMA OrderedStep == Once /\ Fits /\ Clocked /\ Clocked' /\ Ordered /\ [Next]_vars => Ordered'
  <1> SUFFICES ASSUME Once, Fits, Clocked, Clocked', Ordered, [Next]_vars PROVE Ordered' OBVIOUS
  <1>1. CASE UNCHANGED <<config, last, sequence, issued, Overflows>>
    BY <1>1 DEF Ordered, Marked
  <1>2. CASE issued = <<>> /\ issued' = issued BY <1>2 DEF Ordered, Marked, Sorted
  <1>3. CASE Tick \/ SetBack \/ UNCHANGED vars
    BY <1>1, <1>3 DEF Tick, SetBack, vars, Overflows
  <1>4. ASSUME NEW e \in Epochs, NEW m \in Machines, Initialize(e, m) PROVE Ordered'
    BY <1>2, <1>4 DEF Initialize, Once, Clocked, Started
  <1>5. CASE Enter
    BY <1>1, <1>2, <1>5 DEF Enter, Initialized, Clocked, Started, Overflows
  <1>6. CASE ReadClock \/ WaitBack \/ Reread \/ WaitNext
    BY <1>1, <1>6 DEF ReadClock, WaitBack, Reread, WaitNext, Overflows
  <1>7. CASE Stamp
    <2>1. timestamp \in 0 .. Horizon /\ last \in 0 .. Horizon /\ sequence \in 0 .. SequenceSize - 1
      BY <1>7, SnowflakeAssumption, Reading DEF Stamp, Clocked, Timely, NeverAhead, TypeOK
    <2>2. CASE timestamp = last
      <3>1. sequence' = (sequence + 1) % SequenceSize BY <1>7, <2>2 DEF Stamp
      <3>2. CASE sequence' = 0
        <4>1. at' = "next" /\ UNCHANGED <<config, last, issued>> BY <1>7, <2>2, <3>2 DEF Stamp
        <4> QED BY <3>2, <4>1 DEF Ordered, Marked, Under, Overflows
      <3>3. CASE sequence' # 0
        <4>1. sequence' > sequence /\ sequence' \in Nat BY <2>1, <3>1, <3>3, Mask
        <4>2. /\ issued' = Append(issued, Id(last, sequence')) /\ UNCHANGED <<config, last>>
              /\ ~Overflows /\ ~Overflows'
          BY <1>7, <2>2, <3>3 DEF Stamp, Return, Overflows
        <4> QED BY <2>1, <4>1, <4>2, IssueNext
      <3> QED BY <3>2, <3>3
    <2>3. CASE timestamp # last
      <3>1. timestamp > last BY <1>7, <2>1, <2>3 DEF Stamp, Clocked, Timely
      <3>2. /\ issued' = Append(issued, Id(timestamp, 0)) /\ last' = timestamp /\ sequence' = 0
            /\ config' = config /\ ~Overflows'
        BY <1>7, <2>3 DEF Stamp, Return, Overflows
      <3> QED BY <2>1, <3>1, <3>2, IssueNext
    <2> QED BY <2>2, <2>3
  <1>8. CASE Overflow
    <2>1. last' \in 0 .. Horizon /\ last' > last /\ sequence \in Nat
      BY <1>8, SnowflakeAssumption, Reading
      DEF Overflow, Later, Clocked, Timely, NeverAhead, TypeOK
    <2>2. /\ issued' = Append(issued, Id(last', sequence)) /\ UNCHANGED <<config, sequence>>
          /\ ~Overflows'
      BY <1>8 DEF Overflow, Return, Overflows
    <2> QED BY <2>1, <2>2, IssueNext
  <1> QED BY <1>3, <1>4, <1>5, <1>6, <1>7, <1>8 DEF Next, Generate

\* Increasing: each id is above every earlier one, however the clock is set
\* back and however fast ids are asked for.
THEOREM IdsIncrease == Once /\ Fits /\ Spec => []Increasing
  <1> SUFFICES ASSUME Once, Fits PROVE Spec => []Increasing OBVIOUS
  <1>1. Clocked /\ [Next]_vars => Clocked' BY ClockedStep
  <1>2. Clocked /\ Clocked' /\ Ordered /\ [Next]_vars => Ordered' BY OrderedStep
  <1>3. Ordered => Increasing BY DEF Ordered, Sorted, Increasing
  <1> QED BY ClockedInit, OrderedInit, <1>1, <1>2, <1>3, PTL DEF Spec
=============================================================================
