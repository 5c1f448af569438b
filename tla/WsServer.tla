------------------------------- MODULE WsServer -------------------------------
(***************************************************************************)
(* tc::WsServer (ws_server.h, ws_server.cpp): the sessions of an asio2      *)
(* http_server, registered in sessions_ under the descriptor of their       *)
(* socket.  Of asio2, which is not in this repository: the handlers of one  *)
(* connection run one after the other, those of different connections at    *)
(* the same time; the disconnect handler runs last, on every connection,    *)
(* while the socket is still open; stop(), called from outside, returns     *)
(* when every connection has gone.                                          *)
(***************************************************************************)
EXTENDS Naturals

CONSTANTS
    Conn,       \* the connections, each made once
    Fd,         \* the descriptors the system hands out again and again
    NoSession

ASSUME WsAssumption == NoSession \notin Conn

VARIABLES
    exiting,    \* exiting_
    server,     \* how far Exit has got
    conn,       \* of each connection: what it is at and its descriptor
    sessions,   \* sessions_: under each descriptor the connection, or NoSession
    holding,    \* the session a message handler took from sessions_
    hello, bye  \* of each connection: whether OnConnected accepted it, and how
                \* often OnDisConnected was called

wsVars == <<exiting, server, conn, sessions, holding, hello, bye>>

Gone == {"none", "closed"}

WsInit ==
    /\ exiting = FALSE /\ server = "up"
    /\ conn = [c \in Conn |-> [at |-> "none", fd |-> 0]]
    /\ sessions = [f \in Fd |-> NoSession]
    /\ holding = [c \in Conn |-> NoSession]
    /\ hello = [c \in Conn |-> FALSE]
    /\ bye = [c \in Conn |-> 0]

Goes(c, from, to) == conn[c].at = from /\ conn' = [conn EXCEPT ![c].at = to]

Accept(c, f) ==
    /\ server = "up"
    /\ conn[c].at = "none"
    /\ \A d \in Conn : conn[d].at \notin Gone => conn[d].fd # f
    /\ conn' = [conn EXCEPT ![c] = [at |-> "accepted", fd |-> f]]
    /\ UNCHANGED <<exiting, server, sessions, holding, hello, bye>>

\* Mutant: a refused connection is registered all the same.
OnConnectedIgnored(c) ==
    \E welcome \in BOOLEAN :
        /\ Goes(c, "opening", "inserting")
        /\ hello' = [hello EXCEPT ![c] = welcome]
        /\ UNCHANGED <<exiting, server, sessions, holding, bye>>

\* on("open"): first exiting_,
Open(c) ==
    /\ Goes(c, "accepted", IF exiting THEN "closing" ELSE "opening")
    /\ UNCHANGED <<exiting, server, sessions, holding, hello, bye>>

\* then the session's OnConnected, which may refuse,
OnConnected(c) ==
    \E welcome \in BOOLEAN :
        /\ Goes(c, "opening", IF welcome THEN "inserting" ELSE "closing")
        /\ hello' = [hello EXCEPT ![c] = welcome]
        /\ UNCHANGED <<exiting, server, sessions, holding, bye>>

\* and last Insert.
Register(c) ==
    /\ Goes(c, "inserting", "open")
    /\ sessions' = [sessions EXCEPT ![conn[c].fd] = c]
    /\ UNCHANGED <<exiting, server, holding, hello, bye>>

\* on("message"): TryGet, then the session's OnBinMessage.
Message(c) ==
    /\ ~exiting
    /\ Goes(c, "open", "message")
    /\ sessions[conn[c].fd] # NoSession
    /\ holding' = [holding EXCEPT ![c] = sessions[conn[c].fd]]
    /\ UNCHANGED <<exiting, server, sessions, hello, bye>>

OnBinMessage(c) ==
    /\ Goes(c, "message", "open")
    /\ holding' = [holding EXCEPT ![c] = NoSession]
    /\ UNCHANGED <<exiting, server, sessions, hello, bye>>

\* Remove(socket_fd), and OnDisConnected of what it removed.
Unregister(c) ==
    LET s == sessions[conn[c].fd]
    IN  /\ sessions' = [sessions EXCEPT ![conn[c].fd] = NoSession]
        /\ bye' = [d \in Conn |-> IF d = s THEN bye[d] + 1 ELSE bye[d]]

\* on("close"): the peer closed the websocket.
Close(c) ==
    /\ Goes(c, "open", "closing")
    /\ Unregister(c)
    /\ UNCHANGED <<exiting, server, holding, hello>>

\* The connection breaks, or stop() ends it.
Break(c) ==
    /\ \/ Goes(c, "open", "closing")
       \/ server = "stopping" /\ Goes(c, "accepted", "closing")
    /\ UNCHANGED <<exiting, server, sessions, holding, hello, bye>>

\* bind_disconnect, and then the socket is closed.
Disconnect(c) ==
    /\ Goes(c, "closing", "closed")
    /\ Unregister(c)
    /\ UNCHANGED <<exiting, server, holding, hello>>

\* Exit: exiting_, stop(), Clear().
BeginExit ==
    /\ server = "up"
    /\ server' = "exiting"
    /\ exiting' = TRUE
    /\ UNCHANGED <<conn, sessions, holding, hello, bye>>

\* Mutant: Clear() before stop().
ClearAndStop ==
    /\ server = "exiting"
    /\ server' = "stopping"
    /\ sessions' = [f \in Fd |-> NoSession]
    /\ UNCHANGED <<exiting, conn, holding, hello, bye>>

Stop ==
    /\ server = "exiting"
    /\ server' = "stopping"
    /\ UNCHANGED <<exiting, conn, sessions, holding, hello, bye>>

ClearSessions ==
    /\ server = "stopping"
    /\ \A c \in Conn : conn[c].at \in Gone
    /\ server' = "down"
    /\ sessions' = [f \in Fd |-> NoSession]
    /\ UNCHANGED <<exiting, conn, holding, hello, bye>>

\* Prepare and Start once more.
Prepare ==
    /\ server = "down"
    /\ server' = "up"
    /\ exiting' = FALSE
    /\ UNCHANGED <<conn, sessions, holding, hello, bye>>

WsNext ==
    \/ \E c \in Conn, f \in Fd : Accept(c, f)
    \/ \E c \in Conn : Open(c) \/ OnConnected(c) \/ Register(c)
    \/ \E c \in Conn : Message(c) \/ OnBinMessage(c)
    \/ \E c \in Conn : Close(c) \/ Break(c) \/ Disconnect(c)
    \/ BeginExit \/ Stop \/ ClearSessions \/ Prepare

WsSpec == WsInit /\ [][WsNext]_wsVars

-----------------------------------------------------------------------------
(***************************************************************************)
(* A session that was welcomed is told of its end once, by the time its     *)
(* socket closes, also when the server exits, and no other session is: not  *)
(* the next one that gets the same descriptor (ws_server.cpp:28-57,         *)
(* ws_server.h:130-153).                                                    *)
(***************************************************************************)
OneGoodbye ==
    \A c \in Conn :
        /\ bye[c] <= 1
        /\ bye[c] = 1 => hello[c]
        /\ conn[c].at = "closed" => (bye[c] = 1 <=> hello[c])

(***************************************************************************)
(* A message goes to the session of its own connection, between its         *)
(* OnConnected and its OnDisConnected (ws_server.h:103-113).                 *)
(***************************************************************************)
MessageToItsSession ==
    \A c \in Conn : conn[c].at = "message" => holding[c] = c /\ hello[c] /\ bye[c] = 0
=============================================================================
