--------------------------- MODULE WebsocketClient ---------------------------
(***************************************************************************)
(* pkg/websocket: a Client with one connection (PoolSize 1) and its Conn.  *)
(* Goroutines: handleMessages (here the reader), the Conn's pingHandler    *)
(* and reconnectHandler, callers of Send, and one caller of Close.         *)
(*                                                                         *)
(* Sockets are numbered in the order they are dialled; 0 is a nil c.conn.  *)
(* What a socket does to reads and writes is gorilla/websocket's part,     *)
(* modelled from how conn.go uses it.                                      *)
(***************************************************************************)
EXTENDS Naturals

CONSTANTS
    Senders,        \* callers of Send
    MaxAttempts,    \* ReconnectMaxAttempts (applyDefaults makes 0 a 5)
    MaxSockets,     \* bound: dials that succeed
    MaxReads        \* bound: reads of a failed socket that gorilla bears (1000)

ASSUME ClientConfig ==
    MaxAttempts \in Nat \ {0} /\ MaxSockets \in Nat \ {0} /\ MaxReads \in Nat \ {0}

Sockets == 1 .. MaxSockets

VARIABLES
    socket,         \* socket[k]: what became of socket k
    conn,           \* Conn.conn
    connected,      \* Conn.connected
    token,          \* Conn.reconnectC is full
    clientCancelled, connCancelled,
    reconnector,    \* where reconnectHandler is
    attempts,       \* reconnect's counter
    gaveUp,         \* the last reconnect returned "max reconnect attempts reached"
    pinger, pinged, \* where pingHandler is, the socket it writes to
    sender, sentTo, \* the same for each caller of Send
    reader, read,   \* where handleMessages is, the socket it reads from
    failedReads,    \* reads of that socket since it failed
    closer          \* where the caller of Client.Close is

connVars == <<socket, conn, connected, token>>
contexts == <<clientCancelled, connCancelled>>
reconnectVars == <<reconnector, attempts, gaveUp>>
pingVars == <<pinger, pinged>>
sendVars == <<sender, sentTo>>
readVars == <<reader, read, failedReads>>
vars == <<connVars, contexts, reconnectVars, pingVars, sendVars, readVars, closer>>

(* "dropped": the peer is gone without a close frame; "finished": it sent a *)
(* normal close; "silent": PongWait passed, reads fail and writes do not;   *)
(* "closed": closed on this side.                                           *)
SocketStates == {"none", "up", "dropped", "finished", "silent", "closed"}

Readable(k) == socket[k] = "up"
Writable(k) == socket[k] \in {"up", "silent"}
Open(k) == socket[k] \notin {"none", "closed"}
Working == conn # 0 /\ socket[conn] = "up"
Panicked == reader = "panicked"         \* the process is gone

TypeOK ==
    /\ socket \in [Sockets -> SocketStates]
    /\ conn \in 0 .. MaxSockets
    /\ connected \in BOOLEAN /\ token \in BOOLEAN
    /\ clientCancelled \in BOOLEAN /\ connCancelled \in BOOLEAN
    /\ reconnector \in {"none", "select", "reconnect", "dial", "done"}
    /\ attempts \in 0 .. MaxAttempts
    /\ gaveUp \in BOOLEAN
    /\ pinger \in {"none", "select", "write", "done"} /\ pinged \in 0 .. MaxSockets
    /\ sender \in [Senders -> {"idle", "write"}] /\ sentTo \in [Senders -> 0 .. MaxSockets]
    /\ reader \in {"none", "loop", "read", "handle", "ended", "panicked"}
    /\ read \in 0 .. MaxSockets
    /\ failedReads \in 0 .. MaxReads
    /\ closer \in {"none", "waitReader", "waitConn", "closed"}

Init ==
    /\ socket = [k \in Sockets |-> "none"]
    /\ conn = 0
    /\ connected = FALSE /\ token = FALSE
    /\ clientCancelled = FALSE /\ connCancelled = FALSE
    /\ reconnector = "none" /\ attempts = 0 /\ gaveUp = FALSE
    /\ pinger = "none" /\ pinged = 0
    /\ sender = [x \in Senders |-> "idle"] /\ sentTo = [x \in Senders |-> 0]
    /\ reader = "none" /\ read = 0 /\ failedReads = 0
    /\ closer = "none"

-----------------------------------------------------------------------------
(* connect: a dial that succeeds. *)
Fresh(k) == k \in Sockets /\ socket[k] = "none" /\ \A j \in 1 .. k - 1 : socket[j] # "none"

Connected(k) ==
    /\ socket' = [socket EXCEPT ![k] = "up"]
    /\ conn' = k
    /\ connected' = TRUE

(* Client.Connect with NewConn; one that fails leaves no trace.  A second   *)
(* Connect is not made.                                                     *)
Connect ==
    /\ reader = "none" /\ closer = "none"
    /\ Connected(1)
    /\ reconnector' = "select"
    /\ pinger' = "select"
    /\ reader' = "loop"
    /\ UNCHANGED <<token, contexts, attempts, gaveUp, pinged, sendVars, read, failedReads,
                   closer>>

(* NewConn derives the connection's context from the one Connect was given: *)
(* when that ends, both goroutines of the connection end and the socket     *)
(* stays.                                                                   *)
ConnectContextEnds ==
    /\ reader # "none" /\ ~ connCancelled
    /\ connCancelled' = TRUE
    /\ UNCHANGED <<connVars, clientCancelled, reconnectVars, pingVars, sendVars, readVars, closer>>

(* The other end or the network. *)
SocketFails ==
    /\ Working
    /\ \E how \in {"dropped", "finished", "silent"} : socket' = [socket EXCEPT ![conn] = how]
    /\ UNCHANGED <<conn, connected, token, contexts, reconnectVars, pingVars, sendVars, readVars,
                   closer>>

(* A goroutine is there and the process still runs. *)
At(goroutine, phase) == goroutine = phase /\ ~ Panicked

(* triggerReconnect: the channel has room for one. *)
Trigger == token' = TRUE

-----------------------------------------------------------------------------
(* pingHandler. *)

(* A tick while there is no connection does nothing. *)
PingTick ==
    /\ At(pinger, "select")
    /\ conn # 0
    /\ pinger' = "write"
    /\ pinged' = conn
    /\ UNCHANGED <<connVars, contexts, reconnectVars, sendVars, readVars, closer>>

PingErrorIgnored ==                     \* mutant: a failed ping triggers nothing
    /\ At(pinger, "write")
    /\ pinger' = "select"
    /\ UNCHANGED <<connVars, contexts, reconnectVars, pinged, sendVars, readVars, closer>>

PingWrite ==
    /\ At(pinger, "write")
    /\ IF Writable(pinged) THEN UNCHANGED token ELSE Trigger
    /\ pinger' = "select"
    /\ UNCHANGED <<socket, conn, connected, contexts, reconnectVars, pinged, sendVars, readVars,
                   closer>>

PingExit ==
    /\ At(pinger, "select")
    /\ connCancelled
    /\ pinger' = "done"
    /\ UNCHANGED <<connVars, contexts, reconnectVars, pinged, sendVars, readVars, closer>>

-----------------------------------------------------------------------------
(* Conn.Send: c.conn is read under the lock and written to after it.        *)
SendBegin(x) ==
    /\ At(sender[x], "idle")
    /\ connected /\ conn # 0
    /\ sender' = [sender EXCEPT ![x] = "write"]
    /\ sentTo' = [sentTo EXCEPT ![x] = conn]
    /\ UNCHANGED <<connVars, contexts, reconnectVars, pingVars, readVars, closer>>

SendWrite(x) ==
    /\ At(sender[x], "write")
    /\ IF Writable(sentTo[x]) THEN UNCHANGED token ELSE Trigger
    /\ sender' = [sender EXCEPT ![x] = "idle"]
    /\ UNCHANGED <<socket, conn, connected, contexts, reconnectVars, pingVars, sentTo, readVars,
                   closer>>

-----------------------------------------------------------------------------
(* reconnectHandler and reconnect. *)

NeverExits == FALSE                     \* mutant: no case <-c.ctx.Done()

ReconnectExit ==
    /\ At(reconnector, "select")
    /\ connCancelled
    /\ reconnector' = "done"
    /\ UNCHANGED <<connVars, contexts, attempts, gaveUp, pingVars, sendVars, readVars, closer>>

OldLeftOpen == UNCHANGED socket         \* mutant: c.conn.Close is left out

CloseOld == socket' = [k \in Sockets |-> IF k = conn THEN "closed" ELSE socket[k]]

(* A token is taken: the connection is given up, whichever socket it was   *)
(* that failed.                                                             *)
ReconnectBegin ==
    /\ At(reconnector, "select")
    /\ token
    /\ token' = FALSE
    /\ CloseOld
    /\ conn' = 0
    /\ connected' = FALSE
    /\ reconnector' = "reconnect"
    /\ attempts' = 0
    /\ gaveUp' = FALSE
    /\ UNCHANGED <<contexts, pingVars, sendVars, readVars, closer>>

(* The head of the loop, and the delay before every attempt but the first. *)
ReconnectCancelled ==
    /\ At(reconnector, "reconnect")
    /\ connCancelled
    /\ reconnector' = "select"
    /\ UNCHANGED <<connVars, contexts, attempts, gaveUp, pingVars, sendVars, readVars, closer>>

ReconnectGivesUp ==
    /\ At(reconnector, "reconnect")
    /\ ~ connCancelled
    /\ attempts >= MaxAttempts
    /\ gaveUp' = TRUE
    /\ reconnector' = "select"
    /\ UNCHANGED <<connVars, contexts, attempts, pingVars, sendVars, readVars, closer>>

ReconnectDial ==
    /\ At(reconnector, "reconnect")
    /\ ~ connCancelled
    /\ attempts < MaxAttempts
    /\ reconnector' = "dial"
    /\ UNCHANGED <<connVars, contexts, attempts, gaveUp, pingVars, sendVars, readVars, closer>>

DialOk ==
    /\ At(reconnector, "dial")
    /\ \E k \in Sockets : Fresh(k) /\ Connected(k)
    /\ reconnector' = "select"
    /\ UNCHANGED <<token, contexts, attempts, gaveUp, pingVars, sendVars, readVars, closer>>

DialFails ==
    /\ At(reconnector, "dial")
    /\ attempts' = attempts + 1
    /\ reconnector' = "reconnect"
    /\ UNCHANGED <<connVars, contexts, gaveUp, pingVars, sendVars, readVars, closer>>

-----------------------------------------------------------------------------
(* handleMessages and the Receive it calls. *)

(* A cancelled client, or Receive's "not connected", which is Temporary:   *)
(* the loop ends for good.                                                  *)
ReadExit ==
    /\ reader = "loop"
    /\ clientCancelled \/ ~ connected \/ conn = 0
    /\ reader' = "ended"
    /\ UNCHANGED <<connVars, contexts, reconnectVars, pingVars, sendVars, read, failedReads,
                   closer>>

ReadBegin ==
    /\ reader = "loop"
    /\ ~ clientCancelled /\ connected /\ conn # 0
    /\ reader' = "read"
    /\ read' = conn
    /\ failedReads' = IF read = conn THEN failedReads ELSE 0
    /\ UNCHANGED <<connVars, contexts, reconnectVars, pingVars, sendVars, closer>>

(* A message arrives; its handler runs. *)
ReadMessage ==
    /\ reader = "read"
    /\ Readable(read)
    /\ reader' = "handle"
    /\ UNCHANGED <<connVars, contexts, reconnectVars, pingVars, sendVars, read, failedReads,
                   closer>>

Handled ==
    /\ reader = "handle"
    /\ reader' = "loop"
    /\ UNCHANGED <<connVars, contexts, reconnectVars, pingVars, sendVars, read, failedReads,
                   closer>>

(* Only a close the peer did not announce asks for a reconnect; the error   *)
(* is Permanent, so the loop reads again, and gorilla panics when it reads  *)
(* a failed socket too often.                                               *)
ReadFails ==
    /\ reader = "read"
    /\ ~ Readable(read)
    /\ IF socket[read] = "dropped" THEN Trigger ELSE UNCHANGED token
    /\ IF failedReads = MaxReads
          THEN reader' = "panicked" /\ UNCHANGED failedReads
          ELSE /\ reader' = IF clientCancelled THEN "ended" ELSE "loop"
               /\ failedReads' = failedReads + 1
    /\ UNCHANGED <<socket, conn, connected, contexts, reconnectVars, pingVars, sendVars, read,
                   closer>>

-----------------------------------------------------------------------------
(* Client.Close, and the Conn.Close it ends in. *)

CloseBegin ==
    /\ At(closer, "none")
    /\ clientCancelled' = TRUE
    /\ closer' = "waitReader"
    /\ UNCHANGED <<connVars, connCancelled, reconnectVars, pingVars, sendVars, readVars>>

(* c.wg.Wait in Client.Close, then c.cancel in Conn.Close *)
CloseReaderGone ==
    /\ At(closer, "waitReader")
    /\ reader \in {"none", "ended"}
    /\ IF reader = "none"
          THEN closer' = "closed" /\ UNCHANGED connCancelled
          ELSE closer' = "waitConn" /\ connCancelled' = TRUE
    /\ UNCHANGED <<connVars, clientCancelled, reconnectVars, pingVars, sendVars, readVars>>

PingerGone == pinger = "done"           \* mutant: the reconnect handler is not in the WaitGroup

HandlersGone == pinger = "done" /\ reconnector = "done"

(* c.wg.Wait in Conn.Close, then the socket *)
CloseSocket ==
    /\ At(closer, "waitConn")
    /\ HandlersGone
    /\ CloseOld
    /\ conn' = 0
    /\ connected' = IF conn = 0 THEN connected ELSE FALSE
    /\ closer' = "closed"
    /\ UNCHANGED <<token, contexts, reconnectVars, pingVars, sendVars, readVars>>

-----------------------------------------------------------------------------
Ping == PingTick \/ PingWrite \/ PingExit
Reconnect ==
    \/ ReconnectExit \/ ReconnectBegin \/ ReconnectCancelled \/ ReconnectGivesUp
    \/ ReconnectDial \/ DialOk \/ DialFails
HandleMessages == ReadExit \/ ReadBegin \/ Handled \/ ReadFails
CloseGoesOn == CloseReaderGone \/ CloseSocket

Next ==
    \/ Connect \/ ConnectContextEnds \/ SocketFails
    \/ Ping \/ Reconnect
    \/ \E x \in Senders : SendBegin(x) \/ SendWrite(x)
    \/ HandleMessages \/ ReadMessage
    \/ CloseBegin \/ CloseGoesOn

Spec == Init /\ [][Next]_vars

(* The goroutines run, tickers fire and dials return: DialContext and the   *)
(* handshake timeout bound them.  A select that finds ctx.Done ready again  *)
(* and again takes it at some time (Go picks at random): strong fairness of *)
(* the exits.  No message has to arrive.                                    *)
Fairness ==
    /\ WF_vars(Ping)
    /\ WF_vars(Reconnect)
    /\ SF_vars(ReconnectExit) /\ SF_vars(PingExit)
    /\ WF_vars(HandleMessages)
    /\ WF_vars(CloseGoesOn)

FairSpec == Spec /\ Fairness

-----------------------------------------------------------------------------
(* No socket is lost: one that was dialled and not closed is c.conn, however *)
(* failures, reconnects and Close interleave (conn.go:77-80, 145-155,       *)
(* 244-261).                                                                *)
NoSocketLeak == \A k \in Sockets : Open(k) => conn = k

(* Close is final: when it returned every goroutine of the connection is   *)
(* over and every socket closed, a dial that was under way included         *)
(* (conn.go:244-261).                                                       *)
ClosedForGood ==
    closer = "closed" =>
        /\ pinger \in {"none", "done"} /\ reconnector \in {"none", "done"}
        /\ \A k \in Sockets : ~ Open(k)

(* IsConnected says FALSE only while a reconnect is under way or after it   *)
(* ran out of attempts (conn.go:99-133, 145-155).                           *)
DisconnectedIsReconnecting ==
    reader # "none" /\ ~ connected /\ ~ connCancelled =>
        reconnector \in {"reconnect", "dial"} \/ gaveUp

(* A connection that fails for writes too is replaced, by the ping if no    *)
(* read or Send notices first, unless the attempts run out, the context of  *)
(* Connect ends, the client is closed or gorilla panics (conn.go:95-158,    *)
(* 171-190).                                                                *)
BrokenIsReplaced ==
    conn # 0 /\ ~ Writable(conn) ~>
        Working \/ gaveUp \/ connCancelled \/ clientCancelled \/ Panicked

(* Conn.Close returns, also in the middle of a reconnect (conn.go:100-119,  *)
(* 244-246).                                                                *)
ConnCloseReturns == closer = "waitConn" ~> closer = "closed"

(* docs/ROADMAP.md:500: "Ping/pong heartbeat detects dead connections: ...  *)
(* pong wait 60s, triggers reconnect on timeout".                           *)
SilentIsReplaced ==
    conn # 0 /\ socket[conn] = "silent" ~>
        Working \/ gaveUp \/ connCancelled \/ clientCancelled

=============================================================================
