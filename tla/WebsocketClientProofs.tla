------------------------ MODULE WebsocketClientProofs ------------------------
(***************************************************************************)
(* The sockets of a websocket client, for any number of Send callers,      *)
(* reconnect attempts and dials.  That only c.conn is open is not          *)
(* inductive: a dial that succeeds overwrites c.conn, so the invariant     *)
(* says that no dial is under way unless c.conn is nil.                    *)
(***************************************************************************)
EXTENDS WebsocketClient, TLAPS

(* A dial replaces no connection, and is made with attempts left. *)
DialsAlone ==
    /\ reconnector \in {"reconnect", "dial"} => conn = 0
    /\ reconnector = "dial" => attempts < MaxAttempts

(* Before Connect there is nothing to close. *)
Untouched ==
    reader = "none" =>
        /\ pinger = "none" /\ reconnector = "none"
        /\ \A k \in Sockets : socket[k] = "none"

(* Close waits for the reader first, and then for both handlers. *)
ClosesInOrder ==
    /\ closer = "waitConn" => reader = "ended" /\ connCancelled
    /\ closer = "closed" =>
          reader = "none" \/ (reader = "ended" /\ connCancelled /\ HandlersGone /\ conn = 0)

IInv ==
    /\ TypeOK
    /\ NoSocketLeak
    /\ DialsAlone
    /\ Untouched
    /\ ClosesInOrder
    /\ DisconnectedIsReconnecting

-----------------------------------------------------------------------------
(* The state stays well formed. *)

LEMMA TypeInit == Init => TypeOK
<1> SUFFICES ASSUME Init PROVE TypeOK
  OBVIOUS
<1>1. socket \in [Sockets -> SocketStates]
  BY DEF Init, SocketStates
<1>2. 0 \in 0 .. MaxSockets /\ 0 \in 0 .. MaxAttempts /\ 0 \in 0 .. MaxReads
  BY ClientConfig
<1>3. sender \in [Senders -> {"idle", "write"}] /\ sentTo \in [Senders -> 0 .. MaxSockets]
  BY <1>2 DEF Init
<1> QED
  BY <1>1, <1>2, <1>3 DEF Init, TypeOK

LEMMA TypeStep == TypeOK /\ DialsAlone /\ [Next]_vars => TypeOK'
<1> SUFFICES ASSUME TypeOK, DialsAlone, [Next]_vars PROVE TypeOK'
  OBVIOUS
<1> USE DEF connVars, contexts, reconnectVars, pingVars, sendVars, readVars
<1>1. CASE Connect
  BY <1>1, ClientConfig DEF Connect, Connected, TypeOK, SocketStates, Sockets
<1>2. CASE ConnectContextEnds
  BY <1>2 DEF ConnectContextEnds, TypeOK
<1>3. CASE SocketFails
  BY <1>3 DEF SocketFails, Working, TypeOK, SocketStates, Sockets
<1>4. CASE Ping
  <2>1. /\ pinger' \in {"none", "select", "write", "done"} /\ pinged' \in 0 .. MaxSockets
        /\ token' \in BOOLEAN
    BY <1>4 DEF Ping, PingTick, PingWrite, PingExit, Trigger, TypeOK
  <2>2. UNCHANGED <<socket, conn, connected, contexts, reconnectVars, sendVars, readVars, closer>>
    BY <1>4 DEF Ping, PingTick, PingWrite, PingExit
  <2> QED
    BY <2>1, <2>2 DEF TypeOK
<1>5. CASE Reconnect
  <2>1. reconnector' \in {"none", "select", "reconnect", "dial", "done"} /\ gaveUp' \in BOOLEAN
    BY <1>5 DEF Reconnect, ReconnectExit, ReconnectBegin, ReconnectCancelled,
                ReconnectGivesUp, ReconnectDial, DialOk, DialFails, TypeOK
  <2>2. attempts' \in 0 .. MaxAttempts
    <3>1. CASE DialFails
      BY <3>1, ClientConfig DEF DialFails, DialsAlone, At, TypeOK
    <3>2. CASE ~ DialFails
      BY <1>5, <3>2, ClientConfig
         DEF Reconnect, ReconnectExit, ReconnectBegin, ReconnectCancelled,
             ReconnectGivesUp, ReconnectDial, DialOk, TypeOK
    <3> QED
      BY <3>1, <3>2
  <2>3. UNCHANGED <<contexts, pingVars, sendVars, readVars, closer>>
    BY <1>5 DEF Reconnect, ReconnectExit, ReconnectBegin, ReconnectCancelled,
                ReconnectGivesUp, ReconnectDial, DialOk, DialFails
  <2>4. /\ socket' \in [Sockets -> SocketStates] /\ conn' \in 0 .. MaxSockets
        /\ connected' \in BOOLEAN /\ token' \in BOOLEAN
    <3>1. CASE ReconnectBegin
      <4>1. socket' \in [Sockets -> SocketStates]
        BY <3>1 DEF ReconnectBegin, CloseOld, TypeOK, SocketStates
      <4>2. 0 \in 0 .. MaxSockets
        BY ClientConfig
      <4> QED
        BY <3>1, <4>1, <4>2 DEF ReconnectBegin
    <3>2. CASE DialOk
      BY <3>2 DEF DialOk, Connected, TypeOK, SocketStates, Sockets
    <3>3. CASE ~ ReconnectBegin /\ ~ DialOk
      BY <1>5, <3>3 DEF Reconnect, ReconnectExit, ReconnectCancelled, ReconnectGivesUp,
                        ReconnectDial, DialFails, TypeOK
    <3> QED
      BY <3>1, <3>2, <3>3
  <2> QED
    BY <2>1, <2>2, <2>3, <2>4 DEF TypeOK
<1>6. ASSUME NEW x \in Senders, SendBegin(x) \/ SendWrite(x) PROVE TypeOK'
  <2>1. /\ sender' \in [Senders -> {"idle", "write"}]
        /\ sentTo' \in [Senders -> 0 .. MaxSockets]
        /\ token' \in BOOLEAN
    BY <1>6 DEF SendBegin, SendWrite, Trigger, TypeOK
  <2>2. UNCHANGED <<socket, conn, connected, contexts, reconnectVars, pingVars, readVars, closer>>
    BY <1>6 DEF SendBegin, SendWrite
  <2> QED
    BY <2>1, <2>2 DEF TypeOK
<1>7. CASE HandleMessages \/ ReadMessage
  <2>1. /\ reader' \in {"none", "loop", "read", "handle", "ended", "panicked"}
        /\ read' \in 0 .. MaxSockets /\ token' \in BOOLEAN
    BY <1>7 DEF HandleMessages, ReadMessage, ReadExit, ReadBegin, Handled, ReadFails, Trigger,
                TypeOK
  <2>2. failedReads' \in 0 .. MaxReads
    BY <1>7, ClientConfig
       DEF HandleMessages, ReadMessage, ReadExit, ReadBegin, Handled, ReadFails, TypeOK
  <2>3. UNCHANGED <<socket, conn, connected, contexts, reconnectVars, pingVars, sendVars, closer>>
    BY <1>7 DEF HandleMessages, ReadMessage, ReadExit, ReadBegin, Handled, ReadFails
  <2> QED
    BY <2>1, <2>2, <2>3 DEF TypeOK
<1>8. CASE CloseBegin \/ CloseReaderGone
  <2>1. /\ clientCancelled' \in BOOLEAN /\ connCancelled' \in BOOLEAN
        /\ closer' \in {"none", "waitReader", "waitConn", "closed"}
    BY <1>8 DEF CloseBegin, CloseReaderGone, TypeOK
  <2>2. UNCHANGED <<connVars, reconnectVars, pingVars, sendVars, readVars>>
    BY <1>8 DEF CloseBegin, CloseReaderGone
  <2> QED
    BY <2>1, <2>2 DEF TypeOK
<1>9. CASE CloseSocket
  <2>1. socket' \in [Sockets -> SocketStates]
    BY <1>9 DEF CloseSocket, CloseOld, TypeOK, SocketStates
  <2>2. conn' \in 0 .. MaxSockets
    BY <1>9, ClientConfig DEF CloseSocket
  <2>3. connected' \in BOOLEAN /\ closer' = "closed"
    BY <1>9 DEF CloseSocket, TypeOK
  <2>4. UNCHANGED <<token, contexts, reconnectVars, pingVars, sendVars, readVars>>
    BY <1>9 DEF CloseSocket
  <2> QED
    BY <2>1, <2>2, <2>3, <2>4 DEF TypeOK
<1>10. CASE UNCHANGED vars
  BY <1>10 DEF vars, TypeOK
<1> QED
  BY <1>1, <1>2, <1>3, <1>4, <1>5, <1>6, <1>7, <1>8, <1>9, <1>10 DEF Next, CloseGoesOn

-----------------------------------------------------------------------------
(* The other conjuncts, over the steps that matter to them. *)

Rest == NoSocketLeak /\ DialsAlone /\ Untouched /\ ClosesInOrder /\ DisconnectedIsReconnecting

LEMMA RestInit == Init => Rest
BY DEF Init, Rest, NoSocketLeak, Open, DialsAlone, Untouched, ClosesInOrder,
       DisconnectedIsReconnecting

(* Pings, sends and reads at most set the token; a reader that is there     *)
(* stays there, and one that ended stays so.                                *)
LEMMA RestFrame ==
    ASSUME Rest,
           UNCHANGED <<socket, conn, connected, reconnectVars, closer>>,
           connCancelled => connCancelled',
           \/ pinger' = pinger
           \/ pinger \in {"select", "write"},
           reader = "none" <=> reader' = "none",
           reader = "ended" => reader' = "ended"
    PROVE  Rest'
BY DEF Rest, reconnectVars, NoSocketLeak, Open, DialsAlone, Untouched, ClosesInOrder,
       HandlersGone, DisconnectedIsReconnecting

LEMMA RestStep == TypeOK /\ Rest /\ [Next]_vars => Rest'
<1> SUFFICES ASSUME TypeOK, Rest, [Next]_vars PROVE Rest'
  OBVIOUS
<1> USE DEF connVars, contexts, reconnectVars, pingVars, sendVars, readVars, At, Panicked
<1>1. CASE Connect
  <2>1. /\ \A k \in Sockets : socket'[k] = IF k = 1 THEN "up" ELSE "none"
        /\ conn' = 1 /\ connected' /\ reader' = "loop" /\ reconnector' = "select"
        /\ closer' = "none"
    BY <1>1 DEF Connect, Connected, TypeOK, Rest, Untouched
  <2> QED
    BY <2>1 DEF Rest, NoSocketLeak, Open, DialsAlone, Untouched, ClosesInOrder,
                DisconnectedIsReconnecting
<1>2. CASE ConnectContextEnds
  BY <1>2, RestFrame DEF ConnectContextEnds
<1>3. CASE SocketFails
  <2>1. /\ conn \in Sockets /\ socket[conn] = "up"
        /\ \A k \in Sockets : k # conn => socket'[k] = socket[k]
        /\ UNCHANGED <<conn, connected, contexts, reconnectVars, pingVars, reader, closer>>
    BY <1>3 DEF SocketFails, Working, TypeOK, Sockets
  <2>2. NoSocketLeak'
    BY <2>1 DEF Rest, NoSocketLeak, Open
  <2>3. Untouched'
    BY <2>1 DEF Rest, Untouched
  <2> QED
    BY <2>1, <2>2, <2>3 DEF Rest, DialsAlone, ClosesInOrder, HandlersGone,
                            DisconnectedIsReconnecting
<1>4. CASE Ping
  BY <1>4, RestFrame DEF Ping, PingTick, PingWrite, PingExit
<1>5. ASSUME NEW x \in Senders, SendBegin(x) \/ SendWrite(x) PROVE Rest'
  BY <1>5, RestFrame DEF SendBegin, SendWrite
<1>6. CASE HandleMessages \/ ReadMessage
  BY <1>6, RestFrame DEF HandleMessages, ReadMessage, ReadExit, ReadBegin, Handled, ReadFails
<1>7. CASE Reconnect
  <2>1. /\ reconnector \notin {"none", "done"}
        /\ UNCHANGED <<contexts, pinger, reader, closer>>
    BY <1>7 DEF Reconnect, ReconnectExit, ReconnectBegin, ReconnectCancelled,
                ReconnectGivesUp, ReconnectDial, DialOk, DialFails
  <2>2. reader # "none" /\ closer # "closed"
    BY <2>1 DEF Rest, Untouched, ClosesInOrder, HandlersGone
  <2>3. Untouched' /\ ClosesInOrder'
    BY <2>1, <2>2 DEF Rest, Untouched, ClosesInOrder
  <2>4. CASE ReconnectBegin
    <3>1. /\ \A k \in Sockets : socket'[k] = IF k = conn THEN "closed" ELSE socket[k]
          /\ conn' = 0 /\ reconnector' = "reconnect"
      BY <2>4 DEF ReconnectBegin, CloseOld
    <3>2. NoSocketLeak'
      BY <3>1 DEF Rest, NoSocketLeak, Open
    <3> QED
      BY <2>3, <3>1, <3>2 DEF Rest, DialsAlone, DisconnectedIsReconnecting
  <2>5. CASE DialOk
    <3>1. PICK k \in Sockets : Connected(k)
      BY <2>5 DEF DialOk
    <3>2. conn = 0 /\ conn' = k /\ connected' /\ reconnector' = "select"
      BY <2>5, <3>1 DEF DialOk, Connected, Rest, DialsAlone
    <3>3. \A j \in Sockets : ~ Open(j)
      BY <3>2 DEF Rest, NoSocketLeak, Sockets
    <3>4. \A j \in Sockets : j # k => socket'[j] = socket[j]
      BY <3>1 DEF Connected, TypeOK
    <3>5. NoSocketLeak'
      BY <3>2, <3>3, <3>4 DEF NoSocketLeak, Open
    <3> QED
      BY <2>3, <3>2, <3>5 DEF Rest, DialsAlone, DisconnectedIsReconnecting
  <2>6. CASE ReconnectExit \/ ReconnectCancelled \/ ReconnectGivesUp \/ ReconnectDial \/ DialFails
    <3>1. UNCHANGED <<socket, conn, connected>>
      BY <2>6 DEF ReconnectExit, ReconnectCancelled, ReconnectGivesUp, ReconnectDial, DialFails
    <3>2. NoSocketLeak'
      BY <3>1 DEF Rest, NoSocketLeak, Open
    <3>3. DialsAlone' /\ DisconnectedIsReconnecting'
      BY <2>1, <2>6, <3>1
         DEF ReconnectExit, ReconnectCancelled, ReconnectGivesUp, ReconnectDial, DialFails,
             Rest, DialsAlone, DisconnectedIsReconnecting, TypeOK
    <3> QED
      BY <2>3, <3>2, <3>3 DEF Rest
  <2> QED
    BY <1>7, <2>4, <2>5, <2>6 DEF Reconnect
<1>8. CASE CloseBegin \/ CloseReaderGone
  <2>1. /\ UNCHANGED <<connVars, reconnectVars, pingVars, reader>>
        /\ connCancelled => connCancelled'
        /\ closer' = "waitConn" => reader = "ended" /\ connCancelled'
        /\ closer' = "closed" => reader = "none"
    BY <1>8 DEF CloseBegin, CloseReaderGone
  <2> QED
    BY <2>1 DEF Rest, NoSocketLeak, Open, DialsAlone, Untouched, ClosesInOrder,
                DisconnectedIsReconnecting
<1>9. CASE CloseSocket
  <2>1. /\ \A k \in Sockets : socket'[k] = IF k = conn THEN "closed" ELSE socket[k]
        /\ conn' = 0 /\ closer' = "closed" /\ HandlersGone
        /\ reader = "ended" /\ connCancelled
        /\ UNCHANGED <<contexts, reconnectVars, pingVars, reader>>
    BY <1>9 DEF CloseSocket, CloseOld, Rest, ClosesInOrder
  <2>2. NoSocketLeak'
    BY <2>1 DEF Rest, NoSocketLeak, Open
  <2> QED
    BY <2>1, <2>2 DEF Rest, DialsAlone, Untouched, ClosesInOrder, HandlersGone,
                      DisconnectedIsReconnecting
<1>10. CASE UNCHANGED vars
  BY <1>10, RestFrame DEF vars
<1> QED
  BY <1>1, <1>2, <1>3, <1>4, <1>5, <1>6, <1>7, <1>8, <1>9, <1>10 DEF Next, CloseGoesOn

LEMMA Invariance == Spec => []IInv
<1>1. Init => IInv
  BY TypeInit, RestInit DEF IInv, Rest
<1>2. IInv /\ [Next]_vars => IInv'
  BY TypeStep, RestStep DEF IInv, Rest
<1> QED
  BY <1>1, <1>2, PTL DEF Spec

-----------------------------------------------------------------------------
(* No socket is lost, however failures, reconnects and Close interleave:    *)
(* reconnect closes c.conn before it dials (conn.go:77-80, 145-155).        *)
THEOREM OnlyTheConnectionIsOpen == Spec => []NoSocketLeak
BY Invariance, PTL DEF IInv

(* Close is final, a dial that is under way included: it waits for the      *)
(* reconnect handler before it closes c.conn (conn.go:244-261).             *)
THEOREM CloseIsFinal == Spec => []ClosedForGood
<1>1. IInv => ClosedForGood
  <2> SUFFICES ASSUME IInv, closer = "closed"
               PROVE  /\ pinger \in {"none", "done"} /\ reconnector \in {"none", "done"}
                      /\ \A k \in Sockets : ~ Open(k)
    BY DEF ClosedForGood
  <2>1. CASE reader = "none"
    BY <2>1 DEF IInv, Untouched, Open
  <2>2. CASE reader = "ended" /\ HandlersGone /\ conn = 0
    BY <2>2 DEF IInv, HandlersGone, NoSocketLeak, Sockets
  <2> QED
    BY <2>1, <2>2 DEF IInv, ClosesInOrder
<1> QED
  BY Invariance, <1>1, PTL

(* IsConnected says FALSE only while a reconnect is under way or after it   *)
(* ran out of attempts (conn.go:99-133, 145-155).                           *)
THEOREM DisconnectedWhileReconnecting == Spec => []DisconnectedIsReconnecting
BY Invariance, PTL DEF IInv

==============================================================================
