-------------------------- MODULE CloudRelayProofs --------------------------
(***************************************************************************)
(* Theorems about CloudRelay, for any sockets, addresses, sessions and     *)
(* limits: the types; that slots name live sockets of their session, and   *)
(* what a socket was told of the other side is what its session holds; and *)
(* that the connection counts are exact.                                   *)
(***************************************************************************)
EXTENDS CloudRelay, FiniteSetTheorems, TLAPS

\* perIp never exceeds its limit because of the guard alone; an event that
\* ends a connection cannot raise it.
LEMMA DecrementType ==
    ASSUME NEW n \in 0..MaxConnectionsPerIp
    PROVE  Decrement(n) \in 0..MaxConnectionsPerIp
  BY LimitsAssumption DEF Decrement

LEMMA UnusedType == Unused \in Socket
  BY DEF Unused, Socket

\* A socket as the connection handler leaves it.
LEMMA NewSocketType ==
    ASSUME NEW ip \in Ips, NEW role \in {"host", "client", "none"},
           NEW o \in Sockets \cup {None}, NEW state \in {"open", "closing"},
           NEW counted \in BOOLEAN
    PROVE  NewSocket(ip, role, o, state, counted) \in Socket
  BY DEF NewSocket, Unused, Socket

LEMMA TellType ==
    ASSUME NEW socks \in [Sockets -> Socket], NEW s \in Sockets \cup {None},
           NEW status \in Statuses
    PROVE  Tell(socks, s, status) \in [Sockets -> Socket]
<1>1. CASE s # None /\ socks[s].state = "open"
  <2>1. s \in Sockets BY <1>1
  <2>2. [socks[s] EXCEPT !.told = status] \in Socket BY <2>1 DEF Socket
  <2> QED BY <1>1, <2>1, <2>2 DEF Tell
<1>2. CASE ~(s # None /\ socks[s].state = "open") BY <1>2 DEF Tell
<1> QED BY <1>1, <1>2

LEMMA CloseOldType ==
    ASSUME NEW socks \in [Sockets -> Socket], NEW s \in Sockets \cup {None}
    PROVE  CloseOld(socks, s) \in [Sockets -> Socket]
<1>1. CASE s # None /\ socks[s].state = "open"
  <2>1. s \in Sockets BY <1>1
  <2>2. [socks[s] EXCEPT !.state = "closing"] \in Socket BY <2>1 DEF Socket
  <2> QED BY <1>1, <2>1, <2>2 DEF CloseOld
<1>2. CASE ~(s # None /\ socks[s].state = "open") BY <1>2 DEF CloseOld
<1> QED BY <1>1, <1>2

LEMMA TypeInit == Init => TypeOK
<1> SUFFICES ASSUME Init PROVE TypeOK OBVIOUS
<1>1. sock \in [Sockets -> Socket] BY UnusedType DEF Init
<1>2. obj \in [Sockets -> Session] BY DEF Init, NewSession, Session, MaxAge
<1>3. 0 \in 0..MaxConnectionsPerIp /\ 0 \in 0..MaxNewConnections
  BY LimitsAssumption
<1> QED BY <1>1, <1>2, <1>3 DEF Init, TypeOK

LEMMA CountType ==
    ASSUME TypeOK, NEW ip \in Ips, WithinLimits(ip), CountConnection(ip)
    PROVE  /\ perIp' \in [Ips -> 0..MaxConnectionsPerIp]
           /\ attempts' \in [Ips -> 0..MaxNewConnections]
<1>1. perIp[ip] + 1 \in 0..MaxConnectionsPerIp
  BY LimitsAssumption DEF TypeOK, WithinLimits
<1>2. attempts[ip] + 1 \in 0..MaxNewConnections
  BY LimitsAssumption DEF TypeOK, WithinLimits
<1> QED BY <1>1, <1>2 DEF TypeOK, CountConnection

\* Activity on a socket: only its session's age changes.
LEMMA TouchType ==
    ASSUME TypeOK, NEW s \in Sockets, sock[s].session # None, Touch(s)
    PROVE  obj' \in [Sockets -> Session]
<1>1. sock[s].session \in Sockets BY DEF TypeOK, Socket
<1>2. [obj[sock[s].session] EXCEPT !.age = 0] \in Session
  BY <1>1 DEF TypeOK, Session, MaxAge
<1> QED BY <1>1, <1>2 DEF TypeOK, Touch

LEMMA TypeStep ==
    ASSUME TypeOK, [Next]_vars
    PROVE  TypeOK'
<1> USE DEF TypeOK
<1>1. CASE UNCHANGED vars BY <1>1 DEF vars
<1>2. ASSUME NEW s \in Sockets, NEW ip \in Ips, RefuseConnection(s, ip)
      PROVE  TypeOK'
  <2>1. NewSocket(ip, "none", None, "closing", FALSE) \in Socket BY NewSocketType
  <2> QED BY <1>2, <2>1 DEF RefuseConnection
<1>3. ASSUME NEW s \in Sockets, NEW ip \in Ips, RejectConnection(s, ip)
      PROVE  TypeOK'
  <2>1. NewSocket(ip, "none", None, "closing", TRUE) \in Socket BY NewSocketType
  <2>2. /\ perIp' \in [Ips -> 0..MaxConnectionsPerIp]
        /\ attempts' \in [Ips -> 0..MaxNewConnections]
    BY <1>3, CountType DEF RejectConnection
  <2> QED BY <1>3, <2>1, <2>2 DEF RejectConnection
<1>4. ASSUME NEW s \in Sockets, NEW ip \in Ips, NEW id \in SessionIds,
             HostConnects(s, ip, id)
      PROVE  TypeOK'
  <2> DEFINE o == IF sessions[id] = None THEN s ELSE sessions[id]
             fresh == NewSocket(ip, "host", o, "open", TRUE)
             joined == [CloseOld(sock, obj[o].host) EXCEPT ![s] = fresh]
  <2>1. o \in Sockets OBVIOUS
  <2>2. /\ obj[o].host \in Sockets \cup {None} /\ obj[o].client \in Sockets \cup {None}
        /\ [obj[o] EXCEPT !.host = s] \in Session
    BY <2>1 DEF Session
  <2>3. CloseOld(sock, obj[o].host) \in [Sockets -> Socket] BY <2>2, CloseOldType
  <2>4. fresh \in Socket BY <2>1, NewSocketType
  <2>5. joined \in [Sockets -> Socket] BY <2>3, <2>4
  <2>6. Tell(joined, obj[o].client, "HOST_CONNECTED") \in [Sockets -> Socket]
    <3> HIDE DEF joined
    <3> QED BY <2>2, <2>5, TellType DEF Statuses
  <2>7. /\ perIp' \in [Ips -> 0..MaxConnectionsPerIp]
        /\ attempts' \in [Ips -> 0..MaxNewConnections]
    BY <1>4, CountType DEF HostConnects
  <2>8. /\ sessions' = [sessions EXCEPT ![id] = o]
        /\ obj' = [obj EXCEPT ![o].host = s]
        /\ sock' = Tell(joined, obj[o].client, "HOST_CONNECTED")
        /\ silent' = silent
    BY <1>4 DEF HostConnects
  <2> HIDE DEF o, joined
  <2> QED BY <2>1, <2>2, <2>6, <2>7, <2>8
<1>5. ASSUME NEW s \in Sockets, NEW ip \in Ips, NEW id \in SessionIds,
             ClientConnects(s, ip, id)
      PROVE  TypeOK'
  <2> DEFINE o == sessions[id]
             fresh == NewSocket(ip, "client", o, "open", TRUE)
             joined == [CloseOld(sock, obj[o].client) EXCEPT ![s] = fresh]
             toClient == Tell(joined, s, "HOST_CONNECTED")
             toBoth == Tell(toClient, obj[o].host, "CLIENT_CONNECTED")
  <2>1. o \in Sockets BY <1>5 DEF ClientConnects
  <2>2. /\ obj[o].host \in Sockets \cup {None} /\ obj[o].client \in Sockets \cup {None}
        /\ [obj[o] EXCEPT !.client = s] \in Session
    BY <2>1 DEF Session
  <2>3. CloseOld(sock, obj[o].client) \in [Sockets -> Socket] BY <2>2, CloseOldType
  <2>4. fresh \in Socket BY <2>1, NewSocketType
  <2>5. joined \in [Sockets -> Socket] BY <2>3, <2>4
  <2>6. toClient \in [Sockets -> Socket]
    <3> HIDE DEF joined
    <3> QED BY <2>5, TellType DEF Statuses
  <2>7. toBoth \in [Sockets -> Socket]
    <3> HIDE DEF toClient
    <3> QED BY <2>2, <2>6, TellType DEF Statuses
  <2>8. /\ perIp' \in [Ips -> 0..MaxConnectionsPerIp]
        /\ attempts' \in [Ips -> 0..MaxNewConnections]
    BY <1>5, CountType DEF ClientConnects
  <2>9. /\ obj' = [obj EXCEPT ![o].client = s]
        /\ sock' = toBoth \/ sock' = joined
        /\ UNCHANGED <<silent, sessions>>
    BY <1>5 DEF ClientConnects
  <2> HIDE DEF o, joined, toBoth
  <2> QED BY <2>1, <2>2, <2>5, <2>7, <2>8, <2>9
<1>6. ASSUME NEW s \in Sockets, Pong(s) PROVE TypeOK'
  <2>1. obj' \in [Sockets -> Session] BY <1>6, TouchType DEF Pong
  <2>2. [sock[s] EXCEPT !.isAlive = TRUE] \in Socket BY DEF Socket
  <2> QED BY <1>6, <2>1, <2>2 DEF Pong
<1>7. ASSUME NEW s \in Sockets, Message(s) PROVE TypeOK'
  <2>1. obj' \in [Sockets -> Session] BY <1>7, TouchType DEF Message
  <2> QED BY <1>7, <2>1 DEF Message
<1>8. ASSUME NEW s \in Sockets, MessageOverCap(s) PROVE TypeOK'
  <2>1. obj' \in [Sockets -> Session] BY <1>8, TouchType DEF MessageOverCap
  <2>2. sock' \in [Sockets -> Socket] BY <1>8, CloseOldType DEF MessageOverCap
  <2> QED BY <1>8, <2>1, <2>2 DEF MessageOverCap
<1>9. ASSUME NEW s \in Sockets, PeerCloses(s) PROVE TypeOK'
  <2>1. [sock[s] EXCEPT !.state = "closing"] \in Socket BY DEF Socket
  <2> QED BY <1>9, <2>1 DEF PeerCloses
<1>10. ASSUME NEW s \in Sockets, PeerGoesSilent(s) PROVE TypeOK'
  BY <1>10 DEF PeerGoesSilent
<1>11. ASSUME NEW s \in Sockets, CloseEvent(s) PROVE TypeOK'
  <2> DEFINE o == sock[s].session
             gone == [Unused EXCEPT !.state = "closed"]
             closed == [sock EXCEPT ![s] = gone]
  <2>1. gone \in Socket BY DEF Unused, Socket
  <2>2. closed \in [Sockets -> Socket] BY <2>1
  <2>3. o \in Sockets \cup {None} BY DEF Socket
  <2>4. sock' \in [Sockets -> Socket]
    <3> HIDE DEF closed
    <3>1. o = None => sock' = closed BY <1>11 DEF CloseEvent, closed
    <3>2. o # None => \/ sock' = Tell(closed, obj[o].client, "HOST_DISCONNECTED")
                      \/ sock' = Tell(closed, obj[o].host, "CLIENT_DISCONNECTED")
      BY <1>11 DEF CloseEvent, closed
    <3>3. o # None => obj[o].host \in Sockets \cup {None} /\ obj[o].client \in Sockets \cup {None}
      BY <2>3 DEF Session
    <3> HIDE DEF o
    <3> QED BY <2>2, <3>1, <3>2, <3>3, TellType DEF Statuses
  <2>5. obj' \in [Sockets -> Session]
    <3>1. o # None => /\ [obj[o] EXCEPT !.host = None] \in Session
                      /\ [obj[o] EXCEPT !.client = None] \in Session
      BY <2>3 DEF Session
    <3>2. \/ obj' = obj
          \/ o # None /\ obj' = [obj EXCEPT ![o].host = None]
          \/ o # None /\ obj' = [obj EXCEPT ![o].client = None]
      BY <1>11 DEF CloseEvent, Vacate
    <3> HIDE DEF o
    <3> QED BY <2>3, <3>1, <3>2
  <2>6. perIp' \in [Ips -> 0..MaxConnectionsPerIp]
    <3>1. \A ip \in Ips : Decrement(perIp[ip]) \in 0..MaxConnectionsPerIp
      BY DecrementType
    <3>2. CASE sock[s].counted /\ sock[s].ip \in Ips
      BY <1>11, <3>1, <3>2 DEF CloseEvent
    <3>3. CASE sock[s].counted /\ sock[s].ip \notin Ips
      BY <1>11, <3>3 DEF CloseEvent
    <3>4. CASE ~sock[s].counted BY <1>11, <3>4 DEF CloseEvent
    <3> QED BY <3>2, <3>3, <3>4
  <2> QED BY <1>11, <2>4, <2>5, <2>6 DEF CloseEvent
<1>12. CASE Tick
  <2>1. \A k \in Socket : Heartbeat(k) \in Socket BY DEF Heartbeat, Socket
  <2>2. \A o \in Sockets : Older(o) \in Session BY DEF Older, Session, MaxAge
  <2> QED BY <1>12, <2>1, <2>2 DEF Tick
<1>13. ASSUME NEW ip \in Ips, AttemptsExpire(ip) PROVE TypeOK'
  BY <1>13, LimitsAssumption DEF AttemptsExpire
<1>14. CASE ProcessEnds
  <2>1. [Unused EXCEPT !.state = "closed"] \in Socket BY DEF Unused, Socket
  <2>2. NewSession \in Session BY DEF NewSession, Session, MaxAge
  <2>3. 0 \in 0..MaxConnectionsPerIp /\ 0 \in 0..MaxNewConnections
    BY LimitsAssumption
  <2> QED BY <1>14, <2>1, <2>2, <2>3 DEF ProcessEnds
<1> QED BY <1>1, <1>2, <1>3, <1>4, <1>5, <1>6, <1>7, <1>8, <1>9, <1>10, <1>11,
           <1>12, <1>13, <1>14 DEF Next, Connection

\* Every variable stays in its domain; in particular no address has more
\* counted connections, or attempts, than its limits.
THEOREM TypeCorrect == Spec => []TypeOK
<1> QED BY TypeInit, TypeStep, PTL DEF Spec

-----------------------------------------------------------------------------
SocketMap == [Sockets -> Socket]

\* What Tell and CloseOld do to each socket.
LEMMA TellEffect ==
    ASSUME NEW socks \in SocketMap, NEW s \in Sockets \cup {None},
           NEW status, NEW k \in Sockets
    PROVE  LET new == Tell(socks, s, status)[k] IN
           /\ new.state = socks[k].state /\ new.role = socks[k].role
           /\ new.session = socks[k].session /\ new.counted = socks[k].counted
           /\ new.ip = socks[k].ip
           /\ new.told = IF k = s /\ socks[k].state = "open" THEN status
                         ELSE socks[k].told
<1> USE DEF SocketMap
<1>1. socks[k] \in Socket OBVIOUS
<1>2. CASE s # None /\ socks[s].state = "open" /\ k = s
  BY <1>1, <1>2 DEF Tell, Socket
<1>3. CASE s # None /\ socks[s].state = "open" /\ k # s
  BY <1>1, <1>3 DEF Tell, Socket
<1>4. CASE ~(s # None /\ socks[s].state = "open")
  BY <1>1, <1>4, LimitsAssumption DEF Tell
<1> QED BY <1>2, <1>3, <1>4

LEMMA CloseOldEffect ==
    ASSUME NEW socks \in SocketMap, NEW s \in Sockets \cup {None},
           NEW k \in Sockets
    PROVE  LET new == CloseOld(socks, s)[k] IN
           /\ new.state = IF k = s /\ socks[k].state = "open" THEN "closing"
                          ELSE socks[k].state
           /\ new.role = socks[k].role /\ new.session = socks[k].session
           /\ new.counted = socks[k].counted /\ new.ip = socks[k].ip
           /\ new.told = socks[k].told
<1> USE DEF SocketMap
<1>1. socks[k] \in Socket OBVIOUS
<1>2. CASE s # None /\ socks[s].state = "open" /\ k = s
  BY <1>1, <1>2 DEF CloseOld, Socket
<1>3. CASE s # None /\ socks[s].state = "open" /\ k # s
  BY <1>1, <1>3 DEF CloseOld, Socket
<1>4. CASE ~(s # None /\ socks[s].state = "open")
  BY <1>1, <1>4, LimitsAssumption DEF CloseOld
<1> QED BY <1>2, <1>3, <1>4

\* What a socket keeps: all but its liveness, and it may begin to close.
Keeps(k) ==
  /\ \/ sock'[k].state = sock[k].state
     \/ sock[k].state = "open" /\ sock'[k].state = "closing"
  /\ sock'[k].role = sock[k].role /\ sock'[k].session = sock[k].session
  /\ sock'[k].counted = sock[k].counted /\ sock'[k].ip = sock[k].ip
  /\ sock'[k].told = sock[k].told

SlotsKept ==
  \A o \in Sockets : obj'[o].host = obj[o].host /\ obj'[o].client = obj[o].client

RelayInv == TypeOK /\ SlotsLive /\ StatusTruthful

\* A step that touches no slot, and of a socket in use at most its liveness.
LEMMA QuietStep ==
    ASSUME RelayInv, SlotsKept, \A k \in Sockets : Connected(k) => Keeps(k)
    PROVE  SlotsLive' /\ StatusTruthful'
<1>1. \A o \in Sockets : /\ obj[o].host \in Sockets \cup {None}
                         /\ obj[o].client \in Sockets \cup {None}
  BY DEF RelayInv, TypeOK, Session
<1>2. SlotsLive'
  BY <1>1 DEF RelayInv, SlotsLive, SlotsKept, Keeps, Connected
<1>3. StatusTruthful'
  <2> SUFFICES ASSUME NEW o \in Sockets
               PROVE  /\ IsOpen(obj[o].client)' =>
                           LET told == sock[obj[o].client].told IN
                           /\ (told = "HOST_CONNECTED" => obj[o].host # None)'
                           /\ (told = "HOST_DISCONNECTED" => obj[o].host = None)'
                           /\ (IsOpen(obj[o].host) => told = "HOST_CONNECTED")'
                      /\ IsOpen(obj[o].host)' =>
                           LET told == sock[obj[o].host].told IN
                           /\ (told = "CLIENT_CONNECTED" => obj[o].client # None)'
                           /\ (told = "CLIENT_DISCONNECTED" => obj[o].client = None)'
    BY DEF StatusTruthful
  <2> DEFINE h == obj[o].host
             c == obj[o].client
  <2>1. h' = h /\ c' = c BY DEF SlotsKept
  <2>2. h # None => Connected(h) /\ h \in Sockets /\ Keeps(h)
    BY <1>1 DEF RelayInv, SlotsLive
  <2>3. c # None => Connected(c) /\ c \in Sockets /\ Keeps(c)
    BY <1>1 DEF RelayInv, SlotsLive
  <2>4. /\ IsOpen(c)' => IsOpen(c) /\ sock'[c].told = sock[c].told
        /\ IsOpen(h)' => IsOpen(h) /\ sock'[h].told = sock[h].told
    BY <2>1, <2>2, <2>3 DEF Keeps, IsOpen
  <2> QED BY <2>1, <2>4 DEF RelayInv, StatusTruthful
<1> QED BY <1>2, <1>3

\* A host takes the slot of session o: its occupant begins to close, and the
\* waiting client is told.
LEMMA HostStep ==
    ASSUME RelayInv, NEW s \in Sockets, NEW ip \in Ips, NEW id \in SessionIds,
           HostConnects(s, ip, id)
    PROVE  SlotsLive' /\ StatusTruthful'
<1> DEFINE o == IF sessions[id] = None THEN s ELSE sessions[id]
           h == obj[o].host
           c == obj[o].client
           fresh == NewSocket(ip, "host", o, "open", TRUE)
           joined == [CloseOld(sock, h) EXCEPT ![s] = fresh]
<1>1. /\ o \in Sockets /\ s # None /\ sock[s].state = "unused"
      /\ sock \in SocketMap /\ obj \in [Sockets -> Session]
      /\ h \in Sockets \cup {None} /\ c \in Sockets \cup {None}
  BY LimitsAssumption DEF RelayInv, TypeOK, Session, SocketMap, HostConnects
<1>2. /\ obj' = [obj EXCEPT ![o].host = s]
      /\ sock' = Tell(joined, c, "HOST_CONNECTED")
  BY DEF HostConnects
<1>3. fresh \in Socket /\ fresh.state = "open" /\ fresh.role = "host"
      /\ fresh.session = o /\ fresh.told = "nothing"
  <2>1. fresh \in Socket BY <1>1, NewSocketType
  <2> QED BY <2>1 DEF NewSocket, Unused
<1>4. CloseOld(sock, h) \in SocketMap BY <1>1, CloseOldType DEF SocketMap
<1>5. joined \in SocketMap /\ joined[s] = fresh
      /\ \A k \in Sockets : k # s => joined[k] = CloseOld(sock, h)[k]
  BY <1>3, <1>4 DEF SocketMap
<1>6. h # None => Connected(h) /\ sock[h].role = "host" /\ sock[h].session = o
  BY <1>1 DEF RelayInv, SlotsLive
<1>7. c # None => Connected(c) /\ sock[c].role = "client" /\ sock[c].session = o
  BY <1>1 DEF RelayInv, SlotsLive
<1>8. c # s /\ h # s /\ (c # None => c # h) BY <1>1, <1>6, <1>7 DEF Connected
<1> HIDE DEF o, h, c, fresh, joined
<1>9. /\ sock'[s].state = "open" /\ sock'[s].role = "host"
      /\ sock'[s].session = o /\ sock'[s].told = "nothing"
  <2>0. c \in Sockets \cup {None} /\ joined \in SocketMap BY <1>1, <1>5
  <2>1. LET new == Tell(joined, c, "HOST_CONNECTED")[s] IN
        /\ new.state = joined[s].state /\ new.role = joined[s].role
        /\ new.session = joined[s].session
        /\ new.told = IF s = c /\ joined[s].state = "open" THEN "HOST_CONNECTED"
                      ELSE joined[s].told
    BY <2>0, TellEffect
  <2> QED BY <1>2, <1>3, <1>5, <1>8, <2>1
<1>10. \A k \in Sockets : k # s =>
         /\ sock'[k].state = IF k = h /\ sock[k].state = "open" THEN "closing"
                             ELSE sock[k].state
         /\ sock'[k].role = sock[k].role /\ sock'[k].session = sock[k].session
         /\ sock'[k].told = IF k = c /\ sock'[k].state = "open"
                            THEN "HOST_CONNECTED" ELSE sock[k].told
  <2> SUFFICES ASSUME NEW k \in Sockets, k # s
               PROVE  /\ sock'[k].state = IF k = h /\ sock[k].state = "open" THEN "closing"
                                          ELSE sock[k].state
                      /\ sock'[k].role = sock[k].role /\ sock'[k].session = sock[k].session
                      /\ sock'[k].told = IF k = c /\ sock'[k].state = "open"
                                         THEN "HOST_CONNECTED" ELSE sock[k].told
    OBVIOUS
  <2>1. /\ joined[k].state = IF k = h /\ sock[k].state = "open" THEN "closing"
                             ELSE sock[k].state
        /\ joined[k].role = sock[k].role /\ joined[k].session = sock[k].session
        /\ joined[k].told = sock[k].told
    BY <1>1, <1>5, CloseOldEffect
  <2>2. LET new == Tell(joined, c, "HOST_CONNECTED")[k] IN
        /\ new.state = joined[k].state /\ new.role = joined[k].role
        /\ new.session = joined[k].session
        /\ new.told = IF k = c /\ joined[k].state = "open" THEN "HOST_CONNECTED"
                      ELSE joined[k].told
    BY <1>1, <1>5, TellEffect
  <2> QED BY <1>2, <2>1, <2>2
<1>11. /\ obj'[o].host = s /\ obj'[o].client = c
       /\ \A q \in Sockets : q # o => obj'[q] = obj[q]
  BY <1>1, <1>2 DEF Session, c
<1>12. ASSUME NEW q \in Sockets, q # o
       PROVE  /\ obj[q].host # None => obj[q].host \in Sockets /\ obj[q].host \notin {s, h, c}
              /\ obj[q].client # None => obj[q].client \in Sockets /\ obj[q].client \notin {s, h, c}
  <2>1. obj[q].host \in Sockets \cup {None} /\ obj[q].client \in Sockets \cup {None}
    BY <1>1 DEF Session
  <2> QED BY <1>1, <1>6, <1>7, <1>12, <2>1 DEF RelayInv, SlotsLive, Connected
<1>13. SlotsLive'
  <2>1. ASSUME NEW q \in Sockets, q # o
        PROVE  /\ (obj[q].host # None =>
                    /\ Connected(obj[q].host)
                    /\ sock[obj[q].host].role = "host" /\ sock[obj[q].host].session = q)'
               /\ (obj[q].client # None =>
                    /\ Connected(obj[q].client)
                    /\ sock[obj[q].client].role = "client" /\ sock[obj[q].client].session = q)'
    BY <1>10, <1>11, <1>12, <2>1 DEF RelayInv, SlotsLive, Connected
  <2>2. c # None => c \in Sockets /\ sock'[c].state = sock[c].state
                    /\ sock'[c].role = "client" /\ sock'[c].session = o
    BY <1>1, <1>7, <1>8, <1>10
  <2> QED BY <1>1, <1>7, <1>9, <1>11, <2>1, <2>2 DEF SlotsLive, Connected
<1>14. StatusTruthful'
  <2>1. ASSUME NEW q \in Sockets, q # o
        PROVE  /\ obj'[q] = obj[q]
               /\ obj[q].host # None =>
                    sock'[obj[q].host].state = sock[obj[q].host].state
                    /\ sock'[obj[q].host].told = sock[obj[q].host].told
               /\ obj[q].client # None =>
                    sock'[obj[q].client].state = sock[obj[q].client].state
                    /\ sock'[obj[q].client].told = sock[obj[q].client].told
    BY <1>10, <1>11, <1>12, <2>1
  <2>2. c # None /\ sock'[c].state = "open" => sock'[c].told = "HOST_CONNECTED"
    BY <1>1, <1>8, <1>10
  <2> QED BY <1>1, <1>9, <1>11, <2>1, <2>2 DEF RelayInv, StatusTruthful, IsOpen
<1> QED BY <1>13, <1>14

\* A client takes the slot of session o; if its host is open, both are told.
LEMMA ClientStep ==
    ASSUME RelayInv, NEW s \in Sockets, NEW ip \in Ips, NEW id \in SessionIds,
           ClientConnects(s, ip, id)
    PROVE  SlotsLive' /\ StatusTruthful'
<1> DEFINE o == sessions[id]
           h == obj[o].host
           c == obj[o].client
           fresh == NewSocket(ip, "client", o, "open", TRUE)
           joined == [CloseOld(sock, c) EXCEPT ![s] = fresh]
           toClient == Tell(joined, s, "HOST_CONNECTED")
<1>1. /\ o \in Sockets /\ s # None /\ sock[s].state = "unused"
      /\ sock \in SocketMap /\ obj \in [Sockets -> Session]
      /\ h \in Sockets \cup {None} /\ c \in Sockets \cup {None}
  BY LimitsAssumption DEF RelayInv, TypeOK, Session, SocketMap, ClientConnects
<1>2. /\ obj' = [obj EXCEPT ![o].client = s]
      /\ sock' = IF IsOpen(h) THEN Tell(toClient, h, "CLIENT_CONNECTED") ELSE joined
  BY DEF ClientConnects
<1>3. fresh \in Socket /\ fresh.state = "open" /\ fresh.role = "client"
      /\ fresh.session = o /\ fresh.told = "nothing"
  <2>1. fresh \in Socket BY <1>1, NewSocketType
  <2> QED BY <2>1 DEF NewSocket, Unused
<1>4. CloseOld(sock, c) \in SocketMap BY <1>1, CloseOldType DEF SocketMap
<1>5. joined \in SocketMap /\ joined[s] = fresh
      /\ \A k \in Sockets : k # s => joined[k] = CloseOld(sock, c)[k]
  BY <1>3, <1>4 DEF SocketMap
<1>6. h # None => Connected(h) /\ sock[h].role = "host" /\ sock[h].session = o
  BY <1>1 DEF RelayInv, SlotsLive
<1>7. c # None => Connected(c) /\ sock[c].role = "client" /\ sock[c].session = o
  BY <1>1 DEF RelayInv, SlotsLive
<1>8. c # s /\ h # s /\ (h # None => c # h) BY <1>1, <1>6, <1>7 DEF Connected
<1>t. toClient \in SocketMap
  <2> HIDE DEF joined
  <2> QED BY <1>1, <1>5, TellType DEF Statuses, SocketMap
<1> HIDE DEF o, h, c, fresh, joined, toClient
<1>9. /\ sock'[s].state = "open" /\ sock'[s].role = "client" /\ sock'[s].session = o
      /\ sock'[s].told = IF IsOpen(h) THEN "HOST_CONNECTED" ELSE "nothing"
  <2>1. toClient[s].state = "open" /\ toClient[s].role = "client"
        /\ toClient[s].session = o /\ toClient[s].told = "HOST_CONNECTED"
    BY <1>1, <1>3, <1>5, TellEffect DEF toClient
  <2>2. CASE IsOpen(h)
    <3>1. LET new == Tell(toClient, h, "CLIENT_CONNECTED")[s] IN
          /\ new.state = toClient[s].state /\ new.role = toClient[s].role
          /\ new.session = toClient[s].session
          /\ new.told = IF s = h /\ toClient[s].state = "open" THEN "CLIENT_CONNECTED"
                        ELSE toClient[s].told
      BY <1>1, <1>t, TellEffect
    <3> QED BY <1>2, <1>8, <2>1, <2>2, <3>1
  <2>3. CASE ~IsOpen(h)
    BY <1>2, <1>3, <1>5, <2>3
  <2> QED BY <2>2, <2>3
<1>10. \A k \in Sockets : k # s =>
         /\ sock'[k].state = IF k = c /\ sock[k].state = "open" THEN "closing"
                             ELSE sock[k].state
         /\ sock'[k].role = sock[k].role /\ sock'[k].session = sock[k].session
         /\ sock'[k].told = IF k = h /\ sock[k].state = "open"
                            THEN "CLIENT_CONNECTED" ELSE sock[k].told
  <2> SUFFICES ASSUME NEW k \in Sockets, k # s
               PROVE  /\ sock'[k].state = IF k = c /\ sock[k].state = "open" THEN "closing"
                                          ELSE sock[k].state
                      /\ sock'[k].role = sock[k].role /\ sock'[k].session = sock[k].session
                      /\ sock'[k].told = IF k = h /\ sock[k].state = "open"
                                         THEN "CLIENT_CONNECTED" ELSE sock[k].told
    OBVIOUS
  <2>1. /\ joined[k].state = IF k = c /\ sock[k].state = "open" THEN "closing"
                             ELSE sock[k].state
        /\ joined[k].role = sock[k].role /\ joined[k].session = sock[k].session
        /\ joined[k].told = sock[k].told
    BY <1>1, <1>5, CloseOldEffect
  <2>2. /\ toClient[k].state = joined[k].state /\ toClient[k].role = joined[k].role
        /\ toClient[k].session = joined[k].session /\ toClient[k].told = joined[k].told
    BY <1>5, TellEffect DEF toClient
  <2>3. k = h => k # c BY <1>1, <1>8, LimitsAssumption
  <2>4. CASE IsOpen(h)
    <3>1. LET new == Tell(toClient, h, "CLIENT_CONNECTED")[k] IN
          /\ new.state = toClient[k].state /\ new.role = toClient[k].role
          /\ new.session = toClient[k].session
          /\ new.told = IF k = h /\ toClient[k].state = "open" THEN "CLIENT_CONNECTED"
                        ELSE toClient[k].told
      BY <1>1, <1>t, TellEffect
    <3>2. sock' = Tell(toClient, h, "CLIENT_CONNECTED") BY <1>2, <2>4
    <3> QED BY <2>1, <2>2, <2>3, <3>1, <3>2
  <2>5. CASE ~IsOpen(h)
    BY <1>2, <2>1, <2>5, LimitsAssumption DEF IsOpen
  <2> QED BY <2>4, <2>5
<1>11. /\ obj'[o].host = h /\ obj'[o].client = s
       /\ \A q \in Sockets : q # o => obj'[q] = obj[q]
  BY <1>1, <1>2 DEF Session, h
<1>12. ASSUME NEW q \in Sockets, q # o
       PROVE  /\ obj[q].host # None => obj[q].host \in Sockets /\ obj[q].host \notin {s, h, c}
              /\ obj[q].client # None => obj[q].client \in Sockets /\ obj[q].client \notin {s, h, c}
  <2>1. obj[q].host \in Sockets \cup {None} /\ obj[q].client \in Sockets \cup {None}
    BY <1>1 DEF Session
  <2> QED BY <1>1, <1>6, <1>7, <1>12, <2>1 DEF RelayInv, SlotsLive, Connected
<1>13. SlotsLive'
  <2>1. ASSUME NEW q \in Sockets, q # o
        PROVE  /\ (obj[q].host # None =>
                    /\ Connected(obj[q].host)
                    /\ sock[obj[q].host].role = "host" /\ sock[obj[q].host].session = q)'
               /\ (obj[q].client # None =>
                    /\ Connected(obj[q].client)
                    /\ sock[obj[q].client].role = "client" /\ sock[obj[q].client].session = q)'
    BY <1>10, <1>11, <1>12, <2>1 DEF RelayInv, SlotsLive, Connected
  <2>2. h # None => h \in Sockets /\ sock'[h].state = sock[h].state
                    /\ sock'[h].role = "host" /\ sock'[h].session = o
    BY <1>1, <1>6, <1>8, <1>10
  <2> QED BY <1>1, <1>6, <1>9, <1>11, <2>1, <2>2 DEF SlotsLive, Connected
<1>14. StatusTruthful'
  <2>1. ASSUME NEW q \in Sockets, q # o
        PROVE  /\ obj'[q] = obj[q]
               /\ obj[q].host # None =>
                    sock'[obj[q].host].state = sock[obj[q].host].state
                    /\ sock'[obj[q].host].told = sock[obj[q].host].told
               /\ obj[q].client # None =>
                    sock'[obj[q].client].state = sock[obj[q].client].state
                    /\ sock'[obj[q].client].told = sock[obj[q].client].told
    BY <1>10, <1>11, <1>12, <2>1
  <2>2. h # None => h \in Sockets /\ sock'[h].state = sock[h].state
        /\ (sock[h].state = "open" => sock'[h].told = "CLIENT_CONNECTED")
    BY <1>1, <1>8, <1>10
  <2> QED BY <1>1, <1>9, <1>11, <2>1, <2>2 DEF RelayInv, StatusTruthful, IsOpen
<1> QED BY <1>13, <1>14

\* A socket is seen to close: it leaves its session whoever held the slot by
\* then, and the other side is told.
LEMMA CloseStep ==
    ASSUME RelayInv, NEW s \in Sockets, CloseEvent(s)
    PROVE  SlotsLive' /\ StatusTruthful'
<1> DEFINE o == sock[s].session
           h == obj[o].host
           c == obj[o].client
           closed == [sock EXCEPT ![s] = [Unused EXCEPT !.state = "closed"]]
<1>1. /\ sock \in SocketMap /\ obj \in [Sockets -> Session]
      /\ s # None /\ o \in Sockets \cup {None}
      /\ sock[s].state = "closing" /\ closed \in SocketMap
  <2>1. /\ sock \in [Sockets -> Socket] /\ obj \in [Sockets -> Session]
        /\ sock[s].state = "closing"
    BY DEF RelayInv, TypeOK, CloseEvent
  <2>2. [Unused EXCEPT !.state = "closed"] \in Socket BY DEF Unused, Socket
  <2>3. closed \in [Sockets -> Socket] BY <2>1, <2>2
  <2>4. sock[s] \in Socket BY <2>1
  <2> QED BY <2>1, <2>3, <2>4, LimitsAssumption DEF Socket, SocketMap
<1>2. /\ closed[s].state = "closed"
      /\ \A k \in Sockets : k # s => closed[k] = sock[k]
  BY <1>1 DEF SocketMap, Unused
<1>3. /\ o = None => sock' = closed /\ obj' = obj
      /\ o # None /\ sock[s].role = "host" =>
           sock' = Tell(closed, c, "HOST_DISCONNECTED") /\ obj' = [obj EXCEPT ![o].host = None]
      /\ o # None /\ sock[s].role # "host" =>
           sock' = Tell(closed, h, "CLIENT_DISCONNECTED") /\ obj' = [obj EXCEPT ![o].client = None]
  BY DEF CloseEvent, Vacate
<1> HIDE DEF o, h, c, closed
\* No other session names the socket, and its own only in its role's slot.
<1>4. ASSUME NEW q \in Sockets
      PROVE  /\ obj[q].host \in Sockets \cup {None} /\ obj[q].client \in Sockets \cup {None}
             /\ obj[q].host # None =>
                  Connected(obj[q].host) /\ sock[obj[q].host].role = "host"
                  /\ sock[obj[q].host].session = q
             /\ obj[q].client # None =>
                  Connected(obj[q].client) /\ sock[obj[q].client].role = "client"
                  /\ sock[obj[q].client].session = q
  BY <1>1 DEF Session, RelayInv, SlotsLive
<1>5. ASSUME NEW x \in Sockets \cup {None}, NEW status, sock' = Tell(closed, x, status), x # s
      PROVE  \A k \in Sockets : k # s =>
               /\ sock'[k].state = sock[k].state /\ sock'[k].role = sock[k].role
               /\ sock'[k].session = sock[k].session
               /\ sock'[k].told = IF k = x /\ sock[k].state = "open" THEN status
                                  ELSE sock[k].told
  <2> SUFFICES ASSUME NEW k \in Sockets, k # s
               PROVE  /\ sock'[k].state = sock[k].state /\ sock'[k].role = sock[k].role
                      /\ sock'[k].session = sock[k].session
                      /\ sock'[k].told = IF k = x /\ sock[k].state = "open" THEN status
                                         ELSE sock[k].told
    OBVIOUS
  <2>1. LET new == Tell(closed, x, status)[k] IN
        /\ new.state = closed[k].state /\ new.role = closed[k].role
        /\ new.session = closed[k].session
        /\ new.told = IF k = x /\ closed[k].state = "open" THEN status ELSE closed[k].told
    BY <1>1, TellEffect
  <2> QED BY <1>2, <1>5, <2>1
<1>6. CASE o = None
  <2>1. \A q \in Sockets : obj[q].host # s /\ obj[q].client # s
    BY <1>1, <1>4, <1>6, LimitsAssumption DEF o
  <2>2. \A k \in Sockets : k # s => sock'[k] = sock[k] BY <1>2, <1>3, <1>6
  <2>3. obj' = obj BY <1>3, <1>6
  <2>4. SlotsLive' BY <1>4, <2>1, <2>2, <2>3 DEF SlotsLive, Connected
  <2>5. StatusTruthful'
    BY <1>4, <2>1, <2>2, <2>3 DEF RelayInv, StatusTruthful, IsOpen
  <2> QED BY <2>4, <2>5
<1>7. CASE o # None /\ sock[s].role = "host"
  <2>1. o \in Sockets BY <1>1, <1>7
  <2>2. c # s /\ c \in Sockets \cup {None} BY <1>1, <1>4, <1>7, <2>1 DEF c
  <2>3. \A k \in Sockets : k # s =>
          /\ sock'[k].state = sock[k].state /\ sock'[k].role = sock[k].role
          /\ sock'[k].session = sock[k].session
          /\ sock'[k].told = IF k = c /\ sock[k].state = "open" THEN "HOST_DISCONNECTED"
                             ELSE sock[k].told
    BY <1>3, <1>5, <1>7, <2>2
  <2>4. /\ obj'[o].host = None /\ obj'[o].client = c
        /\ \A q \in Sockets : q # o => obj'[q] = obj[q]
    BY <1>1, <1>3, <1>7, <2>1 DEF Session, c
  <2>5. \A q \in Sockets : q # o =>
          /\ obj[q].host # s /\ obj[q].client # s
          /\ c # None => obj[q].host # c /\ obj[q].client # c
    BY <1>1, <1>4, <2>1, LimitsAssumption DEF o, c
  <2>6. SlotsLive'
    <3>1. ASSUME NEW q \in Sockets
          PROVE  /\ obj'[q].host # None =>
                      /\ obj'[q].host = obj[q].host /\ obj[q].host # s
                 /\ obj'[q].client # None =>
                      /\ obj'[q].client = obj[q].client /\ obj[q].client # s
      BY <2>2, <2>4, <2>5 DEF c
    <3> QED BY <1>4, <2>3, <3>1 DEF SlotsLive, Connected
  <2>7. StatusTruthful'
    <3>1. ASSUME NEW q \in Sockets, q # o
          PROVE  /\ obj'[q] = obj[q]
                 /\ obj[q].host # None =>
                      sock'[obj[q].host].state = sock[obj[q].host].state
                      /\ sock'[obj[q].host].told = sock[obj[q].host].told
                 /\ obj[q].client # None =>
                      sock'[obj[q].client].state = sock[obj[q].client].state
                      /\ sock'[obj[q].client].told = sock[obj[q].client].told
      BY <1>4, <2>3, <2>4, <2>5, <3>1
    <3>2. c # None /\ sock'[c].state = "open" => sock'[c].told = "HOST_DISCONNECTED"
      BY <2>2, <2>3
    <3> QED BY <2>1, <2>4, <3>1, <3>2 DEF RelayInv, StatusTruthful, IsOpen
  <2> QED BY <2>6, <2>7
<1>8. CASE o # None /\ sock[s].role # "host"
  <2>1. o \in Sockets BY <1>1, <1>8
  <2>2. h # s /\ h \in Sockets \cup {None} BY <1>1, <1>4, <1>8, <2>1 DEF h
  <2>3. \A k \in Sockets : k # s =>
          /\ sock'[k].state = sock[k].state /\ sock'[k].role = sock[k].role
          /\ sock'[k].session = sock[k].session
          /\ sock'[k].told = IF k = h /\ sock[k].state = "open" THEN "CLIENT_DISCONNECTED"
                             ELSE sock[k].told
    BY <1>3, <1>5, <1>8, <2>2
  <2>4. /\ obj'[o].client = None /\ obj'[o].host = h
        /\ \A q \in Sockets : q # o => obj'[q] = obj[q]
    BY <1>1, <1>3, <1>8, <2>1 DEF Session, h
  <2>5. \A q \in Sockets : q # o =>
          /\ obj[q].host # s /\ obj[q].client # s
          /\ h # None => obj[q].host # h /\ obj[q].client # h
    BY <1>1, <1>4, <2>1, LimitsAssumption DEF o, h
  <2>6. SlotsLive'
    <3>1. ASSUME NEW q \in Sockets
          PROVE  /\ obj'[q].host # None =>
                      /\ obj'[q].host = obj[q].host /\ obj[q].host # s
                 /\ obj'[q].client # None =>
                      /\ obj'[q].client = obj[q].client /\ obj[q].client # s
      BY <2>2, <2>4, <2>5 DEF h
    <3> QED BY <1>4, <2>3, <3>1 DEF SlotsLive, Connected
  <2>7. StatusTruthful'
    <3>1. ASSUME NEW q \in Sockets, q # o
          PROVE  /\ obj'[q] = obj[q]
                 /\ obj[q].host # None =>
                      sock'[obj[q].host].state = sock[obj[q].host].state
                      /\ sock'[obj[q].host].told = sock[obj[q].host].told
                 /\ obj[q].client # None =>
                      sock'[obj[q].client].state = sock[obj[q].client].state
                      /\ sock'[obj[q].client].told = sock[obj[q].client].told
      BY <1>4, <2>3, <2>4, <2>5, <3>1
    <3>2. h # None /\ sock'[h].state = "open" => sock'[h].told = "CLIENT_DISCONNECTED"
      BY <2>2, <2>3
    <3> QED BY <2>1, <2>4, <3>1, <3>2 DEF RelayInv, StatusTruthful, IsOpen
  <2> QED BY <2>6, <2>7
<1> QED BY <1>6, <1>7, <1>8

LEMMA TouchKeeps ==
    ASSUME TypeOK, NEW s \in Sockets, Touch(s)
    PROVE  SlotsKept
<1> SUFFICES ASSUME NEW o \in Sockets
             PROVE  obj'[o].host = obj[o].host /\ obj'[o].client = obj[o].client
  BY DEF SlotsKept
<1> DEFINE x == sock[s].session
<1>1. obj \in [Sockets -> Session] /\ obj[o] \in Session BY DEF TypeOK
<1>2. obj' = [obj EXCEPT ![x].age = 0] BY DEF Touch
<1>3. CASE o = x BY <1>1, <1>2, <1>3 DEF Session
<1>4. CASE o # x BY <1>1, <1>2, <1>4
<1> QED BY <1>3, <1>4

LEMMA RelayStep ==
    ASSUME RelayInv, [Next]_vars
    PROVE  SlotsLive' /\ StatusTruthful'
<1>1. /\ sock \in [Sockets -> Socket] /\ obj \in [Sockets -> Session]
      /\ TypeOK
  BY DEF RelayInv, TypeOK
<1>2. obj' = obj => SlotsKept BY DEF SlotsKept
<1>3. sock' = sock => \A k \in Sockets : Connected(k) => Keeps(k) BY DEF Keeps
<1>4. ASSUME NEW s \in Sockets, NEW ip \in Ips, Connection(s, ip)
      PROVE  SlotsLive' /\ StatusTruthful'
  <2>1. ASSUME RefuseConnection(s, ip) \/ RejectConnection(s, ip)
        PROVE  SlotsLive' /\ StatusTruthful'
    <3>1. SlotsKept BY <1>2, <2>1 DEF RefuseConnection, RejectConnection
    <3>2. \A k \in Sockets : k # s => sock'[k] = sock[k]
      BY <1>1, <2>1 DEF RefuseConnection, RejectConnection
    <3>3. ~Connected(s) BY <2>1 DEF RefuseConnection, RejectConnection, Connected
    <3>4. \A k \in Sockets : Connected(k) => Keeps(k) BY <3>2, <3>3 DEF Keeps
    <3> QED BY <3>1, <3>4, QuietStep
  <2> QED BY <1>4, <2>1, HostStep, ClientStep DEF Connection
<1>5. ASSUME NEW s \in Sockets, Pong(s) PROVE SlotsLive' /\ StatusTruthful'
  <2>1. SlotsKept BY <1>1, <1>5, TouchKeeps DEF Pong
  <2>2. \A k \in Sockets : sock[k] \in Socket BY <1>1
  <2>3. \A k \in Sockets : Keeps(k) BY <1>1, <1>5, <2>2 DEF Pong, Keeps, Socket
  <2> QED BY <2>1, <2>3, QuietStep
<1>6. ASSUME NEW s \in Sockets, Message(s) PROVE SlotsLive' /\ StatusTruthful'
  <2>1. SlotsKept BY <1>1, <1>6, TouchKeeps DEF Message
  <2>2. sock' = sock BY <1>6 DEF Message
  <2> QED BY <1>3, <2>1, <2>2, QuietStep
<1>7. ASSUME NEW s \in Sockets, MessageOverCap(s) PROVE SlotsLive' /\ StatusTruthful'
  <2>1. SlotsKept BY <1>1, <1>7, TouchKeeps DEF MessageOverCap
  <2>2. sock' = CloseOld(sock, s) BY <1>7 DEF MessageOverCap
  <2>3. sock \in SocketMap /\ s \in Sockets \cup {None} BY <1>1 DEF SocketMap
  <2>4. ASSUME NEW k \in Sockets PROVE Keeps(k)
    BY <2>2, <2>3, CloseOldEffect DEF Keeps
  <2> QED BY <2>1, <2>4, QuietStep
<1>8. ASSUME NEW s \in Sockets, PeerCloses(s) PROVE SlotsLive' /\ StatusTruthful'
  <2>1. SlotsKept BY <1>2, <1>8 DEF PeerCloses
  <2>2. \A k \in Sockets : sock[k] \in Socket BY <1>1
  <2>3. \A k \in Sockets : Keeps(k)
    BY <1>1, <1>8, <2>2 DEF PeerCloses, IsOpen, Keeps, Socket
  <2> QED BY <2>1, <2>3, QuietStep
<1>9. ASSUME NEW s \in Sockets, PeerGoesSilent(s) PROVE SlotsLive' /\ StatusTruthful'
  BY <1>2, <1>3, <1>9, QuietStep DEF PeerGoesSilent
<1>10. ASSUME Tick PROVE SlotsLive' /\ StatusTruthful'
  <2>1. SlotsKept
    <3> SUFFICES ASSUME NEW o \in Sockets
                 PROVE  obj'[o].host = obj[o].host /\ obj'[o].client = obj[o].client
      BY DEF SlotsKept
    <3>1. obj[o] \in Session BY <1>1
    <3>2. obj'[o] = Older(o) BY <1>10 DEF Tick
    <3> QED BY <3>1, <3>2 DEF Older, Session
  <2>2. ASSUME NEW k \in Sockets, Connected(k) PROVE Keeps(k)
    <3>1. sock[k] \in Socket BY <1>1
    <3>2. sock'[k] = Heartbeat(sock[k]) BY <1>10 DEF Tick
    <3>3. CASE sock[k].isAlive
      <4>1. sock'[k] = [sock[k] EXCEPT !.isAlive = FALSE]
        BY <2>2, <3>2, <3>3 DEF Heartbeat, Connected
      <4> QED BY <3>1, <4>1 DEF Keeps, Socket
    <3>4. CASE ~sock[k].isAlive
      <4>1. sock'[k] = [sock[k] EXCEPT !.state = "closing"]
        BY <2>2, <3>2, <3>4 DEF Heartbeat, Connected
      <4> QED BY <2>2, <3>1, <4>1 DEF Keeps, Socket, Connected
    <3> QED BY <3>3, <3>4
  <2> QED BY <2>1, <2>2, QuietStep
<1>11. ASSUME NEW ip \in Ips, AttemptsExpire(ip) PROVE SlotsLive' /\ StatusTruthful'
  BY <1>2, <1>3, <1>11, QuietStep DEF AttemptsExpire
<1>12. CASE UNCHANGED vars BY <1>2, <1>3, <1>12, QuietStep DEF vars
<1>13. CASE ProcessEnds
  <2>1. \A o \in Sockets : obj'[o].host = None /\ obj'[o].client = None
    BY <1>13 DEF ProcessEnds, NewSession
  <2> QED BY <2>1, LimitsAssumption DEF SlotsLive, StatusTruthful, IsOpen
<1> QED BY <1>4, <1>5, <1>6, <1>7, <1>8, <1>9, <1>10, <1>11, <1>12, <1>13, CloseStep
        DEF Next

LEMMA RelayInitially == Init => SlotsLive /\ StatusTruthful
BY LimitsAssumption DEF Init, NewSession, SlotsLive, StatusTruthful, IsOpen

LEMMA RelayInvariant == Spec => []RelayInv
<1>1. Init => RelayInv BY TypeInit, RelayInitially DEF RelayInv
<1>2. RelayInv /\ [Next]_vars => RelayInv' BY TypeStep, RelayStep DEF RelayInv
<1> QED BY <1>1, <1>2, PTL DEF Spec

\* The sockets in a session's slots are its own, in their roles, and not
\* closed, through replacement, late close events and cleanup (the close
\* listeners of server.ts empty a slot whoever holds it).
THEOREM Slots == Spec => []SlotsLive
<1>1. RelayInv => SlotsLive BY DEF RelayInv
<1> QED BY <1>1, RelayInvariant, PTL

\* What a socket was last told of the other side is what its session holds
\* (the RELAY_STATUS messages of the connection and close handlers).
THEOREM Truthful == Spec => []StatusTruthful
<1>1. RelayInv => StatusTruthful BY DEF RelayInv
<1> QED BY <1>1, RelayInvariant, PTL

-----------------------------------------------------------------------------
\* The counts of the addresses.
CountInv == \A ip \in Ips : IsFiniteSet(Counted(ip)) /\ perIp[ip] = Cardinality(Counted(ip))

\* A socket stays counted, for the same address, or stays uncounted.
SameCount(k) ==
  /\ Connected(k)' <=> Connected(k)
  /\ sock'[k].counted = sock[k].counted /\ sock'[k].ip = sock[k].ip

LEMMA CountKept ==
    ASSUME CountInv, perIp' = perIp,
           \A k \in Sockets : Connected(k) \/ sock'[k].counted => SameCount(k)
    PROVE  CountInv'
<1>1. \A ip \in Ips : Counted(ip)' = Counted(ip) BY DEF Counted, SameCount
<1> QED BY <1>1 DEF CountInv

\* One more connection of an address, with the increment of its count.
LEMMA CountAccepted ==
    ASSUME TypeOK, CountInv, NEW s \in Sockets, NEW ip \in Ips, CountConnection(ip),
           sock[s].state = "unused", Connected(s)', sock'[s].counted, sock'[s].ip = ip,
           \A k \in Sockets : k # s => SameCount(k)
    PROVE  CountInv'
<1> SUFFICES ASSUME NEW a \in Ips
             PROVE  (IsFiniteSet(Counted(a)) /\ perIp[a] = Cardinality(Counted(a)))'
  BY DEF CountInv
<1>1. s \notin Counted(a) BY DEF Counted, Connected
<1>2. IsFiniteSet(Counted(a)) /\ perIp[a] = Cardinality(Counted(a)) BY DEF CountInv
<1>3. perIp' = [perIp EXCEPT ![ip] = @ + 1] /\ perIp \in [Ips -> Nat]
  BY LimitsAssumption DEF CountConnection, TypeOK
<1>4. CASE a = ip
  <2>1. Counted(a)' = Counted(a) \cup {s}
    BY <1>4 DEF Counted, SameCount
  <2>2. /\ IsFiniteSet(Counted(a) \cup {s})
        /\ Cardinality(Counted(a) \cup {s}) = Cardinality(Counted(a)) + 1
    BY <1>1, <1>2, FS_AddElement
  <2>3. perIp'[a] = perIp[a] + 1 BY <1>3, <1>4
  <2> QED BY <1>2, <2>1, <2>2, <2>3
<1>5. CASE a # ip
  <2>1. Counted(a)' = Counted(a) BY <1>1, <1>5 DEF Counted, SameCount
  <2>2. perIp'[a] = perIp[a] BY <1>3, <1>5
  <2> QED BY <1>2, <2>1, <2>2
<1> QED BY <1>4, <1>5

\* A connection is seen to close, with the decrement of its address's count.
LEMMA CountClosed ==
    ASSUME TypeOK, CountInv, NEW s \in Sockets, CloseEvent(s)
    PROVE  CountInv'
<1> DEFINE o == sock[s].session
           closed == [sock EXCEPT ![s] = [Unused EXCEPT !.state = "closed"]]
<1>1. closed \in SocketMap /\ sock \in SocketMap
  <2>1. [Unused EXCEPT !.state = "closed"] \in Socket BY DEF Unused, Socket
  <2> QED BY <2>1 DEF TypeOK, SocketMap
<1>2. /\ closed[s].state = "closed"
      /\ \A k \in Sockets : k # s => closed[k] = sock[k]
  BY <1>1 DEF SocketMap, Unused
<1>3. \E x \in Sockets \cup {None}, status \in Statuses :
        sock' = closed \/ sock' = Tell(closed, x, status)
  <2>1. o # None => obj[o].host \in Sockets \cup {None} /\ obj[o].client \in Sockets \cup {None}
    BY DEF TypeOK, Socket, Session
  <2>2. \/ sock' = closed
        \/ o # None /\ sock' = Tell(closed, obj[o].client, "HOST_DISCONNECTED")
        \/ o # None /\ sock' = Tell(closed, obj[o].host, "CLIENT_DISCONNECTED")
    BY DEF CloseEvent
  <2> HIDE DEF o, closed
  <2> QED BY <2>1, <2>2 DEF Statuses
<1> HIDE DEF closed
<1>4. ASSUME NEW k \in Sockets
      PROVE  /\ sock'[k].state = closed[k].state
             /\ sock'[k].counted = closed[k].counted /\ sock'[k].ip = closed[k].ip
  BY <1>1, <1>3, TellEffect
<1>5. ~Connected(s)' BY <1>2, <1>4 DEF Connected
<1>6. \A k \in Sockets : k # s => SameCount(k)
  BY <1>2, <1>4 DEF SameCount, Connected
<1>7. Connected(s) BY DEF CloseEvent, Connected
<1> SUFFICES ASSUME NEW a \in Ips
             PROVE  (IsFiniteSet(Counted(a)) /\ perIp[a] = Cardinality(Counted(a)))'
  BY DEF CountInv
<1>8. IsFiniteSet(Counted(a)) /\ perIp[a] = Cardinality(Counted(a)) BY DEF CountInv
<1>9. perIp \in [Ips -> Nat] BY LimitsAssumption DEF TypeOK
<1>10. perIp' = IF sock[s].counted THEN [perIp EXCEPT ![sock[s].ip] = Decrement(@)] ELSE perIp
  BY DEF CloseEvent
<1>11. CASE sock[s].counted /\ sock[s].ip = a
  <2>1. s \in Counted(a) BY <1>7, <1>11 DEF Counted
  <2>2. Counted(a)' = Counted(a) \ {s} BY <1>5, <1>6 DEF Counted, SameCount
  <2>3. /\ IsFiniteSet(Counted(a) \ {s})
        /\ Cardinality(Counted(a) \ {s}) = Cardinality(Counted(a)) - 1
    BY <1>8, <2>1, FS_RemoveElement
  <2>4. Cardinality(Counted(a) \ {s}) \in Nat BY <2>3, FS_CardinalityType
  <2>5. perIp'[a] = Decrement(perIp[a]) BY <1>9, <1>10, <1>11
  <2>6. perIp'[a] = perIp[a] - 1
    BY <1>8, <1>9, <2>3, <2>4, <2>5 DEF Decrement
  <2> QED BY <1>8, <2>2, <2>3, <2>6
<1>12. CASE ~(sock[s].counted /\ sock[s].ip = a)
  <2>1. Counted(a)' = Counted(a) BY <1>5, <1>6, <1>12 DEF Counted, SameCount
  <2>2. perIp'[a] = perIp[a] BY <1>9, <1>10, <1>12
  <2> QED BY <1>8, <2>1, <2>2
<1> QED BY <1>11, <1>12

\* What Tell and CloseOld leave alone is all the count depends on.
LEMMA CountUndisturbed ==
    ASSUME TypeOK, NEW s \in Sockets, NEW h \in Sockets \cup {None}, NEW fresh \in Socket
    PROVE  LET joined == [CloseOld(sock, h) EXCEPT ![s] = fresh] IN
           /\ joined \in SocketMap /\ joined[s] = fresh
           /\ \A k \in Sockets : k # s =>
                /\ joined[k].state \in {"open", "closing"} <=> Connected(k)
                /\ joined[k].counted = sock[k].counted /\ joined[k].ip = sock[k].ip
<1> DEFINE joined == [CloseOld(sock, h) EXCEPT ![s] = fresh]
<1>1. sock \in SocketMap BY DEF TypeOK, SocketMap
<1>2. CloseOld(sock, h) \in SocketMap BY <1>1, CloseOldType DEF SocketMap
<1>3. joined \in SocketMap /\ joined[s] = fresh
      /\ \A k \in Sockets : k # s => joined[k] = CloseOld(sock, h)[k]
  BY <1>2 DEF SocketMap
<1> HIDE DEF joined
<1>4. ASSUME NEW k \in Sockets, k # s
      PROVE  /\ joined[k].state \in {"open", "closing"} <=> Connected(k)
             /\ joined[k].counted = sock[k].counted /\ joined[k].ip = sock[k].ip
  <2>1. joined[k] = CloseOld(sock, h)[k] BY <1>3, <1>4
  <2>2. LET new == CloseOld(sock, h)[k] IN
        /\ new.state = IF k = h /\ sock[k].state = "open" THEN "closing" ELSE sock[k].state
        /\ new.counted = sock[k].counted /\ new.ip = sock[k].ip
    BY <1>1, CloseOldEffect
  <2> QED BY <2>1, <2>2 DEF Connected
<1> QED BY <1>3, <1>4 DEF joined

LEMMA CountJoined ==
    ASSUME TypeOK, CountInv, NEW s \in Sockets, NEW ip \in Ips, NEW id \in SessionIds,
           HostConnects(s, ip, id) \/ ClientConnects(s, ip, id)
    PROVE  CountInv'
<1>1. /\ sock[s].state = "unused" /\ CountConnection(ip)
  BY DEF HostConnects, ClientConnects
<1>2. PICK o \in Sockets, h \in Sockets \cup {None}, role \in {"host", "client"} :
        LET joined == [CloseOld(sock, h) EXCEPT ![s] = NewSocket(ip, role, o, "open", TRUE)] IN
        \/ sock' = joined
        \/ \E x \in Sockets \cup {None}, status \in Statuses : sock' = Tell(joined, x, status)
        \/ \E x \in Sockets \cup {None} :
             sock' = Tell(Tell(joined, s, "HOST_CONNECTED"), x, "CLIENT_CONNECTED")
  <2>1. CASE HostConnects(s, ip, id)
    <3> DEFINE o == IF sessions[id] = None THEN s ELSE sessions[id]
               joined == [CloseOld(sock, obj[o].host)
                            EXCEPT ![s] = NewSocket(ip, "host", o, "open", TRUE)]
    <3>1. o \in Sockets BY DEF TypeOK
    <3>2. obj[o].host \in Sockets \cup {None} /\ obj[o].client \in Sockets \cup {None}
      BY <3>1 DEF TypeOK, Session
    <3>3. sock' = Tell(joined, obj[o].client, "HOST_CONNECTED") BY <2>1 DEF HostConnects
    <3>4. "HOST_CONNECTED" \in Statuses BY DEF Statuses
    <3> HIDE DEF o
    <3> QED BY <3>1, <3>2, <3>3, <3>4
  <2>2. CASE ClientConnects(s, ip, id)
    <3> DEFINE o == sessions[id]
               joined == [CloseOld(sock, obj[o].client)
                            EXCEPT ![s] = NewSocket(ip, "client", o, "open", TRUE)]
    <3>1. o \in Sockets BY <2>2 DEF TypeOK, ClientConnects
    <3>2. obj[o].host \in Sockets \cup {None} /\ obj[o].client \in Sockets \cup {None}
      BY <3>1 DEF TypeOK, Session
    <3>3. \/ sock' = joined
          \/ sock' = Tell(Tell(joined, s, "HOST_CONNECTED"), obj[o].host, "CLIENT_CONNECTED")
      BY <2>2 DEF ClientConnects
    <3> HIDE DEF o
    <3> QED BY <3>1, <3>2, <3>3
  <2> QED BY <2>1, <2>2
<1> DEFINE fresh == NewSocket(ip, role, o, "open", TRUE)
           joined == [CloseOld(sock, h) EXCEPT ![s] = fresh]
<1>3. /\ joined \in SocketMap /\ joined[s] = fresh
      /\ \A k \in Sockets : k # s =>
           /\ joined[k].state \in {"open", "closing"} <=> Connected(k)
           /\ joined[k].counted = sock[k].counted /\ joined[k].ip = sock[k].ip
  <2>1. fresh \in Socket BY NewSocketType
  <2> HIDE DEF fresh
  <2> QED BY <2>1, CountUndisturbed
<1>4. fresh.state = "open" /\ fresh.counted = TRUE /\ fresh.ip = ip
  BY DEF NewSocket, Unused
<1> HIDE DEF fresh, joined
<1>5. ASSUME NEW k \in Sockets
      PROVE  /\ sock'[k].state = joined[k].state
             /\ sock'[k].counted = joined[k].counted /\ sock'[k].ip = joined[k].ip
  <2>1. CASE sock' = joined BY <2>1
  <2>2. CASE \E x \in Sockets \cup {None}, status \in Statuses : sock' = Tell(joined, x, status)
    BY <1>3, <2>2, TellEffect
  <2>3. CASE \E x \in Sockets \cup {None} :
               sock' = Tell(Tell(joined, s, "HOST_CONNECTED"), x, "CLIENT_CONNECTED")
    <3> DEFINE told == Tell(joined, s, "HOST_CONNECTED")
    <3>1. told \in SocketMap BY <1>3, TellType DEF SocketMap, Statuses
    <3>2. /\ told[k].state = joined[k].state
          /\ told[k].counted = joined[k].counted /\ told[k].ip = joined[k].ip
      BY <1>3, TellEffect
    <3>3. PICK x \in Sockets \cup {None} : sock' = Tell(told, x, "CLIENT_CONNECTED") BY <2>3
    <3> HIDE DEF told
    <3>4. LET new == Tell(told, x, "CLIENT_CONNECTED")[k] IN
          /\ new.state = told[k].state
          /\ new.counted = told[k].counted /\ new.ip = told[k].ip
      BY <3>1, <3>3, TellEffect
    <3> QED BY <3>2, <3>3, <3>4
  <2> QED BY <1>2, <2>1, <2>2, <2>3 DEF joined, fresh
<1>6. Connected(s)' /\ sock'[s].counted /\ sock'[s].ip = ip
  BY <1>3, <1>4, <1>5 DEF Connected
<1>7. \A k \in Sockets : k # s => SameCount(k) BY <1>3, <1>5 DEF SameCount, Connected
<1> QED BY <1>1, <1>6, <1>7, CountAccepted

LEMMA CountStep ==
    ASSUME TypeOK, CountInv, [Next]_vars
    PROVE  CountInv'
<1>1. sock \in [Sockets -> Socket] /\ \A k \in Sockets : sock[k] \in Socket BY DEF TypeOK
<1>2. sock' = sock => \A k \in Sockets : SameCount(k) BY DEF SameCount, Connected
<1>3. ASSUME NEW s \in Sockets, NEW ip \in Ips, RefuseConnection(s, ip) PROVE CountInv'
  <2>1. \A k \in Sockets : k # s => sock'[k] = sock[k] BY <1>1, <1>3 DEF RefuseConnection
  <2>2. ~sock'[s].counted /\ ~Connected(s)
    BY <1>1, <1>3 DEF RefuseConnection, NewSocket, Unused, Connected
  <2>3. perIp' = perIp BY <1>3 DEF RefuseConnection
  <2> QED BY <2>1, <2>2, <2>3, CountKept DEF SameCount, Connected
<1>4. ASSUME NEW s \in Sockets, NEW ip \in Ips, RejectConnection(s, ip) PROVE CountInv'
  <2>1. \A k \in Sockets : k # s => SameCount(k)
    BY <1>1, <1>4 DEF RejectConnection, SameCount, Connected
  <2>2. Connected(s)' /\ sock'[s].counted /\ sock'[s].ip = ip
    BY <1>1, <1>4 DEF RejectConnection, NewSocket, Unused, Connected
  <2>3. CountConnection(ip) /\ sock[s].state = "unused" BY <1>4 DEF RejectConnection
  <2> QED BY <2>1, <2>2, <2>3, CountAccepted
<1>5. ASSUME NEW s \in Sockets, Pong(s) PROVE CountInv'
  <2>1. \A k \in Sockets : SameCount(k)
    BY <1>1, <1>5 DEF Pong, SameCount, Connected, Socket
  <2>2. perIp' = perIp BY <1>5 DEF Pong
  <2> QED BY <2>1, <2>2, CountKept
<1>6. ASSUME NEW s \in Sockets, MessageOverCap(s) PROVE CountInv'
  <2>1. sock \in SocketMap /\ s \in Sockets \cup {None} BY <1>1 DEF SocketMap
  <2>2. sock' = CloseOld(sock, s) /\ perIp' = perIp BY <1>6 DEF MessageOverCap
  <2>3. ASSUME NEW k \in Sockets PROVE SameCount(k)
    BY <2>1, <2>2, CloseOldEffect DEF SameCount, Connected
  <2> QED BY <2>2, <2>3, CountKept
<1>7. ASSUME NEW s \in Sockets, PeerCloses(s) PROVE CountInv'
  <2>1. \A k \in Sockets : SameCount(k)
    BY <1>1, <1>7 DEF PeerCloses, IsOpen, SameCount, Connected, Socket
  <2>2. perIp' = perIp BY <1>7 DEF PeerCloses
  <2> QED BY <2>1, <2>2, CountKept
<1>8. ASSUME Tick PROVE CountInv'
  <2>1. ASSUME NEW k \in Sockets PROVE SameCount(k)
    <3>1. sock'[k] = Heartbeat(sock[k]) BY <1>8 DEF Tick
    <3> QED BY <1>1, <3>1 DEF Heartbeat, SameCount, Connected, Socket
  <2>2. perIp' = perIp BY <1>8 DEF Tick
  <2> QED BY <2>1, <2>2, CountKept
<1>9. ASSUME NEW s \in Sockets, Message(s) \/ PeerGoesSilent(s) PROVE CountInv'
  BY <1>2, <1>9, CountKept DEF Message, PeerGoesSilent
<1>10. ASSUME NEW ip \in Ips, AttemptsExpire(ip) PROVE CountInv'
  BY <1>2, <1>10, CountKept DEF AttemptsExpire
<1>11. CASE UNCHANGED vars BY <1>2, <1>11, CountKept DEF vars
<1>12. ASSUME ProcessEnds PROVE CountInv'
  <2> SUFFICES ASSUME NEW ip \in Ips
               PROVE  /\ IsFiniteSet(Counted(ip)')
                      /\ perIp'[ip] = Cardinality(Counted(ip)')
    BY DEF CountInv
  <2>1. \A k \in Sockets : Connected(k)' => sock'[k] = [Unused EXCEPT !.state = "closed"]
    BY <1>12 DEF ProcessEnds, Connected
  <2>2. Counted(ip)' = {} BY <2>1 DEF Counted, Connected, Unused
  <2>3. perIp'[ip] = 0 BY <1>12 DEF ProcessEnds
  <2> QED BY <2>2, <2>3, FS_EmptySet
<1> QED BY <1>3, <1>4, <1>5, <1>6, <1>7, <1>8, <1>9, <1>10, <1>11, <1>12, CountJoined,
           CountClosed DEF Next, Connection

LEMMA CountInitially == Init => CountInv
<1> SUFFICES ASSUME Init, NEW ip \in Ips
             PROVE  IsFiniteSet(Counted(ip)) /\ perIp[ip] = Cardinality(Counted(ip))
  BY DEF CountInv
<1>1. Counted(ip) = {} BY DEF Init, Counted, Connected, Unused
<1>2. perIp[ip] = 0 BY DEF Init
<1> QED BY <1>1, <1>2, FS_EmptySet

\* The count kept of an address is the number of its accepted connections the
\* server has not seen close (trackConnection and its "close" listener).
THEOREM Counts == Spec => []CountsExact
<1> DEFINE I == TypeOK /\ CountInv
<1>1. Init => I BY TypeInit, CountInitially
<1>2. I /\ [Next]_vars => I' BY TypeStep, CountStep
<1>3. I => CountsExact BY DEF CountInv, CountsExact
<1> QED BY <1>1, <1>2, <1>3, PTL DEF Spec
=============================================================================
