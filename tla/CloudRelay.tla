----------------------------- MODULE CloudRelay -----------------------------
(***************************************************************************)
(* The relay server (packages/cloud-relay/src/server.ts): it pairs one     *)
(* host socket with one client socket per session id.  A handler of the    *)
(* Node event loop is atomic; what interleaves are the events: a           *)
(* connection, a frame, a pong, the late "close" event of a socket whose   *)
(* closing began earlier, and the 30 second timers.  No socket has an      *)
(* "error" listener, so a frame the library rejects ends the process.      *)
(*                                                                         *)
(* A session OBJECT is captured by the closures of its sockets and         *)
(* outlives its entry in the map, so objects have an identity of their     *)
(* own: the host socket whose connection created them.                     *)
(*                                                                         *)
(* A tick is one firing of the two 30 second intervals (the heartbeat,     *)
(* registered first, then the session cleanup).  Ages count ticks: at a    *)
(* tick an age of MaxAge means that more than CONNECTION_TIMEOUT_MS have   *)
(* passed.  The throughput caps are a choice of the message handler.       *)
(***************************************************************************)
EXTENDS Naturals, FiniteSets

CONSTANTS
  Sockets,          \* each is one WebSocket connection, used once
  Ips,
  SessionIds,
  None,
  MaxConnectionsPerIp,
  MaxNewConnections,   \* per address and minute
  MaxGlobalSessions

ASSUME LimitsAssumption ==
  /\ None \notin Sockets
  /\ {MaxConnectionsPerIp, MaxNewConnections, MaxGlobalSessions} \subseteq Nat \ {0}

VARIABLES
  sock,      \* the sockets, with what their handlers' closures hold
  silent,    \* sockets whose peer no longer answers (network gone, host asleep)
  sessions,  \* session id -> session object, or None
  obj,       \* the session objects
  perIp,     \* connectionsPerIp
  attempts   \* connectionAttemptsPerIp

vars == <<sock, silent, sessions, obj, perIp, attempts>>

MaxAge == 3
Statuses == {"HOST_CONNECTED", "HOST_DISCONNECTED", "CLIENT_CONNECTED", "CLIENT_DISCONNECTED"}

\* "told" is the last RELAY_STATUS sent to the socket.
Socket == [state : {"unused", "open", "closing", "closed"},
           role : {"host", "client", "none"},
           ip : Ips \cup {None},
           session : Sockets \cup {None},
           counted : BOOLEAN,
           isAlive : BOOLEAN,
           told : Statuses \cup {"nothing"}]

Session == [host : Sockets \cup {None}, client : Sockets \cup {None}, age : 0..MaxAge]

Unused == [state |-> "unused", role |-> "none", ip |-> None, session |-> None,
           counted |-> FALSE, isAlive |-> TRUE, told |-> "nothing"]

NewSession == [host |-> None, client |-> None, age |-> 0]

TypeOK ==
  /\ sock \in [Sockets -> Socket]
  /\ silent \subseteq Sockets
  /\ sessions \in [SessionIds -> Sockets \cup {None}]
  /\ obj \in [Sockets -> Session]
  /\ perIp \in [Ips -> 0..MaxConnectionsPerIp]
  /\ attempts \in [Ips -> 0..MaxNewConnections]

Init ==
  /\ sock = [s \in Sockets |-> Unused]
  /\ silent = {}
  /\ sessions = [id \in SessionIds |-> None]
  /\ obj = [s \in Sockets |-> NewSession]
  /\ perIp = [ip \in Ips |-> 0]
  /\ attempts = [ip \in Ips |-> 0]

-----------------------------------------------------------------------------
IsOpen(s) == s # None /\ sock[s].state = "open"

\* A socket the server has not yet seen close: a member of wss.clients.
Connected(s) == sock[s].state \in {"open", "closing"}

ActiveHostSessions ==
  {id \in SessionIds : sessions[id] # None /\ IsOpen(obj[sessions[id]].host)}

\* Mutant: each limit is off by one.
BugWithinLimits(ip) ==
  /\ Cardinality(ActiveHostSessions) < MaxGlobalSessions
  /\ perIp[ip] <= MaxConnectionsPerIp
  /\ attempts[ip] <= MaxNewConnections

WithinLimits(ip) ==
  /\ Cardinality(ActiveHostSessions) < MaxGlobalSessions
  /\ perIp[ip] < MaxConnectionsPerIp
  /\ attempts[ip] < MaxNewConnections

CountConnection(ip) ==
  /\ perIp' = [perIp EXCEPT ![ip] = @ + 1]
  /\ attempts' = [attempts EXCEPT ![ip] = @ + 1]

\* The sockets once a status was sent to one of them, if it is open.
Tell(socks, s, status) ==
  IF s # None /\ socks[s].state = "open" THEN [socks EXCEPT ![s].told = status] ELSE socks

\* The sockets once the server closed one of them, if it was open.
CloseOld(socks, s) ==
  IF s # None /\ socks[s].state = "open" THEN [socks EXCEPT ![s].state = "closing"] ELSE socks

NewSocket(ip, role, o, state, counted) ==
  [Unused EXCEPT !.state = state, !.role = role, !.ip = ip, !.session = o, !.counted = counted]

\* Over a rate limit: closed, and never counted.
RefuseConnection(s, ip) ==
  /\ sock[s].state = "unused"
  /\ ~WithinLimits(ip)
  /\ sock' = [sock EXCEPT ![s] = NewSocket(ip, "none", None, "closing", FALSE)]
  /\ UNCHANGED <<silent, sessions, obj, perIp, attempts>>

\* Mutant: "counted" is set only once the parameters are known to be good.
BugRejectConnection(s, ip) ==
  /\ sock[s].state = "unused"
  /\ WithinLimits(ip)
  /\ CountConnection(ip)
  /\ sock' = [sock EXCEPT ![s] = NewSocket(ip, "none", None, "closing", FALSE)]
  /\ UNCHANGED <<silent, sessions, obj>>

\* Within the limits but malformed, or a client of a session nobody hosts:
\* closed, but counted until its close event.
RejectConnection(s, ip) ==
  /\ sock[s].state = "unused"
  /\ WithinLimits(ip)
  /\ CountConnection(ip)
  /\ sock' = [sock EXCEPT ![s] = NewSocket(ip, "none", None, "closing", TRUE)]
  /\ UNCHANGED <<silent, sessions, obj>>

\* Mutant: a waiting client is not told that the host is back.
BugHostConnects(s, ip, id) ==
  /\ sock[s].state = "unused"
  /\ WithinLimits(ip)
  /\ CountConnection(ip)
  /\ LET o == IF sessions[id] = None THEN s ELSE sessions[id] IN
     /\ sessions' = [sessions EXCEPT ![id] = o]
     /\ obj' = [obj EXCEPT ![o].host = s]
     /\ sock' = [CloseOld(sock, obj[o].host) EXCEPT ![s] = NewSocket(ip, "host", o, "open", TRUE)]
  /\ UNCHANGED silent

\* A host connects.  Neither path touches lastActive of an existing session,
\* and the new host is not told of a client that is already waiting.
HostConnects(s, ip, id) ==
  /\ sock[s].state = "unused"
  /\ WithinLimits(ip)
  /\ CountConnection(ip)
  /\ LET o == IF sessions[id] = None THEN s ELSE sessions[id]
         joined == [CloseOld(sock, obj[o].host)
                      EXCEPT ![s] = NewSocket(ip, "host", o, "open", TRUE)]
     IN  /\ sessions' = [sessions EXCEPT ![id] = o]
         /\ obj' = [obj EXCEPT ![o].host = s]
         /\ sock' = Tell(joined, obj[o].client, "HOST_CONNECTED")
  /\ UNCHANGED silent

ClientConnects(s, ip, id) ==
  /\ sock[s].state = "unused"
  /\ WithinLimits(ip)
  /\ sessions[id] # None
  /\ CountConnection(ip)
  /\ LET o == sessions[id]
         joined == [CloseOld(sock, obj[o].client)
                      EXCEPT ![s] = NewSocket(ip, "client", o, "open", TRUE)]
     IN  /\ obj' = [obj EXCEPT ![o].client = s]
         /\ sock' = IF IsOpen(obj[o].host)
                      THEN Tell(Tell(joined, s, "HOST_CONNECTED"), obj[o].host, "CLIENT_CONNECTED")
                      ELSE joined
  /\ UNCHANGED <<silent, sessions>>

-----------------------------------------------------------------------------
\* The socket's session was active just now.
Touch(s) == obj' = [obj EXCEPT ![sock[s].session].age = 0]

Pong(s) ==
  /\ Connected(s) /\ s \notin silent
  /\ sock[s].session # None /\ ~sock[s].isAlive
  /\ sock' = [sock EXCEPT ![s].isAlive = TRUE]
  /\ Touch(s)
  /\ UNCHANGED <<silent, sessions, perIp, attempts>>

\* A frame the caps allow; it goes to the open socket in the other slot, if any.
Message(s) ==
  /\ Connected(s) /\ s \notin silent
  /\ sock[s].session # None
  /\ Touch(s)
  /\ UNCHANGED <<sock, silent, sessions, perIp, attempts>>

\* A frame beyond the caps of the connection or of the address.
MessageOverCap(s) ==
  /\ Connected(s) /\ s \notin silent
  /\ sock[s].session # None
  /\ Touch(s)
  /\ sock' = CloseOld(sock, s)
  /\ UNCHANGED <<silent, sessions, perIp, attempts>>

PeerCloses(s) ==
  /\ IsOpen(s) /\ s \notin silent
  /\ sock' = [sock EXCEPT ![s].state = "closing"]
  /\ UNCHANGED <<silent, sessions, obj, perIp, attempts>>

PeerGoesSilent(s) ==
  /\ IsOpen(s) /\ s \notin silent
  /\ silent' = silent \cup {s}
  /\ UNCHANGED <<sock, sessions, obj, perIp, attempts>>

\* A frame the library cannot accept (malformed, or over maxPayload).  Its
\* socket emits "error", for which server.ts has no listener, so the process
\* ends: every connection is gone, and the server started next knows of none.
ProcessEnds ==
  /\ \E s \in Sockets : Connected(s) /\ s \notin silent
  /\ sock' = [s \in Sockets |-> IF Connected(s) THEN [Unused EXCEPT !.state = "closed"]
                                ELSE sock[s]]
  /\ silent' = {}
  /\ sessions' = [id \in SessionIds |-> None]
  /\ obj' = [s \in Sockets |-> NewSession]
  /\ perIp' = [ip \in Ips |-> 0]
  /\ attempts' = [ip \in Ips |-> 0]

\* Mutant: only a host's close empties its slot.
BugVacate(o, role) == IF role = "host" THEN [obj EXCEPT ![o].host = None] ELSE obj

\* The session object after the close event of a socket: its role's slot is
\* emptied whoever occupies it by then.
Vacate(o, role) ==
  IF role = "host" THEN [obj EXCEPT ![o].host = None] ELSE [obj EXCEPT ![o].client = None]

Decrement(n) == IF n <= 1 THEN 0 ELSE n - 1

\* Both close listeners: the count, then the slot and the other side's status.
\* Nothing reads a closed socket again.
CloseEvent(s) ==
  LET closed == [sock EXCEPT ![s] = [Unused EXCEPT !.state = "closed"]]
      o == sock[s].session
  IN
  /\ sock[s].state = "closing"
  /\ perIp' = IF sock[s].counted THEN [perIp EXCEPT ![sock[s].ip] = Decrement(@)] ELSE perIp
  /\ obj' = IF o = None THEN obj ELSE Vacate(o, sock[s].role)
  /\ sock' = IF o = None THEN closed
             ELSE IF sock[s].role = "host" THEN Tell(closed, obj[o].client, "HOST_DISCONNECTED")
             ELSE Tell(closed, obj[o].host, "CLIENT_DISCONNECTED")
  /\ silent' = silent \ {s}
  /\ UNCHANGED <<sessions, attempts>>

-----------------------------------------------------------------------------
\* Mutant: the ping does not reset isAlive.
BugHeartbeat(k) ==
  IF k.state \notin {"open", "closing"} \/ k.isAlive THEN k ELSE [k EXCEPT !.state = "closing"]

\* A socket that answered no ping since the last tick is terminated, the
\* others are pinged.
Heartbeat(k) ==
  IF k.state \notin {"open", "closing"} THEN k
  ELSE IF k.isAlive THEN [k EXCEPT !.isAlive = FALSE]
  ELSE [k EXCEPT !.state = "closing"]

Expired(o) == o # None /\ obj[o].host = None /\ obj[o].client = None /\ obj[o].age + 1 >= MaxAge

\* Only the age of a session in the map is ever read; a new one starts at 0.
Older(o) ==
  IF \E id \in SessionIds : sessions[id] = o /\ ~Expired(o) /\ obj[o].age < MaxAge
    THEN [obj[o] EXCEPT !.age = @ + 1] ELSE obj[o]

Tick ==
  /\ sock' = [s \in Sockets |-> Heartbeat(sock[s])]
  /\ obj' = [o \in Sockets |-> Older(o)]
  /\ sessions' = [id \in SessionIds |-> IF Expired(sessions[id]) THEN None ELSE sessions[id]]
  /\ UNCHANGED <<silent, perIp, attempts>>

\* The minute's cleanup is what ends an address's window.
AttemptsExpire(ip) ==
  /\ attempts[ip] # 0
  /\ attempts' = [attempts EXCEPT ![ip] = 0]
  /\ UNCHANGED <<sock, silent, sessions, obj, perIp>>

Connection(s, ip) ==
  \/ RefuseConnection(s, ip)
  \/ RejectConnection(s, ip)
  \/ \E id \in SessionIds : HostConnects(s, ip, id) \/ ClientConnects(s, ip, id)

Next ==
  \/ \E s \in Sockets :
       \/ \E ip \in Ips : Connection(s, ip)
       \/ Pong(s) \/ Message(s) \/ MessageOverCap(s)
       \/ PeerCloses(s) \/ PeerGoesSilent(s) \/ CloseEvent(s)
  \/ Tick \/ ProcessEnds
  \/ \E ip \in Ips : AttemptsExpire(ip)

Spec == Init /\ [][Next]_vars

\* The intervals keep firing, and a socket being closed is closed in the end
\* (the peer answers, or the library's own close timer destroys it).
FairSpec == Spec /\ WF_vars(Tick) /\ \A s \in Sockets : WF_vars(CloseEvent(s))

-----------------------------------------------------------------------------
\* The accepted connections of an address the server has not yet seen close.
Counted(ip) == {s \in Sockets : Connected(s) /\ sock[s].counted /\ sock[s].ip = ip}

\* connectionsPerIp is exactly the number of accepted connections of the
\* address the server has not yet seen close, however they were refused,
\* replaced, terminated or closed.  A missed decrement would lock an address out.
CountsExact == \A ip \in Ips : perIp[ip] = Cardinality(Counted(ip))

\* A slot names a socket of this session, in this role, that is not closed: a
\* frame is never sent to a stranger, and no slot stays taken by a dead socket.
SlotsLive ==
  \A o \in Sockets :
    /\ obj[o].host # None =>
         /\ Connected(obj[o].host)
         /\ sock[obj[o].host].role = "host" /\ sock[obj[o].host].session = o
    /\ obj[o].client # None =>
         /\ Connected(obj[o].client)
         /\ sock[obj[o].client].role = "client" /\ sock[obj[o].client].session = o

\* What the socket in a slot was last told of the other side is what the
\* session holds: never a connected host that is not there, nor a
\* disconnected one that is, nor an open host a client was not told of.
StatusTruthful ==
  \A o \in Sockets :
    /\ IsOpen(obj[o].client) =>
         LET told == sock[obj[o].client].told IN
         /\ told = "HOST_CONNECTED" => obj[o].host # None
         /\ told = "HOST_DISCONNECTED" => obj[o].host = None
         /\ IsOpen(obj[o].host) => told = "HOST_CONNECTED"
    /\ IsOpen(obj[o].host) =>
         LET told == sock[obj[o].host].told IN
         /\ told = "CLIENT_CONNECTED" => obj[o].client # None
         /\ told = "CLIENT_DISCONNECTED" => obj[o].client = None

\* "Pings all connections every 30s. Terminates if no pong in 60s": every
\* connection whose peer went silent is closed, and no closed one keeps a slot.
\* (A socket is used once and peers do not come back, so that none is left is
\* the same as that each of them goes.)
SilentPeersGo ==
  (\E s \in Sockets : s \in silent)
    ~> \A s \in Sockets :
         /\ s \notin silent
         /\ sock[s].state = "closed" => \A o \in Sockets : s \notin {obj[o].host, obj[o].client}

\* A session in the map none of whose sockets is left.
Abandoned(id) ==
  sessions[id] # None /\ \A s \in Sockets : sock[s].session # sessions[id]

\* "Remove empty sessions after 1 minute of inactivity": a session all of
\* whose sockets are closed leaves the map, unless a new socket joins it.
EmptySessionsGo == \A id \in SessionIds : Abandoned(id) ~> ~Abandoned(id)

\* "Simply forwards messages: Host -> Relay -> Client, Client -> Relay -> Host":
\* while a host of a session is connected, a client's frames have an open host
\* to go to.
HostReachable ==
  \A s \in Sockets :
    IsOpen(s) /\ sock[s].role = "host" => IsOpen(obj[sock[s].session].host)
=============================================================================
