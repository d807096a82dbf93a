-------------------------------- MODULE Wire --------------------------------
(***************************************************************************)
(* The daemon's socket, its clients and the tables they render            *)
(* (runtime/ipc.go, runtime/proto_bridge.go, proto/client.go, tui/).       *)
(*                                                                         *)
(* A connection is two pipes.  Commands go up: socket, reader goroutine,   *)
(* event channel, loop.  Answers and broadcasts go down: bounded outbox,   *)
(* writer goroutine, socket, the client's reader.  Connections are opened  *)
(* and closed through a channel of their own, and the loop takes from the  *)
(* two channels in any order.  The session table is its version: what      *)
(* matters is which of two tables is the newer.                            *)
(***************************************************************************)
EXTENDS Naturals, Sequences, FiniteSets, SequencesExt

CONSTANTS
    Tuis,         \* clients that subscribe and render the table
    Callers,      \* clients that only send commands: palette, hook bridge
    Kinds,        \* the commands callers send
    OutboxSize,   \* ipcOutboxSize
    SocketSize,   \* messages the kernel buffers of one connection
    EventsSize,   \* the client's events channel
    QueueSize,    \* the event channel and the internal channel
    MaxRequests,  \* bound: commands one caller sends
    MaxVersion    \* bound: versions of the table

ASSUME WireAssumption ==
    /\ Tuis \cap Callers = {}
    /\ Kinds \subseteq {"subscribe", "unsubscribe", "list", "read", "change", "shutdown", "bad"}
    /\ {OutboxSize, SocketSize, EventsSize, QueueSize, MaxVersion} \subseteq Nat \ {0}
    /\ MaxRequests \in Nat

VARIABLES
    server,    \* the loop: subscribers, table, the answer it is writing, its end
    internal,  \* internalCh
    commands,  \* the commands in eventCh
    conn,      \* per connection: pipes, goroutines, what full queues dropped
    client,    \* per client: requests and their outcomes, events channel
    tui        \* per client: goroutines between the events channel and the view

vars == <<server, internal, commands, conn, client, tui>>

Conns == Tuis \cup Callers
Idle == [c |-> "nobody", id |-> 0, kind |-> "none"]

\* A message on the way down.  An answer carries the id of its request and a
\* broadcast 0; table is 0 in a message without one.
Message(id, table) == [id |-> id, table |-> table]

\* A command as the loop sees it, and what the decoder knows.
Command(c, r) == [c |-> c, id |-> r.id, kind |-> r.kind]
Decodes(r) == r.kind # "bad"

\* How Send returned: with the decoded answer, with the write's error, with the
\* context's, or woken by Close: with the client-closed error or, if the closed
\* channel of the request is seen first, with neither answer nor error.
Outcomes == {"pending", "answered", "failed", "timeout", "woken"}

Pending(c) == {id \in DOMAIN client[c].outcome : client[c].outcome[id] = "pending"}
Gone(c) == client[c].phase = "gone"
Open == {c \in Conns : conn[c].is = "open"}

-----------------------------------------------------------------------------
(* Channels and outboxes: a send never blocks, a full queue drops *)

Full(q) == Len(q) = QueueSize
Posted(q, v) == IF Full(q) THEN q ELSE Append(q, v)

\* Every effect of a dispatch that writes is a message and whom it is for.
To(cs, msg) == [to |-> cs, msg |-> msg]

\* queueWire: a full outbox loses the message.
Queued(cn, msg) ==
    IF Len(cn.outbox) < OutboxSize
    THEN [cn EXCEPT !.outbox = Append(@, msg)]
    ELSE [cn EXCEPT !.missed = @ \cup {msg.id}]

\* The answer is for its connection alone, if the loop still has it.
Reply(c, id, table) == To({c} \cap Open, Message(id, table))

\* Mutant: the table is built before the state is replaced.
BroadcastSessionsChanged_Early(subs, version) == To(subs \cap Open, Message(0, server.version))

\* The table of the moment goes to each subscriber that still has a connection.
BroadcastSessionsChanged(subs, version) == To(subs \cap Open, Message(0, version))

Delivered(cn, c, e) == IF c \in e.to THEN Queued(cn, e.msg) ELSE cn

\* Effects are executed one after the other; a command has two at most.
Execute(e) == conn' = [c \in Conns |-> Delivered(conn[c], c, e)]
ExecuteBoth(e, f) == conn' = [c \in Conns |-> Delivered(Delivered(conn[c], c, e), c, f)]

\* shut: the socket is closed, what the outbox still held is lost.
Shut(cn) == [cn EXCEPT !.is = "shut", !.up = <<>>, !.outbox = <<>>,
                       !.reading = FALSE, !.writing = FALSE]

-----------------------------------------------------------------------------
(* The daemon *)

Init ==
    /\ server = [subscribers |-> {}, version |-> 1, busy |-> Idle,
                 stopping |-> {}, stopped |-> FALSE]
    /\ internal = <<>> /\ commands = <<>>
    /\ conn = [c \in Conns |-> [is |-> "none", up |-> <<>>, outbox |-> <<>>, down |-> <<>>,
                                reading |-> FALSE, writing |-> FALSE, missed |-> {}]]
    /\ client = [c \in Conns |-> [phase |-> "none", sent |-> <<>>, outcome |-> <<>>,
                                  events |-> <<>>, ended |-> FALSE]]
    /\ tui = [c \in Conns |-> [listeners |-> 0, holding |-> <<>>, view |-> 0]]

\* acceptLoop posts the connection; a full channel leaves it with nobody.
Accept(c) ==
    /\ conn[c].is = "dialled" /\ ~server.stopped
    /\ internal' = Posted(internal, [k |-> "open", c |-> c])
    /\ conn' = [conn EXCEPT ![c].is = IF Full(internal) THEN "dropped" ELSE "posted"]
    /\ UNCHANGED <<server, commands, client, tui>>

LoopReady == ~server.stopped /\ server.busy = Idle

\* The loop takes an opened connection and starts its two goroutines.
HandleConnOpen ==
    /\ LoopReady /\ internal # <<>> /\ Head(internal).k = "open"
    /\ internal' = Tail(internal)
    /\ LET c == Head(internal).c
       IN  conn' = [conn EXCEPT ![c].is = "open", ![c].reading = TRUE, ![c].writing = TRUE]
    /\ UNCHANGED <<server, commands, client, tui>>

\* The loop takes a closed one: shut, forget, unsubscribe.
HandleConnClose ==
    /\ LoopReady /\ internal # <<>> /\ Head(internal).k = "close"
    /\ internal' = Tail(internal)
    /\ LET c == Head(internal).c
       IN  /\ conn' = [conn EXCEPT ![c] = Shut(@)]
           /\ server' = [server EXCEPT !.subscribers = @ \ {c}]
    /\ UNCHANGED <<commands, client, tui>>

\* Mutant: a command that cannot be decoded is skipped.
Read_Silent(c) ==
    /\ conn[c].is = "open" /\ conn[c].reading /\ conn[c].up # <<>> /\ ~server.stopped
    /\ LET r == Head(conn[c].up)
       IN  /\ commands' = IF Decodes(r) THEN Posted(commands, Command(c, r)) ELSE commands
           /\ conn' = [conn EXCEPT
                  ![c].up = Tail(@),
                  ![c].missed = IF Decodes(r) /\ Full(commands)
                                THEN @ \cup {r.id} ELSE @]
    /\ UNCHANGED <<server, internal, client, tui>>

\* connReader takes one command: to the loop, or back at once when it cannot
\* be decoded.
Read(c) ==
    /\ conn[c].is = "open" /\ conn[c].reading /\ conn[c].up # <<>> /\ ~server.stopped
    /\ LET r == Head(conn[c].up)
           rest == [conn[c] EXCEPT !.up = Tail(@)]
       IN  IF ~Decodes(r)
           THEN /\ conn' = [conn EXCEPT ![c] = Queued(rest, Message(r.id, 0))]
                /\ UNCHANGED commands
           ELSE /\ commands' = Posted(commands, Command(c, r))
                /\ conn' = [conn EXCEPT ![c] =
                       IF Full(commands) THEN [rest EXCEPT !.missed = @ \cup {r.id}] ELSE rest]
    /\ UNCHANGED <<server, internal, client, tui>>

\* connReader at the end of its input.
ReadEnds(c) ==
    /\ conn[c].is = "open" /\ conn[c].reading /\ conn[c].up = <<>> /\ Gone(c)
    /\ ~server.stopped
    /\ internal' = Posted(internal, [k |-> "close", c |-> c])
    /\ conn' = [conn EXCEPT ![c].reading = FALSE]
    /\ UNCHANGED <<server, commands, client, tui>>

\* Mutant: the writer takes the newest message first.
Write_Newest(c) ==
    /\ conn[c].is = "open" /\ conn[c].writing /\ conn[c].outbox # <<>>
    /\ ~Gone(c) /\ Len(conn[c].down) < SocketSize
    /\ conn' = [conn EXCEPT ![c].outbox = Front(@),
                             ![c].down = Append(@, Last(conn[c].outbox))]
    /\ UNCHANGED <<server, internal, commands, client, tui>>

\* Mutant: the writer ends after its first message.
Write_Once(c) ==
    /\ conn[c].is = "open" /\ conn[c].writing /\ conn[c].outbox # <<>>
    /\ ~Gone(c) /\ Len(conn[c].down) < SocketSize
    /\ conn' = [conn EXCEPT ![c].outbox = Tail(@), ![c].writing = FALSE,
                             ![c].down = Append(@, Head(conn[c].outbox))]
    /\ UNCHANGED <<server, internal, commands, client, tui>>

\* connWriter moves one message to the socket, or ends on a broken one.
Write(c) ==
    /\ conn[c].is = "open" /\ conn[c].writing /\ conn[c].outbox # <<>>
    /\ \/ /\ ~Gone(c) /\ Len(conn[c].down) < SocketSize
          /\ conn' = [conn EXCEPT ![c].outbox = Tail(@),
                                   ![c].down = Append(@, Head(conn[c].outbox))]
       \/ /\ Gone(c)
          /\ conn' = [conn EXCEPT ![c].outbox = Tail(@), ![c].writing = FALSE]
    /\ UNCHANGED <<server, internal, commands, client, tui>>

-----------------------------------------------------------------------------
(* Commands, in the loop.  A synchronous answer leaves the loop busy until *)
(* the socket takes it.                                                    *)

Take(kinds) ==
    /\ LoopReady /\ commands # <<>> /\ Head(commands).kind \in kinds
    /\ commands' = Tail(commands)

Subscribe ==
    /\ Take({"subscribe"})
    /\ LET r == Head(commands)
           subs == server.subscribers \cup {r.c}
       IN  /\ server' = [server EXCEPT !.subscribers = subs]
           /\ ExecuteBoth(Reply(r.c, r.id, 0), BroadcastSessionsChanged(subs, server.version))
    /\ UNCHANGED <<internal, client, tui>>

Unsubscribe ==
    /\ Take({"unsubscribe"})
    /\ LET r == Head(commands)
       IN  /\ server' = [server EXCEPT !.subscribers = @ \ {r.c}]
           /\ Execute(Reply(r.c, r.id, 0))
    /\ UNCHANGED <<internal, client, tui>>

ListSessions ==
    /\ Take({"list"})
    /\ LET r == Head(commands) IN Execute(Reply(r.c, r.id, server.version))
    /\ UNCHANGED <<server, internal, client, tui>>

\* A driver hook: the driver's step changes what is shown.
DriverHook ==
    /\ Take({"change"})
    /\ LET r == Head(commands)
           v == IF server.version < MaxVersion THEN server.version + 1 ELSE MaxVersion
       IN  /\ server' = [server EXCEPT !.version = v]
           /\ ExecuteBoth(BroadcastSessionsChanged(server.subscribers, v), Reply(r.c, r.id, 0))
    /\ UNCHANGED <<internal, client, tui>>

\* surface.read_text and shutdown answer through writeWire.
StartSyncResponse ==
    /\ Take({"read", "shutdown"})
    /\ server' = [server EXCEPT !.busy = Head(commands)]
    /\ UNCHANGED <<internal, conn, client, tui>>

\* Mutant: the answer is queued like any other.
SendResponseSync_Queued ==
    /\ server.busy # Idle /\ ~server.stopped
    /\ LET r == server.busy
       IN  /\ Execute(Reply(r.c, r.id, 0))
           /\ server' = [server EXCEPT !.busy = Idle,
                                       !.stopping = IF r.kind = "shutdown"
                                                    THEN @ \cup {<<r.c, r.id>>} ELSE @]
    /\ UNCHANGED <<internal, commands, client, tui>>

SendResponseSync ==
    /\ server.busy # Idle /\ ~server.stopped
    /\ LET r == server.busy
       IN  /\ \/ /\ r.c \in Open /\ ~Gone(r.c) /\ Len(conn[r.c].down) < SocketSize
                 /\ conn' = [conn EXCEPT ![r.c].down = Append(@, Message(r.id, 0))]
              \/ /\ r.c \notin Open \/ Gone(r.c)
                 /\ UNCHANGED conn
           /\ server' = [server EXCEPT !.busy = Idle,
                                       !.stopping = IF r.kind = "shutdown"
                                                    THEN @ \cup {<<r.c, r.id>>} ELSE @]
    /\ UNCHANGED <<internal, commands, client, tui>>

\* A tick or a result changes what is shown.
Change ==
    /\ LoopReady /\ server.version < MaxVersion
    /\ LET v == server.version + 1
       IN  /\ server' = [server EXCEPT !.version = v]
           /\ Execute(BroadcastSessionsChanged(server.subscribers, v))
    /\ UNCHANGED <<internal, commands, client, tui>>

\* The loop ends some time after the session was killed: every connection is
\* shut, what its outbox still held with it.
Stop ==
    /\ LoopReady /\ server.stopping # {}
    /\ server' = [server EXCEPT !.stopped = TRUE]
    /\ conn' = [c \in Conns |-> IF conn[c].is = "none" THEN conn[c] ELSE Shut(conn[c])]
    /\ internal' = <<>> /\ commands' = <<>>
    /\ UNCHANGED <<client, tui>>

-----------------------------------------------------------------------------
(* The client *)

\* Send: a fresh id, a channel in pending, the frame on the socket.
Send(c, kind, phase) ==
    LET broken == conn[c].is = "shut"
        frame == [id |-> Len(client[c].sent) + 1, kind |-> kind]
    IN
    /\ client' = [client EXCEPT
           ![c].phase = phase, ![c].sent = Append(@, kind),
           ![c].outcome = Append(@, IF broken THEN "failed" ELSE "pending")]
    /\ conn' = [conn EXCEPT
           ![c].is = IF @ = "none" THEN "dialled" ELSE @,
           ![c].up = IF broken THEN @ ELSE Append(@, frame)]
    /\ UNCHANGED <<server, internal, commands>>

\* tuiBootstrap: dial, and wait for the answer to the subscription.
Bootstrap(c) ==
    /\ c \in Tuis /\ client[c].phase = "none" /\ ~server.stopped
    /\ Send(c, "subscribe", "joining")
    /\ UNCHANGED tui

\* The program starts: Init asks for the table and listens for one event.
Start(c) ==
    /\ client[c].phase = "joining" /\ Pending(c) = {}
    /\ Send(c, "list", "running")
    /\ tui' = [tui EXCEPT ![c].listeners = 1]

\* A caller dials and sends what it likes, one request at a time or several.
Call(c) ==
    /\ c \in Callers /\ client[c].phase \in {"none", "running"} /\ ~server.stopped
    /\ Len(client[c].sent) < MaxRequests
    /\ \E kind \in Kinds : Send(c, kind, "running")
    /\ UNCHANGED tui

\* The reader goroutine.  A broadcast goes to the events channel if that has room.
DispatchEvent(c, msg) ==
    LET full == Len(client[c].events) = EventsSize
    IN
    /\ client' = [client EXCEPT ![c].events = IF full THEN @ ELSE Append(@, msg.table)]
    /\ conn' = [conn EXCEPT ![c].down = Tail(@),
                             ![c].missed = IF full THEN @ \cup {0} ELSE @]
    /\ UNCHANGED tui

\* An answer goes to the request of its id if that still waits; the table of a
\* program's requestSessions is then held by that goroutine.
DispatchResponse(c, msg) ==
    /\ conn' = [conn EXCEPT ![c].down = Tail(@)]
    /\ IF msg.id \in Pending(c)
       THEN /\ client' = [client EXCEPT ![c].outcome[msg.id] = "answered"]
            /\ tui' = IF c \in Tuis /\ msg.table # 0
                      THEN [tui EXCEPT ![c].holding = Append(@, msg.table)] ELSE tui
       ELSE UNCHANGED <<client, tui>>

Receive(c) ==
    /\ conn[c].down # <<>> /\ ~Gone(c)
    /\ LET msg == Head(conn[c].down)
       IN  \/ msg.id = 0 /\ DispatchEvent(c, msg)
           \/ msg.id # 0 /\ DispatchResponse(c, msg)
    /\ UNCHANGED <<server, internal, commands>>

\* The reader goroutine at the end of the socket: it closes the events channel
\* and leaves the waiters to their deadline.
ReceiveEnds(c) ==
    /\ conn[c].is = "shut" /\ conn[c].down = <<>> /\ ~Gone(c) /\ ~client[c].ended
    /\ client' = [client EXCEPT ![c].ended = TRUE]
    /\ UNCHANGED <<server, internal, commands, conn, tui>>

\* Send's deadline.
Timeout(c) ==
    /\ ~Gone(c)
    /\ \E id \in Pending(c) : client' = [client EXCEPT ![c].outcome[id] = "timeout"]
    /\ UNCHANGED <<server, internal, commands, conn, tui>>

\* Close wakes every waiter.
Close(c) ==
    /\ client[c].phase \in {"joining", "running"}
    /\ client' = [client EXCEPT
           ![c].phase = "gone", ![c].events = <<>>,
           ![c].outcome = [id \in DOMAIN @ |-> IF id \in Pending(c) THEN "woken" ELSE @[id]]]
    /\ tui' = [tui EXCEPT ![c].listeners = 0, ![c].holding = <<>>]
    /\ conn' = [conn EXCEPT ![c].down = <<>>]
    /\ UNCHANGED <<server, internal, commands>>

-----------------------------------------------------------------------------
(* The program: goroutines that wait for one event each, and a model that   *)
(* starts another with every event it handles.                              *)

\* listenEvents takes an event; the answer to requestSessions is held by a
\* goroutine of its own (Receive).
Listen(c) ==
    /\ tui[c].listeners > 0 /\ client[c].events # <<>>
    /\ tui' = [tui EXCEPT ![c].listeners = @ - 1,
                           ![c].holding = Append(@, Head(client[c].events))]
    /\ client' = [client EXCEPT ![c].events = Tail(@)]
    /\ UNCHANGED <<server, internal, commands, conn>>

\* handleServerEvent: the table is replaced by the message's, and the model
\* listens again.
HandleServerEvent(c) ==
    /\ \E i \in DOMAIN tui[c].holding :
         tui' = [tui EXCEPT ![c] = [listeners |-> @.listeners + 1, view |-> @.holding[i],
                                    holding |-> RemoveAt(@.holding, i)]]
    /\ UNCHANGED <<server, internal, commands, conn, client>>

\* A listener that finds the channel closed ends the program.
Disconnect(c) == tui[c].listeners > 0 /\ client[c].ended /\ client[c].events = <<>> /\ Close(c)

-----------------------------------------------------------------------------
Loop ==
    \/ HandleConnOpen \/ HandleConnClose
    \/ Subscribe \/ Unsubscribe \/ ListSessions \/ DriverHook
    \/ StartSyncResponse \/ SendResponseSync

Connection(c) == Accept(c) \/ Read(c) \/ ReadEnds(c) \/ Write(c)
Program(c) == Start(c) \/ Receive(c) \/ ReceiveEnds(c) \/ Listen(c) \/ HandleServerEvent(c)

Next ==
    \/ Loop \/ Change \/ Stop
    \/ \E c \in Conns :
         \/ Connection(c) \/ Program(c)
         \/ Bootstrap(c) \/ Call(c) \/ Timeout(c) \/ Close(c) \/ Disconnect(c)

Spec == Init /\ [][Next]_vars

\* The loop, the goroutines of each connection and those of each client run.
\* Deadlines, exits, changes and new commands need never come.
Fairness ==
    /\ WF_vars(Loop)
    /\ \A c \in Conns : WF_vars(Connection(c)) /\ WF_vars(Program(c))

FairSpec == Spec /\ Fairness

-----------------------------------------------------------------------------
(* Properties *)

\* The tables in a queue of messages.
TablesOf(q) ==
    LET tables[n \in 0 .. Len(q)] ==
            IF n = 0 THEN <<>>
            ELSE IF q[n].table # 0 THEN Append(tables[n - 1], q[n].table) ELSE tables[n - 1]
    IN  tables[Len(q)]

Tables(c) == client[c].events \o TablesOf(conn[c].down \o conn[c].outbox)

Feeds == INSTANCE Board WITH
    Clients <- Conns, version <- server.version, feed <- [c \in Conns |-> Tables(c)]

\* Outboxes, writers, sockets and client readers implement the board: answers and
\* broadcasts leave in the loop's order, a full queue only ever loses, and no
\* handler sends a table of the past (queueWire, connWriter, dispatch, read).
ImplementsBoard == Feeds!Spec

\* So the tables on their way to one client are ever newer, and none is newer
\* than the daemon's.
TablesInOrder == Feeds!InOrder

\* How often a queue has the request id, or what answers it; and, of the loop's,
\* that of client c.
Carried(q, id) == Cardinality({i \in DOMAIN q : q[i].id = id})
Asked(q, c, id) == Cardinality({i \in DOMAIN q : q[i].c = c /\ q[i].id = id})
InHand(c, id) == IF server.busy.c = c /\ server.busy.id = id THEN 1 ELSE 0

\* A request that still waits is in exactly one place, with the reader, in the
\* event channel, in the loop's hands or on the way back, unless a full queue
\* dropped it: none is forgotten by a handler and none is answered twice.
RequestsAccounted ==
    \A c \in Conns : \A id \in Pending(c) :
        conn[c].is \in {"dialled", "posted", "open"} /\ id \notin conn[c].missed =>
            Carried(conn[c].up, id) + Asked(commands, c, id) + InHand(c, id)
              + Carried(conn[c].outbox, id) + Carried(conn[c].down, id) = 1

\* Who asked for the shutdown finds the answer on the socket, although every
\* connection is shut when the loop ends and the outboxes are lost: that is what
\* the synchronous response of reduceShutdown is for.
ShutdownAnswered ==
    server.stopped =>
        \A p \in server.stopping :
            p[2] \in Pending(p[1]) => \E i \in DOMAIN conn[p[1]].down : conn[p[1]].down[i].id = p[2]

\* Requests do not go on waiting: whoever sends no more ends with none pending,
\* deadlines aside, unless a full queue dropped one or the daemon was told to
\* end: no chain of loop, reader and writer waits on itself (Run, connReader,
\* connWriter, sendResponseSync).
Answered ==
    \A c \in Conns :
        []<>(Pending(c) \subseteq conn[c].missed \/ conn[c].is = "dropped" \/ server.stopping # {})

=============================================================================
