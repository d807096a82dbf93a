----------------------------- MODULE WireProofs -----------------------------
(***************************************************************************)
(* Proofs about module Wire, for any clients, any commands and any bounds. *)
(*                                                                         *)
(* Requests.  Total counts where a request is: in the socket, in the event *)
(* channel, in the hands of the loop, in an outbox, or on the way back.  A *)
(* step moves it from one place to the next, or loses it where the code    *)
(* has an excuse: the client no longer waits, a queue was full, or the     *)
(* connection is shut.  Lives is about the last: which connections may     *)
(* still have a client, a reader or a command in the loop.                 *)
(*                                                                         *)
(* Shutdown.  Who asked for it has the answer in the socket before the     *)
(* loop ends.                                                              *)
(*                                                                         *)
(* The board.  Every step of the loop appends the current version to feeds *)
(* or leaves them; every other step takes a part out of one.  So Wire      *)
(* implements Board, whose feeds are in order because only the newest      *)
(* version is ever added to one.                                           *)
(***************************************************************************)
EXTENDS Wire, Lists

-----------------------------------------------------------------------------
(* The tables of a queue *)

\* A broadcast, which has no id, always has a table.
Messages == {m \in [id : Nat, table : Nat] : m.id = 0 => m.table # 0}

\* The function of which TablesOf(q) is the last value.
CollectsTables(f, q) ==
  f = [n \in 0 .. Len(q) |->
         IF n = 0 THEN <<>>
            ELSE IF q[n].table # 0 THEN Append(f[n - 1], q[n].table) ELSE f[n - 1]]

LEMMA TablesCollected ==
    ASSUME NEW q \in Seq(Messages)
    PROVE  \E f \in [0 .. Len(q) -> Seq(Nat)] :
              /\ f[0] = << >>
              /\ \A n \in 1 .. Len(q) : f[n] = IF q[n].table # 0 THEN Append(f[n - 1], q[n].table) ELSE f[n - 1]
              /\ TablesOf(q) = f[Len(q)]
<1> DEFINE N == Len(q)
           V == Seq(Nat)
           step == [x \in (1 .. N) \X V |-> IF q[x[1]].table # 0 THEN Append(x[2], q[x[1]].table) ELSE x[2]]
<1>1. N \in Nat /\ << >> \in V /\ \A n \in 1 .. N : q[n].table \in Nat
  <2>1. \A n \in 1 .. N : q[n] \in Messages
    BY ElementOfSeq
  <2>2. \A m \in Messages : m.table \in Nat
    BY DEF Messages
  <2> QED  BY <2>1, <2>2, LenProperties, EmptySeq
<1>2. step \in [(1 .. N) \X V -> V]
  <2> SUFFICES ASSUME NEW x \in (1 .. N) \X V
               PROVE  (IF q[x[1]].table # 0 THEN Append(x[2], q[x[1]].table) ELSE x[2]) \in V
    OBVIOUS
  <2>1. x[1] \in 1 .. N /\ x[2] \in V
    OBVIOUS
  <2>2. q[x[1]].table \in Nat
    BY <1>1, <2>1
  <2> QED  BY <2>1, <2>2
<1>3. PICK f \in [0 .. N -> V] : Iterates(f, << >>, step, N)
  <2> HIDE DEF V, N, step
  <2> QED  BY <1>1, <1>2, Recursion
<1>4. ASSUME NEW n \in 1 .. N
      PROVE  f[n] = IF q[n].table # 0 THEN Append(f[n - 1], q[n].table) ELSE f[n - 1]
  <2>1. n - 1 \in 0 .. N
    BY <1>1
  <2>2. <<n, f[n - 1]>> \in (1 .. N) \X V /\ <<n, f[n - 1]>>[1] = n /\ <<n, f[n - 1]>>[2] = f[n - 1]
    BY <2>1
  <2>3. f[n] = step[<<n, f[n - 1]>>]
    BY <1>3 DEF Iterates
  <2> QED  BY <2>2, <2>3
<1>5. CollectsTables(f, q)
  <2> DEFINE g == [n \in 0 .. N |-> IF n = 0 THEN <<>>
                      ELSE IF q[n].table # 0 THEN Append(f[n - 1], q[n].table) ELSE f[n - 1]]
  <2>1. ASSUME NEW n \in 0 .. N
        PROVE  g[n] = f[n]
    <3>1. CASE n = 0
      BY <1>3, <3>1 DEF Iterates
    <3>2. CASE n # 0
      <4>1. n \in 1 .. N
        BY <1>1, <3>2
      <4> QED  BY <1>4, <3>2, <4>1
    <3> QED  BY <3>1, <3>2
  <2>2. f = g
    BY <2>1
  <2> QED  BY <2>2 DEF CollectsTables
<1> DEFINE h == CHOOSE h : CollectsTables(h, q)
<1>6. CollectsTables(h, q)
  BY <1>5, Zenon
<1>7. TablesOf(q) = h[N]
  BY DEF TablesOf, CollectsTables
<1>8. h[N] = f[N]
  <2> HIDE DEF h, V
  <2>1. h[0] = f[0]
    BY <1>1, <1>3, <1>6 DEF CollectsTables, Iterates
  <2>2. ASSUME NEW n \in 1 .. N, h[n - 1] = f[n - 1]
        PROVE  h[n] = f[n]
    <3>1. n \in 0 .. N /\ n # 0
      BY <1>1
    <3>2. h[n] = IF q[n].table # 0 THEN Append(h[n - 1], q[n].table) ELSE h[n - 1]
      BY <1>6, <3>1 DEF CollectsTables
    <3> QED  BY <1>4, <2>2, <3>2
  <2>3. \A n \in 0 .. N : h[n] = f[n]
    BY <1>1, <2>1, <2>2, RecursionUnique
  <2> QED  BY <1>1, <2>3
<1> QED  BY <1>3, <1>4, <1>7, <1>8 DEF Iterates

LEMMA NumberAppended ==
    ASSUME NEW q \in Seq(Nat), NEW r \in Seq(Nat), NEW n \in Nat
    PROVE  q \o Append(r, n) = Append(q \o r, n)
BY ConcatAppend

LEMMA TablesType == ASSUME NEW q \in Seq(Messages) PROVE TablesOf(q) \in Seq(Nat)
  BY TablesCollected, LenProperties

LEMMA TablesEmpty == TablesOf(<< >>) = << >>
<1>1. << >> \in Seq(Messages) /\ Len(<< >>) = 0
  BY EmptySeq
<1> QED  BY <1>1, TablesCollected

LEMMA TablesAppend ==
    ASSUME NEW q \in Seq(Messages), NEW m \in Messages
    PROVE  TablesOf(Append(q, m)) = IF m.table # 0 THEN Append(TablesOf(q), m.table) ELSE TablesOf(q)
<1> DEFINE r == Append(q, m)
<1>1. /\ r \in Seq(Messages) /\ Len(r) = Len(q) + 1 /\ Len(q) \in Nat
      /\ \A n \in 1 .. Len(q) : r[n] = q[n]
      /\ r[Len(q) + 1] = m
  BY AppendProperties, LenProperties
<1> HIDE DEF r
<1>2. PICK f : /\ f[0] = << >> /\ TablesOf(q) = f[Len(q)]
               /\ \A n \in 1 .. Len(q) : f[n] = IF q[n].table # 0 THEN Append(f[n - 1], q[n].table) ELSE f[n - 1]
  BY TablesCollected
<1>3. PICK g : /\ g[0] = << >> /\ TablesOf(r) = g[Len(r)]
               /\ \A n \in 1 .. Len(r) : g[n] = IF r[n].table # 0 THEN Append(g[n - 1], r[n].table) ELSE g[n - 1]
  BY <1>1, TablesCollected
<1>4. \A n \in 1 .. Len(q) : f[n - 1] = g[n - 1] => f[n] = g[n]
  BY <1>1, <1>2, <1>3
<1>5. \A n \in 0 .. Len(q) : f[n] = g[n]
  <2>1. f[0] = g[0] /\ Len(q) \in Nat
    BY <1>1, <1>2, <1>3
  <2> QED  BY <1>4, <2>1, RecursionUnique
<1>6. f[Len(q)] = g[Len(q)]
  BY <1>1, <1>5
<1>7. g[Len(q) + 1] = IF m.table # 0 THEN Append(g[Len(q)], m.table) ELSE g[Len(q)]
  BY <1>1, <1>3
<1> QED  BY <1>1, <1>2, <1>3, <1>6, <1>7 DEF r

LEMMA TablesConcat ==
    ASSUME NEW q \in Seq(Messages), NEW s \in Seq(Messages)
    PROVE  TablesOf(q \o s) = TablesOf(q) \o TablesOf(s)
<1> DEFINE P == {r \in Seq(Messages) : TablesOf(q \o r) = TablesOf(q) \o TablesOf(r)}
<1>1. << >> \in P
  <2>1. q \o << >> = q /\ TablesOf(q) \o << >> = TablesOf(q)
    BY TablesType, ConcatEmptySeq
  <2> QED  BY <2>1, TablesEmpty, EmptySeq
<1>2. ASSUME NEW r \in Seq(Messages), NEW m \in Messages, r \in P
      PROVE  Append(r, m) \in P
  <2>1. q \o Append(r, m) = Append(q \o r, m) /\ q \o r \in Seq(Messages) /\ Append(r, m) \in Seq(Messages)
    BY ConcatAppend, ConcatProperties, AppendProperties
  <2>2. TablesOf(q) \in Seq(Nat) /\ TablesOf(r) \in Seq(Nat) /\ m.table \in Nat
    BY TablesType DEF Messages
  <2>3. TablesOf(q \o r) = TablesOf(q) \o TablesOf(r)
    BY <1>2
  <2>4. TablesOf(q \o Append(r, m)) = IF m.table # 0 THEN Append(TablesOf(q \o r), m.table) ELSE TablesOf(q \o r)
    BY <2>1, TablesAppend
  <2>5. TablesOf(Append(r, m)) = IF m.table # 0 THEN Append(TablesOf(r), m.table) ELSE TablesOf(r)
    BY TablesAppend
  <2>6. TablesOf(q) \o Append(TablesOf(r), m.table) = Append(TablesOf(q) \o TablesOf(r), m.table)
    BY <2>2, NumberAppended
  <2>7. TablesOf(q \o Append(r, m)) = TablesOf(q) \o TablesOf(Append(r, m))
    BY <2>3, <2>4, <2>5, <2>6
  <2> QED  BY <2>1, <2>7
<1>3. Seq(Messages) \subseteq P
  <2> HIDE DEF P
  <2> QED  BY <1>1, <1>2, SequenceInduction
<1> QED  BY <1>3
-----------------------------------------------------------------------------
(* Types *)

Names == {"subscribe", "unsubscribe", "list", "read", "change", "shutdown", "bad"}
Frames == [id : Nat \ {0}, kind : Names]
Requests == [c : Conns, id : Nat \ {0}, kind : Names]
Connections ==
  [is : {"none", "dialled", "posted", "dropped", "open", "shut"},
   up : Seq(Frames), outbox : Seq(Messages), down : Seq(Messages),
   reading : BOOLEAN, writing : BOOLEAN, missed : SUBSET Nat]
Clients ==
  [phase : {"none", "joining", "running", "gone"}, sent : Seq(Names), outcome : Seq(Outcomes),
   events : Seq(Nat), ended : BOOLEAN]

TypeOK ==
  /\ server \in [subscribers : SUBSET Conns, version : Nat \ {0}, busy : Requests \cup {Idle},
                 stopping : SUBSET (Conns \X (Nat \ {0})), stopped : BOOLEAN]
  /\ internal \in Seq([k : {"open", "close"}, c : Conns])
  /\ commands \in Seq(Requests)
  /\ conn \in [Conns -> Connections]
  /\ client \in [Conns -> Clients]
  /\ \A c \in Conns : Len(client[c].sent) = Len(client[c].outcome)

\* What a message put into the outbox of a connection changes of it.
LEMMA QueuedFacts ==
    ASSUME NEW cn \in Connections, NEW m \in Messages
    PROVE  /\ Queued(cn, m) \in Connections
           /\ Queued(cn, m).outbox \in {cn.outbox, Append(cn.outbox, m)}
           /\ Queued(cn, m).outbox = cn.outbox => m.id \in Queued(cn, m).missed
           /\ Queued(cn, m).down = cn.down /\ Queued(cn, m).is = cn.is /\ Queued(cn, m).up = cn.up
           /\ cn.missed \subseteq Queued(cn, m).missed
<1>1. m.id \in Nat /\ Append(cn.outbox, m) \in Seq(Messages) /\ Append(cn.outbox, m) # cn.outbox
  BY DEF Messages, Connections
<1>2. CASE Len(cn.outbox) < OutboxSize
  <2>1. Queued(cn, m) = [cn EXCEPT !.outbox = Append(cn.outbox, m)]
    BY <1>2 DEF Queued
  <2> QED  BY <1>1, <2>1 DEF Connections
<1>3. CASE ~ (Len(cn.outbox) < OutboxSize)
  <2>1. Queued(cn, m) = [cn EXCEPT !.missed = cn.missed \cup {m.id}]
    BY <1>3 DEF Queued
  <2>2. cn.missed \cup {m.id} \in SUBSET Nat
    BY <1>1 DEF Connections
  <2>3. Queued(cn, m).missed = cn.missed \cup {m.id}
    BY <2>1 DEF Connections
  <2>4. Queued(cn, m) \in Connections
    BY <2>1, <2>2 DEF Connections
  <2>5. /\ Queued(cn, m).outbox = cn.outbox /\ Queued(cn, m).down = cn.down
        /\ Queued(cn, m).is = cn.is /\ Queued(cn, m).up = cn.up
    BY <2>1 DEF Connections
  <2> QED  BY <2>3, <2>4, <2>5
<1> QED  BY <1>2, <1>3

Effects == [to : SUBSET Conns, msg : Messages]

LEMMA DeliveredFacts ==
    ASSUME NEW cn \in Connections, NEW c, NEW e \in Effects
    PROVE  LET d == Delivered(cn, c, e) IN
           /\ d \in Connections
           /\ d.outbox \in {cn.outbox, Append(cn.outbox, e.msg)}
           /\ d.outbox # cn.outbox => c \in e.to
           /\ c \in e.to /\ d.outbox = cn.outbox => e.msg.id \in d.missed
           /\ d.down = cn.down /\ d.is = cn.is /\ d.up = cn.up /\ cn.missed \subseteq d.missed
<1>1. e.msg \in Messages
  BY DEF Effects
<1>2. CASE c \in e.to
  BY <1>1, <1>2, QueuedFacts DEF Delivered
<1>3. CASE c \notin e.to
  BY <1>3 DEF Delivered
<1> QED  BY <1>2, <1>3

LEMMA ReplyType ==
    ASSUME TypeOK, NEW c \in Conns, NEW id \in Nat \ {0}, NEW table \in Nat
    PROVE  /\ Reply(c, id, table) \in Effects /\ Reply(c, id, table).msg = Message(id, table)
           /\ Reply(c, id, table).to = {c} \cap Open
  BY DEF Reply, To, Effects, Message, Messages, Open

LEMMA BroadcastType ==
    ASSUME NEW subs \in SUBSET Conns, NEW v \in Nat \ {0}
    PROVE  /\ BroadcastSessionsChanged(subs, v) \in Effects
           /\ BroadcastSessionsChanged(subs, v).msg = Message(0, v)
  BY DEF BroadcastSessionsChanged, To, Effects, Message, Messages, Open

-----------------------------------------------------------------------------
LEMMA TypeInit == Init => TypeOK
<1> SUFFICES ASSUME Init
             PROVE  TypeOK
  OBVIOUS
<1>1. server \in [subscribers : SUBSET Conns, version : Nat \ {0}, busy : Requests \cup {Idle},
                 stopping : SUBSET (Conns \X (Nat \ {0})), stopped : BOOLEAN]
  BY DEF Init
<1>2. internal \in Seq([k : {"open", "close"}, c : Conns]) /\ commands \in Seq(Requests)
  BY DEF Init
<1>3. conn \in [Conns -> Connections]
  BY DEF Init, Connections
<1>4. client \in [Conns -> Clients] /\ \A c \in Conns : Len(client[c].sent) = Len(client[c].outcome)
  BY DEF Init, Clients
<1> QED  BY <1>1, <1>2, <1>3, <1>4 DEF TypeOK

\* The parts of a type-correct state that steps change one at a time.
LEMMA TypeParts ==
    ASSUME TypeOK
    PROVE  /\ server.subscribers \in SUBSET Conns /\ server.version \in Nat \ {0}
           /\ server.busy \in Requests \cup {Idle} /\ server.stopping \in SUBSET (Conns \X (Nat \ {0}))
           /\ server.stopped \in BOOLEAN
           /\ internal # <<>> => Head(internal) \in [k : {"open", "close"}, c : Conns]
                                 /\ Tail(internal) \in Seq([k : {"open", "close"}, c : Conns])
           /\ commands # <<>> => Head(commands) \in Requests /\ Tail(commands) \in Seq(Requests)
  BY HeadTailProperties DEF TypeOK

LEMMA PostedType ==
    ASSUME NEW E, NEW q \in Seq(E), NEW x \in E
    PROVE  Posted(q, x) \in Seq(E)
  BY AppendProperties DEF Posted

\* A step that changes one connection, or one client.
LEMMA ConnChanged ==
    ASSUME TypeOK, NEW c \in Conns, NEW cn \in Connections
    PROVE  [conn EXCEPT ![c] = cn] \in [Conns -> Connections]
  BY DEF TypeOK

LEMMA ClientChanged ==
    ASSUME TypeOK, NEW c \in Conns, NEW cl \in Clients, Len(cl.sent) = Len(cl.outcome),
           client' = [client EXCEPT ![c] = cl]
    PROVE  client' \in [Conns -> Clients] /\ \A d \in Conns : Len(client'[d].sent) = Len(client'[d].outcome)
  BY DEF TypeOK

LEMMA ShutType == ASSUME NEW cn \in Connections PROVE Shut(cn) \in Connections
  BY EmptySeq DEF Shut, Connections

LEMMA TypeAccept == ASSUME TypeOK, NEW c \in Conns, Accept(c) PROVE TypeOK'
<1>1. internal' \in Seq([k : {"open", "close"}, c : Conns])
  BY PostedType DEF TypeOK, Accept
<1>2. \A is \in {"posted", "dropped"} : [conn[c] EXCEPT !.is = is] \in Connections
  BY DEF TypeOK, Connections
<1>3. conn' = [conn EXCEPT ![c] = [@ EXCEPT !.is = IF Full(internal) THEN "dropped" ELSE "posted"]]
  BY DEF Accept
<1>4. conn' \in [Conns -> Connections]
  BY <1>2, <1>3, ConnChanged
<1> QED  BY <1>1, <1>4 DEF TypeOK, Accept

LEMMA TypeHandleConnOpen == ASSUME TypeOK, HandleConnOpen PROVE TypeOK'
<1> DEFINE c == Head(internal).c
<1>1. c \in Conns /\ internal' \in Seq([k : {"open", "close"}, c : Conns])
  BY TypeParts DEF HandleConnOpen
<1>2. conn[c] \in Connections
  BY <1>1 DEF TypeOK
<1>3. [conn[c] EXCEPT !.is = "open", !.reading = TRUE, !.writing = TRUE] \in Connections
  BY <1>2 DEF Connections
<1>4. conn' = [conn EXCEPT ![c] = [conn[c] EXCEPT !.is = "open", !.reading = TRUE, !.writing = TRUE]]
  BY <1>1 DEF HandleConnOpen, TypeOK
<1>5. conn' \in [Conns -> Connections]
  BY <1>1, <1>3, <1>4, ConnChanged
<1> QED  BY <1>1, <1>5 DEF TypeOK, HandleConnOpen

LEMMA TypeHandleConnClose == ASSUME TypeOK, HandleConnClose PROVE TypeOK'
<1> DEFINE c == Head(internal).c
<1>1. c \in Conns /\ internal' \in Seq([k : {"open", "close"}, c : Conns])
  BY TypeParts DEF HandleConnClose
<1>2. conn[c] \in Connections
  BY <1>1 DEF TypeOK
<1>3. conn' \in [Conns -> Connections]
  BY <1>1, <1>2, ShutType, ConnChanged DEF HandleConnClose
<1>4. server' = [server EXCEPT !.subscribers = server.subscribers \ {c}] /\ UNCHANGED <<commands, client>>
  BY DEF HandleConnClose
<1> QED  BY <1>1, <1>3, <1>4, TypeParts DEF TypeOK

LEMMA TypeRead == ASSUME TypeOK, NEW c \in Conns, Read(c) PROVE TypeOK'
<1> DEFINE r == Head(conn[c].up)
           rest == [conn[c] EXCEPT !.up = Tail(@)]
<1>1. conn[c] \in Connections /\ conn[c].up # <<>>
  BY DEF TypeOK, Read
<1>2. r \in Frames /\ Tail(conn[c].up) \in Seq(Frames)
  BY <1>1, HeadTailProperties DEF Connections
<1>3. rest \in Connections
  BY <1>1, <1>2 DEF Connections
<1>4. Message(r.id, 0) \in Messages /\ Command(c, r) \in Requests
  BY <1>2 DEF Message, Messages, Command, Requests, Frames
<1>5. commands' \in Seq(Requests)
  BY <1>4, PostedType DEF TypeOK, Read
<1>6. \/ conn' = [conn EXCEPT ![c] = Queued(rest, Message(r.id, 0))]
      \/ conn' = [conn EXCEPT ![c] = rest]
      \/ conn' = [conn EXCEPT ![c] = [rest EXCEPT !.missed = @ \cup {r.id}]]
  BY DEF Read
<1>7. Queued(rest, Message(r.id, 0)) \in Connections
  BY <1>3, <1>4, QueuedFacts
<1>8. [rest EXCEPT !.missed = @ \cup {r.id}] \in Connections
  <2> HIDE DEF rest, r
  <2>1. rest.missed \cup {r.id} \in SUBSET Nat
    BY <1>2, <1>3 DEF Connections, Frames
  <2> QED  BY <1>3, <2>1 DEF Connections
<1>9. conn' \in [Conns -> Connections]
  <2> HIDE DEF rest, r
  <2> QED  BY <1>3, <1>6, <1>7, <1>8, ConnChanged
<1> QED  BY <1>5, <1>9 DEF TypeOK, Read

LEMMA TypeReadEnds == ASSUME TypeOK, NEW c \in Conns, ReadEnds(c) PROVE TypeOK'
<1>1. internal' \in Seq([k : {"open", "close"}, c : Conns])
  BY PostedType DEF TypeOK, ReadEnds
<1>2. [conn[c] EXCEPT !.reading = FALSE] \in Connections
  BY DEF TypeOK, Connections
<1>3. conn' \in [Conns -> Connections]
  BY <1>2, ConnChanged DEF ReadEnds
<1> QED  BY <1>1, <1>3 DEF TypeOK, ReadEnds

LEMMA TypeWrite == ASSUME TypeOK, NEW c \in Conns, Write(c) PROVE TypeOK'
<1> DEFINE moved == [conn[c] EXCEPT !.outbox = Tail(conn[c].outbox),
                                    !.down = Append(conn[c].down, Head(conn[c].outbox))]
           broken == [conn[c] EXCEPT !.outbox = Tail(conn[c].outbox), !.writing = FALSE]
<1>1. conn[c] \in Connections /\ conn[c].outbox # <<>>
  BY DEF TypeOK, Write
<1>2. /\ Tail(conn[c].outbox) \in Seq(Messages)
      /\ Append(conn[c].down, Head(conn[c].outbox)) \in Seq(Messages)
  BY <1>1, HeadTailProperties, AppendProperties DEF Connections
<1>3. moved \in Connections /\ broken \in Connections
  BY <1>1, <1>2 DEF Connections
<1>4. conn' = [conn EXCEPT ![c] = moved] \/ conn' = [conn EXCEPT ![c] = broken]
  BY DEF Write, TypeOK
<1>5. conn' \in [Conns -> Connections]
  BY <1>3, <1>4, ConnChanged
<1> QED  BY <1>5 DEF TypeOK, Write

-----------------------------------------------------------------------------
(* Commands *)

LEMMA ExecuteFacts ==
    ASSUME TypeOK, NEW e \in Effects, Execute(e)
    PROVE  /\ conn' \in [Conns -> Connections]
           /\ \A c \in Conns : conn'[c] = Delivered(conn[c], c, e)
<1>1. conn' = [c \in Conns |-> Delivered(conn[c], c, e)]
  BY DEF Execute
<1>2. ASSUME NEW c \in Conns
      PROVE  Delivered(conn[c], c, e) \in Connections
  <2>1. conn[c] \in Connections
    BY DEF TypeOK
  <2> QED  BY <2>1, DeliveredFacts
<1> QED  BY <1>1, <1>2

LEMMA ExecuteBothFacts ==
    ASSUME TypeOK, NEW e \in Effects, NEW f \in Effects, ExecuteBoth(e, f)
    PROVE  /\ conn' \in [Conns -> Connections]
           /\ \A c \in Conns : /\ conn'[c] = Delivered(Delivered(conn[c], c, e), c, f)
                               /\ Delivered(conn[c], c, e) \in Connections
<1>1. conn' = [c \in Conns |-> Delivered(Delivered(conn[c], c, e), c, f)]
  BY DEF ExecuteBoth
<1>2. ASSUME NEW c \in Conns
      PROVE  /\ Delivered(conn[c], c, e) \in Connections
             /\ Delivered(Delivered(conn[c], c, e), c, f) \in Connections
  <2>1. conn[c] \in Connections
    BY DEF TypeOK
  <2>2. Delivered(conn[c], c, e) \in Connections
    BY <2>1, DeliveredFacts
  <2> QED  BY <2>2, DeliveredFacts
<1> QED  BY <1>1, <1>2

\* The command in the loop's hands, and what is left in the channel.
LEMMA TakeFacts ==
    ASSUME TypeOK, NEW kinds, Take(kinds)
    PROVE  /\ Head(commands) \in Requests /\ Head(commands).kind \in kinds
           /\ Head(commands).c \in Conns /\ Head(commands).id \in Nat \ {0}
           /\ commands # <<>> /\ commands' = Tail(commands) /\ commands' \in Seq(Requests)
<1>1. commands # <<>> /\ commands' = Tail(commands) /\ Head(commands).kind \in kinds
  BY DEF Take
<1>2. Head(commands) \in Requests /\ commands' \in Seq(Requests)
  BY <1>1, TypeParts
<1> QED  BY <1>1, <1>2 DEF Requests

\* The messages of each command.
LEMMA SubscribeFacts ==
    ASSUME TypeOK, Subscribe
    PROVE  LET r == Head(commands)
               subs == server.subscribers \cup {r.c}
           IN  /\ Reply(r.c, r.id, 0) \in Effects /\ BroadcastSessionsChanged(subs, server.version) \in Effects
               /\ ExecuteBoth(Reply(r.c, r.id, 0), BroadcastSessionsChanged(subs, server.version))
               /\ subs \in SUBSET Conns /\ server' = [server EXCEPT !.subscribers = subs]
<1> DEFINE r == Head(commands)
           subs == server.subscribers \cup {r.c}
<1>1. r.c \in Conns /\ r.id \in Nat \ {0}
  BY TakeFacts DEF Subscribe
<1>2. subs \in SUBSET Conns /\ server.version \in Nat \ {0}
  BY <1>1, TypeParts
<1>3. Reply(r.c, r.id, 0) \in Effects /\ BroadcastSessionsChanged(subs, server.version) \in Effects
  BY <1>1, <1>2, ReplyType, BroadcastType
<1> QED  BY <1>2, <1>3 DEF Subscribe

LEMMA DriverHookFacts ==
    ASSUME TypeOK, DriverHook
    PROVE  LET r == Head(commands)
               v == server'.version
           IN  /\ Reply(r.c, r.id, 0) \in Effects /\ BroadcastSessionsChanged(server.subscribers, v) \in Effects
               /\ ExecuteBoth(BroadcastSessionsChanged(server.subscribers, v), Reply(r.c, r.id, 0))
               /\ v \in {server.version, server.version + 1, MaxVersion} /\ v \in Nat \ {0}
               /\ server' = [server EXCEPT !.version = v]
<1> DEFINE r == Head(commands)
           v == IF server.version < MaxVersion THEN server.version + 1 ELSE MaxVersion
<1>1. r.c \in Conns /\ r.id \in Nat \ {0}
  BY TakeFacts DEF DriverHook
<1>2. v \in {server.version, server.version + 1, MaxVersion} /\ v \in Nat \ {0}
  BY TypeParts, WireAssumption
<1>3. server' = [server EXCEPT !.version = v]
  BY DEF DriverHook
<1>4. server'.version = v
  BY <1>3 DEF TypeOK
<1>5. Reply(r.c, r.id, 0) \in Effects /\ BroadcastSessionsChanged(server.subscribers, v) \in Effects
  BY <1>1, <1>2, TypeParts, ReplyType, BroadcastType
<1>6. ExecuteBoth(BroadcastSessionsChanged(server.subscribers, v), Reply(r.c, r.id, 0))
  BY DEF DriverHook
<1> HIDE DEF v
<1> QED  BY <1>2, <1>3, <1>4, <1>5, <1>6

LEMMA TypeSubscribe == ASSUME TypeOK, Subscribe PROVE TypeOK'
<1>1. commands' \in Seq(Requests)
  BY TakeFacts DEF Subscribe
<1>2. conn' \in [Conns -> Connections]
  BY SubscribeFacts, ExecuteBothFacts
<1>3. PICK subs \in SUBSET Conns : server' = [server EXCEPT !.subscribers = subs]
  BY SubscribeFacts
<1> QED  BY <1>1, <1>2, <1>3 DEF TypeOK, Subscribe

LEMMA TypeUnsubscribe == ASSUME TypeOK, Unsubscribe PROVE TypeOK'
<1> DEFINE r == Head(commands)
<1>1. commands' \in Seq(Requests) /\ r.c \in Conns /\ r.id \in Nat \ {0}
  BY TakeFacts DEF Unsubscribe
<1>2. conn' \in [Conns -> Connections]
  BY <1>1, ReplyType, ExecuteFacts DEF Unsubscribe
<1>3. server' = [server EXCEPT !.subscribers = server.subscribers \ {r.c}] /\ UNCHANGED <<internal, client>>
  BY DEF Unsubscribe
<1> QED  BY <1>1, <1>2, <1>3, TypeParts DEF TypeOK

LEMMA TypeListSessions == ASSUME TypeOK, ListSessions PROVE TypeOK'
<1> DEFINE r == Head(commands)
<1>1. commands' \in Seq(Requests) /\ r.c \in Conns /\ r.id \in Nat \ {0}
  BY TakeFacts DEF ListSessions
<1>2. server.version \in Nat
  BY TypeParts
<1>3. conn' \in [Conns -> Connections]
  BY <1>1, <1>2, ReplyType, ExecuteFacts DEF ListSessions
<1> QED  BY <1>1, <1>3 DEF TypeOK, ListSessions

LEMMA TypeDriverHook == ASSUME TypeOK, DriverHook PROVE TypeOK'
<1>1. commands' \in Seq(Requests)
  BY TakeFacts DEF DriverHook
<1>2. conn' \in [Conns -> Connections]
  BY DriverHookFacts, ExecuteBothFacts
<1>3. PICK v \in Nat \ {0} : server' = [server EXCEPT !.version = v]
  BY DriverHookFacts
<1> QED  BY <1>1, <1>2, <1>3 DEF TypeOK, DriverHook

LEMMA TypeStartSyncResponse == ASSUME TypeOK, StartSyncResponse PROVE TypeOK'
<1>1. commands' \in Seq(Requests) /\ Head(commands) \in Requests
  BY TakeFacts DEF StartSyncResponse
<1>2. server' = [server EXCEPT !.busy = Head(commands)]
  BY DEF StartSyncResponse
<1> QED  BY <1>1, <1>2 DEF TypeOK, StartSyncResponse

LEMMA TypeSendResponseSync == ASSUME TypeOK, SendResponseSync PROVE TypeOK'
<1> DEFINE r == server.busy
<1>1. r \in Requests /\ r.c \in Conns /\ r.id \in Nat \ {0}
  <2>1. r \in Requests
    BY TypeParts DEF SendResponseSync
  <2> QED  BY <2>1 DEF Requests
<1>2. conn[r.c] \in Connections /\ Message(r.id, 0) \in Messages
  BY <1>1 DEF TypeOK, Message, Messages
<1>3. [conn[r.c] EXCEPT !.down = Append(conn[r.c].down, Message(r.id, 0))] \in Connections
  <2>1. Append(conn[r.c].down, Message(r.id, 0)) \in Seq(Messages)
    BY <1>2, AppendProperties DEF Connections
  <2> HIDE DEF r
  <2> QED  BY <1>2, <2>1 DEF Connections
<1>4. \/ conn' = [conn EXCEPT ![r.c] = [conn[r.c] EXCEPT !.down = Append(conn[r.c].down, Message(r.id, 0))]]
      \/ conn' = conn
  BY <1>1 DEF SendResponseSync, TypeOK
<1>5. conn' \in [Conns -> Connections]
  BY <1>1, <1>3, <1>4, ConnChanged DEF TypeOK
<1>6. PICK stopping \in SUBSET (Conns \X (Nat \ {0})) : server' = [server EXCEPT !.busy = Idle, !.stopping = stopping]
  <2>1. server.stopping \in SUBSET (Conns \X (Nat \ {0})) /\ <<r.c, r.id>> \in Conns \X (Nat \ {0})
    BY <1>1, TypeParts
  <2>2. server' = [server EXCEPT !.busy = Idle,
                     !.stopping = IF r.kind = "shutdown" THEN server.stopping \cup {<<r.c, r.id>>} ELSE server.stopping]
    BY DEF SendResponseSync
  <2> HIDE DEF r
  <2> QED  BY <2>1, <2>2
<1>7. server' \in [subscribers : SUBSET Conns, version : Nat \ {0}, busy : Requests \cup {Idle},
                   stopping : SUBSET (Conns \X (Nat \ {0})), stopped : BOOLEAN]
  BY <1>6 DEF TypeOK
<1> QED  BY <1>5, <1>7 DEF TypeOK, SendResponseSync

LEMMA ChangeFacts ==
    ASSUME TypeOK, Change
    PROVE  LET v == server.version + 1
           IN  /\ BroadcastSessionsChanged(server.subscribers, v) \in Effects
               /\ Execute(BroadcastSessionsChanged(server.subscribers, v))
               /\ v \in Nat \ {0} /\ server' = [server EXCEPT !.version = v]
<1> DEFINE v == server.version + 1
<1>1. v \in Nat \ {0}
  BY TypeParts
<1>2. BroadcastSessionsChanged(server.subscribers, v) \in Effects
  BY <1>1, TypeParts, BroadcastType
<1> QED  BY <1>1, <1>2 DEF Change

LEMMA TypeChange == ASSUME TypeOK, Change PROVE TypeOK'
<1>1. conn' \in [Conns -> Connections]
  BY ChangeFacts, ExecuteFacts
<1>2. PICK v \in Nat \ {0} : server' = [server EXCEPT !.version = v]
  BY ChangeFacts
<1> QED  BY <1>1, <1>2 DEF TypeOK, Change

LEMMA TypeStop == ASSUME TypeOK, Stop PROVE TypeOK'
<1>1. \A c \in Conns : (IF conn[c].is = "none" THEN conn[c] ELSE Shut(conn[c])) \in Connections
  BY ShutType DEF TypeOK
<1>2. conn' \in [Conns -> Connections]
  BY <1>1 DEF Stop
<1>3. internal' = <<>> /\ commands' = <<>> /\ server' = [server EXCEPT !.stopped = TRUE] /\ client' = client
  BY DEF Stop
<1>4. server' \in [subscribers : SUBSET Conns, version : Nat \ {0}, busy : Requests \cup {Idle},
                   stopping : SUBSET (Conns \X (Nat \ {0})), stopped : BOOLEAN]
  BY <1>3 DEF TypeOK
<1>5. internal' \in Seq([k : {"open", "close"}, c : Conns]) /\ commands' \in Seq(Requests)
  BY <1>3
<1> QED  BY <1>2, <1>3, <1>4, <1>5 DEF TypeOK

-----------------------------------------------------------------------------
(* The client *)

\* What a request changes of its connection and its client.
Request(c, kind) == [id |-> Len(client[c].sent) + 1, kind |-> kind]
SendConn(c, kind) ==
  [conn[c] EXCEPT !.is = IF conn[c].is = "none" THEN "dialled" ELSE conn[c].is,
                  !.up = IF conn[c].is = "shut" THEN conn[c].up ELSE Append(conn[c].up, Request(c, kind))]
SendOutcome(c) == IF conn[c].is = "shut" THEN "failed" ELSE "pending"
SendClient(c, kind, phase) ==
  [client[c] EXCEPT !.phase = phase, !.sent = Append(client[c].sent, kind),
                    !.outcome = Append(client[c].outcome, SendOutcome(c))]

LEMMA SendFacts ==
    ASSUME TypeOK, NEW c \in Conns, NEW kind \in Names, NEW phase \in {"joining", "running"},
           Send(c, kind, phase)
    PROVE  /\ Request(c, kind) \in Frames
           /\ SendConn(c, kind) \in Connections /\ SendClient(c, kind, phase) \in Clients
           /\ Len(SendClient(c, kind, phase).sent) = Len(SendClient(c, kind, phase).outcome)
           /\ conn' = [conn EXCEPT ![c] = SendConn(c, kind)]
           /\ client' = [client EXCEPT ![c] = SendClient(c, kind, phase)]
<1> DEFINE cl == SendClient(c, kind, phase)
<1>1. conn[c] \in Connections /\ client[c] \in Clients /\ Len(client[c].sent) = Len(client[c].outcome)
  BY DEF TypeOK
<1>2. client[c].sent \in Seq(Names) /\ client[c].outcome \in Seq(Outcomes) /\ conn[c].up \in Seq(Frames)
  BY <1>1 DEF Connections, Clients
<1>3. Request(c, kind) \in Frames
  BY <1>2, LenProperties DEF Frames, Request
<1>4. SendConn(c, kind) \in Connections
  <2>1. Append(conn[c].up, Request(c, kind)) \in Seq(Frames)
    BY <1>2, <1>3, AppendProperties
  <2> QED  BY <1>1, <2>1 DEF Connections, SendConn
<1>5. cl \in Clients /\ Len(cl.sent) = Len(cl.outcome)
  <2>1. SendOutcome(c) \in Outcomes
    BY DEF Outcomes, SendOutcome
  <2>2. /\ Append(client[c].sent, kind) \in Seq(Names)
        /\ Append(client[c].outcome, SendOutcome(c)) \in Seq(Outcomes)
        /\ Len(Append(client[c].sent, kind)) = Len(client[c].sent) + 1
        /\ Len(Append(client[c].outcome, SendOutcome(c))) = Len(client[c].outcome) + 1
    BY <1>2, <2>1, AppendProperties
  <2>3. cl \in Clients
    BY <1>1, <2>2 DEF Clients, SendClient
  <2>4. cl.sent = Append(client[c].sent, kind) /\ cl.outcome = Append(client[c].outcome, SendOutcome(c))
    BY <1>1 DEF Clients, SendClient
  <2> QED  BY <1>1, <2>2, <2>3, <2>4
<1>6. conn' = [conn EXCEPT ![c] = SendConn(c, kind)] /\ client' = [client EXCEPT ![c] = cl]
  BY DEF Send, TypeOK, SendConn, SendClient, SendOutcome, Request
<1> QED  BY <1>3, <1>4, <1>5, <1>6

LEMMA TypeSend ==
    ASSUME TypeOK, NEW c \in Conns, NEW kind \in Names, NEW phase \in {"joining", "running"},
           Send(c, kind, phase)
    PROVE  TypeOK'
<1>1. conn' \in [Conns -> Connections]
  BY SendFacts, ConnChanged
<1>2. client' \in [Conns -> Clients] /\ \A d \in Conns : Len(client'[d].sent) = Len(client'[d].outcome)
  BY SendFacts, ClientChanged
<1> QED  BY <1>1, <1>2 DEF TypeOK, Send

LEMMA KindsAreNames == Kinds \subseteq Names
  BY WireAssumption DEF Names

LEMMA SentBy ==
    ASSUME NEW c \in Conns, Bootstrap(c) \/ Start(c) \/ Call(c)
    PROVE  \E kind \in Names : \E phase \in {"joining", "running"} : Send(c, kind, phase)
<1>1. "subscribe" \in Names /\ "list" \in Names /\ Kinds \subseteq Names
  BY KindsAreNames DEF Names
<1>2. CASE Bootstrap(c)
  BY <1>1, <1>2 DEF Bootstrap
<1>3. CASE Start(c)
  BY <1>1, <1>3 DEF Start
<1>4. CASE Call(c)
  BY <1>1, <1>4 DEF Call
<1> QED  BY <1>2, <1>3, <1>4

LEMMA TypeReceive == ASSUME TypeOK, NEW c \in Conns, Receive(c) PROVE TypeOK'
<1> DEFINE msg == Head(conn[c].down)
<1>1. conn[c] \in Connections /\ client[c] \in Clients /\ Len(client[c].sent) = Len(client[c].outcome)
  BY DEF TypeOK
<1>2. msg \in Messages /\ Tail(conn[c].down) \in Seq(Messages)
  BY <1>1, HeadTailProperties DEF Receive, Connections
<1>3. [conn[c] EXCEPT !.down = Tail(conn[c].down)] \in Connections
  BY <1>1, <1>2 DEF Connections
<1>4. CASE DispatchEvent(c, msg)
  <2>1. [conn[c] EXCEPT !.down = Tail(conn[c].down), !.missed = conn[c].missed \cup {0}] \in Connections
    <3>1. conn[c].missed \cup {0} \in SUBSET Nat
      BY <1>1 DEF Connections
    <3> QED  BY <1>1, <1>2, <3>1 DEF Connections
  <2>2. \/ conn' = [conn EXCEPT ![c] = [conn[c] EXCEPT !.down = Tail(conn[c].down)]]
        \/ conn' = [conn EXCEPT ![c] = [conn[c] EXCEPT !.down = Tail(conn[c].down), !.missed = conn[c].missed \cup {0}]]
    BY <1>1, <1>4 DEF DispatchEvent, TypeOK, Connections
  <2>3. conn' \in [Conns -> Connections]
    BY <1>3, <2>1, <2>2, ConnChanged
  <2>4. [client[c] EXCEPT !.events = Append(client[c].events, msg.table)] \in Clients
    <3>1. Append(client[c].events, msg.table) \in Seq(Nat)
      BY <1>1, <1>2, AppendProperties DEF Clients, Messages
    <3> HIDE DEF msg
    <3> QED  BY <1>1, <3>1 DEF Clients
  <2>5. \/ client' = client
        \/ client' = [client EXCEPT ![c] = [client[c] EXCEPT !.events = Append(client[c].events, msg.table)]]
    BY <1>1, <1>4 DEF DispatchEvent, TypeOK, Clients
  <2> DEFINE cl == [client[c] EXCEPT !.events = Append(client[c].events, msg.table)]
  <2>6. Len(cl.sent) = Len(cl.outcome)
    BY <1>1 DEF Clients
  <2>7. client' \in [Conns -> Clients] /\ \A d \in Conns : Len(client'[d].sent) = Len(client'[d].outcome)
    <3>1. CASE client' = client
      BY <3>1 DEF TypeOK
    <3>2. CASE client' = [client EXCEPT ![c] = cl]
      <4>1. cl \in Clients
        BY <2>4
      <4> HIDE DEF cl
      <4> QED  BY <2>6, <3>2, <4>1, ClientChanged
    <3> QED  BY <2>5, <3>1, <3>2
  <2> QED  BY <2>3, <2>7 DEF TypeOK, Receive
<1>5. CASE DispatchResponse(c, msg)
  <2>1. conn' \in [Conns -> Connections]
    <3>1. conn' = [conn EXCEPT ![c] = [conn[c] EXCEPT !.down = Tail(conn[c].down)]]
      BY <1>5 DEF DispatchResponse, TypeOK
    <3> QED  BY <1>3, <3>1, ConnChanged
  <2>2. \/ client' = client
        \/ /\ msg.id \in Pending(c)
           /\ client' = [client EXCEPT ![c] = [client[c] EXCEPT !.outcome = [client[c].outcome EXCEPT ![msg.id] = "answered"]]]
    BY <1>1, <1>5 DEF DispatchResponse, TypeOK
  <2> DEFINE cl == [client[c] EXCEPT !.outcome = [client[c].outcome EXCEPT ![msg.id] = "answered"]]
  <2>3. ASSUME msg.id \in Pending(c)
        PROVE  cl \in Clients /\ Len(cl.sent) = Len(cl.outcome)
    <3>1. msg.id \in 1 .. Len(client[c].outcome) /\ "answered" \in Outcomes
      BY <1>1, <2>3 DEF Pending, Clients, Outcomes
    <3>2. /\ [client[c].outcome EXCEPT ![msg.id] = "answered"] \in Seq(Outcomes)
          /\ Len([client[c].outcome EXCEPT ![msg.id] = "answered"]) = Len(client[c].outcome)
      BY <1>1, <3>1 DEF Clients
    <3> HIDE DEF msg
    <3> QED  BY <1>1, <3>2 DEF Clients
  <2>4. client' \in [Conns -> Clients] /\ \A d \in Conns : Len(client'[d].sent) = Len(client'[d].outcome)
    <3>1. CASE client' = client
      BY <3>1 DEF TypeOK
    <3>2. CASE client' # client
      <4>1. msg.id \in Pending(c) /\ client' = [client EXCEPT ![c] = cl]
        BY <2>2, <3>2
      <4> HIDE DEF cl
      <4> QED  BY <2>3, <4>1, ClientChanged
    <3> QED  BY <3>1, <3>2
  <2> QED  BY <2>1, <2>4 DEF TypeOK, Receive
<1> QED  BY <1>4, <1>5 DEF Receive

LEMMA TypeReceiveEnds == ASSUME TypeOK, NEW c \in Conns, ReceiveEnds(c) PROVE TypeOK'
<1> DEFINE cl == [client[c] EXCEPT !.ended = TRUE]
<1>1. cl \in Clients /\ Len(cl.sent) = Len(cl.outcome)
  BY DEF TypeOK, Clients
<1>2. client' = [client EXCEPT ![c] = cl]
  BY DEF ReceiveEnds, TypeOK
<1>3. client' \in [Conns -> Clients] /\ \A d \in Conns : Len(client'[d].sent) = Len(client'[d].outcome)
  <2> HIDE DEF cl
  <2> QED  BY <1>1, <1>2, ClientChanged
<1> QED  BY <1>3 DEF TypeOK, ReceiveEnds

\* The outcomes of a client may change, never their number.
LEMMA OutcomesChanged ==
    ASSUME TypeOK, NEW c \in Conns, NEW o \in [DOMAIN client[c].outcome -> Outcomes]
    PROVE  o \in Seq(Outcomes) /\ Len(o) = Len(client[c].outcome) /\ DOMAIN o = DOMAIN client[c].outcome
<1>1. client[c].outcome \in Seq(Outcomes)
  BY DEF TypeOK, Clients
<1> QED  BY <1>1

LEMMA TypeTimeout == ASSUME TypeOK, NEW c \in Conns, Timeout(c) PROVE TypeOK'
<1>1. client[c] \in Clients /\ Len(client[c].sent) = Len(client[c].outcome)
  BY DEF TypeOK
<1>2. PICK id \in Pending(c) : client' = [client EXCEPT ![c] = [client[c] EXCEPT !.outcome = [client[c].outcome EXCEPT ![id] = "timeout"]]]
  BY <1>1 DEF Timeout, TypeOK
<1> DEFINE o == [client[c].outcome EXCEPT ![id] = "timeout"]
           cl == [client[c] EXCEPT !.outcome = o]
<1>3. o \in [DOMAIN client[c].outcome -> Outcomes]
  <2>1. client[c].outcome \in [1 .. Len(client[c].outcome) -> Outcomes]
    BY <1>1 DEF Clients
  <2>2. "timeout" \in Outcomes
    BY DEF Outcomes
  <2> QED  BY <2>1, <2>2
<1>4. cl \in Clients /\ Len(cl.sent) = Len(cl.outcome)
  <2> HIDE DEF o
  <2> QED  BY <1>1, <1>3, OutcomesChanged DEF Clients
<1>5. client' \in [Conns -> Clients] /\ \A d \in Conns : Len(client'[d].sent) = Len(client'[d].outcome)
  <2>1. client' = [client EXCEPT ![c] = cl]
    BY <1>2
  <2> HIDE DEF cl
  <2> QED  BY <1>4, <2>1, ClientChanged
<1> QED  BY <1>5 DEF TypeOK, Timeout

LEMMA TypeClose == ASSUME TypeOK, NEW c \in Conns, Close(c) PROVE TypeOK'
<1> DEFINE o == [id \in DOMAIN client[c].outcome |-> IF id \in Pending(c) THEN "woken" ELSE client[c].outcome[id]]
           cl == [client[c] EXCEPT !.phase = "gone", !.events = <<>>, !.outcome = o]
           cn == [conn[c] EXCEPT !.down = <<>>]
<1>1. client[c] \in Clients /\ Len(client[c].sent) = Len(client[c].outcome) /\ conn[c] \in Connections
  BY DEF TypeOK
<1>2. client' = [client EXCEPT ![c] = cl] /\ conn' = [conn EXCEPT ![c] = cn]
  BY <1>1 DEF Close, TypeOK, Clients
<1>3. o \in [DOMAIN client[c].outcome -> Outcomes]
  BY <1>1 DEF Clients, Outcomes
<1>4. cl \in Clients /\ Len(cl.sent) = Len(cl.outcome)
  <2> HIDE DEF o
  <2>1. o \in Seq(Outcomes) /\ Len(o) = Len(client[c].outcome) /\ <<>> \in Seq(Nat)
    BY <1>3, OutcomesChanged
  <2> QED  BY <1>1, <2>1 DEF Clients
<1>5. cn \in Connections
  <2>1. <<>> \in Seq(Messages)
    OBVIOUS
  <2> QED  BY <1>1, <2>1 DEF Connections
<1>6. client' \in [Conns -> Clients] /\ \A d \in Conns : Len(client'[d].sent) = Len(client'[d].outcome)
  <2> HIDE DEF cl
  <2> QED  BY <1>2, <1>4, ClientChanged
<1>7. conn' \in [Conns -> Connections]
  <2> HIDE DEF cn
  <2> QED  BY <1>2, <1>5, ConnChanged
<1> QED  BY <1>6, <1>7 DEF TypeOK, Close

LEMMA TypeListen == ASSUME TypeOK, NEW c \in Conns, Listen(c) PROVE TypeOK'
<1> DEFINE cl == [client[c] EXCEPT !.events = Tail(client[c].events)]
<1>1. client[c] \in Clients /\ Len(client[c].sent) = Len(client[c].outcome) /\ client[c].events # <<>>
  BY DEF TypeOK, Listen
<1>2. Tail(client[c].events) \in Seq(Nat)
  BY <1>1, HeadTailProperties DEF Clients
<1>3. cl \in Clients /\ Len(cl.sent) = Len(cl.outcome)
  BY <1>1, <1>2 DEF Clients
<1>4. client' = [client EXCEPT ![c] = cl]
  BY DEF Listen, TypeOK
<1>5. client' \in [Conns -> Clients] /\ \A d \in Conns : Len(client'[d].sent) = Len(client'[d].outcome)
  <2> HIDE DEF cl
  <2> QED  BY <1>3, <1>4, ClientChanged
<1> QED  BY <1>5 DEF TypeOK, Listen

LEMMA TypeStep == TypeOK /\ [Next]_vars => TypeOK'
<1> SUFFICES ASSUME TypeOK, [Next]_vars
             PROVE  TypeOK'
  OBVIOUS
<1>1. CASE Loop
  BY <1>1, TypeHandleConnOpen, TypeHandleConnClose, TypeSubscribe, TypeUnsubscribe, TypeListSessions,
     TypeDriverHook, TypeStartSyncResponse, TypeSendResponseSync DEF Loop
<1>2. CASE Change \/ Stop
  BY <1>2, TypeChange, TypeStop
<1>3. ASSUME NEW c \in Conns, Connection(c)
      PROVE  TypeOK'
  BY <1>3, TypeAccept, TypeRead, TypeReadEnds, TypeWrite DEF Connection
<1>4. ASSUME NEW c \in Conns, Bootstrap(c) \/ Start(c) \/ Call(c)
      PROVE  TypeOK'
  BY <1>4, SentBy, TypeSend
<1>5. ASSUME NEW c \in Conns, Receive(c) \/ ReceiveEnds(c) \/ Timeout(c) \/ Close(c) \/ Listen(c)
      PROVE  TypeOK'
  BY <1>5, TypeReceive, TypeReceiveEnds, TypeTimeout, TypeClose, TypeListen
<1>6. ASSUME NEW c \in Conns, HandleServerEvent(c)
      PROVE  TypeOK'
  BY <1>6 DEF TypeOK, HandleServerEvent
<1>7. ASSUME NEW c \in Conns, Disconnect(c)
      PROVE  TypeOK'
  BY <1>7, TypeClose DEF Disconnect
<1>8. CASE UNCHANGED vars
  BY <1>8 DEF TypeOK, vars
<1> QED  BY <1>1, <1>2, <1>3, <1>4, <1>5, <1>6, <1>7, <1>8 DEF Next, Program

\* Every variable of the connections, the loop and the clients keeps its type.
THEOREM TypeCorrect == Spec => []TypeOK
  BY TypeInit, TypeStep, PTL DEF Spec

-----------------------------------------------------------------------------
(* Counting a request *)

\* A queue carries an id as often as it has elements with it.
Carrying(E, id) == {m \in E : m.id = id}

LEMMA CarriedCount ==
    ASSUME NEW E, NEW q \in Seq(E), NEW id
    PROVE  Carried(q, id) = Count(q, Carrying(E, id)) /\ Count(q, Carrying(E, id)) \in Nat
<1>1. \A i \in DOMAIN q : q[i] \in E
  OBVIOUS
<1>2. {i \in DOMAIN q : q[i].id = id} = {i \in DOMAIN q : q[i] \in Carrying(E, id)}
  BY <1>1 DEF Carrying
<1>3. Carried(q, id) = Count(q, Carrying(E, id))
  BY <1>2 DEF Carried, Count
<1>4. Count(q, Carrying(E, id)) \in Nat
  BY CountNat
<1> QED  BY <1>3, <1>4

Asking(c, id) == {r \in Requests : r.c = c /\ r.id = id}

LEMMA AskedCount ==
    ASSUME NEW q \in Seq(Requests), NEW c, NEW id
    PROVE  Asked(q, c, id) = Count(q, Asking(c, id)) /\ Count(q, Asking(c, id)) \in Nat
<1>1. \A i \in DOMAIN q : q[i] \in Requests
  OBVIOUS
<1>2. {i \in DOMAIN q : q[i].c = c /\ q[i].id = id} = {i \in DOMAIN q : q[i] \in Asking(c, id)}
  BY <1>1 DEF Asking
<1>3. Asked(q, c, id) = Count(q, Asking(c, id))
  BY <1>2 DEF Asked, Count
<1>4. Count(q, Asking(c, id)) \in Nat
  BY CountNat
<1> QED  BY <1>3, <1>4

LEMMA CarriedFacts ==
    ASSUME NEW E, NEW q \in Seq(E), NEW id
    PROVE  /\ Carried(q, id) \in Nat
           /\ \A x \in E : /\ x.id = id => Carried(Append(q, x), id) = Carried(q, id) + 1
                           /\ x.id # id => Carried(Append(q, x), id) = Carried(q, id)
           /\ q # <<>> => /\ Head(q).id = id => Carried(q, id) = Carried(Tail(q), id) + 1
                          /\ Head(q).id # id => Carried(q, id) = Carried(Tail(q), id)
<1> DEFINE P == Carrying(E, id)
<1>1. Carried(q, id) = Count(q, P) /\ Count(q, P) \in Nat
  BY CarriedCount
<1>2. ASSUME NEW x \in E
      PROVE  /\ x.id = id => Carried(Append(q, x), id) = Carried(q, id) + 1
             /\ x.id # id => Carried(Append(q, x), id) = Carried(q, id)
  <2>1. Append(q, x) \in Seq(E)
    BY AppendProperties
  <2>2. Carried(Append(q, x), id) = Count(Append(q, x), P)
    BY <2>1, CarriedCount
  <2>3. Count(Append(q, x), P) = Count(q, P) + (IF x \in P THEN 1 ELSE 0)
    BY CountAppend
  <2>4. x.id = id <=> x \in P
    BY DEF Carrying
  <2> HIDE DEF P
  <2> QED  BY <1>1, <2>2, <2>3, <2>4
<1>3. ASSUME q # <<>>
      PROVE  /\ Head(q).id = id => Carried(q, id) = Carried(Tail(q), id) + 1
             /\ Head(q).id # id => Carried(q, id) = Carried(Tail(q), id)
  <2>1. Head(q) \in E /\ Tail(q) \in Seq(E)
    BY <1>3, HeadTailProperties
  <2>2. Carried(Tail(q), id) = Count(Tail(q), P) /\ Count(Tail(q), P) \in Nat
    BY <2>1, CarriedCount
  <2>3. Count(q, P) = Count(Tail(q), P) + (IF Head(q) \in P THEN 1 ELSE 0)
    BY <1>3, CountTail
  <2>4. Head(q).id = id <=> Head(q) \in P
    BY <2>1 DEF Carrying
  <2> HIDE DEF P
  <2> QED  BY <1>1, <2>2, <2>3, <2>4
<1> QED  BY <1>1, <1>2, <1>3

LEMMA AskedFacts ==
    ASSUME NEW q \in Seq(Requests), NEW c, NEW id
    PROVE  /\ Asked(q, c, id) \in Nat
           /\ \A x \in Requests :
                 /\ x.c = c /\ x.id = id => Asked(Append(q, x), c, id) = Asked(q, c, id) + 1
                 /\ ~ (x.c = c /\ x.id = id) => Asked(Append(q, x), c, id) = Asked(q, c, id)
           /\ q # <<>> =>
                 /\ Head(q).c = c /\ Head(q).id = id => Asked(q, c, id) = Asked(Tail(q), c, id) + 1
                 /\ ~ (Head(q).c = c /\ Head(q).id = id) => Asked(q, c, id) = Asked(Tail(q), c, id)
<1> DEFINE P == Asking(c, id)
<1>1. Asked(q, c, id) = Count(q, P) /\ Count(q, P) \in Nat
  BY AskedCount
<1>2. ASSUME NEW x \in Requests
      PROVE  /\ x.c = c /\ x.id = id => Asked(Append(q, x), c, id) = Asked(q, c, id) + 1
             /\ ~ (x.c = c /\ x.id = id) => Asked(Append(q, x), c, id) = Asked(q, c, id)
  <2>1. Append(q, x) \in Seq(Requests)
    BY AppendProperties
  <2>2. Asked(Append(q, x), c, id) = Count(Append(q, x), P)
    BY <2>1, AskedCount
  <2>3. Count(Append(q, x), P) = Count(q, P) + (IF x \in P THEN 1 ELSE 0)
    BY CountAppend
  <2>4. (x.c = c /\ x.id = id) <=> x \in P
    BY DEF Asking
  <2> HIDE DEF P
  <2> QED  BY <1>1, <2>2, <2>3, <2>4
<1>3. ASSUME q # <<>>
      PROVE  /\ Head(q).c = c /\ Head(q).id = id => Asked(q, c, id) = Asked(Tail(q), c, id) + 1
             /\ ~ (Head(q).c = c /\ Head(q).id = id) => Asked(q, c, id) = Asked(Tail(q), c, id)
  <2>1. Head(q) \in Requests /\ Tail(q) \in Seq(Requests)
    BY <1>3, HeadTailProperties
  <2>2. Asked(Tail(q), c, id) = Count(Tail(q), P) /\ Count(Tail(q), P) \in Nat
    BY <2>1, AskedCount
  <2>3. Count(q, P) = Count(Tail(q), P) + (IF Head(q) \in P THEN 1 ELSE 0)
    BY <1>3, CountTail
  <2>4. (Head(q).c = c /\ Head(q).id = id) <=> Head(q) \in P
    BY <2>1 DEF Asking
  <2> HIDE DEF P
  <2> QED  BY <1>1, <2>2, <2>3, <2>4
<1> QED  BY <1>1, <1>2, <1>3

LEMMA CarriedTail ==
    ASSUME NEW E, NEW q \in Seq(E), q # <<>>, NEW id
    PROVE  /\ Head(q).id = id => Carried(q, id) = Carried(Tail(q), id) + 1
           /\ Head(q).id # id => Carried(q, id) = Carried(Tail(q), id)
           /\ Carried(Tail(q), id) \in Nat
<1>1. Tail(q) \in Seq(E)
  BY HeadTailProperties
<1>2. Carried(Tail(q), id) \in Nat
  BY <1>1, CarriedFacts
<1>3. /\ Head(q).id = id => Carried(q, id) = Carried(Tail(q), id) + 1
      /\ Head(q).id # id => Carried(q, id) = Carried(Tail(q), id)
  BY CarriedFacts
<1> QED  BY <1>2, <1>3

LEMMA CarriedEmpty == ASSUME NEW id PROVE Carried(<<>>, id) = 0
<1>1. {i \in DOMAIN <<>> : <<>>[i].id = id} = {}
  OBVIOUS
<1> QED  BY <1>1, FS_EmptySet DEF Carried

LEMMA AskedEmpty == ASSUME NEW c, NEW id PROVE Asked(<<>>, c, id) = 0
<1>1. {i \in DOMAIN <<>> : <<>>[i].c = c /\ <<>>[i].id = id} = {}
  OBVIOUS
<1> QED  BY <1>1, FS_EmptySet DEF Asked

\* An element of the queue is counted.
LEMMA CarriedSome ==
    ASSUME NEW E, NEW q \in Seq(E), NEW i \in DOMAIN q
    PROVE  Carried(q, q[i].id) # 0
<1> DEFINE S == {j \in DOMAIN q : q[j].id = q[i].id}
<1>1. i \in S
  OBVIOUS
<1>2. IsFiniteSet(S)
  <2>1. DOMAIN q = 1 .. Len(q) /\ Len(q) \in Nat
    BY LenProperties
  <2>2. IsFiniteSet(1 .. Len(q)) /\ S \in SUBSET (1 .. Len(q))
    BY <2>1, FS_Interval
  <2> HIDE DEF S
  <2> QED  BY <2>2, FS_Subset
<1>3. Cardinality(S) # 0
  <2> HIDE DEF S
  <2> QED  BY <1>1, <1>2, FS_EmptySet
<1> QED  BY <1>3 DEF Carried

\* A message put into the outbox of a connection counts for the request it answers.
CountedFor(answers, cn, d, id) ==
  /\ answers => \/ Carried(d.outbox, id) = Carried(cn.outbox, id) + 1
                \/ Carried(d.outbox, id) = Carried(cn.outbox, id) /\ id \in d.missed
  /\ ~ answers => Carried(d.outbox, id) = Carried(cn.outbox, id)

LEMMA DeliveredCount ==
    ASSUME NEW cn \in Connections, NEW c, NEW e \in Effects, NEW id
    PROVE  CountedFor(c \in e.to /\ e.msg.id = id, cn, Delivered(cn, c, e), id)
<1> DEFINE d == Delivered(cn, c, e)
<1>1. /\ d.outbox \in {cn.outbox, Append(cn.outbox, e.msg)}
      /\ d.outbox # cn.outbox => c \in e.to
      /\ c \in e.to /\ d.outbox = cn.outbox => e.msg.id \in d.missed
  BY DeliveredFacts
<1>2. cn.outbox \in Seq(Messages) /\ e.msg \in Messages
  BY DEF Connections, Effects
<1>3. /\ e.msg.id = id => Carried(Append(cn.outbox, e.msg), id) = Carried(cn.outbox, id) + 1
      /\ e.msg.id # id => Carried(Append(cn.outbox, e.msg), id) = Carried(cn.outbox, id)
  BY <1>2, CarriedFacts
<1> HIDE DEF d
<1>4. CASE d.outbox = cn.outbox
  BY <1>1, <1>4 DEF d, CountedFor
<1>5. CASE d.outbox # cn.outbox
  BY <1>1, <1>3, <1>5 DEF d, CountedFor
<1> QED  BY <1>4, <1>5

-----------------------------------------------------------------------------
(* What a command changes *)

\* The loop writes into outboxes only.
Kept(c) ==
  /\ conn'[c].is = conn[c].is /\ conn'[c].up = conn[c].up /\ conn'[c].down = conn[c].down
  /\ conn[c].missed \subseteq conn'[c].missed

\* Of the requests, the one of the command is answered, once, if its client still
\* has its connection and the outbox has room.
Replied(r, c, id) ==
  LET before == Carried(conn[c].outbox, id)
      after == Carried(conn'[c].outbox, id)
  IN  /\ ~ (c = r.c /\ id = r.id) => after = before
      /\ after \in {before, before + 1}
      /\ c = r.c /\ id = r.id => after = before + 1 \/ id \in conn'[c].missed \/ conn[c].is # "open"

LEMMA ReplyExecuted ==
    ASSUME TypeOK, NEW r \in Requests, NEW table \in Nat, Execute(Reply(r.c, r.id, table)),
           NEW c \in Conns, NEW id \in Nat
    PROVE  Kept(c) /\ Replied(r, c, id)
<1> DEFINE e == Reply(r.c, r.id, table)
<1>1. r.c \in Conns /\ r.id \in Nat \ {0}
  BY DEF Requests
<1>2. e \in Effects /\ e.msg.id = r.id /\ (c \in e.to <=> c = r.c /\ conn[c].is = "open")
  <2>1. e \in Effects /\ e.msg = Message(r.id, table) /\ e.to = {r.c} \cap Open
    BY <1>1, ReplyType
  <2>2. e.msg.id = r.id
    BY <2>1 DEF Message
  <2>3. c \in e.to <=> c = r.c /\ conn[c].is = "open"
    BY <2>1 DEF Open
  <2> QED  BY <2>1, <2>2, <2>3
<1>3. conn[c] \in Connections /\ conn'[c] = Delivered(conn[c], c, e)
  BY <1>2, ExecuteFacts DEF TypeOK
<1> HIDE DEF e
<1>4. Kept(c)
  BY <1>2, <1>3, DeliveredFacts DEF Kept
<1>5. CountedFor(c \in e.to /\ e.msg.id = id, conn[c], conn'[c], id)
  BY <1>2, <1>3, DeliveredCount
<1>6. Replied(r, c, id)
  BY <1>2, <1>5 DEF Replied, CountedFor
<1> QED  BY <1>4, <1>6

\* The same with a broadcast before the reply or after it.
LEMMA ReplyBroadcast ==
    ASSUME TypeOK, NEW r \in Requests, NEW b \in Effects, b.msg.id = 0,
           ExecuteBoth(Reply(r.c, r.id, 0), b) \/ ExecuteBoth(b, Reply(r.c, r.id, 0)),
           NEW c \in Conns, NEW id \in Nat \ {0}
    PROVE  Kept(c) /\ Replied(r, c, id)
<1> DEFINE e == Reply(r.c, r.id, 0)
<1>1. r.c \in Conns /\ r.id \in Nat \ {0} /\ conn[c] \in Connections
  BY DEF Requests, TypeOK
<1>2. e \in Effects /\ e.msg.id = r.id /\ (c \in e.to <=> c = r.c /\ conn[c].is = "open")
  <2>1. e \in Effects /\ e.msg = Message(r.id, 0) /\ e.to = {r.c} \cap Open
    BY <1>1, ReplyType
  <2>2. e.msg.id = r.id
    BY <2>1 DEF Message
  <2>3. c \in e.to <=> c = r.c /\ conn[c].is = "open"
    BY <2>1 DEF Open
  <2> QED  BY <2>1, <2>2, <2>3
<1>3. ASSUME ExecuteBoth(e, b)
      PROVE  Kept(c) /\ Replied(r, c, id)
  <2> DEFINE cn == Delivered(conn[c], c, e)
  <2>1. conn'[c] = Delivered(cn, c, b) /\ cn \in Connections
    BY <1>2, <1>3, ExecuteBothFacts
  <2> HIDE DEF e
  <2>2. cn.is = conn[c].is /\ cn.up = conn[c].up /\ cn.down = conn[c].down /\ conn[c].missed \subseteq cn.missed
    BY <1>1, <1>2, DeliveredFacts
  <2>3. CountedFor(c \in e.to /\ e.msg.id = id, conn[c], cn, id)
    BY <1>1, <1>2, DeliveredCount
  <2> HIDE DEF cn
  <2>4. conn'[c].is = cn.is /\ conn'[c].up = cn.up /\ conn'[c].down = cn.down /\ cn.missed \subseteq conn'[c].missed
    BY <2>1, DeliveredFacts
  <2>5. Carried(conn'[c].outbox, id) = Carried(cn.outbox, id)
    <3>1. CountedFor(c \in b.to /\ b.msg.id = id, cn, conn'[c], id)
      BY <2>1, DeliveredCount
    <3> QED  BY <3>1 DEF CountedFor
  <2> QED  BY <1>2, <2>2, <2>3, <2>4, <2>5 DEF Kept, Replied, CountedFor
<1>4. ASSUME ExecuteBoth(b, e)
      PROVE  Kept(c) /\ Replied(r, c, id)
  <2> DEFINE cn == Delivered(conn[c], c, b)
  <2>1. conn'[c] = Delivered(cn, c, e) /\ cn \in Connections
    BY <1>2, <1>4, ExecuteBothFacts
  <2> HIDE DEF e
  <2>2. cn.is = conn[c].is /\ cn.up = conn[c].up /\ cn.down = conn[c].down /\ conn[c].missed \subseteq cn.missed
    BY <1>1, DeliveredFacts
  <2>5. Carried(cn.outbox, id) = Carried(conn[c].outbox, id)
    <3>1. CountedFor(c \in b.to /\ b.msg.id = id, conn[c], cn, id)
      BY <1>1, DeliveredCount
    <3> QED  BY <3>1 DEF CountedFor
  <2> HIDE DEF cn
  <2>3. conn'[c].is = cn.is /\ conn'[c].up = cn.up /\ conn'[c].down = cn.down /\ cn.missed \subseteq conn'[c].missed
    BY <1>2, <2>1, DeliveredFacts
  <2>4. CountedFor(c \in e.to /\ e.msg.id = id, cn, conn'[c], id)
    BY <1>2, <2>1, DeliveredCount
  <2> QED  BY <1>2, <2>2, <2>3, <2>4, <2>5 DEF Kept, Replied, CountedFor
<1> QED  BY <1>3, <1>4

Answering == Subscribe \/ Unsubscribe \/ ListSessions \/ DriverHook

LEMMA AnsweringFacts ==
    ASSUME TypeOK, Answering
    PROVE  /\ ~ server.stopped /\ server.busy = Idle /\ commands # <<>> /\ commands' = Tail(commands)
           /\ Head(commands) \in Requests
           /\ UNCHANGED <<internal, client>> /\ server'.busy = Idle
           /\ server'.stopping = server.stopping /\ server'.stopped = server.stopped
           /\ \A c \in Conns, id \in Nat \ {0} : Kept(c) /\ Replied(Head(commands), c, id)
<1> DEFINE r == Head(commands)
<1>1. PICK kinds : Take(kinds)
  BY DEF Answering, Subscribe, Unsubscribe, ListSessions, DriverHook
<1>2. /\ ~ server.stopped /\ server.busy = Idle /\ commands # <<>> /\ commands' = Tail(commands)
      /\ Head(commands) \in Requests
  BY <1>1, TakeFacts DEF Take, LoopReady
<1>3. /\ UNCHANGED <<internal, client>> /\ server'.busy = server.busy
      /\ server'.stopping = server.stopping /\ server'.stopped = server.stopped
  BY DEF Answering, Subscribe, Unsubscribe, ListSessions, DriverHook, TypeOK
<1>4. ASSUME NEW c \in Conns, NEW id \in Nat \ {0}
      PROVE  Kept(c) /\ Replied(r, c, id)
  <2>1. CASE Subscribe
    <3> DEFINE b == BroadcastSessionsChanged(server.subscribers \cup {r.c}, server.version)
    <3>1. b \in Effects /\ ExecuteBoth(Reply(r.c, r.id, 0), b)
      BY <2>1, SubscribeFacts
    <3>2. b.msg.id = 0
      BY DEF BroadcastSessionsChanged, To, Message
    <3> HIDE DEF b
    <3> QED  BY <1>2, <3>1, <3>2, ReplyBroadcast
  <2>2. CASE DriverHook
    <3> DEFINE b == BroadcastSessionsChanged(server.subscribers, server'.version)
    <3>1. b \in Effects /\ ExecuteBoth(b, Reply(r.c, r.id, 0))
      BY <2>2, DriverHookFacts
    <3>2. b.msg.id = 0
      BY DEF BroadcastSessionsChanged, To, Message
    <3> HIDE DEF b
    <3> QED  BY <1>2, <3>1, <3>2, ReplyBroadcast
  <2>3. CASE Unsubscribe
    BY <1>2, <2>3, ReplyExecuted DEF Unsubscribe
  <2>4. CASE ListSessions
    <3>1. server.version \in Nat
      BY TypeParts
    <3> QED  BY <1>2, <2>4, <3>1, ReplyExecuted DEF ListSessions
  <2> QED  BY <2>1, <2>2, <2>3, <2>4 DEF Answering
<1> QED  BY <1>2, <1>3, <1>4

\* A change broadcasts, and answers nobody.
LEMMA ChangeCounts ==
    ASSUME TypeOK, Change
    PROVE  /\ UNCHANGED <<internal, commands, client>> /\ server'.busy = server.busy
           /\ server'.stopping = server.stopping /\ server'.stopped = server.stopped
           /\ \A c \in Conns, id \in Nat \ {0} : Kept(c) /\ Carried(conn'[c].outbox, id) = Carried(conn[c].outbox, id)
<1>1. /\ UNCHANGED <<internal, commands, client>> /\ server'.busy = server.busy
      /\ server'.stopping = server.stopping /\ server'.stopped = server.stopped
  BY DEF Change, TypeOK
<1> DEFINE b == BroadcastSessionsChanged(server.subscribers, server.version + 1)
<1>2. b \in Effects /\ Execute(b) /\ b.msg.id = 0
  BY ChangeFacts DEF BroadcastSessionsChanged, To, Message
<1>3. ASSUME NEW c \in Conns, NEW id \in Nat \ {0}
      PROVE  Kept(c) /\ Carried(conn'[c].outbox, id) = Carried(conn[c].outbox, id)
  <2> HIDE DEF b
  <2>1. conn'[c] = Delivered(conn[c], c, b) /\ conn[c] \in Connections
    BY <1>2, ExecuteFacts DEF TypeOK
  <2>2. Kept(c)
    BY <1>2, <2>1, DeliveredFacts DEF Kept
  <2>3. CountedFor(c \in b.to /\ b.msg.id = id, conn[c], Delivered(conn[c], c, b), id)
    BY <1>2, <2>1, DeliveredCount
  <2> QED  BY <1>2, <2>1, <2>2, <2>3 DEF CountedFor
<1> QED  BY <1>1, <1>3

-----------------------------------------------------------------------------
(* What a step changes of connections and clients *)

Others(c) == \A d \in Conns \ {c} : conn'[d] = conn[d]

LEMMA OnlyOne ==
    ASSUME TypeOK, NEW c \in Conns, NEW cn, conn' = [conn EXCEPT ![c] = cn]
    PROVE  conn'[c] = cn /\ Others(c)
  BY DEF TypeOK, Others

LEMMA AcceptFacts ==
    ASSUME TypeOK, NEW c \in Conns, Accept(c)
    PROVE  /\ conn[c].is = "dialled" /\ conn'[c].is \in {"posted", "dropped"} /\ Others(c)
           /\ conn'[c].up = conn[c].up /\ conn'[c].outbox = conn[c].outbox /\ conn'[c].down = conn[c].down
           /\ conn'[c].missed = conn[c].missed
<1> DEFINE is == IF Full(internal) THEN "dropped" ELSE "posted"
<1>1. conn[c] \in Connections /\ conn[c].is = "dialled" /\ conn' = [conn EXCEPT ![c] = [conn[c] EXCEPT !.is = is]]
  BY DEF TypeOK, Accept
<1>2. is \in {"posted", "dropped"}
  OBVIOUS
<1> HIDE DEF is
<1>3. conn'[c] = [conn[c] EXCEPT !.is = is] /\ Others(c)
  BY <1>1, OnlyOne
<1> QED  BY <1>1, <1>2, <1>3 DEF Connections

LEMMA OpenFacts ==
    ASSUME TypeOK, HandleConnOpen
    PROVE  LET c == Head(internal).c
           IN  /\ c \in Conns /\ conn'[c].is = "open" /\ Others(c)
               /\ conn'[c].up = conn[c].up /\ conn'[c].outbox = conn[c].outbox /\ conn'[c].down = conn[c].down
               /\ conn'[c].missed = conn[c].missed
<1> DEFINE c == Head(internal).c
           cn == [conn[c] EXCEPT !.is = "open", !.reading = TRUE, !.writing = TRUE]
<1>1. c \in Conns
  BY TypeParts DEF HandleConnOpen
<1>2. conn[c] \in Connections /\ conn' = [conn EXCEPT ![c] = cn]
  BY <1>1 DEF HandleConnOpen, TypeOK
<1>3. conn'[c] = cn /\ Others(c)
  <2> HIDE DEF c, cn
  <2> QED  BY <1>1, <1>2, OnlyOne
<1>4. /\ cn.is = "open" /\ cn.up = conn[c].up /\ cn.outbox = conn[c].outbox /\ cn.down = conn[c].down
      /\ cn.missed = conn[c].missed
  <2> HIDE DEF c
  <2> QED  BY <1>2 DEF Connections
<1> HIDE DEF cn
<1> QED  BY <1>1, <1>3, <1>4

LEMMA ShutFacts ==
    ASSUME NEW cn \in Connections
    PROVE  /\ Shut(cn).is = "shut" /\ Shut(cn).up = <<>> /\ Shut(cn).outbox = <<>>
           /\ Shut(cn).down = cn.down /\ Shut(cn).missed = cn.missed
  BY DEF Shut, Connections

LEMMA CloseConnFacts ==
    ASSUME TypeOK, HandleConnClose
    PROVE  LET c == Head(internal).c IN c \in Conns /\ conn'[c] = Shut(conn[c]) /\ Others(c)
<1> DEFINE c == Head(internal).c
<1>1. c \in Conns
  BY TypeParts DEF HandleConnClose
<1>2. conn' = [conn EXCEPT ![c] = Shut(conn[c])]
  BY DEF HandleConnClose
<1> HIDE DEF c
<1>3. conn'[c] = Shut(conn[c]) /\ Others(c)
  BY <1>1, <1>2, OnlyOne
<1> QED  BY <1>1, <1>3 DEF c

\* The reader goroutine posts the command, or answers it, or drops it.
LEMMA ReadFacts ==
    ASSUME TypeOK, NEW c \in Conns, Read(c)
    PROVE  LET r == Head(conn[c].up)
               q == Command(c, r)
           IN  /\ r \in Frames /\ q \in Requests /\ q.c = c /\ q.id = r.id
               /\ conn[c].is = "open" /\ conn'[c].is = "open" /\ conn[c].up # <<>> /\ Others(c)
               /\ conn'[c].up = Tail(conn[c].up) /\ conn'[c].down = conn[c].down
               /\ conn[c].missed \subseteq conn'[c].missed
               /\ \/ /\ commands' = Append(commands, q) /\ conn'[c].outbox = conn[c].outbox
                  \/ /\ commands' = commands /\ conn'[c].outbox = conn[c].outbox /\ r.id \in conn'[c].missed
                  \/ /\ commands' = commands /\ conn'[c].outbox = Append(conn[c].outbox, Message(r.id, 0))
<1> DEFINE r == Head(conn[c].up)
           q == Command(c, r)
           m == Message(r.id, 0)
           rest == [conn[c] EXCEPT !.up = Tail(@)]
<1>1. conn[c] \in Connections /\ conn[c].up # <<>> /\ conn[c].is = "open"
  BY DEF TypeOK, Read
<1>2. r \in Frames /\ Tail(conn[c].up) \in Seq(Frames)
  BY <1>1, HeadTailProperties DEF Connections
<1>3. q \in Requests /\ q.c = c /\ q.id = r.id /\ m \in Messages /\ m.id = r.id
  BY <1>2 DEF Command, Requests, Frames, Message, Messages
<1>4. /\ rest \in Connections /\ rest.is = conn[c].is /\ rest.up = Tail(conn[c].up)
      /\ rest.outbox = conn[c].outbox /\ rest.down = conn[c].down /\ rest.missed = conn[c].missed
  BY <1>1, <1>2 DEF Connections
<1>5. /\ Queued(rest, m) \in Connections
      /\ Queued(rest, m).outbox \in {rest.outbox, Append(rest.outbox, m)}
      /\ Queued(rest, m).outbox = rest.outbox => m.id \in Queued(rest, m).missed
      /\ Queued(rest, m).down = rest.down /\ Queued(rest, m).is = rest.is /\ Queued(rest, m).up = rest.up
      /\ rest.missed \subseteq Queued(rest, m).missed
  BY <1>3, <1>4, QueuedFacts
<1> DEFINE less == [rest EXCEPT !.missed = rest.missed \cup {r.id}]
<1>6. /\ less.is = rest.is /\ less.up = rest.up /\ less.outbox = rest.outbox /\ less.down = rest.down
      /\ less.missed = rest.missed \cup {r.id}
  <2> HIDE DEF rest, r
  <2> QED  BY <1>4 DEF Connections
<1>7. \/ conn' = [conn EXCEPT ![c] = Queued(rest, m)] /\ commands' = commands
      \/ conn' = [conn EXCEPT ![c] = rest] /\ commands' = Append(commands, q)
      \/ conn' = [conn EXCEPT ![c] = less] /\ commands' = commands
  <2>1. CASE ~ Decodes(r)
    BY <2>1 DEF Read
  <2>2. CASE Decodes(r) /\ Full(commands)
    BY <2>2 DEF Read, Posted
  <2>3. CASE Decodes(r) /\ ~ Full(commands)
    BY <2>3 DEF Read, Posted
  <2> QED  BY <2>1, <2>2, <2>3
<1> HIDE DEF rest, r, q, m, less
<1>8. Others(c)
  BY <1>7, OnlyOne
<1>9. CASE conn' = [conn EXCEPT ![c] = Queued(rest, m)] /\ commands' = commands
  <2>1. conn'[c] = Queued(rest, m)
    BY <1>9, OnlyOne
  <2> QED  BY <1>1, <1>2, <1>3, <1>4, <1>5, <1>8, <1>9, <2>1 DEF r, q, m
<1>10. CASE conn' = [conn EXCEPT ![c] = rest] /\ commands' = Append(commands, q)
  <2>1. conn'[c] = rest
    BY <1>10, OnlyOne
  <2> QED  BY <1>1, <1>2, <1>3, <1>4, <1>8, <1>10, <2>1 DEF r, q
<1>11. CASE conn' = [conn EXCEPT ![c] = less] /\ commands' = commands
  <2>1. conn'[c] = less
    BY <1>11, OnlyOne
  <2> QED  BY <1>1, <1>2, <1>3, <1>4, <1>6, <1>8, <1>11, <2>1 DEF r, q
<1> QED  BY <1>7, <1>9, <1>10, <1>11

LEMMA ReadEndsFacts ==
    ASSUME TypeOK, NEW c \in Conns, ReadEnds(c)
    PROVE  /\ Gone(c) /\ Others(c) /\ conn'[c].is = conn[c].is /\ conn'[c].up = conn[c].up
           /\ conn'[c].outbox = conn[c].outbox /\ conn'[c].down = conn[c].down /\ conn'[c].missed = conn[c].missed
<1> DEFINE cn == [conn[c] EXCEPT !.reading = FALSE]
<1>1. conn[c] \in Connections /\ Gone(c) /\ conn' = [conn EXCEPT ![c] = cn]
  BY DEF TypeOK, ReadEnds
<1>2. /\ cn.is = conn[c].is /\ cn.up = conn[c].up /\ cn.outbox = conn[c].outbox /\ cn.down = conn[c].down
      /\ cn.missed = conn[c].missed
  BY <1>1 DEF Connections
<1> HIDE DEF cn
<1>3. conn'[c] = cn /\ Others(c)
  BY <1>1, OnlyOne
<1> QED  BY <1>1, <1>2, <1>3

LEMMA WriteFacts ==
    ASSUME TypeOK, NEW c \in Conns, Write(c)
    PROVE  /\ conn[c].outbox # <<>> /\ Others(c)
           /\ conn'[c].is = conn[c].is /\ conn'[c].up = conn[c].up /\ conn'[c].missed = conn[c].missed
           /\ conn'[c].outbox = Tail(conn[c].outbox)
           /\ \/ conn'[c].down = Append(conn[c].down, Head(conn[c].outbox))
              \/ Gone(c) /\ conn'[c].down = conn[c].down
<1> DEFINE moved == [conn[c] EXCEPT !.outbox = Tail(conn[c].outbox),
                                    !.down = Append(conn[c].down, Head(conn[c].outbox))]
           broken == [conn[c] EXCEPT !.outbox = Tail(conn[c].outbox), !.writing = FALSE]
<1>1. conn[c] \in Connections /\ conn[c].outbox # <<>>
  BY DEF TypeOK, Write
<1>2. conn' = [conn EXCEPT ![c] = moved] \/ (conn' = [conn EXCEPT ![c] = broken] /\ Gone(c))
  BY DEF Write, TypeOK
<1>3. /\ moved.is = conn[c].is /\ moved.up = conn[c].up /\ moved.missed = conn[c].missed
      /\ moved.outbox = Tail(conn[c].outbox) /\ moved.down = Append(conn[c].down, Head(conn[c].outbox))
  BY <1>1 DEF Connections
<1>4. /\ broken.is = conn[c].is /\ broken.up = conn[c].up /\ broken.missed = conn[c].missed
      /\ broken.outbox = Tail(conn[c].outbox) /\ broken.down = conn[c].down
  BY <1>1 DEF Connections
<1> HIDE DEF moved, broken
<1>5. Others(c) /\ (conn'[c] = moved \/ (conn'[c] = broken /\ Gone(c)))
  BY <1>2, OnlyOne
<1> QED  BY <1>1, <1>3, <1>4, <1>5

LEMMA SyncFacts ==
    ASSUME TypeOK, SendResponseSync
    PROVE  LET r == server.busy
           IN  /\ r \in Requests /\ r.c \in Conns /\ r.id \in Nat \ {0} /\ Others(r.c)
               /\ conn'[r.c].is = conn[r.c].is /\ conn'[r.c].up = conn[r.c].up
               /\ conn'[r.c].outbox = conn[r.c].outbox /\ conn'[r.c].missed = conn[r.c].missed
               /\ \/ conn'[r.c].down = Append(conn[r.c].down, Message(r.id, 0))
                  \/ (conn[r.c].is # "open" \/ Gone(r.c)) /\ conn'[r.c].down = conn[r.c].down
<1> DEFINE r == server.busy
           cn == [conn[r.c] EXCEPT !.down = Append(conn[r.c].down, Message(r.id, 0))]
<1>1. r \in Requests /\ r.c \in Conns /\ r.id \in Nat \ {0}
  <2>1. r \in Requests
    BY TypeParts DEF SendResponseSync
  <2> QED  BY <2>1 DEF Requests
<1>2. conn[r.c] \in Connections
  BY <1>1 DEF TypeOK
<1>3. \/ conn' = [conn EXCEPT ![r.c] = cn]
      \/ conn' = conn /\ (conn[r.c].is # "open" \/ Gone(r.c))
  BY <1>1 DEF SendResponseSync, TypeOK, Open
<1>4. /\ cn.is = conn[r.c].is /\ cn.up = conn[r.c].up /\ cn.missed = conn[r.c].missed
      /\ cn.outbox = conn[r.c].outbox /\ cn.down = Append(conn[r.c].down, Message(r.id, 0))
  <2> HIDE DEF r
  <2> QED  BY <1>2 DEF Connections
<1>5. CASE conn' = [conn EXCEPT ![r.c] = cn]
  <2> HIDE DEF cn, r
  <2>1. conn'[r.c] = cn /\ Others(r.c)
    BY <1>1, <1>5, OnlyOne
  <2> QED  BY <1>1, <1>4, <2>1 DEF r
<1>6. CASE conn' = conn /\ (conn[r.c].is # "open" \/ Gone(r.c))
  BY <1>1, <1>6 DEF Others
<1> QED  BY <1>3, <1>5, <1>6

LEMMA ReceiveFacts ==
    ASSUME TypeOK, NEW c \in Conns, Receive(c)
    PROVE  LET msg == Head(conn[c].down)
           IN  /\ msg \in Messages /\ conn[c].down # <<>> /\ Others(c) /\ conn'[c].down = Tail(conn[c].down)
               /\ conn'[c].is = conn[c].is /\ conn'[c].up = conn[c].up /\ conn'[c].outbox = conn[c].outbox
               /\ conn[c].missed \subseteq conn'[c].missed
               /\ \/ msg.id = 0 /\ DispatchEvent(c, msg)
                  \/ msg.id # 0 /\ DispatchResponse(c, msg)
<1> DEFINE msg == Head(conn[c].down)
           cn == [conn[c] EXCEPT !.down = Tail(conn[c].down)]
           less == [conn[c] EXCEPT !.down = Tail(conn[c].down), !.missed = conn[c].missed \cup {0}]
<1>1. conn[c] \in Connections /\ conn[c].down # <<>>
  BY DEF TypeOK, Receive
<1>2. msg \in Messages
  BY <1>1, HeadTailProperties DEF Connections
<1>3. \/ msg.id = 0 /\ DispatchEvent(c, msg)
      \/ msg.id # 0 /\ DispatchResponse(c, msg)
  BY DEF Receive
<1>4. conn' = [conn EXCEPT ![c] = cn] \/ conn' = [conn EXCEPT ![c] = less]
  <2>1. CASE DispatchEvent(c, msg)
    BY <1>1, <2>1 DEF DispatchEvent, TypeOK, Connections
  <2>2. CASE DispatchResponse(c, msg)
    BY <1>1, <2>2 DEF DispatchResponse, TypeOK, Connections
  <2> QED  BY <1>3, <2>1, <2>2
<1>5. /\ cn.down = Tail(conn[c].down) /\ cn.is = conn[c].is /\ cn.up = conn[c].up /\ cn.outbox = conn[c].outbox
      /\ cn.missed = conn[c].missed
  BY <1>1 DEF Connections
<1>6. /\ less.down = Tail(conn[c].down) /\ less.is = conn[c].is /\ less.up = conn[c].up
      /\ less.outbox = conn[c].outbox /\ conn[c].missed \subseteq less.missed
  BY <1>1 DEF Connections
<1> HIDE DEF cn, less
<1>7. Others(c) /\ conn'[c] \in {cn, less}
  BY <1>4, OnlyOne
<1> QED  BY <1>1, <1>2, <1>3, <1>5, <1>6, <1>7

LEMMA CloseFacts ==
    ASSUME TypeOK, NEW c \in Conns, Close(c)
    PROVE  /\ Others(c) /\ conn'[c].down = <<>> /\ conn'[c].is = conn[c].is /\ conn'[c].up = conn[c].up
           /\ conn'[c].outbox = conn[c].outbox /\ conn'[c].missed = conn[c].missed
           /\ Pending(c)' = {} /\ client'[c].phase = "gone" /\ client'[c].events = <<>>
           /\ client'[c].sent = client[c].sent /\ \A d \in Conns \ {c} : client'[d] = client[d]
<1> DEFINE cn == [conn[c] EXCEPT !.down = <<>>]
           o == [id \in DOMAIN client[c].outcome |-> IF id \in Pending(c) THEN "woken" ELSE client[c].outcome[id]]
           cl == [client[c] EXCEPT !.phase = "gone", !.events = <<>>, !.outcome = o]
<1>1. conn[c] \in Connections /\ conn' = [conn EXCEPT ![c] = cn]
  BY DEF Close, TypeOK
<1>2. /\ cn.down = <<>> /\ cn.is = conn[c].is /\ cn.up = conn[c].up /\ cn.outbox = conn[c].outbox
      /\ cn.missed = conn[c].missed
  BY <1>1 DEF Connections
<1>3. conn'[c] = cn /\ Others(c)
  <2> HIDE DEF cn
  <2> QED  BY <1>1, OnlyOne
<1>4. client[c] \in Clients
  BY DEF TypeOK
<1>5. client' = [client EXCEPT ![c] = cl]
  BY <1>4 DEF Close, TypeOK, Clients
<1>6. cl.phase = "gone" /\ cl.events = <<>> /\ cl.outcome = o /\ cl.sent = client[c].sent
  <2> HIDE DEF o
  <2> QED  BY <1>4 DEF Clients
<1>7. client'[c] = cl /\ \A d \in Conns \ {c} : client'[d] = client[d]
  <2> HIDE DEF cl
  <2> QED  BY <1>5 DEF TypeOK
<1>8. \A id \in DOMAIN o : o[id] # "pending"
  BY DEF Pending
<1>9. Pending(c)' = {}
  <2> HIDE DEF o, cl
  <2> QED  BY <1>6, <1>7, <1>8 DEF Pending
<1> HIDE DEF cl, cn
<1> QED  BY <1>2, <1>3, <1>6, <1>7, <1>9

-----------------------------------------------------------------------------
(* Lives of connections and clients *)

\* While the loop runs it shuts only the connections of clients that are gone.
ShutGone == \A c \in Conns : conn[c].is = "shut" => Gone(c) \/ server.stopped
ClosingGone == \A i \in DOMAIN internal : internal[i].k = "close" => Gone(internal[i].c)

\* Who is gone, or has not dialled, waits for nothing.
GoneSilent == \A c \in Conns : Gone(c) \/ conn[c].is = "none" => Pending(c) = {}

\* Commands come from connections the loop has had.
AskersKnown == \A i \in DOMAIN commands : conn[commands[i].c].is \in {"open", "shut"}
BusyKnown == server.busy # Idle => conn[server.busy.c].is \in {"open", "shut"}

Lives == ShutGone /\ ClosingGone /\ GoneSilent /\ AskersKnown /\ BusyKnown

LEMMA LivesInit == Init => Lives
<1> SUFFICES ASSUME Init
             PROVE  Lives
  OBVIOUS
<1>1. \A c \in Conns : conn[c].is = "none" /\ Pending(c) = {}
  BY DEF Init, Pending
<1>2. internal = <<>> /\ commands = <<>> /\ server.busy = Idle
  BY DEF Init
<1> QED  BY <1>1, <1>2 DEF Lives, ShutGone, ClosingGone, GoneSilent, AskersKnown, BusyKnown

\* A step that opens and shuts nothing.
Quiet ==
  /\ \A c \in Conns : /\ conn'[c].is = conn[c].is /\ client'[c].phase = client[c].phase
                      /\ Pending(c)' \subseteq Pending(c)
  /\ internal' = internal /\ server'.stopped = server.stopped
  /\ \/ commands' = commands
     \/ commands # <<>> /\ commands' = Tail(commands)
     \/ \E r \in Requests : conn[r.c].is = "open" /\ commands' = Append(commands, r)
  /\ \/ server'.busy \in {server.busy, Idle}
     \/ commands # <<>> /\ server'.busy = Head(commands)

LEMMA LivesQuiet == ASSUME TypeOK, Lives, Quiet PROVE Lives'
<1>1. ASSUME NEW c \in Conns
      PROVE  /\ conn'[c].is = conn[c].is /\ Gone(c)' = Gone(c) /\ Pending(c)' \subseteq Pending(c)
  BY DEF Quiet, Gone
<1>2. server'.stopped = server.stopped /\ internal' = internal
  BY DEF Quiet
<1>3. ShutGone' /\ GoneSilent'
  BY <1>1, <1>2 DEF Lives, ShutGone, GoneSilent
<1>4. ClosingGone'
  <2>1. \A i \in DOMAIN internal : internal[i].c \in Conns
    <3>1. \A i \in DOMAIN internal : internal[i] \in [k : {"open", "close"}, c : Conns]
      <4> DEFINE E == [k : {"open", "close"}, c : Conns]
      <4>1. internal \in Seq(E)
        BY DEF TypeOK
      <4>2. \A i \in DOMAIN internal : internal[i] \in E
        <5> HIDE DEF E
        <5> QED  BY <4>1
      <4> QED  BY <4>2
    <3> QED  BY <3>1
  <2> QED  BY <1>1, <1>2, <2>1 DEF Lives, ClosingGone
<1>5. commands \in Seq(Requests)
  BY DEF TypeOK
<1>6. \A i \in DOMAIN commands : commands[i].c \in Conns
  <2>1. \A i \in DOMAIN commands : commands[i] \in Requests
    BY <1>5
  <2> QED  BY <2>1 DEF Requests
<1>7. AskersKnown'
  <2> SUFFICES ASSUME NEW i \in DOMAIN commands'
               PROVE  conn'[commands'[i].c].is \in {"open", "shut"}
    BY DEF AskersKnown
  <2>1. \/ \E j \in DOMAIN commands : commands'[i] = commands[j]
        \/ commands'[i] \in Requests /\ conn[commands'[i].c].is = "open"
    <3>1. CASE commands' = commands
      BY <3>1
    <3>2. CASE commands # <<>> /\ commands' = Tail(commands)
      <4>1. i + 1 \in DOMAIN commands /\ commands'[i] = commands[i + 1]
        BY <1>5, <3>2, TailElements
      <4> QED  BY <4>1
    <3>3. ASSUME NEW r \in Requests, conn[r.c].is = "open", commands' = Append(commands, r)
          PROVE  \/ \E j \in DOMAIN commands : commands'[i] = commands[j]
                 \/ commands'[i] \in Requests /\ conn[commands'[i].c].is = "open"
      <4>1. (i \in DOMAIN commands /\ commands'[i] = commands[i]) \/ commands'[i] = r
        BY <1>5, <3>3, AppendElements
      <4> QED  BY <3>3, <4>1
    <3> QED  BY <3>1, <3>2, <3>3 DEF Quiet
  <2>2. \A r \in Requests : r.c \in Conns
    BY DEF Requests
  <2> QED  BY <1>1, <1>6, <2>1, <2>2 DEF Lives, AskersKnown
<1>8. BusyKnown'
  <2>1. CASE server'.busy \in {server.busy, Idle}
    <3>1. server.busy # Idle => server.busy.c \in Conns
      BY DEF TypeOK, Requests
    <3> QED  BY <1>1, <2>1, <3>1 DEF Lives, BusyKnown
  <2>2. CASE commands # <<>> /\ server'.busy = Head(commands)
    <3>1. 1 \in DOMAIN commands /\ server'.busy = commands[1]
      BY <1>5, <2>2, TailElements
    <3> QED  BY <1>1, <1>6, <3>1 DEF Lives, AskersKnown, BusyKnown
  <2> QED  BY <2>1, <2>2 DEF Quiet
<1> QED  BY <1>3, <1>4, <1>7, <1>8 DEF Lives

LEMMA AnsweringQuiet == ASSUME TypeOK, Answering PROVE Quiet
<1>1. \A c \in Conns : Kept(c)
  <2>1. 1 \in Nat \ {0}
    OBVIOUS
  <2> QED  BY <2>1, AnsweringFacts
<1>2. /\ internal' = internal /\ client' = client /\ commands # <<>> /\ commands' = Tail(commands)
      /\ server'.busy = Idle /\ server'.stopped = server.stopped
  BY AnsweringFacts
<1> QED  BY <1>1, <1>2 DEF Quiet, Kept, Pending

LEMMA ChangeQuiet == ASSUME TypeOK, Change PROVE Quiet
<1>1. \A c \in Conns : Kept(c)
  <2>1. 1 \in Nat \ {0}
    OBVIOUS
  <2> QED  BY <2>1, ChangeCounts
<1>2. /\ internal' = internal /\ client' = client /\ commands' = commands
      /\ server'.busy = server.busy /\ server'.stopped = server.stopped
  BY ChangeCounts
<1> QED  BY <1>1, <1>2 DEF Quiet, Kept, Pending

LEMMA StartSyncQuiet == ASSUME TypeOK, StartSyncResponse PROVE Quiet
<1>1. /\ internal' = internal /\ client' = client /\ conn' = conn
      /\ commands # <<>> /\ commands' = Tail(commands)
      /\ server'.busy = Head(commands) /\ server'.stopped = server.stopped
  BY DEF StartSyncResponse, Take, TypeOK
<1> QED  BY <1>1 DEF Quiet, Pending

LEMMA SendResponseQuiet == ASSUME TypeOK, SendResponseSync PROVE Quiet
<1>1. /\ internal' = internal /\ client' = client /\ commands' = commands
      /\ server'.busy = Idle /\ server'.stopped = server.stopped
  BY DEF SendResponseSync, TypeOK
<1>2. \A c \in Conns : conn'[c].is = conn[c].is
  BY SyncFacts DEF Others
<1> QED  BY <1>1, <1>2 DEF Quiet, Pending

LEMMA ReadQuiet == ASSUME TypeOK, NEW c \in Conns, Read(c) PROVE Quiet
<1>1. \A d \in Conns : conn'[d].is = conn[d].is
  BY ReadFacts DEF Others
<1>2. commands' = commands \/ \E r \in Requests : conn[r.c].is = "open" /\ commands' = Append(commands, r)
  BY ReadFacts
<1>3. internal' = internal /\ client' = client /\ server' = server
  BY DEF Read
<1> QED  BY <1>1, <1>2, <1>3 DEF Quiet, Pending

LEMMA WriteQuiet == ASSUME TypeOK, NEW c \in Conns, Write(c) PROVE Quiet
<1>1. \A d \in Conns : conn'[d].is = conn[d].is
  BY WriteFacts DEF Others
<1>2. UNCHANGED <<server, internal, commands, client>>
  BY DEF Write
<1> QED  BY <1>1, <1>2 DEF Quiet, Pending

LEMMA ReceiveQuiet == ASSUME TypeOK, NEW c \in Conns, Receive(c) PROVE Quiet
<1>1. \A d \in Conns : conn'[d].is = conn[d].is
  BY ReceiveFacts DEF Others
<1>2. \A d \in Conns : client'[d].phase = client[d].phase /\ Pending(d)' \subseteq Pending(d)
  <2>1. CASE DispatchEvent(c, Head(conn[c].down))
    BY <2>1 DEF DispatchEvent, TypeOK, Clients, Pending
  <2>2. CASE DispatchResponse(c, Head(conn[c].down))
    <3> DEFINE id == Head(conn[c].down).id
               cl == [client[c] EXCEPT !.outcome = [client[c].outcome EXCEPT ![id] = "answered"]]
    <3>1. client' = client \/ (id \in Pending(c) /\ client' = [client EXCEPT ![c] = cl])
      BY <2>2 DEF DispatchResponse, TypeOK
    <3>2. ASSUME id \in Pending(c), client' = [client EXCEPT ![c] = cl]
          PROVE  \A d \in Conns : client'[d].phase = client[d].phase /\ Pending(d)' \subseteq Pending(d)
      <4>1. cl.phase = client[c].phase /\ cl.outcome = [client[c].outcome EXCEPT ![id] = "answered"]
        BY DEF TypeOK, Clients
      <4>2. client'[c] = cl /\ \A d \in Conns \ {c} : client'[d] = client[d]
        <5> HIDE DEF cl
        <5> QED  BY <3>2 DEF TypeOK
      <4> HIDE DEF cl, id
      <4> QED  BY <4>1, <4>2 DEF Pending
    <3>3. CASE client' = client
      BY <3>3 DEF Pending
    <3> QED  BY <3>1, <3>2, <3>3
  <2> QED  BY <2>1, <2>2 DEF Receive
<1> QED  BY <1>1, <1>2 DEF Quiet, Receive

LEMMA ClientQuiet ==
    ASSUME TypeOK, NEW c \in Conns, ReceiveEnds(c) \/ Timeout(c) \/ Listen(c) \/ HandleServerEvent(c)
    PROVE  Quiet
<1>1. \A d \in Conns : client'[d].phase = client[d].phase /\ Pending(d)' \subseteq Pending(d)
  <2>1. CASE ReceiveEnds(c)
    BY <2>1 DEF ReceiveEnds, TypeOK, Clients, Pending
  <2>2. CASE Timeout(c)
    BY <2>2 DEF Timeout, TypeOK, Clients, Pending
  <2>3. CASE Listen(c)
    BY <2>3 DEF Listen, TypeOK, Clients, Pending
  <2>4. CASE HandleServerEvent(c)
    BY <2>4 DEF HandleServerEvent, Pending
  <2> QED  BY <2>1, <2>2, <2>3, <2>4
<1>2. UNCHANGED <<server, internal, commands, conn>>
  BY DEF ReceiveEnds, Timeout, Listen, HandleServerEvent
<1> QED  BY <1>1, <1>2 DEF Quiet

\* What does not depend on which connection a step changes.
LEMMA QueueTypes ==
    ASSUME TypeOK
    PROVE  /\ \A i \in DOMAIN internal : internal[i].c \in Conns
           /\ \A i \in DOMAIN commands : commands[i] \in Requests /\ commands[i].c \in Conns
           /\ server.busy # Idle => server.busy \in Requests /\ server.busy.c \in Conns
<1> DEFINE E == [k : {"open", "close"}, c : Conns]
<1>1. internal \in Seq(E) /\ commands \in Seq(Requests) /\ server.busy \in Requests \cup {Idle}
  BY TypeParts DEF TypeOK
<1>2. \A i \in DOMAIN internal : internal[i] \in E
  <2> HIDE DEF E
  <2> QED  BY <1>1
<1>3. \A i \in DOMAIN commands : commands[i] \in Requests
  BY <1>1
<1>4. \A r \in Requests : r.c \in Conns
  BY DEF Requests
<1> QED  BY <1>1, <1>2, <1>3, <1>4

LEMMA PostedElements ==
    ASSUME TypeOK, NEW x \in [k : {"open", "close"}, c : Conns], internal' = Posted(internal, x)
    PROVE  \A i \in DOMAIN internal' : (i \in DOMAIN internal /\ internal'[i] = internal[i]) \/ internal'[i] = x
<1> DEFINE E == [k : {"open", "close"}, c : Conns]
<1>1. internal \in Seq(E) /\ x \in E
  BY DEF TypeOK
<1> HIDE DEF E
<1> QED  BY <1>1, AppendElements DEF Posted

LEMMA InternalTail ==
    ASSUME TypeOK, internal # <<>>, internal' = Tail(internal)
    PROVE  /\ \A i \in DOMAIN internal' : i + 1 \in DOMAIN internal /\ internal'[i] = internal[i + 1]
           /\ 1 \in DOMAIN internal /\ Head(internal) = internal[1]
<1> DEFINE E == [k : {"open", "close"}, c : Conns]
<1>1. internal \in Seq(E)
  BY DEF TypeOK
<1> HIDE DEF E
<1> QED  BY <1>1, TailElements

LEMMA LivesAccept == ASSUME TypeOK, Lives, NEW c \in Conns, Accept(c) PROVE Lives'
<1>1. conn[c].is = "dialled" /\ conn'[c].is \in {"posted", "dropped"} /\ Others(c)
  BY AcceptFacts
<1>2. UNCHANGED <<server, commands, client>> /\ internal' = Posted(internal, [k |-> "open", c |-> c])
  BY DEF Accept
<1>3. ShutGone' /\ GoneSilent'
  BY <1>1, <1>2 DEF Lives, ShutGone, GoneSilent, Others, Gone, Pending
<1>4. ClosingGone'
  <2>1. [k |-> "open", c |-> c].k # "close" /\ [k |-> "open", c |-> c] \in [k : {"open", "close"}, c : Conns]
    OBVIOUS
  <2>2. \A i \in DOMAIN internal' : (i \in DOMAIN internal /\ internal'[i] = internal[i]) \/ internal'[i].k # "close"
    BY <1>2, <2>1, PostedElements
  <2> QED  BY <1>2, <2>2 DEF Lives, ClosingGone, Gone
<1>5. AskersKnown' /\ BusyKnown'
  BY <1>1, <1>2, QueueTypes DEF Lives, AskersKnown, BusyKnown, Others
<1> QED  BY <1>3, <1>4, <1>5 DEF Lives

LEMMA LivesHandleConnOpen == ASSUME TypeOK, Lives, HandleConnOpen PROVE Lives'
<1> DEFINE c == Head(internal).c
<1>1. c \in Conns /\ conn'[c].is = "open" /\ Others(c)
  BY OpenFacts
<1>2. UNCHANGED <<server, commands, client>> /\ internal # <<>> /\ internal' = Tail(internal)
  BY DEF HandleConnOpen
<1> HIDE DEF c
<1>3. ShutGone' /\ GoneSilent'
  BY <1>1, <1>2 DEF Lives, ShutGone, GoneSilent, Others, Gone, Pending
<1>4. ClosingGone'
  BY <1>2, InternalTail DEF Lives, ClosingGone, Gone
<1>5. AskersKnown' /\ BusyKnown'
  BY <1>1, <1>2, QueueTypes DEF Lives, AskersKnown, BusyKnown, Others
<1> QED  BY <1>3, <1>4, <1>5 DEF Lives

LEMMA LivesHandleConnClose == ASSUME TypeOK, Lives, HandleConnClose PROVE Lives'
<1> DEFINE c == Head(internal).c
<1>1. c \in Conns /\ conn'[c] = Shut(conn[c]) /\ Others(c)
  BY CloseConnFacts
<1>2. UNCHANGED <<commands, client>> /\ internal # <<>> /\ internal' = Tail(internal) /\ Head(internal).k = "close"
      /\ server'.busy = server.busy /\ server'.stopped = server.stopped
  BY DEF HandleConnClose, TypeOK
<1>3. Gone(c)
  BY <1>2, InternalTail DEF Lives, ClosingGone
<1>4. conn'[c].is = "shut"
  <2>1. conn[c] \in Connections
    BY <1>1 DEF TypeOK
  <2> QED  BY <1>1, <2>1, ShutFacts
<1> HIDE DEF c
<1>5. ShutGone' /\ GoneSilent'
  BY <1>1, <1>2, <1>3, <1>4 DEF Lives, ShutGone, GoneSilent, Others, Gone, Pending
<1>6. ClosingGone'
  BY <1>2, InternalTail DEF Lives, ClosingGone, Gone
<1>7. AskersKnown' /\ BusyKnown'
  BY <1>1, <1>2, <1>4, QueueTypes DEF Lives, AskersKnown, BusyKnown, Others
<1> QED  BY <1>5, <1>6, <1>7 DEF Lives

LEMMA LivesReadEnds == ASSUME TypeOK, Lives, NEW c \in Conns, ReadEnds(c) PROVE Lives'
<1>1. Gone(c) /\ Others(c) /\ conn'[c].is = conn[c].is
  BY ReadEndsFacts
<1>2. UNCHANGED <<server, commands, client>> /\ internal' = Posted(internal, [k |-> "close", c |-> c])
  BY DEF ReadEnds
<1>3. \A d \in Conns : conn'[d].is = conn[d].is
  BY <1>1 DEF Others
<1>4. ShutGone' /\ GoneSilent'
  BY <1>2, <1>3 DEF Lives, ShutGone, GoneSilent, Gone, Pending
<1>5. ClosingGone'
  <2>1. [k |-> "close", c |-> c] \in [k : {"open", "close"}, c : Conns] /\ [k |-> "close", c |-> c].c = c
    OBVIOUS
  <2>2. \A i \in DOMAIN internal' : (i \in DOMAIN internal /\ internal'[i] = internal[i]) \/ internal'[i].c = c
    BY <1>2, <2>1, PostedElements
  <2> QED  BY <1>1, <1>2, <2>2 DEF Lives, ClosingGone, Gone
<1>6. AskersKnown' /\ BusyKnown'
  BY <1>2, <1>3, QueueTypes DEF Lives, AskersKnown, BusyKnown
<1> QED  BY <1>4, <1>5, <1>6 DEF Lives

\* What a request changes: the client waits for it if the connection was not shut.
LEMMA SentFacts ==
    ASSUME TypeOK, NEW c \in Conns, NEW kind \in Names, NEW phase \in {"joining", "running"},
           Send(c, kind, phase)
    PROVE  /\ Others(c) /\ (\A d \in Conns \ {c} : client'[d] = client[d])
           /\ UNCHANGED <<server, internal, commands>>
           /\ conn'[c].is = IF conn[c].is = "none" THEN "dialled" ELSE conn[c].is
           /\ conn'[c].up = IF conn[c].is = "shut" THEN conn[c].up ELSE Append(conn[c].up, Request(c, kind))
           /\ conn'[c].outbox = conn[c].outbox /\ conn'[c].down = conn[c].down /\ conn'[c].missed = conn[c].missed
           /\ Request(c, kind) \in Frames /\ Request(c, kind).id = Len(client[c].sent) + 1
           /\ client'[c].phase = phase /\ client'[c].events = client[c].events
           /\ Len(client'[c].sent) = Len(client[c].sent) + 1
           /\ Pending(c)' = IF conn[c].is = "shut" THEN Pending(c) ELSE Pending(c) \cup {Len(client[c].sent) + 1}
<1>1. conn[c] \in Connections /\ client[c] \in Clients /\ Len(client[c].sent) = Len(client[c].outcome)
  BY DEF TypeOK
<1>2. /\ conn' = [conn EXCEPT ![c] = SendConn(c, kind)] /\ client' = [client EXCEPT ![c] = SendClient(c, kind, phase)]
      /\ Request(c, kind) \in Frames
  BY SendFacts
<1>3. conn'[c] = SendConn(c, kind) /\ Others(c)
  BY <1>2, OnlyOne
<1>4. client'[c] = SendClient(c, kind, phase) /\ \A d \in Conns \ {c} : client'[d] = client[d]
  BY <1>2 DEF TypeOK
<1>5. /\ SendConn(c, kind).is = IF conn[c].is = "none" THEN "dialled" ELSE conn[c].is
      /\ SendConn(c, kind).up = IF conn[c].is = "shut" THEN conn[c].up ELSE Append(conn[c].up, Request(c, kind))
      /\ SendConn(c, kind).outbox = conn[c].outbox /\ SendConn(c, kind).down = conn[c].down
      /\ SendConn(c, kind).missed = conn[c].missed
  BY <1>1 DEF SendConn, Connections
<1>6. /\ SendClient(c, kind, phase).phase = phase /\ SendClient(c, kind, phase).events = client[c].events
      /\ SendClient(c, kind, phase).sent = Append(client[c].sent, kind)
      /\ SendClient(c, kind, phase).outcome = Append(client[c].outcome, SendOutcome(c))
  BY <1>1 DEF SendClient, Clients
<1>7. Len(Append(client[c].sent, kind)) = Len(client[c].sent) + 1
  BY <1>1, AppendProperties DEF Clients
<1>8. Pending(c)' = IF conn[c].is = "shut" THEN Pending(c) ELSE Pending(c) \cup {Len(client[c].sent) + 1}
  <2> DEFINE o == client[c].outcome
             n == Len(o) + 1
             p == Append(o, SendOutcome(c))
  <2>1. o \in Seq(Outcomes) /\ SendOutcome(c) \in Outcomes
    BY <1>1 DEF Clients, Outcomes, SendOutcome
  <2>2. /\ DOMAIN p = DOMAIN o \cup {n} /\ n \notin DOMAIN o /\ p[n] = SendOutcome(c)
        /\ \A i \in DOMAIN o : p[i] = o[i]
    <3> HIDE DEF o
    <3> QED  BY <2>1
  <2>3. Pending(c) = {id \in DOMAIN o : o[id] = "pending"} /\ Pending(c)' = {id \in DOMAIN p : p[id] = "pending"}
    BY <1>4, <1>6 DEF Pending
  <2>4. (SendOutcome(c) = "pending") <=> (conn[c].is # "shut")
    BY DEF SendOutcome
  <2>5. n = Len(client[c].sent) + 1
    BY <1>1
  <2> HIDE DEF o, n, p
  <2> QED  BY <2>2, <2>3, <2>4, <2>5
<1>9. UNCHANGED <<server, internal, commands>>
  BY DEF Send
<1>10. Request(c, kind).id = Len(client[c].sent) + 1
  BY DEF Request
<1> QED  BY <1>2, <1>3, <1>4, <1>5, <1>6, <1>7, <1>8, <1>9, <1>10

LEMMA LivesSend ==
    ASSUME TypeOK, Lives, NEW c \in Conns, NEW kind \in Names, NEW phase \in {"joining", "running"},
           ~ Gone(c), Send(c, kind, phase)
    PROVE  Lives'
<1>1. /\ Others(c) /\ (\A d \in Conns \ {c} : client'[d] = client[d])
      /\ UNCHANGED <<server, internal, commands>>
      /\ conn'[c].is = IF conn[c].is = "none" THEN "dialled" ELSE conn[c].is
      /\ client'[c].phase # "gone"
  BY SentFacts
<1>2. \A d \in Conns : /\ conn[d].is \in {"open", "shut"} => conn'[d].is = conn[d].is
                       /\ Gone(d)' = Gone(d)
                       /\ conn'[d].is = "shut" => conn[d].is = "shut"
                       /\ d # c => conn'[d].is = conn[d].is /\ Pending(d)' = Pending(d)
  BY <1>1 DEF Others, Gone, Pending
<1>3. conn'[c].is # "none" /\ ~ Gone(c)'
  BY <1>1 DEF Gone
<1>4. ShutGone' /\ GoneSilent'
  BY <1>1, <1>2, <1>3 DEF Lives, ShutGone, GoneSilent
<1>5. ClosingGone'
  BY <1>1, <1>2, QueueTypes DEF Lives, ClosingGone
<1>6. AskersKnown' /\ BusyKnown'
  BY <1>1, <1>2, QueueTypes DEF Lives, AskersKnown, BusyKnown
<1> QED  BY <1>4, <1>5, <1>6 DEF Lives

LEMMA LivesStop == ASSUME TypeOK, Lives, Stop PROVE Lives'
<1>1. \A c \in Conns : conn'[c].is = "none" => conn[c].is = "none"
  <2> SUFFICES ASSUME NEW c \in Conns, conn[c].is # "none"
               PROVE  conn'[c].is # "none"
    BY DEF Stop
  <2>1. conn[c] \in Connections /\ conn'[c] = Shut(conn[c])
    BY DEF Stop, TypeOK
  <2> QED  BY <2>1, ShutFacts
<1>2. /\ server'.stopped /\ server'.busy = Idle /\ client' = client /\ internal' = <<>> /\ commands' = <<>>
  BY DEF Stop, LoopReady, TypeOK
<1> QED  BY <1>1, <1>2 DEF Lives, ShutGone, GoneSilent, ClosingGone, AskersKnown, BusyKnown, Gone, Pending

LEMMA LivesClose == ASSUME TypeOK, Lives, NEW c \in Conns, Close(c) PROVE Lives'
<1>1. /\ Others(c) /\ conn'[c].is = conn[c].is /\ Pending(c)' = {} /\ client'[c].phase = "gone"
      /\ \A d \in Conns \ {c} : client'[d] = client[d]
  BY CloseFacts
<1>2. UNCHANGED <<server, internal, commands>>
  BY DEF Close
<1>3. \A d \in Conns : /\ conn'[d].is = conn[d].is
                       /\ Gone(d) => Gone(d)'
                       /\ d # c => Pending(d)' = Pending(d) /\ Gone(d)' = Gone(d)
  BY <1>1 DEF Others, Gone, Pending
<1>4. ShutGone' /\ GoneSilent'
  BY <1>1, <1>2, <1>3 DEF Lives, ShutGone, GoneSilent
<1>5. ClosingGone'
  BY <1>2, <1>3, QueueTypes DEF Lives, ClosingGone
<1>6. AskersKnown' /\ BusyKnown'
  BY <1>2, <1>3, QueueTypes DEF Lives, AskersKnown, BusyKnown
<1> QED  BY <1>4, <1>5, <1>6 DEF Lives

\* Only who is there sends.
LEMMA SenderThere ==
    ASSUME NEW c \in Conns, Bootstrap(c) \/ Start(c) \/ Call(c)
    PROVE  ~ Gone(c)
  BY DEF Bootstrap, Start, Call, Gone

LEMMA LivesStep == TypeOK /\ Lives /\ [Next]_vars => Lives'
<1> SUFFICES ASSUME TypeOK, Lives, [Next]_vars
             PROVE  Lives'
  OBVIOUS
<1>1. CASE Loop
  BY <1>1, LivesHandleConnOpen, LivesHandleConnClose, AnsweringQuiet, StartSyncQuiet, SendResponseQuiet, LivesQuiet
     DEF Loop, Answering
<1>2. CASE Change \/ Stop
  BY <1>2, ChangeQuiet, LivesQuiet, LivesStop
<1>3. ASSUME NEW c \in Conns, Connection(c)
      PROVE  Lives'
  BY <1>3, LivesAccept, LivesReadEnds, ReadQuiet, WriteQuiet, LivesQuiet DEF Connection
<1>4. ASSUME NEW c \in Conns, Bootstrap(c) \/ Start(c) \/ Call(c)
      PROVE  Lives'
  BY <1>4, SentBy, SenderThere, LivesSend
<1>5. ASSUME NEW c \in Conns, Receive(c) \/ ReceiveEnds(c) \/ Timeout(c) \/ Listen(c) \/ HandleServerEvent(c)
      PROVE  Lives'
  BY <1>5, ReceiveQuiet, ClientQuiet, LivesQuiet
<1>6. ASSUME NEW c \in Conns, Close(c) \/ Disconnect(c)
      PROVE  Lives'
  BY <1>6, LivesClose DEF Disconnect
<1>7. CASE UNCHANGED vars
  <2>1. Quiet
    BY <1>7 DEF vars, Quiet, Pending
  <2> QED  BY <2>1, LivesQuiet
<1> QED  BY <1>1, <1>2, <1>3, <1>4, <1>5, <1>6, <1>7 DEF Next, Program

-----------------------------------------------------------------------------
(* Every request is in one place *)

Total(c, id) ==
  Carried(conn[c].up, id) + Asked(commands, c, id) + InHand(c, id)
    + Carried(conn[c].outbox, id) + Carried(conn[c].down, id)

\* A request that may be nowhere: it does not wait, a full queue dropped it, or
\* its connection is shut.
Excused(c, id) == id \notin Pending(c) \/ id \in conn[c].missed \/ conn[c].is = "shut"

Accounted ==
  \A c \in Conns, id \in Nat \ {0} :
     /\ id > Len(client[c].sent) => Total(c, id) = 0
     /\ Excused(c, id) \/ Total(c, id) = 1

\* What every step but a new request does to one: it moves, or is lost with an excuse.
Moved(c, id) ==
  /\ Total(c, id)' <= Total(c, id)
  /\ Total(c, id)' = Total(c, id) \/ Excused(c, id)'
  /\ Excused(c, id) => Excused(c, id)'

LEMMA CountTypes ==
    ASSUME TypeOK, NEW c \in Conns, NEW id \in Nat
    PROVE  /\ Carried(conn[c].up, id) \in Nat /\ Carried(conn[c].outbox, id) \in Nat
           /\ Carried(conn[c].down, id) \in Nat /\ Asked(commands, c, id) \in Nat
           /\ InHand(c, id) \in {0, 1} /\ Total(c, id) \in Nat
           /\ conn[c].up \in Seq(Frames) /\ conn[c].outbox \in Seq(Messages)
           /\ conn[c].down \in Seq(Messages) /\ commands \in Seq(Requests)
<1>1. /\ conn[c].up \in Seq(Frames) /\ conn[c].outbox \in Seq(Messages)
      /\ conn[c].down \in Seq(Messages) /\ commands \in Seq(Requests)
  BY DEF TypeOK, Connections
<1>2. /\ Carried(conn[c].up, id) \in Nat /\ Carried(conn[c].outbox, id) \in Nat
      /\ Carried(conn[c].down, id) \in Nat /\ Asked(commands, c, id) \in Nat
  BY <1>1, CarriedFacts, AskedFacts
<1>3. InHand(c, id) \in {0, 1}
  BY DEF InHand
<1> QED  BY <1>1, <1>2, <1>3 DEF Total

LEMMA TotalTypes_ ==
    ASSUME TypeOK', NEW c \in Conns, NEW id \in Nat
    PROVE  Total(c, id)' \in Nat
<1>1. /\ conn'[c].up \in Seq(Frames) /\ conn'[c].outbox \in Seq(Messages)
      /\ conn'[c].down \in Seq(Messages) /\ commands' \in Seq(Requests)
  BY DEF TypeOK, Connections
<1>2. /\ Carried(conn'[c].up, id) \in Nat /\ Carried(conn'[c].outbox, id) \in Nat
      /\ Carried(conn'[c].down, id) \in Nat /\ Asked(commands', c, id) \in Nat
  BY <1>1, CarriedFacts, AskedFacts
<1>3. InHand(c, id)' \in {0, 1}
  BY DEF InHand
<1> QED  BY <1>2, <1>3 DEF Total

LEMMA AskedTail ==
    ASSUME TypeOK, commands # <<>>, commands' = Tail(commands), NEW c, NEW id
    PROVE  LET r == Head(commands)
           IN  /\ r.c = c /\ r.id = id => Asked(commands, c, id) = Asked(commands', c, id) + 1
               /\ ~ (r.c = c /\ r.id = id) => Asked(commands, c, id) = Asked(commands', c, id)
               /\ Asked(commands', c, id) \in Nat
<1>1. commands \in Seq(Requests) /\ Tail(commands) \in Seq(Requests)
  BY HeadTailProperties DEF TypeOK
<1>2. Asked(Tail(commands), c, id) \in Nat
  BY <1>1, AskedFacts
<1>3. /\ Head(commands).c = c /\ Head(commands).id = id => Asked(commands, c, id) = Asked(Tail(commands), c, id) + 1
      /\ ~ (Head(commands).c = c /\ Head(commands).id = id) => Asked(commands, c, id) = Asked(Tail(commands), c, id)
  BY <1>1, AskedFacts
<1> QED  BY <1>2, <1>3

LEMMA AccountedMoved ==
    ASSUME TypeOK, TypeOK', Accounted, \A c \in Conns, id \in Nat \ {0} : Moved(c, id),
           \A c \in Conns : Len(client'[c].sent) = Len(client[c].sent)
    PROVE  Accounted'
<1> SUFFICES ASSUME NEW c \in Conns, NEW id \in Nat \ {0}
             PROVE  /\ id > Len(client'[c].sent) => Total(c, id)' = 0
                    /\ Excused(c, id)' \/ Total(c, id)' = 1
  BY DEF Accounted
<1>1. Total(c, id) \in Nat /\ Total(c, id)' \in Nat
  BY CountTypes, TotalTypes_
<1>2. Moved(c, id) /\ Len(client'[c].sent) = Len(client[c].sent)
  OBVIOUS
<1>3. /\ id > Len(client[c].sent) => Total(c, id) = 0
      /\ Excused(c, id) \/ Total(c, id) = 1
  BY DEF Accounted
<1> QED  BY <1>1, <1>2, <1>3 DEF Moved

LEMMA ExcusedQuiet ==
    ASSUME Quiet, NEW c \in Conns, NEW id, conn[c].missed \subseteq conn'[c].missed, Excused(c, id)
    PROVE  Excused(c, id)'
  BY DEF Quiet, Excused

LEMMA MovedAnswering ==
    ASSUME TypeOK, Lives, Answering, NEW c \in Conns, NEW id \in Nat \ {0}
    PROVE  Moved(c, id)
<1> DEFINE r == Head(commands)
<1>1. /\ server.busy = Idle /\ server'.busy = Idle /\ commands # <<>> /\ commands' = Tail(commands) /\ r \in Requests
      /\ Kept(c) /\ Replied(r, c, id)
  BY AnsweringFacts
<1>2. Excused(c, id) => Excused(c, id)'
  BY <1>1, AnsweringQuiet, ExcusedQuiet DEF Kept
<1>3. /\ r.c = c /\ r.id = id => Asked(commands, c, id) = Asked(commands', c, id) + 1
      /\ ~ (r.c = c /\ r.id = id) => Asked(commands, c, id) = Asked(commands', c, id)
      /\ Asked(commands', c, id) \in Nat
  BY <1>1, AskedTail
<1>4. Carried(conn'[c].up, id) = Carried(conn[c].up, id) /\ Carried(conn'[c].down, id) = Carried(conn[c].down, id)
  BY <1>1 DEF Kept
<1>5. InHand(c, id)' = InHand(c, id)
  BY <1>1 DEF InHand
<1>6. r.c = c /\ r.id = id /\ conn[c].is # "open" => Excused(c, id)'
  <2>1. 1 \in DOMAIN commands /\ r = commands[1]
    BY <1>1, TailElements DEF TypeOK
  <2>2. conn[r.c].is \in {"open", "shut"}
    BY <2>1 DEF Lives, AskersKnown
  <2> QED  BY <1>1, <2>2 DEF Excused, Kept
<1>7. id \in conn'[c].missed => Excused(c, id)'
  BY DEF Excused
<1>8. /\ Carried(conn[c].up, id) \in Nat /\ Carried(conn[c].outbox, id) \in Nat
      /\ Carried(conn[c].down, id) \in Nat /\ Asked(commands, c, id) \in Nat /\ InHand(c, id) \in {0, 1}
  BY CountTypes
<1>9. /\ Total(c, id) = Carried(conn[c].up, id) + Asked(commands, c, id) + InHand(c, id)
                          + Carried(conn[c].outbox, id) + Carried(conn[c].down, id)
      /\ Total(c, id)' = Carried(conn[c].up, id) + Asked(commands', c, id) + InHand(c, id)
                          + Carried(conn'[c].outbox, id) + Carried(conn[c].down, id)
  BY <1>4, <1>5 DEF Total
<1>10. \/ /\ r.c = c /\ r.id = id
          /\ Asked(commands, c, id) = Asked(commands', c, id) + 1
          /\ Carried(conn'[c].outbox, id) \in {Carried(conn[c].outbox, id), Carried(conn[c].outbox, id) + 1}
          /\ Carried(conn'[c].outbox, id) = Carried(conn[c].outbox, id) + 1 \/ Excused(c, id)'
       \/ Asked(commands, c, id) = Asked(commands', c, id) /\ Carried(conn'[c].outbox, id) = Carried(conn[c].outbox, id)
  BY <1>1, <1>3, <1>6, <1>7 DEF Replied
<1> HIDE DEF r
<1> QED  BY <1>2, <1>3, <1>8, <1>9, <1>10 DEF Moved

LEMMA MovedChange ==
    ASSUME TypeOK, Change, NEW c \in Conns, NEW id \in Nat \ {0}
    PROVE  Moved(c, id)
<1>1. /\ commands' = commands /\ server'.busy = server.busy
      /\ Kept(c) /\ Carried(conn'[c].outbox, id) = Carried(conn[c].outbox, id)
  BY ChangeCounts
<1>2. Excused(c, id) => Excused(c, id)'
  BY <1>1, ChangeQuiet, ExcusedQuiet DEF Kept
<1>3. Total(c, id)' = Total(c, id)
  BY <1>1 DEF Total, InHand, Kept
<1>4. Total(c, id) \in Nat
  BY CountTypes
<1> QED  BY <1>2, <1>3, <1>4 DEF Moved

LEMMA MovedStartSync ==
    ASSUME TypeOK, StartSyncResponse, NEW c \in Conns, NEW id \in Nat \ {0}
    PROVE  Moved(c, id)
<1> DEFINE r == Head(commands)
<1>1. /\ server.busy = Idle /\ server'.busy = r /\ commands # <<>> /\ commands' = Tail(commands) /\ conn' = conn
      /\ commands \in Seq(Requests)
  BY DEF StartSyncResponse, Take, LoopReady, TypeOK
<1>2. Excused(c, id) => Excused(c, id)'
  BY <1>1, StartSyncQuiet, ExcusedQuiet
<1>3. /\ r.c = c /\ r.id = id => Asked(commands, c, id) = Asked(commands', c, id) + 1
      /\ ~ (r.c = c /\ r.id = id) => Asked(commands, c, id) = Asked(commands', c, id)
      /\ Asked(commands', c, id) \in Nat
  BY <1>1, AskedTail
<1>4. InHand(c, id) = 0 /\ InHand(c, id)' = IF r.c = c /\ r.id = id THEN 1 ELSE 0
  BY <1>1 DEF InHand, Idle
<1>5. /\ Carried(conn[c].up, id) \in Nat /\ Carried(conn[c].outbox, id) \in Nat /\ Carried(conn[c].down, id) \in Nat
  BY CountTypes
<1> HIDE DEF r
<1>6. Total(c, id)' = Total(c, id) /\ Total(c, id) \in Nat
  BY <1>1, <1>3, <1>4, <1>5 DEF Total
<1> QED  BY <1>2, <1>6 DEF Moved

LEMMA MovedSendResponse ==
    ASSUME TypeOK, Lives, SendResponseSync, NEW c \in Conns, NEW id \in Nat \ {0}
    PROVE  Moved(c, id)
<1> DEFINE r == server.busy
<1>1. /\ r \in Requests /\ r.c \in Conns /\ r.id \in Nat \ {0} /\ Others(r.c)
      /\ conn'[r.c].is = conn[r.c].is /\ conn'[r.c].up = conn[r.c].up
      /\ conn'[r.c].outbox = conn[r.c].outbox /\ conn'[r.c].missed = conn[r.c].missed
      /\ \/ conn'[r.c].down = Append(conn[r.c].down, Message(r.id, 0))
         \/ (conn[r.c].is # "open" \/ Gone(r.c)) /\ conn'[r.c].down = conn[r.c].down
  BY SyncFacts
<1>2. /\ commands' = commands /\ client' = client /\ server'.busy = Idle /\ r # Idle
  BY DEF SendResponseSync, TypeOK
<1>3. /\ conn'[c].is = conn[c].is /\ conn'[c].up = conn[c].up
      /\ conn'[c].outbox = conn[c].outbox /\ conn'[c].missed = conn[c].missed
      /\ c # r.c => conn'[c].down = conn[c].down
  BY <1>1 DEF Others
<1>4. Excused(c, id) => Excused(c, id)'
  BY <1>3, SendResponseQuiet, ExcusedQuiet
<1>5. InHand(c, id)' = 0 /\ InHand(c, id) = IF r.c = c /\ r.id = id THEN 1 ELSE 0
  BY <1>2 DEF InHand, Idle
<1>6. c = r.c /\ (conn[c].is # "open" \/ Gone(c)) => Excused(c, id)'
  <2>1. conn[r.c].is \in {"open", "shut"}
    BY <1>2 DEF Lives, BusyKnown
  <2>2. Gone(c) => Pending(c)' = {}
    BY <1>2 DEF Lives, GoneSilent, Pending
  <2> QED  BY <1>3, <2>1, <2>2 DEF Excused
<1>7. /\ Carried(conn[c].up, id) \in Nat /\ Carried(conn[c].outbox, id) \in Nat /\ Carried(conn[c].down, id) \in Nat
      /\ Asked(commands, c, id) \in Nat /\ conn[c].down \in Seq(Messages)
  BY CountTypes
<1>8. Message(r.id, 0) \in Messages /\ Message(r.id, 0).id = r.id
  BY <1>1 DEF Message, Messages
<1> HIDE DEF r
<1> DEFINE w == Carried(conn[c].down, id)
           y == Carried(conn'[c].down, id)
           z == IF r.c = c /\ r.id = id THEN 1 ELSE 0
<1>9. y = w + z \/ (y = w /\ Excused(c, id)')
  <2>1. CASE c # r.c
    BY <1>3, <1>7, <2>1
  <2>2. CASE c = r.c /\ conn'[c].down = conn[c].down /\ (conn[c].is # "open" \/ Gone(c))
    BY <1>6, <2>2
  <2>3. CASE c = r.c /\ conn'[c].down = Append(conn[c].down, Message(r.id, 0))
    <3>1. r.id = id => y = w + 1
      BY <1>7, <1>8, <2>3, CarriedFacts
    <3>2. r.id # id => y = w
      BY <1>7, <1>8, <2>3, CarriedFacts
    <3> QED  BY <1>7, <2>3, <3>1, <3>2
  <2> QED  BY <1>1, <2>1, <2>2, <2>3 DEF r
<1>10. /\ Total(c, id) = Carried(conn[c].up, id) + Asked(commands, c, id) + z + Carried(conn[c].outbox, id) + w
       /\ Total(c, id)' = Carried(conn[c].up, id) + Asked(commands, c, id) + 0 + Carried(conn[c].outbox, id) + y
  BY <1>2, <1>3, <1>5 DEF Total
<1>11. z \in {0, 1} /\ w \in Nat
  BY <1>7
<1> HIDE DEF w, y, z
<1> QED  BY <1>4, <1>7, <1>9, <1>10, <1>11 DEF Moved

LEMMA MovedRead ==
    ASSUME TypeOK, NEW d \in Conns, Read(d), NEW c \in Conns, NEW id \in Nat \ {0}
    PROVE  Moved(c, id)
<1>1. server' = server /\ client' = client
  BY DEF Read
<1>2. InHand(c, id)' = InHand(c, id)
  BY <1>1 DEF InHand
<1> DEFINE r == Head(conn[d].up)
           q == Command(d, r)
<1>3. /\ r \in Frames /\ q \in Requests /\ q.c = d /\ q.id = r.id
      /\ conn[d].is = "open" /\ conn'[d].is = "open" /\ conn[d].up # <<>> /\ Others(d)
      /\ conn'[d].up = Tail(conn[d].up) /\ conn'[d].down = conn[d].down
      /\ conn[d].missed \subseteq conn'[d].missed
      /\ \/ /\ commands' = Append(commands, q) /\ conn'[d].outbox = conn[d].outbox
         \/ /\ commands' = commands /\ conn'[d].outbox = conn[d].outbox /\ r.id \in conn'[d].missed
         \/ /\ commands' = commands /\ conn'[d].outbox = Append(conn[d].outbox, Message(r.id, 0))
  BY ReadFacts
<1>4. conn[c].missed \subseteq conn'[c].missed /\ conn'[c].down = conn[c].down
  BY <1>3 DEF Others
<1>5. Excused(c, id) => Excused(c, id)'
  BY <1>4, ReadQuiet, ExcusedQuiet
<1>6. /\ Carried(conn[c].up, id) \in Nat /\ Carried(conn[c].outbox, id) \in Nat /\ Carried(conn[c].down, id) \in Nat
      /\ Asked(commands, c, id) \in Nat /\ InHand(c, id) \in {0, 1}
      /\ conn[c].up \in Seq(Frames) /\ conn[c].outbox \in Seq(Messages) /\ commands \in Seq(Requests)
  BY CountTypes
<1>7. /\ commands' = Append(commands, q) /\ d = c /\ r.id = id => Asked(commands', c, id) = Asked(commands, c, id) + 1
      /\ commands' = Append(commands, q) /\ ~ (d = c /\ r.id = id) => Asked(commands', c, id) = Asked(commands, c, id)
  <2> HIDE DEF r, q
  <2>1. /\ q.c = c /\ q.id = id => Asked(Append(commands, q), c, id) = Asked(commands, c, id) + 1
        /\ ~ (q.c = c /\ q.id = id) => Asked(Append(commands, q), c, id) = Asked(commands, c, id)
    BY <1>3, <1>6, AskedFacts
  <2> QED  BY <1>3, <2>1
<1>8. CASE c # d
  <2>1. conn'[c] = conn[c]
    BY <1>3, <1>8 DEF Others
  <2>2. Asked(commands', c, id) = Asked(commands, c, id)
    BY <1>3, <1>7, <1>8
  <2>3. Total(c, id)' = Total(c, id)
    BY <1>2, <2>1, <2>2 DEF Total
  <2>4. Total(c, id) \in Nat
    BY CountTypes
  <2> QED  BY <1>5, <2>3, <2>4 DEF Moved
<1>9. CASE c = d
  <2>1. /\ r.id = id => Carried(conn[c].up, id) = Carried(conn'[c].up, id) + 1
        /\ r.id # id => Carried(conn[c].up, id) = Carried(conn'[c].up, id)
        /\ Carried(conn'[c].up, id) \in Nat
    <3> DEFINE up == conn[c].up
    <3>1. up # <<>> /\ conn'[c].up = Tail(up) /\ r = Head(up) /\ up \in Seq(Frames)
      BY <1>3, <1>6, <1>9
    <3> HIDE DEF up, r
    <3>2. /\ Head(up).id = id => Carried(up, id) = Carried(Tail(up), id) + 1
          /\ Head(up).id # id => Carried(up, id) = Carried(Tail(up), id)
          /\ Carried(Tail(up), id) \in Nat
      BY <3>1, CarriedTail
    <3> QED  BY <3>1, <3>2 DEF up
  <2>2. conn'[c].outbox = Append(conn[c].outbox, Message(r.id, 0)) =>
           /\ r.id = id => Carried(conn'[c].outbox, id) = Carried(conn[c].outbox, id) + 1
           /\ r.id # id => Carried(conn'[c].outbox, id) = Carried(conn[c].outbox, id)
    <3>1. Message(r.id, 0) \in Messages /\ Message(r.id, 0).id = r.id
      BY <1>3 DEF Message, Messages, Frames
    <3> HIDE DEF r
    <3> QED  BY <1>6, <3>1, CarriedFacts
  <2>3. r.id = id /\ r.id \in conn'[c].missed => Excused(c, id)'
    BY DEF Excused
  <2>4. \/ /\ Asked(commands', c, id) = Asked(commands, c, id) + (IF r.id = id THEN 1 ELSE 0)
           /\ conn'[c].outbox = conn[c].outbox
        \/ /\ Asked(commands', c, id) = Asked(commands, c, id)
           /\ conn'[c].outbox = conn[c].outbox /\ (r.id = id => Excused(c, id)')
        \/ /\ Asked(commands', c, id) = Asked(commands, c, id)
           /\ Carried(conn'[c].outbox, id) = Carried(conn[c].outbox, id) + (IF r.id = id THEN 1 ELSE 0)
    <3> HIDE DEF r, q
    <3> QED  BY <1>3, <1>6, <1>7, <1>9, <2>2, <2>3
  <2>5. conn'[c].outbox = conn[c].outbox => Carried(conn'[c].outbox, id) = Carried(conn[c].outbox, id)
    OBVIOUS
  <2> DEFINE u == Carried(conn[c].up, id)
             v == Carried(conn'[c].up, id)
             o == Carried(conn[c].outbox, id)
             p == Carried(conn'[c].outbox, id)
             a == Asked(commands, c, id)
             b == Asked(commands', c, id)
             w == Carried(conn[c].down, id)
             h == InHand(c, id)
             x == Excused(c, id)'
             y == IF r.id = id THEN 1 ELSE 0
  <2>6. Total(c, id) = u + a + h + o + w /\ Total(c, id)' = v + b + h + p + w
    BY <1>2, <1>4 DEF Total
  <2>7. u \in Nat /\ v \in Nat /\ o \in Nat /\ a \in Nat /\ w \in Nat /\ h \in Nat /\ y \in {0, 1} /\ u = v + y
    BY <1>6, <2>1
  <2>8. \/ b = a + y /\ p = o
        \/ b = a /\ p = o /\ (y = 0 \/ x)
        \/ b = a /\ p = o + y
    BY <2>4, <2>5
  <2> HIDE DEF u, v, o, p, a, b, w, h, y
  <2>9. Total(c, id)' <= Total(c, id) /\ (Total(c, id)' = Total(c, id) \/ x)
    BY <2>6, <2>7, <2>8
  <2> QED  BY <1>5, <2>9 DEF Moved
<1> QED  BY <1>8, <1>9

\* Of a connection nothing moves.
LEMMA MovedSame ==
    ASSUME TypeOK, NEW c \in Conns, NEW id \in Nat \ {0},
           UNCHANGED <<commands, server.busy>>,
           conn'[c].up = conn[c].up, conn'[c].outbox = conn[c].outbox, conn'[c].down = conn[c].down,
           Excused(c, id) => Excused(c, id)'
    PROVE  Moved(c, id)
<1>1. Total(c, id)' = Total(c, id)
  BY DEF Total, InHand
<1>2. Total(c, id) \in Nat
  BY CountTypes
<1> QED  BY <1>1, <1>2 DEF Moved

LEMMA MovedWrite ==
    ASSUME TypeOK, Lives, NEW d \in Conns, Write(d), NEW c \in Conns, NEW id \in Nat \ {0}
    PROVE  Moved(c, id)
<1>1. server' = server /\ client' = client /\ commands' = commands
  BY DEF Write
<1>2. /\ conn[d].outbox # <<>> /\ Others(d)
      /\ conn'[d].is = conn[d].is /\ conn'[d].up = conn[d].up /\ conn'[d].missed = conn[d].missed
      /\ conn'[d].outbox = Tail(conn[d].outbox)
      /\ \/ conn'[d].down = Append(conn[d].down, Head(conn[d].outbox))
         \/ Gone(d) /\ conn'[d].down = conn[d].down
  BY WriteFacts
<1>3. conn[c].missed \subseteq conn'[c].missed
  BY <1>2 DEF Others
<1>4. Excused(c, id) => Excused(c, id)'
  BY <1>3, WriteQuiet, ExcusedQuiet
<1>5. CASE c # d
  <2>1. conn'[c] = conn[c]
    BY <1>2, <1>5 DEF Others
  <2> QED  BY <1>1, <1>4, <2>1, MovedSame
<1>6. CASE c = d
  <2> DEFINE q == conn[c].outbox
             s == conn[c].down
             u == Carried(conn[c].up, id)
             a == Asked(commands, c, id)
             h == InHand(c, id)
             o == Carried(q, id)
             p == Carried(Tail(q), id)
             w == Carried(s, id)
             v == Carried(conn'[c].down, id)
             x == Excused(c, id)'
             y == IF Head(q).id = id THEN 1 ELSE 0
  <2>1. /\ u \in Nat /\ o \in Nat /\ w \in Nat /\ a \in Nat /\ h \in {0, 1}
        /\ q \in Seq(Messages) /\ s \in Seq(Messages)
    BY CountTypes
  <2>2. q # <<>> /\ conn'[c].outbox = Tail(q) /\ conn'[c].up = conn[c].up
    BY <1>2, <1>6
  <2>3. /\ Head(q).id = id => o = p + 1
        /\ Head(q).id # id => o = p
        /\ p \in Nat /\ Head(q) \in Messages
    <3> HIDE DEF q
    <3> QED  BY <2>1, <2>2, CarriedTail, HeadTailProperties
  <2>4. InHand(c, id)' = h
    BY <1>1 DEF InHand
  <2>5. Total(c, id) = u + a + h + o + w /\ Total(c, id)' = u + a + h + p + v
    BY <1>1, <2>2, <2>4 DEF Total
  <2>6. CASE conn'[c].down = Append(s, Head(q))
    <3>1. /\ Head(q).id = id => v = w + 1
          /\ Head(q).id # id => v = w
      <4> HIDE DEF q, s
      <4> QED  BY <2>1, <2>3, <2>6, CarriedFacts
    <3> HIDE DEF q, s, u, a, h, o, p, w, v
    <3>2. Total(c, id)' = Total(c, id) /\ Total(c, id) \in Nat
      BY <2>1, <2>3, <2>5, <3>1
    <3> QED  BY <1>4, <3>2 DEF Moved
  <2>7. CASE Gone(c) /\ conn'[c].down = s
    <3>1. x
      BY <1>1, <2>7 DEF Lives, GoneSilent, Excused, Pending
    <3>2. v = w
      BY <2>7
    <3> HIDE DEF q, s, u, a, h, o, p, w, v
    <3>3. Total(c, id)' <= Total(c, id)
      BY <2>1, <2>3, <2>5, <3>2
    <3> QED  BY <3>1, <3>3 DEF Moved
  <2> QED  BY <1>2, <1>6, <2>6, <2>7
<1> QED  BY <1>5, <1>6

\* The answer of the request that waits ends its wait.
LEMMA ResponseEnds ==
    ASSUME TypeOK, NEW c \in Conns, DispatchResponse(c, Head(conn[c].down))
    PROVE  Head(conn[c].down).id \notin Pending(c)'
<1> DEFINE id == Head(conn[c].down).id
           cl == [client[c] EXCEPT !.outcome = [client[c].outcome EXCEPT ![id] = "answered"]]
<1>1. client[c] \in Clients
  BY DEF TypeOK
<1>2. CASE id \notin Pending(c)
  <2>1. client' = client
    BY <1>2 DEF DispatchResponse
  <2> QED  BY <1>2, <2>1 DEF Pending
<1>3. CASE id \in Pending(c)
  <2>1. client' = [client EXCEPT ![c] = cl]
    BY <1>3 DEF DispatchResponse, TypeOK
  <2>2. cl.outcome = [client[c].outcome EXCEPT ![id] = "answered"]
    BY <1>1 DEF Clients
  <2>3. client'[c] = cl
    <3> HIDE DEF cl
    <3> QED  BY <2>1 DEF TypeOK
  <2>4. client'[c].outcome[id] # "pending" \/ id \notin DOMAIN client'[c].outcome
    <3> HIDE DEF cl, id
    <3> QED  BY <2>2, <2>3
  <2>5. Pending(c)' = {i \in DOMAIN client'[c].outcome : client'[c].outcome[i] = "pending"}
    BY DEF Pending
  <2>6. id \notin Pending(c)'
    <3> HIDE DEF cl, id
    <3> QED  BY <2>4, <2>5
  <2> QED  BY <2>6
<1> QED  BY <1>2, <1>3

LEMMA MovedReceive ==
    ASSUME TypeOK, NEW d \in Conns, Receive(d), NEW c \in Conns, NEW id \in Nat \ {0}
    PROVE  Moved(c, id)
<1>1. server' = server /\ commands' = commands
  BY DEF Receive
<1> DEFINE msg == Head(conn[d].down)
<1>2. /\ msg \in Messages /\ conn[d].down # <<>> /\ Others(d) /\ conn'[d].down = Tail(conn[d].down)
      /\ conn'[d].is = conn[d].is /\ conn'[d].up = conn[d].up /\ conn'[d].outbox = conn[d].outbox
      /\ conn[d].missed \subseteq conn'[d].missed
      /\ msg.id # 0 => DispatchResponse(d, msg)
  BY ReceiveFacts
<1>3. conn[c].missed \subseteq conn'[c].missed
  BY <1>2 DEF Others
<1>4. Excused(c, id) => Excused(c, id)'
  BY <1>3, ReceiveQuiet, ExcusedQuiet
<1>5. CASE c # d
  <2>1. conn'[c] = conn[c]
    BY <1>2, <1>5 DEF Others
  <2> QED  BY <1>1, <1>4, <2>1, MovedSame
<1>6. CASE c = d
  <2> DEFINE s == conn[c].down
             u == Carried(conn[c].up, id)
             a == Asked(commands, c, id)
             h == InHand(c, id)
             o == Carried(conn[c].outbox, id)
             w == Carried(s, id)
             v == Carried(Tail(s), id)
             x == Excused(c, id)'
  <2>1. /\ u \in Nat /\ o \in Nat /\ w \in Nat /\ a \in Nat /\ h \in {0, 1} /\ s \in Seq(Messages)
    BY CountTypes
  <2>2. s # <<>> /\ conn'[c].down = Tail(s) /\ conn'[c].up = conn[c].up /\ conn'[c].outbox = conn[c].outbox
    BY <1>2, <1>6
  <2>3. /\ Head(s).id = id => w = v + 1
        /\ Head(s).id # id => w = v
        /\ v \in Nat
    <3> HIDE DEF s
    <3> QED  BY <2>1, <2>2, CarriedTail
  <2>4. Head(s).id = id => x
    <3>1. Head(s).id = id => Head(s).id \notin Pending(c)'
      BY <1>2, <1>6, ResponseEnds
    <3> QED  BY <3>1 DEF Excused
  <2>5. InHand(c, id)' = h
    BY <1>1 DEF InHand
  <2>6. Total(c, id) = u + a + h + o + w /\ Total(c, id)' = u + a + h + o + v
    BY <1>1, <2>2, <2>5 DEF Total
  <2> HIDE DEF s, u, a, h, o, w, v
  <2>7. Total(c, id)' <= Total(c, id) /\ (Total(c, id)' = Total(c, id) \/ x)
    BY <2>1, <2>3, <2>4, <2>6
  <2> QED  BY <1>4, <2>7 DEF Moved
<1> QED  BY <1>5, <1>6

LEMMA MovedClient ==
    ASSUME TypeOK, NEW d \in Conns, ReceiveEnds(d) \/ Timeout(d) \/ Listen(d) \/ HandleServerEvent(d),
           NEW c \in Conns, NEW id \in Nat \ {0}
    PROVE  Moved(c, id)
<1>1. UNCHANGED <<server, commands, conn>>
  BY DEF ReceiveEnds, Timeout, Listen, HandleServerEvent
<1>2. Excused(c, id) => Excused(c, id)'
  BY <1>1, ClientQuiet, ExcusedQuiet
<1> QED  BY <1>1, <1>2, MovedSame

LEMMA MovedAccept ==
    ASSUME TypeOK, NEW d \in Conns, Accept(d) \/ ReadEnds(d), NEW c \in Conns, NEW id \in Nat \ {0}
    PROVE  Moved(c, id)
<1>1. UNCHANGED <<server, commands, client>>
  BY DEF Accept, ReadEnds
<1>2. /\ conn[c].is = "shut" => conn'[c].is = "shut"
      /\ conn'[c].up = conn[c].up /\ conn'[c].outbox = conn[c].outbox /\ conn'[c].down = conn[c].down
      /\ conn'[c].missed = conn[c].missed
  BY AcceptFacts, ReadEndsFacts DEF Others
<1>3. Excused(c, id) => Excused(c, id)'
  BY <1>1, <1>2 DEF Excused, Pending
<1> QED  BY <1>1, <1>2, <1>3, MovedSame

LEMMA MovedOpen ==
    ASSUME TypeOK, Lives, HandleConnOpen, NEW c \in Conns, NEW id \in Nat \ {0}
    PROVE  Moved(c, id)
<1>1. UNCHANGED <<server, commands, client>> /\ ~ server.stopped
  BY DEF HandleConnOpen, LoopReady
<1>2. /\ conn'[c].up = conn[c].up /\ conn'[c].outbox = conn[c].outbox /\ conn'[c].down = conn[c].down
      /\ conn'[c].missed = conn[c].missed
  BY OpenFacts DEF Others
<1>3. conn[c].is = "shut" => Pending(c)' = {}
  BY <1>1 DEF Lives, ShutGone, GoneSilent, Pending
<1>4. Excused(c, id) => Excused(c, id)'
  BY <1>1, <1>2, <1>3 DEF Excused, Pending
<1> QED  BY <1>1, <1>2, <1>4, MovedSame

\* A connection is shut: what it held is lost, with an excuse.
LEMMA MovedShut ==
    ASSUME TypeOK, NEW c \in Conns, NEW id \in Nat \ {0},
           commands' \in {commands, <<>>}, server'.busy = server.busy, conn'[c] = Shut(conn[c])
    PROVE  Moved(c, id)
<1>1. /\ conn'[c].is = "shut" /\ conn'[c].up = <<>> /\ conn'[c].outbox = <<>> /\ conn'[c].down = conn[c].down
  BY ShutFacts DEF TypeOK
<1>2. Excused(c, id)'
  BY <1>1 DEF Excused
<1> DEFINE u == Carried(conn[c].up, id)
           a == Asked(commands, c, id)
           b == Asked(commands', c, id)
           h == InHand(c, id)
           o == Carried(conn[c].outbox, id)
           w == Carried(conn[c].down, id)
<1>3. u \in Nat /\ a \in Nat /\ h \in {0, 1} /\ o \in Nat /\ w \in Nat
  BY CountTypes
<1>4. b \in {a, 0}
  BY AskedEmpty
<1>5. InHand(c, id)' = h
  BY DEF InHand
<1>6. Carried(conn'[c].up, id) = 0 /\ Carried(conn'[c].outbox, id) = 0 /\ Carried(conn'[c].down, id) = w
  BY <1>1, CarriedEmpty
<1>7. Total(c, id) = u + a + h + o + w /\ Total(c, id)' = 0 + b + h + 0 + w
  BY <1>5, <1>6 DEF Total
<1> HIDE DEF u, a, b, h, o, w
<1>8. Total(c, id)' <= Total(c, id)
  BY <1>3, <1>4, <1>7
<1> QED  BY <1>2, <1>8 DEF Moved

LEMMA MovedCloseConn ==
    ASSUME TypeOK, HandleConnClose, NEW c \in Conns, NEW id \in Nat \ {0}
    PROVE  Moved(c, id)
<1> DEFINE d == Head(internal).c
<1>1. d \in Conns /\ conn'[d] = Shut(conn[d]) /\ Others(d)
  BY CloseConnFacts
<1>2. UNCHANGED <<commands, client>> /\ server'.busy = server.busy
  BY DEF HandleConnClose, TypeOK
<1> HIDE DEF d
<1>3. CASE c = d
  BY <1>1, <1>2, <1>3, MovedShut
<1>4. CASE c # d
  <2>1. conn'[c] = conn[c]
    BY <1>1, <1>4 DEF Others
  <2>2. Excused(c, id) => Excused(c, id)'
    BY <1>2, <2>1 DEF Excused, Pending
  <2> QED  BY <1>2, <2>1, <2>2, MovedSame
<1> QED  BY <1>3, <1>4

LEMMA MovedStop ==
    ASSUME TypeOK, Lives, Stop, NEW c \in Conns, NEW id \in Nat \ {0}
    PROVE  Moved(c, id)
<1>1. /\ commands' = <<>> /\ server'.busy = server.busy /\ client' = client
      /\ conn'[c] = IF conn[c].is = "none" THEN conn[c] ELSE Shut(conn[c])
  BY DEF Stop, TypeOK
<1>2. CASE conn[c].is # "none"
  BY <1>1, <1>2, MovedShut
<1>3. CASE conn[c].is = "none"
  <2>1. Excused(c, id)'
    BY <1>1, <1>3 DEF Lives, GoneSilent, Excused, Pending
  <2> DEFINE u == Carried(conn[c].up, id)
             a == Asked(commands, c, id)
             h == InHand(c, id)
             o == Carried(conn[c].outbox, id)
             w == Carried(conn[c].down, id)
  <2>2. u \in Nat /\ a \in Nat /\ h \in {0, 1} /\ o \in Nat /\ w \in Nat
    BY CountTypes
  <2>3. InHand(c, id)' = h /\ conn'[c] = conn[c] /\ Asked(commands', c, id) = 0
    BY <1>1, <1>3, AskedEmpty DEF InHand
  <2>4. Total(c, id) = u + a + h + o + w /\ Total(c, id)' = u + 0 + h + o + w
    BY <2>3 DEF Total
  <2> HIDE DEF u, a, h, o, w
  <2>5. Total(c, id)' <= Total(c, id)
    BY <2>2, <2>4
  <2> QED  BY <2>1, <2>5 DEF Moved
<1> QED  BY <1>2, <1>3

LEMMA MovedClose ==
    ASSUME TypeOK, NEW d \in Conns, Close(d), NEW c \in Conns, NEW id \in Nat \ {0}
    PROVE  Moved(c, id)
<1>1. /\ Others(d) /\ conn'[d].down = <<>> /\ conn'[d].is = conn[d].is /\ conn'[d].up = conn[d].up
      /\ conn'[d].outbox = conn[d].outbox /\ conn'[d].missed = conn[d].missed
      /\ Pending(d)' = {} /\ \A e \in Conns \ {d} : client'[e] = client[e]
  BY CloseFacts
<1>2. UNCHANGED <<server, commands>>
  BY DEF Close
<1>3. CASE c # d
  <2>1. conn'[c] = conn[c] /\ client'[c] = client[c]
    BY <1>1, <1>3 DEF Others
  <2>2. Excused(c, id) => Excused(c, id)'
    BY <2>1 DEF Excused, Pending
  <2> QED  BY <1>2, <2>1, <2>2, MovedSame
<1>4. CASE c = d
  <2>1. Excused(c, id)'
    BY <1>1, <1>4 DEF Excused
  <2> DEFINE u == Carried(conn[c].up, id)
             a == Asked(commands, c, id)
             h == InHand(c, id)
             o == Carried(conn[c].outbox, id)
             w == Carried(conn[c].down, id)
  <2>2. u \in Nat /\ a \in Nat /\ h \in {0, 1} /\ o \in Nat /\ w \in Nat
    BY CountTypes
  <2>3. InHand(c, id)' = h /\ Carried(conn'[c].down, id) = 0
    BY <1>1, <1>2, <1>4, CarriedEmpty DEF InHand
  <2>4. Total(c, id) = u + a + h + o + w /\ Total(c, id)' = u + a + h + o + 0
    BY <1>1, <1>2, <1>4, <2>3 DEF Total
  <2> HIDE DEF u, a, h, o, w
  <2>5. Total(c, id)' <= Total(c, id)
    BY <2>2, <2>4
  <2> QED  BY <2>1, <2>5 DEF Moved
<1> QED  BY <1>3, <1>4

\* A new request is on its way up and nowhere else.
LEMMA AccountedSend ==
    ASSUME TypeOK, Lives, Accounted, NEW c \in Conns, NEW kind \in Names, NEW phase \in {"joining", "running"},
           ~ Gone(c), Send(c, kind, phase)
    PROVE  Accounted'
<1>1. /\ Others(c) /\ (\A d \in Conns \ {c} : client'[d] = client[d])
      /\ UNCHANGED <<server, internal, commands>>
      /\ conn'[c].is = IF conn[c].is = "none" THEN "dialled" ELSE conn[c].is
      /\ conn'[c].up = IF conn[c].is = "shut" THEN conn[c].up ELSE Append(conn[c].up, Request(c, kind))
      /\ conn'[c].outbox = conn[c].outbox /\ conn'[c].down = conn[c].down /\ conn'[c].missed = conn[c].missed
      /\ Request(c, kind) \in Frames /\ Request(c, kind).id = Len(client[c].sent) + 1
      /\ Len(client'[c].sent) = Len(client[c].sent) + 1
      /\ Pending(c)' = IF conn[c].is = "shut" THEN Pending(c) ELSE Pending(c) \cup {Len(client[c].sent) + 1}
  BY SentFacts
<1> SUFFICES ASSUME NEW d \in Conns, NEW id \in Nat \ {0}
             PROVE  /\ id > Len(client'[d].sent) => Total(d, id)' = 0
                    /\ Excused(d, id)' \/ Total(d, id)' = 1
  BY DEF Accounted
<1>2. /\ id > Len(client[d].sent) => Total(d, id) = 0
      /\ Excused(d, id) \/ Total(d, id) = 1
  BY DEF Accounted
<1>3. InHand(d, id)' = InHand(d, id)
  BY <1>1 DEF InHand
<1>4. CASE d # c
  <2>1. conn'[d] = conn[d] /\ client'[d] = client[d] /\ Pending(d)' = Pending(d)
    BY <1>1, <1>4 DEF Others, Pending
  <2>2. Total(d, id)' = Total(d, id)
    BY <1>1, <1>3, <2>1 DEF Total
  <2>3. Excused(d, id)' <=> Excused(d, id)
    BY <2>1 DEF Excused
  <2> QED  BY <1>2, <2>1, <2>2, <2>3
<1>5. CASE d = c
  <2> DEFINE n == Len(client[c].sent)
             u == Carried(conn[c].up, id)
             v == Carried(conn'[c].up, id)
             a == Asked(commands, c, id)
             h == InHand(c, id)
             o == Carried(conn[c].outbox, id)
             w == Carried(conn[c].down, id)
  <2>1. u \in Nat /\ a \in Nat /\ h \in {0, 1} /\ o \in Nat /\ w \in Nat /\ conn[c].up \in Seq(Frames)
    BY CountTypes
  <2>2. n \in Nat
    BY DEF TypeOK, Clients
  <2>3. Total(c, id) = u + a + h + o + w /\ Total(c, id)' = v + a + h + o + w
    BY <1>1, <1>3, <1>5 DEF Total
  <2>4. Append(conn[c].up, Request(c, kind)) = conn'[c].up =>
           /\ id = n + 1 => v = u + 1
           /\ id # n + 1 => v = u
    <3> DEFINE q == conn[c].up
               r == Request(c, kind)
    <3>1. q \in Seq(Frames) /\ r \in Frames /\ r.id = n + 1
      BY <1>1, <2>1
    <3> HIDE DEF q, r
    <3>2. /\ r.id = id => Carried(Append(q, r), id) = Carried(q, id) + 1
          /\ r.id # id => Carried(Append(q, r), id) = Carried(q, id)
      BY <3>1, CarriedFacts
    <3> QED  BY <3>1, <3>2 DEF q, r
  <2>5. CASE conn[c].is = "shut"
    <3>1. Excused(c, id)'
      BY <1>1, <2>5 DEF Excused
    <3>2. v = u
      BY <1>1, <2>5
    <3>3. Len(client'[c].sent) = n + 1 /\ (id > n => Total(c, id) = 0)
      BY <1>1, <1>2, <1>5
    <3> HIDE DEF n, u, v, a, h, o, w
    <3> QED  BY <1>5, <2>1, <2>2, <2>3, <3>1, <3>2, <3>3
  <2>6. CASE conn[c].is # "shut"
    <3>1. /\ id = n + 1 => v = u + 1
          /\ id # n + 1 => v = u
      BY <1>1, <2>4, <2>6
    <3>2. Len(client'[c].sent) = n + 1 /\ (id > n => Total(c, id) = 0)
      BY <1>1, <1>2, <1>5
    <3>3. id # n + 1 => (Excused(c, id) => Excused(c, id)')
      BY <1>1, <2>6 DEF Excused
    <3>4. Excused(c, id) \/ Total(c, id) = 1
      BY <1>2, <1>5
    <3> HIDE DEF n, u, v, a, h, o, w
    <3> QED  BY <1>5, <2>1, <2>2, <2>3, <3>1, <3>2, <3>3, <3>4
  <2> QED  BY <2>5, <2>6
<1> QED  BY <1>4, <1>5

LEMMA AccountedInit == Init => Accounted
<1> SUFFICES ASSUME Init, NEW c \in Conns, NEW id \in Nat \ {0}
             PROVE  /\ id > Len(client[c].sent) => Total(c, id) = 0
                    /\ Excused(c, id) \/ Total(c, id) = 1
  BY DEF Accounted
<1>1. /\ conn[c].up = <<>> /\ conn[c].outbox = <<>> /\ conn[c].down = <<>> /\ commands = <<>>
      /\ server.busy = Idle /\ Pending(c) = {}
  BY DEF Init, Pending
<1>2. InHand(c, id) = 0
  BY <1>1 DEF InHand, Idle
<1>3. /\ Carried(conn[c].up, id) = 0 /\ Carried(conn[c].outbox, id) = 0 /\ Carried(conn[c].down, id) = 0
      /\ Asked(commands, c, id) = 0
  BY <1>1, CarriedEmpty, AskedEmpty
<1> QED  BY <1>1, <1>2, <1>3 DEF Total, Excused

\* Which steps send a request, and what they leave of the others.
LEMMA SentUnchanged ==
    ASSUME TypeOK, [Next]_vars, NEW c \in Conns
    PROVE  \/ Len(client'[c].sent) = Len(client[c].sent)
           \/ \E d \in Conns : Bootstrap(d) \/ Start(d) \/ Call(d)
<1>1. CASE Loop \/ Change \/ Stop \/ (\E d \in Conns : Connection(d) \/ HandleServerEvent(d)) \/ UNCHANGED vars
  BY <1>1 DEF Loop, Change, Stop, Connection, HandleServerEvent, HandleConnOpen, HandleConnClose, Subscribe,
              Unsubscribe, ListSessions, DriverHook, StartSyncResponse, SendResponseSync, Accept, Read, ReadEnds,
              Write, vars
<1>2. ASSUME NEW d \in Conns, ReceiveEnds(d) \/ Timeout(d) \/ Listen(d)
      PROVE  client'[c].sent = client[c].sent
  <2>1. CASE ReceiveEnds(d)
    BY <2>1 DEF ReceiveEnds, TypeOK, Clients
  <2>2. CASE Timeout(d)
    BY <2>2 DEF Timeout, TypeOK, Clients
  <2>3. CASE Listen(d)
    BY <2>3 DEF Listen, TypeOK, Clients
  <2> QED  BY <1>2, <2>1, <2>2, <2>3
<1>3. ASSUME NEW d \in Conns, Receive(d)
      PROVE  client'[c].sent = client[c].sent
  <2>1. CASE DispatchEvent(d, Head(conn[d].down))
    BY <2>1 DEF DispatchEvent, TypeOK, Clients
  <2>2. CASE DispatchResponse(d, Head(conn[d].down))
    <3> DEFINE id == Head(conn[d].down).id
               cl == [client[d] EXCEPT !.outcome = [client[d].outcome EXCEPT ![id] = "answered"]]
    <3>1. client' = client \/ client' = [client EXCEPT ![d] = cl]
      BY <2>2 DEF DispatchResponse, TypeOK
    <3>2. cl.sent = client[d].sent
      BY DEF TypeOK, Clients
    <3>3. client'[c] \in {client[c], IF c = d THEN cl ELSE client[c]}
      <4> HIDE DEF cl
      <4> QED  BY <3>1 DEF TypeOK
    <3> HIDE DEF cl
    <3> QED  BY <3>2, <3>3
  <2> QED  BY <1>3, <2>1, <2>2 DEF Receive
<1>4. ASSUME NEW d \in Conns, Close(d) \/ Disconnect(d)
      PROVE  client'[c].sent = client[c].sent
  BY <1>4, CloseFacts DEF Disconnect
<1> QED  BY <1>1, <1>2, <1>3, <1>4 DEF Next, Program

LEMMA AccountedStep == TypeOK /\ Lives /\ Accounted /\ [Next]_vars => Accounted'
<1> SUFFICES ASSUME TypeOK, Lives, Accounted, [Next]_vars
             PROVE  Accounted'
  OBVIOUS
<1>1. TypeOK'
  BY TypeStep
<1>2. ASSUME NEW d \in Conns, Bootstrap(d) \/ Start(d) \/ Call(d)
      PROVE  Accounted'
  BY <1>2, SentBy, SenderThere, AccountedSend
<1>3. ASSUME ~ \E d \in Conns : Bootstrap(d) \/ Start(d) \/ Call(d)
      PROVE  Accounted'
  <2>1. \A c \in Conns : Len(client'[c].sent) = Len(client[c].sent)
    BY <1>3, SentUnchanged
  <2>2. ASSUME NEW c \in Conns, NEW id \in Nat \ {0}
        PROVE  Moved(c, id)
    <3>1. CASE Loop
      BY <3>1, MovedOpen, MovedCloseConn, MovedAnswering, MovedStartSync, MovedSendResponse DEF Loop, Answering
    <3>2. CASE Change \/ Stop
      BY <3>2, MovedChange, MovedStop
    <3>3. ASSUME NEW d \in Conns, Connection(d)
          PROVE  Moved(c, id)
      BY <3>3, MovedAccept, MovedRead, MovedWrite DEF Connection
    <3>4. ASSUME NEW d \in Conns, Receive(d) \/ ReceiveEnds(d) \/ Timeout(d) \/ Listen(d) \/ HandleServerEvent(d)
          PROVE  Moved(c, id)
      BY <3>4, MovedReceive, MovedClient
    <3>5. ASSUME NEW d \in Conns, Close(d) \/ Disconnect(d)
          PROVE  Moved(c, id)
      BY <3>5, MovedClose DEF Disconnect
    <3>6. CASE UNCHANGED vars
      <4>1. Excused(c, id) => Excused(c, id)'
        BY <3>6 DEF vars, Excused, Pending
      <4> QED  BY <3>6, <4>1, MovedSame DEF vars
    <3> QED  BY <1>3, <3>1, <3>2, <3>3, <3>4, <3>5, <3>6 DEF Next, Program
  <2> QED  BY <1>1, <2>1, <2>2, AccountedMoved
<1> QED  BY <1>2, <1>3

\* Requests are numbered from 1.
LEMMA PendingIds == ASSUME TypeOK, NEW c \in Conns PROVE Pending(c) \subseteq 1 .. Len(client[c].sent)
<1>1. client[c].outcome \in Seq(Outcomes) /\ Len(client[c].sent) = Len(client[c].outcome)
  BY DEF TypeOK, Clients
<1> QED  BY <1>1 DEF Pending

\* A request that still waits is in exactly one place (the event channel of
\* runtime/runtime.go, the outboxes of runtime/ipc.go, the pending map of
\* proto/client.go).
THEOREM RequestsAccountedAlways == Spec => []RequestsAccounted
<1>1. Init => TypeOK /\ Lives /\ Accounted
  BY TypeInit, LivesInit, AccountedInit
<1>2. TypeOK /\ Lives /\ Accounted /\ [Next]_vars => (TypeOK /\ Lives /\ Accounted)'
  BY TypeStep, LivesStep, AccountedStep
<1>3. TypeOK /\ Accounted => RequestsAccounted
  <2> SUFFICES ASSUME TypeOK, Accounted, NEW c \in Conns, NEW id \in Pending(c),
                      conn[c].is \in {"dialled", "posted", "open"}, id \notin conn[c].missed
               PROVE  Total(c, id) = 1
    BY DEF RequestsAccounted, Total
  <2>1. id \in Nat \ {0}
    BY PendingIds DEF TypeOK, Clients
  <2>2. ~ Excused(c, id)
    BY DEF Excused
  <2> QED  BY <2>1, <2>2 DEF Accounted
<1> QED  BY <1>1, <1>2, <1>3, PTL DEF Spec

-----------------------------------------------------------------------------
(* Who asked for the shutdown is answered *)

OnWay(c, id) == \E i \in DOMAIN conn[c].down : conn[c].down[i].id = id

\* The answer to a shutdown is on the socket until its client has it.
Shutdowns ==
  \A c \in Conns, id \in Nat \ {0} :
     <<c, id>> \in server.stopping =>
        id <= Len(client[c].sent) /\ (id \in Pending(c) => OnWay(c, id))

LEMMA OnWayAppend ==
    ASSUME TypeOK, NEW c \in Conns, NEW m \in Messages, conn'[c].down = Append(conn[c].down, m)
    PROVE  /\ \A id \in Nat : OnWay(c, id) => OnWay(c, id)'
           /\ OnWay(c, m.id)'
<1> DEFINE s == conn[c].down
<1>1. s \in Seq(Messages)
  BY DEF TypeOK, Connections
<1> HIDE DEF s
<1>2. /\ \A i \in DOMAIN s : i \in DOMAIN Append(s, m) /\ Append(s, m)[i] = s[i]
      /\ \E i \in DOMAIN Append(s, m) : Append(s, m)[i] = m
  BY <1>1, AppendElements
<1> QED  BY <1>2 DEF OnWay, s

\* A request that was made and waits after a step has waited before.
LEMMA PendingShrinks ==
    ASSUME TypeOK, [Next]_vars, NEW c \in Conns, NEW id \in Nat, id <= Len(client[c].sent), id \in Pending(c)'
    PROVE  id \in Pending(c)
<1>1. CASE \E d \in Conns : Bootstrap(d) \/ Start(d) \/ Call(d)
  <2>1. PICK d \in Conns, kind \in Names, phase \in {"joining", "running"} : Send(d, kind, phase)
    BY <1>1, SentBy
  <2>2. /\ \A e \in Conns \ {d} : client'[e] = client[e]
        /\ Pending(d)' = IF conn[d].is = "shut" THEN Pending(d) ELSE Pending(d) \cup {Len(client[d].sent) + 1}
    BY <2>1, SentFacts
  <2>3. Len(client[d].sent) \in Nat
    BY DEF TypeOK, Clients
  <2>4. CASE c = d
    BY <2>2, <2>3, <2>4
  <2>5. CASE c # d
    BY <2>2, <2>5 DEF Pending
  <2> QED  BY <2>4, <2>5
<1>2. CASE \E d \in Conns : Close(d) \/ Disconnect(d)
  BY <1>2, CloseFacts DEF Disconnect, Pending
<1>3. CASE UNCHANGED client
  BY <1>3 DEF Pending
<1>4. CASE \E d \in Conns : Receive(d) \/ ReceiveEnds(d) \/ Timeout(d) \/ Listen(d) \/ HandleServerEvent(d)
  BY <1>4, ReceiveQuiet, ClientQuiet DEF Quiet
<1>5. CASE Loop \/ Change \/ Stop \/ (\E d \in Conns : Connection(d)) \/ UNCHANGED vars
  <2>1. UNCHANGED client
    BY <1>5 DEF Loop, Change, Stop, Connection, HandleConnOpen, HandleConnClose, Subscribe,
                Unsubscribe, ListSessions, DriverHook, StartSyncResponse, SendResponseSync, Accept, Read, ReadEnds,
                Write, vars
  <2> QED  BY <1>3, <2>1
<1> QED  BY <1>1, <1>2, <1>4, <1>5 DEF Next, Program

\* What is on the socket stays there until its client takes it.
LEMMA DownChanges ==
    ASSUME TypeOK, [Next]_vars, NEW c \in Conns
    PROVE  \/ conn'[c].down = conn[c].down
           \/ \E m \in Messages : conn'[c].down = Append(conn[c].down, m)
           \/ Receive(c)
           \/ Pending(c)' = {}
<1>1. CASE Answering \/ Change
  <2>1. 1 \in Nat \ {0}
    OBVIOUS
  <2>2. Kept(c)
    BY <1>1, <2>1, AnsweringFacts, ChangeCounts
  <2> QED  BY <2>2 DEF Kept
<1>2. CASE HandleConnOpen
  BY <1>2, OpenFacts DEF Others
<1>3. CASE HandleConnClose
  <2>1. conn[c] \in Connections
    BY DEF TypeOK
  <2>2. conn'[c] \in {conn[c], Shut(conn[c])}
    BY <1>3, CloseConnFacts DEF Others
  <2> QED  BY <2>1, <2>2, ShutFacts
<1>4. CASE Stop
  <2>1. conn[c] \in Connections
    BY DEF TypeOK
  <2>2. conn'[c] \in {conn[c], Shut(conn[c])}
    BY <1>4 DEF Stop
  <2> QED  BY <2>1, <2>2, ShutFacts
<1>5. CASE StartSyncResponse \/ UNCHANGED vars
  BY <1>5 DEF StartSyncResponse, vars
<1>6. CASE SendResponseSync
  <2> DEFINE r == server.busy
  <2>1. /\ r \in Requests /\ Others(r.c) /\ r.id \in Nat \ {0}
        /\ conn'[r.c].down = Append(conn[r.c].down, Message(r.id, 0)) \/ conn'[r.c].down = conn[r.c].down
    BY <1>6, SyncFacts
  <2>2. Message(r.id, 0) \in Messages
    BY <2>1 DEF Message, Messages
  <2> HIDE DEF r
  <2> QED  BY <2>1, <2>2 DEF Others
<1>7. ASSUME NEW d \in Conns, Accept(d) \/ Read(d) \/ ReadEnds(d)
      PROVE  conn'[c].down = conn[c].down
  BY <1>7, AcceptFacts, ReadFacts, ReadEndsFacts DEF Others
<1>8. ASSUME NEW d \in Conns, Write(d)
      PROVE  \/ conn'[c].down = conn[c].down
             \/ \E m \in Messages : conn'[c].down = Append(conn[c].down, m)
  <2>1. /\ conn[d].outbox # <<>> /\ Others(d)
        /\ conn'[d].down = Append(conn[d].down, Head(conn[d].outbox)) \/ conn'[d].down = conn[d].down
    BY <1>8, WriteFacts
  <2>2. Head(conn[d].outbox) \in Messages
    <3>1. conn[d].outbox \in Seq(Messages)
      BY DEF TypeOK, Connections
    <3> QED  BY <2>1, <3>1, HeadTailProperties
  <2> QED  BY <2>1, <2>2 DEF Others
<1>9. ASSUME NEW d \in Conns, Receive(d)
      PROVE  conn'[c].down = conn[c].down \/ Receive(c)
  BY <1>9, ReceiveFacts DEF Others
<1>10. ASSUME NEW d \in Conns, ReceiveEnds(d) \/ Timeout(d) \/ Listen(d) \/ HandleServerEvent(d)
       PROVE  conn' = conn
  BY <1>10 DEF ReceiveEnds, Timeout, Listen, HandleServerEvent
<1>11. ASSUME NEW d \in Conns, Close(d) \/ Disconnect(d)
       PROVE  conn'[c].down = conn[c].down \/ Pending(c)' = {}
  BY <1>11, CloseFacts DEF Disconnect, Others
<1>12. ASSUME NEW d \in Conns, Bootstrap(d) \/ Start(d) \/ Call(d)
       PROVE  conn'[c].down = conn[c].down
  <2>1. PICK kind \in Names, phase \in {"joining", "running"} : Send(d, kind, phase)
    BY <1>12, SentBy
  <2> QED  BY <2>1, SentFacts DEF Others
<1> QED  BY <1>1, <1>2, <1>3, <1>4, <1>5, <1>6, <1>7, <1>8, <1>9, <1>10, <1>11, <1>12
         DEF Next, Loop, Connection, Program, Answering

LEMMA OnWayKept ==
    ASSUME TypeOK, [Next]_vars, NEW c \in Conns, NEW id \in Nat \ {0}, id \in Pending(c)', OnWay(c, id)
    PROVE  OnWay(c, id)'
<1>1. CASE conn'[c].down = conn[c].down
  BY <1>1 DEF OnWay
<1>2. CASE \E m \in Messages : conn'[c].down = Append(conn[c].down, m)
  BY <1>2, OnWayAppend
<1>3. CASE Receive(c)
  <2> DEFINE s == conn[c].down
  <2>1. s \in Seq(Messages) /\ s # <<>> /\ conn'[c].down = Tail(s)
    BY <1>3, ReceiveFacts DEF TypeOK, Connections
  <2>2. Head(s).id # id
    BY <1>3, ReceiveFacts, ResponseEnds
  <2>3. PICK i \in DOMAIN s : s[i].id = id
    BY DEF OnWay
  <2> HIDE DEF s
  <2>4. Head(s) = s[1] /\ Len(Tail(s)) = Len(s) - 1 /\ DOMAIN s = 1 .. Len(s) /\ Len(s) \in Nat
        /\ DOMAIN Tail(s) = 1 .. Len(Tail(s))
        /\ \A j \in DOMAIN Tail(s) : j + 1 \in DOMAIN s /\ Tail(s)[j] = s[j + 1]
    <3>1. Len(Tail(s)) = Len(s) - 1 /\ Tail(s) \in Seq(Messages)
      BY <2>1, HeadTailProperties
    <3> QED  BY <2>1, <3>1, TailElements, LenProperties
  <2>5. i # 1
    BY <2>2, <2>3, <2>4
  <2>6. i - 1 \in DOMAIN Tail(s) /\ i = (i - 1) + 1
    BY <2>4, <2>5
  <2>7. Tail(s)[i - 1].id = id
    BY <2>3, <2>4, <2>6
  <2> QED  BY <2>1, <2>6, <2>7 DEF OnWay
<1>4. CASE Pending(c)' = {}
  BY <1>4
<1> QED  BY <1>1, <1>2, <1>3, <1>4, DownChanges

LEMMA StoppingKept ==
    ASSUME TypeOK, [Next]_vars, ~ SendResponseSync
    PROVE  server'.stopping = server.stopping
<1>1. CASE HandleConnOpen \/ HandleConnClose \/ Change \/ Stop \/ UNCHANGED vars
  BY <1>1 DEF HandleConnOpen, HandleConnClose, Change, Stop, vars, TypeOK
<1>2. CASE Answering \/ StartSyncResponse
  BY <1>2 DEF Answering, Subscribe, Unsubscribe, ListSessions, DriverHook, StartSyncResponse, TypeOK
<1>3. ASSUME NEW c \in Conns, Connection(c) \/ Program(c) \/ Bootstrap(c) \/ Call(c) \/ Timeout(c) \/ Close(c) \/ Disconnect(c)
      PROVE  server' = server
  BY <1>3 DEF Connection, Program, Accept, Read, ReadEnds, Write, Start, Receive, ReceiveEnds, Listen,
              HandleServerEvent, Bootstrap, Call, Timeout, Close, Disconnect, Send
<1> QED  BY <1>1, <1>2, <1>3 DEF Next, Loop, Answering

LEMMA SentGrows ==
    ASSUME TypeOK, [Next]_vars, NEW c \in Conns
    PROVE  Len(client'[c].sent) \in Nat /\ Len(client'[c].sent) >= Len(client[c].sent)
<1>1. Len(client[c].sent) \in Nat
  BY DEF TypeOK, Clients
<1>2. CASE \E d \in Conns : Bootstrap(d) \/ Start(d) \/ Call(d)
  <2>1. PICK d \in Conns, kind \in Names, phase \in {"joining", "running"} : Send(d, kind, phase)
    BY <1>2, SentBy
  <2>2. /\ \A e \in Conns \ {d} : client'[e] = client[e]
        /\ Len(client'[d].sent) = Len(client[d].sent) + 1
    BY <2>1, SentFacts
  <2> QED  BY <1>1, <2>2
<1> QED  BY <1>1, <1>2, SentUnchanged

LEMMA ShutdownsStep == TypeOK /\ Lives /\ Accounted /\ Shutdowns /\ [Next]_vars => Shutdowns'
<1> SUFFICES ASSUME TypeOK, Lives, Accounted, Shutdowns, [Next]_vars,
                    NEW c \in Conns, NEW id \in Nat \ {0}, <<c, id>> \in server'.stopping
             PROVE  /\ id <= Len(client'[c].sent)
                    /\ id \in Pending(c)' => OnWay(c, id)'
  BY DEF Shutdowns
<1>1. /\ Len(client[c].sent) \in Nat
      /\ Len(client'[c].sent) \in Nat /\ Len(client'[c].sent) >= Len(client[c].sent)
  BY SentGrows DEF TypeOK, Clients
<1>2. CASE <<c, id>> \in server.stopping
  <2>1. id <= Len(client[c].sent) /\ (id \in Pending(c) => OnWay(c, id))
    BY <1>2 DEF Shutdowns
  <2>2. id \in Pending(c)' => OnWay(c, id)'
    BY <2>1, PendingShrinks, OnWayKept
  <2> QED  BY <1>1, <2>1, <2>2
<1>3. CASE <<c, id>> \notin server.stopping
  <2>1. SendResponseSync
    BY <1>3, StoppingKept
  <2> DEFINE r == server.busy
  <2>2. /\ r \in Requests /\ r.c \in Conns /\ r.id \in Nat \ {0}
        /\ \/ conn'[r.c].down = Append(conn[r.c].down, Message(r.id, 0))
           \/ (conn[r.c].is # "open" \/ Gone(r.c)) /\ conn'[r.c].down = conn[r.c].down
    BY <2>1, SyncFacts
  <2>3. r.c = c /\ r.id = id /\ client' = client /\ ~ server.stopped /\ r # Idle
    <3>1. server'.stopping \subseteq server.stopping \cup {<<r.c, r.id>>}
      BY <2>1 DEF SendResponseSync, TypeOK
    <3> HIDE DEF r
    <3>2. <<c, id>> = <<r.c, r.id>>
      BY <1>3, <3>1
    <3> QED  BY <2>1, <3>2 DEF SendResponseSync, r
  <2>4. id <= Len(client[c].sent)
    <3>1. InHand(c, id) = 1
      BY <2>3 DEF InHand
    <3> DEFINE u == Carried(conn[c].up, id)
               a == Asked(commands, c, id)
               o == Carried(conn[c].outbox, id)
               w == Carried(conn[c].down, id)
    <3>2. u \in Nat /\ a \in Nat /\ o \in Nat /\ w \in Nat
      BY CountTypes
    <3>3. Total(c, id) = u + a + 1 + o + w
      BY <3>1 DEF Total
    <3>4. id > Len(client[c].sent) => Total(c, id) = 0
      BY DEF Accounted
    <3> HIDE DEF u, a, o, w
    <3> QED  BY <1>1, <3>2, <3>3, <3>4
  <2>5. id \in Pending(c)' => OnWay(c, id)'
    <3>1. CASE conn'[c].down = Append(conn[c].down, Message(id, 0))
      <4>1. Message(id, 0) \in Messages /\ Message(id, 0).id = id
        BY DEF Message, Messages
      <4> QED  BY <3>1, <4>1, OnWayAppend
    <3>2. CASE conn[c].is # "open" \/ Gone(c)
      <4>1. conn[c].is \in {"open", "shut"}
        BY <2>3 DEF Lives, BusyKnown
      <4>2. Gone(c)
        BY <2>3, <3>2, <4>1 DEF Lives, ShutGone
      <4> QED  BY <2>3, <4>2 DEF Lives, GoneSilent, Pending
    <3> HIDE DEF r
    <3> QED  BY <2>2, <2>3, <3>1, <3>2
  <2> QED  BY <1>1, <2>4, <2>5
<1> QED  BY <1>2, <1>3

\* Who asked for the shutdown finds the answer on the socket when the loop has
\* ended (sendResponseSync in runtime/ipc.go, reduceShutdown).
THEOREM ShutdownAnsweredAlways == Spec => []ShutdownAnswered
<1>1. Init => TypeOK /\ Lives /\ Accounted /\ Shutdowns
  <2>1. Init => Shutdowns
    BY DEF Init, Shutdowns
  <2> QED  BY <2>1, TypeInit, LivesInit, AccountedInit
<1>2. TypeOK /\ Lives /\ Accounted /\ Shutdowns /\ [Next]_vars => (TypeOK /\ Lives /\ Accounted /\ Shutdowns)'
  BY TypeStep, LivesStep, AccountedStep, ShutdownsStep
<1>3. TypeOK /\ Shutdowns => ShutdownAnswered
  <2> SUFFICES ASSUME TypeOK, Shutdowns, NEW p \in server.stopping, p[2] \in Pending(p[1])
               PROVE  OnWay(p[1], p[2])
    BY DEF ShutdownAnswered, OnWay
  <2>1. server.stopping \subseteq Conns \X (Nat \ {0})
    BY DEF TypeOK
  <2>2. p[1] \in Conns /\ p[2] \in Nat \ {0} /\ p = <<p[1], p[2]>>
    BY <2>1
  <2> QED  BY <2>2 DEF Shutdowns
<1> QED  BY <1>1, <1>2, <1>3, PTL DEF Spec

-----------------------------------------------------------------------------
(* Feeds: the tables of a client's events channel, socket and outbox *)

Fed(e, d, o) == e \o TablesOf(d \o o)

LEMMA NatAssociative ==
    ASSUME NEW a \in Seq(Nat), NEW b \in Seq(Nat), NEW z \in Seq(Nat)
    PROVE  (a \o b) \o z = a \o (b \o z)
<1> DEFINE E == Nat
<1>1. a \in Seq(E) /\ b \in Seq(E) /\ z \in Seq(E)
  OBVIOUS
<1> HIDE DEF E
<1> QED  BY <1>1, ConcatAssociative

LEMMA FedParts ==
    ASSUME NEW e \in Seq(Nat), NEW d \in Seq(Messages), NEW o \in Seq(Messages)
    PROVE  /\ Fed(e, d, o) = e \o (TablesOf(d) \o TablesOf(o))
           /\ Fed(e, d, o) = (e \o TablesOf(d)) \o TablesOf(o)
           /\ Fed(e, d, o) \in Seq(Nat) /\ e \o TablesOf(d) \in Seq(Nat)
           /\ TablesOf(d) \in Seq(Nat) /\ TablesOf(o) \in Seq(Nat)
<1>1. TablesOf(d) \in Seq(Nat) /\ TablesOf(o) \in Seq(Nat)
  BY TablesType
<1>2. Fed(e, d, o) = e \o (TablesOf(d) \o TablesOf(o))
  BY TablesConcat DEF Fed
<1>3. e \o (TablesOf(d) \o TablesOf(o)) = (e \o TablesOf(d)) \o TablesOf(o)
  BY <1>1, NatAssociative
<1>4. e \o TablesOf(d) \in Seq(Nat) /\ (e \o TablesOf(d)) \o TablesOf(o) \in Seq(Nat)
  BY <1>1, ConcatProperties
<1> QED  BY <1>1, <1>2, <1>3, <1>4

\* r is q without a part in its middle.
Loses(q, r) == \E a \in Seq(Nat), b \in Seq(Nat), z \in Seq(Nat) : q = (a \o b) \o z /\ r = a \o z

LEMMA LosesNothing == ASSUME NEW q \in Seq(Nat) PROVE Loses(q, q)
<1>1. <<>> \in Seq(Nat) /\ q \o <<>> = q
  BY EmptySeq, ConcatEmptySeq
<1>2. q = (q \o <<>>) \o <<>> /\ q = q \o <<>>
  BY <1>1
<1> QED  BY <1>1, <1>2 DEF Loses

LEMMA LosesEnd == ASSUME NEW q \in Seq(Nat), NEW r \in Seq(Nat) PROVE Loses(q \o r, q)
<1>1. <<>> \in Seq(Nat) /\ q \o <<>> = q /\ (q \o r) \o <<>> = q \o r
  BY EmptySeq, ConcatEmptySeq, ConcatProperties
<1> QED  BY <1>1 DEF Loses

LEMMA LosesStart == ASSUME NEW q \in Seq(Nat), NEW r \in Seq(Nat) PROVE Loses(q \o r, r)
<1>1. <<>> \in Seq(Nat) /\ <<>> \o r = r /\ <<>> \o q = q
  BY EmptySeq, ConcatEmptySeq
<1>2. q \o r = (<<>> \o q) \o r /\ r = <<>> \o r
  BY <1>1
<1> QED  BY <1>1, <1>2 DEF Loses

\* What goes into the outbox goes to the end of the feed.
LEMMA FedAppend ==
    ASSUME NEW e \in Seq(Nat), NEW d \in Seq(Messages), NEW o \in Seq(Messages), NEW m \in Messages
    PROVE  Fed(e, d, Append(o, m)) = IF m.table # 0 THEN Append(Fed(e, d, o), m.table) ELSE Fed(e, d, o)
<1> DEFINE s == d \o o
<1>1. s \in Seq(Messages) /\ d \o Append(o, m) = Append(s, m) /\ m.table \in Nat
  BY ConcatProperties, ConcatAppend DEF Messages
<1> HIDE DEF s
<1>2. TablesOf(Append(s, m)) = IF m.table # 0 THEN Append(TablesOf(s), m.table) ELSE TablesOf(s)
  BY <1>1, TablesAppend
<1>3. TablesOf(s) \in Seq(Nat)
  BY <1>1, TablesType
<1>4. e \o Append(TablesOf(s), m.table) = Append(e \o TablesOf(s), m.table)
  BY <1>1, <1>3, NumberAppended
<1> QED  BY <1>1, <1>2, <1>4 DEF Fed, s

\* The first of a queue of messages, and what follows.
LEMMA TablesHead ==
    ASSUME NEW q \in Seq(Messages), q # <<>>
    PROVE  /\ Head(q) \in Messages /\ Tail(q) \in Seq(Messages) /\ q = <<Head(q)>> \o Tail(q)
           /\ TablesOf(q) = TablesOf(<<Head(q)>>) \o TablesOf(Tail(q))
           /\ TablesOf(<<Head(q)>>) = IF Head(q).table # 0 THEN <<Head(q).table>> ELSE <<>>
           /\ TablesOf(<<Head(q)>>) \in Seq(Nat) /\ <<Head(q)>> \in Seq(Messages)
<1>1. q = <<Head(q)>> \o Tail(q) /\ Head(q) \in Messages /\ Tail(q) \in Seq(Messages)
  BY HeadFirst
<1>2. <<Head(q)>> \in Seq(Messages)
  BY <1>1
<1>3. TablesOf(<<Head(q)>> \o Tail(q)) = TablesOf(<<Head(q)>>) \o TablesOf(Tail(q))
  BY <1>1, <1>2, TablesConcat
<1>4. TablesOf(<<Head(q)>>) = IF Head(q).table # 0 THEN <<Head(q).table>> ELSE <<>>
  <2>1. <<>> \in Seq(Messages) /\ <<Head(q)>> = Append(<<>>, Head(q))
    OBVIOUS
  <2>2. TablesOf(Append(<<>>, Head(q))) = IF Head(q).table # 0 THEN Append(TablesOf(<<>>), Head(q).table) ELSE TablesOf(<<>>)
    BY <1>1, <2>1, TablesAppend
  <2>3. Append(<<>>, Head(q).table) = <<Head(q).table>>
    OBVIOUS
  <2> QED  BY <2>1, <2>2, <2>3, TablesEmpty
<1>5. TablesOf(<<Head(q)>>) \in Seq(Nat)
  BY <1>2, TablesType
<1> QED  BY <1>1, <1>2, <1>3, <1>4, <1>5

\* The writer moves a message on without moving it in the feed.
LEMMA FedWritten ==
    ASSUME NEW e \in Seq(Nat), NEW d \in Seq(Messages), NEW o \in Seq(Messages), o # <<>>
    PROVE  Fed(e, Append(d, Head(o)), Tail(o)) = Fed(e, d, o)
<1>1. /\ Head(o) \in Messages /\ Tail(o) \in Seq(Messages) /\ o = <<Head(o)>> \o Tail(o)
      /\ <<Head(o)>> \in Seq(Messages)
  BY TablesHead
<1>2. Append(d, Head(o)) = d \o <<Head(o)>>
  BY <1>1, AppendIsConcat
<1>3. (d \o <<Head(o)>>) \o Tail(o) = d \o (<<Head(o)>> \o Tail(o))
  BY <1>1, ConcatAssociative
<1> QED  BY <1>1, <1>2, <1>3 DEF Fed

\* An answer without a table goes past the outbox unseen.
LEMMA FedPast ==
    ASSUME NEW e \in Seq(Nat), NEW d \in Seq(Messages), NEW o \in Seq(Messages), NEW m \in Messages, m.table = 0
    PROVE  Fed(e, Append(d, m), o) = Fed(e, d, o)
<1>1. Append(d, m) \in Seq(Messages) /\ TablesOf(Append(d, m)) = TablesOf(d)
  BY TablesAppend, AppendProperties
<1>2. Fed(e, d, o) = e \o (TablesOf(d) \o TablesOf(o))
  BY FedParts
<1> DEFINE s == Append(d, m)
<1> HIDE DEF s
<1>3. Fed(e, s, o) = e \o (TablesOf(s) \o TablesOf(o))
  BY <1>1, FedParts DEF s
<1> QED  BY <1>1, <1>2, <1>3 DEF s

\* The client's reader hands a broadcast on to the events channel.
LEMMA FedHanded ==
    ASSUME NEW e \in Seq(Nat), NEW d \in Seq(Messages), NEW o \in Seq(Messages), d # <<>>, Head(d).table # 0
    PROVE  Fed(Append(e, Head(d).table), Tail(d), o) = Fed(e, d, o)
<1> DEFINE t == Head(d).table
<1>1. /\ Tail(d) \in Seq(Messages) /\ Head(d) \in Messages
      /\ TablesOf(d) = <<t>> \o TablesOf(Tail(d))
  BY TablesHead
<1>2. t \in Nat /\ <<t>> \in Seq(Nat) /\ Append(e, t) \in Seq(Nat)
  BY <1>1, AppendProperties DEF Messages
<1> HIDE DEF t
<1>3. Append(e, t) = e \o <<t>>
  BY <1>2, AppendIsConcat
<1>4. Fed(Append(e, t), Tail(d), o) = (Append(e, t) \o TablesOf(Tail(d))) \o TablesOf(o)
  BY <1>1, <1>2, FedParts
<1>5. (e \o <<t>>) \o TablesOf(Tail(d)) = e \o (<<t>> \o TablesOf(Tail(d)))
  BY <1>1, <1>2, TablesType, NatAssociative
<1>6. Fed(e, d, o) = (e \o TablesOf(d)) \o TablesOf(o)
  BY FedParts
<1> QED  BY <1>1, <1>3, <1>4, <1>5, <1>6 DEF t

\* What a feed may lose: the first of its events, of the socket or of the outbox,
\* all of the outbox, or all that reached the client.
LEMMA FedLoses ==
    ASSUME NEW e \in Seq(Nat), NEW d \in Seq(Messages), NEW o \in Seq(Messages)
    PROVE  /\ e # <<>> => Loses(Fed(e, d, o), Fed(Tail(e), d, o))
           /\ d # <<>> => Loses(Fed(e, d, o), Fed(e, Tail(d), o))
           /\ o # <<>> => Loses(Fed(e, d, o), Fed(e, d, Tail(o)))
           /\ Loses(Fed(e, d, o), Fed(e, d, <<>>))
           /\ Loses(Fed(e, d, o), Fed(<<>>, <<>>, o))
<1>1. /\ Fed(e, d, o) = e \o (TablesOf(d) \o TablesOf(o))
      /\ Fed(e, d, o) = (e \o TablesOf(d)) \o TablesOf(o)
      /\ e \o TablesOf(d) \in Seq(Nat) /\ TablesOf(d) \in Seq(Nat) /\ TablesOf(o) \in Seq(Nat)
  BY FedParts
<1>2. TablesOf(d) \o TablesOf(o) \in Seq(Nat)
  BY <1>1, ConcatProperties
<1>3. ASSUME e # <<>>
      PROVE  Loses(Fed(e, d, o), Fed(Tail(e), d, o))
  <2>1. e = <<Head(e)>> \o Tail(e) /\ Head(e) \in Nat /\ Tail(e) \in Seq(Nat)
    BY <1>3, HeadFirst
  <2>2. Fed(Tail(e), d, o) = Tail(e) \o (TablesOf(d) \o TablesOf(o)) /\ Fed(Tail(e), d, o) \in Seq(Nat)
    BY <2>1, FedParts
  <2>3. <<Head(e)>> \in Seq(Nat)
    BY <2>1
  <2>4. (<<Head(e)>> \o Tail(e)) \o (TablesOf(d) \o TablesOf(o)) = <<Head(e)>> \o (Tail(e) \o (TablesOf(d) \o TablesOf(o)))
    BY <1>2, <2>1, <2>3, NatAssociative
  <2>5. Fed(e, d, o) = <<Head(e)>> \o Fed(Tail(e), d, o)
    BY <1>1, <2>1, <2>2, <2>4
  <2> QED  BY <2>2, <2>3, <2>5, LosesStart
<1>4. ASSUME d # <<>>
      PROVE  Loses(Fed(e, d, o), Fed(e, Tail(d), o))
  <2> DEFINE t == TablesOf(<<Head(d)>>)
             r == TablesOf(Tail(d))
             z == r \o TablesOf(o)
  <2>1. Tail(d) \in Seq(Messages) /\ TablesOf(d) = t \o r /\ t \in Seq(Nat)
    BY <1>4, TablesHead
  <2>2. Fed(e, Tail(d), o) = e \o z /\ r \in Seq(Nat)
    BY <2>1, FedParts
  <2> HIDE DEF t, r
  <2>3. z \in Seq(Nat)
    BY <1>1, <2>2, ConcatProperties
  <2>4. (t \o r) \o TablesOf(o) = t \o z
    BY <1>1, <2>1, <2>2, NatAssociative
  <2> HIDE DEF z
  <2>5. e \o (t \o z) = (e \o t) \o z
    BY <2>1, <2>3, NatAssociative
  <2>6. Fed(e, d, o) = (e \o t) \o z
    BY <1>1, <2>1, <2>4, <2>5
  <2> QED  BY <2>1, <2>2, <2>3, <2>6 DEF Loses
<1>5. ASSUME o # <<>>
      PROVE  Loses(Fed(e, d, o), Fed(e, d, Tail(o)))
  <2> DEFINE a == e \o TablesOf(d)
             t == TablesOf(<<Head(o)>>)
             r == TablesOf(Tail(o))
  <2>1. Tail(o) \in Seq(Messages) /\ TablesOf(o) = t \o r /\ t \in Seq(Nat)
    BY <1>5, TablesHead
  <2>2. Fed(e, d, Tail(o)) = a \o r /\ r \in Seq(Nat) /\ a \in Seq(Nat)
    BY <2>1, FedParts
  <2>3. Fed(e, d, o) = a \o (t \o r)
    BY <1>1, <2>1
  <2> HIDE DEF a, t, r
  <2>4. a \o (t \o r) = (a \o t) \o r
    BY <2>1, <2>2, NatAssociative
  <2> QED  BY <2>1, <2>2, <2>3, <2>4 DEF Loses
<1>6. Loses(Fed(e, d, o), Fed(e, d, <<>>))
  <2>1. <<>> \in Seq(Messages)
    OBVIOUS
  <2> DEFINE s == <<>>
  <2>2. Fed(e, d, s) = (e \o TablesOf(d)) \o TablesOf(s)
    <3> HIDE DEF s
    <3> QED  BY <2>1, FedParts DEF s
  <2>3. Fed(e, d, <<>>) = e \o TablesOf(d)
    BY <1>1, <2>2, ConcatEmptySeq, TablesEmpty
  <2> QED  BY <1>1, <2>3, LosesEnd
<1>7. Loses(Fed(e, d, o), Fed(<<>>, <<>>, o))
  <2>1. <<>> \in Seq(Messages) /\ <<>> \in Seq(Nat)
    OBVIOUS
  <2> DEFINE s == <<>>
  <2>2. Fed(s, s, o) = s \o (TablesOf(s) \o TablesOf(o))
    <3>1. s \in Seq(Nat) /\ s \in Seq(Messages)
      OBVIOUS
    <3> HIDE DEF s
    <3> QED  BY <3>1, FedParts
  <2>3. Fed(<<>>, <<>>, o) = TablesOf(o)
    BY <1>1, <2>2, ConcatEmptySeq, TablesEmpty
  <2> QED  BY <1>1, <2>3, LosesStart
<1> QED  BY <1>3, <1>4, <1>5, <1>6, <1>7

\* What is left is what was there with some of it left out.
LEMMA LosesThins == ASSUME NEW q, NEW r, Loses(q, r) PROVE Feeds!Thinned(q, r)
<1>1. PICK a \in Seq(Nat), b \in Seq(Nat), z \in Seq(Nat) : q = (a \o b) \o z /\ r = a \o z
  BY DEF Loses
<1> DEFINE at == [i \in DOMAIN r |-> IF i <= Len(a) THEN i ELSE i + Len(b)]
<1>2. a \o b \in Seq(Nat)
  BY ConcatProperties
<1>3. /\ q \in Seq(Nat) /\ r \in Seq(Nat) /\ Len(a \o b) = Len(a) + Len(b)
      /\ \A i \in 1 .. Len(a) + Len(b) : (a \o b)[i] = IF i <= Len(a) THEN a[i] ELSE b[i - Len(a)]
      /\ Len(q) = Len(a \o b) + Len(z) /\ Len(r) = Len(a) + Len(z)
      /\ \A i \in 1 .. Len(a) + Len(z) : r[i] = IF i <= Len(a) THEN a[i] ELSE z[i - Len(a)]
      /\ \A i \in 1 .. Len(a \o b) + Len(z) : q[i] = IF i <= Len(a \o b) THEN (a \o b)[i] ELSE z[i - Len(a \o b)]
  <2>1. /\ a \o b \in Seq(Nat) /\ Len(a \o b) = Len(a) + Len(b)
        /\ \A i \in 1 .. Len(a) + Len(b) : (a \o b)[i] = IF i <= Len(a) THEN a[i] ELSE b[i - Len(a)]
    BY ConcatProperties
  <2>2. /\ r \in Seq(Nat) /\ Len(r) = Len(a) + Len(z)
        /\ \A i \in 1 .. Len(a) + Len(z) : r[i] = IF i <= Len(a) THEN a[i] ELSE z[i - Len(a)]
    BY <1>1, ConcatProperties
  <2> DEFINE s == a \o b
  <2> HIDE DEF s
  <2>3. /\ q = s \o z => q \in Seq(Nat) /\ Len(q) = Len(s) + Len(z)
           /\ \A i \in 1 .. Len(s) + Len(z) : q[i] = IF i <= Len(s) THEN s[i] ELSE z[i - Len(s)]
    <3>1. s \in Seq(Nat)
      BY <1>2 DEF s
    <3> QED  BY <3>1, ConcatProperties
  <2> QED  BY <1>1, <2>1, <2>2, <2>3 DEF s
<1> DEFINE k == Len(a)
           l == Len(b)
           n == Len(z)
<1>4. /\ k \in Nat /\ l \in Nat /\ n \in Nat
      /\ DOMAIN q = 1 .. (k + l) + n /\ DOMAIN r = 1 .. k + n /\ Len(a \o b) = k + l
  <2>1. k \in Nat /\ l \in Nat /\ n \in Nat
    BY LenProperties
  <2>2. DOMAIN q = 1 .. Len(q) /\ DOMAIN r = 1 .. Len(r)
    BY <1>3, LenProperties
  <2> QED  BY <1>3, <2>1, <2>2
<1>5. at \in [DOMAIN r -> DOMAIN q]
  <2> SUFFICES ASSUME NEW i \in DOMAIN r
               PROVE  (IF i <= Len(a) THEN i ELSE i + Len(b)) \in DOMAIN q
    OBVIOUS
  <2>1. i \in 1 .. k + n
    BY <1>4
  <2>2. (IF i <= k THEN i ELSE i + l) \in 1 .. (k + l) + n
    <3> HIDE DEF k, l, n
    <3> QED  BY <1>4, <2>1
  <2> QED  BY <1>4, <2>2
<1>6. ASSUME NEW i \in DOMAIN r, NEW j \in DOMAIN r, i < j
      PROVE  at[i] < at[j]
  <2>1. at[i] = (IF i <= k THEN i ELSE i + l) /\ at[j] = (IF j <= k THEN j ELSE j + l)
    OBVIOUS
  <2>2. i \in 1 .. k + n /\ j \in 1 .. k + n
    BY <1>4
  <2> HIDE DEF at, k, l, n
  <2> QED  BY <1>4, <1>6, <2>1, <2>2
<1>7. ASSUME NEW i \in DOMAIN r
      PROVE  r[i] = q[at[i]]
  <2>1. at[i] = IF i <= k THEN i ELSE i + l
    OBVIOUS
  <2>2. i \in 1 .. k + n
    BY <1>4
  <2>3. CASE i <= k
    <3>1. i \in 1 .. k + l /\ i <= k + l /\ i \in 1 .. (k + l) + n
      <4> HIDE DEF k, l, n
      <4> QED  BY <1>4, <2>2, <2>3
    <3>2. r[i] = a[i] /\ q[i] = (a \o b)[i] /\ (a \o b)[i] = a[i]
      BY <1>3, <1>4, <2>2, <2>3, <3>1
    <3> HIDE DEF at
    <3> QED  BY <2>1, <2>3, <3>2
  <2>4. CASE ~ (i <= k)
    <3>1. i + l \in 1 .. (k + l) + n /\ ~ (i + l <= k + l) /\ (i + l) - (k + l) = i - k
      <4> HIDE DEF k, l, n
      <4> QED  BY <1>4, <2>2, <2>4
    <3>2. r[i] = z[i - k] /\ q[i + l] = z[(i + l) - (k + l)]
      BY <1>3, <1>4, <2>2, <2>4, <3>1
    <3> HIDE DEF at
    <3> QED  BY <2>1, <2>4, <3>1, <3>2
  <2> QED  BY <2>3, <2>4
<1> HIDE DEF at
<1> QED  BY <1>5, <1>6, <1>7 DEF Feeds!Thinned

-----------------------------------------------------------------------------
(* Steps *)

LEMMA TablesTypes ==
    ASSUME TypeOK, NEW c \in Conns
    PROVE  /\ client[c].events \in Seq(Nat) /\ conn[c].down \in Seq(Messages) /\ conn[c].outbox \in Seq(Messages)
           /\ conn[c] \in Connections /\ client[c] \in Clients
           /\ Tables(c) = Fed(client[c].events, conn[c].down, conn[c].outbox) /\ Tables(c) \in Seq(Nat)
<1>1. conn[c] \in Connections /\ client[c] \in Clients
  BY DEF TypeOK
<1>2. client[c].events \in Seq(Nat) /\ conn[c].down \in Seq(Messages) /\ conn[c].outbox \in Seq(Messages)
  BY <1>1 DEF Connections, Clients
<1>3. Tables(c) = Fed(client[c].events, conn[c].down, conn[c].outbox)
  BY DEF Tables, Fed
<1> QED  BY <1>1, <1>2, <1>3, FedParts

LEMMA TablesTypes_ ==
    ASSUME TypeOK', NEW c \in Conns
    PROVE  Tables(c)' \in Seq(Nat)
<1>1. client'[c].events \in Seq(Nat) /\ conn'[c].down \in Seq(Messages) /\ conn'[c].outbox \in Seq(Messages)
  BY DEF TypeOK, Connections, Clients
<1>2. Tables(c)' = Fed(client'[c].events, conn'[c].down, conn'[c].outbox)
  BY DEF Tables, Fed
<1> QED  BY <1>1, <1>2, FedParts

LEMMA TablesNext == ASSUME NEW c PROVE Tables(c)' = Fed(client'[c].events, conn'[c].down, conn'[c].outbox)
  BY DEF Tables, Fed

\* What a step of the loop may do to a feed, and what every other step may.
Posts(c) == Tables(c)' \in {Tables(c), Append(Tables(c), server'.version)}
Thins(c) == Loses(Tables(c), Tables(c)')

LEMMA Unthinned ==
    ASSUME TypeOK, NEW c \in Conns, Tables(c)' = Tables(c)
    PROVE  Thins(c)
  BY TablesTypes, LosesNothing DEF Thins

\* A message into the outbox.
LEMMA DeliveredFed ==
    ASSUME NEW e \in Seq(Nat), NEW cn \in Connections, NEW c, NEW f \in Effects
    PROVE  LET d == Delivered(cn, c, f)
               t == Fed(e, cn.down, cn.outbox)
           IN  /\ d \in Connections
               /\ f.msg.table = 0 => Fed(e, d.down, d.outbox) = t
               /\ f.msg.table # 0 => Fed(e, d.down, d.outbox) \in {t, Append(t, f.msg.table)}
<1> DEFINE d == Delivered(cn, c, f)
           t == Fed(e, cn.down, cn.outbox)
<1>1. d \in Connections /\ d.outbox \in {cn.outbox, Append(cn.outbox, f.msg)} /\ d.down = cn.down
  BY DeliveredFacts
<1>2. cn.down \in Seq(Messages) /\ cn.outbox \in Seq(Messages) /\ f.msg \in Messages
  BY DEF Connections, Effects
<1>3. Fed(e, cn.down, Append(cn.outbox, f.msg)) = IF f.msg.table # 0 THEN Append(t, f.msg.table) ELSE t
  BY <1>2, FedAppend
<1> HIDE DEF d, t
<1>4. /\ f.msg.table = 0 => Fed(e, d.down, d.outbox) = t
      /\ f.msg.table # 0 => Fed(e, d.down, d.outbox) \in {t, Append(t, f.msg.table)}
  <2>1. CASE d.outbox = cn.outbox
    BY <1>1, <2>1 DEF t
  <2>2. CASE d.outbox = Append(cn.outbox, f.msg)
    BY <1>1, <1>3, <2>2
  <2> QED  BY <1>1, <2>1, <2>2
<1> QED  BY <1>1, <1>4 DEF d, t

\* An answer and a broadcast, in either order.
LEMMA BothPost ==
    ASSUME TypeOK, NEW f \in Effects, NEW g \in Effects, ExecuteBoth(f, g), client' = client, NEW c \in Conns,
           \/ f.msg.table = 0 /\ g.msg.table = server'.version
           \/ g.msg.table = 0 /\ f.msg.table = server'.version,
           server'.version # 0
    PROVE  Posts(c)
<1> DEFINE cn == Delivered(conn[c], c, f)
           ev == client[c].events
<1>1. conn'[c] = Delivered(cn, c, g) /\ cn \in Connections
  BY ExecuteBothFacts
<1>2. ev \in Seq(Nat) /\ conn[c] \in Connections /\ Tables(c) = Fed(ev, conn[c].down, conn[c].outbox)
  BY TablesTypes
<1>3. Tables(c)' = Fed(ev, conn'[c].down, conn'[c].outbox)
  BY TablesNext
<1>4. /\ f.msg.table = 0 => Fed(ev, cn.down, cn.outbox) = Tables(c)
      /\ f.msg.table # 0 => Fed(ev, cn.down, cn.outbox) \in {Tables(c), Append(Tables(c), f.msg.table)}
  BY <1>2, DeliveredFed
<1> HIDE DEF cn, ev
<1>5. /\ g.msg.table = 0 => Tables(c)' = Fed(ev, cn.down, cn.outbox)
      /\ g.msg.table # 0 => Tables(c)' \in {Fed(ev, cn.down, cn.outbox), Append(Fed(ev, cn.down, cn.outbox), g.msg.table)}
  BY <1>1, <1>2, <1>3, DeliveredFed
<1> QED  BY <1>4, <1>5 DEF Posts

LEMMA OnePosts ==
    ASSUME TypeOK, NEW f \in Effects, Execute(f), client' = client, NEW c \in Conns,
           f.msg.table \in {0, server'.version}
    PROVE  Posts(c)
<1> DEFINE ev == client[c].events
<1>1. conn'[c] = Delivered(conn[c], c, f)
  BY ExecuteFacts
<1>2. ev \in Seq(Nat) /\ conn[c] \in Connections /\ Tables(c) = Fed(ev, conn[c].down, conn[c].outbox)
  BY TablesTypes
<1>3. Tables(c)' = Fed(ev, conn'[c].down, conn'[c].outbox)
  BY TablesNext
<1> HIDE DEF ev
<1>4. /\ f.msg.table = 0 => Tables(c)' = Tables(c)
      /\ f.msg.table # 0 => Tables(c)' \in {Tables(c), Append(Tables(c), f.msg.table)}
  BY <1>1, <1>2, <1>3, DeliveredFed
<1> QED  BY <1>4 DEF Posts

\* The versions the model counts to.
Bounded == server.version <= MaxVersion

LEMMA LoopPosts ==
    ASSUME TypeOK, Bounded, Answering \/ Change
    PROVE  /\ server'.version \in {server.version, server.version + 1} /\ Bounded'
           /\ \A c \in Conns : Posts(c)
<1>1. server.version \in Nat \ {0} /\ MaxVersion \in Nat \ {0} /\ client' = client
  BY AnsweringFacts, ChangeCounts, TypeParts, WireAssumption
<1> DEFINE r == Head(commands)
<1>2. \A id, t : Message(id, t).table = t
  BY DEF Message
<1>3. CASE Subscribe
  <2> DEFINE b == BroadcastSessionsChanged(server.subscribers \cup {r.c}, server.version)
             a == Reply(r.c, r.id, 0)
  <2>1. a \in Effects /\ b \in Effects /\ ExecuteBoth(a, b) /\ server'.version = server.version
    BY <1>3, SubscribeFacts DEF TypeOK
  <2>2. a.msg.table = 0 /\ b.msg.table = server.version
    BY <1>2 DEF Reply, BroadcastSessionsChanged, To
  <2> HIDE DEF a, b
  <2> QED  BY <1>1, <2>1, <2>2, BothPost DEF Bounded
<1>4. CASE DriverHook
  <2> DEFINE b == BroadcastSessionsChanged(server.subscribers, server'.version)
             a == Reply(r.c, r.id, 0)
             v == IF server.version < MaxVersion THEN server.version + 1 ELSE MaxVersion
  <2>1. a \in Effects /\ b \in Effects /\ ExecuteBoth(b, a) /\ server'.version \in Nat \ {0}
    BY <1>4, DriverHookFacts
  <2>2. a.msg.table = 0 /\ b.msg.table = server'.version
    BY <1>2 DEF Reply, BroadcastSessionsChanged, To
  <2>3. server'.version = v
    BY <1>4 DEF DriverHook, TypeOK
  <2>4. server'.version \in {server.version, server.version + 1} /\ server'.version <= MaxVersion
    BY <1>1, <2>3 DEF Bounded
  <2> HIDE DEF a, b, v
  <2> QED  BY <1>1, <2>1, <2>2, <2>4, BothPost DEF Bounded
<1>5. CASE Unsubscribe
  <2> DEFINE a == Reply(r.c, r.id, 0)
  <2>1. r.c \in Conns /\ r.id \in Nat \ {0} /\ Execute(a) /\ server'.version = server.version
    BY <1>5, TakeFacts DEF Unsubscribe, TypeOK
  <2>2. a \in Effects /\ a.msg.table = 0
    BY <1>2, <2>1, ReplyType
  <2> HIDE DEF a
  <2> QED  BY <1>1, <2>1, <2>2, OnePosts DEF Bounded
<1>6. CASE ListSessions
  <2> DEFINE a == Reply(r.c, r.id, server.version)
  <2>1. r.c \in Conns /\ r.id \in Nat \ {0} /\ Execute(a) /\ server' = server
    BY <1>6, TakeFacts DEF ListSessions
  <2>2. a \in Effects /\ a.msg.table = server.version
    BY <1>1, <1>2, <2>1, ReplyType
  <2> HIDE DEF a
  <2> QED  BY <1>1, <2>1, <2>2, OnePosts DEF Bounded
<1>7. CASE Change
  <2> DEFINE b == BroadcastSessionsChanged(server.subscribers, server.version + 1)
  <2>1. b \in Effects /\ Execute(b) /\ server'.version = server.version + 1
    BY <1>7, ChangeFacts DEF TypeOK
  <2>2. b.msg.table = server.version + 1
    BY <1>2 DEF BroadcastSessionsChanged, To
  <2>3. server.version < MaxVersion
    BY <1>7 DEF Change
  <2> HIDE DEF b
  <2> QED  BY <1>1, <2>1, <2>2, <2>3, OnePosts DEF Bounded
<1> QED  BY <1>3, <1>4, <1>5, <1>6, <1>7 DEF Answering

\* A step that leaves the queues of a connection alone.
LEMMA ThinsSame ==
    ASSUME TypeOK, NEW c \in Conns, client'[c].events = client[c].events,
           conn'[c].outbox = conn[c].outbox, conn'[c].down = conn[c].down
    PROVE  Thins(c)
  BY TablesTypes, TablesNext, Unthinned

LEMMA ThinsShut ==
    ASSUME TypeOK, NEW c \in Conns, client' = client, conn'[c] = Shut(conn[c])
    PROVE  Thins(c)
<1>1. conn'[c].down = conn[c].down /\ conn'[c].outbox = <<>>
  BY TablesTypes, ShutFacts
<1>2. Tables(c)' = Fed(client[c].events, conn[c].down, <<>>)
  BY <1>1, TablesNext
<1> QED  BY <1>2, TablesTypes, FedLoses DEF Thins

LEMMA ThinsWrite ==
    ASSUME TypeOK, NEW c \in Conns, Write(c)
    PROVE  Thins(c)
<1> DEFINE e == client[c].events
           d == conn[c].down
           o == conn[c].outbox
<1>1. /\ o # <<>> /\ conn'[c].outbox = Tail(o) /\ client' = client
      /\ conn'[c].down = Append(d, Head(o)) \/ conn'[c].down = d
  BY WriteFacts DEF Write
<1>2. /\ e \in Seq(Nat) /\ d \in Seq(Messages) /\ o \in Seq(Messages) /\ Tables(c) = Fed(e, d, o)
      /\ Tables(c)' = Fed(e, conn'[c].down, conn'[c].outbox)
  BY <1>1, TablesTypes, TablesNext
<1> HIDE DEF e, d, o
<1>3. CASE conn'[c].down = Append(d, Head(o))
  BY <1>1, <1>2, <1>3, FedWritten, Unthinned
<1>4. CASE conn'[c].down = d
  BY <1>1, <1>2, <1>4, FedLoses DEF Thins
<1> QED  BY <1>1, <1>3, <1>4

LEMMA ThinsRead ==
    ASSUME TypeOK, NEW c \in Conns, Read(c)
    PROVE  Thins(c)
<1> DEFINE m == Message(Head(conn[c].up).id, 0)
           o == conn[c].outbox
           d == conn[c].down
           e == client[c].events
<1>1. /\ client' = client /\ conn'[c].down = d /\ conn'[c].outbox \in {o, Append(o, m)}
      /\ Head(conn[c].up) \in Frames
  BY ReadFacts DEF Read
<1>2. m \in Messages /\ m.table = 0
  BY <1>1 DEF Message, Messages, Frames
<1>3. /\ e \in Seq(Nat) /\ d \in Seq(Messages) /\ o \in Seq(Messages) /\ Tables(c) = Fed(e, d, o)
      /\ Tables(c)' = Fed(e, d, conn'[c].outbox)
  BY <1>1, TablesTypes, TablesNext
<1> HIDE DEF m, o, d, e
<1>4. Fed(e, d, Append(o, m)) = Fed(e, d, o)
  BY <1>2, <1>3, FedAppend
<1> QED  BY <1>1, <1>3, <1>4, Unthinned

LEMMA ThinsSync ==
    ASSUME TypeOK, SendResponseSync, NEW c \in Conns
    PROVE  Thins(c)
<1> DEFINE r == server.busy
           m == Message(r.id, 0)
           d == conn[c].down
           e == client[c].events
           o == conn[c].outbox
<1>1. /\ client' = client /\ r.id \in Nat \ {0} /\ conn'[c].outbox = o
      /\ conn'[c].down \in {d, Append(d, m)}
  BY SyncFacts DEF SendResponseSync, Others
<1>2. m \in Messages /\ m.table = 0
  BY <1>1 DEF Message, Messages
<1>3. /\ e \in Seq(Nat) /\ d \in Seq(Messages) /\ o \in Seq(Messages) /\ Tables(c) = Fed(e, d, o)
      /\ Tables(c)' = Fed(e, conn'[c].down, o)
  BY <1>1, TablesTypes, TablesNext
<1> HIDE DEF m, o, d, e, r
<1>4. Fed(e, Append(d, m), o) = Fed(e, d, o)
  BY <1>2, <1>3, FedPast
<1> QED  BY <1>1, <1>3, <1>4, Unthinned

LEMMA ReceiveEvents ==
    ASSUME TypeOK, NEW c \in Conns, Receive(c)
    PROVE  LET msg == Head(conn[c].down)
           IN  /\ \A d \in Conns \ {c} : client'[d] = client[d]
               /\ \/ client'[c].events = client[c].events
                  \/ msg.id = 0 /\ client'[c].events = Append(client[c].events, msg.table)
<1> DEFINE msg == Head(conn[c].down)
<1>1. client[c] \in Clients
  BY DEF TypeOK
<1>2. CASE msg.id = 0 /\ DispatchEvent(c, msg)
  <2> DEFINE cl == [client[c] EXCEPT !.events = Append(client[c].events, msg.table)]
  <2>1. client' = client \/ client' = [client EXCEPT ![c] = cl]
    BY <1>1, <1>2 DEF DispatchEvent, TypeOK, Clients
  <2>2. cl.events = Append(client[c].events, msg.table)
    <3> HIDE DEF msg
    <3> QED  BY <1>1 DEF Clients
  <2> HIDE DEF cl, msg
  <2>3. client' = [client EXCEPT ![c] = cl] => client'[c] = cl /\ \A d \in Conns \ {c} : client'[d] = client[d]
    BY DEF TypeOK
  <2> QED  BY <1>2, <2>1, <2>2, <2>3 DEF msg
<1>3. CASE msg.id # 0 /\ DispatchResponse(c, msg)
  <2> DEFINE cl == [client[c] EXCEPT !.outcome = [client[c].outcome EXCEPT ![msg.id] = "answered"]]
  <2>1. client' = client \/ client' = [client EXCEPT ![c] = cl]
    BY <1>3 DEF DispatchResponse, TypeOK
  <2>2. cl.events = client[c].events
    <3> HIDE DEF msg
    <3> QED  BY <1>1 DEF Clients
  <2> HIDE DEF cl, msg
  <2>3. client' = [client EXCEPT ![c] = cl] => client'[c] = cl /\ \A d \in Conns \ {c} : client'[d] = client[d]
    BY DEF TypeOK
  <2> QED  BY <2>1, <2>2, <2>3
<1> QED  BY <1>2, <1>3 DEF Receive

LEMMA ThinsReceive ==
    ASSUME TypeOK, NEW c \in Conns, Receive(c)
    PROVE  Thins(c)
<1> DEFINE e == client[c].events
           d == conn[c].down
           o == conn[c].outbox
<1>1. d # <<>> /\ Head(d) \in Messages /\ conn'[c].down = Tail(d) /\ conn'[c].outbox = o
  BY ReceiveFacts
<1>2. client'[c].events = e \/ (Head(d).id = 0 /\ client'[c].events = Append(e, Head(d).table))
  BY ReceiveEvents
<1>3. /\ e \in Seq(Nat) /\ d \in Seq(Messages) /\ o \in Seq(Messages) /\ Tables(c) = Fed(e, d, o)
      /\ Tables(c)' = Fed(client'[c].events, Tail(d), o)
  BY <1>1, TablesTypes, TablesNext
<1> HIDE DEF e, d, o
<1>4. CASE client'[c].events = e
  BY <1>1, <1>3, <1>4, FedLoses DEF Thins
<1>5. CASE Head(d).id = 0 /\ client'[c].events = Append(e, Head(d).table)
  <2>1. Head(d).table # 0
    BY <1>1, <1>5 DEF Messages
  <2> QED  BY <1>1, <1>3, <1>5, <2>1, FedHanded, Unthinned
<1> QED  BY <1>2, <1>4, <1>5

LEMMA ThinsClose ==
    ASSUME TypeOK, NEW c \in Conns, Close(c)
    PROVE  Thins(c)
<1>1. conn'[c].down = <<>> /\ conn'[c].outbox = conn[c].outbox /\ client'[c].events = <<>>
  BY CloseFacts
<1>2. Tables(c)' = Fed(<<>>, <<>>, conn[c].outbox)
  BY <1>1, TablesNext
<1> QED  BY <1>2, TablesTypes, FedLoses DEF Thins

LEMMA ThinsListen ==
    ASSUME TypeOK, NEW c \in Conns, Listen(c)
    PROVE  Thins(c)
<1> DEFINE cl == [client[c] EXCEPT !.events = Tail(client[c].events)]
<1>1. client[c].events # <<>> /\ conn' = conn /\ client' = [client EXCEPT ![c] = cl]
  BY DEF Listen, TypeOK
<1>2. cl.events = Tail(client[c].events)
  BY TablesTypes DEF Clients
<1>3. client'[c] = cl
  <2> HIDE DEF cl
  <2> QED  BY <1>1 DEF TypeOK
<1>4. Tables(c)' = Fed(Tail(client[c].events), conn[c].down, conn[c].outbox)
  <2> HIDE DEF cl
  <2> QED  BY <1>1, <1>2, <1>3, TablesNext
<1> QED  BY <1>1, <1>4, TablesTypes, FedLoses DEF Thins

\* Every step that is not the loop's own only takes from the feeds.
LEMMA OthersThin ==
    ASSUME TypeOK, [Next]_vars, ~ Answering, ~ Change, NEW c \in Conns
    PROVE  Thins(c) /\ server'.version = server.version
<1>1. CASE HandleConnOpen
  <2>1. client' = client /\ server' = server
    BY <1>1 DEF HandleConnOpen
  <2> QED  BY <1>1, <2>1, OpenFacts, ThinsSame DEF Others
<1>2. CASE HandleConnClose
  <2>1. client' = client /\ server'.version = server.version
    BY <1>2 DEF HandleConnClose, TypeOK
  <2>2. conn'[c] = conn[c] \/ conn'[c] = Shut(conn[c])
    BY <1>2, CloseConnFacts DEF Others
  <2> QED  BY <2>1, <2>2, ThinsSame, ThinsShut
<1>3. CASE Stop
  <2>1. client' = client /\ server'.version = server.version
    BY <1>3 DEF Stop, TypeOK
  <2>2. conn'[c] = conn[c] \/ conn'[c] = Shut(conn[c])
    BY <1>3 DEF Stop
  <2> QED  BY <2>1, <2>2, ThinsSame, ThinsShut
<1>4. CASE StartSyncResponse \/ UNCHANGED vars
  <2>1. client' = client /\ conn' = conn /\ server'.version = server.version
    BY <1>4 DEF StartSyncResponse, TypeOK, vars
  <2> QED  BY <2>1, ThinsSame
<1>5. CASE SendResponseSync
  <2>1. server'.version = server.version
    BY <1>5 DEF SendResponseSync, TypeOK
  <2> QED  BY <1>5, <2>1, ThinsSync
<1>6. ASSUME NEW d \in Conns, Connection(d)
      PROVE  Thins(c) /\ server'.version = server.version
  <2>1. client' = client /\ server' = server
    BY <1>6 DEF Connection, Accept, Read, ReadEnds, Write
  <2>2. CASE Accept(d) \/ ReadEnds(d)
    BY <2>1, <2>2, AcceptFacts, ReadEndsFacts, ThinsSame DEF Others
  <2>3. CASE Read(d)
    <3>1. c # d => conn'[c] = conn[c]
      BY <2>3, ReadFacts DEF Others
    <3> QED  BY <2>1, <2>3, <3>1, ThinsRead, ThinsSame
  <2>4. CASE Write(d)
    <3>1. c # d => conn'[c] = conn[c]
      BY <2>4, WriteFacts DEF Others
    <3> QED  BY <2>1, <2>4, <3>1, ThinsWrite, ThinsSame
  <2> QED  BY <1>6, <2>2, <2>3, <2>4 DEF Connection
<1>7. ASSUME NEW d \in Conns, Receive(d)
      PROVE  Thins(c) /\ server'.version = server.version
  <2>1. server' = server
    BY <1>7 DEF Receive
  <2>2. c # d => conn'[c] = conn[c] /\ client'[c] = client[c]
    BY <1>7, ReceiveFacts, ReceiveEvents DEF Others
  <2> QED  BY <1>7, <2>1, <2>2, ThinsReceive, ThinsSame
<1>8. ASSUME NEW d \in Conns, Listen(d)
      PROVE  Thins(c) /\ server'.version = server.version
  <2>1. server' = server /\ conn' = conn
    BY <1>8 DEF Listen
  <2>2. c # d => client'[c] = client[c]
    BY <1>8 DEF Listen, TypeOK
  <2> QED  BY <1>8, <2>1, <2>2, ThinsListen, ThinsSame
<1>9. ASSUME NEW d \in Conns, ReceiveEnds(d) \/ Timeout(d) \/ HandleServerEvent(d)
      PROVE  Thins(c) /\ server'.version = server.version
  <2>1. server' = server /\ conn' = conn
    BY <1>9 DEF ReceiveEnds, Timeout, HandleServerEvent
  <2>2. client'[c].events = client[c].events
    <3>1. CASE ReceiveEnds(d)
      BY <3>1 DEF ReceiveEnds, TypeOK, Clients
    <3>2. CASE Timeout(d)
      BY <3>2 DEF Timeout, TypeOK, Clients
    <3>3. CASE HandleServerEvent(d)
      BY <3>3 DEF HandleServerEvent
    <3> QED  BY <1>9, <3>1, <3>2, <3>3
  <2> QED  BY <2>1, <2>2, ThinsSame
<1>10. ASSUME NEW d \in Conns, Close(d) \/ Disconnect(d)
       PROVE  Thins(c) /\ server'.version = server.version
  <2>1. Close(d) /\ server' = server
    BY <1>10 DEF Close, Disconnect
  <2>2. c # d => conn'[c] = conn[c] /\ client'[c] = client[c]
    BY <2>1, CloseFacts DEF Others
  <2> QED  BY <2>1, <2>2, ThinsClose, ThinsSame
<1>11. ASSUME NEW d \in Conns, Bootstrap(d) \/ Start(d) \/ Call(d)
       PROVE  Thins(c) /\ server'.version = server.version
  <2>1. PICK kind \in Names, phase \in {"joining", "running"} : Send(d, kind, phase)
    BY <1>11, SentBy
  <2>2. /\ server' = server /\ client'[c].events = client[c].events
        /\ conn'[c].outbox = conn[c].outbox /\ conn'[c].down = conn[c].down
    BY <2>1, SentFacts DEF Others
  <2> QED  BY <2>2, ThinsSame
<1> QED  BY <1>1, <1>2, <1>3, <1>4, <1>5, <1>6, <1>7, <1>8, <1>9, <1>10, <1>11
         DEF Next, Loop, Program, Answering

\* Only the loop counts versions.
LEMMA BoundedStep == TypeOK /\ Bounded /\ [Next]_vars => Bounded'
<1> SUFFICES ASSUME TypeOK, Bounded, [Next]_vars
             PROVE  Bounded'
  OBVIOUS
<1>1. CASE Answering \/ Change
  BY <1>1, LoopPosts
<1>2. CASE ~ Answering /\ ~ Change /\ Conns # {}
  BY <1>2, OthersThin DEF Bounded
<1>3. CASE ~ Answering /\ ~ Change /\ Conns = {}
  <2>1. server'.version = server.version
    BY <1>3 DEF Next, Loop, Answering, HandleConnOpen, HandleConnClose, StartSyncResponse, SendResponseSync, Stop,
                vars, TypeOK
  <2> QED  BY <2>1 DEF Bounded
<1> QED  BY <1>1, <1>2, <1>3

\* The feeds as the board sees them.
Feed == [c \in Conns |-> Tables(c)]

LEMMA BoardInit == Init => Feeds!Init
<1> SUFFICES ASSUME Init
             PROVE  Feeds!Init
  OBVIOUS
<1>1. ASSUME NEW c \in Conns
      PROVE  Tables(c) = <<>>
  <2>1. client[c].events = <<>> /\ conn[c].down = <<>> /\ conn[c].outbox = <<>>
    BY DEF Init
  <2>2. Tables(c) = <<>> \o TablesOf(<<>> \o <<>>)
    BY <2>1 DEF Tables
  <2> QED  BY <2>2, TablesEmpty
<1>2. server.version \in Nat
  BY DEF Init
<1> QED  BY <1>1, <1>2 DEF Feeds!Init

\* Every step of the socket and its clients is a step of the board: a command or
\* a change posts, everything else only takes.
LEMMA BoardStep ==
    ASSUME TypeOK, TypeOK', Bounded, [Next]_vars
    PROVE  [Feeds!Next]_<<server.version, Feed>>
<1>1. Feed' = [c \in Conns |-> Tables(c)'] /\ Feed' \in [Conns -> Seq(Nat)]
  BY TablesTypes_ DEF Feed
<1>2. CASE Answering \/ Change
  <2>1. server'.version \in {server.version, server.version + 1}
    BY <1>2, LoopPosts
  <2>2. ASSUME NEW c \in Conns
        PROVE  Feed'[c] \in {Feed[c], Append(Feed[c], server'.version)}
    <3>1. Posts(c)
      BY <1>2, LoopPosts
    <3> QED  BY <1>1, <3>1 DEF Posts, Feed
  <2>3. Feeds!Post
    BY <2>1, <2>2 DEF Feeds!Post, Feed
  <2> QED  BY <1>1, <2>3 DEF Feeds!Next, Feed
<1>3. CASE ~ Answering /\ ~ Change /\ Conns # {}
  <2>1. server'.version = server.version
    BY <1>3, OthersThin
  <2>2. ASSUME NEW c \in Conns
        PROVE  Feeds!Thinned(Feed[c], Feed'[c])
    <3>1. Thins(c)
      BY <1>3, OthersThin
    <3>2. Feeds!Thinned(Tables(c), Tables(c)')
      BY <3>1, LosesThins DEF Thins
    <3> QED  BY <1>1, <3>2 DEF Feed
  <2>3. Feeds!Take
    BY <2>1, <2>2 DEF Feeds!Take, Feed
  <2> QED  BY <1>1, <2>3 DEF Feeds!Next, Feed
<1>4. CASE ~ Answering /\ ~ Change /\ Conns = {}
  <2>1. server'.version = server.version
    BY <1>4 DEF Next, Loop, Answering, HandleConnOpen, HandleConnClose, StartSyncResponse, SendResponseSync, Stop,
                vars, TypeOK
  <2>2. Feed' = Feed
    BY <1>1, <1>4 DEF Feed
  <2> QED  BY <2>1, <2>2
<1> QED  BY <1>2, <1>3, <1>4

\* Outboxes, writers, sockets and client readers implement the board
\* (queueWire, connWriter, broadcastSessionsChanged, dispatchEvent).
THEOREM BoardImplemented == Spec => ImplementsBoard
<1>1. Init => TypeOK /\ Bounded /\ Feeds!Init
  <2>1. Init => Bounded
    BY WireAssumption DEF Init, Bounded
  <2> QED  BY <2>1, TypeInit, BoardInit
<1>2. TypeOK /\ Bounded /\ [Next]_vars => (TypeOK /\ Bounded)'
  BY TypeStep, BoundedStep
<1>3. TypeOK /\ TypeOK' /\ Bounded /\ [Next]_vars => [Feeds!Next]_<<server.version, Feed>>
  BY BoardStep
<1>4. TypeOK /\ TypeOK' /\ Bounded /\ [Next]_vars => [Feeds!Next]_<<server.version, [c \in Conns |-> Tables(c)]>>
  BY <1>3 DEF Feed
<1> QED  BY <1>1, <1>2, <1>4, PTL DEF Spec, ImplementsBoard, Feeds!Spec

-----------------------------------------------------------------------------
(* The order of versions in a feed.  Feeds!InOrder is inductive for the      *)
(* board: what is posted is the newest version there is, and what is left    *)
(* after a thinning keeps the order of what was there.                       *)

\* The part of Feeds!InOrder about one feed.
Ordered(q, v) ==
    /\ \A i \in DOMAIN q : q[i] <= v
    /\ \A i, j \in DOMAIN q : i < j => q[i] <= q[j]

\* A version that is not older than any of a feed goes to its end.
LEMMA PostedOrdered ==
    ASSUME NEW q \in Seq(Nat), NEW v \in Nat, NEW w \in Nat, v <= w, Ordered(q, v)
    PROVE  Ordered(q, w) /\ Ordered(Append(q, w), w)
<1>1. Ordered(q, w)
  BY DEF Ordered
<1>2. /\ Append(q, w) \in Seq(Nat)
      /\ DOMAIN Append(q, w) = 1 .. Len(q) + 1
      /\ \A i \in 1 .. Len(q) : Append(q, w)[i] = q[i]
      /\ Append(q, w)[Len(q) + 1] = w
      /\ DOMAIN q = 1 .. Len(q) /\ Len(q) \in Nat
  OBVIOUS
<1>3. \A i \in DOMAIN q : q[i] \in Nat
  OBVIOUS
<1>4. ASSUME NEW i \in DOMAIN Append(q, w)
      PROVE  Append(q, w)[i] <= w
  <2>1. CASE i \in 1 .. Len(q)
    BY <1>1, <1>2, <2>1 DEF Ordered
  <2>2. CASE i = Len(q) + 1
    BY <1>2, <2>2
  <2> QED  BY <1>2, <2>1, <2>2
<1>5. ASSUME NEW i \in DOMAIN Append(q, w), NEW j \in DOMAIN Append(q, w), i < j
      PROVE  Append(q, w)[i] <= Append(q, w)[j]
  <2>1. CASE j \in 1 .. Len(q)
    <3>1. i \in 1 .. Len(q)
      BY <1>2, <1>5, <2>1
    <3> QED  BY <1>1, <1>2, <1>5, <2>1, <3>1 DEF Ordered
  <2>2. CASE j = Len(q) + 1
    BY <1>2, <1>4, <2>2
  <2> QED  BY <1>2, <2>1, <2>2
<1> QED  BY <1>1, <1>4, <1>5 DEF Ordered

\* What is left of an ordered feed is ordered.
LEMMA ThinnedOrdered ==
    ASSUME NEW q \in Seq(Nat), NEW r \in Seq(Nat), NEW v \in Nat, Ordered(q, v), Feeds!Thinned(q, r)
    PROVE  Ordered(r, v)
<1>1. PICK at \in [DOMAIN r -> DOMAIN q] :
          /\ \A i, j \in DOMAIN r : i < j => at[i] < at[j]
          /\ \A i \in DOMAIN r : r[i] = q[at[i]]
  BY DEF Feeds!Thinned
<1>2. ASSUME NEW i \in DOMAIN r
      PROVE  r[i] <= v
  BY <1>1 DEF Ordered
<1>3. ASSUME NEW i \in DOMAIN r, NEW j \in DOMAIN r, i < j
      PROVE  r[i] <= r[j]
  <2>1. at[i] \in DOMAIN q /\ at[j] \in DOMAIN q /\ at[i] < at[j]
    BY <1>1, <1>3
  <2> QED  BY <1>1, <2>1 DEF Ordered
<1> QED  BY <1>2, <1>3 DEF Ordered

FeedsInv ==
    /\ server.version \in Nat /\ Feed \in [Conns -> Seq(Nat)]
    /\ \A c \in Conns : Ordered(Feed[c], server.version)

LEMMA FeedsInOrder == FeedsInv => TablesInOrder
  BY DEF FeedsInv, TablesInOrder, Feeds!InOrder, Ordered, Feed

LEMMA FeedsInit == Feeds!Init => FeedsInv
<1> SUFFICES ASSUME Feeds!Init PROVE FeedsInv
  OBVIOUS
<1>1. server.version \in Nat /\ Feed = [c \in Conns |-> <<>>]
  BY DEF Feeds!Init, Feed
<1>2. ASSUME NEW c \in Conns
      PROVE  Ordered(Feed[c], server.version)
  <2>1. Feed[c] = <<>>
    BY <1>1
  <2>2. DOMAIN Feed[c] = {}
    BY <2>1
  <2> QED  BY <2>2 DEF Ordered
<1> QED  BY <1>1, <1>2 DEF FeedsInv

LEMMA FeedsStep == FeedsInv /\ [Feeds!Next]_<<server.version, Feed>> => FeedsInv'
<1> SUFFICES ASSUME FeedsInv, [Feeds!Next]_<<server.version, Feed>> PROVE FeedsInv'
  OBVIOUS
<1>1. /\ server.version \in Nat /\ Feed \in [Conns -> Seq(Nat)]
      /\ \A c \in Conns : Ordered(Feed[c], server.version)
  BY DEF FeedsInv
<1>2. CASE Feeds!Next /\ Feeds!Post
  <2>1. /\ server'.version \in Nat /\ server.version <= server'.version
        /\ Feed' \in [Conns -> Seq(Nat)]
        /\ \A c \in Conns : Feed'[c] \in {Feed[c], Append(Feed[c], server'.version)}
    BY <1>1, <1>2 DEF Feeds!Next, Feeds!Post, Feed
  <2>2. ASSUME NEW c \in Conns
        PROVE  Ordered(Feed'[c], server'.version)
    <3>1. Feed[c] \in Seq(Nat) /\ Feed'[c] \in {Feed[c], Append(Feed[c], server'.version)}
      BY <1>1, <2>1
    <3>2. Ordered(Feed[c], server'.version) /\ Ordered(Append(Feed[c], server'.version), server'.version)
      <4>1. Ordered(Feed[c], server.version)
        BY <1>1
      <4>2. server.version \in Nat /\ server'.version \in Nat /\ server.version <= server'.version /\ Feed[c] \in Seq(Nat)
        BY <1>1, <2>1, <3>1
      <4> QED  BY <4>1, <4>2, PostedOrdered
    <3> QED  BY <3>1, <3>2
  <2> QED  BY <2>1, <2>2 DEF FeedsInv
<1>3. CASE Feeds!Next /\ Feeds!Take
  <2>1. /\ server'.version = server.version /\ Feed' \in [Conns -> Seq(Nat)]
        /\ \A c \in Conns : Feeds!Thinned(Feed[c], Feed'[c])
    BY <1>3 DEF Feeds!Next, Feeds!Take, Feed
  <2>2. ASSUME NEW c \in Conns
        PROVE  Ordered(Feed'[c], server'.version)
    <3>1. Feed[c] \in Seq(Nat) /\ Feed'[c] \in Seq(Nat) /\ Feeds!Thinned(Feed[c], Feed'[c])
      BY <1>1, <2>1
    <3> QED  BY <1>1, <2>1, <3>1, ThinnedOrdered
  <2> QED  BY <1>1, <2>1, <2>2 DEF FeedsInv
<1>4. CASE UNCHANGED <<server.version, Feed>>
  BY <1>1, <1>4 DEF FeedsInv
<1> QED  BY <1>2, <1>3, <1>4 DEF Feeds!Next

\* So the tables on their way to one client are ever newer, and none is newer
\* than the daemon's.
THEOREM TablesInOrderAlways == Spec => []TablesInOrder
<1>1. FeedsInv /\ [Feeds!Next]_<<server.version, [c \in Conns |-> Tables(c)]>> => FeedsInv'
  BY FeedsStep DEF Feed
<1> QED  BY <1>1, FeedsInit, FeedsInOrder, BoardImplemented, PTL DEF ImplementsBoard, Feeds!Spec

==============================================================================
