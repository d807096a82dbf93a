------------------------------- MODULE Relay -------------------------------
(***************************************************************************)
(* How text reaches the log pane: the daemon's FileRelay follows files and *)
(* pushes what is appended (runtime/filerelay.go), the daemon tells which  *)
(* session is active and which tabs it has (runtime/proto_bridge.go), and  *)
(* the log program reads the end of a file when it turns to a tab and puts *)
(* the pushed lines after it (tui/log_tabs.go, tui/log_events.go).         *)
(***************************************************************************)
EXTENDS FileRelay

CONSTANTS
    MaxLines,      \* bound: lines written
    MaxTables,     \* bound: session tables sent
    MaxTurns,      \* bound: clicks and focus events
    Backlog,       \* initialBackfillLines (2000)
    MaxLog         \* maxLogLines (5000)

VARIABLES
    \* the daemon
    lost,      \* ghost: lines dropped at the full outbox of the log program (bound: one piece)
    stage,     \* of each session: 0 to come, 1 launched, 2 after a hook, 3 with a transcript, 4 gone
    active,    \* the active session
    tables,    \* ghost: session tables sent
    wire,      \* messages on their way to the log program
    \* the log program
    cur,       \* its current session
    tabs,      \* its tabs: label, path, kind, buf
    tab,       \* the active one
    view,      \* what is on the screen
    renderer,  \* the kind its renderer was made for
    fills,     \* backfills under way
    turns,     \* ghost: clicks
    fresh      \* ghost: the active tab has been active since its file was last asked for

daemon == <<relay, lost, stage, active, tables>>
program == <<cur, tabs, tab, view, renderer, fills, turns, fresh>>
vars == <<daemon, wire, program>>

\* A session and its root frame have ids of their own (allocFrameID).
SessionID(s) == <<"session", s>>

LastOf(s, k) == SubSeq(s, IF Len(s) > k THEN Len(s) - k + 1 ELSE 1, Len(s))

-----------------------------------------------------------------------------
(* The tabs *)

TabOf(label, path, kind) == [label |-> label, path |-> path, kind |-> kind]

LogTabs(s, st) ==
    (IF st[s] = 3 THEN <<TabOf("TRANSCRIPT", Transcript(s), "transcript")>> ELSE <<>>)
    \o (IF st[s] \in 2 .. 3 THEN <<TabOf("EVENTS", Events(s), "text")>> ELSE <<>>)

AllTabs(s, st) ==
    (IF s = NoSession THEN <<>> ELSE LogTabs(s, st) \o <<TabOf("INFO", NoPath, "info")>>)
    \o <<TabOf("LOG", App, "log")>>

HasTabRenderer(kind) == kind = "transcript"
RenderedPath(list) ==
    LET at == {i \in DOMAIN list : HasTabRenderer(list[i].kind)} IN
    IF at = {} THEN NoPath ELSE list[CHOOSE i \in at : \A j \in at : i <= j].path

\* A tab that was there keeps its text.
BuildTabList(prev, list) ==
    [i \in DOMAIN list |->
        LET same == {t \in ToSet(prev) : t.label = list[i].label /\ t.path = list[i].path
                                         /\ t.kind = list[i].kind}
        IN  IF same # {} THEN CHOOSE t \in same : TRUE
            ELSE [label |-> list[i].label, path |-> list[i].path, kind |-> list[i].kind, buf |-> <<>>]]

-----------------------------------------------------------------------------
(* What is followed, written and pushed *)

\* Every tab of every session is followed before a table goes out.
SyncRelayWatches(entries, st) ==
    [p \in Files |->
        CASE p[1] = "transcript" /\ st[p[2]] = 3      -> Add(entries, p, RootFrame(p[2]), "transcript")[p]
          [] p[1] = "events" /\ st[p[2]] \in 2 .. 3 -> Add(entries, p, RootFrame(p[2]), "text")[p]
          [] OTHER                               -> entries[p]]

\* The goroutines of FileRelay take steps of their own.
Apart == UNCHANGED <<lost, stage, active, tables, wire, program>>

Write(p) ==
    /\ FoldFunction(+, 0, size) < MaxLines
    /\ p # App => stage[p[2]] \in 1 .. 3
    /\ size' = [size EXCEPT ![p] = @ + 1]
    /\ noted' = IF Following(p) THEN noted \cup {p} ELSE noted
    /\ UNCHANGED <<entry, sweeping, read, sent, lost, stage, active, tables, wire, program>>

Broadcast_Rereads(r) ==
    /\ read = {r} /\ Following(r.path)
    /\ read' = {}
    /\ UNCHANGED entry
    /\ sent' = [sent EXCEPT ![r.path] = @ \o Piece(r).lines]
    /\ \/ wire' = Append(wire, Piece(r)) /\ UNCHANGED lost
       \/ lost = {} /\ lost' = ToSet(Piece(r).lines) /\ UNCHANGED wire
    /\ UNCHANGED <<size, noted, sweeping, stage, active, tables, program>>

Broadcast(r) ==
    /\ read = {r} /\ Following(r.path)
    /\ read' = {}
    /\ entry' = [entry EXCEPT ![r.path].offset = r.to]
    /\ sent' = [sent EXCEPT ![r.path] = @ \o Piece(r).lines]
    /\ \/ wire' = Append(wire, Piece(r)) /\ UNCHANGED lost
       \/ lost = {} /\ lost' = ToSet(Piece(r).lines) /\ UNCHANGED wire
    /\ UNCHANGED <<size, noted, sweeping, stage, active, tables, program>>

-----------------------------------------------------------------------------
(* The daemon's sessions *)

Table(s, st, preview) == [ev |-> "sessions", session |-> s, preview |-> preview, list |-> AllTabs(s, st)]

\* Sessions change, the files of their tabs are followed, and the table goes out.
BroadcastSessionsChanged(entries, preview) ==
    /\ tables < MaxTables /\ tables' = tables + 1
    /\ entry' = SyncRelayWatches(entries, stage')
    /\ wire' = Append(wire, Table(active', stage', preview))
    /\ UNCHANGED <<size, noted, sweeping, read, sent, lost, program>>

Launch(s) ==
    /\ stage[s] = 0
    /\ stage' = [stage EXCEPT ![s] = 1]
    /\ active' = s
    /\ BroadcastSessionsChanged(entry, FALSE)

\* A hook tells the frame's own id, claude's and codex's the transcript too.
Hook(s) ==
    /\ stage[s] \in 1 .. 2
    /\ stage' = [stage EXCEPT ![s] = @ + 1]
    /\ UNCHANGED active
    /\ BroadcastSessionsChanged(entry, FALSE)

Preview(s) ==
    /\ stage[s] \in 1 .. 3
    /\ active' = s
    /\ UNCHANGED stage
    /\ BroadcastSessionsChanged(entry, TRUE)

Stop(s) ==
    /\ stage[s] \in 1 .. 3
    /\ stage' = [stage EXCEPT ![s] = 4]
    /\ active' = IF active = s THEN NoSession ELSE active
    /\ BroadcastSessionsChanged(UnwatchFile(entry, RootFrame(s)), FALSE)

\* The agent's pane 0.1 gets the focus.
PaneFocused ==
    /\ turns < MaxTurns /\ turns' = turns + 1
    /\ wire' = Append(wire, [ev |-> "focused"])
    /\ UNCHANGED <<daemon, cur, tabs, tab, view, renderer, fills, fresh>>

-----------------------------------------------------------------------------
(* The log program *)

Active == tabs[tab]

\* A command that will read the end of a file and bring back the text.
BackfillActiveTab(list, at) ==
    IF list[at].kind = "info" THEN fills
    ELSE Append(fills, [path |-> list[at].path, done |-> FALSE, text |-> <<>>])

\* The renderer in place turns anything but a transcript into nothing.
Styled(text) == IF HasTabRenderer(renderer)
                THEN SelectSeq(text, LAMBDA l : l[1][1] = "transcript") ELSE text

AppendContent(text) ==
    LET buf == LastOf(Active.buf \o Styled(text), MaxLog) IN
    /\ tabs' = [tabs EXCEPT ![tab].buf = buf]
    /\ view' = buf

\* The number of the tab in front is kept, whatever tab now has that number.
ActiveTab(e, list, changed) ==
    LET infos == {i \in DOMAIN list : list[i].label = "INFO"} IN
    IF e.preview /\ infos # {} THEN CHOOSE i \in infos : TRUE
    ELSE IF changed \/ tab > Len(list) THEN 1 ELSE tab

RebuildTabs(e) ==
    LET list    == BuildTabList(tabs, e.list)
        changed == RenderedPath(e.list) # RenderedPath(tabs)
        at      == ActiveTab(e, list, changed)
    IN  /\ cur' = e.session
        /\ tab' = at
        /\ tabs' = IF changed THEN [list EXCEPT ![1].buf = <<>>] ELSE list
        /\ view' = IF changed \/ list[at].kind = "info" THEN <<>> ELSE view
        /\ renderer' = IF changed THEN list[1].kind ELSE renderer
        /\ fills' = IF changed THEN BackfillActiveTab(list, at) ELSE fills
        /\ fresh' = (changed \/ (fresh /\ list[at].label = Active.label /\ list[at].path = Active.path))

SwitchToTab_KeepsText(i) ==
    /\ tab' = i
    /\ IF tabs[i].kind = "info"
       THEN view' = <<>> /\ UNCHANGED <<tabs, renderer>>
       ELSE /\ view' = tabs[i].buf /\ UNCHANGED tabs
            /\ renderer' = tabs[i].kind
    /\ fills' = IF tabs[i].buf = <<>> THEN BackfillActiveTab(tabs, i) ELSE fills
    /\ fresh' = TRUE

SwitchToTab(i) ==
    /\ tab' = i
    /\ IF tabs[i].kind = "info"
       THEN view' = <<>> /\ UNCHANGED <<tabs, renderer>>
       ELSE /\ view' = <<>> /\ tabs' = [tabs EXCEPT ![i].buf = <<>>]
            /\ renderer' = tabs[i].kind
    /\ fills' = BackfillActiveTab(tabs, i)
    /\ fresh' = TRUE

Stay == UNCHANGED <<tabs, tab, view, renderer, fills, fresh>>

HandleFocus ==
    LET at == {i \in DOMAIN tabs : HasTabRenderer(tabs[i].kind)} IN
    IF at # {} /\ tab \notin at THEN SwitchToTab(CHOOSE i \in at : TRUE) ELSE Stay

HandleLogLine(e) ==
    IF Active.path = e.path
    THEN AppendContent(e.lines) /\ UNCHANGED <<tab, renderer, fills, fresh>>
    ELSE Stay

HandleFileLine(e) ==
    IF cur # NoSession /\ SessionID(cur) = e.id /\ Active.kind = e.kind
    THEN AppendContent(e.lines) /\ UNCHANGED <<tab, renderer, fills, fresh>>
    ELSE Stay

HandleLogEvent ==
    /\ wire # <<>>
    /\ wire' = Tail(wire)
    /\ LET e == Head(wire) IN
       \/ e.ev = "sessions" /\ RebuildTabs(e)
       \/ e.ev = "focused" /\ HandleFocus /\ UNCHANGED cur
       \/ e.ev = "log" /\ HandleLogLine(e) /\ UNCHANGED cur
       \/ e.ev = "file" /\ HandleFileLine(e) /\ UNCHANGED cur
    /\ UNCHANGED <<daemon, turns>>

Click(i) ==
    /\ turns < MaxTurns /\ turns' = turns + 1
    /\ i \in DOMAIN tabs /\ i # tab
    /\ SwitchToTab(i)
    /\ UNCHANGED <<daemon, wire, cur>>

\* The command of a backfill runs beside the program and answers in its time.
ReadTailLines(k) ==
    /\ k \in DOMAIN fills /\ ~fills[k].done
    /\ LET p == fills[k].path
           from == IF size[p] > Backlog THEN size[p] - Backlog ELSE 0
       IN  fills' = [fills EXCEPT ![k] = [path |-> p, done |-> TRUE, text |-> LinesOf(p, from, size[p])]]
    /\ UNCHANGED <<daemon, wire, cur, tabs, tab, view, renderer, turns, fresh>>

HandleBackfillDone(k) ==
    /\ k \in DOMAIN fills /\ fills[k].done
    /\ IF fills[k].text = <<>> THEN UNCHANGED <<tabs, view>> ELSE AppendContent(fills[k].text)
    /\ fills' = RemoveAt(fills, k)
    /\ UNCHANGED <<daemon, wire, cur, tab, renderer, turns, fresh>>

-----------------------------------------------------------------------------
\* The daemon follows its log before it starts the log program, which subscribes
\* and asks for the end of that log.
Init ==
    /\ size = [p \in Files |-> 0]
    /\ entry = [p \in Files |-> IF p = App THEN [NoEntry EXCEPT !.on = TRUE] ELSE NoEntry]
    /\ noted = {} /\ sweeping = {} /\ read = {}
    /\ sent = [p \in Files |-> <<>>] /\ lost = {}
    /\ stage = [s \in Sessions |-> 0] /\ active = NoSession /\ tables = 0
    /\ wire = <<>>
    /\ cur = NoSession
    /\ tabs = BuildTabList(<<>>, AllTabs(NoSession, stage))
    /\ tab = 1 /\ view = <<>> /\ renderer = "log"
    /\ fills = <<[path |-> App, done |-> FALSE, text |-> <<>>]>>
    /\ turns = 0 /\ fresh = TRUE

Next ==
    \/ \E p \in Files : Write(p) \/ (WatchLoop(p) /\ Apart) \/ (ReadFrom(p) /\ Apart)
    \/ Sweep /\ Apart
    \/ \E r \in read : Broadcast(r) \/ (BroadcastGone(r) /\ Apart)
    \/ \E s \in Sessions : Launch(s) \/ Hook(s) \/ Preview(s) \/ Stop(s)
    \/ PaneFocused \/ HandleLogEvent
    \/ \E i \in DOMAIN tabs : Click(i)
    \/ \E k \in DOMAIN fills : ReadTailLines(k) \/ HandleBackfillDone(k)

Spec == Init /\ [][Next]_vars

-----------------------------------------------------------------------------
(* What is promised *)

Settled ==
    /\ noted = {} /\ sweeping = {} /\ read = {} /\ wire = <<>> /\ fills = <<>>
    /\ \A p \in Files : ~entry[p].dirty

\* The lines of the end of a file.
Latest(p, k) == {<<p, i>> : i \in {n \in 1 .. size[p] : n + k > size[p]}}

\* A tab that was turned to shows, when all is quiet, the end of the log: the
\* text read at first and the lines pushed since leave no gap between them, but
\* for what the full outbox dropped ("we don't backfill from the relay; the TUI
\* does its own backfill on tab switch", filerelay.go).
NoGap ==
    (Settled /\ fresh /\ Active.label = "LOG") => Latest(App, Backlog) \subseteq ToSet(view) \cup lost

\* The same for the tabs of a session ("new sessions must stream
\* EvtSessionFileLine immediately", log_model_test.go).
SessionStreams ==
    (Settled /\ fresh /\ Active.kind = "transcript" /\ Following(Active.path))
        => Latest(Active.path, Backlog) \subseteq ToSet(view) \cup lost
=============================================================================
