------------------------------ MODULE Sidebar ------------------------------
(***************************************************************************)
(* The sidebar (tui/model.go and the files beside it): the list of the     *)
(* sessions in pane 0.2, its cursor, filters, folds, workspaces and        *)
(* scrolling; the commands it sends, each from a goroutine of its own; and *)
(* what it does with their answers and with the session tables the daemon  *)
(* pushes.  Composed with the palette that n, N, d and the prefix keys     *)
(* open, and with what the daemon does with both.                          *)
(*                                                                         *)
(* Sessions are listed in the order they were created in.                  *)
(***************************************************************************)
EXTENDS Palette, SequencesExt

CONSTANTS
    Sessions,
    Started,        \* those there are when the sidebar starts
    ProjectOf,      \* session -> project
    ProjectOrder,   \* the projects in the order of their names, MadeDir among them
    WorkspaceOf,    \* project -> workspace
    Workspaces,     \* the workspaces in their order, the default first
    Statuses,
    BodyRows,       \* rows the list has on the screen
    MaxKeys,        \* bound: keys, clicks and moves of the user
    MaxTicks        \* bound: changes that come from the sessions

ASSUME SidebarAssumption ==
    /\ NoSession \notin Sessions /\ Started \in Seq(Sessions)
    /\ ProjectOrder \in Seq(ToSet(ProjectOrder)) /\ "" \notin ToSet(ProjectOrder)
    /\ Workspaces \in Seq(ToSet(Workspaces)) \ {<<>>}
    /\ ProjectOf \in [Sessions -> ToSet(ProjectOrder)]
    /\ WorkspaceOf \in [ToSet(ProjectOrder) -> ToSet(Workspaces)]
    /\ {"new", "gone"} \cap Statuses = {}

VARIABLES
    \* the daemon
    order,     \* the sessions
    status,    \* of each
    active,    \* the active one
    focus,     \* the pane of tmux that has the focus
    \* on their way
    cmds,      \* commands of the sidebar
    replies,   \* answers not yet handled
    events,    \* session tables not yet handled, in the order they were made
    \* the sidebar
    table,     \* m.sessions: the sessions and their statuses
    mactive,   \* m.active
    anchored,
    cursor,    \* index into the items, 0 without one
    offset,    \* items scrolled away
    filter,    \* the statuses shown
    folded,    \* the projects folded
    ws,        \* the workspace selected
    leaving,   \* a timer of a move at the edge of the pane is running
    keys,      \* ghost: inputs of the user
    ticks,     \* ghost: changes that came from the sessions
    made       \* ghost: the session made and active since the user last did anything
               \* here, and since the sidebar last went back to a table without it

daemon == <<order, status, active>>
model == <<table, mactive, anchored, cursor, offset, filter, folded, ws, leaving>>
vars == <<popup, asked, daemon, focus, cmds, replies, events, model, keys, ticks, made>>

MainPane == "0.1"
LayoutPanes == {"0.0", "0.1", "0.2"}
SidebarPane == "0.2"
Default == Workspaces[1]

-----------------------------------------------------------------------------
(* The list *)

NoItem == [project |-> "", session |-> NoSession]
Header(p) == [project |-> p, session |-> NoSession]
IsHeader(item) == item.project # "" /\ item.session = NoSession
Card(s) == [project |-> ProjectOf[s], session |-> s]

\* What is in S of a sequence, in its order.
Kept(q, S) ==
    LET kept[n \in 0 .. Len(q)] ==
            IF n = 0 THEN <<>> ELSE IF q[n] \in S THEN Append(kept[n - 1], q[n]) ELSE kept[n - 1]
    IN  kept[Len(q)]

Shown(tbl, flt, w, p) ==
    Kept(tbl.order, {s \in Sessions : ProjectOf[s] = p /\ WorkspaceOf[p] = w /\ tbl.status[s] \in flt})

\* A project with none of its sessions shown has no header.
Group(p, shown, fld) ==
    IF shown = <<>> THEN <<>>
    ELSE <<Header(p)>> \o IF p \in fld THEN <<>> ELSE [i \in DOMAIN shown |-> Card(shown[i])]

Items(tbl, flt, fld, w) ==
    FlattenSeq([i \in DOMAIN ProjectOrder |->
        Group(ProjectOrder[i], Shown(tbl, flt, w, ProjectOrder[i]), fld)])

items == Items(table, filter, folded, ws)
At(list, i) == IF i \in DOMAIN list THEN list[i] ELSE NoItem
First(at) == IF at = {} THEN 0 ELSE CHOOSE i \in at : \A j \in at : i <= j
CursorOf(list, s) == IF s = NoSession THEN 0 ELSE First({i \in DOMAIN list : list[i].session = s})
CursorSession == At(items, cursor).session

CollectWorkspaces(tbl) ==
    Kept(Workspaces, {Default} \cup {WorkspaceOf[ProjectOf[s]] : s \in ToSet(tbl.order)})

\* The cursor goes with its session, then with the project, then with the header.
RestoreCursor_ByIndex(prev, list) == IF cursor > Len(list) THEN Len(list) ELSE cursor
RestoreCursor(prev, list) ==
    LET same    == CursorOf(list, prev.session)
        project == First({i \in DOMAIN list : prev.project # "" /\ list[i].project = prev.project})
        header  == First({i \in DOMAIN list : IsHeader(list[i]) /\ list[i].project = prev.project})
    IN  IF same # 0 THEN same
        ELSE IF prev.session # NoSession /\ project # 0 THEN project
        ELSE IF IsHeader(prev) /\ header # 0 THEN header
        ELSE IF cursor > Len(list) THEN Len(list) ELSE cursor

\* rebuildItems: a workspace that is gone gives way to the default one.
RebuildItems(tbl, flt, fld, w) ==
    LET found == w \in ToSet(CollectWorkspaces(tbl))
        next  == IF found THEN w ELSE Default
    IN  /\ table' = tbl /\ filter' = flt /\ folded' = fld /\ ws' = next
        /\ cursor' = RestoreCursor(At(items, cursor), Items(tbl, flt, fld, next))

-----------------------------------------------------------------------------
(* Scrolling *)

Rows(item) == IF IsHeader(item) THEN 1 ELSE 2
RowsOf(list) == FoldLeft(LAMBDA n, x : n + Rows(x), 0, list)

\* The project whose header is scrolled away while its sessions are not.
StickyProject(list, off) ==
    IF off = 0 \/ list = <<>> \/ IsHeader(list[off + 1]) THEN "" ELSE list[off + 1].project

MaxOffset(list) ==
    LET Fits(off) == RowsOf(SubSeq(list, off + 1, Len(list)))
                        <= BodyRows - (IF StickyProject(list, off) # "" THEN 2 ELSE 1)
        tight == {off \in 1 .. Len(list) - 1 : ~Fits(off)}
    IN  IF tight = {} THEN 0 ELSE (CHOOSE off \in tight : \A o \in tight : o <= off) + 1

\* No item is left where the list is scrolled to.
OutOfRange == items # <<>> /\ offset > 0 /\ offset >= Len(items)

\* What the pointer can be on: the items on the screen, and the header that is
\* kept above them.
HeaderAbove ==
    LET p == StickyProject(items, offset)
    IN  IF p = "" THEN {} ELSE {First({i \in DOMAIN items : items[i] = Header(p)})}
PointedAt ==
    LET rows == BodyRows - (IF offset > 0 THEN 1 ELSE 0) - Cardinality(HeaderAbove)
    IN  {i \in (offset + 1) .. Len(items) : RowsOf(SubSeq(items, offset + 1, i - 1)) < rows}

-----------------------------------------------------------------------------
(* Commands of the sidebar *)

Preview(s) == {[op |-> "preview", session |-> s, n |-> keys']}
Focus(pane) == {[op |-> "focus", pane |-> pane]}
CursorPreview == LET s == At(items', cursor').session IN
                 IF s # NoSession /\ s # mactive' THEN Preview(s) ELSE {}

Press ==
    /\ keys < MaxKeys /\ keys' = keys + 1
    /\ popup = Closed
    /\ made' = NoSession
    /\ UNCHANGED <<popup, asked, daemon, focus, replies, events, ticks>>

Key == Press /\ focus = SidebarPane

MoveCursor(by) ==
    /\ Key
    /\ cursor' = IF by = "up" THEN (IF cursor > 1 THEN cursor - 1 ELSE cursor)
                 ELSE IF cursor < Len(items) THEN cursor + 1 ELSE cursor
    /\ UNCHANGED <<table, mactive, offset, filter, folded, ws, leaving>>
    /\ LET s == At(items, cursor').session IN anchored' = IF s # NoSession THEN s ELSE anchored
    /\ cmds' = cmds \cup CursorPreview

Enter ==
    /\ Key /\ CursorSession # NoSession
    /\ anchored' = CursorSession
    /\ cmds' = cmds \cup Focus(MainPane)
    /\ UNCHANGED <<table, mactive, cursor, offset, filter, folded, ws, leaving>>

LaunchTool(tool, args) ==
    cmds' = cmds \cup {[op |-> "tool", tool |-> tool, args |-> args, n |-> keys']}

\* n and N.
New(quick) ==
    /\ Key
    /\ LET args == [a \in {"project"} |-> At(items, cursor).project]
       IN  LaunchTool("new-session", IF quick THEN With(args, "command", DefaultCommand) ELSE args)
    /\ UNCHANGED model

StopKey ==
    /\ Key /\ CursorSession # NoSession
    /\ LaunchTool("stop-session", [a \in {"session_id"} |-> CursorSession])
    /\ UNCHANGED model

FlipFold(p) == IF p \in folded THEN folded \ {p} ELSE folded \cup {p}

Toggle ==
    /\ Key /\ At(items, cursor).project # ""
    /\ RebuildItems(table, filter, FlipFold(At(items, cursor).project), ws)
    /\ UNCHANGED <<mactive, anchored, offset, leaving, cmds>>

\* A filter that would show nothing shows everything.
ToggledFilter(st) ==
    LET next == IF st \in filter THEN filter \ {st} ELSE filter \cup {st}
    IN  IF next = {} THEN Statuses ELSE next

\* Everything, or nothing if everything is shown.
ToggledAll == IF filter = Statuses THEN {} ELSE Statuses

\* By a key, or by a click on a chip whichever pane has the focus.
Filter(flt) ==
    /\ Press
    /\ RebuildItems(table, flt, folded, ws)
    /\ UNCHANGED <<mactive, anchored, offset, leaving, cmds>>

Cycled(by) ==
    LET names == CollectWorkspaces(table)
        i == CHOOSE j \in DOMAIN names : names[j] = ws
        n == Len(names)
    IN  names[CASE by = "next"  -> (i % n) + 1
                [] by = "prev"  -> IF i = 1 THEN n ELSE i - 1
                [] by = "reset" -> 1]

WorkspaceKey(by) ==
    /\ Key
    /\ RebuildItems(table, filter, folded, Cycled(by))
    /\ UNCHANGED <<mactive, anchored, offset, leaving, cmds>>

-----------------------------------------------------------------------------
(* The mouse *)

\* A move brings the cursor along, and starts a timer that may take it back.
MouseMotion(i, edge) ==
    /\ Press
    /\ ~OutOfRange /\ i \in {0} \cup PointedAt
    /\ cursor' = IF i = 0 THEN cursor ELSE i
    /\ leaving' = edge
    /\ UNCHANGED <<table, mactive, anchored, offset, filter, folded, ws>>
    /\ cmds' = IF i \in {0, cursor} THEN cmds ELSE cmds \cup CursorPreview

MouseLeave ==
    /\ leaving /\ leaving' = FALSE /\ keys' = keys
    /\ LET at == CursorOf(items, anchored) IN
       IF anchored \in {NoSession, mactive} THEN UNCHANGED <<cursor, anchored, cmds>>
       ELSE IF at = 0 THEN anchored' = NoSession /\ UNCHANGED <<cursor, cmds>>
       ELSE /\ cursor' = at /\ UNCHANGED anchored
            /\ cmds' = cmds \cup Preview(anchored)
    /\ UNCHANGED <<popup, asked, daemon, focus, replies, events, table, mactive, offset, filter, folded,
                   ws, ticks, made>>

\* The title and the connector line put the main program back into pane 0.1.
ClickTitle ==
    /\ Press
    /\ cmds' = cmds \cup IF mactive # NoSession THEN {[op |-> "deactivate"]} ELSE Focus(MainPane)
    /\ UNCHANGED model

ClickItem(i) ==
    /\ Press /\ ~OutOfRange /\ i \in PointedAt \cup HeaderAbove
    /\ IF IsHeader(items[i])
       THEN /\ RebuildItems(table, filter, FlipFold(items[i].project), ws)
            /\ UNCHANGED <<anchored, cmds>>
       ELSE /\ cursor' = i /\ anchored' = items[i].session
            /\ cmds' = cmds \cup Focus(MainPane)
            /\ UNCHANGED <<table, filter, folded, ws>>
    /\ UNCHANGED <<mactive, offset, leaving>>

ClickWorkspace(w) ==
    /\ Press /\ Len(CollectWorkspaces(table)) >= 2 /\ w \in ToSet(CollectWorkspaces(table))
    /\ RebuildItems(table, filter, folded, w)
    /\ UNCHANGED <<mactive, anchored, offset, leaving, cmds>>

\* What a sidebar starts with, and the table it asks for.
Fresh ==
    /\ table' = [order |-> <<>>, status |-> [x \in Sessions |-> "new"]]
    /\ mactive' = NoSession /\ anchored' = NoSession /\ cursor' = 0 /\ offset' = 0
    /\ filter' = Statuses /\ folded' = {} /\ ws' = Default /\ leaving' = FALSE
    /\ cmds' = {} /\ replies' = {}
    /\ events' = <<[order |-> order, status |-> status, active |-> active, preview |-> FALSE]>>

\* rowToItemIndex reads the item the list is scrolled to: without one the
\* program ends at the next move or click, and the daemon starts it again.
Panics ==
    /\ keys < MaxKeys /\ keys' = keys + 1 /\ popup = Closed /\ OutOfRange
    /\ Fresh /\ made' = NoSession
    /\ UNCHANGED <<popup, asked, daemon, focus, ticks>>

ScrollStep == 3

Wheel(down) ==
    /\ Press /\ items # <<>> /\ BodyRows < RowsOf(items)
    /\ offset' = IF down THEN (IF offset + ScrollStep > MaxOffset(items) THEN MaxOffset(items)
                               ELSE offset + ScrollStep)
                 ELSE IF offset > ScrollStep THEN offset - ScrollStep ELSE 0
    /\ cursor' = IF cursor < offset' + 1 THEN offset' + 1 ELSE cursor
    /\ UNCHANGED <<table, mactive, anchored, filter, folded, ws, leaving>>
    /\ cmds' = cmds \cup CursorPreview

-----------------------------------------------------------------------------
(* What the daemon does with the commands of both *)

Table(preview) == [order |-> order', status |-> status', active |-> active', preview |-> preview]
Broadcast(preview) == events' = Append(events, Table(preview))

KeepMade == made' = IF active' = made THEN made ELSE NoSession
Take(c) == c \in cmds /\ cmds' = cmds \ {c}

PreviewSession(c) ==
    /\ Take(c) /\ c.op = "preview"
    /\ IF c.session \in ToSet(order)
       THEN /\ active' = c.session
            /\ UNCHANGED <<order, status>>
            /\ Broadcast(TRUE)
       ELSE UNCHANGED <<daemon, events>>
    /\ replies' = replies \cup {[op |-> "preview", n |-> c.n,
                                 session |-> IF c.session \in ToSet(order) THEN c.session ELSE NoSession]}
    /\ KeepMade
    /\ UNCHANGED <<popup, asked, focus, model, keys, ticks>>

FocusPane(c) ==
    /\ Take(c) /\ c.op = "focus"
    /\ focus' = c.pane
    /\ UNCHANGED <<popup, asked, daemon, replies, events, model, keys, ticks, made>>

PreviewProject(c) ==
    /\ Take(c) /\ c.op = "deactivate"
    /\ active' = NoSession
    /\ replies' = replies \cup {[op |-> "deactivate"]}
    /\ KeepMade
    /\ UNCHANGED <<popup, asked, order, status, focus, events, model, keys, ticks>>

\* A client of tmux shows one popup at a time.
DisplayPopup(c) ==
    /\ Take(c) /\ c.op = "tool"
    /\ popup' = IF popup = Closed THEN Opened(c.tool, PassedOn(c.args), active) ELSE popup
    /\ UNCHANGED <<asked, daemon, focus, replies, events, model, keys, ticks, made>>

\* A session of its project is spawned and becomes the active one, in a pane
\* that is given the focus.
CreateSession(c, s) ==
    /\ c \in asked /\ asked' = asked \ {c} /\ c.op = "create"
    /\ s \in Sessions \ ToSet(order) /\ status[s] = "new" /\ ProjectOf[s] = c.project
    /\ order' = Append(order, s)
    /\ \E st \in Statuses : status' = [status EXCEPT ![s] = st]
    /\ active' = s /\ made' = s
    /\ focus' = MainPane
    /\ Broadcast(FALSE)
    /\ UNCHANGED <<popup, cmds, replies, model, keys, ticks>>

Removed(s) ==
    /\ order' = Kept(order, Sessions \ {s})
    /\ status' = [status EXCEPT ![s] = "gone"]
    /\ active' = IF active = s THEN NoSession ELSE active
    /\ Broadcast(FALSE)

StopSession(c) ==
    /\ c \in asked /\ asked' = asked \ {c} /\ c.op = "stop"
    /\ c.session \in ToSet(order) /\ Removed(c.session)
    /\ KeepMade
    /\ UNCHANGED <<popup, focus, cmds, replies, model, keys, ticks>>

\* Refused, or of no account here.
OtherCommand(c) ==
    /\ c \in asked /\ asked' = asked \ {c}
    /\ UNCHANGED <<popup, daemon, focus, cmds, replies, events, model, keys, ticks, made>>

\* A session ends or changes its status of its own; a tick tells it.
SessionChanges(s) ==
    /\ ticks < MaxTicks /\ ticks' = ticks + 1
    /\ s \in ToSet(order)
    /\ \/ Removed(s)
       \/ /\ \E st \in Statuses : status' = [status EXCEPT ![s] = st]
          /\ UNCHANGED <<order, active>>
          /\ Broadcast(FALSE)
    /\ KeepMade
    /\ UNCHANGED <<popup, asked, focus, cmds, replies, model, keys>>

\* The prefix keys: the focus between the main pane and the sidebar, the main
\* program into pane 0.1, and the palettes they open.
PrefixKey ==
    /\ keys < MaxKeys /\ keys' = keys + 1 /\ popup = Closed
    /\ \/ focus' = (IF focus = SidebarPane THEN MainPane ELSE SidebarPane) /\ UNCHANGED <<popup, active>>
       \/ active' = NoSession /\ UNCHANGED <<popup, focus>>
       \/ \E tool \in {NoTool, "push-driver", "shutdown"} :
              popup' = Opened(tool, NoArgs, active) /\ UNCHANGED <<active, focus>>
    /\ made' = NoSession
    /\ UNCHANGED <<asked, order, status, cmds, replies, events, model, ticks>>

KeyInPopup ==
    /\ PaletteKey(ToSet(order))
    /\ UNCHANGED <<daemon, focus, cmds, replies, events, model, keys, ticks, made>>

PopupStarts ==
    /\ Begin
    /\ UNCHANGED <<daemon, focus, cmds, replies, events, model, keys, ticks, made>>

-----------------------------------------------------------------------------
(* What comes back *)

\* It goes on to ask for the focus of pane 0.3, where panes.go has the sidebar:
\* the layout has no such pane, so that command does nothing.
PreviewDone(r) ==
    /\ r \in replies /\ r.op = "preview"
    /\ replies' = replies \ {r}
    /\ mactive' = IF r.session # NoSession THEN r.session ELSE mactive
    /\ UNCHANGED <<popup, asked, daemon, focus, cmds, events, table, anchored, cursor, offset, filter, folded,
                   ws, leaving, keys, ticks, made>>

DeactivateDone(r) ==
    /\ r \in replies /\ r.op = "deactivate"
    /\ replies' = replies \ {r}
    /\ mactive' = NoSession /\ anchored' = NoSession
    /\ cmds' = cmds \cup Focus(MainPane)
    /\ UNCHANGED <<popup, asked, daemon, focus, events, table, cursor, offset, filter, folded, ws,
                   leaving, keys, ticks, made>>

\* handleServerEvent.  The active session is looked for among the items, so one
\* that is folded or filtered away counts as new with every table.
ApplyActive(e, list, known, anchor) ==
    LET isNew == e.active # NoSession /\ e.active # known IN
    /\ mactive' = IF isNew THEN e.active ELSE known
    /\ anchored' = IF isNew THEN e.active
                   ELSE IF e.active = NoSession /\ known = NoSession THEN NoSession ELSE anchor
    /\ cmds' = IF isNew /\ ~e.preview THEN cmds \cup Focus(MainPane) ELSE cmds

\* The view goes to the workspace of a session that becomes the active one.
FollowedWorkspace_Stays(e) == ws
FollowedWorkspace(e) ==
    IF e.active # NoSession /\ e.active # mactive /\ ~e.preview
    THEN WorkspaceOf[ProjectOf[e.active]] ELSE ws

\* One goroutine asks for the sessions and one listens, and each goes on to
\* listen: one of the two may hold its table while the other hands over the
\* ones behind it.
Listeners == 2

GoesBack(e) == made \in ToSet(table.order) /\ made \notin ToSet(e.order)

HandleServerEvent(i) ==
    /\ i \in DOMAIN events /\ events' = RemoveAt(events, i)
    /\ LET e     == events[i]
           tbl   == [order |-> e.order, status |-> e.status]
           names == ToSet(CollectWorkspaces(tbl))
           w     == IF FollowedWorkspace(e) \in names THEN FollowedWorkspace(e) ELSE Default
           list  == Items(tbl, filter, folded, w)
           known == IF e.active = NoSession \/ CursorOf(list, mactive) = 0 THEN NoSession ELSE mactive
           anchor == IF CursorOf(list, anchored) = 0 THEN NoSession ELSE anchored
           isNew == e.active # NoSession /\ e.active # known
           at    == CursorOf(list, e.active)
       IN  /\ table' = tbl /\ ws' = w
           /\ cursor' = IF isNew /\ at # 0 THEN at
                        ELSE IF e.active = NoSession /\ known = NoSession THEN 0
                        ELSE RestoreCursor(At(items, cursor), list)
           /\ ApplyActive(e, list, known, anchor)
    /\ made' = IF GoesBack(events[i]) THEN NoSession ELSE made
    /\ UNCHANGED <<popup, asked, daemon, focus, replies, offset, filter, folded, leaving, keys, ticks>>

-----------------------------------------------------------------------------
\* The sidebar has asked for the sessions, and has the focus.
Init ==
    /\ popup = Closed /\ asked = {}
    /\ \E given \in {<<>>, Started} :
           /\ order = given
           /\ status \in {f \in [Sessions -> Statuses \cup {"new"}] :
                             \A s \in Sessions : f[s] = "new" <=> s \notin ToSet(given)}
    /\ active = NoSession /\ focus = SidebarPane
    /\ cmds = {} /\ replies = {}
    /\ table = [order |-> <<>>, status |-> [x \in Sessions |-> "new"]]
    /\ events = <<[order |-> order, status |-> status, active |-> NoSession, preview |-> FALSE]>>
    /\ mactive = NoSession /\ anchored = NoSession
    /\ cursor = 0 /\ offset = 0 /\ filter = Statuses /\ folded = {} /\ ws = Default
    /\ leaving = FALSE /\ keys = 0 /\ ticks = 0 /\ made = NoSession

UserNext ==
    \/ \E by \in {"up", "down"} : MoveCursor(by)
    \/ Enter \/ StopKey \/ Toggle \/ Filter(ToggledAll) \/ ClickTitle
    \/ \E b \in BOOLEAN : New(b) \/ Wheel(b)
    \/ \E st \in Statuses : Filter(ToggledFilter(st))
    \/ \E by \in {"next", "prev", "reset"} : WorkspaceKey(by)
    \/ \E i \in 0 .. Len(items), edge \in BOOLEAN : MouseMotion(i, edge)
    \/ \E i \in DOMAIN items : ClickItem(i)
    \/ \E w \in ToSet(Workspaces) : ClickWorkspace(w)
    \/ Panics \/ PrefixKey \/ KeyInPopup

SystemNext ==
    \/ \E c \in cmds : PreviewSession(c) \/ FocusPane(c) \/ PreviewProject(c) \/ DisplayPopup(c)
    \/ \E c \in asked : StopSession(c) \/ OtherCommand(c) \/ \E s \in Sessions : CreateSession(c, s)
    \/ \E r \in replies : PreviewDone(r) \/ DeactivateDone(r)
    \/ PopupStarts \/ MouseLeave \/ \E i \in 1 .. Listeners : HandleServerEvent(i)

Next == UserNext \/ SystemNext \/ \E s \in Sessions : SessionChanges(s)

Spec == Init /\ [][Next]_vars

-----------------------------------------------------------------------------
(* Properties *)

\* What every part of the program takes for granted: the workspace shown is one
\* of the table, the session taken for the active one was in a table, and the
\* palette asks for a parameter of its tool (rebuildItems, handleServerEvent,
\* advanceParam).
TypeOK ==
    /\ {cursor, offset} \subseteq Nat
    /\ ws \in ToSet(CollectWorkspaces(table))
    /\ {mactive, anchored} \subseteq Sessions \cup {NoSession}
    /\ filter \subseteq Statuses /\ folded \subseteq ToSet(ProjectOrder)
    /\ focus \in LayoutPanes
    /\ popup.phase = "param" => popup.index \in DOMAIN Params(popup.tool)

\* A list that is made anew under the cursor, by a session that came or went, a
\* status that changed, a fold, a filter or a workspace, leaves the cursor on an
\* item of it, or on none, and on its session as long as that is listed; only a
\* table with another active session, or without one, takes it from there
\* (restoreCursor, handleServerEvent).
CursorFollows ==
    [][ LET remade == <<table, filter, folded, ws>>' # <<table, filter, folded, ws>>
            told   == {i \in DOMAIN events : events' = RemoveAt(events, i)}
            known  == CursorOf(items', mactive) # 0 /\ \A i \in told : events[i].active = mactive
        IN  remade => /\ cursor' \in 0 .. Len(items')
                      /\ (told # {} => known) /\ CursorOf(items', CursorSession) # 0
                            => CursorSession' = CursorSession ]_vars

Quiet == popup = Closed /\ asked = {} /\ cmds = {} /\ replies = {} /\ events = <<>>

\* Once all is handled, a session that was made, and has been the active one
\* since, is where the user is: its workspace is shown and the cursor is on it, in
\* whatever order the answers and tables came in, those of the commands before it
\* among them; unless a table older than the session was handled after one with
\* it, which leaves the list without the session (handleServerEvent).
NewIsShown ==
    Quiet /\ made # NoSession /\ filter = Statuses /\ folded = {}
        => ws = WorkspaceOf[ProjectOf[made]] /\ CursorSession = made

=============================================================================
