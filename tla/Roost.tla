------------------------------- MODULE Roost -------------------------------
(***************************************************************************)
(* The daemon's core: the pure reducer over sessions and their frame       *)
(* stacks, the runtime's belief about what is resident in pane 0.1, and    *)
(* the tmux panes themselves.                                              *)
(*                                                                         *)
(* One event loop goroutine takes an event, replaces the state by what     *)
(* Reduce returns and executes the effects in order, all before the next   *)
(* event: every handler is one action.  What runs beside the loop is an    *)
(* action of its own: the goroutine that spawns a window, the worker that  *)
(* runs a setup job, the fast liveness probe, and the processes that exit. *)
(***************************************************************************)
EXTENDS Stage

CONSTANTS
    Backlog,         \* bound: commands, ticks and the probe act only while
                     \* fewer events than this wait in the channel
    Mortal,          \* panes whose process may exit
    ParkedMainExits, \* may the main TUI exit outside 0.1 and __hidden__.0 ?
    SpawnMayFail,    \* may tmux refuse a new window ?
    SetupJobs        \* do drivers ask for a setup job (managed worktree) ?

ASSUME FaultsAssumption ==
    /\ Backlog \in Nat /\ Mortal \subseteq Pane
    /\ {ParkedMainExits, SpawnMayFail, SetupJobs} \subseteq BOOLEAN

VARIABLES
    st,        \* state.State: Sessions, ActiveSession, ActiveOccupant
    rt,        \* runtime.Runtime: sessionPanes, residency, event queue, slots
    exited,    \* panes whose process has exited
    prog,      \* the program each pane was last started with
    spawning,  \* frames whose spawnTmuxWindowAsync goroutine is running
    pending,   \* PendingCreates: frame |-> the session value put aside for it
    probe,     \* the fast probe in flight: its owner snapshot and its finding
    reply,     \* the reply owed to the client that asked for the frame
    born       \* session ids handed out so far

vars == <<st, rt, exited, prog, spawning, pending, probe, reply, born>>
-----------------------------------------------------------------------------
(* What several handlers do to the state.                                  *)

Focus(s) == [st EXCEPT !.occupant = "frame", !.focus = s]

\* Mutant: the focus stays on the session that is deleted.
Dropped_KeepsFocus(s) == [st EXCEPT !.sess[s] = NoSession]

\* delete(s.Sessions, sid), and the focus with it.
Dropped(s) ==
    [st EXCEPT !.sess[s] = NoSession,
               !.focus = IF @ = s THEN None ELSE @,
               !.occupant = IF st.focus = s /\ @ = "frame" THEN "main" ELSE @]

\* Mutant: the log TUI is left in 0.1.
EnsureMainAtVisibleSlot_Skipped(r) == r

\* ensureMainAtVisibleSlot
EnsureMainAtVisibleSlot(r) == IF st.occupant = "log" THEN SwapHidden(r) ELSE r
-----------------------------------------------------------------------------
(* Init: the daemon after a start with no sessions; 0.1 shows the main TUI. *)

Init ==
    /\ st = [sess |-> [s \in Session |-> NoSession], focus |-> None,
             occupant |-> "main"]
    /\ rt = [panes |-> {}, resident |-> None, act |-> None, ch |-> <<>>,
             slot |-> [w \in Pane |-> IF w \in {Main, Log} THEN w ELSE None]]
    /\ exited = {}
    /\ prog = [p \in Pane |-> IF p = Main THEN "main"
                              ELSE IF p = Log THEN "log" ELSE "agent"]
    /\ spawning = [f \in Frame |-> None]
    /\ pending = [f \in Frame |-> [sess |-> None, snap |-> NoSession]]
    /\ probe = [owner |-> None, dead |-> FALSE]
    /\ reply = [f \in Frame |-> "none"]
    /\ born = {}

Fresh(f) == reply[f] = "none"
Idle == UNCHANGED <<exited, prog, probe>>
Asked(f) == reply' = [reply EXCEPT ![f] = "owed"]
StartSpawn(s, f) == spawning' = [spawning EXCEPT ![f] = s]
PutAside(f, s, x) == pending' = [pending EXCEPT ![f] = [sess |-> s, snap |-> x]]
-----------------------------------------------------------------------------
(* Client commands.  A command waits in the same channel as the events     *)
(* below; it is taken here to be handled at any moment, as it may be when  *)
(* it was sent early enough.                                               *)

Room == Len(rt.ch) < Backlog

\* reduceCreateSession: the session is in the map at once, or, behind a setup
\* job, only when the job is done.
CreateSession(s, f) ==
    /\ Room /\ s \notin born /\ Fresh(f)
    /\ born' = born \cup {s} /\ Asked(f)
    /\ \/ /\ st' = [st EXCEPT !.sess[s] = NewSession(f)]
          /\ StartSpawn(s, f)
          /\ UNCHANGED pending
       \/ /\ SetupJobs
          /\ PutAside(f, s, NewSession(f))
          /\ UNCHANGED <<st, spawning>>
    /\ UNCHANGED rt /\ Idle

\* reducePushDriver: behind a setup job the value put aside is the whole
\* session as it is now.
PushDriver(s, f) ==
    /\ Room /\ s \in Live(st.sess) /\ Fresh(f)
    /\ Asked(f)
    /\ st' = [st EXCEPT !.sess[s] = Pushed(@, f)]
    /\ \/ StartSpawn(s, f) /\ UNCHANGED pending
       \/ SetupJobs /\ PutAside(f, s, st'.sess[s]) /\ UNCHANGED spawning
    /\ UNCHANGED <<rt, born>> /\ Idle

\* Mutant: 0.1 is not given back before the windows are killed.
RemoveSession_NoDeactivate(s, r, kill) ==
    /\ st' = Dropped(s)
    /\ rt' = Forget(r, ToSet(st.sess[s].frames), kill)

\* Which session is removed decides whether 0.1 must be given back first.
RemoveSession(s, r, kill) ==
    LET shown == st.focus = s /\ st.occupant = "frame"
    IN  /\ st' = Dropped(s)
        /\ rt' = Forget(IF shown THEN DeactivateSession(r) ELSE r,
                        ToSet(st.sess[s].frames), kill)

\* reduceStopSession
StopSession(s) ==
    /\ Room /\ s \in Live(st.sess)
    /\ RemoveSession(s, rt, TRUE)
    /\ UNCHANGED <<spawning, pending, reply, born>> /\ Idle

\* reduceSwitchSession, reducePreviewSession and activate-occupant "frame":
\* the requested frame id of the last one is only checked to exist.
SwitchSession(s) ==
    /\ Room /\ s \in Live(st.sess)
    /\ st' = Focus(s)
    /\ rt' = ActivateSession(EnsureMainAtVisibleSlot(rt), st.sess, s)
    /\ UNCHANGED <<spawning, pending, reply, born>> /\ Idle

\* reducePreviewProject
PreviewProject ==
    /\ Room
    /\ st' = [st EXCEPT !.focus = None,
                        !.occupant = IF @ = "frame" THEN "main" ELSE @]
    /\ rt' = IF st.occupant = "frame" THEN DeactivateSession(rt) ELSE rt
    /\ UNCHANGED <<spawning, pending, reply, born>> /\ Idle

\* reduceActivateFrame
ActivateFrame(s, f) ==
    LET x == st.sess[s]
        y == IF x.act = f THEN x ELSE [PushMRU(x, x.act) EXCEPT !.act = f]
        focused == st.focus = s
    IN  /\ Room /\ s \in Live(st.sess) /\ Owns(x, f)
        /\ x.act # f \/ (focused /\ st.occupant # "frame")
        /\ st' = [(IF focused THEN Focus(s) ELSE st) EXCEPT !.sess[s] = y]
        /\ rt' = IF focused
                 THEN ActivateSession(EnsureMainAtVisibleSlot(rt), st'.sess, s)
                 ELSE rt
        /\ UNCHANGED <<spawning, pending, reply, born>> /\ Idle

\* reduceActivateOccupantSlot
ActivateOccupant(kind) ==
    LET left == IF st.occupant = "frame" THEN DeactivateSession(rt) ELSE rt
        now == IF st.occupant = "frame" THEN "main" ELSE st.occupant
    IN  /\ Room
        /\ st' = [st EXCEPT !.occupant = kind]
        /\ rt' = IF now # kind THEN SwapHidden(left) ELSE left
        /\ UNCHANGED <<spawning, pending, reply, born>> /\ Idle
-----------------------------------------------------------------------------
(* Events taken from the channel.                                          *)

Next1(type) == rt.ch # <<>> /\ Head(rt.ch).type = type
Popped == [rt EXCEPT !.ch = Tail(@)]

\* reduceTmuxPaneSpawned: a pane whose session or frame is gone by now is
\* ignored, without a reply.
HandlePaneSpawned ==
    LET e == Head(rt.ch)
        s == e.sess
        r == [Popped EXCEPT !.panes = @ \cup {e.frame}]
    IN  /\ Next1("spawned")
        /\ IF Owns(st.sess[s], e.frame)
           THEN /\ st' = Focus(s)
                /\ rt' = ActivateSession(EnsureMainAtVisibleSlot(r), st.sess, s)
                /\ reply' = [reply EXCEPT ![e.frame] = "ok"]
           ELSE rt' = Popped /\ UNCHANGED <<st, reply>>
        /\ UNCHANGED <<spawning, pending, born>> /\ Idle

\* reduceTmuxSpawnFailed: the frame and every frame above it leave the stack.
HandleSpawnFailed ==
    LET e == Head(rt.ch)
    IN  /\ Next1("spawnFailed")
        /\ st' = IF Owns(st.sess[e.sess], e.frame)
                 THEN [st EXCEPT !.sess[e.sess] = Truncated(@, e.frame)]
                 ELSE st
        /\ rt' = Popped
        /\ reply' = [reply EXCEPT ![e.frame] = "error"]
        /\ UNCHANGED <<spawning, pending, born>> /\ Idle

\* evictFrame: the death of a root frame ends its session, the death of a
\* child removes that frame alone and falls back if it was the active one.
EvictFrame(f, r, kill) ==
    \/ /\ \A s \in Session : ~Owns(st.sess[s], f)
       /\ st' = st /\ rt' = r
    \/ \E s \in Session :
       /\ Owns(st.sess[s], f)
       /\ IF st.sess[s].frames[1] = f
          THEN RemoveSession(s, r, kill)
          ELSE LET y == Without(st.sess[s], f)
                   reshow == st.focus = s /\ st.sess[s].act = f
               IN  /\ st' = [(IF reshow THEN Focus(s) ELSE st)
                               EXCEPT !.sess[s] = y]
                   /\ rt' = Forget(
                        IF reshow
                        THEN ActivateSession(EnsureMainAtVisibleSlot(r),
                                             st'.sess, s)
                        ELSE r, {f}, kill)

\* reduceTmuxWindowVanished
HandleWindowVanished ==
    /\ Next1("vanished")
    /\ EvictFrame(Head(rt.ch).frame, Popped, FALSE)
    /\ UNCHANGED <<spawning, pending, reply, born>> /\ Idle

\* EffRespawnPane (respawn-pane -k) of whatever pane is in slot w.
Respawn(w, name) ==
    /\ exited' = exited \ {rt.slot[w]}
    /\ prog' = [prog EXCEPT ![rt.slot[w]] = name]
    /\ rt' = Popped
    /\ UNCHANGED st

\* reducePaneDied: a TUI is respawned by what the slot should hold; a frame is
\* evicted, the runtime's owner or else the focused session's active frame.
HandlePaneDied ==
    LET e == Head(rt.ch)
        owner == IF e.frame # None THEN e.frame
                 ELSE IF st.focus # None /\ st.focus \in Live(st.sess)
                      THEN ActiveFrame(st.sess[st.focus]) ELSE None
    IN  /\ Next1("died")
        /\ IF e.slot = Log THEN Respawn(Log, "log")
           ELSE IF st.occupant # "frame" THEN Respawn(Main, st.occupant)
           ELSE /\ IF owner = None THEN st' = st /\ rt' = Popped
                   ELSE EvictFrame(owner, Popped, TRUE)
                /\ UNCHANGED <<exited, prog>>
        /\ UNCHANGED <<spawning, pending, probe, reply, born>>
-----------------------------------------------------------------------------
(* Worker results: reduceJobResult, handlePendingCreate.                   *)

\* CompleteCreate accepts the result: the session put aside replaces whatever
\* the map holds by now, and the window is spawned.
JobSucceeds(f) ==
    LET p == pending[f]
    IN  /\ p.sess # None
        /\ st' = [st EXCEPT !.sess[p.sess] = p.snap]
        /\ StartSpawn(p.sess, f)
        /\ PutAside(f, None, NoSession)
        /\ UNCHANGED <<rt, reply, born>> /\ Idle

\* It returns an error: the client is told, and nothing else happens.
JobFails(f) ==
    /\ pending[f].sess # None
    /\ PutAside(f, None, NoSession)
    /\ reply' = [reply EXCEPT ![f] = "error"]
    /\ UNCHANGED <<st, rt, spawning, born>> /\ Idle
-----------------------------------------------------------------------------
(* The goroutine of spawnTmuxWindowAsync.                                  *)

SpawnWindow(f) ==
    /\ spawning[f] # None
    /\ rt' = Enqueue([rt EXCEPT !.slot[f] = f], <<Spawned(spawning[f], f)>>)
    /\ StartSpawn(None, f)
    /\ UNCHANGED <<st, pending, reply, born>> /\ Idle

\* SpawnWindow fails in new-window, or after it in set-option: then the window
\* exists although its pane is reported as failed.
SpawnWindowFails(f) ==
    /\ SpawnMayFail /\ spawning[f] # None
    /\ \E w \in {f, None} :
         rt' = Enqueue([rt EXCEPT !.slot[f] = w], <<SpawnFailed(spawning[f], f)>>)
    /\ StartSpawn(None, f)
    /\ UNCHANGED <<st, pending, reply, born>> /\ Idle
-----------------------------------------------------------------------------
(* Ticks, the fast probe, and the processes.                               *)

Dead(w) == rt.slot[w] \in exited

\* reconcileWindows looks at every registered frame but the resident one.  A
\* pane that is gone makes PaneAlive fail and is skipped; one that exited in
\* 0.1 and was parked since is dead.
DeadParked == {f \in rt.panes \ {rt.act} : Placed(rt.slot, f) /\ f \in exited}

\* EvTick: 0.1 is checked on every tick; __hidden__.0 and the windows on every
\* fifth, the windows in map order.
Tick(fifth, order) ==
    LET shown == IF Dead(Main) THEN <<Died(Main, rt.act)>> ELSE <<>>
        hidden == IF fifth /\ Dead(Log) THEN <<Died(Log, None)>> ELSE <<>>
        gone == [i \in DOMAIN order |-> Vanished(order[i])]
    IN  /\ Room
        /\ shown \o hidden \o gone # <<>>
        /\ rt' = Enqueue(rt, shown \o hidden \o gone)
        /\ UNCHANGED <<st, spawning, pending, reply, born>> /\ Idle

EveryTick == Tick(FALSE, <<>>)
FifthTick == \E order \in SetToSeqs(DeadParked) : Tick(TRUE, order)

\* scheduleActiveFramePaneProbe: the owner is read on the loop, the liveness of
\* 0.1 in a goroutine, and the death reported by it later still.
ProbeStart ==
    /\ probe.owner = None /\ rt.act # None
    /\ probe' = [owner |-> rt.act, dead |-> FALSE]
    /\ UNCHANGED <<st, rt, exited, prog, spawning, pending, reply, born>>

ProbeRead ==
    /\ probe.owner # None /\ ~probe.dead
    /\ probe' = IF Dead(Main) THEN [probe EXCEPT !.dead = TRUE]
                ELSE [owner |-> None, dead |-> FALSE]
    /\ UNCHANGED <<st, rt, exited, prog, spawning, pending, reply, born>>

ProbeReport ==
    /\ probe.dead /\ Room
    /\ rt' = Enqueue(rt, <<Died(Main, probe.owner)>>)
    /\ probe' = [owner |-> None, dead |-> FALSE]
    /\ UNCHANGED <<st, exited, prog, spawning, pending, reply, born>>

\* A process exits.  Slots Main and Log have remain-on-exit on and keep the
\* dead pane; in any other window tmux destroys it.
ProcessExit(p) ==
    LET kept == {rt.slot[Main], rt.slot[Log]}
    IN  /\ p \in Mortal \ exited /\ Placed(rt.slot, p)
        /\ p = Main /\ ~ParkedMainExits => Main \in kept
        /\ exited' = exited \cup {p}
        /\ rt' = IF p \in kept THEN rt
                 ELSE [rt EXCEPT !.slot = [w \in Pane |->
                         IF rt.slot[w] = p THEN None ELSE rt.slot[w]]]
        /\ UNCHANGED <<st, prog, spawning, pending, probe, reply, born>>
-----------------------------------------------------------------------------
HandleEvent ==
    \/ HandlePaneSpawned
    \/ HandleSpawnFailed
    \/ HandleWindowVanished
    \/ HandlePaneDied

Command ==
    \/ \E s \in Session, f \in Frame :
         CreateSession(s, f) \/ PushDriver(s, f) \/ ActivateFrame(s, f)
    \/ \E s \in Session : StopSession(s) \/ SwitchSession(s)
    \/ PreviewProject
    \/ \E kind \in {"main", "log"} : ActivateOccupant(kind)

Background ==
    \/ \E f \in Frame : JobSucceeds(f) \/ JobFails(f)
    \/ \E f \in Frame : SpawnWindow(f) \/ SpawnWindowFails(f)
    \/ EveryTick \/ FifthTick
    \/ ProbeStart \/ ProbeRead \/ ProbeReport

Next == HandleEvent \/ Command \/ Background \/ \E p \in Pane : ProcessExit(p)

Spec == Init /\ [][Next]_vars

\* The loop drains its channel, the tickers fire, goroutines and jobs finish.
\* Clients owe nothing, and no process ever has to exit.
Fairness ==
    /\ WF_vars(HandleEvent)
    /\ WF_vars(EveryTick) /\ WF_vars(FifthTick)
    /\ \A f \in Frame : WF_vars(JobSucceeds(f) \/ JobFails(f))
                        /\ WF_vars(SpawnWindow(f) \/ SpawnWindowFails(f))
    /\ WF_vars(ProbeRead) /\ WF_vars(ProbeReport)

FairSpec == Spec /\ Fairness
-----------------------------------------------------------------------------
(* Properties.                                                             *)

TypeOK ==
    /\ st \in StType
    /\ \A s \in Session : SessionOK(st.sess[s])
    /\ rt \in RtType /\ Len(rt.ch) <= QueueCap
    /\ exited \subseteq Pane
    /\ prog \in [Pane -> {"main", "log", "agent"}]
    /\ spawning \in [Frame -> Session \cup {None}]
    /\ pending \in [Frame -> [sess : Session \cup {None}, snap : SessionRec]]
    /\ \A f \in Frame : SessionOK(pending[f].snap)
    /\ probe \in [owner : Frame \cup {None}, dead : BOOLEAN]
    /\ reply \in [Frame -> {"none", "owed", "ok", "error"}]
    /\ born \subseteq Session

\* What the runtime believes is in 0.1 is there: a frame it recorded as
\* resident, and otherwise one of the two TUIs.
ResidentTruth ==
    /\ rt.act = None <=> rt.resident = None
    /\ rt.act # None => rt.slot[Main] = rt.act
    /\ rt.act = None => rt.slot[Main] \in {Main, Log}

\* ActiveOccupant tells which TUI is where: the reducer decides with it which
\* program to respawn in 0.1, and swapHidden trusts it blindly.
OccupantTruth ==
    /\ st.occupant = "log" => rt.slot[Main] = Log /\ rt.slot[Log] = Main
    /\ st.occupant = "main" => rt.slot[Main] = Main
    /\ st.occupant # "log" => rt.slot[Log] = Log

\* No swap or kill loses a TUI or shows a pane twice, and 0.1 is never empty.
OnePlace ==
    /\ \A v, w \in Pane : rt.slot[v] = rt.slot[w] /\ v # w => rt.slot[v] = None
    /\ Placed(rt.slot, Main) /\ Placed(rt.slot, Log)
    /\ rt.slot[Main] # None

\* The focused session is in the map, and a frame is said to be shown only for
\* a focused session (the "required" of ActiveSession's comment).
FocusValid ==
    /\ st.focus \in Live(st.sess) \cup {None}
    /\ st.occupant = "frame" => st.focus # None

\* A frame of the map is waiting for its job, its window or its event, or it
\* has a registered pane; and a registered pane belongs to a frame of the map.
Queued(f) == \E i \in DOMAIN rt.ch :
                rt.ch[i].type \in {"spawned", "spawnFailed"} /\ rt.ch[i].frame = f
Coming(f) == pending[f].sess # None \/ spawning[f] # None \/ Queued(f)
InMap(f) == \E s \in Session : Owns(st.sess[s], f)
FramesAccounted ==
    \A f \in Frame : /\ InMap(f) => (Coming(f) \/ f \in rt.panes)
                     /\ f \in rt.panes => InMap(f)

\* Once nothing is under way, the frame that is said to be shown is shown.
Settled == rt.ch = <<>> /\ \A f \in Frame : ~Coming(f)
SettledShowsFocus ==
    Settled /\ st.occupant = "frame" => rt.act = ActiveFrame(st.sess[st.focus])

\* A session's root frame never changes while the session lives.
RootIsForLife ==
    [][\A s \in Live(st.sess) \cap Live(st'.sess) :
         st'.sess[s].frames[1] = st.sess[s].frames[1]]_vars

\* A frame that died in 0.1 leaves it.
DeadFrameLeaves ==
    \A f \in Frame : (rt.slot[Main] = f /\ f \in exited) ~> (rt.slot[Main] # f)

\* A client that asked for a frame is answered, unless the frame was removed
\* in the meantime.
RequestAnswered ==
    \A f \in Frame : reply[f] = "owed" ~> (reply[f] # "owed" \/ ~InMap(f))
=============================================================================
