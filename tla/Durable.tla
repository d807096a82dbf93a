------------------------------ MODULE Durable ------------------------------
(***************************************************************************)
(* Crashes and restarts.  What outlives the daemon is in three places: one *)
(* file per session, the tmux environment that maps frames to panes, and   *)
(* the panes themselves.  A handler's effects change them one by one, so   *)
(* here a handler only puts its effects into todo, each effect is a step,  *)
(* and the daemon, or the machine, may stop between any two of them and in *)
(* the middle of a save.                                                   *)
(*                                                                         *)
(* A start finds tmux alive (warm) or not (cold); its steps are effects    *)
(* like any other, and it may be cut short too.                            *)
(***************************************************************************)
EXTENDS Stage

CONSTANTS
    MaxStarts,     \* bound: starts of the daemon, the first one included
    SaveMayFail,   \* may a save end with an error ?
    SpawnMayFail   \* may tmux refuse a new window ?

ASSUME RestartsAssumption ==
    MaxStarts \in Nat \ {0} /\ {SaveMayFail, SpawnMayFail} \subseteq BOOLEAN

VARIABLES
    st,        \* state.State: Sessions, ActiveSession, ActiveOccupant
    rt,        \* runtime.Runtime, with tmux's slots, which outlive it
    todo,      \* effects of the handler or of the start that are still to run
    phase,     \* "down", starting ("warm", "cold") or "up": in the event loop
    spawning,  \* frames whose spawnTmuxWindowAsync goroutine is running
    exited,    \* panes whose process has exited
    disk,      \* the session files; NoSession where there is none
    known,     \* lastKnownIDs of FilePersist; nil is {None}
    env,       \* frames with a ROOST_FRAME_<id> variable (its value is the pane)
    born,      \* session and frame ids handed out so far
    kept,      \* sessions promised to a client, and not removed since
    excused,   \* sessions that a failed save or a crash in a cold start lost
    starts,    \* starts so far
    orphaned,  \* are there TUIs whose daemon is gone, and which have not quit yet ?
    lost       \* has one of them quit while it was parked in a frame's window ?

mem == <<st, phase, spawning>>
tuis == <<orphaned, lost>>
ghosts == <<born, excused, starts, tuis>>
vars == <<st, rt, todo, phase, spawning, exited, disk, known, env, born, kept,
          excused, starts, tuis>>

NoSessions == [s \in Session |-> NoSession]
NoSpawns == [f \in Frame |-> None]
Empty == [sess |-> NoSessions, focus |-> None, occupant |-> "main"]

\* The runtime of a new process: it knows nothing of the slots it finds.
Blank(slot, panes) ==
    [panes |-> panes, resident |-> None, act |-> None, ch |-> <<>>, slot |-> slot]

AtHome == [w \in Pane |-> IF w \in {Main, Log} THEN w ELSE None]
NoTmux == [w \in Pane |-> None]

Init ==
    /\ st = Empty /\ rt = Blank(AtHome, {}) /\ todo = <<>> /\ phase = "up"
    /\ spawning = NoSpawns /\ exited = {}
    /\ disk = NoSessions /\ known = {None} /\ env = {}
    /\ born = {} /\ kept = {} /\ excused = {} /\ starts = 1
    /\ orphaned = FALSE /\ lost = FALSE
-----------------------------------------------------------------------------
(* Handlers: the state changes at once, the effects are put into todo in   *)
(* the order in which the reducer returns them.  Effects on neither tmux,  *)
(* the environment nor the files are left out.                             *)

Eff(op, arg) == [op |-> op, arg |-> arg]
Persist == <<Eff("persist", None)>>

Idle == phase = "up" /\ todo = <<>>

\* Bound: the channel has room for what a handler and the goroutines add, so
\* that Enqueue drops nothing here (Roost is about that).
Room == Len(rt.ch) + Cardinality({f \in Frame : spawning[f] # None}) < QueueCap

\* The part of a handler all have in common.
Reduced(new, effs) ==
    /\ st' = new /\ todo' = effs
    /\ UNCHANGED <<phase, exited, disk, known, env, excused, starts, tuis>>

FocusOn(s) == [st EXCEPT !.occupant = "frame", !.focus = s]
Removed(s) ==
    [st EXCEPT !.sess[s] = NoSession,
               !.focus = IF @ = s THEN None ELSE @,
               !.occupant = IF st.focus = s /\ @ = "frame" THEN "main" ELSE @]

\* ensureMainAtVisibleSlot, and the frame that is shown then.
Show(s) ==
    (IF st.occupant = "log" THEN <<Eff("swap", None)>> ELSE <<>>)
      \o <<Eff("activate", s)>>

Discard(f, kill) ==
    (IF kill THEN <<Eff("kill", f)>> ELSE <<>>) \o <<Eff("unregister", f)>>

\* The session's frames go, after 0.1 was given back if it shows one of them.
Clear(s, kill) ==
    LET x == st.sess[s]
    IN  (IF st.focus = s /\ st.occupant = "frame"
         THEN <<Eff("deactivate", None)>> ELSE <<>>)
          \o FlattenSeq([i \in DOMAIN x.frames |-> Discard(x.frames[i], kill)])
          \o Persist

Begin(s, f) ==
    /\ Idle /\ Room /\ f \notin born
    /\ spawning' = [spawning EXCEPT ![f] = s]
    /\ born' = born \cup {s, f}
    /\ UNCHANGED <<rt, kept>>

\* reduceCreateSession, reducePushDriver: nothing is saved yet.
CreateSession(s, f) ==
    /\ s \notin born /\ Begin(s, f)
    /\ Reduced([st EXCEPT !.sess[s] = NewSession(f)], <<>>)

PushDriver(s, f) ==
    /\ s \in Live(st.sess) /\ Begin(s, f)
    /\ Reduced([st EXCEPT !.sess[s] = Pushed(@, f)], <<>>)

Command(new, effs) ==
    /\ Idle /\ Room /\ Reduced(new, effs)
    /\ UNCHANGED <<rt, spawning, born>>

StopSession(s) ==
    /\ s \in Live(st.sess)
    /\ Command(Removed(s), Clear(s, TRUE))
    /\ kept' = kept \ {s}

SwitchSession(s) ==
    /\ s \in Live(st.sess)
    /\ Command(FocusOn(s), Show(s))
    /\ UNCHANGED kept

\* reduceActivateFrame: saved before the swap, when the frame changes.
ActivateFrame(s, f) ==
    LET x == st.sess[s]
        changed == x.act # f
        y == IF changed THEN [PushMRU(x, x.act) EXCEPT !.act = f] ELSE x
        focused == st.focus = s
    IN  /\ s \in Live(st.sess) /\ Owns(x, f)
        /\ changed \/ (focused /\ st.occupant # "frame")
        /\ Command([(IF focused THEN FocusOn(s) ELSE st) EXCEPT !.sess[s] = y],
                   (IF changed THEN Persist ELSE <<>>)
                     \o (IF focused THEN Show(s) ELSE <<>>))
        /\ UNCHANGED kept

\* reduceActivateOccupantSlot
ActivateOccupant(kind) ==
    LET shown == st.occupant = "frame"
        now == IF shown THEN "main" ELSE st.occupant
    IN  /\ Command([st EXCEPT !.occupant = kind],
                   (IF shown THEN <<Eff("deactivate", None)>> ELSE <<>>)
                     \o (IF now # kind THEN <<Eff("swap", None)>> ELSE <<>>))
        /\ UNCHANGED kept

\* Any event that changes a driver ends with a save, and so does a detach.
DriverStep == Command(st, Persist) /\ UNCHANGED kept

\* reduceShutdown
Shutdown ==
    /\ starts < MaxStarts
    /\ Command(st, Persist \o <<Eff("killSession", None)>>) /\ UNCHANGED kept
-----------------------------------------------------------------------------
(* Events.                                                                 *)

\* Mutant: the client is answered before the session is saved.
SpawnedEffects_AnswerFirst(s, f) ==
    <<Eff("register", f)>> \o Show(s) \o <<Eff("answer", f)>> \o Persist

\* What reduceTmuxPaneSpawned returns.
SpawnedEffects(s, f) ==
    <<Eff("register", f)>> \o Show(s) \o Persist \o <<Eff("answer", f)>>

Event1(type) == Idle /\ rt.ch # <<>> /\ Head(rt.ch).type = type
Pop == rt' = [rt EXCEPT !.ch = Tail(@)] /\ UNCHANGED <<spawning, born>>

HandlePaneSpawned ==
    LET e == Head(rt.ch)
    IN  /\ Event1("spawned") /\ Pop
        /\ IF Owns(st.sess[e.sess], e.frame)
           THEN Reduced(FocusOn(e.sess), SpawnedEffects(e.sess, e.frame))
           ELSE Reduced(st, <<>>)
        /\ UNCHANGED kept

HandleSpawnFailed ==
    LET e == Head(rt.ch)
        owned == Owns(st.sess[e.sess], e.frame)
        x == Truncated(st.sess[e.sess], e.frame)
    IN  /\ Event1("spawnFailed") /\ Pop
        /\ Reduced(IF owned THEN [st EXCEPT !.sess[e.sess] = x] ELSE st, <<>>)
        /\ kept' = IF owned /\ x = NoSession THEN kept \ {e.sess} ELSE kept

\* evictFrame: a root takes its session with it, a child goes alone.
Evict(f, kill) ==
    \/ (\A s \in Session : ~Owns(st.sess[s], f)) /\ Reduced(st, <<>>) /\ kept' = kept
    \/ \E s \in Session :
       /\ Owns(st.sess[s], f)
       /\ IF st.sess[s].frames[1] = f
          THEN Reduced(Removed(s), Clear(s, kill)) /\ kept' = kept \ {s}
          ELSE LET x == st.sess[s]
                   reshow == st.focus = s /\ x.act = f
               IN  /\ Reduced([(IF reshow THEN FocusOn(s) ELSE st)
                                 EXCEPT !.sess[s] = Without(x, f)],
                              (IF reshow THEN Show(s) ELSE <<>>)
                                \o Discard(f, kill) \o Persist)
                   /\ kept' = kept

HandleWindowVanished == Event1("vanished") /\ Pop /\ Evict(Head(rt.ch).frame, FALSE)

\* reconcileWindows, for a pane that died in 0.1 and was parked since.
ReapParked(f) ==
    /\ Idle /\ Room /\ f \in (rt.panes \cap exited) \ {rt.act} /\ Placed(rt.slot, f)
    /\ Evict(f, FALSE)
    /\ UNCHANGED <<rt, spawning, born>>

\* reducePaneDied, of the agent in 0.1; how its owner is found is not the subject here.
HandlePaneDied ==
    LET shown == IF st.focus \in Live(st.sess)
                 THEN ActiveFrame(st.sess[st.focus]) ELSE None
        owner == IF rt.act # None THEN rt.act ELSE shown
    IN  /\ Idle /\ Room /\ rt.slot[Main] \in exited /\ st.occupant = "frame" /\ owner # None
        /\ Evict(owner, TRUE)
        /\ UNCHANGED <<rt, spawning, born>>

\* While no frame is shown, what died in 0.1 is taken for a TUI and started anew.
RespawnOccupant ==
    /\ Idle /\ rt.slot[Main] \in exited /\ st.occupant # "frame"
    /\ exited' = exited \ {rt.slot[Main]}
    /\ UNCHANGED <<mem, rt, todo, disk, known, env, kept, ghosts>>

\* The goroutine of spawnTmuxWindowAsync runs beside the effects.
SpawnWindow(f) ==
    /\ phase = "up" /\ spawning[f] # None
    /\ \/ rt' = Enqueue([rt EXCEPT !.slot[f] = f], <<Spawned(spawning[f], f)>>)
       \/ /\ SpawnMayFail
          /\ \E w \in {f, None} :
               rt' = Enqueue([rt EXCEPT !.slot[f] = w],
                             <<SpawnFailed(spawning[f], f)>>)
    /\ spawning' = [spawning EXCEPT ![f] = None]
    /\ UNCHANGED <<st, todo, phase, exited, disk, known, env, kept, ghosts>>

\* An agent exits, whether or not the daemon is there to see it.
ProcessExit(f) ==
    /\ f \notin exited /\ Placed(rt.slot, f)
    /\ exited' = exited \cup {f}
    /\ rt' = IF f \in {rt.slot[Main], rt.slot[Log]} THEN rt
             ELSE [rt EXCEPT !.slot = [w \in Pane |->
                     IF rt.slot[w] = f THEN None ELSE rt.slot[w]]]
    /\ UNCHANGED <<mem, todo, disk, known, env, kept, ghosts>>
-----------------------------------------------------------------------------
(* Effects, one at a time.                                                 *)

Head1(op) == phase # "down" /\ todo # <<>> /\ Head(todo).op = op
Arg == Head(todo).arg
Rest == todo' = Tail(todo)

\* swapHidden, which fails when the hidden window is gone.
SwapOccupant(r) == IF r.slot[Log] = None THEN r ELSE SwapHidden(r)

\* Effects on panes only.
DoPane ==
    /\ \/ /\ Head1("kill")
          /\ rt' = [rt EXCEPT !.slot = KillPaneWindows(@, {Arg} \cap rt.panes)]
       \/ Head1("activate") /\ rt' = ActivateSession(rt, st.sess, Arg)
       \/ Head1("deactivate") /\ rt' = DeactivateSession(rt)
       \/ Head1("swap") /\ rt' = SwapOccupant(rt)
    /\ Rest
    /\ UNCHANGED <<mem, exited, disk, known, env, kept, ghosts>>

DoRegister ==
    /\ Head1("register") /\ Rest
    /\ rt' = [rt EXCEPT !.panes = @ \cup {Arg}]
    /\ env' = env \cup {Arg}
    /\ UNCHANGED <<mem, exited, disk, known, kept, ghosts>>

\* Mutant: the environment keeps the frame.
DoUnregister_KeepsEnv ==
    /\ Head1("unregister") /\ Rest
    /\ rt' = [rt EXCEPT !.panes = @ \ {Arg}]
    /\ UNCHANGED <<mem, exited, disk, known, env, kept, ghosts>>

DoUnregister ==
    /\ Head1("unregister") /\ Rest
    /\ rt' = [rt EXCEPT !.panes = @ \ {Arg}]
    /\ env' = env \ ({Arg} \cap rt.panes)
    /\ UNCHANGED <<mem, exited, disk, known, kept, ghosts>>

\* The client is told that its session, or the frame pushed on it, exists.
DoAnswer ==
    /\ Head1("answer") /\ Rest
    /\ kept' = kept \cup {s \in Live(st.sess) : st.sess[s].frames[1] = Arg}
    /\ UNCHANGED <<mem, rt, exited, disk, known, env, ghosts>>

\* Save, when it has written the sessions of W and removed the files of P.
Saved(W, P) ==
    [s \in Session |-> IF s \in W THEN st.sess[s]
                       ELSE IF s \in P THEN NoSession ELSE disk[s]]

\* pruneObsolete runs on the first save, and when a known session is gone.
Obsolete ==
    IF known \subseteq Live(st.sess) THEN {} ELSE Session \ Live(st.sess)

\* A save that stops on the way: the files are written in map order, each by a
\* rename, and none is removed before all are written.
Interrupted == {Saved(W, {}) : W \in SUBSET Live(st.sess)}
                 \cup {Saved(Live(st.sess), P) : P \in SUBSET Obsolete}

DoSave ==
    /\ Head1("persist") /\ Rest
    /\ disk' = Saved(Live(st.sess), Obsolete)
    /\ known' = Live(st.sess)
    /\ UNCHANGED <<mem, rt, exited, env, kept, ghosts>>

\* A write fails; the error is logged and the next effect runs.
SaveFails ==
    /\ SaveMayFail
    /\ Head1("persist") /\ Rest
    /\ disk' \in {Saved(W, {}) : W \in SUBSET Live(st.sess) \ {Live(st.sess)}}
    /\ excused' = excused \cup {s \in Live(st.sess) : disk'[s] = NoSession}
    /\ UNCHANGED <<mem, rt, exited, known, env, kept, born, starts, tuis>>
-----------------------------------------------------------------------------
(* The end of the daemon.                                                  *)

\* What is left of it.  Its connections are closed, and the TUIs that tmux still
\* runs will quit.
Stopped(slot) ==
    /\ rt' = Blank(slot, {}) /\ st' = Empty /\ todo' = <<>> /\ spawning' = NoSpawns
    /\ known' = {None} /\ phase' = "down"
    /\ orphaned' = (slot # NoTmux) /\ lost' = (lost /\ slot # NoTmux)

\* Attach returns, the loop is cancelled: deactivateBeforeExit.
Exit ==
    /\ Idle /\ starts < MaxStarts
    /\ Stopped(CASE rt.resident # None -> DeactivateSession(rt).slot
                 [] rt.resident = None /\ st.occupant = "log" -> SwapOccupant(rt).slot
                 [] OTHER -> rt.slot)
    /\ UNCHANGED <<exited, disk, env, kept, born, excused, starts>>

CutShort ==
    disk' \in IF todo # <<>> /\ Head(todo).op = "persist"
              THEN Interrupted ELSE {disk}

\* The daemon is killed.  What a cold start has not made anew by then is lost
\* to the warm start that follows.
Crash ==
    /\ phase # "down" /\ starts < MaxStarts
    /\ CutShort /\ Stopped(rt.slot)
    /\ excused' = excused \cup
         {s \in Live(st.sess) : phase = "cold" /\ st.sess[s].frames[1] \notin env}
    /\ UNCHANGED <<exited, env, kept, born, starts>>

\* The machine goes down, or the tmux server, and the daemon with it.
Reboot ==
    /\ rt.slot # NoTmux /\ starts < MaxStarts
    /\ CutShort /\ Stopped(NoTmux)
    /\ env' = {} /\ exited' = {}
    /\ UNCHANGED <<kept, born, excused, starts>>

\* EffKillSession: tmux and all in it go, attach returns and the loop ends.
DoKillSession ==
    /\ Head1("killSession")
    /\ Stopped(NoTmux)
    /\ env' = {} /\ exited' = {}
    /\ UNCHANGED <<disk, kept, born, excused, starts>>

\* A TUI whose connection is closed quits.  In window 0 and in the hidden window its
\* pane outlives it; a frame's window, where it is parked, goes with it.
TuiQuits ==
    LET parked == {w \in Frame : rt.slot[w] \in {Main, Log}}
    IN  /\ orphaned /\ orphaned' = FALSE
        /\ rt' = [rt EXCEPT !.slot = [w \in Pane |->
                    IF w \in parked THEN None ELSE rt.slot[w]]]
        /\ lost' = (lost \/ parked # {})
        /\ UNCHANGED <<mem, todo, exited, disk, known, env, kept, born, excused, starts>>
-----------------------------------------------------------------------------
(* A start.                                                                *)

Start(slot, panes, effs, kind) ==
    /\ phase = "down"
    /\ st' = [Empty EXCEPT !.sess = disk]
    /\ rt' = Blank(slot, panes)
    /\ todo' = effs /\ phase' = kind /\ starts' = starts + 1
    /\ UNCHANGED <<spawning, exited, disk, known, kept, born, excused, tuis>>

\* ensureHiddenWindow makes the hidden window anew, with a log TUI.
WithHidden(slot) == IF slot[Log] = None THEN [slot EXCEPT ![Log] = Log] ELSE slot

\* ensureHiddenWindow, LoadSnapshot, LoadSessionPanes.  Bound: no second log TUI is
\* made while the first is still in another window.
StartWarm ==
    /\ rt.slot # NoTmux
    /\ rt.slot[Log] = None => ~Placed(rt.slot, Log)
    /\ Start(WithHidden(rt.slot), env,
             <<Eff("recover", None), Eff("reconcile", None)>>, "warm")
    /\ UNCHANGED env

\* setupNewSession, LoadSnapshot, and RecreateAll in map order.
StartCold ==
    /\ rt.slot = NoTmux
    /\ \E order \in SetToSeqs(Live(disk)) :
         Start(AtHome, {},
               FlattenSeq([i \in DOMAIN order |->
                 [j \in DOMAIN disk[order[i]].frames |->
                    Eff("recreate", disk[order[i]].frames[j])]]),
               "cold")
    /\ UNCHANGED env

Holder(sess, f) ==
    IF \E s \in Session : Owns(sess[s], f)
    THEN CHOOSE s \in Session : Owns(sess[s], f) ELSE None

\* Mutant: the log TUI in 0.1 is taken for the main TUI.
DoRecover_NoLog ==
    LET p == rt.slot[Main]
        found == [rt EXCEPT !.resident = Holder(st.sess, p), !.act = p]
    IN  /\ Head1("recover") /\ Rest
        /\ rt' = IF p \in rt.panes
                 THEN [DeactivateSession(found) EXCEPT !.resident = None] ELSE rt
        /\ st' = st
        /\ UNCHANGED <<phase, spawning, exited, disk, known, env, kept, ghosts>>

\* Mutant: the frame found in 0.1 is left there.
DoRecover_NoSwap ==
    LET p == rt.slot[Main]
        found == [rt EXCEPT !.resident = Holder(st.sess, p), !.act = p]
    IN  /\ Head1("recover") /\ Rest
        /\ rt' = IF p \in rt.panes
                 THEN [DeactivateSession(found) EXCEPT !.slot = rt.slot] ELSE rt
        /\ st' = IF p = Log THEN [st EXCEPT !.occupant = "log"] ELSE st
        /\ UNCHANGED <<phase, spawning, exited, disk, known, env, kept, ghosts>>

\* RecoverActivePaneAtMain: the log TUI may be left in 0.1, a frame is swapped
\* out, or stays and counts as resident if the main TUI is lost.  swapMainIntoMain
\* does nothing, and says it did, when the frame is of no loaded session.
DoRecover ==
    LET p == rt.slot[Main]
        found == [rt EXCEPT !.resident = Holder(st.sess, p), !.act = p]
        back == DeactivateSession(found)
    IN  /\ Head1("recover") /\ Rest
        /\ st' = IF p = Log THEN [st EXCEPT !.occupant = "log"] ELSE st
        /\ rt' = IF p \in rt.panes THEN back ELSE rt
        /\ UNCHANGED <<phase, spawning, exited, disk, known, env, kept, ghosts>>

\* Mutant: a missing child frame stays in the stack.
Cut_RootOnly(x, panes) ==
    IF x.frames # <<>> /\ x.frames[1] \notin panes THEN NoSession ELSE x

\* The stack up to the first frame without a pane.
Cut(x, panes) ==
    LET missing == {i \in DOMAIN x.frames : x.frames[i] \notin panes}
    IN  IF missing = {} THEN x ELSE Truncated(x, x.frames[Min(missing)])

\* ReconcileOrphans: what is left in the pane map without a frame is unset one
\* by one; nothing is saved when no session is left.
DoReconcile ==
    LET cut == [s \in Session |-> Cut(st.sess[s], rt.panes)]
        stale == {f \in rt.panes : Holder(cut, f) = None}
    IN  /\ Head1("reconcile")
        /\ st' = [st EXCEPT !.sess = cut]
        /\ \E order \in SetToSeqs(stale) :
             todo' = [i \in DOMAIN order |-> Eff("unregister", order[i])]
                       \o (IF Live(cut) # {} THEN Persist ELSE <<>>)
        /\ UNCHANGED <<rt, phase, spawning, exited, disk, known, env, kept, ghosts>>

DoRecreate ==
    /\ Head1("recreate") /\ Rest
    /\ rt' = [rt EXCEPT !.slot[Arg] = Arg, !.panes = @ \cup {Arg}]
    /\ env' = env \cup {Arg}
    /\ UNCHANGED <<mem, exited, disk, known, kept, ghosts>>

\* RecreateAll gives the session up, and saves at the end; the windows of the
\* frames below are left as they are.
RecreateFails ==
    LET s == Holder(st.sess, Arg)
        Others(e) == IF e.op = "recreate" /\ ~Owns(st.sess[s], e.arg) THEN <<e>> ELSE <<>>
        others == FlattenSeq([i \in DOMAIN todo |-> Others(todo[i])])
    IN  /\ SpawnMayFail /\ Head1("recreate")
        /\ st' = [st EXCEPT !.sess[s] = NoSession]
        /\ todo' = others \o Persist
        /\ kept' = kept \ {s}
        /\ \E w \in {Arg, None} : rt' = [rt EXCEPT !.slot[Arg] = w]
        /\ UNCHANGED <<phase, spawning, exited, disk, known, env, ghosts>>

EnterLoop ==
    /\ phase \in {"warm", "cold"} /\ todo = <<>>
    /\ phase' = "up"
    /\ UNCHANGED <<st, rt, todo, spawning, exited, disk, known, env, kept, ghosts>>

\* RespawnMainPane and respawnHiddenPane, beside the loop: the TUIs are started anew
\* where they are.
RespawnMainPane ==
    /\ phase = "up" /\ orphaned
    /\ orphaned' = FALSE
    /\ UNCHANGED <<mem, rt, todo, exited, disk, known, env, kept, born, excused, starts, lost>>
-----------------------------------------------------------------------------
Commands ==
    \/ \E s \in Session, f \in Frame :
         CreateSession(s, f) \/ PushDriver(s, f) \/ ActivateFrame(s, f)
    \/ \E s \in Session : StopSession(s) \/ SwitchSession(s)
    \/ \E kind \in {"main", "log"} : ActivateOccupant(kind)
    \/ DriverStep \/ Shutdown

Events ==
    \/ HandlePaneSpawned \/ HandleSpawnFailed \/ HandleWindowVanished
    \/ HandlePaneDied \/ RespawnOccupant
    \/ \E f \in Frame : ReapParked(f) \/ SpawnWindow(f) \/ ProcessExit(f)

Effects ==
    \/ DoPane \/ DoRegister \/ DoUnregister \/ DoAnswer \/ DoSave \/ SaveFails
    \/ DoKillSession \/ DoRecover \/ DoReconcile \/ DoRecreate \/ RecreateFails

Restarts ==
    \/ Exit \/ Crash \/ Reboot \/ TuiQuits
    \/ StartWarm \/ StartCold \/ EnterLoop \/ RespawnMainPane

Next == Commands \/ Events \/ Effects \/ Restarts

Spec == Init /\ [][Next]_vars
-----------------------------------------------------------------------------
(* Properties.                                                             *)

\* A session a client was told of is in its file, whenever the daemon or the
\* machine stops, and it is there again after the next start: until somebody
\* stops it, its root dies, or its window cannot be made again.
SessionsPreserved ==
    \A s \in kept \ excused : /\ disk[s] # NoSession
                              /\ phase # "down" => s \in Live(st.sess)

\* Between two events every frame of the map has a registered pane, or one on
\* its way: also after a start that found panes missing, or made them anew.
Coming(f) == \/ spawning[f] # None
             \/ \E i \in DOMAIN rt.ch : /\ rt.ch[i].type \in {"spawned", "spawnFailed"}
                                        /\ rt.ch[i].frame = f
FramesBound ==
    Idle => \A f \in Frame : Holder(st.sess, f) # None => (Coming(f) \/ f \in rt.panes)

\* Between two events the tmux environment, the one record of the panes that a
\* warm start has, is what the runtime holds in memory.
EnvMirrors == Idle => env = rt.panes

\* While tmux runs a pane is in one place and 0.1 is not empty.  A TUI loses its pane
\* only by quitting in a frame's window, when its daemon was killed while the frame was
\* shown: no swap, crash, start or repair takes it.
OnePlace ==
    rt.slot # NoTmux =>
      /\ \A v, w \in Pane : rt.slot[v] = rt.slot[w] /\ v # w => rt.slot[v] = None
      /\ rt.slot[Main] # None
      /\ ~lost => Placed(rt.slot, Main) /\ Placed(rt.slot, Log)

\* Between two events, with no TUI lost, ActiveOccupant says "log" exactly when the
\* log TUI is in 0.1, also after a start that found it there.
LogWhereSaid == Idle /\ ~lost => (st.occupant = "log" <=> rt.slot[Main] = Log)

\* Between two events, with no TUI lost, no frame of a session in the map is in 0.1
\* while ActiveOccupant says "main", also after a start that found one there.
NoFrameUnderMain ==
    Idle /\ ~lost /\ st.occupant = "main" => Holder(st.sess, rt.slot[Main]) = None
=============================================================================
