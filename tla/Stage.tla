------------------------------- MODULE Stage -------------------------------
(***************************************************************************)
(* What the daemon's parts share: the values they hand to each other, and  *)
(* the functions on them.                                                  *)
(*                                                                         *)
(* A session is a stack of frames.  tmux is external and modelled as a map *)
(* from slots to panes.  A slot is named after the pane created in it:     *)
(* slot Main is pane 0.1 of window 0, slot Log is __hidden__.0, and slot f *)
(* is the window spawned for frame f.  swap-pane exchanges the contents of *)
(* two slots.  The runtime is a record: its pane map, what it believes to  *)
(* be resident in 0.1, its event channel, and the slots it acts upon.      *)
(***************************************************************************)
EXTENDS Integers, Sequences, FiniteSets, SequencesExt, FiniteSetsExt

CONSTANTS
    Session,         \* session ids (crypto/rand: never reused)
    Frame,           \* frame ids, and the panes spawned for them
    Main,            \* the main TUI's pane, and its home slot 0.1
    Log,             \* the log TUI's pane, and its home slot __hidden__.0
    None,            \* the empty id
    MaxMRU,          \* cap of MRUFrameIDs (16 in the code)
    QueueCap         \* capacity of eventCh (256 in the code): Enqueue drops

Pane == Frame \cup {Main, Log}

ASSUME ConstantsAssumption ==
    /\ Session # {} /\ IsFiniteSet(Frame) /\ IsFiniteSet(Session)
    /\ Main # Log /\ Main \notin Frame /\ Log \notin Frame
    /\ None \notin Pane /\ None \notin Session
    /\ MaxMRU \in Nat \ {0} /\ QueueCap \in Nat \ {0}
-----------------------------------------------------------------------------
(* Sessions.  A session without frames is one that is not in the map.      *)

NoSession == [frames |-> <<>>, act |-> None, mru |-> <<>>]
SessionRec == [frames : Seq(Frame), act : Frame \cup {None}, mru : Seq(Frame)]

SessionOK(x) ==
    /\ x \in SessionRec
    /\ x = NoSession \/ x.frames # <<>>
    /\ Len(x.mru) <= MaxMRU

Live(sess) == {s \in Session : sess[s].frames # <<>>}
Owns(x, f) == f \in ToSet(x.frames)

\* activeFrame / sessionActiveFrame: the explicit active frame while it is in
\* the stack, else the tail.
ActiveFrame(x) == IF Owns(x, x.act) THEN x.act ELSE x.frames[Len(x.frames)]

\* pushMRU; the list holds a frame at most once.
PushMRU(x, f) ==
    IF f = None THEN x
    ELSE LET q == <<f>> \o RemoveFirst(x.mru, f)
         IN  [x EXCEPT !.mru = SubSeq(q, 1, Min({Len(q), MaxMRU}))]

\* popMRU: make the first listed frame that still exists the active one (the
\* root when none does), and drop the list up to it.
FallBack(x) ==
    LET alive == {i \in DOMAIN x.mru : Owns(x, x.mru[i])}
    IN  IF alive = {}
        THEN [x EXCEPT !.act = x.frames[1], !.mru = <<>>]
        ELSE [x EXCEPT !.act = x.mru[Min(alive)],
                       !.mru = SubSeq(@, Min(alive) + 1, Len(@))]

NewSession(f) == [frames |-> <<f>>, act |-> f, mru |-> <<>>]

\* pushDriverInternal: the new frame is the active one at once, before any
\* pane exists for it.
Pushed(x, f) ==
    [PushMRU(x, x.act) EXCEPT !.act = f, !.frames = Append(@, f)]

\* removeFrameByIndex, then the fallback if the active frame was removed.
Without(x, f) ==
    LET y == [x EXCEPT !.frames = RemoveFirst(@, f)]
    IN  IF x.act = f THEN FallBack(y) ELSE y

\* Mutant: an emptied session stays in the map.
Truncated_KeepsEmpty(x, f) ==
    [x EXCEPT !.frames = SubSeq(@, 1, (CHOOSE j \in DOMAIN @ : @[j] = f) - 1)]
\* Mutant: only the failed frame leaves the stack, even if it is the root.
Truncated_OnlyFailed(x, f) ==
    LET y == [x EXCEPT !.frames = RemoveFirst(@, f)]
    IN  IF y.frames = <<>> THEN NoSession ELSE y

\* truncateFrames as reduceTmuxSpawnFailed uses it: ActiveFrameID and
\* MRUFrameIDs keep naming the frames that are gone.
Truncated(x, f) ==
    LET i == CHOOSE j \in DOMAIN x.frames : x.frames[j] = f
    IN  IF i = 1 THEN NoSession ELSE [x EXCEPT !.frames = SubSeq(@, 1, i - 1)]
-----------------------------------------------------------------------------
(* tmux.                                                                   *)

Placed(slot, p) == \E w \in Pane : slot[w] = p
SlotOf(slot, p) == CHOOSE w \in Pane : slot[w] = p
Exchange(slot, v, w) == [slot EXCEPT ![v] = slot[w], ![w] = slot[v]]

\* swap-pane -s p -t 0.1
SwapPane(slot, p) == Exchange(slot, SlotOf(slot, p), Main)

\* Mutant: window 0 is not protected.
KillPaneWindows_Unguarded(slot, F) ==
    [w \in Pane |-> IF slot[w] \in F THEN None ELSE slot[w]]

\* kill-window of every pane in F; a pane in window 0 is refused
\* (guardNotMainWindow), one that is gone is an error nobody acts on.
KillPaneWindows(slot, F) ==
    [w \in Pane |-> IF w # Main /\ slot[w] \in F THEN None ELSE slot[w]]
-----------------------------------------------------------------------------
(* Effects: what the runtime does for each effect the reducer returns.     *)

Event ==
    [type : {"spawned", "spawnFailed"}, slot : {Main}, sess : Session, frame : Frame]
    \cup [type : {"vanished"}, slot : {Main}, sess : {None}, frame : Frame]
    \cup [type : {"died"}, slot : {Main, Log}, sess : {None},
           frame : Frame \cup {None}]

Spawned(s, f) == [type |-> "spawned", slot |-> Main, sess |-> s, frame |-> f]
SpawnFailed(s, f) ==
    [type |-> "spawnFailed", slot |-> Main, sess |-> s, frame |-> f]
Vanished(f) == [type |-> "vanished", slot |-> Main, sess |-> None, frame |-> f]
Died(w, owner) == [type |-> "died", slot |-> w, sess |-> None, frame |-> owner]

StType == [sess : [Session -> SessionRec], focus : Session \cup {None},
           occupant : {"main", "log", "frame"}]
RtType == [panes : SUBSET Frame, resident : Session \cup {None},
           act : Frame \cup {None}, ch : Seq(Event),
           slot : [Pane -> Pane \cup {None}]]

\* Mutant: a channel without a buffer.
Enqueue_Unbuffered(r, evs) ==
    IF r.ch = <<>> THEN [r EXCEPT !.ch = SubSeq(evs, 1, 1)] ELSE r

\* Enqueue: the events that find the channel full are dropped.
Enqueue(r, evs) ==
    LET q == r.ch \o evs
    IN  [r EXCEPT !.ch = SubSeq(q, 1, Min({Len(q), QueueCap}))]

\* Mutant: a pane that is gone is not reported.
ActivateSession_Silent(r, sess, s) ==
    LET f == ActiveFrame(sess[s])
    IN  IF s \notin Live(sess) \/ f \notin r.panes \/ ~Placed(r.slot, f) THEN r
        ELSE [r EXCEPT !.slot = SwapPane(@, f), !.resident = s, !.act = f]

ActivateSession(r, sess, s) ==
    LET f == ActiveFrame(sess[s])
    IN  IF s \notin Live(sess) \/ f \notin r.panes \/ r.act = f THEN r
        ELSE IF ~Placed(r.slot, f) THEN Enqueue(r, <<Vanished(f)>>)
        ELSE [r EXCEPT !.slot = SwapPane(@, f), !.resident = s, !.act = f]

\* Mutant: activeFrameID is not cleared.
DeactivateSession_KeepsFrame(r) ==
    IF r.resident = None \/ ~Placed(r.slot, Main) THEN r
    ELSE [r EXCEPT !.slot = SwapPane(@, Main), !.resident = None]

DeactivateSession(r) ==
    IF r.resident = None \/ ~Placed(r.slot, Main) THEN r
    ELSE [r EXCEPT !.slot = SwapPane(@, Main), !.resident = None, !.act = None]

\* swapHidden: positional, so it is its own inverse.
SwapHidden(r) == [r EXCEPT !.slot = Exchange(@, Log, Main)]

\* Mutant: windows are killed but panes stay registered.
Forget_KillsOnly(r, F, kill) ==
    [r EXCEPT !.slot = IF kill THEN KillPaneWindows(@, F \cap r.panes) ELSE @]

\* EffKillSessionWindow (when kill is set) and EffUnregisterPane for each f in
\* F.  Only a registered frame has a target to kill.
Forget(r, F, kill) ==
    [r EXCEPT !.slot = IF kill THEN KillPaneWindows(@, F \cap r.panes) ELSE @,
              !.panes = @ \ F]
=============================================================================
