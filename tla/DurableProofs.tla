---------------------------- MODULE DurableProofs ----------------------------
(***************************************************************************)
(* What no crash and no restart can break, for every set of sessions and   *)
(* frames, and any number of starts.                                       *)
(***************************************************************************)
EXTENDS Durable, StageProofs

(***************************************************************************)
(* Effects, and the order they stand in.                                   *)
(***************************************************************************)

Ops == {"persist", "swap", "activate", "deactivate", "kill", "unregister",
        "register", "answer", "killSession", "recover", "reconcile", "recreate"}
OnFrame == {"kill", "unregister", "register", "answer", "recreate"}
Effect == {e \in [op : Ops, arg : Frame \cup Session \cup {None}] :
             /\ e.op \in OnFrame => e.arg \in Frame
             /\ e.op = "activate" => e.arg \in Session}

\* May the effect x stand before the effect y ?
MayPrecede(x, y) ==
    /\ y.op \notin {"deactivate", "recover", "register"}
    /\ y.op = "swap" => x.op \notin {"swap", "activate"}
    /\ y.op = "activate" => x.op \notin {"activate", "deactivate"}
    /\ y.op = "reconcile" => x.op = "recover"
    /\ x.op \notin {"answer", "killSession"}

Ordered(q) == \A i, j \in DOMAIN q : i < j => MayPrecede(q[i], q[j])

\* Is there an effect op in q, and is there one on the frame f ?
Holds(q, op) == \E e \in ToSet(q) : e.op = op
HoldsOn(q, op, f) == \E e \in ToSet(q) : e.op = op /\ e.arg = f

LEMMA NoEffects ==
    /\ <<>> \in Seq(Effect) /\ Ordered(<<>>)
    /\ \A op : ~Holds(<<>>, op)
    /\ \A op, f : ~HoldsOn(<<>>, op, f)
  BY DEF Ordered, Holds, HoldsOn, ToSet

LEMMA OneEffect ==
    ASSUME NEW op, NEW arg, Eff(op, arg) \in Effect
    PROVE  LET q == <<Eff(op, arg)>>
           IN  /\ q \in Seq(Effect) /\ Ordered(q)
               /\ \A o : Holds(q, o) <=> o = op
               /\ \A o, f : HoldsOn(q, o, f) <=> (o = op /\ f = arg)
<1> DEFINE e == Eff(op, arg)
           q == <<e>>
<1>1. e.op = op /\ e.arg = arg
  BY DEF Eff
<1> HIDE DEF e
<1>2. DOMAIN q = {1} /\ q[1] = e /\ ToSet(q) = {e} /\ q \in Seq(Effect)
  BY DEF ToSet, e
<1> HIDE DEF q
<1>3. Ordered(q)
  BY <1>2 DEF Ordered
<1> QED  BY <1>1, <1>2, <1>3 DEF Holds, HoldsOn, e, q

LEMMA MoreEffects ==
    ASSUME NEW q \in Seq(Effect), NEW r \in Seq(Effect), Ordered(q), Ordered(r),
           \A x \in ToSet(q), y \in ToSet(r) : MayPrecede(x, y)
    PROVE  /\ q \o r \in Seq(Effect) /\ Ordered(q \o r)
           /\ \A op : Holds(q \o r, op) <=> Holds(q, op) \/ Holds(r, op)
           /\ \A op, f : HoldsOn(q \o r, op, f) <=> HoldsOn(q, op, f) \/ HoldsOn(r, op, f)
           /\ ToSet(q \o r) = ToSet(q) \cup ToSet(r)
<1> DEFINE z == q \o r
           m == Len(q)
           n == Len(r)
<1>1. /\ DOMAIN q = 1 .. m /\ DOMAIN r = 1 .. n /\ DOMAIN z = 1 .. m + n /\ m \in Nat /\ n \in Nat
      /\ \A i \in 1 .. m + n : z[i] = IF i <= m THEN q[i] ELSE r[i - m]
      /\ z \in Seq(Effect)
  BY ConcatProperties
<1>2. ToSet(z) = ToSet(q) \cup ToSet(r)
  BY ConcatSet
<1> HIDE DEF z, m, n
<1>3. Ordered(z)
  <2> SUFFICES ASSUME NEW i \in 1 .. m + n, NEW j \in 1 .. m + n, i < j
               PROVE  MayPrecede(z[i], z[j])
    BY <1>1 DEF Ordered
  <2>1. CASE j <= m
    <3>1. i \in 1 .. m /\ j \in 1 .. m /\ z[i] = q[i] /\ z[j] = q[j]
      BY <1>1, <2>1
    <3> QED  BY <1>1, <3>1 DEF Ordered
  <2>2. CASE ~(i <= m)
    <3>1. ~(j <= m) /\ i - m \in 1 .. n /\ j - m \in 1 .. n /\ i - m < j - m
      BY <1>1, <2>2
    <3>2. z[i] = r[i - m] /\ z[j] = r[j - m]
      BY <1>1, <2>2, <3>1
    <3> QED  BY <1>1, <3>1, <3>2 DEF Ordered
  <2>3. CASE i <= m /\ ~(j <= m)
    <3>1. i \in 1 .. m /\ j - m \in 1 .. n /\ z[i] = q[i] /\ z[j] = r[j - m]
      BY <1>1, <2>3
    <3> QED  BY <1>1, <3>1 DEF ToSet
  <2> QED  BY <2>1, <2>2, <2>3
<1>4. \A op : Holds(z, op) <=> Holds(q, op) \/ Holds(r, op)
  BY <1>2 DEF Holds
<1>5. \A op, f : HoldsOn(z, op, f) <=> HoldsOn(q, op, f) \/ HoldsOn(r, op, f)
  BY <1>2 DEF HoldsOn
<1> QED  BY <1>1, <1>2, <1>3, <1>4, <1>5 DEF z

\* What is left when the first effect has run.
LEMMA FewerEffects ==
    ASSUME NEW q \in Seq(Effect), q # <<>>, Ordered(q)
    PROVE  /\ Head(q) \in Effect /\ Tail(q) \in Seq(Effect) /\ Ordered(Tail(q))
           /\ \A op : Holds(q, op) <=> op = Head(q).op \/ Holds(Tail(q), op)
           /\ \A op, f : HoldsOn(q, op, f) <=>
                           (op = Head(q).op /\ f = Head(q).arg) \/ HoldsOn(Tail(q), op, f)
           /\ \A e \in ToSet(Tail(q)) : MayPrecede(Head(q), e) /\ e \in Effect
<1> DEFINE t == Tail(q)
<1>1. /\ t \in Seq(Effect) /\ Len(t) = Len(q) - 1 /\ Len(q) \in Nat \ {0} /\ Head(q) = q[1]
      /\ DOMAIN q = 1 .. Len(q) /\ DOMAIN t = 1 .. Len(t)
      /\ \A i \in 1 .. Len(t) : t[i] = q[i + 1]
  BY HeadTailProperties, EmptySeq
<1>2. ToSet(q) = {Head(q)} \cup ToSet(t)
  BY TailSet
<1> HIDE DEF t
<1>3. Ordered(t)
  <2> SUFFICES ASSUME NEW i \in 1 .. Len(t), NEW j \in 1 .. Len(t), i < j
               PROVE  MayPrecede(t[i], t[j])
    BY <1>1 DEF Ordered
  <2>1. i + 1 \in DOMAIN q /\ j + 1 \in DOMAIN q /\ i + 1 < j + 1
    BY <1>1
  <2> QED  BY <1>1, <2>1 DEF Ordered
<1>4. \A e \in ToSet(t) : MayPrecede(Head(q), e) /\ e \in Effect
  <2> SUFFICES ASSUME NEW i \in 1 .. Len(t)
               PROVE  MayPrecede(Head(q), t[i]) /\ t[i] \in Effect
    BY <1>1 DEF ToSet
  <2>1. 1 \in DOMAIN q /\ i + 1 \in DOMAIN q /\ 1 < i + 1
    BY <1>1
  <2> QED  BY <1>1, <2>1 DEF Ordered
<1>5. Head(q) \in Effect
  BY <1>1
<1>6. \A op : Holds(q, op) <=> op = Head(q).op \/ Holds(t, op)
  BY <1>2 DEF Holds
<1>7. \A op, f : HoldsOn(q, op, f) <=> (op = Head(q).op /\ f = Head(q).arg) \/ HoldsOn(t, op, f)
  BY <1>2 DEF HoldsOn
<1> QED  BY <1>1, <1>3, <1>4, <1>5, <1>6, <1>7 DEF t

(***************************************************************************)
(* The inductive invariant.                                                *)
(***************************************************************************)

Has(op) == Holds(todo, op)
Asks(op, f) == HoldsOn(todo, op, f)
Held(f) == \E s \in Session : f \in Frames(st.sess[s])
Expected(f) == Coming(f) \/ Asks("register", f)

InChannel(f, s) ==
    \E i \in DOMAIN rt.ch : /\ rt.ch[i].type \in {"spawned", "spawnFailed"}
                            /\ rt.ch[i].frame = f /\ rt.ch[i].sess = s

\* Somewhere f is taken for a frame of s.
In(f, s) == \/ f \in Frames(disk[s]) \/ f \in Frames(st.sess[s])
            \/ spawning[f] = s \/ InChannel(f, s)

TypeOK ==
    /\ st \in StType /\ \A s \in Session : SessionOK(st.sess[s])
    /\ Fits(rt) /\ todo \in Seq(Effect)
    /\ spawning \in [Frame -> Session \cup {None}]
    /\ disk \in [Session -> SessionRec] /\ \A s \in Session : SessionOK(disk[s])
    /\ env \subseteq Frame /\ kept \subseteq Session /\ lost \in BOOLEAN

\* What each phase leaves to be done, and what it does not know yet.
ByPhase ==
    /\ phase \in {"down", "warm", "cold", "up"}
    /\ phase = "down" => todo = <<>> /\ st = Empty
    /\ phase = "warm" =>
         \A op \in Ops : Has(op) => op \in {"recover", "reconcile", "unregister", "persist"}
    /\ phase = "cold" => \A op \in Ops : Has(op) => op \in {"recreate", "persist"}
    /\ phase = "up" => \A op \in {"recover", "reconcile", "recreate"} : ~Has(op)
    /\ phase # "up" => rt.ch = <<>> /\ spawning = NoSpawns /\ (lost \/ rt.resident = None)
    /\ Has("recover") => Has("reconcile") /\ st.occupant = "main"

InOrder == Ordered(todo)

\* A frame is of one session, wherever it is found, and a session file has the
\* root that the state has.
Owners ==
    /\ \A f \in Frame, s \in Session : In(f, s) => f \in born /\ s \in born
    /\ \A f \in Frame : \A s, t \in Session : In(f, s) /\ In(f, t) => s = t
    /\ \A s \in Session : NoDup(st.sess[s].frames) /\ NoDup(disk[s].frames)
    /\ \A s \in Session : disk[s].frames # <<>> /\ st.sess[s].frames # <<>>
                            => disk[s].frames[1] = st.sess[s].frames[1]
    /\ env \subseteq born

\* Nobody asks for the pane of f any more.
Away(f) == f \notin env /\ ~Expected(f) /\ (phase = "up" => ~Held(f))

\* As long as no TUI is lost: where the two are.
Complete == Staged(rt.slot) /\ \A f \in Frame : rt.slot[Log] = f => Away(f)

\* Where the panes are while tmux runs.
Stood ==
    /\ Apart(rt.slot)
    /\ \A f \in Frame : spawning[f] # None \/ f \notin born => Vacant(rt.slot, f)
    /\ phase = "cold" => ~lost /\ \A w \in Pane : rt.slot[w] \in {w, None}
    /\ ~lost => Complete

Slots == \/ rt.slot = NoTmux /\ phase = "down" /\ env = {} /\ ~lost
         \/ Stood

Mirrors == IF phase = "down" THEN rt.panes = {} ELSE rt.panes = env

\* What the effects that are still to run are about.
Tasks ==
    /\ \A f \in Frame : Asks("unregister", f) => ~Held(f)
    /\ \A f \in Frame : Asks("register", f) => Held(f)
    /\ \A f \in Frame : Asks("recreate", f) => Held(f)
    /\ \A f \in Frame : Asks("answer", f) =>
         /\ Held(f)
         /\ f \in env \/ Asks("register", f)
         /\ \/ Has("persist")
            \/ \A s \in Session : st.sess[s].frames # <<>> /\ st.sess[s].frames[1] = f =>
                                    disk[s].frames # <<>> \/ s \in excused

Bound ==
    \A f \in Frame : Held(f) =>
      \/ f \in rt.panes
      \/ phase = "up" /\ Expected(f)
      \/ phase = "cold" /\ Asks("recreate", f)
      \/ phase = "warm" /\ Has("reconcile")

\* A promised session has a file, and its root a variable in the environment,
\* unless the root is about to be made anew.
Safe ==
    \A s \in Session : s \in kept /\ s \notin excused =>
      /\ disk[s].frames # <<>>
      /\ phase # "down" => st.sess[s].frames # <<>>
      /\ \/ disk[s].frames[1] \in env
         \/ phase = "cold" /\ \E f \in Frame : disk[s].frames[1] = f /\ Asks("recreate", f)
         \/ rt.slot = NoTmux

Spawns == {f \in Frame : spawning[f] # None}
Capacity == Len(rt.ch) + Cardinality(Spawns) + (IF Has("activate") THEN 1 ELSE 0) <= QueueCap

\* What is in 0.1, once a start has looked.
Shown == ~lost =>
    /\ st.occupant = "log" <=> IF Has("swap") THEN rt.slot[Main] # Log ELSE rt.slot[Main] = Log
    /\ Has("deactivate") => rt.slot[Main] # Log
    /\ st.occupant # "frame" \/ Has("swap") => rt.resident = None \/ Has("deactivate")
    /\ Has("activate") => st.occupant = "frame"
    /\ rt.resident # None => rt.slot[Main] = rt.act /\ rt.act \in Frame

\* A frame in 0.1 that the runtime knows nothing of is nobody's.
Leftover ==
    ~lost /\ rt.resident = None =>
      \A f \in Frame : rt.slot[Main] = f =>
        IF Has("reconcile") THEN f \notin rt.panes \/ ~Held(f)
        ELSE /\ ~Held(f) /\ ~Expected(f)
             /\ f \notin rt.panes \/ (phase = "warm" /\ Asks("unregister", f))

Scene == phase # "down" /\ ~Has("recover") => Shown /\ Leftover

Inv == /\ TypeOK /\ ByPhase /\ InOrder /\ Owners /\ Slots /\ Mirrors /\ Tasks /\ Bound
       /\ Safe /\ Capacity /\ Scene

-----------------------------------------------------------------------------
(* What the invariant says at rest: the properties that the runs check.    *)

\* Owns, Frames and Held speak of the same frames.
LEMMA HeldFrames ==
    ASSUME TypeOK
    PROVE  /\ \A s \in Session : Frames(st.sess[s]) \subseteq Frame
           /\ \A s \in Session : \A f : Owns(st.sess[s], f) <=> f \in Frames(st.sess[s])
           /\ \A f : Holder(st.sess, f) # None <=> Held(f)
           /\ \A f : Held(f) => /\ Holder(st.sess, f) \in Session
                                /\ f \in Frames(st.sess[Holder(st.sess, f)])
           /\ \A s \in Session : st.sess[s].frames # <<>> =>
                st.sess[s].frames[1] \in Frames(st.sess[s])
<1>1. \A s \in Session : st.sess[s] \in SessionRec /\ st.sess[s].frames \in Seq(Frame)
  BY DEF TypeOK, SessionOK, SessionRec
<1>2. \A s \in Session : Frames(st.sess[s]) \subseteq Frame
  BY <1>1 DEF Frames, ToSet
<1>3. \A s \in Session : \A f : Owns(st.sess[s], f) <=> f \in Frames(st.sess[s])
  BY DEF Owns, Frames
<1>4. ASSUME NEW f, Held(f)
      PROVE  Holder(st.sess, f) \in Session /\ f \in Frames(st.sess[Holder(st.sess, f)])
  BY <1>3, <1>4 DEF Holder, Held
<1>5. ASSUME NEW f, ~Held(f)
      PROVE  Holder(st.sess, f) = None
  BY <1>3, <1>5 DEF Holder, Held
<1>6. \A s \in Session : st.sess[s].frames # <<>> => st.sess[s].frames[1] \in Frames(st.sess[s])
  BY <1>1 DEF Frames, ToSet
<1> QED  BY <1>2, <1>3, <1>4, <1>5, <1>6, PaneFacts

LEMMA AtRest ==
    ASSUME todo = <<>>
    PROVE  /\ \A op : ~Has(op)
           /\ \A op, f : ~Asks(op, f)
  BY NoEffects DEF Has, Asks

LEMMA InvImplies ==
    ASSUME Inv
    PROVE  /\ SessionsPreserved /\ FramesBound /\ EnvMirrors /\ OnePlace
           /\ LogWhereSaid /\ NoFrameUnderMain
<1>1. SessionsPreserved
  <2> SUFFICES ASSUME NEW s \in kept \ excused
               PROVE  /\ disk[s] # NoSession
                      /\ phase # "down" => s \in Live(st.sess)
    BY DEF SessionsPreserved
  <2>1. s \in Session /\ disk[s].frames # <<>> /\ (phase # "down" => st.sess[s].frames # <<>>)
    BY DEF Inv, Safe, TypeOK
  <2> QED  BY <2>1 DEF Live, NoSession
<1>2. FramesBound
  <2> SUFFICES ASSUME Idle, NEW f \in Frame, Holder(st.sess, f) # None
               PROVE  Coming(f) \/ f \in rt.panes
    BY DEF FramesBound
  <2>1. Held(f)
    BY HeldFrames DEF Inv
  <2>2. /\ phase = "up" /\ ~Asks("register", f)
    BY AtRest DEF Idle
  <2> QED  BY <2>1, <2>2 DEF Inv, Bound, Expected
<1>3. EnvMirrors
  BY DEF Inv, Mirrors, Idle, EnvMirrors
<1>4. OnePlace
  BY DEF Inv, Slots, Stood, Complete, Apart, Staged, OneSlot, OnePlace
<1>5. ASSUME Idle
      PROVE  Shown /\ Leftover /\ \A op : ~Has(op)
  <2>1. phase = "up" /\ \A op : ~Has(op)
    BY <1>5, AtRest DEF Idle
  <2> QED  BY <2>1 DEF Inv, Scene
<1>6. LogWhereSaid
  BY <1>5 DEF LogWhereSaid, Shown
<1>7. NoFrameUnderMain
  <2> SUFFICES ASSUME Idle, ~lost, st.occupant = "main", Holder(st.sess, rt.slot[Main]) # None
               PROVE  FALSE
    BY DEF NoFrameUnderMain
  <2> DEFINE p == rt.slot[Main]
  <2>1. Held(p) /\ p \in Frame
    BY HeldFrames DEF Inv, Held
  <2>2. rt.resident = None
    BY <1>5 DEF Shown
  <2>3. ~Held(p)
    BY <1>5, <2>1, <2>2 DEF Leftover
  <2> QED  BY <2>1, <2>3
<1> QED  BY <1>1, <1>2, <1>3, <1>4, <1>6, <1>7

-----------------------------------------------------------------------------
(* The first state, and what the steps have in common.                     *)

LEMMA NothingHeld ==
    /\ \A s \in Session : NoSessions[s] = NoSession /\ Empty.sess[s] = NoSession
    /\ \A s \in Session : SessionOK(NoSession) /\ Frames(NoSession) = {}
    /\ NoSession.frames = <<>> /\ NoDup(NoSession.frames)
    /\ NoSessions \in [Session -> SessionRec] /\ Empty \in StType
    /\ Empty.occupant = "main"
<1>1. NoSession.frames = <<>> /\ NoDup(NoSession.frames) /\ Frames(NoSession) = {}
  BY EmptyStack DEF NoSession, NoDup
<1>2. SessionOK(NoSession) /\ NoSession \in SessionRec
  BY NoSessionType DEF SessionOK
<1>3. NoSessions \in [Session -> SessionRec] /\ \A s \in Session : NoSessions[s] = NoSession
  BY <1>2 DEF NoSessions
<1>4. Empty \in StType /\ Empty.sess = NoSessions /\ Empty.occupant = "main"
  BY <1>3 DEF Empty, StType
<1> QED  BY <1>1, <1>2, <1>3, <1>4

LEMMA NothingSpawned ==
    /\ NoSpawns \in [Frame -> Session \cup {None}]
    /\ \A f \in Frame : NoSpawns[f] = None
    /\ {f \in Frame : NoSpawns[f] # None} = {}
    /\ Cardinality({f \in Frame : NoSpawns[f] # None}) = 0
<1>1. \A f \in Frame : NoSpawns[f] = None
  BY DEF NoSpawns
<1>2. {f \in Frame : NoSpawns[f] # None} = {}
  BY <1>1
<1>3. Cardinality({f \in Frame : NoSpawns[f] # None}) = 0
  BY <1>2, FS_EmptySet
<1> QED  BY <1>1, <1>2, <1>3 DEF NoSpawns

\* The goroutines that run, counted.
LEMMA SpawnsCount ==
    ASSUME TypeOK
    PROVE  /\ Len(rt.ch) \in Nat /\ QueueCap \in Nat
           /\ IsFiniteSet(Spawns) /\ Cardinality(Spawns) \in Nat
<1>1. rt.ch \in Seq(Event)
  BY DEF TypeOK, Fits, RtType
<1>2. Spawns \subseteq Frame /\ IsFiniteSet(Frame)
  BY ConstantsAssumption DEF Spawns
<1>3. IsFiniteSet(Spawns)
  BY <1>2, FS_Subset
<1> QED  BY <1>1, <1>3, FS_CardinalityType, ConstantsAssumption

LEMMA BlankType ==
    ASSUME NEW slot \in SlotMap, NEW panes, panes \subseteq Frame
    PROVE  LET r == Blank(slot, panes)
           IN  /\ Fits(r) /\ r.ch = <<>> /\ r.resident = None /\ r.act = None
               /\ r.panes = panes /\ r.slot = slot
<1> DEFINE r == Blank(slot, panes)
<1>1. r = [panes |-> panes, resident |-> None, act |-> None, ch |-> <<>>, slot |-> slot]
  BY DEF Blank
<1>2. /\ r.ch = <<>> /\ r.resident = None /\ r.act = None
      /\ r.panes = panes /\ r.slot = slot
  BY <1>1
<1>3. <<>> \in Seq(Event) /\ Len(<<>>) = 0 /\ QueueCap \in Nat
  BY ConstantsAssumption
<1>4. r \in RtType
  BY <1>1, <1>3 DEF RtType, SlotMap
<1> HIDE DEF r
<1> QED  BY <1>2, <1>3, <1>4 DEF Fits, r

LEMMA HomeStaged ==
    /\ AtHome \in SlotMap /\ Staged(AtHome) /\ Apart(AtHome) /\ AtHome[Main] = Main /\ AtHome[Log] = Log
    /\ \A f \in Frame : Vacant(AtHome, f)
    /\ \A w \in Pane : AtHome[w] \in {w, None}
<1>1. \A w \in Pane : AtHome[w] = IF w \in {Main, Log} THEN w ELSE None
  BY DEF AtHome
<1>2. AtHome \in SlotMap
  BY PaneFacts DEF AtHome, SlotMap
<1>3. Staged(AtHome)
  BY <1>1, PaneFacts DEF Staged, OneSlot, Placed
<1>4. \A f \in Frame : Vacant(AtHome, f)
  BY <1>1, PaneFacts DEF Vacant, Placed
<1> QED  BY <1>1, <1>2, <1>3, <1>4, StagedApart, PaneFacts

LEMMA InitInv == ASSUME Init PROVE Inv
<1>1. /\ st = Empty /\ todo = <<>> /\ phase = "up" /\ spawning = NoSpawns /\ disk = NoSessions
      /\ env = {} /\ kept = {} /\ rt = Blank(AtHome, {}) /\ lost = FALSE
  BY DEF Init
<1>2. /\ Fits(rt) /\ rt.ch = <<>> /\ rt.resident = None /\ rt.act = None /\ rt.panes = {}
      /\ rt.slot = AtHome
  BY <1>1, BlankType, HomeStaged
<1>3. \A s \in Session : /\ st.sess[s] = NoSession /\ disk[s] = NoSession
                         /\ st.sess[s].frames = <<>> /\ disk[s].frames = <<>>
                         /\ Frames(st.sess[s]) = {} /\ Frames(disk[s]) = {}
                         /\ NoDup(st.sess[s].frames) /\ NoDup(disk[s].frames)
                         /\ SessionOK(st.sess[s]) /\ SessionOK(disk[s])
  BY <1>1, NothingHeld
<1>4. (\A op : ~Has(op)) /\ \A op, f : ~Asks(op, f)
  BY <1>1, AtRest
<1>5. \A f \in Frame : ~Held(f) /\ \A s \in Session : ~In(f, s)
  <2>1. \A f \in Frame, s \in Session : ~InChannel(f, s)
    BY <1>2 DEF InChannel
  <2>2. \A f \in Frame, s \in Session : spawning[f] # s
    BY <1>1, NothingSpawned, PaneFacts
  <2> QED  BY <1>3, <2>1, <2>2 DEF Held, In
<1>6. TypeOK
  BY <1>1, <1>2, <1>3, NothingHeld, NothingSpawned, NoEffects DEF TypeOK
<1>7. ByPhase /\ InOrder
  BY <1>1, <1>4, NoEffects DEF ByPhase, InOrder
<1>8. Owners
  BY <1>1, <1>3, <1>5 DEF Owners
<1>9. Slots /\ Mirrors
  BY <1>1, <1>2, HomeStaged, PaneFacts DEF Slots, Stood, Complete, Mirrors
<1>10. Tasks /\ Bound /\ Safe
  BY <1>1, <1>4, <1>5 DEF Tasks, Bound, Safe
<1>11. Capacity
  <2>1. Len(rt.ch) = 0 /\ Cardinality(Spawns) = 0 /\ QueueCap \in Nat /\ ~Has("activate")
    BY <1>1, <1>2, <1>4, NothingSpawned, ConstantsAssumption DEF Spawns
  <2> QED  BY <2>1 DEF Capacity
<1>12. Scene
  <2>1. st.occupant = "main" /\ rt.slot[Main] = Main
    BY <1>1, <1>2, NothingHeld, HomeStaged
  <2> QED  BY <1>2, <1>4, <2>1, PaneFacts DEF Scene, Shown, Leftover
<1> QED  BY <1>6, <1>7, <1>8, <1>9, <1>10, <1>11, <1>12 DEF Inv

LEMMA Standing ==
    ASSUME Inv, phase # "down" \/ rt.slot # NoTmux
    PROVE  /\ Stood /\ rt.slot # NoTmux /\ rt.slot \in SlotMap /\ Apart(rt.slot)
           /\ ~lost => Staged(rt.slot)
<1>1. Stood
  BY DEF Inv, Slots
<1>2. rt.slot \in SlotMap
  BY DEF Inv, TypeOK, Fits, RtType, SlotMap
<1>3. rt.slot # NoTmux
  BY <1>1, PaneFacts DEF Stood, Apart, NoTmux
<1> QED  BY <1>1, <1>2, <1>3 DEF Stood, Complete

-----------------------------------------------------------------------------
(* The end of the daemon.                                                  *)

\* What an end may leave in tmux.
Left(slot) ==
    /\ Apart(slot) /\ \A f \in Frame : f \notin born => Vacant(slot, f)
    /\ ~lost => Staged(slot) /\ \A f \in Frame : slot[Log] = f => f \notin env

\* What every end has in common, and what it must see to.
Halted ==
    /\ phase' = "down" /\ st' = Empty /\ todo' = <<>> /\ spawning' = NoSpawns
    /\ rt'.slot \in SlotMap /\ rt' = Blank(rt'.slot, {})
    /\ born' = born /\ kept' = kept
    /\ disk' \in [Session -> SessionRec]
    /\ \A s \in Session : disk'[s] \in {disk[s], st.sess[s], NoSession}
    /\ \/ rt'.slot = NoTmux /\ env' = {} /\ lost' = FALSE
       \/ env' = env /\ lost' = lost /\ Left(rt'.slot)
    /\ \A s \in Session : s \in kept /\ s \notin excused' =>
         /\ disk'[s].frames # <<>>
         /\ disk'[s].frames[1] \in env' \/ rt'.slot = NoTmux

LEMMA HaltedInv == ASSUME Inv, Halted PROVE Inv'
<1>0. /\ TypeOK /\ Owners /\ Slots
      /\ phase' = "down" /\ st' = Empty /\ todo' = <<>> /\ spawning' = NoSpawns
  BY DEF Inv, Halted
<1>1. /\ Fits(rt') /\ rt'.ch = <<>> /\ rt'.resident = None /\ rt'.act = None /\ rt'.panes = {}
  BY BlankType DEF Halted
<1>2. /\ \A s \in Session : st'.sess[s] = NoSession /\ st'.sess[s].frames = <<>>
      /\ \A s \in Session : Frames(st'.sess[s]) = {} /\ NoDup(st'.sess[s].frames)
      /\ \A s \in Session : SessionOK(st'.sess[s])
      /\ st' \in StType
  BY <1>0, NothingHeld
<1>3. (\A op : ~Has(op)') /\ \A op, f : ~Asks(op, f)'
  BY <1>0, NoEffects DEF Has, Asks
<1>4. \A s \in Session : /\ SessionOK(disk'[s]) /\ NoDup(disk'[s].frames)
                         /\ Frames(disk'[s]) \subseteq Frames(disk[s]) \cup Frames(st.sess[s])
  <2> SUFFICES ASSUME NEW s \in Session
               PROVE  /\ SessionOK(disk'[s]) /\ NoDup(disk'[s].frames)
                      /\ Frames(disk'[s]) \subseteq Frames(disk[s]) \cup Frames(st.sess[s])
    OBVIOUS
  <2>1. disk'[s] \in {disk[s], st.sess[s], NoSession}
    BY DEF Halted
  <2>2. /\ SessionOK(disk[s]) /\ SessionOK(st.sess[s]) /\ SessionOK(NoSession)
        /\ NoDup(disk[s].frames) /\ NoDup(st.sess[s].frames) /\ NoDup(NoSession.frames)
        /\ Frames(NoSession) = {}
    BY <1>0, NothingHeld DEF TypeOK, Owners
  <2> QED  BY <2>1, <2>2
<1>5. \A f \in Frame, s \in Session : In(f, s)' => In(f, s)
  <2> SUFFICES ASSUME NEW f \in Frame, NEW s \in Session, In(f, s)'
               PROVE  In(f, s)
    OBVIOUS
  <2>1. ~InChannel(f, s)'
    BY <1>1 DEF InChannel
  <2>2. spawning'[f] # s
    BY <1>0, NothingSpawned, PaneFacts
  <2>3. f \in Frames(disk'[s])
    BY <1>2, <2>1, <2>2 DEF In
  <2> QED  BY <1>4, <2>3 DEF In
<1>6. \A f \in Frame : ~Held(f)' /\ ~Expected(f)'
  <2>1. \A f \in Frame : ~Held(f)'
    BY <1>2 DEF Held
  <2>2. \A f \in Frame : ~Coming(f)'
    BY <1>0, <1>1, NothingSpawned DEF Coming
  <2> QED  BY <1>3, <2>1, <2>2 DEF Expected
<1>7. TypeOK'
  <2>1. env' \subseteq Frame /\ kept' \subseteq Session /\ lost' \in BOOLEAN
    BY <1>0 DEF Halted, TypeOK
  <2>2. disk' \in [Session -> SessionRec]
    BY DEF Halted
  <2> QED  BY <1>0, <1>1, <1>2, <1>4, <2>1, <2>2, NothingSpawned, NoEffects DEF TypeOK
<1>8. ByPhase' /\ InOrder'
  BY <1>0, <1>1, <1>3, NoEffects DEF ByPhase, InOrder
<1>9. Owners'
  <2>1. env' \subseteq born'
    BY <1>0 DEF Halted, Owners
  <2>2. born' = born
    BY DEF Halted
  <2> QED  BY <1>0, <1>2, <1>4, <1>5, <2>1, <2>2 DEF Owners
<1>10. Slots' /\ Mirrors'
  <2>1. Mirrors'
    BY <1>0, <1>1 DEF Mirrors
  <2>2. CASE rt'.slot = NoTmux /\ env' = {} /\ lost' = FALSE
    BY <1>0, <2>1, <2>2 DEF Slots
  <2>3. CASE env' = env /\ lost' = lost /\ Left(rt'.slot)
    <3>1. \A f \in Frame : spawning'[f] = None
      BY <1>0, NothingSpawned
    <3>2. ~lost => Complete'
      BY <1>0, <1>6, <2>3 DEF Complete, Away, Left
    <3>3. Stood'
      BY <1>0, <2>3, <3>1, <3>2 DEF Stood, Left, Halted
    <3> QED  BY <2>1, <3>3 DEF Slots
  <2> QED  BY <2>2, <2>3 DEF Halted
<1>11. Tasks' /\ Bound' /\ Safe'
  <2>1. Tasks' /\ Bound'
    BY <1>3, <1>6 DEF Tasks, Bound
  <2>2. Safe'
    BY <1>0 DEF Safe, Halted
  <2> QED  BY <2>1, <2>2
<1>12. Capacity'
  <2>1. Len(rt'.ch) = 0 /\ Cardinality(Spawns') = 0 /\ QueueCap \in Nat /\ ~Has("activate")'
    BY <1>0, <1>1, <1>3, NothingSpawned, ConstantsAssumption DEF Spawns
  <2> QED  BY <2>1 DEF Capacity
<1>13. Scene'
  BY <1>0 DEF Scene
<1> QED  BY <1>7, <1>8, <1>9, <1>10, <1>11, <1>12, <1>13 DEF Inv

\* A promised session while the daemon runs: its file and the state agree on
\* the root, and the environment knows it, but in a cold start.
LEMMA Promised ==
    ASSUME Inv, phase # "down", NEW s \in Session, s \in kept, s \notin excused
    PROVE  /\ st.sess[s].frames # <<>> /\ disk[s].frames # <<>>
           /\ disk[s].frames[1] = st.sess[s].frames[1]
           /\ phase # "cold" => st.sess[s].frames[1] \in env
  BY Standing DEF Inv, Safe, Owners

\* Whatever a save has written when it ends, or is ended.
LEMMA SavedIs ==
    ASSUME Inv, NEW W, NEW P, W \subseteq Live(st.sess)
    PROVE  /\ Saved(W, P) \in [Session -> SessionRec]
           /\ \A s \in Session : Saved(W, P)[s] \in {disk[s], st.sess[s], NoSession}
           /\ \A s \in Session : s \notin P => Saved(W, P)[s] \in {disk[s], st.sess[s]}
           /\ \A s \in W : Saved(W, P)[s] = st.sess[s]
<1>1. \A s \in Session : disk[s] \in SessionRec /\ st.sess[s] \in SessionRec /\ NoSession \in SessionRec
  BY NoSessionType DEF Inv, TypeOK, SessionOK
<1>2. Saved(W, P) = [s \in Session |-> IF s \in W THEN st.sess[s]
                                      ELSE IF s \in P THEN NoSession ELSE disk[s]]
  BY DEF Saved
<1>3. W \subseteq Session
  BY DEF Live
<1> QED  BY <1>1, <1>2, <1>3

\* The files after a crash or a reboot.
LEMMA CutShortIs ==
    ASSUME Inv, CutShort
    PROVE  /\ disk' \in [Session -> SessionRec]
           /\ \A s \in Session : disk'[s] \in {disk[s], st.sess[s], NoSession}
           /\ \A s \in Session : s \in kept /\ s \notin excused =>
                /\ disk'[s].frames # <<>> /\ disk'[s].frames[1] = disk[s].frames[1]
<1>1. CASE disk' = disk
  BY <1>1 DEF Inv, TypeOK, Safe
<1>2. CASE disk' # disk
  <2>1. todo # <<>> /\ disk' \in Interrupted
    BY <1>2 DEF CutShort
  <2>2. phase # "down"
    BY <2>1 DEF Inv, ByPhase
  <2>3. \A s \in Session : s \in kept /\ s \notin excused =>
           /\ st.sess[s].frames # <<>> /\ disk[s].frames # <<>>
           /\ disk[s].frames[1] = st.sess[s].frames[1]
    BY <2>2, Promised
  <2>4. CASE \E W \in SUBSET Live(st.sess) : disk' = Saved(W, {})
    BY <2>3, <2>4, SavedIs
  <2>5. CASE \E P \in SUBSET Obsolete : disk' = Saved(Live(st.sess), P)
    <3>1. PICK P : disk' = Saved(Live(st.sess), P)
      BY <2>5
    <3>2. /\ disk' \in [Session -> SessionRec]
          /\ \A s \in Session : disk'[s] \in {disk[s], st.sess[s], NoSession}
          /\ \A s \in Live(st.sess) : disk'[s] = st.sess[s]
      BY <3>1, SavedIs
    <3> QED  BY <2>3, <3>2 DEF Live
  <2> QED  BY <2>1, <2>4, <2>5 DEF Interrupted
<1> QED  BY <1>1, <1>2

\* DeactivateSession, where the frame in 0.1 is the one the runtime shows.
LEMMA DeactivateIs ==
    ASSUME NEW r, Fits(r), Staged(r.slot), r.resident # None, r.slot[Main] \in Frame
    PROVE  LET q == DeactivateSession(r)
           IN  /\ Fits(q) /\ q.slot \in SlotMap /\ Staged(q.slot)
               /\ q.slot[Main] = Main /\ q.slot[Log] = r.slot[Log] /\ r.slot[Log] = Log
               /\ q.resident = None /\ q.act = None /\ q.panes = r.panes /\ q.ch = r.ch
               /\ \A f \in Frame : Vacant(r.slot, f) => Vacant(q.slot, f)
<1> DEFINE q == DeactivateSession(r)
           new == SwapPane(r.slot, Main)
<1>1. r.slot \in SlotMap /\ r \in RtType
  BY DEF Fits, RtType, SlotMap
<1>2. r.slot[Log] = Log /\ r.slot[Main] # Log /\ Placed(r.slot, Main)
  BY PaneFacts DEF Staged
<1>3. q = [r EXCEPT !.slot = new, !.resident = None, !.act = None]
  BY <1>2 DEF DeactivateSession
<1>4. /\ new \in SlotMap /\ Staged(new) /\ new[Main] = Main /\ new[Log] = r.slot[Log]
      /\ \A f \in Frame : Vacant(r.slot, f) => Vacant(new, f)
  BY <1>1, <1>2, SwapPaneStaged, PaneFacts
<1> HIDE DEF new
<1>5. Fits(q)
  BY DeactivateSessionType
<1>6. /\ q.slot = new /\ q.resident = None /\ q.act = None /\ q.panes = r.panes /\ q.ch = r.ch
  BY <1>1, <1>3 DEF RtType
<1> HIDE DEF q
<1> QED  BY <1>2, <1>4, <1>5, <1>6 DEF q

LEMMA SwapHiddenIs ==
    ASSUME NEW r, Fits(r), Staged(r.slot)
    PROVE  LET q == SwapHidden(r)
           IN  /\ Fits(q) /\ q.slot \in SlotMap /\ Staged(q.slot)
               /\ q.slot[Main] = r.slot[Log] /\ q.slot[Log] = r.slot[Main]
               /\ q.resident = r.resident /\ q.act = r.act /\ q.panes = r.panes /\ q.ch = r.ch
               /\ \A f \in Frame : Vacant(r.slot, f) => Vacant(q.slot, f)
<1> DEFINE q == SwapHidden(r)
           new == Exchange(r.slot, Log, Main)
<1>1. r.slot \in SlotMap /\ r \in RtType
  BY DEF Fits, RtType, SlotMap
<1>2. q = [r EXCEPT !.slot = new]
  BY DEF SwapHidden
<1>3. /\ new \in SlotMap /\ Staged(new) /\ new[Main] = r.slot[Log] /\ new[Log] = r.slot[Main]
      /\ \A f \in Frame : Vacant(r.slot, f) => Vacant(new, f)
  BY <1>1, HiddenStaged
<1> HIDE DEF new
<1>4. Fits(q)
  BY SwapHiddenFits
<1>5. /\ q.slot = new /\ q.resident = r.resident /\ q.act = r.act /\ q.panes = r.panes /\ q.ch = r.ch
  BY <1>1, <1>2 DEF RtType
<1> HIDE DEF q
<1> QED  BY <1>3, <1>4, <1>5 DEF q

\* DeactivateSession and SwapOccupant wherever the TUIs are.
LEMMA DeactivateApart ==
    ASSUME NEW r, Fits(r), Apart(r.slot)
    PROVE  LET q == DeactivateSession(r)
           IN  /\ Fits(q) /\ q.slot \in SlotMap /\ Apart(q.slot) /\ VacancyKept(r.slot, q.slot)
               /\ q.panes = r.panes /\ q.ch = r.ch
<1> DEFINE q == DeactivateSession(r)
           new == SwapPane(r.slot, Main)
<1>0. r.slot \in SlotMap /\ r \in RtType
  BY DEF Fits, RtType, SlotMap
<1>1. CASE r.resident = None \/ ~Placed(r.slot, Main)
  <2>1. q = r
    BY <1>1 DEF DeactivateSession
  <2> QED  BY <1>0, <2>1 DEF VacancyKept
<1>2. CASE ~(r.resident = None \/ ~Placed(r.slot, Main))
  <2>1. q = [r EXCEPT !.slot = new, !.resident = None, !.act = None]
    BY <1>2 DEF DeactivateSession
  <2>2. new \in SlotMap /\ Apart(new) /\ VacancyKept(r.slot, new)
    BY <1>0, <1>2, SwapPaneApart, PaneFacts
  <2> HIDE DEF new
  <2>3. Fits(q)
    BY DeactivateSessionType
  <2>4. q.slot = new /\ q.panes = r.panes /\ q.ch = r.ch
    BY <1>0, <2>1 DEF RtType
  <2> HIDE DEF q
  <2> QED  BY <2>2, <2>3, <2>4 DEF q
<1> QED  BY <1>1, <1>2

LEMMA SwapOccupantApart ==
    ASSUME NEW r, Fits(r), Apart(r.slot)
    PROVE  LET q == SwapOccupant(r)
           IN  /\ Fits(q) /\ q.slot \in SlotMap /\ Apart(q.slot) /\ VacancyKept(r.slot, q.slot)
               /\ q.panes = r.panes /\ q.ch = r.ch
<1> DEFINE q == SwapOccupant(r)
           new == Exchange(r.slot, Log, Main)
<1>0. r.slot \in SlotMap /\ r \in RtType
  BY DEF Fits, RtType, SlotMap
<1>1. CASE r.slot[Log] = None
  <2>1. q = r
    BY <1>1 DEF SwapOccupant
  <2> QED  BY <1>0, <2>1 DEF VacancyKept
<1>2. CASE r.slot[Log] # None
  <2>1. q = SwapHidden(r) /\ q = [r EXCEPT !.slot = new]
    BY <1>2 DEF SwapOccupant, SwapHidden
  <2>2. new \in SlotMap /\ Apart(new) /\ VacancyKept(r.slot, new)
    BY <1>0, <1>2, HiddenApart
  <2> HIDE DEF new
  <2>3. Fits(q)
    BY <2>1, SwapHiddenFits
  <2>4. q.slot = new /\ q.panes = r.panes /\ q.ch = r.ch
    BY <1>0, <2>1 DEF RtType
  <2> HIDE DEF q
  <2> QED  BY <2>2, <2>3, <2>4 DEF q
<1> QED  BY <1>1, <1>2

\* With the TUIs at hand, swapHidden succeeds.
LEMMA SwapOccupantIs == ASSUME NEW r, Staged(r.slot) PROVE SwapOccupant(r) = SwapHidden(r)
  BY DEF SwapOccupant, Staged

LEMMA StoppedIs ==
    ASSUME NEW slot \in SlotMap, Stopped(slot), lost \in BOOLEAN
    PROVE  /\ phase' = "down" /\ st' = Empty /\ todo' = <<>> /\ spawning' = NoSpawns
           /\ rt'.slot = slot /\ rt'.slot \in SlotMap /\ rt' = Blank(rt'.slot, {})
           /\ slot = NoTmux => lost' = FALSE
           /\ Apart(slot) => lost' = lost
<1>1. rt' = Blank(slot, {}) /\ rt'.slot = slot
  BY DEF Stopped, Blank
<1>2. lost' = (lost /\ slot # NoTmux)
  BY DEF Stopped
<1>3. ASSUME Apart(slot)
      PROVE  lost' = lost
  <2>1. slot # NoTmux
    BY <1>3, PaneFacts DEF Apart, NoTmux
  <2> QED  BY <1>2, <2>1
<1> QED  BY <1>1, <1>2, <1>3 DEF Stopped

\* deactivateBeforeExit leaves no frame that counts in __hidden__.0.
LEMMA ExitStep == ASSUME Inv, Exit PROVE Inv'
<1> DEFINE slot == CASE rt.resident # None -> DeactivateSession(rt).slot
                     [] rt.resident = None /\ st.occupant = "log" -> SwapOccupant(rt).slot
                     [] OTHER -> rt.slot
<1>0. Stopped(slot) /\ UNCHANGED <<disk, env, kept, born, excused>>
  BY DEF Exit, ghosts
<1>1. /\ Fits(rt) /\ Stood /\ Apart(rt.slot) /\ (~lost => Staged(rt.slot)) /\ rt.slot \in SlotMap
      /\ phase = "up" /\ todo = <<>> /\ lost \in BOOLEAN
  BY Standing DEF Inv, TypeOK, Exit, Idle
<1>2. Shown /\ \A op : ~Has(op)
  BY <1>1, AtRest DEF Inv, Scene
<1>3. /\ ~lost => \A f \in Frame : rt.slot[Log] = f => f \notin env
      /\ \A f \in Frame : f \notin born => Vacant(rt.slot, f)
  BY <1>1 DEF Stood, Complete, Away
<1>4. slot \in SlotMap /\ Apart(slot) /\ \A f \in Frame : f \notin born => Vacant(slot, f)
  <2>1. CASE rt.resident # None
    <3>1. slot = DeactivateSession(rt).slot
      BY <2>1
    <3> HIDE DEF slot
    <3> QED  BY <1>1, <1>3, <3>1, DeactivateApart DEF VacancyKept
  <2>2. CASE rt.resident = None /\ st.occupant = "log"
    <3>1. slot = SwapOccupant(rt).slot
      BY <2>2
    <3> HIDE DEF slot
    <3> QED  BY <1>1, <1>3, <3>1, SwapOccupantApart DEF VacancyKept
  <2>3. CASE ~(rt.resident # None) /\ ~(rt.resident = None /\ st.occupant = "log")
    <3>1. slot = rt.slot
      BY <2>3
    <3> QED  BY <1>1, <1>3, <3>1
  <2> QED  BY <2>1, <2>2, <2>3
<1>5. ASSUME ~lost
      PROVE  Staged(slot) /\ \A f \in Frame : slot[Log] = f => f \notin env
  <2>1. CASE rt.resident # None
    <3>1. slot = DeactivateSession(rt).slot /\ rt.slot[Main] \in Frame
      BY <1>2, <1>5, <2>1 DEF Shown
    <3> HIDE DEF slot
    <3>2. Staged(slot) /\ slot[Log] = Log
      BY <1>1, <1>5, <2>1, <3>1, DeactivateIs
    <3> QED  BY <3>2, PaneFacts
  <2>2. CASE rt.resident = None /\ st.occupant = "log"
    <3>1. slot = SwapHidden(rt).slot
      BY <1>1, <1>5, <2>2, SwapOccupantIs
    <3> HIDE DEF slot
    <3>2. Staged(slot) /\ slot[Log] = rt.slot[Main]
      BY <1>1, <1>5, <3>1, SwapHiddenIs
    <3>3. rt.slot[Main] = Log
      BY <1>2, <1>5, <2>2 DEF Shown
    <3> QED  BY <3>2, <3>3, PaneFacts
  <2>3. CASE ~(rt.resident # None) /\ ~(rt.resident = None /\ st.occupant = "log")
    <3>1. slot = rt.slot
      BY <2>3
    <3> QED  BY <1>1, <1>3, <1>5, <3>1
  <2> QED  BY <2>1, <2>2, <2>3
<1> HIDE DEF slot
<1>6. /\ phase' = "down" /\ st' = Empty /\ todo' = <<>> /\ spawning' = NoSpawns
      /\ rt'.slot = slot /\ rt'.slot \in SlotMap /\ rt' = Blank(rt'.slot, {}) /\ lost' = lost
  BY <1>0, <1>1, <1>4, StoppedIs
<1>7. Left(slot)
  BY <1>4, <1>5 DEF Left
<1>8. \A s \in Session : s \in kept /\ s \notin excused =>
           disk[s].frames # <<>> /\ disk[s].frames[1] \in env
  BY <1>1, Promised
<1>9. disk \in [Session -> SessionRec]
  BY DEF Inv, TypeOK
<1> QED  BY <1>0, <1>6, <1>7, <1>8, <1>9, HaltedInv DEF Halted

LEMMA CrashStep == ASSUME Inv, Crash PROVE Inv'
<1>0. /\ Stopped(rt.slot) /\ UNCHANGED <<env, kept, born>> /\ CutShort /\ phase # "down"
      /\ excused' = excused \cup
           {s \in Live(st.sess) : phase = "cold" /\ st.sess[s].frames[1] \notin env}
  BY DEF Crash
<1>1. /\ Stood /\ Apart(rt.slot) /\ (~lost => Staged(rt.slot)) /\ rt.slot \in SlotMap
      /\ lost \in BOOLEAN
  BY <1>0, Standing DEF Inv, TypeOK
<1>2. Left(rt.slot)
  BY <1>1 DEF Stood, Complete, Away, Left
<1>3. /\ phase' = "down" /\ st' = Empty /\ todo' = <<>> /\ spawning' = NoSpawns
      /\ rt'.slot = rt.slot /\ rt'.slot \in SlotMap /\ rt' = Blank(rt'.slot, {}) /\ lost' = lost
  BY <1>0, <1>1, StoppedIs
<1>4. /\ disk' \in [Session -> SessionRec]
      /\ \A s \in Session : disk'[s] \in {disk[s], st.sess[s], NoSession}
      /\ \A s \in Session : s \in kept /\ s \notin excused =>
           /\ disk'[s].frames # <<>> /\ disk'[s].frames[1] = disk[s].frames[1]
  BY <1>0, CutShortIs
<1>5. \A s \in Session : s \in kept /\ s \notin excused' =>
         /\ disk'[s].frames # <<>> /\ disk'[s].frames[1] \in env
  <2> SUFFICES ASSUME NEW s \in Session, s \in kept, s \notin excused'
               PROVE  disk'[s].frames # <<>> /\ disk'[s].frames[1] \in env
    OBVIOUS
  <2>1. s \notin excused
    BY <1>0
  <2>2. /\ st.sess[s].frames # <<>> /\ disk[s].frames[1] = st.sess[s].frames[1]
        /\ phase # "cold" => st.sess[s].frames[1] \in env
    BY <1>0, <2>1, Promised
  <2>3. st.sess[s].frames[1] \in env
    BY <1>0, <2>2 DEF Live
  <2> QED  BY <1>4, <2>1, <2>2, <2>3
<1> QED  BY <1>0, <1>2, <1>3, <1>4, <1>5, HaltedInv DEF Halted

LEMMA NoTmuxType == NoTmux \in SlotMap
  BY DEF NoTmux, SlotMap

LEMMA RebootStep == ASSUME Inv, Reboot PROVE Inv'
<1>0. /\ Stopped(NoTmux) /\ UNCHANGED <<kept, born, excused>> /\ CutShort /\ env' = {}
  BY DEF Reboot, ghosts
<1>1. /\ phase' = "down" /\ st' = Empty /\ todo' = <<>> /\ spawning' = NoSpawns
      /\ rt'.slot = NoTmux /\ rt'.slot \in SlotMap /\ rt' = Blank(rt'.slot, {}) /\ lost' = FALSE
  BY <1>0, NoTmuxType, StoppedIs DEF Inv, TypeOK
<1>2. /\ disk' \in [Session -> SessionRec]
      /\ \A s \in Session : disk'[s] \in {disk[s], st.sess[s], NoSession}
      /\ \A s \in Session : s \in kept /\ s \notin excused => disk'[s].frames # <<>>
  BY <1>0, CutShortIs
<1> QED  BY <1>0, <1>1, <1>2, HaltedInv DEF Halted

LEMMA KillSessionStep == ASSUME Inv, DoKillSession PROVE Inv'
<1>0. /\ Stopped(NoTmux) /\ UNCHANGED <<disk, kept, born, excused>> /\ env' = {}
  BY DEF DoKillSession, ghosts
<1>1. /\ phase' = "down" /\ st' = Empty /\ todo' = <<>> /\ spawning' = NoSpawns
      /\ rt'.slot = NoTmux /\ rt'.slot \in SlotMap /\ rt' = Blank(rt'.slot, {}) /\ lost' = FALSE
  BY <1>0, NoTmuxType, StoppedIs DEF Inv, TypeOK
<1>2. /\ disk \in [Session -> SessionRec]
      /\ \A s \in Session : s \in kept /\ s \notin excused => disk[s].frames # <<>>
  BY DEF Inv, TypeOK, Safe
<1> QED  BY <1>0, <1>1, <1>2, HaltedInv DEF Halted

-----------------------------------------------------------------------------
(* A start.                                                                *)

\* Effects that may stand in any order.
AnyOrder == {"kill", "unregister", "recreate", "persist"}

LEMMA AnyOrderIs ==
    ASSUME NEW q \in Seq(Effect), \A e \in ToSet(q) : e.op \in AnyOrder
    PROVE  Ordered(q)
<1>1. \A i \in DOMAIN q : q[i].op \in AnyOrder
  BY DEF ToSet
<1> QED  BY <1>1 DEF Ordered, MayPrecede, AnyOrder

\* What every start has in common.
Started ==
    /\ phase = "down" /\ st' = [Empty EXCEPT !.sess = disk]
    /\ rt'.slot \in SlotMap /\ rt'.panes \subseteq Frame /\ rt' = Blank(rt'.slot, rt'.panes)
    /\ UNCHANGED <<spawning, disk, env, kept, born, excused, lost>>

LEMMA StartedIs ==
    ASSUME Inv, Started
    PROVE  /\ st'.sess = disk /\ st'.occupant = "main" /\ spawning' = NoSpawns
           /\ rt'.ch = <<>> /\ rt'.resident = None /\ rt'.act = None
           /\ \A f \in Frame : ~Coming(f)'
           /\ \A f \in Frame : Held(f)' <=> \E s \in Session : f \in Frames(disk[s])
           /\ (todo' \in Seq(Effect) => TypeOK') /\ Owners'
<1>0. TypeOK /\ Owners /\ spawning' = NoSpawns /\ disk' = disk
  BY DEF Inv, Started, ByPhase
<1>1. /\ Fits(rt') /\ rt'.ch = <<>> /\ rt'.resident = None /\ rt'.act = None
  BY BlankType DEF Started
<1>2. st' \in StType /\ st'.sess = disk /\ st'.occupant = "main"
  BY <1>0, NothingHeld DEF Started, StType, TypeOK
<1>3. \A f \in Frame : ~Coming(f)'
  BY <1>0, <1>1, NothingSpawned DEF Coming
<1>4. \A f \in Frame : Held(f)' <=> \E s \in Session : f \in Frames(disk[s])
  BY <1>2 DEF Held
<1>5. todo' \in Seq(Effect) => TypeOK'
  <2>1. /\ env' \subseteq Frame /\ kept' \subseteq Session /\ lost' \in BOOLEAN
        /\ spawning' \in [Frame -> Session \cup {None}]
    BY <1>0 DEF Started, TypeOK
  <2>2. \A s \in Session : SessionOK(disk[s])
    BY <1>0 DEF TypeOK
  <2>3. disk' \in [Session -> SessionRec]
    BY <1>0 DEF TypeOK
  <2> QED  BY <1>0, <1>1, <1>2, <2>1, <2>2, <2>3 DEF TypeOK
<1>6. \A f \in Frame, s \in Session : In(f, s)' => In(f, s)
  <2> SUFFICES ASSUME NEW f \in Frame, NEW s \in Session, In(f, s)'
               PROVE  In(f, s)
    OBVIOUS
  <2>1. ~InChannel(f, s)'
    BY <1>1 DEF InChannel
  <2>2. spawning'[f] # s
    BY <1>0, NothingSpawned, PaneFacts
  <2>3. f \in Frames(disk[s])
    BY <1>0, <1>2, <2>1, <2>2 DEF In
  <2> QED  BY <2>3 DEF In
<1>7. Owners'
  <2>1. /\ born' = born /\ env' = env
    BY DEF Started
  <2>2. \A s \in Session : NoDup(disk[s].frames)
    BY <1>0 DEF Owners
  <2>3. \A f \in Frame, s \in Session : In(f, s)' => f \in born' /\ s \in born'
    BY <1>0, <1>6, <2>1 DEF Owners
  <2>4. \A f \in Frame : \A s, t \in Session : In(f, s)' /\ In(f, t)' => s = t
    BY <1>0, <1>6 DEF Owners
  <2>5. \A s \in Session : NoDup(st'.sess[s].frames) /\ NoDup(disk'[s].frames)
    BY <1>0, <1>2, <2>2
  <2>6. \A s \in Session : disk'[s].frames[1] = st'.sess[s].frames[1]
    BY <1>0, <1>2
  <2>7. env' \subseteq born'
    BY <1>0, <2>1 DEF Owners
  <2> QED  BY <2>3, <2>4, <2>5, <2>6, <2>7 DEF Owners
<1> QED  BY <1>0, <1>1, <1>2, <1>3, <1>4, <1>5, <1>7

\* The hidden window is made anew only where a TUI was lost.
LEMMA WithHiddenIs ==
    ASSUME Inv, StartWarm
    PROVE  LET new == WithHidden(rt.slot)
           IN  /\ new \in SlotMap /\ Apart(new) /\ VacancyKept(rt.slot, new)
               /\ ~lost => new = rt.slot
<1> DEFINE new == WithHidden(rt.slot)
<1>0. rt.slot \in SlotMap /\ Apart(rt.slot) /\ (~lost => Staged(rt.slot))
  BY Standing DEF StartWarm
<1>1. CASE rt.slot[Log] # None
  <2>1. new = rt.slot
    BY <1>1 DEF WithHidden
  <2> QED  BY <1>0, <2>1 DEF VacancyKept
<1>2. CASE rt.slot[Log] = None
  <2>1. new = [rt.slot EXCEPT ![Log] = Log] /\ \A w \in Pane : rt.slot[w] # Log
    BY <1>2 DEF WithHidden, StartWarm, Placed
  <2> HIDE DEF new
  <2>2. /\ new \in SlotMap /\ Apart(new)
        /\ \A g \in Frame : g # Log /\ Vacant(rt.slot, g) => Vacant(new, g)
    BY <1>0, <2>1, WindowApart, PaneFacts
  <2>3. lost
    BY <1>0, <1>2 DEF Staged
  <2>4. VacancyKept(rt.slot, new)
    BY <2>2, PaneFacts DEF VacancyKept
  <2> QED  BY <2>2, <2>3, <2>4 DEF new
<1> QED  BY <1>1, <1>2

LEMMA StartWarmStep == ASSUME Inv, StartWarm PROVE Inv'
<1> DEFINE a == <<Eff("recover", None)>>
           b == <<Eff("reconcile", None)>>
           slot == WithHidden(rt.slot)
<1>0. /\ rt.slot # NoTmux /\ Stood /\ phase = "down" /\ phase' = "warm"
      /\ todo' = <<Eff("recover", None), Eff("reconcile", None)>>
      /\ rt' = Blank(slot, env) /\ lost' = lost
  BY Standing DEF StartWarm, Start, tuis
<1>1. env \subseteq Frame /\ rt'.slot = slot /\ rt'.panes = env
  BY <1>0 DEF Blank, Inv, TypeOK
<1>w. /\ slot \in SlotMap /\ Apart(slot) /\ (~lost => slot = rt.slot)
      /\ \A f \in Frame : Vacant(rt.slot, f) => Vacant(slot, f)
  BY WithHiddenIs DEF VacancyKept
<1> HIDE DEF slot
<1>n. slot # NoTmux
  BY <1>w, PaneFacts DEF Apart, NoTmux
<1>2. Started
  BY <1>0, <1>1, <1>w DEF StartWarm, Start, Started
<1>3. /\ todo' \in Seq(Effect) /\ Ordered(todo')
      /\ \A op : Has(op)' <=> op \in {"recover", "reconcile"}
      /\ \A f \in Frame : ~Asks("register", f)' /\ ~Asks("unregister", f)' /\ ~Asks("recreate", f)'
                          /\ ~Asks("answer", f)'
  <2>1. Eff("recover", None) \in Effect /\ Eff("reconcile", None) \in Effect
    BY DEF Effect, Eff, Ops, OnFrame
  <2>2. /\ a \in Seq(Effect) /\ Ordered(a) /\ \A op : Holds(a, op) <=> op = "recover"
        /\ \A op, f : HoldsOn(a, op, f) <=> op = "recover" /\ f = None
    BY <2>1, OneEffect
  <2>3. /\ b \in Seq(Effect) /\ Ordered(b) /\ \A op : Holds(b, op) <=> op = "reconcile"
        /\ \A op, f : HoldsOn(b, op, f) <=> op = "reconcile" /\ f = None
    BY <2>1, OneEffect
  <2>4. \A x \in ToSet(a), y \in ToSet(b) : MayPrecede(x, y)
    BY DEF ToSet, MayPrecede, Eff
  <2>5. todo' = a \o b
    BY <1>0
  <2> HIDE DEF a, b
  <2>6. /\ a \o b \in Seq(Effect) /\ Ordered(a \o b)
        /\ \A op : Holds(a \o b, op) <=> Holds(a, op) \/ Holds(b, op)
        /\ \A op, f : HoldsOn(a \o b, op, f) <=> HoldsOn(a, op, f) \/ HoldsOn(b, op, f)
    BY <2>2, <2>3, <2>4, MoreEffects
  <2>7. /\ \A op : Has(op)' <=> Holds(a, op) \/ Holds(b, op)
        /\ \A op, f : Asks(op, f)' <=> HoldsOn(a, op, f) \/ HoldsOn(b, op, f)
    BY <2>5, <2>6 DEF Has, Asks
  <2> QED  BY <2>2, <2>3, <2>5, <2>6, <2>7
<1>4. /\ st'.sess = disk /\ st'.occupant = "main" /\ spawning' = NoSpawns
      /\ rt'.ch = <<>> /\ rt'.resident = None
      /\ \A f \in Frame : ~Coming(f)'
      /\ TypeOK' /\ Owners'
  BY <1>2, <1>3, StartedIs
<1>5. /\ born' = born /\ env' = env /\ disk' = disk /\ kept' = kept /\ excused' = excused
  BY <1>2 DEF Started
<1>6. \A f \in Frame : ~Expected(f)'
  BY <1>3, <1>4 DEF Expected
<1>7. ByPhase' /\ InOrder'
  BY <1>0, <1>3, <1>4 DEF ByPhase, InOrder
<1>8. Slots' /\ Mirrors'
  <2>1. /\ ~lost => Staged(slot) /\ \A f \in Frame : slot[Log] = f => f \notin env
        /\ \A f \in Frame : f \notin born => Vacant(slot, f)
    BY <1>0, <1>w DEF Stood, Complete, Away
  <2>2. \A f \in Frame : spawning'[f] = None
    BY <1>4, NothingSpawned
  <2>c. ~lost => Complete'
    BY <1>0, <1>1, <1>5, <1>6, <2>1 DEF Complete, Away
  <2>3. Stood'
    BY <1>0, <1>1, <1>w, <1>5, <2>1, <2>2, <2>c DEF Stood
  <2> QED  BY <1>0, <1>1, <1>5, <2>3 DEF Slots, Mirrors
<1>9. Tasks' /\ Bound'
  BY <1>0, <1>3 DEF Tasks, Bound
<1>10. Safe'
  BY <1>0, <1>1, <1>n, <1>4, <1>5 DEF Safe, Inv
<1>11. Capacity'
  <2>1. Len(rt'.ch) = 0 /\ Cardinality(Spawns') = 0 /\ QueueCap \in Nat /\ ~Has("activate")'
    BY <1>3, <1>4, NothingSpawned, ConstantsAssumption DEF Spawns
  <2> QED  BY <2>1 DEF Capacity
<1>12. Scene'
  BY <1>3 DEF Scene
<1> QED  BY <1>4, <1>7, <1>8, <1>9, <1>10, <1>11, <1>12 DEF Inv

\* RecreateAll in any order: every frame of every session.
LEMMA RecreateAllIs ==
    ASSUME Inv, NEW order \in SetToSeqs(Live(disk))
    PROVE  LET q == FlattenSeq([i \in DOMAIN order |->
                      [j \in DOMAIN disk[order[i]].frames |->
                         Eff("recreate", disk[order[i]].frames[j])]])
           IN  /\ q \in Seq(Effect)
               /\ \A e \in ToSet(q) : e.op = "recreate"
               /\ \A f \in Frame : HoldsOn(q, "recreate", f) <=>
                                     \E s \in Session : f \in Frames(disk[s])
<1> DEFINE part(s) == [j \in DOMAIN disk[s].frames |-> Eff("recreate", disk[s].frames[j])]
           parts == [i \in DOMAIN order |-> part(order[i])]
           q == FlattenSeq(parts)
<1>1. Live(disk) \subseteq Session /\ IsFiniteSet(Live(disk))
  BY ConstantsAssumption, FS_Subset DEF Live
<1>2. order \in Seq(Live(disk)) /\ ToSet(order) = Live(disk)
  BY <1>1, SetToSeqsElements
<1>3. \A s \in Session : /\ disk[s].frames \in Seq(Frame)
                         /\ DOMAIN disk[s].frames = 1 .. Len(disk[s].frames)
                         /\ Len(disk[s].frames) \in Nat
  BY DEF Inv, TypeOK, SessionOK, SessionRec
<1>4. \A f \in Frame : Eff("recreate", f) \in Effect /\ Eff("recreate", f).op = "recreate"
                       /\ Eff("recreate", f).arg = f
  BY DEF Effect, Eff, Ops, OnFrame
<1>5. ASSUME NEW s \in Session
      PROVE  /\ part(s) \in Seq(Effect)
             /\ \A e : e \in ToSet(part(s)) <=> \E f \in Frames(disk[s]) : e = Eff("recreate", f)
  <2> DEFINE n == Len(disk[s].frames)
  <2>1. \A j \in 1 .. n : disk[s].frames[j] \in Frame
    BY <1>3
  <2>2. part(s) = [j \in 1 .. n |-> Eff("recreate", disk[s].frames[j])]
    BY <1>3
  <2>3. n \in Nat /\ DOMAIN part(s) = 1 .. n
        /\ \A j \in 1 .. n : part(s)[j] = Eff("recreate", disk[s].frames[j])
    BY <1>3, <2>2
  <2>4. part(s) \in [1 .. n -> Effect]
    BY <1>4, <2>1, <2>2
  <2>5. part(s) \in Seq(Effect)
    BY <2>3, <2>4
  <2>6. \A e : e \in ToSet(part(s)) <=> \E j \in 1 .. n : e = Eff("recreate", disk[s].frames[j])
    BY <2>3 DEF ToSet
  <2>7. \A f : f \in Frames(disk[s]) <=> \E j \in 1 .. n : f = disk[s].frames[j]
    BY <1>3 DEF Frames, ToSet
  <2> QED  BY <2>5, <2>6, <2>7
<1>6. \A s \in Session : Frames(disk[s]) \subseteq Frame
  BY <1>3 DEF Frames, ToSet
<1>7. \A i \in DOMAIN order : order[i] \in Session
  BY <1>1, <1>2
<1>8. parts \in Seq(Seq(Effect))
  <2>1. DOMAIN order = 1 .. Len(order) /\ Len(order) \in Nat
    BY <1>2
  <2> HIDE DEF part
  <2>2. parts \in [1 .. Len(order) -> Seq(Effect)]
    BY <1>5, <1>7, <2>1
  <2> QED  BY <2>1, <2>2
<1>9. \A i \in DOMAIN order : i \in DOMAIN parts /\ parts[i] = part(order[i])
  OBVIOUS
<1>10. DOMAIN parts = DOMAIN order
  OBVIOUS
<1> HIDE DEF part, parts
<1>11. q \in Seq(Effect) /\ \A e : e \in ToSet(q) <=> \E i \in DOMAIN order : e \in ToSet(part(order[i]))
  <2>1. q \in Seq(Effect) /\ \A e : e \in ToSet(q) <=> \E i \in DOMAIN parts : e \in ToSet(parts[i])
    BY <1>8, FlattenElements
  <2> QED  BY <1>9, <1>10, <2>1
<1> HIDE DEF q
<1>12. \A e \in ToSet(q) : \E s \in Session : \E f \in Frames(disk[s]) : e = Eff("recreate", f)
  BY <1>5, <1>7, <1>11
<1>13. ASSUME NEW s \in Session, NEW f \in Frames(disk[s])
       PROVE  Eff("recreate", f) \in ToSet(q)
  <2>1. disk[s].frames # <<>>
    BY <1>13 DEF Frames, ToSet
  <2>2. PICK i \in DOMAIN order : order[i] = s
    BY <1>2, <2>1 DEF Live, ToSet
  <2> QED  BY <1>5, <1>11, <1>13, <2>2
<1>14. \A e \in ToSet(q) : e.op = "recreate"
  BY <1>4, <1>6, <1>12
<1>15. \A f \in Frame : HoldsOn(q, "recreate", f) <=> \E s \in Session : f \in Frames(disk[s])
  BY <1>4, <1>6, <1>12, <1>13 DEF HoldsOn
<1> QED  BY <1>11, <1>14, <1>15 DEF q, parts, part

LEMMA StartColdStep == ASSUME Inv, StartCold PROVE Inv'
<1>0. /\ rt.slot = NoTmux /\ phase = "down" /\ phase' = "cold" /\ env' = env
      /\ rt' = Blank(AtHome, {}) /\ st' = [Empty EXCEPT !.sess = disk]
      /\ UNCHANGED <<spawning, disk, kept, born, excused, lost>>
  BY DEF StartCold, Start, tuis
<1>1. /\ todo' \in Seq(Effect)
      /\ \A e \in ToSet(todo') : e.op = "recreate"
      /\ \A f \in Frame : HoldsOn(todo', "recreate", f) <=>
                            \E s \in Session : f \in Frames(disk[s])
  <2>1. PICK order \in SetToSeqs(Live(disk)) :
           todo' = FlattenSeq([i \in DOMAIN order |->
                      [j \in DOMAIN disk[order[i]].frames |->
                         Eff("recreate", disk[order[i]].frames[j])]])
    BY DEF StartCold, Start
  <2> QED  BY <2>1, RecreateAllIs
<1>2. env = {} /\ ~lost /\ Ordered(todo')
  <2>1. env = {} /\ ~lost
    BY <1>0, PaneFacts DEF Inv, Slots, Stood, Apart, NoTmux
  <2>2. Ordered(todo')
    BY <1>1, AnyOrderIs DEF AnyOrder
  <2> QED  BY <2>1, <2>2
<1>3. rt'.slot = AtHome /\ rt'.panes = {}
  BY <1>0 DEF Blank
<1>4. Started
  BY <1>0, <1>3, HomeStaged DEF Started
<1>5. /\ st'.sess = disk /\ st'.occupant = "main" /\ spawning' = NoSpawns
      /\ rt'.ch = <<>> /\ rt'.resident = None
      /\ \A f \in Frame : ~Coming(f)'
      /\ \A f \in Frame : Held(f)' <=> \E s \in Session : f \in Frames(disk[s])
      /\ TypeOK' /\ Owners'
  BY <1>1, <1>4, StartedIs
<1>6. /\ \A op : Has(op)' => op = "recreate"
      /\ \A f \in Frame : Asks("recreate", f)' <=> Held(f)'
      /\ \A op, f : Asks(op, f)' => op = "recreate"
  BY <1>1, <1>5 DEF Has, Asks, Holds, HoldsOn
<1>7. \A f \in Frame : ~Expected(f)'
  BY <1>5, <1>6 DEF Expected
<1>8. ByPhase' /\ InOrder'
  BY <1>0, <1>2, <1>5, <1>6 DEF ByPhase, InOrder
<1>9. Slots' /\ Mirrors'
  <2>1. Stood'
    BY <1>0, <1>2, <1>3, HomeStaged, PaneFacts DEF Stood, Complete
  <2> QED  BY <1>0, <1>2, <1>3, <2>1 DEF Slots, Mirrors
<1>10. Tasks' /\ Bound'
  BY <1>0, <1>6 DEF Tasks, Bound
<1>11. Safe'
  <2> SUFFICES ASSUME NEW s \in Session, s \in kept, s \notin excused
               PROVE  /\ disk[s].frames # <<>>
                      /\ \E f \in Frame : disk[s].frames[1] = f /\ Asks("recreate", f)'
    BY <1>0, <1>5 DEF Safe
  <2>1. disk[s].frames # <<>> /\ disk[s].frames \in Seq(Frame)
    BY DEF Inv, Safe, TypeOK, SessionOK, SessionRec
  <2>2. disk[s].frames[1] \in Frame /\ disk[s].frames[1] \in Frames(disk[s])
    BY <2>1 DEF Frames, ToSet
  <2> QED  BY <1>5, <1>6, <2>1, <2>2
<1>12. Capacity'
  <2>1. Len(rt'.ch) = 0 /\ Cardinality(Spawns') = 0 /\ QueueCap \in Nat /\ ~Has("activate")'
    BY <1>5, <1>6, NothingSpawned, ConstantsAssumption DEF Spawns
  <2> QED  BY <2>1 DEF Capacity
<1>13. Scene'
  <2>1. rt'.slot[Main] = Main
    BY <1>3, HomeStaged
  <2>2. Shown' /\ Leftover'
    BY <1>5, <1>6, <2>1, PaneFacts DEF Shown, Leftover
  <2> QED  BY <2>2 DEF Scene
<1> QED  BY <1>5, <1>8, <1>9, <1>10, <1>11, <1>12, <1>13 DEF Inv

LEMMA EnterLoopStep == ASSUME Inv, EnterLoop PROVE Inv'
<1>0. /\ phase \in {"warm", "cold"} /\ todo = <<>> /\ phase' = "up"
      /\ UNCHANGED <<st, rt, todo, spawning, disk, env, kept, born, excused, lost>>
  BY DEF EnterLoop, ghosts, tuis
<1>1. /\ TypeOK /\ Owners /\ Mirrors /\ Bound /\ Safe /\ Capacity /\ Stood /\ Shown /\ Leftover
      /\ \A op : ~Has(op)
      /\ \A op, f : ~Asks(op, f)
      /\ rt.panes = env
  BY <1>0, AtRest, Standing DEF Inv, Scene, Mirrors
<1>2. /\ \A op : ~Has(op)'
      /\ \A op, f : ~Asks(op, f)'
      /\ \A f \in Frame : Held(f)' <=> Held(f)
      /\ \A f \in Frame : Expected(f)' <=> Expected(f)
  <2>1. (\A op : ~Has(op)') /\ \A op, f : ~Asks(op, f)'
    BY <1>0, NoEffects DEF Has, Asks
  <2>2. \A f \in Frame : Held(f)' <=> Held(f)
    BY <1>0 DEF Held
  <2>3. \A f \in Frame : Coming(f)' <=> Coming(f)
    BY <1>0 DEF Coming
  <2> QED  BY <1>1, <2>1, <2>2, <2>3 DEF Expected
<1>3. \A f \in Frame : Held(f) => f \in rt.panes
  BY <1>0, <1>1 DEF Bound
<1>4. TypeOK' /\ Owners'
  <2>1. TypeOK'
    BY <1>0, <1>1 DEF TypeOK
  <2>2. \A f \in Frame, s \in Session : In(f, s)' <=> In(f, s)
    BY <1>0 DEF In, InChannel
  <2>3. Owners'
    BY <1>0, <1>1, <2>2 DEF Owners
  <2> QED  BY <2>1, <2>3
<1>5. ByPhase' /\ InOrder'
  BY <1>0, <1>2, NoEffects DEF ByPhase, InOrder
<1>6. Slots' /\ Mirrors'
  <2>c. ~lost => Complete'
    BY <1>0, <1>1, <1>2, <1>3 DEF Stood, Complete, Away
  <2>1. Stood'
    BY <1>0, <1>1, <2>c DEF Stood
  <2> QED  BY <1>0, <1>1, <2>1 DEF Slots, Mirrors
<1>7. Tasks' /\ Bound'
  BY <1>0, <1>2, <1>3 DEF Tasks, Bound
<1>8. Safe'
  BY <1>0, <1>1 DEF Safe
<1>9. Capacity'
  BY <1>0, <1>1, <1>2 DEF Capacity, Spawns
<1>10. Scene'
  <2>1. Shown'
    BY <1>0, <1>1, <1>2 DEF Shown
  <2>2. Leftover'
    BY <1>0, <1>1, <1>2, <1>3 DEF Leftover
  <2> QED  BY <2>1, <2>2 DEF Scene
<1> QED  BY <1>4, <1>5, <1>6, <1>7, <1>8, <1>9, <1>10 DEF Inv

-----------------------------------------------------------------------------
(* What happens beside the effects.                                        *)

\* A step that moves panes alone, and neither 0.1 nor __hidden__.0.
Moved ==
    /\ UNCHANGED <<st, todo, phase, spawning, disk, env, kept, born, excused, lost>>
    /\ rt' \in RtType /\ rt'.panes = rt.panes /\ rt'.resident = rt.resident /\ rt'.act = rt.act
    /\ rt'.ch = rt.ch
    /\ rt'.slot[Main] = rt.slot[Main] /\ rt'.slot[Log] = rt.slot[Log]
    /\ \A w \in Pane : \/ rt'.slot[w] = rt.slot[w]
                       \/ rt'.slot[w] = None /\ rt.slot[w] \in Frame

LEMMA MovedInv == ASSUME Inv, Moved, Stood PROVE Inv'
<1>0. /\ UNCHANGED <<st, todo, phase, spawning, disk, env, kept, born, excused, lost>>
      /\ rt' \in RtType /\ rt'.panes = rt.panes /\ rt'.resident = rt.resident /\ rt'.act = rt.act
      /\ rt'.ch = rt.ch /\ rt'.slot[Main] = rt.slot[Main] /\ rt'.slot[Log] = rt.slot[Log]
  BY DEF Moved
<1>1. /\ \A op : Has(op)' <=> Has(op)
      /\ \A op, f : Asks(op, f)' <=> Asks(op, f)
      /\ \A f : Held(f)' <=> Held(f)
      /\ \A f : Expected(f)' <=> Expected(f)
      /\ \A f \in Frame, s \in Session : In(f, s)' <=> In(f, s)
  BY <1>0 DEF Has, Asks, Held, Expected, Coming, In, InChannel
<1>2. TypeOK' /\ Owners'
  <2>1. Fits(rt')
    BY <1>0 DEF Fits, Inv, TypeOK
  <2>2. TypeOK'
    BY <1>0, <2>1 DEF Inv, TypeOK
  <2>3. Owners'
    BY <1>0, <1>1 DEF Inv, Owners
  <2> QED  BY <2>2, <2>3
<1>3. ByPhase' /\ InOrder'
  BY <1>0, <1>1 DEF Inv, ByPhase, InOrder
<1>4. Stood'
  <2>1. rt.slot \in SlotMap /\ rt'.slot \in SlotMap
    BY <1>0 DEF Inv, TypeOK, Fits, RtType, SlotMap
  <2>2. Apart(rt'.slot) /\ \A f \in Frame : Vacant(rt.slot, f) => Vacant(rt'.slot, f)
    BY <1>0, <2>1, GoneApart DEF Stood, Moved, VacancyKept
  <2>3. phase = "cold" => ~lost /\ \A w \in Pane : rt'.slot[w] \in {w, None}
    BY DEF Stood, Moved
  <2>4. ASSUME ~lost
        PROVE  Complete'
    <3>1. Staged(rt'.slot)
      BY <1>0, <2>1, <2>4, GoneStaged DEF Stood, Complete, Moved
    <3>2. \A f \in Frame : rt'.slot[Log] = f => Away(f)'
      BY <1>0, <1>1, <2>4 DEF Stood, Complete, Away
    <3> QED  BY <3>1, <3>2 DEF Complete
  <2> QED  BY <1>0, <2>2, <2>3, <2>4 DEF Stood
<1>5. Slots' /\ Mirrors'
  BY <1>0, <1>4 DEF Slots, Mirrors, Inv
<1>6. Tasks' /\ Bound'
  BY <1>0, <1>1 DEF Tasks, Bound, Inv
<1>7. Safe'
  <2>1. rt.slot # NoTmux
    BY PaneFacts DEF Stood, Apart, NoTmux
  <2> QED  BY <1>0, <1>1, <2>1 DEF Safe, Inv
<1>8. Capacity'
  BY <1>0, <1>1 DEF Capacity, Spawns, Inv
<1>9. Scene'
  <2>1. Shown => Shown'
    BY <1>0, <1>1 DEF Shown
  <2>2. Leftover => Leftover'
    BY <1>0, <1>1 DEF Leftover
  <2> QED  BY <1>0, <1>1, <2>1, <2>2 DEF Scene, Inv
<1> QED  BY <1>2, <1>3, <1>5, <1>6, <1>7, <1>8, <1>9 DEF Inv

\* The same, as the steps leave the runtime's record.
LEMMA SlotsAlone ==
    ASSUME Inv, NEW slot \in SlotMap, rt' = [rt EXCEPT !.slot = slot]
    PROVE  /\ rt' \in RtType /\ rt'.panes = rt.panes /\ rt'.resident = rt.resident
           /\ rt'.act = rt.act /\ rt'.ch = rt.ch /\ rt'.slot = slot
  BY DEF Inv, TypeOK, Fits, RtType, SlotMap

LEMMA ProcessExitStep ==
    ASSUME Inv, NEW f \in Frame, ProcessExit(f)
    PROVE  Inv'
<1> DEFINE slot == [w \in Pane |-> IF rt.slot[w] = f THEN None ELSE rt.slot[w]]
<1>0. /\ Placed(rt.slot, f) /\ UNCHANGED <<st, todo, phase, spawning, disk, env, kept, born, excused, lost>>
      /\ rt' = IF f \in {rt.slot[Main], rt.slot[Log]} THEN rt ELSE [rt EXCEPT !.slot = slot]
  BY DEF ProcessExit, mem, ghosts, tuis
<1>1. rt.slot # NoTmux
  BY <1>0, PaneFacts DEF Placed, NoTmux
<1>2. Stood /\ rt.slot \in SlotMap
  BY <1>1, Standing
<1>3. slot \in SlotMap /\ \A w \in Pane : slot[w] = IF rt.slot[w] = f THEN None ELSE rt.slot[w]
  BY <1>2 DEF SlotMap
<1> HIDE DEF slot
<1>4. CASE f \in {rt.slot[Main], rt.slot[Log]}
  <2>1. rt' = rt /\ rt \in RtType
    BY <1>0, <1>4 DEF Inv, TypeOK, Fits
  <2>2. Moved
    BY <1>0, <2>1 DEF Moved
  <2> QED  BY <1>2, <2>2, MovedInv
<1>5. CASE f \notin {rt.slot[Main], rt.slot[Log]}
  <2>1. rt' = [rt EXCEPT !.slot = slot]
    BY <1>0, <1>5
  <2>2. /\ rt' \in RtType /\ rt'.panes = rt.panes /\ rt'.resident = rt.resident
        /\ rt'.act = rt.act /\ rt'.ch = rt.ch /\ rt'.slot = slot
    BY <1>3, <2>1, SlotsAlone
  <2>3. Moved
    BY <1>0, <1>3, <1>5, <2>2, PaneFacts DEF Moved
  <2> QED  BY <1>2, <2>3, MovedInv
<1> QED  BY <1>4, <1>5

\* Which frames, and whose, an event of the channel is about.
Tells(e, f) == e.type \in {"spawned", "spawnFailed"} /\ e.frame = f

LEMMA ChannelIs ==
    /\ \A f : Coming(f) <=> spawning[f] # None \/ \E e \in ToSet(rt.ch) : Tells(e, f)
    /\ \A f, s : InChannel(f, s) <=> \E e \in ToSet(rt.ch) : Tells(e, f) /\ e.sess = s
    /\ \A f : Coming(f)' <=> spawning'[f] # None \/ \E e \in ToSet(rt'.ch) : Tells(e, f)
    /\ \A f, s : InChannel(f, s)' <=> \E e \in ToSet(rt'.ch) : Tells(e, f) /\ e.sess = s
  BY DEF Coming, InChannel, Tells, ToSet

LEMMA EventTells ==
    /\ \A s \in Session, f \in Frame : \A g :
         /\ Tells(Spawned(s, f), g) <=> g = f
         /\ Tells(SpawnFailed(s, f), g) <=> g = f
    /\ \A s \in Session, f \in Frame : Spawned(s, f).sess = s /\ SpawnFailed(s, f).sess = s
    /\ \A f \in Frame : \A g : ~Tells(Vanished(f), g)
  BY DEF Tells, Spawned, SpawnFailed, Vanished

\* The window of f, and the event that says so or says that there is none.
LEMMA SpawnWindowIs ==
    ASSUME Inv, NEW f \in Frame, SpawnWindow(f)
    PROVE  LET s == spawning[f]
           IN  /\ s \in Session /\ phase = "up"
               /\ rt' \in RtType /\ Fits(rt') /\ rt'.panes = rt.panes
               /\ rt'.resident = rt.resident /\ rt'.act = rt.act
               /\ \E p \in {f, None} : rt'.slot = [rt.slot EXCEPT ![f] = p]
               /\ Len(rt'.ch) <= Len(rt.ch) + 1
               /\ \E e : /\ e \in {Spawned(s, f), SpawnFailed(s, f)}
                         /\ ToSet(rt'.ch) = ToSet(rt.ch) \cup {e}
               /\ Cardinality(Spawns') = Cardinality(Spawns) - 1
<1> DEFINE s == spawning[f]
<1>0. /\ phase = "up" /\ s # None /\ spawning' = [spawning EXCEPT ![f] = None]
      /\ \E p \in {f, None} : \E e \in {Spawned(s, f), SpawnFailed(s, f)} :
           rt' = Enqueue([rt EXCEPT !.slot[f] = p], <<e>>)
  BY DEF SpawnWindow
<1>1. s \in Session /\ spawning \in [Frame -> Session \cup {None}] /\ rt \in RtType /\ Len(rt.ch) <= QueueCap
      /\ rt.slot \in SlotMap
  BY <1>0 DEF Inv, TypeOK, Fits, RtType, SlotMap
<1>2. /\ Cardinality(Spawns') = Cardinality(Spawns) - 1
      /\ Len(rt.ch) + 1 <= QueueCap
  <2>1. f \in Spawns /\ Spawns' = Spawns \ {f}
    BY <1>0, <1>1 DEF Spawns
  <2>2. /\ Len(rt.ch) \in Nat /\ QueueCap \in Nat
        /\ IsFiniteSet(Spawns) /\ Cardinality(Spawns) \in Nat
    BY SpawnsCount DEF Inv
  <2>3. Cardinality(Spawns \ {f}) = Cardinality(Spawns) - 1 /\ Cardinality(Spawns \ {f}) \in Nat
    <3>1. IsFiniteSet(Spawns \ {f}) /\ Cardinality(Spawns \ {f}) = Cardinality(Spawns) - 1
      BY <2>1, <2>2, FS_RemoveElement
    <3> QED  BY <3>1, FS_CardinalityType
  <2>4. Len(rt.ch) + Cardinality(Spawns) <= QueueCap
    BY <2>2 DEF Inv, Capacity
  <2> QED  BY <2>1, <2>2, <2>3, <2>4
<1> HIDE DEF s
<1>3. PICK p \in {f, None}, e \in {Spawned(s, f), SpawnFailed(s, f)} :
           rt' = Enqueue([rt EXCEPT !.slot[f] = p], <<e>>)
  BY <1>0
<1> DEFINE slot == [rt.slot EXCEPT ![f] = p]
           r == [rt EXCEPT !.slot = slot]
<1>4. slot \in SlotMap
  BY <1>1, PaneFacts DEF SlotMap
<1>5. /\ rt' = Enqueue(r, <<e>>)
      /\ r \in RtType /\ r.panes = rt.panes /\ r.resident = rt.resident /\ r.act = rt.act
      /\ r.ch = rt.ch /\ r.slot = slot
  <2>1. [rt EXCEPT !.slot[f] = p] = r
    BY <1>1 DEF RtType
  <2>2. rt' = Enqueue(r, <<e>>)
    BY <1>3, <2>1
  <2> HIDE DEF slot
  <2> QED  BY <1>1, <1>4, <2>2 DEF RtType, SlotMap
<1>6. e \in Event /\ <<e>> \in Seq(Event) /\ Len(<<e>>) = 1 /\ ToSet(<<e>>) = {e}
  BY <1>1, EventTypes, OneEvent
<1> HIDE DEF r, slot
<1>7. /\ Fits(rt') /\ rt' = [r EXCEPT !.ch = rt'.ch]
  BY <1>5, <1>6, EnqueueType
<1>8. /\ ToSet(rt'.ch) = ToSet(rt.ch) \cup {e} /\ Len(rt'.ch) <= Len(rt.ch) + 1
  BY <1>1, <1>2, <1>5, <1>6, EnqueueSet
<1>9. /\ rt'.panes = rt.panes /\ rt'.resident = rt.resident /\ rt'.act = rt.act /\ rt'.slot = slot
  BY <1>5, <1>7 DEF RtType
<1> QED  BY <1>0, <1>1, <1>2, <1>7, <1>8, <1>9 DEF Fits, s, slot

LEMMA SpawnWindowStep ==
    ASSUME Inv, NEW f \in Frame, SpawnWindow(f)
    PROVE  Inv'
<1> DEFINE s == spawning[f]
<1>0. /\ UNCHANGED <<st, todo, phase, disk, env, kept, born, excused, lost>>
      /\ spawning' = [spawning EXCEPT ![f] = None] /\ phase = "up" /\ s # None
  BY DEF SpawnWindow, ghosts, tuis
<1>1. /\ s \in Session /\ Fits(rt') /\ rt'.panes = rt.panes
      /\ rt'.resident = rt.resident /\ rt'.act = rt.act
      /\ Len(rt'.ch) <= Len(rt.ch) + 1
      /\ Cardinality(Spawns') = Cardinality(Spawns) - 1
  BY SpawnWindowIs DEF Fits
<1>2. PICK p \in {f, None} : rt'.slot = [rt.slot EXCEPT ![f] = p]
  BY SpawnWindowIs
<1>3. PICK e : /\ e \in {Spawned(s, f), SpawnFailed(s, f)}
               /\ ToSet(rt'.ch) = ToSet(rt.ch) \cup {e}
  BY SpawnWindowIs
<1>4. spawning \in [Frame -> Session \cup {None}] /\ Stood /\ rt.slot \in SlotMap
  BY <1>0, Standing DEF Inv, TypeOK
<1>5. /\ \A g \in Frame : spawning'[g] = IF g = f THEN None ELSE spawning[g]
      /\ spawning' \in [Frame -> Session \cup {None}]
  BY <1>0, <1>4
<1> HIDE DEF s
<1>6. /\ \A g : Tells(e, g) <=> g = f
      /\ e.sess = s
  BY <1>1, <1>3, EventTells
<1>7. /\ \A op : Has(op)' <=> Has(op)
      /\ \A op, g : Asks(op, g)' <=> Asks(op, g)
      /\ \A g : Held(g)' <=> Held(g)
  BY <1>0 DEF Has, Asks, Held
<1>8. /\ \A g \in Frame : Coming(g)' <=> Coming(g)
      /\ \A g \in Frame : Expected(g)' <=> Expected(g)
  <2>1. Coming(f) /\ Coming(f)'
    BY <1>0, <1>3, <1>6, ChannelIs DEF s
  <2>2. \A g \in Frame : g # f => (Coming(g)' <=> Coming(g))
    BY <1>3, <1>5, <1>6, ChannelIs
  <2>3. \A g \in Frame : Coming(g)' <=> Coming(g)
    BY <2>1, <2>2
  <2> QED  BY <1>7, <2>3 DEF Expected
<1>9. \A g \in Frame, t \in Session : In(g, t)' => In(g, t)
  <2> SUFFICES ASSUME NEW g \in Frame, NEW t \in Session, In(g, t)'
               PROVE  In(g, t)
    OBVIOUS
  <2>1. CASE g \in Frames(disk'[t]) \/ g \in Frames(st'.sess[t])
    BY <1>0, <2>1 DEF In
  <2>2. CASE spawning'[g] = t
    BY <1>5, <2>2, PaneFacts DEF In
  <2>3. CASE InChannel(g, t)'
    <3>1. InChannel(g, t) \/ (g = f /\ t = s)
      BY <1>3, <1>6, <2>3, ChannelIs
    <3> QED  BY <3>1 DEF In, s
  <2> QED  BY <2>1, <2>2, <2>3 DEF In
<1>10. f \in born
  BY <1>1 DEF Inv, Owners, In, s
<1>11. TypeOK' /\ Owners'
  <2>1. TypeOK'
    BY <1>0, <1>1, <1>5 DEF Inv, TypeOK
  <2>2. Owners'
    BY <1>0, <1>9 DEF Inv, Owners
  <2> QED  BY <2>1, <2>2
<1>12. ByPhase' /\ InOrder'
  BY <1>0, <1>7 DEF Inv, ByPhase, InOrder
<1>13. /\ rt'.slot[Main] = rt.slot[Main] /\ rt'.slot[Log] = rt.slot[Log]
       /\ Stood'
  <2>1. Vacant(rt.slot, f) /\ Apart(rt.slot) /\ (~lost => Staged(rt.slot))
    BY <1>0, <1>4 DEF Stood, Complete, s
  <2>2. rt.slot[f] \in {f, None} /\ \A w \in Pane : rt.slot[w] = f => w = f
    BY <2>1 DEF Vacant, Placed
  <2>3. /\ Apart(rt'.slot) /\ rt'.slot[Main] = rt.slot[Main] /\ rt'.slot[Log] = rt.slot[Log]
        /\ \A g \in Frame : g # f /\ Vacant(rt.slot, g) => Vacant(rt'.slot, g)
        /\ ~lost => Staged(rt'.slot)
    <3> DEFINE slot == rt.slot
               new == [slot EXCEPT ![f] = p]
    <3>1. /\ slot \in SlotMap /\ Apart(slot) /\ slot[f] \in {f, None} /\ f \in Pane \ {Main}
          /\ \A w \in Pane : slot[w] = f => w = f
          /\ ~lost => Staged(slot)
      BY <1>4, <2>1, <2>2, PaneFacts
    <3>2. rt'.slot = new
      BY <1>2
    <3> HIDE DEF slot
    <3>3. /\ Apart(new) /\ new[Main] = slot[Main]
          /\ \A g \in Frame : g # f /\ Vacant(slot, g) => Vacant(new, g)
      BY <3>1, WindowApart
    <3>4. new[Log] = slot[Log]
      BY <3>1, PaneFacts DEF SlotMap
    <3>5. ~lost => Staged(new)
      BY <3>1, WindowStaged
    <3> HIDE DEF new
    <3> QED  BY <3>2, <3>3, <3>4, <3>5 DEF slot
  <2>4. ~lost => \A g \in Frame : rt'.slot[Log] = g => Away(g)'
    BY <1>0, <1>4, <1>7, <1>8, <2>3 DEF Stood, Complete, Away
  <2>5. \A g \in Frame : spawning'[g] # None \/ g \notin born' => Vacant(rt'.slot, g)
    BY <1>0, <1>4, <1>5, <1>10, <2>3 DEF Stood
  <2>6. ~lost => Complete'
    BY <2>3, <2>4 DEF Complete
  <2> QED  BY <1>0, <2>3, <2>5, <2>6 DEF Stood
<1>14. Slots' /\ Mirrors'
  BY <1>0, <1>1, <1>13 DEF Slots, Mirrors, Inv
<1>15. Tasks' /\ Bound'
  BY <1>0, <1>1, <1>7, <1>8 DEF Tasks, Bound, Inv
<1>16. Safe'
  <2>1. rt.slot # NoTmux
    BY <1>0, Standing
  <2> QED  BY <1>0, <2>1 DEF Safe, Inv
<1>17. Capacity'
  <2>1. /\ Len(rt.ch) \in Nat /\ QueueCap \in Nat /\ Cardinality(Spawns) \in Nat
    BY SpawnsCount DEF Inv
  <2>2. Len(rt'.ch) \in Nat
    BY <1>1 DEF Fits, RtType
  <2>3. (IF Has("activate") THEN 1 ELSE 0) \in Nat
        /\ (IF Has("activate")' THEN 1 ELSE 0) = (IF Has("activate") THEN 1 ELSE 0)
    BY <1>7
  <2> DEFINE a == IF Has("activate") THEN 1 ELSE 0
  <2>4. Len(rt.ch) + Cardinality(Spawns) + a <= QueueCap
    BY DEF Inv, Capacity
  <2>5. Capacity' <=> Len(rt'.ch) + Cardinality(Spawns') + a <= QueueCap
    BY <2>3 DEF Capacity
  <2> HIDE DEF a
  <2> QED  BY <1>1, <2>1, <2>2, <2>3, <2>4, <2>5 DEF a
<1>18. Scene'
  <2>1. Shown => Shown'
    BY <1>0, <1>1, <1>7, <1>13 DEF Shown
  <2>2. Leftover => Leftover'
    BY <1>0, <1>1, <1>7, <1>8, <1>13 DEF Leftover
  <2> QED  BY <1>0, <1>7, <2>1, <2>2 DEF Scene, Inv
<1> QED  BY <1>11, <1>12, <1>14, <1>15, <1>16, <1>17, <1>18 DEF Inv

-----------------------------------------------------------------------------
(* Effects, one at a time.                                                 *)

LEMMA OneDone ==
    ASSUME Inv, todo # <<>>, todo' = Tail(todo)
    PROVE  /\ Head(todo) \in Effect /\ Head(todo).op \in Ops
           /\ todo' \in Seq(Effect) /\ InOrder'
           /\ \A op : Has(op) <=> op = Head(todo).op \/ Has(op)'
           /\ \A op, f : Asks(op, f) <=> (op = Head(todo).op /\ f = Head(todo).arg) \/ Asks(op, f)'
           /\ \A op : Has(op)' =>
                /\ op \notin {"deactivate", "recover", "register"}
                /\ op = "swap" => Head(todo).op \notin {"swap", "activate"}
                /\ op = "activate" => Head(todo).op \notin {"activate", "deactivate"}
                /\ op = "reconcile" => Head(todo).op = "recover"
                /\ Head(todo).op \notin {"answer", "killSession"}
           /\ \A f : ~Asks("register", f)'
           /\ \A op, f : Asks(op, f)' => Has(op)'
           /\ \A op, f : Asks(op, f) => Has(op)
<1>1. todo \in Seq(Effect) /\ Ordered(todo)
  BY DEF Inv, TypeOK, InOrder
<1>2. /\ Head(todo) \in Effect /\ todo' \in Seq(Effect) /\ Ordered(todo')
      /\ \A op : Holds(todo, op) <=> op = Head(todo).op \/ Holds(todo', op)
      /\ \A op, f : HoldsOn(todo, op, f) <=>
                      (op = Head(todo).op /\ f = Head(todo).arg) \/ HoldsOn(todo', op, f)
      /\ \A e \in ToSet(todo') : MayPrecede(Head(todo), e)
  BY <1>1, FewerEffects
<1>3. Head(todo).op \in Ops
  BY <1>2 DEF Effect
<1>4. \A op : Has(op)' =>
                /\ op \notin {"deactivate", "recover", "register"}
                /\ op = "swap" => Head(todo).op \notin {"swap", "activate"}
                /\ op = "activate" => Head(todo).op \notin {"activate", "deactivate"}
                /\ op = "reconcile" => Head(todo).op = "recover"
                /\ Head(todo).op \notin {"answer", "killSession"}
  BY <1>2 DEF Has, Holds, MayPrecede
<1>5. /\ \A op, f : Asks(op, f)' => Has(op)'
      /\ \A op, f : Asks(op, f) => Has(op)
  BY DEF Asks, Has, HoldsOn, Holds
<1>6. \A f : ~Asks("register", f)'
  BY <1>4, <1>5
<1>7. /\ \A op : Has(op) <=> op = Head(todo).op \/ Has(op)'
      /\ \A op, f : Asks(op, f) <=> (op = Head(todo).op /\ f = Head(todo).arg) \/ Asks(op, f)'
      /\ InOrder'
  BY <1>2 DEF Has, Asks, InOrder
<1> QED  BY <1>2, <1>3, <1>4, <1>5, <1>6, <1>7

\* The phase in which an effect runs.
LEMMA PhaseOf ==
    ASSUME Inv, todo # <<>>, phase # "down"
    PROVE  LET op == Head(todo).op
           IN  /\ op \in {"kill", "activate", "deactivate", "swap", "register", "answer"} => phase = "up"
               /\ op = "unregister" => phase \in {"warm", "up"}
               /\ op \in {"recover", "reconcile"} => phase = "warm"
               /\ op = "recreate" => phase = "cold"
<1>1. todo \in Seq(Effect) /\ Ordered(todo)
  BY DEF Inv, TypeOK, InOrder
<1>2. Has(Head(todo).op) /\ Head(todo).op \in Ops
  BY <1>1, FewerEffects DEF Has, Effect
<1> QED  BY <1>2 DEF Inv, ByPhase

\* An effect that moves panes, and changes what the runtime shows.
PaneStep ==
    /\ todo # <<>> /\ todo' = Tail(todo)
    /\ Head(todo).op \in {"kill", "activate", "deactivate", "swap"}
    /\ UNCHANGED <<st, phase, spawning, disk, env, kept, born, excused, lost>>
    /\ phase = "up" /\ Fits(rt') /\ rt'.panes = rt.panes
    /\ \A e, f : Tells(e, f) => (e \in ToSet(rt'.ch) <=> e \in ToSet(rt.ch))
    /\ Apart(rt'.slot) /\ VacancyKept(rt.slot, rt'.slot)

LEMMA PaneStepIs ==
    ASSUME Inv, PaneStep
    PROVE  /\ \A f : Held(f)' <=> Held(f)
           /\ \A f : Coming(f)' <=> Coming(f)
           /\ \A f : Expected(f)' <=> Expected(f)
<1>1. \A f : Held(f)' <=> Held(f)
  BY DEF PaneStep, Held
<1>2. \A f : Coming(f)' <=> Coming(f)
  BY ChannelIs DEF PaneStep
<1>3. \A f : Asks("register", f)' <=> Asks("register", f)
  BY OneDone DEF PaneStep
<1> QED  BY <1>1, <1>2, <1>3 DEF Expected

LEMMA PaneStepInv ==
    ASSUME Inv, PaneStep, Capacity', Shown', Leftover',
           ~lost => Staged(rt'.slot) /\ \A f \in Frame : rt'.slot[Log] = f => Away(f)
    PROVE  Inv'
<1>0. /\ UNCHANGED <<st, phase, spawning, disk, env, kept, born, excused, lost>>
      /\ phase = "up" /\ rt'.panes = rt.panes /\ todo # <<>> /\ todo' = Tail(todo)
      /\ Head(todo).op \in {"kill", "activate", "deactivate", "swap"}
  BY DEF PaneStep
<1>1. /\ \A f : Held(f)' <=> Held(f)
      /\ \A f : Expected(f)' <=> Expected(f)
  BY PaneStepIs
<1>2. /\ todo' \in Seq(Effect) /\ InOrder'
      /\ \A op : Has(op)' => Has(op)
      /\ \A op : Has(op) /\ op \notin {"kill", "activate", "deactivate", "swap"} => Has(op)'
      /\ \A op, f : Asks(op, f)' => Asks(op, f)
      /\ \A op, f : Asks(op, f) /\ op \notin {"kill", "activate", "deactivate", "swap"} => Asks(op, f)'
  BY <1>0, OneDone
<1>3. \A f \in Frame, s \in Session : In(f, s)' <=> In(f, s)
  <2>1. \A f, s : InChannel(f, s)' <=> InChannel(f, s)
    BY ChannelIs DEF PaneStep
  <2> QED  BY <1>0, <2>1 DEF In
<1>4. TypeOK' /\ Owners'
  <2>1. TypeOK'
    BY <1>0, <1>2 DEF Inv, TypeOK, PaneStep
  <2>2. Owners'
    BY <1>0, <1>3 DEF Inv, Owners
  <2> QED  BY <2>1, <2>2
<1>5. ByPhase'
  BY <1>0, <1>2 DEF Inv, ByPhase
<1>6. Slots' /\ Mirrors'
  <2>1. Stood
    BY <1>0, Standing
  <2>2. ~lost => Complete'
    BY <1>0, <1>1 DEF Complete, Away
  <2>3. Stood'
    BY <1>0, <2>1, <2>2 DEF Stood, PaneStep, VacancyKept
  <2> QED  BY <1>0, <2>3 DEF Slots, Mirrors, Inv
<1>7. Tasks' /\ Bound'
  <2>1. Tasks'
    BY <1>0, <1>1, <1>2 DEF Tasks, Inv
  <2>2. Bound'
    BY <1>0, <1>1 DEF Bound, Inv
  <2> QED  BY <2>1, <2>2
<1>8. Safe'
  <2>1. rt.slot # NoTmux
    BY <1>0, Standing
  <2> QED  BY <1>0, <2>1 DEF Safe, Inv
<1>9. Scene'
  BY DEF Scene
<1> QED  BY <1>2, <1>4, <1>5, <1>6, <1>7, <1>8, <1>9 DEF Inv

\* Nothing more is in the channel, and activate is done or still to come.
LEMMA SameCapacity ==
    ASSUME Inv, spawning' = spawning, Len(rt'.ch) \in Nat, Len(rt'.ch) <= Len(rt.ch),
           Has("activate")' => Has("activate")
    PROVE  Capacity'
<1>1. /\ Len(rt.ch) \in Nat /\ QueueCap \in Nat /\ Cardinality(Spawns) \in Nat
  BY SpawnsCount DEF Inv
<1>2. Spawns' = Spawns
  BY DEF Spawns
<1>3. Len(rt.ch) + Cardinality(Spawns) + (IF Has("activate") THEN 1 ELSE 0) <= QueueCap
  BY DEF Inv, Capacity
<1> QED  BY <1>1, <1>2, <1>3 DEF Capacity

\* Before an effect on panes: the daemon is up, and 0.1 is known.
LEMMA PaneBefore ==
    ASSUME Inv, todo # <<>>, phase # "down",
           Head(todo).op \in {"kill", "activate", "deactivate", "swap"}
    PROVE  /\ phase = "up" /\ Stood /\ Apart(rt.slot) /\ rt.slot \in SlotMap
           /\ ~lost => Staged(rt.slot)
           /\ Fits(rt) /\ rt \in RtType /\ rt.panes = env
           /\ Shown /\ Leftover
           /\ \A op \in {"recover", "reconcile", "recreate"} : ~Has(op)
           /\ Has(Head(todo).op)
<1>1. phase = "up" /\ Has(Head(todo).op)
  <2>1. todo \in Seq(Effect) /\ Ordered(todo)
    BY DEF Inv, TypeOK, InOrder
  <2> QED  BY <2>1, PhaseOf, FewerEffects DEF Has
<1>2. Stood /\ rt.slot \in SlotMap
  BY Standing
<1>3. \A op \in {"recover", "reconcile", "recreate"} : ~Has(op)
  BY <1>1 DEF Inv, ByPhase
<1>4. Shown /\ Leftover
  BY <1>1, <1>3 DEF Inv, Scene
<1> QED  BY <1>1, <1>2, <1>3, <1>4, Standing DEF Inv, TypeOK, Fits, Mirrors

LEMMA DoPaneIs ==
    ASSUME DoPane
    PROVE  /\ todo # <<>> /\ todo' = Tail(todo) /\ phase # "down"
           /\ UNCHANGED <<st, phase, spawning, disk, env, kept, born, excused, lost>>
           /\ Head(todo).op \in {"kill", "activate", "deactivate", "swap"}
           /\ Head(todo).op = "kill" =>
                rt' = [rt EXCEPT !.slot = KillPaneWindows(@, {Head(todo).arg} \cap rt.panes)]
           /\ Head(todo).op = "activate" => rt' = ActivateSession(rt, st.sess, Head(todo).arg)
           /\ Head(todo).op = "deactivate" => rt' = DeactivateSession(rt)
           /\ Head(todo).op = "swap" => rt' = SwapOccupant(rt)
  BY DEF DoPane, Head1, Rest, Arg, mem, ghosts, tuis

\* ActivateSession: nothing to do, a report that the window is gone, or a swap.
LEMMA ActivateCases ==
    ASSUME NEW r, Fits(r), Apart(r.slot), NEW sess \in [Session -> SessionRec],
           NEW s \in Session, Len(r.ch) + 1 <= QueueCap
    PROVE  LET q == ActivateSession(r, sess, s)
           IN  /\ Fits(q) /\ q.panes = r.panes
               /\ \A e, f : Tells(e, f) => (e \in ToSet(q.ch) <=> e \in ToSet(r.ch))
               /\ Len(q.ch) <= Len(r.ch) + 1
               /\ \/ q.slot = r.slot /\ q.resident = r.resident /\ q.act = r.act
                  \/ /\ q.resident # None /\ q.act \in Frame /\ Placed(r.slot, q.act)
                     /\ q.slot = SwapPane(r.slot, q.act)
<1> DEFINE q == ActivateSession(r, sess, s)
           f == ActiveFrame(sess[s])
<1>0. r \in RtType /\ r.slot \in SlotMap /\ Len(r.ch) \in Nat /\ Len(r.ch) <= QueueCap
  BY DEF Fits, RtType, SlotMap
<1>1. CASE s \notin Live(sess) \/ f \notin r.panes \/ r.act = f
  <2>1. q = r
    BY <1>1 DEF ActivateSession
  <2> HIDE DEF q
  <2> QED  BY <1>0, <2>1 DEF q
<1>2. CASE /\ ~(s \notin Live(sess) \/ f \notin r.panes \/ r.act = f)
           /\ ~Placed(r.slot, f)
  <2> DEFINE evs == <<Vanished(f)>>
  <2>1. q = Enqueue(r, evs) /\ f \in Frame
    BY <1>0, <1>2 DEF ActivateSession, RtType
  <2>2. evs \in Seq(Event) /\ Len(evs) = 1 /\ ToSet(evs) = {Vanished(f)}
    BY <2>1, EventTypes, OneEvent
  <2>3. \A g : ~Tells(Vanished(f), g)
    BY <2>1, EventTells
  <2> HIDE DEF q, f, evs
  <2>4. Fits(q) /\ q = [r EXCEPT !.ch = q.ch]
    BY <1>0, <2>1, <2>2, EnqueueType
  <2>5. ToSet(q.ch) = ToSet(r.ch) \cup {Vanished(f)} /\ Len(q.ch) <= Len(r.ch) + 1
    BY <1>0, <2>1, <2>2, EnqueueSet
  <2>6. q.panes = r.panes /\ q.slot = r.slot /\ q.resident = r.resident /\ q.act = r.act
    BY <1>0, <2>4 DEF RtType
  <2> QED  BY <2>3, <2>4, <2>5, <2>6 DEF q
<1>3. CASE /\ ~(s \notin Live(sess) \/ f \notin r.panes \/ r.act = f)
           /\ Placed(r.slot, f)
  <2> DEFINE new == SwapPane(r.slot, f)
  <2>1. q = [r EXCEPT !.slot = new, !.resident = s, !.act = f] /\ f \in Frame
    BY <1>0, <1>3 DEF ActivateSession, RtType
  <2>2. Fits(q)
    BY ActivateSessionType
  <2> HIDE DEF new, f
  <2>3. q.slot = new /\ q.panes = r.panes /\ q.resident = s /\ q.act = f /\ q.ch = r.ch
    BY <1>0, <2>1 DEF RtType
  <2> HIDE DEF q
  <2> QED  BY <1>0, <1>3, <2>1, <2>2, <2>3, PaneFacts DEF q, new
<1> QED  BY <1>1, <1>2, <1>3

\* Each of them moves panes, and loses none, wherever the TUIs are.
LEMMA PaneMoves == ASSUME Inv, DoPane PROVE PaneStep /\ Capacity'
<1>0. /\ todo # <<>> /\ todo' = Tail(todo) /\ phase # "down"
      /\ UNCHANGED <<st, phase, spawning, disk, env, kept, born, excused, lost>>
      /\ Head(todo).op \in {"kill", "activate", "deactivate", "swap"}
  BY DoPaneIs
<1>1. /\ phase = "up" /\ Apart(rt.slot) /\ rt.slot \in SlotMap /\ Fits(rt) /\ rt \in RtType
      /\ Has(Head(todo).op)
  BY <1>0, PaneBefore
<1>2. /\ \A op : Has(op)' => Has(op)
      /\ Head(todo) \in Effect
      /\ Head(todo).op = "activate" => ~Has("activate")'
  BY <1>0, OneDone
<1>3. /\ Len(rt.ch) \in Nat /\ Cardinality(Spawns) \in Nat /\ QueueCap \in Nat
      /\ Has("activate") => Len(rt.ch) + Cardinality(Spawns) + 1 <= QueueCap
  BY SpawnsCount DEF Inv, Capacity
<1>4. ASSUME Fits(rt'), rt'.panes = rt.panes, rt'.ch = rt.ch, Apart(rt'.slot),
             VacancyKept(rt.slot, rt'.slot)
      PROVE  PaneStep /\ Capacity'
  <2>1. PaneStep
    BY <1>0, <1>1, <1>4 DEF PaneStep
  <2>2. Capacity'
    BY <1>0, <1>2, <1>3, <1>4, SameCapacity
  <2> QED  BY <2>1, <2>2
<1>5. CASE Head(todo).op = "kill"
  <2> DEFINE F == {Head(todo).arg} \cap rt.panes
             slot == KillPaneWindows(rt.slot, F)
  <2>1. rt' = [rt EXCEPT !.slot = slot]
    BY <1>5, DoPaneIs
  <2>2. \A w \in Pane : slot[w] = IF w # Main /\ rt.slot[w] \in F THEN None ELSE rt.slot[w]
    BY DEF KillPaneWindows
  <2>3. slot \in SlotMap
    BY <1>1 DEF KillPaneWindows, SlotMap
  <2> HIDE DEF slot
  <2>4. Apart(slot) /\ VacancyKept(rt.slot, slot)
    BY <1>1, <2>2, <2>3, GoneApart, PaneFacts
  <2>5. rt' \in RtType /\ rt'.panes = rt.panes /\ rt'.ch = rt.ch /\ rt'.slot = slot
    BY <2>1, <2>3, SlotsAlone
  <2>6. Fits(rt')
    BY <1>1, <2>5 DEF Fits
  <2> QED  BY <1>4, <2>4, <2>5, <2>6
<1>6. CASE Head(todo).op = "deactivate"
  <2>1. rt' = DeactivateSession(rt)
    BY <1>6, DoPaneIs
  <2> QED  BY <1>1, <1>4, <2>1, DeactivateApart
<1>7. CASE Head(todo).op = "swap"
  <2>1. rt' = SwapOccupant(rt)
    BY <1>7, DoPaneIs
  <2> QED  BY <1>1, <1>4, <2>1, SwapOccupantApart
<1>8. CASE Head(todo).op = "activate"
  <2>1. rt' = ActivateSession(rt, st.sess, Head(todo).arg)
    BY <1>8, DoPaneIs
  <2>2. Head(todo).arg \in Session /\ st.sess \in [Session -> SessionRec]
    BY <1>2, <1>8 DEF Effect, Inv, TypeOK, StType
  <2>3. Len(rt.ch) + Cardinality(Spawns) + 1 <= QueueCap
    BY <1>1, <1>3, <1>8
  <2>4. Len(rt.ch) + 1 <= QueueCap
    BY <1>3, <2>3
  <2>5. /\ Fits(rt') /\ rt'.panes = rt.panes
        /\ \A e, f : Tells(e, f) => (e \in ToSet(rt'.ch) <=> e \in ToSet(rt.ch))
        /\ Len(rt'.ch) <= Len(rt.ch) + 1
        /\ \/ rt'.slot = rt.slot
           \/ rt'.act \in Frame /\ Placed(rt.slot, rt'.act) /\ rt'.slot = SwapPane(rt.slot, rt'.act)
    BY <1>1, <2>1, <2>2, <2>4, ActivateCases
  <2>6. Apart(rt'.slot) /\ VacancyKept(rt.slot, rt'.slot)
    <3>1. CASE rt'.slot = rt.slot
      BY <1>1, <3>1 DEF VacancyKept
    <3>2. CASE rt'.act \in Frame /\ Placed(rt.slot, rt'.act) /\ rt'.slot = SwapPane(rt.slot, rt'.act)
      BY <1>1, <3>2, SwapPaneApart, PaneFacts
    <3> QED  BY <2>5, <3>1, <3>2
  <2>7. PaneStep
    BY <1>0, <1>1, <2>5, <2>6 DEF PaneStep
  <2>8. Capacity'
    <3>1. Spawns' = Spawns /\ Len(rt'.ch) \in Nat /\ ~Has("activate")'
      BY <1>0, <1>2, <1>8, <2>5 DEF Spawns, Fits, RtType
    <3> QED  BY <1>3, <2>3, <2>5, <3>1 DEF Capacity
  <2> QED  BY <2>7, <2>8
<1> QED  BY <1>0, <1>5, <1>6, <1>7, <1>8

LEMMA KillStep ==
    ASSUME Inv, DoPane, ~lost, Head(todo).op = "kill"
    PROVE  Inv'
<1> DEFINE F == {Head(todo).arg} \cap rt.panes
           slot == KillPaneWindows(rt.slot, F)
<1>0. /\ todo # <<>> /\ todo' = Tail(todo) /\ phase # "down"
      /\ UNCHANGED <<st, phase, spawning, disk, env, kept, born, excused, lost>>
      /\ rt' = [rt EXCEPT !.slot = slot]
  BY DoPaneIs
<1>1. /\ phase = "up" /\ Stood /\ Complete /\ Staged(rt.slot) /\ rt.slot \in SlotMap
      /\ rt \in RtType /\ rt.panes = env /\ Shown /\ Leftover
  BY <1>0, PaneBefore DEF Stood
<1>2. \A w \in Pane : slot[w] = IF w # Main /\ rt.slot[w] \in F THEN None ELSE rt.slot[w]
  BY DEF KillPaneWindows
<1>3. slot \in SlotMap
  BY <1>1 DEF KillPaneWindows, SlotMap
<1>4. F \subseteq env /\ F \subseteq Frame
  BY <1>1 DEF RtType
<1> HIDE DEF F, slot
<1>5. slot[Main] = rt.slot[Main] /\ slot[Log] = rt.slot[Log]
  <2>1. rt.slot[Log] \notin F
    BY <1>1, <1>4 DEF Complete, Away
  <2> QED  BY <1>2, <2>1, PaneFacts
<1>6. Staged(slot)
  BY <1>1, <1>2, <1>3, <1>4, <1>5, GoneStaged
<1>7. /\ rt'.panes = rt.panes /\ rt'.resident = rt.resident
      /\ rt'.act = rt.act /\ rt'.slot = slot
  BY <1>0, <1>3, SlotsAlone
<1>8. PaneStep /\ Capacity'
  BY PaneMoves
<1>9. /\ \A op : Has(op)' => Has(op)
      /\ \A op : Has(op) /\ op # "kill" => Has(op)'
      /\ \A f : Held(f)' <=> Held(f)
      /\ \A f : Expected(f)' <=> Expected(f)
      /\ \A op \in {"recover", "reconcile", "recreate"} : ~Has(op)
  BY <1>0, <1>8, OneDone, PaneStepIs, PaneBefore
<1>10. \A f \in Frame : rt'.slot[Log] = f => Away(f)
  BY <1>1, <1>5, <1>7 DEF Complete
<1>11. Shown'
  BY <1>0, <1>1, <1>5, <1>7, <1>9 DEF Shown
<1>12. Leftover'
  BY <1>0, <1>1, <1>5, <1>7, <1>9 DEF Leftover
<1> QED  BY <1>6, <1>7, <1>8, <1>10, <1>11, <1>12, PaneStepInv

LEMMA DeactivateStep ==
    ASSUME Inv, DoPane, ~lost, Head(todo).op = "deactivate"
    PROVE  Inv'
<1>0. /\ todo # <<>> /\ todo' = Tail(todo) /\ phase # "down"
      /\ UNCHANGED <<st, phase, spawning, disk, env, kept, born, excused, lost>>
      /\ rt' = DeactivateSession(rt)
  BY DoPaneIs
<1>1. /\ phase = "up" /\ Stood /\ Staged(rt.slot) /\ rt.slot \in SlotMap
      /\ Fits(rt) /\ rt.panes = env /\ Shown /\ Leftover /\ Has("deactivate")
  BY <1>0, PaneBefore
<1>2. rt.slot[Main] # Log /\ rt.slot[Log] = Log
  BY <1>1, PaneFacts DEF Shown, Staged
<1>3. /\ rt'.panes = rt.panes
      /\ Staged(rt'.slot) /\ rt'.slot[Main] # Log /\ rt'.slot[Log] = Log
      /\ rt'.resident = None
      /\ rt' = rt \/ rt'.slot[Main] = Main
  <2>1. CASE rt.resident = None
    <3>1. rt' = rt
      BY <1>0, <2>1 DEF DeactivateSession
    <3> QED  BY <1>1, <1>2, <2>1, <3>1
  <2>2. CASE rt.resident # None
    <3>1. rt.slot[Main] \in Frame
      BY <1>1, <2>2 DEF Shown
    <3> QED  BY <1>0, <1>1, <2>2, <3>1, DeactivateIs, PaneFacts
  <2> QED  BY <2>1, <2>2
<1>4. PaneStep /\ Capacity'
  BY PaneMoves
<1>5. /\ \A op : Has(op)' => Has(op)
      /\ ~Has("deactivate")'
      /\ \A op : Has(op) /\ op # "deactivate" => Has(op)'
      /\ \A f : Held(f)' <=> Held(f)
      /\ \A f : Expected(f)' <=> Expected(f)
      /\ \A op \in {"recover", "reconcile", "recreate"} : ~Has(op)
  BY <1>0, <1>4, OneDone, PaneStepIs, PaneBefore
<1>6. \A f \in Frame : rt'.slot[Log] # f
  BY <1>3, PaneFacts
<1>7. Shown'
  BY <1>0, <1>1, <1>2, <1>3, <1>5 DEF Shown
<1>8. Leftover'
  BY <1>0, <1>1, <1>3, <1>5, PaneFacts DEF Leftover
<1> QED  BY <1>3, <1>4, <1>6, <1>7, <1>8, PaneStepInv

LEMMA SwapStep ==
    ASSUME Inv, DoPane, ~lost, Head(todo).op = "swap"
    PROVE  Inv'
<1>0. /\ todo # <<>> /\ todo' = Tail(todo) /\ phase # "down"
      /\ UNCHANGED <<st, phase, spawning, disk, env, kept, born, excused, lost>>
      /\ rt' = SwapOccupant(rt)
  BY DoPaneIs
<1>1. /\ phase = "up" /\ Stood /\ Complete /\ Staged(rt.slot) /\ rt.slot \in SlotMap
      /\ Fits(rt) /\ rt.panes = env /\ Shown /\ Leftover /\ Has("swap")
  BY <1>0, PaneBefore DEF Stood
<1>2. /\ Staged(rt'.slot)
      /\ rt'.slot[Main] = rt.slot[Log] /\ rt'.slot[Log] = rt.slot[Main]
      /\ rt'.resident = rt.resident /\ rt'.act = rt.act /\ rt'.panes = rt.panes
  <2>1. rt' = SwapHidden(rt)
    BY <1>0, <1>1, SwapOccupantIs
  <2> QED  BY <1>1, <2>1, SwapHiddenIs
<1>3. /\ \A op : Has(op)' => Has(op)
      /\ ~Has("swap")' /\ ~Has("deactivate")' /\ ~Has("deactivate")
      /\ \A op : Has(op) /\ op # "swap" => Has(op)'
      /\ \A op \in {"recover", "reconcile", "recreate"} : ~Has(op)
  BY <1>0, OneDone, PaneBefore
<1>4. rt.resident = None
  BY <1>1, <1>3 DEF Shown
<1>5. PaneStep /\ Capacity'
  BY PaneMoves
<1>6. /\ \A f : Held(f)' <=> Held(f)
      /\ \A f : Expected(f)' <=> Expected(f)
  BY <1>5, PaneStepIs
<1>7. \A f \in Frame : rt'.slot[Log] = f => Away(f)
  BY <1>1, <1>2, <1>3, <1>4 DEF Leftover, Away
<1>8. (rt.slot[Log] = Log) <=> rt.slot[Main] # Log
  BY <1>1, PaneFacts DEF Staged, OneSlot
<1>9. Shown'
  BY <1>0, <1>1, <1>2, <1>3, <1>4, <1>8 DEF Shown
<1>10. Leftover'
  <2>1. \A f \in Frame : rt.slot[Log] = f => f \notin rt.panes /\ ~Held(f) /\ ~Expected(f)
    BY <1>1 DEF Complete, Away
  <2> QED  BY <1>0, <1>2, <1>3, <1>6, <2>1 DEF Leftover
<1> QED  BY <1>2, <1>5, <1>7, <1>9, <1>10, PaneStepInv

LEMMA ActivateStep ==
    ASSUME Inv, DoPane, ~lost, Head(todo).op = "activate"
    PROVE  Inv'
<1>0. /\ todo # <<>> /\ todo' = Tail(todo) /\ phase # "down"
      /\ UNCHANGED <<st, phase, spawning, disk, env, kept, born, excused, lost>>
      /\ rt' = ActivateSession(rt, st.sess, Head(todo).arg)
  BY DoPaneIs
<1>1. /\ phase = "up" /\ Stood /\ Apart(rt.slot) /\ Staged(rt.slot) /\ rt.slot \in SlotMap
      /\ Fits(rt) /\ rt.panes = env /\ Shown /\ Leftover /\ Has("activate")
  BY <1>0, PaneBefore
<1>2. /\ \A op : Has(op)' => Has(op)
      /\ ~Has("swap")' /\ ~Has("deactivate")' /\ ~Has("deactivate") /\ ~Has("swap") /\ ~Has("activate")'
      /\ \A op \in {"recover", "reconcile", "recreate"} : ~Has(op)
      /\ Head(todo) \in Effect
  BY <1>0, OneDone, PaneBefore
<1>3. /\ st.occupant = "frame" /\ rt.slot[Main] # Log /\ rt.slot[Log] = Log
  BY <1>1, <1>2, PaneFacts DEF Shown, Staged
<1>4. Len(rt.ch) + 1 <= QueueCap
  <2>1. /\ Len(rt.ch) \in Nat /\ Cardinality(Spawns) \in Nat /\ QueueCap \in Nat
        /\ Len(rt.ch) + Cardinality(Spawns) + 1 <= QueueCap
    BY <1>1, SpawnsCount DEF Inv, Capacity
  <2> QED  BY <2>1
<1>5. Head(todo).arg \in Session /\ st.sess \in [Session -> SessionRec]
  BY <1>0, <1>2 DEF Effect, Inv, TypeOK, StType
<1>6. /\ rt'.panes = rt.panes
      /\ \/ rt'.slot = rt.slot /\ rt'.resident = rt.resident /\ rt'.act = rt.act
         \/ /\ rt'.resident # None /\ rt'.act \in Frame /\ Placed(rt.slot, rt'.act)
            /\ rt'.slot = SwapPane(rt.slot, rt'.act)
  BY <1>0, <1>1, <1>4, <1>5, ActivateCases
<1>7. \/ rt'.slot = rt.slot /\ rt'.resident = rt.resident /\ rt'.act = rt.act
      \/ /\ Staged(rt'.slot) /\ rt'.slot[Log] = Log /\ rt'.resident # None
         /\ rt'.act \in Frame /\ rt'.slot[Main] = rt'.act
  <2>1. ASSUME rt'.act \in Frame, Placed(rt.slot, rt'.act), rt'.slot = SwapPane(rt.slot, rt'.act)
        PROVE  Staged(rt'.slot) /\ rt'.slot[Log] = Log /\ rt'.slot[Main] = rt'.act
    <3>1. rt'.act \in Pane /\ rt'.act # Log /\ rt.slot[Log] # rt'.act
      BY <1>3, <2>1, PaneFacts
    <3> QED  BY <1>1, <1>3, <2>1, <3>1, SwapPaneStaged
  <2> QED  BY <1>6, <2>1
<1>8. PaneStep /\ Capacity'
  BY PaneMoves
<1>9. /\ \A f : Held(f)' <=> Held(f)
      /\ \A f : Expected(f)' <=> Expected(f)
  BY <1>8, PaneStepIs
<1>10. Staged(rt'.slot) /\ \A f \in Frame : rt'.slot[Log] # f
  BY <1>1, <1>3, <1>7, PaneFacts
<1>11. CASE rt'.slot = rt.slot /\ rt'.resident = rt.resident /\ rt'.act = rt.act
  <2>1. Shown'
    BY <1>0, <1>1, <1>2, <1>3, <1>11 DEF Shown
  <2>2. Leftover'
    BY <1>0, <1>1, <1>2, <1>6, <1>9, <1>11 DEF Leftover
  <2> QED  BY <1>8, <1>10, <2>1, <2>2, PaneStepInv
<1>12. CASE rt'.act \in Frame /\ rt'.slot[Main] = rt'.act /\ rt'.resident # None
  <2>1. Shown'
    BY <1>0, <1>1, <1>2, <1>3, <1>12, PaneFacts DEF Shown
  <2>2. Leftover'
    BY <1>12 DEF Leftover
  <2> QED  BY <1>8, <1>10, <2>1, <2>2, PaneStepInv
<1> QED  BY <1>7, <1>11, <1>12

\* With a TUI lost, nothing is said of 0.1.
LEMMA LostPaneStep == ASSUME Inv, DoPane, lost PROVE Inv'
<1>1. PaneStep /\ Capacity' /\ lost' = lost
  BY PaneMoves, DoPaneIs
<1>2. Shown' /\ Leftover'
  BY <1>1 DEF Shown, Leftover
<1> QED  BY <1>1, <1>2, PaneStepInv

\* What an effect that leaves the state, the goroutines and the channel alone
\* leaves of the frames.
LEMMA SameFrames ==
    ASSUME UNCHANGED <<st, spawning>>, rt'.ch = rt.ch
    PROVE  /\ \A f : Held(f)' <=> Held(f)
           /\ \A f : Coming(f)' <=> Coming(f)
           /\ \A f, s : InChannel(f, s)' <=> InChannel(f, s)
  BY DEF Held, Coming, InChannel

LEMMA RegisterStep == ASSUME Inv, DoRegister PROVE Inv'
<1> DEFINE f == Head(todo).arg
<1>0. /\ todo # <<>> /\ todo' = Tail(todo) /\ phase # "down" /\ Head(todo).op = "register"
      /\ UNCHANGED <<st, phase, spawning, disk, kept, born, excused, lost>>
      /\ rt' = [rt EXCEPT !.panes = @ \cup {f}] /\ env' = env \cup {f}
  BY DEF DoRegister, Head1, Rest, Arg, mem, ghosts, tuis
<1>1. phase = "up" /\ Stood /\ rt.slot # NoTmux /\ rt.panes = env
  BY <1>0, PhaseOf, Standing DEF Inv, Mirrors
<1>2. /\ f \in Frame /\ todo' \in Seq(Effect) /\ InOrder'
      /\ \A op : Has(op) <=> op = "register" \/ Has(op)'
      /\ \A op, g : Asks(op, g) <=> (op = "register" /\ g = f) \/ Asks(op, g)'
      /\ \A g : ~Asks("register", g)'
  BY <1>0, OneDone DEF Effect, OnFrame
<1>3. /\ Held(f) /\ Expected(f) /\ Asks("register", f)
  BY <1>2 DEF Inv, Tasks, Expected
<1>4. /\ rt' \in RtType /\ rt'.panes = env' /\ rt'.ch = rt.ch /\ rt'.slot = rt.slot
      /\ rt'.resident = rt.resident /\ rt'.act = rt.act
  <2>1. rt \in RtType /\ rt.panes \subseteq Frame
    BY DEF Inv, TypeOK, Fits, RtType
  <2> QED  BY <1>0, <1>1, <1>2, <2>1 DEF RtType
<1> HIDE DEF f
<1>5. /\ \A g : Held(g)' <=> Held(g)
      /\ \A g \in Frame : Expected(g) => Expected(g)' \/ g = f
      /\ \A g : Expected(g)' => Expected(g)
      /\ \A g, s : In(g, s)' <=> In(g, s)
  <2>1. /\ \A g : Held(g)' <=> Held(g)
        /\ \A g : Coming(g)' <=> Coming(g)
        /\ \A g, s : InChannel(g, s)' <=> InChannel(g, s)
    BY <1>0, <1>4, SameFrames
  <2> QED  BY <1>0, <1>2, <2>1 DEF Expected, In
<1>6. TypeOK' /\ Owners'
  <2>1. Fits(rt')
    BY <1>4 DEF Fits, Inv, TypeOK
  <2>2. TypeOK'
    BY <1>0, <1>2, <2>1 DEF Inv, TypeOK
  <2>3. f \in born
    BY <1>2, <1>3 DEF Inv, Owners, Held, In
  <2>4. Owners'
    BY <1>0, <1>5, <2>3 DEF Inv, Owners
  <2> QED  BY <2>2, <2>4
<1>7. ByPhase'
  BY <1>0, <1>2, <1>4 DEF Inv, ByPhase
<1>8. Slots' /\ Mirrors'
  <2>1. ~lost => rt.slot[Log] # f
    BY <1>1, <1>2, <1>3 DEF Stood, Complete, Away
  <2>2. ~lost => Complete'
    BY <1>0, <1>1, <1>4, <1>5, <2>1 DEF Stood, Complete, Away
  <2>3. Stood'
    BY <1>0, <1>1, <1>4, <2>2 DEF Stood
  <2> QED  BY <1>0, <1>1, <1>4, <2>3 DEF Slots, Mirrors
<1>9. Tasks'
  BY <1>0, <1>2, <1>5 DEF Inv, Tasks
<1>10. Bound'
  BY <1>0, <1>1, <1>2, <1>4, <1>5 DEF Inv, Bound
<1>11. Safe'
  BY <1>0, <1>1, <1>4 DEF Inv, Safe
<1>12. Capacity'
  BY <1>0, <1>2, <1>4, SameCapacity, SpawnsCount DEF Inv
<1>13. Scene'
  <2>1. ~Has("recover") /\ ~Has("reconcile")
    BY <1>1 DEF Inv, ByPhase
  <2>2. Shown /\ Leftover
    BY <1>1, <2>1 DEF Inv, Scene
  <2>3. Shown'
    BY <1>0, <1>2, <1>4, <2>2 DEF Shown
  <2>4. Leftover'
    BY <1>0, <1>1, <1>2, <1>3, <1>4, <1>5, <2>1, <2>2 DEF Leftover
  <2> QED  BY <2>3, <2>4 DEF Scene
<1> QED  BY <1>2, <1>6, <1>7, <1>8, <1>9, <1>10, <1>11, <1>12, <1>13 DEF Inv

LEMMA UnregisterStep == ASSUME Inv, DoUnregister PROVE Inv'
<1> DEFINE f == Head(todo).arg
<1>0. /\ todo # <<>> /\ todo' = Tail(todo) /\ phase # "down" /\ Head(todo).op = "unregister"
      /\ UNCHANGED <<st, phase, spawning, disk, kept, born, excused, lost>>
      /\ rt' = [rt EXCEPT !.panes = @ \ {f}] /\ env' = env \ ({f} \cap rt.panes)
  BY DEF DoUnregister, Head1, Rest, Arg, mem, ghosts, tuis
<1>1. phase \in {"warm", "up"} /\ Stood /\ rt.slot # NoTmux /\ rt.panes = env
  BY <1>0, PhaseOf, Standing DEF Inv, Mirrors
<1>2. /\ f \in Frame /\ todo' \in Seq(Effect) /\ InOrder'
      /\ \A op : Has(op) <=> op = "unregister" \/ Has(op)'
      /\ \A op, g : Asks(op, g) <=> (op = "unregister" /\ g = f) \/ Asks(op, g)'
      /\ ~Has("reconcile")' /\ ~Has("recover")'
  BY <1>0, OneDone DEF Effect, OnFrame
<1>3. ~Held(f)
  BY <1>2 DEF Inv, Tasks
<1>4. /\ rt' \in RtType /\ rt'.panes = env' /\ rt'.ch = rt.ch /\ rt'.slot = rt.slot
      /\ rt'.resident = rt.resident /\ rt'.act = rt.act /\ env' = env \ {f}
  <2>1. rt \in RtType /\ rt.panes \subseteq Frame
    BY DEF Inv, TypeOK, Fits, RtType
  <2> QED  BY <1>0, <1>1, <2>1 DEF RtType
<1> HIDE DEF f
<1>5. /\ \A g : Held(g)' <=> Held(g)
      /\ \A g : Expected(g)' <=> Expected(g)
      /\ \A g, s : In(g, s)' <=> In(g, s)
  <2>1. /\ \A g : Held(g)' <=> Held(g)
        /\ \A g : Coming(g)' <=> Coming(g)
        /\ \A g, s : InChannel(g, s)' <=> InChannel(g, s)
    BY <1>0, <1>4, SameFrames
  <2> QED  BY <1>0, <1>2, <2>1 DEF Expected, In
<1>6. TypeOK' /\ Owners'
  <2>1. Fits(rt')
    BY <1>4 DEF Fits, Inv, TypeOK
  <2>2. TypeOK'
    BY <1>0, <1>2, <2>1 DEF Inv, TypeOK
  <2>3. Owners'
    BY <1>0, <1>5 DEF Inv, Owners
  <2> QED  BY <2>2, <2>3
<1>7. ByPhase'
  BY <1>0, <1>2, <1>4 DEF Inv, ByPhase
<1>8. Slots' /\ Mirrors'
  <2>1. ~lost => Complete'
    BY <1>0, <1>1, <1>4, <1>5 DEF Stood, Complete, Away
  <2>2. Stood'
    BY <1>0, <1>1, <1>4, <2>1 DEF Stood
  <2> QED  BY <1>0, <1>1, <1>4, <2>2 DEF Slots, Mirrors
<1>9. Tasks'
  BY <1>0, <1>2, <1>3, <1>4, <1>5 DEF Inv, Tasks
<1>10. Bound'
  BY <1>0, <1>1, <1>2, <1>3, <1>4, <1>5 DEF Inv, Bound
<1>11. Safe'
  <2> SUFFICES ASSUME NEW s \in Session, s \in kept, s \notin excused
               PROVE  /\ disk[s].frames # <<>> /\ st.sess[s].frames # <<>>
                      /\ disk[s].frames[1] \in env'
    BY <1>0, <1>4 DEF Safe
  <2>1. /\ st.sess[s].frames # <<>> /\ disk[s].frames # <<>>
        /\ disk[s].frames[1] = st.sess[s].frames[1] /\ st.sess[s].frames[1] \in env
    BY <1>0, <1>1, Promised
  <2>2. Held(st.sess[s].frames[1])
    BY <2>1, HeldFrames DEF Held, Inv
  <2> QED  BY <1>3, <1>4, <2>1, <2>2
<1>12. Capacity'
  BY <1>0, <1>2, <1>4, SameCapacity, SpawnsCount DEF Inv
<1>13. Scene'
  <2>1. ~Has("recover") /\ ~Has("reconcile")
    BY <1>2
  <2>2. Shown /\ Leftover
    BY <1>0, <2>1 DEF Inv, Scene
  <2>3. Shown'
    BY <1>0, <1>2, <1>4, <2>2 DEF Shown
  <2>4. Leftover'
    BY <1>0, <1>1, <1>2, <1>4, <1>5, <2>1, <2>2 DEF Leftover
  <2> QED  BY <2>3, <2>4 DEF Scene
<1> QED  BY <1>2, <1>6, <1>7, <1>8, <1>9, <1>10, <1>11, <1>12, <1>13 DEF Inv

\* An effect on the files, or on a client, alone.
Noted ==
    /\ todo # <<>> /\ todo' = Tail(todo) /\ phase # "down"
    /\ Head(todo).op \in {"answer", "persist"}
    /\ UNCHANGED <<st, rt, phase, spawning, env, born, lost>>
    /\ kept' \subseteq Session /\ disk' \in [Session -> SessionRec]
    /\ \A s \in Session : \/ disk'[s] \in {disk[s], st.sess[s]}
                          \/ disk'[s] = NoSession /\ st.sess[s].frames = <<>>

LEMMA NotedInv ==
    ASSUME Inv, Noted, Tasks', Safe'
    PROVE  Inv'
<1>0. /\ UNCHANGED <<st, rt, phase, spawning, env, born, lost>> /\ todo # <<>> /\ todo' = Tail(todo)
      /\ phase # "down" /\ Head(todo).op \in {"answer", "persist"}
  BY DEF Noted
<1>1. /\ todo' \in Seq(Effect) /\ InOrder'
      /\ \A op : Has(op)' => Has(op)
      /\ \A op : Has(op) /\ op \notin {"answer", "persist"} => Has(op)'
      /\ \A op, f : Asks(op, f)' => Asks(op, f)
      /\ \A op, f : Asks(op, f) /\ op \notin {"answer", "persist"} => Asks(op, f)'
  BY <1>0, OneDone
<1>2. /\ \A f : Held(f)' <=> Held(f)
      /\ \A f : Expected(f)' <=> Expected(f)
      /\ \A f, s : InChannel(f, s)' <=> InChannel(f, s)
  <2>1. /\ \A g : Held(g)' <=> Held(g)
        /\ \A g : Coming(g)' <=> Coming(g)
        /\ \A g, s : InChannel(g, s)' <=> InChannel(g, s)
    BY <1>0, SameFrames
  <2> QED  BY <1>0, <1>1, <2>1 DEF Expected, In
<1>3. \A s \in Session :
         /\ SessionOK(disk'[s]) /\ NoDup(disk'[s].frames)
         /\ Frames(disk'[s]) \subseteq Frames(disk[s]) \cup Frames(st.sess[s])
         /\ disk'[s].frames # <<>> /\ st.sess[s].frames # <<>> =>
              disk'[s].frames[1] = st.sess[s].frames[1]
  <2> SUFFICES ASSUME NEW s \in Session
               PROVE  /\ SessionOK(disk'[s]) /\ NoDup(disk'[s].frames)
                      /\ Frames(disk'[s]) \subseteq Frames(disk[s]) \cup Frames(st.sess[s])
                      /\ disk'[s].frames # <<>> /\ st.sess[s].frames # <<>> =>
                           disk'[s].frames[1] = st.sess[s].frames[1]
    OBVIOUS
  <2>1. \/ disk'[s] \in {disk[s], st.sess[s]}
        \/ disk'[s] = NoSession /\ st.sess[s].frames = <<>>
    BY DEF Noted
  <2>2. /\ SessionOK(disk[s]) /\ SessionOK(st.sess[s])
        /\ NoDup(disk[s].frames) /\ NoDup(st.sess[s].frames)
        /\ disk[s].frames # <<>> /\ st.sess[s].frames # <<>> =>
                           disk[s].frames[1] = st.sess[s].frames[1]
    BY DEF Inv, TypeOK, Owners
  <2>3. SessionOK(NoSession) /\ NoDup(NoSession.frames) /\ Frames(NoSession) = {}
    BY NothingHeld
  <2> QED  BY <2>1, <2>2, <2>3
<1>4. \A f \in Frame, s \in Session : In(f, s)' => In(f, s)
  BY <1>0, <1>2, <1>3 DEF In
<1>5. TypeOK' /\ Owners'
  <2>1. TypeOK'
    BY <1>0, <1>1, <1>3 DEF Inv, TypeOK, Noted
  <2>2. Owners'
    BY <1>0, <1>3, <1>4 DEF Inv, Owners
  <2> QED  BY <2>1, <2>2
<1>6. ByPhase'
  BY <1>0, <1>1 DEF Inv, ByPhase
<1>7. Slots' /\ Mirrors'
  <2>1. Stood
    BY <1>0, Standing
  <2>2. ~lost => Complete'
    BY <1>0, <1>2, <2>1 DEF Stood, Complete, Away
  <2>3. Stood'
    BY <1>0, <2>1, <2>2 DEF Stood
  <2> QED  BY <1>0, <2>3 DEF Slots, Mirrors, Inv
<1>8. Bound'
  BY <1>0, <1>1, <1>2 DEF Bound, Inv
<1>9. Capacity'
  BY <1>0, <1>1, SameCapacity, SpawnsCount DEF Inv
<1>10. Scene'
  <2>1. Shown => Shown'
    BY <1>0, <1>1 DEF Shown
  <2>2. Leftover => Leftover'
    BY <1>0, <1>1, <1>2 DEF Leftover
  <2> QED  BY <1>0, <1>1, <2>1, <2>2 DEF Scene, Inv
<1> QED  BY <1>1, <1>5, <1>6, <1>7, <1>8, <1>9, <1>10 DEF Inv

LEMMA AnswerStep == ASSUME Inv, DoAnswer PROVE Inv'
<1> DEFINE f == Head(todo).arg
<1>0. /\ todo # <<>> /\ todo' = Tail(todo) /\ phase # "down" /\ Head(todo).op = "answer"
      /\ UNCHANGED <<st, rt, phase, spawning, disk, env, born, excused, lost>>
      /\ kept' = kept \cup {s \in Live(st.sess) : st.sess[s].frames[1] = f}
  BY DEF DoAnswer, Head1, Rest, Arg, mem, ghosts, tuis
<1>1. /\ f \in Frame
      /\ \A op : ~Has(op)'
      /\ \A op, g : ~Asks(op, g)'
      /\ Asks("answer", f) /\ ~Has("persist") /\ ~Asks("register", f)
      /\ phase = "up"
  <2>1. /\ Head(todo) \in Effect
        /\ \A op : ~Has(op)'
        /\ \A op : Has(op) <=> op = "answer" \/ Has(op)'
        /\ \A op, g : Asks(op, g)' => Has(op)'
        /\ \A op, g : Asks(op, g) <=> (op = "answer" /\ g = f) \/ Asks(op, g)'
    BY <1>0, OneDone
  <2>2. phase = "up"
    BY <1>0, PhaseOf
  <2> QED  BY <1>0, <2>1, <2>2 DEF Effect, OnFrame
<1> HIDE DEF f
<1>2. /\ f \in env
      /\ \A s \in Session : st.sess[s].frames # <<>> /\ st.sess[s].frames[1] = f =>
                                    disk[s].frames # <<>> \/ s \in excused
  BY <1>1 DEF Inv, Tasks
<1>3. Noted
  <2>1. kept' \subseteq Session
    BY <1>0 DEF Inv, TypeOK, Live
  <2> QED  BY <1>0, <2>1 DEF Noted, Inv, TypeOK
<1>4. Tasks'
  BY <1>1 DEF Tasks
<1>5. Safe'
  <2> SUFFICES ASSUME NEW s \in Session, s \in kept', s \notin excused
               PROVE  /\ disk[s].frames # <<>> /\ st.sess[s].frames # <<>>
                      /\ disk[s].frames[1] \in env
    BY <1>0 DEF Safe
  <2>1. CASE s \in kept
    BY <1>0, <1>1, <2>1, Promised
  <2>2. CASE s \notin kept
    <3>1. st.sess[s].frames # <<>> /\ st.sess[s].frames[1] = f
      BY <1>0, <2>2 DEF Live
    <3>2. disk[s].frames # <<>>
      BY <1>2, <3>1
    <3>3. disk[s].frames[1] = f
      BY <3>1, <3>2 DEF Inv, Owners
    <3> QED  BY <1>2, <3>1, <3>2, <3>3
  <2> QED  BY <2>1, <2>2
<1> QED  BY <1>3, <1>4, <1>5, NotedInv

\* A save that ends: the live sessions are in their files, or are excused.
LEMMA WrittenInv ==
    ASSUME Inv, Noted, Head(todo).op = "persist", kept' = kept, excused \subseteq excused',
           \A s \in Session : st.sess[s].frames # <<>> /\ s \notin excused' =>
             disk'[s].frames # <<>>
    PROVE  Inv'
<1>0. /\ UNCHANGED <<st, rt, phase, spawning, env, born, lost>> /\ todo # <<>> /\ todo' = Tail(todo)
      /\ phase # "down"
  BY DEF Noted
<1>1. /\ \A op, f : Asks(op, f)' => Asks(op, f)
      /\ \A op, f : Asks(op, f) /\ op # "persist" => Asks(op, f)'
  BY <1>0, OneDone
<1>2. \A f : Held(f)' <=> Held(f)
  BY <1>0 DEF Held
<1>3. Tasks'
  BY <1>0, <1>1, <1>2 DEF Tasks, Inv
<1>4. Safe'
  <2> SUFFICES ASSUME NEW s \in Session, s \in kept, s \notin excused'
               PROVE  /\ disk'[s].frames # <<>> /\ st.sess[s].frames # <<>>
                      /\ \/ disk'[s].frames[1] \in env
                         \/ phase = "cold" /\ \E f \in Frame : disk'[s].frames[1] = f /\ Asks("recreate", f)'
    BY <1>0 DEF Safe
  <2>1. s \notin excused
    OBVIOUS
  <2>2. /\ st.sess[s].frames # <<>> /\ disk[s].frames # <<>> /\ disk'[s].frames # <<>>
        /\ disk[s].frames[1] = st.sess[s].frames[1]
    BY <1>0, <2>1, Promised
  <2>3. disk'[s].frames[1] = disk[s].frames[1]
    BY <2>2 DEF Noted
  <2>4. \/ disk[s].frames[1] \in env
        \/ phase = "cold" /\ \E f \in Frame : disk[s].frames[1] = f /\ Asks("recreate", f)
    BY <1>0, <2>1, Standing DEF Inv, Safe
  <2>5. (\E f \in Frame : disk[s].frames[1] = f /\ Asks("recreate", f)) =>
           \E f \in Frame : disk'[s].frames[1] = f /\ Asks("recreate", f)'
    BY <1>1, <2>3
  <2> QED  BY <2>2, <2>3, <2>4, <2>5
<1> QED  BY <1>3, <1>4, NotedInv

LEMMA SaveStep == ASSUME Inv, DoSave PROVE Inv'
<1>0. /\ todo # <<>> /\ todo' = Tail(todo) /\ phase # "down" /\ Head(todo).op = "persist"
      /\ UNCHANGED <<st, rt, phase, spawning, env, kept, born, excused, lost>>
      /\ disk' = Saved(Live(st.sess), Obsolete)
  BY DEF DoSave, Head1, Rest, mem, ghosts, tuis
<1>1. /\ disk' \in [Session -> SessionRec]
      /\ \A s \in Session : s \notin Obsolete => disk'[s] \in {disk[s], st.sess[s]}
      /\ \A s \in Session : disk'[s] \in {disk[s], st.sess[s], NoSession}
      /\ \A s \in Live(st.sess) : disk'[s] = st.sess[s]
  BY <1>0, SavedIs
<1>2. \A s \in Obsolete : s \in Session /\ st.sess[s].frames = <<>>
  BY DEF Obsolete, Live
<1>3. Noted
  <2>1. kept' \subseteq Session
    BY <1>0 DEF Inv, TypeOK
  <2>2. \A s \in Session : \/ disk'[s] \in {disk[s], st.sess[s]}
                           \/ disk'[s] = NoSession /\ st.sess[s].frames = <<>>
    BY <1>1, <1>2
  <2> QED  BY <1>0, <1>1, <2>1, <2>2 DEF Noted
<1>4. \A s \in Session : st.sess[s].frames # <<>> => disk'[s].frames # <<>>
  BY <1>1 DEF Live
<1> QED  BY <1>0, <1>3, <1>4, WrittenInv

LEMMA SaveFailsStep == ASSUME Inv, SaveFails PROVE Inv'
<1>0. /\ todo # <<>> /\ todo' = Tail(todo) /\ phase # "down" /\ Head(todo).op = "persist"
      /\ UNCHANGED <<st, rt, phase, spawning, env, kept, born, lost>>
      /\ disk' \in {Saved(W, {}) : W \in SUBSET Live(st.sess) \ {Live(st.sess)}}
      /\ excused' = excused \cup {s \in Live(st.sess) : disk'[s] = NoSession}
  BY DEF SaveFails, Head1, Rest, mem, tuis
<1>1. PICK W \in SUBSET Live(st.sess) : disk' = Saved(W, {})
  BY <1>0
<1>2. /\ disk' \in [Session -> SessionRec]
      /\ \A s \in Session : disk'[s] \in {disk[s], st.sess[s]}
  BY <1>1, SavedIs
<1>3. Noted
  <2>1. kept' \subseteq Session
    BY <1>0 DEF Inv, TypeOK
  <2> QED  BY <1>0, <1>2, <2>1 DEF Noted
<1>4. \A s \in Session : st.sess[s].frames # <<>> /\ s \notin excused' => disk'[s].frames # <<>>
  <2>1. \A s \in Session : disk'[s] = NoSession \/ disk'[s].frames # <<>>
    BY <1>2 DEF Inv, TypeOK, SessionOK
  <2> QED  BY <1>0, <2>1 DEF Live
<1>5. excused \subseteq excused'
  BY <1>0
<1> QED  BY <1>0, <1>3, <1>4, <1>5, WrittenInv

-----------------------------------------------------------------------------
(* The effects of a start.                                                 *)

LEMMA CutIs ==
    ASSUME NEW x, SessionOK(x), NoDup(x.frames), NEW panes
    PROVE  LET y == Cut(x, panes)
           IN  /\ SessionOK(y) /\ NoDup(y.frames) /\ SameRoot(x, y)
               /\ Frames(y) \subseteq Frames(x) \cap panes
               /\ x.frames # <<>> /\ x.frames[1] \in panes => y.frames # <<>>
<1> DEFINE q == x.frames
           missing == {i \in DOMAIN q : q[i] \notin panes}
           k == Min(missing)
           y == Cut(x, panes)
<1>1. q \in Seq(Frame) /\ x \in SessionRec /\ DOMAIN q = 1 .. Len(q) /\ Len(q) \in Nat
  BY DEF SessionOK, SessionRec
<1>2. CASE missing = {}
  <2>1. y = x
    BY <1>2 DEF Cut
  <2>2. Frames(x) \subseteq panes
    BY <1>2 DEF Frames, ToSet
  <2> QED  BY <2>1, <2>2 DEF SameRoot
<1>3. CASE missing # {}
  <2>1. missing \in SUBSET Nat
    BY <1>1
  <2>2. k \in missing /\ \A i \in missing : k <= i
    <3> HIDE DEF missing
    <3> QED  BY <1>3, <2>1, MinOfSet
  <2>3. k \in 1 .. Len(q) /\ q[k] \notin panes /\ \A i \in 1 .. Len(q) : i < k => q[i] \in panes
    <3> HIDE DEF k
    <3>1. k \in 1 .. Len(q) /\ q[k] \notin panes
      BY <1>1, <2>2
    <3>2. \A i \in 1 .. Len(q) : q[i] \notin panes => k <= i
      BY <1>1, <2>2
    <3> QED  BY <1>1, <3>1, <3>2
  <2>4. y = Truncated(x, q[k])
    BY <1>3 DEF Cut
  <2> HIDE DEF k, y, missing
  <2> DEFINE f == q[k]
  <2>5. f \in Frame /\ f \in Frames(x) /\ Owns(x, f)
    BY <1>1, <2>3 DEF Frames, Owns, ToSet
  <2>6. SessionOK(y) /\ SameRoot(x, y)
    BY <1>1, <2>4, <2>5, TruncatedType, TruncatedRoot
  <2>7. /\ Frames(y) \subseteq Frames(x) /\ NoDup(y.frames)
        /\ q[1] # f => y.frames # <<>>
    BY <1>1, <2>4, <2>5, TruncatedFrames
  <2>8. Frames(y) \subseteq panes
    <3> DEFINE j == CHOOSE j \in DOMAIN q : q[j] = f
               z == SubSeq(q, 1, j - 1)
    <3>1. j = k
      BY <1>1, <2>3 DEF NoDup
    <3>2. Truncated(x, f) = IF j = 1 THEN NoSession ELSE [x EXCEPT !.frames = z]
      BY DEF Truncated
    <3> HIDE DEF j
    <3>3. CASE k = 1
      <4>1. y = NoSession
        BY <2>4, <3>1, <3>2, <3>3
      <4> QED  BY <4>1, EmptyStack
    <3>4. CASE k # 1
      <4>1. Len(z) = k - 1 /\ DOMAIN z = 1 .. k - 1 /\ \A i \in 1 .. k - 1 : z[i] = q[i]
        BY <1>1, <2>3, <3>1, <3>4, SubSeqProperties
      <4>2. y.frames = z
        BY <1>1, <2>4, <3>1, <3>2, <3>4 DEF SessionRec
      <4> HIDE DEF z
      <4>3. \A i \in 1 .. k - 1 : z[i] \in panes
        <5>1. \A i \in 1 .. k - 1 : i \in 1 .. Len(q) /\ i < k
          BY <1>1, <2>3
        <5> QED  BY <2>3, <4>1, <5>1
      <4> QED  BY <4>1, <4>2, <4>3 DEF Frames, ToSet
    <3> QED  BY <3>3, <3>4
  <2>9. x.frames[1] \in panes => q[1] # f
    BY <2>3
  <2> QED  BY <2>6, <2>7, <2>8, <2>9 DEF y
<1> QED  BY <1>2, <1>3

LEMMA RecoverStep == ASSUME Inv, DoRecover PROVE Inv'
<1> DEFINE p == rt.slot[Main]
           h == Holder(st.sess, p)
           found == [rt EXCEPT !.resident = h, !.act = p]
<1>0. /\ todo # <<>> /\ todo' = Tail(todo) /\ phase # "down" /\ Head(todo).op = "recover"
      /\ UNCHANGED <<phase, spawning, disk, env, kept, born, excused, lost>>
      /\ st' = IF p = Log THEN [st EXCEPT !.occupant = "log"] ELSE st
      /\ rt' = IF p \in rt.panes THEN DeactivateSession(found) ELSE rt
  BY DEF DoRecover, Head1, Rest, ghosts, tuis
<1>1. /\ phase = "warm" /\ Stood /\ rt.slot # NoTmux /\ rt.panes = env /\ rt.slot \in SlotMap
      /\ rt.ch = <<>> /\ spawning = NoSpawns /\ Fits(rt) /\ rt \in RtType /\ Apart(rt.slot)
      /\ ~lost => Staged(rt.slot) /\ rt.resident = None
  BY <1>0, PhaseOf, Standing DEF Inv, Mirrors, ByPhase, Stood, TypeOK, Fits
<1>2. /\ todo' \in Seq(Effect) /\ InOrder'
      /\ \A op : Has(op) <=> op = "recover" \/ Has(op)'
      /\ \A op : Has(op)' => op \notin {"recover", "register"}
      /\ \A op, f : Asks(op, f)' => Asks(op, f)
      /\ \A op, f : Asks(op, f) => Has(op)
      /\ \A op, f : Asks(op, f) /\ op # "recover" => Asks(op, f)'
      /\ \A f : ~Asks("register", f)'
  BY <1>0, OneDone
<1>3. /\ \A op \in Ops : Has(op)' => op \in {"reconcile", "unregister", "persist"}
      /\ Has("reconcile")' /\ st.occupant = "main"
  BY <1>1, <1>2 DEF Inv, ByPhase
<1>4. /\ rt'.ch = rt.ch /\ rt'.panes = rt.panes /\ Fits(rt')
      /\ Apart(rt'.slot) /\ VacancyKept(rt.slot, rt'.slot)
  <2>1. CASE p \notin rt.panes
    BY <1>0, <1>1, <2>1 DEF VacancyKept
  <2>2. CASE p \in rt.panes
    <3>1. p \in Frame /\ h \in Session \cup {None}
      BY <1>1, <2>2, HeldFrames DEF RtType, Inv, Held
    <3> HIDE DEF p, h
    <3>2. /\ Fits(found) /\ found.slot = rt.slot /\ found.ch = rt.ch /\ found.panes = rt.panes
      BY <1>1, <3>1 DEF Fits, RtType
    <3>3. rt' = DeactivateSession(found)
      BY <1>0, <2>2
    <3> HIDE DEF found
    <3> QED  BY <1>1, <3>2, <3>3, DeactivateApart
  <2> QED  BY <2>1, <2>2
<1>5. ASSUME ~lost
      PROVE  /\ rt'.resident = None /\ Staged(rt'.slot)
             /\ \A f \in Frame : rt'.slot[Log] = f => rt.slot[Log] = f
             /\ \A f \in Frame : rt'.slot[Main] = f => f \notin rt.panes \/ ~Held(f)
             /\ rt'.slot[Main] = Log <=> p = Log
  <2>0. Staged(rt.slot) /\ rt.resident = None
    BY <1>1, <1>5
  <2>1. CASE p \notin rt.panes
    BY <1>0, <2>0, <2>1
  <2>2. CASE p \in rt.panes
    <3>1. p \in Frame /\ h \in Session \cup {None}
      BY <1>1, <2>2, HeldFrames DEF RtType, Inv, Held
    <3>2. p # Log /\ p = rt.slot[Main]
      BY <3>1, PaneFacts
    <3>3. h = None => ~Held(p)
      BY HeldFrames DEF Inv
    <3> HIDE DEF p, h
    <3>4. /\ Fits(found) /\ found.resident = h /\ found.slot = rt.slot
      BY <1>1, <3>1 DEF Fits, RtType
    <3>5. rt' = DeactivateSession(found)
      BY <1>0, <2>2
    <3> HIDE DEF found
    <3>6. CASE h = None
      <4>1. rt' = found
        BY <3>4, <3>5, <3>6 DEF DeactivateSession
      <4> QED  BY <2>0, <3>2, <3>3, <3>4, <3>6, <4>1
    <3>7. CASE h # None
      <4>1. found.slot[Main] \in Frame /\ Staged(found.slot)
        BY <2>0, <3>1, <3>2, <3>4
      <4>2. /\ Staged(rt'.slot) /\ rt'.slot[Main] = Main /\ rt'.slot[Log] = Log
            /\ rt'.resident = None
        BY <3>4, <3>5, <3>7, <4>1, DeactivateIs
      <4> QED  BY <3>2, <4>2, PaneFacts
    <3> QED  BY <3>6, <3>7
  <2> QED  BY <2>1, <2>2
<1>6. /\ st'.sess = st.sess /\ st' \in StType
      /\ st'.occupant = IF p = Log THEN "log" ELSE "main"
  <2>1. st \in StType
    BY DEF Inv, TypeOK
  <2> QED  BY <1>0, <1>3, <2>1 DEF StType
<1> HIDE DEF p, h, found
<1>7. /\ \A f : Held(f)' <=> Held(f)
      /\ \A f : Coming(f)' <=> Coming(f)
      /\ \A f \in Frame : ~Coming(f) /\ ~Expected(f)'
      /\ \A f, s : In(f, s)' <=> In(f, s)
  <2>1. /\ \A f : Held(f)' <=> Held(f)
        /\ \A f : Coming(f)' <=> Coming(f)
        /\ \A f, s : In(f, s)' <=> In(f, s)
    BY <1>0, <1>4, <1>6 DEF Held, Coming, In, InChannel
  <2>2. \A f \in Frame : ~Coming(f)
    BY <1>1, NothingSpawned DEF Coming
  <2> QED  BY <1>2, <2>1, <2>2 DEF Expected
<1>8. TypeOK' /\ Owners'
  <2>1. TypeOK'
    BY <1>0, <1>2, <1>4, <1>6 DEF Inv, TypeOK
  <2>2. Owners'
    BY <1>0, <1>6, <1>7 DEF Inv, Owners
  <2> QED  BY <2>1, <2>2
<1>9. ByPhase'
  BY <1>0, <1>1, <1>2, <1>3, <1>4, <1>5 DEF ByPhase
<1>10. Slots' /\ Mirrors'
  <2>1. ~lost => Complete'
    BY <1>0, <1>1, <1>5, <1>7 DEF Stood, Complete, Away
  <2>2. Stood'
    BY <1>0, <1>1, <1>4, <2>1 DEF Stood, VacancyKept
  <2> QED  BY <1>0, <1>1, <1>4, <2>2 DEF Slots, Mirrors
<1>11. Tasks' /\ Bound'
  <2>1. \A f : ~Asks("answer", f) /\ ~Asks("recreate", f)
    BY <1>1, <1>2 DEF Inv, ByPhase, Ops
  <2>2. Tasks'
    BY <1>0, <1>2, <1>6, <1>7, <2>1 DEF Inv, Tasks
  <2>3. Bound'
    BY <1>0, <1>1, <1>3 DEF Bound
  <2> QED  BY <2>2, <2>3
<1>12. Safe'
  BY <1>0, <1>1, <1>6 DEF Inv, Safe
<1>13. Capacity'
  BY <1>0, <1>2, <1>4, SameCapacity, SpawnsCount DEF Inv
<1>14. Scene'
  <2>0. ~Has("swap")' /\ ~Has("deactivate")' /\ ~Has("activate")'
    BY <1>3 DEF Ops
  <2>1. Shown'
    BY <1>0, <1>5, <1>6, <2>0 DEF Shown
  <2>2. Leftover'
    BY <1>0, <1>3, <1>4, <1>5, <1>7 DEF Leftover
  <2> QED  BY <2>1, <2>2 DEF Scene
<1> QED  BY <1>2, <1>8, <1>9, <1>10, <1>11, <1>12, <1>13, <1>14 DEF Inv

LEMMA PersistIs ==
    /\ Persist \in Seq(Effect) /\ Ordered(Persist)
    /\ \A op : Holds(Persist, op) <=> op = "persist"
    /\ \A op, f : HoldsOn(Persist, op, f) => op = "persist"
    /\ \A e \in ToSet(Persist) : e.op = "persist"
<1>1. Eff("persist", None) \in Effect
  BY DEF Effect, Eff, Ops, OnFrame
<1>2. /\ Persist \in Seq(Effect) /\ Ordered(Persist)
      /\ \A op : Holds(Persist, op) <=> op = "persist"
      /\ \A op, f : HoldsOn(Persist, op, f) <=> (op = "persist" /\ f = None)
  BY <1>1, OneEffect DEF Persist
<1>3. \A e \in ToSet(Persist) : e.op = "persist"
  BY <1>2 DEF Holds
<1> QED  BY <1>2, <1>3

Unset(order) == [i \in DOMAIN order |-> Eff("unregister", order[i])]

\* ReconcileOrphans unsets the stale variables, and saves what is left.
LEMMA ReconcileEffects ==
    ASSUME NEW stale, stale \subseteq Frame, NEW order \in SetToSeqs(stale),
           NEW b \in {Persist, <<>>},
           NEW q, q = Unset(order) \o b
    PROVE  /\ q \in Seq(Effect) /\ Ordered(q)
           /\ \A op : Holds(q, op) => op \in {"unregister", "persist"}
           /\ \A op : \A f \in Frame : HoldsOn(q, op, f) => op \in {"unregister", "persist"}
           /\ \A f \in Frame : HoldsOn(q, "unregister", f) <=> f \in stale
<1> DEFINE a == [i \in DOMAIN order |-> Eff("unregister", order[i])]
<1>1. IsFiniteSet(stale)
  BY ConstantsAssumption, FS_Subset
<1>2. order \in Seq(stale) /\ ToSet(order) = stale
  BY <1>1, SetToSeqsElements
<1>3. \A f \in Frame : /\ Eff("unregister", f) \in Effect /\ Eff("unregister", f).op = "unregister"
                       /\ Eff("unregister", f).arg = f
  BY DEF Effect, Eff, Ops, OnFrame
<1>4. DOMAIN order = 1 .. Len(order) /\ Len(order) \in Nat /\ \A i \in DOMAIN order : order[i] \in Frame
  BY <1>2
<1>5. a \in [1 .. Len(order) -> Effect]
  BY <1>3, <1>4
<1>6. /\ a \in Seq(Effect)
      /\ \A e : e \in ToSet(a) <=> \E f \in stale : e = Eff("unregister", f)
  <2>1. a \in Seq(Effect)
    BY <1>4, <1>5
  <2>2. \A e : e \in ToSet(a) <=> \E i \in DOMAIN order : e = Eff("unregister", order[i])
    BY DEF ToSet
  <2>3. \A f : f \in stale <=> \E i \in DOMAIN order : f = order[i]
    BY <1>2 DEF ToSet
  <2> QED  BY <2>1, <2>2, <2>3
<1> HIDE DEF a
<1>7. Ordered(a) /\ \A e \in ToSet(a) : e.op = "unregister"
  <2>1. \A e \in ToSet(a) : e.op = "unregister"
    BY <1>3, <1>6
  <2> QED  BY <1>6, <2>1, AnyOrderIs DEF AnyOrder
<1>8. /\ b \in Seq(Effect) /\ Ordered(b) /\ \A e \in ToSet(b) : e.op = "persist"
      /\ \A op : Holds(b, op) => op = "persist"
      /\ \A op, f : HoldsOn(b, op, f) => op = "persist"
  <2>1. \A e \in ToSet(<<>>) : e.op = "persist"
    BY DEF ToSet
  <2>2. CASE b = Persist
    BY <2>2, PersistIs
  <2>3. CASE b = <<>>
    BY <2>1, <2>3, NoEffects
  <2> QED  BY <2>2, <2>3
<1>9. q = a \o b
  BY DEF a, Unset
<1>10. \A x \in ToSet(a), y \in ToSet(b) : MayPrecede(x, y)
  BY <1>7, <1>8 DEF MayPrecede
<1>11. /\ q \in Seq(Effect) /\ Ordered(q)
       /\ \A op : Holds(q, op) <=> Holds(a, op) \/ Holds(b, op)
       /\ \A op, f : HoldsOn(q, op, f) <=> HoldsOn(a, op, f) \/ HoldsOn(b, op, f)
  <2>1. /\ a \o b \in Seq(Effect) /\ Ordered(a \o b)
        /\ \A op : Holds(a \o b, op) <=> Holds(a, op) \/ Holds(b, op)
        /\ \A op, f : HoldsOn(a \o b, op, f) <=> HoldsOn(a, op, f) \/ HoldsOn(b, op, f)
    BY <1>6, <1>7, <1>8, <1>10, MoreEffects
  <2> QED  BY <1>9, <2>1
<1>12. /\ \A op : Holds(a, op) => op = "unregister"
       /\ \A op, f : HoldsOn(a, op, f) => op = "unregister"
       /\ \A f \in Frame : HoldsOn(a, "unregister", f) <=> f \in stale
  BY <1>3, <1>6, <1>7 DEF Holds, HoldsOn
<1>13. \A f \in Frame : ~HoldsOn(b, "unregister", f)
  BY <1>8
<1> QED  BY <1>8, <1>11, <1>12, <1>13

LEMMA ReconcileStep == ASSUME Inv, DoReconcile PROVE Inv'
<1> DEFINE cut == [s \in Session |-> Cut(st.sess[s], rt.panes)]
           stale == {f \in rt.panes : Holder(cut, f) = None}
<1>0. /\ todo # <<>> /\ phase # "down" /\ Head(todo).op = "reconcile"
      /\ UNCHANGED <<rt, phase, spawning, disk, env, kept, born, excused, lost>>
      /\ st' = [st EXCEPT !.sess = cut]
      /\ \E order \in SetToSeqs(stale) :
             todo' = [i \in DOMAIN order |-> Eff("unregister", order[i])]
                       \o (IF Live(cut) # {} THEN Persist ELSE <<>>)
  BY DEF DoReconcile, Head1, ghosts, tuis
<1>1. /\ phase = "warm" /\ Stood /\ rt.slot # NoTmux /\ rt.panes = env
      /\ (~lost => rt.resident = None) /\ rt.ch = <<>> /\ spawning = NoSpawns
      /\ Fits(rt) /\ rt \in RtType /\ st \in StType
  BY <1>0, PhaseOf, Standing DEF Inv, Mirrors, ByPhase, TypeOK, Fits
<1>2. stale \subseteq Frame
  BY <1>1 DEF RtType
<1>3. /\ todo' \in Seq(Effect) /\ InOrder'
      /\ \A op : Has(op)' => op \in {"unregister", "persist"}
      /\ \A op : \A f \in Frame : Asks(op, f)' => op \in {"unregister", "persist"}
      /\ \A f \in Frame : Asks("unregister", f)' <=> f \in stale
  <2>1. PICK order \in SetToSeqs(stale) :
             todo' = [i \in DOMAIN order |-> Eff("unregister", order[i])]
                       \o (IF Live(cut) # {} THEN Persist ELSE <<>>)
    BY <1>0
  <2> DEFINE b == IF Live(cut) # {} THEN Persist ELSE <<>>
  <2>2. b \in {Persist, <<>>}
    OBVIOUS
  <2>3. todo' = Unset(order) \o b
    BY <2>1 DEF Unset
  <2> HIDE DEF b, stale, cut
  <2>4. /\ todo' \in Seq(Effect) /\ Ordered(todo')
        /\ \A op : Holds(todo', op) => op \in {"unregister", "persist"}
        /\ \A op : \A f \in Frame : HoldsOn(todo', op, f) => op \in {"unregister", "persist"}
        /\ \A f \in Frame : HoldsOn(todo', "unregister", f) <=> f \in stale
    <3> DEFINE q == todo'
    <3>1. q = Unset(order) \o b
      BY <2>3
    <3> HIDE DEF q
    <3>2. /\ q \in Seq(Effect) /\ Ordered(q)
          /\ \A op : Holds(q, op) => op \in {"unregister", "persist"}
          /\ \A op : \A f \in Frame : HoldsOn(q, op, f) => op \in {"unregister", "persist"}
          /\ \A f \in Frame : HoldsOn(q, "unregister", f) <=> f \in stale
      BY <1>2, <2>2, <3>1, ReconcileEffects
    <3> QED  BY <3>2 DEF q
  <2> QED  BY <2>4 DEF InOrder, Has, Asks
<1>4. ~Has("recover") /\ Has("reconcile")
  <2>1. todo \in Seq(Effect) /\ Ordered(todo)
    BY DEF Inv, TypeOK, InOrder
  <2>2. /\ \A op : Holds(todo, op) <=> op = Head(todo).op \/ Holds(Tail(todo), op)
        /\ \A e \in ToSet(Tail(todo)) : MayPrecede(Head(todo), e)
    BY <1>0, <2>1, FewerEffects
  <2>3. ~Holds(Tail(todo), "recover")
    BY <2>2 DEF Holds, MayPrecede
  <2> QED  BY <1>0, <2>2, <2>3 DEF Has
<1>5. Shown /\ Leftover
  BY <1>0, <1>4 DEF Inv, Scene
<1>6. /\ cut \in [Session -> SessionRec]
      /\ \A s \in Session : SessionOK(cut[s]) /\ NoDup(cut[s].frames) /\ SameRoot(st.sess[s], cut[s])
      /\ \A s \in Session : Frames(cut[s]) \subseteq Frames(st.sess[s]) \cap rt.panes
      /\ \A s \in Session : st.sess[s].frames # <<>> /\ st.sess[s].frames[1] \in rt.panes
                              => cut[s].frames # <<>>
  <2>1. \A s \in Session : cut[s] = Cut(st.sess[s], rt.panes)
    OBVIOUS
  <2>2. \A s \in Session : SessionOK(st.sess[s]) /\ NoDup(st.sess[s].frames)
    BY DEF Inv, TypeOK, Owners
  <2>3. \A s \in Session : SessionOK(Cut(st.sess[s], rt.panes))
    BY <2>2, CutIs
  <2>4. cut \in [Session -> SessionRec]
    BY <2>3 DEF SessionOK
  <2> HIDE DEF cut
  <2> QED  BY <2>1, <2>2, <2>4, CutIs
<1> HIDE DEF cut
<1>7. st'.sess = cut /\ st'.occupant = st.occupant /\ st' \in StType
  BY <1>0, <1>1, <1>6 DEF StType
<1>8. /\ \A f : Held(f)' => Held(f) /\ f \in rt.panes
      /\ \A f \in Frame : f \in stale <=> f \in rt.panes /\ ~Held(f)'
  <2>1. \A f : Held(f)' => Held(f) /\ f \in rt.panes
    BY <1>6, <1>7 DEF Held
  <2>2. \A f : Holder(cut, f) = None <=> ~Held(f)'
    BY <1>7, PaneFacts DEF Holder, Held, Owns, Frames
  <2> QED  BY <2>1, <2>2
<1> HIDE DEF stale
<1>9. /\ \A f \in Frame : ~Expected(f)'
      /\ \A f \in Frame, s \in Session : In(f, s)' => In(f, s)
  <2>1. \A f \in Frame : ~Coming(f)'
    BY <1>0, <1>1, NothingSpawned DEF Coming
  <2>2. \A f \in Frame, s \in Session : In(f, s)' => In(f, s)
    BY <1>0, <1>6, <1>7 DEF In, InChannel
  <2>3. \A f \in Frame : ~Asks("register", f)'
    BY <1>3
  <2> QED  BY <2>1, <2>2, <2>3 DEF Expected
<1>10. TypeOK' /\ Owners'
  <2>1. TypeOK'
    BY <1>0, <1>3, <1>6, <1>7 DEF Inv, TypeOK
  <2>2. \A s \in Session : disk[s].frames # <<>> /\ cut[s].frames # <<>>
                            => disk[s].frames[1] = cut[s].frames[1]
    BY <1>6 DEF Inv, Owners, SameRoot
  <2>3. Owners'
    BY <1>0, <1>6, <1>7, <1>9, <2>2 DEF Inv, Owners
  <2> QED  BY <2>1, <2>3
<1>11. ByPhase'
  <2>1. ~Has("recover")' /\ \A op \in Ops : Has(op)' => op \in {"unregister", "persist"}
    BY <1>3
  <2>2. phase' = "warm" /\ rt' = rt /\ spawning' = spawning
    BY <1>0, <1>1
  <2> QED  BY <1>0, <1>1, <2>1, <2>2 DEF ByPhase
<1>12. Slots' /\ Mirrors'
  <2>1. ~lost => Complete'
    BY <1>0, <1>1, <1>9 DEF Stood, Complete, Away
  <2>2. Stood'
    BY <1>0, <1>1, <2>1 DEF Stood
  <2> QED  BY <1>0, <1>1, <2>2 DEF Slots, Mirrors
<1>13. Tasks'
  BY <1>3, <1>8 DEF Tasks
<1>14. Bound'
  BY <1>0, <1>8 DEF Bound
<1>15. Safe'
  <2> SUFFICES ASSUME NEW s \in Session, s \in kept, s \notin excused
               PROVE  /\ disk[s].frames # <<>> /\ cut[s].frames # <<>>
                      /\ disk[s].frames[1] \in env
    BY <1>0, <1>7 DEF Safe
  <2>1. /\ st.sess[s].frames # <<>> /\ disk[s].frames # <<>>
        /\ disk[s].frames[1] = st.sess[s].frames[1] /\ st.sess[s].frames[1] \in env
    BY <1>0, <1>1, Promised
  <2> QED  BY <1>1, <1>6, <2>1
<1>16. Capacity'
  <2>1. Len(rt'.ch) \in Nat /\ Len(rt'.ch) <= Len(rt.ch)
    BY <1>0, SpawnsCount DEF Inv
  <2>2. ~Has("activate")'
    BY <1>3
  <2> QED  BY <1>0, <2>1, <2>2, SameCapacity
<1>17. Scene'
  <2>0. ~Has("swap")' /\ ~Has("deactivate")' /\ ~Has("activate")' /\ ~Has("reconcile")'
    BY <1>3
  <2>1. ~Has("swap") /\ ~Has("deactivate")
    BY <1>1 DEF Inv, ByPhase, Ops
  <2>2. Shown'
    BY <1>0, <1>5, <1>7, <2>0, <2>1 DEF Shown
  <2>3. ~lost => \A f \in Frame : rt.slot[Main] = f => f \notin rt.panes \/ ~Held(f)
    BY <1>1, <1>4, <1>5 DEF Leftover
  <2>4. Leftover'
    BY <1>0, <1>1, <1>3, <1>8, <1>9, <2>0, <2>3 DEF Leftover
  <2> QED  BY <2>2, <2>4 DEF Scene
<1> QED  BY <1>3, <1>10, <1>11, <1>12, <1>13, <1>14, <1>15, <1>16, <1>17 DEF Inv

-----------------------------------------------------------------------------
(* A cold start makes the windows anew.                                    *)

\* Where everything is while a cold start runs.
LEMMA ColdIs ==
    ASSUME Inv, phase = "cold"
    PROVE  /\ Stood /\ ~lost /\ Staged(rt.slot) /\ rt.slot \in SlotMap /\ rt.slot # NoTmux
           /\ \A w \in Pane : rt.slot[w] \in {w, None}
           /\ rt.slot[Main] = Main /\ rt.slot[Log] = Log
           /\ rt.ch = <<>> /\ rt.resident = None /\ rt.panes = env /\ rt \in RtType
           /\ \A f \in Frame : spawning[f] = None /\ ~Coming(f)
           /\ \A op \in Ops : Has(op) => op \in {"recreate", "persist"}
           /\ \A op \in {"swap", "deactivate", "activate", "recover", "reconcile"} : ~Has(op)
           /\ \A f \in Frame : ~Asks("register", f)
           /\ st.occupant # "log"
<1>1. Stood /\ ~lost /\ Staged(rt.slot) /\ rt.slot \in SlotMap /\ rt.slot # NoTmux
  BY Standing DEF Stood
<1>2. \A w \in Pane : rt.slot[w] \in {w, None}
  BY <1>1 DEF Stood
<1>3. rt.slot[Main] = Main /\ rt.slot[Log] = Log
  BY <1>1, <1>2 DEF Staged, Pane
<1>4. /\ rt.ch = <<>> /\ rt.resident = None /\ spawning = NoSpawns
      /\ \A op \in Ops : Has(op) => op \in {"recreate", "persist"}
  BY <1>1 DEF Inv, ByPhase
<1>5. \A op \in {"swap", "deactivate", "activate", "recover", "reconcile"} : ~Has(op)
  BY <1>4 DEF Ops
<1>6. \A f \in Frame : ~Asks("register", f)
  <2>1. \A op, f : Asks(op, f) => Has(op)
    BY DEF Asks, Has, HoldsOn, Holds
  <2> QED  BY <1>4, <2>1 DEF Ops
<1>7. \A f \in Frame : spawning[f] = None /\ ~Coming(f)
  BY <1>4, NothingSpawned DEF Coming
<1>8. rt.panes = env /\ rt \in RtType
  BY DEF Inv, Mirrors, TypeOK, Fits
<1>9. st.occupant # "log"
  BY <1>1, <1>3, <1>5, PaneFacts DEF Inv, Scene, Shown
<1> QED  BY <1>1, <1>2, <1>3, <1>4, <1>5, <1>6, <1>7, <1>8, <1>9

\* A window of its own for f, or none.
LEMMA ColdWindow ==
    ASSUME Inv, phase = "cold", NEW f \in Frame, f \in born, NEW p \in {f, None}
    PROVE  LET new == [rt.slot EXCEPT ![f] = p]
           IN  /\ new \in SlotMap /\ Staged(new) /\ new[Main] = Main /\ new[Log] = Log
               /\ \A w \in Pane : new[w] \in {w, None}
               /\ \A g \in Frame : g \notin born => Vacant(new, g)
<1> DEFINE slot == rt.slot
           new == [slot EXCEPT ![f] = p]
<1>1. /\ slot \in SlotMap /\ Staged(slot) /\ slot[Main] = Main /\ slot[Log] = Log
      /\ \A w \in Pane : slot[w] \in {w, None}
      /\ \A g \in Frame : g \notin born => Vacant(slot, g)
  BY ColdIs DEF Stood
<1> HIDE DEF slot
<1>2. slot[f] \in {f, None} /\ \A w \in Pane : slot[w] = f => w = f
  BY <1>1, PaneFacts
<1>3. /\ new \in SlotMap /\ Staged(new) /\ new[Main] = slot[Main] /\ new[Log] = slot[Log]
      /\ \A g \in Frame : g # f /\ Vacant(slot, g) => Vacant(new, g)
  BY <1>1, <1>2, WindowStaged
<1>4. \A w \in Pane : new[w] \in {w, None}
  BY <1>1 DEF SlotMap
<1> HIDE DEF new
<1> QED  BY <1>1, <1>3, <1>4 DEF new, slot

LEMMA RecreateStep == ASSUME Inv, DoRecreate PROVE Inv'
<1> DEFINE f == Head(todo).arg
<1>0. /\ todo # <<>> /\ todo' = Tail(todo) /\ phase # "down" /\ Head(todo).op = "recreate"
      /\ UNCHANGED <<st, phase, spawning, disk, kept, born, excused, lost>>
      /\ rt' = [rt EXCEPT !.slot[f] = f, !.panes = @ \cup {f}] /\ env' = env \cup {f}
  BY DEF DoRecreate, Head1, Rest, Arg, mem, ghosts, tuis
<1>1. phase = "cold"
  BY <1>0, PhaseOf
<1>2. /\ f \in Frame /\ todo' \in Seq(Effect) /\ InOrder'
      /\ \A op : Has(op) <=> op = "recreate" \/ Has(op)'
      /\ \A op, g : Asks(op, g) <=> (op = "recreate" /\ g = f) \/ Asks(op, g)'
  BY <1>0, OneDone DEF Effect, OnFrame
<1>3. Held(f) /\ f \in born
  BY <1>2 DEF Inv, Tasks, Held, Owners, In
<1>4. /\ rt.ch = <<>> /\ rt.resident = None /\ rt.panes = env /\ rt \in RtType /\ rt.slot \in SlotMap
      /\ ~lost
      /\ \A g \in Frame : spawning[g] = None
      /\ \A op \in {"swap", "deactivate", "activate", "recover", "reconcile"} : ~Has(op)
      /\ rt.slot[Main] = Main
  BY <1>1, ColdIs
<1> HIDE DEF f
<1>5. /\ rt' \in RtType /\ rt'.panes = env' /\ rt'.ch = rt.ch
      /\ rt'.resident = rt.resident /\ rt'.act = rt.act
      /\ rt'.slot = [rt.slot EXCEPT ![f] = f]
  BY <1>0, <1>2, <1>4, PaneFacts DEF RtType, SlotMap
<1>6. /\ Staged(rt'.slot) /\ rt'.slot[Main] = Main /\ rt'.slot[Log] = Log
      /\ \A w \in Pane : rt'.slot[w] \in {w, None}
      /\ \A g \in Frame : g \notin born => Vacant(rt'.slot, g)
  <2> DEFINE new == [rt.slot EXCEPT ![f] = f]
  <2>1. /\ Staged(new) /\ new[Main] = Main /\ new[Log] = Log
        /\ \A w \in Pane : new[w] \in {w, None}
        /\ \A g \in Frame : g \notin born => Vacant(new, g)
    BY <1>1, <1>2, <1>3, ColdWindow
  <2>2. rt'.slot = new
    BY <1>5
  <2> HIDE DEF new
  <2> QED  BY <2>1, <2>2
<1>7. /\ \A g : Held(g)' <=> Held(g)
      /\ \A g, s : In(g, s)' <=> In(g, s)
  BY <1>0, <1>5, SameFrames DEF In
<1>8. TypeOK' /\ Owners'
  <2>1. Fits(rt')
    BY <1>5 DEF Fits, Inv, TypeOK
  <2>2. TypeOK'
    BY <1>0, <1>2, <2>1 DEF Inv, TypeOK
  <2>3. Owners'
    BY <1>0, <1>3, <1>7 DEF Inv, Owners
  <2> QED  BY <2>2, <2>3
<1>9. ByPhase'
  BY <1>0, <1>2, <1>5 DEF Inv, ByPhase
<1>10. Slots' /\ Mirrors'
  <2>1. Apart(rt'.slot) /\ Complete'
    BY <1>6, StagedApart, PaneFacts DEF Complete
  <2>2. Stood'
    BY <1>0, <1>4, <1>6, <2>1 DEF Stood
  <2> QED  BY <1>0, <1>1, <1>5, <2>2 DEF Slots, Mirrors
<1>11. Tasks'
  BY <1>0, <1>2, <1>7 DEF Inv, Tasks
<1>12. Bound'
  BY <1>0, <1>1, <1>2, <1>4, <1>5, <1>7 DEF Inv, Bound
<1>13. Safe'
  <2> SUFFICES ASSUME NEW s \in Session, s \in kept, s \notin excused
               PROVE  /\ disk[s].frames # <<>> /\ st.sess[s].frames # <<>>
                      /\ \/ disk[s].frames[1] \in env'
                         \/ \E g \in Frame : disk[s].frames[1] = g /\ Asks("recreate", g)'
    BY <1>0, <1>1 DEF Safe
  <2>1. st.sess[s].frames # <<>> /\ disk[s].frames # <<>>
    BY <1>0, Promised
  <2>2. \/ disk[s].frames[1] \in env
        \/ \E g \in Frame : disk[s].frames[1] = g /\ Asks("recreate", g)
    BY <1>0, Standing DEF Inv, Safe
  <2> QED  BY <1>0, <1>2, <2>1, <2>2
<1>14. Capacity'
  BY <1>0, <1>2, <1>5, SameCapacity, SpawnsCount DEF Inv
<1>15. Scene'
  <2>1. Shown
    BY <1>1, <1>4 DEF Inv, Scene
  <2>2. Shown'
    BY <1>0, <1>2, <1>4, <1>5, <1>6, <2>1 DEF Shown
  <2>3. Leftover'
    BY <1>6, PaneFacts DEF Leftover
  <2> QED  BY <2>2, <2>3 DEF Scene
<1> QED  BY <1>2, <1>8, <1>9, <1>10, <1>11, <1>12, <1>13, <1>14, <1>15 DEF Inv

\* What RecreateAll still makes anew, of q, when it has given up the session s.
Others(e, s) == IF e.op = "recreate" /\ ~Owns(st.sess[s], e.arg) THEN <<e>> ELSE <<>>
Remaining(q, s) == FlattenSeq([i \in DOMAIN q |-> Others(q[i], s)])

LEMMA RemainingIs ==
    ASSUME NEW q \in Seq(Effect), NEW s \in Session
    PROVE  /\ Remaining(q, s) \in Seq(Effect)
           /\ \A e : e \in ToSet(Remaining(q, s)) <=>
                /\ e \in ToSet(q) /\ e.op = "recreate" /\ e.arg \notin Frames(st.sess[s])
<1> DEFINE parts == [i \in DOMAIN q |-> Others(q[i], s)]
<1>1. /\ DOMAIN q = 1 .. Len(q) /\ Len(q) \in Nat
      /\ \A i \in DOMAIN q : q[i] \in Effect
  OBVIOUS
<1>2. \A e \in Effect :
        /\ Others(e, s) \in Seq(Effect)
        /\ \A x : x \in ToSet(Others(e, s)) <=>
             x = e /\ e.op = "recreate" /\ e.arg \notin Frames(st.sess[s])
  <2> SUFFICES ASSUME NEW e \in Effect
               PROVE  /\ Others(e, s) \in Seq(Effect)
                      /\ \A x : x \in ToSet(Others(e, s)) <=>
                           x = e /\ e.op = "recreate" /\ e.arg \notin Frames(st.sess[s])
    OBVIOUS
  <2>1. Owns(st.sess[s], e.arg) <=> e.arg \in Frames(st.sess[s])
    BY DEF Owns, Frames
  <2>2. /\ <<e>> \in Seq(Effect) /\ \A x : x \in ToSet(<<e>>) <=> x = e
        /\ <<>> \in Seq(Effect) /\ \A x : x \notin ToSet(<<>>)
    BY DEF ToSet
  <2>3. CASE e.op = "recreate" /\ ~Owns(st.sess[s], e.arg)
    <3>1. Others(e, s) = <<e>>
      BY <2>3 DEF Others
    <3> QED  BY <2>1, <2>2, <2>3, <3>1
  <2>4. CASE ~(e.op = "recreate" /\ ~Owns(st.sess[s], e.arg))
    <3>1. Others(e, s) = <<>>
      BY <2>4 DEF Others
    <3> QED  BY <2>1, <2>2, <2>4, <3>1
  <2> QED  BY <2>3, <2>4
<1>3. parts \in Seq(Seq(Effect)) /\ DOMAIN parts = DOMAIN q
      /\ \A i \in DOMAIN q : parts[i] = Others(q[i], s)
  <2>1. parts \in [1 .. Len(q) -> Seq(Effect)]
    BY <1>1, <1>2
  <2> QED  BY <1>1, <2>1
<1>4. Remaining(q, s) = FlattenSeq(parts)
  BY DEF Remaining
<1> HIDE DEF parts
<1>5. /\ FlattenSeq(parts) \in Seq(Effect)
      /\ \A x : x \in ToSet(FlattenSeq(parts)) <=> \E i \in DOMAIN parts : x \in ToSet(parts[i])
  BY <1>3, FlattenElements
<1>6. \A x : x \in ToSet(q) <=> \E i \in DOMAIN q : x = q[i]
  BY DEF ToSet
<1> QED  BY <1>1, <1>2, <1>3, <1>4, <1>5, <1>6

LEMMA RecreateFailsStep == ASSUME Inv, RecreateFails PROVE Inv'
<1> DEFINE f == Head(todo).arg
           s == Holder(st.sess, f)
<1>0. /\ todo # <<>> /\ phase # "down" /\ Head(todo).op = "recreate"
      /\ UNCHANGED <<phase, spawning, disk, env, born, excused, lost>>
      /\ st' = [st EXCEPT !.sess[s] = NoSession]
      /\ todo' = Remaining(todo, s) \o Persist
      /\ kept' = kept \ {s}
      /\ \E w \in {f, None} : rt' = [rt EXCEPT !.slot[f] = w]
  BY DEF RecreateFails, Head1, Arg, ghosts, tuis, Remaining, Others
<1>1. phase = "cold" /\ todo \in Seq(Effect) /\ Ordered(todo)
  BY <1>0, PhaseOf DEF Inv, TypeOK, InOrder
<1>2. /\ f \in Frame /\ Asks("recreate", f)
  BY <1>0, <1>1, FewerEffects DEF Effect, OnFrame, Asks
<1>3. Held(f) /\ f \in born /\ s \in Session /\ f \in Frames(st.sess[s])
  <2>1. Held(f)
    BY <1>2 DEF Inv, Tasks
  <2>2. f \in born
    BY <1>2, <2>1 DEF Inv, Held, Owners, In
  <2> QED  BY <2>1, <2>2, HeldFrames DEF Inv
<1>4. /\ rt.ch = <<>> /\ rt.resident = None /\ rt.panes = env /\ rt \in RtType /\ rt.slot \in SlotMap
      /\ ~lost
      /\ \A g \in Frame : spawning[g] = None /\ ~Coming(g)
      /\ rt.slot[Main] = Main /\ rt.slot # NoTmux /\ st.occupant # "log"
      /\ \A op \in Ops : Has(op) => op \in {"recreate", "persist"}
  BY <1>1, ColdIs
<1> HIDE DEF f, s
<1>5. PICK p \in {f, None} : rt' = [rt EXCEPT !.slot[f] = p]
  BY <1>0
<1>6. /\ rt' \in RtType /\ rt'.panes = rt.panes /\ rt'.ch = rt.ch
      /\ rt'.resident = rt.resident /\ rt'.act = rt.act
      /\ rt'.slot = [rt.slot EXCEPT ![f] = p]
  BY <1>2, <1>4, <1>5, PaneFacts DEF RtType, SlotMap
<1>7. /\ Staged(rt'.slot) /\ rt'.slot[Main] = Main /\ rt'.slot[Log] = Log
      /\ \A w \in Pane : rt'.slot[w] \in {w, None}
      /\ \A g \in Frame : g \notin born => Vacant(rt'.slot, g)
  <2> DEFINE new == [rt.slot EXCEPT ![f] = p]
  <2>1. /\ Staged(new) /\ new[Main] = Main /\ new[Log] = Log
        /\ \A w \in Pane : new[w] \in {w, None}
        /\ \A g \in Frame : g \notin born => Vacant(new, g)
    BY <1>1, <1>2, <1>3, ColdWindow
  <2>2. rt'.slot = new
    BY <1>6
  <2> HIDE DEF new
  <2> QED  BY <2>1, <2>2
<1>8. /\ st' \in StType /\ st'.occupant = st.occupant
      /\ \A t \in Session : st'.sess[t] = IF t = s THEN NoSession ELSE st.sess[t]
  BY <1>0, <1>3, NoSessionType DEF Inv, TypeOK, StType, SessionOK
<1>9. /\ \A t \in Session : /\ SessionOK(st'.sess[t]) /\ NoDup(st'.sess[t].frames)
                            /\ Frames(st'.sess[t]) \subseteq Frames(st.sess[t])
                            /\ st'.sess[t].frames # <<>> => t # s
      /\ Frames(st'.sess[s]) = {}
  BY <1>3, <1>8, NothingHeld DEF Inv, TypeOK, Owners
<1>10. /\ \A g \in Frame : Held(g)' <=> Held(g) /\ g \notin Frames(st.sess[s])
       /\ \A g \in Frame, t \in Session : In(g, t)' => In(g, t)
  <2>1. \A g \in Frame : \A t \in Session : g \in Frames(st.sess[t]) /\ g \in Frames(st.sess[s]) => t = s
    BY <1>3 DEF Inv, Owners, In
  <2>2. \A g \in Frame : Held(g)' => Held(g) /\ g \notin Frames(st.sess[s])
    BY <1>8, <1>9, <2>1 DEF Held
  <2>3. \A g \in Frame : Held(g) /\ g \notin Frames(st.sess[s]) => Held(g)'
    BY <1>8 DEF Held
  <2>4. \A g \in Frame, t \in Session : In(g, t)' => In(g, t)
    BY <1>0, <1>6, <1>9 DEF In, InChannel
  <2> QED  BY <2>2, <2>3, <2>4
<1>11. /\ todo' \in Seq(Effect) /\ InOrder'
       /\ \A op : Has(op)' => op \in {"recreate", "persist"}
       /\ \A g \in Frame : Asks("recreate", g)' <=> Asks("recreate", g) /\ g \notin Frames(st.sess[s])
       /\ \A op : \A g \in Frame : Asks(op, g)' => op \in {"recreate", "persist"}
  <2> DEFINE q == Remaining(todo, s)
  <2>1. /\ q \in Seq(Effect)
        /\ \A e : e \in ToSet(q) <=>
             /\ e \in ToSet(todo) /\ e.op = "recreate" /\ e.arg \notin Frames(st.sess[s])
    BY <1>1, <1>3, RemainingIs
  <2>2. todo' = q \o Persist
    BY <1>0
  <2> HIDE DEF q
  <2>3. /\ Persist \in Seq(Effect) /\ Ordered(Persist)
        /\ \A op : Holds(Persist, op) => op = "persist"
        /\ \A op, g : HoldsOn(Persist, op, g) => op = "persist"
        /\ \A e \in ToSet(Persist) : e.op = "persist"
    BY PersistIs
  <2>4. Ordered(q)
    BY <2>1, AnyOrderIs DEF AnyOrder
  <2>5. \A x \in ToSet(q), y \in ToSet(Persist) : MayPrecede(x, y)
    BY <2>1, <2>3 DEF MayPrecede
  <2>6. /\ q \o Persist \in Seq(Effect) /\ Ordered(q \o Persist)
        /\ \A op : Holds(q \o Persist, op) <=> Holds(q, op) \/ Holds(Persist, op)
        /\ \A op, g : HoldsOn(q \o Persist, op, g) <=> HoldsOn(q, op, g) \/ HoldsOn(Persist, op, g)
    BY <2>1, <2>3, <2>4, <2>5, MoreEffects
  <2>7. /\ \A op : Holds(q, op) => op = "recreate"
        /\ \A op, g : HoldsOn(q, op, g) => op = "recreate"
        /\ \A g : HoldsOn(q, "recreate", g) <=> HoldsOn(todo, "recreate", g) /\ g \notin Frames(st.sess[s])
    BY <2>1 DEF Holds, HoldsOn
  <2> QED  BY <2>2, <2>3, <2>6, <2>7 DEF Has, Asks, InOrder
<1>12. TypeOK' /\ Owners'
  <2>1. Fits(rt')
    BY <1>6 DEF Fits, Inv, TypeOK
  <2>2. TypeOK'
    BY <1>0, <1>8, <1>9, <1>11, <2>1 DEF Inv, TypeOK
  <2>3. Owners'
    BY <1>0, <1>8, <1>9, <1>10 DEF Inv, Owners
  <2> QED  BY <2>2, <2>3
<1>13. ByPhase'
  <2>0. spawning = NoSpawns
    BY <1>1 DEF Inv, ByPhase
  <2>1. phase' = "cold" /\ ~Has("recover")' /\ rt'.ch = <<>> /\ rt'.resident = None /\ spawning' = NoSpawns
    BY <1>0, <1>1, <1>4, <1>6, <1>11, <2>0
  <2> QED  BY <1>11, <2>1 DEF ByPhase
<1>14. Slots' /\ Mirrors'
  <2>1. Apart(rt'.slot) /\ Complete'
    BY <1>7, StagedApart, PaneFacts DEF Complete
  <2>2. Stood'
    BY <1>0, <1>4, <1>7, <2>1 DEF Stood
  <2> QED  BY <1>0, <1>1, <1>4, <1>6, <2>2 DEF Slots, Mirrors
<1>15. Tasks' /\ Bound'
  <2>1. \A g \in Frame : Asks("recreate", g) => Held(g)
    BY DEF Inv, Tasks
  <2>2. Tasks'
    BY <1>10, <1>11, <2>1 DEF Tasks
  <2>3. \A g \in Frame : Held(g) => g \in rt.panes \/ Asks("recreate", g)
    BY <1>1 DEF Inv, Bound
  <2>4. Bound'
    BY <1>0, <1>1, <1>6, <1>10, <1>11, <2>3 DEF Bound
  <2> QED  BY <2>2, <2>4
<1>16. Safe'
  <2> SUFFICES ASSUME NEW t \in Session, t \in kept, t # s, t \notin excused
               PROVE  /\ disk[t].frames # <<>> /\ st'.sess[t].frames # <<>>
                      /\ \/ disk[t].frames[1] \in env
                         \/ \E g \in Frame : disk[t].frames[1] = g /\ Asks("recreate", g)'
    BY <1>0, <1>1 DEF Safe
  <2>1. st.sess[t].frames # <<>> /\ disk[t].frames # <<>> /\ disk[t].frames[1] = st.sess[t].frames[1]
    BY <1>0, Promised
  <2>2. \/ disk[t].frames[1] \in env
        \/ \E g \in Frame : disk[t].frames[1] = g /\ Asks("recreate", g)
    BY <1>0, <1>4 DEF Inv, Safe
  <2>3. disk[t].frames[1] \in Frames(st.sess[t])
    BY <2>1, HeldFrames DEF Inv
  <2>4. \A g \in Frame : g \in Frames(st.sess[t]) => g \notin Frames(st.sess[s])
    BY <1>3 DEF Inv, Owners, In
  <2> QED  BY <1>8, <1>11, <2>1, <2>2, <2>3, <2>4
<1>17. Capacity'
  <2>1. ~Has("activate")'
    BY <1>11
  <2> QED  BY <1>0, <1>6, <2>1, SameCapacity, SpawnsCount DEF Inv
<1>18. Scene'
  <2>1. ~Has("swap")' /\ ~Has("deactivate")' /\ ~Has("activate")'
    BY <1>11
  <2>2. Shown'
    BY <1>4, <1>6, <1>7, <1>8, <2>1, PaneFacts DEF Shown
  <2>3. Leftover'
    BY <1>7, PaneFacts DEF Leftover
  <2> QED  BY <2>2, <2>3 DEF Scene
<1> QED  BY <1>11, <1>12, <1>13, <1>14, <1>15, <1>16, <1>17, <1>18 DEF Inv

-----------------------------------------------------------------------------
(* Handlers.                                                               *)

\* The event loop at rest, with nothing left of the last handler: what is in 0.1, ...
Steady ==
    /\ st.occupant = "log" <=> rt.slot[Main] = Log
    /\ st.occupant # "frame" => rt.resident = None
    /\ rt.resident # None => rt.slot[Main] = rt.act /\ rt.act \in Frame
    /\ rt.resident = None => \A f \in Frame : rt.slot[Main] = f =>
                               ~Held(f) /\ ~Coming(f) /\ f \notin rt.panes

\* ... and the rest.
LEMMA IdleIs ==
    ASSUME Inv, Idle
    PROVE  /\ phase = "up" /\ todo = <<>> /\ rt.slot # NoTmux /\ Stood /\ rt.panes = env
           /\ \A op : ~Has(op)
           /\ \A op, f : ~Asks(op, f)
           /\ \A f : Expected(f) <=> Coming(f)
           /\ \A f \in Frame : Held(f) => f \in rt.panes \/ Coming(f)
           /\ ~lost => Steady
<1>1. phase = "up" /\ todo = <<>> /\ (\A op : ~Has(op)) /\ \A op, f : ~Asks(op, f)
  BY AtRest DEF Idle
<1>2. rt.slot # NoTmux /\ Stood /\ rt.panes = env
  BY <1>1, Standing DEF Inv, Mirrors
<1>3. \A f : Expected(f) <=> Coming(f)
  BY <1>1 DEF Expected
<1>4. \A f \in Frame : Held(f) => f \in rt.panes \/ Coming(f)
  BY <1>1, <1>3 DEF Inv, Bound
<1>5. Shown /\ Leftover
  BY <1>1 DEF Inv, Scene
<1>6. ASSUME ~lost PROVE Steady
  BY <1>1, <1>3, <1>5, <1>6 DEF Shown, Leftover, Steady
<1> QED  BY <1>1, <1>2, <1>3, <1>4, <1>6

\* What a handler that begins no frame does to the sessions, ...
SessionsAfter ==
    /\ st' \in StType
    /\ \A s \in Session : /\ SessionOK(st'.sess[s]) /\ NoDup(st'.sess[s].frames)
                          /\ SameRoot(st.sess[s], st'.sess[s])
                          /\ Frames(st'.sess[s]) \subseteq Frames(st.sess[s])
    /\ kept' \subseteq kept
    /\ \A s \in Session : s \in kept' /\ st.sess[s].frames # <<>> => st'.sess[s].frames # <<>>

\* ... to the channel, ...
ChannelAfter ==
    /\ rt' \in RtType /\ rt'.panes = rt.panes /\ rt'.resident = rt.resident /\ rt'.act = rt.act
    /\ rt'.slot = rt.slot /\ Len(rt'.ch) <= Len(rt.ch) /\ ToSet(rt'.ch) \subseteq ToSet(rt.ch)
    /\ Room \/ Len(rt'.ch) < Len(rt.ch)
    /\ \A f \in Frame : Coming(f) /\ Held(f)' => Coming(f)' \/ Asks("register", f)' \/ f \in rt.panes

\* ... what it asks for, ...
EffectsAfter ==
    /\ todo' \in Seq(Effect) /\ InOrder'
    /\ \A op \in {"recover", "reconcile", "recreate"} : ~Has(op)'
    /\ \A f \in Frame : Asks("unregister", f)' => ~Held(f)'
    /\ \A f \in Frame : Asks("register", f)' => Held(f)' /\ Coming(f)
    /\ \A f \in Frame : Asks("answer", f)' => Held(f)' /\ Asks("register", f)' /\ Has("persist")'

\* ... and what it makes of the occupant of 0.1.
OccupantAfter ==
    /\ st'.occupant = "log" <=> IF Has("swap")' THEN st.occupant # "log" ELSE st.occupant = "log"
    /\ Has("deactivate")' => st.occupant = "frame"
    /\ st'.occupant # "frame" \/ Has("swap")' => st.occupant # "frame" \/ Has("deactivate")'
    /\ Has("activate")' => st'.occupant = "frame"

Handled ==
    /\ Idle /\ UNCHANGED <<phase, spawning, disk, env, born, excused, lost>>
    /\ SessionsAfter /\ ChannelAfter /\ EffectsAfter /\ OccupantAfter

LEMMA HandledInv == ASSUME Inv, Handled PROVE Inv'
<1>0. /\ UNCHANGED <<phase, spawning, disk, env, born, excused, lost>>
      /\ SessionsAfter /\ ChannelAfter /\ EffectsAfter /\ OccupantAfter
  BY DEF Handled
<1>1. /\ phase = "up" /\ rt.slot # NoTmux /\ Stood /\ rt.panes = env
      /\ \A op : ~Has(op)
      /\ \A f : Expected(f) <=> Coming(f)
      /\ \A f \in Frame : Held(f) => f \in rt.panes \/ Coming(f)
      /\ ~lost => Steady
  BY IdleIs DEF Handled
<1>2. /\ rt' \in RtType /\ rt'.panes = rt.panes /\ rt'.resident = rt.resident /\ rt'.act = rt.act
      /\ rt'.slot = rt.slot /\ Len(rt'.ch) <= Len(rt.ch) /\ ToSet(rt'.ch) \subseteq ToSet(rt.ch)
      /\ Room \/ Len(rt'.ch) < Len(rt.ch)
  BY <1>0 DEF ChannelAfter
<1>3. /\ \A f \in Frame : Held(f)' => Held(f)
      /\ \A f \in Frame : Coming(f)' => Coming(f)
      /\ \A f \in Frame : Expected(f)' => Coming(f)
      /\ \A f \in Frame : Held(f)' => Expected(f)' \/ f \in rt.panes
  <2>1. \A f \in Frame : Held(f)' => Held(f)
    BY <1>0 DEF SessionsAfter, Held
  <2>2. \A f \in Frame : Coming(f)' => Coming(f)
    BY <1>0, <1>2, ChannelIs
  <2>3. \A f \in Frame : Asks("register", f)' => Coming(f)
    BY <1>0 DEF EffectsAfter
  <2>4. \A f \in Frame : Coming(f) /\ Held(f)' => Expected(f)' \/ f \in rt.panes
    BY <1>0 DEF ChannelAfter, Expected
  <2> QED  BY <1>1, <2>1, <2>2, <2>3, <2>4 DEF Expected
<1>4. \A f \in Frame, s \in Session : In(f, s)' => In(f, s)
  <2>1. \A f \in Frame, s \in Session : InChannel(f, s)' => InChannel(f, s)
    BY <1>2, ChannelIs
  <2>2. \A f \in Frame, s \in Session : f \in Frames(st'.sess[s]) => f \in Frames(st.sess[s])
    BY <1>0 DEF SessionsAfter
  <2> QED  BY <1>0, <2>1, <2>2 DEF In
<1>5. /\ todo' \in Seq(Effect) /\ InOrder'
      /\ ~Has("recover")' /\ ~Has("reconcile")' /\ ~Has("recreate")'
      /\ \A f : ~Asks("recreate", f)'
  <2>1. ~Has("recreate")'
    BY <1>0 DEF EffectsAfter
  <2>2. \A f : ~Asks("recreate", f)'
    BY <2>1 DEF Has, Asks, Holds, HoldsOn
  <2> QED  BY <1>0, <2>1, <2>2 DEF EffectsAfter
<1>6. TypeOK' /\ Owners'
  <2>1. Fits(rt')
    <3>1. Len(rt'.ch) \in Nat /\ Len(rt.ch) \in Nat /\ Len(rt.ch) <= QueueCap /\ QueueCap \in Nat
      BY <1>2, SpawnsCount DEF Inv, TypeOK, Fits, RtType
    <3> QED  BY <1>2, <3>1 DEF Fits
  <2>2. TypeOK'
    BY <1>0, <1>5, <2>1 DEF Inv, TypeOK, SessionsAfter
  <2>3. Owners'
    <3>1. \A s \in Session : disk[s].frames # <<>> /\ st'.sess[s].frames # <<>>
                               => disk[s].frames[1] = st'.sess[s].frames[1]
      BY <1>0 DEF Inv, Owners, SessionsAfter, SameRoot
    <3>2. \A s \in Session : NoDup(st'.sess[s].frames)
      BY <1>0 DEF SessionsAfter
    <3> QED  BY <1>0, <1>4, <3>1, <3>2 DEF Inv, Owners
  <2> QED  BY <2>2, <2>3
<1>7. ByPhase'
  BY <1>0, <1>1, <1>5 DEF ByPhase
<1>8. Slots' /\ Mirrors'
  <2>1. ~lost => Complete'
    BY <1>0, <1>1, <1>2, <1>3 DEF Stood, Complete, Away
  <2>2. Stood'
    BY <1>0, <1>1, <1>2, <2>1 DEF Stood
  <2> QED  BY <1>0, <1>1, <1>2, <2>2 DEF Slots, Mirrors
<1>9. Tasks' /\ Bound'
  <2>1. Tasks'
    BY <1>0, <1>5 DEF Tasks, EffectsAfter
  <2>2. Bound'
    BY <1>0, <1>1, <1>2, <1>3 DEF Bound
  <2> QED  BY <2>1, <2>2
<1>10. Safe'
  <2> SUFFICES ASSUME NEW s \in Session, s \in kept', s \notin excused
               PROVE  /\ disk[s].frames # <<>> /\ st'.sess[s].frames # <<>>
                      /\ disk[s].frames[1] \in env
    BY <1>0 DEF Safe
  <2>1. s \in kept
    BY <1>0 DEF SessionsAfter
  <2>2. /\ st.sess[s].frames # <<>> /\ disk[s].frames # <<>>
        /\ disk[s].frames[1] = st.sess[s].frames[1] /\ st.sess[s].frames[1] \in env
    BY <1>1, <2>1, Promised
  <2> QED  BY <1>0, <2>2 DEF SessionsAfter
<1>11. Capacity'
  <2>1. /\ Len(rt.ch) \in Nat /\ QueueCap \in Nat /\ Cardinality(Spawns) \in Nat
    BY SpawnsCount DEF Inv
  <2>2. Len(rt'.ch) \in Nat
    BY <1>2 DEF RtType
  <2>3. Spawns' = Spawns
    BY <1>0 DEF Spawns
  <2>4. Room <=> Len(rt.ch) + Cardinality(Spawns) < QueueCap
    BY DEF Room, Spawns
  <2>5. Len(rt.ch) + Cardinality(Spawns) <= QueueCap
    <3>1. Len(rt.ch) + Cardinality(Spawns) + 0 <= QueueCap
      BY <1>1 DEF Inv, Capacity
    <3> QED  BY <2>1, <3>1
  <2>6. Len(rt'.ch) + Cardinality(Spawns) + 1 <= QueueCap
    BY <1>2, <2>1, <2>2, <2>4, <2>5
  <2>7. (IF Has("activate")' THEN 1 ELSE 0) \in {0, 1}
    OBVIOUS
  <2> QED  BY <2>1, <2>2, <2>3, <2>6, <2>7 DEF Capacity
<1>12. Scene'
  <2>1. ASSUME ~lost PROVE Shown'
    <3>0. Steady
      BY <1>1, <2>1
    <3>1. st'.occupant = "log" <=> IF Has("swap")' THEN rt.slot[Main] # Log ELSE rt.slot[Main] = Log
      BY <1>0, <3>0 DEF OccupantAfter, Steady
    <3>2. Has("deactivate")' => rt.slot[Main] # Log
      BY <1>0, <3>0 DEF OccupantAfter, Steady
    <3>3. st'.occupant # "frame" \/ Has("swap")' => rt.resident = None \/ Has("deactivate")'
      BY <1>0, <3>0 DEF OccupantAfter, Steady
    <3>4. Has("activate")' => st'.occupant = "frame"
      BY <1>0 DEF OccupantAfter
    <3> QED  BY <1>2, <3>0, <3>1, <3>2, <3>3, <3>4 DEF Shown, Steady
  <2>2. ASSUME ~lost PROVE Leftover'
    BY <1>1, <1>2, <1>3, <1>5, <2>2 DEF Leftover, Steady
  <2>3. lost => Shown' /\ Leftover'
    BY <1>0 DEF Shown, Leftover
  <2> QED  BY <2>1, <2>2, <2>3 DEF Scene
<1> QED  BY <1>5, <1>6, <1>7, <1>8, <1>9, <1>10, <1>11, <1>12 DEF Inv

-----------------------------------------------------------------------------
(* The lists of effects that handlers return.                              *)

LEMMA EffectTypes ==
    /\ \A op \in {"persist", "swap", "deactivate", "killSession"} : Eff(op, None) \in Effect
    /\ \A op \in OnFrame : \A f \in Frame : Eff(op, f) \in Effect
    /\ \A s \in Session : Eff("activate", s) \in Effect
    /\ \A op, arg : Eff(op, arg).op = op /\ Eff(op, arg).arg = arg
  BY DEF Effect, Eff, Ops, OnFrame

\* An effect that a handler returns in some cases.
Maybe(q, op, arg) == Eff(op, arg) \in Effect /\ q \in {<<Eff(op, arg)>>, <<>>}

LEMMA MaybeEffect ==
    ASSUME NEW q, NEW op, NEW arg, Maybe(q, op, arg)
    PROVE  /\ q \in Seq(Effect) /\ Ordered(q)
           /\ \A o : Holds(q, o) <=> (o = op /\ q # <<>>)
           /\ \A o, f : HoldsOn(q, o, f) <=> (o = op /\ f = arg /\ q # <<>>)
           /\ \A e \in ToSet(q) : e.op = op
<1>0. Eff(op, arg) \in Effect /\ q \in {<<Eff(op, arg)>>, <<>>}
  BY DEF Maybe
<1>1. \A e \in ToSet(q) : e.op = op
  BY <1>0, EffectTypes DEF ToSet
<1>2. CASE q = <<Eff(op, arg)>>
  <2>1. q # <<>>
    BY <1>2
  <2> QED  BY <1>0, <1>1, <1>2, <2>1, OneEffect
<1>3. CASE q = <<>>
  BY <1>1, <1>3, NoEffects
<1> QED  BY <1>0, <1>2, <1>3

\* A list of some effects that may stand in any order, and save at the end.
LEMMA SavedAtEnd ==
    ASSUME NEW q \in Seq(Effect), Ordered(q), ~Holds(q, "answer"), ~Holds(q, "killSession")
    PROVE  /\ q \o Persist \in Seq(Effect) /\ Ordered(q \o Persist)
           /\ \A op : Holds(q \o Persist, op) <=> Holds(q, op) \/ op = "persist"
           /\ \A op, f : HoldsOn(q \o Persist, op, f) => HoldsOn(q, op, f) \/ op = "persist"
           /\ \A op, f : HoldsOn(q, op, f) => HoldsOn(q \o Persist, op, f)
<1>1. /\ Persist \in Seq(Effect) /\ Ordered(Persist)
      /\ \A op : Holds(Persist, op) <=> op = "persist"
      /\ \A op, f : HoldsOn(Persist, op, f) => op = "persist"
      /\ \A e \in ToSet(Persist) : e.op = "persist"
  BY PersistIs
<1>2. \A x \in ToSet(q), y \in ToSet(Persist) : MayPrecede(x, y)
  BY <1>1 DEF MayPrecede, Holds
<1>3. /\ q \o Persist \in Seq(Effect) /\ Ordered(q \o Persist)
      /\ \A op : Holds(q \o Persist, op) <=> Holds(q, op) \/ Holds(Persist, op)
      /\ \A op, f : HoldsOn(q \o Persist, op, f) <=> HoldsOn(q, op, f) \/ HoldsOn(Persist, op, f)
  BY <1>1, <1>2, MoreEffects
<1> QED  BY <1>1, <1>3

LEMMA ShowIs ==
    ASSUME NEW s \in Session
    PROVE  /\ Show(s) \in Seq(Effect) /\ Ordered(Show(s))
           /\ \A op : Holds(Show(s), op) <=>
                        op = "activate" \/ (op = "swap" /\ st.occupant = "log")
           /\ \A op, f : HoldsOn(Show(s), op, f) => op \in {"swap", "activate"}
           /\ \A e \in ToSet(Show(s)) : e.op \in {"swap", "activate"}
<1> DEFINE a == IF st.occupant = "log" THEN <<Eff("swap", None)>> ELSE <<>>
           b == <<Eff("activate", s)>>
<1>1. Show(s) = a \o b
  BY DEF Show
<1>2. Maybe(a, "swap", None) /\ (a # <<>> <=> st.occupant = "log")
  BY EffectTypes DEF Maybe
<1>3. Maybe(b, "activate", s) /\ b # <<>>
  BY EffectTypes DEF Maybe
<1> HIDE DEF a, b
<1>4. /\ a \in Seq(Effect) /\ Ordered(a)
      /\ \A o : Holds(a, o) <=> (o = "swap" /\ a # <<>>)
      /\ \A o, f : HoldsOn(a, o, f) <=> (o = "swap" /\ f = None /\ a # <<>>)
      /\ \A e \in ToSet(a) : e.op = "swap"
  BY <1>2, MaybeEffect
<1>5. /\ b \in Seq(Effect) /\ Ordered(b)
      /\ \A o : Holds(b, o) <=> (o = "activate" /\ b # <<>>)
      /\ \A o, f : HoldsOn(b, o, f) <=> (o = "activate" /\ f = s /\ b # <<>>)
      /\ \A e \in ToSet(b) : e.op = "activate"
  BY <1>3, MaybeEffect
<1>6. \A x \in ToSet(a), y \in ToSet(b) : MayPrecede(x, y)
  BY <1>4, <1>5 DEF MayPrecede
<1>7. /\ a \o b \in Seq(Effect) /\ Ordered(a \o b)
      /\ \A op : Holds(a \o b, op) <=> Holds(a, op) \/ Holds(b, op)
      /\ \A op, f : HoldsOn(a \o b, op, f) <=> HoldsOn(a, op, f) \/ HoldsOn(b, op, f)
      /\ ToSet(a \o b) = ToSet(a) \cup ToSet(b)
  BY <1>4, <1>5, <1>6, MoreEffects
<1> QED  BY <1>1, <1>2, <1>3, <1>4, <1>5, <1>7

LEMMA DiscardIs ==
    ASSUME NEW f \in Frame, NEW kill
    PROVE  /\ Discard(f, kill) \in Seq(Effect)
           /\ \A e \in ToSet(Discard(f, kill)) : e.op \in {"kill", "unregister"} /\ e.arg = f
           /\ Eff("unregister", f) \in ToSet(Discard(f, kill))
<1> DEFINE a == IF kill THEN <<Eff("kill", f)>> ELSE <<>>
           b == <<Eff("unregister", f)>>
<1>1. Discard(f, kill) = a \o b
  BY DEF Discard
<1>2. /\ a \in {<<Eff("kill", f)>>, <<>>} /\ b \in {<<Eff("unregister", f)>>, <<>>}
      /\ ToSet(b) = {Eff("unregister", f)}
  BY DEF ToSet
<1>3. Maybe(a, "kill", f) /\ Maybe(b, "unregister", f)
  BY <1>2, EffectTypes DEF OnFrame, Maybe
<1> HIDE DEF a, b
<1>4. a \in Seq(Effect) /\ \A e \in ToSet(a) : e.op = "kill" /\ e.arg = f
  <2>1. \A e \in ToSet(a) : e = Eff("kill", f)
    BY <1>2 DEF ToSet
  <2> QED  BY <1>2, <1>3, <2>1, EffectTypes, MaybeEffect
<1>5. b \in Seq(Effect)
  BY <1>2, <1>3, MaybeEffect
<1>6. a \o b \in Seq(Effect) /\ ToSet(a \o b) = ToSet(a) \cup ToSet(b)
  BY <1>4, <1>5, ConcatSet
<1> QED  BY <1>1, <1>2, <1>4, <1>6, EffectTypes

\* The effects on the frames of s, one frame after the other.
Discards(s, kill) ==
    FlattenSeq([i \in DOMAIN st.sess[s].frames |-> Discard(st.sess[s].frames[i], kill)])

LEMMA DiscardsAre ==
    ASSUME Inv, NEW s \in Session, NEW kill
    PROVE  /\ Discards(s, kill) \in Seq(Effect)
           /\ \A e \in ToSet(Discards(s, kill)) : /\ e.op \in {"kill", "unregister"}
                                                  /\ e.arg \in Frames(st.sess[s])
<1> DEFINE q == st.sess[s].frames
           parts == [i \in DOMAIN q |-> Discard(q[i], kill)]
<1>1. q \in Seq(Frame) /\ DOMAIN q = 1 .. Len(q) /\ Len(q) \in Nat
      /\ \A i \in DOMAIN q : q[i] \in Frame /\ q[i] \in Frames(st.sess[s])
  <2>1. q \in Seq(Frame)
    BY DEF Inv, TypeOK, SessionOK, SessionRec
  <2> QED  BY <2>1 DEF Frames, ToSet
<1>2. Discards(s, kill) = FlattenSeq(parts)
  BY DEF Discards
<1> HIDE DEF q
<1>3. /\ parts \in Seq(Seq(Effect)) /\ DOMAIN parts = DOMAIN q
      /\ \A i \in DOMAIN q : parts[i] = Discard(q[i], kill)
  <2>1. \A i \in DOMAIN q : Discard(q[i], kill) \in Seq(Effect)
    BY <1>1, DiscardIs
  <2>2. parts \in [1 .. Len(q) -> Seq(Effect)]
    BY <1>1, <2>1
  <2> QED  BY <1>1, <2>2
<1> HIDE DEF parts
<1>4. /\ FlattenSeq(parts) \in Seq(Effect)
      /\ \A x : x \in ToSet(FlattenSeq(parts)) <=> \E i \in DOMAIN parts : x \in ToSet(parts[i])
  BY <1>3, FlattenElements
<1>5. \A i \in DOMAIN q : \A e \in ToSet(parts[i]) : /\ e.op \in {"kill", "unregister"}
                                                     /\ e.arg \in Frames(st.sess[s])
  BY <1>1, <1>3, DiscardIs
<1> QED  BY <1>2, <1>3, <1>4, <1>5

LEMMA ClearIs ==
    ASSUME Inv, NEW s \in Session, NEW kill
    PROVE  /\ Clear(s, kill) \in Seq(Effect) /\ Ordered(Clear(s, kill))
           /\ \A op : Holds(Clear(s, kill), op) => op \in {"deactivate", "kill", "unregister", "persist"}
           /\ Holds(Clear(s, kill), "deactivate") <=> st.focus = s /\ st.occupant = "frame"
           /\ \A f : HoldsOn(Clear(s, kill), "unregister", f) => f \in Frames(st.sess[s])
<1> DEFINE a == IF st.focus = s /\ st.occupant = "frame" THEN <<Eff("deactivate", None)>> ELSE <<>>
           b == Discards(s, kill)
<1>1. Clear(s, kill) = (a \o b) \o Persist
  BY DEF Clear, Discards
<1>2. /\ Maybe(a, "deactivate", None)
      /\ a # <<>> <=> st.focus = s /\ st.occupant = "frame"
  BY EffectTypes DEF Maybe
<1> HIDE DEF a
<1>3. /\ a \in Seq(Effect) /\ Ordered(a)
      /\ \A o : Holds(a, o) <=> (o = "deactivate" /\ a # <<>>)
      /\ \A o, f : HoldsOn(a, o, f) <=> (o = "deactivate" /\ f = None /\ a # <<>>)
      /\ \A e \in ToSet(a) : e.op = "deactivate"
  BY <1>2, MaybeEffect
<1>4. /\ b \in Seq(Effect)
      /\ \A e \in ToSet(b) : e.op \in {"kill", "unregister"} /\ e.arg \in Frames(st.sess[s])
  BY DiscardsAre
<1> HIDE DEF b
<1>5. /\ Ordered(b)
      /\ \A op : Holds(b, op) => op \in {"kill", "unregister"}
      /\ \A op, f : HoldsOn(b, op, f) => op \in {"kill", "unregister"} /\ f \in Frames(st.sess[s])
  <2>1. Ordered(b)
    BY <1>4, AnyOrderIs DEF AnyOrder
  <2> QED  BY <1>4, <2>1 DEF Holds, HoldsOn
<1>6. \A x \in ToSet(a), y \in ToSet(b) : MayPrecede(x, y)
  BY <1>3, <1>4 DEF MayPrecede
<1>7. /\ a \o b \in Seq(Effect) /\ Ordered(a \o b)
      /\ \A op : Holds(a \o b, op) <=> Holds(a, op) \/ Holds(b, op)
      /\ \A op, f : HoldsOn(a \o b, op, f) <=> HoldsOn(a, op, f) \/ HoldsOn(b, op, f)
  BY <1>3, <1>4, <1>5, <1>6, MoreEffects
<1> DEFINE c == a \o b
<1>8. /\ c \in Seq(Effect) /\ Ordered(c)
      /\ \A op : Holds(c, op) => op \in {"deactivate", "kill", "unregister"}
      /\ Holds(c, "deactivate") <=> a # <<>>
      /\ \A f : HoldsOn(c, "unregister", f) => f \in Frames(st.sess[s])
  BY <1>3, <1>5, <1>7
<1> HIDE DEF c
<1>9. ~Holds(c, "answer") /\ ~Holds(c, "killSession")
  BY <1>8
<1>10. /\ c \o Persist \in Seq(Effect) /\ Ordered(c \o Persist)
       /\ \A op : Holds(c \o Persist, op) <=> Holds(c, op) \/ op = "persist"
       /\ \A op, f : HoldsOn(c \o Persist, op, f) => HoldsOn(c, op, f) \/ op = "persist"
  BY <1>8, <1>9, SavedAtEnd
<1>11. Clear(s, kill) = c \o Persist
  BY <1>1 DEF c
<1> QED  BY <1>2, <1>8, <1>10, <1>11

-----------------------------------------------------------------------------
(* What handlers have in common.                                           *)

LEMMA OneHolder ==
    ASSUME Inv
    PROVE  \A f \in Frame : \A s, t \in Session : In(f, s) /\ f \in Frames(st.sess[t]) => s = t
  BY DEF Inv, Owners, In

LEMMA SessionsUntouched ==
    ASSUME Inv, st' \in StType, st'.sess = st.sess, kept' = kept
    PROVE  SessionsAfter /\ \A f : Held(f)' <=> Held(f)
<1>1. \A s \in Session : SessionOK(st.sess[s]) /\ NoDup(st.sess[s].frames)
  BY DEF Inv, TypeOK, Owners
<1> QED  BY <1>1 DEF SessionsAfter, SameRoot, Held

LEMMA OneTouched ==
    ASSUME Inv, NEW s \in Session, NEW y, SessionOK(y), NoDup(y.frames), SameRoot(st.sess[s], y),
           Frames(y) \subseteq Frames(st.sess[s]),
           st' \in StType, \A t \in Session : st'.sess[t] = IF t = s THEN y ELSE st.sess[t],
           kept' \subseteq kept, s \in kept' => y.frames # <<>>
    PROVE  /\ SessionsAfter
           /\ \A f \in Frame : Held(f)' => Held(f) /\ (f \in Frames(st.sess[s]) => f \in Frames(y))
<1>1. \A t \in Session : SessionOK(st.sess[t]) /\ NoDup(st.sess[t].frames)
  BY DEF Inv, TypeOK, Owners
<1>2. SessionsAfter
  BY <1>1 DEF SessionsAfter, SameRoot
<1>3. \A f \in Frame : \A t \in Session : f \in Frames(st.sess[s]) /\ f \in Frames(st.sess[t]) => t = s
  BY DEF Inv, Owners, In
<1>4. \A f \in Frame : Held(f)' => Held(f) /\ (f \in Frames(st.sess[s]) => f \in Frames(y))
  BY <1>3 DEF Held
<1> QED  BY <1>2, <1>4

LEMMA ChannelKept ==
    ASSUME Inv, rt' = rt, spawning' = spawning, Room
    PROVE  ChannelAfter
<1>1. rt \in RtType /\ Len(rt.ch) \in Nat
  BY SpawnsCount DEF Inv, TypeOK, Fits
<1>2. \A f : Coming(f)' <=> Coming(f)
  BY DEF Coming
<1> QED  BY <1>1, <1>2 DEF ChannelAfter

\* Only the event that is handled is gone from the channel.
LEMMA Popped ==
    ASSUME Inv, NEW type, Event1(type), Pop
    PROVE  LET e == Head(rt.ch)
           IN  /\ Idle /\ e \in Event /\ e.type = type /\ UNCHANGED <<spawning, born>>
               /\ rt' \in RtType /\ rt'.panes = rt.panes /\ rt'.resident = rt.resident
               /\ rt'.act = rt.act /\ rt'.slot = rt.slot
               /\ Len(rt'.ch) < Len(rt.ch) /\ Len(rt'.ch) <= Len(rt.ch)
               /\ ToSet(rt'.ch) \subseteq ToSet(rt.ch)
               /\ \A f : Coming(f) => Coming(f)' \/ Tells(e, f)
               /\ \A f : Tells(e, f) => Coming(f) /\ InChannel(f, e.sess)
<1> DEFINE e == Head(rt.ch)
           q == rt.ch
<1>1. Idle /\ q # <<>> /\ e.type = type /\ rt' = [rt EXCEPT !.ch = Tail(q)] /\ UNCHANGED <<spawning, born>>
  BY DEF Event1, Pop
<1>2. rt \in RtType /\ q \in Seq(Event)
  BY DEF Inv, TypeOK, Fits, RtType
<1>3. /\ Tail(q) \in Seq(Event) /\ ToSet(q) = {e} \cup ToSet(Tail(q)) /\ Len(Tail(q)) = Len(q) - 1
      /\ Len(q) \in Nat /\ e \in Event
  BY <1>1, <1>2, TailSet
<1>4. /\ rt' \in RtType /\ rt'.panes = rt.panes /\ rt'.resident = rt.resident
      /\ rt'.act = rt.act /\ rt'.slot = rt.slot /\ rt'.ch = Tail(q)
  BY <1>1, <1>2, <1>3 DEF RtType
<1> HIDE DEF e
<1>5. ToSet(q) = {e} \cup ToSet(rt'.ch) /\ Len(rt'.ch) < Len(q) /\ Len(rt'.ch) <= Len(q)
  BY <1>3, <1>4
<1>6. \A f : Coming(f) => Coming(f)' \/ Tells(e, f)
  BY <1>1, <1>5, ChannelIs
<1>7. \A f : Tells(e, f) => Coming(f) /\ InChannel(f, e.sess)
  BY <1>5, ChannelIs
<1> QED  BY <1>1, <1>3, <1>4, <1>5, <1>6, <1>7 DEF e

\* What an event is about.
LEMMA EventIs ==
    ASSUME NEW e \in Event
    PROVE  /\ e.frame \in Frame \cup {None}
           /\ e.type \in {"spawned", "spawnFailed"} => e.sess \in Session /\ e.frame \in Frame
           /\ e.type = "vanished" => e.frame \in Frame
           /\ \A f : Tells(e, f) <=> e.type \in {"spawned", "spawnFailed"} /\ f = e.frame
  BY DEF Event, Tells

\* A command, apart from what it does to the sessions.
LEMMA CommandIs ==
    ASSUME Inv, NEW new, NEW effs, Command(new, effs)
    PROVE  /\ st' = new /\ todo' = effs /\ Idle /\ ChannelAfter
           /\ UNCHANGED <<phase, spawning, disk, env, born, excused, lost>>
  BY ChannelKept DEF Command, Reduced, tuis

LEMMA FocusIs ==
    ASSUME Inv, NEW s \in Session
    PROVE  FocusOn(s) \in StType /\ FocusOn(s).sess = st.sess /\ FocusOn(s).occupant = "frame"
  BY DEF FocusOn, StType, Inv, TypeOK

LEMMA RemovedIs ==
    ASSUME Inv, NEW s \in Session
    PROVE  /\ Removed(s) \in StType
           /\ \A t \in Session : Removed(s).sess[t] = IF t = s THEN NoSession ELSE st.sess[t]
           /\ Removed(s).occupant = IF st.focus = s /\ st.occupant = "frame" THEN "main" ELSE st.occupant
<1>1. st \in StType /\ NoSession \in SessionRec
  BY NoSessionType DEF Inv, TypeOK, SessionOK
<1> QED  BY <1>1 DEF Removed, StType

\* Effects of which none is about a frame's variable or a client.
LEMMA PlainEffects ==
    ASSUME NEW q \in Seq(Effect), Ordered(q), todo' = q,
           \A op : Holds(q, op) => op \in {"persist", "swap", "activate", "deactivate", "killSession"}
    PROVE  /\ EffectsAfter
           /\ \A op : Has(op)' <=> Holds(q, op)
<1>1. \A op : Has(op)' <=> Holds(q, op)
  BY DEF Has
<1>2. \A op, f : Asks(op, f)' => Has(op)'
  BY DEF Has, Asks, Holds, HoldsOn
<1>3. \A f : ~Asks("unregister", f)' /\ ~Asks("register", f)' /\ ~Asks("answer", f)'
  BY <1>1, <1>2
<1>4. \A op \in {"recover", "reconcile", "recreate"} : ~Has(op)'
  BY <1>1
<1> QED  BY <1>1, <1>3, <1>4 DEF EffectsAfter, InOrder

-----------------------------------------------------------------------------
(* Commands.                                                               *)

LEMMA SwitchSessionStep ==
    ASSUME Inv, NEW s \in Session, SwitchSession(s)
    PROVE  Inv'
<1>1. Command(FocusOn(s), Show(s)) /\ kept' = kept
  BY DEF SwitchSession
<1>2. /\ st' = FocusOn(s) /\ todo' = Show(s) /\ Idle /\ ChannelAfter
      /\ UNCHANGED <<phase, spawning, disk, env, born, excused, lost>>
  BY <1>1, CommandIs
<1>3. SessionsAfter
  BY <1>1, <1>2, FocusIs, SessionsUntouched
<1>4. /\ Show(s) \in Seq(Effect) /\ Ordered(Show(s))
      /\ \A op : Holds(Show(s), op) <=>
                   op = "activate" \/ (op = "swap" /\ st.occupant = "log")
  BY ShowIs
<1>5. EffectsAfter /\ \A op : Has(op)' <=> Holds(Show(s), op)
  BY <1>2, <1>4, PlainEffects
<1>6. OccupantAfter
  BY <1>2, <1>4, <1>5, FocusIs DEF OccupantAfter
<1> QED  BY <1>2, <1>3, <1>5, <1>6, HandledInv DEF Handled

LEMMA DriverStepStep == ASSUME Inv, DriverStep PROVE Inv'
<1>1. Command(st, Persist) /\ kept' = kept
  BY DEF DriverStep
<1>2. /\ st' = st /\ todo' = Persist /\ Idle /\ ChannelAfter
      /\ UNCHANGED <<phase, spawning, disk, env, born, excused, lost>>
  BY <1>1, CommandIs
<1>3. SessionsAfter
  BY <1>1, <1>2, SessionsUntouched DEF Inv, TypeOK
<1>4. EffectsAfter /\ \A op : Has(op)' <=> op = "persist"
  BY <1>2, PersistIs, PlainEffects
<1>5. OccupantAfter
  BY <1>2, <1>4 DEF OccupantAfter
<1> QED  BY <1>2, <1>3, <1>4, <1>5, HandledInv DEF Handled

LEMMA ShutdownStep == ASSUME Inv, Shutdown PROVE Inv'
<1> DEFINE b == <<Eff("killSession", None)>>
           q == Persist \o b
<1>1. Command(st, q) /\ kept' = kept
  BY DEF Shutdown
<1>2. Maybe(b, "killSession", None) /\ b # <<>>
  BY EffectTypes DEF Maybe
<1> HIDE DEF b, q
<1>3. /\ st' = st /\ todo' = q /\ Idle /\ ChannelAfter
      /\ UNCHANGED <<phase, spawning, disk, env, born, excused, lost>>
  BY <1>1, CommandIs
<1>4. SessionsAfter
  BY <1>1, <1>3, SessionsUntouched DEF Inv, TypeOK
<1>5. q \in Seq(Effect) /\ Ordered(q) /\ \A op : Holds(q, op) <=> op \in {"persist", "killSession"}
  <2>1. /\ b \in Seq(Effect) /\ Ordered(b) /\ (\A op : Holds(b, op) <=> op = "killSession" /\ b # <<>>)
        /\ \A e \in ToSet(b) : e.op = "killSession"
    BY <1>2, MaybeEffect
  <2>2. \A x \in ToSet(Persist), y \in ToSet(b) : MayPrecede(x, y)
    BY <2>1, PersistIs DEF MayPrecede
  <2>3. /\ Persist \o b \in Seq(Effect) /\ Ordered(Persist \o b)
        /\ \A op : Holds(Persist \o b, op) <=> Holds(Persist, op) \/ Holds(b, op)
    BY <2>1, <2>2, PersistIs, MoreEffects
  <2> QED  BY <1>2, <2>1, <2>3, PersistIs DEF q
<1>6. EffectsAfter /\ \A op : Has(op)' <=> Holds(q, op)
  BY <1>3, <1>5, PlainEffects
<1>7. OccupantAfter
  BY <1>3, <1>5, <1>6 DEF OccupantAfter
<1> QED  BY <1>3, <1>4, <1>6, <1>7, HandledInv DEF Handled

LEMMA ActivateOccupantStep ==
    ASSUME Inv, NEW kind \in {"main", "log"}, ActivateOccupant(kind)
    PROVE  Inv'
<1> DEFINE shown == st.occupant = "frame"
           now == IF shown THEN "main" ELSE st.occupant
           a == IF shown THEN <<Eff("deactivate", None)>> ELSE <<>>
           b == IF now # kind THEN <<Eff("swap", None)>> ELSE <<>>
           q == a \o b
           new == [st EXCEPT !.occupant = kind]
<1>1. Command(new, q) /\ kept' = kept
  BY DEF ActivateOccupant
<1>2. /\ Maybe(a, "deactivate", None) /\ (a # <<>> <=> st.occupant = "frame")
      /\ Maybe(b, "swap", None)
      /\ b # <<>> <=> IF st.occupant = "frame" THEN kind = "log" ELSE st.occupant # kind
  BY EffectTypes DEF Maybe
<1>3. st.occupant \in {"main", "log", "frame"} /\ new \in StType /\ new.sess = st.sess /\ new.occupant = kind
  BY DEF Inv, TypeOK, StType
<1> HIDE DEF a, b, q, new
<1>4. /\ st' = new /\ todo' = q /\ Idle /\ ChannelAfter
      /\ UNCHANGED <<phase, spawning, disk, env, born, excused, lost>>
  BY <1>1, CommandIs
<1>5. SessionsAfter
  BY <1>1, <1>3, <1>4, SessionsUntouched
<1>6. /\ q \in Seq(Effect) /\ Ordered(q)
      /\ \A op : Holds(q, op) <=> \/ op = "deactivate" /\ a # <<>>
                                  \/ op = "swap" /\ b # <<>>
  <2>1. /\ a \in Seq(Effect) /\ Ordered(a) /\ (\A op : Holds(a, op) <=> op = "deactivate" /\ a # <<>>)
        /\ \A e \in ToSet(a) : e.op = "deactivate"
    BY <1>2, MaybeEffect
  <2>2. /\ b \in Seq(Effect) /\ Ordered(b) /\ (\A op : Holds(b, op) <=> op = "swap" /\ b # <<>>)
        /\ \A e \in ToSet(b) : e.op = "swap"
    BY <1>2, MaybeEffect
  <2>3. \A x \in ToSet(a), y \in ToSet(b) : MayPrecede(x, y)
    BY <2>1, <2>2 DEF MayPrecede
  <2>4. /\ a \o b \in Seq(Effect) /\ Ordered(a \o b)
        /\ \A op : Holds(a \o b, op) <=> Holds(a, op) \/ Holds(b, op)
    BY <2>1, <2>2, <2>3, MoreEffects
  <2> QED  BY <2>1, <2>2, <2>4 DEF q
<1>7. EffectsAfter /\ \A op : Has(op)' <=> Holds(q, op)
  BY <1>4, <1>6, PlainEffects
<1>8. /\ Has("deactivate")' <=> st.occupant = "frame"
      /\ Has("swap")' <=> IF st.occupant = "frame" THEN kind = "log" ELSE st.occupant # kind
      /\ ~Has("activate")'
  BY <1>2, <1>6, <1>7
<1>9. OccupantAfter
  <2>1. st'.occupant = kind
    BY <1>3, <1>4
  <2> QED  BY <1>3, <1>8, <2>1 DEF OccupantAfter
<1> QED  BY <1>4, <1>5, <1>7, <1>9, HandledInv DEF Handled

\* A session is given up, with all its frames.
LEMMA SessionGone ==
    ASSUME Inv, NEW s \in Session, NEW kill, st.sess[s].frames # <<>>,
           st' = Removed(s), todo' = Clear(s, kill), kept' = kept \ {s}
    PROVE  SessionsAfter /\ EffectsAfter /\ OccupantAfter /\ \A f : ~Asks("register", f)'
<1>1. /\ st' \in StType
      /\ \A t \in Session : st'.sess[t] = IF t = s THEN NoSession ELSE st.sess[t]
      /\ st'.occupant = IF st.focus = s /\ st.occupant = "frame" THEN "main" ELSE st.occupant
  BY RemovedIs
<1>2. SessionOK(NoSession) /\ NoDup(NoSession.frames) /\ NoSession.frames = <<>> /\ Frames(NoSession) = {}
  BY NothingHeld
<1>3. SessionsAfter /\ \A f \in Frame : Held(f)' => f \notin Frames(st.sess[s])
  <2> DEFINE y == NoSession
  <2>1. /\ SessionOK(y) /\ NoDup(y.frames) /\ SameRoot(st.sess[s], y)
        /\ Frames(y) \subseteq Frames(st.sess[s]) /\ Frames(y) = {}
        /\ \A t \in Session : st'.sess[t] = IF t = s THEN y ELSE st.sess[t]
        /\ kept' \subseteq kept /\ (s \in kept' => y.frames # <<>>)
    BY <1>1, <1>2 DEF SameRoot
  <2> HIDE DEF y
  <2> QED  BY <1>1, <2>1, OneTouched
<1>4. /\ todo' \in Seq(Effect) /\ Ordered(todo')
      /\ \A op : Has(op)' => op \in {"deactivate", "kill", "unregister", "persist"}
      /\ Has("deactivate")' <=> st.focus = s /\ st.occupant = "frame"
      /\ \A f : Asks("unregister", f)' => f \in Frames(st.sess[s])
  BY ClearIs DEF Has, Asks
<1>5. \A f : ~Asks("register", f)' /\ ~Asks("answer", f)'
  <2>1. \A op, f : Asks(op, f)' => Has(op)'
    BY DEF Has, Asks, Holds, HoldsOn
  <2> QED  BY <1>4, <2>1
<1>6. EffectsAfter
  <2>1. \A op \in {"recover", "reconcile", "recreate"} : ~Has(op)'
    BY <1>4
  <2> QED  BY <1>3, <1>4, <1>5, <2>1 DEF EffectsAfter, InOrder
<1>7. OccupantAfter
  <2>1. ~Has("swap")' /\ ~Has("activate")'
    BY <1>4
  <2> QED  BY <1>1, <1>4, <2>1 DEF OccupantAfter
<1> QED  BY <1>3, <1>5, <1>6, <1>7

LEMMA StopSessionStep ==
    ASSUME Inv, NEW s \in Session, StopSession(s)
    PROVE  Inv'
<1>1. Command(Removed(s), Clear(s, TRUE)) /\ kept' = kept \ {s} /\ st.sess[s].frames # <<>>
  BY DEF StopSession, Live
<1>2. /\ st' = Removed(s) /\ todo' = Clear(s, TRUE) /\ Idle /\ ChannelAfter
      /\ UNCHANGED <<phase, spawning, disk, env, born, excused, lost>>
  BY <1>1, CommandIs
<1>3. SessionsAfter /\ EffectsAfter /\ OccupantAfter
  BY <1>1, <1>2, SessionGone
<1> QED  BY <1>2, <1>3, HandledInv DEF Handled

\* Nothing is left to do.
LEMMA NothingToDo ==
    ASSUME todo' = <<>>
    PROVE  EffectsAfter /\ (\A op : ~Has(op)') /\ \A op, f : ~Asks(op, f)'
  BY NoEffects DEF EffectsAfter, InOrder, Has, Asks

LEMMA ActivateFrameStep ==
    ASSUME Inv, NEW s \in Session, NEW f \in Frame, ActivateFrame(s, f)
    PROVE  Inv'
<1> DEFINE x == st.sess[s]
           changed == x.act # f
           y == IF changed THEN [PushMRU(x, x.act) EXCEPT !.act = f] ELSE x
           focused == st.focus = s
           new == [(IF focused THEN FocusOn(s) ELSE st) EXCEPT !.sess[s] = y]
           a == IF changed THEN Persist ELSE <<>>
           b == IF focused THEN Show(s) ELSE <<>>
           q == a \o b
<1>1. x.frames # <<>> /\ Owns(x, f) /\ Command(new, q) /\ kept' = kept
  BY DEF ActivateFrame, Live
<1>2. x \in SessionRec /\ SessionOK(x) /\ NoDup(x.frames)
  BY DEF Inv, TypeOK, SessionOK, Owners
<1>3. SessionOK(y) /\ y.frames = x.frames
  <2> DEFINE z == PushMRU(x, x.act)
             u == [z EXCEPT !.act = f]
  <2>1. SessionOK(u)
    BY <1>1, <1>2, ActivatedType
  <2>2. z \in SessionRec /\ z.frames = x.frames
    BY <1>2, PushMRUType DEF SessionOK, SessionRec
  <2> HIDE DEF z
  <2>3. u.frames = x.frames
    BY <2>2 DEF SessionRec
  <2> HIDE DEF u
  <2>4. y = IF changed THEN u ELSE x
    BY DEF u, z
  <2> HIDE DEF y
  <2> QED  BY <1>2, <2>1, <2>3, <2>4
<1>4. SameRoot(x, y) /\ NoDup(y.frames) /\ Frames(y) = Frames(x) /\ y \in SessionRec
  BY <1>1, <1>2, <1>3 DEF SameRoot, Frames, SessionOK
<1> HIDE DEF y
<1>5. /\ new \in StType /\ \A t \in Session : new.sess[t] = IF t = s THEN y ELSE st.sess[t]
      /\ new.occupant = IF focused THEN "frame" ELSE st.occupant
  BY <1>4 DEF FocusOn, Inv, TypeOK, StType
<1>6. /\ a \in Seq(Effect) /\ Ordered(a)
      /\ \A op : Holds(a, op) => op = "persist"
      /\ \A e \in ToSet(a) : e.op = "persist"
  BY PersistIs, NoEffects DEF ToSet
<1>7. /\ b \in Seq(Effect) /\ Ordered(b)
      /\ \A op : Holds(b, op) <=> focused /\ (op = "activate" \/ (op = "swap" /\ st.occupant = "log"))
      /\ \A e \in ToSet(b) : e.op \in {"swap", "activate"}
  <2>1. CASE focused
    <3>1. b = Show(s)
      BY <2>1
    <3> HIDE DEF b
    <3> QED  BY <2>1, <3>1, ShowIs
  <2>2. CASE ~focused
    <3>1. b = <<>>
      BY <2>2
    <3> HIDE DEF b
    <3> QED  BY <2>2, <3>1, NoEffects DEF ToSet
  <2> QED  BY <2>1, <2>2
<1> HIDE DEF a, b, q, new
<1>8. /\ st' = new /\ todo' = q /\ Idle /\ ChannelAfter
      /\ UNCHANGED <<phase, spawning, disk, env, born, excused, lost>>
  BY <1>1, CommandIs
<1>9. SessionsAfter
  <2>1. /\ st' \in StType /\ \A t \in Session : st'.sess[t] = IF t = s THEN y ELSE st.sess[t]
    BY <1>5, <1>8
  <2>2. SameRoot(st.sess[s], y) /\ Frames(y) \subseteq Frames(st.sess[s]) /\ NoDup(y.frames)
        /\ y.frames # <<>>
    BY <1>1, <1>3, <1>4
  <2> QED  BY <1>1, <1>3, <2>1, <2>2, OneTouched
<1>10. /\ q \in Seq(Effect) /\ Ordered(q)
       /\ \A op : Holds(q, op) <=> Holds(a, op) \/ Holds(b, op)
  <2>1. \A u \in ToSet(a), v \in ToSet(b) : MayPrecede(u, v)
    BY <1>6, <1>7 DEF MayPrecede
  <2>2. /\ a \o b \in Seq(Effect) /\ Ordered(a \o b)
        /\ \A op : Holds(a \o b, op) <=> Holds(a, op) \/ Holds(b, op)
    BY <1>6, <1>7, <2>1, MoreEffects
  <2> QED  BY <2>2 DEF q
<1>11. \A op : Holds(q, op) => op \in {"persist", "swap", "activate"}
  BY <1>6, <1>7, <1>10
<1>12. EffectsAfter /\ \A op : Has(op)' <=> Holds(q, op)
  BY <1>8, <1>10, <1>11, PlainEffects
<1>13. /\ ~Has("deactivate")'
       /\ Has("swap")' <=> focused /\ st.occupant = "log"
       /\ Has("activate")' <=> focused
  BY <1>6, <1>7, <1>10, <1>12
<1>14. OccupantAfter
  <2>1. st'.occupant = IF focused THEN "frame" ELSE st.occupant
    BY <1>5, <1>8
  <2> QED  BY <1>13, <2>1 DEF OccupantAfter
<1> QED  BY <1>8, <1>9, <1>12, <1>14, HandledInv DEF Handled

-----------------------------------------------------------------------------
(* Events.                                                                 *)

\* What reduceTmuxPaneSpawned asks for.
LEMMA SpawnedEffectsAre ==
    ASSUME NEW s \in Session, NEW f \in Frame
    PROVE  LET q == SpawnedEffects(s, f)
           IN  /\ q \in Seq(Effect) /\ Ordered(q)
               /\ \A op : Holds(q, op) <=> \/ op \in {"register", "activate", "persist", "answer"}
                                           \/ op = "swap" /\ st.occupant = "log"
               /\ \A g \in Frame : /\ HoldsOn(q, "register", g) <=> g = f
                                   /\ HoldsOn(q, "answer", g) <=> g = f
                                   /\ ~HoldsOn(q, "unregister", g)
<1> DEFINE a == <<Eff("register", f)>>
           b == Show(s)
           d == <<Eff("answer", f)>>
           q == SpawnedEffects(s, f)
           ab == a \o b
           abc == ab \o Persist
<1>1. q = abc \o d
  BY DEF SpawnedEffects
<1>2. Maybe(a, "register", f) /\ a # <<>> /\ Maybe(d, "answer", f) /\ d # <<>>
  BY EffectTypes DEF Maybe, OnFrame
<1> HIDE DEF a, b, d, q
<1>3. /\ a \in Seq(Effect) /\ Ordered(a)
      /\ \A op : Holds(a, op) <=> op = "register" /\ a # <<>>
      /\ \A op, g : HoldsOn(a, op, g) <=> op = "register" /\ g = f /\ a # <<>>
      /\ \A e \in ToSet(a) : e.op = "register"
  BY <1>2, MaybeEffect
<1>4. /\ b \in Seq(Effect) /\ Ordered(b)
      /\ \A op : Holds(b, op) <=> op = "activate" \/ (op = "swap" /\ st.occupant = "log")
      /\ \A op, g : HoldsOn(b, op, g) => op \in {"swap", "activate"}
      /\ \A e \in ToSet(b) : e.op \in {"swap", "activate"}
  BY ShowIs DEF b
<1>5. /\ d \in Seq(Effect) /\ Ordered(d)
      /\ \A op : Holds(d, op) <=> op = "answer" /\ d # <<>>
      /\ \A op, g : HoldsOn(d, op, g) <=> op = "answer" /\ g = f /\ d # <<>>
      /\ \A e \in ToSet(d) : e.op = "answer"
  BY <1>2, MaybeEffect
<1>6. /\ ab \in Seq(Effect) /\ Ordered(ab)
      /\ \A op : Holds(ab, op) <=> Holds(a, op) \/ Holds(b, op)
      /\ \A op, g : HoldsOn(ab, op, g) <=> HoldsOn(a, op, g) \/ HoldsOn(b, op, g)
  <2>1. \A x \in ToSet(a), y \in ToSet(b) : MayPrecede(x, y)
    BY <1>3, <1>4 DEF MayPrecede
  <2> QED  BY <1>3, <1>4, <2>1, MoreEffects
<1> HIDE DEF ab
<1>7. ~Holds(ab, "answer") /\ ~Holds(ab, "killSession")
  BY <1>3, <1>4, <1>6
<1>8. /\ abc \in Seq(Effect) /\ Ordered(abc)
      /\ \A op : Holds(abc, op) <=> Holds(ab, op) \/ op = "persist"
      /\ \A op, g : HoldsOn(abc, op, g) => HoldsOn(ab, op, g) \/ op = "persist"
      /\ \A op, g : HoldsOn(ab, op, g) => HoldsOn(abc, op, g)
  BY <1>6, <1>7, SavedAtEnd
<1> HIDE DEF abc
<1>9. /\ abc \o d \in Seq(Effect) /\ Ordered(abc \o d)
      /\ \A op : Holds(abc \o d, op) <=> Holds(abc, op) \/ Holds(d, op)
      /\ \A op, g : HoldsOn(abc \o d, op, g) <=> HoldsOn(abc, op, g) \/ HoldsOn(d, op, g)
  <2>1. \A x \in ToSet(abc), y \in ToSet(d) : MayPrecede(x, y)
    <3>1. \A x \in ToSet(abc) : x.op \notin {"answer", "killSession"}
      BY <1>7, <1>8 DEF Holds
    <3> QED  BY <1>5, <3>1 DEF MayPrecede
  <2> QED  BY <1>5, <1>8, <2>1, MoreEffects
<1>10. \A op : Holds(q, op) <=> \/ op \in {"register", "activate", "persist", "answer"}
                                \/ op = "swap" /\ st.occupant = "log"
  BY <1>1, <1>2, <1>3, <1>4, <1>5, <1>6, <1>8, <1>9
<1>11. \A g \in Frame : /\ HoldsOn(q, "register", g) <=> g = f
                        /\ HoldsOn(q, "answer", g) <=> g = f
                        /\ ~HoldsOn(q, "unregister", g)
  <2> SUFFICES ASSUME NEW g \in Frame
               PROVE  /\ HoldsOn(q, "register", g) <=> g = f
                      /\ HoldsOn(q, "answer", g) <=> g = f
                      /\ ~HoldsOn(q, "unregister", g)
    OBVIOUS
  <2>1. \A op : HoldsOn(q, op, g) <=> HoldsOn(abc, op, g) \/ HoldsOn(d, op, g)
    BY <1>1, <1>9
  <2>2. \A op : HoldsOn(ab, op, g) <=> (op = "register" /\ g = f) \/ HoldsOn(b, op, g)
    BY <1>2, <1>3, <1>6
  <2>3. \A op : HoldsOn(d, op, g) <=> op = "answer" /\ g = f
    BY <1>2, <1>5
  <2>4. \A op : HoldsOn(b, op, g) => op \in {"swap", "activate"}
    BY <1>4
  <2>5. \A op : /\ HoldsOn(abc, op, g) => HoldsOn(ab, op, g) \/ op = "persist"
                /\ HoldsOn(ab, op, g) => HoldsOn(abc, op, g)
    BY <1>8
  <2>6. HoldsOn(q, "register", g) <=> g = f
    BY <2>1, <2>2, <2>3, <2>4, <2>5
  <2>7. HoldsOn(q, "answer", g) <=> g = f
    BY <2>1, <2>2, <2>3, <2>4, <2>5
  <2>8. ~HoldsOn(q, "unregister", g)
    BY <2>1, <2>2, <2>3, <2>4, <2>5
  <2> QED  BY <2>6, <2>7, <2>8
<1> QED  BY <1>1, <1>9, <1>10, <1>11 DEF q

LEMMA PaneSpawnedStep == ASSUME Inv, HandlePaneSpawned PROVE Inv'
<1> DEFINE e == Head(rt.ch)
           s == e.sess
           f == e.frame
<1>1. /\ Event1("spawned") /\ Pop /\ kept' = kept
      /\ IF Owns(st.sess[s], f) THEN Reduced(FocusOn(s), SpawnedEffects(s, f)) ELSE Reduced(st, <<>>)
  BY DEF HandlePaneSpawned
<1>2. /\ Idle /\ e \in Event /\ e.type = "spawned" /\ UNCHANGED <<spawning, born>>
      /\ rt' \in RtType /\ rt'.panes = rt.panes /\ rt'.resident = rt.resident
      /\ rt'.act = rt.act /\ rt'.slot = rt.slot
      /\ Len(rt'.ch) < Len(rt.ch) /\ Len(rt'.ch) <= Len(rt.ch)
      /\ ToSet(rt'.ch) \subseteq ToSet(rt.ch)
      /\ \A g : Coming(g) => Coming(g)' \/ Tells(e, g)
      /\ \A g : Tells(e, g) => Coming(g) /\ InChannel(g, s)
  BY <1>1, Popped
<1>3. /\ s \in Session /\ f \in Frame /\ \A g : Tells(e, g) <=> g = f
  BY <1>2, EventIs
<1> HIDE DEF e, s, f
<1>4. UNCHANGED <<phase, spawning, disk, env, born, excused, lost>>
  BY <1>1, <1>2 DEF Reduced, tuis
<1>5. CASE Owns(st.sess[s], f)
  <2>1. st' = FocusOn(s) /\ todo' = SpawnedEffects(s, f)
    BY <1>1, <1>5 DEF Reduced, tuis
  <2>2. /\ SessionsAfter /\ st'.occupant = "frame" /\ \A g : Held(g)' <=> Held(g)
    BY <1>1, <1>3, <2>1, FocusIs, SessionsUntouched
  <2>3. /\ todo' \in Seq(Effect) /\ Ordered(todo')
        /\ \A op : Has(op)' <=> \/ op \in {"register", "activate", "persist", "answer"}
                                \/ op = "swap" /\ st.occupant = "log"
        /\ \A g \in Frame : /\ Asks("register", g)' <=> g = f
                            /\ Asks("answer", g)' <=> g = f
                            /\ ~Asks("unregister", g)'
    BY <1>3, <2>1, SpawnedEffectsAre DEF Has, Asks
  <2>4. \A g \in Frame : g = f => Held(g)' /\ Coming(g)
    <3>1. Held(f) /\ Coming(f)
      BY <1>2, <1>3, <1>5 DEF Held, Owns, Frames
    <3> QED  BY <2>2, <3>1
  <2>5. EffectsAfter
    <3>1. \A op \in {"recover", "reconcile", "recreate"} : ~Has(op)'
      BY <2>3
    <3>2. Has("persist")'
      BY <2>3
    <3> QED  BY <2>3, <2>4, <3>1, <3>2 DEF EffectsAfter, InOrder
  <2>6. ChannelAfter
    BY <1>2, <1>3, <2>3 DEF ChannelAfter
  <2>7. OccupantAfter
    <3>1. ~Has("deactivate")' /\ (Has("swap")' <=> st.occupant = "log")
      BY <2>3
    <3> QED  BY <2>2, <3>1 DEF OccupantAfter
  <2> QED  BY <1>2, <1>4, <2>2, <2>5, <2>6, <2>7, HandledInv DEF Handled
<1>6. CASE ~Owns(st.sess[s], f)
  <2>1. st' = st /\ todo' = <<>>
    BY <1>1, <1>6 DEF Reduced, tuis
  <2>2. SessionsAfter /\ \A g : Held(g)' <=> Held(g)
    BY <1>1, <2>1, SessionsUntouched DEF Inv, TypeOK
  <2>3. EffectsAfter /\ (\A op : ~Has(op)')
    BY <2>1, NothingToDo
  <2>4. ~Held(f)
    <3>1. In(f, s)
      BY <1>2, <1>3 DEF In
    <3> QED  BY <1>3, <1>6, <3>1, OneHolder DEF Held, Owns, Frames
  <2>5. ChannelAfter
    BY <1>2, <1>3, <2>2, <2>4 DEF ChannelAfter
  <2>6. OccupantAfter
    BY <2>1, <2>3 DEF OccupantAfter
  <2> QED  BY <1>2, <1>4, <2>2, <2>3, <2>5, <2>6, HandledInv DEF Handled
<1> QED  BY <1>5, <1>6

LEMMA SpawnFailedStep == ASSUME Inv, HandleSpawnFailed PROVE Inv'
<1> DEFINE e == Head(rt.ch)
           s == e.sess
           f == e.frame
           y == Truncated(st.sess[s], f)
<1>1. /\ Event1("spawnFailed") /\ Pop
      /\ Reduced(IF Owns(st.sess[s], f) THEN [st EXCEPT !.sess[s] = y] ELSE st, <<>>)
      /\ kept' = IF Owns(st.sess[s], f) /\ y = NoSession THEN kept \ {s} ELSE kept
  BY DEF HandleSpawnFailed
<1>2. /\ Idle /\ e \in Event /\ e.type = "spawnFailed" /\ UNCHANGED <<spawning, born>>
      /\ rt' \in RtType /\ rt'.panes = rt.panes /\ rt'.resident = rt.resident
      /\ rt'.act = rt.act /\ rt'.slot = rt.slot
      /\ Len(rt'.ch) < Len(rt.ch) /\ Len(rt'.ch) <= Len(rt.ch)
      /\ ToSet(rt'.ch) \subseteq ToSet(rt.ch)
      /\ \A g : Coming(g) => Coming(g)' \/ Tells(e, g)
      /\ \A g : Tells(e, g) => Coming(g) /\ InChannel(g, s)
  BY <1>1, Popped
<1>3. /\ s \in Session /\ f \in Frame /\ \A g : Tells(e, g) <=> g = f
  BY <1>2, EventIs
<1> HIDE DEF e, s, f, y
<1>4. UNCHANGED <<phase, spawning, disk, env, born, excused, lost>> /\ todo' = <<>>
  BY <1>1, <1>2 DEF Reduced, tuis
<1>5. EffectsAfter /\ (\A op : ~Has(op)')
  BY <1>4, NothingToDo
<1>6. /\ SessionsAfter /\ st'.occupant = st.occupant
      /\ \A g \in Frame : g = f => ~Held(g)'
  <2>1. CASE Owns(st.sess[s], f)
    <3> DEFINE x == st.sess[s]
    <3>1. x \in SessionRec /\ SessionOK(x) /\ NoDup(x.frames) /\ f \in Frames(x)
      BY <1>3, <2>1 DEF Inv, TypeOK, Owners, SessionOK, Owns, Frames
    <3>2. y = Truncated(x, f)
      BY DEF y
    <3> HIDE DEF x
    <3>3. /\ SessionOK(y) /\ SameRoot(x, y) /\ Frames(y) \subseteq Frames(x) \ {f} /\ NoDup(y.frames)
      BY <1>3, <3>1, <3>2, TruncatedType, TruncatedRoot, TruncatedFrames DEF Owns, Frames
    <3>4. kept' \subseteq kept /\ (s \in kept' => y.frames # <<>>)
      BY <1>1, <2>1, <3>3 DEF SessionOK
    <3>5. /\ st' \in StType /\ st'.occupant = st.occupant
          /\ \A t \in Session : st'.sess[t] = IF t = s THEN y ELSE st.sess[t]
      <4>1. st' = [st EXCEPT !.sess[s] = y]
        BY <1>1, <2>1 DEF Reduced, tuis
      <4>2. y \in SessionRec
        BY <3>3 DEF SessionOK
      <4> QED  BY <1>3, <4>1, <4>2 DEF Inv, TypeOK, StType
    <3>6. SessionsAfter /\ \A g \in Frame : Held(g)' => Held(g) /\ (g \in Frames(st.sess[s]) => g \in Frames(y))
      BY <1>3, <3>3, <3>4, <3>5, OneTouched DEF x
    <3> QED  BY <1>3, <3>1, <3>3, <3>5, <3>6 DEF x
  <2>2. CASE ~Owns(st.sess[s], f)
    <3>1. st' = st /\ kept' = kept
      BY <1>1, <2>2 DEF Reduced, tuis
    <3>2. SessionsAfter /\ \A g : Held(g)' <=> Held(g)
      BY <3>1, SessionsUntouched DEF Inv, TypeOK
    <3>3. ~Held(f)
      <4>1. In(f, s)
        BY <1>2, <1>3 DEF In
      <4> QED  BY <1>3, <2>2, <4>1, OneHolder DEF Held, Owns, Frames
    <3> QED  BY <3>1, <3>2, <3>3
  <2> QED  BY <2>1, <2>2
<1>7. ChannelAfter
  BY <1>2, <1>3, <1>6 DEF ChannelAfter
<1>8. OccupantAfter
  BY <1>5, <1>6 DEF OccupantAfter
<1> QED  BY <1>2, <1>4, <1>5, <1>6, <1>7, <1>8, HandledInv DEF Handled

\* One session of a state is replaced.
Put(base, s, y) == [base EXCEPT !.sess[s] = y]

LEMMA Touched ==
    ASSUME NEW base \in StType, NEW s \in Session, NEW y \in SessionRec, NEW new,
           new = Put(base, s, y)
    PROVE  /\ new \in StType /\ new.occupant = base.occupant /\ new.focus = base.focus
           /\ \A t \in Session : new.sess[t] = IF t = s THEN y ELSE base.sess[t]
  BY DEF StType, Put

\* A child frame goes alone, and the frame below it is shown if it was shown.
LEMMA ChildGone ==
    ASSUME Inv, NEW s \in Session, NEW f \in Frame, NEW kill, NEW reshow, NEW base, NEW a,
           f \in Frames(st.sess[s]), st.sess[s].frames[1] # f,
           reshow => base = FocusOn(s) /\ a = Show(s),
           ~reshow => base = st /\ a = <<>>,
           st' = Put(base, s, Without(st.sess[s], f)),
           todo' = a \o Discard(f, kill) \o Persist,
           kept' = kept
    PROVE  SessionsAfter /\ EffectsAfter /\ OccupantAfter
<1> DEFINE x == st.sess[s]
           y == Without(x, f)
           b == Discard(f, kill)
           ab == a \o b
           q == ab \o Persist
<1>1. SessionOK(x) /\ x \in SessionRec /\ NoDup(x.frames) /\ f \in Frames(x) /\ x.frames[1] # f
  BY DEF Inv, TypeOK, Owners, SessionOK
<1> HIDE DEF x
<1>2. /\ SessionOK(y) /\ NoDup(y.frames) /\ SameRoot(x, y) /\ Frames(y) = Frames(x) \ {f}
      /\ y.frames # <<>>
  BY <1>1, WithoutType, WithoutRoot, WithoutFrames DEF Owns, Frames
<1> HIDE DEF y
<1>3. /\ st' \in StType
      /\ st'.occupant = base.occupant
      /\ \A t \in Session : st'.sess[t] = IF t = s THEN y ELSE st.sess[t]
      /\ reshow => base.occupant = "frame"
      /\ ~reshow => base.occupant = st.occupant
  <2>1. y \in SessionRec
    BY <1>2 DEF SessionOK
  <2>2. st' = Put(base, s, y)
    BY DEF x, y
  <2>3. st \in StType /\ FocusOn(s) \in StType /\ FocusOn(s).sess = st.sess /\ FocusOn(s).occupant = "frame"
    BY FocusIs DEF Inv, TypeOK
  <2>4. base \in StType /\ base.sess = st.sess
    BY <2>3
  <2>5. /\ st' \in StType
        /\ st'.occupant = base.occupant
        /\ \A t \in Session : st'.sess[t] = IF t = s THEN y ELSE base.sess[t]
    BY <2>1, <2>2, <2>4, Touched
  <2> QED  BY <2>3, <2>4, <2>5
<1>4. /\ SessionsAfter
      /\ \A g \in Frame : Held(g)' => g # f
  <2>1. SameRoot(st.sess[s], y) /\ Frames(y) \subseteq Frames(st.sess[s])
    BY <1>2 DEF x
  <2>2. SessionsAfter /\ \A g \in Frame : Held(g)' => Held(g) /\ (g \in Frames(st.sess[s]) => g \in Frames(y))
    BY <1>2, <1>3, <2>1, OneTouched
  <2> QED  BY <1>1, <1>2, <2>2 DEF x
<1>5. /\ a \in Seq(Effect) /\ Ordered(a)
      /\ \A op : Holds(a, op) => op \in {"swap", "activate"}
      /\ Holds(a, "swap") <=> reshow /\ st.occupant = "log"
      /\ Holds(a, "activate") <=> reshow
      /\ \A op, g : HoldsOn(a, op, g) => op \in {"swap", "activate"}
      /\ \A e \in ToSet(a) : e.op \in {"swap", "activate"}
  <2>1. CASE reshow
    BY <2>1, ShowIs
  <2>2. CASE ~reshow
    BY <2>2, NoEffects DEF ToSet
  <2> QED  BY <2>1, <2>2
<1>6. /\ b \in Seq(Effect) /\ Ordered(b)
      /\ \A op : Holds(b, op) => op \in {"kill", "unregister"}
      /\ \A op, g : HoldsOn(b, op, g) => op \in {"kill", "unregister"} /\ g = f
      /\ \A e \in ToSet(b) : e.op \in {"kill", "unregister"}
  <2>1. /\ b \in Seq(Effect)
        /\ \A e \in ToSet(b) : e.op \in {"kill", "unregister"} /\ e.arg = f
    BY DiscardIs
  <2> HIDE DEF b
  <2>2. Ordered(b)
    BY <2>1, AnyOrderIs DEF AnyOrder
  <2> QED  BY <2>1, <2>2 DEF Holds, HoldsOn
<1>7. todo' = q
  OBVIOUS
<1> HIDE DEF b
<1>8. /\ ab \in Seq(Effect) /\ Ordered(ab)
      /\ \A op : Holds(ab, op) <=> Holds(a, op) \/ Holds(b, op)
      /\ \A op, g : HoldsOn(ab, op, g) <=> HoldsOn(a, op, g) \/ HoldsOn(b, op, g)
  <2>1. \A u \in ToSet(a), v \in ToSet(b) : MayPrecede(u, v)
    BY <1>5, <1>6 DEF MayPrecede
  <2> QED  BY <1>5, <1>6, <2>1, MoreEffects
<1> HIDE DEF ab
<1>9. ~Holds(ab, "answer") /\ ~Holds(ab, "killSession")
  BY <1>5, <1>6, <1>8
<1>10. /\ q \in Seq(Effect) /\ Ordered(q)
       /\ \A op : Holds(q, op) <=> Holds(ab, op) \/ op = "persist"
       /\ \A op, g : HoldsOn(q, op, g) => HoldsOn(ab, op, g) \/ op = "persist"
  BY <1>8, <1>9, SavedAtEnd
<1> HIDE DEF q
<1>11. /\ \A op : Has(op)' => op \in {"swap", "activate", "kill", "unregister", "persist"}
       /\ Has("swap")' <=> reshow /\ st.occupant = "log"
       /\ Has("activate")' <=> reshow
  <2>1. \A op : Has(op)' <=> Holds(ab, op) \/ op = "persist"
    BY <1>7, <1>10 DEF Has
  <2> QED  BY <1>5, <1>6, <1>8, <2>1
<1>12. \A op, g : Asks(op, g)' => \/ op \in {"swap", "activate", "persist"}
                                  \/ op \in {"kill", "unregister"} /\ g = f
  <2>1. \A op, g : Asks(op, g)' => HoldsOn(ab, op, g) \/ op = "persist"
    BY <1>7, <1>10 DEF Asks
  <2> QED  BY <1>5, <1>6, <1>8, <2>1
<1>13. EffectsAfter
  <2>1. \A op \in {"recover", "reconcile", "recreate"} : ~Has(op)'
    BY <1>11
  <2>2. \A g : ~Asks("register", g)'
    BY <1>12
  <2>3. \A g : ~Asks("answer", g)'
    BY <1>12
  <2>4. \A g : Asks("unregister", g)' => g = f
    BY <1>12
  <2> QED  BY <1>4, <1>7, <1>10, <2>1, <2>2, <2>3, <2>4 DEF EffectsAfter, InOrder
<1>14. OccupantAfter
  <2>1. ~Has("deactivate")'
    BY <1>11
  <2>2. CASE reshow
    BY <1>3, <1>11, <2>1, <2>2 DEF OccupantAfter
  <2>3. CASE ~reshow
    BY <1>3, <1>11, <2>1, <2>3 DEF OccupantAfter
  <2> QED  BY <2>2, <2>3
<1> QED  BY <1>4, <1>13, <1>14

LEMMA EvictInv ==
    ASSUME Inv, NEW f \in Frame, NEW kill, Evict(f, kill), Idle,
           UNCHANGED <<spawning, born>>, SessionsAfter => ChannelAfter
    PROVE  Inv'
<1>1. UNCHANGED <<phase, disk, env, excused, lost>>
  BY DEF Evict, Reduced, tuis
<1>2. CASE (\A s \in Session : ~Owns(st.sess[s], f)) /\ Reduced(st, <<>>) /\ kept' = kept
  <2>1. st' = st /\ todo' = <<>> /\ kept' = kept
    BY <1>2 DEF Reduced, tuis
  <2>2. SessionsAfter
    BY <2>1, SessionsUntouched DEF Inv, TypeOK
  <2>3. EffectsAfter /\ \A op : ~Has(op)'
    BY <2>1, NothingToDo
  <2>4. OccupantAfter
    BY <2>1, <2>3 DEF OccupantAfter
  <2> QED  BY <1>1, <2>2, <2>3, <2>4, HandledInv DEF Handled
<1>3. ASSUME NEW s \in Session, Owns(st.sess[s], f), st.sess[s].frames[1] = f,
             Reduced(Removed(s), Clear(s, kill)), kept' = kept \ {s}
      PROVE  Inv'
  <2>1. st' = Removed(s) /\ todo' = Clear(s, kill)
    BY <1>3 DEF Reduced, tuis
  <2>2. st.sess[s].frames # <<>>
    BY <1>3 DEF Owns, ToSet
  <2>3. SessionsAfter /\ EffectsAfter /\ OccupantAfter
    BY <1>3, <2>1, <2>2, SessionGone
  <2> QED  BY <1>1, <2>3, HandledInv DEF Handled
<1>4. ASSUME NEW s \in Session, Owns(st.sess[s], f), st.sess[s].frames[1] # f,
             NEW reshow, NEW base, NEW a,
             reshow => base = FocusOn(s) /\ a = Show(s),
             ~reshow => base = st /\ a = <<>>,
             Reduced(Put(base, s, Without(st.sess[s], f)), a \o Discard(f, kill) \o Persist),
             kept' = kept
      PROVE  Inv'
  <2>1. /\ st' = Put(base, s, Without(st.sess[s], f))
        /\ todo' = a \o Discard(f, kill) \o Persist
    BY <1>4 DEF Reduced, tuis
  <2>2. f \in Frames(st.sess[s])
    BY <1>4 DEF Owns, Frames
  <2>3. SessionsAfter /\ EffectsAfter /\ OccupantAfter
    BY <1>4, <2>1, <2>2, ChildGone
  <2> QED  BY <1>1, <2>3, HandledInv DEF Handled
<1>5. ASSUME NEW s \in Session, Owns(st.sess[s], f), st.sess[s].frames[1] # f,
             NEW reshow,
             Reduced([(IF reshow THEN FocusOn(s) ELSE st) EXCEPT !.sess[s] = Without(st.sess[s], f)],
                     (IF reshow THEN Show(s) ELSE <<>>) \o Discard(f, kill) \o Persist),
             kept' = kept
      PROVE  Inv'
  <2> DEFINE base == IF reshow THEN FocusOn(s) ELSE st
             a == IF reshow THEN Show(s) ELSE <<>>
  <2>1. /\ reshow => base = FocusOn(s) /\ a = Show(s)
        /\ ~reshow => base = st /\ a = <<>>
    OBVIOUS
  <2>2. Reduced(Put(base, s, Without(st.sess[s], f)), a \o Discard(f, kill) \o Persist)
    BY <1>5 DEF Put
  <2> HIDE DEF base, a
  <2> QED  BY <1>4, <1>5, <2>1, <2>2
<1> QED  BY <1>2, <1>3, <1>5 DEF Evict

LEMMA WindowVanishedStep == ASSUME Inv, HandleWindowVanished PROVE Inv'
<1> DEFINE e == Head(rt.ch)
           f == e.frame
<1>1. Event1("vanished") /\ Pop /\ Evict(f, FALSE)
  BY DEF HandleWindowVanished
<1>2. /\ Idle /\ e \in Event /\ e.type = "vanished" /\ UNCHANGED <<spawning, born>>
      /\ rt' \in RtType /\ rt'.panes = rt.panes /\ rt'.resident = rt.resident
      /\ rt'.act = rt.act /\ rt'.slot = rt.slot
      /\ Len(rt'.ch) < Len(rt.ch) /\ Len(rt'.ch) <= Len(rt.ch)
      /\ ToSet(rt'.ch) \subseteq ToSet(rt.ch)
      /\ \A g : Coming(g) => Coming(g)' \/ Tells(e, g)
  BY <1>1, Popped
<1>3. f \in Frame /\ \A g : ~Tells(e, g)
  BY <1>2, EventIs
<1> HIDE DEF e, f
<1>4. ChannelAfter
  BY <1>2, <1>3 DEF ChannelAfter
<1> QED  BY <1>1, <1>2, <1>3, <1>4, EvictInv

LEMMA ReapParkedStep ==
    ASSUME Inv, NEW f \in Frame, ReapParked(f)
    PROVE  Inv'
<1>1. Idle /\ Room /\ Evict(f, FALSE) /\ UNCHANGED <<rt, spawning, born>>
  BY DEF ReapParked
<1>2. ChannelAfter
  BY <1>1, ChannelKept
<1> QED  BY <1>1, <1>2, EvictInv

LEMMA PaneDiedStep == ASSUME Inv, HandlePaneDied PROVE Inv'
<1> DEFINE shown == IF st.focus \in Live(st.sess) THEN ActiveFrame(st.sess[st.focus]) ELSE None
           f == IF rt.act # None THEN rt.act ELSE shown
<1>1. Idle /\ Room /\ f # None /\ Evict(f, TRUE) /\ UNCHANGED <<rt, spawning, born>>
  BY DEF HandlePaneDied
<1>2. shown \in Frame \cup {None}
  <2>1. \A s \in Live(st.sess) : st.sess[s] \in SessionRec /\ st.sess[s].frames # <<>>
    BY DEF Live, Inv, TypeOK, SessionOK
  <2> QED  BY <2>1, ActiveFrameType
<1>3. rt.act \in Frame \cup {None}
  BY DEF Inv, TypeOK, Fits, RtType
<1>4. f \in Frame
  BY <1>1, <1>2, <1>3
<1> HIDE DEF f
<1>5. ChannelAfter
  BY <1>1, ChannelKept
<1> QED  BY <1>1, <1>4, <1>5, EvictInv

(***************************************************************************)
(* A new frame.                                                            *)
(***************************************************************************)

\* An id that was not handed out yet is found nowhere.
LEMMA Unborn ==
    ASSUME Inv, Idle, NEW f \in Frame, f \notin born
    PROVE  /\ \A s \in Session : ~In(f, s)
           /\ ~Held(f) /\ ~Coming(f) /\ f \notin env /\ spawning[f] = None
           /\ Vacant(rt.slot, f) /\ \A w \in Pane : rt.slot[w] # f
<1>1. \A s \in Session : ~In(f, s)
  BY DEF Inv, Owners
<1>2. ~Held(f)
  BY <1>1 DEF Held, In
<1>3. spawning[f] = None
  BY <1>1 DEF In, Inv, TypeOK
<1>4. ~Coming(f)
  <2> SUFFICES ASSUME NEW e \in ToSet(rt.ch), Tells(e, f)
               PROVE  FALSE
    BY <1>3, ChannelIs
  <2>1. e \in Event
    BY DEF Inv, TypeOK, Fits, RtType, ToSet
  <2>2. e.sess \in Session
    BY <2>1, EventIs
  <2>3. InChannel(f, e.sess)
    BY ChannelIs
  <2> QED  BY <1>1, <2>2, <2>3 DEF In
<1>5. f \notin env
  BY DEF Inv, Owners
<1>6. Vacant(rt.slot, f)
  BY IdleIs DEF Stood
<1>7. \A w \in Pane : rt.slot[w] # f
  BY <1>6 DEF Vacant, Placed
<1> QED  BY <1>1, <1>2, <1>3, <1>4, <1>5, <1>6, <1>7

\* The frame f is put on top of s, and its goroutine started.
Grown(s, f, y) ==
    /\ SessionOK(y) /\ NoDup(y.frames) /\ y.frames # <<>>
    /\ Frames(y) = Frames(st.sess[s]) \cup {f}
    /\ st.sess[s].frames # <<>> => y.frames[1] = st.sess[s].frames[1]
    /\ st.sess[s].frames = <<>> => disk[s].frames = <<>>
    /\ st' \in StType /\ st'.occupant = st.occupant
    /\ \A t \in Session : st'.sess[t] = IF t = s THEN y ELSE st.sess[t]
    /\ todo' = <<>> /\ UNCHANGED <<phase, disk, env, excused, lost>>

LEMMA BeganIs ==
    ASSUME Inv, NEW s \in Session, NEW f \in Frame, NEW y, Begin(s, f), Grown(s, f, y)
    PROVE  /\ \A g \in Frame : Held(g)' <=> Held(g) \/ g = f
           /\ \A g \in Frame : Coming(g)' <=> Coming(g) \/ g = f
           /\ \A g \in Frame : Expected(g)' <=> Coming(g) \/ g = f
           /\ \A g \in Frame, t \in Session : In(g, t)' => In(g, t) \/ (g = f /\ t = s)
           /\ (\A op : ~Has(op)') /\ \A op, g : ~Asks(op, g)'
           /\ \A g \in Frame : spawning'[g] = IF g = f THEN s ELSE spawning[g]
<1>0. /\ spawning' = [spawning EXCEPT ![f] = s] /\ rt' = rt /\ kept' = kept
  BY DEF Begin
<1>1. spawning \in [Frame -> Session \cup {None}]
  BY DEF Inv, TypeOK
<1>2. \A g \in Frame : spawning'[g] = IF g = f THEN s ELSE spawning[g]
  BY <1>0, <1>1
<1>3. (\A op : ~Has(op)') /\ \A op, g : ~Asks(op, g)'
  BY NothingToDo DEF Grown
<1>4. /\ \A t \in Session : st'.sess[t] = IF t = s THEN y ELSE st.sess[t]
      /\ Frames(y) = Frames(st.sess[s]) \cup {f}
      /\ disk' = disk
  BY DEF Grown
<1>5. \A g \in Frame : \A t \in Session :
        g \in Frames(st'.sess[t]) <=> g \in Frames(st.sess[t]) \/ (g = f /\ t = s)
  BY <1>4
<1>6. \A g \in Frame : Held(g)' <=> Held(g) \/ g = f
  BY <1>5 DEF Held
<1>7. \A g \in Frame : Coming(g)' <=> Coming(g) \/ g = f
  <2>1. s # None
    BY PaneFacts
  <2> QED  BY <1>0, <1>2, <2>1, ChannelIs
<1>8. \A g \in Frame : Expected(g)' <=> Coming(g) \/ g = f
  BY <1>3, <1>7 DEF Expected
<1>9. \A g \in Frame, t \in Session : In(g, t)' => In(g, t) \/ (g = f /\ t = s)
  <2>1. \A g \in Frame, t \in Session : InChannel(g, t)' => InChannel(g, t)
    BY <1>0, ChannelIs
  <2>2. \A g \in Frame, t \in Session : spawning'[g] = t => spawning[g] = t \/ (g = f /\ t = s)
    BY <1>2
  <2> QED  BY <1>4, <1>5, <2>1, <2>2 DEF In
<1> QED  BY <1>2, <1>3, <1>6, <1>7, <1>8, <1>9

LEMMA BeganInv ==
    ASSUME Inv, NEW s \in Session, NEW f \in Frame, NEW y, Begin(s, f), Grown(s, f, y)
    PROVE  Inv'
<1>0. /\ Idle /\ Room /\ f \notin born /\ spawning' = [spawning EXCEPT ![f] = s]
      /\ born' = born \cup {s, f} /\ rt' = rt /\ kept' = kept
  BY DEF Begin
<1>1. /\ phase = "up" /\ todo = <<>> /\ rt.slot # NoTmux /\ Stood /\ rt.panes = env
      /\ \A op : ~Has(op)
      /\ \A g : Expected(g) <=> Coming(g)
      /\ \A g \in Frame : Held(g) => g \in rt.panes \/ Coming(g)
      /\ ~lost => Steady
  BY <1>0, IdleIs
<1>2. /\ \A t \in Session : ~In(f, t)
      /\ ~Held(f) /\ ~Coming(f) /\ f \notin env /\ spawning[f] = None
      /\ Vacant(rt.slot, f) /\ \A w \in Pane : rt.slot[w] # f
  BY <1>0, Unborn
<1>3. /\ \A g \in Frame : Held(g)' <=> Held(g) \/ g = f
      /\ \A g \in Frame : Expected(g)' <=> Coming(g) \/ g = f
      /\ \A g \in Frame, t \in Session : In(g, t)' => In(g, t) \/ (g = f /\ t = s)
      /\ (\A op : ~Has(op)') /\ \A op, g : ~Asks(op, g)'
      /\ \A g \in Frame : spawning'[g] = IF g = f THEN s ELSE spawning[g]
  BY BeganIs
<1>4. /\ SessionOK(y) /\ NoDup(y.frames) /\ y.frames # <<>>
      /\ st.sess[s].frames # <<>> => y.frames[1] = st.sess[s].frames[1]
      /\ st.sess[s].frames = <<>> => disk[s].frames = <<>>
      /\ st' \in StType /\ st'.occupant = st.occupant
      /\ \A t \in Session : st'.sess[t] = IF t = s THEN y ELSE st.sess[t]
      /\ todo' = <<>> /\ UNCHANGED <<phase, disk, env, excused, lost>>
  BY DEF Grown
<1>5. TypeOK' /\ InOrder'
  <2>1. InOrder' /\ todo' \in Seq(Effect)
    BY <1>4, NoEffects DEF InOrder
  <2>2. spawning' \in [Frame -> Session \cup {None}]
    BY <1>0 DEF Inv, TypeOK
  <2> QED  BY <1>0, <1>4, <2>1, <2>2 DEF Inv, TypeOK
<1>6. ByPhase'
  BY <1>1, <1>3, <1>4 DEF ByPhase
<1>7. Owners'
  <2>1. \A g \in Frame, t \in Session : In(g, t)' => g \in born' /\ t \in born'
    BY <1>0, <1>3 DEF Inv, Owners
  <2>2. \A g \in Frame : \A t, u \in Session : In(g, t)' /\ In(g, u)' => t = u
    BY <1>2, <1>3 DEF Inv, Owners
  <2>3. \A t \in Session : NoDup(st'.sess[t].frames) /\ NoDup(disk'[t].frames)
    BY <1>4 DEF Inv, Owners
  <2>4. \A t \in Session : disk'[t].frames # <<>> /\ st'.sess[t].frames # <<>>
                             => disk'[t].frames[1] = st'.sess[t].frames[1]
    BY <1>4 DEF Inv, Owners
  <2>5. env' \subseteq born'
    BY <1>0, <1>4 DEF Inv, Owners
  <2> QED  BY <2>1, <2>2, <2>3, <2>4, <2>5 DEF Owners
<1>8. Slots' /\ Mirrors'
  <2>1. ~lost => Complete'
    <3>1. \A g \in Frame : rt.slot[Log] = g => g # f
      BY <1>2, PaneFacts
    <3> QED  BY <1>0, <1>1, <1>3, <1>4, <3>1 DEF Stood, Complete, Away
  <2>2. \A g \in Frame : spawning'[g] # None \/ g \notin born' => Vacant(rt'.slot, g)
    BY <1>0, <1>1, <1>2, <1>3 DEF Stood
  <2>3. Stood'
    BY <1>0, <1>1, <1>4, <2>1, <2>2 DEF Stood
  <2> QED  BY <1>0, <1>1, <1>4, <2>3 DEF Slots, Mirrors
<1>9. Tasks' /\ Bound'
  <2>1. Tasks'
    BY <1>3 DEF Tasks
  <2>2. Bound'
    BY <1>0, <1>1, <1>3, <1>4 DEF Bound
  <2> QED  BY <2>1, <2>2
<1>10. Safe'
  <2> SUFFICES ASSUME NEW t \in Session, t \in kept', t \notin excused'
               PROVE  /\ disk'[t].frames # <<>> /\ st'.sess[t].frames # <<>>
                      /\ disk'[t].frames[1] \in env'
    BY DEF Safe
  <2>1. /\ st.sess[t].frames # <<>> /\ disk[t].frames # <<>>
        /\ disk[t].frames[1] = st.sess[t].frames[1] /\ st.sess[t].frames[1] \in env
    BY <1>0, <1>1, <1>4, Promised
  <2> QED  BY <1>4, <2>1
<1>11. Capacity'
  <2>1. /\ Len(rt.ch) \in Nat /\ QueueCap \in Nat /\ Cardinality(Spawns) \in Nat
        /\ IsFiniteSet(Spawns)
    BY SpawnsCount DEF Inv
  <2>2. Spawns' = Spawns \cup {f} /\ f \notin Spawns
    BY <1>2, <1>3, PaneFacts DEF Spawns
  <2>3. Cardinality(Spawns') = Cardinality(Spawns) + 1
    BY <2>1, <2>2, FS_AddElement
  <2>4. Len(rt.ch) + Cardinality(Spawns) < QueueCap
    BY <1>0 DEF Room, Spawns
  <2>5. Len(rt'.ch) = Len(rt.ch)
    BY <1>0
  <2>6. (IF Has("activate")' THEN 1 ELSE 0) = 0
    BY <1>3
  <2> QED  BY <2>1, <2>3, <2>4, <2>5, <2>6 DEF Capacity
<1>12. Scene'
  <2>1. Shown'
    BY <1>0, <1>1, <1>3, <1>4 DEF Shown, Steady
  <2>2. \A g \in Frame : rt.slot[Main] = g => g # f
    BY <1>2, PaneFacts
  <2>3. Leftover'
    BY <1>0, <1>1, <1>3, <1>4, <2>2 DEF Leftover, Steady
  <2> QED  BY <2>1, <2>3 DEF Scene
<1> QED  BY <1>5, <1>6, <1>7, <1>8, <1>9, <1>10, <1>11, <1>12 DEF Inv

LEMMA CreateSessionStep ==
    ASSUME Inv, NEW s \in Session, NEW f \in Frame, CreateSession(s, f)
    PROVE  Inv'
<1> DEFINE y == NewSession(f)
<1>1. s \notin born /\ Begin(s, f) /\ Reduced(Put(st, s, y), <<>>)
  BY DEF CreateSession, Put
<1>2. st.sess[s].frames = <<>> /\ disk[s].frames = <<>>
  <2>1. \A g \in Frame : ~In(g, s)
    BY <1>1 DEF Inv, Owners
  <2>2. st.sess[s].frames \in Seq(Frame) /\ disk[s].frames \in Seq(Frame)
    BY DEF Inv, TypeOK, SessionOK, SessionRec
  <2>3. ASSUME NEW q \in Seq(Frame), q # <<>>
        PROVE  q[1] \in Frame /\ q[1] \in ToSet(q)
    BY <2>3 DEF ToSet
  <2>4. CASE st.sess[s].frames # <<>>
    BY <2>1, <2>2, <2>3, <2>4 DEF In, Frames
  <2>5. CASE disk[s].frames # <<>>
    BY <2>1, <2>2, <2>3, <2>5 DEF In, Frames
  <2> QED  BY <2>4, <2>5
<1>3. /\ SessionOK(y) /\ Frames(y) = {f} /\ NoDup(y.frames) /\ y.frames # <<>>
  BY NewSessionType, NewStack DEF StackOK
<1> HIDE DEF y
<1>4. y \in SessionRec /\ st \in StType
  BY <1>3 DEF SessionOK, Inv, TypeOK
<1>5. Frames(st.sess[s]) = {}
  BY <1>2 DEF Frames, ToSet
<1>6. st' = Put(st, s, y) /\ todo' = <<>> /\ UNCHANGED <<phase, disk, env, excused, lost>>
  BY <1>1 DEF Reduced, tuis
<1>7. /\ st' \in StType /\ st'.occupant = st.occupant
      /\ \A t \in Session : st'.sess[t] = IF t = s THEN y ELSE st.sess[t]
  BY <1>4, <1>6, Touched
<1>8. Grown(s, f, y)
  BY <1>2, <1>3, <1>5, <1>6, <1>7 DEF Grown
<1> QED  BY <1>1, <1>8, BeganInv

LEMMA PushDriverStep ==
    ASSUME Inv, NEW s \in Session, NEW f \in Frame, PushDriver(s, f)
    PROVE  Inv'
<1> DEFINE x == st.sess[s]
           y == Pushed(x, f)
<1>1. Begin(s, f) /\ Reduced(Put(st, s, y), <<>>) /\ x.frames # <<>>
  BY DEF PushDriver, Put, Live
<1>2. x \in SessionRec /\ SessionOK(x) /\ NoDup(x.frames) /\ x = st.sess[s]
  BY DEF Inv, TypeOK, Owners, SessionOK
<1>3. f \notin Frames(x)
  BY <1>1, Unborn DEF Begin, In
<1> HIDE DEF x
<1>4. /\ SessionOK(y) /\ Frames(y) = Frames(x) \cup {f} /\ NoDup(y.frames) /\ y.frames # <<>>
      /\ SameRoot(x, y)
  BY <1>1, <1>2, <1>3, PushedType, PushedFrames, PushedRoot
<1> HIDE DEF y
<1>5. y \in SessionRec /\ st \in StType
  BY <1>4 DEF SessionOK, Inv, TypeOK
<1>6. st' = Put(st, s, y) /\ todo' = <<>> /\ UNCHANGED <<phase, disk, env, excused, lost>>
  BY <1>1 DEF Reduced, tuis
<1>7. /\ st' \in StType /\ st'.occupant = st.occupant
      /\ \A t \in Session : st'.sess[t] = IF t = s THEN y ELSE st.sess[t]
  BY <1>5, <1>6, Touched
<1>8. Grown(s, f, y)
  BY <1>1, <1>2, <1>4, <1>6, <1>7 DEF Grown, SameRoot
<1> QED  BY <1>1, <1>8, BeganInv

-----------------------------------------------------------------------------
(* The invariant holds, and what follows.                                  *)

\* What Inv speaks of stands still.
Still == UNCHANGED <<st, rt, todo, phase, spawning, disk, env, born, kept, excused, lost>>

LEMMA StillInv == ASSUME Inv, Still PROVE Inv'
<1> USE DEF Still
<1>1. TypeOK' /\ InOrder'
  BY DEF Inv, TypeOK, InOrder
<1>2. ByPhase'
  BY DEF Inv, ByPhase, Has
<1>3. Owners'
  BY DEF Inv, Owners, In, InChannel
<1>4. Slots' /\ Mirrors'
  BY DEF Inv, Slots, Stood, Complete, Away, Held, Expected, Coming, Asks, Mirrors
<1>5. Tasks' /\ Bound'
  BY DEF Inv, Tasks, Bound, Held, Expected, Coming, Has, Asks
<1>6. Safe' /\ Capacity'
  BY DEF Inv, Safe, Capacity, Spawns, Has, Asks
<1>7. Scene'
  BY DEF Inv, Scene, Shown, Leftover, Held, Expected, Coming, Has, Asks
<1> QED  BY <1>1, <1>2, <1>3, <1>4, <1>5, <1>6, <1>7 DEF Inv

LEMMA StutterStep == ASSUME Inv, UNCHANGED vars PROVE Inv'
  BY StillInv DEF vars, tuis, Still

LEMMA RespawnOccupantStep == ASSUME Inv, RespawnOccupant PROVE Inv'
  BY StillInv DEF RespawnOccupant, mem, ghosts, tuis, Still

LEMMA RespawnMainPaneStep == ASSUME Inv, RespawnMainPane PROVE Inv'
  BY StillInv DEF RespawnMainPane, mem, Still

\* The TUIs that the daemon left behind quit: the windows they are parked in go, and
\* what depends on both of them is not asked for from then on.
LEMMA TuiQuitsStep == ASSUME Inv, TuiQuits PROVE Inv'
<1> DEFINE parked == {w \in Frame : rt.slot[w] \in {Main, Log}}
           new == [w \in Pane |-> IF w \in parked THEN None ELSE rt.slot[w]]
<1>0. /\ rt' = [rt EXCEPT !.slot = new] /\ lost' = (lost \/ parked # {})
      /\ UNCHANGED <<st, todo, phase, spawning, disk, env, born, kept, excused>>
  BY DEF TuiQuits, mem
<1>1. rt.slot \in SlotMap /\ rt \in RtType /\ Fits(rt) /\ lost \in BOOLEAN
  BY DEF Inv, TypeOK, Fits, RtType, SlotMap
<1>2. CASE parked = {}
  <2>1. new = rt.slot
    BY <1>1, <1>2 DEF SlotMap
  <2> HIDE DEF new, parked
  <2>2. rt' = rt /\ lost' = lost
    BY <1>0, <1>1, <1>2, <2>1 DEF RtType
  <2> QED  BY <1>0, <2>2, StillInv DEF Still
<1>3. CASE parked # {}
  <2>1. lost' = TRUE
    BY <1>0, <1>3
  <2>2. Stood /\ rt.slot # NoTmux
    <3>1. rt.slot # NoTmux
      BY <1>3, PaneFacts DEF NoTmux
    <3> QED  BY <3>1, Standing
  <2>3. new \in SlotMap /\ new[Main] = rt.slot[Main] /\ \A w \in Pane : new[w] \in {rt.slot[w], None}
    BY <1>1, PaneFacts DEF SlotMap
  <2>4. phase # "cold"
    <3>1. PICK w \in Frame : rt.slot[w] \in {Main, Log}
      BY <1>3
    <3> QED  BY <2>2, <3>1, PaneFacts DEF Stood
  <2> HIDE DEF new, parked
  <2>5. Apart(new) /\ VacancyKept(rt.slot, new)
    BY <1>1, <2>2, <2>3, GoneApart DEF Stood
  <2>6. /\ rt' \in RtType /\ rt'.panes = rt.panes /\ rt'.resident = rt.resident
        /\ rt'.act = rt.act /\ rt'.ch = rt.ch /\ rt'.slot = new
    BY <1>0, <2>3, SlotsAlone
  <2>7. /\ \A op : Has(op)' <=> Has(op)
        /\ \A op, f : Asks(op, f)' <=> Asks(op, f)
        /\ \A f : Held(f)' <=> Held(f)
        /\ \A f : Expected(f)' <=> Expected(f)
        /\ \A f \in Frame, s \in Session : In(f, s)' <=> In(f, s)
    BY <1>0, <2>6 DEF Has, Asks, Held, Expected, Coming, In, InChannel
  <2>8. TypeOK' /\ Owners'
    <3>1. Fits(rt')
      BY <1>1, <2>6 DEF Fits
    <3>2. TypeOK'
      BY <1>0, <2>1, <3>1 DEF Inv, TypeOK
    <3>3. Owners'
      BY <1>0, <2>7 DEF Inv, Owners
    <3> QED  BY <3>2, <3>3
  <2>9. ByPhase' /\ InOrder'
    BY <1>0, <2>1, <2>6, <2>7 DEF Inv, ByPhase, InOrder
  <2>10. Slots' /\ Mirrors'
    <3>1. Stood'
      BY <1>0, <2>1, <2>2, <2>4, <2>5, <2>6 DEF Stood, VacancyKept
    <3> QED  BY <1>0, <2>6, <3>1 DEF Slots, Mirrors, Inv
  <2>11. Tasks' /\ Bound'
    BY <1>0, <2>6, <2>7 DEF Tasks, Bound, Inv
  <2>12. Safe'
    BY <1>0, <2>2, <2>7 DEF Safe, Inv
  <2>13. Capacity'
    BY <1>0, <2>6, <2>7 DEF Capacity, Spawns, Inv
  <2>14. Scene'
    BY <2>1 DEF Scene, Shown, Leftover
  <2> QED  BY <2>8, <2>9, <2>10, <2>11, <2>12, <2>13, <2>14 DEF Inv
<1> QED  BY <1>2, <1>3

LEMMA DoPaneStep == ASSUME Inv, DoPane PROVE Inv'
<1>1. CASE lost
  BY <1>1, LostPaneStep
<1>2. CASE ~lost
  BY <1>2, DoPaneIs, KillStep, ActivateStep, DeactivateStep, SwapStep
<1> QED  BY <1>1, <1>2

LEMMA CommandsInv == ASSUME Inv, Commands PROVE Inv'
<1>1. ASSUME NEW s \in Session, NEW f \in Frame, CreateSession(s, f) PROVE Inv'
  BY <1>1, CreateSessionStep
<1>2. ASSUME NEW s \in Session, NEW f \in Frame, PushDriver(s, f) PROVE Inv'
  BY <1>2, PushDriverStep
<1>3. ASSUME NEW s \in Session, NEW f \in Frame, ActivateFrame(s, f) PROVE Inv'
  BY <1>3, ActivateFrameStep
<1>4. ASSUME NEW s \in Session, StopSession(s) PROVE Inv'
  BY <1>4, StopSessionStep
<1>5. ASSUME NEW s \in Session, SwitchSession(s) PROVE Inv'
  BY <1>5, SwitchSessionStep
<1>6. ASSUME NEW kind \in {"main", "log"}, ActivateOccupant(kind) PROVE Inv'
  BY <1>6, ActivateOccupantStep
<1>7. DriverStep \/ Shutdown => Inv'
  BY DriverStepStep, ShutdownStep
<1> QED  BY <1>1, <1>2, <1>3, <1>4, <1>5, <1>6, <1>7 DEF Commands

LEMMA EventsInv == ASSUME Inv, Events PROVE Inv'
<1>1. HandlePaneSpawned \/ HandleSpawnFailed => Inv'
  BY PaneSpawnedStep, SpawnFailedStep
<1>2. HandleWindowVanished \/ HandlePaneDied => Inv'
  BY WindowVanishedStep, PaneDiedStep
<1>3. ASSUME NEW f \in Frame, ReapParked(f) PROVE Inv'
  BY <1>3, ReapParkedStep
<1>4. ASSUME NEW f \in Frame, SpawnWindow(f) PROVE Inv'
  BY <1>4, SpawnWindowStep
<1>5. ASSUME NEW f \in Frame, ProcessExit(f) PROVE Inv'
  BY <1>5, ProcessExitStep
<1>6. RespawnOccupant => Inv'
  BY RespawnOccupantStep
<1> QED  BY <1>1, <1>2, <1>3, <1>4, <1>5, <1>6 DEF Events

LEMMA EffectsInv == ASSUME Inv, Effects PROVE Inv'
<1>1. DoPane \/ DoRegister \/ DoUnregister \/ DoAnswer => Inv'
  BY DoPaneStep, RegisterStep, UnregisterStep, AnswerStep
<1>2. DoSave \/ SaveFails \/ DoKillSession => Inv'
  BY SaveStep, SaveFailsStep, KillSessionStep
<1>3. DoRecover \/ DoReconcile \/ DoRecreate \/ RecreateFails => Inv'
  BY RecoverStep, ReconcileStep, RecreateStep, RecreateFailsStep
<1> QED  BY <1>1, <1>2, <1>3 DEF Effects

LEMMA RestartsInv == ASSUME Inv, Restarts PROVE Inv'
<1>1. Exit \/ Crash \/ Reboot \/ TuiQuits => Inv'
  BY ExitStep, CrashStep, RebootStep, TuiQuitsStep
<1>2. StartWarm \/ StartCold \/ EnterLoop \/ RespawnMainPane => Inv'
  BY StartWarmStep, StartColdStep, EnterLoopStep, RespawnMainPaneStep
<1> QED  BY <1>1, <1>2 DEF Restarts

\* The invariant is inductive: no command, event, effect, crash or start, in
\* any order, leads out of it.
THEOREM Invariance == Spec => []Inv
<1>1. Init => Inv
  BY InitInv
<1>2. Inv /\ [Next]_vars => Inv'
  BY StutterStep, CommandsInv, EventsInv, EffectsInv, RestartsInv DEF Next
<1> QED  BY <1>1, <1>2, PTL DEF Spec

\* A session that a client was told of outlives every crash of the daemon and
\* every reboot, whatever effect or save it cuts short, and is in the map again
\* after the next start, until it is stopped, its root dies or its window is
\* refused (PersistEffect before the answer, FilePersist.Save, LoadSnapshot,
\* ReconcileOrphans and RecreateAll).
THEOREM SessionsPreservedAlways == Spec => []SessionsPreserved
<1>1. Inv => SessionsPreserved
  BY InvImplies
<1> QED  BY <1>1, Invariance, PTL

\* Between two events every frame in the map has a registered pane, or one that
\* is on its way, after any start as well: no repair keeps a frame whose pane is
\* gone (ReconcileOrphans, RecreateAll, reduceTmuxSpawnFailed).
THEOREM FramesBoundAlways == Spec => []FramesBound
<1>1. Inv => FramesBound
  BY InvImplies
<1> QED  BY <1>1, Invariance, PTL

\* Between two events the tmux environment holds the frames that the runtime's
\* pane map holds: the warm start that follows a crash knows every pane and no
\* other (EffRegisterPane, EffUnregisterPane, LoadSessionPanes).
THEOREM EnvMirrorsAlways == Spec => []EnvMirrors
<1>1. Inv => EnvMirrors
  BY InvImplies
<1> QED  BY <1>1, Invariance, PTL

\* While tmux runs no pane is in two places and 0.1 is not empty, and a TUI's pane is
\* there unless the TUI quit, its daemon dead, in a frame's window: though the swaps are
\* positional, a crash may fall between two of them, and the next daemon knows nothing of
\* those done (activateSession, deactivateSession, swapHidden, RecoverActivePaneAtMain).
THEOREM OnePlaceAlways == Spec => []OnePlace
<1>1. Inv => OnePlace
  BY InvImplies
<1> QED  BY <1>1, Invariance, PTL

\* Between two events, as long as no TUI has quit in a frame's window, ActiveOccupant says
\* "log" exactly when the log TUI is in 0.1, also after a start that found it there
\* (reduceActivateOccupantSlot, RecoverActivePaneAtMain).
THEOREM LogWhereSaidAlways == Spec => []LogWhereSaid
<1>1. Inv => LogWhereSaid
  BY InvImplies
<1> QED  BY <1>1, Invariance, PTL

\* Between two events, as long as no TUI has quit in a frame's window, no frame of a session
\* in the map is in 0.1 while ActiveOccupant says "main", also after a start that found one
\* there (RecoverActivePaneAtMain, deactivateBeforeExit).
THEOREM NoFrameUnderMainAlways == Spec => []NoFrameUnderMain
<1>1. Inv => NoFrameUnderMain
  BY InvImplies
<1> QED  BY <1>1, Invariance, PTL

=============================================================================
