---------------------------- MODULE RoostProofs ----------------------------
(***************************************************************************)
(* Proofs about module Roost, in four parts: types, the root of a session, *)
(* what the runtime believes of pane 0.1, and the focus with the frames    *)
(* that have panes.  What they use of single operations is in StageProofs. *)
(***************************************************************************)
EXTENDS Roost, StageProofs

LEMMA SwapHiddenType ==
    ASSUME NEW r, Fits(r)
    PROVE  Fits(SwapHidden(r)) /\ Fits(EnsureMainAtVisibleSlot(r))
  BY SwapHiddenFits DEF EnsureMainAtVisibleSlot

\* Taking the first event from the channel.
LEMMA PoppedType ==
    ASSUME rt \in RtType, Len(rt.ch) <= QueueCap, rt.ch # <<>>
    PROVE  Fits(Popped) /\ Head(rt.ch) \in Event
<1>1. /\ rt.ch \in Seq(Event) /\ Head(rt.ch) \in Event
      /\ Tail(rt.ch) \in Seq(Event) /\ Len(Tail(rt.ch)) = Len(rt.ch) - 1
  BY HeadTailProperties DEF RtType
<1>2. QueueCap \in Nat /\ Len(rt.ch) \in Nat
  BY <1>1, ConstantsAssumption
<1> DEFINE q == Tail(rt.ch)
<1>3. Popped = [rt EXCEPT !.ch = q]
  BY DEF Popped
<1> HIDE DEF q
<1>4. q \in Seq(Event) /\ Len(q) <= QueueCap
  BY <1>1, <1>2 DEF q
<1>5. [rt EXCEPT !.ch = q].ch = q
  BY DEF RtType
<1> QED  BY <1>1, <1>3, <1>4, <1>5, RtWithType DEF Fits

(***************************************************************************)
(* Type correctness.                                                       *)
(***************************************************************************)

StOK(x) == x \in StType /\ \A s \in Session : SessionOK(x.sess[s])

\* The part of TypeOK about what runs beside the event loop.
RestOK ==
    /\ exited \subseteq Pane
    /\ prog \in [Pane -> {"main", "log", "agent"}]
    /\ spawning \in [Frame -> Session \cup {None}]
    /\ pending \in [Frame -> [sess : Session \cup {None}, snap : SessionRec]]
    /\ \A f \in Frame : SessionOK(pending[f].snap)
    /\ probe \in [owner : Frame \cup {None}, dead : BOOLEAN]
    /\ reply \in [Frame -> {"none", "owed", "ok", "error"}]
    /\ born \subseteq Session

LEMMA TypeParts == TypeOK <=> StOK(st) /\ Fits(rt) /\ RestOK
  BY DEF TypeOK, StOK, Fits, RestOK

LEMMA RestUnchanged ==
    ASSUME RestOK, UNCHANGED <<spawning, pending, reply, born>>, Idle
    PROVE  RestOK'
  BY DEF RestOK, Idle

\* What a command does to the bookkeeping of the frame it asks for.
LEMMA AskedType ==
    ASSUME RestOK, NEW s \in Session \cup {None}, NEW f \in Frame
    PROVE  /\ Asked(f) => reply' \in [Frame -> {"none", "owed", "ok", "error"}]
           /\ StartSpawn(s, f) => spawning' \in [Frame -> Session \cup {None}]
           /\ \A x \in SessionRec : SessionOK(x) /\ PutAside(f, s, x) =>
                /\ pending' \in [Frame -> [sess : Session \cup {None},
                                         snap : SessionRec]]
                /\ \A g \in Frame : SessionOK(pending'[g].snap)
<1>1. Asked(f) => reply' \in [Frame -> {"none", "owed", "ok", "error"}]
  BY DEF RestOK, Asked
<1>2. StartSpawn(s, f) => spawning' \in [Frame -> Session \cup {None}]
  BY DEF RestOK, StartSpawn
<1>3. ASSUME NEW x \in SessionRec, SessionOK(x), PutAside(f, s, x)
      PROVE  /\ pending' \in [Frame -> [sess : Session \cup {None},
                                        snap : SessionRec]]
             /\ \A g \in Frame : SessionOK(pending'[g].snap)
  <2> DEFINE p == [sess |-> s, snap |-> x]
  <2>1. /\ p \in [sess : Session \cup {None}, snap : SessionRec]
        /\ p.snap = x
    OBVIOUS
  <2>2. pending' = [pending EXCEPT ![f] = p]
    BY <1>3 DEF PutAside
  <2> HIDE DEF p
  <2> QED  BY <1>3, <2>1, <2>2 DEF RestOK
<1> QED  BY <1>1, <1>2, <1>3

LEMMA WithSessionType ==
    ASSUME NEW x, StOK(x), NEW s \in Session, NEW y, SessionOK(y)
    PROVE  StOK([x EXCEPT !.sess[s] = y])
<1> DEFINE m == [x.sess EXCEPT ![s] = y]
<1>1. m \in [Session -> SessionRec] /\ \A t \in Session : SessionOK(m[t])
  BY DEF StOK, StType, SessionOK
<1>2. [x EXCEPT !.sess[s] = y] = [x EXCEPT !.sess = m]
  BY DEF StOK, StType
<1> HIDE DEF m
<1> QED  BY <1>1, <1>2 DEF StOK, StType

LEMMA FocusType ==
    ASSUME StOK(st), NEW s \in Session
    PROVE  StOK(Focus(s)) /\ Focus(s).sess = st.sess
  BY DEF StOK, StType, Focus

LEMMA DroppedType ==
    ASSUME StOK(st), NEW s \in Session
    PROVE  StOK(Dropped(s))
<1> DEFINE m == [st.sess EXCEPT ![s] = NoSession]
           g == IF st.focus = s THEN None ELSE st.focus
           o == IF st.focus = s /\ st.occupant = "frame" THEN "main"
                ELSE st.occupant
<1>1. /\ m \in [Session -> SessionRec] /\ \A t \in Session : SessionOK(m[t])
      /\ g \in Session \cup {None} /\ o \in {"main", "log", "frame"}
  BY NoSessionType DEF StOK, StType, SessionOK
<1>2. Dropped(s) = [st EXCEPT !.sess = m, !.focus = g, !.occupant = o]
  BY DEF Dropped, StOK, StType
<1> HIDE DEF m, g, o
<1> QED  BY <1>1, <1>2 DEF StOK, StType

LEMMA RemoveSessionType ==
    ASSUME StOK(st), NEW s \in Session, NEW r, Fits(r), NEW kill,
           RemoveSession(s, r, kill)
    PROVE  StOK(st') /\ Fits(rt')
<1> DEFINE q == IF st.focus = s /\ st.occupant = "frame"
                THEN DeactivateSession(r) ELSE r
<1>1. Fits(q)
  BY DeactivateSessionType
<1>2. st' = Dropped(s) /\ rt' = Forget(q, ToSet(st.sess[s].frames), kill)
  BY DEF RemoveSession
<1> HIDE DEF q
<1> QED  BY <1>1, <1>2, DroppedType, ForgetType

LEMMA EvictFrameType ==
    ASSUME StOK(st), NEW f \in Frame, NEW r, Fits(r), NEW kill,
           EvictFrame(f, r, kill)
    PROVE  StOK(st') /\ Fits(rt')
<1>1. CASE st' = st /\ rt' = r
  BY <1>1
<1>2. ASSUME NEW s \in Session, Owns(st.sess[s], f), st.sess[s].frames[1] = f,
             RemoveSession(s, r, kill)
      PROVE  StOK(st') /\ Fits(rt')
  BY <1>2, RemoveSessionType
<1>3. ASSUME NEW s \in Session, Owns(st.sess[s], f), st.sess[s].frames[1] # f,
             NEW y, y = Without(st.sess[s], f),
             NEW reshow, reshow = (st.focus = s /\ st.sess[s].act = f),
             st' = [(IF reshow THEN Focus(s) ELSE st) EXCEPT !.sess[s] = y],
             rt' = Forget(IF reshow
                          THEN ActivateSession(EnsureMainAtVisibleSlot(r),
                                               st'.sess, s)
                          ELSE r, {f}, kill)
      PROVE  StOK(st') /\ Fits(rt')
  <2>1. st.sess[s] \in SessionRec /\ SessionOK(st.sess[s])
    BY DEF StOK, SessionOK
  <2>2. SessionOK(y)
    BY <1>3, <2>1, WithoutType
  <2>3. StOK(IF reshow THEN Focus(s) ELSE st)
    BY FocusType
  <2>4. StOK(st')
    BY <1>3, <2>2, <2>3, WithSessionType
  <2>5. Fits(ActivateSession(EnsureMainAtVisibleSlot(r), st'.sess, s))
    BY <2>4, SwapHiddenType, ActivateSessionType DEF StOK, StType
  <2> QED  BY <1>3, <2>4, <2>5, ForgetType
<1> QED  BY <1>1, <1>2, <1>3 DEF EvictFrame

LEMMA InitType == Init => TypeOK
<1> SUFFICES ASSUME Init PROVE TypeOK
  OBVIOUS
<1>1. StOK(st)
  <2> DEFINE m == [s \in Session |-> NoSession]
  <2>1. m \in [Session -> SessionRec] /\ \A s \in Session : SessionOK(m[s])
    BY NoSessionType DEF SessionOK
  <2>2. st = [sess |-> m, focus |-> None, occupant |-> "main"]
    BY DEF Init
  <2> HIDE DEF m
  <2> QED  BY <2>1, <2>2 DEF StOK, StType
<1>2. Fits(rt)
  <2> DEFINE slot == [w \in Pane |-> IF w \in {Main, Log} THEN w ELSE None]
             q == <<>>
  <2>1. slot \in [Pane -> Pane \cup {None}]
    OBVIOUS
  <2>2. q \in Seq(Event) /\ Len(q) = 0 /\ QueueCap \in Nat
    BY ConstantsAssumption
  <2>3. rt = [panes |-> {}, resident |-> None, act |-> None, ch |-> q,
              slot |-> slot]
    BY DEF Init
  <2> HIDE DEF slot, q
  <2> QED  BY <2>1, <2>2, <2>3 DEF Fits, RtType
<1>3. RestOK
  <2>1. NoSession \in SessionRec /\ SessionOK(NoSession)
    BY NoSessionType DEF SessionOK
  <2> QED  BY <2>1 DEF Init, RestOK
<1> QED  BY <1>1, <1>2, <1>3, TypeParts

\* A session value taken from the map, and one with a frame more.
LEMMA SessionOfMap ==
    ASSUME StOK(st), NEW s \in Session
    PROVE  /\ st.sess[s] \in SessionRec
           /\ SessionOK(st.sess[s])
           /\ s \in Live(st.sess) => st.sess[s].frames # <<>>
  BY DEF StOK, SessionOK, Live

LEMMA CommandType ==
    ASSUME TypeOK, Command
    PROVE  TypeOK'
<1>0. StOK(st) /\ Fits(rt) /\ RestOK
  BY TypeParts
<1>1. ASSUME NEW s \in Session, NEW f \in Frame, CreateSession(s, f)
      PROVE  TypeOK'
  <2>1. SessionOK(NewSession(f)) /\ NewSession(f) \in SessionRec
    BY NewSessionType DEF SessionOK
  <2>2. StOK(st') /\ Fits(rt')
    BY <1>0, <1>1, <2>1, WithSessionType DEF CreateSession
  <2>3. RestOK'
    BY <1>0, <1>1, <2>1, AskedType DEF CreateSession, RestOK, Idle
  <2> QED  BY <2>2, <2>3, TypeParts DEF TypeOK, StOK, Fits, RestOK
<1>2. ASSUME NEW s \in Session, NEW f \in Frame, PushDriver(s, f)
      PROVE  TypeOK'
  <2> DEFINE y == Pushed(st.sess[s], f)
  <2>1. SessionOK(y) /\ y \in SessionRec
    BY <1>0, SessionOfMap, PushedType DEF SessionOK
  <2>2. st' = [st EXCEPT !.sess[s] = y]
    BY <1>2 DEF PushDriver
  <2>3. st'.sess[s] = y
    BY <1>0, <2>2 DEF StOK, StType
  <2> HIDE DEF y
  <2>4. StOK(st') /\ Fits(rt')
    BY <1>0, <1>2, <2>1, <2>2, WithSessionType DEF PushDriver
  <2>5. RestOK'
    BY <1>0, <1>2, <2>1, <2>3, AskedType DEF PushDriver, RestOK, Idle
  <2> QED  BY <2>4, <2>5 DEF TypeOK, StOK, Fits, RestOK
<1>3. ASSUME NEW s \in Session, NEW f \in Frame, ActivateFrame(s, f)
      PROVE  TypeOK'
  <2> DEFINE x == st.sess[s]
             y == IF x.act = f THEN x ELSE [PushMRU(x, x.act) EXCEPT !.act = f]
             z == IF st.focus = s THEN Focus(s) ELSE st
  <2>1. s \in Live(st.sess) /\ x \in SessionRec /\ SessionOK(x)
        /\ x.frames # <<>>
    BY <1>0, <1>3, SessionOfMap DEF ActivateFrame
  <2>2. SessionOK(y)
    BY <2>1, ActivatedType
  <2>3. StOK(z)
    BY <1>0, FocusType
  <2>4. st' = [z EXCEPT !.sess[s] = y]
    BY <1>3 DEF ActivateFrame
  <2> HIDE DEF x, y, z
  <2>5. StOK(st')
    BY <2>2, <2>3, <2>4, WithSessionType
  <2>6. rt' = rt \/ rt' = ActivateSession(EnsureMainAtVisibleSlot(rt),
                                          st'.sess, s)
    BY <1>3 DEF ActivateFrame
  <2>7. Fits(rt')
    BY <1>0, <2>5, <2>6, SwapHiddenType, ActivateSessionType DEF StOK, StType
  <2>8. RestOK'
    BY <1>0, <1>3, RestUnchanged DEF ActivateFrame
  <2> QED  BY <2>5, <2>7, <2>8 DEF TypeOK, StOK, Fits, RestOK
<1>4. ASSUME NEW s \in Session, StopSession(s)
      PROVE  TypeOK'
  <2>1. StOK(st') /\ Fits(rt')
    BY <1>0, <1>4, RemoveSessionType DEF StopSession
  <2>2. RestOK'
    BY <1>0, <1>4, RestUnchanged DEF StopSession
  <2> QED  BY <2>1, <2>2 DEF TypeOK, StOK, Fits, RestOK
<1>5. ASSUME NEW s \in Session, SwitchSession(s)
      PROVE  TypeOK'
  <2>1. StOK(st') /\ st.sess \in [Session -> SessionRec]
    BY <1>0, <1>5, FocusType DEF SwitchSession, StOK, StType
  <2>2. Fits(rt')
    BY <1>0, <1>5, <2>1, SwapHiddenType, ActivateSessionType
    DEF SwitchSession
  <2>3. RestOK'
    BY <1>0, <1>5, RestUnchanged DEF SwitchSession
  <2> QED  BY <2>1, <2>2, <2>3 DEF TypeOK, StOK, Fits, RestOK
<1>6. ASSUME PreviewProject
      PROVE  TypeOK'
  <2>1. StOK(st')
    BY <1>0, <1>6 DEF PreviewProject, StOK, StType
  <2>2. Fits(rt')
    BY <1>0, <1>6, DeactivateSessionType DEF PreviewProject
  <2>3. RestOK'
    BY <1>0, <1>6, RestUnchanged DEF PreviewProject
  <2> QED  BY <2>1, <2>2, <2>3 DEF TypeOK, StOK, Fits, RestOK
<1>7. ASSUME NEW kind \in {"main", "log"}, ActivateOccupant(kind)
      PROVE  TypeOK'
  <2>1. StOK(st')
    BY <1>0, <1>7 DEF ActivateOccupant, StOK, StType
  <2>2. Fits(rt')
    BY <1>0, <1>7, DeactivateSessionType, SwapHiddenType DEF ActivateOccupant
  <2>3. RestOK'
    BY <1>0, <1>7, RestUnchanged DEF ActivateOccupant
  <2> QED  BY <2>1, <2>2, <2>3 DEF TypeOK, StOK, Fits, RestOK
<1> QED  BY <1>1, <1>2, <1>3, <1>4, <1>5, <1>6, <1>7 DEF Command

\* What an event of each type carries.
LEMMA EventFields ==
    ASSUME NEW e \in Event
    PROVE  /\ e.type \in {"spawned", "spawnFailed"} =>
                e.sess \in Session /\ e.frame \in Frame
           /\ e.type = "vanished" => e.frame \in Frame
           /\ e.type = "died" =>
                e.slot \in {Main, Log} /\ e.frame \in Frame \cup {None}
  BY DEF Event

LEMMA HandleEventType ==
    ASSUME TypeOK, HandleEvent
    PROVE  TypeOK'
<1>0. StOK(st) /\ Fits(rt) /\ RestOK
  BY TypeParts
<1> DEFINE e == Head(rt.ch)
<1>a. rt.ch # <<>>
  BY DEF HandleEvent, HandlePaneSpawned, HandleSpawnFailed,
         HandleWindowVanished, HandlePaneDied, Next1
<1>b. /\ Fits(Popped) /\ e \in Event
  BY <1>0, <1>a, PoppedType DEF Fits
<1>1. ASSUME HandlePaneSpawned
      PROVE  TypeOK'
  <2> DEFINE r == [Popped EXCEPT !.panes = @ \cup {e.frame}]
  <2>1. CASE Owns(st.sess[e.sess], e.frame)
    <3>1. e.sess \in Session /\ e.frame \in Frame
      BY <1>1, <1>b, EventFields DEF HandlePaneSpawned, Next1
    <3>2. Fits(r)
      BY <1>b, <3>1 DEF Fits, RtType
    <3>3. /\ st' = Focus(e.sess)
          /\ rt' = ActivateSession(EnsureMainAtVisibleSlot(r), st.sess, e.sess)
          /\ reply' = [reply EXCEPT ![e.frame] = "ok"]
          /\ UNCHANGED <<spawning, pending, born>> /\ Idle
      BY <1>1, <2>1 DEF HandlePaneSpawned
    <3> HIDE DEF r, e
    <3>4. StOK(st') /\ st.sess \in [Session -> SessionRec]
      BY <1>0, <3>1, <3>3, FocusType DEF StOK, StType
    <3>5. Fits(rt')
      BY <3>1, <3>2, <3>3, <3>4, SwapHiddenType, ActivateSessionType
    <3>6. RestOK'
      BY <1>0, <3>3 DEF RestOK, Idle
    <3> QED  BY <3>4, <3>5, <3>6 DEF TypeOK, StOK, Fits, RestOK
  <2>2. CASE ~Owns(st.sess[e.sess], e.frame)
    <3>1. /\ rt' = Popped
          /\ UNCHANGED <<st, reply, spawning, pending, born>> /\ Idle
      BY <1>1, <2>2 DEF HandlePaneSpawned
    <3>2. RestOK'
      BY <1>0, <3>1, RestUnchanged
    <3> QED  BY <1>0, <1>b, <3>1, <3>2 DEF TypeOK, StOK, Fits, RestOK
  <2> QED  BY <2>1, <2>2
<1>2. ASSUME HandleSpawnFailed
      PROVE  TypeOK'
  <2>1. e.sess \in Session /\ e.frame \in Frame
    BY <1>2, <1>b, EventFields DEF HandleSpawnFailed, Next1
  <2>2. /\ st' = IF Owns(st.sess[e.sess], e.frame)
                 THEN [st EXCEPT !.sess[e.sess]
                         = Truncated(st.sess[e.sess], e.frame)]
                 ELSE st
        /\ rt' = Popped
        /\ reply' = [reply EXCEPT ![e.frame] = "error"]
        /\ UNCHANGED <<spawning, pending, born>> /\ Idle
    BY <1>2 DEF HandleSpawnFailed
  <2> HIDE DEF e
  <2>3. Owns(st.sess[e.sess], e.frame) =>
          SessionOK(Truncated(st.sess[e.sess], e.frame))
    BY <1>0, <2>1, SessionOfMap, TruncatedType
  <2>4. StOK(st')
    BY <1>0, <2>1, <2>2, <2>3, WithSessionType
  <2>5. RestOK'
    BY <1>0, <2>1, <2>2 DEF RestOK, Idle
  <2> QED  BY <1>b, <2>2, <2>4, <2>5 DEF TypeOK, StOK, Fits, RestOK
<1>3. ASSUME HandleWindowVanished
      PROVE  TypeOK'
  <2>1. e.frame \in Frame
    BY <1>3, <1>b, EventFields DEF HandleWindowVanished, Next1
  <2>2. /\ EvictFrame(e.frame, Popped, FALSE)
        /\ UNCHANGED <<spawning, pending, reply, born>> /\ Idle
    BY <1>3 DEF HandleWindowVanished
  <2>3. StOK(st') /\ Fits(rt')
    BY <1>0, <1>b, <2>1, <2>2, EvictFrameType
  <2>4. RestOK'
    BY <1>0, <2>2, RestUnchanged
  <2> QED  BY <2>3, <2>4 DEF TypeOK, StOK, Fits, RestOK
<1>4. ASSUME HandlePaneDied
      PROVE  TypeOK'
  <2> DEFINE owner ==
        IF e.frame # None THEN e.frame
        ELSE IF st.focus # None /\ st.focus \in Live(st.sess)
             THEN ActiveFrame(st.sess[st.focus]) ELSE None
  <2>1. e.frame \in Frame \cup {None}
    BY <1>4, <1>b, EventFields DEF HandlePaneDied, Next1
  <2>2. owner \in Frame \cup {None}
    <3>1. ASSUME st.focus \in Live(st.sess)
          PROVE  ActiveFrame(st.sess[st.focus]) \in Frame
      <4>1. st.focus \in Session
        BY <3>1 DEF Live
      <4> QED  BY <1>0, <3>1, <4>1, SessionOfMap, ActiveFrameType
    <3> QED  BY <2>1, <3>1
  <2>3. UNCHANGED <<spawning, pending, probe, reply, born>>
    BY <1>4 DEF HandlePaneDied
  <2>4. ASSUME NEW w \in {Main, Log}, NEW name \in {"main", "log", "frame"},
               name # "frame", Respawn(w, name)
        PROVE  TypeOK'
    <3>1. exited' \subseteq exited
          /\ prog' = [prog EXCEPT ![rt.slot[w]] = name]
          /\ rt' = Popped /\ UNCHANGED st
      BY <2>4 DEF Respawn
    <3>2. RestOK'
      BY <1>0, <2>3, <2>4, <3>1 DEF RestOK
    <3> QED  BY <1>0, <1>b, <3>1, <3>2 DEF TypeOK, StOK, Fits, RestOK
  <2>5. ASSUME StOK(st') /\ Fits(rt'), UNCHANGED <<exited, prog>>
        PROVE  TypeOK'
    <3>1. RestOK'
      BY <1>0, <2>3, <2>5, RestUnchanged DEF Idle
    <3> QED  BY <2>5, <3>1 DEF TypeOK, StOK, Fits, RestOK
  <2>6. \/ Respawn(Log, "log")
        \/ st.occupant # "frame" /\ Respawn(Main, st.occupant)
        \/ st' = st /\ rt' = Popped /\ UNCHANGED <<exited, prog>>
        \/ /\ owner # None /\ EvictFrame(owner, Popped, TRUE)
           /\ UNCHANGED <<exited, prog>>
    BY <1>4 DEF HandlePaneDied
  <2> HIDE DEF owner
  <2>7. CASE Respawn(Log, "log")
    BY <2>4, <2>7
  <2>8. CASE st.occupant # "frame" /\ Respawn(Main, st.occupant)
    BY <1>0, <2>4, <2>8 DEF StOK, StType
  <2>9. CASE st' = st /\ rt' = Popped /\ UNCHANGED <<exited, prog>>
    BY <1>0, <1>b, <2>5, <2>9
  <2>10. CASE /\ owner # None /\ EvictFrame(owner, Popped, TRUE)
              /\ UNCHANGED <<exited, prog>>
    BY <1>0, <1>b, <2>2, <2>5, <2>10, EvictFrameType
  <2> QED  BY <2>6, <2>7, <2>8, <2>9, <2>10
<1> QED  BY <1>1, <1>2, <1>3, <1>4 DEF HandleEvent

\* A tick reports a finite number of typed events, and does nothing else.
LEMMA TickEnqueues ==
    ASSUME TypeOK, NEW fifth, NEW order, NEW n \in Nat,
           order \in [1 .. n -> Frame], Tick(fifth, order)
    PROVE  \E evs \in Seq(Event) :
             /\ rt' = Enqueue(rt, evs)
             /\ UNCHANGED <<st, spawning, pending, reply, born>> /\ Idle
<1>0. rt.act \in Frame \cup {None}
  BY TypeParts DEF Fits, RtType
<1> DEFINE shown == IF Dead(Main) THEN <<Died(Main, rt.act)>> ELSE <<>>
           hidden == IF fifth /\ Dead(Log) THEN <<Died(Log, None)>> ELSE <<>>
           gone == [i \in DOMAIN order |-> Vanished(order[i])]
<1>1. shown \in Seq(Event) /\ hidden \in Seq(Event)
  BY <1>0, EventTypes
<1>2. gone \in Seq(Event)
  <2>1. gone \in [1 .. n -> Event]
    BY EventTypes
  <2> HIDE DEF gone
  <2> QED  BY <2>1
<1>3. rt' = Enqueue(rt, shown \o hidden \o gone)
      /\ UNCHANGED <<st, spawning, pending, reply, born>> /\ Idle
  BY DEF Tick
<1> HIDE DEF shown, hidden, gone
<1>4. shown \o hidden \o gone \in Seq(Event)
  BY <1>1, <1>2, ConcatProperties
<1> QED  BY <1>3, <1>4

LEMMA TicksEnqueue ==
    ASSUME TypeOK, EveryTick \/ FifthTick
    PROVE  \E evs \in Seq(Event) :
             /\ rt' = Enqueue(rt, evs)
             /\ UNCHANGED <<st, spawning, pending, reply, born>> /\ Idle
<1>1. CASE EveryTick
  <2>1. <<>> \in [1 .. 0 -> Frame] /\ 0 \in Nat
    OBVIOUS
  <2> QED  BY <1>1, <2>1, TickEnqueues DEF EveryTick
<1>2. CASE FifthTick
  <2>1. PICK order \in SetToSeqs(DeadParked) : Tick(TRUE, order)
    BY <1>2 DEF FifthTick
  <2>2. DeadParked \subseteq Frame
    BY TypeParts DEF DeadParked, Fits, RtType
  <2>3. IsFiniteSet(DeadParked)
    BY <2>2, FS_Subset, ConstantsAssumption
  <2>4. Cardinality(DeadParked) \in Nat
    BY <2>3, FS_CardinalityType
  <2>5. order \in [1 .. Cardinality(DeadParked) -> DeadParked]
    BY <2>1 DEF SetToSeqs
  <2>6. order \in [1 .. Cardinality(DeadParked) -> Frame]
    BY <2>2, <2>5
  <2> QED  BY <2>1, <2>4, <2>6, TickEnqueues
<1> QED  BY <1>1, <1>2

LEMMA BackgroundType ==
    ASSUME TypeOK, Background
    PROVE  TypeOK'
<1>0. StOK(st) /\ Fits(rt) /\ RestOK
  BY TypeParts
<1>1. ASSUME NEW f \in Frame, JobSucceeds(f)
      PROVE  TypeOK'
  <2> DEFINE p == pending[f]
  <2>1. p.sess \in Session /\ p.snap \in SessionRec /\ SessionOK(p.snap)
    BY <1>0, <1>1 DEF JobSucceeds, RestOK
  <2>2. /\ st' = [st EXCEPT !.sess[p.sess] = p.snap]
        /\ StartSpawn(p.sess, f) /\ PutAside(f, None, NoSession)
        /\ UNCHANGED <<rt, reply, born>> /\ Idle
    BY <1>1 DEF JobSucceeds
  <2> HIDE DEF p
  <2>3. StOK(st')
    BY <1>0, <2>1, <2>2, WithSessionType
  <2>4. RestOK'
    <3>1. NoSession \in SessionRec /\ SessionOK(NoSession)
      BY NoSessionType DEF SessionOK
    <3>2. spawning' \in [Frame -> Session \cup {None}]
      BY <1>0, <2>1, <2>2, AskedType
    <3>3. /\ pending' \in [Frame -> [sess : Session \cup {None},
                                     snap : SessionRec]]
          /\ \A g \in Frame : SessionOK(pending'[g].snap)
      BY <1>0, <2>2, <3>1, AskedType
    <3> QED  BY <1>0, <2>2, <3>2, <3>3 DEF RestOK, Idle
  <2> QED  BY <1>0, <2>2, <2>3, <2>4 DEF TypeOK, StOK, Fits, RestOK
<1>2. ASSUME NEW f \in Frame, JobFails(f)
      PROVE  TypeOK'
  <2>1. /\ PutAside(f, None, NoSession)
        /\ reply' = [reply EXCEPT ![f] = "error"]
        /\ UNCHANGED <<st, rt, spawning, born>> /\ Idle
    BY <1>2 DEF JobFails
  <2>2. NoSession \in SessionRec /\ SessionOK(NoSession)
    BY NoSessionType DEF SessionOK
  <2>3. /\ pending' \in [Frame -> [sess : Session \cup {None},
                                   snap : SessionRec]]
        /\ \A g \in Frame : SessionOK(pending'[g].snap)
    BY <1>0, <2>1, <2>2, AskedType
  <2>4. RestOK'
    BY <1>0, <2>1, <2>3 DEF RestOK, Idle
  <2> QED  BY <1>0, <2>1, <2>4 DEF TypeOK, StOK, Fits, RestOK
<1>3. ASSUME NEW f \in Frame, NEW w \in {f, None}, NEW e \in Event,
             rt' = Enqueue([rt EXCEPT !.slot[f] = w], <<e>>),
             StartSpawn(None, f),
             UNCHANGED <<st, pending, reply, born>>, Idle
      PROVE  TypeOK'
  <2> DEFINE slot == [rt.slot EXCEPT ![f] = w]
             r == [rt EXCEPT !.slot = slot]
  <2>1. f \in Pane /\ w \in Pane \cup {None}
    BY DEF Pane
  <2>2. slot \in [Pane -> Pane \cup {None}]
    BY <1>0, <2>1 DEF Fits, RtType
  <2>3. [rt EXCEPT !.slot[f] = w] = r
    BY <1>0 DEF Fits, RtType
  <2> HIDE DEF slot
  <2>4. r \in RtType
    BY <1>0, <2>2, RtWithType DEF Fits
  <2> HIDE DEF r
  <2>5. <<e>> \in Seq(Event)
    OBVIOUS
  <2>6. Fits(rt')
    BY <1>3, <2>3, <2>4, <2>5, EnqueueType
  <2>7. spawning' \in [Frame -> Session \cup {None}]
    BY <1>0, <1>3, AskedType
  <2>8. RestOK'
    BY <1>0, <1>3, <2>7 DEF RestOK, Idle
  <2> QED  BY <1>0, <1>3, <2>6, <2>8 DEF TypeOK, StOK, Fits, RestOK
<1>4. ASSUME NEW f \in Frame, SpawnWindow(f)
      PROVE  TypeOK'
  <2>1. spawning[f] \in Session
    BY <1>0, <1>4 DEF SpawnWindow, RestOK
  <2>2. Spawned(spawning[f], f) \in Event
    BY <2>1, EventTypes
  <2> QED  BY <1>3, <1>4, <2>2 DEF SpawnWindow
<1>5. ASSUME NEW f \in Frame, SpawnWindowFails(f)
      PROVE  TypeOK'
  <2>1. spawning[f] \in Session
    BY <1>0, <1>5 DEF SpawnWindowFails, RestOK
  <2>2. SpawnFailed(spawning[f], f) \in Event
    BY <2>1, EventTypes
  <2>3. PICK w \in {f, None} :
          rt' = Enqueue([rt EXCEPT !.slot[f] = w],
                        <<SpawnFailed(spawning[f], f)>>)
    BY <1>5 DEF SpawnWindowFails
  <2> QED  BY <1>3, <1>5, <2>2, <2>3 DEF SpawnWindowFails
<1>6. ASSUME EveryTick \/ FifthTick
      PROVE  TypeOK'
  <2>1. PICK evs \in Seq(Event) :
          /\ rt' = Enqueue(rt, evs)
          /\ UNCHANGED <<st, spawning, pending, reply, born>> /\ Idle
    BY <1>6, TicksEnqueue
  <2>2. Fits(rt')
    BY <1>0, <2>1, EnqueueType DEF Fits
  <2>3. RestOK'
    BY <1>0, <2>1, RestUnchanged
  <2> QED  BY <1>0, <2>1, <2>2, <2>3 DEF TypeOK, StOK, Fits, RestOK
<1>7. ASSUME ProbeStart \/ ProbeRead
      PROVE  TypeOK'
  <2> DEFINE type == [owner : Frame \cup {None}, dead : BOOLEAN]
  <2>0. /\ probe \in type /\ rt.act \in Frame \cup {None}
        /\ [owner |-> None, dead |-> FALSE] \in type
        /\ [owner |-> rt.act, dead |-> FALSE] \in type
        /\ [probe EXCEPT !.dead = TRUE] \in type
    <3>1. probe \in type /\ rt.act \in Frame \cup {None}
      BY <1>0 DEF RestOK, Fits, RtType
    <3> QED  BY <3>1
  <2> HIDE DEF type
  <2>a. UNCHANGED <<st, rt, exited, prog, spawning, pending, reply, born>>
    BY <1>7 DEF ProbeStart, ProbeRead
  <2>b. probe' \in type
    BY <1>7, <2>0 DEF ProbeStart, ProbeRead
  <2>1. probe' \in [owner : Frame \cup {None}, dead : BOOLEAN]
        /\ UNCHANGED <<st, rt, exited, prog, spawning, pending, reply, born>>
    BY <2>a, <2>b DEF type
  <2> QED  BY <1>0, <2>1 DEF TypeOK, StOK, Fits, RestOK
<1>8. ASSUME ProbeReport
      PROVE  TypeOK'
  <2>1. probe' \in [owner : Frame \cup {None}, dead : BOOLEAN]
        /\ UNCHANGED <<st, exited, prog, spawning, pending, reply, born>>
        /\ rt' = Enqueue(rt, <<Died(Main, probe.owner)>>)
    BY <1>8 DEF ProbeReport
  <2>2. Died(Main, probe.owner) \in Event
    BY <1>0, EventTypes DEF RestOK
  <2>3. <<Died(Main, probe.owner)>> \in Seq(Event) /\ rt \in RtType
    BY <1>0, <2>2 DEF Fits
  <2>4. Fits(rt')
    BY <2>1, <2>3, EnqueueType
  <2> QED  BY <1>0, <2>1, <2>4 DEF TypeOK, StOK, Fits, RestOK
<1> QED  BY <1>1, <1>2, <1>4, <1>5, <1>6, <1>7, <1>8 DEF Background

LEMMA ProcessExitType ==
    ASSUME TypeOK, NEW p \in Pane, ProcessExit(p)
    PROVE  TypeOK'
<1>0. StOK(st) /\ Fits(rt) /\ RestOK
  BY TypeParts
<1> DEFINE slot == [w \in Pane |-> IF rt.slot[w] = p THEN None ELSE rt.slot[w]]
<1>1. slot \in [Pane -> Pane \cup {None}]
  BY <1>0 DEF Fits, RtType
<1>2. /\ rt' \in {rt, [rt EXCEPT !.slot = slot]}
      /\ exited' = exited \cup {p}
      /\ UNCHANGED <<st, prog, spawning, pending, probe, reply, born>>
  BY DEF ProcessExit
<1> HIDE DEF slot
<1>3. Fits(rt')
  <2>1. Fits([rt EXCEPT !.slot = slot])
    BY <1>0, <1>1 DEF Fits, RtType
  <2> QED  BY <1>0, <1>2, <2>1
<1> QED  BY <1>0, <1>2, <1>3 DEF TypeOK, StOK, Fits, RestOK

\* Type correctness: whatever clients, tmux and the processes do, the sessions,
\* the runtime's tables and its bounded event channel (eventCh) keep their
\* shape; above all, no session of the map is ever left without a frame, so
\* activeFrame and frames[0] are always defined.
THEOREM TypeCorrect == Spec => []TypeOK
<1>1. Init => TypeOK
  BY InitType
<1>2. TypeOK /\ [Next]_vars => TypeOK'
  <2> SUFFICES ASSUME TypeOK, [Next]_vars PROVE TypeOK'
    OBVIOUS
  <2>1. CASE HandleEvent
    BY <2>1, HandleEventType
  <2>2. CASE Command
    BY <2>2, CommandType
  <2>3. CASE Background
    BY <2>3, BackgroundType
  <2>4. ASSUME NEW p \in Pane, ProcessExit(p)
        PROVE  TypeOK'
    BY <2>4, ProcessExitType
  <2>5. CASE UNCHANGED vars
    BY <2>5 DEF vars, TypeOK
  <2> QED  BY <2>1, <2>2, <2>3, <2>4, <2>5 DEF Next
<1> QED  BY <1>1, <1>2, PTL DEF Spec

-----------------------------------------------------------------------------
(***************************************************************************)
(* A session's root frame is for life, for any number of sessions and      *)
(* frames and with every fault of module Roost.                            *)
(*                                                                         *)
(* What could change it is not a handler that cuts or shortens a stack but *)
(* a setup job: it ends with the session as it was when the job began, and *)
(* even brings a stopped one back.  So the invariant is about all values a *)
(* session has, the one in the map and those put aside for its jobs: they  *)
(* agree on the root.                                                      *)
(***************************************************************************)

Waiting(f) == pending[f].sess # None

RootsAgree ==
    /\ \A f \in Frame : Waiting(f) =>
         /\ pending[f].sess \in born /\ pending[f].snap.frames # <<>>
         /\ SameRoot(pending[f].snap, st.sess[pending[f].sess])
    /\ \A f, g \in Frame : Waiting(f) /\ pending[f].sess = pending[g].sess =>
         pending[f].snap.frames[1] = pending[g].snap.frames[1]
    /\ Live(st.sess) \subseteq born

\* What RootIsForLife says of one step.
RootsKept ==
    \A s \in Live(st.sess) \cap Live(st'.sess) :
       st'.sess[s].frames[1] = st.sess[s].frames[1]

-----------------------------------------------------------------------------
(* Session values.                                                         *)

-----------------------------------------------------------------------------
(* Steps.                                                                  *)

\* A step that only ever cuts, extends or drops stacks.
LEMMA StacksOnly ==
    ASSUME TypeOK, RootsAgree, UNCHANGED <<pending, born>>,
           \A s \in Session : SameRoot(st.sess[s], st'.sess[s])
    PROVE  RootsAgree' /\ RootsKept
<1>1. \A f \in Frame : Waiting(f) => pending[f].sess \in Session
  BY DEF TypeOK, Waiting
<1> QED  BY <1>1 DEF RootsAgree, RootsKept, SameRoot, Waiting, Live

\* One session has a new value.
LEMMA OneStack ==
    ASSUME TypeOK, NEW x, StOK(x), x.sess = st.sess, NEW s \in Session, NEW y,
           SameRoot(st.sess[s], y), st' = [x EXCEPT !.sess[s] = y]
    PROVE  \A t \in Session : SameRoot(st.sess[t], st'.sess[t])
  BY DEF StOK, StType, SameRoot

\* Removing a session, or one of its frames above the root.
LEMMA EvictRoots ==
    ASSUME TypeOK, NEW f \in Frame, NEW r, NEW kill, EvictFrame(f, r, kill)
    PROVE  \A t \in Session : SameRoot(st.sess[t], st'.sess[t])
<1>0. StOK(st)
  BY TypeParts
<1>1. CASE st' = st
  BY <1>1 DEF SameRoot
<1>2. ASSUME NEW s \in Session, st' = Dropped(s)
      PROVE  \A t \in Session : SameRoot(st.sess[t], st'.sess[t])
  BY <1>0, <1>2 DEF Dropped, StOK, StType, SameRoot, NoSession
<1>3. ASSUME NEW s \in Session, Owns(st.sess[s], f), st.sess[s].frames[1] # f,
             NEW x \in {Focus(s), st}, st' = [x EXCEPT !.sess[s] = Without(st.sess[s], f)]
      PROVE  \A t \in Session : SameRoot(st.sess[t], st'.sess[t])
  <2>1. SessionOK(st.sess[s])
    BY <1>0, SessionOfMap
  <2>2. SameRoot(st.sess[s], Without(st.sess[s], f))
    BY <1>3, <2>1, WithoutRoot
  <2>3. StOK(x) /\ x.sess = st.sess
    BY <1>0, <1>3, FocusType
  <2> QED  BY <1>3, <2>2, <2>3, OneStack
<1> QED  BY <1>1, <1>2, <1>3 DEF EvictFrame, RemoveSession

LEMMA HandleEventRoots ==
    ASSUME TypeOK, RootsAgree, HandleEvent
    PROVE  RootsAgree' /\ RootsKept
<1>0. StOK(st) /\ Fits(rt)
  BY TypeParts
<1> DEFINE e == Head(rt.ch)
<1>a. rt.ch # <<>>
  BY DEF HandleEvent, HandlePaneSpawned, HandleSpawnFailed,
         HandleWindowVanished, HandlePaneDied, Next1
<1>b. e \in Event
  BY <1>0, <1>a, PoppedType DEF Fits
<1>c. UNCHANGED <<pending, born>>
  BY DEF HandleEvent, HandlePaneSpawned, HandleSpawnFailed, HandleWindowVanished, HandlePaneDied
<1>1. ASSUME HandlePaneSpawned
      PROVE  \A t \in Session : SameRoot(st.sess[t], st'.sess[t])
  <2>1. st' \in {Focus(e.sess), st} /\ e.sess \in Session
    BY <1>1, <1>b, EventFields DEF HandlePaneSpawned, Next1
  <2>2. st'.sess = st.sess
    BY <1>0, <2>1, FocusType
  <2> QED  BY <2>2 DEF SameRoot
<1>2. ASSUME HandleSpawnFailed
      PROVE  \A t \in Session : SameRoot(st.sess[t], st'.sess[t])
  <2>1. e.sess \in Session /\ e.frame \in Frame
    BY <1>2, <1>b, EventFields DEF HandleSpawnFailed, Next1
  <2>2. st' = IF Owns(st.sess[e.sess], e.frame)
              THEN [st EXCEPT !.sess[e.sess] = Truncated(st.sess[e.sess], e.frame)] ELSE st
    BY <1>2 DEF HandleSpawnFailed
  <2> HIDE DEF e
  <2>3. CASE Owns(st.sess[e.sess], e.frame)
    <3>1. SameRoot(st.sess[e.sess], Truncated(st.sess[e.sess], e.frame))
      BY <1>0, <2>1, <2>3, SessionOfMap, TruncatedRoot
    <3> QED  BY <1>0, <2>1, <2>2, <2>3, <3>1, OneStack
  <2>4. CASE ~Owns(st.sess[e.sess], e.frame)
    BY <2>2, <2>4 DEF SameRoot
  <2> QED  BY <2>3, <2>4
<1>3. ASSUME HandleWindowVanished
      PROVE  \A t \in Session : SameRoot(st.sess[t], st'.sess[t])
  <2>1. e.frame \in Frame
    BY <1>3, <1>b, EventFields DEF HandleWindowVanished, Next1
  <2> QED  BY <1>3, <2>1, EvictRoots DEF HandleWindowVanished
<1>4. ASSUME HandlePaneDied
      PROVE  \A t \in Session : SameRoot(st.sess[t], st'.sess[t])
  <2> DEFINE owner ==
        IF e.frame # None THEN e.frame
        ELSE IF st.focus # None /\ st.focus \in Live(st.sess)
             THEN ActiveFrame(st.sess[st.focus]) ELSE None
  <2>1. e.frame \in Frame \cup {None}
    BY <1>4, <1>b, EventFields DEF HandlePaneDied, Next1
  <2>2. owner \in Frame \cup {None}
    <3>1. ASSUME st.focus \in Live(st.sess)
          PROVE  ActiveFrame(st.sess[st.focus]) \in Frame
      <4>1. st.focus \in Session
        BY <3>1 DEF Live
      <4> QED  BY <1>0, <3>1, <4>1, SessionOfMap, ActiveFrameType
    <3> QED  BY <2>1, <3>1
  <2>3. st' = st \/ (owner # None /\ EvictFrame(owner, Popped, TRUE))
    BY <1>4 DEF HandlePaneDied, Respawn
  <2> HIDE DEF owner
  <2>4. CASE st' = st
    BY <2>4 DEF SameRoot
  <2>5. CASE owner # None /\ EvictFrame(owner, Popped, TRUE)
    BY <2>2, <2>5, EvictRoots
  <2> QED  BY <2>3, <2>4, <2>5
<1>5. \A t \in Session : SameRoot(st.sess[t], st'.sess[t])
  BY <1>1, <1>2, <1>3, <1>4 DEF HandleEvent
<1> QED  BY <1>c, <1>5, StacksOnly

\* A session that is new has no value anywhere.
LEMMA CreateRoots ==
    ASSUME TypeOK, RootsAgree, NEW s \in Session, NEW f \in Frame, CreateSession(s, f)
    PROVE  RootsAgree' /\ RootsKept
<1>0. StOK(st) /\ RestOK
  BY TypeParts
<1>1. s \notin born /\ born' = born \cup {s} /\ s \notin Live(st.sess)
      /\ \A g \in Frame : pending[g].sess # s
  BY ConstantsAssumption DEF CreateSession, RootsAgree, Waiting
<1>2. NewSession(f).frames # <<>> /\ NewSession(f).frames[1] = f
  BY DEF NewSession
<1>3. CASE st' = [st EXCEPT !.sess[s] = NewSession(f)] /\ UNCHANGED pending
  <2>1. \A t \in Session : t # s => st'.sess[t] = st.sess[t]
    BY <1>0, <1>3 DEF StOK, StType
  <2>2. \A g \in Frame : Waiting(g) => pending[g].sess \in Session
    BY <1>0 DEF RestOK, Waiting
  <2> QED  BY <1>1, <1>3, <2>1, <2>2 DEF RootsAgree, RootsKept, Waiting, SameRoot, Live
<1>4. CASE PutAside(f, s, NewSession(f)) /\ UNCHANGED st
  <2>1. /\ pending'[f].sess = s /\ pending'[f].snap = NewSession(f)
        /\ \A g \in Frame : g # f => pending'[g] = pending[g]
    BY <1>0, <1>4 DEF PutAside, RestOK
  <2>2. st.sess[s].frames = <<>>
    BY <1>1 DEF Live
  <2> QED  BY <1>1, <1>2, <1>4, <2>1, <2>2 DEF RootsAgree, RootsKept, Waiting, SameRoot
<1> QED  BY <1>3, <1>4 DEF CreateSession

\* The value put aside for a pushed frame has the root of the session.
LEMMA PushRoots ==
    ASSUME TypeOK, RootsAgree, NEW s \in Session, NEW f \in Frame, PushDriver(s, f)
    PROVE  RootsAgree' /\ RootsKept
<1>0. StOK(st) /\ RestOK
  BY TypeParts
<1> DEFINE y == Pushed(st.sess[s], f)
<1>1. s \in Live(st.sess) /\ st.sess[s].frames # <<>> /\ SessionOK(st.sess[s])
      /\ UNCHANGED born
  BY <1>0, SessionOfMap DEF PushDriver
<1>2. SameRoot(st.sess[s], y) /\ y.frames # <<>>
  BY <1>1, PushedRoot
<1>3. st' = [st EXCEPT !.sess[s] = y]
  BY DEF PushDriver
<1>4. st'.sess[s] = y
  BY <1>0, <1>3 DEF StOK, StType
<1>5. UNCHANGED pending \/ PutAside(f, s, y)
  BY <1>4 DEF PushDriver
<1> HIDE DEF y
<1>6. \A t \in Session : SameRoot(st.sess[t], st'.sess[t])
  BY <1>0, <1>2, <1>3, OneStack
<1>7. CASE UNCHANGED pending
  BY <1>1, <1>6, <1>7, StacksOnly
<1>8. CASE PutAside(f, s, y)
  <2>1. /\ pending'[f].sess = s /\ pending'[f].snap = y
        /\ \A g \in Frame : g # f => pending'[g] = pending[g]
    BY <1>0, <1>8 DEF PutAside, RestOK
  <2>2. \A g \in Frame : Waiting(g) => pending[g].sess \in Session
    BY <1>0 DEF RestOK, Waiting
  <2>3. \A g \in Frame : Waiting(g) /\ pending[g].sess = s =>
          pending[g].snap.frames[1] = y.frames[1]
    BY <1>1, <1>2 DEF RootsAgree, SameRoot
  <2>4. /\ s \in born /\ y.frames[1] = st.sess[s].frames[1]
    BY <1>1, <1>2 DEF RootsAgree, SameRoot
  <2>5. \A g \in Frame : Waiting(g)' =>
          /\ pending'[g].sess \in born' /\ pending'[g].snap.frames # <<>>
          /\ SameRoot(pending'[g].snap, st'.sess[pending'[g].sess])
    <3> SUFFICES ASSUME NEW g \in Frame, Waiting(g)'
                 PROVE  /\ pending'[g].sess \in born' /\ pending'[g].snap.frames # <<>>
                        /\ SameRoot(pending'[g].snap, st'.sess[pending'[g].sess])
      OBVIOUS
    <3>1. CASE g = f
      BY <1>1, <1>2, <1>4, <2>1, <2>4, <3>1 DEF SameRoot
    <3>2. CASE g # f
      <4>1. pending'[g] = pending[g] /\ Waiting(g)
        BY <2>1, <3>2 DEF Waiting
      <4>2. /\ pending[g].sess \in born /\ pending[g].snap.frames # <<>>
            /\ SameRoot(pending[g].snap, st.sess[pending[g].sess])
        BY <4>1 DEF RootsAgree
      <4>3. SameRoot(st.sess[pending[g].sess], st'.sess[pending[g].sess])
        BY <1>6, <2>2, <4>1
      <4> QED  BY <1>1, <4>1, <4>2, <4>3 DEF SameRoot
    <3> QED  BY <3>1, <3>2
  <2>6. \A g, h \in Frame : Waiting(g)' /\ pending'[g].sess = pending'[h].sess =>
          pending'[g].snap.frames[1] = pending'[h].snap.frames[1]
    BY <2>1, <2>3 DEF RootsAgree, Waiting
  <2>7. Live(st'.sess) \subseteq born' /\ RootsKept
    BY <1>1, <1>6 DEF RootsAgree, RootsKept, SameRoot, Live
  <2> QED  BY <2>5, <2>6, <2>7 DEF RootsAgree
<1> QED  BY <1>5, <1>7, <1>8

LEMMA CommandRoots ==
    ASSUME TypeOK, RootsAgree, Command
    PROVE  RootsAgree' /\ RootsKept
<1>0. StOK(st)
  BY TypeParts
<1>1. ASSUME NEW s \in Session, NEW f \in Frame, ActivateFrame(s, f)
      PROVE  RootsAgree' /\ RootsKept
  <2> DEFINE x == st.sess[s]
             y == IF x.act = f THEN x ELSE [PushMRU(x, x.act) EXCEPT !.act = f]
             z == IF st.focus = s THEN Focus(s) ELSE st
  <2>1. SessionOK(x)
    BY <1>0, SessionOfMap
  <2>2. SameRoot(x, y)
    BY <2>1, ActivatedRoot DEF SameRoot
  <2>3. StOK(z) /\ z.sess = st.sess
    BY <1>0, FocusType
  <2>4. st' = [z EXCEPT !.sess[s] = y] /\ UNCHANGED <<pending, born>>
    BY <1>1 DEF ActivateFrame
  <2> HIDE DEF y, z
  <2>5. \A t \in Session : SameRoot(st.sess[t], st'.sess[t])
    BY <2>2, <2>3, <2>4, OneStack
  <2> QED  BY <2>4, <2>5, StacksOnly
<1>2. ASSUME NEW s \in Session, StopSession(s)
      PROVE  RootsAgree' /\ RootsKept
  <2>1. st' = Dropped(s) /\ UNCHANGED <<pending, born>>
    BY <1>2 DEF StopSession, RemoveSession
  <2>2. \A t \in Session : SameRoot(st.sess[t], st'.sess[t])
    BY <1>0, <2>1 DEF Dropped, StOK, StType, SameRoot, NoSession
  <2> QED  BY <2>1, <2>2, StacksOnly
<1>3. CASE \/ \E s \in Session : SwitchSession(s)
           \/ PreviewProject
           \/ \E kind \in {"main", "log"} : ActivateOccupant(kind)
  <2>1. st'.sess = st.sess /\ UNCHANGED <<pending, born>>
    BY <1>0, <1>3, FocusType DEF SwitchSession, PreviewProject, ActivateOccupant, StOK, StType
  <2>2. \A t \in Session : SameRoot(st.sess[t], st'.sess[t])
    BY <2>1 DEF SameRoot
  <2> QED  BY <2>1, <2>2, StacksOnly
<1> QED  BY <1>1, <1>2, <1>3, CreateRoots, PushRoots DEF Command

\* A setup job ends: what it puts into the map has the root all values have.
LEMMA JobRoots ==
    ASSUME TypeOK, RootsAgree, NEW f \in Frame, JobSucceeds(f) \/ JobFails(f)
    PROVE  RootsAgree' /\ RootsKept
<1>0. StOK(st) /\ RestOK
  BY TypeParts
<1> DEFINE s == pending[f].sess
           y == pending[f].snap
<1>1. s \in Session /\ Waiting(f)
  BY <1>0 DEF JobSucceeds, JobFails, RestOK, Waiting
<1>2. /\ pending'[f].sess = None /\ UNCHANGED born
      /\ \A g \in Frame : g # f => pending'[g] = pending[g]
  BY <1>0 DEF JobSucceeds, JobFails, PutAside, RestOK
<1>3. st' = [st EXCEPT !.sess[s] = y] \/ UNCHANGED st
  BY DEF JobSucceeds, JobFails
<1> HIDE DEF s, y
<1>4. CASE UNCHANGED st
  BY <1>2, <1>4 DEF RootsAgree, RootsKept, Waiting
<1>5. CASE st' = [st EXCEPT !.sess[s] = y]
  <2>1. st'.sess[s] = y /\ \A t \in Session : t # s => st'.sess[t] = st.sess[t]
    BY <1>0, <1>1, <1>5 DEF StOK, StType
  <2>2. /\ s \in born /\ y.frames # <<>> /\ SameRoot(y, st.sess[s])
        /\ \A g \in Frame : pending[g].sess = s => y.frames[1] = pending[g].snap.frames[1]
    BY <1>1 DEF RootsAgree, s, y
  <2>3. \A g \in Frame : Waiting(g) => pending[g].sess \in Session
    BY <1>0 DEF RestOK, Waiting
  <2>4. \A g \in Frame : Waiting(g)' =>
          /\ pending'[g].sess \in born' /\ pending'[g].snap.frames # <<>>
          /\ SameRoot(pending'[g].snap, st'.sess[pending'[g].sess])
    <3> SUFFICES ASSUME NEW g \in Frame, Waiting(g)'
                 PROVE  /\ pending'[g].sess \in born' /\ pending'[g].snap.frames # <<>>
                        /\ SameRoot(pending'[g].snap, st'.sess[pending'[g].sess])
      OBVIOUS
    <3>1. pending'[g] = pending[g] /\ Waiting(g)
      BY <1>2 DEF Waiting
    <3>2. /\ pending[g].sess \in born /\ pending[g].snap.frames # <<>>
          /\ SameRoot(pending[g].snap, st.sess[pending[g].sess])
      BY <3>1 DEF RootsAgree
    <3>3. CASE pending[g].sess = s
      BY <1>2, <2>1, <2>2, <3>1, <3>2, <3>3 DEF SameRoot
    <3>4. CASE pending[g].sess # s
      BY <1>2, <2>1, <2>3, <3>1, <3>2, <3>4
    <3> QED  BY <3>3, <3>4
  <2>5. \A g, h \in Frame : Waiting(g)' /\ pending'[g].sess = pending'[h].sess =>
          pending'[g].snap.frames[1] = pending'[h].snap.frames[1]
    BY <1>2 DEF RootsAgree, Waiting
  <2>6. Live(st'.sess) \subseteq born' /\ RootsKept
    BY <1>2, <2>1, <2>2 DEF RootsAgree, RootsKept, SameRoot, Live
  <2> QED  BY <2>4, <2>5, <2>6 DEF RootsAgree
<1> QED  BY <1>3, <1>4, <1>5

LEMMA RootsStep ==
    ASSUME TypeOK, RootsAgree, [Next]_vars
    PROVE  RootsAgree' /\ RootsKept
<1>1. CASE UNCHANGED <<st, pending, born>>
  BY <1>1 DEF RootsAgree, RootsKept, Waiting
<1>2. CASE Background /\ ~\E f \in Frame : JobSucceeds(f) \/ JobFails(f)
  <2>1. CASE EveryTick \/ FifthTick
    BY <1>1, <2>1, TicksEnqueue
  <2>2. CASE ~(EveryTick \/ FifthTick)
    BY <1>1, <1>2, <2>2 DEF Background, SpawnWindow, SpawnWindowFails, ProbeStart, ProbeRead,
                            ProbeReport
  <2> QED  BY <2>1, <2>2
<1>3. CASE UNCHANGED vars \/ \E p \in Pane : ProcessExit(p)
  BY <1>1, <1>3 DEF vars, ProcessExit
<1> QED  BY <1>2, <1>3, HandleEventRoots, CommandRoots, JobRoots DEF Next

\* A session keeps its first frame while it lives (reducePushDriver, evictFrame,
\* truncateFrames, handlePendingCreate): no eviction, refused window or late
\* setup job, in any order and of any number, puts another under it.
THEOREM RootTheorem == Spec => RootIsForLife
<1>1. Init => RootsAgree
  BY DEF Init, RootsAgree, Waiting, Live, NoSession
<1>2. TypeOK /\ RootsAgree /\ [Next]_vars => RootsAgree' /\ RootsKept
  BY RootsStep
<1> QED  BY <1>1, <1>2, TypeCorrect, PTL DEF Spec, RootIsForLife, RootsKept

(***************************************************************************)
(* What the runtime believes to be in pane 0.1 is there, for any number of *)
(* sessions and frames, any queue and any list of recent frames, as long   *)
(* as the main TUI does not exit while it is parked in a frame's window.   *)
(*                                                                         *)
(* The invariant is one shape of <<slots, resident, occupant>> that every  *)
(* effect maps to a shape again, and the fact that the window of a frame   *)
(* that is still to be spawned is empty: without it SpawnWindow could put  *)
(* its pane on top of a parked TUI.                                        *)
(***************************************************************************)

\* ResidentTruth, OccupantTruth and OnePlace, of any runtime value and
\* occupant.
Shape(r, occ) ==
    /\ OneSlot(r.slot)
    /\ Placed(r.slot, Main) /\ Placed(r.slot, Log)
    /\ r.act = None <=> r.resident = None
    /\ r.act # None => r.slot[Main] = r.act
    /\ r.act = None => r.slot[Main] \in {Main, Log}
    /\ occ = "log" => r.slot[Main] = Log /\ r.slot[Log] = Main
    /\ occ = "main" => r.slot[Main] = Main
    /\ occ # "log" => r.slot[Log] = Log

KeepsVacant(old, new) == \A f \in Frame : Vacant(old, f) => Vacant(new, f)

Unspawned(f) ==
    reply[f] = "none" \/ pending[f].sess # None \/ spawning[f] # None

\* A frame is spawned at most once: it waits for its job, then for its window.
Begun ==
    \A f \in Frame :
      /\ Unspawned(f) => Vacant(rt.slot, f)
      /\ spawning[f] # None => pending[f].sess = None
      /\ reply[f] = "none" => spawning[f] = None /\ pending[f].sess = None

ResidencyInv == TypeOK /\ Shape(rt, st.occupant) /\ Begun

(***************************************************************************)
(* Effects.                                                                *)
(***************************************************************************)

\* Before 0.1 is given to a frame the main TUI is at home: the occupant may
\* then be called "main" or "frame".
LEMMA ShapeWeaken ==
    ASSUME NEW r, NEW occ, occ # "log", Shape(r, occ)
    PROVE  Shape(r, "frame")
  BY DEF Shape

\* Shape depends on the slots and the residency alone.
LEMMA ShapeSame ==
    ASSUME NEW r, NEW q, NEW occ, Shape(r, occ),
           q.slot = r.slot, q.act = r.act, q.resident = r.resident
    PROVE  Shape(q, occ)
  BY DEF Shape

LEMMA EnqueueShape ==
    ASSUME NEW r \in RtType, NEW evs \in Seq(Event), NEW occ, Shape(r, occ)
    PROVE  /\ Shape(Enqueue(r, evs), occ)
           /\ Enqueue(r, evs).slot = r.slot
<1> DEFINE m == Enqueue(r, evs).ch
<1>1. Enqueue(r, evs) = [r EXCEPT !.ch = m]
  BY EnqueueType
<1> HIDE DEF m
<1>2. /\ Enqueue(r, evs).slot = r.slot /\ Enqueue(r, evs).act = r.act
      /\ Enqueue(r, evs).resident = r.resident
  BY <1>1 DEF RtType
<1> QED  BY <1>2, ShapeSame

LEMMA ActivateShape ==
    ASSUME NEW r, Fits(r), Shape(r, "frame"), NEW s \in Session,
           NEW sess \in [Session -> SessionRec]
    PROVE  /\ Shape(ActivateSession(r, sess, s), "frame")
           /\ KeepsVacant(r.slot, ActivateSession(r, sess, s).slot)
<1> DEFINE f == ActiveFrame(sess[s])
           q == ActivateSession(r, sess, s)
<1>0. r \in RtType
  BY DEF Fits
<1>1. CASE s \notin Live(sess) \/ f \notin r.panes \/ r.act = f
  BY <1>1 DEF ActivateSession, KeepsVacant
<1>2. CASE /\ ~(s \notin Live(sess) \/ f \notin r.panes \/ r.act = f)
           /\ ~Placed(r.slot, f)
  <2>1. f \in Frame
    BY <1>0, <1>2 DEF RtType
  <2>2. q = Enqueue(r, <<Vanished(f)>>)
    BY <1>2 DEF ActivateSession
  <2> HIDE DEF f, q
  <2>3. <<Vanished(f)>> \in Seq(Event)
    BY <2>1, EventTypes
  <2>4. Shape(q, "frame") /\ q.slot = r.slot
    BY <1>0, <2>2, <2>3, EnqueueShape
  <2> QED  BY <2>4 DEF KeepsVacant, q
<1>3. CASE /\ ~(s \notin Live(sess) \/ f \notin r.panes \/ r.act = f)
           /\ Placed(r.slot, f)
  <2>1. f \in Frame
    BY <1>0, <1>3 DEF RtType
  <2> DEFINE slot == SwapPane(r.slot, f)
  <2>2. q = [r EXCEPT !.slot = slot, !.resident = s, !.act = f]
    BY <1>3 DEF ActivateSession
  <2> HIDE DEF f, q
  <2>3. f \in Pane /\ f # Log /\ f # None /\ s # None
    BY <2>1, PaneFacts
  <2>4. /\ OneSlot(slot)
        /\ \A p : Placed(slot, p) <=> Placed(r.slot, p)
        /\ slot[Main] = f
        /\ r.slot[Log] = Log => slot[Log] = Log
        /\ \A g \in Frame : r.slot[g] = None => slot[g] = None
    BY <1>0, <1>3, <2>3, SwapPaneKeeps DEF Shape, RtType
  <2> HIDE DEF slot
  <2>5. q.slot = slot /\ q.resident = s /\ q.act = f
    BY <1>0, <2>2 DEF RtType
  <2>6. Shape(q, "frame")
    BY <2>3, <2>4, <2>5 DEF Shape
  <2>7. KeepsVacant(r.slot, q.slot)
    BY <2>4, <2>5 DEF KeepsVacant, Vacant
  <2> QED  BY <2>6, <2>7 DEF q
<1> QED  BY <1>1, <1>2, <1>3

LEMMA DeactivateShape ==
    ASSUME NEW r, Fits(r), NEW occ, occ # "log", Shape(r, occ)
    PROVE  /\ Shape(DeactivateSession(r), "main")
           /\ KeepsVacant(r.slot, DeactivateSession(r).slot)
<1>0. r \in RtType
  BY DEF Fits
<1>1. CASE r.resident = None
  <2>1. DeactivateSession(r) = r
    BY <1>1 DEF DeactivateSession
  <2>2. r.slot[Main] = Main
    BY <1>1, PaneFacts DEF Shape, OneSlot
  <2> QED  BY <2>1, <2>2 DEF Shape, KeepsVacant
<1>2. CASE r.resident # None
  <2> DEFINE slot == SwapPane(r.slot, Main)
             q == DeactivateSession(r)
  <2>1. q = [r EXCEPT !.slot = slot, !.resident = None, !.act = None]
    BY <1>2 DEF DeactivateSession, Shape
  <2>2. /\ OneSlot(slot)
        /\ \A p : Placed(slot, p) <=> Placed(r.slot, p)
        /\ slot[Main] = Main
        /\ r.slot[Log] = Log => slot[Log] = Log
        /\ \A g \in Frame : r.slot[g] = None => slot[g] = None
    BY <1>0, PaneFacts, SwapPaneKeeps DEF Shape, RtType
  <2> HIDE DEF slot, q
  <2>3. q.slot = slot /\ q.resident = None /\ q.act = None
    BY <1>0, <2>1 DEF RtType
  <2>4. Shape(q, "main")
    BY <2>2, <2>3 DEF Shape
  <2>5. KeepsVacant(r.slot, q.slot)
    BY <2>2, <2>3 DEF KeepsVacant, Vacant
  <2> QED  BY <2>4, <2>5 DEF q
<1> QED  BY <1>1, <1>2

LEMMA SwapHiddenShape ==
    ASSUME NEW r, Fits(r)
    PROVE  /\ Shape(r, "log") => Shape(SwapHidden(r), "main")
           /\ Shape(r, "main") => Shape(SwapHidden(r), "log")
           /\ OneSlot(r.slot) => KeepsVacant(r.slot, SwapHidden(r).slot)
<1> DEFINE slot == Exchange(r.slot, Log, Main)
           q == SwapHidden(r)
<1>0. r \in RtType /\ r.slot \in [Pane -> Pane \cup {None}]
      /\ r.act \in Frame \cup {None}
  BY DEF Fits, RtType
<1>1. q.slot = slot /\ q.act = r.act /\ q.resident = r.resident
  BY <1>0 DEF SwapHidden, RtType
<1>2. OneSlot(r.slot) =>
        /\ OneSlot(slot)
        /\ \A p : Placed(slot, p) <=> Placed(r.slot, p)
        /\ slot[Main] = r.slot[Log] /\ slot[Log] = r.slot[Main]
        /\ \A u \in Pane \ {Log, Main} : slot[u] = r.slot[u]
  BY <1>0, PaneFacts, ExchangeKeeps
<1> HIDE DEF slot, q
<1>3. Shape(r, "log") => Shape(q, "main")
  BY <1>0, <1>1, <1>2, PaneFacts DEF Shape
<1>4. Shape(r, "main") => Shape(q, "log")
  BY <1>0, <1>1, <1>2, PaneFacts DEF Shape
<1>5. OneSlot(r.slot) => KeepsVacant(r.slot, q.slot)
  BY <1>1, <1>2, PaneFacts DEF KeepsVacant, Vacant
<1> QED  BY <1>3, <1>4, <1>5 DEF q

LEMMA EnsureMainShape ==
    ASSUME NEW r, Fits(r), Shape(r, st.occupant)
    PROVE  /\ Shape(EnsureMainAtVisibleSlot(r), "frame")
           /\ KeepsVacant(r.slot, EnsureMainAtVisibleSlot(r).slot)
<1>1. CASE st.occupant = "log"
  <2>1. Shape(SwapHidden(r), "main")
        /\ KeepsVacant(r.slot, SwapHidden(r).slot)
    BY <1>1, SwapHiddenShape DEF Shape
  <2>2. Shape(SwapHidden(r), "frame")
    BY <2>1, ShapeWeaken
  <2> QED  BY <1>1, <2>1, <2>2 DEF EnsureMainAtVisibleSlot
<1>2. CASE st.occupant # "log"
  BY <1>2, ShapeWeaken DEF EnsureMainAtVisibleSlot, KeepsVacant
<1> QED  BY <1>1, <1>2

\* The way every command shows a session: the main TUI home, then the swap.
LEMMA ShowShape ==
    ASSUME NEW r, Fits(r), Shape(r, st.occupant), NEW s \in Session,
           NEW sess \in [Session -> SessionRec]
    PROVE  LET q == ActivateSession(EnsureMainAtVisibleSlot(r), sess, s)
           IN  Shape(q, "frame") /\ KeepsVacant(r.slot, q.slot) /\ Fits(q)
<1> DEFINE m == EnsureMainAtVisibleSlot(r)
           q == ActivateSession(m, sess, s)
<1>1. Fits(m) /\ Shape(m, "frame") /\ KeepsVacant(r.slot, m.slot)
  BY SwapHiddenType, EnsureMainShape
<1> HIDE DEF m
<1>2. Fits(q) /\ Shape(q, "frame") /\ KeepsVacant(m.slot, q.slot)
  BY <1>1, ActivateSessionType, ActivateShape
<1>3. KeepsVacant(r.slot, q.slot)
  BY <1>1, <1>2 DEF KeepsVacant
<1> QED  BY <1>2, <1>3 DEF m

\* Only registered frames are killed, and never what is in 0.1.
LEMMA ForgetShape ==
    ASSUME NEW r, Fits(r), NEW F, NEW kill, NEW occ, Shape(r, occ)
    PROVE  /\ Shape(Forget(r, F, kill), occ)
           /\ KeepsVacant(r.slot, Forget(r, F, kill).slot)
<1> DEFINE slot == IF kill THEN KillPaneWindows(r.slot, F \cap r.panes)
                   ELSE r.slot
           q == Forget(r, F, kill)
<1>0. r \in RtType /\ r.panes \subseteq Frame
  BY DEF Fits, RtType
<1>1. /\ \A w \in Pane : \/ slot[w] = r.slot[w]
                         \/ /\ w # Main /\ r.slot[w] \in Frame
                            /\ slot[w] = None
      /\ slot[Main] = r.slot[Main]
  BY <1>0, PaneFacts DEF KillPaneWindows
<1>2. q.slot = slot /\ q.act = r.act /\ q.resident = r.resident
  BY <1>0 DEF Forget, RtType
<1> HIDE DEF slot, q
<1>3. OneSlot(slot)
  BY <1>1 DEF Shape, OneSlot
<1>4. ASSUME NEW p \in {Main, Log}  PROVE Placed(slot, p)
  BY <1>1, PaneFacts DEF Shape, Placed
<1>5. Shape(q, occ)
  BY <1>1, <1>2, <1>3, <1>4, PaneFacts DEF Shape
<1>6. KeepsVacant(r.slot, q.slot)
  BY <1>1, <1>2, PaneFacts DEF KeepsVacant, Vacant, Placed
<1> QED  BY <1>5, <1>6 DEF q

(***************************************************************************)
(* Actions.                                                                *)
(***************************************************************************)

\* A step that spawns nothing new leaves unspawned frames vacant.
LEMMA BegunKept ==
    ASSUME Begun, KeepsVacant(rt.slot, rt'.slot), UNCHANGED spawning,
           \A f \in Frame : pending'[f].sess \in {None, pending[f].sess},
           \A f \in Frame : reply'[f] = "none" => reply[f] = "none"
    PROVE  Begun'
  BY DEF Begun, KeepsVacant, Unspawned, Vacant, Placed

LEMMA SameBegun ==
    ASSUME Begun, KeepsVacant(rt.slot, rt'.slot),
           UNCHANGED <<spawning, pending, reply>>
    PROVE  Begun'
  BY DEF Begun, KeepsVacant, Unspawned, Vacant, Placed

LEMMA ShapeGives ==
    ASSUME Shape(rt, st.occupant)
    PROVE  ResidentTruth /\ OccupantTruth /\ OnePlace
  BY PaneFacts DEF Shape, ResidentTruth, OccupantTruth, OnePlace, OneSlot, Placed

LEMMA RemoveSessionShape ==
    ASSUME StOK(st), NEW s \in Session, NEW r, Fits(r),
           Shape(r, st.occupant), NEW kill, RemoveSession(s, r, kill)
    PROVE  Shape(rt', st'.occupant) /\ KeepsVacant(r.slot, rt'.slot)
<1> DEFINE shown == st.focus = s /\ st.occupant = "frame"
           q == IF shown THEN DeactivateSession(r) ELSE r
<1>1. st' = Dropped(s) /\ rt' = Forget(q, ToSet(st.sess[s].frames), kill)
  BY DEF RemoveSession
<1>2. st'.occupant = IF shown THEN "main" ELSE st.occupant
  BY <1>1 DEF Dropped, StOK, StType
<1>3. Fits(q) /\ Shape(q, st'.occupant) /\ KeepsVacant(r.slot, q.slot)
  BY <1>2, DeactivateSessionType, DeactivateShape DEF KeepsVacant
<1> HIDE DEF q, shown
<1>4. Shape(rt', st'.occupant) /\ KeepsVacant(q.slot, rt'.slot)
  BY <1>1, <1>3, ForgetShape
<1> QED  BY <1>3, <1>4 DEF KeepsVacant

LEMMA EvictFrameShape ==
    ASSUME StOK(st), NEW f \in Frame, NEW r, Fits(r),
           Shape(r, st.occupant), NEW kill, EvictFrame(f, r, kill)
    PROVE  Shape(rt', st'.occupant) /\ KeepsVacant(r.slot, rt'.slot)
<1>1. CASE st' = st /\ rt' = r
  BY <1>1 DEF KeepsVacant
<1>2. ASSUME NEW s \in Session, Owns(st.sess[s], f), st.sess[s].frames[1] = f,
             RemoveSession(s, r, kill)
      PROVE  Shape(rt', st'.occupant) /\ KeepsVacant(r.slot, rt'.slot)
  BY <1>2, RemoveSessionShape
<1>3. ASSUME NEW s \in Session, Owns(st.sess[s], f), st.sess[s].frames[1] # f,
             NEW y, y = Without(st.sess[s], f),
             NEW reshow, reshow = (st.focus = s /\ st.sess[s].act = f),
             st' = [(IF reshow THEN Focus(s) ELSE st) EXCEPT !.sess[s] = y],
             rt' = Forget(IF reshow
                          THEN ActivateSession(EnsureMainAtVisibleSlot(r),
                                               st'.sess, s)
                          ELSE r, {f}, kill)
      PROVE  Shape(rt', st'.occupant) /\ KeepsVacant(r.slot, rt'.slot)
  <2>1. st.sess[s] \in SessionRec /\ SessionOK(st.sess[s])
    BY DEF StOK, SessionOK
  <2>2. SessionOK(y)
    BY <1>3, <2>1, WithoutType
  <2>3. StOK(IF reshow THEN Focus(s) ELSE st)
    BY FocusType
  <2>4. st'.sess \in [Session -> SessionRec]
    <3>1. StOK(st')
      BY <1>3, <2>2, <2>3, WithSessionType
    <3> QED  BY <3>1 DEF StOK, StType
  <2>5. CASE reshow
    <3> DEFINE q == ActivateSession(EnsureMainAtVisibleSlot(r), st'.sess, s)
    <3>1. Shape(q, "frame") /\ KeepsVacant(r.slot, q.slot) /\ Fits(q)
      BY <2>4, ShowShape
    <3>2. st'.occupant = "frame" /\ rt' = Forget(q, {f}, kill)
      BY <1>3, <2>5 DEF Focus, StOK, StType
    <3> HIDE DEF q
    <3>3. Shape(rt', "frame") /\ KeepsVacant(q.slot, rt'.slot)
      BY <3>1, <3>2, ForgetShape
    <3> QED  BY <3>1, <3>2, <3>3 DEF KeepsVacant
  <2>6. CASE ~reshow
    <3>1. st'.occupant = st.occupant /\ rt' = Forget(r, {f}, kill)
      BY <1>3, <2>6 DEF StOK, StType
    <3> QED  BY <3>1, ForgetShape
  <2> QED  BY <2>5, <2>6
<1> QED  BY <1>1, <1>2, <1>3 DEF EvictFrame

LEMMA CommandShape ==
    ASSUME ResidencyInv, Command
    PROVE  Shape(rt', st'.occupant) /\ Begun'
<1>0. StOK(st) /\ Fits(rt) /\ RestOK /\ Begun /\ Shape(rt, st.occupant)
  BY TypeParts DEF ResidencyInv
<1>a. rt' = rt => KeepsVacant(rt.slot, rt'.slot)
  BY DEF KeepsVacant
\* The frame asked for was fresh: it is vacant, and waits for one thing only.
<1>b. ASSUME NEW f \in Frame, NEW s, NEW x, Fresh(f), Asked(f), rt' = rt,
             \/ StartSpawn(s, f) /\ UNCHANGED pending
             \/ PutAside(f, s, x) /\ UNCHANGED spawning
      PROVE  Begun'
  <2>1. \A g \in Frame \ {f} : /\ reply'[g] = reply[g]
                               /\ spawning'[g] = spawning[g]
                               /\ pending'[g] = pending[g]
    BY <1>0, <1>b DEF Asked, StartSpawn, PutAside, RestOK
  <2>2. reply'[f] = "owed"
    BY <1>0, <1>b DEF Asked, RestOK
  <2>3. Vacant(rt.slot, f) /\ spawning[f] = None /\ pending[f].sess = None
    BY <1>0, <1>b DEF Begun, Fresh, Unspawned
  <2>4. spawning'[f] = None \/ pending'[f].sess = None
    BY <1>b, <2>3
    DEF StartSpawn, PutAside
  <2>5. ASSUME NEW g \in Frame
        PROVE  /\ Unspawned(g)' => Vacant(rt'.slot, g)
               /\ spawning'[g] # None => pending'[g].sess = None
               /\ reply'[g] = "none" =>
                    spawning'[g] = None /\ pending'[g].sess = None
    <3>1. CASE g = f
      BY <1>b, <2>2, <2>3, <2>4, <3>1
    <3>2. CASE g # f
      BY <1>0, <1>b, <2>1, <3>2 DEF Begun, Unspawned
    <3> QED  BY <3>1, <3>2
  <2> QED  BY <2>5 DEF Begun, Unspawned, Vacant, Placed
<1>1. ASSUME NEW s \in Session, NEW f \in Frame, CreateSession(s, f)
      PROVE  Shape(rt', st'.occupant) /\ Begun'
  <2>1. rt' = rt /\ st'.occupant = st.occupant
    BY <1>0, <1>1 DEF CreateSession, StOK, StType
  <2> QED  BY <1>0, <1>1, <1>b, <2>1 DEF CreateSession
<1>2. ASSUME NEW s \in Session, NEW f \in Frame, PushDriver(s, f)
      PROVE  Shape(rt', st'.occupant) /\ Begun'
  <2>1. rt' = rt /\ st'.occupant = st.occupant
    BY <1>0, <1>2 DEF PushDriver, StOK, StType
  <2> QED  BY <1>0, <1>2, <1>b, <2>1 DEF PushDriver
<1>3. ASSUME NEW s \in Session, NEW f \in Frame, ActivateFrame(s, f)
      PROVE  Shape(rt', st'.occupant) /\ Begun'
  <2> DEFINE q == ActivateSession(EnsureMainAtVisibleSlot(rt), st'.sess, s)
  <2>1. st'.sess \in [Session -> SessionRec]
    BY CommandType, <1>3 DEF Command, ResidencyInv, TypeOK, StType
  <2>2. Shape(q, "frame") /\ KeepsVacant(rt.slot, q.slot)
    BY <1>0, <2>1, ShowShape
  <2> HIDE DEF q
  <2>3. CASE st.focus = s
    <3>1. rt' = q /\ st'.occupant = "frame"
      BY <1>0, <1>3, <2>3 DEF ActivateFrame, Focus, StOK, StType, q
    <3>2. UNCHANGED <<spawning, pending, reply>>
      BY <1>3 DEF ActivateFrame
    <3> QED  BY <1>0, <2>2, <3>1, <3>2, SameBegun
  <2>4. CASE st.focus # s
    <3>1. rt' = rt /\ st'.occupant = st.occupant
      BY <1>0, <1>3, <2>4 DEF ActivateFrame, StOK, StType
    <3>2. UNCHANGED <<spawning, pending, reply>>
      BY <1>3 DEF ActivateFrame
    <3> QED  BY <1>0, <1>a, <3>1, <3>2, SameBegun
  <2> QED  BY <2>3, <2>4
<1>4. ASSUME NEW s \in Session, StopSession(s)
      PROVE  Shape(rt', st'.occupant) /\ Begun'
  <2>1. RemoveSession(s, rt, TRUE) /\ UNCHANGED <<spawning, pending, reply>>
    BY <1>4 DEF StopSession
  <2>2. Shape(rt', st'.occupant) /\ KeepsVacant(rt.slot, rt'.slot)
    BY <1>0, <2>1, RemoveSessionShape
  <2> QED  BY <1>0, <2>1, <2>2, SameBegun
<1>5. ASSUME NEW s \in Session, SwitchSession(s)
      PROVE  Shape(rt', st'.occupant) /\ Begun'
  <2>1. /\ st' = Focus(s)
        /\ rt' = ActivateSession(EnsureMainAtVisibleSlot(rt), st.sess, s)
        /\ UNCHANGED <<spawning, pending, reply>>
    BY <1>5 DEF SwitchSession
  <2>2. st'.occupant = "frame" /\ st.sess \in [Session -> SessionRec]
    BY <1>0, <2>1 DEF Focus, StOK, StType
  <2>3. Shape(rt', "frame") /\ KeepsVacant(rt.slot, rt'.slot)
    BY <1>0, <2>1, <2>2, ShowShape
  <2> QED  BY <1>0, <2>1, <2>2, <2>3, SameBegun
<1>6. ASSUME PreviewProject
      PROVE  Shape(rt', st'.occupant) /\ Begun'
  <2>1. UNCHANGED <<spawning, pending, reply>>
    BY <1>6 DEF PreviewProject
  <2>2. CASE st.occupant = "frame"
    <3>1. rt' = DeactivateSession(rt) /\ st'.occupant = "main"
      BY <1>0, <1>6, <2>2 DEF PreviewProject, StOK, StType
    <3>2. Shape(rt', "main") /\ KeepsVacant(rt.slot, rt'.slot)
      BY <1>0, <2>2, <3>1, DeactivateShape
    <3> QED  BY <1>0, <2>1, <3>1, <3>2, SameBegun
  <2>3. CASE st.occupant # "frame"
    <3>1. rt' = rt /\ st'.occupant = st.occupant
      BY <1>0, <1>6, <2>3 DEF PreviewProject, StOK, StType
    <3> QED  BY <1>0, <1>a, <2>1, <3>1, SameBegun
  <2> QED  BY <2>2, <2>3
<1>7. ASSUME NEW kind \in {"main", "log"}, ActivateOccupant(kind)
      PROVE  Shape(rt', st'.occupant) /\ Begun'
  <2> DEFINE left == IF st.occupant = "frame" THEN DeactivateSession(rt)
                     ELSE rt
             now == IF st.occupant = "frame" THEN "main" ELSE st.occupant
  <2>1. /\ st'.occupant = kind
        /\ rt' = IF now # kind THEN SwapHidden(left) ELSE left
        /\ UNCHANGED <<spawning, pending, reply>>
    BY <1>0, <1>7 DEF ActivateOccupant, StOK, StType
  <2>2. now \in {"main", "log"} /\ Shape(left, now) /\ Fits(left)
        /\ KeepsVacant(rt.slot, left.slot)
    BY <1>0, DeactivateSessionType, DeactivateShape
    DEF StOK, StType, KeepsVacant
  <2> HIDE DEF left, now
  <2>3. Shape(rt', kind) /\ KeepsVacant(left.slot, rt'.slot)
    <3>1. CASE now = kind
      BY <2>1, <2>2, <3>1 DEF KeepsVacant
    <3>2. CASE now # kind
      BY <2>1, <2>2, <3>2, SwapHiddenShape DEF Shape
    <3> QED  BY <3>1, <3>2
  <2>4. KeepsVacant(rt.slot, rt'.slot)
    BY <2>2, <2>3 DEF KeepsVacant
  <2> QED  BY <1>0, <2>1, <2>3, <2>4, SameBegun
<1> QED  BY <1>1, <1>2, <1>3, <1>4, <1>5, <1>6, <1>7 DEF Command

\* Taking an event from the channel moves no pane.
LEMMA PoppedShape ==
    ASSUME StOK(st), Fits(rt), Shape(rt, st.occupant), rt.ch # <<>>
    PROVE  /\ Fits(Popped) /\ Shape(Popped, st.occupant)
           /\ Popped.slot = rt.slot /\ Head(rt.ch) \in Event
<1>1. Fits(Popped) /\ Head(rt.ch) \in Event
  BY PoppedType DEF Fits
<1>2. /\ Popped.slot = rt.slot /\ Popped.act = rt.act
      /\ Popped.resident = rt.resident
  BY DEF Popped, Fits, RtType
<1> QED  BY <1>1, <1>2, ShapeSame

LEMMA HandleEventShape ==
    ASSUME ResidencyInv, HandleEvent
    PROVE  Shape(rt', st'.occupant) /\ Begun'
<1>0. StOK(st) /\ Fits(rt) /\ RestOK /\ Begun /\ Shape(rt, st.occupant)
  BY TypeParts DEF ResidencyInv
<1> DEFINE e == Head(rt.ch)
<1>a. rt.ch # <<>>
  BY DEF HandleEvent, HandlePaneSpawned, HandleSpawnFailed,
         HandleWindowVanished, HandlePaneDied, Next1
<1>b. /\ Fits(Popped) /\ Shape(Popped, st.occupant)
      /\ Popped.slot = rt.slot /\ e \in Event
  BY <1>0, <1>a, PoppedShape
<1>c. KeepsVacant(rt.slot, Popped.slot)
  BY <1>b DEF KeepsVacant
<1>1. ASSUME HandlePaneSpawned
      PROVE  Shape(rt', st'.occupant) /\ Begun'
  <2> DEFINE r == [Popped EXCEPT !.panes = @ \cup {e.frame}]
  <2>1. CASE Owns(st.sess[e.sess], e.frame)
    <3>1. e.sess \in Session /\ e.frame \in Frame
      BY <1>1, <1>b, EventFields DEF HandlePaneSpawned, Next1
    <3>2. Fits(r) /\ r.slot = rt.slot /\ r.act = Popped.act
          /\ r.resident = Popped.resident
      BY <1>b, <3>1 DEF Fits, RtType
    <3>3. /\ st' = Focus(e.sess)
          /\ rt' = ActivateSession(EnsureMainAtVisibleSlot(r), st.sess, e.sess)
          /\ reply' = [reply EXCEPT ![e.frame] = "ok"]
          /\ UNCHANGED <<spawning, pending>>
      BY <1>1, <2>1 DEF HandlePaneSpawned
    <3> HIDE DEF r, e
    <3>4. st'.occupant = "frame" /\ st.sess \in [Session -> SessionRec]
      BY <1>0, <3>3 DEF Focus, StOK, StType
    <3>5. Shape(r, st.occupant)
      BY <1>b, <3>2, ShapeSame
    <3>6. Shape(rt', "frame") /\ KeepsVacant(rt.slot, rt'.slot)
      BY <3>1, <3>2, <3>3, <3>4, <3>5, ShowShape
    <3>7. \A f \in Frame : /\ reply'[f] = "none" => reply[f] = "none"
                           /\ pending'[f].sess = pending[f].sess
      BY <1>0, <3>3 DEF RestOK
    <3>8. Begun'
      BY <1>0, <3>3, <3>6, <3>7, BegunKept
    <3> QED  BY <3>4, <3>6, <3>8
  <2>2. CASE ~Owns(st.sess[e.sess], e.frame)
    <3>1. rt' = Popped /\ UNCHANGED <<st, reply, spawning, pending>>
      BY <1>1, <2>2 DEF HandlePaneSpawned
    <3> QED  BY <1>0, <1>b, <1>c, <3>1, SameBegun
  <2> QED  BY <2>1, <2>2
<1>2. ASSUME HandleSpawnFailed
      PROVE  Shape(rt', st'.occupant) /\ Begun'
  <2>1. /\ st'.occupant = st.occupant
        /\ rt' = Popped
        /\ reply' = [reply EXCEPT ![e.frame] = "error"]
        /\ UNCHANGED <<spawning, pending>>
    BY <1>0, <1>2 DEF HandleSpawnFailed, StOK, StType
  <2>2. \A f \in Frame : /\ reply'[f] = "none" => reply[f] = "none"
                         /\ pending'[f].sess = pending[f].sess
    BY <1>0, <2>1 DEF RestOK
  <2>3. Begun'
    BY <1>0, <1>c, <2>1, <2>2, BegunKept
  <2> QED  BY <1>b, <2>1, <2>3
<1>3. ASSUME HandleWindowVanished
      PROVE  Shape(rt', st'.occupant) /\ Begun'
  <2>1. e.frame \in Frame
    BY <1>3, <1>b, EventFields DEF HandleWindowVanished, Next1
  <2>2. /\ EvictFrame(e.frame, Popped, FALSE)
        /\ UNCHANGED <<spawning, pending, reply>>
    BY <1>3 DEF HandleWindowVanished
  <2>3. Shape(rt', st'.occupant) /\ KeepsVacant(rt.slot, rt'.slot)
    BY <1>0, <1>b, <2>1, <2>2, EvictFrameShape
  <2> QED  BY <1>0, <2>2, <2>3, SameBegun
<1>4. ASSUME HandlePaneDied
      PROVE  Shape(rt', st'.occupant) /\ Begun'
  <2> DEFINE owner ==
        IF e.frame # None THEN e.frame
        ELSE IF st.focus # None /\ st.focus \in Live(st.sess)
             THEN ActiveFrame(st.sess[st.focus]) ELSE None
  <2>1. e.frame \in Frame \cup {None}
    BY <1>4, <1>b, EventFields DEF HandlePaneDied, Next1
  <2>2. owner \in Frame \cup {None}
    <3>1. ASSUME st.focus \in Live(st.sess)
          PROVE  ActiveFrame(st.sess[st.focus]) \in Frame
      <4>1. st.focus \in Session
        BY <3>1 DEF Live
      <4> QED  BY <1>0, <3>1, <4>1, SessionOfMap, ActiveFrameType
    <3> QED  BY <2>1, <3>1
  <2>3. UNCHANGED <<spawning, pending, reply>>
    BY <1>4 DEF HandlePaneDied
  <2>4. \/ st' = st /\ rt' = Popped
        \/ owner # None /\ EvictFrame(owner, Popped, TRUE)
    BY <1>4 DEF HandlePaneDied, Respawn
  <2> HIDE DEF owner
  <2>5. CASE st' = st /\ rt' = Popped
    BY <1>0, <1>b, <1>c, <2>3, <2>5, SameBegun
  <2>6. CASE owner # None /\ EvictFrame(owner, Popped, TRUE)
    <3>1. Shape(rt', st'.occupant) /\ KeepsVacant(rt.slot, rt'.slot)
      BY <1>0, <1>b, <2>2, <2>6, EvictFrameShape
    <3> QED  BY <1>0, <2>3, <3>1, SameBegun
  <2> QED  BY <2>4, <2>5, <2>6
<1> QED  BY <1>1, <1>2, <1>3, <1>4 DEF HandleEvent

\* An event put into the channel moves no pane.
LEMMA EnqueuedShape ==
    ASSUME ResidencyInv, NEW evs \in Seq(Event), rt' = Enqueue(rt, evs),
           UNCHANGED <<st, spawning, pending, reply>>
    PROVE  Shape(rt', st'.occupant) /\ Begun'
<1>1. rt \in RtType /\ Shape(rt, st.occupant) /\ Begun
  BY DEF ResidencyInv, TypeOK
<1>2. Shape(rt', st.occupant) /\ rt'.slot = rt.slot
  BY <1>1, EnqueueShape
<1>3. KeepsVacant(rt.slot, rt'.slot)
  BY <1>2 DEF KeepsVacant
<1> QED  BY <1>1, <1>2, <1>3, SameBegun

\* The new window is put where nothing was, and its frame is spawned no more.
LEMMA SpawnedShape ==
    ASSUME ResidencyInv, NEW f \in Frame, spawning[f] # None,
           NEW w \in {f, None}, NEW e \in Event,
           rt' = Enqueue([rt EXCEPT !.slot[f] = w], <<e>>),
           StartSpawn(None, f), UNCHANGED <<st, pending, reply>>
    PROVE  Shape(rt', st'.occupant) /\ Begun'
<1>0. Fits(rt) /\ RestOK /\ Begun /\ Shape(rt, st.occupant) /\ rt \in RtType
      /\ st'.occupant = st.occupant
  BY TypeParts DEF ResidencyInv, Fits
<1> DEFINE slot == [rt.slot EXCEPT ![f] = w]
           r == [rt EXCEPT !.slot = slot]
<1>1. Vacant(rt.slot, f) /\ pending[f].sess = None /\ reply[f] # "none"
  BY <1>0 DEF Begun, Unspawned
<1>2. /\ slot \in [Pane -> Pane \cup {None}]
      /\ \A v \in Pane : slot[v] = IF v = f THEN w ELSE rt.slot[v]
  BY <1>0, PaneFacts DEF RtType
<1>3. /\ r \in RtType /\ r.slot = slot /\ r.act = rt.act
      /\ r.resident = rt.resident /\ [rt EXCEPT !.slot[f] = w] = r
  <2> HIDE DEF slot
  <2>1. r \in RtType /\ r.slot = slot /\ r.act = rt.act
        /\ r.resident = rt.resident
    BY <1>0, <1>2 DEF RtType
  <2>2. [rt EXCEPT !.slot[f] = w] = r
    BY <1>0 DEF RtType, slot
  <2> QED  BY <2>1, <2>2
<1> HIDE DEF slot, r
<1>4. Shape(r, st.occupant)
  <2>1. OneSlot(slot)
    BY <1>0, <1>1, <1>2 DEF Shape, OneSlot, Vacant, Placed
  <2>2. Placed(slot, Main) /\ Placed(slot, Log)
    BY <1>0, <1>1, <1>2, PaneFacts DEF Shape, Vacant, Placed
  <2>3. slot[Main] = rt.slot[Main] /\ slot[Log] = rt.slot[Log]
    BY <1>2, PaneFacts
  <2> QED  BY <1>0, <1>3, <2>1, <2>2, <2>3 DEF Shape
<1>5. <<e>> \in Seq(Event)
  OBVIOUS
<1>6. Shape(rt', st.occupant) /\ rt'.slot = slot
  BY <1>3, <1>4, <1>5, EnqueueShape
<1>7. ASSUME NEW g \in Frame
      PROVE  /\ Unspawned(g)' => Vacant(rt'.slot, g)
             /\ spawning'[g] # None => pending'[g].sess = None
             /\ reply'[g] = "none" =>
                  spawning'[g] = None /\ pending'[g].sess = None
  <2>1. /\ spawning'[g] = IF g = f THEN None ELSE spawning[g]
        /\ pending'[g] = pending[g] /\ reply'[g] = reply[g]
    BY <1>0 DEF StartSpawn, RestOK
  <2>2. g # f /\ Vacant(rt.slot, g) => Vacant(slot, g)
    BY <1>2, PaneFacts DEF Vacant, Placed
  <2> QED  BY <1>0, <1>1, <1>6, <2>1, <2>2 DEF Begun, Unspawned
<1> QED  BY <1>0, <1>6, <1>7 DEF Begun, Unspawned, Vacant, Placed

LEMMA BackgroundShape ==
    ASSUME ResidencyInv, Background
    PROVE  Shape(rt', st'.occupant) /\ Begun'
<1>0. StOK(st) /\ Fits(rt) /\ RestOK /\ Begun /\ Shape(rt, st.occupant)
  BY TypeParts DEF ResidencyInv
<1>a. rt' = rt => KeepsVacant(rt.slot, rt'.slot)
  BY DEF KeepsVacant
<1>1. ASSUME NEW f \in Frame, JobSucceeds(f)
      PROVE  Shape(rt', st'.occupant) /\ Begun'
  <2> DEFINE p == pending[f]
  <2>1. /\ p.sess # None
        /\ st'.occupant = st.occupant
        /\ StartSpawn(p.sess, f) /\ PutAside(f, None, NoSession)
        /\ UNCHANGED <<rt, reply>>
    BY <1>0, <1>1 DEF JobSucceeds, StOK, StType
  <2>2. ASSUME NEW g \in Frame
        PROVE  /\ Unspawned(g)' => Vacant(rt'.slot, g)
               /\ spawning'[g] # None => pending'[g].sess = None
               /\ reply'[g] = "none" =>
                    spawning'[g] = None /\ pending'[g].sess = None
    <3>1. CASE g = f
      <4>1. Vacant(rt.slot, f) /\ reply[f] # "none"
        BY <1>0, <2>1 DEF Begun, Unspawned
      <4>2. pending'[f].sess = None
        BY <1>0, <2>1 DEF PutAside, RestOK
      <4> QED  BY <2>1, <3>1, <4>1, <4>2
    <3>2. CASE g # f
      <4>1. spawning'[g] = spawning[g] /\ pending'[g] = pending[g]
        BY <1>0, <2>1, <3>2 DEF StartSpawn, PutAside, RestOK
      <4> QED  BY <1>0, <2>1, <4>1 DEF Begun, Unspawned
    <3> QED  BY <3>1, <3>2
  <2>3. Begun'
    BY <2>2 DEF Begun, Unspawned, Vacant, Placed
  <2> QED  BY <1>0, <2>1, <2>3
<1>2. ASSUME NEW f \in Frame, JobFails(f)
      PROVE  Shape(rt', st'.occupant) /\ Begun'
  <2>1. /\ PutAside(f, None, NoSession)
        /\ reply' = [reply EXCEPT ![f] = "error"]
        /\ UNCHANGED <<st, rt, spawning>>
    BY <1>2 DEF JobFails
  <2>2. ASSUME NEW g \in Frame
        PROVE  /\ pending'[g].sess \in {None, pending[g].sess}
               /\ reply'[g] = "none" => reply[g] = "none"
    BY <1>0, <2>1 DEF PutAside, RestOK
  <2> QED  BY <1>0, <1>a, <2>1, <2>2, BegunKept
<1>3. ASSUME NEW f \in Frame, SpawnWindow(f)
      PROVE  Shape(rt', st'.occupant) /\ Begun'
  <2>1. spawning[f] \in Session /\ spawning[f] # None
    BY <1>0, <1>3 DEF SpawnWindow, RestOK
  <2>2. Spawned(spawning[f], f) \in Event
    BY <2>1, EventTypes
  <2> QED  BY <1>3, <2>1, <2>2, SpawnedShape DEF SpawnWindow
<1>4. ASSUME NEW f \in Frame, SpawnWindowFails(f)
      PROVE  Shape(rt', st'.occupant) /\ Begun'
  <2>1. spawning[f] \in Session /\ spawning[f] # None
    BY <1>0, <1>4 DEF SpawnWindowFails, RestOK
  <2>2. SpawnFailed(spawning[f], f) \in Event
    BY <2>1, EventTypes
  <2>3. PICK w \in {f, None} :
          rt' = Enqueue([rt EXCEPT !.slot[f] = w],
                        <<SpawnFailed(spawning[f], f)>>)
    BY <1>4 DEF SpawnWindowFails
  <2> QED  BY <1>4, <2>1, <2>2, <2>3, SpawnedShape DEF SpawnWindowFails
<1>5. ASSUME EveryTick \/ FifthTick
      PROVE  Shape(rt', st'.occupant) /\ Begun'
  <2>1. PICK evs \in Seq(Event) :
          /\ rt' = Enqueue(rt, evs)
          /\ UNCHANGED <<st, spawning, pending, reply, born>> /\ Idle
    BY <1>5, TicksEnqueue DEF ResidencyInv
  <2> QED  BY <2>1, EnqueuedShape
<1>6. ASSUME ProbeStart \/ ProbeRead
      PROVE  Shape(rt', st'.occupant) /\ Begun'
  BY <1>0, <1>6, <1>a, SameBegun DEF ProbeStart, ProbeRead
<1>7. ASSUME ProbeReport
      PROVE  Shape(rt', st'.occupant) /\ Begun'
  <2>1. Died(Main, probe.owner) \in Event
    BY <1>0, EventTypes DEF RestOK
  <2>2. <<Died(Main, probe.owner)>> \in Seq(Event)
    BY <2>1
  <2> QED  BY <1>7, <2>2, EnqueuedShape DEF ProbeReport
<1> QED  BY <1>1, <1>2, <1>3, <1>4, <1>5, <1>6, <1>7 DEF Background

\* A TUI dies in a slot that keeps the dead pane; any other window that goes
\* is that of a frame not in 0.1.
LEMMA ProcessExitShape ==
    ASSUME ResidencyInv, ParkedMainExits = FALSE, NEW p \in Pane, ProcessExit(p)
    PROVE  Shape(rt', st'.occupant) /\ Begun'
<1>0. Fits(rt) /\ RestOK /\ Begun /\ Shape(rt, st.occupant) /\ rt \in RtType
  BY TypeParts DEF ResidencyInv, Fits
<1>1. UNCHANGED <<st, spawning, pending, reply>>
  BY DEF ProcessExit
<1>2. CASE rt' = rt
  BY <1>0, <1>1, <1>2, SameBegun DEF KeepsVacant
<1>3. CASE rt' # rt
  <2> DEFINE slot == [w \in Pane |-> IF rt.slot[w] = p THEN None
                                     ELSE rt.slot[w]]
  <2>1. /\ rt' = [rt EXCEPT !.slot = slot]
        /\ p # rt.slot[Main] /\ p # rt.slot[Log]
        /\ p = Main => Main \in {rt.slot[Main], rt.slot[Log]}
    BY <1>3 DEF ProcessExit
  <2>2. Log \in {rt.slot[Main], rt.slot[Log]}
    BY <1>0 DEF Shape, ResidencyInv
  <2>3. p \in Frame
    BY <2>1, <2>2 DEF Pane
  <2>4. \A w \in Pane : slot[w] = IF rt.slot[w] = p THEN None ELSE rt.slot[w]
    OBVIOUS
  <2>5. rt'.slot = slot /\ rt'.act = rt.act /\ rt'.resident = rt.resident
    BY <1>0, <2>1 DEF RtType
  <2> HIDE DEF slot
  <2>6. OneSlot(slot)
    BY <1>0, <2>4 DEF Shape, OneSlot
  <2>7. Placed(slot, Main) /\ Placed(slot, Log)
    BY <1>0, <2>3, <2>4, PaneFacts DEF Shape, Placed
  <2>8. slot[Main] = rt.slot[Main] /\ slot[Log] = rt.slot[Log]
    BY <2>1, <2>4, PaneFacts
  <2>9. Shape(rt', st'.occupant)
    BY <1>0, <1>1, <2>5, <2>6, <2>7, <2>8 DEF Shape
  <2>10. KeepsVacant(rt.slot, rt'.slot)
    BY <2>4, <2>5, PaneFacts DEF KeepsVacant, Vacant, Placed
  <2> QED  BY <1>0, <1>1, <2>9, <2>10, SameBegun
<1> QED  BY <1>2, <1>3

(***************************************************************************)
(* The theorems.                                                           *)
(***************************************************************************)

LEMMA InitResidency == Init => ResidencyInv
<1> SUFFICES ASSUME Init PROVE ResidencyInv
  OBVIOUS
<1>1. \A w \in Pane : rt.slot[w] = IF w \in {Main, Log} THEN w ELSE None
  BY DEF Init
<1>2. rt.act = None /\ rt.resident = None /\ st.occupant = "main"
  BY DEF Init
<1>3. Shape(rt, st.occupant)
  BY <1>1, <1>2, PaneFacts DEF Shape, OneSlot, Placed
<1>4. \A f \in Frame : Vacant(rt.slot, f)
  BY <1>1, PaneFacts DEF Vacant, Placed
<1>5. \A f \in Frame : spawning[f] = None /\ pending[f].sess = None
  BY DEF Init
<1> QED  BY <1>3, <1>4, <1>5, InitType DEF ResidencyInv, Begun

\* The inductive invariant, for every step of the system.
LEMMA NextResidency ==
    ASSUME ParkedMainExits = FALSE, ResidencyInv, [Next]_vars
    PROVE  ResidencyInv'
<1>0. TypeOK
  BY DEF ResidencyInv
<1>1. CASE HandleEvent
  BY <1>0, <1>1, HandleEventType, HandleEventShape DEF ResidencyInv, Shape,
     OneSlot, Placed
<1>2. CASE Command
  BY <1>0, <1>2, CommandType, CommandShape DEF ResidencyInv, Shape, OneSlot,
     Placed
<1>3. CASE Background
  BY <1>0, <1>3, BackgroundType, BackgroundShape DEF ResidencyInv, Shape,
     OneSlot, Placed
<1>4. ASSUME NEW p \in Pane, ProcessExit(p)
      PROVE  ResidencyInv'
  BY <1>0, <1>4, ProcessExitType, ProcessExitShape DEF ResidencyInv, Shape,
     OneSlot, Placed
<1>5. CASE UNCHANGED vars
  BY <1>5 DEF vars, ResidencyInv, TypeOK, Shape, OneSlot, Placed, Begun,
     Unspawned, Vacant
<1> QED  BY <1>1, <1>2, <1>3, <1>4, <1>5 DEF Next

\* The three facts below hold of every reachable state when the main TUI never
\* exits while it is parked in a frame's window.
LEMMA ResidencyInvariant ==
    ASSUME ParkedMainExits = FALSE
    PROVE  Spec => []ResidencyInv
<1>1. Init => ResidencyInv
  BY InitResidency
<1>2. ResidencyInv /\ [Next]_vars => ResidencyInv'
  BY NextResidency
<1> QED  BY <1>1, <1>2, PTL DEF Spec

\* mainPaneSession and activeFrameID tell the truth: the frame recorded as
\* resident is the pane in 0.1, and when none is recorded a TUI is there
\* (activateSession, deactivateSession and swapHidden in runtime/interpret.go).
THEOREM ResidentTheorem ==
    ASSUME ParkedMainExits = FALSE
    PROVE  Spec => []ResidentTruth
<1>1. ResidencyInv => ResidentTruth
  BY ShapeGives DEF ResidencyInv
<1> QED  BY <1>1, ResidencyInvariant, PTL

\* ActiveOccupant tells which TUI is in 0.1 and which in __hidden__.0, so
\* reducePaneDied respawns the right program and swapHidden is its own inverse.
THEOREM OccupantTheorem ==
    ASSUME ParkedMainExits = FALSE
    PROVE  Spec => []OccupantTruth
<1>1. ResidencyInv => OccupantTruth
  BY ShapeGives DEF ResidencyInv
<1> QED  BY <1>1, ResidencyInvariant, PTL

\* No order of swaps, kills, spawns and exits loses a TUI, puts a pane into two
\* slots or empties 0.1: the single-Main constraint of docs/process-model.md.
THEOREM OnePlaceTheorem ==
    ASSUME ParkedMainExits = FALSE
    PROVE  Spec => []OnePlace
<1>1. ResidencyInv => OnePlace
  BY ShapeGives DEF ResidencyInv
<1> QED  BY <1>1, ResidencyInvariant, PTL

(***************************************************************************)
(* What the focus names, which frames have panes, and what pane 0.1 comes  *)
(* to show, for any number of sessions and frames.                         *)
(*                                                                         *)
(* FocusValid only needs that no window is refused.  The other two also    *)
(* need that no setup job brings a session back and that the event channel *)
(* never overflows.  It does not when it is as long as a tick's reports    *)
(* and one event for every frame (RoomAssumption): Orderly says how long   *)
(* it may get, since a frame that is still to be spawned adds its event    *)
(* later, and only then may be reported by a tick.                         *)
(*                                                                         *)
(* A session of Orderly is seen by the set of its frames and its active    *)
(* frame, the channel by the set of events in it.                          *)
(***************************************************************************)

\* The other effects leave the channel, and register nothing.
LEMMA EffectsAre ==
    ASSUME NEW r, Fits(r)
    PROVE  /\ EnsureMainAtVisibleSlot(r).panes = r.panes /\ EnsureMainAtVisibleSlot(r).ch = r.ch
           /\ EnsureMainAtVisibleSlot(r).act = r.act
           /\ SwapHidden(r).panes = r.panes /\ SwapHidden(r).ch = r.ch
           /\ DeactivateSession(r).panes = r.panes /\ DeactivateSession(r).ch = r.ch
<1>0. r \in RtType
  BY DEF Fits
<1>1. SwapHidden(r).panes = r.panes /\ SwapHidden(r).ch = r.ch /\ SwapHidden(r).act = r.act
  BY <1>0 DEF SwapHidden, RtType
<1>2. /\ EnsureMainAtVisibleSlot(r).panes = r.panes /\ EnsureMainAtVisibleSlot(r).ch = r.ch
      /\ EnsureMainAtVisibleSlot(r).act = r.act
  BY <1>1 DEF EnsureMainAtVisibleSlot
<1>3. DeactivateSession(r).panes = r.panes /\ DeactivateSession(r).ch = r.ch
  BY <1>0 DEF DeactivateSession, RtType
<1> QED  BY <1>1, <1>2, <1>3

LEMMA ForgetIs ==
    ASSUME NEW r, Fits(r), NEW F, NEW kill
    PROVE  /\ Forget(r, F, kill).panes = r.panes \ F
           /\ Forget(r, F, kill).ch = r.ch /\ Forget(r, F, kill).act = r.act
<1> DEFINE slot == IF kill THEN KillPaneWindows(r.slot, F \cap r.panes) ELSE r.slot
           panes == r.panes \ F
<1>1. Forget(r, F, kill) = [r EXCEPT !.slot = slot, !.panes = panes]
  BY DEF Forget
<1> HIDE DEF slot
<1> QED  BY <1>1 DEF Fits, RtType

-----------------------------------------------------------------------------
(* The focus.                                                              *)

Reports == ToSet(rt.ch)

\* No window was refused, and jobs bring back sessions, not empty ones.
FocusInv ==
    /\ FocusValid
    /\ \A e \in Reports : e.type # "spawnFailed"
    /\ \A f \in Frame : pending[f].sess # None => pending[f].snap.frames # <<>>

LEMMA StepFacts == ASSUME TypeOK PROVE StOK(st) /\ Fits(rt) /\ RestOK /\ rt.ch \in Seq(Event) /\ rt \in RtType
  BY TypeParts DEF Fits, RtType

\* What each event handler takes from the channel.
LEMMA PoppedIs ==
    ASSUME TypeOK, rt.ch # <<>>
    PROVE  /\ Fits(Popped) /\ Head(rt.ch) \in Event /\ Head(rt.ch) \in Reports
           /\ Popped.panes = rt.panes /\ Popped.act = rt.act /\ Popped.ch = Tail(rt.ch)
           /\ Reports = {Head(rt.ch)} \cup ToSet(Tail(rt.ch))
           /\ Len(Tail(rt.ch)) = Len(rt.ch) - 1 /\ Tail(rt.ch) \in Seq(Event)
           /\ Len(Popped.ch) < QueueCap
<1>1. rt \in RtType /\ rt.ch \in Seq(Event) /\ Len(rt.ch) <= QueueCap
  BY StepFacts DEF Fits
<1>2. Fits(Popped) /\ Head(rt.ch) \in Event
  BY <1>1, PoppedType
<1>3. Reports = {Head(rt.ch)} \cup ToSet(Tail(rt.ch)) /\ Len(Tail(rt.ch)) = Len(rt.ch) - 1
  BY <1>1, TailSet DEF Reports
<1> DEFINE q == Tail(rt.ch)
<1>4. Popped = [rt EXCEPT !.ch = q]
  BY DEF Popped
<1>5. q \in Seq(Event)
  BY <1>1, HeadTailProperties
<1> HIDE DEF q
<1>6. Popped.panes = rt.panes /\ Popped.act = rt.act /\ Popped.ch = q
  BY <1>1, <1>4 DEF RtType
<1>7. Len(rt.ch) \in Nat /\ QueueCap \in Nat
  BY <1>1, ConstantsAssumption
<1>8. Len(q) < QueueCap
  BY <1>1, <1>3, <1>7 DEF q
<1> QED  BY <1>2, <1>3, <1>5, <1>6, <1>8 DEF q

\* Focus and Dropped, field by field.
LEMMA FocusIs ==
    ASSUME StOK(st), NEW s \in Session
    PROVE  /\ Focus(s).sess = st.sess /\ Focus(s).focus = s /\ Focus(s).occupant = "frame"
           /\ Dropped(s).sess[s] = NoSession
           /\ \A t \in Session : t # s => Dropped(s).sess[t] = st.sess[t]
           /\ Dropped(s).focus = IF st.focus = s THEN None ELSE st.focus
           /\ Dropped(s).occupant = IF st.focus = s /\ st.occupant = "frame" THEN "main" ELSE st.occupant
  BY DEF StOK, StType, Focus, Dropped

\* A session gets a new value, in the state or in one with another focus.
LEMMA SessionIs ==
    ASSUME NEW x, StOK(x), NEW s \in Session, NEW y, st' = [x EXCEPT !.sess[s] = y]
    PROVE  /\ st'.sess[s] = y /\ \A t \in Session : t # s => st'.sess[t] = x.sess[t]
           /\ st'.focus = x.focus /\ st'.occupant = x.occupant
  BY DEF StOK, StType

\* What removing a session does to the runtime.
LEMMA RemoveSessionIs ==
    ASSUME NEW s \in Session, NEW r, Fits(r), NEW kill, RemoveSession(s, r, kill)
    PROVE  /\ rt'.ch = r.ch /\ rt'.panes = r.panes \ ToSet(st.sess[s].frames)
           /\ ~(st.focus = s /\ st.occupant = "frame") => rt'.act = r.act
<1> DEFINE q == IF st.focus = s /\ st.occupant = "frame" THEN DeactivateSession(r) ELSE r
           F == ToSet(st.sess[s].frames)
<1>1. Fits(q) /\ q.ch = r.ch /\ q.panes = r.panes
  BY DeactivateSessionType, EffectsAre
<1>2. ~(st.focus = s /\ st.occupant = "frame") => q = r
  OBVIOUS
<1>3. rt' = Forget(q, F, kill)
  BY DEF RemoveSession
<1> HIDE DEF q, F
<1>4. rt'.ch = q.ch /\ rt'.panes = q.panes \ F /\ rt'.act = q.act
  BY <1>1, <1>3, ForgetIs
<1> QED  BY <1>1, <1>2, <1>4 DEF F

\* What an eviction makes of the state.
Evicted(f, r, kill) ==
    \/ /\ \A s \in Session : ~Owns(st.sess[s], f)
       /\ st' = st /\ rt' = r
    \/ \E s \in Session : /\ Owns(st.sess[s], f) /\ st.sess[s].frames[1] = f
                          /\ RemoveSession(s, r, kill)
    \/ \E s \in Session : \E x \in {Focus(s), st} :
         /\ Owns(st.sess[s], f) /\ st.sess[s].frames[1] # f
         /\ st' = [x EXCEPT !.sess[s] = Without(st.sess[s], f)]
         /\ IF st.focus = s /\ st.sess[s].act = f
            THEN /\ x = Focus(s)
                 /\ rt' = Forget(ActivateSession(EnsureMainAtVisibleSlot(r), st'.sess, s), {f}, kill)
            ELSE x = st /\ rt' = Forget(r, {f}, kill)

LEMMA EvictIs ==
    ASSUME TypeOK, NEW f \in Frame, NEW r, Fits(r), NEW kill, EvictFrame(f, r, kill)
    PROVE  Evicted(f, r, kill)
<1>1. ASSUME NEW s \in Session, Owns(st.sess[s], f), st.sess[s].frames[1] # f,
             LET y == Without(st.sess[s], f)
                 reshow == st.focus = s /\ st.sess[s].act = f
             IN  /\ st' = [(IF reshow THEN Focus(s) ELSE st) EXCEPT !.sess[s] = y]
                 /\ rt' = Forget(IF reshow
                                 THEN ActivateSession(EnsureMainAtVisibleSlot(r), st'.sess, s)
                                 ELSE r, {f}, kill)
      PROVE  \E x \in {Focus(s), st} :
                /\ st' = [x EXCEPT !.sess[s] = Without(st.sess[s], f)]
                /\ IF st.focus = s /\ st.sess[s].act = f
                   THEN /\ x = Focus(s)
                        /\ rt' = Forget(ActivateSession(EnsureMainAtVisibleSlot(r), st'.sess, s), {f}, kill)
                   ELSE x = st /\ rt' = Forget(r, {f}, kill)
  BY <1>1
<1> QED  BY <1>1 DEF EvictFrame, Evicted

LEMMA EvictFocus ==
    ASSUME TypeOK, FocusValid, NEW f \in Frame, NEW r, Fits(r), NEW kill, EvictFrame(f, r, kill)
    PROVE  FocusValid'
<1>0. StOK(st)
  BY StepFacts
<1>1. CASE st' = st
  BY <1>1 DEF FocusValid, Live
<1>2. ASSUME NEW s \in Session, RemoveSession(s, r, kill)
      PROVE  FocusValid'
  <2>1. st' = Dropped(s)
    BY <1>2 DEF RemoveSession
  <2> QED  BY <1>0, <2>1, FocusIs DEF FocusValid, Live
<1>3. ASSUME NEW s \in Session, Owns(st.sess[s], f), st.sess[s].frames[1] # f,
             NEW x \in {Focus(s), st}, st' = [x EXCEPT !.sess[s] = Without(st.sess[s], f)]
      PROVE  FocusValid'
  <2>1. SessionOK(st.sess[s])
    BY <1>0, SessionOfMap
  <2>2. Without(st.sess[s], f).frames # <<>>
    BY <1>3, <2>1, WithoutLeaves
  <2>3. StOK(x) /\ x.sess = st.sess
    BY <1>0, <1>3, FocusType
  <2> DEFINE y == Without(st.sess[s], f)
  <2>4. /\ st'.sess[s] = y /\ \A t \in Session : t # s => st'.sess[t] = x.sess[t]
        /\ st'.focus = x.focus /\ st'.occupant = x.occupant
    BY <1>3, <2>3, SessionIs
  <2>5. x.focus \in {s, st.focus} /\ (x.occupant = st.occupant \/ x.focus = s) /\ (x.focus = st.focus \/ x.focus = s)
    BY <1>0, <1>3, FocusIs
  <2>6. s # None
    BY ConstantsAssumption
  <2> HIDE DEF y
  <2> QED  BY <1>0, <1>3, <2>2, <2>3, <2>4, <2>5, <2>6, FocusIs DEF FocusValid, Live, y
<1> QED  BY <1>1, <1>2, <1>3, EvictIs DEF Evicted

\* A tick's reports: two at most of panes 0.1 and __hidden__.0, and one for
\* every dead frame that is parked.
LEMMA TickIs ==
    ASSUME TypeOK, NEW fifth, NEW n \in Nat, NEW order \in [1 .. n -> Frame], Tick(fifth, order)
    PROVE  \E evs \in Seq(Event) :
             /\ rt' = Enqueue(rt, evs) /\ Len(evs) <= 2 + n
             /\ \A e \in ToSet(evs) : e.type \in {"died", "vanished"}
             /\ Room /\ UNCHANGED <<st, spawning, pending, reply, born>>
<1>0. rt.act \in Frame \cup {None}
  BY StepFacts DEF RtType
<1> DEFINE shown == IF Dead(Main) THEN <<Died(Main, rt.act)>> ELSE <<>>
           hidden == IF fifth /\ Dead(Log) THEN <<Died(Log, None)>> ELSE <<>>
           gone == [i \in DOMAIN order |-> Vanished(order[i])]
           Report(E) == \A e \in E : e.type \in {"died", "vanished"}
<1>1. shown \in Seq(Event) /\ Len(shown) <= 1 /\ Report(ToSet(shown))
  <2>1. Died(Main, rt.act) \in Event /\ Died(Main, rt.act).type = "died"
    BY <1>0, EventTypes DEF Died
  <2> DEFINE d == Died(Main, rt.act)
  <2>2. <<d>> \in Seq(Event) /\ Len(<<d>>) = 1 /\ ToSet(<<d>>) = {d}
    BY <2>1, OneEvent
  <2>3. <<>> \in Seq(Event) /\ Len(<<>>) = 0 /\ ToSet(<<>>) = {}
    BY DEF ToSet
  <2> QED  BY <2>1, <2>2, <2>3
<1>2. hidden \in Seq(Event) /\ Len(hidden) <= 1 /\ Report(ToSet(hidden))
  <2>1. Died(Log, None) \in Event /\ Died(Log, None).type = "died"
    BY EventTypes DEF Died
  <2> DEFINE d == Died(Log, None)
  <2>2. <<d>> \in Seq(Event) /\ Len(<<d>>) = 1 /\ ToSet(<<d>>) = {d}
    BY <2>1, OneEvent
  <2>3. <<>> \in Seq(Event) /\ Len(<<>>) = 0 /\ ToSet(<<>>) = {}
    BY DEF ToSet
  <2> QED  BY <2>1, <2>2, <2>3
<1>3. gone \in Seq(Event) /\ Len(gone) = n /\ Report(ToSet(gone))
  <2>1. gone \in [1 .. n -> Event] /\ \A i \in 1 .. n : gone[i].type = "vanished"
    BY EventTypes DEF Vanished
  <2> HIDE DEF gone
  <2>2. gone \in Seq(Event) /\ Len(gone) = n /\ DOMAIN gone = 1 .. n
    BY <2>1
  <2> QED  BY <2>1, <2>2 DEF ToSet
<1>4. /\ rt' = Enqueue(rt, shown \o hidden \o gone)
      /\ Room /\ UNCHANGED <<st, spawning, pending, reply, born>>
  BY DEF Tick
<1> HIDE DEF shown, hidden, gone
<1> DEFINE a == shown \o hidden
           b == a \o gone
<1>5. a \in Seq(Event) /\ Len(a) = Len(shown) + Len(hidden) /\ ToSet(a) = ToSet(shown) \cup ToSet(hidden)
  BY <1>1, <1>2, ConcatProperties, ConcatSet
<1> HIDE DEF a
<1>6. b \in Seq(Event) /\ Len(b) = Len(a) + Len(gone) /\ ToSet(b) = ToSet(a) \cup ToSet(gone)
  <2>1. a \in Seq(Event) /\ gone \in Seq(Event)
    BY <1>3, <1>5
  <2>2. b \in Seq(Event) /\ Len(b) = Len(a) + Len(gone)
    BY <2>1, ConcatProperties
  <2>3. ToSet(b) = ToSet(a) \cup ToSet(gone)
    BY <2>1, ConcatSet
  <2> QED  BY <2>2, <2>3
<1> HIDE DEF b
<1>7. Len(shown) \in Nat /\ Len(hidden) \in Nat /\ Len(b) <= 2 + n
  BY <1>1, <1>2, <1>3, <1>5, <1>6
<1>8. Report(ToSet(b))
  BY <1>1, <1>2, <1>3, <1>5, <1>6
<1> QED  BY <1>4, <1>6, <1>7, <1>8 DEF a, b

LEMMA TicksAre ==
    ASSUME TypeOK, EveryTick \/ FifthTick
    PROVE  \E evs \in Seq(Event) :
             /\ rt' = Enqueue(rt, evs) /\ Len(evs) <= 2 + Cardinality(DeadParked)
             /\ \A e \in ToSet(evs) : e.type \in {"died", "vanished"}
             /\ Room /\ UNCHANGED <<st, spawning, pending, reply, born>>
<1>1. DeadParked \subseteq Frame
  BY StepFacts DEF DeadParked, RtType
<1>2. Cardinality(DeadParked) \in Nat
  BY <1>1, FS_Subset, FS_CardinalityType, ConstantsAssumption
<1>3. CASE EveryTick
  <2> DEFINE none == <<>>
  <2>0. none \in [1 .. 0 -> Frame]
    OBVIOUS
  <2>1. Tick(FALSE, none)
    BY <1>3 DEF EveryTick
  <2> HIDE DEF none
  <2>2. PICK evs \in Seq(Event) :
             /\ rt' = Enqueue(rt, evs) /\ Len(evs) <= 2 + 0
             /\ \A e \in ToSet(evs) : e.type \in {"died", "vanished"}
             /\ Room /\ UNCHANGED <<st, spawning, pending, reply, born>>
    BY <2>0, <2>1, TickIs
  <2>3. Len(evs) <= 2 + Cardinality(DeadParked)
    BY <1>2, <2>2
  <2> QED  BY <2>2, <2>3
<1>4. CASE FifthTick
  <2>1. PICK order \in SetToSeqs(DeadParked) : Tick(TRUE, order)
    BY <1>4 DEF FifthTick
  <2>2. order \in [1 .. Cardinality(DeadParked) -> DeadParked]
    BY <2>1 DEF SetToSeqs
  <2>3. order \in [1 .. Cardinality(DeadParked) -> Frame]
    BY <1>1, <2>2
  <2> QED  BY <1>2, <2>1, <2>3, TickIs
<1> QED  BY <1>3, <1>4

\* What any step may add to the channel.
LEMMA NoRefusals ==
    ASSUME TypeOK, ~SpawnMayFail, [Next]_vars
    PROVE  \A e \in Reports' : e \in Reports \/ e.type \in {"spawned", "died", "vanished"}
<1> DEFINE Good == \A e \in Reports' : e \in Reports \/ e.type \in {"spawned", "died", "vanished"}
<1>0. /\ StOK(st) /\ Fits(rt) /\ RestOK /\ rt \in RtType /\ rt.ch \in Seq(Event) /\ Len(rt.ch) <= QueueCap
      /\ st.sess \in [Session -> SessionRec]
  BY StepFacts DEF Fits, StOK, StType
<1>1. \A f : Vanished(f).type = "vanished"
  BY DEF Vanished
<1>2. ASSUME NEW r, Fits(r), ToSet(r.ch) \subseteq Reports, NEW sess \in [Session -> SessionRec],
             NEW s \in Session, sess[s].frames # <<>>, NEW F, NEW kill,
             rt'.ch = ActivateSession(EnsureMainAtVisibleSlot(r), sess, s).ch
      PROVE  Good
  <2> DEFINE q == EnsureMainAtVisibleSlot(r)
  <2>1. Fits(q) /\ q.ch = r.ch
    BY <1>2, SwapHiddenType, EffectsAre
  <2> HIDE DEF q
  <2>2. ToSet(ActivateSession(q, sess, s).ch) \subseteq ToSet(r.ch) \cup {Vanished(ActiveFrame(sess[s]))}
    BY <1>2, <2>1, ActivateIs
  <2> QED  BY <1>1, <1>2, <2>2 DEF Reports, q
<1>3. ASSUME NEW evs \in Seq(Event), NEW r \in RtType, r.ch = rt.ch, rt' = Enqueue(r, evs),
             \A e \in ToSet(evs) : e.type \in {"spawned", "died", "vanished"}
      PROVE  Good
  <2>1. ToSet(rt'.ch) \subseteq ToSet(rt.ch) \cup ToSet(evs)
    BY <1>0, <1>3, EnqueueSet
  <2> QED  BY <1>3, <2>1 DEF Reports
<1>4. CASE rt'.ch = rt.ch
  BY <1>4 DEF Reports
<1>5. ASSUME HandleEvent
      PROVE  Good
  <2>0. rt.ch # <<>>
    BY <1>5 DEF HandleEvent, HandlePaneSpawned, HandleSpawnFailed, HandleWindowVanished, HandlePaneDied, Next1
  <2>1. Fits(Popped) /\ ToSet(Popped.ch) \subseteq Reports /\ Popped.ch = Tail(rt.ch) /\ Head(rt.ch) \in Event
    BY <2>0, PoppedIs
  <2>2. CASE rt'.ch = Popped.ch
    BY <2>1, <2>2 DEF Reports
  <2>3. ASSUME NEW f \in Frame, NEW kill, EvictFrame(f, Popped, kill)
        PROVE  Good
    <3>1. ASSUME NEW s \in Session, RemoveSession(s, Popped, kill)
          PROVE  Good
      BY <2>1, <2>2, <3>1, RemoveSessionIs
    <3>2. ASSUME rt' = Forget(Popped, {f}, kill)
          PROVE  Good
      BY <2>1, <2>2, <3>2, ForgetIs
    <3>3. ASSUME NEW s \in Session, Owns(st.sess[s], f), st.sess[s].frames[1] # f,
                 st' = [Focus(s) EXCEPT !.sess[s] = Without(st.sess[s], f)],
                 rt' = Forget(ActivateSession(EnsureMainAtVisibleSlot(Popped), st'.sess, s), {f}, kill)
          PROVE  Good
      <4>1. SessionOK(st.sess[s]) /\ StOK(Focus(s)) /\ st.sess[s] \in SessionRec
        BY <1>0, SessionOfMap, FocusType
      <4>2. SessionOK(Without(st.sess[s], f)) /\ Without(st.sess[s], f).frames # <<>>
        BY <3>3, <4>1, WithoutType, WithoutLeaves
      <4>3. StOK(st') /\ st'.sess[s].frames # <<>> /\ st'.sess \in [Session -> SessionRec]
        BY <3>3, <4>1, <4>2, WithSessionType, SessionIs DEF StOK, StType
      <4> DEFINE q == ActivateSession(EnsureMainAtVisibleSlot(Popped), st'.sess, s)
      <4>4. Fits(q)
        BY <2>1, <4>3, SwapHiddenType, ActivateSessionType
      <4>5. rt'.ch = q.ch
        BY <3>3, <4>4, ForgetIs
      <4> QED  BY <1>2, <2>1, <4>3, <4>5
    <3> QED  BY <2>1, <2>2, <2>3, <3>1, <3>2, <3>3, EvictIs DEF Evicted
  <2>4. CASE HandlePaneSpawned
    <3> DEFINE e == Head(rt.ch)
               r == [Popped EXCEPT !.panes = @ \cup {e.frame}]
    <3>1. e.sess \in Session /\ e.frame \in Frame
      BY <2>1, <2>4, EventFields DEF HandlePaneSpawned, Next1
    <3>2. Fits(r) /\ r.ch = Popped.ch
      BY <2>1, <3>1 DEF Fits, RtType
    <3>3. rt' = Popped \/ (/\ Owns(st.sess[e.sess], e.frame)
                           /\ rt' = ActivateSession(EnsureMainAtVisibleSlot(r), st.sess, e.sess))
      BY <2>4 DEF HandlePaneSpawned
    <3> HIDE DEF e, r
    <3>4. Owns(st.sess[e.sess], e.frame) => st.sess[e.sess].frames # <<>>
      BY DEF Owns, ToSet
    <3> QED  BY <1>0, <1>2, <2>1, <2>2, <3>1, <3>2, <3>3, <3>4
  <2>5. CASE HandleSpawnFailed
    BY <2>2, <2>5 DEF HandleSpawnFailed
  <2>6. CASE HandleWindowVanished
    <3>1. Head(rt.ch).frame \in Frame
      BY <2>1, <2>6, EventFields DEF HandleWindowVanished, Next1
    <3> QED  BY <2>3, <2>6, <3>1 DEF HandleWindowVanished
  <2>7. CASE HandlePaneDied
    <3> DEFINE e == Head(rt.ch)
               owner == IF e.frame # None THEN e.frame
                        ELSE IF st.focus # None /\ st.focus \in Live(st.sess)
                             THEN ActiveFrame(st.sess[st.focus]) ELSE None
    <3>1. e.frame \in Frame \cup {None}
      BY <2>1, <2>7, EventFields DEF HandlePaneDied, Next1
    <3>2. owner \in Frame \cup {None}
      <4>1. ASSUME st.focus \in Live(st.sess)
            PROVE  ActiveFrame(st.sess[st.focus]) \in Frame
        BY <1>0, <4>1, SessionOfMap, ActiveFrameType DEF Live
      <4> QED  BY <3>1, <4>1
    <3>3. rt' = Popped \/ (owner # None /\ EvictFrame(owner, Popped, TRUE))
      BY <2>7 DEF HandlePaneDied, Respawn
    <3> HIDE DEF owner
    <3> QED  BY <2>2, <2>3, <3>2, <3>3
  <2> QED  BY <1>5, <2>4, <2>5, <2>6, <2>7 DEF HandleEvent
<1>6. ASSUME Command
      PROVE  Good
  <2>1. ASSUME NEW s \in Session, NEW f \in Frame, CreateSession(s, f) \/ PushDriver(s, f)
        PROVE  Good
    BY <1>4, <2>1 DEF CreateSession, PushDriver
  <2>2. ASSUME NEW s \in Session, NEW f \in Frame, ActivateFrame(s, f)
        PROVE  Good
    <3>1. CASE rt' = rt
      BY <1>4, <3>1
    <3>2. CASE rt' = ActivateSession(EnsureMainAtVisibleSlot(rt), st'.sess, s)
      <4> DEFINE x == st.sess[s]
                 y == IF x.act = f THEN x ELSE [PushMRU(x, x.act) EXCEPT !.act = f]
                 z == IF st.focus = s THEN Focus(s) ELSE st
      <4>1. SessionOK(x) /\ StOK(z) /\ x \in SessionRec /\ x.frames # <<>>
        BY <1>0, <2>2, SessionOfMap, FocusType DEF ActivateFrame
      <4>2. SessionOK(y) /\ y.frames # <<>>
        <5>1. x.frames # <<>> /\ SessionOK([PushMRU(x, x.act) EXCEPT !.act = f])
          BY <4>1, ActivatedType
        <5>2. SameRoot([PushMRU(x, x.act) EXCEPT !.act = f], x) /\ [PushMRU(x, x.act) EXCEPT !.act = f].frames = x.frames
          <6> DEFINE m == PushMRU(x, x.act)
          <6>1. m \in SessionRec /\ m.frames = x.frames
            BY <4>1, PushMRUType DEF SessionRec, SessionOK
          <6> HIDE DEF m
          <6>2. [m EXCEPT !.act = f].frames = x.frames
            BY <6>1 DEF SessionRec
          <6> QED  BY <6>2 DEF SameRoot, m
        <5> QED  BY <4>1, <5>1, <5>2
      <4>3. st' = [z EXCEPT !.sess[s] = y]
        BY <2>2 DEF ActivateFrame
      <4> HIDE DEF y, z
      <4>4. StOK(st') /\ st'.sess[s] = y /\ st'.sess \in [Session -> SessionRec]
        BY <4>1, <4>2, <4>3, WithSessionType, SessionIs DEF StOK, StType
      <4> QED  BY <1>0, <1>2, <3>2, <4>2, <4>4 DEF Reports
    <3> QED  BY <2>2, <3>1, <3>2 DEF ActivateFrame
  <2>3. ASSUME NEW s \in Session, StopSession(s)
        PROVE  Good
    <3>1. RemoveSession(s, rt, TRUE)
      BY <2>3 DEF StopSession
    <3>2. rt'.ch = rt.ch
      BY <1>0, <3>1, RemoveSessionIs
    <3> QED  BY <1>4, <3>2
  <2>4. ASSUME NEW s \in Session, SwitchSession(s)
        PROVE  Good
    <3>1. st.sess[s].frames # <<>> /\ rt' = ActivateSession(EnsureMainAtVisibleSlot(rt), st.sess, s)
      BY <2>4 DEF SwitchSession, Live
    <3> QED  BY <1>0, <1>2, <3>1 DEF Reports
  <2>5. CASE PreviewProject
    BY <1>0, <1>4, <2>5, EffectsAre DEF PreviewProject
  <2>6. ASSUME NEW kind, ActivateOccupant(kind)
        PROVE  Good
    <3> DEFINE q == IF st.occupant = "frame" THEN DeactivateSession(rt) ELSE rt
    <3>1. Fits(q) /\ q.ch = rt.ch /\ (rt' = q \/ rt' = SwapHidden(q))
      BY <1>0, <2>6, DeactivateSessionType, EffectsAre DEF ActivateOccupant
    <3> HIDE DEF q
    <3> QED  BY <1>4, <3>1, EffectsAre
  <2> QED  BY <1>6, <2>1, <2>2, <2>3, <2>4, <2>5, <2>6 DEF Command
<1>7. ASSUME Background
      PROVE  Good
  <2>1. CASE \E f \in Frame : JobSucceeds(f) \/ JobFails(f)
    BY <1>4, <2>1 DEF JobSucceeds, JobFails
  <2>2. ASSUME NEW f \in Frame, SpawnWindow(f)
        PROVE  Good
    <3> DEFINE r == [rt EXCEPT !.slot[f] = f]
               e == Spawned(spawning[f], f)
               evs == <<e>>
    <3>1. r \in RtType /\ r.ch = rt.ch
      BY <1>0 DEF RtType, Pane
    <3>2. e \in Event /\ e.type = "spawned" /\ rt' = Enqueue(r, evs)
      BY <1>0, <2>2, EventTypes DEF SpawnWindow, Spawned, RestOK
    <3> HIDE DEF r, e
    <3>3. evs \in Seq(Event) /\ ToSet(evs) = {e}
      BY <3>2, OneEvent
    <3> HIDE DEF evs
    <3> QED  BY <1>3, <3>1, <3>2, <3>3
  <2>3. CASE \E f \in Frame : SpawnWindowFails(f)
    BY <2>3 DEF SpawnWindowFails
  <2>4. CASE EveryTick \/ FifthTick
    <3>1. PICK evs \in Seq(Event) : /\ rt' = Enqueue(rt, evs)
                                    /\ \A e \in ToSet(evs) : e.type \in {"died", "vanished"}
      BY <2>4, TicksAre
    <3> QED  BY <1>0, <1>3, <3>1
  <2>5. CASE ProbeStart \/ ProbeRead
    BY <1>4, <2>5 DEF ProbeStart, ProbeRead
  <2>6. CASE ProbeReport
    <3> DEFINE e == Died(Main, probe.owner)
               evs == <<e>>
    <3>1. e \in Event /\ e.type = "died" /\ rt' = Enqueue(rt, evs)
      BY <1>0, <2>6, EventTypes DEF ProbeReport, Died, RestOK
    <3> HIDE DEF e
    <3>2. evs \in Seq(Event) /\ ToSet(evs) = {e}
      BY <3>1, OneEvent
    <3> HIDE DEF evs
    <3> QED  BY <1>0, <1>3, <3>1, <3>2
  <2> QED  BY <1>7, <2>1, <2>2, <2>3, <2>4, <2>5, <2>6 DEF Background
<1>8. ASSUME NEW p \in Pane, ProcessExit(p)
      PROVE  Good
  <2>1. rt'.ch = rt.ch
    BY <1>0, <1>8 DEF ProcessExit, RtType
  <2> QED  BY <1>4, <2>1
<1>9. CASE UNCHANGED vars
  BY <1>4, <1>9 DEF vars
<1> QED  BY <1>5, <1>6, <1>7, <1>8, <1>9 DEF Next

LEMMA PendingKept ==
    ASSUME TypeOK, FocusInv, [Next]_vars
    PROVE  \A f \in Frame : pending'[f].sess # None => pending'[f].snap.frames # <<>>
<1> DEFINE Good == \A f \in Frame : pending'[f].sess # None => pending'[f].snap.frames # <<>>
<1>0. /\ StOK(st) /\ pending \in [Frame -> [sess : Session \cup {None}, snap : SessionRec]]
      /\ \A f \in Frame : pending[f].sess # None => pending[f].snap.frames # <<>>
  BY StepFacts DEF RestOK, FocusInv
<1>1. CASE pending' = pending
  BY <1>0, <1>1
<1>2. ASSUME NEW f \in Frame, NEW s, NEW x, PutAside(f, s, x), s = None \/ x.frames # <<>>
      PROVE  Good
  <2>1. pending' = [pending EXCEPT ![f] = [sess |-> s, snap |-> x]]
    BY <1>2 DEF PutAside
  <2> QED  BY <1>0, <1>2, <2>1
<1>3. ASSUME NEW s \in Session, NEW f \in Frame, CreateSession(s, f)
      PROVE  Good
  <2>1. NewSession(f).frames # <<>>
    BY DEF NewSession
  <2> QED  BY <1>1, <1>2, <1>3, <2>1 DEF CreateSession
<1>4. ASSUME NEW s \in Session, NEW f \in Frame, PushDriver(s, f)
      PROVE  Good
  <2>1. SessionOK(st.sess[s]) /\ st.sess[s].frames # <<>>
    BY <1>0, <1>4, SessionOfMap DEF PushDriver, Live
  <2> DEFINE y == Pushed(st.sess[s], f)
  <2>2. st' = [st EXCEPT !.sess[s] = y] /\ y.frames # <<>>
    BY <1>4, <2>1, PushedRoot DEF PushDriver
  <2> HIDE DEF y
  <2>3. StOK(st) /\ st' = [st EXCEPT !.sess[s] = y]
    BY <1>0, <2>2
  <2>4. st'.sess[s].frames # <<>>
    <3>1. st'.sess[s] = y
      BY <2>3 DEF StOK, StType
    <3> QED  BY <2>2, <3>1
  <2> QED  BY <1>1, <1>2, <1>4, <2>4 DEF PushDriver
<1>5. ASSUME NEW f \in Frame, JobSucceeds(f) \/ JobFails(f)
      PROVE  Good
  BY <1>2, <1>5 DEF JobSucceeds, JobFails
<1>6. CASE HandleEvent
  BY <1>1, <1>6 DEF HandleEvent, HandlePaneSpawned, HandleSpawnFailed, HandleWindowVanished, HandlePaneDied
<1>7. CASE \/ \E s \in Session, f \in Frame : ActivateFrame(s, f)
           \/ \E s \in Session : StopSession(s) \/ SwitchSession(s)
           \/ PreviewProject
           \/ \E kind \in {"main", "log"} : ActivateOccupant(kind)
  BY <1>1, <1>7 DEF ActivateFrame, StopSession, SwitchSession, PreviewProject, ActivateOccupant
<1>8. CASE \/ \E f \in Frame : SpawnWindow(f) \/ SpawnWindowFails(f)
           \/ ProbeStart \/ ProbeRead \/ ProbeReport
           \/ \E p \in Pane : ProcessExit(p)
           \/ UNCHANGED vars
  BY <1>1, <1>8 DEF SpawnWindow, SpawnWindowFails, ProbeStart, ProbeRead, ProbeReport, ProcessExit, vars
<1>9. CASE EveryTick \/ FifthTick
  BY <1>1, <1>9, TicksAre
<1> QED  BY <1>3, <1>4, <1>5, <1>6, <1>7, <1>8, <1>9 DEF Next, Command, Background

LEMMA FocusKept ==
    ASSUME TypeOK, FocusInv, [Next]_vars
    PROVE  FocusValid'
<1>0. /\ StOK(st) /\ FocusValid /\ None \notin Session
      /\ st.focus \in Session \cup {None} /\ st.occupant \in {"main", "log", "frame"}
  BY StepFacts, ConstantsAssumption DEF FocusInv, StOK, StType
<1>1. CASE st' = st
  BY <1>0, <1>1 DEF FocusValid
<1>2. ASSUME NEW s \in Session, NEW y, y.frames # <<>>, st' = [st EXCEPT !.sess[s] = y]
      PROVE  FocusValid'
  <2>1. /\ st'.sess[s] = y /\ \A t \in Session : t # s => st'.sess[t] = st.sess[t]
        /\ st'.focus = st.focus /\ st'.occupant = st.occupant
    BY <1>0, <1>2, SessionIs
  <2>2. Live(st.sess) \subseteq Live(st'.sess)
    BY <1>2, <2>1 DEF Live
  <2> QED  BY <1>0, <2>1, <2>2 DEF FocusValid
<1>3. ASSUME NEW s \in Session, st.sess[s].frames # <<>>, st' = Focus(s)
      PROVE  FocusValid'
  BY <1>0, <1>3, FocusIs DEF FocusValid, Live
<1>4. ASSUME NEW s \in Session, NEW f \in Frame, CreateSession(s, f)
      PROVE  FocusValid'
  <2>1. NewSession(f).frames # <<>>
    BY DEF NewSession
  <2> QED  BY <1>1, <1>2, <1>4, <2>1 DEF CreateSession
<1>5. ASSUME NEW s \in Session, NEW f \in Frame, PushDriver(s, f)
      PROVE  FocusValid'
  <2>1. Pushed(st.sess[s], f).frames # <<>>
    BY <1>0, <1>5, SessionOfMap, PushedRoot DEF PushDriver, Live
  <2>2. st' = [st EXCEPT !.sess[s] = Pushed(st.sess[s], f)]
    BY <1>5 DEF PushDriver
  <2> QED  BY <1>2, <2>1, <2>2
<1>6. ASSUME NEW f \in Frame, JobSucceeds(f) \/ JobFails(f)
      PROVE  FocusValid'
  <2>1. pending[f].sess # None => pending[f].sess \in Session /\ pending[f].snap.frames # <<>>
    BY StepFacts DEF FocusInv, RestOK
  <2> QED  BY <1>1, <1>2, <1>6, <2>1 DEF JobSucceeds, JobFails
<1>7. ASSUME NEW s \in Session, NEW f \in Frame, ActivateFrame(s, f)
      PROVE  FocusValid'
  <2> DEFINE x == st.sess[s]
             y == IF x.act = f THEN x ELSE [PushMRU(x, x.act) EXCEPT !.act = f]
             z == IF st.focus = s THEN Focus(s) ELSE st
  <2>1. SessionOK(x) /\ x \in SessionRec /\ x.frames # <<>> /\ StOK(z)
    BY <1>0, <1>7, SessionOfMap, FocusType DEF ActivateFrame
  <2>2. y.frames = x.frames
    <3> DEFINE m == PushMRU(x, x.act)
    <3>1. m \in SessionRec /\ m.frames = x.frames
      BY <2>1, PushMRUType DEF SessionRec, SessionOK
    <3> HIDE DEF m
    <3>2. [m EXCEPT !.act = f].frames = x.frames
      BY <3>1 DEF SessionRec
    <3> QED  BY <3>2 DEF m
  <2>3. st' = [z EXCEPT !.sess[s] = y]
    BY <1>7 DEF ActivateFrame
  <2>4. /\ z.sess = st.sess /\ z.focus = st.focus /\ (z.occupant = st.occupant \/ st.focus = s)
    BY <1>0, FocusIs
  <2> HIDE DEF y, z
  <2>5. /\ st'.sess[s] = y /\ \A t \in Session : t # s => st'.sess[t] = z.sess[t]
        /\ st'.focus = z.focus /\ st'.occupant = z.occupant
    BY <2>1, <2>3, SessionIs
  <2>6. Live(st.sess) \subseteq Live(st'.sess)
    BY <2>1, <2>2, <2>4, <2>5 DEF Live
  <2> QED  BY <1>0, <2>4, <2>5, <2>6 DEF FocusValid
<1>8. ASSUME NEW s \in Session, StopSession(s)
      PROVE  FocusValid'
  <2>1. st' = Dropped(s)
    BY <1>8 DEF StopSession, RemoveSession
  <2> QED  BY <1>0, <2>1, FocusIs DEF FocusValid, Live
<1>9. ASSUME NEW s \in Session, SwitchSession(s)
      PROVE  FocusValid'
  BY <1>3, <1>9 DEF SwitchSession, Live
<1>10. CASE PreviewProject
  <2>1. st'.sess = st.sess /\ st'.focus = None /\ st'.occupant # "frame"
    BY <1>0, <1>10 DEF PreviewProject, StOK, StType
  <2> QED  BY <1>0, <2>1 DEF FocusValid, Live
<1>11. ASSUME NEW kind \in {"main", "log"}, ActivateOccupant(kind)
       PROVE  FocusValid'
  <2>1. st'.sess = st.sess /\ st'.focus = st.focus /\ st'.occupant # "frame"
    BY <1>0, <1>11 DEF ActivateOccupant, StOK, StType
  <2> QED  BY <1>0, <2>1 DEF FocusValid, Live
<1>12. ASSUME HandleEvent
       PROVE  FocusValid'
  <2>0. rt.ch # <<>>
    BY <1>12 DEF HandleEvent, HandlePaneSpawned, HandleSpawnFailed, HandleWindowVanished, HandlePaneDied, Next1
  <2>1. Fits(Popped) /\ Head(rt.ch) \in Event /\ Head(rt.ch) \in Reports
    BY <2>0, PoppedIs
  <2>2. CASE HandlePaneSpawned
    <3> DEFINE s == Head(rt.ch).sess
    <3>1. s \in Session
      BY <2>1, <2>2, EventFields DEF HandlePaneSpawned, Next1
    <3>2. st' = st \/ (st' = Focus(s) /\ st.sess[s].frames # <<>>)
      BY <2>2 DEF HandlePaneSpawned, Owns, ToSet
    <3> HIDE DEF s
    <3> QED  BY <1>1, <1>3, <3>1, <3>2
  <2>3. ~HandleSpawnFailed
    BY <2>1 DEF HandleSpawnFailed, Next1, FocusInv
  <2>4. CASE HandleWindowVanished
    <3>1. Head(rt.ch).frame \in Frame
      BY <2>1, <2>4, EventFields DEF HandleWindowVanished, Next1
    <3> QED  BY <1>0, <2>1, <2>4, <3>1, EvictFocus DEF HandleWindowVanished
  <2>5. CASE HandlePaneDied
    <3> DEFINE e == Head(rt.ch)
               owner == IF e.frame # None THEN e.frame
                        ELSE IF st.focus # None /\ st.focus \in Live(st.sess)
                             THEN ActiveFrame(st.sess[st.focus]) ELSE None
    <3>1. e.frame \in Frame \cup {None}
      BY <2>1, <2>5, EventFields DEF HandlePaneDied, Next1
    <3>2. owner \in Frame \cup {None}
      <4>1. ASSUME st.focus \in Live(st.sess)
            PROVE  ActiveFrame(st.sess[st.focus]) \in Frame
        BY <1>0, <4>1, SessionOfMap, ActiveFrameType DEF Live
      <4> QED  BY <3>1, <4>1
    <3>3. st' = st \/ (owner # None /\ EvictFrame(owner, Popped, TRUE))
      BY <2>5 DEF HandlePaneDied, Respawn
    <3> HIDE DEF owner
    <3> QED  BY <1>0, <1>1, <2>1, <3>2, <3>3, EvictFocus
  <2> QED  BY <1>12, <2>2, <2>3, <2>4, <2>5 DEF HandleEvent
<1>13. CASE \/ \E f \in Frame : SpawnWindow(f) \/ SpawnWindowFails(f)
            \/ ProbeStart \/ ProbeRead \/ ProbeReport
            \/ \E p \in Pane : ProcessExit(p)
            \/ UNCHANGED vars
  BY <1>1, <1>13 DEF SpawnWindow, SpawnWindowFails, ProbeStart, ProbeRead, ProbeReport, ProcessExit, vars
<1>14. CASE EveryTick \/ FifthTick
  BY <1>1, <1>14, TicksAre
<1> QED  BY <1>4, <1>5, <1>6, <1>7, <1>8, <1>9, <1>10, <1>11, <1>12, <1>13, <1>14
         DEF Next, Command, Background

\* The focus names a session of the map, and a frame is shown only with a
\* focus, whatever is created, pushed, stopped, brought back by a job or found
\* dead, as long as tmux refuses no window: reduceTmuxSpawnFailed does not look
\* at the focus when it empties a session.
THEOREM FocusTheorem ==
    ASSUME SpawnMayFail = FALSE
    PROVE  Spec => []FocusValid
<1>1. Init => FocusInv
  BY DEF Init, FocusInv, FocusValid, Live, Reports, ToSet
<1>2. TypeOK /\ FocusInv /\ [Next]_vars => FocusInv'
  <2> SUFFICES ASSUME TypeOK, FocusInv, [Next]_vars
               PROVE  FocusInv'
    OBVIOUS
  <2>1. \A e \in Reports' : e.type # "spawnFailed"
    <3>1. \A e \in Reports' : e \in Reports \/ e.type \in {"spawned", "died", "vanished"}
      BY NoRefusals
    <3> QED  BY <3>1 DEF FocusInv
  <2> QED  BY <2>1, PendingKept, FocusKept DEF FocusInv
<1>3. FocusInv => FocusValid
  BY DEF FocusInv
<1> QED  BY <1>1, <1>2, <1>3, TypeCorrect, PTL DEF Spec

-----------------------------------------------------------------------------
(* Frames without setup jobs: from the command that asks for a frame to its *)
(* pane, one of spawning, the channel and the panes has it.                *)

Reported(f) == \E e \in Reports : e.type = "spawned" /\ e.frame = f
ToSpawn == {f \in Frame : Fresh(f) \/ spawning[f] # None}

\* No window was refused and no session is put aside.
Plain ==
    /\ \A e \in Reports : e.type # "spawnFailed"
    /\ \A f \in Frame : pending[f].sess = None

\* A stack holds a frame once and its active frame is in it, only sessions
\* that were created have frames, and no two share one.
Stacks ==
    /\ \A s \in Session : StackOK(st.sess[s]) /\ (Frames(st.sess[s]) # {} => s \in born)
    /\ \A s, t \in Session, f \in Frame :
         f \in Frames(st.sess[s]) /\ f \in Frames(st.sess[t]) => s = t

\* A frame that is still to be spawned has no pane and no event, and one that
\* nobody asked for is in no session.
Before ==
    /\ \A f \in ToSpawn : f \notin rt.panes /\ ~Reported(f)
    /\ \A f \in Frame : Fresh(f) =>
         spawning[f] = None /\ \A s \in Session : f \notin Frames(st.sess[s])

\* A frame of a session is being spawned for that session, or its event names
\* that session, or its pane is registered.
SettingUp ==
    \A s \in Session : \A f \in Frames(st.sess[s]) :
      /\ spawning[f] \in {None, s}
      /\ \A e \in Reports : e.type = "spawned" /\ e.frame = f => e.sess = s
      /\ spawning[f] # None \/ Reported(f) \/ f \in rt.panes

Registered == \A f \in rt.panes : \E s \in Session : f \in Frames(st.sess[s])

Accounts == Stacks /\ Before /\ SettingUp /\ Registered

\* The channel has room for the event of every frame still to be spawned.
Capacity == Len(rt.ch) + Cardinality(ToSpawn) <= Backlog + 1 + Cardinality(Frame)

\* The active frame of the focused session is resident, or an event that will
\* show it or remove it is still to come.
Shows(a) == rt.act = a \/ spawning[a] # None \/ Reported(a) \/ Vanished(a) \in Reports
Showing ==
    \A a \in Frame : st.occupant = "frame" /\ a = st.sess[st.focus].act => Shows(a)

Orderly == Plain /\ Accounts /\ Capacity /\ FocusValid /\ Showing

RoomAssumption == QueueCap >= Backlog + 1 + Cardinality(Frame)

LEMMA FramesOf == ASSUME TypeOK, NEW s \in Session PROVE Frames(st.sess[s]) \subseteq Frame /\ SessionOK(st.sess[s])
<1>1. SessionOK(st.sess[s]) /\ st.sess[s].frames \in Seq(Frame)
  BY StepFacts, SessionOfMap DEF SessionRec
<1> QED  BY <1>1 DEF Frames, ToSet

\* A step that asks for no frame and spawns none.
LEMMA AccountsKept ==
    ASSUME TypeOK, Accounts, UNCHANGED <<spawning, born>>,
           \A f \in Frame : Fresh(f)' <=> Fresh(f),
           \A s \in Session : StackOK(st'.sess[s]) /\ Frames(st'.sess[s]) \subseteq Frames(st.sess[s]),
           \A e \in Reports' : e \in Reports \/ e.type \in {"died", "vanished"},
           \A f \in rt'.panes : f \in rt.panes \/ Reported(f),
           \A f \in rt'.panes : \E s \in Session : f \in Frames(st'.sess[s]),
           \A s \in Session : \A f \in Frames(st'.sess[s]) :
              /\ f \in rt.panes => f \in rt'.panes
              /\ Reported(f) => Reported(f)' \/ f \in rt'.panes
    PROVE  Accounts' /\ ToSpawn' = ToSpawn
<1>0. Stacks /\ Before /\ SettingUp /\ Registered
  BY DEF Accounts
<1>1. ToSpawn' = ToSpawn
  BY DEF ToSpawn
<1>2. Stacks'
  BY <1>0 DEF Stacks
<1>3. \A f : Reported(f)' => Reported(f)
  BY DEF Reported
<1>4. Before'
  <2>1. \A f \in ToSpawn' : f \notin rt'.panes /\ ~Reported(f)'
    BY <1>0, <1>1, <1>3 DEF Before
  <2>2. \A f \in Frame : Fresh(f)' =>
          spawning'[f] = None /\ \A s \in Session : f \notin Frames(st'.sess[s])
    BY <1>0 DEF Before
  <2> QED  BY <2>1, <2>2 DEF Before
<1>5. SettingUp'
  <2> SUFFICES ASSUME NEW s \in Session, NEW f \in Frames(st'.sess[s])
               PROVE  /\ spawning'[f] \in {None, s}
                      /\ \A e \in Reports' : e.type = "spawned" /\ e.frame = f => e.sess = s
                      /\ spawning'[f] # None \/ Reported(f)' \/ f \in rt'.panes
    BY DEF SettingUp
  <2>1. f \in Frames(st.sess[s])
    OBVIOUS
  <2>2. /\ spawning[f] \in {None, s}
        /\ \A e \in Reports : e.type = "spawned" /\ e.frame = f => e.sess = s
        /\ spawning[f] # None \/ Reported(f) \/ f \in rt.panes
    BY <1>0, <2>1 DEF SettingUp
  <2> QED  BY <2>2
<1>6. Registered'
  BY DEF Registered
<1> QED  BY <1>1, <1>2, <1>4, <1>5, <1>6 DEF Accounts

\* Asking for a frame: it joins the stack of its session, and its goroutine
\* starts.
LEMMA AccountsAsked ==
    ASSUME TypeOK, Accounts, NEW s \in Session, NEW f \in Frame, Fresh(f), UNCHANGED rt,
           Asked(f), StartSpawn(s, f), born \subseteq born', s \in born',
           StackOK(st'.sess[s]), Frames(st'.sess[s]) = Frames(st.sess[s]) \cup {f},
           \A t \in Session : t # s => st'.sess[t] = st.sess[t]
    PROVE  Accounts' /\ ToSpawn' = ToSpawn
<1>0. Stacks /\ Before /\ SettingUp /\ Registered /\ s # None
      /\ spawning \in [Frame -> Session \cup {None}] /\ reply \in [Frame -> {"none", "owed", "ok", "error"}]
  BY StepFacts, ConstantsAssumption DEF Accounts, RestOK
<1>1. /\ spawning'[f] = s /\ \A g \in Frame : g # f => spawning'[g] = spawning[g]
      /\ ~Fresh(f)' /\ \A g \in Frame : g # f => (Fresh(g)' <=> Fresh(g))
  BY <1>0 DEF StartSpawn, Asked, Fresh
<1>2. Reports' = Reports /\ \A g : Reported(g)' <=> Reported(g)
  BY DEF Reports, Reported
<1>3. ToSpawn' = ToSpawn
  BY <1>0, <1>1 DEF ToSpawn
<1>4. f \notin rt.panes /\ ~Reported(f) /\ spawning[f] = None /\ \A t \in Session : f \notin Frames(st.sess[t])
  BY <1>0 DEF Before, ToSpawn
<1>5. Stacks'
  <2>1. \A t \in Session : StackOK(st'.sess[t]) /\ (Frames(st'.sess[t]) # {} => t \in born')
    BY <1>0 DEF Stacks
  <2>2. ASSUME NEW t \in Session, NEW u \in Session, NEW g \in Frame,
               g \in Frames(st'.sess[t]), g \in Frames(st'.sess[u])
        PROVE  t = u
    <3>1. CASE g = f
      BY <1>4, <2>2, <3>1
    <3>2. CASE g # f
      <4>1. g \in Frames(st.sess[t]) /\ g \in Frames(st.sess[u])
        BY <2>2, <3>2
      <4> QED  BY <1>0, <4>1 DEF Stacks
    <3> QED  BY <3>1, <3>2
  <2> QED  BY <2>1, <2>2 DEF Stacks
<1>6. Before'
  <2>1. \A g \in ToSpawn' : g \notin rt'.panes /\ ~Reported(g)'
    BY <1>0, <1>2, <1>3 DEF Before
  <2>2. ASSUME NEW g \in Frame, Fresh(g)'
        PROVE  spawning'[g] = None /\ \A t \in Session : g \notin Frames(st'.sess[t])
    <3>1. g # f /\ Fresh(g)
      BY <1>1, <2>2
    <3>2. spawning[g] = None /\ \A t \in Session : g \notin Frames(st.sess[t])
      BY <1>0, <3>1 DEF Before
    <3> QED  BY <1>1, <3>1, <3>2
  <2> QED  BY <2>1, <2>2 DEF Before
<1>7. SettingUp'
  <2> SUFFICES ASSUME NEW t \in Session, NEW g \in Frames(st'.sess[t])
               PROVE  /\ spawning'[g] \in {None, t}
                      /\ \A e \in Reports' : e.type = "spawned" /\ e.frame = g => e.sess = t
                      /\ spawning'[g] # None \/ Reported(g)' \/ g \in rt'.panes
    BY DEF SettingUp
  <2>1. CASE g = f
    <3>1. t = s
      BY <1>4, <2>1
    <3>2. \A e \in Reports : ~(e.type = "spawned" /\ e.frame = f)
      BY <1>4 DEF Reported
    <3> QED  BY <1>0, <1>1, <1>2, <2>1, <3>1, <3>2
  <2>2. CASE g # f
    <3>1. g \in Frames(st.sess[t])
      BY <2>2
    <3>2. g \in Frame
      BY <3>1, FramesOf
    <3> QED  BY <1>0, <1>1, <1>2, <2>2, <3>1, <3>2 DEF SettingUp
  <2> QED  BY <2>1, <2>2
<1>8. Registered'
  <2>1. \A t \in Session : Frames(st.sess[t]) \subseteq Frames(st'.sess[t])
    OBVIOUS
  <2> QED  BY <1>0, <2>1 DEF Registered
<1> QED  BY <1>3, <1>5, <1>6, <1>7, <1>8 DEF Accounts

\* The window is there: its event is in the channel.
LEMMA AccountsSpawned ==
    ASSUME TypeOK, Accounts, NEW f \in Frame, spawning[f] # None, StartSpawn(None, f),
           UNCHANGED <<st, reply, born>>, rt'.panes = rt.panes,
           Reports' = Reports \cup {Spawned(spawning[f], f)}
    PROVE  Accounts' /\ ToSpawn' = ToSpawn \ {f} /\ f \in ToSpawn
<1> DEFINE e == Spawned(spawning[f], f)
<1>0. Stacks /\ Before /\ SettingUp /\ Registered
      /\ spawning \in [Frame -> Session \cup {None}]
  BY StepFacts DEF Accounts, RestOK
<1>1. /\ spawning'[f] = None /\ \A g \in Frame : g # f => spawning'[g] = spawning[g]
      /\ \A g : Fresh(g)' <=> Fresh(g)
  BY <1>0 DEF StartSpawn, Fresh
<1>2. e.type = "spawned" /\ e.frame = f /\ e.sess = spawning[f]
  BY DEF Spawned
<1>3. Reported(f)' /\ \A g : g # f => (Reported(g)' <=> Reported(g))
  BY <1>2 DEF Reported
<1>4. ~Fresh(f) /\ f \in ToSpawn
  BY <1>0 DEF Before, ToSpawn
<1>5. ToSpawn' = ToSpawn \ {f}
  BY <1>1, <1>4 DEF ToSpawn
<1>6. Stacks'
  BY <1>0 DEF Stacks
<1>7. Before'
  <2>1. \A g \in ToSpawn' : g \notin rt'.panes /\ ~Reported(g)'
    BY <1>0, <1>3, <1>5 DEF Before
  <2>2. \A g \in Frame : Fresh(g)' =>
          spawning'[g] = None /\ \A t \in Session : g \notin Frames(st'.sess[t])
    BY <1>0, <1>1 DEF Before
  <2> QED  BY <2>1, <2>2 DEF Before
<1>8. SettingUp'
  <2> SUFFICES ASSUME NEW t \in Session, NEW g \in Frames(st.sess[t])
               PROVE  /\ spawning'[g] \in {None, t}
                      /\ \A d \in Reports' : d.type = "spawned" /\ d.frame = g => d.sess = t
                      /\ spawning'[g] # None \/ Reported(g)' \/ g \in rt'.panes
    BY DEF SettingUp
  <2>0. /\ spawning[g] \in {None, t}
        /\ \A d \in Reports : d.type = "spawned" /\ d.frame = g => d.sess = t
        /\ spawning[g] # None \/ Reported(g) \/ g \in rt.panes
    BY <1>0 DEF SettingUp
  <2> HIDE DEF e
  <2>1. CASE g = f
    BY <1>1, <1>2, <1>3, <2>0, <2>1 DEF e
  <2>2. CASE g # f
    <3>1. g \in Frame
      BY FramesOf
    <3> QED  BY <1>1, <1>2, <1>3, <2>0, <2>2, <3>1 DEF e
  <2> QED  BY <2>1, <2>2
<1>9. Registered'
  BY <1>0 DEF Registered
<1> QED  BY <1>4, <1>5, <1>6, <1>7, <1>8, <1>9 DEF Accounts

\* A step that takes the frames of F out of their sessions, and their panes
\* with them; F may be empty.
LEMMA AccountsLess ==
    ASSUME TypeOK, Accounts, NEW F, UNCHANGED <<spawning, born, reply>>,
           \A s \in Session : StackOK(st'.sess[s]) /\ Frames(st'.sess[s]) = Frames(st.sess[s]) \ F,
           rt'.panes = rt.panes \ F,
           \A e \in Reports' : e \in Reports \/ e.type \in {"died", "vanished"},
           \A e \in Reports : e.type = "spawned" => e \in Reports'
    PROVE  Accounts' /\ ToSpawn' = ToSpawn
<1>1. \A f : Fresh(f)' <=> Fresh(f)
  BY DEF Fresh
<1>2. \A f : Reported(f) => Reported(f)'
  BY DEF Reported
<1>3. \A f \in rt'.panes : \E s \in Session : f \in Frames(st'.sess[s])
  BY DEF Accounts, Registered
<1>4. /\ \A s \in Session : StackOK(st'.sess[s]) /\ Frames(st'.sess[s]) \subseteq Frames(st.sess[s])
      /\ \A f \in rt'.panes : f \in rt.panes \/ Reported(f)
  OBVIOUS
<1>5. \A s \in Session : \A f \in Frames(st'.sess[s]) :
              /\ f \in rt.panes => f \in rt'.panes
              /\ Reported(f) => Reported(f)' \/ f \in rt'.panes
  BY <1>2
<1> QED  BY <1>1, <1>3, <1>4, <1>5, AccountsKept

\* A session that was just made the focus shows its active frame, or that
\* frame waits for its pane.
LEMMA ShowingActive ==
    ASSUME TypeOK', Accounts', NEW s \in Session, st'.focus = s, st'.sess[s].frames # <<>>,
           \/ rt'.act = ActiveFrame(st'.sess[s]) \/ ActiveFrame(st'.sess[s]) \notin rt'.panes
           \/ Vanished(ActiveFrame(st'.sess[s])) \in Reports'
    PROVE  Showing'
<1> SUFFICES ASSUME NEW a \in Frame, a = st'.sess[s].act
             PROVE  Shows(a)'
  BY DEF Showing
<1>1. SessionOK(st'.sess[s]) /\ StackOK(st'.sess[s])
  BY DEF Accounts, Stacks, TypeOK
<1>2. ActiveFrame(st'.sess[s]) = a
  BY <1>1, StackActive
<1>3. a \in Frames(st'.sess[s])
  BY <1>1 DEF StackOK
<1>4. spawning'[a] # None \/ Reported(a)' \/ a \in rt'.panes
  BY <1>3 DEF Accounts, SettingUp
<1> QED  BY <1>2, <1>4 DEF Shows

\* The frame that is said to be shown is in the stack of the focused session.
LEMMA FocusedFrame ==
    ASSUME TypeOK, Accounts, FocusValid, st.occupant = "frame"
    PROVE  /\ st.focus \in Session /\ st.focus # None
           /\ st.sess[st.focus].frames # <<>>
           /\ st.sess[st.focus].act \in Frames(st.sess[st.focus])
<1>1. st.focus \in Session /\ st.sess[st.focus].frames # <<>> /\ st.focus # None
  BY DEF FocusValid, Live
<1> QED  BY <1>1 DEF Accounts, Stacks, StackOK

LEMMA RemoveOrderly ==
    ASSUME TypeOK, Accounts, FocusValid, NEW s \in Session,
           NEW r, Fits(r), r.panes = rt.panes, r.act = rt.act, ToSet(r.ch) \subseteq Reports,
           \A e \in Reports : e.type = "spawned" => e \in ToSet(r.ch),
           NEW kill, RemoveSession(s, r, kill), UNCHANGED <<spawning, born, reply>>,
           \A a \in Frame : st.occupant = "frame" /\ st.focus # s /\ a = st.sess[st.focus].act =>
             rt.act = a \/ spawning[a] # None \/ Reported(a) \/ Vanished(a) \in ToSet(r.ch)
    PROVE  Accounts' /\ ToSpawn' = ToSpawn /\ rt'.ch = r.ch /\ Showing'
<1> DEFINE F == Frames(st.sess[s])
<1>1. /\ rt'.ch = r.ch /\ rt'.panes = rt.panes \ F
      /\ ~(st.focus = s /\ st.occupant = "frame") => rt'.act = rt.act
  BY RemoveSessionIs DEF Frames
<1>2. /\ st'.sess[s] = NoSession
      /\ \A t \in Session : t # s => st'.sess[t] = st.sess[t]
      /\ st'.focus = IF st.focus = s THEN None ELSE st.focus
      /\ st'.occupant = IF st.focus = s /\ st.occupant = "frame" THEN "main" ELSE st.occupant
  BY StepFacts, FocusIs DEF RemoveSession
<1>3. Reports' = ToSet(r.ch)
  BY <1>1 DEF Reports
<1>4. \A t \in Session : t # s => Frames(st.sess[t]) \ F = Frames(st.sess[t])
  <2> SUFFICES ASSUME NEW t \in Session, t # s, NEW f \in Frames(st.sess[t]), f \in F
               PROVE  FALSE
    OBVIOUS
  <2>1. f \in Frame
    BY FramesOf
  <2> QED  BY <2>1 DEF Accounts, Stacks
<1>5. ASSUME NEW t \in Session
      PROVE  StackOK(st'.sess[t]) /\ Frames(st'.sess[t]) = Frames(st.sess[t]) \ F
  <2>1. CASE t = s
    BY <1>2, <2>1, EmptyStack
  <2>2. CASE t # s
    BY <1>2, <1>4, <2>2 DEF Accounts, Stacks
  <2> QED  BY <2>1, <2>2
<1> HIDE DEF F
<1>6. Accounts' /\ ToSpawn' = ToSpawn
  BY <1>1, <1>3, <1>5, AccountsLess
<1>7. Showing'
  <2> SUFFICES ASSUME NEW a \in Frame, st'.occupant = "frame", a = st'.sess[st'.focus].act
               PROVE  Shows(a)'
    BY DEF Showing
  <2>1. st.occupant = "frame" /\ st.focus # s /\ st'.focus = st.focus
    BY <1>2
  <2>2. st.focus \in Session
    BY <2>1, FocusedFrame
  <2>3. a = st.sess[st.focus].act
    BY <1>2, <2>1, <2>2
  <2>4. rt.act = a \/ spawning[a] # None \/ Reported(a) \/ Vanished(a) \in ToSet(r.ch)
    BY <2>1, <2>3
  <2> QED  BY <1>1, <1>3, <2>1, <2>4 DEF Shows, Reported
<1> QED  BY <1>1, <1>6, <1>7

LEMMA EvictOrderly ==
    ASSUME TypeOK, TypeOK', Accounts, FocusValid, NEW f \in Frame,
           NEW r, Fits(r), r.panes = rt.panes, r.act = rt.act, Len(r.ch) < QueueCap,
           ToSet(r.ch) \subseteq Reports,
           \A e \in Reports : e.type = "spawned" => e \in ToSet(r.ch),
           NEW kill, EvictFrame(f, r, kill), UNCHANGED <<spawning, born, reply>>,
           \A a \in Frame : st.occupant = "frame" /\ a = st.sess[st.focus].act /\ a # f =>
             rt.act = a \/ spawning[a] # None \/ Reported(a) \/ Vanished(a) \in ToSet(r.ch)
    PROVE  Accounts' /\ ToSpawn' = ToSpawn /\ Len(rt'.ch) <= Len(r.ch) + 1 /\ Showing'
<1> DEFINE Active(a) == st.occupant = "frame" /\ a = st.sess[st.focus].act
           Still(a) == rt.act = a \/ spawning[a] # None \/ Reported(a) \/ Vanished(a) \in ToSet(r.ch)
<1>0. Len(r.ch) \in Nat /\ StOK(st) /\ StOK(st')
  <2>1. r.ch \in Seq(Event)
    BY DEF Fits, RtType
  <2>2. StOK(st) /\ StOK(st')
    BY DEF TypeOK, StOK
  <2> QED  BY <2>1, <2>2
<1>a. \A a \in Frame : Active(a) /\ a # f => Still(a)
  OBVIOUS
<1>b. \A a \in Frame : Active(a) => st.focus \in Session /\ a \in Frames(st.sess[st.focus])
  BY FocusedFrame
<1>c. \A s, t \in Session, g \in Frame :
         g \in Frames(st.sess[s]) /\ g \in Frames(st.sess[t]) => s = t
  BY DEF Accounts, Stacks
<1>1. CASE (\A s \in Session : ~Owns(st.sess[s], f)) /\ st' = st /\ rt' = r
  <2>1. /\ \A s \in Session : StackOK(st'.sess[s]) /\ Frames(st'.sess[s]) = Frames(st.sess[s]) \ {}
        /\ rt'.panes = rt.panes \ {} /\ Reports' = ToSet(r.ch)
    BY <1>1 DEF Accounts, Stacks, Reports
  <2>2. Accounts' /\ ToSpawn' = ToSpawn
    BY <2>1, AccountsLess
  <2>3. ASSUME NEW a \in Frame, Active(a)
        PROVE  Shows(a)'
    <3>1. a # f
      BY <1>1, <1>b, <2>3 DEF Owns, Frames
    <3>2. Still(a)
      BY <1>a, <2>3, <3>1
    <3> QED  BY <1>1, <2>1, <3>2 DEF Shows, Reported
  <2>4. Showing'
    BY <1>1, <2>3 DEF Showing
  <2> QED  BY <1>0, <1>1, <2>2, <2>4
<1>2. ASSUME NEW s \in Session, Owns(st.sess[s], f), RemoveSession(s, r, kill)
      PROVE  Accounts' /\ ToSpawn' = ToSpawn /\ Len(rt'.ch) <= Len(r.ch) + 1 /\ Showing'
  <2>1. \A a \in Frame : Active(a) /\ st.focus # s => a # f
    BY <1>b, <1>c, <1>2 DEF Owns, Frames
  <2>2. \A a \in Frame : Active(a) /\ st.focus # s => Still(a)
    BY <1>a, <2>1
  <2>3. Accounts' /\ ToSpawn' = ToSpawn /\ rt'.ch = r.ch /\ Showing'
    BY <1>2, <2>2, RemoveOrderly
  <2> QED  BY <1>0, <2>3
<1>3. ASSUME NEW s \in Session, Owns(st.sess[s], f), st.sess[s].frames[1] # f,
             NEW x \in {Focus(s), st}, st' = [x EXCEPT !.sess[s] = Without(st.sess[s], f)],
             IF st.focus = s /\ st.sess[s].act = f
             THEN /\ x = Focus(s)
                  /\ rt' = Forget(ActivateSession(EnsureMainAtVisibleSlot(r), st'.sess, s), {f}, kill)
             ELSE x = st /\ rt' = Forget(r, {f}, kill)
      PROVE  Accounts' /\ ToSpawn' = ToSpawn /\ Len(rt'.ch) <= Len(r.ch) + 1 /\ Showing'
  <2> DEFINE y == Without(st.sess[s], f)
             again == st.focus = s /\ st.sess[s].act = f
  <2>1. SessionOK(st.sess[s]) /\ StackOK(st.sess[s]) /\ f \in Frames(st.sess[s])
    BY <1>3, FramesOf DEF Accounts, Stacks, Owns, Frames
  <2>2. /\ Frames(y) = Frames(st.sess[s]) \ {f} /\ StackOK(y) /\ y.frames # <<>>
        /\ st.sess[s].act # f => y.act = st.sess[s].act
    BY <1>3, <2>1, WithoutStack
  <2>3. StOK(x) /\ x.sess = st.sess
    BY <1>0, <1>3, FocusType
  <2>4. st' = [x EXCEPT !.sess[s] = y] /\ (x = st \/ x = Focus(s))
    BY <1>3
  <2>5. /\ again => x = Focus(s) /\ rt' = Forget(ActivateSession(EnsureMainAtVisibleSlot(r), st'.sess, s), {f}, kill)
        /\ ~again => x = st /\ rt' = Forget(r, {f}, kill)
    BY <1>3
  <2> HIDE DEF y, again
  <2>6. /\ st'.sess[s] = y /\ \A t \in Session : t # s => st'.sess[t] = x.sess[t]
        /\ st'.focus = x.focus /\ st'.occupant = x.occupant
    BY <2>3, <2>4, SessionIs
  <2>7. ASSUME NEW t \in Session
        PROVE  StackOK(st'.sess[t]) /\ Frames(st'.sess[t]) = Frames(st.sess[t]) \ {f}
    <3>1. CASE t = s
      BY <2>2, <2>6, <3>1
    <3>2. CASE t # s
      <4>1. f \notin Frames(st.sess[t])
        BY <1>c, <2>1, <3>2
      <4> QED  BY <2>3, <2>6, <3>2, <4>1 DEF Accounts, Stacks
    <3> QED  BY <3>1, <3>2
  <2>8. CASE again
    <3> DEFINE p == EnsureMainAtVisibleSlot(r)
               q == ActivateSession(p, st'.sess, s)
               b == ActiveFrame(st'.sess[s])
    <3>1. Fits(p) /\ p.ch = r.ch /\ p.panes = r.panes
      BY SwapHiddenType, EffectsAre
    <3>2. st'.sess \in [Session -> SessionRec] /\ st'.sess[s].frames # <<>>
      BY <1>0, <2>2, <2>6 DEF StOK, StType
    <3> HIDE DEF p
    <3>3. /\ q.panes = p.panes /\ Len(q.ch) <= Len(p.ch) + 1
          /\ ToSet(p.ch) \subseteq ToSet(q.ch) /\ ToSet(q.ch) \subseteq ToSet(p.ch) \cup {Vanished(b)}
          /\ Len(p.ch) < QueueCap => q.act = b \/ b \notin p.panes \/ Vanished(b) \in ToSet(q.ch)
      BY <3>1, <3>2, ActivateIs
    <3>4. Fits(q)
      BY <3>1, <3>2, ActivateSessionType
    <3>5. rt' = Forget(q, {f}, kill)
      BY <2>5, <2>8 DEF p
    <3> HIDE DEF q
    <3>6. rt'.panes = q.panes \ {f} /\ rt'.ch = q.ch /\ rt'.act = q.act
      BY <3>4, <3>5, ForgetIs
    <3>7. Vanished(b).type = "vanished"
      BY DEF Vanished
    <3>8. Reports' = ToSet(q.ch)
      BY <3>6 DEF Reports
    <3>9. /\ rt'.panes = rt.panes \ {f}
          /\ \A e \in Reports' : e \in Reports \/ e.type \in {"died", "vanished"}
          /\ \A e \in Reports : e.type = "spawned" => e \in Reports'
      BY <3>1, <3>3, <3>6, <3>7, <3>8
    <3>10. Accounts' /\ ToSpawn' = ToSpawn
      BY <2>7, <3>9, AccountsLess
    <3>11. st'.focus = s
      BY <1>0, <2>5, <2>6, <2>8, FocusIs
    <3>12. rt'.act = b \/ b \notin rt'.panes \/ Vanished(b) \in Reports'
      BY <3>1, <3>3, <3>6, <3>8
    <3>13. Showing'
      BY <3>2, <3>10, <3>11, <3>12, ShowingActive
    <3>14. Len(rt'.ch) <= Len(r.ch) + 1
      BY <3>1, <3>3, <3>6
    <3> QED  BY <3>10, <3>13, <3>14
  <2>9. CASE ~again
    <3>1. st'.focus = st.focus /\ st'.occupant = st.occupant
      BY <2>5, <2>6, <2>9
    <3>2. rt'.panes = r.panes \ {f} /\ rt'.ch = r.ch /\ rt'.act = r.act
      BY <2>5, <2>9, ForgetIs
    <3>3. Reports' = ToSet(r.ch)
      BY <3>2 DEF Reports
    <3>4. Accounts' /\ ToSpawn' = ToSpawn
      BY <2>7, <3>2, <3>3, AccountsLess
    <3>5. ASSUME NEW a \in Frame, st.occupant = "frame", a = st'.sess[st.focus].act
          PROVE  a # f /\ Active(a)
      <4>0. st.focus \in Session /\ st.sess[st.focus].act \in Frames(st.sess[st.focus])
        BY <3>5, FocusedFrame
      <4>1. CASE st.focus = s
        BY <2>2, <2>6, <2>9, <3>5, <4>1 DEF again
      <4>2. CASE st.focus # s
        <5>1. a = st.sess[st.focus].act
          BY <2>3, <2>6, <3>5, <4>0, <4>2
        <5> QED  BY <1>c, <2>1, <3>5, <4>0, <4>2, <5>1
      <4> QED  BY <4>1, <4>2
    <3>6. ASSUME NEW a \in Frame, st.occupant = "frame", a = st'.sess[st.focus].act
          PROVE  Shows(a)'
      <4>1. Still(a)
        BY <1>a, <3>5, <3>6
      <4> QED  BY <3>2, <3>3, <4>1 DEF Shows, Reported
    <3>7. Showing'
      BY <3>1, <3>6 DEF Showing
    <3> QED  BY <1>0, <3>2, <3>4, <3>7
  <2> QED  BY <2>8, <2>9
<1> DEFINE Goal == Accounts' /\ ToSpawn' = ToSpawn /\ Len(rt'.ch) <= Len(r.ch) + 1 /\ Showing'
<1>4. Evicted(f, r, kill)
  BY EvictIs
<1>5. Goal
  <2> HIDE DEF Goal
  <2>1. ASSUME NEW s \in Session, Owns(st.sess[s], f), RemoveSession(s, r, kill)
        PROVE  Goal
    BY <1>2, <2>1 DEF Goal
  <2>2. CASE (\A s \in Session : ~Owns(st.sess[s], f)) /\ st' = st /\ rt' = r
    BY <1>1, <2>2 DEF Goal
  <2>3. ASSUME NEW s \in Session, NEW x \in {Focus(s), st},
               /\ Owns(st.sess[s], f) /\ st.sess[s].frames[1] # f
               /\ st' = [x EXCEPT !.sess[s] = Without(st.sess[s], f)]
               /\ IF st.focus = s /\ st.sess[s].act = f
                  THEN /\ x = Focus(s)
                       /\ rt' = Forget(ActivateSession(EnsureMainAtVisibleSlot(r), st'.sess, s), {f}, kill)
                  ELSE x = st /\ rt' = Forget(r, {f}, kill)
        PROVE  Goal
    BY <1>3, <2>3 DEF Goal
  <2> QED  BY <1>4, <2>1, <2>2, <2>3 DEF Evicted
<1> QED  BY <1>5

-----------------------------------------------------------------------------
(* Orderly is inductive.                                                   *)

\* The frames still to be spawned and those with a pane are apart.
LEMMA Counts ==
    ASSUME TypeOK, Accounts
    PROVE  /\ IsFiniteSet(ToSpawn) /\ Cardinality(ToSpawn) \in Nat /\ Cardinality(Frame) \in Nat
           /\ Cardinality(ToSpawn) <= Cardinality(Frame)
           /\ Cardinality(DeadParked) \in Nat
           /\ Cardinality(DeadParked) + Cardinality(ToSpawn) <= Cardinality(Frame)
           /\ Len(rt.ch) \in Nat /\ Backlog \in Nat /\ QueueCap \in Nat
<1>1. rt.ch \in Seq(Event) /\ rt.panes \subseteq Frame /\ IsFiniteSet(Frame) /\ Backlog \in Nat /\ QueueCap \in Nat
  BY StepFacts, ConstantsAssumption, FaultsAssumption DEF RtType
<1>2. ToSpawn \subseteq Frame /\ DeadParked \subseteq Frame /\ DeadParked \cap ToSpawn = {}
  BY <1>1 DEF ToSpawn, DeadParked, Accounts, Before
<1> DEFINE A == ToSpawn
           B == DeadParked
<1>3. IsFiniteSet(A) /\ IsFiniteSet(B) /\ Cardinality(A) <= Cardinality(Frame)
  BY <1>1, <1>2, FS_Subset
<1>4. Cardinality(A) \in Nat /\ Cardinality(B) \in Nat /\ Cardinality(Frame) \in Nat
  BY <1>1, <1>3, FS_CardinalityType
<1>5. Cardinality(B \cup A) = Cardinality(B) + Cardinality(A) - Cardinality(B \cap A)
  BY <1>3, FS_Union
<1>6. B \cap A = {} /\ B \cup A \subseteq Frame
  BY <1>2
<1> HIDE DEF A, B
<1>7. Cardinality(B \cap A) = 0
  BY <1>6, FS_EmptySet
<1>8. Cardinality(B \cup A) <= Cardinality(Frame)
  BY <1>1, <1>6, FS_Subset
<1>9. Cardinality(B) + Cardinality(A) <= Cardinality(Frame)
  BY <1>4, <1>5, <1>7, <1>8
<1>10. Len(rt.ch) \in Nat
  BY <1>1
<1> QED  BY <1>1, <1>3, <1>4, <1>9, <1>10 DEF A, B

\* The sessions, the panes and pane 0.1 stay, and events are only added.
LEMMA Quiet ==
    ASSUME TypeOK, Accounts, Showing, UNCHANGED <<st, spawning, born, reply>>,
           rt'.panes = rt.panes, rt'.act = rt.act, Reports \subseteq Reports',
           \A e \in Reports' : e \in Reports \/ e.type \in {"died", "vanished"}
    PROVE  Accounts' /\ ToSpawn' = ToSpawn /\ Showing'
<1>1. /\ \A s \in Session : StackOK(st'.sess[s]) /\ Frames(st'.sess[s]) = Frames(st.sess[s]) \ {}
      /\ rt'.panes = rt.panes \ {}
  BY DEF Accounts, Stacks
<1>2. Accounts' /\ ToSpawn' = ToSpawn
  BY <1>1, AccountsLess
<1>3. ASSUME NEW a \in Frame, Shows(a)
      PROVE  Shows(a)'
  BY <1>3 DEF Shows, Reported
<1>4. Showing'
  BY <1>3 DEF Showing
<1> QED  BY <1>2, <1>4

\* A session is made the focus and activated.
LEMMA Reshown ==
    ASSUME TypeOK, TypeOK', Accounts, UNCHANGED <<spawning, born>>,
           \A f \in Frame : Fresh(f)' <=> Fresh(f),
           \A t \in Session : StackOK(st'.sess[t]) /\ Frames(st'.sess[t]) = Frames(st.sess[t]),
           NEW s \in Session, st'.focus = s, st'.sess[s].frames # <<>>,
           NEW r, Fits(r), Len(r.ch) < QueueCap, ToSet(r.ch) \subseteq Reports,
           rt.panes \subseteq r.panes,
           \A f \in r.panes : f \in rt.panes \/ Reported(f),
           \A f \in r.panes : \E t \in Session : f \in Frames(st.sess[t]),
           \A e \in Reports : e.type = "spawned" => e \in ToSet(r.ch) \/ e.frame \in r.panes,
           rt' = ActivateSession(EnsureMainAtVisibleSlot(r), st'.sess, s)
    PROVE  Accounts' /\ ToSpawn' = ToSpawn /\ Len(rt'.ch) <= Len(r.ch) + 1 /\ Showing'
<1> DEFINE p == EnsureMainAtVisibleSlot(r)
           b == ActiveFrame(st'.sess[s])
<1>1. Fits(p) /\ p.ch = r.ch /\ p.panes = r.panes
  BY SwapHiddenType, EffectsAre
<1>2. st'.sess \in [Session -> SessionRec]
  BY DEF TypeOK, StType
<1> DEFINE q == ActivateSession(p, st'.sess, s)
<1>3. rt' = q
  OBVIOUS
<1> HIDE DEF p
<1>a. /\ q.panes = p.panes /\ Len(q.ch) <= Len(p.ch) + 1
      /\ ToSet(p.ch) \subseteq ToSet(q.ch) /\ ToSet(q.ch) \subseteq ToSet(p.ch) \cup {Vanished(b)}
      /\ Len(p.ch) < QueueCap => q.act = b \/ b \notin p.panes \/ Vanished(b) \in ToSet(q.ch)
  BY <1>1, <1>2, ActivateIs
<1> HIDE DEF q
<1>4. /\ rt'.panes = r.panes /\ Len(rt'.ch) <= Len(r.ch) + 1
      /\ ToSet(r.ch) \subseteq ToSet(rt'.ch) /\ ToSet(rt'.ch) \subseteq ToSet(r.ch) \cup {Vanished(b)}
      /\ Len(r.ch) < QueueCap => rt'.act = b \/ b \notin r.panes \/ Vanished(b) \in ToSet(rt'.ch)
  BY <1>1, <1>3, <1>a
<1>5. Reports' = ToSet(rt'.ch) /\ Vanished(b).type = "vanished"
  BY DEF Reports, Vanished
<1> HIDE DEF b
<1>6. \A e \in Reports' : e \in Reports \/ e.type \in {"died", "vanished"}
  BY <1>4, <1>5
<1>7. \A f : Reported(f) => Reported(f)' \/ f \in rt'.panes
  BY <1>4, <1>5 DEF Reported
<1>8. /\ \A t \in Session : StackOK(st'.sess[t]) /\ Frames(st'.sess[t]) \subseteq Frames(st.sess[t])
      /\ \A f \in rt'.panes : f \in rt.panes \/ Reported(f)
      /\ \A f \in rt'.panes : \E t \in Session : f \in Frames(st'.sess[t])
      /\ \A t \in Session : \A f \in Frames(st'.sess[t]) :
              /\ f \in rt.panes => f \in rt'.panes
              /\ Reported(f) => Reported(f)' \/ f \in rt'.panes
  BY <1>4, <1>7
<1>9. Accounts' /\ ToSpawn' = ToSpawn
  BY <1>6, <1>8, AccountsKept
<1>10. rt'.act = b \/ b \notin rt'.panes \/ Vanished(b) \in Reports'
  BY <1>4, <1>5
<1>11. Showing'
  BY <1>9, <1>10, ShowingActive DEF b
<1> QED  BY <1>4, <1>9, <1>11

LEMMA CommandOrderly ==
    ASSUME TypeOK, TypeOK', Orderly, ~SetupJobs, RoomAssumption, Command
    PROVE  Accounts' /\ ToSpawn' = ToSpawn /\ Len(rt'.ch) <= Len(rt.ch) + 1 /\ Showing'
           /\ (rt'.ch = rt.ch \/ Room)
<1> DEFINE Goal == /\ Accounts' /\ ToSpawn' = ToSpawn /\ Len(rt'.ch) <= Len(rt.ch) + 1 /\ Showing'
                   /\ (rt'.ch = rt.ch \/ Room)
<1>0. /\ StOK(st) /\ Fits(rt) /\ RestOK /\ StOK(st') /\ Len(rt.ch) \in Nat
      /\ Accounts /\ FocusValid /\ Showing /\ Plain
  BY StepFacts, Counts DEF Orderly, TypeOK, StOK
<1>1. Room => Len(rt.ch) < QueueCap
  BY Counts, <1>0 DEF Room, RoomAssumption
<1>2. \A s \in Session : SessionOK(st.sess[s]) /\ StackOK(st.sess[s]) /\ (Frames(st.sess[s]) # {} => s \in born)
  BY <1>0, FramesOf DEF Accounts, Stacks
<1>3. \A s \in Session : st.sess[s].frames # <<>> => Frames(st.sess[s]) # {}
  BY <1>2 DEF StackOK
<1>4. ASSUME NEW s \in Session, NEW f \in Frame, CreateSession(s, f)
      PROVE  Goal
  <2>1. /\ st' = [st EXCEPT !.sess[s] = NewSession(f)] /\ StartSpawn(s, f)
        /\ Fresh(f) /\ UNCHANGED rt /\ Asked(f) /\ born' = born \cup {s} /\ s \notin born
    BY <1>4 DEF CreateSession
  <2> DEFINE y == NewSession(f)
  <2>2. Frames(y) = {f} /\ StackOK(y)
    BY NewStack
  <2>3. Frames(st.sess[s]) = {}
    BY <1>2, <2>1
  <2>4. st' = [st EXCEPT !.sess[s] = y]
    BY <2>1
  <2> HIDE DEF y
  <2>5. /\ st'.sess[s] = y /\ \A t \in Session : t # s => st'.sess[t] = st.sess[t]
        /\ st'.focus = st.focus /\ st'.occupant = st.occupant
    BY <1>0, <2>4, SessionIs
  <2>6. Accounts' /\ ToSpawn' = ToSpawn
    BY <1>0, <2>1, <2>2, <2>3, <2>5, AccountsAsked
  <2>7. Showing'
    <3> SUFFICES ASSUME NEW a \in Frame, st.occupant = "frame", a = st'.sess[st.focus].act
                 PROVE  Shows(a)'
      BY <2>5 DEF Showing
    <3>1. st.focus \in Session /\ st.sess[st.focus].frames # <<>>
      BY <1>0, FocusedFrame
    <3>2. st.focus # s
      BY <1>3, <2>3, <3>1
    <3>3. Shows(a)
      BY <1>0, <2>5, <3>1, <3>2 DEF Showing
    <3>4. spawning[a] # None => spawning'[a] # None
      BY <1>0, <2>1, ConstantsAssumption DEF StartSpawn, RestOK
    <3> QED  BY <2>1, <3>3, <3>4 DEF Shows, Reported, Reports
  <2> QED  BY <1>0, <2>1, <2>6, <2>7
<1>5. ASSUME NEW s \in Session, NEW f \in Frame, PushDriver(s, f)
      PROVE  Goal
  <2>1. /\ st' = [st EXCEPT !.sess[s] = Pushed(st.sess[s], f)] /\ StartSpawn(s, f)
        /\ Fresh(f) /\ UNCHANGED <<rt, born>> /\ Asked(f) /\ st.sess[s].frames # <<>>
    BY <1>5 DEF PushDriver, Live
  <2> DEFINE y == Pushed(st.sess[s], f)
  <2>2. f \notin Frames(st.sess[s]) /\ s \in born
    BY <1>0, <1>2, <1>3, <2>1 DEF Accounts, Before
  <2>3. Frames(y) = Frames(st.sess[s]) \cup {f} /\ StackOK(y) /\ y.act = f
    BY <1>2, <2>2, PushedStack
  <2>4. st' = [st EXCEPT !.sess[s] = y]
    BY <2>1
  <2> HIDE DEF y
  <2>5. /\ st'.sess[s] = y /\ \A t \in Session : t # s => st'.sess[t] = st.sess[t]
        /\ st'.focus = st.focus /\ st'.occupant = st.occupant
    BY <1>0, <2>4, SessionIs
  <2>6. Accounts' /\ ToSpawn' = ToSpawn
    BY <1>0, <2>1, <2>2, <2>3, <2>5, AccountsAsked
  <2>7. Showing'
    <3> SUFFICES ASSUME NEW a \in Frame, st.occupant = "frame", a = st'.sess[st.focus].act
                 PROVE  Shows(a)'
      BY <2>5 DEF Showing
    <3>1. st.focus \in Session
      BY <1>0, FocusedFrame
    <3>2. (spawning[a] # None => spawning'[a] # None) /\ spawning'[f] # None
      BY <1>0, <2>1, ConstantsAssumption DEF StartSpawn, RestOK
    <3>3. CASE st.focus = s
      BY <2>3, <2>5, <3>2, <3>3 DEF Shows
    <3>4. CASE st.focus # s
      <4>1. Shows(a)
        BY <1>0, <2>5, <3>1, <3>4 DEF Showing
      <4> QED  BY <2>1, <3>2, <4>1 DEF Shows, Reported, Reports
    <3> QED  BY <3>3, <3>4
  <2> QED  BY <1>0, <2>1, <2>6, <2>7
<1>6. ASSUME NEW s \in Session, Room, UNCHANGED <<spawning, born, reply>>,
             \A t \in Session : StackOK(st'.sess[t]) /\ Frames(st'.sess[t]) = Frames(st.sess[t]),
             st'.focus = s, st'.sess[s].frames # <<>>,
             rt' = ActivateSession(EnsureMainAtVisibleSlot(rt), st'.sess, s)
      PROVE  Goal
  <2>1. Len(rt.ch) < QueueCap
    BY <1>1, <1>6
  <2>2. \A f \in rt.panes : \E t \in Session : f \in Frames(st.sess[t])
    BY <1>0 DEF Accounts, Registered
  <2>3. ToSet(rt.ch) \subseteq Reports /\ \A e \in Reports : e \in ToSet(rt.ch)
    BY DEF Reports
  <2>4. \A f \in Frame : Fresh(f)' <=> Fresh(f)
    BY <1>6 DEF Fresh
  <2>5. Accounts' /\ ToSpawn' = ToSpawn /\ Len(rt'.ch) <= Len(rt.ch) + 1 /\ Showing'
    BY <1>0, <1>6, <2>1, <2>2, <2>3, <2>4, Reshown
  <2> QED  BY <1>6, <2>5
<1>7. ASSUME NEW s \in Session, NEW f \in Frame, ActivateFrame(s, f)
      PROVE  Goal
  <2> DEFINE x == st.sess[s]
             y == IF x.act = f THEN x ELSE [PushMRU(x, x.act) EXCEPT !.act = f]
             z == IF st.focus = s THEN Focus(s) ELSE st
  <2>1. SessionOK(x) /\ StackOK(x) /\ x.frames # <<>> /\ StOK(z) /\ f \in Frames(x)
    BY <1>0, <1>2, <1>7, FocusType DEF ActivateFrame, Live, Owns, Frames
  <2>2. y.frames = x.frames /\ Frames(y) = Frames(x) /\ StackOK(y)
    BY <2>1, ActivatedStack
  <2>3. /\ st' = [z EXCEPT !.sess[s] = y] /\ Room /\ UNCHANGED <<spawning, born, reply>>
        /\ rt' = IF st.focus = s THEN ActivateSession(EnsureMainAtVisibleSlot(rt), st'.sess, s) ELSE rt
    BY <1>7 DEF ActivateFrame
  <2>4. /\ z.sess = st.sess /\ z.focus = st.focus /\ (st.focus # s => z.occupant = st.occupant)
    BY <1>0, FocusIs
  <2> HIDE DEF y, z
  <2>5. /\ st'.sess[s] = y /\ \A t \in Session : t # s => st'.sess[t] = st.sess[t]
        /\ st'.focus = st.focus /\ st'.occupant = z.occupant
    <3>1. StOK(z) /\ st' = [z EXCEPT !.sess[s] = y]
      BY <2>1, <2>3
    <3>2. /\ st'.sess[s] = y /\ \A t \in Session : t # s => st'.sess[t] = z.sess[t]
          /\ st'.focus = z.focus /\ st'.occupant = z.occupant
      BY <3>1, SessionIs
    <3> QED  BY <2>4, <3>2
  <2>6. \A t \in Session : StackOK(st'.sess[t]) /\ Frames(st'.sess[t]) = Frames(st.sess[t])
    BY <1>2, <2>2, <2>5
  <2>7. CASE st.focus = s
    <3>1. st'.sess[s].frames # <<>> /\ rt' = ActivateSession(EnsureMainAtVisibleSlot(rt), st'.sess, s)
      BY <2>1, <2>2, <2>3, <2>5, <2>7
    <3> QED  BY <1>6, <2>3, <2>5, <2>6, <2>7, <3>1
  <2>8. CASE st.focus # s
    <3>1. rt' = rt
      BY <2>3, <2>8
    <3>2. /\ \A t \in Session : StackOK(st'.sess[t]) /\ Frames(st'.sess[t]) = Frames(st.sess[t]) \ {}
          /\ rt'.panes = rt.panes \ {} /\ Reports' = Reports
      BY <2>6, <3>1 DEF Reports
    <3>3. Accounts' /\ ToSpawn' = ToSpawn
      BY <1>0, <2>3, <3>2, AccountsLess
    <3>4. ASSUME NEW a \in Frame, st.occupant = "frame", a = st'.sess[st.focus].act
          PROVE  Shows(a)'
      <4>1. st.focus \in Session
        BY <1>0, <3>4, FocusedFrame
      <4>2. Shows(a)
        BY <1>0, <2>5, <2>8, <3>4, <4>1 DEF Showing
      <4> QED  BY <2>3, <3>1, <3>2, <4>2 DEF Shows, Reported
    <3>5. Showing'
      BY <2>4, <2>5, <2>8, <3>4 DEF Showing
    <3> QED  BY <1>0, <3>1, <3>3, <3>5
  <2> QED  BY <2>7, <2>8
<1>8. ASSUME NEW s \in Session, StopSession(s)
      PROVE  Goal
  <2>1. RemoveSession(s, rt, TRUE) /\ UNCHANGED <<spawning, born, reply>>
    BY <1>8 DEF StopSession
  <2>2. ToSet(rt.ch) \subseteq Reports /\ \A e \in Reports : e.type = "spawned" => e \in ToSet(rt.ch)
    BY DEF Reports
  <2>3. \A a \in Frame : st.occupant = "frame" /\ st.focus # s /\ a = st.sess[st.focus].act =>
             rt.act = a \/ spawning[a] # None \/ Reported(a) \/ Vanished(a) \in ToSet(rt.ch)
    BY <1>0 DEF Showing, Shows, Reports
  <2>4. Accounts' /\ ToSpawn' = ToSpawn /\ rt'.ch = rt.ch /\ Showing'
    BY <1>0, <2>1, <2>2, <2>3, RemoveOrderly
  <2> QED  BY <1>0, <2>4
<1>9. ASSUME NEW s \in Session, SwitchSession(s)
      PROVE  Goal
  <2>1. /\ Room /\ st.sess[s].frames # <<>> /\ st' = Focus(s) /\ UNCHANGED <<spawning, born, reply>>
        /\ rt' = ActivateSession(EnsureMainAtVisibleSlot(rt), st.sess, s)
    BY <1>9 DEF SwitchSession, Live
  <2>2. st'.sess = st.sess /\ st'.focus = s
    BY <1>0, <2>1, FocusIs
  <2>3. /\ \A t \in Session : StackOK(st'.sess[t]) /\ Frames(st'.sess[t]) = Frames(st.sess[t])
        /\ st'.sess[s].frames # <<>>
        /\ rt' = ActivateSession(EnsureMainAtVisibleSlot(rt), st'.sess, s)
    BY <1>2, <2>1, <2>2
  <2> QED  BY <1>6, <2>1, <2>2, <2>3
<1>10. ASSUME st'.sess = st.sess, st'.occupant # "frame", UNCHANGED <<spawning, born, reply>>,
              rt'.panes = rt.panes, rt'.ch = rt.ch
       PROVE  Goal
  <2>1. /\ \A t \in Session : StackOK(st'.sess[t]) /\ Frames(st'.sess[t]) = Frames(st.sess[t]) \ {}
        /\ rt'.panes = rt.panes \ {} /\ Reports' = Reports
    BY <1>2, <1>10 DEF Reports
  <2>2. Accounts' /\ ToSpawn' = ToSpawn
    BY <1>0, <1>10, <2>1, AccountsLess
  <2>3. Showing'
    BY <1>10 DEF Showing
  <2> QED  BY <1>0, <1>10, <2>2, <2>3
<1>11. ASSUME PreviewProject
       PROVE  Goal
  <2>1. st'.sess = st.sess /\ st'.occupant # "frame" /\ UNCHANGED <<spawning, born, reply>>
    BY <1>0, <1>11 DEF PreviewProject, StOK, StType
  <2>2. rt'.panes = rt.panes /\ rt'.ch = rt.ch
    BY <1>0, <1>11, EffectsAre DEF PreviewProject
  <2> QED  BY <1>10, <2>1, <2>2
<1>12. ASSUME NEW kind \in {"main", "log"}, ActivateOccupant(kind)
       PROVE  Goal
  <2>1. st'.sess = st.sess /\ st'.occupant # "frame" /\ UNCHANGED <<spawning, born, reply>>
    BY <1>0, <1>12 DEF ActivateOccupant, StOK, StType
  <2>2. rt'.panes = rt.panes /\ rt'.ch = rt.ch
    <3> DEFINE q == IF st.occupant = "frame" THEN DeactivateSession(rt) ELSE rt
    <3>1. Fits(q) /\ q.ch = rt.ch /\ q.panes = rt.panes /\ (rt' = q \/ rt' = SwapHidden(q))
      BY <1>0, <1>12, DeactivateSessionType, EffectsAre DEF ActivateOccupant
    <3> HIDE DEF q
    <3> QED  BY <3>1, EffectsAre
  <2> QED  BY <1>10, <2>1, <2>2
<1> HIDE DEF Goal
<1>13. ASSUME NEW s \in Session, NEW f \in Frame, CreateSession(s, f) \/ PushDriver(s, f) \/ ActivateFrame(s, f)
       PROVE  Goal
  BY <1>4, <1>5, <1>7, <1>13
<1>14. ASSUME NEW s \in Session, StopSession(s) \/ SwitchSession(s)
       PROVE  Goal
  BY <1>8, <1>9, <1>14
<1>15. Goal
  <2>1. CASE PreviewProject
    BY <1>11, <2>1
  <2>2. CASE \E kind \in {"main", "log"} : ActivateOccupant(kind)
    BY <1>12, <2>2
  <2> QED  BY <1>13, <1>14, <2>1, <2>2 DEF Command
<1> QED  BY <1>15 DEF Goal

LEMMA EventOrderly ==
    ASSUME TypeOK, TypeOK', Orderly, HandleEvent
    PROVE  Accounts' /\ ToSpawn' = ToSpawn /\ Len(rt'.ch) <= Len(rt.ch) /\ Showing'
<1> DEFINE Goal == Accounts' /\ ToSpawn' = ToSpawn /\ Len(rt'.ch) <= Len(rt.ch) /\ Showing'
           e == Head(rt.ch)
           q == Tail(rt.ch)
<1>0. /\ StOK(st) /\ RestOK /\ Accounts /\ FocusValid /\ Showing /\ Plain
      /\ rt.ch # <<>> /\ Len(rt.ch) \in Nat
  BY StepFacts, Counts DEF Orderly, HandleEvent, HandlePaneSpawned, HandleSpawnFailed,
                           HandleWindowVanished, HandlePaneDied, Next1
<1>1. /\ Fits(Popped) /\ e \in Event /\ e \in Reports
      /\ Popped.panes = rt.panes /\ Popped.act = rt.act /\ Popped.ch = q
      /\ Reports = {e} \cup ToSet(q)
      /\ Len(q) = Len(rt.ch) - 1 /\ Len(Popped.ch) < QueueCap
  BY <1>0, PoppedIs
<1>2. /\ \A s \in Session : StackOK(st.sess[s])
      /\ \A f \in rt.panes : \E t \in Session : f \in Frames(st.sess[t])
  BY <1>0 DEF Accounts, Stacks, Registered
<1> HIDE DEF e, q
<1>3. ASSUME st' = st, rt' = Popped, UNCHANGED <<spawning, born>>,
             \A f \in Frame : Fresh(f)' <=> Fresh(f),
             e.type = "spawned" => \A s \in Session : e.frame \notin Frames(st.sess[s]),
             e.type \in {"spawned", "died"}
      PROVE  Goal
  <2>1. Reports' = ToSet(q) /\ rt'.panes = rt.panes /\ rt'.act = rt.act
    BY <1>1, <1>3 DEF Reports
  <2>2. ASSUME NEW s \in Session, NEW f \in Frames(st.sess[s]), Reported(f)
        PROVE  Reported(f)'
    <3>1. PICK d \in Reports : d.type = "spawned" /\ d.frame = f
      BY <2>2 DEF Reported
    <3>2. d # e
      BY <1>3, <3>1
    <3> QED  BY <1>1, <2>1, <3>1, <3>2 DEF Reported
  <2>3. /\ \A s \in Session : StackOK(st'.sess[s]) /\ Frames(st'.sess[s]) \subseteq Frames(st.sess[s])
        /\ \A d \in Reports' : d \in Reports \/ d.type \in {"died", "vanished"}
        /\ \A f \in rt'.panes : f \in rt.panes \/ Reported(f)
        /\ \A f \in rt'.panes : \E s \in Session : f \in Frames(st'.sess[s])
        /\ \A s \in Session : \A f \in Frames(st'.sess[s]) :
              /\ f \in rt.panes => f \in rt'.panes
              /\ Reported(f) => Reported(f)' \/ f \in rt'.panes
    BY <1>1, <1>2, <1>3, <2>1, <2>2
  <2>4. Accounts' /\ ToSpawn' = ToSpawn
    BY <1>0, <1>3, <2>3, AccountsKept
  <2>5. Showing'
    <3> SUFFICES ASSUME NEW a \in Frame, st.occupant = "frame", a = st.sess[st.focus].act
                 PROVE  Shows(a)'
      BY <1>3 DEF Showing
    <3>1. st.focus \in Session /\ a \in Frames(st.sess[st.focus])
      BY <1>0, FocusedFrame
    <3>2. Shows(a)
      BY <1>0 DEF Showing
    <3>3. Vanished(a) # e
      BY <1>3 DEF Vanished
    <3> QED  BY <1>1, <1>3, <2>1, <2>2, <3>1, <3>2, <3>3 DEF Shows
  <2> QED  BY <1>0, <1>1, <1>3, <2>4, <2>5
<1>4. ASSUME NEW f \in Frame, NEW kill, EvictFrame(f, Popped, kill), UNCHANGED <<spawning, born, reply>>,
             e.type = "died" \/ (e.type = "vanished" /\ e.frame = f)
      PROVE  Goal
  <2>1. ToSet(Popped.ch) \subseteq Reports /\ \A d \in Reports : d.type = "spawned" => d \in ToSet(Popped.ch)
    BY <1>1, <1>4
  <2>2. ASSUME NEW a \in Frame, st.occupant = "frame", a = st.sess[st.focus].act, a # f
        PROVE  rt.act = a \/ spawning[a] # None \/ Reported(a) \/ Vanished(a) \in ToSet(Popped.ch)
    <3>1. Shows(a)
      BY <1>0, <2>2 DEF Showing
    <3>2. Vanished(a) # e
      BY <1>4, <2>2 DEF Vanished
    <3> QED  BY <1>1, <3>1, <3>2 DEF Shows
  <2>3. Accounts' /\ ToSpawn' = ToSpawn /\ Len(rt'.ch) <= Len(Popped.ch) + 1 /\ Showing'
    BY <1>0, <1>1, <1>4, <2>1, <2>2, EvictOrderly
  <2>4. Len(rt'.ch) <= Len(rt.ch)
    <3>1. rt'.ch \in Seq(Event)
      BY DEF TypeOK, RtType
    <3>2. Len(rt'.ch) \in Nat
      BY <3>1
    <3> QED  BY <1>0, <1>1, <2>3, <3>2
  <2> QED  BY <2>3, <2>4
<1>5. ASSUME HandlePaneSpawned
      PROVE  Goal
  <2> DEFINE s == e.sess
             f == e.frame
             r == [Popped EXCEPT !.panes = @ \cup {f}]
  <2>1. e.type = "spawned" /\ s \in Session /\ f \in Frame /\ UNCHANGED <<spawning, born>>
    BY <1>1, <1>5, EventFields DEF HandlePaneSpawned, Next1, e
  <2>2. Reported(f)
    BY <1>1, <2>1 DEF Reported
  <2>3. CASE ~Owns(st.sess[s], f)
    <3>1. st' = st /\ rt' = Popped /\ UNCHANGED reply
      BY <1>5, <2>3 DEF HandlePaneSpawned, e
    <3>2. ASSUME NEW t \in Session, f \in Frames(st.sess[t])
          PROVE  FALSE
      <4>1. s = t
        BY <1>0, <1>1, <2>1, <3>2 DEF Accounts, SettingUp
      <4> QED  BY <2>3, <3>2, <4>1 DEF Owns, Frames
    <3>3. \A g \in Frame : Fresh(g)' <=> Fresh(g)
      BY <3>1 DEF Fresh
    <3> QED  BY <1>3, <2>1, <3>1, <3>2, <3>3
  <2>4. CASE Owns(st.sess[s], f)
    <3>1. /\ st' = Focus(s) /\ reply' = [reply EXCEPT ![f] = "ok"]
          /\ rt' = ActivateSession(EnsureMainAtVisibleSlot(r), st.sess, s)
      BY <1>5, <2>4 DEF HandlePaneSpawned, e
    <3>2. st'.sess = st.sess /\ st'.focus = s
      BY <1>0, <2>1, <3>1, FocusIs
    <3>3. Fits(r) /\ r.ch = q /\ r.panes = rt.panes \cup {f}
      BY <1>1, <2>1 DEF Fits, RtType
    <3> HIDE DEF s, f, r
    <3>4. ASSUME NEW g \in Frame
          PROVE  Fresh(g)' <=> Fresh(g)
      <4>1. ~Fresh(f)
        BY <1>0, <2>1, <2>2 DEF Accounts, Before, ToSpawn
      <4> QED  BY <1>0, <2>1, <3>1, <4>1 DEF Fresh, RestOK
    <3>5. \A t \in Session : StackOK(st'.sess[t]) /\ Frames(st'.sess[t]) = Frames(st.sess[t])
      BY <1>2, <3>2
    <3>6. st'.sess[s].frames # <<>> /\ f \in Frames(st.sess[s])
      BY <2>4, <3>2 DEF Owns, Frames, ToSet
    <3>7. /\ Len(r.ch) < QueueCap /\ ToSet(r.ch) \subseteq Reports
          /\ rt.panes \subseteq r.panes
          /\ \A g \in r.panes : g \in rt.panes \/ Reported(g)
      BY <1>1, <2>2, <3>3
    <3>8. \A g \in r.panes : \E t \in Session : g \in Frames(st.sess[t])
      BY <1>2, <2>1, <3>3, <3>6
    <3>9. \A d \in Reports : d.type = "spawned" => d \in ToSet(r.ch) \/ d.frame \in r.panes
      BY <1>1, <3>3 DEF f
    <3>10. rt' = ActivateSession(EnsureMainAtVisibleSlot(r), st'.sess, s)
      BY <3>1, <3>2
    <3>11. Accounts' /\ ToSpawn' = ToSpawn /\ Len(rt'.ch) <= Len(r.ch) + 1 /\ Showing'
      BY <1>0, <2>1, <3>2, <3>3, <3>4, <3>5, <3>6, <3>7, <3>8, <3>9, <3>10, Reshown
    <3>12. Len(rt'.ch) <= Len(rt.ch)
      <4>1. rt'.ch \in Seq(Event)
        BY DEF TypeOK, RtType
      <4>2. Len(rt'.ch) \in Nat
        BY <4>1
      <4> QED  BY <1>0, <1>1, <3>3, <3>11, <4>2
    <3> QED  BY <3>11, <3>12
  <2> QED  BY <2>3, <2>4
<1>6. ~HandleSpawnFailed
  BY <1>0, <1>1 DEF HandleSpawnFailed, Next1, Plain, e
<1>7. ASSUME HandleWindowVanished
      PROVE  Goal
  <2>1. /\ e.type = "vanished" /\ e.frame \in Frame /\ UNCHANGED <<spawning, born, reply>>
        /\ EvictFrame(e.frame, Popped, FALSE)
    BY <1>1, <1>7, EventFields DEF HandleWindowVanished, Next1, e
  <2> QED  BY <1>4, <2>1
<1>8. ASSUME HandlePaneDied
      PROVE  Goal
  <2> DEFINE owner == IF e.frame # None THEN e.frame
                      ELSE IF st.focus # None /\ st.focus \in Live(st.sess)
                           THEN ActiveFrame(st.sess[st.focus]) ELSE None
  <2>1. e.type = "died" /\ e.frame \in Frame \cup {None} /\ UNCHANGED <<spawning, born, reply>>
    BY <1>1, <1>8, EventFields DEF HandlePaneDied, Next1, e
  <2>2. owner \in Frame \cup {None}
    <3>1. ASSUME st.focus \in Live(st.sess)
          PROVE  ActiveFrame(st.sess[st.focus]) \in Frame
      BY <1>0, <3>1, SessionOfMap, ActiveFrameType DEF Live
    <3> QED  BY <2>1, <3>1
  <2>3. (st' = st /\ rt' = Popped) \/ (owner # None /\ EvictFrame(owner, Popped, TRUE))
    BY <1>8 DEF HandlePaneDied, Respawn, e
  <2> HIDE DEF owner
  <2>4. CASE st' = st /\ rt' = Popped
    <3>1. \A f \in Frame : Fresh(f)' <=> Fresh(f)
      BY <2>1 DEF Fresh
    <3> QED  BY <1>3, <2>1, <2>4, <3>1
  <2>5. CASE owner # None /\ EvictFrame(owner, Popped, TRUE)
    BY <1>4, <2>1, <2>2, <2>5
  <2> QED  BY <2>3, <2>4, <2>5
<1> HIDE DEF Goal
<1>9. Goal
  BY <1>5, <1>6, <1>7, <1>8 DEF HandleEvent
<1> QED  BY <1>9 DEF Goal

\* An event is put in the channel beside what is there.
LEMMA Reporting ==
    ASSUME TypeOK, NEW evs \in Seq(Event), NEW r \in RtType, r.ch = rt.ch, rt' = Enqueue(r, evs)
    PROVE  /\ rt'.panes = r.panes /\ rt'.act = r.act /\ Len(rt'.ch) <= Len(rt.ch) + Len(evs)
           /\ Reports \subseteq Reports' /\ Reports' \subseteq Reports \cup ToSet(evs)
           /\ Len(rt.ch) + Len(evs) <= QueueCap => Reports' = Reports \cup ToSet(evs)
<1>1. Len(r.ch) <= QueueCap
  BY DEF TypeOK
<1> DEFINE c == Enqueue(r, evs).ch
<1>2. /\ ToSet(r.ch) \subseteq ToSet(c) /\ ToSet(c) \subseteq ToSet(r.ch) \cup ToSet(evs)
      /\ Len(c) <= Len(r.ch) + Len(evs)
      /\ Len(r.ch) + Len(evs) <= QueueCap => ToSet(c) = ToSet(r.ch) \cup ToSet(evs)
  BY <1>1, EnqueueSet
<1>3. rt' = [r EXCEPT !.ch = c] /\ rt'.ch = c
  BY EnqueueType
<1> HIDE DEF c
<1>4. rt'.panes = r.panes /\ rt'.act = r.act
  BY <1>3 DEF RtType
<1> QED  BY <1>2, <1>3, <1>4 DEF Reports

LEMMA BackgroundOrderly ==
    ASSUME TypeOK, TypeOK', Orderly, ~SpawnMayFail, RoomAssumption, Background
    PROVE  Accounts' /\ Capacity' /\ Showing'
<1> DEFINE Goal == Accounts' /\ Capacity' /\ Showing'
           n == Cardinality(ToSpawn)
           limit == Backlog + 1 + Cardinality(Frame)
<1>0. /\ StOK(st) /\ RestOK /\ Accounts /\ FocusValid /\ Showing /\ Plain /\ rt \in RtType
      /\ Len(rt.ch) + n <= limit /\ limit <= QueueCap
  BY StepFacts, Counts DEF Orderly, Capacity, RoomAssumption
<1>1. /\ n \in Nat /\ Cardinality(Frame) \in Nat /\ limit \in Nat
      /\ n <= Cardinality(Frame) /\ IsFiniteSet(ToSpawn)
      /\ Cardinality(DeadParked) \in Nat /\ Cardinality(DeadParked) + n <= Cardinality(Frame)
      /\ Len(rt.ch) \in Nat /\ Backlog \in Nat /\ QueueCap \in Nat
  BY <1>0, Counts
<1>2. rt'.ch \in Seq(Event) /\ Len(rt'.ch) \in Nat
  <2>1. rt'.ch \in Seq(Event)
    BY DEF TypeOK, RtType
  <2> QED  BY <2>1
<1> HIDE DEF n, limit
<1>3. ASSUME NEW k \in Nat, Len(rt'.ch) <= k, k + n <= limit, ToSpawn' = ToSpawn
      PROVE  Capacity'
  <2>1. Len(rt'.ch) + n <= limit
    BY <1>1, <1>2, <1>3
  <2> QED  BY <1>3, <2>1 DEF Capacity, n, limit
<1>5. ASSUME NEW evs \in Seq(Event), rt' = Enqueue(rt, evs), Room,
             UNCHANGED <<st, spawning, born, reply>>,
             Len(evs) <= 2 + Cardinality(DeadParked),
             \A e \in ToSet(evs) : e.type \in {"died", "vanished"}
      PROVE  Goal
  <2>1. /\ rt'.panes = rt.panes /\ rt'.act = rt.act /\ Len(rt'.ch) <= Len(rt.ch) + Len(evs)
        /\ Reports \subseteq Reports' /\ Reports' \subseteq Reports \cup ToSet(evs)
    BY <1>0, <1>5, Reporting
  <2>2. Accounts' /\ ToSpawn' = ToSpawn /\ Showing'
    BY <1>0, <1>5, <2>1, Quiet
  <2>3. Len(rt.ch) < Backlog /\ Len(evs) \in Nat
    BY <1>5 DEF Room
  <2> DEFINE d == Cardinality(DeadParked)
             k == Len(rt.ch) + Len(evs)
  <2>4. k \in Nat /\ k + n <= limit
    <3>1. limit = Backlog + 1 + Cardinality(Frame)
      BY DEF limit
    <3>2. d \in Nat /\ d + n <= Cardinality(Frame) /\ Len(evs) <= 2 + d
      BY <1>1, <1>5
    <3> HIDE DEF d
    <3> QED  BY <1>1, <2>3, <3>1, <3>2
  <2>5. Capacity'
    BY <1>3, <2>1, <2>2, <2>4
  <2> QED  BY <2>2, <2>5
<1>6. ASSUME NEW f \in Frame, SpawnWindow(f)
      PROVE  Goal
  <2> DEFINE r == [rt EXCEPT !.slot[f] = f]
             e == Spawned(spawning[f], f)
             evs == <<e>>
  <2>1. r \in RtType /\ r.ch = rt.ch /\ r.panes = rt.panes /\ r.act = rt.act
    BY <1>0 DEF RtType, Pane
  <2>2. /\ e \in Event /\ e.type = "spawned" /\ e.frame = f /\ rt' = Enqueue(r, evs)
        /\ spawning[f] # None /\ StartSpawn(None, f) /\ UNCHANGED <<st, born, reply>>
    BY <1>0, <1>6, EventTypes DEF SpawnWindow, Spawned, RestOK
  <2> HIDE DEF r, e
  <2>3. evs \in Seq(Event) /\ ToSet(evs) = {e} /\ Len(evs) = 1
    BY <2>2, OneEvent
  <2> HIDE DEF evs
  <2>4. f \in ToSpawn
    BY <2>2 DEF ToSpawn
  <2>5. n >= 1
    <3>1. n # 0
      BY <1>1, <2>4, FS_EmptySet DEF n
    <3> QED  BY <1>1, <3>1
  <2>6. Len(rt.ch) + 1 <= QueueCap
    BY <1>0, <1>1, <2>5
  <2>7. /\ rt'.panes = rt.panes /\ rt'.act = rt.act /\ Len(rt'.ch) <= Len(rt.ch) + 1
        /\ Reports' = Reports \cup {e}
    BY <2>1, <2>2, <2>3, <2>6, Reporting
  <2>8. Accounts' /\ ToSpawn' = ToSpawn \ {f}
    BY <1>0, <2>2, <2>7, AccountsSpawned DEF e
  <2>9. Capacity'
    <3>1. Cardinality(ToSpawn \ {f}) = n - 1
      BY <1>1, <2>4, FS_RemoveElement DEF n
    <3>2. Len(rt'.ch) + (n - 1) <= limit
      BY <1>0, <1>1, <1>2, <2>7
    <3> QED  BY <2>8, <3>1, <3>2 DEF Capacity, limit
  <2>10. Showing'
    <3> SUFFICES ASSUME NEW a \in Frame, st.occupant = "frame", a = st.sess[st.focus].act
                 PROVE  Shows(a)'
      BY <2>2 DEF Showing
    <3>1. Shows(a)
      BY <1>0 DEF Showing
    <3>2. CASE a = f
      <4>1. Reported(f)'
        BY <2>2, <2>7 DEF Reported
      <4> QED  BY <3>2, <4>1 DEF Shows
    <3>3. CASE a # f
      <4>1. spawning'[a] = spawning[a]
        BY <1>0, <2>2, <3>3 DEF StartSpawn, RestOK
      <4> QED  BY <2>7, <3>1, <4>1 DEF Shows, Reported
    <3> QED  BY <3>2, <3>3
  <2> QED  BY <2>8, <2>9, <2>10
<1>7. ASSUME EveryTick \/ FifthTick
      PROVE  Goal
  <2>1. PICK evs \in Seq(Event) :
             /\ rt' = Enqueue(rt, evs) /\ Len(evs) <= 2 + Cardinality(DeadParked)
             /\ \A e \in ToSet(evs) : e.type \in {"died", "vanished"}
             /\ Room /\ UNCHANGED <<st, spawning, pending, reply, born>>
    BY <1>7, TicksAre
  <2> QED  BY <1>5, <2>1
<1>8. ASSUME ProbeStart \/ ProbeRead
      PROVE  Goal
  <2>1. rt' = rt /\ UNCHANGED <<st, spawning, born, reply>>
    BY <1>8 DEF ProbeStart, ProbeRead
  <2>2. /\ rt'.panes = rt.panes /\ rt'.act = rt.act /\ Reports \subseteq Reports'
        /\ \A e \in Reports' : e \in Reports \/ e.type \in {"died", "vanished"}
    BY <2>1 DEF Reports
  <2>3. Accounts' /\ ToSpawn' = ToSpawn /\ Showing'
    BY <1>0, <2>1, <2>2, Quiet
  <2>4. Capacity'
    BY <1>0, <1>1, <1>3, <2>1, <2>3
  <2> QED  BY <2>3, <2>4
<1>9. ASSUME ProbeReport
      PROVE  Goal
  <2> DEFINE e == Died(Main, probe.owner)
             evs == <<e>>
  <2>1. /\ e \in Event /\ e.type = "died" /\ rt' = Enqueue(rt, evs) /\ Room
        /\ UNCHANGED <<st, spawning, born, reply>>
    BY <1>0, <1>9, EventTypes DEF ProbeReport, Died, RestOK
  <2> HIDE DEF e
  <2>2. evs \in Seq(Event) /\ ToSet(evs) = {e} /\ Len(evs) = 1
    BY <2>1, OneEvent
  <2> HIDE DEF evs
  <2>3. Len(evs) <= 2 + Cardinality(DeadParked)
    BY <1>1, <2>2
  <2> QED  BY <1>5, <2>1, <2>2, <2>3
<1>10. \A f \in Frame : ~JobSucceeds(f) /\ ~JobFails(f) /\ ~SpawnWindowFails(f)
  BY <1>0 DEF JobSucceeds, JobFails, SpawnWindowFails, Plain
<1> HIDE DEF Goal
<1>11. Goal
  BY <1>6, <1>7, <1>8, <1>9, <1>10 DEF Background
<1> QED  BY <1>11 DEF Goal

\* Without setup jobs nothing is put aside, and without refusals no event says
\* so.
LEMMA PlainKept ==
    ASSUME TypeOK, Plain, ~SetupJobs, ~SpawnMayFail, [Next]_vars
    PROVE  Plain'
<1>1. \A e \in Reports' : e.type # "spawnFailed"
  <2>1. \A e \in Reports' : e \in Reports \/ e.type \in {"spawned", "died", "vanished"}
    BY NoRefusals
  <2> QED  BY <2>1 DEF Plain
<1>2. pending' = pending
  <2>1. CASE HandleEvent
    BY <2>1 DEF HandleEvent, HandlePaneSpawned, HandleSpawnFailed, HandleWindowVanished, HandlePaneDied
  <2>2. CASE Command
    BY <2>2 DEF Command, CreateSession, PushDriver, ActivateFrame, StopSession, SwitchSession,
                PreviewProject, ActivateOccupant
  <2>3. CASE Background
    <3>1. \A f \in Frame : ~JobSucceeds(f) /\ ~JobFails(f)
      BY DEF JobSucceeds, JobFails, Plain
    <3>2. CASE EveryTick \/ FifthTick
      BY <3>2, TicksAre
    <3>3. CASE \/ \E f \in Frame : SpawnWindow(f) \/ SpawnWindowFails(f)
               \/ ProbeStart \/ ProbeRead \/ ProbeReport
      BY <3>3 DEF SpawnWindow, SpawnWindowFails, ProbeStart, ProbeRead, ProbeReport
    <3> QED  BY <2>3, <3>1, <3>2, <3>3 DEF Background
  <2>4. CASE \E p \in Pane : ProcessExit(p)
    BY <2>4 DEF ProcessExit
  <2>5. CASE UNCHANGED vars
    BY <2>5 DEF vars
  <2> QED  BY <2>1, <2>2, <2>3, <2>4, <2>5 DEF Next
<1> QED  BY <1>1, <1>2 DEF Plain

LEMMA OrderlyStep ==
    ASSUME TypeOK, TypeOK', Orderly, ~SetupJobs, ~SpawnMayFail, RoomAssumption, [Next]_vars
    PROVE  Orderly'
<1>0. Accounts /\ FocusValid /\ Showing /\ Plain /\ Capacity
  BY DEF Orderly
<1>1. Plain'
  BY <1>0, PlainKept
<1>2. FocusValid'
  <2>1. FocusInv
    BY <1>0 DEF FocusInv, Plain
  <2> QED  BY <2>1, FocusKept
<1> DEFINE n == Cardinality(ToSpawn)
           limit == Backlog + 1 + Cardinality(Frame)
           Goal == Accounts' /\ Capacity' /\ Showing'
<1>3. /\ n \in Nat /\ n <= Cardinality(Frame) /\ Cardinality(Frame) \in Nat /\ Backlog \in Nat
      /\ Len(rt.ch) \in Nat /\ Len(rt'.ch) \in Nat /\ Len(rt.ch) + n <= limit
  <2>1. rt'.ch \in Seq(Event)
    BY DEF TypeOK, RtType
  <2>2. Len(rt'.ch) \in Nat
    BY <2>1
  <2> QED  BY <1>0, <2>2, Counts DEF Capacity
<1>4. ASSUME Accounts', Showing', ToSpawn' = ToSpawn,
             Len(rt'.ch) <= Len(rt.ch) \/ (Len(rt'.ch) <= Len(rt.ch) + 1 /\ Len(rt.ch) < Backlog)
      PROVE  Goal
  <2> HIDE DEF n
  <2>1. Len(rt'.ch) + n <= limit
    BY <1>3, <1>4
  <2> QED  BY <1>4, <2>1 DEF Capacity, n
<1>5. ASSUME HandleEvent
      PROVE  Goal
  BY <1>4, <1>5, EventOrderly
<1>6. ASSUME Command
      PROVE  Goal
  <2>1. /\ Accounts' /\ ToSpawn' = ToSpawn /\ Len(rt'.ch) <= Len(rt.ch) + 1 /\ Showing'
        /\ (rt'.ch = rt.ch \/ Room)
    BY <1>6, CommandOrderly
  <2>2. Len(rt'.ch) <= Len(rt.ch) \/ (Len(rt'.ch) <= Len(rt.ch) + 1 /\ Len(rt.ch) < Backlog)
    BY <1>3, <2>1 DEF Room
  <2> QED  BY <1>4, <2>1, <2>2
<1>7. ASSUME Background
      PROVE  Goal
  BY <1>7, BackgroundOrderly
<1>8. ASSUME UNCHANGED <<st, spawning, born, reply>>, rt'.panes = rt.panes, rt'.act = rt.act, rt'.ch = rt.ch
      PROVE  Goal
  <2>1. Reports \subseteq Reports' /\ \A e \in Reports' : e \in Reports \/ e.type \in {"died", "vanished"}
    BY <1>8 DEF Reports
  <2>2. Accounts' /\ ToSpawn' = ToSpawn /\ Showing'
    BY <1>0, <1>8, <2>1, Quiet
  <2>3. Len(rt'.ch) <= Len(rt.ch)
    BY <1>3, <1>8
  <2> QED  BY <1>4, <2>2, <2>3
<1>9. ASSUME NEW p \in Pane, ProcessExit(p)
      PROVE  Goal
  <2>1. UNCHANGED <<st, spawning, born, reply>>
    BY <1>9 DEF ProcessExit
  <2> DEFINE slot == [w \in Pane |-> IF rt.slot[w] = p THEN None ELSE rt.slot[w]]
  <2>2. rt' \in {rt, [rt EXCEPT !.slot = slot]} /\ rt \in RtType
    BY <1>9, StepFacts DEF ProcessExit
  <2> HIDE DEF slot
  <2>3. rt'.panes = rt.panes /\ rt'.act = rt.act /\ rt'.ch = rt.ch
    BY <2>2 DEF RtType
  <2> QED  BY <1>8, <2>1, <2>3
<1>10. ASSUME UNCHANGED vars
       PROVE  Goal
  BY <1>8, <1>10 DEF vars
<1> HIDE DEF Goal
<1>11. Goal
  BY <1>5, <1>6, <1>7, <1>9, <1>10 DEF Next
<1> QED  BY <1>1, <1>2, <1>11 DEF Orderly, Goal

LEMMA OrderlyInit == Init => Orderly
<1> SUFFICES ASSUME Init PROVE Orderly
  OBVIOUS
<1> DEFINE m == [s \in Session |-> NoSession]
<1>1. st = [sess |-> m, focus |-> None, occupant |-> "main"]
  BY DEF Init
<1>2. \A s \in Session : m[s] = NoSession
  OBVIOUS
<1> HIDE DEF m
<1>3. st.sess = m /\ st.focus = None /\ st.occupant = "main"
  BY <1>1
<1>4. /\ rt.ch = <<>> /\ rt.panes = {} /\ \A f \in Frame : spawning[f] = None /\ Fresh(f)
      /\ \A f \in Frame : pending[f].sess = None
  BY DEF Init, Fresh
<1>5. Reports = {} /\ ToSpawn = Frame
  BY <1>4 DEF Reports, ToSet, ToSpawn
<1>6. \A s \in Session : StackOK(st.sess[s]) /\ Frames(st.sess[s]) = {}
  BY <1>2, <1>3, EmptyStack
<1>7. Plain
  BY <1>4, <1>5 DEF Plain
<1>8. Accounts
  BY <1>4, <1>5, <1>6 DEF Accounts, Stacks, Before, SettingUp, Registered, Reported
<1>9. Capacity
  <2>1. Cardinality(Frame) \in Nat /\ Backlog \in Nat
    BY FS_CardinalityType, ConstantsAssumption, FaultsAssumption
  <2> DEFINE n == Cardinality(Frame)
  <2>2. Len(rt.ch) = 0
    BY <1>4
  <2> HIDE DEF n
  <2>3. 0 + n <= Backlog + 1 + n
    BY <2>1 DEF n
  <2> QED  BY <1>5, <2>2, <2>3 DEF Capacity, n
<1>10. FocusValid
  BY <1>3 DEF FocusValid
<1>11. Showing
  BY <1>3 DEF Showing
<1> QED  BY <1>7, <1>8, <1>9, <1>10, <1>11 DEF Orderly

THEOREM OrderlyAlways ==
    ASSUME SpawnMayFail = FALSE, SetupJobs = FALSE, RoomAssumption
    PROVE  Spec => []Orderly
<1>1. TypeOK /\ TypeOK' /\ Orderly /\ [Next]_vars => Orderly'
  BY OrderlyStep
<1> QED  BY <1>1, OrderlyInit, TypeCorrect, PTL DEF Spec

\* No frame is lost between the client that asks for it and its pane, and no
\* pane outlives its frame: reduceCreateSession, reducePushDriver,
\* spawnTmuxWindowAsync, reduceTmuxPaneSpawned and what evicts a frame hand it
\* on, provided that the event channel never overflows.
THEOREM FramesTheorem ==
    ASSUME SpawnMayFail = FALSE, SetupJobs = FALSE, RoomAssumption
    PROVE  Spec => []FramesAccounted
<1>1. TypeOK /\ Orderly => FramesAccounted
  <2> SUFFICES ASSUME TypeOK, Orderly, NEW f \in Frame
               PROVE  (InMap(f) => (Coming(f) \/ f \in rt.panes)) /\ (f \in rt.panes => InMap(f))
    BY DEF FramesAccounted
  <2>1. Reported(f) => Queued(f)
    BY DEF Reported, Reports, ToSet, Queued
  <2>2. ASSUME NEW s \in Session, f \in Frames(st.sess[s])
        PROVE  spawning[f] # None \/ Reported(f) \/ f \in rt.panes
    BY <2>2 DEF Orderly, Accounts, SettingUp
  <2>3. f \in rt.panes => \E s \in Session : f \in Frames(st.sess[s])
    BY DEF Orderly, Accounts, Registered
  <2> QED  BY <2>1, <2>2, <2>3 DEF InMap, Owns, Frames, Coming
<1> QED  BY <1>1, OrderlyAlways, TypeCorrect, PTL

\* Once no window is being spawned and the channel is drained, the frame that
\* ActiveOccupant and ActiveSession say is shown is resident in pane 0.1,
\* whatever sequence of commands, spawns, ticks and deaths came before.
THEOREM ShowsTheorem ==
    ASSUME SpawnMayFail = FALSE, SetupJobs = FALSE, RoomAssumption
    PROVE  Spec => []SettledShowsFocus
<1>1. TypeOK /\ Orderly => SettledShowsFocus
  <2> SUFFICES ASSUME TypeOK, Orderly, Settled, st.occupant = "frame"
               PROVE  rt.act = ActiveFrame(st.sess[st.focus])
    BY DEF SettledShowsFocus
  <2> DEFINE x == st.sess[st.focus]
  <2>1. st.focus \in Session /\ x.frames # <<>>
    BY FocusedFrame DEF Orderly
  <2>2. SessionOK(x) /\ StackOK(x)
    BY <2>1, FramesOf DEF Orderly, Accounts, Stacks
  <2>3. ActiveFrame(x) = x.act /\ x.act \in Frame
    BY <2>1, <2>2, StackActive
  <2>4. Shows(x.act)
    BY <2>3 DEF Orderly, Showing
  <2>5. Reports = {} /\ spawning[x.act] = None
    BY <2>3 DEF Settled, Coming, Reports, ToSet
  <2> QED  BY <2>3, <2>4, <2>5 DEF Shows, Reported
<1> QED  BY <1>1, OrderlyAlways, TypeCorrect, PTL

=============================================================================
