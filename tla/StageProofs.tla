----------------------------- MODULE StageProofs -----------------------------
(***************************************************************************)
(* What the operations of module Stage do to a session, to the runtime's   *)
(* record and to tmux's slots: their types, the frames of a stack, its     *)
(* root, the events of a channel, where panes are.                         *)
(***************************************************************************)
EXTENDS Stage, Lists

(***************************************************************************)
(* Sessions: every operation on a session value yields a session value.    *)
(***************************************************************************)

LEMMA ActiveFrameType ==
    ASSUME NEW x \in SessionRec, x.frames # <<>>
    PROVE  ActiveFrame(x) \in Frame
  BY DEF SessionRec, ActiveFrame, Owns, ToSet

LEMMA NoSessionType == SessionOK(NoSession)
  BY ConstantsAssumption DEF SessionOK, SessionRec, NoSession

LEMMA NewSessionType ==
    ASSUME NEW f \in Frame
    PROVE  SessionOK(NewSession(f))
  BY ConstantsAssumption DEF SessionOK, SessionRec, NewSession

\* PushMRU changes the list of recent frames alone, and keeps it capped.
LEMMA PushMRUType ==
    ASSUME NEW x \in SessionRec, Len(x.mru) <= MaxMRU,
           NEW f \in Frame \cup {None}
    PROVE  /\ PushMRU(x, f) \in SessionRec
           /\ PushMRU(x, f).frames = x.frames
           /\ Len(PushMRU(x, f).mru) <= MaxMRU
<1>1. CASE f = None
  BY <1>1 DEF PushMRU
<1>2. CASE f # None
  <2> DEFINE q == <<f>> \o RemoveFirst(x.mru, f)
             m == SubSeq(q, 1, Min({Len(q), MaxMRU}))
  <2>1. f \in Frame /\ <<f>> \in Seq(Frame) /\ x.mru \in Seq(Frame)
    BY <1>2 DEF SessionRec
  <2>2. q \in Seq(Frame)
    BY <2>1, RemoveFirstType, ConcatProperties
  <2>3. MaxMRU \in Nat
    BY ConstantsAssumption
  <2>4. PushMRU(x, f) = [x EXCEPT !.mru = m]
    BY <1>2 DEF PushMRU
  <2> HIDE DEF q
  <2>5. m \in Seq(Frame) /\ Len(m) <= MaxMRU
    BY <2>2, <2>3, Capped
  <2> HIDE DEF m
  <2> QED  BY <2>4, <2>5 DEF SessionRec
<1> QED  BY <1>1, <1>2

\* FallBack finds a frame of the stack, and only shortens the list.
LEMMA FallBackType ==
    ASSUME NEW x \in SessionRec, x.frames # <<>>, Len(x.mru) <= MaxMRU
    PROVE  /\ FallBack(x) \in SessionRec
           /\ FallBack(x).frames = x.frames
           /\ Owns(x, FallBack(x).act)
           /\ Len(FallBack(x).mru) <= MaxMRU
<1> DEFINE alive == {i \in DOMAIN x.mru : Owns(x, x.mru[i])}
<1>0. /\ x.frames \in Seq(Frame) /\ x.mru \in Seq(Frame)
      /\ Len(x.mru) \in Nat /\ MaxMRU \in Nat
  BY ConstantsAssumption DEF SessionRec
<1>1. CASE alive = {}
  <2>1. FallBack(x) = [x EXCEPT !.act = x.frames[1], !.mru = <<>>]
    BY <1>1 DEF FallBack
  <2>2. x.frames[1] \in Frame /\ Owns(x, x.frames[1])
    BY <1>0 DEF Owns, ToSet
  <2>3. <<>> \in Seq(Frame) /\ Len(<<>>) <= MaxMRU
    BY <1>0
  <2> DEFINE g == x.frames[1]
             e == <<>>
  <2>4. [x EXCEPT !.act = g, !.mru = e] \in SessionRec
    <3> HIDE DEF g, e
    <3>1. g \in Frame /\ e \in Seq(Frame)
      BY <2>2, <2>3 DEF g, e
    <3> QED  BY <3>1 DEF SessionRec
  <2> QED  BY <2>1, <2>2, <2>3, <2>4 DEF SessionRec
<1>2. CASE alive # {}
  <2> DEFINE k == Min(alive)
             m == SubSeq(x.mru, k + 1, Len(x.mru))
  <2>1. alive \in SUBSET Nat
    BY <1>0
  <2>2. k \in DOMAIN x.mru /\ Owns(x, x.mru[k])
    <3> HIDE DEF alive
    <3>1. k \in alive
      BY <1>2, <2>1, MinOfSet
    <3> QED  BY <3>1 DEF alive
  <2>3. FallBack(x) = [x EXCEPT !.act = x.mru[k], !.mru = m]
    BY <1>2 DEF FallBack
  <2> HIDE DEF k
  <2>4. k \in 1 .. Len(x.mru) /\ x.mru[k] \in Frame
    BY <1>0, <2>2
  <2>5. m \in Seq(Frame) /\ Len(m) <= MaxMRU
    BY <1>0, <2>4, SubSeqProperties
  <2> HIDE DEF m
  <2> QED  BY <2>2, <2>3, <2>4, <2>5 DEF SessionRec, Owns
<1> QED  BY <1>1, <1>2

LEMMA PushedType ==
    ASSUME NEW x \in SessionRec, SessionOK(x), NEW f \in Frame
    PROVE  SessionOK(Pushed(x, f))
<1> DEFINE y == PushMRU(x, x.act)
<1>1. y \in SessionRec /\ y.frames = x.frames /\ Len(y.mru) <= MaxMRU
  BY PushMRUType DEF SessionRec, SessionOK
<1>2. Pushed(x, f) = [y EXCEPT !.act = f, !.frames = Append(@, f)]
  BY DEF Pushed
<1> HIDE DEF y
<1>3. Append(y.frames, f) \in Seq(Frame) /\ Append(y.frames, f) # <<>>
  BY <1>1, AppendProperties DEF SessionRec
<1> QED  BY <1>1, <1>2, <1>3 DEF SessionOK, SessionRec

\* Removing a frame above the root leaves the root, so the stack is not empty.
LEMMA WithoutType ==
    ASSUME NEW x \in SessionRec, SessionOK(x), NEW f \in Frame,
           Owns(x, f), x.frames[1] # f
    PROVE  SessionOK(Without(x, f))
<1> DEFINE q == RemoveFirst(x.frames, f)
           y == [x EXCEPT !.frames = q]
<1>1. x.frames \in Seq(Frame) /\ Len(x.frames) >= 2
  BY DEF SessionRec, Owns, ToSet
<1>2. q \in Seq(Frame) /\ Len(q) >= 1
  BY <1>1, RemoveFirstType
<1>3. Without(x, f) = IF x.act = f THEN FallBack(y) ELSE y
  BY DEF Without
<1> HIDE DEF q
<1>4. y \in SessionRec /\ y.frames # <<>> /\ Len(y.mru) <= MaxMRU
  BY <1>2 DEF SessionRec, SessionOK
<1> HIDE DEF y
<1>5. /\ FallBack(y) \in SessionRec /\ FallBack(y).frames = y.frames
      /\ Len(FallBack(y).mru) <= MaxMRU
  BY <1>4, FallBackType
<1> QED  BY <1>3, <1>4, <1>5 DEF SessionOK

LEMMA TruncatedType ==
    ASSUME NEW x \in SessionRec, SessionOK(x), NEW f \in Frame, Owns(x, f)
    PROVE  SessionOK(Truncated(x, f))
<1> DEFINE i == CHOOSE j \in DOMAIN x.frames : x.frames[j] = f
           q == SubSeq(x.frames, 1, i - 1)
<1>1. x.frames \in Seq(Frame) /\ i \in 1 .. Len(x.frames)
  BY DEF SessionRec, Owns, ToSet
<1>2. Truncated(x, f) = IF i = 1 THEN NoSession ELSE [x EXCEPT !.frames = q]
  BY DEF Truncated
<1> HIDE DEF i
<1>3. CASE i = 1
  BY <1>2, <1>3, NoSessionType
<1>4. CASE i # 1
  <2>1. q \in Seq(Frame) /\ Len(q) = i - 1
    BY <1>1, SubSeqProperties
  <2> HIDE DEF q
  <2>2. q # <<>>
    BY <1>1, <1>4, <2>1
  <2> QED  BY <1>2, <1>4, <2>1, <2>2 DEF SessionOK, SessionRec
<1> QED  BY <1>3, <1>4

\* ActivateFrame's change of the active frame.
LEMMA ActivatedType ==
    ASSUME NEW x \in SessionRec, SessionOK(x), x.frames # <<>>, NEW f \in Frame
    PROVE  SessionOK([PushMRU(x, x.act) EXCEPT !.act = f])
<1> DEFINE y == PushMRU(x, x.act)
<1>1. y \in SessionRec /\ y.frames = x.frames /\ Len(y.mru) <= MaxMRU
  BY PushMRUType DEF SessionRec, SessionOK
<1> HIDE DEF y
<1>2. SessionOK([y EXCEPT !.act = f])
  BY <1>1 DEF SessionOK, SessionRec
<1> QED  BY <1>2 DEF y

(***************************************************************************)
(* The root of a session, from one value of it to the next.                *)
(***************************************************************************)

\* y, the value of a session after a step, has no frames or the root of x.
SameRoot(x, y) == y.frames # <<>> => x.frames # <<>> /\ y.frames[1] = x.frames[1]

LEMMA PushedRoot ==
    ASSUME NEW x, SessionOK(x), x.frames # <<>>, NEW f \in Frame
    PROVE  SameRoot(x, Pushed(x, f)) /\ Pushed(x, f).frames # <<>>
<1> DEFINE y == PushMRU(x, x.act)
<1>1. x \in SessionRec /\ y \in SessionRec /\ y.frames = x.frames
  BY PushMRUType DEF SessionRec, SessionOK
<1>2. Pushed(x, f) = [y EXCEPT !.act = f, !.frames = Append(@, f)]
  BY DEF Pushed
<1> HIDE DEF y
<1>3. Pushed(x, f).frames = Append(x.frames, f)
  BY <1>1, <1>2 DEF SessionRec
<1>4. x.frames \in Seq(Frame) /\ Len(x.frames) >= 1
  BY <1>1 DEF SessionRec
<1> QED  BY <1>3, <1>4, AppendProperties DEF SameRoot

LEMMA ActivatedRoot ==
    ASSUME NEW x, SessionOK(x), NEW f \in Frame
    PROVE  SameRoot(x, [PushMRU(x, x.act) EXCEPT !.act = f])
<1> DEFINE y == PushMRU(x, x.act)
<1>1. y \in SessionRec /\ y.frames = x.frames
  BY PushMRUType DEF SessionRec, SessionOK
<1> HIDE DEF y
<1>2. [y EXCEPT !.act = f].frames = x.frames
  BY <1>1 DEF SessionRec
<1> QED  BY <1>2 DEF SameRoot, y

LEMMA WithoutRoot ==
    ASSUME NEW x, SessionOK(x), NEW f \in Frame, Owns(x, f), x.frames[1] # f
    PROVE  SameRoot(x, Without(x, f))
<1> DEFINE q == RemoveFirst(x.frames, f)
           y == [x EXCEPT !.frames = q]
<1>1. x \in SessionRec /\ x.frames \in Seq(Frame) /\ x.frames # <<>>
  BY DEF SessionOK, SessionRec, Owns, ToSet
<1>2. q \in Seq(Frame) /\ q # <<>> /\ q[1] = x.frames[1]
  BY <1>1, RemoveFirstType, RemoveFirstRoot
<1>3. Without(x, f) = IF x.act = f THEN FallBack(y) ELSE y
  BY DEF Without
<1> HIDE DEF q
<1>4. y \in SessionRec /\ y.frames = q /\ Len(y.mru) <= MaxMRU
  BY <1>1, <1>2 DEF SessionRec, SessionOK
<1> HIDE DEF y
<1>5. FallBack(y).frames = y.frames
  BY <1>2, <1>4, FallBackType
<1> QED  BY <1>1, <1>2, <1>3, <1>4, <1>5 DEF SameRoot

LEMMA TruncatedRoot ==
    ASSUME NEW x, SessionOK(x), NEW f \in Frame, Owns(x, f)
    PROVE  SameRoot(x, Truncated(x, f))
<1> DEFINE i == CHOOSE j \in DOMAIN x.frames : x.frames[j] = f
           q == SubSeq(x.frames, 1, i - 1)
<1>1. x \in SessionRec /\ x.frames \in Seq(Frame) /\ i \in 1 .. Len(x.frames)
  BY DEF SessionOK, SessionRec, Owns, ToSet
<1>2. Truncated(x, f) = IF i = 1 THEN NoSession ELSE [x EXCEPT !.frames = q]
  BY DEF Truncated
<1> HIDE DEF i
<1>3. CASE i = 1
  BY <1>2, <1>3 DEF NoSession, SameRoot
<1>4. CASE i # 1
  <2>1. Len(q) = i - 1 /\ q[1] = x.frames[1]
    BY <1>1, <1>4, SubSeqProperties
  <2> HIDE DEF q
  <2>2. [x EXCEPT !.frames = q].frames = q
    BY <1>1 DEF SessionRec
  <2> QED  BY <1>1, <1>2, <1>4, <2>1, <2>2 DEF SameRoot
<1> QED  BY <1>3, <1>4

(***************************************************************************)
(* Sessions: the set of frames, and the active one.                        *)
(***************************************************************************)

Frames(x) == ToSet(x.frames)
StackOK(x) == NoDup(x.frames) /\ (x.frames # <<>> => x.act \in Frames(x))

LEMMA StackActive ==
    ASSUME NEW x, SessionOK(x), StackOK(x), x.frames # <<>>
    PROVE  ActiveFrame(x) = x.act /\ x.act \in Frame
  BY DEF StackOK, Frames, ActiveFrame, Owns, ToSet, SessionOK, SessionRec

LEMMA EmptyStack == Frames(NoSession) = {} /\ StackOK(NoSession)
  BY DEF Frames, StackOK, NoDup, NoSession, ToSet

LEMMA NewStack ==
    ASSUME NEW f \in Frame
    PROVE  /\ Frames(NewSession(f)) = {f} /\ StackOK(NewSession(f))
           /\ NewSession(f).act = f /\ NewSession(f).frames # <<>>
  BY DEF Frames, StackOK, NoDup, NewSession, ToSet

LEMMA PushedStack ==
    ASSUME NEW x, SessionOK(x), StackOK(x), NEW f \in Frame, f \notin Frames(x)
    PROVE  /\ Frames(Pushed(x, f)) = Frames(x) \cup {f}
           /\ StackOK(Pushed(x, f)) /\ Pushed(x, f).act = f
<1> DEFINE y == PushMRU(x, x.act)
<1>1. x \in SessionRec /\ y \in SessionRec /\ y.frames = x.frames
  BY PushMRUType DEF SessionRec, SessionOK
<1>2. Pushed(x, f) = [y EXCEPT !.act = f, !.frames = Append(@, f)]
  BY DEF Pushed
<1> HIDE DEF y
<1>3. Pushed(x, f).frames = Append(x.frames, f) /\ Pushed(x, f).act = f
  BY <1>1, <1>2 DEF SessionRec
<1>4. x.frames \in Seq(Frame)
  BY <1>1 DEF SessionRec
<1> DEFINE q == x.frames
<1>5. /\ DOMAIN q = 1 .. Len(q) /\ DOMAIN Append(q, f) = 1 .. Len(q) + 1 /\ Len(q) \in Nat
      /\ \A i \in 1 .. Len(q) : Append(q, f)[i] = q[i]
      /\ Append(q, f)[Len(q) + 1] = f
  BY <1>4, AppendProperties
<1>6. ToSet(Append(q, f)) = ToSet(q) \cup {f}
  BY <1>4, AppendSet
<1>7. \A i \in 1 .. Len(q) : q[i] # f
  BY <1>5 DEF Frames, ToSet
<1>8. NoDup(q)
  BY DEF StackOK
<1> HIDE DEF q
<1>9. NoDup(Append(q, f))
  <2> SUFFICES ASSUME NEW i \in 1 .. Len(q) + 1, NEW j \in 1 .. Len(q) + 1,
                      Append(q, f)[i] = Append(q, f)[j]
               PROVE  i = j
    BY <1>5 DEF NoDup
  <2>1. (i \in 1 .. Len(q) \/ i = Len(q) + 1) /\ (j \in 1 .. Len(q) \/ j = Len(q) + 1)
    BY <1>5
  <2> QED  BY <1>5, <1>7, <1>8, <2>1 DEF NoDup
<1> QED  BY <1>3, <1>6, <1>9 DEF Frames, StackOK, q

LEMMA ActivatedStack ==
    ASSUME NEW x, SessionOK(x), StackOK(x), NEW f \in Frame, f \in Frames(x)
    PROVE  LET y == [PushMRU(x, x.act) EXCEPT !.act = f]
           IN  y.frames = x.frames /\ Frames(y) = Frames(x) /\ StackOK(y) /\ y.act = f
<1> DEFINE z == PushMRU(x, x.act)
           y == [z EXCEPT !.act = f]
<1>1. z \in SessionRec /\ z.frames = x.frames
  BY PushMRUType DEF SessionRec, SessionOK
<1> HIDE DEF z
<1>2. y.frames = x.frames /\ y.act = f
  BY <1>1 DEF SessionRec
<1> HIDE DEF y
<1>3. Frames(y) = Frames(x) /\ StackOK(y)
  BY <1>2 DEF Frames, StackOK
<1> QED  BY <1>2, <1>3 DEF y, z

\* Removing a frame above the root leaves the root.
LEMMA WithoutLeaves ==
    ASSUME NEW x, SessionOK(x), NEW f \in Frame, Owns(x, f), x.frames[1] # f
    PROVE  Without(x, f).frames # <<>>
<1>1. x.frames # <<>> /\ x \in SessionRec
  BY DEF SessionOK, Owns, ToSet
<1> DEFINE q == RemoveFirst(x.frames, f)
           y == [x EXCEPT !.frames = q]
<1>2. x.frames \in Seq(Frame) /\ Len(x.mru) <= MaxMRU
  BY <1>1 DEF SessionOK, SessionRec
<1>3. q \in Seq(Frame) /\ q # <<>>
  BY <1>1, <1>2, RemoveFirstType, RemoveFirstRoot
<1>4. Without(x, f) = IF x.act = f THEN FallBack(y) ELSE y
  BY DEF Without
<1> HIDE DEF q
<1>5. y \in SessionRec /\ y.frames = q /\ Len(y.mru) <= MaxMRU
  BY <1>1, <1>2, <1>3 DEF SessionRec
<1> HIDE DEF y
<1> QED  BY <1>3, <1>4, <1>5, FallBackType

LEMMA WithoutStack ==
    ASSUME NEW x, SessionOK(x), StackOK(x), NEW f \in Frame, f \in Frames(x), x.frames[1] # f
    PROVE  /\ Frames(Without(x, f)) = Frames(x) \ {f} /\ StackOK(Without(x, f))
           /\ x.act # f => Without(x, f).act = x.act
           /\ Without(x, f).frames # <<>>
<1> DEFINE q == RemoveFirst(x.frames, f)
           y == [x EXCEPT !.frames = q]
<1>1. x \in SessionRec /\ x.frames \in Seq(Frame) /\ x.frames # <<>> /\ NoDup(x.frames)
  BY DEF SessionOK, SessionRec, Frames, ToSet, StackOK
<1>2. q \in Seq(Frame) /\ q # <<>>
  BY <1>1, RemoveFirstType, RemoveFirstRoot
<1>3. ToSet(q) = ToSet(x.frames) \ {f} /\ NoDup(q)
  BY <1>1, RemoveFirstSet
<1>4. Without(x, f) = IF x.act = f THEN FallBack(y) ELSE y
  BY DEF Without
<1> HIDE DEF q
<1>5. y \in SessionRec /\ y.frames = q /\ y.act = x.act /\ Len(y.mru) <= MaxMRU
  BY <1>1, <1>2 DEF SessionRec, SessionOK
<1> HIDE DEF y
<1>6. FallBack(y).frames = y.frames /\ Owns(y, FallBack(y).act)
  BY <1>2, <1>5, FallBackType
<1>7. CASE x.act = f
  BY <1>2, <1>3, <1>4, <1>5, <1>6, <1>7 DEF Frames, StackOK, Owns
<1>8. CASE x.act # f
  <2>1. x.act \in ToSet(q)
    BY <1>1, <1>3, <1>8 DEF StackOK, Frames
  <2> QED  BY <1>2, <1>3, <1>4, <1>5, <1>8, <2>1 DEF Frames, StackOK
<1> QED  BY <1>7, <1>8

(***************************************************************************)
(* The runtime: every effect yields a runtime value whose queue fits.      *)
(***************************************************************************)

Fits(r) == r \in RtType /\ Len(r.ch) <= QueueCap

\* Replacing the channel, or the slots, of a runtime value.
LEMMA RtWithType ==
    ASSUME NEW r \in RtType
    PROVE  /\ \A q \in Seq(Event) : [r EXCEPT !.ch = q] \in RtType
           /\ \A slot \in [Pane -> Pane \cup {None}] :
                [r EXCEPT !.slot = slot] \in RtType
  BY DEF RtType

LEMMA EnqueueType ==
    ASSUME NEW r \in RtType, NEW evs \in Seq(Event)
    PROVE  /\ Fits(Enqueue(r, evs))
           /\ Enqueue(r, evs) = [r EXCEPT !.ch = Enqueue(r, evs).ch]
<1> DEFINE q == r.ch \o evs
           m == SubSeq(q, 1, Min({Len(q), QueueCap}))
<1>1. q \in Seq(Event) /\ QueueCap \in Nat
  BY ConcatProperties, ConstantsAssumption DEF RtType
<1>2. Enqueue(r, evs) = [r EXCEPT !.ch = m]
  BY DEF Enqueue
<1> HIDE DEF q
<1>3. m \in Seq(Event) /\ Len(m) <= QueueCap
  BY <1>1, Capped
<1> HIDE DEF m
<1>4. [r EXCEPT !.ch = m].ch = m
  BY DEF RtType
<1> QED  BY <1>2, <1>3, <1>4, RtWithType DEF Fits

LEMMA EventTypes ==
    /\ \A s \in Session, f \in Frame :
         Spawned(s, f) \in Event /\ SpawnFailed(s, f) \in Event
    /\ \A f \in Frame : Vanished(f) \in Event
    /\ \A w \in {Main, Log}, f \in Frame \cup {None} : Died(w, f) \in Event
  BY DEF Event, Spawned, SpawnFailed, Vanished, Died

LEMMA SlotOfType ==
    ASSUME NEW slot, NEW p, Placed(slot, p)
    PROVE  SlotOf(slot, p) \in Pane /\ slot[SlotOf(slot, p)] = p
  BY DEF Placed, SlotOf

LEMMA ExchangeType ==
    ASSUME NEW slot \in [Pane -> Pane \cup {None}],
           NEW v \in Pane, NEW w \in Pane
    PROVE  Exchange(slot, v, w) \in [Pane -> Pane \cup {None}]
  BY DEF Exchange

LEMMA SwapPaneType ==
    ASSUME NEW slot \in [Pane -> Pane \cup {None}], NEW p, Placed(slot, p)
    PROVE  SwapPane(slot, p) \in [Pane -> Pane \cup {None}]
<1>1. SlotOf(slot, p) \in Pane /\ Main \in Pane
  BY SlotOfType DEF Pane
<1> QED  BY <1>1, ExchangeType DEF SwapPane

LEMMA ActivateSessionType ==
    ASSUME NEW r, Fits(r), NEW s \in Session,
           NEW sess \in [Session -> SessionRec]
    PROVE  Fits(ActivateSession(r, sess, s))
<1> DEFINE f == ActiveFrame(sess[s])
<1>0. r \in RtType
  BY DEF Fits
<1>1. CASE s \notin Live(sess) \/ f \notin r.panes \/ r.act = f
  BY <1>1 DEF ActivateSession
<1>2. CASE /\ ~(s \notin Live(sess) \/ f \notin r.panes \/ r.act = f)
           /\ ~Placed(r.slot, f)
  <2>1. f \in Frame
    BY <1>0, <1>2 DEF RtType
  <2>2. ActivateSession(r, sess, s) = Enqueue(r, <<Vanished(f)>>)
    BY <1>2 DEF ActivateSession
  <2> HIDE DEF f
  <2>3. <<Vanished(f)>> \in Seq(Event)
    BY <2>1, EventTypes
  <2> QED  BY <1>0, <2>2, <2>3, EnqueueType
<1>3. CASE /\ ~(s \notin Live(sess) \/ f \notin r.panes \/ r.act = f)
           /\ Placed(r.slot, f)
  <2>1. f \in Frame
    BY <1>0, <1>3 DEF RtType
  <2> DEFINE slot == SwapPane(r.slot, f)
  <2>2. ActivateSession(r, sess, s)
          = [r EXCEPT !.slot = slot, !.resident = s, !.act = f]
    BY <1>3 DEF ActivateSession
  <2> HIDE DEF f
  <2>3. slot \in [Pane -> Pane \cup {None}]
    BY <1>0, <1>3, SwapPaneType DEF RtType
  <2> HIDE DEF slot
  <2> QED  BY <1>0, <2>1, <2>2, <2>3 DEF Fits, RtType
<1> QED  BY <1>1, <1>2, <1>3

LEMMA DeactivateSessionType ==
    ASSUME NEW r, Fits(r)
    PROVE  Fits(DeactivateSession(r))
<1>1. CASE r.resident = None \/ ~Placed(r.slot, Main)
  BY <1>1 DEF DeactivateSession
<1>2. CASE ~(r.resident = None \/ ~Placed(r.slot, Main))
  <2> DEFINE slot == SwapPane(r.slot, Main)
  <2>1. slot \in [Pane -> Pane \cup {None}]
    BY <1>2, SwapPaneType DEF Fits, RtType
  <2>2. DeactivateSession(r)
          = [r EXCEPT !.slot = slot, !.resident = None, !.act = None]
    BY <1>2 DEF DeactivateSession
  <2> HIDE DEF slot
  <2> QED  BY <2>1, <2>2 DEF Fits, RtType
<1> QED  BY <1>1, <1>2

LEMMA SwapHiddenFits ==
    ASSUME NEW r, Fits(r)
    PROVE  Fits(SwapHidden(r))
<1> DEFINE slot == Exchange(r.slot, Log, Main)
<1>1. slot \in [Pane -> Pane \cup {None}]
  BY ExchangeType DEF Pane, Fits, RtType
<1>2. SwapHidden(r) = [r EXCEPT !.slot = slot]
  BY DEF SwapHidden
<1> HIDE DEF slot
<1> QED  BY <1>1, <1>2 DEF Fits, RtType

LEMMA ForgetType ==
    ASSUME NEW r, Fits(r), NEW F, NEW kill
    PROVE  Fits(Forget(r, F, kill))
<1> DEFINE slot == IF kill THEN KillPaneWindows(r.slot, F \cap r.panes)
                   ELSE r.slot
           panes == r.panes \ F
<1>1. slot \in [Pane -> Pane \cup {None}] /\ panes \subseteq Frame
  BY DEF KillPaneWindows, Fits, RtType
<1>2. Forget(r, F, kill) = [r EXCEPT !.slot = slot, !.panes = panes]
  BY DEF Forget
<1> HIDE DEF slot, panes
<1> QED  BY <1>1, <1>2 DEF Fits, RtType

\* What Enqueue adds to the channel, and that it adds all where there is room.
LEMMA EnqueueSet ==
    ASSUME NEW r \in RtType, NEW evs \in Seq(Event), Len(r.ch) <= QueueCap
    PROVE  LET c == Enqueue(r, evs).ch
           IN  /\ ToSet(r.ch) \subseteq ToSet(c) /\ ToSet(c) \subseteq ToSet(r.ch) \cup ToSet(evs)
               /\ Len(c) <= Len(r.ch) + Len(evs)
               /\ Len(r.ch) + Len(evs) <= QueueCap => ToSet(c) = ToSet(r.ch) \cup ToSet(evs)
               /\ c \in Seq(Event)
<1> DEFINE p == r.ch
           q == p \o evs
           k == Min({Len(q), QueueCap})
           m == SubSeq(q, 1, k)
           c == Enqueue(r, evs).ch
<1>1. p \in Seq(Event) /\ QueueCap \in Nat
  BY ConstantsAssumption DEF RtType
<1>2. c = m
  BY DEF Enqueue, RtType
<1> HIDE DEF p, c
<1>3. /\ q \in Seq(Event) /\ Len(q) = Len(p) + Len(evs) /\ Len(p) \in Nat /\ Len(evs) \in Nat
      /\ \A i \in 1 .. Len(p) + Len(evs) : q[i] = IF i <= Len(p) THEN p[i] ELSE evs[i - Len(p)]
  BY <1>1, ConcatProperties
<1>4. ToSet(q) = ToSet(p) \cup ToSet(evs)
  BY <1>1, ConcatSet
<1> HIDE DEF q
<1>5. ToSet(m) \subseteq ToSet(q) /\ Len(m) <= Len(q) /\ (Len(q) <= QueueCap => m = q)
  BY <1>1, <1>3, CappedIs
<1>6. k \in {Len(q), QueueCap} /\ k <= Len(q)
  <2> DEFINE I == {Len(q), QueueCap}
  <2>1. I \in SUBSET Nat /\ I # {} /\ Len(q) \in I
    BY <1>1, <1>3
  <2> HIDE DEF I
  <2>2. Min(I) \in I /\ Min(I) <= Len(q)
    BY <2>1, MinOfSet
  <2> QED  BY <2>2 DEF I
<1>7. k \in Nat /\ k >= Len(p) /\ Len(p) <= QueueCap
  BY <1>1, <1>3, <1>6 DEF p
<1> HIDE DEF k
<1>8. Len(m) = k /\ m \in Seq(Event) /\ \A i \in 1 .. k : m[i] = q[i]
  BY <1>3, <1>6, <1>7, SubSeqProperties
<1> HIDE DEF m
<1>9. ToSet(p) \subseteq ToSet(m)
  <2> SUFFICES ASSUME NEW i \in 1 .. Len(p)
               PROVE  p[i] \in ToSet(m)
    BY <1>1 DEF ToSet
  <2>1. i \in 1 .. k /\ i \in 1 .. Len(p) + Len(evs) /\ i <= Len(p)
    BY <1>3, <1>7
  <2>2. m[i] = p[i] /\ i \in DOMAIN m
    BY <1>3, <1>8, <2>1
  <2> QED  BY <2>2 DEF ToSet
<1> QED  BY <1>2, <1>3, <1>4, <1>5, <1>8, <1>9 DEF p, c

LEMMA OneEvent == ASSUME NEW e \in Event PROVE <<e>> \in Seq(Event) /\ Len(<<e>>) = 1 /\ ToSet(<<e>>) = {e}
  BY DEF ToSet

\* Showing a session: its active frame is resident, or has no pane yet, or its
\* window is reported as gone.
LEMMA ActivateIs ==
    ASSUME NEW r, Fits(r), NEW sess \in [Session -> SessionRec], NEW s \in Session, sess[s].frames # <<>>
    PROVE  LET f == ActiveFrame(sess[s])
               q == ActivateSession(r, sess, s)
           IN  /\ q.panes = r.panes /\ Len(q.ch) <= Len(r.ch) + 1
               /\ ToSet(r.ch) \subseteq ToSet(q.ch) /\ ToSet(q.ch) \subseteq ToSet(r.ch) \cup {Vanished(f)}
               /\ Len(r.ch) < QueueCap => q.act = f \/ f \notin r.panes \/ Vanished(f) \in ToSet(q.ch)
<1> DEFINE f == ActiveFrame(sess[s])
           q == ActivateSession(r, sess, s)
<1>0. /\ r \in RtType /\ Len(r.ch) \in Nat /\ s \in Live(sess) /\ QueueCap \in Nat /\ Len(r.ch) <= QueueCap
      /\ Len(r.ch) < QueueCap => Len(r.ch) + 1 <= QueueCap
  <2>1. r \in RtType /\ r.ch \in Seq(Event) /\ s \in Live(sess) /\ QueueCap \in Nat
    BY ConstantsAssumption DEF Fits, RtType, Live
  <2>2. Len(r.ch) \in Nat
    BY <2>1
  <2>3. Len(r.ch) <= QueueCap
    BY DEF Fits
  <2>4. Len(r.ch) < QueueCap => Len(r.ch) + 1 <= QueueCap
    BY <2>1, <2>2
  <2> QED  BY <2>1, <2>2, <2>3, <2>4
<1>1. CASE f \notin r.panes \/ r.act = f
  <2>1. q = r
    BY <1>1 DEF ActivateSession
  <2> QED  BY <1>0, <1>1, <2>1
<1>2. CASE ~(f \notin r.panes \/ r.act = f) /\ ~Placed(r.slot, f)
  <2>1. f \in Frame
    BY <1>0, <1>2 DEF RtType
  <2>2. q = Enqueue(r, <<Vanished(f)>>)
    BY <1>0, <1>2 DEF ActivateSession
  <2> HIDE DEF f, q
  <2> DEFINE evs == <<Vanished(f)>>
  <2>3. evs \in Seq(Event) /\ Len(evs) = 1 /\ ToSet(evs) = {Vanished(f)}
    BY <2>1, EventTypes, OneEvent
  <2> HIDE DEF evs
  <2>4. Len(r.ch) <= QueueCap
    BY <1>0
  <2>5. q = Enqueue(r, evs)
    BY <2>2 DEF evs
  <2>6. /\ ToSet(r.ch) \subseteq ToSet(q.ch) /\ ToSet(q.ch) \subseteq ToSet(r.ch) \cup {Vanished(f)}
        /\ Len(q.ch) <= Len(r.ch) + 1
        /\ Len(r.ch) + 1 <= QueueCap => Vanished(f) \in ToSet(q.ch)
    BY <1>0, <2>3, <2>4, <2>5, EnqueueSet
  <2>7. q.panes = r.panes
    BY <1>0, <2>2 DEF Enqueue, RtType
  <2> QED  BY <1>0, <2>6, <2>7 DEF f, q
<1>3. CASE ~(f \notin r.panes \/ r.act = f) /\ Placed(r.slot, f)
  <2> DEFINE slot == SwapPane(r.slot, f)
  <2>1. q = [r EXCEPT !.slot = slot, !.resident = s, !.act = f]
    BY <1>0, <1>3 DEF ActivateSession
  <2> HIDE DEF slot, f, q
  <2>2. q.panes = r.panes /\ q.ch = r.ch /\ q.act = f
    BY <1>0, <2>1 DEF RtType
  <2> QED  BY <1>0, <2>2 DEF f, q
<1> QED  BY <1>1, <1>2, <1>3

(***************************************************************************)
(* tmux: swap-pane.                                                        *)
(***************************************************************************)

OneSlot(slot) ==
    \A v, w \in Pane : slot[v] = slot[w] /\ v # w => slot[v] = None

LEMMA PaneFacts ==
    /\ Main \in Pane /\ Log \in Pane /\ Main # Log
    /\ Main \notin Frame /\ Log \notin Frame /\ Frame \subseteq Pane
    /\ None \notin Pane /\ None \notin Frame /\ None \notin Session
  BY ConstantsAssumption DEF Pane

LEMMA ExchangeKeeps ==
    ASSUME NEW slot \in [Pane -> Pane \cup {None}],
           NEW v \in Pane, NEW w \in Pane, OneSlot(slot)
    PROVE  /\ OneSlot(Exchange(slot, v, w))
           /\ \A p : Placed(Exchange(slot, v, w), p) <=> Placed(slot, p)
           /\ Exchange(slot, v, w)[w] = slot[v]
           /\ Exchange(slot, v, w)[v] = slot[w]
           /\ \A u \in Pane \ {v, w} : Exchange(slot, v, w)[u] = slot[u]
<1> DEFINE new == Exchange(slot, v, w)
<1>1. \A u \in Pane : new[u] = IF u = w THEN slot[v]
                               ELSE IF u = v THEN slot[w] ELSE slot[u]
  BY DEF Exchange
<1> HIDE DEF new
<1>2. OneSlot(new)
  BY <1>1 DEF OneSlot
<1>3. ASSUME NEW p  PROVE Placed(new, p) <=> Placed(slot, p)
  BY <1>1 DEF Placed
<1> QED  BY <1>1, <1>2, <1>3 DEF new

\* swap-pane of a placed pane into 0.1.
LEMMA SwapPaneKeeps ==
    ASSUME NEW slot \in [Pane -> Pane \cup {None}], OneSlot(slot),
           NEW p \in Pane, Placed(slot, p)
    PROVE  /\ OneSlot(SwapPane(slot, p))
           /\ \A q : Placed(SwapPane(slot, p), q) <=> Placed(slot, q)
           /\ SwapPane(slot, p)[Main] = p
           /\ slot[Log] = Log /\ p # Log => SwapPane(slot, p)[Log] = Log
           /\ \A f \in Frame : slot[f] = None => SwapPane(slot, p)[f] = None
<1> DEFINE v == SlotOf(slot, p)
<1>1. v \in Pane /\ slot[v] = p
  BY SlotOfType
<1>2. SwapPane(slot, p) = Exchange(slot, v, Main)
  BY DEF SwapPane
<1> HIDE DEF v
<1>3. /\ OneSlot(SwapPane(slot, p))
      /\ \A q : Placed(SwapPane(slot, p), q) <=> Placed(slot, q)
      /\ SwapPane(slot, p)[Main] = p
      /\ \A u \in Pane \ {v, Main} : SwapPane(slot, p)[u] = slot[u]
  BY <1>1, <1>2, PaneFacts, ExchangeKeeps
<1> QED  BY <1>1, <1>3, PaneFacts

(***************************************************************************)
(* Stacks without their active frame: what is pushed, removed and cut.     *)
(***************************************************************************)

LEMMA PushedFrames ==
    ASSUME NEW x, SessionOK(x), NoDup(x.frames), NEW f \in Frame, f \notin Frames(x)
    PROVE  Frames(Pushed(x, f)) = Frames(x) \cup {f} /\ NoDup(Pushed(x, f).frames)
<1> DEFINE y == PushMRU(x, x.act)
           q == x.frames
<1>1. x \in SessionRec /\ y \in SessionRec /\ y.frames = x.frames
  BY PushMRUType DEF SessionRec, SessionOK
<1>2. Pushed(x, f) = [y EXCEPT !.act = f, !.frames = Append(@, f)]
  BY DEF Pushed
<1> HIDE DEF y
<1>3. Pushed(x, f).frames = Append(q, f) /\ q \in Seq(Frame)
  BY <1>1, <1>2 DEF SessionRec
<1>4. /\ DOMAIN q = 1 .. Len(q) /\ DOMAIN Append(q, f) = 1 .. Len(q) + 1 /\ Len(q) \in Nat
      /\ \A i \in 1 .. Len(q) : Append(q, f)[i] = q[i]
      /\ Append(q, f)[Len(q) + 1] = f
  BY <1>3, AppendProperties
<1>5. ToSet(Append(q, f)) = ToSet(q) \cup {f}
  BY <1>3, AppendSet
<1>6. NoDup(q) /\ \A i \in 1 .. Len(q) : q[i] # f
  BY <1>4 DEF Frames, ToSet
<1> HIDE DEF q
<1>7. NoDup(Append(q, f))
  <2> SUFFICES ASSUME NEW i \in 1 .. Len(q) + 1, NEW j \in 1 .. Len(q) + 1,
                      Append(q, f)[i] = Append(q, f)[j]
               PROVE  i = j
    BY <1>4 DEF NoDup
  <2>1. (i \in 1 .. Len(q) \/ i = Len(q) + 1) /\ (j \in 1 .. Len(q) \/ j = Len(q) + 1)
    BY <1>4
  <2> QED  BY <1>4, <1>6, <2>1 DEF NoDup
<1> QED  BY <1>3, <1>5, <1>7 DEF Frames, q

LEMMA WithoutFrames ==
    ASSUME NEW x, SessionOK(x), NoDup(x.frames), NEW f \in Frame, f \in Frames(x), x.frames[1] # f
    PROVE  /\ Frames(Without(x, f)) = Frames(x) \ {f} /\ NoDup(Without(x, f).frames)
           /\ Without(x, f).frames # <<>>
<1> DEFINE q == RemoveFirst(x.frames, f)
           y == [x EXCEPT !.frames = q]
<1>1. x \in SessionRec /\ x.frames \in Seq(Frame) /\ x.frames # <<>>
  BY DEF SessionOK, SessionRec, Frames, ToSet
<1>2. q \in Seq(Frame) /\ q # <<>>
  BY <1>1, RemoveFirstType, RemoveFirstRoot
<1>3. ToSet(q) = ToSet(x.frames) \ {f} /\ NoDup(q)
  BY <1>1, RemoveFirstSet
<1>4. Without(x, f) = IF x.act = f THEN FallBack(y) ELSE y
  BY DEF Without
<1> HIDE DEF q
<1>5. y \in SessionRec /\ y.frames = q /\ Len(y.mru) <= MaxMRU
  BY <1>1, <1>2 DEF SessionRec, SessionOK
<1> HIDE DEF y
<1>6. FallBack(y).frames = y.frames
  BY <1>2, <1>5, FallBackType
<1> QED  BY <1>2, <1>3, <1>4, <1>5, <1>6 DEF Frames

LEMMA TruncatedFrames ==
    ASSUME NEW x, SessionOK(x), NoDup(x.frames), NEW f \in Frame, f \in Frames(x)
    PROVE  /\ Frames(Truncated(x, f)) \subseteq Frames(x) \ {f} /\ NoDup(Truncated(x, f).frames)
           /\ x.frames[1] # f => Truncated(x, f).frames # <<>>
<1> DEFINE q == x.frames
           i == CHOOSE j \in DOMAIN q : q[j] = f
           z == SubSeq(q, 1, i - 1)
<1>1. x \in SessionRec /\ q \in Seq(Frame) /\ i \in 1 .. Len(q) /\ q[i] = f /\ NoDup(q)
  BY DEF SessionOK, SessionRec, Frames, ToSet
<1>2. Truncated(x, f) = IF i = 1 THEN NoSession ELSE [x EXCEPT !.frames = z]
  BY DEF Truncated
<1> HIDE DEF i
<1>3. CASE i = 1
  BY <1>1, <1>2, <1>3 DEF NoSession, Frames, ToSet, NoDup
<1>4. CASE i # 1
  <2>1. Len(q) \in Nat /\ DOMAIN q = 1 .. Len(q) /\ i - 1 \in Nat /\ i - 1 <= Len(q) /\ i - 1 >= 1
    BY <1>1, <1>4
  <2>2. Len(z) = i - 1 /\ z \in Seq(Frame) /\ \A k \in 1 .. i - 1 : z[k] = q[k]
    BY <1>1, <2>1, SubSeqProperties
  <2>3. Truncated(x, f).frames = z
    BY <1>1, <1>2, <1>4 DEF SessionRec
  <2> HIDE DEF z, q
  <2>4. DOMAIN z = 1 .. i - 1 /\ \A k \in 1 .. i - 1 : k \in DOMAIN q /\ k # i
    BY <1>1, <2>1, <2>2
  <2>5. ToSet(z) \subseteq ToSet(q) \ {f} /\ NoDup(z)
    BY <1>1, <2>1, <2>2, <2>4 DEF ToSet, NoDup
  <2>6. z # <<>>
    BY <2>1, <2>2
  <2> QED  BY <2>3, <2>5, <2>6 DEF Frames, q
<1> QED  BY <1>3, <1>4

(***************************************************************************)
(* tmux: where panes are after a swap, a kill, an exit and a new window.   *)
(***************************************************************************)

\* The two TUIs are somewhere, nothing is in two places, neither 0.1 nor
\* __hidden__.0 is without a pane, and the log TUI is in one of the two.
Staged(slot) ==
    /\ OneSlot(slot)
    /\ Placed(slot, Main) /\ Placed(slot, Log)
    /\ slot[Main] # None /\ slot[Log] # None
    /\ slot[Log] = Log \/ slot[Main] = Log

\* The window of f does not exist, nor its pane.
Vacant(slot, f) == ~Placed(slot, f) /\ slot[f] = None

SlotMap == [Pane -> Pane \cup {None}]

LEMMA SwapPaneIs ==
    ASSUME NEW slot \in SlotMap, OneSlot(slot), NEW p \in Pane, Placed(slot, p)
    PROVE  \A w \in Pane : SwapPane(slot, p)[w] = IF w = Main THEN p
                                                  ELSE IF slot[w] = p THEN slot[Main] ELSE slot[w]
<1> DEFINE v == SlotOf(slot, p)
<1>1. v \in Pane /\ slot[v] = p
  BY SlotOfType
<1>2. SwapPane(slot, p) = Exchange(slot, v, Main)
  BY DEF SwapPane
<1> HIDE DEF v
<1>3. \A w \in Pane : slot[w] = p => w = v
  BY <1>1, PaneFacts DEF OneSlot
<1>4. \A w \in Pane : Exchange(slot, v, Main)[w] = IF w = Main THEN slot[v] ELSE IF w = v THEN slot[Main] ELSE slot[w]
  BY PaneFacts DEF Exchange, SlotMap
<1> QED  BY <1>1, <1>2, <1>3, <1>4

\* A frame, or the main TUI, comes to 0.1 from elsewhere than __hidden__.0.
LEMMA SwapPaneStaged ==
    ASSUME NEW slot \in SlotMap, Staged(slot), NEW p \in Pane, Placed(slot, p),
           p # Log, slot[Log] # p, slot[Main] # Log
    PROVE  LET new == SwapPane(slot, p)
           IN  /\ new \in SlotMap /\ Staged(new)
               /\ new[Main] = p /\ new[Log] = slot[Log]
               /\ \A q : Placed(new, q) <=> Placed(slot, q)
               /\ \A f \in Frame : Vacant(slot, f) => Vacant(new, f)
<1> DEFINE new == SwapPane(slot, p)
<1>1. new \in SlotMap
  BY SwapPaneType DEF SlotMap
<1>2. /\ OneSlot(new) /\ \A q : Placed(new, q) <=> Placed(slot, q)
      /\ \A f \in Frame : slot[f] = None => new[f] = None
  BY SwapPaneKeeps DEF Staged, SlotMap
<1>3. \A w \in Pane : new[w] = IF w = Main THEN p ELSE IF slot[w] = p THEN slot[Main] ELSE slot[w]
  BY SwapPaneIs DEF Staged
<1> HIDE DEF new
<1>4. new[Main] = p /\ new[Log] = slot[Log] /\ p # None /\ slot[Log] = Log
  BY <1>3, PaneFacts DEF Staged
<1>5. Staged(new)
  BY <1>2, <1>4, PaneFacts DEF Staged
<1>6. \A f \in Frame : Vacant(slot, f) => Vacant(new, f)
  BY <1>2 DEF Vacant
<1> QED  BY <1>1, <1>2, <1>4, <1>5, <1>6 DEF new

LEMMA HiddenStaged ==
    ASSUME NEW slot \in SlotMap, Staged(slot)
    PROVE  LET new == Exchange(slot, Log, Main)
           IN  /\ new \in SlotMap /\ Staged(new)
               /\ new[Main] = slot[Log] /\ new[Log] = slot[Main]
               /\ \A q : Placed(new, q) <=> Placed(slot, q)
               /\ \A f \in Frame : Vacant(slot, f) => Vacant(new, f)
<1> DEFINE new == Exchange(slot, Log, Main)
<1>1. new \in SlotMap
  BY ExchangeType, PaneFacts DEF SlotMap
<1>2. /\ OneSlot(new) /\ \A q : Placed(new, q) <=> Placed(slot, q)
      /\ new[Main] = slot[Log] /\ new[Log] = slot[Main]
      /\ \A u \in Pane \ {Log, Main} : new[u] = slot[u]
  BY ExchangeKeeps, PaneFacts DEF Staged, SlotMap
<1> HIDE DEF new
<1>3. Staged(new)
  BY <1>2 DEF Staged
<1>4. \A f \in Frame : Vacant(slot, f) => Vacant(new, f)
  BY <1>2, PaneFacts DEF Vacant
<1> QED  BY <1>1, <1>2, <1>3, <1>4 DEF new

\* Panes of frames go, but from 0.1 and __hidden__.0.
LEMMA GoneStaged ==
    ASSUME NEW slot \in SlotMap, Staged(slot), NEW new \in SlotMap,
           new[Main] = slot[Main], new[Log] = slot[Log],
           \A w \in Pane : new[w] = slot[w] \/ (new[w] = None /\ slot[w] \in Frame)
    PROVE  Staged(new) /\ \A f \in Frame : Vacant(slot, f) => Vacant(new, f)
<1>1. \A p \in {Main, Log} : Placed(slot, p) => Placed(new, p)
  BY PaneFacts DEF Placed
<1>2. OneSlot(new)
  BY DEF Staged, OneSlot
<1>3. \A f \in Frame : Vacant(slot, f) => Vacant(new, f)
  BY PaneFacts DEF Vacant, Placed
<1> QED  BY <1>1, <1>2, <1>3 DEF Staged

\* A window of its own for a frame that is nowhere else.
LEMMA WindowStaged ==
    ASSUME NEW slot \in SlotMap, Staged(slot), NEW f \in Frame, slot[f] \in {f, None},
           \A w \in Pane : slot[w] = f => w = f,
           NEW p \in {f, None}
    PROVE  LET new == [slot EXCEPT ![f] = p]
           IN  /\ new \in SlotMap /\ Staged(new)
               /\ new[Main] = slot[Main] /\ new[Log] = slot[Log]
               /\ \A g \in Frame : g # f /\ Vacant(slot, g) => Vacant(new, g)
<1> DEFINE new == [slot EXCEPT ![f] = p]
<1>1. new \in SlotMap /\ \A w \in Pane : new[w] = IF w = f THEN p ELSE slot[w]
  BY PaneFacts DEF SlotMap
<1> HIDE DEF new
<1>2. new[Main] = slot[Main] /\ new[Log] = slot[Log]
  BY <1>1, PaneFacts
<1>3. OneSlot(new)
  BY <1>1 DEF Staged, OneSlot
<1>4. \A q \in {Main, Log} : Placed(slot, q) => Placed(new, q)
  <2> SUFFICES ASSUME NEW q \in {Main, Log}, NEW w \in Pane, slot[w] = q
               PROVE  new[w] = q
    BY DEF Placed
  <2> QED  BY <1>1, PaneFacts
<1>5. \A g \in Frame : g # f /\ Vacant(slot, g) => Vacant(new, g)
  BY <1>1, PaneFacts DEF Vacant, Placed
<1> QED  BY <1>1, <1>2, <1>3, <1>4, <1>5 DEF Staged, new

(***************************************************************************)
(* The same without the TUIs: nothing is in two places, 0.1 has a pane.    *)
(***************************************************************************)

Apart(slot) == OneSlot(slot) /\ slot[Main] # None

\* new has nothing in a window that was not there, or did not exist, in slot.
VacancyKept(slot, new) == \A f \in Frame : Vacant(slot, f) => Vacant(new, f)

LEMMA StagedApart == ASSUME NEW slot, Staged(slot) PROVE Apart(slot)
  BY DEF Staged, Apart

LEMMA SwapPaneApart ==
    ASSUME NEW slot \in SlotMap, Apart(slot), NEW p \in Pane, Placed(slot, p)
    PROVE  LET new == SwapPane(slot, p)
           IN  new \in SlotMap /\ Apart(new) /\ new[Main] = p /\ VacancyKept(slot, new)
<1> DEFINE new == SwapPane(slot, p)
<1>1. new \in SlotMap
  BY SwapPaneType DEF SlotMap
<1>2. /\ OneSlot(new) /\ new[Main] = p /\ \A q : Placed(new, q) <=> Placed(slot, q)
      /\ \A f \in Frame : slot[f] = None => new[f] = None
  BY SwapPaneKeeps DEF Apart, SlotMap
<1> HIDE DEF new
<1>3. Apart(new)
  BY <1>2, PaneFacts DEF Apart
<1>4. VacancyKept(slot, new)
  BY <1>2 DEF Vacant, VacancyKept
<1> QED  BY <1>1, <1>2, <1>3, <1>4 DEF new

LEMMA HiddenApart ==
    ASSUME NEW slot \in SlotMap, Apart(slot), slot[Log] # None
    PROVE  LET new == Exchange(slot, Log, Main)
           IN  new \in SlotMap /\ Apart(new) /\ VacancyKept(slot, new)
<1> DEFINE new == Exchange(slot, Log, Main)
<1>1. new \in SlotMap
  BY ExchangeType, PaneFacts DEF SlotMap
<1>2. /\ OneSlot(new) /\ \A q : Placed(new, q) <=> Placed(slot, q)
      /\ new[Main] = slot[Log] /\ \A u \in Pane \ {Log, Main} : new[u] = slot[u]
  BY ExchangeKeeps, PaneFacts DEF Apart, SlotMap
<1> HIDE DEF new
<1>3. VacancyKept(slot, new)
  BY <1>2, PaneFacts DEF Vacant, VacancyKept
<1> QED  BY <1>1, <1>2, <1>3 DEF new, Apart

\* Panes go, but from 0.1.
LEMMA GoneApart ==
    ASSUME NEW slot \in SlotMap, Apart(slot), NEW new \in SlotMap,
           new[Main] = slot[Main], \A w \in Pane : new[w] \in {slot[w], None}
    PROVE  Apart(new) /\ VacancyKept(slot, new)
<1>1. OneSlot(new)
  BY DEF Apart, OneSlot
<1>2. VacancyKept(slot, new)
  BY PaneFacts DEF Vacant, Placed, VacancyKept
<1> QED  BY <1>1, <1>2 DEF Apart

\* A window for a pane that is nowhere else.
LEMMA WindowApart ==
    ASSUME NEW slot \in SlotMap, Apart(slot), NEW v \in Pane \ {Main},
           \A w \in Pane : slot[w] = v => w = v, NEW p \in {v, None}
    PROVE  LET new == [slot EXCEPT ![v] = p]
           IN  /\ new \in SlotMap /\ Apart(new) /\ new[Main] = slot[Main]
               /\ \A g \in Frame : g # v /\ Vacant(slot, g) => Vacant(new, g)
<1> DEFINE new == [slot EXCEPT ![v] = p]
<1>1. new \in SlotMap /\ \A w \in Pane : new[w] = IF w = v THEN p ELSE slot[w]
  BY PaneFacts DEF SlotMap
<1> HIDE DEF new
<1>2. new[Main] = slot[Main]
  BY <1>1, PaneFacts
<1>3. OneSlot(new)
  BY <1>1 DEF Apart, OneSlot
<1>4. \A g \in Frame : g # v /\ Vacant(slot, g) => Vacant(new, g)
  BY <1>1, PaneFacts DEF Vacant, Placed
<1> QED  BY <1>1, <1>2, <1>3, <1>4 DEF Apart, new

=============================================================================
