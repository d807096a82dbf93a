---------------------------- MODULE AgentsProofs ----------------------------
(***************************************************************************)
(* Proofs about module Agents, for any session, any kinds of job and any   *)
(* bounds.  Sections 1 to 3: no message between frames is lost, repeated   *)
(* or reordered, and none waits for a frame that is not busy; the two are  *)
(* proved together, as a message that is handed over at once keeps its     *)
(* turn only because the inbox of a frame that is not busy is empty.       *)
(* Sections 4 to 7: hooks that overtake each other.  Sections 8 to 11: the *)
(* flags and the table of jobs; section 12: the transcripts shown; section *)
(* 13: the calls logged as approved.                                       *)
(*                                                                         *)
(* Sections 1, 4 and 8 say what the handlers of the drivers do to one      *)
(* driver state, the others what the steps of the event loop make of it.   *)
(***************************************************************************)
EXTENDS Agents, Lists, SequenceTheorems, TLAPS

-----------------------------------------------------------------------------
(* 1. Handlers of the drivers.                                             *)

Fields == {"driver", "status", "hookAt", "primed", "osc", "fresh", "hang", "busy", "flight",
           "tools", "title", "path", "watched", "shown", "inbox", "jobs", "watch", "log"}

\* A driver state has all fields of NewState.
IsState(st) == DOMAIN st = Fields

\* What a handler makes of st is a state of the same driver with the inbox of st.
Kept(st, t) == IsState(t) /\ t.driver = st.driver /\ t.inbox = st.inbox

\* It has also the pending calls of st, and logs what st does.
Quiet(st, t) == Kept(st, t) /\ t.tools = st.tools /\ t.log = st.log

\* The pending calls a permission prompt was taken to be about.
Marked(tools) == {t \in DOMAIN tools : tools[t]}

\* What hook h makes of a state s with nothing to log: a prompt may mark one more
\* call, and a call that is logged as approved gives up a mark.
Logged(s, t, h) ==
  /\ Kept(s, t)
  /\ \/ t.log = {} /\ Marked(t.tools) \subseteq Marked(s.tools)
     \/ /\ t.log = {} /\ h.event = "ask"
        /\ \E m : Marked(t.tools) \subseteq Marked(s.tools) \union {m}
     \/ \E e : /\ t.log = {e} /\ e.frame = h.frame
               /\ \/ e.kind # "approved" /\ Marked(t.tools) \subseteq Marked(s.tools)
                  \/ \E m \in Marked(s.tools) : Marked(t.tools) \subseteq Marked(s.tools) \ {m}

LEMMA NewStateIs ==
    ASSUME NEW d
    PROVE  IsState(NewState(d)) /\ NewState(d).log = {} /\ NewState(d).inbox = << >>
  BY DEF NewState, IsState, Fields

LEMMA SharedQuiet ==
    ASSUME NEW st, IsState(st)
    PROVE  /\ \A kind : Quiet(st, Launch(st, kind)) /\ Quiet(st, Landed(st, kind))
           /\ Quiet(st, LaunchParse(st)) /\ Quiet(st, Watch(st))
           /\ \A status : Quiet(st, WithStatus(st, status))
           /\ Quiet(st, ResetHangDetection(st))
           /\ \A h : Quiet(st, Accepted(st, h))
<1>1. \A kind : Quiet(st, Launch(st, kind)) /\ Quiet(st, Landed(st, kind))
  BY DEF Quiet, Kept, IsState, Fields, Launch, Landed
<1>2. Quiet(st, LaunchParse(st))
  BY <1>1 DEF Quiet, Kept, LaunchParse
<1>3. Quiet(st, Watch(st))
  BY DEF Quiet, Kept, IsState, Fields, Watch
<1>4. \A status : Quiet(st, WithStatus(st, status))
  BY DEF Quiet, Kept, IsState, Fields, WithStatus
<1>5. Quiet(st, ResetHangDetection(st))
  BY DEF Quiet, Kept, IsState, Fields, ResetHangDetection
<1>6. \A h : Quiet(st, Accepted(st, h))
  BY DEF Quiet, Kept, IsState, Fields, Accepted, ResetHangDetection
<1> QED  BY <1>1, <1>2, <1>3, <1>4, <1>5, <1>6

LEMMA QuietState ==
    ASSUME NEW s, NEW t, Quiet(s, t)
    PROVE  IsState(t)
  BY DEF Quiet, Kept

LEMMA QuietTrans ==
    ASSUME NEW s, NEW t, NEW u, Quiet(s, t), Quiet(t, u)
    PROVE  Quiet(s, u)
  BY DEF Quiet, Kept

LEMMA QuietSame ==
    ASSUME NEW st, IsState(st)
    PROVE  Quiet(st, st)
  BY DEF Quiet, Kept

LEMMA QuietLogged ==
    ASSUME NEW s, NEW t, NEW h, Quiet(s, t), s.log = {}
    PROVE  Logged(s, t, h)
  BY DEF Quiet, Logged

LEMMA LoggedTrans ==
    ASSUME NEW s, NEW t, NEW u, NEW h,
           \/ Logged(s, t, h) /\ Quiet(t, u)
           \/ Quiet(s, t) /\ Logged(t, u, h)
    PROVE  Logged(s, u, h)
<1>1. CASE Logged(s, t, h) /\ Quiet(t, u)
  BY <1>1 DEF Quiet, Kept, Logged
<1>2. CASE Quiet(s, t) /\ Logged(t, u, h)
  BY <1>2 DEF Quiet, Kept, Logged
<1> QED  BY <1>1, <1>2

\* The pending calls with x, without x, and with a mark on x.
MoreCalls(tools, x) == [t \in DOMAIN tools \union {x} |-> t # x /\ tools[t]]
LessCalls(tools, x) == [t \in {t \in DOMAIN tools : t # x} |-> tools[t]]
WithMark(tools, x) == [tools EXCEPT ![x] = TRUE]

\* A call that is begun or struck is not marked, and a prompt marks one.
LEMMA MarkedAre ==
    ASSUME NEW tools, NEW x
    PROVE  /\ Marked(MoreCalls(tools, x)) \subseteq Marked(tools)
           /\ Marked(LessCalls(tools, x)) \subseteq Marked(tools) \ {x}
           /\ Marked(WithMark(tools, x)) \subseteq Marked(tools) \union {x}
           /\ Marked(<< >>) = {}
<1>1. Marked(MoreCalls(tools, x)) \subseteq Marked(tools)
  <2>1. /\ DOMAIN MoreCalls(tools, x) = DOMAIN tools \union {x}
        /\ \A t \in DOMAIN MoreCalls(tools, x) : MoreCalls(tools, x)[t] = (t # x /\ tools[t])
    BY DEF MoreCalls
  <2> QED  BY <2>1 DEF Marked
<1>2. Marked(LessCalls(tools, x)) \subseteq Marked(tools) \ {x}
  BY DEF Marked, LessCalls
<1>3. Marked(WithMark(tools, x)) \subseteq Marked(tools) \union {x}
  BY DEF Marked, WithMark
<1>4. Marked(<< >>) = {}
  BY DEF Marked
<1> QED  BY <1>1, <1>2, <1>3, <1>4

LEMMA ToolLogLogged ==
    ASSUME NEW st, NEW h, IsState(st), st.log = {}
    PROVE  Logged(st, ToolLog(st, h), h)
<1> DEFINE t == ToolLog(st, h)
           begun == MoreCalls(st.tools, h.tool)
           struck == LessCalls(st.tools, h.tool)
           next == Min({x \in DOMAIN st.tools : ~st.tools[x]})
           asked == WithMark(st.tools, next)
           kind == IF h.tool \notin DOMAIN st.tools THEN "orphan"
                   ELSE IF st.tools[h.tool] THEN "approved" ELSE "auto"
<1> SUFFICES Logged(st, t, h)
  OBVIOUS
<1>1. Kept(st, t)
  BY DEF Kept, IsState, Fields, ToolLog, RestrictDomain
<1>2. /\ Marked(begun) \subseteq Marked(st.tools)
      /\ Marked(struck) \subseteq Marked(st.tools) \ {h.tool}
      /\ Marked(asked) \subseteq Marked(st.tools) \union {next} /\ Marked(<< >>) = {}
  <2> HIDE DEF next
  <2> QED  BY MarkedAre
<1>3. CASE t = st
  BY <1>1, <1>3 DEF Logged
<1>4. CASE t = [st EXCEPT !.tools = begun]
  <2> HIDE DEF begun, t
  <2>1. t.log = {} /\ t.tools = begun
    BY <1>4 DEF IsState, Fields
  <2> QED  BY <1>1, <1>2, <2>1 DEF Logged
<1>5. CASE h.event = "ask" /\ t = [st EXCEPT !.tools = asked]
  <2> HIDE DEF asked, next, t
  <2>1. t.log = {} /\ t.tools = asked
    BY <1>5 DEF IsState, Fields
  <2> QED  BY <1>1, <1>2, <1>5, <2>1 DEF Logged
<1>6. CASE \E k : /\ k = "failed" \/ k = kind
                  /\ t = [st EXCEPT !.tools = struck,
                                    !.log = {[frame |-> h.frame, tool |-> h.tool, kind |-> k]}]
  <2>1. PICK k : /\ k = "failed" \/ k = kind
                 /\ t = [st EXCEPT !.tools = struck,
                                   !.log = {[frame |-> h.frame, tool |-> h.tool, kind |-> k]}]
    BY <1>6
  <2> DEFINE e == [frame |-> h.frame, tool |-> h.tool, kind |-> k]
  <2>2. e.frame = h.frame /\ e.kind = k
    OBVIOUS
  <2> HIDE DEF struck, t, e
  <2>3. t.log = {e} /\ t.tools = struck
    BY <2>1 DEF IsState, Fields, e
  <2>4. CASE k # "approved"
    BY <1>1, <1>2, <2>2, <2>3, <2>4 DEF Logged
  <2>5. CASE k = "approved"
    <3>1. h.tool \in DOMAIN st.tools /\ st.tools[h.tool]
      BY <2>1, <2>5
    <3>2. h.tool \in Marked(st.tools)
      BY <3>1 DEF Marked
    <3> QED  BY <1>1, <1>2, <2>2, <2>3, <3>2 DEF Logged
  <2> QED  BY <2>4, <2>5
<1>7. CASE t = [st EXCEPT !.tools = << >>]
  <2> HIDE DEF t
  <2>1. t.log = {} /\ t.tools = << >>
    BY <1>7 DEF IsState, Fields
  <2> QED  BY <1>1, <1>2, <2>1 DEF Logged
<1>8. \/ t = st \/ t = [st EXCEPT !.tools = begun] \/ t = [st EXCEPT !.tools = << >>]
      \/ h.event = "ask" /\ t = [st EXCEPT !.tools = asked]
      \/ t = [st EXCEPT !.tools = struck,
                        !.log = {[frame |-> h.frame, tool |-> h.tool, kind |-> "failed"]}]
      \/ t = [st EXCEPT !.tools = struck,
                        !.log = {[frame |-> h.frame, tool |-> h.tool, kind |-> kind]}]
  <2>1. CASE h.event = "ask"
    BY <2>1 DEF ToolLog, WithMark
  <2>2. CASE h.event = "pre"
    BY <2>2 DEF ToolLog, MoreCalls
  <2>3. CASE h.event = "post"
    BY <2>3 DEF ToolLog, RestrictDomain, Restrict, LessCalls
  <2>4. CASE h.event \notin {"ask", "pre", "post"}
    BY <2>4 DEF ToolLog, RestrictDomain, Restrict, LessCalls
  <2> QED  BY <2>1, <2>2, <2>3, <2>4
<1> HIDE DEF t, begun, struck, asked, kind
<1> QED  BY <1>3, <1>4, <1>5, <1>6, <1>7, <1>8 DEF t

LEMMA ClaudeHookLogged ==
    ASSUME NEW st, NEW h, NEW root, IsState(st), st.log = {}
    PROVE  Logged(st, ClaudeHook(st, h, root), h)
<1> DEFINE acc == Accepted(st, h)
<1>0. Quiet(st, acc) /\ IsState(acc) /\ acc.log = {}
  BY SharedQuiet DEF Quiet, Kept
<1> HIDE DEF acc
<1>1. ASSUME NEW s, IsState(s)
      PROVE  Quiet(s, LaunchParse(s)) /\ Quiet(s, Watch(s)) /\ IsState(Watch(s))
             /\ \A status : Quiet(s, WithStatus(s, status))
  BY <1>1, SharedQuiet DEF Quiet, Kept
<1>2. Logged(st, ClaudeStart(st, h, root), h)
  <2> DEFINE w == WithStatus(acc, "idle")
             a == [w EXCEPT !.tools = << >>, !.path = h.path]
             b == IF a.watched = a.path THEN a ELSE LaunchParse(Watch(a))
  <2>1. Quiet(st, w)
    BY <1>0, <1>1, QuietTrans
  <2>2. IsState(a) /\ Logged(st, a, h)
    <3> HIDE DEF w
    <3>1. Kept(st, a) /\ a.log = {} /\ a.tools = << >>
      BY <2>1 DEF Quiet, Kept, IsState, Fields
    <3>2. Marked(<< >>) = {}
      BY MarkedAre
    <3> HIDE DEF a
    <3> QED  BY <3>1, <3>2 DEF Kept, Logged
  <2>3. ClaudeStart(st, h, root) = IF root THEN Launch(b, "branch") ELSE b
    BY DEF ClaudeStart, acc
  <2> HIDE DEF w, a
  <2>4. Quiet(a, Watch(a)) /\ Quiet(Watch(a), LaunchParse(Watch(a)))
    BY <1>1, <2>2
  <2>5. Quiet(a, b)
    BY <2>2, <2>4, QuietTrans, QuietSame
  <2>6. IsState(b)
    BY <2>5 DEF Quiet, Kept
  <2> HIDE DEF b
  <2>7. Quiet(b, Launch(b, "branch"))
    BY <2>6, SharedQuiet
  <2>8. Quiet(a, ClaudeStart(st, h, root))
    BY <2>3, <2>5, <2>7, QuietTrans
  <2> QED  BY <2>2, <2>8, LoggedTrans
<1>3. Quiet(acc, ClaudePrompt(acc, h))
  <2> DEFINE w == WithStatus(acc, "running")
             a == [w EXCEPT !.path = h.path]
  <2>1. Quiet(acc, w)
    BY <1>0, <1>1
  <2>2. Quiet(acc, a)
    BY <2>1 DEF Quiet, Kept, IsState, Fields
  <2>3. ClaudePrompt(acc, h) = LaunchParse(Launch(a, "summary"))
    BY DEF ClaudePrompt
  <2> HIDE DEF a
  <2>4. Quiet(a, Launch(a, "summary"))
    BY <2>2, SharedQuiet DEF Quiet, Kept
  <2>5. Quiet(Launch(a, "summary"), LaunchParse(Launch(a, "summary")))
    BY <2>4, SharedQuiet DEF Quiet, Kept
  <2> QED  BY <2>2, <2>3, <2>4, <2>5, QuietTrans
<1>4. Logged(acc, ClaudeOther(acc, h), h)
  <2> DEFINE l == ToolLog(acc, h)
             w == WithStatus(l, StatusOf.claude[h.event])
             a == [w EXCEPT !.path = h.path]
  <2>1. Logged(acc, l, h)
    BY <1>0, ToolLogLogged
  <2>2. ClaudeOther(acc, h) \in {LaunchParse(a), l}
    BY DEF ClaudeOther
  <2>3. IsState(l)
    BY <2>1 DEF Logged, Kept
  <2> HIDE DEF l
  <2>4. Quiet(l, w)
    BY <1>1, <2>3
  <2> HIDE DEF w
  <2>5. Quiet(l, a)
    BY <2>4 DEF Quiet, Kept, IsState, Fields
  <2> HIDE DEF a
  <2>6. Quiet(a, LaunchParse(a))
    BY <1>1, <2>5 DEF Quiet, Kept
  <2>7. Quiet(l, LaunchParse(a))
    BY <2>5, <2>6, QuietTrans
  <2> QED  BY <2>1, <2>2, <2>7, LoggedTrans
<1>5. Logged(st, ClaudeOther(acc, h), h) /\ Quiet(st, ClaudePrompt(acc, h)) /\ Quiet(st, st)
  BY <1>0, <1>3, <1>4, LoggedTrans, QuietTrans, QuietSame
<1>6. ClaudeHook(st, h, root) \in {ClaudeStart(st, h, root), st, acc, ClaudePrompt(acc, h),
                                   ClaudeOther(acc, h)}
  BY DEF ClaudeHook, acc
<1> QED  BY <1>0, <1>2, <1>5, <1>6, QuietLogged

LEMMA OtherHooksQuiet ==
    ASSUME NEW st, NEW h, NEW root, IsState(st)
    PROVE  Quiet(st, CodexHook(st, h, root)) /\ Quiet(st, GeminiHook(st, h, root))
<1>0. Quiet(st, [Accepted(st, h) EXCEPT !.path = h.path])
  BY DEF Accepted, ResetHangDetection, Quiet, Kept, IsState, Fields
<1>1. ASSUME NEW s, IsState(s)
      PROVE  Quiet(s, HookStatus(s, h)) /\ Quiet(s, Watch(s)) /\ Quiet(s, LaunchParse(s))
             /\ \A kind : Quiet(s, Launch(s, kind))
  BY <1>1, SharedQuiet, QuietSame DEF HookStatus
<1>2. Quiet(st, CodexHook(st, h, root))
  <2> DEFINE p == [Accepted(st, h) EXCEPT !.path = h.path]
             a == HookStatus(Watch(p), h)
  <2>1. Quiet(st, Watch(p))
    BY <1>0, <1>1, QuietTrans, QuietState
  <2>2. Quiet(st, a)
    BY <1>1, <2>1, QuietTrans, QuietState
  <2>3. Quiet(st, LaunchParse(a)) /\ Quiet(st, Launch(a, "summary"))
    BY <1>1, <2>2, QuietTrans, QuietState
  <2> HIDE DEF a
  <2>4. Quiet(LaunchParse(a), Launch(LaunchParse(a), "branch"))
        /\ Quiet(Launch(a, "summary"), LaunchParse(Launch(a, "summary")))
    BY <1>1, <2>3, QuietState
  <2>6. Quiet(st, Launch(LaunchParse(a), "branch")) /\ Quiet(st, LaunchParse(Launch(a, "summary")))
    BY <2>3, <2>4, QuietTrans
  <2>5. CodexHook(st, h, root) \in {st, a, LaunchParse(a), Launch(LaunchParse(a), "branch"),
                                    LaunchParse(Launch(a, "summary"))}
    BY DEF CodexHook, a
  <2> QED  BY <2>2, <2>3, <2>5, <2>6, QuietSame
<1>3. Quiet(st, GeminiHook(st, h, root))
  <2> DEFINE a == HookStatus([Accepted(st, h) EXCEPT !.path = h.path], h)
  <2>1. Quiet(st, a)
    BY <1>0, <1>1, QuietTrans, QuietState
  <2>2. Quiet(st, Launch(a, "branch"))
    BY <1>1, <2>1, QuietTrans, QuietState
  <2>3. GeminiHook(st, h, root) \in {st, a, Launch(a, "branch")}
    BY DEF GeminiHook
  <2> HIDE DEF a
  <2> QED  BY <2>1, <2>2, <2>3, QuietSame
<1> QED  BY <1>2, <1>3

LEMMA HookLogged ==
    ASSUME NEW st, NEW h, NEW root, IsState(st), st.log = {}
    PROVE  Logged(st, Hook(st, h, root), h)
<1>1. Hook(st, h, root) \in {ClaudeHook(st, h, root), CodexHook(st, h, root),
                             GeminiHook(st, h, root), st}
  BY DEF Hook
<1> QED  BY <1>1, ClaudeHookLogged, OtherHooksQuiet, QuietSame, QuietLogged

LEMMA TickQuiet ==
    ASSUME NEW st, NEW active, NEW due, NEW stride, IsState(st)
    PROVE  Quiet(st, Ticked(st, active, due, stride))
<1>1. Quiet(st, PollingTick(st, active, due))
  BY SharedQuiet, QuietSame DEF PollingTick
<1>2. Quiet(st, CommonTick(st, active, due, stride))
  <2> DEFINE a == IF active /\ due THEN Launch(st, "branch") ELSE st
             b == IF ~active /\ st.status = "running" /\ (~st.primed \/ stride)
                  THEN Launch(a, "capture") ELSE a
             c == WithStatus(b, "stopped")
  <2>1. Quiet(st, a) /\ IsState(a)
    BY SharedQuiet, QuietSame DEF Quiet, Kept
  <2>2. Quiet(a, b)
    <3> HIDE DEF a
    <3> QED  BY <2>1, SharedQuiet, QuietSame
  <2>3. Quiet(st, b) /\ IsState(b)
    <3> HIDE DEF a, b
    <3> QED  BY <2>1, <2>2, QuietTrans, QuietState
  <2>4. Quiet(b, c)
    <3> HIDE DEF b
    <3> QED  BY <2>3, SharedQuiet
  <2>5. CommonTick(st, active, due, stride) \in {st, [c EXCEPT !.hang = TRUE], b}
    BY DEF CommonTick
  <2> HIDE DEF a, b, c
  <2>6. Quiet(st, [c EXCEPT !.hang = TRUE])
    BY <2>3, <2>4 DEF Quiet, Kept, IsState, Fields
  <2> QED  BY <2>3, <2>5, <2>6, QuietSame
<1> QED  BY <1>1, <1>2 DEF Ticked

LEMMA ScreenQuiet ==
    ASSUME NEW st, NEW title, NEW path, IsState(st)
    PROVE  /\ Quiet(st, HandleActivity(st))
           /\ Quiet(st, HandleWindowTitle(st, title))
           /\ Quiet(st, HandleTranscriptChanged(st, path))
           /\ Quiet(st, WarmStartRecover(st))
<1>1. Quiet(st, HandleActivity(st))
  BY SharedQuiet, QuietSame DEF HandleActivity
<1>2. Quiet(st, HandleWindowTitle(st, title))
  <2> DEFINE a == [st EXCEPT !.title = title]
  <2>1. Quiet(st, a)
    BY DEF Quiet, Kept, IsState, Fields
  <2>2. HandleWindowTitle(st, title) \in {st, a, WithStatus(a, "waiting"), WithStatus(a, "running")}
    BY DEF HandleWindowTitle
  <2> HIDE DEF a
  <2>3. Quiet(a, WithStatus(a, "waiting")) /\ Quiet(a, WithStatus(a, "running"))
    BY <2>1, SharedQuiet, QuietState
  <2> QED  BY <2>1, <2>2, <2>3, QuietTrans, QuietSame
<1>3. ASSUME NEW s, Quiet(st, s)
      PROVE  Quiet(st, LaunchParse(Watch(s)))
  <2>1. Quiet(s, Watch(s))
    BY <1>3, SharedQuiet, QuietState
  <2>2. Quiet(Watch(s), LaunchParse(Watch(s)))
    BY <2>1, SharedQuiet, QuietState
  <2> QED  BY <1>3, <2>1, <2>2, QuietTrans
<1>4. Quiet(st, HandleTranscriptChanged(st, path))
  <2> DEFINE s == IF st.path = 0 THEN [st EXCEPT !.path = path] ELSE st
  <2>1. Quiet(st, s)
    BY DEF Quiet, Kept, IsState, Fields
  <2>2. HandleTranscriptChanged(st, path) \in {LaunchParse(Watch(s)), LaunchParse(Watch(st)), st}
    BY DEF HandleTranscriptChanged
  <2> HIDE DEF s
  <2> QED  BY <1>3, <2>1, <2>2, QuietSame
<1>5. Quiet(st, WarmStartRecover(st))
  BY <1>3, QuietSame DEF WarmStartRecover
<1> QED  BY <1>1, <1>2, <1>4, <1>5

LEMMA ResultQuiet ==
    ASSUME NEW st, NEW r, NEW job, IsState(st)
    PROVE  Quiet(st, HandleJobResult(st, r, job))
<1>1. Quiet(st, HandleCapture(st, r))
  BY SharedQuiet DEF HandleCapture, Quiet, Kept, IsState, Fields
<1>2. Quiet(st, HandleParse(st, r, job))
  BY SharedQuiet DEF HandleParse, Quiet, Kept, IsState, Fields
<1>3. Quiet(st, PollingBaseline(st, r)) /\ Quiet(st, IdleThresholdFallback(st))
  BY DEF PollingBaseline, IdleThresholdFallback, Quiet, Kept, IsState, Fields
<1>4. Quiet(st, GenericCapture(st, r)) /\ Quiet(st, ShellCapture(st, r))
  <2> DEFINE marked == [st EXCEPT !.osc = TRUE, !.fresh = @ \/ r.changed,
                    !.status = CASE r.mark = "command" -> "running"
                                 [] r.mark = "complete" -> "waiting"
                                 [] OTHER -> @]
             quiet == [st EXCEPT !.status = "waiting"]
  <2>1. Quiet(st, marked) /\ Quiet(st, quiet)
    BY DEF Quiet, Kept, IsState, Fields
  <2>2. ShellCapture(st, r) \in {marked, PollingBaseline(st, r), quiet, IdleThresholdFallback(st)}
    BY DEF ShellCapture
  <2>3. GenericCapture(st, r) \in {PollingBaseline(st, r), IdleThresholdFallback(st)}
    BY DEF GenericCapture
  <2> HIDE DEF marked, quiet
  <2> QED  BY <1>3, <2>1, <2>2, <2>3
<1>5. Quiet(st, PollingCapture(st, r))
  <2> DEFINE next == IF st.driver = "shell" THEN ShellCapture(st, r) ELSE GenericCapture(st, r)
  <2>1. Quiet(st, next)
    BY <1>4
  <2>2. PollingCapture(st, r) \in {st, Launch(next, "summary"), next}
    BY DEF PollingCapture
  <2> HIDE DEF next
  <2>3. Quiet(next, Launch(next, "summary"))
    BY <2>1, SharedQuiet, QuietState
  <2> QED  BY <2>1, <2>2, <2>3, QuietTrans, QuietSame
<1>6. HandleJobResult(st, r, job) \in {Landed(st, job.kind), HandleParse(st, r, job),
                                       PollingCapture(st, r), HandleCapture(st, r)}
  BY DEF HandleJobResult
<1> QED  BY <1>1, <1>2, <1>5, <1>6, SharedQuiet

-----------------------------------------------------------------------------
(* 2. The event loop.                                                      *)

\* What holds of a frame in state st that was sent s and of which g were tried,
\* while the daemon is in phase ph.  No inbox outlives the daemon, so none is to be
\* delivered when it is back.
FrameOk(st, s, g, ph) ==
  /\ s \in Seq(Nat) /\ g \in Seq(Nat)
  /\ st = Unborn => s = << >> /\ g = << >>
  /\ st \notin {Gone, Unborn} =>
       /\ IsState(st) /\ st.log = {} /\ st.inbox \in Seq(Nat)
       /\ s = g \o st.inbox
       /\ (~Blocking(st.status) \/ ph = "down") => st.inbox = << >>

\* What did not get there is among the n that were tried, and since the pane is
\* registered, which was after the first si, nothing was lost.
LostOk(p, si, n, lost) ==
  /\ lost \subseteq 1 .. n
  /\ p = "there" => lost \subseteq 1 .. si

LostInv ==
  /\ pane = [f \in Frames |-> pane[f]] /\ silent = [f \in Frames |-> silent[f]]
  /\ failed = [f \in Frames |-> failed[f]]
  /\ \A f \in Frames : LostOk(pane[f], silent[f], Len(tried[f]), failed[f])

InboxInv ==
  /\ frames = [f \in Frames |-> frames[f]]
  /\ sent = [f \in Frames |-> sent[f]] /\ tried = [f \in Frames |-> tried[f]]
  /\ phase \in {"loop", "stopping", "down"}
  /\ \A f \in Frames : FrameOk(frames[f], sent[f], tried[f], phase)
  /\ LostInv

\* No driver state is one of the two that stand for a frame without a driver.
LEMMA StateIsLive ==
    ASSUME NEW st, IsState(st)
    PROVE  st \notin {Gone, Unborn}
  BY DEF IsState, Fields, Gone, Unborn

LEMMA AppendConcat ==
    ASSUME NEW s \in Seq(Nat), NEW t \in Seq(Nat), NEW msg \in Nat
    PROVE  Append(s \o t, msg) = s \o Append(t, msg)
<1>1. <<msg>> \in Seq(Nat) /\ s \o t \in Seq(Nat)
  BY ConcatProperties
<1>2. Append(s \o t, msg) = (s \o t) \o <<msg>> /\ Append(t, msg) = t \o <<msg>>
  BY <1>1, AppendIsConcat
<1> QED  BY <1>1, <1>2, ConcatAssociative

LEMMA InboxInit == Init => InboxInv
<1> SUFFICES ASSUME Init
             PROVE  InboxInv
  OBVIOUS
<1>1. \A f \in Frames : FrameOk(Unborn, << >>, << >>, "loop")
  BY EmptySeq DEF FrameOk
<1>2. \A f \in Frames : LostOk("none", 0, Len(<< >>), {})
  BY DEF LostOk
<1> QED  BY <1>1, <1>2 DEF Init, InboxInv, LostInv

\* What is injected is lost as a whole, or not at all.
LEMMA InjectLost ==
    ASSUME InboxInv, NEW f \in Frames, NEW msgs \in Seq(Nat), Inject(f, msgs), tried[f] \in Seq(Nat),
           UNCHANGED <<pane, silent>>
    PROVE  /\ tried' = [tried EXCEPT ![f] = tried[f] \o msgs]
           /\ tried'[f] = tried[f] \o msgs /\ tried'[f] \in Seq(Nat)
           /\ LostInv'
<1> DEFINE n == Len(tried[f])   m == Len(msgs)
           lost == IF pane[f] = "there" THEN failed[f] ELSE failed[f] \union (n + 1 .. n + m)
<1>1. n \in Nat /\ m \in Nat
  BY LenProperties
<1>2. tried' = [tried EXCEPT ![f] = tried[f] \o msgs] /\ tried'[f] = tried[f] \o msgs
  BY DEF Inject, InboxInv
<1>3. tried'[f] \in Seq(Nat) /\ Len(tried'[f]) = n + m
  BY <1>2, ConcatProperties
<1>4. failed' = [failed EXCEPT ![f] = lost] /\ failed'[f] = lost
  BY DEF Inject, InboxInv, LostInv
<1>5. LostOk(pane[f], silent[f], n, failed[f])
  BY DEF InboxInv, LostInv
<1>6. LostOk(pane[f], silent[f], n + m, lost)
  <2> HIDE DEF n, m
  <2>1. 1 .. n \subseteq 1 .. n + m /\ n + 1 .. n + m \subseteq 1 .. n + m
    BY <1>1
  <2> QED  BY <1>5, <2>1 DEF LostOk
<1>7. \A g \in Frames \ {f} : tried'[g] = tried[g] /\ failed'[g] = failed[g]
  BY <1>2, <1>4 DEF InboxInv, LostInv
<1> HIDE DEF n, m, lost
<1>8. \A g \in Frames : LostOk(pane[g], silent[g], Len(tried'[g]), failed'[g])
  BY <1>3, <1>4, <1>6, <1>7 DEF InboxInv, LostInv
<1> QED  BY <1>2, <1>3, <1>4, <1>8 DEF InboxInv, LostInv

LEMMA SameLost ==
    ASSUME InboxInv, UNCHANGED <<tried, failed, pane, silent>>
    PROVE  LostInv'
  BY DEF InboxInv, LostInv

\* A step of a driver that leaves the inbox alone, as all of section 1 do.
LEMMA StepDriverInbox ==
    ASSUME InboxInv, phase = "loop", UNCHANGED <<phase, pane, silent>>, sent' = sent,
           NEW f, Live(f), NEW st, Kept(frames[f], st), NEW table, NEW more,
           StepDriver(f, st, table, more)
    PROVE  InboxInv'
<1>1. f \in Frames /\ frames[f] \notin {Gone, Unborn} /\ FrameOk(frames[f], sent[f], tried[f], phase)
  BY DEF Live, InboxInv
<1> DEFINE next == [st EXCEPT !.jobs = {}, !.watch = FALSE, !.log = {},
                              !.inbox = IF Frees(f, st) THEN << >> ELSE @]
           out == IF Frees(f, st) THEN st.inbox ELSE << >>
           got == tried[f] \o out
<1>2. frames' = [frames EXCEPT ![f] = next] /\ Inject(f, out)
  BY <1>1 DEF StepDriver, InboxInv
<1>3. /\ IsState(st) /\ st.inbox = frames[f].inbox /\ st.inbox \in Seq(Nat)
      /\ sent[f] = tried[f] \o st.inbox /\ sent[f] \in Seq(Nat) /\ tried[f] \in Seq(Nat)
      /\ ~Blocking(frames[f].status) => st.inbox = << >>
  BY <1>1 DEF FrameOk, Kept
<1>4. /\ IsState(next) /\ next.log = {} /\ next.status = st.status
      /\ next.inbox = IF Frees(f, st) THEN << >> ELSE st.inbox
  BY <1>3 DEF IsState, Fields
<1>5. out \in Seq(Nat)
  BY <1>3, EmptySeq
<1> HIDE DEF out
<1>7. tried' = [tried EXCEPT ![f] = got] /\ got \in Seq(Nat) /\ LostInv'
  BY <1>1, <1>2, <1>3, <1>5, InjectLost, Zenon
<1>6. FrameOk(next, sent[f], got, phase)
  <2> HIDE DEF next
  <2>1. next \notin {Gone, Unborn}
    BY <1>4, StateIsLive
  <2>2. CASE Frees(f, st)
    <3>1. next.inbox = << >> /\ got = sent[f]
      BY <1>3, <1>4, <2>2 DEF out
    <3>2. sent[f] = got \o << >>
      BY <1>3, <3>1, ConcatEmptySeq
    <3> HIDE DEF got
    <3> QED  BY <1>3, <1>4, <1>7, <2>1, <3>1, <3>2, EmptySeq DEF FrameOk
  <2>3. CASE ~Frees(f, st)
    <3>1. next.inbox = st.inbox /\ got = tried[f]
      BY <1>3, <1>4, <2>3, ConcatEmptySeq DEF out
    <3>2. ~Blocking(st.status) => ~Blocking(frames[f].status)
      BY <2>3 DEF Frees
    <3> QED  BY <1>3, <1>4, <2>1, <3>1, <3>2 DEF FrameOk
  <2> QED  BY <2>2, <2>3
<1> HIDE DEF next, got
<1> QED  BY <1>1, <1>2, <1>6, <1>7 DEF InboxInv

LEMMA UnchangedInbox ==
    ASSUME InboxInv, UNCHANGED <<frames, sent, tried, failed, pane, silent>>,
           phase' = phase \/ phase' \in {"loop", "stopping"}
    PROVE  InboxInv'
<1>1. \A f \in Frames : FrameOk(frames[f], sent[f], tried[f], phase')
  BY DEF InboxInv, FrameOk
<1> QED  BY <1>1, SameLost DEF InboxInv

\* One frame's state, or what it was sent or what was tried, changes.
LEMMA OneFrameInbox ==
    ASSUME InboxInv, LostInv', phase' = phase, NEW f \in Frames, NEW st, NEW s, NEW g,
           frames' = [frames EXCEPT ![f] = st], sent' = [sent EXCEPT ![f] = s],
           tried' = [tried EXCEPT ![f] = g], FrameOk(st, s, g, phase)
    PROVE  InboxInv'
  BY DEF InboxInv

LEMMA DriverStepsInbox ==
    ASSUME InboxInv
    PROVE  /\ \A h \in hooks : DriverHook(h) => InboxInv'
           /\ Tick \/ PaneActivity \/ FileChanged \/ JobResult => InboxInv'
           /\ \A title : PaneOsc(title) => InboxInv'
<1>1. \A f : Live(f) => IsState(frames[f]) /\ frames[f].log = {}
  BY DEF InboxInv, FrameOk, Live
<1>2. ASSUME NEW h \in hooks, DriverHook(h)
      PROVE  InboxInv'
  <2>1. CASE Live(h.frame)
    <3>1. Kept(frames[h.frame], Hook(frames[h.frame], h, h.frame = Root))
      BY <1>1, <2>1, HookLogged DEF Logged
    <3>2. StepDriver(h.frame, Hook(frames[h.frame], h, h.frame = Root), known, << >>)
      BY <1>2, <2>1 DEF DriverHook
    <3>3. phase = "loop" /\ UNCHANGED <<phase, pane, silent>> /\ sent' = sent
      BY <1>2 DEF DriverHook, loopVars
    <3> QED  BY <2>1, <3>1, <3>2, <3>3, StepDriverInbox
  <2>2. CASE ~Live(h.frame)
    BY <1>2, <2>2, UnchangedInbox DEF DriverHook, loopVars
  <2> QED  BY <2>1, <2>2
<1>3. ASSUME Tick
      PROVE  InboxInv'
  <2>1. phase = "loop" /\ UNCHANGED <<phase, pane, silent>> /\ sent' = sent
    BY <1>3 DEF Tick, loopVars
  <2>2. CASE Live(Root)
    <3>1. PICK active \in BOOLEAN, due \in BOOLEAN, stride \in BOOLEAN, old \in BOOLEAN :
            StepDriver(Root, Ticked(frames[Root], active, due, stride), known,
                       IF GithubStepTick(old) THEN FetchJob ELSE << >>)
      BY <1>3, <2>2 DEF Tick
    <3>2. Kept(frames[Root], Ticked(frames[Root], active, due, stride))
      BY <1>1, <2>2, TickQuiet DEF Quiet
    <3> QED  BY <2>1, <2>2, <3>1, <3>2, StepDriverInbox
  <2>3. CASE ~Live(Root)
    BY <1>3, <2>1, <2>3, UnchangedInbox DEF Tick
  <2> QED  BY <2>2, <2>3
<1>4. ASSUME PaneActivity
      PROVE  InboxInv'
  <2>1. Kept(frames[Root], HandleActivity(frames[Root]))
    BY <1>1, <1>4, ScreenQuiet DEF PaneActivity, Quiet
  <2> QED  BY <1>4, <2>1, StepDriverInbox DEF PaneActivity, loopVars
<1>5. ASSUME NEW title, PaneOsc(title)
      PROVE  InboxInv'
  <2>1. Kept(frames[Root], HandleWindowTitle(frames[Root], title))
    BY <1>1, <1>5, ScreenQuiet DEF PaneOsc, Quiet
  <2> QED  BY <1>5, <2>1, StepDriverInbox DEF PaneOsc, loopVars
<1>6. ASSUME FileChanged
      PROVE  InboxInv'
  <2> DEFINE e == Head(events)
  <2>1. phase = "loop" /\ UNCHANGED <<phase, pane, silent>> /\ sent' = sent
    BY <1>6 DEF FileChanged, loopVars
  <2>2. CASE Live(e.frame)
    <3>1. StepDriver(e.frame, HandleTranscriptChanged(frames[e.frame], e.path), known, << >>)
      BY <1>6, <2>2 DEF FileChanged
    <3>2. Kept(frames[e.frame], HandleTranscriptChanged(frames[e.frame], e.path))
      BY <1>1, <2>2, ScreenQuiet DEF Quiet
    <3> QED  BY <2>1, <2>2, <3>1, <3>2, StepDriverInbox
  <2>3. CASE ~Live(e.frame)
    BY <1>6, <2>1, <2>3, UnchangedInbox DEF FileChanged
  <2> QED  BY <2>2, <2>3
<1>7. ASSUME JobResult
      PROVE  InboxInv'
  <2> DEFINE job == Head(results)
  <2>1. phase = "loop" /\ UNCHANGED <<phase, pane, silent>> /\ sent' = sent
    BY <1>7 DEF JobResult, loopVars
  <2>2. CASE Live(job.frame) /\ job.kind # "fetch"
    <3>1. PICK r \in Outcomes(job, frames[job.frame].driver) :
            StepDriver(job.frame, HandleJobResult(frames[job.frame], r, job), Struck(job), << >>)
      BY <1>7, <2>2 DEF JobResult
    <3>2. Kept(frames[job.frame], HandleJobResult(frames[job.frame], r, job))
      BY <1>1, <2>2, ResultQuiet DEF Quiet
    <3> QED  BY <2>1, <2>2, <3>1, <3>2, StepDriverInbox
  <2>3. CASE ~(Live(job.frame) /\ job.kind # "fetch")
    BY <1>7, <2>1, <2>3, UnchangedInbox DEF JobResult
  <2> QED  BY <2>2, <2>3
<1> QED  BY <1>2, <1>3, <1>4, <1>5, <1>6, <1>7

LEMMA PeersInbox ==
    ASSUME InboxInv, AgentsAssumption, NEW f \in Frames, PeerSend(f) \/ DrainInbox(f)
    PROVE  InboxInv'
<1> DEFINE in == frames[f].inbox
<1>1. /\ IsState(frames[f]) /\ frames[f].log = {} /\ in \in Seq(Nat) /\ sent[f] = tried[f] \o in
      /\ ~Blocking(frames[f].status) => in = << >>
      /\ sent[f] \in Seq(Nat) /\ tried[f] \in Seq(Nat) /\ phase = "loop"
      /\ UNCHANGED <<phase, pane, silent>>
      /\ frames[f] \notin {Gone, Unborn}
  BY DEF InboxInv, FrameOk, PeerSend, DrainInbox, Live, loopVars
<1>2. ASSUME PeerSend(f)
      PROVE  InboxInv'
  <2>1. PICK msg \in 1 .. MaxMessages :
          /\ sent' = [sent EXCEPT ![f] = Append(@, msg)]
          /\ \/ /\ Blocking(frames[f].status)
                /\ frames' = [frames EXCEPT ![f].inbox = Append(@, msg)]
                /\ UNCHANGED <<tried, failed>>
             \/ /\ ~Blocking(frames[f].status)
                /\ Inject(f, <<msg>>) /\ UNCHANGED frames
    BY <1>2 DEF PeerSend
  <2>2. msg \in Nat
    BY <2>1
  <2>3. Append(sent[f], msg) \in Seq(Nat) /\ Append(tried[f], msg) \in Seq(Nat)
        /\ Append(in, msg) \in Seq(Nat)
    BY <1>1, <2>2, AppendProperties
  <2>4. sent' = [sent EXCEPT ![f] = Append(sent[f], msg)]
    BY <2>1 DEF InboxInv
  <2>5. CASE Blocking(frames[f].status)
    <3> DEFINE next == [frames[f] EXCEPT !.inbox = Append(in, msg)]
    <3>1. IsState(next) /\ next.log = {} /\ next.inbox = Append(in, msg) /\ next.status = frames[f].status
      BY <1>1 DEF IsState, Fields
    <3>2. Append(sent[f], msg) = tried[f] \o Append(in, msg)
      <4> HIDE DEF in, next
      <4>1. tried[f] \in Seq(Nat) /\ in \in Seq(Nat) /\ sent[f] = tried[f] \o in
        BY <1>1
      <4>2. Append(tried[f] \o in, msg) = tried[f] \o Append(in, msg)
        BY <2>2, <4>1, AppendConcat
      <4> QED  BY <4>1, <4>2
    <3>3. frames' = [frames EXCEPT ![f] = next] /\ tried' = [tried EXCEPT ![f] = tried[f]]
      BY <2>1, <2>5 DEF InboxInv
    <3> HIDE DEF next
    <3>4. next \notin {Gone, Unborn}
      BY <3>1, StateIsLive
    <3>5. FrameOk(next, Append(sent[f], msg), tried[f], phase)
      BY <1>1, <2>3, <2>5, <3>1, <3>2, <3>4 DEF FrameOk
    <3>6. LostInv'
      BY <1>1, <2>1, <2>5, SameLost
    <3> QED  BY <1>1, <2>4, <3>3, <3>5, <3>6, OneFrameInbox
  <2>6. CASE ~Blocking(frames[f].status)
    <3>1. in = << >> /\ sent[f] = tried[f]
      BY <1>1, <2>6, ConcatEmptySeq
    <3>2. Append(sent[f], msg) = Append(tried[f], msg) \o << >>
      BY <2>3, <3>1, ConcatEmptySeq
    <3>3. frames' = [frames EXCEPT ![f] = frames[f]] /\ Inject(f, <<msg>>)
      BY <2>1, <2>6 DEF InboxInv
    <3>5. <<msg>> \in Seq(Nat) /\ tried[f] \o <<msg>> = Append(tried[f], msg)
      BY <1>1, <2>2, AppendIsConcat
    <3>6. tried' = [tried EXCEPT ![f] = Append(tried[f], msg)] /\ LostInv'
      <4>1. tried' = [tried EXCEPT ![f] = tried[f] \o <<msg>>] /\ LostInv'
        BY <1>1, <3>3, <3>5, InjectLost
      <4> QED  BY <3>5, <4>1
    <3>4. FrameOk(frames[f], Append(sent[f], msg), Append(tried[f], msg), phase)
      BY <1>1, <2>3, <3>1, <3>2 DEF FrameOk
    <3> QED  BY <1>1, <2>4, <3>3, <3>4, <3>6, OneFrameInbox
  <2> QED  BY <2>5, <2>6
<1>3. ASSUME DrainInbox(f)
      PROVE  InboxInv'
  <2> DEFINE next == [frames[f] EXCEPT !.inbox = << >>]
  <2>1. IsState(next) /\ next.log = {} /\ next.inbox = << >>
    BY <1>1 DEF IsState, Fields
  <2>2. /\ frames' = [frames EXCEPT ![f] = next] /\ sent' = [sent EXCEPT ![f] = sent[f]]
        /\ tried' = [tried EXCEPT ![f] = sent[f]]
    BY <1>1, <1>3 DEF DrainInbox, InboxInv
  <2>5. LostInv'
    <3>1. failed' = failed /\ UNCHANGED <<pane, silent>>
      BY <1>1, <1>3 DEF DrainInbox
    <3>2. Len(tried[f]) \in Nat /\ Len(in) \in Nat /\ Len(tried'[f]) = Len(tried[f]) + Len(in)
      BY <1>1, <2>2, ConcatProperties DEF InboxInv
    <3>3. \A g \in Frames \ {f} : tried'[g] = tried[g]
      BY <2>2 DEF InboxInv
    <3>4. LostOk(pane[f], silent[f], Len(tried'[f]), failed[f])
      <4>1. LostOk(pane[f], silent[f], Len(tried[f]), failed[f])
        BY DEF InboxInv, LostInv
      <4>2. 1 .. Len(tried[f]) \subseteq 1 .. Len(tried'[f])
        <5> DEFINE a == Len(tried[f])   b == Len(in)   c == Len(tried'[f])
        <5>1. a \in Nat /\ b \in Nat /\ c = a + b
          BY <3>2
        <5> HIDE DEF a, b, c
        <5>2. 1 .. a \subseteq 1 .. c
          BY <5>1
        <5> QED  BY <5>2 DEF a, c
      <4> QED  BY <4>1, <4>2 DEF LostOk
    <3>5. \A g \in Frames : LostOk(pane[g], silent[g], Len(tried'[g]), failed[g])
      BY <3>3, <3>4 DEF InboxInv, LostInv
    <3> QED  BY <3>1, <3>5 DEF InboxInv, LostInv
  <2> HIDE DEF next
  <2>3. next \notin {Gone, Unborn}
    BY <2>1, StateIsLive
  <2>4. FrameOk(next, sent[f], sent[f], phase)
    BY <1>1, <2>1, <2>3, ConcatEmptySeq, EmptySeq DEF FrameOk
  <2> QED  BY <1>1, <2>2, <2>4, <2>5, OneFrameInbox
<1> QED  BY <1>2, <1>3

\* A pane is registered, or goes.
LEMMA PanesInbox ==
    ASSUME InboxInv, NEW f \in Frames, Register(f) \/ PaneGoes(f)
    PROVE  InboxInv'
<1>1. UNCHANGED <<frames, sent, tried, failed>> /\ phase' = phase
  BY DEF Register, PaneGoes, stateVars, seenVars
<1>2. \A g \in Frames : LostOk(pane[g], silent[g], Len(tried[g]), failed[g])
  BY DEF InboxInv, LostInv
<1>3. ASSUME Register(f)
      PROVE  LostInv'
  <2>1. /\ pane' = [pane EXCEPT ![f] = "there"]
        /\ silent' = [silent EXCEPT ![f] = Len(tried[f])]
    BY <1>3 DEF Register
  <2>2. \A g \in Frames : LostOk(pane'[g], silent'[g], Len(tried[g]), failed[g])
    BY <1>2, <2>1 DEF LostOk, InboxInv, LostInv
  <2> QED  BY <1>1, <2>1, <2>2 DEF InboxInv, LostInv
<1>4. ASSUME PaneGoes(f)
      PROVE  LostInv'
  <2>1. pane' = [pane EXCEPT ![f] = "gone"] /\ silent' = silent
    BY <1>4 DEF PaneGoes
  <2>2. \A g \in Frames : LostOk(pane'[g], silent'[g], Len(tried[g]), failed[g])
    BY <1>2, <2>1 DEF LostOk, InboxInv, LostInv
  <2> QED  BY <1>1, <2>1, <2>2 DEF InboxInv, LostInv
<1> QED  BY <1>1, <1>3, <1>4 DEF InboxInv

LEMMA LivesInbox ==
    ASSUME InboxInv, AgentsAssumption, NEW f \in Frames, Push(f) \/ Evict(f) \/ TimePasses
    PROVE  InboxInv'
<1>1. ASSUME Push(f)
      PROVE  InboxInv'
  <2>1. PICK d \in Drivers :
          /\ frames' = [frames EXCEPT ![f] = NewState(d)]
          /\ pane' = [pane EXCEPT ![f] = IF d \in PanesVary THEN "none" ELSE "there"]
    BY <1>1 DEF Push
  <2>2. sent[f] = << >> /\ tried[f] = << >>
    BY <1>1 DEF Push, InboxInv, FrameOk
  <2>3. FrameOk(NewState(d), << >>, << >>, phase)
    <3>1. NewState(d) \notin {Gone, Unborn}
      BY NewStateIs, StateIsLive
    <3>2. << >> \in Seq(Nat) /\ << >> = << >> \o << >>
      BY EmptySeq, ConcatEmptySeq
    <3> QED  BY <3>1, <3>2, NewStateIs DEF FrameOk
  <2>4. sent' = [sent EXCEPT ![f] = << >>] /\ tried' = [tried EXCEPT ![f] = << >>] /\ phase' = phase
    BY <1>1, <2>2 DEF Push, InboxInv, seenVars
  <2>5. LostInv'
    <3>1. silent' = silent /\ failed' = failed /\ tried' = tried
      BY <1>1 DEF Push, seenVars
    <3>2. failed[f] = {}
      <4>1. Len(tried[f]) = 0
        BY <2>2
      <4>2. 1 .. Len(tried[f]) = {}
        BY <4>1
      <4> QED  BY <4>2 DEF InboxInv, LostInv, LostOk
    <3>3. \A g \in Frames : LostOk(pane'[g], silent[g], Len(tried[g]), failed[g])
      BY <2>1, <3>2 DEF LostOk, InboxInv, LostInv
    <3> QED  BY <2>1, <3>1, <3>3 DEF InboxInv, LostInv
  <2> QED  BY <2>1, <2>3, <2>4, <2>5, OneFrameInbox
<1>2. ASSUME Evict(f)
      PROVE  InboxInv'
  <2>1. /\ frames' = [g \in Frames |-> frames'[g]] /\ sent' = sent /\ tried' = tried /\ phase' = phase
        /\ \A g \in Frames : frames'[g] \in {Gone, frames[g]}
    BY <1>2 DEF Evict, loopVars, seenVars
  <2>2. \A g \in Frames : FrameOk(Gone, sent[g], tried[g], phase)
    BY DEF InboxInv, FrameOk, Gone, Unborn
  <2>3. LostInv'
    BY <1>2, SameLost DEF Evict, loopVars, seenVars
  <2> QED  BY <2>1, <2>2, <2>3 DEF InboxInv
<1>3. ASSUME TimePasses
      PROVE  InboxInv'
  <2> DEFINE next == [frames[Root] EXCEPT !.fresh = FALSE]
  <2>1. Root \in Frames /\ IsState(frames[Root]) /\ frames[Root].log = {} /\ frames[Root] \notin {Gone, Unborn}
        /\ FrameOk(frames[Root], sent[Root], tried[Root], phase)
    BY <1>3 DEF AgentsAssumption, TimePasses, Live, InboxInv, FrameOk
  <2>2. IsState(next) /\ next.log = {} /\ next.inbox = frames[Root].inbox /\ next.status = frames[Root].status
    BY <2>1 DEF IsState, Fields
  <2>3. /\ frames' = [frames EXCEPT ![Root] = next] /\ sent' = [sent EXCEPT ![Root] = sent[Root]]
        /\ tried' = [tried EXCEPT ![Root] = tried[Root]] /\ phase' = phase
    BY <1>3, <2>1 DEF TimePasses, InboxInv, loopVars, seenVars
  <2> HIDE DEF next
  <2>4. next \notin {Gone, Unborn}
    BY <2>2, StateIsLive
  <2>5. FrameOk(next, sent[Root], tried[Root], phase)
    BY <2>1, <2>2, <2>4 DEF FrameOk
  <2>6. LostInv'
    BY <1>3, SameLost DEF TimePasses, loopVars, seenVars
  <2> QED  BY <2>1, <2>3, <2>5, <2>6, OneFrameInbox
<1> QED  BY <1>1, <1>2, <1>3

LEMMA DaemonInbox ==
    ASSUME InboxInv, Exit \/ Restart
    PROVE  InboxInv'
<1>1. ASSUME Exit
      PROVE  InboxInv'
  <2>1. /\ frames' = [f \in Frames |-> IF Live(f) THEN Restored(frames[f], Second) ELSE frames[f]]
        /\ sent' = tried /\ tried' = tried /\ phase' = "down"
    BY <1>1 DEF Exit
  <2>2. ASSUME NEW f \in Frames
        PROVE  FrameOk(frames'[f], tried[f], tried[f], "down")
    <3>1. tried[f] \in Seq(Nat) /\ (frames[f] = Unborn => tried[f] = << >>)
      BY DEF InboxInv, FrameOk
    <3>2. CASE Live(f)
      <4> DEFINE next == Restored(frames[f], Second)
      <4>1. IsState(next) /\ next.log = {} /\ next.inbox = << >>
        BY NewStateIs DEF Restored, IsState, Fields
      <4>2. tried[f] = tried[f] \o << >> /\ << >> \in Seq(Nat)
        BY <3>1, ConcatEmptySeq, EmptySeq
      <4>3. frames'[f] = next
        BY <2>1, <3>2
      <4> HIDE DEF next
      <4> QED  BY <3>1, <4>1, <4>2, <4>3, StateIsLive DEF FrameOk
    <3>3. CASE ~Live(f)
      BY <2>1, <3>1, <3>3 DEF Live, FrameOk
    <3> QED  BY <3>2, <3>3
  <2>3. LostInv'
    BY <1>1, SameLost DEF Exit
  <2> QED  BY <2>1, <2>2, <2>3 DEF InboxInv
<1>2. ASSUME Restart
      PROVE  InboxInv'
  <2> DEFINE live == {f \in Frames : Live(f)} \ Cut
             next == [f \in live |-> WarmStartRecover(frames[f])]
             back(f) == [next[f] EXCEPT !.jobs = {}, !.watch = FALSE]
  <2>1. /\ frames' = [f \in Frames |-> IF f \in live THEN back(f) ELSE IF f \in Cut THEN Gone ELSE frames[f]]
        /\ phase = "down" /\ phase' = "loop" /\ UNCHANGED <<sent, tried>>
    BY <1>2 DEF Restart, seenVars
  <2>2. ASSUME NEW f \in Frames
        PROVE  FrameOk(frames'[f], sent[f], tried[f], "loop")
    <3>1. FrameOk(frames[f], sent[f], tried[f], "down")
      BY <2>1 DEF InboxInv
    <3>2. CASE Live(f) /\ f \notin Cut
      <4>1. IsState(frames[f]) /\ frames[f].log = {} /\ frames[f].inbox = << >> /\ sent[f] = tried[f] \o << >>
            /\ sent[f] \in Seq(Nat) /\ tried[f] \in Seq(Nat)
        BY <3>1, <3>2 DEF FrameOk, Live
      <4>2. Quiet(frames[f], next[f])
        BY <3>2, <4>1, ScreenQuiet
      <4>3. IsState(back(f)) /\ back(f).log = {} /\ back(f).inbox = << >>
        <5> HIDE DEF next
        <5> QED  BY <4>1, <4>2 DEF Quiet, Kept, IsState, Fields
      <4>4. frames'[f] = back(f)
        BY <2>1, <3>2
      <4> HIDE DEF back
      <4> QED  BY <4>1, <4>3, <4>4, StateIsLive, EmptySeq DEF FrameOk
    <3>3. CASE f \in Cut
      <4>1. frames'[f] = Gone
        BY <2>1, <3>3
      <4> QED  BY <3>1, <4>1 DEF FrameOk, Gone, Unborn
    <3>4. CASE ~Live(f) /\ f \notin Cut
      BY <2>1, <3>1, <3>4 DEF Live, FrameOk
    <3> QED  BY <3>2, <3>3, <3>4
  <2>3. LostInv'
    BY <1>2, SameLost DEF Restart, seenVars
  <2> QED  BY <2>1, <2>2, <2>3 DEF InboxInv
<1> QED  BY <1>1, <1>2

LEMMA OtherInbox ==
    ASSUME InboxInv,
           \/ \E f \in Frames : Program(f) \/ FileWrite(f)
           \/ \E h \in hooks : HookLost(h)
           \/ Take \/ \E job \in running : Send(job) \/ WorkerQuits(job)
           \/ Stop \/ UNCHANGED vars
    PROVE  InboxInv'
<1>1. UNCHANGED <<frames, sent, tried, failed, pane, silent>> /\ (phase' = phase \/ phase' = "stopping")
  BY DEF Program, FileWrite, HookLost, Take, Send, WorkerQuits, Stop, vars, loopVars, poolVars,
         stateVars, seenVars
<1> QED  BY <1>1, UnchangedInbox

LEMMA InboxStep ==
    ASSUME InboxInv, [Next]_vars
    PROVE  InboxInv'
<1>1. CASE \E f \in Frames : PeerSend(f) \/ DrainInbox(f)
  BY <1>1, AgentsAssumption, PeersInbox
<1>2. CASE \/ TimePasses
           \/ \E f \in Frames : Push(f) \/ Evict(f)
  BY <1>2, AgentsAssumption, LivesInbox DEF AgentsAssumption
<1>6. CASE \E f \in Frames : Register(f) \/ PaneGoes(f)
  BY <1>6, PanesInbox
<1>3. CASE \/ \E h \in hooks : DriverHook(h)
           \/ Tick \/ PaneActivity \/ FileChanged \/ JobResult
           \/ \E title \in Titles : PaneOsc(title)
  BY <1>3, DriverStepsInbox
<1>4. CASE Exit \/ Restart
  BY <1>4, DaemonInbox
<1>5. CASE \/ \E f \in Frames : Program(f) \/ FileWrite(f)
           \/ \E h \in hooks : HookLost(h)
           \/ Take \/ \E job \in running : Send(job) \/ WorkerQuits(job)
           \/ Stop \/ UNCHANGED vars
  BY <1>5, OtherInbox
<1> QED  BY <1>1, <1>2, <1>3, <1>4, <1>5, <1>6 DEF Next

LEMMA InboxAlways == Spec => []InboxInv
<1>1. Init => InboxInv
  BY InboxInit
<1>2. InboxInv /\ [Next]_vars => InboxInv'
  BY InboxStep
<1> QED  BY <1>1, <1>2, PTL DEF Spec

-----------------------------------------------------------------------------
(* 3. The theorems.                                                        *)

\* Messages between frames (reducePeerSend, stepDriver, reducePeerDrainInbox):
\* whatever the drivers, the hooks, the ticks, the results of jobs and the
\* restarts of the daemon, what a frame was sent is what was put to its pane or
\* asked for, each once, and then what is in its inbox, in the order it was sent;
\* and none that was tried since its pane is registered is lost while the pane is
\* there (executeInjectPrompt).
THEOREM PeersTheorem == Spec => []PeersAccounted
<1>1. InboxInv => PeersAccounted
  BY DEF InboxInv, FrameOk, LostInv, LostOk, PeersAccounted, Live
<1> QED  BY <1>1, InboxAlways, PTL

\* A frame that is not busy has an empty inbox, whichever of the many handlers
\* set its status: every one of them goes through stepDriver.
THEOREM IdleInboxTheorem == Spec => []IdleInboxEmpty
<1>1. InboxInv => IdleInboxEmpty
  BY DEF InboxInv, FrameOk, IdleInboxEmpty, Live
<1> QED  BY <1>1, InboxAlways, PTL

-----------------------------------------------------------------------------
(***************************************************************************)
(* Hooks that overtake each other: for any frames, any number of hooks on  *)
(* their way and any jobs, the status of a codex or gemini frame settles   *)
(* on what its newest hook stands for, as long as the daemon is not        *)
(* started again (a saved time is cut to the second, and what was sent     *)
(* while it was down is lost).                                             *)
(*                                                                         *)
(* The invariant is that of a register whose last writer wins: of a        *)
(* frame's hooks on their way the newest is later than the one taken last, *)
(* or none is and the status is the newest's.                              *)
(***************************************************************************)


ByHooks == {"codex", "gemini"}   \* the drivers whose status this is about

-----------------------------------------------------------------------------
(* 4. Handlers: all but hooks leave the status alone, or find a hang.      *)

Settles(st, t) ==
  /\ IsState(t) /\ t.driver = st.driver /\ t.hookAt = st.hookAt
  /\ \/ t.status = st.status /\ t.hang = st.hang
     \/ t.hang = TRUE

LEMMA SettlesSame ==
    ASSUME NEW st, IsState(st)
    PROVE  Settles(st, st)
  BY DEF Settles

LEMMA SettlesTrans ==
    ASSUME NEW s, NEW t, NEW u, Settles(s, t), Settles(t, u)
    PROVE  Settles(s, u)
  BY DEF Settles

LEMMA SharedSettles ==
    ASSUME NEW st, IsState(st)
    PROVE  /\ \A kind : Settles(st, Launch(st, kind)) /\ Settles(st, Landed(st, kind))
           /\ Settles(st, LaunchParse(st)) /\ Settles(st, Watch(st))
<1>1. \A kind : Settles(st, Launch(st, kind)) /\ Settles(st, Landed(st, kind))
  BY DEF Settles, IsState, Fields, Launch, Landed
<1>2. Settles(st, LaunchParse(st))
  BY <1>1, SettlesSame DEF LaunchParse
<1>3. Settles(st, Watch(st))
  BY DEF Settles, IsState, Fields, Watch
<1> QED  BY <1>1, <1>2, <1>3

LEMMA ParseSettles ==
    ASSUME NEW st, IsState(st)
    PROVE  Settles(st, LaunchParse(Watch(st)))
<1>1. Settles(st, Watch(st)) /\ IsState(Watch(st))
  BY SharedSettles DEF Settles
<1>2. Settles(Watch(st), LaunchParse(Watch(st)))
  BY <1>1, SharedSettles
<1> QED  BY <1>1, <1>2, SettlesTrans

LEMMA TickSettles ==
    ASSUME NEW st, NEW active, NEW due, NEW stride, IsState(st), st.driver \in ByHooks
    PROVE  Settles(st, Ticked(st, active, due, stride))
<1> DEFINE a == IF active /\ due THEN Launch(st, "branch") ELSE st
           b == IF ~active /\ st.status = "running" /\ (~st.primed \/ stride)
                THEN Launch(a, "capture") ELSE a
           c == [WithStatus(b, "stopped") EXCEPT !.hang = TRUE]
<1>1. Settles(st, a) /\ IsState(a)
  BY SharedSettles, SettlesSame DEF Settles
<1>2. Settles(a, b)
  <2> HIDE DEF a
  <2> QED  BY <1>1, SharedSettles, SettlesSame
<1>3. Settles(st, b)
  <2> HIDE DEF a, b
  <2> QED  BY <1>1, <1>2, SettlesTrans
<1>4. Settles(st, c)
  <2> HIDE DEF b
  <2> QED  BY <1>3 DEF Settles, WithStatus, IsState, Fields
<1>5. Ticked(st, active, due, stride) \in {st, c, b}
  BY DEF Ticked, CommonTick, Polling, ByHooks
<1> HIDE DEF a, b, c
<1> QED  BY <1>3, <1>4, <1>5, SettlesSame

LEMMA ScreenSettles ==
    ASSUME NEW st, NEW title, NEW path, IsState(st), st.driver \in ByHooks
    PROVE  /\ Settles(st, HandleActivity(st))
           /\ Settles(st, HandleWindowTitle(st, title))
           /\ Settles(st, HandleTranscriptChanged(st, path))
<1>1. Settles(st, HandleActivity(st))
  BY SharedSettles, SettlesSame DEF HandleActivity
<1>2. HandleWindowTitle(st, title) = st
  BY DEF HandleWindowTitle, ByHooks
<1>3. HandleTranscriptChanged(st, path) \in {LaunchParse(Watch(st)), st}
  BY DEF HandleTranscriptChanged, ByHooks
<1> QED  BY <1>1, <1>2, <1>3, ParseSettles, SettlesSame

LEMMA ResultSettles ==
    ASSUME NEW st, NEW r, NEW job, IsState(st), st.driver \in ByHooks
    PROVE  Settles(st, HandleJobResult(st, r, job))
<1>1. \A kind : Settles(st, Landed(st, kind)) /\ IsState(Landed(st, kind))
  BY SharedSettles DEF Settles
<1>2. Settles(st, HandleCapture(st, r))
  <2> DEFINE a == Landed(st, "capture")
  <2>1. HandleCapture(st, r) \in {a, [a EXCEPT !.primed = TRUE, !.fresh = TRUE]}
    BY DEF HandleCapture
  <2>2. Settles(st, a)
    BY <1>1
  <2> HIDE DEF a
  <2> QED  BY <2>1, <2>2 DEF Settles, IsState, Fields
<1>3. Settles(st, HandleParse(st, r, job))
  <2> DEFINE a == Landed(st, "parse")
             v == [path |-> job.path, ver |-> job.ver]
  <2>1. HandleParse(st, r, job) \in {a, [a EXCEPT !.shown = v, !.busy = r.busy]}
    BY DEF HandleParse
  <2>2. Settles(st, a)
    BY <1>1
  <2> HIDE DEF a, v
  <2> QED  BY <2>1, <2>2 DEF Settles, IsState, Fields
<1>4. HandleJobResult(st, r, job) \in {Landed(st, job.kind), HandleParse(st, r, job),
                                       HandleCapture(st, r)}
  BY DEF HandleJobResult, Polling, ByHooks
<1> QED  BY <1>1, <1>2, <1>3, <1>4

\* A hook that is not late sets the status; one that is late changes nothing.
Sets(st, h, t) ==
  /\ IsState(t) /\ t.driver = st.driver /\ t.hookAt = h.at
  /\ t.status = StatusOf[st.driver][h.event]

LEMMA SetsKept ==
    ASSUME NEW st, NEW h, NEW s, Sets(st, h, s)
    PROVE  Sets(st, h, LaunchParse(s)) /\ \A kind : Sets(st, h, Launch(s, kind))
<1>1. \A kind : Sets(st, h, Launch(s, kind))
  BY DEF Sets, Launch, IsState, Fields
<1> QED  BY <1>1 DEF LaunchParse

LEMMA HookSets ==
    ASSUME NEW st, NEW h, NEW root, IsState(st), st.driver \in ByHooks,
           h.event \in DOMAIN StatusOf[st.driver]
    PROVE  IF Stale(st, h) THEN Hook(st, h, root) = st ELSE Sets(st, h, Hook(st, h, root))
<1> DEFINE p == [Accepted(st, h) EXCEPT !.path = h.path]
           a == HookStatus(Watch(p), h)
           b == HookStatus(p, h)
<1>1. /\ IsState(p) /\ p.driver = st.driver /\ p.hookAt = h.at
      /\ IsState(Watch(p)) /\ Watch(p).driver = st.driver /\ Watch(p).hookAt = h.at
  <2>1. IsState(p) /\ p.driver = st.driver /\ p.hookAt = h.at
    BY DEF Accepted, ResetHangDetection, IsState, Fields
  <2> HIDE DEF p
  <2> QED  BY <2>1, SharedSettles DEF Settles
<1>2. ASSUME NEW s, IsState(s), s.driver = st.driver, s.hookAt = h.at
      PROVE  Sets(st, h, HookStatus(s, h))
  BY <1>2 DEF Sets, HookStatus, WithStatus, IsState, Fields
<1>3. Sets(st, h, a) /\ Sets(st, h, b)
  BY <1>1, <1>2
<1>4. Sets(st, h, LaunchParse(a)) /\ Sets(st, h, Launch(a, "summary")) /\ Sets(st, h, Launch(b, "branch"))
  BY <1>3, SetsKept
<1>5. Sets(st, h, Launch(LaunchParse(a), "branch")) /\ Sets(st, h, LaunchParse(Launch(a, "summary")))
  BY <1>4, SetsKept
<1>6. CASE st.driver = "codex"
  <2>1. Hook(st, h, root) = CodexHook(st, h, root)
    BY <1>6 DEF Hook
  <2>2. Stale(st, h) => CodexHook(st, h, root) = st
    BY DEF CodexHook
  <2>3. ~Stale(st, h) => CodexHook(st, h, root) \in {a, LaunchParse(a), Launch(LaunchParse(a), "branch"),
                                                     LaunchParse(Launch(a, "summary"))}
    BY DEF CodexHook
  <2> HIDE DEF a, b, p
  <2> QED  BY <1>3, <1>4, <1>5, <2>1, <2>2, <2>3
<1>7. CASE st.driver = "gemini"
  <2>1. Hook(st, h, root) = GeminiHook(st, h, root)
    BY <1>7 DEF Hook
  <2>2. Stale(st, h) => GeminiHook(st, h, root) = st
    BY DEF GeminiHook
  <2>3. ~Stale(st, h) => GeminiHook(st, h, root) \in {b, Launch(b, "branch")}
    BY DEF GeminiHook
  <2> HIDE DEF a, b, p
  <2> QED  BY <1>3, <1>4, <2>1, <2>2, <2>3
<1> QED  BY <1>6, <1>7 DEF ByHooks

-----------------------------------------------------------------------------
(* 5. The order of hooks.                                                  *)

\* now: the time of the last hook.
HooksTimed(hs, now) ==
  /\ now \in Nat
  /\ \A h \in hs : h.at \in Nat /\ h.at <= now /\ \A g \in hs : g.at = h.at => g = h

\* The newest hook of frame f was taken, and the status is its own.
Answered(f, st, n, hs) ==
  /\ \A h \in hs : h.frame = f => h.at <= st.hookAt
  /\ st.hang = TRUE \/ st.status = StatusOf[st.driver][n]

\* The newest hook of frame f is on its way, and will be taken for newer.
Coming(f, st, n, hs) ==
  \E h \in hs : /\ h.frame = f /\ h.event = n /\ h.at > st.hookAt
                /\ \A g \in hs : g.frame = f => g.at <= h.at

FrameOrdered(f, st, n, hs, now) ==
  /\ st = Unborn => n = "none" /\ \A h \in hs : h.frame # f
  /\ st \notin {Gone, Unborn} /\ st.driver \in ByHooks =>
       /\ st.hookAt \in Nat /\ st.hookAt <= now
       /\ \A h \in hs : h.frame = f => h.event \in DOMAIN StatusOf[st.driver]
       /\ n # "none" => Answered(f, st, n, hs) \/ Coming(f, st, n, hs)

OrderInv ==
  /\ restarts = 0
  /\ newest = [f \in Frames |-> newest[f]]
  /\ HooksTimed(hooks, clock)
  /\ phase # "down" => \A f \in Frames : FrameOrdered(f, frames[f], newest[f], hooks, clock)

LEMMA OrderInit == Init => OrderInv
<1> SUFFICES ASSUME Init
             PROVE  OrderInv
  OBVIOUS
<1>1. HooksTimed({}, 0)
  BY DEF HooksTimed
<1>2. \A f \in Frames : FrameOrdered(f, Unborn, "none", {}, 0)
  BY DEF FrameOrdered
<1> QED  BY <1>1, <1>2 DEF Init, OrderInv

\* What a handler other than that of hooks makes of a frame stays in order.
LEMMA SettlesOrdered ==
    ASSUME NEW f, NEW st, NEW t, NEW n, NEW hs, NEW now,
           FrameOrdered(f, st, n, hs, now), st \notin {Gone, Unborn},
           t.driver = st.driver, st.driver \in ByHooks => Settles(st, t), IsState(t)
    PROVE  FrameOrdered(f, t, n, hs, now)
<1>1. t \notin {Gone, Unborn}
  BY StateIsLive
<1>2. ASSUME st.driver \in ByHooks, n # "none"
      PROVE  Answered(f, t, n, hs) \/ Coming(f, t, n, hs)
  BY <1>2 DEF FrameOrdered, Answered, Coming, Settles
<1> QED  BY <1>1, <1>2 DEF FrameOrdered, Settles

\* A step that leaves the hooks alone and changes one frame at most.
LEMMA OneFrameOrder ==
    ASSUME OrderInv, UNCHANGED <<restarts, newest, hooks, clock>>, phase # "down",
           NEW f \in Frames,
           \A g \in Frames \ {f} : frames'[g] = frames[g],
           FrameOrdered(f, frames'[f], newest[f], hooks, clock)
    PROVE  OrderInv'
  BY DEF OrderInv

\* stepDriver adds nothing that the order of hooks depends on.
LEMMA StepDriverFrames ==
    ASSUME InboxInv, NEW f \in Frames, NEW st, IsState(st), NEW table, NEW more,
           StepDriver(f, st, table, more)
    PROVE  /\ \A g \in Frames \ {f} : frames'[g] = frames[g]
           /\ IsState(frames'[f])
           /\ frames'[f].driver = st.driver /\ frames'[f].hookAt = st.hookAt
           /\ frames'[f].status = st.status /\ frames'[f].hang = st.hang
<1> DEFINE next == [st EXCEPT !.jobs = {}, !.watch = FALSE, !.log = {},
                              !.inbox = IF Frees(f, st) THEN << >> ELSE @]
<1>1. frames' = [frames EXCEPT ![f] = next]
  BY DEF StepDriver
<1>2. /\ IsState(next) /\ next.driver = st.driver /\ next.hookAt = st.hookAt
      /\ next.status = st.status /\ next.hang = st.hang
  BY DEF IsState, Fields
<1> HIDE DEF next
<1> QED  BY <1>1, <1>2 DEF InboxInv

LEMMA StepDriverOrder ==
    ASSUME InboxInv, OrderInv, UNCHANGED <<restarts, newest, hooks, clock>>, phase = "loop",
           NEW f, Live(f), NEW st, Kept(frames[f], st),
           frames[f].driver \in ByHooks => Settles(frames[f], st),
           NEW table, NEW more, StepDriver(f, st, table, more)
    PROVE  OrderInv'
<1>1. f \in Frames /\ frames[f] \notin {Gone, Unborn} /\ IsState(st) /\ st.driver = frames[f].driver
  BY DEF Live, Kept
<1>2. /\ \A g \in Frames \ {f} : frames'[g] = frames[g]
      /\ IsState(frames'[f])
      /\ frames'[f].driver = st.driver /\ frames'[f].hookAt = st.hookAt
      /\ frames'[f].status = st.status /\ frames'[f].hang = st.hang
  BY <1>1, StepDriverFrames
<1>3. frames[f].driver \in ByHooks => Settles(frames[f], frames'[f])
  BY <1>2 DEF Settles
<1>4. FrameOrdered(f, frames[f], newest[f], hooks, clock)
  BY <1>1 DEF OrderInv
<1>5. FrameOrdered(f, frames'[f], newest[f], hooks, clock)
  BY <1>1, <1>2, <1>3, <1>4, SettlesOrdered
<1> QED  BY <1>1, <1>2, <1>5, OneFrameOrder

-----------------------------------------------------------------------------
(* 6. The steps.                                                           *)

\* The driver of frame f makes t of a hook h of its own: the hook is gone.
LEMMA HookOrdered ==
    ASSUME NEW f, NEW st, NEW t, NEW n, NEW hs, NEW now, NEW h \in hs,
           FrameOrdered(f, st, n, hs, now), HooksTimed(hs, now), h.frame = f,
           st \notin {Gone, Unborn}, IsState(t), t.driver = st.driver,
           st.driver \in ByHooks =>
             IF Stale(st, h)
             THEN t.hookAt = st.hookAt /\ t.status = st.status /\ t.hang = st.hang
             ELSE t.hookAt = h.at /\ t.status = StatusOf[st.driver][h.event]
    PROVE  FrameOrdered(f, t, n, hs \ {h}, now)
<1>1. t \notin {Gone, Unborn}
  BY StateIsLive
<1> SUFFICES ASSUME st.driver \in ByHooks
             PROVE  /\ t.hookAt \in Nat /\ t.hookAt <= now
                    /\ \A g \in hs \ {h} : g.frame = f => g.event \in DOMAIN StatusOf[t.driver]
                    /\ n # "none" => Answered(f, t, n, hs \ {h}) \/ Coming(f, t, n, hs \ {h})
  BY <1>1 DEF FrameOrdered
<1>2. st.hookAt \in Nat /\ h.at \in Nat /\ h.at <= now /\ \A g \in hs : g.at \in Nat
  BY DEF FrameOrdered, HooksTimed
<1>3. t.hookAt \in Nat /\ t.hookAt <= now
  BY <1>2 DEF FrameOrdered
<1>4. \A g \in hs \ {h} : g.frame = f => g.event \in DOMAIN StatusOf[t.driver]
  BY DEF FrameOrdered
<1>5. ASSUME n # "none"
      PROVE  Answered(f, t, n, hs \ {h}) \/ Coming(f, t, n, hs \ {h})
  <2>1. Answered(f, st, n, hs) \/ Coming(f, st, n, hs)
    BY <1>5 DEF FrameOrdered
  <2>2. CASE Answered(f, st, n, hs)
    BY <2>2 DEF Answered, Stale
  <2>3. CASE Coming(f, st, n, hs) /\ Stale(st, h)
    BY <1>2, <2>3 DEF Coming, Stale
  <2>4. CASE Coming(f, st, n, hs) /\ ~Stale(st, h)
    <3>1. PICK g \in hs : /\ g.frame = f /\ g.event = n /\ g.at > st.hookAt
                          /\ \A e \in hs : e.frame = f => e.at <= g.at
      BY <2>4 DEF Coming
    <3>2. CASE g = h
      BY <2>4, <3>1, <3>2 DEF Answered
    <3>3. CASE g # h
      <4>1. h.at < g.at
        BY <1>2, <3>1, <3>3 DEF HooksTimed
      <4> QED  BY <2>4, <3>1, <3>3, <4>1 DEF Coming
    <3> QED  BY <3>2, <3>3
  <2> QED  BY <2>1, <2>2, <2>3, <2>4
<1> QED  BY <1>3, <1>4, <1>5

\* A hook of another frame is gone.
LEMMA FewerHooks ==
    ASSUME NEW f, NEW st, NEW n, NEW hs, NEW now, NEW h \in hs, h.frame # f,
           FrameOrdered(f, st, n, hs, now)
    PROVE  FrameOrdered(f, st, n, hs \ {h}, now)
<1>1. Answered(f, st, n, hs) => Answered(f, st, n, hs \ {h})
  BY DEF Answered
<1>2. Coming(f, st, n, hs) => Coming(f, st, n, hs \ {h})
  BY DEF Coming
<1> QED  BY <1>1, <1>2 DEF FrameOrdered

LEMMA HookStepOrder ==
    ASSUME InboxInv, OrderInv, NEW h \in hooks, DriverHook(h)
    PROVE  OrderInv'
<1> DEFINE f == h.frame
           t == Hook(frames[f], h, f = Root)
<1>1. /\ hooks' = hooks \ {h} /\ phase = "loop" /\ restarts' = restarts
      /\ UNCHANGED <<newest, clock>>
  BY DEF DriverHook, loopVars
<1>2. HooksTimed(hooks', clock)
  BY <1>1 DEF OrderInv, HooksTimed
<1>3. \A g \in Frames : FrameOrdered(g, frames[g], newest[g], hooks, clock)
  BY <1>1 DEF OrderInv
<1>4. CASE Live(f)
  <2>1. /\ f \in Frames /\ frames[f] \notin {Gone, Unborn}
        /\ IsState(frames[f]) /\ frames[f].log = {}
    BY <1>4 DEF Live, InboxInv, FrameOk
  <2>2. Kept(frames[f], t)
    BY <2>1, HookLogged DEF Logged
  <2>3. StepDriver(f, t, known, << >>)
    BY <1>4 DEF DriverHook
  <2>4. frames[f].driver \in ByHooks =>
          IF Stale(frames[f], h) THEN t = frames[f] ELSE Sets(frames[f], h, t)
    <3>1. frames[f].driver \in ByHooks => h.event \in DOMAIN StatusOf[frames[f].driver]
      BY <1>3, <2>1 DEF FrameOrdered
    <3> QED  BY <2>1, <3>1, HookSets
  <2> HIDE DEF t
  <2>5. /\ \A g \in Frames \ {f} : frames'[g] = frames[g]
        /\ IsState(frames'[f])
        /\ frames'[f].driver = t.driver /\ frames'[f].hookAt = t.hookAt
        /\ frames'[f].status = t.status /\ frames'[f].hang = t.hang
    BY <2>1, <2>2, <2>3, StepDriverFrames DEF Kept
  <2>6. FrameOrdered(f, frames'[f], newest[f], hooks \ {h}, clock)
    <3>1. frames'[f].driver = frames[f].driver
      BY <2>2, <2>5 DEF Kept
    <3>2. frames[f].driver \in ByHooks =>
            IF Stale(frames[f], h)
            THEN /\ frames'[f].hookAt = frames[f].hookAt /\ frames'[f].status = frames[f].status
                 /\ frames'[f].hang = frames[f].hang
            ELSE /\ frames'[f].hookAt = h.at
                 /\ frames'[f].status = StatusOf[frames[f].driver][h.event]
      BY <2>4, <2>5 DEF Sets
    <3>3. FrameOrdered(f, frames[f], newest[f], hooks, clock) /\ HooksTimed(hooks, clock)
      BY <1>3, <2>1 DEF OrderInv
    <3> QED  BY <2>1, <2>5, <3>1, <3>2, <3>3, HookOrdered
  <2>7. \A g \in Frames \ {f} : FrameOrdered(g, frames'[g], newest[g], hooks \ {h}, clock)
    BY <1>3, <2>5, FewerHooks
  <2> QED  BY <1>1, <1>2, <2>6, <2>7 DEF OrderInv
<1>5. CASE ~Live(f)
  <2>1. frames' = frames
    BY <1>5 DEF DriverHook
  <2>2. ASSUME NEW g \in Frames
        PROVE  FrameOrdered(g, frames[g], newest[g], hooks \ {h}, clock)
    <3>1. CASE g = f
      BY <1>3, <1>5, <2>2, <3>1 DEF FrameOrdered, Live
    <3>2. CASE g # f
      BY <1>3, <2>2, <3>2, FewerHooks
    <3> QED  BY <3>1, <3>2
  <2> QED  BY <1>1, <1>2, <2>1, <2>2 DEF OrderInv
<1> QED  BY <1>4, <1>5

\* The other steps of drivers: ticks, activity, titles, files and results.
LEMMA DriverStepsOrder ==
    ASSUME InboxInv, OrderInv
    PROVE  /\ Tick \/ PaneActivity \/ FileChanged \/ JobResult => OrderInv'
           /\ \A title : PaneOsc(title) => OrderInv'
<1>1. \A f : Live(f) => IsState(frames[f])
  BY DEF InboxInv, FrameOk, Live
<1>2. ASSUME UNCHANGED <<restarts, phase, newest, hooks, clock, frames>>
      PROVE  OrderInv'
  BY <1>2 DEF OrderInv
<1>3. ASSUME Tick
      PROVE  OrderInv'
  <2>1. phase = "loop" /\ UNCHANGED <<restarts, phase, newest, hooks, clock>>
    BY <1>3 DEF Tick, loopVars, programVars
  <2>2. CASE Live(Root)
    <3>1. PICK active \in BOOLEAN, due \in BOOLEAN, stride \in BOOLEAN, old \in BOOLEAN :
            StepDriver(Root, Ticked(frames[Root], active, due, stride), known,
                       IF GithubStepTick(old) THEN FetchJob ELSE << >>)
      BY <1>3, <2>2 DEF Tick
    <3>2. Kept(frames[Root], Ticked(frames[Root], active, due, stride))
      BY <1>1, <2>2, TickQuiet DEF Quiet
    <3>3. frames[Root].driver \in ByHooks =>
            Settles(frames[Root], Ticked(frames[Root], active, due, stride))
      BY <1>1, <2>2, TickSettles
    <3> QED  BY <2>1, <2>2, <3>1, <3>2, <3>3, StepDriverOrder
  <2>3. CASE ~Live(Root)
    BY <1>2, <1>3, <2>1, <2>3 DEF Tick
  <2> QED  BY <2>2, <2>3
<1>4. ASSUME PaneActivity
      PROVE  OrderInv'
  <2>1. Kept(frames[Root], HandleActivity(frames[Root]))
    BY <1>1, <1>4, ScreenQuiet DEF PaneActivity, Quiet
  <2>2. frames[Root].driver \in ByHooks => Settles(frames[Root], HandleActivity(frames[Root]))
    BY <1>1, <1>4, ScreenSettles DEF PaneActivity
  <2> QED  BY <1>4, <2>1, <2>2, StepDriverOrder DEF PaneActivity, loopVars, programVars
<1>5. ASSUME NEW title, PaneOsc(title)
      PROVE  OrderInv'
  <2>1. Kept(frames[Root], HandleWindowTitle(frames[Root], title))
    BY <1>1, <1>5, ScreenQuiet DEF PaneOsc, Quiet
  <2>2. frames[Root].driver \in ByHooks => Settles(frames[Root], HandleWindowTitle(frames[Root], title))
    BY <1>1, <1>5, ScreenSettles DEF PaneOsc
  <2> QED  BY <1>5, <2>1, <2>2, StepDriverOrder DEF PaneOsc, loopVars, programVars
<1>6. ASSUME FileChanged
      PROVE  OrderInv'
  <2> DEFINE e == Head(events)
  <2>1. phase = "loop" /\ UNCHANGED <<restarts, phase, newest, hooks, clock>>
    BY <1>6 DEF FileChanged, loopVars, programVars
  <2>2. CASE Live(e.frame)
    <3>1. StepDriver(e.frame, HandleTranscriptChanged(frames[e.frame], e.path), known, << >>)
      BY <1>6, <2>2 DEF FileChanged
    <3>2. Kept(frames[e.frame], HandleTranscriptChanged(frames[e.frame], e.path))
      BY <1>1, <2>2, ScreenQuiet DEF Quiet
    <3>3. frames[e.frame].driver \in ByHooks =>
            Settles(frames[e.frame], HandleTranscriptChanged(frames[e.frame], e.path))
      BY <1>1, <2>2, ScreenSettles
    <3> QED  BY <2>1, <2>2, <3>1, <3>2, <3>3, StepDriverOrder
  <2>3. CASE ~Live(e.frame)
    BY <1>2, <1>6, <2>1, <2>3 DEF FileChanged
  <2> QED  BY <2>2, <2>3
<1>7. ASSUME JobResult
      PROVE  OrderInv'
  <2> DEFINE job == Head(results)
  <2>1. phase = "loop" /\ UNCHANGED <<restarts, phase, newest, hooks, clock>>
    BY <1>7 DEF JobResult, loopVars, programVars
  <2>2. CASE Live(job.frame) /\ job.kind # "fetch"
    <3>1. PICK r \in Outcomes(job, frames[job.frame].driver) :
            StepDriver(job.frame, HandleJobResult(frames[job.frame], r, job), Struck(job), << >>)
      BY <1>7, <2>2 DEF JobResult
    <3>2. Kept(frames[job.frame], HandleJobResult(frames[job.frame], r, job))
      BY <1>1, <2>2, ResultQuiet DEF Quiet
    <3>3. frames[job.frame].driver \in ByHooks =>
            Settles(frames[job.frame], HandleJobResult(frames[job.frame], r, job))
      BY <1>1, <2>2, ResultSettles
    <3> QED  BY <2>1, <2>2, <3>1, <3>2, <3>3, StepDriverOrder
  <2>3. CASE ~(Live(job.frame) /\ job.kind # "fetch")
    BY <1>2, <1>7, <2>1, <2>3 DEF JobResult
  <2> QED  BY <2>2, <2>3
<1> QED  BY <1>3, <1>4, <1>5, <1>6, <1>7

\* A program's next hook is the newest of all.
LEMMA ProgramOrder ==
    ASSUME InboxInv, OrderInv, NEW f \in Frames, Program(f)
    PROVE  OrderInv'
<1>1. PICK m \in Moves : \E tool \in Tools(f, m[2]) :
        /\ m[2] \in Sends(frames[f].driver) /\ clock' = clock + 1
        /\ hooks' = hooks \union {[frame |-> f, event |-> m[2], at |-> clock + 1,
                                   path |-> Len(NextFile(f, m[2])), tool |-> tool]}
        /\ newest' = [newest EXCEPT ![f] = IF m[2] \in DOMAIN StatusOf[frames[f].driver]
                                           THEN m[2] ELSE @]
  BY DEF Program
<1>2. PICK tool :
        hooks' = hooks \union {[frame |-> f, event |-> m[2], at |-> clock + 1,
                                path |-> Len(NextFile(f, m[2])), tool |-> tool]}
  BY <1>1
<1> DEFINE h == [frame |-> f, event |-> m[2], at |-> clock + 1,
                 path |-> Len(NextFile(f, m[2])), tool |-> tool]
<1>3. hooks' = hooks \union {h} /\ h.frame = f /\ h.event = m[2] /\ h.at = clock + 1
  BY <1>2
<1> HIDE DEF h
<1>4. UNCHANGED <<restarts, phase, frames>> /\ Live(f)
  BY DEF Program, loopVars, stateVars
<1>5. HooksTimed(hooks, clock)
  BY DEF OrderInv
<1>6. HooksTimed(hooks', clock + 1)
  BY <1>3, <1>5 DEF HooksTimed
<1>7. newest' = [g \in Frames |-> newest'[g]] /\ \A g \in Frames \ {f} : newest'[g] = newest[g]
  BY <1>1 DEF OrderInv
<1> SUFFICES ASSUME phase # "down", NEW g \in Frames
             PROVE  FrameOrdered(g, frames[g], newest'[g], hooks', clock + 1)
  BY <1>1, <1>4, <1>6, <1>7 DEF OrderInv
<1>8. FrameOrdered(g, frames[g], newest[g], hooks, clock)
  BY DEF OrderInv
<1>9. CASE g = f
  <2> SUFFICES ASSUME frames[f].driver \in ByHooks
               PROVE  FrameOrdered(f, frames[f], newest'[f], hooks', clock + 1)
    BY <1>4, <1>9 DEF FrameOrdered, Live
  <2>1. m[2] \in DOMAIN StatusOf[frames[f].driver]
    BY <1>1 DEF Sends, ByHooks
  <2>2. newest'[f] = m[2]
    BY <1>1, <2>1 DEF OrderInv
  <2>3. /\ frames[f].hookAt \in Nat /\ frames[f].hookAt <= clock
        /\ \A e \in hooks : e.frame = f => e.event \in DOMAIN StatusOf[frames[f].driver]
    BY <1>4, <1>8, <1>9 DEF FrameOrdered, Live
  <2>4. h \in hooks' /\ h.at > frames[f].hookAt /\ \A e \in hooks' : e.at <= h.at
    BY <1>3, <1>5, <2>3 DEF HooksTimed
  <2>5. Coming(f, frames[f], newest'[f], hooks')
    BY <1>3, <2>2, <2>4 DEF Coming
  <2>6. \A e \in hooks' : e.frame = f => e.event \in DOMAIN StatusOf[frames[f].driver]
    BY <1>3, <2>1, <2>3
  <2> QED  BY <1>4, <1>5, <2>3, <2>5, <2>6 DEF FrameOrdered, HooksTimed, Live
<1>10. CASE g # f
  <2>1. Answered(g, frames[g], newest[g], hooks) => Answered(g, frames[g], newest[g], hooks')
    BY <1>3, <1>10 DEF Answered
  <2>2. Coming(g, frames[g], newest[g], hooks) => Coming(g, frames[g], newest[g], hooks')
    BY <1>3, <1>10 DEF Coming
  <2> QED  BY <1>3, <1>5, <1>7, <1>8, <1>10, <2>1, <2>2 DEF FrameOrdered, HooksTimed
<1> QED  BY <1>9, <1>10

LEMMA LivesOrder ==
    ASSUME InboxInv, OrderInv, AgentsAssumption, NEW f \in Frames,
           Push(f) \/ Evict(f) \/ PeerSend(f) \/ DrainInbox(f) \/ TimePasses
    PROVE  OrderInv'
<1>1. UNCHANGED <<restarts, phase, newest, hooks, clock>>
  BY DEF Push, Evict, PeerSend, DrainInbox, TimePasses, loopVars, programVars
<1>2. ASSUME NEW g \in Frames, Live(g), phase # "down", NEW t, frames' = [frames EXCEPT ![g] = t],
             IsState(t), t.driver = frames[g].driver, t.hookAt = frames[g].hookAt,
             t.status = frames[g].status, t.hang = frames[g].hang
      PROVE  OrderInv'
  <2>1. FrameOrdered(g, frames[g], newest[g], hooks, clock) /\ Settles(frames[g], t)
    BY <1>2 DEF OrderInv, Settles
  <2>2. FrameOrdered(g, t, newest[g], hooks, clock)
    BY <1>2, <2>1, SettlesOrdered DEF Live
  <2>3. frames'[g] = t /\ \A e \in Frames \ {g} : frames'[e] = frames[e]
    BY <1>2 DEF InboxInv
  <2> QED  BY <1>1, <1>2, <2>2, <2>3, OneFrameOrder
<1>3. \A g : Live(g) => IsState(frames[g]) /\ g \in Frames
  BY DEF InboxInv, FrameOk, Live
<1>4. ASSUME Push(f)
      PROVE  OrderInv'
  <2>1. PICK d \in Drivers : frames' = [frames EXCEPT ![f] = NewState(d)]
    BY <1>4 DEF Push
  <2>2. phase = "loop" /\ FrameOrdered(f, Unborn, newest[f], hooks, clock)
    BY <1>4 DEF Push, OrderInv
  <2>3. NewState(d).driver = d /\ NewState(d).hookAt = 0 /\ NewState(d) \notin {Gone, Unborn}
    BY NewStateIs, StateIsLive DEF NewState
  <2>4. FrameOrdered(f, NewState(d), newest[f], hooks, clock)
    <3> clock \in Nat
      BY DEF OrderInv, HooksTimed
    <3> QED  BY <2>2, <2>3 DEF FrameOrdered
  <2>5. frames'[f] = NewState(d) /\ \A e \in Frames \ {f} : frames'[e] = frames[e]
    BY <2>1 DEF InboxInv
  <2> QED  BY <1>1, <2>2, <2>4, <2>5, OneFrameOrder
<1>5. ASSUME Evict(f)
      PROVE  OrderInv'
  <2>1. \A g \in Frames : frames'[g] \in {Gone, frames[g]}
    BY <1>5 DEF Evict
  <2>2. \A g \in Frames : FrameOrdered(g, Gone, newest[g], hooks, clock)
    BY DEF FrameOrdered, Gone, Unborn
  <2> QED  BY <1>1, <2>1, <2>2 DEF OrderInv
<1>6. ASSUME PeerSend(f)
      PROVE  OrderInv'
  <2>1. PICK msg \in 1 .. MaxMessages :
          frames' = IF Blocking(frames[f].status)
                    THEN [frames EXCEPT ![f].inbox = Append(@, msg)] ELSE frames
    BY <1>6 DEF PeerSend
  <2>2. CASE frames' = frames
    BY <1>1, <2>2 DEF OrderInv
  <2>3. CASE frames' = [frames EXCEPT ![f].inbox = Append(@, msg)]
    <3> DEFINE t == [frames[f] EXCEPT !.inbox = Append(@, msg)]
    <3>1. Live(f) /\ IsState(frames[f]) /\ phase # "down"
      BY <1>3, <1>6 DEF PeerSend
    <3>2. /\ IsState(t) /\ t.driver = frames[f].driver /\ t.hookAt = frames[f].hookAt
          /\ t.status = frames[f].status /\ t.hang = frames[f].hang
      BY <3>1 DEF IsState, Fields
    <3>3. frames' = [frames EXCEPT ![f] = t]
      BY <2>3 DEF InboxInv
    <3> HIDE DEF t
    <3> QED  BY <1>2, <3>1, <3>2, <3>3
  <2> QED  BY <2>1, <2>2, <2>3
<1>7. ASSUME DrainInbox(f)
      PROVE  OrderInv'
  <2> DEFINE t == [frames[f] EXCEPT !.inbox = << >>]
  <2>1. Live(f) /\ IsState(frames[f]) /\ phase # "down"
    BY <1>3, <1>7 DEF DrainInbox
  <2>2. /\ IsState(t) /\ t.driver = frames[f].driver /\ t.hookAt = frames[f].hookAt
        /\ t.status = frames[f].status /\ t.hang = frames[f].hang
    BY <2>1 DEF IsState, Fields
  <2>3. frames' = [frames EXCEPT ![f] = t]
    BY <1>7 DEF DrainInbox, InboxInv
  <2> HIDE DEF t
  <2> QED  BY <1>2, <2>1, <2>2, <2>3
<1>8. ASSUME TimePasses
      PROVE  OrderInv'
  <2> DEFINE t == [frames[Root] EXCEPT !.fresh = FALSE]
  <2>1. Live(Root) /\ IsState(frames[Root]) /\ Root \in Frames
    BY <1>3, <1>8 DEF TimePasses
  <2>2. /\ IsState(t) /\ t.driver = frames[Root].driver /\ t.hookAt = frames[Root].hookAt
        /\ t.status = frames[Root].status /\ t.hang = frames[Root].hang
    BY <2>1 DEF IsState, Fields
  <2>3. frames' = [frames EXCEPT ![Root] = t]
    BY <1>8 DEF TimePasses, InboxInv
  <2> HIDE DEF t
  <2>4. CASE phase = "down"
    BY <1>1, <2>4 DEF OrderInv
  <2>5. CASE phase # "down"
    BY <1>2, <2>1, <2>2, <2>3, <2>5
  <2> QED  BY <2>4, <2>5
<1> QED  BY <1>4, <1>5, <1>6, <1>7, <1>8

LEMMA OtherOrder ==
    ASSUME InboxInv, OrderInv, MaxRestarts = 0,
           \/ \E f \in Frames : FileWrite(f) \/ Register(f) \/ PaneGoes(f)
           \/ \E h \in hooks : HookLost(h)
           \/ Take \/ \E job \in running : Send(job) \/ WorkerQuits(job)
           \/ Stop \/ Exit \/ Restart \/ UNCHANGED vars
    PROVE  OrderInv'
<1>1. ASSUME NEW h \in hooks, HookLost(h)
      PROVE  OrderInv'
  <2>1. hooks' = hooks \ {h} /\ phase' = "down" /\ UNCHANGED <<restarts, newest, clock>>
    BY <1>1 DEF HookLost, loopVars
  <2> QED  BY <2>1 DEF OrderInv, HooksTimed
<1>2. ASSUME Exit
      PROVE  OrderInv'
  BY <1>2 DEF Exit, programVars, OrderInv
<1>3. ~Restart
  BY DEF Restart, OrderInv
<1>4. ASSUME \/ \E f \in Frames : FileWrite(f) \/ Register(f) \/ PaneGoes(f)
             \/ Take \/ \E job \in running : Send(job) \/ WorkerQuits(job)
             \/ Stop \/ UNCHANGED vars
      PROVE  OrderInv'
  <2>1. /\ UNCHANGED <<frames, restarts, newest, hooks, clock>>
        /\ phase' = phase \/ (phase = "loop" /\ phase' = "stopping")
    BY <1>4 DEF FileWrite, Register, PaneGoes, Take, Send, WorkerQuits, Stop, vars, loopVars, poolVars,
                stateVars, programVars
  <2> QED  BY <2>1 DEF OrderInv
<1> QED  BY <1>1, <1>2, <1>3, <1>4

LEMMA OrderStep ==
    ASSUME InboxInv, OrderInv, MaxRestarts = 0, [Next]_vars
    PROVE  OrderInv'
<1>1. CASE \E f \in Frames : Program(f)
  BY <1>1, ProgramOrder
<1>2. CASE \/ TimePasses
           \/ \E f \in Frames : Push(f) \/ Evict(f) \/ PeerSend(f) \/ DrainInbox(f)
  BY <1>2, AgentsAssumption, LivesOrder DEF AgentsAssumption
<1>3. CASE \E h \in hooks : DriverHook(h)
  BY <1>3, HookStepOrder
<1>4. CASE \/ Tick \/ PaneActivity \/ FileChanged \/ JobResult
           \/ \E title \in Titles : PaneOsc(title)
  BY <1>4, DriverStepsOrder
<1>5. CASE \/ \E f \in Frames : FileWrite(f) \/ Register(f) \/ PaneGoes(f)
           \/ \E h \in hooks : HookLost(h)
           \/ Take \/ \E job \in running : Send(job) \/ WorkerQuits(job)
           \/ Stop \/ Exit \/ Restart \/ UNCHANGED vars
  BY <1>5, OtherOrder
<1> QED  BY <1>1, <1>2, <1>3, <1>4, <1>5 DEF Next

-----------------------------------------------------------------------------
(* 7. The theorem.                                                         *)

\* Hooks are sent by processes of their own and reach the daemon in any order
\* (`roost event`, reduceDriverHook, isStaleDriverHookTimestamp): during one life of
\* the daemon a codex or gemini frame with no hook on its way has the status its
\* newest hook stands for, unless a hang was found since.
THEOREM SettledTheorem ==
    ASSUME MaxRestarts = 0
    PROVE  Spec => []SettledStatus
<1>1. Init => OrderInv
  BY OrderInit
<1>2. InboxInv /\ OrderInv /\ [Next]_vars => OrderInv'
  BY OrderStep
<1>3. OrderInv => SettledStatus
  <2> SUFFICES ASSUME OrderInv, NEW f \in Frames, phase = "loop", Live(f),
                      frames[f].driver \in {"codex", "gemini"}, newest[f] # "none", ~frames[f].hang,
                      ~\E h \in hooks : h.frame = f
               PROVE  frames[f].status = StatusOf[frames[f].driver][newest[f]]
    BY DEF SettledStatus
  <2>1. Answered(f, frames[f], newest[f], hooks) \/ Coming(f, frames[f], newest[f], hooks)
    BY DEF OrderInv, FrameOrdered, Live, ByHooks
  <2> QED  BY <2>1 DEF Answered, Coming
<1> QED  BY <1>1, <1>2, <1>3, InboxAlways, PTL DEF Spec

-----------------------------------------------------------------------------
(***************************************************************************)
(* The jobs of the drivers: for any frames, drivers, workers and capacity  *)
(* of the queue, an in-flight flag stands for one job in the table of      *)
(* State.Jobs, and what was parsed of a transcript never goes back.  The   *)
(* second rests on the first: parses of one frame do not race each other,  *)
(* because the flag lets no second one into the pool.                      *)
(*                                                                         *)
(* Section 8 says which flags and jobs a handler sets, section 9 what is   *)
(* in the pool and in the table when jobs are started, taken and struck,   *)
(* section 10 what the steps of Agents do to either, section 11 is the     *)
(* invariant of flags and table, section 12 what is read of transcripts.   *)
(***************************************************************************)

(* 8. Handlers: a flag is set with its job, and no flag is cleared.        *)

\* The handler that makes t of s takes on paths of P alone, and asks for a parse
\* of none but the path it ends with.
Runs(s, t, P) ==
  /\ IsState(t) /\ t.driver = s.driver
  /\ s.flight \subseteq t.flight /\ t.flight \ s.flight \subseteq Kinds
  /\ t.jobs = s.jobs \union (t.flight \ s.flight)
  /\ t.path \in P \union {s.path}
  /\ "parse" \in t.flight \ s.flight => t.path # 0
  /\ t.shown = s.shown

LEMMA RunsSame ==
    ASSUME NEW st, IsState(st), NEW P
    PROVE  Runs(st, st, P)
<1>1. st.flight \ st.flight = {} /\ st.jobs \union {} = st.jobs
  OBVIOUS
<1> QED  BY <1>1 DEF Runs

LEMMA RunsTrans ==
    ASSUME NEW s, NEW t, NEW u, NEW P, Runs(s, t, P), Runs(t, u, {})
    PROVE  Runs(s, u, P)
<1>1. IsState(u) /\ u.driver = s.driver /\ u.shown = s.shown /\ u.path = t.path
  BY DEF Runs
<1>2. u.flight \ s.flight = (u.flight \ t.flight) \union (t.flight \ s.flight)
  BY DEF Runs
<1> QED  BY <1>1, <1>2 DEF Runs

\* Setting fields the jobs do not depend on.
Alike(s, t, P) ==
  /\ IsState(t) /\ t.driver = s.driver /\ t.flight = s.flight /\ t.jobs = s.jobs
  /\ t.path \in P \union {s.path} /\ t.shown = s.shown

LEMMA AlikeRuns ==
    ASSUME NEW s, NEW t, NEW P, Alike(s, t, P)
    PROVE  Runs(s, t, P)
  BY DEF Alike, Runs

LEMMA SharedRuns ==
    ASSUME NEW st, IsState(st)
    PROVE  /\ \A kind : kind # "parse" => Runs(st, Launch(st, kind), {})
           /\ Runs(st, LaunchParse(st), {}) /\ Runs(st, Watch(st), {})
           /\ \A status : Runs(st, WithStatus(st, status), {})
<1>1. ASSUME NEW kind, kind # "parse" \/ st.path # 0
      PROVE  Runs(st, Launch(st, kind), {})
  <2> DEFINE t == [st EXCEPT !.flight = @ \union {kind}, !.jobs = @ \union {kind}]
  <2>1. CASE kind \in Kinds \ st.flight
    <3>1. /\ IsState(t) /\ t.driver = st.driver /\ t.flight = st.flight \union {kind}
          /\ t.jobs = st.jobs \union {kind} /\ t.path = st.path /\ t.shown = st.shown
      BY DEF IsState, Fields
    <3>2. Launch(st, kind) = t
      BY <2>1 DEF Launch
    <3> HIDE DEF t
    <3>3. t.flight \ st.flight = {kind}
      BY <2>1, <3>1
    <3> QED  BY <1>1, <2>1, <3>1, <3>2, <3>3 DEF Runs
  <2>2. CASE kind \notin Kinds \ st.flight
    BY <2>2, RunsSame DEF Launch
  <2> QED  BY <2>1, <2>2
<1>2. Runs(st, LaunchParse(st), {})
  BY <1>1, RunsSame DEF LaunchParse
<1>3. Alike(st, Watch(st), {})
  BY DEF Alike, IsState, Fields, Watch
<1>4. \A status : Alike(st, WithStatus(st, status), {})
  BY DEF Alike, IsState, Fields, WithStatus
<1> QED  BY <1>1, <1>2, <1>3, <1>4, AlikeRuns

LEMMA ParseRuns ==
    ASSUME NEW st, NEW s, NEW P, Runs(st, s, P)
    PROVE  Runs(st, LaunchParse(s), P) /\ Runs(st, LaunchParse(Watch(s)), P)
           /\ \A kind : kind # "parse" => Runs(st, Launch(s, kind), P)
<1>1. IsState(s)
  BY DEF Runs
<1>2. Runs(st, Watch(s), P)
  BY <1>1, SharedRuns, RunsTrans
<1>3. IsState(Watch(s))
  BY <1>2 DEF Runs
<1> QED  BY <1>1, <1>2, <1>3, SharedRuns, RunsTrans

LEMMA AcceptedAlike ==
    ASSUME NEW st, NEW h, IsState(st)
    PROVE  Alike(st, Accepted(st, h), {})
  BY DEF Alike, IsState, Fields, Accepted, ResetHangDetection

LEMMA ToolLogAlike ==
    ASSUME NEW st, NEW h, IsState(st)
    PROVE  Alike(st, ToolLog(st, h), {})
  BY DEF Alike, IsState, Fields, ToolLog, RestrictDomain

LEMMA WithPathAlike ==
    ASSUME NEW st, NEW s, NEW h, Alike(st, s, {}), NEW status, NEW tools
    PROVE  /\ Alike(st, [s EXCEPT !.path = h.path], {h.path})
           /\ Alike(st, [WithStatus(s, status) EXCEPT !.path = h.path], {h.path})
           /\ Alike(st, [WithStatus(s, status) EXCEPT !.tools = tools, !.path = h.path], {h.path})
<1>1. Alike(st, [s EXCEPT !.path = h.path], {h.path})
  BY DEF Alike, IsState, Fields
<1> DEFINE w == WithStatus(s, status)
<1>2. Alike(st, w, {})
  BY DEF Alike, IsState, Fields, WithStatus
<1> HIDE DEF w
<1>3. Alike(st, [w EXCEPT !.path = h.path], {h.path})
  BY <1>2 DEF Alike, IsState, Fields
<1>4. Alike(st, [w EXCEPT !.tools = tools, !.path = h.path], {h.path})
  BY <1>2 DEF Alike, IsState, Fields
<1> QED  BY <1>1, <1>3, <1>4 DEF w

\* A hook brings the path its program wrote last.
LEMMA HookRuns ==
    ASSUME NEW st, NEW h, NEW root, IsState(st)
    PROVE  Runs(st, Hook(st, h, root), {h.path})
<1> DEFINE P == {h.path}
           acc == Accepted(st, h)
           p == [acc EXCEPT !.path = h.path]
<1>1. Alike(st, acc, {}) /\ IsState(acc) /\ Runs(st, acc, P) /\ Runs(st, st, P)
  <2>1. Alike(st, acc, {})
    BY AcceptedAlike
  <2>2. Alike(st, acc, P) /\ IsState(acc)
    BY <2>1 DEF Alike
  <2> QED  BY <2>1, <2>2, AlikeRuns, RunsSame
<1>2. ASSUME NEW s, Runs(st, s, P)
      PROVE  Runs(st, HookStatus(s, h), P) /\ Runs(st, Watch(s), P)
  <2>1. IsState(s)
    BY <1>2 DEF Runs
  <2> QED  BY <1>2, <2>1, SharedRuns, RunsTrans DEF HookStatus
<1>3. Runs(st, p, P)
  BY <1>1, WithPathAlike, AlikeRuns
<1> HIDE DEF p, acc, P
<1>4. Runs(st, CodexHook(st, h, root), P)
  <2> DEFINE a == HookStatus(Watch(p), h)
  <2>1. Runs(st, a, P)
    BY <1>2, <1>3
  <2>2. CodexHook(st, h, root) \in {st, a, LaunchParse(a), Launch(LaunchParse(a), "branch"),
                                    LaunchParse(Launch(a, "summary"))}
    BY DEF CodexHook, p, acc
  <2> HIDE DEF a
  <2>3. Runs(st, LaunchParse(a), P) /\ Runs(st, Launch(a, "summary"), P)
    BY <2>1, ParseRuns
  <2>4. Runs(st, Launch(LaunchParse(a), "branch"), P) /\ Runs(st, LaunchParse(Launch(a, "summary")), P)
    BY <2>3, ParseRuns
  <2> QED  BY <1>1, <2>1, <2>2, <2>3, <2>4
<1>5. Runs(st, GeminiHook(st, h, root), P)
  <2> DEFINE a == HookStatus(p, h)
  <2>1. Runs(st, a, P)
    BY <1>2, <1>3
  <2>2. GeminiHook(st, h, root) \in {st, a, Launch(a, "branch")}
    BY DEF GeminiHook, p, acc
  <2> HIDE DEF a
  <2> QED  BY <1>1, <2>1, <2>2, ParseRuns
<1>6. Runs(st, ClaudeHook(st, h, root), P)
  <2>1. Runs(st, ClaudeStart(st, h, root), P)
    <3> DEFINE a == [WithStatus(acc, "idle") EXCEPT !.tools = << >>, !.path = h.path]
               b == IF a.watched = a.path THEN a ELSE LaunchParse(Watch(a))
    <3>1. Runs(st, a, P)
      BY <1>1, WithPathAlike, AlikeRuns DEF P
    <3>2. ClaudeStart(st, h, root) = IF root THEN Launch(b, "branch") ELSE b
      BY DEF ClaudeStart, acc
    <3> HIDE DEF a
    <3>3. Runs(st, b, P)
      BY <3>1, ParseRuns
    <3> HIDE DEF b
    <3> QED  BY <3>2, <3>3, ParseRuns
  <2>2. Runs(st, ClaudePrompt(acc, h), P)
    <3> DEFINE a == [WithStatus(acc, "running") EXCEPT !.path = h.path]
    <3>1. Runs(st, a, P)
      BY <1>1, WithPathAlike, AlikeRuns DEF P
    <3>2. ClaudePrompt(acc, h) = LaunchParse(Launch(a, "summary"))
      BY DEF ClaudePrompt
    <3> HIDE DEF a
    <3>3. Runs(st, Launch(a, "summary"), P)
      BY <3>1, ParseRuns
    <3> QED  BY <3>2, <3>3, ParseRuns
  <2>3. Runs(st, ClaudeOther(acc, h), P)
    <3> DEFINE l == ToolLog(acc, h)
               a == [WithStatus(l, StatusOf.claude[h.event]) EXCEPT !.path = h.path]
    <3>1. Alike(acc, l, {})
      BY <1>1, ToolLogAlike
    <3>2. Alike(st, l, {}) /\ Alike(st, l, P)
      BY <1>1, <3>1 DEF Alike
    <3>3. Runs(st, a, P) /\ Runs(st, l, P)
      BY <3>2, WithPathAlike, AlikeRuns DEF P
    <3>4. ClaudeOther(acc, h) \in {LaunchParse(a), l}
      BY DEF ClaudeOther
    <3> HIDE DEF a, l
    <3> QED  BY <3>3, <3>4, ParseRuns
  <2>4. ClaudeHook(st, h, root) \in {ClaudeStart(st, h, root), st, acc, ClaudePrompt(acc, h),
                                     ClaudeOther(acc, h)}
    BY DEF ClaudeHook, acc
  <2> QED  BY <1>1, <2>1, <2>2, <2>3, <2>4
<1>7. Hook(st, h, root) \in {ClaudeHook(st, h, root), CodexHook(st, h, root),
                             GeminiHook(st, h, root), st}
  BY DEF Hook
<1> QED  BY <1>1, <1>4, <1>5, <1>6, <1>7 DEF P

LEMMA TickRuns ==
    ASSUME NEW st, NEW active, NEW due, NEW stride, IsState(st)
    PROVE  Runs(st, Ticked(st, active, due, stride), {})
<1>1. Runs(st, PollingTick(st, active, due), {})
  BY SharedRuns, RunsSame DEF PollingTick
<1> DEFINE a == IF active /\ due THEN Launch(st, "branch") ELSE st
           b == IF ~active /\ st.status = "running" /\ (~st.primed \/ stride)
                THEN Launch(a, "capture") ELSE a
           c == [WithStatus(b, "stopped") EXCEPT !.hang = TRUE]
<1>2. Runs(st, a, {})
  BY SharedRuns, RunsSame
<1>3. Runs(st, b, {})
  <2> HIDE DEF a
  <2> QED  BY <1>2, ParseRuns
<1>4. Runs(st, c, {})
  <2> HIDE DEF b
  <2>1. Alike(b, c, {})
    BY <1>3 DEF Runs, Alike, WithStatus, IsState, Fields
  <2> HIDE DEF c
  <2> QED  BY <1>3, <2>1, AlikeRuns, RunsTrans
<1>5. Ticked(st, active, due, stride) \in {PollingTick(st, active, due), st, c, b}
  BY DEF Ticked, CommonTick
<1> HIDE DEF a, b, c
<1> QED  BY <1>1, <1>3, <1>4, <1>5, RunsSame

LEMMA ScreenRuns ==
    ASSUME NEW st, NEW title, NEW path, IsState(st)
    PROVE  /\ Runs(st, HandleActivity(st), {})
           /\ Runs(st, HandleWindowTitle(st, title), {})
           /\ Runs(st, HandleTranscriptChanged(st, path), {path})
           /\ Runs(st, WarmStartRecover(st), {})
<1>1. Runs(st, HandleActivity(st), {})
  BY SharedRuns, RunsSame DEF HandleActivity
<1>2. Runs(st, HandleWindowTitle(st, title), {})
  <2> DEFINE a == [st EXCEPT !.title = title]
  <2>1. Alike(st, a, {})
    BY DEF Alike, IsState, Fields
  <2>2. HandleWindowTitle(st, title) \in {st, a, WithStatus(a, "waiting"), WithStatus(a, "running")}
    BY DEF HandleWindowTitle
  <2> HIDE DEF a
  <2>3. Runs(st, a, {}) /\ IsState(a)
    BY <2>1, AlikeRuns DEF Alike
  <2>4. Runs(st, WithStatus(a, "waiting"), {}) /\ Runs(st, WithStatus(a, "running"), {})
    BY <2>3, SharedRuns, RunsTrans
  <2> QED  BY <2>2, <2>3, <2>4, RunsSame
<1>3. Runs(st, HandleTranscriptChanged(st, path), {path})
  <2> DEFINE s == IF st.path = 0 THEN [st EXCEPT !.path = path] ELSE st
  <2>1. Alike(st, s, {path})
    BY DEF Alike, IsState, Fields
  <2>2. HandleTranscriptChanged(st, path) \in {LaunchParse(Watch(s)), LaunchParse(Watch(st)), st}
    BY DEF HandleTranscriptChanged
  <2> HIDE DEF s
  <2>3. Runs(st, s, {path}) /\ Runs(st, st, {path})
    BY <2>1, AlikeRuns, RunsSame
  <2> QED  BY <2>2, <2>3, ParseRuns
<1>4. Runs(st, WarmStartRecover(st), {})
  BY ParseRuns, RunsSame DEF WarmStartRecover
<1> QED  BY <1>1, <1>2, <1>3, <1>4

\* What is left of a frame's state when the job's result is there: the flag goes,
\* but for that of a polling driver's capture, and a parse may be shown.
Without(st, kind) == [st EXCEPT !.flight = @ \ {kind}]
Showing(st, job) == [Without(st, job.kind) EXCEPT !.shown = [path |-> job.path, ver |-> job.ver]]

LEMMA ResultRuns ==
    ASSUME NEW st, NEW r, NEW job, job.kind \in Kinds, IsState(st)
    PROVE  LET t == HandleJobResult(st, r, job) IN
           \/ Runs(Without(st, job.kind), t, {})
           \/ job.kind = "parse" /\ Runs(Showing(st, job), t, {})
           \/ job.kind = "capture" /\ st.driver \in Polling /\ Runs(st, t, {})
<1>1. ASSUME NEW kind
      PROVE  Landed(st, kind) = Without(st, kind) /\ IsState(Without(st, kind))
  BY DEF Landed, Without, IsState, Fields
<1>2. job.kind = "parse" => \/ Runs(Without(st, "parse"), HandleParse(st, r, job), {})
                            \/ Runs(Showing(st, job), HandleParse(st, r, job), {})
  <2> DEFINE a == Landed(st, "parse")
             t == [a EXCEPT !.shown = [path |-> job.path, ver |-> job.ver], !.busy = r.busy]
  <2>1. CASE r.err
    BY <1>1, <2>1, RunsSame DEF HandleParse
  <2>2. CASE ~r.err
    <3>1. HandleParse(st, r, job) = t
      BY <2>2 DEF HandleParse
    <3>2. job.kind = "parse" => Alike(Showing(st, job), t, {})
      BY <1>1 DEF Alike, Showing, IsState, Fields
    <3> QED  BY <3>1, <3>2, AlikeRuns
  <2> QED  BY <2>1, <2>2
<1>3. Runs(Without(st, "capture"), HandleCapture(st, r), {})
  <2> DEFINE a == Without(st, "capture")
  <2>1. HandleCapture(st, r) \in {a, [a EXCEPT !.primed = TRUE, !.fresh = TRUE]}
    BY <1>1 DEF HandleCapture
  <2>2. IsState(a)
    BY <1>1
  <2> HIDE DEF a
  <2>3. Alike(a, [a EXCEPT !.primed = TRUE, !.fresh = TRUE], {})
    BY <2>2 DEF Alike, IsState, Fields
  <2> QED  BY <2>1, <2>2, <2>3, AlikeRuns, RunsSame DEF a
<1>4. Runs(st, PollingCapture(st, r), {})
  <2> DEFINE next == IF st.driver = "shell" THEN ShellCapture(st, r) ELSE GenericCapture(st, r)
             marked == [st EXCEPT !.osc = TRUE, !.fresh = @ \/ r.changed,
                    !.status = CASE r.mark = "command" -> "running"
                                 [] r.mark = "complete" -> "waiting"
                                 [] OTHER -> @]
             quiet == [st EXCEPT !.status = "waiting"]
  <2>1. Alike(st, PollingBaseline(st, r), {}) /\ Alike(st, IdleThresholdFallback(st), {})
    BY DEF PollingBaseline, IdleThresholdFallback, Alike, IsState, Fields
  <2>2. Alike(st, marked, {}) /\ Alike(st, quiet, {})
    BY DEF Alike, IsState, Fields
  <2>3. next \in {marked, PollingBaseline(st, r), quiet, IdleThresholdFallback(st)}
    BY DEF ShellCapture, GenericCapture
  <2>4. PollingCapture(st, r) \in {st, Launch(next, "summary"), next}
    BY DEF PollingCapture
  <2> HIDE DEF next, marked, quiet
  <2>5. Runs(st, next, {})
    BY <2>1, <2>2, <2>3, AlikeRuns
  <2> QED  BY <2>4, <2>5, ParseRuns, RunsSame
<1>5. job.kind \in {"summary", "branch"} => HandleJobResult(st, r, job) = Without(st, job.kind)
  BY <1>1 DEF HandleJobResult
<1>6. job.kind = "parse" => HandleJobResult(st, r, job) = HandleParse(st, r, job)
  BY DEF HandleJobResult
<1>7. job.kind = "capture" => HandleJobResult(st, r, job) = IF st.driver \in Polling THEN PollingCapture(st, r)
                                                           ELSE HandleCapture(st, r)
  BY DEF HandleJobResult
<1>8. job.kind \in {"summary", "branch", "parse", "capture"}
  BY KindsAssumption
<1> QED  BY <1>1, <1>2, <1>3, <1>4, <1>5, <1>6, <1>7, <1>8, RunsSame

-----------------------------------------------------------------------------
(* 9. The pool and the table.                                              *)

Job == [id : Nat, frame : Frames \union {"github"}, kind : Kinds \union {"fetch"},
        path : Nat, ver : Nat]

LEMMA JobFields ==
    ASSUME NEW j \in Job
    PROVE  /\ j.id \in Nat /\ j.frame \in Frames \union {"github"}
           /\ j.kind \in Kinds \union {"fetch"} /\ j.path \in Nat /\ j.ver \in Nat
  BY DEF Job

\* No two jobs in q have the same id.
Apart(q) == \A i, k \in DOMAIN q : q[i].id = q[k].id => i = k

\* No two in q are of the same frame and kind.
Once(q) == \A i, k \in DOMAIN q : q[i].frame = q[k].frame /\ q[i].kind = q[k].kind => i = k

In(table, j) == /\ j.id \in DOMAIN table
                /\ table[j.id].frame = j.frame /\ table[j.id].kind = j.kind

TableOk(table) ==
  /\ IsFiniteSet(DOMAIN table) /\ DOMAIN table \subseteq Nat
  /\ \A i \in DOMAIN table : table[i].kind \in Kinds => table[i].frame \in Frames

PoolOk(table, q, run, res) ==
  /\ q \in Seq(Job) /\ run \in SUBSET Job /\ res \in Seq(Job)
  /\ Apart(q) /\ Apart(res) /\ \A j, k \in run : j.id = k.id => j = k
  /\ \A j \in Range(q) : \A k \in run \union Range(res) : j.id # k.id
  /\ \A j \in run : \A k \in Range(res) : j.id # k.id
  /\ \A j \in Range(q) \union run \union Range(res) : In(table, j)

JobsIn(table, f, k) == {i \in DOMAIN table : table[i].frame = f /\ table[i].kind = k}

LEMMA TailApart ==
    ASSUME NEW q \in Seq(Job), q # << >>, Apart(q)
    PROVE  /\ Tail(q) \in Seq(Job) /\ Apart(Tail(q)) /\ Head(q) \in Job
           /\ Range(q) = {Head(q)} \union Range(Tail(q))
           /\ \A j \in Range(Tail(q)) : j.id # Head(q).id
<1>1. /\ Len(q) \in Nat \ {0} /\ Head(q) = q[1] /\ Len(Tail(q)) = Len(q) - 1
      /\ Tail(q) \in Seq(Job) /\ Head(q) \in Job
      /\ \A i \in 1 .. Len(q) - 1 : Tail(q)[i] = q[i + 1]
  BY HeadTailProperties, EmptySeq
<1>2. DOMAIN q = 1 .. Len(q) /\ DOMAIN Tail(q) = 1 .. Len(q) - 1 /\ 1 \in 1 .. Len(q)
  BY <1>1
<1>3. \A i \in 1 .. Len(q) - 1 : i + 1 \in 1 .. Len(q) /\ i + 1 # 1
  BY <1>1
<1>4. Range(q) = {Head(q)} \union Range(Tail(q))
  BY TailSet DEF ToSet, Range
<1>5. Apart(Tail(q))
  <2> SUFFICES ASSUME NEW i \in 1 .. Len(q) - 1, NEW k \in 1 .. Len(q) - 1, Tail(q)[i].id = Tail(q)[k].id
               PROVE  i = k
    BY <1>2 DEF Apart
  <2>1. q[i + 1].id = q[k + 1].id
    BY <1>1
  <2>2. i + 1 = k + 1
    BY <1>2, <1>3, <2>1 DEF Apart
  <2> QED  BY <2>2
<1>6. \A j \in Range(Tail(q)) : j.id # Head(q).id
  <2> SUFFICES ASSUME NEW i \in 1 .. Len(q) - 1, Tail(q)[i].id = Head(q).id
               PROVE  FALSE
    BY <1>2 DEF Range
  <2> QED  BY <1>1, <1>2, <1>3 DEF Apart
<1> QED  BY <1>1, <1>4, <1>5, <1>6

LEMMA AppendApart ==
    ASSUME NEW q \in Seq(Job), NEW j \in Job, Apart(q), \A k \in Range(q) : k.id # j.id
    PROVE  /\ Append(q, j) \in Seq(Job) /\ Apart(Append(q, j))
           /\ Range(Append(q, j)) = Range(q) \union {j}
<1>1. /\ Append(q, j) \in Seq(Job) /\ DOMAIN q = 1 .. Len(q) /\ Len(q) \in Nat
      /\ DOMAIN Append(q, j) = 1 .. Len(q) + 1 /\ Append(q, j)[Len(q) + 1] = j
      /\ \A i \in 1 .. Len(q) : Append(q, j)[i] = q[i]
  BY AppendProperties
<1>2. \A i \in 1 .. Len(q) + 1 : i \in 1 .. Len(q) \/ i = Len(q) + 1
  BY <1>1
<1>3. \A i \in 1 .. Len(q) : q[i].id # j.id
  BY <1>1 DEF Range
<1>4. Apart(Append(q, j))
  BY <1>1, <1>2, <1>3 DEF Apart
<1>5. Range(Append(q, j)) = Range(q) \union {j}
  BY AppendSet DEF ToSet, Range
<1> QED  BY <1>1, <1>4, <1>5

\* Both conditions on sequences hold of one put behind another, if they share
\* nothing.
LEMMA ConcatApart ==
    ASSUME NEW q \in Seq(Job), NEW r \in Seq(Job)
    PROVE  /\ q \o r \in Seq(Job) /\ Range(q \o r) = Range(q) \union Range(r)
           /\ Apart(q) /\ Apart(r) /\ (\A j \in Range(q) : \A k \in Range(r) : j.id # k.id)
                => Apart(q \o r)
           /\ Once(q) /\ Once(r)
              /\ (\A j \in Range(q) : \A k \in Range(r) : ~ (j.frame = k.frame /\ j.kind = k.kind))
                => Once(q \o r)
<1> DEFINE z == q \o r
           m == Len(q)
           n == Len(r)
<1>1. /\ DOMAIN q = 1 .. m /\ DOMAIN r = 1 .. n /\ DOMAIN z = 1 .. m + n /\ m \in Nat /\ n \in Nat
      /\ z \in Seq(Job)
      /\ \A i \in 1 .. m + n : z[i] = IF i <= m THEN q[i] ELSE r[i - m]
  BY ConcatProperties
<1>2. Range(z) = Range(q) \union Range(r)
  <2>1. ToSet(z) = ToSet(q) \union ToSet(r)
    BY ConcatSet
  <2> QED  BY <2>1 DEF ToSet, Range
<1> HIDE DEF z, m, n
<1>3. ASSUME NEW i \in 1 .. m + n
      PROVE  \/ i \in 1 .. m /\ z[i] = q[i]
             \/ i - m \in 1 .. n /\ z[i] = r[i - m] /\ ~(i \in 1 .. m)
  BY <1>1
<1>4. (\A i \in 1 .. m : q[i] \in Range(q)) /\ (\A i \in 1 .. n : r[i] \in Range(r))
  BY <1>1 DEF Range
<1>5. ASSUME Apart(q), Apart(r), \A j \in Range(q) : \A k \in Range(r) : j.id # k.id
      PROVE  Apart(z)
  <2> SUFFICES ASSUME NEW i \in 1 .. m + n, NEW k \in 1 .. m + n, z[i].id = z[k].id
               PROVE  i = k
    BY <1>1 DEF Apart
  <2>1. CASE i \in 1 .. m /\ k \in 1 .. m
    BY <1>1, <1>3, <1>5, <2>1 DEF Apart
  <2>2. CASE i \notin 1 .. m /\ k \notin 1 .. m
    <3>1. /\ i - m \in DOMAIN r /\ k - m \in DOMAIN r
          /\ r[i - m].id = r[k - m].id
      BY <1>1, <1>3, <2>2
    <3>2. i - m = k - m
      BY <1>5, <3>1 DEF Apart
    <3> QED  BY <1>1, <3>2
  <2>3. CASE (i \in 1 .. m) # (k \in 1 .. m)
    BY <1>3, <1>4, <1>5, <2>3
  <2> QED  BY <2>1, <2>2, <2>3
<1>6. ASSUME Once(q), Once(r),
             \A j \in Range(q) : \A k \in Range(r) : ~ (j.frame = k.frame /\ j.kind = k.kind)
      PROVE  Once(z)
  <2> SUFFICES ASSUME NEW i \in 1 .. m + n, NEW k \in 1 .. m + n, z[i].frame = z[k].frame,
                      z[i].kind = z[k].kind
               PROVE  i = k
    BY <1>1 DEF Once
  <2>1. CASE i \in 1 .. m /\ k \in 1 .. m
    BY <1>1, <1>3, <1>6, <2>1 DEF Once
  <2>2. CASE i \notin 1 .. m /\ k \notin 1 .. m
    <3>1. /\ i - m \in DOMAIN r /\ k - m \in DOMAIN r
          /\ r[i - m].frame = r[k - m].frame /\ r[i - m].kind = r[k - m].kind
      BY <1>1, <1>3, <2>2
    <3>2. i - m = k - m
      BY <1>6, <3>1 DEF Once
    <3> QED  BY <1>1, <3>2
  <2>3. CASE (i \in 1 .. m) # (k \in 1 .. m)
    BY <1>3, <1>4, <1>6, <2>3
  <2> QED  BY <2>1, <2>2, <2>3
<1> QED  BY <1>1, <1>2, <1>5, <1>6 DEF z

\* Submit drops what there is no room for.
LEMMA SubmittedApart ==
    ASSUME QueueSize \in Nat, NEW q \in Seq(Job), NEW r \in Seq(Job), Apart(q), Apart(r),
           \A j \in Range(q) : \A k \in Range(r) : j.id # k.id
    PROVE  /\ Submitted(q, r) \in Seq(Job) /\ Apart(Submitted(q, r))
           /\ Range(Submitted(q, r)) \subseteq Range(q) \union Range(r)
<1> DEFINE room == IF QueueSize > Len(q) THEN QueueSize - Len(q) ELSE 0
           n == IF Len(r) < room THEN Len(r) ELSE room
           s == SubSeq(r, 1, n)
<1>1. Submitted(q, r) = q \o s
  BY DEF Submitted
<1>2. n \in Nat /\ n <= Len(r) /\ Len(r) \in Nat
  <2>1. room \in Nat /\ Len(r) \in Nat
    BY LenProperties
  <2> HIDE DEF room
  <2> QED  BY <2>1
<1> HIDE DEF n
<1>3. s \in Seq(Job) /\ Len(s) = n /\ \A i \in 1 .. n : s[i] = r[i]
  BY <1>2, SubSeqProperties
<1> HIDE DEF s
<1>4. DOMAIN s = 1 .. n /\ DOMAIN r = 1 .. Len(r) /\ \A i \in 1 .. n : i \in 1 .. Len(r)
  BY <1>2, <1>3
<1>5. Apart(s) /\ Range(s) \subseteq Range(r)
  BY <1>3, <1>4 DEF Apart, Range
<1> QED  BY <1>1, <1>3, <1>5, ConcatApart

\* FreeIds: as many ids as are asked for, none of them taken.
LEMMA FreeIdsAre ==
    ASSUME IsFiniteSet(DOMAIN known), \A j \in Outstanding : j.id \in DOMAIN known, NEW n \in Nat
    PROVE  /\ FreeIds(n) \in [1 .. n -> Nat]
           /\ \A i \in 1 .. n : FreeIds(n)[i] \notin DOMAIN known
           /\ \A i, k \in 1 .. n : FreeIds(n)[i] = FreeIds(n)[k] => i = k
<1> DEFINE T == DOMAIN known \union {j.id : j \in Outstanding}
           m == Cardinality(T) + n
           F == (1 .. m) \ T
           rank(x) == Cardinality({y \in F : y <= x})
           id(i) == CHOOSE x \in F : rank(x) = i
<1>1. T = DOMAIN known
  OBVIOUS
<1>2. FreeIds(n) = [i \in 1 .. n |-> id(i)]
  BY DEF FreeIds
<1> HIDE DEF T
<1>3. m \in Nat /\ n <= Cardinality(F) /\ F \subseteq 1 .. m /\ Cardinality(F) \in Nat
  BY <1>1, FreeNumbers
<1> HIDE DEF m
<1>4. ASSUME NEW i \in 1 .. n
      PROVE  \E x \in F : rank(x) = i
  <2>1. i \in Nat \ {0} /\ i <= Cardinality(F)
    BY <1>3
  <2> HIDE DEF F
  <2> QED  BY <1>3, <2>1, Rank
<1> HIDE DEF rank
<1>5. \A i \in 1 .. n : id(i) \in F /\ rank(id(i)) = i
  BY <1>4
<1> HIDE DEF id
<1>6. \A x \in F : x \in Nat /\ x \notin T
  BY <1>3
<1> QED  BY <1>1, <1>2, <1>5, <1>6

\* Jobs js were started in a table, and their entries are in table after.
Started(table, js, after) ==
  /\ TableOk(after)
  /\ \A j : In(table, j) => In(after, j)
  /\ \A f, k : (\A j \in Range(js) : ~ (j.frame = f /\ j.kind = k))
                 => JobsIn(after, f, k) = JobsIn(table, f, k)
  /\ \A j \in Range(js) : \E i \in DOMAIN after :
       JobsIn(after, j.frame, j.kind) = JobsIn(table, j.frame, j.kind) \union {i}

LEMMA StartJobsAre ==
    ASSUME QueueSize \in Nat, TableOk(known), PoolOk(known, queue, running, results),
           NEW table, NEW res, TableOk(table), DOMAIN table \subseteq DOMAIN known,
           PoolOk(table, queue, running, res),
           NEW js \in Seq(Job), Once(js), \A j \in Range(js) : j.kind \in Kinds => j.frame \in Frames,
           StartJobs(table, js)
    PROVE  /\ Started(table, js, known') /\ PoolOk(known', queue', running, res)
           /\ \A q \in Range(queue') :
                \/ q \in Range(queue)
                \/ \E j \in Range(js) : q.frame = j.frame /\ q.kind = j.kind /\ q.path = j.path
<1> DEFINE N == Len(js)
           ids == FreeIds(N)
           new == [n \in DOMAIN js |-> [js[n] EXCEPT !.id = ids[n]]]
           Of(id) == CHOOSE n \in DOMAIN js : ids[n] = id
           Entry(id) == [frame |-> js[Of(id)].frame, kind |-> js[Of(id)].kind]
<1>1. /\ known' = [id \in DOMAIN table \union Range(ids) |->
                     IF id \in Range(ids) THEN Entry(id) ELSE table[id]]
      /\ queue' = Submitted(queue, new)
  BY DEF StartJobs
<1>2. \A j \in Outstanding : j.id \in DOMAIN known
  BY DEF PoolOk, Outstanding, In
<1>3. N \in Nat /\ DOMAIN js = 1 .. N /\ \A n \in 1 .. N : js[n] \in Job /\ js[n] \in Range(js)
  BY DEF Range
<1>4. /\ ids \in [1 .. N -> Nat]
      /\ \A i \in 1 .. N : ids[i] \notin DOMAIN known
      /\ \A i, k \in 1 .. N : ids[i] = ids[k] => i = k
  BY <1>2, <1>3, FreeIdsAre DEF TableOk
<1> HIDE DEF ids, N
<1>5. \A n \in 1 .. N : Of(ids[n]) = n
  BY <1>3, <1>4
<1> DEFINE after == [id \in DOMAIN table \union Range(ids) |->
                       IF id \in Range(ids) THEN Entry(id) ELSE table[id]]
<1>6. /\ DOMAIN after = DOMAIN table \union Range(ids)
      /\ \A n \in 1 .. N : ids[n] \in Range(ids)
      /\ \A i \in Range(ids) : i \in Nat /\ i \notin DOMAIN table /\ \E n \in 1 .. N : i = ids[n]
  BY <1>4 DEF Range
<1>7. \A n \in 1 .. N : after[ids[n]].frame = js[n].frame /\ after[ids[n]].kind = js[n].kind
  <2> TAKE n \in 1 .. N
  <2>1. after[ids[n]] = Entry(ids[n])
    BY <1>6
  <2>2. Entry(ids[n]) = [frame |-> js[n].frame, kind |-> js[n].kind]
    BY <1>5
  <2> QED  BY <2>1, <2>2
<1>8. \A i \in DOMAIN table : after[i] = table[i]
  BY <1>6
<1> HIDE DEF after, Of, Entry
<1>9. Started(table, js, after)
  <2>1. IsFiniteSet(DOMAIN after)
    <3>1. IsFiniteSet(1 .. N)
      BY <1>3, FS_Interval
    <3>2. ids \in Surjection(1 .. N, Range(ids))
      BY <1>4 DEF Range, Surjection
    <3>3. IsFiniteSet(Range(ids))
      BY <3>1, <3>2, FS_Surjection
    <3>4. IsFiniteSet(DOMAIN table)
      BY DEF TableOk
    <3>5. IsFiniteSet(DOMAIN table \union Range(ids))
      BY <3>3, <3>4, FS_Union
    <3> QED  BY <1>6, <3>5
  <2>2. TableOk(after)
    BY <1>3, <1>6, <1>7, <1>8, <2>1 DEF TableOk
  <2>3. \A j : In(table, j) => In(after, j)
    BY <1>6, <1>8 DEF In
  <2>4. ASSUME NEW f, NEW k, \A j \in Range(js) : ~ (j.frame = f /\ j.kind = k)
        PROVE  JobsIn(after, f, k) = JobsIn(table, f, k)
    <3>1. \A n \in 1 .. N : ids[n] \notin JobsIn(after, f, k)
      BY <1>3, <1>7, <2>4 DEF JobsIn
    <3>2. \A i \in JobsIn(after, f, k) : i \in DOMAIN table
      BY <1>6, <3>1 DEF JobsIn
    <3> QED  BY <1>6, <1>8, <3>2 DEF JobsIn
  <2>5. ASSUME NEW j \in Range(js)
        PROVE  \E i \in DOMAIN after :
                 JobsIn(after, j.frame, j.kind) = JobsIn(table, j.frame, j.kind) \union {i}
    <3>1. PICK n \in 1 .. N : js[n] = j
      BY <1>3 DEF Range
    <3>2. ids[n] \in DOMAIN after /\ ids[n] \in JobsIn(after, j.frame, j.kind)
      BY <1>6, <1>7, <3>1 DEF JobsIn
    <3>3. \A i \in JobsIn(after, j.frame, j.kind) : i \in DOMAIN table \/ i = ids[n]
      <4> TAKE i \in JobsIn(after, j.frame, j.kind)
      <4>1. CASE i \in Range(ids)
        <5>1. PICK m \in 1 .. N : i = ids[m]
          BY <1>6, <4>1
        <5>2. js[m].frame = js[n].frame /\ js[m].kind = js[n].kind
          BY <1>7, <3>1, <5>1 DEF JobsIn
        <5>3. m = n
          BY <1>3, <5>2 DEF Once
        <5> QED  BY <5>1, <5>3
      <4> QED  BY <1>6, <4>1 DEF JobsIn
    <3>4. JobsIn(after, j.frame, j.kind) = JobsIn(table, j.frame, j.kind) \union {ids[n]}
      BY <1>6, <1>8, <3>2, <3>3 DEF JobsIn
    <3> QED  BY <3>2, <3>4
  <2> QED  BY <2>2, <2>3, <2>4, <2>5 DEF Started
<1>10. /\ new \in Seq(Job) /\ DOMAIN new = 1 .. N
       /\ \A n \in 1 .. N : /\ new[n].id = ids[n] /\ new[n].frame = js[n].frame
                            /\ new[n].kind = js[n].kind /\ new[n].path = js[n].path
  <2>1. ASSUME NEW n \in 1 .. N
        PROVE  /\ [js[n] EXCEPT !.id = ids[n]] \in Job
               /\ new[n].id = ids[n] /\ new[n].frame = js[n].frame
               /\ new[n].kind = js[n].kind /\ new[n].path = js[n].path
    <3>1. ids[n] \in Nat /\ js[n] \in Job
      BY <1>3, <1>4
    <3>2. new[n] = [js[n] EXCEPT !.id = ids[n]]
      BY <1>3
    <3> HIDE DEF new
    <3>3. /\ [js[n] EXCEPT !.id = ids[n]] \in Job
          /\ [js[n] EXCEPT !.id = ids[n]].id = ids[n]
          /\ [js[n] EXCEPT !.id = ids[n]].frame = js[n].frame
          /\ [js[n] EXCEPT !.id = ids[n]].kind = js[n].kind
          /\ [js[n] EXCEPT !.id = ids[n]].path = js[n].path
      BY <3>1 DEF Job
    <3> QED  BY <3>2, <3>3
  <2>2. new = [n \in 1 .. N |-> [js[n] EXCEPT !.id = ids[n]]]
    BY <1>3
  <2>3. new \in [1 .. N -> Job]
    BY <2>1, <2>2
  <2> HIDE DEF new
  <2>4. new \in Seq(Job) /\ DOMAIN new = 1 .. N
    BY <1>3, <2>3
  <2> QED  BY <2>1, <2>4
<1> HIDE DEF new
<1>11. /\ Apart(new)
       /\ \A j \in Range(new) : j.id \notin DOMAIN known /\ In(after, j)
    BY <1>4, <1>6, <1>7, <1>10 DEF Apart, Range, In
<1>12. /\ queue \in Seq(Job) /\ Apart(queue)
       /\ \A j \in Range(queue) \union running \union Range(res) : In(after, j) /\ j.id \in DOMAIN known
  BY <1>9 DEF PoolOk, Started, In
<1>13. /\ queue' \in Seq(Job) /\ Apart(queue') /\ Range(queue') \subseteq Range(queue) \union Range(new)
  <2>1. \A j \in Range(queue) : \A k \in Range(new) : j.id # k.id
    BY <1>11, <1>12
  <2> QED  BY <1>1, <1>10, <1>11, <1>12, <2>1, SubmittedApart
<1>14. PoolOk(after, queue', running, res)
  <2>1. \A j \in Range(queue') : \A k \in running \union Range(res) : j.id # k.id
    BY <1>11, <1>12, <1>13 DEF PoolOk
  <2>2. \A j \in Range(queue') \union running \union Range(res) : In(after, j)
    BY <1>11, <1>12, <1>13
  <2> QED  BY <1>13, <2>1, <2>2 DEF PoolOk
<1>15. ASSUME NEW q \in Range(queue')
       PROVE  \/ q \in Range(queue)
              \/ \E j \in Range(js) : q.frame = j.frame /\ q.kind = j.kind /\ q.path = j.path
  <2>1. CASE q \in Range(new)
    <3>1. PICK n \in 1 .. N : q = new[n]
      BY <1>10, <2>1 DEF Range
    <3>2. js[n] \in Range(js)
      BY <1>3
    <3> QED  BY <1>10, <3>1, <3>2
  <2> QED  BY <1>13, <2>1
<1>16. known' = after
  BY <1>1 DEF after, Entry, Of
<1> QED  BY <1>9, <1>14, <1>15, <1>16

\* What a handler asked for, of frame f in state st, is js.
Wanted(js, f, st) ==
  /\ \A j \in Range(js) : (j.frame = f /\ j.kind \in Kinds) => j.kind \in st.jobs /\ j.path = st.path
  /\ \A k \in st.jobs : \E j \in Range(js) : j.frame = f /\ j.kind = k

LEMMA JobsOfAre ==
    ASSUME NEW f \in Frames, NEW st, st.path \in Nat, st.jobs \subseteq Kinds
    PROVE  /\ JobsOf(f, st) \in Seq(Job) /\ Once(JobsOf(f, st)) /\ Wanted(JobsOf(f, st), f, st)
           /\ \A j \in Range(JobsOf(f, st)) : j.frame = f /\ j.kind \in Kinds
<1> DEFINE one(kind) == [id |-> 0, frame |-> f, kind |-> kind, path |-> st.path, ver |-> 0]
           s(kind) == IF kind \in st.jobs THEN <<one(kind)>> ELSE << >>
<1>1. ASSUME NEW kind
      PROVE  /\ s(kind) \in Seq(Job) /\ Once(s(kind))
             /\ Range(s(kind)) = IF kind \in st.jobs THEN {one(kind)} ELSE {}
  <2>1. CASE kind \in st.jobs
    <3>1. one(kind) \in Job
      BY <2>1 DEF Job
    <3>2. s(kind) = <<one(kind)>>
      BY <2>1
    <3> HIDE DEF one, s
    <3>3. s(kind) \in Seq(Job) /\ DOMAIN s(kind) = {1} /\ s(kind)[1] = one(kind)
      BY <3>1, <3>2
    <3> QED  BY <2>1, <3>3 DEF Once, Range
  <2>2. CASE kind \notin st.jobs
    <3>1. s(kind) = << >>
      BY <2>2
    <3> HIDE DEF s
    <3>2. s(kind) \in Seq(Job) /\ DOMAIN s(kind) = {}
      BY <3>1
    <3> QED  BY <2>2, <3>2 DEF Once, Range
  <2> QED  BY <2>1, <2>2
<1>2. \A kind : one(kind).kind = kind /\ one(kind).frame = f /\ one(kind).path = st.path
  OBVIOUS
<1>3. JobsOf(f, st) = ((s("summary") \o s("parse")) \o s("branch")) \o s("capture")
  BY DEF JobsOf
<1> HIDE DEF s, one
<1> DEFINE a == s("summary") \o s("parse")
           b == a \o s("branch")
           c == b \o s("capture")
<1>4. a \in Seq(Job) /\ Range(a) = Range(s("summary")) \union Range(s("parse")) /\ Once(a)
  <2>1. \A j \in Range(s("summary")) : \A k \in Range(s("parse")) : ~ (j.frame = k.frame /\ j.kind = k.kind)
    BY <1>1, <1>2
  <2> QED  BY <1>1, <2>1, ConcatApart
<1> HIDE DEF a
<1>5. b \in Seq(Job) /\ Range(b) = Range(a) \union Range(s("branch")) /\ Once(b)
  <2>1. \A j \in Range(a) : \A k \in Range(s("branch")) : ~ (j.frame = k.frame /\ j.kind = k.kind)
    BY <1>1, <1>2, <1>4
  <2> QED  BY <1>1, <1>4, <2>1, ConcatApart
<1> HIDE DEF b
<1>6. c \in Seq(Job) /\ Range(c) = Range(b) \union Range(s("capture")) /\ Once(c)
  <2>1. \A j \in Range(b) : \A k \in Range(s("capture")) : ~ (j.frame = k.frame /\ j.kind = k.kind)
    <3>1. Range(b) \subseteq {one("summary"), one("parse"), one("branch")}
      BY <1>1, <1>4, <1>5
    <3>2. Range(s("capture")) \subseteq {one("capture")}
      BY <1>1
    <3> QED  BY <1>2, <3>1, <3>2
  <2> QED  BY <1>1, <1>5, <2>1, ConcatApart
<1> HIDE DEF c
<1>7. Range(c) = {one(k) : k \in st.jobs}
  <2>1. \A k \in st.jobs : k \in {"summary", "parse", "branch", "capture"}
    BY KindsAssumption
  <2>2. Range(c) = ((Range(s("summary")) \union Range(s("parse"))) \union Range(s("branch")))
                     \union Range(s("capture"))
    BY <1>4, <1>5, <1>6
  <2>3. ASSUME NEW kind
        PROVE  /\ kind \in st.jobs => Range(s(kind)) = {one(kind)}
               /\ kind \notin st.jobs => Range(s(kind)) = {}
    BY <1>1
  <2>4. Range(c) \subseteq {one(k) : k \in st.jobs}
    BY <2>2, <2>3
  <2>5. ASSUME NEW k \in st.jobs
        PROVE  one(k) \in Range(c)
    BY <2>1, <2>2, <2>3
  <2> QED  BY <2>4, <2>5
<1>8. JobsOf(f, st) = c
  BY <1>3 DEF a, b, c
<1> QED  BY <1>2, <1>6, <1>7, <1>8 DEF Wanted

LEMMA FetchJobIs ==
    /\ FetchJob \in Seq(Job) /\ Once(FetchJob)
    /\ \A j \in Range(FetchJob) : j.kind \notin Kinds /\ j.kind = "fetch"
<1> DEFINE one == [id |-> 0, frame |-> "github", kind |-> "fetch", path |-> 0, ver |-> 0]
<1>1. one \in Job /\ one.kind = "fetch" /\ "fetch" \notin Kinds
  BY KindsAssumption DEF Job
<1>2. FetchJob = <<one>>
  BY DEF FetchJob
<1> HIDE DEF one
<1>3. FetchJob \in Seq(Job) /\ DOMAIN FetchJob = {1} /\ FetchJob[1] = one
  BY <1>1, <1>2
<1> QED  BY <1>1, <1>3 DEF Once, Range

LEMMA JobsWithFetch ==
    ASSUME NEW f \in Frames, NEW st, st.path \in Nat, st.jobs \subseteq Kinds,
           NEW more \in {<< >>, FetchJob}
    PROVE  LET js == JobsOf(f, st) \o more IN
           /\ js \in Seq(Job) /\ Once(js) /\ Wanted(js, f, st)
           /\ \A j \in Range(js) : j.kind \in Kinds => j.frame = f
<1> DEFINE a == JobsOf(f, st)
<1>1. /\ a \in Seq(Job) /\ Once(a) /\ Wanted(a, f, st)
      /\ \A j \in Range(a) : j.frame = f /\ j.kind \in Kinds
  BY JobsOfAre
<1>2. /\ more \in Seq(Job) /\ Once(more)
      /\ \A j \in Range(more) : j.kind \notin Kinds
  <2>1. << >> \in Seq(Job) /\ DOMAIN << >> = {}
    OBVIOUS
  <2>2. Once(<< >>) /\ Range(<< >>) = {}
    BY <2>1 DEF Once, Range
  <2> QED  BY <2>1, <2>2, FetchJobIs
<1> HIDE DEF a
<1>3. \A j \in Range(a) : \A k \in Range(more) : ~ (j.frame = k.frame /\ j.kind = k.kind)
  BY <1>1, <1>2
<1>4. a \o more \in Seq(Job) /\ Range(a \o more) = Range(a) \union Range(more) /\ Once(a \o more)
  BY <1>1, <1>2, <1>3, ConcatApart
<1>5. Wanted(a \o more, f, st) /\ \A j \in Range(a \o more) : j.kind \in Kinds => j.frame = f
  BY <1>1, <1>2, <1>4 DEF Wanted
<1> QED  BY <1>4, <1>5 DEF a

\* The jobs of all frames that are recovered.
LEMMA JobsOfAllAre ==
    ASSUME NEW S, S \subseteq Frames, IsFiniteSet(S), NEW next, DOMAIN next = S,
           \A f \in S : next[f].path \in Nat /\ next[f].jobs \subseteq Kinds
    PROVE  LET js == JobsOfAll(next) IN
           /\ js \in Seq(Job) /\ Once(js) /\ \A f \in S : Wanted(js, f, next[f])
           /\ \A j \in Range(js) : j.frame \in S /\ j.kind \in Kinds
<1> DEFINE of(o) == [i \in DOMAIN o |-> JobsOf(o[i], next[o[i]])]
           Good(o) == LET js == FlattenSeq(of(o)) IN
                      /\ js \in Seq(Job) /\ Once(js) /\ \A f \in Range(o) : Wanted(js, f, next[f])
                      /\ \A j \in Range(js) : j.frame \in Range(o) /\ j.kind \in Kinds
           G == {o \in Seq(S) : NoDup(o) => Good(o)}
<1>0. ASSUME NEW f \in S
      PROVE  /\ JobsOf(f, next[f]) \in Seq(Job) /\ Once(JobsOf(f, next[f]))
             /\ Wanted(JobsOf(f, next[f]), f, next[f])
             /\ \A j \in Range(JobsOf(f, next[f])) : j.frame = f /\ j.kind \in Kinds
  BY JobsOfAre
<1>1. << >> \in G
  <2>1. << >> \in Seq(S) /\ << >> \in Seq(Job) /\ DOMAIN << >> = {}
    OBVIOUS
  <2>2. of(<< >>) = << >>
    OBVIOUS
  <2>3. FlattenSeq(of(<< >>)) = << >>
    BY <2>2 DEF FlattenSeq
  <2>4. Once(<< >>) /\ Range(<< >>) = {}
    BY <2>1 DEF Once, Range
  <2> QED  BY <2>1, <2>3, <2>4
<1>2. ASSUME NEW o \in Seq(S), NEW x \in S, o \in G
      PROVE  Append(o, x) \in G
  <2> DEFINE p == Append(o, x)
             a == FlattenSeq(of(o))
             b == JobsOf(x, next[x])
  <2>1. /\ p \in Seq(S) /\ DOMAIN o = 1 .. Len(o) /\ DOMAIN p = 1 .. Len(o) + 1 /\ Len(o) \in Nat
        /\ p[Len(o) + 1] = x /\ \A i \in 1 .. Len(o) : p[i] = o[i] /\ o[i] \in S
        /\ ToSet(p) = ToSet(o) \union {x}
    BY AppendProperties, AppendSet
  <2> HIDE DEF p
  <2>2. SUFFICES ASSUME NoDup(p)
                 PROVE  Good(p)
    <3> HIDE DEF Good
    <3> QED  BY <2>1 DEF p
  <2>3. \A i \in 1 .. Len(o) : i \in 1 .. Len(o) + 1 /\ i # Len(o) + 1
    BY <2>1
  <2>4. x \notin Range(o) /\ NoDup(o) /\ Range(p) = Range(o) \union {x}
    BY <2>1, <2>2, <2>3 DEF NoDup, Range, ToSet
  <2>5. of(p) = Append(of(o), b) /\ of(o) \in Seq(Seq(Job)) /\ b \in Seq(Job)
    <3>1. b \in Seq(Job) /\ \A i \in 1 .. Len(o) : JobsOf(o[i], next[o[i]]) \in Seq(Job)
      BY <1>0, <2>1
    <3>2. of(o) = [i \in 1 .. Len(o) |-> JobsOf(o[i], next[o[i]])]
      BY <2>1
    <3>3. of(o) \in [1 .. Len(o) -> Seq(Job)]
      BY <3>1, <3>2
    <3>4. of(o) \in Seq(Seq(Job)) /\ Len(of(o)) = Len(o)
      <4> DEFINE w == of(o)
      <4> HIDE DEF w
      <4>1. w \in [1 .. Len(o) -> Seq(Job)]
        BY <3>3 DEF w
      <4>2. w \in Seq(Seq(Job)) /\ Len(w) = Len(o)
        BY <2>1, <4>1
      <4> QED  BY <4>2 DEF w
    <3> DEFINE y == Append(of(o), b)
               z == of(p)
    <3>5. /\ y \in Seq(Seq(Job)) /\ DOMAIN y = 1 .. Len(o) + 1 /\ y[Len(o) + 1] = b
          /\ \A i \in 1 .. Len(o) : y[i] = JobsOf(o[i], next[o[i]])
      <4>1. \A i \in 1 .. Len(o) : of(o)[i] = JobsOf(o[i], next[o[i]])
        BY <3>2
      <4> HIDE DEF b
      <4> DEFINE w == of(o)
      <4> HIDE DEF w
      <4>2. w \in Seq(Seq(Job)) /\ Len(w) = Len(o) /\ b \in Seq(Job)
        BY <3>1, <3>4 DEF w
      <4>3. /\ Append(w, b) \in Seq(Seq(Job)) /\ DOMAIN Append(w, b) = 1 .. Len(o) + 1
            /\ Append(w, b)[Len(o) + 1] = b
            /\ \A i \in 1 .. Len(o) : Append(w, b)[i] = w[i]
        BY <4>2, AppendProperties
      <4> QED  BY <4>1, <4>3 DEF w
    <3>6. z = [i \in 1 .. Len(o) + 1 |-> JobsOf(p[i], next[p[i]])]
      BY <2>1
    <3>7. \A i \in 1 .. Len(o) + 1 : y[i] = z[i]
      <4> HIDE DEF y
      <4>1. z[Len(o) + 1] = b
        BY <2>1, <3>6
      <4>2. \A i \in 1 .. Len(o) : z[i] = JobsOf(o[i], next[o[i]])
        BY <2>1, <2>3, <3>6
      <4> HIDE DEF z
      <4>3. \A i \in 1 .. Len(o) + 1 : i \in 1 .. Len(o) \/ i = Len(o) + 1
        BY <2>1
      <4> QED  BY <3>5, <4>1, <4>2, <4>3
    <3>8. y = z
      <4>1. DOMAIN z = 1 .. Len(o) + 1 /\ z = [i \in DOMAIN z |-> z[i]]
        BY <3>6
      <4> HIDE DEF y, z
      <4>2. y = [i \in DOMAIN y |-> y[i]]
        BY <3>5
      <4> QED  BY <3>5, <3>7, <4>1, <4>2
    <3> QED  BY <3>1, <3>4, <3>8
  <2>6. FlattenSeq(of(p)) = a \o b
    <3> HIDE DEF of, b
    <3>1. FlattenSeq(Append(of(o), b)) = FlattenSeq(of(o)) \o b
      BY <2>5, FlattenAppend
    <3> QED  BY <2>5, <3>1
  <2>7. /\ a \in Seq(Job) /\ Once(a) /\ \A f \in Range(o) : Wanted(a, f, next[f])
        /\ \A j \in Range(a) : j.frame \in Range(o) /\ j.kind \in Kinds
    BY <1>2, <2>4
  <2>8. /\ b \in Seq(Job) /\ Once(b) /\ Wanted(b, x, next[x])
        /\ \A j \in Range(b) : j.frame = x /\ j.kind \in Kinds
    BY <1>0
  <2> HIDE DEF a, b, of
  <2>9. \A j \in Range(a) : \A k \in Range(b) : ~ (j.frame = k.frame /\ j.kind = k.kind)
    BY <2>4, <2>7, <2>8
  <2>10. a \o b \in Seq(Job) /\ Range(a \o b) = Range(a) \union Range(b) /\ Once(a \o b)
    BY <2>7, <2>8, <2>9, ConcatApart
  <2>11. \A f \in Range(p) : Wanted(a \o b, f, next[f])
    <3>1. \A f \in Range(o) : Wanted(a \o b, f, next[f])
      BY <2>4, <2>7, <2>8, <2>10 DEF Wanted
    <3>2. Wanted(a \o b, x, next[x])
      BY <2>4, <2>7, <2>8, <2>10 DEF Wanted
    <3> QED  BY <2>4, <3>1, <3>2
  <2> QED  BY <2>4, <2>6, <2>7, <2>8, <2>10, <2>11
<1>3. Seq(S) \subseteq G
  <2> HIDE DEF G
  <2> QED  BY <1>1, <1>2, SequenceInduction
<1> DEFINE order == SetToSeq(S)
<1>4. order \in Seq(S) /\ NoDup(order) /\ Range(order) = S
  BY SetToSeqIs DEF Range, ToSet
<1>5. JobsOfAll(next) = FlattenSeq(of(order))
  BY DEF JobsOfAll
<1> HIDE DEF order, of
<1>6. Good(order)
  BY <1>3, <1>4
<1> QED  BY <1>4, <1>5, <1>6

\* A frame's flags after its handler ran from state m, and its jobs were started.
Flags(f, st, table) ==
  /\ st.flight \subseteq Kinds
  /\ \A k \in Kinds :
       IF k \notin st.flight THEN JobsIn(table, f, k) = {}
       ELSE \/ \E i \in DOMAIN table : JobsIn(table, f, k) = {i}
            \/ JobsIn(table, f, k) = {} /\ k = "capture" /\ st.driver \in Polling

LEMMA FlagsStarted ==
    ASSUME NEW f, NEW m, NEW t, NEW P, Runs(m, t, P), m.jobs = {},
           NEW table, NEW js, NEW after, Flags(f, m, table), Started(table, js, after),
           Wanted(js, f, t)
    PROVE  Flags(f, t, after) /\ t.jobs \subseteq Kinds
<1>1. /\ t.flight \subseteq Kinds /\ t.jobs = t.flight \ m.flight /\ m.flight \subseteq t.flight
      /\ t.driver = m.driver
  BY DEF Runs, Flags
<1>2. ASSUME NEW k \in Kinds, k \in t.jobs
      PROVE  \E i \in DOMAIN after : JobsIn(after, f, k) = {i}
  <2>1. JobsIn(table, f, k) = {}
    BY <1>1, <1>2 DEF Flags
  <2>2. PICK j \in Range(js) : j.frame = f /\ j.kind = k
    BY <1>2 DEF Wanted
  <2>3. PICK i \in DOMAIN after : JobsIn(after, f, k) = JobsIn(table, f, k) \union {i}
    BY <2>2 DEF Started
  <2> QED  BY <2>1, <2>3
<1>3. ASSUME NEW k \in Kinds, k \notin t.jobs
      PROVE  JobsIn(after, f, k) = JobsIn(table, f, k)
  <2>1. \A j \in Range(js) : ~ (j.frame = f /\ j.kind = k)
    BY <1>3 DEF Wanted
  <2> QED  BY <2>1 DEF Started
<1>4. ASSUME NEW k \in Kinds, NEW i, JobsIn(after, f, k) = {i}
      PROVE  i \in DOMAIN after
  BY <1>4 DEF JobsIn
<1> QED  BY <1>1, <1>2, <1>3, <1>4 DEF Flags

-----------------------------------------------------------------------------
(* 10. The steps, as far as jobs and transcripts depend on them.           *)

Event == [frame : Frames, path : Nat]

\* The paths a frame and its daemon know are those of transcripts the frame's
\* program wrote.
PathsInv ==
  /\ file \in [Frames -> Seq(Nat)]
  /\ \A h \in hooks : h.frame \in Frames => h.path \in 0 .. Len(file[h.frame])
  /\ events \in Seq(Event) /\ \A e \in Range(events) : e.path \in 0 .. Len(file[e.frame])
  /\ \A f \in Frames : Live(f) => frames[f].path \in 0 .. Len(file[f])

\* A handler ran from state m of frame f, and what it asked for was carried out.
Ran(f, m, P, table, more) ==
  \E t : Runs(m, t, P) /\ IsState(m) /\ StepDriver(f, t, table, more)

\* What a step of the event loop does to a frame, the table and the pool: a handler
\* runs, jobs are started for no frame, a result lands with its frame or without,
\* or nothing happens to them.
Handled ==
  /\ results' = results
  /\ \E f \in Frames : \E P \in SUBSET (0 .. Len(file[f])) : \E more \in {<< >>, FetchJob} :
       Live(f) /\ Ran(f, frames[f], P, known, more)

Fetched ==
  /\ UNCHANGED <<results, frames>> /\ \E more \in {<< >>, FetchJob} : StartJobs(known, more)

\* The state a result leaves its frame in before what the handler does next.
LeftBy(st, job) ==
  {Without(st, job.kind)}
  \union (IF job.kind = "parse" THEN {Showing(st, job)} ELSE {})
  \union (IF job.kind = "capture" /\ st.driver \in Polling THEN {st} ELSE {})

LandedWith(job) ==
  /\ results' = Tail(results) /\ job.kind \in Kinds /\ Live(job.frame)
  /\ \E m \in LeftBy(frames[job.frame], job) : Ran(job.frame, m, {}, Struck(job), << >>)

LandedWithout(job) ==
  /\ results' = Tail(results) /\ (job.kind \notin Kinds \/ ~Live(job.frame))
  /\ UNCHANGED <<frames, queue>> /\ known' = Struck(job)

LoopStep ==
  /\ phase = "loop" /\ phase' = "loop" /\ UNCHANGED <<running, file>>
  /\ hooks' \subseteq hooks
  /\ events' = events \/ (events # << >> /\ events' = Tail(events))
  /\ \/ Handled
     \/ Fetched
     \/ results # << >> /\ LandedWith(Head(results))
     \/ results # << >> /\ LandedWithout(Head(results))
     \/ UNCHANGED <<frames, known, queue, results>>

LEMMA LoopStepIs ==
    ASSUME InboxInv, PathsInv, results \in Seq(Job),
           \/ \E h \in hooks : DriverHook(h)
           \/ Tick \/ PaneActivity \/ FileChanged \/ JobResult
           \/ \E title \in Titles : PaneOsc(title)
    PROVE  LoopStep
<1>1. \A f : Live(f) => IsState(frames[f]) /\ f \in Frames
  BY DEF InboxInv, FrameOk, Live
<1>2. ASSUME NEW h \in hooks, DriverHook(h)
      PROVE  LoopStep
  <2>1. /\ phase = "loop" /\ phase' = phase /\ hooks' \subseteq hooks
        /\ UNCHANGED <<running, file, results, events>>
    BY <1>2 DEF DriverHook, loopVars
  <2>2. CASE Live(h.frame)
    <3> DEFINE t == Hook(frames[h.frame], h, h.frame = Root)
               P == {h.path}
    <3>1. Runs(frames[h.frame], t, P) /\ IsState(frames[h.frame])
      BY <1>1, <2>2, HookRuns
    <3>2. StepDriver(h.frame, t, known, << >>)
      BY <1>2, <2>2 DEF DriverHook
    <3>3. P \in SUBSET (0 .. Len(file[h.frame])) /\ h.frame \in Frames
      BY <1>1, <2>2 DEF PathsInv
    <3> HIDE DEF t, P
    <3>4. Ran(h.frame, frames[h.frame], P, known, << >>)
      BY <3>1, <3>2 DEF Ran
    <3>5. Handled
      BY <2>1, <2>2, <3>3, <3>4 DEF Handled
    <3> QED  BY <2>1, <3>5 DEF LoopStep
  <2>3. CASE ~Live(h.frame)
    BY <1>2, <2>1, <2>3 DEF DriverHook, LoopStep
  <2> QED  BY <2>2, <2>3
<1>3. ASSUME Tick
      PROVE  LoopStep
  <2>1. /\ phase = "loop" /\ phase' = phase /\ UNCHANGED <<hooks, running, file, results, events>>
    BY <1>3 DEF Tick, loopVars, programVars
  <2>2. PICK active \in BOOLEAN, due \in BOOLEAN, stride \in BOOLEAN, old \in BOOLEAN :
          LET more == IF GithubStepTick(old) THEN FetchJob ELSE << >> IN
          IF Live(Root)
          THEN StepDriver(Root, Ticked(frames[Root], active, due, stride), known, more)
          ELSE StartJobs(known, more) /\ UNCHANGED <<frames, tried, failed, watching, toolLog>>
    BY <1>3 DEF Tick
  <2> DEFINE more == IF GithubStepTick(old) THEN FetchJob ELSE << >>
             t == Ticked(frames[Root], active, due, stride)
  <2>3. more \in {<< >>, FetchJob}
    OBVIOUS
  <2>4. CASE Live(Root)
    <3>1. Runs(frames[Root], t, {}) /\ IsState(frames[Root])
      BY <1>1, <2>4, TickRuns
    <3>2. StepDriver(Root, t, known, more)
      BY <2>2, <2>4
    <3> HIDE DEF t, more
    <3>3. Ran(Root, frames[Root], {}, known, more)
      BY <3>1, <3>2 DEF Ran
    <3>4. Handled
      BY <1>1, <2>1, <2>3, <2>4, <3>3 DEF Handled
    <3> QED  BY <2>1, <3>4 DEF LoopStep
  <2>5. CASE ~Live(Root)
    <3>1. StartJobs(known, more) /\ frames' = frames
      BY <2>2, <2>5
    <3> HIDE DEF more
    <3>2. Fetched
      BY <2>1, <2>3, <3>1 DEF Fetched
    <3> QED  BY <2>1, <3>2 DEF LoopStep
  <2> QED  BY <2>4, <2>5
<1>4. ASSUME NEW t, Runs(frames[Root], t, {}), Live(Root), StepDriver(Root, t, known, << >>),
             phase = "loop", phase' = phase, UNCHANGED <<hooks, running, file, results, events>>
      PROVE  LoopStep
  <2>1. Ran(Root, frames[Root], {}, known, << >>)
    BY <1>1, <1>4 DEF Ran
  <2>2. Handled
    BY <1>1, <1>4, <2>1 DEF Handled
  <2> QED  BY <1>4, <2>2 DEF LoopStep
<1>5. ASSUME PaneActivity
      PROVE  LoopStep
  <2>1. Runs(frames[Root], HandleActivity(frames[Root]), {})
    BY <1>1, <1>5, ScreenRuns DEF PaneActivity
  <2> QED  BY <1>4, <1>5, <2>1 DEF PaneActivity, loopVars, programVars
<1>6. ASSUME NEW title \in Titles, PaneOsc(title)
      PROVE  LoopStep
  <2>1. Runs(frames[Root], HandleWindowTitle(frames[Root], title), {})
    BY <1>1, <1>6, ScreenRuns DEF PaneOsc
  <2> QED  BY <1>4, <1>6, <2>1 DEF PaneOsc, loopVars, programVars
<1>7. ASSUME FileChanged
      PROVE  LoopStep
  <2> DEFINE e == Head(events)
             t == HandleTranscriptChanged(frames[e.frame], e.path)
             P == {e.path}
  <2>1. /\ phase = "loop" /\ phase' = phase /\ UNCHANGED <<hooks, running, file, results>>
        /\ events # << >> /\ events' = Tail(events)
    BY <1>7 DEF FileChanged, loopVars, programVars
  <2>2. e \in Range(events)
    <3>1. events \in Seq(Event) /\ events # << >>
      BY <2>1 DEF PathsInv
    <3>2. ToSet(events) = {Head(events)} \union ToSet(Tail(events))
      BY <3>1, TailSet
    <3> QED  BY <3>2 DEF ToSet, Range
  <2>3. P \in SUBSET (0 .. Len(file[e.frame]))
    BY <2>2 DEF PathsInv
  <2>4. CASE Live(e.frame)
    <3>1. StepDriver(e.frame, t, known, << >>)
      BY <1>7, <2>4 DEF FileChanged
    <3>2. Runs(frames[e.frame], t, P) /\ IsState(frames[e.frame]) /\ e.frame \in Frames
      BY <1>1, <2>4, ScreenRuns
    <3> HIDE DEF t, P, e
    <3>3. Ran(e.frame, frames[e.frame], P, known, << >>)
      BY <3>1, <3>2 DEF Ran
    <3>4. Handled
      BY <2>1, <2>3, <2>4, <3>2, <3>3 DEF Handled
    <3> QED  BY <2>1, <3>4 DEF LoopStep
  <2>5. CASE ~Live(e.frame)
    BY <1>7, <2>1, <2>5 DEF FileChanged, LoopStep
  <2> QED  BY <2>4, <2>5
<1>8. ASSUME JobResult
      PROVE  LoopStep
  <2> DEFINE job == Head(results)
             f == job.frame
  <2>1. /\ phase = "loop" /\ phase' = phase /\ UNCHANGED <<hooks, running, file, events>>
        /\ results # << >> /\ results' = Tail(results)
    BY <1>8 DEF JobResult, loopVars, programVars
  <2>2. job.kind \in Kinds \union {"fetch"}
    <3>1. job \in Job
      BY <2>1, HeadTailProperties
    <3> QED  BY <3>1, JobFields
  <2>3. CASE Live(f) /\ job.kind # "fetch"
    <3>1. PICK r \in Outcomes(job, frames[f].driver) :
            StepDriver(f, HandleJobResult(frames[f], r, job), Struck(job), << >>)
      BY <1>8, <2>3 DEF JobResult
    <3> DEFINE t == HandleJobResult(frames[f], r, job)
    <3>2. IsState(frames[f]) /\ job.kind \in Kinds
      BY <1>1, <2>2, <2>3
    <3>3. PICK m \in LeftBy(frames[f], job) : Runs(m, t, {})
      <4>1. \/ Runs(Without(frames[f], job.kind), t, {})
            \/ job.kind = "parse" /\ Runs(Showing(frames[f], job), t, {})
            \/ job.kind = "capture" /\ frames[f].driver \in Polling /\ Runs(frames[f], t, {})
        BY <3>2, ResultRuns
      <4> HIDE DEF t, job
      <4> QED  BY <4>1 DEF LeftBy
    <3>4. IsState(m)
      <4> HIDE DEF t, job
      <4> QED  BY <3>2, <3>3 DEF LeftBy, Without, Showing, IsState, Fields
    <3>5. Ran(f, m, {}, Struck(job), << >>)
      <4>1. StepDriver(f, t, Struck(job), << >>)
        BY <3>1
      <4> HIDE DEF t, job
      <4> QED  BY <3>3, <3>4, <4>1 DEF Ran
    <3>6. LandedWith(job)
      <4> HIDE DEF t
      <4> QED  BY <2>1, <2>3, <3>2, <3>3, <3>5 DEF LandedWith
    <3> QED  BY <2>1, <3>6 DEF LoopStep
  <2>4. CASE ~(Live(f) /\ job.kind # "fetch")
    <3>1. known' = Struck(job) /\ UNCHANGED <<frames, queue>>
      BY <1>8, <2>4 DEF JobResult
    <3>2. job.kind \notin Kinds \/ ~Live(f)
      BY <2>4, KindsAssumption
    <3>3. LandedWithout(job)
      BY <2>1, <3>1, <3>2 DEF LandedWithout
    <3> QED  BY <2>1, <3>3 DEF LoopStep
  <2> QED  BY <2>3, <2>4
<1> QED  BY <1>2, <1>3, <1>5, <1>6, <1>7, <1>8

\* What stepDriver leaves in the frame it is about.
LEMMA StepDriverState ==
    ASSUME InboxInv, NEW f \in Frames, NEW t, IsState(t), NEW table, NEW more,
           StepDriver(f, t, table, more)
    PROVE  /\ \A g \in Frames \ {f} : frames'[g] = frames[g]
           /\ IsState(frames'[f]) /\ frames'[f] \notin {Gone, Unborn}
           /\ frames'[f].driver = t.driver /\ frames'[f].flight = t.flight
           /\ frames'[f].path = t.path /\ frames'[f].shown = t.shown /\ frames'[f].jobs = {}
           /\ frames'[f].tools = t.tools /\ toolLog' = toolLog \union t.log
           /\ StartJobs(table, JobsOf(f, t) \o more)
<1> DEFINE next == [t EXCEPT !.jobs = {}, !.watch = FALSE, !.log = {},
                             !.inbox = IF Frees(f, t) THEN << >> ELSE @]
<1>1. /\ frames' = [frames EXCEPT ![f] = next] /\ StartJobs(table, JobsOf(f, t) \o more)
      /\ toolLog' = toolLog \union t.log
  BY DEF StepDriver
<1>2. /\ IsState(next) /\ next.driver = t.driver /\ next.flight = t.flight
      /\ next.path = t.path /\ next.shown = t.shown /\ next.jobs = {} /\ next.tools = t.tools
  BY DEF IsState, Fields
<1> HIDE DEF next
<1> QED  BY <1>1, <1>2, StateIsLive DEF InboxInv

\* Frames that are pushed, evicted, sent messages or left in peace.
LivesStep ==
  \A f \in Frames :
    \/ frames'[f] = frames[f] \/ frames'[f] = Gone
    \/ /\ Live(f) /\ Alike(frames[f], frames'[f], {})
       /\ frames'[f].tools = frames[f].tools
    \/ frames[f] = Unborn /\ \E d : frames'[f] = NewState(d)

LEMMA LivesStepIs ==
    ASSUME InboxInv, AgentsAssumption,
           \/ TimePasses
           \/ \E f \in Frames : PeerSend(f) \/ DrainInbox(f) \/ Push(f) \/ Evict(f)
    PROVE  /\ LivesStep
           /\ UNCHANGED <<phase, known, queue, running, results, file, hooks, events, call, toolLog>>
<1>1. \A f : Live(f) => IsState(frames[f]) /\ f \in Frames
  BY DEF InboxInv, FrameOk, Live
<1>2. ASSUME NEW f \in Frames, NEW t, frames' = [frames EXCEPT ![f] = t],
             \/ Live(f) /\ Alike(frames[f], t, {}) /\ t.tools = frames[f].tools
             \/ frames[f] = Unborn /\ \E d : t = NewState(d)
      PROVE  LivesStep
  BY <1>2 DEF LivesStep, InboxInv
<1>3. UNCHANGED <<phase, known, queue, running, results, file, hooks, events, call, toolLog>>
  BY DEF TimePasses, PeerSend, DrainInbox, Push, Evict, loopVars, poolVars, fileVars, programVars,
         seenVars
<1>4. ASSUME TimePasses
      PROVE  LivesStep
  <2> DEFINE t == [frames[Root] EXCEPT !.fresh = FALSE]
  <2>1. Live(Root) /\ IsState(frames[Root]) /\ Root \in Frames
    BY <1>1, <1>4 DEF TimePasses
  <2>2. Alike(frames[Root], t, {}) /\ t.tools = frames[Root].tools
    BY <2>1 DEF Alike, IsState, Fields
  <2>3. frames' = [frames EXCEPT ![Root] = t]
    BY <1>4 DEF TimePasses, InboxInv
  <2> HIDE DEF t
  <2> QED  BY <1>2, <2>1, <2>2, <2>3
<1>5. ASSUME NEW f \in Frames, PeerSend(f)
      PROVE  LivesStep
  <2>1. PICK msg \in 1 .. MaxMessages :
          frames' = IF Blocking(frames[f].status)
                    THEN [frames EXCEPT ![f].inbox = Append(@, msg)] ELSE frames
    BY <1>5 DEF PeerSend
  <2>2. CASE frames' = frames
    BY <2>2 DEF LivesStep
  <2>3. CASE frames' = [frames EXCEPT ![f].inbox = Append(@, msg)]
    <3> DEFINE t == [frames[f] EXCEPT !.inbox = Append(@, msg)]
    <3>1. Live(f) /\ IsState(frames[f])
      BY <1>1, <1>5 DEF PeerSend
    <3>2. Alike(frames[f], t, {}) /\ t.tools = frames[f].tools
      BY <3>1 DEF Alike, IsState, Fields
    <3>3. frames' = [frames EXCEPT ![f] = t]
      BY <2>3 DEF InboxInv
    <3> HIDE DEF t
    <3> QED  BY <1>2, <3>1, <3>2, <3>3
  <2> QED  BY <2>1, <2>2, <2>3
<1>6. ASSUME NEW f \in Frames, DrainInbox(f)
      PROVE  LivesStep
  <2> DEFINE t == [frames[f] EXCEPT !.inbox = << >>]
  <2>1. Live(f) /\ IsState(frames[f])
    BY <1>1, <1>6 DEF DrainInbox
  <2>2. Alike(frames[f], t, {}) /\ t.tools = frames[f].tools
    BY <2>1 DEF Alike, IsState, Fields
  <2>3. frames' = [frames EXCEPT ![f] = t]
    BY <1>6 DEF DrainInbox, InboxInv
  <2> HIDE DEF t
  <2> QED  BY <1>2, <2>1, <2>2, <2>3
<1>7. ASSUME NEW f \in Frames, Push(f)
      PROVE  LivesStep
  <2>1. PICK d \in Drivers : frames' = [frames EXCEPT ![f] = NewState(d)]
    BY <1>7 DEF Push
  <2>2. frames[f] = Unborn
    BY <1>7 DEF Push
  <2> QED  BY <1>2, <2>1, <2>2
<1>8. ASSUME NEW f \in Frames, Evict(f)
      PROVE  LivesStep
  <2>1. \A g \in Frames : frames'[g] \in {Gone, frames[g]}
    BY <1>8 DEF Evict
  <2> QED  BY <2>1 DEF LivesStep
<1> QED  BY <1>3, <1>4, <1>5, <1>6, <1>7, <1>8

-----------------------------------------------------------------------------
(* 11. The flags and the table.                                            *)

\* A parse is of a transcript its frame's program wrote.
ParseOk(j) == j.kind = "parse" => j.frame \in Frames /\ j.path \in 1 .. Len(file[j.frame])

JobInv ==
  /\ PathsInv
  /\ TableOk(known) /\ PoolOk(known, queue, running, results)
  /\ \A j \in Outstanding : ParseOk(j)
  /\ phase = "down" => known = << >> /\ queue = << >> /\ running = {} /\ results = << >>
  /\ \A f \in Frames : Live(f) => Flags(f, frames[f], known) /\ frames[f].jobs = {}
  /\ \A f \in Frames : frames[f] = Unborn => \A k \in Kinds : JobsIn(known, f, k) = {}

LEMMA FlagsSame ==
    ASSUME NEW f, NEW st, NEW table, NEW after, Flags(f, st, table),
           \A k \in Kinds : JobsIn(after, f, k) = JobsIn(table, f, k)
    PROVE  Flags(f, st, after)
<1>1. \A k, i : JobsIn(after, f, k) = {i} => i \in DOMAIN after
  BY DEF JobsIn
<1>2. ASSUME NEW k \in Kinds, k \in st.flight
      PROVE  \/ \E i \in DOMAIN after : JobsIn(after, f, k) = {i}
             \/ JobsIn(after, f, k) = {} /\ k = "capture" /\ st.driver \in Polling
  <2>1. JobsIn(after, f, k) = JobsIn(table, f, k)
    OBVIOUS
  <2> QED  BY <1>1, <1>2, <2>1 DEF Flags
<1> QED  BY <1>2 DEF Flags

\* A handler may start from state m of frame f, the table and the results left, with
\* paths of P, and with more to start.
Ready(f, m, P, table, res, more) ==
  /\ P \in SUBSET (0 .. Len(file[f])) /\ more \in {<< >>, FetchJob}
  /\ m.path \in 0 .. Len(file[f]) /\ m.jobs = {} /\ Flags(f, m, table)
  /\ TableOk(table) /\ DOMAIN table \subseteq DOMAIN known /\ PoolOk(table, queue, running, res)

\* What carrying out a handler's wishes does to frame f and to the jobs.
LEMMA RanAre ==
    ASSUME QueueSize \in Nat, InboxInv, JobInv, NEW f \in Frames, NEW m, NEW P, NEW table, NEW res,
           NEW more, Ran(f, m, P, table, more), Ready(f, m, P, table, res, more)
    PROVE  /\ \A g \in Frames \ {f} : frames'[g] = frames[g]
           /\ frames'[f] \notin {Gone, Unborn} /\ frames'[f].jobs = {}
           /\ frames'[f].path \in 0 .. Len(file[f]) /\ frames'[f].shown = m.shown
           /\ TableOk(known') /\ PoolOk(known', queue', running, res)
           /\ Flags(f, frames'[f], known')
           /\ \A g \in Frames \ {f} : \A k \in Kinds : JobsIn(known', g, k) = JobsIn(table, g, k)
           /\ \A q \in Range(queue') : q \in Range(queue) \/ ParseOk(q)
<1>0. /\ P \in SUBSET (0 .. Len(file[f])) /\ more \in {<< >>, FetchJob}
      /\ m.path \in 0 .. Len(file[f]) /\ m.jobs = {} /\ Flags(f, m, table)
      /\ TableOk(table) /\ DOMAIN table \subseteq DOMAIN known
      /\ PoolOk(table, queue, running, res)
  BY DEF Ready
<1>1. PICK t : Runs(m, t, P) /\ IsState(m) /\ StepDriver(f, t, table, more)
  BY DEF Ran
<1>2. IsState(t) /\ t.shown = m.shown /\ t.path \in 0 .. Len(file[f]) /\ t.jobs \subseteq Kinds
      /\ ("parse" \in t.jobs => t.path # 0)
  BY <1>0, <1>1 DEF Runs, Flags
<1>3. Len(file[f]) \in Nat
  <2>1. file[f] \in Seq(Nat)
    BY DEF JobInv, PathsInv
  <2> QED  BY <2>1
<1>4. t.path \in Nat
  BY <1>2, <1>3
<1>5. /\ \A g \in Frames \ {f} : frames'[g] = frames[g]
      /\ frames'[f] \notin {Gone, Unborn} /\ frames'[f].jobs = {}
      /\ frames'[f].path = t.path /\ frames'[f].shown = t.shown /\ frames'[f].flight = t.flight
      /\ frames'[f].driver = t.driver
      /\ StartJobs(table, JobsOf(f, t) \o more)
  BY <1>1, <1>2, StepDriverState
<1> DEFINE js == JobsOf(f, t) \o more
<1>6. /\ js \in Seq(Job) /\ Once(js) /\ Wanted(js, f, t)
      /\ \A j \in Range(js) : j.kind \in Kinds => j.frame = f
  BY <1>0, <1>2, <1>4, JobsWithFetch
<1> HIDE DEF js
<1>7. /\ Started(table, js, known') /\ PoolOk(known', queue', running, res)
      /\ \A q \in Range(queue') :
           \/ q \in Range(queue)
           \/ \E j \in Range(js) : q.frame = j.frame /\ q.kind = j.kind /\ q.path = j.path
  <2>1. StartJobs(table, js)
    BY <1>5 DEF js
  <2>2. \A j \in Range(js) : j.kind \in Kinds => j.frame \in Frames
    BY <1>6
  <2> QED  BY <1>0, <1>6, <2>1, <2>2, StartJobsAre DEF JobInv
<1>8. Flags(f, frames'[f], known')
  <2>1. Flags(f, t, known')
    BY <1>0, <1>1, <1>6, <1>7, FlagsStarted
  <2> QED  BY <1>5, <2>1 DEF Flags
<1>9. ASSUME NEW g \in Frames \ {f}, NEW k \in Kinds
      PROVE  JobsIn(known', g, k) = JobsIn(table, g, k)
  <2>1. \A j \in Range(js) : ~ (j.frame = g /\ j.kind = k)
    BY <1>6
  <2> QED  BY <1>7, <2>1 DEF Started
<1>10. ASSUME NEW q \in Range(queue'), q \notin Range(queue)
       PROVE  ParseOk(q)
  <2>1. PICK j \in Range(js) : q.frame = j.frame /\ q.kind = j.kind /\ q.path = j.path
    BY <1>7, <1>10
  <2>2. CASE q.kind = "parse" /\ "parse" \in Kinds
    <3>1. j.frame = f /\ "parse" \in t.jobs /\ j.path = t.path
      BY <1>6, <2>1, <2>2 DEF Wanted
    <3>2. t.path \in 1 .. Len(file[f])
      BY <1>2, <1>3, <3>1
    <3> QED  BY <2>1, <3>1, <3>2 DEF ParseOk
  <2>3. CASE q.kind = "parse" /\ "parse" \notin Kinds
    <3>1. j \in Job
      BY <1>6 DEF Range
    <3>2. j.kind \in Kinds \union {"fetch"}
      BY <3>1, JobFields
    <3> QED  BY <2>1, <2>3, <3>2
  <2> QED  BY <2>2, <2>3 DEF ParseOk
<1>11. TableOk(known')
  BY <1>7 DEF Started
<1> QED  BY <1>2, <1>5, <1>7, <1>8, <1>9, <1>10, <1>11

\* What the steps that leave the transcripts alone owe to PathsInv.
LEMMA PathsKept ==
    ASSUME PathsInv, file' = file, hooks' \subseteq hooks,
           events' = events \/ (events # << >> /\ events' = Tail(events)) \/ events' = << >>,
           \A f \in Frames : frames'[f] \notin {Gone, Unborn}
             => frames'[f].path \in 0 .. Len(file[f])
    PROVE  PathsInv'
<1>1. events' \in Seq(Event) /\ Range(events') \subseteq Range(events)
  <2>1. CASE events # << >> /\ events' = Tail(events)
    <3>1. events \in Seq(Event)
      BY DEF PathsInv
    <3>2. ToSet(events) = {Head(events)} \union ToSet(Tail(events)) /\ Tail(events) \in Seq(Event)
      BY <2>1, <3>1, TailSet, HeadTailProperties
    <3> QED  BY <2>1, <3>2 DEF ToSet, Range
  <2>2. CASE events' = << >>
    <3>1. << >> \in Seq(Event) /\ DOMAIN << >> = {}
      OBVIOUS
    <3> QED  BY <2>2, <3>1 DEF Range
  <2> QED  BY <2>1, <2>2 DEF PathsInv
<1>2. \A e \in Range(events') : e.path \in 0 .. Len(file[e.frame])
  BY <1>1 DEF PathsInv
<1>3. \A h \in hooks' : h.frame \in Frames => h.path \in 0 .. Len(file[h.frame])
  BY DEF PathsInv
<1>4. file' \in [Frames -> Seq(Nat)]
  BY DEF PathsInv
<1> QED  BY <1>1, <1>2, <1>3, <1>4 DEF PathsInv, Live

\* The invariant's part about frames, when frame f and the table changed.
LEMMA FlagsKept ==
    ASSUME InboxInv, JobInv, NEW f \in Frames, Live(f),
           \A g \in Frames \ {f} : frames'[g] = frames[g],
           frames'[f] \notin {Gone, Unborn}, frames'[f].jobs = {},
           frames'[f].path \in 0 .. Len(file[f]), Flags(f, frames'[f], known'),
           \A g \in Frames \ {f} : \A k \in Kinds : JobsIn(known', g, k) = JobsIn(known, g, k)
    PROVE  /\ \A g \in Frames : frames'[g] \notin {Gone, Unborn}
                => /\ frames'[g].path \in 0 .. Len(file[g]) /\ frames'[g].jobs = {}
                   /\ Flags(g, frames'[g], known')
           /\ \A g \in Frames : frames'[g] = Unborn => \A k \in Kinds : JobsIn(known', g, k) = {}
<1>2. ASSUME NEW g \in Frames, frames'[g] \notin {Gone, Unborn}, g # f
      PROVE  /\ frames'[g].path \in 0 .. Len(file[g]) /\ frames'[g].jobs = {}
             /\ Flags(g, frames'[g], known')
  <2>1. Live(g) /\ frames'[g] = frames[g]
    BY <1>2 DEF Live
  <2>2. Flags(g, frames[g], known)
    BY <2>1 DEF JobInv
  <2>3. Flags(g, frames[g], known')
    BY <1>2, <2>2, FlagsSame
  <2> QED  BY <2>1, <2>3 DEF JobInv, PathsInv
<1>3. ASSUME NEW g \in Frames, frames'[g] = Unborn, NEW k \in Kinds
      PROVE  JobsIn(known', g, k) = {}
  <2>1. g # f /\ frames[g] = Unborn
    BY <1>3
  <2> QED  BY <2>1 DEF JobInv
<1> QED  BY <1>2, <1>3

\* Put together what a step of the event loop must keep.
LEMMA JobKept ==
    ASSUME PathsInv', TableOk(known'), PoolOk(known', queue', running', results'),
           phase' # "down", file' = file,
           \A j \in Range(queue') \union running' \union Range(results') : ParseOk(j),
           \A f \in Frames : frames'[f] \notin {Gone, Unborn}
             => frames'[f].jobs = {} /\ Flags(f, frames'[f], known'),
           \A f \in Frames : frames'[f] = Unborn => \A k \in Kinds : JobsIn(known', f, k) = {}
    PROVE  JobInv'
<1>1. \A j \in Outstanding' : ParseOk(j)'
  BY DEF Outstanding, ParseOk
<1> QED  BY <1>1 DEF JobInv, Live

LEMMA HandledJobs ==
    ASSUME QueueSize \in Nat, InboxInv, JobInv, phase' = "loop", UNCHANGED <<running, file>>,
           hooks' \subseteq hooks, events' = events \/ (events # << >> /\ events' = Tail(events)),
           Handled
    PROVE  JobInv'
<1>1. PICK f \in Frames : \E P \in SUBSET (0 .. Len(file[f])) : \E more \in {<< >>, FetchJob} :
        Live(f) /\ Ran(f, frames[f], P, known, more)
  BY DEF Handled
<1>0. PICK P \in SUBSET (0 .. Len(file[f])), more \in {<< >>, FetchJob} :
        Live(f) /\ Ran(f, frames[f], P, known, more)
  BY <1>1
<1>2. /\ frames[f].jobs = {} /\ Flags(f, frames[f], known) /\ frames[f].path \in 0 .. Len(file[f])
      /\ TableOk(known) /\ PoolOk(known, queue, running, results)
  BY <1>0 DEF JobInv, PathsInv
<1>3. /\ \A g \in Frames \ {f} : frames'[g] = frames[g]
      /\ frames'[f] \notin {Gone, Unborn} /\ frames'[f].jobs = {}
      /\ frames'[f].path \in 0 .. Len(file[f])
      /\ TableOk(known') /\ PoolOk(known', queue', running, results)
      /\ Flags(f, frames'[f], known')
      /\ \A g \in Frames \ {f} : \A k \in Kinds : JobsIn(known', g, k) = JobsIn(known, g, k)
      /\ \A q \in Range(queue') : q \in Range(queue) \/ ParseOk(q)
  <2>1. Ready(f, frames[f], P, known, results, more)
    BY <1>2 DEF Ready
  <2> QED  BY <1>0, <2>1, RanAre
<1>4. /\ \A g \in Frames : frames'[g] \notin {Gone, Unborn}
           => /\ frames'[g].path \in 0 .. Len(file[g]) /\ frames'[g].jobs = {}
              /\ Flags(g, frames'[g], known')
      /\ \A g \in Frames : frames'[g] = Unborn => \A k \in Kinds : JobsIn(known', g, k) = {}
  BY <1>0, <1>3, FlagsKept
<1>5. PathsInv'
  BY <1>4, PathsKept DEF JobInv
<1>6. results' = results
  BY DEF Handled
<1>7. \A j \in Range(queue') \union running' \union Range(results') : ParseOk(j)
  BY <1>3, <1>6 DEF JobInv, Outstanding
<1> QED  BY <1>3, <1>4, <1>5, <1>6, <1>7, JobKept

LEMMA FetchedJobs ==
    ASSUME QueueSize \in Nat, InboxInv, JobInv, phase' = "loop", UNCHANGED <<running, file>>,
           hooks' \subseteq hooks, events' = events \/ (events # << >> /\ events' = Tail(events)),
           Fetched
    PROVE  JobInv'
<1>1. PICK more \in {<< >>, FetchJob} : StartJobs(known, more)
  BY DEF Fetched
<1>2. results' = results /\ frames' = frames
  BY DEF Fetched
<1>3. more \in Seq(Job) /\ Once(more) /\ \A j \in Range(more) : j.kind \notin Kinds /\ j.kind = "fetch"
  <2>1. << >> \in Seq(Job) /\ DOMAIN << >> = {}
    OBVIOUS
  <2>2. Once(<< >>) /\ Range(<< >>) = {}
    BY <2>1 DEF Once, Range
  <2> QED  BY <2>1, <2>2, FetchJobIs
<1>4. /\ Started(known, more, known') /\ PoolOk(known', queue', running, results)
      /\ \A q \in Range(queue') :
           \/ q \in Range(queue)
           \/ \E j \in Range(more) : q.frame = j.frame /\ q.kind = j.kind /\ q.path = j.path
  BY <1>1, <1>3, StartJobsAre DEF JobInv
<1>5. \A f \in Frames : \A k \in Kinds : JobsIn(known', f, k) = JobsIn(known, f, k)
  BY <1>3, <1>4 DEF Started
<1>7. ASSUME NEW f \in Frames, frames'[f] \notin {Gone, Unborn}
      PROVE  frames'[f].jobs = {} /\ Flags(f, frames'[f], known')
  <2>1. frames'[f] = frames[f] /\ frames[f].jobs = {} /\ Flags(f, frames[f], known)
    BY <1>2, <1>7 DEF JobInv, Live
  <2> QED  BY <1>5, <2>1, FlagsSame
<1>8. \A f \in Frames : frames'[f] = Unborn => \A k \in Kinds : JobsIn(known', f, k) = {}
  BY <1>2, <1>5 DEF JobInv
<1>9. PathsInv'
  BY <1>2, PathsKept DEF JobInv, PathsInv, Live
<1>10. \A q \in Range(queue') : ParseOk(q)
  BY <1>3, <1>4 DEF JobInv, Outstanding, ParseOk
<1>11. \A j \in Range(queue') \union running' \union Range(results') : ParseOk(j)
  BY <1>2, <1>10 DEF JobInv, Outstanding
<1>12. TableOk(known')
  BY <1>4 DEF Started
<1> QED  BY <1>2, <1>4, <1>7, <1>8, <1>9, <1>11, <1>12, JobKept

\* The table and the pool when the oldest result is taken.
LEMMA StruckAre ==
    ASSUME JobInv, results # << >>, NEW job, job = Head(results)
    PROVE  /\ job \in Job /\ ParseOk(job) /\ job \in Range(results)
           /\ \A j \in (Outstanding \ {job}) : j.id # job.id
           /\ Tail(results) \in Seq(Job) /\ Range(results) = {job} \union Range(Tail(results))
           /\ job \notin Range(Tail(results))
           /\ TableOk(Struck(job)) /\ DOMAIN Struck(job) \subseteq DOMAIN known
           /\ PoolOk(Struck(job), queue, running, Tail(results))
           /\ \A g, k : ~ (g = job.frame /\ k = job.kind)
                => JobsIn(Struck(job), g, k) = JobsIn(known, g, k)
           /\ \A g, k : JobsIn(Struck(job), g, k) = JobsIn(known, g, k) \ {job.id}
           /\ job.id \in JobsIn(known, job.frame, job.kind)
<1>1. /\ TableOk(known) /\ PoolOk(known, queue, running, results)
      /\ results \in Seq(Job) /\ Apart(results)
      /\ \A j \in Outstanding : ParseOk(j)
  BY DEF JobInv, PoolOk
<1> DEFINE rest == Tail(results)
           table == Struck(job)
<1>2. /\ rest \in Seq(Job) /\ Apart(rest) /\ job \in Job
      /\ Range(results) = {job} \union Range(rest)
      /\ \A j \in Range(rest) : j.id # job.id
  BY <1>1, TailApart
<1>3. /\ DOMAIN table = DOMAIN known \ {job.id}
      /\ \A i \in DOMAIN table : table[i] = known[i]
  BY DEF Struck, RestrictDomain, Restrict
<1> HIDE DEF rest, table
<1>4. In(known, job)
  BY <1>1, <1>2 DEF PoolOk
<1>5. TableOk(table)
  <2>1. IsFiniteSet(DOMAIN table)
    <3> DEFINE D == DOMAIN known
               E == DOMAIN table
    <3>1. IsFiniteSet(D) /\ E \subseteq D
      BY <1>1, <1>3 DEF TableOk
    <3> HIDE DEF D, E
    <3>2. IsFiniteSet(E)
      BY <3>1, FS_Subset
    <3> QED  BY <3>2 DEF E
  <2> QED  BY <1>1, <1>3, <2>1 DEF TableOk
<1>6. \A j \in Range(queue) \union running : j.id # job.id
  BY <1>1, <1>2 DEF PoolOk
<1>7. \A j : In(known, j) /\ j.id # job.id => In(table, j)
  BY <1>3 DEF In
<1>8. PoolOk(table, queue, running, rest)
  BY <1>1, <1>2, <1>6, <1>7 DEF PoolOk
<1>9. \A g, k : JobsIn(table, g, k) = JobsIn(known, g, k) \ {job.id}
  BY <1>3 DEF JobsIn
<1>10. ASSUME NEW g, NEW k, ~ (g = job.frame /\ k = job.kind)
       PROVE  JobsIn(table, g, k) = JobsIn(known, g, k)
  <2>1. job.id \notin JobsIn(known, g, k)
    BY <1>4, <1>10 DEF JobsIn, In
  <2> QED  BY <1>9, <2>1
<1>11. job.id \in JobsIn(known, job.frame, job.kind)
  BY <1>4 DEF JobsIn, In
<1>12. ParseOk(job)
  BY <1>1, <1>2 DEF Outstanding
<1>13. \A j \in (Outstanding \ {job}) : j.id # job.id
  BY <1>2, <1>6 DEF Outstanding
<1> QED  BY <1>2, <1>3, <1>5, <1>8, <1>9, <1>10, <1>11, <1>12, <1>13 DEF rest, table

\* A result finds its flag, and the flag is left as the table is.
LEMMA LeftByFlags ==
    ASSUME InboxInv, JobInv, results # << >>, NEW job, job = Head(results), NEW f, f = job.frame,
           Live(f), job.kind \in Kinds, NEW m \in LeftBy(frames[f], job)
    PROVE  Flags(f, m, Struck(job)) /\ m.jobs = {} /\ m.path = frames[f].path
<1> DEFINE st == frames[f]
           k == job.kind
           table == Struck(job)
<1>1. IsState(st) /\ Flags(f, st, known) /\ st.jobs = {}
  BY DEF InboxInv, FrameOk, Live, JobInv
<1>2. /\ JobsIn(table, f, k) = JobsIn(known, f, k) \ {job.id}
      /\ \A o : o # k => JobsIn(table, f, o) = JobsIn(known, f, o)
      /\ job.id \in JobsIn(known, f, k)
  BY StruckAre
<1>3. JobsIn(table, f, k) = {}
  <2>1. PICK i : JobsIn(known, f, k) = {i}
    BY <1>1, <1>2 DEF Flags
  <2> QED  BY <1>2, <2>1
<1>4. /\ m.jobs = {} /\ m.path = st.path /\ m.driver = st.driver
      /\ \/ m.flight = st.flight \ {k}
         \/ m.flight = st.flight /\ k = "capture" /\ st.driver \in Polling
  BY <1>1 DEF LeftBy, Without, Showing, IsState, Fields
<1> HIDE DEF st, table
<1>5. ASSUME NEW o \in Kinds, o # k, o \in st.flight
      PROVE  \/ \E i \in DOMAIN table : JobsIn(table, f, o) = {i}
             \/ JobsIn(table, f, o) = {} /\ o = "capture" /\ st.driver \in Polling
  <2>1. \A i : JobsIn(table, f, o) = {i} => i \in DOMAIN table
    BY DEF JobsIn
  <2> QED  BY <1>1, <1>2, <1>5, <2>1 DEF Flags
<1>6. Flags(f, m, table)
  BY <1>1, <1>2, <1>3, <1>4, <1>5 DEF Flags
<1> QED  BY <1>1, <1>4, <1>6 DEF st, table

LEMMA LandedWithJobs ==
    ASSUME QueueSize \in Nat, InboxInv, JobInv, phase' = "loop", UNCHANGED <<running, file>>,
           hooks' \subseteq hooks, events' = events \/ (events # << >> /\ events' = Tail(events)),
           results # << >>, NEW job, job = Head(results), LandedWith(job)
    PROVE  JobInv'
<1> DEFINE f == job.frame
           rest == Tail(results)
           table == Struck(job)
<1>1. PICK m \in LeftBy(frames[f], job) : Ran(f, m, {}, table, << >>)
  BY DEF LandedWith
<1>2. /\ job \in Job /\ job.kind \in Kinds /\ Live(f) /\ f \in Frames /\ results' = rest
  BY StruckAre DEF LandedWith, Live
<1>3. /\ TableOk(table) /\ DOMAIN table \subseteq DOMAIN known
      /\ PoolOk(table, queue, running, rest) /\ Range(rest) \subseteq Range(results)
      /\ \A g \in Frames \ {f} : \A k \in Kinds : JobsIn(table, g, k) = JobsIn(known, g, k)
  BY StruckAre
<1>4. Flags(f, m, table) /\ m.jobs = {} /\ m.path \in 0 .. Len(file[f])
  <2>1. Flags(f, m, table) /\ m.jobs = {} /\ m.path = frames[f].path
    BY <1>2, LeftByFlags
  <2> QED  BY <1>2, <2>1 DEF JobInv, PathsInv
<1> HIDE DEF f, table, rest
<1>5. /\ \A g \in Frames \ {f} : frames'[g] = frames[g]
      /\ frames'[f] \notin {Gone, Unborn} /\ frames'[f].jobs = {}
      /\ frames'[f].path \in 0 .. Len(file[f])
      /\ TableOk(known') /\ PoolOk(known', queue', running, rest)
      /\ Flags(f, frames'[f], known')
      /\ \A g \in Frames \ {f} : \A k \in Kinds : JobsIn(known', g, k) = JobsIn(table, g, k)
      /\ \A q \in Range(queue') : q \in Range(queue) \/ ParseOk(q)
  <2>1. Ready(f, m, {}, table, rest, << >>)
    BY <1>3, <1>4 DEF Ready
  <2> QED  BY <1>1, <1>2, <2>1, RanAre
<1>6. /\ \A g \in Frames : frames'[g] \notin {Gone, Unborn}
           => /\ frames'[g].path \in 0 .. Len(file[g]) /\ frames'[g].jobs = {}
              /\ Flags(g, frames'[g], known')
      /\ \A g \in Frames : frames'[g] = Unborn => \A k \in Kinds : JobsIn(known', g, k) = {}
  <2>1. \A g \in Frames \ {f} : \A k \in Kinds : JobsIn(known', g, k) = JobsIn(known, g, k)
    BY <1>3, <1>5
  <2> QED  BY <1>2, <1>5, <2>1, FlagsKept
<1>7. PathsInv'
  BY <1>6, PathsKept DEF JobInv
<1>8. \A j \in Range(queue') \union running' \union Range(results') : ParseOk(j)
  BY <1>2, <1>3, <1>5 DEF JobInv, Outstanding
<1> QED  BY <1>2, <1>5, <1>6, <1>7, <1>8, JobKept

LEMMA LandedWithoutJobs ==
    ASSUME QueueSize \in Nat, InboxInv, JobInv, phase' = "loop", UNCHANGED <<running, file>>,
           hooks' \subseteq hooks, events' = events \/ (events # << >> /\ events' = Tail(events)),
           results # << >>, NEW job, job = Head(results), LandedWithout(job)
    PROVE  JobInv'
<1> DEFINE rest == Tail(results)
           table == Struck(job)
<1>1. /\ frames' = frames /\ queue' = queue /\ results' = rest /\ known' = table
      /\ job.kind \notin Kinds \/ ~Live(job.frame)
  BY DEF LandedWithout
<1>2. /\ TableOk(table) /\ PoolOk(table, queue, running, rest) /\ Range(rest) \subseteq Range(results)
      /\ \A g, k : ~ (g = job.frame /\ k = job.kind) => JobsIn(table, g, k) = JobsIn(known, g, k)
      /\ \A g, k : JobsIn(table, g, k) = JobsIn(known, g, k) \ {job.id}
  BY StruckAre
<1> HIDE DEF table, rest
<1>3. ASSUME NEW f \in Frames, frames'[f] \notin {Gone, Unborn}
      PROVE  frames'[f].jobs = {} /\ Flags(f, frames'[f], known')
  <2>1. Live(f) /\ frames'[f] = frames[f] /\ frames[f].jobs = {} /\ Flags(f, frames[f], known)
    BY <1>1, <1>3 DEF JobInv, Live
  <2>2. \A k \in Kinds : ~ (f = job.frame /\ k = job.kind)
    BY <1>1, <2>1
  <2>3. \A k \in Kinds : JobsIn(known', f, k) = JobsIn(known, f, k)
    BY <1>1, <1>2, <2>2
  <2> QED  BY <2>1, <2>3, FlagsSame
<1>4. \A f \in Frames : frames'[f] = Unborn => \A k \in Kinds : JobsIn(known', f, k) = {}
  BY <1>1, <1>2 DEF JobInv
<1>5. PathsInv'
  BY <1>1, PathsKept DEF JobInv, PathsInv, Live
<1>6. \A j \in Range(queue') \union running' \union Range(results') : ParseOk(j)
  BY <1>1, <1>2 DEF JobInv, Outstanding
<1> QED  BY <1>1, <1>2, <1>3, <1>4, <1>5, <1>6, JobKept

LEMMA LoopJobs ==
    ASSUME QueueSize \in Nat, InboxInv, JobInv, LoopStep
    PROVE  JobInv'
<1>1. /\ phase' = "loop" /\ UNCHANGED <<running, file>> /\ hooks' \subseteq hooks
      /\ events' = events \/ (events # << >> /\ events' = Tail(events))
  BY DEF LoopStep
<1>2. CASE UNCHANGED <<frames, known, queue, results>>
  <2>1. PathsInv'
    BY <1>1, <1>2, PathsKept DEF JobInv, PathsInv, Live
  <2>2. \A j \in Range(queue') \union running' \union Range(results') : ParseOk(j)
    BY <1>1, <1>2 DEF JobInv, Outstanding
  <2>3. \A f \in Frames : frames'[f] \notin {Gone, Unborn}
             => frames'[f].jobs = {} /\ Flags(f, frames'[f], known')
    BY <1>2 DEF JobInv, Live
  <2>4. /\ TableOk(known') /\ PoolOk(known', queue', running', results')
        /\ \A f \in Frames : frames'[f] = Unborn => \A k \in Kinds : JobsIn(known', f, k) = {}
    BY <1>1, <1>2 DEF JobInv
  <2> QED  BY <1>1, <2>1, <2>2, <2>3, <2>4, JobKept
<1>3. \/ Handled \/ Fetched
      \/ results # << >> /\ LandedWith(Head(results))
      \/ results # << >> /\ LandedWithout(Head(results))
      \/ UNCHANGED <<frames, known, queue, results>>
  BY DEF LoopStep
<1> QED
  BY <1>1, <1>2, <1>3, HandledJobs, FetchedJobs, LandedWithJobs, LandedWithoutJobs

LEMMA NewStateEmpty ==
    ASSUME NEW d
    PROVE  /\ NewState(d).path = 0 /\ NewState(d).jobs = {} /\ NewState(d).flight = {}
           /\ NewState(d).shown = [path |-> 0, ver |-> 0]
  BY DEF NewState

LEMMA EventFrames ==
    ASSUME PathsInv, NEW e \in Range(events)
    PROVE  e.frame \in Frames /\ e.path \in 0 .. Len(file[e.frame])
<1>1. e \in Event
  <2>1. events \in Seq(Event)
    BY DEF PathsInv
  <2> QED  BY <2>1 DEF Range
<1> QED  BY <1>1 DEF Event, PathsInv

\* Frames are pushed and evicted, and messages reach them.
LEMMA LivesJobs ==
    ASSUME InboxInv, JobInv, LivesStep,
           UNCHANGED <<phase, known, queue, running, results, file, hooks, events>>
    PROVE  JobInv'
<1>1. /\ TableOk(known') /\ PoolOk(known', queue', running', results')
      /\ \A j \in Outstanding' : ParseOk(j)'
      /\ phase' = "down" => known' = << >> /\ queue' = << >> /\ running' = {} /\ results' = << >>
  BY DEF JobInv, Outstanding, ParseOk
<1>2. \A f \in Frames :
        \/ frames'[f] = frames[f] \/ frames'[f] = Gone
        \/ Live(f) /\ Alike(frames[f], frames'[f], {})
        \/ frames[f] = Unborn /\ \E d : frames'[f] = NewState(d)
  BY DEF LivesStep
<1>3. ASSUME NEW f \in Frames, frames'[f] \notin {Gone, Unborn}
      PROVE  /\ frames'[f].path \in 0 .. Len(file[f]) /\ frames'[f].jobs = {}
             /\ Flags(f, frames'[f], known')
  <2>1. CASE frames'[f] = frames[f]
    <3>1. Live(f)
      BY <1>3, <2>1 DEF Live
    <3> QED  BY <2>1, <3>1 DEF JobInv, PathsInv
  <2>2. CASE Live(f) /\ Alike(frames[f], frames'[f], {})
    <3>1. Flags(f, frames[f], known) /\ frames[f].jobs = {} /\ frames[f].path \in 0 .. Len(file[f])
      BY <2>2 DEF JobInv, PathsInv
    <3>2. Flags(f, frames'[f], known)
      BY <2>2, <3>1 DEF Flags, Alike
    <3> QED  BY <2>2, <3>1, <3>2 DEF Alike
  <2>3. CASE frames[f] = Unborn /\ \E d : frames'[f] = NewState(d)
    <3>1. PICK d : frames'[f] = NewState(d)
      BY <2>3
    <3>2. \A k \in Kinds : JobsIn(known', f, k) = {}
      BY <2>3 DEF JobInv
    <3>3. frames'[f].path = 0 /\ frames'[f].jobs = {} /\ frames'[f].flight = {}
      BY <3>1, NewStateEmpty
    <3>4. file[f] \in Seq(Nat)
      BY DEF JobInv, PathsInv
    <3>5. 0 \in 0 .. Len(file[f])
      BY <3>4
    <3> QED  BY <3>2, <3>3, <3>5 DEF Flags
  <2> QED  BY <1>2, <1>3, <2>1, <2>2, <2>3
<1>4. ASSUME NEW f \in Frames, frames'[f] = Unborn, NEW k \in Kinds
      PROVE  JobsIn(known', f, k) = {}
  <2>1. frames[f] = Unborn
    <3>1. \A st : IsState(st) => st # Unborn
      BY StateIsLive
    <3>2. \A d : NewState(d) # Unborn
      BY <3>1, NewStateIs
    <3>3. Gone # Unborn
      BY DEF Gone, Unborn
    <3> QED  BY <1>2, <1>4, <3>1, <3>2, <3>3 DEF Alike
  <2> QED  BY <2>1 DEF JobInv
<1>5. PathsInv'
  BY <1>3, PathsKept DEF JobInv
<1> QED  BY <1>1, <1>3, <1>4, <1>5 DEF JobInv, Live

\* What leaves the frames and the table alone.
LEMMA StillJobs ==
    ASSUME JobInv, PathsInv', UNCHANGED <<frames, known>>,
           PoolOk(known, queue', running', results'),
           phase' = "down" => phase = "down" /\ UNCHANGED <<queue, running, results>>,
           \A j \in Range(queue') \union running' \union Range(results') : ParseOk(j)'
    PROVE  JobInv'
<1>1. \A j \in Outstanding' : ParseOk(j)'
  BY DEF Outstanding
<1>2. \A f \in Frames : frames'[f] \notin {Gone, Unborn}
        => Flags(f, frames'[f], known') /\ frames'[f].jobs = {}
  BY DEF JobInv, Live
<1>3. \A f \in Frames : frames'[f] = Unborn => \A k \in Kinds : JobsIn(known', f, k) = {}
  BY DEF JobInv
<1>4. phase' = "down" => known' = << >> /\ queue' = << >> /\ running' = {} /\ results' = << >>
  BY DEF JobInv
<1>5. TableOk(known')
  BY DEF JobInv
<1> QED  BY <1>1, <1>2, <1>3, <1>4, <1>5 DEF JobInv, Live

\* Workers take jobs, send what they found, and end.
LEMMA TakeJobs ==
    ASSUME JobInv, Take
    PROVE  JobInv'
<1> DEFINE job == Head(queue)
           ver == IF job.kind = "parse" THEN file[job.frame][job.path] ELSE 0
           taken == [job EXCEPT !.ver = ver]
           rest == Tail(queue)
<1>1. /\ queue # << >> /\ queue' = rest /\ running' = running \union {taken} /\ results' = results
      /\ UNCHANGED <<frames, known, fetching, phase, file, hooks, events>>
  BY DEF Take, loopVars, stateVars, fileVars, programVars
<1>2. PoolOk(known, queue, running, results) /\ queue \in Seq(Job) /\ Apart(queue)
  BY DEF JobInv, PoolOk
<1>3. /\ rest \in Seq(Job) /\ Apart(rest) /\ job \in Job
      /\ Range(queue) = {job} \union Range(rest)
      /\ \A j \in Range(rest) : j.id # job.id
  BY <1>1, <1>2, TailApart
<1>4. ver \in Nat
  <2>1. ParseOk(job)
    BY <1>3 DEF JobInv, Outstanding
  <2>2. CASE job.kind = "parse"
    <3>1. file[job.frame] \in Seq(Nat) /\ job.path \in 1 .. Len(file[job.frame])
      BY <2>1, <2>2 DEF ParseOk, JobInv, PathsInv
    <3> HIDE DEF job
    <3>2. file[job.frame][job.path] \in Nat
      BY <3>1
    <3> QED  BY <2>2, <3>2
  <2>3. CASE job.kind # "parse"
    BY <2>3
  <2> QED  BY <2>2, <2>3
<1> HIDE DEF job, ver, rest
<1>5. /\ taken \in Job /\ taken.id = job.id /\ taken.frame = job.frame /\ taken.kind = job.kind
      /\ taken.path = job.path
  BY <1>3, <1>4 DEF Job
<1> HIDE DEF taken
<1>6. /\ \A j \in running \union Range(results) : j.id # taken.id
      /\ In(known, taken) /\ ParseOk(taken)
  BY <1>2, <1>3, <1>5 DEF PoolOk, In, JobInv, Outstanding, ParseOk
<1>7. PoolOk(known, queue', running', results')
  BY <1>1, <1>2, <1>3, <1>5, <1>6 DEF PoolOk
<1>8. \A j \in Range(queue') \union running' \union Range(results') : ParseOk(j)'
  BY <1>1, <1>3, <1>6 DEF JobInv, Outstanding, ParseOk
<1>9. PathsInv'
  BY <1>1, PathsKept DEF JobInv, PathsInv, Live
<1> QED  BY <1>1, <1>7, <1>8, <1>9, StillJobs DEF Take

LEMMA WorkerJobs ==
    ASSUME JobInv, NEW job \in running, Send(job) \/ WorkerQuits(job)
    PROVE  JobInv'
<1>1. /\ queue' = queue /\ running' = running \ {job}
      /\ \/ results' = Append(results, job)
         \/ results' = results
      /\ UNCHANGED <<frames, known, fetching, phase, file, hooks, events>> /\ phase # "down"
  BY DEF Send, WorkerQuits, loopVars, stateVars, fileVars, programVars
<1>2. PoolOk(known, queue, running, results) /\ job \in Job /\ results \in Seq(Job) /\ Apart(results)
  BY DEF JobInv, PoolOk
<1>3. results' \in Seq(Job) /\ Apart(results') /\ Range(results') \subseteq Range(results) \union {job}
  <2>1. CASE results' = results
    BY <1>2, <2>1
  <2>2. CASE results' = Append(results, job)
    <3>1. \A k \in Range(results) : k.id # job.id
      BY <1>2 DEF PoolOk
    <3> QED  BY <1>2, <2>2, <3>1, AppendApart
  <2> QED  BY <1>1, <2>1, <2>2
<1>4. PoolOk(known, queue', running', results')
  BY <1>1, <1>2, <1>3 DEF PoolOk
<1>5. \A j \in Range(queue') \union running' \union Range(results') : ParseOk(j)'
  BY <1>1, <1>3 DEF JobInv, Outstanding, ParseOk
<1>6. PathsInv'
  BY <1>1, PathsKept DEF JobInv, PathsInv, Live
<1> QED  BY <1>1, <1>4, <1>5, <1>6, StillJobs

\* Transcripts are added to and never cut.
Grown ==
  /\ file' \in [Frames -> Seq(Nat)]
  /\ \A f \in Frames : /\ Len(file[f]) <= Len(file'[f])
                       /\ \A i \in 1 .. Len(file[f]) : file[f][i] <= file'[f][i]

LEMMA ProgramGrows ==
    ASSUME PathsInv, NEW f \in Frames, Program(f)
    PROVE  Grown /\ PathsInv'
<1>0. PICK m \in Moves : \E tool \in Tools(f, m[2]) :
        /\ file' = [file EXCEPT ![f] = NextFile(f, m[2])]
        /\ hooks' = hooks \union {[frame |-> f, event |-> m[2], at |-> clock + 1,
                                   path |-> Len(NextFile(f, m[2])), tool |-> tool]}
  BY DEF Program
<1>1. PICK tool \in Tools(f, m[2]) :
        /\ file' = [file EXCEPT ![f] = NextFile(f, m[2])]
        /\ hooks' = hooks \union {[frame |-> f, event |-> m[2], at |-> clock + 1,
                                   path |-> Len(NextFile(f, m[2])), tool |-> tool]}
  BY <1>0
<1> DEFINE next == NextFile(f, m[2])
           h == [frame |-> f, event |-> m[2], at |-> clock + 1, path |-> Len(next), tool |-> tool]
<1>2. file \in [Frames -> Seq(Nat)] /\ \A g \in Frames : file[g] \in Seq(Nat)
  BY DEF PathsInv
<1>3. /\ next \in Seq(Nat) /\ Len(file[f]) <= Len(next)
      /\ \A i \in 1 .. Len(file[f]) : file[f][i] <= next[i]
  <2> DEFINE old == file[f]
             longer == Append(old, 0)
  <2>1. old \in Seq(Nat) /\ next \in {old, longer}
    BY <1>2 DEF NextFile
  <2> HIDE DEF old, next
  <2>2. /\ longer \in Seq(Nat) /\ Len(longer) = Len(old) + 1 /\ Len(old) \in Nat
        /\ \A i \in 1 .. Len(old) : longer[i] = old[i] /\ old[i] \in Nat
    BY <2>1, AppendProperties
  <2> HIDE DEF longer
  <2>3. next \in Seq(Nat) /\ Len(old) <= Len(next) /\ \A i \in 1 .. Len(old) : old[i] <= next[i]
    BY <2>1, <2>2
  <2> QED  BY <2>3 DEF old
<1>4. frames' = frames /\ events' = events
  BY DEF Program, stateVars
<1>5. h.frame = f /\ h.path = Len(next) /\ hooks' = hooks \union {h} /\ file' = [file EXCEPT ![f] = next]
  BY <1>1
<1> HIDE DEF next, h
<1>6. \A g \in Frames : file'[g] = IF g = f THEN next ELSE file[g]
  BY <1>2, <1>5
<1>7. \A g \in Frames : Len(file[g]) \in Nat /\ \A i \in 1 .. Len(file[g]) : file[g][i] \in Nat
  BY <1>2
<1>8. Grown
  BY <1>2, <1>3, <1>5, <1>6, <1>7 DEF Grown
<1>9. \A g \in Frames : 0 .. Len(file[g]) \subseteq 0 .. Len(file'[g])
  <2>1. \A g \in Frames : file'[g] \in Seq(Nat)
    BY <1>8 DEF Grown
  <2>2. \A g \in Frames : Len(file'[g]) \in Nat
    BY <2>1
  <2> QED  BY <1>7, <1>8, <2>2 DEF Grown
<1>10. ASSUME NEW k \in hooks', k.frame \in Frames
       PROVE  k.path \in 0 .. Len(file'[k.frame])
  <2>1. CASE k \in hooks
    BY <1>9, <1>10, <2>1 DEF PathsInv
  <2>2. CASE k = h
    <3>1. Len(next) \in Nat /\ file'[f] = next
      BY <1>3, <1>6
    <3> QED  BY <1>5, <2>2, <3>1
  <2> QED  BY <1>5, <2>1, <2>2
<1>11. \A e \in Range(events') : e.path \in 0 .. Len(file'[e.frame])
  <2>1. ASSUME NEW e \in Range(events)
        PROVE  e.path \in 0 .. Len(file'[e.frame])
    <3>1. e.frame \in Frames /\ e.path \in 0 .. Len(file[e.frame])
      BY EventFrames
    <3> QED  BY <1>9, <3>1
  <2> QED  BY <1>4, <2>1
<1>12. \A g \in Frames : frames'[g] \notin {Gone, Unborn} => frames'[g].path \in 0 .. Len(file'[g])
  BY <1>4, <1>9 DEF PathsInv, Live
<1> QED  BY <1>4, <1>8, <1>10, <1>11, <1>12 DEF PathsInv, Grown, Live

LEMMA WriteGrows ==
    ASSUME PathsInv, NEW f \in Frames, FileWrite(f)
    PROVE  Grown /\ PathsInv'
<1> DEFINE old == file[f]
           n == Len(old)
           next == [old EXCEPT ![n] = @ + 1]
           e == [frame |-> f, path |-> n]
<1>1. file \in [Frames -> Seq(Nat)] /\ \A g \in Frames : file[g] \in Seq(Nat)
  BY DEF PathsInv
<1>2. /\ n > 0 /\ file' = [file EXCEPT ![f] = next]
      /\ events' = events \/ events' = Append(events, e)
      /\ frames' = frames /\ hooks' = hooks
  BY <1>1 DEF FileWrite, stateVars, programVars
<1>3. old \in Seq(Nat)
  BY <1>1
<1>4. e \in Event /\ e.frame = f /\ e.path = n /\ n \in Nat
  BY <1>3 DEF Event
<1> HIDE DEF old, e
<1>5. next \in Seq(Nat) /\ Len(next) = n /\ \A i \in 1 .. n : old[i] <= next[i]
  BY <1>2, <1>3
<1> HIDE DEF n, next
<1>6. \A g \in Frames : file'[g] = IF g = f THEN next ELSE file[g]
  BY <1>1, <1>2
<1>7. \A g \in Frames : Len(file[g]) \in Nat /\ \A i \in 1 .. Len(file[g]) : file[g][i] \in Nat
  BY <1>1
<1>8. \A g \in Frames : Len(file'[g]) = Len(file[g])
  BY <1>5, <1>6 DEF n, old
<1>9. Grown
  <2>1. \A g \in Frames : Len(file[g]) <= Len(file'[g])
    BY <1>7, <1>8
  <2>2. file' \in [Frames -> Seq(Nat)]
    BY <1>1, <1>2, <1>5
  <2>3. \A g \in Frames : \A i \in 1 .. Len(file[g]) : file[g][i] <= file'[g][i]
    BY <1>5, <1>6, <1>7 DEF n, old
  <2> QED  BY <2>1, <2>2, <2>3 DEF Grown
<1>10. events' \in Seq(Event) /\ Range(events') \subseteq Range(events) \union {e}
  <2>1. events \in Seq(Event)
    BY DEF PathsInv
  <2>2. Append(events, e) \in Seq(Event) /\ ToSet(Append(events, e)) = ToSet(events) \union {e}
    BY <1>4, <2>1, AppendProperties, AppendSet
  <2> QED  BY <1>2, <2>1, <2>2 DEF ToSet, Range
<1>11. ASSUME NEW d \in Range(events')
       PROVE  d.path \in 0 .. Len(file'[d.frame])
  <2>1. CASE d \in Range(events)
    <3>1. d.frame \in Frames /\ d.path \in 0 .. Len(file[d.frame])
      BY <2>1, EventFrames
    <3> QED  BY <1>8, <3>1
  <2>2. CASE d = e
    <3>1. Len(file'[f]) = n
      BY <1>5, <1>6
    <3> QED  BY <1>4, <2>2, <3>1
  <2> QED  BY <1>10, <2>1, <2>2
<1>12. \A h \in hooks' : h.frame \in Frames => h.path \in 0 .. Len(file'[h.frame])
  BY <1>2, <1>8 DEF PathsInv
<1>13. \A g \in Frames : frames'[g] \notin {Gone, Unborn} => frames'[g].path \in 0 .. Len(file'[g])
  BY <1>2, <1>8 DEF PathsInv, Live
<1> QED  BY <1>9, <1>10, <1>11, <1>12, <1>13 DEF PathsInv, Grown, Live

LEMMA GrownJobs ==
    ASSUME JobInv, NEW f \in Frames, Program(f) \/ FileWrite(f)
    PROVE  JobInv'
<1>1. Grown /\ PathsInv'
  BY ProgramGrows, WriteGrows DEF JobInv
<1>2. UNCHANGED <<frames, known, phase, queue, running, results>>
  BY DEF Program, FileWrite, loopVars, poolVars, stateVars
<1>3. \A g \in Frames : 1 .. Len(file[g]) \subseteq 1 .. Len(file'[g])
  <2>1. \A g \in Frames : file[g] \in Seq(Nat) /\ file'[g] \in Seq(Nat)
    BY <1>1 DEF Grown, JobInv, PathsInv
  <2>2. \A g \in Frames : Len(file[g]) \in Nat /\ Len(file'[g]) \in Nat
    BY <2>1
  <2> QED  BY <1>1, <2>2 DEF Grown
<1>4. \A j \in Range(queue') \union running' \union Range(results') : ParseOk(j)'
  BY <1>2, <1>3 DEF JobInv, Outstanding, ParseOk
<1>5. PoolOk(known, queue', running', results')
  BY <1>2 DEF JobInv
<1> QED  BY <1>1, <1>2, <1>4, <1>5, StillJobs

LEMMA EmptyPool ==
    ASSUME NEW table
    PROVE  /\ PoolOk(table, << >>, {}, << >>)
           /\ TableOk(<< >>) /\ \A f, k : JobsIn(<< >>, f, k) = {}
<1>1. /\ << >> \in Seq(Job) /\ DOMAIN << >> = {}
  OBVIOUS
<1>2. Range(<< >>) = {} /\ Apart(<< >>)
  BY <1>1 DEF Range, Apart
<1>3. PoolOk(table, << >>, {}, << >>)
  BY <1>1, <1>2 DEF PoolOk
<1>4. TableOk(<< >>) /\ \A f, k : JobsIn(<< >>, f, k) = {}
  BY <1>1, FS_EmptySet DEF TableOk, JobsIn
<1> QED  BY <1>3, <1>4

LEMMA JobInit == Init => JobInv
<1> SUFFICES ASSUME Init PROVE JobInv
  OBVIOUS
<1>1. /\ frames = [f \in Frames |-> Unborn] /\ known = << >> /\ queue = << >> /\ running = {}
      /\ results = << >> /\ events = << >> /\ hooks = {} /\ file = [f \in Frames |-> << >>]
      /\ phase = "loop"
  BY DEF Init
<1>2. /\ TableOk(known) /\ PoolOk(known, queue, running, results)
      /\ \A f, k : JobsIn(known, f, k) = {}
  BY <1>1, EmptyPool
<1>3. << >> \in Seq(Nat) /\ << >> \in Seq(Event) /\ Range(<< >>) = {}
  BY DEF Range
<1>4. \A f : ~Live(f)
  BY <1>1 DEF Live
<1>5. PathsInv
  BY <1>1, <1>3, <1>4 DEF PathsInv
<1>6. Outstanding = {}
  BY <1>1, <1>3 DEF Outstanding
<1> QED  BY <1>1, <1>2, <1>4, <1>5, <1>6 DEF JobInv

\* The daemon ends: no job is left and no flag set.
LEMMA ExitJobs ==
    ASSUME InboxInv, JobInv, Exit
    PROVE  JobInv'
<1>1. /\ frames' = [f \in Frames |-> IF Live(f) THEN Restored(frames[f], Second) ELSE frames[f]]
      /\ known' = << >> /\ queue' = << >> /\ running' = {} /\ results' = << >> /\ events' = << >>
      /\ file' = file /\ hooks' = hooks
  BY DEF Exit, programVars
<1>2. /\ TableOk(known') /\ PoolOk(known', queue', running', results')
      /\ \A f, k : JobsIn(known', f, k) = {}
  BY <1>1, EmptyPool
<1>3. ASSUME NEW f \in Frames, frames'[f] \notin {Gone, Unborn}
      PROVE  /\ frames'[f].path \in 0 .. Len(file[f]) /\ frames'[f].jobs = {}
             /\ Flags(f, frames'[f], known')
  <2>1. Live(f) /\ frames'[f] = Restored(frames[f], Second)
    BY <1>1, <1>3 DEF Live
  <2>2. \A st : /\ Restored(st, Second).path = st.path /\ Restored(st, Second).jobs = {}
                /\ Restored(st, Second).flight = {}
    BY DEF Restored, NewState
  <2>3. frames[f].path \in 0 .. Len(file[f])
    BY <2>1 DEF JobInv, PathsInv
  <2> QED  BY <1>2, <2>1, <2>2, <2>3 DEF Flags
<1>4. PathsInv'
  BY <1>1, <1>3, PathsKept DEF JobInv
<1>5. Outstanding' = {}
  <2>1. Range(<< >>) = {}
    BY DEF Range
  <2> QED  BY <1>1, <2>1 DEF Outstanding
<1> QED  BY <1>1, <1>2, <1>3, <1>4, <1>5 DEF JobInv, Live

\* It starts again: the frames it recovers start their jobs in an empty table.
LEMMA RestartJobs ==
    ASSUME AgentsAssumption, InboxInv, JobInv, Restart
    PROVE  JobInv'
<1> DEFINE live == {f \in Frames : Live(f)} \ Cut
           next == [f \in live |-> WarmStartRecover(frames[f])]
           js == JobsOfAll(next)
<1>1. /\ phase = "down" /\ phase' = "loop" /\ UNCHANGED <<running, results, events, file, hooks>>
      /\ frames' = [f \in Frames |-> IF f \in live
                                     THEN [next[f] EXCEPT !.jobs = {}, !.watch = FALSE]
                                     ELSE IF f \in Cut THEN Gone ELSE frames[f]]
      /\ StartJobs(known, js)
  BY DEF Restart, programVars
<1>2. /\ known = << >> /\ queue = << >> /\ running = {} /\ results = << >>
      /\ TableOk(known) /\ PoolOk(known, queue, running, results)
      /\ QueueSize \in Nat
  BY <1>1 DEF JobInv, AgentsAssumption
<1>3. live \subseteq Frames /\ IsFiniteSet(live) /\ DOMAIN next = live
  <2>1. live \subseteq Frames
    OBVIOUS
  <2> HIDE DEF live
  <2> QED  BY <2>1, FS_Subset DEF AgentsAssumption
<1>4. ASSUME NEW f \in live
      PROVE  /\ Runs(frames[f], next[f], {}) /\ IsState(frames[f]) /\ frames[f].jobs = {}
             /\ frames[f].path \in 0 .. Len(file[f]) /\ Flags(f, frames[f], known)
             /\ next[f].path = frames[f].path /\ next[f].path \in Nat
             /\ next[f].jobs \subseteq Kinds
             /\ "parse" \in next[f].jobs => next[f].path # 0
  <2>1. Live(f) /\ f \in Frames /\ next[f] = WarmStartRecover(frames[f])
    OBVIOUS
  <2> HIDE DEF live, next
  <2>2. IsState(frames[f]) /\ frames[f].jobs = {} /\ frames[f].path \in 0 .. Len(file[f])
        /\ Flags(f, frames[f], known) /\ file[f] \in Seq(Nat)
    BY <2>1 DEF InboxInv, FrameOk, Live, JobInv, PathsInv
  <2>3. Runs(frames[f], next[f], {})
    BY <2>1, <2>2, ScreenRuns
  <2>4. /\ next[f].path = frames[f].path /\ next[f].jobs \subseteq Kinds
        /\ "parse" \in next[f].jobs => next[f].path # 0
    BY <2>2, <2>3 DEF Runs
  <2>5. next[f].path \in Nat
    BY <2>2, <2>4
  <2> QED  BY <2>2, <2>3, <2>4, <2>5
<1>5. ASSUME NEW f \in Frames
      PROVE  /\ f \in live =>
                  /\ frames'[f].path = next[f].path /\ frames'[f].jobs = {}
                  /\ frames'[f].flight = next[f].flight /\ frames'[f].driver = next[f].driver
                  /\ frames'[f] # Unborn
             /\ f \notin live => frames'[f] = Gone \/ (frames'[f] = frames[f] /\ ~Live(f))
  <2>1. CASE f \in live
    <3> DEFINE t == next[f]
               back == [t EXCEPT !.jobs = {}, !.watch = FALSE]
    <3>1. IsState(t)
      BY <1>4, <2>1 DEF Runs
    <3>2. frames'[f] = back
      BY <1>1, <2>1
    <3> HIDE DEF t
    <3>3. /\ IsState(back) /\ back.path = t.path /\ back.jobs = {} /\ back.flight = t.flight
          /\ back.driver = t.driver
      BY <3>1 DEF IsState, Fields
    <3> HIDE DEF back, live
    <3> QED  BY <2>1, <3>2, <3>3, StateIsLive DEF t
  <2>2. CASE f \notin live
    BY <1>1, <2>2
  <2> QED  BY <2>1, <2>2
<1> HIDE DEF next
<1>6. /\ js \in Seq(Job) /\ Once(js) /\ \A f \in live : Wanted(js, f, next[f])
      /\ \A j \in Range(js) : j.frame \in live /\ j.kind \in Kinds
  <2> HIDE DEF live
  <2> QED  BY <1>3, <1>4, JobsOfAllAre
<1> HIDE DEF js
<1>7. /\ Started(known, js, known') /\ PoolOk(known', queue', running, results)
      /\ \A q \in Range(queue') :
           \/ q \in Range(queue)
           \/ \E j \in Range(js) : q.frame = j.frame /\ q.kind = j.kind /\ q.path = j.path
  <2>1. \A j \in Range(js) : j.kind \in Kinds => j.frame \in Frames
    BY <1>3, <1>6
  <2> HIDE DEF live
  <2> QED  BY <1>1, <1>2, <1>6, <2>1, StartJobsAre
<1>8. ASSUME NEW f \in Frames, frames'[f] \notin {Gone, Unborn}
      PROVE  /\ frames'[f].path \in 0 .. Len(file[f]) /\ frames'[f].jobs = {}
             /\ Flags(f, frames'[f], known')
  <2>1. f \in live
    BY <1>5, <1>8 DEF Live
  <2>2. Flags(f, next[f], known')
    <3> HIDE DEF live
    <3> QED  BY <1>4, <1>6, <1>7, <2>1, FlagsStarted
  <2> QED  BY <1>4, <1>5, <2>1, <2>2 DEF Flags
<1>9. ASSUME NEW f \in Frames, frames'[f] = Unborn, NEW k \in Kinds
      PROVE  JobsIn(known', f, k) = {}
  <2>1. f \notin live
    BY <1>5, <1>9
  <2>4. frames[f] = Unborn
    BY <1>5, <1>9, <2>1 DEF Gone, Unborn
  <2>2. \A j \in Range(js) : ~ (j.frame = f /\ j.kind = k)
    BY <1>6, <2>1
  <2>3. JobsIn(known', f, k) = JobsIn(known, f, k)
    BY <1>7, <2>2 DEF Started
  <2> QED  BY <1>2, <2>3, EmptyPool
<1>10. PathsInv'
  BY <1>1, <1>8, PathsKept DEF JobInv
<1>11. ASSUME NEW q \in Range(queue')
       PROVE  ParseOk(q)
  <2>1. Range(<< >>) = {}
    BY DEF Range
  <2>2. PICK j \in Range(js) : q.frame = j.frame /\ q.kind = j.kind /\ q.path = j.path
    BY <1>2, <1>7, <2>1
  <2>3. CASE q.kind = "parse"
    <3> DEFINE f == j.frame
    <3>0. f \in live /\ j.kind \in Kinds /\ j.kind = "parse" /\ Wanted(js, f, next[f])
      BY <1>6, <2>2, <2>3
    <3>1. f \in live /\ f \in Frames /\ "parse" \in next[f].jobs /\ j.path = next[f].path
      <4>1. f \in Frames
        BY <3>0
      <4> HIDE DEF f, live
      <4>2. j.frame = f
        BY DEF f
      <4> QED  BY <3>0, <4>1, <4>2 DEF Wanted
    <3>2. file[f] \in Seq(Nat)
      BY <3>1 DEF JobInv, PathsInv
    <3>3. Len(file[f]) \in Nat
      BY <3>2
    <3>4. next[f].path # 0 /\ next[f].path \in 0 .. Len(file[f])
      BY <1>4, <3>1
    <3>5. j.path \in 1 .. Len(file[f])
      BY <3>1, <3>3, <3>4
    <3> QED  BY <2>2, <3>1, <3>5 DEF ParseOk
  <2> QED  BY <2>3 DEF ParseOk
<1>12. \A j \in Range(queue') \union running' \union Range(results') : ParseOk(j)
  <2>1. Range(<< >>) = {}
    BY DEF Range
  <2> QED  BY <1>1, <1>2, <1>11, <2>1
<1>13. TableOk(known')
  BY <1>7 DEF Started
<1> QED  BY <1>1, <1>7, <1>8, <1>9, <1>10, <1>12, <1>13, JobKept

LEMMA JobStep ==
    ASSUME InboxInv, JobInv, [Next]_vars
    PROVE  JobInv'
<1>1. CASE \/ TimePasses
           \/ \E f \in Frames : PeerSend(f) \/ DrainInbox(f) \/ Push(f) \/ Evict(f)
  BY <1>1, AgentsAssumption, LivesStepIs, LivesJobs
<1>2. CASE \/ \E h \in hooks : DriverHook(h)
           \/ Tick \/ PaneActivity \/ FileChanged \/ JobResult
           \/ \E title \in Titles : PaneOsc(title)
  <2>1. PathsInv /\ results \in Seq(Job) /\ QueueSize \in Nat
    BY AgentsAssumption DEF JobInv, PoolOk, AgentsAssumption
  <2> QED  BY <1>2, <2>1, LoopStepIs, LoopJobs
<1>3. CASE Exit \/ Restart
  BY <1>3, AgentsAssumption, ExitJobs, RestartJobs
<1>4. CASE \E f \in Frames : Program(f) \/ FileWrite(f)
  BY <1>4, GrownJobs
<1>5. CASE Take \/ \E job \in running : Send(job) \/ WorkerQuits(job)
  BY <1>5, TakeJobs, WorkerJobs
<1>6. CASE \/ (\E h \in hooks : HookLost(h)) \/ Stop \/ UNCHANGED vars
           \/ \E f \in Frames : Register(f) \/ PaneGoes(f)
  <2>1. /\ UNCHANGED <<frames, known, queue, running, results, file, events>> /\ hooks' \subseteq hooks
        /\ phase' = phase \/ phase' = "stopping"
    BY <1>6 DEF HookLost, Stop, Register, PaneGoes, vars, loopVars, poolVars, stateVars, fileVars,
                programVars
  <2>2. PathsInv'
    BY <2>1, PathsKept DEF JobInv, PathsInv, Live
  <2>3. \A j \in Range(queue') \union running' \union Range(results') : ParseOk(j)'
    BY <2>1 DEF JobInv, Outstanding, ParseOk
  <2>4. PoolOk(known, queue', running', results')
    BY <2>1 DEF JobInv
  <2> QED  BY <2>1, <2>2, <2>3, <2>4, StillJobs
<1> QED  BY <1>1, <1>2, <1>3, <1>4, <1>5, <1>6 DEF Next

LEMMA JobAlways == Spec => []JobInv
<1>1. Init => JobInv
  BY JobInit
<1>2. InboxInv /\ JobInv /\ [Next]_vars => JobInv'
  BY JobStep
<1> QED  BY <1>1, <1>2, InboxAlways, PTL DEF Spec

\* A flag in a driver's state stands for one job in State.Jobs, and the pool
\* holds no job that the table does not know.
THEOREM FlagsTheorem == Spec => []FlagsMatchJobs
<1>1. ASSUME JobInv
      PROVE  FlagsMatchJobs
  <2>1. ASSUME NEW f \in Frames, Live(f), NEW k \in Kinds
        PROVE  IF k \notin frames[f].flight THEN Cardinality(JobsFor(f, k)) = 0
               ELSE \/ Cardinality(JobsFor(f, k)) = 1
                    \/ (Cardinality(JobsFor(f, k)) = 0 /\ k = "capture" /\ frames[f].driver \in Polling)
    <3> DEFINE J == JobsFor(f, k)
    <3>1. J = JobsIn(known, f, k)
      BY DEF JobsFor, JobsIn
    <3> HIDE DEF J
    <3>2. J = {} => Cardinality(J) = 0
      BY FS_EmptySet
    <3>3. \A i : J = {i} => Cardinality(J) = 1
      BY FS_Singleton
    <3>4. Flags(f, frames[f], known)
      BY <1>1, <2>1 DEF JobInv
    <3> QED  BY <3>1, <3>2, <3>3, <3>4 DEF Flags, J
  <2>2. \A j \in Outstanding : j.id \in DOMAIN known
    BY <1>1 DEF JobInv, PoolOk, Outstanding, In
  <2> QED  BY <2>1, <2>2 DEF FlagsMatchJobs
<1> QED  BY <1>1, JobAlways, PTL

-----------------------------------------------------------------------------
(* 12. What is shown of the transcripts.                                   *)

\* A parse saw no more than is written, and no less than what its frame shows of
\* the same transcript.
TakenOk(j) ==
  j.kind = "parse" =>
    /\ j.ver <= file[j.frame][j.path]
    /\ Live(j.frame) /\ frames[j.frame].shown.path = j.path => frames[j.frame].shown.ver <= j.ver

ShownOk(f, shown) ==
  /\ shown.ver \in Nat
  /\ shown.ver # 0 => shown.path \in 1 .. Len(file[f]) /\ shown.ver <= file[f][shown.path]

ShownInv ==
  /\ \A j \in running \union Range(results) : TakenOk(j)
  /\ \A f \in Frames : Live(f) => ShownOk(f, frames[f].shown)

Fresh == [path |-> 0, ver |-> 0]

\* What a frame shows changes with the result of a parse of its own, and when it
\* is pushed.
Lands(f) ==
  /\ results # << >> /\ results' = Tail(results) /\ running' = running
  /\ LET job == Head(results) IN
     /\ job.frame = f /\ job.kind = "parse" /\ job.kind \in Kinds
     /\ frames'[f].shown = [path |-> job.path, ver |-> job.ver]

ShownStep ==
  \A f \in Frames : frames'[f] \notin {Gone, Unborn} =>
    \/ Live(f) /\ frames'[f].shown = frames[f].shown
    \/ ~Live(f) /\ frames'[f].shown = Fresh
    \/ Live(f) /\ Lands(f)

\* A worker that takes a parse reads what is written then.
TakenStep ==
  \A j \in running' \union Range(results') :
    \/ j \in running \union Range(results)
    \/ /\ frames' = frames /\ file' = file
       /\ j.kind = "parse" => j.ver = file[j.frame][j.path]

\* No other parse of the frame is in the pool when one lands.
LEMMA LoneParse ==
    ASSUME JobInv, NEW f \in Frames, Live(f), results # << >>, NEW job, job = Head(results),
           job.frame = f, job.kind = "parse", job.kind \in Kinds,
           NEW j \in running \union Range(Tail(results)), j.kind = "parse", j.frame = f
    PROVE  FALSE
<1>1. job.id \in JobsIn(known, f, "parse")
  BY StruckAre
<1>2. j \in Outstanding /\ j.id # job.id
  <2>1. /\ Range(results) = {job} \union Range(Tail(results)) /\ job \notin Range(Tail(results))
        /\ PoolOk(Struck(job), queue, running, Tail(results))
        /\ DOMAIN Struck(job) \subseteq DOMAIN known
        /\ \A g, k : JobsIn(Struck(job), g, k) = JobsIn(known, g, k) \ {job.id}
    BY StruckAre
  <2> DEFINE table == Struck(job)
             rest == Tail(results)
  <2> HIDE DEF table, rest
  <2>2. In(table, j)
    BY <2>1 DEF PoolOk, table, rest
  <2>3. j.id \in JobsIn(table, f, "parse")
    BY <2>2 DEF In, JobsIn
  <2> QED  BY <2>1, <2>3 DEF Outstanding, table
<1>3. j.id \in JobsIn(known, f, "parse")
  BY <1>2 DEF JobInv, PoolOk, Outstanding, In, JobsIn
<1>4. \E i : JobsIn(known, f, "parse") = {i}
  <2>1. Flags(f, frames[f], known)
    BY DEF JobInv
  <2> QED  BY <1>1, <2>1 DEF Flags
<1> QED  BY <1>1, <1>2, <1>3, <1>4

LEMMA ShownStays ==
    ASSUME JobInv, JobInv', ShownInv, ShownStep, TakenStep, Grown
    PROVE  /\ ShownInv'
           /\ \A f \in Frames : (Live(f) /\ Live(f)' /\ frames[f].shown.path = frames'[f].shown.path)
                => frames'[f].shown.ver >= frames[f].shown.ver
<1>1. /\ file \in [Frames -> Seq(Nat)] /\ file' \in [Frames -> Seq(Nat)]
      /\ \A f \in Frames : Len(file[f]) \in Nat /\ Len(file'[f]) \in Nat
  <2>1. file \in [Frames -> Seq(Nat)] /\ file' \in [Frames -> Seq(Nat)]
    BY DEF JobInv, PathsInv, Grown
  <2>2. \A f \in Frames : file[f] \in Seq(Nat) /\ file'[f] \in Seq(Nat)
    BY <2>1
  <2> QED  BY <2>1, <2>2
<1>2. \A f \in Frames : \A p \in 1 .. Len(file[f]) :
        p \in 1 .. Len(file'[f]) /\ file[f][p] <= file'[f][p] /\ file[f][p] \in Nat /\ file'[f][p] \in Nat
  <2> SUFFICES ASSUME NEW f \in Frames, NEW p \in 1 .. Len(file[f])
               PROVE  /\ p \in 1 .. Len(file'[f]) /\ file[f][p] <= file'[f][p]
                      /\ file[f][p] \in Nat /\ file'[f][p] \in Nat
    OBVIOUS
  <2>1. p \in 1 .. Len(file'[f]) /\ file[f][p] <= file'[f][p]
    BY <1>1 DEF Grown
  <2>2. file[f] \in Seq(Nat) /\ file'[f] \in Seq(Nat)
    BY <1>1
  <2> QED  BY <2>1, <2>2
<1>3. ASSUME NEW j \in running \union Range(results), j.kind = "parse"
      PROVE  /\ j \in Job /\ j.ver \in Nat /\ j.frame \in Frames /\ j.path \in 1 .. Len(file[j.frame])
             /\ j.ver <= file'[j.frame][j.path]
  <2>1. j \in Job /\ ParseOk(j) /\ TakenOk(j)
    BY DEF JobInv, PoolOk, Outstanding, ShownInv, Range
  <2>2. j.ver \in Nat
    BY <2>1, JobFields
  <2> QED  BY <1>2, <1>3, <2>1, <2>2 DEF ParseOk, TakenOk
<1>4. ASSUME NEW f \in Frames, Live(f)
      PROVE  /\ frames[f].shown.ver \in Nat
             /\ frames[f].shown.ver # 0 => /\ frames[f].shown.path \in 1 .. Len(file[f])
                                           /\ frames[f].shown.ver <= file[f][frames[f].shown.path]
  BY <1>4 DEF ShownInv, ShownOk
<1>5. ASSUME NEW f \in Frames, Live(f), Lands(f)
      PROVE  LET job == Head(results) IN
             /\ job \in running \union Range(results) /\ job.kind = "parse" /\ job.frame = f
             /\ frames'[f].shown.path = job.path /\ frames'[f].shown.ver = job.ver
             /\ results # << >> /\ job.kind \in Kinds /\ TakenOk(job)
             /\ running' = running /\ results' = Tail(results)
  <2> DEFINE job == Head(results)
  <2>1. job \in Range(results)
    BY <1>5, StruckAre DEF Lands
  <2> QED  BY <1>5, <2>1 DEF Lands, ShownInv
<1>6. ASSUME NEW f \in Frames, frames'[f] \notin {Gone, Unborn}
      PROVE  /\ frames'[f].shown.ver \in Nat
             /\ frames'[f].shown.ver # 0 => /\ frames'[f].shown.path \in 1 .. Len(file'[f])
                                            /\ frames'[f].shown.ver <= file'[f][frames'[f].shown.path]
  <2>1. CASE Live(f) /\ frames'[f].shown = frames[f].shown
    <3> DEFINE s == frames[f].shown
    <3>1. s.ver \in Nat /\ (s.ver # 0 => s.path \in 1 .. Len(file[f]) /\ s.ver <= file[f][s.path])
      BY <1>4, <2>1
    <3>2. frames'[f].shown = s
      BY <2>1
    <3> HIDE DEF s
    <3> QED  BY <1>2, <3>1, <3>2
  <2>2. CASE ~Live(f) /\ frames'[f].shown = Fresh
    BY <2>2 DEF Fresh
  <2>3. CASE Live(f) /\ Lands(f)
    <3> DEFINE job == Head(results)
    <3>1. /\ job \in running \union Range(results) /\ job.kind = "parse" /\ job.frame = f
          /\ frames'[f].shown.path = job.path /\ frames'[f].shown.ver = job.ver
      BY <1>5, <2>3
    <3> HIDE DEF job
    <3> QED  BY <1>2, <1>3, <3>1
  <2> QED  BY <1>6, <2>1, <2>2, <2>3 DEF ShownStep
<1>7. ASSUME NEW j \in running' \union Range(results'), j.kind = "parse"
      PROVE  /\ j.ver <= file'[j.frame][j.path]
             /\ (frames'[j.frame] \notin {Gone, Unborn} /\ frames'[j.frame].shown.path = j.path)
                  => frames'[j.frame].shown.ver <= j.ver
  <2> DEFINE f == j.frame
  <2>1. j \in Job /\ ParseOk(j)'
    BY DEF JobInv, PoolOk, Outstanding, Range
  <2>2. f \in Frames /\ j.ver \in Nat /\ j.path \in 1 .. Len(file'[f])
    BY <1>7, <2>1, JobFields DEF ParseOk
  <2>3. CASE j \in running \union Range(results)
    <3>1. j.ver <= file'[f][j.path]
      BY <1>3, <1>7, <2>3
    <3>2. ASSUME frames'[f] \notin {Gone, Unborn}, frames'[f].shown.path = j.path
          PROVE  frames'[f].shown.ver <= j.ver
      <4>1. CASE Live(f) /\ frames'[f].shown = frames[f].shown
        BY <1>7, <2>3, <3>2, <4>1 DEF ShownInv, TakenOk
      <4>2. CASE ~Live(f) /\ frames'[f].shown = Fresh
        BY <2>2, <4>2 DEF Fresh
      <4>3. CASE Live(f) /\ Lands(f)
        <5>1. /\ results # << >> /\ Head(results).frame = f /\ Head(results).kind = "parse"
              /\ Head(results).kind \in Kinds /\ running' = running /\ results' = Tail(results)
          BY <1>5, <2>2, <4>3
        <5> QED  BY <1>7, <2>2, <4>3, <5>1, LoneParse
      <4> QED  BY <2>2, <3>2, <4>1, <4>2, <4>3 DEF ShownStep
    <3> QED  BY <3>1, <3>2
  <2>4. CASE frames' = frames /\ file' = file /\ j.ver = file[f][j.path]
    <3>1. j.ver <= file'[f][j.path]
      BY <2>2, <2>4
    <3>2. ASSUME frames'[f] \notin {Gone, Unborn}, frames'[f].shown.path = j.path
          PROVE  frames'[f].shown.ver <= j.ver
      <4> HIDE DEF f
      <4>1. Live(f) /\ frames[f].shown.path = j.path
        BY <2>2, <2>4, <3>2 DEF Live
      <4>2. /\ frames[f].shown.ver \in Nat
            /\ frames[f].shown.ver # 0 => frames[f].shown.ver <= file[f][frames[f].shown.path]
        BY <1>4, <2>2, <4>1
      <4> QED  BY <2>2, <2>4, <4>1, <4>2
    <3> QED  BY <3>1, <3>2
  <2> QED  BY <1>7, <2>3, <2>4 DEF TakenStep
<1>8. ASSUME NEW f \in Frames, Live(f), frames'[f] \notin {Gone, Unborn},
             frames[f].shown.path = frames'[f].shown.path
      PROVE  frames'[f].shown.ver >= frames[f].shown.ver
  <2>1. CASE frames'[f].shown = frames[f].shown
    BY <1>4, <1>8, <2>1
  <2>2. CASE Lands(f)
    <3> DEFINE job == Head(results)
    <3>1. /\ job.frame = f /\ job.kind = "parse" /\ TakenOk(job)
          /\ frames'[f].shown.path = job.path /\ frames'[f].shown.ver = job.ver
      BY <1>5, <1>8, <2>2
    <3>2. job.ver \in Nat
      BY <1>3, <1>5, <1>8, <2>2
    <3> HIDE DEF job
    <3> QED  BY <1>4, <1>8, <3>1, <3>2 DEF TakenOk
  <2> QED  BY <1>8, <2>1, <2>2 DEF ShownStep
<1>9. ShownInv'
  BY <1>6, <1>7 DEF ShownInv, TakenOk, ShownOk, Live
<1> QED  BY <1>8, <1>9 DEF Live

LEMMA RanShown ==
    ASSUME InboxInv, NEW f \in Frames, NEW m, NEW P, NEW table, NEW more, Ran(f, m, P, table, more)
    PROVE  /\ \A g \in Frames \ {f} : frames'[g] = frames[g]
           /\ frames'[f].shown = m.shown
<1>1. PICK t : Runs(m, t, P) /\ StepDriver(f, t, table, more)
  BY DEF Ran
<1>2. IsState(t) /\ t.shown = m.shown
  BY <1>1 DEF Runs
<1> QED  BY <1>1, <1>2, StepDriverState

LEMMA LoopShown ==
    ASSUME InboxInv, JobInv, LoopStep
    PROVE  ShownStep /\ TakenStep /\ file' = file
<1>1. running' = running /\ file' = file
  BY DEF LoopStep
<1>2. Range(results') \subseteq Range(results)
  <2>1. results # << >> => Range(Tail(results)) \subseteq Range(results)
    BY StruckAre
  <2> QED  BY <2>1 DEF LoopStep, Handled, Fetched, LandedWith, LandedWithout
<1>3. TakenStep
  BY <1>1, <1>2 DEF TakenStep
<1>4. CASE Handled
  <2>1. PICK f \in Frames : \E P \in SUBSET (0 .. Len(file[f])) : \E more \in {<< >>, FetchJob} :
          Live(f) /\ Ran(f, frames[f], P, known, more)
    BY <1>4 DEF Handled
  <2>2. PICK P, more : Live(f) /\ Ran(f, frames[f], P, known, more)
    BY <2>1
  <2>3. /\ \A g \in Frames \ {f} : frames'[g] = frames[g]
        /\ frames'[f].shown = frames[f].shown
    BY <2>2, RanShown
  <2> QED  BY <1>1, <1>3, <2>2, <2>3 DEF ShownStep, Live
<1>5. CASE frames' = frames
  BY <1>1, <1>3, <1>5 DEF ShownStep, Live
<1>6. CASE results # << >> /\ LandedWith(Head(results))
  <2> DEFINE job == Head(results)
             f == job.frame
  <2>1. PICK m \in LeftBy(frames[f], job) : Ran(f, m, {}, Struck(job), << >>)
    BY <1>6 DEF LandedWith
  <2>2. results' = Tail(results) /\ job.kind \in Kinds /\ Live(f) /\ f \in Frames
    BY <1>6 DEF LandedWith, Live
  <2>3. IsState(frames[f])
    BY <2>2 DEF InboxInv, FrameOk, Live
  <2> HIDE DEF job
  <2>4. \/ m.shown = frames[f].shown
        \/ job.kind = "parse" /\ m.shown = [path |-> job.path, ver |-> job.ver]
    <3> HIDE DEF f
    <3> QED  BY <2>1, <2>3 DEF LeftBy, Without, Showing, IsState, Fields
  <2>5. /\ \A g \in Frames \ {f} : frames'[g] = frames[g]
        /\ frames'[f].shown = m.shown
    BY <2>1, <2>2, RanShown
  <2>6. frames'[f].shown = frames[f].shown \/ Lands(f)
    BY <1>1, <1>6, <2>2, <2>4, <2>5 DEF Lands, job
  <2> QED  BY <1>1, <1>3, <2>2, <2>5, <2>6 DEF ShownStep, Live
<1>7. Handled \/ frames' = frames \/ (results # << >> /\ LandedWith(Head(results)))
  BY DEF LoopStep, Fetched, LandedWithout
<1> QED  BY <1>1, <1>3, <1>4, <1>5, <1>6, <1>7

LEMMA LivesShown ==
    ASSUME InboxInv, LivesStep
    PROVE  ShownStep
<1> SUFFICES ASSUME NEW f \in Frames, frames'[f] \notin {Gone, Unborn}
             PROVE  \/ Live(f) /\ frames'[f].shown = frames[f].shown
                    \/ ~Live(f) /\ frames'[f].shown = Fresh
  BY DEF ShownStep
<1>1. CASE frames[f] = Unborn /\ \E d : frames'[f] = NewState(d)
  <2>1. \A d : NewState(d).shown = Fresh
    BY NewStateEmpty DEF Fresh
  <2> QED  BY <1>1, <2>1 DEF Live
<1>2. CASE frames'[f] = frames[f]
  BY <1>2 DEF Live
<1>3. CASE Live(f) /\ Alike(frames[f], frames'[f], {})
  BY <1>3 DEF Alike
<1> QED  BY <1>1, <1>2, <1>3 DEF LivesStep

LEMMA DaemonShown ==
    ASSUME InboxInv, JobInv, Exit \/ Restart
    PROVE  ShownStep /\ TakenStep /\ file' = file
<1>1. CASE Exit
  <2>1. /\ frames' = [f \in Frames |-> IF Live(f) THEN Restored(frames[f], Second) ELSE frames[f]]
        /\ running' = {} /\ results' = << >> /\ file' = file
    BY <1>1 DEF Exit
  <2>2. \A st : Restored(st, Second).shown = st.shown
    BY DEF Restored, NewState
  <2>3. Range(<< >>) = {}
    BY DEF Range
  <2>4. TakenStep
    BY <2>1, <2>3 DEF TakenStep
  <2>5. ShownStep
    BY <2>1, <2>2 DEF ShownStep, Live
  <2> QED  BY <2>1, <2>4, <2>5
<1>2. CASE Restart
  <2> DEFINE live == {f \in Frames : Live(f)} \ Cut
             next == [f \in live |-> WarmStartRecover(frames[f])]
  <2>1. /\ frames' = [f \in Frames |-> IF f \in live
                                       THEN [next[f] EXCEPT !.jobs = {}, !.watch = FALSE]
                                       ELSE IF f \in Cut THEN Gone ELSE frames[f]]
        /\ UNCHANGED <<running, results, file>>
    BY <1>2 DEF Restart
  <2>2. TakenStep
    BY <2>1 DEF TakenStep
  <2>3. ASSUME NEW f \in Frames, frames'[f] \notin {Gone, Unborn}
        PROVE  Live(f) /\ frames'[f].shown = frames[f].shown
    <3>1. Live(f) /\ f \notin Cut
      BY <2>1, <2>3 DEF Live
    <3> DEFINE t == WarmStartRecover(frames[f])
               back == [t EXCEPT !.jobs = {}, !.watch = FALSE]
    <3>2. IsState(frames[f])
      BY <3>1 DEF InboxInv, FrameOk, Live
    <3>3. Runs(frames[f], t, {})
      BY <3>2, ScreenRuns
    <3>4. frames'[f] = back
      BY <2>1, <3>1
    <3> HIDE DEF t
    <3>5. back.shown = t.shown
      BY <3>3 DEF Runs, IsState, Fields
    <3> HIDE DEF back
    <3> QED  BY <3>1, <3>3, <3>4, <3>5 DEF Runs
  <2> QED  BY <2>1, <2>2, <2>3 DEF ShownStep
<1> QED  BY <1>1, <1>2

\* Steps of the pool and of the world.
LEMMA PoolShown ==
    ASSUME JobInv,
           \/ Take \/ \E job \in running : Send(job) \/ WorkerQuits(job)
           \/ \E f \in Frames : Program(f) \/ FileWrite(f) \/ Register(f) \/ PaneGoes(f)
           \/ (\E h \in hooks : HookLost(h)) \/ Stop \/ UNCHANGED vars
    PROVE  ShownStep /\ TakenStep
<1>1. frames' = frames
  BY DEF Take, Send, WorkerQuits, Program, FileWrite, Register, PaneGoes, HookLost, Stop, vars, stateVars
<1>2. ShownStep
  BY <1>1 DEF ShownStep, Live
<1>3. CASE Take
  <2> DEFINE job == Head(queue)
             ver == IF job.kind = "parse" THEN file[job.frame][job.path] ELSE 0
             taken == [job EXCEPT !.ver = ver]
  <2>1. /\ running' = running \union {taken} /\ results' = results /\ file' = file
    BY <1>3 DEF Take, fileVars
  <2>2. job \in Job
    <3>1. queue \in Seq(Job) /\ queue # << >>
      BY <1>3 DEF Take, JobInv, PoolOk
    <3> QED  BY <3>1, HeadTailProperties
  <2> HIDE DEF job, ver
  <2>3. taken.kind = job.kind /\ taken.frame = job.frame /\ taken.path = job.path /\ taken.ver = ver
    BY <2>2 DEF Job
  <2> HIDE DEF taken
  <2>4. taken.kind = "parse" => taken.ver = file[taken.frame][taken.path]
    BY <2>3 DEF ver
  <2> QED  BY <1>1, <1>2, <2>1, <2>4 DEF TakenStep
<1>4. CASE \E job \in running : Send(job) \/ WorkerQuits(job)
  <2>1. PICK job \in running : Send(job) \/ WorkerQuits(job)
    BY <1>4
  <2>2. results \in Seq(Job) /\ job \in Job
    BY DEF JobInv, PoolOk
  <2>3. ToSet(Append(results, job)) = ToSet(results) \union {job}
    BY <2>2, AppendSet
  <2>4. running' \subseteq running /\ (results' = results \/ results' = Append(results, job))
    BY <2>1 DEF Send, WorkerQuits
  <2>5. running' \union Range(results') \subseteq running \union Range(results)
    BY <2>3, <2>4 DEF ToSet, Range
  <2> QED  BY <1>2, <2>5 DEF TakenStep
<1>5. CASE \/ \E f \in Frames : Program(f) \/ FileWrite(f) \/ Register(f) \/ PaneGoes(f)
           \/ (\E h \in hooks : HookLost(h)) \/ Stop \/ UNCHANGED vars
  <2>1. UNCHANGED <<running, results>>
    BY <1>5 DEF Program, FileWrite, Register, PaneGoes, HookLost, Stop, vars, poolVars
  <2> QED  BY <1>2, <2>1 DEF TakenStep
<1> QED  BY <1>3, <1>4, <1>5

LEMMA SameGrows ==
    ASSUME PathsInv, file' = file
    PROVE  Grown
<1>1. \A f \in Frames : file[f] \in Seq(Nat)
  BY DEF PathsInv
<1>2. \A f \in Frames : Len(file[f]) \in Nat /\ \A i \in 1 .. Len(file[f]) : file[f][i] \in Nat
  BY <1>1
<1> QED  BY <1>2 DEF Grown, PathsInv

LEMMA NextShown ==
    ASSUME InboxInv, JobInv, [Next]_vars
    PROVE  ShownStep /\ TakenStep /\ Grown
<1>0. PathsInv
  BY DEF JobInv
<1>1. CASE \/ TimePasses
           \/ \E f \in Frames : PeerSend(f) \/ DrainInbox(f) \/ Push(f) \/ Evict(f)
  <2>1. LivesStep /\ UNCHANGED <<running, results, file>>
    BY <1>1, AgentsAssumption, LivesStepIs
  <2>2. TakenStep
    BY <2>1 DEF TakenStep
  <2> QED  BY <1>0, <2>1, <2>2, LivesShown, SameGrows
<1>2. CASE \/ \E h \in hooks : DriverHook(h)
           \/ Tick \/ PaneActivity \/ FileChanged \/ JobResult
           \/ \E title \in Titles : PaneOsc(title)
  <2>1. PathsInv /\ results \in Seq(Job)
    BY DEF JobInv, PoolOk
  <2>2. LoopStep
    BY <1>2, <2>1, LoopStepIs
  <2> QED  BY <1>0, <2>2, LoopShown, SameGrows
<1>3. CASE Exit \/ Restart
  BY <1>0, <1>3, DaemonShown, SameGrows
<1>4. CASE \E f \in Frames : Program(f) \/ FileWrite(f)
  BY <1>0, <1>4, PoolShown, ProgramGrows, WriteGrows
<1>5. CASE \/ Take \/ \E job \in running : Send(job) \/ WorkerQuits(job)
           \/ (\E h \in hooks : HookLost(h)) \/ Stop \/ UNCHANGED vars
           \/ \E f \in Frames : Register(f) \/ PaneGoes(f)
  <2>1. file' = file
    BY <1>5 DEF Take, Send, WorkerQuits, HookLost, Stop, Register, PaneGoes, vars, fileVars
  <2> QED  BY <1>0, <1>5, <2>1, PoolShown, SameGrows
<1> QED  BY <1>1, <1>2, <1>3, <1>4, <1>5 DEF Next

LEMMA ShownAlways == Spec => []ShownInv
<1>1. Init => ShownInv
  <2>1. Range(<< >>) = {}
    BY DEF Range
  <2> QED  BY <2>1 DEF Init, ShownInv, Live
<1>2. InboxInv /\ JobInv /\ JobInv' /\ ShownInv /\ [Next]_vars => ShownInv'
  BY NextShown, ShownStays
<1> QED  BY <1>1, <1>2, InboxAlways, JobAlways, PTL DEF Spec

\* What a frame shows of one transcript never goes back: the flag lets one parse
\* of a frame into the pool at a time, and a transcript only grows.
THEOREM ShownTheorem == Spec => ShownForward
<1>1. InboxInv /\ JobInv /\ JobInv' /\ ShownInv /\ [Next]_vars
        => [\A f \in Frames : (Live(f) /\ Live(f)' /\ frames[f].shown.path = frames'[f].shown.path)
                                => frames'[f].shown.ver >= frames[f].shown.ver]_vars
  BY NextShown, ShownStays
<1> QED  BY <1>1, InboxAlways, JobAlways, ShownAlways, PTL DEF Spec, ShownForward

-----------------------------------------------------------------------------
(***************************************************************************)
(* 13. Approved calls.  A prompt counts from the moment it is shown: then  *)
(* its hook is on its way, then a pending call is marked, then the call is *)
(* logged as approved.  A frame has never more of the three together than  *)
(* its program showed prompts.                                             *)
(***************************************************************************)
Pending(st) == IF st \in {Gone, Unborn} THEN {} ELSE Marked(st.tools)
Approved(log, f) == {e \in log : e.frame = f /\ e.kind = "approved"}
Asking(hs, f) == {h \in hs : h.frame = f /\ h.event = "ask"}

Within(P, A, K, n) ==
  /\ IsFiniteSet(P) /\ IsFiniteSet(A) /\ IsFiniteSet(K) /\ n \in Nat
  /\ Cardinality(P) + Cardinality(A) + Cardinality(K) <= n

PromptInv ==
  /\ call = [f \in Frames |-> call[f]]
  /\ \A f \in Frames : DOMAIN call[f] = {"last", "open", "asked"}
  /\ \A f \in Frames : Within(Pending(frames[f]), Approved(toolLog, f), Asking(hooks, f), call[f].asked)

LEMMA FewerElements ==
    ASSUME NEW S, IsFiniteSet(S), NEW T, NEW x
    PROVE  /\ T \subseteq S => IsFiniteSet(T) /\ Cardinality(T) <= Cardinality(S)
           /\ T \subseteq S \union {x} => IsFiniteSet(T) /\ Cardinality(T) <= Cardinality(S) + 1
           /\ (x \in S /\ T \subseteq S \ {x}) => IsFiniteSet(T) /\ Cardinality(T) + 1 <= Cardinality(S)
           /\ T \subseteq S \union {x} => Cardinality(T) \in Nat
           /\ Cardinality(S) \in Nat
<1>1. Cardinality(S) \in Nat
  BY FS_CardinalityType
<1>2. ASSUME T \subseteq S
      PROVE  IsFiniteSet(T) /\ Cardinality(T) <= Cardinality(S)
  BY <1>2, FS_Subset
<1>3. IsFiniteSet(S \union {x}) /\ Cardinality(S \union {x}) \in {Cardinality(S), Cardinality(S) + 1}
  BY FS_AddElement
<1>4. ASSUME T \subseteq S \union {x}
      PROVE  IsFiniteSet(T) /\ Cardinality(T) <= Cardinality(S) + 1 /\ Cardinality(T) \in Nat
  <2>1. IsFiniteSet(T) /\ Cardinality(T) <= Cardinality(S \union {x})
    BY <1>3, <1>4, FS_Subset
  <2>2. Cardinality(T) \in Nat
    BY <2>1, FS_CardinalityType
  <2> QED  BY <1>1, <1>3, <2>1, <2>2
<1>5. ASSUME x \in S, T \subseteq S \ {x}
      PROVE  IsFiniteSet(T) /\ Cardinality(T) + 1 <= Cardinality(S)
  <2>1. IsFiniteSet(S \ {x}) /\ Cardinality(S \ {x}) = Cardinality(S) - 1
    BY <1>5, FS_RemoveElement
  <2>2. IsFiniteSet(T) /\ Cardinality(T) <= Cardinality(S \ {x})
    BY <1>5, <2>1, FS_Subset
  <2>3. Cardinality(T) \in Nat
    BY <2>2, FS_CardinalityType
  <2> QED  BY <1>1, <2>1, <2>2, <2>3
<1> QED  BY <1>1, <1>2, <1>4, <1>5

\* A prompt is shown, arrives and ends as an approval, or is forgotten.
LEMMA WithinStill ==
    ASSUME NEW P, NEW A, NEW K, NEW n, Within(P, A, K, n), NEW Q, NEW B, NEW L, NEW m,
           \/ Q \subseteq P /\ B \subseteq A /\ L \subseteq K /\ m = n
           \/ (\E h : L \subseteq K \union {h}) /\ Q \subseteq P /\ B \subseteq A /\ m = n + 1
           \/ /\ \E h \in K : L \subseteq K \ {h}
              /\ \E x : Q \subseteq P \union {x}
              /\ B \subseteq A /\ m = n
           \/ /\ \E x \in P : Q \subseteq P \ {x}
              /\ \E e : B \subseteq A \union {e}
              /\ L \subseteq K /\ m = n
    PROVE  Within(Q, B, L, m)
<1>1. /\ IsFiniteSet(P) /\ IsFiniteSet(A) /\ IsFiniteSet(K) /\ n \in Nat
      /\ Cardinality(P) + Cardinality(A) + Cardinality(K) <= n
      /\ Cardinality(P) \in Nat /\ Cardinality(A) \in Nat /\ Cardinality(K) \in Nat
  BY FewerElements DEF Within
<1>2. m \in Nat
  BY <1>1
<1>3. Q \subseteq P => IsFiniteSet(Q) /\ Cardinality(Q) \in Nat /\ Cardinality(Q) <= Cardinality(P)
  BY <1>1, FewerElements
<1>4. B \subseteq A => IsFiniteSet(B) /\ Cardinality(B) \in Nat /\ Cardinality(B) <= Cardinality(A)
  BY <1>1, FewerElements
<1>5. L \subseteq K => IsFiniteSet(L) /\ Cardinality(L) \in Nat /\ Cardinality(L) <= Cardinality(K)
  BY <1>1, FewerElements
<1>6. CASE Q \subseteq P /\ B \subseteq A /\ L \subseteq K /\ m = n
  BY <1>1, <1>2, <1>3, <1>4, <1>5, <1>6 DEF Within
<1>7. CASE (\E h : L \subseteq K \union {h}) /\ Q \subseteq P /\ B \subseteq A /\ m = n + 1
  <2>1. IsFiniteSet(L) /\ Cardinality(L) \in Nat /\ Cardinality(L) <= Cardinality(K) + 1
    BY <1>1, <1>7, FewerElements
  <2> QED  BY <1>1, <1>2, <1>3, <1>4, <1>7, <2>1 DEF Within
<1>8. CASE /\ \E h \in K : L \subseteq K \ {h}
           /\ \E x : Q \subseteq P \union {x}
           /\ B \subseteq A /\ m = n
  <2>1. PICK h \in K : L \subseteq K \ {h}
    BY <1>8
  <2>2. IsFiniteSet(L) /\ Cardinality(L) + 1 <= Cardinality(K) /\ L \subseteq K
    BY <1>1, <2>1, FewerElements
  <2>3. IsFiniteSet(Q) /\ Cardinality(Q) \in Nat /\ Cardinality(Q) <= Cardinality(P) + 1
    BY <1>1, <1>8, FewerElements
  <2> QED  BY <1>1, <1>2, <1>4, <1>5, <1>8, <2>2, <2>3 DEF Within
<1>9. CASE /\ \E x \in P : Q \subseteq P \ {x}
           /\ \E e : B \subseteq A \union {e}
           /\ L \subseteq K /\ m = n
  <2>1. PICK x \in P : Q \subseteq P \ {x}
    BY <1>9
  <2>2. IsFiniteSet(Q) /\ Cardinality(Q) + 1 <= Cardinality(P) /\ Q \subseteq P
    BY <1>1, <2>1, FewerElements
  <2>3. IsFiniteSet(B) /\ Cardinality(B) \in Nat /\ Cardinality(B) <= Cardinality(A) + 1
    BY <1>1, <1>9, FewerElements
  <2> QED  BY <1>1, <1>2, <1>3, <1>5, <1>9, <2>2, <2>3 DEF Within
<1> QED  BY <1>6, <1>7, <1>8, <1>9

\* Steps that show no prompt, answer none and log nothing.
LEMMA PromptStays ==
    ASSUME PromptInv, call' = call, toolLog' = toolLog, hooks' \subseteq hooks,
           \A f \in Frames : Pending(frames'[f]) \subseteq Pending(frames[f])
    PROVE  PromptInv'
<1> SUFFICES ASSUME NEW f \in Frames
             PROVE  Within(Pending(frames'[f]), Approved(toolLog', f), Asking(hooks', f), call'[f].asked)
  BY DEF PromptInv
<1>1. Within(Pending(frames[f]), Approved(toolLog, f), Asking(hooks, f), call[f].asked)
  BY DEF PromptInv
<1>2. Asking(hooks', f) \subseteq Asking(hooks, f) /\ Approved(toolLog', f) \subseteq Approved(toolLog, f)
  BY DEF Asking, Approved
<1> QED  BY <1>1, <1>2, WithinStill

\* A step of a driver.
LEMMA StepDriverPrompts ==
    ASSUME InboxInv, PromptInv, call' = call, NEW f, Live(f), NEW t, NEW table, NEW more,
           StepDriver(f, t, table, more),
           \/ Quiet(frames[f], t) /\ hooks' = hooks
           \/ \E h \in hooks : h.frame = f /\ hooks' = hooks \ {h} /\ Logged(frames[f], t, h)
    PROVE  PromptInv'
<1>1. f \in Frames /\ frames[f].log = {} /\ IsState(t)
  BY DEF Live, InboxInv, FrameOk, Quiet, Logged, Kept
<1>2. /\ \A g \in Frames \ {f} : frames'[g] = frames[g]
      /\ frames'[f] \notin {Gone, Unborn} /\ frames'[f].tools = t.tools
      /\ toolLog' = toolLog \union t.log
  BY <1>1, StepDriverState
<1>3. Pending(frames'[f]) = Marked(t.tools) /\ Pending(frames[f]) = Marked(frames[f].tools)
  BY <1>2 DEF Pending, Live
<1>4. \A g \in Frames : Within(Pending(frames[g]), Approved(toolLog, g), Asking(hooks, g), call[g].asked)
  BY DEF PromptInv
<1>5. \A g : Asking(hooks', g) \subseteq Asking(hooks, g)
  BY DEF Asking
<1>6. ASSUME NEW g \in Frames, g # f
      PROVE  Within(Pending(frames'[g]), Approved(toolLog', g), Asking(hooks', g), call'[g].asked)
  <2>1. \A e \in t.log : e.frame = f
    BY <1>1 DEF Quiet, Logged
  <2>2. Approved(toolLog', g) \subseteq Approved(toolLog, g)
    BY <1>2, <1>6, <2>1 DEF Approved
  <2>3. Pending(frames'[g]) = Pending(frames[g])
    BY <1>2, <1>6
  <2> QED  BY <1>4, <1>5, <2>2, <2>3, WithinStill
<1>7. Within(Pending(frames'[f]), Approved(toolLog', f), Asking(hooks', f), call'[f].asked)
  <2> DEFINE P == Pending(frames[f])
             Q == Pending(frames'[f])
             A == Approved(toolLog, f)
             B == Approved(toolLog', f)
             K == Asking(hooks, f)
             L == Asking(hooks', f)
  <2>1. Within(P, A, K, call[f].asked) /\ L \subseteq K /\ call'[f].asked = call[f].asked
    BY <1>1, <1>4, <1>5
  <2>2. (\A e \in t.log : e.kind # "approved") => B \subseteq A
    BY <1>2 DEF Approved
  <2>3. \A e : t.log = {e} => B \subseteq A \union {e}
    BY <1>2 DEF Approved
  <2>4. \/ Q \subseteq P /\ \A e \in t.log : e.kind # "approved"
        \/ /\ t.log = {} /\ \E x : Q \subseteq P \union {x}
           /\ \E h \in hooks : h.frame = f /\ h.event = "ask" /\ hooks' = hooks \ {h}
        \/ (\E x \in P : Q \subseteq P \ {x}) /\ \E e : t.log = {e}
    <3>1. CASE Quiet(frames[f], t)
      BY <1>1, <1>3, <3>1 DEF Quiet
    <3>2. CASE \E h \in hooks : h.frame = f /\ hooks' = hooks \ {h} /\ Logged(frames[f], t, h)
      BY <1>3, <3>2 DEF Logged
    <3> QED  BY <3>1, <3>2
  <2>5. ASSUME NEW h \in hooks, h.frame = f, h.event = "ask", hooks' = hooks \ {h}
        PROVE  h \in K /\ L \subseteq K \ {h}
    BY <2>5 DEF Asking
  <2> HIDE DEF P, Q, A, B, K, L
  <2>6. CASE Q \subseteq P /\ \A e \in t.log : e.kind # "approved"
    <3>1. Within(Q, B, L, call'[f].asked)
      BY <2>1, <2>2, <2>6, WithinStill
    <3> QED  BY <3>1 DEF Q, B, L
  <2>7. CASE /\ t.log = {} /\ \E x : Q \subseteq P \union {x}
             /\ \E h \in hooks : h.frame = f /\ h.event = "ask" /\ hooks' = hooks \ {h}
    <3>1. B \subseteq A /\ \E h \in K : L \subseteq K \ {h}
      BY <2>2, <2>5, <2>7
    <3>2. Within(Q, B, L, call'[f].asked)
      BY <2>1, <2>7, <3>1, WithinStill
    <3> QED  BY <3>2 DEF Q, B, L
  <2>8. CASE (\E x \in P : Q \subseteq P \ {x}) /\ \E e : t.log = {e}
    <3>1. \E e : B \subseteq A \union {e}
      BY <2>3, <2>8
    <3>2. Within(Q, B, L, call'[f].asked)
      BY <2>1, <2>8, <3>1, WithinStill
    <3> QED  BY <3>2 DEF Q, B, L
  <2> QED  BY <2>4, <2>6, <2>7, <2>8
<1> QED  BY <1>6, <1>7 DEF PromptInv

LEMMA DriverStepsPrompts ==
    ASSUME InboxInv, PromptInv,
           \/ \E h \in hooks : DriverHook(h)
           \/ Tick \/ PaneActivity \/ FileChanged \/ JobResult
           \/ \E title : PaneOsc(title)
    PROVE  PromptInv'
<1>1. \A f : Live(f) => IsState(frames[f]) /\ frames[f].log = {}
  BY DEF InboxInv, FrameOk, Live
<1>2. ASSUME call' = call, hooks' = hooks,
             \/ UNCHANGED <<frames, toolLog>>
             \/ \E f, t, table, more : /\ Live(f) /\ Quiet(frames[f], t)
                                       /\ StepDriver(f, t, table, more)
      PROVE  PromptInv'
  <2>1. CASE UNCHANGED <<frames, toolLog>>
    BY <1>2, <2>1, PromptStays
  <2>2. CASE \E f, t, table, more : /\ Live(f) /\ Quiet(frames[f], t)
                                    /\ StepDriver(f, t, table, more)
    BY <1>2, <2>2, StepDriverPrompts
  <2> QED  BY <1>2, <2>1, <2>2
<1>3. ASSUME NEW h \in hooks, DriverHook(h)
      PROVE  PromptInv'
  <2> DEFINE f == h.frame
             t == Hook(frames[f], h, f = Root)
  <2>1. call' = call /\ hooks' = hooks \ {h}
    BY <1>3 DEF DriverHook
  <2>2. CASE Live(f)
    <3>1. StepDriver(f, t, known, << >>)
      BY <1>3, <2>2 DEF DriverHook
    <3>2. Logged(frames[f], t, h)
      BY <1>1, <2>2, HookLogged
    <3> HIDE DEF t
    <3> QED  BY <2>1, <2>2, <3>1, <3>2, StepDriverPrompts
  <2>3. CASE ~Live(f)
    <3>1. UNCHANGED <<frames, toolLog>>
      BY <1>3, <2>3 DEF DriverHook
    <3> QED  BY <2>1, <3>1, PromptStays
  <2> QED  BY <2>2, <2>3
<1>4. ASSUME Tick
      PROVE  PromptInv'
  <2>1. call' = call /\ hooks' = hooks
    BY <1>4 DEF Tick, programVars
  <2>2. CASE Live(Root)
    <3>1. PICK active \in BOOLEAN, due \in BOOLEAN, stride \in BOOLEAN, old \in BOOLEAN :
            StepDriver(Root, Ticked(frames[Root], active, due, stride), known,
                       IF GithubStepTick(old) THEN FetchJob ELSE << >>)
      BY <1>4, <2>2 DEF Tick
    <3>2. Quiet(frames[Root], Ticked(frames[Root], active, due, stride))
      BY <1>1, <2>2, TickQuiet
    <3> QED  BY <1>2, <2>1, <2>2, <3>1, <3>2
  <2>3. CASE ~Live(Root)
    BY <1>2, <1>4, <2>1, <2>3 DEF Tick
  <2> QED  BY <2>2, <2>3
<1>5. ASSUME PaneActivity
      PROVE  PromptInv'
  <2>1. Quiet(frames[Root], HandleActivity(frames[Root]))
    BY <1>1, <1>5, ScreenQuiet DEF PaneActivity
  <2>2. /\ call' = call /\ hooks' = hooks /\ Live(Root)
        /\ StepDriver(Root, HandleActivity(frames[Root]), known, << >>)
    BY <1>5 DEF PaneActivity, programVars
  <2> QED  BY <1>2, <2>1, <2>2
<1>6. ASSUME NEW title, PaneOsc(title)
      PROVE  PromptInv'
  <2>1. Quiet(frames[Root], HandleWindowTitle(frames[Root], title))
    BY <1>1, <1>6, ScreenQuiet DEF PaneOsc
  <2>2. /\ call' = call /\ hooks' = hooks /\ Live(Root)
        /\ StepDriver(Root, HandleWindowTitle(frames[Root], title), known, << >>)
    BY <1>6 DEF PaneOsc, programVars
  <2> QED  BY <1>2, <2>1, <2>2
<1>7. ASSUME FileChanged
      PROVE  PromptInv'
  <2> DEFINE e == Head(events)
  <2>1. call' = call /\ hooks' = hooks
    BY <1>7 DEF FileChanged, programVars
  <2>2. CASE Live(e.frame)
    <3>1. StepDriver(e.frame, HandleTranscriptChanged(frames[e.frame], e.path), known, << >>)
      BY <1>7, <2>2 DEF FileChanged
    <3>2. Quiet(frames[e.frame], HandleTranscriptChanged(frames[e.frame], e.path))
      BY <1>1, <2>2, ScreenQuiet
    <3> QED  BY <1>2, <2>1, <2>2, <3>1, <3>2
  <2>3. CASE ~Live(e.frame)
    BY <1>2, <1>7, <2>1, <2>3 DEF FileChanged
  <2> QED  BY <2>2, <2>3
<1>8. ASSUME JobResult
      PROVE  PromptInv'
  <2> DEFINE job == Head(results)
  <2>1. call' = call /\ hooks' = hooks
    BY <1>8 DEF JobResult, programVars
  <2>2. CASE Live(job.frame) /\ job.kind # "fetch"
    <3>1. PICK r \in Outcomes(job, frames[job.frame].driver) :
            StepDriver(job.frame, HandleJobResult(frames[job.frame], r, job), Struck(job), << >>)
      BY <1>8, <2>2 DEF JobResult
    <3>2. Quiet(frames[job.frame], HandleJobResult(frames[job.frame], r, job))
      BY <1>1, <2>2, ResultQuiet
    <3> QED  BY <1>2, <2>1, <2>2, <3>1, <3>2
  <2>3. CASE ~(Live(job.frame) /\ job.kind # "fetch")
    BY <1>2, <1>8, <2>1, <2>3 DEF JobResult
  <2> QED  BY <2>2, <2>3
<1> QED  BY <1>3, <1>4, <1>5, <1>6, <1>7, <1>8

LEMMA ProgramPrompts ==
    ASSUME PromptInv, NEW f \in Frames, Program(f)
    PROVE  PromptInv'
<1>1. PICK m \in Moves : \E tool \in Tools(f, m[2]) :
        /\ call' = [call EXCEPT ![f] = Calls(f, m[2], tool)]
        /\ hooks' = hooks \union {[frame |-> f, event |-> m[2], at |-> clock + 1,
                                   path |-> Len(NextFile(f, m[2])), tool |-> tool]}
  BY DEF Program
<1>2. PICK tool :
        /\ call' = [call EXCEPT ![f] = Calls(f, m[2], tool)]
        /\ hooks' = hooks \union {[frame |-> f, event |-> m[2], at |-> clock + 1,
                                   path |-> Len(NextFile(f, m[2])), tool |-> tool]}
  BY <1>1
<1> DEFINE h == [frame |-> f, event |-> m[2], at |-> clock + 1,
                 path |-> Len(NextFile(f, m[2])), tool |-> tool]
           event == m[2]
<1>3. hooks' = hooks \union {h} /\ h.frame = f /\ h.event = event
  BY <1>2
<1> HIDE DEF h
<1>4. UNCHANGED <<frames, toolLog>>
  BY DEF Program, stateVars, seenVars
<1>5. call' = [call EXCEPT ![f] = Calls(f, event, tool)]
  BY <1>2
<1> HIDE DEF event
<1>6. \A g \in Frames : /\ DOMAIN call[g] = {"last", "open", "asked"}
                        /\ Within(Pending(frames[g]), Approved(toolLog, g), Asking(hooks, g), call[g].asked)
  BY DEF PromptInv
<1>7. /\ DOMAIN Calls(f, event, tool) = {"last", "open", "asked"}
      /\ Calls(f, event, tool).asked = IF event = "ask" THEN call[f].asked + 1 ELSE call[f].asked
  BY <1>6 DEF Calls
<1>8. /\ call' = [g \in Frames |-> call'[g]] /\ call'[f] = Calls(f, event, tool)
      /\ \A g \in Frames \ {f} : call'[g] = call[g]
  BY <1>5 DEF PromptInv
<1>9. Within(Pending(frames[f]), Approved(toolLog, f), Asking(hooks', f), call'[f].asked)
  <2>1. CASE event = "ask"
    <3>1. Asking(hooks', f) \subseteq Asking(hooks, f) \union {h}
      BY <1>3 DEF Asking
    <3>2. call'[f].asked = call[f].asked + 1
      BY <1>7, <1>8, <2>1
    <3> QED  BY <1>6, <3>1, <3>2, WithinStill
  <2>2. CASE event # "ask"
    <3>1. Asking(hooks', f) \subseteq Asking(hooks, f)
      BY <1>3, <2>2 DEF Asking
    <3>2. call'[f].asked = call[f].asked
      BY <1>7, <1>8, <2>2
    <3> QED  BY <1>6, <3>1, <3>2, WithinStill
  <2> QED  BY <2>1, <2>2
<1>10. ASSUME NEW g \in Frames, g # f
       PROVE  Within(Pending(frames[g]), Approved(toolLog, g), Asking(hooks', g), call'[g].asked)
  <2>1. Asking(hooks', g) = Asking(hooks, g)
    BY <1>3, <1>10 DEF Asking
  <2> QED  BY <1>6, <1>8, <1>10, <2>1
<1>11. \A g \in Frames : DOMAIN call'[g] = {"last", "open", "asked"}
  BY <1>6, <1>7, <1>8
<1> QED  BY <1>4, <1>8, <1>9, <1>10, <1>11 DEF PromptInv

LEMMA LivesPrompts ==
    ASSUME InboxInv, PromptInv, AgentsAssumption,
           \/ TimePasses
           \/ \E f \in Frames : PeerSend(f) \/ DrainInbox(f) \/ Push(f) \/ Evict(f)
    PROVE  PromptInv'
<1>1. LivesStep /\ UNCHANGED <<hooks, call, toolLog>>
  BY LivesStepIs
<1>2. \A d : NewState(d).tools = << >>
  BY DEF NewState
<1>3. Marked(<< >>) = {}
  BY MarkedAre
<1>4. \A f \in Frames : Pending(frames'[f]) \subseteq Pending(frames[f])
  <2> TAKE f \in Frames
  <2>1. CASE frames'[f] = frames[f] \/ frames'[f] = Gone
    BY <2>1 DEF Pending
  <2>2. CASE Live(f) /\ frames'[f].tools = frames[f].tools
    BY <2>2 DEF Pending, Live
  <2>3. CASE \E d : frames'[f] = NewState(d)
    BY <1>2, <1>3, <2>3 DEF Pending
  <2> QED  BY <1>1, <2>1, <2>2, <2>3 DEF LivesStep
<1> QED  BY <1>1, <1>4, PromptStays

LEMMA DaemonPrompts ==
    ASSUME InboxInv, PromptInv, Exit \/ Restart
    PROVE  PromptInv'
<1>1. UNCHANGED <<hooks, call, toolLog>>
  BY DEF Exit, Restart, programVars, seenVars
<1>2. ASSUME Exit, NEW f \in Frames
      PROVE  Pending(frames'[f]) \subseteq Pending(frames[f])
  <2>1. frames'[f] = IF Live(f) THEN Restored(frames[f], Second) ELSE frames[f]
    BY <1>2 DEF Exit
  <2>2. \A st : Restored(st, Second).tools = << >>
    BY DEF Restored, NewState
  <2>3. Marked(<< >>) = {}
    BY MarkedAre
  <2> QED  BY <2>1, <2>2, <2>3 DEF Pending
<1>3. ASSUME Restart, NEW f \in Frames
      PROVE  Pending(frames'[f]) \subseteq Pending(frames[f])
  <2> DEFINE live == {g \in Frames : Live(g)} \ Cut
             next == [g \in live |-> WarmStartRecover(frames[g])]
             back == [next[f] EXCEPT !.jobs = {}, !.watch = FALSE]
  <2>1. frames'[f] = IF f \in live THEN back ELSE IF f \in Cut THEN Gone ELSE frames[f]
    BY <1>3 DEF Restart
  <2>2. CASE f \in live
    <3>1. IsState(frames[f]) /\ Live(f)
      BY <2>2 DEF InboxInv, FrameOk, Live
    <3>2. Quiet(frames[f], next[f])
      BY <2>2, <3>1, ScreenQuiet
    <3>3. frames'[f] = back
      BY <2>1, <2>2
    <3> HIDE DEF next
    <3>4. back.tools = frames[f].tools
      BY <3>2 DEF Quiet, Kept, IsState, Fields
    <3> HIDE DEF back
    <3> QED  BY <3>1, <3>3, <3>4 DEF Pending, Live
  <2>3. CASE f \notin live
    BY <2>1, <2>3 DEF Pending, Gone
  <2> QED  BY <2>2, <2>3
<1> QED  BY <1>1, <1>2, <1>3, PromptStays

LEMMA PromptInit == Init => PromptInv
<1> SUFFICES ASSUME Init, NEW f \in Frames
             PROVE  /\ DOMAIN call[f] = {"last", "open", "asked"}
                    /\ Within(Pending(frames[f]), Approved(toolLog, f), Asking(hooks, f), call[f].asked)
  BY DEF Init, PromptInv
<1>1. call[f].asked = 0 /\ DOMAIN call[f] = {"last", "open", "asked"}
  BY DEF Init
<1>2. Pending(frames[f]) = {} /\ Approved(toolLog, f) = {} /\ Asking(hooks, f) = {}
  BY DEF Init, Pending, Approved, Asking
<1> QED  BY <1>1, <1>2, FS_EmptySet DEF Within

LEMMA PromptStep ==
    ASSUME InboxInv, PromptInv, [Next]_vars
    PROVE  PromptInv'
<1>1. CASE \/ TimePasses
           \/ \E f \in Frames : PeerSend(f) \/ DrainInbox(f) \/ Push(f) \/ Evict(f)
  BY <1>1, AgentsAssumption, LivesPrompts
<1>2. CASE \/ \E h \in hooks : DriverHook(h)
           \/ Tick \/ PaneActivity \/ FileChanged \/ JobResult
           \/ \E title \in Titles : PaneOsc(title)
  BY <1>2, DriverStepsPrompts
<1>3. CASE Exit \/ Restart
  BY <1>3, DaemonPrompts
<1>4. CASE \E f \in Frames : Program(f)
  BY <1>4, ProgramPrompts
<1>5. CASE \/ \E f \in Frames : FileWrite(f) \/ Register(f) \/ PaneGoes(f)
           \/ \E h \in hooks : HookLost(h)
           \/ Take \/ \E job \in running : Send(job) \/ WorkerQuits(job)
           \/ Stop \/ UNCHANGED vars
  <2>1. UNCHANGED <<frames, call, toolLog>> /\ hooks' \subseteq hooks
    BY <1>5 DEF FileWrite, Register, PaneGoes, HookLost, Take, Send, WorkerQuits, Stop, vars, stateVars,
                programVars, seenVars
  <2> QED  BY <2>1, PromptStays
<1> QED  BY <1>1, <1>2, <1>3, <1>4, <1>5 DEF Next

LEMMA PromptAlways == Spec => []PromptInv
<1>1. Init => PromptInv
  BY PromptInit
<1>2. InboxInv /\ PromptInv /\ [Next]_vars => PromptInv'
  BY PromptStep
<1> QED  BY <1>1, <1>2, InboxAlways, PTL DEF Spec

\* No call is logged as approved by the user (emitToolLog) unless a prompt of its
\* program is there to account for it, and none accounts for two: whatever calls
\* overlap, whichever hooks are late or lost, and wherever the daemon restarts.
THEOREM ApprovalsTheorem == Spec => []ApprovalsBounded
<1>1. PromptInv => ApprovalsBounded
  <2> SUFFICES ASSUME PromptInv, NEW f \in Frames
               PROVE  Cardinality(Approved(toolLog, f)) <= call[f].asked
    BY DEF ApprovalsBounded, Approved
  <2>1. Within(Pending(frames[f]), Approved(toolLog, f), Asking(hooks, f), call[f].asked)
    BY DEF PromptInv
  <2> HIDE DEF Approved
  <2> QED  BY <2>1, FewerElements DEF Within
<1> QED  BY <1>1, PromptAlways, PTL

=============================================================================
