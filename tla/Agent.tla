-------------------------------- MODULE Agent --------------------------------
(***************************************************************************)
(* The drivers (package driver): the private state a frame's driver keeps  *)
(* and what each of its handlers makes of it.  Everything here is a pure   *)
(* operator on one driver state, as Driver.Step is a pure function; module *)
(* Agents puts the states under the event loop, the worker pool, the file  *)
(* watcher and the agent programs that send the hooks.                     *)
(*                                                                         *)
(* A handler hands its effects back in the transient fields jobs (kinds of *)
(* job to start), watch (the transcript is to be watched) and log (entries *)
(* of the tool log), which Agents carries out and clears.                  *)
(*                                                                         *)
(* Times are kept as far as a decision depends on them: hookAt orders      *)
(* hooks; fresh says that neither the screen nor the status has been still *)
(* for longer than the hang (or idle) threshold.  Screens, titles, turns   *)
(* and summaries are not kept.                                             *)
(***************************************************************************)
EXTENDS Naturals, Sequences, FiniteSets, FiniteSetsExt, Functions, TLC

CONSTANT Kinds   \* the kinds of job whose life is followed

ASSUME KindsAssumption == Kinds \subseteq {"summary", "parse", "branch", "capture"}

Polling == {"generic", "shell"}   \* they know the program by its screen alone
DriverNames == {"claude", "codex", "gemini"} \union Polling
Statuses == {"running", "waiting", "idle", "stopped", "pending"}

Blocking(status) == status \in {"running", "waiting", "pending"}

\* The status each hook stands for; an event a driver does not name changes none.
ClaudeStatus == [start |-> "idle", prompt |-> "running", pre |-> "running", post |-> "running",
                 ask |-> "pending", nudge |-> "waiting", stop |-> "waiting", end |-> "stopped"]

CodexStatus == [start |-> "idle", prompt |-> "running", pre |-> "running", post |-> "running",
                stop |-> "waiting"]

GeminiStatus == [start |-> "idle", prompt |-> "running", pre |-> "running", post |-> "running",
                 ask |-> "pending", stop |-> "waiting", end |-> "stopped"]

StatusOf == [claude |-> ClaudeStatus, codex |-> CodexStatus, gemini |-> GeminiStatus,
             generic |-> << >>, shell |-> << >>]

NewState(driver) ==
  [driver |-> driver, status |-> IF driver \in Polling THEN "waiting" ELSE "idle",
   hookAt |-> 0, primed |-> FALSE, osc |-> FALSE, fresh |-> TRUE, hang |-> FALSE, busy |-> FALSE,
   flight |-> {}, tools |-> << >>, title |-> "", path |-> 0, watched |-> 0,
   shown |-> [path |-> 0, ver |-> 0], inbox |-> << >>,
   jobs |-> {}, watch |-> FALSE, log |-> {}]

----------------------------------------------------------------------------
(* The steps the handlers share.                                           *)

\* Mutant: the guard on the flag is missing.
Launch_Again(st, kind) ==
  IF kind \in Kinds
  THEN [st EXCEPT !.flight = @ \union {kind}, !.jobs = @ \union {kind}]
  ELSE st

Launch(st, kind) ==
  IF kind \in Kinds \ st.flight
  THEN [st EXCEPT !.flight = @ \union {kind}, !.jobs = @ \union {kind}]
  ELSE st

Landed(st, kind) == [st EXCEPT !.flight = @ \ {kind}]

LaunchParse(st) == IF st.path = 0 THEN st ELSE Launch(st, "parse")

Watch(st) ==
  IF st.path \in {0, st.watched} THEN st ELSE [st EXCEPT !.watched = st.path, !.watch = TRUE]

WithStatus(st, status) == [st EXCEPT !.status = status, !.fresh = TRUE]

ResetHangDetection(st) == [st EXCEPT !.hang = FALSE, !.primed = FALSE]

\* Mutant: hooks are taken as they come.
Stale_Never(st, h) == FALSE

Stale(st, h) == h.at <= st.hookAt

Accepted(st, h) == [ResetHangDetection(st) EXCEPT !.hookAt = h.at]

----------------------------------------------------------------------------
(* Hooks.                                                                  *)

\* Mutant: a Post finds its mark in any pending call.
ToolLog_AnyMark(st, h) ==
  LET unmarked == {t \in DOMAIN st.tools : ~st.tools[t]} IN
  CASE h.event = "pre" -> [st EXCEPT !.tools = (h.tool :> \E t \in DOMAIN @ : @[t]) @@ @]
    [] h.event = "ask" /\ unmarked # {} -> [st EXCEPT !.tools[Min(unmarked)] = TRUE]
    [] h.event = "post" ->
         [st EXCEPT !.tools = RestrictDomain(@, LAMBDA t : t # h.tool),
                    !.log = {[frame |-> h.frame, tool |-> h.tool,
                              kind |-> IF \E t \in DOMAIN st.tools : st.tools[t]
                                       THEN "approved" ELSE "auto"]}]
    [] OTHER -> st

\* The tool log keeps a call from its Pre to its Post.  A permission prompt
\* names no call: the oldest one not yet marked is taken to be asked about.
ToolLog(st, h) ==
  LET unmarked == {t \in DOMAIN st.tools : ~st.tools[t]} IN
  CASE h.event = "pre" ->
         [st EXCEPT !.tools = [t \in DOMAIN @ \union {h.tool} |-> t # h.tool /\ @[t]]]
    [] h.event = "ask" /\ unmarked # {} -> [st EXCEPT !.tools[Min(unmarked)] = TRUE]
    [] h.event = "post" ->
         [st EXCEPT !.tools = RestrictDomain(@, LAMBDA t : t # h.tool),
                    !.log = {[frame |-> h.frame, tool |-> h.tool,
                              kind |-> IF h.tool \notin DOMAIN st.tools THEN "orphan"
                                       ELSE IF st.tools[h.tool] THEN "approved" ELSE "auto"]}]
    [] h.event = "failure" ->
         [st EXCEPT !.tools = RestrictDomain(@, LAMBDA t : t # h.tool),
                    !.log = {[frame |-> h.frame, tool |-> h.tool, kind |-> "failed"]}]
    [] h.event = "end" -> [st EXCEPT !.tools = << >>]
    [] OTHER -> st

\* SessionStart is taken whatever its time: it resets the order as well.
ClaudeStart(st, h, root) ==
  LET a == [WithStatus(Accepted(st, h), "idle") EXCEPT !.tools = << >>, !.path = h.path]
      b == IF a.watched = a.path THEN a ELSE LaunchParse(Watch(a))
  IN IF root THEN Launch(b, "branch") ELSE b

ClaudePrompt(st, h) ==
  LaunchParse(Launch([WithStatus(st, "running") EXCEPT !.path = h.path], "summary"))

\* Calls of the Agent tool and subagent hooks are logged and leave the status.
ClaudeOther(st, h) ==
  LET a == ToolLog(st, h) IN
  IF h.event \in DOMAIN StatusOf.claude
  THEN LaunchParse([WithStatus(a, StatusOf.claude[h.event]) EXCEPT !.path = h.path])
  ELSE a

ClaudeHook(st, h, root) ==
  CASE h.event = "start" -> ClaudeStart(st, h, root)
    [] h.event # "start" /\ Stale(st, h) -> st
    [] h.event = "prompt" /\ ~Stale(st, h) -> ClaudePrompt(Accepted(st, h), h)
    [] h.event = "subagent" /\ ~Stale(st, h) -> Accepted(st, h)
    [] OTHER -> ClaudeOther(Accepted(st, h), h)

HookStatus(st, h) ==
  IF h.event \in DOMAIN StatusOf[st.driver] THEN WithStatus(st, StatusOf[st.driver][h.event]) ELSE st

CodexHook(st, h, root) ==
  LET a == HookStatus(Watch([Accepted(st, h) EXCEPT !.path = h.path]), h) IN
  CASE Stale(st, h) -> st
    [] ~Stale(st, h) /\ h.event = "start" ->
         IF root THEN Launch(LaunchParse(a), "branch") ELSE LaunchParse(a)
    [] ~Stale(st, h) /\ h.event = "prompt" -> LaunchParse(Launch(a, "summary"))
    [] ~Stale(st, h) /\ h.event = "stop" -> LaunchParse(a)
    [] OTHER -> a

GeminiHook(st, h, root) ==
  LET a == HookStatus([Accepted(st, h) EXCEPT !.path = h.path], h) IN
  CASE Stale(st, h) -> st
    [] ~Stale(st, h) /\ h.event = "start" /\ root -> Launch(a, "branch")
    [] OTHER -> a

Hook(st, h, root) ==
  CASE st.driver = "claude" -> ClaudeHook(st, h, root)
    [] st.driver = "codex" -> CodexHook(st, h, root)
    [] st.driver = "gemini" -> GeminiHook(st, h, root)
    [] OTHER -> st

----------------------------------------------------------------------------
(* Ticks, screen activity and titles; only the root frame's driver reacts. *)

\* due: the branch is another directory's, or 30 seconds old; stride: this
\* tick is the frame's one in twelve.
CommonTick(st, active, due, stride) ==
  LET a == IF active /\ due THEN Launch(st, "branch") ELSE st
      b == IF ~active /\ st.status = "running" /\ (~st.primed \/ stride) THEN Launch(a, "capture") ELSE a
  IN CASE st.status \in {"idle", "stopped"} -> st
       [] st.status = "running" /\ st.primed /\ ~st.busy /\ ~st.fresh ->
            [WithStatus(b, "stopped") EXCEPT !.hang = TRUE]
       [] OTHER -> b

\* The polling drivers never set PaneHash: every tick in the background asks
\* for a capture, held back by the flag alone.
PollingTick(st, active, due) ==
  CASE ~active /\ st.status # "running" -> st
    [] ~active /\ st.status = "running" -> Launch(st, "capture")
    [] active /\ due -> Launch(st, "branch")
    [] OTHER -> st

Ticked(st, active, due, stride) ==
  IF st.driver \in Polling THEN PollingTick(st, active, due) ELSE CommonTick(st, active, due, stride)

HandleActivity(st) == IF st.status \in {"idle", "stopped"} THEN st ELSE Launch(st, "capture")

\* Claude alone reads the window title, and only a title that is new.
HandleWindowTitle(st, title) ==
  LET a == [st EXCEPT !.title = title] IN
  CASE st.driver # "claude" \/ title = st.title -> st
    [] title = "star" /\ st.driver = "claude" /\ title # st.title ->
         IF st.status = "waiting" THEN a ELSE WithStatus(a, "waiting")
    [] OTHER -> IF st.status \in {"idle", "waiting"} THEN WithStatus(a, "running") ELSE a

----------------------------------------------------------------------------
(* File changes and job results.                                           *)

HandleTranscriptChanged(st, path) ==
  CASE st.driver = "claude" ->
         LaunchParse(Watch(IF st.path = 0 THEN [st EXCEPT !.path = path] ELSE st))
    [] st.driver = "codex" /\ st.path \in {0, path} -> LaunchParse(Watch(st))
    [] OTHER -> st

\* Mutant: a capture that failed leaves its flag.
HandleCapture_Early(st, r) ==
  CASE r.err -> st
    [] ~r.err /\ (~st.primed \/ r.changed) -> [Landed(st, "capture") EXCEPT !.primed = TRUE, !.fresh = TRUE]
    [] OTHER -> Landed(st, "capture")

HandleCapture(st, r) ==
  LET a == Landed(st, "capture") IN
  IF r.err \/ (st.primed /\ ~r.changed) THEN a ELSE [a EXCEPT !.primed = TRUE, !.fresh = TRUE]

\* The first screen is the baseline; one that moved means running.
PollingBaseline(st, r) ==
  CASE ~st.primed -> [st EXCEPT !.primed = TRUE]
    [] OTHER -> [st EXCEPT !.fresh = TRUE, !.status = IF @ = "waiting" THEN "running" ELSE @]

IdleThresholdFallback(st) ==
  IF st.status = "running" /\ ~st.fresh THEN [st EXCEPT !.status = "waiting"] ELSE st

GenericCapture(st, r) ==
  IF ~st.primed \/ r.changed THEN PollingBaseline(st, r) ELSE IdleThresholdFallback(st)

\* Marks of the shell's own integration come first, and once there was one the
\* look of a prompt counts no more.
ShellCapture(st, r) ==
  CASE r.mark # "none" ->
         [st EXCEPT !.osc = TRUE, !.fresh = @ \/ r.changed,
                    !.status = CASE r.mark = "command" -> "running"
                                 [] r.mark = "complete" -> "waiting"
                                 [] OTHER -> @]
    [] r.mark = "none" /\ (~st.primed \/ r.changed) -> PollingBaseline(st, r)
    [] r.mark = "none" /\ st.primed /\ ~r.changed /\ st.status = "running" /\ ~st.osc /\ r.prompt ->
         [st EXCEPT !.status = "waiting"]
    [] OTHER -> IdleThresholdFallback(st)

\* The flag of the capture stays as it is.
PollingCapture(st, r) ==
  LET next == IF st.driver = "shell" THEN ShellCapture(st, r) ELSE GenericCapture(st, r) IN
  CASE r.err -> st
    [] ~r.err /\ next.status = "waiting" /\ st.status # "waiting" -> Launch(next, "summary")
    [] OTHER -> next

HandleParse(st, r, job) ==
  LET a == Landed(st, "parse") IN
  IF r.err THEN a ELSE [a EXCEPT !.shown = [path |-> job.path, ver |-> job.ver], !.busy = r.busy]

HandleJobResult(st, r, job) ==
  CASE job.kind \in {"summary", "branch"} -> Landed(st, job.kind)
    [] job.kind = "parse" -> HandleParse(st, r, job)
    [] job.kind = "capture" /\ st.driver \in Polling -> PollingCapture(st, r)
    [] OTHER -> HandleCapture(st, r)

----------------------------------------------------------------------------
(* What survives the daemon: Persist, Restore and WarmStartRecover.        *)

\* Saved times are cut to the second, and Claude's order of hooks, the pending
\* calls, the inbox and everything in flight are not saved at all.
Restored(st, second) ==
  [NewState(st.driver) EXCEPT
     !.status = st.status, !.fresh = st.fresh, !.path = st.path, !.shown = st.shown,
     !.osc = st.osc,
     !.hookAt = IF st.driver = "claude" THEN 0 ELSE second * (st.hookAt \div second)]

WarmStartRecover(st) ==
  IF st.driver \in {"claude", "codex"} THEN LaunchParse(Watch(st)) ELSE st

=============================================================================
