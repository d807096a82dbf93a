------------------------------- MODULE Agents --------------------------------
(***************************************************************************)
(* One session's frames and what moves their drivers: the hooks that agent *)
(* programs send, each by a process of its own; the worker pool with its   *)
(* bounded queue and the table of jobs in State; the watched transcripts;  *)
(* ticks, screen activity and window titles; messages between frames; the  *)
(* GitHub connector, which shares the pool; shutdown and warm restart.     *)
(*                                                                         *)
(* Only Root gets ticks, activity and titles.  A frame is a driver state   *)
(* (module Agent), Unborn or Gone.  Which pane is shown where is the       *)
(* business of module Roost: here a frame is pushed and evicted whole, and *)
(* its pane is registered later, and may vanish before the loop knows.     *)
(***************************************************************************)
EXTENDS Agent, SequencesExt

CONSTANTS Frames, Root,   \* frames of the session; its root
          Drivers,        \* the drivers the frames may have
          PoolSize,       \* workers of the pool
          QueueSize,      \* capacity of its queue and of its results channel
          Second,         \* hook times in one second of saved time
          MaxHooks, MaxLate,             \* bounds: hooks, and hooks on their way,
          MaxMessages, MaxWrites, MaxPaths, MaxRestarts,
          PanesVary,      \* bound: drivers whose panes come after their frames, and vanish
          Titles,         \* window titles the root's program shows
          GitHub          \* is the connector registered

ASSUME AgentsAssumption ==
  /\ IsFiniteSet(Frames) /\ Root \in Frames
  /\ Drivers \subseteq DriverNames /\ Drivers # {}
  /\ PoolSize \in Nat \ {0} /\ QueueSize \in Nat \ {0} /\ Second \in Nat \ {0}
  /\ {MaxHooks, MaxLate, MaxMessages, MaxWrites, MaxPaths, MaxRestarts} \subseteq Nat
  /\ Titles \subseteq {"star", "braille"} /\ GitHub \in BOOLEAN
  /\ PanesVary \subseteq Drivers

VARIABLES
  frames,     \* State.Sessions: the driver state of each frame, or Gone
  known,      \* State.Jobs: what each job id was started for
  fetching,   \* the connector's Fetching
  queue,      \* Pool.jobs
  running,    \* the jobs the workers hold
  results,    \* Pool.results
  phase,      \* the daemon: "loop", "stopping" or "down"
  restarts,   \* how often the daemon was started again
  watching,   \* the file the watcher reports for each frame, 0 for none
  events,     \* FSWatcher.Events
  file,       \* the transcripts each program wrote, one after the other: their lengths
  turn,       \* what each program does, as its next hook depends on it
  call,       \* each program's tool calls: the last, the open, how often it asked
  clock,      \* time of the last hook
  hooks,      \* hooks on their way
  newest,     \* the last event of each program that stands for a status
  pane,       \* each frame's pane: "none" is registered, it is "there", or "gone" with its program
  silent,     \* ghost: how many messages were tried before the pane was registered
  sent, tried,\* ghosts: messages each frame was sent; those put to its pane or asked for
  failed,     \* ghost: those of tried that did not get there, by their place
  toolLog     \* the tool log

loopVars == <<phase, restarts, pane, silent>>
poolVars == <<queue, running, results>>
stateVars == <<frames, known, fetching>>
fileVars == <<watching, events, file>>
programVars == <<turn, call, clock, hooks, newest>>
seenVars == <<sent, tried, failed, toolLog>>
vars == <<loopVars, poolVars, stateVars, fileVars, programVars, seenVars>>

Gone == [driver |-> "gone"]
Unborn == [driver |-> "none"]
Live(f) == f \in Frames /\ frames[f] \notin {Gone, Unborn}

----------------------------------------------------------------------------
(* Carrying out what a handler asked for.                                  *)

Outstanding == Range(queue) \union running \union Range(results)

\* The ids of n jobs started one after the other: the least that are free.
FreeIds(n) ==
  LET taken == DOMAIN known \union {j.id : j \in Outstanding}
      free == (1 .. Cardinality(taken) + n) \ taken
  IN [i \in 1 .. n |-> CHOOSE id \in free : Cardinality({e \in free : e <= id}) = i]

\* Submit: a job for which there is no room is dropped, and nobody is told.
Submitted(q, js) ==
  LET room == IF QueueSize > Len(q) THEN QueueSize - Len(q) ELSE 0
  IN q \o SubSeq(js, 1, IF Len(js) < room THEN Len(js) ELSE room)

\* Start the jobs in order: an id and an entry in State.Jobs each.
StartJobs(table, js) ==
  LET ids == FreeIds(Len(js))
      Entry(id) == LET n == CHOOSE n \in DOMAIN js : ids[n] = id
                   IN [frame |-> js[n].frame, kind |-> js[n].kind]
  IN /\ known' = [id \in DOMAIN table \union Range(ids) |->
                    IF id \in Range(ids) THEN Entry(id) ELSE table[id]]
     /\ queue' = Submitted(queue, [n \in DOMAIN js |-> [js[n] EXCEPT !.id = ids[n]]])

JobsOf(f, st) ==
  LET Job(kind) == IF kind \in st.jobs
                   THEN <<[id |-> 0, frame |-> f, kind |-> kind, path |-> st.path, ver |-> 0]>>
                   ELSE << >>
  IN Job("summary") \o Job("parse") \o Job("branch") \o Job("capture")

FetchJob == <<[id |-> 0, frame |-> "github", kind |-> "fetch", path |-> 0, ver |-> 0]>>

\* RealFSWatcher.Watch: the old watch goes, the new one takes only if the file
\* is there.
WatchFile(f, st) ==
  IF ~st.watch THEN watching[f]
  ELSE IF st.watched \in DOMAIN file[f] /\ file[f][st.watched] > 0 THEN st.watched ELSE 0

\* executeInjectPrompt for each of the messages: paste and Enter reach the program
\* if its pane is registered and there.  If not, an error is logged and no more.
Inject(f, msgs) ==
  LET to == Len(tried[f]) + Len(msgs) IN
  /\ tried' = [tried EXCEPT ![f] = @ \o msgs]
  /\ failed' = [failed EXCEPT ![f] = IF pane[f] = "there" THEN @
                                     ELSE @ \union (Len(tried[f]) + 1 .. to)]

\* Mutant: a program that stopped is not handed its inbox.
Frees_IdleOnly(f, st) == Blocking(frames[f].status) /\ st.status = "idle"

\* A frame that stops being busy has its inbox injected.
Frees(f, st) == Blocking(frames[f].status) /\ ~Blocking(st.status)

\* Mutant: the inbox is cleared, and what was in it is not injected.
StepDriver_Discard(f, st, table, more) ==
  /\ frames' = [frames EXCEPT ![f] = [st EXCEPT !.jobs = {}, !.watch = FALSE, !.log = {},
                                                !.inbox = IF Frees(f, st) THEN << >> ELSE @]]
  /\ UNCHANGED <<tried, failed>>
  /\ watching' = [watching EXCEPT ![f] = WatchFile(f, st)]
  /\ toolLog' = toolLog \union st.log
  /\ StartJobs(table, JobsOf(f, st) \o more)

StepDriver(f, st, table, more) ==
  /\ frames' = [frames EXCEPT ![f] = [st EXCEPT !.jobs = {}, !.watch = FALSE, !.log = {},
                                                !.inbox = IF Frees(f, st) THEN << >> ELSE @]]
  /\ Inject(f, IF Frees(f, st) THEN st.inbox ELSE << >>)
  /\ watching' = [watching EXCEPT ![f] = WatchFile(f, st)]
  /\ toolLog' = toolLog \union st.log
  /\ StartJobs(table, JobsOf(f, st) \o more)

----------------------------------------------------------------------------
Init ==
  /\ frames = [f \in Frames |-> Unborn]
  /\ known = << >> /\ fetching = FALSE
  /\ queue = << >> /\ running = {} /\ results = << >>
  /\ phase = "loop" /\ restarts = 0
  /\ watching = [f \in Frames |-> 0] /\ events = << >> /\ file = [f \in Frames |-> << >>]
  /\ turn = [f \in Frames |-> "off"]
  /\ call = [f \in Frames |-> [last |-> 0, open |-> {}, asked |-> 0]]
  /\ clock = 0 /\ hooks = {} /\ newest = [f \in Frames |-> "none"]
  /\ sent = [f \in Frames |-> << >>] /\ tried = [f \in Frames |-> << >>]
  /\ pane = [f \in Frames |-> "none"]
  /\ silent = [f \in Frames |-> 0] /\ failed = [f \in Frames |-> {}]
  /\ toolLog = {}

----------------------------------------------------------------------------
(* The agent programs.                                                     *)

\* What a program does, the hook that says so, and what it does next.
Moves == {<<"off", "start", "idle">>, <<"idle", "start", "idle">>, <<"idle", "prompt", "busy">>,
          <<"idle", "nudge", "idle">>, <<"idle", "end", "off">>, <<"busy", "pre", "busy">>,
          <<"busy", "ask", "busy">>, <<"busy", "post", "busy">>, <<"busy", "failure", "busy">>,
          <<"busy", "subagent", "busy">>, <<"busy", "stop", "idle">>}

Sends(driver) ==
  DOMAIN StatusOf[driver] \union IF driver = "claude" THEN {"failure", "subagent"} ELSE {}

\* A start begins a new transcript, which is not on disk yet.
NextFile(f, event) ==
  IF event = "start" /\ Len(file[f]) < MaxPaths THEN Append(file[f], 0) ELSE file[f]

\* Calls of tools may overlap; a turn stops when all are answered.
Calls(f, event, tool) ==
  CASE event = "pre" -> [call[f] EXCEPT !.last = tool, !.open = @ \union {tool}]
    [] event \in {"post", "failure"} -> [call[f] EXCEPT !.open = @ \ {tool}]
    [] event = "ask" -> [call[f] EXCEPT !.asked = @ + 1]
    [] OTHER -> call[f]

Tools(f, event) ==
  CASE event = "pre" -> {call[f].last + 1}
    [] event \in {"post", "failure"} -> call[f].open
    [] event = "ask" /\ call[f].open = {} -> {}
    [] event = "stop" /\ call[f].open # {} -> {}
    [] OTHER -> {0}

Program(f) ==
  /\ Live(f) /\ pane[f] # "gone" /\ clock < MaxHooks /\ Cardinality(hooks) < MaxLate
  /\ \E m \in Moves : \E tool \in Tools(f, m[2]) :
       /\ m[1] = turn[f] /\ m[2] \in Sends(frames[f].driver)
       /\ turn' = [turn EXCEPT ![f] = m[3]]
       /\ clock' = clock + 1
       /\ file' = [file EXCEPT ![f] = NextFile(f, m[2])]
       /\ call' = [call EXCEPT ![f] = Calls(f, m[2], tool)]
       /\ hooks' = hooks \union {[frame |-> f, event |-> m[2], at |-> clock + 1,
                                  path |-> Len(NextFile(f, m[2])), tool |-> tool]}
       /\ newest' = [newest EXCEPT ![f] = IF m[2] \in DOMAIN StatusOf[frames[f].driver]
                                          THEN m[2] ELSE @]
  /\ UNCHANGED <<loopVars, poolVars, stateVars, watching, events, seenVars>>

\* The program writes its transcript; the watcher reports it if there is room.
FileWrite(f) ==
  LET path == Len(file[f]) IN
  /\ Live(f) /\ pane[f] # "gone" /\ turn[f] # "off" /\ path > 0 /\ file[f][path] < MaxWrites
  /\ file' = [file EXCEPT ![f][path] = @ + 1]
  /\ events' = IF watching[f] = path /\ Len(events) < QueueSize /\ phase # "down"
               THEN Append(events, [frame |-> f, path |-> path]) ELSE events
  /\ UNCHANGED <<loopVars, poolVars, stateVars, watching, programVars, seenVars>>

----------------------------------------------------------------------------
(* The event loop.                                                         *)

\* reduceDriverHook: the answer names an unknown frame as an error.
DriverHook(h) ==
  /\ phase = "loop" /\ hooks' = hooks \ {h}
  /\ IF Live(h.frame)
     THEN StepDriver(h.frame, Hook(frames[h.frame], h, h.frame = Root), known, << >>)
     ELSE UNCHANGED <<frames, tried, failed, watching, toolLog, known, queue>>
  /\ UNCHANGED <<loopVars, running, results, fetching, events, file,
                 turn, call, clock, newest, sent>>

\* `roost event` finds no daemon: it warns and ends.
HookLost(h) ==
  /\ phase = "down" /\ hooks' = hooks \ {h}
  /\ UNCHANGED <<loopVars, poolVars, stateVars, fileVars, turn, call, clock, newest, seenVars>>

\* old: nothing was fetched yet, or it was two minutes ago.
GithubStepTick(old) == GitHub /\ ~fetching /\ old

\* Whether the session is the one in pane 0.1 is module Roost's business.
Tick ==
  /\ phase = "loop"
  /\ \E active, due, stride, old \in BOOLEAN :
       LET fetch == GithubStepTick(old)
           more == IF fetch THEN FetchJob ELSE << >>
       IN /\ fetching' = (fetching \/ fetch)
          /\ IF Live(Root)
             THEN StepDriver(Root, Ticked(frames[Root], active, due, stride), known, more)
             ELSE StartJobs(known, more) /\ UNCHANGED <<frames, tried, failed, watching, toolLog>>
  /\ UNCHANGED <<loopVars, running, results, events, file, programVars, sent>>

PaneActivity ==
  /\ phase = "loop" /\ Live(Root)
  /\ StepDriver(Root, HandleActivity(frames[Root]), known, << >>)
  /\ UNCHANGED <<loopVars, running, results, fetching, events, file, programVars, sent>>

PaneOsc(title) ==
  /\ phase = "loop" /\ Live(Root)
  /\ StepDriver(Root, HandleWindowTitle(frames[Root], title), known, << >>)
  /\ UNCHANGED <<loopVars, running, results, fetching, events, file, programVars, sent>>

FileChanged ==
  /\ phase = "loop" /\ events # << >> /\ events' = Tail(events)
  /\ LET e == Head(events) IN
     IF Live(e.frame)
     THEN StepDriver(e.frame, HandleTranscriptChanged(frames[e.frame], e.path), known, << >>)
     ELSE UNCHANGED <<frames, tried, failed, watching, toolLog, known, queue>>
  /\ UNCHANGED <<loopVars, running, results, fetching, file, programVars, sent>>

Outcomes(job, driver) ==
  {r \in [err : BOOLEAN, changed : BOOLEAN, prompt : BOOLEAN, busy : BOOLEAN,
          mark : {"none", "command", "complete", "other"}] :
     /\ job.kind \in {"summary", "branch", "fetch"} => ~r.err /\ ~r.changed
     /\ job.kind = "parse" => r.err = (job.ver = 0) /\ ~r.changed
     /\ (job.kind # "capture" \/ driver # "shell") => ~r.prompt /\ r.mark = "none"
     /\ job.kind # "parse" => ~r.busy}

\* The table without the job.
Struck(job) == RestrictDomain(known, LAMBDA i : i # job.id)

\* Mutant: the entry in State.Jobs of a frame that is gone is left behind.
JobResult_Keep ==
  /\ phase = "loop" /\ results # << >> /\ results' = Tail(results)
  /\ LET job == Head(results)
         rest == IF job.kind # "fetch" /\ ~Live(job.frame) THEN known
                 ELSE Struck(job)
     IN /\ fetching' = (fetching /\ job.kind # "fetch")
        /\ \/ /\ job.kind # "fetch" /\ Live(job.frame)
              /\ \E r \in Outcomes(job, frames[job.frame].driver) :
                   StepDriver(job.frame, HandleJobResult(frames[job.frame], r, job), rest, << >>)
           \/ /\ job.kind = "fetch" \/ ~Live(job.frame)
              /\ known' = rest
              /\ UNCHANGED <<frames, tried, failed, watching, toolLog, queue>>
  /\ UNCHANGED <<loopVars, running, events, file, programVars, sent>>

\* A job whose frame is gone is struck from the table and has no other effect.
JobResult ==
  /\ phase = "loop" /\ results # << >> /\ results' = Tail(results)
  /\ LET job == Head(results)
         rest == Struck(job)
     IN /\ fetching' = (fetching /\ job.kind # "fetch")
        /\ \/ /\ job.kind # "fetch" /\ Live(job.frame)
              /\ \E r \in Outcomes(job, frames[job.frame].driver) :
                   StepDriver(job.frame, HandleJobResult(frames[job.frame], r, job), rest, << >>)
           \/ /\ job.kind = "fetch" \/ ~Live(job.frame)
              /\ known' = rest
              /\ UNCHANGED <<frames, tried, failed, watching, toolLog, queue>>
  /\ UNCHANGED <<loopVars, running, events, file, programVars, sent>>

----------------------------------------------------------------------------
(* Messages between frames.                                                *)

Messages == MapThenSumSet(LAMBDA f : Len(sent[f]), Frames)

\* reducePeerSend: for a frame that is not busy the message is injected at once
\* and counts as delivered whatever comes of it.
PeerSend(f) ==
  /\ phase = "loop" /\ Live(f)
  /\ \E msg \in 1 .. MaxMessages :
        /\ msg = Messages + 1
        /\ sent' = [sent EXCEPT ![f] = Append(@, msg)]
        /\ \/ /\ Blocking(frames[f].status)
              /\ frames' = [frames EXCEPT ![f].inbox = Append(@, msg)]
              /\ UNCHANGED <<tried, failed>>
           \/ /\ ~Blocking(frames[f].status)
              /\ Inject(f, <<msg>>) /\ UNCHANGED frames
  /\ UNCHANGED <<loopVars, poolVars, known, fetching, fileVars, programVars, toolLog>>

\* reducePeerDrainInbox: the program asks for its messages.
DrainInbox(f) ==
  /\ phase = "loop" /\ Live(f) /\ frames[f].inbox # << >>
  /\ tried' = [tried EXCEPT ![f] = @ \o frames[f].inbox]
  /\ frames' = [frames EXCEPT ![f].inbox = << >>]
  /\ UNCHANGED <<loopVars, poolVars, known, fetching, fileVars, programVars, sent, failed, toolLog>>

----------------------------------------------------------------------------
(* Frames come and go; time passes.                                        *)

Push(f) ==
  /\ phase = "loop" /\ frames[f] = Unborn /\ (f = Root \/ Live(Root))
  /\ \E d \in Drivers :
       /\ frames' = [frames EXCEPT ![f] = NewState(d)]
       /\ pane' = [pane EXCEPT ![f] = IF d \in PanesVary THEN "none" ELSE "there"]
  /\ UNCHANGED <<phase, restarts, silent, poolVars, known, fetching, fileVars, programVars, seenVars>>

\* EffRegisterPane, once the window is there.
Register(f) ==
  /\ phase = "loop" /\ Live(f) /\ pane[f] = "none"
  /\ pane' = [pane EXCEPT ![f] = "there"]
  /\ silent' = [silent EXCEPT ![f] = Len(tried[f])]
  /\ UNCHANGED <<phase, restarts, poolVars, stateVars, fileVars, programVars, seenVars>>

\* The program exits, and the loop has not noticed yet.
PaneGoes(f) ==
  /\ Live(f) /\ frames[f].driver \in PanesVary /\ pane[f] = "there"
  /\ pane' = [pane EXCEPT ![f] = "gone"]
  /\ UNCHANGED <<phase, restarts, silent, poolVars, stateVars, fileVars, programVars, seenVars>>

\* A frame dies with the frames above it, and its watch goes; its jobs stay.
Evict(f) ==
  /\ phase = "loop" /\ Live(f)
  /\ LET dead == IF f = Root THEN {g \in Frames : Live(g)} ELSE {f} IN
     /\ frames' = [g \in Frames |-> IF g \in dead THEN Gone ELSE frames[g]]
     /\ watching' = [g \in Frames |-> IF g \in dead THEN 0 ELSE watching[g]]
  /\ UNCHANGED <<loopVars, poolVars, known, fetching, events, file, programVars, seenVars>>

\* How long the screen has been still counts from the first capture on.
TimePasses ==
  /\ Live(Root) /\ frames[Root].primed /\ frames[Root].fresh /\ frames[Root].status = "running"
  /\ frames' = [frames EXCEPT ![Root].fresh = FALSE]
  /\ UNCHANGED <<loopVars, poolVars, known, fetching, fileVars, programVars, seenVars>>

----------------------------------------------------------------------------
(* The worker pool.                                                        *)

\* A worker takes a job; a parse reads the transcript as it is now.
Take ==
  /\ phase = "loop" /\ queue # << >> /\ Cardinality(running) < PoolSize
  /\ LET job == Head(queue)
         ver == IF job.kind = "parse" THEN file[job.frame][job.path] ELSE 0
     IN running' = running \union {[job EXCEPT !.ver = ver]}
  /\ queue' = Tail(queue)
  /\ UNCHANGED <<loopVars, results, stateVars, fileVars, programVars, seenVars>>

\* The job is done: its worker waits until there is room for the result.
Send(job) ==
  /\ phase # "down" /\ job \in running /\ Len(results) < QueueSize
  /\ running' = running \ {job} /\ results' = Append(results, job)
  /\ UNCHANGED <<loopVars, queue, stateVars, fileVars, programVars, seenVars>>

\* Mutant: a worker with a result waits for room, whatever the context says.
WorkerQuits_IfRoom(job) ==
  /\ phase = "stopping" /\ job \in running /\ Len(results) < QueueSize
  /\ running' = running \ {job}
  /\ UNCHANGED <<loopVars, queue, results, stateVars, fileVars, programVars, seenVars>>

\* The context is cancelled: a worker drops what it holds and ends.
WorkerQuits(job) ==
  /\ phase = "stopping" /\ job \in running
  /\ running' = running \ {job}
  /\ UNCHANGED <<loopVars, queue, results, stateVars, fileVars, programVars, seenVars>>

\* The loop has ended; Stop cancels the context.
Stop ==
  /\ phase = "loop" /\ phase' = "stopping"
  /\ UNCHANGED <<restarts, pane, silent, poolVars, stateVars, fileVars, programVars, seenVars>>

\* All workers have ended, or 500 ms passed.  Nothing of the pool, the table
\* and the watcher outlives the process, and no inbox is saved.
Exit ==
  /\ phase = "stopping" /\ phase' = "down"
  /\ queue' = << >> /\ running' = {} /\ results' = << >>
  /\ known' = << >> /\ fetching' = FALSE
  /\ frames' = [f \in Frames |-> IF Live(f) THEN Restored(frames[f], Second) ELSE frames[f]]
  /\ watching' = [f \in Frames |-> 0] /\ events' = << >>
  /\ sent' = tried
  /\ UNCHANGED <<restarts, pane, silent, file, programVars, tried, failed, toolLog>>

\* What the recovered frames ask for, one after the other.
JobsOfAll(next) ==
  LET order == SetToSeq(DOMAIN next)
  IN FlattenSeq([i \in DOMAIN order |-> JobsOf(order[i], next[order[i]])])

\* ReconcileOrphans: a frame whose pane was not registered is cut, with those
\* above it.
Cut == {f \in Frames : Live(f) /\ "none" \in {pane[f], pane[Root]}}

\* ReconcileOrphans and RecoverWarmStartSessions
Restart ==
  /\ phase = "down" /\ restarts < MaxRestarts
  /\ phase' = "loop" /\ restarts' = restarts + 1
  /\ LET live == {f \in Frames : Live(f)} \ Cut
         next == [f \in live |-> WarmStartRecover(frames[f])]
     IN /\ frames' = [f \in Frames |-> IF f \in live
                                       THEN [next[f] EXCEPT !.jobs = {}, !.watch = FALSE]
                                       ELSE IF f \in Cut THEN Gone ELSE frames[f]]
        /\ watching' = [f \in Frames |-> IF f \in live THEN WatchFile(f, next[f]) ELSE 0]
        /\ StartJobs(known, JobsOfAll(next))
  /\ UNCHANGED <<running, results, fetching, pane, silent, events, file, programVars, seenVars>>

----------------------------------------------------------------------------
Next ==
  \/ \E f \in Frames : \/ Program(f) \/ FileWrite(f) \/ PeerSend(f) \/ DrainInbox(f)
                       \/ Push(f) \/ Register(f) \/ PaneGoes(f) \/ Evict(f)
  \/ \E h \in hooks : DriverHook(h) \/ HookLost(h)
  \/ Tick \/ PaneActivity \/ FileChanged \/ JobResult \/ TimePasses
  \/ \E title \in Titles : PaneOsc(title)
  \/ Take \/ \E job \in running : Send(job) \/ WorkerQuits(job)
  \/ Stop \/ Exit \/ Restart

\* Idle workers take jobs, and a job comes to an end (the runners bound their
\* time); the loop takes results as they come, and a channel serves the workers
\* that wait to send in the order they came (hence SF for each of them).
Fairness ==
  /\ WF_vars(Take) /\ WF_vars(JobResult)
  /\ \A f \in Frames : \A k \in Kinds :
       SF_vars(\E job \in running : job.frame = f /\ job.kind = k /\ Send(job))
  /\ WF_vars(\E job \in running : WorkerQuits(job))

Spec == Init /\ [][Next]_vars
FairSpec == Spec /\ Fairness

----------------------------------------------------------------------------
(* Properties.                                                             *)

\* Whatever the order in which the hook processes reach the daemon, once none
\* is on its way the status is the one the newest hook stands for, unless a
\* hang was detected since.  A daemon that was down has missed hooks, so this is
\* about one life of it (MaxRestarts = 0).  Claude's driver takes a SessionStart of any age
\* whatever came before, so this is about the others.
SettledStatus ==
  \A f \in Frames :
    (/\ phase = "loop" /\ Live(f) /\ frames[f].driver \in {"codex", "gemini"} /\ newest[f] # "none" /\ ~frames[f].hang
     /\ ~\E h \in hooks : h.frame = f)
      => frames[f].status = StatusOf[frames[f].driver][newest[f]]

\* Every message a frame was sent waits in its inbox or was put to its pane (or
\* asked for) once and in its turn, none over another: the sent are the tried and
\* then those in the inbox.  One that was tried is lost only if the frame had no
\* pane registered yet, or one that is gone (reducePeerSend, drainPeerInbox,
\* executeInjectPrompt, which only logs).
PeersAccounted ==
  \A f \in Frames : Live(f) =>
     /\ sent[f] = tried[f] \o frames[f].inbox
     /\ pane[f] = "there" => failed[f] \subseteq 1 .. silent[f]

\* No message waits in the inbox of a frame that is not busy: nothing would
\* take it out until the frame was busy again.
IdleInboxEmpty ==
  \A f \in Frames : (Live(f) /\ ~Blocking(frames[f].status)) => frames[f].inbox = << >>

\* The tool log shows no more calls of a program as approved by the user than it
\* showed permission prompts, however its calls overlap and its hooks arrive.
ApprovalsBounded ==
  \A f \in Frames :
    Cardinality({e \in toolLog : e.frame = f /\ e.kind = "approved"}) <= call[f].asked

JobsFor(f, kind) == {i \in DOMAIN known : known[i].frame = f /\ known[i].kind = kind}

\* An in-flight flag stands for exactly one job in the table, but for that of the
\* captures of generic and shell, which nothing clears; no job is in the table
\* without its flag, and the jobs in the pool are all in the table.
FlagsMatchJobs ==
  /\ \A f \in Frames : Live(f) => \A k \in Kinds :
       LET jobs == Cardinality(JobsFor(f, k)) IN
       IF k \notin frames[f].flight THEN jobs = 0
       ELSE jobs = 1 \/ (jobs = 0 /\ k = "capture" /\ frames[f].driver \in Polling)
  /\ \A j \in Outstanding : phase # "down" => j.id \in DOMAIN known

\* Titles and turns never go back to an earlier state of the same transcript,
\* though results of parses come from concurrent workers.
ShownForward ==
  [][\A f \in Frames : (Live(f) /\ Live(f)' /\ frames[f].shown.path = frames'[f].shown.path)
                         => frames'[f].shown.ver >= frames[f].shown.ver]_vars

\* A job the pool took on leaves the table in the end, also when its frame is
\* gone by then, unless the daemon stops.
JobsLand ==
  \A f \in Frames : \A k \in Kinds :
    (\E j \in Outstanding : j.frame = f /\ j.kind = k)
      ~> (phase # "loop" \/ JobsFor(f, k) = {})

\* When the daemon stops, every worker ends by itself, however full the
\* results channel is that nobody reads any more: no goroutine is leaked.
PoolStops == phase = "stopping" ~> running = {}

=============================================================================
