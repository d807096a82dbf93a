# roost: a TLA+ model of the session daemon and its programs

roost is a Go program that runs coding agents (claude, codex, gemini, a shell)
in tmux and keeps track of them.  One daemon process owns all state: a pure
reducer (`state.Reduce`: state, event -> state, effects) inside one event loop
that carries the effects out against tmux, the disk, a worker pool and the
connected clients.  What the user sees are clients in processes of their own: the
sidebar in pane 0.2, the main and log programs in pane 0.1, and a palette in a popup.

This directory models the daemon and these programs in TLA+, checks small
instances with TLC, and proves for all instances what matters most with TLAPS.

Source paths below are relative to `src/src/` (Go) and `src/docs/`.

## 1. Inventory

### Parts, their state, and how they meet

| part | source | state | operations | meets | module |
|---|---|---|---|---|---|
| reducer: sessions, frame stacks | `state/reduce_session.go`, `reduce_helpers.go` | `Sessions`: `Frames`, `ActiveFrameID`, `MRUFrameIDs` | create, push, stop, switch, evict, truncate | effects to the runtime | `Roost`, `Durable` |
| reducer: focus, occupant | `state/reduce_activate_occupant.go` | `ActiveSession`, `ActiveOccupant` | switch, preview, activate occupant | residency | `Roost` |
| residency of pane 0.1 | `runtime/resident.go` | `sessionPanes`, `mainPaneSession`, `activeFrameID` | activate, deactivate, swap hidden | tmux | `Roost` |
| event loop, ticks, probes | `runtime/runtime.go`, `interpret.go`, `state/reduce_tick.go` | `eventCh`, `internalCh` | enqueue, tick, reconcile, probe | everything | `Roost`, `Agents`, `Wire` |
| tmux | `runtime/tmux_real.go`, `tmux_layout.go` | windows, panes | new-window, kill-window, swap-pane, respawn-pane | external | `Stage` |
| setup jobs | `state/reduce_job.go` | `PendingCreates` | start, succeed, fail | pool, reducer | `Roost` |
| snapshot and restart | `runtime/persist.go`, `bootstrap.go`, `coordinator.go` | session files, tmux environment | save, load, warm start, cold start | disk, tmux | `Durable` |
| IPC server | `runtime/ipc.go`, `proto_bridge.go`, `state/reduce_conn.go` | connections, subscribers, outboxes | accept, read, write, broadcast, close | clients | `Wire` |
| client library | `proto/` | pending requests, events channel | call, receive, close | IPC server | `Wire` |
| drivers | `driver/` | status, jobs in flight, hook order, tool log | hooks, ticks, titles, job results | reducer | `Agent` |
| worker pool | `runtime/worker/pool.go` | jobs and results channels | submit, run, stop | event loop | `Agents` |
| peer messages | `state/reduce_peer.go` | inboxes | send, inject, drain | drivers | `Agents` |
| connectors | `connector/` | `Fetching` | fetch, result | pool | `Agents` |
| file watcher | `runtime/fsnotify.go` | watched paths | watch, unwatch | drivers | `Agents` |
| transcript readers | `lib/claude/transcript`, `lib/codex/transcript` | tracker per file | update, snapshot | pool jobs | `Transcript` |
| file relay | `runtime/filerelay.go` | offsets, changes noted | watch, sweep, push | log program | `FileRelay`, `Relay` |
| pane taps | `runtime/tap_manager.go`, `tmux_pipe_tap.go`, `osc_parser.go` | taps, pipe files, parser | start, stop, read | tmux, event loop | `Taps` |
| sidebar | `tui/` | list, cursor, folds, filters, workspace | keys, mouse, answers, tables | IPC, palette | `Sidebar` |
| palette | `tui/palette.go`, `palette_flow.go`, `tools/` | tool, arguments | choose, fill in, run | IPC | `Palette` |
| main and log programs | `tui/main_model.go`, `log_model.go` | table; tabs, view | listen; click, backfill | IPC, relay | `Wire`, `Relay` |
| logs, configuration, features, command line | `logger/`, `config/`, `cli/`, `lib/` | file handles | | | not modelled |

### What is hard here

* Pane 0.1 is the only visible pane.  A frame is shown by *swapping* its pane
  with the main TUI's, so at any time the main TUI may be parked in a frame's
  window and the log TUI in 0.1, and every kill, respawn or swap must know.  That
  knowledge is spread over four variables kept by two layers.
* Windows are spawned in goroutines and worktrees prepared in worker jobs: their
  results come back as events, after the session was stopped, or never.
* The daemon may be killed at any point; the next one finds windows,
  environment and files as they were.
* Every hook of an agent is a process of its own: hooks overtake each other.
  Two workers may parse one transcript and end in either order.
* All channels are bounded.  Some drop when full, some block, and stopping must
  not wait on a channel nobody reads any more.
* Files are read while they are written: transcripts by increments, logs by two
  readers (the daemon's relay and the log program), pipes in chunks that cut sequences.
* The programs show what they were told last, while their own commands, the
  answers and the tables of other clients' changes cross.

The complete list, each at its line, is under `hazards` in `PROJECT.json`.

### What makes each part correct

* stacks: a frame is in one session, once; the root is for life; every frame of
  the map has a pane or one on its way; the focus names a session.
* residency: the runtime's belief is true of tmux; no swap, kill or repair loses a TUI; a frame
  that died in 0.1 leaves it; when all is quiet the focused frame is shown.
* snapshot: a restart at any point yields the promised sessions, whose panes exist.
* IPC: no request is forgotten or answered twice; tables arrive in order; nobody
  waits for ever; whoever asked for the shutdown hears of it.
* drivers: the status is that of the newest hook; the tool log does not claim approvals.
* pool: flags and the job table agree; results do not turn time back; stopping ends.
* peers: a message is put to its pane once, in order, never left behind, and lost only where there is no pane.
* transcripts: increments say what one reading of the whole would say.
* relay and taps: once, in order, no gaps; goroutines end.
* sidebar: the cursor stays with its session; what the user made ends up shown.

## 2. The modules

Size and order of reading: `Stage`, `Roost`, `Durable`; `Wire` with `Board`; `Agent`, `Agents`;
`Transcript`; `FileRelay`, `Relay`; `Taps`; `Palette`, `Sidebar`.  `map` in `PROJECT.json` gives the exact lines
behind every definition.  Next to some definitions stands a variant whose comment begins with
"Mutant:": a plausible mistake in that code, which the property
named for it in `PROJECT.json` must catch; no module uses it.

### `Stage`

The values and functions `Roost` and `Durable` share; it has no variables.  Sessions
(frame stack, active frame, recent frames) and what the reducer's helpers do to them; the
runtime as a record and what each effect does to it.

tmux.  A *slot* is a window position, named after the pane created in it: `Main` is
0.1, `Log` is `__hidden__.0`, `f` is the window spawned for frame f.  `swap-pane`
exchanges the contents of two slots; `kill-window` empties a slot and is refused in
window 0 (`guardNotMainWindow`); a process that exits leaves a dead pane where
`remain-on-exit` is on (0.1 and `__hidden__.0`) and destroys the pane elsewhere.

### `Roost`

`st` is `state.State` (the three fields that matter here), `rt` is the part
of `runtime.Runtime` the loop owns together with `eventCh` and tmux's windows.  The
others belong to what runs beside the loop: `spawning` (a goroutine of
`spawnTmuxWindowAsync` per frame), `pending` (`PendingCreates`, with the session
*value* captured when the job began), `probe` (the fast probe and the owner it
captured), `exited` and `prog` (the processes in the panes), `reply` and `born` (what clients
were promised, and ids handed out).

One action per handler: `Reduce` and the execution of all effects it returned are
one action, because the loop takes no event in between.  What runs in other
goroutines has actions of its own.

| action | code |
|---|---|
| `CreateSession`, `PushDriver`, `StopSession`, `SwitchSession`, `PreviewProject` | `state/reduce_session.go` |
| `ActivateFrame`, `ActivateOccupant` | `state/reduce_frame.go`, `reduce_activate_occupant.go` |
| `HandlePaneSpawned`, `HandleSpawnFailed`, `HandleWindowVanished`, `HandlePaneDied` | `state/reduce_session.go`, `reduce_tick.go` |
| `EvictFrame`, `RemoveSession`, `Truncated`, `FallBack` | `state/reduce_helpers.go` |
| `JobSucceeds`, `JobFails` | `state/reduce_job.go` |
| `ActivateSession`, `DeactivateSession`, `SwapHidden`, `EnsureMainAtVisibleSlot` | `runtime/resident.go` |
| `SpawnWindow`, `SpawnWindowFails`, `EveryTick`, `FifthTick`, `Probe*`, `ProcessExit` | `runtime/interpret.go`, `runtime/runtime.go`, tmux |

Abstractions.
* Commands are taken when handled; only events are queued.  `Backlog` keeps
  commands, ticks and the probe from running while that many events wait.
* Ids are random and never reused: an id is used once (`born`).
* `PreviewSession`, `SwitchSession` and activate-occupant "frame" change the modelled state
  alike and share an action.
* Reconciliation also looks at the key `_main`; a dead main pane
  gives an event that matches no frame and changes nothing, so it is left out.
* The header and sessions panes (0.0, 0.2) are respawned in place and touch no other state.
* A frame pushed by a hook has no client behind it; a reply counts as owed all the same.

### `Durable`

`Roost` runs a handler and its effects as one step, which is right as long as the
daemon lives.  `Durable` is about what is left when it does not: a handler
changes `st` and puts the effects that reach tmux, the environment or the files into
`todo`, and every effect is a step.  `Crash` and `Reboot` may come between any two, and
inside a save (`Interrupted`: files are written in map order, each by an atomic rename, and
removed after all are written).

A daemon that ends closes its connections, and the TUIs quit (`tui/main_model.go:52`, `tui/log_model.go:97`), though not
at once: `orphaned` says that they still have to, and `TuiQuits` may come before the next start, between its
steps, or not at all before the TUIs are respawned.  A TUI that is parked in a frame's window then takes the window with it,
and `lost` records that.

`disk` (the session files), `env` (the `ROOST_FRAME_*` variables) and the slots of `rt` outlive
the daemon; `env` and the slots go with tmux.  `st`, the rest of `rt`, `known` (`lastKnownIDs`) and
`spawning` are lost.  `phase` is "down", a start in progress ("warm", "cold") or "up".  `kept`, `excused`
and `born` record what clients were promised and what failed.

| action | code |
|---|---|
| commands and `Handle*`, `Evict` | the reducer, as in `Roost`, with the order of the effects |
| `DoPane`, `DoRegister`, `DoUnregister`, `DoAnswer`, `DoSave`, `SaveFails`, `DoKillSession` | `runtime/interpret.go`, `runtime/persist.go` |
| `SwapOccupant` | `swapHidden`, which fails without a hidden window |
| `RespawnOccupant` | `reducePaneDied` while no frame is shown |
| `Exit` | `deactivateBeforeExit`, at the end of `Run` |
| `TuiQuits` | `tea.Quit` of the TUIs when `Client.read` closes their events, and tmux |
| `StartWarm` (`WithHidden`), `DoRecover`, `DoReconcile` | `ensureHiddenWindow`, `LoadSnapshot`, `LoadSessionPanes`, `RecoverActivePaneAtMain`, `ReconcileOrphans` |
| `StartCold`, `DoRecreate`, `RecreateFails` | `setupNewSession`, `LoadSnapshot`, `RecreateAll` |
| `EnterLoop`, `RespawnMainPane` | the end of the start in `coordinator.go`: the loop runs, the TUIs are respawned beside it |

Abstractions.
* Setup jobs, the probe, the programs in TUI panes and a full channel are `Roost`'s subject.  A death in 0.1 is
  handled in the step that notices it.
* The two TUIs quit in one step.  What runs in their panes is not modelled, nor the shell into which `setupNewSession` types the
  very first main TUI: there the pane outlives the program, and only a respawned main TUI takes its window along.
* `setupNewSession` is one step: a crash inside it leaves a half-made layout, which no code repairs.
* `RecoverWarmStartSessions` repeats the save of `ReconcileOrphans` and changes driver states only (`Agents`).
* A session file that cannot be read, and a frame whose driver is no longer known, do not occur;
  nor do errors of `set-environment`, which the code ignores.
* After `EffKillSession` the loop does nothing but end: both are one step.

### `Wire` and `Board`

`Wire` is a connection in both directions.  Up: a client's request, the socket (`conn.up`), the reader
goroutine (`Read`, `ReadEnds`), the event channel (`commands`), the loop.  Down: a bounded outbox, the
writer goroutine (`Write`), the socket (`conn.down`), the client's reader (`Receive`), and for
a subscribing program its bounded events channel, a listener goroutine (`Listen`) and the
model (`HandleServerEvent`).  Openings and closes take `internal`, another channel,
and the loop takes from the two in any order.  The table of sessions is its
version; `Change` stands for every command, tick or hook that broadcasts.  A shutdown is
answered synchronously (`StartSyncResponse`, `SendResponseSync`), and `Stop` shuts
every connection with what is left in its outbox.  Deadlines (`Timeout`), exits (`Close`) and
disconnection may come at any time.

Left out: payloads and encodings (a command the decoder refuses is kind "bad"), peer
credentials, and which session a surface command reads.

`Board` is the abstract specification of the broadcasts: one current version, and per client a
feed of versions on their way.  Posting appends the *current* version to some feeds; versions leave
a feed from anywhere, taken or dropped.  `Wire` instantiates it (`Feeds == INSTANCE Board WITH ...`) with a
client's feed being, in order, its events channel, its half of the socket and its outbox, and the run `requests` checks
`Feeds!Spec` as a property: no handler ever sends a table of the past, no queue turns two around.

### `Agent` and `Agents`

`Agent` is package `driver` as pure operators on one driver state, as `Driver.Step` is a
pure function: the five drivers' hooks, ticks, activity, titles, file changes and job results; what is saved and
what a warm start does.  A handler hands effects back in `jobs`, `watch` and `log`.

`Agents` puts these states under what moves them: programs whose `Moves` decide which hook comes next, hooks in flight as a *set*
(every one is a process), the event loop, `StepDriver` (the code's `stepDriver`: effects carried out, the
inbox injected when a frame stops being busy), the job table (`known` is `State.Jobs`), the pool (`queue`, `running`, `results`), watches and
their events, peer messages, the connector, eviction, `Stop`, `Exit`, `Restart`.  A frame's pane is registered after the frame is pushed (`Register`), and its program
may exit before the loop knows (`PaneGoes`): `Inject` puts a message to a pane that is there and loses it otherwise (`failed`), as `executeInjectPrompt` does, which only
logs.  What the reducer takes for delivered is `tried`.  That tmux refuses a paste to a pane that is there is left out.

Abstractions.
* Screens, titles, turns and texts are not kept; a capture's result is whether it failed, whether the screen changed, and what
  the shell's marks say.  `fresh` says that nothing stood still for longer than the hang or idle threshold.
* A transcript is its number and its length (`file` has those of a program in order): module `Transcript` is about what is in it.
* Only the root frame gets ticks, activity and titles, as in the code; whether the session is shown is any Boolean.
* Debouncing of the watcher, desktop notifications, and the keys by which a prompt is injected are left out;
  worktree setup is `Roost`'s setup job.

### `Transcript`

A claude program appends lines (prompts on any earlier line, texts, tool calls and results, titles, notices claude puts in the user's
place, lines beyond the scanner's buffer), a codex program a rollout; a line may be half written when a job reads, and the file may be
replaced by a shorter one.  `TranscriptParse` is one job of the tracker (`Update`, `Snapshot`), `CodexTranscriptParse` one of codex.
`ScanNewLines` is `updateLocked`: from the offset to the end, a reset when the file is shorter.  `place` and `seen` are the reader `ReadsAsWhole` compares it
with: `Observe` works out on its own which lines a job finds, from the lines of the file and the place it was left at, and uses nothing of the parser's.  How a line is formatted for the log program is left out.

### `FileRelay` and `Relay`

Files are numbers of lines.  `FileRelay` is what `filerelay.go` keeps and its two goroutines do: `Add` and `UnwatchFile`, `WatchLoop`, `Sweep` and `ReadFrom` (the sweep takes dirty entries
under the lock and reads without it).  `Relay` puts it between the daemon's loop and the log program: `Write` (any writer, with the note of a change), `Broadcast`, sessions.  Log program: tables (`HandleLogEvent`), tabs (`Click`), the
backfill of a tab (`ReadTailLines` and, later, `HandleBackfillDone`), pushed lines appended to the view.

### `Taps`

What a pane prints goes through `pipe-pane` and `cat` into a file, from there through one goroutine (`TailRead`) into a channel, and through
another (`ReadTap`) with the parser of OSC sequences to the loop.  Bytes are the tokens of a notification, so that chunks
and writes cut every sequence.  `RegisterPane`, `StartRestoredTaps`, `UnregisterPane`, `Crash` and `Boot` start and stop taps;
goroutines of an older tap may still be around.  Which command codes count as notifications is left out.

### `Palette` and `Sidebar`

`Palette` is the popup: the choice of a tool, its parameters one by one, worktree switch, going back, create-project handing over
to new-session, and the command sent.  `Sidebar` is the list (items of the table by filter, fold and workspace), cursor, scrolling, mouse, keys, the
commands (each in a goroutine), answers and tables, composed with `Palette` and with what the daemon does with both.
Two goroutines hand it the tables (`Listeners`): the one that asked for the sessions goes on to listen, so one of the two may hold its table while the other hands over those behind it.
Sessions are listed in order of creation.  Rendering and the text typed to narrow a list are left out
(any option may be the one taken), and so are keys typed before the popup's first message.

### Composition

`Stage` is shared by `Roost` and `Durable`, which look at the same reducer at two grains.  `Agents` is `Agent` under the loop and the pool.  `Sidebar` composes the
sidebar, the palette and a daemon that creates, stops and announces sessions.  `Wire` is composed with the programs that listen.
The rest meet by what they leave open: `Roost` leaves driver states to `Agents`, where frames come and go whole; `Agents` leaves
the contents of a file to `Transcript`; `Relay` and `Sidebar` take the wire as a queue, which `Wire` shows to keep order as far as the
client's events channel; behind it `Sidebar` has its two listeners.  What `Wire` itself models behind the channel (the tables a listener of the main program holds, the
table it shows) carries no property of `Wire`: the order is lost there (section 5).

`MC*` modules give TLC instances.  The symmetry of sessions and frames in `MCRoost` and `MCDurable` is sound: they are
only compared, never ordered, and `Main`, `Log` and `None` are not permuted; the run with liveness does not use it.

## 3. What the runs show

| run | instance | shows |
|---|---|---|
| `faults` | `Roost`: 2 sessions, 2 frames, channel of 2, every fault | `TypeOK`, `ResidentTruth`, `OccupantTruth`, `OnePlace`, `RootIsForLife` |
| `orderly` | `Roost`: 2 sessions, 3 frames, agents die, nothing else fails | `FocusValid`, `FramesAccounted`, `SettledShowsFocus` |
| `live` | `Roost`: 2 sessions, 2 frames, fairness | `DeadFrameLeaves`, `RequestAnswered` |
| `restarts` | `Durable`: 2 sessions, 2 frames, 3 starts, saves and windows may fail | `SessionsPreserved`, `FramesBound`, `EnvMirrors`, `OnePlace`, `LogWhereSaid`, `NoFrameUnderMain` |
| `requests` | `Wire`: a subscribing program and a caller, 1 request, 2 table versions, fairness | `TablesInOrder`, `RequestsAccounted`, `ShutdownAnswered`, `ImplementsBoard`, `Answered` |
| `hooks` | `Agents`: 7 hooks, 2 of them on their way at once, 2 messages, claude, codex or gemini | `SettledStatus`, `PeersAccounted`, `IdleInboxEmpty`, `ApprovalsBounded` |
| `jobs` | `Agents`: parse, capture, summary; 2 workers, queues of 1; a restart; fairness | `FlagsMatchJobs`, `ShownForward`, `JobsLand`, `PoolStops` |
| `transcript` | `Transcript`: all conversations of 4 lines, torn or replaced, 2 jobs | `ReadsAsWhole`, `PromptOnBranch` |
| `tabs` | `Relay`: a session, 2 lines per file, 4 tables, a click | `RelayedOnce`, `NoGap` |
| `streams` | the same | `SessionStreams` is *violated*, section 5 |
| `sidebar` | `Sidebar`: two projects in two workspaces, 2 inputs, 1 change | `TypeOK`, `CursorFollows`, `NewIsShown`, `WorktreeInGit` |
| `taps` | `Taps`: 2 notifications, a restart, reads of 3 and writes of 4 tokens, channels of 1, fairness | `HeardOnce`, `Heard`, `TapEnds` |

Bounds and why they are enough.
* `Roost`, `Durable`.  All rules concern one session and "the other one" (the focused or
  the shown one).  Two frames are in one stack or in two; three let the
  fallback choose between two recent frames and the root.  `MaxMRU` 1 or 2 (16 in the code): the cap is reached.  `QueueCap` 2
  in `faults`: events are dropped; 6: never.  `Backlog`: how far the loop falls behind.  A frame is
  spawned at most once, so runs are finite without a counter.  No second log TUI is made
  while the first is still in another window (`StartWarm`).  `MaxStarts` 3: a run, a start that is itself cut short, and one that repairs both.
* `Wire`.  Outboxes of 2, a socket and an events channel of 1 (64, the kernel's buffer and 64): each fills up, and two broadcasts and an answer may be queued at
  once.  Two clients: one that is told and one that causes it.
* `Agents`.  Two hooks on their way can come in either order, and an older one may wait while newer ones pass; 7 hooks reach two overlapping tool calls with a prompt between.
  With two workers two parses of one frame can end in the other order; a queue of one drops the second job; a second transcript takes the place of the first.
  The two runs divide the work: what a job may do (`Kinds`) multiplies with what hooks may do.  `PanesVary`: panes come late and go early for codex and gemini in `hooks` and for codex in `jobs`;
  claude, whose hooks and tools have the most states, has its panes with its frames.
* `Transcript`.  A branch needs a prompt, a line after it and a second prompt beside it; a reset needs a line in the new file; the caps are 2 turns, 2 commands and 1
  file, and four lines have three turns, three commands or two files; agents get a name and the plan is written; the second job goes on from the first's offset.
* `Relay`.  Two lines are the least for a gap or a repetition; a table each for a session that appears, gets its files and goes.
* `Sidebar`.  A key moves and another acts while the answer to the first crosses a change.  `BodyRows` is 4; with 3 or less a turn of the wheel
  already puts the cursor out of the list (section 5).  The two statuses are only compared, and are a symmetry set.
* `Taps`.  Reads and writes are shorter than a sequence (5 or 6 tokens), and a read takes what is there: every cut occurs.

Why `orderly` and `faults` differ: the properties of `orderly` are *not* true under the faults.  A
refused window truncates a stack and leaves `ActiveFrameID`, `MRUFrameIDs`, `ActiveSession` and the
registrations of the frames above behind; a full channel loses a pane.  `faults` shows what stands even then.

What `SessionsPreserved` excuses.  A session is `kept` from the answer to the client that made it
until it is stopped, its root is evicted, its root's window is refused, or `RecreateAll` gives it up.
Two things lose it otherwise, and are recorded in `excused`: a save that failed before
it was ever written, and a daemon killed during a cold start.  A *frame*
pushed above another whose pane is still to come is not promised as much.

What the other properties leave out because the code does.  `LogWhereSaid`, `NoFrameUnderMain` and the TUIs of `OnePlace` are promised in `restarts` as long as no TUI
quit in a frame's window while no daemon ran (`~lost`, section 5).  `SettledStatus` is about codex and gemini: claude takes a
`SessionStart` of any age (`driver/claude_event.go:138`).  `FlagsMatchJobs` excepts the capture flag of generic and shell, which nothing clears
(`driver/generic.go:201`): it holds back every later capture of the frame.  A job that a full queue drops keeps its flag and its entry, which agree, and is never started: no property says otherwise.
`PeersAccounted` lets a message be lost where the code loses it, section 5.  `ApprovalsBounded` counts: which of several pending calls a prompt is put to is the code's guess.  `ReadsAsWhole` is about the lines that were seen: a half line and one beyond the buffer are skipped for good.
`Heard` is about taps without an older one of the same pane.  `NewIsShown` is about a list without filter and fold, and leaves out that a table older than
the session is handled after one with it (`made` is given up then): the code goes back to the older list.
`Answered` excepts what a full queue dropped: such a request waits for its deadline.

Fairness, and why the code justifies it.
* `Roost` (`live`): the loop handles what is in its channel, tickers fire, a
  goroutine that runs `new-window`, a worker job and a probe end.  They are goroutines and timers with no
  condition attached.  Nothing is assumed of clients, and no process has to exit.
* `Wire`: weak fairness of the loop, of each connection's goroutines together and of each client's together.  Deadlines, exits,
  changes and new commands need never come.
* `Agents` (`jobs`): weak fairness of idle workers taking jobs, of the loop taking results and of workers that see the cancelled context.  A
  worker that waits to send is served strongly fairly: a Go channel serves waiting senders in the order they came, so
  none is passed over for ever while others send.
* `Taps`: as long as some process or goroutine can run, one of them does.  This is weaker than fairness of each, and enough because each consumes.

`CHECK_DEADLOCK FALSE` is set where the system comes to rest: programs that said all they will, a stopped daemon, bounded files.

## 4. What is proved

All theorems hold for any values of the constants that satisfy the modules' assumptions.

| module | theorem | |
|---|---|---|
| `RoostProofs` | `TypeCorrect` | `Spec => []TypeOK`, for `Roost` |
| `RoostProofs` | `ResidentTheorem`, `OccupantTheorem`, `OnePlaceTheorem` | the truth of the runtime's belief about pane 0.1 |
| `RoostProofs` | `RootTheorem` | `Spec => RootIsForLife` |
| `RoostProofs` | `FocusTheorem` | the focus names a session of the map |
| `RoostProofs` | `FramesTheorem` | every frame of the map has a pane or one on its way, and no pane outlives its frame |
| `RoostProofs` | `ShowsTheorem` | when all is quiet, the focused frame is shown |
| `DurableProofs` | `Invariance` | `Spec => []Inv`, the inductive invariant of `Durable` |
| `DurableProofs` | `SessionsPreservedAlways` | what a client was told of survives crashes, reboots and interrupted saves |
| `DurableProofs` | `FramesBoundAlways`, `EnvMirrorsAlways` | frames, pane map and tmux environment agree at rest |
| `DurableProofs` | `OnePlaceAlways` | no crash, swap or start shows a pane twice, empties 0.1 or takes a TUI's pane |
| `DurableProofs` | `LogWhereSaidAlways`, `NoFrameUnderMainAlways` | what a start finds in 0.1 is what the state says, as long as no TUI is lost |
| `AgentsProofs` | `PeersTheorem`, `IdleInboxTheorem` | messages are put to the pane once and in turn, lost only where there is none, and none waits for an idle frame |
| `AgentsProofs` | `SettledTheorem` | the status settles on the newest hook |
| `AgentsProofs` | `FlagsTheorem` | an in-flight flag stands for one job in `State.Jobs` |
| `AgentsProofs` | `ShownTheorem` | what is shown of a transcript never goes back |
| `AgentsProofs` | `ApprovalsTheorem` | no more calls are logged as approved by the user than prompts were shown |
| `StreamProofs` | `HeardTheorem` | what a pane prints is told whole, once and in order |
| `StreamProofs` | `RelayedOnceTheorem` | no line is sent twice or out of turn |
| `WireProofs` | `TypeCorrect` | `Spec => []TypeOK`, for `Wire` |
| `WireProofs` | `RequestsAccountedAlways` | a request that waits is in exactly one place |
| `WireProofs` | `ShutdownAnsweredAlways` | who asked for the shutdown is answered |
| `WireProofs` | `BoardImplemented` | the IPC server implements the board |
| `WireProofs` | `TablesInOrderAlways` | tables reach a client in order |
| `SidebarProofs` | `BaseTheorem`, `TypeTheorem` | what everything names has been a session; `Spec => []TypeOK` |
| `SidebarProofs` | `CursorTheorem` | `Spec => CursorFollows`: the cursor stays with its session when the list is made anew |
| `SidebarProofs` | `PaletteTheorem`, `WorktreeTheorem` | a worktree is asked for only in a git repository |
| `SidebarProofs` | `MadeTheorem`, `NewTheorem` | a session the user made ends up in view, and the focus with it |

**Types.**  One lemma per operator on sessions, slots and the runtime, then one per group of actions.

**Residency.**  None of the three properties is inductive: whether a swap
keeps the TUIs in place depends on what is resident and on which TUI the occupant
says is parked.  The inductive invariant is `TypeOK /\ Shape(rt, st.occupant) /\ Begun`.
* `Shape(r, occ)` is the three properties of a runtime *value* and an occupant.  Effects
  are functions of runtime values, so each has one lemma: from which shape it leads to
  which.  A handler is a chain of them, and passes through values no state ever shows.
* `Begun` says that the window of a frame that is still to be spawned is empty, and that a
  frame waits for its job first and for its window afterwards.  Without it `SpawnWindow`
  could put its pane on top of a TUI parked there.

The three theorems assume `ParkedMainExits = FALSE`: the main TUI does not exit while it is
parked in a frame's window.  Those windows have `remain-on-exit` off
(`runtime/tmux_real.go:56`), so tmux would destroy its pane, and the claims would be false.

**Roots.**  A setup job puts the session value back that it captured, so that the root of a session in the map may not
stay only because handlers do not touch it.  The invariant `RootsAgree` is about *all values of a session*, the one in the map and
those in `PendingCreates`: they agree on the first frame.

**Focus and frames.**  `FocusTheorem` holds with setup jobs and any loss of events.  It assumes `SpawnMayFail = FALSE`: `reduceTmuxSpawnFailed` may
empty the focused session and leaves the focus on it.  The other two also assume `SetupJobs = FALSE` (a job may bring back a session that was stopped) and
`RoomAssumption`: the event channel holds `Backlog + 1 + Cardinality(Frame)` events (it has 256 in the code).  These are the constants of `orderly`.

Their invariant `Orderly` follows a frame from the command to its pane.  `Before`: as long as it is to be spawned it has no event and no pane.
`SettingUp`: a frame in a stack is being spawned for that session, or its event in the channel names that session, or its pane is registered.  `Stacks`: a stack has a frame once, and
no two stacks share one, or a removal would unregister a pane of another session.  `Showing`: the active frame of the focused session is resident, or
an event that will show it or remove it is still to come.  Each needs that no event is lost, which is `Capacity`: the channel has room for what
waits *and for one event of every frame still to be spawned*.  A tick may add an event for every dead frame, but only frames with a pane are reported, and these are not
among those to be spawned, so that a frame is counted once.

**Crashes.**  All six properties of `Durable` follow from one invariant, without any assumption but those of the modules: saves may fail, windows may
be refused, and starts are not limited to three.  A property at rest says nothing of a state in which half of a handler's effects have run, and a crash may come
there, so `Inv` speaks of the effects that are *left*.
* `InOrder`: which effect may stand before which.  The swap comes before the frame is shown, the registration first, the save before the answer, the answer last.  Every
  list a handler or a start returns is shown to be such a list, and so is what is left of it.
* `Tasks`: nobody is answered for a frame that is neither registered nor about to be, and whose session is neither saved nor about to be.  With `InOrder` this is why
  `DoAnswer` may promise what the files hold.
* `Bound`, `Safe`: a frame of the map has a pane, or one on its way, or an effect that will make or judge it; a promised session has its file, and its root a variable in the
  environment, unless a cold start still has to make it or there is no tmux.  `Safe` is what a crash leaves to the next start.
* `Owners`: an id belongs to one session in the map, the files, the channel and the goroutines alike, and file and map agree on the root, so that a save interrupted between two
  files mixes no two sessions.
* `Stood`, `Scene`: that panes are apart and 0.1 is not empty, whatever is lost; and, as long as no TUI is, where the two are (`Complete`), what is in 0.1 while swaps are still to
  come, and that a frame left there by a daemon that was killed is nobody's once a start has looked.
* `Capacity`: the channel has room for each window being spawned and for the event of a frame that is gone when it is to be shown.

`HandledInv` has the part that all handlers share, with one lemma each for what a handler does to sessions, channel, effects and occupant; `BeganInv` has the two that make a
frame; effects, starts and stops have a lemma each.  `Inv` was found with TLC on the instance of `restarts` before it was proved.

**Messages.**  `InboxInv` has the order of the messages and `IdleInboxEmpty`, since each needs the other: a message injected at once keeps its turn only
because the inbox of a frame that is not busy is empty.  `LostInv` says which messages may have failed: those put to the frame before its pane was registered, or since it is gone.  Section 1 of the module shows of every handler of every driver that it leaves the
inbox alone, section 2 that `stepDriver` keeps the invariant.

**Hooks.**  The invariant is that of a register whose last writer wins.  Of a frame's hooks on their way the newest is later than the one
taken last and is the newest event (`Coming`), or none is later and the status is the newest event's, or a hang was found since (`Answered`).  `SettledTheorem` assumes
`MaxRestarts = 0`, one life of the daemon: saved times are cut to the second, and what is sent while it is down is lost.

**Jobs.**  `FlagsMatchJobs` is not inductive: that a flag is set only with a job and cleared only with its result depends on where the ids are.  `JobInv` says that the ids
in queue, workers and results are apart and all in the table (`PoolOk`), that a flag of a live frame stands for one entry or, for a capture of generic and shell, perhaps
none (`Flags`), and that a frame not yet pushed has no entry.  A handler is abstracted once, for all drivers: `Runs(s, t, P)` says that `t` has
the flags of `s` and those of the jobs it asks for, and a path of `s` or of `P`.  `LoopStepIs` reduces the handlers of the loop to five kinds of
step, and of these only the landing of a result clears a flag.  That `StartJobs` takes new ids and drops what the queue has no room for, without its flag being cleared, is why the table and
not the pool is what a flag stands for.

**Shown transcripts.**  `ShownInv` says of each parse a worker took that it read no more than is written now and no less than its frame shows.  The step that matters is the landing of
a parse: no other parse of the frame may be in the pool then, which is the theorem before (`LoneParse`).  So it is the flag, and no order of workers, that keeps titles from going back.

**Approved calls.**  A prompt is counted where it is: its hook is on its way, or a pending call of its frame is marked, or a call is logged as approved.
`PromptInv` says that the three together are no more than the prompts the program showed.  A permission hook turns the first into the second, a Post the
second into the third (`WithinStill`); a Pre, a start, an end, an eviction and a restart only forget marks.  `Logged` says what a hook of Claude does
to marks and log, `Quiet` that every other handler leaves both alone.

**The taps.**  `HeardOnce` says nothing of bytes that are still on their way, and a byte does not say which notification it belongs to.  `TapsInv` therefore says that
there *are* places for the tokens of each file and of what its cat has still to write (`Streams`: the notification and the part of it), so that
* the places of a file are a `Chain`: whole notifications one after the other, of which only the last may be cut off, which a pipe that is closed leaves behind;
* files go on from one another (`Earlier`), a tap has a file of its own, later taps later files (`FilesOk`), and a cat writes the last (`CatOk`);
* the chunks in a tap's channel are what its file has between two places (`Cut`), and the parser has what follows from the places before them (`Fits`);
* what is in the loop's channel or was told is a notification of the tap's file that was over by then (`ThingOk`, `Done`).

The lemma under it is `FeedOk`, by induction over the chunk and on what `FoldLeft` computes (`FoldSteps`): from a parser that fits place `r` of a chain, the tokens up to `q` give a parser that fits `q`, and as events exactly some of the
notifications that end between the two, whole and in order, wherever the cut falls and even if the buffer of the parser is too small for them.
A new tap reads an empty file from its beginning with a new parser, so nothing it tells was told before.

**The relay.**  The invariant says of each entry that its offset is behind all lines sent of its file and within the file, and of the piece
that was read without the lock that its entry still has the offset it was cut at, or belongs to a session that is gone.  A gone session's files are never
followed again (`RelayTable`), and so no entry begins anew at an older offset under a piece that is on its way.
The theorem is about the behaviours of `Relay`, an instance in `StreamProofs` (`R!Spec`).

**Requests.**  `Total(c, id)` counts a request in five places: the socket up, the event channel, the hands of the loop, the outbox, the way back.  The
invariant `Accounted` says that the total is one for every request that waits and is not excused (a full queue dropped it, or its connection is
shut), and zero for one not yet made.  Each step has a lemma: the request *moves* (one count goes down, another up), or is lost together with its
excuse.  A close loses what is queued, and so `Accounted` needs `Lives`: a shut connection stays shut, one that is closing has a client that is gone, and commands in the
loop are those of connections that were open.

**Shutdown.**  `Shutdowns` says of those who asked that the answer is on the way back or taken; `Stop` throws the outboxes away but not what is in the sockets.

**The board.**  `WireProofs` proves that `Wire` implements the board, and from the actions of the board alone (`FeedsInit`, `FeedsStep`) that
its feeds are in order and behind the current version (`FeedsInv`): what is posted is current, and thinning turns nothing round (`PostedOrdered`, `ThinnedOrdered`).
`TablesInOrderAlways` puts the two together.  A feed is three queues one after the other.  A step of
the loop appends the current version at the end of the last, or to no feed, even when a handler queues an answer and a broadcast (`ExecuteBoth`, in either order).  A step of a
writer moves the head of one queue to the end of the next and leaves the feed as it is; whatever drops or takes something removes a part from
the middle (`Loses`), which is a `Thinned` feed of the abstract specification.  The model's bound on versions is part of the invariant (`Bounded`).

**The sidebar.**  The four properties rest on three invariants.
* `Base`: what a table, an event, a command, an answer, the cursor's item or the list names has been a session (`Born`).  A session that is created is
  therefore new to all of them, and `Base` is what later arguments about "the session that was made" begin with.  The workspace shown is one of the
  table's because every step that takes a table or a workspace corrects it.
* `PaletteInv`: a popup asks for a parameter its tool has (`Asking`), and a worktree switched on goes with the project it was switched on for (`WorktreeOk`).  The tools
  are left and entered by keys, by arguments, by create-project handing over, and by going back, and each of these has to
  drop the worktree or keep the project.
* `MadeInv`: every table on its way has the session that was made as the active one, or is older than it (`Kind`).  The session is `Pending`: the sidebar
  has not heard of it, and some table on its way will bring it into view; or it is `InView`: workspace and cursor are there.  Tables are a set here and not a queue, since two listeners may
  turn them round.  The step that matters is the first table with it that is handled: the sidebar sees a session it did not know as the active one.  What
  crosses it, an older table handled before, an answer to a preview, another client's change, a key, is shown to keep one of the two.

`CursorFollows` is about steps.  Its proof has a case for each step that makes the list anew, and needs that a session or a project is in a list once (`CursorOf` finds the
first), which in turn is a lemma on how the list is built from the table (`Kept`, `Items`).  `SidebarAssumption` has what the proofs assume of the constants: sessions are
in projects, projects in workspaces, there is a workspace, and the two words for a session that is not in the table are no statuses.

**Lists.**  How many messages of a queue carry an id (`Count`) and which tables are in it (`TablesOf`) are functions defined by recursion over the
queue.  `Lists` proves what they do to `Append`, `Tail` and `\o` by induction: not with the library's induction theorems, which take a predicate as a
parameter, but with a set of numbers without a least element (`WFMin`).  `StageProofs` has what `RoostProofs` and `DurableProofs` share: stacks, slots, swaps and the channel.

Only model-checked.  Liveness (`DeadFrameLeaves`, `RequestAnswered`, `Answered`, `JobsLand`, `PoolStops`, `Heard`, `TapEnds`): TLAPS has no
`ENABLED`.  `ReadsAsWhole` and `PromptOnBranch` of `Transcript`, which declares RECURSIVE operators: these are out of the prover's reach.  `NoGap` of `Relay`, which holds within the bounds of `tabs` only: backfills that come
late, several of them, may push newer lines out of the log program's buffer.

## 5. Where the code and its texts disagree

`streams` is a run of its own.  `FileRelay` puts the id of the *frame* into `SessionID` (`runtime/filerelay.go:240`), the log program compares
it with the id of the session (`tui/log_events.go:126`), and a root frame has an id of its own: pushed
lines of the TRANSCRIPT and EVENTS tabs are dropped until the tab is turned to again.  `tui/log_model_test.go:352` says that new sessions
"must stream EvtSessionFileLine immediately", and its test sends an id the daemon never sends.

The others were met while modelling.  The modules do what the code does, and no property claims more.

* Frames.  The probe reads the owner of 0.1 first and its liveness afterwards: a switch in between evicts a live frame for the death of another
  (`docs/process-model.md`: "the runtime identifies the owning frame").  A setup job that ends after its session was stopped brings the session back
  (`state/reduce_job.go`: stale results are dropped).  A session stopped while its window is being spawned leaves an agent no frame owns.  An agent that exits while parked
  takes its pane along; `PaneAlive` returns an error, which is skipped, and its frame stays in the list.  A TUI that dies
  in the hidden slot is respawned as the log TUI, even when it was the main one.
* Restarts.  The main TUI quits when its daemon dies.  While a frame is shown its own pane is in that frame's window, which has `remain-on-exit` off
  (`runtime/tmux_real.go:56`), and goes with it, unless the next start swaps it back first.  Otherwise the swap of the
  recovery fails (`runtime/bootstrap.go:225`), `RespawnMainPane` has no pane to respawn, and the frame stays in 0.1 under the occupant "main" until
  tmux is restarted.  The comment on `RecoverActivePaneAtMain` says it "restores a consistent main-pane owner on warm start" (`runtime/bootstrap.go:167`),
  `docs/state-monitoring.md:133` that "startup always returns pane `0.0` to the main TUI", and `docs/process-model.md:209` that the daemon
  "detects this and recovers via `respawn-pane`".  A toggle then puts the frame into the hidden window, and stopping it kills that window.  A cold start cut short makes the next one warm, and what was not respawned loses its files.  A failed save does not
  update `lastKnownIDs`, so a file it wrote is not pruned when its session stops.  A crash between showing a new frame and saving
  it leaves its pane in 0.1.
* IPC.  A subscribe handled after the close of its connection leaves it among the subscribers for good (broadcasts skip it).  The main program
  starts a second listener (`tui/main_model.go:87`), and the sidebar has two from the start (`tui/model.go:61`, `tui/sidebar_events.go:92`); two listeners may hand a program two tables
  the wrong way round.  The sidebar then goes back to a list without the session just created, and the cursor to another.
* Messages.  A message to a frame without a pane (not registered yet, or gone and not noticed) is answered as sent and marked as delivered (`state/reduce_peer.go:91`),
  and is lost: the injection fails (`runtime/inject_prompt.go:59`) and that is logged (`runtime/interpret.go:121`).  
* Watches.  `Watch` drops the old watch before it knows that the new one took (`runtime/fsnotify.go:56`).  The reader of an old tap removes the file
  under the pane's name, which may be the new tap's (`runtime/tmux_pipe_tap.go:62`).  An OSC sequence cut off by the program swallows the start of the next.
* The log program appends a backfill that comes late to whichever tab is active (`tui/log_events.go:51`).
* The sidebar reads beyond a list that got shorter than it was scrolled, and panics (`tui/sidebar_items.go:185`).  A turn of the wheel up in such a list
  clamps neither the offset nor the cursor to it (`tui/mouse.go:115`), so that the cursor is beyond the list until the list is made anew.  A session a filter or fold hides counts as
  new with every table and takes the focus to the main pane each time.  After a preview it asks for the focus of "0.3", which is not in the layout (`tui/panes.go:11`; the sidebar is 0.2).

## 6. Not modelled

* Logs (`runtime/eventlog.go`, `tool_log.go`, `logger/`): append-only files, their handle caches are the only state.
* Configuration, features, command line, wrappers of external commands: read once, or pure.
* Rendering of all programs, formatting of transcripts, encodings, desktop notifications, what GitHub answers.
* An unreadable session file, which makes `Load` fail for all: no text promises anything for it, and
  a step that loses everything would excuse every session.
* Worktree setup and the text of launch commands: a setup job succeeds or fails.
* Programs that misuse the socket, and the credentials the server checks.

## 7. Where to go on

A theorem for `NoGap` of `Relay` under bounds on the backfills; an abstract specification of sessions and one visible frame for `Roost` to implement.
