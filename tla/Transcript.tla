----------------------------- MODULE Transcript -----------------------------
(***************************************************************************)
(* The parse of a conversation's transcript: a program appends JSON lines  *)
(* to a file, and a job of the worker pool turns them into what the        *)
(* sidebar shows of the conversation.  For claude a tracker keeps what it  *)
(* read and goes on from its offset (lib/claude/transcript); for codex     *)
(* every job reads the whole file (lib/codex/transcript).                  *)
(*                                                                         *)
(* A file is a sequence of lines, the last one possibly half written; a    *)
(* position in it counts half lines.  A line has a number of its own,      *)
(* which stands for its uuid and its text, and holds one content block.    *)
(***************************************************************************)
EXTENDS Naturals, Sequences, FiniteSets, SequencesExt

CONSTANTS
    Agents,        \* of {"claude", "codex"}
    Kinds,         \* of the kinds of lines below, those the program writes
    Uses,          \* tool calls: <<name, argument>>
    PlanFile,      \* the argument that names a plan file
    MaxLines,      \* bound: lines written
    MaxRewrites,   \* bound: times the file is replaced
    MaxJobs,       \* bound: jobs; nothing is written after the last
    Tears,         \* a line may be on disk in part
    TurnsCap,      \* recentTurnsCap (64)
    CommandsCap,   \* maxRecentCommands (5)
    FilesCap,      \* maxTouchedFiles (10)
    Rounds         \* rounds handed to the summary (2)

VARIABLES
    agent,     \* the program whose conversation it is
    file,      \* its lines
    half,      \* 1 when the last line is half written, else 0
    ever,      \* ghost: every line written, in any file
    rewrites,  \* ghost: times replaced
    jobs,      \* ghost: jobs run
    st,        \* what the parser knows
    place,     \* ghost: how far the file has been read, by no count of the parser's
    seen       \* ghost: the lines a reader at that place found, since it last began anew

vars == <<agent, file, half, ever, rewrites, jobs, st, place, seen>>

None == 0  \* no line, no text

Line(n, kind, parent, of) == [n |-> n, kind |-> kind, parent |-> parent, of |-> of]

(* The lines of a claude transcript: the user's "prompt", "tagged" echo of a *)
(* command, "notice" (text claude itself puts in the user's place) and     *)
(* "result" of a call; the assistant's "text", hidden "thinking" and "use" *)
(* of a tool; "system", "title" and "agent" lines; and a "long" line of the *)
(* user, which does not fit in the scanner's buffer.                       *)
UserKinds      == {"prompt", "tagged", "notice", "result", "long"}
AssistantKinds == {"text", "thinking", "use"}
ChainKinds     == {"tagged", "notice", "long", "text", "thinking", "system"}
MetaKinds      == {"title", "agent"}
HasUUID(l) == l.kind \notin MetaKinds

-----------------------------------------------------------------------------
(* claude: one line into the tracker *)

NewTracker == [names |-> <<>>, title |-> None, parentOf |-> <<>>, prompts |-> {}, tail |-> None,
               turns |-> <<>>, tool |-> "", commands |-> <<>>, files |-> <<>>, subagents |-> 0,
               name |-> None, plan |-> "", tokens |-> 0, offset |-> 0]

LastOf(s, k) == SubSeq(s, IF Len(s) > k THEN Len(s) - k + 1 ELSE 1, Len(s))
With(f, x, v) == [y \in DOMAIN f \cup {x} |-> IF y = x THEN v ELSE f[y]]

AppendRecentTurn(turns, role, n, cap) == LastOf(Append(turns, <<role, n>>), cap)

AppendBoundedUnique(list, v, cap) ==
    LastOf(Append(SelectSeq(list, LAMBDA s : s # v), v), cap)

(* What parseLine makes of a line.  One with a uuid and nothing to show     *)
(* becomes a stub, so that the chain through it holds.                      *)
UserEntry(l) ==
    CASE l.kind = "prompt" -> "user"
      [] l.kind = "notice" -> "synthetic"
      [] l.kind = "result" -> "result"
      [] OTHER             -> "stub"

AssistantEntry(l) ==
    CASE l.kind = "text" -> "assistant"
      [] l.kind = "use"  -> "use"
      [] OTHER           -> "stub"

Entry(l) ==
    IF l.kind \in UserKinds THEN UserEntry(l)
    ELSE IF l.kind \in AssistantKinds THEN AssistantEntry(l)
    ELSE l.kind

ApplyChainEntry(t, l) ==
    IF ~HasUUID(l) THEN t
    ELSE [t EXCEPT !.parentOf = With(@, l.n, l.parent),
                   !.prompts  = IF Entry(l) = "user" THEN @ \cup {l.n} ELSE @,
                   !.turns    = IF Entry(l) \in {"user", "assistant"}
                                THEN AppendRecentTurn(@, Entry(l), l.n, TurnsCap) ELSE @,
                   !.tail     = l.n]

ApplyMetaEntry(t, l) ==
    IF Entry(l) = "title" THEN [t EXCEPT !.title = l.n]
    ELSE IF Entry(l) = "agent" THEN [t EXCEPT !.name = l.n]
    ELSE t

\* A call enters the index by which its result finds the name of its tool.
ParseUse(t, l) == [t EXCEPT !.names = With(@, l.n, l.of)]

NameOf(t, call) == IF call \in DOMAIN t.names THEN t.names[call][1] ELSE ""

\* The salient argument of a call, for the tools ParseToolInput knows.
Primary(use) ==
    IF use[1] \in {"Read", "Write", "Edit", "MultiEdit", "NotebookEdit", "Glob", "Grep", "Bash",
                   "WebFetch", "WebSearch", "Agent", "Task", "TaskCreate", "TaskUpdate", "TaskGet",
                   "TaskList", "TaskOutput", "TaskStop", "TodoWrite", "ExitPlanMode", "AskUserQuestion"}
    THEN use[2] ELSE ""

ApplyUse(t, l) ==
    LET tool == l.of[1]  arg == Primary(l.of) IN
    [t EXCEPT !.tool     = tool,
              !.commands = IF tool = "Bash" /\ arg # ""
                           THEN AppendBoundedUnique(@, arg, CommandsCap) ELSE @,
              !.files    = IF tool \in {"Read", "Write", "Edit", "MultiEdit"} /\ arg # ""
                           THEN AppendBoundedUnique(@, arg, FilesCap) ELSE @,
              !.plan     = IF tool = "Write" /\ arg = PlanFile THEN arg ELSE @]

ApplyResult(t, l) ==
    [t EXCEPT !.tool      = "",
              !.subagents = IF NameOf(t, l.of) \in {"Task", "Agent"} THEN @ + 1 ELSE @]

ApplyEntryToInsight(t, l) ==
    CASE Entry(l) = "use"    -> ApplyUse(t, l)
      [] Entry(l) = "result" -> ApplyResult(t, l)
      [] OTHER               -> t

\* Every line of the assistant carries its usage; one token each.
ParseTurnUsage(t, l) ==
    IF l.kind \in AssistantKinds THEN [t EXCEPT !.tokens = @ + 1] ELSE t

ApplyLine(t, l) ==
    LET used   == ParseTurnUsage(t, l)
        parsed == IF l.kind = "use" THEN ParseUse(used, l) ELSE used
    IN  ApplyEntryToInsight(ApplyChainEntry(ApplyMetaEntry(parsed, l), l), l)

\* The prompt of the active branch: the first one back from the tail.
RECURSIVE Walk(_, _)
Walk(t, at) == IF at = None \/ at \in t.prompts THEN at
               ELSE Walk(t, IF at \in DOMAIN t.parentOf THEN t.parentOf[at] ELSE None)
ActiveLastPrompt_Newest(t) == IF t.prompts = {} THEN None ELSE CHOOSE n \in t.prompts : \A o \in t.prompts : o <= n
ActiveLastPrompt(t) == Walk(t, t.tail)

Users(turns) == {i \in DOMAIN turns : turns[i][1] = "user"}
RecentRounds(turns) ==
    LET starts == {i \in Users(turns) : Cardinality({j \in Users(turns) : j >= i}) >= Rounds}
    IN  IF starts = {} THEN turns
        ELSE SubSeq(turns, CHOOSE i \in starts : \A j \in starts : j <= i, Len(turns))

-----------------------------------------------------------------------------
(* claude: the scan from the offset *)

Size == 2 * Len(file) - half
Begins(i) == 2 * (i - 1)
Ends(i) == 2 * i

\* The first line from `from` on that overflows the scanner.
Overflows(from) == {i \in DOMAIN file : Begins(i) >= from /\ Ends(i) <= Size /\ file[i].kind = "long"}
StopsAt(from) == IF Overflows(from) = {} THEN Len(file) + 1
                 ELSE CHOOSE i \in Overflows(from) : \A j \in Overflows(from) : i <= j

\* The lines a scan from `from` finds whole; the halves at its ends are no JSON
\* and are dropped.  The scanner runs to the end or into a line too long.
Whole(from) == SelectSeq([i \in DOMAIN file |-> i],
                         LAMBDA i : Begins(i) >= from /\ Ends(i) <= Size /\ i < StopsAt(from))
Reached_AtEnd(from) == Size
Reached(from) == IF Overflows(from) = {} THEN Size ELSE Begins(StopsAt(from)) + 1

ResetForRescan(t) == NewTracker

ScanNewLines(t) ==
    LET known == IF Size < t.offset THEN ResetForRescan(t) ELSE t
        lines == Whole(known.offset)
    IN  [FoldLeft(ApplyLine, known, [k \in DOMAIN lines |-> file[lines[k]]])
            EXCEPT !.offset = Reached(known.offset)]

-----------------------------------------------------------------------------
(* codex: one line of a rollout into the parser *)

NewParser == [title |-> None, prompt |-> None, last |-> None, model |-> None, tokens |-> None,
              turn |-> None, turns |-> <<>>]

ParseUserMessage(p, l) ==
    [p EXCEPT !.title  = IF @ = None THEN l.n ELSE @,
              !.prompt = l.n,
              !.turns  = AppendRecentTurn(@, "user", l.n, TurnsCap)]

ParseAgentMessage(p, l) == [p EXCEPT !.last = l.n]
ParseThreadNameUpdated(p, l) == [p EXCEPT !.title = l.n]
ParseTurnContext(p, l) == [p EXCEPT !.model = l.n]
ParseTokenCount(p, l) == [p EXCEPT !.tokens = l.n]
ParseTurnStarted(p, l) == [p EXCEPT !.turn = l.n]
\* A turn that completes brings the last message of the agent, or none.
ParseTurnComplete(p, l) ==
    [p EXCEPT !.last = l.n, !.turn = IF l.of = @ THEN None ELSE @]
ParseTurnAborted(p, l) == [p EXCEPT !.turn = IF l.of = @ THEN None ELSE @]
ParseMessageItem(p, l) ==
    [p EXCEPT !.last = l.n, !.turns = AppendRecentTurn(@, "assistant", l.n, TurnsCap)]
\* A rollback shows in the log tab and changes nothing.
ParseThreadRolledBack(p, l) == p

ParseLine(p, l) ==
    CASE l.kind = "prompt"   -> ParseUserMessage(p, l)
      [] l.kind = "say"      -> ParseAgentMessage(p, l)
      [] l.kind = "name"     -> ParseThreadNameUpdated(p, l)
      [] l.kind = "context"  -> ParseTurnContext(p, l)
      [] l.kind = "tokens"   -> ParseTokenCount(p, l)
      [] l.kind = "started"  -> ParseTurnStarted(p, l)
      [] l.kind = "complete" -> ParseTurnComplete(p, l)
      [] l.kind = "aborted"  -> ParseTurnAborted(p, l)
      [] l.kind = "item"     -> ParseMessageItem(p, l)
      [] OTHER               -> ParseThreadRolledBack(p, l)

CodexKinds == {"prompt", "say", "name", "context", "tokens", "started", "item", "rollback"}
EndKinds == {"complete", "aborted"}

-----------------------------------------------------------------------------
(* The writer *)

Born == Cardinality(ever)
Numbers(kind) == {l.n : l \in {m \in ever : m.kind = kind}}
\* Claude goes on from its last line; a prompt may also go back to an earlier
\* one, or start anew, and leave a branch behind.
Tip == LET chain == {l.n : l \in {m \in ever : HasUUID(m)}} IN
        IF chain = {} THEN None ELSE CHOOSE n \in chain : \A o \in chain : o <= n
Nodes == {None} \cup {l.n : l \in {m \in ever : HasUUID(m)}}

ClaudeLines(n) ==
    {Line(n, "prompt", p, None) : p \in Nodes}
    \cup {Line(n, k, Tip, None) : k \in ChainKinds}
    \cup {Line(n, "use", Tip, u) : u \in Uses}
    \cup {Line(n, "result", Tip, c) :
             c \in Numbers("use") \ {l.of : l \in {m \in ever : m.kind = "result"}}}
    \cup {Line(n, k, None, None) : k \in MetaKinds}

CodexLines(n) ==
    {Line(n, k, None, None) : k \in CodexKinds}
    \cup {Line(n, k, None, t) : k \in EndKinds, t \in Numbers("started")}

NextLines == {l \in IF agent = "claude" THEN ClaudeLines(Born + 1) ELSE CodexLines(Born + 1) :
                 l.kind \in Kinds}

Init ==
    /\ agent \in Agents
    /\ file = <<>> /\ half = 0 /\ ever = {} /\ rewrites = 0 /\ jobs = 0
    /\ st = IF agent = "claude" THEN NewTracker ELSE NewParser
    /\ place = 0 /\ seen = <<>>

Write(l) ==
    /\ half = 0 /\ Born < MaxLines /\ jobs < MaxJobs
    /\ file' = Append(file, l)
    /\ half' \in {0, IF Tears THEN 1 ELSE 0}
    /\ ever' = ever \cup {l}
    /\ UNCHANGED <<agent, rewrites, jobs, st, place, seen>>

WriteRest ==
    /\ half = 1 /\ jobs < MaxJobs
    /\ half' = 0
    /\ UNCHANGED <<agent, file, ever, rewrites, jobs, st, place, seen>>

\* Another file takes its place, with the lines it begins with.
Rewrite(l) ==
    /\ half = 0 /\ Born < MaxLines /\ jobs < MaxJobs /\ rewrites < MaxRewrites /\ file # <<>>
    /\ file' = <<l>>
    /\ ever' = ever \cup {l}
    /\ rewrites' = rewrites + 1
    /\ UNCHANGED <<agent, half, jobs, st, place, seen>>

-----------------------------------------------------------------------------
(* The jobs *)

\* What a reader of the file at a place has before it: the lines that begin
\* there or later, as far as one that does not fit in its buffer.
LinesBefore(at) == (at + 1) \div 2
Ahead(at) == SubSeq(file, LinesBefore(at) + 1, Len(file) - half)
Fitting(lines) ==
    LET long == {i \in DOMAIN lines : lines[i].kind = "long"}
    IN  IF long = {} THEN lines
        ELSE SubSeq(lines, 1, (CHOOSE i \in long : \A j \in long : i <= j) - 1)

\* The ghost reader goes on where it was, or anew in a file that has become shorter.
Observe ==
    LET anew == Size < place
        from == IF anew THEN 0 ELSE place
        read == Fitting(Ahead(from))
    IN  /\ seen' = (IF anew THEN <<>> ELSE seen) \o read
        /\ place' = IF read = Ahead(from) THEN Size
                    ELSE 2 * (LinesBefore(from) + Len(read)) + 1

\* The claude runner, under its lock: Update, then Snapshot.
TranscriptParse ==
    /\ agent = "claude" /\ file # <<>> /\ jobs < MaxJobs
    /\ jobs' = jobs + 1
    /\ st' = ScanNewLines(st)
    /\ Observe
    /\ UNCHANGED <<agent, file, half, ever, rewrites>>

\* The codex runner: a new parser, the whole file.
CodexTranscriptParse ==
    /\ agent = "codex" /\ file # <<>> /\ jobs < MaxJobs
    /\ jobs' = jobs + 1
    /\ LET lines == IF half = 1 THEN Front(file) ELSE file IN
       /\ st' = FoldLeft(ParseLine, NewParser, lines)
       /\ seen' = lines
    /\ UNCHANGED <<agent, file, half, ever, rewrites, place>>

Next ==
    \/ \E l \in NextLines : Write(l) \/ Rewrite(l)
    \/ WriteRest \/ TranscriptParse \/ CodexTranscriptParse

Spec == Init /\ [][Next]_vars

-----------------------------------------------------------------------------
(* What is promised *)

\* The last n of a kind among the lines seen, None if there is none.
LatestOf(kinds) == LET at == {i \in DOMAIN seen : seen[i].kind \in kinds} IN
                   IF at = {} THEN None ELSE CHOOSE i \in at : \A j \in at : j <= i
NumberAt(i) == IF i = None THEN None ELSE seen[i].n
OldestOf(kinds) == LET at == {i \in DOMAIN seen : seen[i].kind \in kinds} IN
                   IF at = {} THEN None ELSE CHOOSE i \in at : \A j \in at : i <= j

\* All that was said, and the calls of the given tools, in order.
Said(assistant) ==
    LET says == SelectSeq(seen, LAMBDA l : l.kind \in {"prompt", assistant})
    IN  [i \in DOMAIN says |-> <<IF says[i].kind = "prompt" THEN "user" ELSE "assistant", says[i].n>>]
Arguments(tools) ==
    LET calls == SelectSeq(seen, LAMBDA l : l.kind = "use" /\ l.of[1] \in tools)
    IN  [i \in DOMAIN calls |-> calls[i].of[2]]
\* The cap latest different ones, in the order they were last named.
Distinct(args, cap) ==
    LET lasts == {i \in DOMAIN args : \A j \in DOMAIN args : j > i => args[j] # args[i]}
    IN  LastOf([k \in 1 .. Cardinality(lasts) |->
                  args[CHOOSE i \in lasts : Cardinality({j \in lasts : j <= i}) = k]], cap)

UsesSeen == {i \in DOMAIN seen : seen[i].kind = "use"}

ClaudeAsWhole ==
    /\ st.title = NumberAt(LatestOf({"title"}))
    /\ st.name = NumberAt(LatestOf({"agent"}))
    /\ st.tokens = Len(SelectSeq(seen, LAMBDA l : l.kind \in AssistantKinds))
    /\ st.turns = LastOf(Said("text"), TurnsCap)
    /\ RecentRounds(st.turns) = LastOf(RecentRounds(Said("text")), TurnsCap)
    /\ st.commands = Distinct(Arguments({"Bash"}), CommandsCap)
    /\ st.files = Distinct(Arguments({"Read", "Write"}), FilesCap)
    /\ st.plan = IF <<"Write", PlanFile>> \in {seen[i].of : i \in UsesSeen} THEN PlanFile ELSE ""
    /\ st.tool = LET i == LatestOf({"use", "result"}) IN
                 IF i # None /\ seen[i].kind = "use" THEN seen[i].of[1] ELSE ""
    /\ st.subagents = Cardinality({<<i, j>> \in (DOMAIN seen) \X (DOMAIN seen) :
                                     /\ i < j /\ seen[i].kind = "use" /\ seen[i].of[1] = "Task"
                                     /\ seen[j].kind = "result" /\ seen[j].of = seen[i].n})

CodexAsWhole ==
    /\ st.title = LET i == LatestOf({"name"}) IN NumberAt(IF i # None THEN i ELSE OldestOf({"prompt"}))
    /\ st.prompt = NumberAt(LatestOf({"prompt"}))
    /\ st.last = NumberAt(LatestOf({"say", "item", "complete"}))
    /\ st.turns = LastOf(Said("item"), TurnsCap)
    /\ st.turn = LET i == LatestOf({"started"}) IN
                 IF i # None /\ \A j \in i .. Len(seen) :
                                  ~(seen[j].kind \in EndKinds /\ seen[j].of = seen[i].n)
                 THEN seen[i].n ELSE None

\* What offsets, increments, resets and bounded lists leave is what one reading
\* says of the lines a reader finds who goes on where he was: no line is taken
\* twice and none passed over but one cut in two or too long.  The title, the last Cap turns and the last rounds of all
\* that was said, the different commands and files by last use, the running
\* tool, the subagents that came back (transcript_tracker.go, transcript_insight.go,
\* codex/transcript/transcript.go).
ReadsAsWhole == IF agent = "claude" THEN ClaudeAsWhole ELSE CodexAsWhole

\* The ancestors of a line, itself included, by what was written.
ParentIn(n) == LET l == CHOOSE m \in ever : m.n = n IN l.parent
RECURSIVE Branch(_)
Branch(n) == IF n = None THEN {} ELSE {n} \cup Branch(ParentIn(n))

\* The prompt of claude is never one of an abandoned branch, nor text claude put
\* there itself: whatever lines the scan lost, the prompt found is the last real
\* one on the branch of the tracker's tail, or there is none (activeLastPrompt).
PromptOnBranch ==
    agent = "claude" =>
        LET p == ActiveLastPrompt(st)
            real == Branch(st.tail) \cap Numbers("prompt")
        IN  p # None => p \in real /\ \A q \in real : q <= p

=============================================================================
