------------------------------ MODULE Palette ------------------------------
(***************************************************************************)
(* The command palette (tui/palette.go, tui/palette_flow.go, tools/): a    *)
(* popup of its own process in which one tool is chosen, its parameters    *)
(* are filled in one by one, and the tool sends its command as a client of *)
(* its own.  What is typed to narrow a list is left out: any option may be *)
(* the one that Enter takes.                                               *)
(***************************************************************************)
EXTENDS Naturals, Sequences, FiniteSets

CONSTANTS
    Projects,        \* config: projects
    GitProjects,     \* those git.IsRepo says yes to
    ProjectRoots,    \* config: project_roots
    Commands,        \* config: commands
    PushCommands,    \* config: push_commands
    DefaultCommand,  \* config: default_command
    Peers            \* the feature that adds send-to-session

VARIABLES
    popup,   \* the popup of the tmux client, or Closed
    asked    \* commands of popups on their way to the daemon

Closed == [phase |-> "closed"]
NoArgs == <<>>
NoTool == ""
NoSession == ""
FreeText == "text"     \* a line typed where no options are offered
MadeDir == "made"      \* the directory create-project makes

\* DefaultRegistry, in its order; push-driver is reachable by name only.
Params(tool) ==
    CASE tool = "new-session"     -> <<"project", "command">>
      [] tool = "create-project"  -> <<"root", "name">>
      [] tool = "stop-session"    -> <<"session_id">>
      [] tool = "push-driver"     -> <<"command">>
      [] tool = "send-to-session" -> <<"target", "text">>
      [] OTHER                    -> <<>>
Visible == {"new-session", "create-project", "stop-session", "detach", "shutdown"}
           \cup (IF Peers THEN {"send-to-session"} ELSE {})

Options(tool, param, live) ==
    CASE param = "project"                             -> Projects
      [] param = "command" /\ tool = "push-driver"     -> PushCommands
      [] param = "command"                             -> Commands
      [] param = "root"                                -> ProjectRoots
      [] param = "target"                              -> live
      [] OTHER                                         -> {}

With(args, name, value) == [n \in DOMAIN args \cup {name} |-> IF n = name THEN value ELSE args[n]]
Without(args, name) == [n \in DOMAIN args \ {name} |-> args[n]]
Has(args, name, value) == name \in DOMAIN args /\ args[name] = value
\* An argument without a value is not passed on to the popup.
PassedOn(args) == [n \in {x \in DOMAIN args : args[x] # ""} |-> args[n]]
Arg(args, name) == IF name \in DOMAIN args THEN args[name] ELSE ""

-----------------------------------------------------------------------------
(* A tool that has all it needs runs, and the popup closes or goes on with *)
(* the tool the first one names.                                           *)

Command(p) ==
    CASE p.tool = "new-session"  -> [op |-> "create", project |-> Arg(p.args, "project"),
                                     command |-> Arg(p.args, "command"),
                                     worktree |-> Has(p.args, "worktree", "on")]
      [] p.tool = "stop-session" -> [op |-> "stop", session |-> p.args["session_id"]]
      [] p.tool = "push-driver"  -> [op |-> "push", session |-> Arg(p.ctx, "session_id"),
                                     command |-> p.args["command"]]
      [] p.tool = "send-to-session" -> [op |-> "send", session |-> p.args["target"]]
      [] OTHER -> [op |-> p.tool]

\* Which parameter is asked for next: the first that is not filled in.
NextParam(p) ==
    LET open == {i \in p.index .. Len(Params(p.tool)) : Params(p.tool)[i] \notin DOMAIN p.args}
    IN  IF open = {} THEN Len(Params(p.tool)) + 1 ELSE CHOOSE i \in open : \A j \in open : i <= j

\* A worktree is offered for a project that is a git repository, and for no other.
AskParam_Anyway(p, i) ==
    LET q == [p EXCEPT !.phase = "param", !.index = i] IN
    IF p.tool = "new-session" /\ Params(p.tool)[i] = "command"
    THEN [q EXCEPT !.git = TRUE,
                   !.args = IF p.worktree THEN With(p.args, "worktree", "on") ELSE Without(p.args, "worktree")]
    ELSE q

AskParam(p, i) ==
    LET q   == [p EXCEPT !.phase = "param", !.index = i]
        git == Arg(p.args, "project") \in GitProjects
    IN  IF p.tool = "new-session" /\ Params(p.tool)[i] = "command"
        THEN [q EXCEPT !.git = git, !.worktree = git /\ p.worktree,
                       !.args = IF git /\ p.worktree THEN With(p.args, "worktree", "on")
                                ELSE Without(p.args, "worktree")]
        ELSE q

\* create-project makes a directory under a root of the configuration; when
\* that fails, the error closes the popup.
RunTool(p) ==
    IF p.tool = "create-project"
    THEN /\ UNCHANGED asked
         /\ \/ popup' = Closed
            \/ /\ p.args["root"] \in ProjectRoots
               /\ LET q == [p EXCEPT !.tool = "new-session", !.index = 1,
                                     !.args = [n \in {"project"} |-> MadeDir]]
                  IN  popup' = AskParam(q, NextParam(q))
    ELSE /\ popup' = Closed
         /\ asked' = IF p.tool = "push-driver" /\ "session_id" \notin DOMAIN p.ctx
                     THEN asked ELSE asked \cup {Command(p)}

AdvanceParam(p) ==
    IF NextParam(p) <= Len(Params(p.tool))
    THEN popup' = AskParam(p, NextParam(p)) /\ UNCHANGED asked
    ELSE RunTool(p)

StartTool(p, tool) ==
    AdvanceParam([p EXCEPT !.tool = tool, !.args = p.ctx, !.worktree = Has(p.ctx, "worktree", "on")])

-----------------------------------------------------------------------------
(* Opening and keys *)

\* What the popup starts with: the tool of its command line, if any, and the
\* arguments given there; push-driver takes the session that is active now and
\* gives up without one.
Opened(tool, args, active) ==
    LET ctx == IF tool = "push-driver" /\ active # NoSession THEN With(args, "session_id", active) ELSE args
    IN  IF tool = "push-driver" /\ active = NoSession THEN Closed
        ELSE [phase |-> IF tool = NoTool THEN "tool" ELSE "start", initial |-> tool, tool |-> NoTool,
              index |-> 1, args |-> NoArgs, ctx |-> ctx, worktree |-> FALSE, git |-> FALSE]

Begin ==
    /\ popup.phase = "start"
    /\ StartTool(popup, popup.initial)

SelectTool(tool) ==
    /\ popup.phase = "tool" /\ tool \in Visible
    /\ StartTool(popup, tool)

\* Enter on a parameter: an option of the list, or what was typed where no
\* options are offered; a stop may be typed for any session.
SelectParam(live, value) ==
    /\ popup.phase = "param"
    /\ LET p    == Params(popup.tool)[popup.index]
           opts == Options(popup.tool, p, live)
       IN  /\ value \in (IF opts # {} THEN opts ELSE IF p = "session_id" THEN live ELSE {FreeText})
           /\ AdvanceParam([popup EXCEPT !.args = With(@, p, value), !.index = @ + 1])

ToggleWorktree ==
    /\ popup.phase = "param" /\ popup.tool = "new-session"
    /\ Params(popup.tool)[popup.index] = "command" /\ popup.git
    /\ popup' = [popup EXCEPT !.worktree = ~@,
                              !.args = IF popup.worktree THEN Without(@, "worktree")
                                       ELSE With(@, "worktree", "on")]
    /\ UNCHANGED asked

\* Escape leaves a popup that was opened for one tool, else it goes back to the
\* list of tools.
Escape_KeepsPhase ==
    /\ popup.phase \in {"tool", "param"}
    /\ popup' = IF popup.phase = "tool" \/ popup.initial # NoTool THEN Closed
                ELSE [popup EXCEPT !.tool = NoTool, !.index = 1]
    /\ UNCHANGED asked

Escape ==
    /\ popup.phase \in {"tool", "param"}
    /\ popup' = IF popup.phase = "tool" \/ popup.initial # NoTool THEN Closed
                ELSE [popup EXCEPT !.phase = "tool", !.tool = NoTool, !.index = 1]
    /\ UNCHANGED asked

PaletteKey(live) ==
    \/ \E tool \in Visible : SelectTool(tool)
    \/ \E v \in Projects \cup Commands \cup PushCommands \cup ProjectRoots \cup live \cup {FreeText} :
           SelectParam(live, v)
    \/ ToggleWorktree
    \/ Escape

\* A worktree is asked for only in a git repository, whichever way the popup
\* got to the command: by keys, by arguments, through create-project, back and
\* forth (advanceParam, handleParamSelect).
WorktreeInGit == \A c \in asked : c.op = "create" /\ c.worktree => c.project \in GitProjects

=============================================================================
