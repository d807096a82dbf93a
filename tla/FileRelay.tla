----------------------------- MODULE FileRelay -----------------------------
(***************************************************************************)
(* The daemon's FileRelay (runtime/filerelay.go): it follows files, notes  *)
(* which of them change, and a sweep reads what was appended and sends it  *)
(* on.  The watch loop and the sweep are goroutines beside the daemon's    *)
(* loop, which follows and forgets files.                                  *)
(*                                                                         *)
(* A file is the number of lines in it; a line is named by its file and    *)
(* its place.  A sweep takes whole lines; files only grow.                 *)
(***************************************************************************)
EXTENDS Naturals, Sequences, FiniteSets, SequencesExt

CONSTANTS
    Sessions,
    NoSession

ASSUME RelayAssumption == NoSession \notin Sessions

VARIABLES
    size,      \* lines of each file
    entry,     \* FileRelay.files: what is known of each file that is followed
    noted,     \* files with a change the watch loop has not taken
    sweeping,  \* entries the sweep took and has not read
    read,      \* what it read and has not sent: {} or one piece
    sent       \* ghost: the lines sent of each file

relay == <<size, entry, noted, sweeping, read, sent>>

App == <<"app", NoSession>>
Transcript(s) == <<"transcript", s>>
Events(s) == <<"events", s>>
NoPath == <<"none", NoSession>>
Files == {App} \cup {Transcript(s) : s \in Sessions} \cup {Events(s) : s \in Sessions}

RootFrame(s) == <<"frame", s>>
NoFrame == <<"frame", NoSession>>

LinesOf(path, from, to) == [i \in 1 .. (to - from) |-> <<path, from + i>>]

-----------------------------------------------------------------------------
(* What is followed *)

Following(p) == entry[p].on
NoEntry == [on |-> FALSE, frame |-> NoFrame, kind |-> "log", offset |-> 0, dirty |-> FALSE]

\* add: from the end of the file on; a file that is followed already stays as it is.
Add(entries, p, frame, kind) ==
    IF entries[p].on THEN entries
    ELSE [entries EXCEPT ![p] = [on |-> TRUE, frame |-> frame, kind |-> kind,
                                 offset |-> size[p], dirty |-> FALSE]]

UnwatchFile(entries, frame) ==
    [p \in Files |-> IF entries[p].on /\ entries[p].frame = frame THEN NoEntry ELSE entries[p]]

-----------------------------------------------------------------------------
(* The goroutines *)

WatchLoop(p) ==
    /\ p \in noted
    /\ noted' = noted \ {p}
    /\ entry' = IF Following(p) THEN [entry EXCEPT ![p].dirty = TRUE] ELSE entry
    /\ UNCHANGED <<size, sweeping, read, sent>>

\* The sweep takes the dirty entries under the lock, then reads them one by one
\* without it.
Sweep ==
    /\ sweeping = {} /\ read = {}
    /\ \E p \in Files : entry[p].dirty
    /\ sweeping' = {p \in Files : entry[p].dirty}
    /\ entry' = [p \in Files |-> [entry[p] EXCEPT !.dirty = FALSE]]
    /\ UNCHANGED <<size, noted, read, sent>>

\* An entry that has left the map in the meantime is read all the same; what is
\* then sent of it belongs to no tab, and is left out here.
ReadFrom(p) ==
    /\ p \in sweeping /\ read = {}
    /\ sweeping' = sweeping \ {p}
    /\ read' = IF Following(p) /\ size[p] > entry[p].offset
               THEN {[path |-> p, frame |-> entry[p].frame, kind |-> entry[p].kind, to |-> size[p]]}
               ELSE {}
    /\ UNCHANGED <<size, entry, noted, sent>>

Piece(r) ==
    LET lines == LinesOf(r.path, entry[r.path].offset, r.to) IN
    IF r.frame = NoFrame
    THEN [ev |-> "log", path |-> r.path, lines |-> lines]
    ELSE [ev |-> "file", id |-> r.frame, kind |-> r.kind, lines |-> lines]

BroadcastGone(r) ==
    /\ read = {r} /\ ~Following(r.path)
    /\ read' = {}
    /\ UNCHANGED <<size, entry, noted, sweeping, sent>>

-----------------------------------------------------------------------------
(* What is promised *)

\* Each line of a followed file is sent once, and lines are sent in their order,
\* though changes are noted, taken, read and sent by two goroutines (sweep).
RelayedOnce ==
    \A p \in Files : \A i, j \in DOMAIN sent[p] : i < j => sent[p][i][2] < sent[p][j][2]
=============================================================================
