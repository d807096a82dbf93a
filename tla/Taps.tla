-------------------------------- MODULE Taps --------------------------------
(***************************************************************************)
(* The tap of a frame (runtime/tap_manager.go, tmux_pipe_tap.go,           *)
(* osc_parser.go): what the pane of a root frame prints is piped by tmux   *)
(* through cat into a file, one goroutine reads the file into a channel,   *)
(* another looks for notifications in it and hands them to the loop.       *)
(*                                                                         *)
(* Bytes are tokens: the parts of a notification.  Notifications are       *)
(* numbered in the order the program prints them in.                       *)
(***************************************************************************)
EXTENDS Naturals, Sequences, FiniteSets, FiniteSetsExt, SequencesExt

CONSTANTS
    MaxSaid,    \* bound: notifications of the program
    MaxBoots,   \* bound: starts of the daemon
    WriteSize,  \* tokens of one write of cat
    ChunkSize,  \* tokens of one read
    ChanCap,    \* chunks the channel holds
    QueueCap,   \* events the loop's channel holds
    MaxOsc      \* tokens of an unfinished sequence the parser keeps

ASSUME TapAssumption == {MaxSaid, MaxBoots, WriteSize, ChunkSize, ChanCap, QueueCap, MaxOsc} \subseteq Nat \ {0}

VARIABLES
    frame,     \* "none", "live" or "gone"
    up,        \* the daemon runs
    restored,  \* it has started the taps of restored frames
    current,   \* the tap of the frame in cancels, 0 without one
    taps,      \* the goroutines of each start
    path,      \* the file under the pane's name, 0 without one
    files,     \* the contents of each file there was
    cat,       \* the process behind the pipe, and the file it has open
    pending,   \* what the pane printed and cat has not written
    queue,     \* eventCh: notifications
    said,      \* ghost: notifications printed
    boots,     \* ghost: starts of the daemon
    told,      \* ghost: notifications the loop took
    due        \* ghost: notifications printed under the present tap and not yet told

vars == <<frame, up, restored, current, taps, path, files, cat, pending, queue, said, boots, told, due>>

-----------------------------------------------------------------------------
(* The parser *)

Esc  == [k |-> "esc", n |-> 0]
Open == [k |-> "open", n |-> 0]
Bel  == [k |-> "bel", n |-> 0]
Back == [k |-> "back", n |-> 0]
Payload(n) == <<[k |-> "title", n |-> n], [k |-> "body", n |-> n]>>
Osc(n, st) == <<Esc, Open>> \o Payload(n) \o IF st THEN <<Esc, Back>> ELSE <<Bel>>

\* splitOscSeq and parseOscPayload: a sequence with nothing in it is no event.
Noticed(out, raw) == IF raw = <<>> THEN out ELSE Append(out, raw)

NewParser == [buf |-> <<>>, osc |-> FALSE, out |-> <<>>]

Fed(p, b) ==
    LET st == b = Back /\ p.buf # <<>> /\ Last(p.buf) = Esc IN
    CASE ~p.osc /\ b = Esc -> [p EXCEPT !.buf = <<Esc>>]
      [] p.buf = <<Esc>> /\ b = Open -> [p EXCEPT !.buf = <<>>, !.osc = TRUE]
      [] p.osc /\ (b = Bel \/ st) ->
             [buf |-> <<>>, osc |-> FALSE, out |-> Noticed(p.out, IF st THEN Front(p.buf) ELSE p.buf)]
      [] OTHER -> IF p.osc /\ Len(p.buf) < MaxOsc THEN [p EXCEPT !.buf = Append(@, b)]
                  ELSE [p EXCEPT !.buf = <<>>, !.osc = FALSE]

\* The parser goes on with what the last chunk left.
Feed_Anew(p, data) == FoldLeft(Fed, NewParser, data)
Feed(p, data) == FoldLeft(Fed, [p EXCEPT !.out = <<>>], data)

-----------------------------------------------------------------------------
(* Starting and stopping *)

NoCat == [on |-> FALSE, file |-> 0]

\* A tap the goroutines of an older one may still be around of is not fresh.
NewTap(file, old) == [file |-> file, pos |-> 0, ch |-> <<>>, parser |-> NewParser, cancelled |-> FALSE,
                      tail |-> TRUE, reader |-> TRUE, fresh |-> \A t \in DOMAIN old : ~old[t].tail]

Cancelled == [t \in DOMAIN taps |-> IF t = current THEN [taps[t] EXCEPT !.cancelled = TRUE] ELSE taps[t]]

\* tapManager.stop: the goroutines are cancelled, the pipe closed, the file removed.
ClosePipe ==
    IF current # 0 THEN cat' = NoCat /\ pending' = <<>> ELSE UNCHANGED <<cat, pending>>

StopTap ==
    /\ taps' = Cancelled
    /\ current' = 0 /\ path' = 0 /\ due' = {}
    /\ ClosePipe
    /\ UNCHANGED files

\* The file begins empty, and is there before cat has opened it.
TapFile_Kept(old) == IF path # 0 THEN [files |-> files, at |-> path]
                     ELSE [files |-> Append(files, <<>>), at |-> Len(files) + 1]
TapFile(old) == [files |-> Append(files, <<>>), at |-> Len(files) + 1]

\* tapManager.start: a tap there is stops first; tmux may refuse the pipe.
StartTap ==
    \/ LET f == TapFile(Cancelled) IN
       /\ taps' = Append(Cancelled, NewTap(f.at, Cancelled))
       /\ current' = Len(taps) + 1
       /\ files' = f.files /\ path' = f.at
       /\ \E opened \in BOOLEAN : cat' = [on |-> TRUE, file |-> IF opened THEN f.at ELSE 0]
       /\ pending' = <<>> /\ due' = {}
    \/ StopTap

\* EffRegisterPane of a new root frame.
RegisterPane ==
    /\ up /\ frame = "none" /\ frame' = "live"
    /\ StartTap
    /\ UNCHANGED <<up, restored, queue, said, boots, told>>

\* startRestoredTaps comes to the loop as a message: a frame that was registered
\* before it has its tap started again.
StartRestoredTaps ==
    /\ up /\ ~restored /\ restored' = TRUE
    /\ IF frame = "live" THEN StartTap ELSE UNCHANGED <<current, taps, path, files, cat, pending, due>>
    /\ UNCHANGED <<frame, up, queue, said, boots, told>>

UnregisterPane ==
    /\ up /\ frame = "live" /\ frame' = "gone"
    /\ IF current # 0 THEN StopTap ELSE UNCHANGED <<current, taps, path, files, cat, pending, due>>
    /\ UNCHANGED <<up, restored, queue, said, boots, told>>

\* The goroutines end with the process, whatever they have left to do.
Ended == [t \in DOMAIN taps |-> [taps[t] EXCEPT !.tail = FALSE, !.reader = FALSE, !.ch = <<>>, !.parser = NewParser]]

Crash ==
    /\ up /\ up' = FALSE
    /\ taps' = Ended /\ current' = 0 /\ queue' = <<>> /\ due' = {}
    /\ UNCHANGED <<frame, restored, path, files, cat, pending, said, boots, told>>

\* stopAll, when the loop ends.
Exit ==
    /\ up /\ up' = FALSE
    /\ taps' = Ended /\ current' = 0 /\ queue' = <<>> /\ due' = {}
    /\ ClosePipe
    /\ path' = IF current # 0 THEN 0 ELSE path
    /\ UNCHANGED <<frame, restored, files, said, boots, told>>

Boot ==
    /\ ~up /\ up' = TRUE /\ boots < MaxBoots /\ boots' = boots + 1
    /\ restored' = FALSE
    /\ UNCHANGED <<frame, current, taps, path, files, cat, pending, queue, said, told, due>>

-----------------------------------------------------------------------------
(* From the pane to the file *)

\* The program prints a notification, ended by ST and BEL in turn.
Say ==
    /\ frame = "live" /\ said < MaxSaid /\ said' = said + 1
    /\ pending' = IF cat.on THEN pending \o Osc(said', said % 2 = 0) ELSE pending
    /\ due' = IF current # 0 /\ taps[current].fresh THEN due \cup {said'} ELSE due
    /\ UNCHANGED <<frame, up, restored, current, taps, path, files, cat, queue, boots, told>>

CatOpens ==
    /\ cat.on /\ cat.file = 0
    /\ IF path # 0 THEN cat' = [cat EXCEPT !.file = path] /\ UNCHANGED <<files, path>>
       ELSE /\ files' = Append(files, <<>>)
            /\ path' = Len(files) + 1 /\ cat' = [cat EXCEPT !.file = Len(files) + 1]
    /\ UNCHANGED <<frame, up, restored, current, taps, pending, queue, said, boots, told, due>>

CatWrites ==
    /\ cat.on /\ cat.file # 0 /\ pending # <<>>
    /\ LET n == Min({WriteSize, Len(pending)}) IN
       /\ files' = [files EXCEPT ![cat.file] = @ \o SubSeq(pending, 1, n)]
       /\ pending' = SubSeq(pending, n + 1, Len(pending))
    /\ UNCHANGED <<frame, up, restored, current, taps, path, cat, queue, said, boots, told, due>>

-----------------------------------------------------------------------------
(* From the file to the loop *)

\* tailFile waits for room in the channel or for its end, whichever is first.
TailRead(t) ==
    LET tap  == taps[t]
        next == SubSeq(files[tap.file], tap.pos + 1, Min({tap.pos + ChunkSize, Len(files[tap.file])}))
    IN  /\ tap.tail /\ next # <<>> /\ Len(tap.ch) < ChanCap
        /\ taps' = [taps EXCEPT ![t].ch = Append(@, next), ![t].pos = @ + Len(next)]
        /\ UNCHANGED <<frame, up, restored, current, path, files, cat, pending, queue, said, boots, told, due>>

MayQuit_IfRoom(tap) == tap.cancelled /\ Len(tap.ch) < ChanCap
MayQuit(tap) == tap.cancelled

\* Its last act removes the file under the pane's name, its own or not.
TailQuit(t) ==
    /\ taps[t].tail /\ MayQuit(taps[t])
    /\ taps' = [taps EXCEPT ![t].tail = FALSE]
    /\ path' = 0
    /\ UNCHANGED <<frame, up, restored, current, files, cat, pending, queue, said, boots, told, due>>

\* readTap: an event the loop's channel has no room for is dropped.
ReadTap(t) ==
    /\ taps[t].reader /\ taps[t].ch # <<>>
    /\ LET p     == Feed(taps[t].parser, Head(taps[t].ch))
           found == [i \in DOMAIN p.out |-> [tap |-> t, raw |-> p.out[i]]]
       IN  \E room \in 0 .. QueueCap - Len(queue) :   \* other events may hold places
               LET kept == Min({Len(found), room}) IN
               /\ queue' = queue \o SubSeq(found, 1, kept)
               /\ due' = due \ {Head(found[i].raw).n : i \in kept + 1 .. Len(found)}
               /\ taps' = [taps EXCEPT ![t].ch = Tail(@), ![t].parser = p]
    /\ UNCHANGED <<frame, up, restored, current, path, files, cat, pending, said, boots, told>>

ReadQuit(t) ==
    /\ taps[t].reader /\ (taps[t].cancelled \/ (~taps[t].tail /\ taps[t].ch = <<>>))
    /\ taps' = [taps EXCEPT ![t].reader = FALSE, ![t].ch = <<>>, ![t].parser = NewParser]
    /\ UNCHANGED <<frame, up, restored, current, path, files, cat, pending, queue, said, boots, told, due>>

\* reducePaneOsc: a notification of a frame that is gone is no longer one.
LoopTakes ==
    /\ up /\ queue # <<>> /\ queue' = Tail(queue)
    /\ told' = IF frame = "live" THEN Append(told, Head(queue)) ELSE told
    /\ due' = due \ {Head(Head(queue).raw).n}
    /\ UNCHANGED <<frame, up, restored, current, taps, path, files, cat, pending, said, boots>>

-----------------------------------------------------------------------------
Init ==
    /\ frame \in {"none", "live"}
    /\ up = TRUE /\ restored = FALSE /\ current = 0 /\ taps = <<>> /\ path = 0 /\ files = <<>>
    /\ cat = NoCat /\ pending = <<>> /\ queue = <<>>
    /\ said = 0 /\ boots = 1 /\ told = <<>> /\ due = {}

Reading(t) == TailRead(t) \/ TailQuit(t) \/ ReadTap(t) \/ ReadQuit(t)

Running == CatOpens \/ CatWrites \/ LoopTakes \/ \E t \in DOMAIN taps : Reading(t)

Next ==
    \/ RegisterPane \/ StartRestoredTaps \/ UnregisterPane \/ Crash \/ Exit \/ Boot
    \/ Say \/ Running

\* While a process or goroutine can run, one of them does.
Spec == Init /\ [][Next]_vars /\ WF_vars(Running)

-----------------------------------------------------------------------------
(* Properties *)

\* What the loop is told is whole, however the bytes were cut into chunks and
\* wherever a pipe was cut off; nothing is told twice, not even by the tap of the
\* next daemon; and one tap tells in the order of the program (Start, feed).
HeardOnce ==
    \A i, j \in DOMAIN told :
        LET n(x) == Head(told[x].raw).n IN
        /\ told[i].raw = Payload(n(i))
        /\ i # j => n(i) # n(j)
        /\ i < j /\ told[i].tap = told[j].tap => n(i) < n(j)

\* What is printed under a tap that had no tap of the same pane to wait for comes
\* to the loop, unless the loop's channel is full or the tap is stopped: neither
\* a cat that opens its file late nor a sequence cut by a chunk loses it
\* (Start, tailFile, readTap).
Heard == due # {} ~> due = {}

\* The goroutines of a tap that was stopped end, with their channel full and
\* nobody left to take from it too (stop, tailFile, readTap).
Stopping == \E t \in DOMAIN taps : taps[t].cancelled /\ (taps[t].tail \/ taps[t].reader)
TapEnds == Stopping ~> ~Stopping
=============================================================================
