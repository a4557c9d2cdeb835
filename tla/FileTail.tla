------------------------------ MODULE FileTail ------------------------------
(***************************************************************************)
(* One source being followed on the monitored host: the backfill that      *)
(* start_tail asks for, the follower task, and the program that writes the *)
(* log while somebody rotates, removes or truncates it.                    *)
(* agentcore/local.py and the tail handlers of agent/dispatch.py.          *)
(*                                                                         *)
(* A byte is the number of its writing, so a byte tells when it was        *)
(* written; `breaks' says which bytes are newlines.  A journal unit or a   *)
(* container is a log of whole lines read through a child process.         *)
(***************************************************************************)
EXTENDS Integers, Sequences, FiniteSets, SequencesExt

CONSTANTS
    Inodes,         \* files the path can name, reused once nobody holds them
    Nowhere,        \* no file
    Begin,          \* longest log that exists before anyone asks for it
    MaxBytes,       \* bytes written in all
    MaxFaults,      \* rotations, removals and truncations in all
    BackfillLines,  \* BACKFILL_LINES
    BlockSize,      \* the block of _read_last_lines_sync
    ChunkSize,      \* READ_CHUNK
    Regrows         \* may a truncated file outgrow what was read, unseen?

ASSUME InodesAssumption == Inodes # {} /\ Nowhere \notin Inodes
ASSUME BytesAssumption == Begin \in Nat /\ MaxBytes \in Nat /\ MaxFaults \in Nat
ASSUME SizesAssumption == {BackfillLines, BlockSize, ChunkSize} \subseteq Nat \ {0}
ASSUME RegrowsAssumption == Regrows \in BOOLEAN

VARIABLES
    source,    \* "file", or "command" for journalctl and docker logs
    disk,      \* the contents of each file
    path,      \* the file the path names
    writer,    \* the file the program holds open for appending
    written,   \* bytes written so far
    breaks,    \* which of them are newlines
    starts,    \* which of them were written at the start of a file
    faults,
    place,     \* the await the handler or the follower is in
    fd, pos,   \* the follower's file and its f.tell()
    proc,      \* the child process of a command
    pending,   \* bytes of an unfinished line
    ready,     \* complete lines of the chunk not yet yielded
    corpus,    \* the log when the backfill was read
    backfill,  \* the lines of tail_backfill
    lines,     \* the tail_line messages
    stopped,   \* the task was cancelled
    told       \* an error or a tail_error was sent

hostVars == <<source, disk, path, writer, written, breaks, starts, faults>>
tailVars == <<place, fd, pos, proc, pending, ready, corpus, backfill, lines,
              stopped, told>>

Places == {"asked", "opening", "reading", "sending", "checking", "reopening",
           "napping", "closing", "closed"}

-----------------------------------------------------------------------------
(* Lines of a sequence of bytes. A line carries its newline. *)

BreaksIn(s) == {i \in 1..Len(s) : s[i] \in breaks}

Newlines(s) == Cardinality(BreaksIn(s))

\* The end of the k-th line, the position with k newlines up to it.
Cut(s, k) ==
    CHOOSE c \in {0} \cup BreaksIn(s) : Cardinality({b \in BreaksIn(s) : b <= c}) = k

Complete(s) == [k \in 1..Newlines(s) |-> SubSeq(s, Cut(s, k - 1) + 1, Cut(s, k))]

Rest(s) == SubSeq(s, Cut(s, Newlines(s)) + 1, Len(s))

LastOf(n, s) == SubSeq(s, (IF Len(s) > n THEN Len(s) - n ELSE 0) + 1, Len(s))

\* The blocks read backwards, until they hold more than BackfillLines newlines.
Loaded(s) ==
    LET Block(k) == LastOf(k * BlockSize, s)
        Enough(k) == \/ Len(Block(k)) = Len(s)
                     \/ Newlines(Block(k)) > BackfillLines
    IN  Block(CHOOSE k \in 0..Len(s) : Enough(k) /\ \A j \in 0..k - 1 : ~Enough(j))

\* What _read_last_lines_sync returns: a first piece that may be cut is
\* dropped, and so is the empty piece after a final newline.
ReadLastLines(s) ==
    LET data   == Loaded(s)
        pieces == Complete(data) \o <<Rest(data)>>
        whole  == IF Len(data) < Len(s) THEN Tail(pieces) ELSE pieces
        kept   == IF whole # <<>> /\ Last(whole) = <<>> THEN Front(whole) ELSE whole
    IN  LastOf(BackfillLines, kept)

-----------------------------------------------------------------------------

FollowInit ==
    /\ source \in {"file", "command"}
    /\ writer = CHOOSE i \in Inodes : TRUE
    /\ path \in {writer} \cup (IF source = "file" THEN {Nowhere} ELSE {})
    /\ \E n \in 0..Begin :
          /\ written = n
          /\ disk = [i \in Inodes |-> IF i = writer THEN [k \in 1..n |-> k] ELSE <<>>]
          /\ breaks \in IF source = "file" THEN SUBSET (1..n) ELSE {1..n}
          /\ starts = 1..n \cap {1}
    /\ faults = 0
    /\ place = "asked" /\ fd = Nowhere /\ pos = 0 /\ proc = "none"
    /\ pending = <<>> /\ ready = <<>>
    /\ corpus = <<>> /\ backfill = <<>> /\ lines = <<>>
    /\ stopped = FALSE /\ told = FALSE

(* The host *)

\* A program appends a byte.  Unless Regrows, a file that was truncated stays
\* shorter than what the follower has read until the follower looks at it.
Write(isBreak) ==
    /\ written < MaxBytes
    /\ source = "command" => isBreak
    /\ writer = fd /\ Len(disk[writer]) < pos /\ ~Regrows => Len(disk[writer]) + 1 < pos
    /\ written' = written + 1
    /\ disk' = [disk EXCEPT ![writer] = Append(@, written')]
    /\ breaks' = IF isBreak THEN breaks \cup {written'} ELSE breaks
    /\ starts' = IF disk[writer] = <<>> THEN starts \cup {written'} ELSE starts
    /\ UNCHANGED <<source, path, writer, faults, tailVars>>

Fault == source = "file" /\ faults < MaxFaults /\ faults' = faults + 1

\* The log is renamed or removed; who holds it open still can use it.
Rename ==
    /\ Fault /\ path # Nowhere
    /\ path' = Nowhere
    /\ UNCHANGED <<source, disk, writer, written, breaks, starts, tailVars>>

\* A new file appears under the path, empty.
Create ==
    /\ path = Nowhere
    /\ path' \in Inodes \ {fd, writer}
    /\ disk' = [disk EXCEPT ![path'] = <<>>]
    /\ UNCHANGED <<source, writer, written, breaks, starts, faults, tailVars>>

\* The program opens its log again.
Reopen ==
    /\ path # Nowhere /\ writer # path
    /\ writer' = path
    /\ UNCHANGED <<source, disk, path, written, breaks, starts, faults, tailVars>>

Truncate ==
    /\ Fault /\ path # Nowhere /\ disk[path] # <<>>
    /\ disk' = [disk EXCEPT ![path] = <<>>]
    /\ UNCHANGED <<source, path, writer, written, breaks, starts, tailVars>>

-----------------------------------------------------------------------------
(* start_tail, and the follower *)

\* The exception of a handler or of the follower is reported.
Fails ==
    /\ place' = "closed" /\ told' = TRUE
    /\ UNCHANGED <<hostVars, fd, pos, proc, pending, ready, corpus, backfill,
                   lines, stopped>>

\* read_tail() and the tail_backfill it is sent in; then the task is created.
ReadTail ==
    /\ place = "asked" /\ path # Nowhere
    /\ corpus' = disk[path]
    /\ backfill' = ReadLastLines(corpus')
    /\ place' = "opening"
    /\ UNCHANGED <<hostVars, fd, pos, proc, pending, ready, lines, stopped, told>>

\* There is no such file, or the command is missing or exits with an error.
ReadTailFails ==
    /\ place = "asked" /\ (path = Nowhere \/ source = "command")
    /\ Fails

\* The follower opens the file at its end, or starts `--follow --tail 0'.
Open ==
    /\ place = "opening" /\ path # Nowhere
    /\ fd' = path /\ pos' = Len(disk[path])
    /\ proc' = IF source = "command" THEN "running" ELSE proc
    /\ place' = "reading"
    /\ UNCHANGED <<hostVars, pending, ready, corpus, backfill, lines, stopped, told>>

\* Nothing to open, at the start or after a rotation: the exception ends it.
OpenFails ==
    /\ place \in {"opening", "reopening"} /\ (path = Nowhere \/ source = "command")
    /\ Fails

\* A chunk of a file, or a line of a command: the lines it completes are ready.
Read ==
    /\ place = "reading" /\ pos < Len(disk[fd])
    /\ LET size  == IF source = "command" THEN 1 ELSE ChunkSize
           end   == IF pos + size < Len(disk[fd]) THEN pos + size ELSE Len(disk[fd])
           bytes == pending \o SubSeq(disk[fd], pos + 1, end)
       IN  /\ pos' = end
           /\ ready' = Complete(bytes)
           /\ pending' = Rest(bytes)
    /\ place' = IF ready' = <<>> THEN "reading" ELSE "sending"
    /\ UNCHANGED <<hostVars, fd, proc, corpus, backfill, lines, stopped, told>>

\* _follow() sends the line that was yielded.
Send ==
    /\ place = "sending"
    /\ lines' = Append(lines, Head(ready))
    /\ ready' = Tail(ready)
    /\ place' = IF ready' = <<>> THEN "reading" ELSE "sending"
    /\ UNCHANGED <<hostVars, fd, pos, proc, pending, corpus, backfill, stopped, told>>

\* An empty read: of a file, it may have been rotated or truncated; of a
\* command, it has ended and the loop is left.
ReadNothing ==
    /\ place = "reading" /\ pos >= Len(disk[fd])
    /\ \/ source = "file" /\ place' = "checking"
       \/ source = "command" /\ proc = "exited" /\ place' = "closing"
    /\ UNCHANGED <<hostVars, fd, pos, proc, pending, ready, corpus, backfill,
                   lines, stopped, told>>

\* The child process ends by itself.
Exits ==
    /\ proc = "running"
    /\ proc' = "exited"
    /\ UNCHANGED <<hostVars, place, fd, pos, pending, ready, corpus, backfill,
                   lines, stopped, told>>

\* Wrong variants: the unfinished line survives a new file, and a truncation is
\* not noticed.
RotatedKeepsPending ==
    /\ place = "checking" /\ path \notin {Nowhere, fd}
    /\ fd' = Nowhere /\ place' = "reopening"
    /\ UNCHANGED <<hostVars, pos, proc, pending, ready, corpus, backfill, lines,
                   stopped, told>>
TruncatedUnseen ==
    /\ place = "checking" /\ path = fd /\ Len(disk[fd]) < pos
    /\ place' = "napping"
    /\ UNCHANGED <<hostVars, fd, pos, proc, pending, ready, corpus, backfill,
                   lines, stopped, told>>

\* _check_rotation(): "rotated".  The old file is closed before the new opens.
Rotated ==
    /\ place = "checking" /\ path \notin {Nowhere, fd}
    /\ fd' = Nowhere /\ pending' = <<>> /\ place' = "reopening"
    /\ UNCHANGED <<hostVars, pos, proc, ready, corpus, backfill, lines, stopped, told>>

ReopenNew ==
    /\ place = "reopening" /\ path # Nowhere
    /\ fd' = path /\ pos' = 0 /\ place' = "napping"
    /\ UNCHANGED <<hostVars, proc, pending, ready, corpus, backfill, lines,
                   stopped, told>>

\* "truncated"
Truncated ==
    /\ place = "checking" /\ path = fd /\ Len(disk[fd]) < pos
    /\ pos' = 0 /\ pending' = <<>> /\ place' = "napping"
    /\ UNCHANGED <<hostVars, fd, proc, ready, corpus, backfill, lines, stopped, told>>

\* "missing" and "unchanged"
Unchanged ==
    /\ place = "checking"
    /\ path = Nowhere \/ (path = fd /\ Len(disk[fd]) >= pos)
    /\ place' = "napping"
    /\ UNCHANGED <<hostVars, fd, pos, proc, pending, ready, corpus, backfill,
                   lines, stopped, told>>

Nap ==
    /\ place = "napping" /\ place' = "reading"
    /\ UNCHANGED <<hostVars, fd, pos, proc, pending, ready, corpus, backfill,
                   lines, stopped, told>>

\* stop_tail, or the connection dropped: the task is cancelled in its await.
Stop ==
    /\ place \notin {"asked", "closing", "closed"}
    /\ place' = "closing" /\ stopped' = TRUE
    /\ UNCHANGED <<hostVars, fd, pos, proc, pending, ready, corpus, backfill,
                   lines, told>>

\* The finally clauses: the file is closed, a child that still runs terminated.
Close ==
    /\ place = "closing"
    /\ place' = "closed" /\ fd' = Nowhere
    /\ proc' = IF proc = "running" THEN "exited" ELSE proc
    /\ UNCHANGED <<hostVars, pos, pending, ready, corpus, backfill, lines,
                   stopped, told>>

-----------------------------------------------------------------------------

\* What the host does before is in the initial states, and nobody sees what it
\* does after.
Host ==
    /\ place \notin {"asked", "closing", "closed"}
    /\ (\E isBreak \in BOOLEAN : Write(isBreak)) \/ Rename \/ Create \/ Reopen \/ Truncate

Follower ==
    \/ ReadTail \/ ReadTailFails \/ Open \/ OpenFails \/ Read \/ Send
    \/ ReadNothing \/ Rotated \/ ReopenNew \/ Truncated \/ Unchanged \/ Nap
    \/ Close

FollowNext == Host \/ Follower \/ Exits \/ Stop

\* The task is scheduled; nothing obliges the host to write or to rotate.
FollowFairness == WF_<<hostVars, tailVars>>(Follower)

-----------------------------------------------------------------------------

FollowTypeOK ==
    /\ disk \in [Inodes -> Seq(1..written)]
    /\ path \in Inodes \cup {Nowhere} /\ writer \in Inodes
    /\ place \in Places
    /\ fd \in Inodes \cup {Nowhere}
    /\ place \in {"reading", "sending", "checking", "napping"} => fd # Nowhere
    /\ place = "sending" => ready # <<>>
    /\ BreaksIn(pending) = {}
    /\ proc = "running" => source = "command"

\* A line as somebody wrote it: consecutive bytes of one file, up to a newline.
\* Only the first line after the end was sought may lack its beginning.
IsLine(l, first) ==
    /\ \A i \in 1..Len(l) : l[i] = l[1] + i - 1 /\ (l[i] \in breaks <=> i = Len(l))
    /\ \A i \in 2..Len(l) : l[i] \notin starts
    /\ first \/ l[1] \in starts \/ l[1] - 1 \in breaks

\* The lines of a log, the last of which may be unfinished.
Lines(s) == Complete(s) \o (IF Rest(s) = <<>> THEN <<>> ELSE <<Rest(s)>>)

\* Every byte is younger than all before it, in its line and in earlier lines.
Increasing(ls) ==
    /\ \A k \in 1..Len(ls) : \A i \in 1..Len(ls[k]) - 1 : ls[k][i] < ls[k][i + 1]
    /\ \A k \in 1..Len(ls), m \in 1..Len(ls) : k < m =>
          \A i \in 1..Len(ls[k]), j \in 1..Len(ls[m]) : ls[k][i] < ls[m][j]

\* The backfill is the last lines of the log; what follows are lines as they
\* were written, each once and in order, none made of the pieces of two files
\* (local.py 57-79, 367-397).
ShownIsWritten ==
    /\ place \notin {"asked", "closed"} =>
          backfill = LastOf(BackfillLines, Lines(corpus))
    /\ \A k \in 1..Len(lines) : IsLine(lines[k], k = 1)
    /\ Increasing(backfill \o lines)

CaughtUp ==
    \/ path = Nowhere
    \/ fd = path /\ pos = Len(disk[path]) /\ ready = <<>> /\ place # "asked"
    \/ place = "closed" /\ fd = Nowhere /\ proc # "running" /\ (stopped \/ told \/ proc = "exited")

\* "Yield new lines appended to `path` as they arrive, forever (until
\* cancelled)" (base.py 64): however the log is rotated and truncated, the
\* follower comes to the end of the file the path names, or it ended, released
\* its file or process, and whoever asked was told or stopped it.
CaughtUpOrTold == []<>CaughtUp
=============================================================================
