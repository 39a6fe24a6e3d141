----------------------------- MODULE LogFiles -----------------------------
(***************************************************************************)
(* zoho_log.c: the log file that all threads write to, rolled when it has  *)
(* grown too large, and the cloud log reader that keeps its own handle on  *)
(* it and uploads what was added since its last upload.  The writers hold  *)
(* a lock and are one; nothing keeps two uploads, or an upload and a       *)
(* zclient_init, from using ZcloudLog at once.                             *)
(*                                                                         *)
(* Lines are numbered in the order they are written and have LineBytes     *)
(* bytes, the newline included; a file is the sequence of its lines.  A    *)
(* handle keeps its file when the file is renamed or removed.  The lines   *)
(* the reader logs itself are writes like any other between its steps.     *)
(***************************************************************************)
EXTENDS Integers, Sequences, SequencesExt, FiniteSets, FiniteSetsExt

CONSTANTS LineBytes,
          maxLogFileSize, maxRollingLogFile,
          Margin,              \* the reader opens the file again this early: 5000
          MAXIMUM_READ, NUM_LINES_TO_READ,
          LINE_SIZE,           \* the buffer of fgets, its end included
          MaxLines,            \* lines written
          MaxRemovals          \* times somebody removes the log file

ASSUME LogAssumption ==
    /\ LineBytes \in Nat \ {0, 1}
    /\ {maxLogFileSize, maxRollingLogFile, Margin, MAXIMUM_READ, MaxLines, MaxRemovals} \subseteq Nat
    /\ NUM_LINES_TO_READ \in Nat \ {0}
    /\ LINE_SIZE \in Nat \ {0, 1}

VARIABLES
    disk,      \* the files, the names that lead to them and the writer's handle
    written,   \* the number of lines written
    reader,    \* ZcloudLog, and where get_cloud_log is
    removals,
    \* History: the number of lines written when this upload looked at the end of
    \* its file, and when the last one through the same handle did.
    mark, since

vars == <<disk, written, reader, removals, mark, since>>

Closed == 0                                       \* no file: a null handle
Names == 0..maxRollingLogFile                     \* 0 is the current log file
Bytes(f) == LineBytes * Len(disk.content[f])
Linked(f) == \E n \in Names : disk.name[n] = f
Blank == 0                                        \* the end of a line cut off

----------------------------------------------------------------------------
(* The writer *)

\* fopen(currentLogFile, "a")
OpenLog(d) ==
    IF d.name[0] # Closed THEN [d EXCEPT !.fp = d.name[0]]
    ELSE LET f == Len(d.content) + 1
         IN [content |-> Append(d.content, <<>>),
             name |-> [d.name EXCEPT ![0] = f], fp |-> f]

\* Mutant of RenameAll: the current file becomes the last one at once.
MutRenameAll(name) ==
    [n \in Names |-> IF n = maxRollingLogFile /\ n > 0 THEN name[0] ELSE Closed]

\* The renames, from the last file down to the current one; one that has nothing
\* to rename leaves its target.
RenameAll(name) ==
    [n \in Names |-> IF n > 0 /\ name[n - 1] # Closed THEN name[n - 1]
                     ELSE IF n = maxRollingLogFile /\ n > 0 THEN name[n] ELSE Closed]

\* With maxRollingLogFile 0 the file is removed.
Roll(d) == OpenLog([d EXCEPT !.name = RenameAll(d.name)])

log_free == disk' = [disk EXCEPT !.fp = Closed]

\* The size is taken from the handle the call starts with, also when the file of
\* that handle turns out to be removed and another is opened.
log_log ==
    /\ written < MaxLines
    /\ LET size   == IF disk.fp = Closed THEN 0 ELSE Bytes(disk.fp)
           opened == IF disk.fp # Closed /\ Linked(disk.fp) THEN disk ELSE OpenLog(disk)
           rolled == IF size > maxLogFileSize THEN Roll(opened) ELSE opened
       IN disk' = [rolled EXCEPT !.content[rolled.fp] = Append(@, written + 1)]
    /\ written' = written + 1
    /\ UNCHANGED <<reader, removals, mark, since>>

\* zclient_free of any client.
Free ==
    /\ disk.fp # Closed
    /\ log_free
    /\ UNCHANGED <<written, reader, removals, mark, since>>

\* Somebody removes the current log file.
RemoveLog ==
    /\ removals > 0 /\ disk.name[0] # Closed
    /\ disk' = [disk EXCEPT !.name[0] = Closed]
    /\ removals' = removals - 1
    /\ UNCHANGED <<written, reader, mark, since>>

----------------------------------------------------------------------------
(* The reader *)

\* log_initialize closes the log file and opens it again.
log_initialize(d) == OpenLog([d EXCEPT !.fp = Closed])

\* Two threads at once in get_cloud_log or initialize_cloud_log: the handle may be
\* closed, null or replaced under either, and the positions are of any file.  What
\* ZcloudLog then holds is not followed until it is initialised again.
Tangle ==
    /\ reader' = [at |-> "tangled", file |-> Closed, old |-> 0, new |-> 0,
                  pos |-> 0, count |-> 0, end |-> 0]
    /\ mark' = 0 /\ since' = 0

Overlap ==
    /\ disk.content # <<>> /\ reader.at # "tangled"
    /\ Tangle
    /\ UNCHANGED <<disk, written, removals>>

\* initialize_cloud_log opens it to read, if it is there.
initialize_cloud_log(f) ==
    /\ reader' = [reader EXCEPT !.at = "idle", !.file = f,
                                !.old = IF f = Closed THEN @ ELSE 0]
    /\ mark' = 0 /\ since' = 0

\* Every zclient_init does the second; the first only without an initialised log
\* or with a configuration for it.
zclient_init ==
    /\ \/ disk' = log_initialize(disk)
       \/ disk.content # <<>> /\ UNCHANGED disk
    /\ \/ reader.at \in {"idle", "tangled"} /\ initialize_cloud_log(disk'.name[0])
       \/ reader.at # "idle" /\ Tangle
    /\ UNCHANGED <<written, removals>>

\* Mutant of TooLong: the file is opened again too late.
MutTooLong(end) == end > maxLogFileSize + Margin

\* get_cloud_log looks at the end of its file ...
TooLong(end) == end > maxLogFileSize - Margin

Measure ==
    /\ reader.at = "idle" /\ reader.file # Closed
    /\ reader' = IF TooLong(Bytes(reader.file))
                 THEN [reader EXCEPT !.at = "reopen"]
                 ELSE [reader EXCEPT !.at = "scan", !.new = Bytes(reader.file)]
    /\ mark' = written
    /\ UNCHANGED <<disk, written, removals, since>>

\* Mutant of Reopen: a file that is not there is read.
MutReopen ==
    /\ reader.at = "reopen"
    /\ reader' = [reader EXCEPT !.at = "opened", !.file = disk.name[0]]
    /\ mark' = 0 /\ since' = 0
    /\ UNCHANGED <<disk, written, removals>>

\* ... opens it again when it is about to be, or was, rolled ...
Reopen ==
    /\ reader.at = "reopen"
    /\ reader' = [reader EXCEPT !.at = IF disk.name[0] = Closed THEN "idle" ELSE "opened",
                                !.file = disk.name[0]]
    /\ mark' = 0 /\ since' = 0
    /\ UNCHANGED <<disk, written, removals>>

\* ... to look at its end anew, by when it may be rolled again, ...
Look ==
    /\ reader.at = "opened"
    /\ reader' = [reader EXCEPT !.at = "scan", !.old = 0, !.new = Bytes(reader.file)]
    /\ mark' = written
    /\ UNCHANGED <<disk, written, removals, since>>

\* ... and has get_last_lines go back from the end.
Newlines(from, end) == {p \in from..(end - 1) : (p + 1) % LineBytes = 0}

\* Mutant of Beyond: the last upload is not looked at.
MutBeyond(p, end) == end - p > MAXIMUM_READ

\* It stops at a byte that lies before the last upload or too far from the end,
\* which is read again as the start of the first line, ...
Beyond(p, end) == end - p > MAXIMUM_READ \/ p < reader.old
\* ... or behind the byte that completes the number of lines or is the first.
Enough(p, end) == p = 0 \/ Cardinality(Newlines(p, end)) = NUM_LINES_TO_READ

Scan ==
    /\ reader.at = "scan"
    /\ LET end   == Bytes(reader.file)
           stops == {p \in 0..(end - 1) : Beyond(p, end) \/ Enough(p, end)}
           p     == Max(stops)
       IN reader' = IF stops = {}
                    THEN [reader EXCEPT !.at = "fetch", !.pos = end, !.count = 0, !.end = end]
                    ELSE IF Beyond(p, end)
                    THEN [reader EXCEPT !.at = "fetch", !.pos = p, !.end = end,
                                        !.count = Cardinality(Newlines(p + 1, end))]
                    ELSE [reader EXCEPT !.at = "fetch", !.pos = p + 1, !.end = end,
                                        !.count = Cardinality(Newlines(p, end))]
    /\ UNCHANGED <<disk, written, removals, mark, since>>

\* What fgets makes of n bytes up to a newline: pieces that fit its buffer.
Pieces(n) == (n + LINE_SIZE - 2) \div (LINE_SIZE - 1)
Fits == LineBytes < LINE_SIZE
\* The line that piece i is of, counted from the one that reading starts in, of
\* which it reads head pieces.
PieceLine(i, head) == IF i <= head THEN 0 ELSE (i - head - 1) \div Pieces(LineBytes) + 1

\* The pieces of lines from there on, each by the number of its line: the first may
\* be only the newline of one, and the file may have grown.
LinesFrom(f, pos) ==
    LET c    == disk.content[f]
        q    == pos \div LineBytes
        head == Pieces(LineBytes - (pos % LineBytes))
    IN [i \in 1..(IF q < Len(c) THEN head + (Len(c) - q - 1) * Pieces(LineBytes) ELSE 0) |->
           IF i = 1 /\ pos % LineBytes = LineBytes - 1 THEN Blank
           ELSE c[q + 1 + PieceLine(i, head)]]

Uploaded ==
    LET lines == LinesFrom(reader.file, reader.pos)
    IN SubSeq(lines, 1, Min({reader.count, Len(lines)}))

Fetch ==
    /\ reader.at = "fetch"
    /\ reader' = [reader EXCEPT !.at = "idle", !.old = reader.new,
                                !.pos = 0, !.count = 0, !.new = 0, !.end = 0]
    /\ since' = mark /\ mark' = 0
    /\ UNCHANGED <<disk, written, removals>>

----------------------------------------------------------------------------
Init ==
    /\ disk = [content |-> <<>>, name |-> [n \in Names |-> Closed], fp |-> Closed]
    /\ written = 0
    /\ reader = [at |-> "idle", file |-> Closed, old |-> 0, new |-> 0,
                 pos |-> 0, count |-> 0, end |-> 0]
    /\ removals = MaxRemovals
    /\ mark = 0 /\ since = 0

Next ==
    \/ log_log \/ Free \/ RemoveLog \/ zclient_init
    \/ Measure \/ Reopen \/ Look \/ Scan \/ Fetch \/ Overlap

Spec == Init /\ [][Next]_vars

----------------------------------------------------------------------------
(* Properties *)

\* The handles and names lead to files, and an upload that has ZcloudLog to itself
\* reads no null handle.
TypeOK ==
    /\ disk.fp \in 0..Len(disk.content)
    /\ disk.name \in [Names -> 0..Len(disk.content)]
    /\ reader.file \in 0..Len(disk.content)
    /\ reader.at \in {"idle", "reopen", "opened", "scan", "fetch", "tangled"}
    /\ reader.at \in {"reopen", "opened", "scan", "fetch"} => reader.file # Closed
    /\ {reader.old, reader.new, reader.pos, reader.end} \subseteq 0..(LineBytes * MaxLines)
    /\ {mark, since} \subseteq 0..written

\* The lines of a file, and those in all the files that have a name.
Lines(f) == IF f = Closed THEN {} ELSE ToSet(disk.content[f])
Kept == UNION {Lines(disk.name[n]) : n \in Names}

\* log_log's rolling: as long as nobody removes a file, what the files hold is
\* the end of what was written, without a gap and in order from the oldest file
\* to the current one, and a line is given up only when every file is there and
\* every rolled one full.
OnlyOldestDropped ==
    removals = MaxRemovals =>
       /\ Kept \subseteq 1..written
       /\ \A x \in Kept : x..written \subseteq Kept
       /\ \A n, m \in Names : n < m =>
             \A x \in Lines(disk.name[n]), y \in Lines(disk.name[m]) : y < x
       /\ \A n \in Names : disk.name[n] # Closed =>
             LET c == disk.content[disk.name[n]]
             IN \A i \in 1..(Len(c) - 1) : c[i + 1] = c[i] + 1
       /\ Kept # 1..written =>
             \A n \in Names \ {0} : disk.name[n] # Closed /\ Bytes(disk.name[n]) > maxLogFileSize

\* get_cloud_log notices a rolled file: as long as nobody removes a file, the file
\* it is about to scan was the current log file when it looked at its end, or was
\* rolled since this same upload opened it.
RolledFileNoticed ==
    [][reader.at # "scan" /\ reader'.at = "scan" /\ removals = MaxRemovals
         => \/ reader'.file = disk.name[0]
            \/ reader.at = "opened" /\ reader'.new > maxLogFileSize]_vars

\* The lines of a file that end between two positions.
Between(f, from, to) ==
    {disk.content[f][i] : i \in {j \in DOMAIN disk.content[f] :
                                    from < LineBytes * j /\ LineBytes * j <= to}}

\* get_last_lines: an upload is a run of lines without a gap, after at most one
\* blank; it has only lines written after the last upload through the same handle
\* looked at the end of the file; and if lines fit the buffer of fgets, it misses
\* at most one of the newest lines that were asked for and are in reach.
UploadsWhatIsNew ==
    reader.at = "fetch" =>
       LET lines == IF Uploaded # <<>> /\ Uploaded[1] = Blank THEN Tail(Uploaded) ELSE Uploaded
           fresh == Between(reader.file, Max({reader.old, reader.end - MAXIMUM_READ}), reader.end)
       IN /\ Blank \notin ToSet(lines)
          /\ \A i \in 1..(Len(lines) - 1) : lines[i + 1] \in {lines[i], lines[i] + 1}
          /\ \A x \in ToSet(lines) : x > since
          /\ Fits => Cardinality(ToSet(lines) \cap fresh)
                        >= Min({Cardinality(fresh), NUM_LINES_TO_READ}) - 1
=============================================================================
