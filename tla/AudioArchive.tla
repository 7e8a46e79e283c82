---------------------------- MODULE AudioArchive -----------------------------
(***************************************************************************)
(* Where finished windows are kept (aura-core hub.rs and archive.rs):      *)
(* recent clips in memory, the hot tier, every clip in a WAV file under a  *)
(* directory named for its day, and every turn on a line of its day's log. *)
(* The Stage2 worker records a window by pushing its clip and appending    *)
(* its line, a flusher thread writes clips and removes days past their     *)
(* retention, and the daemon may die at any moment and start again.        *)
(*                                                                         *)
(* All work on the two tiers is done under one mutex, so each operation is *)
(* one step.  A path is [day, seq, rec]: the day and the name of the file, *)
(* with `rec', the number of the recording, for the time of day in the     *)
(* name.  The file at a path holds recording rec, whole or torn.  A        *)
(* directory exists as long as it holds a file.  The log of a day is the   *)
(* set of its whole lines, each named by its recording, and whether it     *)
(* ends within a line.                                                     *)
(***************************************************************************)
EXTENDS Integers, FiniteSetsExt

CONSTANTS
    HotCap,         \* hot_capacity
    Retention,      \* retention_days
    LastDay,        \* bound: days that pass
    RecBound,       \* bound: recordings made
    MaxRestarts     \* bound: crashes

ASSUME ArchiveAssumption ==
    /\ HotCap \in Nat \ {0} /\ Retention \in Nat \ {0}
    /\ {LastDay, RecBound, MaxRestarts} \subseteq Nat

VARIABLES
    hot,        \* Inner.hot: seq -> its path, and whether it is flushed
    flushed,    \* Inner.flushed: seq -> path
    files,      \* WAV files on disk
    torn,       \* those of them a write did not finish
    nextSeq,    \* the next window's id
    day,        \* today
    cleanDue,   \* 24 h have passed since the flusher's last cleanup
    logging,    \* path of the recording whose turn is to be logged, or None
    logs,       \* day -> [lines: paths on whole lines, cut: does it end within one]
    pushed,     \* history: recordings pushed by this run of the daemon
    made,       \* history: recordings made so far
    restarts    \* history: crashes so far

vars == <<hot, flushed, files, torn, nextSeq, day, cleanDue, logging, logs,
          pushed, made, restarts>>

Empty == [s \in {} |-> 0]
None == [day |-> 0, seq |-> 0, rec |-> 0]
NoLog == [lines |-> {}, cut |-> FALSE]

Init ==
    /\ hot = Empty /\ flushed = Empty
    /\ files = {} /\ torn = {}
    /\ nextSeq = 1 /\ day = 0 /\ cleanDue = FALSE
    /\ logging = None /\ logs = [d \in 0..LastDay |-> NoLog]
    /\ pushed = {} /\ made = 0 /\ restarts = 0

PathsOf(clips, ids) == {clips[s].path : s \in ids}

\* Clips are written lowest id first, up to the first failure.
Prefixes(ids) == {done \in SUBSET ids : \A s \in done, t \in ids \ done : s < t}

\* What a failed or interrupted write of the next clip may leave behind.
Attempts(clips, rest) ==
    IF rest = {} THEN {{}} ELSE {{}, {clips[Min(rest)].path}}

IndexWith(clips, ids) ==
    [s \in DOMAIN flushed \cup ids |-> IF s \in ids THEN clips[s].path ELSE flushed[s]]

-----------------------------------------------------------------------------
Unflushed(clips) == {s \in DOMAIN clips : ~clips[s].flushed}

\* The loop of push removes the oldest clips down to the capacity, writing the
\* unflushed ones first.  When a write fails that clip and all younger stay.
Evictable(clips) ==
    {gone \in Prefixes(DOMAIN clips) :
        LET rest == DOMAIN clips \ gone IN
        \/ Cardinality(rest) <= HotCap /\ (gone = {} \/ Cardinality(rest) = HotCap)
        \/ Cardinality(rest) > HotCap /\ Min(rest) \in Unflushed(clips)}

Push ==
    LET path == [day |-> day, seq |-> nextSeq, rec |-> made + 1]
        clips == [s \in DOMAIN hot \cup {nextSeq} |->
                    IF s = nextSeq THEN [path |-> path, flushed |-> FALSE] ELSE hot[s]]
    IN  /\ made < RecBound /\ logging = None
        /\ \E gone \in Evictable(clips) :
             LET rest == DOMAIN clips \ gone
                 wrote == PathsOf(clips, gone \cap Unflushed(clips))
             IN \E left \in Attempts(clips, IF Cardinality(rest) > HotCap THEN rest ELSE {}) :
                  /\ hot' = [s \in rest |-> clips[s]]
                  /\ flushed' = IndexWith(clips, gone)
                  /\ files' = files \cup wrote \cup left
                  /\ torn' = (torn \ wrote) \cup left
        /\ nextSeq' = nextSeq + 1
        /\ pushed' = pushed \cup {path} /\ made' = made + 1
        /\ logging' = path
        /\ UNCHANGED <<day, cleanDue, logs, restarts>>

\* A line written to a log; one that ends within a line spoils the next.
Appended(log, path) ==
    [lines |-> IF log.cut THEN log.lines ELSE log.lines \cup {path}, cut |-> FALSE]
Broken(log) == [log EXCEPT !.cut = TRUE]

\* ... and appends its line to today's log, which may be tomorrow's by then;
\* that may fail, before or within the line, and is only warned about.
AppendTurn ==
    /\ logging # None
    /\ \E log \in {logs[day], Broken(logs[day]), Appended(logs[day], logging)} :
          logs' = [logs EXCEPT ![day] = log]
    /\ logging' = None
    /\ UNCHANGED <<hot, flushed, files, torn, nextSeq, day, cleanDue, pushed, made, restarts>>

FlushMarksAll ==
    /\ Unflushed(hot) # {}
    /\ \E done \in Prefixes(Unflushed(hot)) :
          /\ hot' = [s \in DOMAIN hot |-> [path |-> hot[s].path, flushed |-> TRUE]]
          /\ flushed' = IndexWith(hot, done)
          /\ files' = files \cup PathsOf(hot, done)
          /\ torn' = torn \ PathsOf(hot, done)
    /\ UNCHANGED <<nextSeq, day, cleanDue, logging, logs, pushed, made, restarts>>

\* flush_now: it stops at the first clip that cannot be written.
FlushNow ==
    /\ Unflushed(hot) # {}
    /\ \E done \in Prefixes(Unflushed(hot)) :
       \E left \in Attempts(hot, Unflushed(hot) \ done) :
          /\ hot' = [s \in DOMAIN hot |->
                       [path |-> hot[s].path, flushed |-> hot[s].flushed \/ s \in done]]
          /\ flushed' = IndexWith(hot, done)
          /\ files' = files \cup PathsOf(hot, done) \cup left
          /\ torn' = (torn \ PathsOf(hot, done)) \cup left
    /\ UNCHANGED <<nextSeq, day, cleanDue, logging, logs, pushed, made, restarts>>

Expired(d) == d < day - Retention

DoomedEarly(fs) == {p \in fs : p.day <= day - Retention}

\* cleanup_expired: an expired day that has a directory goes from the index,
\* then from the disk, as far as the removal succeeds.
Doomed(fs) == {p \in fs : Expired(p.day)}
Indexed(index, fs) ==
    {s \in DOMAIN index : \A p \in Doomed(fs) : p.day # index[s].day}

\* The flusher's daily cleanup, which leaves the logs alone.
Cleanup ==
    /\ cleanDue
    /\ cleanDue' = FALSE
    /\ flushed' = [s \in Indexed(flushed, files) |-> flushed[s]]
    /\ \E removed \in SUBSET Doomed(files) :
          files' = files \ removed /\ torn' = torn \ removed
    /\ UNCHANGED <<hot, nextSeq, day, logging, logs, pushed, made, restarts>>

NextDay ==
    /\ day < LastDay
    /\ day' = day + 1
    /\ cleanDue' = TRUE
    /\ UNCHANGED <<hot, flushed, files, torn, nextSeq, logging, logs, pushed, made, restarts>>

\* What scan_disk makes of the names of the files: of several with one id the
\* order of the directories decides.
Scanned(found) ==
    LET ids == {p.seq : p \in found} IN
    {index \in [ids -> found] : \A s \in ids : index[s].seq = s}

\* The logs after TurnLog::cleanup_expired, where some could not be removed.
LogsCleaned(all) ==
    {[d \in DOMAIN all |-> IF Expired(d) /\ d \notin kept THEN NoLog ELSE all[d]] :
        kept \in SUBSET {d \in DOMAIN all : Expired(d)}}

\* The daemon dies, perhaps while it writes clips, and starts again: window ids
\* start at 1 (a new tracker), scan_disk rebuilds the index from the names of
\* the files (of several with one id the directory order decides), and
\* Storage::init removes what has expired, the logs too.
Restart ==
    /\ restarts < MaxRestarts
    /\ restarts' = restarts + 1
    /\ hot' = Empty /\ nextSeq' = 1 /\ pushed' = {} /\ cleanDue' = FALSE
    /\ \E done \in Prefixes(Unflushed(hot)) :
       \E left \in Attempts(hot, Unflushed(hot) \ done) :
          LET found == files \cup PathsOf(hot, done) \cup left
          IN \E index \in Scanned(found) :
             \E removed \in SUBSET Doomed(found) :
                /\ flushed' = [s \in Indexed(index, found) |-> index[s]]
                /\ files' = found \ removed
                /\ torn' = ((torn \ PathsOf(hot, done)) \cup left) \ removed
    /\ logging' = None
    /\ \E log \in {logs[day]} \cup (IF logging = None THEN {} ELSE {Broken(logs[day])}) :
          logs' \in LogsCleaned([logs EXCEPT ![day] = log])
    /\ UNCHANGED <<day, made>>

Next == Push \/ AppendTurn \/ FlushNow \/ Cleanup \/ NextDay \/ Restart

Spec == Init /\ [][Next]_vars

-----------------------------------------------------------------------------
(* Properties. *)

\* wav: the recording played back for an id.
Wav(s) ==
    IF s \in DOMAIN hot THEN hot[s].path
    ELSE IF s \in DOMAIN flushed /\ flushed[s] \in files THEN flushed[s]
    ELSE None

\* Until it expires, every window recorded since the start plays back with its
\* own, whole recording, wherever the clip is, whatever the disk refused and
\* whichever older run used the same id (module comment of archive.rs: audio is
\* never silently lost, playback is transparent).
Replayable ==
    \A p \in pushed :
        ~Expired(p.day) => Wav(p.seq) = p /\ (p.seq \in DOMAIN hot \/ p \notin torn)

\* A whole file and a whole line stay whole until their day has expired: no
\* retried write, broken line, crash, restart or cleanup touches them (write_clip,
\* append_to_day, scan_disk, cleanup_expired).
DurableUntilExpired ==
    [][/\ \A p \in files \ torn : ~Expired(p.day) => p \in files' \ torn'
       /\ \A d \in DOMAIN logs : ~Expired(d) => logs[d].lines \subseteq logs'[d].lines]_vars
=============================================================================
