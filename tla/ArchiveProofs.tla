--------------------------- MODULE ArchiveProofs ---------------------------
(* Proofs about AudioArchive, for every capacity, retention and bound: what  *)
(* is whole on disk stays whole until its day has expired, and every window  *)
(* recorded since the start plays back until then.                           *)
EXTENDS AudioArchive, FiniteSetTheorems, WellFoundedInduction, TLAPS

-----------------------------------------------------------------------------
(* A clip that is still to be written has no whole file, so that no write    *)
(* goes over one; the clips of the hot tier are different recordings.        *)
Unwritten(clips, fs, ts) == \A s \in Unflushed(clips) : clips[s].path \notin fs \ ts

Different(clips) == \A s, t \in DOMAIN clips : clips[s].path = clips[t].path => s = t

Numbered ==
    /\ made \in Nat /\ nextSeq \in Nat
    /\ DOMAIN hot \subseteq Nat /\ IsFiniteSet(DOMAIN hot)
    /\ \A s \in DOMAIN hot : s < nextSeq
    /\ \A p \in files : p.rec \in Nat /\ p.rec <= made
    /\ \A s \in DOMAIN hot : hot[s].path.rec \in Nat /\ hot[s].path.rec <= made

LogsAreLogs ==
    \A d \in DOMAIN logs : logs[d] = [lines |-> logs[d].lines, cut |-> logs[d].cut]

DurableInv == Numbered /\ LogsAreLogs /\ Different(hot) /\ Unwritten(hot, files, torn)

(* A write attempt on one of these clips, or on none; and what is on disk,   *)
(* and what of it is torn, after the clips `done' and that attempt.          *)
OneOf(clips, ids, left) == left = {} \/ \E m \in ids : left = {clips[m].path}
FilesAfter(clips, fs, done, left) == fs \cup PathsOf(clips, done) \cup left
TornAfter(clips, ts, done, left) == (ts \ PathsOf(clips, done)) \cup left

-----------------------------------------------------------------------------
(* The least clip of some.                                                   *)
LEMMA MinIsIn ==
    ASSUME NEW S \in SUBSET Nat, S # {}
    PROVE  Min(S) \in S
<1>1. PICK x \in S : \A y \in S : ~(<<y, x>> \in OpToRel(<, Nat))
  BY NatLessThanWellFounded, WFMin
<1>2. ASSUME NEW y \in S PROVE x <= y
  <2>1. <<y, x>> \in Nat \X Nat /\ <<y, x>> \notin OpToRel(<, Nat)
    BY <1>1
  <2>2. ~(<<y, x>>[1] < <<y, x>>[2])
    BY <2>1, Zenon DEF OpToRel
  <2> QED BY <2>2
<1> QED BY <1>2 DEF Min

LEMMA AttemptIsOfOne ==
    ASSUME NEW clips, NEW rest \in SUBSET Nat, NEW left \in Attempts(clips, rest)
    PROVE  OneOf(clips, rest \cap {Min(rest)}, left)
BY MinIsIn DEF Attempts, OneOf

(* Clips are written, perhaps one more in part: no whole file is lost, and   *)
(* the clips not written have none.                                          *)
LEMMA WritesKeep ==
    ASSUME NEW clips, NEW fs, NEW ts, Different(clips), Unwritten(clips, fs, ts),
           NEW done \in SUBSET Unflushed(clips), NEW left,
           OneOf(clips, Unflushed(clips) \ done, left)
    PROVE  /\ fs \ ts \subseteq FilesAfter(clips, fs, done, left)
                               \ TornAfter(clips, ts, done, left)
           /\ \A s \in Unflushed(clips) \ done :
                 clips[s].path \notin FilesAfter(clips, fs, done, left)
                                     \ TornAfter(clips, ts, done, left)
<1>1. Unflushed(clips) \subseteq DOMAIN clips
  BY DEF Unflushed
<1>2. left \cap (fs \ ts) = {}
  BY DEF Unwritten, OneOf
<1>3. \A s \in Unflushed(clips) \ done : clips[s].path \notin PathsOf(clips, done)
  BY <1>1 DEF PathsOf, Different
<1>4. fs \ ts \subseteq FilesAfter(clips, fs, done, left) \ TornAfter(clips, ts, done, left)
  BY <1>2 DEF FilesAfter, TornAfter
<1>5. \A s \in Unflushed(clips) \ done :
         clips[s].path \notin FilesAfter(clips, fs, done, left) \ TornAfter(clips, ts, done, left)
  BY <1>3 DEF Unwritten, FilesAfter, TornAfter
<1> QED BY <1>4, <1>5

(* A hot tier of some of these clips, and the files written for them.        *)
LEMMA WrittenIsNumbered ==
    ASSUME NEW clips, NEW n \in Nat,
           \A s \in DOMAIN clips : clips[s].path.rec \in Nat /\ clips[s].path.rec <= n,
           NEW fs, \A p \in fs : p.rec \in Nat /\ p.rec <= n,
           NEW done \in SUBSET Unflushed(clips), NEW left,
           OneOf(clips, Unflushed(clips) \ done, left)
    PROVE  \A p \in FilesAfter(clips, fs, done, left) : p.rec \in Nat /\ p.rec <= n
<1>1. Unflushed(clips) \subseteq DOMAIN clips
  BY DEF Unflushed
<1>2. \A p \in PathsOf(clips, done) : p.rec \in Nat /\ p.rec <= n
  BY <1>1 DEF PathsOf
<1>3. \A p \in left : p.rec \in Nat /\ p.rec <= n
  BY <1>1 DEF OneOf
<1> QED BY <1>2, <1>3 DEF FilesAfter

-----------------------------------------------------------------------------
(* What a step does to the whole files and the whole lines.                  *)
Durable ==
    /\ \A p \in files \ torn : ~Expired(p.day) => p \in files' \ torn'
    /\ \A d \in DOMAIN logs : ~Expired(d) => logs[d].lines \subseteq logs'[d].lines

(* What a push makes of the hot tier before it evicts, and what it evicts:   *)
(* the clips `gone', with a write attempt `left' on one that stays.          *)
NewPath == [day |-> day, seq |-> nextSeq, rec |-> made + 1]
WithNew(clips) ==
    /\ DOMAIN clips = DOMAIN hot \cup {nextSeq}
    /\ \A s \in DOMAIN hot : clips[s] = hot[s]
    /\ clips[nextSeq].path = NewPath /\ ~clips[nextSeq].flushed
Evicts(clips, gone, left) ==
    LET rest == DOMAIN clips \ gone
        done == gone \cap Unflushed(clips)
    IN  /\ gone \subseteq DOMAIN clips
        /\ OneOf(clips, Unflushed(clips) \ done, left)
        /\ DOMAIN hot' = rest /\ \A s \in rest : hot'[s] = clips[s]
        /\ flushed' = IndexWith(clips, gone)
        /\ files' = FilesAfter(clips, files, done, left)
        /\ torn' = TornAfter(clips, torn, done, left)

LEMMA PushEvicts ==
    ASSUME DurableInv, Push
    PROVE  \E clips : WithNew(clips) /\ \E gone, left : Evicts(clips, gone, left)
<1> DEFINE clips == [s \in DOMAIN hot \cup {nextSeq} |->
                       IF s = nextSeq THEN [path |-> NewPath, flushed |-> FALSE] ELSE hot[s]]
<1>1. PICK gone \in Evictable(clips) :
        LET rest == DOMAIN clips \ gone
            wrote == PathsOf(clips, gone \cap Unflushed(clips))
        IN \E left \in Attempts(clips, IF Cardinality(rest) > HotCap THEN rest ELSE {}) :
             /\ hot' = [s \in rest |-> clips[s]]
             /\ flushed' = IndexWith(clips, gone)
             /\ files' = files \cup wrote \cup left
             /\ torn' = (torn \ wrote) \cup left
  BY DEF Push, NewPath
<1> DEFINE rest == DOMAIN clips \ gone
           done == gone \cap Unflushed(clips)
<1>2. PICK left \in Attempts(clips, IF Cardinality(rest) > HotCap THEN rest ELSE {}) :
        /\ hot' = [s \in rest |-> clips[s]]
        /\ flushed' = IndexWith(clips, gone)
        /\ files' = FilesAfter(clips, files, done, left)
        /\ torn' = TornAfter(clips, torn, done, left)
  BY <1>1 DEF FilesAfter, TornAfter
<1>3. nextSeq \notin DOMAIN hot /\ DOMAIN clips \subseteq Nat /\ IsFiniteSet(DOMAIN clips)
  BY FS_AddElement DEF DurableInv, Numbered
<1>4. WithNew(clips)
  BY <1>3 DEF WithNew
<1> HIDE DEF clips
<1>5. gone \subseteq DOMAIN clips
  BY <1>1 DEF Evictable, Prefixes
<1>6. OneOf(clips, Unflushed(clips) \ done, left)
  <2>1. CASE Cardinality(rest) > HotCap
    <3>1. OneOf(clips, rest \cap {Min(rest)}, left)
      BY <1>3, <2>1, AttemptIsOfOne
    <3>2. Cardinality(rest) \in Nat
      BY <1>3, FS_Difference, FS_CardinalityType
    <3>3. Min(rest) \in Unflushed(clips)
      BY <1>1, <2>1, <3>2, ArchiveAssumption DEF Evictable
    <3> QED BY <3>1, <3>3 DEF OneOf
  <2>2. CASE ~(Cardinality(rest) > HotCap)
    BY <1>2, <2>2 DEF Attempts, OneOf
  <2> QED BY <2>1, <2>2
<1>7. DOMAIN hot' = rest /\ \A s \in rest : hot'[s] = clips[s]
  BY <1>2
<1>8. Evicts(clips, gone, left)
  BY <1>2, <1>5, <1>6, <1>7 DEF Evicts
<1> QED BY <1>4, <1>8

LEMMA WithNewIsSound ==
    ASSUME DurableInv, NEW clips, WithNew(clips)
    PROVE  /\ nextSeq \notin DOMAIN hot /\ made + 1 \in Nat
           /\ DOMAIN clips \subseteq Nat /\ IsFiniteSet(DOMAIN clips)
           /\ \A s \in DOMAIN clips :
                 clips[s].path.rec \in Nat /\ clips[s].path.rec <= made + 1 /\ s < nextSeq + 1
           /\ Different(clips) /\ Unwritten(clips, files, torn)
<1>1. /\ nextSeq \notin DOMAIN hot /\ NewPath.rec = made + 1 /\ made \in Nat
      /\ DOMAIN clips \subseteq Nat /\ IsFiniteSet(DOMAIN clips)
  BY FS_AddElement DEF DurableInv, Numbered, WithNew, NewPath
<1>2. \A s \in DOMAIN clips :
        clips[s].path.rec \in Nat /\ clips[s].path.rec <= made + 1 /\ s < nextSeq + 1
  BY <1>1 DEF DurableInv, Numbered, WithNew
<1>3. Different(clips)
  <2>1. \A s \in DOMAIN hot : clips[s].path # NewPath
    BY <1>1 DEF DurableInv, Numbered, WithNew
  <2> QED BY <1>1, <2>1 DEF Different, DurableInv, WithNew
<1>4. Unwritten(clips, files, torn)
  <2>1. NewPath \notin files
    BY <1>1 DEF DurableInv, Numbered
  <2> QED BY <1>1, <2>1 DEF Unwritten, Unflushed, DurableInv, WithNew
<1> QED BY <1>1, <1>2, <1>3, <1>4

LEMMA PushKeeps ==
    ASSUME DurableInv, Push
    PROVE  DurableInv' /\ Durable
<1>1. PICK clips : WithNew(clips) /\ \E gone, left : Evicts(clips, gone, left)
  BY PushEvicts
<1>2. PICK gone : \E left : Evicts(clips, gone, left)
  BY <1>1
<1>3. PICK left : Evicts(clips, gone, left)
  BY <1>2
<1> DEFINE rest == DOMAIN clips \ gone
           done == gone \cap Unflushed(clips)
<1>4. /\ files' = FilesAfter(clips, files, done, left)
      /\ torn' = TornAfter(clips, torn, done, left)
      /\ DOMAIN hot' = rest /\ \A s \in rest : hot'[s] = clips[s]
      /\ OneOf(clips, Unflushed(clips) \ done, left)
  BY <1>3 DEF Evicts
<1>5. nextSeq' = nextSeq + 1 /\ made' = made + 1 /\ logs' = logs
  BY DEF Push
<1>6. Different(clips) /\ Unwritten(clips, files, torn)
  BY <1>1, WithNewIsSound
<1>7. /\ files \ torn \subseteq files' \ torn'
      /\ \A s \in Unflushed(clips) \ done : clips[s].path \notin files' \ torn'
  BY <1>4, <1>6, WritesKeep
<1>8. Unwritten(hot', files', torn') /\ Different(hot')
  <2>1. Unflushed(hot') \subseteq Unflushed(clips) \ done
    BY <1>4 DEF Unflushed
  <2> QED BY <1>4, <1>6, <1>7, <2>1 DEF Unwritten, Unflushed, Different
<1>9. Numbered'
  <2>1. \A p \in files : p.rec \in Nat /\ p.rec <= made + 1
    BY DEF DurableInv, Numbered
  <2>2. \A p \in files' : p.rec \in Nat /\ p.rec <= made + 1
    <3>1. done \in SUBSET Unflushed(clips) /\ made + 1 \in Nat
          /\ \A s \in DOMAIN clips : clips[s].path.rec \in Nat /\ clips[s].path.rec <= made + 1
      BY <1>1, WithNewIsSound
    <3> QED BY <1>4, <2>1, <3>1, WrittenIsNumbered
  <2>3. IsFiniteSet(rest)
    BY <1>1, WithNewIsSound, FS_Difference
  <2>4. /\ rest \subseteq Nat
        /\ \A s \in rest : s < nextSeq + 1 /\ clips[s].path.rec \in Nat
                          /\ clips[s].path.rec <= made + 1
    BY <1>1, WithNewIsSound
  <2>5. nextSeq + 1 \in Nat /\ made + 1 \in Nat
    BY DEF Numbered, DurableInv
  <2> HIDE DEF rest, done
  <2> QED BY <1>4, <1>5, <2>2, <2>3, <2>4, <2>5 DEF Numbered
<1> QED BY <1>5, <1>7, <1>8, <1>9 DEF DurableInv, Durable, LogsAreLogs

LEMMA FlushNowKeeps ==
    ASSUME DurableInv, FlushNow
    PROVE  DurableInv' /\ Durable
<1>1. PICK done \in Prefixes(Unflushed(hot)) :
      \E left \in Attempts(hot, Unflushed(hot) \ done) :
        /\ hot' = [s \in DOMAIN hot |->
                     [path |-> hot[s].path, flushed |-> hot[s].flushed \/ s \in done]]
        /\ files' = FilesAfter(hot, files, done, left)
        /\ torn' = TornAfter(hot, torn, done, left)
  BY DEF FlushNow, FilesAfter, TornAfter
<1>2. PICK left \in Attempts(hot, Unflushed(hot) \ done) :
        /\ hot' = [s \in DOMAIN hot |->
                     [path |-> hot[s].path, flushed |-> hot[s].flushed \/ s \in done]]
        /\ files' = FilesAfter(hot, files, done, left)
        /\ torn' = TornAfter(hot, torn, done, left)
  BY <1>1
<1>3. nextSeq' = nextSeq /\ made' = made /\ logs' = logs
  BY DEF FlushNow
<1>4. done \in SUBSET Unflushed(hot) /\ Unflushed(hot) \subseteq DOMAIN hot
      /\ DOMAIN hot \subseteq Nat
  BY DEF Prefixes, Unflushed, DurableInv, Numbered
<1>5. OneOf(hot, Unflushed(hot) \ done, left)
  BY <1>4, AttemptIsOfOne DEF OneOf
<1>6. /\ files \ torn \subseteq files' \ torn'
      /\ \A s \in Unflushed(hot) \ done : hot[s].path \notin files' \ torn'
  BY <1>2, <1>4, <1>5, WritesKeep DEF DurableInv
<1>7. DOMAIN hot' = DOMAIN hot /\ \A s \in DOMAIN hot : hot'[s].path = hot[s].path
  BY <1>2
<1>8. Unflushed(hot') \subseteq Unflushed(hot) \ done
  BY <1>2 DEF Unflushed
<1>9. Unwritten(hot', files', torn') /\ Different(hot')
  BY <1>4, <1>6, <1>7, <1>8 DEF Unwritten, Different, DurableInv
<1>10. Numbered'
  <2>1. \A p \in files' : p.rec \in Nat /\ p.rec <= made
    BY <1>2, <1>4, <1>5, WrittenIsNumbered DEF DurableInv, Numbered
  <2> QED BY <1>3, <1>7, <2>1 DEF Numbered, DurableInv
<1> QED BY <1>3, <1>6, <1>9, <1>10 DEF DurableInv, Durable, LogsAreLogs

LEMMA AppendTurnKeeps ==
    ASSUME DurableInv, AppendTurn
    PROVE  DurableInv' /\ Durable
<1>1. PICK log \in {logs[day], Broken(logs[day]), Appended(logs[day], logging)} :
          logs' = [logs EXCEPT ![day] = log]
  BY DEF AppendTurn
<1>2. UNCHANGED <<hot, files, torn, nextSeq, day, made>>
  BY DEF AppendTurn
<1>3. ASSUME day \in DOMAIN logs
      PROVE  log = [lines |-> log.lines, cut |-> log.cut] /\ logs[day].lines \subseteq log.lines
  BY <1>1, <1>3 DEF DurableInv, LogsAreLogs, Broken, Appended
<1>4. LogsAreLogs' /\ \A d \in DOMAIN logs : logs[d].lines \subseteq logs'[d].lines
  BY <1>1, <1>3 DEF DurableInv, LogsAreLogs
<1> QED BY <1>2, <1>4 DEF DurableInv, Durable, Numbered, Different, Unwritten

LEMMA CleanupKeeps ==
    ASSUME DurableInv, Cleanup
    PROVE  DurableInv' /\ Durable
<1>1. PICK removed \in SUBSET Doomed(files) :
         files' = files \ removed /\ torn' = torn \ removed
  BY DEF Cleanup
<1>2. UNCHANGED <<hot, nextSeq, logs, made>>
  BY DEF Cleanup
<1>3. files' \ torn' \subseteq files \ torn /\ files' \subseteq files
  BY <1>1
<1>4. \A p \in files \ torn : ~Expired(p.day) => p \in files' \ torn'
  BY <1>1 DEF Doomed
<1>5. Unwritten(hot', files', torn') /\ Numbered'
  BY <1>2, <1>3 DEF Unwritten, Numbered, DurableInv
<1> QED BY <1>2, <1>4, <1>5 DEF DurableInv, Durable, Different, LogsAreLogs

LEMMA RestartKeeps ==
    ASSUME DurableInv, Restart
    PROVE  DurableInv' /\ Durable
<1>1. PICK done \in Prefixes(Unflushed(hot)) : \E left \in Attempts(hot, Unflushed(hot) \ done) :
         \E removed \in SUBSET Doomed(FilesAfter(hot, files, done, left)) :
            /\ files' = FilesAfter(hot, files, done, left) \ removed
            /\ torn' = TornAfter(hot, torn, done, left) \ removed
  BY DEF Restart, FilesAfter, TornAfter
<1>2. PICK left \in Attempts(hot, Unflushed(hot) \ done) :
         \E removed \in SUBSET Doomed(FilesAfter(hot, files, done, left)) :
            /\ files' = FilesAfter(hot, files, done, left) \ removed
            /\ torn' = TornAfter(hot, torn, done, left) \ removed
  BY <1>1
<1> DEFINE found == FilesAfter(hot, files, done, left)
           broken == TornAfter(hot, torn, done, left)
<1>3. PICK removed \in SUBSET Doomed(found) : files' = found \ removed /\ torn' = broken \ removed
  BY <1>2
<1>4. hot' = Empty /\ nextSeq' = 1 /\ made' = made
  BY DEF Restart
<1>5. done \in SUBSET Unflushed(hot) /\ DOMAIN hot \subseteq Nat
      /\ Unflushed(hot) \subseteq DOMAIN hot
  BY DEF Prefixes, DurableInv, Numbered, Unflushed
<1>6. OneOf(hot, Unflushed(hot) \ done, left)
  BY <1>5, AttemptIsOfOne DEF OneOf
<1>7. files \ torn \subseteq found \ broken
  BY <1>5, <1>6, WritesKeep DEF DurableInv
<1>8. \A p \in files \ torn : ~Expired(p.day) => p \in files' \ torn'
  BY <1>3, <1>7 DEF Doomed
<1>9. \A p \in found : p.rec \in Nat /\ p.rec <= made
  BY <1>5, <1>6, WrittenIsNumbered DEF DurableInv, Numbered
<1>10. DOMAIN hot' = {} /\ IsFiniteSet(DOMAIN hot')
  BY <1>4, FS_EmptySet DEF Empty
<1>11. Numbered' /\ Different(hot') /\ Unwritten(hot', files', torn')
  BY <1>3, <1>4, <1>9, <1>10 DEF Numbered, Different, Unwritten, Unflushed, DurableInv
<1>12. PICK log \in {logs[day], Broken(logs[day])} :
          logs' \in LogsCleaned([logs EXCEPT ![day] = log])
  BY DEF Restart
<1>13. ASSUME day \in DOMAIN logs
       PROVE  log = [lines |-> log.lines, cut |-> log.cut] /\ log.lines = logs[day].lines
  BY <1>12, <1>13 DEF DurableInv, LogsAreLogs, Broken
<1> DEFINE all == [logs EXCEPT ![day] = log]
<1>14. /\ DOMAIN all = DOMAIN logs
       /\ \A d \in DOMAIN logs : all[d].lines = logs[d].lines
                                /\ all[d] = [lines |-> all[d].lines, cut |-> all[d].cut]
  BY <1>13 DEF DurableInv, LogsAreLogs
<1> HIDE DEF all
<1>15. PICK kept : logs' = [d \in DOMAIN all |->
                              IF Expired(d) /\ d \notin kept THEN NoLog ELSE all[d]]
  BY <1>12 DEF LogsCleaned, all
<1>16. LogsAreLogs' /\ \A d \in DOMAIN logs : ~Expired(d) => logs[d].lines \subseteq logs'[d].lines
  BY <1>14, <1>15 DEF LogsAreLogs, NoLog
<1> QED BY <1>8, <1>11, <1>16 DEF DurableInv, Durable

-----------------------------------------------------------------------------
(* Every recording of this run of the daemon that has not expired is in the  *)
(* hot tier, or whole on disk where the index says; one that is marked as    *)
(* flushed is both until it is evicted.                                      *)
Whole(p) == p \in files \ torn
Known(p) ==
    IF p.seq \in DOMAIN hot
    THEN hot[p.seq].flushed => Whole(p)
    ELSE Whole(p) /\ p.seq \in DOMAIN flushed /\ flushed[p.seq] = p

OfThisRun ==
    /\ day \in Nat
    /\ \A p \in pushed : p.day \in Nat /\ p.seq \in Nat /\ p.seq < nextSeq
    /\ \A p, q \in pushed : p.seq = q.seq => p = q
    /\ \A s \in DOMAIN hot : hot[s].path \in pushed /\ hot[s].path.seq = s

KnownInv == OfThisRun /\ \A p \in pushed : ~Expired(p.day) => Known(p)

(* A clip that is written is whole.                                          *)
LEMMA WrittenIsWhole ==
    ASSUME NEW clips, NEW fs, NEW ts, Different(clips),
           NEW done \in SUBSET Unflushed(clips), NEW left,
           OneOf(clips, Unflushed(clips) \ done, left), NEW s \in done
    PROVE  clips[s].path \in FilesAfter(clips, fs, done, left) \ TornAfter(clips, ts, done, left)
<1>1. Unflushed(clips) \subseteq DOMAIN clips
  BY DEF Unflushed
<1>2. clips[s].path \in PathsOf(clips, done)
  BY DEF PathsOf
<1>3. clips[s].path \notin left
  BY <1>1 DEF OneOf, Different
<1> QED BY <1>2, <1>3 DEF FilesAfter, TornAfter

LEMMA IndexedAt ==
    ASSUME NEW clips, NEW ids, NEW s
    PROVE  /\ s \in ids =>
                 s \in DOMAIN IndexWith(clips, ids) /\ IndexWith(clips, ids)[s] = clips[s].path
           /\ s \in DOMAIN flushed \ ids =>
                 s \in DOMAIN IndexWith(clips, ids) /\ IndexWith(clips, ids)[s] = flushed[s]
BY DEF IndexWith

LEMMA PushKnows ==
    ASSUME DurableInv, KnownInv, Push
    PROVE  KnownInv'
<1>1. PICK clips : WithNew(clips) /\ \E gone, left : Evicts(clips, gone, left)
  BY PushEvicts
<1>2. PICK gone : \E left : Evicts(clips, gone, left)
  BY <1>1
<1>3. PICK left : Evicts(clips, gone, left)
  BY <1>2
<1> DEFINE done == gone \cap Unflushed(clips)
<1>4. /\ files' = FilesAfter(clips, files, done, left)
      /\ torn' = TornAfter(clips, torn, done, left)
      /\ flushed' = IndexWith(clips, gone)
      /\ gone \subseteq DOMAIN clips
      /\ DOMAIN hot' = DOMAIN clips \ gone /\ \A s \in DOMAIN hot' : hot'[s] = clips[s]
      /\ OneOf(clips, Unflushed(clips) \ done, left)
  BY <1>3 DEF Evicts
<1>5. nextSeq' = nextSeq + 1 /\ pushed' = pushed \cup {NewPath} /\ day' = day
  BY DEF Push, NewPath
<1>6. NewPath.day = day /\ NewPath.seq = nextSeq
  BY DEF NewPath
<1>7. /\ nextSeq \in Nat /\ nextSeq \notin DOMAIN hot /\ Different(clips)
      /\ DOMAIN clips = DOMAIN hot \cup {nextSeq} /\ \A s \in DOMAIN hot : clips[s] = hot[s]
      /\ clips[nextSeq].path = NewPath /\ ~clips[nextSeq].flushed
  BY <1>1, WithNewIsSound DEF WithNew, DurableInv, Numbered
<1>8. OfThisRun'
  <2>1. \A p \in pushed' : p.day \in Nat /\ p.seq \in Nat /\ p.seq < nextSeq'
    BY <1>5, <1>6, <1>7 DEF KnownInv, OfThisRun
  <2>2. \A p, q \in pushed' : p.seq = q.seq => p = q
    BY <1>5, <1>6, <1>7 DEF KnownInv, OfThisRun
  <2>3. \A s \in DOMAIN clips : clips[s].path \in pushed' /\ clips[s].path.seq = s
    BY <1>5, <1>6, <1>7 DEF KnownInv, OfThisRun
  <2>4. \A s \in DOMAIN hot' : hot'[s].path \in pushed' /\ hot'[s].path.seq = s
    BY <1>4, <2>3
  <2> QED BY <1>5, <2>1, <2>2, <2>4 DEF OfThisRun, KnownInv
<1>9. \A s \in done : clips[s].path \in files' \ torn'
  BY <1>4, <1>7, WrittenIsWhole
<1>10. ASSUME NEW p \in pushed', ~Expired(p.day) PROVE Known(p)'
  <2>1. Whole(p) => Whole(p)'
    BY <1>10, PushKeeps DEF Durable, Whole
  <2>2. ASSUME p.seq \in DOMAIN clips
        PROVE  clips[p.seq].path = p /\ (clips[p.seq].flushed => Whole(p))
    <3>1. CASE p.seq = nextSeq
      BY <1>5, <1>6, <1>7, <3>1 DEF KnownInv, OfThisRun
    <3>2. CASE p.seq # nextSeq
      <4>1. p \in pushed /\ p.seq \in DOMAIN hot
        BY <1>5, <1>6, <1>7, <2>2, <3>2
      <4>2. hot[p.seq].path = p /\ Known(p)
        BY <1>10, <4>1 DEF KnownInv, OfThisRun
      <4> QED BY <1>7, <4>1, <4>2 DEF Known
    <3> QED BY <3>1, <3>2
  <2>3. CASE p.seq \in DOMAIN hot'
    BY <1>4, <2>1, <2>2, <2>3 DEF Known
  <2>4. CASE p.seq \in gone
    <3>1. Whole(p)'
      BY <1>4, <1>9, <2>1, <2>2, <2>4 DEF Unflushed, Whole
    <3>2. p.seq \in DOMAIN flushed' /\ flushed'[p.seq] = p
      BY <1>4, <2>2, <2>4, IndexedAt
    <3> QED BY <1>4, <2>4, <3>1, <3>2 DEF Known
  <2>5. CASE p.seq \notin DOMAIN clips
    <3>1. p \in pushed /\ p.seq \notin DOMAIN hot
      BY <1>5, <1>6, <1>7, <2>5
    <3>2. Whole(p) /\ p.seq \in DOMAIN flushed /\ flushed[p.seq] = p
      BY <1>10, <3>1 DEF KnownInv, Known
    <3>3. p.seq \in DOMAIN flushed' /\ flushed'[p.seq] = p
      BY <1>4, <2>5, <3>2, IndexedAt
    <3> QED BY <1>4, <2>1, <2>5, <3>2, <3>3 DEF Known
  <2> QED BY <1>4, <2>3, <2>4, <2>5
<1> QED BY <1>5, <1>8, <1>10 DEF KnownInv, Expired

LEMMA FlushNowKnows ==
    ASSUME DurableInv, KnownInv, FlushNow
    PROVE  KnownInv'
<1>1. PICK done \in Prefixes(Unflushed(hot)) :
      \E left \in Attempts(hot, Unflushed(hot) \ done) :
        /\ hot' = [s \in DOMAIN hot |->
                     [path |-> hot[s].path, flushed |-> hot[s].flushed \/ s \in done]]
        /\ flushed' = IndexWith(hot, done)
        /\ files' = FilesAfter(hot, files, done, left)
        /\ torn' = TornAfter(hot, torn, done, left)
  BY DEF FlushNow, FilesAfter, TornAfter
<1>2. PICK left \in Attempts(hot, Unflushed(hot) \ done) :
        /\ hot' = [s \in DOMAIN hot |->
                     [path |-> hot[s].path, flushed |-> hot[s].flushed \/ s \in done]]
        /\ flushed' = IndexWith(hot, done)
        /\ files' = FilesAfter(hot, files, done, left)
        /\ torn' = TornAfter(hot, torn, done, left)
  BY <1>1
<1>3. UNCHANGED <<nextSeq, pushed, day>>
  BY DEF FlushNow
<1>4. /\ DOMAIN hot' = DOMAIN hot
      /\ \A s \in DOMAIN hot : /\ hot'[s].path = hot[s].path
                               /\ hot'[s].flushed => hot[s].flushed \/ s \in done
  BY <1>2
<1>5. done \in SUBSET Unflushed(hot) /\ Unflushed(hot) \subseteq DOMAIN hot
      /\ DOMAIN hot \subseteq Nat
  BY DEF Prefixes, Unflushed, DurableInv, Numbered
<1>6. OneOf(hot, Unflushed(hot) \ done, left)
  BY <1>5, AttemptIsOfOne DEF OneOf
<1>7. \A s \in done : hot[s].path \in files' \ torn'
  BY <1>2, <1>5, <1>6, WrittenIsWhole DEF DurableInv
<1>8. OfThisRun'
  BY <1>3, <1>4 DEF OfThisRun, KnownInv
<1>9. ASSUME NEW p \in pushed, ~Expired(p.day) PROVE Known(p)'
  <2>1. Whole(p) => Whole(p)'
    BY <1>9, FlushNowKeeps DEF Durable, Whole
  <2>2. Known(p)
    BY <1>9 DEF KnownInv
  <2>3. CASE p.seq \in DOMAIN hot
    <3>1. hot[p.seq].path = p
      BY <2>3 DEF KnownInv, OfThisRun
    <3>2. hot'[p.seq].flushed => Whole(p)'
      BY <1>4, <1>7, <2>1, <2>2, <2>3, <3>1 DEF Known, Whole
    <3> QED BY <1>4, <2>3, <3>2 DEF Known
  <2>4. CASE p.seq \notin DOMAIN hot
    BY <1>2, <1>4, <1>5, <2>1, <2>2, <2>4, IndexedAt DEF Known
  <2> QED BY <2>3, <2>4
<1> QED BY <1>3, <1>8, <1>9 DEF KnownInv, Expired

(* The cleanup takes whole days, and this recording's is not one of them.    *)
LEMMA CleanupKnows ==
    ASSUME DurableInv, KnownInv, Cleanup
    PROVE  KnownInv'
<1>1. /\ UNCHANGED <<nextSeq, pushed, day, hot>>
      /\ flushed' = [s \in Indexed(flushed, files) |-> flushed[s]]
  BY DEF Cleanup
<1>2. ASSUME NEW p \in pushed, ~Expired(p.day) PROVE Known(p)'
  <2>1. Whole(p) => Whole(p)'
    BY <1>2, CleanupKeeps DEF Durable, Whole
  <2>2. Known(p)
    BY <1>2 DEF KnownInv
  <2>3. ASSUME p.seq \in DOMAIN flushed, flushed[p.seq] = p
        PROVE  p.seq \in DOMAIN flushed' /\ flushed'[p.seq] = p
    BY <1>1, <1>2, <2>3 DEF Indexed, Doomed
  <2> QED BY <1>1, <2>1, <2>2, <2>3 DEF Known
<1> QED BY <1>1, <1>2 DEF KnownInv, OfThisRun, Expired

(* Nothing of this run has been recorded yet.                                *)
LEMMA RestartKnows ==
    ASSUME DurableInv, KnownInv, Restart
    PROVE  KnownInv'
BY DEF Restart, KnownInv, OfThisRun, Empty

LEMMA NextDayKnows ==
    ASSUME DurableInv, KnownInv, NextDay
    PROVE  KnownInv'
<1>1. day \in Nat /\ Retention \in Nat /\ day' = day + 1
      /\ UNCHANGED <<hot, flushed, files, torn, nextSeq, pushed>>
  BY ArchiveAssumption DEF NextDay, KnownInv, OfThisRun
<1>2. \A p \in pushed : Expired(p.day) => Expired(p.day)'
  BY <1>1 DEF Expired, KnownInv, OfThisRun
<1>3. \A p \in pushed : Known(p) => Known(p)'
  BY <1>1 DEF Known, Whole
<1> QED BY <1>1, <1>2, <1>3 DEF KnownInv, OfThisRun

LEMMA InitDurable == Init => DurableInv
BY FS_EmptySet DEF Init, DurableInv, Numbered, LogsAreLogs, Different, Unwritten, Unflushed,
                   Empty, NoLog

LEMMA NextDurable ==
    ASSUME DurableInv, [Next]_vars
    PROVE  DurableInv' /\ Durable
<1>1. CASE NextDay
  BY <1>1 DEF NextDay, DurableInv, Durable, Numbered, LogsAreLogs, Different, Unwritten
<1>2. CASE UNCHANGED vars
  BY <1>2 DEF vars, DurableInv, Durable, Numbered, LogsAreLogs, Different, Unwritten
<1> QED BY <1>1, <1>2, PushKeeps, FlushNowKeeps, AppendTurnKeeps, CleanupKeeps, RestartKeeps
        DEF Next

(* Whatever is refused by the disk, wherever a write is cut short, and       *)
(* however often the daemon dies: a whole file and a whole line stay until   *)
(* their day expires.                                                        *)
THEOREM ArchiveDurable == Spec => DurableUntilExpired
<1>1. Spec => []DurableInv
  BY InitDurable, NextDurable, PTL DEF Spec
<1>2. DurableInv /\ [Next]_vars =>
        [/\ \A p \in files \ torn : ~Expired(p.day) => p \in files' \ torn'
         /\ \A d \in DOMAIN logs : ~Expired(d) => logs[d].lines \subseteq logs'[d].lines]_vars
  BY NextDurable DEF Durable
<1> QED BY <1>1, <1>2, PTL DEF Spec, DurableUntilExpired

LEMMA InitKnown == Init => KnownInv
BY DEF Init, KnownInv, OfThisRun, Empty

LEMMA NextKnown ==
    ASSUME DurableInv, KnownInv, [Next]_vars
    PROVE  KnownInv'
<1>1. CASE AppendTurn
  BY <1>1 DEF AppendTurn, KnownInv, OfThisRun, Known, Whole, Expired
<1>2. CASE UNCHANGED vars
  BY <1>2 DEF vars, KnownInv, OfThisRun, Known, Whole, Expired
<1> QED BY <1>1, <1>2, PushKnows, FlushNowKnows, CleanupKnows, RestartKnows, NextDayKnows
        DEF Next

LEMMA KnownReplays == KnownInv => Replayable
<1> SUFFICES ASSUME KnownInv, NEW p \in pushed, ~Expired(p.day)
             PROVE  Wav(p.seq) = p /\ (p.seq \in DOMAIN hot \/ p \notin torn)
  BY DEF Replayable
<1>1. CASE p.seq \in DOMAIN hot
  BY <1>1 DEF KnownInv, OfThisRun, Wav
<1>2. CASE p.seq \notin DOMAIN hot
  BY <1>2 DEF KnownInv, Known, Whole, Wav
<1> QED BY <1>1, <1>2

(* Wherever its clip is, whatever was refused and whichever older run used   *)
(* the same id: a window recorded since the start plays back with its own    *)
(* recording, whole, until its day expires.                                  *)
THEOREM ArchiveReplays == Spec => []Replayable
<1>1. Spec => []DurableInv
  BY InitDurable, NextDurable, PTL DEF Spec
<1> QED BY <1>1, InitKnown, NextKnown, KnownReplays, PTL DEF Spec
=============================================================================
