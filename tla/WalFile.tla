------------------------------- MODULE WalFile -------------------------------
(***************************************************************************)
(* The write-ahead log on disk: pkg/wal (FileWriter, FileReader, Record)   *)
(* as recovery.Engine uses it.  pkg/eventoutbox/writer.go is the same      *)
(* writer under another name.                                              *)
(*                                                                         *)
(* A segment file is the sequence of the frames on disk.  A crash may tear *)
(* the frame being written: `partial' is a frame cut where io.ReadFull     *)
(* reports ErrUnexpectedEOF, `lenOnly' a frame cut right after its length  *)
(* prefix, for which io.ReadFull of the body reports a plain EOF.          *)
(* All frames count alike towards the size of a segment.                   *)
(***************************************************************************)
EXTENDS Integers, Sequences, SequencesExt

CONSTANTS CommitModes,  \* the values GroupCommitEnabled() may have when the log is opened
          SegmentMax,   \* MaxSegmentBytes, in frames
          Tears,        \* the tears a crash can leave
          MaxAppends,   \* bound on the records appended
          MaxRestarts   \* bound on crashes and closes

ASSUME WalFileAssumption ==
    /\ CommitModes \subseteq BOOLEAN /\ CommitModes # {}
    /\ SegmentMax \in Nat \ {0}
    /\ Tears \subseteq {"partial", "lenOnly"}
    /\ MaxAppends \in Nat /\ MaxRestarts \in Nat

VARIABLES files,     \* the segment files, wal_000001.log first
          buf,       \* records appended to the last file and not yet synced
          status,    \* "closed", "open" or "failed" (Open returned an error)
          groupCommit, \* FileWriterConfig.GroupCommitEnabled()
          step,      \* where appendLocked is: "none", "sync" or "rotate"
          lastSeq,   \* FileWriter.lastSeq
          appended,  \* history: how many records were appended
          kept,      \* history: the records written whole and reported durable,
                     \*   or left whole by a crash
          recovered, \* history: the records the last successful start read
          restarts   \* crashes and closes so far

walVars == <<files, buf, status, groupCommit, step, lastSeq, appended, kept, recovered,
             restarts>>

LogRecord(seq, cmd) == [kind |-> "rec", seq |-> seq, cmd |-> cmd]
Tear(kind) == [kind |-> kind, seq |-> 0, cmd |-> 0]
Frame == [kind : {"rec", "partial", "lenOnly"}, seq : Nat, cmd : 0..MaxAppends]

WalInit ==
    /\ files = <<>> /\ buf = <<>>
    /\ status = "closed" /\ step = "none"
    /\ groupCommit \in CommitModes
    /\ lastSeq = 0
    /\ appended = 0 /\ kept = <<>> /\ recovered = <<>>
    /\ restarts = 0

-----------------------------------------------------------------------------
(* Reading.                                                                *)

(* ReadRecord over a whole segment meets no error: a length prefix alone   *)
(* at the very end looks like the end of the file.                         *)
Readable(seg) == \A i \in DOMAIN seg : \/ seg[i].kind = "rec"
                                       \/ seg[i].kind = "lenOnly" /\ i = Len(seg)

(* The records Iterator.Next yields from a segment before it stops.        *)
RecordsOf(seg) ==
    SubSeq(seg, 1, (CHOOSE n \in 0..Len(seg) :
                        /\ \A i \in 1..n : seg[i].kind = "rec"
                        /\ n = Len(seg) \/ seg[n + 1].kind # "rec"))

(* What the iterator of FileReader.ReadFrom(0) yields before it stops:     *)
(* segment after segment, up to the first error.  A start that meets the   *)
(* error drops these records and fails.                                    *)
ReadFrom(segments) ==
    LET last == CHOOSE n \in 0..Len(segments) :
                    /\ \A i \in 1..n - 1 : Readable(segments[i])
                    /\ n = Len(segments) \/ (n > 0 /\ ~Readable(segments[n]))
    IN  FlattenSeq([i \in 1..last |-> RecordsOf(segments[i])])

(* Mutant: the writer always starts counting at 1.                         *)
ScanLastSeqZero(seg) == 0

(* scanLastSeq.                                                            *)
ScanLastSeq(seg) == IF RecordsOf(seg) = <<>> THEN 0 ELSE Last(RecordsOf(seg)).seq

-----------------------------------------------------------------------------
(* latestSegment and openSegment: the first segment is created if there is *)
(* none.                                                                   *)
SegmentsToOpen == IF files = <<>> THEN << <<>> >> ELSE files

(* OpenFileWriter, then recovery's scan of all segments: any error of the  *)
(* reader fails the start, and every later one.                            *)
OpenFileWriter ==
    /\ status = "closed"
    /\ LET segments == SegmentsToOpen
       IN  /\ files' = segments
           /\ IF \A i \in DOMAIN segments : Readable(segments[i])
              THEN /\ status' = "open" /\ lastSeq' = ScanLastSeq(Last(segments))
                   /\ recovered' = ReadFrom(segments)
              ELSE status' = "failed" /\ UNCHANGED <<lastSeq, recovered>>
    /\ groupCommit' \in CommitModes
    /\ UNCHANGED <<buf, step, appended, kept, restarts>>

(* The current segment with records b is at its limit.                     *)
Full(b) == Len(Last(files)) + Len(b) >= SegmentMax

(* AppendNext up to the call of maybeSyncLocked(false).                    *)
AppendNext ==
    /\ status = "open" /\ step = "none"
    /\ appended < MaxAppends
    /\ appended' = appended + 1
    /\ lastSeq' = lastSeq + 1
    /\ buf' = Append(buf, LogRecord(lastSeq + 1, appended + 1))
    /\ step' = IF ~groupCommit THEN "sync" ELSE IF Full(buf') THEN "rotate" ELSE "none"
    /\ UNCHANGED <<files, status, groupCommit, kept, recovered, restarts>>

Flushed == [files EXCEPT ![Len(files)] = @ \o buf]

(* flushAndSyncLocked, at the end of an append or from Sync().             *)
Sync ==
    /\ status = "open"
    /\ step = "sync" \/ (step = "none" /\ groupCommit)
    /\ files' = Flushed /\ buf' = <<>>
    /\ kept' = kept \o buf
    /\ step' = IF step = "sync" /\ Full(buf) THEN "rotate" ELSE "none"
    /\ UNCHANGED <<status, groupCommit, lastSeq, appended, recovered, restarts>>

(* Mutant: the segment is left without a sync.                             *)
RotateUnsynced ==
    /\ status = "open" /\ step = "rotate"
    /\ files' = Append(files, <<>>) /\ buf' = <<>>
    /\ kept' = kept \o buf
    /\ step' = "none"
    /\ UNCHANGED <<status, groupCommit, lastSeq, appended, recovered, restarts>>

(* rotateLocked and openSegment.                                           *)
Rotate ==
    /\ status = "open" /\ step = "rotate"
    /\ files' = Append(Flushed, <<>>) /\ buf' = <<>>
    /\ kept' = kept \o buf
    /\ step' = "none"
    /\ UNCHANGED <<status, groupCommit, lastSeq, appended, recovered, restarts>>

Close ==
    /\ status = "open" /\ step = "none"
    /\ restarts < MaxRestarts
    /\ restarts' = restarts + 1
    /\ files' = Flushed /\ buf' = <<>>
    /\ kept' = kept \o buf
    /\ status' = "closed"
    /\ UNCHANGED <<groupCommit, step, lastSeq, appended, recovered>>

(* Part of the buffer is on disk, its last frame possibly torn.            *)
WalCrash ==
    /\ status = "open"
    /\ restarts < MaxRestarts
    /\ restarts' = restarts + 1
    /\ \E n \in 0..Len(buf) :
         \E tail \in {<<>>} \cup (IF n < Len(buf) THEN {<<Tear(t)>> : t \in Tears} ELSE {}) :
            /\ files' = [files EXCEPT ![Len(files)] = @ \o SubSeq(buf, 1, n) \o tail]
            /\ kept' = kept \o SubSeq(buf, 1, n)
    /\ buf' = <<>>
    /\ status' = "closed" /\ step' = "none"
    /\ UNCHANGED <<groupCommit, lastSeq, appended, recovered>>

WalNext == OpenFileWriter \/ AppendNext \/ Sync \/ Rotate \/ Close \/ WalCrash

WalSpec == WalInit /\ [][WalNext]_walVars

-----------------------------------------------------------------------------
(* Properties.                                                             *)

(* Every variable has its type; an open writer has a segment to write to.  *)
WalTypeOK ==
    /\ files \in Seq(Seq(Frame)) /\ buf \in Seq(Frame)
    /\ status \in {"closed", "open", "failed"} /\ step \in {"none", "sync", "rotate"}
    /\ status = "open" => files # <<>>
    /\ lastSeq \in Nat /\ appended \in 0..MaxAppends
    /\ kept \in Seq(Frame) /\ recovered \in Seq(Frame)

Cmds(records) == [i \in 1..Len(records) |-> records[i].cmd]

(* The log as DurableLog sees it.                                          *)
L == INSTANCE DurableLog WITH Commands <- 1..MaxAppends, up <- status = "open",
                              log <- Cmds(kept \o buf), durable <- Len(kept),
                              recovered <- Cmds(recovered)

(* The segment files implement the log recovery relies on: across appends, *)
(* syncs, rotations, torn frames and crashes, a start that succeeds reads  *)
(* back all that was reported durable, in the order in which it was        *)
(* appended, and nothing else.  (A start may fail: OpenSucceeds.)          *)
ImplementsDurableLog == L!Spec

(* Everything reported durable can be read: the iterator gets past it.     *)
DurableReadable == IsPrefix(kept, ReadFrom(files))

(* "seq 必须严格递增" (writer.go): sequence numbers increase along the log.    *)
SeqStrictlyIncreasing ==
    LET records == ReadFrom(files)
    IN  \A i, j \in 1..Len(records) : i < j => records[i].seq < records[j].seq

(* As long as the log is in its first segment they do, across crashes and  *)
(* restarts.                                                               *)
SeqIncreasingBeforeRotation == Len(files) <= 1 => SeqStrictlyIncreasing

(* Recovery from the durable prefix is always possible: Open does not fail *)
(* on what a crash leaves.                                                 *)
OpenSucceeds == status # "failed"
=============================================================================
