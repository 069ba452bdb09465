---------------------------- MODULE DurableSpool ----------------------------
(***************************************************************************)
(* The crash-safe FIFO spool of the agent's HTTP transport                  *)
(* (agent/agent/src/transport/durable_spool.rs).                            *)
(*                                                                         *)
(* The spool is two files: the record file and a cursor file that holds the *)
(* offset of the first record not yet acknowledged.  The file is modelled   *)
(* as a sequence of cells: record r occupies SizeOf(r) of them, the first   *)
(* being its length header.  Every operation runs under one mutex, so `pc'  *)
(* is the point the single operation in progress has reached; a crash may   *)
(* happen at the points in CrashPoints, and with IoErrors every write, sync *)
(* and rename may fail.  `damaged' records that one of them has come where  *)
(* it leaves the two files, or a file and the memory, out of step.          *)
(*                                                                         *)
(* A compaction renames a new file over the record file and then opens it.  *)
(* When it fails in between, the handle stays on the replaced file, which   *)
(* the next open will not find: `linked' is false, `file' is the file the   *)
(* handle is on and `atPath' the one that has taken its place.              *)
(***************************************************************************)
EXTENDS Integers, Sequences

CONSTANTS
  MaxRecords,   \* bound: how many records callers hand to the spool
  MaxBytes,     \* max_bytes, in cells
  CompactMin,   \* COMPACT_MIN_BYTES, in cells
  GarbageLen,   \* the length decoded from a cell that is no header
  CrashPoints,  \* the values of pc at which the process may die
  IoErrors      \* may a write, a sync or a rename fail?

Records == 1..MaxRecords

Points == {"closed", "recovered", "ready", "written", "acked", "compacted", "truncated"}

\* Two sizes, so that an offset into one record need not be the start of
\* another one.
SizeOf(r) == 2 + (r % 2)

Nil == 0

ASSUME SpoolAssumption ==
  /\ MaxRecords \in Nat /\ MaxBytes \in Nat \ {0} /\ CompactMin \in Nat
  /\ GarbageLen \in Nat \ {0}
  /\ CrashPoints \subseteq Points
  /\ IoErrors \in BOOLEAN

VARIABLES
  file,        \* disk: the cells of the record file the handle is on
  cursor,      \* disk: the content of the cursor file
  linked,      \* disk: is `file' the one at the spool's path?
  atPath,      \* disk: the cells of the one that is there when it is not
  readOffset,  \* memory: read_offset
  writeOffset, \* memory: write_offset
  pc,          \* the point the operation in progress has reached
  job,         \* the record the append in progress writes, or Nil
  produced,    \* how many records callers have handed over so far
  accepted,    \* history: records whose append returned Ok
  acked,       \* history: records acknowledged through the cursor file
  stray,       \* history: those whose last acknowledgement was for a replaced file
  damaged      \* history: have the files come apart?

vars == <<file, cursor, linked, atPath, readOffset, writeOffset, pc, job, produced, accepted, acked, stray, damaged>>
path == <<linked, atPath>>
disk == <<file, cursor, path>>
memory == <<readOffset, writeOffset>>

-----------------------------------------------------------------------------
Cells(r) == [i \in 1..SizeOf(r) |-> <<r, i>>]

\* The length a reader finds at offset o: that of the record whose header is
\* there, or whatever the bytes of a record's body decode to.
LengthAt(f, o) == IF f[o + 1][2] = 1 THEN SizeOf(f[o + 1][1]) ELSE GarbageLen

\* recover_tail: hops from header to header, up to the offset after the last
\* whole record of f.
WholeLength(f) ==
  LET at[o \in 0..Len(f)] ==
        IF o = Len(f) THEN o
        ELSE IF o + LengthAt(f, o) > Len(f) THEN o
        ELSE at[o + LengthAt(f, o)]
  IN  at[0]

IsRecordAt(f, o) ==
  \E r \in Records : SubSeq(f, o + 1, o + LengthAt(f, o)) = Cells(r)

\* The records a reader gets from f when it starts at `from', up to the
\* first place where the bytes are no record.
RecordsFrom(f, from) ==
  LET at[o \in 0..Len(f)] ==
        IF o = Len(f) THEN <<>>
        ELSE IF o + LengthAt(f, o) > Len(f) THEN <<>>
        ELSE IF ~IsRecordAt(f, o) THEN <<>>
        ELSE <<f[o + 1][1]>> \o at[o + LengthAt(f, o)]
  IN  at[from]

MinOf(a, b) == IF a < b THEN a ELSE b

Prefix(f, n) == SubSeq(f, 1, n)
Suffix(f, n) == SubSeq(f, n + 1, Len(f))

Init ==
  /\ file = <<>> /\ cursor = 0 /\ linked = TRUE /\ atPath = <<>>
  /\ readOffset = 0 /\ writeOffset = 0
  /\ pc = "closed" /\ job = Nil
  /\ produced = 0 /\ accepted = {} /\ acked = {} /\ stray = {} /\ damaged = FALSE

-----------------------------------------------------------------------------
\* open and recover_tail, up to the truncation of a torn tail.
Open ==
  LET whole == WholeLength(file)
  IN  /\ pc = "closed"
      /\ pc' = IF whole = Len(file) THEN "ready" ELSE "recovered"
      /\ file' = Prefix(file, whole)
      /\ writeOffset' = whole
      /\ readOffset' = MinOf(cursor, whole)
      /\ UNCHANGED <<cursor, path, job, produced, accepted, acked, stray, damaged>>

\* Mutant: recover_tail restarts the cursor at zero.
RecoverCursorAtZero ==
  /\ pc = "recovered"
  /\ cursor' = 0 /\ pc' = "ready"
  /\ UNCHANGED <<file, path, memory, job, produced, accepted, acked, stray, damaged>>

\* recover_tail writes the cursor file, but only after a torn tail.
RecoverCursor ==
  /\ pc = "recovered"
  /\ cursor' = readOffset /\ pc' = "ready"
  /\ UNCHANGED <<file, path, memory, job, produced, accepted, acked, stray, damaged>>

PendingBytes == writeOffset - readOffset

\* compact_if_useful's decision for `incoming' more cells.
CompactUseful(incoming) ==
  /\ readOffset > 0
  /\ \/ /\ writeOffset + incoming - readOffset <= MaxBytes
        /\ writeOffset + incoming > MaxBytes
     \/ /\ readOffset >= CompactMin
        /\ 2 * readOffset >= writeOffset

\* The first half of compact_if_useful: the live suffix replaces the file.
ReplaceFile ==
  /\ file' = Suffix(file, readOffset) /\ linked' = TRUE /\ atPath' = <<>>
  /\ writeOffset' = writeOffset - readOffset
  /\ readOffset' = 0
  /\ pc' = "compacted"
  /\ UNCHANGED cursor

\* It fails: before the rename, and nothing has changed, or after it, before
\* the new file is open and the offsets are those of it.
ReplaceFails ==
  /\ IoErrors
  /\ \/ UNCHANGED <<path, damaged>>
     \/ linked' = FALSE /\ atPath' = Suffix(file, readOffset) /\ damaged' = TRUE
  /\ UNCHANGED <<file, cursor, memory>>

\* append, up to the return for a spool that is full.
AppendRejected ==
  LET r == produced + 1
  IN  /\ pc = "ready" /\ job = Nil /\ produced < MaxRecords
      /\ PendingBytes + SizeOf(r) > MaxBytes
      /\ produced' = r
      /\ UNCHANGED <<disk, memory, pc, job, accepted, acked, stray, damaged>>

\* append, up to the compaction that makes room for the record.
AppendCompacts ==
  LET r == produced + 1
  IN  /\ pc = "ready" /\ job = Nil /\ produced < MaxRecords
      /\ PendingBytes + SizeOf(r) <= MaxBytes
      /\ CompactUseful(SizeOf(r))
      /\ ReplaceFile
      /\ produced' = r /\ job' = r
      /\ UNCHANGED <<accepted, acked, stray, damaged>>

\* append, up to a compaction that fails: the record is refused.
AppendCompactFails ==
  LET r == produced + 1
  IN  /\ pc = "ready" /\ job = Nil /\ produced < MaxRecords
      /\ PendingBytes + SizeOf(r) <= MaxBytes
      /\ CompactUseful(SizeOf(r))
      /\ ReplaceFails
      /\ produced' = r
      /\ UNCHANGED <<pc, job, accepted, acked, stray>>

\* append, up to the writes of the header and the body.
AppendWrites ==
  LET r == produced + 1
  IN  /\ pc = "ready" /\ job = Nil /\ produced < MaxRecords
      /\ PendingBytes + SizeOf(r) <= MaxBytes
      /\ ~CompactUseful(SizeOf(r))
      /\ file' = file \o Cells(r)
      /\ pc' = "written"
      /\ produced' = r /\ job' = r
      /\ UNCHANGED <<cursor, path, memory, accepted, acked, stray, damaged>>

\* Mutant: a compaction leaves the cursor file alone.
CompactionKeepsCursor ==
  /\ pc = "compacted"
  /\ IF job = Nil
     THEN pc' = "ready" /\ UNCHANGED file
     ELSE pc' = "written" /\ file' = file \o Cells(job)
  /\ UNCHANGED <<cursor, path, memory, job, produced, accepted, acked, stray, damaged>>

\* The second half of compact_if_useful: the cursor file follows.  An append
\* that compacted goes on to its writes.
CompactionCursor ==
  /\ pc = "compacted"
  /\ cursor' = 0
  /\ IF job = Nil
     THEN pc' = "ready" /\ UNCHANGED file
     ELSE pc' = "written" /\ file' = file \o Cells(job)
  /\ UNCHANGED <<path, memory, job, produced, accepted, acked, stray, damaged>>

\* append's sync_data returns: the caller is told the record is stored.
AppendSynced ==
  /\ pc = "written"
  /\ writeOffset' = writeOffset + SizeOf(job)
  /\ accepted' = accepted \union {job}
  /\ pc' = "ready" /\ job' = Nil
  /\ UNCHANGED <<disk, readOffset, produced, acked, stray, damaged>>

\* The offset after the record at the read offset.
NextOffset == readOffset + LengthAt(file, readOffset)

\* acknowledge, up to the cursor file.  The sender acknowledges only a record
\* it has read and posted.
CanAcknowledge ==
  /\ pc = "ready"
  /\ readOffset < MinOf(writeOffset, Len(file))
  /\ NextOffset <= MinOf(writeOffset, Len(file))
  /\ IsRecordAt(file, readOffset)

\* The cursor file moves past the head record.
Acknowledge ==
  LET r == file[readOffset + 1][1]
  IN  /\ CanAcknowledge
      /\ cursor' = NextOffset /\ readOffset' = NextOffset
      /\ acked' = acked \union {r}
      /\ stray' = IF linked THEN stray \ {r} ELSE stray \union {r}
      /\ pc' = "acked"
      /\ UNCHANGED <<file, path, writeOffset, job, produced, accepted, damaged>>

\* The cursor file cannot be replaced, or only the sync after that fails:
\* read_offset stays, and the record will be posted again.
AcknowledgeFails ==
  /\ IoErrors /\ CanAcknowledge
  /\ cursor' \in {cursor, NextOffset}
  /\ damaged' = (damaged \/ cursor' # cursor)
  /\ UNCHANGED <<file, path, memory, pc, job, produced, accepted, acked, stray>>

\* The rest of acknowledge: reset_empty up to the truncation, a compaction up
\* to the replacement of the file, or nothing.
AckReturns ==
  /\ pc = "acked"
  /\ \/ /\ readOffset = writeOffset
        /\ file' = <<>> /\ readOffset' = 0 /\ writeOffset' = 0
        /\ pc' = "truncated"
        /\ UNCHANGED <<cursor, path>>
     \/ /\ readOffset # writeOffset /\ CompactUseful(0)
        /\ ReplaceFile
     \/ /\ readOffset # writeOffset /\ ~CompactUseful(0)
        /\ pc' = "ready"
        /\ UNCHANGED <<disk, memory>>
  /\ UNCHANGED <<job, produced, accepted, acked, stray, damaged>>

\* Mutant: reset_empty leaves the cursor file alone.
ResetKeepsCursor ==
  /\ pc = "truncated"
  /\ pc' = "ready"
  /\ UNCHANGED <<disk, memory, job, produced, accepted, acked, stray, damaged>>

\* The rest of reset_empty.
ResetCursor ==
  /\ pc = "truncated"
  /\ cursor' = 0 /\ pc' = "ready"
  /\ UNCHANGED <<file, path, memory, job, produced, accepted, acked, stray, damaged>>

-----------------------------------------------------------------------------
\* A write of append stops after k cells, or (k = SizeOf(job)) its sync
\* fails: append returns an error and write_offset stays where it was.
AppendFails ==
  /\ IoErrors /\ pc = "written"
  /\ \E k \in 0..SizeOf(job) :
       file' = Prefix(file, Len(file) - SizeOf(job) + k)
  /\ pc' = "ready" /\ job' = Nil
  /\ UNCHANGED <<cursor, path, memory, produced, accepted, acked, stray>>
  /\ damaged' = TRUE

\* The compaction at the end of acknowledge fails.
AckCompactFails ==
  /\ pc = "acked" /\ readOffset # writeOffset /\ CompactUseful(0)
  /\ ReplaceFails
  /\ pc' = "ready"
  /\ UNCHANGED <<job, produced, accepted, acked, stray>>

\* reset_empty fails to truncate the file, or to sync it once it is truncated.
TruncateFails ==
  /\ IoErrors /\ pc = "acked" /\ readOffset = writeOffset
  /\ file' \in {file, <<>>}
  /\ damaged' = (damaged \/ file' # file)
  /\ pc' = "ready"
  /\ UNCHANGED <<cursor, path, memory, job, produced, accepted, acked, stray>>

\* The cursor update at the end of a compaction or of reset_empty fails, or the
\* sync after it; the append or acknowledge that asked for it returns the error.
CursorFails ==
  /\ IoErrors /\ pc \in {"compacted", "truncated"}
  /\ cursor' \in {cursor, 0}
  /\ damaged' = (damaged \/ cursor' # 0)
  /\ pc' = "ready" /\ job' = Nil
  /\ UNCHANGED <<file, path, memory, produced, accepted, acked, stray>>

\* The process dies, or open returns an error.  Of a record whose append has
\* not synced any prefix may be on disk; everything else on disk was synced
\* before the next step.  Only the rename of a compaction that failed may not
\* have been: the replaced file may be back at the path.
Crash ==
  /\ pc \in CrashPoints \ {"closed"}
  /\ \E f \in IF linked THEN {file} ELSE {file, atPath} :
       IF pc = "written" /\ f = file
       THEN \E k \in 0..SizeOf(job) : file' = Prefix(f, Len(f) - SizeOf(job) + k)
       ELSE file' = f
  /\ linked' = TRUE /\ atPath' = <<>>
  /\ pc' = "closed" /\ job' = Nil
  /\ readOffset' = 0 /\ writeOffset' = 0
  /\ UNCHANGED <<cursor, produced, accepted, acked, stray>>
  /\ damaged' = (damaged \/ pc \in {"compacted", "truncated"})

Next ==
  \/ Open \/ RecoverCursor
  \/ AppendRejected \/ AppendCompacts \/ AppendWrites \/ AppendSynced
  \/ CompactionCursor
  \/ Acknowledge \/ AckReturns \/ ResetCursor
  \/ AppendCompactFails \/ AppendFails \/ AcknowledgeFails \/ AckCompactFails
  \/ TruncateFails \/ CursorFails \/ Crash

Spec == Init /\ [][Next]_vars

-----------------------------------------------------------------------------
\* What a reader of the spool gets: from memory's offsets while it is open,
\* from the files once it is opened again otherwise.
Pending ==
  IF pc = "closed"
  THEN LET whole == WholeLength(file)
       IN  RecordsFrom(Prefix(file, whole), MinOf(cursor, whole))
  ELSE LET end == MinOf(writeOffset, Len(file))
       IN  RecordsFrom(Prefix(file, end), MinOf(readOffset, end))

\* Every variable has the type the code gives it, and the offsets stay in
\* order.
TypeOK ==
  /\ file \in Seq(Records \X (1..3)) /\ cursor \in Nat
  /\ readOffset \in 0..writeOffset /\ writeOffset \in Nat
  /\ pc \in Points /\ job \in Records \union {Nil}
  /\ produced \in 0..MaxRecords
  /\ accepted \subseteq Records /\ acked \subseteq Records /\ stray \subseteq acked
  /\ linked \in BOOLEAN /\ atPath \in Seq(Records \X (1..3))

\* A restart replays every record whose append succeeded and that was not
\* acknowledged (the promise at the head of durable_spool.rs).
ReplaysUnacknowledged ==
  accepted \ acked \subseteq {Pending[i] : i \in DOMAIN Pending}

\* That promise is kept through every crash and error that falls outside the
\* windows between the files, a half-written record included.
ReplaysUntilDamaged == ~damaged => ReplaysUnacknowledged

\* A record acknowledged through the cursor file is never read again, however
\* acknowledge, compaction, reset, errors and crashes interleave.  Excepted are
\* acknowledgements through a handle that a failed compaction has left on a
\* replaced file: the cursor file then counts in a file no open will find.
AcknowledgedStaysGone ==
  (acked \ stray) \intersect {Pending[i] : i \in DOMAIN Pending} = {}

\* The spool implements a durable FIFO queue, DurableQueue, until it is damaged:
\* whatever order its steps and crashes come in, the records a reader gets
\* change only by an enqueue at the back and an acknowledgement at the front.
Queue == INSTANCE DurableQueue WITH queue <- Pending
ImplementsDurableQueue == Queue!Init /\ [][~damaged' => Queue!Next]_Pending
=============================================================================
