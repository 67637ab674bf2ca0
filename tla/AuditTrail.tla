------------------------------ MODULE AuditTrail ------------------------------
(***************************************************************************)
(* The files of the audit sink (AuditFileWriter of crates/bitty-daemon/    *)
(* src/audit_sink.rs).  File 0 is the active segment, audit.log; file i is *)
(* audit.i.log.  The daemon appends through a handle, which follows the    *)
(* file it was opened on when that file is renamed or removed.             *)
(*                                                                         *)
(* Records are numbered in event-id order and the sink hands them over one *)
(* by one, each again until it is appended (AuditSink).  A segment holds   *)
(* SegmentCap lines.  A torn line is not modelled: a write that fails      *)
(* leaves nothing.  At most MaxFaults operations on the directory fail.    *)
(***************************************************************************)
EXTENDS Integers, Sequences, SequencesExt

CONSTANTS
    Segments,           \* audit_segments
    SegmentCap,         \* audit_file_bytes, in lines
    MaxRecords,         \* bound: records written
    MaxFaults,          \* bound: operations that fail
    NoFile              \* no file of that name

VARIABLES
    dir,                \* the files, and the index of the open one
    counted,            \* active_len, in lines
    last,               \* last_written
    faults              \* history: failures so far

vars == <<dir, counted, last, faults>>

Index == 0 .. Segments - 1
Unlinked == Segments        \* the open file has no name

Removed(d, i) ==
    [files |-> [d.files EXCEPT ![i] = NoFile],
     open |-> IF d.open = i THEN Unlinked ELSE d.open]

\* A rename; of a file that is not there, nothing.
Renamed(d, i) ==
    IF d.files[i] = NoFile THEN d
    ELSE [files |-> [d.files EXCEPT ![i + 1] = d.files[i], ![i] = NoFile],
          open |-> IF d.open = i THEN i + 1 ELSE d.open]

\* The directory after the first n steps of a rotation: the oldest segment is
\* removed, then each younger one moves up, the active one last.
Rotated(d, n) ==
    LET after[i \in 0 .. Segments] ==
          CASE i = 0 -> d
            [] i = 1 -> Removed(d, Segments - 1)
            [] OTHER -> Renamed(after[i - 1], Segments - i)
    IN after[n]
Created(d, lines) == [d EXCEPT !.files[0] = lines]

Full == counted > 0 /\ counted >= SegmentCap

\* append_line with room in the segment.
AppendRecord ==
    /\ last < MaxRecords /\ ~Full
    /\ dir' = IF dir.open = Unlinked THEN dir
              ELSE [dir EXCEPT !.files[dir.open] = Append(@, last + 1)]
    /\ counted' = counted + 1
    /\ last' = last + 1
    /\ UNCHANGED faults

\* append_line that rotates first.
RotateAndAppend ==
    /\ last < MaxRecords /\ Full
    /\ dir.files[0] # NoFile
    /\ dir' = [Created(Rotated(dir, Segments), <<last + 1>>) EXCEPT !.open = 0]
    /\ counted' = 1
    /\ last' = last + 1
    /\ UNCHANGED faults

\* A rotation one of whose steps fails: the handle and active_len are replaced
\* last.  The new segment may have been created and its mode not set.
RotateFails ==
    /\ last < MaxRecords /\ Full
    /\ \/ /\ faults < MaxFaults
          /\ faults' = faults + 1
          /\ \/ \E n \in 0 .. Segments :
                  (n = Segments => dir.files[0] # NoFile) /\ dir' = Rotated(dir, n)
             \/ dir.files[0] # NoFile /\ dir' = Created(Rotated(dir, Segments), <<>>)
       \/ /\ dir.files[0] = NoFile
          /\ dir' = Rotated(dir, Segments - 1)
          /\ UNCHANGED faults
    /\ UNCHANGED <<counted, last>>

\* The daemon restarts: AuditFileWriter::open.
Reopen ==
    LET lines == IF dir.files[0] = NoFile THEN <<>> ELSE dir.files[0]
    IN /\ dir' = [Created(dir, lines) EXCEPT !.open = 0]
       /\ counted' = Len(lines)
       /\ UNCHANGED <<last, faults>>

Init ==
    /\ dir = [files |-> [i \in Index |-> IF i = 0 THEN <<>> ELSE NoFile], open |-> 0]
    /\ counted = 0
    /\ last = 0
    /\ faults = 0
Next == AppendRecord \/ RotateAndAppend \/ RotateFails \/ Reopen
Spec == Init /\ [][Next]_vars

-----------------------------------------------------------------------------
OnDisk == UNION {ToSet(dir.files[i]) : i \in {j \in Index : dir.files[j] # NoFile}}

\* audit_sink.rs: "a transient failure neither reorders nor silently drops the
\* tail".  What `audit_segments` have room for beside the active segment, the
\* records written last, is on disk.
TailKept ==
    \A r \in 1 .. last : r > last - SegmentCap * (Segments - 1) => r \in OnDisk
=============================================================================
