------------------------------ MODULE AuditSink ------------------------------
(***************************************************************************)
(* The audit sink (crates/bitty-daemon/src/audit.rs, audit_sink.rs) as     *)
(* operators: a bounded ring of staged records, the batch that is being    *)
(* written (`retry`) and the degraded flag.  A record says only whether it *)
(* attests an effect ("applied") or not ("other").  The writer may fail at *)
(* any record, so an operation that flushes is the set of its outcomes.    *)
(***************************************************************************)
EXTENDS Integers, Sequences, SequencesExt

CONSTANTS
    RingCap,            \* capacity of the ring
    FlushBatch          \* FLUSH_BATCH

ASSUME RingCapAssumption == RingCap \in Nat \ {0}
ASSUME FlushBatchAssumption == FlushBatch \in Nat \ {0}

Attest == {"applied", "other"}
Sinks == [ring : BoundedSeq(Attest, RingCap),
          retry : BoundedSeq(Attest, FlushBatch),
          degraded : BOOLEAN]

EmptySink == [ring |-> <<>>, retry |-> <<>>, degraded |-> FALSE]
Pending(sink) == sink.retry \o sink.ring
Smaller(m, n) == IF m < n THEN m ELSE n

\* `flush` after n records were written: the batch the next one is in stays in
\* `retry`, the rest in the ring.
FlushedTo(sink, n) ==
    LET all == Pending(sink)
        first == Len(sink.retry)
        batchEnd == IF n < first THEN first
                    ELSE first + FlushBatch * ((n - first) \div FlushBatch + 1)
        end == Smaller(batchEnd, Len(all))
    IN IF n = Len(all) THEN EmptySink
       ELSE [retry |-> SubSeq(all, n + 1, end), ring |-> SubSeq(all, end + 1, Len(all)),
             degraded |-> TRUE]
Flush(sink) == {FlushedTo(sink, n) : n \in 0 .. Len(Pending(sink))}

Admission(ok, sink) == [ok |-> ok, sink |-> sink]

\* Mutant of Admit: what is pending does not matter.
AdmitUnflushed(sink) == {Admission(TRUE, sink)}

\* `admit_mutation`: everything written and synced, or the mutation is refused.
Admit(sink) ==
    {Admission(~s.degraded, s) : s \in Flush(sink)}
      \cup {Admission(FALSE, [EmptySink EXCEPT !.degraded = TRUE])}

\* `record`: a full ring loses its oldest record.
Record(sink, attest) ==
    LET kept == IF Len(sink.ring) >= RingCap THEN Tail(sink.ring) ELSE sink.ring
    IN Flush([sink EXCEPT !.ring = Append(kept, attest)])
=============================================================================
