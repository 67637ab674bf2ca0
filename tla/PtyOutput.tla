----------------------------- MODULE PtyOutput -----------------------------
(***************************************************************************)
(* The way of a shell's output to its parser, over four threads per pane   *)
(* that share bounded buffers: the child writes to the slave, the pump     *)
(* thread of crates/bitty-pty/src/reader.rs reads the master, the          *)
(* forwarder thread of crates/bitty-runtime/src/runtime/pty.rs batches     *)
(* chunks and wakes the event loop, and the event loop of                  *)
(* crates/bitty-terminal/src/terminal_app.rs polls, reaps and closes.      *)
(* Source 0 is the primary session, the others are panes in the order of   *)
(* their views.  A chunk is the number the child gave it.                  *)
(***************************************************************************)
EXTENDS Integers, SequencesExt, FiniteSetsExt

CONSTANTS
    LastPane,       \* the panes are 0 .. LastPane
    KernelCap,      \* the chunks the kernel buffers between slave and master
    ChannelCap,     \* CHANNEL_CAPACITY_CHUNKS, the pump's channel
    ForwardCap,     \* PTY_FORWARD_CAPACITY_CHUNKS, the forwarder's, and a batch
    PollMax,        \* POLL_PTY_MAX_CHUNKS
    Output,         \* bound: the chunks each pane's processes write in all
    Refused,        \* the panes whose forwarder thread was refused
    Lingering,      \* whether a descendant may hold the slave open
    Overruns,       \* whether a poll may exhaust POLL_PTY_TIME_BUDGET
    ReadFails       \* whether a read of the master may fail

Pane == 0 .. LastPane

ASSUME PtyAssumption ==
    /\ LastPane \in Nat
    /\ {KernelCap, ChannelCap, ForwardCap, PollMax} \subseteq Nat \ {0}
    /\ Output \in [Pane -> Nat]
    /\ Refused \subseteq Pane
    /\ {Lingering, Overruns, ReadFails} \subseteq BOOLEAN

VARIABLES
    child,      \* the pane's shell: running, exiting (its files are closed),
                \* zombie (its status can be taken) or reaped
    lingers,    \* whether a descendant of the shell holds the slave
    written,    \* how many chunks the pane's processes have written
    kernel,     \* the kernel's buffer
    pump,       \* the pump thread: read, send, eof or failed
    held,       \* the chunk the pump has read and not sent
    chan,       \* the channel from the pump to its reader
    fwd,        \* the forwarder thread; none when its spawn was refused
    batch,      \* the chunks the forwarder holds
    forward,    \* the channel from the forwarder to the event loop
    eof,        \* reader_eof, set by the forwarder or the direct poll
    open,       \* whether the event loop still owns the session
    drained,    \* the chunks the polls have taken for the pane's parser
    woken,      \* whether a PtyReadable event is queued
    pc,         \* where the event loop is
    phase,      \* the polls of a turn: 1 the event's, 2 and 3 AboutToWait's
    user,       \* whether the event in hand is not a wake
    at, used,   \* the poll's offset from its first source, and its chunks
    turn,       \* pty_poll_turn
    armed,      \* whether the wait has the deadline of the exit poll
    cut         \* history: whether the last poll ended at its budget

procVars == <<child, lingers, written>>
pumpVars == <<pump, held>>
fwdVars  == <<fwd, batch>>
pollVars == <<at, used, turn>>
loopVars == <<pc, phase, user, armed, cut>>
vars == <<procVars, kernel, pumpVars, chan, fwdVars, forward, eof, open,
          drained, woken, pollVars, loopVars>>

Fwd == {"recv", "batch", "send", "sent", "wake", "final", "join", "done", "none"}

TypeOK ==
    /\ child \in [Pane -> {"running", "exiting", "zombie", "reaped"}]
    /\ lingers \in [Pane -> BOOLEAN] /\ written \in [Pane -> Nat]
    /\ pump \in [Pane -> {"read", "send", "eof", "failed"}]
    /\ fwd \in [Pane -> Fwd]
    /\ \A p \in Pane : /\ Len(kernel[p]) <= KernelCap /\ Len(held[p]) <= 1
                       /\ Len(chan[p]) <= ChannelCap
                       /\ Len(batch[p]) <= ForwardCap
                       /\ Len(forward[p]) <= ForwardCap
    /\ eof \in [Pane -> BOOLEAN] /\ open \in [Pane -> BOOLEAN]
    /\ {woken, user, armed, cut} \subseteq BOOLEAN
    /\ pc \in {"wait", "turn", "poll", "reap", "handle", "exited"}
    /\ phase \in 1 .. 3 /\ used \in 0 .. PollMax /\ at \in 0 .. LastPane

Init ==
    /\ child = [p \in Pane |-> "running"] /\ lingers = [p \in Pane |-> FALSE]
    /\ written = [p \in Pane |-> 0]
    /\ kernel = [p \in Pane |-> <<>>] /\ held = [p \in Pane |-> <<>>]
    /\ chan = [p \in Pane |-> <<>>] /\ batch = [p \in Pane |-> <<>>]
    /\ forward = [p \in Pane |-> <<>>] /\ drained = [p \in Pane |-> <<>>]
    /\ pump = [p \in Pane |-> "read"]
    /\ fwd = [p \in Pane |-> IF p \in Refused THEN "none" ELSE "recv"]
    /\ eof = [p \in Pane |-> FALSE] /\ open = [p \in Pane |-> TRUE]
    /\ woken = FALSE /\ user = FALSE /\ armed = FALSE /\ cut = FALSE
    /\ pc = "wait" /\ phase = 1 /\ at = 0 /\ used = 0 /\ turn = 0

-----------------------------------------------------------------------------
(* The shell and its descendants                                           *)

\* Someone holds the slave: the master reports no end of the stream.
SlaveOpen(p) == child[p] = "running" \/ lingers[p]

Write(p) ==
    /\ SlaveOpen(p) /\ written[p] < Output[p] /\ Len(kernel[p]) < KernelCap
    /\ written' = [written EXCEPT ![p] = @ + 1]
    /\ kernel' = [kernel EXCEPT ![p] = Append(@, written[p] + 1)]
    /\ UNCHANGED <<child, lingers, pumpVars, chan, fwdVars, forward, eof, open,
                   drained, woken, pollVars, loopVars>>

\* A background job starts, or the last of them ends.
Background(p, on) ==
    /\ Lingering /\ lingers[p] # on /\ (on => child[p] = "running")
    /\ lingers' = [lingers EXCEPT ![p] = on]
    /\ UNCHANGED <<child, written, kernel, pumpVars, chan, fwdVars, forward, eof,
                   open, drained, woken, pollVars, loopVars>>

\* The kernel closes an exiting process's files before it can be waited for.
ChildExits(p) ==
    /\ child[p] \in {"running", "exiting"}
    /\ child' = [child EXCEPT ![p] = IF @ = "running" THEN "exiting" ELSE "zombie"]
    /\ UNCHANGED <<lingers, written, kernel, pumpVars, chan, fwdVars, forward, eof,
                   open, drained, woken, pollVars, loopVars>>

-----------------------------------------------------------------------------
(* The pump thread                                                         *)

PumpEnded(p) == pump[p] \in {"eof", "failed"}

PumpReads(p) ==
    /\ pump[p] = "read" /\ kernel[p] # <<>>
    /\ held' = [held EXCEPT ![p] = <<Head(kernel[p])>>]
    /\ kernel' = [kernel EXCEPT ![p] = Tail(@)]
    /\ pump' = [pump EXCEPT ![p] = "send"]
    /\ UNCHANGED <<procVars, chan, fwdVars, forward, eof, open, drained, woken,
                   pollVars, loopVars>>

\* EIO once nothing is left and the slave is closed is the end of the stream.
PumpEnds(p) ==
    /\ pump[p] = "read" /\ kernel[p] = <<>> /\ ~SlaveOpen(p)
    /\ pump' = [pump EXCEPT ![p] = "eof"]
    /\ UNCHANGED <<procVars, kernel, held, chan, fwdVars, forward, eof, open,
                   drained, woken, pollVars, loopVars>>

PumpFails(p) ==
    /\ ReadFails /\ pump[p] = "read"
    /\ pump' = [pump EXCEPT ![p] = "failed"]
    /\ UNCHANGED <<procVars, kernel, held, chan, fwdVars, forward, eof, open,
                   drained, woken, pollVars, loopVars>>

\* The receiver of chan lives in the PtyReader: in the forwarder until join
\* has returned, or in the session when the forwarder was refused.
ReceiverGone(p) == fwd[p] = "done" \/ (fwd[p] = "none" /\ ~open[p])

PumpSends(p) ==
    /\ pump[p] = "send"
    /\ \/ /\ ~ReceiverGone(p) /\ Len(chan[p]) < ChannelCap
          /\ chan' = [chan EXCEPT ![p] = @ \o held[p]]
          /\ pump' = [pump EXCEPT ![p] = "read"]
       \/ /\ ReceiverGone(p)
          /\ pump' = [pump EXCEPT ![p] = "failed"]
          /\ UNCHANGED chan
    /\ held' = [held EXCEPT ![p] = <<>>]
    /\ UNCHANGED <<procVars, kernel, fwdVars, forward, eof, open, drained, woken,
                   pollVars, loopVars>>

Pump(p) == PumpReads(p) \/ PumpEnds(p) \/ PumpSends(p)

-----------------------------------------------------------------------------
(* The forwarder thread: pty_forward_loop                                  *)

\* The blocking recv yields the first chunk of a batch, or the end of it.
FwdReceives(p) ==
    /\ fwd[p] = "recv" /\ (chan[p] # <<>> \/ PumpEnded(p))
    /\ IF chan[p] # <<>>
       THEN /\ batch' = [batch EXCEPT ![p] = <<Head(chan[p])>>]
            /\ chan' = [chan EXCEPT ![p] = Tail(@)]
            /\ fwd' = [fwd EXCEPT ![p] = "batch"]
            /\ UNCHANGED eof
       ELSE /\ eof' = [eof EXCEPT ![p] = TRUE]
            /\ fwd' = [fwd EXCEPT ![p] = "final"]
            /\ UNCHANGED <<batch, chan>>
    /\ UNCHANGED <<procVars, kernel, pumpVars, forward, open, drained, woken,
                   pollVars, loopVars>>

\* Mutant of FwdBatches: the end of the stream, seen by try_recv, is published
\* before the batch has been sent.
FwdBatchesMarks(p) ==
    /\ fwd[p] = "batch"
    /\ IF Len(batch[p]) < ForwardCap /\ chan[p] # <<>>
       THEN /\ batch' = [batch EXCEPT ![p] = Append(@, Head(chan[p]))]
            /\ chan' = [chan EXCEPT ![p] = Tail(@)]
            /\ UNCHANGED <<fwd, eof>>
       ELSE /\ fwd' = [fwd EXCEPT ![p] = "send"]
            /\ eof' = [eof EXCEPT ![p] = PumpEnded(p)]
            /\ UNCHANGED <<batch, chan>>
    /\ UNCHANGED <<procVars, kernel, pumpVars, forward, open, drained, woken,
                   pollVars, loopVars>>

\* try_recv until the batch is full or the channel yields nothing.
FwdBatches(p) ==
    /\ fwd[p] = "batch"
    /\ IF Len(batch[p]) < ForwardCap /\ chan[p] # <<>>
       THEN /\ batch' = [batch EXCEPT ![p] = Append(@, Head(chan[p]))]
            /\ chan' = [chan EXCEPT ![p] = Tail(@)]
            /\ UNCHANGED fwd
       ELSE /\ fwd' = [fwd EXCEPT ![p] = "send"]
            /\ UNCHANGED <<batch, chan>>
    /\ UNCHANGED <<procVars, kernel, pumpVars, forward, eof, open, drained, woken,
                   pollVars, loopVars>>

\* Mutant of Forwarded: a chunk that finds the channel full is dropped.
ForwardedOrDropped(p) ==
    forward' = [forward EXCEPT ![p] = IF Len(@) < ForwardCap
                                      THEN Append(@, Head(batch[p])) ELSE @]

Forwarded(p) ==
    /\ Len(forward[p]) < ForwardCap
    /\ forward' = [forward EXCEPT ![p] = Append(@, Head(batch[p]))]

\* One send of the batch; a dropped consumer breaks it.
FwdSends(p) ==
    /\ fwd[p] \in {"send", "sent"}
    /\ \/ /\ open[p] /\ Forwarded(p)
          /\ batch' = [batch EXCEPT ![p] = Tail(@)]
          /\ fwd' = [fwd EXCEPT ![p] = IF Tail(batch[p]) = <<>> THEN "wake" ELSE "sent"]
       \/ /\ ~open[p]
          /\ fwd' = [fwd EXCEPT ![p] = IF @ = "sent" THEN "final" ELSE "join"]
          /\ batch' = [batch EXCEPT ![p] = <<>>]
          /\ UNCHANGED forward
    /\ UNCHANGED <<procVars, kernel, pumpVars, chan, eof, open, drained, woken,
                   pollVars, loopVars>>

\* Mutant of FwdWakes: no wake when the consumer has not emptied the channel.
FwdWakesOnce(p) ==
    /\ fwd[p] \in {"wake", "final"}
    /\ woken' = (woken \/ Len(forward[p]) < ForwardCap)
    /\ fwd' = [fwd EXCEPT ![p] = IF @ = "wake" THEN "recv" ELSE "join"]
    /\ UNCHANGED <<procVars, kernel, pumpVars, chan, batch, forward, eof, open,
                   drained, pollVars, loopVars>>

\* One wake per batch, and a last one before the thread leaves its loop.
FwdWakes(p) ==
    /\ fwd[p] \in {"wake", "final"}
    /\ woken' = TRUE
    /\ fwd' = [fwd EXCEPT ![p] = IF @ = "wake" THEN "recv" ELSE "join"]
    /\ UNCHANGED <<procVars, kernel, pumpVars, chan, batch, forward, eof, open,
                   drained, pollVars, loopVars>>

\* reader.join waits for the pump, and drops the receiver when it returns.
FwdJoins(p) ==
    /\ fwd[p] = "join" /\ PumpEnded(p)
    /\ fwd' = [fwd EXCEPT ![p] = "done"]
    /\ UNCHANGED <<procVars, kernel, pumpVars, chan, batch, forward, eof, open,
                   drained, woken, pollVars, loopVars>>

Forwarder(p) == \/ FwdReceives(p) \/ FwdBatches(p) \/ FwdSends(p)
                \/ FwdWakes(p) \/ FwdJoins(p)

-----------------------------------------------------------------------------
(* The event loop                                                          *)

StartPoll(n) == pc' = "poll" /\ phase' = n /\ at' = 0 /\ used' = 0 /\ armed' = FALSE

\* user_event: the wakes queued so far surface as one PtyReadable.
PtyReadable ==
    /\ pc \in {"wait", "turn"} /\ woken
    /\ woken' = FALSE /\ user' = FALSE /\ StartPoll(1)
    /\ UNCHANGED <<procVars, kernel, pumpVars, chan, fwdVars, forward, eof, open,
                   drained, turn, cut>>

\* Any other event: a key, a redraw, a resize.
OtherEvent ==
    /\ pc \in {"wait", "turn"}
    /\ user' = TRUE /\ StartPoll(1)
    /\ UNCHANGED <<procVars, kernel, pumpVars, chan, fwdVars, forward, eof, open,
                   drained, woken, turn, cut>>

\* After the turn's events, or when the deadline of the wait has passed.
AboutToWait ==
    /\ pc = "turn" \/ (pc = "wait" /\ armed)
    /\ StartPoll(2)
    /\ UNCHANGED <<procVars, kernel, pumpVars, chan, fwdVars, forward, eof, open,
                   drained, woken, user, turn, cut>>

\* drain_fair: the primary's slot and the open panes, from pty_poll_turn on.
Sources == <<0>> \o SetToSortSeq({p \in Pane \ {0} : open[p]}, <)
Polled(p) == p = Sources[((turn + at) % Len(Sources)) + 1]

\* A multiple of every number of sources: the turn wraps without a trace.
TurnPeriod == ProductSet(1 .. (LastPane + 1))

PollReturns ==
    /\ pc' = "reap" /\ at' = 0 /\ used' = 0 /\ turn' = (turn + 1) % TurnPeriod

\* try_next_chunk: the forwarder's channel, or the pump's when there is none.
Queued(p) == IF fwd[p] = "none" THEN chan[p] ELSE forward[p]

\* One chunk for the pane's parser, which gets what the poll took when the
\* drain returns (and refuses it while too many Kitty images are in flight).
PollTakes ==
    /\ pc = "poll" /\ used < PollMax
    /\ \E p \in Pane :
       /\ Polled(p) /\ open[p] /\ Queued(p) # <<>>
       /\ drained' = [drained EXCEPT ![p] = Append(@, Head(Queued(p)))]
       /\ IF fwd[p] = "none"
          THEN chan' = [chan EXCEPT ![p] = Tail(@)] /\ UNCHANGED forward
          ELSE forward' = [forward EXCEPT ![p] = Tail(@)] /\ UNCHANGED chan
    /\ used' = used + 1
    /\ UNCHANGED <<procVars, kernel, pumpVars, fwdVars, eof, open, woken, at, turn,
                   loopVars>>

\* A source without a chunk; a direct poll that meets the end marks it.
PollSkips ==
    /\ pc = "poll" /\ used < PollMax
    /\ \E p \in Pane :
       /\ Polled(p) /\ (~open[p] \/ Queued(p) = <<>>)
       /\ eof' = [eof EXCEPT ![p] = @ \/ (open[p] /\ fwd[p] = "none" /\ PumpEnded(p))]
    /\ IF at + 1 = Len(Sources)
       THEN PollReturns /\ cut' = FALSE /\ UNCHANGED phase
       ELSE at' = at + 1 /\ UNCHANGED <<pc, phase, used, turn, cut>>
    /\ UNCHANGED <<procVars, kernel, pumpVars, chan, fwdVars, forward, open, drained,
                   woken, user, armed>>

\* The budget is spent: in chunks, or in time once a chunk has been taken.
PollStops ==
    /\ pc = "poll" /\ (used = PollMax \/ (Overruns /\ used > 0))
    /\ PollReturns /\ cut' = TRUE
    /\ UNCHANGED <<procVars, kernel, pumpVars, chan, fwdVars, forward, eof, open,
                   drained, woken, phase, user, armed>>

\* Sessions go with their receivers; the bounded joins of their forwarders
\* only delay the loop.
Close(S) ==
    /\ open' = [p \in Pane |-> open[p] /\ p \notin S]
    /\ forward' = [p \in Pane |-> IF p \in S THEN <<>> ELSE forward[p]]
    /\ drained' = [p \in Pane |-> IF p \in S THEN <<>> ELSE drained[p]]
    /\ chan' = [p \in Pane |-> IF p \in S /\ fwd[p] = "none" THEN <<>> ELSE chan[p]]

\* A shell runs, or is not known to have ended, in a pane other than S.  Its
\* view is what keeps the window: the primary's session outlives its own.
Remain(S) == \E p \in Pane \ S : open[p] /\ child[p] # "reaped"

\* Mutant of ExitPoll: no wake is kept for a child not yet reapable.
ExitPollNever(S) == FALSE

\* has_unreaped_eof_session, once the children in S have been waited for.
ExitPoll(S) == \E p \in Pane \ S : open[p] /\ child[p] # "reaped" /\ eof[p]

\* The end of a poll's reap: the event itself, AboutToWait's second poll, or
\* the wait, with the deadline of shell_exit_poll_deadline.
ReapReturns(S) ==
    \/ /\ phase = 1
       /\ pc' = IF user THEN "handle" ELSE "turn"
       /\ UNCHANGED <<phase, armed>>
    \/ /\ phase = 2
       /\ pc' = "poll" /\ phase' = 3
       /\ UNCHANGED armed
    \/ /\ phase = 3
       /\ pc' = "wait" /\ phase' = 1
       /\ armed' = ExitPoll(S)

\* reap_exited_shells takes every status there is and closes those panes,
\* except one whose leaf no layout holds; the primary loses its view but keeps
\* its session, which is still drained.  With the last shell the loop exits.
Reap ==
    /\ pc = "reap"
    /\ LET S == {p \in Pane : open[p] /\ child[p] = "zombie"} IN
       /\ child' = [p \in Pane |-> IF p \in S THEN "reaped" ELSE child[p]]
       /\ \E C \in SUBSET (S \ {0}) : Close(C)
       /\ IF Remain(S) THEN ReapReturns(S)
                       ELSE pc' = "exited" /\ UNCHANGED <<phase, armed>>
    /\ user' = FALSE
    /\ UNCHANGED <<lingers, written, kernel, pumpVars, fwdVars, eof, woken,
                   pollVars, cut>>

Handled ==
    /\ pc = "handle" /\ pc' = "turn"
    /\ UNCHANGED <<procVars, kernel, pumpVars, chan, fwdVars, forward, eof, open,
                   drained, woken, pollVars, phase, user, armed, cut>>

\* The event closes a pane: its child is killed and reaped, or left to the
\* kernel when DROP_REAP_TIMEOUT passes first.  A primary session that moves
\* to another view instead is an event that is Handled.
CloseView(p) ==
    /\ pc = "handle" /\ open[p]
    /\ \E left \in {"reaped", IF child[p] = "running" THEN "exiting" ELSE child[p]} :
          child' = [child EXCEPT ![p] = left]
    /\ Close({p})
    /\ pc' = IF Remain({p}) THEN "turn" ELSE "exited"
    /\ UNCHANGED <<lingers, written, kernel, pumpVars, fwdVars, eof, woken,
                   pollVars, phase, user, armed, cut>>

Loop == \/ PtyReadable \/ AboutToWait \/ PollTakes \/ PollSkips \/ PollStops
        \/ Reap \/ Handled

-----------------------------------------------------------------------------
\* With the loop the process exits, and its threads with it.
Next ==
    /\ pc # "exited"
    /\ \/ Loop \/ OtherEvent
       \/ \E p \in Pane :
             \/ Write(p) \/ ChildExits(p) \/ PumpFails(p) \/ CloseView(p)
             \/ \E on \in BOOLEAN : Background(p, on)
             \/ Pump(p) \/ Forwarder(p)

\* Threads run, and a process that has closed its files becomes reapable.
\* Children, users and failures owe nothing.
Fairness ==
    /\ WF_vars(Loop)
    /\ \A p \in Pane :
          /\ WF_vars(pc # "exited" /\ Pump(p))
          /\ WF_vars(pc # "exited" /\ Forwarder(p))
          /\ WF_vars(pc # "exited" /\ child[p] = "exiting" /\ ChildExits(p))

Spec == Init /\ [][Next]_vars /\ Fairness
-----------------------------------------------------------------------------
(* Nothing is lost, repeated or reordered on the way through the four      *)
(* buffers and three threads: while a session is open, what the polls have *)
(* drained for its parser and what each stage holds is exactly what was    *)
(* written.  What the parser then refuses of it is not part of this.       *)
OutputIntact ==
    \A p \in Pane : open[p] =>
        drained[p] \o forward[p] \o batch[p] \o chan[p] \o held[p] \o kernel[p]
            = [n \in 1 .. written[p] |-> n]

(* The latch that arms the exit poll means that no output can follow: the  *)
(* stages before the forward channel are empty, and nobody can write       *)
(* unless the read failed.                                                 *)
EofIsLast ==
    \A p \in Pane : open[p] /\ eof[p] =>
        /\ batch[p] \o chan[p] \o held[p] = <<>>
        /\ pump[p] = "failed" \/ (kernel[p] = <<>> /\ ~SlaveOpen(p))

\* The case the two properties below except: the last poll before the wait
\* ended at its budget, in chunks or in time, and left chunks whose wake had
\* been taken before.  A wake is sent once per batch and none for what a poll
\* leaves behind.
Stranded(p) == pc = "wait" /\ cut /\ Queued(p) # <<>>

(* No output waits for an unrelated event: once a pane's processes pause,  *)
(* what they have written is drained, however the wakes merge and the      *)
(* polls are shared, unless the pane closes, its read fails, its forwarder *)
(* was refused, or the loop waits for ever after a poll that its budget    *)
(* cut short.  Output bounds what they write, so they do pause.            *)
OutputDelivered ==
    \A p \in Pane :
        (Len(drained[p]) < written[p])
            ~> (\/ Len(drained[p]) = written[p] \/ ~open[p] \/ pump[p] = "failed"
                \/ fwd[p] = "none" \/ pc = "exited" \/ []Stranded(p))

(* The exit of a shell that left no descendant on its terminal is observed *)
(* without an unrelated event, also when the last wake comes before the    *)
(* child can be waited for, unless its last output is stranded by a poll   *)
(* that its budget cut short: the end of the stream is behind it.          *)
ExitObserved ==
    \A p \in Pane :
        (child[p] # "running" /\ ~lingers[p])
            ~> (\/ child[p] = "reaped" \/ ~open[p] \/ lingers[p]
                \/ fwd[p] = "none" \/ pc = "exited" \/ []Stranded(p))

(* The same without the exception for polls that are cut short.            *)
AlwaysDelivered ==
    \A p \in Pane :
        (Len(drained[p]) < written[p])
            ~> (\/ Len(drained[p]) = written[p] \/ ~open[p] \/ pump[p] = "failed"
                \/ fwd[p] = "none" \/ pc = "exited")

(* runtime.rs:289: a forwarder thread leaves when its consumer is dropped. *)
ForwarderLeaves ==
    \A p \in Pane : ~open[p] ~> (fwd[p] \in {"done", "none"} \/ pc = "exited")

(* terminal_app.rs:5363: an exit never waits for an unrelated event.       *)
ExitNeedsNoEvent ==
    \A p \in Pane : (child[p] # "running")
        ~> (child[p] = "reaped" \/ ~open[p] \/ fwd[p] = "none" \/ pc = "exited")
=============================================================================
