----------------------------- MODULE PtyProofs -----------------------------
(***************************************************************************)
(* That the way of the output loses nothing and that the latch of its end  *)
(* means the end, for every number of panes, capacity, budget and output.  *)
(***************************************************************************)
EXTENDS PtyOutput, TLAPS

USE DEF Pane

-----------------------------------------------------------------------------
(* Sequences.  Cat stands for \o, so that the provers need only the facts  *)
(* stated of it here.                                                      *)

Chunks == Seq(Nat)
Cat(s, t) == s \o t

\* Two stages hold a sequence of chunks together.
LEMMA Joined ==
    ASSUME NEW s \in Chunks, NEW t \in Chunks
    PROVE  Cat(s, t) \in Chunks
    BY SMT DEF Chunks, Cat

\* It does not matter which neighbours are taken together first.
LEMMA Regroup ==
    ASSUME NEW s \in Chunks, NEW t \in Chunks, NEW u \in Chunks
    PROVE  Cat(Cat(s, t), u) = Cat(s, Cat(t, u))
    BY SMT DEF Chunks, Cat

\* An empty stage adds nothing.
LEMMA Empty ==
    ASSUME NEW s \in Chunks
    PROVE  <<>> \in Chunks /\ Cat(s, <<>>) = s /\ Cat(<<>>, s) = s
    BY SMT DEF Chunks, Cat

\* A chunk that moves to an empty neighbour, or to the end of one.
LEMMA Moved ==
    ASSUME NEW t \in Chunks, t # <<>>
    PROVE  /\ <<Head(t)>> \in Chunks /\ Tail(t) \in Chunks /\ <<Head(t)>> # <<>>
           /\ Cat(<<Head(t)>>, Tail(t)) = t
    BY SMT DEF Chunks, Cat

\* The first chunk of t moves to the end of s.
LEMMA Appended ==
    ASSUME NEW s \in Chunks, NEW t \in Chunks, t # <<>>
    PROVE  /\ Append(s, Head(t)) \in Chunks /\ Append(s, Head(t)) # <<>>
           /\ Cat(Append(s, Head(t)), Tail(t)) = Cat(s, t)
<1>1. Head(t) \in Nat
  BY SMT DEF Chunks
<1>2. Append(s, Head(t)) \in Chunks
  BY <1>1, SMT DEF Chunks
<1>3. Append(s, Head(t)) # <<>>
  <2> DEFINE x == Append(s, Head(t))
  <2>1. Len(x) = Len(s) + 1 /\ Len(s) \in Nat
    BY <1>1, SMT DEF Chunks
  <2>2. Len(<<>>) = 0
    BY SMT
  <2> HIDE DEF x
  <2>3. x # <<>>
    BY <2>1, <2>2, SMT
  <2> QED
    BY <2>3, Zenon DEF x
<1>4. Cat(Append(s, Head(t)), Tail(t)) = Cat(s, t)
  BY SMT DEF Chunks, Cat
<1> QED
  BY <1>2, <1>3, <1>4

\* A chunk written to the last stage is written to the whole.
LEMMA Extended ==
    ASSUME NEW s \in Chunks, NEW t \in Chunks, NEW x \in Nat
    PROVE  /\ Append(t, x) \in Chunks
           /\ Cat(s, Append(t, x)) = Append(Cat(s, t), x)
    BY SMT DEF Chunks, Cat

\* Writing chunk w + 1 continues the count.
LEMMA CountOn ==
    ASSUME NEW w \in Nat
    PROVE  Append([n \in 1 .. w |-> n], w + 1) = [n \in 1 .. w + 1 |-> n]
    BY SMT

\* What moves between two neighbours leaves the whole alone.
LEMMA Adjacent ==
    ASSUME NEW a \in Chunks, NEW x \in Chunks, NEW y \in Chunks,
           NEW x2 \in Chunks, NEW y2 \in Chunks, Cat(x2, y2) = Cat(x, y)
    PROVE  Cat(Cat(a, x2), y2) = Cat(Cat(a, x), y)
    BY Regroup

-----------------------------------------------------------------------------
(* The inductive invariant                                                 *)

Typed ==
    /\ child \in [Pane -> {"running", "exiting", "zombie", "reaped"}]
    /\ lingers \in [Pane -> BOOLEAN] /\ written \in [Pane -> Nat]
    /\ pump \in [Pane -> {"read", "send", "eof", "failed"}]
    /\ fwd \in [Pane -> Fwd]
    /\ kernel \in [Pane -> Chunks] /\ held \in [Pane -> Chunks]
    /\ chan \in [Pane -> Chunks] /\ batch \in [Pane -> Chunks]
    /\ forward \in [Pane -> Chunks] /\ drained \in [Pane -> Chunks]
    /\ eof \in [Pane -> BOOLEAN] /\ open \in [Pane -> BOOLEAN]

\* Which stage holds something, by what its thread is doing.
Stages(p) ==
    /\ pump[p] # "send" => held[p] = <<>>
    /\ fwd[p] \in {"batch", "send", "sent"} <=> batch[p] # <<>>
    /\ fwd[p] = "none" => forward[p] = <<>>
    /\ fwd[p] = "done" => PumpEnded(p)

\* What the end of the stream and its latch rest on.
Ended(p) ==
    /\ pump[p] = "eof" => kernel[p] = <<>> /\ ~SlaveOpen(p)
    /\ eof[p] => /\ PumpEnded(p) /\ chan[p] = <<>>
                 /\ fwd[p] \in {"final", "join", "done", "none"}

\* What OutputIntact says of one pane.
Pipe(p) == Cat(Cat(Cat(Cat(Cat(drained[p], forward[p]), batch[p]), chan[p]), held[p]),
               kernel[p])
Intact(p) == open[p] => Pipe(p) = [n \in 1 .. written[p] |-> n]

Good(p) == Stages(p) /\ Ended(p) /\ Intact(p)

PipeInv == Typed /\ \A p \in Pane : Good(p)

\* All that Good says of a pane.
PaneState(p) ==
    <<child[p], lingers[p], written[p], kernel[p], pump[p], held[p], chan[p],
      fwd[p], batch[p], forward[p], eof[p], open[p], drained[p]>>

-----------------------------------------------------------------------------
(* The steps that move no chunk                                            *)

\* A pane that a step leaves alone stays as good as it was.
LEMMA OtherPane ==
    ASSUME NEW q \in Pane, Good(q), UNCHANGED PaneState(q)
    PROVE  Good(q)'
<1>1. /\ child'[q] = child[q] /\ lingers'[q] = lingers[q] /\ written'[q] = written[q]
      /\ kernel'[q] = kernel[q] /\ pump'[q] = pump[q] /\ held'[q] = held[q]
      /\ chan'[q] = chan[q] /\ fwd'[q] = fwd[q] /\ batch'[q] = batch[q]
      /\ forward'[q] = forward[q] /\ eof'[q] = eof[q] /\ open'[q] = open[q]
      /\ drained'[q] = drained[q]
  BY SMT DEF PaneState
<1>2. Stages(q)'
  BY <1>1 DEF Good, Stages, PumpEnded
<1>3. Ended(q)'
  BY <1>1 DEF Good, Ended, PumpEnded, SlaveOpen
<1>4. Intact(q)'
  BY <1>1 DEF Good, Intact, Pipe
<1> QED
  BY <1>2, <1>3, <1>4 DEF Good

\* A step that keeps what the pipeline holds keeps what a pane's drained says.
LEMMA SameChunks ==
    ASSUME NEW p \in Pane, Intact(p), open'[p] = open[p], written'[p] = written[p],
           kernel'[p] = kernel[p], held'[p] = held[p], chan'[p] = chan[p],
           batch'[p] = batch[p], forward'[p] = forward[p], drained'[p] = drained[p]
    PROVE  Intact(p)'
    BY DEF Intact, Pipe

\* The invariant says nothing of the place of the event loop.
LEMMA KeepStutter ==
    ASSUME PipeInv,
           UNCHANGED <<procVars, kernel, pumpVars, chan, fwdVars, forward, eof, open,
                       drained>>
    PROVE  PipeInv'
<1>1. Typed'
  BY DEF PipeInv, Typed, procVars, pumpVars, fwdVars
<1>2. ASSUME NEW q \in Pane PROVE Good(q)'
  <2>1. Good(q)
    BY DEF PipeInv
  <2>2. UNCHANGED PaneState(q)
    BY DEF PaneState, procVars, pumpVars, fwdVars
  <2> QED
    BY <2>1, <2>2, OtherPane
<1> QED
  BY <1>1, <1>2 DEF PipeInv

\* A background job takes the slave, or the last of them leaves it.
LEMMA KeepBackground ==
    ASSUME PipeInv, NEW p \in Pane, NEW on \in BOOLEAN, Background(p, on)
    PROVE  PipeInv'
<1>1. Typed /\ Good(p)
  BY DEF PipeInv
<1>2. Typed'
  BY <1>1, SMT DEF Typed, Background, pumpVars, fwdVars
<1>3. ASSUME NEW q \in Pane, q # p PROVE UNCHANGED PaneState(q)
  BY <1>1, <1>3, SMT DEF Typed, PaneState, Background, pumpVars, fwdVars
<1>4. Good(p)'
  <2>1. Stages(p)'
    BY <1>1, SMT DEF Typed, Good, Stages, PumpEnded, Background, pumpVars, fwdVars
  <2>2. Ended(p)'
    BY <1>1, SMT
       DEF Typed, Good, Ended, Stages, PumpEnded, SlaveOpen, Background,
           pumpVars, fwdVars
  <2>3. Intact(p)'
    BY <1>1, SameChunks, SMT DEF Typed, Good, Background, pumpVars, fwdVars
  <2> QED
    BY <2>1, <2>2, <2>3 DEF Good
<1> QED
  BY <1>2, <1>3, <1>4, OtherPane DEF PipeInv

\* A child exits; no slave is opened by that.
LEMMA KeepChildExits ==
    ASSUME PipeInv, NEW p \in Pane, ChildExits(p)
    PROVE  PipeInv'
<1>1. Typed /\ Good(p)
  BY DEF PipeInv
<1>2. Typed'
  BY <1>1, SMT DEF Typed, ChildExits, pumpVars, fwdVars
<1>3. ASSUME NEW q \in Pane, q # p PROVE UNCHANGED PaneState(q)
  BY <1>1, <1>3, SMT DEF Typed, PaneState, ChildExits, pumpVars, fwdVars
<1>4. Good(p)'
  <2>1. Stages(p)'
    BY <1>1, SMT DEF Typed, Good, Stages, PumpEnded, ChildExits, pumpVars, fwdVars
  <2>2. Ended(p)'
    BY <1>1, SMT
       DEF Typed, Good, Ended, Stages, PumpEnded, SlaveOpen, ChildExits,
           pumpVars, fwdVars
  <2>3. Intact(p)'
    BY <1>1, SameChunks, SMT DEF Typed, Good, ChildExits, pumpVars, fwdVars
  <2> QED
    BY <2>1, <2>2, <2>3 DEF Good
<1> QED
  BY <1>2, <1>3, <1>4, OtherPane DEF PipeInv

\* The pump meets the end of the stream: nothing is left to read.
LEMMA KeepPumpEnds ==
    ASSUME PipeInv, NEW p \in Pane, PumpEnds(p)
    PROVE  PipeInv'
<1>1. Typed /\ Good(p)
  BY DEF PipeInv
<1>2. Typed'
  BY <1>1, SMT DEF Typed, PumpEnds, SlaveOpen, procVars, fwdVars
<1>3. ASSUME NEW q \in Pane, q # p PROVE UNCHANGED PaneState(q)
  BY <1>1, <1>3, SMT DEF Typed, PaneState, PumpEnds, SlaveOpen, procVars, fwdVars
<1>4. Good(p)'
  <2>1. Stages(p)'
    BY <1>1, SMT
       DEF Typed, Good, Stages, PumpEnded, PumpEnds, SlaveOpen, procVars,
           fwdVars
  <2>2. Ended(p)'
    BY <1>1, SMT
       DEF Typed, Good, Ended, Stages, PumpEnded, SlaveOpen, PumpEnds, procVars,
           fwdVars
  <2>3. Intact(p)'
    BY <1>1, SameChunks, SMT DEF Typed, Good, PumpEnds, SlaveOpen, procVars, fwdVars
  <2> QED
    BY <2>1, <2>2, <2>3 DEF Good
<1> QED
  BY <1>2, <1>3, <1>4, OtherPane DEF PipeInv

\* The pump gives up; the kernel may still hold output.
LEMMA KeepPumpFails ==
    ASSUME PipeInv, NEW p \in Pane, PumpFails(p)
    PROVE  PipeInv'
<1>1. Typed /\ Good(p)
  BY DEF PipeInv
<1>2. Typed'
  BY <1>1, SMT DEF Typed, PumpFails, procVars, fwdVars
<1>3. ASSUME NEW q \in Pane, q # p PROVE UNCHANGED PaneState(q)
  BY <1>1, <1>3, SMT DEF Typed, PaneState, PumpFails, procVars, fwdVars
<1>4. Good(p)'
  <2>1. Stages(p)'
    BY <1>1, SMT DEF Typed, Good, Stages, PumpEnded, PumpFails, procVars, fwdVars
  <2>2. Ended(p)'
    BY <1>1, SMT
       DEF Typed, Good, Ended, Stages, PumpEnded, SlaveOpen, PumpFails, procVars,
           fwdVars
  <2>3. Intact(p)'
    BY <1>1, SameChunks, SMT DEF Typed, Good, PumpFails, procVars, fwdVars
  <2> QED
    BY <2>1, <2>2, <2>3 DEF Good
<1> QED
  BY <1>2, <1>3, <1>4, OtherPane DEF PipeInv

\* The forwarder wakes the loop: it holds no chunk then.
LEMMA KeepFwdWakes ==
    ASSUME PipeInv, NEW p \in Pane, FwdWakes(p)
    PROVE  PipeInv'
<1>1. Typed /\ Good(p)
  BY DEF PipeInv
<1>2. Typed'
  BY <1>1, SMT DEF Typed, FwdWakes, Fwd, procVars, pumpVars
<1>3. ASSUME NEW q \in Pane, q # p PROVE UNCHANGED PaneState(q)
  BY <1>1, <1>3, SMT DEF Typed, PaneState, FwdWakes, Fwd, procVars, pumpVars
<1>4. Good(p)'
  <2>1. Stages(p)'
    BY <1>1, SMT
       DEF Typed, Good, Stages, PumpEnded, FwdWakes, Fwd, procVars, pumpVars
  <2>2. Ended(p)'
    BY <1>1, SMT
       DEF Typed, Good, Ended, Stages, PumpEnded, SlaveOpen, FwdWakes, Fwd,
           procVars, pumpVars
  <2>3. Intact(p)'
    BY <1>1, SameChunks, SMT DEF Typed, Good, FwdWakes, Fwd, procVars, pumpVars
  <2> QED
    BY <2>1, <2>2, <2>3 DEF Good
<1> QED
  BY <1>2, <1>3, <1>4, OtherPane DEF PipeInv

\* The forwarder leaves after the pump: ReceiverGone only then.
LEMMA KeepFwdJoins ==
    ASSUME PipeInv, NEW p \in Pane, FwdJoins(p)
    PROVE  PipeInv'
<1>1. Typed /\ Good(p)
  BY DEF PipeInv
<1>2. Typed'
  BY <1>1, SMT DEF Typed, FwdJoins, PumpEnded, Fwd, procVars, pumpVars
<1>3. ASSUME NEW q \in Pane, q # p PROVE UNCHANGED PaneState(q)
  BY <1>1, <1>3, SMT
     DEF Typed, PaneState, FwdJoins, PumpEnded, Fwd, procVars, pumpVars
<1>4. Good(p)'
  <2>1. Stages(p)'
    BY <1>1, SMT
       DEF Typed, Good, Stages, PumpEnded, FwdJoins, Fwd, procVars, pumpVars
  <2>2. Ended(p)'
    BY <1>1, SMT
       DEF Typed, Good, Ended, Stages, PumpEnded, SlaveOpen, FwdJoins, Fwd,
           procVars, pumpVars
  <2>3. Intact(p)'
    BY <1>1, SameChunks, SMT
       DEF Typed, Good, FwdJoins, PumpEnded, Fwd, procVars, pumpVars
  <2> QED
    BY <2>1, <2>2, <2>3 DEF Good
<1> QED
  BY <1>2, <1>3, <1>4, OtherPane DEF PipeInv

-----------------------------------------------------------------------------
(* What moves between two neighbours                                       *)

\* What each stage holds is a sequence of chunks.
LEMMA Contents ==
    ASSUME Typed, NEW p \in Pane
    PROVE  /\ drained[p] \in Chunks /\ forward[p] \in Chunks /\ batch[p] \in Chunks
           /\ chan[p] \in Chunks /\ held[p] \in Chunks /\ kernel[p] \in Chunks
    BY SMT DEF Typed

\* A step that keeps the whole keeps Intact.
LEMMA SamePipe ==
    ASSUME NEW p \in Pane, Intact(p), open'[p] = open[p], written'[p] = written[p],
           Pipe(p)' = Pipe(p)
    PROVE  Intact(p)'
    BY DEF Intact

\* Between the kernel and the pump.
LEMMA MoveHeld ==
    ASSUME Typed, Typed', NEW p \in Pane,
           drained'[p] = drained[p], forward'[p] = forward[p],
           batch'[p] = batch[p], chan'[p] = chan[p],
           Cat(held'[p], kernel'[p]) = Cat(held[p], kernel[p])
    PROVE  Pipe(p)' = Pipe(p)
<1>1. /\ held[p] \in Chunks /\ kernel[p] \in Chunks
      /\ held'[p] \in Chunks /\ kernel'[p] \in Chunks
  BY SMT DEF Typed
<1>2. /\ drained[p] \in Chunks /\ forward[p] \in Chunks
      /\ batch[p] \in Chunks /\ chan[p] \in Chunks
  BY Contents
<1>3. Cat(drained[p], forward[p]) \in Chunks
  BY <1>2, Joined
<1>4. Cat(Cat(drained[p], forward[p]), batch[p]) \in Chunks
  BY <1>2, <1>3, Joined
<1>5. Cat(Cat(Cat(drained[p], forward[p]), batch[p]), chan[p]) \in Chunks
  BY <1>2, <1>4, Joined
<1>6. Cat(Cat(Cat(Cat(Cat(drained[p], forward[p]), batch[p]), chan[p]), held'[p]),
          kernel'[p])
        = Cat(Cat(Cat(Cat(Cat(drained[p], forward[p]), batch[p]), chan[p]), held[p]),
              kernel[p])
  BY <1>1, <1>5, Adjacent
<1> QED
  BY <1>6 DEF Pipe

\* Between the pump and its channel.
LEMMA MoveChan ==
    ASSUME Typed, Typed', NEW p \in Pane,
           drained'[p] = drained[p], forward'[p] = forward[p],
           batch'[p] = batch[p], kernel'[p] = kernel[p],
           Cat(chan'[p], held'[p]) = Cat(chan[p], held[p])
    PROVE  Pipe(p)' = Pipe(p)
<1>1. /\ chan[p] \in Chunks /\ held[p] \in Chunks
      /\ chan'[p] \in Chunks /\ held'[p] \in Chunks
  BY SMT DEF Typed
<1>2. drained[p] \in Chunks /\ forward[p] \in Chunks /\ batch[p] \in Chunks
  BY Contents
<1>3. Cat(drained[p], forward[p]) \in Chunks
  BY <1>2, Joined
<1>4. Cat(Cat(drained[p], forward[p]), batch[p]) \in Chunks
  BY <1>2, <1>3, Joined
<1>5. Cat(Cat(Cat(Cat(drained[p], forward[p]), batch[p]), chan'[p]),
          held'[p])
        = Cat(Cat(Cat(Cat(drained[p], forward[p]), batch[p]), chan[p]),
              held[p])
  BY <1>1, <1>4, Adjacent
<1> QED
  BY <1>5 DEF Pipe

\* Between that channel and the forwarder.
LEMMA MoveBatch ==
    ASSUME Typed, Typed', NEW p \in Pane,
           drained'[p] = drained[p], forward'[p] = forward[p],
           held'[p] = held[p], kernel'[p] = kernel[p],
           Cat(batch'[p], chan'[p]) = Cat(batch[p], chan[p])
    PROVE  Pipe(p)' = Pipe(p)
<1>1. /\ batch[p] \in Chunks /\ chan[p] \in Chunks
      /\ batch'[p] \in Chunks /\ chan'[p] \in Chunks
  BY SMT DEF Typed
<1>2. drained[p] \in Chunks /\ forward[p] \in Chunks
  BY Contents
<1>3. Cat(drained[p], forward[p]) \in Chunks
  BY <1>2, Joined
<1>4. Cat(Cat(Cat(drained[p], forward[p]), batch'[p]),
          chan'[p])
        = Cat(Cat(Cat(drained[p], forward[p]), batch[p]),
              chan[p])
  BY <1>1, <1>3, Adjacent
<1> QED
  BY <1>4 DEF Pipe

\* Between the forwarder and its channel.
LEMMA MoveForward ==
    ASSUME Typed, Typed', NEW p \in Pane,
           drained'[p] = drained[p], chan'[p] = chan[p],
           held'[p] = held[p], kernel'[p] = kernel[p],
           Cat(forward'[p], batch'[p]) = Cat(forward[p], batch[p])
    PROVE  Pipe(p)' = Pipe(p)
<1>1. /\ forward[p] \in Chunks /\ batch[p] \in Chunks
      /\ forward'[p] \in Chunks /\ batch'[p] \in Chunks
  BY SMT DEF Typed
<1>2. drained[p] \in Chunks
  BY Contents
<1>3. Cat(Cat(drained[p], forward'[p]),
          batch'[p])
        = Cat(Cat(drained[p], forward[p]),
              batch[p])
  BY <1>1, <1>2, Adjacent
<1> QED
  BY <1>3 DEF Pipe

\* Between that channel and the parser.
LEMMA MoveDrained ==
    ASSUME Typed, Typed', NEW p \in Pane,
           batch'[p] = batch[p], chan'[p] = chan[p],
           held'[p] = held[p], kernel'[p] = kernel[p],
           Cat(drained'[p], forward'[p]) = Cat(drained[p], forward[p])
    PROVE  Pipe(p)' = Pipe(p)
    BY DEF Pipe

-----------------------------------------------------------------------------
(* The steps that move chunks                                              *)

\* read of the master: one chunk goes from the kernel to the pump.
LEMMA KeepPumpReads ==
    ASSUME PipeInv, NEW p \in Pane, PumpReads(p)
    PROVE  PipeInv'
<1>1. Typed /\ Good(p)
  BY DEF PipeInv
<1>2. kernel[p] \in Chunks /\ kernel[p] # <<>>
  BY <1>1, Contents DEF PumpReads
<1> QED
  <2> DEFINE x == <<Head(kernel[p])>>
             y == Tail(kernel[p])
  <2>1. x \in Chunks /\ y \in Chunks /\ Cat(x, y) = Cat(held[p], kernel[p])
        /\ pump[p] = "read" /\ kernel[p] # <<>>
    BY <1>1, <1>2, Moved, Empty DEF Good, Stages, PumpReads
  <2>2. /\ held' = [held EXCEPT ![p] = x]
        /\ kernel' = [kernel EXCEPT ![p] = y]
        /\ pump' = [pump EXCEPT ![p] = "send"]
        /\ UNCHANGED <<child, lingers, written, chan, fwd,
                       batch, forward, eof, open, drained>>
    BY <1>1 DEF PumpReads, procVars, pumpVars, fwdVars
  <2> HIDE DEF x, y
  <2>3. Typed'
    BY <1>1, <2>1, <2>2, SMT DEF Typed, Fwd
  <2>4. ASSUME NEW q \in Pane, q # p PROVE UNCHANGED PaneState(q)
    BY <1>1, <2>2, <2>4, SMT DEF Typed, PaneState
  <2>5. Stages(p)'
    BY <1>1, <2>1, <2>2, SMT DEF Typed, Good, Stages, PumpEnded
  <2>6. Ended(p)'
    BY <1>1, <2>1, <2>2, SMT DEF Typed, Good, Stages, Ended, PumpEnded, SlaveOpen
  <2>7. Intact(p)'
    <3>1. /\ drained'[p] = drained[p] /\ forward'[p] = forward[p]
          /\ batch'[p] = batch[p] /\ chan'[p] = chan[p] /\ open'[p] = open[p]
          /\ written'[p] = written[p]
      BY <1>1, <2>2, SMT DEF Typed
    <3>2. Cat(held'[p], kernel'[p]) = Cat(held[p], kernel[p])
      BY <1>1, <2>1, <2>2, SMT DEF Typed
    <3>3. Pipe(p)' = Pipe(p)
      BY <1>1, <2>3, <3>1, <3>2, MoveHeld
    <3> QED
      BY <1>1, <3>1, <3>3, SamePipe DEF Good
  <2> QED
    BY <2>3, <2>4, <2>5, <2>6, <2>7, OtherPane DEF PipeInv, Good

\* send of pump(): into the channel, or lost with its receiver once the
\* session is closed.
LEMMA KeepPumpSends ==
    ASSUME PipeInv, NEW p \in Pane, PumpSends(p)
    PROVE  PipeInv'
<1>1. Typed /\ Good(p)
  BY DEF PipeInv
<1>2. chan[p] \in Chunks /\ held[p] \in Chunks /\ <<>> \in Chunks
  BY <1>1, Contents, Empty
<1>3. CASE ReceiverGone(p)
  <2>1. pump[p] = "send" /\ ~open[p] /\ fwd[p] = "none" /\ <<>> \in Chunks
    BY <1>1, <1>2, <1>3 DEF PumpSends, ReceiverGone, Good, Stages, PumpEnded
  <2>2. /\ held' = [held EXCEPT ![p] = <<>>]
        /\ pump' = [pump EXCEPT ![p] = "failed"]
        /\ UNCHANGED <<child, lingers, written, kernel, chan, fwd,
                       batch, forward, eof, open, drained>>
    BY <1>3 DEF PumpSends, procVars, pumpVars, fwdVars
  <2>3. Typed'
    BY <1>1, <2>1, <2>2, SMT DEF Typed, Fwd
  <2>4. ASSUME NEW q \in Pane, q # p PROVE UNCHANGED PaneState(q)
    BY <1>1, <2>2, <2>4, SMT DEF Typed, PaneState
  <2>5. Stages(p)'
    BY <1>1, <2>1, <2>2, SMT DEF Typed, Good, Stages, PumpEnded
  <2>6. Ended(p)'
    BY <1>1, <2>1, <2>2, SMT DEF Typed, Good, Stages, Ended, PumpEnded, SlaveOpen
  <2>7. Intact(p)'
    BY <1>1, <2>1, <2>2, SMT DEF Typed, Intact
  <2> QED
    BY <2>3, <2>4, <2>5, <2>6, <2>7, OtherPane DEF PipeInv, Good
<1>4. CASE ~ReceiverGone(p)
  <2> DEFINE x == Cat(chan[p], held[p])
  <2>1. x \in Chunks /\ <<>> \in Chunks /\ Cat(x, <<>>) = Cat(chan[p], held[p])
        /\ pump[p] = "send"
    BY <1>2, Joined, Empty DEF PumpSends
  <2>2. /\ chan' = [chan EXCEPT ![p] = x]
        /\ held' = [held EXCEPT ![p] = <<>>]
        /\ pump' = [pump EXCEPT ![p] = "read"]
        /\ UNCHANGED <<child, lingers, written, kernel, fwd,
                       batch, forward, eof, open, drained>>
    BY <1>4 DEF PumpSends, Cat, procVars, pumpVars, fwdVars
  <2> HIDE DEF x
  <2>3. Typed'
    BY <1>1, <2>1, <2>2, SMT DEF Typed, Fwd
  <2>4. ASSUME NEW q \in Pane, q # p PROVE UNCHANGED PaneState(q)
    BY <1>1, <2>2, <2>4, SMT DEF Typed, PaneState
  <2>5. Stages(p)'
    BY <1>1, <2>1, <2>2, SMT DEF Typed, Good, Stages, PumpEnded
  <2>6. Ended(p)'
    BY <1>1, <2>1, <2>2, SMT DEF Typed, Good, Stages, Ended, PumpEnded, SlaveOpen
  <2>7. Intact(p)'
    <3>1. /\ drained'[p] = drained[p] /\ forward'[p] = forward[p]
          /\ batch'[p] = batch[p] /\ kernel'[p] = kernel[p] /\ open'[p] = open[p]
          /\ written'[p] = written[p]
      BY <1>1, <2>2, SMT DEF Typed
    <3>2. Cat(chan'[p], held'[p]) = Cat(chan[p], held[p])
      BY <1>1, <2>1, <2>2, SMT DEF Typed
    <3>3. Pipe(p)' = Pipe(p)
      BY <1>1, <2>3, <3>1, <3>2, MoveChan
    <3> QED
      BY <1>1, <3>1, <3>3, SamePipe DEF Good
  <2> QED
    BY <2>3, <2>4, <2>5, <2>6, <2>7, OtherPane DEF PipeInv, Good
<1> QED
  BY <1>3, <1>4

\* recv of pty_forward_loop: the first chunk of a batch, or the latch.
LEMMA KeepFwdReceives ==
    ASSUME PipeInv, NEW p \in Pane, FwdReceives(p)
    PROVE  PipeInv'
<1>1. Typed /\ Good(p)
  BY DEF PipeInv
<1>2. chan[p] \in Chunks
  BY <1>1, Contents
<1>3. CASE chan[p] # <<>>
  <2> DEFINE x == <<Head(chan[p])>>
             y == Tail(chan[p])
  <2>1. x \in Chunks /\ y \in Chunks /\ x # <<>> /\ Cat(x, y) = Cat(batch[p], chan[p])
        /\ fwd[p] = "recv" /\ chan[p] # <<>>
    BY <1>1, <1>2, <1>3, Moved, Empty DEF Good, Stages, FwdReceives
  <2>2. /\ batch' = [batch EXCEPT ![p] = x]
        /\ chan' = [chan EXCEPT ![p] = y]
        /\ fwd' = [fwd EXCEPT ![p] = "batch"]
        /\ UNCHANGED <<child, lingers, written, kernel, pump,
                       held, forward, eof, open, drained>>
    BY <1>3 DEF FwdReceives, procVars, pumpVars, fwdVars
  <2> HIDE DEF x, y
  <2>3. Typed'
    BY <1>1, <2>1, <2>2, SMT DEF Typed, Fwd
  <2>4. ASSUME NEW q \in Pane, q # p PROVE UNCHANGED PaneState(q)
    BY <1>1, <2>2, <2>4, SMT DEF Typed, PaneState
  <2>5. Stages(p)'
    BY <1>1, <2>1, <2>2, SMT DEF Typed, Good, Stages, PumpEnded
  <2>6. Ended(p)'
    BY <1>1, <2>1, <2>2, SMT DEF Typed, Good, Stages, Ended, PumpEnded, SlaveOpen
  <2>7. Intact(p)'
    <3>1. /\ drained'[p] = drained[p] /\ forward'[p] = forward[p]
          /\ held'[p] = held[p] /\ kernel'[p] = kernel[p] /\ open'[p] = open[p]
          /\ written'[p] = written[p]
      BY <1>1, <2>2, SMT DEF Typed
    <3>2. Cat(batch'[p], chan'[p]) = Cat(batch[p], chan[p])
      BY <1>1, <2>1, <2>2, SMT DEF Typed
    <3>3. Pipe(p)' = Pipe(p)
      BY <1>1, <2>3, <3>1, <3>2, MoveBatch
    <3> QED
      BY <1>1, <3>1, <3>3, SamePipe DEF Good
  <2> QED
    BY <2>3, <2>4, <2>5, <2>6, <2>7, OtherPane DEF PipeInv, Good
<1>4. CASE chan[p] = <<>>
  <2>1. fwd[p] = "recv" /\ chan[p] = <<>> /\ PumpEnded(p)
    BY <1>4 DEF FwdReceives
  <2>2. /\ eof' = [eof EXCEPT ![p] = TRUE]
        /\ fwd' = [fwd EXCEPT ![p] = "final"]
        /\ UNCHANGED <<child, lingers, written, kernel, pump, held,
                       chan, batch, forward, open, drained>>
    BY <1>4 DEF FwdReceives, procVars, pumpVars, fwdVars
  <2>3. Typed'
    BY <1>1, <2>1, <2>2, SMT DEF Typed, Fwd
  <2>4. ASSUME NEW q \in Pane, q # p PROVE UNCHANGED PaneState(q)
    BY <1>1, <2>2, <2>4, SMT DEF Typed, PaneState
  <2>5. Stages(p)'
    BY <1>1, <2>1, <2>2, SMT DEF Typed, Good, Stages, PumpEnded
  <2>6. Ended(p)'
    BY <1>1, <2>1, <2>2, SMT DEF Typed, Good, Stages, Ended, PumpEnded, SlaveOpen
  <2>7. Intact(p)'
    BY <1>1, <2>2, SameChunks, SMT DEF Typed, Good
  <2> QED
    BY <2>3, <2>4, <2>5, <2>6, <2>7, OtherPane DEF PipeInv, Good
<1> QED
  BY <1>3, <1>4

\* try_recv of pty_forward_loop: one more chunk for the batch.
LEMMA KeepFwdBatches ==
    ASSUME PipeInv, NEW p \in Pane, FwdBatches(p)
    PROVE  PipeInv'
<1>1. Typed /\ Good(p)
  BY DEF PipeInv
<1>2. batch[p] \in Chunks /\ chan[p] \in Chunks
  BY <1>1, Contents
<1>3. CASE Len(batch[p]) < ForwardCap /\ chan[p] # <<>>
  <2> DEFINE x == Append(batch[p], Head(chan[p]))
             y == Tail(chan[p])
  <2>1. x \in Chunks /\ y \in Chunks /\ x # <<>> /\ Cat(x, y) = Cat(batch[p], chan[p])
        /\ fwd[p] = "batch" /\ chan[p] # <<>>
    BY <1>2, <1>3, Moved, Appended DEF FwdBatches
  <2>2. /\ batch' = [batch EXCEPT ![p] = x]
        /\ chan' = [chan EXCEPT ![p] = y]
        /\ UNCHANGED <<child, lingers, written, kernel, pump, held,
                       fwd, forward, eof, open, drained>>
    BY <1>3 DEF FwdBatches, procVars, pumpVars, fwdVars
  <2> HIDE DEF x, y
  <2>3. Typed'
    BY <1>1, <2>1, <2>2, SMT DEF Typed, Fwd
  <2>4. ASSUME NEW q \in Pane, q # p PROVE UNCHANGED PaneState(q)
    BY <1>1, <2>2, <2>4, SMT DEF Typed, PaneState
  <2>5. Stages(p)'
    BY <1>1, <2>1, <2>2, SMT DEF Typed, Good, Stages, PumpEnded
  <2>6. Ended(p)'
    BY <1>1, <2>1, <2>2, SMT DEF Typed, Good, Stages, Ended, PumpEnded, SlaveOpen
  <2>7. Intact(p)'
    <3>1. /\ drained'[p] = drained[p] /\ forward'[p] = forward[p]
          /\ held'[p] = held[p] /\ kernel'[p] = kernel[p] /\ open'[p] = open[p]
          /\ written'[p] = written[p]
      BY <1>1, <2>2, SMT DEF Typed
    <3>2. Cat(batch'[p], chan'[p]) = Cat(batch[p], chan[p])
      BY <1>1, <2>1, <2>2, SMT DEF Typed
    <3>3. Pipe(p)' = Pipe(p)
      BY <1>1, <2>3, <3>1, <3>2, MoveBatch
    <3> QED
      BY <1>1, <3>1, <3>3, SamePipe DEF Good
  <2> QED
    BY <2>3, <2>4, <2>5, <2>6, <2>7, OtherPane DEF PipeInv, Good
<1>4. CASE ~(Len(batch[p]) < ForwardCap /\ chan[p] # <<>>)
  <2>1. fwd[p] = "batch"
    BY DEF FwdBatches
  <2>2. /\ fwd' = [fwd EXCEPT ![p] = "send"]
        /\ UNCHANGED <<child, lingers, written, kernel, pump, held,
                       chan, batch, forward, eof, open, drained>>
    BY <1>4 DEF FwdBatches, procVars, pumpVars, fwdVars
  <2>3. Typed'
    BY <1>1, <2>1, <2>2, SMT DEF Typed, Fwd
  <2>4. ASSUME NEW q \in Pane, q # p PROVE UNCHANGED PaneState(q)
    BY <1>1, <2>2, <2>4, SMT DEF Typed, PaneState
  <2>5. Stages(p)'
    BY <1>1, <2>1, <2>2, SMT DEF Typed, Good, Stages, PumpEnded
  <2>6. Ended(p)'
    BY <1>1, <2>1, <2>2, SMT DEF Typed, Good, Stages, Ended, PumpEnded, SlaveOpen
  <2>7. Intact(p)'
    BY <1>1, <2>2, SameChunks, SMT DEF Typed, Good
  <2> QED
    BY <2>3, <2>4, <2>5, <2>6, <2>7, OtherPane DEF PipeInv, Good
<1> QED
  BY <1>3, <1>4

\* send of pty_forward_loop: one chunk of the batch, or none of it once
\* the session is closed.
LEMMA KeepFwdSends ==
    ASSUME PipeInv, NEW p \in Pane, FwdSends(p)
    PROVE  PipeInv'
<1>1. Typed /\ Good(p)
  BY DEF PipeInv
<1>2. forward[p] \in Chunks /\ batch[p] \in Chunks /\ batch[p] # <<>>
  BY <1>1, Contents DEF Good, Stages, FwdSends
<1>3. CASE open[p]
  <2> DEFINE x == Append(forward[p], Head(batch[p]))
             y == Tail(batch[p])
  <2>1. x \in Chunks /\ y \in Chunks /\ Cat(x, y) = Cat(forward[p], batch[p])
        /\ fwd[p] \in {"send", "sent"} /\ batch[p] # <<>>
    BY <1>2, Moved, Appended DEF FwdSends
  <2>2. /\ forward' = [forward EXCEPT ![p] = x]
        /\ batch' = [batch EXCEPT ![p] = y]
        /\ fwd' = [fwd EXCEPT ![p] = IF y = <<>> THEN "wake" ELSE "sent"]
        /\ UNCHANGED <<child, lingers, written, kernel, pump,
                       held, chan, eof, open, drained>>
    BY <1>3 DEF FwdSends, Forwarded, procVars, pumpVars, fwdVars
  <2> HIDE DEF x, y
  <2>3. Typed'
    BY <1>1, <2>1, <2>2, SMT DEF Typed, Fwd
  <2>4. ASSUME NEW q \in Pane, q # p PROVE UNCHANGED PaneState(q)
    BY <1>1, <2>2, <2>4, SMT DEF Typed, PaneState
  <2>5. Stages(p)'
    BY <1>1, <2>1, <2>2, SMT DEF Typed, Good, Stages, PumpEnded
  <2>6. Ended(p)'
    BY <1>1, <2>1, <2>2, SMT DEF Typed, Good, Stages, Ended, PumpEnded, SlaveOpen
  <2>7. Intact(p)'
    <3>1. /\ drained'[p] = drained[p] /\ chan'[p] = chan[p] /\ held'[p] = held[p]
          /\ kernel'[p] = kernel[p] /\ open'[p] = open[p]
          /\ written'[p] = written[p]
      BY <1>1, <2>2, SMT DEF Typed
    <3>2. Cat(forward'[p], batch'[p]) = Cat(forward[p], batch[p])
      BY <1>1, <2>1, <2>2, SMT DEF Typed
    <3>3. Pipe(p)' = Pipe(p)
      BY <1>1, <2>3, <3>1, <3>2, MoveForward
    <3> QED
      BY <1>1, <3>1, <3>3, SamePipe DEF Good
  <2> QED
    BY <2>3, <2>4, <2>5, <2>6, <2>7, OtherPane DEF PipeInv, Good
<1>4. CASE ~open[p]
  <2>1. <<>> \in Chunks /\ ~open[p] /\ fwd[p] \in {"send", "sent"} /\ batch[p] # <<>>
    BY <1>2, <1>4, Empty DEF FwdSends
  <2>2. /\ batch' = [batch EXCEPT ![p] = <<>>]
        /\ fwd' = [fwd EXCEPT ![p] = IF fwd[p] = "sent" THEN "final" ELSE "join"]
        /\ UNCHANGED <<child, lingers, written, kernel, pump, held,
                       chan, forward, eof, open, drained>>
    BY <1>4 DEF FwdSends, procVars, pumpVars, fwdVars
  <2>3. Typed'
    BY <1>1, <2>1, <2>2, SMT DEF Typed, Fwd
  <2>4. ASSUME NEW q \in Pane, q # p PROVE UNCHANGED PaneState(q)
    BY <1>1, <2>2, <2>4, SMT DEF Typed, PaneState
  <2>5. Stages(p)'
    BY <1>1, <2>1, <2>2, SMT DEF Typed, Good, Stages, PumpEnded
  <2>6. Ended(p)'
    BY <1>1, <2>1, <2>2, SMT DEF Typed, Good, Stages, Ended, PumpEnded, SlaveOpen
  <2>7. Intact(p)'
    BY <1>1, <2>1, <2>2, SMT DEF Typed, Intact
  <2> QED
    BY <2>3, <2>4, <2>5, <2>6, <2>7, OtherPane DEF PipeInv, Good
<1> QED
  BY <1>3, <1>4

\* drain_fair takes a chunk for the parser, from the forwarder or from the
\* pump when there is no forwarder.
LEMMA KeepPollTakes ==
    ASSUME PipeInv, PollTakes
    PROVE  PipeInv'
<1>1. PICK p \in Pane :
         /\ Polled(p) /\ open[p] /\ Queued(p) # <<>>
         /\ drained' = [drained EXCEPT ![p] = Append(@, Head(Queued(p)))]
         /\ IF fwd[p] = "none"
            THEN chan' = [chan EXCEPT ![p] = Tail(@)] /\ UNCHANGED forward
            ELSE forward' = [forward EXCEPT ![p] = Tail(@)] /\ UNCHANGED chan
  BY DEF PollTakes
<1>2. Typed /\ Good(p)
  BY DEF PipeInv
<1>3. drained[p] \in Chunks /\ chan[p] \in Chunks /\ forward[p] \in Chunks
  BY <1>2, Contents
<1>4. CASE fwd[p] = "none"
  <2> DEFINE x == Append(drained[p], Head(chan[p]))
             y == Tail(chan[p])
  <2>1. x \in Chunks /\ y \in Chunks /\ Cat(x, y) = Cat(drained[p], chan[p])
        /\ chan[p] # <<>>
    BY <1>1, <1>3, <1>4, Moved, Appended DEF Queued
  <2>2. /\ drained' = [drained EXCEPT ![p] = x]
        /\ chan' = [chan EXCEPT ![p] = y]
        /\ UNCHANGED <<child, lingers, written, kernel, pump, held, fwd, batch,
                       forward, eof, open>>
    BY <1>1, <1>4 DEF PollTakes, Queued, procVars, pumpVars, fwdVars
  <2> HIDE DEF x, y
  <2>3. Typed'
    BY <1>2, <2>1, <2>2, SMT DEF Typed
  <2>4. ASSUME NEW q \in Pane, q # p PROVE UNCHANGED PaneState(q)
    BY <1>2, <2>2, <2>4, SMT DEF Typed, PaneState
  <2>5. Stages(p)'
    BY <1>2, <2>1, <2>2, SMT DEF Typed, Good, Stages, PumpEnded
  <2>6. Ended(p)'
    BY <1>2, <2>1, <2>2, SMT DEF Typed, Good, Ended, PumpEnded, SlaveOpen
  <2>7. Intact(p)'
    <3>1. forward[p] = <<>> /\ batch[p] = <<>>
      BY <1>2, <1>4 DEF Good, Stages
    <3>2. /\ drained'[p] = x /\ chan'[p] = y
          /\ forward'[p] = <<>> /\ batch'[p] = <<>>
          /\ held'[p] = held[p] /\ kernel'[p] = kernel[p]
          /\ open'[p] = open[p] /\ written'[p] = written[p]
      BY <1>2, <2>2, <3>1, SMT DEF Typed
    <3>3. Cat(Cat(Cat(drained[p], forward[p]), batch[p]), chan[p]) = Cat(drained[p], chan[p])
      BY <1>3, <3>1, Empty
    <3>4. Cat(Cat(Cat(drained'[p], forward'[p]), batch'[p]), chan'[p]) = Cat(x, y)
      BY <2>1, <3>2, Empty
    <3>5. Pipe(p)' = Pipe(p)
      BY <2>1, <3>2, <3>3, <3>4 DEF Pipe
    <3> QED
      BY <1>2, <3>2, <3>5, SamePipe DEF Good
  <2> QED
    BY <1>2, <2>3, <2>4, <2>5, <2>6, <2>7, OtherPane DEF PipeInv, Good
<1>5. CASE fwd[p] # "none"
  <2> DEFINE x == Append(drained[p], Head(forward[p]))
             y == Tail(forward[p])
  <2>1. x \in Chunks /\ y \in Chunks /\ Cat(x, y) = Cat(drained[p], forward[p])
    BY <1>1, <1>3, <1>5, Moved, Appended DEF Queued
  <2>2. /\ drained' = [drained EXCEPT ![p] = x]
        /\ forward' = [forward EXCEPT ![p] = y]
        /\ UNCHANGED <<child, lingers, written, kernel, pump, held, chan, fwd,
                       batch, eof, open>>
    BY <1>1, <1>5 DEF PollTakes, Queued, procVars, pumpVars, fwdVars
  <2> HIDE DEF x, y
  <2>3. Typed'
    BY <1>2, <2>1, <2>2, SMT DEF Typed
  <2>4. ASSUME NEW q \in Pane, q # p PROVE UNCHANGED PaneState(q)
    BY <1>2, <2>2, <2>4, SMT DEF Typed, PaneState
  <2>5. Stages(p)'
    BY <1>2, <1>5, <2>1, <2>2, SMT DEF Typed, Good, Stages, PumpEnded
  <2>6. Ended(p)'
    BY <1>2, <2>1, <2>2, SMT DEF Typed, Good, Ended, PumpEnded, SlaveOpen
  <2>7. Intact(p)'
    <3>1. /\ batch'[p] = batch[p] /\ chan'[p] = chan[p] /\ held'[p] = held[p]
          /\ kernel'[p] = kernel[p] /\ open'[p] = open[p] /\ written'[p] = written[p]
      BY <1>2, <2>2, SMT DEF Typed
    <3>2. Cat(drained'[p], forward'[p]) = Cat(drained[p], forward[p])
      BY <1>2, <2>1, <2>2, SMT DEF Typed
    <3>3. Pipe(p)' = Pipe(p)
      BY <1>2, <2>3, <3>1, <3>2, MoveDrained
    <3> QED
      BY <1>2, <3>1, <3>3, SamePipe DEF Good
  <2> QED
    BY <1>2, <2>3, <2>4, <2>5, <2>6, <2>7, OtherPane DEF PipeInv, Good
<1> QED
  BY <1>4, <1>5

\* drain_fair passes an empty source; a direct poll sets the latch when the
\* pump has ended.
LEMMA KeepPollSkips ==
    ASSUME PipeInv, PollSkips
    PROVE  PipeInv'
<1>1. PICK p \in Pane :
         /\ Polled(p) /\ (~open[p] \/ Queued(p) = <<>>)
         /\ eof' = [eof EXCEPT ![p] = @ \/ (open[p] /\ fwd[p] = "none" /\ PumpEnded(p))]
  BY DEF PollSkips
<1>2. Typed /\ Good(p)
  BY DEF PipeInv
<1>3. UNCHANGED <<child, lingers, written, kernel, pump, held, chan, fwd, batch,
                  forward, open, drained>>
  BY DEF PollSkips, procVars, pumpVars, fwdVars
<1>4. Typed'
  BY <1>1, <1>2, <1>3, SMT DEF Typed
<1>5. ASSUME NEW q \in Pane, q # p PROVE UNCHANGED PaneState(q)
  BY <1>1, <1>2, <1>3, <1>5, SMT DEF Typed, PaneState
<1>6. Stages(p)'
  BY <1>2, <1>3 DEF Good, Stages, PumpEnded
<1>7. Ended(p)'
  BY <1>1, <1>2, <1>3, SMT DEF Typed, Good, Ended, Queued, PumpEnded, SlaveOpen
<1>8. Intact(p)'
  BY <1>2, <1>3, SameChunks DEF Good
<1> QED
  BY <1>2, <1>4, <1>5, <1>6, <1>7, <1>8, OtherPane DEF PipeInv, Good

\* The child writes its next chunk into the kernel.
LEMMA KeepWrite ==
    ASSUME PipeInv, NEW p \in Pane, Write(p)
    PROVE  PipeInv'
<1>1. Typed /\ Good(p)
  BY DEF PipeInv
<1>2. kernel[p] \in Chunks /\ written[p] \in Nat /\ written[p] + 1 \in Nat
  BY <1>1, Contents, SMT DEF Typed
<1> DEFINE x == Append(kernel[p], written[p] + 1)
           w == written[p] + 1
<1>3. x \in Chunks /\ w \in Nat /\ SlaveOpen(p)
  BY <1>1, <1>2, Contents, Extended DEF Write
<1>4. /\ written' = [written EXCEPT ![p] = w]
      /\ kernel' = [kernel EXCEPT ![p] = x]
      /\ UNCHANGED <<child, lingers, pump, held, chan, fwd, batch, forward, eof,
                     open, drained>>
  BY DEF Write, procVars, pumpVars, fwdVars
<1>5. Append([n \in 1 .. written[p] |-> n], w) = [n \in 1 .. w |-> n]
  BY <1>2, CountOn
<1>6. ASSUME NEW s \in Chunks PROVE Cat(s, x) = Append(Cat(s, kernel[p]), w)
  BY <1>2, Extended
<1> HIDE DEF x, w
<1>7. Typed'
  BY <1>1, <1>3, <1>4, SMT DEF Typed
<1>8. ASSUME NEW q \in Pane, q # p PROVE UNCHANGED PaneState(q)
  BY <1>1, <1>4, <1>8, SMT DEF Typed, PaneState
<1>9. Stages(p)'
  BY <1>1, <1>4 DEF Good, Stages, PumpEnded
<1>10. Ended(p)'
  BY <1>1, <1>3, <1>4, SMT DEF Typed, Good, Ended, PumpEnded, SlaveOpen
<1>11. Intact(p)'
  <2> DEFINE before == Cat(Cat(Cat(Cat(drained[p], forward[p]), batch[p]), chan[p]), held[p])
  <2>1. before \in Chunks
    <3>1. /\ drained[p] \in Chunks /\ forward[p] \in Chunks /\ batch[p] \in Chunks
          /\ chan[p] \in Chunks /\ held[p] \in Chunks
      BY <1>1, Contents
    <3>2. Cat(drained[p], forward[p]) \in Chunks
      BY <3>1, Joined
    <3>3. Cat(Cat(drained[p], forward[p]), batch[p]) \in Chunks
      BY <3>1, <3>2, Joined
    <3>4. Cat(Cat(Cat(drained[p], forward[p]), batch[p]), chan[p]) \in Chunks
      BY <3>1, <3>3, Joined
    <3> QED
      BY <3>1, <3>4, Joined
  <2>2. Cat(before, x) = Append(Cat(before, kernel[p]), w)
    BY <1>6, <2>1
  <2>3. kernel'[p] = x /\ written'[p] = w
    BY <1>1, <1>4, SMT DEF Typed
  <2>4. /\ drained' = drained /\ forward' = forward /\ batch' = batch /\ chan' = chan
        /\ held' = held /\ open' = open
    BY <1>4
  <2>5. Pipe(p) = Cat(before, kernel[p]) /\ Pipe(p)' = Cat(before, x)
    BY <2>3, <2>4 DEF Pipe
  <2> HIDE DEF before
  <2>6. ASSUME open[p] PROVE Pipe(p)' = [n \in 1 .. w |-> n]
    <3>1. Cat(before, kernel[p]) = [n \in 1 .. written[p] |-> n]
      BY <1>1, <2>5, <2>6 DEF Good, Intact
    <3> QED
      BY <1>5, <2>2, <2>5, <3>1
  <2> QED
    BY <2>3, <2>4, <2>6 DEF Intact
<1> QED
  BY <1>1, <1>7, <1>8, <1>9, <1>10, <1>11, OtherPane DEF PipeInv, Good

-----------------------------------------------------------------------------
(* The steps of the event loop that close sessions                         *)

\* What a closed pane holds no longer counts; another may have lost its shell.
LEMMA KeepClose ==
    ASSUME PipeInv, NEW S, Close(S),
           child' \in [Pane -> {"running", "exiting", "zombie", "reaped"}],
           \A q \in Pane : /\ child'[q] = child[q] \/ child'[q] # "running"
                           /\ q \in S => child'[q] # "running",
           UNCHANGED <<lingers, written, kernel, pumpVars, fwdVars, eof>>
    PROVE  PipeInv'
<1>1. Typed
  BY DEF PipeInv
<1>2. UNCHANGED <<lingers, written, kernel, pump, held, fwd, batch, eof>>
  BY DEF pumpVars, fwdVars
<1>3. Typed'
  <2>1. <<>> \in Chunks
    BY SMT DEF Chunks
  <2> QED
    BY <1>1, <1>2, <2>1, SMT DEF Typed, Close
<1>4. ASSUME NEW q \in Pane PROVE Good(q)'
  <2>1. Good(q) /\ (SlaveOpen(q)' => SlaveOpen(q))
    BY <1>2 DEF PipeInv, SlaveOpen
  <2>2. CASE q \notin S
    <3>1. /\ chan'[q] = chan[q] /\ forward'[q] = forward[q]
          /\ open'[q] = open[q] /\ drained'[q] = drained[q]
      BY <1>1, <2>2, SMT DEF Typed, Close
    <3>2. Stages(q)'
      BY <1>2, <2>1, <3>1 DEF Good, Stages, PumpEnded
    <3>3. Ended(q)'
      BY <1>2, <2>1, <3>1 DEF Good, Ended, PumpEnded
    <3>4. Intact(q)'
      BY <1>2, <2>1, <3>1, SameChunks DEF Good
    <3> QED
      BY <3>2, <3>3, <3>4 DEF Good
  <2>3. CASE q \in S
    <3>1. /\ ~open'[q] /\ forward'[q] = <<>> /\ child'[q] # "running"
          /\ chan'[q] = <<>> \/ chan'[q] = chan[q]
      BY <1>1, <2>3 DEF Typed, Close
    <3>2. Stages(q)'
      BY <1>2, <2>1, <3>1 DEF Good, Stages, PumpEnded
    <3>3. Ended(q)'
      BY <1>2, <2>1, <3>1 DEF Good, Ended, PumpEnded
    <3> QED
      BY <3>1, <3>2, <3>3 DEF Good, Intact
  <2> QED
    BY <2>2, <2>3
<1> QED
  BY <1>3, <1>4 DEF PipeInv

\* reap_exited_shells waits for children and closes some of their sessions.
LEMMA KeepReap ==
    ASSUME PipeInv, Reap
    PROVE  PipeInv'
<1> DEFINE S == {p \in Pane : open[p] /\ child[p] = "zombie"}
<1>1. PICK C \in SUBSET (S \ {0}) : Close(C)
  BY DEF Reap
<1>2. /\ child' = [p \in Pane |-> IF p \in S THEN "reaped" ELSE child[p]]
      /\ UNCHANGED <<lingers, written, kernel, pumpVars, fwdVars, eof>>
  BY DEF Reap
<1>3. C \subseteq S
  BY <1>1
<1> HIDE DEF S
<1>4. /\ child' \in [Pane -> {"running", "exiting", "zombie", "reaped"}]
      /\ \A q \in Pane : /\ child'[q] = child[q] \/ child'[q] # "running"
                         /\ q \in C => child'[q] # "running"
  BY <1>2, <1>3, SMT DEF PipeInv, Typed
<1> QED
  BY <1>1, <1>2, <1>4, KeepClose

\* The close of one pane.
LEMMA KeepCloseView ==
    ASSUME PipeInv, NEW p \in Pane, CloseView(p)
    PROVE  PipeInv'
<1>1. PICK left \in {"reaped", IF child[p] = "running" THEN "exiting" ELSE child[p]} :
         child' = [child EXCEPT ![p] = left]
  BY DEF CloseView
<1>2. Close({p}) /\ UNCHANGED <<lingers, written, kernel, pumpVars, fwdVars, eof>>
  BY DEF CloseView
<1>3. /\ child' \in [Pane -> {"running", "exiting", "zombie", "reaped"}]
      /\ \A q \in Pane : /\ child'[q] = child[q] \/ child'[q] # "running"
                         /\ q \in {p} => child'[q] # "running"
  BY <1>1, SMT DEF PipeInv, Typed
<1> QED
  BY <1>2, <1>3, KeepClose

\* The steps of the loop that only move its own place.
LEMMA KeepTurn ==
    ASSUME PipeInv, PtyReadable \/ OtherEvent \/ AboutToWait \/ PollStops \/ Handled
    PROVE  PipeInv'
    BY KeepStutter DEF PtyReadable, OtherEvent, AboutToWait, PollStops, Handled

-----------------------------------------------------------------------------
(* The theorems                                                            *)

\* Nothing is written yet.
LEMMA PipeInit ==
    Init => PipeInv
<1> SUFFICES ASSUME Init PROVE PipeInv
  OBVIOUS
<1>1. <<>> \in Chunks
  BY SMT DEF Chunks
<1>2. Typed
  BY <1>1, SMT DEF Init, Typed, Fwd
<1>3. ASSUME NEW p \in Pane PROVE Good(p)
  <2>1. /\ drained[p] = <<>> /\ forward[p] = <<>> /\ batch[p] = <<>> /\ chan[p] = <<>>
        /\ held[p] = <<>> /\ kernel[p] = <<>> /\ written[p] = 0
        /\ pump[p] = "read" /\ fwd[p] \in {"none", "recv"} /\ ~eof[p]
    BY SMT DEF Init
  <2>2. Stages(p) /\ Ended(p)
    BY <2>1 DEF Stages, Ended
  <2>3. Pipe(p) = <<>>
    BY <1>1, <2>1, Empty DEF Pipe
  <2>4. <<>> = [n \in 1 .. 0 |-> n]
    BY SMT
  <2> QED
    BY <2>1, <2>2, <2>3, <2>4 DEF Good, Intact
<1> QED
  BY <1>2, <1>3 DEF PipeInv

\* One case per step.
LEMMA PipeNext ==
    PipeInv /\ [Next]_vars => PipeInv'
<1> SUFFICES ASSUME PipeInv, [Next]_vars PROVE PipeInv'
  OBVIOUS
<1>1. CASE PollTakes
  BY <1>1, KeepPollTakes
<1>2. CASE PollSkips
  BY <1>2, KeepPollSkips
<1>3. CASE Reap
  BY <1>3, KeepReap
<1>4. CASE PtyReadable \/ OtherEvent \/ AboutToWait \/ PollStops \/ Handled
  BY <1>4, KeepTurn
<1>5. ASSUME NEW p \in Pane,
             \/ Write(p) \/ ChildExits(p) \/ CloseView(p)
             \/ \E on \in BOOLEAN : Background(p, on)
      PROVE  PipeInv'
  BY <1>5, KeepWrite, KeepChildExits, KeepCloseView, KeepBackground
<1>6. ASSUME NEW p \in Pane, Pump(p) \/ PumpFails(p)
      PROVE  PipeInv'
  BY <1>6, KeepPumpReads, KeepPumpEnds, KeepPumpSends, KeepPumpFails DEF Pump
<1>7. ASSUME NEW p \in Pane, Forwarder(p)
      PROVE  PipeInv'
  BY <1>7, KeepFwdReceives, KeepFwdBatches, KeepFwdSends, KeepFwdWakes, KeepFwdJoins
     DEF Forwarder
<1>8. CASE UNCHANGED vars
  BY <1>8, KeepStutter DEF vars
<1> QED
  BY <1>1, <1>2, <1>3, <1>4, <1>5, <1>6, <1>7, <1>8 DEF Next, Loop

(* reader.rs, runtime/pty.rs and drain_fair of the event loop: the chunks  *)
(* of a session are drained for its parser as they were written, none      *)
(* lost, repeated or reordered, for every number of panes and every        *)
(* capacity and budget.  It ends where the polls do: of what is drained,   *)
(* handle_pty_bytes_inner may still refuse a chunk to the parser.          *)
THEOREM OutputIsIntact == Spec => []OutputIntact
<1>1. PipeInv => OutputIntact
  BY DEF PipeInv, Good, Intact, Pipe, Cat, OutputIntact
<1> QED
  BY <1>1, PipeInit, PipeNext, PTL DEF Spec

(* mark_reader_eof in pty_forward_loop and in the direct poll: the latch   *)
(* that arms the exit poll is set only when no output can follow.          *)
THEOREM LatchIsTheEnd == Spec => []EofIsLast
<1>1. PipeInv => EofIsLast
  <2> SUFFICES ASSUME PipeInv, NEW p \in Pane, open[p], eof[p]
               PROVE  /\ batch[p] \o chan[p] \o held[p] = <<>>
                      /\ pump[p] = "failed" \/ (kernel[p] = <<>> /\ ~SlaveOpen(p))
    BY DEF EofIsLast
  <2>1. Good(p)
    BY DEF PipeInv
  <2>2. batch[p] = <<>> /\ chan[p] = <<>> /\ held[p] = <<>>
    BY <2>1 DEF Good, Stages, Ended, PumpEnded
  <2>3. <<>> \o <<>> \o <<>> = <<>>
    BY SMT
  <2> QED
    BY <2>1, <2>2, <2>3 DEF Good, Ended, PumpEnded
<1> QED
  BY <1>1, PipeInit, PipeNext, PTL DEF Spec
=============================================================================
