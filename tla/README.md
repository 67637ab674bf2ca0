# A verification development for bitty

[bitty](../src/README.md) is a terminal emulator written in Rust. Its workspace holds a session-host daemon,
`bittyd` (crate `bitty-daemon`), that keeps terminal and worker sessions alive while the
programs that show them come and go, and a large application around it (parser, terminal state, renderer,
user interface, configuration, plugins, packages). This directory models the daemon's core and the application's
way from a shell's output to the screen in TLA+, checks them with TLC on small instances, and proves the main
properties of the session host, the worker pool and the output path with TLAPS for every value of the constants: who
controls a session, how its events reach the programs that show it, how its worker is started, stopped and, after a
crash, reaped, how a request is admitted, and how output crosses the threads of a pane.

`crates/...` and `service/...` below are paths in the repository; `service/`, `lease/`, `registry/`, `events/` and
`orphan/` are directories of `crates/bitty-daemon/src`. `D-nn` are the decisions of the daemon's contract as its
sources cite them.

## 1. Inventory

### The daemon

The daemon is one process with one thread that matters: the poll loop of `service/server.rs`. Every operation below
runs to completion inside one iteration of that loop, so there is no data race to model. What is hard is the *order*
of the things that iteration interleaves: requests of several connections, worker exits, timers, a signal, and the
clients and children outside, which the daemon sees only through sockets and process states.

| Component | State | Operations | Talks to | Hard behaviour | What makes it correct |
|---|---|---|---|---|---|
| Session host (`lease/host.rs`, `lease/record.rs`, `registry/table.rs`, `registry/session.rs`) | registry of session records with a revision each, lease table and its global index, control token, pending stop, pending cancel | create, discard, bind, attach, claim, heartbeat, detach, transfer, resize, stop, abort, kill, exit, expire, collect | called by dispatch and by the worker pool | tokens raced by claim, transfer, detach and expiry; several stops and an exit in any order; refusals in the middle of an operation; caps | one controller; no stale token acts; first stop wins; indexes agree; every visible change has a revision; caps hold |
| Event bus (`events/bus.rs`, `lease.rs`, `backlog.rs`) | per session: announced revision, ring, one bounded queue per lease, pinned terminal event | register, emit, attach, detach, drain, acknowledge, remove | driven by dispatch | overflow of one queue while others are served; the last event of a session | no gap, no duplicate; bounds; terminal event pinned until seen |
| Dispatch (`service/dispatch.rs`) | closed leases, final frames, tokens to deliver, daemon state | one handler per method, supervision, collection, close of a connection | session host, bus, workers, grants, stores | one mutation touches host, bus, closures and connection; closing a lease is a mutation itself | the parts agree after every handler; nobody loses its lease without being told |
| Served loop (`service/server.rs`, `service/protocol.rs`) | connections: phase, owned leases, outbound buffer, deadlines | accept, read, deliver, write, timers, shutdown | dispatch, sockets | partial writes, stalled clients, idle closes, drain at shutdown | events reach the client or the connection ends; memory bounded; every lease has an owner |
| Idempotency stores (`idempotency.rs`) | descriptors per key, tombstones, caps | reserve, commit, abort, sweep | dispatch | retries of refused, committed or evicted requests | one effect per key |
| Grants (`service/grants.rs`, `scopes.rs`) | bounded table of bearer grants | mint, reserve, consume, release, revoke, sweep | dispatch | a reservation whose attach fails | a bearer is used once; reservations return |
| Workers (`worker.rs`, `spawn.rs`) | one child and its pty per session | spawn, supervise, terminate, forget | containment, session host, orphan supervisor | natural exit against SIGTERM, SIGKILL and the subtree sweep | one recorded outcome, nothing left running without a record |
| Containment (`containment/`) | a cgroup directory, or pidfds of a process group | spawn into, signal, terminate, sweep | kernel | processes that fork, leave their group or lose their parent while they are being killed | what is reported swept is gone |
| Orphan journal and reaper (`orphan/`) | files, one per spawn, and a map of them | reserve, commit, settle, scan, verify, retire, expire | containment, disk | a crash, a failing write or a reboot between any two of them | a restart reaps what it recorded and nothing else, and can always start |
| Audit (`audit.rs`, `audit_sink.rs`) | bounded ring, retried batch, degraded flag, segments on disk | record, drain, admit, rotate | dispatch, disk | sink failure during a mutation; a rotation that fails half-way | privileged mutations refused while degraded; nothing applied unaudited |
| Content plane (`content.rs`) | byte buffer per session | append, drain | workers, loop | slow readers | bounded, drops accounted |
| Handshake, peer check, endpoint (`handshake.rs`, `peer.rs`, `endpoint.rs`, `operator.rs`, `service/frame.rs`, `wire.rs`) | files, sockets, formats | bind, attest, negotiate, parse | kernel | - | formats and system calls |

A request travels so: the loop reads a frame of a connection, dispatch authorises it and calls the session host, the
session host changes its records and bumps the session's revision, dispatch reads the new revision back
(`flush_events`) and lets the bus announce it to every lease's queue; a queue that is full loses the frame and its
lease is closed, which detaches it in the host, which is one more revision; the reply is queued, then the delivery
pass moves queued events of this connection into its outbound buffer, and the end of the turn writes it. Other
connections get their events in their own turns.

### The way of the output

In the application every pane has a shell behind a pseudo-terminal and two threads of its own; the event loop serves
all panes. It is the one part of the repository where threads share bounded buffers.

| Component | State | Operations | Talks to | Hard behaviour | What makes it correct |
|---|---|---|---|---|---|
| Reader (`bitty-pty/src/reader.rs`, `pty.rs`) | a pump thread, its channel of 16 chunks, the child | read the master, send, end, fail, join; try_wait and drop of the child | kernel, forwarder | back pressure to the shell; the end of the stream when descendants hold the slave | nothing lost; the end means the end; the thread can be joined |
| Forwarder (`bitty-runtime/src/runtime/pty.rs`) | a thread, the batch in its hands, a channel of 16 chunks, the latch `reader_eof` | receive, batch, send, wake, leave | reader, event loop | a send that blocks, a consumer that is dropped, wakes that merge | output is never stuck behind a merged wake; the thread leaves with its consumer |
| Event loop (`bitty-terminal/src/terminal_app.rs`, `bitty-platform/src/app.rs`) | sessions, poll turn and budget, the deadline of the wait | poll, reap, close a pane, wait | forwarders, children | polls shared by all panes and cut off by a budget; a child that ends after its output | every pane is drained; an exit is noticed without another event |

### The rest of the workspace

`bitty-plugin-host`, `bitty-package`, `bitty-lua`, `bitty-config`, `bitty-term-state`, `bitty-vt`, `bitty-render`,
`bitty-rich`, `bitty-ui`, `bitty-sandbox`, `bitty-winjob`, the test crates and what `bitty-runtime`, `bitty-platform` and
`bitty-terminal` do besides the above are not modelled; `PROJECT.json` gives the reason for each. In short: most are
sequential transformations of data or pure I/O, where a state-space search says little; a few (the plugin and package
lifecycles, the pty's writer, the runtime's execution jobs) are candidates for more work (section 6).

## 2. Modules

| Module | Models | Extends |
|---|---|---|
| `SessionHost` | `SessionHost`, `SessionRegistry`, lease records, control token, stop pipeline | - |
| `Control` | what the host promises about control of a session, in four phases | - |
| `SessionHostControl` | the refinement mapping from `SessionHost` to `Control` | `SessionHost` |
| `EventBus` | delivery state of one session as operators | - |
| `Delivery` | dispatch and loop over the buses of all sessions | `EventBus` |
| `OrphanJournal` | the journal, in memory and on disk, as operators whose value is the set of outcomes the file system allows | - |
| `Workers` | worker pool, process containment and reaper over the journal, with daemons that crash and machines that reboot | `OrphanJournal` |
| `Idempotency`, `Grants`, `AuditSink` | the three stores a request passes, as operators | - |
| `Admission` | the keyed, granted and audited handlers of dispatch over the three stores | `Idempotency`, `Grants`, `AuditSink` |
| `AtMostOnce` | what the idempotency stores promise of one key; `Admission` implements it | - |
| `AuditTrail` | the audit segments on disk and their rotation | - |
| `PtyOutput` | pump, forwarder and event loop over the buffers of every pane | - |
| `SessionHostProofs`, `SessionHostSteps`, `SessionHostBounds` | TLAPS proofs: invariants; action properties and refinement; counters and bounds | `SessionHost`, `SessionHostControl` |
| `WorkersInvariant` | the inductive invariant of `Workers` | `Workers` |
| `WorkersProofs` | TLAPS proofs: the journal's operators and one lemma per action; the theorems | `WorkersInvariant` |
| `DeliveryInvariant` | the inductive invariant of `Delivery` | `Delivery` |
| `DeliveryLemmas`, `DeliveryProofs` | TLAPS proofs: the operators of `EventBus` and of one session; one lemma per action and the theorems | `DeliveryInvariant` |
| `PtyProofs` | TLAPS proofs: the invariant of the output path, one lemma per step, two theorems | `PtyOutput` |
| `AdmissionProofs` | TLAPS proofs: the grants, the gate of the audit sink, the replays and the refinement of `AtMostOnce` | `Admission` |
| `MCSessionHost`, `MCDelivery`, `MCWorkers`, `MCAdmission`, `MCAuditTrail`, `MCPtyOutput` | symmetry sets and values for TLC | |

### SessionHost

The state of the code is a map of sessions to structs; the module has one function per field group: `record` (state,
generation, revision, attach count, reason, cleanup and time of the registry record), `hosted` (sessions with host state), `leases`,
`role`, `expiresAt` (the lease table), `leaseSessions` (the global index from handle to session), `controller`,
`token`, `stop`, `cancel`, and `now`, the clock the caller injects. One action is one public method with its entry
sweep, its checks in the order of the code, its early refusals and its trailing effects. A refusal that changes
nothing is a step that does not happen; a refusal that *has* changed something (an entry sweep, a half-done
termination) is a disjunct of the action.

Tokens are numbers: a rotation takes the next one, `Retired` (0) is a slot emptied for good, and a caller presents
any number or none. Revisions have a width, `MaxRevision`, standing for the `u64`
counter: the code refuses at its end and so does the model. Handles are 128-bit random values, never issued
twice in practice; `Fresh` picks one that no session holds, which also lets a run mint again a handle that was given back.

A snapshot is computed when it is asked for, from the record and from the leases that are live at `now` (`compose_snapshot`),
so `Visible` counts `LiveLeases` and not the table: a tick of the clock may take a lease, and with it the controller, out of the
view before a sweep removes it. `RevisionCoversVisible` says so: the view changes with a larger revision, or because the clock alone
took a lease past its expiry (`Lapsed`). Left out: the digest of a transfer, the time a worker was last seen alive, and what a
snapshot shows besides state, generation, leases and controller.

### EventBus and Delivery

`EventBus` describes one session's `SessionEvents` as a record and every method of the bus as an operator on it.
A frame is its kind and its revision; all frames have the same accounted size in the code, so the event bound and the
byte bound of a queue are one bound. `control_transfer` frames carry their own revision like `session_state` and are
counted among them. `Losing` and `FlushLosses` say which leases a burst of frames closes: `flush_events` repeats
itself until the host has no unannounced revision, and each closed lease adds one, so the leases lost are the least
set closed under that rule.

`Delivery` is the loop. `turn` is where the loop is (between turns, after a read, before the writes); an action is one
frame handled with everything its handler does, one delivery pass, the end of one turn, one tick or one timer. In a
turn a connection may read any number of frames, each followed by a delivery pass, then writes. Which connection the
next turn belongs to is arbitrary, a superset of the fixed order of one `poll` iteration.

Of the session host the module keeps what delivery reads: life, revision, the lease table and which of its leases have
expired. Who may do what was decided there, so a request names its effect (`Attach`, `DetachOwn`, `DetachOther`,
`Mutate`, ...) and is enabled whenever some caller could have been authorised for it. `sessionOf` and `view` are
history variables: which session a handle was issued for, and up to which revision its client has been told.

Abstractions a reader should know of:

- every encoded reply or event is one unit of the outbound buffer, so "a frame that does not fit" is an exact bound;
- `Accept` merges accept and handshake, because a connection holds nothing before the latter;
- workers, grants and idempotency appear only through the revisions they cause;
- several records terminated in the same millisecond are evicted by identifier in the code, in any order here;
- the queues of a connection closed for an overflow of its *own* buffer are left as they were: the same turn releases
  them, or the process ends;
- exhaustion of the revision counter is `SessionHost`'s subject and not modelled here;
- content frames, control-token delivery, audit, rate limits, the tamper check.

### OrphanJournal and Workers

`journal` has two functions, `memory` (the map of `OrphanJournal`) and `disk` (the files). Every operation of
`orphan/journal.rs` that writes is the set of its outcomes: it succeeds; it fails with nothing done (`"write"`,
`"unlink"`); or it fails after the rename or the removal because the directory sync failed (`"sync"`). `Faults` says
which of these an instance has. `Classify` is what the scan of a start makes of a file: everything of an earlier boot, everything
unparsable and everything the mechanism cannot prove is quarantined as unverified; a record of this boot under a
cgroup keeps its class. Files a daemon may find that it did not write are in `Init`: torn ones (`Garbled`) and records of the journal's
first version (`Legacy`), which keep their boot and are rewritten as the scan quarantines them. Two outcomes leave memory and disk
apart, as in the code: a reservation whose sync failed is refused and forgotten, but its file is there; a quarantine whose
sync failed is on disk only, and the daemon goes on to hold the class it had.

`Workers` is the daemon around it. The poll loop is single threaded, but a *crash* falls between any two effects that
outlive the process, and so do an exit and a fork of the worker. Hence `task`: the handler the daemon is in and where
in it it is. A handler is one action per outliving effect, in the order of the code:

| Handler | Actions |
|---|---|
| `Service::start_worker`, `WorkerPool::spawn` | `Create` (reservation), `Contain`, `ForkLeader`, `Exec` of the child, `Spawned` (or `SpawnRefused`, `ExecRefused`, `Abandon`, `NotBindable`), `CommitRecord`, `Bind` |
| `ContainedChild::terminate` | `Scan`, `TerminateKill`, `Verdict` |
| the end of a session | `SettleTask`: settle the record, drop the handle, give the terminal record its cleanup class |
| `WorkerPool::supervise` | `RequestStop`, `Deadline`, `KillWindow` (clocks), `Supervise`: one worker of the pass, with the kill of the exit, the escalation and the sweep |
| drain | `Stop`, `TerminateNext`, `Leave` |
| `OrphanRuntime` | the scan in `Start`, then the pass of `VerifyPass` and of the reaper over the held records no worker of the pool is bound to |

`tree` is the kernel: the leader of each session (forked, running, zombie, reaped), the kinds of descendant alive
(`group`, `escaped`, `adrift`) and who has a fatal signal pending. A kill is delivered at once and takes effect later
(`Die`); what a kill reaches is what the code can see at that moment (`Reach`), so a member forked after the member list was
read is missed. `released` and `outcome` are history: which records were given up after retention, and the cleanup
class each session's terminal record was given. `daemon`, `Crash`, `Start` and `Reboot` are the fault model: a crash keeps files, cgroups and
processes and loses memory; a reboot also loses processes and cgroups and makes every record one of an earlier boot.

Left out: the pty; sessions that have no worker; the `collected` branch of `supervise` (a session collected while its
worker is bound, which the retention rules exclude); a bind that fails after the commit; a host that refuses the terminal
record because the revisions are spent, where `supervise` drops the handle and settles nothing (`worker.rs:832`); platforms without containment
(Windows job objects); a boot identity that cannot be read; files that lie outside the journal's root; a process table so
full that opening a pidfd fails.

### Idempotency, Grants, AuditSink, Admission, AuditTrail

A store of idempotency keys is a sequence of entries, oldest first, so insertion order and map are one object; room is
made by `EvictOldest`, which takes the oldest *retirable* entry and no other. The grant table is a function from grant ids
to records; a bearer presented by the wrong connection is an unknown bearer. The sink is a bounded ring, the batch being
written and the degraded flag, and a flush is the set of its outcomes, one per number of records written before the
failure.

`Admission` has one action per handler of `service/dispatch.rs` that uses them (create, claim, transfer, stop and the
other keyed mutations; negotiation and attach with a grant; mint, revoke, expiry; the ends of sessions), in the order
of the code: the key is begun, the grant is validated, the sink must admit, the effect is applied, the grant is
consumed, the key is completed. A client may send any request again over any connection at any time. `used`, and the
other variables marked *history*, count effects. `Refusal` stands for every request refused before it touches a store,
which adds a record to the sink and nothing else.

`AuditTrail` is the part of `audit_sink.rs` below the sink: file 0 is the active segment, the daemon appends through a
handle that follows its file when that is renamed, a rotation is its steps, and a bounded number of them fail.

Left out: the formats; scope strings, correlation digests and rates; the sequence number of a reservation (a handler
completes what it began); `evict_expired` and, for the create store, `retire_session`, which the service never calls;
exhaustion of the revision counter while a grant is minted; torn lines of the trail.

### PtyOutput

One function per stage and pane, in the order a chunk passes them: `kernel` (what the shell wrote and nobody read),
`held` (the chunk the pump has read), `chan` (the pump's channel), `batch` (in the forwarder's hands), `forward` (the
forwarder's channel), `drained` (what the polls took out of it). A chunk is the number the shell gave it. `chan` holds
`ChannelCap` chunks, `forward` `ForwardCap`.

| Thread | Actions |
|---|---|
| shell and kernel (external) | `Write`; `Background`: a descendant takes the slave or the last one leaves it; `ChildExits`: files closed first, reapable later |
| `pump` of `reader.rs` | `PumpReads`, `PumpSends` (blocking, refused once the receiver is gone), `PumpEnds`, `PumpFails` |
| `pty_forward_loop` | `FwdReceives`, `FwdBatches` (try_recv), `FwdSends` (blocking; the sender of a dropped consumer breaks its loop), `FwdWakes`, `FwdJoins` (`reader.join`) |
| event loop | `PtyReadable`, `OtherEvent` and `AboutToWait` begin a poll; `PollTakes`, `PollSkips`, `PollStops` are `drain_fair` under its budget, from `pty_poll_turn` on; `Reap` is `reap_exited_shells`; `Handled` and `CloseView` are the event itself |

A turn of the loop polls and reaps up to three times, which is `phase`: at the top of the handler of an event (1), at
the top of `about_to_wait` (2), and by the poll `about_to_wait` makes itself (3), after which the loop waits. The wait
has a deadline (`armed`) while a session with a latched end of stream is not reaped (`shell_exit_poll_deadline`). A poll
ends by its budget, in chunks (`PollMax`) or in time (`Overruns`: after any chunk); `cut` is a history variable, whether the last one did. A session
whose forwarder thread could not be spawned (`Refused`) is polled directly from the pump's channel.

`Reap` takes the statuses of every child that can be reaped, closes the panes among them, and never the primary's session,
which stays open and is still polled; a pane whose leaf is in no layout is kept too. When no session is left that is not reaped, the loop exits.

Abstractions: wakes queued before one is handled are merged into one, as `app.rs:36` asks consumers to expect (the
vendored winit delivers each, so the program polls at least as often as the model); `reap_exited_shells` takes all the statuses there
are in one step; the bounded joins of a closing session only delay the loop. Left out: what happens to a chunk after the
drain, where `handle_pty_bytes_inner` may drop it before the parser (`runtime/pty.rs:867`: the Kitty images in flight of all
panes exceed their bound), so the properties speak of what is drained and not of what is parsed; deadlines and redraws that
come from damage, which cause further polls; views that have no session; the writer; resizing; ConPTY; panes spawned later, which
start like the others.

## 3. Runs

`passing` runs finish without an error; `violation` runs check one property that the repository's documentation
or comments claim and find it violated by what the code does.

| Run | Instance | Question and answer |
|---|---|---|
| `host_control` | 1 session, 3 handles | Who holds control and which stop wins, for every order of attach, claim, transfer, heartbeat, detach, resize, expiry, stop, kill and exit. Sessions only move forward, what a snapshot shows is covered by the revision, an expired lease authorizes nothing, a session that had leases ends sealed, and the host implements `Control`. |
| `host_registry` | 3 sessions, 2 handles, 2 live and 1 retained slot, 4 revisions | Caps hold; index and tables agree when one sweep removes leases of several sessions, when a full table admits again after a sweep, and when a running session ends with its leases. |
| `delivery_stream` | 2 sessions, 1 connection, 2 leases, queues of 2, buffer of 1, 1 retained record | Gap-free, duplicate-free streams; when sessions end, together or one after the other, the terminal event is reserved first and pinned exactly until handed over. The one exception is a tick that ends more sessions than are retained. |
| `delivery_pressure` | 1 session, 2 connections, 2 leases, queues of 1, buffer of 2 | Losing a lease keeps host, bus and owner consistent, the others are told, memory stays bounded. |
| `delivery_reported` | 1 session, 1 connection, 1 lease, queues and buffer of 2, fair | A listener learns of the end of its session and of a lost frame. |
| `workers_crash` | 2 sessions, 2 records, both plans; writes, removals and directory syncs that fail | Through crashes, restarts and reboots, over torn and first-version files: every live tree is recorded, a start begins clean, a bound worker has a committed record; neither SIGTERM nor SIGKILL goes to a running worker, to a record of an earlier boot, or to one the daemon holds as unverified. |
| `workers_live` | 2 sessions, 1 record, cgroup plan, the same faults, fair | Only a file that a failed sync made the daemon forget fills the journal past what a start loads; a stop is settled; every phase of the daemon ends. |
| `admission_retry` | 1 session, 2 connections, 2 keys, 1 host and 2 observer grants, stores of 1 and 2 | Retries, conflicts and eviction, grants used once and announced when they end, no effect without an audit record. Also checks that every key implements `AtMostOnce`. |
| `workers_adrift` | violation; subreaper plan | A descendant adopted during the sweep outlives a cleanup reported `swept`. |
| `audit_rotation` | violation; 2 segments of 2 lines, 1 failure | A rotation that fails half-way costs records that a crash would have kept. |
| `pty_stream` | 1 pane, channels of 4, polls of 8 cut short at any chunk, 5 chunks, jobs that outlive the shell, reads that fail, fair | Nothing is lost or reordered on the way to the drain. All of it is drained and the exit of the shell is noticed without an unrelated event, except when the loop waits after a poll that its budget cut short with chunks still queued. |
| `pty_close` | violation; 2 panes, channels of 1, polls of 2 | The forwarder of a busy pane that is closed never leaves: it joins a pump that waits for room in a channel only the forwarder empties. |

Nine runs pass and three find a violation. `TypeOK` of `SessionHost` and `Workers` is proved, so no run repeats it;
that of `Delivery` and of `PtyOutput` holds in hand-run instances (`MCPtyOutput_shared` for the latter). Configurations that no run names
are the hand-run instances of section 5.

### Bounds, and why they are enough

Model bounds are the constants marked *bound* in the modules; all others are limits of the program set to small values.

- *Handles.* A control conflict needs a holder, a successor and an onlooker: three in `host_control`. Index errors need
  two sessions that compete for handles. A stream needs a lease that overflows and one that listens or joins: two.
- *Clock and times.* A lease's time to live, the stop deadline and the retention are one or two ticks, so that every
  relation of two deadlines (before, together, after) occurs. In `Workers` a deadline is a flag that falls due at any time.
- *Reasons.* `Requested` is the set of stop reasons a caller may give: all of them in `host_control`, where the first must win; two in
  `host_registry`, whose properties do not read it.
- *Revisions.* `MaxRevision` in `SessionHost` is the counter's width, small so that its end is reached, and large enough for a whole
  life: four in `host_registry` are a bind, an attach, the detach of a sweep and a second attach, or an end with the lease. In `Delivery`
  it only bounds the requests; detaches, losses and ends still pass it, so a burst of several revisions in one flush
  happens in every run.
- *Retention.* `delivery_stream` keeps one record of two sessions: ends that come apart evict a record already announced, ends in
  one tick evict one that is not (the exception).
- *Queues and buffers.* One or two frames: empty, partly full, full and overflowing are all reached, with a queue
  smaller than, equal to and larger than the outbound buffer. The defaults (256 events, 1 MiB) are only larger.
- *Sessions.* In `Delivery` sessions share nothing but retention and the connection, hence two where ends are the
  question and one elsewhere. In `Workers` they share the journal's cap and the pass that examines them: two, with room for one
  record (the cap bites) or two (one is verified while the other is spawned). The proofs have every number.
- *Crashes and faults.* Not bounded in `Workers`: any number of crashes, restarts, reboots and failing calls.
- *Keys and grants.* Two keys and a store of one make eviction compete with a retry; two keys in a store of two, a
  conflict with an entry kept. One host grant and two observer grants under a cap of one per session, two in all, reach both caps.
- *Output.* The code's two channels of 16 and polls of 32 become 4 : 4 : 8. A poll may be cut off after any chunk, so the three polls
  of a turn need not empty a channel of four: the loop does come to wait with chunks queued, and TLC reaches the exception
  of the two liveness properties in this run. Five chunks fill the forwarder's channel and block a batch behind it;
  `MCPtyOutput_flood` has eight, which fill both. `MCPtyOutput_shared` has two panes, one polled directly, that share polls cut off at any point.
- *Opt-in.* Connections that did not opt in to events take part in `delivery_reported`; the stream properties speak
  of those that did.
- *Deadlock* checking is off only in the `Delivery` runs, where the daemon stops and exits, and in the `PtyOutput`
  runs, where a quiet pane waits for ever and the loop exits with the last shell. The host's timer
  operations can be called in every state, and a daemon that is down can start, so the other runs leave the check on.

Symmetry over handles, connections, sessions, keys and grants is used only for invariants and action properties, never for liveness.

### Fairness

`LoopFairness`: every connection's turn comes again and again and a turn that began ends. The loop visits every
connection in every iteration and `poll` has a timeout (`TICK_MS`), so this needs nothing from the clients; it is
strong fairness because the loop is between turns only now and then. `TimerFairness`: the timers of a retired
connection are evaluated in every iteration. `ClientFairness` is used for `TerminalReported` and `LossRetiresOwner`
only and is an assumption about the client, not the daemon: it keeps reading its socket and now and then has nothing
to say. Without it neither property can hold, because a client that never reads fills its buffer and a client that
never stops sending is always being answered; with it they still fail if the loop forgets a connection, which is
their mutant.

`Workers` assumes weak fairness of the steps inside a handler (straight-line code), of the two clocks (a deadline
that was set falls due), of the kernel (a child that was forked execs or fails, a process with SIGKILL pending dies) and of the drain;
and strong fairness of `Supervise` for each session, because a pass of the loop comes between other handlers again and
again but is not enabled inside them. Nothing is assumed of clients, of worker programs (which may
ignore SIGTERM and fork) or of crashes, which may or may not come.

`PtyOutput` assumes weak fairness of each thread (the scheduler runs what can run), of the loop (it takes what is
queued and wakes at its deadline) and of a process that has closed its files becoming reapable. Nothing is assumed of
what shells write or when they exit, of users' events (no other event need ever come) or of failing reads.

## 4. Proofs

**The session host.** Proved with TLAPS for every set of sessions and handles and every value of the limits, from the assumptions named in
`SessionHost` (limits are positive, the null values are outside their sets):

- `HostInvariant` is the inductive invariant `IInv`. The invariants the runs check are not inductive one by one: a claim keeps
  the control relation only if the index is right and a revoked token stays retired, and a termination keeps the
  terminal sessions sealed only if a stopping session has a complete stop, a created one was never bound and every
  record that resolves has host state. `IInv` is their conjunction with those three facts (`StopComplete`,
  `CreatedUnbound`, `Hosted`).
- `TypeCorrect`, `SingleController`, `HandlesResolve`, `TerminalIsSealed`, `StopPipeline`, `RevocationIsFinal`: type
  correctness and the invariants of control, index, terminal sessions, stops and revocation.
- `TokenRotation`, `ControlIsHandedOver`, `StopIsIrrevocable`, `LifecycleMovesForward`: what no step may do.
- `HostImplementsControl`: every behaviour of the session host is one of `Control` under `ControlPhase`.
- `CountersAgree` (`AttachCountAgrees`), `RevisionsCoverChanges` (`RevisionCoversVisible`), `TablesAreBounded`
  (`LeaseTableBounded`), `RegistryIsBounded` (`RegistryBounded`), `ExpiredLeasesStayInert` (`ExpiredLeaseInert`): the attach count of
  a record is the size of its lease table as long as revisions are left, what a snapshot shows of a session changes only with a
  larger revision or with a lease that passes its expiry, no table and no registry outgrows its cap, and a lease past its time authorizes nothing.

`SessionHostProofs` has a lemma per shared helper (sweeps, dropped leases, vacated control, finished terminations), one
lemma per group of actions, and one short theorem per property. `SessionHostSteps` argues the action properties from
`IInv` the same way, and the refinement. `SessionHostBounds` first sorts the steps by what they do to one session:
`StepShapes` says that every step leaves its record alone, advances it, drops leases from its table, adds one, hands
control over, finishes it, creates it or forgets it. The counter and the revisions are then a case analysis of
ten shapes and not of every action: the counter is inductive with `IInv` (`AllCounted`), because the shapes that change a table
change the counter by as much; the bound of the table rests on the admitted attach having swept every due lease before
it counted (`SweepIsWhole`), the bound of the registry on what `CollectRetained` evicts (`EvictionBounds`).

**The worker pool.** Proved for every finite set of sessions, every positive `MaxRecords`, every set of containment plans and whichever of
writes, removals and directory syncs fail:

- `InvariantHolds` is the inductive invariant `IInv` of `WorkersInvariant`, which TLC checked on every state of
  `workers_crash` before it was proved. Its idea: while a daemon is up, what memory holds is on disk, with the same boot and
  containment, and a quarantine in memory is a quarantine on disk (`Mirrored`; not the reverse, because of the two failed syncs above);
  a file that names no boot is unverified, and an unverified one carries its quarantine (`FileSound`); a tree that is
  not provably gone is on disk or was released after retention; a handler about to settle a record as not
  started or swept has a tree that is gone (`SettlesGone`); every stage of a spawn holds its reservation; and what a verification pass
  still has to examine is held and not bound.
- `TypesHold`, `EveryWorkerIsRecorded`, `StartsClean`, `BoundWorkersAreCommitted`: the invariants of the runs, each from `IInv`.
- `RunningWorkersAreSpared` (`Spared`) and `QuarantinedIsNeverSignalled` (`UnverifiedNeverSignalled`): the action properties of
  `workers_crash`. Both speak of every signal, SIGTERM included (`Signals`), and rest on one lemma about the six handlers that send one
  (`SignalIsCovered`).
- `OnlyForgottenFilesOverflow` (`Restartable`): a step takes the files past what the next start loads only while a daemon is up
  that has forgotten one of them. A crash, a reboot, an end and a failed start add no file (`DownKeepsFiles`); otherwise
  the files are those in memory, which is within the cap.

`WorkersProofs` first states of every journal operator what it preserves and what its outcomes leave on disk, then
has one lemma per action; the theorems follow.

**The delivery.** Proved for every finite set of sessions and of handles, any set of connections, every positive queue, ring and
buffer bound and every retention cap, with requests, ticks, timers, lost frames, partial writes and broken sockets in any order:

- `DeliveryHolds` is the inductive invariant `DeliveryInv` of `DeliveryInvariant`, which TLC checked on the states of
  `delivery_stream` and `delivery_pressure` before it was proved.
- `StreamsHaveNoGap` (`StreamGapFree`), `PinsAreExact` (`TerminalPinned`), `EventsFollowTheHost` (`EventsKeepUp`),
  `ActingLeasesAreServed` (`AttachedLeaseIsServed`), `BuffersAreBounded` (`MemoryBounded`): the invariants of the runs.
- `LossesAreReported` (`LeavingIsReported`): the action property.
- `EndsAreReserved` (`TerminalEventReserved`): no step leaves a lease of an ended session without its terminal event reserved, unless
  it is a tick in which more sessions end than records are kept (`Overfull`). With the default limits there is no such tick (`limits.rs:252`
  and 255: 16 sessions, at most 64, and 64 records); a daemon configured to keep fewer meets it, which is the finding `MCDelivery_batch`.

The invariant has two levels. `Sound` speaks of one session while a handler works on it: the queue of a lease and what its
connection has been handed make up the stream (`LeaseOK`), the ring is the newest revisions, a pin is there exactly while its
event is queued, and a record that has ended has its terminal event reserved or still has a revision to announce (`HostFits`). Between two
handlers nothing is left to announce (`Announced`). Every handler is a chain of a few operations on a session, so
`DeliveryLemmas` shows once for each (`Flushes`, `Departed`, `Terminates`, ...) that it keeps `Sound`; the hard one is the flush,
where closing the leases that lose a frame adds revisions that the others must still take. `DeliveryProofs` lifts this to all
sessions: a handle belongs to one session and one connection (`Belong`), frames wait for an owner only after its lease has left the
bus (`FinalsLast`), a lease that may act is served (`Served`), a connection past its bound is about to be visited
(`Buffered`), and each retained record is one ended session (`RetainedOK`). All steps but `Attach` only shrink what a
session's leases, unserved leases and unreserved ends are (`Shrinks`), which carries those four at once (`ShrinkKeeps`).

**The output path.** Proved for every number of panes, every positive capacity and budget, any amount of output, any set of
refused forwarders, with descendants, cut-off polls and failing reads:

- `OutputIsIntact`: while a session is open, what the polls have drained followed by what each stage holds is what was written.
- `LatchIsTheEnd`: `reader_eof` is set only when nothing is left before the forwarder's channel and nobody can write, unless the
  read failed.

Both follow from `PipeInv`: types; `Stages`, which says which stage can hold something by what its thread is doing (a
forwarder that was refused never holds anything, a batch exists only while it is being sent, the forwarder leaves
only after the pump); `Ended`, what the end of the stream rests on; and `Intact`. Every step moves a
chunk between two neighbours, so one lemma per pair of neighbours (`MoveHeld`, `MoveChan`, ...) carries `Intact`, from
three facts about concatenation. That threads make progress is liveness and stays with TLC.

**Admission.** Proved for all sets of sessions, connections, keys and grants, every cap of every store and every ring and batch
(both positive). `GrantAssumption` says that host and observer grants are different, that the host's own session is not one of
the registry, and that the null value is no grant and no record. `StoreAssumption` says that the capacities are natural
numbers (zero included: such a store refuses every key), that the store of session.create is no session's and that the null
key is no key.

- `GrantsAreSingleUse` and `EndsAreAnnounced` follow from `GrantInv`, which adds to the two properties what they rest on: an
  observer grant's record names the session it was minted for (`Belongs`), which exists; what a record says of
  its grant is how often it admitted (`Counted`); and a connection stands on a grant that has admitted, so the next
  one, which needs one that has not, takes another (`Consent`). One lemma per handler; the idempotency stores and the sink
  only decide whether a handler goes on, so every other handler is one case.
- `AppliedStaysAudited` needs the sink alone: every handler either leaves it, records something that attests no effect, or asks
  it first (`SinkStep`), and the gate lets a mutation pass only with an empty sink. The record of the effect is
  then the only one, and a flush that stops keeps it in the batch that is retried (`FlushedIs`).
- `ReplaysAreResolved` (`ReplaysResolve`) and `EffectsHappenOnce` (`AppliesAtMostOnce`: every behaviour of `Admission` is one of
  `AtMostOnce` under the mapping `Outcome`) follow from `KeyInv`, which TLC checked on the instances of `admission_retry` and
  `admission_keys` before it was proved. It adds what the code relies on without saying: a store has one entry per key and
  is within its capacity; an entry that took effect is in the history, and an effect is remembered until its session is over
  (`EffectsOK`), because only refusals are ever evicted; a session that was not created has no history (`FreshOK`), so its id can be a
  new entry's result; and a session may replay exactly as many grants as its store remembers (`NamedOK`). The last makes the
  list of ids safe: `Remember` drops the oldest id when there are more than the store has places, and there never are.
  The first lemmas say what `begin`, the eviction, `complete` and `mark_control_claimed` do to the entries of a store (`ExecutedIs`,
  `EvictedStore`, `ClaimedIs`); the next what a step does to one session's store or the create store (`SessionExecutes`,
  `SessionMints`, `CreateExecutes`, `CreateMarks`, `CreateAges`); then each handler is one of seven moves. `ScopeMoves` is the step
  of the refinement: an effect is never undone, does not come back once it is spent, and is the first of its key.

**Only model-checked.** Every invariant, every action property and both refinements of the passing runs are stated by a theorem.
`TerminalReported`, `LossRetiresOwner`, `StopSettles`, `PhasesEnd`, `OutputDelivered` and `ExitObserved` are liveness under fairness, which the
prover does not reason about here: they stay with TLC. So do the runs that end in a violation, `AuditTrail`'s among them.

## 5. Findings

Disagreements of documentation and code met while modelling. Three have a violation run and are described in
`PROJECT.json`: a cleanup reported swept with a descendant adrift (`containment/child.rs:453`), a rotation that
loses a tail (`audit_sink.rs:246`), and a forwarder that joins a pump which waits for it (`bitty-pty/src/reader.rs:305`). These have a configuration beside
the modules, to be run by hand (`tlc -config <cfg> <module>`), which finds the property violated:

| Configuration | Property | Source | What |
|---|---|---|---|
| `MCDelivery_batch` | `TerminalAlwaysReserved` | `worker.rs:833` | A tick that records more exits than the retention cap holds evicts the first before its terminal event is flushed; `TerminalEventReserved` states this exception. `README.md:469`: "The terminal event is emitted before the terminal state is readable, pinned until every recipient observes it". |
| `MCDelivery_idle_close` | `LeasesHaveOwner` | `service/server.rs:838` | An idle close is decided after the loop that releases the leases of closed connections, so its leases stay until they expire. `dispatch.rs:1025`: "Release every lease a disconnecting connection held." |
| `MCDelivery_swept` | `SweptLeaseIsDetached` | `lease/host.rs:1452` | `expire_due` is never called and the expired entries of attach and transfer are ignored, so a swept lease keeps its queue. `lease/host.rs:1446`: "The daemon's timer calls this". |
| `MCDelivery_full_buffer` | `DeliveryKeepsConnection` | `service/server.rs:1289` | A frame that does not fit in the rest of the buffer closes the connection. `server.rs:1231`: "a full outbound buffer leaves the rest of the lease queue intact for the next pass". |
| `MCDelivery_close_drain` | `CloseDrainBounded` | `service/server.rs:829` | Past the drain deadline a retired connection is only retired again. `README.md:957`: "a retired connection that cannot drain its refusal frame is closed". |
| `MCSessionHost_overflow` | `RefusalIsWhole` | `lease/host.rs:2119` | A termination refused at the end of the revision counter has already changed the leases. |
| `MCWorkers_fsync` | `AlwaysLoadable` | `orphan/journal.rs:1055` | A reservation whose directory sync fails is refused and forgotten in memory, but its file was already renamed into place and stays. Such files add up past `max_orphan_records`, and the next start refuses to load; `Restartable` states this exception. |
| `MCWorkers_requarantine` | `QuarantineHolds` | `orphan/journal.rs:1055` | A quarantine whose directory sync fails is on disk, but memory keeps the class it had, and the next pass signals what its file says is quarantined; `UnverifiedNeverSignalled` speaks of what the daemon holds. `README.md:289`: "Classification is conservative and never signals an unverified record".
| `MCAdmission_keys` | `TerminalKeysYield` | `service/dispatch.rs:1751` | Nothing calls `retire_session` or `evict_expired` on the create store, so an applied create key never becomes retirable and a full store refuses creates until a restart. `idempotency.rs:51`: "a create key whose session is terminal and whose retention floor has passed" is evictable. |
| `MCPtyOutput_background` | `ExitNeedsNoEvent` | `bitty-terminal/src/terminal_app.rs:4470` | A shell that exits and leaves a background job on its terminal has no end of stream, so neither a wake nor the deadline comes. `terminal_app.rs:5363`: "Keep a bounded reap wake armed so the last-panel exit never depends on an unrelated event". |
| `MCPtyOutput_overrun` | `AlwaysDelivered` | `bitty-runtime/src/runtime/pty.rs:216` | If every poll of the last turn is cut off by its time after one chunk, chunks stay queued with no wake outstanding, and the exit behind them is not noticed either; `OutputDelivered` and `ExitObserved` state this exception (`Stranded`). `runtime.rs:392`: "the remainder is picked up on the next poll". In the program damage usually asks for a redraw, which polls again; the presenter is not modelled. |

Two hand-run instances pass: `MCPtyOutput_shared` (`TypeOK`, `OutputIntact` and `EofIsLast` with two panes, 8.6 million states) and
`MCPtyOutput_flood` (`OutputDelivered` and `ExitObserved` with enough output to fill both channels, 0.5 million states).

Met while reading, without a property: `daemon.negotiate` consumes a host grant without passing the audit gate
(against `README.md:1255`); a refused attach or create is recorded twice (against `README.md:110`);
`IdempotencyRefusal::InFlight` cannot be returned, because a handler completes what it began; a `session.stop` under the
subreaper plan never reports `swept` (against `README.md:805`); and `session_detach` never calls `maybe_forget_events`, so the bus
entry of an ended session outlives its last lease when that lease leaves by a detach (`DetachOwn`).

## 6. Plan

Done: the session host and its promise; the event bus, delivery and the loop's liveness; the orphan journal, the worker
pool, containment and the reaper with crashes; idempotency, grants and the audit sink with the admission that composes
them; the audit trail; the way of the output through a pane's threads; the proofs above.

Left, in this order:

1. The content plane as a further queue of `Delivery`, and the pty's writer as a further thread of `PtyOutput`.
2. That `SessionHost` refines the reduced host `Delivery` and `Admission` assume.
3. The runtime's execution jobs, package activation with rollback, the plugin lifecycle.
