# Formal models of uAgent

uAgent is a coding agent. Each conversation is run by one process, its
*runtime*, which a terminal, a web host and other agents reach over a private
socket. The models here are about what those processes promise each other: that
one runtime owns a conversation, that a message between agents is neither lost
nor delivered twice when a runtime is killed, that what a client was told
is accepted is run once and answered, that what it is shown is whole and
current, that a conversation that is moved is never lost, that a command
left running in the background rejoins the conversation once, and that a
scheduled run is started once and comes to its end. Paths below are
relative to the repository's `src/` unless they start with `include/`, `docs/`
or `tests/`.

| Module | What it is |
| --- | --- |
| `RuntimeOwnership` | abstract: one owner at a time, and only the owner touches the session's socket |
| `FileLease` | the lease and socket of a session, step by step against a file system |
| `FileLeaseProofs` | its invariant, the theorems, and that it implements `RuntimeOwnership` |
| `Mailbox` | a session's mailbox, its senders and its recipient, with crashes |
| `MailboxProofs` | its invariant and the theorems |
| `SessionWorker` | the runtime's channel: input slot, guidance, interrupts, the application's loop and its turn |
| `SessionWorkerProofs` | its invariant and the theorems |
| `SessionCommands` | a command's way from the browser through the master and the host to a runtime, its receipts, and the decision a reply is for |
| `SessionCommandsProofs` | its invariant and the theorems |
| `EventFanout` | what a runtime does, on its way to its clients: batcher, queue, snapshot and replay, slow clients |
| `EventFanoutProofs` | its invariant and the theorems |
| `SessionMove` | moving a conversation with its files: leases, journal, renames, recovery, and a process that opens it meanwhile |
| `SessionMoveProofs` | its invariant and the theorems |
| `Activities` | the commands of a conversation: run, wait, poll and stop calls, the I/O thread, the drain |
| `ActivitiesProofs` | its invariant and the theorems |
| `ScheduledRuns` | scheduled tasks and their runs: the file, the host's scheduler, its sessions and their runtimes |
| `ScheduledRunsProofs` | its invariant and the theorems |
| `Subsequences` | what stands in some places of a sequence, as the queues of `SessionWorker` and `ScheduledRuns` are filtered |
| `MC...` | the instances TLC checks, one for each module above but the abstract one, `Subsequences` and the proofs; the values of their constants are in the `.cfg` of the same name |

## The system

`docs/ARCHITECTURE.md` names the pieces. This is their state, how they
interact, and what is hard about them.

### Session ownership (`include/core/lease.h`, `app/session_server.cc`, `core/fs.cc`)

State: a lock file per session (`<socket>.lock`), the flock of an open
descriptor, the owner's identity written into the file, the socket. Operations:
`FileLease::Acquire`, `Reset`, `LiveOwner`, `OwnerGone`; `Server::Start` and
its destructor; the sweep of the runtime directory. Runtimes, clients that
start runtimes and sweeps share nothing but the file system.
Hard: the lock belongs to an inode, the name may move to another one between
`open` and `flock`; three kinds of process remove files; every step may be the
last of a killed process. Correct when one process at a time acts as the owner,
a serving runtime stays reachable, and a name in the file is never wrong.

### Mail (`core/mailbox.cc`, `agent/mail_delivery.cc`, `Agent::Save`, `Agent::Load`)

State: `new/` and `cur/` on disk; the saved session with `delivered_mail`; in
memory the conversation, `delivered_mail_` (256 ids), `unacked_mail_`,
`arriving_mail_` and the steering queue. Operations: `SendMail`, `TakeMail`,
`DeliverMail`, `PushUserInput`, `Save`, `AckMail`, `RecoverMail`, and the wait
of an `agents` call. Senders are other processes and may send the same named
mail again. Hard: a kill between any two renames, a repeat of a message that a
coming save will acknowledge, a save while a message is queued but not yet in
the conversation, ids that fall out of the window. Correct when nothing
committed is lost, nothing is delivered twice, and what is permitted arrives.

### Runtime channel and turn (`app/session_worker.cc`, `core/steering.cc`, `app/application*.cc`, `agent/turn*.cc`, `agent/tool_loop.cc`)

State: the one-slot input, controls behind it, the command in hand, the turn
flag, the steering queue with its interrupt request, the process's abort flag,
clients. Commands arrive on the socket thread, one at a time under the
channel's mutex; the application's thread is in `NextInput`, handles an input,
runs a turn, saves, and publishes a checkpoint; mail and children's ends wake
it. Hard: the two threads interleave at every one of these points, and the turn
reads guidance and interrupts at many of its own. Correct when every accepted
message runs once, a runtime that stops for being idle owes nothing, nothing
waits for a wake that does not come, a completion names its own command, and
every turn is reported.

### Commands, receipts and decisions (`app/session_command.cc`, `app/session_worker.cc`, `app/session_host.cc`, `app/outcome_store.cc`, `web/master*.cc`)

State: the master's receipt per request of a device; the host's receipt per
command it sent and the commands it awaits; the runtime's log of 256 receipts;
the decision pending, where it is routed, its one reply. Operations: a request
and its repeat, the router's checks, `SendCommand`, `Send`, `Received`,
`ResolveOutcome`, the reader's end; `Command`, `ReceiptLog::Check` and `Record`,
`ReplyLocked`, `EscalateLocked`, `ReadInteraction`. Hard: each of the three logs
forgets, each connection breaks, the host and the runtime end on their own, and
the locks are let go between check, registration and sending. Correct when a
command runs once, what was told accepted has run, a receipt does not stay
pending, and the first reply decides.

### Event fan-out (`app/transient_batcher.cc`, `app/session_server.cc`, `app/session_supervisor.cc`)

State: the text held back, the published frames, the snapshot and the replay
after it, each client's unwritten lines, what the client has understood.
Operations: `Push`, `QueueDelta`, `FlushDelta`, `Publish`, the drain, a join, a
drop, a refresh, `Received`. Hard: a client joins while frames are buffered; any
of three queues overflows; a client is dropped and joins again with the number
of the last frame it had. Correct when no client misses an event unawares,
applies one twice, or is shown an old status as the current one.

### Moving conversations (`app/session_move.cc`)

State: session files, their sidecars (the lock among them) in two folders, the
journal, the names that must follow, the host's place in the move. Operations:
`MoveConversation`, `HoldMove`, `MoveFiles`, `Rewrite` with `AddNote`,
`RecoverMoves`; a terminal that opens, saves and closes. Hard: a kill or a
failure between any two renames; the lock is one of the files that move.
Correct when nothing saved is lost, and a family is in one place or its move is
still written down.

### Activities (`agent/activity.cc`, `agent/activity_supervisor.cc`, `tools/shell.cc`)

State: the supervisor's lists (reserved, foreground, background, retained), a
session's state and flags, its buffer, the process. Operations: a `run` call from
its reservation to its result or its hand-over to the background; `wait`, `poll`
and `stop`; `IoLoop`; `DrainActivities`; `FinishCommandRow`. Parallel calls, the
I/O thread, the channel's thread and the agent's share them under a lock for the
lists and one per session. Hard: everything between two of these locks. Correct
when an end is told once and with all its output, the limit holds, and a row
left "running" takes its end.

### Scheduled runs (`app/schedule.cc`, `app/session_schedules.cc`)

State: one file of tasks and of their runs' records, under a file lock that may
refuse a change; in the host the statuses it last read, the run each session is
for, the updates that were refused; the runtimes. Operations: run, pause, resume,
forget and stop, from any process; `RecoverSchedules`, `TickSchedules`,
`ClaimScheduledRuns`, the preparation of a run, `ActivateLocked`, what is sent
after a pass; `Received` and the reader's end; a client's close. Hard: the pass
decides from what it read before and lets go of the host's mutex four times;
the host dies with runs in every state and their runtimes live on. Correct when
a task does not overlap itself, a prompt is never sent twice, a stop is final,
and a run that was claimed or stopped gets to its end.

### Not modelled, and why

The models follow the state machines on which processes and threads meet. Most
of the repository is something else: of its roughly 71 000 lines of
implementation the greater part presents (terminal, web front-end, views),
parses and formats (provider and MCP wire formats, Markdown, settings), or
calls the platform (sandbox, browser, media, HTTP). Their state is that of one
thread, or they have none; a specification of them would repeat them. So the
share of lines the models stand for is small (about 6 %), and a share of a third
is not within reach of models that say something. By part:

* **What is left of the modelled parts.** Attachments, fingerprints and the
  queue of inputs in `SessionCommands` (the queue is `SessionWorker`'s);
  `kControlQueueLimit` and controls during a turn; usage counts, the retained
  status line and outcome frames in `EventFanout`; closing idle runtimes before
  a move, and deleting; detached commands, memory jobs, input to a command,
  passwords, logs, the shutdown and the pruning of the retained list in
  `Activities`; titles, usage and forks of an agent's state; in `ScheduledRuns`
  the calendar and definitions (arithmetic and validation), the trimming of old
  records, a file that cannot be read, deletion and moves of a run's session, a
  runtime's restart for new settings or because it is of another build
  (`RecycleStaleWorkerLocked`), connections a client's request makes to a runtime
  that still lives (`RefreshPresence`; the scheduler's own are there), and what a
  user types into a run's session.
* **Web host.** The replay log compares a cursor with its epoch and its first
  event in one critical section. A recycle that times out is, for a command, an
  end of its runtime (`Ends`).
* **Agents** (`agent_link.cc`, `child_agent.cc`). A report that failed is kept in
  one place and sent by the next pass of the same thread; the mail it becomes
  is `Mailbox`.
* **Edit journal, settings proposals, memory claims, assets, browser leases.**
  One critical section or one thread each: there is no interleaving to check.
* **Session files, compaction, transcript, search.** Data transformations.
* **Provider API, MCP, sandbox, tools other than running commands.** What a model
  or a tool answers is a choice of outcomes (`SessionWorker`).
* **Terminal, front-end, HTTP, pairing, push, media, CLI, library, import,
  setup.** Presentation and I/O.

`PROJECT.json` lists every component with its files and every hazard at its
line, with the properties that cover it or the reason there is none.

## Plan

1. `FileLease` with `RuntimeOwnership`, checked and proved. *Done.*
2. `Mailbox`, checked and proved. *Done.*
3. `SessionWorker`, checked and its safety proved. *Done.*
4. `SessionCommands` over the master, the host and the runtime, checked and its
   safety proved. *Done.*
5. `EventFanout`, with the host as the client that filters, checked and proved. *Done.*
6. `SessionMove`, checked and its safety proved. *Done.*
7. `Activities`, checked and its safety proved. *Done.*
8. `ScheduledRuns`, checked and its safety proved. *Done.*
9. As far as it is worth it: the composition of `SessionMove` with `Mailbox`
   (mail sent to a session that moves), reports of agents, and the slots after a
   host's restart.

## The models

### FileLease

The state is what the file system and the kernel keep, and where each process
is: `named` (the inode the lock file's path names), `content` (the owner
written into an inode), `lock` (who holds the flock of an inode), `fd` (the
inode a process has open), `sock` (whose listener the socket path reaches),
`pc`. `pc` steps are single system calls of `Acquire`, `ListenUnix`, the
server's destructor, `Reset` and the sweep, in the code's order, so that
processes interleave between any two of them. `Die` ends a process anywhere:
its descriptor closes, its files stay. The second `open` round of `Acquire`,
after the name moved, is `Compare` going back to `Open`. A runtime whose wake
pipe, socket, bind, chmod or listen fails removes nothing and clears its name
(`ListenFails`, `Clear`). A dead runtime's identity in the file cannot be
confirmed (`LiveOwner` compares pid and start identity, so a reused pid is not
mistaken). Each name of `Runtime` starts once; a fresh name stands for a fresh
process.

`RuntimeOwnership` knows an owner and a socket. `OwnershipSpec` maps the owner
to the process in an owner's step (`OwnerSteps`): between a successful
comparison and the moment the lock file's name is gone. A start that fails to
listen keeps the lock file, so its ownership ends as it begins to leave.

### Mailbox

Files are pairs of their place in the order and an id. The runtime is one
thread: `up` says which loop it is in, and every iteration of those loops is a
step, because a kill may fall between them. `conv` counts how often a message's
text stands in the conversation; `disk` is the saved session, replaced in one
rename. `delivered` keeps the window of ids with the order they were handed on
in. The rest of the turn is `PushUserInput` (the text joins), `TurnRefused`
(the turn that would have carried it does not start) and `WriteSave`, which
may happen at any point between the others. `Crash` loses memory and keeps
files; `Start`, `RecoverOne`, `RecoverDone` are the next runtime.

Left out: the rate and hop limits (they refuse before anything happens),
unreadable files (set aside, never read again), a rename or a save that fails
(it changes nothing and is tried at the next pass). A file name is written
before another sender's with a later number is read; two senders' clocks are
not compared by any property.

### SessionWorker

`app` is where the application's thread is. `Commands` are the socket thread's,
each one critical section; `Turn` follows `Agent::Turn` through preparing a
step, the model call, the tool calls and the end, with every place where it
reads or clears `requested` (an insert's request) and `abort` as a step of its
own; `Serve` is `NextInput`, the handling of an input, the save and the
checkpoint. `TakeMessages` and `ApplyQueuedSteering` are the two halves of
applying guidance: the queue is emptied under its mutex, the request is dropped
after it. A refused command changes nothing and is no step. `inbox` is mail (or
a child's end) that `DeliverMail` will queue.
`accepted`, `handled`, `completed`, `joined`, `recalled`, `unreported` and
`retired` record what clients were told and what became of it.

Choices that stand for what is left out: whether a model call fails, brings
prose or calls (`ModelCall`), whether a limit ends a step (`CheckStep`),
whether a slash command compacts (`HandleInput`), whether a plan is approved
(`FollowPlan`), whether a turn is refused (`RefuseTurn`). Attachments,
titles and settings are not told apart. Messages, controls and renames are
used once each, which bounds the model.

### SessionCommands

`web`, `receipt` and `log` are the three logs; `call` is where a request's thread
stands between its locks, `link` the host's connection (a broken one is not yet
noticed), `toWorker` and `toHost` what is on the wire, stamped with a runtime.
`Reserve`, `Repeat` and `Displace` are the browser and the master;
`ExecuteCommand`, `SendCommand`, `Send` and `Return` a request's thread;
`Received` is the connection's reader. Its end has two steps: `ReaderFails` fails
what is awaited under the store's mutex, because the connection broke (`LinkLost`)
or because the host lets go of a runtime that says it is retiring (`LetGo`), and
`DeactivateLocked` puts the socket away under another mutex; a request's thread may
send in between (`ending`, `stranded`). `Overflow` empties the runtime's queue to its
clients, outcomes with the rest (`unheard`). `Take`, `Reject`,
`RejectClosed`, `Replay` and `SendAgain` are the runtime's server thread, which reads
a repeated command's outcome under one lock and records it again under another;
`CompleteControl`, `Ask`, `Look` and `Retire` are the application. `Room` is the rule all three
logs forget by. `Displace` stands for other sessions' requests in the master's
log. Escalating a decision is one rule with three callers: the parent's yield,
its unreachable connection (both `Yield`), and the end of its time (`Look`).

### EventFanout

An event is its number, a frame the numbers it carries, a status its version.
`Producer` is the application's thread with the batcher's timer, `Run` the
server's thread: it swaps the published frames out (`Swap`), handles them one by
one (`Handle`), and only then accepts, drops and writes, which is why `Join`,
`Drop` and `Write` need an empty `batch`. `view` is what a client makes of the
lines, after `SessionHost::Received`; it counts how far it has come, whether it
was told of a gap, and whether it missed or repeated an event; `Broken` is what a
connection's end leaves of it (a command that was busy may stay so). A gap has no size
and no number. All queues have the one bound of the code.

### SessionMove

`host` is the host's place in the move and `at` the file it is at; `sides` are the
sidecars it has listed. Every rename, edit and write of the journal is a step;
`Fail` is what every early return comes to, `Fault` makes a step fail, `Crash`
may come anywhere, and `Restart` carries out what the journal says with the same
actions. `other` is any other process: it takes a lease where it finds the
session, loads what belongs to that folder (`Opens`), saves the whole
conversation as it knows it, and closes or dies. The lock file is data like the
rest: `Rename("lock")` moves the lock together with who holds it.

### Activities

`job` is a command's list and its session, `proc` its process, `out` counts the
chunks read, waiting in the buffer, carried by a wait, given and thrown away, and
says whether the whole transcript was given again (`Replays`); `io` is the I/O thread's pass over
the session: it reads first and decides afterwards, with a clock it looked at
before. `calls` are the places of a batch; `RunCall`, `ReadCall` and `StopCall` are
a call's steps between locks. `Look` keeps the order in which the code looks: an
end, an interrupt, then everything that leaves the command running. `Integrate` is
the batch's results recorded in their order, `DrainActivities` what the agent
takes up between batches. A person's stop stands for the same stop as a tool
call.

### ScheduledRuns

`status` and `queue` are the records, `task` and `due` the tasks and the clock.
Every change is one step, as under the file's lock, and one of the host's may be
refused (`Refused`). `pc` is where a pass of the scheduler is: the mutex is held
from `BeginPass` over `Tick` to `Claim`, and the readers (`Received`,
`ReaderEnds`), a client's close and the catalogue's scan come where it is free
(`MutexFree`). The tick looks at `cache`, what was read as the pass began, while
`status` goes on changing. `session` is what the host knows of a run, `phase` and
`outcome` what its runtime does, `wire` the commands on their way; `Received`
catches up with all that was written by then. `HostDies` forgets the host's side,
and `HostStarts` finds the sessions that have a file. A reader ends with its runtime
(`ReaderEnds`), when the runtime has dropped a host that is slow to read and lives on
(`LinkLost`), or when the host lets go of one that retires (`LetGo`). `TakeCommand`
lets a turn end with an interrupt or drop it and go on, which `dropped` records. A pass that would find
nothing to do is left out (`Waits`), which keeps a fair scheduler
from passing for ever with nothing to do.

"waiting" and a pending question are part of a turn, "missed" is "skipped", a
refused prompt is a turn that failed, and a worktree or a check is how `Decide`
comes out. Each run's name is used for one record.

## The runs

| Run | Shows | Bounds and why |
| --- | --- | --- |
| `lease` | all properties of `FileLease` | two runtimes and a sweep are the least that has an owner, its successor and a third party; four inodes are as many as descriptors and the name can hold (`EnoughInodes`), so no open is ever blocked |
| `mailbox` | all properties of `Mailbox` | three messages: a report that is sent again under its name, a note that may expire, a blank one; window 1, so that the second id pushes the first out; inbox 2, full while the third is sent; three files and one crash, which may fall between any two steps and also during recovery's work on what it left |
| `mailbox_wait` | a header's promise that does not hold | two messages, one crash |
| `worker` | all properties of `SessionWorker` | a message, a slash command, one mail, a control that reverts and a rename: one of each kind of input; a guidance queue and a control queue of 1, so that both fill and a control waits behind the slot |
| `worker_insert` | an interrupt that outlives its step | two messages |
| `move` | all properties of `SessionMove` | a conversation and an agent of another folder, so that a move stops between two files and a session that keeps its folder is there; two opens, so that another process works on the old and on the new path; one fault and two kills, so that the recovery is itself cut off; two turns besides the first |
| `move_stopped` | a move that is never finished | the same family, one kill, nobody else |
| `fanout` | all properties of `EventFanout` | one client (clients share nothing but the server's queues), which joins twice; queues of three, which overflow with five events and three states; two streams, so that one's text flushes the other's; one event too big for a frame |
| `commands` | all properties of `SessionCommands` | a reply that names its runtime and a control that names none; a parent's reply and a yield; logs and the pending list of one, so that each forgets or refuses; two posts, two runtimes and two of: a broken connection, one the host lets go of, a queue that overflows, a restarted host, a closed or killed runtime, so that a command meets a connection that ends, another one and the end of that |
| `activities` | all properties of `Activities` | two commands, two parallel calls and four plans of batches (two runs for one place; a wait before a run of the same batch and after it; a poll or a wait beside a run that prints more); a stop, a refused kill and an interrupt, each of which may fall anywhere |
| `schedules` | all properties of `ScheduledRuns` | two runs of one task and one of another for one slot, so that a task could overlap itself and a run waits for the slot; two acts of users or the clock (a run and a stop, a due time and a pause, two tasks at once); one fault, a refused write, a lost connection or a kill of the host or a runtime, which may fall between any two steps |
| `schedules_stop` | a stop that does not reach its runtime | as above |

`lease` and `worker` switch deadlock detection off because a runtime that has
stopped stays stopped; so do `move`, `fanout`, `commands`, `activities` and
`schedules`, where the move is over, the runtime has said all it had to say,
everything posted is answered, the last command is told, or the last run is over. `mailbox` leaves it on.

What the properties say, with the code they are about, is in the comment above
each. Some of what they rule out: `ServingIsReachable` an exit or a sweep that
takes away a successor's socket; `KeptUntilSaved` acknowledging a repeat early;
`SaveIsConsistent` a save that marks as delivered what only the queue holds;
`WaitingIsIdle` a turn whose report is skipped because a rename took the slot;
`Heard` an input the application sleeps over; `NoHalfMove` a journal removed
before the last step or written after the first rename; `LeavesOpenSessions` a
move without leases; `StatusIsCurrent` a gap nobody asks about; `NoSilentLoss`
also text that a client is sent live and again in its replay; `RunsOnce` (of
`SessionWorker`) also a client that is told its command is done when another's
was, and (of `SessionCommands`) a receipt taken for an outcome;
`PendingIsAwaited` a command whose connection ended and whose receipt says
nothing of it; `OutputOnce` an end that is told before the output is read, and
output that goes anywhere but to a reader or with an interrupted call;
`RowsFinish` a row that says "running" for good; `StopIsFinal` an update on its
way that revives a stopped run; `PromptOnce` a host that prompts a run its
predecessor may have prompted; `RunsSettle` a run left "starting" or "stopping", by
a stop that is noted and never sent.

Properties that except something say so, because the code does not keep more:
`slipped`, `overtaken`, `stranded`, `unheard`, `intruded`, `kept`, `based`,
`Stranded` (of a row), `missed`, `out.lost`, `replayed`, `lost` and `dropped` each name one of the disagreements below, and everything outside of them is checked.

### Disagreements found

* `include/core/mailbox.h:5` says a message is acknowledged once its transcript
  is saved; an `agents` call that waits acknowledges at once, so a kill before
  the save loses the report (`mailbox_wait`).
* `include/core/steering.h:54` and a unit test say a late insert interrupts
  nothing else; one that arrives as a turn ends does (`worker_insert`).
* `include/app/session_move.h:4-5` says a move that stopped is finished. One
  killed after the lock file was renamed and before the session file is not:
  the next host makes the lock file anew to hold the session, and then finds the
  renamed one in its way, at every start (`move_stopped`; `StopsOnlyAtALock`
  shows it is the only such place).
* `docs/MANAGEMENT.md:118-125` says Stop interrupts an active run, and that runs
  whose runtime survived a host's restart reconnect. A run whose stop is recorded
  as the host dies is recorded as interrupted, and its session as closing, by the
  first tick of the next host, before that connects; it is then refused the
  connection, and the runtime goes on with its turn (`schedules_stop`).

What the models show besides, as exceptions of their properties rather than as
runs of their own:

* *Leases.* `include/core/lease.h:25` says lock files stay; a clean exit and the
  sweep remove them (`RemoveLease`), which the
  comparison of inodes makes safe. `core/fs.cc:358` says a runtime starting during
  a sweep keeps or remakes its files; the sweep's own flock refuses its start, and
  who started it tries again.
* *Schedules.* `docs/MANAGEMENT.md:121` says at most two runs execute at once; the
  slots of the first pass after a restart are counted before the recovered
  sessions are connected to (`app/session_schedules.cc:126,177`), so it may start
  two more, and a run's session that a user opens again counts as a slot. The end
  of a run whose activation failed is not tried again when the lock refuses it
  (`app/session_schedules.cc:277`), and the catalogue's scan drops a session
  without a file before the tick has recorded its run's end
  (`app/session_host.cc:213-226`): either leaves the run active, and its task
  without another, until the host starts again (`lost`). A turn that drops an interrupt (see
  *Turn*) goes on while its run says "stopping": the host notes that it has sent the
  interrupt and sends no other (`app/session_schedules.cc:133-137`), so the stop waits
  for the turn to end by itself (`dropped`). "A task never overlaps itself"
  (`docs/MANAGEMENT.md:120`) holds of the records, which is what `OneActivePerTask`
  says: a host that its runtime drops for reading slowly records the run as over,
  whose turn goes on as the task's next run starts.
* *Moving.* Once the lock file is renamed, another process can make a new one
  at the old path and work on the session as it leaves
  (`include/app/session_move.h:41-42` says otherwise): its turns go along, its
  assets do not (`intruded`). A process that has the old path begins a
  conversation there. A turn saved between a failed move and its
  recovery makes `AddNote` add its note again (`app/session_move.cc:79-82`, "the
  note, once"; excepted in `NothingLost`). Mail sent to the old id after `PendingMail` looked
  stays in the old mailbox.
* *Fan-out.* A client whose snapshot and replay exceed the bound together is
  dropped before a byte is written, each time it joins
  (`app/session_server.cc:355`; `docs/ARCHITECTURE.md:117-118`). A host whose
  connection broke in the middle of work keeps its number
  (`app/session_supervisor.cc:312`) and takes the snapshot it is then sent for
  old (`kept`). If the first checkpoint is lost in a full queue, the first state
  frame becomes the snapshot and clears the replay with its gap (`based`).
* *Commands.* `docs/ARCHITECTURE.md:123-124` says a changed generation invalidates
  pending commands; `HostSession::Send` stamps the frame with the generation
  there is by then (`app/session_host.cc:38-42`), so a command checked against one
  runtime may run in the next, or run while its receipt says refused
  (`slipped`). A repeat whose outcome was read as pending is recorded again after
  the outcome (`app/session_worker.cc:535`), and the receipt stays pending
  (`overtaken`; `include/app/outcome_store.h:5-8`). "A disconnect fails everything the
  session still awaits", the same comment says: a command that is registered after the
  reader's end has failed what was awaited (`app/session_supervisor.cc:333`) and sent
  before the socket is put away (`:341`), which it can be when the host lets go of a
  runtime that lives on (`:196-201`), is failed by no disconnect of its own
  (`stranded`): its receipt stays pending until the end of a later connection fails
  it, if there is one. And a runtime whose queue to its clients overflows throws away
  outcomes with the rest (`app/session_server.cc:452-455`); the gap makes the host
  refresh its view, in which there are no outcomes, so a receipt can stay pending over
  a healthy connection (`unheard`). The end of the parent's time
  escalates also when a reply was just accepted
  (`app/session_worker.cc:304`), to no effect that lasts.
* *Activities.* `docs/TOOLS.md:121-124` says the row of a command left in the
  background takes its end. Three orders break that: a stop that lands between
  the call's look and `MoveForegroundToBackground`, or whose kill is refused,
  leaves the command stopped where nobody takes it (`Stranded`); a wait
  earlier in the same batch takes the end before the row is recorded; an
  interrupted wait drops the completions it took (`agent/activity.cc:1238`; the
  last two are `missed`). An interrupted poll says it leaves the bytes for the
  next read (`agent/activity.cc:559`) but has drained them, and the completions an
  interrupted wait drops take their output along (both `out.lost`); a later poll can
  still show it, as part of the transcript. "Output returned once is not returned
  again", says `docs/TOOLS.md:141`: a poll of a command whose end was told returns its
  whole transcript, each time (`agent/activity.cc:751-763`; `replayed`).
* *Turn.* An interrupt between reading `AbortRequested` and `ClearAbort`
  (`agent/tool_loop.cc:410-411`) is dropped, as is one that `Steering` clears with
  an insert's request (`core/steering.cc:41-46`); `SessionWorker` has the steps, and
  `RunsSettle` of `ScheduledRuns` excepts what it does to a stop (`dropped`).

## Fairness

* `FileLease`: each process takes its own next system call (`Work`), that is,
  the operating system schedules it. Nobody has to start, stop, sweep or die.
* `Mailbox`: the runtime's loops go on and end (`Loop`); a runtime is started
  for a session that has mail (`Start`: `Reach` does so for every send); and
  strongly, because a wait or a crash may intervene, the runtime delivers mail
  (`BeginDeliver`), takes up queued text (`PushUserInput`) and saves
  (`WriteSave`), as `RunChannel` does for every input and wake. Crashes are
  bounded, so one cannot undo progress for ever.
* `SessionWorker`: the application's thread runs (`Serve`, `Turn`) and a
  runtime waiting for its clients goes on (the loop of two seconds in
  `NextInput`). Strong fairness of a step that ends the turn stands for a model
  that stops calling tools, or for the step, token, time or cost limit: the
  default configuration sets no limit of steps, so this is an assumption about
  the model and not about the code. Strong fairness of a turn that ends without
  a plan stands for a person who stops refining one. No client is made to act.
  A rename is used once: clients that rename without end keep the slot taken at
  every checkpoint and could hold back the messages that wait to start a turn.
* `SessionCommands`: the threads that have something to do go on (`Threads`: a
  request's, the connection's reader and both steps of its end, the runtime's server, and a runtime that
  was told to close ends). The application and the parent owe nobody a step, and
  nobody has to break or restart anything.
* `Activities`: every thread goes on while it can (`Threads`): each waits with a
  deadline or for a wake that every change sends. Nothing makes a process end,
  print or let go of its output.
* `ScheduledRuns`: a host is started again (`HostStarts`: without one nothing
  is scheduled), its scheduler's thread goes on, a runtime reads its commands,
  says it is ready and publishes a turn's end (`Worker`), and retires when it has
  had nothing to do for long, once the host has let go of it (`LetGo`, `Retire`: this
  assumes no terminal stays attached). A turn need not heed its interrupt.
  A reader waits for the mutex that the scheduler takes again and again, so its
  fairness is strong. No turn or background command has to end, nobody has to act.
* `SessionMove` and `EventFanout` are checked for safety only.

## What is proved

`FileLeaseProofs`, `MailboxProofs`, `SessionWorkerProofs`, `SessionCommandsProofs`,
`EventFanoutProofs`, `ActivitiesProofs`, `ScheduledRunsProofs` and `SessionMoveProofs`
are checked by the TLA+ proof system, for any sets of processes, inodes, messages,
requests, clients, streams, commands, calls, tasks, runs, files and turns, any window,
queues and logs of any size, any number of slots, any plan of batches and any bounds.
From the modules' named assumptions on their constants:

**FileLease.** `TypeCorrect`, `MutualExclusion` (`OneHolder`),
`ServingReachable`, `LiveOwnerCorrect`, `Refinement` (`OwnershipSpec`). The
invariant says more than the properties: a process in a locked step holds the
flock of the inode it has open (`LockInv`); one in an owner's step has open the
inode the path names (`NameInv`), which is what excludes two owners; the socket
of a runtime that is about to listen or serves is its own (`SockInv`); and a
file names a process that published itself there and still has it open, or one
that no longer lives (`ContentInv`). `OneHolder` is
not inductive by itself: two processes could hold locks of two inodes, and only
`NameInv` says that they are one.

**Mailbox.** `TypeCorrect`, `NoMessageLost`, `DeliveredOnce`, `SaveCorrect`,
`FileKept`. The invariant: a save covers exactly what it marks (`SaveCovers`);
what the window keeps is in the conversation or on its way there
(`WindowCovers`); every message handed on and not yet saved still has its file
in `cur/` and its acknowledgement outstanding (`FilesCover`); and what is in the
conversation and not forgotten is in the window (`Remembered`), so that a
repeat is recognised. `NothingLost` is not inductive: whether removing a file is
harmless depends on what the save that is being acknowledged contains.

**SessionWorker.** `WorkerTypeCorrect`, `MessagesRunOnce` (`RunsOnce`),
`RetiredRuntimeOwesNothing` (`RetiredOwesNothing`), `WaitingRuntimeIsIdle`
(`WaitingIsIdle`), of `Spec`, which `FairSpec` only restricts. None is inductive: that
a message runs once depends on where it is before it does. The invariant follows it
from the client to the conversation: an input is in one place at a time (`Apart`) and
there once (`Once`), be it the slot, the controls behind it, Steering's queue, the mail
to come, the guidance taken and not yet applied, the application's hand, or the
conversation and what was recalled; what did not come as mail was accepted (`Known`),
so one that a client sends is nowhere yet; and what was accepted is handled or in one of
these places (`Accounted`). With the hand empty when the application waits, no controls
behind an empty slot (`Slotted`) and no queue when it lets go (`Idling`), nothing is left
to owe. The queue is filtered (`TakeMessages`, `TakeNextAutoStart`, `Recall`):
`Kept` says by their rank which entries stay, and `KeptFacts` that it keeps those and
no others, in their order, from the principle of the least number (`Subsequences`
holds the definition, which `ScheduledRuns` shares). TLC checked
this invariant on the run's instance before it was proved.

**SessionCommands.** `CommandsTypeCorrect`, `CommandsRunOnce` (`RunsOnce`),
`FirstReplyDecides` (`FirstReplyWins`), `PendingAwaited` (`PendingIsAwaited`), of
`Spec`, which `FairSpec` only restricts. That a command runs once follows from what
the runtime's log says of it: what is not in the log has not run there, or was
forgotten (`Ran1`), what waits in `controls` is pending in the log and has not run
(`Queued`), and a full log gives up completed entries only (`Roomy`), so a control is
never forgotten while it waits. A frame on its way names the runtime it was stamped
with, which is the request's own unless the connection was replaced (`Addressed`), and
whoever says "accepted" (master, host, log, a replay, an outcome on the wire) speaks of
a command that ran (`Truthful`).
`PendingIsAwaited` is the hard one: a replay sends the outcome it read, and if that is
"pending" and arrives behind the final one, the host shows a settled receipt as
pending that nobody awaits. The invariant counts, per request and connection, what is
still to come of it: commands on the wire, final outcomes on the wire, a pending entry
of the log, a replay that has read a final one. It is at most one, and two while the
request is awaited and its handler has sent (`Bounded`). So a replay that reads
"pending" finds the command and the log's entry counted: the request is awaited and
no final outcome is ahead of the "pending" (`Ahead`). The exceptions `overtaken` and `slipped` are the ones
the count does not hold for (`Exempt`); the third, `stranded`, is of what is awaited
while the connection ends or is gone: a command not in it has yet to be sent, since
only the time between the reader's two steps lets one out. The decision has a
conjunct of its own (`Decides`), and `Serving` says that a runtime that is gone
keeps nothing. TLC checked this invariant on the run's instance before it was proved.

**EventFanout.** `TypeCorrect` (with the bound on `pending` and the replay),
`NothingLostSilently` (`NoSilentLoss`), `StatusKnown` (`StatusIsCurrent`),
`StatusRises` (`StatusNeverGoesBack`). What a client will have seen is `out`, then
`batch`, then `pending`; one that joins gets the snapshot, the gap and the replay in
place of `out`. Nothing is said of these queues alone: a frame that overflows one
throws away what stood before it in any of them. So the invariant says of every
place a reader may be at (`FullPending`, `FullBatch`, `FullReplay`, `FullOut`,
`FullView`) that of each event still to come the first line that touches it carries
it or is a gap or a checkpoint beyond it (`Learns`: no line skips it before one
covers it, and one does), that events and versions rise along the lines (`FineN`,
`FineV`, `PastN`, `PastV`), and that behind a line with an old status, or for a
client that has one, there is the current one, a gap, or a question already asked
(`SaidQueues`, `SaidServer`, `SaidClient`). A client that joins again is the reason
for the rest: what it has had it drops by number, so numbers rise in its lines
(`Lined`), what is kept for those who join is on its way to a client or was had
(`Holds`), and a client that needs not be told anything knows what the lines it had
said (`Up`) and is not sent less (`Ahead`). A line read is the hardest step: a
checkpoint makes the client's knowledge that of `FullOut` at that line, an event
cannot be the wrong one because `FullView` rules out a skip, and a stale status is
followed by what `SaidClient` promises. `NoSilentLoss` is not inductive: whether the
next event is the expected one depends on every queue before it. TLC checked this
invariant on the run's instance before it was proved.

**Activities.** `TypeCorrect` (with the limit of commands in flight),
`TellsOnce` (`ToldOnce`), `GivesOnce` (`OutputOnce`). The invariant follows one
command through the lists: the call that starts it holds it alone and no other
call of the batch does (`PlaceInv`), which is what keeps its reservation its own
(`LimitInv`); an end that is taken and not yet told is with one open wait or
in `stopped_`, never with both (`ToldInv`); what was read is in the buffer, with
the one poll that drains it or the one wait that took it, or out (`PollInv`,
`CarriedInv`, `AccountInv`); output is thrown away with an interrupted call only
(`LostInv`), and a transcript is given again once its command's end was told
(`ReplayInv`); a session that is
drained was reaped, and the I/O thread had read all its process wrote itself by
then (`ReadInv`, with `IoInv`: the I/O thread does not know a session before its
call registers it); a session that somebody is stopping is never drained, so a
stop never takes what a wait could (`StopInv`); and a delivered session's buffer
is empty, also for a poll that was open (`GivenInv`). `OutputOnce` is not
inductive: that nothing is lost when an end is told depends on where every
chunk is before it. TLC checked the parts of the invariant on the run's
instance before they were proved.

**ScheduledRuns.** `NeverOverlaps` (`OneActivePerTask`), `StopHolds`
(`StopIsFinal`), `TypeCorrect` (`TypeOK`), `PromptSentOnce` (`PromptOnce`). Every step but two moves each record as `Follows` says, because
`UpdateScheduledRun` looks at the record again (`UpdatedFollows`): it never makes
one active, or a stopped one anything but interrupted, and `Follows` composes, which
is what a tick needs that writes up to three updates to one record. The two steps
that make or claim records look for an active one of the task. The invariant adds
the types these need: what is kept to be retried, and a session's result, is never
"queued". That a prompt is sent once is not inductive: the next pass would send it
again if a session could come back, or be made twice. The invariant `IInv` follows the
prompt: it is with the session, on its way, or sent, in one of these places only
(`Single`), and neither with a session whose runtime was sent an interrupt nor behind
that interrupt (`InOrder`); what is being prepared has no session and no prompt yet, and
was claimed, as were the runs whose sessions are to be connected or started; the queue
has queued runs only, each once (`Lined`); and a run that was not claimed has no
session, no update to be retried and no prompt (`Waiting`). The queue is filtered with
`Kept`, whose facts are proved here too, so no recursion over data is needed. That
`Run` is finite is assumed because the runs in flight and the faults of a tick are
counted. TLC checked `IInv` on the run's instance before it was proved, and with one
more act than the run has.

**SessionMove.** `MoveTypeCorrect`, `MoveLosesNothing` (`NothingLost`),
`NeverHalfAMove` (`NoHalfMove`), `MoveStopsOnlyAtALock` (`StopsOnlyAtALock`),
`OpenSessionsLeftAlone` (`LeavesOpenSessions`), of a family of any size. The
properties are not inductive: that a rename loses nothing depends on who has which
lease, and that the end of the journal leaves nothing half done depends on every
rename before it. The invariant says, by the host's place, which leases it has
(`Locks`) and which files have moved and are rewritten (`Phases`); that what the
other process saves is what is there, or that its file is `intruded` (`Loaded`);
that the assets of a turn are beside its session, or went ahead of it (`Assets`);
that with no open every session and its assets are in one place (`Undisturbed`);
and that only a host that dies after its note makes a second one possible
(`FewNotes`). That what the conversation had before, `Before`, is finite is assumed
because its turns are counted (`AddNote`). TLC checked this invariant on the
run's instance before it was proved.

Only model-checked: every liveness property
(`StartSettles`, `Delivered`, `Heard`, `RepliesSettle`, `RowsFinish`,
`RunsSettle`), since the
proof system does not reason about fairness of these specifications. The runs
check the same formulas the theorems name.
