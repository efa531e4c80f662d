--------------------------- MODULE SessionWorker ---------------------------
(***************************************************************************)
(* One session's runtime between its clients and its turns: WorkerChannel  *)
(* takes commands on the server's thread, under one mutex; the application *)
(* takes an input (NextInput), handles it, which for a message is a turn   *)
(* of Agent::Turn, and publishes the state it leaves (PublishState).  Both *)
(* threads share the queued guidance and the interrupt request of Steering *)
(* and the process's abort flag.                                           *)
(*                                                                         *)
(* The application is at the top of NextInput ("check"), in its poll       *)
(* ("wait"), past it ("woke"), letting go ("retiring"), about to deliver   *)
(* mail with an input in hand ("deliver"), at the start of a turn          *)
(* ("start"), preparing a step ("prepare", "check step"), in the model's   *)
(* call ("model") or the tools' ("tools", "tools done"), ending with prose *)
(* ("finish") or interrupted ("cut"), between taking guidance and applying *)
(* it ("apply"), after the turn ("ended"), with its plan shown ("plan"),   *)
(* saving ("save"), publishing ("publish"), or gone ("stopped").           *)
(*                                                                         *)
(* busy_, which is only shown, is left out; replies to decisions and       *)
(* receipts of repeated commands are not modelled here: a command reaches  *)
(* this module once.                                                       *)
(***************************************************************************)
EXTENDS Naturals, Sequences, FiniteSets, Subsequences

CONSTANTS
    Text,           \* the messages clients send: submit or steer
    Slash,          \* those that run a command and start no turn
    Mail,           \* what DeliverMail queues: mail, finished work
    Control,        \* the controls that need an idle session
    Reverting,      \* those that leave a note for the next turn
    Rename,         \* renames
    GuidanceLimit,  \* kGuidanceQueueLimit
    ControlLimit,   \* kControlQueueLimit
    None            \* no input, no command

Message == Text \cup Mail \cup Reverting
Accepted == Text \cup Control \cup Rename
Input == Accepted \cup Mail

ASSUME InputAssumption ==
    /\ Slash \subseteq Text /\ Reverting \subseteq Control
    /\ None \notin Input
    /\ Text \cap (Mail \cup Control \cup Rename) = {}
    /\ Mail \cap (Control \cup Rename) = {} /\ Control \cap Rename = {}
    /\ GuidanceLimit \in Nat /\ ControlLimit \in Nat

VARIABLES
    clients,        \* whether a client is connected
    closed,         \* closed_
    turnActive,     \* turn_active_
    input,          \* input_: the one slot
    inputCommand,   \* input_command_: the command the slot's input completes
    activeCommand,  \* active_command_: the one in hand completes
    controls,       \* controls_: waiting behind the slot
    woken,          \* a byte in the wake pipe
    queued,         \* Steering's queue
    requested,      \* Steering's interrupt request
    abort,          \* the process's abort flag
    inbox,          \* mail not yet delivered, as it came
    app,            \* what the application is doing
    current,        \* the input in its hand, None for a wake
    batch,          \* guidance taken and not yet applied
    resume,         \* where the turn goes on once it is
    cancelled,      \* RunCalls saw an abort that was no steering
    accepted,       \* history: inputs clients were told are accepted
    recalled,       \* history: messages recalled
    joined,         \* history: how often a message joined the conversation
    handled,        \* history: of those, the ones a checkpoint followed
    completed,      \* history: commands announced as completed
    unreported,     \* history: a turn ran that no checkpoint ended
    retired         \* history: the runtime stopped for being idle

slot == <<input, inputCommand, activeCommand, controls>>
steering == <<queued, requested>>
turnState == <<batch, resume, cancelled>>
clientSide == <<clients, accepted, recalled>>
outcome == <<joined, handled, completed, unreported, retired>>
vars == <<clientSide, closed, turnActive, slot, woken, steering, abort, inbox,
          app, current, turnState, outcome>>

Steer == [id : Message, later : BOOLEAN, auto : BOOLEAN]
Phase == {"check", "wait", "woke", "retiring", "deliver", "start", "prepare",
          "check step", "model", "tools", "tools done", "finish", "cut",
          "apply", "ended", "plan", "save", "publish", "stopped"}

TypeOK ==
    /\ clients \in BOOLEAN /\ closed \in BOOLEAN /\ turnActive \in BOOLEAN
    /\ input \in Input \cup {None}
    /\ inputCommand \in Text \cup Control \cup {None}
    /\ activeCommand \in Text \cup Control \cup {None}
    /\ controls \in Seq(Control) /\ Len(controls) <= ControlLimit
    /\ woken \in BOOLEAN
    /\ queued \in Seq(Steer)
    /\ Cardinality({i \in DOMAIN queued : queued[i].id \in Text})
          <= GuidanceLimit
    /\ requested \in BOOLEAN /\ abort \in BOOLEAN
    /\ inbox \in Seq(Mail)
    /\ app \in Phase /\ current \in Input \cup {None}
    /\ batch \in SUBSET Message
    /\ resume \in {"check step", "prepare", "ended"} /\ cancelled \in BOOLEAN
    /\ accepted \in SUBSET Accepted /\ recalled \in SUBSET Text
    /\ joined \in [Message -> Nat]
    /\ handled \in SUBSET Accepted /\ completed \in SUBSET (Text \cup Control)
    /\ unreported \in BOOLEAN /\ retired \in BOOLEAN

\* The runtime's first checkpoint is still to come; clients may be there.
Init ==
    /\ clients = FALSE /\ closed = FALSE /\ turnActive = FALSE
    /\ input = None /\ inputCommand = None /\ activeCommand = None
    /\ controls = <<>> /\ woken = FALSE
    /\ queued = <<>> /\ requested = FALSE /\ abort = FALSE
    /\ inbox = <<>>
    /\ app = "save" /\ current = None
    /\ batch = {} /\ resume = "prepare" /\ cancelled = FALSE
    /\ accepted = {} /\ recalled = {}
    /\ joined = [m \in Message |-> 0] /\ handled = {} /\ completed = {}
    /\ unreported = FALSE /\ retired = FALSE
-----------------------------------------------------------------------------
(* Steering *)

Entry(m, later, auto) == [id |-> m, later |-> later, auto |-> auto]
Ids(entries) == {entries[i].id : i \in DOMAIN entries}

Now(entries) == {entries[i].id : i \in {j \in DOMAIN entries : ~entries[j].later}}
Later(entries) == Kept(entries, {i \in DOMAIN entries : entries[i].later})
AutoStarts == Kept(queued, {i \in DOMAIN queued : queued[i].auto})
Without(m) == Kept(queued, {i \in DOMAIN queued : queued[i].id # m})

\* DeliverMail queues what has arrived.
Delivered ==
    queued \o [i \in DOMAIN inbox |-> Entry(inbox[i], FALSE, TRUE)]

(* the commands: one at a time, each under the channel's mutex *)

Command == clients /\ ~closed

Attach ==
    /\ app # "stopped"
    /\ clients' = ~clients
    /\ UNCHANGED <<accepted, recalled, closed, turnActive, slot, woken,
                   steering, abort, inbox, app, current, turnState, outcome>>

\* The variant that takes one more than the limit.
SteerOverLimit(m, later) ==
    /\ Command /\ m \in Text \ accepted
    /\ turnActive /\ Len(queued) <= GuidanceLimit
    /\ queued' = Append(queued, Entry(m, later, TRUE))
    /\ accepted' = accepted \cup {m}
    /\ UNCHANGED <<clients, recalled, closed, turnActive, slot, woken,
                   requested, abort, inbox, app, current, turnState, outcome>>

\* SteerLocked: a message during a turn is guidance.
SteerLocked(m, later) ==
    /\ Command /\ m \in Text \ accepted
    /\ turnActive /\ Len(queued) < GuidanceLimit
    /\ queued' = Append(queued, Entry(m, later, TRUE))
    /\ accepted' = accepted \cup {m}
    /\ UNCHANGED <<clients, recalled, closed, turnActive, slot, woken,
                   requested, abort, inbox, app, current, turnState, outcome>>

\* The variant that does not wake the application.
SubmitAsleep(m) ==
    /\ Command /\ m \in Text \ accepted
    /\ ~turnActive /\ input = None
    /\ abort' = FALSE
    /\ turnActive' = (m \notin Slash)
    /\ input' = m /\ inputCommand' = m
    /\ accepted' = accepted \cup {m}
    /\ UNCHANGED <<clients, recalled, closed, activeCommand, controls, woken,
                   steering, inbox, app, current, turnState, outcome>>

\* SubmitLocked: with no turn running it takes the slot, if that is free.
SubmitLocked(m) ==
    /\ Command /\ m \in Text \ accepted
    /\ ~turnActive /\ input = None
    /\ abort' = FALSE
    /\ turnActive' = (m \notin Slash)
    /\ input' = m /\ inputCommand' = m
    /\ woken' = TRUE
    /\ accepted' = accepted \cup {m}
    /\ UNCHANGED <<clients, recalled, closed, activeCommand, controls, steering,
                   inbox, app, current, turnState, outcome>>

\* QueueIdleControl: it waits behind the slot, or takes it (NextControlLocked).
QueueIdleControl(c) ==
    /\ Command /\ c \in Control \ accepted
    /\ ~turnActive /\ Len(controls) < ControlLimit
    /\ IF input = None
       THEN LET waiting == Append(controls, c) IN
            /\ input' = Head(waiting) /\ inputCommand' = Head(waiting)
            /\ controls' = Tail(waiting)
       ELSE /\ controls' = Append(controls, c)
            /\ UNCHANGED <<input, inputCommand>>
    /\ woken' = TRUE
    /\ accepted' = accepted \cup {c}
    /\ UNCHANGED <<clients, recalled, closed, turnActive, activeCommand,
                   steering, abort, inbox, app, current, turnState, outcome>>

\* A rename takes the free slot, also while a turn runs.
RenameCommand(r) ==
    /\ Command /\ r \notin accepted
    /\ input = None
    /\ input' = r
    /\ woken' = TRUE
    /\ accepted' = accepted \cup {r}
    /\ UNCHANGED <<clients, recalled, closed, turnActive, inputCommand,
                   activeCommand, controls, steering, abort, inbox, app,
                   current, turnState, outcome>>

\* InsertNow: what is still queued joins the running step, which is interrupted.
InsertNow(m) ==
    /\ Command
    /\ m \in Ids(queued)
    /\ queued' = [i \in DOMAIN queued |->
                    [queued[i] EXCEPT !.later = @ /\ queued[i].id # m]]
    /\ requested' = TRUE /\ abort' = TRUE /\ woken' = TRUE
    /\ UNCHANGED <<clientSide, closed, turnActive, slot,  inbox, app,
                   current, turnState, outcome>>

\* Recall: what is still queued is taken back.
Recall(m) ==
    /\ Command
    /\ m \in Ids(queued)
    /\ queued' = Without(m)
    /\ recalled' = recalled \cup {m}
    /\ UNCHANGED <<clients, accepted, closed, turnActive, slot, woken,
                   requested, abort, inbox, app, current, turnState, outcome>>

Interrupt ==
    /\ Command
    /\ abort' = TRUE /\ woken' = TRUE
    /\ UNCHANGED <<clientSide, closed, turnActive, slot, steering, inbox, app,
                   current, turnState, outcome>>

CloseCommand ==
    /\ Command
    /\ closed' = TRUE /\ abort' = TRUE /\ woken' = TRUE
    /\ UNCHANGED <<clientSide, turnActive, slot, steering, inbox, app, current,
                   turnState, outcome>>

\* Mail arrives, a child ends: the session wakes.
Arrive(m) ==
    /\ m \notin Ids(Delivered) \cup batch \cup {input, current}
    /\ joined[m] = 0
    /\ inbox' = Append(inbox, m)
    /\ woken' = TRUE
    /\ UNCHANGED <<clientSide, closed, turnActive, slot, steering, abort, app,
                   current, turnState, outcome>>
-----------------------------------------------------------------------------
(* NextInput *)

\* The variant that leaves the controls where they are.
TakeOnlyInput ==
    /\ app = "check" /\ ~closed /\ input # None
    /\ current' = input /\ activeCommand' = inputCommand
    /\ input' = None /\ inputCommand' = None
    /\ app' = "deliver"
    /\ UNCHANGED <<clientSide, closed, turnActive, controls, woken, steering,
                   abort, inbox, turnState, outcome>>

\* The slot's input is taken and the next control moves up (NextControlLocked).
TakeInput ==
    /\ app = "check" /\ ~closed /\ input # None
    /\ current' = input /\ activeCommand' = inputCommand
    /\ \/ /\ controls = <<>>
          /\ input' = None /\ inputCommand' = None
          /\ UNCHANGED controls
       \/ /\ controls # <<>>
          /\ input' = Head(controls) /\ inputCommand' = Head(controls)
          /\ controls' = Tail(controls)
    /\ app' = "deliver"
    /\ UNCHANGED <<clientSide, closed, turnActive, woken, steering, abort,
                   inbox, turnState, outcome>>

StopClosed ==
    /\ app \in {"check", "woke"} /\ closed
    /\ app' = "stopped"
    /\ UNCHANGED <<clientSide, closed, turnActive, slot, woken, steering, abort,
                   inbox, current, turnState, outcome>>

NoInput ==
    /\ app = "check" /\ ~closed /\ input = None
    /\ app' = "wait"
    /\ UNCHANGED <<clientSide, closed, turnActive, slot, woken, steering, abort,
                   inbox, current, turnState, outcome>>

\* The poll ends: the wake pipe, the abort's or the mailbox is readable.
Wake ==
    /\ app = "wait" /\ (woken \/ abort)
    /\ woken' = FALSE
    /\ app' = "woke"
    /\ UNCHANGED <<clientSide, closed, turnActive, slot, steering, abort, inbox,
                   current, turnState, outcome>>

\* What woke it was an input, or is to be looked for.
Look ==
    /\ app = "woke" /\ ~closed
    /\ \/ input # None /\ app' = "check" /\ UNCHANGED current
       \/ input = None /\ app' = "deliver" /\ current' = None
    /\ UNCHANGED <<clientSide, closed, turnActive, slot, woken, steering, abort,
                   inbox, turnState, outcome>>

\* Nothing to do for the idle period: it asks its clients to let go.
Idle ==
    /\ app = "wait" /\ ~woken /\ ~abort
    /\ ~closed /\ input = None /\ queued = <<>>
    /\ app' = "retiring"
    /\ UNCHANGED <<clientSide, closed, turnActive, slot, woken, steering, abort,
                   inbox, current, turnState, outcome>>

\* The variant that does not look at the slot again.
RetireBlindly ==
    /\ app = "retiring" /\ ~clients
    /\ closed' = TRUE /\ retired' = TRUE /\ app' = "stopped"
    /\ UNCHANGED <<clientSide, turnActive, slot, woken, steering, abort, inbox,
                   current, turnState, joined, handled, completed, unreported>>

\* None is left: it stops.
Retire ==
    /\ app = "retiring" /\ input = None /\ ~clients
    /\ closed' = TRUE /\ retired' = TRUE /\ app' = "stopped"
    /\ UNCHANGED <<clientSide, turnActive, slot, woken, steering, abort, inbox,
                   current, turnState, joined, handled, completed, unreported>>

StayUp ==
    /\ app = "retiring"
    /\ app' = "check"
    /\ UNCHANGED <<clientSide, closed, turnActive, slot, woken, steering, abort,
                   inbox, current, turnState, outcome>>

(* Application::RunChannel and Agent::Turn *)

\* Mail joins the queue; a message goes on to its turn, a control that reverts
\* files leaves a note, a command runs and may drop an interrupt (/compact).
HandleInput ==
    /\ app = "deliver"
    /\ inbox' = <<>>
    /\ queued' = IF current \in Reverting
                 THEN Append(Delivered, Entry(current, FALSE, FALSE))
                 ELSE Delivered
    /\ app' = IF current \in (Text \ Slash) \cup Mail THEN "start"
              ELSE IF current \in Slash THEN "save" ELSE "publish"
    /\ \/ UNCHANGED <<requested, abort>>
       \/ current \in Slash /\ requested' = FALSE /\ abort' = FALSE
    /\ UNCHANGED <<clientSide, closed, turnActive, slot, woken, current,
                   turnState, joined, handled, completed, unreported, retired>>

\* RunPrompt may refuse a turn: no model is set, a file cannot be read.
RefuseTurn ==
    /\ app = "start"
    /\ app' = "save"
    /\ UNCHANGED <<clientSide, closed, turnActive, slot, woken, steering, abort,
                   inbox, current, turnState, outcome>>

Join(ids) ==
    joined' = [m \in Message |-> IF m \in ids THEN joined[m] + 1 ELSE joined[m]]

\* The turn begins: its message joins the conversation, and an interrupt with
\* nothing to apply ends it there.
StartTurn ==
    /\ app = "start"
    /\ turnActive' = TRUE /\ unreported' = TRUE
    /\ Join({current})
    /\ app' = IF requested /\ Now(queued) = {} THEN "ended" ELSE "prepare"
    /\ UNCHANGED <<clientSide, closed, slot, woken, steering, abort, inbox,
                   current, turnState, handled, completed, retired>>

\* ApplyQueuedSteering, first half: TakeMessages takes what is not for later,
\* and the turn goes on at `next` once it is applied, with none at `otherwise`.
TakeMessages(entries, next, otherwise) ==
    /\ queued' = Later(entries)
    /\ \/ /\ Now(entries) # {}
          /\ batch' = Now(entries)
          /\ resume' \in next
          /\ app' = "apply"
       \/ /\ Now(entries) = {}
          /\ app' \in otherwise
          /\ UNCHANGED <<batch, resume>>

\* PrepareStep delivers mail and takes guidance.
PrepareStep ==
    /\ app = "prepare"
    /\ inbox' = <<>>
    /\ TakeMessages(Delivered, {"check step"}, {"check step"})
    /\ UNCHANGED <<clientSide, closed, turnActive, slot, woken, requested,
                   abort, current, cancelled, outcome>>

\* Second half: the request is taken with the abort, and the messages join.
ApplyQueuedSteering ==
    /\ app = "apply"
    /\ requested' = FALSE /\ abort' = FALSE
    /\ Join(batch)
    /\ batch' = {} /\ resume' = "prepare"
    /\ app' = resume
    /\ UNCHANGED <<clientSide, closed, turnActive, slot, woken, queued, inbox,
                   current, cancelled, handled, completed, unreported, retired>>

\* An interrupt, a limit or a budget ends the turn; otherwise the model is
\* asked, or after a compaction the step prepared again.
CheckStep ==
    /\ app = "check step"
    /\ \/ app' = "ended"
       \/ ~requested /\ app' \in {"model", "prepare"}
    /\ UNCHANGED <<clientSide, closed, turnActive, slot, woken, steering, abort,
                   inbox, current, turnState, outcome>>

\* The call was aborted, failed, is tried again, brought calls or prose.
ModelCall ==
    /\ app = "model"
    /\ IF abort THEN app' = "cut"
       ELSE app' \in {"ended", "prepare", "tools", "finish"}
    /\ UNCHANGED <<clientSide, closed, turnActive, slot, woken, steering, abort,
                   inbox, current, turnState, outcome>>

\* HandleFailedResponse: guidance resumes an interrupted turn.
Cut ==
    /\ app = "cut"
    /\ TakeMessages(queued, {"prepare"}, {"ended"})
    /\ UNCHANGED <<clientSide, closed, turnActive, slot, woken,
                   requested, abort, inbox, current, cancelled, outcome>>

\* RunCalls ends, and notes an abort that no insert asked for ...
RunCalls ==
    /\ app = "tools"
    /\ cancelled' = (abort /\ ~requested)
    /\ app' = "tools done"
    /\ UNCHANGED <<clientSide, closed, turnActive, slot, woken, steering, abort,
                   inbox, current, batch, resume, outcome>>

\* ... and clears it; guidance resumes an interrupted turn, calls the model may
\* not repeat end one that is not.
ExecuteToolCalls ==
    /\ app = "tools done"
    /\ abort' = (abort /\ requested)
    /\ cancelled' = FALSE
    /\ IF requested \/ cancelled
       THEN TakeMessages(queued, {"prepare"}, {"ended"})
       ELSE TakeMessages(queued, {"prepare", "ended"}, {"prepare", "ended"})
    /\ UNCHANGED <<clientSide, closed, turnActive, slot, woken, requested,
                   inbox, current, outcome>>

\* FinishWithProse: mail or guidance reopens the turn, which else is over.
FinishWithProse ==
    /\ app = "finish"
    /\ inbox' = <<>>
    /\ TakeMessages(Delivered, {"prepare"}, {"ended"})
    /\ UNCHANGED <<clientSide, closed, turnActive, slot, woken, requested,
                   abort, current, cancelled, outcome>>

\* RunTurns takes the request as the turn ends, which in plan mode puts its
\* plan to the person.
EndTurn ==
    /\ app = "ended"
    /\ requested' = FALSE /\ abort' = FALSE
    /\ app' \in {"plan", "save"}
    /\ UNCHANGED <<clientSide, closed, turnActive, slot, woken, queued,
                    inbox, current, turnState, outcome>>

\* Approved or sent back, it is carried out or revised in a turn that follows.
FollowPlan ==
    /\ app = "plan"
    /\ \/ app' = "save" /\ UNCHANGED <<turnActive, unreported>>
       \/ /\ turnActive' = TRUE /\ unreported' = TRUE
          /\ app' = IF requested /\ Now(queued) = {} THEN "ended"
                    ELSE "prepare"
    /\ UNCHANGED <<clientSide, closed, slot, woken, steering, abort, inbox,
                   current, turnState, joined, handled, completed, retired>>

\* Mail that came as the turn was ending; the save.
Save ==
    /\ app = "save"
    /\ queued' = Delivered /\ inbox' = <<>>
    /\ app' = "publish"
    /\ UNCHANGED <<clientSide, closed, turnActive, slot, woken, requested,
                   abort, current, turnState, outcome>>

\* What every checkpoint announces.
Checkpoint ==
    /\ handled' = handled \cup ({current} \cap Accepted)
    /\ completed' = completed \cup ({activeCommand} \ {None})
    /\ activeCommand' = None
    /\ current' = None
    /\ app' = "check"

\* The variant that starts the message and leaves it queued.
PublishKeeping ==
    /\ app = "publish" /\ input = None
    /\ Checkpoint
    /\ unreported' = (unreported /\ ~turnActive)
    /\ abort' = FALSE
    /\ \/ /\ AutoStarts = <<>>
          /\ turnActive' = FALSE
          /\ UNCHANGED <<input, woken>>
       \/ /\ AutoStarts # <<>>
          /\ input' = Head(AutoStarts).id
          /\ turnActive' = TRUE /\ woken' = TRUE
    /\ UNCHANGED <<clientSide, closed, inputCommand, controls, steering, inbox,
                   turnState, joined, retired>>

\* PublishState with nothing in the slot: the turn is over and reported, and
\* the oldest message that may start one starts the next.
PublishIdle ==
    /\ app = "publish" /\ input = None
    /\ Checkpoint
    /\ unreported' = (unreported /\ ~turnActive)
    /\ abort' = FALSE
    /\ \/ /\ AutoStarts = <<>>
          /\ turnActive' = FALSE
          /\ UNCHANGED <<input, queued, woken>>
       \/ /\ AutoStarts # <<>>
          /\ input' = Head(AutoStarts).id /\ queued' = Without(input')
          /\ turnActive' = TRUE /\ woken' = TRUE
    /\ UNCHANGED <<clientSide, closed, inputCommand, controls,
                   requested, inbox, turnState, joined, retired>>

\* PublishState with an input waiting leaves the turn and its guidance as
\* they are.
PublishBusy ==
    /\ app = "publish" /\ input # None
    /\ Checkpoint
    /\ UNCHANGED <<clientSide, closed, turnActive, input, inputCommand,
                   controls, woken, steering, abort, inbox, turnState, joined,
                   unreported, retired>>
-----------------------------------------------------------------------------
Commands ==
    \/ \E m \in Text : \/ SubmitLocked(m) \/ InsertNow(m) \/ Recall(m)
                       \/ \E later \in BOOLEAN : SteerLocked(m, later)
    \/ \E c \in Control : QueueIdleControl(c)
    \/ \E r \in Rename : RenameCommand(r)
    \/ Interrupt \/ CloseCommand \/ Attach
Turn == \/ StartTurn \/ RefuseTurn \/ PrepareStep \/ ApplyQueuedSteering
        \/ CheckStep \/ ModelCall \/ Cut \/ RunCalls \/ ExecuteToolCalls
        \/ FinishWithProse \/ EndTurn \/ FollowPlan
Serve == \/ TakeInput \/ StopClosed \/ NoInput \/ Wake \/ Look \/ HandleInput
         \/ Save \/ PublishIdle \/ PublishBusy
Retiring == Idle \/ Retire \/ StayUp

Next == Commands \/ (\E m \in Mail : Arrive(m)) \/ Serve \/ Retiring \/ Turn

Spec == Init /\ [][Next]_vars

\* A model stops calling tools and a person stops refining a plan.
\* The application's thread runs, a turn ends, and a runtime that asked its
\* clients to let go stops or goes on.  No client is made to send anything.
FairSpec == /\ Spec /\ WF_vars(Serve) /\ WF_vars(Turn)
            /\ WF_vars(Retire \/ StayUp) /\ SF_vars(CheckStep /\ app' = "ended")
            /\ SF_vars(EndTurn /\ app' = "save")
-----------------------------------------------------------------------------
\* No input is in hand and none waits: the application is in NextInput.
Waiting == app \in {"check", "wait", "woke", "retiring"} /\ input = None

\* A message runs once: it joins the conversation at most once, as a turn's
\* input or as guidance (TakeMessages, TakeNextAutoStart), and not at all once
\* Recall took it back.  And a checkpoint names as completed only a command whose
\* own input was handled, not one accepted while another's was (SendState,
\* active_command_).
RunsOnce ==
    /\ \A m \in Message : joined[m] + (IF m \in recalled THEN 1 ELSE 0) <= 1
    /\ completed \subseteq handled

\* A runtime that stopped for being idle (NextInput) has handled, put in the
\* conversation or given back everything it told a client it accepted.
RetiredOwesNothing ==
    retired => \A m \in accepted :
                  \/ m \in handled \cup recalled
                  \/ m \in Message /\ joined[m] > 0

\* While NextInput waits with an empty slot there is no turn, no guidance that
\* may start one and no control: none of them waits for a wake that only a
\* client would give (PublishState, NextControlLocked).  Every turn that ran is
\* reported ended (finished_turn, the parent's Report), also when a rename took
\* the slot while it ran.
WaitingIsIdle ==
    Waiting => ~turnActive /\ AutoStarts = <<>> /\ controls = <<>> /\ ~unreported

\* A message, control or rename a client was told is accepted is in the end handled,
\* read by a turn or recalled, unless the runtime is closed.
Heard ==
    \A m \in Accepted :
        m \in accepted ~>
            \/ m \in handled \cup recalled \/ closed
            \/ m \in Message /\ joined[m] > 0

\* "A stale click cannot interrupt another step"
\* (tests/unit/activity_sessions_test.cc): an input taken for a turn meets no
\* interrupt that an insert left behind without its message, when nobody
\* recalled that.
InsertStopsOnlyItsStep ==
    app = "deliver" /\ current \in Text \cup Mail /\ recalled = {}
        => ~requested \/ Now(Delivered) # {}
=============================================================================
