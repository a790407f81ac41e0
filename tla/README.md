# A verification project for Athena

Athena is a companion that talks in the panel of a browser or desktop window and acts on the
pages its person uses. It is one Python daemon (`src/src/athena`), the windows that send it HTTP
requests (`src/apps/desktop`), a bridge that pages use (`src/packages/athena-bridge`), and a
"brain" of markdown files with an index in SQLite. The TLA+ modules here model the parts of the
daemon where threads, crashes and people race each other, and the two stores of her window that
drive a conversation and its delegated tasks. Paths below are relative to `src/src/athena`, those
that begin with `stores/` or `lib/` to `src/apps/desktop/src`.

## 1. The system

### Components

| component | keeps | operations | what makes it correct | model |
|---|---|---|---|---|
| approval table, `core/approvals.py` | one row per card and an append-only event trail, in SQLite | create, resolve, expire_due, consume, decline_approved, backfill at open | an answer lands once, in time, and is never rewritten; the trail and the row agree | `Approvals` |
| decision gate, `lane/browser_lane.py`, `harness/hooks.py`, `harness/policy.py`, `daemon/decisions.py` | nothing of its own; reads the catalog, policy and the table | answer_decision: resolve, reopen, authorise, check the grant, spend, execute, record | a yes is acted on at most once, only while it is fresh and allowed, and the record tells the truth | `DecisionGate` |
| keyed locks, `daemon/server.py` | `_by_key`: a lock and its users per conversation or card | take, try_take, release | one holder per key, although lock objects come and go | `KeyedLocks` |
| projects, `spaces/*` and `daemon/server.py` | project files, stamped memories, `_erasing`, `_space_turns` | enter and leave a project, erase it | no turn beside an erase, the tombstone first and the file last | `ProjectSpaces` |
| delegated tasks, `daemon/tasks.py`, `daemon/routes.py` | `companion_task`, the lease and the turn door of a conversation | delegate, claim, begin_turn, finish, stop, sweep, harvest | each task ends once and its parent hears that end; one turn at a time; a stop stops | `Tasks` |
| turn loop and streams, `daemon/routes.py` | the lease a stream carries | run, turn_events, drain | leases and doors are given back however a turn ends | in `Tasks`, `ProjectSpaces` |
| brain store, `core/brain/store.py` | memory files and index rows | append, promote, erase, receive, rebuild | write-once memories, cited sources alive | append and erase in `ProjectSpaces` |
| run loop of her window, `stores/run.ts` | the exchange in progress, answers of pages still to be told, calls still to run, cards, a line of messages | send, interrupt, stop, answer, answer a sheet, re-ask, remote message and answer, reconcile | an answer of a page is told once, a stop holds, nothing runs before its card is answered, what was typed is run | `RunLoop` |
| task runner of her window, `stores/task-runner.ts` | one loop per running task, the claim loop, the sweep | hear a frame or a list, claim, bind, request, run on the page, rest on a card, report, close | takes every task up, sweeps none of its own, reports what is true | `TaskRunner` |
| memory replication, `peer/replicate.py` | a cursor per peer | pull, receive, conflict | nothing lost behind the cursor, no erase pulled back | planned |
| pairing, `peer/pairing.py` | windows, claims, tokens in memory | request, approve, claim, sweep | a token is handed out once, to the requester | planned |
| connector vault, `connectors/vault.py` | sealed tokens, generations | connect, refresh, probe, disconnect | one refresh at a time, no late answer revives a disconnected connector | planned |
| sleep cycle, `core/sleep/*` | cycle rows, a claim | admit, run, settle | one cycle at a time, the boundary never skips unread episodes | planned |

Not modelled, with the reason in `PROJECT.json`: the remote composer, the catalog, the ledger,
the vitals gate, chores and cases, the adopt interview, voice and senses, the engines, the
rest of the desktop app, examples, playbooks and the proving bench.

### How they interact

A turn (`POST /run`) takes the lease of its conversation, counts itself in a task when it has
one, and is then a generator that registers a turn door, enters its project and runs the lane.
A gated tool call files a card in the approval table. An answer (`POST /decisions/<id>`) takes
the lock of the card, enters the card's project and replays the call through the gate. Tasks are
delegated by a turn and run by a window as further turns; when one ends, its harvest is appended
to the brain under the project that delegated it. An erase of a project shuts turns and answers
out, writes a tombstone for the other PCs and removes every memory of the project.

All of it runs in request threads of one process over one SQLite file, whose writers use
`BEGIN IMMEDIATE`, so a **write transaction is one action** in every module, and what happens
between two transactions, or between a lock and a file, is a point where others get in. A crash
clears what the daemon holds in memory and keeps what was committed.

The window is one JavaScript thread: what a handler does from one `await` to the next is one
action, and every `await` (a request, a frame of a stream, a page's answer, a screenshot) is a
point where the person, another handler or another device gets in.

### What is hard

`PROJECT.json` lists the hazards at their lines. In short: two surfaces that answer one card,
an answer that races the card's expiry, a crash between spending a yes and acting on it, policy
that changes in between, locks retired while somebody is about to wait for them, a turn that
enters a project in the moment its erase begins, an erase that stops half way, a stop that lands
between two steps of a task's turn, a client that hangs up before the first frame, and a restart
over rows nobody runs any more. In the window: a stop between two calls of one turn, a stream that
breaks between a proposal and its card, an approval beside an exchange that ends, a message that
waits behind one that fails, frames that are missed or older than what the window knows.

## 2. The modules

**`Approvals`** is the table. `row` and `trail` are the two SQL tables; `pc`, `call` and `told`
are the callers' program counters, locals and what they were told. `Transition` is `_transition`,
the single place where a row changes: a conditional UPDATE and the event it appends.
`ResolveRead`, `ResolveCheck`, `ResolveWrite` and `Return` are the four points of `resolve`
between which other callers get in; `Consume`, `DeclineApproved`, `Sweep` and `Create` are one
transaction each. `Open` is the constructor with `_backfill`, over any row that an older
installation can have left (`LegacyRow`).

**`OneShotConsent`** says the promise without mechanism: asked, answered, taken back until
spent, spent once, acted on once. `Approvals` (for the table) and `DecisionGate` (with the
execution) are shown to implement it.

**`DecisionGate`** extends `Approvals` by what a thread does around `resolve`: take the card's
lock (`TakeCard`), reopen or withdraw (`_reopened`), authorise, check the grant, spend, execute,
and write the episode. Callers in `routed` hold the lock, the others hold an approval id and
call the lane directly, which ADR 0038 says the gate must survive; a behaviour has all of one kind
or all of the other. What becomes of the yes depends on the tool: one the daemon has an executor for
runs before its episode is written (`Execute`, `NoteYes`); a page's own tool is left to the page
(`LeaveToPage`, kept in `paged`), its episode is written first (`NotePage`) and the answer then
carries the execute instruction (`Instruct`), so that a failure between the two leaves a recorded
yes that never ran.

**`KeyedLocks`** follows `take`, `try_take`, `release`, `_release` and `_leave` block by block:
a block under `_guard` is one action, the lock itself is taken and released outside it. Each
lease may be released by `Parties` parties, as the stream and its generator do. **`CardMutex`**
is the mutex per key it implements, and the lock that `DecisionGate` assumes.

**`ProjectSpaces`** has the disk (`file`, `disk`, `index`, `erasures`, `tasks`), the daemon's
memory (`erasing`, `turns`) and threads. A turn asks (`space_open`), enters or is turned away
(`in_space`), writes memories as a file and then a row, and leaves; the erase runs through its
stages and may fail at each. **`SpaceWall`** is the reader/eraser lock that the set and the
counter are shown to implement.

**`Tasks`** has the table (`row`, `filed`, `begun`, `told`), the daemon (`daemon`, `swept`,
`lease`, `door`) and threads: `Check`, `TakeLease`, `BeginTurn`, `OpenDoor`, `RunTurn`,
`CloseDoor`, `EndTurn` are the points of `POST /run` in order, with `Busy`, `TurnRefused` and
`HangUp` as its other ways out; `Stop`, `StopDoor`, `Tell` those of a stop. The lease and the row
are what a turn asks for; the count of turns is left out. **`TaskLife`** is the life each task is shown to keep.

**`RunLoop`** is `stores/run.ts`. `me[h]` is a running invocation of a handler: where it waits
(`publish`, `capture`, `sent`, `busy`, `stream`, `page`, `called` inside an exchange; `row`,
`resolve`, `granted`, `acting`, `accept` while cards are answered; `halting`, `drain`) and its
locals (`mine` is the `generation` it began in, `carried` what its request took of `outstanding`).
`Request` to `Refused`, `Broken` and `EndOfBody` are `consume`, `Called` is the loop of
`exchangeOnce`, `ToolCall` to `Finished` the frames in `apply`, `RunCalls` and `PageAnswers`
`onPage`, `AskDaemon` to `ContractAccepted` `answerOne`, `Walked` the ends of `answer`,
`answerSheet`, `reask` and `remoteDecided`, and `Drain` is `drainRemote`. `reconcile` is the two
actions `ReadDecisions` and `Merge`, with the list (`listed`) in the daemon's answer between them.
`NotResolved` may take the card off the stack whatever the daemon holds, because `unknown_ref` is
also what it says of a card whose project is gone or being erased. `Gate` is the daemon's
`GateHook`, and `PeerDecides` an answer given on another device. `pushed`, `rode`, `excused` and
`ended` are history variables.

**`TaskRunner`** is `stores/task-runner.ts` with the list and the frames that `stores/tasks.ts` and
`lib/fleet.ts` bring it. `claim` is the claim loop, `swept` and `orphans` the sweep, and
`run[t]` the record of a task that runs here with the place where its loop waits; its `lost` are
cards the daemon knows no more, which leave the stack and of which the loop hears nothing
(`AnswerLost`). `Tick` is `tickRunner`: a loop that is over before it has awaited anything, for want
of room or of a daemon to ask (`NoApi`), leaves `claim` at "stuck", because its `finally` runs before
its promise is stored. The daemon is only `row`, the answers to a claim and the frames; `Tasks` has it in full.

The modules named `MC...` only give constants for TLC. Operators marked "Mutant" are not part of
any specification: each is a plausible bug in the definition that follows it, and putting it in
the definition's place breaks one property.

## 3. The runs

| run | question | distinct states |
|---|---|---|
| `approvals` | do the trail, the row and what callers are told agree, with two cards (one from before the event table), two callers, crashes and a clock | 315,154 |
| `gate` | with the card's lock and without it: at most one execution, of a fresh and spent yes that policy still allows; with it, one record that is true; the lock given back | 361,732 |
| `locks` | one holder per key, locks retired and made anew, no waiter left behind | 30,959 |
| `spaces` | the wall between turns and an erase, what goes first and last, an erase that ends | 110,461 |
| `tasks` | one turn behind one door, the row killed before its turn, one true end told, caps, no conversation busy for ever | 113,421 |
| `run_loop` | page answers told once, calls of a turn that do not outlive a stop, cards that stay while they wait and do not come back, answers carried on, a line that drains | 581,067 |
| `task_runner` | no task of its own swept, done only when nothing is left, no more runs than room, every task in line taken up while the claim loop works | 451,165 |

Five runs show that the code does not do what a comment of the repository says:

| run | the text | what the run finds |
|---|---|---|
| `spaces_orphan` | `spaces/routes.py:156`: never "memory stamped with a project nobody can name any more" | `decide` appends the words typed beside an answer after it left `in_space`, and a task's harvest is stamped unchecked, so an erase can end in between |
| `tasks_stop` | `daemon/tasks.py:31`: "a running row has its turn stopped through the turn door" | a stop between `begin_turn` and `turn_door` finds no door; the killed task's turn runs to its end |
| `run_unasked` | `stores/run.ts:1282`: a call that runs "on the page before the user has answered" is "the one thing this whole system exists to prevent" | only `turn.finished`, `turn.error` and a stop empty `proposed`; a stream that breaks between `tool.call` and `decision.requested` leaves the call there, and the end of the next turn runs it while its card waits |
| `runner_stuck` | `stores/task-runner.ts:212`: a call while a loop runs "makes it go round once more, so a task queued meanwhile is not left waiting" | a loop called while the window is full ends without an `await`; its `claiming = null` comes before the assignment that stores its settled promise, so every later call takes it for running and nothing is claimed again |
| `runner_kill` | `stores/task-runner.ts:40`: a task that was killed is aborted "and nothing reported: the daemon already wrote how it ended" | a `queued` frame or list from before the claim, heard after its reply, aborts the run as well; nothing is reported and the row stays running |

**Bounds.** Two callers and one card are enough for every race in the gate, because cards share
nothing; the table has a second card so that one may be old and a sweep may take several. The
clock (`MaxTime`) reaches one tick beyond the expiry of the last card that can be filed in time
(`Ttl` is 1). Three threads on two keys let a lock be held, waited for and retired at once; a
lock object that no one refers to is free to be "allocated" again, so three objects suffice.
One project is enough because projects share nothing but threads; three threads are a turn, an
eraser and a second of either, and two memories are one that goes and one that stays. Two tasks
with room for one to run and one to wait reach both caps; three requests are a holder of the lease,
a stop, and a finish or whoever else wants it (`tasks_stop` needs two).

In `run_loop` two handlers are an exchange and whatever gets in beside it (an answer, another
device's message, an interrupting send); one call is proposed, filed, answered here or elsewhere
and run; two typed lines and one remote message give a line of two behind a turn; one stop, one
retry and one continuation let each of their limits be passed or met. A second call
is followed under a state constraint (`Small` in `MCRunLoop`: one line typed, nothing from
elsewhere, no retry, no continuation and no list on its way, and a stop only while neither call has
a card; with one call, a list is on its way beside one line and no stop), which
keeps the sheet of two rows, the two calls of one turn and the stop between them. Once there was a
stop, two of the three messages are followed, the turn that was stopped and one after it.
`run_unasked`
needs two lines, one call and one handler only. In `task_runner` two tasks compete for one slot (the real caps are the
same on both sides), one card rests a task, one frame may be on its way (a longer backlog counts
as missed, which is what a reader of the list has to cope with anyway), and the window goes away
once; the daemon may be missing when the loop wants it (`NoApi`). `runner_stuck` does without the
cards, the reloads and `NoApi`: a full window is enough. `runner_kill` lets two frames wait and keeps
the window open.

**Symmetry** is used in `approvals`, `run_loop` and `run_unasked`, none of which checks liveness.
The caps on the clock, the callers, the memories, the stops (`MaxStops`), the frames (`MaxBus`) and
the reloads (`MaxReloads`), and the constraint `Small` of `run_loop`, are the only bounds; no
counter is cut off otherwise.

**Fairness.** `LockGivenBack`, `HandedOn`, `EraseEnds` and `TurnLockFreed` assume weak fairness
of the steps of a thread that has begun: the operating system schedules it, a SQLite transaction
returns, an executor has a timeout (twenty seconds), and the harness ends every turn in
`turn.finished` or `turn.error`. New requests, hang-ups chosen by clients, crashes and clock
ticks are never assumed to happen. `HandedOn` asks only that a stranded waiter does not stay
stranded: which waiter a freed `threading.Lock` wakes is not said, so none is promised its turn.
`EraseEnds` needs only the eraser to be fair, since a turn may talk to a model for as long as it
likes.

`QueuedMovesOn` assumes that the list is read again and again (`follow` reconnects after fifteen
seconds of quiet and reads it each time), that a claim which is asked infinitely often is answered
infinitely often (strong fairness of `DaemonClaims`, since any one may be lost), and that a run in
progress moves: turns end, `onTab` has a timeout, and the person presses the cards, in time or too
late. Without the last one a task may rest on a card for ever, and holds its slot by intent. It
excepts (`Forsaken`) a row that still reads running and has no runner (a lost reply to a claim, a
lost report of an end, a turn cancelled by a stop that names the conversation), which only the
daemon's restart, or the sweep of a new window, frees; a run that rests on a card the daemon knows
no more, of which `answerOne` tells its owner nothing; a window that is closing; and a claim loop
that has locked itself out. Without this last exception it is `NotLeftWaiting`, which `runner_stuck`
finds violated under the same fairness.

## 4. What is proved

Every invariant and every action property of the passing runs, and every refinement, is a theorem
of the specification for every value of the constants; the module of the theorems is named after
the module they are about. Each rests on an inductive invariant, which TLC checked on the run's
instance before it was proved.

`ApprovalsProofs` proves, for any number of cards and callers, any options and any times, the
type invariant and every safety property of the `approvals` run, that
a withdrawal names the yes it withdraws (`SupersedesTheYes`), that times never go backwards along
a trail (`AuditInOrder`), and that the table implements `OneShotConsent`. The assumptions are those named in `Approvals`
(`ApprovalsAssumption`): options are tokens, a card has some life, the clock starts after zero.
The properties are not inductive by themselves. `RowIsHead`, for example, survives a withdrawal
only if the trail of an approved row is exactly filed and approved, and the time of an answer is
right only if the caller's earlier check still says something about the row it writes. The
inductive invariant `IInv` therefore says of each card in which of four shapes its row and trail
are together (`Asked`, `Settled`, `Spent`, `Withdrawn`), which cards may have no trail yet
(`Untold`), and of each caller in the middle of a resolve what it still knows (`CallOK`). The
proof has one lemma per action; the transactions share `TxnKeeps`, which says that a transition
takes a card from one shape to another. Each theorem then follows from `IInv` alone, and the
refinement (`ConsentKept`) from `IInv` and one lemma on how a card's stage can move.
`OneCallerTold` is an induction of its own (`ToldKept`): appending one event adds one to what is
counted of its kind and nothing to the rest, and a rebuilt trail counts nothing.

`DecisionGateProofs` proves the four invariants of the `gate` run and that the gate implements
`OneShotConsent` with the execution in it, under `ApprovalsAssumption` alone: any cards, callers
and options, callers with the lock or without. It does not use the trail. It starts from what no writer
can undo (`Onward`): a filed card keeps its expiry, an answered one stays answered, a spent,
declined or expired row stays as it is. Because of that, what a caller found true of its card
survives the writes of the others, and `GInv` can say by the place a caller has reached what it
knows: its yes is its own and was in time (`Fresh`), its card was allowed since it began
(`Opened`), the spend it executes for is its own and nothing has run for it (`SpentOnce`), the
verdict it is about to record is true (`Recorded`: a spent yes that ran, or that was left to a page;
a no that stands). Only `OneTrueRecord` needs the lock:
`Serial` says that behind it a card has one answer past the queue, with nothing recorded before.

`KeyedLocksProofs` proves the type invariant, mutual exclusion, the count of users (`UsersCounted`) and the refinement to
`CardMutex` for any keys, locks and finite set of threads. Mutual exclusion rests on the count:
an entry is forgotten only when its count is zero, and while it is there every user of the key
refers to one lock object. `IInv` ties the two: the user count of a key is the cardinality of
its users, all users of a key share its lock, and a lock is taken exactly when one of them holds
it or has yet to unlock it. The lemmas on cardinalities come first, then one lemma per action.

`TasksProofs` proves every safety property of the `tasks` run, for any finite set of tasks, any
threads and any caps, and that `Tasks` implements `TaskLife`. That a parent hears of one end at
most is the hard part: the thread that ends a row tells of it in a later step, and so does a boot
after a sweep. `IInv` therefore says that a task some thread has still to tell of has ended and
is untold (`ThreadOK`), that a task the sweep has still to tell of is one of a booting daemon,
when no thread is on its way (`TaskOK`), and that no two threads are to tell of the same task
(`OneTeller`). The rest of it ties the lease and the door to the thread in the turn. `CapsHold` is
its own induction, by the cardinality lemmas.

`ProjectSpacesProofs` proves every safety property of the `spaces` run, and that the set of
erasures and the counters of turns implement `SpaceWall`, for any projects and memories and a
finite set of threads (`SpacesAssumption`). The books balance because each thread that counts is in
the place it is counted for, so `IInv` has the balance itself, one eraser per project
(`OneEraser`), and of each thread where it is and how far its erase has come (`ThreadOK`): past
the tombstone the project is among `erasures`, and past the files nothing doomed is on disk, which
is what `FileGoesLast` and `NothingGoesUntold` read off.

`TaskRunnerProofs` proves the invariants of the `task_runner` run under `TaskRunnerAssumption`.
That a window runs no more than the cap rests on the claim loop (`Room`: while a claim is asked or
read there is room for one more; a loop that is over or stuck needs none); `SweepSparesOurs` on an order (`SweepFirst`: no claim is made
and nothing runs before the sweep is over); `DoneLeavesNothing` on what the record of a run may
hold at each place of its loop (`RunOK`).

`RunLoopProofs` proves the five invariants of the `run_loop` run and the action property
`NoCardAstray`, for any handlers, lines, other devices' messages and bounds, and a finite set of
calls (`RunLoopAssumption`: what one window runs of calls is finite, and a sheet is walked to its
end). Its invariant has one part for each question. That answers are told once (`Kept`, `Fresh`)
needs that no two handlers hold the same call and that a request which goes out empties what
waits; `StopHolds` (`Stopped`) that what a stop ended is on no handler's list and is proposed to
nobody, though handlers of an older generation are still under way (it is about the calls of a turn, see
section 5); `AnswersAreCarried` (`Owed`) and `QueueDrains`
(`Drained`) that while something is outstanding or waits there is a handler under way that will
look at it. These last two are the safety half of a promise whose other half is fairness: they
show that the loop can never come to rest in the wrong place, not that it comes to rest.

**Only model-checked.** Liveness: `LockGivenBack`, `HandedOn`, `EraseEnds`, `TurnLockFreed` and
`QueuedMovesOn`. TLAPS has no reasoning about ENABLED here, which fairness is defined by. The
five runs that expect a violation state what the code does not keep, so there is nothing to prove
of them. What a recursive function computes for every input would also be out of reach, but the
modules have none.

## 5. What is left out of the modelled parts

Texts: titles, episodes, reasons and answers count only as far as they decide something.
`DecisionGate` takes the catalog and policy together as one set of allowed cards that changes at
any time. `ProjectSpaces` leaves out the chores that an erase unlinks (a chore whose project is
gone runs in core, `daemon/routes.py:773-791`), facts and procedurals (they are stamped and
erased like episodes), and what a paired PC does. `Tasks` leaves out `task.changed`, which no
transition reads, the vitals gate, which can only make a claim find nothing, the tab a turn
binds, and the count of turns with the brief that opens the first (`begin_turn` counts a turn before
its stream, so one that never runs takes the brief with it). The stop of a turn is the mark on its door; how the mark reaches the step the turn waits
in (`TurnDoor.bind`, `drain`) is planned.

`RunLoop` leaves out texts, captures, the snapshot of the tabs and their trust and taint lists
(they can only refuse a call, and any call may be refused), page timeouts with their late answers,
the setup conversation, the cards of delegated tasks, and clearing a conversation. Hops between
promises that wait for nothing outside are not points where others get in. One list of waiting cards
is on its way at a time. A page that moved is a refusal that may come at any time.

`StopHolds` is about the calls a turn leaves to a page, and is silent about a sheet: `answerSheet`
does not look at the generation, so rows that were ticked before a stop are still approved and run
after it, in the code (`stores/run.ts:2129`) and in the model (`Past`), although the line the stop
writes says "Nothing more runs until your next message" (`stores/run.ts:1898`). `NoCardAstray` lets a
card go whose answer the daemon refused with `unknown_ref`, though its row may still wait; and it
excepts the frame that files a card, which may come after the card was answered from a list.

`TaskRunner` leaves out which tab a task works on, so it cannot show the hazard at
`stores/task-runner.ts:434`: two tasks may bind the same tab, because `run.tab` is set only once
the new tab and its tools are there. An answer to a card reaches the task in the step it is given, or
never. A window closes or is loaded anew; a runner that is stopped and started again in the same
window, with a claim of the first still in flight, is not modelled.

**Share of the code.** Most of the repository's lines are views, scenes, figures, example apps
and design references in TypeScript and JavaScript, with no state but what they show; the
program's decisions sit in the daemon (Python) and in a few stores of the window. The modules map
the stores with the most control; a state model of the views would only restate them.

## 6. Plan

Extending the model, in this order:

1. `Replication` over two brains: tombstones, `receive_file`, deferral and the cursor
   (`peer/replicate.py`, `core/brain/store.py`), with an abstract write-once store that every
   brain approaches. Open question for it: the tombstone is written once (`store.py:1082`), so an
   erase that stopped half way and is pressed again later keeps the first time.
2. `ConnectorVault`: refresh guards and generations (`connectors/vault.py:578-760`).
3. `Pairing`: windows, the one claim, expiry, pairing back (`peer/pairing.py`).
4. `TurnDoor`: a stop against the steps of a turn (`daemon/routes.py:421-500`).
5. `SleepAdmission`: the claim, the ladder and the boundary after failures.

Proving: the safety of the modelled parts is proved. What comes next is to state once the lemmas
the proofs share (a thread that steps leaves the others alone, a counter that follows a set of
threads, an append to a sequence), and to prove of each module of the list above its type
invariant, its inductive invariant and its refinement as it is added.
