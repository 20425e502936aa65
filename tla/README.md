# GCG simulator: TLA+ models and proofs

This directory holds a formal model of the Rust workspace under `crates/`: TLA+ modules for
the parts whose correctness depends on order, interleaving, failure or long sequences of
steps, TLC runs that check them on small instances, and TLAPS proofs for every instance.

Paths below are relative to the repository. `PROJECT.json` maps every modelled definition to
its source lines, and lists the runs, the hazards, the mutants that show each property can
fail, the findings and the theorems.

- [The system](#the-system)
- [What is modelled](#what-is-modelled)
- [Runs and bounds](#runs-and-bounds)
- [Where the documentation and the code differ](#where-the-documentation-and-the-code-differ)
- [Proofs](#proofs)
- [What is not modelled](#what-is-not-modelled)
- [Plan](#plan)

## The system

The simulator plays a trading-card game between two AI players many thousand times and
reports who wins. A benchmark is a list of matches, a match one or three games, a game a long
sequence of decisions; each decision may start a tree search of its own.

```
 gcg-data  (cards, decks)          gcg-effects (card programs, Registry)
      \                              /
       gcg-engine: GameState, apply / advance, effect interpreter, triggers
             |  pending decision            ^ action
             v                              |
       gcg-ai, gcg-search: Agent::choose  (search forks jobs on the same pool)
             ^
 gcg-core::pool (threads, fork_join, Cancel)
             ^
       gcg-runner: drive -> play_game -> play_match -> run_matches -> run_resumable
             |                                                         |
             v                                                         v
       reports/set.rs (report directory)                     checkpoint.ndjson
             ^
       gcg-cli, gcg-eval (command lines, seed ledger); SIGINT sets one flag, Cancel
```

| component | state | operations | what is hard, what makes it correct |
|---|---|---|---|
| thread pool (`gcg-core/src/pool.rs`) | job queue, claim counter, lowest failure, fork counters, scratch lists, result channel | `map_indexed`, `fork_join`, cancellation | Real threads. The result must be the serial one under any schedule; no lost wakeup; every fork complete when joined |
| turn procedure and battles (`gcg-engine/src/game.rs`, `battle.rs`, `core.rs`) | `GameState`: step, turn, battle stack, zones, damage, pending decision, winner | `new_game`, `apply`, `advance`, rules management | Long sequences: effects between any two steps of a battle, a result found inside a row that goes on. A finished game stays finished; a decision sees a settled board; every game ends |
| effect interpreter and triggers (`interp/`, `core.rs`, `game.rs`) | frames, pending triggers, batches, once-per-turn keys, RESOLVING zone | run a frame, emit an event, queue, form a batch, order, start, resume | Ordering and stale checks: a trigger queued twice before it resolves, a host that moved. No trigger lost, order of the rules kept, once per turn |
| checkpoint and `--resume` (`gcg-runner/src/checkpoint.rs`, `run.rs`, `gcg-eval/src/benchmark_opts.rs`) | `checkpoint.ndjson`, the run's match table, the sink's mutex | load, cut, create, append, put the reports in place | Crashes in the middle of a line, disk errors, several workers on one file, another configuration, a stop while the reports take the checkpoint's place. No finished match repeated or mixed, none lost but in the window between two renames |
| report set (`gcg-runner/src/reports/set.rs`) | report directory, staging directories, temporary files | swap by two renames, update in place | Crash between two renames, a failing call, two processes. A reader sees one set; some set survives |
| match sequencing (`gcg-runner/src/matches.rs`, `game.rs`) | games, points, next chooser | play a game, decide, give the choice | Points go to decks and choices to seats, which alternate |
| seed ledger (`gcg-eval/src/ledger.rs`) | `seed-ledger.json` | check role, read, append, replace | Processes without a lock |
| game runner, observer, records (`gcg-runner/src/game.rs`, `instrument.rs`, `records.rs`) | one game's actions and statistics | ask, observe, apply, record | Interrupt and superseded checks between decisions |
| replay (`replay.rs`, `reports/replay_doc.rs`) | none | re-apply recorded actions | Determinism |
| results and statistics (`reports/`, `analysis.rs`) | none | pure functions of the records | Floating point |
| derived view (`gcg-engine/src/view/`) | a cache over `GameState` | recompute, query | Forty handlers change what it reads; none may forget `touch`, unless the key changes too |
| zones and knowledge (`gcg-engine/src/core.rs`, `state.rs`, `interp/`) | zone lists, card instances, known bits, pairs, history | move, deploy, pair, pay, draw, look, arrange, shuffle ... | Each handler is several moves; a card is listed once, in its zone, and who knows it follows it |
| information sets (`gcg-engine/src/observe.rs`) | none of its own | pools of hidden cards, determinize | The pools are exactly the hidden cards; the worlds an observer gets do not depend on the truth |
| search (`gcg-search/src/`) | trees, visit and availability counts, worlds, trees kept for the next decision | select, walk, back up, extend, merge roots, keep | The visits of a root move index its worlds, also when walks re-enter nodes, an iteration counts a move twice, or a kept tree brings visits of its own |
| AI players (`gcg-ai`, `gcg-ai-reference`) | none between decisions | choose | Floating-point heuristics |
| card data, programs (`gcg-data`, `gcg-effects`) | none | parse, validate | Sequential |
| core utilities (`gcg-core`: rng, pyjson, stable_hash ...) | generator state | arithmetic | Bit-exact formats |
| command lines, evaluation tools, differential gate | none | parse, print, compare | I/O |
| Python oracle (`src/gcg_sim`) | - | - | The reference the Rust engine is compared with |

How they interact: the runner calls `apply`, which runs `advance` until the next decision; the
decision goes to an agent, which may call `fork_join` on the pool that runs the match itself.
`map_indexed` runs matches in index order and returns the lowest failure; `run_resumable`
gives it a closure that appends a line per match under a mutex. When the pool has returned,
`write_report_set` replaces the report directory, and with it the checkpoint inside.
SIGINT sets a flag that the pool, the drive loop, the search and the report writer read at
their own times. Nothing protects the report directory or the ledger from a second process.

## What is modelled

Variable, operator and action names are those of the code where TLA+ allows it. Definitions
headed "Mutant" are plausible slips of the definition below them; no specification uses them.

### Thread pool: `PoolOutcomes`, `PoolContract`, `SerialPool`, `Pool`, `MapIndexed`

`PoolContract` is what a caller of `map_indexed` relies on: a progress count that rises by
one, and one outcome that depends only on the tasks, unless somebody interrupts the run or a
task panics. `SerialPool` is the path with one thread, `Pool` the parallel one, and
`MapIndexed` the call itself, which takes one or the other by `min(threads, n)`; it is shown to
implement the contract. The two paths share the tasks, the flag, the progress count and the
outcome.

A step of `Pool` is one critical section of the queue mutex, or one access to a shared atomic
with the private work before it. Two sections are split, because an atomic that others write
without the lock is read in them: `CheckClaims`/`Claim` (`stop_claiming`, then `fetch_add`)
and `JoinCheck`/`JoinWait` (`is_done`, then the condition variable). The tasks are chosen in
`Init`: each forks some times, one of its jobs may panic, and it succeeds, fails or panics. A
task that sees `superseded` or the interrupt may stop with any error. `notify_all` wakes every
sleeper (`Awake`); waits may also end spuriously.

### Game: `Game`

`st` is `GameState`, cut to what the control flow reads. One step is one iteration of
`advance`, one instruction of an effect, or one answer (`apply`). The rows of the turn
procedure are operators from a state to the set of states they may produce, under the names
of the code; `Row` runs rules management before each and skips the row when that ended the
game or queued an effect, as `advance` does. What a card's text does is nondeterministic
within what the interpreter lets it do: draw, destroy, damage, move, change a battle's target,
tie an effect to the battle, or ask a player.

Abstractions: HP is one constant, damage any amount up to it; hands are not counted (whether
the hand step pushes a frame is nondeterministic); which attacks are legal for a card's text is
nondeterministic; a damage-only battle is one step, since nothing interrupts it; an effect that
holds rules management is the choice to skip it; all of the effect machinery is the Boolean
`effects`, which is `~Idle` of `Triggers`.

### Triggers: `Triggers`

The inside of `effects`: frames, events, the queue, batches, the order among simultaneous
triggers, once-per-turn keys with the `zone_seq` of the host, and the RESOLVING zone. A
program's instructions are nondeterministic: each may emit an event that queues triggers, move
a host, take the frame's own card elsewhere, ask, play a Command inside the effect, or push a
sub-frame (`play_sub`, `activate_main_sub`) that runs before its parent goes on. Three history fields are
there for the properties: `acts` (keyed frames that acted this turn), `event` and `level` of a
queued trigger.

### Board and information sets: `Board`, `Observe`

`Board` has the cards of one player: zone, list position, face, rested, damage, pair, and which
of the two players knows each; the history; the kept derived view; the running battle and
lasting effects as far as the view's key and `touch` depend on them. There is one operator per
handler (about fifty: `h_deploy_card` with its excess and variant faces, `pair`, `pay_generic`,
`h_to_deck` in its three ways, `arrange`, `destroy_shields`, `redraw`, ...), built like the code
from `move_card`, `remove_from_game`, `record` and `touch`. A handler is one step, but for the
ones that wait for an answer (excess cards, the order of cards put into a deck): they leave a
`task`. Card texts are data, so any handler may follow any other. `derived` keeps a view at any
query and inside the handlers that call it. The other player's cards are the same model.

`Observe` has the pure operators over such a state: `unknown_pools`, `fit`, `determinize`,
`exact_pools` and `determinize_exact`, with every random layout in place of the generator.
`permute_hidden` is the other truth an observer cannot tell apart.

Abstractions: a view is the tuple of everything a computation of the view may read, not its
result; bases and the removal area behave as the battle area and the trash; `zone_seq` is in
`Game` and `Triggers`; damage is 0 or 1.

### Search and match: `Search`, `Match`, `Play`

`Search` is one agent's decision: `take_for` and the trees it may start from, iterations (root
move, world, walk, rollout, backup), the phases with the close-call test, the kept trees; and
between decisions, what the game does until the next one. A tree is nodes with a child per key,
each with `visits`, `avail` and its node, and the transposition table. `path`, `walked`,
`counted` and `k` are the running iteration's. `cfg` chooses the mechanisms that change the tree:
transpositions, the visited set of the backup, observation keys, subtree reuse, root trees, the
error leaf.

`Match` is the sequence of games: points by deck, choices by seat. `Play` is both: each game has
agents of its own (`NewAgent`), an error or an interrupt ends the match (`Stops`).

Abstractions: positions are what the searcher can observe, `After` what can come next; values,
priors and rollouts are left out, so any unvisited move may be tried first and any visited one
chosen; root trees are independent jobs of `Pool`, here one after the other; the flag is seen at
the head of an iteration. Macro subsets of multi-card choices, prior worlds and several rollouts
of a leaf are not modelled.

### Checkpoint: `ResumeContract`, `Checkpoint`

`ResumeContract` is what `--resume` keeps: finished matches of one configuration only grow, and
the reports hold every match of one configuration. When all are finished, the directory may be set
aside (`SetAside`) for the one with the reports (`TakePlace`); what is aside is put back or
dropped (`PutBack`, `Drop`). Dropped before the reports are there, the finished matches are lost:
that window is in the contract because it is in the code, and it is the only one.

`Checkpoint` has the file as complete lines and a torn end, the run, the workers and the sink's
mutex; a line is written in two steps, and a kill can come between any two steps. The pool is what
`Pool` shows of it: claims in order, an error stops only higher matches, nobody returns before the
workers are done. The reports are put in place as `write_report_set` does: `MoveOld`, `MoveNew`
and `RemoveOld` with `Restore` for a second rename that fails, or `Place` and `RemoveStale` in a
directory that is updated in place; each call may fail, and after a kill nobody looks at what is
under the `.old` name (`Nowhere`), since the next run has another process id. Which of the two
ways is taken, and the single files, are `ReportSet`'s subject. A record is a function of the
configuration and the match index, which is what determinism of the engine means here; the JSON
round trip of a record is taken to give the record back. A kill is that of a process: what it
wrote stays.

### Report set: `ReportSet`

One step is one file-system call of one process. `foreign` chooses the mode: the swap with two
renames, or the update in place. Any call may fail (`Fail`, `TempFails`, `ClearFails`), also those
of a clean-up, whose errors the code ignores: the staging directory or temporary files of an
interrupted process then stay. A process may be killed before any call, two may write to one directory, and a user may save a file into it at any moment (`Save`):
from then on every look finds it and updates in place. `saved` follows that file through the
renames, `late` remembers that a process was past its look when it came. `remove_dir_all` removes
entry by entry. Removing a staging directory is one step, and the interrupt check after a file
is merged with its write. Bound: an update in place does not begin while another process swaps.

### Seed ledger: `SeedLedger`

Role check, games and report, then `record`: read, write a temporary file, rename. Every step
of several processes interleaves, may fail, or be the last before a kill. `alone` is history.

## Runs and bounds

| run | states | what it shows |
|---|---|---|
| `pool_fork` | 1.4 million | Three workers, three tasks that fail, fork two jobs, or fork one that panics (two of them at most fork), SIGINT and a spurious wakeup: lower tasks finish, forks are complete, no wakeup is lost, a half-updated scratch never reaches a result |
| `pool_interrupt` | 1.2 million | `map_indexed` with one thread and with two; SIGINT and a spurious wakeup anywhere: the contract, and the call returns |
| `game` | 3.4 million | Two turns, three Units, a Base, a Blocker, First Strike, a redirection, an indestructible Unit, three effect instructions anywhere |
| `triggers` | 409 thousand | Two hosts with three triggered abilities, a Burst, a Command, sub-frames, once-per-turn keys, two events, two turns: order, loss, use, and that frames, triggers and batches run empty |
| `board` | 234 thousand | Three small games, every handler in every order: cards are where they are listed, no kept view is stale, knowledge follows sight, and the worlds of either observer are exactly the possible ones |
| `checkpoint` | 961 thousand | Up to five runs of two configurations, four matches on three workers, three kills, two disk errors, interrupts, reports swapped in or placed: implements `ResumeContract`, and every started run ends |
| `report_set` | 417 thousand | Two processes, of which one may never begin, both modes, a user's file, a kill and two failing calls, clean-ups among them |
| `play` | 2.6 million | Every match of both formats from both seats; in one of them a seat searches twice, under four sets of mechanisms, with errors and interrupts anywhere |
| `seed_ledger` | 9 thousand | Four runs, one a rerun, one refused, with a kill and a failing call |
| `checkpoint_stays`, `report_set_fails`, `ledger_lost` | - | The three findings below |

The bounds, and why they are enough:

- Pool: the interesting orders need two tasks that fail in either order and one below them,
  hence three tasks; nested help needs two forks at once, hence two workers and two jobs per
  fork. `pool_fork` adds a third worker and lets two tasks at most fork, so that a notify
  has several sleepers to wake. `pool_interrupt` has two workers, since liveness is checked
  without symmetry. `MaxForks` = 1 because a second fork starts from the state the first
  leaves. `SpuriousWakes` and `MayInterrupt` are one each.
- Game: two turns give each player one as active player and one as standby; `TurnLimit` and
  `MaxActions` are real options of a game. `MaxEffects` bounds the instructions of card texts:
  three reach a Unit that leaves, comes back and is targeted again within one battle.
- Triggers: two events of up to two triggers each are what a nested batch with something left
  below it needs; two abilities of one host give its player an order to choose. `MaxMoves` is 1: a host is the object it was, or another one.
- Checkpoint: four matches on three workers so that lines come in every order with one match
  left; five runs and three kills so that a torn line is cut, appended to and torn again; two
  disk errors so that the second rename and its undo can both fail.
- Board: a game is `Game(main, resources, tokens, turns, battles)`: three main cards in one
  turn; two main cards, two turns with battles and lasting effects; two main cards, a resource
  card and a token. Two Units and a Pilot (which has a Unit face) make hidden cards that can be
  told apart and ones that cannot. One recorded event a turn, a hand, a Shield and a battle slot
  of one each: so excess cards, pairs and a full hand happen with three cards.
- Search: a budget of six iterations gives a root child visits, a walk that comes back to the
  root and a close call; the second search has one, enough to use or refuse a kept tree.
  `Extension` and `MaxActions` are 1. Four positions: the searcher's main decision, a choice of
  targets that may lead back to it, and the opponent's action step at two places, so that keys
  coincide and a pass stays at its node. Only match 0 of a best of three searches (`Searched`);
  the other matches are sequences of games.
- Report set, ledger: kills and failing calls are bounded by one or two each because the code
  has no loop over failures; the proofs have no such bound.

`CHECK_DEADLOCK FALSE` is used because every one of these programs ends: a call
returns, a game is over, a run exits. That a run does not stop before its end is what the
liveness properties (`Terminates`, `EffectsSettle`, `RunEnds`) say.

Fairness: `MapIndexed` assumes that each thread is scheduled while it can go on (weak fairness
per worker, for the coordinator and for the inline loop), and nothing of SIGINT or spurious
wakeups.
`Triggers` assumes that the loop of `advance` goes on and that agents answer (`play_game` asks
until no decision is pending), and nothing of `Concede`. `Checkpoint` assumes that a started
run is scheduled; nobody has to start one, and errors and kills are never forced.

Properties worth a look, because no single guard implies them: `ImplementsContract` of `Pool`
(the outcome is the serial one although results, failures and panics arrive in any order),
`NoLostWakeup` (why `run_job` takes and releases the lock before it notifies),
`DirtyScratchIsNeverReported`, `BrokenBattleGoesNoFurther` (identity by `zone_seq`, over any
effects in between), `DecisionsSeeASettledBoard` (the `rules_checked` cache is never stale when
a player is asked), `OncePerTurn`, `StartsInOrder`, `ImplementsContract` of `Checkpoint`,
`SomeSetSurvives`, `ResultsComeLast`, `SavedFileStays`, `AloneIsRecorded`, `ViewIsFresh` (over any
chain of handlers), `PoolsAreExact` and `TruthDoesNotShow` (the AI players get no hidden
information, not even through the history), `CommonRandomNumbers` and `IterationsAreRootVisits`
(why a walk must end at the root and a kept tree needs its `base`).

## Where the documentation and the code differ

1. `checkpoint_stays`. `checkpoint.rs:12,16` says a line cut short by a kill is ignored and
   the checkpoint stays for the next resume. A kill while the header is written leaves a
   file that every later `--resume` refuses until somebody deletes it.
2. `report_set_fails`. `set.rs:325` says of an I/O error "the old set kept". When removing the
   old set fails after the swap, or a rename of an update in place fails, the error comes
   although new files are in the directory.
3. `ledger_lost`. `ledger.rs:6-7` says every master a role run used is appended to the ledger.
   Of two runs that end at the same time, the later rename drops the other's entry, and both
   report success. `AloneIsRecorded` says how much holds: a run that overlaps no other stays.

Six more behaviours follow from the models and no property forbids them. A worker reads
`stop_claiming` under the pool's lock, a failing one lowers `lowest_failed` without it, and the
first may then claim one more index, although `pool.rs:12-13` says that from then on none is
claimed; the task is above the failed one and its result is never reported
(`LowerTasksFinish`, `ImplementsContract`). After a disk error a second worker's line can land
on the torn one, and the checkpoint is then refused as a whole. A run killed between its
report and the ledger used a master the ledger does not have. A file that a user saves between
a process's look for foreign files (`set.rs:360`) and its swap is removed with the old set; while the swap can still be undone it is on the
disk (`SavedFileStays`). A benchmark that is killed between the two renames of its directory
(`set.rs:417-421`), or whose second rename and its undo both fail (422), leaves the checkpoint under
the `.old` name and nothing where `checkpoint.rs:349` looks: the next `--resume` plays every match
again, although `checkpoint.rs:16` has the checkpoint stay for it. The contract allows this as
`SetAside` and then `Drop`.
`docs/ASSUMPTIONS.md:103` has several cards placed into one deck "ordered by their owner (a
decision), hidden from the other player"; `place_ordered` changes no knowledge bit, so a player
who knew the cards before they were arranged still knows each of them at its new place.

## Proofs

The proofs use TLAPS with Z3, Zenon and LS4. They hold for all values of the constants that
satisfy the `ASSUME` of the module, which TLC evaluates on the instances. What an `ASSUME` takes
from the code: a report set ends with `results.json`, and copies come before it (`set.rs:225-285`);
the turn limit is positive (`Config::validate`, `config.rs:42-45`) and a player is not a card;
an ability is not a card; a position has finitely many moves. Each invariant below was checked by TLC before it was proved.

Every safety property the runs check has a theorem.

`PoolProofs`, for any number of tasks, workers, jobs per fork and forks per task, any tasks,
interrupts and spurious wakeups:

- `TypeCorrect`: `Spec => []TypeOK`. `outcome` is one of `Outcomes`, so the `unreachable!()` at
  the end of `run_parallel` is unreachable.
- `LowerFinish`: `Spec => []LowerTasksFinish`.
- `OutcomeIsSerial`: values, errors and `Cancelled` are returned only as `MayReturn` allows.

`LowerTasksFinish` is not inductive: it says something only at the end. The invariant `IInv`
carries it there. `PlacesInv` ties a thread's place to the task and job in its hands, so each
claimed task is owned by one thread until it is sent; `ClaimsInv` says every index below `next`
is owned, sent or received; `ResultsInv` relates `result` to `lowest_failed`; `FailureInv` says
that a task that stopped for another one has a lower one that really failed, the least failed
index being one that did what its closure does; `AccountInv` that whatever was sent is in the
channel, a slot, or counted in `failure` or `panicked`; `ForksInv` that a joined fork's slots
tell of a panic; `ClosedInv` that the threads leave only when nothing is left to claim. When
every worker has left and the channel is empty, all indices below the reported failure have
therefore arrived.

About the job queue, on top of that:

- `NobodyOversleeps` (`NoLostWakeup`). `LockInv`: the lock is held exactly between a check under
  it and what is done about it, and the queue cannot change in between. `WaitInv`: a sleeper saw an
  empty queue with tasks running, `active` being the number of workers with a task; a joiner whose
  count is zero has a thread about to notify it.
- `ForksComplete` (`ForkComplete`). `CountInv`: `remaining` is the number of the task's jobs in the
  queue plus those in a thread's hands; a step moves one job, so both sides change alike.
  `SlotInv`: an empty slot has its job in one of these places.
- `DirtIsNotReported` (`DirtyScratchIsNeverReported`). `DirtInv`: while there is a dirty scratch, a
  panic is recorded or on its way, in a slot or with the thread that ran the job.
- `PoolImplements` (`ImplementsContract` of the parallel path): every step is a step of
  `PoolContract` or a stutter, panics included. `ReceiptInv` has every result received once, which
  makes `done = n` mean that all values are there.
- `MapImplements` (`ImplementsContract` of `MapIndexed`): either path does. The serial path counts
  what it pushed and reported, and every task before its own succeeded (`SerialInv`).

`CheckpointProofs`, for any number of matches, workers, configurations, kills, disk errors and resumes:

- `OneLine` (`OneLineOfEach`) and `Resumes` (`ImplementsContract`).

`FileInv` says what a file may hold after any history of cuts and torn lines: a header, then
records of its owner without a repetition. `PhaseInv` and `MatchInv` say what a run has taken over
from it, per match, and that a match whose result is "ok" has its line unless a write failed;
`TornInv` that a torn line nobody is writing means an error that was noticed; `ExitInv` that a
reported failure has its lower matches in the file. `ReportInv` says that a run on its way to the
reports has the record of every match as its result and a line of each in the file; while the
directory is away there is no file in its place, and the one set aside is complete. With
it the two renames, their undo and the update in place are steps of the contract. A step of `Checkpoint` is a step of
`ResumeContract` or a stutter under the mapping of `Checkpoint.tla`.

`ReportSetProofs`, for any number of writers, files, kills and failing calls:

- `TypeCorrect`, `ReaderSeesOneSet` (`NeverAMix`), `ASetSurvives` (`SomeSetSurvives`),
  `TheSavedFileStays` (`SavedFileStays`), `LeavesClean` (`EndsClean`), `ResultsLast`
  (`ResultsComeLast`).

`NeverAMix` needs what each writer has staged: `StagingInv` says that when a writer looks at
the directory, its staging directory is complete, by induction over the file it is at; `OldInv`
that what is aside to be put back is what a reader saw; `ModeInv` that the two modes never mix.
`SurvivalInv` adds where the surviving set is: in its place, or aside and not being removed.
`SavedFileStays` needs that while the file is in the directory and nobody swapped when it came,
no process is past its look, since every later look finds it; and that a writer that removes what
it set aside has its own set in place (`TidyInv`). `TempInv` ties the index of an update in place to
the files written so far; `TidyInv` lists the names a writer can have at each call, those of an
interrupted one only as long as no call failed; `AloneInv` what the directory is while one process called
anything; `LastInv` that a new `results.json` was renamed after the rest of its set.

`SeedLedgerProofs`, for any number of runs and entries:

- `TypeCorrect`, `AloneStays` (`AloneIsRecorded`), `EntriesAreDistinct` (`NoEntryTwice`).

`AloneIsRecorded` needs that while a run is alone in `record` the ledger is what it read, and
that whoever is in `record` later has read the entry (`AloneInv`, `RecordedInv`).

`GameProofs`, for any cards, deck sizes, limits and effects:

- `TypeCorrect` (`TypeOK`), `OverIsFinal` (`GameOverIsFinal`), `WholeBattles`
  (`BrokenBattleGoesNoFurther`), `EffectsDie` (`BattleEffectsDieWithTheBattle`), `SettledDecisions`
  (`DecisionsSeeASettledBoard`), `EndsHaveCauses` (`EveryEndHasItsCause`), `BothPass`
  (`BothPlayersPassed`).

A step of `Game` chains several operators (rules management, then a row, then what the row asks
for), so the invariant is stated of a state `s` and carried along the chain link by link.
`StackInv` has a battle on the stack exactly in the battle steps; `LastingInv` ties the effects of
a battle to one that goes on; `CheckedInv` says the flag that skips rules management
(`rules_checked`) is never stale, which is what `DecisionsSeeASettledBoard` rests on; `AskedInv` that a
question belongs to its step; `WholeInv` that block and damage come only after a look at the battle
on a settled board; `PassInv` that passes, priority and the history of the step agree on who
declined. Two relations do most of the work: `Ended` (the game is over, with its cause) and
`SameControl` (only the board changed): rules management is one or the other.

`TriggersProofs`, for any cards, abilities and programs:

- `OncePerTurnHolds` (`OncePerTurn`), `NoneIsStranded` (`ResolvingIsOwned`), `NothingIsLost`
  (`NoTriggerLost`), `OrderIsKept` (`StartsInOrder`).

`OncePerTurn` needs `KeyInv`: only the outermost frame has a key, the key is not used yet, and
whoever acted with one this turn has used it or is that frame. The use of a trigger is recorded
when its frame ends, and nothing with the same key may start before.
`OwnedInv` carries `ResolvingIsOwned` through the frames' ends; `LevelInv` says a trigger in the
i-th batch was queued when i - 1 batches were open, from which the order follows.

`PlayProofs`, for any matches, positions, moves, configurations and budgets:

- `SeatsAndDecks` (`DeckScoresSeatChooses`): points and a match's end follow from its records
  (`PointsInv`, `EndInv`), the choice from the record before (`ChooserInv`).
- `PredictedTreeOnly` (`OnlyThePredictedTree`), `SameWorlds` (`CommonRandomNumbers`), `AvailIsEnough`
  (`AvailCoversVisits`), `IterationsAreVisits` (`IterationsAreRootVisits`).

A backup adds visits long after the walk counted availability, so none of the latter four is
inductive. `TreeInv` says of each tree of a search: it is sound (a child's node is in the tree and
comes after its parent's, so a walk without transpositions never returns to the root; `Sound`);
the visits of a root move are those before the search plus one for each pick, its latest pick
being in the world drawn for it, and the picks add up to the iterations done and the one under way
(`Counts`); and availability covers the visits plus what the line
still owes, once per child with the visited-set backup, else once per occurrence (`Owed`,
`Covered`). `LineInv` puts the line into the tree being walked. `CarryInv` says that a carried
tree is sound and covered with nothing owed, and can be taken up only when the game went straight
from its search to this decision; with it and `BaseInv` a search with earlier visits is one of
these. The sum over the root moves is a fold, defined by a recursive function: that this function
exists, and that one pick more makes the sum one more, follow from two inductions on sets
(`AllNumbers`, `AllSubsets`), each by a least counterexample of a well-founded order (`Least`).

`BoardProofs`, for any decks, resources, tokens, hand and Shield counts and limit of the battle
area:

- `CardsStayListed` (`CardsAreWhereListed`), `ViewsAreFresh` (`ViewIsFresh`), `SightIsKnown`
  (`KnowledgeFollowsSight`).

As in the code a handler chains operations on a state, so the invariant is stated of any state `s`.
`Where(s)`: each zone's list has exactly the cards in that zone, each once; `Fit(s)`: a card's
identity, zone, damage and what is known of it go together (`FitsZone`), and it lies with one of
the two faces of the card it was dealt as, or is a token made since (`IsDealt`); `Pairs(s)`; `Fresh(s)`: a
kept view with the state's key is its view, and no kept key is ahead of the history, without which
`record`, which does not `touch`, could bring an old key back. `Waits` is what a handler that asked
left behind: the card to deploy still where it may be deployed from, a uid for the token, the cards
to order in the deck. Each operation has one lemma `Steps(s, t)` (the invariant holds again, the
waiting decision is the same, no card appears), and the handlers compose them. Between the two moves
of a Unit with its Pilot `Pairs` fails: `Moved` says what holds in the middle. Handlers that
move several cards are folds, and `FoldIn` carries a set of states through one; it rests, like
`FoldExists`, on inductions on numbers and finite sets as above.
- `TruthStaysHidden` (`TruthDoesNotShow`). A world is the state with other identities (`Other`),
  which stand in three places, `def`, the history and the kept view, and a world replaces them in all
  three: so worlds of two truths that agree on all but the hidden cards are equal (`OtherIs`),
  when the pools and the slots are (`HiddenStay`): these read only cards in sight.
- `PoolsHoldTheHidden` (`PoolsAreExact`). By `IsDealt` the cards with printed face d are those of
  the decklist, whatever became of them; each is in sight or in a slot of its deck's pool
  (`SeenOrHidden`), so what the decklist has left is the hidden ones (`PoolsAre`). That `Left`
  cuts off at 0 and that resources are taken off the second list change nothing then.
- `KeptCardsKeepWorlds` (`KeptWorldsAreWorlds`). Pools that are exact are as long as the slots are
  many (`SameSize`, summing over the faces), so nothing is fitted and `exact_pools` accepts
  (`PoolsFit`). Laying a pool with card u as d is laying it without one d on the other cards
  (`LaidKept`, counting copies on both sides). The two worlds differ in the face of u, which may
  lie as a Unit variant when it is kept, and in nothing that `LooksAre` leaves.

Only model-checked: liveness (`Terminates`, `EffectsSettle`, `RunEnds`), which this prover does
not reach.

Some definitions were rewritten for the proofs, with the same meaning and the same reachable
states: `Rank` of `Triggers` and `knowledge_on_enter` and `OnlyReveals` of `Board` chose between
overlapping `CASE` guards, where TLA+ leaves the choice open and TLC takes the first; `priors`,
`transposed`, `Count` and `backup` of `Search` used nested `@` and `@@`; `remove_from_zone`, `Payable` and `place_ordered` of `Board` used
`Remove` and `SelectSeq`, which the provers cannot expand (`RemoveFirst` and folds take their place), and
the set of `Tables` is assumed to be finite, as a build has finitely many card lists.

## What is not modelled

- Statistics, floating-point evaluation, number formats, hashing and random numbers: pure
  arithmetic that small instances say nothing about. Determinism of a match, which the
  checkpoint relies on, is an assumption of `Checkpoint` (`Record`).
- Parsing, validation and generated code of cards, decks and programs: sequential, no state.
- A machine that stops: checkpoint lines are written without fsync (`checkpoint.rs:384`), so
  lines that `Checkpoint` keeps after a kill could be lost then. A process id used again while
  something is left under its names.
- Card texts: what a program may do is in `Game` and `Triggers`, which program does it is not.
- Command lines, progress printing, document layout.
- The Python oracle: the Rust code is what is modelled.
- How the derived view computes stats and keywords from card texts: data; what is checked is that
  a kept view is never stale.
- The values a search compares, its rollouts and its priors: floating point; its counters are
  modelled. The game runner's records and the replay of them: not yet; see the plan.

## Plan

The runs are kept to a dozen and the properties to forty, so that everything is checked again
within minutes of a change: a composed module takes over the run of its parts, and a deeper
property the place of a shallower one. `MapIndexed` and `Play` are such compositions. The type
invariants of `ReportSet` and `SeedLedger` have a proof in place of a run.

Done: the pool with its contract and both paths, the game, triggers with sub-frames, the board
with the view's cache and the information sets, the search with kept trees inside a match,
checkpoint, report set with a user's file, ledger; the proofs of the safety of all of them.

Proofs to come: for the liveness properties, what of them is a safety property: a measure that
every step of a running pool lowers, but for sleeping, waking and asking again, and that a
checkpointed run lowers between two kills.

Models to come: `Benchmark`, the composition of `Checkpoint` and `ReportSet` file by file (the swap
and the update in place are steps of `Checkpoint` now, for one process); `Engine`, the composition of `Game` and `Triggers` in place of the Boolean `effects`;
macro subsets and prior worlds of the search; records and their replay.
