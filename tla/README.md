# TLA+ models of the HASA Coding Agent

The repository holds an evaluation engine (the *Arena*: several models do the
same task, gates and a judge compare them), a coding agent that edits the
user's own workspace, the provider layer both use to reach the HASA gateway, and
a VS Code extension in front. Everything runs in one Node process, single
threaded: concurrency is the interleaving of continuations between two `await`s,
timers, sockets, child processes (git, the declared commands) and the user, who
works in the same repository at the same time. These modules model the parts
whose correctness depends on such interleavings; TLC checks them on small
instances and TLAPS proves what matters most for every value of the constants.
Paths are relative to the repository; `core/` means `src/core/`, `agent/` means
`src/agent/`.

## 1. Inventory

| Component | State | Operations | Interacts with |
|---|---|---|---|
| Request scheduler `core/scheduler.ts` | queue, `inFlight`, `perModel`, `pausedUntil` | submit, pump/pickNext, release, pauseModel and its timer, abort listener | both run managers submit every HASA call; a 429 makes them call `pauseModel` |
| Response run `core/runManager.ts`, `core/refine.ts` | run row, candidate rows, abort controller, result, event log | create, execute, runCandidate, evaluate, refineWinner, cancel | scheduler, ladder, store, event log |
| Decision ladder `core/decide.ts`, `judge.ts`, `checks.ts` | budget, readings per pair, resolutions | resolvePair (S0..S4), readPair, probePair, decide | called by both runs; every judge call goes through the scheduler |
| Code run `core/codeRunManager.ts`, `gates.ts`, `commands.ts`, `runtime/*` | worktree map, candidate rows, baseline outcomes | create, measureBaseline, runCandidate, evaluateGates, judgeSurvivors, cancel, cleanup, apply | git, child processes, ladder, store |
| Event log and stream `core/events.ts`, `server/app.ts` | log, listeners, `closed` | publish, subscribe(after id), close, the SSE handler | the run managers publish; the extension is the client |
| Run store `core/store.ts` | memory maps, SQLite rows, JSONL | put/update, hydrate | both runs write; a restart reads |
| Agent checkpoint `agent/checkpoint.ts`, `core/git.ts` | `taken` | ensure, revert, release, adopt | the turn loop before a write; undo and keep from the chat; the session rebuild |
| Turn loop `agent/loop.ts`, `approval.ts`, `progress.ts` | budgets, messages, grants, stall counters | iterate, invoke, approval request | model, tools, user |
| Session and conversations `agent/session.ts`, `conversationStore.ts`, `conversationGraph.ts`, extension `agentHost.ts` | history, turns, branches, current session | send, persistTurn, branch, restore, rebuild | loop, disk |
| Client `hasa-client/client.ts`, `errors.ts`, `sse.ts` | attempts, timers | request with retries, stream | gateway |
| Routing and registries `router/*`, `core/registry.ts` | statistics, ledger | recommend, update | session |
| Provider `provider/*`, `probe/runner.ts` | capability cache and its file, list of models and its file, credentials | ensure, invalidate, list, refresh, validate | gateway, editor secret store |
| Tools and sandbox `agent/tools`, `core/sandbox.ts` | none | read, edit, search, run | workspace |
| Turn evidence `agent/taskReducer.ts`, `claimGrounding.ts`, `turnContract.ts`, ... | derived from one turn's transcript | pure | session |
| Arena front end, extension `extension.ts`, `orchestrator.ts`, `panel.ts`, `media/main.js` | orchestrator object and process, current run, refresh timer, panel | ensureStarted, dispose, start run, refresh, key commands | the engine as a child process |
| Chat front end, extension `agent/controller.ts`, `chatPanel.ts`, `media/chat.js` | panel, staged files; in the window busy, files, transcript | open, handle, push, send, attach | agent host, the user |
| Evaluation, probes, design tooling | offline | - | - |

Hard behaviours, by component:

* **Scheduler**: a slot must be returned once on each way a call ends; `pump`
  gives up as soon as nothing is eligible, so whoever changes eligibility must
  pump again; several pauses of one model, each with its own timer; an abort
  between submission and start.
* **Response run**: the store is written before the draft and the draft before
  the event; cancel comes between any two awaits; one call of many fails; the
  process dies.
* **Ladder**: judges who prefer a position, are silent, or contradict themselves;
  a budget that is looked at per rung and spent per call.
* **Code run**: attempts end by their deadline between two commands; cancel and
  rejection while worktrees are still being added, edited and tested; worktrees
  that resist removal, and removed ones that come back because somebody still writes in them; restart.
* **Event stream**: connections that break with events on their way; the end
  written from inside the replay.
* **Checkpoint**: the user edits, stages, commits, stashes and pops between any
  two git commands; the session that holds the checkpoint is replaced, fails to be, or goes with its key.
* **Turn loop**: refusals, repeats, denials and failures mixed; an abort, a deadline or a
  change of the approval mode while a question is open; what a cut turn leaves behind.
* **Conversations**: the user opens, forks, deletes and starts conversations while a turn is
  prepared, run or saved; turns that have nowhere to be saved; a rebuild that fails; a question that is never answered and holds its turn.
* **Capability cache and list of models**: loads, probes, saves and refreshes that several callers
  join; invalidation and changes of the key under them; retries, time-outs, aborts, lost bodies.
* **Front end**: two commands that both start the process; snapshots that come late or out of
  order; messages whose handlers overlap, or that are recorded after the window was drawn; windows closed and opened under all of it.

## 2. Modules

| Module | Models | Abstracted |
|---|---|---|
| `Scheduler` | `core/scheduler.ts` whole; `RunManager`'s reaction to a 429 | what a call does |
| `AdmissionControl` | what the scheduler promises: at most once, within the caps, withdrawn before start or never | order, counters, pauses, event loop |
| `RunLifecycle` | one response run with its refinement; what a restart leaves | texts, critiques, files; the ladder is its outcome |
| `DecisionLadder` | `decide.ts`, `runJudge` | the prompt and the claim; a check is the count it yields |
| `CodeRun` | one code run up to its cleanup | contents of worktrees (only whether they differ from the base), `apply()` |
| `EventStream` | `RunEventLog`, the handler of `GET /runs/:id/events`, an EventSource client (external) | event bodies |
| `Checkpoint` | `CheckpointManager` over the git commands it runs, and the sessions of the host it goes with; the user's own git (external) | file contents, ignored files, merge conflicts |
| `AgentTurn` | `loop.ts` with `approval.ts`, `progress.ts` and the repair of restored histories | what replies and results say: only what the loop asks of them |
| `Conversation` | `agentHost.ts`, `session.ts`, `conversationStore.ts`: events on screen, messages of the model, turns on disk | tool calls, workspaces; an exchange is four tokens |
| `Orchestrator` | `orchestrator.ts` and the key commands of `extension.ts` and the chat | the setting of an external address |
| `ArenaPanel` | `extension.ts`, `panel.ts`, the handler of `main.js`, over `Orchestrator` | what a snapshot holds besides the status |
| `Measurements` | `hasaCapabilityProbe.ts` over its file and the probe suite, as `agentHost.ts` uses it | what a probe asks, the ranking of models |
| `Catalogue` | the client's requests, the shared list of models, the check of a key | streams; which models a list names besides those of the key |
| `ChatView` | `controller.ts`, `chatPanel.ts`, the clicks and the transcript of `chat.js` | rendering, notices, progress, what the user types, where a message stands among the events |
| `SchedulerProofs`, `CodeRunProofs`, `DecisionLadderProofs`, `ConversationProofs` | theorems about the module of that name | |
| `RunLifecycleProofs` | theorems about `RunLifecycle` and the `EventStream` it publishes to | |
| `AgentTurnProofs` | theorems about `AgentTurn` and the `Checkpoint` its tools write under | |
| `ProviderProofs` | theorems about `Catalogue` and `Measurements` | |
| `FrontEndProofs` | theorems about `ArenaPanel`, with the `Orchestrator` in it, and `ChatView` | |
| `MC...` | instances for TLC | |

**Steps.** In every module an action is what the code does between two awaits,
so everything a handler does synchronously is one action. In `Scheduler` a
handler that ends in `pump()` is the handler's action followed by the loop's
iterations (`Dispatch`) and its exit (`PumpDone`); nothing else is enabled until
the loop has ended. `RunLifecycle` marks places reached in a microtask
(`SyncPlaces`), where nothing from outside comes in between, and `Measurements` lets what
follows a resumed await (`Resumed`) go before anything from outside (`Quiet`). In `CodeRun` a
command is a process, started by one action and ended by another. In `Checkpoint` each git
command is one step.

**Scheduler.** `status[j]` is where a job's waiter is (not submitted, in the
queue, running, ended or dropped), `seq` its arrival number, `inFlight`/`perModel`
the counters, `pausedUntil` the map of pauses with 0 for a missing entry, `timers`
the armed `setTimeout`s, `backoff` the pause a rejected call's caller is about to
request. `Submit`, `Dispatch`, `PumpDone`, `Settle` (with `Release`),
`PauseModel`, `Expire`, `Abort` are the code's operations; `Tick` is the clock.

**RunLifecycle.** `pc` is where `execute()` stands, `calls` the calls submitted
and not ended, `cand` the candidate rows, `writing` the drafts whose file is being written,
`tournament`/`incumbent`/`result` the winners, `log` what was published. A call
ends with a text, an empty text, a terminal error or another error, after an abort as well.

**DecisionLadder.** `stage` is the rung the current pair is on, `readings` what
its judges said so far, `spent` the judge calls, `resolutions` the settled and
open pairs, `decision` the outcome. `Read` is one judge in both orders with its
parse retries, `AskProbe` rung S4, `Climb` the way up, `Count` the count of the pairs.

**CodeRun.** `trees` are the worktrees on disk, `tracked` those in the context's
map; per candidate `cand` is its row, `step`/`attempt`/`at` where
`runCandidate` stands; `late` are the attempts whose deadline has passed, `broken` the
commands red on the base commit. `cleanup()` stops nobody, so a candidate may go on where its worktree was:
`writeFile()` makes every directory on the way (`sandbox.ts:199`), so the directory is there again (`WriteBehind`, `debris`), though git no longer
knows it for a worktree. While it is missing git fails in it, and the attempt with it (`AttemptFails`); once it is back git finds the
repository around it, the user's, and the candidate's diff is taken of that (`CollectForeign`).

**EventStream.** `events` is the log (an event's id is its place), `wire[c]` what
travels on connection `c`, `inbox` what the client has.

**Checkpoint.** The workspace is a set of changes: `tree`, `index`, `committed`,
and the entries of `stash`; `taken` is the manager's checkpoint, `ensuring` and
`reverting` where its two git sequences stand. A *period* runs from taking a checkpoint
to its revert or keep, which may be many turns: no code releases it at the end of one. `session` is the host's: it is replaced in two
steps, `Rebuild` and `Adopt`, between which the checkpoint is a local variable (`carried`) and which `RebuildFails` may part for good; `KeyChange` drops it with
its manager, whose turn, if one is running, goes on until `OpenAfresh`.

**AgentTurn.** `stage` is where the loop stands (asking the model, going through the `queue` of a
reply's calls, waiting for an approval, taking the checkpoint, running a tool), `streak` and
`challenged` the stall tracker, `granted` the standing grants, `messages` the session's history of
roles and call ids. `Ask`, `CallTools`, `Decide`, `Grant`, `Decline`, `Protect`, `Execute`, `Answer`,
`AskAgain` are the loop; `Cancel`, `SetMode`, `RevokeGrants` are the user, `Expire` and `Timer`
the clock. What the evidence gates and the model say is a choice.

**Conversation.** `recorded` is what the panel draws, `session.messages` what the model reads, `disk`
the files with their graphs of turns, `jobs` the store's write queue, `pendingEvents` and
`pendingRestore` what waits for a place. `Claim`, `Route`, `Ready`, `Rebuild`, `OpenDone`, `Talk`,
`Persist`, `Write` follow one turn to disk; `Open`, `ChangeBranch`, `NewConversation`,
`DeleteConversation`, `Rekey` are the user at any point of it.

**Orchestrator, ArenaPanel.** `current` is the object `extension.ts` holds, `object[i]` the child and
address an `Orchestrator` has, `proc` the processes alive; a command goes through `Call`, `Spawn`,
`Healthy` or `Unhealthy`. The panel adds the runs, `watched` (the refresh timer and the
subscription), the snapshots in `flight` and what is `shown`.

**Measurements.** `cache[p]` is the matrix of provider `p` in memory with its probes under way, `file`
the one on disk, `saves` the writes under way. `Look` decides whether to answer, join or probe;
`Probed`, `Saved` finish; `Load` may land late; `Forgotten` is an invalidation.

**Catalogue.** `req[r]` is a request of the client (sent, refused with its body unread, asleep before
a retry, with its body to read), of a caller's own or of the shared list; `fresh` and `disk` are the two
caches, `call[c]` the caller's call and how far the walk of a key's check has got.
The gateway is any one of a set: the key works or not, for some models, some of which are routed.

**ChatView.** `handler[h]` is a message's handler between its awaits: waiting for a dialog or the
host, composing the state of a push in two halves, waiting to begin its turn, running it, saving. `view`
is the open window, `mail` the clicks on their way, `transcript` the host's events, `said` its messages. A message is numbered and drawn by the click that sends
it, travels with the click and its handler (`OnTheWay`), and is recorded by `Start`, which posts nothing; a second one that comes too late is drawn and refused.

**History variables** (`promised`; `overlapped`, `spawnedOver`, `crossed`, `fromChat`, `moved`, `skipped`, `strayed`,
`threw`, `unread`, `hurried`, the `dropped` of Checkpoint, `redrawn` and `refused`: the circumstance an "Unless" or an exception names; `beats`; `heard`, `climbed`; `passed`, `stuck`, `foreign`;
`before`, `entrusted`, `fresh` of Checkpoint, `raced`; `fruitless`, `always`, `denied`, `ranAfterAbort`,
`replies`; `home`, `issued`, the `dropped` of Conversation, `rebuildFailed`; `strikes`; `fate`) record what happened for the
properties; no guard of the code's actions reads them, except that `fate` bounds how often a file is attached.

**How the modules relate.** `RunLifecycle` and `CodeRun` see the ladder as a
decision that arrives, and a HASA call as one that ends; `Scheduler` sees the runs as callers that submit,
abort and request pauses; `EventStream` sees a run as the publisher of its log. `Scheduler` implements
`AdmissionControl` under the mapping `fresh <- not yet submitted, queued <- Waiting, running <- Running`.
`ArenaPanel` composes the panel with the `Orchestrator` it starts. `AgentTurn` is what `Conversation` sees as a turn that
talks and ends, and what `ChatView` sees as events; `Checkpoint` sees its writes. `Measurements` and `Catalogue`
are the two caches of one provider; `AgentTurn` sees their requests as a model that replies or throws.

## 3. Runs

Operators named `... of X` in a comment "Mutant of X" are the wrong versions of
X that the properties were tried against; no behaviour uses them. A property called
"...Unless..." holds but for the circumstance named, which is a state of the code and is
listed with the disagreements below when the repository says otherwise.

| Run | Shows | Bounds | States |
|---|---|---|---|
| `scheduler` | no lost wake-up, no overtaking, refinement of `AdmissionControl` (caps, at most once, aborted calls never start), every queued call leaves the queue | 4 calls (2 candidates and a judge on one model, 1 on another), 2 runs' signals, 2 slots, 1 per model, 2 pauses, time 0..3 | 674 thousand |
| `run_lifecycle` | seeds are settled before judging, refinement never returns worse, every run ends | 2 seeds, 2 refinement rounds, 2 judge calls, 2 cancels, 1 restart | 5 thousand |
| `ladder` | overrun of at most one rung, position bias never wins | 3 answers, 3 pairs on one budget of 14 calls, 3 repetitions, 2 ensemble judges, 1 parse retry, scores 0, 1 and missing | 129 thousand |
| `event_stream` | no gap and no duplicate, the end arrives | 4 events, 3 connections | 53 thousand |
| `code_run` | survivors earned it, no directory is left that nothing will release but those named, every code run ends | 2 candidates, a regression build and an acceptance test, 1 retry, 1 rejection (of a run whose baseline was green), restart, the worktree of one candidate resists | 1.6 million |
| `checkpoint` | work put away is never lost, agent work has an undo unless it was dropped, an unraced undo restores all but what is staged | 2 user changes, 2 agent changes (one of each in a new file), 1 commit, 3 stash entries | 6.2 million |
| `conversation` | events are stored once, the two halves of a turn agree, the model goes on reading what the screen shows, stored turns stay, a question reaches its file unless its turn is held | 3 questions, 3 ids, a fork, 2 moves of the user | 0.9 million |
| `agent_turn` | fruitless actions are bounded, a cancelled turn starts at most one more tool, turns that end by themselves leave every call answered, every turn ends | one turn of 3 model and 3 tool calls, 2 calls a reply, a reading and a writing tool, two approval modes, a history cut in the middle of a reply | 0.9 million |
| `arena_panel` | no process without an owner, none under an old key, polling stops, the end is shown | 2 commands, 2 keys and 3 processes as long as there is no run; 2 runs and 2 snapshots under way at once, with one command at a time, 1 key and 2 processes | 0.8 million |
| `measurements` | no answer under an old key, measurements stay on disk, a model is probed once at a time, measuring ends | 2 models, 2 operations, 2 keys, 2 providers, 1 verification | 0.9 million |
| `catalogue` | what is said of a key is so, no request leaves after an abort, every call ends | 2 callers, 3 calls, 2 models, 1 retry, 2 pings, 4 gateways | 0.5 million |
| `chat_view` | a file goes with one message, the composer comes back, the screen is the record of events and messages | 3 handlers, 4 clicks, a file, 2 windows, 2 events | 1.2 million |

Why the bounds are enough to meet the hazards: a model's cap, the global cap, a
priority and two overlapping pauses all need at most two calls of one model and one
more; a chain of refinements differs from one round with two; a vote over repetitions
needs three; a count that can tie needs three pairs; a reconnect whose replay overlaps the old wire needs two
connections and a third shows the second one also broken; a rank needs two
survivors; an entry below the top of the stash needs two entries and a wrong position a third; a turn id
issued twice needs a question that was not saved, one after it and a move; a stall that a challenge does not end needs one
warning and one more action; two commands spawn two processes over each other, and a third process may take the place of one of them; a key
stored with a process alive needs a second key; two answers that come out of order, or late to an end that was taken in, need two snapshots under way; a directory
made again needs one rejection and one candidate at work; an overtaken load needs two caches, an
overtaken write two operations; a walk that should stop needs two models; two messages that pass one check need two
handlers, and a third to change what they find. Two MC modules name a bound of their own, which keeps the product of two
hazards out of the instance, each of them being met in full: `NoRunOrOneCommand` in `MCArenaPanel` (processes started over each other and keys replaced; runs and their snapshots, whose
process may die and be started again) and `RejectedOrBroken` in `MCCodeRun` (worktrees rejected under those at work; failures the base commit excuses). The theorems of
section 4 about the same invariants have neither bound; `RunEnds` and `EndIsShownUnlessCrossed`, being liveness, are checked within it.
Where a run bounds something the code does not (`MaxTime`, `MaxPauses`,
`MaxCancels`, `MaxRejects`, `MaxEvents`, `MaxConnections`, `MaxCommits`,
`MaxStashes`, `MaxTurns`, `MaxPerReply`, `MaxExchanges`, `MaxMoves`, `MaxKeys`, `MaxProcs`, `MaxRuns`,
`MaxProviders`, `MaxVerifies`, `MaxStarts`, `MaxClicks`, `MaxWindows`), the bound is a constant named in
a guard. In `Checkpoint` the bound on entries
is always left to `ensure()`, so that the manager is never stuck by it. Deadlock is checked in
`checkpoint`, where the user always can go on, and not in the others: a run that has
ended, a drained queue, a closed stream and a user who has used up the bound rightly stop. `chat_view` uses the symmetry of its
handlers, sound there because it checks only invariants; no other run uses any.

**Fairness.** Weak fairness of the engine's own steps, on these grounds. The event loop runs
every ready continuation; a HASA call ends because the client bounds each
attempt with a timeout (in `Catalogue`, that is `Moves`); commands are run with a timeout and killed (`commands.ts`); git is run without one
and is taken to end on a local repository, which is an assumption; armed timers fire; writes end or throw. Nothing the user does
(submit, cancel, reject, edit, answer, click) is assumed to happen, and the client of the stream is
assumed to reconnect and read while it still has connections left, as an EventSource does. In `AgentTurn` the deadline passes and its timer
fires, the loop goes on and the provider honours its signal, but the model need never reply and an approval need never be answered: `TurnEnds` says
a turn ends or waits for that answer for ever. `Conversation` is fair to all but the loop for the same reason (`Unattended`): its question reaches a file, or is held by a
loop that may wait for ever, since only the `finally` of a turn saves it. In `ArenaPanel` the refresh timer and the snapshots are fair, a process that dies is not restarted by itself.
`Checkpoint` and `ChatView` state no liveness property and no fairness.

**Disagreements found.** Nothing in the runs is violated; these are places where the repository says one thing and the models,
read from the code, do another. Each is a behaviour of the module named, and the property that would forbid it is stated with
the exception.

* `Scheduler`: every pause arms its own timer, and each timer deletes the model's entry whatever it holds by then, so a 1 s pause ends
  a 3 s pause of the same model (`scheduler.ts:129`; `docs/architecture.md:293`: on a 429, Retry-After comes first). What holds is `SoleCooldownHonoured`.
* `RunLifecycle`: a critic or judge call that throws inside refinement rejects `execute()`, and the run fails without the tournament's winner
  (`runManager.ts:143`, against `:322`, "the run's output can never be worse than" it).
* `DecisionLadder`: an open pair keeps S1's failure, also when S3's judges answered and disagreed, so judge_unavailable is reported
  although there were parseable verdicts (`decide.ts:595`, `protocol/run.ts:253`).
* `CodeRun`: a deadline that passes between two commands skips the rest and the candidate survives (`gates.ts:128`; `docs/evaluation-protocol.md:97`:
  acceptance tests are a hard gate). `SurvivorsEarnedIt` excepts late attempts, and a diff that is not the candidate's own only where a rejection
  came upon it at work: its worktree is removed, its next write makes the directory again under `.arena/wt`, it returns, and `git add -A -N` and `git diff` (`git.ts:167-183`) run in a directory
  that belongs to the user's repository. The user's index is written and the user's changes become the candidate's diff (`docs/security-policy.md:226`: the main workspace is read-only, "읽기 전용", until apply).
  The directory is in no map, so no later rejection releases it, which `NoTreeForgottenUnlessHurried` excepts.
* `Checkpoint`: `git checkout -- .` restores from the index, so agent work staged since stays, and undo reports success (`git.ts:297`,
  `session.ts:749`). `UndoRestoresUnstaged` excepts it. The checkpoint is lost when
  one of the awaits between dropping a session and opening the next throws (`agentHost.ts:770`, `:779-795`, against `:756-757`, "Rebuilding without these costs the user their conversation and their undo"),
  and with a change of key (`:385-387`); `AgentWorkUndoableUnlessDropped` excepts both.
* `Conversation`: the next turn's ordinal is the number of turns in the file, so an id whose turn was not saved is issued again and the
  stored turn that had it is replaced (`agentHost.ts:1588`, against `:1587`, "which is what keeps ids unique across forks"); the same comes of a
  file that a stray turn made longer, deleted while a turn was queued for it: `remove()` is outside the write queue (`conversationStore.ts:694`), so that
  turn makes the file anew, shorter than its ordinals (found when the theorem was attempted; it takes four moves, so the run does not reach it); the contract of
  the conversation left behind is applied to the one opened (`:1578-1581`); messages carried while a session is rebuilt land in the conversation opened
  meanwhile (`:863`); a turn the user walked away from is saved into another conversation, or loses its half; a rebuild that throws
  loses the history (`:770`); a question whose turn an unanswered approval holds is in no file (`:1858-1873`, `:1173-1182`); a save that has read the file also writes it back after it was removed, and the re-read that the comment
  at `:576-580` promises for two windows does not exist (these two are outside the model: a read-modify-write is one step of one window).
* `AgentTurn`: the challenge of a stalled turn is pushed between the results of one reply (`loop.ts:578`), and a live session sends again the calls a cut
  turn left without results, although only a result "right after its own call" is what the protocol expects (`conversationGraph.ts:233`);
  `repairChain` looks for results anywhere, so calls whose ids a gateway used twice stay unrepaired; an open question outlives an abort and
  the deadline; "always" answered after a change of mode is granted under the new one; the comment in `progress.ts` on "flipping a file back" is not what comparing
  with the last result alone detects.
* `ArenaPanel`: two `ensureStarted()`, a failed health check or a `dispose()` during the search for a port leave a process nobody owns, and
  the exit of an old process clears the address of the new one; a key changed from the chat leaves the arena's process under the old one
  (`extension.ts:85-86`); a late snapshot of one run stops the polling of another, an older answer shows "running" after the end, a panel
  closed at the end never shows it, and a run whose process died stays "running" (`store.ts:224`). The button that applies a winner does nothing,
  because `GET /runs/:id` sends no base commit (`docs/implementation-plan.md:197`).
* `Measurements`: verifying never measures again what the file already has (`agentHost.ts:547`); a report of a probe that was cut short counts as measured for ever
  (`hasaCapabilityProbe.ts:195`, against `:221`, "an outage during one probe must not mark the" model); an invalidation during a probe lets its
  save overwrite the file with one entry; what was awaited across a reset is assigned after it (`agentHost.ts:384`, "nothing built under the old one survives").
* `Catalogue`: a 403 whose body is lost reads as a model the key may not use, so a dead key is reported as connected, at one strike for each model of the walk
  (`client.ts:151`, against `hasaProvider.ts:107`); the time-out of an attempt that falls into the reading of the body is taken for an abort, and an
  outage is then not answered from the cached list (`hasaModelRegistry.ts:174`); a validation that joins a refresh waits through its retries, and a list that joins a validation's gets none
  (`hasaProvider.ts:137-139`).
* `ChatView`: no state is pushed after a turn has begun, so the window shows it busy only if another click causes a push
  (`controller.ts:451`, "The panel disables the box while busy"); of two messages sent while the first one's push waits for the list of models, the second is refused by the host, its files are
  lost and the notice blames the model; a refused or failing send leaves the spinner of its turn (`chat.js:736`), and a refused message stays on the screen without being recorded;
  a message whose window is closed and opened again before its turn is claimed is recorded and shown in no window (`agentHost.ts:1090`, against `controller.ts:84`, "Reopening shows what was already said"); a turn that throws is told by a notice without a push;
  a deleted conversation, or one left by a change of key, stays on the screen, and so does what crosses a click on "new chat"; a window opened in the middle of a tool call never marks it as ended.

Further differences in the models' behaviours: the slot of a rate-limited call is refilled before its caller can pause the model; a cancelled
run can still be published as failed or completed by the steps behind it; nothing closes the rows of
a run that a crash interrupted (`docs/architecture.md:459`); parse retries overrun the judge-call
ceiling (`protocol/run.ts:124`), by at most a rung (`OverrunIsOneRung`); two of three repetitions do not reach
the default 0.67 (`docs/redesign-plan.md:173`); the security gate excludes nobody (`gates.ts:148`); a retried
attempt starts in the worktree of the one before; a red baseline build is only
warned about (`docs/evaluation-protocol.md:111`); a rejection after a restart releases no worktree
(`codeRunManager.ts:845`); edits the user makes during a period are discarded by undo
(`checkpoint.ts:145` takes everything present for the turn's work).

## 4. Proofs

For every value of the constants that satisfies the modules' named assumptions (finite sets of jobs, seeds and
candidates, natural caps and bounds, positive stall limits, user and agent changes disjoint). Each invariant is
proved by an initial step, a step with one case for each action, and a step to the property; a type invariant is proved
first and used in the others.

`SchedulerProofs`: `TypeCorrect`, `CountersAreExact`, `CapsHold`, `NoWakeupLost`,
`AbortedStayOut`, `SoleCooldownKept`, `NobodyOvertakes`, `ImplementsPromise`.
`TypeOK` is inductive alone. The caps are not: `Dispatch` tests the counters,
so `CapInv` adds that the counters are the cardinalities of the sets of running calls;
finiteness of `Jobs` makes those numbers, and each action either frames the sets or adds or
removes one call (`DispatchRunning`, `SettleRunning`).
The absence of lost wake-ups rests on `WakeInv`: a paused model has a timer, and when
`pump()` has returned with a slot free, each call still queued is held by its model's counter or its
model's pause. The refinement maps each action to `Accept`, `Start`, `Finish`,
`Withdraw` or a stutter, with `CapInv` for the guard of `Start`. The cooldown theorem rests on an invariant that
says a pause nobody overlapped has the one timer of its model, due no earlier than promised. `NobodyOvertakes` uses
`CapInv` as well: it speaks of the calls running on a model, the code looks at a counter.

`RunLifecycleProofs`: `TypeCorrect`, `DoneTerminal`, `NoCallsAfterCancel`, `NeverWorse`, `CompletedBacked`,
`JudgedAfterSettled`. `PlaceInv` ties `execute()`'s place to its round and calls. `StatusInv` says the last status published is the
stored one. `ResultInv` carries the chain of comparisons up to the round under way, and that rounds to come are in none, so a
stored result is at its end and unbeaten. `BackedInv` says a completed seed whose draft is no longer being written was told, and so was each
incumbent. `SeedInv` says a seed that is open has told nothing, and a settled one exactly its row's status.

Of `EventStream`, in the same module: `StreamTypeCorrect`, `EachOnceInOrder`, `OpenStreamIsComplete`. No gap is not inductive, since what
travels is not in it: `StreamInv` adds that the live wire continues the inbox number by number, that inbox and wire together are the log, and
that the listener is registered while the log is open.

`FrontEndProofs`, of `ArenaPanel`: `NoOrphan`, `AddressAnswers`, `KeyInForce`, `OldRunsAreLeft`, `PollingEnds`, of `Orchestrator` under the panel's steps. `MadeInv`
bounds the objects by the keys, which keeps them in their type; `OwnInv` says that without an overlap only the object in use has a process, the one it spawned; `KeyInv` that
what it is about to spawn has the stored key. `PanelInv` says a run that is starting is neither watched nor shown nor in flight.

`AgentTurnProofs`: `TurnTypeCorrect`, `Stalls`, `AbortStops`, `Asked`, `Denied`, `Talk`, `EndsRestorable`. `StreakInv` ties the count of fruitless actions to the tracker's streak and
says an unchallenged streak is below the warning; `AbortInv` that no tool has started after an abort while one is being asked for; `GrantInv` that standing grants are of this policy; `PaidInv` that each
model call but the one under way was paid for. The types (`TurnInv`) need that
a call that is let through was counted before it runs, so that what ran keeps to the budget of calls, and that a repaired history is one (`FlattenIsSeq`,
by the induction in sets described below). For `EndsRestorable`, `PendingInv` says that what the turn's messages ask for without an answer is what is still in the queue, so that
nothing is at the head of the loop, and `TimerInv` that a fired timer finds the turn in its model call and late: were it to last into a call of a tool,
"timeout" would be the reason of turns that leave calls open. `DanglingOfRest` and `OneMore` say what a message more does to that set.

Of `Checkpoint`, in the same module: `UserWorkIsKept`, `AgentWorkIsUndoable`, `UndoRestores`. `UserWorkKept` alone is not
inductive: a discard would lose put-away work that happened to be in the tree. The strengthening
`KeptInv` says that none is there as long as a checkpoint is held (`Apart`): `ensure()` either found the tree empty or emptied
it, a pop by the user takes the entry out of what was entrusted, and undo's pop ends the
period. `Covered` says that a tool writes and an undo runs only under a checkpoint. `Hosted` says which steps there are between two sessions, so that what is
carried is nothing but the checkpoint of the one replaced and whatever loses it is recorded. Two
lemmas on sequences (`RangeOfPush`, `RangeOfPop`) say that git's stash list loses no entry but the one popped.
That an undo restores is about what the entry holds, not only that it is there: `UndoInv` numbers the entries (`Numbered`: `stash@{n}` moves, an id does not)
and says, as long as nobody raced, that the entry the checkpoint names holds the tree the period began with (`PutAway`), is the one at the position undo
has read (`WayBack`), and that what undo has discarded is not back (`Discarded`).
No bound on commits, entries or changes and no assumption on when the user acts is used.

`CodeRunProofs`: `TypeCorrect`, `TreesKnown`, `SurvivorsAreTested`, `Winner`. `NoTreeForgottenUnlessHurried` is not inductive: a directory is made again where somebody is at
work and its worktree was taken away, so `TreeInv` adds that whoever is at work without a tree, and every directory made again, was visited by a rejection at work. `EarnedInv` says a candidate at its gates has passed those before the
command it is at, and one that survived has passed them all and is at work no longer; `GateDueStep` is the walk over commands that are
left out. `WinnerInv` says nobody is at work from the ranking on.

`DecisionLadderProofs`: `PositionLoses`, `Exhausted`, `Overrun`. `HeardInv` says a reading that names a submission was heard as a
preference for its pair; `ClimbedInv` that the rungs that ran are the enabled ones up to the one under way; `SpentInv` that a rung began with room for
its price and each reading since cost at most two legs with their retries.

`ProviderProofs`, of `Catalogue`: `CatalogueTypeCorrect`, `AbortIsQuiet`, `VerdictIsTrue`. The types need `CatalogueInv`: a request keeps to its
limit, so that attempts stay in their range. `AbortInv` says a request of an aborted caller is not asleep. `VerdictInv` says which answers a
gateway that refuses the key can give to each request, and, unless a body was lost (`Trusted`), that the walk of such a key is neither allowed nor forbidden
anything, and that the one strike it takes is about to end it; `NotConcerned` frames the callers a step is not about.
Of `Measurements`: `MeasuresTypeCorrect`, `MeasuresShape`, `KeyInForce`, `ProbesAreSingle`, `DiskKeeps`. `MeasureInv` is the types and the shape of an
operation (one past its choice of provider holds a cache that was built); types alone are not inductive, for a step writes into the
cache its operation names. `KeyInv` says until a change of key overtakes a building that everything held or awaited was made with the stored key; `ProbeInv` that a probe
under way has one owner; `DiskInv` that, until something crosses, there is one cache for each
key (`OneEach`), a loaded cache tells at least what the file of its key tells (`Sound`), and one save at a time is under way, of all its cache holds (`Knows`).

Of `ChatView`, in the same module: `ChatTypeCorrect`, `ScreenIsTrue`, `BusyEnds`, `FilesGoOnce`. `ScreenInv` says the window draws the events of the record, or nothing while a click on
"new chat" is in the mail (`EventsAreDrawn`). `SaidInv` says of the messages that what is recorded and not drawn was on its way when the window was drawn anew, and what is drawn and not
recorded still is or was refused; a message leaves its way only to the record or to the refused (`StepKeepsSaid`). `BusyInv` adds that a closed window is not busy and that a push belongs to a window. `FilesInv` gives every
attached file its one place (`PlaceInv`: staged, with one waiting message, sent once, or taken off) and says that until two
messages overtake each other only one waits, and only while no turn runs (`WaitInv`).
`ConversationProofs`: `ConversationTypeCorrect`, `EventsAreStoredOnce`, `TheHalvesAgree`, `TheModelReadsIt`, `TheTurnsAreKept`. For the second: stored files say nothing of what is still on its way to them, so `PlacesInv` says in which hands events can be (the
turn, its save, the events held back, a job of the queue, a file) and that they are of exchanges already asked, and `ApartInv` that no
exchange has events in two of these places. Each action moves one exchange's events from one place to the next or
appends to the place they are in. The lemmas on sequences (`AppendList`, `RemoveList`, `ExchangesOfBoth`) say what appending, removing
and concatenating do to a list and to the exchanges in it.

Types alone are not inductive, since a chain is read by following parents: `RecordInv` adds that every file, stored or read, is a graph
(`IsGraph`: a parent stands before its child, a head names a turn), of which `ChainIsSeq` concludes that a chain ends and is made of the file's turns.
That the halves agree is lost sight of between the end of a turn and the file, so `StoredHalves` says it of what is queued and read as well, `SavingInv` of the
turn that waits for its save against what the session has cut for it, `PendingInv` that events held back have answered nothing, and `TurnInv` that a turn has
answered nothing before it ends, and that the session it talks in ends with its question at the place the cut will start from. `ReadInv` says that what
the model will go on from (the session's messages, those waiting for a session, those a rebuild carries over) answers as `recorded` does. Each is up to
`moved`; `ReadInv` up to a failed rebuild too. The walks over data are the lemmas `KindOfBoth` (the answers of a concatenation), `KindOfFlat` (of a
flattened sequence) and `HalvesOfFile` (of the two halves of a chain). They are inductions in the form of sets: `Least` gives a set of naturals its least number (intervals are
well-founded under inclusion), `Induction` concludes that a set closed under the next number is the whole interval, and `Recursion` that a function with a
given recursion exists, so that no operator is a parameter. `Kind` is written as a recursive function for them.

That a write takes no turn from a file is about ids: only a turn with an id the file has is put in the place of another. `IdsInv` says every id anywhere was
handed out, `OnceInv` that one on its way to its own file is on one way only and not there yet, `StrayInv` that what is saved under another conversation the user
left (`moved`), with all that was held back with it. An id is handed out by counting turns, so the rest is a count: `NextInv` puts the next ordinal above those
handed out and not above what is known of the conversation (the ids handed out and those in its file), `RoomInv` says the same of a conversation the
host is not in, and `ReadInFullInv` of a file that was read: if it holds all that was handed out, it is longer than any ordinal of it. Each is up to
`skipped`. TLC agrees on this invariant in the run's instance and with four moves among two conversations.

Only model-checked: every liveness property (liveness under fairness and `ENABLED` are
out of the prover's reach). What the majority is over any number of votes stays with TLC as well.

## 5. Not modelled, and the plan

Not modelled: routing and its statistics (`router/*`, `core/registry.ts`: pure decisions over observed numbers), streams of the client (`sse.ts` and
the in-stream time-out), media, `apply()` of a code run, the SQLite and JSONL layers of the store. Of the checkpoint: a
reloaded window (`taken` is memory), an undo during a turn or a rebuild. Of the chat view: where a message stands among the events, what the routing of a turn records, and a push that
throws before a turn (`controller.ts:467`), which loses the message and its files. Of conversations: two windows on one workspace, and the parts of a read-modify-write. Left out
for good: rendering, text heuristics over transcripts (claims, contracts,
progress wording), tools and sandbox (I/O on the workspace, which `Checkpoint` and `CodeRun` see as edits), offline evaluation, probes, design generators: they keep
no concurrent state, or are I/O, and they are most of the repository's lines.

Next, in this order:

1. `CodeRun`: `apply()`, with HEAD moving between the check and the patch and a failure after the snapshot; `Checkpoint` with undo during a turn.
2. `Catalogue`: the client's streams with their in-stream time-out, against an abstract "one answer or one error".
3. `Conversation` with two windows on one file and the parts of a read-modify-write.
4. Routing statistics as operators checked against reference definitions.
