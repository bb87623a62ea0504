# Rusno in TLA+

Rusno is a single-binary deployment server: a web UI and webhook endpoint (axum), a SQLite database (sqlx), one worker task per project that runs `git` and `docker compose`, and a self-updater. This directory models what is hard to test in it: what its tasks, handlers, crashes and child processes do to rows, queues, permits, folders and containers when they overlap. TLC checks the models on small instances and TLAPS proves the main results for every value of the constants.

Source files below are those of `src/src` (`worker.rs` is in `deploy/`), documents those of `src/docs`.

## The system

| Component | State | Operations | Interacts with |
|---|---|---|---|
| Deploy scheduler and workers (`deploy/mod.rs`, `deploy/worker.rs`, `models/deploy.rs`) | per-project channel (8 slots) and worker task; global semaphore; `deploys` rows | `enqueue`, `worker_loop`, `run_deploy`, `fail_deploy`, `enqueue_auto_start` | called by project handlers, webhooks, startup; drives git and docker |
| Startup and recovery (`main.rs`, `db.rs`) | – | migrations, `recover_crashed_deploys`, `DeployManager::new`, auto-start, HTTP server | repairs the rows of the previous life of the process |
| Project folder (`deploy/git.rs`, `docker.rs`, handlers of `routes/projects.rs`) | checkout (HEAD, branch, files), compose stack | clone, fetch/checkout/pull/stash, `compose up/stop/restart/down/ps`, removal | shared by the worker, the handlers and the editors without a lock |
| Project registry (`models/project.rs`, `routes/projects.rs`) | `projects` rows | create (slug, secret, first deploy), toggle webhook, remove | scheduler, folder |
| Editors (`routes/projects.rs`) | compose file, `.env`, their `.tmp` files | `atomic_write`, reset to repo | folder |
| Webhooks (`webhooks.rs`) | per-slug counters of a fixed 60 s window | `handle_webhook`, `rate_limited` | registry, scheduler |
| Authentication (`auth.rs`, `models/session.rs`, `routes/auth.rs`) | `sessions` rows, password hash | setup, login, logout, `require_auth` (sliding expiry, CSRF) | every route |
| Settings (`routes/settings.rs`) | `settings` rows, SSH keys, GitHub token | save, generate key, change password, sign out everywhere | authentication, scheduler |
| Self-update (`update.rs`) | installed binary, downloaded asset | `check_for_update`, `run_update`, `replace_binary` | a rolling release |
| Service commands (`main.rs`) | unit file, boot link | `service install`, `uninstall` | systemd, the updater |
| Master key (`main.rs`, `crypto.rs`) | `keys/master.key` | `init`, `serve` | the GitHub token |
| Terminal dashboard (`tui.rs`) | polls, keys | event loop, `u` | the updater |
| Pages and templates | documents in browsers | links, forms, the paged list | authentication |
| Telemetry, config | – | read-only or one-shot | – |

What makes each of them correct, and what is hard about it:

- **Scheduler.** One deploy per project and at most `deploy_concurrency` at a time; every accepted request ends; a row moves forward only; nothing is deployed twice; the latest trigger wins. Hard: handlers race to the channel after their INSERT, coalescing closes a row while others arrive, every `?` in `run_deploy` leaves early with a permit in hand, the process may stop anywhere.
- **Folder.** The recorded commit is what runs; a rollback runs its target and is not undone by the next restart; the deploy that survives coalescing runs the pushes of those that did not; removal leaves nothing. Hard: HEAD is read and used in different child processes, the branch may be force-pushed between them, and removal, editors and stop buttons work in the same folder at the same time.
- **Registry.** Slugs and folders are unique; a new project gets its first deploy; two edits of one row do not undo each other. Hard: check-then-insert, and read-modify-write of a whole row.
- **Editors.** A file is the old or the new version, never half of one. Hard: two saves share one `.tmp` file.
- **Webhooks.** Only verified pushes to the branch trigger; a slug is limited to its rate. Hard: the window's edges.
- **Authentication and settings.** No request is served on a session that was signed out or expired; setup happens once. Hard: checks and writes of concurrent requests.
- **Service, key, terminal.** What an install reported stays true; a stored token can be read; a key pressed is a key handled. Hard: commands that fail half-way, files that are created in two steps, a poll that cannot be cancelled.
- **Self-update.** The installed binary is the one the checksum was published for. Hard: three downloads from a release that may move.

## Modules

| Module | What it is |
|---|---|
| `DeployRow` | the status column of `deploys`: its values, the order of the pipeline, what recovery selects |
| `DeployLifecycle` | the abstract promise of the pipeline: rows, who runs what, a cap |
| `DeployScheduler` | `deploy/mod.rs`, `deploy/worker.rs`, the row updates of `models/deploy.rs`, recovery of `db.rs`, the startup of `main.rs` |
| `MCDeployScheduler` | its instances for TLC |
| `DeploySchedulerProofs` | theorems about it: types, permits, startup |
| `DeployCustodyProofs` | theorems about it: one holder per request, status in step with the worker |
| `DeployTriggerProofs` | theorems about it: what leaves a row unfinished, what supersedes a row |
| `DeployRefinementProofs` | theorem: `DeployScheduler` implements `DeployLifecycle` |
| `ProjectFolder` | one folder: the git commands of `deploy/git.rs`, the compose commands of `docker.rs`, the folder's side of `run_deploy` and of the project handlers |
| `MCProjectFolder` | its instances for TLC |
| `ProjectFolderProofs` | theorems about it |
| `WebSession` | sign-in, sessions and CSRF: `auth.rs`, `models/session.rs`, `routes/auth.rs`, what `routes/settings.rs` and `rusno init` do to them, and what documents can send |
| `MCWebSession` | its instances for TLC |
| `WebSessionProofs` | theorems about it |
| `Registry` | the `projects` table and what queues deploys through it: registration, toggle, removal, and the webhooks with their limiter |
| `MCRegistry` | its instances for TLC |
| `RegistryProofs` | theorems about it |
| `FileEditor` | `atomic_write`, by which the compose and `.env` editors save |
| `SelfUpdate` | `rusno update` |
| `ServiceUnit` | `rusno service install` and `uninstall` against systemd |
| `KeyFile` | `keys/master.key` and the token that is encrypted with it |
| `TuiLoop` | the event loop of `rusno tui` |
| `DeployPages` | the paged list of deploys |
| `MCOperations` | one specification of `Registry` and the six modules after it, and its instance for TLC |
| `OperationsProofs` | theorems about the six |

`DeployScheduler` treats every git and docker call as an outcome (it succeeds or fails) and keeps the queues, permits and statuses. `ProjectFolder` opens those calls and keeps the folder, and takes from the scheduler what the latter establishes: a project runs one deploy at a time (`SingleCustody`, and one `pc` per project), and a deploy goes through the steps in the order of `run_deploy`. Definitions named `...Unbounded`, `...Leaks`, `SendRetried` and so on, introduced by "Mutant of", are plausible mistakes in the definition that follows them; no specification uses them. They document which mistake each property excludes.

### DeployScheduler

The database survives a stop: `projects`, `status` and `owner` of the rows, `nextId`, `setting` (`deploy_concurrency`). Everything else is reset by `Crash`.

| Code | Actions |
|---|---|
| `cmd_serve` (main.rs:219-278) | `Recover`, `StartManager`, `AutoStartNext`, `Serve`; the boot phase is `boot` |
| `DeployManager::enqueue` (mod.rs:77-104) | `Enqueue` (the INSERT), then `Send` (`try_send` under the lock); between them the caller is in `sending`. `CallerGone` is a client that disconnects, so that the server drops the handler between the two |
| `worker_loop` (worker.rs:57-95) | `Recv`, `TakeNewer`, `Coalesce`, `DrainDone` |
| `run_deploy` (worker.rs:99-286) | `Load` to `Succeed`, one action per await that others can observe; `Fail` and `Missing` end it, `StepError` is any `?` |
| `delete_project`, `save_settings` | `RemoveProject` (rows cascade), `SaveConcurrency` (nothing resizes the live semaphore) |

`elapsed` and `Poll` keep the arithmetic of the health loop: two seconds a turn until the timeout is reached. `accepted` is a history variable, the requests each channel took since boot.

### ProjectFolder

`kind` is what the folder holds (absent, empty, files but no `.git`, a repository) and `compose` whether the compose file is in it, with a checkout or without; `head`, `branch` and `on` are the checkout (HEAD, the local branch of the project, and what HEAD is on: that branch, another one that the remote has for default, or a commit); `anc` gives the ancestors of each commit, so that forced pushes and rewinds of the branch are real. `svc` is the state of each service. Each git command is an action, since pushes, removals and the editors run between them; `seen`, `built` and `slips` are history (where the branch was during the deploy, what compose ran with, and whether a removal took the folder between git and compose, `wiped`, or a clone took another branch, `default`). `remove_project` is four actions, its errors logged and ignored as in the code. `Found` is what may be in the folder before a project is registered with it.

Git, docker and containers are external: `Clone` fails on a folder that is not empty and checks out the remote's default branch, `rev-parse` may fail in a sound repository too (`RecordCommit` then records no commit and the deploy goes on), `compose up` needs the compose file only, `pull --ff-only` needs a branch that has not diverged and a HEAD that is not detached, and `docker compose ps` without `--all` lists no exited container. `head` is the commit that is checked out, with or without local edits on top of it. A git command that is killed leaves the folder as it was before or after it.

### WebSession

A request is a record with a `pc`; a handler is one action per await, so two requests interleave wherever the code can be suspended. `hash` and `secret` are the two settings, `row` the sessions by id, `cookie` and `doc` what a browser holds.

| Code | Actions |
|---|---|
| the router (routes/mod.rs) | `Entry`: which requests `require_auth` stands before |
| `get_setup`, `post_setup`, `get_login`, `post_login` (routes/auth.rs) | `ReadHash`, `SetHash`, `ReadSecret`, `SetSecret`, `CreateSession` |
| `rusno init` (main.rs:167-178) | `RunInit`, then `SetHash`, `ReadSecret`, `SetSecret` |
| `require_auth`, `session_from_cookie` (auth.rs) | `GateSecret`, `LookUp` (with the CSRF check, which awaits nothing), `DeleteExpired`, `Touch` |
| handlers behind it | `HandlePage`, `HandleLogout`, `HandleSignOut`; the change of the password goes on to `SetHash` |
| templates and the browser | `Posts`, `Links`, `Shown`, `Deliver`, `Visit`, `Submit`, `Leave` |

A password stands for its hash, an id for the row's csrf token too, and a secret for the key that signed a cookie: a cookie is a pair of an id and a key, and is accepted when the key is the secret that the request read. Time is `RowLapses` and `CookieLapses`, at any moment. `Dropped` ends a request anywhere: its client left, the server stopped, or the database failed where the handler answers 500. Elsewhere the handlers go on, and so does the model: a read that fails counts as no value in `ReadHash`, `ReadSecret` (a login then draws a new secret over the old one) and `GateSecret` (`ReadOf`), a look-up that fails finds no session, and the writes of `Touch`, `DeleteExpired`, `HandleLogout`, `HandleSignOut` and of the password's change may fail without a word. `early`, `blind` and `barred` are history: what a request could know when it began, and whether a failed read hid something from it.

### Registry

| Code | Actions |
|---|---|
| `create_project` (routes/projects.rs), `unique_slug`, `create_project` (models/project.rs) | `AskCreate`, one `Exists` per query, `Insert`, `Enqueue`, `Created` |
| `deploy_now`, `rollback_to`, `toggle_webhook`, `remove_project` | `Ask`, `Find` (`require_project`), then `Enqueue`, `Update` or `Delete` |
| `handle_webhook`, `rate_limited` (webhooks.rs) | `Ask`, `Find`, `Verify` (limiter, mode, signature, event, branch; no await between them), `Enqueue` |

`Candidates` gives the slugs that `unique_slug` tries for a folder name. An id stands for the project's webhook secret. `Enqueue` is the INSERT with its CHECK and foreign key; what becomes of the row is `DeployScheduler`'s. `Restart` takes the limiter's counts, which are in memory. `overlapped`, `since`, `queued` and `windows` are history.

### The other operations

- *FileEditor.* Names and inodes are apart, because two saves may hold one `.tmp` open, or one may rename what the other writes. A write has two halves; a caller that leaves ends the save at its next await, while the blocking write runs to its end (`gone`).
- *SelfUpdate.* Each fetch sees the release of its moment, an error page included (`reqwest::get` does not look at the status). `current_exe` is read when the swap begins (`Resolve`): for an updater whose binary was replaced meanwhile it names `rusno (deleted)`, the `stray` path. The temp file is created in a step of its own (`Create`), so another updater may replace the binary in between. `raced` records that two swaps of rusno overlapped, each counted from `current_exe` to its rename. A swap may fail, or be killed, in any step.
- *ServiceUnit.* The unit file, what systemd loaded, the boot link and the process are four different things. Every step of install and uninstall may fail; reboots, respawns and the restart of an update come in between.
- *KeyFile.* `tokio::fs::write` creates an empty file first, and an empty file is the all-zero key.
- *TuiLoop.* A poll that loses to the tick goes on as `orphan` and eats a key.
- *DeployPages.* `rows` is what ORDER BY gives: a new row may come anywhere, since `started_at` is the wall clock.

These and `Registry` share no variable with each other. `MCOperations` puts them into one specification with a variable `focus` that says whose behaviour it is: every behaviour of each of them is there, and no product of their states. It also holds the assumptions on their constants, and its proofs use it the other way round: a behaviour of `OperationsSpec` is a behaviour of each component (`RegistryRuns`, `KeyRuns`, ...), so each theorem is proved about its component alone.

## Runs

| Run | Configuration | Result |
|---|---|---|
| `scheduler_safety` | `DeploySchedulerSafety.cfg` | `TypeOK`, `QuietAtStartup`, `PermitsConserved`, `SingleCustody`, `StatusMatchesStep`, `OrphansExplained`, `SupersededByLater` hold, and the scheduler implements `DeployLifecycle` (`ImplementsLifecycle`) |
| `scheduler_liveness` | `DeploySchedulerLiveness.cfg` | `AcceptedSettle`: every accepted request is closed, across a stop too |
| `stale_healthy` | `DeployStaleHealthy.cfg` | counterexample to `NoStaleRowAfterRecovery` |
| `full_channel` | `DeployFullChannel.cfg` | counterexample to `LatestTriggerSurvives` |
| `folder_safety` | `ProjectFolderSafety.cfg` | `TypeOK`, `SucceededIsBuilt`, `RollbackLandsOnTarget`, `DeploysThePush`, `BranchMovesForward` hold |
| `folder_clone` | `FolderClone.cfg` | counterexample to `CloneTargetIsFree` |
| `folder_removal` | `FolderRemoval.cfg` | counterexample to `RowOutlivesFolder` |
| `folder_health` | `FolderHealth.cfg` | counterexample to `HealthyMeansRunning` |
| `access_safety` | `WebSessionSafety.cfg` | `TypeOK`, `FirstRunCloses`, `SignedOutStaysOut`, `NoResurrection` hold |
| `csrf_token` | `WebSessionToken.cfg` | counterexample to `PostsCarryToken` |
| `first_deploy` | `RegistryFirstDeploy.cfg` | counterexample to `FirstDeployQueued` |
| `operations_safety` | `OperationsSafety.cfg` | of `Registry`: `FailsOnlyWhenRaced`, `DeliveryMatchesProject`, `QueuedWithinLimit`, `EnabledIsParity`; of the others: `SavedIsThere`, `BinaryIsWhole`, `NoDowngrade`, `InstalledStays`, `TokenReadable`, `OneKeyPerTick`, `WalkSeesAll`; of all: `AllTypesOK` |

Several of these promises are conditional, and the condition is the finding: `SavedIsThere` and `BinaryIsWhole` hold until two saves or two updaters overlap (they share a temp file), `EnabledIsParity` until two toggles of a project do, `TokenReadable` until two processes start together on a host without a key, `WalkSeesAll` unless rows go away or a query fails during the walk, `FirstRunCloses` but for what began before the first run was complete and for what a failed read misled, `SucceededIsBuilt` and `RollbackLandsOnTarget` unless a removal takes the folder between git and compose, `DeploysThePush` also unless the first clone is of another branch. `NoDowngrade` is under the same condition as `BinaryIsWhole`. The conditions are history variables, set only by what they name, so the runs also show that nothing else breaks the promise: no crash, no failure, no caller that leaves, and no earlier command.

### Bounds

- *Scheduler.* Two projects are the fewest that compete for a permit. Three rows and two callers let a row be coalesced away while another arrives out of order. `ChannelCap = 2` lets the channel fill; the code's 8 is used in `full_channel`, with ten triggers and one caller. One stop, at any point, is followed by recovery and auto-start (`p1` only). One storage error or vanished caller (`MaxFaults`) can hit any step. `Settings = {1}` makes the permit contended; the theorems cover every other value. `HealthTimeout = 3` gives one turn of the loop that goes on and one that times out. The counters `nextId`, `faults`, `crashes` are capped in guards.
- *Folder.* Deploys, rollbacks, restarts and process restarts are unbounded; only the commits are capped. Three commits allow a push, a forced push that diverges and a rewind. The folder may hold anything before the registration, except in `folder_clone`, where it is not there. One service suffices for the properties of `folder_safety`, which do not depend on its state; `folder_health` has two, with and without a healthcheck. One project is registered at most once with the folder: two projects in one folder, and so a second registration after a removal, are outside these runs (see Findings).

- *Sessions.* One browser and two requests at a time: whatever one request does between two awaits of another. `rusno init`, logins and sign-outs are unbounded. `access_safety` has two ids, so that one session can outlive another, and two secrets, so that one can be replaced; the constraint `SecretsOrSessions` leaves out what follows when both are used up. One password besides wrong ones: only whether it is the stored one is compared. `csrf_token` needs one request and one session.
- *Registry.* Two requests, two projects, two candidates of one folder, a limit of 1 and two windows: the least with which a slug passes from one project to another during a delivery, a suffix is needed and a window is exceeded and renewed. One kind of deploy row at a time (`MaxRow`); alike rows count once in `deploys`, and `queued` counts them all.
- *Other operations.* Two saves, updaters, commands or processes; four releases with the installed one in the middle; two ports; three keys; three keystrokes and two ticks; four deploys on pages of two. Repetition is unbounded except for releases, keys, keystrokes, ticks and deploys.

`CHECK_DEADLOCK` is left on everywhere: some step (a setting saved, a stop button, a container that exits) is possible in every state.

### Fairness

`FairSpec` assumes weak fairness of the startup sequence, of each worker task and of each caller past its INSERT. Tokio polls every ready task; git and docker commands are assumed to return, which the code itself assumes, since it puts no timeout on them; `Restart=on-failure` in the unit that `main.rs` installs justifies that a stopped process starts again. Nothing is assumed of operators, clients, crashes or errors. The semaphore is FIFO, as tokio documents and `waitq` models, so weak fairness of `Acquire` is enough. `scheduler_liveness` runs without storage errors, which by design leave rows unfinished (`OrphansExplained` says exactly when).

## Findings

- **A stop between "healthy" and "succeeded" leaves a row in progress for ever.** `recover_crashed_deploys` (db.rs:120) does not select `healthy`.
- **A full channel loses the newest trigger.** `try_send` (worker.rs:47) drops the request that was just made, while the comment and `src/docs/04-deployment-pipeline.md` promise that the latest survives; its row stays `queued`.
- **The first clone fails.** `run_deploy` creates `logs/` inside the folder (worker.rs:127) before it calls `git clone` on it. Only a removal that empties the folder between the two lets one through.
- **The health check passes a stack that does not run.** Containers that exited are not listed by `ps`, and no line means healthy (docker.rs:239-259).
- **Removal deletes the row although the folder is there**, after an error (projects.rs:465) or when a deploy that was running made the folder again.

- **Most buttons send no CSRF token.** `CSRF_SCRIPT` is in the settings page only (templates/settings.rs:47), and one form of the deploy page sets the header itself; the others are answered 403 unless the settings page was shown in the same document before.
- **The first deploy is never queued.** `create_project` uses the trigger `initial` (projects.rs:330), which the CHECK constraint of the schema refuses.

Seen while reading, with no run of their own:

- A clone is of the remote's default branch (git.rs:47), and the deploy that made it builds that, while `src/docs/02-data-model.md:139` says the folder is a working tree on the configured branch; the next deploy checks the branch out. `DeploysThePush` names this exception (`"default"` in `slips`).
- A failed read reopens the setup: `post_setup` (routes/auth.rs:73) takes an error of its read for no password and overwrites the one there is, against its own comment ("Never allow re-running setup over an existing password"); a login whose read of the secret fails replaces the secret (routes/auth.rs:139), which ends every session. `FirstRunCloses` names this exception (`blind`).
- Two projects may be registered with one folder, which `src/docs/03-features.md:103` says is refused; `SucceededIsBuilt` is false of `ProjectFolder` with two projects. A removal that takes the folder during a deploy may let it succeed all the same, from a compose file that an editor wrote back, without the commit it records. An edit in the way of `git checkout <branch>` is not stashed.
- The comment at projects.rs:180-182 ("a crash or concurrent read never sees a half-written file") fails for saves that overlap; the docs promise an fsync that is not there.
- The cookie's Max-Age counts from the login and is never renewed, while the row slides (auth.rs:96, auth.rs:157). Setups, inits or logins that overlap on a fresh host may replace the session secret and end a session just made.
- The settings form lacks the `ssh_mode` that its handler requires; the rollback picker posts to an address that only takes GET, and the button of the deploy page posts `deploy_id` where `commit_sha` is wanted. No page has a control for logging out. A project with the slug `new` is shadowed by `/projects/new`.
- Removing the GitHub token stores an empty string, and the page still shows a token as set. Nothing decrypts the token. The unit file sets `RUSNO_HOME`, which nothing reads.
- The live log of a deploy is empty while it runs, and so is the tail of one that succeeded: the ring is fed on two error paths only.
- The comment at routes/deployments.rs:60-61 ("A deploy may outlive its project") contradicts the cascade of the schema.
- The fixed window admits almost twice the limit within some 60 seconds and counts deliveries before their signature is checked.
- An updater whose binary was replaced meanwhile installs to `rusno (deleted)` and reports success. A key pressed during a tick of the terminal dashboard is lost (tui.rs:91-95 calls it harmless); the prompt of its key `u` reads a line in raw mode, which Enter does not end.
- A `master.key` that is empty or short is padded with zeros without a word (crypto.rs:59).

## Proofs

`tlapm` checks every theorem from the assumptions stated in the modules: finite sets of projects and of requests, natural bounds, a positive channel capacity, integer settings; in `Registry` also a limit and a number of windows of at least one, and that the mark `"none"` of an unused field is no slug and no folder; in `MCOperations` contents and ports that are positive numbers, an installed version that was released, and pages of at least one row. Each theorem rests on an inductive invariant that TLC checked on a small instance first. All safety properties of the passing runs are theorems.

`DeploySchedulerProofs`:

- `TypeCorrect` (`TypeOK`), with one lemma per group of actions.
- `StartupIsQuiet` (`QuietAtStartup`) and `PermitsAreConserved` (`PermitsConserved`). The inductive invariant is `TypeOK /\ QuietAtStartup /\ PermitsConserved`: conservation alone is not inductive, because `StartManager` sets the semaphore to its size and only `QuietAtStartup` says that no worker holds a permit at that moment; typing gives that `permits` cannot become negative and that the holders are a finite set whose cardinality changes by one per `Acquire` and per `Return`.

`DeployCustodyProofs`:

- `RequestsHaveOneHolder` (`SingleCustody`). `SingleCustody` counts custodians per row and is not inductive: it does not say that the id a trigger is about to use is held by nobody. `CustodyInv` says it per project: the places of one project are apart (`Apart`: a caller's id is not in the channel, the channel repeats none, the two hands differ), and what a project holds was inserted and is owned by it (`Owned`: `i < nextId`, `owner[i] = p`). Rows with different owners then cannot be held twice. Most steps only take something away (`CustodyFrame`); `CreateRow`, `Send`, `Recv` and `TakeNewer` move one id and have their own lemmas, on top of what append and tail do to a channel without repetition.
- `StatusFollowsWorker` (`StatusMatchesStep`). `StatusInv` states it per project, and is inductive with `CustodyInv` (a write to the row in hand changes no row that somebody else holds) and `QuietAtStartup` (recovery rewrites rows while nothing is held).

`DeployRefinementProofs`:

- `PipelineImplementsLifecycle` (`ImplementsLifecycle`). The mapping runs `cur[p]` while `p`'s worker is between acquire and return. The invariant adds `RowsInv` (ids from `nextId` on have no row; a worker away from `recv` has a request in hand) to all of the above: conservation of permits gives the cap at `Start`, `StatusInv` the status `Advance` and `Finish` expect, `CustodyInv` that a rejected or new row is nobody's running deploy. A write to a row whose project was removed maps to a stutter or to `WalkAway`.

`DeployTriggerProofs`, about steps:

- `OrphansAreExplained` (`OrphansExplained`). The invariant is `TriggerInv`: types, quiet startup, custody and status as above, and `HandsInv`. Without `HandsInv` (a waiting worker has nothing in hand, `old` is only held to be coalesced at once, a channel is never over its capacity) a worker could drop a request by going back to `recv` with one still in hand. Each action is then one of a few kinds: it keeps every request where it was, moves one between holders, or ends one whose row it closes.
- `CoalescingKeepsTheLatest` (`SupersededByLater`). `OrderInv` adds that the channel is the end of what was accepted, that the request in hand during a drain is the one accepted just before it, and `old` the one before that; `CascadeInv`, that a row is gone exactly when its project is.

`ProjectFolderProofs`:

- `TypeCorrect`, with the fact that a folder has a HEAD exactly when it is a repository.
- `BranchOnlyMovesForward` (`BranchMovesForward`), for any number of projects in the folder. The strengthening is `Made`: every commit in use is among its own ancestors. A step either leaves the branch, fast-forwards it, clones or removes (`BranchStep`).
- `SuccessRecordsWhatRuns`, `RollbackRunsTarget`, `SuccessRunsThePush`, under `NotShared` (the folder belongs to one project). The invariant `DeployInv` follows a deploy: from the checkout on, HEAD is the target (`TargetInv`), from the record to compose the recorded commit is HEAD or none (`CommitInv`), and HEAD contains a position the branch had during the deploy (`FreshInv`). Each holds until a removal takes the folder between git and compose, which `slips` records; `FreshInv` also until a clone takes another branch. `FrameInv` says that whatever others do can take the checkout away but not replace it, which is what a second project in the folder would break.

`WebSessionProofs`, from one invariant, `SessionInv`:

- `TypeCorrect` (`TypeOK`). Ids stay within their bound only because a login holds one back from its start (`IdsLeft`: opened sessions and logins under way fit).
- `NothingIsResurrected` (`NoResurrection`) and `SignOutIsEverywhere` (`SignedOutStaysOut`). `SignedOutClosed` says that the sessions of before a sign-out are closed, and `Barred` that a request which began after it has the cookie of one of them until the look-up refuses it.
- `FirstRunIsOver` (`FirstRunCloses`). `Early` carries, from the check of the password to the writes some awaits later, whether the first run was still on when the request began, or a failed read said so; `Stage` says which requests come to which step.

`RegistryProofs`, all on `TypeInv` (`TypeOK` with what a request holds at each step of its handler, `Placed`):

- `TypeCorrect` (`TypeOK`).
- `DeliveriesMatch` (`DeliveryMatchesProject`), by `SignedInv`: a delivery on its way to the queue was signed with the secret of the project it holds. The slug may lead elsewhere by then.
- `RegistrationFailsWhenRaced` (`FailsOnlyWhenRaced`), by `RaceInv`: whoever has a slug that was found free is younger than the answer.
- `TogglesCount` (`EnabledIsParity`), by `ToggleInv`: two toggles that hold one row are recorded as overlapping, and one that holds it alone has read what it still contains.
- `LimiterHolds` (`QueuedWithinLimit`), by `LimitInv`, which counts the deliveries that passed the limiter and are not in the table yet. It needs the cardinality of that set to change by one with each pass and each INSERT, and a window that begins to start with one.

`OperationsProofs`, each from the invariant of its component:

- `SavesAreAtomic` (`SavedIsThere`), by `EditInv`: unless saves overlapped, a save that has opened `.tmp` is alone in it, `.tmp` is another inode than the file, and its halves are written in their order. The inode that `open` takes is one that no name and no save has; that there is one is a cardinality argument (`InodeIsFree`).
- `UpdatesAreWhole` (`BinaryIsWhole`) and `UpdatesGoForward` (`NoDowngrade`), by `UpdateInv`: the names of the binary, of its temp file and of the stray temp file are apart, what an updater runs is a whole release that nobody writes to, what it fetched is newer, and a lone swap is over the binary it runs, from `current_exe` on. The swaps of an updater whose binary was replaced work on an inode that is nobody's binary. `BinaryIsFree` is the cardinality argument here.
- `InstalledServiceStays` (`InstalledStays`), by `UnitInv`: while one command is at work, each of its steps finds what the steps before it left (`UnitStage`).
- `TokenSurvives` (`TokenReadable`), by `KeyInv`: until two processes met in making the file, one makes it, the others have not looked yet, and who has a key has that of the file.
- `TicksCostOneKey` (`OneKeyPerTick`), inductive with the fact that only the selecting loop has a key of a poll.
- `WalksShowAll` (`WalkSeesAll`), by `PagesInv`: everything of the start that stands before the offset was shown (`Covered`), which an insertion keeps because it pushes rows back and the new row was not there at the start; and a count within the end of the page leaves nothing behind it. `LastPage` is the arithmetic of the rounded division.
- `EveryTypeIsRight` (`AllTypesOK`).

Only model-checked: `AcceptedSettle`, since liveness under fairness is out of the prover's reach. What the code does not keep (the runs that expect a violation) is shown by TLC's counterexamples.

One definition is written for the prover: `RemoveProject` of `DeployPages` takes the kept rows by their rank in the list, not with `SelectSeq`, which is recursive.

## Not modelled

- Log files, ring buffers, commit messages and error texts; formatting and pages.
- Edits of tracked files: whether git refuses a checkout or a pull because of them is an outcome of the command.
- Git and docker children that outlive a stop of rusno.
- `refresh_concurrency` (mod.rs), which has no caller.
- A `deploy_concurrency` beyond the semaphore's maximum, on which startup panics.
- What one `compose` command does inside docker, apart from the state of the services.
- Host telemetry, the dashboard, the drawing of the terminal dashboard and all markup that does not decide what a document may send: they read and format.
- `ssh-keygen`, the docker prunes and the settings nothing else reads; `config.toml`, `rusno migrate` and the argument parser.
- The algorithms of `crypto.rs` (Argon2, AES-GCM, HMAC), which are libraries over bytes: a password stands for its hash, an id for a secret, a key for what it encrypts.
- The text algorithms `derive_slug`, `find_sha_for_asset`, `parse_push_branch` and `RingBuffer`: their callers see their outcome as a choice.
- Power loss between a write and the disk: `atomic_write` and `replace_binary` do not fsync, and what is left then depends on the file system.

Narrower than the code, where it matters little to what is claimed:

- `Registry` keeps alike deploy rows as one, and with `MaxRow = 1` a second row waits for a removal.
- `TuiLoop` lets the orphaned poll end before the next tick, as its timeout is shorter than a tick.
- `KeyFile` takes it that all processes serve on one port, so that the later one fails to bind.
- `FileEditor` has the writers that go through `atomic_write`; git and the reset, which write the same files, are in `ProjectFolder`, as outcomes.

## Plan

1. *Proofs*: that `FileEditor`, while saves do not overlap, and `SelfUpdate`, while updaters do not race, implement the register below; for two projects in one folder, what `FrameInv` still gives when their deploys do not overlap.
2. *Abstract specifications*: an atomic register that `FileEditor` implements while saves do not overlap.
3. *Pure algorithms*: `RingBuffer`, `find_sha_for_asset` and `derive_slug` against reference definitions.
4. *One folder, two projects*: `ProjectFolder` composed with the registration that lets it happen.
