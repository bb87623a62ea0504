---------------------------- MODULE DeployScheduler ----------------------------
(* deploy/mod.rs and deploy/worker.rs: the DeployManager, one worker task and  *)
(* one bounded channel per project, the global semaphore, the rows the workers *)
(* drive through their states (models/deploy.rs), and the startup that repairs *)
(* them after a stop (db.rs, main.rs).  Git, docker and the file system are    *)
(* the environment: each call either succeeds or fails.                        *)
EXTENDS DeployRow, Integers, Sequences, FiniteSets

CONSTANTS
  Projects,       \* ids of registered projects
  NoProject,      \* owner of a row that was not inserted
  AutoStart,      \* the projects with auto_start = 1
  Settings,       \* values an operator saves as deploy_concurrency
  ChannelCap,     \* capacity of a project's channel (8 in the code)
  HealthTimeout,  \* health_timeout_secs of the projects
  MaxDeploys,     \* bound: rows ever inserted
  MaxSending,     \* bound: callers of enqueue at a time
  MaxFaults,      \* bound: storage errors and vanished callers
  MaxCrashes      \* bound: stops of the process

ASSUME ProjectsAssumption ==
  /\ IsFiniteSet(Projects) /\ NoProject \notin Projects
  /\ AutoStart \subseteq Projects
ASSUME BoundsAssumption ==
  /\ ChannelCap \in Nat \ {0} /\ HealthTimeout \in Int /\ Settings \subseteq Int
  /\ MaxDeploys \in Nat /\ MaxSending \in Nat /\ MaxFaults \in Nat /\ MaxCrashes \in Nat

DeployIds == 1..MaxDeploys

VARIABLES
  \* The database: it survives a stop.
  projects, status, owner, nextId, setting,
  \* The process: its boot phase, the auto-start projects still to enqueue, the
  \* semaphore (its size, free permits and FIFO waiters), the callers between
  \* their INSERT and their try_send, and the channels.
  boot, todo, cap, permits, waitq, sending, chan,
  \* The worker tasks: next step, deploy in hand, row being coalesced away,
  \* seconds of health polling.
  pc, cur, old, elapsed,
  \* History: what each channel accepted since boot; and the bounds' counters.
  accepted, faults, crashes

dbVars == <<projects, status, owner, nextId, setting>>
bootVars == <<boot, todo, cap>>
semVars == <<permits, waitq>>
chanVars == <<sending, chan, accepted>>
workVars == <<pc, cur, old, elapsed>>
envVars == <<faults, crashes>>
vars == <<dbVars, bootVars, semVars, chanVars, workVars, envVars>>

\* The steps of run_deploy that hold the semaphore permit.
Holding == {"log", "pull", "sync", "record", "build", "up", "start", "poll",
            "healthy", "succeed", "fail"}
Phases == {"recv", "drain", "coalesce", "load", "missing", "permit"} \cup Holding

Holders == {p \in Projects : pc[p] \in Holding}

--------------------------------------------------------------------------------
(* Rows.                                                                       *)

\* An UPDATE ... WHERE id = i: it succeeds on no row once the row is gone.
Mark(i, s) == [status EXCEPT ![i] = IF @ = "none" THEN @ ELSE s]

\* The semaphore size DeployManager::new reads: "-1" does not parse as usize.
ParsedConcurrency(n) == IF n \in Nat THEN n ELSE 2

--------------------------------------------------------------------------------
(* Startup and stop of the process.                                            *)

Volatile(to) ==
  /\ boot' = to /\ todo' = {} /\ cap' = 0 /\ permits' = 0 /\ waitq' = <<>>
  /\ sending' = {} /\ chan' = [p \in Projects |-> <<>>]
  /\ accepted' = [p \in Projects |-> <<>>]
  /\ pc' = [p \in Projects |-> "recv"] /\ cur' = [p \in Projects |-> 0]
  /\ old' = [p \in Projects |-> 0] /\ elapsed' = [p \in Projects |-> 0]

Init ==
  /\ projects = Projects /\ setting \in Settings
  /\ status = [i \in DeployIds |-> "none"] /\ owner = [i \in DeployIds |-> NoProject]
  /\ nextId = 1
  /\ boot = "down" /\ todo = {} /\ cap = 0 /\ permits = 0 /\ waitq = <<>>
  /\ sending = {} /\ chan = [p \in Projects |-> <<>>]
  /\ accepted = [p \in Projects |-> <<>>]
  /\ pc = [p \in Projects |-> "recv"] /\ cur = [p \in Projects |-> 0]
  /\ old = [p \in Projects |-> 0] /\ elapsed = [p \in Projects |-> 0]
  /\ faults = 0 /\ crashes = 0

\* The process dies or is stopped, in whatever state its tasks are.
Crash ==
  /\ boot # "down" /\ crashes < MaxCrashes
  /\ crashes' = crashes + 1
  /\ Volatile("down")
  /\ UNCHANGED <<dbVars, faults>>

\* Mutant of Recover: recovery runs beside the start of the workers, and may come to
\* its end when the manager is there already.
RecoverBeside ==
  /\ boot \in {"down", "autostart"} /\ boot' = "recovered"
  /\ status' = [i \in DeployIds |->
                  IF status[i] \in Recovered THEN "failed" ELSE status[i]]
  /\ UNCHANGED <<projects, owner, nextId, setting, todo, cap, semVars, chanVars,
                 workVars, envVars>>

\* cmd_serve: recover_crashed_deploys runs before there is a DeployManager.
Recover ==
  /\ boot = "down" /\ boot' = "recovered"
  /\ status' = [i \in DeployIds |->
                  IF status[i] \in Recovered THEN "failed" ELSE status[i]]
  /\ UNCHANGED <<projects, owner, nextId, setting, todo, cap, semVars, chanVars,
                 workVars, envVars>>

\* DeployManager::new sizes the semaphore; enqueue_auto_start lists the projects.
StartManager ==
  /\ boot = "recovered" /\ boot' = "autostart"
  /\ cap' = ParsedConcurrency(setting) /\ permits' = cap'
  /\ todo' = projects \cap AutoStart
  /\ UNCHANGED <<dbVars, waitq, chanVars, workVars, envVars>>

\* create_deploy: a queued row, which fails on a project that is gone.
CreateRow(p) ==
  /\ p \in projects /\ nextId \in DeployIds
  /\ status' = [status EXCEPT ![nextId] = "queued"]
  /\ owner' = [owner EXCEPT ![nextId] = p]
  /\ nextId' = nextId + 1
  /\ sending' = sending \cup {<<p, nextId>>}
  /\ UNCHANGED <<projects, setting, chan, accepted>>

\* enqueue_auto_start awaits one enqueue before it begins the next.
AutoStartNext(p) ==
  /\ boot = "autostart" /\ sending = {} /\ p \in todo
  /\ CreateRow(p)
  /\ todo' = todo \ {p}
  /\ UNCHANGED <<boot, cap, semVars, workVars, envVars>>

\* The HTTP server starts after the last auto-start request was sent.
Serve ==
  /\ boot = "autostart" /\ sending = {} /\ (todo = {} \/ nextId > MaxDeploys)
  /\ boot' = "serving" /\ todo' = {}
  /\ UNCHANGED <<dbVars, cap, semVars, chanVars, workVars, envVars>>

--------------------------------------------------------------------------------
(* Requests: DeployManager::enqueue and the handlers that touch its state.     *)

\* A handler calls enqueue: the row exists before the request is sent.
Enqueue(p) ==
  /\ boot = "serving" /\ Cardinality(sending) < MaxSending
  /\ CreateRow(p)
  /\ UNCHANGED <<bootVars, semVars, workVars, envVars>>

\* Mutant of Send: the caller tries again although the channel took the request.
SendRetried(p, i) ==
  /\ <<p, i>> \in sending
  /\ IF Len(chan[p]) < ChannelCap
       THEN /\ chan' = [chan EXCEPT ![p] = Append(@, i)]
            /\ accepted' = [accepted EXCEPT ![p] = Append(@, i)]
       ELSE UNCHANGED <<chan, accepted>>
  /\ UNCHANGED <<sending, dbVars, bootVars, semVars, workVars, envVars>>

\* try_send under the workers lock: a full channel drops the request silently.
Send(p, i) ==
  /\ <<p, i>> \in sending
  /\ sending' = sending \ {<<p, i>>}
  /\ IF Len(chan[p]) < ChannelCap
       THEN /\ chan' = [chan EXCEPT ![p] = Append(@, i)]
            /\ accepted' = [accepted EXCEPT ![p] = Append(@, i)]
       ELSE UNCHANGED <<chan, accepted>>
  /\ UNCHANGED <<dbVars, bootVars, semVars, workVars, envVars>>

\* The client goes away: the server drops the handler at an await of enqueue.
CallerGone(p, i) ==
  /\ boot = "serving" /\ <<p, i>> \in sending /\ faults < MaxFaults
  /\ sending' = sending \ {<<p, i>>}
  /\ faults' = faults + 1
  /\ UNCHANGED <<dbVars, bootVars, semVars, chan, accepted, workVars, crashes>>

\* remove_project's DELETE cascades to the project's rows; the worker lives on.
RemoveProject(p) ==
  /\ boot = "serving" /\ p \in projects
  /\ projects' = projects \ {p}
  /\ status' = [i \in DeployIds |-> IF owner[i] = p THEN "none" ELSE status[i]]
  /\ UNCHANGED <<owner, nextId, setting, bootVars, semVars, chanVars, workVars, envVars>>

\* save_settings stores the number; nothing resizes the live semaphore.
SaveConcurrency(n) ==
  /\ boot = "serving"
  /\ setting' = n
  /\ UNCHANGED <<projects, status, owner, nextId, bootVars, semVars, chanVars,
                 workVars, envVars>>

--------------------------------------------------------------------------------
(* worker_loop: receive, drain, run.                                           *)

Goto(p, from, to) == pc[p] = from /\ pc' = [pc EXCEPT ![p] = to]

\* rx.recv(): the first request wakes the worker.
Recv(p) ==
  /\ chan[p] # <<>> /\ Goto(p, "recv", "drain")
  /\ cur' = [cur EXCEPT ![p] = Head(chan[p])]
  /\ chan' = [chan EXCEPT ![p] = Tail(@)]
  /\ UNCHANGED <<dbVars, bootVars, semVars, sending, accepted, old, elapsed, envVars>>

\* Mutant of TakeNewer: the request in hand stays, the later one is dropped.
TakeOlder(p) ==
  /\ chan[p] # <<>> /\ Goto(p, "drain", "coalesce")
  /\ old' = [old EXCEPT ![p] = Head(chan[p])]
  /\ chan' = [chan EXCEPT ![p] = Tail(@)]
  /\ UNCHANGED <<dbVars, bootVars, semVars, sending, accepted, cur, elapsed, envVars>>

\* rx.try_recv() found another request: it replaces the one in hand.
TakeNewer(p) ==
  /\ chan[p] # <<>> /\ Goto(p, "drain", "coalesce")
  /\ old' = [old EXCEPT ![p] = cur[p]]
  /\ cur' = [cur EXCEPT ![p] = Head(chan[p])]
  /\ chan' = [chan EXCEPT ![p] = Tail(@)]
  /\ UNCHANGED <<dbVars, bootVars, semVars, sending, accepted, elapsed, envVars>>

\* Mutant of Coalesce: the dropped row is forgotten, still queued.
CoalesceSilently(p) ==
  /\ Goto(p, "coalesce", "drain")
  /\ old' = [old EXCEPT ![p] = 0]
  /\ UNCHANGED <<dbVars, bootVars, semVars, chanVars, cur, elapsed, envVars>>

\* The replaced row is closed, "coalesced into a newer deploy".
Coalesce(p) ==
  /\ Goto(p, "coalesce", "drain")
  /\ status' = Mark(old[p], "failed")
  /\ old' = [old EXCEPT ![p] = 0]
  /\ UNCHANGED <<projects, owner, nextId, setting, bootVars, semVars, chanVars,
                 cur, elapsed, envVars>>

\* The channel is empty: busy is set and run_deploy begins.
DrainDone(p) ==
  /\ chan[p] = <<>> /\ Goto(p, "drain", "load")
  /\ UNCHANGED <<dbVars, bootVars, semVars, chanVars, cur, old, elapsed, envVars>>

\* get_project_by_id: the record used for the whole deploy is read here, before
\* the wait for a permit.
Load(p) ==
  /\ \/ p \in projects /\ Goto(p, "load", "permit") /\ waitq' = Append(waitq, p)
     \/ p \notin projects /\ Goto(p, "load", "missing") /\ UNCHANGED waitq
  /\ UNCHANGED <<dbVars, bootVars, permits, chanVars, cur, old, elapsed, envVars>>

\* Mutant of Acquire: the size of the semaphore is not looked at.
AcquireUnbounded(p) ==
  /\ waitq # <<>> /\ Head(waitq) = p
  /\ Goto(p, "permit", "log")
  /\ waitq' = Tail(waitq)
  /\ permits' = permits - 1
  /\ UNCHANGED <<dbVars, bootVars, chanVars, cur, old, elapsed, envVars>>

\* semaphore.acquire(): first come, first served.
Acquire(p) ==
  /\ permits > 0 /\ waitq # <<>> /\ Head(waitq) = p
  /\ Goto(p, "permit", "log")
  /\ waitq' = Tail(waitq)
  /\ permits' = permits - 1
  /\ UNCHANGED <<dbVars, bootVars, chanVars, cur, old, elapsed, envVars>>

--------------------------------------------------------------------------------
(* run_deploy.                                                                 *)

\* Mutant of Return: a deploy that fails forgets its permit.
ReturnLeaks(p) ==
  /\ pc' = [pc EXCEPT ![p] = "recv"]
  /\ cur' = [cur EXCEPT ![p] = 0]
  /\ elapsed' = [elapsed EXCEPT ![p] = 0]
  /\ permits' = IF pc[p] \in Holding \ {"fail"} THEN permits + 1 ELSE permits

\* run_deploy returns: its locals go, the permit with them if it has one.
Return(p) ==
  /\ pc' = [pc EXCEPT ![p] = "recv"]
  /\ cur' = [cur EXCEPT ![p] = 0]
  /\ elapsed' = [elapsed EXCEPT ![p] = 0]
  /\ permits' = IF pc[p] \in Holding THEN permits + 1 ELSE permits

\* A step that leaves the row alone: the log file, git, set_deploy_commit,
\* compose up; the calls to git and docker may fail.
Call(p, from, outcomes) ==
  /\ \E to \in outcomes : Goto(p, from, to)
  /\ UNCHANGED <<dbVars, bootVars, semVars, chanVars, cur, old, elapsed, envVars>>

OpenLog(p) == Call(p, "log", {"pull"})
GitSync(p) == Call(p, "sync", {"record", "fail"})
RecordCommit(p) == Call(p, "record", {"build"})
ComposeUp(p) == Call(p, "up", {"start", "fail"})

\* A step that writes the row's next status.
Write(p, from, s, to) ==
  /\ Goto(p, from, to)
  /\ status' = Mark(cur[p], s)
  /\ UNCHANGED <<projects, owner, nextId, setting, bootVars, semVars, chanVars,
                 cur, old, elapsed, envVars>>

\* Mutant of SetBuilding: compose up starts while the row still shows "pulling".
BuildUnannounced(p) == Call(p, "build", {"up"})

SetPulling(p) == Write(p, "pull", "pulling", "sync")
SetBuilding(p) == Write(p, "build", "building", "up")
SetStarting(p) == Write(p, "start", "starting", "poll")
SetHealthy(p) == Write(p, "healthy", "healthy", "succeed")

\* One turn of the health loop: two seconds, then compose ps.  A project that is
\* not healthy when the time is up has failed.
Poll(p) ==
  /\ elapsed' = [elapsed EXCEPT ![p] = @ + 2]
  /\ \/ Goto(p, "poll", "healthy")
     \/ elapsed[p] + 2 < HealthTimeout /\ Goto(p, "poll", "poll")
     \/ elapsed[p] + 2 >= HealthTimeout /\ Goto(p, "poll", "fail")
  /\ UNCHANGED <<dbVars, bootVars, semVars, chanVars, cur, old, envVars>>

\* Mutant of Close: the last write inserts the row again when it is gone.
CloseUnguarded(p, from, s) ==
  /\ pc[p] = from
  /\ status' = [status EXCEPT ![cur[p]] = s]
  /\ Return(p)
  /\ UNCHANGED <<projects, owner, nextId, setting, bootVars, waitq, chanVars, old,
                 envVars>>

\* finish_deploy, the last write of a deploy, and the return.
Close(p, from, s) ==
  /\ pc[p] = from
  /\ status' = Mark(cur[p], s)
  /\ Return(p)
  /\ UNCHANGED <<projects, owner, nextId, setting, bootVars, waitq, chanVars, old,
                 envVars>>

Missing(p) == Close(p, "missing", "failed")
Succeed(p) == Close(p, "succeed", "succeeded")
Fail(p) == Close(p, "fail", "failed")

\* A query (or the creation of the log file) fails: `?` leaves run_deploy with
\* the row as it is.  The drain ignores such an error and goes on.
StepError(p) ==
  /\ faults < MaxFaults /\ faults' = faults + 1
  /\ \/ /\ pc[p] \in {"load", "missing", "log", "pull", "record", "build", "start",
                      "healthy", "succeed", "fail"}
        /\ Return(p) /\ UNCHANGED old
     \/ /\ Goto(p, "coalesce", "drain")
        /\ old' = [old EXCEPT ![p] = 0]
        /\ UNCHANGED <<cur, elapsed, permits>>
  /\ UNCHANGED <<dbVars, bootVars, waitq, chanVars, crashes>>

--------------------------------------------------------------------------------
WorkerStep(p) ==
  \/ Recv(p) \/ TakeNewer(p) \/ Coalesce(p) \/ DrainDone(p) \/ Load(p) \/ Acquire(p)
  \/ OpenLog(p) \/ SetPulling(p) \/ GitSync(p) \/ RecordCommit(p) \/ SetBuilding(p)
  \/ ComposeUp(p) \/ SetStarting(p) \/ Poll(p) \/ SetHealthy(p)
  \/ Missing(p) \/ Succeed(p) \/ Fail(p)

BootStep ==
  Recover \/ StartManager \/ (\E p \in Projects : AutoStartNext(p)) \/ Serve

Next ==
  \/ BootStep \/ Crash
  \/ \E p \in Projects : Enqueue(p) \/ RemoveProject(p) \/ WorkerStep(p) \/ StepError(p)
  \/ \E p \in Projects, i \in DeployIds : Send(p, i) \/ CallerGone(p, i)
  \/ \E n \in Settings : SaveConcurrency(n)

Spec == Init /\ [][Next]_vars

\* A spawned task, a handler past its INSERT and the startup run on; systemd
\* restarts the service after a crash; git and docker commands return.  Nobody
\* has to trigger, remove, save or crash anything.
FairSpec ==
  /\ Spec
  /\ WF_vars(BootStep)
  /\ \A p \in Projects : WF_vars(WorkerStep(p))
  /\ \A p \in Projects, i \in DeployIds : WF_vars(Send(p, i))

--------------------------------------------------------------------------------
(* What is true of it.                                                         *)

TypeOK ==
  /\ projects \subseteq Projects /\ setting \in Settings
  /\ status \in [DeployIds -> Statuses \cup {"none"}]
  /\ owner \in [DeployIds -> Projects \cup {NoProject}]
  /\ nextId \in 1..(MaxDeploys + 1)
  /\ boot \in {"down", "recovered", "autostart", "serving"}
  /\ todo \subseteq Projects /\ cap \in Nat /\ permits \in Nat
  /\ waitq \in Seq(Projects)
  /\ sending \subseteq Projects \X DeployIds
  /\ chan \in [Projects -> Seq(DeployIds)] /\ accepted \in [Projects -> Seq(DeployIds)]
  /\ pc \in [Projects -> Phases]
  /\ cur \in [Projects -> DeployIds \cup {0}] /\ old \in [Projects -> DeployIds \cup {0}]
  /\ elapsed \in [Projects -> Nat]
  /\ faults \in 0..MaxFaults /\ crashes \in 0..MaxCrashes

\* Before startup has repaired the rows and sized the semaphore, no request is held
\* and no worker runs.
QuietAtStartup ==
  boot \in {"down", "recovered"} =>
    /\ sending = {} /\ waitq = <<>> /\ cap = 0 /\ permits = 0
    /\ \A p \in Projects : chan[p] = <<>> /\ pc[p] = "recv" /\ cur[p] = 0 /\ old[p] = 0

\* The places where the request of row i is held by a part of the process.
Custodians(i) ==
  {<<"caller", p, 0>> : p \in {q \in Projects : <<q, i>> \in sending}}
    \cup (UNION {{<<"channel", p, k>> : k \in {n \in DOMAIN chan[p] : chan[p][n] = i}} : p \in Projects})
    \cup {<<"current", p, 0>> : p \in {q \in Projects : cur[q] = i}}
    \cup {<<"dropped", p, 0>> : p \in {q \in Projects : old[q] = i}}

Held(i) == Custodians(i) # {}

\* Every permit is either free or with a worker inside run_deploy: no return path,
\* error or coalescing leaks or doubles one, so at most `cap` deploys run at once.
PermitsConserved == permits + Cardinality(Holders) = cap

\* A request is in one place only, and with its own project: no row is ever
\* deployed twice or written by two tasks.
SingleCustody ==
  \A i \in DeployIds :
    /\ Cardinality(Custodians(i)) <= 1
    /\ \A c \in Custodians(i) : owner[i] = c[2]

\* The status a row shows while its worker is at each step, if it still exists.
ShownAt(s) ==
  CASE s \in {"recv", "drain", "coalesce", "load", "missing", "permit", "log", "pull"} -> {"queued"}
    [] s \in {"sync", "record", "build"} -> {"pulling"}
    [] s \in {"up", "start"} -> {"building"}
    [] s \in {"poll", "healthy"} -> {"starting"}
    [] s = "succeed" -> {"healthy"}
    [] s = "fail" -> {"pulling", "building", "starting"}

\* The UI is never ahead of or behind the worker: a row in a worker's hands shows
\* the state its step belongs to, and one that still waits shows "queued".
StatusMatchesStep ==
  \A p \in Projects, i \in DeployIds :
    /\ cur[p] = i => status[i] \in ShownAt(pc[p]) \cup {"none"}
    /\ (Held(i) /\ cur[p] # i /\ owner[i] = p) => status[i] \in {"queued", "none"}

\* A row leaves the process unfinished only by a stop, a storage error, a caller
\* that vanished, or a send on a full channel: coalescing, rejection, removal and
\* every outcome of git and docker close the row they give up.
OrphansExplained ==
  [][\A i \in DeployIds :
       (Held(i) /\ ~Held(i)' /\ InFlight(status'[i])) =>
         \/ boot' = "down" \/ faults' > faults
         \/ \E p \in Projects : <<p, i>> \in sending /\ Len(chan[p]) = ChannelCap]_vars

\* A request closed without having run was accepted before one its worker has in
\* hand and has not run: coalescing never discards the latest trigger.
SupersededByLater ==
  [][\A p \in Projects, i \in DeployIds :
       (/\ pc[p] = "coalesce" /\ status[i] = "queued" /\ status'[i] = "failed"
        /\ owner[i] = p /\ boot' # "recovered") =>
         \E j, k \in DOMAIN accepted[p] :
           j < k /\ accepted[p][j] = i /\ accepted[p][k] = cur'[p]
             /\ status'[cur'[p]] = "queued"]_vars

\* A trigger given up while still queued gives way to a newer trigger of its project.
LatestTriggerSurvives ==
  [][\A p \in Projects, i \in DeployIds :
       (Held(i) /\ ~Held(i)' /\ owner[i] = p /\ status'[i] = "queued" /\ boot' # "down") =>
         \E j \in DeployIds : j > i /\ owner'[j] = p /\ Held(j)']_vars

\* Once startup has repaired the rows, none is left in progress from before.
NoStaleRowAfterRecovery ==
  boot = "recovered" => \A i \in DeployIds : ~InFlight(status[i])

\* Every request that a channel accepted is closed in the end, or its project is
\* removed: no worker waits for a permit forever, and a row a stop interrupts is
\* repaired by the next start.  The one exception is a stop between "healthy" and
\* the finish of the deploy.
AcceptedSettle ==
  \A p \in Projects, i \in DeployIds :
    (\E k \in DOMAIN accepted[p] : accepted[p][k] = i) ~>
      \/ ~InFlight(status[i])
      \/ status[i] = "healthy" /\ ~Held(i)

--------------------------------------------------------------------------------
(* The pipeline implements its promise.                                        *)

Lifecycle == INSTANCE DeployLifecycle WITH
  running <- [p \in Projects |-> IF pc[p] \in Holding THEN cur[p] ELSE 0],
  Caps <- {ParsedConcurrency(n) : n \in Settings}

ImplementsLifecycle == Lifecycle!Spec
================================================================================
