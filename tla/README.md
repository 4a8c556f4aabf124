# TLA+ specifications of thunder-sandbox

The SDK runs commands in remote sandboxes over SSH connections that come and go.
Its central promise is in the repository's README.md: a command is launched as a
*durable job* that outlives the channel it was submitted on; after a lost connection
the SDK "resumes observing the same job rather than launching it again", output
resumes "without gaps or duplicate output", and `terminate()` gets from SIGTERM to
SIGKILL whatever happens to the acknowledgements. Around that promise are the
connection everything goes over, the credentials it is opened with, the life of the
sandbox it leads to, its network policy, and the transfer of files. These modules
say what each of them promises, model the code that has to keep it, check it with
TLC on small instances and prove their safety with TLAPS for all instances.

    tlc -workers 2 -config job_safety.cfg MCDurableJob.tla
    tlapm SSHConnectionProof.tla

Paths below are relative to `src/thunder_sandbox/` of the repository.

## Inventory

| Component | State | Operations | What is hard | What makes it correct |
|---|---|---|---|---|
| Durable job on the guest, `asynchronous/_jobs.py`, `asynchronous/sandbox.py:505-769` | job directory, `status.json`, `termination.request`, `supervisor.pid`, two `flock`s, process groups | submission, launcher (wrapper), SIGTERM / SIGKILL shell, status read, removal | shells that outlive their channel, retries, signals at any instruction, descendants, inherited descriptors, crashes | until it is removed: started once; status only advances and is never early; no command escapes a termination; an acknowledgement means a wrapper is in charge |
| Durable process handle, `asynchronous/process.py` | cached status, status / cleanup / termination lock, two readers (offset, buffer, EOF), background removal | `poll`, `wait`, `terminate`, `cleanup`, `read`, `readline`, `__del__` | coroutines interleaved at every await, answers that are old when taken in, cancellation, retries | output whole; removal takes nothing that is still wanted; `terminate` and `wait` end |
| Attached PTY process, `asynchronous/process.py` | an asyncssh process | stdin, `wait`, `terminate` | never replayed | (library) |
| SSH connection manager, `asynchronous/_ssh.py` | cached connection, lock, closed flag | `get`, `run`, `discard`, `close` | stale discard, close against open, budget and deadline in one loop | one connection; nothing opened after close; retries end |
| Sandbox lifecycle, `asynchronous/sandbox.py:106-300, 1495-1645` | last response, owned client | `create`, `from_id`, `wait_until_ready`, `wait`, `terminate` | rollback on failure or cancellation, four ways out of one polling loop | no sandbox left behind; deadline kept; client closed once |
| Network policy, `asynchronous/sandbox.py:1221-1368` | generations in the API | `update_network_policy` | updates of several clients | returns only when its own generation is enforced |
| File transfers, `asynchronous/_transfer.py`, `asynchronous/sandbox.py:778-1213` | staging and backup paths, local and remote | upload, download, publish | failure between two renames, retried publication, a removal that comes late, cancelled publisher thread | what is reported as done is whole; on failure the old content is kept |
| API client, `asynchronous/client.py` | session, workspace cache | requests, workspaces | closing, stale cache | |
| Image preparation, `image.py`, `asynchronous/client.py:292-556` | build context, upload | resolve, upload, wait | two deadlines on two clocks | ends by the earlier one |
| SSH credentials, `asynchronous/credentials.py` | credentials of each `Client`, three cache files | `ensure`, `renew` | clients share files; torn writes; rejected certificates | a rejected credential is not kept |
| Synchronous bridge, `synchronous/_bridge.py` | loop thread, closed flag | `run`, `run_async`, `close` | threads | every caller returns |
| Synchronous facades, shared types and configuration | none | conversions | | |

A sandbox object owns one `SSHConnectionManager` and perhaps a `Client`; the manager
opens connections with credentials of the client's `CredentialStore`. A job is submitted
through `SSHConnectionManager.run`, which repeats an operation whose answer is lost. So
every remote shell may run more than once, and an old one may still be running when
the new one starts: that is where the durable job and the transfers get their
difficulty from. A `Process` handle sees the job only through remote calls of that
kind; several coroutines use one handle. `terminate()` of the sandbox closes manager
and client under everything that is still using them. `PROJECT.json` lists the
components and, line by line, the hazards.

## Modules

| Module | Models |
|---|---|
| `DurableJob` | the guest half of a job: submission, wrapper, command, signals, removal |
| `JobLifecycle` | abstract: what a job promises, in four actions, and where the promise ends |
| `DurableProcess` | the client half: a handle, its coroutines, its readers |
| `SSHConnection` | the shared connection: get, discard, repeat, close |
| `Credentials` | one key and its certificates, in memory and on disk, between clients |
| `SandboxLifecycle` | create, wait, terminate, against an API that loses answers |
| `NetworkPolicy` | `SandboxLifecycle` and updates of the policy of that sandbox |
| `Transfers` | one upload or download, its publication, its cleanup |
| `DurableJobProof`, `DurableProcessProof`, `SSHConnectionProof`, `CredentialsProof`, `SandboxLifecycleProof`, `NetworkPolicyProof`, `TransfersProof` | theorems |
| `MC...` | the names of an instance, symmetry |

### DurableJob

One action is one step a shell makes that another process can tell apart: a rename,
a lock, a grep of the status, a fork, a kill.

| Code | Actions |
|---|---|
| `Sandbox._launch_detached_job` | `Submit`, `LoseChannel`, `Truncate` (the script comes over stdin) |
| `submission_command` | `Publish` (stage, `mv -T`), `OpenSubmissionLock`, `LockSubmission`, `LockTimeout` (`flock -w 15`), `StartLauncher`, `PollSeesStart`, `PollExhausted` (one hundred polls, two rounds), `Answer` |
| `launcher_script` | `OpenRunLock`, `LockRun`, `CheckPrepared`, `RecordSupervisor`, `WriteStarting`, `ForkPayload`, `WriteRunning`, `Reap`, `Untrap`, `Decide`, `BeginWalk`, `ReadEntry`, `Drain` (`payload_group_running`), `WriteTerminated`, `WriteExit` |
| the command | `PayloadStart` (looks for a termination request first), `PayloadForks`, `PayloadExits`, `DescendantExits` |
| `signal_command` | `SendSignal`, `RecordRequest`, `GuardSignal`, `DeliverTerm`, `DeliverKill`, `AwaitGroup`, `RecheckTerminal`, `RecordKilled`, `AnswerSignal` |
| `Process._refresh_status`, `cleanup_command` | `Observe`, `CleanUp` |
| the kernel | `GroupDies` (SIGKILL takes effect), `Crash` (a wrapper is killed alone) |

* A file is its content at a path; a lock belongs to the file a shell opened, so
  `fd8` and `fd9` hold the generation of the directory, named by the shell that
  published it. A lock is held while any process that inherited the descriptor lives.
* `wpc`, `spc` and `xpc` are positions in the scripts. A wrapper is identified by its
  shell and launch round, and stands for its PID; `status.pid` is such a wrapper.
* The immediate child of a wrapper is `main`, everything else in its group `kin`:
  descendants that can outlive the child and fork while there is room in `Descendants`.
  SIGTERM may be ignored by any of them.
* `payload_group_running` is not one look at the group: the shell expands
  `/proc/[0-9]*/stat` (`BeginWalk`, which sets `left`), then reads entry by entry
  (`ReadEntry`), while the group forks and its members exit. `grown` remembers that the
  group forked during the last walk.
* `revived` remembers that the job was published again after its removal: `mv -T`
  (`_jobs.py:528`) succeeds where nothing is, and neither the client nor
  `cleanup_command` waits for a shell that lost its channel while staging. The
  properties below speak of the life of a job up to then, and say so
  (`FirstLife == ~revived`); `JobLifecycle` goes to `"revived"` and promises nothing more.
* A status write is a rename by a child process: SIGKILL may come too late for it,
  and SIGTERM may end the child before it has renamed.
* Status writes into a directory that has gone are skipped, as they fail in a shell
  without `set -e`.
* A shell that has lost its channel goes on: the client may already run another.

### DurableProcess

A coroutine runs from one await to the next; `pc` names the await it is at. A
remote call is three steps: the coroutine leaves for it, the guest makes up an
answer (`AnswerStatus`, `AnswerOutput`, `AnswerTerm`, `AnswerKill`, `AnswerRemove`),
the coroutine takes it in (`TakeStatus`, `TakeChunk`, ...). An effect without an answer
is a call `SSHConnectionManager.run` repeats. `Cancel` is `asyncio.wait_for` or the
program; `CallFails` is a call that gives up. Bytes are counted and not told apart:
`offset` says where a reader goes on, `have` which bytes it got, `lost` which were in
chunks that did not decode, `written` and `final` how much the command wrote, in all
and until the terminal status. `fetch` is what a read under way took along before its
await: the offset it asked from, up to where the answer goes, and whether the job was
over before. The offset moves by the length of the answer when that is taken in, so it
is the lock of the reader that keeps two reads of one stream from fetching the same
bytes: `"out"` and `"outToo"` are two coroutines that read one stream.

| Code | Actions |
|---|---|
| `_refresh_status`, `_record_status` | `FindStatus`, `AskStatus`, `TakeStatus` |
| `poll`, `wait`, `cleanup`, `__del__` | `BeginWaiting`, `Wake`, `LockCleanup`, `TakeRemoved` |
| `_DurableReader._fetch`, `read`, `readline` | `BeginReading`, `LockReader`, `StartReading`, `TakeChunk`, `TakeEmpty`, `TakeNoFile` |
| `terminate`, `_accept_status` | `BeginStopping`, `TakeSignal`, `Accept`, `GraceExpires`, `Wake` |
| `_maybe_auto_cleanup`, `_cleanup_remote` | `Removable`, `GoOnRemoving`, then the task `<<h, "auto">>` |
| `Sandbox.exec`, `get_process` | `Open` |

The terminal states are one value, `over`: no decision of a handle depends on which
it was. A cancelled call is taken to have had its effect by then, or never.

### SSHConnection

A coroutine runs from one await to the next; `pc` names the await, `lock` is
`_connection_lock`, `cached` is `_connection`, and `live` holds the connections whose
`is_closed()` is false. A name of a connection is used again when nobody refers to it.

| Code | Actions |
|---|---|
| `get` | `Get` (without the lock), `TakeLock` (again, in it), `Opened`, `OpenFails`, `OpenRefused` |
| `run` | `Start` (with or without a deadline), `WorkEnds`, `WorkFails`, `Assess`, `Wake`, `Cancel` |
| `discard` | `Evict` (before its await), `Discarded` (after it) |
| `close` | `BeginClose`, `CloseManager`, `Drained` |
| the network, the clock | `Lose`, `Tick` |

`Attached` operations are channels that `Sandbox._create_process` opens: they use the
manager like `run` does, but an error ends them. Time is counted in ticks; a pause is
within a tick or lasts some, and never goes past the deadline.

### Credentials

The credentials in memory and the lock around them belong to a `Client`
(`client.py:94-102`), so `current` and `lock` are indexed by clients, and the sandboxes of
one `Client` are the siblings `RefusalsShareRenewal` is about. A sandbox that is created
without a client opens its own (`sandbox.py:155-156`, `259-260`) and shares no more than
the files with others, even in one process: each may mint a certificate.

`_save` is a loop over files without an await: other coroutines of the client do
not run meanwhile (`Scheduled`), other processes do, and a kill can come between any
two writes, or between the truncation of a file and its content (`Truncate`, `Write`).
Clients of one process are not told apart from clients of two, whose writes do
interleave: more happens in the model than in such a program. `Load` reads the three
files in one step, where the code reads them one after the other; what a reader may
find then, the files of a save that is half done, are states of the model as well.

| Code | Actions |
|---|---|
| `ensure`, `renew` | `Ensure`, `EnsureLocked`, `RenewLocked`, `RequestCertificate` |
| `_mint`, `_save` | `Certified`, `MintFails`, `SameBurst`, `Truncate`, `Write`, `SaveFails` |
| `_load` | `Load` |
| `Sandbox._open_connection` | `Ensure`, `Connected`, `Refused`, `ConnectFails` |
| outside | `Crash`, `NextPeriod` (certificates expire), `Rotate` (the authority changes) |

### SandboxLifecycle and NetworkPolicy

A request is served (`Serve...`) and its answer taken in by different steps, and the
sandbox may change in between. `RequestFails` is a `ConnectionError` or
`RetryableError` before or after the request took effect. `Grace` counts failures in a
row, where the code measures the time since the first of them.

| Code | Actions |
|---|---|
| `create`, `from_id`, `from_name` | `BeginCreate`, `Prepared`, `Started`, `Fetched`, `Executed`, `Undone` |
| `_wait_for_startup`, `_read_startup_state` | `WindowElapsed`, `StartupSeen`, `NotFound`, `Settle`, `StillStarting`, `Persist` |
| `wait`, `wait_until_ready` | `BeginWait`, `Polled`, `StartupOver` |
| `terminate`, `_stop_sandbox` | `BeginTerminate`, `Stopped`, `StopRefused`, `Refreshed`, `Closed` |
| every await | `Cancel`, `Expire`, `Missing` |
| `update_network_policy` | `BeginUpdate`, `Accepted`, `Pending`, `Refused`, `Flushed`, `UCancel` |
| `_wait_for_network_policy` | `Confirmed`, `Unconfirmed`, `URequestFails` |
| the API, the sandbox | `Serve`, `SandboxMoves`, `ServePatch`, `ServeConfirm`, `OthersUpdate`, `Enforce` |

`NetworkPolicy` extends `SandboxLifecycle`: its `Next` is a step of the lifecycle, of
the service, or of an update, so an update meets the `terminate()` that closes its
client and its connection, and what it reads becomes the status `terminate()` trusts.

### Transfers

A path is `None` or a tree: a file, a directory or a link to a directory, and the
entries in it. `thread` is the position of the publisher of a download, `rpc` those of
the publishing commands of an upload, of which an old one may still run when the next
is started. `sweeping` is the directory `rmtree` has open, which follows a rename.

An attempt to copy begins by emptying the staging path. For a download that is done
here; for an upload it is a command (`rm -rf`, and `mkdir` for the contents of a
directory), which is run again by the next attempt when no answer came
(`sandbox.py:944-946`). The first one may then still be to run: `late` is where it is.
It is in nobody's way before the next attempt has emptied the path once more; what it
does from then on sets `disturbed`. It works on open directories and is taken along by
the `mv` that publishes, from the stage into the destination (`"in target"`). In a
container the stage is root's after `chown`, and the user's `rm` gets nothing.
`sent` is what this attempt has copied, which scp does not look at again.

| Code | Actions |
|---|---|
| `_download_from_container` | `Extract`, `Extracted`, `Release` |
| `_retry_scp`, `_reset_remote_transfer_path` | `Reset`, `ResetLost`, `LateOpens`, `LateRemoves`, `LateRmdir`, `LateMakes`, `LateEnds`, `CopyEntry`, `Copied`, `CopyLost`, `CopyFails` |
| `publish_local_transfer`, `publish_local_contents` | `PublishLocally`, `Combine`, `List`, `Overlay`, `Overlaid`, `Unwind` |
| `_replace_local_transfer` | `MoveAside`, `Replace`, `ReplaceFails`, `Swap`, `SwapFails`, `DropBackup` |
| `_publish_remote_transfer`, `_upload_to_container`, `_upload_guest_contents` | `PublishRemotely`, `Test`, `Decide`, `Own`, `Make`, `Merge`, `Merged`, `Move`, `Killed`, `PublishedRemotely` |
| `_within_timeout`, finally clauses | `Interrupt`, `CleanUpRemotely`, `UnlinkStage`, `SweepBegins`, `SweepEntry`, `CleanedUpLocally` |

## Runs

| Run | Question | Instance | States |
|---|---|---|---|
| `job_safety` | Until it is removed and published again: does a job keep its lifecycle, start once and obey a termination, is its status never early or overwritten? | 2 submissions of 2 rounds, 1 SIGTERM, 1 SIGKILL, 2 descendants, wrappers crash (symmetric) | 1 190 000 |
| `job_signals` | Does SIGKILL lead to a terminal status, and is an end recorded although signals interrupt the wait? | 1 submission, 2 SIGTERM, 1 SIGKILL, 1 descendant, fair | 148 000 |
| `job_ends` | Do submissions end, whoever has the lock? | 2 submissions, wrappers crash, fair | 121 000 |
| `process_safety` | Is each byte taken once, and removal harmless, in every interleaving? | 1 recovered handle: terminate, cleanup, two reads of one stream; calls fail, text does not decode | 634 000 |
| `process_ends` | Do terminate and wait end, and is the job removed? | 1 handle: wait, terminate, read; fair | 45 000 |
| `ssh_connection` | Is there one connection, is it let alone, does every loop end? | 1 run, 1 attached channel, 1 close, fair | 36 000 |
| `credentials` | Do siblings share a renewal, and is a refused certificate gone? | 2 sandboxes of one `Client`, 1 of another, kills (symmetric) | 1 230 000 |
| `sandbox_lifecycle` | Is nothing left behind, is the client closed once, do calls end? | create, 1 waiter, 1 terminate, fair | 156 000 |
| `network_policy` | Does an update return only after it was in force, and end? | create, 1 terminate, 1 update, others, fair | 820 000 |
| `transfers` | Is the destination whole, kept on failure, nothing littered? | every kind of transfer of 3 files, 3 publications, 1 late reset (symmetric) | 1 250 000 |
| `job_refused`, `download_interrupted` | counterexamples, see Findings | | |

### Bounds

Two submissions with two launch rounds are four wrappers, which is what it takes for
a retry to race both rounds of an attempt; a third submission meets only what the
second met. Two SIGTERM shells are a signal and its retry. Two descendants are one that
forks and exits during the walk over `/proc`, and the one it leaves there; `job_signals`,
whose properties do not depend on what a walk misses, has one, and `job_ends`, which has
no signals, none. The polls of one round are one step: what matters is whether the
status changed before the last. `rm -rf` of a removed job is one step too. `job_safety`
and `job_ends` do not follow a job past its second publication (`CONSTRAINT FirstLife`):
every property of `job_safety` is about its first life by its statement, but what
becomes of a submission that has published a job again is not seen by `SubmissionEnds`. A handle shares
nothing with another handle but the job; one handle with four coroutines and its
background task has all the locks contended. `MaxBytes` 1 with `ChunkSize` 1 makes
a chunk, an empty read and output that appears after an empty read; the chunk may not
decode (`BadText`), and the second read may ask for it while the first does.

A stale discard takes two operations on one connection and a replacement, hence two
operations and three names (both held and the cached one). `Budget` 2 and `Deadline` 2
are the least at which a retry can fall before, at and after either.

Sharing a renewal takes two sandboxes of a client, mixed-up files one of another
client. Three certificates are the refused one and two that could replace it; one
change is a period that ends or an authority that rotates. Two keys tell a new key
from the one a certificate is over.

`Grace` 1 is one failure that is borne and one that is not. `create`, one waiter and one
`terminate()` share a handle and a client in every order; `Timed` gives `create` and
`terminate()` a deadline and the waiter none, which is what `WaitEnds` needs. An update
needs somebody who supersedes it: `MaxGeneration` 2 gives each order of its own
generation and another, and room for a repetition that should not be (`NeverReplayed`).

Three files let a merge be seen before, between and after entries while another
command or `rmtree` works on the same tree. Three publications are one that is
lost and still works, one that is lost and is over, and one that is waited for. One
reset at a time is late; when it is over another may be.
`Init` has every combination of upload or download, directory, contents of a
directory or file, guest or container, over nothing, a file, a directory or a link.

Deadlock is checked for the handle. In the other runs the system may stop: a job
that nobody removes stays, a call ends, a connection need not be opened.

### Fairness

* `GuestFairness`: the guest schedules its processes, so each shell and wrapper whose
  step is enabled takes it, a forked child gets to its first command, and SIGKILL takes
  effect. Nothing is said of the client, the connection or the command, which may run
  for ever.
* `LoopFairness` (`DurableProcess`): asyncio runs every task that can go on; its locks
  wake waiters first come first served, so a task that finds its lock free again and
  again gets it (strong fairness); sleeps and the grace period end; a call that is
  repeated is answered in the end. The last is not true of a network that is down for
  good, which is what `CallsMayFail` and `process_safety` are for.
* `LoopFairness` (`SSHConnection`): the same of tasks and locks; an attempt to connect
  ends, since it has a timeout, and an operation notices when its connection is gone
  (keepalive). Not that a healthy operation ends: `RunEnds` says so of the operations
  whose attempts come to an end.
* `CallFairness`: requests have a timeout, so a call gets an answer or a failure, and
  deadlines pass. Neither the service nor the sandbox owes anybody a move.
* `UpdateFairness`: updates go on, and a sandbox that is ready enforces the policy that
  is desired. Without the latter an update without a timeout may wait for ever, as
  the code means it to.

### Properties

Of a job, `AtMostOnce`, `TerminalMeansOver`, `TermReachesPayload`, `AckMeansStarted` and
`StatusAdvances` are its safety, `SubmissionEnds`, `ExitRecorded` and `KillRecorded` its
liveness, `ImplementsLifecycle` the refinement of `JobLifecycle` with the persisted state
as `phase` and the wrappers whose command was started as `started`. All but
`SubmissionEnds` and `KillRecorded` are about the first life of a job: its statement says
`FirstLife`, or, for the refinement, its abstract side gives up at `"revived"`.
`OnlyStragglersRevive` is about the way out of it: a removed job comes back only through
a submission shell that lost its channel while it staged, after another one was
acknowledged. `TerminalMeansOver` excepts a group that forked during the wrapper's last
walk over `/proc`. What both leave out is in the table of disagreements. Of a handle,
`EofMeansAll` and `NoGaps` are about output, `OwnReadsFindJob`, `RemovesOnlyFinished` and
`AutoRemoved` about the removal, `StoppedMeansOver` and `CallsEnd` about termination.

Of the connection, `NoTransportLeft`, `ClosedForGood` and `Undisturbed` say who may be
connected and who may take a connection away, `RunEnds` and `CloseEndsAll` that loops
end. `RefusalsShareRenewal` and `RefusedIsReplaced` are about certificates that were
rejected: the connections of one `Client` that can succeed have one credential, and the
second attempt is made with another one than the first, which is then gone from the
cache if it looked usable and no save was ever cut short: `unsaved` stays once a kill or
a failed write has set it, and from then on only the second attempt is judged. That two connections that were refused the *same*
credential use the same one next is too much to ask for: with a third one and two
rotations, one may be on its way with the first renewal, by then refused to the third,
while another gets the second. Of the sandbox, `NoOrphan`, `ClientKept` and `TerminateMeansStopped` are about
what is left behind, `FallbackWarranted` about the endpoint an older API lacks,
`TimeoutEnds` and `WaitEnds` about loops. `SuccessMeansInForce`, `NeverReplayed` and
`UpdateEnds` are what an update promises. `OkMeansWhole`, `OldOrWhole` and `NothingLeft`
are about the destination of a transfer and what is beside it, `RepeatSucceeds` about
a publication whose answer was lost. Where a late reset came to what a later attempt had
staged (`disturbed`) they claim no more than that a directory keeps what it had;
`OldOrWhole` is about downloads, which have no such reset.

Every definition has a comment that says it in words; for each one `PROJECT.json` names
a plausible mistake in the code (the operators marked "Mutant") that TLC finds with it.

## Proofs

Every safety property of a passing run is a theorem, for every value of the constants,
under assumptions that say that names are distinct and bounds are numbers, and no others.
Each module defines an invariant that is inductive (checked with TLC first), proves that
`Init` establishes it and that each action keeps it, and derives the properties from it.

### The job

`DurableJobProof` proves, for any sets of submission and signalling shells, with
crashing wrappers or without:

| Theorem | States |
|---|---|
| `TypeCorrect` | `TypeOK` |
| `Invariance` | the inductive invariant `Inv` |
| `StartedOnce` | `AtMostOnce` |
| `NeverEarly` | `TerminalMeansOver` |
| `NoneEscapes` | `TermReachesPayload` |
| `Acknowledged` | `AckMeansStarted` |
| `OnlyAdvances` | `StatusAdvances` |
| `BroughtBack` | `OnlyStragglersRevive` |
| `Refinement` | `ImplementsLifecycle` |

The assumptions are `ShellsAssumption` and `SwitchesAssumption`, which say that the
names are distinct. `Inv` is `TypeOK` with `FirstLife => Life`: of a job that was published
again only the types are known, and no step leads back.

None of the properties is inductive. That a command starts once depends on who may
be past the run lock, which depends on all wrappers having opened the lock of one
directory, which depends on no shell publishing a second one. `Life` says so in parts:
`BeforePublication` and `AfterRemoval` (nobody launches before, and what is removed
the client has seen the end of, so it submits no more: whoever publishes again is a
straggler), `FreshRounds` (a wrapper is launched once), `OneGeneration` and `OneOwner`
(one lock, one owner), `Claiming` (a status other than prepared is the owner's doing,
and nothing is forked before it), `InCharge` (status, supervisor and signals name the
same wrapper), `Progress` (the status goes with that wrapper's position; a SIGKILL
shell records only when the whole group is dead; what a walk has still to read has all
that is alive in the group, unless it forked meanwhile), `RequestFirst` (a signal is
preceded by the request a late child looks for). The proof has one step per
action. `PersistedSteps` then classifies every step by what it does to the persisted
job, and `OnlyAdvances` and `Refinement` follow from it.

### The connection

`SSHConnectionProof` proves, for any numbers of operations, closers and connections, any
budget and any deadline:

| Theorem | States |
|---|---|
| `TypeCorrect` | `TypeOK` |
| `Invariant` | the inductive invariant `IInv` |
| `NoneLeft` | `NoTransportLeft` |
| `StaysClosed` | `ClosedForGood` |
| `TakenOnlyByItsOwn` | `Undisturbed` |

Its assumptions are `NamesAssumption` and `TimeAssumption`: the names are distinct, the
budget is not zero. That the only transport is the cached one is not inductive: the
step that connects replaces `cached`, so it must be known that nothing healthy was
there, although `get()` looked long before. `IInv` adds why: who connects holds the lock
and nobody else does (`LockHeld`), and while somebody holds it nothing healthy is cached
and the manager is open (`OpensWhenNeeded`), because the only other step that caches a
connection or closes the manager needs the lock. `DroppedForGood` (nothing is cached
after `close()`) turns this into `ClosedForGood`. `Undisturbed` follows from `IInv` step by
step: `discard()` takes away what its own operation held, and a closed manager has
nothing to take.

### The handle

`DurableProcessProof`, for any handles, operations, readers and amounts of output, and
any choice of calls that may fail:

| Theorem | States |
|---|---|
| `TypeCorrect` | `TypeOK` |
| `Invariance` | the inductive invariant `IInv` |
| `OutputWhole` | `EofMeansAll` |
| `OwnRemovalUnseen` | `OwnReadsFindJob` (reads, waits and polls; not `terminate()`) |
| `StopIsTrue` | `StoppedMeansOver` |
| `RemovalIsLate` | `RemovesOnlyFinished` |
| `EachByteOnce` | `NoGaps` |

A coroutine acts on what it was told before its await. So `IInv` says of every answer
that is under way what of it will still be true when it is taken in: `OverIsOver` (an
end that anybody knows of, in the cache, in a reply, in what a fetch took along, has
happened; it is final), `EmptyMeansAll` (an empty read begun after the end says that
nothing is left), `MissingIsRemoved`, `WithinFile` (what a read will add is in the
file). `OnlyWhenDone` is why a background removal harms nobody on its handle: when it
begins, the end is known and every stream is read, and `NotAgain` says that neither is
asked for again. `NoGaps` is not the business of one step: the offset is moved by the
length of an answer that was asked for at the offset of some time ago. `ReaderLocked`
(one read at a time has a reader, from its status refresh on) is what makes `WithinFile`
inductive: a fetch under way asks at the very offset its reader still has. So each
answer continues where the bytes had and the bytes lost together end.

### The credentials

`CredentialsProof`, for any clients, workspaces and connections, any number of
mints, expiries, rotations and kills:

| Theorem | States |
|---|---|
| `CredentialsTyped` | `TypeOK` |
| `CredentialInvariance` | the inductive invariant `CInv` |
| `RenewalShared` | `RefusalsShareRenewal` |
| `RefusedGone` | `RefusedIsReplaced` |

Its assumptions are `BoundsAssumption` and `NoneAssumption`. That siblings agree rests on
`InStore`: who is about to connect has what its store has, or would be refused. A store
is overwritten by who holds the lock of its client only, and what is overwritten is of
no more use to anybody (`InStore` of the maker), expired or refused; a certificate that
is not accepted never will be again, since periods and authorities only go forward
(`Sound`). That a refused certificate stays out of the cache must hold against other
clients, which know nothing of it: `AllSettled` says that no certificate that anyone
has, in memory, in use or refused, is one that somebody has still to write, and
`Superseded` carries from the refusal to the second attempt that it is either still the
store's or gone from the file for good. The key beside it may be anyone's, which is why
`CacheMatches` fails and these do not depend on it.

### The sandbox and its policy

`SandboxLifecycleProof` and `NetworkPolicyProof`, which extends it, for any number of
calls of each kind and any `Grace`:

| Theorem | States |
|---|---|
| `LifecycleInvariance`, `LifecycleTyped` | the inductive invariant `LInv`, `LifecycleTypeOK` |
| `NoneOrphaned` | `NoOrphan` |
| `SessionKept` | `ClientKept` |
| `FallbackIsWarranted` | `FallbackWarranted` |
| `TerminateStops` | `TerminateMeansStopped` |
| `PolicyInvariance`, `PolicyTyped` | the inductive invariant `UInv`, `TypeOK` |
| `SuccessIsTrue` | `SuccessMeansInForce` |
| `NoneReplayed` | `NeverReplayed` |
| `LifecycleUndisturbed` | the four properties of the lifecycle, in the composition |

The actions of a call are not proved one by one: `Keeps`, `Concludes`, `Creates` and
`Shuts` say what any of them may do, each action is shown to do no more, and the
invariant follows from them. `LInv` has that an answer is one to the request it waits
for, and that those which are acted upon stay true (`AnswersTrue`: over, stopped;
`NotFoundTrue`: a 404 that a plain read contradicts comes of the endpoint); `RolledBack`
has that a `create()` that raised tried to undo what it had. Of an update, `ToldTrue` and
`OnceAccepted` have that what a call was told was in force at some time, and that a call
whose answer is still open has had nothing accepted. An update changes the status that
the other calls believe in, so `LInv` is proved again over the steps of `NetworkPolicy`.

### The transfers

`TransfersProof`, for any payload, any destination and any number of runs of the
publishing command:

| Theorem | States |
|---|---|
| `TransferInvariance`, `TransferTyped` | the inductive invariant `TInv`, `TypeOK` |
| `OkIsWhole` | `OkMeansWhole` |
| `OldOrNew` | `OldOrWhole` |
| `NothingIsLeft` | `NothingLeft` |
| `RepeatsSucceed` | `RepeatSucceeds` |

The assumptions are that there are files to transfer and that names are distinct.
`TInv` tells the two kinds of transfer apart. `Download` says at each position of the
publishing thread where the old tree and the new one are; it holds until a timeout or a
cancellation, after which the thread works on a staging directory that is being removed
(`download_interrupted`). `Beside` holds on both sides of that: it says who is still to
remove what. `Upload` and `Repeat` are about the runs of the command together, because
those whose connection was lost go on beside the one that is waited for: what a merge
has not copied yet is in its own list or already at the destination, whoever put it
there, and the stage is gone only when the destination is whole. They hold until a late
reset comes to what a later attempt has staged (`disturbed`); `Staged` says that before
it does the stage has what was sent. `Held` needs neither: what a directory at the
destination had is never taken away, since a reset gets there only by an `mv`, which
does not take the place of a directory that has something in it.

### Only model-checked

The liveness properties (`SubmissionEnds`, `ExitRecorded`, `KillRecorded`, `CallsEnd`,
`AutoRemoved`, `RunEnds`, `CloseEndsAll`, `TimeoutEnds`, `WaitEnds`, `UpdateEnds`): they rest
on fairness and on what is enabled, which the prover does not reason about. What is
refuted (the violation runs, the table below) is a counterexample and has no proof.

## Findings

* `job_refused`: the submission lock's descriptor is inherited by the command
  (`asynchronous/_jobs.py:535`), so the retry of a lost submission is refused after 15
  seconds while the command runs, instead of resuming it.
* `download_interrupted`: a download that is timed out or cancelled while its thread
  publishes it removes the staging directory beside the thread
  (`asynchronous/sandbox.py:901`). The destination gets a part of the files, or is emptied
  after it was complete.

### Disagreements without a run of their own

The modules state these as well; TLC shows each with the given configuration
and the definition as its only property.

| Definition | How | What |
|---|---|---|
| `OnceForGood` | `job_refused.cfg` | The run lock lives in the directory that cleanup removes. A shell that lost its channel while staging, and is still there after its retry ran the job and the job was removed, publishes it again (`_jobs.py:528`) and runs the command twice, against README.md:191-193 of the repository ("rather than launching it again"). |
| `TerminatedMeansGone` | `job_safety.cfg` | The walk of `payload_group_running` is not atomic (`_jobs.py:419-435`): a member of the group that forks after `/proc` was listed and has exited when its entry is read leaves one that the walk does not meet, and `terminated` is published with it alive, against the comment at `_jobs.py:468-470` ("until the whole job process group is actually gone"). |
| `WrapperKeptAlive` | `job_signals.cfg`, `Spec`, `KillShells = {}`, `WrapperCrashes = FALSE` | The wrapper drops its SIGTERM trap before it waits for the rest of its group (`_jobs.py:466`); a repeated SIGTERM ends it with the status still `running`. |
| `NoFalseBackward` | `process_ends.cfg`, `Spec` | `terminate()` takes an answer that a concurrent `wait()` has overtaken for a job that moved backward, and never sends SIGKILL (`process.py:506`). |
| `NothingLost` | `process_safety.cfg` | In text mode a chunk that does not decode is lost, since the offset is past it by then (`process.py:222`): the next read goes on behind it, against README.md:212 ("without gaps"). |
| `CacheMatches` | `credentials.cfg` | Key and certificate are written one after the other (`credentials.py:221`), by clients that do not know of each other: a fresh certificate lies beside a key it is not over, and is offered. `RefusedIsReplaced` is what becomes of it. |
| `HalfCreatedStopped` | `sandbox_lifecycle.cfg` | A `create()` that is cancelled while its sandbox is starting asks for a stop, which the API may refuse for a sandbox that is not ready; the refusal is suppressed (`sandbox.py:244`) and the sandbox stays. `NoOrphan` is what holds. |
| `ReturnedIsWhole` | `transfers.cfg` | The `rm -rf` of an attempt whose connection was lost (`sandbox.py:944`) runs when the next attempt has staged its payload; the publishing command finds no staging path, takes its work for done and exits with 0 (`sandbox.py:1015-1018`). `upload()` returns with nothing at the destination, or, for the contents of a directory, with a part, against README.md:273 ("Transfers retry from the beginning after a lost connection"). `OkMeansWhole` is what holds. |

Nor does the README's merging of directories hold for a destination that is a link to
a directory: the publisher sees a directory, and `os.replace` fails on the link with
`NotADirectoryError`. In `Transfers` that is `ReplaceFails` on a `Link`.

## Not modelled

* The container variant of the wrapper and of the signalling shell: its second process
  group, its PID file, two writers of the terminal status (planned).
* Attached PTY processes, beyond the opening of their channel: no state of the SDK.
* Image preparation: one coroutine that repeats idempotent requests and shares
  nothing but the client; its archive and its Dockerfile are pure data.
* The synchronous bridge: one flag, one loop, and one race, between the check of
  `_closed` in `run()` and the submission of the coroutine (planned). The facades over it
  keep no state, and the shared types are data.
* Of modelled parts: the choice of a target below an existing directory, validation of
  paths, and two transfers to one destination; the scp of an earlier attempt that is
  still writing the file it was at; a client that is killed between the two renames of
  a download, which leaves the old tree at the backup path (that a rename fails, or the
  one that puts the old tree back, is modelled); certificates without an expiry, host
  keys; pagination, names of workspaces and the classification of errors; exit codes
  beyond those that tell states apart; wording.
* Real time: "late" is never told from "later". A `kill` on the guest works as POSIX
  has it, and the API as `asynchronous/client.py` and the tests expect it.

## Plan

Done: `DurableJob`, `JobLifecycle`, `DurableProcess`, `SSHConnection`, `Credentials`,
`SandboxLifecycle`, `NetworkPolicy`, `Transfers`, and the theorems above. Next, the most
important first:

1. An abstract register that `NetworkPolicy` implements, and the step by step proof.
2. Container mode of `DurableJob`, with the second process group.
3. `AsyncBridge`: callers, the loop thread, `close()`.
4. Proofs about the composition of a job and its handle: that the answers
   `DurableProcess` takes the guest to give are those of `JobLifecycle`.

Runs stay few: one per question, several properties in each.
