----------------------------- MODULE DurableJob -----------------------------
(***************************************************************************)
(* The remote half of a durable job (asynchronous/_jobs.py): the short     *)
(* shells the SDK runs over SSH (submission, SIGTERM, SIGKILL, removal),   *)
(* the detached wrapper that owns the command, and the command's process   *)
(* group.  All of them meet in one job directory on the guest.             *)
(*                                                                         *)
(* Files are reached by path, so there is one copy of each: the copy in    *)
(* the directory that is there now.  Locks belong to the file a shell      *)
(* opened, so they are told apart by the generation of the directory, that *)
(* is, by the submission shell that published it.                          *)
(*                                                                         *)
(* A lost SSH connection stops nothing on the guest: the shell keeps       *)
(* running, and the client starts another one for the same job ID.         *)
(***************************************************************************)
EXTENDS Naturals

CONSTANTS
    Submitters,      \* submission shells, one for each attempt of the client
    TermShells,      \* shells running signal_command(..., signal="TERM")
    KillShells,      \* shells running signal_command(..., signal="KILL")
    None,            \* no process, no lock file
    Descendants,     \* processes a command can start in its process group
    WrapperCrashes   \* TRUE: the guest may kill a wrapper (out of memory)

Rounds == {0, 1}
Wrappers == Submitters \X Rounds
Signallers == TermShells \cup KillShells

ASSUME ShellsAssumption ==
    /\ Submitters \cap {"absent", "removed"} = {}
    /\ None \notin Submitters
    /\ None \notin Wrappers
    /\ TermShells \cap KillShells = {}
ASSUME SwitchesAssumption == WrapperCrashes \in BOOLEAN

TerminalStates == {"succeeded", "failed", "terminated"}
JobStates == {"prepared", "starting", "running"} \cup TerminalStates
Codes == {"null", "0", "nonzero", "143", "137"}

\* can_transition: the states a persisted state may advance to.
Following(state) ==
    CASE state = "prepared" -> {"starting", "running"} \cup TerminalStates
      [] state = "starting" -> {"running"} \cup TerminalStates
      [] state = "running"  -> TerminalStates
      [] OTHER              -> {}

VARIABLES
    dir,         \* the job directory: "absent", its publisher, or "removed"
    status,      \* status.json
    request,     \* termination.request exists
    supervisor,  \* supervisor.pid
    revived,     \* history: the removed job was published again
    spc,         \* where each submission shell is
    round,       \* its launch_round
    fd9,         \* the generation whose submission.lock it opened
    client,      \* the SDK's exec call: submitting, acked or failed
    waiting,     \* the submission whose channel the client still has
    observed,    \* the client has read a terminal status
    wpc,         \* where each wrapper is
    fd8,         \* the generation whose run.lock it opened
    main,        \* the wrapper's immediate child
    kin,         \* the descendants alive in the command's process group
    left,        \* the entries of /proc its walk has still to read
    grown,       \* history: wrappers whose group forked during their walk
    doomed,      \* wrappers whose process group was sent SIGKILL
    heard,       \* wrappers whose command was alive when SIGTERM was sent
    ran,         \* history: wrappers whose child started the command
    xpc,         \* where each signalling shell is
    xpid         \* its expected_pid

submitVars == <<spc, round, fd9>>
clientVars == <<client, waiting, observed>>
fileVars == <<dir, status, request, supervisor, revived>>
wrapperVars == <<wpc, fd8, left>>
payloadVars == <<main, kin, heard, ran, grown>>
signalVars == <<doomed, xpc, xpid>>
vars == <<fileVars, submitVars, clientVars, wrapperVars, payloadVars, signalVars>>

\* Frames: what a submission shell, a wrapper or a signalling shell leaves alone.
GuestUnchanged == UNCHANGED <<wrapperVars, payloadVars, signalVars>>
ShellsUnchanged == UNCHANGED <<submitVars, clientVars>>
WrapperMovesOnly ==
    ShellsUnchanged /\ UNCHANGED <<fileVars, fd8, left, payloadVars, signalVars>>
SignallerMovesOnly ==
    ShellsUnchanged /\ UNCHANGED <<fileVars, wrapperVars, payloadVars, doomed, xpid>>

Status(state, pid, code) == [state |-> state, pid |-> pid, code |-> code]
Prepared == Status("prepared", None, "null")
Published == dir \in Submitters
IsPrepared == Published /\ status.state = "prepared"
IsTerminal == Published /\ status.state \in TerminalStates
Requested == Published /\ request

(***************************************************************************)
(* Liveness of processes and the locks that follow from it.  No descriptor *)
(* is closed on the way down, so a lock taken by a shell lives as long as  *)
(* any process forked below it.                                            *)
(***************************************************************************)
WrapperAlive(w) == wpc[w] \notin {"none", "gone"}
PayloadAlive(w) == main[w] \in {"born", "live"} \/ kin[w] # {}
GroupAlive(w) == WrapperAlive(w) \/ PayloadAlive(w)

LockedPCs == {"check", "claim", "starting", "fork", "running", "wait", "untrap",
              "decide", "drain", "walk", "writeTerminated", "writeExit"}
HoldsRunLock(w, g) == fd8[w] = g /\ (wpc[w] \in LockedPCs \/ PayloadAlive(w))

Launching == {"loop", "poll", "answer"}
HoldsSubmissionLock(s, g) ==
    /\ fd9[s] = g
    /\ spc[s] \in Launching \/ \E r \in Rounds : GroupAlive(<<s, r>>)

Init ==
    /\ dir = "absent"
    /\ status = Prepared
    /\ request = FALSE
    /\ supervisor = None
    /\ revived = FALSE
    /\ spc = [s \in Submitters |-> "idle"]
    /\ round = [s \in Submitters |-> 0]
    /\ fd9 = [s \in Submitters |-> None]
    /\ client = "submitting"
    /\ waiting = None
    /\ observed = FALSE
    /\ wpc = [w \in Wrappers |-> "none"]
    /\ fd8 = [w \in Wrappers |-> None]
    /\ main = [w \in Wrappers |-> "none"]
    /\ kin = [w \in Wrappers |-> {}]
    /\ left = [w \in Wrappers |-> {}]
    /\ grown = {}
    /\ doomed = {}
    /\ heard = {}
    /\ ran = {}
    /\ xpc = [x \in Signallers |-> "idle"]
    /\ xpid = [x \in Signallers |-> None]

-----------------------------------------------------------------------------
(***************************************************************************)
(* The submission shell (submission_command) and the client's retry loop.  *)
(***************************************************************************)

\* Mutant: a client that has its acknowledgement submits again.
SubmitAnyway(s) ==
    /\ client \in {"submitting", "acked"} /\ waiting = None
    /\ spc[s] = "idle"
    /\ spc' = [spc EXCEPT ![s] = "stage"]
    /\ waiting' = s
    /\ GuestUnchanged /\ UNCHANGED <<fileVars, round, fd9, client, observed>>

\* A (re)connected client feeds the submission script to a new remote shell.
Submit(s) ==
    /\ client = "submitting" /\ waiting = None
    /\ spc[s] = "idle"
    /\ spc' = [spc EXCEPT ![s] = "stage"]
    /\ waiting' = s
    /\ GuestUnchanged /\ UNCHANGED <<fileVars, round, fd9, client, observed>>

\* The connection goes away before the acknowledgement is in.
LoseChannel ==
    /\ waiting # None
    /\ waiting' = None
    /\ GuestUnchanged /\ UNCHANGED <<fileVars, submitVars, client, observed>>

\* A shell ends with a nonzero exit code: the client gives up if it hears it.
Fail(s) ==
    /\ spc' = [spc EXCEPT ![s] = "failed"]
    /\ client' = IF waiting = s THEN "failed" ELSE client
    /\ waiting' = IF waiting = s THEN None ELSE waiting

\* The script comes over stdin.  A shell whose channel was lost may have only
\* its first part, and stops before the launch loop, which it reads whole.
Truncate(s) ==
    /\ waiting # s
    /\ spc[s] \in {"stage", "open", "flock"}
    /\ spc' = [spc EXCEPT ![s] = "failed"]
    /\ GuestUnchanged /\ UNCHANGED <<fileVars, round, fd9, clientVars>>

\* mv -T publishes the staged directory, unless one is already there.  One that
\* was there and has been removed keeps nobody from publishing the job again.
Publish(s) ==
    /\ spc[s] = "stage"
    /\ spc' = [spc EXCEPT ![s] = "open"]
    /\ IF Published
       THEN UNCHANGED fileVars
       ELSE /\ dir' = s
            /\ status' = Prepared
            /\ request' = FALSE
            /\ supervisor' = None
            /\ revived' = (revived \/ dir = "removed")
    /\ GuestUnchanged /\ UNCHANGED <<round, fd9, clientVars>>

\* exec 9>submission.lock, which fails when the directory has been removed.
OpenSubmissionLock(s) ==
    /\ spc[s] = "open"
    /\ \/ /\ Published
          /\ fd9' = [fd9 EXCEPT ![s] = dir]
          /\ spc' = [spc EXCEPT ![s] = "flock"]
          /\ UNCHANGED <<client, waiting>>
       \/ /\ ~Published
          /\ Fail(s)
          /\ UNCHANGED fd9
    /\ GuestUnchanged /\ UNCHANGED <<fileVars, round, observed>>

SubmissionLockTaken(s) ==
    \E t \in Submitters \ {s} : HoldsSubmissionLock(t, fd9[s])

\* flock -w 15 9 succeeds ...
LockSubmission(s) ==
    /\ spc[s] = "flock"
    /\ ~SubmissionLockTaken(s)
    /\ spc' = [spc EXCEPT ![s] = "loop"]
    /\ GuestUnchanged /\ UNCHANGED <<fileVars, round, fd9, clientVars>>

\* Mutant: "flock 9" without -w waits for ever.
LockWithoutTimeout(s) == FALSE

\* ... or times out: exit 70.
LockTimeout(s) ==
    /\ spc[s] = "flock"
    /\ SubmissionLockTaken(s)
    /\ Fail(s)
    /\ GuestUnchanged /\ UNCHANGED <<fileVars, round, fd9, observed>>

\* Head of the outer loop: start a detached wrapper while the job is prepared.
StartLauncher(s) ==
    /\ spc[s] = "loop"
    /\ \/ /\ IsPrepared
          /\ wpc' = [wpc EXCEPT ![<<s, round[s]>>] = "start"]
          /\ spc' = [spc EXCEPT ![s] = "poll"]
       \/ /\ ~IsPrepared
          /\ spc' = [spc EXCEPT ![s] = "answer"]
          /\ UNCHANGED wpc
    /\ UNCHANGED <<fileVars, round, fd9, clientVars, fd8, left, payloadVars, signalVars>>

\* Mutant: the acknowledgement does not wait for the wrapper's first status.
PollUnchecked(s) ==
    /\ spc[s] = "poll"
    /\ spc' = [spc EXCEPT ![s] = "answer"]
    /\ GuestUnchanged /\ UNCHANGED <<fileVars, round, fd9, clientVars>>

\* The inner loop sees the wrapper's first status.
PollSeesStart(s) ==
    /\ spc[s] = "poll"
    /\ ~IsPrepared
    /\ spc' = [spc EXCEPT ![s] = "answer"]
    /\ GuestUnchanged /\ UNCHANGED <<fileVars, round, fd9, clientVars>>

\* One hundred polls of a job that is still prepared: once more, then exit 70.
PollExhausted(s) ==
    /\ spc[s] = "poll"
    /\ IsPrepared
    /\ \/ /\ round[s] = 0
          /\ round' = [round EXCEPT ![s] = 1]
          /\ spc' = [spc EXCEPT ![s] = "loop"]
          /\ UNCHANGED <<client, waiting>>
       \/ /\ round[s] = 1
          /\ Fail(s)
          /\ UNCHANGED round
    /\ GuestUnchanged /\ UNCHANGED <<fileVars, fd9, observed>>

\* cat status: the acknowledgement, which reaches a client that still listens.
Answer(s) ==
    /\ spc[s] = "answer"
    /\ \/ /\ Published
          /\ spc' = [spc EXCEPT ![s] = "done"]
          /\ client' = IF waiting = s THEN "acked" ELSE client
          /\ waiting' = IF waiting = s THEN None ELSE waiting
       \/ /\ ~Published
          /\ Fail(s)
    /\ GuestUnchanged /\ UNCHANGED <<fileVars, round, fd9, observed>>

\* The client reads a terminal status ...
Observe ==
    /\ client = "acked" /\ ~observed
    /\ IsTerminal
    /\ observed' = TRUE
    /\ GuestUnchanged /\ UNCHANGED <<fileVars, submitVars, client, waiting>>

\* ... after which it may run cleanup_command, more than once if an answer is
\* lost.  It does not know of submission shells that are still on the guest.
CleanUp ==
    /\ observed
    /\ Published
    /\ dir' = "removed"
    /\ GuestUnchanged /\ ShellsUnchanged
    /\ UNCHANGED <<status, request, supervisor, revived>>

-----------------------------------------------------------------------------
(***************************************************************************)
(* The wrapper (launcher_script).  It does not run under "set -e", so a    *)
(* write into a directory that is gone is skipped.                         *)
(***************************************************************************)
Goto(w, from, to) ==
    /\ wpc[w] = from
    /\ w \notin doomed
    /\ wpc' = [wpc EXCEPT ![w] = to]

\* write_status: a rename over status.json.
WriteStatus(new) ==
    /\ status' = IF Published THEN new ELSE status
    /\ ShellsUnchanged
    /\ UNCHANGED <<dir, request, supervisor, revived, fd8, left, payloadVars, signalVars>>

\* exec 8>run.lock; the script itself is gone with its directory.
OpenRunLock(w) ==
    /\ \/ /\ Published
          /\ Goto(w, "start", "flock")
          /\ fd8' = [fd8 EXCEPT ![w] = dir]
       \/ /\ ~Published
          /\ Goto(w, "start", "gone")
          /\ UNCHANGED fd8
    /\ ShellsUnchanged /\ UNCHANGED <<fileVars, left, payloadVars, signalVars>>

\* flock -n 8: somebody else's lock ends the wrapper.
LockRun(w) ==
    /\ Goto(w, "flock", IF \E v \in Wrappers \ {w} : HoldsRunLock(v, fd8[w])
                        THEN "gone" ELSE "check")
    /\ WrapperMovesOnly

\* Mutant: a wrapper that has the lock goes ahead whatever the status says.
ClaimUnchecked(w) ==
    /\ Goto(w, "check", "claim")
    /\ WrapperMovesOnly

\* A job that is no longer prepared has had its wrapper.
CheckPrepared(w) ==
    /\ Goto(w, "check", IF IsPrepared THEN "claim" ELSE "gone")
    /\ WrapperMovesOnly

\* Records the supervisor, then ignores SIGTERM for itself (trap ':').
RecordSupervisor(w) ==
    /\ Goto(w, "claim", "starting")
    /\ supervisor' = IF Published THEN w ELSE supervisor
    /\ ShellsUnchanged
    /\ UNCHANGED <<dir, status, request, revived, fd8, left, payloadVars, signalVars>>

WriteStarting(w) ==
    /\ Goto(w, "starting", "fork")
    /\ WriteStatus(Status("starting", w, "null"))

\* The background subshell; without its output files it fails at once.
ForkPayload(w) ==
    /\ Goto(w, "fork", "running")
    /\ main' = [main EXCEPT ![w] = IF Published THEN "born" ELSE "bad"]
    /\ ShellsUnchanged
    /\ UNCHANGED <<fileVars, fd8, left, kin, heard, ran, grown, signalVars>>

\* SIGKILL does not stop a rename that is under way, so a doomed wrapper may
\* still complete the status write it is at; it never gets further.
GotoInFlight(w, from, to) ==
    /\ wpc[w] = from
    /\ wpc' = [wpc EXCEPT ![w] = to]

WriteRunning(w) ==
    /\ GotoInFlight(w, "running", "wait")
    /\ WriteStatus(Status("running", w, "null"))

\* Mutant: without "set +e" a failing command ends its wrapper.
ReapUnderErrexit(w) ==
    /\ main[w] \in {"ok", "bad"}
    /\ Goto(w, "wait", IF main[w] = "ok" THEN "untrap" ELSE "gone")
    /\ WrapperMovesOnly

\* The wait loop: SIGTERM only interrupts it, the child's end leaves it.
Reap(w) ==
    /\ main[w] \in {"ok", "bad"}
    /\ Goto(w, "wait", "untrap")
    /\ WrapperMovesOnly

\* trap - HUP INT TERM: from here on SIGTERM ends the wrapper.
Untrap(w) ==
    /\ Goto(w, "untrap", "decide")
    /\ WrapperMovesOnly

Decide(w) ==
    /\ Goto(w, "decide", IF Requested THEN "drain" ELSE "writeExit")
    /\ WrapperMovesOnly

\* Mutant: an entry that is alive is passed over like one that is gone.
ReadPast(w) ==
    /\ wpc[w] = "walk"
    /\ \E d \in left[w] :
          /\ Goto(w, "walk", "walk")
          /\ left' = [left EXCEPT ![w] = @ \ {d}]
    /\ ShellsUnchanged /\ UNCHANGED <<fileVars, fd8, payloadVars, signalVars>>

\* while payload_group_running: the shell expands /proc/[0-9]*/stat at the head of
\* each walk ...
BeginWalk(w) ==
    /\ Goto(w, "drain", "walk")
    /\ left' = [left EXCEPT ![w] = kin[w]]
    /\ grown' = grown \ {w}
    /\ ShellsUnchanged /\ UNCHANGED <<fileVars, fd8, main, kin, heard, ran, signalVars>>

\* ... and reads one entry after the other.  A member of the group that is alive
\* ends the walk, and there is another after a sleep; one that is gone by the time
\* it is read is passed over.
ReadEntry(w) ==
    /\ wpc[w] = "walk"
    /\ \E d \in left[w] :
          /\ Goto(w, "walk", IF d \in kin[w] THEN "drain" ELSE "walk")
          /\ left' = [left EXCEPT ![w] = IF d \in kin[w] THEN {} ELSE @ \ {d}]
    /\ ShellsUnchanged /\ UNCHANGED <<fileVars, fd8, payloadVars, signalVars>>

\* A walk that meets no member of the group is the end of it, as the wrapper sees it.
Drain(w) ==
    /\ left[w] = {}
    /\ Goto(w, "walk", "writeTerminated")
    /\ WrapperMovesOnly

WriteTerminated(w) ==
    /\ GotoInFlight(w, "writeTerminated", "gone")
    /\ WriteStatus(Status("terminated", w, "143"))

ExitStatus(w) == IF main[w] = "ok" THEN Status("succeeded", w, "0")
                                   ELSE Status("failed", w, "nonzero")

WriteExit(w) ==
    /\ GotoInFlight(w, "writeExit", "gone")
    /\ WriteStatus(ExitStatus(w))

\* The guest kills the wrapper process alone.
Crash(w) ==
    /\ WrapperCrashes
    /\ WrapperAlive(w)
    /\ wpc' = [wpc EXCEPT ![w] = "gone"]
    /\ WrapperMovesOnly

-----------------------------------------------------------------------------
(***************************************************************************)
(* The command's process group: the immediate child, descendants that can  *)
(* outlive it and start others, and what SIGKILL does to all of them.      *)
(***************************************************************************)

\* Mutant: the child does not look for a termination request.
PayloadStartUnchecked(w) ==
    /\ main[w] = "born" /\ w \notin doomed
    /\ main' = [main EXCEPT ![w] = "live"]
    /\ ran' = ran \cup {w}
    /\ ShellsUnchanged /\ UNCHANGED <<fileVars, wrapperVars, kin, heard, grown, signalVars>>

\* The child starts the command unless termination was requested before.
PayloadStart(w) ==
    /\ main[w] = "born" /\ w \notin doomed
    /\ \/ /\ Requested
          /\ main' = [main EXCEPT ![w] = "bad"]
          /\ UNCHANGED ran
       \/ /\ ~Requested
          /\ main' = [main EXCEPT ![w] = "live"]
          /\ ran' = ran \cup {w}
    /\ ShellsUnchanged /\ UNCHANGED <<fileVars, wrapperVars, kin, heard, grown, signalVars>>

\* The command, or a descendant of it, starts a process.
PayloadForks(w) ==
    /\ main[w] = "live" \/ kin[w] # {}
    /\ w \notin doomed
    /\ \E d \in Descendants \ kin[w] : kin' = [kin EXCEPT ![w] = @ \cup {d}]
    /\ grown' = IF wpc[w] = "walk" THEN grown \cup {w} ELSE grown
    /\ ShellsUnchanged /\ UNCHANGED <<fileVars, wrapperVars, main, heard, ran, signalVars>>

PayloadExits(w) ==
    /\ main[w] = "live" /\ w \notin doomed
    /\ \E end \in {"ok", "bad"} : main' = [main EXCEPT ![w] = end]
    /\ ShellsUnchanged
    /\ UNCHANGED <<fileVars, wrapperVars, kin, heard, ran, grown, signalVars>>

DescendantExits(w) ==
    /\ w \notin doomed
    /\ \E d \in kin[w] : kin' = [kin EXCEPT ![w] = @ \ {d}]
    /\ ShellsUnchanged
    /\ UNCHANGED <<fileVars, wrapperVars, main, heard, ran, grown, signalVars>>

\* SIGKILL takes effect on the whole group.
GroupDies(w) ==
    /\ w \in doomed
    /\ doomed' = doomed \ {w}
    /\ wpc' = [wpc EXCEPT ![w] = "gone"]
    /\ main' = [main EXCEPT ![w] = IF @ \in {"born", "live"} THEN "bad" ELSE @]
    /\ kin' = [kin EXCEPT ![w] = {}]
    /\ left' = [left EXCEPT ![w] = {}]
    /\ ShellsUnchanged /\ UNCHANGED <<fileVars, fd8, heard, ran, grown, xpc, xpid>>

-----------------------------------------------------------------------------
(***************************************************************************)
(* The signalling shells (signal_command).  terminate() sends SIGTERM      *)
(* first and SIGKILL after a SIGTERM shell has answered; either shell is   *)
(* run again when its answer is lost, which the other members of its set   *)
(* stand for.                                                              *)
(***************************************************************************)
Step(x, from, to) == xpc[x] = from /\ xpc' = [xpc EXCEPT ![x] = to]

\* terminate() takes the PID from a status it has read.
SendSignal(x) ==
    /\ client = "acked"
    /\ Published /\ status.pid # None
    /\ x \in KillShells => \E t \in TermShells : xpc[t] = "done"
    /\ Step(x, "idle", "touch")
    /\ xpid' = [xpid EXCEPT ![x] = status.pid]
    /\ ShellsUnchanged /\ UNCHANGED <<fileVars, wrapperVars, payloadVars, doomed>>

\* touch termination.request, before anything else.
RecordRequest(x) ==
    /\ \/ /\ Published
          /\ request' = TRUE
          /\ Step(x, "touch", "guard")
       \/ /\ ~Published
          /\ Step(x, "touch", "failed")
          /\ UNCHANGED request
    /\ ShellsUnchanged /\ UNCHANGED <<dir, status, supervisor, revived, wrapperVars>>
    /\ UNCHANGED <<payloadVars, doomed, xpid>>

\* A terminal job is left alone (exit 0); a wrong supervisor is exit 64.
GuardSignal(x) ==
    /\ \/ IsTerminal /\ Step(x, "guard", "done")
       \/ /\ ~IsTerminal
          /\ IF Published /\ supervisor = xpid[x]
             THEN Step(x, "guard", "kill")
             ELSE Step(x, "guard", "failed")
    /\ SignallerMovesOnly

Untrapped == {"decide", "drain", "walk", "writeTerminated", "writeExit"}

\* kill -TERM -pid: a trapped wrapper survives, an untrapped one does not; the
\* command and its descendants die or ignore the signal; a child that has not
\* reset its parent's trap yet may miss it.  The rename of a status write is a
\* process of the group too, and its end leaves the old status in place.
DeliverTerm(x) ==
    LET w == xpid[x] IN
    /\ x \in TermShells
    /\ Step(x, "kill", "answer")
    /\ \/ wpc' = IF wpc[w] \in Untrapped THEN [wpc EXCEPT ![w] = "gone"] ELSE wpc
       \/ wpc[w] = "running" /\ wpc' = [wpc EXCEPT ![w] = "wait"]
    /\ heard' = IF main[w] = "live" THEN heard \cup {w} ELSE heard
    /\ \/ UNCHANGED main
       \/ /\ main[w] \in {"born", "live"}
          /\ main' = [main EXCEPT ![w] = "bad"]
    /\ \E spared \in SUBSET kin[w] : kin' = [kin EXCEPT ![w] = spared]
    /\ ShellsUnchanged /\ UNCHANGED <<fileVars, fd8, left, ran, grown, doomed, xpid>>

\* kill -KILL -pid
DeliverKill(x) ==
    LET w == xpid[x] IN
    /\ x \in KillShells
    /\ Step(x, "kill", "await")
    /\ doomed' = IF GroupAlive(w) THEN doomed \cup {w} ELSE doomed
    /\ ShellsUnchanged /\ UNCHANGED <<fileVars, wrapperVars, payloadVars, xpid>>

\* Mutant: SIGKILL is taken to be immediate.
AwaitNothing(x) ==
    /\ Step(x, "await", "recheck")
    /\ SignallerMovesOnly

\* while kill -0 -pid: the group is gone, or it is still there after two
\* seconds (exit 70).
AwaitGroup(x) ==
    /\ \/ Step(x, "await", "recheck") /\ ~GroupAlive(xpid[x])
       \/ Step(x, "await", "failed") /\ GroupAlive(xpid[x])
    /\ SignallerMovesOnly

\* Mutant: the shell leaves the terminal status to a wrapper it has killed.
RecheckOnly(x) ==
    /\ Step(x, "recheck", "done")
    /\ SignallerMovesOnly

\* Mutant: the shell records SIGKILL over what the wrapper recorded.
RecheckSkipped(x) ==
    /\ Step(x, "recheck", "record")
    /\ SignallerMovesOnly

\* The wrapper may have recorded its own end before it was killed.
RecheckTerminal(x) ==
    /\ \/ IsTerminal /\ Step(x, "recheck", "done")
       \/ ~IsTerminal /\ Step(x, "recheck", "record")
    /\ SignallerMovesOnly

\* Otherwise nobody is left to do it but this shell.
RecordKilled(x) ==
    /\ \/ /\ Published
          /\ status' = Status("terminated", xpid[x], "137")
          /\ Step(x, "record", "answer")
       \/ /\ ~Published
          /\ Step(x, "record", "failed")
          /\ UNCHANGED status
    /\ ShellsUnchanged /\ UNCHANGED <<dir, request, supervisor, revived, wrapperVars>>
    /\ UNCHANGED <<payloadVars, doomed, xpid>>

AnswerSignal(x) ==
    /\ Step(x, "answer", IF Published THEN "done" ELSE "failed")
    /\ SignallerMovesOnly

-----------------------------------------------------------------------------
SubmissionStep(s) ==
    \/ Publish(s) \/ OpenSubmissionLock(s) \/ LockSubmission(s) \/ LockTimeout(s)
    \/ StartLauncher(s) \/ PollSeesStart(s) \/ PollExhausted(s) \/ Answer(s)

WrapperStep(w) ==
    \/ OpenRunLock(w) \/ LockRun(w) \/ CheckPrepared(w) \/ RecordSupervisor(w)
    \/ WriteStarting(w) \/ ForkPayload(w) \/ WriteRunning(w) \/ Reap(w) \/ Untrap(w)
    \/ Decide(w) \/ BeginWalk(w) \/ ReadEntry(w) \/ Drain(w)
    \/ WriteTerminated(w) \/ WriteExit(w)

PayloadStep(w) == PayloadForks(w) \/ PayloadExits(w) \/ DescendantExits(w)

SignalStep(x) ==
    \/ RecordRequest(x) \/ GuardSignal(x) \/ DeliverTerm(x) \/ DeliverKill(x)
    \/ AwaitGroup(x) \/ RecheckTerminal(x) \/ RecordKilled(x) \/ AnswerSignal(x)

ClientStep ==
    \/ \E s \in Submitters : Submit(s)
    \/ LoseChannel
    \/ Observe
    \/ CleanUp
    \/ \E x \in Signallers : SendSignal(x)

Next ==
    \/ ClientStep
    \/ \E s \in Submitters : Truncate(s) \/ SubmissionStep(s)
    \/ \E w \in Wrappers : \/ WrapperStep(w) \/ Crash(w)
                           \/ PayloadStart(w) \/ PayloadStep(w) \/ GroupDies(w)
    \/ \E x \in Signallers : SignalStep(x)

Spec == Init /\ [][Next]_vars

(***************************************************************************)
(* The guest schedules its processes: every shell and wrapper goes on, a   *)
(* forked child gets to its first command, SIGKILL takes effect.  Nothing  *)
(* is promised about the client, the command or the connection.            *)
(***************************************************************************)
GuestFairness ==
    /\ \A s \in Submitters : WF_vars(SubmissionStep(s))
    /\ \A w \in Wrappers : WF_vars(WrapperStep(w)) /\ WF_vars(PayloadStart(w))
                           /\ WF_vars(GroupDies(w))
    /\ \A x \in Signallers : WF_vars(SignalStep(x))

FairSpec == Spec /\ GuestFairness

-----------------------------------------------------------------------------
(***************************************************************************)
(* Properties.                                                             *)
(***************************************************************************)

\* Every variable keeps its type.
TypeOK ==
    /\ dir \in Submitters \cup {"absent", "removed"}
    /\ status \in [state : JobStates, pid : Wrappers \cup {None}, code : Codes]
    /\ request \in BOOLEAN
    /\ supervisor \in Wrappers \cup {None}
    /\ revived \in BOOLEAN
    /\ spc \in [Submitters -> {"idle", "stage", "open", "flock", "loop", "poll", "answer",
                               "done", "failed"}]
    /\ round \in [Submitters -> Rounds]
    /\ fd9 \in [Submitters -> Submitters \cup {None}]
    /\ client \in {"submitting", "acked", "failed"}
    /\ waiting \in Submitters \cup {None}
    /\ observed \in BOOLEAN
    /\ wpc \in [Wrappers -> {"none", "start", "flock", "gone"} \cup LockedPCs]
    /\ fd8 \in [Wrappers -> Submitters \cup {None}]
    /\ main \in [Wrappers -> {"none", "born", "live", "ok", "bad"}]
    /\ kin \in [Wrappers -> SUBSET Descendants]
    /\ left \in [Wrappers -> SUBSET Descendants]
    /\ grown \subseteq Wrappers
    /\ doomed \subseteq Wrappers
    /\ heard \subseteq Wrappers
    /\ ran \subseteq Wrappers
    /\ xpc \in [Signallers -> {"idle", "touch", "guard", "kill", "await", "recheck",
                               "record", "answer", "done", "failed"}]
    /\ xpid \in [Signallers -> Wrappers \cup {None}]

\* A job's first life: it was not published again after its removal.
FirstLife == ~revived

\* The command of a job is started at most once, whatever submissions are
\* retried, however slow their shells and launchers are, as long as the job is
\* not published again after its removal.
AtMostOnce == FirstLife => \A v, w \in ran : v = w

\* Violated, see the README: the same without the restriction.  A submission
\* shell that is still staging when the job is removed brings it back.
OnceForGood == \A v, w \in ran : v = w

\* A terminal status is never ahead of the command: its process has ended, and a
\* job reported as terminated has a process left in its group only if the group
\* forked during the wrapper's last walk over /proc.  (Of a job that was
\* published again after its removal this says nothing.)
TerminalMeansOver ==
    FirstLife /\ IsTerminal =>
        /\ main[status.pid] \notin {"born", "live"}
        /\ status.state = "terminated" /\ PayloadAlive(status.pid) => status.pid \in grown

\* Violated, see the README: the same without the exception.  A member of the
\* group that forks and exits during the walk leaves one that is not met.
TerminatedMeansGone ==
    FirstLife /\ IsTerminal /\ status.state = "terminated" => ~PayloadAlive(status.pid)

\* Once a SIGTERM shell has signalled (or found the job over), no command runs
\* that the signal has not reached, even one forked during the termination, as
\* long as the job is not published again after its removal.
TermReachesPayload ==
    FirstLife =>
        \A x \in TermShells :
            xpc[x] \in {"answer", "done"} /\ main[xpid[x]] = "live" => xpid[x] \in heard

\* While its directory exists a job's persisted status only advances as
\* can_transition allows, its supervisor's PID stays, and a terminal status is
\* final in every field, unless the job was published again after its removal.
StatusAdvances ==
    [][FirstLife /\ Published /\ dir' = dir =>
          \/ status' = status
          \/ /\ status'.state \in Following(status.state)
             /\ status.pid # None => status'.pid = status.pid]_vars

\* A job the client got an acknowledgement for has a wrapper in charge, and its
\* status names the process group that signals have to go to, unless the job was
\* published again after its removal.
AckMeansStarted ==
    FirstLife /\ client = "acked" /\ Published =>
        status.pid # None /\ supervisor = status.pid

\* A removed job is brought back only by a submission shell whose channel was
\* lost before it published, and only after another has been acknowledged.
OnlyStragglersRevive ==
    [][FirstLife /\ revived' =>
          client = "acked" /\ \E s \in Submitters : spc[s] = "stage" /\ waiting # s]_vars

\* The job as JobLifecycle sees it: the persisted state while the directory is
\* there, and who started the command.
Lifecycle == INSTANCE JobLifecycle
    WITH Runners <- Wrappers,
         phase <- IF revived THEN "revived" ELSE IF Published THEN status.state ELSE dir,
         started <- ran

\* What these shells and processes do to a job are steps of its lifecycle:
\* created once, started once, advanced, ended, removed.  From then on it is
\* gone, unless it is published again, after which the lifecycle promises nothing.
ImplementsLifecycle == Lifecycle!Spec

\* Once the job has started, a retried submission is turned away by the lock only
\* while another submission shell is still at its launch loop.
RetryReconciles ==
    [][\A s \in Submitters :
          LockTimeout(s) =>
              IsPrepared \/ \E t \in Submitters \ {s} : spc[t] \in Launching]_vars

\* A wrapper that waits for its job's process group to be gone is not ended by
\* SIGTERM: it stays until it can record the end, or SIGKILL takes the group.
WrapperKeptAlive ==
    [][\A w \in Wrappers :
          wpc[w] \in {"drain", "walk"} /\ PayloadAlive(w) /\ wpc'[w] = "gone" => w \in doomed]_vars

\* Every submission shell ends: it neither waits nor launches for ever.
SubmissionEnds ==
    \A s \in Submitters : spc[s] = "stage" ~> spc[s] \in {"done", "failed"}

\* After SIGKILL the job gets a terminal status, unless the shell ran out of
\* time waiting for the group or the job was removed.
KillRecorded ==
    \A x \in KillShells :
        xpc[x] = "await" ~> IsTerminal \/ dir = "removed" \/ xpc[x] = "failed"

\* A command that ended, with all its descendants, gets its end recorded, signal
\* or not (in the first life of its job): only a signal that ends the wrapper
\* itself may keep it from that.
ExitRecorded ==
    \A w \in Wrappers :
        FirstLife /\ main[w] \in {"ok", "bad"} /\ kin[w] = {}
        ~> \/ IsTerminal \/ dir = "removed"
           \/ wpc[w] = "gone" /\ \E x \in Signallers :
                 xpc[x] \notin {"idle", "touch", "guard", "kill"}
=============================================================================
