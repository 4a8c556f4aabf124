--------------------------- MODULE DurableJobProof ---------------------------
(***************************************************************************)
(* Theorems about DurableJob for every set of submission and signalling    *)
(* shells.                                                                 *)
(***************************************************************************)
EXTENDS DurableJob, TLAPS

(***************************************************************************)
(* Type correctness.                                                       *)
(***************************************************************************)
\* A signalling shell that has started was given a process group.
Targeted == \A x \in Signallers : xpc[x] # "idle" => xpid[x] \in Wrappers
TypeInv == TypeOK /\ Targeted

\* The types hold before anything has been submitted.
LEMMA TypeInit == Init => TypeInv
<1> SUFFICES ASSUME Init PROVE TypeInv
  OBVIOUS
<1>1. status \in [state : JobStates, pid : Wrappers \cup {None}, code : Codes]
  BY DEF Init, Prepared, Status, JobStates, Codes
<1>2. TypeOK
  BY <1>1 DEF Init, TypeOK, Rounds
<1>3. Targeted
  BY DEF Init, Targeted
<1> QED
  BY <1>2, <1>3 DEF TypeInv

USE DEF JobStates, TerminalStates, Codes, LockedPCs, GuestUnchanged, ShellsUnchanged,
        WrapperMovesOnly, SignallerMovesOnly, fileVars, submitVars, clientVars,
        wrapperVars, payloadVars, signalVars

\* A submission shell or the client keeps the types.
LEMMA TypeSubmission ==
    ASSUME TypeOK, NEW s \in Submitters,
           Submit(s) \/ Truncate(s) \/ SubmissionStep(s)
    PROVE  TypeOK' /\ UNCHANGED <<xpc, xpid>>
<1>w. \A r \in Rounds : <<s, r>> \in Wrappers
  BY DEF Wrappers
<1>1. CASE Submit(s)
  BY <1>1 DEF TypeOK, Submit
<1>2. CASE Truncate(s)
  BY <1>2 DEF TypeOK, Truncate
<1>3. CASE Publish(s)
  <2>1. request' \in BOOLEAN
    BY <1>3 DEF TypeOK, Publish
  <2>2. Prepared \in [state : JobStates, pid : Wrappers \cup {None}, code : Codes]
    BY DEF Prepared, Status
  <2>r. revived' \in BOOLEAN
    BY <1>3 DEF TypeOK, Publish
  <2>3. status' \in [state : JobStates, pid : Wrappers \cup {None}, code : Codes]
    BY <1>3, <2>2 DEF TypeOK, Publish
  <2> QED
    BY <1>3, <2>1, <2>3, <2>r DEF TypeOK, Publish
<1>4. CASE OpenSubmissionLock(s)
  BY <1>4 DEF TypeOK, OpenSubmissionLock, Published, Fail
<1>5. CASE LockSubmission(s)
  BY <1>5 DEF TypeOK, LockSubmission
<1>6. CASE LockTimeout(s)
  BY <1>6 DEF TypeOK, LockTimeout, Fail
<1>7. CASE StartLauncher(s)
  BY <1>7, <1>w DEF TypeOK, StartLauncher
<1>8. CASE PollSeesStart(s)
  BY <1>8 DEF TypeOK, PollSeesStart
<1>9. CASE PollExhausted(s)
  BY <1>9 DEF TypeOK, PollExhausted, Fail, Rounds
<1>10. CASE Answer(s)
  BY <1>10 DEF TypeOK, Answer, Fail
<1> QED
  BY <1>1, <1>2, <1>3, <1>4, <1>5, <1>6, <1>7, <1>8, <1>9, <1>10 DEF SubmissionStep

\* A wrapper, its command or their death keep the types.
LEMMA TypeWrapper ==
    ASSUME TypeOK, NEW w \in Wrappers,
           WrapperStep(w) \/ Crash(w) \/ PayloadStart(w) \/ PayloadStep(w) \/ GroupDies(w)
    PROVE  TypeOK' /\ UNCHANGED <<xpc, xpid>>
<1> USE DEF Goto, GotoInFlight, WriteStatus, Status
<1>1. CASE OpenRunLock(w)
  BY <1>1 DEF TypeOK, OpenRunLock, Published
<1>2. CASE LockRun(w)
  BY <1>2 DEF TypeOK, LockRun
<1>3. CASE CheckPrepared(w)
  BY <1>3 DEF TypeOK, CheckPrepared
<1>4. CASE RecordSupervisor(w)
  BY <1>4 DEF TypeOK, RecordSupervisor
<1>5. CASE WriteStarting(w)
  BY <1>5 DEF TypeOK, WriteStarting
<1>6. CASE ForkPayload(w)
  BY <1>6 DEF TypeOK, ForkPayload
<1>7. CASE WriteRunning(w)
  BY <1>7 DEF TypeOK, WriteRunning
<1>8. CASE Reap(w)
  BY <1>8 DEF TypeOK, Reap
<1>9. CASE Untrap(w)
  BY <1>9 DEF TypeOK, Untrap
<1>10. CASE Decide(w)
  BY <1>10 DEF TypeOK, Decide
<1>11. CASE Drain(w)
  BY <1>11 DEF TypeOK, Drain
<1>20. CASE BeginWalk(w)
  BY <1>20 DEF TypeOK, BeginWalk
<1>21. CASE ReadEntry(w)
  BY <1>21 DEF TypeOK, ReadEntry
<1>12. CASE WriteTerminated(w)
  BY <1>12 DEF TypeOK, WriteTerminated
<1>13. CASE WriteExit(w)
  BY <1>13 DEF TypeOK, WriteExit, ExitStatus
<1>14. CASE Crash(w)
  BY <1>14 DEF TypeOK, Crash
<1>15. CASE PayloadStart(w)
  BY <1>15 DEF TypeOK, PayloadStart
<1>16. CASE PayloadForks(w)
  BY <1>16 DEF TypeOK, PayloadForks
<1>17. CASE PayloadExits(w)
  BY <1>17 DEF TypeOK, PayloadExits
<1>18. CASE DescendantExits(w)
  BY <1>18 DEF TypeOK, DescendantExits
<1>19. CASE GroupDies(w)
  BY <1>19 DEF TypeOK, GroupDies
<1> QED
  BY <1>1, <1>2, <1>3, <1>4, <1>5, <1>6, <1>7, <1>8, <1>9, <1>10, <1>11, <1>12, <1>13,
     <1>14, <1>15, <1>16, <1>17, <1>18, <1>19, <1>20, <1>21 DEF WrapperStep, PayloadStep

\* A signalling shell keeps the types.
LEMMA TypeSignal ==
    ASSUME TypeInv, NEW x \in Signallers, SendSignal(x) \/ SignalStep(x)
    PROVE  TypeInv'
<1> USE DEF Step, Status, TypeInv, Targeted
<1>1. CASE SendSignal(x)
  BY <1>1 DEF TypeOK, SendSignal
<1>2. CASE RecordRequest(x)
  <2>1. request' \in BOOLEAN
    BY <1>2 DEF TypeOK, RecordRequest
  <2> QED
    BY <1>2, <2>1 DEF TypeOK, RecordRequest
<1>3. CASE GuardSignal(x)
  BY <1>3 DEF TypeOK, GuardSignal
<1>4. CASE DeliverTerm(x)
  BY <1>4 DEF TypeOK, DeliverTerm
<1>5. CASE DeliverKill(x)
  BY <1>5 DEF TypeOK, DeliverKill
<1>6. CASE AwaitGroup(x)
  BY <1>6 DEF TypeOK, AwaitGroup
<1>7. CASE RecheckTerminal(x)
  BY <1>7 DEF TypeOK, RecheckTerminal
<1>8. CASE RecordKilled(x)
  BY <1>8 DEF TypeOK, RecordKilled
<1>9. CASE AnswerSignal(x)
  BY <1>9 DEF TypeOK, AnswerSignal
<1> QED
  BY <1>1, <1>2, <1>3, <1>4, <1>5, <1>6, <1>7, <1>8, <1>9 DEF SignalStep

\* Every step of the guest and the client keeps the types.
LEMMA TypeNext == TypeInv /\ [Next]_vars => TypeInv'
<1> SUFFICES ASSUME TypeInv, [Next]_vars PROVE TypeInv'
  OBVIOUS
<1>1. CASE UNCHANGED vars
  BY <1>1 DEF TypeInv, Targeted, TypeOK, vars
<1>2. CASE LoseChannel
  BY <1>2 DEF TypeInv, Targeted, TypeOK, LoseChannel
<1>3. CASE Observe
  BY <1>3 DEF TypeInv, Targeted, TypeOK, Observe
<1>4. CASE CleanUp
  BY <1>4 DEF TypeInv, Targeted, TypeOK, CleanUp
<1>5. ASSUME NEW s \in Submitters, Submit(s) \/ Truncate(s) \/ SubmissionStep(s)
      PROVE  TypeInv'
  BY <1>5, TypeSubmission DEF TypeInv, Targeted
<1>6. ASSUME NEW w \in Wrappers,
             WrapperStep(w) \/ Crash(w) \/ PayloadStart(w) \/ PayloadStep(w) \/ GroupDies(w)
      PROVE  TypeInv'
  BY <1>6, TypeWrapper DEF TypeInv, Targeted
<1> QED
  BY <1>1, <1>2, <1>3, <1>4, <1>5, <1>6, TypeSignal DEF Next, ClientStep

\* Every variable of the job, its shells and its processes keeps its type.
THEOREM TypeCorrect == Spec => []TypeOK
<1>1. TypeInv => TypeOK
  BY DEF TypeInv
<1> QED
  BY TypeInit, TypeNext, <1>1, PTL DEF Spec

-----------------------------------------------------------------------------
(***************************************************************************)
(* The inductive invariant behind the safety properties.  It is about the  *)
(* first life of a job: until it is published again after its removal.     *)
(* The argument: there is one directory, hence one run lock; the lock has  *)
(* one owner, a wrapper or the command that inherited it; an owner only    *)
(* goes on while the job is prepared and writes "starting" before it       *)
(* forks, and no status is ever "prepared" again.  From then on the status *)
(* names that wrapper, and whoever ends the job does so when the wrapper   *)
(* is through.                                                             *)
(***************************************************************************)
Owner(w) == wpc[w] \in LockedPCs \/ PayloadAlive(w)
PastStarting == LockedPCs \ {"check", "claim", "starting"}
EarlyPCs == {"none", "start", "flock", "check", "claim", "starting", "fork"}
Reaped == {"untrap", "decide", "drain", "walk", "writeTerminated", "writeExit"}

\* Before the first publication nothing has been launched ...
BeforePublication ==
    dir = "absent" =>
        /\ status = Prepared
        /\ \A s \in Submitters : spc[s] \in {"idle", "stage", "failed"}
        /\ \A w \in Wrappers : wpc[w] = "none" /\ fd8[w] = None

\* ... and what was removed is a job the client has seen the end of.
AfterRemoval ==
    /\ waiting # None => client = "submitting"
    /\ observed => client = "acked" /\ status.state \in TerminalStates /\ dir # "absent"
    /\ dir = "removed" => observed

\* The wrapper of the round a shell is about to launch has not been launched.
FreshRounds ==
    \A s \in Submitters :
        /\ spc[s] \in {"idle", "stage", "open", "flock"} =>
              round[s] = 0 /\ wpc[<<s, 0>>] = "none"
        /\ spc[s] = "loop" => wpc[<<s, round[s]>>] = "none"
        /\ round[s] = 0 => wpc[<<s, 1>>] = "none"

\* All wrappers open the run lock of the same directory, and one owns it.
OneGeneration ==
    /\ Published => \A w \in Wrappers : fd8[w] \in {None, dir}
    /\ \A v, w \in Wrappers : fd8[v] # None /\ fd8[w] # None => fd8[v] = fd8[w]
    /\ \A w \in Wrappers : wpc[w] = "flock" \/ Owner(w) => fd8[w] # None

OneOwner == \A v, w \in Wrappers : Owner(v) /\ Owner(w) => v = w

\* A status other than "prepared" is what the owner of the lock, and whoever
\* was told about it, has seen to.
Claiming ==
    /\ status.state = "prepared" => status.pid = None /\ ran = {}
    /\ \A w \in Wrappers :
          /\ wpc[w] \in {"claim", "starting"} => IsPrepared
          /\ wpc[w] \in PastStarting \/ main[w] # "none" => status.state # "prepared"
          /\ wpc[w] \in EarlyPCs => main[w] = "none" /\ kin[w] = {}
          /\ wpc[w] = "fork" \/ main[w] = "born" => ran = {}
    /\ \A x \in Signallers : xpc[x] # "idle" => status.state # "prepared"
    /\ \A s \in Submitters : spc[s] = "answer" => status.state # "prepared"
    /\ client = "acked" => status.state # "prepared"

\* A job that has started names one wrapper, to everybody.
InCharge ==
    /\ \A w \in Wrappers :
          /\ wpc[w] \in PastStarting \/ main[w] # "none" => status.pid = w
          /\ wpc[w] = "starting" => supervisor = w
    /\ status.state # "prepared" =>
          /\ status.pid \in Wrappers /\ supervisor = status.pid
          /\ wpc[status.pid] \in PastStarting \cup {"gone"}
    /\ \A x \in Signallers : xpc[x] # "idle" => xpid[x] = status.pid
    /\ \A w \in doomed : status.state # "prepared" /\ status.pid = w

\* The status goes with the progress of that wrapper, and a terminal one comes
\* when the wrapper is through.
Progress ==
    /\ \A w \in Wrappers :
          /\ wpc[w] \in {"fork", "running"} => status.state = "starting"
          /\ wpc[w] \in Reaped => main[w] \in {"ok", "bad"}
          /\ wpc[w] = "walk" => kin[w] \subseteq left[w] \/ w \in grown
          /\ wpc[w] = "writeTerminated" => ~PayloadAlive(w) \/ w \in grown
    /\ status.state \in TerminalStates =>
          /\ wpc[status.pid] = "gone" /\ main[status.pid] \notin {"born", "live"}
          /\ status.state = "terminated" =>
                ~PayloadAlive(status.pid) \/ status.pid \in grown
    /\ \A x \in Signallers :
          /\ xpc[x] \in {"recheck", "record"} => ~GroupAlive(status.pid)
          /\ xpc[x] = "record" /\ IsTerminal =>
                status = Status("terminated", status.pid, "137")

\* A signal is preceded by the termination request.
RequestFirst ==
    \A x \in Signallers : xpc[x] \notin {"idle", "touch", "failed"} => request

Life ==
    /\ TypeInv
    /\ BeforePublication /\ AfterRemoval
    /\ FreshRounds
    /\ OneGeneration /\ OneOwner
    /\ Claiming /\ InCharge /\ Progress
    /\ RequestFirst
    /\ AtMostOnce /\ TermReachesPayload

Inv == TypeInv /\ (FirstLife => Life)

\* A wrapper is known by its submission shell and its launch round.
LEMMA WrapperPairs ==
    \A s, t \in Submitters, q, r \in {0, 1} :
        /\ <<s, q>> \in Wrappers
        /\ <<s, q>> = <<t, r>> <=> s = t /\ q = r
  BY DEF Wrappers, Rounds

\* The round a shell is in names one of its wrappers.
LEMMA RoundPair ==
    ASSUME TypeOK, NEW s \in Submitters
    PROVE  round[s] \in {0, 1} /\ <<s, round[s]>> \in Wrappers
<1>1. round[s] \in {0, 1}
  BY DEF TypeOK, Rounds
<1> QED
  BY <1>1, WrapperPairs

\* A launch moves one wrapper, and one that has not been launched.
LEMMA OneMoves ==
    ASSUME TypeOK, NEW v \in Wrappers, wpc[v] = "none",
           wpc' = [wpc EXCEPT ![v] = "start"] \/ wpc' = wpc
    PROVE  \A w \in Wrappers : wpc'[w] = wpc[w] \/ (wpc[w] = "none" /\ wpc'[w] = "start")
  BY DEF TypeOK

\* Nothing but a launch takes a wrapper from where it has not been launched.
LEMMA FreshStable ==
    ASSUME TypeOK, FreshRounds, UNCHANGED <<spc, round>>,
           \A w \in Wrappers : wpc[w] = "none" => wpc'[w] = "none"
    PROVE  FreshRounds'
<1> SUFFICES ASSUME NEW s \in Submitters
             PROVE  /\ spc'[s] \in {"idle", "stage", "open", "flock"} =>
                          round'[s] = 0 /\ wpc'[<<s, 0>>] = "none"
                    /\ spc'[s] = "loop" => wpc'[<<s, round'[s]>>] = "none"
                    /\ round'[s] = 0 => wpc'[<<s, 1>>] = "none"
  BY DEF FreshRounds
<1>1. round[s] \in {0, 1}
  BY DEF TypeOK, Rounds
<1>2. <<s, 0>> \in Wrappers /\ <<s, 1>> \in Wrappers /\ <<s, round[s]>> \in Wrappers
  BY <1>1, WrapperPairs
<1> QED
  BY <1>2 DEF FreshRounds

\* The invariant holds before anything has been submitted.
LEMMA LifeInit == Init => Life
<1> SUFFICES ASSUME Init PROVE Life
  OBVIOUS
<1>1. TypeInv
  BY TypeInit
<1>2. \A w \in Wrappers : /\ ~Owner(w) /\ wpc[w] = "none"
                          /\ main[w] = "none" /\ kin[w] = {}
  BY DEF Init, Owner, PayloadAlive
<1>3. status.state = "prepared" /\ status.pid = None
  BY DEF Init, Prepared, Status
<1>4. BeforePublication /\ AfterRemoval /\ OneGeneration /\ OneOwner
  BY <1>2, ShellsAssumption
  DEF Init, BeforePublication, AfterRemoval, OneGeneration, OneOwner, Published
<1>5. FreshRounds
  BY WrapperPairs DEF Init, FreshRounds, Rounds
<1>6. Claiming /\ InCharge /\ RequestFirst
  BY <1>2, <1>3 DEF Init, Claiming, InCharge, RequestFirst, PastStarting
<1>7. Progress
  BY <1>2, <1>3 DEF Init, Progress, PastStarting, Reaped
<1>8. AtMostOnce /\ TermReachesPayload
  BY <1>2 DEF Init, AtMostOnce, TermReachesPayload, Signallers
<1> QED
  BY <1>1, <1>4, <1>5, <1>6, <1>7, <1>8 DEF Life

USE DEF Life, FirstLife, TypeInv, TypeOK, Targeted, BeforePublication, AfterRemoval, OneGeneration,
        OneOwner, Claiming, InCharge, Progress, RequestFirst, AtMostOnce, Owner,
        EarlyPCs, PastStarting, Reaped, PayloadAlive, WrapperAlive, GroupAlive,
        Published, IsPrepared, IsTerminal, Requested, Prepared, Status, Rounds,
        HoldsRunLock

\* A submission shell keeps the invariant.
LEMMA LifeSubmission ==
    ASSUME Life, TypeInv', ~revived, ~revived', NEW s \in Submitters,
           Submit(s) \/ Truncate(s) \/ SubmissionStep(s)
    PROVE  Life'
<1> USE DEF Fail
<1>1. CASE Submit(s)
  BY <1>1, WrapperPairs, ShellsAssumption
  DEF Submit, FreshRounds, TermReachesPayload, Signallers
<1>2. CASE Truncate(s)
  BY <1>2, WrapperPairs, ShellsAssumption
  DEF Truncate, FreshRounds, TermReachesPayload, Signallers
<1>3. CASE Publish(s)
  BY <1>3, WrapperPairs, ShellsAssumption
  DEF Publish, FreshRounds, TermReachesPayload, Signallers
<1>4. CASE OpenSubmissionLock(s)
  BY <1>4, WrapperPairs, ShellsAssumption
  DEF OpenSubmissionLock, FreshRounds, TermReachesPayload, Signallers
<1>5. CASE LockSubmission(s)
  BY <1>5, WrapperPairs, ShellsAssumption
  DEF LockSubmission, FreshRounds, TermReachesPayload, Signallers
<1>6. CASE LockTimeout(s)
  BY <1>6, WrapperPairs, ShellsAssumption
  DEF LockTimeout, FreshRounds, TermReachesPayload, Signallers
<1>7. CASE StartLauncher(s)
  <2>1. round[s] \in {0, 1} /\ <<s, round[s]>> \in Wrappers
    BY RoundPair
  <2>2. wpc[<<s, round[s]>>] = "none" /\ spc[s] = "loop"
    BY <1>7 DEF StartLauncher, FreshRounds
  <2>3. FreshRounds'
    <3> SUFFICES ASSUME NEW t \in Submitters
                 PROVE  /\ spc'[t] \in {"idle", "stage", "open", "flock"} =>
                              round'[t] = 0 /\ wpc'[<<t, 0>>] = "none"
                        /\ spc'[t] = "loop" => wpc'[<<t, round'[t]>>] = "none"
                        /\ round'[t] = 0 => wpc'[<<t, 1>>] = "none"
      BY DEF FreshRounds
    <3>1. CASE t = s
      BY <1>7, <2>1, <2>2, <3>1, WrapperPairs DEF StartLauncher, FreshRounds
    <3>2. CASE t # s
      BY <1>7, <2>1, <2>2, <3>2, WrapperPairs DEF StartLauncher, FreshRounds
    <3> QED
      BY <3>1, <3>2
  <2>4. \A w \in Wrappers : wpc'[w] = wpc[w] \/ (wpc[w] = "none" /\ wpc'[w] = "start")
    <3>1. wpc' = [wpc EXCEPT ![<<s, round[s]>>] = "start"] \/ wpc' = wpc
      BY <1>7 DEF StartLauncher
    <3> QED
      BY <2>1, <2>2, <3>1, OneMoves
  <2>5. dir # "absent"
    BY <2>2, ShellsAssumption
  <2>6. AfterRemoval' /\ Claiming' /\ OneOwner' /\ OneGeneration'
    BY <1>7, <2>2, <2>4, <2>5 DEF StartLauncher
  <2>7. InCharge' /\ Progress'
    BY <1>7, <2>2, <2>4, <2>5 DEF StartLauncher
  <2> QED
    BY <1>7, <2>3, <2>5, <2>6, <2>7 DEF StartLauncher, TermReachesPayload, Signallers
<1>8. CASE PollSeesStart(s)
  BY <1>8, WrapperPairs, ShellsAssumption
  DEF PollSeesStart, FreshRounds, TermReachesPayload, Signallers
<1>9. CASE PollExhausted(s)
  BY <1>9, WrapperPairs, ShellsAssumption
  DEF PollExhausted, FreshRounds, TermReachesPayload, Signallers
<1>10. CASE Answer(s)
  BY <1>10, WrapperPairs, ShellsAssumption
  DEF Answer, FreshRounds, TermReachesPayload, Signallers
<1> QED
  BY <1>1, <1>2, <1>3, <1>4, <1>5, <1>6, <1>7, <1>8, <1>9, <1>10 DEF SubmissionStep

\* A wrapper and its command keep the invariant.
LEMMA LifeWrapper ==
    ASSUME Life, TypeInv', ~revived, ~revived', NEW w \in Wrappers,
           WrapperStep(w) \/ Crash(w) \/ PayloadStart(w) \/ PayloadStep(w) \/ GroupDies(w)
    PROVE  Life'
<1> USE DEF Goto, GotoInFlight, WriteStatus, ExitStatus
<1>1. CASE OpenRunLock(w)
  BY <1>1, WrapperPairs, ShellsAssumption
  DEF OpenRunLock, FreshRounds, TermReachesPayload, Signallers
<1>2. CASE LockRun(w)
  BY <1>2, WrapperPairs, ShellsAssumption
  DEF LockRun, FreshRounds, TermReachesPayload, Signallers
<1>3. CASE CheckPrepared(w)
  BY <1>3, WrapperPairs, ShellsAssumption
  DEF CheckPrepared, FreshRounds, TermReachesPayload, Signallers
<1>4. CASE RecordSupervisor(w)
  BY <1>4, WrapperPairs, ShellsAssumption
  DEF RecordSupervisor, FreshRounds, TermReachesPayload, Signallers
<1>5. CASE WriteStarting(w)
  BY <1>5, WrapperPairs, ShellsAssumption
  DEF WriteStarting, FreshRounds, TermReachesPayload, Signallers
<1>6. CASE ForkPayload(w)
  BY <1>6, WrapperPairs, ShellsAssumption
  DEF ForkPayload, FreshRounds, TermReachesPayload, Signallers
<1>7. CASE WriteRunning(w)
  BY <1>7, WrapperPairs, ShellsAssumption
  DEF WriteRunning, FreshRounds, TermReachesPayload, Signallers
<1>8. CASE Reap(w)
  BY <1>8, WrapperPairs, ShellsAssumption
  DEF Reap, FreshRounds, TermReachesPayload, Signallers
<1>9. CASE Untrap(w)
  BY <1>9, WrapperPairs, ShellsAssumption
  DEF Untrap, FreshRounds, TermReachesPayload, Signallers
<1>10. CASE Decide(w)
  BY <1>10, WrapperPairs, ShellsAssumption
  DEF Decide, FreshRounds, TermReachesPayload, Signallers
<1>20. CASE BeginWalk(w)
  BY <1>20, WrapperPairs, ShellsAssumption
  DEF BeginWalk, FreshRounds, TermReachesPayload, Signallers
<1>21. CASE ReadEntry(w)
  BY <1>21, WrapperPairs, ShellsAssumption
  DEF ReadEntry, FreshRounds, TermReachesPayload, Signallers
<1>11. CASE Drain(w)
  BY <1>11, WrapperPairs, ShellsAssumption
  DEF Drain, FreshRounds, TermReachesPayload, Signallers
<1>12. CASE WriteTerminated(w)
  BY <1>12, WrapperPairs, ShellsAssumption
  DEF WriteTerminated, FreshRounds, TermReachesPayload, Signallers
<1>13. CASE WriteExit(w)
  BY <1>13, WrapperPairs, ShellsAssumption
  DEF WriteExit, FreshRounds, TermReachesPayload, Signallers
<1>14. CASE Crash(w)
  BY <1>14, WrapperPairs, ShellsAssumption
  DEF Crash, FreshRounds, TermReachesPayload, Signallers
<1>15. CASE PayloadStart(w)
  <2>1. FreshRounds'
    BY <1>15, FreshStable DEF PayloadStart
  <2>2. TermReachesPayload'
    BY <1>15 DEF PayloadStart, TermReachesPayload, Signallers
  <2> QED
    BY <1>15, <2>1, <2>2, ShellsAssumption DEF PayloadStart
<1>16. CASE PayloadForks(w)
  BY <1>16, WrapperPairs, ShellsAssumption
  DEF PayloadForks, FreshRounds, TermReachesPayload, Signallers
<1>17. CASE PayloadExits(w)
  BY <1>17, WrapperPairs, ShellsAssumption
  DEF PayloadExits, FreshRounds, TermReachesPayload, Signallers
<1>18. CASE DescendantExits(w)
  BY <1>18, WrapperPairs, ShellsAssumption
  DEF DescendantExits, FreshRounds, TermReachesPayload, Signallers
<1>19. CASE GroupDies(w)
  <2>1. FreshRounds'
    BY <1>19, FreshStable DEF GroupDies
  <2>2. TermReachesPayload'
    BY <1>19 DEF GroupDies, TermReachesPayload, Signallers
  <2> QED
    BY <1>19, <2>1, <2>2, ShellsAssumption DEF GroupDies
<1> QED
  BY <1>1, <1>2, <1>3, <1>4, <1>5, <1>6, <1>7, <1>8, <1>9, <1>10, <1>11, <1>12, <1>13,
     <1>14, <1>15, <1>16, <1>17, <1>18, <1>19, <1>20, <1>21 DEF WrapperStep, PayloadStep

\* A signalling shell keeps the invariant.
LEMMA LifeSignal ==
    ASSUME Life, TypeInv', ~revived, ~revived', NEW x \in Signallers,
           SendSignal(x) \/ SignalStep(x)
    PROVE  Life'
<1> USE DEF Step
<1>1. CASE SendSignal(x)
  BY <1>1, WrapperPairs, ShellsAssumption
  DEF SendSignal, FreshRounds, TermReachesPayload, Signallers
<1>2. CASE RecordRequest(x)
  <2>1. FreshRounds'
    BY <1>2, FreshStable DEF RecordRequest
  <2>2. TermReachesPayload'
    BY <1>2 DEF RecordRequest, TermReachesPayload, Signallers
  <2> QED
    BY <1>2, <2>1, <2>2, ShellsAssumption DEF RecordRequest
<1>3. CASE GuardSignal(x)
  <2>1. FreshRounds'
    BY <1>3, FreshStable DEF GuardSignal
  <2>2. TermReachesPayload'
    BY <1>3 DEF GuardSignal, TermReachesPayload, Signallers
  <2> QED
    BY <1>3, <2>1, <2>2, ShellsAssumption DEF GuardSignal
<1>4. CASE DeliverTerm(x)
  <2>1. FreshRounds'
    BY <1>4, FreshStable DEF DeliverTerm
  <2>2. TermReachesPayload'
    BY <1>4 DEF DeliverTerm, TermReachesPayload, Signallers
  <2> QED
    BY <1>4, <2>1, <2>2, ShellsAssumption DEF DeliverTerm
<1>5. CASE DeliverKill(x)
  BY <1>5, WrapperPairs, ShellsAssumption
  DEF DeliverKill, FreshRounds, TermReachesPayload, Signallers
<1>6. CASE AwaitGroup(x)
  <2>1. FreshRounds'
    BY <1>6, FreshStable DEF AwaitGroup
  <2>2. TermReachesPayload'
    BY <1>6 DEF AwaitGroup, TermReachesPayload, Signallers
  <2> QED
    BY <1>6, <2>1, <2>2, ShellsAssumption DEF AwaitGroup
<1>7. CASE RecheckTerminal(x)
  <2>1. FreshRounds'
    BY <1>7, FreshStable DEF RecheckTerminal
  <2>2. TermReachesPayload'
    BY <1>7 DEF RecheckTerminal, TermReachesPayload, Signallers
  <2> QED
    BY <1>7, <2>1, <2>2, ShellsAssumption DEF RecheckTerminal
<1>8. CASE RecordKilled(x)
  <2>1. FreshRounds'
    BY <1>8, FreshStable DEF RecordKilled
  <2>2. TermReachesPayload'
    BY <1>8 DEF RecordKilled, TermReachesPayload, Signallers
  <2> QED
    BY <1>8, <2>1, <2>2, ShellsAssumption DEF RecordKilled
<1>9. CASE AnswerSignal(x)
  BY <1>9, WrapperPairs, ShellsAssumption
  DEF AnswerSignal, FreshRounds, TermReachesPayload, Signallers
<1> QED
  BY <1>1, <1>2, <1>3, <1>4, <1>5, <1>6, <1>7, <1>8, <1>9 DEF SignalStep
\* The client's own steps keep the invariant.
LEMMA LifeClient ==
    ASSUME Life, TypeInv', ~revived, ~revived', LoseChannel \/ Observe \/ CleanUp
    PROVE  Life'
<1>1. FreshRounds'
  BY FreshStable DEF LoseChannel, Observe, CleanUp
<1>2. TermReachesPayload'
  BY DEF LoseChannel, Observe, CleanUp, TermReachesPayload, Signallers
<1>3. CASE LoseChannel
  BY <1>1, <1>2, <1>3 DEF LoseChannel
<1>4. CASE Observe
  BY <1>1, <1>2, <1>4, ShellsAssumption DEF Observe
<1>5. CASE CleanUp
  BY <1>1, <1>2, <1>5, ShellsAssumption DEF CleanUp
<1> QED
  BY <1>3, <1>4, <1>5

\* The invariant speaks of the variables alone.
LEMMA LifeStutter == ASSUME Life, UNCHANGED vars PROVE Life'
<1>1. FreshRounds'
  BY FreshStable DEF vars
<1>2. TermReachesPayload'
  BY DEF vars, TermReachesPayload, Signallers
<1> QED
  BY <1>1, <1>2 DEF vars

\* Only a publication touches the mark of a job that was brought back.
LEMMA Marked ==
    ASSUME TypeInv, [Next]_vars, \A s \in Submitters : ~Publish(s)
    PROVE  revived' = revived
<1>1. CASE UNCHANGED vars
  BY <1>1 DEF vars
<1>2. ASSUME NEW s \in Submitters, Submit(s) \/ Truncate(s) \/ SubmissionStep(s)
      PROVE  revived' = revived
  BY <1>2 DEF Submit, Truncate, SubmissionStep, OpenSubmissionLock,
     LockSubmission, LockTimeout, StartLauncher, PollSeesStart, PollExhausted, Answer
<1>3. ASSUME NEW w \in Wrappers,
             WrapperStep(w) \/ Crash(w) \/ PayloadStart(w) \/ PayloadStep(w) \/ GroupDies(w)
      PROVE  revived' = revived
  BY <1>3 DEF WrapperStep, Crash, PayloadStart, PayloadStep, GroupDies, OpenRunLock,
     LockRun, CheckPrepared, RecordSupervisor, WriteStarting, ForkPayload, WriteRunning,
     Reap, Untrap, Decide, BeginWalk, ReadEntry, Drain, WriteTerminated, WriteExit,
     WriteStatus, PayloadForks, PayloadExits, DescendantExits
<1>4. ASSUME NEW x \in Signallers, SendSignal(x) \/ SignalStep(x) PROVE revived' = revived
  BY <1>4 DEF SendSignal, SignalStep, RecordRequest, GuardSignal, DeliverTerm,
     DeliverKill, AwaitGroup, RecheckTerminal, RecordKilled, AnswerSignal
<1>5. CASE LoseChannel \/ Observe \/ CleanUp
  BY <1>5 DEF LoseChannel, Observe, CleanUp
<1> QED
  BY <1>1, <1>2, <1>3, <1>4, <1>5 DEF Next, ClientStep

\* A job that was brought back stays so.
LEMMA NoWayBack == ASSUME TypeInv, [Next]_vars, revived PROVE revived'
<1>1. ASSUME NEW s \in Submitters, Publish(s) PROVE revived'
  BY <1>1 DEF Publish
<1> QED
  BY <1>1, Marked

\* It is brought back by a publication after its removal ...
LEMMA Comeback ==
    ASSUME TypeInv, [Next]_vars, ~revived, revived'
    PROVE  \E s \in Submitters : Publish(s) /\ dir = "removed"
<1>1. PICK s \in Submitters : Publish(s)
  BY Marked
<1>2. dir = "removed"
  BY <1>1 DEF Publish
<1> QED
  BY <1>1, <1>2

\* ... and so not while its directory stays.
LEMMA SameDirectory ==
    ASSUME TypeInv, [Next]_vars, ~revived, Published, dir' = dir
    PROVE  ~revived'
  BY Comeback, ShellsAssumption

\* Every step within a first life keeps what holds of it.
LEMMA LifeNext == ASSUME Life, ~revived, ~revived', TypeInv', [Next]_vars PROVE Life'
<1>2. CASE UNCHANGED vars
  BY <1>2, LifeStutter
<1>3. CASE ClientStep
  BY <1>3, LifeClient, LifeSubmission, LifeSignal DEF ClientStep
<1>4. ASSUME NEW s \in Submitters, Truncate(s) \/ SubmissionStep(s) PROVE Life'
  BY <1>4, LifeSubmission
<1>5. ASSUME NEW w \in Wrappers,
             WrapperStep(w) \/ Crash(w) \/ PayloadStart(w) \/ PayloadStep(w) \/ GroupDies(w)
      PROVE  Life'
  BY <1>5, LifeWrapper
<1>6. ASSUME NEW x \in Signallers, SignalStep(x) PROVE Life'
  BY <1>6, LifeSignal
<1> QED
  BY <1>2, <1>3, <1>4, <1>5, <1>6 DEF Next

\* Every step keeps the invariant.
LEMMA InvNext == ASSUME Inv, [Next]_vars PROVE Inv'
<1>1. TypeInv'
  BY TypeNext DEF Inv
<1>2. CASE revived'
  BY <1>1, <1>2 DEF Inv
<1>3. CASE ~revived'
  <2>1. ~revived
    BY <1>3, NoWayBack DEF Inv
  <2> QED
    BY <1>1, <1>3, <2>1, LifeNext DEF Inv
<1> QED
  BY <1>2, <1>3

\* The invariant holds of every reachable state.
THEOREM Invariance == Spec => []Inv
<1>1. Init => Inv
  BY LifeInit DEF Inv
<1>2. Inv /\ [Next]_vars => Inv'
  BY InvNext
<1> HIDE DEF Inv, Life
<1> QED
  BY <1>1, <1>2, PTL DEF Spec

\* Until the job is published again after its removal, at most one wrapper starts
\* its command.
THEOREM StartedOnce == Spec => []AtMostOnce
<1>1. Inv => AtMostOnce
  BY DEF Inv
<1> HIDE DEF Inv, AtMostOnce
<1> QED
  BY <1>1, Invariance, PTL

\* Until the job is published again, a terminal status is never ahead of the end
\* of the command, and a job that is reported as terminated has processes left in
\* its group only if the group forked while the wrapper last walked over /proc.
THEOREM NeverEarly == Spec => []TerminalMeansOver
<1>1. Inv => TerminalMeansOver
  BY DEF Inv, TerminalMeansOver
<1> HIDE DEF Inv
<1> QED
  BY <1>1, Invariance, PTL

\* Until the job is published again, every running command has had the signal once
\* a SIGTERM shell has sent it.
THEOREM NoneEscapes == Spec => []TermReachesPayload
<1>1. Inv => TermReachesPayload
  BY DEF Inv, TermReachesPayload
<1> HIDE DEF Inv
<1> QED
  BY <1>1, Invariance, PTL

\* Until the job is published again, an acknowledged job has a wrapper in charge,
\* whose group signals go to.
THEOREM Acknowledged == Spec => []AckMeansStarted
<1>1. Inv => AckMeansStarted
  BY ShellsAssumption DEF Inv, AckMeansStarted
<1> HIDE DEF Inv
<1> QED
  BY <1>1, Invariance, PTL

-----------------------------------------------------------------------------
(***************************************************************************)
(* What a step does to the persisted job in its first life, from which     *)
(* follow both that the status only advances and that the job implements   *)
(* its lifecycle.                                                          *)
(***************************************************************************)
NothingPersists == dir' = dir /\ status' = status /\ ran' = ran
Created ==
    /\ dir = "absent" /\ Published'
    /\ status'.state = "prepared" /\ ran' = ran
Advanced ==
    /\ Published /\ dir' = dir /\ ran' = ran
    /\ status'.state \in Following(status.state)
    /\ status.pid # None => status'.pid = status.pid
Started ==
    /\ Published /\ dir' = dir /\ status' = status
    /\ status.state \in {"starting", "running"}
    /\ ran = {} /\ \E w \in Wrappers : ran' = {w}
Removed ==
    /\ Published /\ status.state \in TerminalStates
    /\ dir' = "removed" /\ ran' = ran
JobStep == NothingPersists \/ Created \/ Advanced \/ Started \/ Removed

\* A step leaves the persisted job alone, or creates, advances, starts or removes it.
LEMMA PersistedSteps == ASSUME Life, ~revived, ~revived', [Next]_vars PROVE JobStep
<1> USE ShellsAssumption
<1> USE DEF JobStep, NothingPersists
<1>1. CASE UNCHANGED vars
  BY <1>1 DEF vars
<1>2. CASE LoseChannel \/ Observe
  BY <1>2 DEF LoseChannel, Observe
<1>3. CASE CleanUp
  BY <1>3 DEF CleanUp, Removed
<1>4. ASSUME NEW s \in Submitters, Publish(s) PROVE JobStep
  BY <1>4 DEF Publish, Created
<1>5. ASSUME NEW s \in Submitters, Submit(s) \/ Truncate(s) \/ SubmissionStep(s), ~Publish(s)
      PROVE  JobStep
  BY <1>5 DEF Submit, Truncate, SubmissionStep, OpenSubmissionLock, LockSubmission,
     LockTimeout, StartLauncher, PollSeesStart, PollExhausted, Answer
<1>6. ASSUME NEW w \in Wrappers, WriteStarting(w) \/ WriteRunning(w) PROVE JobStep
  BY <1>6 DEF WriteStarting, WriteRunning, WriteStatus, Goto, GotoInFlight, Advanced,
     Following
<1>7. ASSUME NEW w \in Wrappers, WriteTerminated(w) \/ WriteExit(w) PROVE JobStep
  BY <1>7 DEF WriteTerminated, WriteExit, ExitStatus, WriteStatus, GotoInFlight, Advanced,
     Following
<1>8. ASSUME NEW w \in Wrappers, PayloadStart(w) PROVE JobStep
  BY <1>8 DEF PayloadStart, Started
<1>9. ASSUME NEW w \in Wrappers,
             WrapperStep(w) \/ Crash(w) \/ PayloadStep(w) \/ GroupDies(w),
             ~WriteStarting(w), ~WriteRunning(w), ~WriteTerminated(w), ~WriteExit(w)
      PROVE  JobStep
  BY <1>9 DEF WrapperStep, Crash, PayloadStep, GroupDies, OpenRunLock, LockRun,
     CheckPrepared, RecordSupervisor, ForkPayload, Reap, Untrap, Decide, BeginWalk,
     ReadEntry, Drain,
     PayloadForks, PayloadExits, DescendantExits
<1>10. ASSUME NEW x \in Signallers, RecordKilled(x) PROVE JobStep
  BY <1>10 DEF RecordKilled, Step, Advanced, Following
<1>11. ASSUME NEW x \in Signallers, SendSignal(x) \/ SignalStep(x), ~RecordKilled(x)
       PROVE  JobStep
  BY <1>11 DEF SendSignal, SignalStep, RecordRequest, GuardSignal, DeliverTerm,
     DeliverKill, AwaitGroup, RecheckTerminal, AnswerSignal
<1> QED
  BY <1>1, <1>2, <1>3, <1>4, <1>5, <1>6, <1>7, <1>8, <1>9, <1>10, <1>11
  DEF Next, ClientStep, WrapperStep, SignalStep

\* Until the job is published again, its persisted status only advances, keeps its
\* PID and stays terminal.
THEOREM OnlyAdvances == Spec => StatusAdvances
<1>1. Inv /\ Inv' /\ [Next]_vars => [FirstLife /\ Published /\ dir' = dir =>
          \/ status' = status
          \/ /\ status'.state \in Following(status.state)
             /\ status.pid # None => status'.pid = status.pid]_vars
  <2> SUFFICES ASSUME Inv, [Next]_vars, ~revived, Published, dir' = dir
               PROVE  \/ status' = status
                      \/ /\ status'.state \in Following(status.state)
                         /\ status.pid # None => status'.pid = status.pid
    OBVIOUS
  <2>1. ~revived'
    BY SameDirectory DEF Inv
  <2>2. JobStep
    BY <2>1, PersistedSteps DEF Inv
  <2> QED
    BY <2>2, ShellsAssumption
    DEF JobStep, NothingPersists, Created, Advanced, Started, Removed
<1> HIDE DEF Inv, Published, FirstLife
<1> QED
  BY <1>1, Invariance, PTL DEF Spec, StatusAdvances

\* A job is brought back after its removal only by a submission shell whose channel
\* was lost before it published, and only once another has been acknowledged.
THEOREM BroughtBack == Spec => OnlyStragglersRevive
<1>1. Inv /\ Inv' /\ [Next]_vars => [FirstLife /\ revived' =>
          client = "acked" /\ \E s \in Submitters : spc[s] = "stage" /\ waiting # s]_vars
  <2> SUFFICES ASSUME Inv, [Next]_vars, ~revived, revived'
               PROVE  client = "acked" /\ \E s \in Submitters : spc[s] = "stage" /\ waiting # s
    OBVIOUS
  <2>1. PICK s \in Submitters : Publish(s) /\ dir = "removed"
    BY Comeback DEF Inv
  <2>2. observed /\ client = "acked" /\ waiting = None
    BY <2>1, ShellsAssumption DEF Inv
  <2>3. spc[s] = "stage" /\ waiting # s
    BY <2>1, <2>2, ShellsAssumption DEF Publish
  <2> QED
    BY <2>2, <2>3
<1> HIDE DEF Inv, FirstLife
<1> QED
  BY <1>1, Invariance, PTL DEF Spec, OnlyStragglersRevive

\* Whatever the shells and processes do, the job goes through its lifecycle, until
\* it is published again, which the lifecycle allows for and says no more about.
THEOREM Refinement == Spec => ImplementsLifecycle
<1> DEFINE phase == IF revived THEN "revived" ELSE IF Published THEN status.state ELSE dir
<1>1. Init => Lifecycle!Init
  BY ShellsAssumption DEF Init, Lifecycle!Init
<1>2. Inv /\ Inv' /\ [Next]_vars => [Lifecycle!Next]_<<phase, ran>>
  <2> SUFFICES ASSUME Inv, Inv', [Next]_vars
               PROVE  Lifecycle!Next \/ UNCHANGED <<phase, ran>>
    OBVIOUS
  <2>1. CASE revived
    <3>1. revived' /\ ran' \subseteq Wrappers
      BY <2>1, NoWayBack DEF Inv
    <3> QED
      BY <2>1, <3>1 DEF Lifecycle!Next, Lifecycle!Unbound
  <2>2. CASE ~revived /\ revived'
    <3>1. PICK s \in Submitters : Publish(s) /\ dir = "removed"
      BY <2>2, Comeback DEF Inv
    <3>2. ran' = ran /\ ~Published
      BY <3>1, ShellsAssumption DEF Publish
    <3> QED
      BY <2>2, <3>1, <3>2 DEF Lifecycle!Next, Lifecycle!Revive
  <2>3. CASE ~revived /\ ~revived'
    <3>1. JobStep
      BY <2>3, PersistedSteps DEF Inv
    <3>2. CASE NothingPersists
      BY <2>3, <3>2 DEF NothingPersists
    <3>3. CASE Created
      BY <2>3, <3>3, ShellsAssumption DEF Created, Lifecycle!Next, Lifecycle!Create
    <3>4. CASE Advanced
      BY <2>3, <3>4 DEF Advanced, Following, Lifecycle!Next, Lifecycle!Advance,
         Lifecycle!Following, Lifecycle!JobStates, Lifecycle!TerminalStates
    <3>5. CASE Started
      BY <2>3, <3>5 DEF Started, Lifecycle!Next, Lifecycle!Start
    <3>6. CASE Removed
      BY <2>3, <3>6, ShellsAssumption
      DEF Removed, Lifecycle!Next, Lifecycle!Remove, Lifecycle!TerminalStates
    <3> QED
      BY <3>1, <3>2, <3>3, <3>4, <3>5, <3>6 DEF JobStep
  <2> QED
    BY <2>1, <2>2, <2>3
<1> HIDE DEF Inv, Published
<1> QED
  BY <1>1, <1>2, Invariance, PTL DEF Spec, ImplementsLifecycle, Lifecycle!Spec
=============================================================================
