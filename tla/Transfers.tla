----------------------------- MODULE Transfers -----------------------------
(***************************************************************************)
(* One upload() or download() (asynchronous/sandbox.py, _transfer.py): the *)
(* payload is copied to a staging path, again after a lost connection, and *)
(* published from there. A download is published by a thread that goes on  *)
(* when its caller is cancelled, an upload by a command on the guest that  *)
(* goes on when its connection is lost, and may then be run once more. So  *)
(* may the command that empties the staging path of an upload, which then  *)
(* comes to the copy of a later attempt.                                   *)
(***************************************************************************)
EXTENDS Naturals

CONSTANTS Entries, \* files of a directory that is transferred
          Kept,    \* what the destination holds before
          MaxRuns, \* bound: runs of the publishing command
          None

ASSUME EntriesAssumption == Entries # {} /\ Kept \notin Entries
ASSUME RunsAssumption == MaxRuns \in Nat \ {0}

\* A file, or what a directory has; a link is one to a directory.
Existing == [kind : {"file", "directory", "link"}, has : SUBSET (Entries \cup {Kept})]

ASSUME NoneAssumption ==
    None \notin Existing \cup {"ok", "failed", "stage", "combined", "target"}

Runs == 1 .. MaxRuns

VARIABLES upload,   \* or download
          overlay,  \* "source/.": the contents of a directory
          container,\* of an image: guest paths lead to its container
          payload,  \* the tree to transfer
          before,   \* the tree at the destination, None for none
          stage, target, combined, backup, \* the trees at these paths
          guest,    \* what docker cp has put on the guest for a download
          pc, outcome,  \* of the call
          interrupted,  \* cancelled or timed out, or its connection given up,
                        \* while it was being published
          thread,   \* the publishing thread
          via,      \* the path it moves to the destination
          sweeping, \* the path of the tree that rmtree is in
          run,      \* the publishing command the call waits for, 0 before
          rpc,      \* of each: where it is
          apart,    \* of each: those before it were over when it began
          todo,     \* entries a copy has still to make, per thread or run
          sent,     \* entries this attempt has copied to the staging path
          late,     \* an earlier attempt's reset of an upload: where it is
          disturbed,\* history: it had an effect on what came after it
          littered  \* a removal failed, or what was moved aside was not put back

trees == <<stage, target, combined, backup, guest>>
request == <<upload, overlay, container, payload, before>>
staging == <<sent, late, disturbed>>
local == <<thread, via, sweeping>>
remote == <<run, rpc, apart>>
vars == <<request, staging, trees, pc, outcome, interrupted, local, remote, todo, littered>>

-----------------------------------------------------------------------------
Thread == 0   \* its index in todo

File(x) == [kind |-> "file", has |-> {x}]
Directory(s) == [kind |-> "directory", has |-> s]

\* os.path.isdir and [ -d ] follow it.
Link(s) == [kind |-> "link", has |-> s]

Trees == {None} \cup Existing

Kind(t) == IF t = None THEN "none" ELSE t.kind
IsDirectory(t) == Kind(t) \in {"directory", "link"}
With(t, e) == [t EXCEPT !.has = @ \cup {e}]
Without(t, e) == [t EXCEPT !.has = @ \ {e}]
Holds(t, e) == t # None /\ e \in t.has
Whole(t) == t # None /\ payload.has \subseteq t.has

Over == {"ok", "error"}
RunOver == {"idle", "exit 0", "exit 1", "killed"}

Init ==
    /\ upload \in BOOLEAN
    /\ payload \in {Directory(Entries)} \cup {File(e) : e \in Entries}
    /\ overlay \in BOOLEAN /\ (overlay => payload.kind = "directory")
    /\ container \in BOOLEAN
    /\ before \in {None, File(Kept), Directory({Kept}), Link({Kept})}
    /\ stage = None /\ target = before /\ combined = None /\ backup = None
    /\ guest = None
    /\ pc = (IF container /\ ~upload THEN "extract" ELSE "reset")
    /\ outcome = None /\ interrupted = FALSE
    /\ thread = "idle" /\ via = None /\ sweeping = None
    /\ run = 0
    /\ rpc = [r \in Runs |-> "idle"] /\ apart = [r \in Runs |-> FALSE]
    /\ todo = [i \in Runs \cup {Thread} |-> {}]
    /\ sent = {} /\ late = "none" /\ disturbed = FALSE
    /\ littered = FALSE

-----------------------------------------------------------------------------
(* A download from a container: docker cp to the guest, and the rights to  *)
(* read it. The commands are repeated when their connection is lost.       *)

ExtractRest ==
    UNCHANGED <<request, staging, target, stage, combined, backup, outcome, interrupted,
                local, remote, todo, littered>>

Extract ==
    /\ pc = "extract"
    /\ \E e \in payload.has :
          guest' = IF guest = None THEN [payload EXCEPT !.has = {e}] ELSE With(guest, e)
    /\ UNCHANGED pc /\ ExtractRest

Extracted ==
    /\ pc = "extract" /\ Whole(guest)
    /\ pc' = "reset"
    /\ UNCHANGED guest /\ ExtractRest

-----------------------------------------------------------------------------
(* The copy to the staging path.                                           *)

\* The finally clause of every transfer.
Finally(how) ==
    /\ pc' = "clean up"
    /\ outcome' = how

\* The contents of a directory are uploaded into one that the reset makes; any
\* other payload is made by scp.
Made == upload /\ overlay

\* What a reset, and each step of one, leaves alone.
ResetRest ==
    UNCHANGED <<request, combined, backup, guest, outcome, interrupted, local, remote,
                todo, littered>>

\* Every attempt starts from nothing. An rm that is in the old tree is left there.
Reset ==
    /\ pc = "reset"
    /\ stage' = IF Made THEN Directory({}) ELSE None
    /\ sent' = {}
    /\ late' = IF late = "in stage" THEN "rmdir" ELSE late
    /\ pc' = "copy"
    /\ UNCHANGED <<target, disturbed>> /\ ResetRest

\* No answer came: the next attempt resets once more, and this command is run
\* when the guest gets to it. Bound: one such command at a time.
ResetLost ==
    /\ pc = "reset" /\ upload /\ late = "none"
    /\ late' = "begun"
    /\ UNCHANGED <<request, trees, sent, disturbed, pc, outcome, interrupted, local,
                   remote, todo, littered>>

CopyEntry ==
    /\ pc = "copy"
    /\ \E e \in payload.has \ sent :
          /\ container /\ ~upload => Holds(guest, e)
          /\ stage = None => sent = {} /\ ~Made
          /\ stage' = IF stage = None THEN [payload EXCEPT !.has = {e}] ELSE With(stage, e)
          /\ sent' = sent \cup {e}
    /\ UNCHANGED <<request, target, combined, backup, guest, pc, outcome, interrupted,
                   local, remote, late, disturbed, todo, littered>>

\* scp does not look at what it has sent again.
Copied ==
    /\ pc = "copy" /\ sent = payload.has
    /\ pc' = "publish"
    /\ UNCHANGED <<request, staging, trees, outcome, interrupted, local, remote, todo, littered>>

\* Before publication: a lost connection has all repeated, anything else and
\* a cancellation end it.
CopyLost ==
    /\ pc = "copy"
    /\ pc' = "reset"
    /\ UNCHANGED <<request, staging, trees, outcome, interrupted, local, remote, todo, littered>>

CopyFails ==
    /\ pc \in {"extract", "reset", "copy"}
    /\ Finally("failed")
    /\ UNCHANGED <<request, staging, trees, interrupted, local, remote, todo, littered>>

-----------------------------------------------------------------------------
(* The reset that no answer came from: rm -rf of the staging path, entry by *)
(* entry, and for a directory's contents mkdir of it.                       *)

\* Nothing that is there when the next attempt begins is of use to it.
LateEffect == disturbed' = (disturbed \/ pc # "reset")
LateRest == UNCHANGED <<pc, sent>> /\ ResetRest
LateNext == IF Made THEN "mkdir" ELSE "none"

\* A container's staging directory is root's once chown has been over it.
Removable == container => \A r \in Runs : rpc[r] \in {"idle", "own", "killed"}

\* A file is unlinked, a directory is opened.
LateOpens ==
    /\ late = "begun" /\ (stage # None => Removable)
    /\ late' = IF Kind(stage) = "directory" THEN "in stage" ELSE LateNext
    /\ IF Kind(stage) = "file" THEN stage' = None /\ LateEffect
       ELSE UNCHANGED <<stage, disturbed>>
    /\ UNCHANGED target /\ LateRest

LateRemoves ==
    /\ \/ /\ late = "in stage" /\ stage # None /\ Removable
          /\ \E e \in stage.has : stage' = Without(stage, e)
          /\ UNCHANGED target
       \/ /\ late = "in target" /\ target # None
          /\ \E e \in target.has : target' = Without(target, e)
          /\ UNCHANGED stage
    /\ LateEffect
    /\ UNCHANGED late /\ LateRest

LateRmdir ==
    /\ late \in {"in stage", "rmdir"}
    /\ stage # None => Removable /\ Kind(stage) = "directory" /\ stage.has = {}
    /\ late' = LateNext
    /\ stage' = None
    /\ IF stage = None THEN UNCHANGED disturbed ELSE LateEffect
    /\ UNCHANGED target /\ LateRest

LateMakes ==
    /\ late = "mkdir" /\ stage = None
    /\ late' = "none"
    /\ stage' = Directory({}) /\ LateEffect
    /\ UNCHANGED target /\ LateRest

\* It fails, is killed, or has nothing more to remove.
LateEnds ==
    /\ late # "none"
    /\ late' = "none"
    /\ UNCHANGED <<stage, target, disturbed>> /\ LateRest

LateStep == LateOpens \/ LateRemoves \/ LateRmdir \/ LateMakes \/ LateEnds

-----------------------------------------------------------------------------
(* publish_local_transfer() and publish_local_contents(), in a thread.     *)

ThreadGoto(place) == thread' = place /\ UNCHANGED <<via, sweeping>>
ThreadTodo(s) == todo' = [todo EXCEPT ![Thread] = s]

\* What a step of the thread never touches.
ThreadRest == UNCHANGED <<request, staging, guest, pc, outcome, interrupted, remote>>

PublishLocally ==
    /\ pc = "publish" /\ ~upload /\ thread = "idle"
    /\ IF IsDirectory(stage) /\ (IsDirectory(target) \/ overlay)
       THEN ThreadGoto("combine")
       ELSE thread' = "replace" /\ via' = "stage" /\ UNCHANGED sweeping
    /\ UNCHANGED <<trees, todo, littered>> /\ ThreadRest

\* Mutant: the destination is not copied.
CombineEmpty ==
    /\ thread = "combine"
    /\ combined' = Directory({})
    /\ ThreadGoto("list")
    /\ UNCHANGED <<stage, target, backup, todo, littered>> /\ ThreadRest

\* copytree() of the destination, or a new directory.
Combine ==
    /\ thread = "combine"
    /\ \/ /\ Kind(target) # "file"
          /\ combined' = Directory(IF target = None THEN {} ELSE target.has)
          /\ ThreadGoto("list")
       \/ ThreadGoto("unwind, error") /\ UNCHANGED combined
    /\ UNCHANGED <<stage, target, backup, todo, littered>> /\ ThreadRest

\* copytree() of the staging directory lists it, then copies what it has seen.
List ==
    /\ thread = "list"
    /\ \/ stage # None /\ ThreadTodo(stage.has) /\ ThreadGoto("overlay")
       \/ stage = None /\ ThreadGoto("unwind, error") /\ UNCHANGED todo
    /\ UNCHANGED <<trees, littered>> /\ ThreadRest

Overlay ==
    /\ thread = "overlay"
    /\ \E e \in todo[Thread] :
          \/ /\ Holds(stage, e)
             /\ combined' = With(combined, e)
             /\ ThreadTodo(todo[Thread] \ {e})
             /\ UNCHANGED thread
          \/ ThreadTodo({}) /\ thread' = "unwind, error" /\ UNCHANGED combined
    /\ UNCHANGED <<via, sweeping, stage, target, backup, littered>> /\ ThreadRest

Overlaid ==
    /\ thread = "overlay" /\ todo[Thread] = {}
    /\ thread' = "replace" /\ via' = "combined"
    /\ UNCHANGED <<sweeping, trees, todo, littered>> /\ ThreadRest

\* os.replace() of the path via by the destination. A tree that rmtree is in
\* takes rmtree along, which works on open directories.
Source == IF via = "combined" THEN combined ELSE stage
MoveToTarget ==
    /\ target' = Source
    /\ IF via = "combined" THEN combined' = None /\ UNCHANGED <<stage, sweeping>>
       ELSE /\ stage' = None /\ UNCHANGED combined
            /\ sweeping' = IF sweeping = "stage" THEN "target" ELSE sweeping

\* _replace_local_transfer: a directory is moved aside, anything else replaced.
MoveAside ==
    /\ thread = "replace" /\ Kind(target) = "directory"
    /\ backup' = target /\ target' = None
    /\ ThreadGoto("swap")
    /\ UNCHANGED <<stage, combined, todo, littered>> /\ ThreadRest

Replaceable ==
    \/ Kind(target) = "none"
    \/ Kind(target) \in {"file", "link"} /\ Kind(Source) = "file"

Replace ==
    /\ thread = "replace" /\ Source # None /\ Replaceable
    /\ MoveToTarget
    /\ thread' = "unwind, ok" /\ UNCHANGED via
    /\ UNCHANGED <<backup, todo, littered>> /\ ThreadRest

\* Also what a directory does that is moved over a file or a link.
ReplaceFails ==
    /\ thread = "replace"
    /\ ThreadGoto("unwind, error")
    /\ UNCHANGED <<trees, todo, littered>> /\ ThreadRest

Swap ==
    /\ thread = "swap" /\ Source # None
    /\ MoveToTarget
    /\ thread' = "drop" /\ UNCHANGED via
    /\ UNCHANGED <<backup, todo, littered>> /\ ThreadRest

\* Mutant: the directory that was moved aside is removed all the same.
SwapFailsForGood ==
    /\ thread = "swap"
    /\ backup' = None
    /\ ThreadGoto("unwind, error")
    /\ UNCHANGED <<target, stage, combined, todo, littered>> /\ ThreadRest

\* What was moved aside is put back, if that does not fail too.
SwapFails ==
    /\ thread = "swap"
    /\ \/ target' = backup /\ backup' = None /\ UNCHANGED littered
       \/ littered' = TRUE /\ UNCHANGED <<target, backup>>
    /\ ThreadGoto("unwind, error")
    /\ UNCHANGED <<stage, combined, todo>> /\ ThreadRest

DropBackup ==
    /\ thread = "drop"
    /\ \/ backup' = None /\ ThreadGoto("unwind, ok") /\ UNCHANGED littered
       \/ ThreadGoto("unwind, error") /\ littered' = TRUE /\ UNCHANGED backup
    /\ UNCHANGED <<stage, target, combined, todo>> /\ ThreadRest

\* Mutant: what was combined is left where it is.
UnwindNothing ==
    /\ thread \in {"unwind, ok", "unwind, error"}
    /\ ThreadGoto(IF thread = "unwind, ok" THEN "ok" ELSE "error")
    /\ UNCHANGED <<trees, todo, littered>> /\ ThreadRest

\* The finally clause of publish_local_contents().
Unwind ==
    /\ thread \in {"unwind, ok", "unwind, error"}
    /\ combined' = None
    /\ ThreadGoto(IF thread = "unwind, ok" THEN "ok" ELSE "error")
    /\ UNCHANGED <<stage, target, backup, todo, littered>> /\ ThreadRest

ThreadStep ==
    \/ Combine \/ List \/ Overlay \/ Overlaid \/ MoveAside \/ Replace
    \/ ReplaceFails \/ Swap \/ SwapFails \/ DropBackup \/ Unwind

PublishedLocally ==
    /\ pc = "publish" /\ thread \in Over
    /\ Finally(IF thread = "ok" THEN "ok" ELSE "failed")
    /\ UNCHANGED <<request, staging, trees, interrupted, local, remote, todo, littered>>

-----------------------------------------------------------------------------
(* The publishing command on the guest, and the one that merges a          *)
(* directory's contents and leaves the staging path to the cleanup.        *)

RunGoto(r, place) == rpc' = [rpc EXCEPT ![r] = place] /\ UNCHANGED <<run, apart>>
RunTodo(r, s) == todo' = [todo EXCEPT ![r] = s]
RunLeaves ==
    /\ UNCHANGED <<request, combined, backup, guest, pc, outcome, interrupted, local, littered>>
    /\ UNCHANGED <<sent, disturbed>>
RunRest == RunLeaves /\ UNCHANGED late

\* The first time, or again because no answer came.
PublishRemotely ==
    /\ pc = "publish" /\ upload /\ run < MaxRuns
    /\ run' = run + 1
    /\ rpc' = [rpc EXCEPT ![run + 1] = IF container THEN "own"
                                             ELSE IF overlay THEN "make" ELSE "test"]
    /\ apart' = [apart EXCEPT ![run + 1] = \A r \in Runs : rpc[r] \in RunOver]
    /\ UNCHANGED <<trees, todo>> /\ RunRest

\* Mutant: the command does not expect to find its work done.
TestNothing(r) ==
    /\ rpc[r] = "test"
    /\ RunGoto(r, "decide")
    /\ UNCHANGED <<stage, target, todo>> /\ RunRest

\* No staging path: an earlier run has published it.
Test(r) ==
    /\ rpc[r] = "test"
    /\ RunGoto(r, IF stage = None THEN "exit 0" ELSE "decide")
    /\ UNCHANGED <<stage, target, todo>> /\ RunRest

Decide(r) ==
    /\ rpc[r] = "decide"
    /\ \/ /\ IsDirectory(stage) /\ IsDirectory(target)
          /\ RunGoto(r, "merge") /\ RunTodo(r, stage.has)
       \/ /\ ~(IsDirectory(stage) /\ IsDirectory(target))
          /\ RunGoto(r, "move") /\ UNCHANGED todo
    /\ UNCHANGED <<stage, target>> /\ RunRest

\* chown of what is staged for a container, to root.
Own(r) ==
    /\ rpc[r] = "own"
    /\ RunGoto(r, IF stage = None THEN "exit 1" ELSE "make")
    /\ UNCHANGED <<stage, target, todo>> /\ RunRest

\* mkdir -p and cp -a for the contents of a directory, or docker cp, which looks
\* for its source before it makes anything.
Fits == IsDirectory(payload) => Kind(target) # "file"
Opened == IF target = None /\ IsDirectory(payload) THEN Directory({}) ELSE target
Make(r) ==
    /\ rpc[r] = "make"
    /\ \/ /\ stage # None /\ Fits
          /\ target' = Opened
          /\ RunGoto(r, "merge") /\ RunTodo(r, stage.has)
       \/ /\ stage = None \/ ~Fits
          /\ target' = IF Fits /\ ~container THEN Opened ELSE target
          /\ RunGoto(r, "exit 1") /\ UNCHANGED todo
    /\ UNCHANGED stage /\ RunRest

Merge(r) ==
    /\ rpc[r] = "merge"
    /\ \E e \in todo[r] :
          \/ /\ Holds(stage, e)
             /\ target' = IF IsDirectory(target) THEN With(target, e) ELSE stage
             /\ RunTodo(r, todo[r] \ {e})
             /\ UNCHANGED rpc
          \/ /\ ~Holds(stage, e)
             /\ RunTodo(r, {}) /\ rpc' = [rpc EXCEPT ![r] = "exit 1"]
             /\ UNCHANGED target
    /\ UNCHANGED <<run, apart, stage>> /\ RunRest

Merged(r) ==
    /\ rpc[r] = "merge" /\ todo[r] = {}
    /\ stage' = IF overlay \/ container THEN stage ELSE None
    /\ RunGoto(r, "exit 0")
    /\ UNCHANGED <<target, todo>> /\ RunRest

\* mv -T -f, which takes a directory for nothing but an empty one, and with it
\* an rm that is in it.
Movable ==
    \/ Kind(stage) # "none" /\ Kind(target) = "none"
    \/ Kind(stage) = "file" /\ Kind(target) \in {"file", "link"}

Move(r) ==
    /\ rpc[r] = "move"
    /\ \/ /\ Movable
          /\ target' = stage /\ stage' = None
          /\ late' = IF late = "in stage" THEN "in target" ELSE late
          /\ RunGoto(r, "exit 0")
       \/ ~Movable /\ RunGoto(r, "exit 1") /\ UNCHANGED <<stage, target, late>>
    /\ UNCHANGED todo /\ RunLeaves

\* A command whose connection is gone goes on, or is killed.
Killed(r) ==
    /\ rpc[r] \notin RunOver /\ (r # run \/ pc # "publish")
    /\ RunGoto(r, "killed")
    /\ RunTodo(r, {})
    /\ UNCHANGED <<stage, target>> /\ RunRest

RunStep(r) == Own(r) \/ Test(r) \/ Decide(r) \/ Make(r) \/ Merge(r) \/ Merged(r) \/ Move(r)

PublishedRemotely ==
    /\ pc = "publish" /\ run > 0 /\ rpc[run] \in {"exit 0", "exit 1"}
    /\ Finally(IF rpc[run] = "exit 0" THEN "ok" ELSE "failed")
    /\ UNCHANGED <<request, staging, trees, interrupted, local, remote, todo, littered>>

-----------------------------------------------------------------------------
(* Interruption, and the finally clauses.                                  *)

\* Cancelled, timed out, or the connection is not restored in time.
Interrupt ==
    /\ pc = "publish"
    /\ Finally("failed")
    /\ interrupted' = TRUE
    /\ UNCHANGED <<request, staging, trees, local, remote, todo, littered>>

\* Best effort, over the connection.
CleanUpRemotely ==
    /\ pc = "clean up" /\ upload
    /\ pc' = "ended"
    /\ \/ stage' = None /\ UNCHANGED littered
       \/ littered' = TRUE /\ UNCHANGED stage
    /\ UNCHANGED <<request, staging, target, combined, backup, guest, outcome, interrupted,
                   local, remote, todo>>

\* shutil.rmtree of the staging directory: a file is unlinked, a directory
\* is opened, emptied, removed.
UnlinkStage ==
    /\ pc = "clean up" /\ ~upload /\ Kind(stage) = "file"
    /\ stage' = None
    /\ UNCHANGED <<request, staging, target, combined, backup, guest, pc, outcome, interrupted,
                   local, remote, todo, littered>>

SweepBegins ==
    /\ pc = "clean up" /\ ~upload /\ Kind(stage) = "directory" /\ sweeping = None
    /\ sweeping' = "stage"
    /\ UNCHANGED <<request, staging, trees, pc, outcome, interrupted, thread, via,
                   remote, todo, littered>>

Swept == IF sweeping = "target" THEN target ELSE stage

SweepEntry ==
    /\ sweeping # None
    /\ \E e \in payload.has :
          /\ Holds(Swept, e)
          /\ IF sweeping = "target" THEN target' = Without(target, e) /\ UNCHANGED stage
             ELSE stage' = Without(stage, e) /\ UNCHANGED target
    /\ UNCHANGED <<request, staging, combined, backup, guest, pc, outcome, interrupted, local,
                   remote, todo, littered>>

CleanedUpLocally ==
    /\ pc = "clean up" /\ ~upload
    /\ \/ sweeping = None /\ stage = None /\ UNCHANGED stage
       \/ /\ sweeping # None /\ \A e \in payload.has : ~Holds(Swept, e)
          /\ stage' = IF sweeping = "stage" THEN None ELSE stage
    /\ sweeping' = None
    /\ pc' = IF container THEN "release" ELSE "ended"
    /\ UNCHANGED <<request, staging, target, combined, backup, guest, outcome, interrupted,
                   thread, via, remote, todo, littered>>

\* The copy on the guest is removed like that of an upload.
Release ==
    /\ pc = "release"
    /\ pc' = "ended"
    /\ \/ guest' = None /\ UNCHANGED littered
       \/ littered' = TRUE /\ UNCHANGED guest
    /\ UNCHANGED <<request, staging, target, stage, combined, backup, outcome, interrupted,
                   local, remote, todo>>

Next ==
    \/ Extract \/ Extracted
    \/ Reset \/ ResetLost \/ LateStep \/ CopyEntry \/ Copied \/ CopyLost \/ CopyFails
    \/ PublishLocally \/ ThreadStep \/ PublishedLocally
    \/ PublishRemotely \/ PublishedRemotely
    \/ \E r \in Runs : RunStep(r) \/ Killed(r)
    \/ Interrupt \/ CleanUpRemotely
    \/ UnlinkStage \/ SweepBegins \/ SweepEntry \/ CleanedUpLocally \/ Release

Spec == Init /\ [][Next]_vars

-----------------------------------------------------------------------------
TypeOK ==
    /\ stage \in Trees /\ target \in Trees /\ combined \in Trees /\ backup \in Trees
    /\ guest \in Trees
    /\ pc \in {"extract", "reset", "copy", "publish", "clean up", "release", "ended"}
    /\ outcome \in {None, "ok", "failed"}
    /\ outcome = None <=> pc \in {"extract", "reset", "copy", "publish"}
    /\ thread \in Over \cup {"idle", "combine", "list", "overlay", "replace", "swap",
                             "drop", "unwind, ok", "unwind, error"}
    /\ via \in {None, "stage", "combined"} /\ sweeping \in {None, "stage", "target"}
    /\ run \in 0 .. MaxRuns
    /\ rpc \in [Runs -> RunOver \cup {"own", "test", "decide", "make", "merge", "move"}]
    /\ \A r \in Runs : r > run => rpc[r] = "idle"
    /\ sent \subseteq Entries
    /\ late \in {"none", "begun", "in stage", "in target", "rmdir", "mkdir"}
    /\ todo \in [Runs \cup {Thread} -> SUBSET (Entries \cup {Kept})]

\* A transfer that returns has put all of the payload at the destination,
\* although connections were lost and commands run twice, unless the reset of an
\* earlier attempt came to what a later one had staged; a directory that is
\* merged with one at the destination keeps what that had in any case.
OkMeansWhole ==
    outcome = "ok" =>
       /\ disturbed \/ Whole(target)
       /\ payload.kind = "directory" /\ IsDirectory(before) => Kept \in target.has

\* The same without the exception: not so. rm -rf of an attempt whose connection
\* was lost is run when the next one has staged its payload, the publishing
\* command finds no staging path, takes its work for done and exits with 0.
ReturnedIsWhole == outcome = "ok" => Whole(target)

\* Until it is interrupted, a download changes its destination from what it
\* was to the whole of what it is to be, a directory being away for a moment;
\* one that fails has left it as it was, unless only the removal of the old
\* one failed, or neither the new one nor the old could be moved into place:
\* then the old one is where it was moved.
OldOrWhole ==
    ~upload /\ ~interrupted =>
       /\ target = before \/ Whole(target) \/ (target = None /\ backup = before)
       /\ outcome = "failed" => target = before \/ littered

\* The same with interruptions: a publication that was begun is finished or
\* leaves the destination alone.
WholeOrNothing ==
    ~upload => target = before \/ Whole(target) \/ (target = None /\ backup = before)

\* When everything that works for a transfer has stopped, nothing is left
\* beside the destination, unless a removal failed or a reset came late.
NothingLeft ==
    /\ pc = "ended" /\ thread \in Over \cup {"idle"}
    /\ late = "none" /\ \A r \in Runs : rpc[r] \in RunOver
    => littered \/ disturbed \/ (stage = None /\ combined = None /\ backup = None /\ guest = None)

\* An upload is not reported as failed by a run that found the work of an
\* earlier one done, unless that one was still at work, or a late reset was.
RepeatSucceeds ==
    outcome = "failed" /\ ~interrupted /\ ~disturbed =>
       \A r \in Runs : r = run /\ apart[r] => \A q \in 1 .. r - 1 : rpc[q] # "exit 0"
=============================================================================
