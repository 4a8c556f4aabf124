--------------------------- MODULE TransfersProof ---------------------------
(***************************************************************************)
(* Proofs about Transfers.                                                 *)
(***************************************************************************)
EXTENDS Transfers, TLAPS

-----------------------------------------------------------------------------
(* The inductive invariant.                                                *)

Full(t) == t # None /\ t.kind = payload.kind /\ t.has = payload.has
Plain == ~overlay /\ ~container
Meets == payload.kind = "directory" /\ IsDirectory(before)

\* What the destination is to be.
Due(t) == Whole(t) /\ (Meets => Kept \in t.has)

Requested ==
    /\ upload \in BOOLEAN /\ overlay \in BOOLEAN /\ container \in BOOLEAN
    /\ payload \in Existing /\ payload.kind \in {"file", "directory"}
    /\ payload.has \subseteq Entries /\ payload.has # {}
    /\ before \in Trees /\ (before # None => Kept \in before.has)

TreesTyped ==
    /\ stage \in Trees /\ target \in Trees /\ combined \in Trees /\ backup \in Trees
    /\ guest \in Trees

CallTyped ==
    /\ pc \in {"extract", "reset", "copy", "publish", "clean up", "release", "ended"}
    /\ outcome \in {None, "ok", "failed"}
    /\ outcome = None <=> pc \in {"extract", "reset", "copy", "publish"}
    /\ interrupted \in BOOLEAN /\ littered \in BOOLEAN

ThreadTyped ==
    /\ thread \in Over \cup {"idle", "combine", "list", "overlay", "replace", "swap",
                             "drop", "unwind, ok", "unwind, error"}
    /\ via \in {None, "stage", "combined"} /\ sweeping \in {None, "stage", "target"}

RunsTyped ==
    /\ run \in 0 .. MaxRuns
    /\ rpc \in [Runs -> RunOver \cup {"own", "test", "decide", "make", "merge", "move"}]
    /\ apart \in [Runs -> BOOLEAN]
    /\ \A r \in Runs : r > run => rpc[r] = "idle"

TodoTyped == todo \in [Runs \cup {Thread} -> SUBSET (Entries \cup {Kept})]

Typed == Requested /\ TreesTyped /\ CallTyped /\ ThreadTyped /\ RunsTyped /\ TodoTyped

\* What an upload and what a download has nothing to do with, and what has
\* not begun while the payload is copied.
Sides ==
    /\ upload => /\ thread = "idle" /\ sweeping = None
                 /\ combined = None /\ backup = None /\ guest = None
                 /\ pc \notin {"extract", "release"}
    /\ ~upload => run = 0
    /\ pc \in {"extract", "reset", "copy"} =>
          thread = "idle" /\ run = 0 /\ sweeping = None /\ target = before
    /\ interrupted => outcome = "failed"
    /\ guest # None \/ pc \in {"extract", "release"} => container
    /\ thread \in {"list", "overlay"} => combined # None
    /\ thread \in {"replace", "swap"} => via # None
    /\ sweeping # None => pc = "clean up"
    /\ stage # None => stage.kind = payload.kind /\ stage.has \subseteq payload.has

\* What an attempt has staged, and the late reset of an earlier one.
StagedTyped ==
    /\ sent \subseteq payload.has
    /\ late \in {"none", "begun", "in stage", "in target", "rmdir", "mkdir"}
    /\ disturbed \in BOOLEAN

Staged ==
    /\ StagedTyped
    /\ overlay => payload.kind = "directory"
    /\ late # "none" \/ disturbed => upload
    /\ late = "mkdir" => Made
    /\ late = "in target" => run # 0
    /\ pc = "copy" /\ ~disturbed /\ sent # {} => stage # None /\ sent \subseteq stage.has

\* What is beside the destination, and who is to remove it.
Beside ==
    /\ upload /\ pc = "ended" => littered \/ disturbed \/ stage = None
    /\ ~upload /\ pc \in {"release", "ended"} => stage = None
    /\ sweeping = "target" => stage = None
    /\ thread \in Over \cup {"idle", "combine"} => combined = None
    /\ backup # None => thread \in {"swap", "drop"} \/ littered
    /\ pc = "ended" => guest = None \/ littered

\* A publication in a thread that no one has interrupted.
Download ==
    /\ pc # "publish" => thread \in Over \cup {"idle"}
    /\ sweeping # "target"
    /\ outcome = "ok" => thread = "ok"
    /\ outcome = "failed" => thread # "ok"
    /\ pc = "publish" /\ thread \in {"idle", "combine", "list", "overlay"} => Full(stage)
    /\ pc = "publish" /\ thread \in {"replace", "swap"} /\ via = "stage" => Full(stage)
    /\ thread \in {"list", "overlay"} => (IsDirectory(before) => Kept \in combined.has)
    /\ thread = "overlay" => payload.has \subseteq todo[Thread] \cup combined.has
    /\ thread \in {"replace", "swap"} =>
          IF via = "combined" THEN Due(combined) ELSE ~Meets
    /\ thread \in {"idle", "combine", "list", "overlay", "replace"} =>
          target = before /\ backup = None
    /\ thread = "swap" => target = None /\ backup = before
    /\ thread \in {"drop", "unwind, ok", "ok"} => Due(target)
    /\ thread \in {"unwind, error", "error"} =>
          \/ target = before
          \/ littered /\ (Due(target) \/ (target = None /\ backup = before))

\* A directory at the destination keeps what it had, and is not moved over.
Held ==
    /\ Meets => IsDirectory(target) /\ Kept \in target.has
    /\ late = "in target" => ~Meets

\* The commands that publish, those whose connection is gone among them.
Upload ==
    /\ pc = "publish" \/ run > 0 => stage = None \/ Full(stage)
    /\ pc = "publish" /\ run = 0 => Full(stage)
    /\ \A r \in Runs : rpc[r] = "merge" =>
          /\ todo[r] \subseteq payload.has
          /\ \A e \in payload.has : e \in todo[r] \/ Holds(target, e)
    /\ pc = "publish" /\ (stage = None \/ (\E r \in Runs : rpc[r] = "exit 0")) => Whole(target)
    /\ outcome = "ok" => Whole(target)

\* What a command finds that was begun when all earlier ones were over.
Repeat ==
    /\ run > 0 /\ apart[run] => \A q \in 1 .. run - 1 : rpc[q] \in RunOver
    /\ \A r \in Runs : /\ rpc[r] = "own" => container
                       /\ rpc[r] = "make" => ~Plain
                       /\ rpc[r] \in {"test", "decide", "move"} => Plain
                       /\ rpc[r] \in {"merge", "exit 0"} /\ ~Plain => Fits
    /\ pc = "publish" /\ Plain /\ (\E r \in Runs : rpc[r] = "exit 0") => stage = None
    /\ pc = "publish" /\ ~Plain => stage # None
    /\ pc = "publish" /\ run > 0 /\ apart[run]
          /\ (\E q \in 1 .. run - 1 : rpc[q] = "exit 0") =>
          /\ rpc[run] # "exit 1"
          /\ Plain => rpc[run] \notin {"decide", "merge", "move"}

TInv ==
    /\ Typed /\ Sides /\ Staged /\ Beside
    /\ (~upload /\ ~interrupted => Download)
    /\ (upload => Held)
    /\ (upload /\ ~disturbed => Upload /\ Repeat /\ RepeatSucceeds)

-----------------------------------------------------------------------------
(* Trees.                                                                  *)

\* What there is has a kind and contents, and is not None.
LEMMA Existence ==
    /\ None \notin Existing
    /\ \A t \in Trees : t # None => t \in Existing
    /\ \A t \in Existing : /\ t \in Trees
                           /\ t.kind \in {"file", "directory", "link"}
                           /\ t.has \subseteq Entries \cup {Kept}
BY NoneAssumption DEF Existing, Trees

\* Kind() and IsDirectory() of nothing, and of what there is.
LEMMA Kinds ==
    /\ Kind(None) = "none" /\ ~IsDirectory(None)
    /\ \A t \in Existing : /\ Kind(t) = t.kind
                           /\ IsDirectory(t) <=> t.kind \in {"directory", "link"}
<1>1. \A t \in Existing : t # None
  BY Existence
<1> QED
  BY <1>1 DEF Kind, IsDirectory

\* Adding to a tree and taking from it change nothing but its contents.
LEMMA Changing ==
    ASSUME NEW t \in Existing, NEW e \in Entries \cup {Kept}
    PROVE  /\ With(t, e) \in Existing /\ With(t, e).kind = t.kind
           /\ With(t, e).has = t.has \cup {e}
           /\ Without(t, e) \in Existing /\ Without(t, e).kind = t.kind
           /\ Without(t, e).has = t.has \ {e}
BY DEF With, Without, Existing

\* The trees that a copy begins with.
LEMMA Beginning ==
    /\ \A s \in SUBSET (Entries \cup {Kept}) :
          /\ Directory(s) \in Existing
          /\ Directory(s).kind = "directory" /\ Directory(s).has = s
    /\ \A t \in Existing : \A e \in Entries \cup {Kept} :
          LET first == [t EXCEPT !.has = {e}] IN
          first \in Existing /\ first.kind = t.kind /\ first.has = {e}
BY DEF Directory, Existing

-----------------------------------------------------------------------------
(* Types.                                                                  *)

\* A transfer begins in order.
LEMMA TransferInit == Init => TInv
<1> SUFFICES ASSUME Init
             PROVE  TInv
  OBVIOUS
<1>1. PICK e \in Entries : payload = Directory(Entries) \/ payload = File(e)
  BY EntriesAssumption DEF Init
<1>3. payload \in Existing /\ payload.kind \in {"file", "directory"}
      /\ payload.has \subseteq Entries /\ payload.has # {}
  BY <1>1, EntriesAssumption DEF Directory, File, Existing
<1>4. before \in Trees /\ (before # None => Kept \in before.has)
  BY DEF Init, Directory, File, Link, Existing, Trees
<1>5. Requested
  BY <1>3, <1>4 DEF Init, Requested
<1>6. TreesTyped /\ CallTyped /\ ThreadTyped
  BY <1>4, NoneAssumption DEF Init, TreesTyped, CallTyped, ThreadTyped, Trees, Over
<1>7. Typed
  BY <1>5, <1>6, RunsAssumption
     DEF Init, Typed, RunsTyped, TodoTyped, RunOver, Runs, Thread
<1>8. Sides /\ Staged /\ Beside
  BY DEF Init, Sides, Staged, StagedTyped, Beside
<1>9. ~upload => Download
  BY NoneAssumption DEF Init, Download, Over
<1>10. Upload
  BY NoneAssumption DEF Init, Upload
<1>12. Held
  BY <1>4, Kinds DEF Init, Meets, Held
<1>11. upload => Repeat /\ RepeatSucceeds
  BY NoneAssumption DEF Init, Repeat, RepeatSucceeds
<1> QED
  BY <1>7, <1>8, <1>9, <1>10, <1>11, <1>12 DEF TInv, Init

\* What is asked for never changes.
LEMMA RequestStays == [Next]_vars => UNCHANGED request
BY DEF Next, vars, ExtractRest, Extract, Extracted, Reset, CopyEntry, Copied, CopyLost,
       CopyFails, ThreadRest, PublishLocally, ThreadStep, Combine, List, Overlay, Overlaid,
       MoveAside, Replace, ReplaceFails, Swap, SwapFails, DropBackup, Unwind,
       PublishedLocally, RunRest, PublishRemotely, RunStep, Own, Test, Decide, Make, Merge,
       Merged, Move, Killed, PublishedRemotely, Interrupt, CleanUpRemotely, UnlinkStage,
       SweepBegins, SweepEntry, CleanedUpLocally, Release, RunLeaves, ResetRest, ResetLost,
       LateRest, LateStep, LateOpens, LateRemoves, LateRmdir, LateMakes, LateEnds

\* A late reset leaves everything alone but the trees at two paths.
LEMMA LateLeaves ==
    ASSUME LateStep
    PROVE  /\ late # "none"
           /\ UNCHANGED <<pc, sent, request, combined, backup, guest, outcome, interrupted,
                          local, remote, todo, littered>>
BY DEF LateStep, LateOpens, LateRemoves, LateRmdir, LateMakes, LateEnds, LateRest, ResetRest

\* What it does there.
LEMMA LateDoes ==
    ASSUME LateStep
    PROVE  /\ UNCHANGED disturbed \/ LateEffect
           /\ \/ stage' = stage
              \/ LateEffect /\ stage' = None
              \/ LateEffect /\ late = "mkdir" /\ stage' = Directory({})
              \/ /\ LateEffect /\ stage # None
                 /\ \E e \in stage.has : stage' = Without(stage, e)
           /\ \/ target' = target
              \/ /\ LateEffect /\ late = "in target" /\ target # None
                 /\ \E e \in target.has : target' = Without(target, e)
           /\ late' \in {"none", "mkdir", "in stage", late}
           /\ late' = "mkdir" => late = "mkdir" \/ Made
BY DEF LateStep, LateOpens, LateRemoves, LateRmdir, LateMakes, LateEnds, LateNext

\* What a late reset has done is not forgotten.
LEMMA DisturbedStays == [Next]_vars => (disturbed => disturbed')
<1> SUFFICES ASSUME [Next]_vars, ~LateStep
             PROVE  UNCHANGED disturbed
  BY LateDoes DEF LateEffect
<1> QED
  BY DEF Next, vars, staging, ExtractRest, Extract, Extracted, Reset, CopyEntry, Copied, CopyLost,
       CopyFails, ThreadRest, PublishLocally, ThreadStep, Combine, List, Overlay, Overlaid,
       MoveAside, Replace, ReplaceFails, Swap, SwapFails, DropBackup, Unwind,
       PublishedLocally, RunRest, PublishRemotely, RunStep, Own, Test, Decide, Make, Merge,
       Merged, Move, Killed, PublishedRemotely, Interrupt, CleanUpRemotely, UnlinkStage,
       SweepBegins, SweepEntry, CleanedUpLocally, Release, RunLeaves, ResetLost

\* Operators of what is asked for keep their values with it.
LEMMA RequestFixed ==
    ASSUME UNCHANGED request
    PROVE  /\ Requested' <=> Requested
           /\ Plain' <=> Plain
           /\ Meets' <=> Meets
BY DEF request, Requested, Plain, Meets, IsDirectory, Kind, Existing, Trees

\* The types of what a step does not touch.
LEMMA TypesStay ==
    ASSUME Typed, UNCHANGED request
    PROVE  /\ Requested'
           /\ UNCHANGED trees => TreesTyped'
           /\ UNCHANGED <<pc, outcome, interrupted, littered>> => CallTyped'
           /\ UNCHANGED local => ThreadTyped'
           /\ UNCHANGED remote => RunsTyped'
           /\ UNCHANGED todo => TodoTyped'
<1>1. UNCHANGED trees => TreesTyped'
  BY DEF Typed, TreesTyped, trees
<1>2. UNCHANGED <<pc, outcome, interrupted, littered>> => CallTyped'
  BY DEF Typed, CallTyped
<1>3. UNCHANGED local => ThreadTyped'
  BY DEF Typed, ThreadTyped, local
<1>4. UNCHANGED remote => RunsTyped'
  BY DEF Typed, RunsTyped, remote
<1>5. UNCHANGED todo => TodoTyped'
  BY DEF Typed, TodoTyped
<1> QED
  BY <1>1, <1>2, <1>3, <1>4, <1>5, RequestFixed DEF Typed

\* A set of entries to copy is one.
LEMMA TodoSet ==
    ASSUME TodoTyped, NEW i \in Runs \cup {Thread}, NEW s \in SUBSET (Entries \cup {Kept}),
           todo' = [todo EXCEPT ![i] = s]
    PROVE  TodoTyped'
BY DEF TodoTyped

\* A command that has begun goes from place to place.
LEMMA RunGoes ==
    ASSUME RunsTyped, NEW r \in Runs, rpc[r] # "idle",
           NEW place \in RunOver \cup {"own", "test", "decide", "make", "merge", "move"},
           RunGoto(r, place)
    PROVE  RunsTyped'
BY DEF RunsTyped, RunGoto

\* Every step keeps the types.
LEMMA TypedNext == Typed /\ Sides /\ [Next]_vars => Typed'
<1> SUFFICES ASSUME Typed, Sides, [Next]_vars
             PROVE  Typed'
  OBVIOUS
<1> USE RequestStays, TypesStay
<1>1. CASE UNCHANGED vars
  BY <1>1 DEF vars, Typed
<1>2. CASE Extract
  <2>1. PICK e \in payload.has : guest' = IF guest = None THEN [payload EXCEPT !.has = {e}]
                                                          ELSE With(guest, e)
    BY <1>2 DEF Extract
  <2>2. guest' \in Trees
    BY <2>1, Existence, Changing, Beginning DEF Typed, Requested, TreesTyped
  <2>3. TreesTyped'
    BY <1>2, <2>2 DEF Extract, ExtractRest, Typed, TreesTyped
  <2> QED
    BY <1>2, <2>3 DEF Extract, ExtractRest, Typed
<1>3. CASE Extracted
  <2>1. CallTyped' /\ TreesTyped'
    BY <1>3 DEF Extracted, ExtractRest, Typed, CallTyped, TreesTyped
  <2> QED
    BY <1>3, <2>1 DEF Extracted, ExtractRest, Typed
<1>4. CASE Reset \/ ResetLost \/ Copied \/ CopyLost
  <2> USE DEF Reset, ResetLost, ResetRest, Copied, CopyLost
  <2>1. stage' = stage \/ stage' = None \/ stage' = Directory({})
    BY <1>4 DEF trees
  <2>2. stage' \in Trees
    BY <2>1, Beginning, Existence DEF Typed, TreesTyped, Trees
  <2>3. CallTyped'
    BY <1>4 DEF Typed, CallTyped
  <2>4. UNCHANGED <<target, combined, backup, guest>>
    BY <1>4 DEF trees
  <2>5. TreesTyped'
    BY <2>2, <2>4 DEF Typed, TreesTyped
  <2> QED
    BY <1>4, <2>3, <2>5 DEF Typed
<1>13. CASE LateStep
  <2>1. stage' \in Trees
    <3>1. CASE \E e \in stage.has : stage # None /\ stage' = Without(stage, e)
      BY <3>1, Existence, Changing DEF Typed, TreesTyped
    <3>2. CASE stage' = stage \/ stage' = None \/ stage' = Directory({})
      BY <3>2, Beginning, Existence DEF Typed, TreesTyped, Trees
    <3> QED
      BY <1>13, <3>1, <3>2, LateDoes
  <2>2. target' \in Trees
    <3>1. CASE \E e \in target.has : target # None /\ target' = Without(target, e)
      BY <3>1, Existence, Changing DEF Typed, TreesTyped
    <3> QED
      BY <1>13, <3>1, LateDoes DEF Typed, TreesTyped
  <2>3. TreesTyped'
    BY <1>13, <2>1, <2>2, LateLeaves DEF Typed, TreesTyped
  <2>4. UNCHANGED <<pc, outcome, interrupted, littered, local, remote, todo>>
    BY <1>13, LateLeaves
  <2> QED
    BY <2>3, <2>4 DEF Typed
<1>5. CASE CopyEntry
  <2>1. PICK e \in payload.has : stage' = IF stage = None THEN [payload EXCEPT !.has = {e}]
                                                          ELSE With(stage, e)
    BY <1>5 DEF CopyEntry
  <2>2. stage' \in Trees
    BY <2>1, Existence, Changing, Beginning DEF Typed, Requested, TreesTyped
  <2>3. TreesTyped'
    BY <1>5, <2>2 DEF CopyEntry, Typed, TreesTyped
  <2> QED
    BY <1>5, <2>3 DEF CopyEntry, Typed
<1>6. CASE CopyFails \/ PublishedLocally \/ PublishedRemotely \/ Interrupt
  <2> USE DEF CopyFails, PublishedLocally, PublishedRemotely, Interrupt
  <2>1. CallTyped'
    BY <1>6, NoneAssumption DEF Finally, Typed, CallTyped
  <2> QED
    BY <1>6, <2>1 DEF Typed
<1>7. CASE PublishLocally
  <2>1. ThreadTyped'
    BY <1>7 DEF PublishLocally, ThreadGoto, Typed, ThreadTyped
  <2> QED
    BY <1>7, <2>1 DEF PublishLocally, ThreadRest, Typed
<1>8. CASE ThreadStep
  <2>1. CASE Combine
    <3>4. (IF target = None THEN {} ELSE target.has) \in SUBSET (Entries \cup {Kept})
      BY Existence DEF Typed, TreesTyped
    <3>5. Directory(IF target = None THEN {} ELSE target.has) \in Trees
      BY <3>4, Existence, Beginning
    <3>6. combined \in Trees
      BY DEF Typed, TreesTyped
    <3>1. combined' \in Trees
      BY <2>1, <3>5, <3>6 DEF Combine
    <3>2. TreesTyped'
      BY <2>1, <3>1 DEF Combine, ThreadRest, Typed, TreesTyped
    <3>3. ThreadTyped'
      BY <2>1 DEF Combine, ThreadGoto, Typed, ThreadTyped
    <3> QED
      BY <2>1, <3>2, <3>3 DEF Combine, ThreadRest, Typed
  <2>2. CASE List
    <3>1. TodoTyped'
      BY <2>2, TodoSet, Existence DEF List, ThreadTodo, Typed, TreesTyped
    <3>2. ThreadTyped'
      BY <2>2 DEF List, ThreadGoto, Typed, ThreadTyped
    <3> QED
      BY <2>2, <3>1, <3>2 DEF List, ThreadRest, Typed
  <2>3. CASE Overlay
    <3>1. PICK e \in todo[Thread] :
             \/ combined' = With(combined, e) /\ ThreadTodo(todo[Thread] \ {e}) /\ UNCHANGED thread
             \/ ThreadTodo({}) /\ thread' = "unwind, error" /\ UNCHANGED combined
      BY <2>3 DEF Overlay
    <3>2. todo[Thread] \subseteq Entries \cup {Kept}
      BY DEF Typed, TodoTyped
    <3>3. combined' \in Trees
      BY <2>3, <3>1, <3>2, Existence, Changing DEF Overlay, Sides, Typed, TreesTyped
    <3>4. TreesTyped'
      BY <2>3, <3>3 DEF Overlay, ThreadRest, Typed, TreesTyped
    <3>5. TodoTyped'
      BY <3>1, <3>2, TodoSet DEF ThreadTodo, Typed
    <3>6. ThreadTyped'
      BY <2>3, <3>1 DEF Overlay, Typed, ThreadTyped
    <3> QED
      BY <2>3, <3>4, <3>5, <3>6 DEF Overlay, ThreadRest, Typed
  <2>4. CASE Overlaid
    <3>1. ThreadTyped'
      BY <2>4 DEF Overlaid, Typed, ThreadTyped
    <3> QED
      BY <2>4, <3>1 DEF Overlaid, ThreadRest, Typed
  <2>5. CASE MoveAside \/ ReplaceFails \/ SwapFails \/ DropBackup \/ Unwind
    <3> USE DEF MoveAside, ReplaceFails, SwapFails, DropBackup, Unwind
    <3>1. TreesTyped'
      BY <2>5 DEF ThreadRest, Typed, TreesTyped, Trees, trees
    <3>2. ThreadTyped'
      BY <2>5 DEF ThreadGoto, Typed, ThreadTyped, Over
    <3>3. CallTyped'
      BY <2>5 DEF ThreadRest, Typed, CallTyped
    <3> QED
      BY <2>5, <3>1, <3>2, <3>3 DEF ThreadRest, Typed
  <2>6. CASE Replace \/ Swap
    <3> USE DEF Replace, Swap, MoveToTarget
    <3>1. TreesTyped'
      BY <2>6 DEF Source, Typed, TreesTyped, Trees, ThreadRest
    <3>2. ThreadTyped'
      BY <2>6 DEF Typed, ThreadTyped
    <3> QED
      BY <2>6, <3>1, <3>2 DEF ThreadRest, Typed
  <2> QED
    BY <1>8, <2>1, <2>2, <2>3, <2>4, <2>5, <2>6 DEF ThreadStep
<1>9. CASE PublishRemotely
  <2>1. run' = run + 1 /\ run' \in Runs
    BY <1>9, RunsAssumption DEF PublishRemotely, Typed, RunsTyped, Runs
  <2>2. PICK place \in {"own", "make", "test"} : rpc' = [rpc EXCEPT ![run'] = place]
    BY <1>9 DEF PublishRemotely
  <2>3. apart' \in [Runs -> BOOLEAN]
    BY <1>9 DEF PublishRemotely, Typed, RunsTyped
  <2>4. \A r \in Runs : r > run' => r > run /\ r # run'
    BY <2>1, RunsAssumption DEF Typed, RunsTyped, Runs
  <2>5. RunsTyped'
    BY <2>1, <2>2, <2>3, <2>4 DEF Typed, RunsTyped, Runs
  <2> QED
    BY <1>9, <2>5 DEF PublishRemotely, RunRest, RunLeaves, Typed, trees
<1>10. CASE \E r \in Runs : RunStep(r) \/ Killed(r)
  <2>1. PICK r \in Runs : RunStep(r) \/ Killed(r)
    BY <1>10
  <2>2. todo[r] \subseteq Entries \cup {Kept}
    BY DEF Typed, TodoTyped
  <2> USE RunGoes DEF RunOver
  <2>3. CASE Own(r) \/ Test(r)
    <3>1. RunsTyped'
      BY <2>3 DEF Own, Test, Typed
    <3> QED
      BY <2>3, <3>1 DEF Own, Test, RunRest, RunLeaves, Typed, trees
  <2>4. CASE Killed(r)
    <3>1. RunsTyped' /\ TodoTyped'
      BY <2>4, TodoSet DEF Killed, Typed, RunTodo
    <3> QED
      BY <2>4, <3>1 DEF Killed, RunRest, RunLeaves, Typed, trees
  <2>5. CASE Decide(r)
    <3>1. RunsTyped'
      BY <2>5 DEF Decide, Typed
    <3>2. TodoTyped'
      BY <2>5, TodoSet, Existence, Kinds DEF Decide, Typed, TreesTyped, RunTodo
    <3> QED
      BY <2>5, <3>1, <3>2 DEF Decide, RunRest, RunLeaves, Typed, trees
  <2>6. CASE Make(r)
    <3>1. target' \in Trees
      BY <2>6, Existence, Beginning DEF Make, Opened, Typed, TreesTyped
    <3>2. TreesTyped'
      BY <2>6, <3>1 DEF Make, RunRest, RunLeaves, Typed, TreesTyped
    <3>3. RunsTyped'
      BY <2>6 DEF Make, Typed
    <3>4. TodoTyped'
      BY <2>6, TodoSet, Existence DEF Make, Typed, TreesTyped, RunTodo
    <3> QED
      BY <2>6, <3>2, <3>3, <3>4 DEF Make, RunRest, RunLeaves, Typed
  <2>7. CASE Merge(r)
    <3>1. target' \in Trees
      BY <2>2, <2>7, Existence, Kinds, Changing DEF Merge, Typed, TreesTyped
    <3>2. TreesTyped'
      BY <2>7, <3>1 DEF Merge, RunRest, RunLeaves, Typed, TreesTyped
    <3>3. RunsTyped'
      BY <2>7 DEF Merge, Typed, RunsTyped
    <3>4. TodoTyped'
      BY <2>2, <2>7, TodoSet DEF Merge, Typed, RunTodo
    <3> QED
      BY <2>7, <3>2, <3>3, <3>4 DEF Merge, RunRest, RunLeaves, Typed
  <2>8. CASE Merged(r) \/ Move(r)
    <3>1. TreesTyped'
      BY <2>8 DEF Merged, Move, RunRest, RunLeaves, Typed, TreesTyped, Trees
    <3>2. RunsTyped'
      BY <2>8 DEF Merged, Move, Typed
    <3> QED
      BY <2>8, <3>1, <3>2 DEF Merged, Move, RunRest, RunLeaves, Typed
  <2> QED
    BY <2>1, <2>3, <2>4, <2>5, <2>6, <2>7, <2>8 DEF RunStep
<1>11. CASE CleanUpRemotely \/ UnlinkStage \/ SweepBegins \/ CleanedUpLocally \/ Release
  <2> USE DEF CleanUpRemotely, UnlinkStage, SweepBegins, CleanedUpLocally, Release
  <2>1. TreesTyped'
    BY <1>11 DEF Typed, TreesTyped, Trees, trees
  <2>2. CallTyped'
    BY <1>11 DEF Typed, CallTyped
  <2>3. ThreadTyped'
    BY <1>11 DEF Typed, ThreadTyped, local
  <2> QED
    BY <1>11, <2>1, <2>2, <2>3 DEF Typed
<1>12. CASE SweepEntry
  <2>1. stage' \in Trees /\ target' \in Trees
    BY <1>12, Existence, Changing DEF SweepEntry, Swept, Holds, Typed, TreesTyped, Requested
  <2>2. TreesTyped'
    BY <1>12, <2>1 DEF SweepEntry, Typed, TreesTyped
  <2> QED
    BY <1>12, <2>2 DEF SweepEntry, Typed
<1> QED
  BY <1>1, <1>2, <1>3, <1>4, <1>5, <1>6, <1>7, <1>8, <1>9, <1>10, <1>11, <1>12, <1>13 DEF Next

-----------------------------------------------------------------------------
(* Who is at work, and what is beside the destination.                     *)

\* Every step keeps to its side.
LEMMA SidesNext == Typed /\ Sides /\ Staged /\ [Next]_vars => Sides'
<1> SUFFICES ASSUME Typed, Sides, Staged, [Next]_vars
             PROVE  Sides'
  OBVIOUS
<1>1. upload' = upload /\ container' = container /\ payload' = payload /\ before' = before
  BY RequestStays DEF request
<1>2. CASE UNCHANGED vars
  <2>1. UNCHANGED <<stage, target, combined, backup, guest, pc, outcome, interrupted,
                    thread, via, sweeping, run>>
    BY <1>2 DEF vars, trees, local, remote
  <2> QED
    BY <1>1, <2>1 DEF Sides
<1>3. CASE Extract \/ Extracted
  <2> USE <1>3 DEF Extract, Extracted, ExtractRest
  <2>1. UNCHANGED <<stage, target, combined, backup, outcome, interrupted,
                    thread, via, sweeping, run>>
    BY DEF local, remote, trees
  <2>2. pc = "extract" /\ pc' \in {"extract", "reset"}
    OBVIOUS
  <2> QED
    BY <1>1, <2>1, <2>2 DEF Sides
<1>4. CASE Reset \/ ResetLost \/ Copied \/ CopyLost
  <2> USE <1>4 DEF Reset, ResetLost, ResetRest, Copied, CopyLost
  <2>1. UNCHANGED <<target, combined, backup, guest, outcome, interrupted,
                    thread, via, sweeping, run>>
    BY DEF local, remote, trees
  <2>2. pc \in {"reset", "copy"} /\ pc' \in {"reset", "copy", "publish"}
    OBVIOUS
  <2>3. stage' = stage \/ stage' = None \/ (Made /\ stage' = Directory({}))
    BY DEF trees
  <2> HIDE <1>4 DEF Reset, ResetLost, ResetRest, Copied, CopyLost
  <2>4. CASE Made /\ stage' = Directory({})
    <3>1. payload.kind = "directory"
      BY <2>4 DEF Staged, Made
    <3>2. stage'.kind = "directory" /\ stage'.has = {}
      BY <2>4 DEF Directory
    <3> QED
      BY <1>1, <2>1, <2>2, <3>1, <3>2 DEF Sides
  <2>5. CASE stage' = stage \/ stage' = None
    BY <1>1, <2>1, <2>2, <2>5 DEF Sides
  <2> QED
    BY <2>3, <2>4, <2>5
<1>13. CASE LateStep
  <2>1. UNCHANGED <<combined, backup, guest, pc, outcome, interrupted,
                    thread, via, sweeping, run>>
    BY <1>13, LateLeaves DEF local, remote
  <2>3. target' = target \/ run # 0
    BY <1>13, LateDoes DEF Staged
  <2>4. stage' # None => stage'.kind = payload.kind /\ stage'.has \subseteq payload.has
    <3>1. CASE stage' = stage \/ stage' = None
      BY <3>1 DEF Sides
    <3>2. CASE late = "mkdir" /\ stage' = Directory({})
      BY <3>2 DEF Staged, Made, Directory
    <3>3. CASE stage # None /\ \E e \in stage.has : stage' = Without(stage, e)
      <4>1. PICK e \in stage.has : stage' = Without(stage, e)
        BY <3>3
      <4>2. stage \in Existing /\ e \in Entries \cup {Kept}
        BY <3>3, Existence DEF Typed, TreesTyped
      <4>3. stage.kind = payload.kind /\ stage.has \subseteq payload.has
        BY <3>3 DEF Sides
      <4> QED
        BY <4>1, <4>2, <4>3, Changing
    <3> QED
      BY <1>13, <3>1, <3>2, <3>3, LateDoes
  <2> QED
    BY <1>1, <2>1, <2>3, <2>4 DEF Sides
<1>5. CASE CopyEntry
  <2>1. PICK e \in payload.has : stage' = IF stage = None THEN [payload EXCEPT !.has = {e}]
                                                          ELSE With(stage, e)
    BY <1>5 DEF CopyEntry
  <2>2. stage'.kind = payload.kind /\ stage'.has \subseteq payload.has
    <3>1. payload \in Existing /\ e \in Entries \cup {Kept}
      BY DEF Typed, Requested
    <3>2. CASE stage = None
      BY <2>1, <3>1, <3>2, Beginning
    <3>3. CASE stage # None
      <4>1. stage \in Existing
        BY <3>3, Existence DEF Typed, TreesTyped
      <4>2. stage.kind = payload.kind /\ stage.has \subseteq payload.has
        BY <3>3 DEF Sides
      <4>3. stage' = With(stage, e)
        BY <2>1, <3>3
      <4> QED
        BY <3>1, <4>1, <4>2, <4>3, Changing
    <3> QED
      BY <3>2, <3>3
  <2>3. UNCHANGED <<target, combined, backup, guest, pc, outcome, interrupted,
                    thread, via, sweeping, run>>
    BY <1>5 DEF CopyEntry, local, remote
  <2> QED
    BY <1>1, <2>2, <2>3 DEF Sides
<1>6. CASE CopyFails \/ PublishedLocally \/ PublishedRemotely \/ Interrupt
  <2> USE <1>6 DEF CopyFails, PublishedLocally, PublishedRemotely, Interrupt, Finally
  <2>1. UNCHANGED <<stage, target, combined, backup, guest, thread, via, sweeping, run>>
    BY DEF local, remote, trees
  <2>2. pc \in {"extract", "reset", "copy", "publish"} /\ pc' = "clean up"
    OBVIOUS
  <2>3. interrupted' => outcome' = "failed"
    BY <2>2, NoneAssumption DEF Sides, Typed, CallTyped
  <2> QED
    BY <1>1, <2>1, <2>2, <2>3 DEF Sides
<1>7. CASE PublishLocally
  <2>1. UNCHANGED <<stage, target, combined, backup, guest, pc, outcome, interrupted,
                    sweeping, run>>
    BY <1>7 DEF PublishLocally, ThreadGoto, ThreadRest, remote, trees
  <2>2. ~upload /\ pc = "publish"
    BY <1>7 DEF PublishLocally
  <2>3. thread' = "combine" \/ (thread' = "replace" /\ via' # None)
    BY <1>7, NoneAssumption DEF PublishLocally, ThreadGoto
  <2> QED
    BY <1>1, <2>1, <2>2, <2>3 DEF Sides
<1>8. CASE ThreadStep
  <2> USE DEF ThreadStep, Combine, List, Overlay, Overlaid, MoveAside, Replace, ReplaceFails,
              Swap, SwapFails, DropBackup, Unwind
  <2>1. UNCHANGED <<guest, pc, outcome, interrupted, run>>
    BY <1>8 DEF ThreadRest, remote
  <2>2. thread \notin Over \cup {"idle"}
    BY <1>8 DEF Over
  <2>3. ~upload /\ pc \notin {"extract", "reset", "copy"}
    BY <2>2 DEF Sides, Over
  <2>4. stage' = stage \/ stage' = None
    BY <1>8 DEF MoveToTarget, trees
  <2>5. sweeping' # None => sweeping # None
    BY <1>8, NoneAssumption DEF MoveToTarget, ThreadGoto
  <2>6. thread' \in {"replace", "swap"} => via' # None
    BY <1>8, NoneAssumption DEF ThreadGoto, Sides
  <2>7. thread' \in {"list", "overlay"} => combined' # None
    <3>1. CASE Combine
      <4>1. target = None \/ target.has \subseteq Entries \cup {Kept}
        BY Existence DEF Typed, TreesTyped
      <4>2. thread' = "list" =>
               combined' = Directory(IF target = None THEN {} ELSE target.has)
        BY <3>1 DEF ThreadGoto
      <4>3. Directory(IF target = None THEN {} ELSE target.has) # None
        BY <4>1, Beginning, Existence
      <4>4. thread' \in {"list", "unwind, error"}
        BY <3>1 DEF ThreadGoto
      <4> QED
        BY <4>2, <4>3, <4>4
    <3>2. CASE List
      BY <3>2 DEF ThreadGoto, Sides, trees
    <3>3. CASE Overlay
      <4>1. PICK e \in todo[Thread] :
               combined' = With(combined, e) \/ thread' = "unwind, error"
        BY <3>3
      <4>2. e \in Entries \cup {Kept}
        BY <4>1 DEF Typed, TodoTyped
      <4>3. combined # None
        BY <3>3 DEF Sides
      <4>4. combined \in Existing
        BY <4>3, Existence DEF Typed, TreesTyped
      <4>5. With(combined, e) # None
        BY <4>2, <4>4, Existence, Changing
      <4> QED
        BY <4>1, <4>5
    <3>4. CASE ~Combine /\ ~List /\ ~Overlay
      BY <1>8, <3>4 DEF ThreadGoto
    <3> QED
      BY <3>1, <3>2, <3>3, <3>4
  <2> QED
    BY <1>1, <2>1, <2>3, <2>4, <2>5, <2>6, <2>7 DEF Sides
<1>9. CASE PublishRemotely
  <2>1. UNCHANGED <<stage, target, combined, backup, guest, pc, outcome, interrupted,
                    thread, via, sweeping>>
    BY <1>9 DEF PublishRemotely, RunRest, RunLeaves, trees, local
  <2>2. upload /\ pc = "publish"
    BY <1>9 DEF PublishRemotely
  <2> QED
    BY <1>1, <2>1, <2>2 DEF Sides
<1>10. CASE \E r \in Runs : RunStep(r) \/ Killed(r)
  <2>1. PICK r \in Runs : RunStep(r) \/ Killed(r)
    BY <1>10
  <2> USE DEF RunStep, Own, Test, Decide, Make, Merge, Merged, Move, Killed
  <2>2. UNCHANGED <<combined, backup, guest, pc, outcome, interrupted,
                    thread, via, sweeping, run>>
    BY <2>1 DEF RunGoto, RunRest, RunLeaves, local
  <2>3. stage' = stage \/ stage' = None
    BY <2>1
  <2>4. rpc[r] # "idle"
    BY <2>1 DEF RunOver
  <2>5. run # 0
    BY <2>4 DEF Typed, RunsTyped, Runs
  <2> QED
    BY <1>1, <2>2, <2>3, <2>5 DEF Sides
<1>11. CASE CleanUpRemotely \/ UnlinkStage \/ SweepBegins \/ CleanedUpLocally \/ Release
  <2> USE <1>11 DEF CleanUpRemotely, UnlinkStage, SweepBegins, CleanedUpLocally, Release
  <2>1. UNCHANGED <<target, combined, backup, outcome, interrupted, thread, via, run>>
    BY DEF local, remote, trees
  <2>2. stage' = stage \/ stage' = None
    BY DEF trees
  <2>3. /\ guest' = guest \/ guest' = None
        /\ pc \in {"clean up", "release"} /\ pc' \in {"clean up", "release", "ended"}
        /\ pc' = "release" => ~upload /\ container
    BY DEF trees
  <2>4. sweeping' # None => pc' = "clean up" /\ ~upload
    BY DEF local, Sides
  <2> QED
    BY <1>1, <2>1, <2>2, <2>3, <2>4 DEF Sides
<1>12. CASE SweepEntry
  <2>1. PICK e \in payload.has :
           /\ Holds(Swept, e)
           /\ IF sweeping = "target" THEN target' = Without(target, e) /\ UNCHANGED stage
              ELSE stage' = Without(stage, e) /\ UNCHANGED target
    BY <1>12 DEF SweepEntry
  <2>2. stage' # None => stage'.kind = payload.kind /\ stage'.has \subseteq payload.has
    <3>1. CASE sweeping = "target"
      BY <2>1, <3>1 DEF Sides
    <3>2. CASE sweeping # "target"
      <4>1. stage' = Without(stage, e) /\ stage # None
        BY <2>1, <3>2 DEF Swept, Holds
      <4>2. stage \in Existing /\ e \in Entries \cup {Kept}
        BY <4>1, Existence DEF Typed, Requested, TreesTyped
      <4>3. stage.kind = payload.kind /\ stage.has \subseteq payload.has
        BY <4>1 DEF Sides
      <4> QED
        BY <4>1, <4>2, <4>3, Changing
    <3> QED
      BY <3>1, <3>2
  <2>3. UNCHANGED <<combined, backup, guest, pc, outcome, interrupted,
                    thread, via, sweeping, run>>
    BY <1>12 DEF SweepEntry, local, remote
  <2>4. pc = "clean up"
    BY <1>12 DEF SweepEntry, Sides
  <2> QED
    BY <1>1, <2>2, <2>3, <2>4 DEF Sides
<1> QED
  BY <1>2, <1>3, <1>4, <1>5, <1>6, <1>7, <1>8, <1>9, <1>10, <1>11, <1>12, <1>13 DEF Next

\* Every step leaves what is beside the destination to someone.
LEMMA BesideNext == Typed /\ Sides /\ Staged /\ Beside /\ [Next]_vars => Beside'
<1> SUFFICES ASSUME Typed, Sides, Staged, Beside, [Next]_vars
             PROVE  Beside'
  OBVIOUS
<1>1. /\ upload' = upload /\ container' = container /\ payload' = payload
      /\ disturbed => disturbed'
  BY RequestStays, DisturbedStays DEF request
<1>2. CASE UNCHANGED vars
  <2>1. UNCHANGED <<stage, target, combined, backup, guest, pc, thread, sweeping, littered>>
    BY <1>2 DEF vars, trees, local
  <2> QED
    BY <1>1, <2>1 DEF Beside
<1>12. CASE LateStep
  <2>1. UNCHANGED <<combined, backup, guest, pc, thread, sweeping, littered>>
    BY <1>12, LateLeaves DEF local
  <2>2. stage' = stage \/ disturbed' \/ pc = "reset"
    BY <1>12, LateDoes DEF LateEffect
  <2>3. upload
    BY <1>12, LateLeaves DEF Staged
  <2>4. sweeping = None
    BY <2>3 DEF Sides
  <2> QED
    BY <1>1, <2>1, <2>2, <2>3, <2>4, NoneAssumption DEF Beside
<1>3. CASE \/ Extract \/ Extracted \/ Reset \/ ResetLost
           \/ CopyEntry \/ Copied \/ CopyLost \/ CopyFails
  <2> USE <1>3 DEF Extract, Extracted, ExtractRest, Reset, ResetLost, ResetRest, CopyEntry,
                   Copied, CopyLost, CopyFails, Finally
  <2>1. UNCHANGED <<combined, backup, thread, sweeping, littered>>
    BY DEF trees, local
  <2>2. pc \in {"extract", "reset", "copy"} /\ pc' \notin {"release", "ended"}
    OBVIOUS
  <2>3. sweeping = None
    BY <2>2 DEF Sides
  <2> QED
    BY <1>1, <2>1, <2>2, <2>3, NoneAssumption DEF Beside
<1>4. CASE PublishLocally \/ PublishRemotely \/ PublishedLocally \/ PublishedRemotely \/ Interrupt
  <2> USE <1>4 DEF PublishLocally, PublishRemotely, PublishedLocally, PublishedRemotely,
                   Interrupt, Finally, ThreadRest, RunRest, RunLeaves
  <2>1. UNCHANGED <<stage, combined, backup, guest, littered>>
    BY DEF trees
  <2>2. pc = "publish" /\ pc' \in {"publish", "clean up"}
    OBVIOUS
  <2>3. sweeping' = sweeping /\ sweeping = None
    BY <2>2 DEF ThreadGoto, local, Sides
  <2>4. thread' = thread \/ (thread = "idle" /\ thread' \in {"combine", "replace"})
    BY DEF ThreadGoto, local
  <2> QED
    BY <1>1, <2>1, <2>2, <2>3, <2>4, NoneAssumption DEF Beside
<1>5. CASE ThreadStep
  <2> USE DEF ThreadStep, Combine, List, Overlay, Overlaid, MoveAside, Replace, ReplaceFails,
              Swap, SwapFails, DropBackup, Unwind
  <2>1. UNCHANGED <<guest, pc>>
    BY <1>5 DEF ThreadRest
  <2>2. ~upload
    BY <1>5 DEF Sides
  <2>3. stage' = stage \/ stage' = None
    BY <1>5 DEF MoveToTarget, trees
  <2>4. sweeping' = "target" => stage' = None
    BY <1>5 DEF MoveToTarget, ThreadGoto, trees, Beside
  <2>5. thread' \in Over \cup {"idle", "combine"} => combined' = None
    BY <1>5 DEF ThreadGoto, Over
  <2>6. backup' # None => thread' \in {"swap", "drop"} \/ littered'
    BY <1>5 DEF MoveToTarget, ThreadGoto, trees, Beside
  <2>7. littered => littered'
    BY <1>5
  <2> QED
    BY <1>1, <2>1, <2>2, <2>3, <2>4, <2>5, <2>6, <2>7 DEF Beside
<1>6. CASE \E r \in Runs : RunStep(r) \/ Killed(r)
  <2>1. PICK r \in Runs : RunStep(r) \/ Killed(r)
    BY <1>6
  <2> USE DEF RunStep, Own, Test, Decide, Make, Merge, Merged, Move, Killed
  <2>2. UNCHANGED <<combined, backup, guest, pc, thread, sweeping, littered>>
    BY <2>1 DEF RunRest, RunLeaves, local
  <2>3. stage' = stage \/ stage' = None
    BY <2>1
  <2> QED
    BY <1>1, <2>2, <2>3 DEF Beside
<1>7. CASE CleanUpRemotely
  <2>1. UNCHANGED <<combined, backup, guest, thread, sweeping>>
    BY <1>7 DEF CleanUpRemotely, local
  <2>2. upload /\ pc' = "ended"
    BY <1>7 DEF CleanUpRemotely
  <2>3. sweeping = None /\ guest = None
    BY <2>2 DEF Sides
  <2>4. (littered' = TRUE) \/ (stage' = None /\ littered' = littered)
    BY <1>7 DEF CleanUpRemotely
  <2> QED
    BY <1>1, <2>1, <2>2, <2>3, <2>4, NoneAssumption DEF Beside
<1>8. CASE UnlinkStage \/ SweepBegins
  <2> USE <1>8 DEF UnlinkStage, SweepBegins
  <2>1. UNCHANGED <<combined, backup, guest, pc, thread, littered>>
    BY DEF trees, local
  <2>2. ~upload /\ pc = "clean up"
    OBVIOUS
  <2>3. sweeping' = "target" => stage' = None
    BY DEF local, Beside
  <2> QED
    BY <1>1, <2>1, <2>2, <2>3 DEF Beside
<1>9. CASE CleanedUpLocally
  <2>1. UNCHANGED <<combined, backup, guest, thread, littered>>
    BY <1>9 DEF CleanedUpLocally
  <2>2. ~upload /\ sweeping' = None /\ pc' = IF container THEN "release" ELSE "ended"
    BY <1>9 DEF CleanedUpLocally
  <2>3. stage' = None
    BY <1>9 DEF CleanedUpLocally, Beside, Typed, ThreadTyped
  <2>4. guest # None => container
    BY DEF Sides
  <2> QED
    BY <1>1, <2>1, <2>2, <2>3, <2>4, NoneAssumption DEF Beside
<1>10. CASE SweepEntry
  <2>1. UNCHANGED <<combined, backup, guest, pc, thread, sweeping, littered>>
    BY <1>10 DEF SweepEntry, local
  <2>2. sweeping = "target" => stage' = stage
    BY <1>10 DEF SweepEntry
  <2>3. pc = "clean up"
    BY <1>10 DEF SweepEntry, Sides
  <2> QED
    BY <1>1, <2>1, <2>2, <2>3 DEF Beside
<1>11. CASE Release
  <2>1. UNCHANGED <<stage, combined, backup, thread, sweeping>>
    BY <1>11 DEF Release, local
  <2>2. pc = "release" /\ pc' = "ended"
        /\ (guest' = None \/ littered') /\ (littered => littered')
    BY <1>11 DEF Release
  <2>3. ~upload
    BY <2>2 DEF Sides
  <2> QED
    BY <1>1, <2>1, <2>2, <2>3 DEF Beside
<1> QED
  BY <1>2, <1>3, <1>4, <1>5, <1>6, <1>7, <1>8, <1>9, <1>10, <1>11, <1>12 DEF Next

-----------------------------------------------------------------------------
(* Downloads.                                                              *)

\* An attempt that has sent the whole payload, and that no late reset has come
\* to, has staged it.
LEMMA StagedWhole ==
    ASSUME Typed, Staged, pc = "copy", sent = payload.has, ~upload \/ ~disturbed
    PROVE  Whole(stage)
<1>1. ~disturbed /\ sent # {}
  BY DEF Staged, Typed, Requested
<1> QED
  BY <1>1 DEF Staged, Whole

\* A directory that is to be combined with nothing meets none.
LEMMA Apart ==
    ASSUME Typed, Full(stage), target = before, ~(IsDirectory(stage) /\ IsDirectory(target))
    PROVE  ~Meets
<1>1. stage \in Existing /\ stage.kind = payload.kind
  BY Existence DEF Full, Typed, TreesTyped
<1> QED
  BY <1>1, Kinds DEF Meets

\* A step of the thread leaves a download in order that no one interrupts.
LEMMA ThreadKeeps ==
    ASSUME Typed, Sides, Beside, ~upload, ~interrupted, Download, ThreadStep, UNCHANGED request
    PROVE  Download'
<1>1. payload' = payload /\ before' = before /\ (Meets' <=> Meets)
  BY RequestFixed DEF request
<1>2. UNCHANGED <<pc, outcome>>
  BY DEF ThreadStep, Combine, List, Overlay, Overlaid, MoveAside, Replace, ReplaceFails,
         Swap, SwapFails, DropBackup, Unwind, ThreadRest
<1>3. thread \notin Over \cup {"idle"}
  BY DEF ThreadStep, Combine, List, Overlay, Overlaid, MoveAside, Replace, ReplaceFails,
         Swap, SwapFails, DropBackup, Unwind, Over
<1>4. pc = "publish"
  BY <1>3 DEF Download
<1>5. outcome = None /\ outcome # "ok" /\ outcome # "failed"
  BY <1>4, NoneAssumption DEF Typed, CallTyped
<1>6. sweeping = None /\ sweeping # "stage" /\ sweeping # "target"
  BY <1>4, NoneAssumption DEF Sides
<1> DEFINE Progress ==
             /\ thread \in {"idle", "combine", "list", "overlay"} => Full(stage)
             /\ thread \in {"replace", "swap"} /\ via = "stage" => Full(stage)
             /\ thread \in {"list", "overlay"} => (IsDirectory(before) => Kept \in combined.has)
             /\ thread = "overlay" => payload.has \subseteq todo[Thread] \cup combined.has
             /\ thread \in {"replace", "swap"} =>
                   IF via = "combined" THEN Due(combined) ELSE ~Meets
           Effect ==
             /\ thread \in {"idle", "combine", "list", "overlay", "replace"} =>
                   target = before /\ backup = None
             /\ thread = "swap" => target = None /\ backup = before
             /\ thread \in {"drop", "unwind, ok", "ok"} => Due(target)
             /\ thread \in {"unwind, error", "error"} =>
                   \/ target = before
                   \/ littered /\ (Due(target) \/ (target = None /\ backup = before))
<1>7. Progress /\ Effect
  BY <1>4 DEF Download
<1>8. Progress' /\ Effect' /\ sweeping' # "target" => Download'
  BY <1>2, <1>4, <1>5 DEF Download
<1> HIDE DEF Progress, Effect
<1>9. sweeping' # "target"
  BY <1>6 DEF ThreadStep, Combine, List, Overlay, Overlaid, MoveAside, Replace, ReplaceFails,
         Swap, SwapFails, DropBackup, Unwind, MoveToTarget, ThreadGoto
<1> USE DEF ThreadGoto, ThreadTodo
<1>10. CASE Combine
  <2>1. UNCHANGED <<stage, target, backup>> /\ thread' \in {"list", "unwind, error"}
    BY <1>10 DEF Combine
  <2>2. IsDirectory(before) => target # None /\ Kept \in target.has
    BY <1>7, <1>10, Kinds DEF Effect, Combine, Typed, Requested
  <2>3. thread' = "list" => combined' = Directory(IF target = None THEN {} ELSE target.has)
    BY <1>10 DEF Combine
  <2>4. (IF target = None THEN {} ELSE target.has) \in SUBSET (Entries \cup {Kept})
    BY Existence DEF Typed, TreesTyped
  <2>5. thread' = "list" => (IsDirectory(before) => Kept \in combined'.has)
    BY <2>2, <2>3, <2>4, Beginning
  <2>6. target = before /\ backup = None /\ Full(stage)
    BY <1>7, <1>10 DEF Progress, Effect, Combine
  <2>7. Progress'
    BY <1>1, <2>1, <2>5, <2>6 DEF Progress, Full
  <2>8. Effect'
    BY <1>1, <2>1, <2>6 DEF Effect
  <2> QED
    BY <1>8, <1>9, <2>7, <2>8
<1>11. CASE List
  <2>1. UNCHANGED <<stage, target, combined, backup>> /\ thread' \in {"overlay", "unwind, error"}
    BY <1>11 DEF List, trees
  <2>2. target = before /\ backup = None /\ Full(stage)
        /\ (IsDirectory(before) => Kept \in combined.has)
    BY <1>7, <1>11 DEF Progress, Effect, List
  <2>3. thread' = "overlay" => todo'[Thread] = payload.has
    BY <1>11, <2>2 DEF List, Full, Typed, TodoTyped
  <2>4. Progress'
    BY <1>1, <2>1, <2>2, <2>3 DEF Progress, Full
  <2>5. Effect'
    BY <1>1, <2>1, <2>2 DEF Effect
  <2> QED
    BY <1>8, <1>9, <2>4, <2>5
<1>12. CASE Overlay
  <2>1. UNCHANGED <<stage, target, backup>> /\ thread' \in {"overlay", "unwind, error"}
    BY <1>12 DEF Overlay
  <2>2. target = before /\ backup = None /\ Full(stage)
        /\ (IsDirectory(before) => Kept \in combined.has)
        /\ payload.has \subseteq todo[Thread] \cup combined.has
    BY <1>7, <1>12 DEF Progress, Effect, Overlay
  <2>3. PICK e \in todo[Thread] :
           \/ combined' = With(combined, e) /\ ThreadTodo(todo[Thread] \ {e})
           \/ thread' = "unwind, error"
    BY <1>12 DEF Overlay
  <2>4. combined \in Existing /\ e \in Entries \cup {Kept}
    BY <1>12, <2>3, Existence DEF Overlay, Sides, Typed, TreesTyped, TodoTyped
  <2>5. thread' = "overlay" =>
           combined'.has = combined.has \cup {e} /\ todo'[Thread] = todo[Thread] \ {e}
    BY <2>3, <2>4, Changing DEF Typed, TodoTyped
  <2>6. Progress'
    BY <1>1, <2>1, <2>2, <2>5 DEF Progress, Full
  <2>7. Effect'
    BY <1>1, <2>1, <2>2 DEF Effect
  <2> QED
    BY <1>8, <1>9, <2>6, <2>7
<1>13. CASE Overlaid
  <2>1. UNCHANGED <<stage, target, combined, backup>>
        /\ thread' = "replace" /\ via' = "combined"
    BY <1>13 DEF Overlaid, trees
  <2>2. target = before /\ backup = None
        /\ (IsDirectory(before) => Kept \in combined.has)
        /\ payload.has \subseteq combined.has
    BY <1>7, <1>13 DEF Progress, Effect, Overlaid
  <2>3. Due(combined)
    BY <1>13, <2>2 DEF Due, Whole, Meets, Sides, Overlaid
  <2>4. Due(combined)'
    BY <1>1, <2>1, <2>3 DEF Due, Whole
  <2>5. Progress'
    BY <2>1, <2>4 DEF Progress
  <2>6. Effect'
    BY <1>1, <2>1, <2>2 DEF Effect
  <2> QED
    BY <1>8, <1>9, <2>5, <2>6
<1>14. CASE MoveAside
  <2>1. UNCHANGED <<stage, combined, via>> /\ target' = None /\ backup' = target /\ thread' = "swap"
    BY <1>14 DEF MoveAside
  <2>2. target = before /\ thread = "replace"
    BY <1>7, <1>14 DEF Effect, MoveAside
  <2>3. Progress'
    BY <1>1, <1>7, <2>1, <2>2 DEF Progress, Full, Due, Whole
  <2>4. Effect'
    BY <1>1, <2>1, <2>2 DEF Effect
  <2> QED
    BY <1>8, <1>9, <2>3, <2>4
<1>15. CASE Replace \/ Swap
  <2>1. target' = Source /\ thread' \in {"unwind, ok", "drop"} /\ thread \in {"replace", "swap"}
    BY <1>15 DEF Replace, Swap, MoveToTarget
  <2>2. Due(Source)
    <3>1. CASE via = "combined"
      BY <1>7, <2>1, <3>1 DEF Progress, Source
    <3>2. CASE via # "combined"
      <4>1. via = "stage"
        BY <2>1, <3>2 DEF Sides, Typed, ThreadTyped
      <4>2. Full(stage) /\ ~Meets
        BY <1>7, <2>1, <3>2, <4>1 DEF Progress
      <4> QED
        BY <3>2, <4>2 DEF Source, Due, Full, Whole
    <3> QED
      BY <3>1, <3>2
  <2>3. Due(target)'
    BY <1>1, <2>1, <2>2 DEF Due, Whole
  <2>4. Progress'
    BY <2>1 DEF Progress
  <2>5. Effect'
    BY <2>1, <2>3 DEF Effect
  <2> QED
    BY <1>8, <1>9, <2>4, <2>5
<1>16. CASE ReplaceFails \/ SwapFails
  <2>1. /\ thread' = "unwind, error"
        /\ target' = before \/ (littered' = TRUE /\ target' = None /\ backup' = before)
    BY <1>7, <1>16 DEF Effect, ReplaceFails, SwapFails, trees
  <2>2. Progress' /\ Effect'
    BY <1>1, <2>1 DEF Progress, Effect
  <2> QED
    BY <1>8, <1>9, <2>2
<1>17. CASE DropBackup \/ Unwind
  <2>1. target' = target /\ (thread = "unwind, error" => backup' = backup)
    BY <1>17 DEF DropBackup, Unwind
  <2>2. \/ thread \in {"drop", "unwind, ok"} /\ thread' \in {"unwind, ok", "ok"}
        \/ thread = "drop" /\ thread' = "unwind, error" /\ littered' = TRUE
        \/ thread = "unwind, error" /\ thread' = "error" /\ littered' = littered
    BY <1>17 DEF DropBackup, Unwind
  <2>3. Due(target)' <=> Due(target)
    BY <1>1, <2>1 DEF Due, Whole
  <2>4. Progress'
    BY <2>2 DEF Progress
  <2>5. Effect'
    BY <1>1, <1>7, <2>1, <2>2, <2>3 DEF Effect
  <2> QED
    BY <1>8, <1>9, <2>4, <2>5
<1> QED
  BY <1>10, <1>11, <1>12, <1>13, <1>14, <1>15, <1>16, <1>17 DEF ThreadStep

\* Every step leaves a download in order that no one has interrupted.
LEMMA DownloadNext ==
    ASSUME Typed, Sides, Staged, Beside, ~upload /\ ~interrupted => Download, [Next]_vars
    PROVE  ~upload' /\ ~interrupted' => Download'
<1> SUFFICES ASSUME ~upload', ~interrupted'
             PROVE  Download'
  OBVIOUS
<1>1. upload' = upload /\ payload' = payload /\ before' = before /\ (Meets' <=> Meets)
  BY RequestStays, RequestFixed DEF request
<1>2. ~upload /\ UNCHANGED request
  BY <1>1, RequestStays
<1>3. CASE UNCHANGED vars
  <2>1. UNCHANGED <<stage, target, combined, backup, pc, outcome, interrupted,
                    thread, via, sweeping, todo, littered>>
    BY <1>3 DEF vars, trees, local
  <2>2. Download
    BY <1>2, <2>1
  <2>3. Due(target)' <=> Due(target)
    BY <1>1, <2>1 DEF Due, Whole
  <2>4. Due(combined)' <=> Due(combined)
    BY <1>1, <2>1 DEF Due, Whole
  <2>5. Full(stage)' <=> Full(stage)
    BY <1>1, <2>1 DEF Full
  <2> QED
    BY <1>1, <2>1, <2>2, <2>3, <2>4, <2>5 DEF Download
<1>12. CASE LateStep \/ ResetLost
  BY <1>2, <1>12, LateLeaves DEF Staged, ResetLost
<1>4. CASE Extract \/ Extracted \/ Reset \/ CopyEntry \/ Copied \/ CopyLost \/ CopyFails
  <2> USE <1>4 DEF Extract, Extracted, ExtractRest, Reset, ResetRest, CopyEntry, Copied,
                   CopyLost, CopyFails, Finally
  <2>1. UNCHANGED <<target, combined, backup, interrupted, thread, via, sweeping>>
    BY DEF trees, local
  <2>2. Download
    BY <1>2, <2>1
  <2>3. pc \in {"extract", "reset", "copy"}
    OBVIOUS
  <2>4. thread = "idle" /\ target = before /\ backup = None
    BY <2>2, <2>3 DEF Sides, Download
  <2>5. outcome' # "ok"
    BY <2>3, NoneAssumption DEF Typed, CallTyped
  <2>6. pc' = "publish" => stage' = stage /\ Whole(stage)
    <3> SUFFICES ASSUME pc' = "publish"
                 PROVE  stage' = stage /\ Whole(stage)
      OBVIOUS
    <3>1. stage' = stage /\ pc = "copy" /\ sent = payload.has
      BY DEF trees
    <3> QED
      BY <1>2, <3>1, StagedWhole
  <2>7. sweeping' # "target"
    BY <2>1, <2>2 DEF Download
  <2> HIDE <1>4 DEF Extract, Extracted, ExtractRest, Reset, ResetRest, CopyEntry, Copied,
                    CopyLost, CopyFails, Finally
  <2>8. pc' = "publish" => Full(stage)'
    <3> SUFFICES ASSUME pc' = "publish"
                 PROVE  Full(stage)'
      OBVIOUS
    <3>1. stage # None /\ payload.has \subseteq stage.has
      BY <2>6 DEF Whole
    <3>2. stage.kind = payload.kind /\ stage.has = payload.has
      BY <3>1 DEF Sides
    <3> QED
      BY <1>1, <2>6, <3>1, <3>2 DEF Full
  <2> QED
    BY <1>1, <2>1, <2>4, <2>5, <2>7, <2>8 DEF Download
<1>5. CASE PublishLocally
  <2>1. UNCHANGED <<stage, target, combined, backup, pc, outcome, interrupted, sweeping>>
    BY <1>5 DEF PublishLocally, ThreadGoto, ThreadRest, trees
  <2>2. pc = "publish" /\ thread = "idle" /\ Download
    BY <1>2, <1>5, <2>1 DEF PublishLocally
  <2>3. Full(stage) /\ target = before /\ backup = None /\ sweeping # "target"
    BY <2>2 DEF Download
  <2>4. outcome # "ok" /\ outcome # "failed"
    BY <2>2, NoneAssumption DEF Typed, CallTyped
  <2>5. Full(stage)'
    BY <1>1, <2>1, <2>3 DEF Full
  <2>6. CASE thread' = "combine"
    BY <1>1, <2>1, <2>2, <2>3, <2>4, <2>5, <2>6 DEF Download
  <2>7. CASE thread' # "combine"
    <3>1. thread' = "replace" /\ via' = "stage" /\ ~(IsDirectory(stage) /\ IsDirectory(target))
      BY <1>5, <2>7 DEF PublishLocally, ThreadGoto
    <3>2. ~Meets
      BY <2>3, <3>1, Apart
    <3> QED
      BY <1>1, <2>1, <2>2, <2>3, <2>4, <2>5, <3>1, <3>2 DEF Download
  <2> QED
    BY <2>6, <2>7
<1>6. CASE ThreadStep
  <2>1. interrupted' = interrupted
    BY <1>6 DEF ThreadStep, Combine, List, Overlay, Overlaid, MoveAside, Replace, ReplaceFails,
                Swap, SwapFails, DropBackup, Unwind, ThreadRest
  <2> QED
    BY <1>2, <1>6, <2>1, ThreadKeeps
<1>7. CASE PublishedLocally
  <2>1. UNCHANGED <<target, backup, interrupted, thread, sweeping, littered>>
    BY <1>7 DEF PublishedLocally, trees, local
  <2>2. thread \in Over /\ pc' = "clean up" /\ outcome' = IF thread = "ok" THEN "ok" ELSE "failed"
    BY <1>7 DEF PublishedLocally, Finally
  <2>3. Download
    BY <1>2, <2>1
  <2>4. Due(target)' <=> Due(target)
    BY <1>1, <2>1 DEF Due, Whole
  <2> QED
    BY <1>1, <2>1, <2>2, <2>3, <2>4 DEF Download, Over
<1>8. CASE PublishRemotely \/ PublishedRemotely \/ CleanUpRemotely
  <2>1. run = 0
    BY <1>2 DEF Sides
  <2>2. upload \/ run > 0
    BY <1>8 DEF PublishRemotely, PublishedRemotely, CleanUpRemotely
  <2> QED
    BY <1>2, <2>1, <2>2
<1>9. CASE \E r \in Runs : RunStep(r) \/ Killed(r)
  <2>1. PICK r \in Runs : rpc[r] # "idle"
    BY <1>9 DEF RunStep, Own, Test, Decide, Make, Merge, Merged, Move, Killed, RunOver
  <2>2. run = 0
    BY <1>2 DEF Sides
  <2>3. r > run
    BY <2>2, RunsAssumption DEF Runs
  <2> QED
    BY <2>1, <2>3 DEF Typed, RunsTyped
<1>10. CASE Interrupt
  BY <1>10 DEF Interrupt
<1>11. CASE UnlinkStage \/ SweepBegins \/ SweepEntry \/ CleanedUpLocally \/ Release
  <2> USE <1>11 DEF UnlinkStage, SweepBegins, SweepEntry, CleanedUpLocally, Release
  <2>1. UNCHANGED <<combined, backup, outcome, interrupted, thread, via>>
    BY DEF trees, local
  <2>2. Download
    BY <1>2, <2>1
  <2>3. pc \in {"clean up", "release"} /\ pc' # "publish"
    BY DEF Sides
  <2>4. thread \in Over \cup {"idle"}
    BY <2>2, <2>3 DEF Download
  <2>5. target' = target
    BY <2>2 DEF Download, trees
  <2>6. sweeping' # "target"
    BY <2>2, NoneAssumption DEF Download, local
  <2>7. (littered' = TRUE) \/ littered' = littered
    OBVIOUS
  <2>8. Due(target)' <=> Due(target)
    BY <1>1, <2>5 DEF Due, Whole
  <2> HIDE <1>11 DEF UnlinkStage, SweepBegins, SweepEntry, CleanedUpLocally, Release
  <2> QED
    BY <1>1, <2>1, <2>2, <2>3, <2>4, <2>5, <2>6, <2>7, <2>8 DEF Download, Over
<1> QED
  BY <1>3, <1>4, <1>5, <1>6, <1>7, <1>8, <1>9, <1>10, <1>11, <1>12 DEF Next

-----------------------------------------------------------------------------
(* Uploads.                                                                *)

\* The destination is whole when it holds each entry of the payload.
LEMMA WholeHolds ==
    ASSUME Requested
    PROVE  \A t : Whole(t) <=> \A e \in payload.has : Holds(t, e)
BY DEF Requested, Whole, Holds

\* A command moves all of the staged tree or adds an entry of it: what the
\* destination holds of the payload stays there.
LEMMA TargetGrows ==
    ASSUME Typed, upload, Upload, NEW r \in Runs, RunStep(r) \/ Killed(r), UNCHANGED request
    PROVE  /\ \A e \in payload.has : Holds(target, e) => Holds(target', e)
           /\ Fits => Fits'
<1>1. payload' = payload
  BY DEF request
<1>2. rpc[r] # "idle" /\ run > 0
  <2>1. rpc[r] # "idle"
    BY DEF RunStep, Own, Test, Decide, Make, Merge, Merged, Move, Killed, RunOver
  <2>2. run # 0
    BY <2>1, RunsAssumption DEF Typed, RunsTyped, Runs
  <2> QED
    BY <2>1, <2>2, RunsAssumption DEF Typed, RunsTyped
<1>3. stage # None => Full(stage) /\ stage \in Existing
  BY <1>2, Existence DEF Upload, Typed, TreesTyped
<1>4. stage # None => \A e \in payload.has : Holds(stage, e)
  BY <1>3 DEF Full, Holds
<1>6. stage # None => Kind(stage) = payload.kind
  BY <1>3, Kinds DEF Full
<1>7. IsDirectory(payload) <=> payload.kind = "directory"
  BY Kinds DEF Typed, Requested
<1>8. CASE target' = target
  BY <1>1, <1>8 DEF Fits
<1>9. CASE Make(r) /\ target' # target
  <2>1. target = None /\ target' = Directory({})
    BY <1>9 DEF Make, Opened
  <2>2. Kind(target') = "directory"
    BY <2>1, Beginning, Kinds
  <2> QED
    BY <2>1, <2>2 DEF Fits, Holds
<1>10. CASE Merge(r) /\ target' # target
  <2>1. PICK e \in todo[r] :
           Holds(stage, e) /\ target' = IF IsDirectory(target) THEN With(target, e) ELSE stage
    BY <1>10 DEF Merge
  <2>2. e \in Entries \cup {Kept}
    BY <2>1 DEF Typed, TodoTyped
  <2>3. CASE IsDirectory(target)
    <3>1. target \in Existing
      BY <2>3, Kinds, Existence DEF Typed, TreesTyped
    <3>2. target' \in Existing /\ target'.kind = target.kind /\ target'.has = target.has \cup {e}
      BY <2>1, <2>2, <2>3, <3>1, Changing
    <3>3. IsDirectory(target') /\ Kind(target') # "file"
      BY <2>3, <3>1, <3>2, Kinds
    <3> QED
      BY <3>2, <3>3, Existence DEF Holds, Fits
  <2>4. CASE ~IsDirectory(target)
    <3>1. target' = stage /\ stage # None
      BY <2>1, <2>4 DEF Holds
    <3>2. Fits'
      BY <1>1, <1>6, <1>7, <3>1 DEF Fits
    <3> QED
      BY <1>4, <2>4, <3>1, <3>2
  <2> QED
    BY <2>3, <2>4
<1>11. CASE Move(r) /\ target' # target
  <2>1. Movable /\ target' = stage
    BY <1>11 DEF Move
  <2>2. stage # None /\ (Kind(target) = "none" \/ Kind(stage) = "file")
    BY <2>1, Kinds DEF Movable
  <2>4. Fits'
    BY <1>1, <1>6, <1>7, <2>1, <2>2 DEF Fits
  <2> QED
    BY <1>4, <2>1, <2>2, <2>4
<1>12. target' = target \/ Make(r) \/ Merge(r) \/ Move(r)
  BY DEF RunStep, Own, Test, Decide, Merged, Killed
<1> QED
  BY <1>8, <1>9, <1>10, <1>11, <1>12

\* A command at work, what it leaves alone and where it is after a step.
LEMMA RunSteps ==
    ASSUME Typed, NEW r \in Runs, RunStep(r) \/ Killed(r)
    PROVE  /\ UNCHANGED <<upload, overlay, container, payload, before,
                          pc, outcome, interrupted, run, apart>>
           /\ rpc[r] \notin RunOver /\ run > 0
           /\ \A q \in Runs : q # r => rpc'[q] = rpc[q] /\ todo'[q] = todo[q]
           /\ stage' = stage \/ stage' = None
           /\ UNCHANGED <<sent, disturbed>>
           /\ late' = late \/ (late' = "in target" /\ late = "in stage" /\ Move(r) /\ Movable)
<1> USE DEF RunStep, Own, Test, Decide, Make, Merge, Merged, Move, Killed
<1>1. UNCHANGED <<upload, overlay, container, payload, before,
                  pc, outcome, interrupted, run, apart, sent, disturbed>>
  BY DEF RunRest, RunLeaves, RunGoto, request
<1>6. late' = late \/ (late' = "in target" /\ late = "in stage" /\ Move(r) /\ Movable)
  BY DEF RunRest
<1>2. rpc[r] \notin RunOver
  BY DEF RunOver
<1>3. stage' = stage \/ stage' = None
  OBVIOUS
<1> HIDE DEF RunStep, Own, Test, Decide, Make, Merge, Merged, Move, Killed
<1>4. run > 0
  <2>1. r > 0 /\ run \in 0 .. MaxRuns
    BY DEF Runs, Typed, RunsTyped
  <2>2. ~(r > run)
    BY <1>2 DEF RunOver, Typed, RunsTyped
  <2> QED
    BY <2>1, <2>2, RunsAssumption DEF Runs
<1>5. \A q \in Runs : q # r => rpc'[q] = rpc[q] /\ todo'[q] = todo[q]
  <2> SUFFICES ASSUME NEW q \in Runs, q # r
               PROVE  rpc'[q] = rpc[q] /\ todo'[q] = todo[q]
    OBVIOUS
  <2> USE DEF RunGoto, RunTodo, Typed, RunsTyped, TodoTyped
  <2>1. CASE Own(r) \/ Test(r)
    BY <2>1 DEF Own, Test
  <2>2. CASE Decide(r)
    BY <2>2 DEF Decide
  <2>3. CASE Make(r)
    BY <2>3 DEF Make
  <2>4. CASE Merge(r)
    BY <2>4 DEF Merge
  <2>5. CASE Merged(r) \/ Move(r)
    BY <2>5 DEF Merged, Move
  <2>6. CASE Killed(r)
    BY <2>6 DEF Killed
  <2> QED
    BY <2>1, <2>2, <2>3, <2>4, <2>5, <2>6 DEF RunStep
<1> QED
  BY <1>1, <1>2, <1>3, <1>4, <1>5, <1>6

\* What an upload never does.
LEMMA OnlyUpload ==
    ASSUME Typed, Sides, upload
    PROVE  /\ ~PublishLocally /\ ~PublishedLocally /\ ~UnlinkStage /\ ~SweepBegins
           /\ ~SweepEntry /\ ~CleanedUpLocally /\ ~Release /\ ~Extract /\ ~Extracted
           /\ ~ThreadStep
<1>1. thread = "idle" /\ sweeping = None /\ pc \notin {"extract", "release"}
  BY DEF Sides
<1>2. /\ ~PublishLocally /\ ~PublishedLocally /\ ~UnlinkStage /\ ~SweepBegins
      /\ ~SweepEntry /\ ~CleanedUpLocally /\ ~Release /\ ~Extract /\ ~Extracted
  BY <1>1, NoneAssumption
     DEF PublishLocally, PublishedLocally, UnlinkStage, SweepBegins, SweepEntry,
         CleanedUpLocally, Release, Extract, Extracted, Over
<1>3. ~ThreadStep
  BY <1>1 DEF ThreadStep, Combine, List, Overlay, Overlaid, MoveAside, Replace, ReplaceFails,
              Swap, SwapFails, DropBackup, Unwind
<1> QED
  BY <1>2, <1>3

\* Every step leaves what is staged in order.
LEMMA StagedNext == Typed /\ Sides /\ Staged /\ [Next]_vars => Staged'
<1> SUFFICES ASSUME Typed, Sides, Staged, [Next]_vars
             PROVE  Staged'
  OBVIOUS
<1>1. /\ upload' = upload /\ overlay' = overlay /\ payload' = payload
      /\ (Made' <=> Made)
  BY RequestStays DEF request, Made
<1>2. run \in Nat
  BY RunsAssumption DEF Typed, RunsTyped
<1>3. ASSUME UNCHANGED staging, run # 0 => run' # 0,
             pc' # "copy" \/ UNCHANGED <<pc, stage>>
      PROVE  Staged'
  <2>1. UNCHANGED <<sent, late, disturbed>>
    BY <1>3 DEF staging
  <2>2. StagedTyped'
    BY <1>1, <2>1 DEF Staged, StagedTyped
  <2>3. late' = "in target" => run' # 0
    BY <1>3, <2>1 DEF Staged
  <2>4. pc' = "copy" /\ ~disturbed' /\ sent' # {} => stage' # None /\ sent' \subseteq stage'.has
    BY <1>3, <2>1 DEF Staged
  <2> QED
    BY <1>1, <2>1, <2>2, <2>3, <2>4 DEF Staged
<1>4. CASE UNCHANGED vars
  BY <1>2, <1>3, <1>4 DEF vars, trees, remote
<1>5. CASE \/ Extract \/ Extracted \/ Copied \/ CopyLost \/ CopyFails \/ PublishLocally
           \/ PublishedLocally \/ PublishRemotely \/ PublishedRemotely \/ Interrupt
  <2> USE <1>5 DEF Extract, Extracted, ExtractRest, Copied, CopyLost, CopyFails, PublishLocally,
                   PublishedLocally, PublishRemotely, PublishedRemotely, Interrupt, Finally,
                   ThreadRest, RunRest, RunLeaves
  <2>1. UNCHANGED staging /\ pc' # "copy"
    BY DEF staging
  <2>2. run' = run \/ run' = run + 1
    BY DEF remote
  <2> HIDE <1>5 DEF Extract, Extracted, ExtractRest, Copied, CopyLost, CopyFails, PublishLocally,
                    PublishedLocally, PublishRemotely, PublishedRemotely, Interrupt, Finally,
                    ThreadRest, RunRest, RunLeaves
  <2> QED
    BY <1>2, <1>3, <2>1, <2>2
<1>6. CASE CleanUpRemotely \/ UnlinkStage \/ SweepBegins \/ SweepEntry \/ CleanedUpLocally
           \/ Release
  <2> USE <1>6 DEF CleanUpRemotely, UnlinkStage, SweepBegins, SweepEntry, CleanedUpLocally, Release
  <2>1. UNCHANGED staging /\ pc' # "copy"
    BY DEF Sides
  <2>2. run' = run
    BY DEF remote
  <2> HIDE <1>6 DEF CleanUpRemotely, UnlinkStage, SweepBegins, SweepEntry, CleanedUpLocally, Release
  <2> QED
    BY <1>2, <1>3, <2>1, <2>2
<1>7. CASE ThreadStep
  <2> USE <1>7 DEF ThreadStep, Combine, List, Overlay, Overlaid, MoveAside, Replace, ReplaceFails,
                   Swap, SwapFails, DropBackup, Unwind
  <2>1. UNCHANGED <<staging, pc, run>>
    BY DEF ThreadRest, remote
  <2>2. thread # "idle"
    OBVIOUS
  <2> HIDE <1>7 DEF ThreadStep, Combine, List, Overlay, Overlaid, MoveAside, Replace, ReplaceFails,
                    Swap, SwapFails, DropBackup, Unwind
  <2>3. pc' # "copy"
    BY <2>1, <2>2 DEF Sides
  <2> QED
    BY <1>2, <1>3, <2>1, <2>3
<1>8. CASE \E r \in Runs : RunStep(r) \/ Killed(r)
  <2>4. /\ UNCHANGED <<pc, run, sent, disturbed>> /\ run > 0
        /\ late' = late \/ (late' = "in target" /\ late = "in stage")
    <3>1. PICK r \in Runs : RunStep(r) \/ Killed(r)
      BY <1>8
    <3>2. UNCHANGED <<pc, run, sent, disturbed>> /\ run > 0
      BY <3>1, RunSteps
    <3>3. late' = late \/ (late' = "in target" /\ late = "in stage")
      BY <3>1, RunSteps
    <3> QED
      BY <3>2, <3>3
  <2>6. run > 0
    BY <2>4
  <2>5. run # 0
    BY <1>2, <2>6
  <2>1. /\ UNCHANGED <<pc, run, sent, disturbed>> /\ run # 0
        /\ late' = late \/ (late' = "in target" /\ late = "in stage")
    BY <2>4, <2>5
  <2>2. pc # "copy"
    BY <2>1 DEF Sides
  <2>3. StagedTyped'
    BY <1>1, <2>1 DEF Staged, StagedTyped
  <2> QED
    BY <1>1, <2>1, <2>2, <2>3 DEF Staged
<1>9. CASE Reset
  <2>1. sent' = {} /\ disturbed' = disturbed
        /\ late' = IF late = "in stage" THEN "rmdir" ELSE late
    BY <1>9 DEF Reset
  <2>2. run' = run
    BY <1>9 DEF Reset, ResetRest, remote
  <2>3. StagedTyped'
    BY <2>1 DEF Staged, StagedTyped
  <2> QED
    BY <1>1, <2>1, <2>2, <2>3 DEF Staged
<1>10. CASE ResetLost
  <2>1. /\ UNCHANGED <<sent, disturbed, pc, run>>
        /\ upload /\ late' = "begun" /\ pc = "reset"
    BY <1>10 DEF ResetLost, remote
  <2>2. StagedTyped'
    BY <1>1, <2>1 DEF Staged, StagedTyped
  <2> QED
    BY <1>1, <2>1, <2>2 DEF Staged
<1>11. CASE CopyEntry
  <2>1. PICK e \in payload.has \ sent :
           /\ stage = None => sent = {} /\ ~Made
           /\ stage' = IF stage = None THEN [payload EXCEPT !.has = {e}] ELSE With(stage, e)
           /\ sent' = sent \cup {e}
    BY <1>11 DEF CopyEntry
  <2>2. UNCHANGED <<late, disturbed, pc, run>> /\ pc = "copy"
    BY <1>11 DEF CopyEntry, remote
  <2>3. payload \in Existing /\ e \in Entries \cup {Kept}
    BY DEF Typed, Requested
  <2>4. ~disturbed => stage' # None /\ sent' \subseteq stage'.has
    <3>1. CASE stage = None
      BY <2>1, <2>3, <3>1, Beginning, Existence
    <3>2. CASE stage # None
      <4>1. stage \in Existing
        BY <3>2, Existence DEF Typed, TreesTyped
      <4>2. stage' # None /\ stage'.has = stage.has \cup {e}
        BY <2>1, <2>3, <3>2, <4>1, Changing, Existence
      <4>3. ~disturbed => sent \subseteq stage.has
        BY <2>2, <3>2 DEF Staged
      <4> QED
        BY <2>1, <4>2, <4>3
    <3> QED
      BY <3>1, <3>2
  <2>5. StagedTyped'
    BY <1>1, <2>1, <2>2 DEF Staged, StagedTyped
  <2> QED
    BY <1>1, <2>2, <2>4, <2>5 DEF Staged
<1>12. CASE LateStep
  <2>1. UNCHANGED <<sent, pc, run>> /\ late # "none" /\ upload
    BY <1>12, LateLeaves DEF remote, Staged
  <2>2. /\ disturbed' \in BOOLEAN
        /\ disturbed' = disturbed \/ LateEffect
        /\ stage' = stage \/ LateEffect
        /\ late' \in {"none", "mkdir", "in stage", late}
        /\ late' = "mkdir" => late = "mkdir" \/ Made
    BY <1>12, LateDoes DEF LateEffect, Staged, StagedTyped
  <2>3. pc = "copy" /\ ~disturbed' => stage' = stage /\ ~disturbed
    BY <2>2 DEF LateEffect
  <2>4. StagedTyped'
    BY <1>1, <2>1, <2>2 DEF Staged, StagedTyped
  <2> QED
    BY <1>1, <2>1, <2>2, <2>3, <2>4 DEF Staged
<1> QED
  BY <1>4, <1>5, <1>6, <1>7, <1>8, <1>9, <1>10, <1>11, <1>12 DEF Next

\* A command does not take away a directory that was at the destination, nor
\* what that had, and does not move another over it.
LEMMA RunKeepsHeld ==
    ASSUME Typed, Sides, Held, NEW r \in Runs, RunStep(r) \/ Killed(r), UNCHANGED request
    PROVE  Held'
<1>1. Meets' <=> Meets
  BY RequestFixed
<1>2. late' = late \/ (late' = "in target" /\ Move(r) /\ Movable)
  BY RunSteps
<1> SUFFICES ASSUME Meets
             PROVE  IsDirectory(target') /\ Kept \in target'.has /\ late' # "in target"
  BY <1>1 DEF Held
<1>3. IsDirectory(target) /\ Kept \in target.has /\ late # "in target"
  BY DEF Held
<1>4. target \in Existing
  BY <1>3, Kinds, Existence DEF Typed, TreesTyped
<1>5. target # None /\ target.kind \in {"directory", "link"}
  BY <1>3, <1>4, Kinds
<1>6. ~Movable
  <2>1. stage = None \/ Kind(stage) = "directory"
    BY Kinds, Existence DEF Typed, TreesTyped, Sides, Meets
  <2> QED
    BY <1>4, <1>5, <2>1, Kinds DEF Movable
<1>7. late' # "in target"
  BY <1>2, <1>3, <1>6
<1>8. CASE target' = target
  BY <1>3, <1>7, <1>8
<1>9. CASE Make(r) /\ target' # target
  BY <1>5, <1>9 DEF Make, Opened
<1>10. CASE Merge(r) /\ target' # target
  <2>1. PICK e \in todo[r] : target' = With(target, e)
    BY <1>3, <1>10 DEF Merge
  <2>2. e \in Entries \cup {Kept}
    BY DEF Typed, TodoTyped
  <2>3. target' \in Existing /\ target'.kind = target.kind /\ target'.has = target.has \cup {e}
    BY <1>4, <2>1, <2>2, Changing
  <2>4. IsDirectory(target')
    BY <1>5, <2>3, Kinds
  <2> QED
    BY <1>3, <1>7, <2>3, <2>4
<1>11. CASE Move(r) /\ target' # target
  BY <1>6, <1>11 DEF Move
<1>12. target' = target \/ Make(r) \/ Merge(r) \/ Move(r)
  BY DEF RunStep, Own, Test, Decide, Merged, Killed
<1> QED
  BY <1>8, <1>9, <1>10, <1>11, <1>12

\* Nor does any other step of an upload.
LEMMA HeldNext ==
    ASSUME Typed, Sides, Staged, upload => Held, [Next]_vars
    PROVE  upload' => Held'
<1> SUFFICES ASSUME upload'
             PROVE  Held'
  OBVIOUS
<1>1. upload' = upload /\ UNCHANGED request /\ (Meets' <=> Meets)
  BY RequestStays, RequestFixed DEF request
<1>2. upload /\ Held
  BY <1>1
<1>3. ASSUME target' = target, late' # "in target" \/ late' = late
      PROVE  Held'
  BY <1>1, <1>2, <1>3 DEF Held
<1>4. CASE UNCHANGED vars
  BY <1>3, <1>4 DEF vars, trees, staging
<1>5. CASE \/ Reset \/ ResetLost \/ CopyEntry \/ Copied \/ CopyLost \/ CopyFails
           \/ PublishRemotely \/ PublishedRemotely \/ Interrupt \/ CleanUpRemotely
  <2>1. target' = target
    BY <1>5 DEF Reset, ResetLost, CopyEntry, Copied, CopyLost, CopyFails, PublishRemotely,
                PublishedRemotely, Interrupt, CleanUpRemotely, trees
  <2>2. late' # "in target" \/ late' = late
    BY <1>5 DEF Reset, ResetLost, CopyEntry, Copied, CopyLost, CopyFails, PublishRemotely,
                PublishedRemotely, Interrupt, CleanUpRemotely, RunRest, staging
  <2> QED
    BY <1>3, <2>1, <2>2
<1>6. CASE \E r \in Runs : RunStep(r) \/ Killed(r)
  BY <1>1, <1>2, <1>6, RunKeepsHeld
<1>7. CASE LateStep
  <2>1. CASE target' = target
    BY <1>3, <1>7, <2>1, LateDoes
  <2>2. CASE target' # target
    <3>1. ~Meets
      BY <1>2, <1>7, <2>2, LateDoes DEF Held
    <3> QED
      BY <1>1, <3>1 DEF Held
  <2> QED
    BY <2>1, <2>2
<1> QED
  BY <1>2, <1>4, <1>5, <1>6, <1>7, OnlyUpload DEF Next

\* A step of a command leaves an upload in order.
LEMMA RunKeepsUpload ==
    ASSUME Typed, upload, Upload, NEW r \in Runs, RunStep(r) \/ Killed(r), UNCHANGED request
    PROVE  Upload'
<1>1. /\ UNCHANGED <<payload, pc, outcome, run>>
      /\ \A q \in Runs : q # r => rpc'[q] = rpc[q] /\ todo'[q] = todo[q]
      /\ stage' = stage \/ stage' = None
      /\ run > 0
  BY RunSteps
<1>2. \A e \in payload.has : Holds(target, e) => Holds(target', e)
  BY TargetGrows
<1>3. stage = None \/ Full(stage)
  BY <1>1 DEF Upload
<1>4. Whole(target)' <=> \A e \in payload.has : Holds(target', e)
  <2>1. Requested'
    BY RequestFixed DEF Typed
  <2>2. Whole(target)' <=> \A e \in payload'.has : Holds(target', e)
    BY <2>1 DEF Requested, Whole, Holds
  <2> QED
    BY <1>1, <2>2
<1>5. Whole(target) <=> \A e \in payload.has : Holds(target, e)
  BY WholeHolds DEF Typed
<1>6. Whole(target) => Whole(target)'
  BY <1>2, <1>4, <1>5
<1>7. rpc'[r] = "merge" => /\ todo'[r] \subseteq payload.has
                           /\ \A e \in payload.has : e \in todo'[r] \/ Holds(target', e)
  <2> SUFFICES ASSUME rpc'[r] = "merge"
               PROVE  /\ todo'[r] \subseteq payload.has
                      /\ \A e \in payload.has : e \in todo'[r] \/ Holds(target', e)
    OBVIOUS
  <2>1. CASE Decide(r) \/ Make(r)
    <3>1. stage # None /\ todo'[r] = stage.has
      BY <2>1, Kinds DEF Decide, Make, RunGoto, RunTodo, Typed, RunsTyped, TodoTyped
    <3> QED
      BY <1>3, <3>1 DEF Full
  <2>2. CASE Merge(r)
    <3>1. rpc[r] = "merge"
      BY <2>2 DEF Merge
    <3>2. PICK e \in todo[r] :
             \/ /\ Holds(stage, e)
                /\ target' = IF IsDirectory(target) THEN With(target, e) ELSE stage
                /\ todo' = [todo EXCEPT ![r] = todo[r] \ {e}]
             \/ rpc' = [rpc EXCEPT ![r] = "exit 1"]
      BY <2>2 DEF Merge, RunTodo
    <3>3. todo'[r] = todo[r] \ {e} /\ Holds(stage, e)
          /\ target' = IF IsDirectory(target) THEN With(target, e) ELSE stage
      BY <3>2 DEF Typed, RunsTyped, TodoTyped
    <3>4. Holds(target', e)
      <4>1. CASE IsDirectory(target)
        <5>1. target \in Existing /\ e \in Entries \cup {Kept}
          BY <3>2, <4>1, Kinds, Existence DEF Typed, TreesTyped, TodoTyped
        <5>2. target' = With(target, e)
          BY <3>3, <4>1
        <5> QED
          BY <5>1, <5>2, Changing, Existence DEF Holds
      <4>2. CASE ~IsDirectory(target)
        BY <3>3, <4>2
      <4> QED
        BY <4>1, <4>2
    <3>5. todo[r] \subseteq payload.has
          /\ \A d \in payload.has : d \in todo[r] \/ Holds(target, d)
      BY <3>1 DEF Upload
    <3> QED
      BY <1>2, <3>3, <3>4, <3>5
  <2>3. CASE Own(r) \/ Test(r) \/ Merged(r) \/ Move(r) \/ Killed(r)
    BY <2>3 DEF Own, Test, Merged, Move, Killed, RunGoto, Typed, RunsTyped
  <2> QED
    BY <2>1, <2>2, <2>3 DEF RunStep
<1>8. (stage' = None /\ stage # None) \/ (rpc'[r] = "exit 0" /\ stage # None) => Whole(target)'
  <2> SUFFICES ASSUME stage # None, stage' = None \/ rpc'[r] = "exit 0"
               PROVE  Whole(target)'
    OBVIOUS
  <2>1. CASE Merged(r)
    <3>1. rpc[r] = "merge" /\ todo[r] = {} /\ target' = target
      BY <2>1 DEF Merged
    <3>2. \A e \in payload.has : Holds(target, e)
      BY <3>1 DEF Upload
    <3> QED
      BY <1>2, <1>4, <3>2
  <2>2. CASE Move(r)
    <3>1. target' = stage
      BY <2>2 DEF Move, RunGoto, Typed, RunsTyped
    <3>2. \A e \in payload.has : Holds(stage, e)
      BY <1>3 DEF Full, Holds
    <3> QED
      BY <1>4, <3>1, <3>2
  <2>3. CASE Own(r) \/ Test(r) \/ Decide(r) \/ Make(r) \/ Merge(r) \/ Killed(r)
    BY <2>3 DEF Own, Test, Decide, Make, Merge, Killed, RunGoto, Typed, RunsTyped
  <2> QED
    BY <2>1, <2>2, <2>3 DEF RunStep
<1>9. Full(stage)' <=> stage' # None /\ stage'.kind = payload.kind /\ stage'.has = payload.has
  BY <1>1 DEF Full
<1>10. stage' = None \/ Full(stage)'
  BY <1>1, <1>3, <1>9 DEF Full
<1>11. \A q \in Runs : rpc'[q] = "merge" =>
          /\ todo'[q] \subseteq payload.has
          /\ \A e \in payload.has : e \in todo'[q] \/ Holds(target', e)
  <2> SUFFICES ASSUME NEW q \in Runs, rpc'[q] = "merge"
               PROVE  /\ todo'[q] \subseteq payload.has
                      /\ \A e \in payload.has : e \in todo'[q] \/ Holds(target', e)
    OBVIOUS
  <2>1. CASE q = r
    BY <1>7, <2>1
  <2>2. CASE q # r
    <3>1. rpc[q] = "merge" /\ todo'[q] = todo[q]
      BY <1>1, <2>2
    <3> QED
      BY <1>2, <3>1 DEF Upload
  <2> QED
    BY <2>1, <2>2
<1>12. pc' = "publish" /\ (stage' = None \/ (\E q \in Runs : rpc'[q] = "exit 0")) =>
          Whole(target)'
  <2> SUFFICES ASSUME pc = "publish", stage' = None \/ (\E q \in Runs : rpc'[q] = "exit 0")
               PROVE  Whole(target)'
    BY <1>1
  <2>1. CASE stage = None
    BY <1>6, <2>1 DEF Upload
  <2>2. CASE stage # None /\ stage' = None
    BY <1>8, <2>2
  <2>3. CASE stage # None /\ stage' # None
    <3>1. PICK q \in Runs : rpc'[q] = "exit 0"
      BY <2>3
    <3>2. CASE q = r
      BY <1>8, <2>3, <3>1, <3>2
    <3>3. CASE q # r
      <4>1. rpc[q] = "exit 0"
        BY <1>1, <3>1, <3>3
      <4> QED
        BY <1>6, <4>1 DEF Upload
    <3> QED
      BY <3>2, <3>3
  <2> QED
    BY <2>1, <2>2, <2>3
<1>13. outcome' = "ok" => Whole(target)'
  BY <1>1, <1>6 DEF Upload
<1>15. run' # 0
  BY <1>1 DEF Typed, RunsTyped
<1> QED
  BY <1>1, <1>10, <1>11, <1>12, <1>13, <1>15 DEF Upload

\* A step of a command leaves in order what a repeated one finds.
LEMMA RunKeepsRepeat ==
    ASSUME Typed, Sides, upload, Upload, Repeat, RepeatSucceeds,
           NEW r \in Runs, RunStep(r) \/ Killed(r), UNCHANGED request
    PROVE  Repeat' /\ RepeatSucceeds'
<1>1. /\ UNCHANGED <<upload, overlay, container, payload, before,
                     pc, outcome, interrupted, run, apart, disturbed>>
      /\ rpc[r] \notin RunOver /\ run > 0
      /\ \A q \in Runs : q # r => rpc'[q] = rpc[q]
      /\ stage' = stage \/ stage' = None
  BY RunSteps
<1>2. run \in Runs /\ \A q \in 1 .. run - 1 : q \in Runs /\ q # run
  BY <1>1, RunsAssumption DEF Typed, RunsTyped, Runs
<1>3. Fits => Fits'
  BY TargetGrows
<1>4. Plain' <=> Plain
  BY RequestFixed
<1>5. stage = None \/ Full(stage)
  BY <1>1 DEF Upload
<1> USE DEF RunGoto, Typed, RunsTyped
\* Where the command goes.
<1>6. /\ rpc[r] = "own" => rpc'[r] \in {"make", "exit 1", "killed"}
      /\ rpc[r] = "test" => rpc'[r] \in {"exit 0", "decide", "killed"}
      /\ rpc[r] = "decide" => rpc'[r] \in {"merge", "move", "killed"}
      /\ rpc[r] = "make" => rpc'[r] \in {"merge", "exit 1", "killed"}
      /\ rpc[r] = "merge" => rpc'[r] \in {"merge", "exit 0", "exit 1", "killed"}
      /\ rpc[r] = "move" => rpc'[r] \in {"exit 0", "exit 1", "killed"}
  <2>1. CASE Own(r) \/ Test(r)
    BY <2>1 DEF Own, Test
  <2>2. CASE Decide(r) \/ Make(r)
    BY <2>2 DEF Decide, Make
  <2>3. CASE Merge(r)
    BY <2>3 DEF Merge
  <2>4. CASE Merged(r) \/ Move(r)
    BY <2>4 DEF Merged, Move
  <2>5. CASE Killed(r)
    BY <2>5 DEF Killed
  <2> QED
    BY <2>1, <2>2, <2>3, <2>4, <2>5 DEF RunStep
<1>7. rpc[r] \in {"own", "test", "decide", "make", "merge", "move"}
  BY <1>1
<1>8. /\ rpc'[r] = "own" => container
      /\ rpc'[r] = "make" => ~Plain
      /\ rpc'[r] \in {"test", "decide", "move"} => Plain
      /\ rpc'[r] \in {"merge", "exit 0"} /\ ~Plain => Fits'
  <2>1. /\ rpc[r] = "own" => container
        /\ rpc[r] = "make" => ~Plain
        /\ rpc[r] \in {"test", "decide", "move"} => Plain
        /\ rpc[r] \in {"merge", "exit 0"} /\ ~Plain => Fits
    BY DEF Repeat
  <2>2. rpc[r] = "make" /\ rpc'[r] = "merge" => Fits
    <3> SUFFICES ASSUME rpc[r] = "make", rpc'[r] = "merge"
                 PROVE  Fits
      OBVIOUS
    <3>1. Make(r)
      BY DEF RunStep, Own, Test, Decide, Merge, Merged, Move, Killed
    <3> QED
      BY <3>1 DEF Make
  <2> QED
    BY <1>3, <1>6, <1>7, <2>1, <2>2 DEF Plain
<1>9. pc = "publish" /\ Plain /\ rpc'[r] = "exit 0" => stage' = None
  <2> SUFFICES ASSUME Plain, rpc'[r] = "exit 0"
               PROVE  stage' = None
    OBVIOUS
  <2>1. Test(r) \/ Merged(r) \/ Move(r)
    <3>1. CASE Own(r) \/ Decide(r) \/ Make(r)
      BY <3>1 DEF Own, Decide, Make
    <3>2. CASE Merge(r)
      BY <3>2 DEF Merge
    <3>3. CASE Killed(r)
      BY <3>3 DEF Killed
    <3> QED
      BY <3>1, <3>2, <3>3 DEF RunStep
  <2>2. CASE Test(r)
    BY <2>2 DEF Test
  <2>3. CASE Merged(r)
    BY <2>3 DEF Merged, Plain
  <2>4. CASE Move(r)
    BY <2>4 DEF Move
  <2> QED
    BY <2>1, <2>2, <2>3, <2>4
<1>10. ~Plain => stage' = stage
  <2> SUFFICES ASSUME ~Plain
               PROVE  stage' = stage
    OBVIOUS
  <2>1. CASE Merged(r)
    BY <2>1 DEF Merged, Plain
  <2>2. CASE Move(r)
    BY <2>2 DEF Move, Repeat
  <2> QED
    BY <2>1, <2>2 DEF RunStep, Own, Test, Decide, Make, Merge, Killed
<1> HIDE DEF RunGoto, Typed, RunsTyped
<1>11. run > 0 /\ apart[run] => \A q \in 1 .. run - 1 : rpc[q] \in RunOver /\ q # r /\ rpc'[q] = rpc[q]
  BY <1>1, <1>2 DEF Repeat
\* A command that was begun after another had done its work.
<1>12. ASSUME pc = "publish", apart[run], NEW p \in 1 .. run - 1, rpc'[p] = "exit 0"
       PROVE  /\ rpc'[run] # "exit 1"
              /\ Plain => rpc'[run] \notin {"decide", "merge", "move"}
  <2>1. rpc[p] = "exit 0" /\ p \in Runs
    BY <1>1, <1>2, <1>11, <1>12
  <2>2. rpc[run] # "exit 1" /\ (Plain => rpc[run] \notin {"decide", "merge", "move"})
    BY <1>1, <1>12, <2>1 DEF Repeat
  <2>3. CASE r # run
    BY <1>1, <1>2, <2>2, <2>3
  <2>4. CASE r = run /\ Plain
    <3>1. stage = None
      BY <1>12, <2>1, <2>4 DEF Repeat
    <3>2. rpc[r] = "test"
      BY <1>7, <2>2, <2>4 DEF Repeat, Plain
    <3>3. Test(r) \/ Killed(r)
      BY <3>2 DEF RunStep, Own, Decide, Make, Merge, Merged, Move
    <3>4. ~Killed(r)
      BY <1>12, <2>4 DEF Killed
    <3>5. rpc'[r] = "exit 0"
      BY <3>1, <3>3, <3>4 DEF Test, RunGoto, Typed, RunsTyped
    <3> QED
      BY <2>4, <3>5
  <2>5. CASE r = run /\ ~Plain
    <3>1. stage # None /\ Fits
      BY <1>12, <2>1, <2>5 DEF Repeat
    <3>2. rpc[r] \in {"own", "make", "merge"}
      BY <1>7, <2>5 DEF Repeat
    <3>3. ~Killed(r)
      BY <1>12, <2>5 DEF Killed
    <3>4. rpc'[r] # "exit 1"
      <4>1. CASE Own(r)
        BY <3>1, <4>1 DEF Own, RunGoto, Typed, RunsTyped
      <4>2. CASE Make(r)
        BY <3>1, <4>2 DEF Make, RunGoto, Typed, RunsTyped
      <4>3. CASE Merge(r)
        <5>1. todo[r] \subseteq payload.has
          BY <4>3 DEF Merge, Upload
        <5>2. \A e \in todo[r] : Holds(stage, e)
          BY <1>5, <3>1, <5>1 DEF Full, Holds
        <5>3. rpc' = rpc
          BY <4>3, <5>2 DEF Merge
        <5> QED
          BY <2>2, <2>5, <5>3
      <4>4. CASE Merged(r)
        BY <4>4 DEF Merged, RunGoto, Typed, RunsTyped
      <4> QED
        BY <3>2, <3>3, <4>1, <4>2, <4>3, <4>4 DEF RunStep, Test, Decide, Move
    <3> QED
      BY <2>5, <3>4
  <2> QED
    BY <2>3, <2>4, <2>5
<1>13. run' > 0 /\ apart'[run'] => \A q \in 1 .. run' - 1 : rpc'[q] \in RunOver
  BY <1>1, <1>11
<1>14. \A q \in Runs : /\ rpc'[q] = "own" => container'
                       /\ rpc'[q] = "make" => ~Plain'
                       /\ rpc'[q] \in {"test", "decide", "move"} => Plain'
                       /\ rpc'[q] \in {"merge", "exit 0"} /\ ~Plain' => Fits'
  <2> TAKE q \in Runs
  <2>1. CASE q = r
    BY <1>1, <1>4, <1>8, <2>1
  <2>2. CASE q # r
    <3>1. rpc'[q] = rpc[q] /\ container' = container
      BY <1>1, <2>2
    <3>2. /\ rpc[q] = "own" => container
          /\ rpc[q] = "make" => ~Plain
          /\ rpc[q] \in {"test", "decide", "move"} => Plain
          /\ rpc[q] \in {"merge", "exit 0"} /\ ~Plain => Fits
      BY DEF Repeat
    <3> QED
      BY <1>3, <1>4, <3>1, <3>2
  <2> QED
    BY <2>1, <2>2
<1>15. pc' = "publish" /\ Plain' /\ (\E q \in Runs : rpc'[q] = "exit 0") => stage' = None
  <2> SUFFICES ASSUME pc = "publish", Plain, NEW q \in Runs, rpc'[q] = "exit 0"
               PROVE  stage' = None
    BY <1>1, <1>4
  <2>1. CASE q = r
    BY <1>9, <2>1
  <2>2. CASE q # r
    <3>1. rpc[q] = "exit 0"
      BY <1>1, <2>2
    <3>2. stage = None
      BY <3>1 DEF Repeat
    <3> QED
      BY <1>1, <3>2
  <2> QED
    BY <2>1, <2>2
<1>16. pc' = "publish" /\ ~Plain' => stage' # None
  BY <1>1, <1>4, <1>10 DEF Repeat
<1>17. pc' = "publish" /\ run' > 0 /\ apart'[run'] /\ (\E q \in 1 .. run' - 1 : rpc'[q] = "exit 0") =>
          /\ rpc'[run'] # "exit 1"
          /\ Plain' => rpc'[run'] \notin {"decide", "merge", "move"}
  BY <1>1, <1>4, <1>12
<1>18. RepeatSucceeds'
  <2> SUFFICES ASSUME outcome = "failed", ~interrupted, ~disturbed, apart[run], NEW q \in 1 .. run - 1
               PROVE  rpc'[q] # "exit 0"
    BY <1>1 DEF RepeatSucceeds
  <2>1. rpc[q] # "exit 0"
    BY <1>2 DEF RepeatSucceeds
  <2> QED
    BY <1>1, <1>11, <2>1
<1> QED
  BY <1>13, <1>14, <1>15, <1>16, <1>17, <1>18 DEF Repeat

\* Every step leaves an upload in order.
LEMMA UploadNext ==
    ASSUME Typed, Sides, Staged, [Next]_vars,
           upload /\ ~disturbed => Upload /\ Repeat /\ RepeatSucceeds
    PROVE  upload' /\ ~disturbed' => (Upload /\ Repeat /\ RepeatSucceeds)'
<1> SUFFICES ASSUME upload', ~disturbed'
             PROVE  (Upload /\ Repeat /\ RepeatSucceeds)'
  OBVIOUS
<1>1. /\ upload' = upload /\ overlay' = overlay /\ container' = container
      /\ payload' = payload /\ before' = before /\ UNCHANGED request
      /\ (Meets' <=> Meets) /\ (Plain' <=> Plain)
  BY RequestStays, RequestFixed DEF request
<1>2. upload /\ ~disturbed /\ Upload /\ Repeat /\ RepeatSucceeds
  BY <1>1, DisturbedStays
\* What neither the commands nor the copy of the payload changes.
<1>6. ASSUME UNCHANGED <<target, run, rpc, apart, todo>>
      PROVE  /\ Whole(target)' <=> Whole(target)
             /\ Fits' <=> Fits
  BY <1>1, <1>6 DEF Whole, Fits, IsDirectory
<1>7. Full(stage)' <=> stage' # None /\ stage'.kind = payload.kind /\ stage'.has = payload.has
  BY <1>1 DEF Full
<1>8. CASE UNCHANGED vars \/ (LateStep /\ pc # "reset")
  <2>1. UNCHANGED <<stage, target, pc, outcome, interrupted, run, rpc, apart, todo>>
    <3>1. CASE UNCHANGED vars
      BY <3>1 DEF vars, trees, remote
    <3>2. CASE LateStep /\ pc # "reset"
      <4>1. ~LateEffect
        BY <3>2 DEF LateEffect
      <4> QED
        BY <3>2, <4>1, LateLeaves, LateDoes DEF remote
    <3> QED
      BY <1>8, <3>1, <3>2
  <2>2. Upload'
    BY <1>1, <1>2, <1>6, <1>7, <2>1 DEF Upload, Full
  <2>3. Repeat'
    BY <1>1, <1>2, <1>6, <2>1 DEF Repeat
  <2>4. RepeatSucceeds'
    BY <1>2, <2>1 DEF RepeatSucceeds
  <2> QED
    BY <2>2, <2>3, <2>4
<1>9. CASE \/ Reset \/ ResetLost \/ CopyEntry \/ Copied \/ CopyLost \/ CopyFails
           \/ (LateStep /\ pc = "reset")
  <2>1. /\ UNCHANGED <<run, rpc, apart, todo>>
        /\ pc \in {"extract", "reset", "copy"}
        /\ target' = target \/ (LateStep /\ late = "in target")
        /\ pc' = "publish" => stage' = stage /\ pc = "copy" /\ sent = payload.has
        /\ outcome' = outcome \/ outcome' = "failed"
    <3>1. CASE Reset \/ ResetLost \/ CopyEntry \/ Copied \/ CopyLost \/ CopyFails
      BY <3>1 DEF Reset, ResetLost, ResetRest, CopyEntry, Copied, CopyLost, CopyFails, Finally,
                  trees, remote
    <3>2. CASE LateStep /\ pc = "reset"
      BY <3>2, LateLeaves, LateDoes DEF remote
    <3> QED
      BY <1>9, <3>1, <3>2
  <2>2. run = 0 /\ late # "in target" /\ UNCHANGED <<target, run, rpc, apart, todo>>
    BY <2>1 DEF Sides, Staged
  <2>3. pc' = "publish" => stage' = stage /\ Whole(stage)
    BY <1>2, <2>1, StagedWhole
  <2>5. run = 0 /\ \A r \in Runs : rpc[r] = "idle"
    <3>1. run = 0
      BY <2>2
    <3>2. \A r \in Runs : r > run
      BY <3>1, RunsAssumption DEF Runs
    <3> QED
      BY <3>1, <3>2 DEF Typed, RunsTyped
  <2>6. outcome' # "ok"
    BY <2>1, NoneAssumption DEF Typed, CallTyped
  <2>7. pc' = "publish" => Full(stage)'
    <3> SUFFICES ASSUME pc' = "publish"
                 PROVE  Full(stage)'
      OBVIOUS
    <3>1. stage # None /\ payload.has \subseteq stage.has
      BY <2>3 DEF Whole
    <3>2. stage.kind = payload.kind /\ stage.has = payload.has
      BY <3>1 DEF Sides
    <3> QED
      BY <1>7, <2>3, <3>1, <3>2
  <2>8. pc' = "publish" => stage' # None
    BY <1>7, <2>7
  <2>4. run' = 0 /\ \A r \in Runs : rpc'[r] = "idle"
    BY <2>1, <2>5
  <2>9. ~(run' > 0) /\ \A r \in Runs : rpc'[r] = "idle"
    BY <2>4
  <2>11. Upload'
    BY <2>6, <2>7, <2>8, <2>9 DEF Upload
  <2>12. Repeat'
    BY <2>8, <2>9 DEF Repeat
  <2>13. \A r \in Runs : r # run'
    BY <2>4, RunsAssumption DEF Runs
  <2>14. RepeatSucceeds'
    BY <2>13 DEF RepeatSucceeds
  <2> QED
    BY <2>11, <2>12, <2>14
<1>10. CASE PublishRemotely
  <2>1. UNCHANGED <<stage, target, pc, outcome, interrupted, todo>>
    BY <1>10 DEF PublishRemotely, RunRest, RunLeaves, trees
  <2>2. pc = "publish" /\ run' = run + 1 /\ run' \in Runs /\ run \in Nat
    BY <1>10, RunsAssumption DEF PublishRemotely, Typed, RunsTyped, Runs
  <2>3. PICK place \in {"own", "make", "test"} :
           /\ rpc' = [rpc EXCEPT ![run'] = place]
           /\ place = IF container THEN "own" ELSE IF overlay THEN "make" ELSE "test"
    BY <1>10 DEF PublishRemotely
  <2>4. rpc'[run'] = place /\ \A q \in Runs : q # run' => rpc'[q] = rpc[q]
    BY <2>2, <2>3 DEF Typed, RunsTyped
  <2>5. apart'[run'] <=> \A r \in Runs : rpc[r] \in RunOver
    BY <1>10, <2>2 DEF PublishRemotely, Typed, RunsTyped
  <2>6. \A q \in 1 .. run' - 1 : q \in Runs /\ q # run'
    BY <2>2, RunsAssumption DEF Runs
  <2>7. /\ place = "own" => container
        /\ place = "make" => ~Plain
        /\ place = "test" => Plain
    BY <2>3 DEF Plain
  <2>8. outcome # "failed" /\ outcome # "ok"
    BY <2>2, NoneAssumption DEF Typed, CallTyped
  <2>9. Whole(target)' <=> Whole(target)
    BY <1>1, <2>1 DEF Whole
  <2>10. Fits' <=> Fits
    BY <1>1, <2>1 DEF Fits, IsDirectory
  <2>11. Full(stage)' <=> Full(stage)
    BY <1>7, <2>1 DEF Full
  <2>12. run' # 0
    BY <2>2
  <2>13. \A r \in Runs : rpc'[r] \in {"merge", "exit 0"} => rpc[r] = rpc'[r]
    BY <2>4
  <2>14. Upload'
    BY <1>1, <1>2, <2>1, <2>2, <2>8, <2>9, <2>11, <2>12, <2>13 DEF Upload
  <2>15. \A r \in Runs : /\ rpc'[r] = "own" => container'
                         /\ rpc'[r] = "make" => ~Plain'
                         /\ rpc'[r] \in {"test", "decide", "move"} => Plain'
                         /\ rpc'[r] \in {"merge", "exit 0"} /\ ~Plain' => Fits'
    <3> TAKE r \in Runs
    <3>1. CASE r = run'
      BY <1>1, <2>4, <2>7, <3>1
    <3>2. CASE r # run'
      <4>1. rpc'[r] = rpc[r]
        BY <2>4, <3>2
      <4>2. /\ rpc[r] = "own" => container
            /\ rpc[r] = "make" => ~Plain
            /\ rpc[r] \in {"test", "decide", "move"} => Plain
            /\ rpc[r] \in {"merge", "exit 0"} /\ ~Plain => Fits
        BY <1>2 DEF Repeat
      <4> QED
        BY <1>1, <2>10, <4>1, <4>2
    <3> QED
      BY <3>1, <3>2
  <2>16. apart'[run'] => \A q \in 1 .. run' - 1 : rpc'[q] \in RunOver
    BY <2>4, <2>5, <2>6
  <2>17. rpc'[run'] \notin {"exit 1", "decide", "merge", "move"}
    BY <2>4
  <2>18. Repeat'
    BY <1>1, <1>2, <2>1, <2>13, <2>15, <2>16, <2>17 DEF Repeat
  <2>19. RepeatSucceeds'
    BY <2>1, <2>8 DEF RepeatSucceeds
  <2> QED
    BY <2>14, <2>18, <2>19
<1>11. CASE \E r \in Runs : RunStep(r) \/ Killed(r)
  BY <1>1, <1>2, <1>11, RunKeepsUpload, RunKeepsRepeat
<1>12. CASE PublishedRemotely \/ Interrupt \/ CleanUpRemotely
  <2> USE <1>12 DEF PublishedRemotely, Interrupt, CleanUpRemotely, Finally
  <2>1. UNCHANGED <<target, run, rpc, apart, todo>>
    BY DEF trees, remote
  <2>2. (stage' = stage \/ stage' = None) /\ pc' # "publish"
    BY DEF trees
  <2>3. pc = "publish" \/ UNCHANGED <<outcome, interrupted>>
    OBVIOUS
  <2>4. outcome' = "ok" => outcome = "ok" \/ (pc = "publish" /\ run > 0 /\ rpc[run] = "exit 0")
    BY DEF trees
  <2>5. outcome' = "failed" /\ ~interrupted' =>
           \/ outcome = "failed" /\ ~interrupted
           \/ pc = "publish" /\ run > 0 /\ rpc[run] = "exit 1"
    OBVIOUS
  <2> HIDE <1>12 DEF PublishedRemotely, Interrupt, CleanUpRemotely, Finally
  <2>6. run \in Nat /\ (run > 0 => run \in Runs)
    BY RunsAssumption DEF Typed, RunsTyped, Runs
  <2>7. outcome' = "ok" => Whole(target)
    BY <1>2, <2>4, <2>6 DEF Upload
  <2>8. Upload'
    <3>1. run' > 0 => stage' = None \/ Full(stage)'
      BY <1>2, <1>7, <2>1, <2>2 DEF Upload, Full
    <3> QED
      BY <1>1, <1>2, <1>6, <2>1, <2>2, <2>7, <3>1 DEF Upload
  <2>9. Repeat'
    BY <1>1, <1>2, <1>6, <2>1, <2>2 DEF Repeat
  <2>10. RepeatSucceeds'
    <3> SUFFICES ASSUME outcome' = "failed", ~interrupted', run \in Runs, apart[run],
                        NEW q \in 1 .. run - 1
                 PROVE  rpc[q] # "exit 0"
      BY <2>1 DEF RepeatSucceeds
    <3>1. CASE outcome = "failed" /\ ~interrupted
      BY <1>2, <3>1 DEF RepeatSucceeds
    <3>2. CASE pc = "publish" /\ run > 0 /\ rpc[run] = "exit 1"
      BY <1>2, <3>2 DEF Repeat
    <3> QED
      BY <2>5, <3>1, <3>2
  <2> QED
    BY <2>8, <2>9, <2>10
<1> QED
  BY <1>2, <1>8, <1>9, <1>10, <1>11, <1>12, OnlyUpload DEF Next

-----------------------------------------------------------------------------
(* The theorems.                                                           *)

\* The invariant that the others follow from.
THEOREM TransferInvariance == Spec => []TInv
<1>1. TInv /\ [Next]_vars => TInv'
  <2> SUFFICES ASSUME TInv, [Next]_vars
               PROVE  TInv'
    OBVIOUS
  <2>1. Typed' /\ Sides' /\ Staged' /\ Beside'
    BY TypedNext, SidesNext, StagedNext, BesideNext DEF TInv
  <2>2. ~upload' /\ ~interrupted' => Download'
    BY DownloadNext DEF TInv
  <2>3. upload' => Held'
    BY HeldNext DEF TInv
  <2>4. upload' /\ ~disturbed' => (Upload /\ Repeat /\ RepeatSucceeds)'
    BY UploadNext DEF TInv
  <2> QED
    BY <2>1, <2>2, <2>3, <2>4 DEF TInv
<1> QED
  BY <1>1, TransferInit, PTL DEF Spec

\* Every variable keeps its type.
THEOREM TransferTyped == Spec => []TypeOK
<1>1. TInv => TypeOK
  BY DEF TInv, Typed, Requested, TreesTyped, CallTyped, ThreadTyped, RunsTyped, TodoTyped,
         Staged, StagedTyped, TypeOK
<1> QED
  BY <1>1, TransferInvariance, PTL

\* A transfer that returns has put all of the payload at its destination, unless
\* a reset of an earlier attempt came to what was staged after it; and what a
\* directory there had is still in it in any case.
THEOREM OkIsWhole == Spec => []OkMeansWhole
<1>1. TInv => OkMeansWhole
  <2> SUFFICES ASSUME TInv, outcome = "ok"
               PROVE  (disturbed \/ Whole(target)) /\ (Meets => Kept \in target.has)
    BY DEF OkMeansWhole, Meets
  <2>1. CASE upload
    BY <2>1 DEF TInv, Upload, Held
  <2>2. CASE ~upload
    <3>1. ~interrupted
      BY DEF TInv, Sides
    <3>2. thread = "ok" /\ Due(target)
      BY <2>2, <3>1 DEF TInv, Download
    <3> QED
      BY <3>2 DEF Due
  <2> QED
    BY <2>1, <2>2
<1> QED
  BY <1>1, TransferInvariance, PTL

\* A download that is not interrupted replaces what its destination had by the
\* whole, or leaves it, at each moment but that of the swap.
THEOREM OldOrNew == Spec => []OldOrWhole
<1>1. TInv => OldOrWhole
  <2> SUFFICES ASSUME TInv, ~upload, ~interrupted
               PROVE  /\ target = before \/ Whole(target) \/ (target = None /\ backup = before)
                      /\ outcome = "failed" => target = before \/ littered
    BY DEF OldOrWhole
  <2>1. Download
    BY DEF TInv
  <2>2. thread \in Over \cup {"idle", "combine", "list", "overlay", "replace", "swap",
                              "drop", "unwind, ok", "unwind, error"}
    BY DEF TInv, Typed, ThreadTyped
  <2>3. target = before \/ Due(target) \/ (target = None /\ backup = before)
    BY <2>1, <2>2 DEF Download, Over
  <2>4. outcome = "failed" => pc # "publish"
    BY NoneAssumption DEF TInv, Typed, CallTyped
  <2>5. outcome = "failed" => target = before \/ littered
    BY <2>1, <2>4 DEF Download, Over
  <2> QED
    BY <2>3, <2>5 DEF Due
<1> QED
  BY <1>1, TransferInvariance, PTL

\* Once everything that works for a transfer has stopped, nothing is left beside
\* the destination, interrupted or not, unless a removal failed or a reset came
\* late.
THEOREM NothingIsLeft == Spec => []NothingLeft
<1>1. TInv => NothingLeft
  <2> SUFFICES ASSUME TInv, pc = "ended", thread \in Over \cup {"idle"}
               PROVE  littered \/ disturbed \/ (stage = None /\ combined = None
                                                /\ backup = None /\ guest = None)
    BY DEF NothingLeft
  <2>1. Beside
    BY DEF TInv
  <2>2. upload \in BOOLEAN
    BY DEF TInv, Typed, Requested
  <2> QED
    BY <2>1, <2>2 DEF Beside, Over
<1> QED
  BY <1>1, TransferInvariance, PTL

\* A run that follows one that did its work, and is alone, does not fail.
THEOREM RepeatsSucceed == Spec => []RepeatSucceeds
<1>1. TInv => RepeatSucceeds
  <2> SUFFICES ASSUME TInv, ~upload
               PROVE  RepeatSucceeds
    BY DEF TInv, RepeatSucceeds
  <2>1. run = 0
    BY DEF TInv, Sides
  <2>2. \A r \in Runs : r # run
    BY <2>1, RunsAssumption DEF Runs
  <2> QED
    BY <2>2 DEF RepeatSucceeds
<1> QED
  BY <1>1, TransferInvariance, PTL
=============================================================================
