--------------------------- MODULE NetworkPolicy ---------------------------
(***************************************************************************)
(* update_network_policy() (asynchronous/sandbox.py) on a sandbox whose    *)
(* other operations are those of SandboxLifecycle. The service numbers the *)
(* policies it accepts; a generation is desired first and enforced later,  *)
(* by when others may have asked for another.                              *)
(***************************************************************************)
EXTENDS SandboxLifecycle, Sequences, FiniteSets

CONSTANTS Updaters,     \* calls of update_network_policy()
          Others,       \* whoever else changes the policy of the sandbox
          MaxGeneration \* bound: policies that are accepted

ASSUME UpdatersAssumption ==
    /\ Updaters \cap (Callers \cup {Others}) = {}
    /\ MaxGeneration \in Nat

\* To a PATCH (or that the sandbox is not there), and to the read after it.
UAnswers ==
    [kind : {"accepted"}, generation : 1 .. MaxGeneration]
        \cup [kind : {"pending", "refused"}]
        \cup [kind : {"seen"}, status : Statuses,
              desired : 0 .. MaxGeneration, enforced : 0 .. MaxGeneration]

ASSUME NoAnswerAssumption == None \notin UAnswers \cup 1 .. MaxGeneration

VARIABLES numbered,  \* the service tells generations
          author,    \* of each generation that was accepted
          enforced,  \* the generation in force
          wasInForce,\* history: generations that ever were
          upc,       \* the await an update is at
          answer,    \* to its request
          generation,\* it has been promised
          outage     \* failures in a row

policies == <<numbered, author, enforced, wasInForce>>
updates == <<upc, answer, generation, outage>>
vars == <<lvars, policies, updates>>

-----------------------------------------------------------------------------
Desired == Len(author)

UInit ==
    /\ Init
    /\ numbered \in BOOLEAN
    /\ author = <<>> /\ enforced = 0 /\ wasInForce = {0}
    /\ upc = [u \in Updaters |-> "idle"]
    /\ answer = [u \in Updaters |-> None]
    /\ generation = [u \in Updaters |-> None]
    /\ outage = [u \in Updaters |-> 0]

\* Mutant: an answer is still there when the next request is made.
UGotoAnswered(u, await) ==
    /\ upc' = [upc EXCEPT ![u] = await]
    /\ outage' = [outage EXCEPT ![u] = 0]
    /\ UNCHANGED answer

UGoto(u, await) ==
    /\ upc' = [upc EXCEPT ![u] = await]
    /\ answer' = [answer EXCEPT ![u] = None]
    /\ outage' = [outage EXCEPT ![u] = 0]

UEnded(u) == upc[u] \in {"done", "raised"}

-----------------------------------------------------------------------------
(* The service and the sandbox.                                            *)

Accept(who) ==
    /\ Desired < MaxGeneration
    /\ author' = Append(author, who)

UAnswer(u, a) == answer' = [answer EXCEPT ![u] = a]

Kind(u) == IF answer[u] = None THEN "none" ELSE answer[u].kind

\* While an update is pending the service may turn away the next.
ServePatch(u) ==
    /\ upc[u] = "patch" /\ answer[u] = None /\ client = "open"
    /\ \/ status \in Live /\ Accept(u) /\ UAnswer(u, [kind |-> "accepted", generation |-> Desired + 1])
       \/ status \in Live /\ enforced < Desired /\ UAnswer(u, [kind |-> "pending"]) /\ UNCHANGED author
       \/ status \notin Live /\ UAnswer(u, [kind |-> "refused"]) /\ UNCHANGED author
    /\ UNCHANGED <<enforced, wasInForce>>

\* A snapshot of the sandbox, in which the policy is the one desired.
ServeConfirm(u) ==
    /\ upc[u] = "confirm" /\ answer[u] = None /\ client = "open"
    /\ UAnswer(u, IF status = "gone" THEN [kind |-> "refused"]
                  ELSE [kind |-> "seen", status |-> status,
                        desired |-> Desired, enforced |-> enforced])
    /\ UNCHANGED <<author, enforced, wasInForce>>

OthersUpdate ==
    /\ status \in Live
    /\ Accept(Others)
    /\ UNCHANGED <<enforced, wasInForce, answer>>

\* The latest one; what came between never is in force.
Enforce ==
    /\ status = "ready" /\ enforced < Desired
    /\ enforced' = Desired
    /\ wasInForce' = wasInForce \cup {Desired}
    /\ UNCHANGED <<author, answer>>

ServiceStep ==
    /\ \/ \E u \in Updaters : ServePatch(u) \/ ServeConfirm(u)
       \/ OthersUpdate
       \/ Enforce
    /\ UNCHANGED <<lvars, numbered, upc, generation, outage>>

-----------------------------------------------------------------------------
(* update_network_policy()                                                 *)

BeginUpdate(u) ==
    /\ Handle /\ upc[u] = "idle"
    /\ UGoto(u, "patch")
    /\ UNCHANGED <<lvars, policies, generation>>

\* A service that tells no generation is taken at its word.
Accepted(u) ==
    /\ Kind(u) = "accepted"
    /\ client = "open"
    /\ IF numbered THEN /\ generation' = [generation EXCEPT ![u] = answer[u].generation]
                        /\ UGoto(u, "confirm")
       ELSE UGoto(u, "flush") /\ UNCHANGED generation
    /\ UNCHANGED <<lvars, policies>>

\* Nothing was accepted: asks again.
Pending(u) ==
    /\ Kind(u) = "pending" /\ client = "open"
    /\ UGoto(u, "patch")
    /\ UNCHANGED <<lvars, policies, generation>>

\* The snapshot becomes the handle's, whatever comes of the update.
Learn(u) ==
    /\ Kind(u) = "seen"
    /\ client = "open"
    /\ known' = answer[u].status
    /\ UNCHANGED <<api, owned, client, ssh, endpoint, call, undo, policies, generation>>

\* Mutant: waits for its generation to come back.
SupersededNever(u, seen) == FALSE

Superseded(u, seen) == seen.desired > generation[u] \/ seen.enforced > generation[u]

\* Mutant: a later generation is as good as its own.
InForceOrLater(u, seen) ==
    seen.enforced >= generation[u] /\ seen.status = "ready"

InForce(u, seen) ==
    /\ seen.desired = generation[u] /\ seen.enforced = generation[u]
    /\ seen.status = "ready"

Confirmed(u) ==
    /\ Learn(u)
    /\ InForce(u, answer[u])
    /\ UGoto(u, "flush")

\* Stopped, or superseded. (Or not the policy that was accepted, or not this
\* sandbox, which the service here never answers.)
Unconfirmed(u) ==
    /\ Learn(u)
    /\ ~InForce(u, answer[u])
    /\ IF answer[u].status = "over" \/ Superseded(u, answer[u])
       THEN UGoto(u, "raised")
       ELSE UGoto(u, "confirm")

\* The DNS caches are flushed over SSH: best effort, except for the connection.
Flushed(u) ==
    /\ upc[u] = "flush"
    /\ \/ ssh = "open" /\ UGoto(u, "done")
       \/ UGoto(u, "raised")
    /\ UNCHANGED <<lvars, policies, generation>>

\* Mutant: a PATCH is sent again when its answer was lost.
UFailsAlike(u) ==
    /\ upc[u] \in {"patch", "confirm"}
    /\ \/ /\ outage[u] < Grace
          /\ outage' = [outage EXCEPT ![u] = @ + 1]
          /\ answer' = [answer EXCEPT ![u] = None]
          /\ UNCHANGED upc
       \/ outage[u] > 0 /\ UGoto(u, "raised")
    /\ UNCHANGED <<lvars, policies, generation>>

\* A PATCH is not repeated, a read is while the outage is short.
URequestFails(u) ==
    /\ \/ upc[u] = "patch" /\ UGoto(u, "raised")
       \/ /\ upc[u] = "confirm" /\ outage[u] < Grace
          /\ outage' = [outage EXCEPT ![u] = @ + 1]
          /\ answer' = [answer EXCEPT ![u] = None]
          /\ UNCHANGED upc
       \/ upc[u] = "confirm" /\ outage[u] > 0 /\ UGoto(u, "raised")
    /\ UNCHANGED <<lvars, policies, generation>>

Refused(u) ==
    /\ Kind(u) = "refused" /\ client = "open"
    /\ UGoto(u, "raised")
    /\ UNCHANGED <<lvars, policies, generation>>

\* Cancelled, or timed out, which does not undo anything.
UCancel(u) ==
    /\ upc[u] \in {"patch", "confirm", "flush"}
    /\ UGoto(u, "raised")
    /\ UNCHANGED <<lvars, policies, generation>>

UProceed(u) ==
    \/ Accepted(u) \/ Pending(u) \/ Confirmed(u) \/ Unconfirmed(u)
    \/ Flushed(u) \/ URequestFails(u) \/ Refused(u)

Next ==
    \/ LifecycleStep /\ UNCHANGED <<policies, updates>>
    \/ ServiceStep
    \/ \E u \in Updaters : BeginUpdate(u) \/ UProceed(u) \/ UCancel(u)

\* The calls go on; the service enforces what it has accepted if it can.
UpdateFairness ==
    /\ \A u \in Updaters : WF_vars(UProceed(u))
    /\ WF_vars(Enforce /\ UNCHANGED <<lvars, numbered, upc, generation, outage>>)

Spec == UInit /\ [][Next]_vars
FairSpec == Spec /\ UpdateFairness

-----------------------------------------------------------------------------
TypeOK ==
    /\ LifecycleTypeOK
    /\ numbered \in BOOLEAN
    /\ author \in Seq(Updaters \cup {Others}) /\ Desired <= MaxGeneration
    /\ enforced \in 0 .. Desired /\ wasInForce \subseteq 0 .. Desired
    /\ upc \in [Updaters -> {"idle", "patch", "confirm", "flush", "done", "raised"}]
    /\ answer \in [Updaters -> UAnswers \cup {None}]
    /\ \A u \in Updaters :
          /\ Kind(u) \in {"accepted", "pending"} => upc[u] = "patch"
          /\ Kind(u) = "seen" => upc[u] = "confirm"
          /\ upc[u] = "confirm" => generation[u] # None
    /\ generation \in [Updaters -> (1 .. MaxGeneration) \cup {None}]
    /\ outage \in [Updaters -> 0 .. Grace]

\* An update that was promised a generation returns only if exactly that one
\* was in force, however late its reads, and whoever updates meanwhile.
SuccessMeansInForce ==
    \A u \in Updaters :
       upc[u] \in {"flush", "done"} /\ numbered => generation[u] \in wasInForce

\* A call has its policy accepted once at most, whatever answers are lost: a
\* second time could undo what somebody else asked for in between.
NeverReplayed ==
    \A u \in Updaters : Cardinality({g \in 1 .. Desired : author[g] = u}) <= 1

\* An update of a sandbox that has started ends, superseded or not.
UpdateEnds ==
    \A u \in Updaters : upc[u] # "idle" /\ status # "created" ~> UEnded(u)
=============================================================================
