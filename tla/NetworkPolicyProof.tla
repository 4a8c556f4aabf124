------------------------- MODULE NetworkPolicyProof -------------------------
(***************************************************************************)
(* Theorems about NetworkPolicy for every number of updates and policies,  *)
(* whoever else changes the policy.                                        *)
(***************************************************************************)
EXTENDS NetworkPolicy, SandboxLifecycleProof, FiniteSetTheorems

\* What the service has told is true, and was told to a call of the handle.
ToldTrue ==
    /\ enforced \in wasInForce
    /\ \A u \in Updaters :
          /\ upc[u] # "idle" => Handle
          /\ upc[u] = "idle" => answer[u] = None
          /\ Kind(u) = "accepted" =>
                answer[u].generation <= Desired /\ author[answer[u].generation] = u
          /\ Kind(u) = "seen" =>
                /\ answer[u].status \notin {"none", "gone"}
                /\ answer[u].status = "over" => Over
                /\ answer[u].desired <= Desired /\ answer[u].enforced \in wasInForce

\* A call has had nothing accepted while it has no answer that says so, and
\* one policy at most after.
OnceAccepted ==
    \A u \in Updaters :
        /\ upc[u] = "idle" \/ (upc[u] = "patch" /\ Kind(u) # "accepted") =>
              \A g \in 1 .. Desired : author[g] # u
        /\ \A g, h \in 1 .. Desired : author[g] = u /\ author[h] = u => g = h

UInv == TypeOK /\ LInv /\ ToldTrue /\ OnceAccepted /\ SuccessMeansInForce

-----------------------------------------------------------------------------
USE CallersAssumption, GraceAssumption, NoneAssumption, UpdatersAssumption, NoAnswerAssumption
    DEF policies, updates, UGoto, UAnswer

\* The policies accepted so far, and one more.
LEMMA Appending ==
    ASSUME author \in Seq(Updaters \cup {Others}), NEW who \in Updaters \cup {Others}, Accept(who)
    PROVE  /\ author' \in Seq(Updaters \cup {Others})
           /\ Desired' = Desired + 1 /\ Desired \in Nat /\ Desired' <= MaxGeneration
           /\ \A g \in 1 .. Desired : author'[g] = author[g]
           /\ author'[Desired'] = who
           /\ \A g \in 1 .. Desired' : g \in 1 .. Desired \/ g = Desired'
<1>1. Desired \in Nat /\ Desired < MaxGeneration /\ author' = Append(author, who)
  BY DEF Accept, Desired
<1>2. /\ author' \in Seq(Updaters \cup {Others})
      /\ Len(author') = Len(author) + 1
      /\ \A g \in 1 .. Len(author) : author'[g] = author[g]
      /\ author'[Len(author) + 1] = who
  <2>1. DEFINE S == Updaters \cup {Others}
  <2>2. author \in Seq(S) /\ who \in S
    OBVIOUS
  <2> HIDE DEF S
  <2>3. Append(author, who) \in Seq(S) /\ Len(Append(author, who)) = Len(author) + 1
    BY <2>2
  <2>4. ASSUME NEW g \in 1 .. Len(author) PROVE Append(author, who)[g] = author[g]
    BY <2>2
  <2>5. Append(author, who)[Len(author) + 1] = who
    BY <2>2
  <2> QED
    BY <1>1, <2>3, <2>4, <2>5 DEF S
<1>3. Desired' = Desired + 1 /\ (\A g \in 1 .. Desired : author'[g] = author[g])
  BY <1>2 DEF Desired
<1>4. author'[Desired'] = who
  BY <1>2 DEF Desired
<1>5. Desired' <= MaxGeneration
  BY <1>1, <1>3
<1>6. \A g \in 1 .. Desired' : g \in 1 .. Desired \/ g = Desired'
  BY <1>1, <1>3
<1> QED
  BY <1>1, <1>2, <1>3, <1>4, <1>5, <1>6

\* An answer is of one kind, and none is no answer.
LEMMA Kinds ==
    ASSUME TypeOK, NEW u \in Updaters
    PROVE  /\ Kind(u) = "none" <=> answer[u] = None
           /\ Kind(u) \in {"none", "accepted", "pending", "refused", "seen"}
           /\ Kind(u) = "accepted" => answer[u].generation \in 1 .. MaxGeneration
           /\ Kind(u) = "seen" =>
                 /\ answer[u].status \in Statuses
                 /\ answer[u].desired \in 0 .. MaxGeneration
                 /\ answer[u].enforced \in 0 .. MaxGeneration
  BY DEF TypeOK, Kind, UAnswers

\* A handle stays, and what is over stays over.
LEMMA LifecycleMonotone ==
    ASSUME LInv, Handle, [LifecycleStep]_lvars
    PROVE  Handle' /\ (Over => Over')
<1> USE DEF Handle
<1>1. CASE \E o \in Callers : CallStep(o)
  <2>1. PICK o \in Callers : CallStep(o)
    BY <1>1
  <2>2. Keeps(o)
    BY <2>1, CallSteps DEF Steps
  <2> QED
    BY <2>2 DEF Keeps, Over, api, Ended, Callers
<1>2. CASE \E o \in Callers : Serve(o)
  <2>1. PICK o \in Callers : Serve(o)
    BY <1>2
  <2>2. CASE ServeStart(o)
    BY <2>2 DEF ServeStart, Unserved, LInv, Roles, WaiterAwaits, TerminatorAwaits, Callers
  <2>3. CASE ServeRead(o) \/ ServeWait(o) \/ ServeStop(o)
    <3>1. UNCHANGED status
      BY <2>3 DEF ServeRead, ServeWait, ServeStop, api
    <3> QED
      BY <2>1, <3>1 DEF Serve, Over
  <2> QED
    BY <2>1, <2>2, <2>3 DEF Serve
<1>3. CASE SandboxMoves
  BY <1>3 DEF SandboxMoves, Over, Live, call
<1>4. CASE \E o \in Callers : Expire(o)
  BY <1>4 DEF Expire, Over, api
<1>5. CASE UNCHANGED lvars
  BY <1>5 DEF lvars, api, call, Over
<1> QED
  BY <1>1, <1>2, <1>3, <1>4, <1>5 DEF LifecycleStep, CallStep, Callers

\* A handle may learn from any true snapshot.
LEMMA Learning ==
    ASSUME LInv, Handle, UNCHANGED <<api, owned, client, ssh, endpoint, call, undo>>,
           known' \in Statuses, known' \notin {"none", "gone"}, known' = "over" => Over
    PROVE  LInv'
<1> USE DEF LInv, api, call, undo
<1>1. LifecycleTypeOK' /\ Roles'
  BY DEF LifecycleTypeOK, Roles
<1>2. InOrder'
  BY DEF InOrder, Handle
<1>3. AnswersTrue'
  BY DEF AnswersTrue, Over
<1>4. NotFoundTrue' /\ RolledBack' /\ ClientKept' /\ FallbackWarranted' /\ TerminateMeansStopped'
  BY DEF NotFoundTrue, RolledBack, ClientKept, FallbackWarranted, TerminateMeansStopped, Over, Ended
<1> QED
  BY <1>1, <1>2, <1>3, <1>4

\* The lifecycle leaves the updates alone.
LEMMA LifecycleKeeps ==
    ASSUME UInv, [LifecycleStep]_lvars, UNCHANGED <<policies, updates>>
    PROVE  UInv'
<1> USE DEF UInv
<1>1. LInv'
  BY LifecycleNext
<1>2. /\ Desired' = Desired /\ \A u \in Updaters : Kind(u)' = Kind(u)
      /\ UNCHANGED <<numbered, author, enforced, wasInForce, upc, answer, generation, outage>>
  BY DEF Desired, Kind
<1>3. TypeOK'
  BY <1>1, <1>2 DEF TypeOK, LInv
<1>4. ToldTrue'
  <2>1. Handle => Handle' /\ (Over => Over')
    BY LifecycleMonotone
  <2>2. \A u \in Updaters : Kind(u) = "seen" => Handle
    BY DEF ToldTrue, TypeOK
  <2> QED
    BY <1>2, <2>1, <2>2 DEF ToldTrue
<1>5. OnceAccepted' /\ SuccessMeansInForce'
  BY <1>2 DEF OnceAccepted, SuccessMeansInForce
<1> QED
  BY <1>1, <1>3, <1>4, <1>5

-----------------------------------------------------------------------------
(* The service.                                                            *)

\* What it accepts, answers and enforces keeps what it told before true.
LEMMA ServiceKeeps ==
    ASSUME UInv, ServiceStep
    PROVE  UInv'
<1> USE DEF UInv
<1>1. UNCHANGED <<lvars, numbered, upc, generation, outage>>
  BY DEF ServiceStep
<1>2. LInv' /\ Over' = Over /\ Handle' = Handle /\ LifecycleTypeOK'
  <2>1. LInv'
    BY <1>1, LifecycleNext
  <2> QED
    BY <1>1, <2>1 DEF LInv, Over, Handle, lvars, api, call
<1>t. /\ author \in Seq(Updaters \cup {Others}) /\ Desired \in Nat /\ Desired <= MaxGeneration
      /\ enforced \in 0 .. Desired /\ wasInForce \subseteq 0 .. Desired
      /\ answer \in [Updaters -> UAnswers \cup {None}]
  BY DEF TypeOK, Desired
<1>3. ASSUME NEW u \in Updaters, ServePatch(u)
      PROVE  UInv'
  <2>1. upc[u] = "patch" /\ answer[u] = None /\ UNCHANGED <<enforced, wasInForce>>
    BY <1>3 DEF ServePatch
  <2>2. Kind(u) = "none" /\ \A v \in Updaters : v # u => answer'[v] = answer[v] /\ Kind(v)' = Kind(v)
    BY <1>3, <1>t, <2>1 DEF ServePatch, Kind
  <2>3. CASE Accept(u) /\ UAnswer(u, [kind |-> "accepted", generation |-> Desired + 1])
    <3>1. /\ author' \in Seq(Updaters \cup {Others})
          /\ Desired' = Desired + 1 /\ Desired' <= MaxGeneration
          /\ \A g \in 1 .. Desired : author'[g] = author[g]
          /\ author'[Desired'] = u
          /\ \A g \in 1 .. Desired' : g \in 1 .. Desired \/ g = Desired'
      BY <1>t, <2>3, Appending
    <3>2. /\ [kind |-> "accepted", generation |-> Desired + 1] \in UAnswers
          /\ answer'[u] = [kind |-> "accepted", generation |-> Desired']
      BY <1>t, <2>3, <3>1 DEF UAnswers
    <3>3. Kind(u)' = "accepted" /\ answer'[u].generation = Desired'
          /\ answer' \in [Updaters -> UAnswers \cup {None}]
      BY <1>t, <2>3, <3>2 DEF Kind
    <3>4. TypeOK'
      BY <1>1, <1>2, <1>t, <2>1, <2>2, <3>1, <3>3 DEF TypeOK
    <3>5. ToldTrue'
      <4> SUFFICES ASSUME NEW v \in Updaters
                   PROVE  /\ upc'[v] # "idle" => Handle'
                          /\ upc'[v] = "idle" => answer'[v] = None
                          /\ Kind(v)' = "accepted" =>
                                answer'[v].generation <= Desired' /\ author'[answer'[v].generation] = v
                          /\ Kind(v)' = "seen" =>
                                /\ answer'[v].status \notin {"none", "gone"}
                                /\ answer'[v].status = "over" => Over'
                                /\ answer'[v].desired <= Desired' /\ answer'[v].enforced \in wasInForce'
        BY <2>1 DEF ToldTrue
      <4>1. CASE v # u
        <5>1. answer'[v] = answer[v] /\ Kind(v)' = Kind(v) /\ upc'[v] = upc[v]
          BY <1>1, <2>2, <4>1
        <5>2. Kind(v) = "accepted" => answer[v].generation \in 1 .. Desired
          BY <1>t, Kinds DEF ToldTrue
        <5>3. Kind(v) = "seen" => answer[v].desired <= Desired'
          BY <1>t, <3>1, Kinds DEF ToldTrue
        <5> QED
          BY <1>2, <1>t, <2>1, <3>1, <5>1, <5>2, <5>3 DEF ToldTrue
      <4>2. CASE v = u
        BY <1>1, <1>2, <1>t, <2>1, <3>1, <3>3, <4>2 DEF ToldTrue
      <4> QED
        BY <4>1, <4>2
    <3>6. OnceAccepted'
      <4>1. ASSUME NEW v \in Updaters
            PROVE  /\ upc'[v] = "idle" \/ (upc'[v] = "patch" /\ Kind(v)' # "accepted") =>
                         \A g \in 1 .. Desired' : author'[g] # v
                   /\ \A g, h \in 1 .. Desired' : author'[g] = v /\ author'[h] = v => g = h
        <5>1. CASE v = u
          <6>1. \A g \in 1 .. Desired : author'[g] # u
            BY <2>1, <2>2, <3>1 DEF OnceAccepted
          <6> QED
            BY <1>1, <2>1, <3>1, <3>3, <5>1, <6>1
        <5>2. CASE v # u
          <6>1. \A g \in 1 .. Desired' : author'[g] = v => g \in 1 .. Desired /\ author[g] = v
            BY <3>1, <5>2
          <6> QED
            BY <1>1, <2>2, <5>2, <6>1 DEF OnceAccepted
        <5> QED
          BY <5>1, <5>2
      <4> QED
        BY <4>1 DEF OnceAccepted
    <3>7. SuccessMeansInForce'
      BY <1>1, <2>1 DEF SuccessMeansInForce
    <3> QED
      BY <1>2, <3>4, <3>5, <3>6, <3>7
  <2>4. CASE /\ UNCHANGED author
             /\ UAnswer(u, [kind |-> "pending"]) \/ UAnswer(u, [kind |-> "refused"])
    <3>1. Kind(u)' \in {"pending", "refused"} /\ answer' \in [Updaters -> UAnswers \cup {None}]
      BY <1>t, <2>4 DEF Kind, UAnswers
    <3>2. Desired' = Desired
      BY <2>4 DEF Desired
    <3>3. TypeOK'
      BY <1>1, <1>2, <2>1, <2>2, <2>4, <3>1, <3>2 DEF TypeOK
    <3>4. ToldTrue'
      BY <1>1, <1>2, <2>1, <2>2, <2>4, <3>1, <3>2 DEF ToldTrue
    <3>5. OnceAccepted' /\ SuccessMeansInForce'
      BY <1>1, <2>1, <2>2, <2>4, <3>1, <3>2 DEF OnceAccepted, SuccessMeansInForce
    <3> QED
      BY <1>2, <3>3, <3>4, <3>5
  <2> QED
    BY <1>3, <2>3, <2>4 DEF ServePatch
<1>4. ASSUME NEW u \in Updaters, ServeConfirm(u)
      PROVE  UInv'
  <2>1. upc[u] = "confirm" /\ answer[u] = None /\ UNCHANGED <<author, enforced, wasInForce>>
    BY <1>4 DEF ServeConfirm
  <2>2. Desired' = Desired /\ \A v \in Updaters : v # u => answer'[v] = answer[v] /\ Kind(v)' = Kind(v)
    BY <1>4, <1>t, <2>1 DEF ServeConfirm, Kind, Desired
  <2>3. /\ answer' \in [Updaters -> UAnswers \cup {None}] /\ Kind(u)' \in {"refused", "seen"}
        /\ Kind(u)' = "seen" =>
              /\ answer'[u].status = status /\ status # "gone"
              /\ answer'[u].desired = Desired /\ answer'[u].enforced = enforced
    <3>1. CASE status = "gone"
      BY <1>4, <1>t, <3>1 DEF ServeConfirm, Kind, UAnswers
    <3>2. CASE status # "gone"
      <4>1. status \in Statuses
        BY DEF TypeOK, LifecycleTypeOK
      <4>2. [kind |-> "seen", status |-> status, desired |-> Desired, enforced |-> enforced] \in UAnswers
        BY <1>t, <4>1 DEF UAnswers
      <4>3. answer' = [answer EXCEPT ![u] = [kind |-> "seen", status |-> status,
                                             desired |-> Desired, enforced |-> enforced]]
        BY <1>4, <3>2 DEF ServeConfirm
      <4> QED
        BY <1>t, <3>2, <4>2, <4>3 DEF Kind
    <3> QED
      BY <3>1, <3>2
  <2>4. status # "none"
    BY <2>1 DEF ToldTrue, Handle, LInv, InOrder
  <2>5. TypeOK'
    BY <1>1, <1>2, <2>1, <2>2, <2>3 DEF TypeOK
  <2>6. ToldTrue'
    <3> SUFFICES ASSUME NEW v \in Updaters
                 PROVE  /\ upc'[v] # "idle" => Handle'
                        /\ upc'[v] = "idle" => answer'[v] = None
                        /\ Kind(v)' = "accepted" =>
                              answer'[v].generation <= Desired' /\ author'[answer'[v].generation] = v
                        /\ Kind(v)' = "seen" =>
                              /\ answer'[v].status \notin {"none", "gone"}
                              /\ answer'[v].status = "over" => Over'
                              /\ answer'[v].desired <= Desired' /\ answer'[v].enforced \in wasInForce'
      BY <2>1 DEF ToldTrue
    <3>1. CASE v # u
      BY <1>1, <1>2, <2>1, <2>2, <3>1 DEF ToldTrue
    <3>2. CASE v = u
      BY <1>1, <1>2, <1>t, <2>1, <2>2, <2>3, <2>4, <3>2 DEF ToldTrue, Over
    <3> QED
      BY <3>1, <3>2
  <2>7. OnceAccepted' /\ SuccessMeansInForce'
    BY <1>1, <2>1, <2>2, <2>3 DEF OnceAccepted, SuccessMeansInForce
  <2> QED
    BY <1>2, <2>5, <2>6, <2>7
<1>5. CASE OthersUpdate
  <2>1. /\ author' \in Seq(Updaters \cup {Others})
        /\ Desired' = Desired + 1 /\ Desired' <= MaxGeneration
        /\ \A g \in 1 .. Desired : author'[g] = author[g]
        /\ author'[Desired'] = Others
        /\ \A g \in 1 .. Desired' : g \in 1 .. Desired \/ g = Desired'
    BY <1>5, <1>t, Appending DEF OthersUpdate
  <2>2. UNCHANGED <<enforced, wasInForce, answer>> /\ \A u \in Updaters : Kind(u)' = Kind(u)
    BY <1>5 DEF OthersUpdate, Kind
  <2>3. TypeOK'
    BY <1>1, <1>2, <1>t, <2>1, <2>2 DEF TypeOK
  <2>4. ToldTrue'
    BY <1>1, <1>2, <1>t, <2>1, <2>2, Kinds DEF ToldTrue
  <2>5. OnceAccepted' /\ SuccessMeansInForce'
    <3>1. \A u \in Updaters, g \in 1 .. Desired' :
             author'[g] = u => g \in 1 .. Desired /\ author[g] = u
      BY <2>1
    <3> QED
      BY <1>1, <2>2, <3>1 DEF OnceAccepted, SuccessMeansInForce
  <2> QED
    BY <1>2, <2>3, <2>4, <2>5
<1>6. CASE Enforce
  <2>1. /\ enforced' = Desired /\ wasInForce' = wasInForce \cup {Desired} /\ UNCHANGED <<author, answer>>
        /\ Desired' = Desired /\ \A u \in Updaters : Kind(u)' = Kind(u)
    BY <1>6 DEF Enforce, Desired, Kind
  <2>2. TypeOK'
    <3>1. enforced' \in 0 .. Desired' /\ wasInForce' \subseteq 0 .. Desired'
      <4>1. Desired \in 0 .. Desired /\ wasInForce \cup {Desired} \subseteq 0 .. Desired
        BY <1>t
      <4> QED
        BY <2>1, <4>1
    <3> QED
      BY <1>1, <1>2, <2>1, <3>1 DEF TypeOK
  <2>3. ToldTrue'
    BY <1>1, <1>2, <2>1 DEF ToldTrue
  <2>4. OnceAccepted' /\ SuccessMeansInForce'
    BY <1>1, <2>1 DEF OnceAccepted, SuccessMeansInForce
  <2> QED
    BY <1>2, <2>2, <2>3, <2>4
<1> QED
  BY <1>3, <1>4, <1>5, <1>6 DEF ServiceStep

-----------------------------------------------------------------------------
(* The updates.                                                            *)

\* A call that has ended its request, or waits for another, has no answer.
LEMMA Gone ==
    ASSUME TypeOK, NEW u \in Updaters, NEW await \in {"patch", "confirm", "flush", "done", "raised"},
           UGoto(u, await)
    PROVE  /\ upc' = [upc EXCEPT ![u] = await] /\ upc'[u] = await
           /\ answer'[u] = None /\ Kind(u)' = "none"
           /\ answer' \in [Updaters -> UAnswers \cup {None}]
           /\ upc' \in [Updaters -> {"idle", "patch", "confirm", "flush", "done", "raised"}]
           /\ outage' \in [Updaters -> 0 .. Grace]
           /\ \A v \in Updaters : v # u =>
                 upc'[v] = upc[v] /\ answer'[v] = answer[v] /\ Kind(v)' = Kind(v)
  BY DEF TypeOK, Kind

\* A call goes on; a read that fails is repeated where it is.
UStays(u) ==
    /\ upc[u] = "confirm" /\ UNCHANGED upc
    /\ outage[u] < Grace /\ outage' = [outage EXCEPT ![u] = @ + 1]
    /\ answer' = [answer EXCEPT ![u] = None]
UMoves(u) ==
    /\ UNCHANGED policies
    /\ UNCHANGED lvars \/ Learn(u)
    /\ \/ UNCHANGED generation
       \/ Kind(u) = "accepted" /\ generation' = [generation EXCEPT ![u] = answer[u].generation]
    /\ \/ upc[u] = "idle" /\ Handle /\ UGoto(u, "patch") /\ UNCHANGED generation
       \/ Kind(u) = "pending" /\ UGoto(u, "patch") /\ UNCHANGED generation
       \/ /\ Kind(u) = "accepted" /\ UGoto(u, "confirm")
          /\ generation' = [generation EXCEPT ![u] = answer[u].generation]
       \/ Kind(u) = "seen" /\ UGoto(u, "confirm") /\ UNCHANGED generation
       \/ Kind(u) = "accepted" /\ ~numbered /\ UGoto(u, "flush") /\ UNCHANGED generation
       \/ /\ Kind(u) = "seen" /\ answer[u].enforced = generation[u]
          /\ UGoto(u, "flush") /\ UNCHANGED generation
       \/ upc[u] = "flush" /\ UGoto(u, "done") /\ UNCHANGED generation
       \/ upc[u] # "idle" /\ UGoto(u, "raised") /\ UNCHANGED generation
       \/ UStays(u) /\ UNCHANGED generation

\* Every step of update_network_policy() is one of these.
LEMMA Updating ==
    ASSUME UInv, NEW u \in Updaters, BeginUpdate(u) \/ UProceed(u) \/ UCancel(u)
    PROVE  UMoves(u)
<1>k. Kind(u) # "none" => upc[u] # "idle"
  BY Kinds DEF UInv, ToldTrue
<1>1. CASE BeginUpdate(u)
  BY <1>1 DEF BeginUpdate, UMoves
<1>2. CASE Accepted(u)
  BY <1>2 DEF Accepted, UMoves
<1>3. CASE Pending(u)
  BY <1>3 DEF Pending, UMoves
<1>4. CASE Confirmed(u)
  BY <1>4 DEF Confirmed, Learn, InForce, UMoves
<1>5. CASE Unconfirmed(u)
  BY <1>5, <1>k DEF Unconfirmed, Learn, UMoves
<1>6. CASE Flushed(u)
  BY <1>6 DEF Flushed, UMoves
<1>7. CASE URequestFails(u)
  BY <1>7 DEF URequestFails, UMoves, UStays
<1>8. CASE Refused(u)
  BY <1>8, <1>k DEF Refused, UMoves
<1>9. CASE UCancel(u)
  BY <1>9 DEF UCancel, UMoves
<1> QED
  BY <1>1, <1>2, <1>3, <1>4, <1>5, <1>6, <1>7, <1>8, <1>9 DEF UProceed

\* A step of an update keeps what is known and promised.
LEMMA UpdateKeeps ==
    ASSUME UInv, NEW u \in Updaters, UMoves(u)
    PROVE  UInv'
<1> USE DEF UInv
<1>1. UNCHANGED <<numbered, author, enforced, wasInForce>> /\ Desired' = Desired
  BY DEF UMoves, Desired
<1>2. /\ Kind(u) = "accepted" => answer[u].generation \in 1 .. MaxGeneration /\ upc[u] = "patch"
      /\ Kind(u) \in {"accepted", "pending", "seen"} => upc[u] # "idle"
      /\ Kind(u) = "pending" => upc[u] = "patch"
      /\ Kind(u) = "seen" =>
            /\ upc[u] = "confirm" /\ answer[u].enforced \in wasInForce
            /\ answer[u].status \in Statuses \ {"none", "gone"}
            /\ answer[u].status = "over" => Over
      /\ upc[u] = "confirm" => generation[u] # None
      /\ upc[u] # "idle" => Handle
  BY Kinds DEF TypeOK, ToldTrue
<1>3. LInv' /\ Handle' = Handle /\ Over' = Over /\ LifecycleTypeOK'
  <2>1. CASE UNCHANGED lvars
    <3>1. LInv'
      BY <2>1, LifecycleNext
    <3> QED
      BY <2>1, <3>1 DEF LInv, Handle, Over, lvars, api, call
  <2>2. CASE Learn(u)
    <3>1. LInv'
      BY <1>2, <2>2, Learning DEF Learn
    <3> QED
      BY <2>2, <3>1 DEF Learn, LInv, Handle, Over, api, call
  <2> QED
    BY <2>1, <2>2 DEF UMoves
<1>4. /\ answer'[u] = None /\ Kind(u)' = "none"
      /\ answer' \in [Updaters -> UAnswers \cup {None}]
      /\ upc' \in [Updaters -> {"idle", "patch", "confirm", "flush", "done", "raised"}]
      /\ outage' \in [Updaters -> 0 .. Grace]
      /\ \A v \in Updaters : v # u =>
            upc'[v] = upc[v] /\ answer'[v] = answer[v] /\ Kind(v)' = Kind(v)
  <2>1. CASE UStays(u)
    BY <2>1 DEF UStays, TypeOK, Kind
  <2>2. CASE \E await \in {"patch", "confirm", "flush", "done", "raised"} : UGoto(u, await)
    <3>1. PICK await \in {"patch", "confirm", "flush", "done", "raised"} : UGoto(u, await)
      BY <2>2
    <3>2. TypeOK
      OBVIOUS
    <3> HIDE DEF UInv, UGoto
    <3> QED
      BY <3>1, <3>2, Gone
  <2> QED
    BY <2>1, <2>2 DEF UMoves
<1>5. /\ generation' \in [Updaters -> (1 .. MaxGeneration) \cup {None}]
      /\ \A v \in Updaters : v # u => generation'[v] = generation[v]
  BY <1>2 DEF UMoves, TypeOK
<1>6. /\ upc'[u] # "idle" /\ (upc[u] # "idle" \/ Handle)
      /\ upc'[u] = "confirm" => generation'[u] # None
      /\ upc'[u] = "patch" => upc[u] = "idle" \/ (upc[u] = "patch" /\ Kind(u) = "pending")
      /\ upc'[u] \in {"flush", "done"} /\ numbered => generation'[u] \in wasInForce
  <2>1. ASSUME NEW await \in {"patch", "confirm", "flush", "done", "raised"}, UGoto(u, await)
        PROVE  upc'[u] = await
    BY <2>1 DEF TypeOK
  <2>2. CASE UStays(u) /\ UNCHANGED generation
    BY <1>2, <2>2 DEF UStays
  <2>3. CASE upc[u] = "idle" /\ Handle /\ UGoto(u, "patch")
    BY <2>1, <2>3
  <2>4. CASE Kind(u) = "pending" /\ UGoto(u, "patch")
    BY <1>2, <2>1, <2>4
  <2>5. CASE /\ Kind(u) = "accepted" /\ UGoto(u, "confirm")
             /\ generation' = [generation EXCEPT ![u] = answer[u].generation]
    BY <1>2, <2>1, <2>5 DEF TypeOK
  <2>6. CASE Kind(u) = "seen" /\ UGoto(u, "confirm") /\ UNCHANGED generation
    BY <1>2, <2>1, <2>6
  <2>7. CASE Kind(u) = "accepted" /\ ~numbered /\ UGoto(u, "flush")
    BY <1>2, <2>1, <2>7
  <2>8. CASE /\ Kind(u) = "seen" /\ answer[u].enforced = generation[u]
             /\ UGoto(u, "flush") /\ UNCHANGED generation
    BY <1>2, <2>1, <2>8
  <2>9. CASE upc[u] = "flush" /\ UGoto(u, "done") /\ UNCHANGED generation
    BY <2>1, <2>9 DEF SuccessMeansInForce
  <2>10. CASE upc[u] # "idle" /\ UGoto(u, "raised")
    BY <2>1, <2>10
  <2> QED
    BY <2>2, <2>3, <2>4, <2>5, <2>6, <2>7, <2>8, <2>9, <2>10 DEF UMoves
<1>7. TypeOK'
  BY <1>1, <1>3, <1>4, <1>5, <1>6 DEF TypeOK
<1>8. ToldTrue'
  BY <1>1, <1>2, <1>3, <1>4, <1>6 DEF ToldTrue
<1>9. OnceAccepted'
  <2>1. upc[u] = "idle" \/ (upc[u] = "patch" /\ Kind(u) = "pending") =>
           \A g \in 1 .. Desired : author[g] # u
    BY DEF OnceAccepted
  <2> QED
    BY <1>1, <1>4, <1>6, <2>1 DEF OnceAccepted
<1>10. SuccessMeansInForce'
  BY <1>1, <1>4, <1>5, <1>6 DEF SuccessMeansInForce
<1> QED
  BY <1>3, <1>7, <1>8, <1>9, <1>10

-----------------------------------------------------------------------------
(* Theorems.                                                               *)

\* Nothing was accepted or told at first.
LEMMA PolicyInit == UInit => UInv
<1> SUFFICES ASSUME UInit PROVE UInv
  OBVIOUS
<1>1. LInv /\ LifecycleTypeOK
  BY LifecycleInit DEF UInit, LInv
<1>2. author = <<>> /\ Desired = 0 /\ \A u \in Updaters : Kind(u) = "none"
  BY DEF UInit, Desired, Kind
<1>3. TypeOK
  BY <1>1, <1>2 DEF UInit, TypeOK
<1>4. ToldTrue /\ OnceAccepted /\ SuccessMeansInForce
  BY <1>2 DEF UInit, ToldTrue, OnceAccepted, SuccessMeansInForce
<1> QED
  BY <1>1, <1>3, <1>4 DEF UInv

\* The inductive invariant holds in every reachable state, that of the
\* lifecycle included: updates do not disturb the other calls.
THEOREM PolicyInvariance == Spec => []UInv
<1>1. UInv /\ [Next]_vars => UInv'
  <2> SUFFICES ASSUME UInv, [Next]_vars PROVE UInv'
    OBVIOUS
  <2>1. CASE [LifecycleStep]_lvars /\ UNCHANGED <<policies, updates>>
    BY <2>1, LifecycleKeeps
  <2>2. CASE ServiceStep
    BY <2>2, ServiceKeeps
  <2>3. CASE \E u \in Updaters : BeginUpdate(u) \/ UProceed(u) \/ UCancel(u)
    BY <2>3, Updating, UpdateKeeps
  <2> QED
    BY <2>1, <2>2, <2>3 DEF Next, vars
<1> QED
  BY <1>1, PolicyInit, PTL DEF Spec

\* Every variable keeps its type.
THEOREM PolicyTyped == Spec => []TypeOK
<1>1. UInv => TypeOK
  BY DEF UInv
<1> QED
  BY <1>1, PolicyInvariance, PTL

\* An update that was promised a generation returns only if that one was in
\* force, whoever else updates and however late its reads are.
THEOREM SuccessIsTrue == Spec => []SuccessMeansInForce
<1>1. UInv => SuccessMeansInForce
  BY DEF UInv
<1> QED
  BY <1>1, PolicyInvariance, PTL

\* Whatever answers are lost, the policy of a call is accepted once at most.
THEOREM NoneReplayed == Spec => []NeverReplayed
<1>1. UInv => NeverReplayed
  <2> SUFFICES ASSUME UInv, NEW u \in Updaters
               PROVE  Cardinality({g \in 1 .. Desired : author[g] = u}) <= 1
    BY DEF NeverReplayed
  <2>1. CASE \A g \in 1 .. Desired : author[g] # u
    <3>1. {g \in 1 .. Desired : author[g] = u} = {}
      BY <2>1
    <3> QED
      BY <3>1, FS_EmptySet
  <2>2. CASE \E g \in 1 .. Desired : author[g] = u
    <3>1. PICK g \in 1 .. Desired : author[g] = u
      BY <2>2
    <3>2. {h \in 1 .. Desired : author[h] = u} = {g}
      BY <3>1 DEF UInv, OnceAccepted
    <3>3. Cardinality({g}) = 1
      BY FS_Singleton
    <3>4. Cardinality({h \in 1 .. Desired : author[h] = u}) = 1
      BY <3>2, <3>3
    <3> QED
      BY <3>4
  <2> QED
    BY <2>1, <2>2
<1> QED
  BY <1>1, PolicyInvariance, PTL

\* The guarantees of the other calls hold while policies are updated.
THEOREM LifecycleUndisturbed ==
    Spec => [](NoOrphan /\ ClientKept /\ FallbackWarranted /\ TerminateMeansStopped)
<1>1. LInv => NoOrphan /\ ClientKept /\ FallbackWarranted /\ TerminateMeansStopped
  BY DEF LInv, RolledBack, NoOrphan, LifecycleTypeOK, Live, Over
<1>2. UInv => NoOrphan /\ ClientKept /\ FallbackWarranted /\ TerminateMeansStopped
  BY <1>1 DEF UInv
<1> QED
  BY <1>2, PolicyInvariance, PTL
=============================================================================
