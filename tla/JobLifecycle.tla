---------------------------- MODULE JobLifecycle ----------------------------
(***************************************************************************)
(* What a durable job promises, whatever happens to connections, shells    *)
(* and wrappers: it goes through the states of JobState in the order of    *)
(* can_transition, its command is started once at most and only while the  *)
(* job is starting or running, and it can be removed once it is over.      *)
(* A job that is published again after its removal is outside all this:    *)
(* it may be started by anybody, any number of times.                      *)
(***************************************************************************)

CONSTANT Runners   \* whatever can start the command

TerminalStates == {"succeeded", "failed", "terminated"}
JobStates == {"prepared", "starting", "running"} \cup TerminalStates

\* can_transition: the states a persisted state may advance to.
Following(state) ==
    CASE state = "prepared" -> {"starting", "running"} \cup TerminalStates
      [] state = "starting" -> {"running"} \cup TerminalStates
      [] state = "running"  -> TerminalStates
      [] OTHER              -> {}

VARIABLES
    phase,    \* a JobState, or "absent" before and "removed" after the job,
              \* or "revived" once it was published again
    started   \* the runners that started the command

Init == phase = "absent" /\ started = {}

Create == phase = "absent" /\ phase' = "prepared" /\ UNCHANGED started

Advance ==
    /\ phase \in JobStates
    /\ phase' \in Following(phase)
    /\ UNCHANGED started

Start ==
    /\ phase \in {"starting", "running"}
    /\ started = {}
    /\ \E r \in Runners : started' = {r}
    /\ UNCHANGED phase

Remove ==
    /\ phase \in TerminalStates
    /\ phase' = "removed"
    /\ UNCHANGED started

Revive == phase = "removed" /\ phase' = "revived" /\ UNCHANGED started

Unbound == phase = "revived" /\ UNCHANGED phase /\ started' \subseteq Runners

Next == Create \/ Advance \/ Start \/ Remove \/ Revive \/ Unbound

Spec == Init /\ [][Next]_<<phase, started>>
=============================================================================
