----------------------------- MODULE StepBudget -----------------------------
(***************************************************************************)
(* StepBudgetController (runtime.py): how many tool calls a code agent     *)
(* gets.  A soft limit is extended while the agent makes progress, a hard  *)
(* limit is never passed, and repeating one call is cut short.  record     *)
(* raises to stop the agent; nothing in it keeps a caller (the agent       *)
(* framework, or the thread that outlives a task timeout) from calling     *)
(* again, so the controller goes on answering after a refusal.             *)
(***************************************************************************)
EXTENDS Integers, Sequences, FiniteSets

CONSTANTS Action,     \* tool calls, told apart by the fingerprint of tool and arguments
          Progress,   \* writes of a file, and shell commands that test or diff
          Limits      \* step configurations that resolve_agent_config can produce

ASSUME LimitsOK ==
    /\ Progress \subseteq Action
    /\ \A l \in Limits :
          /\ l.soft \in Nat \ {0} /\ l.hard \in Nat \ {0}
          /\ l.extension \in Nat \ {0} /\ l.threshold \in Nat \ {0, 1}

VARIABLES limits,     \* the task's snapshot: soft, hard, extension, threshold
          current,    \* current_limit
          history,    \* the recorded calls: fingerprints, and progress through Progress
          answer      \* what the last call of record did

budgetVars == <<limits, current, history, answer>>

Steps == Len(history)
Answer == {"recorded", "loop", "hard", "soft"}

\* Type correctness.
BudgetTypeOK ==
    /\ limits \in Limits
    /\ current \in Nat
    /\ history \in Seq(Action)
    /\ answer \in Answer

\* soft may exceed hard: the schema compares them only when both are given.
BudgetInit ==
    /\ limits \in Limits
    /\ current = limits.soft
    /\ history = <<>>
    /\ answer = "recorded"

\* Mutant of Repeats: one repetition more is let through.
RepeatsOnceMore(action) ==
    /\ Steps >= limits.threshold
    /\ \A i \in 1..Steps : i > Steps - limits.threshold => history[i] = action

\* The call repeats the last threshold - 1 recorded ones.
Repeats(action) ==
    /\ Steps >= limits.threshold - 1
    /\ \A i \in 1..Steps : i > Steps - (limits.threshold - 1) => history[i] = action

\* Of the five calls up to the b-th, one made progress or three differ.
Recent(b) == {i \in 1..Steps : b - 5 < i /\ i <= b}
Progressing(b) ==
    \/ \E i \in Recent(b) : history[i] \in Progress
    \/ Cardinality({history[i] : i \in Recent(b)}) >= 3

\* Mutant of Extended: one extension gives everything.
ExtendedToHard == limits.hard

Extended == IF current + limits.extension < limits.hard
            THEN current + limits.extension ELSE limits.hard

Refuse(reason) ==
    /\ answer' = reason
    /\ UNCHANGED <<limits, current, history>>

\* AgentLoopDetected comes before any limit.
StopLoop(action) == Repeats(action) /\ Refuse("loop")

StopHard(action) ==
    /\ ~Repeats(action)
    /\ Steps + 1 > limits.hard
    /\ Refuse("hard")

\* Mutant of StopSoft: the soft limit stops a progressing agent too.
StopSoftAlways(action) ==
    /\ ~Repeats(action)
    /\ Steps + 1 <= limits.hard /\ Steps + 1 > current
    /\ Refuse("soft")

StopSoft(action) ==
    /\ ~Repeats(action)
    /\ Steps + 1 <= limits.hard /\ Steps + 1 > current
    /\ ~(Progressing(Steps) /\ current < limits.hard)
    /\ Refuse("soft")

\* The call is recorded, on an extended limit if it needs one and earned it.
Record(action) ==
    /\ ~Repeats(action)
    /\ Steps + 1 <= limits.hard
    /\ \/ Steps + 1 <= current /\ UNCHANGED current
       \/ /\ Steps + 1 > current
          /\ Progressing(Steps) /\ current < limits.hard
          /\ current' = Extended
    /\ history' = Append(history, action)
    /\ answer' = "recorded"
    /\ UNCHANGED limits

BudgetNext == \E action \in Action :
            \/ StopLoop(action) \/ StopHard(action)
            \/ StopSoft(action) \/ Record(action)

BudgetSpec == BudgetInit /\ [][BudgetNext]_budgetVars

-----------------------------------------------------------------------------
\* The hard limit bounds the calls, whatever the soft limit, the extensions
\* and the calls made after a refusal.
HardLimitHolds == Steps <= limits.hard

\* No call was recorded threshold times in a row.
NoLoopRecorded ==
    \A i \in 1..Steps : i + limits.threshold - 1 <= Steps =>
        \E j \in i..(i + limits.threshold - 1) : history[j] # history[i]

\* Every call beyond the soft limit was earned: at most one extension before
\* it, at or after the soft limit, the agent was progressing.
ExtraStepsAreEarned ==
    \A k \in 1..Steps : k > limits.soft =>
        \E b \in limits.soft..(k - 1) :
            k - b <= limits.extension /\ Progressing(b)

\* An agent is stopped for lack of progress only when it makes none, and for
\* the hard limit only when it has used all of it.
StopsAreJustified ==
    /\ answer = "soft" => Steps < limits.hard /\ ~Progressing(Steps)
    /\ answer = "hard" => Steps = limits.hard

-----------------------------------------------------------------------------
\* The limit in force covers the calls, and was earned where it was extended.
LimitIsEarned ==
    /\ Steps <= current
    /\ current >= limits.soft
    /\ current > limits.soft =>
          \E b \in limits.soft..Steps :
              current - b <= limits.extension /\ Progressing(b)

\* The inductive invariant.
BudgetInv ==
    /\ BudgetTypeOK /\ LimitIsEarned
    /\ HardLimitHolds /\ NoLoopRecorded /\ ExtraStepsAreEarned /\ StopsAreJustified

=============================================================================
