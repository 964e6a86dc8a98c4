--------------------------------- MODULE Poller ---------------------------------
(******************************************************************************)
(* A page component that reads a value again and again: a useEffect that      *)
(* loads on mount and then on every tick of a setInterval, whether or not the *)
(* earlier reads have been answered.  /sistema polls /agents/status this way, *)
(* /votacion the tally.  Answers arrive in any order; the last one is shown.  *)
(******************************************************************************)
EXTENDS Integers, Sequences, SequencesExt

CONSTANT MaxReads   \* bound on reads under way

VARIABLES
    shown,     \* the state set by the last answer: <<>>, or <<value>>
    answers,   \* reads under way, each with the value the server read
    failed     \* the error flag

vars == <<shown, answers, failed>>

\* The component is not mounted, or mounted just now.
Fresh == shown = <<>> /\ answers = <<>> /\ failed = FALSE

\* Bug: the value is loaded on mount only.
LoadOnce(current) ==
    /\ shown = <<>> /\ ~failed
    /\ Len(answers) < MaxReads
    /\ answers' = Append(answers, current)
    /\ UNCHANGED <<shown, failed>>

\* A tick: another read goes out and is answered with the current value.
Load(current) ==
    /\ Len(answers) < MaxReads
    /\ answers' = Append(answers, current)
    /\ UNCHANGED <<shown, failed>>

\* Any of the answers under way arrives.
Arrive(i) ==
    /\ shown' = <<answers[i]>>
    /\ failed' = FALSE
    /\ answers' = RemoveAt(answers, i)

\* A read fails; the page says so, or swallows the error.
Fail(i, told) ==
    /\ failed' = (failed \/ told)
    /\ answers' = RemoveAt(answers, i)
    /\ UNCHANGED shown

\* The cleanup of the effect: the interval is cleared and what still arrives
\* finds no component to change.
Unmount == shown' = <<>> /\ answers' = <<>> /\ failed' = FALSE

================================================================================
