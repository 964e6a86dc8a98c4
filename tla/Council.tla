--------------------------------- MODULE Council ---------------------------------
(******************************************************************************)
(* The council of Hermes (council.py): deliberations running side by side in  *)
(* one event loop, each with all advisors at once, and the two records they   *)
(* share, the statistics of each advisor and the log of past deliberations,   *)
(* from which /agents/status is answered.                                     *)
(*                                                                            *)
(* Between two awaits of the LLM a handler runs undisturbed: an advisor's     *)
(* answer and its statistics are one step, so are the verdict and its entry   *)
(* in the log.  When one advisor raises, gather answers at once and the other *)
(* advisors go on alone.  Averages are in tenths, the one decimal of the code.*)
(******************************************************************************)
EXTENDS Integers, Sequences, FiniteSets, SequencesExt

CONSTANTS
    Slot,         \* deliberations that can run at the same time
    Advisor,      \* ADVISORS
    Votes,        \* proposal -> its yes and no
    Configured,   \* providers of the LLM with a key
    LogCap,       \* 50: the entries COUNCIL_LOG keeps
    MaxRuns       \* bound on deliberations

Providers == {"gemini", "anthropic", "openrouter"}

ASSUME CouncilAssumption ==
    /\ Advisor # {} /\ IsFiniteSet(Advisor)
    /\ \A p \in DOMAIN Votes : Votes[p] \in [yes : Nat, no : Nat]
    /\ Configured \subseteq Providers
    /\ LogCap \in Nat \ {0}
    /\ MaxRuns \in Nat

VARIABLES
    slot,       \* the deliberations under way
    runtime,    \* AGENT_RUNTIME
    log,        \* COUNCIL_LOG, the newest first
    started,    \* how many deliberations were started
    ended,      \* history: how many reached their verdict
    astray,     \* history: each advisor's runs in deliberations that raised
    total       \* history: the sum of each advisor's confidences

vars == <<slot, runtime, log, started, ended, astray, total>>

Postura == {"A_FAVOR", "EN_CONTRA", "CAUTELA"}
Level == {"baja", "media", "alta"}

Silent == [postura |-> "none", provider |-> "none"]
Broken == [postura |-> "none", provider |-> "raised"]

Idle == [pc |-> "idle", proposal |-> "none", voice |-> [a \in Advisor |-> Silent]]

NoRuns == [a \in Advisor |-> 0]

Init ==
    /\ slot = [s \in Slot |-> Idle]
    /\ runtime = [a \in Advisor |-> [runs |-> 0, average |-> 0, last |-> Silent]]
    /\ log = <<>>
    /\ started = 0
    /\ ended = 0
    /\ astray = NoRuns
    /\ total = NoRuns

--------------------------------------------------------------------------------
(* One call of the LLM. *)

\* LLMClient.complete asks the configured providers in turn until one answers;
\* with none left the caller falls back on its own "simulado" text.
Answers == Configured \cup {"simulado"}

Confidence(provider) ==
    CASE provider = "simulado" -> 6
      [] provider = "openrouter" -> 7
      [] OTHER -> 8

\* _postura_from_numbers.  no * 1.15 is a float: at the boundary it lies on either
\* side (100 * 1.15 below 115, 20 * 1.15 not below 23).
PosturaFromNumbers(p) ==
    LET margin == 100 * Votes[p].yes - 115 * Votes[p].no
    IN  IF margin = 0 /\ Votes[p].no > 0 THEN {"A_FAVOR", "CAUTELA"}
        ELSE IF margin > 0 THEN {"A_FAVOR"}
        ELSE IF Votes[p].no >= Votes[p].yes THEN {"EN_CONTRA"} ELSE {"CAUTELA"}

\* What an advisor can say: a provider's text ends in any postura, or in none and
\* the numbers decide; the simulated one follows the numbers.
Voice(p) ==
    [postura : Postura, provider : Configured]
        \cup [postura : PosturaFromNumbers(p), provider : {"simulado"}]

\* Of openrouter the content is taken as it comes; when it is null, what is done
\* with the text raises, outside the fallbacks.
MayRaise == "openrouter" \in Configured

--------------------------------------------------------------------------------
(* deliberate. *)

Begin(s, p) ==
    /\ slot[s].pc = "idle"
    /\ started < MaxRuns
    /\ started' = started + 1
    /\ slot' = [slot EXCEPT ![s].pc = "advisors", ![s].proposal = p]
    /\ UNCHANGED <<runtime, log, ended, astray, total>>

\* round(num / den, 0) in tenths; of a tie, which Python decides by the binary
\* digits of the quotient, either neighbour.
Rounded(num, den) ==
    {q \in {num \div den, num \div den + 1} : 2 * (q * den - num) \in -den .. den}

\* Bug: the weight of the past includes the run being added.
TrackOffByOne(a, voice) ==
    LET st == runtime[a]
        conf == 10 * Confidence(voice.provider)
    IN  \E average \in Rounded(st.average * (st.runs + 1) + conf, st.runs + 2) :
          /\ runtime' = [runtime EXCEPT
               ![a] = [runs |-> st.runs + 1, average |-> average, last |-> voice]]
          /\ total' = [total EXCEPT ![a] = @ + conf]

\* Bug: a simulated answer is not a run.
TrackRealOnly(a, voice) ==
    LET st == runtime[a]
        conf == 10 * Confidence(voice.provider)
    IN  \E average \in Rounded(st.average * st.runs + conf, st.runs + 1) :
          /\ runtime' = [runtime EXCEPT
               ![a] = [runs |-> IF voice.provider = "simulado" THEN st.runs ELSE st.runs + 1,
                       average |-> average, last |-> voice]]
          /\ total' = [total EXCEPT ![a] = @ + conf]

\* _track: the running average is computed from its last rounded value.
Track(a, voice) ==
    LET st == runtime[a]
        conf == 10 * Confidence(voice.provider)
    IN  \E average \in Rounded(st.average * st.runs + conf, st.runs + 1) :
          /\ runtime' = [runtime EXCEPT
               ![a] = [runs |-> st.runs + 1, average |-> average, last |-> voice]]
          /\ total' = [total EXCEPT ![a] = @ + conf]

\* The LLM answers an advisor; its coroutine runs to its end, also when another
\* advisor of the deliberation has raised.
Speak(s, a) ==
    /\ slot[s].pc \in {"advisors", "failed"}
    /\ slot[s].voice[a] = Silent
    /\ \E voice \in Voice(slot[s].proposal) :
         /\ slot' = [slot EXCEPT ![s].voice[a] = voice]
         /\ Track(a, voice)
    /\ UNCHANGED <<log, started, ended, astray>>

\* An advisor raises before its _track; gather raises: 500.
Raise(s, a) ==
    /\ slot[s].pc \in {"advisors", "failed"}
    /\ slot[s].voice[a] = Silent
    /\ MayRaise
    /\ slot' = [slot EXCEPT ![s].pc = "failed", ![s].voice[a] = Broken]
    /\ UNCHANGED <<runtime, log, started, ended, astray, total>>

\* Bug: the synthesis is asked for when the first advisor has spoken.
GatherFirst(s) ==
    /\ slot[s].pc = "advisors"
    /\ \E a \in Advisor : slot[s].voice[a] # Silent
    /\ slot' = [slot EXCEPT ![s].pc = "synthesis"]
    /\ UNCHANGED <<runtime, log, started, ended, astray, total>>

\* gather returns: the synthesis is asked for.
Gather(s) ==
    /\ slot[s].pc = "advisors"
    /\ \A a \in Advisor : slot[s].voice[a] # Silent
    /\ slot' = [slot EXCEPT ![s].pc = "synthesis"]
    /\ UNCHANGED <<runtime, log, started, ended, astray, total>>

Spoke(s, a) == slot[s].voice[a] \notin {Silent, Broken}

\* A deliberation without a verdict: an advisor raised and the others have ended,
\* or the synthesis raises.  Its advisors' statistics stay.
Vanish(s) ==
    /\ \/ slot[s].pc = "failed" /\ \A a \in Advisor : slot[s].voice[a] # Silent
       \/ slot[s].pc = "synthesis" /\ MayRaise
    /\ slot' = [slot EXCEPT ![s] = Idle]
    /\ astray' = [a \in Advisor |-> IF Spoke(s, a) THEN astray[a] + 1 ELSE astray[a]]
    /\ UNCHANGED <<runtime, log, started, ended, total>>

Divergence(voices) ==
    LET posturas == {voices[a].postura : a \in Advisor}
    IN  CASE Cardinality(posturas) = 1 -> "baja"
          [] Cardinality(posturas) = 2 -> "media"
          [] OTHER -> "alta"

Penalty(level) == CASE level = "baja" -> 0 [] level = "media" -> 1 [] level = "alta" -> 2

\* The entry of a deliberation whose verdict came from a provider.  number stands
\* for its time stamp.
Entry(s, provider) ==
    LET level == Divergence(slot[s].voice)
        conf == Confidence(provider) - Penalty(level)
    IN  [number |-> ended + 1, proposal |-> slot[s].proposal, divergence |-> level,
         confidence |-> IF conf < 1 THEN 1 ELSE conf]

\* Bug: the new entry goes to the end of the log.
RecordAtEnd(entry) ==
    log' = SubSeq(Append(log, entry), 1, IF Len(log) < LogCap THEN Len(log) + 1 ELSE LogCap)

\* Bug: the log is never cut.
RecordUncut(entry) == log' = <<entry>> \o log

\* COUNCIL_LOG.insert(0, entry); del COUNCIL_LOG[50:]
Record(entry) ==
    log' = SubSeq(<<entry>> \o log, 1, IF Len(log) < LogCap THEN Len(log) + 1 ELSE LogCap)

\* The synthesis answers: the verdict enters the log and the request is answered.
Synthesize(s) ==
    /\ slot[s].pc = "synthesis"
    /\ \E provider \in Answers : Record(Entry(s, provider))
    /\ slot' = [slot EXCEPT ![s] = Idle]
    /\ ended' = ended + 1
    /\ UNCHANGED <<runtime, started, astray, total>>

Deliberation(s) ==
    \/ \E p \in DOMAIN Votes : Begin(s, p)
    \/ \E a \in Advisor : Speak(s, a) \/ Raise(s, a)
    \/ Gather(s)
    \/ Vanish(s)
    \/ Synthesize(s)

\* The process of Hermes dies and comes back: all of this is in its memory.
Restart ==
    /\ slot' = [s \in Slot |-> Idle]
    /\ runtime' = [a \in Advisor |-> [runs |-> 0, average |-> 0, last |-> Silent]]
    /\ log' = <<>>
    /\ ended' = 0
    /\ astray' = NoRuns
    /\ total' = NoRuns
    /\ UNCHANGED started

Next == (\E s \in Slot : Deliberation(s)) \/ Restart

Spec == Init /\ [][Next]_vars

--------------------------------------------------------------------------------
(* Properties. *)

MaybeVoice == [postura : Postura \cup {"none"}, provider : Answers \cup {"none", "raised"}]

LogEntry == [number : Nat, proposal : DOMAIN Votes, divergence : Level, confidence : 4 .. 8]

\* Every variable has its type; the log has at most LogCap entries, and an average
\* lies where its confidences lie.
TypeOK ==
    /\ \A s \in Slot :
         /\ slot[s].pc \in {"idle", "advisors", "synthesis", "failed"}
         /\ slot[s].proposal \in DOMAIN Votes \cup {"none"}
         /\ slot[s].voice \in [Advisor -> MaybeVoice]
    /\ runtime \in [Advisor -> [runs : Nat, average : {0} \cup 60 .. 80, last : MaybeVoice]]
    /\ log \in Seq(LogEntry)
    /\ Len(log) <= LogCap
    /\ started \in 0 .. MaxRuns
    /\ ended \in 0 .. started
    /\ {astray, total} \subseteq [Advisor -> Nat]

\* The swarm and the log that one answer of /agents/status shows tell the same
\* story at every interleaving and after every failure: an advisor has run once
\* for every verdict, for every deliberation under way in which it has spoken,
\* and for every one that raised although it had spoken.
RunsAccountFor ==
    \A a \in Advisor :
        runtime[a].runs = ended + astray[a] + Cardinality({s \in Slot : Spoke(s, a)})

\* COUNCIL_LOG is the latest verdicts, the newest first, however the deliberations
\* overlap and whichever raise.
LogKeepsLatest ==
    /\ \A i \in DOMAIN log : log[i].number = ended + 1 - i
    /\ Len(log) = IF ended < LogCap THEN ended ELSE LogCap

\* How far the rounded running average has drifted from the mean: rounding adds
\* at most half a tenth at each run, weighted by the runs it stands for.
DriftBounded ==
    \A a \in Advisor :
        LET n == runtime[a].runs
            drift == n * runtime[a].average - total[a]
        IN  4 * drift <= n * (n + 1) /\ -4 * drift <= n * (n + 1)

================================================================================
