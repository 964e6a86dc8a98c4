----------------------------- MODULE CouncilProofs -----------------------------
(******************************************************************************)
(* Theorems about Council, for every value of its constants: any number of    *)
(* deliberations side by side, any advisors, any cap of the log.              *)
(*                                                                            *)
(* None of the run's invariants is inductive alone.  The count of an          *)
(* advisor's runs is kept by a verdict only because a deliberation that       *)
(* reaches its synthesis has heard all its advisors (Phases); the type of     *)
(* `ended` needs the deliberations still running (Running); an average stays  *)
(* where the confidences lie only once there is a run (Averages).             *)
(******************************************************************************)
EXTENDS Council, FiniteSetTheorems, TLAPS

SlotState == [pc : {"idle", "advisors", "synthesis", "failed"},
              proposal : DOMAIN Votes \cup {"none"}, voice : [Advisor -> MaybeVoice]]

Typed == slot \in [Slot -> SlotState] /\ TypeOK

\* What the phase of a deliberation says about it.
Phases ==
    \A s \in Slot :
        /\ slot[s].pc = "idle" => slot[s].voice = [a \in Advisor |-> Silent]
        /\ slot[s].pc # "idle" => slot[s].proposal \in DOMAIN Votes
        /\ slot[s].pc = "advisors" => \A a \in Advisor : slot[s].voice[a] # Broken
        /\ slot[s].pc = "synthesis" => \A a \in Advisor : Spoke(s, a)

\* The deliberations under way are finitely many, and they and those that ended
\* have all been started.
Underway == {s \in Slot : slot[s].pc # "idle"}

Running ==
    /\ IsFiniteSet(Underway)
    /\ ended + Cardinality(Underway) <= started

Averages ==
    \A a \in Advisor :
        /\ runtime[a].runs = 0 => runtime[a].average = 0
        /\ runtime[a].runs > 0 => runtime[a].average \in 60 .. 80

Inv ==
    /\ Typed
    /\ Phases
    /\ Running
    /\ Averages
    /\ RunsAccountFor
    /\ LogKeepsLatest
    /\ DriftBounded

--------------------------------------------------------------------------------
(* Lemmas about the operators.                                                *)

\* Rounding errs by half a unit at most.
LEMMA RoundedError ==
    ASSUME NEW num \in Nat, NEW den \in Nat \ {0}, NEW q \in Rounded(num, den)
    PROVE  /\ q \in Nat
           /\ 2 * (q * den) - 2 * num <= den
           /\ 2 * num - 2 * (q * den) <= den
<1>1. q \in Nat
  BY DEF Rounded
<1>2. q * den \in Nat
  BY <1>1
<1>3. 2 * (q * den - num) \in -den .. den
  BY DEF Rounded
<1>4. QED
  BY <1>1, <1>2, <1>3

\* A product keeps the order of its first factors.
LEMMA Monotone ==
    ASSUME NEW x \in Nat, NEW y \in Nat, NEW n \in Nat, x <= y
    PROVE  x * n <= y * n
<1>1. PICK d \in Nat : y = x + d
  <2>1. y - x \in Nat /\ y = x + (y - x)
    OBVIOUS
  <2>2. QED
    BY <2>1
<1>2. y * n = x * n + d * n
  BY <1>1
<1>3. d * n \in Nat /\ x * n \in Nat
  OBVIOUS
<1>4. QED
  BY <1>2, <1>3

\* A rounded quotient lies where the quotient lies.
LEMMA RoundedBetween ==
    ASSUME NEW num \in Nat, NEW den \in Nat \ {0}, NEW q \in Rounded(num, den),
           NEW lo \in Nat, NEW hi \in Nat, lo * den <= num, num <= hi * den
    PROVE  q \in lo .. hi
<1>1. /\ q \in Nat
      /\ 2 * (q * den) - 2 * num <= den
      /\ 2 * num - 2 * (q * den) <= den
  BY RoundedError
<1>2. {q * den, lo * den, hi * den} \subseteq Nat
  BY <1>1
<1>3. ASSUME q < lo
      PROVE  FALSE
  <2>1. (q + 1) * den <= lo * den
    BY <1>1, <1>3, Monotone
  <2>2. (q + 1) * den = q * den + den
    BY <1>1
  <2>3. QED
    BY <1>1, <1>2, <2>1, <2>2
<1>4. ASSUME hi < q
      PROVE  FALSE
  <2>1. (hi + 1) * den <= q * den
    BY <1>1, <1>4, Monotone
  <2>2. (hi + 1) * den = hi * den + den
    OBVIOUS
  <2>3. QED
    BY <1>1, <1>2, <2>1, <2>2
<1>5. QED
  BY <1>1, <1>3, <1>4

\* What an advisor says is neither silence nor a failure, and its confidence in
\* tenths is one of three.
LEMMA VoiceSpeaks ==
    ASSUME NEW p \in DOMAIN Votes, NEW v \in Voice(p)
    PROVE  /\ v \in MaybeVoice
           /\ v \notin {Silent, Broken}
           /\ v.provider \in Answers
<1>1. PosturaFromNumbers(p) \subseteq Postura
  BY DEF PosturaFromNumbers, Postura
<1>2. v \in [postura : Postura, provider : Answers]
  BY <1>1 DEF Voice, Answers
<1>3. QED
  BY <1>2, CouncilAssumption DEF MaybeVoice, Silent, Broken, Postura, Answers, Providers

LEMMA ConfidenceRange ==
    ASSUME NEW p \in Answers
    PROVE  Confidence(p) \in 6 .. 8
  BY DEF Confidence

\* Who has spoken is under way.
LEMMA SpeakersAreUnderway ==
    ASSUME Typed, Phases, Running, NEW a \in Advisor
    PROVE  /\ {s \in Slot : Spoke(s, a)} \subseteq Underway
           /\ IsFiniteSet({s \in Slot : Spoke(s, a)})
           /\ Cardinality({s \in Slot : Spoke(s, a)}) \in Nat
<1>1. {s \in Slot : Spoke(s, a)} \subseteq Underway
  BY DEF Phases, Spoke, Underway
<1>2. QED
  BY <1>1, FS_Subset, FS_CardinalityType DEF Running

--------------------------------------------------------------------------------
(* The statistics.                                                            *)

\* A run added to the statistics of an advisor keeps type, average and drift.
LEMMA TrackKeeps ==
    ASSUME Typed, Averages, DriftBounded, NEW a \in Advisor, NEW v \in MaybeVoice,
           v.provider \in Answers, Track(a, v)
    PROVE  /\ runtime' \in [Advisor -> [runs : Nat, average : {0} \cup 60 .. 80,
                                        last : MaybeVoice]]
           /\ \A b \in Advisor :
                runtime'[b].runs = IF b = a THEN runtime[b].runs + 1 ELSE runtime[b].runs
           /\ total' \in [Advisor -> Nat]
           /\ Averages'
           /\ DriftBounded'
<1> DEFINE n == runtime[a].runs
           old == runtime[a].average
           conf == 10 * Confidence(v.provider)
<1>1. /\ n \in Nat
      /\ old \in {0} \cup 60 .. 80
      /\ total \in [Advisor -> Nat]
      /\ runtime \in [Advisor -> [runs : Nat, average : {0} \cup 60 .. 80, last : MaybeVoice]]
  BY DEF Typed, TypeOK
<1>2. conf \in 60 .. 80
  BY ConfidenceRange
<1>3. PICK average \in Rounded(old * n + conf, n + 1) :
             /\ runtime' = [runtime EXCEPT ![a] = [runs |-> n + 1, average |-> average,
                                                   last |-> v]]
             /\ total' = [total EXCEPT ![a] = total[a] + conf]
  BY DEF Track
<1> HIDE DEF n, old, conf
<1>4. old * n \in Nat /\ n + 1 \in Nat \ {0} /\ old * n + conf \in Nat
  BY <1>1, <1>2
<1>5. average \in 60 .. 80
  <2>1. 60 * n <= old * n /\ old * n <= 80 * n
    <3>1. CASE n = 0
      BY <3>1, <1>1
    <3>2. CASE n > 0
      <4>1. old \in 60 .. 80
        BY <3>2 DEF Averages, n, old
      <4>2. QED
        BY <4>1, <1>1, Monotone
    <3>3. QED
      BY <3>1, <3>2, <1>1
  <2>2. 60 * (n + 1) <= old * n + conf /\ old * n + conf <= 80 * (n + 1)
    BY <2>1, <1>1, <1>2, <1>4
  <2>3. QED
    BY <2>2, <1>3, <1>4, RoundedBetween
<1>6. /\ runtime'[a] = [runs |-> n + 1, average |-> average, last |-> v]
      /\ total'[a] = total[a] + conf
      /\ \A b \in Advisor : b # a => runtime'[b] = runtime[b] /\ total'[b] = total[b]
  BY <1>1, <1>3
<1>7. runtime' \in [Advisor -> [runs : Nat, average : {0} \cup 60 .. 80, last : MaybeVoice]]
  BY <1>1, <1>3, <1>5
<1>8. total' \in [Advisor -> Nat]
  BY <1>1, <1>2, <1>3
<1>9. \A b \in Advisor :
        runtime'[b].runs = IF b = a THEN runtime[b].runs + 1 ELSE runtime[b].runs
  BY <1>6 DEF n
<1>10. Averages'
  BY <1>1, <1>5, <1>6 DEF Averages
<1>11. DriftBounded'
  <2>1. ASSUME NEW b \in Advisor, b # a
        PROVE  LET m == runtime'[b].runs
                   drift == m * runtime'[b].average - total'[b]
               IN  4 * drift <= m * (m + 1) /\ -4 * drift <= m * (m + 1)
    BY <2>1, <1>6 DEF DriftBounded
  <2>2. LET drift == (n + 1) * average - (total[a] + conf)
        IN  4 * drift <= (n + 1) * (n + 2) /\ -4 * drift <= (n + 1) * (n + 2)
    <3>1. PICK p : p = n * old
      OBVIOUS
    <3>2. PICK q : q = average * (n + 1)
      OBVIOUS
    <3>3. PICK r : r = n * (n + 1)
      OBVIOUS
    <3>4. p \in Nat /\ q \in Nat /\ r \in Nat /\ total[a] \in Nat
      BY <1>1, <1>5, <3>1, <3>2, <3>3
    <3>5. 4 * (p - total[a]) <= r /\ -4 * (p - total[a]) <= r
      BY <3>1, <3>3 DEF DriftBounded, n, old
    <3>6. 2 * q - 2 * (p + conf) <= n + 1 /\ 2 * (p + conf) - 2 * q <= n + 1
      <4>1. old * n = p
        BY <1>1, <3>1
      <4>2. QED
        BY <1>3, <1>4, <4>1, <3>2, RoundedError
    <3>7. (n + 1) * (n + 2) = r + 2 * (n + 1) /\ (n + 1) * average = q
      BY <1>1, <1>5, <3>2, <3>3
    <3>8. QED
      BY <1>1, <1>2, <3>4, <3>5, <3>6, <3>7
  <2>3. QED
    <3>1. runtime'[a].runs = n + 1 /\ runtime'[a].average = average
      BY <1>6
    <3>2. n + 1 + 1 = n + 2
      BY <1>1
    <3>3. QED
      BY <2>1, <2>2, <3>1, <3>2, <1>6 DEF DriftBounded
<1>12. QED
  BY <1>7, <1>8, <1>9, <1>10, <1>11

--------------------------------------------------------------------------------
(* The single steps.                                                          *)

\* A deliberation whose phase and voices do not matter to the counts.
LEMMA SlotChange ==
    ASSUME Typed, NEW s \in Slot, NEW x \in SlotState, slot' = [slot EXCEPT ![s] = x]
    PROVE  /\ slot' \in [Slot -> SlotState]
           /\ slot'[s] = x
           /\ \A r \in Slot : r # s => slot'[r] = slot[r]
  BY DEF Typed

\* A deliberation begins with all its advisors silent.
LEMMA BeginKeeps ==
    ASSUME Inv, NEW s \in Slot, NEW p \in DOMAIN Votes, Begin(s, p)
    PROVE  Inv'
<1> USE DEF Inv
<1>a. PICK x : x = [slot[s] EXCEPT !.pc = "advisors", !.proposal = p]
  OBVIOUS
<1>1. /\ slot[s].pc = "idle"
      /\ slot[s] \in SlotState
      /\ started < MaxRuns
      /\ started' = started + 1
      /\ UNCHANGED <<runtime, log, ended, astray, total>>
  BY DEF Begin, Typed
<1>2. slot' = [slot EXCEPT ![s] = x]
  BY <1>a, Zenon DEF Begin
<1>3. /\ x \in SlotState
      /\ x.pc = "advisors"
      /\ x.proposal = p
      /\ x.voice = [a \in Advisor |-> Silent]
  BY <1>a, <1>1 DEF SlotState, Phases
<1>4. /\ slot' \in [Slot -> SlotState]
      /\ slot'[s] = x
      /\ \A r \in Slot : r # s => slot'[r] = slot[r]
  BY <1>2, <1>3, SlotChange
<1>5. Typed'
  <2>1. TypeOK'
    BY <1>1, <1>4, CouncilAssumption DEF Typed, TypeOK, SlotState
  <2>2. QED
    BY <2>1, <1>4 DEF Typed
<1>6. Phases'
  <2>1. Silent # Broken
    BY DEF Silent, Broken
  <2>2. QED
    BY <1>3, <1>4, <2>1 DEF Phases, Spoke
<1>7. Running'
  <2>1. Underway' = Underway \cup {s} /\ s \notin Underway
    BY <1>1, <1>3, <1>4 DEF Underway
  <2>2. /\ IsFiniteSet(Underway')
        /\ Cardinality(Underway') = Cardinality(Underway) + 1
    BY <2>1, FS_AddElement DEF Running
  <2>3. Cardinality(Underway) \in Nat
    BY FS_CardinalityType DEF Running
  <2>4. QED
    BY <1>1, <2>2, <2>3 DEF Running, Typed, TypeOK
<1>8. RunsAccountFor'
  <2>1. ASSUME NEW a \in Advisor
        PROVE  {r \in Slot : Spoke(r, a)}' = {r \in Slot : Spoke(r, a)}
    BY <1>1, <1>3, <1>4 DEF Phases, Spoke
  <2>2. QED
    BY <1>1, <2>1 DEF RunsAccountFor
<1>9. Averages' /\ LogKeepsLatest' /\ DriftBounded'
  BY <1>1 DEF Averages, LogKeepsLatest, DriftBounded
<1>10. QED
  BY <1>5, <1>6, <1>7, <1>8, <1>9

\* Only the voice of one advisor changes, and it was silent.
Voiced(s, a, v, x) ==
    /\ v # Silent
    /\ slot[s].pc \in {"advisors", "failed"} /\ slot[s].voice[a] = Silent
    /\ slot' = [slot EXCEPT ![s] = x]
    /\ x.pc \in {"advisors", "failed"} /\ x.proposal = slot[s].proposal
    /\ x.pc = "advisors" => slot[s].pc = "advisors" /\ v # Broken
    /\ x.voice = [slot[s].voice EXCEPT ![a] = v]
    /\ UNCHANGED <<ended, started>>

\* The records stay what they must be, and the voice counts unless it is broken.
Counted(s, a, v) ==
    /\ slot' \in [Slot -> SlotState]
    /\ Phases'
    /\ Running'
    /\ \A b \in Advisor :
         {r \in Slot : Spoke(r, b)}' =
           IF b = a /\ v # Broken THEN {r \in Slot : Spoke(r, b)} \cup {s}
                                  ELSE {r \in Slot : Spoke(r, b)}

LEMMA VoiceKeeps ==
    ASSUME Inv, NEW s \in Slot, NEW a \in Advisor, NEW v \in MaybeVoice, NEW x \in SlotState,
           Voiced(s, a, v, x)
    PROVE  Counted(s, a, v)
<1> USE DEF Inv, Voiced
<1>1. slot[s] \in SlotState /\ Silent # Broken
  BY DEF Typed, Silent, Broken
<1>2. /\ x.voice[a] = v
      /\ \A b \in Advisor : b # a => x.voice[b] = slot[s].voice[b]
  BY <1>1 DEF SlotState
<1>3. /\ slot' \in [Slot -> SlotState]
      /\ slot'[s] = x
      /\ \A r \in Slot : r # s => slot'[r] = slot[r]
  BY SlotChange
<1>4. Phases'
  <2>1. ASSUME NEW r \in Slot, r # s
        PROVE  /\ slot'[r].pc = "idle" => slot'[r].voice = [b \in Advisor |-> Silent]
               /\ slot'[r].pc # "idle" => slot'[r].proposal \in DOMAIN Votes
               /\ slot'[r].pc = "advisors" => \A b \in Advisor : slot'[r].voice[b] # Broken
               /\ slot'[r].pc = "synthesis" => \A b \in Advisor : Spoke(r, b)'
    BY <2>1, <1>3 DEF Phases, Spoke
  <2>2. slot'[s].proposal \in DOMAIN Votes
    BY <1>3 DEF Phases
  <2>3. x.pc = "advisors" => \A b \in Advisor : x.voice[b] # Broken
    BY <1>2 DEF Phases
  <2>4. QED
    BY <2>1, <2>2, <2>3, <1>3 DEF Phases
<1>5. Running'
  <2>1. Underway' = Underway
    BY <1>3 DEF Underway
  <2>2. QED
    BY <2>1 DEF Running
<1>6. ASSUME NEW b \in Advisor
      PROVE  {r \in Slot : Spoke(r, b)}' =
               IF b = a /\ v # Broken THEN {r \in Slot : Spoke(r, b)} \cup {s}
                                      ELSE {r \in Slot : Spoke(r, b)}
  BY <1>1, <1>2, <1>3 DEF Spoke
<1>7. QED
  BY <1>3, <1>4, <1>5, <1>6 DEF Counted

LEMMA SpeakKeeps ==
    ASSUME Inv, NEW s \in Slot, NEW a \in Advisor, Speak(s, a)
    PROVE  Inv'
<1>0. /\ Typed /\ Phases /\ Running /\ Averages
      /\ RunsAccountFor /\ LogKeepsLatest /\ DriftBounded
  BY DEF Inv
<1>1. /\ slot[s].pc \in {"advisors", "failed"}
      /\ slot[s].voice[a] = Silent
      /\ slot[s].proposal \in DOMAIN Votes
      /\ UNCHANGED <<log, started, ended, astray>>
      /\ slot[s] \in SlotState
  BY <1>0 DEF Speak, Phases, Typed
<1>2. PICK v \in Voice(slot[s].proposal) :
             /\ slot' = [slot EXCEPT ![s].voice[a] = v]
             /\ Track(a, v)
  BY Zenon DEF Speak
<1>3. /\ v \in MaybeVoice
      /\ v \notin {Silent, Broken}
      /\ v.provider \in Answers
  BY <1>1, VoiceSpeaks
<1>4. PICK voice : voice = [slot[s].voice EXCEPT ![a] = v]
  OBVIOUS
<1>5. PICK x : x = [slot[s] EXCEPT !.voice = voice]
  OBVIOUS
<1>6. slot' = [slot EXCEPT ![s] = x]
  BY <1>2, <1>4, <1>5, Zenon
<1>7. /\ x \in SlotState
      /\ x.pc = slot[s].pc
      /\ x.proposal = slot[s].proposal
      /\ x.voice = voice
  BY <1>1, <1>3, <1>4, <1>5 DEF SlotState
<1>8. /\ slot' \in [Slot -> SlotState]
      /\ Phases'
      /\ Running'
      /\ \A b \in Advisor :
           {r \in Slot : Spoke(r, b)}' =
             IF b = a THEN {r \in Slot : Spoke(r, b)} \cup {s}
                      ELSE {r \in Slot : Spoke(r, b)}
  <2>1. Voiced(s, a, v, x)
    BY <1>1, <1>3, <1>4, <1>6, <1>7 DEF Voiced
  <2>2. Counted(s, a, v)
    <3>1. x \in SlotState /\ v \in MaybeVoice
      BY <1>3, <1>7
    <3>2. QED
      BY <2>1, <3>1, VoiceKeeps, Zenon
  <2>3. QED
    BY <1>3, <2>2, Zenon DEF Counted
<1>9. /\ runtime' \in [Advisor -> [runs : Nat, average : {0} \cup 60 .. 80,
                                   last : MaybeVoice]]
      /\ \A b \in Advisor :
           runtime'[b].runs = IF b = a THEN runtime[b].runs + 1 ELSE runtime[b].runs
      /\ total' \in [Advisor -> Nat]
      /\ Averages'
      /\ DriftBounded'
  BY <1>0, <1>2, <1>3, TrackKeeps
<1>10. Typed'
  <2>1. /\ log \in Seq(LogEntry)
        /\ Len(log) <= LogCap
        /\ started \in 0 .. MaxRuns
        /\ ended \in 0 .. started
        /\ astray \in [Advisor -> Nat]
    BY <1>0 DEF Typed, TypeOK
  <2>2. {astray', total'} \subseteq [Advisor -> Nat]
    BY <1>1, <1>9, <2>1
  <2>3. TypeOK'
    BY <1>1, <1>8, <1>9, <2>1, <2>2 DEF TypeOK, SlotState
  <2>4. QED
    BY <1>8, <2>3 DEF Typed
<1>11. RunsAccountFor'
  <2>1. ASSUME NEW b \in Advisor
        PROVE  runtime'[b].runs = ended + astray[b] + Cardinality({r \in Slot : Spoke(r, b)}')
    <3>1. runtime[b].runs = ended + astray[b] + Cardinality({r \in Slot : Spoke(r, b)})
      BY <1>0 DEF RunsAccountFor
    <3>2. CASE b = a
      <4>1. s \notin {r \in Slot : Spoke(r, b)}
        BY <1>1, <3>2 DEF Spoke
      <4>2. Cardinality({r \in Slot : Spoke(r, b)} \cup {s})
              = Cardinality({r \in Slot : Spoke(r, b)}) + 1
        BY <1>0, <4>1, SpeakersAreUnderway, FS_AddElement
      <4>3. ended \in Nat /\ astray[b] \in Nat
        <5>1. astray \in [Advisor -> Nat] /\ started \in Nat /\ ended \in 0 .. started
          BY <1>0, CouncilAssumption DEF Typed, TypeOK
        <5>2. QED
          BY <5>1
      <4>4. Cardinality({r \in Slot : Spoke(r, b)}) \in Nat
        BY <1>0, SpeakersAreUnderway
      <4>5. {r \in Slot : Spoke(r, b)}' = {r \in Slot : Spoke(r, b)} \cup {s}
        BY <1>8, <3>2
      <4>6. runtime'[b].runs = runtime[b].runs + 1
        BY <1>9, <3>2
      <4>7. Cardinality({r \in Slot : Spoke(r, b)}') = Cardinality({r \in Slot : Spoke(r, b)}) + 1
        BY <4>2, <4>5
      <4>8. QED
        BY <3>1, <4>3, <4>4, <4>6, <4>7
    <3>3. CASE b # a
      BY <1>8, <1>9, <3>1, <3>3
    <3>4. QED
      BY <3>2, <3>3
  <2>2. QED
    BY <2>1, <1>1 DEF RunsAccountFor
<1>12. LogKeepsLatest'
  BY <1>0, <1>1 DEF LogKeepsLatest
<1>13. QED
  BY <1>8, <1>9, <1>10, <1>11, <1>12 DEF Inv

LEMMA RaiseKeeps ==
    ASSUME Inv, NEW s \in Slot, NEW a \in Advisor, Raise(s, a)
    PROVE  Inv'
<1>0. /\ Typed /\ Phases /\ Running /\ Averages
      /\ RunsAccountFor /\ LogKeepsLatest /\ DriftBounded
  BY DEF Inv
<1>1. /\ slot[s].pc \in {"advisors", "failed"}
      /\ slot[s].voice[a] = Silent
      /\ UNCHANGED <<runtime, log, started, ended, astray, total>>
      /\ slot[s] \in SlotState
  BY <1>0 DEF Raise, Typed
<1>2. Broken \in MaybeVoice /\ Broken # Silent
  BY DEF Broken, Silent, MaybeVoice
<1>3. PICK voice : voice = [slot[s].voice EXCEPT ![a] = Broken]
  OBVIOUS
<1>4. PICK x : x = [slot[s] EXCEPT !.pc = "failed", !.voice = voice]
  OBVIOUS
<1>5. slot' = [slot EXCEPT ![s] = x]
  BY <1>3, <1>4, Zenon DEF Raise
<1>6. /\ x \in SlotState
      /\ x.pc = "failed"
      /\ x.proposal = slot[s].proposal
      /\ x.voice = voice
  BY <1>1, <1>2, <1>3, <1>4 DEF SlotState
<1>7. /\ slot' \in [Slot -> SlotState]
      /\ Phases'
      /\ Running'
      /\ \A b \in Advisor :
           {r \in Slot : Spoke(r, b)}' = {r \in Slot : Spoke(r, b)}
  <2>1. Voiced(s, a, Broken, x)
    BY <1>1, <1>2, <1>3, <1>5, <1>6 DEF Voiced
  <2>2. Counted(s, a, Broken)
    BY <1>2, <1>6, <2>1, VoiceKeeps, Zenon
  <2>3. QED
    BY <2>2, Zenon DEF Counted
<1>8. Typed'
  BY <1>0, <1>1, <1>7 DEF Typed, TypeOK, SlotState
<1>9. RunsAccountFor'
  BY <1>0, <1>1, <1>7 DEF RunsAccountFor
<1>10. Averages' /\ LogKeepsLatest' /\ DriftBounded'
  BY <1>0, <1>1 DEF Averages, LogKeepsLatest, DriftBounded
<1>11. QED
  BY <1>7, <1>8, <1>9, <1>10 DEF Inv

LEMMA GatherKeeps ==
    ASSUME Inv, NEW s \in Slot, Gather(s)
    PROVE  Inv'
<1> USE DEF Inv
<1>a. PICK x : x = [slot[s] EXCEPT !.pc = "synthesis"]
  OBVIOUS
<1>1. /\ slot[s].pc = "advisors"
      /\ slot[s] \in SlotState
      /\ \A a \in Advisor : slot[s].voice[a] \notin {Silent, Broken}
      /\ UNCHANGED <<runtime, log, started, ended, astray, total>>
  BY DEF Gather, Typed, Phases
<1>2. slot' = [slot EXCEPT ![s] = x]
  BY <1>a, Zenon DEF Gather
<1>3. /\ x \in SlotState
      /\ x.pc = "synthesis"
      /\ x.proposal = slot[s].proposal
      /\ x.voice = slot[s].voice
  BY <1>a, <1>1 DEF SlotState
<1>4. /\ slot' \in [Slot -> SlotState]
      /\ slot'[s] = x
      /\ \A r \in Slot : r # s => slot'[r] = slot[r]
  BY <1>2, <1>3, SlotChange
<1>5. Typed'
  <2>1. TypeOK'
    BY <1>1, <1>4 DEF Typed, TypeOK, SlotState
  <2>2. QED
    BY <2>1, <1>4 DEF Typed
<1>6. Phases'
  BY <1>1, <1>3, <1>4 DEF Phases, Spoke
<1>7. Running'
  <2>1. Underway' = Underway
    BY <1>1, <1>3, <1>4 DEF Underway
  <2>2. QED
    BY <1>1, <2>1 DEF Running
<1>8. RunsAccountFor'
  <2>1. ASSUME NEW a \in Advisor
        PROVE  {r \in Slot : Spoke(r, a)}' = {r \in Slot : Spoke(r, a)}
    BY <1>3, <1>4 DEF Spoke
  <2>2. QED
    BY <1>1, <2>1 DEF RunsAccountFor
<1>9. Averages' /\ LogKeepsLatest' /\ DriftBounded'
  BY <1>1 DEF Averages, LogKeepsLatest, DriftBounded
<1>10. QED
  BY <1>5, <1>6, <1>7, <1>8, <1>9

\* A deliberation that ends leaves its slot and is no longer among the speakers.
LEMMA EndKeeps ==
    ASSUME Inv, NEW s \in Slot, slot[s].pc # "idle", slot' = [slot EXCEPT ![s] = Idle],
           started' = started, ended' \in {ended, ended + 1}
    PROVE  /\ slot' \in [Slot -> SlotState]
           /\ Phases'
           /\ Running'
           /\ ended' \in 0 .. started
           /\ \A b \in Advisor :
                Cardinality({r \in Slot : Spoke(r, b)}') =
                  IF Spoke(s, b) THEN Cardinality({r \in Slot : Spoke(r, b)}) - 1
                                 ELSE Cardinality({r \in Slot : Spoke(r, b)})
<1>1. Typed /\ Phases /\ Running
  BY DEF Inv
<1>2. Idle \in SlotState /\ Idle.pc = "idle" /\ \A b \in Advisor : Idle.voice[b] = Silent
  BY DEF Idle, SlotState, MaybeVoice, Silent
<1>3. /\ slot' \in [Slot -> SlotState]
      /\ slot'[s] = Idle
      /\ \A r \in Slot : r # s => slot'[r] = slot[r]
  BY <1>1, <1>2, SlotChange
<1>4. Phases'
  <2>1. ASSUME NEW r \in Slot, r # s
        PROVE  /\ slot'[r].pc = "idle" => slot'[r].voice = [b \in Advisor |-> Silent]
               /\ slot'[r].pc # "idle" => slot'[r].proposal \in DOMAIN Votes
               /\ slot'[r].pc = "advisors" => \A b \in Advisor : slot'[r].voice[b] # Broken
               /\ slot'[r].pc = "synthesis" => \A b \in Advisor : Spoke(r, b)'
    BY <1>1, <1>3, <2>1 DEF Phases, Spoke
  <2>2. slot'[s].pc = "idle" /\ slot'[s].voice = [b \in Advisor |-> Silent]
    BY <1>3 DEF Idle
  <2>3. QED
    BY <2>1, <2>2 DEF Phases
<1>5. Running' /\ ended' \in 0 .. started
  <2>1. Underway' = Underway \ {s} /\ s \in Underway
    BY <1>2, <1>3 DEF Underway
  <2>2. /\ IsFiniteSet(Underway')
        /\ Cardinality(Underway') = Cardinality(Underway) - 1
    BY <1>1, <2>1, FS_RemoveElement DEF Running
  <2>3. Cardinality(Underway) \in Nat /\ Cardinality(Underway') \in Nat
    BY <1>1, <2>2, FS_CardinalityType DEF Running
  <2>4. ended \in Nat /\ started \in Nat /\ ended + Cardinality(Underway) <= started
    <3>1. started \in 0 .. MaxRuns /\ ended \in 0 .. started
      BY <1>1 DEF Typed, TypeOK
    <3>2. QED
      BY <1>1, <3>1, CouncilAssumption DEF Running
  <2>5. ended' + Cardinality(Underway') <= started /\ ended' \in 0 .. started
    BY <2>2, <2>3, <2>4
  <2>6. QED
    BY <2>2, <2>5 DEF Running
<1>6. ASSUME NEW b \in Advisor
      PROVE  Cardinality({r \in Slot : Spoke(r, b)}') =
               IF Spoke(s, b) THEN Cardinality({r \in Slot : Spoke(r, b)}) - 1
                              ELSE Cardinality({r \in Slot : Spoke(r, b)})
  <2>1. {r \in Slot : Spoke(r, b)}' = {r \in Slot : Spoke(r, b)} \ {s}
    BY <1>2, <1>3 DEF Spoke
  <2>2. IsFiniteSet({r \in Slot : Spoke(r, b)})
    BY <1>1, SpeakersAreUnderway
  <2>3. CASE Spoke(s, b)
    <3>1. s \in {r \in Slot : Spoke(r, b)}
      BY <2>3
    <3>2. QED
      BY <2>1, <2>2, <2>3, <3>1, FS_RemoveElement
  <2>4. CASE ~Spoke(s, b)
    <3>1. {r \in Slot : Spoke(r, b)} \ {s} = {r \in Slot : Spoke(r, b)}
      BY <2>4
    <3>2. QED
      BY <2>1, <2>4, <3>1
  <2>5. QED
    BY <2>3, <2>4
<1>7. QED
  BY <1>3, <1>4, <1>5, <1>6

LEMMA VanishKeeps ==
    ASSUME Inv, NEW s \in Slot, Vanish(s)
    PROVE  Inv'
<1>0. /\ Typed /\ Phases /\ Running /\ Averages
      /\ RunsAccountFor /\ LogKeepsLatest /\ DriftBounded
  BY DEF Inv
<1>1. /\ slot[s].pc # "idle"
      /\ slot' = [slot EXCEPT ![s] = Idle]
      /\ astray' = [b \in Advisor |-> IF Spoke(s, b) THEN astray[b] + 1 ELSE astray[b]]
      /\ UNCHANGED <<runtime, log, started, ended, total>>
  BY DEF Vanish
<1>2. /\ slot' \in [Slot -> SlotState]
      /\ Phases'
      /\ Running'
      /\ \A b \in Advisor :
           Cardinality({r \in Slot : Spoke(r, b)}') =
             IF Spoke(s, b) THEN Cardinality({r \in Slot : Spoke(r, b)}) - 1
                            ELSE Cardinality({r \in Slot : Spoke(r, b)})
  BY <1>1, EndKeeps
<1>3. astray \in [Advisor -> Nat] /\ started \in Nat /\ ended \in Nat
  <2>1. astray \in [Advisor -> Nat] /\ started \in 0 .. MaxRuns /\ ended \in 0 .. started
    BY <1>0 DEF Typed, TypeOK
  <2>2. QED
    BY <2>1, CouncilAssumption
<1>4. astray' \in [Advisor -> Nat]
  BY <1>1, <1>3
<1>5. Typed'
  <2>1. {astray', total'} \subseteq [Advisor -> Nat]
    BY <1>0, <1>1, <1>4 DEF Typed, TypeOK
  <2>2. /\ runtime \in [Advisor -> [runs : Nat, average : {0} \cup 60 .. 80, last : MaybeVoice]]
        /\ log \in Seq(LogEntry) /\ Len(log) <= LogCap
        /\ started \in 0 .. MaxRuns /\ ended \in 0 .. started
    BY <1>0 DEF Typed, TypeOK
  <2>3. QED
    BY <1>1, <1>2, <2>1, <2>2 DEF Typed, TypeOK, SlotState
<1>6. RunsAccountFor'
  <2>1. ASSUME NEW b \in Advisor
        PROVE  runtime'[b].runs = ended' + astray'[b] + Cardinality({r \in Slot : Spoke(r, b)}')
    <3>1. runtime[b].runs = ended + astray[b] + Cardinality({r \in Slot : Spoke(r, b)})
      BY <1>0 DEF RunsAccountFor
    <3>2. Cardinality({r \in Slot : Spoke(r, b)}) \in Nat /\ astray[b] \in Nat
      BY <1>0, <1>3, SpeakersAreUnderway
    <3>3. astray'[b] = IF Spoke(s, b) THEN astray[b] + 1 ELSE astray[b]
      BY <1>1
    <3>4. Cardinality({r \in Slot : Spoke(r, b)}') =
             IF Spoke(s, b) THEN Cardinality({r \in Slot : Spoke(r, b)}) - 1
                            ELSE Cardinality({r \in Slot : Spoke(r, b)})
      BY <1>2
    <3>5. runtime'[b] = runtime[b] /\ ended' = ended
      BY <1>1
    <3>6. QED
      BY <1>3, <3>1, <3>2, <3>3, <3>4, <3>5
  <2>2. QED
    BY <2>1 DEF RunsAccountFor
<1>7. Averages' /\ LogKeepsLatest' /\ DriftBounded'
  BY <1>0, <1>1 DEF Averages, LogKeepsLatest, DriftBounded
<1>8. QED
  BY <1>2, <1>5, <1>6, <1>7 DEF Inv

--------------------------------------------------------------------------------
(* The verdict and the log.                                                   *)

\* The entry of a deliberation in its synthesis has the type of the log's.
LEMMA EntryType ==
    ASSUME Typed, Phases, NEW s \in Slot, slot[s].pc = "synthesis", NEW provider \in Answers
    PROVE  Entry(s, provider) \in LogEntry /\ Entry(s, provider).number = ended + 1
<1>1. slot[s].proposal \in DOMAIN Votes
  BY DEF Phases
<1>2. ended \in Nat
  <2>1. started \in 0 .. MaxRuns /\ ended \in 0 .. started
    BY DEF Typed, TypeOK
  <2>2. QED
    BY <2>1, CouncilAssumption
<1>3. PICK level : level = Divergence(slot[s].voice)
  OBVIOUS
<1>4. level \in Level /\ Penalty(level) \in 0 .. 2
  <2>1. level \in Level
    BY <1>3 DEF Divergence, Level
  <2>2. QED
    BY <2>1 DEF Level, Penalty
<1>5. PICK conf : conf = Confidence(provider) - Penalty(level)
  OBVIOUS
<1>6. conf \in 4 .. 8
  BY <1>4, <1>5, ConfidenceRange
<1>7. Entry(s, provider) = [number |-> ended + 1, proposal |-> slot[s].proposal,
                            divergence |-> level, confidence |-> conf]
  BY <1>3, <1>5, <1>6 DEF Entry
<1>8. QED
  BY <1>1, <1>2, <1>4, <1>6, <1>7 DEF LogEntry

\* The log after a verdict: the entry, then the log as it was, cut at the cap.
LEMMA RecordKeeps ==
    ASSUME Typed, LogKeepsLatest, NEW entry \in LogEntry, entry.number = ended + 1,
           Record(entry), ended' = ended + 1
    PROVE  /\ log' \in Seq(LogEntry)
           /\ Len(log') <= LogCap
           /\ LogKeepsLatest'
<1>1. /\ log \in Seq(LogEntry) /\ Len(log) <= LogCap /\ Len(log) \in Nat
      /\ ended \in Nat /\ LogCap \in Nat \ {0}
  <2>1. /\ log \in Seq(LogEntry) /\ Len(log) <= LogCap
        /\ started \in 0 .. MaxRuns /\ ended \in 0 .. started
    BY DEF Typed, TypeOK
  <2>2. QED
    BY <2>1, CouncilAssumption
<1>2. PICK m : m = IF Len(log) < LogCap THEN Len(log) + 1 ELSE LogCap
  OBVIOUS
<1>3. PICK longer : longer = <<entry>> \o log
  OBVIOUS
<1>4. /\ longer \in Seq(LogEntry)
      /\ Len(longer) = Len(log) + 1
      /\ longer[1] = entry
      /\ \A i \in 1 .. Len(log) : longer[i + 1] = log[i]
  BY <1>1, <1>3
<1>5. m \in 1 .. Len(log) + 1 /\ m <= LogCap
  BY <1>1, <1>2
<1>6. log' = SubSeq(longer, 1, m)
  BY <1>2, <1>3 DEF Record
<1>7. /\ log' \in Seq(LogEntry)
      /\ Len(log') = m
      /\ \A i \in 1 .. m : log'[i] = longer[i]
  BY <1>1, <1>4, <1>5, <1>6
<1>8. ASSUME NEW i \in 1 .. m
      PROVE  log'[i].number = ended' + 1 - i
  <2>1. CASE i = 1
    BY <1>1, <1>4, <1>7, <2>1
  <2>2. CASE i > 1
    <3>1. i - 1 \in 1 .. Len(log) /\ i - 1 \in DOMAIN log
      BY <1>1, <1>5, <2>2
    <3>2. log'[i] = log[i - 1]
      <4>1. longer[(i - 1) + 1] = log[i - 1] /\ (i - 1) + 1 = i
        BY <1>4, <3>1
      <4>2. QED
        BY <4>1, <1>7
    <3>3. log[i - 1].number = ended + 1 - (i - 1)
      BY <3>1 DEF LogKeepsLatest
    <3>4. QED
      BY <1>1, <3>2, <3>3
  <2>3. QED
    BY <2>1, <2>2
<1>9. Len(log') = IF ended' < LogCap THEN ended' ELSE LogCap
  <2>1. Len(log) = IF ended < LogCap THEN ended ELSE LogCap
    BY DEF LogKeepsLatest
  <2>2. QED
    BY <1>1, <1>2, <1>7, <2>1
<1>10. DOMAIN log' = 1 .. m
  BY <1>5, <1>7
<1>11. QED
  BY <1>5, <1>7, <1>8, <1>9, <1>10 DEF LogKeepsLatest

LEMMA SynthesizeKeeps ==
    ASSUME Inv, NEW s \in Slot, Synthesize(s)
    PROVE  Inv'
<1>0. /\ Typed /\ Phases /\ Running /\ Averages
      /\ RunsAccountFor /\ LogKeepsLatest /\ DriftBounded
  BY DEF Inv
<1>1. /\ slot[s].pc = "synthesis"
      /\ slot' = [slot EXCEPT ![s] = Idle]
      /\ ended' = ended + 1
      /\ UNCHANGED <<runtime, started, astray, total>>
  BY DEF Synthesize
<1>2. PICK provider \in Answers : Record(Entry(s, provider))
  BY DEF Synthesize
<1>3. /\ log' \in Seq(LogEntry)
      /\ Len(log') <= LogCap
      /\ LogKeepsLatest'
  BY <1>0, <1>1, <1>2, EntryType, RecordKeeps
<1>4. /\ slot' \in [Slot -> SlotState]
      /\ Phases'
      /\ Running'
      /\ ended' \in 0 .. started
      /\ \A b \in Advisor :
           Cardinality({r \in Slot : Spoke(r, b)}') =
             IF Spoke(s, b) THEN Cardinality({r \in Slot : Spoke(r, b)}) - 1
                            ELSE Cardinality({r \in Slot : Spoke(r, b)})
  BY <1>1, EndKeeps
<1>5. Typed'
  <2>1. /\ {astray, total} \subseteq [Advisor -> Nat]
        /\ runtime \in [Advisor -> [runs : Nat, average : {0} \cup 60 .. 80, last : MaybeVoice]]
        /\ started \in 0 .. MaxRuns
    BY <1>0 DEF Typed, TypeOK
  <2>2. QED
    BY <1>1, <1>3, <1>4, <2>1 DEF Typed, TypeOK, SlotState
<1>6. RunsAccountFor'
  <2>1. ASSUME NEW b \in Advisor
        PROVE  runtime'[b].runs = ended' + astray'[b] + Cardinality({r \in Slot : Spoke(r, b)}')
    <3>1. runtime[b].runs = ended + astray[b] + Cardinality({r \in Slot : Spoke(r, b)})
      BY <1>0 DEF RunsAccountFor
    <3>2. Cardinality({r \in Slot : Spoke(r, b)}) \in Nat
      BY <1>0, SpeakersAreUnderway
    <3>3. astray[b] \in Nat /\ ended \in Nat
      <4>1. astray \in [Advisor -> Nat] /\ started \in 0 .. MaxRuns /\ ended \in 0 .. started
        BY <1>0 DEF Typed, TypeOK
      <4>2. QED
        BY <4>1, CouncilAssumption
    <3>4. Spoke(s, b)
      BY <1>0, <1>1 DEF Phases
    <3>5. Cardinality({r \in Slot : Spoke(r, b)}')
            = Cardinality({r \in Slot : Spoke(r, b)}) - 1
      BY <1>4, <3>4
    <3>6. runtime'[b] = runtime[b] /\ astray'[b] = astray[b]
      BY <1>1
    <3>7. QED
      BY <1>1, <3>1, <3>2, <3>3, <3>5, <3>6
  <2>2. QED
    BY <2>1 DEF RunsAccountFor
<1>7. Averages' /\ DriftBounded'
  BY <1>0, <1>1 DEF Averages, DriftBounded
<1>8. QED
  BY <1>3, <1>4, <1>5, <1>6, <1>7 DEF Inv

--------------------------------------------------------------------------------
(* The invariant.                                                             *)

\* A process that has just come up, however many deliberations were started in
\* the ones before it.
Fresh ==
    /\ slot = [s \in Slot |-> Idle]
    /\ runtime = [a \in Advisor |-> [runs |-> 0, average |-> 0, last |-> Silent]]
    /\ log = <<>>
    /\ started \in 0 .. MaxRuns
    /\ ended = 0
    /\ astray = NoRuns
    /\ total = NoRuns

LEMMA FreshProcess == Fresh => Inv
<1> SUFFICES ASSUME Fresh
             PROVE  Inv
  OBVIOUS
<1> USE DEF Fresh
<1>1. /\ Idle \in SlotState /\ Idle.pc = "idle"
      /\ Idle.voice = [a \in Advisor |-> Silent]
      /\ \A a \in Advisor : Idle.voice[a] = Silent
      /\ Silent \in MaybeVoice
  BY DEF Idle, SlotState, MaybeVoice, Silent
<1>2. \A s \in Slot : slot[s] = Idle
  OBVIOUS
<1>3. NoRuns \in [Advisor -> Nat] /\ \A a \in Advisor : NoRuns[a] = 0
  BY DEF NoRuns
<1>4. \A a \in Advisor : runtime[a].runs = 0 /\ runtime[a].average = 0
  OBVIOUS
<1>5. Typed
  <2>1. {astray, total} \subseteq [Advisor -> Nat]
    BY <1>3
  <2>2. runtime \in [Advisor -> [runs : Nat, average : {0} \cup 60 .. 80, last : MaybeVoice]]
    BY <1>1
  <2>3. log \in Seq(LogEntry) /\ Len(log) <= LogCap /\ ended \in 0 .. started
    BY CouncilAssumption
  <2>4. slot \in [Slot -> SlotState]
    BY <1>1
  <2>5. QED
    BY <2>1, <2>2, <2>3, <2>4 DEF Typed, TypeOK, SlotState
<1>6. Phases
  BY <1>1, <1>2 DEF Phases
<1>7. Running
  <2>1. Underway = {}
    BY <1>1, <1>2 DEF Underway
  <2>2. QED
    BY <2>1, FS_EmptySet, CouncilAssumption DEF Running
<1>8. RunsAccountFor
  <2>1. ASSUME NEW a \in Advisor
        PROVE  {s \in Slot : Spoke(s, a)} = {}
    BY <1>1, <1>2 DEF Spoke
  <2>2. ASSUME NEW a \in Advisor
        PROVE  runtime[a].runs = ended + astray[a] + Cardinality({s \in Slot : Spoke(s, a)})
    <3>1. Cardinality({s \in Slot : Spoke(s, a)}) = 0
      BY <2>1, FS_EmptySet
    <3>2. QED
      BY <1>3, <1>4, <3>1
  <2>3. QED
    BY <2>2 DEF RunsAccountFor
<1>9. Averages /\ LogKeepsLatest
  BY <1>4, CouncilAssumption DEF Averages, LogKeepsLatest
<1>10. DriftBounded
  BY <1>3, <1>4 DEF DriftBounded
<1>11. QED
  BY <1>5, <1>6, <1>7, <1>8, <1>9, <1>10 DEF Inv

LEMMA RestartKeeps ==
    ASSUME Inv, Restart
    PROVE  Inv'
<1>1. started \in 0 .. MaxRuns
  BY DEF Inv, Typed, TypeOK
<1>2. Fresh'
  BY <1>1 DEF Restart, Fresh
<1>3. Fresh' => Inv'
  BY FreshProcess, PTL
<1>4. QED
  BY <1>2, <1>3

LEMMA InvHolds == Spec => []Inv
<1>1. Init => Inv
  BY FreshProcess, CouncilAssumption DEF Init, Fresh
<1>2. Inv /\ [Next]_vars => Inv'
  <2>1. SUFFICES ASSUME Inv, [Next]_vars
                 PROVE  Inv'
    OBVIOUS
  <2>2. ASSUME NEW s \in Slot, Deliberation(s)
        PROVE  Inv'
    <3>1. CASE \E p \in DOMAIN Votes : Begin(s, p)
      BY <2>1, <3>1, BeginKeeps
    <3>2. CASE \E a \in Advisor : Speak(s, a)
      BY <2>1, <3>2, SpeakKeeps
    <3>3. CASE \E a \in Advisor : Raise(s, a)
      BY <2>1, <3>3, RaiseKeeps
    <3>4. CASE Gather(s)
      BY <2>1, <3>4, GatherKeeps
    <3>5. CASE Vanish(s)
      BY <2>1, <3>5, VanishKeeps
    <3>6. CASE Synthesize(s)
      BY <2>1, <3>6, SynthesizeKeeps
    <3>7. QED
      BY <2>2, <3>1, <3>2, <3>3, <3>4, <3>5, <3>6 DEF Deliberation
  <2>3. CASE Restart
    BY <2>1, <2>3, RestartKeeps
  <2>4. CASE UNCHANGED vars
    BY <2>1, <2>4 DEF vars, Inv, Typed, TypeOK, Phases, Running, Underway, Averages,
                      RunsAccountFor, LogKeepsLatest, DriftBounded, Spoke
  <2>5. QED
    BY <2>1, <2>2, <2>3, <2>4 DEF Next
<1>3. QED
  BY <1>1, <1>2, PTL DEF Spec

\* Every variable has its type: the log never exceeds its cap, an average never
\* leaves the range of its confidences, and no more deliberations end than began.
THEOREM TypeCorrect == Spec => []TypeOK
<1>1. Inv => TypeOK
  BY DEF Inv, Typed
<1>2. QED
  BY <1>1, InvHolds, PTL

\* An advisor has run once for every verdict, for every deliberation in which it
\* has spoken and which is still under way, and for every one that raised.
THEOREM RunsAreAccountedFor == Spec => []RunsAccountFor
<1>1. Inv => RunsAccountFor
  BY DEF Inv
<1>2. QED
  BY <1>1, InvHolds, PTL

\* The log holds the latest verdicts, the newest first.
THEOREM LogIsTheLatest == Spec => []LogKeepsLatest
<1>1. Inv => LogKeepsLatest
  BY DEF Inv
<1>2. QED
  BY <1>1, InvHolds, PTL

\* After n runs, n times the average that is shown differs from the sum of the
\* confidences by n * (n + 1) / 4 at most.
THEOREM DriftIsBounded == Spec => []DriftBounded
<1>1. Inv => DriftBounded
  BY DEF Inv
<1>2. QED
  BY <1>1, InvHolds, PTL

================================================================================
