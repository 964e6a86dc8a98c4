---------------------------------- MODULE Pages ----------------------------------
(******************************************************************************)
(* A visitor's browser tab on the pages /hermes, /sistema, /toxica and        *)
(* /votacion, against the services they read: Hermes (restarts included) and  *)
(* the AnonymousVote contract, both also used by everybody else.              *)
(*                                                                            *)
(* The tab shows one page at a time.  Leaving a page unmounts its component:  *)
(* its state is gone, and answers that arrive later change nothing.           *)
(******************************************************************************)
EXTENDS Integers, Sequences, FiniteSets

CONSTANTS
    Nullifier, NoHash,   \* as in AnonymousVote
    MaxReads,            \* bound on reads under way
    MaxMessages,         \* bound on the messages of the console
    MaxAnalyses,         \* bound on analyses of one visit to /toxica
    MaxCouncils,         \* bound on the councils Hermes remembers
    MaxRestarts          \* bound on restarts of Hermes

ASSUME PagesAssumption ==
    /\ NoHash \notin Nullifier
    /\ {MaxReads, MaxMessages, MaxAnalyses, MaxCouncils, MaxRestarts} \subseteq Nat

VARIABLES
    page,                     \* the page the tab shows
    councils, restarts,       \* Hermes: councils_run of /agents/status, restarts so far
    nullifierUsed, tally, votesCast,   \* AnonymousVote
    messages, loading, asked, online, proposals,   \* /hermes
    status, statusReads, err,                      \* /sistema
    report, analyzing, published, failure, analyses, approved,   \* /toxica
    shownTally, tallyReads, tallyFailed            \* /votacion

ProposalId == {1}

Contract == INSTANCE AnonymousVote
Status == INSTANCE Poller WITH shown <- status, answers <- statusReads, failed <- err
Live == INSTANCE Poller WITH shown <- shownTally, answers <- tallyReads,
                             failed <- tallyFailed

contractVars == <<nullifierUsed, tally, votesCast>>
serviceVars == <<councils, restarts, contractVars>>
consoleVars == <<messages, loading, asked, online, proposals>>
statusVars == <<status, statusReads, err>>
toxicaVars == <<report, analyzing, published, failure, analyses, approved>>
tallyVars == <<shownTally, tallyReads, tallyFailed>>
vars == <<page, serviceVars, consoleVars, statusVars, toxicaVars, tallyVars>>

Page == {"home", "hermes", "sistema", "toxica", "votacion"}

\* A message of the console, with the number of the question it belongs to.
Greeting == [role |-> "system", of |-> 0]

\* The request of the console under way: none, or question and kind, and where it is.
NotAsked == [of |-> 0, kind |-> "none", at |-> "idle"]

\* What /toxica displays: nothing, a draft, or the error body of a refused request,
\* which the page takes for a draft too (r.ok is not looked at).
NoReport == [kind |-> "none", of |-> 0]

ConsoleFresh ==
    /\ messages = <<Greeting>> /\ loading = FALSE /\ asked = NotAsked
    /\ online = "unknown" /\ proposals = "unknown"

ToxicaFresh ==
    /\ report = NoReport /\ analyzing = "no" /\ published = FALSE /\ failure = FALSE
    /\ analyses = 0 /\ approved = 0

Init ==
    /\ page = "home"
    /\ councils = 0 /\ restarts = 0
    /\ Contract!Init
    /\ ConsoleFresh
    /\ Status!Fresh
    /\ ToxicaFresh
    /\ Live!Fresh

--------------------------------------------------------------------------------
(* Navigation.                                                                *)

\* A link of the home page, of a header or of the browser: the page shown is
\* unmounted, the next one starts afresh.
Go(p) ==
    /\ page # p
    /\ page' = p
    /\ messages' = <<Greeting>> /\ loading' = FALSE /\ asked' = NotAsked
    /\ online' = "unknown" /\ proposals' = "unknown"
    /\ Status!Unmount
    /\ report' = NoReport /\ analyzing' = "no" /\ published' = FALSE /\ failure' = FALSE
    /\ analyses' = 0 /\ approved' = 0
    /\ Live!Unmount
    /\ UNCHANGED serviceVars

--------------------------------------------------------------------------------
(* The services, as everybody else uses them.                                 *)

\* Somebody's deliberation ends (also one whose asker has left the console).
OtherCouncil ==
    /\ councils < MaxCouncils
    /\ councils' = councils + 1
    /\ UNCHANGED <<page, restarts, contractVars, consoleVars, statusVars, toxicaVars,
                   tallyVars>>

\* COUNCIL_LOG lives in memory.
RestartHermes ==
    /\ restarts < MaxRestarts
    /\ restarts' = restarts + 1
    /\ councils' = 0
    /\ UNCHANGED <<page, contractVars, consoleVars, statusVars, toxicaVars, tallyVars>>

\* Anybody calls the contract, with whatever arguments.
OtherVote(choice, nullifier) ==
    /\ Contract!CastAnonymous(1, choice, nullifier)
    /\ UNCHANGED <<page, councils, restarts, consoleVars, statusVars, toxicaVars, tallyVars>>

--------------------------------------------------------------------------------
(* /hermes.                                                                   *)

Rest == <<page, serviceVars, statusVars, toxicaVars, tallyVars>>

\* The two reads of the mount effect, each answered once or failing: /agents/health,
HealthAnswered ==
    /\ page = "hermes" /\ online = "unknown"
    /\ online' \in {"yes", "no"}
    /\ UNCHANGED <<Rest, messages, loading, asked, proposals>>

\* and /agents/proposals, whose failure is swallowed.
ProposalsAnswered ==
    /\ page = "hermes" /\ proposals = "unknown"
    /\ proposals' \in {"listed", "failed"}
    /\ UNCHANGED <<Rest, messages, loading, asked, online>>

Kind == {"ask", "council"}

\* What calls send(): a button of the panel of proposals, a quick command, the form.
By == {"proposal", "quick", "form"}

\* The buttons of the panel are there once the proposals are listed, also while a
\* question is under way; quick commands and form are disabled meanwhile.
Offered(by) == IF by = "proposal" THEN proposals = "listed" ELSE ~loading

\* The number of the next question.
NextQuestion == Cardinality({i \in DOMAIN messages : messages[i].role = "user"}) + 1

\* Bug: send() relies on the buttons being disabled; those of the proposals are not.
SendUnguarded(kind, by) ==
    /\ page = "hermes"
    /\ Offered(by)
    /\ by = "proposal" => kind = "ask"
    /\ Len(messages) < MaxMessages
    /\ messages' = Append(messages, [role |-> "user", of |-> NextQuestion])
    /\ loading' = TRUE
    /\ asked' = [of |-> NextQuestion, kind |-> kind, at |-> "sent"]
    /\ UNCHANGED <<Rest, online, proposals>>

\* send(text).  The wording decides whether the council is convened; the buttons
\* of proposals ask for an analysis.
Send(kind, by) ==
    /\ page = "hermes"
    /\ Offered(by)
    /\ by = "proposal" => kind = "ask"
    /\ ~loading
    /\ Len(messages) < MaxMessages
    /\ messages' = Append(messages, [role |-> "user", of |-> NextQuestion])
    /\ loading' = TRUE
    /\ asked' = [of |-> NextQuestion, kind |-> kind, at |-> "sent"]
    /\ UNCHANGED <<Rest, online, proposals>>

\* Hermes has worked it out; a council has also been logged.
HermesWorks ==
    /\ asked.at = "sent"
    /\ asked.kind = "council" => councils < MaxCouncils
    /\ councils' = IF asked.kind = "council" THEN councils + 1 ELSE councils
    /\ asked' = [asked EXCEPT !.at = "worked"]
    /\ UNCHANGED <<page, restarts, contractVars, messages, loading, online, proposals,
                   statusVars, toxicaVars, tallyVars>>

\* Bug: loading is reset after a good answer only.
AnswerOnlyGood(role) ==
    /\ asked.at \in IF role = "error" THEN {"sent", "worked"} ELSE {"worked"}
    /\ role \in {"error", IF asked.kind = "council" THEN "council" ELSE "hermes"}
    /\ messages' = Append(messages, [role |-> role, of |-> asked.of])
    /\ loading' = (role = "error")
    /\ asked' = NotAsked
    /\ UNCHANGED <<Rest, online, proposals>>

\* The answer arrives, or the request fails before or after Hermes did the work
\* (an answer that is no JSON fails too); loading ends either way.
Answer(role) ==
    /\ asked.at \in IF role = "error" THEN {"sent", "worked"} ELSE {"worked"}
    /\ role \in {"error", IF asked.kind = "council" THEN "council" ELSE "hermes"}
    /\ messages' = Append(messages, [role |-> role, of |-> asked.of])
    /\ loading' = FALSE
    /\ asked' = NotAsked
    /\ UNCHANGED <<Rest, online, proposals>>

--------------------------------------------------------------------------------
(* /sistema and /votacion.                                                    *)

StatusRest == <<page, serviceVars, consoleVars, toxicaVars, tallyVars>>

LoadStatus ==
    /\ page = "sistema"
    /\ Status!Load(councils)
    /\ UNCHANGED StatusRest

StatusArrives == \E i \in DOMAIN statusReads : Status!Arrive(i) /\ UNCHANGED StatusRest

StatusFails ==
    \E i \in DOMAIN statusReads : Status!Fail(i, TRUE) /\ UNCHANGED StatusRest

TallyRest == <<page, serviceVars, consoleVars, statusVars, toxicaVars>>

\* refresh(), on mount, every five seconds and after the visitor's own vote.
Refresh ==
    /\ page = "votacion"
    /\ Live!Load(tally[1])
    /\ UNCHANGED TallyRest

TallyArrives == \E i \in DOMAIN tallyReads : Live!Arrive(i) /\ UNCHANGED TallyRest

\* refresh() swallows the error.
TallyFails == \E i \in DOMAIN tallyReads : Live!Fail(i, FALSE) /\ UNCHANGED TallyRest

--------------------------------------------------------------------------------
(* /toxica.                                                                   *)

ToxicaRest == <<page, serviceVars, consoleVars, statusVars, tallyVars>>

\* What the form may hold: a number Hermes takes (an unknown one too), or one it
\* refuses, since the field's bounds are not enforced: an empty field is 0 and
\* taken, 1.5 is refused.
Form == {"valid", "refused"}

\* Bug: a new analysis does not take back the publication of the last one.
AnalyzeKeepsPublished(form) ==
    /\ page = "toxica" /\ analyzing = "no" /\ analyses < MaxAnalyses
    /\ analyzing' = form
    /\ failure' = FALSE
    /\ report' = NoReport
    /\ analyses' = analyses + 1
    /\ UNCHANGED <<ToxicaRest, published, approved>>

\* analyze(); its button is disabled while an analysis is under way.
Analyze(form) ==
    /\ page = "toxica" /\ analyzing = "no" /\ analyses < MaxAnalyses
    /\ analyzing' = form
    /\ failure' = FALSE
    /\ report' = NoReport
    /\ published' = FALSE
    /\ analyses' = analyses + 1
    /\ UNCHANGED <<ToxicaRest, approved>>

\* The answer, draft or refusal, is displayed as the report.
ShowAnswer ==
    /\ analyzing # "no"
    /\ report' = [kind |-> IF analyzing = "valid" THEN "draft" ELSE "refusal",
                  of |-> analyses]
    /\ analyzing' = "no"
    /\ UNCHANGED <<ToxicaRest, published, failure, analyses, approved>>

AnalysisFails ==
    /\ analyzing # "no"
    /\ failure' = TRUE
    /\ analyzing' = "no"
    /\ UNCHANGED <<ToxicaRest, report, published, analyses, approved>>

\* "Aprobar y publicar": a flag of the page.  A draft comes with approved = false
\* and a refusal has no such field, so the button is enabled for both.
Approve ==
    /\ report # NoReport /\ ~published
    /\ published' = TRUE
    /\ approved' = report.of
    /\ UNCHANGED <<ToxicaRest, report, analyzing, failure, analyses>>

Discard ==
    /\ report # NoReport /\ ~published
    /\ report' = NoReport
    /\ UNCHANGED <<ToxicaRest, analyzing, published, failure, analyses, approved>>

--------------------------------------------------------------------------------

Next ==
    \/ \E p \in Page : Go(p)
    \/ OtherCouncil
    \/ RestartHermes
    \/ \E c \in 0 .. 3, n \in Nullifier \cup {NoHash} : OtherVote(c, n)
    \/ HealthAnswered
    \/ ProposalsAnswered
    \/ \E kind \in Kind, by \in By : Send(kind, by)
    \/ HermesWorks
    \/ \E role \in {"hermes", "council", "error"} : Answer(role)
    \/ LoadStatus
    \/ StatusArrives
    \/ StatusFails
    \/ Refresh
    \/ TallyArrives
    \/ TallyFails
    \/ \E form \in Form : Analyze(form)
    \/ ShowAnswer
    \/ AnalysisFails
    \/ Approve
    \/ Discard

\* The timers tick; of the reads that go out again and again some are answered;
\* a request settles, with an answer or an error.  Visitors owe nothing.
Fairness ==
    /\ WF_vars(LoadStatus) /\ SF_vars(StatusArrives)
    /\ WF_vars(Refresh) /\ SF_vars(TallyArrives)
    /\ WF_vars(\E role \in {"hermes", "council", "error"} : Answer(role))
    /\ WF_vars(ShowAnswer \/ AnalysisFails)

Spec == Init /\ [][Next]_vars /\ Fairness

--------------------------------------------------------------------------------
(* Properties.                                                                *)

Tally == [Contract!Choice -> Nat]
Maybe(S) == {s \in Seq(S) : Len(s) <= 1}
Role == {"system", "user", "hermes", "council", "error"}
Message == [role : Role, of : Nat]
Question == [of : Nat, kind : Kind \cup {"none"}, at : {"idle", "sent", "worked"}]
Report == [kind : {"none", "draft", "refusal"}, of : 0 .. MaxAnalyses]
Ballot == [id : ProposalId, nullifier : Nullifier, choice : Contract!Choice]

\* Every variable has its type.
TypeOK ==
    /\ page \in Page
    /\ councils \in 0 .. MaxCouncils /\ restarts \in 0 .. MaxRestarts
    /\ nullifierUsed \in [ProposalId -> SUBSET Nullifier]
    /\ tally \in [ProposalId -> Tally]
    /\ votesCast \subseteq Ballot
    /\ messages \in Seq(Message) /\ Len(messages) <= MaxMessages + 1
    /\ loading \in BOOLEAN
    /\ asked \in Question
    /\ online \in {"unknown", "yes", "no"}
    /\ proposals \in {"unknown", "listed", "failed"}
    /\ status \in Maybe(0 .. MaxCouncils)
    /\ statusReads \in Seq(0 .. MaxCouncils) /\ Len(statusReads) <= MaxReads
    /\ err \in BOOLEAN
    /\ report \in Report
    /\ analyzing \in {"no"} \cup Form
    /\ {published, failure} \subseteq BOOLEAN
    /\ analyses \in 0 .. MaxAnalyses /\ approved \in 0 .. MaxAnalyses
    /\ shownTally \in Maybe(Tally)
    /\ tallyReads \in Seq(Tally) /\ Len(tallyReads) <= MaxReads
    /\ tallyFailed = FALSE

\* The console is a dialogue: questions and answers alternate, each answer belongs
\* to the question above it, and "hermes procesando" is shown exactly while the
\* last question has no answer.
QuestionsAnsweredInTurn ==
    /\ \A i \in DOMAIN messages :
         /\ messages[i].of = i \div 2
         /\ i > 1 => (messages[i].role = "user" <=> i % 2 = 0)
    /\ loading <=> Len(messages) % 2 = 0
    /\ loading <=> asked.at # "idle"

\* A post shown as approved and published is the report the visitor approved, not
\* that of a later analysis, whose text nobody has read.
PublishedWasApproved ==
    published => report # NoReport /\ report.of = approved

\* A visitor who stays on /sistema or /votacion ends up seeing the present number
\* of councils, or the present tally, in whatever order the answers arrive.
ShownCatchesUp ==
    /\ <>[](page = "sistema") => <>[](status = <<councils>>)
    /\ <>[](page = "votacion") => <>[](shownTally = <<tally[1]>>)

\* Neither the console nor the analysis stays waiting: the controls come back.
WaitEnds ==
    /\ loading ~> ~loading
    /\ analyzing # "no" ~> analyzing = "no"

================================================================================
