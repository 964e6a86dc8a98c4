------------------------------- MODULE VotingPage -------------------------------
(******************************************************************************)
(* Anonymous voting end to end: the tabs that show app/votacion/page.tsx, the *)
(* identity secret each browser keeps in localStorage (lib/nullifier.ts), the *)
(* one relayer account every tab signs with, and the AnonymousVote contract.  *)
(*                                                                            *)
(* vote() prepares the transaction on the latest block (which is where a      *)
(* nullifier already used is noticed), sends it, and waits for its receipt;   *)
(* other tabs, the relayer's nonce and the chain move in between.             *)
(******************************************************************************)
EXTENDS Integers, Sequences

CONSTANTS
    Browser,      \* browsers, each with its own localStorage
    Tab,          \* open tabs
    BrowserOf,    \* tab -> its browser
    Secret,       \* the identity secrets browsers can draw
    Outsider,     \* nullifiers not derived from any of those secrets
    ProposalId,   \* proposal ids of the contract
    PageProposal, \* PROPOSAL_ID of the page
    NoHash,       \* bytes32(0)
    MaxTxs        \* bound on transactions of the relayer

ASSUME VotingPageAssumption ==
    /\ BrowserOf \in [Tab -> Browser]
    /\ PageProposal \in ProposalId
    /\ MaxTxs \in Nat
    /\ NoHash \notin Outsider \cup (Secret \X ProposalId)
    /\ Outsider \cap (Secret \X ProposalId) = {}

VARIABLES
    secret,      \* browser -> the secret in its localStorage, NoHash if none
    tab,         \* tab -> the state of the page
    relayed,     \* the relayer's transactions, in nonce order
    mined,       \* how many of them are in a block
    nullifierUsed, tally, votesCast

\* computeNullifier: one for each secret and proposal.
ComputeNullifier(s, id) == <<s, id>>

Nullifier == (Secret \X ProposalId) \cup Outsider

Contract == INSTANCE AnonymousVote

contractVars == <<nullifierUsed, tally, votesCast>>
vars == <<secret, tab, relayed, mined, contractVars>>

PageState == {"idle", "prepare", "broadcast", "receipt", "done", "dup", "error"}

\* nonce: the relayer's next, as read while preparing.  tx: what is waited for.
Fresh == [state |-> "idle", choice |-> 0, nullifier |-> NoHash, nonce |-> 0,
          tx |-> 0]

Init ==
    /\ secret = [b \in Browser |-> NoHash]
    /\ tab = [t \in Tab |-> Fresh]
    /\ relayed = <<>>
    /\ mined = 0
    /\ Contract!Init

--------------------------------------------------------------------------------
(* The page. *)

\* The buttons: replaced by a text once the vote is cast or refused as a duplicate,
\* disabled while one is under way.
Offered(t) == tab[t].state \in {"idle", "error"}

\* A click on one of the buttons.  The secret is drawn on first use.
Click(t, choice) ==
    LET b == BrowserOf[t]
    IN  /\ Offered(t)
        /\ \E s \in Secret :
             /\ IF secret[b] # NoHash THEN s = secret[b]
                                      ELSE \A o \in Browser : secret[o] # s
             /\ secret' = [secret EXCEPT ![b] = s]
             /\ tab' = [tab EXCEPT
                  ![t].state = "prepare",
                  ![t].choice = choice,
                  ![t].nullifier = ComputeNullifier(s, PageProposal)]
        /\ UNCHANGED <<relayed, mined, contractVars>>

\* vote() ends without a receipt, and what it held is gone.
VoteEnds(t, state) == tab' = [tab EXCEPT ![t] = [Fresh EXCEPT !.state = state]]

\* The estimate runs the call on the latest block, where "ya votaste" shows up;
\* the relayer's pending nonce is read.
Prepare(t) ==
    LET passes == Contract!MayCast(PageProposal, tab[t].choice, tab[t].nullifier)
    IN  /\ tab[t].state = "prepare"
        /\ tab' = [tab EXCEPT ![t].state = IF passes THEN "broadcast" ELSE "dup",
                              ![t].nonce = IF passes THEN Len(relayed) + 1 ELSE 0]
        /\ UNCHANGED <<secret, relayed, mined, contractVars>>

\* The node takes the transaction; its answer may get lost.
Broadcast(t) ==
    /\ tab[t].state = "broadcast"
    /\ tab[t].nonce = Len(relayed) + 1
    /\ Len(relayed) < MaxTxs
    /\ relayed' = Append(relayed, [choice |-> tab[t].choice, nullifier |-> tab[t].nullifier])
    /\ \/ tab' = [tab EXCEPT ![t].state = "receipt", ![t].tx = Len(relayed) + 1,
                             ![t].nonce = 0]
       \/ VoteEnds(t, "error")
    /\ UNCHANGED <<secret, mined, contractVars>>

\* Another tab has used the nonce.
NonceTaken(t) ==
    /\ tab[t].state = "broadcast"
    /\ tab[t].nonce # Len(relayed) + 1
    /\ VoteEnds(t, "error")
    /\ UNCHANGED <<secret, relayed, mined, contractVars>>

\* Bug: the page reports the vote once it is sent.
ReceiptNotAwaited(t) ==
    /\ tab[t].state = "receipt"
    /\ tab' = [tab EXCEPT ![t].state = "done"]
    /\ UNCHANGED <<secret, relayed, mined, contractVars>>

\* The receipt is there; its status is not looked at.
Receipt(t) ==
    /\ tab[t].state = "receipt"
    /\ tab[t].tx <= mined
    /\ tab' = [tab EXCEPT ![t].state = "done"]
    /\ UNCHANGED <<secret, relayed, mined, contractVars>>

\* An await fails with anything but "ya votaste".
VoteFails(t) ==
    /\ tab[t].state \in {"prepare", "broadcast", "receipt"}
    /\ VoteEnds(t, "error")
    /\ UNCHANGED <<secret, relayed, mined, contractVars>>

\* The page is reloaded; the secret stays in localStorage.
Reload(t) ==
    /\ tab[t] # Fresh
    /\ tab' = [tab EXCEPT ![t] = Fresh]
    /\ UNCHANGED <<secret, relayed, mined, contractVars>>

--------------------------------------------------------------------------------
(* The chain. *)

\* The relayer's next transaction gets into a block, where it succeeds or reverts.
Mine ==
    LET tx == relayed[mined + 1]
    IN  /\ mined < Len(relayed)
        /\ mined' = mined + 1
        /\ IF Contract!MayCast(PageProposal, tx.choice, tx.nullifier)
           THEN Contract!CastAnonymous(PageProposal, tx.choice, tx.nullifier)
           ELSE UNCHANGED contractVars
        /\ UNCHANGED <<secret, tab, relayed>>

\* Anyone calls the contract, on any proposal.
CastDirectly(id, choice, nullifier) ==
    /\ Contract!CastAnonymous(id, choice, nullifier)
    /\ UNCHANGED <<secret, tab, relayed, mined>>

Next ==
    \/ \E t \in Tab :
         \/ \E choice \in Contract!Choice : Click(t, choice)
         \/ Prepare(t) \/ Broadcast(t) \/ NonceTaken(t) \/ Receipt(t) \/ VoteFails(t)
         \/ Reload(t)
    \/ Mine
    \/ \E id \in ProposalId, choice \in 0 .. 3, nullifier \in Outsider \cup {NoHash} :
         CastDirectly(id, choice, nullifier)

Spec == Init /\ [][Next]_vars

--------------------------------------------------------------------------------
(* Properties. *)

Counts == [Contract!Choice -> Nat]

PageData == [state : PageState, choice : Contract!Choice, nullifier : Nullifier \cup {NoHash},
             nonce : Nat, tx : Nat]

\* Every variable has its type.
TypeOK ==
    /\ secret \in [Browser -> Secret \cup {NoHash}]
    /\ tab \in [Tab -> PageData]
    /\ relayed \in Seq([choice : Contract!Choice, nullifier : Nullifier])
    /\ mined \in 0 .. Len(relayed)
    /\ nullifierUsed \in [ProposalId -> SUBSET Nullifier]
    /\ tally \in [ProposalId -> Counts]
    /\ votesCast \subseteq [id : ProposalId, nullifier : Nullifier, choice : Contract!Choice]

\* A page that says the vote is registered, or that it had been cast before, is
\* right that this identity's vote is on the chain.
PageToldTheTruth ==
    \A t \in Tab :
        tab[t].state \in {"done", "dup"} => tab[t].nullifier \in nullifierUsed[PageProposal]

--------------------------------------------------------------------------------
(* The same promise as the public vote: Election, with identities for voters  *)
(* and no result ever certified.                                              *)

CastBy(n) == {v \in votesCast : v.id = PageProposal /\ v.nullifier = n}

ChoiceIn(cast) == IF cast = {} THEN -1 ELSE (CHOOSE v \in cast : TRUE).choice

BallotOf == [n \in Nullifier |-> ChoiceIn(CastBy(n))]

Elected == INSTANCE Election WITH
    Voter <- Nullifier,
    Choice <- Contract!Choice,
    NoBallot <- -1,
    ballotOf <- BallotOf,
    results <- {}

\* Anonymous voting implements Election.
ImplementsElection == Elected!Spec

================================================================================
