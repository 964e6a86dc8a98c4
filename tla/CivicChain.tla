------------------------------- MODULE CivicChain -------------------------------
(******************************************************************************)
(* The chain CivicSys deploys: IdentitySBT and CitizenRegistry side by side,  *)
(* and Vote wired to one of them.  A step is one contract call (or the return *)
(* of one callback); calls of different transactions do not interleave, calls *)
(* made by contracts from inside an onERC721Received callback do.             *)
(******************************************************************************)
EXTENDS Integers, Sequences, FiniteSets

CONSTANTS
    Account,      \* addresses that call the contracts
    Contract,     \* the accounts with code
    Dni,          \* non-zero dniHash commitments
    Face,         \* non-zero faceCommitment commitments
    NoAccount,    \* address(0)
    NoHash,       \* bytes32(0)
    ProposalId,   \* the proposal ids a caller may name
    MaxTokenId,   \* bound on minted ids
    MaxTime       \* bound on block.timestamp

ASSUME ChainAssumption ==
    /\ Contract \subseteq Account
    /\ NoAccount \notin Account
    /\ NoHash \notin Dni \cup Face
    /\ 1 \in ProposalId
    /\ ProposalId \subseteq Nat
    /\ MaxTokenId \in Nat
    /\ MaxTime \in Nat

VARIABLES
    nextId, dniOf, tokenOfOwner, usedDni, usedFace, owner, balance, frames,
    cedulaMinted, cedulaBurned,
    hashes,
    registry, proposals, count, voted, proposalClosed, timestamp,
    ballots       \* history: the VoteCast events, each with the voter's hashOf

Identity == INSTANCE IdentitySBT
Citizens == INSTANCE CitizenRegistry
Poll == INSTANCE Vote

identityVars == <<nextId, dniOf, tokenOfOwner, usedDni, usedFace, owner, balance,
                  frames, cedulaMinted, cedulaBurned>>
pollVars == <<registry, proposals, count, voted, proposalClosed, timestamp>>
vars == <<identityVars, hashes, pollVars, ballots>>

Init ==
    /\ Identity!Init
    /\ Citizens!Init
    /\ Poll!Init
    /\ ballots = {}

--------------------------------------------------------------------------------

\* ICitizenRegistry as Vote calls it.
IsRegistered(citizen) ==
    IF registry = "IdentitySBT" THEN Identity!IsRegistered(citizen)
                                ELSE Citizens!IsRegistered(citizen)

HashOf(citizen) ==
    IF registry = "IdentitySBT" THEN Identity!HashOf(citizen)
                                ELSE Citizens!HashOf(citizen)

\* Who can make a call now: anyone starts a transaction when none is running;
\* while one waits in a callback, only code that it runs calls.
Caller == IF frames = <<>> THEN Account ELSE Contract

Mint(a, d, f) == Identity!Mint(a, d, f) /\ UNCHANGED <<hashes, pollVars, ballots>>

Burn(a, t) == Identity!Burn(a, t) /\ UNCHANGED <<hashes, pollVars, ballots>>

TransferFrom(a, from, to, t) ==
    Identity!TransferFrom(a, from, to, t) /\ UNCHANGED <<hashes, pollVars, ballots>>

ReturnToMint == Identity!ReturnToMint /\ UNCHANGED <<hashes, pollVars, ballots>>

Register(a, d) == Citizens!Register(a, d) /\ UNCHANGED <<identityVars, pollVars, ballots>>

CastVote(a, id, c) ==
    /\ Poll!CastVote(a, id, c, IsRegistered(a))
    /\ ballots' = ballots \cup
         {[voter |-> a, proposalId |-> id, choice |-> c, dni |-> HashOf(a)]}
    /\ UNCHANGED <<identityVars, hashes>>

Close(id) ==
    /\ Poll!Close(id)
    /\ UNCHANGED <<identityVars, hashes, ballots>>

\* A block ends only between transactions.
NextBlock ==
    /\ frames = <<>>
    /\ Poll!NextBlock
    /\ UNCHANGED <<identityVars, hashes, ballots>>

Next ==
    \/ \E a \in Caller :
         \/ \E d \in Dni \cup {NoHash}, f \in Face \cup {NoHash} : Mint(a, d, f)
         \/ \E t \in Identity!TokenId : Burn(a, t)
         \/ \E from, to \in Account, t \in Identity!TokenId : TransferFrom(a, from, to, t)
         \/ \E d \in Dni \cup {NoHash} : Register(a, d)
         \/ \E id \in ProposalId, c \in Poll!Choice : CastVote(a, id, c)
    \/ ReturnToMint
    \/ \E id \in ProposalId : Close(id)
    \/ NextBlock

Spec == Init /\ [][Next]_vars

--------------------------------------------------------------------------------
(* Properties.                                                                *)

Ballot == [voter : Account, proposalId : ProposalId, choice : Poll!Choice,
           dni : Dni \cup {NoHash}]

\* Every variable has its type.
TypeOK ==
    /\ nextId \in 1 .. MaxTokenId + 1
    /\ dniOf \in [Identity!TokenId -> Dni \cup {NoHash}]
    /\ tokenOfOwner \in [Account -> 0 .. MaxTokenId]
    /\ usedDni \subseteq Dni
    /\ usedFace \subseteq Face
    /\ owner \in [Identity!TokenId -> Account \cup {NoAccount}]
    /\ balance \in [Account -> Nat]
    /\ frames \in Seq(Identity!Cedula)
    /\ cedulaMinted \subseteq Identity!Cedula
    /\ cedulaBurned \subseteq [holder : Account, tokenId : Identity!TokenId]
    /\ hashes \in [Account -> Dni \cup {NoHash}]
    /\ registry \in Poll!Registry
    /\ proposals \in [ProposalId -> Poll!Proposal]
    /\ count \in [ProposalId -> [Poll!Choice -> Nat]]
    /\ voted \in [ProposalId -> [Account -> BOOLEAN]]
    /\ proposalClosed \subseteq [id : ProposalId, tally : [Poll!Choice -> Nat]]
    /\ timestamp \in Poll!Time
    /\ ballots \subseteq Ballot

\* The cedulas ever created: those whose event is out and those whose mint is
\* still inside its callback.
Issued == cedulaMinted \cup {frames[i] : i \in DOMAIN frames}

\* The four records of who holds what (ERC721 owners and balances, tokenOfOwner,
\* dniOf) agree at every call boundary, callbacks included: a holder has exactly
\* one token, its pointer names it, and the token still carries a dniHash.
HoldersAgree ==
    /\ \A a \in Account, t \in Identity!TokenId : owner[t] = a <=> tokenOfOwner[a] = t
    /\ \A a \in Account : balance[a] = IF tokenOfOwner[a] = 0 THEN 0 ELSE 1
    /\ \A t \in Identity!TokenId : dniOf[t] = NoHash <=> owner[t] = NoAccount

\* A commitment serves one cedula, for ever: burning, re-minting and re-entering
\* mint never bring a dniHash, a face or an id into a second one.
CommitmentsBoundOnce ==
    /\ \A m, n \in Issued :
         m.dni = n.dni \/ m.face = n.face \/ m.tokenId = n.tokenId => m = n
    /\ usedDni = {m.dni : m \in Issued}
    /\ usedFace = {m.face : m \in Issued}

\* One person, one ballot: with IdentitySBT as registry, no two ballots on one
\* proposal were cast under the same dniHash, whatever addresses it went through.
OneBallotPerPerson ==
    registry = "IdentitySBT" =>
        \A b, c \in ballots :
            b.proposalId = c.proposalId /\ b.dni = c.dni => b = c

\* No ballot without a person: every ballot under IdentitySBT was cast by the
\* address to which a cedula with the ballot's dniHash had been issued.
BallotsComeFromCedulas ==
    registry = "IdentitySBT" =>
        \A b \in ballots : \E m \in Issued : m.holder = b.voter /\ m.dni = b.dni

\* The tally counts the addresses marked as having voted, each under the choice
\* it made: no call order loses or doubles a vote.
TallyCountsVoters ==
    \A id \in ProposalId :
        /\ \A c \in Poll!Choice :
             count[id][c] = Cardinality({b \in ballots : b.proposalId = id /\ b.choice = c})
        /\ \A a \in Account :
             voted[id][a] <=> \E b \in ballots : b.proposalId = id /\ b.voter = a

\* The result announced by ProposalClosed is the tally for ever after, and is
\* announced only once: no vote lands behind it.
ResultIsFinal ==
    \A e \in proposalClosed :
        /\ proposals[e.id].closed
        /\ e.tally = count[e.id]

\* Between transactions the log tells the whole story: a CedulaMinted for every
\* id given out, and a CedulaBurned exactly for those nobody holds any more.
LogTellsHolders ==
    frames = <<>> =>
        /\ {m.tokenId : m \in cedulaMinted} = 1 .. nextId - 1
        /\ \A m \in cedulaMinted :
             owner[m.tokenId] # m.holder
               <=> [holder |-> m.holder, tokenId |-> m.tokenId] \in cedulaBurned

\* A cedula never changes hands and never comes back: an owned token keeps its
\* owner or loses it for good.
Soulbound ==
    [][\A t \in Identity!TokenId :
          t < nextId => owner'[t] \in {owner[t], NoAccount}]_vars

--------------------------------------------------------------------------------
(* The election these contracts implement.  The registry decides what a voter *)
(* is: a person (dniHash) under IdentitySBT, an address under CitizenRegistry. *)

VoterOf(b) == IF registry = "IdentitySBT" THEN b.dni ELSE b.voter

CastBy(v) == {b \in ballots : b.proposalId = 1 /\ VoterOf(b) = v}

ChoiceIn(cast) == IF cast = {} THEN "none" ELSE (CHOOSE b \in cast : TRUE).choice

BallotOf == [v \in Account \cup Dni |-> ChoiceIn(CastBy(v))]

Elected == INSTANCE Election WITH
    Voter <- Account \cup Dni,
    Choice <- Poll!Choice,
    NoBallot <- "none",
    ballotOf <- BallotOf,
    results <- {e.tally : e \in {x \in proposalClosed : x.id = 1}}

\* The chain implements Election.
ImplementsElection == Elected!Spec

================================================================================
