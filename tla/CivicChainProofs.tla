---------------------------- MODULE CivicChainProofs ----------------------------
(******************************************************************************)
(* Theorems about CivicChain, for every value of its constants.               *)
(*                                                                            *)
(* Typed (TypeOK and HoldersAgree together) is inductive: neither half is on  *)
(* its own, because burn subtracts from a balance that only HoldersAgree      *)
(* keeps positive.  The later invariants are proved relative to it.           *)
(******************************************************************************)
EXTENDS CivicChain, FiniteSetTheorems, TLAPS

Typed == TypeOK /\ HoldersAgree

USE DEF Identity!TokenId, Poll!Time

--------------------------------------------------------------------------------
(* What the single actions do. *)

\* Callers are accounts, whether or not a callback is running.
LEMMA CallersAreAccounts == Caller \subseteq Account
  BY ChainAssumption DEF Caller

\* transferFrom never goes through: the soulbound override lets a call pass only
\* when one end is address(0), and then ERC721's own owner check stops it.
THEOREM TransferAlwaysReverts ==
    ASSUME TypeOK, NEW a \in Account, NEW from \in Account, NEW to \in Account,
           NEW t \in Identity!TokenId, TransferFrom(a, from, to, t)
    PROVE  UNCHANGED vars
<1>1. ~Identity!MayUpdate(to, t, a)
  BY ChainAssumption DEF Identity!MayUpdate
<1>2. UNCHANGED identityVars
  BY <1>1 DEF TransferFrom, Identity!TransferFrom, Identity!vars, identityVars
<1>3. QED
  BY <1>2 DEF TransferFrom, vars

\* A mint takes an unowned id for a caller without a cedula and gives it a
\* fresh, well-formed cedula.
LEMMA MintEffect ==
    ASSUME TypeOK, NEW a \in Account, NEW d \in Dni \cup {NoHash},
           NEW f \in Face \cup {NoHash}, Identity!Mint(a, d, f)
    PROVE  /\ nextId \in Identity!TokenId
           /\ d \in Dni
           /\ f \in Face
           /\ [holder |-> a, tokenId |-> nextId, dni |-> d, face |-> f] \in Identity!Cedula
           /\ balance[a] = 0
           /\ owner[nextId] = NoAccount
           /\ owner' = [owner EXCEPT ![nextId] = a]
           /\ balance' = [balance EXCEPT ![a] = 1]
<1>1. /\ nextId \in Identity!TokenId
      /\ d \in Dni
      /\ f \in Face
      /\ balance[a] = 0
  BY DEF Identity!Mint, Identity!MayMint
<1>2. [holder |-> a, tokenId |-> nextId, dni |-> d, face |-> f] \in Identity!Cedula
  BY <1>1 DEF Identity!Cedula
<1>3. owner[nextId] = NoAccount
  BY <1>1, ChainAssumption DEF Identity!Mint, Identity!MayMint, Identity!MayUpdate
<1>4. /\ owner' = [owner EXCEPT ![nextId] = a]
      /\ balance' = [x \in Account |->
                        balance[x] + (IF x = a THEN 1 ELSE 0)
                                   - (IF x = owner[nextId] THEN 1 ELSE 0)]
  BY DEF Identity!Mint, Identity!MayMint, Identity!Update
<1>5. balance' = [balance EXCEPT ![a] = 1]
  <2>1. ASSUME NEW x \in Account
        PROVE  balance[x] + (IF x = a THEN 1 ELSE 0) - (IF x = owner[nextId] THEN 1 ELSE 0)
                 = IF x = a THEN 1 ELSE balance[x]
    BY <1>1, <1>3, ChainAssumption DEF TypeOK
  <2>2. balance' = [x \in Account |-> IF x = a THEN 1 ELSE balance[x]]
    BY <1>4, <2>1
  <2>3. QED
    BY <2>2 DEF TypeOK
<1>6. QED
  BY <1>1, <1>2, <1>3, <1>4, <1>5

\* A burn takes the caller's only token away from it.
LEMMA BurnEffect ==
    ASSUME Typed, NEW a \in Account, NEW t \in Identity!TokenId, Identity!Burn(a, t)
    PROVE  /\ owner[t] = a
           /\ tokenOfOwner[a] = t
           /\ owner' = [owner EXCEPT ![t] = NoAccount]
           /\ balance' = [balance EXCEPT ![a] = 0]
<1>1. /\ owner[t] = a
      /\ tokenOfOwner[a] = t
      /\ balance[a] = 1
  BY DEF Identity!Burn, Typed, HoldersAgree
<1>2. /\ owner' = [owner EXCEPT ![t] = NoAccount]
      /\ balance' = [x \in Account |->
                        balance[x] + (IF x = NoAccount THEN 1 ELSE 0)
                                   - (IF x = owner[t] THEN 1 ELSE 0)]
  BY DEF Identity!Burn, Identity!Update
<1>3. balance' = [balance EXCEPT ![a] = 0]
  <2>1. ASSUME NEW x \in Account
        PROVE  balance[x] + (IF x = NoAccount THEN 1 ELSE 0) - (IF x = owner[t] THEN 1 ELSE 0)
                 = IF x = a THEN 0 ELSE balance[x]
    BY <1>1, ChainAssumption DEF Typed, TypeOK
  <2>2. balance' = [x \in Account |-> IF x = a THEN 0 ELSE balance[x]]
    BY <1>2, <2>1
  <2>3. QED
    BY <2>2 DEF Typed, TypeOK
<1>4. QED
  BY <1>1, <1>2, <1>3

--------------------------------------------------------------------------------
(* Type correctness and the agreement of the holder records. *)

LEMMA MintTyped ==
    ASSUME Typed, NEW a \in Account, NEW d \in Dni \cup {NoHash},
           NEW f \in Face \cup {NoHash}, Mint(a, d, f)
    PROVE  Typed'
<1> DEFINE c == [holder |-> a, tokenId |-> nextId, dni |-> d, face |-> f]
<1> USE DEF Typed
<1>0. Identity!Mint(a, d, f)
  BY DEF Mint
<1>1. /\ nextId \in Identity!TokenId
      /\ d \in Dni
      /\ f \in Face
      /\ c \in Identity!Cedula
      /\ balance[a] = 0
      /\ owner[nextId] = NoAccount
      /\ owner' = [owner EXCEPT ![nextId] = a]
      /\ balance' = [balance EXCEPT ![a] = 1]
  BY <1>0, MintEffect
<1>2. /\ nextId' = nextId + 1
      /\ usedDni' = usedDni \cup {d}
      /\ usedFace' = usedFace \cup {f}
      /\ dniOf' = [dniOf EXCEPT ![nextId] = d]
      /\ tokenOfOwner' = [tokenOfOwner EXCEPT ![a] = nextId]
  BY <1>0 DEF Identity!Mint, Identity!MayMint
<1>3. TypeOK'
  <2>1. /\ frames' \in Seq(Identity!Cedula)
        /\ cedulaMinted' \subseteq Identity!Cedula
    <3>1. CASE a \in Contract
      <4>1. frames' = Append(frames, c) /\ cedulaMinted' = cedulaMinted
        BY <1>0, <3>1 DEF Identity!Mint, Identity!MayMint
      <4>2. QED
        BY <4>1, <1>1 DEF TypeOK
    <3>2. CASE a \notin Contract
      <4>1. frames' = frames /\ cedulaMinted' = cedulaMinted \cup {c}
        BY <1>0, <3>2 DEF Identity!Mint, Identity!MayMint
      <4>2. QED
        BY <4>1, <1>1 DEF TypeOK
    <3>3. QED
      BY <3>1, <3>2
  <2>2. UNCHANGED <<cedulaBurned, hashes, pollVars, ballots>>
    BY <1>0 DEF Mint, Identity!Mint, Identity!MayMint
  <2>3. QED
    BY <1>1, <1>2, <2>1, <2>2, ChainAssumption DEF TypeOK, pollVars
<1>4. HoldersAgree'
  <2>1. tokenOfOwner[a] = 0
    BY <1>1 DEF HoldersAgree
  <2>2. ASSUME NEW x \in Account, NEW t \in Identity!TokenId
        PROVE  owner'[t] = x <=> tokenOfOwner'[x] = t
    BY <1>1, <1>2, <2>1, ChainAssumption DEF TypeOK, HoldersAgree
  <2>3. ASSUME NEW x \in Account
        PROVE  balance'[x] = IF tokenOfOwner'[x] = 0 THEN 0 ELSE 1
    BY <1>1, <1>2 DEF TypeOK, HoldersAgree
  <2>4. ASSUME NEW t \in Identity!TokenId
        PROVE  dniOf'[t] = NoHash <=> owner'[t] = NoAccount
    BY <1>1, <1>2, ChainAssumption DEF TypeOK, HoldersAgree
  <2>5. QED
    BY <2>2, <2>3, <2>4 DEF HoldersAgree
<1>5. QED
  BY <1>3, <1>4

LEMMA BurnTyped ==
    ASSUME Typed, NEW a \in Account, NEW t \in Identity!TokenId, Burn(a, t)
    PROVE  Typed'
<1> USE DEF Typed
<1>0. Identity!Burn(a, t)
  BY DEF Burn
<1>1. /\ owner[t] = a
      /\ tokenOfOwner[a] = t
      /\ owner' = [owner EXCEPT ![t] = NoAccount]
      /\ balance' = [balance EXCEPT ![a] = 0]
  BY <1>0, BurnEffect
<1>2. /\ tokenOfOwner' = [tokenOfOwner EXCEPT ![a] = 0]
      /\ dniOf' = [dniOf EXCEPT ![t] = NoHash]
      /\ cedulaBurned' = cedulaBurned \cup {[holder |-> a, tokenId |-> t]}
      /\ UNCHANGED <<nextId, usedDni, usedFace, frames, cedulaMinted,
                     hashes, pollVars, ballots>>
  BY <1>0 DEF Burn, Identity!Burn
<1>3. TypeOK'
  BY <1>1, <1>2, ChainAssumption DEF TypeOK, pollVars
<1>4. HoldersAgree'
  <2>1. ASSUME NEW x \in Account, NEW s \in Identity!TokenId
        PROVE  owner'[s] = x <=> tokenOfOwner'[x] = s
    BY <1>1, <1>2, ChainAssumption DEF TypeOK, HoldersAgree
  <2>2. ASSUME NEW x \in Account
        PROVE  balance'[x] = IF tokenOfOwner'[x] = 0 THEN 0 ELSE 1
    BY <1>1, <1>2 DEF TypeOK, HoldersAgree
  <2>3. ASSUME NEW s \in Identity!TokenId
        PROVE  dniOf'[s] = NoHash <=> owner'[s] = NoAccount
    BY <1>1, <1>2, ChainAssumption DEF TypeOK, HoldersAgree
  <2>4. QED
    BY <2>1, <2>2, <2>3 DEF HoldersAgree
<1>5. QED
  BY <1>3, <1>4

LEMMA ReturnToMintTyped == Typed /\ ReturnToMint => Typed'
<1> SUFFICES ASSUME Typed, ReturnToMint PROVE Typed'
  OBVIOUS
<1> USE DEF Typed
<1>1. /\ frames # <<>>
      /\ cedulaMinted' = cedulaMinted \cup {frames[Len(frames)]}
      /\ frames' = SubSeq(frames, 1, Len(frames) - 1)
      /\ UNCHANGED <<nextId, dniOf, tokenOfOwner, usedDni, usedFace, owner, balance,
                     cedulaBurned, hashes, pollVars, ballots>>
  BY DEF ReturnToMint, Identity!ReturnToMint
<1>2. frames' \in Seq(Identity!Cedula) /\ cedulaMinted' \subseteq Identity!Cedula
  BY <1>1 DEF TypeOK
<1>3. QED
  BY <1>1, <1>2 DEF TypeOK, HoldersAgree, pollVars

LEMMA RegisterTyped ==
    ASSUME Typed, NEW a \in Account, NEW d \in Dni \cup {NoHash}, Register(a, d)
    PROVE  Typed'
  BY DEF Typed, TypeOK, HoldersAgree, Register, Citizens!Register, identityVars, pollVars

\* Every hash the wired registry returns is a dniHash or zero.
LEMMA HashOfType == ASSUME TypeOK, NEW a \in Account PROVE HashOf(a) \in Dni \cup {NoHash}
  BY DEF TypeOK, HashOf, Identity!HashOf, Citizens!HashOf

LEMMA CastVoteTyped ==
    ASSUME Typed, NEW a \in Account, NEW id \in ProposalId, NEW c \in Poll!Choice,
           CastVote(a, id, c)
    PROVE  Typed'
<1> USE DEF Typed
<1>1. /\ voted' = [voted EXCEPT ![id] = [voted[id] EXCEPT ![a] = TRUE]]
      /\ count' = [count EXCEPT ![id] = [count[id] EXCEPT ![c] = count[id][c] + 1]]
      /\ UNCHANGED <<registry, proposals, proposalClosed, timestamp>>
  BY Zenon DEF CastVote, Poll!CastVote, Poll!MayCastVote
<1>2. ballots' = ballots \cup
         {[voter |-> a, proposalId |-> id, choice |-> c, dni |-> HashOf(a)]}
  BY DEF CastVote
<1>3. ballots' \subseteq Ballot
  <2>1. [voter |-> a, proposalId |-> id, choice |-> c, dni |-> HashOf(a)] \in Ballot
    BY HashOfType DEF Ballot
  <2>2. ballots \subseteq Ballot
    BY DEF TypeOK
  <2>3. QED
    BY <1>2, <2>1, <2>2, Zenon
<1>4. count' \in [ProposalId -> [Poll!Choice -> Nat]]
  BY <1>1 DEF TypeOK
<1>5. UNCHANGED <<identityVars, hashes>>
  BY DEF CastVote
<1>6. QED
  BY <1>1, <1>3, <1>4, <1>5 DEF TypeOK, HoldersAgree, identityVars

LEMMA ClosedProposal ==
    ASSUME NEW p \in Poll!Proposal
    PROVE  /\ [p EXCEPT !.closed = TRUE] \in Poll!Proposal
           /\ [p EXCEPT !.closed = TRUE].closed = TRUE
           /\ [p EXCEPT !.closed = TRUE].id = p.id
  BY DEF Poll!Proposal

\* A close marks one open proposal and logs the tally it has then.
LEMMA CloseEffect ==
    ASSUME TypeOK, NEW id \in ProposalId, Close(id)
    PROVE  /\ ~proposals[id].closed
           /\ \E p \in Poll!Proposal : /\ p.closed = TRUE
                                      /\ p.id = proposals[id].id
                                      /\ proposals' = [proposals EXCEPT ![id] = p]
           /\ proposalClosed' = proposalClosed \cup {[id |-> id, tally |-> count[id]]}
           /\ UNCHANGED <<registry, count, voted, timestamp, identityVars, hashes, ballots>>
<1>1. proposals[id] \in Poll!Proposal
  BY DEF TypeOK
<1>2. proposals' = [proposals EXCEPT ![id] = [proposals[id] EXCEPT !.closed = TRUE]]
  BY Zenon DEF Close, Poll!Close
<1>3. \E p \in Poll!Proposal : /\ p.closed = TRUE
                               /\ p.id = proposals[id].id
                               /\ proposals' = [proposals EXCEPT ![id] = p]
  BY <1>1, <1>2, ClosedProposal, Zenon
<1>4. /\ ~proposals[id].closed
      /\ proposalClosed' = proposalClosed \cup {[id |-> id, tally |-> count[id]]}
      /\ UNCHANGED <<registry, count, voted, timestamp, identityVars, hashes, ballots>>
  BY Zenon DEF Close, Poll!Close
<1>5. QED
  BY <1>3, <1>4

LEMMA CloseTyped ==
    ASSUME Typed, NEW id \in ProposalId, Close(id)
    PROVE  Typed'
<1> USE DEF Typed
<1>1. PICK p \in Poll!Proposal : proposals' = [proposals EXCEPT ![id] = p]
  BY CloseEffect
<1>2. /\ proposalClosed' = proposalClosed \cup {[id |-> id, tally |-> count[id]]}
      /\ UNCHANGED <<registry, count, voted, timestamp, identityVars, hashes, ballots>>
  BY CloseEffect
<1>3. QED
  BY <1>1, <1>2 DEF TypeOK, HoldersAgree, identityVars

LEMMA NextBlockTyped == Typed /\ NextBlock => Typed'
  BY ChainAssumption
  DEF Typed, TypeOK, HoldersAgree, NextBlock, Poll!NextBlock, identityVars

LEMMA InitTyped == Init => Typed
<1> SUFFICES ASSUME Init PROVE Typed
  OBVIOUS
<1>1. proposals \in [ProposalId -> Poll!Proposal]
  BY ChainAssumption DEF Init, Poll!Init, Poll!Proposal
<1>2. TypeOK
  <2>1. /\ nextId \in 1 .. MaxTokenId + 1
        /\ dniOf \in [Identity!TokenId -> Dni \cup {NoHash}]
        /\ tokenOfOwner \in [Account -> 0 .. MaxTokenId]
        /\ usedDni \subseteq Dni
        /\ usedFace \subseteq Face
        /\ owner \in [Identity!TokenId -> Account \cup {NoAccount}]
        /\ balance \in [Account -> Nat]
        /\ frames \in Seq(Identity!Cedula)
        /\ cedulaMinted \subseteq Identity!Cedula
        /\ cedulaBurned \subseteq [holder : Account, tokenId : Identity!TokenId]
        /\ hashes \in [Account -> Dni \cup {NoHash}]
    BY ChainAssumption DEF Init, Identity!Init, Citizens!Init
  <2>2. /\ registry \in Poll!Registry
        /\ count \in [ProposalId -> [Poll!Choice -> Nat]]
        /\ voted \in [ProposalId -> [Account -> BOOLEAN]]
        /\ proposalClosed \subseteq [id : ProposalId, tally : [Poll!Choice -> Nat]]
        /\ timestamp \in Poll!Time
        /\ ballots \subseteq Ballot
    <3>1. /\ registry \in Poll!Registry
          /\ count = [id \in ProposalId |-> [c \in Poll!Choice |-> 0]]
          /\ voted = [id \in ProposalId |-> [a \in Account |-> FALSE]]
          /\ proposalClosed = {}
          /\ timestamp = 0
          /\ ballots = {}
      BY DEF Init, Poll!Init
    <3>2. QED
      BY <3>1, ChainAssumption
  <2>3. QED
    BY <1>1, <2>1, <2>2 DEF TypeOK
<1>3. HoldersAgree
  BY ChainAssumption DEF Init, Identity!Init, HoldersAgree
<1>4. QED
  BY <1>2, <1>3 DEF Typed

\* Every variable keeps its type, and the records of who holds what agree.
THEOREM TypeCorrect == Spec => [](TypeOK /\ HoldersAgree)
<1>1. Typed /\ [Next]_vars => Typed'
  <2> SUFFICES ASSUME Typed, [Next]_vars PROVE Typed'
    OBVIOUS
  <2>1. ASSUME NEW a \in Caller, NEW d \in Dni \cup {NoHash},
               NEW f \in Face \cup {NoHash}, Mint(a, d, f)
        PROVE  Typed'
    BY <2>1, CallersAreAccounts, MintTyped
  <2>2. ASSUME NEW a \in Caller, NEW t \in Identity!TokenId, Burn(a, t)
        PROVE  Typed'
    BY <2>2, CallersAreAccounts, BurnTyped
  <2>3. ASSUME UNCHANGED vars
        PROVE  Typed'
    BY <2>3 DEF Typed, TypeOK, HoldersAgree, vars, identityVars, pollVars
  <2>4. ASSUME NEW a \in Caller, NEW from \in Account, NEW to \in Account,
               NEW t \in Identity!TokenId, TransferFrom(a, from, to, t)
        PROVE  Typed'
    <3>1. UNCHANGED vars
      BY <2>4, CallersAreAccounts, TransferAlwaysReverts DEF Typed
    <3>2. QED
      BY <3>1, <2>3
  <2>5. ASSUME NEW a \in Caller, NEW d \in Dni \cup {NoHash}, Register(a, d)
        PROVE  Typed'
    BY <2>5, CallersAreAccounts, RegisterTyped
  <2>6. ASSUME NEW a \in Caller, NEW id \in ProposalId, NEW c \in Poll!Choice,
               CastVote(a, id, c)
        PROVE  Typed'
    BY <2>6, CallersAreAccounts, CastVoteTyped
  <2>7. ASSUME NEW id \in ProposalId, Close(id)
        PROVE  Typed'
    BY <2>7, CloseTyped
  <2>8. QED
    BY <2>1, <2>2, <2>3, <2>4, <2>5, <2>6, <2>7, ReturnToMintTyped, NextBlockTyped DEF Next
<1>2. QED
  BY <1>1, InitTyped, PTL DEF Spec, Typed

\* Between two calls the four records of who holds what agree.
THEOREM HoldersAlwaysAgree == Spec => []HoldersAgree
BY TypeCorrect, PTL

--------------------------------------------------------------------------------
(* Where cedulas and ballots come from: the strengthening under which one     *)
(* person has one ballot.                                                     *)

\* Ids are given out in order, none is given out twice or skipped.
IdsInOrder ==
    /\ \A m \in Issued : m.tokenId < nextId
    /\ \A t \in Identity!TokenId : t < nextId => \E m \in Issued : m.tokenId = t

\* What an owner holds was issued to it, with the hash the token still carries.
OwnersWereIssued ==
    \A t \in Identity!TokenId : owner[t] # NoAccount =>
        \E m \in Issued : m.tokenId = t /\ m.holder = owner[t] /\ m.dni = dniOf[t]

\* The _voted marks are exactly the voters of the ballots, and no address has
\* two ballots on a proposal.
OneBallotPerAddress ==
    /\ \A b \in ballots : voted[b.proposalId][b.voter]
    /\ \A b, c \in ballots :
         b.proposalId = c.proposalId /\ b.voter = c.voter => b = c

Provenance ==
    /\ CommitmentsBoundOnce
    /\ IdsInOrder
    /\ OwnersWereIssued
    /\ OneBallotPerAddress
    /\ BallotsComeFromCedulas

\* A mint issues one cedula, at once or through the stack of callbacks.
LEMMA MintIssues ==
    ASSUME Typed, NEW a \in Account, NEW d \in Dni \cup {NoHash},
           NEW f \in Face \cup {NoHash}, Mint(a, d, f)
    PROVE  Issued' = Issued \cup {[holder |-> a, tokenId |-> nextId, dni |-> d, face |-> f]}
<1> DEFINE c == [holder |-> a, tokenId |-> nextId, dni |-> d, face |-> f]
<1>0. Identity!Mint(a, d, f) /\ frames \in Seq(Identity!Cedula)
  BY DEF Mint, Typed, TypeOK
<1>1. CASE a \in Contract
  <2>1. frames' = Append(frames, c) /\ cedulaMinted' = cedulaMinted
    BY <1>0, <1>1 DEF Identity!Mint, Identity!MayMint
  <2>2. c \in Identity!Cedula
    BY <1>0, MintEffect DEF Typed
  <2>3. {frames'[i] : i \in DOMAIN frames'} = {frames[i] : i \in DOMAIN frames} \cup {c}
    <3> HIDE DEF c
    <3>1. /\ DOMAIN frames = 1 .. Len(frames)
          /\ DOMAIN frames' = 1 .. Len(frames) + 1
          /\ Len(frames) \in Nat
          /\ \A i \in 1 .. Len(frames) : frames'[i] = frames[i]
          /\ frames'[Len(frames) + 1] = c
      BY <2>1, <2>2, <1>0
    <3>2. QED
      BY <3>1
  <2>4. QED
    BY <2>1, <2>3 DEF Issued
<1>2. CASE a \notin Contract
  <2>1. frames' = frames /\ cedulaMinted' = cedulaMinted \cup {c}
    BY <1>0, <1>2 DEF Identity!Mint, Identity!MayMint
  <2>2. QED
    BY <2>1 DEF Issued
<1>3. QED
  BY <1>1, <1>2

\* The return of a callback moves a cedula from the stack to the log.
LEMMA ReturnIssuesNothing == ASSUME Typed, ReturnToMint PROVE Issued' = Issued
<1>1. /\ frames # <<>>
      /\ cedulaMinted' = cedulaMinted \cup {frames[Len(frames)]}
      /\ frames' = SubSeq(frames, 1, Len(frames) - 1)
      /\ frames \in Seq(Identity!Cedula)
  BY DEF ReturnToMint, Identity!ReturnToMint, Typed, TypeOK
<1>2. /\ DOMAIN frames = 1 .. Len(frames)
      /\ Len(frames) \in Nat \ {0}
      /\ DOMAIN frames' = 1 .. Len(frames) - 1
      /\ \A i \in 1 .. Len(frames) - 1 : frames'[i] = frames[i]
  BY <1>1
<1>3. {frames[i] : i \in DOMAIN frames}
        = {frames'[i] : i \in DOMAIN frames'} \cup {frames[Len(frames)]}
  BY <1>2
<1>4. QED
  BY <1>1, <1>3 DEF Issued

\* Issued cedulas are well-formed.
LEMMA IssuedType == ASSUME Typed PROVE Issued \subseteq Identity!Cedula
  BY DEF Typed, TypeOK, Issued

LEMMA MintProvenance ==
    ASSUME Typed, Provenance, NEW a \in Account, NEW d \in Dni \cup {NoHash},
           NEW f \in Face \cup {NoHash}, Mint(a, d, f)
    PROVE  Provenance'
<1> DEFINE c == [holder |-> a, tokenId |-> nextId, dni |-> d, face |-> f]
<1>1. /\ Issued' = Issued \cup {c}
      /\ Issued \subseteq Identity!Cedula
  BY MintIssues, IssuedType
<1>2. Identity!Mint(a, d, f) /\ UNCHANGED <<hashes, pollVars, ballots>>
  BY DEF Mint
<1>3. /\ nextId \in Identity!TokenId
      /\ d \in Dni
      /\ f \in Face
      /\ c \in Identity!Cedula
      /\ owner' = [owner EXCEPT ![nextId] = a]
  BY <1>2, MintEffect DEF Typed
<1>4. /\ d \notin usedDni
      /\ f \notin usedFace
      /\ nextId' = nextId + 1
      /\ usedDni' = usedDni \cup {d}
      /\ usedFace' = usedFace \cup {f}
      /\ dniOf' = [dniOf EXCEPT ![nextId] = d]
  BY <1>2 DEF Identity!Mint, Identity!MayMint
<1>5. /\ c.holder = a
      /\ c.tokenId = nextId
      /\ c.dni = d
      /\ c.face = f
  OBVIOUS
<1> HIDE DEF c
<1>6. CommitmentsBoundOnce'
  <2>1. ASSUME NEW m \in Issued
        PROVE  m.dni # c.dni /\ m.face # c.face /\ m.tokenId # c.tokenId
    BY <1>1, <1>3, <1>4, <1>5 DEF Provenance, CommitmentsBoundOnce, IdsInOrder, Identity!Cedula
  <2>2. \A m, n \in Issued' :
           m.dni = n.dni \/ m.face = n.face \/ m.tokenId = n.tokenId => m = n
    BY <1>1, <2>1 DEF Provenance, CommitmentsBoundOnce
  <2>3. usedDni' = {m.dni : m \in Issued'} /\ usedFace' = {m.face : m \in Issued'}
    BY <1>1, <1>4, <1>5 DEF Provenance, CommitmentsBoundOnce
  <2>4. QED
    BY <2>2, <2>3 DEF CommitmentsBoundOnce
<1>7. IdsInOrder'
  <2>1. ASSUME NEW m \in Issued'
        PROVE  m.tokenId < nextId'
    BY <1>1, <1>3, <1>4, <1>5 DEF Provenance, IdsInOrder, Identity!Cedula
  <2>2. ASSUME NEW t \in Identity!TokenId, t < nextId'
        PROVE  \E m \in Issued' : m.tokenId = t
    <3>1. t < nextId \/ t = nextId
      BY <2>2, <1>3, <1>4
    <3>2. QED
      BY <3>1, <1>1, <1>5 DEF Provenance, IdsInOrder
  <2>3. QED
    BY <2>1, <2>2 DEF IdsInOrder
<1>8. OwnersWereIssued'
  <2>1. ASSUME NEW t \in Identity!TokenId, owner'[t] # NoAccount
        PROVE  \E m \in Issued' : m.tokenId = t /\ m.holder = owner'[t] /\ m.dni = dniOf'[t]
    <3>1. CASE t = nextId
      BY <3>1, <1>1, <1>3, <1>4, <1>5 DEF Typed, TypeOK
    <3>2. CASE t # nextId
      BY <3>2, <2>1, <1>1, <1>3, <1>4 DEF Typed, TypeOK, Provenance, OwnersWereIssued
    <3>3. QED
      BY <3>1, <3>2
  <2>2. QED
    BY <2>1 DEF OwnersWereIssued
<1>9. OneBallotPerAddress' /\ BallotsComeFromCedulas'
  BY <1>1, <1>2 DEF Provenance, OneBallotPerAddress, BallotsComeFromCedulas, pollVars
<1>10. QED
  BY <1>6, <1>7, <1>8, <1>9 DEF Provenance

LEMMA BurnProvenance ==
    ASSUME Typed, Provenance, NEW a \in Account, NEW t \in Identity!TokenId, Burn(a, t)
    PROVE  Provenance'
<1>1. /\ dniOf' = [dniOf EXCEPT ![t] = NoHash]
      /\ UNCHANGED <<nextId, usedDni, usedFace, frames, cedulaMinted,
                     hashes, pollVars, ballots>>
  BY DEF Burn, Identity!Burn
<1>2. owner' = [owner EXCEPT ![t] = NoAccount]
  BY BurnEffect DEF Burn
<1>3. Issued' = Issued
  BY <1>1 DEF Issued
<1>4. CommitmentsBoundOnce' /\ IdsInOrder'
  BY <1>1, <1>3 DEF Provenance, CommitmentsBoundOnce, IdsInOrder
<1>5. OwnersWereIssued'
  BY <1>1, <1>2, <1>3 DEF Provenance, OwnersWereIssued, Typed, TypeOK
<1>6. OneBallotPerAddress' /\ BallotsComeFromCedulas'
  BY <1>1, <1>3 DEF Provenance, OneBallotPerAddress, BallotsComeFromCedulas, pollVars
<1>7. QED
  BY <1>4, <1>5, <1>6 DEF Provenance

\* The heart of it: a registered voter holds a token that was issued to it, so
\* its ballot carries the hash of a cedula issued to it.
LEMMA CastVoteProvenance ==
    ASSUME Typed, Provenance, NEW a \in Account, NEW id \in ProposalId,
           NEW c \in Poll!Choice, CastVote(a, id, c)
    PROVE  Provenance'
<1> DEFINE b == [voter |-> a, proposalId |-> id, choice |-> c, dni |-> HashOf(a)]
<1>1. /\ IsRegistered(a)
      /\ ~voted[id][a]
      /\ voted' = [voted EXCEPT ![id] = [voted[id] EXCEPT ![a] = TRUE]]
      /\ registry' = registry
  BY Zenon DEF CastVote, Poll!CastVote, Poll!MayCastVote
<1>2. /\ ballots' = ballots \cup {b}
      /\ UNCHANGED <<identityVars, hashes>>
  BY DEF CastVote
<1>3. b.voter = a /\ b.proposalId = id /\ b.dni = HashOf(a)
  OBVIOUS
<1> HIDE DEF b
<1>4. Issued' = Issued
  BY <1>2 DEF Issued, identityVars
<1>5. CommitmentsBoundOnce' /\ IdsInOrder' /\ OwnersWereIssued'
  BY <1>2, <1>4
  DEF Provenance, CommitmentsBoundOnce, IdsInOrder, OwnersWereIssued, identityVars
<1>6. OneBallotPerAddress'
  <2>1. ASSUME NEW x \in ballots
        PROVE  voted'[x.proposalId][x.voter] /\ ~(x.proposalId = id /\ x.voter = a)
    <3>1. x.proposalId \in ProposalId /\ x.voter \in Account
      BY DEF Typed, TypeOK, Ballot
    <3>2. QED
      BY <3>1, <1>1 DEF Typed, TypeOK, Provenance, OneBallotPerAddress
  <2>2. voted'[id][a]
    BY <1>1 DEF Typed, TypeOK
  <2>3. QED
    BY <2>1, <2>2, <1>2, <1>3 DEF Provenance, OneBallotPerAddress
<1>7. BallotsComeFromCedulas'
  <2>1. SUFFICES ASSUME registry = "IdentitySBT"
                 PROVE  \E m \in Issued : m.holder = a /\ m.dni = HashOf(a)
    BY <1>1, <1>2, <1>3, <1>4 DEF Provenance, BallotsComeFromCedulas
  <2>2. balance[a] > 0
    BY <1>1, <2>1 DEF IsRegistered, Identity!IsRegistered
  <2>3. tokenOfOwner[a] \in Identity!TokenId
    BY <2>2, ChainAssumption DEF Typed, TypeOK, HoldersAgree
  <2>4. owner[tokenOfOwner[a]] = a /\ a # NoAccount
    BY <2>3, ChainAssumption DEF Typed, HoldersAgree
  <2>5. HashOf(a) = dniOf[tokenOfOwner[a]]
    BY <2>1, <2>3 DEF HashOf, Identity!HashOf
  <2>6. QED
    BY <2>3, <2>4, <2>5 DEF Provenance, OwnersWereIssued
<1>8. QED
  BY <1>5, <1>6, <1>7 DEF Provenance

\* A step that leaves the issued cedulas, the tokens, the ballots and the marks
\* alone keeps Provenance.
LEMMA FrameProvenance ==
    ASSUME Provenance, Issued' = Issued,
           UNCHANGED <<nextId, usedDni, usedFace, owner, dniOf, ballots, voted, registry>>
    PROVE  Provenance'
  BY DEF Provenance, CommitmentsBoundOnce, IdsInOrder, OwnersWereIssued,
         OneBallotPerAddress, BallotsComeFromCedulas

LEMMA InitProvenance == Init => Provenance
<1> SUFFICES ASSUME Init PROVE Provenance
  OBVIOUS
<1>1. /\ nextId = 1 /\ usedDni = {} /\ usedFace = {} /\ ballots = {}
      /\ frames = <<>> /\ cedulaMinted = {}
      /\ owner = [t \in Identity!TokenId |-> NoAccount]
  BY DEF Init, Identity!Init
<1>2. Issued = {}
  BY <1>1 DEF Issued
<1>3. QED
  BY <1>1, <1>2, ChainAssumption
  DEF Provenance, CommitmentsBoundOnce, IdsInOrder, OwnersWereIssued,
      OneBallotPerAddress, BallotsComeFromCedulas

LEMMA ProvenanceHolds == Spec => []Provenance
<1>1. Typed /\ Provenance /\ [Next]_vars => Provenance'
  <2> SUFFICES ASSUME Typed, Provenance, [Next]_vars PROVE Provenance'
    OBVIOUS
  <2>1. ASSUME NEW a \in Caller, NEW d \in Dni \cup {NoHash},
               NEW f \in Face \cup {NoHash}, Mint(a, d, f)
        PROVE  Provenance'
    BY <2>1, CallersAreAccounts, MintProvenance
  <2>2. ASSUME NEW a \in Caller, NEW t \in Identity!TokenId, Burn(a, t)
        PROVE  Provenance'
    BY <2>2, CallersAreAccounts, BurnProvenance
  <2>3. ASSUME UNCHANGED vars
        PROVE  Provenance'
    <3>1. Issued' = Issued
      BY <2>3 DEF vars, identityVars, Issued
    <3>2. QED
      BY <3>1, <2>3, FrameProvenance DEF vars, identityVars, pollVars
  <2>4. ASSUME NEW a \in Caller, NEW from \in Account, NEW to \in Account,
               NEW t \in Identity!TokenId, TransferFrom(a, from, to, t)
        PROVE  Provenance'
    <3>1. UNCHANGED vars
      BY <2>4, CallersAreAccounts, TransferAlwaysReverts DEF Typed
    <3>2. QED
      BY <3>1, <2>3
  <2>5. ASSUME NEW a \in Caller, NEW d \in Dni \cup {NoHash}, Register(a, d)
        PROVE  Provenance'
    <3>1. UNCHANGED <<identityVars, pollVars, ballots>>
      BY <2>5 DEF Register
    <3>2. Issued' = Issued
      BY <3>1 DEF identityVars, Issued
    <3>3. QED
      BY <3>1, <3>2, FrameProvenance DEF identityVars, pollVars
  <2>6. ASSUME NEW a \in Caller, NEW id \in ProposalId, NEW c \in Poll!Choice,
               CastVote(a, id, c)
        PROVE  Provenance'
    BY <2>6, CallersAreAccounts, CastVoteProvenance
  <2>7. ASSUME NEW id \in ProposalId, Close(id)
        PROVE  Provenance'
    <3>1. UNCHANGED <<registry, voted, identityVars, ballots>>
      BY <2>7, CloseEffect DEF Typed
    <3>2. Issued' = Issued
      BY <3>1 DEF identityVars, Issued
    <3>3. QED
      BY <3>1, <3>2, FrameProvenance DEF identityVars
  <2>8. ASSUME NextBlock
        PROVE  Provenance'
    <3>1. UNCHANGED <<registry, voted, identityVars, ballots>>
      BY <2>8 DEF NextBlock, Poll!NextBlock
    <3>2. Issued' = Issued
      BY <3>1 DEF identityVars, Issued
    <3>3. QED
      BY <3>1, <3>2, FrameProvenance DEF identityVars
  <2>9. ASSUME ReturnToMint
        PROVE  Provenance'
    <3>1. UNCHANGED <<nextId, usedDni, usedFace, owner, dniOf, pollVars, ballots>>
      BY <2>9 DEF ReturnToMint, Identity!ReturnToMint
    <3>2. QED
      BY <3>1, <2>9, ReturnIssuesNothing, FrameProvenance DEF pollVars
  <2>10. QED
    BY <2>1, <2>2, <2>3, <2>4, <2>5, <2>6, <2>7, <2>8, <2>9 DEF Next
<1>2. QED
  BY <1>1, InitProvenance, TypeCorrect, PTL DEF Spec, Typed

\* Commitments serve one cedula each, for ever, and ballots come from the
\* addresses the cedulas were issued to.
THEOREM CommitmentsAreUnique == Spec => [](CommitmentsBoundOnce /\ BallotsComeFromCedulas)
<1>1. Provenance => CommitmentsBoundOnce /\ BallotsComeFromCedulas
  BY DEF Provenance
<1>2. QED
  BY <1>1, ProvenanceHolds, PTL

\* One person, one ballot: two ballots with one dniHash come from the one cedula
\* issued for it, hence from one address, which is marked after its first.
THEOREM OnePersonOneBallot == Spec => []OneBallotPerPerson
<1>1. Provenance => OneBallotPerPerson
  <2> SUFFICES ASSUME Provenance, registry = "IdentitySBT",
                      NEW b \in ballots, NEW c \in ballots,
                      b.proposalId = c.proposalId, b.dni = c.dni
               PROVE  b = c
    BY DEF OneBallotPerPerson
  <2>1. PICK m \in Issued : m.holder = b.voter /\ m.dni = b.dni
    BY DEF Provenance, BallotsComeFromCedulas
  <2>2. PICK n \in Issued : n.holder = c.voter /\ n.dni = c.dni
    BY DEF Provenance, BallotsComeFromCedulas
  <2>3. m = n
    BY <2>1, <2>2 DEF Provenance, CommitmentsBoundOnce
  <2>4. QED
    BY <2>1, <2>2, <2>3 DEF Provenance, OneBallotPerAddress
<1>2. QED
  BY <1>1, ProvenanceHolds, PTL

--------------------------------------------------------------------------------
(* The result and the cedulas over time. *)

\* A cedula never changes hands and never comes back after a burn.
THEOREM CedulasAreSoulbound == Spec => Soulbound
<1>1. Typed /\ [Next]_vars =>
        [\A t \in Identity!TokenId : t < nextId => owner'[t] \in {owner[t], NoAccount}]_vars
  <2> SUFFICES ASSUME Typed, Next, NEW t \in Identity!TokenId, t < nextId
               PROVE  owner'[t] \in {owner[t], NoAccount}
    OBVIOUS
  <2>1. ASSUME NEW a \in Caller, NEW d \in Dni \cup {NoHash},
               NEW f \in Face \cup {NoHash}, Mint(a, d, f)
        PROVE  owner'[t] = owner[t]
    <3>0. a \in Account /\ Identity!Mint(a, d, f) /\ TypeOK
      BY <2>1, CallersAreAccounts DEF Mint, Typed
    <3>1. owner' = [owner EXCEPT ![nextId] = a]
      BY <3>0, MintEffect
    <3>2. nextId # t
      BY DEF Typed, TypeOK
    <3>3. QED
      BY <3>1, <3>2 DEF Typed, TypeOK
  <2>2. ASSUME NEW a \in Caller, NEW s \in Identity!TokenId, Burn(a, s)
        PROVE  owner'[t] \in {owner[t], NoAccount}
    <3>1. owner' = [owner EXCEPT ![s] = NoAccount]
      BY <2>2, CallersAreAccounts, BurnEffect DEF Burn
    <3>2. QED
      BY <3>1 DEF Typed, TypeOK
  <2>3. ASSUME NEW a \in Caller, NEW from \in Account, NEW to \in Account,
               NEW s \in Identity!TokenId, TransferFrom(a, from, to, s)
        PROVE  owner' = owner
    BY <2>3, CallersAreAccounts, TransferAlwaysReverts DEF Typed, vars, identityVars
  <2>4. CASE ReturnToMint
    BY <2>4 DEF ReturnToMint, Identity!ReturnToMint
  <2>5. CASE \E id \in ProposalId : Close(id)
    BY <2>5, Zenon DEF Close, identityVars
  <2>6. CASE \/ \E a \in Caller, d \in Dni \cup {NoHash} : Register(a, d)
             \/ \E a \in Caller, id \in ProposalId, c \in Poll!Choice : CastVote(a, id, c)
             \/ NextBlock
    BY <2>6, Zenon DEF Register, CastVote, NextBlock, identityVars
  <2>7. QED
    BY <2>1, <2>2, <2>3, <2>4, <2>5, <2>6 DEF Next
<1>2. QED
  BY <1>1, TypeCorrect, PTL DEF Spec, Soulbound, Typed

\* Every step is a vote, a close, or leaves the vote's records alone.
LEMMA ElectionSteps ==
    ASSUME [Next]_vars
    PROVE  \/ UNCHANGED <<registry, proposals, count, voted, proposalClosed, ballots>>
           \/ \E a \in Account, id \in ProposalId, c \in Poll!Choice : CastVote(a, id, c)
           \/ \E id \in ProposalId : Close(id)
<1> USE DEF pollVars
<1>1. ASSUME NEW a \in Caller, NEW d \in Dni \cup {NoHash},
             NEW f \in Face \cup {NoHash}, Mint(a, d, f)
      PROVE  UNCHANGED <<pollVars, ballots>>
  BY <1>1 DEF Mint
<1>2. ASSUME NEW a \in Caller, NEW t \in Identity!TokenId, Burn(a, t)
      PROVE  UNCHANGED <<pollVars, ballots>>
  BY <1>2 DEF Burn
<1>3. ASSUME NEW a \in Caller, NEW from \in Account, NEW to \in Account,
             NEW t \in Identity!TokenId, TransferFrom(a, from, to, t)
      PROVE  UNCHANGED <<pollVars, ballots>>
  BY <1>3 DEF TransferFrom
<1>4. ASSUME NEW a \in Caller, NEW d \in Dni \cup {NoHash}, Register(a, d)
      PROVE  UNCHANGED <<pollVars, ballots>>
  BY <1>4 DEF Register
<1>5. ASSUME ReturnToMint
      PROVE  UNCHANGED <<pollVars, ballots>>
  BY <1>5 DEF ReturnToMint
<1>6. ASSUME NextBlock
      PROVE  UNCHANGED <<registry, proposals, count, voted, proposalClosed, ballots>>
  BY <1>6 DEF NextBlock, Poll!NextBlock
<1>7. ASSUME UNCHANGED vars
      PROVE  UNCHANGED <<pollVars, ballots>>
  BY <1>7 DEF vars
<1>8. QED
  BY <1>1, <1>2, <1>3, <1>4, <1>5, <1>6, <1>7, CallersAreAccounts DEF Next

\* No vote lands behind the announced result.
THEOREM ResultsAreFinal == Spec => []ResultIsFinal
<1>1. Init => ResultIsFinal
  BY DEF Init, Poll!Init, ResultIsFinal
<1>2. Typed /\ ResultIsFinal /\ [Next]_vars => ResultIsFinal'
  <2> SUFFICES ASSUME Typed, ResultIsFinal, [Next]_vars PROVE ResultIsFinal'
    OBVIOUS
  <2>1. ASSUME UNCHANGED <<proposals, count, proposalClosed>>
        PROVE  ResultIsFinal'
    BY <2>1 DEF ResultIsFinal
  <2>2. ASSUME NEW a \in Account, NEW id \in ProposalId, NEW c \in Poll!Choice,
               CastVote(a, id, c)
        PROVE  ResultIsFinal'
    <3>1. /\ ~proposals[id].closed
          /\ count' = [count EXCEPT ![id] = [count[id] EXCEPT ![c] = count[id][c] + 1]]
          /\ UNCHANGED <<proposals, proposalClosed>>
      BY <2>2, Zenon DEF CastVote, Poll!CastVote, Poll!MayCastVote
    <3>2. ASSUME NEW e \in proposalClosed
          PROVE  count'[e.id] = count[e.id]
      BY <3>1 DEF ResultIsFinal, Typed, TypeOK
    <3>3. QED
      BY <3>1, <3>2 DEF ResultIsFinal
  <2>3. ASSUME NEW id \in ProposalId, Close(id)
        PROVE  ResultIsFinal'
    <3>1. /\ ~proposals[id].closed
          /\ proposalClosed' = proposalClosed \cup {[id |-> id, tally |-> count[id]]}
          /\ count' = count
      BY <2>3, CloseEffect DEF Typed
    <3>2. PICK p \in Poll!Proposal :
                 p.closed = TRUE /\ proposals' = [proposals EXCEPT ![id] = p]
      BY <2>3, CloseEffect DEF Typed
    <3>3. ASSUME NEW e \in proposalClosed'
          PROVE  proposals'[e.id].closed /\ e.tally = count[e.id]
      BY <3>1, <3>2 DEF ResultIsFinal, Typed, TypeOK
    <3>4. QED
      BY <3>1, <3>3 DEF ResultIsFinal
  <2>4. QED
    BY <2>1, <2>2, <2>3, ElectionSteps
<1>3. QED
  BY <1>1, <1>2, TypeCorrect, PTL DEF Spec, Typed

--------------------------------------------------------------------------------
(* The tally and the log.                                                     *)

\* TallyCountsVoters counts with Cardinality, so the ballots have to be finitely
\* many.
BallotsCounted == IsFiniteSet(ballots) /\ TallyCountsVoters

LEMMA CastVoteCounted ==
    ASSUME Typed, BallotsCounted, NEW a \in Account, NEW id \in ProposalId,
           NEW c \in Poll!Choice, CastVote(a, id, c)
    PROVE  BallotsCounted'
<1>a. PICK b : b = [voter |-> a, proposalId |-> id, choice |-> c, dni |-> HashOf(a)]
  OBVIOUS
<1> DEFINE For(i, k) == {x \in ballots : x.proposalId = i /\ x.choice = k}
<1>1. /\ ~voted[id][a]
      /\ voted' = [voted EXCEPT ![id] = [voted[id] EXCEPT ![a] = TRUE]]
      /\ count' = [count EXCEPT ![id] = [count[id] EXCEPT ![c] = count[id][c] + 1]]
  BY Zenon DEF CastVote, Poll!CastVote, Poll!MayCastVote
<1>2. ballots' = ballots \cup {b}
  BY <1>a DEF CastVote
<1>3. b.voter = a /\ b.proposalId = id /\ b.choice = c
  BY <1>a
<1>4. b \notin ballots
  BY <1>1, <1>3 DEF BallotsCounted, TallyCountsVoters
<1>5. IsFiniteSet(ballots')
  BY <1>2, FS_AddElement DEF BallotsCounted
<1>6. ASSUME NEW i \in ProposalId, NEW k \in Poll!Choice
      PROVE  count'[i][k] = Cardinality({x \in ballots' : x.proposalId = i /\ x.choice = k})
  <2>1. /\ count[i][k] = Cardinality(For(i, k))
        /\ count[i][k] \in Nat
    BY DEF BallotsCounted, TallyCountsVoters, Typed, TypeOK
  <2>2. CASE i = id /\ k = c
    <3>1. {x \in ballots' : x.proposalId = i /\ x.choice = k} = For(i, k) \cup {b}
      BY <1>2, <1>3, <2>2
    <3>2. IsFiniteSet(For(i, k)) /\ b \notin For(i, k)
      BY <1>4, FS_Subset DEF BallotsCounted
    <3>3. Cardinality(For(i, k) \cup {b}) = Cardinality(For(i, k)) + 1
      <4> HIDE DEF For
      <4> QED
        BY <3>2, FS_AddElement
    <3>4. count'[i][k] = count[i][k] + 1
      BY <1>1, <2>2 DEF Typed, TypeOK
    <3>5. QED
      BY <2>1, <3>1, <3>3, <3>4
  <2>3. CASE ~(i = id /\ k = c)
    <3>1. {x \in ballots' : x.proposalId = i /\ x.choice = k} = For(i, k)
      BY <1>2, <1>3, <2>3
    <3>2. count'[i][k] = count[i][k]
      BY <1>1, <2>3 DEF Typed, TypeOK
    <3>3. QED
      BY <2>1, <3>1, <3>2
  <2>4. QED
    BY <2>2, <2>3
<1>7. ASSUME NEW i \in ProposalId, NEW w \in Account
      PROVE  voted'[i][w] <=> \E x \in ballots' : x.proposalId = i /\ x.voter = w
  <2>1. voted[i][w] <=> \E x \in ballots : x.proposalId = i /\ x.voter = w
    BY DEF BallotsCounted, TallyCountsVoters
  <2>2. CASE i = id /\ w = a
    BY <1>1, <1>2, <1>3, <2>2 DEF Typed, TypeOK
  <2>3. CASE ~(i = id /\ w = a)
    <3>1. voted'[i][w] = voted[i][w]
      BY <1>1, <2>3 DEF Typed, TypeOK
    <3>2. QED
      BY <1>2, <1>3, <2>1, <2>3, <3>1
  <2>4. QED
    BY <2>2, <2>3
<1>8. QED
  BY <1>5, <1>6, <1>7 DEF BallotsCounted, TallyCountsVoters

\* The tally is the number of ballots of each choice, and the marks are exactly
\* the voters of the ballots.
THEOREM TallyIsTheBallots == Spec => []TallyCountsVoters
<1>1. Init => BallotsCounted
  <2> SUFFICES ASSUME Init PROVE BallotsCounted
    OBVIOUS
  <2>1. /\ ballots = {}
        /\ count = [id \in ProposalId |-> [c \in Poll!Choice |-> 0]]
        /\ voted = [id \in ProposalId |-> [a \in Account |-> FALSE]]
    BY DEF Init, Poll!Init
  <2>2. ASSUME NEW id \in ProposalId, NEW c \in Poll!Choice
        PROVE  {b \in ballots : b.proposalId = id /\ b.choice = c} = {}
    BY <2>1
  <2>3. QED
    BY <2>1, <2>2, FS_EmptySet DEF BallotsCounted, TallyCountsVoters
<1>2. Typed /\ BallotsCounted /\ [Next]_vars => BallotsCounted'
  <2> SUFFICES ASSUME Typed, BallotsCounted, [Next]_vars PROVE BallotsCounted'
    OBVIOUS
  <2>1. ASSUME UNCHANGED <<count, voted, ballots>>
        PROVE  BallotsCounted'
    BY <2>1 DEF BallotsCounted, TallyCountsVoters
  <2>2. ASSUME NEW id \in ProposalId, Close(id)
        PROVE  UNCHANGED <<count, voted, ballots>>
    BY <2>2, CloseEffect DEF Typed
  <2>3. QED
    BY <2>1, <2>2, CastVoteCounted, ElectionSteps
<1>3. QED
  BY <1>1, <1>2, TypeCorrect, PTL DEF Spec, Typed, BallotsCounted

\* What LogTellsHolders says between transactions holds inside a callback too,
\* when a cedula whose mint is not over counts as issued.
BurnsAreLogged ==
    /\ \A e \in cedulaBurned : e.tokenId < nextId
    /\ \A m \in Issued :
         owner[m.tokenId] # m.holder
           <=> [holder |-> m.holder, tokenId |-> m.tokenId] \in cedulaBurned

LEMMA MintLogged ==
    ASSUME Typed, Provenance, BurnsAreLogged, NEW a \in Account, NEW d \in Dni \cup {NoHash},
           NEW f \in Face \cup {NoHash}, Mint(a, d, f)
    PROVE  BurnsAreLogged'
<1>a. PICK c : c = [holder |-> a, tokenId |-> nextId, dni |-> d, face |-> f]
  OBVIOUS
<1>1. Issued' = Issued \cup {c} /\ Issued \subseteq Identity!Cedula
  BY <1>a, MintIssues, IssuedType
<1>2. /\ nextId \in Identity!TokenId
      /\ owner' = [owner EXCEPT ![nextId] = a]
  BY MintEffect DEF Mint, Typed
<1>3. nextId' = nextId + 1 /\ cedulaBurned' = cedulaBurned
  BY DEF Mint, Identity!Mint
<1>4. c.holder = a /\ c.tokenId = nextId
  BY <1>a
<1>5. \A e \in cedulaBurned' : e.tokenId < nextId'
  BY <1>2, <1>3 DEF BurnsAreLogged, Typed, TypeOK
<1>6. ASSUME NEW m \in Issued'
      PROVE  owner'[m.tokenId] # m.holder
               <=> [holder |-> m.holder, tokenId |-> m.tokenId] \in cedulaBurned'
  <2>1. CASE m = c
    BY <2>1, <1>2, <1>3, <1>4 DEF BurnsAreLogged, Typed, TypeOK
  <2>2. CASE m \in Issued
    <3>1. m.tokenId \in Identity!TokenId /\ m.tokenId # nextId
      BY <2>2, <1>1, <1>2 DEF Provenance, IdsInOrder, Identity!Cedula
    <3>2. owner'[m.tokenId] = owner[m.tokenId]
      BY <3>1, <1>2 DEF Typed, TypeOK
    <3>3. QED
      BY <2>2, <3>2, <1>3 DEF BurnsAreLogged
  <2>3. QED
    BY <1>1, <2>1, <2>2
<1>7. QED
  BY <1>5, <1>6 DEF BurnsAreLogged

LEMMA BurnLogged ==
    ASSUME Typed, Provenance, BurnsAreLogged, NEW a \in Account,
           NEW t \in Identity!TokenId, Burn(a, t)
    PROVE  BurnsAreLogged'
<1>1. /\ cedulaBurned' = cedulaBurned \cup {[holder |-> a, tokenId |-> t]}
      /\ UNCHANGED <<nextId, frames, cedulaMinted>>
  BY DEF Burn, Identity!Burn
<1>2. owner[t] = a /\ owner' = [owner EXCEPT ![t] = NoAccount]
  BY BurnEffect DEF Burn
<1>3. Issued' = Issued /\ Issued \subseteq Identity!Cedula
  BY <1>1, IssuedType DEF Issued
<1>4. PICK n \in Issued : n.tokenId = t /\ n.holder = a
  BY <1>2, ChainAssumption DEF Provenance, OwnersWereIssued
<1>5. \A e \in cedulaBurned' : e.tokenId < nextId'
  BY <1>1, <1>3, <1>4 DEF BurnsAreLogged, Provenance, IdsInOrder
<1>6. ASSUME NEW m \in Issued'
      PROVE  owner'[m.tokenId] # m.holder
               <=> [holder |-> m.holder, tokenId |-> m.tokenId] \in cedulaBurned'
  <2>1. m \in Issued /\ m.tokenId \in Identity!TokenId /\ m.holder \in Account
    BY <1>3 DEF Identity!Cedula
  <2>2. CASE m.tokenId = t
    <3>1. m.holder = a
      BY <2>1, <2>2, <1>4 DEF Provenance, CommitmentsBoundOnce
    <3>2. QED
      BY <2>2, <3>1, <1>1, <1>2, ChainAssumption DEF Typed, TypeOK
  <2>3. CASE m.tokenId # t
    <3>1. owner'[m.tokenId] = owner[m.tokenId]
      BY <2>1, <2>3, <1>2 DEF Typed, TypeOK
    <3>2. [holder |-> m.holder, tokenId |-> m.tokenId] # [holder |-> a, tokenId |-> t]
      BY <2>3
    <3>3. QED
      BY <2>1, <3>1, <3>2, <1>1 DEF BurnsAreLogged
  <2>4. QED
    BY <2>2, <2>3
<1>7. QED
  BY <1>5, <1>6 DEF BurnsAreLogged

\* A step that leaves the issued cedulas, the owners and the log of burns alone.
LEMMA FrameLogged ==
    ASSUME BurnsAreLogged, Issued' = Issued, UNCHANGED <<nextId, owner, cedulaBurned>>
    PROVE  BurnsAreLogged'
  BY DEF BurnsAreLogged

LEMMA BurnsAreLoggedHolds == Spec => []BurnsAreLogged
<1>1. Init => BurnsAreLogged
  BY DEF Init, Identity!Init, BurnsAreLogged, Issued
<1>2. Typed /\ Provenance /\ BurnsAreLogged /\ [Next]_vars => BurnsAreLogged'
  <2> SUFFICES ASSUME Typed, Provenance, BurnsAreLogged, [Next]_vars
               PROVE  BurnsAreLogged'
    OBVIOUS
  <2>1. ASSUME NEW a \in Caller, NEW d \in Dni \cup {NoHash},
               NEW f \in Face \cup {NoHash}, Mint(a, d, f)
        PROVE  BurnsAreLogged'
    BY <2>1, CallersAreAccounts, MintLogged
  <2>2. ASSUME NEW a \in Caller, NEW t \in Identity!TokenId, Burn(a, t)
        PROVE  BurnsAreLogged'
    BY <2>2, CallersAreAccounts, BurnLogged
  <2>3. ASSUME UNCHANGED identityVars
        PROVE  BurnsAreLogged'
    BY <2>3, FrameLogged DEF identityVars, Issued
  <2>4. ASSUME NEW a \in Caller, NEW from \in Account, NEW to \in Account,
               NEW t \in Identity!TokenId, TransferFrom(a, from, to, t)
        PROVE  UNCHANGED identityVars
    BY <2>4, CallersAreAccounts, TransferAlwaysReverts DEF Typed, vars
  <2>5. CASE ReturnToMint
    BY <2>5, ReturnIssuesNothing, FrameLogged DEF ReturnToMint, Identity!ReturnToMint
  <2>6. CASE \/ \E a \in Caller, d \in Dni \cup {NoHash} : Register(a, d)
             \/ \E a \in Caller, id \in ProposalId, c \in Poll!Choice : CastVote(a, id, c)
             \/ \E id \in ProposalId : Close(id)
             \/ NextBlock
    <3>1. UNCHANGED identityVars
      BY <2>6, Zenon DEF Register, CastVote, Close, NextBlock
    <3>2. QED
      BY <3>1, <2>3
  <2>7. CASE UNCHANGED vars
    BY <2>7, <2>3 DEF vars
  <2>8. QED
    BY <2>1, <2>2, <2>3, <2>4, <2>5, <2>6, <2>7 DEF Next
<1>3. QED
  BY <1>1, <1>2, TypeCorrect, ProvenanceHolds, PTL DEF Spec, Typed

\* Between transactions the events tell who holds what.
THEOREM LogTells == Spec => []LogTellsHolders
<1>1. Typed /\ Provenance /\ BurnsAreLogged => LogTellsHolders
  <2> SUFFICES ASSUME Typed, Provenance, BurnsAreLogged, frames = <<>>
               PROVE  /\ {m.tokenId : m \in cedulaMinted} = 1 .. nextId - 1
                      /\ \A m \in cedulaMinted :
                           owner[m.tokenId] # m.holder
                             <=> [holder |-> m.holder, tokenId |-> m.tokenId] \in cedulaBurned
    BY DEF LogTellsHolders
  <2>1. Issued = cedulaMinted
    BY DEF Issued
  <2>2. ASSUME NEW m \in Issued
        PROVE  m.tokenId \in 1 .. nextId - 1
    BY IssuedType DEF Provenance, IdsInOrder, Identity!Cedula, Typed, TypeOK
  <2>3. ASSUME NEW t \in 1 .. nextId - 1
        PROVE  \E m \in Issued : m.tokenId = t
    BY ChainAssumption, SMTT(30) DEF Provenance, IdsInOrder, Typed, TypeOK
  <2>4. QED
    BY <2>1, <2>2, <2>3 DEF BurnsAreLogged
<1>2. QED
  BY <1>1, TypeCorrect, ProvenanceHolds, BurnsAreLoggedHolds, PTL DEF Typed

--------------------------------------------------------------------------------
(* What a reader of the chain may rely on at a later block. *)

\* Nothing a reader was told is taken back: no event disappears, no count falls,
\* no closed proposal reopens and nobody leaves the CitizenRegistry.
LEMMA NothingIsTakenBack ==
    ASSUME TypeOK, [Next]_vars
    PROVE  /\ cedulaMinted \subseteq cedulaMinted'
           /\ cedulaBurned \subseteq cedulaBurned'
           /\ \A id \in ProposalId : proposals[id].closed => proposals'[id].closed
           /\ \A id \in ProposalId, c \in Poll!Choice : count[id][c] <= count'[id][c]
           /\ \A a \in Account : hashes[a] # NoHash => hashes'[a] # NoHash
<1> DEFINE Goal == /\ cedulaMinted \subseteq cedulaMinted'
                   /\ cedulaBurned \subseteq cedulaBurned'
                   /\ \A id \in ProposalId : proposals[id].closed => proposals'[id].closed
                   /\ \A id \in ProposalId, c \in Poll!Choice : count[id][c] <= count'[id][c]
                   /\ \A a \in Account : hashes[a] # NoHash => hashes'[a] # NoHash
<1>0. \A id \in ProposalId, c \in Poll!Choice : count[id][c] \in Nat
  BY DEF TypeOK
<1>1. ASSUME cedulaMinted \subseteq cedulaMinted', cedulaBurned \subseteq cedulaBurned',
             UNCHANGED <<proposals, count, hashes>>
      PROVE  Goal
  BY <1>0, <1>1
<1>2. ASSUME NEW a \in Caller, NEW d \in Dni \cup {NoHash}, NEW f \in Face \cup {NoHash},
             Mint(a, d, f)
      PROVE  Goal
  BY <1>1, <1>2 DEF Mint, pollVars, Identity!Mint
<1>3. ASSUME NEW a \in Caller, NEW t \in Identity!TokenId, Burn(a, t) PROVE Goal
  BY <1>1, <1>3 DEF Burn, pollVars, Identity!Burn
<1>4. ASSUME NEW a \in Caller, NEW from \in Account, NEW to \in Account,
             NEW t \in Identity!TokenId, TransferFrom(a, from, to, t)
      PROVE  Goal
  <2>1. UNCHANGED vars
    BY <1>4, CallersAreAccounts, TransferAlwaysReverts
  <2>2. QED
    BY <1>1, <2>1 DEF vars, identityVars, pollVars
<1>5. ASSUME NEW a \in Caller, NEW d \in Dni \cup {NoHash}, Register(a, d) PROVE Goal
  <2>1. UNCHANGED <<cedulaMinted, cedulaBurned, proposals, count>>
    BY <1>5 DEF Register, identityVars, pollVars
  <2>2. d # NoHash /\ hashes' = [hashes EXCEPT ![a] = d]
    BY <1>5 DEF Register, Citizens!Register
  <2>3. \A x \in Account : hashes[x] # NoHash => hashes'[x] # NoHash
    BY <2>2 DEF TypeOK
  <2>4. QED
    BY <1>0, <2>1, <2>3
<1>6. ASSUME NEW a \in Caller, NEW i \in ProposalId, NEW c \in Poll!Choice, CastVote(a, i, c)
      PROVE  Goal
  <2>1. UNCHANGED <<cedulaMinted, cedulaBurned, proposals, hashes>>
    BY <1>6 DEF CastVote, Poll!CastVote, identityVars
  <2>2. count' = [count EXCEPT ![i][c] = @ + 1]
    BY <1>6 DEF CastVote, Poll!CastVote
  <2>3. \A id \in ProposalId, x \in Poll!Choice :
          count'[id][x] = count[id][x] \/ count'[id][x] = count[id][x] + 1
    BY <2>2 DEF TypeOK
  <2>4. \A id \in ProposalId, x \in Poll!Choice : count[id][x] <= count'[id][x]
    BY <1>0, <2>3
  <2>5. QED
    BY <2>1, <2>4
<1>7. CASE ReturnToMint
  BY <1>1, <1>7 DEF ReturnToMint, Identity!ReturnToMint, pollVars
<1>8. ASSUME NEW i \in ProposalId, Close(i) PROVE Goal
  <2>1. UNCHANGED <<cedulaMinted, cedulaBurned, count, hashes>>
    BY <1>8 DEF Close, Poll!Close, identityVars
  <2>2. proposals' = [proposals EXCEPT ![i].closed = TRUE]
    BY <1>8 DEF Close, Poll!Close
  <2>3. \A id \in ProposalId : proposals[id].closed => proposals'[id].closed
    BY <2>2 DEF TypeOK, Poll!Proposal
  <2>4. QED
    BY <1>0, <2>1, <2>3
<1>9. CASE NextBlock
  BY <1>1, <1>9 DEF NextBlock, Poll!NextBlock, identityVars
<1>10. CASE UNCHANGED vars
  BY <1>1, <1>10 DEF vars, identityVars, pollVars
<1>11. QED
  BY <1>2, <1>3, <1>4, <1>5, <1>6, <1>7, <1>8, <1>9, <1>10 DEF Next

--------------------------------------------------------------------------------
(* The chain implements Election. *)

\* Only proposal 1 exists.
OnlyProposalOne == \A id \in ProposalId : proposals[id].id # 0 => id = 1

LEMMA OnlyProposalOneHolds == Spec => []OnlyProposalOne
<1>1. Init => OnlyProposalOne
  BY DEF Init, Poll!Init, OnlyProposalOne
<1>2. Typed /\ OnlyProposalOne /\ [Next]_vars => OnlyProposalOne'
  <2> SUFFICES ASSUME Typed, OnlyProposalOne, [Next]_vars PROVE OnlyProposalOne'
    OBVIOUS
  <2>1. CASE proposals' = proposals
    BY <2>1 DEF OnlyProposalOne
  <2>2. ASSUME NEW a \in Account, NEW id \in ProposalId, NEW c \in Poll!Choice,
               CastVote(a, id, c)
        PROVE  proposals' = proposals
    BY <2>2, Zenon DEF CastVote, Poll!CastVote, Poll!MayCastVote
  <2>3. ASSUME NEW id \in ProposalId, Close(id)
        PROVE  OnlyProposalOne'
    <3>1. PICK p \in Poll!Proposal :
                 p.id = proposals[id].id /\ proposals' = [proposals EXCEPT ![id] = p]
      BY <2>3, CloseEffect DEF Typed
    <3>2. QED
      BY <3>1 DEF OnlyProposalOne, Typed, TypeOK
  <2>4. QED
    BY <2>1, <2>2, <2>3, ElectionSteps
<1>3. QED
  BY <1>1, <1>2, TypeCorrect, PTL DEF Spec, Typed

Voter == Account \cup Dni

\* The tally of the contract is the abstract count of the ballots.
TallyIsElected ==
    \A c \in Poll!Choice :
        /\ IsFiniteSet({v \in Voter : BallotOf[v] = c})
        /\ count[1][c] = Cardinality({v \in Voter : BallotOf[v] = c})

Refines ==
    /\ Typed
    /\ Provenance
    /\ ResultIsFinal
    /\ OnlyProposalOne

\* BallotOf reads only the ballots and which registry is wired.
LEMMA SameBallots == ASSUME UNCHANGED <<registry, ballots>> PROVE BallotOf' = BallotOf
  BY DEF BallotOf, CastBy, VoterOf

\* Nothing is certified while the proposal is open.
LEMMA OpenMeansNoResult ==
    ASSUME Refines, ~proposals[1].closed
    PROVE  {e.tally : e \in {x \in proposalClosed : x.id = 1}} = {}
  BY DEF Refines, ResultIsFinal

\* A vote is the first ballot of the person (or address) it counts for.
LEMMA CastVoteElects ==
    ASSUME Refines, Provenance', NEW a \in Account, NEW id \in ProposalId,
           NEW c \in Poll!Choice, CastVote(a, id, c)
    PROVE  /\ ~proposals[1].closed
           /\ UNCHANGED proposalClosed
           /\ count' = [count EXCEPT ![1] = [count[1] EXCEPT ![c] = count[1][c] + 1]]
           /\ \E v \in Voter : BallotOf[v] = "none" /\ BallotOf' = [BallotOf EXCEPT ![v] = c]
<1>a. PICK b : b = [voter |-> a, proposalId |-> id, choice |-> c, dni |-> HashOf(a)]
  OBVIOUS
<1>b. PICK v : v = IF registry = "IdentitySBT" THEN b.dni ELSE b.voter
  OBVIOUS
<1>1. /\ proposals[id].id # 0
      /\ ~proposals[id].closed
      /\ ~voted[id][a]
      /\ count' = [count EXCEPT ![id] = [count[id] EXCEPT ![c] = count[id][c] + 1]]
      /\ UNCHANGED <<registry, proposalClosed>>
  BY Zenon DEF CastVote, Poll!CastVote, Poll!MayCastVote
<1>2. id = 1
  BY <1>1 DEF Refines, OnlyProposalOne
<1>3. /\ ballots' = ballots \cup {b}
      /\ UNCHANGED <<identityVars, hashes>>
  BY <1>a DEF CastVote
<1>4. b.voter = a /\ b.proposalId = 1 /\ b.choice = c
  BY <1>a, <1>2
<1>5. VoterOf(b) = v /\ VoterOf(b)' = v
  BY <1>b, <1>1 DEF VoterOf
<1>6. ASSUME NEW x \in ballots, x.proposalId = 1
      PROVE  x.voter # a
  BY <1>1, <1>2, <1>6 DEF Refines, Provenance, OneBallotPerAddress
<1>7. ASSUME NEW x \in ballots, x.proposalId = 1
      PROVE  VoterOf(x) # v
  <2>1. CASE registry = "IdentitySBT"
    <3> SUFFICES ASSUME x.dni = b.dni PROVE FALSE
      BY <1>b, <2>1 DEF VoterOf
    <3>1. x \in ballots' /\ b \in ballots' /\ registry' = "IdentitySBT"
      BY <1>1, <1>3, <2>1
    <3>2. PICK m \in Issued' : m.holder = x.voter /\ m.dni = x.dni
      BY <3>1 DEF Provenance, BallotsComeFromCedulas
    <3>3. PICK n \in Issued' : n.holder = b.voter /\ n.dni = b.dni
      BY <3>1 DEF Provenance, BallotsComeFromCedulas
    <3>4. m = n
      BY <3>2, <3>3 DEF Provenance, CommitmentsBoundOnce
    <3>5. QED
      BY <3>2, <3>3, <3>4, <1>4, <1>6, <1>7
  <2>2. CASE registry # "IdentitySBT"
    BY <2>2, <1>b, <1>4, <1>6, <1>7 DEF VoterOf
  <2>3. QED
    BY <2>1, <2>2
<1>8. v \in Voter
  <2>1. CASE registry = "IdentitySBT"
    <3>1. PICK n \in Issued' : n.dni = b.dni
      BY <1>1, <1>3, <2>1 DEF Provenance, BallotsComeFromCedulas
    <3>2. Issued' = Issued
      BY <1>3 DEF Issued, identityVars
    <3>3. n.dni \in Dni
      BY <3>1, <3>2, IssuedType DEF Refines, Identity!Cedula
    <3>4. QED
      BY <3>1, <3>3, <2>1, <1>b DEF Voter
  <2>2. CASE registry # "IdentitySBT"
    BY <2>2, <1>b, <1>4 DEF Voter
  <2>3. QED
    BY <2>1, <2>2
<1>9. CastBy(v) = {} /\ CastBy(v)' = {b}
  BY <1>1, <1>3, <1>4, <1>5, <1>7 DEF CastBy, VoterOf
<1>10. ASSUME NEW w \in Voter, w # v
       PROVE  CastBy(w)' = CastBy(w)
  BY <1>1, <1>3, <1>5, <1>10 DEF CastBy, VoterOf
<1>11. BallotOf[v] = "none"
  BY <1>8, <1>9 DEF BallotOf, Voter, ChoiceIn
<1>12. BallotOf' = [BallotOf EXCEPT ![v] = c]
  <2>1. ASSUME NEW w \in Voter
        PROVE  BallotOf'[w] = IF w = v THEN c ELSE BallotOf[w]
    <3>1. CASE w = v
      BY <3>1, <1>4, <1>8, <1>9 DEF BallotOf, Voter, ChoiceIn
    <3>2. CASE w # v
      BY <3>2, <1>10 DEF BallotOf, Voter
    <3>3. QED
      BY <3>1, <3>2
  <2>2. /\ BallotOf = [w \in Voter |-> BallotOf[w]]
        /\ BallotOf' = [w \in Voter |-> BallotOf'[w]]
    BY DEF BallotOf, Voter
  <2>3. QED
    BY <2>1, <2>2
<1>13. QED
  BY <1>1, <1>2, <1>8, <1>11, <1>12

LEMMA TallyIsElectedHolds == Spec => []TallyIsElected
<1>1. Init => TallyIsElected
  <2> SUFFICES ASSUME Init, NEW c \in Poll!Choice
               PROVE  /\ IsFiniteSet({v \in Voter : BallotOf[v] = c})
                      /\ count[1][c] = Cardinality({v \in Voter : BallotOf[v] = c})
    BY DEF TallyIsElected
  <2>1. ballots = {} /\ count[1][c] = 0
    BY ChainAssumption DEF Init, Poll!Init
  <2>2. \A v \in Voter : BallotOf[v] = "none"
    BY <2>1 DEF BallotOf, CastBy, ChoiceIn, Voter
  <2>3. {v \in Voter : BallotOf[v] = c} = {}
    BY <2>2 DEF Poll!Choice
  <2>4. QED
    BY <2>1, <2>3, FS_EmptySet
<1>2. Refines /\ Provenance' /\ TallyIsElected /\ [Next]_vars => TallyIsElected'
  <2> SUFFICES ASSUME Refines, Provenance', TallyIsElected, [Next]_vars
               PROVE  TallyIsElected'
    OBVIOUS
  <2>1. ASSUME UNCHANGED <<registry, ballots, count>>
        PROVE  TallyIsElected'
    BY <2>1, SameBallots DEF TallyIsElected
  <2>2. ASSUME NEW a \in Account, NEW id \in ProposalId, NEW c \in Poll!Choice,
               CastVote(a, id, c)
        PROVE  TallyIsElected'
    <3>1. PICK v \in Voter : BallotOf[v] = "none" /\ BallotOf' = [BallotOf EXCEPT ![v] = c]
      BY <2>2, CastVoteElects
    <3>2. count' = [count EXCEPT ![1] = [count[1] EXCEPT ![c] = count[1][c] + 1]]
      BY <2>2, CastVoteElects
    <3>3. ASSUME NEW k \in Poll!Choice
          PROVE  /\ IsFiniteSet({w \in Voter : BallotOf'[w] = k})
                 /\ count'[1][k] = Cardinality({w \in Voter : BallotOf'[w] = k})
      <4>1. /\ IsFiniteSet({w \in Voter : BallotOf[w] = k})
            /\ count[1][k] = Cardinality({w \in Voter : BallotOf[w] = k})
        BY DEF TallyIsElected
      <4>2. count[1] \in [Poll!Choice -> Nat] /\ count' [1][k] = IF k = c THEN count[1][k] + 1 ELSE count[1][k]
        BY <3>2, ChainAssumption DEF Refines, Typed, TypeOK
      <4>3. \A w \in Voter : BallotOf'[w] = IF w = v THEN c ELSE BallotOf[w]
        BY <3>1 DEF BallotOf, Voter
      <4>4. CASE k = c
        <5>1. {w \in Voter : BallotOf'[w] = k} = {w \in Voter : BallotOf[w] = k} \cup {v}
          BY <4>3, <4>4
        <5>2. v \notin {w \in Voter : BallotOf[w] = k}
          BY <3>1 DEF Poll!Choice
        <5> DEFINE old == {w \in Voter : BallotOf[w] = k}
        <5>3. /\ IsFiniteSet(old \cup {v})
              /\ Cardinality(old \cup {v}) = Cardinality(old) + 1
          <6> HIDE DEF old
          <6>1. IsFiniteSet(old) /\ v \notin old
            BY <4>1, <5>2 DEF old
          <6>2. QED
            BY <6>1, FS_AddElement
        <5>4. count'[1][k] = Cardinality(old) + 1
          BY <4>1, <4>2, <4>4
        <5>5. QED
          BY <5>1, <5>3, <5>4
      <4>5. CASE k # c
        <5>1. {w \in Voter : BallotOf'[w] = k} = {w \in Voter : BallotOf[w] = k}
          BY <3>1, <4>3, <4>5 DEF Poll!Choice
        <5>2. QED
          BY <4>1, <4>2, <4>5, <5>1
      <4>6. QED
        BY <4>4, <4>5
    <3>4. QED
      BY <3>3 DEF TallyIsElected
  <2>3. ASSUME NEW id \in ProposalId, Close(id)
        PROVE  TallyIsElected'
    BY <2>1, <2>3, CloseEffect DEF Refines, Typed
  <2>4. QED
    BY <2>1, <2>2, <2>3, ElectionSteps
<1>3. QED
  BY <1>1, <1>2, TypeCorrect, ProvenanceHolds, ResultsAreFinal, OnlyProposalOneHolds, PTL
  DEF Spec, Refines, Typed

\* The two registries and the vote implement Election: each voter the registry
\* vouches for casts at most one ballot, the announced result counts exactly the
\* ballots cast, and no ballot follows it.
THEOREM ChainImplementsElection == Spec => ImplementsElection
<1> DEFINE certified == {e.tally : e \in {x \in proposalClosed : x.id = 1}}
<1>1. Init => Elected!Init
  BY DEF Init, Poll!Init, Elected!Init, BallotOf, CastBy, ChoiceIn
<1>2. Refines /\ Provenance' /\ TallyIsElected /\ [Next]_vars => [Elected!Next]_(Elected!vars)
  <2> SUFFICES ASSUME Refines, Provenance', TallyIsElected, [Next]_vars
               PROVE  Elected!Next \/ UNCHANGED Elected!vars
    OBVIOUS
  <2>1. ASSUME UNCHANGED <<registry, proposals, count, voted, proposalClosed, ballots>>
        PROVE  UNCHANGED Elected!vars
    BY <2>1, SameBallots DEF Elected!vars
  <2>2. ASSUME NEW a \in Account, NEW id \in ProposalId, NEW c \in Poll!Choice,
               CastVote(a, id, c)
        PROVE  Elected!Next
    <3>1. PICK v \in Voter : BallotOf[v] = "none" /\ BallotOf' = [BallotOf EXCEPT ![v] = c]
      BY <2>2, CastVoteElects
    <3>2. certified = {} /\ UNCHANGED certified
      BY <2>2, CastVoteElects, OpenMeansNoResult
    <3>3. Elected!Cast(v, c)
      BY <3>1, <3>2 DEF Elected!Cast
    <3>4. QED
      BY <3>1, <3>3 DEF Elected!Next, Voter
  <2>3. ASSUME NEW id \in ProposalId, Close(id)
        PROVE  Elected!Next
    <3>1. /\ ~proposals[id].closed
          /\ proposalClosed' = proposalClosed \cup {[id |-> id, tally |-> count[id]]}
          /\ UNCHANGED <<registry, ballots>>
      BY <2>3, CloseEffect DEF Refines, Typed
    <3>2. proposals[id].id # 0
      BY <2>3, Zenon DEF Close, Poll!Close
    <3>3. id = 1
      BY <3>2 DEF Refines, OnlyProposalOne
    <3>4. certified = {}
      BY <3>1, <3>3, OpenMeansNoResult
    <3>5. certified' = {count[1]}
      <4>1. {x \in proposalClosed : x.id = 1} = {}
        BY <3>4
      <4>2. {x \in proposalClosed' : x.id = 1} = {[id |-> 1, tally |-> count[1]]}
        BY <3>1, <3>3, <4>1
      <4>3. certified' = {e.tally : e \in {[id |-> 1, tally |-> count[1]]}}
        BY <4>2
      <4>4. QED
        BY <4>3
    <3>6. count[1] = [c \in Poll!Choice |-> Elected!Votes(c)]
      <4>1. count[1] = [c \in Poll!Choice |-> count[1][c]]
        BY ChainAssumption DEF Refines, Typed, TypeOK
      <4>2. ASSUME NEW c \in Poll!Choice
            PROVE  count[1][c] = Elected!Votes(c)
        <5>1. Elected!Votes(c) = Cardinality({v \in Voter : BallotOf[v] = c})
          BY Zenon DEF Elected!Votes, Voter, Elected!Cardinality, Cardinality
        <5>2. QED
          BY <5>1 DEF TallyIsElected
      <4>3. [c \in Poll!Choice |-> count[1][c]] = [c \in Poll!Choice |-> Elected!Votes(c)]
        BY <4>2
      <4>4. QED
        BY <4>1, <4>3
    <3>7. BallotOf' = BallotOf
      BY <3>1, SameBallots
    <3>8. QED
      BY <3>4, <3>5, <3>6, <3>7 DEF Elected!Next, Elected!Certify
  <2>4. QED
    BY <2>1, <2>2, <2>3, ElectionSteps
<1>3. QED
  BY <1>1, <1>2, TypeCorrect, ProvenanceHolds, ResultsAreFinal, OnlyProposalOneHolds,
     TallyIsElectedHolds, PTL
  DEF Spec, Refines, Typed, ImplementsElection, Elected!Spec

================================================================================
