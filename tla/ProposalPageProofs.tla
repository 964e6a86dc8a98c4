--------------------------- MODULE ProposalPageProofs ---------------------------
(******************************************************************************)
(* Theorems about ProposalPage, for every value of its constants.             *)
(*                                                                            *)
(* The page and the backend move the chain only as CivicChain allows, so what *)
(* CivicChainProofs proves of CivicChain holds here as well: Proved is that   *)
(* module with no account that has code.  What is left to show is that an     *)
(* answer under way lies between what its reader knows and what the chain     *)
(* says by now (UnderWay), which needs that a query runs once at a time.      *)
(******************************************************************************)
EXTENDS ProposalPage, FiniteSetTheorems, SequenceTheorems, TLAPS

Proved == INSTANCE CivicChainProofs WITH Contract <- {}

--------------------------------------------------------------------------------
(* The chain under the page is CivicChain.                                    *)

\* The assumptions of CivicChain hold of the constants it is instantiated with.
LEMMA ChainAssumptionHolds ==
    /\ {} \subseteq Account
    /\ NoAccount \notin Account
    /\ NoHash \notin Dni \cup Face
    /\ 1 \in ProposalId
    /\ ProposalId \subseteq Nat
    /\ MaxTokenId \in Nat
    /\ MaxTime \in Nat
BY PageAssumption

\* Both instances of CivicChain say the same.
LEMMA SameMint ==
    ASSUME NEW a, NEW d, NEW f, Chain!Mint(a, d, f)
    PROVE  Proved!Mint(a, d, f)
BY DEF Chain!Mint, Proved!Mint, Chain!Identity!Mint, Proved!Identity!Mint,
       Chain!Identity!MayMint, Proved!Identity!MayMint,
       Chain!Identity!MayUpdate, Proved!Identity!MayUpdate,
       Chain!Identity!Update, Proved!Identity!Update,
       Chain!Identity!TokenId, Proved!Identity!TokenId,
       Chain!pollVars, Proved!pollVars

LEMMA SameBurn ==
    ASSUME NEW a, NEW t, Chain!Burn(a, t)
    PROVE  Proved!Burn(a, t)
BY DEF Chain!Burn, Proved!Burn, Chain!Identity!Burn, Proved!Identity!Burn,
       Chain!Identity!MayUpdate, Proved!Identity!MayUpdate,
       Chain!Identity!Update, Proved!Identity!Update,
       Chain!pollVars, Proved!pollVars

LEMMA SameRegister ==
    ASSUME NEW a, NEW d, Chain!Register(a, d)
    PROVE  Proved!Register(a, d)
BY DEF Chain!Register, Proved!Register, Chain!Citizens!Register,
       Proved!Citizens!Register, Chain!identityVars, Proved!identityVars,
       Chain!pollVars, Proved!pollVars

LEMMA SameRegistry ==
    ASSUME NEW a
    PROVE  /\ Chain!Identity!IsRegistered(a) = Proved!Identity!IsRegistered(a)
           /\ Chain!IsRegistered(a) = Proved!IsRegistered(a)
           /\ Chain!HashOf(a) = Proved!HashOf(a)
BY DEF Chain!IsRegistered, Proved!IsRegistered, Chain!HashOf, Proved!HashOf,
       Chain!Identity!IsRegistered, Proved!Identity!IsRegistered,
       Chain!Citizens!IsRegistered, Proved!Citizens!IsRegistered,
       Chain!Identity!HashOf, Proved!Identity!HashOf,
       Chain!Citizens!HashOf, Proved!Citizens!HashOf,
       Chain!Identity!TokenId, Proved!Identity!TokenId

LEMMA SameCastVote ==
    ASSUME NEW a, NEW id, NEW c, Chain!CastVote(a, id, c)
    PROVE  Proved!CastVote(a, id, c)
<1>1. Chain!IsRegistered(a) = Proved!IsRegistered(a) /\ Chain!HashOf(a) = Proved!HashOf(a)
  BY SameRegistry
<1>2. Proved!Poll!CastVote(a, id, c, Proved!IsRegistered(a))
  BY <1>1 DEF Chain!CastVote, Chain!Poll!CastVote, Proved!Poll!CastVote,
         Chain!Poll!MayCastVote, Proved!Poll!MayCastVote
<1>3. ballots' = ballots \cup
        {[voter |-> a, proposalId |-> id, choice |-> c, dni |-> Proved!HashOf(a)]}
  BY <1>1 DEF Chain!CastVote
<1>4. UNCHANGED <<Proved!identityVars, hashes>>
  BY DEF Chain!CastVote, Chain!identityVars, Proved!identityVars
<1>5. QED
  BY <1>2, <1>3, <1>4 DEF Proved!CastVote

LEMMA SameClose ==
    ASSUME NEW id, Chain!Close(id)
    PROVE  Proved!Close(id)
BY DEF Chain!Close, Proved!Close, Chain!Poll!Close, Proved!Poll!Close,
       Chain!identityVars, Proved!identityVars

LEMMA SameNextBlock ==
    Chain!NextBlock => Proved!NextBlock
BY DEF Chain!NextBlock, Proved!NextBlock, Chain!Poll!NextBlock, Proved!Poll!NextBlock,
       Chain!identityVars, Proved!identityVars

\* No account has code, so no mint waits for a callback.
NoCallback == frames = <<>>

\* The page sends votes of accounts only.
Wallet ==
    /\ connected \in Account \cup {NoAccount}
    /\ pending \subseteq Ballot /\ Cardinality(pending) <= 1
    /\ sent \in Seq(Ballot) /\ Len(sent) <= MaxTxs

LEMMA ChainStep ==
    ASSUME Wallet, NoCallback, [Next]_vars
    PROVE  [Proved!Next]_(Proved!vars) /\ NoCallback'
<1>1. Proved!Caller = Account
  BY DEF NoCallback, Proved!Caller
<1>2. ASSUME NEW a \in Account, NEW d \in Dni, NEW f \in Face, Chain!Mint(a, d, f)
      PROVE  Proved!Next /\ NoCallback'
  <2>1. Proved!Mint(a, d, f)
    BY <1>2, SameMint
  <2>2. NoCallback'
    BY <1>2 DEF NoCallback, Chain!Mint, Chain!Identity!Mint
  <2>3. QED
    BY <1>1, <2>1, <2>2 DEF Proved!Next
<1>3. ASSUME NEW a \in Account, NEW t \in 1 .. MaxTokenId, Chain!Burn(a, t)
      PROVE  Proved!Next /\ NoCallback'
  <2>1. Proved!Burn(a, t)
    BY <1>3, SameBurn
  <2>2. NoCallback'
    BY <1>3 DEF NoCallback, Chain!Burn, Chain!Identity!Burn
  <2>3. QED
    BY <1>1, <2>1, <2>2 DEF Proved!Next, Proved!Identity!TokenId
<1>4. ASSUME NEW a \in Account, NEW d \in Dni, Chain!Register(a, d)
      PROVE  Proved!Next /\ NoCallback'
  <2>1. Proved!Register(a, d)
    BY <1>4, SameRegister
  <2>2. NoCallback'
    BY <1>4 DEF NoCallback, Chain!Register, Chain!identityVars
  <2>3. QED
    BY <1>1, <2>1, <2>2 DEF Proved!Next
<1>5. ASSUME NEW a \in Account, NEW id \in ProposalId, NEW c \in Chain!Poll!Choice,
             Chain!CastVote(a, id, c)
      PROVE  Proved!Next /\ NoCallback'
  <2>1. Proved!CastVote(a, id, c)
    BY <1>5, SameCastVote
  <2>2. NoCallback'
    BY <1>5 DEF NoCallback, Chain!CastVote, Chain!identityVars
  <2>3. QED
    BY <1>1, <2>1, <2>2 DEF Proved!Next, Proved!Poll!Choice, Chain!Poll!Choice
<1>6. ASSUME NEW id \in ProposalId, Chain!Close(id)
      PROVE  Proved!Next /\ NoCallback'
  <2>1. Proved!Close(id)
    BY <1>6, SameClose
  <2>2. NoCallback'
    BY <1>6 DEF NoCallback, Chain!Close, Chain!identityVars
  <2>3. QED
    BY <2>1, <2>2 DEF Proved!Next
<1>7. ASSUME Chain!NextBlock PROVE Proved!Next /\ NoCallback'
  <2>1. Proved!NextBlock
    BY <1>7, SameNextBlock
  <2>2. NoCallback'
    BY <1>7 DEF NoCallback, Chain!NextBlock, Chain!identityVars
  <2>3. QED
    BY <2>1, <2>2 DEF Proved!Next
<1>8. CASE World
  BY <1>2, <1>3, <1>4, <1>5, <1>6, <1>7, <1>8 DEF World
<1>9. ASSUME UNCHANGED chainVars
      PROVE  UNCHANGED Proved!vars /\ NoCallback'
  BY <1>9 DEF chainVars, NoCallback, Proved!vars, Proved!identityVars, Proved!pollVars
<1>10. ASSUME NEW i \in 1 .. Len(sent), Mine(i)
       PROVE  [Proved!Next]_(Proved!vars) /\ NoCallback'
  <2>1. sent[i].voter \in Account /\ sent[i].choice \in Chain!Poll!Choice
    <3>1. sent[i] \in Ballot
      BY DEF Wallet
    <3>2. QED
      BY <3>1 DEF Ballot
  <2>2. Chain!CastVote(sent[i].voter, PageId, sent[i].choice) \/ UNCHANGED chainVars
    BY <1>10 DEF Mine
  <2>3. QED
    BY <1>5, <1>9, <2>1, <2>2, PageAssumption
<1>11. QED
  <2>1. \/ World \/ (\E i \in 1 .. Len(sent) : Mine(i)) \/ UNCHANGED chainVars
    BY DEF Next, Connect, Disconnect, Read, Arrive, Lost, ClickVote, Sign, Reject, Ask,
           GetProposal, GetTally, ReadRegistered, ReadHash, Reply, vars
  <2>2. QED
    BY <1>8, <1>9, <1>10, <2>1

LEMMA WalletStep ==
    ASSUME Wallet, [Next]_vars
    PROVE  Wallet'
<1>1. CASE UNCHANGED <<connected, pending, sent>>
  BY <1>1 DEF Wallet
<1>2. ASSUME NEW a \in Account, Connect(a) PROVE Wallet'
  BY <1>2 DEF Wallet, Connect
<1>3. CASE Disconnect
  BY <1>3 DEF Wallet, Disconnect
<1>4. ASSUME NEW c \in Chain!Poll!Choice, ClickVote(c) PROVE Wallet'
  <2>1. [voter |-> connected, choice |-> c] \in Ballot
    BY <1>4 DEF Wallet, ClickVote, MayClick, Ballot
  <2>2. pending' = {[voter |-> connected, choice |-> c]} /\ UNCHANGED <<connected, sent>>
    BY <1>4 DEF ClickVote
  <2>3. Cardinality(pending') <= 1
    <3>1. Cardinality({[voter |-> connected, choice |-> c]}) = 1
      BY FS_Singleton
    <3>2. QED
      BY <2>2, <3>1
  <2>4. QED
    BY <2>1, <2>2, <2>3 DEF Wallet
<1>5. CASE Sign
  <2>1. PICK tx \in pending : sent' = Append(sent, tx)
    BY <1>5 DEF Sign
  <2>2. /\ pending' = {} /\ Len(sent) < MaxTxs /\ connected' = connected
    BY <1>5 DEF Sign
  <2>3. tx \in Ballot /\ sent \in Seq(Ballot) /\ MaxTxs \in Nat
    BY PageAssumption DEF Wallet
  <2>4. sent' \in Seq(Ballot) /\ Len(sent') <= MaxTxs
    BY <2>1, <2>2, <2>3
  <2>5. Cardinality(pending') <= 1
    BY <2>2, FS_EmptySet
  <2>6. QED
    BY <2>2, <2>4, <2>5 DEF Wallet
<1>6. CASE Reject
  <2>1. pending' = {} /\ UNCHANGED <<connected, sent>>
    BY <1>6 DEF Reject
  <2>2. Cardinality(pending') <= 1
    BY <2>1, FS_EmptySet
  <2>3. QED
    BY <2>1, <2>2 DEF Wallet
<1>7. ASSUME NEW i \in 1 .. Len(sent), Mine(i) PROVE Wallet'
  <2> DEFINE before == SubSeq(sent, 1, i - 1)
             after == SubSeq(sent, i + 1, Len(sent))
  <2>1. sent' = before \o after /\ UNCHANGED <<connected, pending>>
    BY <1>7 DEF Mine
  <2>2. sent \in Seq(Ballot) /\ Len(sent) \in Nat /\ MaxTxs \in Nat
    BY PageAssumption DEF Wallet
  <2>3. before \in Seq(Ballot) /\ Len(before) = i - 1
    BY <2>2, SubSeqProperties
  <2>4. after \in Seq(Ballot) /\ Len(after) = Len(sent) - i
    BY <2>2, SubSeqProperties
  <2>5. sent' \in Seq(Ballot) /\ Len(sent') = (i - 1) + (Len(sent) - i)
    BY <2>1, <2>3, <2>4, ConcatProperties
  <2>6. Len(sent') <= MaxTxs
    BY <2>2, <2>5 DEF Wallet
  <2>7. QED
    BY <2>1, <2>5, <2>6 DEF Wallet
<1>8. QED
  <2>1. \/ UNCHANGED <<connected, pending, sent>>
        \/ (\E a \in Account : Connect(a)) \/ Disconnect
        \/ (\E c \in Chain!Poll!Choice : ClickVote(c)) \/ Sign \/ Reject
        \/ \E i \in 1 .. Len(sent) : Mine(i)
    BY DEF Next, World, Read, Arrive, Lost, Ask, GetProposal, GetTally, ReadRegistered,
           ReadHash, Reply, vars, pageVars
  <2>2. QED
    BY <1>1, <1>2, <1>3, <1>4, <1>5, <1>6, <1>7, <2>1

LEMMA WalletHolds == Spec => [](Wallet /\ NoCallback)
<1>1. Init => Wallet /\ NoCallback
  <2> SUFFICES ASSUME Init PROVE Wallet /\ NoCallback
    OBVIOUS
  <2>1. NoCallback
    BY DEF Init, Chain!Init, Chain!Identity!Init, NoCallback
  <2>2. Wallet
    BY FS_EmptySet, PageAssumption DEF Init, Wallet
  <2>3. QED
    BY <2>1, <2>2
<1>2. Wallet /\ NoCallback /\ [Next]_vars => Wallet' /\ NoCallback'
  BY WalletStep, ChainStep
<1>3. QED
  BY <1>1, <1>2, PTL DEF Spec

\* Whatever the page, the backend and everybody else do, the chain under them is
\* CivicChain with no account that has code.
THEOREM PageUsesTheChain == Spec => Proved!Spec
<1>1. Init => Proved!Init
  BY DEF Init, Chain!Init, Proved!Init, Chain!Identity!Init, Proved!Identity!Init,
         Chain!Citizens!Init, Proved!Citizens!Init, Chain!Poll!Init, Proved!Poll!Init,
         Chain!Identity!TokenId, Proved!Identity!TokenId, Chain!Poll!Registry,
         Proved!Poll!Registry, Chain!Poll!Time, Proved!Poll!Time, Chain!Poll!Choice,
         Proved!Poll!Choice
<1>2. Wallet /\ NoCallback /\ [Next]_vars => [Proved!Next]_(Proved!vars)
  BY ChainStep
<1>3. QED
  BY <1>1, <1>2, WalletHolds, PTL DEF Spec, Proved!Spec

\* What CivicChainProofs proves of the chain.
OnChain ==
    /\ Proved!TypeOK
    /\ Proved!HoldersAgree
    /\ Proved!Provenance
    /\ Proved!LogTellsHolders
    /\ NoCallback

LEMMA OnChainHolds == Spec => []OnChain
<1>1. Proved!Spec => [](Proved!TypeOK /\ Proved!HoldersAgree)
  BY Proved!TypeCorrect, ChainAssumptionHolds
<1>2. Proved!Spec => []Proved!Provenance
  BY Proved!ProvenanceHolds, ChainAssumptionHolds
<1>3. Proved!Spec => []Proved!LogTellsHolders
  BY Proved!LogTells, ChainAssumptionHolds
<1>4. Proved!TypeOK /\ Proved!HoldersAgree /\ Proved!Provenance /\ Proved!LogTellsHolders
        /\ NoCallback => OnChain
  BY DEF OnChain
<1>5. QED
  BY <1>1, <1>2, <1>3, <1>4, PageUsesTheChain, WalletHolds, PTL

--------------------------------------------------------------------------------
(* What the chain tells a reader.                                             *)

LEMMA TallyFacts ==
    /\ <<>> \notin Tally
    /\ \A t \in Tally : AtMost(t, t)
    /\ \A t, u, v \in Tally : AtMost(t, u) /\ AtMost(u, v) => AtMost(t, v)
<1>1. DOMAIN <<>> = {}
  OBVIOUS
<1>2. \A t \in Tally : DOMAIN t = {"Yes", "No", "Abstain"}
  BY DEF Tally, Chain!Poll!Choice
<1>3. <<>> \notin Tally
  BY <1>1, <1>2
<1>4. \A t \in Tally : \A c \in Chain!Poll!Choice : t[c] \in Nat
  BY DEF Tally
<1>5. \A t \in Tally : AtMost(t, t)
  BY <1>4 DEF AtMost
<1>6. \A t, u, v \in Tally : AtMost(t, u) /\ AtMost(u, v) => AtMost(t, v)
  BY <1>4 DEF AtMost
<1>7. QED
  BY <1>3, <1>5, <1>6

LEMMA CountIsTally ==
    ASSUME OnChain PROVE count[PageId] \in Tally
<1>1. count \in [ProposalId -> [Proved!Poll!Choice -> Nat]]
  BY DEF OnChain, Proved!TypeOK
<1>2. QED
  BY <1>1, PageAssumption DEF Tally, Chain!Poll!Choice, Proved!Poll!Choice

\* What was read at one block is not taken back at a later one.
LEMMA ChainKeeps ==
    ASSUME OnChain, OnChain', Wallet, [Next]_vars
    PROVE  /\ cedulaMinted \subseteq cedulaMinted'
           /\ cedulaBurned \subseteq cedulaBurned'
           /\ proposals[PageId].closed => proposals'[PageId].closed
           /\ AtMost(count[PageId], count'[PageId])
           /\ count[PageId] \in Tally /\ count'[PageId] \in Tally
           /\ \A a \in Account : hashes[a] # NoHash => hashes'[a] # NoHash
<1>1. Proved!TypeOK /\ [Proved!Next]_(Proved!vars)
  BY ChainStep DEF OnChain
<1>2. /\ cedulaMinted \subseteq cedulaMinted'
      /\ cedulaBurned \subseteq cedulaBurned'
      /\ \A id \in ProposalId : proposals[id].closed => proposals'[id].closed
      /\ \A id \in ProposalId, c \in Proved!Poll!Choice : count[id][c] <= count'[id][c]
      /\ \A a \in Account : hashes[a] # NoHash => hashes'[a] # NoHash
  BY <1>1, ChainAssumptionHolds, Proved!NothingIsTakenBack
<1>3. AtMost(count[PageId], count'[PageId])
  BY <1>2, PageAssumption DEF AtMost, Chain!Poll!Choice, Proved!Poll!Choice
<1>4. count[PageId] \in Tally
  BY CountIsTally
<1>5. count'[PageId] \in Tally
  <2>1. count' \in [ProposalId -> [Proved!Poll!Choice -> Nat]]
    BY DEF OnChain, Proved!TypeOK
  <2>2. QED
    BY <2>1, PageAssumption DEF Tally, Chain!Poll!Choice, Proved!Poll!Choice
<1>6. QED
  BY <1>2, <1>3, <1>4, <1>5, PageAssumption

LEMMA IssuedIsMinted ==
    ASSUME OnChain PROVE Proved!Issued = cedulaMinted
<1>1. DOMAIN frames = {}
  BY DEF OnChain, NoCallback
<1>2. QED
  BY <1>1 DEF Proved!Issued

\* The holder of a token: the cedula it holds was minted to it.
LEMMA HolderWasMinted ==
    ASSUME OnChain, NEW a \in Account, tokenOfOwner[a] \in 1 .. MaxTokenId
    PROVE  /\ dniOf[tokenOfOwner[a]] # NoHash
           /\ \E m \in cedulaMinted : m.holder = a /\ m.dni = dniOf[tokenOfOwner[a]]
<1>1. /\ a # NoAccount
      /\ owner[tokenOfOwner[a]] = a
      /\ dniOf[tokenOfOwner[a]] # NoHash
  BY PageAssumption DEF OnChain, Proved!HoldersAgree, Proved!Identity!TokenId
<1>2. \E m \in Proved!Issued : m.holder = a /\ m.dni = dniOf[tokenOfOwner[a]]
  BY <1>1 DEF OnChain, Proved!Provenance, Proved!OwnersWereIssued, Proved!Identity!TokenId
<1>3. QED
  BY <1>1, <1>2, IssuedIsMinted

LEMMA RegisteredWasMinted ==
    ASSUME OnChain, NEW a \in Account, Chain!Identity!IsRegistered(a)
    PROVE  \E m \in cedulaMinted : m.holder = a
<1>1. balance[a] > 0
  BY DEF Chain!Identity!IsRegistered
<1>2. tokenOfOwner[a] \in 0 .. MaxTokenId
  BY DEF OnChain, Proved!TypeOK
<1>3. tokenOfOwner[a] # 0
  BY <1>1 DEF OnChain, Proved!HoldersAgree
<1>4. tokenOfOwner[a] \in 1 .. MaxTokenId
  BY <1>2, <1>3, PageAssumption
<1>5. QED
  BY <1>4, HolderWasMinted

\* hashOf at a block after the one at which a cedula had been minted.
LEMMA HashTells ==
    ASSUME OnChain, NEW a \in Account, \E m \in cedulaMinted : m.holder = a
    PROVE  IF Chain!Identity!HashOf(a) = NoHash
           THEN \E b \in cedulaBurned : b.holder = a
           ELSE \E m \in cedulaMinted : m.holder = a /\ m.dni = Chain!Identity!HashOf(a)
<1>1. CASE tokenOfOwner[a] \in 1 .. MaxTokenId
  <2>1. Chain!Identity!HashOf(a) = dniOf[tokenOfOwner[a]]
    BY <1>1 DEF Chain!Identity!HashOf, Chain!Identity!TokenId
  <2>2. QED
    BY <1>1, <2>1, HolderWasMinted
<1>2. CASE tokenOfOwner[a] \notin 1 .. MaxTokenId
  <2>1. Chain!Identity!HashOf(a) = NoHash
    BY <1>2 DEF Chain!Identity!HashOf, Chain!Identity!TokenId
  <2>2. PICK m \in cedulaMinted : m.holder = a
    OBVIOUS
  <2>3. m.tokenId \in 1 .. MaxTokenId
    BY DEF OnChain, Proved!TypeOK, Proved!Identity!Cedula, Proved!Identity!TokenId
  <2>4. owner[m.tokenId] # a
    BY <1>2, <2>3 DEF OnChain, Proved!HoldersAgree, Proved!Identity!TokenId
  <2>5. [holder |-> m.holder, tokenId |-> m.tokenId] \in cedulaBurned
    BY <2>2, <2>4 DEF OnChain, NoCallback, Proved!LogTellsHolders
  <2>6. QED
    BY <2>1, <2>2, <2>5
<1>3. QED
  BY <1>1, <1>2

--------------------------------------------------------------------------------
(* The inductive invariant.                                                   *)

\* What the page shows is true of the chain by now.
Shown ==
    /\ tally # <<>> => AtMost(tally, count[PageId])
    /\ closed = "yes" => proposals[PageId].closed
    /\ \A a \in Account : registered[a] = "yes" => hashes[a] # NoHash

\* An answer under way is the only one to its query, and lies between what the
\* page shows and what the chain says by now.
UnderWay ==
    \A r \in reading :
        /\ r.account \in Account <=> r.query = "registered"
        /\ \A s \in reading : s.query = r.query /\ s.account = r.account => s = r
        /\ r.query = "tally" =>
             /\ r.tally \in Tally
             /\ AtMost(r.tally, count[PageId])
             /\ tally # <<>> => AtMost(tally, r.tally)
        /\ r.query = "proposal" =>
             /\ r.closed = "yes" => proposals[PageId].closed
             /\ closed = "yes" => r.closed = "yes"
        /\ r.query = "registered" =>
             /\ r.registered = "yes" => hashes[r.account] # NoHash
             /\ registered[r.account] = "yes" => r.registered = "yes"

\* A request answers nothing before it has read, and reads the hash only of an
\* address it has found to be registered.
Requests ==
    /\ request.at # "idle" => request.address \in Account
    /\ request.at # "answered" => request.hash = NoHash /\ ~request.closed
    /\ request.at \in {"idle", "first"} => ~request.registered
    /\ request.at = "second" => /\ request.kind = "status" /\ request.registered
                                /\ \E m \in cedulaMinted : m.holder = request.address
    /\ request.at = "answered" /\ request.kind = "tally" => request.tally \in Tally

Inv ==
    /\ TypeOK
    /\ Shown
    /\ UnderWay
    /\ Requests
    /\ AnswersHold

\* What the node answers to a query of the page.
LEMMA ReadAtFacts ==
    ASSUME TypeOK, OnChain, NEW q \in Query
    PROVE  /\ ReadAt(q) \in Reading
           /\ ReadAt(q).query = q.query /\ ReadAt(q).account = q.account
           /\ q.account \in Account <=> q.query = "registered"
           /\ q.query = "tally" => ReadAt(q).tally = count[PageId]
           /\ ReadAt(q).closed = "yes" <=> proposals[PageId].closed
           /\ q.query = "registered" =>
                (ReadAt(q).registered = "yes" <=> hashes[q.account] # NoHash)
<1>1. /\ q.query \in {"proposal", "tally", "registered"}
      /\ q.account \in Account \cup {NoAccount}
      /\ q.account \in Account <=> q.query = "registered"
  BY PageAssumption DEF Query, TypeOK
<1>2. count[PageId] \in Tally
  BY CountIsTally
<1>3. \A b : Said(b) \in Answer
  BY DEF Said, Answer
<1>4. "unknown" \in Answer
  BY DEF Answer
<1>5. ReadAt(q) \in Reading
  BY <1>1, <1>2, <1>3, <1>4 DEF ReadAt, Reading
<1>6. /\ Said(proposals[PageId].closed) = "yes" <=> proposals[PageId].closed
      /\ Said(Chain!Citizens!IsRegistered(q.account)) = "yes" <=> hashes[q.account] # NoHash
  BY DEF Said, Chain!Citizens!IsRegistered
<1>7. /\ ReadAt(q).query = q.query /\ ReadAt(q).account = q.account
      /\ q.query = "tally" => ReadAt(q).tally = count[PageId]
      /\ ReadAt(q).closed = Said(proposals[PageId].closed)
      /\ q.query = "registered" =>
           ReadAt(q).registered = Said(Chain!Citizens!IsRegistered(q.account))
  BY DEF ReadAt
<1>8. QED
  BY <1>1, <1>5, <1>6, <1>7

\* The request of the backend keeps its type.
LEMMA RequestTyped ==
    ASSUME TypeOK, OnChain, [Next]_vars
    PROVE  request' \in Request
<1>0. request \in Request
  BY DEF TypeOK
<1>1. NoRequest \in Request
  BY DEF NoRequest, Request, Tally
<1>2. ASSUME NEW kind \in Kind, NEW a \in Account, Ask(kind, a) PROVE request' \in Request
  <2>1. request' = [NoRequest EXCEPT !.kind = kind, !.address = a, !.at = "first"]
    BY <1>2 DEF Ask
  <2>2. QED
    BY <1>1, <2>1 DEF Request
<1>3. CASE GetProposal
  <2>1. request' = [request EXCEPT !.at = "answered", !.closed = proposals[PageId].closed]
    BY <1>3 DEF GetProposal
  <2>2. proposals[PageId].closed \in BOOLEAN
    <3>1. proposals[PageId] \in Proved!Poll!Proposal
      BY PageAssumption DEF OnChain, Proved!TypeOK
    <3>2. QED
      BY <3>1 DEF Proved!Poll!Proposal
  <2>3. QED
    BY <1>0, <2>1, <2>2 DEF Request
<1>4. CASE GetTally
  <2>1. request' = [request EXCEPT !.at = "answered", !.tally = count[PageId]]
    BY <1>4 DEF GetTally
  <2>2. QED
    BY <1>0, <2>1, CountIsTally DEF Request
<1>5. CASE ReadRegistered
  <2> DEFINE says == Chain!Identity!IsRegistered(request.address)
  <2>1. PICK at \in {"second", "answered"} :
            request' = [request EXCEPT !.registered = says, !.at = at]
    BY <1>5 DEF ReadRegistered
  <2>2. says \in BOOLEAN
    BY DEF Chain!Identity!IsRegistered
  <2>3. QED
    BY <1>0, <2>1, <2>2 DEF Request
<1>6. CASE ReadHash
  <2> DEFINE h == Chain!Identity!HashOf(request.address)
  <2>1. request' = [request EXCEPT !.at = "answered", !.hash = h]
    BY <1>6 DEF ReadHash
  <2>2. h \in Dni \cup {NoHash}
    BY DEF Chain!Identity!HashOf, Chain!Identity!TokenId, OnChain, Proved!TypeOK,
           Proved!Identity!TokenId
  <2>3. QED
    BY <1>0, <2>1, <2>2 DEF Request
<1>7. CASE Reply
  BY <1>1, <1>7 DEF Reply
<1>8. CASE request' = request
  BY <1>0, <1>8
<1>9. QED
  <2>1. \/ (\E kind \in Kind, a \in Account : Ask(kind, a)) \/ GetProposal \/ GetTally
        \/ ReadRegistered \/ ReadHash \/ Reply \/ request' = request
    BY DEF Next, World, Connect, Disconnect, Read, Arrive, Lost, ClickVote, Sign, Reject,
           Mine, vars
  <2>2. QED
    BY <1>2, <1>3, <1>4, <1>5, <1>6, <1>7, <1>8, <2>1

LEMMA TypeStep ==
    ASSUME TypeOK, OnChain, [Next]_vars
    PROVE  TypeOK'
<1>0. Wallet
  BY DEF TypeOK, Wallet
<1>1. Wallet' /\ request' \in Request
  BY <1>0, WalletStep, RequestTyped, SMTT(30)
<1>2. client' = client
  BY DEF Next, World, Connect, Disconnect, Read, Arrive, Lost, ClickVote, Sign, Reject,
         Mine, Ask, GetProposal, GetTally, ReadRegistered, ReadHash, Reply, vars
<1>3. /\ closed' \in Answer /\ tally' \in Tally \cup {<<>>}
      /\ registered' \in [Account -> Answer] /\ reading' \subseteq Reading
  <2>1. ASSUME NEW q \in Query, Read(q)
        PROVE  reading' \subseteq Reading /\ UNCHANGED <<closed, tally, registered>>
    BY <2>1, ReadAtFacts DEF Read, TypeOK
  <2>2. ASSUME NEW r \in reading, Arrive(r)
        PROVE  /\ closed' \in Answer /\ tally' \in Tally \cup {<<>>}
               /\ registered' \in [Account -> Answer] /\ reading' \subseteq Reading
    <3>1. r \in Reading
      BY DEF TypeOK
    <3>2. r.closed \in Answer /\ r.tally \in Tally \cup {<<>>} /\ r.registered \in Answer
      BY <3>1 DEF Reading
    <3>3. registered' \in [Account -> Answer]
      BY <2>2, <3>2 DEF Arrive, TypeOK
    <3>4. QED
      BY <2>2, <3>2, <3>3 DEF Arrive, TypeOK
  <2>3. ASSUME NEW r \in reading, Lost(r)
        PROVE  reading' \subseteq reading /\ UNCHANGED <<closed, tally, registered>>
    BY <2>3 DEF Lost
  <2>4. \/ (\E q \in Query : Read(q)) \/ (\E r \in reading : Arrive(r) \/ Lost(r))
        \/ UNCHANGED <<closed, tally, registered, reading>>
    BY DEF Next, World, Connect, Disconnect, ClickVote, Sign, Reject,
           Mine, Ask, GetProposal, GetTally, ReadRegistered, ReadHash, Reply, vars, pageVars
  <2>5. QED
    BY <2>1, <2>2, <2>3, <2>4 DEF TypeOK
<1>4. QED
  BY <1>1, <1>2, <1>3 DEF TypeOK, Wallet

LEMMA ShownStep ==
    ASSUME TypeOK, Shown, UnderWay, OnChain, OnChain', Wallet, [Next]_vars
    PROVE  Shown'
<1>0. /\ proposals[PageId].closed => proposals'[PageId].closed
      /\ AtMost(count[PageId], count'[PageId])
      /\ count[PageId] \in Tally /\ count'[PageId] \in Tally
      /\ \A a \in Account : hashes[a] # NoHash => hashes'[a] # NoHash
  BY ChainKeeps
<1>1. CASE UNCHANGED <<closed, tally, registered>>
  <2>1. tally' # <<>> => AtMost(tally', count'[PageId])
    BY <1>0, <1>1, TallyFacts DEF Shown, TypeOK
  <2>2. QED
    BY <1>0, <1>1, <2>1 DEF Shown
<1>2. ASSUME NEW r \in reading, Arrive(r) PROVE Shown'
  <2>1. UNCHANGED <<count, proposals, hashes>>
    BY <1>2 DEF Arrive, chainVars
  <2>2. tally' # <<>> => AtMost(tally', count'[PageId])
    BY <1>2, <2>1 DEF Arrive, Shown, UnderWay
  <2>3. closed' = "yes" => proposals'[PageId].closed
    BY <1>2, <2>1 DEF Arrive, Shown, UnderWay
  <2>4. \A a \in Account : registered'[a] = "yes" => hashes'[a] # NoHash
    BY <1>2, <2>1 DEF Arrive, Shown, UnderWay, TypeOK
  <2>5. QED
    BY <2>2, <2>3, <2>4 DEF Shown
<1>3. QED
  <2>1. (\E r \in reading : Arrive(r)) \/ UNCHANGED <<closed, tally, registered>>
    BY DEF Next, World, Connect, Disconnect, Read, Lost, ClickVote, Sign, Reject,
           Mine, Ask, GetProposal, GetTally, ReadRegistered, ReadHash, Reply, vars, pageVars
  <2>2. QED
    BY <1>1, <1>2, <2>1

LEMMA UnderWayStep ==
    ASSUME TypeOK, Shown, UnderWay, OnChain, OnChain', Wallet, [Next]_vars
    PROVE  UnderWay'
<1>0. /\ proposals[PageId].closed => proposals'[PageId].closed
      /\ AtMost(count[PageId], count'[PageId])
      /\ count[PageId] \in Tally /\ count'[PageId] \in Tally
      /\ \A a \in Account : hashes[a] # NoHash => hashes'[a] # NoHash
  BY ChainKeeps
<1>1. CASE UNCHANGED <<closed, tally, registered>> /\ reading' \subseteq reading
  <2>1. ASSUME NEW r \in reading
        PROVE  r.query = "tally" => AtMost(r.tally, count'[PageId])
    BY <1>0, TallyFacts DEF UnderWay
  <2>2. ASSUME NEW r \in reading
        PROVE  r.query = "registered" => (r.registered = "yes" => hashes'[r.account] # NoHash)
    BY <1>0 DEF UnderWay
  <2>3. QED
    BY <1>0, <1>1, <2>1, <2>2 DEF UnderWay
<1>2. ASSUME NEW q \in Query, Read(q) PROVE UnderWay'
  <2> DEFINE n == ReadAt(q)
  <2>1. /\ reading' = reading \cup {n}
        /\ ~ \E r \in reading : r.query = q.query /\ r.account = q.account
        /\ UNCHANGED <<closed, tally, registered, count, proposals, hashes>>
    BY <1>2 DEF Read, chainVars
  <2>2. /\ n.query = q.query /\ n.account = q.account
        /\ q.account \in Account <=> q.query = "registered"
        /\ q.query = "tally" => n.tally = count[PageId]
        /\ n.closed = "yes" <=> proposals[PageId].closed
        /\ q.query = "registered" => (n.registered = "yes" <=> hashes[q.account] # NoHash)
    BY ReadAtFacts
  <2> HIDE DEF n
  <2>3. \A r, s \in reading' : s.query = r.query /\ s.account = r.account => s = r
    BY <2>1, <2>2 DEF UnderWay
  <2>4. q.query = "tally" =>
          /\ n.tally \in Tally /\ AtMost(n.tally, count[PageId])
          /\ tally # <<>> => AtMost(tally, n.tally)
    BY <1>0, <2>2, TallyFacts DEF Shown
  <2>5. q.query = "registered" => (registered[q.account] = "yes" => n.registered = "yes")
    BY <2>2 DEF Shown
  <2>6. closed = "yes" => n.closed = "yes"
    BY <2>2 DEF Shown
  <2>7. QED
    BY <2>1, <2>2, <2>3, <2>4, <2>5, <2>6 DEF UnderWay
<1>3. ASSUME NEW a \in reading, Arrive(a) PROVE UnderWay'
  <2>1. reading' = reading \ {a} /\ UNCHANGED <<count, proposals, hashes>>
    BY <1>3 DEF Arrive, chainVars
  <2>2. ASSUME NEW r \in reading \ {a}
        PROVE  /\ r.query = "tally" => tally' = tally
               /\ r.query = "proposal" => closed' = closed
               /\ r.query = "registered" => registered'[r.account] = registered[r.account]
    <3>1. r.query # a.query \/ r.account # a.account
      BY DEF UnderWay
    <3>2. r.query = a.query /\ r.query # "registered" => r.account = a.account
      BY DEF UnderWay, TypeOK, Reading
    <3>3. r.query # "registered" => r.query # a.query
      BY <3>1, <3>2
    <3>4. r.query = "tally" => tally' = tally
      BY <1>3, <3>3 DEF Arrive
    <3>5. r.query = "proposal" => closed' = closed
      BY <1>3, <3>3 DEF Arrive
    <3>6. r.query = "registered" => registered'[r.account] = registered[r.account]
      BY <1>3, <3>1 DEF Arrive, TypeOK, UnderWay
    <3>7. QED
      BY <3>4, <3>5, <3>6
  <2>3. QED
    BY <2>1, <2>2 DEF UnderWay
<1>4. QED
  <2>1. \/ (\E q \in Query : Read(q)) \/ (\E r \in reading : Arrive(r))
        \/ UNCHANGED <<closed, tally, registered>> /\ reading' \subseteq reading
    BY DEF Next, World, Connect, Disconnect, Lost, ClickVote, Sign, Reject,
           Mine, Ask, GetProposal, GetTally, ReadRegistered, ReadHash, Reply, vars, pageVars
  <2>2. QED
    BY <1>1, <1>2, <1>3, <2>1, SMTT(30)

\* What has been answered stays true of the chain.
LEMMA AnswerKept ==
    ASSUME Requests, AnswersHold, request' = request,
           cedulaMinted \subseteq cedulaMinted', cedulaBurned \subseteq cedulaBurned',
           proposals[PageId].closed => proposals'[PageId].closed,
           AtMost(count[PageId], count'[PageId]),
           count[PageId] \in Tally, count'[PageId] \in Tally
    PROVE  Requests' /\ AnswersHold'
<1>1. Requests'
  BY DEF Requests
<1>2. request.at = "answered" /\ request.kind = "tally" => AtMost(request.tally, count'[PageId])
  BY TallyFacts DEF Requests, AnswersHold
<1>3. AnswersHold'
  BY <1>2 DEF AnswersHold
<1>4. QED
  BY <1>1, <1>3

LEMMA AnswersStep ==
    ASSUME TypeOK, Requests, AnswersHold, OnChain, OnChain', Wallet, [Next]_vars
    PROVE  Requests' /\ AnswersHold'
<1>0. request \in Request
  BY DEF TypeOK
<1>1. CASE request' = request
  BY <1>1, ChainKeeps, AnswerKept
<1>2. ASSUME NEW kind \in Kind, NEW a \in Account, Ask(kind, a)
      PROVE  Requests' /\ AnswersHold'
  <2>1. request' = [NoRequest EXCEPT !.kind = kind, !.address = a, !.at = "first"]
    BY <1>2 DEF Ask
  <2>2. /\ request'.at = "first" /\ request'.address = a
        /\ ~request'.registered /\ ~request'.closed /\ request'.hash = NoHash
    BY <2>1 DEF NoRequest
  <2>3. QED
    BY <2>2 DEF Requests, AnswersHold
<1>3. CASE GetProposal
  <2>1. /\ request.at = "first" /\ request.kind = "proposal"
        /\ request' = [request EXCEPT !.at = "answered", !.closed = proposals[PageId].closed]
        /\ UNCHANGED chainVars
    BY <1>3 DEF GetProposal
  <2>2. /\ request'.at = "answered" /\ request'.kind = "proposal"
        /\ request'.address = request.address /\ request'.registered = request.registered
        /\ request'.hash = request.hash /\ request'.closed = proposals[PageId].closed
    BY <1>0, <2>1 DEF Request
  <2>3. QED
    BY <2>1, <2>2 DEF Requests, AnswersHold, chainVars
<1>4. CASE GetTally
  <2>1. /\ request.at = "first" /\ request.kind = "tally"
        /\ request' = [request EXCEPT !.at = "answered", !.tally = count[PageId]]
        /\ UNCHANGED chainVars
    BY <1>4 DEF GetTally
  <2>2. /\ request'.at = "answered" /\ request'.kind = "tally"
        /\ request'.address = request.address /\ request'.registered = request.registered
        /\ request'.hash = request.hash /\ request'.closed = request.closed
        /\ request'.tally = count[PageId]
    BY <1>0, <2>1 DEF Request
  <2>3. count[PageId] \in Tally /\ AtMost(count[PageId], count[PageId])
    BY CountIsTally, TallyFacts
  <2>4. QED
    BY <2>1, <2>2, <2>3 DEF Requests, AnswersHold, chainVars
<1>5. CASE ReadRegistered
  <2> DEFINE says == Chain!Identity!IsRegistered(request.address)
             at == IF request.kind = "status" /\ says THEN "second" ELSE "answered"
  <2>1. /\ request.at = "first" /\ request.kind \in {"isRegistered", "status"}
        /\ request' = [request EXCEPT !.registered = says, !.at = at]
        /\ UNCHANGED chainVars
    BY <1>5 DEF ReadRegistered
  <2>2. /\ request'.at = at /\ request'.kind = request.kind
        /\ request'.address = request.address /\ request'.registered = says
        /\ request'.hash = request.hash /\ request'.closed = request.closed
    BY <1>0, <2>1 DEF Request
  <2>3. request.address \in Account /\ request.hash = NoHash /\ ~request.closed
    BY <2>1 DEF Requests
  <2>4. says => \E m \in cedulaMinted : m.holder = request.address
    BY <2>3, RegisteredWasMinted
  <2> HIDE DEF says
  <2>5. Requests'
    BY <2>1, <2>2, <2>3, <2>4 DEF Requests, chainVars
  <2>6. AnswersHold'
    BY <2>1, <2>2, <2>3, <2>4 DEF AnswersHold, chainVars
  <2>7. QED
    BY <2>5, <2>6
<1>6. CASE ReadHash
  <2> DEFINE h == Chain!Identity!HashOf(request.address)
  <2>1. /\ request.at = "second"
        /\ request' = [request EXCEPT !.at = "answered", !.hash = h]
        /\ UNCHANGED chainVars
    BY <1>6 DEF ReadHash
  <2>2. /\ request'.at = "answered" /\ request'.kind = request.kind
        /\ request'.address = request.address /\ request'.registered = request.registered
        /\ request'.hash = h /\ request'.closed = request.closed
    BY <1>0, <2>1 DEF Request
  <2>3. /\ request.address \in Account /\ request.kind = "status" /\ request.registered
        /\ ~request.closed /\ \E m \in cedulaMinted : m.holder = request.address
    BY <2>1 DEF Requests
  <2>4. IF h = NoHash
        THEN \E b \in cedulaBurned : b.holder = request.address
        ELSE \E m \in cedulaMinted : m.holder = request.address /\ m.dni = h
    BY <2>3, HashTells
  <2> HIDE DEF h
  <2>5. Requests'
    BY <2>1, <2>2, <2>3 DEF Requests, chainVars
  <2>6. AnswersHold'
    BY <2>1, <2>2, <2>3, <2>4 DEF AnswersHold, chainVars
  <2>7. QED
    BY <2>5, <2>6
<1>7. CASE Reply
  <2>1. request' = NoRequest
    BY <1>7 DEF Reply
  <2>2. QED
    BY <2>1 DEF Requests, AnswersHold, NoRequest
<1>8. QED
  <2>1. \/ (\E kind \in Kind, a \in Account : Ask(kind, a)) \/ GetProposal \/ GetTally
        \/ ReadRegistered \/ ReadHash \/ Reply \/ request' = request
    BY DEF Next, World, Connect, Disconnect, Read, Arrive, Lost, ClickVote, Sign, Reject,
           Mine, vars
  <2>2. QED
    BY <1>1, <1>2, <1>3, <1>4, <1>5, <1>6, <1>7, <2>1

--------------------------------------------------------------------------------
(* The theorems.                                                              *)

LEMMA InvHolds == Spec => [](Inv /\ OnChain)
<1>1. Init => Inv
  <2> SUFFICES ASSUME Init PROVE Inv
    OBVIOUS
  <2>1. NoRequest \in Request /\ "unknown" \in Answer
    BY DEF NoRequest, Request, Answer, Tally
  <2>2. Cardinality(pending) <= 1 /\ pending \subseteq Ballot
    BY FS_EmptySet DEF Init
  <2>3. sent \in Seq(Ballot) /\ Len(sent) <= MaxTxs
    BY PageAssumption DEF Init
  <2>4. TypeOK
    BY <2>1, <2>2, <2>3 DEF Init, TypeOK
  <2>5. Shown /\ UnderWay
    BY DEF Init, Shown, UnderWay
  <2>6. Requests /\ AnswersHold
    BY DEF Init, Requests, AnswersHold, NoRequest
  <2>7. QED
    BY <2>4, <2>5, <2>6 DEF Inv
<1>2. Inv /\ OnChain /\ OnChain' /\ [Next]_vars => Inv'
  <2> SUFFICES ASSUME Inv, OnChain, OnChain', [Next]_vars PROVE Inv'
    OBVIOUS
  <2>1. TypeOK /\ Shown /\ UnderWay /\ Requests /\ AnswersHold /\ Wallet
    BY DEF Inv, TypeOK, Wallet
  <2>2. TypeOK'
    BY <2>1, TypeStep
  <2>3. Shown' /\ UnderWay'
    BY <2>1, ShownStep, UnderWayStep
  <2>4. Requests' /\ AnswersHold'
    BY <2>1, AnswersStep
  <2>5. QED
    BY <2>2, <2>3, <2>4 DEF Inv
<1>3. QED
  BY <1>1, <1>2, OnChainHolds, PTL DEF Spec

\* Every variable of the page and of the backend has its type.
THEOREM TypeCorrect == Spec => []TypeOK
<1>1. Inv => TypeOK
  BY DEF Inv
<1>2. QED
  BY <1>1, InvHolds, PTL

\* What the backend answers was true on the chain, although getCitizenStatus reads
\* at two blocks: a registered citizen with the zero hash means a burn in between.
THEOREM BackendAnswersHold == Spec => []AnswersHold
<1>1. Inv => AnswersHold
  BY DEF Inv
<1>2. QED
  BY <1>1, InvHolds, PTL

\* However answers overtake votes and each other, the page never goes back in
\* time: no count falls, no closed proposal reopens, no address is unregistered.
THEOREM PageNeverGoesBack == Spec => ShownNeverGoesBack
<1> DEFINE Forward ==
      /\ tally # <<>> => tally' # <<>> /\ AtMost(tally, tally')
      /\ closed = "yes" => closed' = "yes"
      /\ \A a \in Account : registered[a] = "yes" => registered'[a] = "yes"
<1>1. Inv /\ [Next]_vars => [Forward]_vars
  <2> SUFFICES ASSUME Inv, [Next]_vars PROVE Forward
    OBVIOUS
  <2>1. CASE UNCHANGED <<closed, tally, registered>>
    BY <2>1, TallyFacts DEF Inv, TypeOK
  <2>2. ASSUME NEW r \in reading, Arrive(r) PROVE Forward
    <3>1. tally # <<>> => tally' # <<>> /\ AtMost(tally, tally')
      BY <2>2, TallyFacts DEF Arrive, Inv, TypeOK, UnderWay
    <3>2. closed = "yes" => closed' = "yes"
      BY <2>2 DEF Arrive, Inv, UnderWay
    <3>3. \A a \in Account : registered[a] = "yes" => registered'[a] = "yes"
      BY <2>2 DEF Arrive, Inv, TypeOK, UnderWay
    <3>4. QED
      BY <3>1, <3>2, <3>3
  <2>3. QED
    <3>1. (\E r \in reading : Arrive(r)) \/ UNCHANGED <<closed, tally, registered>>
      BY DEF Next, World, Connect, Disconnect, Read, Lost, ClickVote, Sign, Reject,
             Mine, Ask, GetProposal, GetTally, ReadRegistered, ReadHash, Reply, vars, pageVars
    <3>2. QED
      BY <2>1, <2>2, <3>1, SMTT(30)
<1>2. QED
  BY <1>1, InvHolds, PTL DEF Spec, ShownNeverGoesBack

\* Cardinality as CivicChain reads it.
LEMMA SameCardinality ==
    ASSUME NEW S
    PROVE  Proved!Cardinality(S) = Cardinality(S)
  BY DEF Proved!Cardinality, Cardinality

\* The chain under the page keeps the promise of Election, whatever page, wallet and
\* backend do to it: one ballot for each voter, one result that counts the ballots.
THEOREM PageKeepsElection == Spec => Proved!ImplementsElection
<1>1. Proved!Spec => Proved!ImplementsElection
  BY Proved!ChainImplementsElection, ChainAssumptionHolds
<1>2. QED
  BY <1>1, PageUsesTheChain, PTL

\* How many voters, as the registry tells them apart, have a ballot for c.
VotersFor(c) == Cardinality({v \in Account \cup Dni : Proved!BallotOf[v] = c})

\* On the page of the proposal that Vote is deployed with, no count is higher than
\* the number of voters behind it, shown or in an answer of the backend.
CountsAreVoters ==
    PageId = 1 =>
        /\ tally # <<>> => \A c \in Chain!Poll!Choice : tally[c] <= VotersFor(c)
        /\ request.at = "answered" /\ request.kind = "tally" =>
             \A c \in Chain!Poll!Choice : request.tally[c] <= VotersFor(c)

\* What a citizen is shown never counts a voter twice and never counts a vote that
\* was not cast, although it was read at some earlier block.
THEOREM ShownCountsAreVoters == Spec => []CountsAreVoters
<1>1. Proved!Spec => []Proved!TallyIsElected
  BY Proved!TallyIsElectedHolds, ChainAssumptionHolds
<1>2. Inv /\ OnChain /\ Proved!TallyIsElected => CountsAreVoters
  <2> SUFFICES ASSUME Inv, OnChain, Proved!TallyIsElected, PageId = 1
               PROVE  /\ tally # <<>> => \A c \in Chain!Poll!Choice : tally[c] <= VotersFor(c)
                      /\ request.at = "answered" /\ request.kind = "tally" =>
                           \A c \in Chain!Poll!Choice : request.tally[c] <= VotersFor(c)
    BY DEF CountsAreVoters
  <2>1. ASSUME NEW c \in Chain!Poll!Choice
        PROVE  count[PageId][c] = VotersFor(c)
    BY <2>1, SameCardinality
       DEF Proved!TallyIsElected, VotersFor, Proved!Voter, Chain!Poll!Choice,
           Proved!Poll!Choice
  <2>2. tally # <<>> => \A c \in Chain!Poll!Choice : tally[c] <= VotersFor(c)
    BY <2>1 DEF Inv, Shown, AtMost
  <2>3. request.at = "answered" /\ request.kind = "tally" =>
          \A c \in Chain!Poll!Choice : request.tally[c] <= VotersFor(c)
    BY <2>1 DEF Inv, AnswersHold, AtMost
  <2>4. QED
    BY <2>2, <2>3
<1>3. QED
  BY <1>1, <1>2, InvHolds, OnChainHolds, PageUsesTheChain, PTL

================================================================================
