------------------------------ MODULE IdentitySBT ------------------------------
(******************************************************************************)
(* The contract IdentitySBT.sol: the soulbound identity token ("cedula").     *)
(*                                                                            *)
(* One action per state-changing external function.  An action is one         *)
(* successful call; a call that reverts leaves the chain as it was and is no  *)
(* step, except TransferFrom, whose guards are evaluated inside the action    *)
(* because no state of the code satisfies them.                               *)
(*                                                                            *)
(* mint is not atomic: _safeMint calls onERC721Received on a recipient with   *)
(* code before mint emits its events, and that code may call any contract     *)
(* again.  frames is the stack of mint calls waiting for their callback.      *)
(******************************************************************************)
EXTENDS Integers, Sequences, FiniteSets

CONSTANTS
    Account,      \* addresses that call the contracts
    Contract,     \* the accounts with code
    Dni,          \* non-zero dniHash commitments
    Face,         \* non-zero faceCommitment commitments
    NoAccount,    \* address(0)
    NoHash,       \* bytes32(0)
    MaxTokenId    \* bound on the ids that can be minted

VARIABLES
    nextId,         \* _nextId
    dniOf,          \* token id -> dniHash, NoHash when deleted
    tokenOfOwner,   \* holder -> token id, 0 when none
    usedDni,        \* the dniHash values whose flag is set
    usedFace,       \* the faceCommitment values whose flag is set
    owner,          \* ERC721 _owners
    balance,        \* ERC721 _balances
    frames,         \* mint calls inside their onERC721Received callback
    cedulaMinted,   \* CedulaMinted events of the log
    cedulaBurned    \* CedulaBurned events of the log

vars == <<nextId, dniOf, tokenOfOwner, usedDni, usedFace, owner, balance,
          frames, cedulaMinted, cedulaBurned>>

TokenId == 1 .. MaxTokenId

\* What one mint call works on: its caller, its id and its two commitments.
Cedula == [holder : Account, tokenId : TokenId, dni : Dni, face : Face]

Init ==
    /\ nextId = 1
    /\ dniOf = [t \in TokenId |-> NoHash]
    /\ tokenOfOwner = [a \in Account |-> 0]
    /\ usedDni = {}
    /\ usedFace = {}
    /\ owner = [t \in TokenId |-> NoAccount]
    /\ balance = [a \in Account |-> 0]
    /\ frames = <<>>
    /\ cedulaMinted = {}
    /\ cedulaBurned = {}

--------------------------------------------------------------------------------
(* ERC721 (external) and the override of its _update hook.                    *)

\* Bug: the override forgets the soulbound require.
MayUpdateTransferable(to, tokenId, auth) ==
    auth # NoAccount => owner[tokenId] = auth

\* When _update goes through: one end is address(0), and auth, when given, is
\* the owner (approve and setApprovalForAll always revert: nobody is approved).
MayUpdate(to, tokenId, auth) ==
    /\ owner[tokenId] = NoAccount \/ to = NoAccount
    /\ auth # NoAccount => owner[tokenId] = auth

\* Bug: the recipient's balance is not credited.
UpdateOnlyDebits(to, tokenId) ==
    /\ owner' = [owner EXCEPT ![tokenId] = to]
    /\ balance' = [a \in Account |-> balance[a] - (IF a = owner[tokenId] THEN 1 ELSE 0)]

\* super._update: the token leaves its owner, if any, and goes to `to`, if any.
Update(to, tokenId) ==
    /\ owner' = [owner EXCEPT ![tokenId] = to]
    /\ balance' = [a \in Account |->
                     balance[a] + (IF a = to THEN 1 ELSE 0)
                                - (IF a = owner[tokenId] THEN 1 ELSE 0)]

--------------------------------------------------------------------------------
(* The contract's functions.                                                  *)

IsRegistered(citizen) == balance[citizen] > 0

HashOf(citizen) ==
    IF tokenOfOwner[citizen] \in TokenId THEN dniOf[tokenOfOwner[citizen]] ELSE NoHash

\* Bug: the events of a mint by an account with code are never emitted.
MintForgetsEvents(caller, dni, face) ==
    /\ nextId \in TokenId
    /\ dni # NoHash /\ face # NoHash
    /\ balance[caller] = 0
    /\ dni \notin usedDni /\ face \notin usedFace
    /\ nextId' = nextId + 1
    /\ usedDni' = usedDni \cup {dni}
    /\ usedFace' = usedFace \cup {face}
    /\ dniOf' = [dniOf EXCEPT ![nextId] = dni]
    /\ tokenOfOwner' = [tokenOfOwner EXCEPT ![caller] = nextId]
    /\ Update(caller, nextId)
    /\ cedulaMinted' =
         IF caller \in Contract THEN cedulaMinted
         ELSE cedulaMinted \cup {[holder |-> caller, tokenId |-> nextId,
                                  dni |-> dni, face |-> face]}
    /\ UNCHANGED <<frames, cedulaBurned>>

\* Bug: a person is asked for once per account, not once per document.
MayMintPerAccount(caller, dni, face) ==
    /\ dni # NoHash /\ face # NoHash
    /\ balance[caller] = 0
    /\ face \notin usedFace

\* Bug: mint does not ask whether the face is in use.
MayMintFaceAgain(caller, dni, face) ==
    /\ dni # NoHash /\ face # NoHash
    /\ balance[caller] = 0
    /\ dni \notin usedDni

\* The requires of mint.
MayMint(caller, dni, face) ==
    /\ dni # NoHash
    /\ face # NoHash
    /\ balance[caller] = 0
    /\ dni \notin usedDni
    /\ face \notin usedFace

\* mint(dniHash, faceCommitment, uri) by caller.  The guard nextId \in TokenId is
\* the bound; _mint's own checks (recipient not zero, id unowned) are MayUpdate
\* with no auth; the token's URI is data no property reads.
Mint(caller, dni, face) ==
    LET cedula == [holder |-> caller, tokenId |-> nextId, dni |-> dni, face |-> face]
    IN  /\ nextId \in TokenId
        /\ MayMint(caller, dni, face)
        /\ nextId' = nextId + 1
        /\ usedDni' = usedDni \cup {dni}
        /\ usedFace' = usedFace \cup {face}
        /\ dniOf' = [dniOf EXCEPT ![nextId] = dni]
        /\ tokenOfOwner' = [tokenOfOwner EXCEPT ![caller] = nextId]
        /\ MayUpdate(caller, nextId, NoAccount)
        /\ Update(caller, nextId)
        /\ IF caller \in Contract
           THEN frames' = Append(frames, cedula) /\ UNCHANGED cedulaMinted
           ELSE cedulaMinted' = cedulaMinted \cup {cedula} /\ UNCHANGED frames
        /\ UNCHANGED cedulaBurned

\* onERC721Received returns to the innermost mint, which emits its events.
ReturnToMint ==
    /\ frames # <<>>
    /\ cedulaMinted' = cedulaMinted \cup {frames[Len(frames)]}
    /\ frames' = SubSeq(frames, 1, Len(frames) - 1)
    /\ UNCHANGED <<nextId, dniOf, tokenOfOwner, usedDni, usedFace, owner, balance,
                   cedulaBurned>>

\* Bug: burning releases the commitments of the person.
BurnReleasesCommitments(caller, tokenId) ==
    /\ owner[tokenId] = caller
    /\ tokenOfOwner' = [tokenOfOwner EXCEPT ![caller] = 0]
    /\ dniOf' = [dniOf EXCEPT ![tokenId] = NoHash]
    /\ usedDni' = usedDni \ {dniOf[tokenId]}
    /\ usedFace' = usedFace \ {c.face : c \in {m \in cedulaMinted : m.tokenId = tokenId}}
    /\ Update(NoAccount, tokenId)
    /\ cedulaBurned' = cedulaBurned \cup {[holder |-> caller, tokenId |-> tokenId]}
    /\ UNCHANGED <<nextId, frames, cedulaMinted>>

\* Bug: burning leaves the holder's token pointer behind.
BurnKeepsPointer(caller, tokenId) ==
    /\ owner[tokenId] = caller
    /\ dniOf' = [dniOf EXCEPT ![tokenId] = NoHash]
    /\ Update(NoAccount, tokenId)
    /\ cedulaBurned' = cedulaBurned \cup {[holder |-> caller, tokenId |-> tokenId]}
    /\ UNCHANGED <<nextId, tokenOfOwner, usedDni, usedFace, frames, cedulaMinted>>

\* burn(tokenId): the commitments stay used, only the token goes.
Burn(caller, tokenId) ==
    /\ owner[tokenId] = caller
    /\ tokenOfOwner' = [tokenOfOwner EXCEPT ![caller] = 0]
    /\ dniOf' = [dniOf EXCEPT ![tokenId] = NoHash]
    /\ MayUpdate(NoAccount, tokenId, NoAccount)
    /\ Update(NoAccount, tokenId)
    /\ cedulaBurned' = cedulaBurned \cup {[holder |-> caller, tokenId |-> tokenId]}
    /\ UNCHANGED <<nextId, usedDni, usedFace, frames, cedulaMinted>>

\* ERC721 transferFrom as this contract inherits it: the call is made and, the
\* override permitting, the token moves.  It changes nothing when it reverts.
TransferFrom(caller, from, to, tokenId) ==
    IF MayUpdate(to, tokenId, caller) /\ owner[tokenId] = from
    THEN /\ Update(to, tokenId)
         /\ UNCHANGED <<nextId, dniOf, tokenOfOwner, usedDni, usedFace, frames,
                        cedulaMinted, cedulaBurned>>
    ELSE UNCHANGED vars

================================================================================
