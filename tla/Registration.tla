------------------------------ MODULE Registration ------------------------------
(******************************************************************************)
(* The self-service registration of a citizen: the five steps of the wizard   *)
(* (components/registro) in each browser, the face index of Hermes            *)
(* (identity.py, face_index.py), the faucet as the wizard sees it, and the    *)
(* IdentitySBT contract that the last step's transaction calls.               *)
(*                                                                            *)
(* mint() of StepMint runs through six awaits; between two of them the other  *)
(* browsers, Hermes and the chain move, and each await can fail or be the     *)
(* last thing the browser does.                                               *)
(******************************************************************************)
EXTENDS Integers, Sequences, FiniteSets

CONSTANTS
    Browser,     \* browsers with the wizard open
    Wallet,      \* the accounts createWallet can generate
    Outsider,    \* accounts of people who call the contract without the wizard
    Dni,         \* dniHash values, one per document
    Face,        \* embeddings, each standing for its faceCommitment too
    Similar,     \* the pairs of embeddings at or above the index's threshold
    NoAccount,   \* address(0)
    NoHash,      \* bytes32(0)
    Local,       \* ACTIVE_CHAIN_ID = 31337
    MaxTokenId,  \* bound on minted ids
    MaxTxs,      \* bound on mint transactions the wizards send
    MaxMints,    \* bound on cedulas others mint
    MaxFaces     \* bound on the index when others than wizards add to it

ASSUME RegistrationAssumption ==
    /\ Local \in BOOLEAN
    /\ Similar \subseteq Face \X Face
    /\ \A f \in Face : <<f, f>> \in Similar
    /\ NoAccount \notin Wallet \cup Outsider
    /\ Wallet \cap Outsider = {}
    /\ NoHash \notin Dni \cup Face
    /\ {MaxTokenId, MaxTxs, MaxMints, MaxFaces} \subseteq Nat

VARIABLES
    wizard,      \* browser -> the wizard's data and the state of its step
    generated,   \* wallets generated so far
    faces,       \* Hermes: the embeddings in FaceIndex._items
    funded,      \* wallets that hold gas
    txs,         \* the wizards' transactions the chain's nodes have taken, in order
    nextId, dniOf, tokenOfOwner, usedDni, usedFace, owner, balance, frames,
    cedulaMinted, cedulaBurned

Account == Wallet \cup Outsider

Chain == INSTANCE IdentitySBT WITH Contract <- {}

chainVars == <<nextId, dniOf, tokenOfOwner, usedDni, usedFace, owner, balance,
               frames, cedulaMinted, cedulaBurned>>
vars == <<wizard, generated, faces, funded, txs, chainVars>>

Check == {"idle", "checking", "ok", "dup", "error"}

\* Where mint() is: the name of the await it is in, or the state it ended in.
Minting == {"drip", "estimate", "broadcast", "receipt", "read", "register"}
MintState == {"idle", "done", "error"} \cup Minting

NoToken == -1   \* StepMint's tokenId before it has been read: null

\* A wizard just opened or reset.  step counts from 0 as in WizardProvider.
Blank == [step |-> 0, dni |-> NoHash, face |-> NoHash, address |-> NoAccount,
          check |-> "idle", mint |-> "idle", tx |-> 0, tokenId |-> NoToken]

Init ==
    /\ wizard = [b \in Browser |-> Blank]
    /\ generated = {}
    /\ faces = {}
    /\ funded = {}
    /\ txs = <<>>
    /\ Chain!Init

--------------------------------------------------------------------------------
(* Steps 1 to 4. *)

\* Step 1: the document's hash is computed in the browser.
SubmitDni(b, dni) ==
    /\ wizard[b].step = 0
    /\ wizard' = [wizard EXCEPT ![b].dni = dni, ![b].step = 1]
    /\ UNCHANGED <<generated, faces, funded, txs, chainVars>>

\* Step 2: the selfie gives some embedding; then the button becomes Continuar.
Capture(b, face) ==
    /\ wizard[b].step = 1
    /\ wizard[b].face = NoHash
    /\ wizard' = [wizard EXCEPT ![b].face = face]
    /\ UNCHANGED <<generated, faces, funded, txs, chainVars>>

FaceContinue(b) ==
    /\ wizard[b].step = 1
    /\ wizard[b].face # NoHash
    /\ wizard' = [wizard EXCEPT ![b].step = 2]
    /\ UNCHANGED <<generated, faces, funded, txs, chainVars>>

\* Step 3: the button is there in state idle only.
Verify(b) ==
    /\ wizard[b].step = 2
    /\ wizard[b].check = "idle"
    /\ wizard' = [wizard EXCEPT ![b].check = "checking"]
    /\ UNCHANGED <<generated, faces, funded, txs, chainVars>>

\* FaceIndex.query: some stored embedding is at or above the threshold.
Duplicate(face) == \E f \in faces : <<face, f>> \in Similar

Dedupe(b) ==
    /\ wizard[b].check = "checking"
    /\ wizard' = [wizard EXCEPT ![b].check = IF Duplicate(wizard[b].face) THEN "dup" ELSE "ok"]
    /\ UNCHANGED <<generated, faces, funded, txs, chainVars>>

DedupeFails(b) ==
    /\ wizard[b].check = "checking"
    /\ wizard' = [wizard EXCEPT ![b].check = "error"]
    /\ UNCHANGED <<generated, faces, funded, txs, chainVars>>

VerifyContinue(b) ==
    /\ wizard[b].step = 2
    /\ wizard[b].check = "ok"
    /\ wizard' = [wizard EXCEPT ![b].step = 3]
    /\ UNCHANGED <<generated, faces, funded, txs, chainVars>>

\* Bug: the new wallet is not handed to the next step.
WalletContinueForgets(b, w) ==
    /\ wizard[b].step = 3
    /\ w \notin generated
    /\ generated' = generated \cup {w}
    /\ wizard' = [wizard EXCEPT ![b].step = 4]
    /\ UNCHANGED <<faces, funded, txs, chainVars>>

\* Step 4: a wallet never generated before.  The checkbox that Continuar waits
\* for can be ticked by hand whatever became of the backup: it guards nothing.
WalletContinue(b, w) ==
    /\ wizard[b].step = 3
    /\ w \notin generated
    /\ generated' = generated \cup {w}
    /\ wizard' = [wizard EXCEPT ![b].address = w, ![b].step = 4]
    /\ UNCHANGED <<faces, funded, txs, chainVars>>

--------------------------------------------------------------------------------
(* Step 5: mint(). *)

MintGoes(b, state) == wizard' = [wizard EXCEPT ![b].mint = state]

\* The button is there unless a mint is under way or done.
ClickMint(b) ==
    /\ wizard[b].step = 4
    /\ wizard[b].mint \in {"idle", "error"}
    /\ MintGoes(b, "drip")
    /\ UNCHANGED <<generated, faces, funded, txs, chainVars>>

\* The faucet answers 200: it has sent gas, or the wallet already had some.
DripAnswered(b) ==
    /\ wizard[b].mint = "drip"
    /\ MintGoes(b, "estimate")
    /\ funded' = funded \cup {wizard[b].address}
    /\ UNCHANGED <<generated, faces, txs, chainVars>>

\* The faucet fails; its transaction may still reach the wallet.  On a test
\* network mint() gives up, on a local chain it goes on.
DripFails(b) ==
    /\ wizard[b].mint = "drip"
    /\ MintGoes(b, IF Local THEN "estimate" ELSE "error")
    /\ funded' \in {funded, funded \cup {wizard[b].address}}
    /\ UNCHANGED <<generated, faces, txs, chainVars>>

\* writeContract estimates the call on the latest block: it throws when the
\* call would revert there, or the wallet cannot pay.
Estimate(b) ==
    LET w == wizard[b]
        passes == w.address \in funded /\ Chain!MayMint(w.address, w.dni, w.face)
    IN  /\ w.mint = "estimate"
        /\ MintGoes(b, IF passes THEN "broadcast" ELSE "error")
        /\ UNCHANGED <<generated, faces, funded, txs, chainVars>>

\* A node takes the signed transaction; its answer, the hash, may get lost.
Broadcast(b) ==
    LET w == wizard[b]
    IN  /\ w.mint = "broadcast"
        /\ Len(txs) < MaxTxs
        /\ txs' = Append(txs, [holder |-> w.address, dni |-> w.dni, face |-> w.face,
                               status |-> "pending"])
        /\ \/ wizard' = [wizard EXCEPT ![b].mint = "receipt", ![b].tx = Len(txs) + 1]
           \/ MintGoes(b, "error")
        /\ UNCHANGED <<generated, faces, funded, chainVars>>

\* The receipt is there.  Its status is not looked at.
Receipt(b) ==
    /\ wizard[b].mint = "receipt"
    /\ txs[wizard[b].tx].status # "pending"
    /\ MintGoes(b, "read")
    /\ UNCHANGED <<generated, faces, funded, txs, chainVars>>

\* Bug: the page shows the last id minted by anyone.
ReadLastId(b) ==
    /\ wizard[b].mint = "read"
    /\ wizard' = [wizard EXCEPT ![b].mint = "register", ![b].tokenId = nextId - 1]
    /\ UNCHANGED <<generated, faces, funded, txs, chainVars>>

ReadToken(b) ==
    /\ wizard[b].mint = "read"
    /\ wizard' = [wizard EXCEPT ![b].mint = "register",
                                ![b].tokenId = tokenOfOwner[wizard[b].address]]
    /\ UNCHANGED <<generated, faces, funded, txs, chainVars>>

\* Any of these awaits can fail, the receipt's by its timeout: the catch.  The hash
\* was a local of this call.
MintFails(b) ==
    /\ wizard[b].mint \in {"estimate", "broadcast", "receipt", "read"}
    /\ wizard' = [wizard EXCEPT ![b].mint = "error", ![b].tx = 0]
    /\ UNCHANGED <<generated, faces, funded, txs, chainVars>>

\* registerFace is best effort: whether Hermes stored the face or not (the call may
\* fail, and add keeps the first embedding of a commitment), done.
RegisterFace(b) ==
    /\ wizard[b].mint = "register"
    /\ MintGoes(b, "done")
    /\ faces' \in {faces, faces \cup {wizard[b].face}}
    /\ UNCHANGED <<generated, funded, txs, chainVars>>

\* "Registrar otra identidad".
Reset(b) ==
    /\ wizard[b].mint = "done"
    /\ wizard' = [wizard EXCEPT ![b] = Blank]
    /\ UNCHANGED <<generated, faces, funded, txs, chainVars>>

--------------------------------------------------------------------------------
(* The surroundings. *)

\* The page is reloaded: the wizard lived in its memory only.
Reload(b) ==
    /\ wizard[b] # Blank
    /\ wizard' = [wizard EXCEPT ![b] = Blank]
    /\ UNCHANGED <<generated, faces, funded, txs, chainVars>>

\* Hermes restarts: the index lived in its memory only.
HermesRestarts ==
    /\ faces # {}
    /\ faces' = {}
    /\ UNCHANGED <<wizard, generated, funded, txs, chainVars>>

\* The endpoint that stores a face is open to anyone and asks for no mint.
AnyoneRegisters(face) ==
    /\ face \notin faces
    /\ Cardinality(faces) < MaxFaces
    /\ faces' = faces \cup {face}
    /\ UNCHANGED <<wizard, generated, funded, txs, chainVars>>

\* So is the contract's mint: someone may use a document or a face without the wizard.
OutsiderMints(a, dni, face) ==
    /\ Cardinality({m \in cedulaMinted : m.holder \in Outsider}) < MaxMints
    /\ Chain!Mint(a, dni, face)
    /\ UNCHANGED <<wizard, generated, faces, funded, txs>>

\* The oldest pending transaction of some wallet gets into a block, where the
\* call runs on the state it finds.
Mine(i) ==
    LET tx == txs[i]
        mints == Chain!MayMint(tx.holder, tx.dni, tx.face)
    IN  /\ tx.status = "pending"
        /\ \A j \in 1 .. i - 1 : txs[j].holder = tx.holder => txs[j].status # "pending"
        /\ txs' = [txs EXCEPT ![i].status = IF mints THEN "success" ELSE "reverted"]
        /\ IF mints THEN Chain!Mint(tx.holder, tx.dni, tx.face) ELSE UNCHANGED chainVars
        /\ UNCHANGED <<wizard, generated, faces, funded>>

\* A holder burns the cedula: a citizen with the key the wizard handed over, say.
Burn(a, t) ==
    /\ Chain!Burn(a, t)
    /\ UNCHANGED <<wizard, generated, faces, funded, txs>>

Wizard(b) ==
    \/ \E dni \in Dni : SubmitDni(b, dni)
    \/ \E face \in Face : Capture(b, face)
    \/ FaceContinue(b) \/ Verify(b) \/ Dedupe(b) \/ DedupeFails(b) \/ VerifyContinue(b)
    \/ \E w \in Wallet : WalletContinue(b, w)
    \/ ClickMint(b) \/ DripAnswered(b) \/ DripFails(b) \/ Estimate(b) \/ Broadcast(b)
    \/ Receipt(b) \/ ReadToken(b) \/ MintFails(b) \/ RegisterFace(b)
    \/ Reset(b) \/ Reload(b)

Next ==
    \/ \E b \in Browser : Wizard(b)
    \/ HermesRestarts
    \/ \E face \in Face : AnyoneRegisters(face)
    \/ \E a \in Outsider, dni \in Dni, face \in Face : OutsiderMints(a, dni, face)
    \/ \E i \in DOMAIN txs : Mine(i)
    \/ \E a \in Account, t \in Chain!TokenId : Burn(a, t)

Spec == Init /\ [][Next]_vars

--------------------------------------------------------------------------------
(* Properties. *)

WizardData == [step : 0 .. 4, dni : Dni \cup {NoHash}, face : Face \cup {NoHash},
               address : Wallet \cup {NoAccount}, check : Check, mint : MintState,
               tx : Nat, tokenId : Int]

Tx == [holder : Wallet, dni : Dni, face : Face,
       status : {"pending", "success", "reverted"}]

\* Every variable of the wizard, of Hermes and of the mempool has its type.
TypeOK ==
    /\ wizard \in [Browser -> WizardData]
    /\ generated \subseteq Wallet
    /\ faces \subseteq Face
    /\ funded \subseteq generated
    /\ txs \in Seq(Tx)

\* Retries, lost answers, timeouts and reloads never give a document or a wallet
\* a second cedula: of the mint transactions that share one, one succeeds at most.
OneCedulaPerDocument ==
    \A i, j \in DOMAIN txs :
        /\ i # j
        /\ txs[i].dni = txs[j].dni \/ txs[i].holder = txs[j].holder
        => ~(txs[i].status = "success" /\ txs[j].status = "success")

\* A token number on the page is this citizen's own: the cedula minted to the
\* wallet of this wizard from the document and the face this wizard captured.
ShownCedulaIsOwn ==
    \A b \in Browser :
        LET w == wizard[b]
        IN  w.tokenId > 0 =>
                [holder |-> w.address, tokenId |-> w.tokenId, dni |-> w.dni, face |-> w.face]
                    \in cedulaMinted

\* What a citizen can rely on whatever Hermes has forgotten, was told by others or
\* answered to two wizards at once: a document and a face are in one cedula at most, two
\* browsers never show the same token number, and the token a page shows is held by its
\* wallet unless the wallet burned it.
CitizensAreDistinct ==
    /\ \A m, n \in cedulaMinted :
         m.dni = n.dni \/ m.face = n.face \/ m.tokenId = n.tokenId => m = n
    /\ \A b, c \in Browser :
         wizard[b].tokenId = wizard[c].tokenId /\ wizard[b].tokenId > 0 => b = c
    /\ \A b \in Browser :
         wizard[b].tokenId > 0 =>
             \/ owner[wizard[b].tokenId] = wizard[b].address
             \/ [holder |-> wizard[b].address, tokenId |-> wizard[b].tokenId] \in cedulaBurned

\* What the last page says ("Cedula minteada! Ya sos un ciudadano unico
\* verificado"): the transaction it links to minted the cedula.
DoneMeansMinted ==
    \A b \in Browser : wizard[b].mint = "done" => txs[wizard[b].tx].status = "success"

================================================================================
