--------------------------- MODULE RegistrationProofs ---------------------------
(******************************************************************************)
(* Theorems about Registration, for every value of its constants: any number  *)
(* of browsers, documents, faces and attempts, on a local chain or not.       *)
(*                                                                            *)
(* The contract keeps a document from a second cedula; that a wallet gets no  *)
(* second one either (after burning the first, say) is the wizard's doing: it *)
(* never uses a wallet for two documents.  OneOwner and SameHolder say so; the *)
(* rest of the invariant ties what a wizard waits for and shows to the        *)
(* transaction it sent.                                                       *)
(*                                                                            *)
(* Wizards and holders move the chain only as CivicChain allows, so what      *)
(* CivicChainProofs proves of cedulas holds here too: Proved is that module   *)
(* with no account that has code, and with registry and vote left untouched.  *)
(******************************************************************************)
EXTENDS Registration, TLAPS

\* What the step a wizard is at says about its data.
Stage(x) ==
    /\ x.step >= 1 => x.dni \in Dni
    /\ x.step >= 2 => x.face \in Face
    /\ x.step < 4 => x.address = NoAccount /\ x.mint = "idle" /\ x.tokenId = NoToken
    /\ x.step = 4 => x.address # NoAccount

\* The transactions sent from a wizard's wallet carry its document and its face.
OwnTxs(x) ==
    \A i \in DOMAIN txs :
        txs[i].holder = x.address => txs[i].dni = x.dni /\ txs[i].face = x.face

Shows(x) ==
    x.tokenId > 0 =>
        [holder |-> x.address, tokenId |-> x.tokenId, dni |-> x.dni, face |-> x.face]
            \in cedulaMinted

Wizards ==
    \A b \in Browser :
        /\ Stage(wizard[b])
        /\ OwnTxs(wizard[b])
        /\ Shows(wizard[b])
        /\ wizard[b].address \in generated \cup {NoAccount}

\* No two wizards have the same wallet.
OneOwner ==
    \A b, c \in Browser :
        wizard[b].address = wizard[c].address /\ wizard[b].address # NoAccount => b = c

\* A wallet sends the transactions of one document only.
SameHolder ==
    /\ \A i \in DOMAIN txs : txs[i].holder \in generated
    /\ \A i, j \in DOMAIN txs :
         txs[i].holder = txs[j].holder => txs[i].dni = txs[j].dni /\ txs[i].face = txs[j].face

\* A document's commitment is used by the one transaction that succeeded with it.
MintedOnce ==
    /\ \A i \in DOMAIN txs : txs[i].status = "success" => txs[i].dni \in usedDni
    /\ \A i, j \in DOMAIN txs :
         /\ txs[i].dni = txs[j].dni
         /\ txs[i].status = "success" /\ txs[j].status = "success"
         => i = j

\* A wallet's pointer names a cedula that one of its transactions minted.
Pointed ==
    /\ tokenOfOwner \in [Account -> Nat]
    /\ \A w \in Wallet :
         tokenOfOwner[w] > 0 =>
             \E i \in DOMAIN txs :
                 /\ txs[i].holder = w
                 /\ [holder |-> w, tokenId |-> tokenOfOwner[w],
                     dni |-> txs[i].dni, face |-> txs[i].face] \in cedulaMinted

Inv ==
    /\ TypeOK
    /\ Wizards
    /\ OneOwner
    /\ SameHolder
    /\ MintedOnce
    /\ Pointed

--------------------------------------------------------------------------------
(* Steps of one wizard that send nothing.                                     *)

LEMMA Types ==
    ASSUME TypeOK
    PROVE  /\ wizard \in [Browser -> WizardData]
           /\ txs \in Seq(Tx)
           /\ DOMAIN txs = 1 .. Len(txs) /\ Len(txs) \in Nat
           /\ \A i \in DOMAIN txs : txs[i] \in Tx
           /\ generated \subseteq Wallet /\ faces \subseteq Face /\ funded \subseteq generated
  BY DEF TypeOK

\* x takes the place of a wizard's data: with its wallet, with none, or with a
\* new one.
LEMMA WizardKeeps ==
    ASSUME Inv, NEW b \in Browser, NEW x \in WizardData,
           wizard' = [wizard EXCEPT ![b] = x],
           UNCHANGED <<txs, chainVars>>,
           generated \subseteq generated', generated' \subseteq Wallet,
           faces' \subseteq Face, funded' \subseteq generated',
           Stage(x), OwnTxs(x), Shows(x),
           x.address \in generated' \cup {NoAccount},
           x.address \in {NoAccount, wizard[b].address} \/ x.address \notin generated
    PROVE  Inv'
<1>1. /\ wizard' \in [Browser -> WizardData]
      /\ wizard'[b] = x
      /\ \A c \in Browser : c # b => wizard'[c] = wizard[c]
  BY Types DEF Inv
<1>2. UNCHANGED <<txs, usedDni, tokenOfOwner, cedulaMinted>>
  BY DEF chainVars
<1>3. TypeOK'
  BY <1>1, <1>2 DEF Inv, TypeOK
<1>4. Wizards'
  <2>1. ASSUME NEW c \in Browser, c # b
        PROVE  /\ Stage(wizard[c]) /\ OwnTxs(wizard[c]) /\ Shows(wizard[c])
               /\ wizard[c].address \in generated' \cup {NoAccount}
    BY DEF Inv, Wizards
  <2>2. \A c \in Browser :
          /\ Stage(wizard'[c]) /\ OwnTxs(wizard'[c]) /\ Shows(wizard'[c])
          /\ wizard'[c].address \in generated' \cup {NoAccount}
    BY <1>1, <2>1
  <2>3. QED
    BY <1>2, <2>2 DEF Wizards, Stage, OwnTxs, Shows
<1>5. OneOwner'
  <2>1. ASSUME NEW c \in Browser, c # b, x.address # NoAccount
        PROVE  wizard[c].address # x.address
    <3>1. CASE x.address = wizard[b].address
      BY <2>1, <3>1 DEF Inv, OneOwner
    <3>2. CASE x.address \notin generated
      BY <2>1, <3>2 DEF Inv, Wizards
    <3>3. QED
      BY <2>1, <3>1, <3>2
  <2>2. QED
    BY <1>1, <2>1 DEF Inv, OneOwner
<1>6. SameHolder' /\ MintedOnce' /\ Pointed'
  BY <1>2 DEF Inv, SameHolder, MintedOnce, Pointed
<1>7. QED
  BY <1>3, <1>4, <1>5, <1>6 DEF Inv

\* A step of the wizard that leaves its document, face and wallet alone, and what
\* Hermes and the faucet know.
LEMMA DataKeeps ==
    ASSUME Inv, NEW b \in Browser, NEW x \in WizardData,
           wizard' = [wizard EXCEPT ![b] = x],
           UNCHANGED <<generated, faces, funded, txs, chainVars>>,
           x.address = wizard[b].address, x.dni = wizard[b].dni, x.face = wizard[b].face,
           Stage(x), Shows(x)
    PROVE  Inv'
<1>1. OwnTxs(x) /\ wizard[b].address \in generated \cup {NoAccount}
  BY DEF Inv, Wizards, OwnTxs
<1>2. /\ generated \subseteq generated' /\ generated' \subseteq Wallet
      /\ faces' \subseteq Face /\ funded' \subseteq generated'
      /\ x.address \in generated' \cup {NoAccount}
  BY <1>1, Types DEF Inv
<1>3. UNCHANGED <<txs, chainVars>>
  OBVIOUS
<1>4. QED
  BY <1>1, <1>2, <1>3, WizardKeeps

--------------------------------------------------------------------------------
(* Steps 1 to 4.                                                              *)

LEMMA SubmitDniKeeps ==
    ASSUME Inv, NEW b \in Browser, NEW dni \in Dni, SubmitDni(b, dni)
    PROVE  Inv'
<1>1. PICK x : x = [wizard[b] EXCEPT !.dni = dni, !.step = 1]
  OBVIOUS
<1>2. wizard' = [wizard EXCEPT ![b] = x]
  BY <1>1, Zenon DEF SubmitDni
<1>3. wizard[b].step = 0 /\ UNCHANGED <<generated, faces, funded, txs, chainVars>>
  BY DEF SubmitDni
<1>4. wizard[b] \in WizardData /\ Stage(wizard[b])
  BY Types DEF Inv, Wizards
<1>5. /\ x \in WizardData
      /\ x.step = 1 /\ x.dni = dni
      /\ x.address = NoAccount /\ x.mint = "idle" /\ x.tokenId = -1
  <2>1. /\ wizard[b].address = NoAccount /\ wizard[b].mint = "idle"
        /\ wizard[b].tokenId = -1
    BY <1>3, <1>4 DEF Stage, NoToken
  <2>2. x \in WizardData /\ x.step = 1 /\ x.dni = dni
    <3>1. 1 \in 0 .. 4 /\ dni \in Dni \cup {NoHash}
      OBVIOUS
    <3>2. x \in WizardData
      BY <1>1, <1>4, <3>1 DEF WizardData
    <3>3. QED
      BY <1>1, <1>4, <3>2 DEF WizardData
  <2>3. /\ x.address = wizard[b].address /\ x.mint = wizard[b].mint
        /\ x.tokenId = wizard[b].tokenId
    BY <1>1, <1>4 DEF WizardData
  <2>4. QED
    BY <2>1, <2>2, <2>3
<1>6. Stage(x) /\ Shows(x)
  BY <1>5 DEF Stage, Shows, NoToken
<1>7. OwnTxs(x)
  <2>1. \A i \in DOMAIN txs : txs[i].holder # NoAccount
    BY Types, RegistrationAssumption DEF Inv, Tx
  <2>2. QED
    BY <1>5, <2>1 DEF OwnTxs
<1>8. /\ generated \subseteq generated' /\ generated' \subseteq Wallet
      /\ faces' \subseteq Face /\ funded' \subseteq generated'
      /\ UNCHANGED <<txs, chainVars>>
  BY <1>3, Types DEF Inv
<1>9. QED
  BY <1>2, <1>5, <1>6, <1>7, <1>8, WizardKeeps

LEMMA CaptureKeeps ==
    ASSUME Inv, NEW b \in Browser, NEW face \in Face, Capture(b, face)
    PROVE  Inv'
<1>1. PICK x : x = [wizard[b] EXCEPT !.face = face]
  OBVIOUS
<1>2. wizard' = [wizard EXCEPT ![b] = x]
  BY <1>1, Zenon DEF Capture
<1>3. wizard[b].step = 1 /\ UNCHANGED <<generated, faces, funded, txs, chainVars>>
  BY DEF Capture
<1>4. wizard[b] \in WizardData /\ Stage(wizard[b])
  BY Types DEF Inv, Wizards
<1>5. /\ x \in WizardData
      /\ x.step = 1 /\ x.dni \in Dni
      /\ x.address = NoAccount /\ x.mint = "idle" /\ x.tokenId = -1
  BY <1>1, <1>3, <1>4 DEF WizardData, Stage, NoToken
<1>6. Stage(x) /\ Shows(x)
  BY <1>5 DEF Stage, Shows, NoToken
<1>7. OwnTxs(x)
  <2>1. \A i \in DOMAIN txs : txs[i].holder # NoAccount
    BY Types, RegistrationAssumption DEF Inv, Tx
  <2>2. QED
    BY <1>5, <2>1 DEF OwnTxs
<1>8. /\ generated \subseteq generated' /\ generated' \subseteq Wallet
      /\ faces' \subseteq Face /\ funded' \subseteq generated'
      /\ UNCHANGED <<txs, chainVars>>
  BY <1>3, Types DEF Inv
<1>9. QED
  BY <1>2, <1>5, <1>6, <1>7, <1>8, WizardKeeps

LEMMA ContinueKeeps ==
    ASSUME Inv, NEW b \in Browser, FaceContinue(b) \/ VerifyContinue(b)
    PROVE  Inv'
<1>1. PICK step : step = wizard[b].step + 1
  OBVIOUS
<1>2. PICK x : x = [wizard[b] EXCEPT !.step = step]
  OBVIOUS
<1>3. wizard[b] \in WizardData /\ Stage(wizard[b])
  BY Types DEF Inv, Wizards
<1>4. /\ wizard[b].step \in {1, 2}
      /\ wizard[b].step = 1 => wizard[b].face # NoHash
      /\ wizard' = [wizard EXCEPT ![b].step = step]
      /\ UNCHANGED <<generated, faces, funded, txs, chainVars>>
  BY <1>1 DEF FaceContinue, VerifyContinue
<1>5. wizard' = [wizard EXCEPT ![b] = x]
  BY <1>2, <1>4, Zenon
<1>6. step \in {2, 3}
  BY <1>1, <1>4
<1>7. /\ x \in WizardData
      /\ x.step = step
      /\ x.address = wizard[b].address /\ x.dni = wizard[b].dni /\ x.face = wizard[b].face
      /\ x.mint = wizard[b].mint /\ x.tokenId = wizard[b].tokenId
  BY <1>2, <1>3, <1>6 DEF WizardData
<1>8. /\ wizard[b].dni \in Dni /\ wizard[b].face \in Face
      /\ wizard[b].address = NoAccount /\ wizard[b].mint = "idle" /\ wizard[b].tokenId = -1
  BY <1>3, <1>4 DEF Stage, NoToken, WizardData
<1>9. Stage(x) /\ Shows(x)
  BY <1>6, <1>7, <1>8 DEF Stage, Shows, NoToken
<1>10. QED
  BY <1>4, <1>5, <1>7, <1>9, DataKeeps

LEMMA CheckKeeps ==
    ASSUME Inv, NEW b \in Browser, NEW check \in Check,
           wizard' = [wizard EXCEPT ![b].check = check],
           UNCHANGED <<generated, faces, funded, txs, chainVars>>
    PROVE  Inv'
<1>1. PICK x : x = [wizard[b] EXCEPT !.check = check]
  OBVIOUS
<1>2. wizard' = [wizard EXCEPT ![b] = x]
  BY <1>1, Zenon
<1>3. /\ wizard[b] \in WizardData
      /\ Stage(wizard[b]) /\ Shows(wizard[b])
  BY Types DEF Inv, Wizards
<1>4. /\ x \in WizardData
      /\ x.step = wizard[b].step /\ x.dni = wizard[b].dni /\ x.face = wizard[b].face
      /\ x.address = wizard[b].address /\ x.mint = wizard[b].mint /\ x.tx = wizard[b].tx
      /\ x.tokenId = wizard[b].tokenId
  BY <1>1, <1>3 DEF WizardData
<1>5. Stage(x) /\ Shows(x)
  BY <1>3, <1>4 DEF Stage, Shows
<1>6. QED
  BY <1>2, <1>4, <1>5, DataKeeps

LEMMA VerifyKeeps ==
    ASSUME Inv, NEW b \in Browser, Verify(b) \/ Dedupe(b) \/ DedupeFails(b)
    PROVE  Inv'
<1>1. CASE Verify(b)
  BY <1>1, CheckKeeps DEF Verify, Check
<1>2. CASE Dedupe(b)
  <2>1. PICK check \in Check : check = IF Duplicate(wizard[b].face) THEN "dup" ELSE "ok"
    BY DEF Check
  <2>2. /\ wizard' = [wizard EXCEPT ![b].check = check]
        /\ UNCHANGED <<generated, faces, funded, txs, chainVars>>
    BY <1>2, <2>1, Zenon DEF Dedupe
  <2>3. QED
    BY <2>2, CheckKeeps
<1>3. CASE DedupeFails(b)
  BY <1>3, CheckKeeps DEF DedupeFails, Check
<1>4. QED
  BY <1>1, <1>2, <1>3

LEMMA WalletContinueKeeps ==
    ASSUME Inv, NEW b \in Browser, NEW w \in Wallet, WalletContinue(b, w)
    PROVE  Inv'
<1>1. PICK x : x = [wizard[b] EXCEPT !.address = w, !.step = 4]
  OBVIOUS
<1>2. wizard' = [wizard EXCEPT ![b] = x]
  BY <1>1, Zenon DEF WalletContinue
<1>3. /\ wizard[b].step = 3
      /\ w \notin generated
      /\ generated' = generated \cup {w}
      /\ UNCHANGED <<faces, funded, txs, chainVars>>
  BY DEF WalletContinue
<1>4. wizard[b] \in WizardData /\ Stage(wizard[b])
  BY Types DEF Inv, Wizards
<1>5. /\ x \in WizardData
      /\ x.step = 4 /\ x.dni \in Dni /\ x.face \in Face
      /\ x.address = w /\ x.mint = "idle" /\ x.tokenId = -1
  <2>1. /\ wizard[b].dni \in Dni /\ wizard[b].face \in Face
        /\ wizard[b].mint = "idle" /\ wizard[b].tokenId = -1
    BY <1>3, <1>4 DEF Stage, NoToken
  <2>2. x \in WizardData /\ x.step = 4 /\ x.address = w
    <3>1. 4 \in 0 .. 4 /\ w \in Wallet \cup {NoAccount}
      OBVIOUS
    <3>2. x \in WizardData
      BY <1>1, <1>4, <3>1 DEF WizardData
    <3>3. QED
      BY <1>1, <1>4, <3>2 DEF WizardData
  <2>3. /\ x.dni = wizard[b].dni /\ x.face = wizard[b].face
        /\ x.mint = wizard[b].mint /\ x.tokenId = wizard[b].tokenId
    BY <1>1, <1>4 DEF WizardData
  <2>4. QED
    BY <2>1, <2>2, <2>3
<1>6. Stage(x) /\ Shows(x)
  BY <1>5, RegistrationAssumption DEF Stage, Shows, NoToken
<1>7. OwnTxs(x)
  BY <1>3, <1>5 DEF OwnTxs, Inv, SameHolder
<1>8. /\ generated \subseteq generated' /\ generated' \subseteq Wallet
      /\ faces' \subseteq Face /\ funded' \subseteq generated'
      /\ UNCHANGED <<txs, chainVars>>
      /\ x.address \in generated' /\ x.address \notin generated
  BY <1>3, <1>5, Types DEF Inv
<1>9. QED
  BY <1>2, <1>5, <1>6, <1>7, <1>8, WizardKeeps

--------------------------------------------------------------------------------
(* Step 5.                                                                    *)

\* mint() goes on, or ends, with the transaction it has.
LEMMA MintGoesKeeps ==
    ASSUME Inv, NEW b \in Browser, NEW state \in MintState, MintGoes(b, state),
           wizard[b].step = 4,
           UNCHANGED <<generated, txs, chainVars>>,
           faces' \subseteq Face, funded' \subseteq generated
    PROVE  Inv'
<1>1. PICK x : x = [wizard[b] EXCEPT !.mint = state]
  OBVIOUS
<1>2. wizard' = [wizard EXCEPT ![b] = x]
  BY <1>1, Zenon DEF MintGoes
<1>3. /\ wizard[b] \in WizardData
      /\ Stage(wizard[b]) /\ OwnTxs(wizard[b]) /\ Shows(wizard[b])
      /\ wizard[b].address \in generated \cup {NoAccount}
  BY Types DEF Inv, Wizards
<1>4. /\ x \in WizardData
      /\ x.step = wizard[b].step /\ x.dni = wizard[b].dni /\ x.face = wizard[b].face
      /\ x.address = wizard[b].address /\ x.mint = state /\ x.tx = wizard[b].tx
      /\ x.tokenId = wizard[b].tokenId
  BY <1>1, <1>3 DEF WizardData
<1>5. Stage(x) /\ OwnTxs(x) /\ Shows(x)
  BY <1>3, <1>4 DEF Stage, OwnTxs, Shows
<1>6. /\ generated \subseteq generated' /\ generated' \subseteq Wallet
      /\ funded' \subseteq generated'
      /\ x.address \in generated' \cup {NoAccount}
      /\ UNCHANGED <<txs, chainVars>>
  BY <1>3, <1>4, Types DEF Inv
<1>7. QED
  BY <1>2, <1>4, <1>5, <1>6, WizardKeeps

\* Only a wizard at its last step is minting.
LEMMA MintingStep ==
    ASSUME Inv, NEW b \in Browser, wizard[b].mint # "idle"
    PROVE  /\ wizard[b].step = 4
           /\ wizard[b].address \in generated
           /\ wizard[b].dni \in Dni /\ wizard[b].face \in Face
<1>1. wizard[b] \in WizardData /\ Stage(wizard[b])
  BY Types DEF Inv, Wizards
<1>2. wizard[b].address \in generated \cup {NoAccount}
  BY DEF Inv, Wizards
<1>3. wizard[b].step \in 0 .. 4
  BY <1>1 DEF WizardData
<1>4. QED
  BY <1>1, <1>2, <1>3 DEF Stage

LEMMA MintStepsKeep ==
    ASSUME Inv, NEW b \in Browser,
           \/ ClickMint(b) \/ DripAnswered(b) \/ DripFails(b) \/ Estimate(b)
           \/ Receipt(b) \/ MintFails(b) \/ RegisterFace(b)
    PROVE  Inv'
<1>1. faces \subseteq Face /\ funded \subseteq generated
  BY Types DEF Inv
<1>2. CASE ClickMint(b)
  <2>1. /\ wizard[b].step = 4 /\ MintGoes(b, "drip")
        /\ UNCHANGED <<generated, faces, funded, txs, chainVars>>
    BY <1>2 DEF ClickMint
  <2>2. faces' \subseteq Face /\ funded' \subseteq generated
    BY <1>1, <2>1
  <2>3. QED
    BY <2>1, <2>2, MintGoesKeeps DEF MintState, Minting
<1>3. CASE DripAnswered(b) \/ DripFails(b)
  <2>1. PICK state \in {"estimate", "error"} : MintGoes(b, state)
    BY <1>3 DEF DripAnswered, DripFails
  <2>2. /\ wizard[b].mint = "drip"
        /\ funded' \subseteq funded \cup {wizard[b].address}
        /\ UNCHANGED <<generated, faces, txs, chainVars>>
    BY <1>3 DEF DripAnswered, DripFails
  <2>3. wizard[b].step = 4 /\ wizard[b].address \in generated
    BY <2>2, MintingStep
  <2>4. faces' \subseteq Face /\ funded' \subseteq generated
    BY <1>1, <2>2, <2>3
  <2>5. QED
    BY <2>1, <2>2, <2>3, <2>4, MintGoesKeeps DEF MintState, Minting
<1>4. CASE Estimate(b)
  <2>1. PICK state \in {"broadcast", "error"} : MintGoes(b, state)
    BY <1>4, Zenon DEF Estimate
  <2>2. wizard[b].mint = "estimate" /\ UNCHANGED <<generated, faces, funded, txs, chainVars>>
    BY <1>4, Zenon DEF Estimate
  <2>3. wizard[b].step = 4
    BY <2>2, MintingStep
  <2>4. faces' \subseteq Face /\ funded' \subseteq generated
    BY <1>1, <2>2
  <2>5. QED
    BY <2>1, <2>2, <2>3, <2>4, MintGoesKeeps DEF MintState, Minting
<1>5. CASE Receipt(b)
  <2>1. /\ wizard[b].mint = "receipt" /\ MintGoes(b, "read")
        /\ txs[wizard[b].tx].status # "pending"
        /\ UNCHANGED <<generated, faces, funded, txs, chainVars>>
    BY <1>5 DEF Receipt
  <2>2. wizard[b].step = 4
    BY <2>1, MintingStep
  <2>3. faces' \subseteq Face /\ funded' \subseteq generated
    BY <1>1, <2>1
  <2>4. QED
    BY <2>1, <2>2, <2>3, MintGoesKeeps DEF MintState, Minting
<1>6. CASE MintFails(b)
  <2>1. PICK x : x = [wizard[b] EXCEPT !.mint = "error", !.tx = 0]
    OBVIOUS
  <2>2. /\ wizard[b].mint # "idle" /\ wizard' = [wizard EXCEPT ![b] = x]
        /\ UNCHANGED <<generated, faces, funded, txs, chainVars>>
    <3>1. wizard' = [wizard EXCEPT ![b] = x]
      BY <1>6, <2>1, Zenon DEF MintFails
    <3>2. QED
      BY <1>6, <3>1 DEF MintFails
  <2>3. wizard[b].step = 4
    BY <2>2, MintingStep
  <2>4. wizard[b] \in WizardData /\ Stage(wizard[b]) /\ Shows(wizard[b])
    BY Types DEF Inv, Wizards
  <2>5. /\ x \in WizardData
        /\ x.step = wizard[b].step /\ x.dni = wizard[b].dni /\ x.face = wizard[b].face
        /\ x.address = wizard[b].address /\ x.tokenId = wizard[b].tokenId
    BY <2>1, <2>4 DEF WizardData, MintState
  <2>6. Stage(x) /\ Shows(x)
    BY <2>3, <2>4, <2>5 DEF Stage, Shows
  <2>7. QED
    BY <2>2, <2>5, <2>6, DataKeeps
<1>7. CASE RegisterFace(b)
  <2>1. /\ wizard[b].mint = "register" /\ MintGoes(b, "done")
        /\ faces' \subseteq faces \cup {wizard[b].face}
        /\ UNCHANGED <<generated, funded, txs, chainVars>>
    BY <1>7 DEF RegisterFace
  <2>2. wizard[b].step = 4 /\ wizard[b].face \in Face
    BY <2>1, MintingStep
  <2>3. faces' \subseteq Face /\ funded' \subseteq generated
    BY <1>1, <2>1, <2>2
  <2>4. QED
    BY <2>1, <2>2, <2>3, MintGoesKeeps DEF MintState
<1>8. QED
  BY <1>2, <1>3, <1>4, <1>5, <1>6, <1>7

LEMMA ReadTokenKeeps ==
    ASSUME Inv, NEW b \in Browser, ReadToken(b)
    PROVE  Inv'
<1>1. PICK t : t = tokenOfOwner[wizard[b].address]
  OBVIOUS
<1>2. PICK x : x = [wizard[b] EXCEPT !.mint = "register", !.tokenId = t]
  OBVIOUS
<1>3. wizard' = [wizard EXCEPT ![b] = x]
  BY <1>1, <1>2, Zenon DEF ReadToken
<1>4. wizard[b].mint = "read" /\ UNCHANGED <<generated, faces, funded, txs, chainVars>>
  BY DEF ReadToken
<1>5. /\ wizard[b] \in WizardData
      /\ Stage(wizard[b]) /\ OwnTxs(wizard[b])
  BY Types DEF Inv, Wizards
<1>6. wizard[b].step = 4 /\ wizard[b].address \in Wallet
  BY <1>4, MintingStep, Types DEF Inv
<1>7. t \in Nat
  BY <1>1, <1>6 DEF Inv, Pointed, Account
<1>8. /\ x \in WizardData
      /\ x.step = wizard[b].step /\ x.dni = wizard[b].dni /\ x.face = wizard[b].face
      /\ x.address = wizard[b].address /\ x.mint = "register" /\ x.tx = wizard[b].tx
      /\ x.tokenId = t
  <2>1. "register" \in MintState /\ t \in Int
    BY <1>7 DEF MintState, Minting
  <2>2. x \in WizardData /\ x.mint = "register" /\ x.tokenId = t
    BY <1>2, <1>5, <2>1 DEF WizardData
  <2>3. /\ x.step = wizard[b].step /\ x.dni = wizard[b].dni /\ x.face = wizard[b].face
        /\ x.address = wizard[b].address /\ x.tx = wizard[b].tx
    BY <1>2, <1>5 DEF WizardData
  <2>4. QED
    BY <2>2, <2>3
<1>9. Stage(x)
  BY <1>4, <1>5, <1>6, <1>8 DEF Stage
<1>10. Shows(x)
  <2>1. SUFFICES ASSUME t > 0
                 PROVE  [holder |-> x.address, tokenId |-> t, dni |-> x.dni, face |-> x.face]
                            \in cedulaMinted
    BY <1>8 DEF Shows
  <2>2. PICK i \in DOMAIN txs :
               /\ txs[i].holder = wizard[b].address
               /\ [holder |-> wizard[b].address, tokenId |-> t,
                   dni |-> txs[i].dni, face |-> txs[i].face] \in cedulaMinted
    BY <1>1, <1>6, <2>1 DEF Inv, Pointed
  <2>3. txs[i].dni = wizard[b].dni /\ txs[i].face = wizard[b].face
    BY <1>5, <2>2 DEF OwnTxs
  <2>4. QED
    BY <1>8, <2>2, <2>3
<1>11. QED
  BY <1>3, <1>4, <1>8, <1>9, <1>10, DataKeeps

\* "Registrar otra identidad" and a reload give the wizard its first state back.
LEMMA BlankKeeps ==
    ASSUME Inv, NEW b \in Browser, Reset(b) \/ Reload(b)
    PROVE  Inv'
<1>1. /\ wizard' = [wizard EXCEPT ![b] = Blank]
      /\ UNCHANGED <<generated, faces, funded, txs, chainVars>>
  BY DEF Reset, Reload
<1>2. /\ Blank \in WizardData
      /\ Blank.step = 0 /\ Blank.address = NoAccount /\ Blank.mint = "idle"
      /\ Blank.tokenId = -1
  BY DEF Blank, WizardData, Check, MintState, NoToken
<1>3. Stage(Blank) /\ Shows(Blank)
  BY <1>2 DEF Stage, Shows, NoToken
<1>4. OwnTxs(Blank)
  <2>1. \A i \in DOMAIN txs : txs[i].holder # NoAccount
    BY Types, RegistrationAssumption DEF Inv, Tx
  <2>2. QED
    BY <1>2, <2>1 DEF OwnTxs
<1>5. /\ generated \subseteq generated' /\ generated' \subseteq Wallet
      /\ faces' \subseteq Face /\ funded' \subseteq generated'
      /\ UNCHANGED <<txs, chainVars>>
  BY <1>1, Types DEF Inv
<1>6. QED
  BY <1>1, <1>2, <1>3, <1>4, <1>5, WizardKeeps

\* A transaction is sent: of this wizard's wallet, document and face.
LEMMA BroadcastKeeps ==
    ASSUME Inv, NEW b \in Browser, Broadcast(b)
    PROVE  Inv'
<1>1. PICK n : n = Len(txs) + 1
  OBVIOUS
<1>2. PICK tx : tx = [holder |-> wizard[b].address, dni |-> wizard[b].dni,
                      face |-> wizard[b].face, status |-> "pending"]
  OBVIOUS
<1>3. PICK y : y = [wizard[b] EXCEPT !.mint = "receipt", !.tx = n]
  OBVIOUS
<1>4. PICK z : z = [wizard[b] EXCEPT !.mint = "error"]
  OBVIOUS
<1>5. PICK x \in {y, z} : wizard' = [wizard EXCEPT ![b] = x]
  <2>1. wizard' = [wizard EXCEPT ![b] = y] \/ wizard' = [wizard EXCEPT ![b] = z]
    BY <1>1, <1>3, <1>4, Zenon DEF Broadcast, MintGoes
  <2>2. QED
    BY <2>1
<1>6. /\ wizard[b].mint = "broadcast"
      /\ txs' = Append(txs, tx)
      /\ UNCHANGED <<generated, faces, funded, chainVars>>
  BY <1>2, Zenon DEF Broadcast
<1>7. /\ wizard[b] \in WizardData
      /\ Stage(wizard[b]) /\ OwnTxs(wizard[b]) /\ Shows(wizard[b])
      /\ n \in Nat
  BY <1>1, Types DEF Inv, Wizards
<1>8. /\ wizard[b].step = 4
      /\ wizard[b].address \in generated /\ wizard[b].address \in Wallet
      /\ wizard[b].dni \in Dni /\ wizard[b].face \in Face
  BY <1>6, MintingStep, Types DEF Inv
<1>9. /\ tx \in Tx
      /\ tx.holder = wizard[b].address /\ tx.dni = wizard[b].dni
      /\ tx.face = wizard[b].face /\ tx.status = "pending"
  BY <1>2, <1>8 DEF Tx
<1>10. /\ x \in WizardData
       /\ x.step = wizard[b].step /\ x.dni = wizard[b].dni /\ x.face = wizard[b].face
       /\ x.address = wizard[b].address /\ x.tokenId = wizard[b].tokenId
       /\ x.mint = "error" \/ (x.mint = "receipt" /\ x.tx = n)
  <2>1. CASE x = y
    BY <2>1, <1>3, <1>7 DEF WizardData, MintState, Minting
  <2>2. CASE x = z
    BY <2>2, <1>4, <1>7 DEF WizardData, MintState
  <2>3. QED
    BY <2>1, <2>2
<1>11. /\ txs' \in Seq(Tx)
       /\ DOMAIN txs' = DOMAIN txs \cup {n}
       /\ n \notin DOMAIN txs
       /\ txs'[n] = tx
       /\ \A i \in DOMAIN txs : txs'[i] = txs[i]
  BY <1>1, <1>6, <1>9, Types DEF Inv
<1>12. /\ wizard' \in [Browser -> WizardData]
       /\ wizard'[b] = x
       /\ \A c \in Browser : c # b => wizard'[c] = wizard[c]
  BY <1>5, <1>10, Types DEF Inv
<1>13. UNCHANGED <<generated, usedDni, tokenOfOwner, cedulaMinted>>
  BY <1>6 DEF chainVars
<1>14. TypeOK'
  BY <1>6, <1>11, <1>12 DEF Inv, TypeOK
<1>15. Wizards'
  <2>1. ASSUME NEW c \in Browser, c # b
        PROVE  /\ Stage(wizard[c]) /\ OwnTxs(wizard[c]) /\ Shows(wizard[c])
               /\ wizard[c].address \in generated \cup {NoAccount}
    BY DEF Inv, Wizards
  <2>2. ASSUME NEW c \in Browser, c # b
        PROVE  wizard[c].address # tx.holder
    BY <1>8, <1>9, <2>2, Types, RegistrationAssumption DEF Inv, OneOwner
  <2>3. ASSUME NEW c \in Browser
        PROVE  OwnTxs(wizard[c])'
    <3>1. CASE c = b
      BY <3>1, <1>7, <1>9, <1>10, <1>11, <1>12 DEF OwnTxs
    <3>2. CASE c # b
      BY <3>2, <2>1, <2>2, <1>11, <1>12 DEF OwnTxs
    <3>3. QED
      BY <3>1, <3>2
  <2>4. ASSUME NEW c \in Browser
        PROVE  /\ Stage(wizard[c])' /\ Shows(wizard[c])'
               /\ wizard'[c].address \in generated' \cup {NoAccount}
    <3>1. CASE c = b
      BY <3>1, <1>7, <1>8, <1>10, <1>12, <1>13 DEF Stage, Shows
    <3>2. CASE c # b
      BY <3>2, <2>1, <1>12, <1>13 DEF Stage, Shows
    <3>3. QED
      BY <3>1, <3>2
  <2>5. QED
    BY <2>3, <2>4 DEF Wizards
<1>16. OneOwner'
  BY <1>10, <1>12 DEF Inv, OneOwner
<1>17. SameHolder'
  <2>1. \A i \in DOMAIN txs :
          txs[i].holder = tx.holder => txs[i].dni = tx.dni /\ txs[i].face = tx.face
    BY <1>7, <1>9 DEF OwnTxs
  <2>2. QED
    BY <1>8, <1>9, <1>11, <1>13, <2>1 DEF Inv, SameHolder
<1>18. MintedOnce'
  BY <1>9, <1>11, <1>13 DEF Inv, MintedOnce
<1>19. Pointed'
  BY <1>11, <1>13 DEF Inv, Pointed
<1>20. QED
  BY <1>14, <1>15, <1>16, <1>17, <1>18, <1>19 DEF Inv

--------------------------------------------------------------------------------
(* The surroundings.                                                          *)

LEMMA MineKeeps ==
    ASSUME Inv, NEW i \in DOMAIN txs, Mine(i)
    PROVE  Inv'
<1>1. PICK mints \in BOOLEAN :
             mints = Chain!MayMint(txs[i].holder, txs[i].dni, txs[i].face)
  BY DEF Chain!MayMint
<1>2. PICK status : status = IF mints THEN "success" ELSE "reverted"
  OBVIOUS
<1>3. PICK tx : tx = [txs[i] EXCEPT !.status = status]
  OBVIOUS
<1>4. txs' = [txs EXCEPT ![i] = tx]
  BY <1>1, <1>2, <1>3, Zenon DEF Mine
<1>5. txs[i].status = "pending" /\ UNCHANGED <<wizard, generated, faces, funded>>
  BY DEF Mine
<1>6. txs[i] \in Tx
  BY Types DEF Inv
<1>7. /\ tx \in Tx
      /\ tx.holder = txs[i].holder /\ tx.dni = txs[i].dni /\ tx.face = txs[i].face
      /\ tx.status = status /\ status # "pending"
  BY <1>2, <1>3, <1>6 DEF Tx
<1>8. /\ txs' \in Seq(Tx)
      /\ DOMAIN txs' = DOMAIN txs
      /\ txs'[i] = tx
      /\ \A j \in DOMAIN txs : j # i => txs'[j] = txs[j]
  BY <1>4, <1>7, Types DEF Inv
<1>9. \A j \in DOMAIN txs :
        /\ txs'[j].holder = txs[j].holder
        /\ txs'[j].dni = txs[j].dni
        /\ txs'[j].face = txs[j].face
        /\ txs[j].status # "pending" => txs'[j].status = txs[j].status
        /\ txs'[j].status = "pending" => txs[j].status = "pending"
  BY <1>5, <1>7, <1>8
<1>10. PICK cedula : cedula = [holder |-> tx.holder, tokenId |-> nextId,
                               dni |-> tx.dni, face |-> tx.face]
  OBVIOUS
<1>11. ASSUME mints
       PROVE  /\ tx.dni \notin usedDni
              /\ usedDni' = usedDni \cup {tx.dni}
              /\ nextId \in Nat
              /\ tokenOfOwner' = [tokenOfOwner EXCEPT ![tx.holder] = nextId]
              /\ cedulaMinted' = cedulaMinted \cup {cedula}
  <2>1. /\ Chain!MayMint(tx.holder, tx.dni, tx.face)
        /\ Chain!Mint(tx.holder, tx.dni, tx.face)
    BY <1>1, <1>7, <1>11 DEF Mine
  <2>2. tx.dni \notin usedDni
    BY <2>1 DEF Chain!MayMint
  <2>3. /\ usedDni' = usedDni \cup {tx.dni}
        /\ nextId \in Nat
        /\ tokenOfOwner' = [tokenOfOwner EXCEPT ![tx.holder] = nextId]
        /\ cedulaMinted' = cedulaMinted \cup {cedula}
    BY <1>10, <2>1, RegistrationAssumption DEF Chain!Mint, Chain!TokenId
  <2>4. QED
    BY <2>2, <2>3
<1>12. ASSUME ~mints
       PROVE  UNCHANGED <<usedDni, tokenOfOwner, cedulaMinted>>
  BY <1>1, <1>12 DEF Mine, chainVars
<1>13. cedulaMinted \subseteq cedulaMinted'
  BY <1>1, <1>11, <1>12
<1>14. TypeOK'
  BY <1>5, <1>8 DEF Inv, TypeOK
<1>15. Wizards'
  <2>1. ASSUME NEW c \in Browser
        PROVE  /\ Stage(wizard[c])' /\ OwnTxs(wizard[c])'
               /\ Shows(wizard[c])'
               /\ wizard'[c].address \in generated' \cup {NoAccount}
    <3>1. /\ Stage(wizard[c]) /\ OwnTxs(wizard[c]) /\ Shows(wizard[c])
          /\ wizard[c].address \in generated \cup {NoAccount}
      BY DEF Inv, Wizards
    <3>2. Stage(wizard[c])' /\ wizard'[c].address \in generated' \cup {NoAccount}
      BY <1>5, <3>1 DEF Stage
    <3>3. OwnTxs(wizard[c])'
      BY <1>5, <1>8, <1>9, <3>1 DEF OwnTxs
    <3>4. Shows(wizard[c])'
      BY <1>5, <1>13, <3>1 DEF Shows
    <3>5. QED
      BY <3>2, <3>3, <3>4
  <2>2. QED
    BY <2>1 DEF Wizards
<1>16. OneOwner'
  BY <1>5 DEF Inv, OneOwner
<1>17. SameHolder'
  BY <1>5, <1>8, <1>9 DEF Inv, SameHolder
<1>18. MintedOnce'
  <2>1. CASE mints
    <3>1. \A j \in DOMAIN txs : j # i /\ txs'[j].status = "success" => txs'[j].dni # tx.dni
      BY <1>8, <1>11, <2>1 DEF Inv, MintedOnce
    <3>2. \A j \in DOMAIN txs' : txs'[j].status = "success" => txs'[j].dni \in usedDni'
      BY <1>8, <1>11, <2>1 DEF Inv, MintedOnce
    <3>3. \A j, k \in DOMAIN txs' :
            /\ txs'[j].dni = txs'[k].dni
            /\ txs'[j].status = "success" /\ txs'[k].status = "success"
            => j = k
      BY <1>8, <3>1 DEF Inv, MintedOnce
    <3>4. QED
      BY <3>2, <3>3 DEF MintedOnce
  <2>2. CASE ~mints
    <3>1. txs'[i].status # "success"
      BY <1>2, <1>7, <1>8, <2>2
    <3>2. QED
      BY <1>8, <1>12, <2>2, <3>1 DEF Inv, MintedOnce
  <2>3. QED
    BY <2>1, <2>2
<1>19. Pointed'
  <2>1. CASE mints
    <3>1. /\ tokenOfOwner' \in [Account -> Nat]
          /\ tokenOfOwner'[tx.holder] = nextId
          /\ \A w \in Wallet : w # tx.holder => tokenOfOwner'[w] = tokenOfOwner[w]
      BY <1>7, <1>11, <2>1 DEF Inv, Pointed, Tx, Account
    <3>2. ASSUME NEW w \in Wallet, tokenOfOwner'[w] > 0
          PROVE  \E j \in DOMAIN txs' :
                     /\ txs'[j].holder = w
                     /\ [holder |-> w, tokenId |-> tokenOfOwner'[w],
                         dni |-> txs'[j].dni, face |-> txs'[j].face] \in cedulaMinted'
      <4>1. CASE w = tx.holder
        BY <4>1, <1>8, <1>10, <1>11, <2>1, <3>1
      <4>2. CASE w # tx.holder
        <5>1. PICK j \in DOMAIN txs :
                     /\ txs[j].holder = w
                     /\ [holder |-> w, tokenId |-> tokenOfOwner[w],
                         dni |-> txs[j].dni, face |-> txs[j].face] \in cedulaMinted
          BY <3>1, <3>2, <4>2 DEF Inv, Pointed
        <5>2. QED
          BY <5>1, <1>8, <1>9, <1>13, <3>1, <4>2
      <4>3. QED
        BY <4>1, <4>2
    <3>3. QED
      BY <3>1, <3>2 DEF Pointed
  <2>2. CASE ~mints
    <3>1. UNCHANGED <<tokenOfOwner, cedulaMinted>>
      BY <1>12, <2>2
    <3>2. QED
      BY <1>8, <1>9, <3>1 DEF Inv, Pointed
  <2>3. QED
    BY <2>1, <2>2
<1>20. QED
  BY <1>14, <1>15, <1>16, <1>17, <1>18, <1>19 DEF Inv

LEMMA BurnKeeps ==
    ASSUME Inv, NEW a \in Account, NEW t \in Chain!TokenId, Burn(a, t)
    PROVE  Inv'
<1>1. /\ tokenOfOwner' = [tokenOfOwner EXCEPT ![a] = 0]
      /\ UNCHANGED <<usedDni, cedulaMinted>>
      /\ UNCHANGED <<wizard, generated, faces, funded, txs>>
  BY DEF Burn, Chain!Burn
<1>2. TypeOK'
  BY <1>1 DEF Inv, TypeOK
<1>3. Wizards'
  BY <1>1 DEF Inv, Wizards, Stage, OwnTxs, Shows
<1>4. OneOwner' /\ SameHolder' /\ MintedOnce'
  BY <1>1 DEF Inv, OneOwner, SameHolder, MintedOnce
<1>5. Pointed'
  BY <1>1 DEF Inv, Pointed, Account
<1>6. QED
  BY <1>2, <1>3, <1>4, <1>5 DEF Inv

\* Who mints without the wizard uses a document, and an account no wizard has.
LEMMA OutsiderKeeps ==
    ASSUME Inv, NEW a \in Outsider, NEW dni \in Dni, NEW face \in Face,
           OutsiderMints(a, dni, face)
    PROVE  Inv'
<1>1. PICK cedula : cedula = [holder |-> a, tokenId |-> nextId, dni |-> dni, face |-> face]
  OBVIOUS
<1>2. /\ usedDni' = usedDni \cup {dni}
      /\ nextId \in Nat
      /\ tokenOfOwner' = [tokenOfOwner EXCEPT ![a] = nextId]
      /\ cedulaMinted' = cedulaMinted \cup {cedula}
      /\ UNCHANGED <<wizard, generated, faces, funded, txs>>
  BY <1>1, RegistrationAssumption DEF OutsiderMints, Chain!Mint, Chain!TokenId
<1>3. TypeOK'
  BY <1>2 DEF Inv, TypeOK
<1>4. Wizards'
  BY <1>2 DEF Inv, Wizards, Stage, OwnTxs, Shows
<1>5. OneOwner' /\ SameHolder' /\ MintedOnce'
  BY <1>2 DEF Inv, OneOwner, SameHolder, MintedOnce
<1>6. /\ tokenOfOwner' \in [Account -> Nat]
      /\ \A w \in Wallet : tokenOfOwner'[w] = tokenOfOwner[w]
  BY <1>2, RegistrationAssumption DEF Inv, Pointed, Account
<1>7. Pointed'
  BY <1>2, <1>6 DEF Inv, Pointed
<1>8. QED
  BY <1>3, <1>4, <1>5, <1>7 DEF Inv

\* Hermes forgets its faces, or learns one from anybody.
LEMMA HermesKeeps ==
    ASSUME Inv, HermesRestarts \/ \E face \in Face : AnyoneRegisters(face)
    PROVE  Inv'
<1>1. faces' \subseteq Face /\ UNCHANGED <<wizard, generated, funded, txs, chainVars>>
  BY Types DEF Inv, HermesRestarts, AnyoneRegisters
<1>2. UNCHANGED <<usedDni, tokenOfOwner, cedulaMinted>>
  BY <1>1 DEF chainVars
<1>3. QED
  BY <1>1, <1>2 DEF Inv, TypeOK, Wizards, Stage, OwnTxs, Shows, OneOwner, SameHolder,
                    MintedOnce, Pointed

--------------------------------------------------------------------------------
(* The theorems.                                                              *)

LEMMA InvHolds == Spec => []Inv
<1>1. Init => Inv
  <2>1. SUFFICES ASSUME Init
                 PROVE  Inv
    OBVIOUS
  <2>2. /\ wizard = [b \in Browser |-> Blank]
        /\ generated = {} /\ faces = {} /\ funded = {} /\ txs = <<>>
        /\ tokenOfOwner = [w \in Account |-> 0]
    BY <2>1 DEF Init, Chain!Init
  <2>3. /\ Blank \in WizardData
        /\ Blank.step = 0 /\ Blank.address = NoAccount /\ Blank.mint = "idle"
        /\ Blank.tokenId = -1
    BY DEF Blank, WizardData, Check, MintState, NoToken
  <2>4. TypeOK
    BY <2>2, <2>3 DEF TypeOK
  <2>5. Stage(Blank) /\ OwnTxs(Blank) /\ Shows(Blank)
    BY <2>2, <2>3 DEF Stage, OwnTxs, Shows, NoToken
  <2>6. Wizards /\ OneOwner
    BY <2>2, <2>3, <2>5 DEF Wizards, OneOwner
  <2>7. SameHolder /\ MintedOnce /\ Pointed
    BY <2>2 DEF SameHolder, MintedOnce, Pointed, Account
  <2>8. QED
    BY <2>4, <2>6, <2>7 DEF Inv
<1>2. Inv /\ [Next]_vars => Inv'
  <2>1. SUFFICES ASSUME Inv, [Next]_vars
                 PROVE  Inv'
    OBVIOUS
  <2>2. ASSUME NEW b \in Browser, Wizard(b)
        PROVE  Inv'
    <3>1. CASE \E dni \in Dni : SubmitDni(b, dni)
      BY <2>1, <3>1, SubmitDniKeeps
    <3>2. CASE \E face \in Face : Capture(b, face)
      BY <2>1, <3>2, CaptureKeeps
    <3>3. CASE FaceContinue(b) \/ VerifyContinue(b)
      BY <2>1, <3>3, ContinueKeeps
    <3>4. CASE Verify(b) \/ Dedupe(b) \/ DedupeFails(b)
      BY <2>1, <3>4, VerifyKeeps
    <3>5. CASE \E w \in Wallet : WalletContinue(b, w)
      BY <2>1, <3>5, WalletContinueKeeps
    <3>6. CASE \/ ClickMint(b) \/ DripAnswered(b) \/ DripFails(b) \/ Estimate(b)
               \/ Receipt(b) \/ MintFails(b) \/ RegisterFace(b)
      BY <2>1, <3>6, MintStepsKeep
    <3>7. CASE Broadcast(b)
      BY <2>1, <3>7, BroadcastKeeps
    <3>8. CASE ReadToken(b)
      BY <2>1, <3>8, ReadTokenKeeps
    <3>9. CASE Reset(b) \/ Reload(b)
      BY <2>1, <3>9, BlankKeeps
    <3>10. QED
      BY <2>2, <3>1, <3>2, <3>3, <3>4, <3>5, <3>6, <3>7, <3>8, <3>9 DEF Wizard
  <2>3. CASE HermesRestarts \/ \E face \in Face : AnyoneRegisters(face)
    BY <2>1, <2>3, HermesKeeps
  <2>4. ASSUME NEW i \in DOMAIN txs, Mine(i)
        PROVE  Inv'
    BY <2>1, <2>4, MineKeeps
  <2>5. ASSUME NEW a \in Account, NEW t \in Chain!TokenId, Burn(a, t)
        PROVE  Inv'
    BY <2>1, <2>5, BurnKeeps
  <2>6. ASSUME NEW a \in Outsider, NEW dni \in Dni, NEW face \in Face,
               OutsiderMints(a, dni, face)
        PROVE  Inv'
    BY <2>1, <2>6, OutsiderKeeps
  <2>7. CASE UNCHANGED vars
    <3>1. UNCHANGED <<wizard, generated, faces, funded, txs, usedDni, tokenOfOwner, cedulaMinted>>
      BY <2>7 DEF vars, chainVars
    <3>2. TypeOK' /\ Wizards'
      BY <2>1, <3>1 DEF Inv, TypeOK, Wizards, Stage, OwnTxs, Shows
    <3>3. OneOwner' /\ SameHolder' /\ MintedOnce' /\ Pointed'
      BY <2>1, <3>1 DEF Inv, OneOwner, SameHolder, MintedOnce, Pointed
    <3>4. QED
      BY <3>2, <3>3 DEF Inv
  <2>8. QED
    BY <2>1, <2>2, <2>3, <2>4, <2>5, <2>6, <2>7 DEF Next
<1>3. QED
  BY <1>1, <1>2, PTL DEF Spec

\* Every variable has its type: no transaction is sent without a wallet, a
\* document and a face, and no gas goes to a wallet nobody generated.
THEOREM TypeCorrect == Spec => []TypeOK
<1>1. Inv => TypeOK
  BY DEF Inv
<1>2. QED
  BY <1>1, InvHolds, PTL

\* Of the transactions that share a document or a wallet, one mints at most.
THEOREM OneCedula == Spec => []OneCedulaPerDocument
<1>1. Inv => OneCedulaPerDocument
  BY DEF Inv, OneCedulaPerDocument, SameHolder, MintedOnce
<1>2. QED
  BY <1>1, InvHolds, PTL

\* A token number on the page is that of the cedula minted to this wizard's wallet
\* from its document and its face.
THEOREM ShownIsOwn == Spec => []ShownCedulaIsOwn
<1>1. Inv => ShownCedulaIsOwn
  BY DEF Inv, Wizards, Shows, ShownCedulaIsOwn
<1>2. QED
  BY <1>1, InvHolds, PTL

--------------------------------------------------------------------------------
(* The chain under the wizards is CivicChain.                                 *)

OpenPoll == [id |-> 1, openAt |-> 0, closeAt |-> 1, closed |-> FALSE]

Proved == INSTANCE CivicChainProofs WITH
    Contract <- {}, ProposalId <- {1}, MaxTime <- 1,
    hashes <- [a \in Account |-> NoHash], registry <- "IdentitySBT",
    proposals <- [id \in {1} |-> OpenPoll],
    count <- [id \in {1} |-> [c \in {"Yes", "No", "Abstain"} |-> 0]],
    voted <- [id \in {1} |-> [a \in Account |-> FALSE]],
    proposalClosed <- {}, timestamp <- 0, ballots <- {}

\* The assumptions of CivicChain hold of the constants it is instantiated with.
LEMMA ChainAssumptionHolds ==
    /\ {} \subseteq Account
    /\ NoAccount \notin Account
    /\ NoHash \notin Dni \cup Face
    /\ 1 \in {1}
    /\ {1} \subseteq Nat
    /\ MaxTokenId \in Nat
    /\ 1 \in Nat
BY RegistrationAssumption DEF Account

\* No account has code, so no mint waits for a callback.
NoCallback == frames = <<>>

LEMMA ChainStep ==
    ASSUME TypeOK, NoCallback, [Next]_vars
    PROVE  [Proved!Next]_(Proved!vars) /\ NoCallback'
<1>1. Proved!Caller = Account
  BY DEF NoCallback, Proved!Caller
<1>2. ASSUME UNCHANGED chainVars
      PROVE  UNCHANGED Proved!vars /\ NoCallback'
  BY <1>2 DEF chainVars, NoCallback, Proved!vars, Proved!identityVars, Proved!pollVars
<1>3. ASSUME NEW a \in Account, NEW dni \in Dni, NEW face \in Face, Chain!Mint(a, dni, face)
      PROVE  Proved!Next /\ NoCallback'
  <2>1. Proved!Mint(a, dni, face)
    BY <1>3 DEF Proved!Mint, Chain!Mint, Proved!Identity!Mint,
                Chain!MayMint, Proved!Identity!MayMint,
                Chain!MayUpdate, Proved!Identity!MayUpdate,
                Chain!Update, Proved!Identity!Update,
                Chain!TokenId, Proved!Identity!TokenId, Proved!pollVars
  <2>2. NoCallback'
    BY <1>3 DEF NoCallback, Chain!Mint
  <2>3. QED
    BY <1>1, <2>1, <2>2 DEF Proved!Next
<1>4. ASSUME NEW i \in DOMAIN txs, Mine(i)
      PROVE  [Proved!Next]_(Proved!vars) /\ NoCallback'
  <2>1. txs[i].holder \in Account /\ txs[i].dni \in Dni /\ txs[i].face \in Face
    BY Types DEF Tx, Account
  <2>2. \/ Chain!Mint(txs[i].holder, txs[i].dni, txs[i].face)
        \/ UNCHANGED chainVars
    BY <1>4, Zenon DEF Mine
  <2>3. QED
    BY <1>2, <1>3, <2>1, <2>2
<1>5. ASSUME NEW a \in Outsider, NEW dni \in Dni, NEW face \in Face, OutsiderMints(a, dni, face)
      PROVE  [Proved!Next]_(Proved!vars) /\ NoCallback'
  BY <1>3, <1>5 DEF OutsiderMints, Account
<1>6. ASSUME NEW a \in Account, NEW t \in Chain!TokenId, Burn(a, t)
      PROVE  Proved!Next /\ NoCallback'
  <2>1. Chain!Burn(a, t)
    BY <1>6 DEF Burn
  <2>2. Proved!Burn(a, t)
    BY <2>1 DEF Proved!Burn, Chain!Burn, Proved!Identity!Burn,
                Chain!MayUpdate, Proved!Identity!MayUpdate,
                Chain!Update, Proved!Identity!Update, Proved!pollVars
  <2>3. NoCallback'
    BY <2>1 DEF NoCallback, Chain!Burn
  <2>4. QED
    BY <1>1, <2>2, <2>3 DEF Proved!Next, Proved!Identity!TokenId, Chain!TokenId
<1>7. ASSUME NEW b \in Browser, Wizard(b)
      PROVE  UNCHANGED chainVars
  BY <1>7, Zenon DEF Wizard, SubmitDni, Capture, FaceContinue, Verify, Dedupe, DedupeFails,
     VerifyContinue, WalletContinue, ClickMint, DripAnswered, DripFails, Estimate, Broadcast,
     Receipt, ReadToken, MintFails, RegisterFace, Reset, Reload
<1>8. QED
  BY <1>2, <1>4, <1>5, <1>6, <1>7 DEF Next, HermesRestarts, AnyoneRegisters, vars

LEMMA NoCallbackHolds == Spec => []NoCallback
<1>1. Init => NoCallback
  BY DEF Init, Chain!Init, NoCallback
<1>2. TypeOK /\ NoCallback /\ [Next]_vars => NoCallback'
  BY ChainStep
<1>3. QED
  BY <1>1, <1>2, TypeCorrect, PTL DEF Spec

\* Whatever wizards, their retries and their reloads do to the contract, anyone could
\* do to it as CivicChain describes: every theorem about cedulas holds of them.
THEOREM WizardsUseTheChain == Spec => Proved!Spec
<1>1. Init => Proved!Init
  BY DEF Init, Chain!Init, Proved!Init, Proved!Identity!Init, Chain!TokenId,
         Proved!Identity!TokenId, Proved!Citizens!Init, Proved!Poll!Init, Proved!Poll!Registry,
         Proved!Poll!Time, Proved!Poll!Choice, OpenPoll
<1>2. TypeOK /\ NoCallback /\ [Next]_vars => [Proved!Next]_(Proved!vars)
  BY ChainStep
<1>3. QED
  BY <1>1, <1>2, TypeCorrect, NoCallbackHolds, PTL DEF Spec, Proved!Spec

\* However wizards race, retry and reload, whatever Hermes forgets or is told and whoever
\* calls the contract without them, the citizens they register are distinct: no two cedulas
\* share a document or a face, no two wizards show the same token, and a token
\* shown is with the wallet of its wizard unless that wallet burned it.
THEOREM CitizensDiffer == Spec => []CitizensAreDistinct
<1>1. Proved!Spec => []Proved!CommitmentsBoundOnce
  BY Proved!CommitmentsAreUnique, ChainAssumptionHolds, PTL
<1>2. Proved!Spec => []Proved!LogTellsHolders
  BY Proved!LogTells, ChainAssumptionHolds
<1>3. Inv /\ NoCallback /\ Proved!CommitmentsBoundOnce /\ Proved!LogTellsHolders
        => CitizensAreDistinct
  <2> SUFFICES ASSUME Inv, NoCallback, Proved!CommitmentsBoundOnce, Proved!LogTellsHolders
               PROVE  CitizensAreDistinct
    OBVIOUS
  <2>1. \A m, n \in cedulaMinted :
          m.dni = n.dni \/ m.face = n.face \/ m.tokenId = n.tokenId => m = n
    BY DEF Proved!CommitmentsBoundOnce, Proved!Issued
  <2>2. ASSUME NEW b \in Browser, wizard[b].tokenId > 0
        PROVE  /\ [holder |-> wizard[b].address, tokenId |-> wizard[b].tokenId,
                   dni |-> wizard[b].dni, face |-> wizard[b].face] \in cedulaMinted
               /\ wizard[b].address # NoAccount
    <3>1. wizard[b] \in WizardData /\ Stage(wizard[b]) /\ Shows(wizard[b])
      BY Types DEF Inv, Wizards
    <3>2. wizard[b].step \in 0 .. 4
      BY <3>1 DEF WizardData
    <3>3. wizard[b].address # NoAccount
      BY <2>2, <3>1, <3>2 DEF Stage, NoToken
    <3>4. QED
      BY <2>2, <3>1, <3>3 DEF Shows
  <2>3. ASSUME NEW b \in Browser, NEW c \in Browser,
               wizard[b].tokenId = wizard[c].tokenId, wizard[b].tokenId > 0
        PROVE  b = c
    <3>1. wizard[b].address = wizard[c].address
      BY <2>1, <2>2, <2>3
    <3>2. QED
      BY <2>2, <2>3, <3>1 DEF Inv, OneOwner
  <2>4. ASSUME NEW b \in Browser, wizard[b].tokenId > 0
        PROVE  \/ owner[wizard[b].tokenId] = wizard[b].address
               \/ [holder |-> wizard[b].address, tokenId |-> wizard[b].tokenId]
                    \in cedulaBurned
    <3>1. \A m \in cedulaMinted :
             owner[m.tokenId] # m.holder
               <=> [holder |-> m.holder, tokenId |-> m.tokenId] \in cedulaBurned
      BY DEF NoCallback, Proved!LogTellsHolders
    <3>2. QED
      BY <2>2, <2>4, <3>1
  <2>5. QED
    BY <2>1, <2>3, <2>4 DEF CitizensAreDistinct
<1>4. QED
  BY <1>1, <1>2, <1>3, InvHolds, NoCallbackHolds, WizardsUseTheChain, PTL

================================================================================
