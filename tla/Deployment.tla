------------------------------- MODULE Deployment -------------------------------
(******************************************************************************)
(* How addresses and ABIs get from a chain into the frontend: the scripts     *)
(* deploy-local.ts and deploy-zktanenbaum.ts deploy four contracts and write  *)
(* files, deploy-accountability-zk.ts adds a fifth to the file of its network *)
(* and the frontend imports lib/abi (lib/contracts.ts).                       *)
(* demo-inscripcion-zk.ts inscribes a citizen at the address in that file.    *)
(* A script can die between any two of its steps, can be run again, and any   *)
(* number of them, of one network or of both, can run side by side in one     *)
(* tree: they know nothing of each other.  Scripts of zkTanenbaum share a key: *)
(* one whose nonce another took fails, which is one of the ways to die.       *)
(******************************************************************************)
EXTENDS Integers, Sequences, FiniteSets

CONSTANTS
    MaxEvents,     \* bound on runs of scripts, recompilations and restarts, together
    MaxDeploys,    \* bound on those that are runs of a deploy script
    MaxSide        \* bound on the scripts that run at a time

ASSUME DeploymentAssumption == {MaxEvents, MaxDeploys, MaxSide} \subseteq Nat

VARIABLES
    artifacts,     \* hardhat artifacts: the build they come from
    code,          \* network -> its contracts, in the order they were created
    instance,      \* network -> how often its chain started anew (Anvil only)
    script,        \* run -> where it is, if it is one of a deploy script
    merge,         \* run -> where it is, if it is one of deploy-accountability-zk
    demo,          \* run -> where it is, if it is one of demo-inscripcion-zk
    cedulas,       \* the IdentitySBT each citizen of a demo has minted at, in order
    deployments,   \* blockchain/deployments/<network>.json
    frontend,      \* frontend/civicsys/lib/abi/<network>.json
    abis           \* frontend/civicsys/lib/abi/<name>.json: the build copied

chainVars == <<code, instance>>
demoVars == <<demo, cedulas>>
fileVars == <<deployments, frontend, abis>>
vars == <<artifacts, chainVars, script, merge, demoVars, fileVars>>

Network == {"localhost", "zkTanenbaum"}
zk == "zkTanenbaum"
Names == <<"IdentitySBT", "CitizenRegistry", "Vote", "AnonymousVote">>
Name == {"IdentitySBT", "CitizenRegistry", "Vote", "AnonymousVote"}
Run == 1 .. MaxEvents

\* Addresses count the contracts of a chain, as nonces of its deployer do; a chain that
\* starts anew gives them again.  0 is no address.
Address == Nat

NoAddress == [n \in Name |-> 0]

\* A file has an address per name.  of is history: the chain each was learnt from.
NoFile == [at |-> NoAddress, of |-> NoAddress, log |-> 0]

\* Steps of a deploy script: 1 to 4 the deployments, 5 the JSON, 6 to 9 the ABIs,
\* 10 the frontend's JSON, 11 the end, however it came; 0 no such run.
NoScript == [net |-> "localhost", step |-> 0, got |-> NoAddress, of |-> NoAddress]

\* A run that has ended remembers nothing.
Ended == [NoScript EXCEPT !.step = 11]

\* Steps of the merge: 0 no such run, 1 reads the file, 2 writes it, 3 the end.
NoMerge == [step |-> 0, got |-> 0, read |-> NoFile]
MergeEnded == [NoMerge EXCEPT !.step = 3]

\* Steps of the demo: 0 no such run, 1 funds the citizen's fresh wallet, 2 mints,
\* 3 reads the token's id, 4 has confirmed the inscription, 5 has failed.
NoDemo == [step |-> 0, identity |-> 0, citizen |-> 0, token |-> 0]
DemoFailed == [NoDemo EXCEPT !.step = 5]

Init ==
    /\ artifacts = 1
    /\ code = [net \in Network |-> <<>>]
    /\ instance = [net \in Network |-> 1]
    /\ script = [r \in Run |-> NoScript]
    /\ merge = [r \in Run |-> NoMerge]
    /\ demo = [r \in Run |-> NoDemo]
    /\ cedulas = <<>>
    /\ deployments = [net \in Network |-> NoFile]
    /\ frontend = [net \in Network |-> NoFile]
    /\ abis = [n \in Name |-> 0]

--------------------------------------------------------------------------------
(* The surroundings.                                                          *)

Begun == {r \in Run : script[r].step # 0 \/ merge[r].step # 0 \/ demo[r].step # 0}

\* How often a script was run, the sources compiled again or Anvil started again.
Events == Cardinality(Begun) + (artifacts - 1) + (instance["localhost"] - 1)

\* hardhat compile after an edit of the contracts.
Compile ==
    /\ Events < MaxEvents
    /\ artifacts' = artifacts + 1
    /\ UNCHANGED <<chainVars, script, merge, demoVars, fileVars>>

\* infra/up.sh starts Anvil anew: the contracts are gone, the files are not, and no
\* script notices.
RestartAnvil ==
    /\ Events < MaxEvents
    /\ instance' = [instance EXCEPT !["localhost"] = @ + 1]
    /\ code' = [code EXCEPT !["localhost"] = <<>>]
    /\ UNCHANGED <<artifacts, script, merge, demoVars, fileVars>>

UnderWay ==
    {r \in Run : script[r].step \in 1 .. 10 \/ merge[r].step \in 1 .. 2 \/ demo[r].step \in 1 .. 3}

\* Somebody runs a script.  Runs are numbered as they begin.
Begins(r) ==
    /\ r = Cardinality(Begun) + 1
    /\ Events < MaxEvents
    /\ Cardinality(UnderWay) < MaxSide

--------------------------------------------------------------------------------
(* deploy-local.ts and deploy-zktanenbaum.ts.                                 *)

Start(r, net) ==
    /\ Begins(r)
    /\ Cardinality({q \in Run : script[q].step # 0}) < MaxDeploys
    /\ script' = [script EXCEPT ![r] = [NoScript EXCEPT !.net = net, !.step = 1]]
    /\ UNCHANGED <<artifacts, chainVars, merge, demoVars, fileVars>>

\* Bug: Vote is given the registry that was deployed just before it.
CreateWithLastRegistry(r, net, name, got) ==
    code' = [code EXCEPT ![net] = Append(@,
        [name |-> name, build |-> artifacts, by |-> r,
         registry |-> IF name = "Vote" THEN got["CitizenRegistry"] ELSE 0])]

\* The creation of a contract by run r; Vote's constructor gets IdentitySBT's address.
Create(r, net, name, got) ==
    code' = [code EXCEPT ![net] = Append(@,
        [name |-> name, build |-> artifacts, by |-> r,
         registry |-> IF name = "Vote" THEN got["IdentitySBT"] ELSE 0])]

\* deploy(name): the transaction is mined and the script learns the address, or
\* is mined and the script fails waiting for it.
Deploy(r) ==
    LET s == script[r]
        name == Names[s.step]
    IN  /\ s.step \in 1 .. 4
        /\ Create(r, s.net, name, s.got)
        /\ \/ script' = [script EXCEPT ![r].step = @ + 1,
                                       ![r].got[name] = Len(code'[s.net]),
                                       ![r].of[name] = instance[s.net]]
           \/ script' = [script EXCEPT ![r] = Ended]
        /\ UNCHANGED <<artifacts, instance, merge, demoVars, fileVars>>

\* An exception anywhere, or the terminal closed: nothing is undone.
ScriptDies(r) ==
    /\ script[r].step \in 1 .. 10
    /\ script' = [script EXCEPT ![r] = Ended]
    /\ UNCHANGED <<artifacts, chainVars, merge, demoVars, fileVars>>

\* Bug: the script deploys AnonymousVote and does not name it in the file.
FileOfThree(s) ==
    [at |-> [n \in Name \ {"AnonymousVote"} |-> s.got[n]], of |-> s.of, log |-> 0]

\* The JSON of a deploy script names its four contracts and no other, at whatever
\* addresses it has got.
FileOf(s) == [at |-> s.got, of |-> s.of, log |-> 0]

WriteDeployments(r) ==
    /\ script[r].step = 5
    /\ deployments' = [deployments EXCEPT ![script[r].net] = FileOf(script[r])]
    /\ script' = [script EXCEPT ![r].step = 6]
    /\ UNCHANGED <<artifacts, chainVars, merge, demoVars, frontend, abis>>

\* One ABI is copied, from the artifacts as they are by now.
CopyAbi(r) ==
    /\ script[r].step \in 6 .. 9
    /\ abis' = [abis EXCEPT ![Names[script[r].step - 5]] = artifacts]
    /\ script' = [script EXCEPT ![r].step = @ + 1]
    /\ UNCHANGED <<artifacts, chainVars, merge, demoVars, deployments, frontend>>

\* Bug: the frontend's JSON goes out before the ABIs are copied.
WriteFrontendFirst(r) ==
    /\ script[r].step \in {6, 10}
    /\ frontend' = [frontend EXCEPT ![script[r].net] = FileOf(script[r])]
    /\ script' = [script EXCEPT ![r] = IF @.step = 10 THEN Ended ELSE @]
    /\ UNCHANGED <<artifacts, chainVars, merge, demoVars, deployments, abis>>

\* The same text goes to the frontend, and the script ends.
WriteFrontend(r) ==
    /\ script[r].step = 10
    /\ frontend' = [frontend EXCEPT ![script[r].net] = FileOf(script[r])]
    /\ script' = [script EXCEPT ![r] = Ended]
    /\ UNCHANGED <<artifacts, chainVars, merge, demoVars, deployments, abis>>

--------------------------------------------------------------------------------
(* deploy-accountability-zk.ts.                                               *)

\* The contract is mined and the script learns its address, or fails waiting.
MergeDeploy(r) ==
    /\ Begins(r)
    /\ Create(r, zk, "AccountabilityLog", NoAddress)
    /\ \/ merge' = [merge EXCEPT ![r].step = 1, ![r].got = Len(code'[zk])]
       \/ merge' = [merge EXCEPT ![r] = MergeEnded]
    /\ UNCHANGED <<artifacts, instance, script, demoVars, fileVars>>

\* The file is read; there is none before the first deploy, and the script throws
\* with its contract already on the chain.
MergeRead(r) ==
    /\ merge[r].step = 1
    /\ merge' = [merge EXCEPT ![r] =
           IF deployments[zk] = NoFile THEN MergeEnded
           ELSE [@ EXCEPT !.step = 2, !.read = deployments[zk]]]
    /\ UNCHANGED <<artifacts, chainVars, script, demoVars, fileVars>>

\* The file is written back with one more address, over whatever another script has
\* written since.  The ABI copied afterwards is imported by no page; the frontend's
\* own copy of the file is left alone.
MergeWrite(r) ==
    /\ merge[r].step = 2
    /\ deployments' = [deployments EXCEPT ![zk] = [merge[r].read EXCEPT !.log = merge[r].got]]
    /\ merge' = [merge EXCEPT ![r] = MergeEnded]
    /\ UNCHANGED <<artifacts, chainVars, script, demoVars, frontend, abis>>

MergeDies(r) ==
    /\ merge[r].step \in {1, 2}
    /\ merge' = [merge EXCEPT ![r] = MergeEnded]
    /\ UNCHANGED <<artifacts, chainVars, script, demoVars, fileVars>>

--------------------------------------------------------------------------------
(* demo-inscripcion-zk.ts.                                                    *)

DemoRest == <<artifacts, chainVars, script, merge, fileVars>>

\* The import reads IdentitySBT's address, and throws when there is no file.  The
\* citizen's wallet, document and face are drawn afresh.
DemoStart(r) ==
    /\ Begins(r)
    /\ deployments[zk] # NoFile
    /\ demo' = [demo EXCEPT ![r].step = 1, ![r].identity = deployments[zk].at["IdentitySBT"]]
    /\ UNCHANGED <<DemoRest, cedulas>>

\* The drip for gas is mined.
DemoFund(r) ==
    /\ demo[r].step = 1
    /\ demo' = [demo EXCEPT ![r].step = 2]
    /\ UNCHANGED <<DemoRest, cedulas>>

\* The mint of a wallet and of commitments nobody has used is mined; the script
\* sees a receipt of success, or fails waiting for it.
DemoMint(r) ==
    /\ demo[r].step = 2
    /\ cedulas' = Append(cedulas, demo[r].identity)
    /\ \/ demo' = [demo EXCEPT ![r].step = 3, ![r].citizen = Len(cedulas')]
       \/ demo' = [demo EXCEPT ![r] = DemoFailed]
    /\ UNCHANGED DemoRest

\* How many of the first n citizens an IdentitySBT has inscribed.
InscribedAt(identity, n) == Cardinality({c \in 1 .. n : cedulas[c] = identity})

\* Bug: the address is read from the file again.
DemoReadFileAgain(r) ==
    /\ demo[r].step = 3
    /\ demo' = [demo EXCEPT ![r].step = 4, ![r].token =
           InscribedAt(deployments[zk].at["IdentitySBT"], demo[r].citizen)]
    /\ UNCHANGED <<DemoRest, cedulas>>

\* tokenOfOwner: each IdentitySBT numbers its own cedulas.
DemoRead(r) ==
    /\ demo[r].step = 3
    /\ demo' = [demo EXCEPT ![r].step = 4, ![r].token =
           InscribedAt(demo[r].identity, demo[r].citizen)]
    /\ UNCHANGED <<DemoRest, cedulas>>

DemoDies(r) ==
    /\ demo[r].step \in 1 .. 3
    /\ demo' = [demo EXCEPT ![r] = DemoFailed]
    /\ UNCHANGED <<DemoRest, cedulas>>

DeployScript(r) ==
    \/ \E net \in Network : Start(r, net)
    \/ Deploy(r)
    \/ ScriptDies(r)
    \/ WriteDeployments(r)
    \/ CopyAbi(r)
    \/ WriteFrontend(r)

MergeScript(r) ==
    \/ MergeDeploy(r)
    \/ MergeRead(r)
    \/ MergeWrite(r)
    \/ MergeDies(r)

DemoScript(r) ==
    \/ DemoStart(r)
    \/ DemoFund(r)
    \/ DemoMint(r)
    \/ DemoRead(r)
    \/ DemoDies(r)

Next ==
    \/ Compile
    \/ RestartAnvil
    \/ \E r \in Run : DeployScript(r) \/ MergeScript(r) \/ DemoScript(r)

Spec == Init /\ [][Next]_vars

--------------------------------------------------------------------------------
(* Properties.                                                                *)

File == [at : [Name -> Address], of : [Name -> Nat], log : Address]
Created == [name : Name \cup {"AccountabilityLog"}, build : Nat, by : Run,
            registry : Address]
Script == [net : Network, step : 0 .. 11, got : [Name -> Address], of : [Name -> Nat]]
Merge == [step : 0 .. 3, got : Address, read : File]
Demo == [step : 0 .. 5, identity : Address, citizen : Nat, token : Nat]

\* Every variable has its type.
TypeOK ==
    /\ artifacts \in 1 .. MaxEvents + 1
    /\ code \in [Network -> Seq(Created)]
    /\ instance \in [Network -> 1 .. MaxEvents + 1]
    /\ script \in [Run -> Script]
    /\ merge \in [Run -> Merge]
    /\ demo \in [Run -> Demo]
    /\ cedulas \in Seq(Address)
    /\ deployments \in [Network -> File]
    /\ frontend \in [Network -> File]
    /\ abis \in [Name -> Nat]

\* What getAddresses(chainId) answers in the frontend.
GetAddresses(net) == frontend[net].at

\* The names of a file whose addresses were learnt from the chain that is there now.
Learnt(net, f) == {n \in Name : f.of[n] = instance[net]}

\* The contract at an address, as far as its name goes.
IsA(net, address, name) ==
    /\ address \in DOMAIN code[net]
    /\ code[net][address].name = name

\* What a file names of the chain that is there now is one deployment: however many
\* scripts interleave, die or write over each other's file, each such name leads to a
\* contract of that name, all of them were created by one run, and Vote asks the very
\* IdentitySBT the file names.  zkTanenbaum does not start anew, so that its files
\* name nothing else; on localhost a run that saw Anvil restart names contracts of the
\* chain that is gone beside those of the new one.
FilesDescribeOneDeployment ==
    \A net \in Network : \A f \in {deployments[net], frontend[net]} :
        /\ \A n \in Learnt(net, f) : IsA(net, f.at[n], n)
        /\ \A m, n \in Learnt(net, f) : code[net][f.at[m]].by = code[net][f.at[n]].by
        /\ {"Vote", "IdentitySBT"} \subseteq Learnt(net, f) =>
               code[net][f.at["Vote"]].registry = f.at["IdentitySBT"]
        /\ f.log # 0 => IsA(net, f.log, "AccountabilityLog")
        /\ net = zk /\ f # NoFile => Learnt(net, f) = Name

\* The ABIs of the frontend, which both networks share, are never older than the
\* contracts it calls with them.
AbiNotOlder ==
    \A net \in Network : \A n \in Learnt(net, frontend[net]) :
        code[net][GetAddresses(net)[n]].build <= abis[n]

\* A citizen of the demo, once "confirmado", has a cedula, numbered by the IdentitySBT
\* that minted it, and some Vote contract asks that IdentitySBT, whatever was
\* deployed or merged since the demo read the file.
InscribedWhereVotesLook ==
    \A r \in Run : demo[r].step = 4 =>
        /\ demo[r].token > 0
        /\ cedulas[demo[r].citizen] = demo[r].identity
        /\ \E v \in DOMAIN code[zk] :
             code[zk][v].name = "Vote" /\ code[zk][v].registry = demo[r].identity

================================================================================
