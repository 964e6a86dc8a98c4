---------------------------- MODULE DeploymentProofs ----------------------------
(******************************************************************************)
(* Theorems about Deployment, for every value of its constants.               *)
(*                                                                            *)
(* A run, and the file it writes, hold addresses of a chain that grows under  *)
(* them and may start anew.  What carries the proofs is that each address is  *)
(* known together with the chain it was learnt from (Knows), that this        *)
(* knowledge survives whatever other runs and Anvil do (the lemmas on Grows), *)
(* and that the builds on the chains, in the ABIs and in the artifacts are    *)
(* ordered (Builds, Fresh).                                                   *)
(******************************************************************************)
EXTENDS Deployment, FiniteSetTheorems, TLAPS

\* c and d are the contracts of a chain, k its number, at and of the addresses a run or
\* a file holds and the chains they were learnt from.

\* The contract at address a of chain c has name n.
Is(c, a, n) == a \in DOMAIN c /\ c[a].name = n

\* What is known of chain k are contracts of run r, and its Vote asks its IdentitySBT.
Knows(c, k, at, of, r) ==
    \A n \in Name :
        /\ of[n] <= k
        /\ of[n] = k => Is(c, at[n], n) /\ c[at[n]].by = r
        /\ n = "Vote" /\ of[n] = k /\ of["IdentitySBT"] = k =>
               c[at[n]].registry = at["IdentitySBT"]

\* The ABIs of these names are at least as new as the contracts known of chain k.
Fresh(c, k, at, of, abi, names) ==
    \A n \in names : of[n] = k => c[at[n]].build <= abi[n]

\* A file knows the contracts of one run, and on zkTanenbaum all four of them.
Sound(net, c, k, f) ==
    /\ \E r \in Nat : Knows(c, k, f.at, f.of, r)
    /\ f.log # 0 => net = zk /\ Is(c, f.log, "AccountabilityLog")
    /\ net = zk /\ f # NoFile => \A n \in Name : f.of[n] = 1

\* The contracts a run has deployed, and the ABIs it has copied, by its step.
DeployedBy(step) == {Names[i] : i \in {j \in 1 .. 4 : j < step}}
CopiedBy(step) == {Names[i] : i \in {j \in 1 .. 4 : j + 5 < step}}

\* What a run of a deploy script knows.
Holds(s, r, c, k, abi) ==
    /\ Knows(c, k, s.got, s.of, r)
    /\ Fresh(c, k, s.got, s.of, abi, CopiedBy(s.step))
    /\ s.step \in 1 .. 10 => \A n \in Name \ DeployedBy(s.step) : s.of[n] = 0
    /\ s.net = zk => \A n \in DeployedBy(s.step) : s.of[n] = 1

\* Some Vote contract of chain c asks the IdentitySBT at address a.
Asked(c, a) == \E v \in DOMAIN c : c[v].name = "Vote" /\ c[v].registry = a

--------------------------------------------------------------------------------
(* The inductive invariant.                                                   *)

\* zkTanenbaum never starts anew.
OneZk == instance[zk] = 1

\* No contract and no ABI is of a later build than the artifacts.
Builds ==
    /\ \A net \in Network : \A i \in DOMAIN code[net] : code[net][i].build <= artifacts
    /\ \A n \in Name : abis[n] <= artifacts

Scripts ==
    \A r \in Run : Holds(script[r], r, code[script[r].net], instance[script[r].net], abis)

Files ==
    \A net \in Network :
        /\ Sound(net, code[net], instance[net], deployments[net])
        /\ Sound(net, code[net], instance[net], frontend[net])

\* The ABIs the frontend holds are at least as new as the contracts it names.
Abis ==
    \A net \in Network :
        Fresh(code[net], instance[net], frontend[net].at, frontend[net].of, abis, Name)

\* A merge knows its contract, and holds the file it writes back.
Merges ==
    \A r \in Run :
        /\ merge[r].step \in {1, 2} => Is(code[zk], merge[r].got, "AccountabilityLog")
        /\ merge[r].step = 2 => /\ Sound(zk, code[zk], 1, merge[r].read)
                                /\ merge[r].read # NoFile

\* What a demo has read is asked by a Vote, and what it minted is there.
Demos ==
    \A r \in Run :
        /\ demo[r].step \in 1 .. 4 => Asked(code[zk], demo[r].identity)
        /\ demo[r].step \in {3, 4} => /\ demo[r].citizen \in DOMAIN cedulas
                                      /\ cedulas[demo[r].citizen] = demo[r].identity
        /\ demo[r].step = 4 => demo[r].token > 0

Inv ==
    /\ TypeOK
    /\ OneZk
    /\ Builds
    /\ Scripts
    /\ Files
    /\ Abis
    /\ Merges
    /\ Demos

--------------------------------------------------------------------------------
(* Values and types.                                                          *)

LEMMA Basics ==
    /\ MaxEvents \in Nat
    /\ zk \in Network /\ zk = "zkTanenbaum" /\ "localhost" \in Network /\ zk # "localhost"
    /\ Network = {"localhost", zk}
    /\ "Vote" \in Name /\ "IdentitySBT" \in Name
    /\ Run \subseteq Nat
    /\ 0 \in Address
BY DeploymentAssumption DEF Network, zk, Name, Run, Address

LEMMA NamesType ==
    ASSUME NEW i \in 1 .. 4
    PROVE  Names[i] \in Name
BY DEF Names, Name

\* All four are deployed by step 5, and copied by step 10.
LEMMA AllNames ==
    /\ DeployedBy(1) = {} /\ \A k \in 5 .. 11 : DeployedBy(k) = Name
    /\ \A k \in 0 .. 6 : CopiedBy(k) = {}
    /\ CopiedBy(10) = Name
    /\ \A k \in Int : DeployedBy(k) \subseteq Name /\ CopiedBy(k) \subseteq Name
<1>1. \A k \in Int : DeployedBy(k) \subseteq Name /\ CopiedBy(k) \subseteq Name
  BY NamesType DEF DeployedBy, CopiedBy
<1>2. DeployedBy(1) = {} /\ \A k \in 0 .. 6 : CopiedBy(k) = {}
  BY DEF DeployedBy, CopiedBy
<1>3. ASSUME NEW S, \A i \in 1 .. 4 : Names[i] \in S PROVE Name \subseteq S
  <2>1. Names[1] \in S /\ Names[2] \in S /\ Names[3] \in S /\ Names[4] \in S
    BY <1>3
  <2>2. QED
    BY <2>1 DEF Names, Name
<1>4. ASSUME NEW k \in 5 .. 11 PROVE DeployedBy(k) = Name
  <2>1. \A i \in 1 .. 4 : Names[i] \in DeployedBy(k)
    BY DEF DeployedBy
  <2>2. QED
    BY <1>1, <1>3, <2>1
<1>5. CopiedBy(10) = Name
  <2>1. \A i \in 1 .. 4 : Names[i] \in CopiedBy(10)
    BY DEF CopiedBy
  <2>2. QED
    BY <1>1, <1>3, <2>1
<1>6. QED
  BY <1>1, <1>2, <1>4, <1>5

LEMMA NextNames ==
    /\ \A k \in 1 .. 4 : DeployedBy(k + 1) = DeployedBy(k) \cup {Names[k]}
    /\ \A k \in 6 .. 9 : CopiedBy(k + 1) = CopiedBy(k) \cup {Names[k - 5]}
<1>1. ASSUME NEW k \in 1 .. 4 PROVE DeployedBy(k + 1) = DeployedBy(k) \cup {Names[k]}
  <2>1. {j \in 1 .. 4 : j < k + 1} = {j \in 1 .. 4 : j < k} \cup {k}
    OBVIOUS
  <2>2. QED
    BY <2>1 DEF DeployedBy
<1>2. ASSUME NEW k \in 6 .. 9 PROVE CopiedBy(k + 1) = CopiedBy(k) \cup {Names[k - 5]}
  <2>1. {j \in 1 .. 4 : j + 5 < k + 1} = {j \in 1 .. 4 : j + 5 < k} \cup {k - 5}
    OBVIOUS
  <2>2. QED
    BY <2>1 DEF CopiedBy
<1>3. QED
  BY <1>1, <1>2

LEMMA NoneType ==
    /\ NoAddress \in [Name -> Nat] /\ \A n \in Name : NoAddress[n] = 0
    /\ NoFile \in File /\ NoFile.at = NoAddress /\ NoFile.of = NoAddress /\ NoFile.log = 0
    /\ NoScript \in Script /\ NoScript.step = 0 /\ NoScript.net = "localhost"
    /\ NoScript.got = NoAddress /\ NoScript.of = NoAddress
    /\ Ended \in Script /\ Ended.step = 11 /\ Ended.net = "localhost"
    /\ Ended.got = NoAddress /\ Ended.of = NoAddress
    /\ NoMerge \in Merge /\ NoMerge.step = 0
    /\ MergeEnded \in Merge /\ MergeEnded.step = 3
    /\ NoDemo \in Demo /\ NoDemo.step = 0
    /\ DemoFailed \in Demo /\ DemoFailed.step = 5
<1>1. NoAddress \in [Name -> Nat] /\ \A n \in Name : NoAddress[n] = 0
  BY DEF NoAddress
<1>2. NoFile \in File /\ NoFile.at = NoAddress /\ NoFile.of = NoAddress /\ NoFile.log = 0
  BY <1>1 DEF NoFile, File, Address
<1>3. NoScript \in Script /\ NoScript.step = 0 /\ NoScript.net = "localhost"
      /\ NoScript.got = NoAddress /\ NoScript.of = NoAddress
  BY <1>1 DEF NoScript, Script, Address, Network
<1>4. Ended \in Script /\ Ended.step = 11 /\ Ended.net = "localhost"
      /\ Ended.got = NoAddress /\ Ended.of = NoAddress
  BY <1>3 DEF Ended, Script
<1>5. NoMerge \in Merge /\ NoMerge.step = 0
  BY <1>2 DEF NoMerge, Merge, Address
<1>6. MergeEnded \in Merge /\ MergeEnded.step = 3
  BY <1>5 DEF MergeEnded, Merge
<1>7. NoDemo \in Demo /\ NoDemo.step = 0
  BY DEF NoDemo, Demo, Address
<1>8. DemoFailed \in Demo /\ DemoFailed.step = 5
  BY <1>7 DEF DemoFailed, Demo
<1>9. QED
  BY <1>1, <1>2, <1>3, <1>4, <1>5, <1>6, <1>7, <1>8

\* A run at another step.
LEMMA StepTo ==
    ASSUME NEW s \in Script, NEW k \in 0 .. 11, NEW t, t = [s EXCEPT !.step = k]
    PROVE  t \in Script /\ t.step = k /\ t.net = s.net /\ t.got = s.got /\ t.of = s.of
BY DEF Script

LEMMA FileType ==
    ASSUME NEW s \in Script
    PROVE  FileOf(s) \in File /\ FileOf(s).of = s.of /\ FileOf(s).at = s.got /\ FileOf(s).log = 0
BY DEF FileOf, File, Script, Address

LEMMA LogTo ==
    ASSUME NEW f \in File, NEW a \in Nat, NEW g, g = [f EXCEPT !.log = a]
    PROVE  g \in File /\ g.at = f.at /\ g.of = f.of /\ g.log = a
BY DEF File, Address

LEMMA MergeTo ==
    ASSUME NEW m \in Merge, NEW f \in File, NEW a \in Nat
    PROVE  /\ [m EXCEPT !.step = 1, !.got = a] \in Merge
           /\ [m EXCEPT !.step = 2, !.read = f] \in Merge
<1>1. 1 \in 0 .. 3 /\ 2 \in 0 .. 3 /\ a \in Address
  BY DEF Address
<1>2. [m EXCEPT !.step = 1, !.got = a] \in Merge
  BY <1>1 DEF Merge
<1>3. [m EXCEPT !.step = 2, !.read = f] \in Merge
  BY <1>1 DEF Merge
<1>4. QED
  BY <1>2, <1>3

LEMMA DemoTo ==
    ASSUME NEW d \in Demo, NEW a \in Nat
    PROVE  /\ [d EXCEPT !.step = 1, !.identity = a] \in Demo
           /\ [d EXCEPT !.step = 2] \in Demo
           /\ [d EXCEPT !.step = 3, !.citizen = a] \in Demo
           /\ [d EXCEPT !.step = 4, !.token = a] \in Demo
<1>1. 1 \in 0 .. 5 /\ 2 \in 0 .. 5 /\ 3 \in 0 .. 5 /\ 4 \in 0 .. 5 /\ a \in Address
  BY DEF Address
<1>2. [d EXCEPT !.step = 1, !.identity = a] \in Demo
  BY <1>1 DEF Demo
<1>3. [d EXCEPT !.step = 2] \in Demo
  BY <1>1 DEF Demo
<1>4. [d EXCEPT !.step = 3, !.citizen = a] \in Demo
  BY <1>1 DEF Demo
<1>5. [d EXCEPT !.step = 4, !.token = a] \in Demo
  BY <1>1 DEF Demo
<1>6. QED
  BY <1>2, <1>3, <1>4, <1>5

\* The number of a citizen's cedula counts it.
LEMMA TokenType ==
    ASSUME NEW n \in Nat, NEW a
    PROVE  /\ InscribedAt(a, n) \in Nat
           /\ n > 0 /\ cedulas[n] = a => InscribedAt(a, n) > 0
<1> DEFINE S == {c \in 1 .. n : cedulas[c] = a}
<1>1. IsFiniteSet(1 .. n)
  BY FS_Interval
<1>2. IsFiniteSet(S)
  <2>1. S \subseteq 1 .. n
    OBVIOUS
  <2>2. QED
    BY <1>1, <2>1, FS_Subset
<1>3. Cardinality(S) \in Nat
  BY <1>2, FS_CardinalityType
<1>4. n > 0 /\ cedulas[n] = a => Cardinality(S) # 0
  <2>1. n > 0 /\ cedulas[n] = a => S # {}
    <3>1. n > 0 /\ cedulas[n] = a => n \in S
      OBVIOUS
    <3>2. QED
      BY <3>1
  <2>2. QED
    BY <1>2, <2>1, FS_EmptySet
<1>5. QED
  BY <1>3, <1>4 DEF InscribedAt

LEMMA EventsType ==
    ASSUME TypeOK, Events < MaxEvents
    PROVE  /\ artifacts + 1 \in 1 .. MaxEvents + 1
           /\ instance["localhost"] + 1 \in 1 .. MaxEvents + 1
<1>1. IsFiniteSet(Run)
  BY Basics, FS_Interval DEF Run
<1>2. Cardinality(Begun) \in Nat
  <2>1. Begun \subseteq Run
    BY DEF Begun
  <2>2. IsFiniteSet(Begun)
    BY <1>1, <2>1, FS_Subset
  <2>3. QED
    BY <2>2, FS_CardinalityType
<1>3. artifacts \in 1 .. MaxEvents + 1 /\ instance["localhost"] \in 1 .. MaxEvents + 1
  BY Basics DEF TypeOK
<1> HIDE DEF Begun
<1>4. QED
  BY <1>2, <1>3, Basics DEF Events

--------------------------------------------------------------------------------
(* What the actions do to a run and to a chain.                               *)

\* Contract e is created on a chain.
Creates(net, e) ==
    /\ e \in Created /\ e.build = artifacts
    /\ code' = [code EXCEPT ![net] = Append(@, e)]
    /\ UNCHANGED <<instance, artifacts>>

\* A run goes one step on.
StepsOn(r) ==
    \E t \in Script :
        /\ t.step = script[r].step + 1 /\ t.net = script[r].net
        /\ t.got = script[r].got /\ t.of = script[r].of
        /\ script' = [script EXCEPT ![r] = t]

\* A run learns the address of the contract it has created.
Learns(r, name) ==
    LET s == script[r]
    IN  \E t \in Script :
            /\ t.step = s.step + 1 /\ t.net = s.net
            /\ t.got = [s.got EXCEPT ![name] = Len(code'[s.net])]
            /\ t.of = [s.of EXCEPT ![name] = instance[s.net]]
            /\ script' = [script EXCEPT ![r] = t]

LEMMA StartEffect ==
    ASSUME TypeOK, NEW r \in Run, NEW net \in Network, Start(r, net)
    PROVE  \E t \in Script : /\ t.step = 1 /\ t.net = net
                             /\ t.got = NoAddress /\ t.of = NoAddress
                             /\ script' = [script EXCEPT ![r] = t]
<1>1. PICK t : t = [NoScript EXCEPT !.net = net, !.step = 1]
  OBVIOUS
<1>2. t \in Script /\ t.step = 1 /\ t.net = net /\ t.got = NoAddress /\ t.of = NoAddress
  <2>1. 1 \in 0 .. 11
    OBVIOUS
  <2>2. t \in Script
    BY <1>1, <2>1, NoneType DEF Script
  <2>3. t.step = 1 /\ t.net = net /\ t.got = NoAddress /\ t.of = NoAddress
    BY <1>1, NoneType DEF Script
  <2>4. QED
    BY <2>2, <2>3
<1>3. script' = [script EXCEPT ![r] = t]
  BY <1>1, Zenon DEF Start
<1>4. QED
  BY <1>2, <1>3

LEMMA CreateType ==
    ASSUME TypeOK, NEW r \in Run, NEW net \in Network, NEW name \in Name \cup {"AccountabilityLog"},
           NEW got \in [Name -> Nat], Create(r, net, name, got), UNCHANGED <<instance, artifacts>>
    PROVE  \E e : /\ Creates(net, e) /\ e.name = name /\ e.by = r
                  /\ name = "Vote" => e.registry = got["IdentitySBT"]
<1> DEFINE e == [name |-> name, build |-> artifacts, by |-> r,
                 registry |-> IF name = "Vote" THEN got["IdentitySBT"] ELSE 0]
<1>1. artifacts \in Nat /\ e.registry \in Address
  BY Basics DEF TypeOK, Address
<1>2. e \in Created
  BY <1>1 DEF Created
<1>3. code' = [code EXCEPT ![net] = Append(@, e)]
  BY DEF Create
<1>4. Creates(net, e)
  BY <1>2, <1>3 DEF Creates
<1>5. QED
  BY <1>4

\* What a creation does to the chains.
LEMMA CreatesAppends ==
    ASSUME TypeOK, NEW net \in Network, NEW e, Creates(net, e)
    PROVE  /\ code' \in [Network -> Seq(Created)]
           /\ code'[net] = Append(code[net], e)
           /\ Len(code'[net]) \in Nat \ {0}
           /\ Len(code'[net]) \in DOMAIN code'[net]
           /\ code'[net][Len(code'[net])] = e
           /\ \A i \in DOMAIN code[net] : i \in DOMAIN code'[net] /\ code'[net][i] = code[net][i]
           /\ \A i \in DOMAIN code'[net] : i \in DOMAIN code[net] \/ i = Len(code'[net])
           /\ \A m \in Network \ {net} : code'[m] = code[m]
<1>1. code \in [Network -> Seq(Created)] /\ e \in Created
  BY DEF TypeOK, Creates
<1>2. code' = [code EXCEPT ![net] = Append(@, e)]
  BY DEF Creates
<1>3. code'[net] = Append(code[net], e) /\ \A m \in Network \ {net} : code'[m] = code[m]
  BY <1>1, <1>2
<1>4. code[net] \in Seq(Created)
  BY <1>1
<1>5. /\ Append(code[net], e) \in Seq(Created)
      /\ Len(Append(code[net], e)) = Len(code[net]) + 1
      /\ Len(code[net]) \in Nat
  BY <1>1, <1>4
<1>6. code' \in [Network -> Seq(Created)]
  BY <1>1, <1>2, <1>5
<1>7. /\ \A i \in DOMAIN code[net] :
            i \in DOMAIN Append(code[net], e) /\ Append(code[net], e)[i] = code[net][i]
      /\ \A i \in DOMAIN Append(code[net], e) : i \in DOMAIN code[net] \/ i = Len(code[net]) + 1
      /\ Len(code[net]) + 1 \in DOMAIN Append(code[net], e)
      /\ Append(code[net], e)[Len(code[net]) + 1] = e
  BY <1>1, <1>4
<1>8. QED
  BY <1>3, <1>5, <1>6, <1>7

LEMMA DeployEffect ==
    ASSUME TypeOK, NEW r \in Run, Deploy(r)
    PROVE  /\ script[r].step \in 1 .. 4 /\ script[r].net \in Network
           /\ Names[script[r].step] \in Name
           /\ \E e : /\ Creates(script[r].net, e)
                     /\ e.name = Names[script[r].step] /\ e.by = r
                     /\ e.name = "Vote" => e.registry = script[r].got["IdentitySBT"]
           /\ \/ Learns(r, Names[script[r].step])
              \/ script' = [script EXCEPT ![r] = Ended]
<1> DEFINE s == script[r]
           name == Names[s.step]
<1>1. s \in Script /\ s.step \in 1 .. 4
  BY DEF TypeOK, Deploy
<1>2. s.net \in Network /\ s.got \in [Name -> Nat]
  BY <1>1 DEF Script, Address
<1>3. name \in Name
  BY <1>1, NamesType
<1>4. PICK e : /\ Creates(s.net, e) /\ e.name = name /\ e.by = r
               /\ name = "Vote" => e.registry = s.got["IdentitySBT"]
  <2>1. Create(r, s.net, name, s.got) /\ UNCHANGED <<instance, artifacts>>
    BY DEF Deploy
  <2>2. QED
    BY <1>2, <1>3, <2>1, CreateType
<1>5. Len(code'[s.net]) \in Nat
  BY <1>2, <1>4, CreatesAppends
<1>6. ASSUME script' = [script EXCEPT ![r].step = @ + 1,
                                      ![r].got[name] = Len(code'[s.net]),
                                      ![r].of[name] = instance[s.net]]
      PROVE  Learns(r, name)
  <2>1. PICK t : t = [s EXCEPT !.step = @ + 1, !.got[name] = Len(code'[s.net]),
                               !.of[name] = instance[s.net]]
    OBVIOUS
  <2>2. instance[s.net] \in Nat
    BY <1>2, Basics DEF TypeOK
  <2>3. /\ t \in Script /\ t.step = s.step + 1 /\ t.net = s.net
        /\ t.got = [s.got EXCEPT ![name] = Len(code'[s.net])]
        /\ t.of = [s.of EXCEPT ![name] = instance[s.net]]
    <3>1. s.got \in [Name -> Nat] /\ s.of \in [Name -> Nat] /\ s.step + 1 \in 0 .. 11
      BY <1>1 DEF Script, Address
    <3>2. /\ t.step = s.step + 1 /\ t.net = s.net
          /\ t.got = [s.got EXCEPT ![name] = Len(code'[s.net])]
          /\ t.of = [s.of EXCEPT ![name] = instance[s.net]]
      BY <1>1, <2>1 DEF Script
    <3>3. t.got \in [Name -> Nat] /\ t.of \in [Name -> Nat]
      BY <1>5, <2>2, <3>1, <3>2
    <3>4. t \in Script
      BY <1>1, <2>1, <3>1, <3>2, <3>3 DEF Script, Address
    <3>5. QED
      BY <3>2, <3>4
  <2>4. script' = [script EXCEPT ![r] = t]
    BY <1>6, <2>1 DEF TypeOK
  <2>5. QED
    BY <2>3, <2>4 DEF Learns
<1>7. Learns(r, name) \/ script' = [script EXCEPT ![r] = Ended]
  BY <1>6 DEF Deploy
<1>8. QED
  BY <1>1, <1>2, <1>3, <1>4, <1>7

LEMMA StepEffect ==
    ASSUME TypeOK, NEW r \in Run, WriteDeployments(r) \/ CopyAbi(r)
    PROVE  StepsOn(r)
<1> DEFINE s == script[r]
<1>1. s \in Script /\ s.step + 1 \in 0 .. 11
  BY DEF TypeOK, WriteDeployments, CopyAbi
<1>2. PICK t : t = [s EXCEPT !.step = s.step + 1]
  OBVIOUS
<1>3. t \in Script /\ t.step = s.step + 1 /\ t.net = s.net /\ t.got = s.got /\ t.of = s.of
  BY <1>1, <1>2, StepTo
<1>4. script' = [script EXCEPT ![r] = t]
  <2>1. CASE WriteDeployments(r)
    BY <1>2, <2>1 DEF TypeOK, WriteDeployments
  <2>2. CASE CopyAbi(r)
    BY <1>2, <2>2 DEF TypeOK, CopyAbi
  <2>3. QED
    BY <2>1, <2>2
<1>5. QED
  BY <1>3, <1>4 DEF StepsOn

LEMMA MergeDeployEffect ==
    ASSUME TypeOK, NEW r \in Run, MergeDeploy(r)
    PROVE  /\ \E e : Creates(zk, e) /\ e.name = "AccountabilityLog" /\ e.by = r
           /\ \/ \E t \in Merge : /\ t.step = 1 /\ t.got = Len(code'[zk])
                                  /\ merge' = [merge EXCEPT ![r] = t]
              \/ merge' = [merge EXCEPT ![r] = MergeEnded]
<1>1. PICK e : Creates(zk, e) /\ e.name = "AccountabilityLog" /\ e.by = r
  <2>1. Create(r, zk, "AccountabilityLog", NoAddress) /\ UNCHANGED <<instance, artifacts>>
    BY DEF MergeDeploy
  <2>2. QED
    <3>1. NoAddress \in [Name -> Nat] /\ zk \in Network
      BY Basics, NoneType
    <3>2. QED
      BY <2>1, <3>1, CreateType, SMTT(30)
<1>2. Len(code'[zk]) \in Nat
  BY <1>1, Basics, CreatesAppends
<1>3. ASSUME merge' = [merge EXCEPT ![r].step = 1, ![r].got = Len(code'[zk])]
      PROVE  \E t \in Merge : /\ t.step = 1 /\ t.got = Len(code'[zk])
                              /\ merge' = [merge EXCEPT ![r] = t]
  <2>1. PICK m : m = merge[r]
    OBVIOUS
  <2>2. PICK a : a = Len(code'[zk])
    OBVIOUS
  <2>3. PICK t : t = [m EXCEPT !.step = 1, !.got = a]
    OBVIOUS
  <2>4. m \in Merge
    BY <2>1 DEF TypeOK
  <2>5. t \in Merge /\ t.step = 1 /\ t.got = a
    <3>1. t \in Merge
      BY <1>2, <2>2, <2>3, <2>4, NoneType, MergeTo
    <3>2. QED
      BY <2>3, <2>4, <3>1 DEF Merge
  <2>6. merge' = [merge EXCEPT ![r] = t]
    BY <1>3, <2>1, <2>2, <2>3 DEF TypeOK
  <2>7. QED
    BY <2>2, <2>5, <2>6
<1>4. QED
  BY <1>1, <1>3, Zenon DEF MergeDeploy

LEMMA MergeReadEffect ==
    ASSUME TypeOK, NEW r \in Run, MergeRead(r)
    PROVE  \/ /\ deployments[zk] # NoFile
              /\ \E t \in Merge : /\ t.step = 2 /\ t.got = merge[r].got
                                  /\ t.read = deployments[zk]
                                  /\ merge' = [merge EXCEPT ![r] = t]
           \/ merge' = [merge EXCEPT ![r] = MergeEnded]
<1>1. CASE deployments[zk] = NoFile
  BY <1>1 DEF MergeRead
<1>2. CASE deployments[zk] # NoFile
  <2>1. PICK m : m = merge[r]
    OBVIOUS
  <2>2. PICK f : f = deployments[zk]
    OBVIOUS
  <2>3. PICK t : t = [m EXCEPT !.step = 2, !.read = f]
    OBVIOUS
  <2>4. m \in Merge /\ f \in File
    BY <2>1, <2>2, Basics DEF TypeOK
  <2>5. t \in Merge /\ t.step = 2 /\ t.got = m.got /\ t.read = f
    <3>1. t \in Merge
      BY <2>3, <2>4, Basics, MergeTo DEF Address
    <3>2. QED
      BY <2>3, <2>4, <3>1 DEF Merge
  <2>6. merge' = [merge EXCEPT ![r] = t]
    BY <1>2, <2>1, <2>2, <2>3 DEF TypeOK, MergeRead
  <2>7. QED
    BY <1>2, <2>1, <2>2, <2>5, <2>6
<1>3. QED
  BY <1>1, <1>2

\* What a demo's step makes of its own state.
LEMMA DemoType ==
    ASSUME TypeOK, NEW r \in Run, DemoScript(r)
    PROVE  demo' \in [Run -> Demo] /\ cedulas' \in Seq(Address)
<1>1. demo[r] \in Demo /\ demo \in [Run -> Demo] /\ cedulas \in Seq(Address)
  BY DEF TypeOK
<1>2. demo[r].identity \in Address /\ demo[r].citizen \in Nat
  BY <1>1 DEF Demo
<1>3. CASE DemoStart(r)
  <2>1. deployments[zk] \in File
    BY Basics DEF TypeOK
  <2>2. deployments[zk].at["IdentitySBT"] \in Nat
    BY <2>1, Basics DEF File, Address
  <2>3. PICK t : t = [demo[r] EXCEPT !.step = 1, !.identity = deployments[zk].at["IdentitySBT"]]
    OBVIOUS
  <2>4. t \in Demo
    BY <1>1, <2>2, <2>3, DemoTo
  <2>5. demo' = [demo EXCEPT ![r] = t]
    BY <1>1, <1>3, <2>3 DEF DemoStart
  <2>6. QED
    BY <1>1, <1>3, <2>4, <2>5 DEF DemoStart
<1>4. CASE DemoFund(r)
  <2>1. PICK t : t = [demo[r] EXCEPT !.step = 2]
    OBVIOUS
  <2>2. t \in Demo
    BY <1>1, <2>1, DemoTo
  <2>3. demo' = [demo EXCEPT ![r] = t]
    BY <1>1, <1>4, <2>1 DEF DemoFund
  <2>4. QED
    BY <1>1, <1>4, <2>2, <2>3 DEF DemoFund
<1>5. CASE DemoMint(r)
  <2>1. cedulas' \in Seq(Address)
    BY <1>1, <1>2, <1>5 DEF DemoMint
  <2>2. CASE demo' = [demo EXCEPT ![r] = DemoFailed]
    BY <1>1, <2>1, <2>2, NoneType
  <2>3. CASE demo' = [demo EXCEPT ![r].step = 3, ![r].citizen = Len(cedulas')]
    <3>1. Len(cedulas') \in Nat
      BY <2>1
    <3>2. PICK t : t = [demo[r] EXCEPT !.step = 3, !.citizen = Len(cedulas')]
      OBVIOUS
    <3>3. t \in Demo
      BY <1>1, <3>1, <3>2, DemoTo
    <3>4. demo' = [demo EXCEPT ![r] = t]
      BY <1>1, <2>3, <3>2
    <3>5. QED
      BY <1>1, <2>1, <3>3, <3>4
  <2>4. QED
    BY <1>5, <2>2, <2>3 DEF DemoMint
<1>6. CASE DemoRead(r)
  <2>1. InscribedAt(demo[r].identity, demo[r].citizen) \in Nat
    BY <1>2, TokenType
  <2>2. PICK k : k = InscribedAt(demo[r].identity, demo[r].citizen)
    OBVIOUS
  <2>3. PICK t : t = [demo[r] EXCEPT !.step = 4, !.token = k]
    OBVIOUS
  <2>4. t \in Demo
    BY <1>1, <2>1, <2>2, <2>3, DemoTo
  <2>5. demo' = [demo EXCEPT ![r] = t]
    BY <1>1, <1>6, <2>2, <2>3 DEF DemoRead
  <2>6. QED
    BY <1>1, <1>6, <2>4, <2>5 DEF DemoRead
<1>7. CASE DemoDies(r)
  BY <1>1, <1>7, NoneType DEF DemoDies
<1>8. QED
  BY <1>3, <1>4, <1>5, <1>6, <1>7 DEF DemoScript

LEMMA TypeStep ==
    TypeOK /\ [Next]_vars => TypeOK'
<1> SUFFICES ASSUME TypeOK, [Next]_vars PROVE TypeOK'
  OBVIOUS
<1>0. TypeOK
  OBVIOUS
<1>1. CASE Compile
  <2>1. artifacts' \in 1 .. MaxEvents + 1
    BY <1>1, EventsType DEF Compile
  <2>2. QED
    BY <1>0, <1>1, <2>1 DEF TypeOK, Compile, chainVars, demoVars, fileVars
<1>2. CASE RestartAnvil
  <2>1. instance["localhost"] + 1 \in 1 .. MaxEvents + 1
    BY <1>2, EventsType DEF RestartAnvil
  <2>2. instance' \in [Network -> 1 .. MaxEvents + 1]
    BY <1>0, <1>2, <2>1 DEF TypeOK, RestartAnvil
  <2>3. code' \in [Network -> Seq(Created)]
    <3>1. <<>> \in Seq(Created)
      OBVIOUS
    <3>2. code \in [Network -> Seq(Created)] /\ code' = [code EXCEPT !["localhost"] = <<>>]
      BY <1>0, <1>2 DEF TypeOK, RestartAnvil
    <3>3. QED
      BY <3>1, <3>2
  <2>4. QED
    BY <1>0, <1>2, <2>2, <2>3 DEF TypeOK, RestartAnvil, demoVars, fileVars
<1>3. ASSUME NEW r \in Run, DeployScript(r) PROVE TypeOK'
  <2>0. script \in [Run -> Script] /\ script[r] \in Script
    BY DEF TypeOK
  <2>1. CASE \E net \in Network : Start(r, net)
    <3>1. PICK net \in Network : Start(r, net)
      BY <2>1
    <3>2. script' \in [Run -> Script]
      BY <2>0, <3>1, StartEffect
    <3>3. QED
      BY <1>0, <3>1, <3>2 DEF TypeOK, Start, chainVars, demoVars, fileVars
  <2>2. CASE Deploy(r)
    <3>1. script' \in [Run -> Script]
      <4>1. CASE script' = [script EXCEPT ![r] = Ended]
        BY <2>0, <4>1, NoneType
      <4>2. CASE Learns(r, Names[script[r].step])
        BY <2>0, <4>2, Zenon DEF Learns
      <4>3. QED
        BY <2>2, <4>1, <4>2, DeployEffect
    <3>2. code' \in [Network -> Seq(Created)]
      BY <2>2, DeployEffect, CreatesAppends
    <3>3. QED
      BY <1>0, <2>2, <3>1, <3>2 DEF TypeOK, Deploy, demoVars, fileVars
  <2>3. CASE ScriptDies(r)
    <3>1. script' \in [Run -> Script]
      BY <2>0, <2>3, NoneType DEF ScriptDies
    <3>2. QED
      BY <1>0, <2>3, <3>1 DEF TypeOK, ScriptDies, chainVars, demoVars, fileVars
  <2>4. CASE WriteDeployments(r)
    <3>1. script' \in [Run -> Script]
      BY <2>0, <2>4, StepEffect DEF StepsOn
    <3>2. deployments' \in [Network -> File]
      BY <2>0, <2>4, FileType DEF TypeOK, WriteDeployments
    <3>3. QED
      BY <1>0, <2>4, <3>1, <3>2 DEF TypeOK, WriteDeployments, chainVars, demoVars
  <2>5. CASE CopyAbi(r)
    <3>1. script' \in [Run -> Script]
      BY <2>0, <2>5, StepEffect DEF StepsOn
    <3>2. abis' \in [Name -> Nat]
      <4>1. artifacts \in Nat /\ abis \in [Name -> Nat]
        BY Basics DEF TypeOK
      <4>2. abis' = [abis EXCEPT ![Names[script[r].step - 5]] = artifacts]
        BY <2>5 DEF CopyAbi
      <4>3. QED
        BY <4>1, <4>2
    <3>3. QED
      BY <1>0, <2>5, <3>1, <3>2 DEF TypeOK, CopyAbi, chainVars, demoVars
  <2>6. CASE WriteFrontend(r)
    <3>1. script' \in [Run -> Script]
      BY <2>0, <2>6, NoneType DEF WriteFrontend
    <3>2. frontend' \in [Network -> File]
      BY <2>0, <2>6, FileType DEF TypeOK, WriteFrontend
    <3>3. QED
      BY <1>0, <2>6, <3>1, <3>2 DEF TypeOK, WriteFrontend, chainVars, demoVars
  <2>7. QED
    BY <1>3, <2>1, <2>2, <2>3, <2>4, <2>5, <2>6 DEF DeployScript
<1>4. ASSUME NEW r \in Run, MergeScript(r) PROVE TypeOK'
  <2>0. merge \in [Run -> Merge] /\ merge[r] \in Merge
    BY DEF TypeOK
  <2>1. CASE MergeDeploy(r)
    <3>1. merge' \in [Run -> Merge]
      BY <2>0, <2>1, MergeDeployEffect, NoneType
    <3>2. code' \in [Network -> Seq(Created)]
      BY <2>1, MergeDeployEffect, CreatesAppends, Basics
    <3>3. QED
      BY <1>0, <2>1, <3>1, <3>2 DEF TypeOK, MergeDeploy, demoVars, fileVars
  <2>2. CASE MergeRead(r)
    <3>1. merge' \in [Run -> Merge]
      BY <2>0, <2>2, MergeReadEffect, NoneType
    <3>2. QED
      BY <1>0, <2>2, <3>1 DEF TypeOK, MergeRead, chainVars, demoVars, fileVars
  <2>3. CASE MergeWrite(r)
    <3>1. merge' \in [Run -> Merge]
      BY <2>0, <2>3, NoneType DEF MergeWrite
    <3>2. deployments' \in [Network -> File]
      <4>1. PICK g : g = [merge[r].read EXCEPT !.log = merge[r].got]
        OBVIOUS
      <4>2. merge[r].read \in File /\ merge[r].got \in Nat
        BY <2>0 DEF Merge, Address
      <4>3. g \in File
        BY <4>1, <4>2, LogTo
      <4>4. deployments' = [deployments EXCEPT ![zk] = g]
        BY <2>3, <4>1 DEF MergeWrite
      <4>5. QED
        BY <4>3, <4>4 DEF TypeOK
    <3>3. QED
      BY <1>0, <2>3, <3>1, <3>2 DEF TypeOK, MergeWrite, chainVars, demoVars
  <2>4. CASE MergeDies(r)
    <3>1. merge' \in [Run -> Merge]
      BY <2>0, <2>4, NoneType DEF MergeDies
    <3>2. QED
      BY <1>0, <2>4, <3>1 DEF TypeOK, MergeDies, chainVars, demoVars, fileVars
  <2>5. QED
    BY <1>4, <2>1, <2>2, <2>3, <2>4 DEF MergeScript
<1>5. ASSUME NEW r \in Run, DemoScript(r) PROVE TypeOK'
  <2>1. UNCHANGED DemoRest
    BY <1>5 DEF DemoScript, DemoStart, DemoFund, DemoMint, DemoRead, DemoDies
  <2>2. QED
    BY <1>0, <1>5, <2>1, DemoType DEF TypeOK, DemoRest, chainVars, fileVars
<1>6. CASE UNCHANGED vars
  BY <1>0, <1>6 DEF TypeOK, vars, chainVars, demoVars, fileVars
<1>7. QED
  BY <1>1, <1>2, <1>3, <1>4, <1>5, <1>6 DEF Next

--------------------------------------------------------------------------------
(* What is known of a chain survives its growth.                              *)

\* Chain d is chain c, possibly with more contracts.
Extended(c, d) == \A i \in DOMAIN c : i \in DOMAIN d /\ d[i] = c[i]

\* Chain number k grows, or the next one is started.
Grows(c, k, d, l) == (l = k /\ Extended(c, d)) \/ l = k + 1

\* Every step lets each chain grow or starts the next one; zkTanenbaum only grows.
LEMMA ChainStep ==
    TypeOK /\ [Next]_vars =>
        /\ \A net \in Network : Grows(code[net], instance[net], code'[net], instance'[net])
        /\ instance'[zk] = instance[zk] /\ Extended(code[zk], code'[zk])
<1> SUFFICES ASSUME TypeOK, [Next]_vars
             PROVE  /\ \A net \in Network :
                         Grows(code[net], instance[net], code'[net], instance'[net])
                    /\ instance'[zk] = instance[zk] /\ Extended(code[zk], code'[zk])
  OBVIOUS
<1>0. \A c : Extended(c, c)
  BY DEF Extended
<1>1. CASE RestartAnvil
  <2>1. /\ instance' = [instance EXCEPT !["localhost"] = @ + 1]
        /\ code' = [code EXCEPT !["localhost"] = <<>>]
        /\ instance \in [Network -> 1 .. MaxEvents + 1]
        /\ code \in [Network -> Seq(Created)]
    BY <1>1 DEF RestartAnvil, TypeOK
  <2>2. instance'["localhost"] = instance["localhost"] + 1
    BY <2>1, Basics
  <2>3. instance'[zk] = instance[zk] /\ code'[zk] = code[zk]
    BY <2>1, Basics
  <2>4. Extended(code[zk], code'[zk])
    BY <1>0, <2>3
  <2>5. QED
    BY <2>2, <2>3, <2>4, Basics DEF Grows
<1>2. ASSUME NEW net \in Network, NEW e, Creates(net, e)
      PROVE  /\ \A m \in Network : Grows(code[m], instance[m], code'[m], instance'[m])
             /\ instance'[zk] = instance[zk] /\ Extended(code[zk], code'[zk])
  <2>1. Extended(code[net], code'[net])
    BY <1>2, CreatesAppends DEF Extended
  <2>2. \A m \in Network \ {net} : Extended(code[m], code'[m])
    BY <1>0, <1>2, CreatesAppends
  <2>3. \A m \in Network : Extended(code[m], code'[m])
    BY <2>1, <2>2
  <2>4. instance' = instance
    BY <1>2 DEF Creates
  <2>5. QED
    BY <2>3, <2>4, Basics DEF Grows
<1>3. CASE UNCHANGED chainVars
  BY <1>0, <1>3 DEF Grows, chainVars
<1>4. ASSUME NEW r \in Run, Deploy(r)
      PROVE  \E net \in Network : \E e : Creates(net, e)
  BY <1>4, DeployEffect
<1>5. ASSUME NEW r \in Run, MergeDeploy(r)
      PROVE  \E net \in Network : \E e : Creates(net, e)
  BY <1>5, MergeDeployEffect, Basics
<1>6. ASSUME NEW r \in Run, DeployScript(r), ~Deploy(r) PROVE UNCHANGED chainVars
  BY <1>6 DEF DeployScript, Start, ScriptDies, WriteDeployments, CopyAbi, WriteFrontend
<1>7. ASSUME NEW r \in Run, MergeScript(r), ~MergeDeploy(r) PROVE UNCHANGED chainVars
  BY <1>7 DEF MergeScript, MergeRead, MergeWrite, MergeDies
<1>8. ASSUME NEW r \in Run, DemoScript(r) PROVE UNCHANGED chainVars
  BY <1>8 DEF DemoScript, DemoStart, DemoFund, DemoMint, DemoRead, DemoDies, DemoRest
<1>9. CASE Compile
  BY <1>3, <1>9 DEF Compile
<1>10. CASE UNCHANGED vars
  BY <1>3, <1>10 DEF vars
<1>11. ASSUME NEW r \in Run, DeployScript(r) \/ MergeScript(r) \/ DemoScript(r)
       PROVE  UNCHANGED chainVars \/ \E net \in Network : \E e : Creates(net, e)
  BY <1>4, <1>5, <1>6, <1>7, <1>8, <1>11
<1>12. QED
  BY <1>1, <1>2, <1>3, <1>9, <1>10, <1>11 DEF Next

LEMMA KnowsKept ==
    ASSUME NEW c, NEW k \in Nat, NEW d, NEW l, Grows(c, k, d, l),
           NEW at, NEW of \in [Name -> Nat], NEW r, Knows(c, k, at, of, r)
    PROVE  /\ Knows(d, l, at, of, r)
           /\ \A n \in Name : of[n] = l => l = k /\ d[at[n]] = c[at[n]]
<1>1. \A n \in Name : of[n] \in Nat /\ of[n] <= k
  BY DEF Knows
<1>2. CASE l = k + 1
  BY <1>1, <1>2 DEF Knows
<1>3. CASE l = k /\ Extended(c, d)
  <2>1. \A n \in Name : of[n] = k => /\ Is(c, at[n], n) /\ c[at[n]].by = r
                                     /\ Is(d, at[n], n) /\ d[at[n]] = c[at[n]]
    BY <1>3 DEF Knows, Is, Extended
  <2>2. QED
    BY <1>1, <1>3, <2>1 DEF Knows
<1>4. QED
  BY <1>2, <1>3 DEF Grows

LEMMA FreshKept ==
    ASSUME NEW c, NEW k \in Nat, NEW d, NEW l, Grows(c, k, d, l),
           NEW at, NEW of \in [Name -> Nat], NEW r, Knows(c, k, at, of, r),
           NEW names, names \subseteq Name, NEW abi, NEW newer, Fresh(c, k, at, of, abi, names),
           c \in Seq(Created), abi \in [Name -> Nat], newer \in [Name -> Nat],
           \A n \in Name : abi[n] <= newer[n]
    PROVE  Fresh(d, l, at, of, newer, names)
<1> SUFFICES ASSUME NEW n \in names, of[n] = l PROVE d[at[n]].build <= newer[n]
  BY DEF Fresh
<1>1. l = k /\ d[at[n]] = c[at[n]]
  <2>1. \A m \in Name : of[m] = l => l = k /\ d[at[m]] = c[at[m]]
    BY KnowsKept
  <2>2. QED
    BY <2>1
<1>2. c[at[n]].build <= abi[n]
  BY <1>1 DEF Fresh
<1>3. c[at[n]].build \in Nat
  <2>1. at[n] \in DOMAIN c
    BY <1>1 DEF Knows, Is
  <2>2. c[at[n]] \in Created
    BY <2>1
  <2>3. QED
    BY <2>2 DEF Created
<1>4. abi[n] <= newer[n] /\ abi[n] \in Nat /\ newer[n] \in Nat
  OBVIOUS
<1>5. QED
  BY <1>1, <1>2, <1>3, <1>4

LEMMA SoundKept ==
    ASSUME NEW net \in Network, NEW c, NEW k \in Nat, NEW d, NEW l, Grows(c, k, d, l),
           NEW f \in File, Sound(net, c, k, f), net = zk => Extended(c, d)
    PROVE  Sound(net, d, l, f)
<1>1. f.of \in [Name -> Nat]
  BY DEF File
<1>2. PICK r \in Nat : Knows(c, k, f.at, f.of, r)
  BY DEF Sound
<1>3. Knows(d, l, f.at, f.of, r)
  BY <1>1, <1>2, KnowsKept
<1>4. f.log # 0 => net = zk /\ Is(d, f.log, "AccountabilityLog")
  BY DEF Sound, Is, Extended
<1>5. net = zk /\ f # NoFile => \A n \in Name : f.of[n] = 1
  BY DEF Sound
<1>6. QED
  BY <1>3, <1>4, <1>5 DEF Sound

\* Nothing is known by one who has learnt nothing.
LEMMA KnowsNothing ==
    ASSUME NEW c, NEW k \in Nat \ {0}, NEW r, NEW abi, NEW names, names \subseteq Name
    PROVE  /\ Knows(c, k, NoAddress, NoAddress, r)
           /\ Fresh(c, k, NoAddress, NoAddress, abi, names)
BY NoneType DEF Knows, Fresh

--------------------------------------------------------------------------------
(* Every step keeps the invariant.                                            *)

LEMMA BuildsStep ==
    TypeOK /\ Builds /\ [Next]_vars =>
        /\ Builds'
        /\ \A n \in Name : abis[n] <= abis'[n]
<1> SUFFICES ASSUME TypeOK, Builds, [Next]_vars
             PROVE  Builds' /\ \A n \in Name : abis[n] <= abis'[n]
  OBVIOUS
<1>0. /\ artifacts \in Nat /\ abis \in [Name -> Nat]
      /\ code \in [Network -> Seq(Created)]
      /\ \A net \in Network : \A i \in DOMAIN code[net] :
            code[net][i].build \in Nat /\ code[net][i].build <= artifacts
      /\ \A n \in Name : abis[n] <= artifacts /\ abis[n] \in Nat
  <2>1. artifacts \in Nat /\ abis \in [Name -> Nat] /\ code \in [Network -> Seq(Created)]
    BY Basics DEF TypeOK
  <2>2. ASSUME NEW net \in Network, NEW i \in DOMAIN code[net]
        PROVE  code[net][i].build \in Nat /\ code[net][i].build <= artifacts
    <3>1. code[net][i] \in Created
      BY <2>1
    <3>2. QED
      BY <3>1 DEF Created, Builds
  <2>3. QED
    BY <2>1, <2>2 DEF Builds
<1>1. CASE Compile
  <2>1. artifacts' = artifacts + 1 /\ code' = code /\ abis' = abis
    BY <1>1 DEF Compile, chainVars, fileVars
  <2>2. QED
    BY <1>0, <2>1 DEF Builds
<1>2. CASE RestartAnvil
  <2>1. artifacts' = artifacts /\ abis' = abis /\ code' = [code EXCEPT !["localhost"] = <<>>]
    BY <1>2 DEF RestartAnvil, fileVars
  <2>2. \A net \in Network : \A i \in DOMAIN code'[net] :
            i \in DOMAIN code[net] /\ code'[net][i] = code[net][i]
    <3>1. code'["localhost"] = <<>> /\ code'[zk] = code[zk]
      BY <1>0, <2>1, Basics
    <3>2. QED
      BY <3>1, Basics
  <2>3. QED
    BY <1>0, <2>1, <2>2 DEF Builds
<1>3. ASSUME NEW net \in Network, NEW e, Creates(net, e), abis' = abis
      PROVE  Builds' /\ \A n \in Name : abis[n] <= abis'[n]
  <2>1. artifacts' = artifacts /\ e.build = artifacts
    BY <1>3 DEF Creates
  <2>2. \A i \in DOMAIN code'[net] : code'[net][i].build <= artifacts
    BY <1>0, <1>3, <2>1, CreatesAppends
  <2>3. \A m \in Network : \A i \in DOMAIN code'[m] : code'[m][i].build <= artifacts
    <3>1. ASSUME NEW m \in Network \ {net}, NEW i \in DOMAIN code'[m]
          PROVE  code'[m][i].build <= artifacts
      <4>1. code'[m] = code[m]
        BY <1>3, CreatesAppends
      <4>2. QED
        BY <1>0, <3>1, <4>1
    <3>2. QED
      BY <2>2, <3>1
  <2>4. QED
    BY <1>0, <1>3, <2>1, <2>3 DEF Builds
<1>4. ASSUME UNCHANGED <<artifacts, code, abis>>
      PROVE  Builds' /\ \A n \in Name : abis[n] <= abis'[n]
  BY <1>0, <1>4 DEF Builds
<1>5. ASSUME NEW r \in Run, CopyAbi(r)
      PROVE  Builds' /\ \A n \in Name : abis[n] <= abis'[n]
  <2>1. /\ artifacts' = artifacts /\ code' = code
        /\ abis' = [abis EXCEPT ![Names[script[r].step - 5]] = artifacts]
    BY <1>5 DEF CopyAbi, chainVars
  <2>2. \A n \in Name : abis'[n] = abis[n] \/ abis'[n] = artifacts
    BY <1>0, <2>1
  <2>3. QED
    BY <1>0, <2>1, <2>2 DEF Builds
<1>6. ASSUME NEW r \in Run, DeployScript(r)
      PROVE  Builds' /\ \A n \in Name : abis[n] <= abis'[n]
  <2>1. CASE Deploy(r)
    BY <1>3, <2>1, DeployEffect DEF Deploy, fileVars
  <2>2. CASE CopyAbi(r)
    BY <1>5, <2>2
  <2>3. ASSUME ~Deploy(r), ~CopyAbi(r) PROVE UNCHANGED <<artifacts, code, abis>>
    BY <1>6, <2>3
    DEF DeployScript, Start, ScriptDies, WriteDeployments, WriteFrontend, chainVars, fileVars
  <2>4. QED
    BY <1>4, <2>1, <2>2, <2>3
<1>7. ASSUME NEW r \in Run, MergeScript(r)
      PROVE  Builds' /\ \A n \in Name : abis[n] <= abis'[n]
  <2>1. CASE MergeDeploy(r)
    BY <1>3, <2>1, MergeDeployEffect, Basics DEF MergeDeploy, fileVars
  <2>2. ASSUME ~MergeDeploy(r) PROVE UNCHANGED <<artifacts, code, abis>>
    BY <1>7, <2>2 DEF MergeScript, MergeRead, MergeWrite, MergeDies, chainVars, fileVars
  <2>3. QED
    BY <1>4, <2>1, <2>2
<1>8. ASSUME NEW r \in Run, DemoScript(r) PROVE UNCHANGED <<artifacts, code, abis>>
  BY <1>8 DEF DemoScript, DemoStart, DemoFund, DemoMint, DemoRead, DemoDies, DemoRest,
              chainVars, fileVars
<1>9. CASE UNCHANGED vars
  BY <1>4, <1>9 DEF vars, chainVars, fileVars
<1>10. QED
  BY <1>1, <1>2, <1>4, <1>6, <1>7, <1>8, <1>9 DEF Next

LEMMA HoldsKept ==
    ASSUME NEW s \in Script, NEW r, NEW c \in Seq(Created), NEW k \in Nat, NEW d, NEW l,
           Grows(c, k, d, l), NEW abi \in [Name -> Nat], NEW newer \in [Name -> Nat],
           \A n \in Name : abi[n] <= newer[n], Holds(s, r, c, k, abi)
    PROVE  Holds(s, r, d, l, newer)
<1>1. s.of \in [Name -> Nat] /\ s.step \in Int
  BY DEF Script
<1>2. Knows(c, k, s.got, s.of, r) /\ Fresh(c, k, s.got, s.of, abi, CopiedBy(s.step))
  BY DEF Holds
<1>3. Knows(d, l, s.got, s.of, r)
  BY <1>1, <1>2, KnowsKept
<1>4. Fresh(d, l, s.got, s.of, newer, CopiedBy(s.step))
  BY <1>1, <1>2, AllNames, FreshKept
<1>5. QED
  BY <1>3, <1>4 DEF Holds

\* A run that has learnt an address from its chain knows it.
LEMMA LearnsHolds ==
    ASSUME TypeOK, OneZk, Scripts, NEW r \in Run, Deploy(r), Learns(r, Names[script[r].step])
    PROVE  LET t == script'[r]
           IN  Holds(t, r, code'[t.net], instance'[t.net], abis')
<1> DEFINE s == script[r]
           net == s.net
           name == Names[s.step]
           c == code[net]
           d == code'[net]
           k == instance[net]
<1>1. PICK t \in Script : /\ t.step = s.step + 1 /\ t.net = net
                          /\ t.got = [s.got EXCEPT ![name] = Len(d)]
                          /\ t.of = [s.of EXCEPT ![name] = k]
                          /\ script' = [script EXCEPT ![r] = t]
  BY DEF Learns
<1>2. s \in Script /\ s.step \in 1 .. 4 /\ net \in Network /\ name \in Name
  BY DeployEffect DEF TypeOK
<1>3. PICK e : /\ Creates(net, e) /\ e.name = name /\ e.by = r
               /\ name = "Vote" => e.registry = s.got["IdentitySBT"]
  BY DeployEffect
<1>4. /\ Len(d) \in DOMAIN d /\ d[Len(d)] = e
      /\ \A i \in DOMAIN c : i \in DOMAIN d /\ d[i] = c[i]
  BY <1>2, <1>3, CreatesAppends
<1>5. s.got \in [Name -> Nat] /\ s.of \in [Name -> Nat] /\ k \in Nat \ {0}
  <2>1. s.got \in [Name -> Nat] /\ s.of \in [Name -> Nat]
    BY <1>2 DEF Script, Address
  <2>2. instance[net] \in 1 .. MaxEvents + 1
    BY <1>2 DEF TypeOK
  <2>3. QED
    BY <2>1, <2>2, Basics
<1>6. Holds(s, r, c, k, abis)
  BY DEF Scripts
<1>7. instance'[net] = k
  BY <1>3 DEF Creates
<1>8. t.got[name] = Len(d) /\ t.of[name] = k
      /\ \A n \in Name \ {name} : t.got[n] = s.got[n] /\ t.of[n] = s.of[n]
  BY <1>1, <1>2, <1>5
<1>9. Knows(d, k, t.got, t.of, r)
  <2>1. \A n \in Name : s.of[n] <= k /\ (s.of[n] = k => Is(c, s.got[n], n) /\ c[s.got[n]].by = r)
    BY <1>6 DEF Holds, Knows
  <2>2. \A n \in Name : t.of[n] <= k
    BY <1>5, <1>8, <2>1
  <2>3. Is(d, t.got[name], name) /\ d[t.got[name]].by = r
    BY <1>3, <1>4, <1>8 DEF Is
  <2>4. \A n \in Name \ {name} : t.of[n] = k =>
            Is(d, t.got[n], n) /\ d[t.got[n]].by = r /\ d[t.got[n]] = c[s.got[n]]
    BY <1>4, <1>8, <2>1 DEF Is
  <2>5. ASSUME t.of["Vote"] = k, t.of["IdentitySBT"] = k
        PROVE  d[t.got["Vote"]].registry = t.got["IdentitySBT"]
    <3>1. CASE name = "Vote"
      <4>1. t.got["IdentitySBT"] = s.got["IdentitySBT"]
        BY <1>8, <3>1, Basics
      <4>2. QED
        BY <1>3, <1>4, <1>8, <3>1, <4>1
    <3>2. CASE name = "IdentitySBT"
      <4>1. s.step = 1
        BY <1>2, <3>2 DEF Names
      <4>2. s.of["Vote"] = 0
        BY <1>6, <4>1, AllNames, Basics DEF Holds
      <4>3. QED
        BY <1>5, <1>8, <2>5, <3>2, <4>2, Basics
    <3>3. CASE name # "Vote" /\ name # "IdentitySBT"
      <4>1. /\ s.of["Vote"] = k /\ s.of["IdentitySBT"] = k
            /\ t.got["IdentitySBT"] = s.got["IdentitySBT"]
        BY <1>8, <2>5, <3>3, Basics
      <4>2. c[s.got["Vote"]].registry = s.got["IdentitySBT"]
        BY <1>6, <4>1, Basics DEF Holds, Knows
      <4>3. d[t.got["Vote"]] = c[s.got["Vote"]]
        BY <2>4, <2>5, <3>3, Basics
      <4>4. QED
        BY <4>1, <4>2, <4>3
    <3>4. QED
      BY <3>1, <3>2, <3>3
  <2>6. QED
    BY <2>2, <2>3, <2>4, <2>5 DEF Knows
<1>10. Fresh(d, k, t.got, t.of, abis', CopiedBy(t.step))
  <2>1. t.step \in 0 .. 6
    BY <1>1, <1>2
  <2>2. CopiedBy(t.step) = {}
    BY <2>1, AllNames
  <2>3. QED
    BY <2>2 DEF Fresh
<1>11. DeployedBy(t.step) = DeployedBy(s.step) \cup {name}
  BY <1>1, <1>2, NextNames
<1>12. \A n \in Name \ DeployedBy(t.step) : t.of[n] = 0
  BY <1>2, <1>6, <1>8, <1>11 DEF Holds
<1>13. net = zk => \A n \in DeployedBy(t.step) : t.of[n] = 1
  <2>1. ASSUME net = zk, NEW n \in DeployedBy(t.step) PROVE t.of[n] = 1
    <3>1. n \in Name
      BY <1>1, AllNames DEF Script
    <3>2. CASE n = name
      BY <1>8, <2>1, <3>2 DEF OneZk
    <3>3. CASE n # name
      BY <1>6, <1>8, <1>11, <2>1, <3>1, <3>3 DEF Holds
    <3>4. QED
      BY <3>2, <3>3
  <2>2. QED
    BY <2>1
<1>14. script'[r] = t
  BY <1>1 DEF TypeOK
<1> HIDE DEF s, name
<1>15. QED
  BY <1>1, <1>7, <1>9, <1>10, <1>12, <1>13, <1>14 DEF Holds

LEMMA ScriptsStep ==
    TypeOK /\ OneZk /\ Builds /\ Scripts /\ [Next]_vars => Scripts'
<1> SUFFICES ASSUME TypeOK, OneZk, Builds, Scripts, [Next]_vars PROVE Scripts'
  OBVIOUS
<1>1. /\ script \in [Run -> Script] /\ code \in [Network -> Seq(Created)]
      /\ instance \in [Network -> Nat \ {0}] /\ abis \in [Name -> Nat]
  BY Basics DEF TypeOK
<1>2. TypeOK'
  BY TypeStep
<1>3. /\ instance' \in [Network -> Nat \ {0}] /\ abis' \in [Name -> Nat]
      /\ script' \in [Run -> Script]
  BY <1>2, Basics DEF TypeOK
<1> DEFINE Now(s, r) == Holds(s, r, code[s.net], instance[s.net], abis)
           Then(s, r) == Holds(s, r, code'[s.net], instance'[s.net], abis')
<1>4. ASSUME NEW s \in Script, NEW r \in Run, Now(s, r) PROVE Then(s, r)
  <2>1. s.net \in Network
    BY DEF Script
  <2>2. Grows(code[s.net], instance[s.net], code'[s.net], instance'[s.net])
    BY <2>1, ChainStep
  <2>3. \A n \in Name : abis[n] <= abis'[n]
    BY BuildsStep
  <2>4. code[s.net] \in Seq(Created) /\ instance[s.net] \in Nat
    BY <1>1, <2>1
  <2>5. QED
    <3>1. Holds(s, r, code[s.net], instance[s.net], abis)
      BY <1>4
    <3>2. abis \in [Name -> Nat] /\ abis' \in [Name -> Nat]
      BY <1>1, <1>3
    <3>3. Holds(s, r, code'[s.net], instance'[s.net], abis')
      <4>1. PICK c, k, d, l, abi, newer :
                /\ c = code[s.net] /\ k = instance[s.net]
                /\ d = code'[s.net] /\ l = instance'[s.net]
                /\ abi = abis /\ newer = abis'
        OBVIOUS
      <4>2. /\ c \in Seq(Created) /\ k \in Nat /\ Grows(c, k, d, l)
            /\ abi \in [Name -> Nat] /\ newer \in [Name -> Nat]
            /\ \A n \in Name : abi[n] <= newer[n]
            /\ Holds(s, r, c, k, abi)
        BY <2>2, <2>3, <2>4, <3>1, <3>2, <4>1
      <4>3. Holds(s, r, d, l, newer)
        BY <4>2, HoldsKept
      <4>4. QED
        BY <4>1, <4>3
    <3>4. QED
      BY <3>3
<1>5. \A r \in Run : Now(script[r], r)
  BY DEF Scripts
<1>6. \A r \in Run : Then(Ended, r)
  <2>1. instance'["localhost"] \in Nat \ {0} /\ Ended.net = "localhost" /\ zk # "localhost"
    BY <1>3, Basics, NoneType
  <2>2. CopiedBy(11) \subseteq Name /\ Ended.step = 11 /\ Ended.got = NoAddress /\ Ended.of = NoAddress
    BY AllNames, NoneType
  <2>3. QED
    BY <2>1, <2>2, KnowsNothing DEF Holds
<1>7. ASSUME NEW r \in Run, NEW t \in Script, Then(t, r), script' = [script EXCEPT ![r] = t]
      PROVE  Scripts'
  <2>1. ASSUME NEW q \in Run PROVE Then(script'[q], q)
    <3>1. CASE q = r
      BY <1>1, <1>7, <3>1
    <3>2. CASE q # r
      <4>1. script'[q] = script[q] /\ script[q] \in Script
        BY <1>1, <1>7, <3>2
      <4>2. QED
        BY <1>4, <1>5, <4>1
    <3>3. QED
      BY <3>1, <3>2
  <2>2. QED
    BY <2>1 DEF Scripts
<1>8. ASSUME UNCHANGED script PROVE Scripts'
  <2>1. \A r \in Run : Then(script[r], r)
    BY <1>1, <1>4, <1>5
  <2>2. QED
    BY <1>8, <2>1 DEF Scripts
<1>9. ASSUME NEW r \in Run, script' = [script EXCEPT ![r] = Ended] PROVE Scripts'
  BY <1>6, <1>7, <1>9, NoneType
<1>10. ASSUME NEW r \in Run, NEW net \in Network, Start(r, net) PROVE Scripts'
  <2>1. PICK t \in Script : /\ t.step = 1 /\ t.net = net
                            /\ t.got = NoAddress /\ t.of = NoAddress
                            /\ script' = [script EXCEPT ![r] = t]
    BY <1>10, StartEffect
  <2>2. instance'[net] \in Nat \ {0}
    BY <1>3
  <2>3. CopiedBy(1) \subseteq Name /\ DeployedBy(1) = {}
    BY AllNames
  <2>4. Then(t, r)
    BY <2>1, <2>2, <2>3, KnowsNothing, NoneType DEF Holds
  <2>5. QED
    BY <1>7, <2>1, <2>4
<1>11. ASSUME NEW r \in Run, Deploy(r) PROVE Scripts'
  <2>1. CASE script' = [script EXCEPT ![r] = Ended]
    BY <1>9, <2>1
  <2>2. CASE Learns(r, Names[script[r].step])
    <3>1. PICK t \in Script : script' = [script EXCEPT ![r] = t]
      BY <2>2 DEF Learns
    <3>2. script'[r] = t
      BY <1>1, <3>1
    <3>3. Then(t, r)
      BY <1>11, <2>2, <3>2, LearnsHolds
    <3>4. QED
      BY <1>7, <3>1, <3>3
  <2>3. QED
    BY <1>11, <2>1, <2>2, DeployEffect
<1>12. ASSUME NEW r \in Run, WriteDeployments(r) PROVE Scripts'
  <2> DEFINE s == script[r]
  <2>1. PICK t \in Script : /\ t.step = s.step + 1 /\ t.net = s.net
                            /\ t.got = s.got /\ t.of = s.of
                            /\ script' = [script EXCEPT ![r] = t]
    BY <1>12, StepEffect DEF StepsOn
  <2>2. Then(s, r) /\ s.step = 5 /\ t.step = 6
    BY <1>1, <1>4, <1>5, <1>12, <2>1 DEF WriteDeployments
  <2>3. DeployedBy(5) = Name /\ DeployedBy(6) = Name /\ CopiedBy(6) = {}
    BY AllNames
  <2>4. Then(t, r)
    <3>1. Fresh(code'[t.net], instance'[t.net], t.got, t.of, abis', CopiedBy(t.step))
      BY <2>2, <2>3 DEF Fresh
    <3>2. QED
      BY <2>1, <2>2, <2>3, <3>1 DEF Holds
  <2>5. QED
    BY <1>7, <2>1, <2>4
<1>13. ASSUME NEW r \in Run, CopyAbi(r) PROVE Scripts'
  <2> DEFINE s == script[r]
             name == Names[s.step - 5]
  <2>1. PICK t \in Script : /\ t.step = s.step + 1 /\ t.net = s.net
                            /\ t.got = s.got /\ t.of = s.of
                            /\ script' = [script EXCEPT ![r] = t]
    BY <1>13, StepEffect DEF StepsOn
  <2>2. Then(s, r) /\ s.step \in 6 .. 9
    BY <1>1, <1>4, <1>5, <1>13 DEF CopyAbi
  <2>3. DeployedBy(s.step) = Name /\ DeployedBy(t.step) = Name
    BY <2>1, <2>2, AllNames
  <2>4. CopiedBy(t.step) = CopiedBy(s.step) \cup {name} /\ name \in Name
    <3>1. s.step - 5 \in 1 .. 4
      BY <2>2
    <3>2. QED
      BY <2>1, <2>2, <3>1, NamesType, NextNames
  <2>5. abis'[name] = artifacts /\ code' = code /\ instance' = instance
    BY <1>1, <1>13, <2>4 DEF CopyAbi, chainVars
  <2>6. ASSUME s.of[name] = instance'[s.net] PROVE code'[s.net][s.got[name]].build <= artifacts
    <3>1. s.got[name] \in DOMAIN code'[s.net]
      BY <2>2, <2>4, <2>6 DEF Holds, Knows, Is
    <3>2. s.net \in Network
      BY <1>1 DEF Script
    <3>3. QED
      BY <2>5, <3>1, <3>2 DEF Builds
  <2>7. Fresh(code'[t.net], instance'[t.net], t.got, t.of, abis', CopiedBy(t.step))
    BY <2>1, <2>2, <2>4, <2>5, <2>6 DEF Holds, Fresh
  <2>8. Then(t, r)
    BY <2>1, <2>2, <2>3, <2>7 DEF Holds
  <2>9. QED
    BY <1>7, <2>1, <2>8
<1>14. ASSUME NEW r \in Run, DeployScript(r) PROVE Scripts'
  <2>1. CASE ScriptDies(r)
    BY <1>9, <2>1 DEF ScriptDies
  <2>2. CASE WriteFrontend(r)
    BY <1>9, <2>2 DEF WriteFrontend
  <2>3. QED
    BY <1>10, <1>11, <1>12, <1>13, <1>14, <2>1, <2>2 DEF DeployScript
<1>15. ASSUME NEW r \in Run, MergeScript(r) PROVE UNCHANGED script
  BY <1>15 DEF MergeScript, MergeDeploy, MergeRead, MergeWrite, MergeDies
<1>16. ASSUME NEW r \in Run, DemoScript(r) PROVE UNCHANGED script
  BY <1>16 DEF DemoScript, DemoStart, DemoFund, DemoMint, DemoRead, DemoDies, DemoRest
<1>17. Compile \/ RestartAnvil \/ UNCHANGED vars => UNCHANGED script
  BY DEF Compile, RestartAnvil, vars
<1>18. QED
  BY <1>8, <1>14, <1>15, <1>16, <1>17 DEF Next

\* The file a run writes, its contracts all deployed.
LEMMA SoundFile ==
    ASSUME NEW s \in Script, s.step \in 5 .. 10, NEW r \in Run, NEW c, NEW k, NEW abi,
           Holds(s, r, c, k, abi)
    PROVE  Sound(s.net, c, k, FileOf(s))
<1>1. Knows(c, k, s.got, s.of, r) /\ r \in Nat
  BY Basics DEF Holds
<1>2. s.net = zk => \A n \in Name : s.of[n] = 1
  BY AllNames DEF Holds
<1>3. QED
  BY <1>1, <1>2, FileType DEF Sound

LEMMA FilesStep ==
    TypeOK /\ OneZk /\ Scripts /\ Files /\ Merges /\ [Next]_vars => Files'
<1> SUFFICES ASSUME TypeOK, OneZk, Scripts, Files, Merges, [Next]_vars PROVE Files'
  OBVIOUS
<1>1. /\ deployments \in [Network -> File] /\ frontend \in [Network -> File]
      /\ instance \in [Network -> Nat]
  BY Basics DEF TypeOK
<1> DEFINE Then(net, f) == Sound(net, code'[net], instance'[net], f)
<1>2. ASSUME NEW net \in Network, NEW f \in File, Sound(net, code[net], instance[net], f)
      PROVE  Then(net, f)
  <2>1. PICK c, k, d, l : /\ c = code[net] /\ k = instance[net]
                          /\ d = code'[net] /\ l = instance'[net]
    OBVIOUS
  <2>2. k \in Nat /\ Grows(c, k, d, l) /\ (net = zk => Extended(c, d)) /\ Sound(net, c, k, f)
    BY <1>1, <1>2, <2>1, ChainStep
  <2>3. Sound(net, d, l, f)
    BY <2>2, SoundKept
  <2>4. QED
    BY <2>1, <2>3
<1>3. \A net \in Network : Then(net, deployments[net]) /\ Then(net, frontend[net])
  BY <1>1, <1>2 DEF Files
<1>4. ASSUME UNCHANGED <<deployments, frontend>> PROVE Files'
  BY <1>3, <1>4 DEF Files
<1>5. ASSUME NEW r \in Run, script[r].step \in 5 .. 10
      PROVE  /\ script[r].net \in Network
             /\ Then(script[r].net, FileOf(script[r]))
  <2>1. script[r] \in Script
    BY DEF TypeOK
  <2>2. script[r].net \in Network /\ FileOf(script[r]) \in File
    BY <2>1, FileType DEF Script
  <2>3. Holds(script[r], r, code[script[r].net], instance[script[r].net], abis)
    BY DEF Scripts
  <2>4. Sound(script[r].net, code[script[r].net], instance[script[r].net], FileOf(script[r]))
    BY <1>5, <2>1, <2>3, SoundFile
  <2>5. QED
    BY <1>2, <2>2, <2>4
<1>6. ASSUME NEW r \in Run, WriteDeployments(r) PROVE Files'
  <2>1. script[r].step \in 5 .. 10
    BY <1>6 DEF WriteDeployments
  <2>2. /\ deployments' = [deployments EXCEPT ![script[r].net] = FileOf(script[r])]
        /\ frontend' = frontend
    BY <1>6 DEF WriteDeployments
  <2>3. \A net \in Network : Then(net, deployments'[net])
    BY <1>1, <1>3, <1>5, <2>1, <2>2
  <2>4. QED
    BY <1>3, <2>2, <2>3 DEF Files
<1>7. ASSUME NEW r \in Run, WriteFrontend(r) PROVE Files'
  <2>1. script[r].step \in 5 .. 10
    BY <1>7 DEF WriteFrontend
  <2>2. /\ frontend' = [frontend EXCEPT ![script[r].net] = FileOf(script[r])]
        /\ deployments' = deployments
    BY <1>7 DEF WriteFrontend
  <2>3. \A net \in Network : Then(net, frontend'[net])
    BY <1>1, <1>3, <1>5, <2>1, <2>2
  <2>4. QED
    BY <1>3, <2>2, <2>3 DEF Files
<1>8. ASSUME NEW r \in Run, MergeWrite(r) PROVE Files'
  <2>1. merge[r] \in Merge /\ merge[r].step = 2
    BY <1>8 DEF TypeOK, MergeWrite
  <2>2. merge[r].read \in File /\ merge[r].got \in Nat
    BY <2>1 DEF Merge, Address
  <2>3. PICK g : g = [merge[r].read EXCEPT !.log = merge[r].got]
    OBVIOUS
  <2>4. g \in File /\ g.at = merge[r].read.at /\ g.of = merge[r].read.of /\ g.log = merge[r].got
    BY <2>2, <2>3, LogTo
  <2>5. /\ Sound(zk, code[zk], 1, merge[r].read) /\ merge[r].read # NoFile
        /\ Is(code[zk], merge[r].got, "AccountabilityLog")
    BY <2>1 DEF Merges
  <2>6. Sound(zk, code[zk], instance[zk], g)
    BY <2>4, <2>5 DEF Sound, OneZk
  <2>7. Then(zk, g)
    BY <1>2, <2>4, <2>6, Basics
  <2>8. deployments' = [deployments EXCEPT ![zk] = g] /\ frontend' = frontend
    BY <1>8, <2>3 DEF MergeWrite
  <2>9. \A net \in Network : Then(net, deployments'[net])
    BY <1>1, <1>3, <2>7, <2>8
  <2>10. QED
    BY <1>3, <2>8, <2>9 DEF Files
<1>9. ASSUME NEW r \in Run, DeployScript(r) PROVE Files'
  <2>1. ASSUME ~WriteDeployments(r), ~WriteFrontend(r) PROVE UNCHANGED <<deployments, frontend>>
    BY <1>9, <2>1 DEF DeployScript, Start, Deploy, ScriptDies, CopyAbi, fileVars
  <2>2. QED
    BY <1>4, <1>6, <1>7, <2>1
<1>10. ASSUME NEW r \in Run, MergeScript(r) PROVE Files'
  <2>1. ASSUME ~MergeWrite(r) PROVE UNCHANGED <<deployments, frontend>>
    BY <1>10, <2>1 DEF MergeScript, MergeDeploy, MergeRead, MergeDies, fileVars
  <2>2. QED
    BY <1>4, <1>8, <2>1
<1>11. ASSUME NEW r \in Run, DemoScript(r) PROVE UNCHANGED <<deployments, frontend>>
  BY <1>11 DEF DemoScript, DemoStart, DemoFund, DemoMint, DemoRead, DemoDies, DemoRest, fileVars
<1>12. Compile \/ RestartAnvil \/ UNCHANGED vars => UNCHANGED <<deployments, frontend>>
  BY DEF Compile, RestartAnvil, vars, fileVars
<1>13. QED
  BY <1>4, <1>9, <1>10, <1>11, <1>12 DEF Next

LEMMA AbisStep ==
    TypeOK /\ Builds /\ Scripts /\ Files /\ Abis /\ [Next]_vars => Abis'
<1> SUFFICES ASSUME TypeOK, Builds, Scripts, Files, Abis, [Next]_vars PROVE Abis'
  OBVIOUS
<1>1. /\ frontend \in [Network -> File] /\ instance \in [Network -> Nat]
      /\ code \in [Network -> Seq(Created)] /\ abis \in [Name -> Nat]
  BY Basics DEF TypeOK
<1>2. TypeOK'
  BY TypeStep
<1>3. abis' \in [Name -> Nat]
  BY <1>2 DEF TypeOK
<1> DEFINE Then(net, f) == Fresh(code'[net], instance'[net], f.at, f.of, abis', Name)
<1>4. ASSUME NEW net \in Network PROVE Then(net, frontend[net])
  <2>1. PICK c, k, d, l, abi, newer, at, of :
            /\ c = code[net] /\ k = instance[net] /\ d = code'[net] /\ l = instance'[net]
            /\ abi = abis /\ newer = abis' /\ at = frontend[net].at /\ of = frontend[net].of
    OBVIOUS
  <2>2. frontend[net] \in File
    BY <1>1
  <2>3. PICK r \in Nat : Knows(c, k, at, of, r)
    BY <2>1 DEF Files, Sound
  <2>4. /\ k \in Nat /\ Grows(c, k, d, l) /\ c \in Seq(Created) /\ of \in [Name -> Nat]
        /\ abi \in [Name -> Nat] /\ newer \in [Name -> Nat]
        /\ \A n \in Name : abi[n] <= newer[n]
        /\ Fresh(c, k, at, of, abi, Name)
    BY <1>1, <1>3, <2>1, <2>2, ChainStep, BuildsStep DEF File, Abis
  <2>5. Fresh(d, l, at, of, newer, Name)
    BY <2>3, <2>4, FreshKept
  <2>6. QED
    BY <2>1, <2>5
<1>5. ASSUME UNCHANGED frontend PROVE Abis'
  BY <1>4, <1>5 DEF Abis
<1>6. ASSUME NEW r \in Run, WriteFrontend(r) PROVE Abis'
  <2> DEFINE s == script[r]
  <2>1. s \in Script /\ s.step = 10
    BY <1>6 DEF TypeOK, WriteFrontend
  <2>2. s.net \in Network
    BY <2>1 DEF Script
  <2>3. /\ frontend' = [frontend EXCEPT ![s.net] = FileOf(s)]
        /\ code' = code /\ instance' = instance /\ abis' = abis
    BY <1>6 DEF WriteFrontend, chainVars
  <2>4. Fresh(code[s.net], instance[s.net], s.got, s.of, abis, Name)
    BY <2>1, AllNames DEF Scripts, Holds
  <2>5. Then(s.net, FileOf(s))
    BY <2>1, <2>3, <2>4, FileType
  <2>6. \A net \in Network : Then(net, frontend'[net])
    BY <1>1, <1>4, <2>3, <2>5
  <2>7. QED
    BY <2>6 DEF Abis
<1>7. ASSUME NEW r \in Run, DeployScript(r), ~WriteFrontend(r) PROVE UNCHANGED frontend
  BY <1>7 DEF DeployScript, Start, Deploy, ScriptDies, WriteDeployments, CopyAbi, fileVars
<1>8. ASSUME NEW r \in Run, MergeScript(r) PROVE UNCHANGED frontend
  BY <1>8 DEF MergeScript, MergeDeploy, MergeRead, MergeWrite, MergeDies, fileVars
<1>9. ASSUME NEW r \in Run, DemoScript(r) PROVE UNCHANGED frontend
  BY <1>9 DEF DemoScript, DemoStart, DemoFund, DemoMint, DemoRead, DemoDies, DemoRest, fileVars
<1>10. Compile \/ RestartAnvil \/ UNCHANGED vars => UNCHANGED frontend
  BY DEF Compile, RestartAnvil, vars, fileVars
<1>11. QED
  BY <1>5, <1>6, <1>7, <1>8, <1>9, <1>10 DEF Next

LEMMA MergesStep ==
    TypeOK /\ OneZk /\ Files /\ Merges /\ [Next]_vars => Merges'
<1> SUFFICES ASSUME TypeOK, OneZk, Files, Merges, [Next]_vars PROVE Merges'
  OBVIOUS
<1>1. merge \in [Run -> Merge]
  BY DEF TypeOK
<1>2. Extended(code[zk], code'[zk])
  BY ChainStep
<1> DEFINE Now(m) == /\ m.step \in {1, 2} => Is(code[zk], m.got, "AccountabilityLog")
                     /\ m.step = 2 => Sound(zk, code[zk], 1, m.read) /\ m.read # NoFile
           Then(m) == /\ m.step \in {1, 2} => Is(code'[zk], m.got, "AccountabilityLog")
                      /\ m.step = 2 => Sound(zk, code'[zk], 1, m.read) /\ m.read # NoFile
<1>3. ASSUME NEW m \in Merge, Now(m) PROVE Then(m)
  <2>1. m.step \in {1, 2} => Is(code'[zk], m.got, "AccountabilityLog")
    BY <1>2, <1>3 DEF Is, Extended
  <2>2. m.step = 2 => Sound(zk, code'[zk], 1, m.read)
    <3>1. PICK c, d : c = code[zk] /\ d = code'[zk]
      OBVIOUS
    <3>2. Grows(c, 1, d, 1) /\ Extended(c, d)
      BY <1>2, <3>1 DEF Grows
    <3>3. m.read \in File /\ 1 \in Nat /\ zk \in Network
      BY Basics DEF Merge
    <3>4. m.step = 2 => Sound(zk, c, 1, m.read)
      BY <1>3, <3>1
    <3>5. m.step = 2 => Sound(zk, d, 1, m.read)
      BY <3>2, <3>3, <3>4, SoundKept
    <3>6. QED
      BY <3>1, <3>5
  <2>3. QED
    BY <1>3, <2>1, <2>2
<1>4. \A r \in Run : Then(merge[r])
  BY <1>1, <1>3 DEF Merges
<1>5. ASSUME UNCHANGED merge PROVE Merges'
  BY <1>4, <1>5 DEF Merges
<1>6. ASSUME NEW r \in Run, NEW t, Then(t), merge' = [merge EXCEPT ![r] = t] PROVE Merges'
  <2>1. \A q \in Run : Then(merge'[q])
    BY <1>1, <1>4, <1>6
  <2>2. QED
    BY <2>1 DEF Merges
<1>7. ASSUME NEW r \in Run, merge' = [merge EXCEPT ![r] = MergeEnded] PROVE Merges'
  <2>1. Then(MergeEnded)
    BY NoneType
  <2>2. QED
    BY <1>6, <1>7, <2>1
<1>8. ASSUME NEW r \in Run, MergeDeploy(r) PROVE Merges'
  <2>1. PICK e : Creates(zk, e) /\ e.name = "AccountabilityLog"
    BY <1>8, MergeDeployEffect
  <2>2. Is(code'[zk], Len(code'[zk]), "AccountabilityLog")
    BY <2>1, Basics, CreatesAppends DEF Is
  <2>3. ASSUME NEW t \in Merge, t.step = 1, t.got = Len(code'[zk]) PROVE Then(t)
    BY <2>2, <2>3
  <2>4. QED
    BY <1>6, <1>7, <1>8, <2>3, MergeDeployEffect
<1>9. ASSUME NEW r \in Run, MergeRead(r) PROVE Merges'
  <2>1. CASE merge' = [merge EXCEPT ![r] = MergeEnded]
    BY <1>7, <2>1
  <2>2. ASSUME deployments[zk] # NoFile,
               NEW t \in Merge, t.step = 2, t.got = merge[r].got, t.read = deployments[zk],
               merge' = [merge EXCEPT ![r] = t]
        PROVE  Merges'
    <3>1. Is(code[zk], merge[r].got, "AccountabilityLog")
      BY <1>9 DEF MergeRead, Merges
    <3>2. Sound(zk, code[zk], 1, deployments[zk])
      BY Basics DEF Files, OneZk
    <3>3. Now(t)
      BY <2>2, <3>1, <3>2
    <3>4. QED
      BY <1>3, <1>6, <2>2, <3>3
  <2>3. QED
    BY <1>9, <2>1, <2>2, MergeReadEffect
<1>10. ASSUME NEW r \in Run, MergeScript(r) PROVE Merges'
  <2>1. CASE MergeWrite(r)
    BY <1>7, <2>1 DEF MergeWrite
  <2>2. CASE MergeDies(r)
    BY <1>7, <2>2 DEF MergeDies
  <2>3. QED
    BY <1>8, <1>9, <1>10, <2>1, <2>2 DEF MergeScript
<1>11. ASSUME NEW r \in Run, DeployScript(r) PROVE UNCHANGED merge
  BY <1>11 DEF DeployScript, Start, Deploy, ScriptDies, WriteDeployments, CopyAbi, WriteFrontend
<1>12. ASSUME NEW r \in Run, DemoScript(r) PROVE UNCHANGED merge
  BY <1>12 DEF DemoScript, DemoStart, DemoFund, DemoMint, DemoRead, DemoDies, DemoRest
<1>13. Compile \/ RestartAnvil \/ UNCHANGED vars => UNCHANGED merge
  BY DEF Compile, RestartAnvil, vars
<1>14. QED
  BY <1>5, <1>10, <1>11, <1>12, <1>13 DEF Next

LEMMA DemosStep ==
    TypeOK /\ OneZk /\ Files /\ Demos /\ [Next]_vars => Demos'
<1> SUFFICES ASSUME TypeOK, OneZk, Files, Demos, [Next]_vars PROVE Demos'
  OBVIOUS
<1>1. demo \in [Run -> Demo] /\ cedulas \in Seq(Address)
  BY DEF TypeOK
<1>2. Extended(code[zk], code'[zk])
  BY ChainStep
<1> DEFINE Now(d) == /\ d.step \in 1 .. 4 => Asked(code[zk], d.identity)
                     /\ d.step \in {3, 4} => /\ d.citizen \in DOMAIN cedulas
                                             /\ cedulas[d.citizen] = d.identity
                     /\ d.step = 4 => d.token > 0
           Then(d) == /\ d.step \in 1 .. 4 => Asked(code'[zk], d.identity)
                      /\ d.step \in {3, 4} => /\ d.citizen \in DOMAIN cedulas'
                                              /\ cedulas'[d.citizen] = d.identity
                      /\ d.step = 4 => d.token > 0
<1>3. \A r \in Run : Now(demo[r])
  BY DEF Demos
<1>4. ASSUME \A c \in DOMAIN cedulas : c \in DOMAIN cedulas' /\ cedulas'[c] = cedulas[c],
             NEW d, Now(d)
      PROVE  Then(d)
  <2>1. Asked(code[zk], d.identity) => Asked(code'[zk], d.identity)
    BY <1>2 DEF Asked, Extended
  <2>2. QED
    BY <1>4, <2>1
<1>5. ASSUME NEW r \in Run, NEW d, Then(d), demo' = [demo EXCEPT ![r] = d],
             \A c \in DOMAIN cedulas : c \in DOMAIN cedulas' /\ cedulas'[c] = cedulas[c]
      PROVE  Demos'
  <2>1. ASSUME NEW q \in Run PROVE Then(demo'[q])
    <3>1. CASE q = r
      BY <1>1, <1>5, <3>1
    <3>2. CASE q # r
      <4>1. demo'[q] = demo[q]
        BY <1>1, <1>5, <3>2
      <4>2. QED
        BY <1>3, <1>4, <1>5, <4>1
    <3>3. QED
      BY <3>1, <3>2
  <2>2. QED
    BY <2>1 DEF Demos
<1>6. ASSUME UNCHANGED demoVars PROVE Demos'
  <2>1. \A r \in Run : Then(demo[r])
    BY <1>3, <1>4, <1>6 DEF demoVars
  <2>2. QED
    BY <1>6, <2>1 DEF Demos, demoVars
<1>7. ASSUME NEW r \in Run, DemoStart(r) PROVE Demos'
  <2> DEFINE f == deployments[zk]
  <2>1. PICK d : d = [demo[r] EXCEPT !.step = 1, !.identity = f.at["IdentitySBT"]]
    OBVIOUS
  <2>2. demo[r] \in Demo
    BY <1>1
  <2>3. d.step = 1 /\ d.identity = f.at["IdentitySBT"]
    BY <2>1, <2>2 DEF Demo
  <2>4. demo' = [demo EXCEPT ![r] = d] /\ cedulas' = cedulas
    BY <1>1, <1>7, <2>1 DEF DemoStart
  <2>5. Asked(code[zk], f.at["IdentitySBT"])
    <3>1. f # NoFile
      BY <1>7 DEF DemoStart
    <3>2. Sound(zk, code[zk], 1, f)
      BY Basics DEF Files, OneZk
    <3>3. PICK q \in Nat : Knows(code[zk], 1, f.at, f.of, q)
      BY <3>2 DEF Sound
    <3>4. f.of["Vote"] = 1 /\ f.of["IdentitySBT"] = 1
      BY <3>1, <3>2, Basics DEF Sound
    <3>5. /\ Is(code[zk], f.at["Vote"], "Vote")
          /\ code[zk][f.at["Vote"]].registry = f.at["IdentitySBT"]
      BY <3>3, <3>4, Basics DEF Knows
    <3>6. QED
      BY <3>5 DEF Is, Asked
  <2>6. Now(d)
    BY <2>3, <2>5
  <2>7. Then(d)
    BY <1>4, <2>4, <2>6
  <2>8. QED
    BY <1>5, <2>4, <2>7
<1>8. ASSUME NEW r \in Run, DemoFund(r) PROVE Demos'
  <2>1. PICK d : d = [demo[r] EXCEPT !.step = 2]
    OBVIOUS
  <2>2. demo[r] \in Demo /\ demo[r].step = 1
    BY <1>1, <1>8 DEF DemoFund
  <2>3. d.step = 2 /\ d.identity = demo[r].identity
    BY <2>1, <2>2 DEF Demo
  <2>4. demo' = [demo EXCEPT ![r] = d] /\ cedulas' = cedulas
    BY <1>1, <1>8, <2>1 DEF DemoFund
  <2>5. Now(d)
    BY <1>3, <2>2, <2>3
  <2>6. Then(d)
    BY <1>4, <2>4, <2>5
  <2>7. QED
    BY <1>5, <2>4, <2>6
<1>9. ASSUME NEW r \in Run, DemoMint(r) PROVE Demos'
  <2>1. demo[r] \in Demo /\ demo[r].step = 2
    BY <1>1, <1>9 DEF DemoMint
  <2>2. cedulas' = Append(cedulas, demo[r].identity) /\ demo[r].identity \in Address
    BY <1>9, <2>1 DEF DemoMint, Demo
  <2>3. /\ \A c \in DOMAIN cedulas : c \in DOMAIN cedulas' /\ cedulas'[c] = cedulas[c]
        /\ Len(cedulas') \in DOMAIN cedulas' /\ cedulas'[Len(cedulas')] = demo[r].identity
    BY <1>1, <2>2
  <2>4. CASE demo' = [demo EXCEPT ![r] = DemoFailed]
    <3>1. Then(DemoFailed)
      BY NoneType
    <3>2. QED
      BY <1>5, <2>3, <2>4, <3>1
  <2>5. CASE demo' = [demo EXCEPT ![r].step = 3, ![r].citizen = Len(cedulas')]
    <3>1. PICK d : d = [demo[r] EXCEPT !.step = 3, !.citizen = Len(cedulas')]
      OBVIOUS
    <3>2. d.step = 3 /\ d.citizen = Len(cedulas') /\ d.identity = demo[r].identity
      BY <2>1, <3>1 DEF Demo
    <3>3. demo' = [demo EXCEPT ![r] = d]
      BY <1>1, <2>5, <3>1
    <3>4. Asked(code'[zk], d.identity)
      BY <1>2, <1>3, <2>1, <3>2 DEF Asked, Extended
    <3>5. Then(d)
      BY <2>3, <3>2, <3>4
    <3>6. QED
      BY <1>5, <2>3, <3>3, <3>5
  <2>6. QED
    BY <1>9, <2>4, <2>5 DEF DemoMint
<1>10. ASSUME NEW r \in Run, DemoRead(r) PROVE Demos'
  <2>1. demo[r] \in Demo /\ demo[r].step = 3
    BY <1>1, <1>10 DEF DemoRead
  <2>2. /\ demo[r].citizen \in DOMAIN cedulas
        /\ cedulas[demo[r].citizen] = demo[r].identity
        /\ Asked(code[zk], demo[r].identity)
    BY <1>3, <2>1
  <2>3. demo[r].citizen \in Nat /\ demo[r].citizen > 0
    BY <1>1, <2>2
  <2>4. PICK k : k = InscribedAt(demo[r].identity, demo[r].citizen)
    OBVIOUS
  <2>5. k > 0
    BY <2>2, <2>3, <2>4, TokenType
  <2>6. PICK d : d = [demo[r] EXCEPT !.step = 4, !.token = k]
    OBVIOUS
  <2>7. /\ d.step = 4 /\ d.token = k
        /\ d.citizen = demo[r].citizen /\ d.identity = demo[r].identity
    BY <2>1, <2>6 DEF Demo
  <2>8. demo' = [demo EXCEPT ![r] = d] /\ cedulas' = cedulas
    BY <1>1, <1>10, <2>4, <2>6 DEF DemoRead
  <2>9. Now(d)
    BY <2>2, <2>5, <2>7
  <2>10. Then(d)
    BY <1>4, <2>8, <2>9
  <2>11. QED
    BY <1>5, <2>8, <2>10
<1>11. ASSUME NEW r \in Run, DemoDies(r) PROVE Demos'
  <2>1. demo' = [demo EXCEPT ![r] = DemoFailed] /\ cedulas' = cedulas
    BY <1>11 DEF DemoDies
  <2>2. Then(DemoFailed)
    BY NoneType
  <2>3. QED
    BY <1>5, <2>1, <2>2
<1>12. ASSUME NEW r \in Run, DeployScript(r) PROVE UNCHANGED demoVars
  BY <1>12 DEF DeployScript, Start, Deploy, ScriptDies, WriteDeployments, CopyAbi, WriteFrontend
<1>13. ASSUME NEW r \in Run, MergeScript(r) PROVE UNCHANGED demoVars
  BY <1>13 DEF MergeScript, MergeDeploy, MergeRead, MergeWrite, MergeDies
<1>14. Compile \/ RestartAnvil \/ UNCHANGED vars => UNCHANGED demoVars
  BY DEF Compile, RestartAnvil, vars
<1>15. QED
  BY <1>6, <1>7, <1>8, <1>9, <1>10, <1>11, <1>12, <1>13, <1>14 DEF Next, DemoScript

LEMMA Inductive ==
    /\ Init => Inv
    /\ Inv /\ [Next]_vars => Inv'
<1>1. ASSUME Init PROVE Inv
  <2>1. TypeOK
    <3>1. /\ 1 \in 1 .. MaxEvents + 1 /\ 0 \in Nat
          /\ <<>> \in Seq(Created) /\ <<>> \in Seq(Address)
      BY Basics
    <3>2. /\ artifacts = 1 /\ code = [net \in Network |-> <<>>]
          /\ instance = [net \in Network |-> 1] /\ cedulas = <<>>
          /\ abis = [n \in Name |-> 0]
      BY <1>1 DEF Init
    <3>3. /\ script \in [Run -> Script] /\ merge \in [Run -> Merge] /\ demo \in [Run -> Demo]
      BY <1>1, NoneType DEF Init
    <3>4. deployments \in [Network -> File] /\ frontend \in [Network -> File]
      BY <1>1, NoneType DEF Init
    <3>5. /\ code \in [Network -> Seq(Created)] /\ instance \in [Network -> 1 .. MaxEvents + 1]
          /\ abis \in [Name -> Nat]
      BY <3>1, <3>2
    <3>6. QED
      BY <3>1, <3>2, <3>3, <3>4, <3>5 DEF TypeOK
  <2>2. OneZk
    BY <1>1, Basics DEF Init, OneZk
  <2>3. Builds
    BY <1>1 DEF Init, Builds
  <2>4. Scripts
    <3>1. ASSUME NEW r \in Run
          PROVE  /\ script[r] = NoScript /\ instance["localhost"] = 1
                 /\ CopiedBy(0) \subseteq Name
      BY <1>1, AllNames, Basics DEF Init
    <3>2. ASSUME NEW r \in Run PROVE Holds(NoScript, r, code["localhost"], 1, abis)
      BY <3>1, KnowsNothing, NoneType, Basics DEF Holds
    <3>3. QED
      BY <3>1, <3>2, NoneType DEF Scripts
  <2>5. Files
    <3>1. \A net \in Network : /\ deployments[net] = NoFile /\ frontend[net] = NoFile
                               /\ instance[net] = 1
      BY <1>1 DEF Init
    <3>2. ASSUME NEW net \in Network PROVE Sound(net, code[net], 1, NoFile)
      <4>1. Knows(code[net], 1, NoAddress, NoAddress, 0)
        BY KnowsNothing
      <4>2. QED
        BY <4>1, NoneType DEF Sound
    <3>3. QED
      BY <3>1, <3>2 DEF Files
  <2>6. Abis
    <3>1. \A net \in Network : frontend[net] = NoFile /\ instance[net] = 1
      BY <1>1 DEF Init
    <3>2. QED
      BY <3>1, NoneType, KnowsNothing DEF Abis
  <2>7. Merges
    BY <1>1, NoneType DEF Init, Merges
  <2>8. Demos
    BY <1>1, NoneType DEF Init, Demos
  <2>9. QED
    BY <2>1, <2>2, <2>3, <2>4, <2>5, <2>6, <2>7, <2>8 DEF Inv
<1>2. ASSUME Inv, [Next]_vars PROVE Inv'
  <2>1. TypeOK /\ OneZk /\ Builds /\ Scripts /\ Files /\ Abis /\ Merges /\ Demos
    BY <1>2 DEF Inv
  <2>2. OneZk'
    BY <1>2, <2>1, ChainStep DEF OneZk
  <2>3. QED
    BY <1>2, <2>1, <2>2, TypeStep, BuildsStep, ScriptsStep, FilesStep, AbisStep, MergesStep,
       DemosStep, Zenon DEF Inv
<1>3. QED
  BY <1>1, <1>2

LEMMA Invariance == Spec => []Inv
<1>1. QED
  BY Inductive, PTL DEF Spec

--------------------------------------------------------------------------------
(* The theorems.                                                              *)

\* Chains, runs and files always have their types.
THEOREM TypeCorrect == Spec => []TypeOK
<1>1. Inv => TypeOK
  BY DEF Inv
<1>2. QED
  BY <1>1, Invariance, PTL

LEMMA SoundDescribes ==
    ASSUME TypeOK, OneZk, NEW net \in Network, NEW f,
           Sound(net, code[net], instance[net], f)
    PROVE  /\ \A n \in Learnt(net, f) : IsA(net, f.at[n], n)
           /\ \A m, n \in Learnt(net, f) : code[net][f.at[m]].by = code[net][f.at[n]].by
           /\ {"Vote", "IdentitySBT"} \subseteq Learnt(net, f) =>
                  code[net][f.at["Vote"]].registry = f.at["IdentitySBT"]
           /\ f.log # 0 => IsA(net, f.log, "AccountabilityLog")
           /\ net = zk /\ f # NoFile => Learnt(net, f) = Name
<1>1. PICK r \in Nat : Knows(code[net], instance[net], f.at, f.of, r)
  BY DEF Sound
<1>2. \A n \in Learnt(net, f) : IsA(net, f.at[n], n) /\ code[net][f.at[n]].by = r
  BY <1>1 DEF Knows, Learnt, Is, IsA
<1>3. {"Vote", "IdentitySBT"} \subseteq Learnt(net, f) =>
          code[net][f.at["Vote"]].registry = f.at["IdentitySBT"]
  BY <1>1 DEF Knows, Learnt
<1>4. f.log # 0 => IsA(net, f.log, "AccountabilityLog")
  BY DEF Sound, Is, IsA
<1>5. net = zk /\ f # NoFile => Learnt(net, f) = Name
  BY DEF Sound, Learnt, OneZk
<1>6. QED
  BY <1>2, <1>3, <1>4, <1>5

\* Whatever scripts ran side by side, died or wrote over each other's file, and however
\* often Anvil started again meanwhile, what deployments/<network>.json and the
\* frontend's copy name of the chain that is there now is one deployment with its own
\* registry; on zkTanenbaum that is all a file names.
THEOREM FilesAreOneDeployment == Spec => []FilesDescribeOneDeployment
<1>1. Inv => FilesDescribeOneDeployment
  <2> SUFFICES ASSUME Inv PROVE FilesDescribeOneDeployment
    OBVIOUS
  <2>1. \A net \in Network : \A f \in {deployments[net], frontend[net]} :
            Sound(net, code[net], instance[net], f)
    BY DEF Inv, Files
  <2>2. TypeOK /\ OneZk
    BY DEF Inv
  <2>3. QED
    BY <2>1, <2>2, SoundDescribes DEF FilesDescribeOneDeployment
<1>2. QED
  BY <1>1, Invariance, PTL

\* The frontend never calls a contract with an ABI of an older build than the
\* contract's, although both networks share the ABIs and compilations interleave.
THEOREM AbisAreNotOlder == Spec => []AbiNotOlder
<1>1. Inv => AbiNotOlder
  BY DEF Inv, Abis, Fresh, AbiNotOlder, Learnt, GetAddresses
<1>2. QED
  BY <1>1, Invariance, PTL

\* A citizen the demo calls confirmed holds a numbered cedula at an IdentitySBT some
\* Vote contract asks, whatever was deployed or merged while the demo ran.
THEOREM InscribedCitizensCanVote == Spec => []InscribedWhereVotesLook
<1>1. Inv => InscribedWhereVotesLook
  <2> SUFFICES ASSUME Inv, NEW r \in Run, demo[r].step = 4
               PROVE  /\ demo[r].token > 0
                      /\ cedulas[demo[r].citizen] = demo[r].identity
                      /\ Asked(code[zk], demo[r].identity)
    BY DEF InscribedWhereVotesLook, Asked
  <2>1. QED
    BY DEF Inv, Demos
<1>2. QED
  BY <1>1, Invariance, PTL

================================================================================
