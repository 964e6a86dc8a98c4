---------------------------- MODULE CitizenRegistry ----------------------------
(******************************************************************************)
(* The contract CitizenRegistry.sol: the first-generation registry, one hash  *)
(* per address.  It is deployed beside IdentitySBT and offers Vote the same   *)
(* interface (ICitizenRegistry).                                              *)
(******************************************************************************)
CONSTANTS
    Account,      \* addresses that call the contract
    Dni,          \* non-zero dniHash values
    NoHash        \* bytes32(0)

VARIABLE hashes   \* address -> hash, NoHash when not registered

Init == hashes = [a \in Account |-> NoHash]

IsRegistered(citizen) == hashes[citizen] # NoHash

HashOf(citizen) == hashes[citizen]

\* register(dniHash): once per address; nothing relates the hashes of two
\* addresses.
Register(caller, dniHash) ==
    /\ dniHash # NoHash
    /\ hashes[caller] = NoHash
    /\ hashes' = [hashes EXCEPT ![caller] = dniHash]

================================================================================
