-------------------------------- MODULE MCFaucet --------------------------------
(* Instances of Faucet for TLC. *)
EXTENDS Faucet

CONSTANTS r1, r2, w1, i1, i2

MCRequest == {r1, r2}
MCWallet == {w1}
MCIp == {i1, i2}

================================================================================
