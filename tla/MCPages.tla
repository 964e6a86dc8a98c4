-------------------------------- MODULE MCPages --------------------------------
(* Instance of Pages for TLC. *)
EXTENDS Pages

================================================================================
