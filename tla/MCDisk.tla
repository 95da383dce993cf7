------------------------------- MODULE MCDisk -------------------------------
(***************************************************************************)
(* Model-checking instance of Disk: two static requests and one of another *)
(* route for two slots, two threads, and a file that is written once more. *)
(***************************************************************************)
EXTENDS Disk
=============================================================================
