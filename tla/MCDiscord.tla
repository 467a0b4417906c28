------------------------------- MODULE MCDiscord -------------------------------
(* Small instances of Discord for TLC. *)
EXTENDS Discord
=============================================================================
