---------------------------- MODULE MCCdCommand ----------------------------
(* The scenes of CdCommand: movies alone, and movies and games in turn.    *)
EXTENDS CdCommand

Scene == {"movie", "game"}
Movies == {"movie"}
=============================================================================
