------------------------------ MODULE MC_Smash ------------------------------
(***************************************************************************)
(* Instances of Smash for TLC.  The user's input is a choice of command   *)
(* kinds; the signal numbers are those of Linux on x86.                    *)
(***************************************************************************)
EXTENDS Smash

MC_AllCommands == {"external", "external&", "timeout", "jobs", "fg", "bg", "kill",
                   "quit", "pipe", "ctrl-z", "ctrl-c"}

(* Without pipes, whose first child main never waits for. *)
MC_NoPipe == MC_AllCommands \ {"pipe"}

(* Timeouts and the commands that reap and wait, without Ctrl-Z. *)
MC_Timeouts == {"timeout", "jobs", "quit"}
====
