------------------------------ MODULE MCSetup -------------------------------
(* A small instance of Setup for TLC: a default task and one the user adds.*)
EXTENDS Setup

CONSTANTS a, b

DefaultTasks == {a}

AllTasks == {a, b}
=============================================================================
