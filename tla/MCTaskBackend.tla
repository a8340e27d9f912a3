---------------------------- MODULE MCTaskBackend ----------------------------
(***************************************************************************)
(* Values of the constants of TaskBackend for TLC.                         *)
(***************************************************************************)
EXTENDS TaskBackend, TLC

CONSTANTS w1, w2, g1   \* worker processes

\* The flow the dashboard writes; one short enough for two requests at once;
\* one a rework cannot go on from, which only a row written by hand can have.
FullFlow     == <<0, 1, 2, 3, 4, 5>>
ShortFlow    == <<0, 4, 5>>
NoReworkFlow == <<0, 5>>

TwoBrains   == [w \in {w1, w2} |-> "brain"]
WithGuardian == [w \in {w1, w2, g1} |-> IF w = g1 THEN "guardian" ELSE "brain"]
OneOfEach   == [w \in {w1, g1} |-> IF w = g1 THEN "guardian" ELSE "brain"]

\* Workers of one service are interchangeable.
BrainSymmetry == Permutations({w1, w2})
=============================================================================
