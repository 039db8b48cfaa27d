----------------------------- MODULE MCCelProc ------------------------------
(***************************************************************************)
(* Small instances of CelProc: the engine of MCEngine, and two sets of     *)
(* requests.                                                               *)
(***************************************************************************)
EXTENDS CelProc, MCEngine

\* Two expressions and unequal definitions under one identifier, a third
\* identifier that evicts the oldest of two, requests without identifier or expression.
MixedModels ==
  { Model("1", "a", "x == 1", "x=1"),   Model("2", "a", "y == 1", "x=1,y=1"),
    Model("1", "a", "y == 1", "x=1"),   Model("2", "b", "x == 1", "x=2"),
    Model("1", "b", "odd", "x=1"),      Model("1", "c", "x == 1", "x=1"),
    Model("2", Empty, "x", "x=1"),      Model("1", "a", Empty, "x=1") }

\* One expression for each identifier, with changing values.
StableModels ==
  { Model("1", "a", "x == 1", "x=1"), Model("2", "a", "x == 1", "x=2"),
    Model("1", "b", "y == 1", "x=1,y=1") }

\* What the properties of these runs ask of the requests.
ASSUME Models = StableModels => OneProgramPerIdentifier
ASSUME Models = MixedModels => ~EqualDefinitions
=============================================================================
