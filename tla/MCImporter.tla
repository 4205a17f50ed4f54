---------------------------- MODULE MCImporter ----------------------------
(***************************************************************************)
(* Instances of Importer for TLC: one module of the prelude, which may be  *)
(* shadowed by a file of the program's, and modules of the program.        *)
(***************************************************************************)
EXTENDS Importer

CONSTANTS io, a, b, c

MCPrelude == <<io>>
=============================================================================
