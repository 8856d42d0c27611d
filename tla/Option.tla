------------------------------- MODULE Option -------------------------------
(***************************************************************************)
(* Option<T>: a value or None.                                             *)
(***************************************************************************)
EXTENDS Integers

CONSTANT None

ASSUME NoneIsNoNumber == None \notin Int

OptionOf(S) == S \cup {None}
=============================================================================
