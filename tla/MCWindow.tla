-------------------------------- MODULE MCWindow --------------------------------
(***************************************************************************)
(* A small machine for the window and one check: one drive, so that nobody *)
(* else changes the current directory, and a definition without files.     *)
(***************************************************************************)
EXTENDS MCEngine, Window

\* The bar with more work than it has units, and with less: work of 12.
MCFull == {5, 100}

\* A key with a value that is present.
PresentKey == <<Key1(run2, <<v2>>)>>

FilesFirst == << <<f, g, h>>, <<>> >>
================================================================================
