---------------------------- MODULE MCJobListing ----------------------------
(***************************************************************************)
(* An instance of JobListing for TLC: two pages, and ties across them.     *)
(***************************************************************************)
EXTENDS JobListing

CONSTANTS j1, j2, j3, j4
=============================================================================
