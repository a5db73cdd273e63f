----------------------------- MODULE Fragments -----------------------------
(* What the data backends are given: the fragments of the application.     *)

CONSTANTS Frags,
          MaxVersion,  \* bound: how often the data of a fragment is written
          None
=============================================================================
