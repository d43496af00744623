--------------------------- MODULE MCSharedPloop ---------------------------
(* SharedPloop with up to four disks: one that fails, and disks before and
   after it. *)
EXTENDS SharedPloop
=============================================================================
