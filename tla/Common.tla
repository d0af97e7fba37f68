------------------------------- MODULE Common -------------------------------
(* What the modules of the platform's independent parts share. *)

CONSTANT None   \* no row, no time, nobody
=============================================================================
