----------------------------- MODULE MCLilyFlush -----------------------------
(* Instance of LilyFlush for TLC; the queues are small, a line holds 2 items. *)
EXTENDS LilyFlush
=============================================================================
