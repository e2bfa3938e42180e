----------------------------- MODULE MCTaskLoop -----------------------------
(***************************************************************************)
(* Small instances of TaskLoop.  One caller, which stands for any that     *)
(* waits for the loop, and a channel for one batch, full as soon as the    *)
(* publisher falls behind by two.                                          *)
(***************************************************************************)
EXTENDS TaskLoop
=============================================================================
