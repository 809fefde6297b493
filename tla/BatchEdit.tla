------------------------------ MODULE BatchEdit ------------------------------
(***************************************************************************)
(* What a batch of edits promises: the files hold what they held before,   *)
(* until all of them hold at once what the batch makes of them.            *)
(***************************************************************************)
VARIABLES files, committed

vars == <<files, committed>>

Init == files = [path \in DOMAIN files |-> files[path]] /\ committed = FALSE

Commit ==
    /\ ~committed /\ committed'
    /\ files' = [path \in DOMAIN files |-> files'[path]]

Spec == Init /\ [][Commit]_vars
=============================================================================
