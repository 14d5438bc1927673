----------------------------- MODULE MCTimeouts -----------------------------
(***************************************************************************)
(* Timeouts alone for TLC, with one cyclic timer and a main loop that      *)
(* calls sys_check_timeouts once in every tick.                            *)
(***************************************************************************)
EXTENDS Timeouts

OneCyclic == [arp |-> 3]

PromptNext == TimersNext /\ time' - since' <= 1

PromptSpec == TimersInit /\ [][PromptNext]_timer_vars
=============================================================================
