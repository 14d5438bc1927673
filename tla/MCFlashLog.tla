----------------------------- MODULE MCFlashLog -----------------------------
(* FlashLog with messages of up to three bytes; the other constants are in *)
(* the .cfg files.                                                         *)
EXTENDS FlashLog

SmallMessages ==
    {[len |-> 0, nl |-> FALSE]} \cup [len : 1 .. 3, nl : BOOLEAN]
=============================================================================
