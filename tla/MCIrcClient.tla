---------------------------- MODULE MCIrcClient ----------------------------
(***************************************************************************)
(* Small instances of IrcClient.                                           *)
(***************************************************************************)
EXTENDS IrcClient, SequencesExt

\* PINGs around the size of the response buffer and around 256.
SmallMessages ==
    {[kind |-> k, len |-> 0] : k \in {"NOTICE AUTH", "PRIVMSG", "quote"}}
    \cup {[kind |-> "PING", len |-> n] : n \in {30, 31, 256}}

\* Segments of up to two such lines.
SmallSegments == SeqOf(SmallMessages, 2)

\* One message of each kind that matters to the life of the connection.
FewMessages ==
    {[kind |-> "NOTICE AUTH", len |-> 0], [kind |-> "PING", len |-> 20]}

FewSegments == SeqOf(FewMessages, 2)
=============================================================================
