--------------------------- MODULE MCSpeechPolicy ---------------------------
(***************************************************************************)
(* Two conflict keys and a revision of each of the priorities that the     *)
(* policy treats differently.                                              *)
(***************************************************************************)
EXTENDS SpeechPolicy

MCPriority == [alert |-> 0, box |-> 1, note |-> 3]
MCRevisions == DOMAIN MCPriority
MCContents == <<{"alert", "box"}, {"box", "note"}>>
=============================================================================
