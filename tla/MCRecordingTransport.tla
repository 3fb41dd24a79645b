------------------------ MODULE MCRecordingTransport ------------------------
(***************************************************************************)
(* A small instance of RecordingTransport: two sends, a client that may  *)
(* send a handshake, an ordinary request, the armed call or a call with    *)
(* other parameters, and a server that may answer, change its catalog or   *)
(* send a message the JSON bounds refuse.                                  *)
(***************************************************************************)
EXTENDS RecordingTransport

CONSTANTS p1, p2, s1, s2, none

MCSends == {s1, s2}

MCParams == {p1, p2}

Msg(k, p, n, b) == [kind |-> k, params |-> p, size |-> n, bounded |-> b]

MCClientMsgs ==
  {Msg("initialize", p1, 1, TRUE), Msg("tools/call", p1, 1, TRUE),
   Msg("tools/call", p2, 1, TRUE)}

MCServerMsgs ==
  {Msg("list_changed", p1, 1, TRUE), Msg("other", p1, 2, TRUE),
   Msg("other", p2, 1, FALSE)}

=============================================================================
