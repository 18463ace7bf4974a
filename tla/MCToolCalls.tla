---------------------------- MODULE MCToolCalls ----------------------------
(* Three calls, so that one fails while another is out and a third has not   *)
(* begun, or a second round is asked for while a request of the first, given *)
(* up, is still open; a retry.                                               *)
EXTENDS ToolCalls
=============================================================================
