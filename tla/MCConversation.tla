--------------------------- MODULE MCConversation ---------------------------
(* MCConversation.cfg: two turns of a session, with a restart and a save     *)
(* that fails.  They follow one another, and the limit lets a turn hand over *)
(* once and answer, or run out of steps; or they overlap, and answer at once *)
(* or run out of steps, without a restart.  MCOverlap.cfg: turns that        *)
(* overlap and hand over.                                                    *)
EXTENDS Conversation

MCSetups == {[limit |-> 3, patient |-> TRUE, restarts |-> 1],
             [limit |-> 1, patient |-> FALSE, restarts |-> 0]}
MCImpatient == {[limit |-> 3, patient |-> FALSE, restarts |-> 0]}
=============================================================================
