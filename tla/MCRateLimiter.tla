--------------------------- MODULE MCRateLimiter ---------------------------
(* Three callers: one asleep with the lock, one woken or queued, one new.   *)
(* A clock that starts at 0 makes the first caller wait, a later one not.   *)
EXTENDS RateLimiterHistory
MCIntervals == {0, 2}
MCStarts == {0, 3}
=============================================================================
