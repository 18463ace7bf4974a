---------------------------- MODULE MCHttpClient ---------------------------
EXTENDS HttpClient
MCIntervals == {0, 2}
MCStarts == {2}
=============================================================================
