--------------------------- MODULE MCMovieSession ---------------------------
EXTENDS MovieSession
=============================================================================
