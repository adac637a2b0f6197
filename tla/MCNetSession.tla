---- MODULE MCNetSession ----
\* A disc of three sectors of two bytes, blocks of two sectors, one read of the
\* caller's own: replies of 5 to 11 bytes that arrive in chunks of 1 to 4.
EXTENDS NetSession
====
