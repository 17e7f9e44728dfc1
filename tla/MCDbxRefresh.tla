---------------------------- MODULE MCDbxRefresh ----------------------------
(* DbxRefresh with an embedded DBX for the first architecture and none for *)
(* the others: dbx_info has some of both.                                  *)
EXTENDS DbxRefresh

MCEmbedded == [a \in Archs |-> IF a = 0 THEN 1 ELSE 0]
=============================================================================
