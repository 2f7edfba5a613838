------------------------------- MODULE MCSync -------------------------------
(* One message where every list fits its record: then what plan() does     *)
(* with one entry does not depend on the others.  Two where one fits.      *)
EXTENDS SyncSession
=============================================================================
