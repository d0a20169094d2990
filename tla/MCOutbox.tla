------------------------------- MODULE MCOutbox -----------------------------
(* c1 has a Brazilian number of nine digits, which the sandbox turns into  *)
(* eight although WhatsApp knows the nine; c2 cannot be reached at all.    *)
EXTENDS Outbox

CONSTANTS c1, c2

MCStored == (c1 :> "br9") @@ (c2 :> "foreign")
MCJoined == (c1 :> "br9") @@ (c2 :> "unknown")
=============================================================================
