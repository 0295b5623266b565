----------------------------- MODULE FactsRecord -----------------------------
(***************************************************************************)
(* What the agent has on record as sent of its facts, and what the server  *)
(* has: the part of Facts its promise is about.                            *)
(***************************************************************************)
CONSTANT Blocks  \* the blocks looked at

VARIABLES
    known,     \* st.Config, the fields of facts.go
    saved,     \* config.json
    holds,     \* external: the block the server has
    unsettled  \* history: blocks the server took, or dropped, unrecorded

None == {"no block"}

EmptyList(b, value) == b = "software" /\ value = {}

(* What the agent has on record as sent, in memory or in config.json, is   *)
(* what the server has (facts.go:135-136), or the server has lost it and   *)
(* will ask.  Exempt are blocks the server took, or dropped, in a poll     *)
(* whose outcome did not reach config.json, and an empty program list,     *)
(* which is recorded and never sent (client.go, "software,omitempty").     *)
RecordedIsHeld ==
    \A b \in Blocks \ unsettled : \A c \in {known, saved} :
        c.hash[b] \notin {None, holds[b]} => holds[b] = None \/ EmptyList(b, c.hash[b])
=============================================================================
