--------------------------- MODULE MCTelegramIngress ---------------------------
(* One message of any traits beside an authorized document.                  *)
EXTENDS TelegramIngress, TLC

CONSTANTS m1, m2

Plainly == [chat |-> "private", user |-> TRUE, listed |-> TRUE, topic |-> FALSE,
            addressed |-> "us", kind |-> "document", caption |-> TRUE, reply |-> FALSE]
MCArrivals == {(m1 :> t) @@ (m2 :> Plainly) : t \in Trait}
=============================================================================
