------------------------------ MODULE MCLedger ------------------------------
(* Instances of Ledger for TLC: at most one key per kind of document.      *)
EXTENDS Ledger

CONSTANTS kx, kv, km, ka, past

MCKindOf == [k \in Key |-> CASE k = kx -> "expense"
                             [] k = kv -> "voucher"
                             [] k = km -> "manual"
                             [] k = ka -> "accident"]
\* Connections drop anywhere but between the updates of a bare reversal, and not at
\* its gate: there a drop and a refusal look the same, and a drop at the statement
\* before leaves the same rows behind.
BetweenStatements == Step \ {"idle", "revGate", "rewind", "clearFlag"}
MCPostingDate == [k \in Key |-> IF k \in {kx, km} THEN past ELSE Today]
=============================================================================
