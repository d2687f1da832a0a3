--------------------------- MODULE DeliveryLedger ---------------------------
(***************************************************************************)
(* What alert delivery promises, whoever leads: a delivery key is claimed  *)
(* once, the claim leads to at most one call of the notifier, and only     *)
(* after that call does the record say how it ended.  Nothing is promised  *)
(* about a claim whose claimant died: it may stay pending for ever.        *)
(***************************************************************************)
EXTENDS Naturals

CONSTANT Keys

VARIABLES
    status,     \* the alert_deliveries row of every key
    calls       \* calls of notifier.Send made for it

LedgerInit ==
    /\ status = [k \in Keys |-> "unclaimed"]
    /\ calls = [k \in Keys |-> 0]

Claim(k) ==
    /\ status[k] = "unclaimed"
    /\ status' = [status EXCEPT ![k] = "pending"]
    /\ UNCHANGED calls

Call(k) ==
    /\ status[k] = "pending"
    /\ calls[k] = 0
    /\ calls' = [calls EXCEPT ![k] = 1]
    /\ UNCHANGED status

Record(k) ==
    /\ status[k] = "pending"
    /\ calls[k] = 1
    /\ \E end \in {"sent", "failed"} : status' = [status EXCEPT ![k] = end]
    /\ UNCHANGED calls

LedgerNext == \E k \in Keys : Claim(k) \/ Call(k) \/ Record(k)

LedgerSpec == LedgerInit /\ [][LedgerNext]_<<status, calls>>

=============================================================================
