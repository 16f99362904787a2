------------------------------ MODULE TxnStatus -----------------------------
(***************************************************************************)
(* The transaction statuses that collections, deposits and payouts share   *)
(* (src/src/webhooks/txn-status.service.ts).                               *)
(***************************************************************************)

Statuses == {"PENDING", "PROCESSING", "SUCCESS", "FAILED", "REFUNDED",
             "REVERSED", "EXPIRED"}

\* EXPIRED is not among them, nor among the failures that refund a payout.
Final        == {"SUCCESS", "FAILED", "REVERSED", "REFUNDED"}
TerminalFail == {"FAILED", "REVERSED", "REFUNDED"}

\* Mutant: AUTHORIZED counts as paid.
MapProviderStatus_eager(raw) ==
    CASE raw \in {"SETTLED", "SUCCESS", "AUTHORIZED"} -> "SUCCESS"
      [] raw \in Statuses                             -> raw
      [] OTHER                                        -> "PENDING"

\* mapProviderStatus; the provider's vocabulary maps many to one, and what is
\* not known is PENDING.
MapProviderStatus(raw) ==
    CASE raw \in {"SUCCESS", "SUCCESSFUL", "SETTLED", "COMPLETED", "PAID",
                  "ACCEPTED"}                                 -> "SUCCESS"
      [] raw \in {"PROCESSING", "IN_PROGRESS", "ONGOING"}     -> "PROCESSING"
      [] raw \in {"FAILED", "REJECTED", "CANCELLED", "CANCELED", "ERROR"}
                                                              -> "FAILED"
      [] raw \in {"REFUNDED", "REVERSED"}                     -> raw
      [] raw \in {"EXPIRED", "TIMEOUT"}                       -> "EXPIRED"
      [] OTHER                                                -> "PENDING"

=============================================================================
