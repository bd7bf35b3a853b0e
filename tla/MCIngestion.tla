---------------------------- MODULE MCIngestion ----------------------------
(* A company with a contract and an invoice, and the large table, which     *)
(* takes two chunks.                                                        *)
EXTENDS Ingestion

MCMaxId ==
    [t \in Tables |-> CASE t = "user_web_logins" -> 2
                        [] t \in {"companies", "energy_contracts", "invoices"} -> 1
                        [] OTHER -> 0]
============================================================================
