----------------------------- MODULE MCConsole -----------------------------
(* A small instance of Console for the model checker. *)
EXTENDS Console

\* The flagship run, and one with fewer sources and no task.
SmallReports ==
  {[evidence |-> <<"crm_get_opportunity", "product_get_usage_summary", "support_get_open_issues">>,
    cites |-> <<{1, 3}, {2}>>, actions |-> <<"crm_task", "email_draft", "send_email_direct">>,
    scores |-> <<3, 2, 1>>, weighted |-> 3, atRisk |-> 2, cost |-> 2],
   [evidence |-> <<"crm_get_opportunity", "support_get_open_issues">>,
    cites |-> <<{1}, {1, 2}>>, actions |-> <<"crm_field_update", "send_email_direct">>,
    scores |-> <<2, 2>>, weighted |-> 2, atRisk |-> 1, cost |-> 1]}
=============================================================================
