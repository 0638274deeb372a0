----------------------------- MODULE MCGateway -----------------------------
(* Small instances of Gateway for the model checker. *)
EXTENDS Gateway, TLC

CONSTANTS acc, opp

\* One of each that is allowed, needs a person and is refused, and a second
\* draft, so that two actions call one tool through two sibling clients.
DraftingActions == <<"crm_task", "email_draft", "email_draft", "send_email_direct">>

At(t) == [account |-> acc, at |-> t]

Week(t, n) == [account |-> acc, at |-> t, until |-> t + 1, events |-> n]

Row(t, kind) == [account |-> acc, at |-> t, kind |-> kind]

Issue(t, status) == [account |-> acc, at |-> t, status |-> status]

(* What the sources tell apart: more activities than the limit, a week     *)
(* after a week without events, a closed issue among the open ones.        *)
Rich ==
  [accounts |-> {acc}, owner |-> opp :> acc, profiles |-> {},
   activities |-> {At(1), At(2), At(3)},
   usage |-> {Week(1, 0), Week(3, 5), Week(5, 7)},
   engagement |-> {Row(2, "opened"), Row(1, "sent")},
   issues |-> {Issue(1, "open"), Issue(2, "closed"), Issue(3, "pending")}]

\* A meeting among the emails; fewer activities than the limit; nothing to read.
SmallMirrors ==
  {Rich,
   [Rich EXCEPT !.engagement = {Row(1, "sent"), Row(2, "meeting_held"), Row(3, "sent")}],
   [Rich EXCEPT !.activities = {At(2)}, !.usage = {Week(1, 4)}],
   [Rich EXCEPT !.activities = {}, !.usage = {}, !.engagement = {}, !.issues = {}]}

\* The flagship plan, and a selection of it that asks for a source twice.
TwoSelections ==
  {<<"crm_get_opportunity", "crm_list_account_activities", "product_get_usage_summary",
     "engagement_get_email_activity", "support_get_open_issues">>,
   <<"support_get_open_issues", "crm_get_opportunity", "support_get_open_issues">>}

\* No failure, as the runner binds; a read that fails; a draft that fails twice,
\* three times; a task refused for its budget.
SomeScripts ==
  {<<>>,
   <<"support_get_open_issues", 2>> :> "RATE_LIMITED",
   [at \in {"messaging_create_email_draft"} \X (1 .. 2) |-> "ADAPTER_ERROR"],
   [at \in {"messaging_create_email_draft"} \X (1 .. 3) |-> "TIMEOUT"],
   <<"crm_create_task", 1>> :> "BUDGET_EXCEEDED"}
=============================================================================
