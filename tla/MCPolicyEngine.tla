--------------------------- MODULE MCPolicyEngine ---------------------------
(* PolicyEngine with one worker thread, two calls and two rule lists.      *)
EXTENDS PolicyEngine, TLC

CONSTANTS main, worker

Owner == [tool |-> "shell", channel |-> "webui", trust_level |-> "owner_paired", params |-> "sudo"]
Guest == [tool |-> "shell", channel |-> "webui", trust_level |-> "user_paired", params |-> "plain"]
MCCalls == {Owner, Guest}

All == {"sudo", "plain"}
AllowShell == [tool |-> "shell", channel |-> "*", trust_level |-> "*", condition |-> All,
               action |-> "allow"]
DenySudo == [tool |-> "*", channel |-> "webui", trust_level |-> "*", condition |-> {"sudo"},
             action |-> "deny"]
Approve == [tool |-> "shell", channel |-> "*", trust_level |-> "user_paired", condition |-> All,
            action |-> "require_approval"]

(* A deny after an allow, and an approval before an allow.                 *)
MCPolicies == {<<AllowShell, DenySudo>>, <<Approve, AllowShell>>}
MCWorkers == {worker}
=============================================================================
