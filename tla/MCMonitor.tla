----------------------------- MODULE MCMonitor -----------------------------
(* Instances of Monitor for TLC: a root thread and its subagent. The root  *)
(* was itself started by a thread that is too old to be listed.            *)
EXTENDS Monitor
CONSTANTS root, child, elder
MCThreads == {root, child}
MCParent == [t \in MCThreads |-> IF t = child THEN root ELSE elder]
MCStatuses == {"active", "idle", "notLoaded"}
MCHookEvents == {"PermissionRequest", "UserPromptSubmit", "Stop"}
=============================================================================
