--------------------------- MODULE MCSelectorAudit ---------------------------
(* Model checking of SelectorAudit: a contract with a name and its interface,
   and a contract that no registry lists. *)
EXTENDS SelectorAudit, TLC

Artifacts == "Core" :> {"f", "g"} @@ "ICore" :> {"f"}
Scripts == "core" :> {"f", "g"} @@ "orphan" :> {"g"}
Names == "core" :> "Core" @@ "orphan" :> "Core"
\* The unlisted contract is mapped by a helper that the lint does not read.
Unread == {"orphan"} \X {"f", "g"}
=============================================================================
