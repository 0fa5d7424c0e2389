----------------------------- MODULE MCWorkflow -----------------------------
(***************************************************************************)
(* Workflows of three steps for TLC: every declaration of dependencies,    *)
(* cycles and steps that depend on themselves included, over two mixes of  *)
(* gates and failure policies.                                             *)
(***************************************************************************)
EXTENDS Workflow

MCDependencies == [Steps -> SUBSET Steps]

Gate == [kind |-> "gate", retries |-> 0, onFailure |-> "fail"]
Tool(n, policy) == [kind |-> "tool", retries |-> n, onFailure |-> policy]

MCProfiles ==
    {<<Tool(0, "fail"), Gate, Tool(1, "skip")>>,
     <<Tool(1, "fail"), Tool(0, "compensate"), Tool(0, "skip")>>}
============================================================================
