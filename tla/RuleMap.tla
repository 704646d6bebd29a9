------------------------------ MODULE RuleMap ------------------------------
(***************************************************************************)
(* What PermissionRuleStore promises: one rule for each address in its     *)
(* namespace (a session, a project, or the one global namespace), and every*)
(* operation applied to all of it at once.  Each rule keeps the session    *)
(* that wrote it, which only the legacy clear_rules looks at.              *)
(***************************************************************************)
EXTENDS Naturals

CONSTANTS Contexts,   \* the PermissionRuleContexts in use
          Rules,      \* the durable RememberedRules
          None        \* Option::None

VARIABLE rules

Namespace(context, scope) ==
    [scope |-> scope, owner |-> CASE scope = "session" -> context.session
                                  [] scope = "project" -> context.project
                                  [] OTHER -> None]

Within(context, scope) == {e \in rules : e.namespace = Namespace(context, scope)}

Entry(context, rule) ==
    [namespace |-> Namespace(context, rule.scope), key |-> rule.key,
     allow |-> rule.allow, reason |-> rule.reason, by |-> context.session]

At(context, rule) == {e \in Within(context, rule.scope) : e.key = rule.key}

upsert_rule(context, rule) == rules' = (rules \ At(context, rule)) \union {Entry(context, rule)}
revoke_rule(context, rule) == rules' = rules \ At(context, rule)
clear_scope(context, scope) == rules' = rules \ Within(context, scope)
clear_rules(context) == rules' = {e \in rules : e.by # context.session}
save_rules(context, rule) ==
    rules' = ((rules \ Within(context, "session")) \ At(context, rule)) \union {Entry(context, rule)}

Init == rules = {}

Next ==
    \E context \in Contexts :
        \/ \E rule \in Rules :
            /\ rule.scope = "project" => context.project # None
            /\ upsert_rule(context, rule) \/ revoke_rule(context, rule) \/ save_rules(context, rule)
        \/ \E scope \in {"session", "project", "global"} :
            /\ scope = "project" => context.project # None
            /\ clear_scope(context, scope)
        \/ clear_rules(context)

Spec == Init /\ [][Next]_rules
=============================================================================
