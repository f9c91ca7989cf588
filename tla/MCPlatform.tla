----------------------------- MODULE MCPlatform -----------------------------
(***************************************************************************)
(* Accounts, TokenQuota, UsageReports and AgentHooks for TLC.  They share   *)
(* no state: which of them moves is chosen initially.  Accounts is run with *)
(* requests about users, and instantiated for requests about keys and about *)
(* organisations; AgentHooks is run with writes of denylist and rules, and  *)
(* instantiated for writes of settings.                                     *)
(***************************************************************************)
EXTENDS TokenQuota, UsageReports, Accounts, AgentHooks, TLC

CONSTANTS r1, r2, c1, c2, c3, p1, p2, p3,       \* requests, calls and reports
          admin, manager, user, hired, k1, k2, o1, o2, e1, u1, u2,
          Which                                 \* the components that are run

VARIABLE which

MCOrgOf == [id \in {admin, manager, user, hired, k1, k2, o1, o2} |->
              IF id \in {hired, o2} THEN o2 ELSE o1]
MCOwnerOf == (k1 :> user) @@ (k2 :> manager)
MCRoleOf == (admin :> "admin") @@ (manager :> "resource_manager") @@ (user :> "user")
            @@ (hired :> "user")

(* Callers: a token, an API key, and a password. *)
Token(u) == [kind |-> "jwt", user |-> u, role |-> MCRoleOf[u], org |-> MCOrgOf[u]]
ApiKey(n) == [kind |-> "key", key |-> k1, secret |-> n]
Password(u) == [kind |-> "password", user |-> u, role |-> "none", org |-> MCOrgOf[u]]

NoColumns == [c \in {} |-> 0]
Plan(op, by, id, cols) == [op |-> op, by |-> by, id |-> id, cols |-> cols]

UserPlans ==
    {Plan("update_user", Token(manager), id, [other |-> 1]) : id \in {user, hired}}
    \cup {Plan("update_user", by, user, [role |-> "admin", enabled |-> TRUE]) :
            by \in {Token(manager), Token(admin)}}
    \cup {Plan("set_user_quota", Token(manager), user, [other |-> 0]),
          Plan("delete_user", Token(admin), user, NoColumns),
          Plan("enable_user", Token(manager), user, NoColumns),
          Plan("login", Password(user), user, NoColumns),
          Plan("change_password", Token(user), user, [other |-> 1]),
          Plan("create_user", Token(admin), hired, [role |-> "user"])}

KeyPlans ==
    {Plan("update_key", by, k1, [other |-> 1]) :
       by \in {ApiKey(0), ApiKey(1), Token(user), Token(manager)}}
    \cup {Plan("update_key", Token(manager), k1, [enabled |-> TRUE]),
          Plan("update_key", Token(user), k2, [enabled |-> TRUE]),
          Plan("create_key", Token(manager), k2, NoColumns),
          Plan("create_key", Token(user), k2, NoColumns),
          Plan("delete_key", Token(user), k1, NoColumns),
          Plan("rotate_key", ApiKey(0), k1, NoColumns),
          Plan("set_key_quota", Token(manager), k1, [other |-> 0]),
          Plan("delete_user", Token(admin), user, NoColumns)}

OrgPlans ==
    {Plan("create_user", by, hired, [role |-> "admin"]) : by \in {Token(admin), Token(manager)}}
    \cup {Plan("create_org", Token(admin), o2, NoColumns),
          Plan("update_org", Token(admin), o2, [enabled |-> TRUE]),
          Plan("update_org", Token(manager), o1, [other |-> 1]),
          Plan("set_org_quota", Token(admin), o2, [other |-> 1]),
          Plan("delete_org", Token(admin), o2, NoColumns)}

UserInitial == {admin, manager, user, k1, o1, o2}
FewInitial == {admin, manager, user, k1, o1}

K == INSTANCE Accounts WITH Initial <- FewInitial, Plans <- KeyPlans
G == INSTANCE Accounts WITH Initial <- FewInitial, Plans <- OrgPlans

(* Three calls around a midnight that begins a month. *)
MCMonthOf == <<1, 2>>

(* Two users of an organisation whose free tier is for one. *)
MCUserOf == (p1 :> user) @@ (p2 :> user) @@ (p3 :> manager)
MCTokens == (p1 :> 2) @@ (p2 :> 2) @@ (p3 :> 1)

MCBodies == {[on |-> "on", fail |-> "closed"], [fail |-> "open"], [on |-> "off"],
             [on |-> Inherit, fail |-> Inherit]}

(* One tool call of a member of o1. *)
MCTenantOf == e1 :> o1

S == INSTANCE AgentHooks WITH
       Upserts <- {u1, u2}, Writable <- {"configs", "policies"}, Bodies <- MCBodies

vars == <<avars, qvars, uvars, gvars, which>>

Init == /\ which \in Which
        /\ IF which = "users" THEN AccInit ELSE K!AccInit
        /\ QuotaInit
        /\ UsageInit /\ (which # "reports" => ~licensed)
        /\ IF which = "rules" THEN HooksInit ELSE S!HooksInit

Next == /\ UNCHANGED which
        /\ \/ which = "users" /\ AccNext /\ UNCHANGED <<qvars, uvars, gvars>>
           \/ which = "keys" /\ K!AccNext /\ UNCHANGED <<qvars, uvars, gvars>>
           \/ which = "orgs" /\ G!AccNext /\ UNCHANGED <<qvars, uvars, gvars>>
           \/ which = "quota" /\ QuotaNext /\ UNCHANGED <<avars, uvars, gvars>>
           \/ which = "reports" /\ UsageNext /\ UNCHANGED <<avars, qvars, gvars>>
           \/ which = "rules" /\ HooksNext /\ UNCHANGED <<avars, qvars, uvars>>
           \/ which = "settings" /\ S!HooksNext /\ UNCHANGED <<avars, qvars, uvars>>

Spec == Init /\ [][Next]_vars

(* Calls of process_usage are alike. *)
Symmetry == Permutations({c1, c2, c3})
-----------------------------------------------------------------------------
TypeOK == /\ CASE which = "users" -> AccountsTypeOK
              [] which = "keys" -> K!AccountsTypeOK
              [] OTHER -> G!AccountsTypeOK
          /\ QuotaTypeOK /\ UsageTypeOK /\ HooksTypeOK
=============================================================================
