----------------------------- MODULE AgentHooks -----------------------------
(***************************************************************************)
(* The decision on a tool call of a developer's agent: the chain of the     *)
(* HooksPolicyEngine (denylist, hook rules, opt-in content scan under the   *)
(* resolved security policy), and the management endpoints that write the   *)
(* tables it reads, one scope after the other, each in a query of its own.  *)
(*                                                                          *)
(* The resolvers' Valkey caches are no part of the state: the management    *)
(* service hands them a synchronous client, so that every awaited GET       *)
(* raises and counts as a miss, and so does the SCAN of an invalidation.    *)
(*                                                                          *)
(* Only rows that match the tool call matter.  The rows of a table are      *)
(* numbered; of the settings, the ones that decide what an outage leads to  *)
(* are kept.  A row's scope never changes, so that the check of it and the  *)
(* write after it are one step.                                             *)
(***************************************************************************)
EXTENDS Integers, Sequences, FiniteSets

CONSTANTS
    Tenants,
    Global, Tool,       \* the scopes that are not an organisation
    Evals, TenantOf,    \* evaluations, and the caller's organisation
    Upserts,            \* upserts in progress
    Numbers,            \* rows of a table
    Writable,           \* the tables that are written
    Bodies,             \* what a request may set of the settings
    MaxWrites,          \* bound on the writes begun in a behaviour
    Missing, Inherit    \* no row; a field that is NULL

ASSUME HooksAssumption ==
    /\ Global \notin Tenants /\ TenantOf \in [Evals -> Tenants]
    /\ 0 \notin Numbers /\ Inherit # "closed"

VARIABLES
    tables,     \* tables[t][i]: a scope and a value, or Missing
    ev,         \* ev[e]: an evaluation
    ups,        \* ups[u]: an upsert between its select and its write
    writes,     \* the number of writes begun so far
    stood       \* history: stood[e]: the rows of e's scopes that nobody who
                \* may write them has written since e began

gvars == <<tables, ev, ups, writes, stood>>

AllTables == {"denylist", "rules", "configs", "policies"}
Settings == {"configs", "policies"}
Decisions == {"allow", "ask", "deny"}
Severity == [d \in Decisions |-> IF d = "deny" THEN 2 ELSE IF d = "ask" THEN 1 ELSE 0]
NoMatch == "no match"

(* What holds where no row says otherwise. *)
Floor == [t \in Settings |-> IF t = "configs" THEN [on |-> "off", fail |-> "open"]
                             ELSE [on |-> "on", fail |-> "degrade"]]

NewEval == [at |-> "idle", left |-> <<>>, matched |-> {}, conf |-> Floor["configs"],
            pol |-> Floor["policies"], failed |-> FALSE, decision |-> "none"]

(* The migration seeds the global security policy. *)
HooksInit ==
    /\ tables = [t \in AllTables |-> [i \in Numbers |->
                 IF t = "policies" /\ i = 1 THEN [scope |-> Global, val |-> Floor[t]] ELSE Missing]]
    /\ ev = [e \in Evals |-> NewEval]
    /\ ups = [u \in Upserts |-> Missing]
    /\ writes = 0
    /\ stood = [e \in Evals |-> {}]

RowsAt(t, s) == {i \in Numbers : tables[t][i] # Missing /\ tables[t][i].scope = s}

(* A number is not given again while an upsert refers to it. *)
Free(t) == {i \in Numbers : /\ tables[t][i] = Missing
                        /\ \A u \in Upserts : ups[u] # Missing => <<ups[u].table, ups[u].found>> # <<t, i>>}
-----------------------------------------------------------------------------
(* The evaluation. *)

(* The scopes a resolver reads, the most general first. *)
ScopeChain(t, o) == IF t = "policies" THEN <<Global, o, Tool>> ELSE <<Global, o>>

Enter(x, e, t) == [x EXCEPT !.at = t, !.left = ScopeChain(t, TenantOf[e])]
Decided(x, d) == [x EXCEPT !.at = "done", !.left = <<>>, !.decision = d]
IsLast(e) == Len(ev[e].left) = 1

Go(e, x) == ev' = [ev EXCEPT ![e] = x] /\ UNCHANGED <<tables, ups, writes, stood>>

(* evaluate_hook: with the feature flag off every call is allowed, and a    *)
(* malformed one is refused.  A built-in pattern may match whatever the     *)
(* tables hold.                                                             *)
BeginHook(e) ==
    /\ ev[e].at = "idle"
    /\ \/ /\ \E d \in {"off", "error"} : ev' = [ev EXCEPT ![e] = Decided(@, d)]
          /\ UNCHANGED stood
       \/ /\ \E builtin \in SUBSET {"deny"} :
               ev' = [ev EXCEPT ![e] = [Enter(@, e, "denylist") EXCEPT !.matched = builtin]]
          /\ stood' = [stood EXCEPT ![e] =
                         {<<k[1], k[2], tables[k[1]][k[2]]>> :
                            k \in {k \in AllTables \X Numbers : tables[k[1]][k[2]] # Missing}}]
    /\ UNCHANGED <<tables, ups, writes>>

Matched(e, t) ==
    ev[e].matched \cup ({tables[t][i].val : i \in RowsAt(t, Head(ev[e].left))} \ {NoMatch})

(* HookDenylistResolver, one query per scope; a hit ends the evaluation. *)
ReadDenylist(e) ==
    LET x == [ev[e] EXCEPT !.left = Tail(@), !.matched = Matched(e, "denylist")] IN
    /\ ev[e].at = "denylist"
    /\ Go(e, IF ~IsLast(e) THEN x
             ELSE IF x.matched # {} THEN Decided(x, "deny") ELSE Enter(x, e, "rules"))

(* A mutant of Winner: an allow outranks what other scopes say. *)
WinnerLenient(m) == CHOOSE d \in m : \A c \in m : Severity[d] <= Severity[c]

(* combine_hook_rule_matches *)
Winner(m) == CHOOSE d \in m : \A c \in m : Severity[c] <= Severity[d]

ReadRules(e) ==
    LET x == [ev[e] EXCEPT !.left = Tail(@), !.matched = Matched(e, "rules")] IN
    /\ ev[e].at = "rules"
    /\ Go(e, IF ~IsLast(e) THEN x
             ELSE IF x.matched # {} THEN Decided(x, Winner(x.matched)) ELSE Enter(x, e, "configs"))

(* A field that is set at a scope replaces that of the more general ones;   *)
(* of several rows for a scope any may come first.                          *)
Merge(old, val) == [f \in DOMAIN old |-> IF val[f] = Inherit THEN old[f] ELSE val[f]]

Merged(t, s, old) ==
    IF RowsAt(t, s) = {} THEN {old} ELSE {Merge(old, tables[t][i].val) : i \in RowsAt(t, s)}

ReadConfig(e) ==
    /\ ev[e].at = "configs"
    /\ \E c \in Merged("configs", Head(ev[e].left), ev[e].conf) :
         LET x == [ev[e] EXCEPT !.left = Tail(@), !.conf = c] IN
         Go(e, IF ~IsLast(e) THEN x
               ELSE IF c.on = "on" THEN Enter(x, e, "policies") ELSE Decided(x, "allow"))

ReadPolicy(e) ==
    /\ ev[e].at = "policies"
    /\ \E p \in Merged("policies", Head(ev[e].left), ev[e].pol) :
         LET x == [ev[e] EXCEPT !.left = Tail(@), !.pol = p] IN
         Go(e, IF IsLast(e) THEN [x EXCEPT !.at = "scan"] ELSE x)

(* The content filter's action, and what the hook makes of it. *)
Actions == {"allow", "flag", "redact", "block"}
ToDecision(a) == IF a = "block" THEN "deny" ELSE IF a = "allow" THEN "allow" ELSE "ask"

(* The auditor can only raise what the other tiers say; without an answer   *)
(* of it the policy's fail mode decides.                                    *)
Verdict(p, tiers, auditor) ==
    IF p.on = "off" \/ auditor = "allow" THEN tiers
    ELSE IF auditor = "block" THEN "block"
    ELSE IF p.fail = "closed" THEN "block" ELSE IF p.fail = "open" THEN "allow" ELSE tiers

Scan(e) ==
    /\ ev[e].at = "scan"
    /\ \E tiers \in Actions, auditor \in {"allow", "block", "none"} :
         Go(e, Decided(ev[e], ToDecision(Verdict(ev[e].pol, tiers, auditor))))

(* The scan takes longer than its timeout, or it or the read of the         *)
(* policies raises.                                                         *)
ScanFails(e) ==
    /\ ev[e].at \in {"policies", "scan"}
    /\ Go(e, [Decided(ev[e], IF ev[e].conf.fail = "closed" THEN "deny" ELSE "allow")
              EXCEPT !.failed = TRUE])

(* Another read raises: the adapter gets no decision. *)
ReadFails(e) ==
    /\ ev[e].at \in {"denylist", "rules", "configs"}
    /\ Go(e, Decided(ev[e], "error"))

Evaluate(e) == \/ BeginHook(e) \/ ReadDenylist(e) \/ ReadRules(e) \/ ReadConfig(e) \/ ReadPolicy(e)
               \/ Scan(e) \/ ScanFails(e) \/ ReadFails(e)
-----------------------------------------------------------------------------
(* The endpoints.  A caller is Global, an admin, or an organisation, its    *)
(* resource manager, who may write his organisation's hooks.                *)
Callers == Tenants \cup {Global}
Scopes(t) == Tenants \cup {Global} \cup (IF t = "policies" THEN {Tool} ELSE {})
Owns(x, t, s) == x = Global \/ (t # "policies" /\ x = s)

WriteScopeAllowed(x, t, s) == x = Global \/ (t # "policies" /\ x = s)

Put(x, t, i, row) ==
    /\ tables' = [tables EXCEPT ![t][i] = row]
    /\ stood' = [e \in Evals |-> {y \in stood[e] :
                   <<y[1], y[2]>> = <<t, i>> => ~Owns(x, t, y[3].scope)}]
    /\ UNCHANGED ev

Count(t) == t \in Writable /\ writes < MaxWrites /\ writes' = writes + 1

CreateRule(x) ==
    \E s \in Scopes("rules"), i \in Free("rules"), d \in Decisions :
      /\ x \in {Global, s}
      /\ Count("rules") /\ Put(x, "rules", i, [scope |-> s, val |-> d]) /\ UNCHANGED ups

(* Any column but the scope, so that the rule may match no more. *)
UpdateRule(x, i) ==
    /\ tables["rules"][i] # Missing /\ WriteScopeAllowed(x, "rules", tables["rules"][i].scope)
    /\ \E d \in Decisions \cup {NoMatch} : Put(x, "rules", i, [tables["rules"][i] EXCEPT !.val = d])
    /\ Count("rules") /\ UNCHANGED ups

CreateEntry(x) ==
    \E s \in Scopes("denylist"), i \in Free("denylist") :
      /\ x \in {Global, s}
      /\ Count("denylist") /\ Put(x, "denylist", i, [scope |-> s, val |-> "deny"]) /\ UNCHANGED ups

(* hook_configs has no endpoint to delete a row. *)
Delete(x, t, i) ==
    /\ t # "configs" /\ tables[t][i] # Missing /\ WriteScopeAllowed(x, t, tables[t][i].scope)
    /\ Count(t) /\ Put(x, t, i, Missing) /\ UNCHANGED ups

(* A request's body replaces the fields it names. *)
Set(old, body) == [f \in DOMAIN old |-> IF f \in DOMAIN body THEN body[f] ELSE old[f]]

UpdatePolicy(x, i) ==
    /\ tables["policies"][i] # Missing /\ WriteScopeAllowed(x, "policies", tables["policies"][i].scope)
    /\ \E b \in Bodies : Put(x, "policies", i, [tables["policies"][i] EXCEPT !.val = Set(@, b)])
    /\ Count("policies") /\ UNCHANGED ups

(* An upsert looks for the row of its scope ... *)
UpsertSelect(u, x, t) ==
    /\ ups[u] = Missing
    /\ \E s \in Scopes(t), b \in Bodies :
         /\ WriteScopeAllowed(x, t, s)
         /\ \E i \in IF RowsAt(t, s) = {} THEN {0} ELSE RowsAt(t, s) :
              ups' = [ups EXCEPT ![u] = [by |-> x, table |-> t, scope |-> s, body |-> b, found |-> i]]
    /\ Count(t) /\ UNCHANGED <<tables, ev, stood>>

(* ... and updates it, or inserts one.  The unique constraint refuses a     *)
(* second row, except for the global scope, whose scope_ref is NULL.        *)
UpsertWrite(u) ==
    LET q == ups[u]
        new == [scope |-> q.scope, val |-> Set([on |-> Inherit, fail |-> Inherit], q.body)]
    IN  /\ q # Missing
        /\ ups' = [ups EXCEPT ![u] = Missing]
        /\ \/ /\ q.found # 0 /\ tables[q.table][q.found] # Missing
              /\ Put(q.by, q.table, q.found, [tables[q.table][q.found] EXCEPT !.val = Set(@, q.body)])
           \/ /\ q.found = 0 /\ (q.scope = Global \/ RowsAt(q.table, q.scope) = {})
              /\ \E i \in Free(q.table) : Put(q.by, q.table, i, new)
           \/ /\ IF q.found # 0 THEN tables[q.table][q.found] = Missing
                  ELSE q.scope # Global /\ RowsAt(q.table, q.scope) # {}
              /\ UNCHANGED <<tables, ev, stood>>
        /\ UNCHANGED writes

HooksNext ==
    \/ \E e \in Evals : Evaluate(e)
    \/ \E x \in Callers : CreateRule(x) \/ CreateEntry(x)
    \/ \E x \in Callers, i \in Numbers : UpdateRule(x, i) \/ UpdatePolicy(x, i)
    \/ \E x \in Callers, t \in AllTables, i \in Numbers : Delete(x, t, i)
    \/ \E u \in Upserts, x \in Callers, t \in Settings : UpsertSelect(u, x, t)
    \/ \E u \in Upserts : UpsertWrite(u)

HooksSpec == HooksInit /\ [][HooksNext]_gvars
-----------------------------------------------------------------------------
(* The variables have their types. *)
HooksTypeOK ==
    /\ \A t \in AllTables, i \in Numbers : tables[t][i] # Missing => tables[t][i].scope \in Scopes(t)
    /\ \A e \in Evals : ev[e].decision \in Decisions \cup {"none", "off", "error"}
    /\ writes \in 0..MaxWrites

(* However rows are written while an evaluation reads one scope after the   *)
(* other, its decision is at least as severe as every rule, global or of    *)
(* its organisation, that stood all along, a deny where an entry of the     *)
(* denylist did, and a deny when the scan failed and the organisation has   *)
(* chosen to fail closed all along.  Nothing another organisation's manager *)
(* does lowers it.                                                          *)
FloorHeld ==
    \A e \in Evals : ev[e].decision \in Decisions =>
      \A y \in stood[e] :
        LET t == y[1]  s == y[3].scope  v == y[3].val IN
        /\ t = "denylist" /\ s \in {Global, TenantOf[e]} => ev[e].decision = "deny"
        /\ t = "rules" /\ s \in {Global, TenantOf[e]} /\ v # NoMatch =>
             Severity[ev[e].decision] >= Severity[v]
        /\ t = "configs" /\ s = TenantOf[e] /\ ev[e].failed =>
             (v.fail = "closed" => ev[e].decision = "deny")

(* Among the rows of a tenant or organisation the unique constraint does    *)
(* what it is for: however upserts overlap, a scope has one row of hook     *)
(* settings, so that the resolver's read of the first one is determined.    *)
OneRowPerOrganisation == \A s \in Tenants : Cardinality(RowsAt("configs", s)) <= 1

(* What the docstring of upsert_hook_config says: "Create or update the one *)
(* hook_configs row for a scope".                                           *)
OneRowPerScope == \A s \in Scopes("configs") : Cardinality(RowsAt("configs", s)) <= 1
=============================================================================
