------------------------------ MODULE Accounts ------------------------------
(***************************************************************************)
(* Users, organisations and virtual keys behind the management API.  A     *)
(* handler authenticates its caller, reads the row it is about, decides,   *)
(* and writes some columns of that row; requests interleave at each of     *)
(* these database accesses.                                                *)
(*                                                                         *)
(* All rows are in one function from ids to records.  The organisation and *)
(* the owner of a row are never written and are constants.  Columns that   *)
(* decide nothing here (names, quotas, limits, passwords) are one column,  *)
(* "other".                                                                *)
(***************************************************************************)
EXTENDS Integers, FiniteSets

CONSTANTS
    Requests,    \* requests being handled at a time
    Users, Keys, Orgs,
    OrgOf,       \* OrgOf[id]: the organization_id of a row, an org's own id
    OwnerOf,     \* OwnerOf[k]: the user_id of key k
    Initial,     \* the ids that exist initially
    RoleOf,      \* RoleOf[u]: the role user u has at first
    Plans,       \* what a request can be: [op, by, id, cols]
    MaxLogins,   \* bound: logins of a user
    MaxSecret    \* bound: rotations of a key

UserOps == {"create_user", "update_user", "delete_user", "enable_user", "set_user_quota",
            "login", "change_password"}
KeyOps == {"create_key", "update_key", "delete_key", "rotate_key", "set_key_quota"}
OrgOps == {"create_org", "update_org", "delete_org", "set_org_quota"}

(* A request is about a row of its own kind, one logs in as oneself, and an *)
(* update names columns out of a list that has neither those of the logins  *)
(* nor the secret of a key in it.                                           *)
ASSUME AccountsAssumption ==
    /\ Users \cap Keys = {} /\ Users \cap Orgs = {} /\ Keys \cap Orgs = {}
    /\ OwnerOf \in [Keys -> Users]
    /\ \A p \in Plans :
         /\ \/ p.op \in UserOps /\ p.id \in Users
            \/ p.op \in KeyOps /\ p.id \in Keys
            \/ p.op \in OrgOps /\ p.id \in Orgs
         /\ p.by.kind \in {"jwt", "password", "key"}
         /\ p.by.kind = "key" => p.by.key \in Keys
         /\ p.op = "login" => p.by.kind = "password" /\ p.by.user = p.id
         /\ DOMAIN p.cols \subseteq {"enabled", "other", "role"}

VARIABLES
    rows,      \* rows[id]: the row, live when it exists
    at,        \* at[r]: the database access r is at
    plan,      \* plan[r]: what r is asked to do
    claims,    \* claims[r]: g.user, the caller's identity
    seen,      \* seen[r]: the row r read
    meant,     \* history: the rows as the requests leave them one after another
    overlap,   \* history: users two logins of which have overlapped
    valid      \* history: what has been good while a request was handled: <<r, id>>

avars == <<rows, at, plan, claims, seen, meant, overlap, valid>>

Ids == Users \cup Keys \cup Orgs

NoPlan == [op |-> "none"]
Nobody == [kind |-> "none", role |-> "none"]
NoRow == [live |-> FALSE]

(* The login columns of a user: how many logins there have been, and when   *)
(* and whence the current one and the one before it came, each as the       *)
(* number of that login, 0 for none.                                        *)
NewUser(role) == [live |-> TRUE, enabled |-> TRUE, other |-> 0, role |-> role,
                  logins |-> 0, current |-> 0, last |-> 0]
NewKey == [live |-> TRUE, enabled |-> TRUE, other |-> 0, secret |-> 0]
NewOrg == [live |-> TRUE, enabled |-> TRUE, other |-> 0]

AccInit ==
    /\ rows = [id \in Ids |-> IF id \notin Initial THEN NoRow
                              ELSE IF id \in Users THEN NewUser(RoleOf[id])
                              ELSE IF id \in Keys THEN NewKey ELSE NewOrg]
    /\ at = [r \in Requests |-> "idle"]
    /\ plan = [r \in Requests |-> NoPlan]
    /\ claims = [r \in Requests |-> Nobody]
    /\ seen = [r \in Requests |-> NoRow]
    /\ meant = rows
    /\ overlap = {}
    /\ valid = {}

Goto(r, s) == at' = [at EXCEPT ![r] = s]

(* The request is answered, and what it held is gone. *)
Close(r) ==
    /\ Goto(r, "idle")
    /\ plan' = [plan EXCEPT ![r] = NoPlan]
    /\ claims' = [claims EXCEPT ![r] = Nobody]
    /\ seen' = [seen EXCEPT ![r] = NoRow]

(* require_auth: a JWT carries the caller's claims, an API key is looked up *)
(* in the database.  Logging in needs neither.                              *)
Begin(r) ==
    /\ at[r] = "idle"
    /\ \E p \in Plans :
         /\ plan' = [plan EXCEPT ![r] = p]
         /\ IF p.by.kind = "key"
            THEN Goto(r, "keys") /\ UNCHANGED claims
            ELSE Goto(r, "target") /\ claims' = [claims EXCEPT ![r] = p.by]
    /\ UNCHANGED <<rows, seen, meant, overlap>>

(* A mutant of SelectKeys: keys that are disabled are looked at, too. *)
SelectAnyKeys(r) ==
    /\ at[r] = "keys"
    /\ LET k == plan[r].by.key
       IN IF rows[k].live /\ rows[k].secret = plan[r].by.secret
          THEN Goto(r, "owner") /\ UNCHANGED <<plan, claims, seen>>
          ELSE Close(r)
    /\ UNCHANGED <<rows, meant, overlap>>

(* verify_api_key: the enabled keys, then the owner of the one that fits. *)
SelectKeys(r) ==
    /\ at[r] = "keys"
    /\ LET k == plan[r].by.key
       IN IF rows[k].live /\ rows[k].enabled /\ rows[k].secret = plan[r].by.secret
          THEN Goto(r, "owner") /\ UNCHANGED <<plan, claims, seen>>
          ELSE Close(r)
    /\ UNCHANGED <<rows, meant, overlap>>

SelectOwner(r) ==
    /\ at[r] = "owner"
    /\ LET u == OwnerOf[plan[r].by.key]
       IN IF rows[u].live /\ rows[u].enabled /\ OrgOf[plan[r].by.key] = OrgOf[u]
          THEN /\ Goto(r, "target")
               /\ claims' = [claims EXCEPT ![r] = [kind |-> "owner", user |-> u,
                                                   role |-> rows[u].role, org |-> OrgOf[u]]]
               /\ UNCHANGED <<plan, seen>>
          ELSE Close(r)
    /\ UNCHANGED <<rows, meant, overlap>>

(* require_scope: the operations whose scope only some roles hold. *)
Scoped(op, role) ==
    /\ op \in {"create_user", "update_user", "enable_user", "set_user_quota"}
         => role \in {"admin", "resource_manager"}
    /\ op \in {"delete_user", "create_org", "update_org", "delete_org", "set_org_quota"}
         => role = "admin"

MayChangeUser(g, id, row) ==
    /\ g.role = "resource_manager" => OrgOf[id] = g.org
    /\ g.role # "admin" => row.role # "admin"

MayChangeKey(g, id) ==
    CASE g.role = "admin" -> TRUE
      [] g.role = "resource_manager" -> OrgOf[id] = g.org
      [] OTHER -> OwnerOf[id] = g.user

(* Creating a key for another user looks that user up. *)
MayCreateKey(g, id) ==
    LET u == OwnerOf[id] IN
    /\ u # g.user \/ OrgOf[id] # g.org =>
         \/ g.role = "admin"
         \/ g.role = "resource_manager" /\ OrgOf[id] = g.org
    /\ u # g.user =>
         /\ rows[u].live /\ OrgOf[u] = OrgOf[id]
         /\ g.role # "admin" => rows[u].role # "admin"

(* What the handler of p checks when it has read the row p is about. *)
Allowed(p, g) ==
    LET row == rows[p.id] IN
    /\ (p.op \in {"create_user", "create_key", "create_org"}) = ~row.live
    /\ CASE p.op = "create_key" -> MayCreateKey(g, p.id)
         [] p.op = "create_user" ->
              /\ rows[OrgOf[p.id]].live
              /\ g.role = "resource_manager" => OrgOf[p.id] = g.org
         [] p.op \in {"update_user", "enable_user", "set_user_quota"} ->
              /\ MayChangeUser(g, p.id, row)
              /\ ~(g.role = "resource_manager" /\ "role" \in DOMAIN p.cols /\ p.cols.role = "admin")
         [] p.op = "delete_user" -> p.id # g.user
         [] p.op = "change_password" -> p.id = g.user
         [] p.op = "login" -> row.enabled
         [] p.op \in KeyOps \ {"create_key"} -> MayChangeKey(g, p.id)
         [] OTHER -> TRUE

ReadTarget(r) ==
    /\ at[r] = "target"
    /\ LET p == plan[r] IN
       /\ IF Scoped(p.op, claims[r].role) /\ Allowed(p, claims[r])
          THEN /\ Goto(r, IF p.op = "delete_org" THEN "count" ELSE "write")
               /\ seen' = [seen EXCEPT ![r] = rows[p.id]]
               /\ UNCHANGED <<plan, claims>>
          ELSE Close(r)
       /\ overlap' = IF p.op = "login" /\ \E q \in Requests \ {r} :
                            at[q] = "write" /\ plan[q].op = "login" /\ plan[q].id = p.id
                     THEN overlap \cup {p.id} ELSE overlap
    /\ UNCHANGED <<rows, meant>>

(* An organisation that has users is not deleted. *)
CountUsers(r) ==
    /\ at[r] = "count"
    /\ IF \E u \in Users : rows[u].live /\ OrgOf[u] = plan[r].id
       THEN Close(r)
       ELSE Goto(r, "write") /\ UNCHANGED <<plan, claims, seen>>
    /\ UNCHANGED <<rows, meant, overlap>>

(* A row with some of its columns set. *)
With(row, columns) ==
    [c \in DOMAIN row \cup DOMAIN columns |->
       IF c \in DOMAIN columns THEN columns[c] ELSE row[c]]

(* The columns as the handler puts them into its UPDATE. *)
Sets(r, columns) == rows' = [rows EXCEPT ![plan[r].id] = With(@, columns)]

Write(r, ops, columns) ==
    /\ at[r] = "write" /\ plan[r].op \in ops
    /\ Sets(r, columns)
    /\ meant' = [meant EXCEPT ![plan[r].id] = With(@, columns)]
    /\ Close(r)

(* A mutant of UpdateColumns: the whole row is written as it was read. *)
UpdateWholeRow(r) ==
    /\ at[r] = "write"
    /\ plan[r].op \in {"update_user", "update_key", "update_org", "set_user_quota",
                       "set_key_quota", "set_org_quota", "change_password"}
    /\ Sets(r, With(seen[r], plan[r].cols))
    /\ meant' = [meant EXCEPT ![plan[r].id] = With(@, plan[r].cols)]
    /\ Close(r)
    /\ UNCHANGED overlap

(* The columns the request names are written, the others are not. *)
UpdateColumns(r) ==
    /\ Write(r, {"update_user", "update_key", "update_org", "set_user_quota",
                 "set_key_quota", "set_org_quota", "change_password"}, plan[r].cols)
    /\ UNCHANGED overlap

(* Deletion disables. *)
Disable(r) ==
    /\ Write(r, {"delete_user", "delete_key", "delete_org"}, [enabled |-> FALSE])
    /\ UNCHANGED overlap

EnableUser(r) ==
    /\ Write(r, {"enable_user"}, [enabled |-> TRUE])
    /\ UNCHANGED overlap

RotateKey(r) ==
    /\ at[r] = "write" /\ plan[r].op = "rotate_key"
    /\ rows[plan[r].id].secret < MaxSecret
    /\ Write(r, {"rotate_key"}, [secret |-> rows[plan[r].id].secret + 1])
    /\ UNCHANGED overlap

(* The row is inserted unless it has come to exist since: the names are     *)
(* unique.  A manager's new user is no admin.                               *)
Insert(r) ==
    /\ at[r] = "write" /\ plan[r].op \in {"create_user", "create_key", "create_org"}
    /\ ~rows[plan[r].id].live
    /\ Write(r, {plan[r].op},
             CASE plan[r].op = "create_user" ->
                    NewUser(IF claims[r].role = "resource_manager" /\ plan[r].cols.role = "admin"
                            THEN "user" ELSE plan[r].cols.role)
               [] plan[r].op = "create_key" -> NewKey
               [] OTHER -> NewOrg)
    /\ UNCHANGED overlap

(* The columns the n-th login of a user writes, from a row of the user. *)
LoginColumns(row, n) ==
    [last |-> row.current, current |-> n, logins |-> row.logins + 1]

(* login() takes the last login and the count from the row it read before   *)
(* it checked the password, not from the row it updates.                    *)
Login(r) ==
    LET u == plan[r].id
        n == meant[u].logins + 1
    IN
    /\ at[r] = "write" /\ plan[r].op = "login" /\ n <= MaxLogins
    /\ Sets(r, LoginColumns(seen[r], n))
    /\ meant' = [meant EXCEPT ![u] = With(@, LoginColumns(@, n))]
    /\ Close(r)
    /\ UNCHANGED overlap

(* The request is refused for its contents (a missing field, a name that is *)
(* taken, a wrong password), fails in the database or is cancelled.         *)
Refuse(r) ==
    /\ at[r] # "idle"
    /\ Close(r)
    /\ UNCHANGED <<rows, meant, overlap>>

Handle(r) ==
    \/ Begin(r) \/ SelectKeys(r) \/ SelectOwner(r) \/ ReadTarget(r) \/ CountUsers(r)
    \/ UpdateColumns(r) \/ Disable(r) \/ EnableUser(r) \/ RotateKey(r) \/ Insert(r)
    \/ Login(r) \/ Refuse(r)

(* History: the key a request presents, with that secret, and the key's     *)
(* owner, each when it is enabled at some time while the request is handled.*)
Presents(r, id) ==
    /\ plan[r] # NoPlan /\ plan[r].by.kind = "key"
    /\ id \in {plan[r].by.key, OwnerOf[plan[r].by.key]}

Good(r, id) ==
    /\ rows[id].live /\ rows[id].enabled
    /\ id \in Keys => rows[id].secret = plan[r].by.secret

Remember ==
    valid' = {v \in Requests \X Ids :
                /\ Presents(v[1], v[2])'
                /\ (at[v[1]] # "idle" /\ v \in valid) \/ Good(v[1], v[2])'}

AccNext == (\E r \in Requests : Handle(r)) /\ Remember

AccSpec == AccInit /\ [][AccNext]_avars
-----------------------------------------------------------------------------
(* The rows have their columns, and the locals of a request their types. *)
AccountsTypeOK ==
    /\ \A id \in Ids : rows[id].live =>
         /\ rows[id].enabled \in BOOLEAN /\ rows[id].other \in {0, 1}
         /\ id \in Users => {rows[id].logins, rows[id].current, rows[id].last} \subseteq 0..MaxLogins
         /\ id \in Keys => rows[id].secret \in 0..MaxSecret
    /\ at \in [Requests -> {"idle", "keys", "owner", "target", "count", "write"}]
    /\ \A r \in Requests : at[r] # "idle" <=> plan[r] \in Plans
    /\ overlap \subseteq Users /\ valid \subseteq Requests \X Ids

(* Requests about one row that overlap leave it as they would one after     *)
(* another, so a key revoked or a user disabled stays so whatever other     *)
(* update was under way.  The exception are the last login and the count,   *)
(* which login() computes from the row as it read it: they are right, too,  *)
(* whatever updates a login is interleaved with, until two logins of the    *)
(* user overlap, and even then no login is counted twice.                   *)
NoLostUpdate ==
    /\ \A id \in Ids : \A c \in DOMAIN rows[id] :
         rows[id][c] = meant[id][c] \/ (c \in {"last", "logins"} /\ id \in overlap)
    /\ \A u \in Users : rows[u].live => rows[u].logins <= meant[u].logins

(* The rows a caller's role lets it change: an admin's any, a manager's     *)
(* those of its organisation, otherwise one's own user and keys.            *)
InReach(g, id) ==
    \/ g.role = "admin"
    \/ g.role = "resource_manager" /\ id \notin Orgs /\ OrgOf[id] = g.org
    \/ id \in Keys /\ OwnerOf[id] = g.user
    \/ id = g.user

(* No interleaving lets a request change a row out of its caller's reach. *)
ReachHeld ==
    [][\A r \in Requests :
         at[r] = "write" /\ at'[r] = "idle" /\ rows'[plan[r].id] # rows[plan[r].id]
           => InReach(claims[r], plan[r].id)]_avars

(* A caller identified by an API key: the key was enabled with that secret, *)
(* and its owner enabled, at some time while the request was handled.  A    *)
(* key that was revoked or rotated before and left alone since              *)
(* authenticates nobody.                                                    *)
RevokedIsRefused ==
    \A r \in Requests :
      claims[r].kind = "owner" =>
        {<<r, plan[r].by.key>>, <<r, claims[r].user>>} \subseteq valid
=============================================================================
