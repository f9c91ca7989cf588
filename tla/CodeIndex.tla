----------------------------- MODULE CodeIndex -----------------------------
(***************************************************************************)
(* The CodeRAG worker: CodeRagWorker.index() brings the code_chunks of one  *)
(* branch of a repository up to date with the remote.  Every branch of the  *)
(* repository is checked out in the same clone directory, and runs started  *)
(* by a push webhook, by cron and by hand overlap at every await.           *)
(*                                                                         *)
(* A file is the set of hashes of its chunks, {} when it is not there.  A   *)
(* checkout and a pull each change the working tree at once; the tree is    *)
(* read file by file.                                                      *)
(***************************************************************************)
EXTENDS Integers, FiniteSets, Functions

CONSTANTS
    Runs,        \* calls of index() for this repository
    Branches,
    Paths,       \* numbers, in the order of the directory walk
    BranchOf,    \* BranchOf[r]: the branch r indexes
    Files,       \* Files[b]: what a file of branch b may hold: sets of hashes
    MaxPushes,   \* bound on the pushes to the remote
    NoBranch     \* there is no clone yet

Hashes == UNION UNION Range(Files)

ASSUME CodeIndexAssumption ==
    /\ BranchOf \in [Runs -> Branches]
    /\ NoBranch \notin Branches
    /\ Paths \subseteq Int
    /\ Files \in [Branches -> SUBSET SUBSET Hashes]

VARIABLES
    origin,    \* origin[b][p]: the file p on branch b of the remote
    local,     \* local[b][p]: the same in the clone
    created,   \* the branches that exist in the clone
    head,      \* the branch that is checked out in the clone
    chunks,    \* chunks[b, p][h]: how many rows hold that hash
    doing,     \* doing[r]: the step r is about to take
    tree,      \* tree[r][p]: the file p as r chunked it
    unread,    \* unread[r]: the files r has yet to read
    work,      \* work[r]: the files r has yet to delete or re-insert
    todo,      \* todo[r]: <<p, hashes of p that r has yet to insert>>
    asked,     \* asked[r]: the branch of r on the remote when r pulled
    alone,     \* the runs that have overlapped no other so far
    crossed,   \* history: files that runs which overlapped inserted into, and
               \* no run that did not has deleted since
    pushes

cvars == <<origin, local, created, head, chunks, doing, tree, unread, work, todo,
           asked, alone, crossed, pushes>>

Empty == [p \in Paths |-> {}]
Indexing == {r \in Runs : doing[r] \notin {"idle", "done", "failed"}}

IndexInit ==
    /\ origin \in [Branches -> [Paths -> UNION Range(Files)]]
    /\ \A b \in Branches, p \in Paths : origin[b][p] \in Files[b]
    /\ local = [b \in Branches |-> Empty]
    /\ created = {} /\ head = NoBranch
    /\ chunks = [x \in Branches \X Paths |-> [h \in Hashes |-> 0]]
    /\ doing = [r \in Runs |-> "idle"]
    /\ tree = [r \in Runs |-> Empty] /\ asked = [r \in Runs |-> Empty]
    /\ unread = [r \in Runs |-> {}] /\ work = [r \in Runs |-> {}]
    /\ todo = [r \in Runs |-> <<>>]
    /\ alone = {} /\ crossed = {} /\ pushes = 0

GoOn(r, s) == doing' = [doing EXCEPT ![r] = s]

(* Somebody pushes to a branch of the remote. *)
Push(b, p) ==
    /\ pushes < MaxPushes
    /\ \E f \in Files[b] \ {origin[b][p]} : origin' = [origin EXCEPT ![b][p] = f]
    /\ pushes' = pushes + 1
    /\ UNCHANGED <<local, created, head, chunks, doing, tree, unread, work, todo, asked, alone, crossed>>

(* index() with the flag on, for a repository that is registered. *)
Index(r) ==
    /\ doing[r] = "idle"
    /\ GoOn(r, "checkout")
    /\ alone' = IF Indexing = {} THEN {r} ELSE {}
    /\ UNCHANGED <<origin, local, created, head, chunks, tree, unread, work, todo, asked, crossed, pushes>>

(* _clone_or_pull without a clone: clone_from. *)
Clone(r) ==
    LET b == BranchOf[r] IN
    /\ doing[r] = "checkout" /\ head = NoBranch
    /\ local' = [local EXCEPT ![b] = origin[b]]
    /\ created' = {b} /\ head' = b
    /\ asked' = [asked EXCEPT ![r] = origin[b]]
    /\ unread' = [unread EXCEPT ![r] = Paths]
    /\ GoOn(r, "read")
    /\ UNCHANGED <<origin, chunks, tree, work, todo, alone, crossed, pushes>>

(* _clone_or_pull with a clone: fetch and checkout, which creates a branch  *)
(* the clone does not have yet.                                            *)
Checkout(r) ==
    LET b == BranchOf[r] IN
    /\ doing[r] = "checkout" /\ head # NoBranch
    /\ local' = IF b \in created THEN local ELSE [local EXCEPT ![b] = origin[b]]
    /\ created' = created \cup {b} /\ head' = b
    /\ GoOn(r, "pull")
    /\ UNCHANGED <<origin, chunks, tree, unread, work, todo, asked, alone, crossed, pushes>>

(* origin.pull() updates the branch that is checked out by now. *)
Pull(r) ==
    /\ doing[r] = "pull"
    /\ local' = [local EXCEPT ![head] = origin[head]]
    /\ asked' = [asked EXCEPT ![r] = origin[BranchOf[r]]]
    /\ unread' = [unread EXCEPT ![r] = Paths]
    /\ GoOn(r, "read")
    /\ UNCHANGED <<origin, created, head, chunks, tree, work, todo, alone, crossed, pushes>>

(* _chunk_working_tree reads one file; a file that is not there, too large  *)
(* or not text is left out.                                                *)
ReadFile(r, p) ==
    /\ doing[r] = "read" /\ p \in unread[r] /\ \A q \in unread[r] : p <= q
    /\ tree' = [tree EXCEPT ![r][p] = local[head][p]]
    /\ unread' = [unread EXCEPT ![r] = @ \ {p}]
    /\ IF unread[r] = {p} THEN GoOn(r, "diff") ELSE UNCHANGED doing
    /\ UNCHANGED <<origin, local, created, head, chunks, work, todo, asked, alone, crossed, pushes>>

(* _fetch_existing_hashes *)
Existing(b, p) == {h \in Hashes : chunks[<<b, p>>][h] > 0}

(* A mutant of Changed: a file whose new chunks are all stored is left as   *)
(* it is.                                                                  *)
Grown(r, p) == ~(tree[r][p] \subseteq Existing(BranchOf[r], p))

(* diff_paths: a file that changed or was deleted. *)
Changed(r, p) == Existing(BranchOf[r], p) # tree[r][p]

Diff(r) ==
    /\ doing[r] = "diff"
    /\ work' = [work EXCEPT ![r] = {p \in Paths : Changed(r, p)}]
    /\ GoOn(r, "write")
    /\ UNCHANGED <<origin, local, created, head, chunks, tree, unread, todo, asked, alone, crossed, pushes>>

(* _delete_path_chunks for a deleted file, or before a changed one is       *)
(* inserted again.  Deleted files come first.                              *)
DeletePathChunks(r, p) ==
    /\ doing[r] = "write" /\ p \in work[r] /\ todo[r] = <<>>
    /\ \A q \in work[r] : \/ tree[r][p] = {} /\ tree[r][q] # {}
                          \/ (tree[r][p] = {} <=> tree[r][q] = {}) /\ p <= q
    /\ chunks' = [chunks EXCEPT ![<<BranchOf[r], p>>] = [h \in Hashes |-> 0]]
    /\ work' = [work EXCEPT ![r] = @ \ {p}]
    /\ todo' = [todo EXCEPT ![r] = IF tree[r][p] = {} THEN <<>> ELSE <<p, tree[r][p]>>]
    /\ crossed' = IF r \in alone THEN crossed \ {<<BranchOf[r], p>>} ELSE crossed
    /\ UNCHANGED <<origin, local, created, head, doing, tree, unread, asked, alone, pushes>>

(* embed_cached and _insert_chunk for one chunk of the file. *)
InsertChunk(r) ==
    /\ doing[r] = "write" /\ todo[r] # <<>>
    /\ LET p == todo[r][1]  left == todo[r][2]  h == CHOOSE g \in left : TRUE
       IN /\ chunks' = [chunks EXCEPT ![<<BranchOf[r], p>>][h] = @ + 1]
          /\ todo' = [todo EXCEPT ![r] = IF left = {h} THEN <<>> ELSE <<p, left \ {h}>>]
          /\ crossed' = IF r \in alone THEN crossed ELSE crossed \cup {<<BranchOf[r], p>>}
    /\ UNCHANGED <<origin, local, created, head, doing, tree, unread, work, asked, alone, pushes>>

(* The run is over and its locals are gone. *)
End(r, outcome) ==
    /\ GoOn(r, outcome)
    /\ tree' = [tree EXCEPT ![r] = Empty] /\ asked' = [asked EXCEPT ![r] = Empty]
    /\ unread' = [unread EXCEPT ![r] = {}] /\ work' = [work EXCEPT ![r] = {}]
    /\ todo' = [todo EXCEPT ![r] = <<>>]
    /\ alone' = alone \ {r}
    /\ UNCHANGED <<origin, local, created, head, chunks, crossed, pushes>>

MarkIndexed(r) ==
    /\ doing[r] = "write" /\ work[r] = {} /\ todo[r] = <<>>
    /\ End(r, "done")

(* git, the embedder or the database raises, or the worker is stopped: what *)
(* is committed stays.                                                     *)
Abort(r) == r \in Indexing /\ End(r, "failed")

IndexNext ==
    \/ \E b \in Branches, p \in Paths : Push(b, p)
    \/ \E r \in Runs :
         \/ Index(r) \/ Clone(r) \/ Checkout(r) \/ Pull(r) \/ Diff(r)
         \/ \E p \in Paths : ReadFile(r, p) \/ DeletePathChunks(r, p)
         \/ InsertChunk(r) \/ MarkIndexed(r) \/ Abort(r)

IndexSpec == IndexInit /\ [][IndexNext]_cvars
-----------------------------------------------------------------------------
(* The variables have their types; a run that writes has read every file.   *)
CodeIndexTypeOK ==
    /\ head \in created \cup {NoBranch} /\ created \subseteq Branches
    /\ crossed \subseteq Branches \X Paths
    /\ chunks \in [Branches \X Paths -> [Hashes -> 0..Cardinality(Runs)]]
    /\ doing \in [Runs -> {"idle", "checkout", "pull", "read", "diff", "write", "done", "failed"}]
    /\ \A r \in Runs : doing[r] \in {"diff", "write", "done"} => unread[r] = {}

(* A run that overlapped no other and reaches its end leaves exactly the    *)
(* hashes of the branch it was asked for, as the remote had it when the run *)
(* pulled: whatever earlier runs left half written, took from another       *)
(* branch or wrote over each other is repaired by the diff.  And it leaves  *)
(* one row of each, except in a file that runs which overlapped wrote: the  *)
(* diff compares sets, so it takes such a file for unchanged if it has the  *)
(* right hashes, however often.                                            *)
IndexRepairs ==
    \A r \in alone : doing[r] = "write" /\ work[r] = {} /\ todo[r] = <<>> =>
      \A p \in Paths :
        /\ Existing(BranchOf[r], p) = asked[r][p]
        /\ \/ <<BranchOf[r], p>> \in crossed
           \/ \A h \in Hashes : chunks[<<BranchOf[r], p>>][h] <= 1

(* The same without the exception.                                         *)
DuplicatesRepaired ==
    \A r \in alone : doing[r] = "write" /\ work[r] = {} /\ todo[r] = <<>> =>
      \A p \in Paths, h \in Hashes : chunks[<<BranchOf[r], p>>][h] <= 1

(* What the module's docstring says: rows are "keyed on (repo_id,           *)
(* branch_ref) so parallel branches/worktrees never cross-contaminate".     *)
BranchesApart ==
    \A b \in Branches, p \in Paths : Existing(b, p) \subseteq UNION Files[b]

(* What the module's docstring says: chunks are upserted, so that a chunk   *)
(* of a file is stored once.                                               *)
StoredOnce == \A x \in Branches \X Paths : \A h \in Hashes : chunks[x][h] <= 1
============================================================================
