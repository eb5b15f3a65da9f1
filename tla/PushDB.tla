------------------------------- MODULE PushDB -------------------------------
(***************************************************************************)
(* Persistent.HandleEvent and pushDB (persistent.go): the trees of an      *)
(* event are pushed one after the other, each in a transaction of the      *)
(* instance database (stdb, in memory) and one of the structure database   *)
(* (db), committed one after the other.                                    *)
(*                                                                         *)
(* A tree is the sequence of its rows in the order they are pushed, see    *)
(* Rows of module Structure.  A nullable column is a set of at most one    *)
(* element.  The tables are those of stdb/schema.sql and                   *)
(* db/migrations/0001_init_schema.sql; SQLite is external.                 *)
(***************************************************************************)
EXTENDS Integers, Sequences, FiniteSets

CONSTANTS
    Events,    \* events the stream may bring: [type, trees]
    MaxEvents  \* bound: how many it brings

Trees == UNION {{e.trees[i] : i \in DOMAIN e.trees} : e \in Events}

\* What Persistent makes of the stream: a tree has one root, and its rows refer
\* to structures and paths of its own.
ASSUME EventsOK ==
    /\ MaxEvents \in Nat
    /\ \A e \in Events : /\ e.type \in {"reset", "patch"} /\ e.trees \in Seq(Trees)
                         /\ e.type = "reset" => e.trees # <<>>
    /\ \A t \in Trees :
          /\ t # <<>> /\ t \in Seq({t[i] : i \in DOMAIN t})
          /\ \A i \in DOMAIN t :
                /\ t[i].up \in IF i = 1 THEN {0} ELSE 1..(i - 1)
                /\ t[i].firstChild \cup t[i].nextSibling \subseteq {t[j].shash : j \in DOMAIN t}
                /\ t[i].parentPath \subseteq {t[j].path : j \in DOMAIN t}

\* Rows that no later row of their tree overwrites agree on the first child of a
\* hash: the hash of a structure is computed from those of its children.
LastRows(t) == {t[i] : i \in {i \in DOMAIN t : \A j \in (i + 1)..Len(t) : t[j].shash # t[i].shash}}
ASSUME HashesOK ==
    \A t, u \in Trees : \A r \in LastRows(t), s \in LastRows(u) :
        r.shash = s.shash => r.firstChild = s.firstChild

VARIABLES
    onDisk,   \* is db a file, and not ":memory:"?  (never changes)
    stdb,     \* the instances committed: [rows, seq], seq the last id given
    db,       \* the structures and paths committed: [structure, path]
    stdbtx,   \* the two databases as the open transactions see them
    dbtx,
    pc,       \* where HandleEvent is
    type,     \* the type of its event
    todo,     \* its trees, the first of them being pushed
    ids,      \* pushInstances: the ids given to the rows pushed so far
    pushed,   \* pushStructures: how many rows have been pushed
    shown,    \* history: the tree committed to stdb last, <<>> if there is none
    outcome,  \* history: how the last push ended
    events    \* history: how many events there were

vars == <<onDisk, stdb, db, stdbtx, dbtx, pc, type, todo, ids, pushed, shown,
          outcome, events>>

NoInstances  == [rows |-> {}, seq |-> 0]
NoStructures == [structure |-> {}, path |-> {}]
Tree         == todo[1]

Init ==
    /\ onDisk \in BOOLEAN
    /\ stdb = NoInstances /\ stdbtx = NoInstances
    /\ db = NoStructures /\ dbtx = NoStructures
    /\ pc = "idle" /\ type = "reset" /\ todo = <<>> /\ ids = <<>> /\ pushed = 0
    /\ shown = <<>> /\ outcome = "ok" /\ events = 0
-----------------------------------------------------------------------------
(* The tables.                                                             *)

\* A row and all that "on delete cascade" deletes with it.
Cascade(rows, id) ==
    {r \in rows : \A gone \in SUBSET {q.id : q \in rows} :
        (/\ id \in gone
         /\ \A q \in rows : q.parent \subseteq gone /\ q.parent # {} => q.id \in gone)
            => r.id \in gone}

\* GetRoot finds any of these ("where parent is null"), or sql.ErrNoRows.
Roots(rows) == {r \in rows : r.parent = {}}

DeleteInstance(tx, id) == [tx EXCEPT !.rows = @ \ Cascade(@, id)]

\* An insertion returns the id it gives, which no row has had before
\* (autoincrement).  The column phash gets the structure hash, as in the code.
CreateStructureInstance(tx, row, parent) ==
    [seq |-> tx.seq + 1,
     rows |-> tx.rows \cup {[id |-> tx.seq + 1, ax |-> row.ax, shash |-> row.shash,
                             phash |-> row.shash, parent |-> parent]}]

\* The id of the parent among the rows pushed so far; none for the tree's root.
ParentId(row) == IF row.up = 0 THEN {} ELSE {ids[row.up]}

\* "insert ... on conflict do update": the key, and the row that replaces the
\* one with this key.
UpsertStructure(table, row) ==
    {s \in table : s.hash # row.shash}
        \cup {[hash |-> row.shash, firstChild |-> row.firstChild, nextSibling |-> row.nextSibling]}

UpsertPath(table, row) ==
    {p \in table : p.hash # row.path \/ p.structure # row.shash}
        \cup {[hash |-> row.path, structure |-> row.shash, parent |-> row.parentPath]}
-----------------------------------------------------------------------------
(* HandleEvent and pushDB.                                                 *)

\* A reset is about the first tree, a patch about all of them.
HandleEvent ==
    /\ pc = "idle"
    /\ events < MaxEvents
    /\ events' = events + 1
    /\ \E e \in Events :
          /\ type' = e.type
          /\ todo' = IF e.type = "reset" THEN <<e.trees[1]>> ELSE e.trees
    /\ pc' = IF todo' = <<>> THEN "idle" ELSE "begin"
    /\ UNCHANGED <<onDisk, stdb, db, stdbtx, dbtx, ids, pushed, shown, outcome>>

Begin ==
    /\ pc = "begin"
    /\ stdbtx' = stdb /\ dbtx' = db
    /\ ids' = <<>> /\ pushed' = 0
    /\ pc' = "delete"
    /\ UNCHANGED <<onDisk, stdb, db, type, todo, shown, outcome, events>>

\* Statements that cannot succeed: the root must stand for an AX node; ax_id is
\* unique; with foreign keys checked (as they are in a file) SQLite does not
\* accept path's reference to path (hash), which is only part of a key.
Refused ==
    \/ pc = "delete" /\ Tree[1].ax = {}
    \/ /\ pc = "instances"
       /\ \E r \in stdbtx.rows : r.ax # {} /\ r.ax = Tree[Len(ids) + 1].ax
    \/ pc = "structures" /\ onDisk

\* Mutant: the old root is not deleted.
KeepRoot ==
    /\ pc = "delete" /\ ~Refused
    /\ pc' = "instances"
    /\ UNCHANGED <<onDisk, stdb, db, stdbtx, dbtx, type, todo, ids, pushed, shown, outcome, events>>

\* pushInstances: GetRoot and DeleteInstance, whatever the tree's root is.
DeleteRoot ==
    /\ pc = "delete" /\ ~Refused
    /\ \/ /\ Roots(stdbtx.rows) = {}
          /\ UNCHANGED stdbtx
       \/ \E root \in Roots(stdbtx.rows) :
             stdbtx' = DeleteInstance(stdbtx, root.id)
    /\ pc' = "instances"
    /\ UNCHANGED <<onDisk, stdb, db, dbtx, type, todo, ids, pushed, shown, outcome, events>>

\* Mutant: the loop goes one node too far.
PushOneMore ==
    /\ pc = "instances" /\ ~Refused
    /\ LET row == Tree[Len(ids) + 1]
       IN  stdbtx' = CreateStructureInstance(stdbtx, row, ParentId(row))
    /\ ids' = Append(ids, stdbtx'.seq)
    /\ pc' = IF Len(ids') > Len(Tree) THEN "structures" ELSE "instances"
    /\ UNCHANGED <<onDisk, stdb, db, dbtx, type, todo, pushed, shown, outcome, events>>

\* pushSingleInstance.  The root's parent is the deleted root's: none.  So
\* updateAncestorSHash, which follows the last row, has no ancestors to update.
PushInstance ==
    /\ pc = "instances" /\ ~Refused
    /\ LET row == Tree[Len(ids) + 1]
       IN  stdbtx' = CreateStructureInstance(stdbtx, row, ParentId(row))
    /\ ids' = Append(ids, stdbtx'.seq)
    /\ pc' = IF Len(ids') = Len(Tree) THEN "structures" ELSE "instances"
    /\ UNCHANGED <<onDisk, stdb, db, dbtx, type, todo, pushed, shown, outcome, events>>

\* Mutant: wrappers are left out.
PushConcrete ==
    /\ pc = "structures" /\ ~Refused
    /\ LET row == Tree[pushed + 1]
       IN  dbtx' = IF row.ax = {} THEN dbtx
                   ELSE [structure |-> UpsertStructure(dbtx.structure, row),
                         path |-> UpsertPath(dbtx.path, row)]
    /\ pushed' = pushed + 1
    /\ pc' = IF pushed' = Len(Tree) THEN "commit stdb" ELSE "structures"
    /\ UNCHANGED <<onDisk, stdb, db, stdbtx, type, todo, ids, shown, outcome, events>>

\* Mutant: children are pushed before their parent.
PushBackwards ==
    /\ pc = "structures" /\ ~Refused
    /\ LET row == Tree[Len(Tree) - pushed]
       IN  dbtx' = [structure |-> UpsertStructure(dbtx.structure, row),
                    path |-> UpsertPath(dbtx.path, row)]
    /\ pushed' = pushed + 1
    /\ pc' = IF pushed' = Len(Tree) THEN "commit stdb" ELSE "structures"
    /\ UNCHANGED <<onDisk, stdb, db, stdbtx, type, todo, ids, shown, outcome, events>>

\* pushSingleStructure and pushSingleStructPath of one node.
PushStructure ==
    /\ pc = "structures" /\ ~Refused
    /\ LET row == Tree[pushed + 1]
       IN  dbtx' = [structure |-> UpsertStructure(dbtx.structure, row),
                    path |-> UpsertPath(dbtx.path, row)]
    /\ pushed' = pushed + 1
    /\ pc' = IF pushed' = Len(Tree) THEN "commit stdb" ELSE "structures"
    /\ UNCHANGED <<onDisk, stdb, db, stdbtx, type, todo, ids, shown, outcome, events>>

CommitStdb ==
    /\ pc = "commit stdb"
    /\ stdb' = stdbtx
    /\ shown' = Tree
    /\ pc' = "commit db"
    /\ UNCHANGED <<onDisk, db, stdbtx, dbtx, type, todo, ids, pushed, outcome, events>>

\* The second commit; HandleEvent goes on with its next tree or returns.
CommitDb ==
    /\ pc = "commit db"
    /\ db' = dbtx
    /\ todo' = Tail(todo)
    /\ pc' = IF todo' = <<>> THEN "idle" ELSE "begin"
    /\ outcome' = "ok"
    /\ UNCHANGED <<onDisk, stdb, stdbtx, dbtx, type, ids, pushed, shown, events>>

\* A call to a database returns an error, because it must or because the
\* context is done, the disk full and so on.  The deferred Rollbacks undo what is
\* not committed, and HandleEvent returns the error: its later trees are dropped.
Fail ==
    /\ pc # "idle"
    /\ pc' = "idle"
    /\ todo' = <<>>
    /\ outcome' = "failed"
    /\ stdbtx' = stdb /\ dbtx' = db
    /\ UNCHANGED <<onDisk, stdb, db, type, ids, pushed, shown, events>>

\* The process ends and is started again: what is in memory is lost.
Crash ==
    /\ stdb' = NoInstances /\ stdbtx' = NoInstances
    /\ db' = IF onDisk THEN db ELSE NoStructures
    /\ dbtx' = NoStructures
    /\ shown' = <<>>
    /\ pc' = "idle" /\ todo' = <<>> /\ ids' = <<>> /\ pushed' = 0
    /\ UNCHANGED <<onDisk, type, outcome, events>>

Next == \/ HandleEvent \/ Begin \/ DeleteRoot \/ PushInstance \/ PushStructure
        \/ CommitStdb \/ CommitDb \/ Fail \/ Crash
Spec == Init /\ [][Next]_vars
-----------------------------------------------------------------------------
(* Properties.                                                             *)

Columns == {"id", "ax", "shash", "phash", "parent"}

TypeOK ==
    /\ onDisk \in BOOLEAN
    /\ \A d \in {stdb, stdbtx} : /\ d.seq \in Nat
                                 /\ \A r \in d.rows : DOMAIN r = Columns /\ r.id \in 1..d.seq
    /\ pc \in {"idle", "begin", "delete", "instances", "structures", "commit stdb", "commit db"}
    /\ type \in {"reset", "patch"}
    /\ todo \in Seq(Trees) /\ (pc # "idle" => todo # <<>>)
    /\ pc = "instances" => Len(ids) < Len(Tree)
    /\ pc = "structures" => pushed < Len(Tree)
    /\ shown \in Trees \cup {<<>>}
    /\ outcome \in {"ok", "failed"}
    /\ events \in 0..MaxEvents

\* "replaces a given subtree inside both ... database states": the instances
\* committed are those of one tree pushed, with its parents, all of them and no
\* other, whatever fails or crashes; so GetRoot finds the root of that tree.
Mirrors ==
    LET base == stdb.seq - Len(shown)
    IN  stdb.rows = {[id |-> base + i, ax |-> shown[i].ax, shash |-> shown[i].shash,
                      phash |-> shown[i].shash,
                      parent |-> IF shown[i].up = 0 THEN {} ELSE {base + shown[i].up}] :
                        i \in DOMAIN shown}

\* Nothing committed to the structure database refers to what is not there: the
\* first child and next sibling of a structure, the structure and the parent of a
\* path.
NoDangling ==
    LET known == {s.hash : s \in db.structure}
    IN  /\ \A s \in db.structure : s.firstChild \cup s.nextSibling \subseteq known
        /\ \A p \in db.path : /\ p.structure \in known
                              /\ p.parent \subseteq {q.hash : q \in db.path}

\* The structure database can describe the instances: nothing in it dangles, and
\* after a push that returned no error the structure of every instance is there,
\* however the pushes before it ended: also after one that failed between its two
\* commits.
Described ==
    /\ NoDangling
    /\ pc = "idle" /\ outcome = "ok" =>
           \A r \in stdb.rows : \E s \in db.structure : s.hash = r.shash

\* What a structure begins with does not depend on the instance: a later push
\* never changes the first child committed for a hash, although the hash of a
\* list is also the hash of its elements and one row overwrites the other.
FirstChildFixed ==
    [][\A s \in db.structure, t \in db'.structure :
          s.hash = t.hash => s.firstChild = t.firstChild]_vars

\* "replaces a given subtree": after a patch of a subtree the instances that are
\* not in it are still there.
PatchKeeps ==
    [][pc = "commit stdb" /\ pc' = "commit db" /\ type = "patch" =>
          \A old \in stdb.rows : old.ax = Tree[1].ax =>
              \A r \in stdb.rows \ Cascade(stdb.rows, old.id) :
                  r.ax # {} => \E s \in stdb'.rows : s.ax = r.ax]_vars
=============================================================================
