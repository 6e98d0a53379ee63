----------------------------- MODULE KeyedStore -----------------------------
(***************************************************************************)
(* What a chidb database file promises to the layers above it: a family of *)
(* trees, each a map from keys to values that only ever grows.  One insert *)
(* is in progress at a time; it adds its entry, or reports EDUPLICATE and  *)
(* changes nothing when the key is there already (btree.c, the comment of  *)
(* chidb_Btree_insert).  Pages, cells and splits do not appear here:       *)
(* module BTree is shown to implement this specification.                  *)
(***************************************************************************)
CONSTANTS
    FirstTree,   \* the tree that exists in every database, the schema table
    Trees,       \* the names a tree can have
    Keys,        \* the keys callers insert
    Vals,        \* the values callers insert
    Idle         \* stands for "no insert in progress"

VARIABLES
    trees,       \* the trees that have been created
    entries,     \* the entries of every tree, as [tree, key, val] records
    pending,     \* the entry being inserted, or Idle
    rc           \* the result of the last insert that returned

vars == <<trees, entries, pending, rc>>

Entry == [tree : Trees, key : Keys, val : Vals]

TypeOK ==
    /\ trees \subseteq Trees
    /\ entries \subseteq Entry
    /\ pending \in Entry \cup {Idle}
    /\ rc \in {"OK", "EDUPLICATE"}

Init ==
    /\ trees = {FirstTree}
    /\ entries = {}
    /\ pending = Idle
    /\ rc = "OK"

Create(t) ==
    /\ pending = Idle
    /\ t \notin trees
    /\ trees' = trees \cup {t}
    /\ UNCHANGED <<entries, pending, rc>>

Begin(t, k, v) ==
    /\ pending = Idle
    /\ t \in trees
    /\ pending' = [tree |-> t, key |-> k, val |-> v]
    /\ UNCHANGED <<trees, entries, rc>>

Present == \E e \in entries : e.tree = pending.tree /\ e.key = pending.key

Finish ==
    /\ pending # Idle
    /\ pending' = Idle
    /\ UNCHANGED trees
    /\ \/ /\ Present
          /\ rc' = "EDUPLICATE"
          /\ UNCHANGED entries
       \/ /\ ~Present
          /\ rc' = "OK"
          /\ entries' = entries \cup {pending}

Next ==
    \/ \E t \in Trees : Create(t)
    \/ \E t \in Trees, k \in Keys, v \in Vals : Begin(t, k, v)
    \/ Finish

(* What the store never does, and what it does in the end.                 *)
Safety == Init /\ [][Next]_vars
Spec == Safety /\ WF_vars(Finish)
=============================================================================
