------------------------------ MODULE Selection ------------------------------
(***************************************************************************)
(* selectForRetention of scripts/backup-database.ts as it is written: its  *)
(* variables, and its loop over the sorted listing, one entry a step.      *)
(* Module Backup calls it.  A dump's name is its time, so that no two      *)
(* entries sort alike.                                                     *)
(***************************************************************************)
EXTENDS RetentionRules

VARIABLES
    listed,     \* `parsed', or {} outside the function
    todo,       \* the entries the loop has still to look at
    seen,       \* [generation -> the keys of the periods it keeps a dump of]
    retained    \* the set `retain'

loopVars == <<listed, todo, seen, retained>>

NothingSeen == [g \in Generations |-> {}]

NotSelecting == listed = {} /\ todo = {} /\ seen = NothingSeen /\ retained = {}

BeginSelection(names) ==
    /\ listed' = names /\ todo' = names
    /\ seen' = NothingSeen /\ retained' = {}

(* The three ifs.  Mutant: the quota is one period smaller.                *)
TakesOneLess(g, t) ==
    Cardinality(seen[g]) < Keep[g] - 1 /\ Period[g][t] \notin seen[g]

Takes(g, t) ==
    Cardinality(seen[g]) < Keep[g] /\ Period[g][t] \notin seen[g]

Look(t) ==
    /\ t \in todo /\ \A n \in todo : n <= t
    /\ todo' = todo \ {t}
    /\ seen' = [g \in Generations |->
           IF Takes(g, t) THEN seen[g] \cup {Period[g][t]} ELSE seen[g]]
    /\ retained' = retained \cup {n \in {t} : \E g \in Generations : Takes(g, n)}
    /\ UNCHANGED listed

EndSelection ==
    /\ todo = {}
    /\ listed' = {} /\ seen' = NothingSeen /\ retained' = {}
    /\ UNCHANGED todo
-----------------------------------------------------------------------------
(* "Walks newest-first and keeps the first dump seen in each period        *)
(* bucket, so a single dump can satisfy several generations at once": the  *)
(* three generations, which share one walk and one set, retain what each   *)
(* keeps by the rule of its own.                                           *)
SelectionIsTheRule == todo = {} => retained = Retain(listed)
=============================================================================
