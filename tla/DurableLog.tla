----------------------------- MODULE DurableLog -----------------------------
(***************************************************************************)
(* What the raw archive promises its caller (src/archive/archive.ts, doc   *)
(* comment: "the record of record").  A record whose write() resolved is   *)
(* first held in memory only (a compressor buffers it) and becomes durable *)
(* later; a crash or an I/O error may drop what is still in memory, and    *)
(* nothing ever removes a record that has become durable.                  *)
(***************************************************************************)
CONSTANT Records

VARIABLES
    volatile,   \* accepted records that are only in the process's memory
    durable     \* records in some file, or in the object store

vars == <<volatile, durable>>

Init ==
    /\ volatile = {}
    /\ durable = {}

Accept(r) ==
    /\ r \notin volatile \cup durable
    /\ volatile' = volatile \cup {r}
    /\ UNCHANGED durable

Persist(S) ==
    /\ S \subseteq volatile
    /\ durable' = durable \cup S
    /\ volatile' = volatile \ S

Drop(S) ==
    /\ S \subseteq volatile
    /\ volatile' = volatile \ S
    /\ UNCHANGED durable

Next ==
    \/ \E r \in Records : Accept(r)
    \/ \E S \in SUBSET Records : Persist(S) \/ Drop(S)

Spec == Init /\ [][Next]_vars
=============================================================================
