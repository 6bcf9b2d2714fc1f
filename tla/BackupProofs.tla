---------------------------- MODULE BackupProofs ----------------------------
(***************************************************************************)
(* Proofs about Backup.  They use that a time has one period of each kind, *)
(* not which, so that they hold for any calendar.                          *)
(***************************************************************************)
EXTENDS Backup, FiniteSetTheorems, TLAPS

LEMMA TimesAreFinite ==
    ASSUME NEW S \in SUBSET Times
    PROVE  IsFiniteSet(S)
<1>1. IsFiniteSet(Times)
    BY BackupAssumption, FS_Interval DEF Times
<1> QED BY <1>1, FS_Subset

LEMMA NewerKeysAreFinite ==
    ASSUME NEW g \in Generations, NEW t \in Times, NEW S \in SUBSET Times
    PROVE  /\ IsFiniteSet(NewerKeys(g, t, S))
           /\ Cardinality(NewerKeys(g, t, S)) \in Nat
<1> DEFINE N == {n \in S : n > t}
           f == [n \in N |-> Period[g][n]]
<1>1. f \in Surjection(N, NewerKeys(g, t, S))
    BY DEF Surjection, NewerKeys
<1>2. IsFiniteSet(N)
    BY TimesAreFinite
<1>3. IsFiniteSet(NewerKeys(g, t, S))
    BY <1>1, <1>2, FS_Surjection
<1> QED BY <1>3, FS_CardinalityType

(* A dump that a generation keeps among many it keeps among fewer.         *)
LEMMA KeptAmongFewer ==
    ASSUME NEW g \in Generations, NEW E \in SUBSET Times, NEW S \in SUBSET E,
           NEW t \in S, t \in Kept(g, E)
    PROVE  t \in Kept(g, S)
<1>1. NewerKeys(g, t, S) \in SUBSET NewerKeys(g, t, E)
    BY DEF NewerKeys
<1>2. Cardinality(NewerKeys(g, t, S)) <= Cardinality(NewerKeys(g, t, E))
    BY <1>1, NewerKeysAreFinite, FS_Subset
<1>3. /\ Cardinality(NewerKeys(g, t, S)) \in Nat
      /\ Cardinality(NewerKeys(g, t, E)) \in Nat
      /\ Keep[g] \in Nat
    BY NewerKeysAreFinite, BackupAssumption
<1> QED BY <1>1, <1>2, <1>3 DEF Kept

LEMMA RetainedAmongFewer ==
    ASSUME NEW E \in SUBSET Times, NEW S \in SUBSET E, NEW t \in S, t \in Retain(E)
    PROVE  t \in Retain(S)
<1>1. PICK g \in Generations : t \in Kept(g, E)
    BY DEF Retain
<1>2. t \in Kept(g, S)
    BY <1>1, KeptAmongFewer
<1> QED BY <1>2 DEF Retain

LEMMA RetainedAreThere ==
    ASSUME NEW S
    PROVE  Retain(S) \subseteq S
BY DEF Retain, Kept

LEMMA KeptIsBounded ==
    ASSUME NEW g \in Generations, NEW S \in SUBSET Times
    PROVE  IsFiniteSet(Kept(g, S)) /\ Cardinality(Kept(g, S)) <= Keep[g]
<1> DEFINE K == Kept(g, S)
           c(t) == Cardinality(NewerKeys(g, t, S))
           f == [t \in K |-> c(t)]
<1>0. S \subseteq Int
    BY BackupAssumption DEF Times
<1>1. K \subseteq S /\ Keep[g] \in Nat
    BY BackupAssumption DEF Kept
<1>2. \A t \in K : c(t) \in 0..(Keep[g] - 1)
    <2> SUFFICES ASSUME NEW t \in K PROVE c(t) \in 0..(Keep[g] - 1)
        OBVIOUS
    <2>1. c(t) \in Nat
        BY <1>1, NewerKeysAreFinite
    <2>2. c(t) < Keep[g]
        BY DEF Kept
    <2> QED BY <1>1, <2>1, <2>2
<1>3. ASSUME NEW t \in K, NEW u \in K, t < u PROVE c(t) # c(u)
    <2>1. NewerKeys(g, u, S) \in SUBSET NewerKeys(g, t, S)
        <3>1. t \in Int /\ u \in Int
            BY <1>0, <1>1
        <3>2. \A n \in S : n > u => n > t
            BY <1>0, <1>3, <3>1
        <3> QED BY <3>2 DEF NewerKeys
    <2>2. Period[g][u] \in NewerKeys(g, t, S) /\ Period[g][u] \notin NewerKeys(g, u, S)
        BY <1>1, <1>3 DEF NewerKeys, Kept
    <2>3. IsFiniteSet(NewerKeys(g, t, S))
        BY <1>1, NewerKeysAreFinite
    <2> QED BY <2>1, <2>2, <2>3, FS_Subset
<1>4. f \in Injection(K, 0..(Keep[g] - 1))
    <2>1. f \in [K -> 0..(Keep[g] - 1)]
        BY <1>2
    <2>2. ASSUME NEW t \in K, NEW u \in K, f[t] = f[u] PROVE t = u
        <3>1. t \in Int /\ u \in Int
            BY <1>0, <1>1
        <3> QED BY <1>3, <2>2, <3>1
    <2> QED BY <2>1, <2>2 DEF Injection, IsInjective
<1>5. IsFiniteSet(0..(Keep[g] - 1)) /\ Cardinality(0..(Keep[g] - 1)) = Keep[g]
    <2>1. 0 \in Int /\ Keep[g] - 1 \in Int /\ Keep[g] # 0
        BY <1>1, BackupAssumption
    <2>2. /\ IsFiniteSet(0..(Keep[g] - 1))
          /\ Cardinality(0..(Keep[g] - 1)) =
                IF 0 > Keep[g] - 1 THEN 0 ELSE (Keep[g] - 1) - 0 + 1
        BY <2>1, FS_Interval
    <2> QED BY <1>1, <2>1, <2>2
<1> QED BY <1>4, <1>5, FS_Injection

LEMMA NewestExists ==
    ASSUME NEW S \in SUBSET Times, S # {}
    PROVE  \E m \in S : \A n \in S : n <= m
<1> DEFINE D == {MaxTime - t : t \in S}
<1>1. MaxTime \in Int /\ \A t \in S : t \in Int /\ t <= MaxTime
    BY BackupAssumption DEF Times
<1>2. \A d \in D : d \in Nat
    BY <1>1
<1>3. PICK t0 \in S : TRUE
    OBVIOUS
<1>4. MaxTime - t0 \in D
    OBVIOUS
<1>5. D \subseteq Nat /\ D # {}
    <2> HIDE DEF D
    <2> QED BY <1>2, <1>4
<1>6. PICK d \in D : \A e \in D : ~(<<e, d>> \in OpToRel(<, Nat))
    <2> HIDE DEF D
    <2> QED BY ONLY <1>5, NatLessThanWellFounded, WFMin
<1>7. \A e \in D : ~(e < d)
    <2> HIDE DEF D
    <2> QED BY <1>2, <1>6 DEF OpToRel
<1>8. PICK m \in S : d = MaxTime - m
    OBVIOUS
<1>9. ASSUME NEW n \in S PROVE n <= m
    <2>1. MaxTime - n \in D
        OBVIOUS
    <2>2. ~(MaxTime - n < MaxTime - m)
        <3> HIDE DEF D
        <3> QED BY <1>7, <1>8, <2>1
    <2>3. n \in Int /\ m \in Int
        BY <1>1
    <2> HIDE DEF D
    <2> QED BY <1>1, <2>2, <2>3
<1> QED BY <1>9

(* The newest dump is kept by every generation, so that it is counted      *)
(* three times.                                                            *)
LEMMA NewestIsKept ==
    ASSUME NEW S \in SUBSET Times, NEW m \in S, \A n \in S : n <= m, NEW g \in Generations
    PROVE  m \in Kept(g, S)
<1>1. NewerKeys(g, m, S) = {}
    <2>1. m \in Int /\ \A n \in S : n \in Int
        BY BackupAssumption DEF Times
    <2>2. \A n \in S : ~(n > m)
        BY <2>1
    <2> QED BY <2>2 DEF NewerKeys
<1>2. Cardinality({}) < Keep[g]
    BY BackupAssumption, FS_EmptySet
<1> QED BY <1>1, <1>2 DEF Kept

Quotas == Keep["daily"] + Keep["weekly"] + Keep["monthly"] - 2

LEMMA RetainIsBounded ==
    ASSUME NEW S \in SUBSET Times
    PROVE  IsFiniteSet(Retain(S)) /\ Cardinality(Retain(S)) <= Quotas
<1> DEFINE A == Kept("daily", S)
           B == Kept("weekly", S)
           C == Kept("monthly", S)
<1>1. Retain(S) = (A \cup B) \cup C
    BY DEF Retain, Generations
<1>2. /\ "daily" \in Generations /\ "weekly" \in Generations /\ "monthly" \in Generations
      /\ \A g \in Generations : Keep[g] \in Nat /\ Keep[g] >= 1
    BY BackupAssumption DEF Generations
<1>3. /\ IsFiniteSet(A) /\ Cardinality(A) <= Keep["daily"]
      /\ IsFiniteSet(B) /\ Cardinality(B) <= Keep["weekly"]
      /\ IsFiniteSet(C) /\ Cardinality(C) <= Keep["monthly"]
    BY <1>2, KeptIsBounded
<1>4. /\ IsFiniteSet(A \cup B)
      /\ Cardinality(A \cup B) = Cardinality(A) + Cardinality(B) - Cardinality(A \cap B)
    BY <1>3, FS_Union
<1>5. /\ IsFiniteSet((A \cup B) \cup C)
      /\ Cardinality((A \cup B) \cup C) =
            Cardinality(A \cup B) + Cardinality(C) - Cardinality((A \cup B) \cap C)
    BY <1>3, <1>4, FS_Union
<1>6. /\ IsFiniteSet(A \cap B) /\ IsFiniteSet((A \cup B) \cap C)
      /\ Cardinality(A) \in Nat /\ Cardinality(B) \in Nat /\ Cardinality(C) \in Nat
      /\ Cardinality(A \cup B) \in Nat
    <2>1. A \cap B \in SUBSET A /\ (A \cup B) \cap C \in SUBSET C
        OBVIOUS
    <2> QED BY <1>3, <1>4, <2>1, FS_Subset, FS_CardinalityType
<1>7. Cardinality(A \cap B) \in Nat /\ Cardinality((A \cup B) \cap C) \in Nat
    BY <1>6, FS_CardinalityType
<1>8. CASE S = {}
    <2>1. (A \cup B) \cup C = {}
        BY <1>8 DEF Kept
    <2>2. Cardinality((A \cup B) \cup C) = 0
        BY <2>1, FS_EmptySet
    <2> QED BY <1>1, <1>2, <1>5, <2>2 DEF Quotas
<1>9. CASE S # {}
    <2>1. PICK m \in S : \A n \in S : n <= m
        BY <1>9, NewestExists
    <2>2. m \in A \cap B /\ m \in (A \cup B) \cap C
        BY <1>2, <2>1, NewestIsKept
    <2>3. Cardinality(A \cap B) >= 1 /\ Cardinality((A \cup B) \cap C) >= 1
        BY <1>6, <1>7, <2>2, FS_EmptySet
    <2> QED BY <1>1, <1>2, <1>3, <1>4, <1>5, <1>6, <1>7, <2>3 DEF Quotas
<1> QED BY <1>8, <1>9

-----------------------------------------------------------------------------
(* Selection: the loop keeps what the rule keeps.                          *)
Looked == listed \ todo
Keys(g) == {Period[g][n] : n \in Looked}

(* The keys of a generation are those of all the dumps looked at, until    *)
(* there are enough of them.                                               *)
KeysSeen(g) ==
    /\ seen[g] \subseteq Keys(g)
    /\ IsFiniteSet(seen[g])
    /\ Cardinality(seen[g]) <= Keep[g]
    /\ Cardinality(seen[g]) < Keep[g] => seen[g] = Keys(g)

SelectionInv ==
    /\ listed \in SUBSET Times
    /\ todo \subseteq listed
    /\ \A n \in todo, m \in Looked : n < m
    /\ \A g \in Generations : KeysSeen(g)
    /\ seen = [g \in Generations |-> seen[g]]
    /\ retained = Retain(listed) \ todo

(* The keys of the newer dumps are the keys the loop has met.              *)
LEMMA NewerAreLooked ==
    ASSUME SelectionInv, NEW t \in todo, \A n \in todo : n <= t, NEW g \in Generations
    PROVE  NewerKeys(g, t, listed) = Keys(g)
<1>1. listed \subseteq Int
    BY BackupAssumption DEF SelectionInv, Times
<1>2. \A n \in listed : n > t <=> n \in Looked
    <2>1. t \in Int /\ \A n \in todo : n \in Int /\ ~(n > t)
        BY <1>1 DEF SelectionInv
    <2>2. \A n \in Looked : n > t
        BY <1>1, <2>1 DEF SelectionInv, Looked
    <2> QED BY <2>1, <2>2 DEF Looked
<1>3. {n \in listed : n > t} = Looked
    BY <1>2 DEF Looked
<1> QED BY <1>3 DEF NewerKeys, Keys

(* A generation takes the next dump exactly when the rule keeps it.        *)
LEMMA TakesWhatIsKept ==
    ASSUME SelectionInv, NEW t \in todo, \A n \in todo : n <= t, NEW g \in Generations
    PROVE  Takes(g, t) <=> t \in Kept(g, listed)
<1>1. NewerKeys(g, t, listed) = Keys(g)
    BY NewerAreLooked
<1>2. t \in listed /\ t \in Times /\ listed \in SUBSET Times
    BY DEF SelectionInv
<1>3. IsFiniteSet(Keys(g)) /\ Cardinality(Keys(g)) \in Nat
    BY <1>1, <1>2, NewerKeysAreFinite
<1>4. KeysSeen(g)
    BY DEF SelectionInv
<1>5. Cardinality(seen[g]) <= Cardinality(Keys(g)) /\ Cardinality(seen[g]) \in Nat
    BY <1>3, <1>4, FS_Subset, FS_CardinalityType DEF KeysSeen
<1>6. Keep[g] \in Nat
    BY BackupAssumption
<1>7. Cardinality(seen[g]) < Keep[g] <=> Cardinality(Keys(g)) < Keep[g]
    <2>1. Cardinality(seen[g]) < Keep[g] => seen[g] = Keys(g)
        BY <1>4 DEF KeysSeen
    <2>2. Cardinality(Keys(g)) < Keep[g] => Cardinality(seen[g]) < Keep[g]
        BY <1>3, <1>5, <1>6
    <2> QED BY <2>1, <2>2
<1>8. Cardinality(seen[g]) < Keep[g] => seen[g] = Keys(g)
    BY <1>4 DEF KeysSeen
<1>9. t \in Kept(g, listed)
          <=> Cardinality(Keys(g)) < Keep[g] /\ Period[g][t] \notin Keys(g)
    BY <1>1, <1>2 DEF Kept
<1> QED BY <1>7, <1>8, <1>9 DEF Takes

LEMMA LookKeeps ==
    ASSUME SelectionInv, NEW t \in todo, Look(t)
    PROVE  SelectionInv'
<1>1. /\ \A n \in todo : n <= t
      /\ todo' = todo \ {t} /\ listed' = listed
      /\ listed \in SUBSET Times /\ todo \subseteq listed
    BY DEF Look, SelectionInv
<1>2. Looked' = Looked \cup {t}
    BY <1>1 DEF Looked
<1>3. \A n \in todo', m \in Looked' : n < m
    <2>1. \A n \in todo : n \in Int
        BY <1>1, BackupAssumption DEF Times
    <2>2. \A n \in todo \ {t} : n < t
        BY <1>1, <2>1
    <2> QED BY <1>1, <1>2, <2>2 DEF SelectionInv
<1>4. seen' = [g \in Generations |->
                  IF Takes(g, t) THEN seen[g] \cup {Period[g][t]} ELSE seen[g]]
    BY DEF Look
<1>5. ASSUME NEW g \in Generations PROVE KeysSeen(g)'
    <2>1. Keys(g)' = Keys(g) \cup {Period[g][t]}
        BY <1>2 DEF Keys
    <2>2. KeysSeen(g) /\ Keep[g] \in Nat /\ Cardinality(seen[g]) \in Nat
        BY BackupAssumption, FS_CardinalityType DEF SelectionInv, KeysSeen
    <2>3. CASE Takes(g, t)
        <3>1. seen'[g] = seen[g] \cup {Period[g][t]}
            BY <1>4, <2>3
        <3>2. seen[g] = Keys(g) /\ Period[g][t] \notin seen[g] /\ Cardinality(seen[g]) < Keep[g]
            BY <2>2, <2>3 DEF Takes, KeysSeen
        <3>3. /\ IsFiniteSet(seen[g] \cup {Period[g][t]})
              /\ Cardinality(seen[g] \cup {Period[g][t]}) = Cardinality(seen[g]) + 1
            BY <2>2, <3>2, FS_AddElement DEF KeysSeen
        <3>4. Cardinality(seen'[g]) <= Keep[g]
            BY <2>2, <3>1, <3>2, <3>3
        <3> QED BY <2>1, <3>1, <3>2, <3>3, <3>4 DEF KeysSeen
    <2>4. CASE ~Takes(g, t)
        <3>1. seen'[g] = seen[g]
            BY <1>4, <2>4
        <3>2. Cardinality(seen[g]) < Keep[g] => Period[g][t] \in Keys(g)
            BY <2>2, <2>4 DEF Takes, KeysSeen
        <3> QED BY <2>1, <2>2, <3>1, <3>2 DEF KeysSeen
    <2> QED BY <2>3, <2>4
<1>6. retained' = Retain(listed)' \ todo'
    <2>1. (\E g \in Generations : Takes(g, t)) <=> t \in Retain(listed)
        BY <1>1, TakesWhatIsKept DEF Retain
    <2>2. retained' = retained \cup {n \in {t} : \E g \in Generations : Takes(g, n)}
        BY DEF Look
    <2>3. retained = Retain(listed) \ todo
        BY DEF SelectionInv
    <2>4. Retain(listed)' = Retain(listed)
        BY <1>1
    <2> QED BY <1>1, <2>1, <2>2, <2>3, <2>4
<1>7. seen' = [g \in Generations |-> seen'[g]]
    BY <1>4
<1> QED BY <1>1, <1>3, <1>5, <1>6, <1>7 DEF SelectionInv

(* Before the loop, and outside the function.                              *)
NothingDone ==
    listed \in SUBSET Times /\ todo = listed /\ seen = NothingSeen /\ retained = {}

LEMMA NothingDoneStarts == (NothingDone => SelectionInv) /\ (NothingDone' => SelectionInv')
<1>1. NothingDone => SelectionInv
    <2> SUFFICES ASSUME NothingDone PROVE SelectionInv
        OBVIOUS
    <2>1. listed \in SUBSET Times /\ todo = listed /\ retained = {} /\ Looked = {}
        BY DEF NothingDone, Looked
    <2>2. seen = [g \in Generations |-> {}]
        BY DEF NothingDone, NothingSeen
    <2>3. ASSUME NEW g \in Generations PROVE KeysSeen(g)
        <3>1. Keys(g) = {} /\ seen[g] = {}
            BY <2>1, <2>2 DEF Keys
        <3>2. IsFiniteSet({}) /\ Cardinality({}) = 0 /\ Keep[g] \in Nat
            BY FS_EmptySet, BackupAssumption
        <3> QED BY <3>1, <3>2 DEF KeysSeen
    <2>4. retained = Retain(listed) \ todo
        BY <2>1, RetainedAreThere
    <2> QED BY <2>1, <2>2, <2>3, <2>4 DEF SelectionInv
<1> QED BY <1>1, PTL

(* A run selects from what is in Drive.                                    *)
SelectingInv == SelectionInv /\ (pc = "select" => listed = Present(remote))

LEMMA SelectingStays == SelectingInv /\ [Next]_vars => SelectingInv'
<1> SUFFICES ASSUME SelectingInv, [Next]_vars PROVE SelectingInv'
    OBVIOUS
<1>1. ASSUME UNCHANGED loopVars PROVE SelectionInv'
    BY <1>1 DEF loopVars, SelectingInv, SelectionInv, KeysSeen, Keys, Looked
<1>2. Present(remote) \in SUBSET Times
    BY DEF Present
<1>a. CASE ListDumps
    <2>1. CASE BeginSelection(Present(remote))
        <3>1. NothingDone' /\ listed' = Present(remote) /\ remote' = remote
            BY <1>a, <1>2, <2>1 DEF ListDumps, BeginSelection, NothingDone, NothingSeen, fileVars
        <3> QED BY <3>1, NothingDoneStarts DEF SelectingInv, Present
    <2>2. CASE Fails /\ UNCHANGED loopVars
        BY <1>1, <2>2 DEF Fails, Exit, SelectingInv
    <2> QED BY <1>a, <2>1, <2>2 DEF ListDumps
<1>b. CASE Select
    <2>1. PICK t \in todo : Look(t)
        BY <1>b DEF Select
    <2>2. SelectionInv'
        BY <2>1, LookKeeps DEF SelectingInv
    <2> QED BY <1>b, <2>1, <2>2 DEF Select, Look, SelectingInv, Present, fileVars
<1>c. ASSUME NEW victims \in SUBSET Victims, Prune(victims) PROVE SelectingInv'
    <2>1. NothingDone' /\ pc' # "select"
        BY <1>c DEF Prune, EndSelection, NothingDone, NothingSeen, Goto, Fails, Exit
    <2> QED BY <2>1, NothingDoneStarts DEF SelectingInv
<1>d. CASE UNCHANGED vars
    <2>1. UNCHANGED loopVars /\ UNCHANGED <<pc, remote>>
        BY <1>d DEF vars, fileVars
    <2>2. listed' = listed
        BY <2>1 DEF loopVars
    <2> QED BY <1>1, <2>1, <2>2 DEF SelectingInv, Present
<1>e. ASSUME UNCHANGED loopVars, pc' # "select" PROVE SelectingInv'
    BY <1>1, <1>e DEF SelectingInv
<1>f. CASE TimePasses \/ PgDump \/ PgDumpFails \/ SkipPrune \/ KeepLocals \/ EndRun
    BY <1>e, <1>f DEF TimePasses, PgDump, PgDumpFails, SkipPrune, KeepLocals, EndRun, Goto,
        Fails, Exit
<1>g. ASSUME NEW flag \in BOOLEAN, Start(flag) \/ Confirm(flag) \/ VerifyRestore(flag)
      PROVE  SelectingInv'
    BY <1>e, <1>g DEF Start, Confirm, VerifyRestore, Fails, Exit
<1>h. ASSUME NEW dump \in Dump, Upload(dump) PROVE SelectingInv'
    BY <1>e, <1>h DEF Upload, Goto, Fails, Exit
<1>i. ASSUME NEW olds \in SUBSET OldLocals, CleanUp(olds) PROVE SelectingInv'
    BY <1>e, <1>i DEF CleanUp, Goto, Fails, Exit
<1> QED BY <1>a, <1>b, <1>c, <1>d, <1>f, <1>g, <1>h, <1>i DEF Next

LEMMA SelectingInvariant == Spec => []SelectingInv
<1>1. Init => SelectingInv
    <2> SUFFICES ASSUME Init PROVE SelectingInv
        OBVIOUS
    <2>1. NothingDone /\ pc = "idle"
        BY DEF Init, NotSelecting, NothingDone
    <2> QED BY <2>1, NothingDoneStarts DEF SelectingInv
<1> QED BY <1>1, SelectingStays, PTL DEF Spec

(* For every listing, quota and calendar the loop, with its three sets of  *)
(* keys and one set of names, retains what the rule does.                  *)
THEOREM LoopFollowsTheRule == Spec => []SelectionIsTheRule
<1>1. SelectingInv => SelectionIsTheRule
    BY DEF SelectingInv, SelectionInv, SelectionIsTheRule
<1> QED BY <1>1, SelectingInvariant, PTL

(* So the victims are what the rule gives up of the dumps in Drive.        *)
LEMMA VictimsByTheRule ==
    ASSUME SelectingInv, NEW victims, Prune(victims)
    PROVE  Victims = (Present(remote) \ Retain(Present(remote))) \ {name}
<1>1. todo = {} /\ listed = Present(remote)
    BY DEF Prune, EndSelection, SelectingInv
<1>2. retained = Retain(listed)
    BY <1>1 DEF SelectingInv, SelectionInv
<1> QED BY <1>1, <1>2 DEF Victims

-----------------------------------------------------------------------------
(* The dump of a run is the newest of everything there is, and what a run  *)
(* has reached says what it has left behind.                               *)
Earlier(dumps, t) == \A n \in Times : dumps[n] # "none" => n < t

Newest ==
    /\ \A n \in Times : local[n] # "none" \/ arrived[n] # "none" \/ n \in dumped =>
            n <= name /\ n < now
    /\ pc # "idle" => name < now
    /\ pc = "dump" =>
            Earlier(local, name) /\ Earlier(arrived, name) /\ \A n \in dumped : n < name
    /\ pc = "upload" => Earlier(arrived, name)

Copied == \A n \in Times : remote[n] \in {"none", arrived[n]}

Reached ==
    /\ pc \notin {"idle", "dump"} => local[name] = "whole" /\ name \in dumped
    /\ confirmed => pc \in {"prune", "select", "clean", "verify", "end"} /\ remote[name] = "whole"

(* A run that was confirmed has seen its dump arrive whole, and no later   *)
(* run uploads anything under its name.                                    *)
Succeeded ==
    /\ pc = "idle" /\ exitCode = 0 => remote[name] = "whole"
    /\ \A t \in succeeded : arrived[t] = "whole"

BackupInv ==
    TypeOK /\ Newest /\ Copied /\ Reached
        /\ GenerationsKept /\ NewestDumpSafe /\ Succeeded

LEMMA InitBackup == Init => BackupInv
<1> SUFFICES ASSUME Init PROVE BackupInv
    OBVIOUS
<1>1. 0 \in Times
    BY BackupAssumption DEF Times
<1>2. Present(arrived) = {}
    BY DEF Init, Present
<1>3. Retain(Present(arrived)) = {}
    BY <1>2, RetainedAreThere
<1>4. TypeOK
    BY <1>1 DEF Init, NotSelecting, TypeOK, Dump
<1>5. GenerationsKept
    BY <1>3 DEF GenerationsKept
<1>6. Newest /\ Copied /\ Reached
    BY DEF Init, Newest, Copied, Reached
<1>7. NewestDumpSafe /\ Succeeded
    BY DEF Init, NewestDumpSafe, Succeeded
<1> QED BY <1>4, <1>5, <1>6, <1>7 DEF BackupInv

LEMMA TypesStay == TypeOK /\ [Next]_vars => TypeOK'
<1> SUFFICES ASSUME TypeOK, [Next]_vars PROVE TypeOK'
    OBVIOUS
<1> USE DEF TypeOK, loopVars
<1>1. "none" \in Dump /\ "whole" \in Dump /\ "broken" \in Dump
    BY DEF Dump
<1>2. now < MaxTime => now + 1 \in Times
    BY BackupAssumption DEF Times
<1>3. ASSUME NEW dumps \in [Times -> Dump], NEW victims
      PROVE  Deleted(dumps, victims) \in [Times -> Dump]
    BY <1>1 DEF Deleted
<1>a. CASE TimePasses
    BY <1>a, <1>2 DEF TimePasses, fileVars
<1>b. ASSUME NEW prune \in BOOLEAN, Start(prune) PROVE TypeOK'
    BY <1>b, <1>2 DEF Start, fileVars
<1>c. CASE PgDump
    <2>1. local' \in [Times -> Dump] /\ dumped' \in SUBSET Times
        BY <1>c, <1>1 DEF PgDump
    <2> QED BY <1>c, <2>1 DEF PgDump, Goto, clockVars
<1>d. CASE PgDumpFails
    <2>1. local' \in [Times -> Dump]
        BY <1>d, <1>1 DEF PgDumpFails
    <2> QED BY <1>d, <2>1 DEF PgDumpFails, Fails, Exit, clockVars
<1>e. ASSUME NEW dump \in Dump, Upload(dump) PROVE TypeOK'
    BY <1>e DEF Upload, Goto, Fails, Exit, clockVars
<1>f. ASSUME NEW hashed \in BOOLEAN, Confirm(hashed) PROVE TypeOK'
    BY <1>f DEF Confirm, clockVars, fileVars
<1>g. ASSUME NEW victims \in SUBSET Victims, Prune(victims) PROVE TypeOK'
    BY <1>g, <1>3 DEF Prune, EndSelection, Goto, Fails, Exit, clockVars
<1>n. CASE ListDumps
    <2>1. Present(remote) \in SUBSET Times
        BY DEF Present
    <2> QED BY <1>n, <2>1 DEF ListDumps, BeginSelection, Goto, Fails, Exit, clockVars, fileVars
<1>o. CASE Select
    BY <1>o DEF Select, Look, clockVars, fileVars
<1>h. CASE SkipPrune
    BY <1>h DEF SkipPrune, Goto, clockVars, fileVars
<1>i. ASSUME NEW olds \in SUBSET OldLocals, CleanUp(olds) PROVE TypeOK'
    BY <1>i, <1>3 DEF CleanUp, Goto, Fails, Exit, clockVars
<1>j. CASE KeepLocals
    BY <1>j DEF KeepLocals, Goto, clockVars, fileVars
<1>k. ASSUME NEW sourceStable \in BOOLEAN, VerifyRestore(sourceStable) PROVE TypeOK'
    BY <1>k DEF VerifyRestore, Fails, Exit, clockVars, fileVars
<1>l. CASE EndRun
    BY <1>l DEF EndRun, Exit, clockVars, fileVars
<1>m. CASE UNCHANGED vars
    BY <1>m DEF vars, clockVars, fileVars
<1> QED BY <1>a, <1>b, <1>c, <1>d, <1>e, <1>f, <1>g, <1>h, <1>i, <1>j, <1>k, <1>l, <1>m,
        <1>n, <1>o DEF Next

(* A step that leaves the files and the clock alone, and goes on or fails. *)
LEMMA FilesUntouched ==
    ASSUME BackupInv, TypeOK', UNCHANGED <<clockVars, fileVars>>,
           pc # "idle", pc' = "dump" => pc = "dump", pc' = "upload" => pc = "upload",
           pc' \notin {"idle", "dump"} => pc \notin {"idle", "dump"},
           confirmed' => /\ pc' \in {"prune", "select", "clean", "verify", "end"}
                         /\ remote[name] = "whole",
           pc' = "idle" /\ exitCode' = 0 => remote[name] = "whole",
           succeeded' \subseteq succeeded \cup {t \in {name} : remote[t] = "whole"}
    PROVE  BackupInv'
BY DEF BackupInv, TypeOK, Newest, Earlier, Copied, Reached, GenerationsKept, NewestDumpSafe,
    Succeeded, Present, clockVars, fileVars

LEMMA StartKeeps ==
    ASSUME BackupInv, TypeOK', NEW prune \in BOOLEAN, Start(prune)
    PROVE  BackupInv'
<1> USE DEF BackupInv, Start, fileVars
<1>1. Newest'
    BY BackupAssumption DEF Newest, Earlier, TypeOK, Times
<1>2. Copied' /\ Reached'
    BY DEF Copied, Reached
<1>3. GenerationsKept' /\ NewestDumpSafe' /\ Succeeded'
    BY DEF GenerationsKept, NewestDumpSafe, Succeeded, Present
<1> QED BY <1>1, <1>2, <1>3

LEMMA TimeKeeps ==
    ASSUME BackupInv, TypeOK', TimePasses
    PROVE  BackupInv'
<1> USE DEF BackupInv, TimePasses, fileVars
<1>1. Newest'
    BY BackupAssumption DEF Newest, Earlier, TypeOK, Times
<1>2. Copied' /\ Reached'
    BY DEF Copied, Reached
<1>3. GenerationsKept' /\ NewestDumpSafe' /\ Succeeded'
    BY DEF GenerationsKept, NewestDumpSafe, Succeeded, Present
<1> QED BY <1>1, <1>2, <1>3

(* pg_dump writes a file that was not there; when it finishes, that is the *)
(* newest dump, and when it fails the newest is the one it was.            *)
LEMMA DumpKeeps ==
    ASSUME BackupInv, TypeOK', PgDump \/ PgDumpFails
    PROVE  BackupInv'
<1> USE DEF BackupInv, PgDump, PgDumpFails, Goto, Fails, Exit, clockVars
<1>1. Newest'
    BY BackupAssumption DEF Newest, Earlier, TypeOK, Times
<1>2. Copied'
    BY DEF Copied
<1>3. Reached'
    BY DEF Reached, TypeOK, Newest, Copied
<1>4. GenerationsKept' /\ Succeeded'
    BY DEF GenerationsKept, Succeeded, Present, Reached
<1>5. NewestDumpSafe'
    BY DEF NewestDumpSafe, Newest, TypeOK, Times
<1> QED BY <1>1, <1>2, <1>3, <1>4, <1>5

(* What arrives is the newest of all that ever arrived: it takes nothing   *)
(* from the others but their places.                                       *)
LEMMA UploadKeeps ==
    ASSUME BackupInv, TypeOK', NEW dump \in Dump, Upload(dump)
    PROVE  BackupInv'
<1> USE DEF BackupInv, Upload, Goto, Fails, Exit, clockVars
<1>1. Newest'
    BY BackupAssumption DEF Newest, Earlier, TypeOK, Times
<1>2. Copied'
    BY DEF Copied, TypeOK
<1>3. Reached'
    BY DEF Reached, TypeOK
<1>7. Succeeded'
    <2>1. \A t \in succeeded : t \in Times /\ arrived[t] # "none"
        BY DEF Succeeded, TypeOK
    <2>2. name \notin succeeded
        BY <2>1 DEF Newest, Earlier, TypeOK, Times
    <2> QED BY <2>2 DEF TypeOK, Succeeded
<1>4. ASSUME NEW t \in Retain(Present(arrived')) PROVE remote'[t] = arrived'[t]
    <2>1. t \in Present(arrived') /\ Present(arrived') \in SUBSET Times
        BY <1>4, RetainedAreThere DEF Present
    <2>2. CASE t = name
        BY <2>1, <2>2 DEF TypeOK
    <2>3. CASE t # name
        <3>1. /\ Present(arrived) \in SUBSET Present(arrived')
              /\ t \in Present(arrived)
            BY <2>1, <2>3 DEF Present, Newest, Earlier, TypeOK, Times
        <3>2. t \in Retain(Present(arrived))
            BY <1>4, <2>1, <3>1, RetainedAmongFewer
        <3> QED BY <2>3, <3>2 DEF GenerationsKept, TypeOK
    <2> QED BY <2>2, <2>3
<1>5. GenerationsKept'
    BY <1>4 DEF GenerationsKept, Present, Retain, Kept, NewerKeys
<1>6. NewestDumpSafe'
    BY DEF NewestDumpSafe, Newest, Reached, TypeOK, Times
<1> QED BY <1>1, <1>2, <1>3, <1>5, <1>6, <1>7

(* A prune takes what a decision over the dumps in Drive gives up, and a   *)
(* decision over all that ever arrived would have given that up too.       *)
LEMMA PruneKeeps ==
    ASSUME BackupInv, SelectingInv, TypeOK', NEW victims \in SUBSET Victims, Prune(victims)
    PROVE  BackupInv'
<1> USE DEF BackupInv, Prune, Goto, Fails, Exit, clockVars
<1>1. /\ remote'[name] = remote[name]
      /\ \A t \in Times : remote'[t] = IF t \in victims THEN "none" ELSE remote[t]
    BY DEF Deleted, Victims, TypeOK
<1>2. Newest'
    BY DEF Newest, Earlier
<1>3. Copied'
    BY <1>1 DEF Copied
<1>4. Reached'
    <2>1. local' = local /\ name' = name /\ dumped' = dumped
        OBVIOUS
    <2>2. CASE Goto("clean")
        BY <1>1, <2>1, <2>2 DEF Reached
    <2>3. CASE Fails
        BY <2>1, <2>3 DEF Reached
    <2> QED BY <2>2, <2>3
<1>8. Succeeded'
    BY DEF Succeeded
<1>5. ASSUME NEW t \in Retain(Present(arrived')) PROVE remote'[t] = arrived'[t]
    <2> arrived' = arrived
        OBVIOUS
    <2>1. remote[t] = arrived[t]
        BY DEF GenerationsKept
    <2>2. t \in Present(arrived)
        BY RetainedAreThere
    <2>3. Present(remote) \in SUBSET Present(arrived) /\ t \in Present(remote)
        BY <2>1, <2>2 DEF Present, Copied
    <2>4. Present(arrived) \in SUBSET Times
        BY DEF Present
    <2>5. t \in Retain(Present(remote))
        BY <2>3, <2>4, RetainedAmongFewer
    <2> QED BY <1>1, <2>1, <2>2, <2>5, VictimsByTheRule DEF Present
<1>6. GenerationsKept'
    BY <1>5 DEF GenerationsKept, Present, Retain, Kept, NewerKeys
<1>7. NewestDumpSafe'
    BY DEF NewestDumpSafe, Newest, Reached, TypeOK, Times
<1> QED BY <1>2, <1>3, <1>4, <1>6, <1>7, <1>8

(* Nothing in the directory is newer than the new dump: it is not old.     *)
LEMMA CleanUpKeeps ==
    ASSUME BackupInv, TypeOK', NEW olds \in SUBSET OldLocals, CleanUp(olds)
    PROVE  BackupInv'
<1> USE DEF BackupInv, CleanUp, Goto, Fails, Exit, clockVars
<1>1. name \notin OldLocals
    <2>1. {n \in Present(local) : n > name} = {}
        BY DEF Present, Newest, TypeOK, Times
    <2> QED BY <2>1, FS_EmptySet DEF OldLocals
<1>2. /\ local'[name] = local[name]
      /\ \A t \in Times : local'[t] \in {"none", local[t]}
    BY <1>1 DEF Deleted, TypeOK
<1>3. Newest'
    BY <1>2 DEF Newest, Earlier
<1>4. Copied' /\ Reached' /\ Succeeded'
    BY <1>2 DEF Copied, Reached, Succeeded
<1>5. GenerationsKept'
    BY DEF GenerationsKept, Present
<1>6. NewestDumpSafe'
    BY <1>2 DEF NewestDumpSafe, Newest, Reached, TypeOK, Times
<1> QED BY <1>3, <1>4, <1>5, <1>6

LEMMA StepKeeps == BackupInv /\ SelectingInv /\ [Next]_vars => BackupInv'
<1> SUFFICES ASSUME BackupInv, SelectingInv, [Next]_vars PROVE BackupInv'
    OBVIOUS
<1>t. TypeOK'
    BY TypesStay DEF BackupInv
<1>a. CASE TimePasses
    BY <1>a, <1>t, TimeKeeps
<1>b. ASSUME NEW prune \in BOOLEAN, Start(prune) PROVE BackupInv'
    BY <1>b, <1>t, StartKeeps
<1>c. CASE PgDump \/ PgDumpFails
    BY <1>c, <1>t, DumpKeeps
<1>e. ASSUME NEW dump \in Dump, Upload(dump) PROVE BackupInv'
    BY <1>e, <1>t, UploadKeeps
<1>f. ASSUME NEW hashed \in BOOLEAN, Confirm(hashed) PROVE BackupInv'
    BY <1>f, <1>t, FilesUntouched DEF Confirm, BackupInv, Reached
<1>g. ASSUME NEW victims \in SUBSET Victims, Prune(victims) PROVE BackupInv'
    BY <1>g, <1>t, PruneKeeps
<1>h. CASE SkipPrune
    BY <1>h, <1>t, FilesUntouched DEF SkipPrune, Goto, BackupInv, Reached
<1>i. ASSUME NEW olds \in SUBSET OldLocals, CleanUp(olds) PROVE BackupInv'
    BY <1>i, <1>t, CleanUpKeeps
<1>j. CASE KeepLocals
    BY <1>j, <1>t, FilesUntouched DEF KeepLocals, Goto, BackupInv, Reached
<1>k. ASSUME NEW sourceStable \in BOOLEAN, VerifyRestore(sourceStable) PROVE BackupInv'
    BY <1>k, <1>t, FilesUntouched DEF VerifyRestore, Fails, Exit, BackupInv, Reached
<1>l. CASE EndRun
    BY <1>l, <1>t, FilesUntouched DEF EndRun, Exit, BackupInv, Reached
<1>n. CASE ListDumps
    <2>1. pc = "prune" /\ UNCHANGED <<clockVars, fileVars>> /\ succeeded' = succeeded
        BY <1>n DEF ListDumps
    <2>2. CASE Goto("select")
        BY <1>t, <2>1, <2>2, FilesUntouched DEF Goto, BackupInv, Reached
    <2>3. CASE Fails
        BY <1>t, <2>1, <2>3, FilesUntouched DEF Fails, Exit
    <2> QED BY <1>n, <2>2, <2>3 DEF ListDumps
<1>o. UNCHANGED <<clockVars, prunes, pc, confirmed, exitCode, fileVars, succeeded>>
        => BackupInv'
    BY <1>t DEF clockVars, fileVars, BackupInv, Newest, Earlier, Copied, Reached,
        GenerationsKept, NewestDumpSafe, Succeeded, Present
<1>m. CASE Select \/ UNCHANGED vars
    BY <1>m, <1>o DEF Select, vars
<1> QED BY <1>a, <1>b, <1>c, <1>e, <1>f, <1>g, <1>h, <1>i, <1>j, <1>k, <1>l, <1>m, <1>n
        DEF Next

(* The inductive invariant holds throughout. *)
THEOREM BackupInvariant == Spec => []BackupInv
<1>1. Init => BackupInv
    BY InitBackup
<1>2. BackupInv /\ SelectingInv /\ [Next]_vars => BackupInv'
    BY StepKeeps
<1> QED BY <1>1, <1>2, SelectingInvariant, PTL DEF Spec

(* Every variable of the backup script keeps its type. *)
THEOREM TypeCorrect == Spec => []TypeOK
<1>1. BackupInv => TypeOK
    BY DEF BackupInv
<1> QED BY <1>1, BackupInvariant, PTL

(* Night after night, for any quotas and any calendar, the deletions lose  *)
(* nothing that one decision over every dump ever uploaded would keep.     *)
THEOREM GenerationsAreKept == Spec => []GenerationsKept
<1>1. BackupInv => GenerationsKept
    BY DEF BackupInv
<1> QED BY <1>1, BackupInvariant, PTL

(* The newest finished dump is always whole on the disk or in Drive.       *)
THEOREM NewestDumpIsSafe == Spec => []NewestDumpSafe
<1>1. BackupInv => NewestDumpSafe
    BY DEF BackupInv
<1> QED BY <1>1, BackupInvariant, PTL

(* After a run that reported success its dump is whole in Drive, and stays *)
(* there while some generation still wants it among all that ever arrived. *)
THEOREM SuccessIsABackup == Spec => []SuccessMeansBackup
<1>1. BackupInv => SuccessMeansBackup
    BY DEF BackupInv, Succeeded, GenerationsKept, SuccessMeansBackup
<1> QED BY <1>1, BackupInvariant, PTL

LEMMA FinishedPruneIsBounded ==
    ASSUME BackupInv, SelectingInv, Prune(Victims), TypeOK', pc' = "clean"
    PROVE  Cardinality(Present(remote')) <= Quotas
<1> DEFINE P == Present(remote)
<1>1. P \in SUBSET Times
    BY DEF Present
<1>2. Present(remote') = P \ Victims
    BY DEF Prune, Deleted, Present
<1>3. P \ Victims \in SUBSET Retain(P)
    <2> SUFFICES ASSUME NEW t \in P, t \notin Victims PROVE t \in Retain(P)
        OBVIOUS
    <2>1. CASE t = name
        <3>1. \A n \in P : n <= name
            BY DEF BackupInv, Copied, Newest, Present
        <3>2. name \in Kept("daily", P)
            BY <1>1, <2>1, <3>1, NewestIsKept DEF Generations
        <3> QED BY <2>1, <3>2 DEF Retain, Generations
    <2>2. CASE t # name
        BY <2>2, VictimsByTheRule
    <2> QED BY <2>1, <2>2
<1>4. IsFiniteSet(Retain(P)) /\ Cardinality(Retain(P)) <= Quotas
    BY <1>1, RetainIsBounded
<1>5. /\ IsFiniteSet(P \ Victims)
      /\ Cardinality(P \ Victims) <= Cardinality(Retain(P))
    BY <1>3, <1>4, FS_Subset
<1>6. /\ Cardinality(P \ Victims) \in Nat /\ Cardinality(Retain(P)) \in Nat
      /\ Quotas \in Int
    BY <1>4, <1>5, FS_CardinalityType, BackupAssumption DEF Quotas, Generations
<1> QED BY <1>2, <1>4, <1>5, <1>6

(* For any quotas and any calendar, what a finished prune leaves in Drive  *)
(* is bounded by the quotas alone.                                         *)
THEOREM RemoteIsBounded == Spec => []RemoteBounded
<1>1. Init => RemoteBounded
    BY DEF Init, RemoteBounded
<1>2. BackupInv /\ BackupInv' /\ SelectingInv /\ RemoteBounded /\ [Next]_vars
        => RemoteBounded'
    <2> SUFFICES ASSUME BackupInv, BackupInv', SelectingInv, RemoteBounded, [Next]_vars,
                        pc' = "clean", prunes'
                 PROVE  Cardinality(Present(remote')) <= Quotas
        BY DEF RemoteBounded, Quotas, Present
    <2>1. CASE \E victims \in SUBSET Victims : Prune(victims)
        BY <2>1, FinishedPruneIsBounded DEF Prune, Fails, Exit, BackupInv
    <2>2. CASE UNCHANGED vars
        BY <2>2 DEF vars, fileVars, RemoteBounded, Quotas
    <2>3. CASE SkipPrune
        BY <2>3 DEF SkipPrune, Goto
    <2>4. CASE Select
        BY <2>4 DEF Select, fileVars, RemoteBounded, Quotas
    <2> QED BY <2>1, <2>2, <2>3, <2>4 DEF Next, TimePasses, Start, PgDump, PgDumpFails, Upload,
            Confirm, ListDumps, CleanUp, KeepLocals, VerifyRestore, EndRun, Goto, Fails, Exit
<1> QED BY <1>1, <1>2, BackupInvariant, SelectingInvariant, PTL DEF Spec

-----------------------------------------------------------------------------
(* The weeks of the weekly generation.                                     *)
LEMMA ThursdayOfAWeek ==
    ASSUME NEW d \in Int
    PROVE  Thursday(d) = 7 * ((d + 3) \div 7)
<1> DEFINE q == (d + 3) \div 7
           r == (d + 3) % 7
<1>1. d + 3 = 7 * q + r /\ q \in Int /\ r \in Int
    OBVIOUS
<1> QED BY <1>1 DEF Thursday, Weekday

LEMMA YearOfAWeekKey ==
    ASSUME NEW d \in Int, \E y \in DOMAIN YearStart : InYear(Thursday(d), y)
    PROVE  LET y == CHOOSE y \in DOMAIN YearStart : InYear(Thursday(d), y)
           IN  /\ y \in DOMAIN YearStart
               /\ WeekKey(d) = <<y, (Thursday(d) - YearStart[y] + 1 + 6) \div 7>>
BY DEF WeekKey

(* Two days have the same week key if and only if one week, Monday to      *)
(* Sunday, has both, also when it has days of two years: the key takes the *)
(* year from the Thursday, never from the day.                             *)
THEOREM WeekKeysAreWeeks ==
    ASSUME NEW d \in Int, NEW e \in Int,
           \A y \in DOMAIN YearStart : YearStart[y] \in Int,
           \E y \in DOMAIN YearStart : InYear(Thursday(d), y),
           \E y \in DOMAIN YearStart : InYear(Thursday(e), y)
    PROVE  WeekKey(d) = WeekKey(e) <=> (d + 3) \div 7 = (e + 3) \div 7
<1> DEFINE p == (d + 3) \div 7
           q == (e + 3) \div 7
<1>1. p \in Int /\ q \in Int /\ Thursday(d) = 7 * p /\ Thursday(e) = 7 * q
    BY ThursdayOfAWeek
<1>2. p = q => WeekKey(d) = WeekKey(e)
    BY <1>1 DEF WeekKey
<1>3. ASSUME WeekKey(d) = WeekKey(e) PROVE p = q
    <2>1. PICK y \in DOMAIN YearStart :
            /\ WeekKey(d) = <<y, (Thursday(d) - YearStart[y] + 1 + 6) \div 7>>
            /\ WeekKey(e) = <<y, (Thursday(e) - YearStart[y] + 1 + 6) \div 7>>
        BY <1>3, YearOfAWeekKey
    <2> DEFINE n == 7 - YearStart[y]
    <2>3. (Thursday(d) - YearStart[y] + 1 + 6) \div 7 = (Thursday(e) - YearStart[y] + 1 + 6) \div 7
        <3>1. \A a, b, c : <<a, b>> = <<a, c>> => b = c
            OBVIOUS
        <3> QED BY <1>3, <2>1, <3>1, Zenon
    <2>4. /\ n \in Int
          /\ Thursday(d) - YearStart[y] + 1 + 6 = 7 * p + n
          /\ Thursday(e) - YearStart[y] + 1 + 6 = 7 * q + n
        BY <1>1
    <2>2. n \in Int /\ (7 * p + n) \div 7 = (7 * q + n) \div 7
        BY <2>3, <2>4
    <2> HIDE DEF p, q, n
    <2> QED BY <1>1, <2>2
<1> QED BY <1>2, <1>3
=============================================================================
